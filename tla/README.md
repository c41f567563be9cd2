# Formal models of the KIBO backend

TLA+ modules, TLC runs and TLAPS proofs about the appointment backend in
`src/`. Every definition is translated from the code; `PROJECT.json` maps each
one to the lines it stands for, and lists the runs, the mutants that show that
each property can fail, the hazards and the theorems.

## 1. The system

One FastAPI process (the Dockerfile starts a single uvicorn) over PostgreSQL at
READ COMMITTED. Two kinds of code run in it:

* synchronous endpoints, on a thread pool: truly concurrent, and interleaved
  between any two SQL statements;
* coroutines on one event loop: the WhatsApp webhook, the outbox worker and the
  reminder jobs, interleaved with each other only at an `await`, which in this
  code is always a call to the provider (Evolution API) or a sleep.

The session has `autoflush=False` and expires its objects on commit; an UPDATE
writes only the columns whose value differs from the loaded one. Nothing takes
a row lock except the outbox's `claim_pending_batch`.

| Component | State it keeps | Operations that change it | What makes it correct |
|---|---|---|---|
| Appointments | `appointments`: staff, date, start, end, status | create, PATCH, reschedule, cancel, change status; marking past rows attended while listing; replies and automatic booking of the webhook | nobody is booked twice; an appointment has one whole slot; a terminal status stays |
| WhatsApp outbox | `whatsapp_outbox`: status, attempts, next attempt | enqueue, manual retry, claim, send, record, opt-out | a message is settled, is not sent more often than accounted for, respects the opt-out |
| Webhook and waitlist | `processed_webhooks`, notes and `is_resolved` of `waitlists`, statuses of appointments | replies 1, 2, 3, owner's approval, offer, automatic booking | a message acts once; offers keep the order of the list; one booking per entry |
| Reminder scheduler | `reminder_*_sent`, `last_notification_type`, `whatsapp_remote_id` | 24 h and 2 h jobs, the script for tomorrow | one reminder of each kind per appointment, none for a cancelled one |
| Payments, subscription | `tenant_payments`, `subscription_valid_until` | register a payment: the row in one commit, the extension in a second | every payment extends once |
| Users, staff quota | `users`, `tenants.plan_tier`, `max_users` | create with and without the quota, activate, update, soft delete; change the plan | active staff within the plan |
| Clients | `clients`, opt-out, lid | create, find by phone | one client per phone |
| WhatsApp connection | `whatsapp_sessions`, `tenants.whatsapp_instance_id`, `whatsapp_apikey` | create instance, QR, status, logout, repair of the webhook; the key in the settings | row and instance agree; the owner's key stays while it works |
| Availability | none | computes free slots from the table | a slot it offers is one a creation accepts, and it holds none back without cause |
| Authentication, tenants, services, super admin, templates, start-up | their own rows | sequential | not modelled, see section 8 |

How they interact: the webhook, the reminders and the endpoints share the
table `appointments`; the reminders write the `whatsapp_remote_id` by which the
webhook matches a reply; a cancellation by WhatsApp (and only that one: the
endpoint does not) triggers the waitlist, which books through the same
`has_overlap` and `create`; a business without an instance, or a client who
opted out, stops outbox and reminders.

What is hard: checks and writes in separate statements, state kept across an
`await`, two commits for one operation, work that is claimed and never given
back. The list, each with its line, is under `hazards` in `PROJECT.json`.

## 2. Modules

| Module | What it is |
|---|---|
| `Agenda` | the table `appointments`, all the requests that write it, each split into read, overlap check and commit, and the availability computed from it |
| `AtomicAgenda` | abstract specification: staff hold intervals, an interval is taken or given back in one step, no two overlap |
| `AgendaSerial` | the refinement mapping from `Agenda` to `AtomicAgenda` |
| `Outbox` | the outbox worker, its queue and what endpoints do to a row it holds |
| `MessageLife` | abstract specification: the life of single messages, delivered within a credit; implemented by `Outbox` |
| `Webhook` | replies, waitlist, deduplication |
| `FairWaitlist` | abstract specification: entries that get offers in order, and places by offers; implemented by `Webhook` |
| `Reminders` | the two jobs of the scheduler, the script, and what writes appointments under them |
| `Account` | payments and subscription, users and quota, the plan |
| `Connection` | instance, session row, API key and the provider |
| `AgendaProofs`, `AgendaSerialProofs`, `OutboxProofs`, `OutboxLifeProofs`, `WebhookProofs`, `RemindersProofs`, `AccountProofs`, `ConnectionProofs` | theorems |
| `MC*` | constants of the runs |

### Agenda

`appts` is the table. `req[r]` is a request: `NotYet`, `Done`, or what it has
read and is about to write: `loaded` before its overlap check, `ready` before
its commit. `BeginCreate`, `BeginUpdate`, `BeginReschedule`, `BeginCancel`,
`BeginChangeStatus` are the endpoints up to their last read, `BeginReply` and
`BeginAutoBook` the webhook's writes (kept from overlapping each other by
`LoopIsFree`), `CheckPasses` and `CheckRefuses` the two results of
`has_overlap`, `Commit` the flush, which writes the columns `Dirty` names
(`Merge`). `ListAgenda` is the bulk UPDATE a GET of the agenda runs first.

Two history variables say who raced: `stale` holds the requests whose row, or
whose slot once checked, was written since they read it; `tainted` the rows
last written by such a request (an update that takes a whole slot afresh
cleans a row). They decide nothing.

`Grid`, `IsPast`, `IsBusy` and `FreeSlots` are `get_availability`: the slots of
`slot_duration` from opening to closing, without those that overlap an active
appointment and those already past. It reads one state and writes none, so it
is an operator; `OffersAreBookable` compares it with the checks of a creation.

### Outbox

`rows` is the table, with the delay left instead of a date; `batch` and `pc` say
where the worker is: `Claim`, then per message `NotConnected`, `Blocked` or
`BeginJitter`, then `SendAccepted` or `SendRefused`, then `RecordSent` or
`RecordFailure`. An accepted send may still come back as an error (answer
lost). `LoseBatch` is the death of the process or an exception that leaves the
iteration. `delivered`, `afterOut` and `resets` are histories.

`Life` and `Credit` map it to `MessageLife`: a message is taken while the worker
holds an accepted send it has not recorded, otherwise open or final by its row;
its credit is one copy, one per failure and one per manual retry, less what was
delivered. Batch, order, delays and limits are gone.

### Webhook

`handlers[<<m, i>>]` is the handler of the i-th delivery of message `m`: `none`
before it arrives, `reply` while it awaits its last send, `freed` while a
cancellation awaits its first, `done`, or `lost`. One action takes a handler
from its arrival to its first await: `SkipDuplicate`, `Confirm`, `Cancel`,
`RequestReschedule`, `NoMatch`, `OwnerApproves`, `BookOffer`, `OfferGone`;
`TriggerWaitlist` and `Register` are what comes after the awaits. A cancellation
carries the `queue` it read across its await: the list is one queue per day and
service (`FirstOfQueue`), while a customer's "1" is matched by number over all
of them (`FirstOfPhone`). `acted` and `raced` in the handler, `moved` in a row
(it changed its day or service while a cancellation or an offer, `Held`,
referred to it) and `bookings` are histories. The dashboard, the
reminders, the waitlist endpoints and the clock are the environment.

`Stage` maps it to `FairWaitlist`: an entry waits, has an offer proposed to the
business or sent to the customer, or is closed; messages, handlers, slots and
the clock are gone.

### Reminders

`rows` holds what the jobs look at: start, status, the flags sent, the last
notification. `job[j]` is the run of the 24 h job, the 2 h job or the script:
the businesses left, its clock, and in `seen` the appointments of the current
one with the start it loaded (`Expired` after a commit, which makes the session
read it again). `Query` is the one query per business, `Skip`, `Abort` and
`Address` what a run does when it comes to an appointment, `Mark` the accepted
send with its commit, `Refuse`, `LoseMark` and `Crash` the failures. `Book`,
`Reply`, `Edit`, `OptOut`, `SetServed` and `Tick` are everybody else, at any
step. Histories: `changed` in a run names the appointments others wrote since
its query; `delivered` and `lost` count per kind and appointment the reminders
accepted, and those accepted whose mark was lost.

### Account

`req[r]` is a request with what it has read: a payment goes from `loaded` over
`paid` (first commit) to `extending` (the date it read) and the second commit; a
request about a user from `found` to `loaded` (the plan read) to `counted` and
its commit. `Merged` writes the columns that differ from those loaded. `Lose` is
the death of a request at any step. Histories: `raced` counts extensions
committed while another request held the older date, `crashed` payments lost
between their commits, `waived` the staff nobody counted or counted too early
(`stale` in a request).

### Connection

A handler is at a `call`, `answered`, or about to commit the `key`, the
`instance` or the `session`; it has the event loop from the answer to its next
await (`LoopIsFree`), while each commit in between is a step, since threads see
it and a failure may come after it. `tries` are the keys still to be tried
(`_candidate_api_keys`). `Deny`, `Serve`, `Refuse` and `FailCall` are the
provider, whose own state is `remote`, `hook` and `revoked`; `PatchKey` is the
settings endpoint. The code reads the text of an error to tell a denial
(`_is_auth_error`), so `Errs` lets any other error read as one; the history
`misread` in a request remembers that. The history `torn` says that the session row was last written by a handler the
instance changed under, or left unwritten by one that had changed the instance.

## 3. Runs

| Run | Instance | Shows |
|---|---|---|
| `agenda` | 2 appointments, 2 staff, 4 requests, 3 in flight | every double booking, broken slot or revived appointment comes from a request with stale reads; the availability offers what a creation accepts, whatever the table has come to |
| `agenda_serial` | 3 appointments, requests one at a time | `Agenda` implements `AtomicAgenda`, and never double-books |
| `agenda_double_booking` | as `agenda`, smaller | expected violation, see section 6 |
| `outbox` | 2 messages of one client, 2 attempts, 1 manual retry, 1 lost batch | deliveries and attempts are accounted for, one message at most after an opt-out, sent means delivered, and all of it implements `MessageLife`; every message is settled or its batch was lost |
| `webhook_waitlist` | 3 entries of 2 customers for 2 services of a day, an appointment, 2 days, no handler lost | no offer overtakes the order of its queue; it is for the day and service waited for unless the appointment was moved, and can be accepted unless its customer waits longer for another day or service; implements `FairWaitlist` |
| `webhook_bookings` | 1 slot, 3 appointments, 1 entry, one message delivered twice, a handler lost | a message acts again, or an entry is booked again, only after a race or a loss; implements `FairWaitlist`, bookings included |
| `webhook_duplicate`, `webhook_confirm` | | expected violations, see section 6 |
| `reminders` | 2 appointments, a business, 1 edit, 1 run of the script, 1 failure | the jobs repeat no reminder unless a mark is lost, each run of the script at most one; a wrong reminder needs a write after the query |
| `reminders_liveness` | 2 businesses, one with a zone that does not exist | whoever is owed a reminder gets it; the 2 h one may wait behind the bad zone |
| `account` | 3 users, 2 plans (0 and 1 staff), 4 requests, 3 payments | an extension is missing only by a crash or a race; staff above the plan only by a path that does not count, a race or a downgrade |
| `connection` | 3 requests, an own and a platform key, 1 change of key, 1 revoked key, 1 failure or misread error | session and instance agree unless torn; a key that works is replaced only if an error with it was misread, or it was set meanwhile |

Each property has a mutant in `PROJECT.json`: a plausible bug in the mapped
definition under which the same run fails.

### Bounds, and why they are enough

* Agenda: the day has 3 clock times (4 in the serial run), so slots can touch,
  overlap, contain each other, end outside business hours and wrap past
  midnight. A race needs a reader and a writer; three in flight also let a
  third act on what they left. `StatusInputs` is `pending` alone, the status a
  PATCH revives a row with; the replies bring confirmed, cancelled and
  reschedule_req, and the listing attended. The proofs have no bounds.
* Availability: every table the agenda reaches, double-booked ones included.
  Slots are a minute long there, so no closing time is off the grid; `OffersHold`
  is proved for every grid.
* Outbox: two messages of one client are enough for a retry to come before a
  newer message and for two sends after one opt-out; two attempts give one retry
  and one failure; one manual retry and one loss can happen at each point of a
  message's life. A batch shorter than the queue is covered by the proofs of
  the safety properties, for any `Limit`; that old messages do not starve new
  ones behind a full batch takes three, and liveness with three is too large.
* Webhook: two deliveries are the least that race, three entries the least with
  an order within a queue and a customer who also waits in another, three
  appointments the least to book an entry a second time; each run takes what it
  needs. With one appointment, `webhook_waitlist` still cancels it twice, since
  the dashboard revives and moves it, and has three deliveries; bookings come in
  `webhook_bookings`. The safety properties are proved for any number of slots,
  days, services, entries, appointments and messages.
* Reminders: a day has two steps and the clock passes one midnight, so that
  there is a today and a tomorrow, and a start in and out of the two hours. The
  jobs start as often as they like; one run of the script, one write by others
  and one failure can fall between any two of their steps.
* Account: a plan without staff and one with a single place, so that a second
  request is one too many and a change of plan is a downgrade; three payments let
  one extension be lost and another go on.
* Connection: three handlers, because a third can act on what two that
  overtook each other left; one denied key, or one error misread, makes the
  fallback change the key.
* `CHECK_DEADLOCK FALSE` in agenda, webhook, account and connection: no request
  has to come, and their numbers are bounded.

## 4. Fairness

`outbox`: weak fairness of the worker's steps and of the clock.
`run_outbox_worker` loops until the process stops, catches every exception, and
each await ends: the sleep has a bound and the HTTP client a timeout.

`reminders_liveness`: weak fairness of the steps of the two jobs. APScheduler
starts each every five minutes, catches what a run raises, and each send ends
by the client's timeout. A crashed run is followed by another.

No fairness for clients, endpoints, the script, the clock of the reminders,
failures, or the recovery of a lost batch, which no code performs.

## 5. Proofs

tlapm checks, for every value of the constants:

* `TypeCorrect`, `DoubleBookingNeedsARace`, `WholeSlots`,
  `TerminalStatusesHold`, `OffersHold` (`AgendaProofs`). The invariants are not inductive:
  what a request knows must be carried from its read to its commit.
  `KnowsWhatItRead` says that a request which is not stale still sees the row it
  loaded, and, once checked, a free slot; with the type invariant it makes
  `OverlapOnlyByRace` and `SlotIsWhole` inductive. The action property rests on
  three more facts about requests in flight (a reschedule does not touch the
  status, a status change loaded an open row). `OffersHold` needs no steps of its
  own: in every state where rows have their type, and whole slots but for
  tainted ones, grid and overlap check agree.
* `SerialAgendaIsAtomic`, `SerialAgendaIsSafe` (`AgendaSerialProofs`), assuming
  `MaxInFlight = 1`: with nobody else in flight no request is ever stale
  (`Alone`), so each commit is one step of the atomic agenda or changes nothing
  it sees. The atomic agenda keeps conflicting slots apart
  (`AtomicAgendaIsApart`), and what holds of it holds of what implements it:
  `NoDoubleBooking`, which concurrent requests break (section 6).
* `WebhookTypeCorrect`, `RepeatsNeedARaceOrALoss`, `OneBookingPerEntryHolds`,
  `NoQueueJumpingHolds`, `OffersFitHolds`, `OffersCanBeAcceptedHolds`
  (`WebhookProofs`). The inductive invariant says what
  each property forgets: a handler that ended without being lost registered its
  message, and one that acted has arrived (so a second delivery that still acts
  finds the first awaiting or lost); a pending cancellation and an offer have an
  appointment (else the slot of a booking has no type); entries are created in
  order, so a new one never precedes the holder of an offer; a cancellation in
  flight knows the queue of its appointment unless that was moved (`FreedFits`);
  and an entry has
  at most one booking per handler lost, plus one once it is resolved. The steps
  are sorted by what they touch: `StepShape` reduces what all of them do to the
  handlers to two shapes (`Delivered`, `Moved`), `ApptsStay` and `WriteItem` do
  the same for the agenda and the waitlist.
* `WaitlistIsFair`, `FairWaitlistIsFair` (`WebhookProofs`): `Webhook` implements
  `FairWaitlist`. An offer of `TriggerWaitlist` is `Offer`, an approval
  `Approve`, `BookOffer` is `Take`, closing the entry or, when the handler is lost in
  between, leaving it open and counting a fault; what does not touch the list
  stutters. The abstract waitlist keeps its own promises since entries join in
  order and an open one had a place only by a fault (`FairInv`).
* `DeliveriesInTurnActOnce`, `ConfirmsHold` (`WebhookProofs`) say when the two
  sentences refuted in section 6 do hold: a message acts once if its deliveries
  do not overlap and no handler is lost; a "1" confirms the only pending
  appointment of a customer without an offer.
* `TypesAreKept`, `DeliveriesAreAccounted`, `AttemptsStayBounded`,
  `OptOutIsRespected` (`OutboxProofs`). A claimed row is open, pending or
  processing, until its outcome is recorded (`BatchIsOpen`); it is pending only
  after a manual retry under the worker's feet. A row that may still be sent has
  a delivery to spare, one that is both pending and held has two
  (`DeliveriesFit`); a row pending or claimed has an attempt to spare
  (`AttemptsFit`); and a client has had no message after the opt-out while the
  worker waits to send the next (`OptOutFits`).
* `OutboxImplementsMessageLife`, `SentMeansDelivered` (`OutboxLifeProofs`). An
  accepted send is `Deliver`, noticed or not; `RecordSent` and the loss of the
  worker right after a send are `Record`; a recorded failure is `Fail`; a manual
  retry is `Reopen`. A retry that comes while the worker is about to record an
  accepted send leaves the message taken, and only its credit grows, since
  `mark_sent` overwrites it. Claims, delays and the clock stutter. The guard of
  `Deliver` is where the invariant is needed: an open message has credit left by
  `DeliveriesFit`, and what the worker holds is open by `BatchIsOpen`.
  `MessageLifeDelivers` shows of the abstract life that a message called sent went
  out, which the refinement carries to the table.
* `TypesAreKept`, `RemindersAreBalanced`, `OnlyRacesDo` (`RemindersProofs`). For
  the first, reminders delivered and not lost, plus the claims runs still hold
  on an appointment, make at most one and one per run of the script; an
  unmarked appointment has had none (`Balanced`). The script has a claim on
  every appointment of the businesses it has yet to come to, a job only on what
  its query found unmarked; a step of a run opens a claim, drops one, turns it
  into a delivery with its mark, or loses it (`Moves`). For the second, what a
  run believes of an appointment not `changed` is true (`RunFits`).
* `TypesAreKept`, `PaymentsExtend`, `QuotaIsKept` (`AccountProofs`). The
  equation holds for the date a request has read as for the one in the table
  (`Covers`), since whoever extends meanwhile counts as raced; a counted request
  that is not stale knows the plan and still has a place in it (`Sound`).
  `SerialPaymentsExtend` and `DisciplineKeepsThePlan` show what the histories
  stand for: payments that do not overlap lose no extension, and where
  whatever can make staff active counts, one request at a time and under one
  plan, active staff stays within the plan.
* `TypesAreKept`, `SessionAgrees`, `KeyIsKept` (`ConnectionProofs`). One handler
  has the loop (`OneRuns`); it knows the instance unless stale, and has come to
  another key than its own only if that was denied or an error of this call was
  misread (`Knows`); some key is
  always at hand (`KeyAtHand`); and instance and session disagree, when not
  torn, only with a handler between its two commits (`Settled`).
  `ReadRightOnlyDeniedKeysGo`: were no error misread, only a denied key would be
  replaced, or one set while the handler awaited. `ExclusiveSessionsAgree`: they agree without exception if creations and
  logouts overlap no other handler and none stops between its commits.

Assumed: the named ASSUMEs of the modules, which every run evaluates. The
theorems with a premise about behaviours (`OneExtends`, `Disciplined`,
`Exclusive`, `NoneCutShort`, `NoneMisread`, `DeliveredInTurn`, `NoneIsLost`) do not claim that
the code keeps it: nothing in it does. They say what would be enough.

Only model-checked: liveness (`EveryMessageSettles`, `EveryoneIsReminded`:
fairness and ENABLED are out of the prover's reach) and the expected violations
of section 6. Induction over recursive definitions is out of reach too; there
are none here.

## 6. Where the code and its documents disagree

* `agenda_double_booking`: README and architecture document promise an
  exclusion constraint; there is a plain index, and two concurrent creations
  double-book.
* `webhook_duplicate`: deliveries repeated with one message id are said not to
  repeat actions; one that comes while the first awaits its reply does.
* `webhook_confirm`: "1" is said to confirm the pending appointment; for a
  customer with an offer whose slot was taken it never does, since nothing
  clears the offer.

## 7. Plan

1. `Webhook`: the fallbacks by lid, name and conversation context, and whether a
   freed slot reaches the first who can be written to when the head of the list
   has no number.
2. The dispatch of the router: which messages reach `process_incoming`, and
   whether the opt-out keyword is seen (`docs/agendasv1.dbml:84`).
3. Enqueueing in `Outbox`: idempotency keys of requests that are repeated.
4. A composition of `Webhook` and `Agenda`: the booking of an offer with its own
   overlap check and commit apart.

## 8. Not modelled

Login and tokens (cryptographic and sequential), tenant settings but plan and
key, the services catalogue, super admin listings, message templates, seeds and
migrations: one row, one statement, no decision that another part depends on.

The Evolution API is external and appears as what it may answer. Two things are
assumed of it. It denies a key alike on every route the client tries. And when
it answers a send with an error, it has not delivered: `send_text` then posts
the text again in a second format, which is part of the same attempt in
`Outbox`; a provider that delivered and refused could deliver twice in one
attempt without a recorded failure. Of the names of timezones, `Reminders` has
those that no zone has; a malformed one raises a `ValueError` that
`core/timezone.py:12-14` does not catch, and would end the 24 h run as well.

In the webhook
the fallbacks by lid, by name and by conversation context, the welcome message
and messages without an id are left out; of the clients all but the opt-out; in
the connection QR codes, phone numbers and the duplicate session rows of older
versions; in the account amounts, names and passwords.
