------------------------------ MODULE Webhook -------------------------------
(***************************************************************************)
(* The WhatsApp webhook: what a customer's reply does to the agenda and to *)
(* the waitlist, and how a delivery that is repeated is recognised.        *)
(*                                                                         *)
(* Handlers are coroutines of one event loop: each runs alone up to an     *)
(* await, and every await is a message sent to the provider.  A handler    *)
(* looks its message up in processed_webhooks when it starts and registers *)
(* it when it ends, so a second delivery may start while the first awaits. *)
(* The router answers 200 to everything: a handler that fails, or dies     *)
(* with the process, ends unregistered.                                    *)
(*                                                                         *)
(* Abstractions.  One business, one member of staff; a day has slots that  *)
(* do not overlap, whatever the service (module Agenda has minutes, staff  *)
(* and durations, and the race of a handler with the dashboard's threads   *)
(* between has_overlap and the insert).  A customer is told by the number; *)
(* an appointment is linked when its whatsapp_remote_id is its customer's. *)
(* The fallbacks by lid, by name and by conversation context, messages     *)
(* without an id and texts that are not a command are left out;            *)
(* attended behaves like confirmed here.                                   *)
(***************************************************************************)
EXTENDS Integers, FiniteSets

CONSTANTS
  Clients,      \* customers
  Owner,        \* the business's own number
  Slots,        \* the slots of the agenda, in the order of time: 1, 2, ...
  DayOf,        \* slot -> day
  Services,
  Appts,        \* ids of appointments, handed out in order: 1, 2, ...
  Items,        \* waitlist entries in the order of created_at: 1, 2, ...
  Waits,        \* entry -> [client, day, service]; the client is NoPhone if it has
                \* no number, the service not one of Services if it has none
  NoPhone,
  Messages,     \* message ids
  MaxDeliveries, \* message -> how often it may be delivered
  MaxNow,       \* bound on the clock
  MaxLosses,    \* bound on the handlers lost
  None          \* "no such row", "no offer", "no message yet", "no appointment"

ASSUME WebhookAssumption ==
  /\ Slots \subseteq Nat /\ Items \subseteq Nat /\ Appts \subseteq Nat
  /\ MaxNow \in Nat /\ MaxLosses \in Nat
  /\ MaxDeliveries \in [Messages -> Nat]
  /\ Owner \notin Clients /\ NoPhone \notin Clients /\ None \notin Appts

VARIABLES
  appts,      \* id -> row
  items,      \* entry -> row
  content,    \* message -> who sent it and what it says
  handlers,   \* <<message, i>> -> the handler of the i-th delivery
  processed,  \* the table processed_webhooks
  now,        \* the slot the clock is at
  losses,     \* handlers lost
  bookings    \* history: entry -> appointments booked for it

vars == <<appts, items, content, handlers, processed, now, losses, bookings>>

Deliveries(m) == 1 .. MaxDeliveries[m]
Handlers      == UNION {{m} \X Deliveries(m) : m \in Messages}

\* A day and a service have a queue of waitlist entries.
Queues        == {DayOf[s] : s \in Slots} \X Services
QueueOf(i)    == <<Waits[i].day, Waits[i].service>>
QueueFor(row) == <<DayOf[row.slot], row.service>>

\* moved is a history: the row went to another queue under a cancellation or an
\* offer.
Row      == [client : Clients, slot : Slots, service : Services, linked : BOOLEAN,
             status : {"pending", "confirmed", "cancelled", "reschedule_req"},
             moved : BOOLEAN]
Offer    == [kind : {"pending", "sent"}, appt : Appts]

\* The notes of a resolved entry are never read again: not kept.
Item     == [resolved : BOOLEAN, offer : Offer \cup {None}]
Content  == [from : Clients, text : {"confirm", "cancel", "reschedule"}]
              \cup [from : {Owner}, text : {"approve"}]
Handler  == [at : {"none", "reply", "freed", "done", "lost"},
             appt : Appts \cup {None}, queue : Queues \cup {None},
             acted : BOOLEAN, raced : BOOLEAN]

ASSUME NoneAssumption == None \notin Row /\ None \notin Item /\ None \notin Offer
----------------------------------------------------------------------------
Booked    == {a \in Appts : appts[a] # None}
FreshIds  == {a \in Appts \ Booked : \A b \in Appts \ Booked : a <= b}
Taken(s)  == \E a \in Booked : appts[a].slot = s /\ appts[a].status # "cancelled"

Pending(c)  == {a \in Booked : appts[a].client = c /\ appts[a].status = "pending"}
Linked(S)   == {a \in S : appts[a].linked}
Upcoming(S) == {a \in S : appts[a].slot >= now}
Earliest(S) == {a \in S : \A b \in S : appts[a].slot <= appts[b].slot}
Latest(S)   == {a \in S : \A b \in S : appts[a].slot >= appts[b].slot}

\* get_nearest_pending_by_remote_id: the next one; when there is none the
\* oldest, for the second order_by only adds to the first.
ByRemoteId(c) ==
  LET linked == Linked(Pending(c)) IN
  IF Upcoming(linked) # {} THEN Earliest(Upcoming(linked)) ELSE Earliest(linked)

\* get_nearest_pending_by_client_phone: the next one, else the latest.
ByPhone(c) ==
  IF Upcoming(Pending(c)) # {} THEN Earliest(Upcoming(Pending(c))) ELSE Latest(Pending(c))

Nearest(c) == IF ByRemoteId(c) # {} THEN ByRemoteId(c) ELSE ByPhone(c)

\* A match by number is no match for a confirmation if there are several.
Ambiguous(c) == ByRemoteId(c) = {} /\ Cardinality(Upcoming(Pending(c))) > 1

StillWaiting(i) == items[i]                                          \* mutant
Resolved(i)     == [resolved |-> TRUE, offer |-> None]

Waiting == {i \in Items : items[i] # None /\ ~items[i].resolved}
Oldest(S) == {i \in S : \A j \in S : i <= j}
Newest(S) == {i \in S : \A j \in S : j <= i}                         \* mutant

\* first_unresolved_by_date, which is always given a service.
OfAnyService(q)  == Oldest({i \in Waiting : Waits[i].day = q[1]})    \* mutant
LastOfQueue(q)   == Newest({i \in Waiting : QueueOf(i) = q})         \* mutant
FirstOfQueue(q)  == Oldest({i \in Waiting : QueueOf(i) = q})

\* get_first_unresolved_by_phone; of any day and service, with or without an offer.
EverOfPhone(c)  == Oldest({i \in Items : items[i] # None /\ Waits[i].client = c}) \* mutant
FirstOfPhone(c) == Oldest({i \in Waiting : Waits[i].client = c})

\* Entries whose offer, sent or still to be approved, a "1" of c accepts.
Offered(c) == {i \in FirstOfPhone(c) : items[i].offer # None}

\* first_pending_offer
ToApprove == Oldest({i \in Waiting : items[i].offer # None /\ items[i].offer.kind = "pending"})
----------------------------------------------------------------------------
Awaiting == {"reply", "freed"}

DeliveryId(h) == h                                                   \* mutant
ScopedId(h)   == h[1]

AnyDelivery(h) == TRUE                                               \* mutant
New(h)         == ScopedId(h) \notin processed

\* Delivery h of a message that says text, from a sender; handled up to the
\* first await, with the state, the appointment and the effect given.
Arrives(h, from, text, at, appt, acted) ==
  /\ handlers[h].at = "none"
  /\ \A i \in Deliveries(h[1]) : i < h[2] => handlers[<<h[1], i>>].at # "none"
  /\ content[h[1]] \in {None, [from |-> from, text |-> text]}
  /\ content' = [content EXCEPT ![h[1]] = [from |-> from, text |-> text]]
  /\ handlers' = [handlers EXCEPT ![h] =
       [at |-> at, appt |-> appt, acted |-> acted,
        queue |-> IF appt = None THEN None ELSE QueueFor(appts[appt]),
        raced |-> \E i \in Deliveries(h[1]) : handlers[<<h[1], i>>].at \in Awaiting]]

\* The message is in processed_webhooks.
SkipDuplicate(h) ==
  /\ ~New(h)
  /\ Arrives(h, content[h[1]].from, content[h[1]].text, "done", None, FALSE)
  /\ UNCHANGED <<appts, items, processed, now, losses, bookings>>

NewRow(c, s, v) ==
  [client |-> c, slot |-> s, service |-> v, linked |-> FALSE, status |-> "pending",
   moved |-> FALSE]

Reply(a, status) == appts' = [appts EXCEPT ![a].status = status, ![a].linked = TRUE]

\* _handle_appointment_confirmation, when _try_waitlist_auto_booking has
\* nothing to offer.
Confirm(h, c) ==
  /\ New(h)
  /\ Offered(c) = {} /\ ~Ambiguous(c)
  /\ \E a \in Nearest(c) : Reply(a, "confirmed")
  /\ Arrives(h, c, "confirm", "reply", None, TRUE)
  /\ UNCHANGED <<items, processed, now, losses, bookings>>

\* _handle_reschedule_request
RequestReschedule(h, c) ==
  /\ New(h)
  /\ \E a \in Nearest(c) : Reply(a, "reschedule_req")
  /\ Arrives(h, c, "reschedule", "reply", None, TRUE)
  /\ UNCHANGED <<items, processed, now, losses, bookings>>

\* _handle_appointment_cancellation up to its reply.
Cancel(h, c) ==
  /\ New(h)
  /\ \E a \in Nearest(c) :
       /\ Reply(a, "cancelled")
       /\ Arrives(h, c, "cancel", "freed", a, TRUE)
  /\ UNCHANGED <<items, processed, now, losses, bookings>>

\* Nothing to act on: registered without an await.
NoMatch(h, c, text) ==
  /\ New(h)
  /\ Nearest(c) = {} \/ (text = "confirm" /\ Ambiguous(c))
  /\ text = "confirm" => Offered(c) = {}
  /\ Arrives(h, c, text, "done", None, FALSE)
  /\ processed' = processed \cup {ScopedId(h)}
  /\ UNCHANGED <<appts, items, now, losses, bookings>>
----------------------------------------------------------------------------
\* _trigger_waitlist_flow, after the reply: the first entry of the queue gets
\* the offer, which the business approves first if it wants to (it may change
\* its mind at any time); no entry, or one without a number, ends the flow.
\* Day and service are those read before the reply; the present ones if the
\* customer's lid was stored meanwhile, for that commit expires the row.
TriggerWaitlist(h) ==
  LET a == handlers[h].appt IN
  /\ handlers[h].at = "freed"
  /\ \E q \in {handlers[h].queue, QueueFor(appts[a])} :
       LET eligible == {i \in FirstOfQueue(q) : Waits[i].client # NoPhone} IN
       \/ /\ eligible = {}
          /\ handlers' = [handlers EXCEPT ![h].at = "done", ![h].appt = None, ![h].queue = None]
          /\ processed' = processed \cup {ScopedId(h)}
          /\ items' = items
       \/ /\ \E i \in eligible, kind \in {"pending", "sent"} :
               items' = [items EXCEPT ![i].offer = [kind |-> kind, appt |-> a]]
          /\ handlers' = [handlers EXCEPT ![h].at = "reply", ![h].appt = None, ![h].queue = None]
          /\ processed' = processed
  /\ UNCHANGED <<appts, content, now, losses, bookings>>

\* _handle_owner_approval: the offer goes out, or the owner is told that there
\* is none.
OwnerApproves(h) ==
  /\ New(h)
  /\ \/ /\ ToApprove = {}
        /\ items' = items
     \/ \E i \in ToApprove : items' = [items EXCEPT ![i].offer.kind = "sent"]
  /\ Arrives(h, Owner, "approve", "reply", None, ToApprove # {})
  /\ UNCHANGED <<appts, processed, now, losses, bookings>>

\* _try_waitlist_auto_booking: a new appointment in the slot of the offer; the
\* create and the resolve commit apart, and what comes between loses the handler.
BookOffer(h, c) ==
  /\ New(h)
  /\ \E i \in Offered(c), new \in FreshIds :
       LET ref == appts[items[i].offer.appt] IN
       /\ ~Taken(ref.slot)
       /\ appts' = [appts EXCEPT ![new] = NewRow(c, ref.slot, ref.service)]
       /\ bookings' = [bookings EXCEPT ![i] = @ + 1]
       /\ \/ /\ items' = [items EXCEPT ![i] = Resolved(i)]
             /\ Arrives(h, c, "confirm", "reply", None, TRUE)
             /\ losses' = losses
          \/ /\ losses < MaxLosses
             /\ items' = items
             /\ Arrives(h, c, "confirm", "lost", None, TRUE)
             /\ losses' = losses + 1
  /\ UNCHANGED <<processed, now>>

\* ... or the slot is taken; the offer stays where it is.
OfferGone(h, c) ==
  /\ New(h)
  /\ \E i \in Offered(c) : Taken(appts[items[i].offer.appt].slot)
  /\ Arrives(h, c, "confirm", "reply", None, FALSE)
  /\ UNCHANGED <<appts, items, processed, now, losses, bookings>>

\* The last send returns: processed_webhooks gets the message, or has it.
Register(h) ==
  /\ handlers[h].at = "reply"
  /\ handlers' = [handlers EXCEPT ![h].at = "done"]
  /\ processed' = processed \cup {ScopedId(h)}
  /\ UNCHANGED <<appts, items, content, now, losses, bookings>>

\* The process dies, or an exception reaches the router, which answers 200.
Lose(h) ==
  /\ handlers[h].at \in Awaiting
  /\ losses < MaxLosses
  /\ handlers' = [handlers EXCEPT ![h].at = "lost", ![h].appt = None, ![h].queue = None]
  /\ losses' = losses + 1
  /\ UNCHANGED <<appts, items, content, processed, now, bookings>>
----------------------------------------------------------------------------
\* The dashboard books a free slot, ...
Book(c, s, v) ==
  /\ ~Taken(s)
  /\ \E new \in FreshIds : appts' = [appts EXCEPT ![new] = NewRow(c, s, v)]
  /\ UNCHANGED <<items, content, handlers, processed, now, losses, bookings>>

\* ... cancels an appointment or, if the slot is still free, revives it;
Dashboard(a) ==
  /\ \/ /\ appts[a].status # "cancelled"
        /\ appts' = [appts EXCEPT ![a].status = "cancelled"]
     \/ /\ appts[a].status = "cancelled"
        /\ ~Taken(appts[a].slot)
        /\ appts' = [appts EXCEPT ![a].status = "pending"]
  /\ UNCHANGED <<items, content, handlers, processed, now, losses, bookings>>

\* A cancellation that awaits its reply, or an offer, refers to the row.
Held(a) ==
  \/ \E h \in Handlers : handlers[h].at = "freed" /\ handlers[h].appt = a
  \/ \E i \in Waiting : items[i].offer # None /\ items[i].offer.appt = a

\* moves one to a slot that is free but for itself, or to another service,
\* whatever its status;
Move(a, s, v) ==
  LET row == [appts[a] EXCEPT !.slot = s, !.service = v] IN
  /\ \A b \in Booked \ {a} : appts[b].slot = s => appts[b].status = "cancelled"
  /\ appts' = [appts EXCEPT ![a] =
       [row EXCEPT !.moved = Held(a) /\ (row.moved \/ QueueFor(row) # QueueFor(appts[a]))]]
  /\ UNCHANGED <<items, content, handlers, processed, now, losses, bookings>>

\* the scheduler's reminder links it to its customer's WhatsApp.
Remind(a) ==
  /\ appts[a].status = "pending" /\ appts[a].slot >= now
  /\ appts' = [appts EXCEPT ![a].linked = TRUE]
  /\ UNCHANGED <<items, content, handlers, processed, now, losses, bookings>>

\* create_waitlist
AddItem(i) ==
  /\ items[i] = None
  /\ \A j \in Items : j < i => items[j] # None
  /\ items' = [items EXCEPT ![i] = [resolved |-> FALSE, offer |-> None]]
  /\ UNCHANGED <<appts, content, handlers, processed, now, losses, bookings>>

\* resolve_waitlist
ResolveItem(i) ==
  /\ i \in Waiting
  /\ items' = [items EXCEPT ![i] = Resolved(i)]
  /\ UNCHANGED <<appts, content, handlers, processed, now, losses, bookings>>

Tick ==
  /\ now < MaxNow
  /\ now' = now + 1
  /\ UNCHANGED <<appts, items, content, handlers, processed, losses, bookings>>

Init ==
  /\ appts = [a \in Appts |-> None]
  /\ items = [i \in Items |-> None]
  /\ content = [m \in Messages |-> None]
  /\ handlers = [h \in Handlers |->
                  [at |-> "none", appt |-> None, queue |-> None, acted |-> FALSE, raced |-> FALSE]]
  /\ processed = {}
  /\ now = 0 /\ losses = 0
  /\ bookings = [i \in Items |-> 0]

Delivery(h) ==
  \/ SkipDuplicate(h)
  \/ OwnerApproves(h)
  \/ \E c \in Clients :
       \/ Confirm(h, c)
       \/ RequestReschedule(h, c)
       \/ Cancel(h, c)
       \/ \E text \in {"confirm", "cancel", "reschedule"} : NoMatch(h, c, text)
       \/ BookOffer(h, c)
       \/ OfferGone(h, c)

Environment ==
  \/ \E c \in Clients, s \in Slots, v \in Services : Book(c, s, v)
  \/ \E a \in Booked : Dashboard(a) \/ Remind(a)
  \/ \E a \in Booked, s \in Slots, v \in Services : Move(a, s, v)
  \/ \E i \in Items : AddItem(i) \/ ResolveItem(i)
  \/ Tick

Next ==
  \/ \E h \in Handlers : Delivery(h) \/ TriggerWaitlist(h) \/ Register(h) \/ Lose(h)
  \/ Environment

Spec == Init /\ [][Next]_vars
----------------------------------------------------------------------------
TypeOK ==
  /\ appts \in [Appts -> Row \cup {None}]
  /\ items \in [Items -> Item \cup {None}]
  /\ content \in [Messages -> Content \cup {None}]
  /\ handlers \in [Handlers -> Handler]
  /\ processed \in SUBSET Messages
  /\ now \in 0 .. MaxNow /\ losses \in 0 .. MaxLosses
  /\ bookings \in [Items -> Nat]

\* What the deduplication of process_incoming_message does guarantee: of two
\* deliveries of a message that both did something, one began while another
\* was awaiting, or one was lost before it registered the message.
RepeatsAreAccounted ==
  \A m \in Messages : \A i, j \in Deliveries(m) :
    i # j /\ handlers[<<m, i>>].acted /\ handlers[<<m, j>>].acted =>
      \E k \in {i, j} : handlers[<<m, k>>].raced \/ handlers[<<m, k>>].at = "lost"

\* A waitlist entry gets one appointment, however often its customer says "1"
\* and however deliveries overlap; one more for every handler lost.
OneBookingPerEntry == \A i \in Items : bookings[i] <= 1 + losses

\* Offers go in the order of the waitlist: whoever holds one is the first still
\* waiting for the day and the service, even if the business approves late and
\* other offers were made meanwhile.
NoQueueJumping ==
  \A i, j \in Waiting : items[i].offer # None /\ QueueOf(i) = QueueOf(j) => i <= j

\* The appointment offered is of the day and the service its customer waits for;
\* unless it was given another after its cancellation, while the reply was
\* awaited or under the offer, which names it and not the slot
\* (_trigger_waitlist_flow).
OffersFitTheirQueue ==
  \A i \in Waiting :
    items[i].offer # None =>
      LET row == appts[items[i].offer.appt] IN row.moved \/ QueueFor(row) = QueueOf(i)

\* Who holds an offer can accept it: the "1" finds the entry, unless the same
\* customer waits longer for another day or another service; the lookup by
\* number asks for neither (get_first_unresolved_by_phone).
OffersCanBeAccepted ==
  \A i \in Waiting :
    items[i].offer # None /\ i \notin Offered(Waits[i].client) =>
      \E j \in Waiting : /\ j < i /\ Waits[j].client = Waits[i].client
                         /\ QueueOf(j) # QueueOf(i)

\* docs/whatsapp_multitenant_context.md:123: deliveries repeated with the same
\* message id do not repeat actions.
OneActionPerMessage ==
  \A m \in Messages : Cardinality({i \in Deliveries(m) : handlers[<<m, i>>].acted}) <= 1

\* docs/whatsapp_multitenant_context.md:116-117: the "1" of a customer takes
\* the appointment from pending to confirmed; here of a customer with a single
\* pending appointment, and unless the "1" was spent on booking an offer.
ConfirmConfirms ==
  [][\A h \in Handlers, c \in Clients, a \in Appts :
       /\ handlers[h].at = "none" /\ handlers'[h].at # "none" /\ New(h)
       /\ content'[h[1]] = [from |-> c, text |-> "confirm"]
       /\ Pending(c) = {a}
       => appts'[a].status = "confirmed" \/ bookings' # bookings]_vars
----------------------------------------------------------------------------
\* How far a waitlist entry has come, as its row tells it.
Stage ==
  [i \in Items |->
     IF items[i] = None THEN "none"
     ELSE IF items[i].resolved THEN "closed"
     ELSE IF items[i].offer = None THEN "waiting"
     ELSE IF items[i].offer.kind = "pending" THEN "proposed" ELSE "sent"]

FW == INSTANCE FairWaitlist
        WITH Entries <- Items, QueueOfEntry <- [i \in Items |-> QueueOf(i)],
             stage <- Stage, places <- bookings, faults <- losses

\* Whatever handlers and endpoints do to the waitlist is a step of a fair one: an
\* offer goes to the first of its queue, only a pending one is approved, and only
\* an offer is booked and then closed, unless the handler is lost in between
\* (_trigger_waitlist_flow, _handle_owner_approval, _try_waitlist_auto_booking).
ImplementsFairWaitlist == FW!Spec
=============================================================================
