------------------------------- MODULE Agenda -------------------------------
(***************************************************************************)
(* The agenda of one tenant: the rows of table appointments, and every     *)
(* request that writes them.                                               *)
(*                                                                         *)
(* A request reads the row it is about (and the user, service and business *)
(* hours it depends on), then asks has_overlap, then commits.  Each of the *)
(* three is a statement of its own under READ COMMITTED, so other requests *)
(* commit in between: that is the concurrency modelled here.               *)
(*                                                                         *)
(* The endpoints of api/v1/appointments are synchronous and run on the     *)
(* server's thread pool; the WhatsApp webhook runs on the event loop,      *)
(* where two handlers never overlap between their read and their commit    *)
(* because there is no await in between.                                   *)
(*                                                                         *)
(* Abstractions.  A refused request (403, 404, 400, an inactive user or    *)
(* service) changes no row, so it is not a step; the requests of a staff   *)
(* member, who may touch only his own rows, are among those of the owner.  *)
(* A service is known by its duration alone; since services are edited at  *)
(* any time, a request may read any duration.  Columns no decision reads   *)
(* here (notes, client, notification flags) are left out.                  *)
(***************************************************************************)
EXTENDS Integers, FiniteSets

CONSTANTS
  Ids,         \* ids of appointments, as many as the model may create
  Staff,       \* users of the tenant appointments are assigned to
  Dates,       \* days of the calendar
  DayLen,      \* clock times are 0 .. DayLen - 1 (24h in the code)
  Durations,   \* durations a service can have
  OpensAt,     \* opening time by date
  ClosesAt,    \* closing time by date
  SlotMinutes, \* slot_duration of the tenant: the grid of the availability
  StatusInputs,\* statuses a PATCH body may name (all five in the code)
  Requests,    \* the requests that may arrive, each of them once
  MaxInFlight, \* bound on the requests in flight at a time, listings included
  MaxNow,      \* bound of the clock
  NoRow,       \* "no such row"
  NotYet,      \* a request that has not arrived
  Done         \* a request that has been answered

Times   == 0 .. (DayLen - 1)

Statuses == {"pending", "confirmed", "attended", "cancelled", "reschedule_req"}
Terminal == {"cancelled", "attended"}

Columns     == {"user", "date", "start", "end", "status"}
SlotColumns == Columns \ {"status"}

Row == [user : Staff, date : Dates, start : Times, end : Times, status : Statuses]

\* Requests that ask has_overlap before they commit, and those that do not.
Placing   == {"create", "update", "reschedule", "autobook"}
StatusOnly == {"cancel", "status", "reply"}
Kinds     == Placing \cup StatusOnly

\* dirty: the columns the request assigned a value other than the one it loaded.
Request == [pc : {"loaded", "ready"}, kind : Kinds, appt : Ids,
            want : Row, dirty : SUBSET Columns]

\* A service lasts from 5 to 480 minutes: less than a day.
ASSUME AgendaAssumption ==
  /\ DayLen \in Nat \ {0}
  /\ Durations \subseteq 1 .. (DayLen - 1)
  /\ Dates \subseteq Nat
  /\ SlotMinutes \in Nat \ {0}
  /\ OpensAt \in [Dates -> Times] /\ ClosesAt \in [Dates -> Times]
  /\ IsFiniteSet(Requests)
  /\ MaxInFlight \in Nat /\ MaxNow \in Nat
  /\ StatusInputs \subseteq Statuses
  /\ NoRow \notin Row
  /\ NotYet \notin Request /\ Done \notin Request

VARIABLES
  appts,    \* the table: id -> row
  req,      \* request -> what it has read and is about to write
  now,      \* the tenant's local clock, day * DayLen + time of day
  stale,    \* history: requests whose row or slot was touched since they read it
  tainted   \* history: rows whose last write was that of a stale request

vars == <<appts, req, now, stale, tainted>>
----------------------------------------------------------------------------
Booked   == {a \in Ids : appts[a] # NoRow}
InFlight == {r \in Requests : req[r] \notin {NotYet, Done}}

\* A new row's id is a fresh uuid.
FreshIds == Ids \ (Booked \cup {req[r].appt : r \in InFlight})

Active(row) == row.status # "cancelled"

\* The test of has_overlap on two rows.
Overlaps(x, y) ==
  /\ x.user = y.user
  /\ x.date = y.date
  /\ x.start < y.end
  /\ x.end > y.start

StartsInside(row, excluded) ==                                      \* mutant
  \E b \in Booked \ {excluded} :
    /\ Active(appts[b]) /\ Overlaps(appts[b], row)
    /\ row.start >= appts[b].start

\* has_overlap: some active row, other than the excluded one, overlaps.
HasOverlap(row, excluded) ==
  \E b \in Booked \ {excluded} : Active(appts[b]) /\ Overlaps(appts[b], row)

NoWrap(start, duration) == start + duration                         \* mutant

\* _calculate_end_time: the sum wraps at midnight ...
EndTime(start, duration) == (start + duration) % DayLen

AnyEnd(start, duration) == TRUE                                     \* mutant

\* ... and the caller refuses an end that is not after the start.
FitsInDay(start, duration) == EndTime(start, duration) > start

WithinBusinessHours(row) ==
  /\ OpensAt[row.date] < ClosesAt[row.date]
  /\ row.start >= OpensAt[row.date]
  /\ row.end <= ClosesAt[row.date]

NewRow(u, d, s, duration) ==
  [user |-> u, date |-> d, start |-> s, end |-> EndTime(s, duration),
   status |-> "pending"]

\* A flush writes only the columns whose value differs from the loaded one.
Dirty(loaded, want) == {c \in Columns : want[c] # loaded[c]}

FullRowMerge(row, want, dirty) == want                              \* mutant

Merge(row, want, dirty) ==
  [user   |-> IF "user"   \in dirty THEN want.user   ELSE row.user,
   date   |-> IF "date"   \in dirty THEN want.date   ELSE row.date,
   start  |-> IF "start"  \in dirty THEN want.start  ELSE row.start,
   end    |-> IF "end"    \in dirty THEN want.end    ELSE row.end,
   status |-> IF "status" \in dirty THEN want.status ELSE row.status]
----------------------------------------------------------------------------
Today     == now \div DayLen
TimeOfDay == now % DayLen

\* mark_past_confirmed_as_attended: the rows its two UPDATEs select.
HasEnded(row) ==
  \/ row.date < Today
  \/ row.date = Today /\ row.end <= TimeOfDay

PastConfirmed ==
  {a \in Booked : appts[a].status = "confirmed" /\ HasEnded(appts[a])}

\* Rows a customer's reply can match: the get_nearest_pending_* queries.
Repliable == {a \in Booked : appts[a].status = "pending"}

\* Request r arrives and reads what it needs; a row that may be stale
\* already (a slot copied from a raced row) is passed in suspect.
Load(r, kind, a, want, dirty, suspect) ==
  /\ req[r] = NotYet
  /\ Cardinality(InFlight) < MaxInFlight
  /\ req' = [req EXCEPT ![r] =
       [pc |-> IF kind \in Placing THEN "loaded" ELSE "ready",
        kind |-> kind, appt |-> a, want |-> want, dirty |-> dirty]]
  /\ stale' = IF suspect THEN stale \cup {r} ELSE stale
  /\ UNCHANGED <<appts, now, tainted>>

\* create_appointment up to has_overlap.
BeginCreate(r) ==
  \E a \in FreshIds, u \in Staff, d \in Dates, s \in Times,
     duration \in Durations :
    LET row == NewRow(u, d, s, duration) IN
    /\ FitsInDay(s, duration)
    /\ WithinBusinessHours(row)
    /\ Load(r, "create", a, row, Columns, FALSE)

\* update_appointment up to has_overlap: any of staff, date, start and status
\* may change, the end follows from the service; business hours and the
\* current status are not looked at.
BeginUpdate(r) ==
  \E a \in Booked : \E u \in Staff, d \in Dates, s \in Times, duration \in Durations,
     status \in StatusInputs \cup {appts[a].status} :
    LET want == [NewRow(u, d, s, duration) EXCEPT !.status = status] IN
    /\ FitsInDay(s, duration)
    /\ Load(r, "update", a, want, Dirty(appts[a], want), FALSE)

\* reschedule_appointment up to has_overlap: same staff, same status.
BeginReschedule(r) ==
  \E a \in Booked, d \in Dates, s \in Times, duration \in Durations :
    LET want == [NewRow(appts[a].user, d, s, duration)
                   EXCEPT !.status = appts[a].status] IN
    /\ FitsInDay(s, duration)
    /\ WithinBusinessHours(want)
    /\ Load(r, "reschedule", a, want, Dirty(appts[a], want), FALSE)

\* cancel_appointment up to its commit.
BeginCancel(r) ==
  \E a \in Booked :
    LET want == [appts[a] EXCEPT !.status = "cancelled"] IN
    Load(r, "cancel", a, want, Dirty(appts[a], want), FALSE)

AnyStatus(row)    == TRUE                                           \* mutant
CanChangeStatus(row) == row.status \notin Terminal

\* change_status up to its commit.
BeginChangeStatus(r) ==
  \E a \in Booked, status \in StatusInputs :
    LET want == [appts[a] EXCEPT !.status = status] IN
    /\ CanChangeStatus(appts[a])
    /\ Load(r, "status", a, want, Dirty(appts[a], want), FALSE)

\* The event loop is between the read and the commit of no webhook handler.
LoopIsFree == \A q \in InFlight : req[q].kind \notin {"reply", "autobook"}

\* The webhook handlers of replies 1, 2 and 3, up to their commit.
BeginReply(r) ==
  \E a \in Repliable, status \in {"confirmed", "cancelled", "reschedule_req"} :
    LET want == [appts[a] EXCEPT !.status = status] IN
    Load(r, "reply", a, want, Dirty(appts[a], want), FALSE)

\* _try_waitlist_auto_booking up to has_overlap: a new row in the slot, as it
\* is now, of the row an offer names.
BeginAutoBook(r) ==
  \E a \in FreshIds, b \in Booked :
    LET want == [appts[b] EXCEPT !.status = "pending"] IN
    Load(r, "autobook", a, want, Columns, b \in tainted)

\* has_overlap finds nothing, ...
CheckPasses(r) ==
  /\ r \in InFlight /\ req[r].pc = "loaded"
  /\ ~HasOverlap(req[r].want, req[r].appt)
  /\ req' = [req EXCEPT ![r].pc = "ready"]
  /\ UNCHANGED <<appts, now, stale, tainted>>

\* ... or the request is refused with 409.
CheckRefuses(r) ==
  /\ r \in InFlight /\ req[r].pc = "loaded"
  /\ HasOverlap(req[r].want, req[r].appt)
  /\ req' = [req EXCEPT ![r] = Done]
  /\ stale' = stale \ {r}
  /\ UNCHANGED <<appts, now, tainted>>

\* Requests for which writing row (of id a) voids what they have read: the row is
\* the one they loaded, or it takes a slot their has_overlap found free.
Disturbed(a, row) ==
  {r \in InFlight :
     \/ req[r].appt = a
     \/ /\ req[r].kind \in Placing /\ req[r].pc = "ready"
        /\ Active(row) /\ Overlaps(row, req[r].want)}

\* Request r writes row to id a and is answered.  A flush with nothing dirty
\* issues no UPDATE and disturbs nobody.
Write(r, a, row) ==
  /\ appts' = [appts EXCEPT ![a] = row]
  /\ req' = [req EXCEPT ![r] = Done]
  /\ stale' = (IF row = appts[a] THEN stale ELSE stale \cup Disturbed(a, row)) \ {r}
  /\ tainted' = IF row = appts[a] THEN tainted
                ELSE IF r \in stale THEN tainted \cup {a}
                ELSE IF req[r].kind \in Placing THEN tainted \ {a}
                ELSE tainted
  /\ now' = now

\* AppointmentRepository.create, update or cancel: flush and commit.
Commit(r) ==
  /\ r \in InFlight /\ req[r].pc = "ready"
  /\ Write(r, req[r].appt,
           IF req[r].appt \in Booked
           THEN Merge(appts[req[r].appt], req[r].want, req[r].dirty)
           ELSE req[r].want)

\* Every listing of the agenda first runs mark_past_confirmed_as_attended.  It
\* reads and writes in one statement, and counts among the requests in flight.
ListAgenda ==
  /\ Cardinality(InFlight) < MaxInFlight
  /\ PastConfirmed # {}
  /\ appts' = [a \in Ids |-> IF a \in PastConfirmed
                             THEN [appts[a] EXCEPT !.status = "attended"]
                             ELSE appts[a]]
  /\ stale' = stale \cup {r \in InFlight : req[r].appt \in PastConfirmed}
  /\ UNCHANGED <<req, now, tainted>>

\* get_availability changes nothing.  The cursor goes in slots from opening to
\* closing time; a closed day has none.
Grid(d) ==
  {s \in Times : /\ s >= OpensAt[d] /\ (s - OpensAt[d]) % SlotMinutes = 0
                 /\ s + SlotMinutes <= ClosesAt[d]}

Slot(u, d, s) == [user |-> u, date |-> d, start |-> s, end |-> s + SlotMinutes]

IsPast(d, s) == d = Today /\ s < TimeOfDay

BusyOrNextTo(u, d, s) ==                                            \* mutant
  \E a \in Booked :
    /\ Active(appts[a]) /\ appts[a].user = u /\ appts[a].date = d
    /\ appts[a].start < s + SlotMinutes /\ appts[a].end >= s
IsBusy(u, d, s) ==
  \E a \in Booked : Active(appts[a]) /\ Overlaps(appts[a], Slot(u, d, s))

\* What it would answer now; only today's past slots are left out.
FreeSlots(u, d) == {s \in Grid(d) : ~IsBusy(u, d, s) /\ ~IsPast(d, s)}

Tick ==
  /\ now < MaxNow
  /\ now' = now + 1
  /\ UNCHANGED <<appts, req, stale, tainted>>

Init ==
  /\ appts = [a \in Ids |-> NoRow]
  /\ req = [r \in Requests |-> NotYet]
  /\ now = 0
  /\ stale = {}
  /\ tainted = {}

Endpoint(r) ==
  \/ BeginCreate(r)
  \/ BeginUpdate(r)
  \/ BeginReschedule(r)
  \/ BeginCancel(r)
  \/ BeginChangeStatus(r)

Webhook(r) ==
  /\ LoopIsFree
  /\ BeginReply(r) \/ BeginAutoBook(r)

Finish(r) ==
  \/ CheckPasses(r)
  \/ CheckRefuses(r)
  \/ Commit(r)

Next ==
  \/ \E r \in Requests : Endpoint(r) \/ Webhook(r) \/ Finish(r)
  \/ ListAgenda
  \/ Tick

Spec == Init /\ [][Next]_vars
----------------------------------------------------------------------------
TypeOK ==
  /\ appts \in [Ids -> Row \cup {NoRow}]
  /\ req \in [Requests -> Request \cup {NotYet, Done}]
  /\ now \in 0 .. MaxNow
  /\ stale \in SUBSET Requests
  /\ tainted \in SUBSET Ids

\* Two slots of one staff member cover the same minute.
ShareMinute(x, y) ==
  /\ x.user = y.user
  /\ x.date = y.date
  /\ \E t \in Times : x.start <= t /\ t < x.end /\ y.start <= t /\ t < y.end

Clash(a, b) ==
  /\ a # b
  /\ Active(appts[a]) /\ Active(appts[b])
  /\ ShareMinute(appts[a], appts[b])

\* No staff member is ever double-booked, whatever requests are in flight: what
\* README.md:29 and docs/01_architecture.md:29 promise of the database.
NoDoubleBooking == \A a, b \in Booked : ~Clash(a, b)

\* A double booking is always the work of a request that committed on what
\* another request had changed since it read it: update, reschedule, status
\* change, reply, cancellation and attendance marking, served one after the
\* other in any order, never produce one (has_overlap and its callers).
OverlapOnlyByRace ==
  \A a, b \in Booked : Clash(a, b) => a \in tainted \/ b \in tainted

\* Two requests may write different columns of one row; unless they raced, its
\* slot is one somebody asked for, with an end after its start.
SlotIsWhole == \A a \in Booked \ tainted : appts[a].start < appts[a].end

\* What the availability offers and what create_appointment accepts agree: a
\* slot offered fits any service no longer than it, and a slot of the grid that
\* is not past is held back only for an appointment that covers a minute of it
\* (or for one a raced request wrote).
OffersAreBookable ==
  \A u \in Staff, d \in Dates, s \in Times :
    /\ s \in FreeSlots(u, d) =>
         \A duration \in Durations : duration <= SlotMinutes =>
           LET row == NewRow(u, d, s, duration) IN
           /\ FitsInDay(s, duration) /\ WithinBusinessHours(row)
           /\ ~HasOverlap(row, NoRow)
    /\ s \in Grid(d) \ FreeSlots(u, d) =>
         \/ IsPast(d, s)
         \/ \E a \in Booked : /\ Active(appts[a])
                              /\ a \in tainted \/ ShareMinute(appts[a], Slot(u, d, s))

Finishes(r, a) == r \in InFlight /\ req[r].pc = "ready"
                  /\ req[r].appt = a /\ req'[r] = Done

\* A cancelled or attended appointment gets another status only by a PATCH that
\* names a status, by a DELETE, or by a request that had read the row before
\* it was touched; in particular no reschedule brings it back, however late
\* it commits, because it does not write the column.
ReopenedOnlyByPatchOrRace ==
  [][\A a \in Booked :
       appts[a].status \in Terminal /\ appts'[a].status # appts[a].status =>
         \E r \in Requests :
           /\ Finishes(r, a)
           /\ "status" \in req[r].dirty
           /\ req[r].kind \in {"update", "cancel"} \/ r \in stale]_vars
============================================================================
