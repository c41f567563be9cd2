------------------------- MODULE AgendaSerialProofs -------------------------
(***************************************************************************)
(* The agenda served one request at a time implements AtomicAgenda, and so *)
(* never books anybody twice.                                              *)
(***************************************************************************)
EXTENDS AgendaSerial, AgendaProofs, FiniteSetTheorems

USE AgendaAssumption

\* Nobody runs beside the request in flight, so nothing it read ever changes.
Alone ==
  /\ \A r, p \in InFlight : r = p
  /\ stale = {}
  /\ tainted = {}

LEMMA InitAlone == Init => Alone
BY DEF Init, Alone, InFlight

LEMMA AdmittedAlone ==
  ASSUME MaxInFlight = 1, Cardinality(InFlight) < MaxInFlight
  PROVE  InFlight = {}
<1>1. IsFiniteSet(InFlight)
  BY FS_Subset, AgendaAssumption DEF InFlight
<1>2. Cardinality(InFlight) = 0
  BY <1>1, FS_CardinalityType
<1> QED
  BY <1>1, <1>2, FS_EmptySet

\* A request is admitted only when none is in flight.
LEMMA LoadAlone ==
  ASSUME MaxInFlight = 1, IInv, Alone,
         NEW r \in Requests, Endpoint(r) \/ Webhook(r)
  PROVE  Alone'
<1>1. PICK q : Reads(r, q)
  BY BeginReads
<1>2. InFlight = {}
  BY <1>1, AdmittedAlone DEF Reads
<1> QED
  BY <1>1, <1>2 DEF Reads, Alone, InFlight

LEMMA FinishAlone ==
  ASSUME IInv, Alone, NEW r \in Requests, Finish(r)
  PROVE  Alone'
<1>1. CASE CheckPasses(r) \/ CheckRefuses(r)
  BY <1>1 DEF CheckPasses, CheckRefuses, Alone, InFlight, IInv, TypeOK, Request
<1>2. CASE Commit(r)
  <2>1. PICK row : Write(r, req[r].appt, row)
    BY <1>2 DEF Commit
  <2>2. InFlight = {r}
    BY <1>2 DEF Commit, Alone
  <2>3. Disturbed(req[r].appt, row) \subseteq {r}
    BY <2>2 DEF Disturbed
  <2>4. InFlight' = {}
    BY <2>1, <2>2 DEF Write, InFlight, IInv, TypeOK
  <2> QED
    BY <2>1, <2>3, <2>4 DEF Write, Alone
<1> QED
  BY <1>1, <1>2 DEF Finish

LEMMA NextAlone == MaxInFlight = 1 /\ IInv /\ Alone /\ [Next]_vars => Alone'
<1> SUFFICES ASSUME MaxInFlight = 1, IInv, Alone, [Next]_vars PROVE Alone'
  OBVIOUS
<1>1. ASSUME NEW r \in Requests, Endpoint(r) \/ Webhook(r) PROVE Alone'
  BY <1>1, LoadAlone
<1>2. ASSUME NEW r \in Requests, Finish(r) PROVE Alone'
  BY <1>2, FinishAlone
<1>3. CASE ListAgenda
  <2>1. /\ UNCHANGED <<req, tainted>>
        /\ stale' = stale \cup {r \in InFlight : req[r].appt \in PastConfirmed}
        /\ InFlight = {}
    BY <1>3, AdmittedAlone DEF ListAgenda
  <2>2. InFlight' = InFlight
    BY <2>1 DEF InFlight
  <2> QED
    BY <2>1, <2>2 DEF Alone
<1>4. CASE UNCHANGED <<req, stale, tainted>>
  BY <1>4 DEF Alone, InFlight
<1> QED
  BY <1>1, <1>2, <1>3, <1>4 DEF Next, Tick, vars
----------------------------------------------------------------------------
LEMMA InitHeld == Init => AA!Init
BY DEF Init, AA!Init, Held, Booked

\* Held changes at an id only if the row there changes.
LEMMA HeldAt ==
  ASSUME IInv
  PROVE  /\ Held \in [Ids -> AllSlots \cup {NoRow}]
         /\ \A a \in Ids : Held[a] = IF appts[a] # NoRow /\ Active(appts[a])
                                    THEN SlotOf(appts[a]) ELSE NoRow
BY DEF Held, Booked, IInv, TypeOK, SlotOf, Row, AllSlots

\* The commit is the step that takes, keeps or releases a slot.
LEMMA CommitHeld ==
  ASSUME IInv, Alone, NEW r \in Requests, Commit(r), IInv'
  PROVE  AA!Next \/ UNCHANGED Held
<1> DEFINE q == req[r]
           a == q.appt
           row == IF a \in Booked THEN Merge(appts[a], q.want, q.dirty) ELSE q.want
<1>1. /\ r \in InFlight /\ q \in Request /\ q.pc = "ready"
      /\ appts' = [appts EXCEPT ![a] = row]
  BY DEF Commit, Write, IInv, TypeOK, InFlight
<1>2. Undisturbed(r)
  BY <1>1 DEF Alone, IInv, KnowsWhatItRead
<1>3. row = q.want
  BY <1>2 DEF Undisturbed
<1>4. a \in Ids /\ q.want \in Row /\ q.kind \in Kinds
  BY <1>1 DEF Request
<1> HIDE DEF row
<1>5. row \in Row /\ row # NoRow
  BY <1>3, <1>4
<1>6. appts'[a] = row /\ \A b \in Ids \ {a} : appts'[b] = appts[b]
  BY <1>1, <1>4 DEF IInv, TypeOK
<1>7. Held' = [Held EXCEPT ![a] = IF Active(row) THEN SlotOf(row) ELSE NoRow]
  BY <1>4, <1>5, <1>6 DEF Held, Booked, Active
<1>8. CASE ~Active(row)
  BY <1>4, <1>7, <1>8 DEF AA!Next, AA!Release
<1>9. CASE Active(row) /\ q.kind \in StatusOnly
  <2>1. a \in Booked /\ SameSlot(appts[a], row) /\ Active(appts[a])
    BY <1>2, <1>3, <1>9 DEF Undisturbed
  <2>2. Held[a] = SlotOf(row)
    BY <1>4, <2>1, HeldAt DEF SameSlot, SlotOf, Booked
  <2> QED
    BY <1>7, <1>9, <2>2, HeldAt
<1>10. CASE Active(row) /\ q.kind \in Placing
  <2>1. SlotOf(row) \in AllSlots
    BY <1>5 DEF SlotOf, Row, AllSlots
  <2>2. ASSUME NEW b \in Ids \ {a}, Held[b] # NoRow
        PROVE  ~ShareMinute(Held[b], SlotOf(row))
    <3>1. b \in Booked \ {a} /\ Active(appts[b]) /\ Held[b] = SlotOf(appts[b])
      BY <2>2, HeldAt DEF Booked
    <3>2. appts[b] \in Row
      BY <3>1 DEF Booked, IInv, TypeOK
    <3>3. ~HasOverlap(row, a)
      BY <1>1, <1>2, <1>3, <1>10 DEF Undisturbed
    <3>4. ~ShareMinute(appts[b], row)
      BY <1>5, <3>1, <3>2, <3>3, SharedMinuteOverlaps DEF HasOverlap
    <3> QED
      BY <3>1, <3>4 DEF ShareMinute, SlotOf
  <2>3. AA!Place(a, SlotOf(row))
    BY <1>7, <1>10, <2>2 DEF AA!Place
  <2> QED
    BY <1>4, <2>1, <2>3 DEF AA!Next
<1> QED
  BY <1>4, <1>8, <1>9, <1>10 DEF Kinds

LEMMA ListAgendaHeld ==
  ASSUME IInv, ListAgenda
  PROVE  UNCHANGED Held
<1>1. ASSUME NEW a \in Ids
      PROVE  (IF appts'[a] # NoRow /\ Active(appts'[a]) THEN SlotOf(appts'[a]) ELSE NoRow)
               = (IF appts[a] # NoRow /\ Active(appts[a]) THEN SlotOf(appts[a]) ELSE NoRow)
  <2>1. CASE a \in PastConfirmed
    <3>1. appts[a] \in Row /\ appts[a].status = "confirmed"
      BY <2>1 DEF PastConfirmed, Booked, IInv, TypeOK
    <3>2. appts'[a] = [appts[a] EXCEPT !.status = "attended"]
      BY <2>1 DEF ListAgenda
    <3>3. appts'[a] \in Row
      BY <3>1, <3>2 DEF Row, Statuses
    <3> QED
      BY <3>1, <3>2, <3>3 DEF SlotOf, Active, Row
  <2>2. CASE a \notin PastConfirmed
    BY <2>2 DEF ListAgenda
  <2> QED
    BY <2>1, <2>2
<1> QED
  BY <1>1 DEF Held, Booked

LEMMA NextHeld == IInv /\ IInv' /\ Alone /\ [Next]_vars => [AA!Next]_Held
<1> SUFFICES ASSUME IInv, IInv', Alone, [Next]_vars PROVE AA!Next \/ UNCHANGED Held
  OBVIOUS
<1>1. CASE UNCHANGED appts
  BY <1>1 DEF Held, Booked
<1>2. ASSUME NEW r \in Requests, Endpoint(r) \/ Webhook(r) PROVE UNCHANGED appts
  BY <1>2, BeginReads DEF Reads
<1>3. ASSUME NEW r \in Requests, Finish(r) PROVE UNCHANGED appts \/ Commit(r)
  BY <1>3 DEF Finish, CheckPasses, CheckRefuses
<1> QED
  BY <1>1, <1>2, <1>3, CommitHeld, ListAgendaHeld DEF Next, Tick, vars

\* With one request in flight at a time the agenda's check-then-write is the
\* exclusion constraint of docs/02_database_schema.md (create_appointment,
\* update_appointment, reschedule_appointment, the waitlist's booking).
THEOREM SerialAgendaIsAtomic ==
  ASSUME MaxInFlight = 1
  PROVE  Spec => ImplementsAtomicAgenda
<1>1. IInv /\ Alone /\ [Next]_vars => Alone'
  BY NextAlone
<1>2. Spec => []IInv
  BY Inductive
<1> QED
  BY <1>1, <1>2, InitAlone, InitHeld, NextHeld, PTL
  DEF Spec, ImplementsAtomicAgenda, AA!Spec
----------------------------------------------------------------------------
\* A slot is placed only where it conflicts with none, so none ever do.
LEMMA NextApart == AA!TypeOK /\ AA!Apart /\ [AA!Next]_Held => AA!TypeOK' /\ AA!Apart'
<1> SUFFICES ASSUME AA!TypeOK, AA!Apart, AA!Next \/ UNCHANGED Held
             PROVE  AA!TypeOK' /\ AA!Apart'
  OBVIOUS
<1>1. ASSUME NEW a \in Ids, AA!Release(a)
      PROVE  AA!TypeOK' /\ AA!Apart'
  BY <1>1 DEF AA!Release, AA!TypeOK, AA!Apart
<1>2. ASSUME NEW a \in Ids,
             NEW slot \in AllSlots,
             AA!Place(a, slot)
      PROVE  AA!TypeOK' /\ AA!Apart'
  <2>1. /\ AA!TypeOK' /\ Held'[a] = slot
        /\ \A b \in Ids \ {a} : Held'[b] = Held[b]
    BY <1>2 DEF AA!Place, AA!TypeOK
  <2>2. \A b \in Ids \ {a} : Held[b] # NoRow =>
          ~ShareMinute(Held[b], slot) /\ ~ShareMinute(slot, Held[b])
    BY <1>2, ShareMinuteSymmetric DEF AA!Place, AA!TypeOK
  <2> QED
    BY <2>1, <2>2 DEF AA!Apart
<1>3. CASE UNCHANGED Held
  BY <1>3 DEF AA!TypeOK, AA!Apart
<1> QED
  BY <1>1, <1>2, <1>3 DEF AA!Next

\* The abstract agenda keeps its promise: the exclusion constraint of
\* docs/02_database_schema.md leaves no two appointments in conflict.
THEOREM AtomicAgendaIsApart == AA!Spec => []AA!Apart
<1>1. AA!Init => AA!TypeOK /\ AA!Apart
  BY DEF AA!Init, AA!TypeOK, AA!Apart
<1> QED
  BY <1>1, NextApart, PTL DEF AA!Spec

\* With one request in flight at a time nobody is double-booked, which is what
\* README.md:29 promises of the database (has_overlap and its callers).
THEOREM SerialAgendaIsSafe ==
  ASSUME MaxInFlight = 1
  PROVE  Spec => []NoDoubleBooking
<1>1. IInv /\ AA!Apart => NoDoubleBooking
  <2> SUFFICES ASSUME IInv, AA!Apart, NEW a \in Booked, NEW b \in Booked, Clash(a, b)
               PROVE  FALSE
    BY DEF NoDoubleBooking
  <2>1. /\ a \in Ids /\ b \in Ids /\ a # b
        /\ Active(appts[a]) /\ Active(appts[b]) /\ ShareMinute(appts[a], appts[b])
    BY DEF Clash, Booked
  <2>2. Held[a] = SlotOf(appts[a]) /\ Held[b] = SlotOf(appts[b])
    BY <2>1, HeldAt DEF Booked
  <2>3. Held[a] # NoRow /\ Held[b] # NoRow
    <3>1. appts[a] \in Row /\ appts[b] \in Row
      BY DEF Booked, IInv, TypeOK
    <3>2. SlotOf(appts[a]) \in AllSlots /\ SlotOf(appts[b]) \in AllSlots
      BY <3>1 DEF SlotOf, Row, AllSlots
    <3> QED
      BY <2>2, <3>2, SlotAssumption
  <2>4. ShareMinute(Held[a], Held[b])
    BY <2>1, <2>2 DEF ShareMinute, SlotOf
  <2> QED
    BY <2>1, <2>3, <2>4 DEF AA!Apart
<1>2. Spec => []IInv
  BY Inductive
<1>3. Spec => []AA!Apart
  BY SerialAgendaIsAtomic, AtomicAgendaIsApart DEF ImplementsAtomicAgenda
<1> QED
  BY <1>1, <1>2, <1>3, PTL
=============================================================================
