---------------------------- MODULE AgendaSerial ----------------------------
(***************************************************************************)
(* The agenda served one request at a time (MaxInFlight = 1) implements    *)
(* AtomicAgenda: check-then-write is then as good as the exclusion         *)
(* constraint the documents promise.                                       *)
(***************************************************************************)
EXTENDS Agenda

SlotOf(row) ==
  [user |-> row.user, date |-> row.date, start |-> row.start, end |-> row.end]

AllSlots == [user : Staff, date : Dates, start : Times, end : Times]

ASSUME SlotAssumption == NoRow \notin AllSlots

\* An appointment holds its slot while has_overlap sees it.
Held ==
  [a \in Ids |-> IF a \in Booked /\ Active(appts[a]) THEN SlotOf(appts[a]) ELSE NoRow]

AA == INSTANCE AtomicAgenda
        WITH Slots <- AllSlots, Free <- NoRow, Conflict <- ShareMinute, held <- Held

\* Every request, run to its end before the next one starts, takes a slot that
\* is free, keeps the one it has or releases it (the callers of has_overlap,
\* cancel, change_status, the replies and attendance marking).
ImplementsAtomicAgenda == AA!Spec
=============================================================================
