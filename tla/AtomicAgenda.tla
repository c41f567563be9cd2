---------------------------- MODULE AtomicAgenda ----------------------------
(***************************************************************************)
(* What the agenda promises its tenants: a slot of a staff member is held  *)
(* by one appointment at most, because taking a slot and finding it free   *)
(* are one step.  This is the exclusion constraint over (user, time range) *)
(* of docs/02_database_schema.md, said without a database.                 *)
(***************************************************************************)
CONSTANTS
  Ids,              \* appointments
  Slots,            \* what an appointment can hold
  Free,             \* holds nothing: no row yet, or cancelled
  Conflict(_, _)    \* two slots that must not be held at once

VARIABLE held       \* id -> the slot it holds

TypeOK == held \in [Ids -> Slots \cup {Free}]

Init == held = [a \in Ids |-> Free]

\* Take a slot, or move to it.
Place(a, slot) ==
  /\ \A b \in Ids \ {a} : held[b] # Free => ~Conflict(held[b], slot)
  /\ held' = [held EXCEPT ![a] = slot]

Release(a) == held' = [held EXCEPT ![a] = Free]

Next == \E a \in Ids : Release(a) \/ \E slot \in Slots : Place(a, slot)

Spec == Init /\ [][Next]_held
----------------------------------------------------------------------------
\* No two appointments ever hold what must not be held at once.
Apart ==
  \A a, b \in Ids :
    a # b /\ held[a] # Free /\ held[b] # Free => ~Conflict(held[a], held[b])
=============================================================================
