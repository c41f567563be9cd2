------------------------------ MODULE MCAgenda ------------------------------
(* Constants of the agenda runs. *)
EXTENDS Agenda, TLC

MCDates     == {0}
MCDurations == {1, 2}
MCOpensAt   == [d \in MCDates |-> 0]
MCClosesAt  == [d \in MCDates |-> 2]
MCStatusInputs == {"pending"}
MCSymmetry  == Permutations(Ids) \cup Permutations(Staff) \cup Permutations(Requests)
=============================================================================
