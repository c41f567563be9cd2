--------------------------- MODULE MCAgendaSerial ---------------------------
(* Constants of the serial agenda. *)
EXTENDS AgendaSerial, TLC

MCDates     == {0}
MCDurations == {1, 2}
MCOpensAt   == [d \in MCDates |-> 0]
MCClosesAt  == [d \in MCDates |-> 3]
MCStatusInputs == {"pending", "confirmed", "cancelled"}
MCSymmetry  == Permutations(Ids) \cup Permutations(Staff) \cup Permutations(Requests)
=============================================================================
