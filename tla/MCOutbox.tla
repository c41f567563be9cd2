------------------------------ MODULE MCOutbox ------------------------------
(* Constants of the outbox runs. *)
EXTENDS Outbox

CONSTANTS ana, luis
MCClients  == {ana, luis}
MCTwoMsgs     == 1 .. 2
MCTwoClientOf == [m \in MCTwoMsgs |-> ana]
=============================================================================
