---------------------------- MODULE MCConnection ----------------------------
(* Constants of the connection run. *)
EXTENDS Connection, TLC

CONSTANTS r1, r2, r3, own, platform
MCRequests == {r1, r2, r3}
Symmetry   == Permutations(MCRequests)
=============================================================================
