----------------------------- MODULE MCAccount -----------------------------
(* Constants of the account runs. *)
EXTENDS Account, TLC

CONSTANTS eva, tom, sam, ref, r1, r2, r3, r4
MCUsers    == {eva, tom, sam}
MCPlans    == {"starter", "pro"}
MCMaxUsers == [p \in MCPlans |-> IF p = "starter" THEN 0 ELSE 1]
MCRequests == {r1, r2, r3, r4}
Symmetry   == Permutations(MCRequests) \cup Permutations({tom, sam})
=============================================================================
