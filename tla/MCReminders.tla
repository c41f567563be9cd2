---------------------------- MODULE MCReminders ----------------------------
(* Constants of the reminder runs: days of two steps; the clock begins before midnight. *)
EXTENDS Reminders, TLC

CONSTANTS a1, a2, spa, bar
MCAppts    == {a1, a2}
MCTenants  == {spa}
MCTenantOf == [a \in MCAppts |-> spa]
MCStarts   == {2, 3}
Symmetry   == Permutations(MCAppts)
MCTwoTenants  == {spa, bar}
MCTwoTenantOf == [a \in MCAppts |-> IF a = a1 THEN spa ELSE bar]
MCBadZone     == {bar}
=============================================================================
