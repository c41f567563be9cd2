------------------------------ MODULE MCWebhook -----------------------------
(* Constants of the webhook runs. *)
EXTENDS Webhook
CONSTANTS ana, luis, m1, m2
MCMessages == {m1, m2}
MCLastTwice == [m \in MCMessages |-> IF m = m2 THEN 2 ELSE 1]
MCDeliveries == [m \in MCMessages |-> IF m = m1 THEN 2 ELSE 1]
MCClients == {ana, luis}
MCSlots   == 0 .. 1
MCOneDay  == [s \in MCSlots |-> "monday"]
MCDays == [s \in MCSlots |-> IF s = 0 THEN "monday" ELSE "tuesday"]
MCItems == 1 .. 3
MCWaits == [i \in MCItems |->
             [client |-> IF i = 3 THEN luis ELSE ana, day |-> "monday",
              service |-> IF i = 1 THEN "dye" ELSE "cut"]]
MCOneWaits == [i \in {1} |-> [client |-> ana, day |-> "monday", service |-> "cut"]]
=============================================================================
