---------------------------- MODULE MessageLife ----------------------------
(***************************************************************************)
(* What the outbox promises of a message, without batch, worker, clock or  *)
(* attempts: it reaches its client at least once if it is called sent, and *)
(* a copy more only for an attempt that was recorded as failed or for a    *)
(* retry somebody asked for.                                               *)
(***************************************************************************)
EXTENDS Naturals

CONSTANT Msgs

VARIABLES
  state,     \* message -> where it is in its life
  credit,    \* message -> copies that may still go out
  copies     \* message -> copies that went out

Settled == {"sent", "failed", "blocked_opt_out"}
Alive   == {"open", "taken"}

TypeOK ==
  /\ state \in [Msgs -> {"absent"} \cup Alive \cup Settled]
  /\ credit \in [Msgs -> Nat] /\ copies \in [Msgs -> Nat]

Init ==
  /\ state = [m \in Msgs |-> "absent"]
  /\ credit = [m \in Msgs |-> 1]
  /\ copies = [m \in Msgs |-> 0]

Becomes(m, s) == state' = [state EXCEPT ![m] = s]

Submit(m) ==
  /\ state[m] = "absent"
  /\ Becomes(m, "open")
  /\ UNCHANGED <<credit, copies>>

\* A copy goes out, and the sender learns of it or does not.
Deliver(m) ==
  /\ state[m] = "open" /\ credit[m] > 0
  /\ Becomes(m, "taken") \/ UNCHANGED state
  /\ credit' = [credit EXCEPT ![m] = @ - 1]
  /\ copies' = [copies EXCEPT ![m] = @ + 1]

\* What the sender learnt is recorded, or lost with the sender.
Record(m) ==
  /\ state[m] = "taken"
  /\ Becomes(m, "sent") \/ Becomes(m, "open")
  /\ UNCHANGED <<credit, copies>>

\* A failed attempt, perhaps the last, allows another copy.
Fail(m) ==
  /\ state[m] = "open"
  /\ UNCHANGED state \/ Becomes(m, "failed")
  /\ credit' = [credit EXCEPT ![m] = @ + 1]
  /\ UNCHANGED copies

Block(m) ==
  /\ state[m] = "open"
  /\ Becomes(m, "blocked_opt_out")
  /\ UNCHANGED <<credit, copies>>

\* A retry by hand; one that comes while a copy is being recorded is not
\* noticed, but its credit stays.
Reopen(m) ==
  /\ state[m] # "absent"
  /\ IF state[m] = "taken" THEN UNCHANGED state ELSE Becomes(m, "open")
  /\ credit' = [credit EXCEPT ![m] = @ + 1]
  /\ UNCHANGED copies

Next ==
  \E m \in Msgs :
    Submit(m) \/ Deliver(m) \/ Record(m) \/ Fail(m) \/ Block(m) \/ Reopen(m)

Spec == Init /\ [][Next]_<<state, credit, copies>>
----------------------------------------------------------------------------
\* A message called sent has reached its client.
SentIsDelivered == \A m \in Msgs : state[m] = "sent" => copies[m] > 0
=============================================================================
