---------------------------- MODULE FairWaitlist ----------------------------
(***************************************************************************)
(* What the waitlist promises its customers, without messages, handlers or *)
(* slots: the entries of a queue get their offers in the order in which    *)
(* they were made, and only who holds an offer gets a place, once.         *)
(***************************************************************************)
EXTENDS Naturals

CONSTANTS
  Entries,    \* numbered in the order in which they are made
  QueueOfEntry \* entry -> what it waits for

VARIABLES
  stage,      \* entry -> how far it has come
  places,     \* entry -> appointments it got
  faults      \* failures so far

vars == <<stage, places, faults>>

Offered == {"proposed", "sent"}     \* waits for the business; told the customer
Open    == {"waiting"} \cup Offered

TypeOK ==
  /\ stage \in [Entries -> {"none", "closed"} \cup Open]
  /\ places \in [Entries -> Nat] /\ faults \in Nat

Init ==
  /\ stage = [i \in Entries |-> "none"]
  /\ places = [i \in Entries |-> 0]
  /\ faults = 0

Becomes(i, s) == stage' = [stage EXCEPT ![i] = s]

Join(i) ==
  /\ stage[i] = "none"
  /\ \A j \in Entries : j < i => stage[j] # "none"
  /\ Becomes(i, "waiting")
  /\ UNCHANGED <<places, faults>>

\* A place is free: it goes to the first of the queue, who may hold an offer.
Offer(i) ==
  /\ stage[i] \in Open
  /\ \A j \in Entries : j < i /\ QueueOfEntry[j] = QueueOfEntry[i] => stage[j] \notin Open
  /\ \E s \in Offered : Becomes(i, s)
  /\ UNCHANGED <<places, faults>>

Approve(i) ==
  /\ stage[i] = "proposed"
  /\ Becomes(i, "sent")
  /\ UNCHANGED <<places, faults>>

\* The offer is taken and the entry closed; or a failure keeps it open.
Take(i) ==
  /\ stage[i] \in Offered
  /\ places' = [places EXCEPT ![i] = @ + 1]
  /\ \/ Becomes(i, "closed") /\ UNCHANGED faults
     \/ UNCHANGED stage /\ faults' = faults + 1

Close(i) ==
  /\ stage[i] \in Open
  /\ Becomes(i, "closed")
  /\ UNCHANGED <<places, faults>>

Fail == faults' = faults + 1 /\ UNCHANGED <<stage, places>>

Next ==
  \/ \E i \in Entries : Join(i) \/ Offer(i) \/ Approve(i) \/ Take(i) \/ Close(i)
  \/ Fail

Spec == Init /\ [][Next]_vars
----------------------------------------------------------------------------
\* Nobody holds an offer while somebody of the same queue waits longer.
Orderly ==
  \A i, j \in Entries :
    stage[i] \in Offered /\ stage[j] \in Open /\ QueueOfEntry[i] = QueueOfEntry[j] => i <= j

\* Nobody gets two places, but for failures.
OnePlaceEach == \A i \in Entries : places[i] <= 1 + faults
=============================================================================
