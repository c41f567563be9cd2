---------------------------- MODULE OutboxProofs ----------------------------
(***************************************************************************)
(* What the outbox run checks, for any number of messages, any batch size, *)
(* any number of attempts, retries and lost iterations.  The inductive     *)
(* invariant says how many deliveries a row still allows, by its status    *)
(* and by where the worker is with it.                                     *)
(***************************************************************************)
EXTENDS Outbox, WellFoundedInduction, FiniteSetTheorems, TLAPS

\* Claimed, and the outcome of its send is not known yet.
Held(m) == m \in batch /\ (m = Current => pc \notin {"accepted", "errored"})

DeliveriesFit(m) ==
  LET room    == rows[m].attempts + resets[m]
      pending == rows[m].status = "pending"
  IN
  /\ delivered[m] <= room + 1
  /\ pending \/ Held(m) => delivered[m] <= room
  /\ pending /\ Held(m) => delivered[m] + 1 <= room

AttemptsFit(m) ==
  LET max == MaxAttempts + resets[m] IN
  /\ rows[m].attempts <= max
  /\ rows[m].status = "pending" \/ m \in batch => rows[m].attempts < max

\* What is claimed is still to be sent; what is not queued was never sent or
\* retried.
BatchIsOpen ==
  /\ \A m \in batch : rows[m].status \in {"pending", "processing"}
  /\ \A m \in Msgs : m \notin Queued => delivered[m] = 0 /\ resets[m] = 0

OptOutFits ==
  /\ \A c \in Clients : afterOut[c] <= 1 /\ (c \notin optedOut => afterOut[c] = 0)
  /\ pc = "jitter" => afterOut[ClientOf[Current]] = 0

RowsFit == \A m \in Queued : DeliveriesFit(m) /\ AttemptsFit(m)

IInv == TypeOK /\ BatchIsOpen /\ RowsFit /\ OptOutFits

----------------------------------------------------------------------------
\* The order of the naturals, behind a relation that the provers can handle.
LEMMA LessThan ==
  \E R : /\ IsWellFoundedOn(R, Nat)
         /\ \A x, y \in Nat : y < x => <<y, x>> \in R
<1>1. \A x, y \in Nat : y < x => <<y, x>> \in OpToRel(<, Nat)
  BY DEF OpToRel
<1> QED
  BY <1>1, NatLessThanWellFounded, Zenon

\* A set of messages has an oldest one.
LEMMA OldestIsLeast ==
  ASSUME NEW T, T \subseteq Nat, T # {}
  PROVE  /\ Oldest(T) \in T
         /\ \A y \in T : Oldest(T) <= y
<1>1. PICK R : /\ IsWellFoundedOn(R, Nat)
               /\ \A x, y \in Nat : y < x => <<y, x>> \in R
  BY LessThan
<1>2. PICK x \in T : \A y \in T : ~ (<<y, x>> \in R)
  BY <1>1, WFMin
<1>3. ASSUME NEW y \in T PROVE x <= y
  <2>1. x \in Nat /\ y \in Nat
    OBVIOUS
  <2>2. ~ (y < x)
    BY <1>1, <1>2, <2>1, Zenon
  <2> QED
    BY <2>1, <2>2
<1>4. \E m \in T : \A n \in T : m <= n
  BY <1>3
<1> QED
  BY <1>4 DEF Oldest

\* While an iteration is on its way there is a current message, and it is queued.
LEMMA CurrentIsClaimed ==
  ASSUME TypeOK, pc # "idle"
  PROVE  Current \in batch /\ Current \in Queued /\ Current \in Msgs
<1>1. batch # {} /\ batch \subseteq Queued /\ Queued \subseteq Msgs
  BY DEF TypeOK, Queued
<1>2. batch \subseteq Nat
  BY <1>1, OutboxAssumption
<1> QED
  BY <1>1, <1>2, OldestIsLeast DEF Current

----------------------------------------------------------------------------
\* What a row that replaces a message's own must satisfy once it has left the
\* batch.
Acceptable(m, row) ==
  /\ row \in Row
  /\ delivered[m] <= row.attempts + resets[m] + 1
  /\ row.status = "pending" => delivered[m] <= row.attempts + resets[m]
  /\ row.attempts <= MaxAttempts + resets[m]
  /\ row.status = "pending" => row.attempts < MaxAttempts + resets[m]

\* Every way to be done with the current message: NotConnected, Blocked,
\* RecordSent and RecordFailure differ in the row they leave.
LEMMA FinishKeeps ==
  ASSUME IInv, pc # "idle", NEW row, Acceptable(Current, row),
         rows' = [rows EXCEPT ![Current] = row], Advance,
         UNCHANGED <<delivered, afterOut>>
  PROVE  IInv'
<1> USE NoRowAssumption
<1>1. Current \in batch /\ Current \in Queued /\ Current \in Msgs
  BY CurrentIsClaimed DEF IInv
<1>2. Queued' = Queued
  BY <1>1 DEF Queued, IInv, TypeOK, Acceptable
<1>3. TypeOK'
  BY <1>1, <1>2 DEF IInv, TypeOK, Acceptable, Advance
<1>4. BatchIsOpen'
  <2>1. \A m \in batch' : rows'[m] = rows[m] /\ m \in batch
    BY <1>1 DEF Advance, IInv, TypeOK, Queued
  <2> QED
    BY <2>1, <1>2 DEF IInv, BatchIsOpen, Advance
<1>5. ASSUME NEW m \in Queued PROVE DeliveriesFit(m)' /\ AttemptsFit(m)'
  <2>0. m \in Msgs
    BY DEF Queued
  <2>1. CASE m = Current
    <3>1. m \notin batch' /\ rows'[m] = row
      BY <2>1, <1>1 DEF Advance, IInv, TypeOK
    <3> QED
      BY <3>1, <2>1 DEF Acceptable, DeliveriesFit, AttemptsFit, Held, Advance
  <2>2. CASE m # Current
    <3>1. rows'[m] = rows[m] /\ (m \in batch' <=> m \in batch)
      BY <2>0, <2>2, <1>1 DEF Advance, IInv, TypeOK
    <3>2. Held(m)' => Held(m)
      BY <3>1, <2>2 DEF Held
    <3>3. DeliveriesFit(m) /\ AttemptsFit(m)
      BY DEF IInv, RowsFit
    <3> QED
      BY <3>1, <3>2, <3>3 DEF DeliveriesFit, AttemptsFit, Advance
  <2> QED
    BY <2>1, <2>2
<1>6. OptOutFits'
  <2>1. pc' # "jitter" /\ optedOut' = optedOut
    BY DEF Advance
  <2> QED
    BY <2>1 DEF IInv, OptOutFits
<1> QED
  BY <1>2, <1>3, <1>4, <1>5, <1>6 DEF IInv, RowsFit

\* retry_or_fail leaves an acceptable row of a message whose send is not known
\* to have succeeded, or that has failed once more.
LEMMA RetryOrFailIsAcceptable ==
  ASSUME IInv, pc # "idle", NEW age \in Nat
  PROVE  Acceptable(Current, RetryOrFail(rows[Current], age))
<1>1. Current \in batch /\ Current \in Queued /\ Current \in Msgs
  BY CurrentIsClaimed DEF IInv
<1> DEFINE m   == Current
           row == rows[m]
           n   == row.attempts + 1
<1>2. row \in Row /\ n \in Nat /\ resets[m] \in Nat /\ delivered[m] \in Nat
  BY <1>1 DEF IInv, TypeOK, Queued, Row
<1>3. delivered[m] <= n + resets[m] /\ n <= MaxAttempts + resets[m]
  <2>1. DeliveriesFit(m) /\ AttemptsFit(m)
    BY <1>1 DEF IInv, RowsFit
  <2>2. MaxAttempts \in Nat
    BY OutboxAssumption
  <2>3. delivered[m] <= row.attempts + resets[m] + 1
    BY <2>1 DEF DeliveriesFit
  <2>4. row.attempts < MaxAttempts + resets[m]
    BY <2>1, <1>1 DEF AttemptsFit
  <2>5. row.attempts \in Nat
    BY <1>2 DEF Row
  <2> QED
    BY <1>2, <2>2, <2>3, <2>4, <2>5
<1>4. Base * n - age \in Int
  BY <1>2, OutboxAssumption
<1>5. CASE GivesUp(n)
  <2>1. RetryOrFail(row, age) = [status |-> "failed", attempts |-> n, wait |-> row.wait]
    <3>1. RetryOrFail(row, age) = [row EXCEPT !.attempts = n, !.status = "failed"]
      BY <1>5 DEF RetryOrFail
    <3> HIDE DEF n, row
    <3> QED
      BY <3>1, <1>2 DEF Row
  <2> HIDE DEF n
  <2>2. [status |-> "failed", attempts |-> n, wait |-> row.wait] \in Row
    BY <1>2 DEF Row, Statuses, Final
  <2> QED
    BY <2>1, <2>2, <1>2, <1>3 DEF Acceptable
<1>6. CASE ~ GivesUp(n)
  <2> DEFINE w == Later(Base * n - age)
  <2>1. w \in Nat
    BY <1>4 DEF Later
  <2>2. RetryOrFail(row, age) = [status |-> "pending", attempts |-> n, wait |-> w]
    <3>1. RetryOrFail(row, age) =
            [row EXCEPT !.attempts = n, !.status = "pending", !.wait = w]
      BY <1>6 DEF RetryOrFail
    <3> HIDE DEF n, w, row
    <3> QED
      BY <3>1, <1>2 DEF Row
  <2>3. n < MaxAttempts + resets[m]
    BY <1>6, <1>2, OutboxAssumption DEF GivesUp
  <2> HIDE DEF n, w
  <2>4. [status |-> "pending", attempts |-> n, wait |-> w] \in Row
    BY <2>1, <1>2 DEF Row, Statuses
  <2> QED
    BY <2>2, <2>3, <2>4, <1>2, <1>3 DEF Acceptable
<1> QED
  BY <1>5, <1>6

\* A final status is acceptable whatever the row allowed.
LEMMA FinalIsAcceptable ==
  ASSUME IInv, pc # "idle", NEW s \in Final
  PROVE  Acceptable(Current, [rows[Current] EXCEPT !.status = s])
<1>1. Current \in batch /\ Current \in Queued /\ Current \in Msgs
  BY CurrentIsClaimed DEF IInv
<1>2. rows[Current] \in Row
  BY <1>1 DEF IInv, TypeOK, Queued
<1>3. DeliveriesFit(Current) /\ AttemptsFit(Current)
  BY <1>1 DEF IInv, RowsFit
<1>4. s # "pending" /\ s \in Statuses
  BY DEF Final, Statuses
<1>5. [rows[Current] EXCEPT !.status = s] =
        [status |-> s, attempts |-> rows[Current].attempts, wait |-> rows[Current].wait]
  BY <1>2 DEF Row
<1>6. [status |-> s, attempts |-> rows[Current].attempts, wait |-> rows[Current].wait] \in Row
  BY <1>2, <1>4 DEF Row
<1> QED
  BY <1>3, <1>4, <1>5, <1>6 DEF Acceptable, DeliveriesFit, AttemptsFit

----------------------------------------------------------------------------
\* What endpoints and time do to rows leaves the batch alone.
LEMMA EnvironmentKeeps ==
  ASSUME IInv, Environment
  PROVE  IInv'
<1> USE NoRowAssumption
<1>0. /\ TypeOK /\ BatchIsOpen /\ RowsFit /\ OptOutFits
  BY DEF IInv
<1>1. ASSUME NEW m \in Msgs, Enqueue(m)
      PROVE  IInv'
  <2> DEFINE new == [status |-> "pending", attempts |-> 0, wait |-> 0]
  <2>1. /\ rows' = [rows EXCEPT ![m] = new] /\ m \notin Queued
        /\ UNCHANGED <<batch, pc, elapsed, connected, optedOut, delivered, afterOut,
                       resets, losses>>
    BY <1>1 DEF Enqueue, Queued
  <2>2. new \in Row
    BY DEF Row, Statuses
  <2>3. rows'[m] = new /\ \A n \in Msgs : n # m => rows'[n] = rows[n]
    BY <2>1, <1>0 DEF TypeOK
  <2>4. new # NoRow /\ new.status = "pending" /\ new.attempts = 0
    BY <2>2
  <2> HIDE DEF new
  <2>5. Queued' = Queued \cup {m}
    BY <2>3, <2>4 DEF Queued
  <2>6. TypeOK'
    BY <2>1, <2>2, <2>5, <1>0 DEF TypeOK
  <2>7. m \notin batch /\ Current' = Current
    BY <2>1, <1>0 DEF TypeOK, Current
  <2>8. BatchIsOpen'
    BY <2>1, <2>3, <2>5, <2>7, <1>0 DEF BatchIsOpen, TypeOK, Queued
  <2>9. ASSUME NEW n \in Queued' PROVE DeliveriesFit(n)' /\ AttemptsFit(n)'
    <3>1. CASE n = m
      <4>1. delivered[m] = 0 /\ resets[m] \in Nat /\ MaxAttempts \in Nat \ {0}
        BY <2>1, <1>0, OutboxAssumption DEF BatchIsOpen, TypeOK
      <4>2. ~ Held(m)'
        BY <2>1, <2>7 DEF Held
      <4> QED
        BY <3>1, <4>1, <4>2, <2>1, <2>3, <2>4, <2>7 DEF DeliveriesFit, AttemptsFit
    <3>2. CASE n # m
      <4>1. n \in Queued /\ rows'[n] = rows[n]
        BY <3>2, <2>3, <2>5 DEF Queued
      <4>2. Held(n)' <=> Held(n)
        BY <2>1, <2>7 DEF Held
      <4>3. DeliveriesFit(n) /\ AttemptsFit(n)
        BY <4>1, <1>0 DEF RowsFit
      <4> QED
        BY <4>1, <4>2, <4>3, <2>1 DEF DeliveriesFit, AttemptsFit
    <3> QED
      BY <3>1, <3>2
  <2>10. OptOutFits'
    BY <2>1, <2>7, <1>0 DEF OptOutFits
  <2> QED
    BY <2>6, <2>8, <2>9, <2>10 DEF IInv, RowsFit
<1>2. ASSUME NEW m \in Msgs, ManualRetry(m)
      PROVE  IInv'
  <2> DEFINE new == [status |-> "pending", attempts |-> rows[m].attempts, wait |-> 0]
  <2>0. m \in Queued /\ rows[m] \in Row
    BY <1>2, <1>0 DEF ManualRetry, Queued, TypeOK
  <2>1. /\ rows' = [rows EXCEPT ![m] = [rows[m] EXCEPT !.status = "pending", !.wait = 0]]
        /\ resets' = [resets EXCEPT ![m] = @ + 1]
        /\ UNCHANGED <<batch, pc, elapsed, connected, optedOut, delivered, afterOut, losses>>
    BY <1>2 DEF ManualRetry
  <2>2. /\ [rows[m] EXCEPT !.status = "pending", !.wait = 0] = new
        /\ new \in Row
    <3> DEFINE row == rows[m]
    <3>1. row \in Row
      BY <2>0
    <3> HIDE DEF row
    <3>2. [row EXCEPT !.status = "pending", !.wait = 0] =
            [status |-> "pending", attempts |-> row.attempts, wait |-> 0]
      <4>1. PICK e : e = [row EXCEPT !.status = "pending", !.wait = 0]
        OBVIOUS
      <4>2. e = [status |-> "pending", attempts |-> row.attempts, wait |-> 0]
        BY <3>1, <4>1 DEF Row
      <4> QED
        BY <4>1, <4>2
    <3>3. [status |-> "pending", attempts |-> row.attempts, wait |-> 0] \in Row
      BY <3>1 DEF Row, Statuses
    <3> QED
      BY <3>2, <3>3 DEF row
  <2>3. /\ rows'[m] = new /\ resets'[m] = resets[m] + 1
        /\ \A n \in Msgs : n # m => rows'[n] = rows[n] /\ resets'[n] = resets[n]
    BY <2>1, <2>2, <1>0 DEF TypeOK
  <2>4. new # NoRow /\ new.status = "pending" /\ new.attempts = rows[m].attempts
    BY <2>2
  <2> HIDE DEF new
  <2>5. Queued' = Queued
    BY <2>3, <2>4, <2>0 DEF Queued
  <2>6. TypeOK'
    <3>1. rows' \in [Msgs -> Row \cup {NoRow}] /\ resets' \in [Msgs -> Nat]
      BY <2>1, <2>2, <1>0 DEF TypeOK
    <3> QED
      BY <3>1, <2>1, <2>5, <1>0 DEF TypeOK
  <2>7. Current' = Current
    BY <2>1 DEF Current
  <2>8. BatchIsOpen'
    BY <2>0, <2>1, <2>3, <2>4, <2>5, <1>0 DEF BatchIsOpen, TypeOK, Queued
  <2>9. ASSUME NEW n \in Queued' PROVE DeliveriesFit(n)' /\ AttemptsFit(n)'
    <3>1. /\ n \in Queued /\ n \in Msgs
          /\ DeliveriesFit(n) /\ AttemptsFit(n) /\ (Held(n)' <=> Held(n))
      BY <2>1, <2>5, <2>7, <1>0 DEF RowsFit, Held, Queued
    <3>2. CASE n = m
      <4>1. /\ delivered[m] \in Nat /\ resets[m] \in Nat /\ MaxAttempts \in Nat
            /\ rows[m].attempts \in Nat
        BY <2>0, <1>0, OutboxAssumption DEF TypeOK, Row
      <4>2. /\ delivered[m] <= rows[m].attempts + resets[m] + 1
            /\ Held(m) => delivered[m] <= rows[m].attempts + resets[m]
            /\ rows[m].attempts <= MaxAttempts + resets[m]
        BY <3>1, <3>2 DEF DeliveriesFit, AttemptsFit
      <4>3. /\ delivered'[m] = delivered[m] /\ resets'[m] = resets[m] + 1
            /\ rows'[m].attempts = rows[m].attempts /\ (Held(m)' <=> Held(m))
        BY <2>1, <2>3, <2>4, <3>1, <3>2
      <4>4. DeliveriesFit(m)'
        BY <4>1, <4>2, <4>3 DEF DeliveriesFit
      <4>5. AttemptsFit(m)'
        BY <4>1, <4>2, <4>3 DEF AttemptsFit
      <4> QED
        BY <4>4, <4>5, <3>2
    <3>3. CASE n # m
      BY <3>1, <3>3, <2>1, <2>3 DEF DeliveriesFit, AttemptsFit
    <3> QED
      BY <3>2, <3>3
  <2>10. OptOutFits'
    BY <2>1, <2>7, <1>0 DEF OptOutFits
  <2> QED
    BY <2>6, <2>8, <2>9, <2>10 DEF IInv, RowsFit
<1>3. ASSUME NEW c \in Clients, OptOut(c)
      PROVE  IInv'
  <2>1. /\ optedOut' = optedOut \cup {c}
        /\ UNCHANGED <<rows, batch, pc, elapsed, connected, delivered, afterOut,
                       resets, losses>>
    BY <1>3 DEF OptOut
  <2>2. Queued' = Queued /\ Current' = Current
    BY <2>1 DEF Queued, Current
  <2>3. TypeOK' /\ BatchIsOpen'
    BY <2>1, <2>2, <1>0 DEF TypeOK, BatchIsOpen
  <2>4. RowsFit'
    BY <2>1, <2>2, <1>0 DEF RowsFit, DeliveriesFit, AttemptsFit, Held
  <2>5. OptOutFits'
    BY <2>1, <2>2, <1>0 DEF OptOutFits
  <2> QED
    BY <2>3, <2>4, <2>5 DEF IInv
<1>4. CASE SetInstance
  <2>1. /\ connected' = ~connected
        /\ UNCHANGED <<rows, batch, pc, elapsed, optedOut, delivered, afterOut,
                       resets, losses>>
    BY <1>4 DEF SetInstance
  <2>2. Queued' = Queued /\ Current' = Current
    BY <2>1 DEF Queued, Current
  <2>3. TypeOK' /\ BatchIsOpen'
    BY <2>1, <2>2, <1>0 DEF TypeOK, BatchIsOpen
  <2>4. RowsFit'
    BY <2>1, <2>2, <1>0 DEF RowsFit, DeliveriesFit, AttemptsFit, Held
  <2>5. OptOutFits'
    BY <2>1, <2>2, <1>0 DEF OptOutFits
  <2> QED
    BY <2>3, <2>4, <2>5 DEF IInv
<1>5. CASE LoseBatch
  <2>1. /\ batch' = {} /\ pc' = "idle" /\ elapsed' = 0 /\ losses' = losses + 1
        /\ UNCHANGED <<rows, connected, optedOut, delivered, afterOut, resets>>
    BY <1>5 DEF LoseBatch
  <2>2. Queued' = Queued
    BY <2>1 DEF Queued
  <2>3. TypeOK' /\ BatchIsOpen'
    BY <2>1, <2>2, <1>0 DEF TypeOK, BatchIsOpen
  <2>4. RowsFit'
    BY <2>1, <2>2, <1>0 DEF RowsFit, DeliveriesFit, AttemptsFit, Held
  <2>5. OptOutFits'
    BY <2>1, <1>0 DEF OptOutFits
  <2> QED
    BY <2>3, <2>4, <2>5 DEF IInv
<1>6. CASE Tick
  <2>1. /\ rows' = [m \in Msgs |-> IF m \in Queued THEN [rows[m] EXCEPT !.wait = Later(@ - 1)]
                                   ELSE NoRow]
        /\ elapsed' = IF pc # "idle" /\ elapsed < MaxWait THEN elapsed + 1 ELSE elapsed
        /\ UNCHANGED <<batch, pc, connected, optedOut, delivered, afterOut, resets, losses>>
    BY <1>6 DEF Tick
  <2>2. ASSUME NEW m \in Queued
        PROVE  /\ rows'[m] \in Row
               /\ rows'[m].status = rows[m].status /\ rows'[m].attempts = rows[m].attempts
    <3>1. rows[m] \in Row /\ m \in Msgs
      BY <1>0 DEF Queued, TypeOK
    <3>2. Later(rows[m].wait - 1) \in Nat
      BY <3>1 DEF Row, Later
    <3>3. rows'[m] = [rows[m] EXCEPT !.wait = Later(rows[m].wait - 1)]
      BY <2>1, <3>1
    <3> QED
      BY <3>1, <3>2, <3>3 DEF Row
  <2>3. \A m \in Msgs : m \notin Queued => rows'[m] = NoRow
    BY <2>1
  <2>4. Queued' = Queued
    BY <2>2, <2>3 DEF Queued
  <2>5. TypeOK'
    <3>1. rows' \in [Msgs -> Row \cup {NoRow}]
      BY <2>1, <2>2, <2>3
    <3>2. elapsed' \in Nat
      BY <2>1, <1>0 DEF TypeOK
    <3> QED
      BY <3>1, <3>2, <2>1, <2>4, <1>0 DEF TypeOK
  <2>6. BatchIsOpen'
    BY <2>1, <2>2, <2>4, <1>0 DEF BatchIsOpen, TypeOK
  <2>7. Current' = Current
    BY <2>1 DEF Current
  <2>8. RowsFit'
    BY <2>1, <2>2, <2>4, <2>7, <1>0 DEF RowsFit, DeliveriesFit, AttemptsFit, Held
  <2>9. OptOutFits'
    BY <2>1, <2>7, <1>0 DEF OptOutFits
  <2> QED
    BY <2>5, <2>6, <2>8, <2>9 DEF IInv
<1> QED
  BY <1>1, <1>2, <1>3, <1>4, <1>5, <1>6 DEF Environment

----------------------------------------------------------------------------
\* A claim finds at least the oldest due row, since the limit is not zero.
LEMMA SomethingIsTaken ==
  ASSUME NEW due, due \subseteq Msgs, due # {}
  PROVE  {m \in due : Cardinality({n \in due : n < m}) < Limit} # {}
<1>1. due \subseteq Nat /\ Limit \in Nat \ {0}
  BY OutboxAssumption
<1>2. PICK x \in due : \A y \in due : x <= y
  BY <1>1, OldestIsLeast
<1>3. {n \in due : n < x} = {}
  <2>1. ASSUME NEW n \in due PROVE ~ (n < x)
    <3>1. n \in Nat /\ x \in Nat /\ x <= n
      BY <1>1, <1>2
    <3> QED
      BY <3>1
  <2> QED
    BY <2>1, Zenon
<1>4. Cardinality({n \in due : n < x}) < Limit
  BY <1>1, <1>3, FS_EmptySet
<1> QED
  BY <1>4

LEMMA WorkerKeeps ==
  ASSUME IInv, Worker
  PROVE  IInv'
<1> USE NoRowAssumption
<1>0. /\ TypeOK /\ BatchIsOpen /\ RowsFit /\ OptOutFits
  BY DEF IInv
<1>1. CASE Claim
  <2> DEFINE due   == {m \in Queued : Due(rows[m])}
             taken == {m \in due : Cardinality({n \in due : n < m}) < Limit}
  <2>1. /\ pc = "idle" /\ due # {}
        /\ rows' = [m \in Msgs |-> IF m \in taken
                                   THEN [rows[m] EXCEPT !.status = "processing"] ELSE rows[m]]
        /\ batch' = taken /\ pc' = "next"
        /\ UNCHANGED <<elapsed, connected, optedOut, delivered, afterOut, resets, losses>>
    BY <1>1 DEF Claim
  <2>2. taken # {}
    BY <2>1, SomethingIsTaken DEF Queued
  <2>3. /\ taken \subseteq Queued /\ \A m \in taken : rows[m].status = "pending"
        /\ batch = {}
    BY <2>1, <1>0 DEF Due, TypeOK
  <2> HIDE DEF taken
  <2>4. ASSUME NEW m \in taken
        PROVE  /\ rows'[m] \in Row
               /\ rows'[m].status = "processing" /\ rows'[m].attempts = rows[m].attempts
    <3>1. m \in Msgs /\ rows[m] \in Row
      BY <2>3, <1>0 DEF Queued, TypeOK
    <3> DEFINE row == rows[m]
    <3>2. row \in Row /\ rows'[m] = [row EXCEPT !.status = "processing"]
      BY <3>1, <2>1
    <3> HIDE DEF row
    <3>3. /\ [row EXCEPT !.status = "processing"] \in Row
          /\ [row EXCEPT !.status = "processing"].status = "processing"
          /\ [row EXCEPT !.status = "processing"].attempts = row.attempts
      BY <3>2 DEF Row, Statuses
    <3> QED
      BY <3>2, <3>3 DEF row
  <2>5. \A m \in Msgs : m \notin taken => rows'[m] = rows[m]
    BY <2>1
  <2>6. Queued' = Queued
    BY <2>3, <2>4, <2>5 DEF Queued
  <2>7. TypeOK'
    <3>1. rows' \in [Msgs -> Row \cup {NoRow}]
      BY <2>1, <2>4, <2>5, <1>0 DEF TypeOK
    <3> QED
      BY <3>1, <2>1, <2>2, <2>3, <2>6, <1>0 DEF TypeOK
  <2>8. BatchIsOpen'
    BY <2>1, <2>4, <2>6, <1>0 DEF BatchIsOpen
  <2>9. ASSUME NEW m \in Queued' PROVE DeliveriesFit(m)' /\ AttemptsFit(m)'
    <3>1. m \in Queued /\ m \in Msgs /\ DeliveriesFit(m) /\ AttemptsFit(m)
      BY <2>6, <1>0 DEF RowsFit, Queued
    <3>2. CASE m \in taken
      BY <3>1, <3>2, <2>1, <2>3, <2>4 DEF DeliveriesFit, AttemptsFit
    <3>3. CASE m \notin taken
      <4>1. rows'[m] = rows[m] /\ m \notin batch' /\ ~ Held(m)'
        BY <3>1, <3>3, <2>1, <2>5 DEF Held
      <4> QED
        BY <4>1, <3>1, <2>1 DEF DeliveriesFit, AttemptsFit
    <3> QED
      BY <3>2, <3>3
  <2>10. OptOutFits'
    BY <2>1, <1>0 DEF OptOutFits
  <2> QED
    BY <2>7, <2>8, <2>9, <2>10 DEF IInv, RowsFit
<1>2. CASE NotConnected
  <2>1. pc # "idle" /\ elapsed \in Nat
    BY <1>2, <1>0 DEF NotConnected, TypeOK
  <2>2. Acceptable(Current, RetryOrFail(rows[Current], elapsed))
    BY <2>1, RetryOrFailIsAcceptable
  <2>3. /\ rows' = [rows EXCEPT ![Current] = RetryOrFail(rows[Current], elapsed)]
        /\ Advance /\ UNCHANGED <<delivered, afterOut>>
    BY <1>2 DEF NotConnected
  <2> QED
    BY <2>1, <2>2, <2>3, FinishKeeps
<1>3. CASE Blocked
  <2>1. pc # "idle"
    BY <1>3 DEF Blocked
  <2>2. Acceptable(Current, [rows[Current] EXCEPT !.status = "blocked_opt_out"])
    BY <2>1, FinalIsAcceptable DEF Final
  <2>3. /\ rows' = [rows EXCEPT ![Current] = [rows[Current] EXCEPT !.status = "blocked_opt_out"]]
        /\ Advance /\ UNCHANGED <<delivered, afterOut>>
    BY <1>3 DEF Blocked
  <2> QED
    BY <2>1, <2>2, <2>3, FinishKeeps
<1>4. CASE BeginJitter
  <2>1. /\ pc = "next" /\ pc' = "jitter" /\ ClientOf[Current] \notin optedOut
        /\ UNCHANGED <<rows, batch, elapsed, connected, optedOut, delivered, afterOut,
                       resets, losses>>
    BY <1>4 DEF BeginJitter, Refuses
  <2>2. Queued' = Queued /\ Current' = Current
    BY <2>1 DEF Queued, Current
  <2>3. TypeOK' /\ BatchIsOpen'
    BY <2>1, <2>2, <1>0 DEF TypeOK, BatchIsOpen
  <2>4. RowsFit'
    BY <2>1, <2>2, <1>0 DEF RowsFit, DeliveriesFit, AttemptsFit, Held
  <2>5. ClientOf[Current] \in Clients
    BY <2>1, <1>0, CurrentIsClaimed, OutboxAssumption
  <2>6. OptOutFits'
    BY <2>1, <2>2, <2>5, <1>0 DEF OptOutFits
  <2> QED
    BY <2>3, <2>4, <2>6 DEF IInv
<1>5. CASE SendAccepted
  <2> DEFINE c == ClientOf[Current]
  <2>1. /\ pc = "jitter" /\ pc' \in {"accepted", "errored"}
        /\ delivered' = [delivered EXCEPT ![Current] = @ + 1]
        /\ afterOut' = [afterOut EXCEPT ![c] = IF c \in optedOut THEN @ + 1 ELSE @]
        /\ UNCHANGED <<rows, batch, elapsed, connected, optedOut, resets, losses>>
    BY <1>5 DEF SendAccepted
  <2>2. Queued' = Queued /\ Current' = Current
    BY <2>1 DEF Queued, Current
  <2>3. Current \in batch /\ Current \in Queued /\ Current \in Msgs /\ c \in Clients
    BY <2>1, <1>0, CurrentIsClaimed, OutboxAssumption
  <2>4. afterOut[c] = 0
    BY <2>1, <1>0 DEF OptOutFits
  <2>5. afterOut'[c] \in {0, 1} /\ (c \notin optedOut => afterOut'[c] = 0)
        /\ \A d \in Clients : d # c => afterOut'[d] = afterOut[d]
    BY <2>1, <2>3, <2>4, <1>0 DEF TypeOK
  <2>6. /\ delivered'[Current] = delivered[Current] + 1
        /\ \A m \in Msgs : m # Current => delivered'[m] = delivered[m]
    BY <2>1, <2>3, <1>0 DEF TypeOK
  <2>7. TypeOK'
    <3>1. delivered' \in [Msgs -> Nat]
      BY <2>1, <2>3, <1>0 DEF TypeOK
    <3>2. afterOut' \in [Clients -> Nat]
      BY <2>1, <2>3, <2>4, <1>0 DEF TypeOK
    <3> QED
      BY <3>1, <3>2, <2>1, <2>2, <1>0 DEF TypeOK
  <2>8. BatchIsOpen'
    BY <2>1, <2>2, <2>3, <2>6, <1>0 DEF BatchIsOpen
  <2>9. ASSUME NEW m \in Queued' PROVE DeliveriesFit(m)' /\ AttemptsFit(m)'
    <3>1. m \in Queued /\ m \in Msgs /\ DeliveriesFit(m) /\ AttemptsFit(m)
      BY <2>2, <1>0 DEF RowsFit, Queued
    <3>2. AttemptsFit(m)'
      BY <3>1, <2>1 DEF AttemptsFit
    <3>3. CASE m = Current
      <4>1. Held(m) /\ ~ Held(m)'
        BY <3>3, <2>1, <2>2, <2>3 DEF Held
      <4>2. /\ delivered[m] \in Nat /\ resets[m] \in Nat /\ rows[m].attempts \in Nat
        BY <3>1, <1>0 DEF TypeOK, Queued, Row
      <4> QED
        BY <4>1, <4>2, <3>1, <3>2, <3>3, <2>1, <2>6 DEF DeliveriesFit
    <3>4. CASE m # Current
      <4>1. Held(m)' <=> Held(m)
        BY <3>4, <2>1, <2>2 DEF Held
      <4> QED
        BY <4>1, <3>1, <3>2, <3>4, <2>1, <2>6 DEF DeliveriesFit
    <3> QED
      BY <3>3, <3>4
  <2>10. OptOutFits'
    BY <2>1, <2>5, <1>0 DEF OptOutFits
  <2> QED
    BY <2>7, <2>8, <2>9, <2>10 DEF IInv, RowsFit
<1>6. CASE SendRefused
  <2>1. /\ pc = "jitter" /\ pc' = "errored"
        /\ UNCHANGED <<rows, batch, elapsed, connected, optedOut, delivered, afterOut,
                       resets, losses>>
    BY <1>6 DEF SendRefused, AfterError
  <2>2. Queued' = Queued /\ Current' = Current
    BY <2>1 DEF Queued, Current
  <2>3. TypeOK' /\ BatchIsOpen'
    BY <2>1, <2>2, <1>0 DEF TypeOK, BatchIsOpen
  <2>4. \A m \in Queued : Held(m)' => Held(m)
    BY <2>1, <2>2 DEF Held
  <2>5. RowsFit'
    BY <2>1, <2>2, <2>4, <1>0 DEF RowsFit, DeliveriesFit, AttemptsFit
  <2>6. OptOutFits'
    BY <2>1, <1>0 DEF OptOutFits
  <2> QED
    BY <2>3, <2>5, <2>6 DEF IInv
<1>7. CASE RecordSent
  <2>1. pc # "idle"
    BY <1>7 DEF RecordSent
  <2>2. Acceptable(Current, [rows[Current] EXCEPT !.status = "sent"])
    BY <2>1, FinalIsAcceptable DEF Final
  <2>3. /\ rows' = [rows EXCEPT ![Current] = [rows[Current] EXCEPT !.status = "sent"]]
        /\ Advance /\ UNCHANGED <<delivered, afterOut>>
    BY <1>7 DEF RecordSent
  <2> QED
    BY <2>1, <2>2, <2>3, FinishKeeps
<1>8. CASE RecordFailure
  <2>1. pc # "idle"
    BY <1>8 DEF RecordFailure
  <2>2. Acceptable(Current, RetryOrFail(rows[Current], 0))
    BY <2>1, RetryOrFailIsAcceptable
  <2>3. /\ rows' = [rows EXCEPT ![Current] = RetryOrFail(rows[Current], 0)]
        /\ Advance /\ UNCHANGED <<delivered, afterOut>>
    BY <1>8 DEF RecordFailure
  <2> QED
    BY <2>1, <2>2, <2>3, FinishKeeps
<1> QED
  BY <1>1, <1>2, <1>3, <1>4, <1>5, <1>6, <1>7, <1>8 DEF Worker
----------------------------------------------------------------------------
LEMMA InitIInv == Init => IInv
<1> SUFFICES ASSUME Init PROVE IInv
  OBVIOUS
<1>1. Queued = {}
  BY DEF Init, Queued
<1>2. TypeOK
  BY <1>1 DEF Init, TypeOK
<1>3. BatchIsOpen /\ RowsFit /\ OptOutFits
  BY <1>1 DEF Init, BatchIsOpen, RowsFit, OptOutFits
<1> QED
  BY <1>2, <1>3 DEF IInv

LEMMA StutterKeeps ==
  ASSUME IInv, UNCHANGED vars
  PROVE  IInv'
<1>1. UNCHANGED <<rows, batch, pc, elapsed, connected, optedOut, delivered, afterOut,
                  resets, losses>>
  BY DEF vars
<1>2. Queued' = Queued /\ Current' = Current
  BY <1>1 DEF Queued, Current
<1>3. TypeOK' /\ BatchIsOpen' /\ OptOutFits'
  BY <1>1, <1>2 DEF IInv, TypeOK, BatchIsOpen, OptOutFits
<1>4. RowsFit'
  BY <1>1, <1>2 DEF IInv, RowsFit, DeliveriesFit, AttemptsFit, Held
<1> QED
  BY <1>3, <1>4 DEF IInv

LEMMA AlwaysIInv == Spec => []IInv
<1>1. IInv /\ [Next]_vars => IInv'
  BY WorkerKeeps, EnvironmentKeeps, StutterKeeps DEF Next
<1> QED
  BY InitIInv, <1>1, PTL DEF Spec

\* The rows, the batch and the iteration keep their shape (claim_pending_batch,
\* retry_or_fail): in particular an iteration on its way always has a current
\* message.
THEOREM TypesAreKept == Spec => []TypeOK
<1>1. IInv => TypeOK
  BY DEF IInv
<1> QED
  BY AlwaysIInv, <1>1, PTL

\* A message is delivered at most once more than it has recorded failures and
\* manual retries, whatever the worker loses and whenever somebody puts its row
\* back to pending.
THEOREM DeliveriesAreAccounted == Spec => []DuplicatesAreAccounted
<1>1. ASSUME IInv PROVE DuplicatesAreAccounted
  <2>1. ASSUME NEW m \in Queued
        PROVE  delivered[m] <= 1 + rows[m].attempts + resets[m]
    <3>1. /\ delivered[m] \in Nat /\ resets[m] \in Nat /\ rows[m].attempts \in Nat
      BY <1>1 DEF IInv, TypeOK, Queued, Row
    <3>2. delivered[m] <= rows[m].attempts + resets[m] + 1
      BY <1>1 DEF IInv, RowsFit, DeliveriesFit
    <3> QED
      BY <3>1, <3>2
  <2> QED
    BY <2>1 DEF DuplicatesAreAccounted
<1> QED
  BY AlwaysIInv, <1>1, PTL

\* retry_or_fail stops at max_attempts, and a manual retry buys one attempt.
THEOREM AttemptsStayBounded == Spec => []AttemptsAreBounded
<1>1. IInv => AttemptsAreBounded
  BY DEF IInv, RowsFit, AttemptsFit, AttemptsAreBounded
<1> QED
  BY AlwaysIInv, <1>1, PTL

\* Between the look at the opt-out and the send there is room for one message
\* and no more.
THEOREM OptOutIsRespected == Spec => []OneMessageAfterOptOut
<1>1. IInv => OneMessageAfterOptOut
  BY DEF IInv, OptOutFits, OneMessageAfterOptOut
<1> QED
  BY AlwaysIInv, <1>1, PTL
=============================================================================
