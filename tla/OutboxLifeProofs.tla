-------------------------- MODULE OutboxLifeProofs --------------------------
(***************************************************************************)
(* The outbox implements MessageLife, step by step, and so calls no        *)
(* message sent that has not reached its client.                           *)
(***************************************************************************)
EXTENDS OutboxProofs

\* The provider took message m and the worker is about to say so.
TakenNow(m) == pc = "accepted" /\ m = Current

LEMMA LifeAt ==
  ASSUME NEW m \in Msgs
  PROVE  /\ m \notin Queued => Life[m] = "absent" /\ Credit[m] = 1
         /\ m \in Queued =>
              /\ rows[m].status \in Final => Life[m] = rows[m].status
              /\ rows[m].status \notin Final =>
                   Life[m] = IF TakenNow(m) THEN "taken" ELSE "open"
              /\ Credit[m] = 1 + rows[m].attempts + resets[m] - delivered[m]
BY DEF Life, Credit, TakenNow

\* A message that the step does not touch.
LEMMA Untouched ==
  ASSUME NEW m \in Msgs, m \in Queued' <=> m \in Queued,
         m \in Queued => /\ rows'[m].status = rows[m].status
                         /\ rows'[m].attempts = rows[m].attempts,
         TakenNow(m)' <=> TakenNow(m),
         resets'[m] = resets[m], delivered'[m] = delivered[m]
  PROVE  Life'[m] = Life[m] /\ Credit'[m] = Credit[m]
BY DEF Life, Credit, TakenNow

\* A step that touches one message changes the functions at it alone.
LEMMA OneChanges ==
  ASSUME NEW m \in Msgs, NEW s, NEW k,
         \A n \in Msgs \ {m} : Life'[n] = Life[n] /\ Credit'[n] = Credit[n],
         Life'[m] = s, Credit'[m] = k
  PROVE  Life' = [Life EXCEPT ![m] = s] /\ Credit' = [Credit EXCEPT ![m] = k]
<1>1. Life = [n \in Msgs |-> Life[n]] /\ Credit = [n \in Msgs |-> Credit[n]]
  BY DEF Life, Credit
<1>2. Life' = [n \in Msgs |-> Life'[n]] /\ Credit' = [n \in Msgs |-> Credit'[n]]
  BY DEF Life, Credit
<1> QED
  BY <1>1, <1>2

LEMMA NoneChanges ==
  ASSUME \A n \in Msgs : Life'[n] = Life[n] /\ Credit'[n] = Credit[n]
  PROVE  UNCHANGED <<Life, Credit>>
<1>1. Life = [n \in Msgs |-> Life[n]] /\ Credit = [n \in Msgs |-> Credit[n]]
  BY DEF Life, Credit
<1>2. Life' = [n \in Msgs |-> Life'[n]] /\ Credit' = [n \in Msgs |-> Credit'[n]]
  BY DEF Life, Credit
<1> QED
  BY <1>1, <1>2

\* Credits are never overdrawn, and one is left for what the worker holds.
LEMMA CreditType ==
  ASSUME IInv, NEW m \in Msgs
  PROVE  /\ Credit[m] \in Nat
         /\ m \in Queued /\ Held(m) => Credit[m] > 0
<1>1. CASE m \notin Queued
  BY <1>1, LifeAt
<1>2. CASE m \in Queued
  <2>1. /\ delivered[m] \in Nat /\ resets[m] \in Nat /\ rows[m].attempts \in Nat
    BY <1>2 DEF IInv, TypeOK, Queued, Row
  <2>2. DeliveriesFit(m)
    BY <1>2 DEF IInv, RowsFit
  <2> QED
    BY <1>2, <2>1, <2>2, LifeAt DEF DeliveriesFit
<1> QED
  BY <1>1, <1>2

\* What the worker is busy with is open, or taken if the provider has it.
LEMMA CurrentIsOpen ==
  ASSUME IInv, pc # "idle"
  PROVE  /\ Current \in Msgs /\ Current \in Queued /\ Current \in batch
         /\ rows[Current] \in Row /\ rows[Current].status \notin Final
         /\ Life[Current] = IF pc = "accepted" THEN "taken" ELSE "open"
<1>1. Current \in Msgs /\ Current \in Queued /\ Current \in batch
  BY CurrentIsClaimed DEF IInv
<1>2. rows[Current] \in Row
  BY <1>1 DEF IInv, TypeOK, Queued
<1>3. rows[Current].status \notin Final
  BY <1>1 DEF IInv, BatchIsOpen, Final
<1> QED
  BY <1>1, <1>2, <1>3, LifeAt DEF TakenNow
----------------------------------------------------------------------------
\* Every way to be done with the current message changes its life alone.
LEMMA FinishLife ==
  ASSUME IInv, pc # "idle", NEW row \in Row,
         rows' = [rows EXCEPT ![Current] = row], Advance, UNCHANGED delivered
  PROVE  /\ Life' = [Life EXCEPT ![Current] =
                       IF row.status \in Final THEN row.status ELSE "open"]
         /\ Credit' = [Credit EXCEPT ![Current] =
                         @ + row.attempts - rows[Current].attempts]
<1> USE NoRowAssumption
<1>1. /\ Current \in Msgs /\ Current \in Queued /\ rows[Current] \in Row
      /\ resets[Current] \in Nat /\ delivered[Current] \in Nat
  BY CurrentIsOpen DEF IInv, TypeOK
<1>2. /\ resets' = resets /\ pc' # "accepted"
      /\ rows'[Current] = row /\ \A n \in Msgs \ {Current} : rows'[n] = rows[n]
  BY <1>1 DEF Advance, IInv, TypeOK
<1>3. Queued' = Queued
  BY <1>1, <1>2 DEF Queued
<1>4. ASSUME NEW n \in Msgs \ {Current}
      PROVE  Life'[n] = Life[n] /\ Credit'[n] = Credit[n]
  BY <1>2, <1>3, Untouched DEF TakenNow
<1>5. Life'[Current] = IF row.status \in Final THEN row.status ELSE "open"
  BY <1>1, <1>2, <1>3 DEF Life
<1>6. Credit'[Current] = Credit[Current] + row.attempts - rows[Current].attempts
  <2>1. /\ Credit'[Current] = 1 + row.attempts + resets[Current] - delivered[Current]
        /\ Credit[Current] = 1 + rows[Current].attempts + resets[Current] - delivered[Current]
    BY <1>1, <1>2, <1>3 DEF Credit
  <2>2. row.attempts \in Nat /\ rows[Current].attempts \in Nat
    BY <1>1 DEF Row
  <2> QED
    BY <1>1, <2>1, <2>2
<1> QED
  BY <1>1, <1>4, <1>5, <1>6, OneChanges

\* A failed attempt, from either of the places that record one.
LEMMA FailLife ==
  ASSUME IInv, pc \notin {"idle", "accepted"}, NEW age \in Nat,
         rows' = [rows EXCEPT ![Current] = RetryOrFail(rows[Current], age)],
         Advance, UNCHANGED delivered
  PROVE  ML!Fail(Current)
<1> DEFINE row == RetryOrFail(rows[Current], age)
<1>1. /\ Current \in Msgs /\ rows[Current] \in Row /\ Life[Current] = "open"
  BY CurrentIsOpen
<1>2. row \in Row
  BY RetryOrFailIsAcceptable DEF Acceptable
<1>3. row.attempts = rows[Current].attempts + 1 /\ row.status \in {"failed", "pending"}
  <2> DEFINE old == rows[Current]
  <2>1. CASE GivesUp(old.attempts + 1)
    <3>1. row = [old EXCEPT !.attempts = old.attempts + 1, !.status = "failed"]
      BY <2>1 DEF RetryOrFail
    <3> HIDE DEF row, old
    <3> QED
      BY <1>1, <3>1 DEF Row, old
  <2>2. CASE ~GivesUp(old.attempts + 1)
    <3> DEFINE w == Later(Base * (old.attempts + 1) - age)
    <3>1. row = [old EXCEPT !.attempts = old.attempts + 1, !.status = "pending", !.wait = w]
      BY <2>2 DEF RetryOrFail
    <3> HIDE DEF row, old, w
    <3> QED
      BY <1>1, <3>1 DEF Row, old
  <2> QED
    BY <2>1, <2>2
<1> HIDE DEF row
<1>4. /\ Life' = [Life EXCEPT ![Current] = IF row.status \in Final THEN row.status ELSE "open"]
      /\ Credit' = [Credit EXCEPT ![Current] = @ + row.attempts - rows[Current].attempts]
  BY <1>2, FinishLife DEF row
<1>5. Credit' = [Credit EXCEPT ![Current] = @ + 1]
  <2>1. Credit[Current] + row.attempts - rows[Current].attempts = Credit[Current] + 1
    BY <1>1, <1>3, CreditType DEF Row
  <2> QED
    BY <1>4, <2>1
<1>6. Life' = [Life EXCEPT ![Current] = "failed"] \/ UNCHANGED Life
  <2>1. CASE row.status = "failed"
    BY <1>4, <2>1 DEF Final
  <2>2. CASE row.status = "pending"
    <3>1. Life' = [Life EXCEPT ![Current] = Life[Current]]
      BY <1>1, <1>4, <2>2 DEF Final
    <3> QED
      BY <3>1 DEF Life
  <2> QED
    BY <1>3, <2>1, <2>2
<1> QED
  BY <1>1, <1>5, <1>6 DEF ML!Fail, ML!Becomes

\* mark_sent and mark_blocked_opt_out leave the attempts alone.
LEMMA MarkLife ==
  ASSUME IInv, pc # "idle", NEW s \in Final,
         rows' = [rows EXCEPT ![Current] = [rows[Current] EXCEPT !.status = s]],
         Advance, UNCHANGED delivered
  PROVE  Life' = [Life EXCEPT ![Current] = s] /\ UNCHANGED Credit
<1> DEFINE old == rows[Current]
           row == [old EXCEPT !.status = s]
<1>1. Current \in Msgs /\ old \in Row
  BY CurrentIsOpen
<1> HIDE DEF old
<1>2. row \in Row /\ row.status = s /\ row.attempts = old.attempts /\ old.attempts \in Nat
  BY <1>1 DEF Row, Statuses
<1>3. rows' = [rows EXCEPT ![Current] = row]
  BY DEF old
<1> HIDE DEF row
<1>4. /\ Life' = [Life EXCEPT ![Current] = IF row.status \in Final THEN row.status ELSE "open"]
      /\ Credit' = [Credit EXCEPT ![Current] = @ + row.attempts - old.attempts]
  BY <1>2, <1>3, FinishLife DEF old
<1>5. Credit[Current] + row.attempts - old.attempts = Credit[Current]
  BY <1>1, <1>2, CreditType
<1>6. Credit' = [Credit EXCEPT ![Current] = Credit[Current]]
  BY <1>4, <1>5
<1> QED
  BY <1>2, <1>4, <1>6 DEF Credit

LEMMA ClaimLife ==
  ASSUME IInv, Claim
  PROVE  UNCHANGED <<Life, Credit>>
<1> USE NoRowAssumption
<1> DEFINE due   == {m \in Queued : Due(rows[m])}
           taken == {m \in due : Cardinality({n \in due : n < m}) < Limit}
<1>1. /\ pc = "idle" /\ pc' = "next" /\ UNCHANGED <<delivered, resets>>
      /\ rows' = [m \in Msgs |-> IF m \in taken
                                 THEN [rows[m] EXCEPT !.status = "processing"] ELSE rows[m]]
  BY DEF Claim
<1>2. \A m \in taken : m \in Queued /\ rows[m].status = "pending"
  BY DEF Due
<1> HIDE DEF taken
<1>3. ASSUME NEW m \in Msgs
      PROVE  Life'[m] = Life[m] /\ Credit'[m] = Credit[m]
  <2>1. CASE m \in taken
    <3> DEFINE old == rows[m]
    <3>1. m \in Queued /\ old \in Row /\ old.status = "pending"
      BY <1>2, <2>1 DEF Queued, IInv, TypeOK
    <3>2. rows'[m] = [old EXCEPT !.status = "processing"]
      BY <1>1, <2>1
    <3>3. resets'[m] = resets[m] /\ delivered'[m] = delivered[m]
      BY <1>1
    <3> HIDE DEF old
    <3>4. /\ rows'[m] \in Row /\ rows'[m].status = "processing"
          /\ rows'[m].attempts = old.attempts
      BY <3>1, <3>2 DEF Row, Statuses
    <3>5. m \in Queued'
      BY <3>4 DEF Queued
    <3>6. Life[m] = "open" /\ Life'[m] = "open"
      BY <1>1, <3>1, <3>4, <3>5 DEF Life, Final, old
    <3>7. Credit'[m] = Credit[m]
      BY <3>1, <3>3, <3>4, <3>5 DEF Credit, old
    <3> QED
      BY <3>6, <3>7
  <2>2. CASE m \notin taken
    <3>1. rows'[m] = rows[m] /\ (m \in Queued' <=> m \in Queued)
      BY <1>1, <2>2 DEF Queued
    <3> QED
      BY <1>1, <3>1, Untouched DEF TakenNow
  <2> QED
    BY <2>1, <2>2
<1> QED
  BY <1>3, NoneChanges
----------------------------------------------------------------------------
LEMMA WorkerLife ==
  ASSUME IInv, Worker
  PROVE  ML!Next \/ UNCHANGED <<Life, Credit, delivered>>
<1>1. CASE Claim
  BY <1>1, ClaimLife DEF Claim
<1>2. CASE NotConnected
  <2>1. elapsed \in Nat /\ pc = "next"
    BY <1>2 DEF NotConnected, IInv, TypeOK
  <2>2. ML!Fail(Current)
    BY <1>2, <2>1, FailLife DEF NotConnected
  <2> QED
    BY <2>1, <2>2, CurrentIsOpen DEF ML!Next
<1>3. CASE Blocked
  <2>1. Current \in Msgs /\ Life[Current] = "open"
    BY <1>3, CurrentIsOpen DEF Blocked
  <2>2. Life' = [Life EXCEPT ![Current] = "blocked_opt_out"] /\ UNCHANGED Credit
    BY <1>3, MarkLife DEF Blocked, Final
  <2>3. ML!Block(Current)
    BY <1>3, <2>1, <2>2 DEF Blocked, ML!Block, ML!Becomes
  <2> QED
    BY <2>1, <2>3 DEF ML!Next
<1>4. CASE BeginJitter \/ SendRefused
  <2>1. /\ pc # "accepted" /\ pc' # "accepted"
        /\ UNCHANGED <<rows, resets, delivered>>
    BY <1>4 DEF BeginJitter, SendRefused, AfterError
  <2>2. Queued' = Queued
    BY <2>1 DEF Queued
  <2> QED
    BY <2>1, <2>2, Untouched, NoneChanges DEF TakenNow
<1>5. CASE SendAccepted
  <2>1. /\ pc = "jitter" /\ pc' \in {"accepted", "errored"}
        /\ delivered' = [delivered EXCEPT ![Current] = @ + 1]
        /\ UNCHANGED <<rows, batch, resets>>
    BY <1>5 DEF SendAccepted
  <2>2. /\ Current \in Msgs /\ Current \in Queued /\ Current \in batch
        /\ rows[Current].status \notin Final /\ Life[Current] = "open"
    BY <2>1, CurrentIsOpen
  <2>3. Queued' = Queued /\ Current' = Current
    BY <2>1 DEF Queued, Current
  <2>4. Credit[Current] > 0 /\ Credit[Current] \in Nat
    BY <2>1, <2>2, CreditType DEF Held
  <2>5. ASSUME NEW n \in Msgs \ {Current}
        PROVE  Life'[n] = Life[n] /\ Credit'[n] = Credit[n]
    <3>1. delivered'[n] = delivered[n]
      BY <2>1, <2>2 DEF IInv, TypeOK
    <3> QED
      BY <2>1, <2>3, <3>1, Untouched DEF TakenNow
  <2>6. Credit'[Current] = Credit[Current] - 1
    <3>1. /\ delivered'[Current] = delivered[Current] + 1 /\ delivered[Current] \in Nat
          /\ resets[Current] \in Nat /\ rows[Current].attempts \in Nat
      BY <2>1, <2>2 DEF IInv, TypeOK, Queued, Row
    <3> QED
      BY <2>1, <2>2, <2>3, <3>1 DEF Credit
  <2>7. Life'[Current] = IF pc' = "accepted" THEN "taken" ELSE "open"
    BY <2>1, <2>2, <2>3 DEF Life
  <2>8. /\ Life' = [Life EXCEPT ![Current] = Life'[Current]]
        /\ Credit' = [Credit EXCEPT ![Current] = Credit[Current] - 1]
    BY <2>2, <2>5, <2>6, OneChanges
  <2>9. Life' = [Life EXCEPT ![Current] = "taken"] \/ UNCHANGED Life
    <3>1. CASE pc' = "accepted"
      BY <2>7, <2>8, <3>1
    <3>2. CASE pc' = "errored"
      <4>1. Life' = [Life EXCEPT ![Current] = Life[Current]]
        BY <2>2, <2>7, <2>8, <3>2
      <4> QED
        BY <4>1 DEF Life
    <3> QED
      BY <2>1, <3>1, <3>2
  <2>10. ML!Deliver(Current)
    BY <2>1, <2>2, <2>4, <2>8, <2>9 DEF ML!Deliver, ML!Becomes
  <2> QED
    BY <2>2, <2>10 DEF ML!Next
<1>6. CASE RecordSent
  <2>1. Current \in Msgs /\ Life[Current] = "taken"
    BY <1>6, CurrentIsOpen DEF RecordSent
  <2>2. Life' = [Life EXCEPT ![Current] = "sent"] /\ UNCHANGED Credit
    BY <1>6, MarkLife DEF RecordSent, Final
  <2>3. ML!Record(Current)
    BY <1>6, <2>1, <2>2 DEF RecordSent, ML!Record, ML!Becomes
  <2> QED
    BY <2>1, <2>3 DEF ML!Next
<1>7. CASE RecordFailure
  <2>1. pc = "errored"
    BY <1>7 DEF RecordFailure
  <2>2. ML!Fail(Current)
    BY <1>7, <2>1, FailLife DEF RecordFailure
  <2> QED
    BY <2>1, <2>2, CurrentIsOpen DEF ML!Next
<1> QED
  BY <1>1, <1>2, <1>3, <1>4, <1>5, <1>6, <1>7 DEF Worker

LEMMA EnqueueLife ==
  ASSUME IInv, NEW m \in Msgs, Enqueue(m)
  PROVE  ML!Submit(m)
<1> USE NoRowAssumption
<1> DEFINE new == [status |-> "pending", attempts |-> 0, wait |-> 0]
<1>1. /\ m \notin Queued /\ rows' = [rows EXCEPT ![m] = new]
      /\ UNCHANGED <<batch, pc, delivered, resets>>
  BY DEF Enqueue, Queued
<1>2. new \in Row /\ new.status = "pending" /\ new.attempts = 0
  BY DEF Row, Statuses
<1> HIDE DEF new
<1>3. rows'[m] = new /\ \A n \in Msgs \ {m} : rows'[n] = rows[n]
  BY <1>1 DEF IInv, TypeOK
<1>4. m \in Queued' /\ \A n \in Msgs \ {m} : n \in Queued' <=> n \in Queued
  BY <1>2, <1>3 DEF Queued
<1>5. Current' = Current
  BY <1>1 DEF Current
<1>6. ~TakenNow(m)'
  BY <1>1, <1>5, CurrentIsOpen DEF TakenNow
<1>7. \A n \in Msgs \ {m} : Life'[n] = Life[n] /\ Credit'[n] = Credit[n]
  BY <1>1, <1>3, <1>4, <1>5, Untouched DEF TakenNow
<1>8. Life[m] = "absent" /\ Credit[m] = 1
  BY <1>1, LifeAt
<1>9. Life'[m] = "open"
  BY <1>2, <1>3, <1>4, <1>6 DEF Life, Final, TakenNow
<1>10. Credit'[m] = 1
  <2>1. delivered[m] = 0 /\ resets[m] = 0
    BY <1>1 DEF IInv, BatchIsOpen
  <2> QED
    BY <1>1, <1>2, <1>3, <1>4, <2>1 DEF Credit
<1>11. /\ Life' = [Life EXCEPT ![m] = "open"]
       /\ Credit' = [Credit EXCEPT ![m] = Credit[m]]
  BY <1>7, <1>8, <1>9, <1>10, OneChanges
<1>12. UNCHANGED Credit
  BY <1>11 DEF Credit
<1> QED
  BY <1>1, <1>8, <1>11, <1>12 DEF ML!Submit, ML!Becomes

LEMMA ManualRetryLife ==
  ASSUME IInv, NEW m \in Msgs, ManualRetry(m)
  PROVE  ML!Reopen(m)
<1> USE NoRowAssumption
<1> DEFINE old == rows[m]
           new == [old EXCEPT !.status = "pending", !.wait = 0]
<1>1. /\ m \in Queued /\ rows' = [rows EXCEPT ![m] = new]
      /\ resets' = [resets EXCEPT ![m] = @ + 1]
      /\ UNCHANGED <<batch, pc, delivered>>
  BY DEF ManualRetry
<1>2. old \in Row
  BY <1>1 DEF IInv, TypeOK, Queued
<1> HIDE DEF old
<1>3. /\ new \in Row /\ new.status = "pending" /\ new.attempts = old.attempts
      /\ old.attempts \in Nat
  BY <1>2 DEF Row, Statuses
<1> HIDE DEF new
<1>4. /\ rows'[m] = new /\ resets'[m] = resets[m] + 1
      /\ \A n \in Msgs \ {m} : rows'[n] = rows[n] /\ resets'[n] = resets[n]
  BY <1>1 DEF IInv, TypeOK
<1>5. m \in Queued' /\ \A n \in Msgs \ {m} : n \in Queued' <=> n \in Queued
  BY <1>3, <1>4 DEF Queued
<1>6. Current' = Current /\ (TakenNow(m)' <=> TakenNow(m))
  BY <1>1 DEF Current, TakenNow
<1>7. \A n \in Msgs \ {m} : Life'[n] = Life[n] /\ Credit'[n] = Credit[n]
  BY <1>1, <1>4, <1>5, <1>6, Untouched DEF TakenNow
<1>8. Life[m] # "absent" /\ (Life[m] = "taken" <=> TakenNow(m))
  <2>1. TakenNow(m) => rows[m].status \notin Final
    BY CurrentIsOpen DEF TakenNow
  <2> QED
    BY <1>1, <2>1, LifeAt DEF Final
<1>9. Life'[m] = IF TakenNow(m) THEN "taken" ELSE "open"
  BY <1>3, <1>4, <1>5, <1>6 DEF Life, Final, TakenNow
<1>10. Credit'[m] = Credit[m] + 1
  <2>1. delivered[m] \in Nat /\ resets[m] \in Nat
    BY DEF IInv, TypeOK
  <2>2. /\ Credit[m] = 1 + old.attempts + resets[m] - delivered[m]
        /\ Credit'[m] = 1 + old.attempts + (resets[m] + 1) - delivered[m]
    BY <1>1, <1>3, <1>4, <1>5 DEF Credit, old
  <2> QED
    BY <1>3, <2>1, <2>2
<1>11. /\ Life' = [Life EXCEPT ![m] = Life'[m]]
       /\ Credit' = [Credit EXCEPT ![m] = Credit[m] + 1]
  BY <1>7, <1>10, OneChanges
<1>12. IF Life[m] = "taken" THEN UNCHANGED Life ELSE Life' = [Life EXCEPT ![m] = "open"]
  <2>1. CASE TakenNow(m)
    <3>1. Life' = [Life EXCEPT ![m] = Life[m]]
      BY <1>8, <1>9, <1>11, <2>1
    <3> QED
      BY <1>8, <2>1, <3>1 DEF Life
  <2>2. CASE ~TakenNow(m)
    BY <1>8, <1>9, <1>11, <2>2
  <2> QED
    BY <2>1, <2>2
<1> QED
  BY <1>1, <1>8, <1>11, <1>12 DEF ML!Reopen, ML!Becomes

\* A worker that is lost forgets what the provider told it.
LEMMA LoseBatchLife ==
  ASSUME IInv, LoseBatch
  PROVE  ML!Next \/ UNCHANGED <<Life, Credit, delivered>>
<1>1. /\ pc # "idle" /\ pc' = "idle" /\ UNCHANGED <<rows, delivered, resets>>
  BY DEF LoseBatch
<1>2. Queued' = Queued
  BY <1>1 DEF Queued
<1>3. CASE pc # "accepted"
  BY <1>1, <1>2, <1>3, Untouched, NoneChanges DEF TakenNow
<1>4. CASE pc = "accepted"
  <2>1. /\ Current \in Msgs /\ Current \in Queued /\ rows[Current].status \notin Final
        /\ Life[Current] = "taken"
    BY <1>1, <1>4, CurrentIsOpen
  <2>2. \A n \in Msgs \ {Current} : Life'[n] = Life[n] /\ Credit'[n] = Credit[n]
    BY <1>1, <1>2, Untouched DEF TakenNow
  <2>3. Life'[Current] = "open"
    BY <1>1, <1>2, <2>1 DEF Life
  <2>4. Credit'[Current] = Credit[Current]
    BY <1>1, <1>2, <2>1 DEF Credit
  <2>5. /\ Life' = [Life EXCEPT ![Current] = "open"]
        /\ Credit' = [Credit EXCEPT ![Current] = Credit[Current]]
    BY <2>1, <2>2, <2>3, <2>4, OneChanges
  <2>6. UNCHANGED Credit
    BY <2>5 DEF Credit
  <2>7. ML!Record(Current)
    BY <1>1, <2>1, <2>5, <2>6 DEF ML!Record, ML!Becomes
  <2> QED
    BY <2>1, <2>7 DEF ML!Next
<1> QED
  BY <1>3, <1>4

LEMMA TickLife ==
  ASSUME IInv, Tick
  PROVE  UNCHANGED <<Life, Credit, delivered>>
<1> USE NoRowAssumption
<1>1. /\ rows' = [m \in Msgs |-> IF m \in Queued THEN [rows[m] EXCEPT !.wait = Later(@ - 1)]
                                 ELSE NoRow]
      /\ UNCHANGED <<batch, pc, delivered, resets>>
  BY DEF Tick
<1>2. ASSUME NEW m \in Msgs, m \in Queued
      PROVE  /\ m \in Queued'
             /\ rows'[m].status = rows[m].status /\ rows'[m].attempts = rows[m].attempts
  <2> DEFINE old == rows[m]
             w   == Later(old.wait - 1)
  <2>1. old \in Row
    BY <1>2 DEF Queued, IInv, TypeOK
  <2>2. w \in Nat
    BY <2>1 DEF Row, Later
  <2>3. rows'[m] = [old EXCEPT !.wait = w]
    BY <1>1, <1>2
  <2> HIDE DEF old, w
  <2>4. /\ rows'[m] \in Row /\ rows'[m].status = old.status
        /\ rows'[m].attempts = old.attempts
    BY <2>1, <2>2, <2>3 DEF Row
  <2> QED
    BY <2>4 DEF Queued, old
<1>3. \A m \in Msgs : m \notin Queued => m \notin Queued'
  BY <1>1 DEF Queued
<1>4. Current' = Current
  BY <1>1 DEF Current
<1> QED
  BY <1>1, <1>2, <1>3, <1>4, Untouched, NoneChanges DEF TakenNow

LEMMA EnvironmentLife ==
  ASSUME IInv, Environment
  PROVE  ML!Next \/ UNCHANGED <<Life, Credit, delivered>>
<1>1. CASE \E m \in Msgs : Enqueue(m) \/ ManualRetry(m)
  BY <1>1, EnqueueLife, ManualRetryLife DEF ML!Next
<1>2. CASE SetInstance \/ \E c \in Clients : OptOut(c)
  BY <1>2 DEF SetInstance, OptOut, Life, Credit, Queued, Current
<1> QED
  BY <1>1, <1>2, LoseBatchLife, TickLife DEF Environment
----------------------------------------------------------------------------
LEMMA InitLife == Init => ML!Init
BY DEF Init, ML!Init, Life, Credit, Queued

LEMMA NextLife == IInv /\ [Next]_vars => [ML!Next]_<<Life, Credit, delivered>>
<1>1. UNCHANGED vars => UNCHANGED <<Life, Credit, delivered>>
  BY DEF vars, Life, Credit, Queued, Current
<1> QED
  BY <1>1, WorkerLife, EnvironmentLife DEF Next

\* Whatever is claimed, lost and retried, each step of worker and endpoints is
\* one of MessageLife or changes nothing there (process_pending_messages,
\* queue_message, reset_for_retry).
THEOREM OutboxImplementsMessageLife == Spec => ImplementsMessageLife
BY AlwaysIInv, InitLife, NextLife, PTL DEF Spec, ImplementsMessageLife, ML!Spec
----------------------------------------------------------------------------
\* Why a message called sent has been delivered: it was taken before.
TakenIsDelivered ==
  /\ ML!TypeOK
  /\ \A m \in Msgs : Life[m] \in {"taken", "sent"} => delivered[m] > 0

LEMMA NextDelivered ==
  TakenIsDelivered /\ [ML!Next]_<<Life, Credit, delivered>> => TakenIsDelivered'
<1> SUFFICES ASSUME TakenIsDelivered, ML!Next PROVE TakenIsDelivered'
  BY DEF TakenIsDelivered, ML!TypeOK
<1> USE DEF TakenIsDelivered, ML!TypeOK, ML!Becomes, ML!Alive, ML!Settled
<1>1. ASSUME NEW m \in Msgs, ML!Submit(m) PROVE TakenIsDelivered'
  BY <1>1 DEF ML!Submit
<1>2. ASSUME NEW m \in Msgs, ML!Deliver(m) PROVE TakenIsDelivered'
  BY <1>2 DEF ML!Deliver
<1>3. ASSUME NEW m \in Msgs, ML!Record(m) PROVE TakenIsDelivered'
  BY <1>3 DEF ML!Record
<1>4. ASSUME NEW m \in Msgs, ML!Fail(m) PROVE TakenIsDelivered'
  BY <1>4 DEF ML!Fail
<1>5. ASSUME NEW m \in Msgs, ML!Block(m) PROVE TakenIsDelivered'
  BY <1>5 DEF ML!Block
<1>6. ASSUME NEW m \in Msgs, ML!Reopen(m) PROVE TakenIsDelivered'
  BY <1>6 DEF ML!Reopen
<1> QED
  BY <1>1, <1>2, <1>3, <1>4, <1>5, <1>6 DEF ML!Next

\* MessageLife keeps its promise.
THEOREM MessageLifeDelivers == ML!Spec => []ML!SentIsDelivered
<1>1. ML!Init => TakenIsDelivered
  BY DEF ML!Init, TakenIsDelivered, ML!TypeOK
<1>2. TakenIsDelivered => ML!SentIsDelivered
  BY DEF TakenIsDelivered, ML!SentIsDelivered
<1> QED
  BY <1>1, <1>2, NextDelivered, PTL DEF ML!Spec

\* So a row marked sent is one whose message reached the client, for any batch
\* size and limit of attempts (mark_sent, retry_or_fail, reset_for_retry).
THEOREM SentMeansDelivered == Spec => []SentWasDelivered
<1>1. ML!SentIsDelivered => SentWasDelivered
  BY LifeAt DEF ML!SentIsDelivered, SentWasDelivered, Is, Final
<1> QED
  BY <1>1, OutboxImplementsMessageLife, MessageLifeDelivers, PTL DEF ImplementsMessageLife
=============================================================================
