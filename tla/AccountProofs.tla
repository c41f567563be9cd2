--------------------------- MODULE AccountProofs ---------------------------
(***************************************************************************)
(* What the account run checks, for any number of users, plans, payments   *)
(* and requests.  The inductive invariant has two halves: what a request   *)
(* that was counted may rely on (Sound), and that the date in the table    *)
(* and every date read to be extended cover the payments that are not      *)
(* accounted for otherwise (Accounts).                                     *)
(***************************************************************************)
EXTENDS Account, FiniteSetTheorems, TLAPS

\* Only a payment extends; an update knows a user; a count that is not stale
\* still holds for the plan in force.
Sound(q, known, tier, active) ==
  /\ q.step \in {"paid", "extending"} => q.kind = "pay"
  /\ q.kind = "update" => q.user \in known
  /\ q.counts /\ ~q.stale =>
       /\ q.step # "found" => q.plan = tier
       /\ q.step = "counted" => active < MaxUsers[tier]

RequestsSound ==
  \A r \in InFlight : Sound(req[r], Known, plan, Cardinality(ActiveStaff))

Extending == {r \in InFlight : req[r].step = "extending"}

\* Were the subscription to end at date, the payments it misses.
Covers(date) ==
  LET missing == TrialEnd + TotalPaid - date
      open    == Cardinality(Unextended) + crashed
  IN  missing >= open /\ missing <= open + raced

Accounts == Covers(until) /\ \A r \in Extending : Covers(req[r].until)

\* TotalPaid counts every row.
PaidBounded == \A c \in Codes : paid[c] <= MaxPayments

IInv == TypeOK /\ RequestsSound /\ PaidBounded /\ Accounts
----------------------------------------------------------------------------
LEMMA CodesAreFinite == IsFiniteSet(Codes)
BY AccountAssumption, FS_AddElement DEF Codes

LEMMA CountsAreNumbers ==
  ASSUME TypeOK
  PROVE  /\ Cardinality(Unextended) \in Nat /\ IsFiniteSet(Unextended)
         /\ Cardinality(ActiveStaff) \in Nat /\ IsFiniteSet(ActiveStaff)
<1>1. Unextended \subseteq Requests /\ ActiveStaff \subseteq Users
  BY DEF Unextended, InFlight, ActiveStaff, Known
<1>2. IsFiniteSet(Unextended) /\ IsFiniteSet(ActiveStaff)
  BY <1>1, AccountAssumption, FS_Subset
<1> QED
  BY <1>2, FS_CardinalityType

\* One more row of a code is one more payment in total.
LEMMA OneMorePayment ==
  ASSUME TypeOK, PaidBounded, TotalPaid < MaxPayments,
         NEW c \in Codes, paid' = [paid EXCEPT ![c] = @ + 1]
  PROVE  TotalPaid' = TotalPaid + 1 /\ TotalPaid \in Nat /\ PaidBounded'
<1> DEFINE N     == 1 .. MaxPayments
           pairs == {p \in Codes \X N : p[2] <= paid[p[1]]}
           new   == <<c, paid[c] + 1>>
           after == {p \in Codes \X N : p[2] <= paid'[p[1]]}
<1>1. /\ MaxPayments \in Nat /\ paid \in [Codes -> Nat]
      /\ TotalPaid = Cardinality(pairs) /\ TotalPaid' = Cardinality(after)
  BY AccountAssumption DEF TypeOK, TotalPaid
<1>2. IsFiniteSet(N) /\ Cardinality(N) = MaxPayments
  <2>1. IsFiniteSet(N) /\ Cardinality(N) = IF 1 > MaxPayments THEN 0 ELSE MaxPayments - 1 + 1
    BY <1>1, FS_Interval
  <2> QED
    BY <1>1, <2>1
<1>3. IsFiniteSet(Codes \X N)
  BY <1>2, CodesAreFinite, FS_Product
<1>4. IsFiniteSet(pairs) /\ Cardinality(pairs) \in Nat
  BY <1>3, FS_Subset, FS_CardinalityType
<1>5. paid[c] < MaxPayments
  <2> SUFFICES ASSUME paid[c] >= MaxPayments PROVE FALSE
    BY <1>1
  <2> DEFINE full == {c} \X N
  <2>1. full \subseteq pairs
    BY <1>1
  <2>2. Cardinality({c}) = 1 /\ IsFiniteSet({c})
    BY FS_Singleton
  <2>3. Cardinality(full) = Cardinality({c}) * Cardinality(N)
    BY <1>2, <2>2, FS_Product
  <2>4. Cardinality(full) = MaxPayments
    BY <1>1, <1>2, <2>2, <2>3
  <2> HIDE DEF full, pairs
  <2>5. Cardinality(full) <= Cardinality(pairs)
    BY <1>4, <2>1, FS_Subset
  <2> QED
    BY <1>1, <1>4, <2>4, <2>5
<1>6. new \in Codes \X N /\ new \notin pairs
  BY <1>1, <1>5
<1>7. after = pairs \cup {new}
  <2>1. ASSUME NEW d \in Codes, NEW i \in N
        PROVE  <<d, i>> \in after <=> <<d, i>> \in pairs \cup {new}
    <3>1. CASE d = c
      <4>1. paid'[d] = paid[c] + 1
        BY <3>1, <1>1
      <4> QED
        BY <3>1, <4>1, <1>1
    <3>2. CASE d # c
      <4>1. paid'[d] = paid[d]
        BY <3>2, <1>1
      <4> QED
        BY <3>2, <4>1
    <3> QED
      BY <3>1, <3>2
  <2>2. after \subseteq Codes \X N /\ pairs \cup {new} \subseteq Codes \X N
    BY <1>6
  <2> HIDE DEF after, pairs, new, N
  <2> QED
    BY <2>1, <2>2
<1> HIDE DEF after, pairs, new
<1>8. Cardinality(after) = Cardinality(pairs) + 1
  BY <1>4, <1>6, <1>7, FS_AddElement
<1>9. PaidBounded'
  BY <1>1, <1>5 DEF PaidBounded
<1> QED
  BY <1>1, <1>4, <1>8, <1>9

----------------------------------------------------------------------------
\* One request takes a step to n; users and plan stay.
LEMMA StepKeepsSound ==
  ASSUME IInv, NEW r \in Requests, NEW n \in Request \cup {Done},
         req' = [req EXCEPT ![r] = n], UNCHANGED <<users, plan>>,
         n \in Request => Sound(n, Known, plan, Cardinality(ActiveStaff))
  PROVE  /\ req' \in [Requests -> Request \cup {NotYet, Done}]
         /\ r \in InFlight' <=> n \in Request
         /\ req'[r] = n
         /\ \A s \in Requests : s # r => req'[s] = req[s] /\ (s \in InFlight' <=> s \in InFlight)
         /\ RequestsSound'
<1> USE ValuesAssumption
<1>1. req \in [Requests -> Request \cup {NotYet, Done}] /\ RequestsSound
  BY DEF IInv, TypeOK
<1>2. req' \in [Requests -> Request \cup {NotYet, Done}]
  BY <1>1
<1>3. req'[r] = n /\ \A s \in Requests : s # r => req'[s] = req[s]
  BY <1>1
<1>4. r \in InFlight' <=> n \in Request
  BY <1>3 DEF InFlight
<1>5. \A s \in Requests : s # r => (s \in InFlight' <=> s \in InFlight)
  BY <1>3 DEF InFlight
<1>6. Known' = Known /\ ActiveStaff' = ActiveStaff /\ plan' = plan
  BY DEF Known, ActiveStaff
<1>7. RequestsSound'
  <2>1. ASSUME NEW s \in InFlight'
        PROVE  Sound(req'[s], Known, plan, Cardinality(ActiveStaff))
    <3>1. CASE s = r
      BY <3>1, <1>3, <1>4
    <3>2. CASE s # r
      BY <3>2, <1>1, <1>3, <1>5 DEF RequestsSound, InFlight
    <3> QED
      BY <3>1, <3>2
  <2> QED
    BY <2>1, <1>6 DEF RequestsSound
<1> QED
  BY <1>2, <1>3, <1>4, <1>5, <1>7

\* A step that neither pays nor extends; a date may have been read.
LEMMA AccountsKept ==
  ASSUME Accounts, UNCHANGED <<until, paid, raced, crashed>>, Unextended' = Unextended,
         \A s \in Extending' : \/ s \in Extending /\ req'[s].until = req[s].until
                               \/ req'[s].until = until
  PROVE  Accounts'
<1>1. \A date : Covers(date)' <=> Covers(date)
  <2>1. TotalPaid' = TotalPaid
    BY DEF TotalPaid
  <2>2. Cardinality(Unextended') = Cardinality(Unextended)
    OBVIOUS
  <2> QED
    BY <2>1, <2>2 DEF Covers
<1>2. Covers(until) /\ \A r \in Extending : Covers(req[r].until)
  BY DEF Accounts
<1>3. Covers(until)'
  BY <1>1, <1>2 DEF Covers
<1>4. ASSUME NEW s \in Extending' PROVE Covers(req[s].until)'
  <2> DEFINE date == req'[s].until
  <2>1. Covers(date)
    BY <1>2
  <2>2. Covers(req[s].until)' <=> Covers(date)
    <3>1. TotalPaid' = TotalPaid
      BY DEF TotalPaid
    <3>2. Cardinality(Unextended') = Cardinality(Unextended)
      OBVIOUS
    <3> QED
      BY <3>1, <3>2 DEF Covers
  <2> QED
    BY <2>1, <2>2
<1> QED
  BY <1>3, <1>4 DEF Accounts

\* A request steps to n between two states in which it owes no extension, or
\* reads the date it will extend.
LEMMA StepKeepsAccounts ==
  ASSUME IInv, NEW r \in Requests, NEW n,
         req'[r] = n, r \in InFlight' <=> n \in Request, r \in InFlight <=> req[r] \in Request,
         \A s \in Requests : s # r => req'[s] = req[s] /\ (s \in InFlight' <=> s \in InFlight),
         UNCHANGED <<until, paid, raced, crashed>>,
         r \in Unextended <=> (n \in Request /\ n.step \in {"paid", "extending"}),
         n \in Request /\ n.step = "extending" => n.until = until
  PROVE  Accounts'
<1>1. Unextended' = Unextended
  <2>1. \A s \in Requests : s \in Unextended' <=> s \in Unextended
    BY DEF Unextended
  <2> QED
    BY <2>1 DEF Unextended, InFlight
<1>2. ASSUME NEW s \in Extending'
      PROVE  \/ s \in Extending /\ req'[s].until = req[s].until
             \/ req'[s].until = until
  <2>1. CASE s = r
    BY <2>1, <1>2 DEF Extending
  <2>2. CASE s # r
    BY <2>2, <1>2 DEF Extending, InFlight
  <2> QED
    BY <2>1, <2>2
<1> QED
  BY <1>1, <1>2, AccountsKept DEF IInv

LEMMA ArriveKeeps ==
  ASSUME IInv, NEW r \in Requests, NEW n \in Request, Arrive(r, n),
         n.step \in {"found", "loaded"},
         Sound(n, Known, plan, Cardinality(ActiveStaff))
  PROVE  IInv'
<1> USE ValuesAssumption
<1>1. /\ req[r] = NotYet /\ req' = [req EXCEPT ![r] = n]
      /\ UNCHANGED <<plan, until, paid, users, today, raced, crashed, waived>>
  BY DEF Arrive
<1>2. /\ req' \in [Requests -> Request \cup {NotYet, Done}]
      /\ r \in InFlight' <=> n \in Request
      /\ req'[r] = n
      /\ \A s \in Requests : s # r => req'[s] = req[s] /\ (s \in InFlight' <=> s \in InFlight)
      /\ RequestsSound'
  BY <1>1, StepKeepsSound
<1>3. r \notin InFlight /\ r \notin Unextended
  BY <1>1 DEF InFlight, Unextended
<1>4. Accounts'
  <2>1. r \in InFlight <=> req[r] \in Request
    BY <1>1, <1>3
  <2>2. r \in Unextended <=> (n \in Request /\ n.step \in {"paid", "extending"})
    BY <1>3
  <2>3. ~ (n \in Request /\ n.step = "extending")
    OBVIOUS
  <2> QED
    BY <1>1, <1>2, <2>1, <2>2, <2>3, StepKeepsAccounts
<1>5. TypeOK' /\ PaidBounded'
  BY <1>1, <1>2 DEF IInv, TypeOK, PaidBounded
<1> QED
  BY <1>2, <1>4, <1>5 DEF IInv
----------------------------------------------------------------------------
LEMMA BlankIsRequest ==
  ASSUME TypeOK
  PROVE  /\ Blank \in Request
         /\ Blank.step = "loaded" /\ Blank.stale = FALSE /\ Blank.plan = plan
         /\ Blank.kind = "pay" /\ Blank.counts = FALSE
BY AccountAssumption DEF Blank, Request, TypeOK, User, Roles, Changes, Codes

LEMMA BeginPayKeeps ==
  ASSUME IInv, NEW r \in Requests, NEW code \in Codes, BeginPay(r, code)
  PROVE  IInv'
<1> DEFINE b == Blank
           n == [b EXCEPT !.code = code]
<1>1. /\ b \in Request /\ b.step = "loaded" /\ b.stale = FALSE /\ b.plan = plan
      /\ b.kind = "pay" /\ b.counts = FALSE
  BY BlankIsRequest DEF IInv
<1> HIDE DEF b
<1>2. /\ n \in Request /\ n.step = "loaded" /\ n.kind = "pay" /\ n.counts = FALSE
  BY <1>1 DEF Request
<1>3. Sound(n, Known, plan, Cardinality(ActiveStaff))
  BY <1>2 DEF Sound
<1>4. Arrive(r, n)
  BY DEF BeginPay, b
<1> HIDE DEF n
<1> QED
  BY <1>2, <1>3, <1>4, ArriveKeeps

LEMMA BeginInsertKeeps ==
  ASSUME IInv, NEW r \in Requests, NEW u \in Users, NEW role \in Roles,
         NEW counts \in BOOLEAN, BeginInsert(r, u, role, counts)
  PROVE  IInv'
<1> DEFINE b   == Blank
           row == [role |-> role, active |-> TRUE]
           n   == [b EXCEPT !.kind = "insert", !.counts = counts, !.user = u, !.was = row]
<1>1. b \in Request /\ b.step = "loaded" /\ b.stale = FALSE /\ b.plan = plan
  BY BlankIsRequest DEF IInv
<1>2. row \in User
  BY DEF User
<1> HIDE DEF b, row
<1>3. /\ n \in Request /\ n.step = "loaded" /\ n.kind = "insert" /\ n.plan = plan
  BY <1>1, <1>2 DEF Request
<1>4. Arrive(r, n)
  BY DEF BeginInsert, b, row
<1> HIDE DEF n
<1>5. Sound(n, Known, plan, Cardinality(ActiveStaff))
  BY <1>3 DEF Sound
<1> QED
  BY <1>3, <1>4, <1>5, ArriveKeeps

LEMMA BeginActivateKeeps ==
  ASSUME IInv, NEW r \in Requests, NEW u \in Users, BeginActivate(r, u)
  PROVE  IInv'
<1> DEFINE b   == Blank
           row == users[u]
           n   == [b EXCEPT !.kind = "update", !.counts = TRUE, !.step = "found",
                            !.user = u, !.was = row, !.to.active = TRUE]
<1>1. b \in Request
  BY BlankIsRequest DEF IInv
<1>2. u \in Known /\ row \in User
  BY DEF BeginActivate, Known, IInv, TypeOK
<1>3. Arrive(r, n)
  BY DEF BeginActivate
<1> HIDE DEF b, row
<1> DEFINE to == [b.to EXCEPT !.active = TRUE]
           m  == [b EXCEPT !.kind = "update", !.counts = TRUE, !.step = "found",
                           !.user = u, !.was = row, !.to = to]
<1>4. n = m
  BY Zenon
<1>5. to \in Changes
  <2>1. b.to \in Changes
    BY <1>1 DEF Request
  <2> QED
    BY <2>1 DEF Changes
<1> HIDE DEF n, to
<1>6. m \in Request /\ m.step = "found" /\ m.kind = "update" /\ m.user = u
  BY <1>1, <1>2, <1>5 DEF Request
<1> HIDE DEF m
<1>7. Sound(m, Known, plan, Cardinality(ActiveStaff))
  BY <1>2, <1>6 DEF Sound
<1> QED
  BY <1>3, <1>4, <1>6, <1>7, ArriveKeeps

LEMMA BeginUpdateKeeps ==
  ASSUME IInv, NEW r \in Requests, NEW u \in Users, NEW to \in Changes, BeginUpdate(r, u, to)
  PROVE  IInv'
<1> DEFINE b   == Blank
           row == users[u]
           n   == [b EXCEPT !.kind = "update", !.user = u, !.was = row, !.to = to]
<1>1. b \in Request /\ b.step = "loaded" /\ b.counts = FALSE
  BY BlankIsRequest DEF IInv
<1>2. u \in Known /\ row \in User
  BY DEF BeginUpdate, Known, IInv, TypeOK
<1>3. Arrive(r, n)
  BY DEF BeginUpdate
<1> HIDE DEF b, row
<1>4. /\ n \in Request /\ n.step = "loaded" /\ n.kind = "update" /\ n.user = u
      /\ n.counts = FALSE
  BY <1>1, <1>2 DEF Request
<1> HIDE DEF n
<1>5. Sound(n, Known, plan, Cardinality(ActiveStaff))
  BY <1>2, <1>4 DEF Sound
<1> QED
  BY <1>3, <1>4, <1>5, ArriveKeeps

LEMMA BeginPlanKeeps ==
  ASSUME IInv, NEW r \in Requests, NEW p \in Plans, BeginPlan(r, p)
  PROVE  IInv'
<1> DEFINE b == Blank
           n == [b EXCEPT !.kind = "plan", !.goal = p]
<1>1. b \in Request /\ b.step = "loaded" /\ b.counts = FALSE
  BY BlankIsRequest DEF IInv
<1>2. Arrive(r, n)
  BY DEF BeginPlan
<1> HIDE DEF b
<1>3. /\ n \in Request /\ n.step = "loaded" /\ n.kind = "plan" /\ n.counts = FALSE
  BY <1>1 DEF Request
<1> HIDE DEF n
<1>4. Sound(n, Known, plan, Cardinality(ActiveStaff))
  BY <1>3 DEF Sound
<1> QED
  BY <1>2, <1>3, <1>4, ArriveKeeps

----------------------------------------------------------------------------
\* A step of a staff or plan request that is not its commit.
LEMMA ReadKeeps ==
  ASSUME IInv, NEW r \in InFlight, NEW n \in Request \cup {Done},
         req' = [req EXCEPT ![r] = n],
         UNCHANGED <<plan, until, paid, users, today, raced, crashed, waived>>,
         n \in Request => Sound(n, Known, plan, Cardinality(ActiveStaff)),
         r \notin Unextended, n \in Request => n.step \in {"loaded", "counted"}
  PROVE  IInv'
<1> USE ValuesAssumption
<1>0. r \in Requests /\ req[r] \in Request
  BY DEF InFlight, IInv, TypeOK
<1>1. /\ req' \in [Requests -> Request \cup {NotYet, Done}]
      /\ r \in InFlight' <=> n \in Request
      /\ req'[r] = n
      /\ \A s \in Requests : s # r => req'[s] = req[s] /\ (s \in InFlight' <=> s \in InFlight)
      /\ RequestsSound'
  BY <1>0, StepKeepsSound
<1>2. Accounts'
  <2>1. r \in InFlight <=> req[r] \in Request
    BY <1>0
  <2>2. r \in Unextended <=> (n \in Request /\ n.step \in {"paid", "extending"})
    OBVIOUS
  <2>3. ~ (n \in Request /\ n.step = "extending")
    OBVIOUS
  <2> QED
    BY <1>0, <1>1, <2>1, <2>2, <2>3, StepKeepsAccounts
<1>3. TypeOK' /\ PaidBounded'
  BY <1>1 DEF IInv, TypeOK, PaidBounded
<1> QED
  BY <1>1, <1>2, <1>3 DEF IInv

LEMMA ReadPlanKeeps ==
  ASSUME IInv, NEW r \in Requests, ReadPlan(r)
  PROVE  IInv'
<1> DEFINE q == req[r]
           n == [q EXCEPT !.step = "loaded", !.plan = plan]
<1>1. /\ r \in InFlight /\ q \in Request /\ q.kind = "update" /\ q.step = "found"
      /\ Sound(q, Known, plan, Cardinality(ActiveStaff)) /\ plan \in Plans
  BY DEF ReadPlan, At, IInv, TypeOK, InFlight, RequestsSound
<1>2. /\ req' = [req EXCEPT ![r] = n]
      /\ UNCHANGED <<plan, until, paid, users, today, raced, crashed, waived>>
  BY DEF ReadPlan
<1>3. r \notin Unextended
  BY <1>1 DEF Unextended
<1> HIDE DEF q
<1>4. /\ n \in Request /\ n.step = "loaded" /\ n.plan = plan /\ n.kind = q.kind
      /\ n.user = q.user
  BY <1>1 DEF Request
<1> HIDE DEF n
<1>5. Sound(n, Known, plan, Cardinality(ActiveStaff))
  BY <1>1, <1>4 DEF Sound
<1> QED
  BY <1>1, <1>2, <1>3, <1>4, <1>5, ReadKeeps

LEMMA CountPassesKeeps ==
  ASSUME IInv, NEW r \in Requests, CountPasses(r)
  PROVE  IInv'
<1> DEFINE q == req[r]
           n == [q EXCEPT !.step = "counted"]
<1>1. /\ r \in InFlight /\ q \in Request /\ q.counts /\ q.step = "loaded"
      /\ Sound(q, Known, plan, Cardinality(ActiveStaff)) /\ plan \in Plans
      /\ ~ (Cardinality(ActiveStaff) >= MaxUsers[q.plan])
  BY DEF CountPasses, Counting, LimitReached, IInv, TypeOK, InFlight, RequestsSound
<1>2. /\ req' = [req EXCEPT ![r] = n]
      /\ UNCHANGED <<plan, until, paid, users, today, raced, crashed, waived>>
  BY DEF CountPasses
<1>3. r \notin Unextended
  BY <1>1 DEF Unextended
<1>4. MaxUsers[plan] \in Nat /\ Cardinality(ActiveStaff) \in Nat
  BY <1>1, AccountAssumption, CountsAreNumbers DEF IInv
<1> HIDE DEF q
<1>5. /\ n \in Request /\ n.step = "counted" /\ n.plan = q.plan /\ n.kind = q.kind
      /\ n.user = q.user /\ n.counts = q.counts /\ n.stale = q.stale
  BY <1>1 DEF Request
<1> HIDE DEF n
<1>6. Sound(n, Known, plan, Cardinality(ActiveStaff))
  <2>1. q.counts /\ ~q.stale => q.plan = plan
    BY <1>1 DEF Sound
  <2>2. q.counts /\ ~q.stale => Cardinality(ActiveStaff) < MaxUsers[plan]
    BY <1>1, <1>4, <2>1
  <2>3. q.kind = "update" => q.user \in Known
    BY <1>1 DEF Sound
  <2> QED
    BY <1>5, <2>1, <2>2, <2>3 DEF Sound
<1> QED
  BY <1>1, <1>2, <1>3, <1>5, <1>6, ReadKeeps

LEMMA CountRefusesKeeps ==
  ASSUME IInv, NEW r \in Requests, CountRefuses(r)
  PROVE  IInv'
<1>1. r \in InFlight /\ r \notin Unextended
  BY DEF CountRefuses, Counting, Unextended
<1>2. /\ req' = [req EXCEPT ![r] = Done]
      /\ UNCHANGED <<plan, until, paid, users, today, raced, crashed, waived>>
  BY DEF CountRefuses
<1> QED
  BY <1>1, <1>2, ValuesAssumption, ReadKeeps
----------------------------------------------------------------------------
LEMMA InsertPaymentKeeps ==
  ASSUME IInv, NEW r \in Requests, InsertPayment(r)
  PROVE  IInv'
<1> USE ValuesAssumption
<1> DEFINE q == req[r]
           c == q.code
           n == [q EXCEPT !.step = "paid"]
<1>1. /\ r \in InFlight /\ q \in Request /\ q.kind = "pay" /\ q.step = "loaded"
      /\ Sound(q, Known, plan, Cardinality(ActiveStaff))
      /\ TotalPaid < MaxPayments
      /\ UNCHANGED <<plan, until, users, today, raced, crashed, waived>>
      /\ TypeOK /\ PaidBounded /\ Accounts
  BY DEF InsertPayment, At, IInv, TypeOK, InFlight, RequestsSound
<1>2. CASE req' = [req EXCEPT ![r] = Done] /\ UNCHANGED paid
  <2>1. r \notin Unextended
    BY <1>1 DEF Unextended
  <2> QED
    BY <1>1, <1>2, <2>1, ReadKeeps
<1>3. CASE paid' = [paid EXCEPT ![c] = @ + 1] /\ req' = [req EXCEPT ![r] = n]
  <2>0. c \in Codes
    BY <1>1 DEF Request
  <2>1. TotalPaid' = TotalPaid + 1 /\ TotalPaid \in Nat /\ PaidBounded'
    BY <1>1, <1>3, <2>0, OneMorePayment
  <2>2. /\ n \in Request /\ n.step = "paid" /\ n.kind = "pay" /\ n.counts = q.counts
        /\ n.stale = q.stale /\ n.plan = q.plan
    <3> HIDE DEF q
    <3> QED
      BY <1>1 DEF Request
  <2>3. Sound(n, Known, plan, Cardinality(ActiveStaff))
    <3> HIDE DEF n, q
    <3> QED
      BY <1>1, <2>2 DEF Sound
  <2> HIDE DEF n
  <2>4. /\ req' \in [Requests -> Request \cup {NotYet, Done}]
        /\ r \in InFlight' <=> n \in Request
        /\ req'[r] = n
        /\ \A s \in Requests : s # r => req'[s] = req[s] /\ (s \in InFlight' <=> s \in InFlight)
        /\ RequestsSound'
    BY <1>1, <1>3, <2>2, <2>3, StepKeepsSound
  <2>5. r \notin Unextended /\ Unextended' = Unextended \cup {r}
    <3>1. r \notin Unextended /\ r \in Unextended'
      BY <1>1, <2>2, <2>4 DEF Unextended
    <3>2. \A s \in Requests : s # r => (s \in Unextended' <=> s \in Unextended)
      BY <2>4 DEF Unextended
    <3>3. Unextended \subseteq Requests /\ Unextended' \subseteq Requests
      BY DEF Unextended, InFlight
    <3> QED
      BY <3>1, <3>2, <3>3
  <2>6. Cardinality(Unextended') = Cardinality(Unextended) + 1
    BY <1>1, <2>5, CountsAreNumbers, FS_AddElement
  <2>7. ASSUME NEW d \in Nat, Covers(d)
        PROVE  LET missing == TrialEnd + TotalPaid' - d
                   open    == Cardinality(Unextended') + crashed'
               IN  missing >= open /\ missing <= open + raced'
    <3>1. /\ Cardinality(Unextended) \in Nat /\ crashed \in Nat /\ raced \in Nat
          /\ TrialEnd \in Nat
      BY <1>1, CountsAreNumbers, AccountAssumption DEF TypeOK
    <3> QED
      BY <1>1, <2>1, <2>6, <2>7, <3>1 DEF Covers
  <2>8. Accounts'
    <3>1. until \in Nat /\ Covers(until)
      BY <1>1 DEF TypeOK, Accounts
    <3>2. Covers(until)'
      BY <1>1, <2>7, <3>1 DEF Covers
    <3>3. ASSUME NEW s \in Extending' PROVE Covers(req[s].until)'
      <4>1. s # r /\ s \in Extending /\ req'[s] = req[s]
        BY <2>2, <2>4 DEF Extending, InFlight
      <4>2. Covers(req[s].until) /\ req[s].until \in Nat
        BY <1>1, <4>1 DEF Accounts, Extending, InFlight, TypeOK, Request
      <4> QED
        BY <2>7, <4>1, <4>2 DEF Covers
    <3> QED
      BY <3>2, <3>3 DEF Accounts
  <2>9. TypeOK'
    <3>1. paid' \in [Codes -> Nat]
      BY <1>1, <1>3, <2>0 DEF TypeOK
    <3> QED
      BY <1>1, <2>4, <3>1 DEF TypeOK
  <2> QED
    BY <2>1, <2>4, <2>8, <2>9 DEF IInv
<1> QED
  BY <1>2, <1>3 DEF InsertPayment

LEMMA ReadUntilKeeps ==
  ASSUME IInv, NEW r \in Requests, ReadUntil(r)
  PROVE  IInv'
<1> USE ValuesAssumption
<1> DEFINE q == req[r]
           n == [q EXCEPT !.step = "extending", !.until = until]
<1>1. /\ r \in InFlight /\ q \in Request /\ q.kind = "pay" /\ q.step = "paid"
      /\ Sound(q, Known, plan, Cardinality(ActiveStaff)) /\ until \in Nat
      /\ req' = [req EXCEPT ![r] = n]
      /\ UNCHANGED <<plan, until, paid, users, today, raced, crashed, waived>>
  BY DEF ReadUntil, Reloaded, At, IInv, TypeOK, InFlight, RequestsSound
<1>2. /\ n \in Request /\ n.step = "extending" /\ n.kind = "pay" /\ n.counts = q.counts
      /\ n.stale = q.stale /\ n.plan = q.plan /\ n.until = until
  <2> HIDE DEF q
  <2> QED
    BY <1>1 DEF Request
<1>3. Sound(n, Known, plan, Cardinality(ActiveStaff))
  <2> HIDE DEF n, q
  <2> QED
    BY <1>1, <1>2 DEF Sound
<1> HIDE DEF n
<1>4. /\ req' \in [Requests -> Request \cup {NotYet, Done}]
      /\ r \in InFlight' <=> n \in Request
      /\ req'[r] = n
      /\ \A s \in Requests : s # r => req'[s] = req[s] /\ (s \in InFlight' <=> s \in InFlight)
      /\ RequestsSound'
  BY <1>1, <1>2, <1>3, StepKeepsSound
<1>5. Accounts'
  <2>1. r \in InFlight <=> req[r] \in Request
    BY <1>1
  <2>2. r \in Unextended <=> (n \in Request /\ n.step \in {"paid", "extending"})
    BY <1>1, <1>2 DEF Unextended
  <2> QED
    BY <1>1, <1>2, <1>4, <2>1, <2>2, StepKeepsAccounts
<1>6. TypeOK' /\ PaidBounded'
  BY <1>1, <1>4 DEF IInv, TypeOK, PaidBounded
<1> QED
  BY <1>4, <1>5, <1>6 DEF IInv

\* A request that owes an extension ends: Extend and Lose.
LEMMA SettledLeaves ==
  ASSUME IInv, NEW r \in Unextended, req' = [req EXCEPT ![r] = Done],
         UNCHANGED <<plan, paid, users, today, waived>>,
         until' \in Nat, raced' \in Nat, crashed' \in Nat
  PROVE  /\ TypeOK' /\ PaidBounded' /\ RequestsSound'
         /\ Cardinality(Unextended') = Cardinality(Unextended) - 1
         /\ TotalPaid' = TotalPaid /\ TotalPaid \in Nat
         /\ \A s \in Extending' : s # r /\ s \in Extending /\ req'[s] = req[s]
<1> USE ValuesAssumption
<1>0. r \in Requests /\ r \in InFlight
  BY DEF Unextended, InFlight
<1>1. /\ req' \in [Requests -> Request \cup {NotYet, Done}]
      /\ r \notin InFlight'
      /\ \A s \in Requests : s # r => req'[s] = req[s] /\ (s \in InFlight' <=> s \in InFlight)
      /\ RequestsSound'
  BY <1>0, StepKeepsSound
<1>2. TypeOK' /\ PaidBounded'
  BY <1>1 DEF IInv, TypeOK, PaidBounded
<1>3. Unextended' = Unextended \ {r}
  <2>1. \A s \in Requests : s # r => (s \in Unextended' <=> s \in Unextended)
    BY <1>1 DEF Unextended
  <2>2. Unextended \subseteq Requests /\ Unextended' \subseteq Requests /\ r \notin Unextended'
    BY <1>1 DEF Unextended, InFlight
  <2> QED
    BY <2>1, <2>2
<1>4. Cardinality(Unextended') = Cardinality(Unextended) - 1
  BY <1>3, CountsAreNumbers, FS_RemoveElement DEF IInv
<1>5. TotalPaid' = TotalPaid
  BY DEF TotalPaid
<1>6. TotalPaid \in Nat
  <2> DEFINE N     == 1 .. MaxPayments
             pairs == {p \in Codes \X N : p[2] <= paid[p[1]]}
  <2>1. IsFiniteSet(N)
    BY AccountAssumption, FS_Interval
  <2>2. IsFiniteSet(Codes \X N)
    BY <2>1, CodesAreFinite, FS_Product
  <2>3. pairs \in SUBSET (Codes \X N)
    OBVIOUS
  <2>4. Cardinality(pairs) \in Nat
    BY <2>2, <2>3, FS_Subset, FS_CardinalityType
  <2> QED
    BY <2>4 DEF TotalPaid
<1>7. \A s \in Extending' : s # r /\ s \in Extending /\ req'[s] = req[s]
  BY <1>1 DEF Extending, InFlight
<1> QED
  BY <1>1, <1>2, <1>4, <1>5, <1>6, <1>7

LEMMA OneExtensionLess ==
  ASSUME NEW e \in Nat, NEW t \in Nat, NEW d \in Nat, NEW u \in Nat, NEW c \in Nat,
         NEW a \in Nat, NEW b \in Nat, b >= a,
         e + t - d >= u + c, e + t - d <= u + c + a
  PROVE  e + t - (d + 1) >= u - 1 + c /\ e + t - (d + 1) <= u - 1 + c + b
OBVIOUS

LEMMA ExtendKeeps ==
  ASSUME IInv, NEW r \in Requests, Extend(r)
  PROVE  IInv'
<1> DEFINE date == req[r].until
           U    == Cardinality(Unextended)
<1>1. /\ r \in Unextended /\ r \in Extending /\ req[r] \in Request
      /\ req' = [req EXCEPT ![r] = Done]
      /\ until' = date + 1
      /\ raced' = IF \E s \in Requests \ {r} : At(s, "pay", "extending")
                  THEN raced + 1 ELSE raced
      /\ UNCHANGED <<plan, paid, users, today, crashed, waived>>
  BY DEF Extend, At, Unextended, Extending, InFlight, IInv, TypeOK
<1>2. /\ until \in Nat /\ raced \in Nat /\ crashed \in Nat /\ TrialEnd \in Nat
      /\ date \in Nat /\ U \in Nat
  BY <1>1, CountsAreNumbers, AccountAssumption DEF IInv, TypeOK, Request
<1>3. until' \in Nat /\ raced' \in Nat /\ crashed' \in Nat /\ raced' >= raced
  BY <1>1, <1>2
<1>4. /\ TypeOK' /\ PaidBounded' /\ RequestsSound'
      /\ Cardinality(Unextended') = U - 1
      /\ TotalPaid' = TotalPaid /\ TotalPaid \in Nat
      /\ \A s \in Extending' : s # r /\ s \in Extending /\ req'[s] = req[s]
  BY <1>1, <1>3, SettledLeaves
<1>5. Covers(until)'
  <2>1. Covers(date)
    BY <1>1 DEF IInv, Accounts
  <2>2. /\ TrialEnd + TotalPaid - date >= U + crashed
        /\ TrialEnd + TotalPaid - date <= U + crashed + raced
    BY <2>1 DEF Covers
  <2>4. TotalPaid \in Nat /\ raced' >= raced /\ raced' \in Nat
    BY <1>3, <1>4
  <2> DEFINE total == TotalPaid
  <2> HIDE DEF date, U, total
  <2>3. /\ TrialEnd + TotalPaid - (date + 1) >= U - 1 + crashed
        /\ TrialEnd + TotalPaid - (date + 1) <= U - 1 + crashed + raced'
    BY <1>2, <2>2, <2>4, OneExtensionLess
  <2> QED
    BY <1>1, <1>4, <2>3 DEF Covers
<1>6. ASSUME NEW s \in Extending' PROVE Covers(req[s].until)'
  <2> DEFINE d == req[s].until
  <2>1. s # r /\ s \in Extending /\ req'[s] = req[s] /\ s \in Requests
    BY <1>4 DEF Extending, InFlight
  <2>2. d \in Nat /\ Covers(d)
    BY <2>1 DEF IInv, Accounts, TypeOK, Extending, InFlight, Request
  <2>3. At(s, "pay", "extending")
    BY <2>1 DEF At, Extending, IInv, RequestsSound, Sound
  <2>4. raced' = raced + 1
    BY <1>1, <2>1, <2>3
  <2>5. /\ TrialEnd + TotalPaid - d >= U + crashed
        /\ TrialEnd + TotalPaid - d <= U + crashed + raced
    BY <2>2 DEF Covers
  <2> HIDE DEF U, d
  <2>6. /\ TrialEnd + TotalPaid - d >= U - 1 + crashed
        /\ TrialEnd + TotalPaid - d <= U - 1 + crashed + raced'
    BY <1>2, <1>4, <2>2, <2>4, <2>5
  <2>7. req'[s].until = d
    BY <2>1 DEF d
  <2> QED
    BY <1>1, <1>4, <2>6, <2>7 DEF Covers
<1>7. Accounts'
  BY <1>5, <1>6 DEF Accounts
<1> QED
  BY <1>4, <1>7 DEF IInv

LEMMA LoseKeeps ==
  ASSUME IInv, NEW r \in Requests, Lose(r)
  PROVE  IInv'
<1> DEFINE U == Cardinality(Unextended)
<1>1. /\ r \in InFlight /\ req' = [req EXCEPT ![r] = Done]
      /\ crashed' = IF req[r].step \in {"paid", "extending"} THEN crashed + 1 ELSE crashed
      /\ UNCHANGED <<plan, until, paid, users, today, raced, waived>>
  BY DEF Lose
<1>2. CASE r \notin Unextended
  <2>1. crashed' = crashed
    BY <1>1, <1>2 DEF Unextended
  <2> QED
    BY <1>1, <1>2, <2>1, ValuesAssumption, ReadKeeps
<1>3. CASE r \in Unextended
  <2>1. crashed' = crashed + 1
    BY <1>1, <1>3 DEF Unextended
  <2>2. /\ until \in Nat /\ raced \in Nat /\ crashed \in Nat /\ TrialEnd \in Nat /\ U \in Nat
    BY CountsAreNumbers, AccountAssumption DEF IInv, TypeOK
  <2>3. until' \in Nat /\ raced' \in Nat /\ crashed' \in Nat
    BY <1>1, <2>1, <2>2
  <2>4. /\ TypeOK' /\ PaidBounded' /\ RequestsSound'
        /\ Cardinality(Unextended') = U - 1
        /\ TotalPaid' = TotalPaid /\ TotalPaid \in Nat
        /\ \A s \in Extending' : s # r /\ s \in Extending /\ req'[s] = req[s]
    BY <1>1, <1>3, <2>3, SettledLeaves
  <2>5. U - 1 + crashed' = U + crashed
    BY <2>1, <2>2
  <2> HIDE DEF U
  <2>6. Covers(until)'
    <3>1. Covers(until)
      BY DEF IInv, Accounts
    <3> QED
      BY <1>1, <2>4, <2>5, <3>1 DEF Covers, U
  <2>7. ASSUME NEW s \in Extending' PROVE Covers(req[s].until)'
    <3>1. s \in Extending /\ req'[s] = req[s]
      BY <2>4
    <3>2. Covers(req[s].until)
      BY <3>1 DEF IInv, Accounts
    <3> QED
      BY <1>1, <2>4, <2>5, <3>1, <3>2 DEF Covers, U
  <2>8. Accounts'
    BY <2>6, <2>7 DEF Accounts
  <2> QED
    BY <2>4, <2>8 DEF IInv
<1> QED
  BY <1>2, <1>3
----------------------------------------------------------------------------
\* What a commit leaves of the row is a user.
LEMMA AfterIsUser ==
  ASSUME IInv, NEW r \in InFlight, req[r].kind \in {"insert", "update"}
  PROVE  /\ After(r) \in User /\ req[r].user \in Users
         /\ req[r].user \in Known => users[req[r].user] \in User
<1> DEFINE q == req[r]
<1>1. q \in Request /\ q.was \in User /\ q.to \in Changes /\ q.user \in Users
  BY DEF IInv, TypeOK, InFlight, Request
<1>2. q.user \in Known => users[q.user] \in User
  BY <1>1 DEF IInv, TypeOK, Known
<1>3. CASE q.kind = "update"
  <2>1. q.user \in Known
    BY <1>3 DEF IInv, RequestsSound, Sound
  <2>2. After(r) = Merged(users[q.user], q.was, q.to)
    BY <1>3 DEF After
  <2> DEFINE row == users[q.user]
             was == q.was
             to  == q.to
  <2>3. row \in User
    BY <1>2, <2>1
  <2> HIDE DEF row, was, to
  <2>4. Merged(row, was, to) \in User
    <3>1. (IF to.role \in {Keep, was.role} THEN row.role ELSE to.role) \in Roles
      BY <1>1, <2>3 DEF User, Changes, to
    <3>2. (IF to.active \in {Keep, was.active} THEN row.active ELSE to.active) \in BOOLEAN
      BY <1>1, <2>3 DEF User, Changes, to
    <3> QED
      BY <3>1, <3>2 DEF Merged, User
  <2> QED
    BY <1>1, <1>2, <2>2, <2>4 DEF row, was, to
<1>4. CASE q.kind # "update"
  BY <1>1, <1>2, <1>4 DEF After
<1> QED
  BY <1>1, <1>2, <1>3, <1>4

\* What a commit does to the active staff.
LEMMA CommitUserShape ==
  ASSUME IInv, NEW r \in Requests, CommitUser(r)
  PROVE  LET q    == req[r]
             more == After(r) = NewStaff /\ q.user \notin ActiveStaff
         IN
         /\ users' \in [Users -> User \cup {NoRow}] /\ Known \subseteq Known'
         /\ more => /\ ActiveStaff' = ActiveStaff \cup {q.user}
                    /\ Cardinality(ActiveStaff') = Cardinality(ActiveStaff) + 1
         /\ ~more => /\ ActiveStaff' \subseteq ActiveStaff
                     /\ Cardinality(ActiveStaff') <= Cardinality(ActiveStaff)
<1> DEFINE q    == req[r]
           u    == q.user
           more == After(r) = NewStaff /\ u \notin ActiveStaff
<1>1. /\ r \in InFlight /\ q.kind \in {"insert", "update"}
      /\ users' = [users EXCEPT ![u] = After(r)]
      /\ users \in [Users -> User \cup {NoRow}]
  BY DEF CommitUser, IInv, TypeOK
<1>2. After(r) \in User /\ u \in Users
  BY <1>1, AfterIsUser
<1>3. users'[u] = After(r) /\ \A v \in Users : v # u => users'[v] = users[v]
  BY <1>1, <1>2
<1>4. users' \in [Users -> User \cup {NoRow}]
  BY <1>1, <1>2
<1>5. Known \subseteq Known'
  BY <1>2, <1>3, ValuesAssumption DEF Known
<1>6. Cardinality(ActiveStaff) \in Nat /\ IsFiniteSet(ActiveStaff)
  BY CountsAreNumbers DEF IInv
<1>12. NewStaff # NoRow
  <2>1. NewStaff \in User
    BY DEF NewStaff, User, Roles
  <2> QED
    BY <2>1, ValuesAssumption
<1>7. \A v \in Users : v \in ActiveStaff <=> users[v] = NewStaff
  BY <1>12 DEF ActiveStaff, Known, NewStaff
<1>8. \A v \in Users : v \in ActiveStaff' <=> users'[v] = NewStaff
  BY <1>12 DEF ActiveStaff, Known, NewStaff
<1>9. ActiveStaff \subseteq Users /\ ActiveStaff' \subseteq Users
  BY DEF ActiveStaff, Known
<1> HIDE DEF u
<1>10. CASE more
  <2>1. ActiveStaff' = ActiveStaff \cup {u}
    BY <1>2, <1>3, <1>7, <1>8, <1>9, <1>10
  <2>2. Cardinality(ActiveStaff') = Cardinality(ActiveStaff) + 1
    BY <1>6, <1>10, <2>1, FS_AddElement
  <2> QED
    BY <1>4, <1>5, <1>10, <2>1, <2>2 DEF u
<1>11. CASE ~more
  <2>1. ActiveStaff' \subseteq ActiveStaff
    BY <1>2, <1>3, <1>7, <1>8, <1>9, <1>11
  <2>2. Cardinality(ActiveStaff') <= Cardinality(ActiveStaff)
    BY <1>6, <2>1, FS_Subset
  <2> QED
    BY <1>4, <1>5, <1>11, <2>1, <2>2 DEF u
<1> QED
  BY <1>10, <1>11

\* A commit ends its request and makes the counts of some others stale.
LEMMA CommitShape ==
  ASSUME IInv, NEW r \in InFlight, r \notin Unextended, NEW S,
         req' = [s \in Requests |->
                   IF s = r THEN Done
                   ELSE IF s \in InFlight /\ s \in S
                   THEN [req[s] EXCEPT !.stale = TRUE] ELSE req[s]],
         UNCHANGED <<until, paid, raced, crashed>>
  PROVE  /\ req' \in [Requests -> Request \cup {NotYet, Done}]
         /\ InFlight' = InFlight \ {r}
         /\ \A s \in InFlight' :
              /\ req'[s].step = req[s].step /\ req'[s].kind = req[s].kind
              /\ req'[s].user = req[s].user /\ req'[s].counts = req[s].counts
              /\ req'[s].plan = req[s].plan /\ req'[s].until = req[s].until
              /\ req'[s].stale = (s \in S \/ req[s].stale)
         /\ Accounts'
<1> USE ValuesAssumption
<1>1. /\ r \in Requests /\ req[r] \in Request
      /\ req \in [Requests -> Request \cup {NotYet, Done}]
  BY DEF InFlight, IInv, TypeOK
<1>2. req'[r] = Done
  BY <1>1
<1>3. ASSUME NEW s \in Requests, s # r
      PROVE  /\ req'[s] \in Request \cup {NotYet, Done}
             /\ s \in InFlight' <=> s \in InFlight
             /\ s \in InFlight =>
                  /\ req'[s].step = req[s].step /\ req'[s].kind = req[s].kind
                  /\ req'[s].user = req[s].user /\ req'[s].counts = req[s].counts
                  /\ req'[s].plan = req[s].plan /\ req'[s].until = req[s].until
                  /\ req'[s].stale = (s \in S \/ req[s].stale)
  <2> DEFINE t == req[s]
  <2>1. CASE s \in InFlight /\ s \in S
    <3>1. t \in Request
      BY <1>1, <2>1 DEF InFlight
    <3>2. req'[s] = [t EXCEPT !.stale = TRUE]
      BY <1>3, <2>1
    <3> HIDE DEF t
    <3>3. /\ req'[s] \in Request /\ req'[s].stale = TRUE /\ req'[s].step = t.step
          /\ req'[s].kind = t.kind /\ req'[s].user = t.user /\ req'[s].counts = t.counts
          /\ req'[s].plan = t.plan /\ req'[s].until = t.until
      BY <3>1, <3>2 DEF Request
    <3>4. TRUE = (s \in S \/ req[s].stale)
      BY <2>1
    <3> QED
      BY <2>1, <3>3, <3>4 DEF InFlight, t
  <2>2. CASE s \in InFlight /\ s \notin S
    <3>1. t \in Request /\ req'[s] = t
      BY <1>1, <1>3, <2>2 DEF InFlight
    <3>2. t.stale \in BOOLEAN
      BY <3>1 DEF Request
    <3>3. t.stale = (s \in S \/ t.stale)
      BY <3>2, <2>2, Zenon
    <3> QED
      BY <2>2, <3>1, <3>3 DEF InFlight
  <2>3. CASE s \notin InFlight
    <3>1. req'[s] = t /\ t \in Request \cup {NotYet, Done}
      BY <1>1, <1>3, <2>3
    <3> QED
      BY <2>3, <3>1 DEF InFlight
  <2> QED
    BY <2>1, <2>2, <2>3
<1>4. req' \in [Requests -> Request \cup {NotYet, Done}]
  <2>1. \A s \in Requests : req'[s] \in Request \cup {NotYet, Done}
    BY <1>2, <1>3
  <2> QED
    BY <2>1
<1>5. InFlight' = InFlight \ {r}
  <2>1. InFlight' \subseteq Requests /\ InFlight \subseteq Requests /\ r \notin InFlight'
    BY <1>2 DEF InFlight
  <2> QED
    BY <1>3, <2>1
<1>6. Accounts'
  <2>1. Unextended' = Unextended
    <3>1. \A s \in Requests : s \in Unextended' <=> s \in Unextended
      BY <1>3, <1>5 DEF Unextended
    <3> QED
      BY <3>1 DEF Unextended, InFlight
  <2>2. \A s \in Extending' : s \in Extending /\ req'[s].until = req[s].until
    BY <1>3, <1>5 DEF Extending, InFlight
  <2> QED
    BY <2>1, <2>2, AccountsKept DEF IInv
<1>7. ASSUME NEW s \in InFlight'
      PROVE  /\ req'[s].step = req[s].step /\ req'[s].kind = req[s].kind
             /\ req'[s].user = req[s].user /\ req'[s].counts = req[s].counts
             /\ req'[s].plan = req[s].plan /\ req'[s].until = req[s].until
             /\ req'[s].stale = (s \in S \/ req[s].stale)
  <2>1. s \in Requests /\ s # r /\ s \in InFlight
    BY <1>5 DEF InFlight
  <2> QED
    BY <1>3, <2>1
<1> QED
  BY <1>4, <1>5, <1>6, <1>7

LEMMA CommitUserKeeps ==
  ASSUME IInv, NEW r \in Requests, CommitUser(r)
  PROVE  IInv'
<1> DEFINE q    == req[r]
           more == After(r) = NewStaff /\ q.user \notin ActiveStaff
           S    == {s \in InFlight : more /\ req[s].step = "counted"}
           A    == Cardinality(ActiveStaff)
           B    == Cardinality(ActiveStaff')
<1>1. /\ r \in InFlight /\ q \in Request /\ q.kind \in {"insert", "update"}
      /\ q.step \in {"counted", "loaded"}
      /\ UNCHANGED <<plan, until, paid, today, raced, crashed>>
      /\ req' = [s \in Requests |->
                   IF s = r THEN Done
                   ELSE IF s \in InFlight /\ more /\ req[s].step = "counted"
                   THEN [req[s] EXCEPT !.stale = TRUE] ELSE req[s]]
      /\ waived' \in {waived, waived \ {q.user}, waived \cup {q.user}}
  BY DEF CommitUser, IInv, TypeOK, InFlight
<1>2. r \notin Unextended /\ q.user \in Users
  BY <1>1 DEF Unextended, Request
<1>3. /\ users' \in [Users -> User \cup {NoRow}] /\ Known \subseteq Known'
      /\ more \/ B <= A
  BY CommitUserShape
<1>4. req' = [s \in Requests |->
                IF s = r THEN Done
                ELSE IF s \in InFlight /\ s \in S
                THEN [req[s] EXCEPT !.stale = TRUE] ELSE req[s]]
  BY <1>1
<1> HIDE DEF S
<1>5. /\ req' \in [Requests -> Request \cup {NotYet, Done}]
      /\ InFlight' = InFlight \ {r}
      /\ \A s \in InFlight' :
           /\ req'[s].step = req[s].step /\ req'[s].kind = req[s].kind
           /\ req'[s].user = req[s].user /\ req'[s].counts = req[s].counts
           /\ req'[s].plan = req[s].plan /\ req'[s].until = req[s].until
           /\ req'[s].stale = (s \in S \/ req[s].stale)
      /\ Accounts'
  BY <1>1, <1>2, <1>4, CommitShape
<1>6. TypeOK'
  <2>1. waived' \subseteq Users
    BY <1>1, <1>2 DEF IInv, TypeOK
  <2> QED
    BY <1>1, <1>3, <1>5, <2>1 DEF IInv, TypeOK
<1>7. A \in Nat /\ B \in Nat /\ plan \in Plans /\ MaxUsers[plan] \in Nat
  <2>1. ActiveStaff' \subseteq Users
    BY DEF ActiveStaff, Known
  <2>2. B \in Nat
    BY <2>1, AccountAssumption, FS_Subset, FS_CardinalityType
  <2> QED
    BY <1>6, <2>2, CountsAreNumbers, AccountAssumption DEF IInv, TypeOK
<1>8. ASSUME NEW s \in InFlight'
      PROVE  Sound(req'[s], Known', plan', B)
  <2> DEFINE t == req[s]
             n == req'[s]
  <2>1. s \in InFlight /\ Sound(t, Known, plan, A)
    BY <1>5 DEF IInv, RequestsSound
  <2>2. /\ n.step = t.step /\ n.kind = t.kind /\ n.user = t.user /\ n.counts = t.counts
        /\ n.plan = t.plan /\ n.stale = (s \in S \/ t.stale)
    BY <1>5
  <2>3. t.step = "counted" /\ ~ n.stale => B <= A
    <3>1. t.step = "counted" /\ s \notin S => ~more
      BY <2>1 DEF S
    <3> QED
      BY <1>3, <2>2, <3>1
  <2>4. n.counts /\ ~ n.stale => t.counts /\ ~ t.stale
    BY <2>2
  <2> HIDE DEF t, n, more
  <2>5. n.counts /\ ~ n.stale /\ n.step = "counted" => B < MaxUsers[plan]
    <3> SUFFICES ASSUME n.counts /\ ~ n.stale /\ n.step = "counted"
                 PROVE  B < MaxUsers[plan]
      BY Zenon
    <3>1. A < MaxUsers[plan] /\ B <= A
      BY <2>1, <2>2, <2>3, <2>4 DEF Sound
    <3> HIDE DEF A, B
    <3> QED
      BY <1>7, <3>1
  <2>6. n.user = t.user /\ (t.user \in Known => t.user \in Known')
    BY <1>3, <2>2
  <2>7. Sound(n, Known', plan, B)
    BY <2>1, <2>2, <2>4, <2>5, <2>6 DEF Sound
  <2> QED
    BY <1>1, <2>7 DEF n
<1>9. RequestsSound'
  BY <1>8 DEF RequestsSound
<1>10. PaidBounded'
  BY <1>1 DEF IInv, PaidBounded
<1> QED
  BY <1>5, <1>6, <1>9, <1>10 DEF IInv

LEMMA CommitPlanKeeps ==
  ASSUME IInv, NEW r \in Requests, CommitPlan(r)
  PROVE  IInv'
<1> DEFINE q == req[r]
           S == {s \in InFlight : plan' # plan /\ req[s].counts /\ req[s].step # "found"}
<1>1. /\ r \in InFlight /\ q \in Request /\ q.kind = "plan" /\ q.step = "loaded"
      /\ plan' = IF q.goal = q.plan THEN plan ELSE q.goal
      /\ UNCHANGED <<until, paid, users, today, raced, crashed, waived>>
      /\ req' = [s \in Requests |->
                   IF s = r THEN Done
                   ELSE IF plan' # plan /\ s \in InFlight /\ req[s].counts
                           /\ req[s].step # "found"
                   THEN [req[s] EXCEPT !.stale = TRUE] ELSE req[s]]
  BY DEF CommitPlan, At, IInv, TypeOK, InFlight
<1>2. r \notin Unextended
  BY <1>1 DEF Unextended
<1>3. plan' \in Plans
  BY <1>1 DEF Request, IInv, TypeOK
<1>4. req' = [s \in Requests |->
                IF s = r THEN Done
                ELSE IF s \in InFlight /\ s \in S
                THEN [req[s] EXCEPT !.stale = TRUE] ELSE req[s]]
  BY <1>1
<1> HIDE DEF S
<1>5. /\ req' \in [Requests -> Request \cup {NotYet, Done}]
      /\ InFlight' = InFlight \ {r}
      /\ \A s \in InFlight' :
           /\ req'[s].step = req[s].step /\ req'[s].kind = req[s].kind
           /\ req'[s].user = req[s].user /\ req'[s].counts = req[s].counts
           /\ req'[s].plan = req[s].plan /\ req'[s].until = req[s].until
           /\ req'[s].stale = (s \in S \/ req[s].stale)
      /\ Accounts'
  BY <1>1, <1>2, <1>4, CommitShape
<1>6. TypeOK' /\ PaidBounded'
  BY <1>1, <1>3, <1>5 DEF IInv, TypeOK, PaidBounded
<1>7. ASSUME NEW s \in InFlight'
      PROVE  Sound(req'[s], Known', plan', Cardinality(ActiveStaff'))
  <2> DEFINE t == req[s]
             n == req'[s]
  <2>1. s \in InFlight /\ Sound(t, Known, plan, Cardinality(ActiveStaff))
    BY <1>5 DEF IInv, RequestsSound
  <2>2. /\ n.step = t.step /\ n.kind = t.kind /\ n.user = t.user /\ n.counts = t.counts
        /\ n.plan = t.plan /\ n.stale = (s \in S \/ t.stale)
    BY <1>5
  <2>3. n.counts /\ ~ n.stale => n.step = "found" \/ plan' = plan
    <3>1. s \in S <=> plan' # plan /\ t.counts /\ t.step # "found"
      BY <2>1 DEF S
    <3> QED
      BY <2>2, <3>1
  <2>4. Known' = Known /\ ActiveStaff' = ActiveStaff
    BY <1>1 DEF Known, ActiveStaff
  <2> HIDE DEF t, n
  <2>5. Sound(n, Known', plan', Cardinality(ActiveStaff'))
    <3>1. ~ n.stale => ~ t.stale
      BY <2>2
    <3> QED
      BY <2>1, <2>2, <2>3, <2>4, <3>1 DEF Sound
  <2> QED
    BY <2>5 DEF n
<1>8. RequestsSound'
  BY <1>7 DEF RequestsSound
<1> QED
  BY <1>5, <1>6, <1>8 DEF IInv
----------------------------------------------------------------------------
\* Steps that touch no request: the clock, and stuttering.
LEMMA ClockKeeps ==
  ASSUME IInv, UNCHANGED <<plan, until, paid, users, req, raced, crashed, waived>>,
         today' \in Nat
  PROVE  IInv'
<1>1. /\ InFlight' = InFlight /\ Known' = Known /\ ActiveStaff' = ActiveStaff
      /\ Unextended' = Unextended /\ Extending' = Extending
  BY DEF InFlight, Known, ActiveStaff, Unextended, Extending
<1>2. TypeOK' /\ PaidBounded'
  BY DEF IInv, TypeOK, PaidBounded
<1>3. RequestsSound'
  BY <1>1 DEF IInv, RequestsSound
<1>4. Accounts'
  BY <1>1, AccountsKept DEF IInv
<1> QED
  BY <1>2, <1>3, <1>4 DEF IInv

LEMMA NextKeeps ==
  ASSUME IInv, [Next]_vars
  PROVE  IInv'
<1>1. ASSUME NEW r \in Requests, Payment(r) PROVE IInv'
  BY <1>1, BeginPayKeeps, InsertPaymentKeeps, ReadUntilKeeps, ExtendKeeps DEF Payment
<1>2. ASSUME NEW r \in Requests, Staff(r) PROVE IInv'
  <2>1. ASSUME NEW u \in Users, NEW to \in OneColumn, BeginUpdate(r, u, to) PROVE IInv'
    BY <2>1, BeginUpdateKeeps DEF OneColumn
  <2> QED
    BY <1>2, <2>1, BeginInsertKeeps, BeginActivateKeeps, ReadPlanKeeps, CountPassesKeeps,
       CountRefusesKeeps, CommitUserKeeps DEF Staff
<1>3. CASE Tick
  BY <1>3, ClockKeeps DEF Tick, IInv, TypeOK
<1>4. CASE UNCHANGED vars
  BY <1>4, ClockKeeps DEF vars, IInv, TypeOK
<1> QED
  BY <1>1, <1>2, <1>3, <1>4, BeginPlanKeeps, CommitPlanKeeps, LoseKeeps DEF Next

LEMMA InitIInv == Init => IInv
<1> SUFFICES ASSUME Init PROVE IInv
  OBVIOUS
<1>1. InFlight = {} /\ Unextended = {} /\ Extending = {}
  BY DEF Init, InFlight, Unextended, Extending
<1>2. TypeOK
  BY AccountAssumption DEF Init, TypeOK, User, Roles
<1>3. TotalPaid = 0
  <2>1. {p \in Codes \X (1 .. MaxPayments) : p[2] <= paid[p[1]]} = {}
    <3>1. ASSUME NEW c \in Codes, NEW i \in 1 .. MaxPayments PROVE ~ (i <= paid[c])
      BY AccountAssumption DEF Init
    <3> QED
      BY <3>1
  <2> QED
    BY <2>1, FS_EmptySet DEF TotalPaid
<1>4. Covers(until)
  <2>1. Cardinality(Unextended) = 0 /\ crashed = 0 /\ raced = 0 /\ until = TrialEnd
        /\ TrialEnd \in Nat
    BY <1>1, FS_EmptySet, AccountAssumption DEF Init
  <2> QED
    BY <1>3, <2>1 DEF Covers
<1>5. RequestsSound /\ Accounts /\ PaidBounded
  BY <1>1, <1>4, AccountAssumption DEF Init, RequestsSound, Accounts, PaidBounded
<1> QED
  BY <1>2, <1>5 DEF IInv

LEMMA AlwaysIInv == Spec => []IInv
<1>1. IInv /\ [Next]_vars => IInv'
  BY NextKeeps
<1> QED
  BY InitIInv, <1>1, PTL DEF Spec
----------------------------------------------------------------------------
\* The tables and the requests keep their shape; a partial update never leaves
\* a user without a role or a state (update_user).
THEOREM TypesAreKept == Spec => []TypeOK
<1>1. IInv => TypeOK
  BY DEF IInv
<1> QED
  BY AlwaysIInv, <1>1, PTL

\* Every payment extends the subscription by one period and once, but for those
\* whose request is still to do it, died before, or raced with another.
THEOREM PaymentsExtend == Spec => []ExtensionsAreAccounted
<1>1. IInv => ExtensionsAreAccounted
  BY DEF IInv, Accounts, Covers, ExtensionsAreAccounted
<1> QED
  BY AlwaysIInv, <1>1, PTL

\* The plan bounds the active staff whenever staff is added by a request whose
\* count still holds when it commits.
THEOREM QuotaIsKept == Spec => QuotaHolds
<1>1. ASSUME IInv, [Next]_vars, NEW u \in ActiveStaff' \ ActiveStaff
      PROVE  u \in waived' \/ Cardinality(ActiveStaff') <= MaxUsers[plan']
  <2>1. ASSUME UNCHANGED users PROVE FALSE
    BY <1>1, <2>1 DEF ActiveStaff, Known
  <2>2. \E r \in Requests : CommitUser(r)
    <3>1. ASSUME NEW r \in Requests PROVE ~ Payment(r)
      BY <2>1 DEF Payment, BeginPay, Arrive, InsertPayment, ReadUntil, Extend
    <3>2. ASSUME NEW r \in Requests, Staff(r) PROVE CommitUser(r)
      BY <2>1, <3>2 DEF Staff, BeginInsert, BeginActivate, BeginUpdate, Arrive, ReadPlan,
         CountPasses, CountRefuses
    <3>3. ASSUME NEW r \in Requests
          PROVE  ~ CommitPlan(r) /\ ~ Lose(r) /\ \A p \in Plans : ~ BeginPlan(r, p)
      BY <2>1 DEF CommitPlan, Lose, BeginPlan, Arrive
    <3>4. ~ Tick /\ ~ UNCHANGED vars
      BY <2>1 DEF Tick, vars
    <3> QED
      BY <1>1, <3>1, <3>2, <3>3, <3>4 DEF Next
  <2>3. PICK r \in Requests : CommitUser(r)
    BY <2>2
  <2> DEFINE q    == req[r]
             more == After(r) = NewStaff /\ q.user \notin ActiveStaff
             A    == Cardinality(ActiveStaff)
  <2>4. more
    <3>1. ~more => ActiveStaff' \subseteq ActiveStaff
      BY <1>1, <2>3, CommitUserShape
    <3> QED
      BY <1>1, <3>1
  <2>5. u = q.user /\ Cardinality(ActiveStaff') = A + 1
    <3>1. ActiveStaff' = ActiveStaff \cup {q.user} /\ Cardinality(ActiveStaff') = A + 1
      BY <1>1, <2>3, <2>4, CommitUserShape
    <3> QED
      BY <1>1, <3>1
  <2>6. CASE q.counts /\ ~q.stale
    <3>1. r \in InFlight /\ q.step = "counted" /\ plan' = plan
      BY <2>3, <2>6 DEF CommitUser
    <3>2. A < MaxUsers[plan]
      BY <1>1, <2>6, <3>1 DEF IInv, RequestsSound, Sound
    <3>3. A \in Nat /\ MaxUsers[plan] \in Nat
      BY <1>1, CountsAreNumbers, AccountAssumption DEF IInv, TypeOK
    <3> QED
      BY <2>5, <3>1, <3>2, <3>3
  <2>7. CASE ~ (q.counts /\ ~q.stale)
    <3>1. waived' = waived \cup {q.user}
      BY <2>3, <2>4, <2>7 DEF CommitUser
    <3> QED
      BY <2>5, <3>1
  <2> QED
    BY <2>6, <2>7
<1>2. IInv /\ [Next]_vars =>
        [\A u \in ActiveStaff' \ ActiveStaff :
           u \in waived' \/ Cardinality(ActiveStaff') <= MaxUsers[plan']]_vars
  BY <1>1
<1> QED
  BY AlwaysIInv, <1>2, PTL DEF Spec, QuotaHolds
----------------------------------------------------------------------------
\* What the two histories raced and waived stand for: without the behaviour
\* they count, what follows holds without exception.

\* No two requests extend at a time.
OneExtends == \A r, s \in Extending : r = s

NoneRaced == raced = 0

LEMMA NoneRacedKept ==
  ASSUME NoneRaced, OneExtends, [Next]_vars
  PROVE  NoneRaced'
<1>1. ASSUME NEW r \in Requests, Extend(r) PROVE UNCHANGED raced
  <2>1. r \in Extending
    BY <1>1 DEF Extend, At, Extending
  <2>2. ASSUME NEW s \in Requests \ {r} PROVE ~ At(s, "pay", "extending")
    BY <2>1, <2>2 DEF OneExtends, At, Extending
  <2> QED
    BY <1>1, <2>2 DEF Extend
<1>2. ASSUME NEW r \in Requests, Payment(r) PROVE UNCHANGED raced
  BY <1>1, <1>2 DEF Payment, BeginPay, Arrive, InsertPayment, ReadUntil
<1>3. ASSUME NEW r \in Requests, Staff(r) PROVE UNCHANGED raced
  BY <1>3 DEF Staff, BeginInsert, BeginActivate, BeginUpdate, Arrive, ReadPlan,
     CountPasses, CountRefuses, CommitUser
<1>4. ASSUME NEW r \in Requests,
             CommitPlan(r) \/ Lose(r) \/ \E p \in Plans : BeginPlan(r, p)
      PROVE  UNCHANGED raced
  BY <1>4 DEF CommitPlan, Lose, BeginPlan, Arrive
<1>5. CASE Tick \/ UNCHANGED vars
  BY <1>5 DEF Tick, vars, NoneRaced
<1> QED
  BY <1>2, <1>3, <1>4, <1>5 DEF Next, NoneRaced

\* Payments that do not overlap between the read and the write of the date: the
\* subscription misses exactly those still to be extended and those crashed.
THEOREM SerialPaymentsExtend ==
  Spec /\ []OneExtends
    => [](TrialEnd + TotalPaid - until = Cardinality(Unextended) + crashed)
<1>1. Init => NoneRaced
  BY DEF Init, NoneRaced
<1>2. NoneRaced /\ OneExtends /\ [Next]_vars => NoneRaced'
  BY NoneRacedKept
<1>3. IInv /\ NoneRaced => TrialEnd + TotalPaid - until = Cardinality(Unextended) + crashed
  <2> SUFFICES ASSUME IInv, NoneRaced
               PROVE  TrialEnd + TotalPaid - until = Cardinality(Unextended) + crashed
    OBVIOUS
  <2> DEFINE missing == TrialEnd + TotalPaid - until
             open    == Cardinality(Unextended) + crashed
  <2>1. missing >= open /\ missing <= open + raced /\ raced = 0
    BY DEF IInv, Accounts, Covers, NoneRaced
  <2>2. TotalPaid \in Nat
    <3> DEFINE N     == 1 .. MaxPayments
               pairs == {p \in Codes \X N : p[2] <= paid[p[1]]}
    <3>1. IsFiniteSet(N)
      BY AccountAssumption, FS_Interval
    <3>2. IsFiniteSet(Codes \X N)
      BY <3>1, CodesAreFinite, FS_Product
    <3>3. pairs \in SUBSET (Codes \X N)
      OBVIOUS
    <3>4. Cardinality(pairs) \in Nat
      BY <3>2, <3>3, FS_Subset, FS_CardinalityType
    <3> QED
      BY <3>4 DEF TotalPaid
  <2>3. missing \in Int /\ open \in Int
    BY <2>2, CountsAreNumbers, AccountAssumption DEF IInv, TypeOK
  <2> HIDE DEF missing, open
  <2>4. missing = open
    BY <2>1, <2>3
  <2> QED
    BY <2>4 DEF missing, open
<1> QED
  BY <1>1, <1>2, <1>3, AlwaysIInv, PTL DEF Spec
----------------------------------------------------------------------------
\* The plan stays; whatever can make staff active counts, and no second request
\* passes its count before the first commits.
Disciplined ==
  /\ \A r \in InFlight :
       /\ req[r].kind # "plan"
       /\ req[r].kind = "insert" /\ ~req[r].counts => req[r].was.role = "owner"
       /\ req[r].kind = "update" /\ ~req[r].counts =>
            req[r].to.role = Keep /\ req[r].to.active \in {FALSE, Keep}
  /\ \A r, s \in InFlight : req[r].step = "counted" /\ req[s].step = "counted" => r = s

WithinPlan == Cardinality(ActiveStaff) <= MaxUsers[plan]
NoneStale  == \A r \in InFlight : req[r].stale = FALSE

LEMMA StepIsNotStale ==
  ASSUME TypeOK, NoneStale, NEW r \in Requests, NEW n, req' = [req EXCEPT ![r] = n],
         n \in {NotYet, Done} \/ n.stale = FALSE
  PROVE  NoneStale'
<1>1. ASSUME NEW s \in InFlight' PROVE req'[s].stale = FALSE
  <2>1. CASE s = r
    BY <1>1, <2>1 DEF InFlight, TypeOK
  <2>2. CASE s # r
    BY <1>1, <2>2 DEF InFlight, TypeOK, NoneStale
  <2> QED
    BY <2>1, <2>2
<1> QED
  BY <1>1 DEF NoneStale

\* Under the discipline only a request that counted makes staff active.
LEMMA OnlyCountedAdd ==
  ASSUME IInv, Disciplined, NEW r \in Requests, CommitUser(r), ~ req[r].counts
  PROVE  ~ (After(r) = NewStaff /\ req[r].user \notin ActiveStaff)
<1> DEFINE q == req[r]
           u == q.user
<1>1. r \in InFlight /\ q.kind \in {"insert", "update"} /\ q \in Request
  BY DEF CommitUser, IInv, TypeOK, InFlight
<1> SUFFICES ASSUME After(r) = NewStaff PROVE u \in ActiveStaff
  OBVIOUS
<1>2. u \in Known /\ users[u] = NewStaff => u \in ActiveStaff
  BY DEF ActiveStaff, NewStaff
<1>3. CASE q.kind = "update"
  <2> DEFINE row == users[u]
             was == q.was
             to  == q.to
  <2>1. u \in Known /\ row \in User
    BY <1>1, <1>3, AfterIsUser DEF IInv, RequestsSound, Sound
  <2>2. Merged(row, was, to) = NewStaff /\ to.role = Keep /\ to.active \in {FALSE, Keep}
    BY <1>1, <1>3 DEF After, Disciplined
  <2> HIDE DEF row, was, to
  <2>3. row.role = "staff"
    BY <2>2 DEF Merged, NewStaff
  <2>4. row.active = TRUE
    <3>1. (IF to.active \in {Keep, was.active} THEN row.active ELSE to.active) = TRUE
      BY <2>2 DEF Merged, NewStaff
    <3>2. CASE to.active = FALSE /\ to.active # was.active /\ to.active # Keep
      BY <3>1, <3>2
    <3>3. CASE to.active = Keep \/ to.active = was.active
      BY <3>1, <3>3
    <3> QED
      BY <2>2, <3>2, <3>3
  <2>5. row = NewStaff
    BY <2>1, <2>3, <2>4 DEF User, NewStaff
  <2> QED
    BY <1>2, <2>1, <2>5 DEF row
<1>4. CASE q.kind = "insert"
  <2>1. CASE u \in Known
    <3>1. users[u] = NewStaff
      BY <1>4, <2>1 DEF After
    <3> QED
      BY <1>2, <2>1, <3>1
  <2>2. CASE u \notin Known
    <3>1. q.was.role = "owner"
      BY <1>1, <1>4 DEF Disciplined
    <3>2. q.was = NewStaff
      BY <1>4, <2>2 DEF After
    <3> QED
      BY <3>1, <3>2 DEF NewStaff
  <2> QED
    BY <2>1, <2>2
<1> QED
  BY <1>1, <1>3, <1>4

LEMMA CommitUserWithinPlan ==
  ASSUME IInv, NoneStale, WithinPlan, Disciplined, NEW r \in Requests, CommitUser(r)
  PROVE  NoneStale' /\ WithinPlan'
<1> USE ValuesAssumption
<1> DEFINE q    == req[r]
           more == After(r) = NewStaff /\ q.user \notin ActiveStaff
           A    == Cardinality(ActiveStaff)
           B    == Cardinality(ActiveStaff')
<1>1. /\ r \in InFlight /\ q \in Request /\ q.step = IF q.counts THEN "counted" ELSE "loaded"
      /\ plan' = plan /\ plan \in Plans
      /\ req' = [s \in Requests |->
                   IF s = r THEN Done
                   ELSE IF s \in InFlight /\ more /\ req[s].step = "counted"
                   THEN [req[s] EXCEPT !.stale = TRUE] ELSE req[s]]
  BY DEF CommitUser, IInv, TypeOK, InFlight
<1>2. more => q.counts /\ q.step = "counted"
  BY <1>1, OnlyCountedAdd
<1>3. (more => B = A + 1) /\ (~more => B <= A)
  BY CommitUserShape
<1>4. A \in Nat /\ B \in Nat /\ MaxUsers[plan] \in Nat
  <2>1. ActiveStaff' \subseteq Users
    BY DEF ActiveStaff, Known
  <2> QED
    BY <1>1, <2>1, AccountAssumption, CountsAreNumbers, FS_Subset, FS_CardinalityType DEF IInv
<1>5. more => A < MaxUsers[plan]
  BY <1>1, <1>2 DEF NoneStale, IInv, RequestsSound, Sound
<1>6. A <= MaxUsers[plan]
  BY DEF WithinPlan
<1>7. NoneStale'
  <2>1. ASSUME NEW s \in InFlight' PROVE req'[s].stale = FALSE
    <3>1. s \in Requests /\ s # r
      BY <1>1, <2>1 DEF InFlight
    <3>2. ~ (s \in InFlight /\ more /\ req[s].step = "counted")
      BY <1>1, <1>2, <3>1 DEF Disciplined
    <3>3. req'[s] = req[s]
      BY <1>1, <3>1, <3>2
    <3> QED
      BY <2>1, <3>1, <3>3 DEF InFlight, NoneStale
  <2> QED
    BY <2>1 DEF NoneStale
<1>8. WithinPlan'
  <2> HIDE DEF A, B, more
  <2>1. B <= MaxUsers[plan]
    BY <1>3, <1>4, <1>5, <1>6
  <2> QED
    BY <1>1, <2>1 DEF WithinPlan, B
<1> QED
  BY <1>7, <1>8

LEMMA NextWithinPlan ==
  ASSUME IInv, NoneStale, WithinPlan, Disciplined, [Next]_vars
  PROVE  NoneStale' /\ WithinPlan'
<1> USE ValuesAssumption
<1>1. TypeOK
  BY DEF IInv
<1>2. ASSUME UNCHANGED <<users, plan>> PROVE WithinPlan'
  BY <1>2 DEF WithinPlan, ActiveStaff, Known
<1>3. ASSUME NEW r \in Requests, NEW n, Arrive(r, n), n.stale = FALSE
      PROVE  NoneStale' /\ WithinPlan'
  BY <1>1, <1>2, <1>3, StepIsNotStale DEF Arrive
<1>4. ASSUME NEW r \in InFlight, NEW n, req' = [req EXCEPT ![r] = n],
             n = Done \/ n.stale = req[r].stale, UNCHANGED <<users, plan>>
      PROVE  NoneStale' /\ WithinPlan'
  BY <1>1, <1>2, <1>4, StepIsNotStale DEF NoneStale, InFlight
<1>5. \A r \in InFlight : r \in Requests /\ req[r] \in Request
  BY <1>1 DEF InFlight, TypeOK
<1>6. ASSUME NEW r \in Requests, Payment(r) PROVE NoneStale' /\ WithinPlan'
  <2> DEFINE q == req[r]
  <2>1. ASSUME NEW c \in Codes, BeginPay(r, c) PROVE NoneStale' /\ WithinPlan'
    <3> DEFINE n == [Blank EXCEPT !.code = c]
    <3>1. n.stale = FALSE
      BY DEF Blank
    <3>2. Arrive(r, n)
      BY <2>1 DEF BeginPay
    <3> HIDE DEF n
    <3> QED
      BY <1>3, <3>1, <3>2
  <2>2. CASE InsertPayment(r)
    <3> DEFINE n == [q EXCEPT !.step = "paid"]
    <3>1. r \in InFlight /\ q \in Request /\ UNCHANGED <<users, plan>>
      BY <2>2, <1>5 DEF InsertPayment, At
    <3>2. req' = [req EXCEPT ![r] = Done] \/ req' = [req EXCEPT ![r] = n]
      BY <2>2 DEF InsertPayment
    <3>3. n.stale = q.stale
      BY <3>1 DEF Request
    <3> HIDE DEF n
    <3> QED
      BY <1>4, <3>1, <3>2, <3>3
  <2>3. CASE ReadUntil(r)
    <3> DEFINE n == [q EXCEPT !.step = "extending", !.until = Reloaded(r)]
    <3>1. r \in InFlight /\ q \in Request /\ UNCHANGED <<users, plan>>
      BY <2>3, <1>5 DEF ReadUntil, At
    <3>2. req' = [req EXCEPT ![r] = n]
      BY <2>3 DEF ReadUntil
    <3>3. n.stale = q.stale
      BY <3>1 DEF Request
    <3> HIDE DEF n
    <3> QED
      BY <1>4, <3>1, <3>2, <3>3
  <2>4. CASE Extend(r)
    BY <2>4, <1>4 DEF Extend, At
  <2> QED
    BY <1>6, <2>1, <2>2, <2>3, <2>4 DEF Payment
<1>7. ASSUME NEW r \in Requests, Staff(r) PROVE NoneStale' /\ WithinPlan'
  <2> DEFINE q == req[r]
  <2>1. ASSUME NEW u \in Users, NEW role \in Roles, NEW counts \in BOOLEAN,
               BeginInsert(r, u, role, counts)
        PROVE  NoneStale' /\ WithinPlan'
    <3> DEFINE n == [Blank EXCEPT !.kind = "insert", !.counts = counts, !.user = u,
                                  !.was = [role |-> role, active |-> TRUE]]
    <3>1. n.stale = FALSE
      BY DEF Blank
    <3>2. Arrive(r, n)
      BY <2>1 DEF BeginInsert
    <3> HIDE DEF n
    <3> QED
      BY <1>3, <3>1, <3>2
  <2>2. ASSUME NEW u \in Users, BeginActivate(r, u) PROVE NoneStale' /\ WithinPlan'
    <3> DEFINE n == [Blank EXCEPT !.kind = "update", !.counts = TRUE, !.step = "found",
                                  !.user = u, !.was = users[u], !.to.active = TRUE]
    <3>1. n.stale = FALSE
      BY DEF Blank
    <3>2. Arrive(r, n)
      BY <2>2 DEF BeginActivate
    <3> HIDE DEF n
    <3> QED
      BY <1>3, <3>1, <3>2
  <2>3. ASSUME NEW u \in Users, NEW to \in OneColumn, BeginUpdate(r, u, to)
        PROVE  NoneStale' /\ WithinPlan'
    <3> DEFINE n == [Blank EXCEPT !.kind = "update", !.user = u, !.was = users[u], !.to = to]
    <3>1. n.stale = FALSE
      BY DEF Blank
    <3>2. Arrive(r, n)
      BY <2>3 DEF BeginUpdate
    <3> HIDE DEF n
    <3> QED
      BY <1>3, <3>1, <3>2
  <2>4. CASE ReadPlan(r)
    <3> DEFINE n == [q EXCEPT !.step = "loaded", !.plan = plan]
    <3>1. r \in InFlight /\ q \in Request /\ UNCHANGED <<users, plan>>
      BY <2>4, <1>5 DEF ReadPlan, At
    <3>2. req' = [req EXCEPT ![r] = n]
      BY <2>4 DEF ReadPlan
    <3>3. n.stale = q.stale
      BY <3>1 DEF Request
    <3> HIDE DEF n
    <3> QED
      BY <1>4, <3>1, <3>2, <3>3
  <2>5. CASE CountPasses(r)
    <3> DEFINE n == [q EXCEPT !.step = "counted"]
    <3>1. r \in InFlight /\ q \in Request /\ UNCHANGED <<users, plan>>
      BY <2>5, <1>5 DEF CountPasses, Counting
    <3>2. req' = [req EXCEPT ![r] = n]
      BY <2>5 DEF CountPasses
    <3>3. n.stale = q.stale
      BY <3>1 DEF Request
    <3> HIDE DEF n
    <3> QED
      BY <1>4, <3>1, <3>2, <3>3
  <2>6. CASE CountRefuses(r)
    BY <2>6, <1>4 DEF CountRefuses, Counting
  <2>7. CASE CommitUser(r)
    BY <2>7, CommitUserWithinPlan
  <2> QED
    BY <1>7, <2>1, <2>2, <2>3, <2>4, <2>5, <2>6, <2>7 DEF Staff
<1>8. ASSUME NEW r \in Requests, NEW p \in Plans, BeginPlan(r, p)
      PROVE  NoneStale' /\ WithinPlan'
  <2> DEFINE n == [Blank EXCEPT !.kind = "plan", !.goal = p]
  <2>1. n.stale = FALSE
    BY DEF Blank
  <2>2. Arrive(r, n)
    BY <1>8 DEF BeginPlan
  <2> HIDE DEF n
  <2> QED
    BY <1>3, <2>1, <2>2
<1>9. ASSUME NEW r \in Requests PROVE ~ CommitPlan(r)
  BY DEF CommitPlan, At, Disciplined
<1>10. ASSUME NEW r \in Requests, Lose(r) PROVE NoneStale' /\ WithinPlan'
  BY <1>10, <1>4 DEF Lose
<1>11. CASE Tick \/ UNCHANGED vars
  <2>1. UNCHANGED <<users, plan, req>>
    BY <1>11 DEF Tick, vars
  <2> QED
    BY <1>2, <2>1 DEF NoneStale, InFlight
<1> QED
  BY <1>6, <1>7, <1>8, <1>9, <1>10, <1>11 DEF Next

\* Where everything that can make staff active counts, one request at a time and
\* under one plan, no more staff is ever active than the plan allows
\* (_enforce_active_staff_limit): the three exceptions of QuotaHolds are all.
THEOREM DisciplineKeepsThePlan == Spec /\ []Disciplined => []WithinPlan
<1>1. Init => NoneStale /\ WithinPlan
  <2> SUFFICES ASSUME Init PROVE NoneStale /\ WithinPlan
    OBVIOUS
  <2>1. ActiveStaff = {} /\ InFlight = {}
    BY DEF Init, ActiveStaff, Known, InFlight
  <2>2. Cardinality(ActiveStaff) = 0 /\ plan = FirstPlan
    BY <2>1, FS_EmptySet DEF Init
  <2> QED
    BY <2>1, <2>2, AccountAssumption DEF NoneStale, WithinPlan
<1>2. IInv /\ NoneStale /\ WithinPlan /\ Disciplined /\ [Next]_vars => NoneStale' /\ WithinPlan'
  BY NextWithinPlan
<1> QED
  BY <1>1, <1>2, AlwaysIInv, PTL DEF Spec
=============================================================================
