-------------------------- MODULE RemindersProofs --------------------------
(***************************************************************************)
(* What the reminder runs check, for any number of appointments,           *)
(* businesses, edits and failures.  The inductive invariant says what a    *)
(* run in progress believes of the appointments it still has (RunFits),    *)
(* and counts the reminders delivered together with those the runs are     *)
(* about to send (Balanced).                                               *)
(***************************************************************************)
EXTENDS Reminders, TLAPS

\* An appointment a run still has, of a business behind it, is as the run's
\* query found it, or was written since; so is the one being sent.
RunFits(j, r, table) ==
  /\ r \in Run
  /\ r.force => j = "script"
  /\ \A a \in Appts : r.seen[a] # NoRow =>
       /\ TenantOf[a] \notin r.left
       /\ table[a] # NoRow
       /\ \/ a \in r.changed
          \/ /\ table[a].status = "pending"
             /\ r.seen[a] \in {Expired, table[a].start}
             /\ OnDay(Kind(j), table[a].start, r.now)
  /\ r.phase = "sending" =>
       /\ r.cur \in Appts /\ table[r.cur] # NoRow /\ r.told \in Starts
       /\ TenantOf[r.cur] \notin r.left
       /\ r.seen[r.cur] = NoRow
       /\ \/ r.cur \in r.changed
          \/ /\ table[r.cur].status = "pending"
             /\ table[r.cur].start = r.told
             /\ Due(Kind(j), r.told, r.now)

JobsFit == \A j \in Jobs : RunFits(j, job[j], rows)

\* Run r of job j may yet deliver a reminder of a.  The script has a claim on
\* every appointment of the businesses to come; the jobs have none before
\* their query has found it unmarked.
Claims(j, r, a) ==
  \/ r.seen[a] # NoRow
  \/ r.phase = "sending" /\ r.cur = a
  \/ j = "script" /\ TenantOf[a] \in r.left

Claim(j, r, a) == IF Claims(j, r, a) THEN 1 ELSE 0

\* What the runs of a kind have open, apart and together.
Others(j, k, a) ==
  IF k # "24h" THEN 0
  ELSE IF j = "job24" THEN Claim("script", job["script"], a)
  ELSE Claim("job24", job["job24"], a)

Open(k, a) ==
  IF k = "2h" THEN Claim("job2", job["job2"], a)
  ELSE Claim("job24", job["job24"], a) + Claim("script", job["script"], a)

IsMarked(k, a) == rows[a] # NoRow /\ k \in rows[a].sent

\* net: reminders delivered and not lost; open: those about to be.  What is
\* not marked has had none.
Balance(net, open, marked, most) ==
  /\ net + open <= most
  /\ ~marked => net <= 0

Net(k, a) == delivered[k][a] - lost[k][a]
Most(k)   == 1 + ByScript(k)

Balanced ==
  \A k \in Kinds, a \in Appts : Balance(Net(k, a), Open(k, a), IsMarked(k, a), Most(k))

\* A run of the script has been counted.
ScriptCounted == \A a \in Appts : Claims("script", job["script"], a) => scripts > 0

\* Everything but the runs.
PlainTypes ==
  /\ rows \in [Appts -> Row \cup {NoRow}]
  /\ now \in Nat /\ served \subseteq Tenants /\ reachable \subseteq Appts
  /\ edits \in Nat /\ scripts \in Nat /\ losses \in Nat
  /\ delivered \in [Kinds -> [Appts -> Nat]]
  /\ lost \in [Kinds -> [Appts -> Nat]]

IInv == PlainTypes /\ DOMAIN job = Jobs /\ job = [j \in Jobs |-> job[j]] /\ JobsFit
        /\ ScriptCounted /\ Balanced
----------------------------------------------------------------------------
LEMMA KindIsKind == \A j \in Jobs : Kind(j) \in Kinds
BY DEF Kind, Kinds, Jobs

\* One more in a table of counters.
LEMMA CountUp ==
  ASSUME NEW f \in [Kinds -> [Appts -> Nat]], NEW k \in Kinds, NEW a \in Appts,
         NEW g, g = [f EXCEPT ![k][a] = @ + 1]
  PROVE  /\ g \in [Kinds -> [Appts -> Nat]]
         /\ g[k][a] = f[k][a] + 1
         /\ \A l \in Kinds, b \in Appts : (l # k \/ b # a) => g[l][b] = f[l][b]
<1> DEFINE h == [f[k] EXCEPT ![a] = @ + 1]
<1>1. h \in [Appts -> Nat] /\ h[a] = f[k][a] + 1 /\ \A b \in Appts : b # a => h[b] = f[k][b]
  OBVIOUS
<1>2. g = [f EXCEPT ![k] = h]
  OBVIOUS
<1> HIDE DEF h
<1>3. g[k] = h /\ \A l \in Kinds : l # k => g[l] = f[l]
  BY <1>2
<1>4. g \in [Kinds -> [Appts -> Nat]]
  BY <1>1, <1>2
<1> QED
  BY <1>1, <1>3, <1>4

LEMMA NetIsInt ==
  ASSUME PlainTypes, NEW k \in Kinds, NEW a \in Appts
  PROVE  /\ Net(k, a) \in Int /\ Most(k) \in Nat
         /\ delivered[k][a] \in Nat /\ lost[k][a] \in Nat
<1>1. delivered[k][a] \in Nat /\ lost[k][a] \in Nat /\ scripts \in Nat
  BY DEF PlainTypes
<1> QED
  BY <1>1 DEF Net, Most, ByScript

LEMMA ClaimIsBit == \A j, r, a : Claim(j, r, a) \in {0, 1}
BY DEF Claim

LEMMA OpenSplits ==
  ASSUME NEW j \in Jobs, NEW a \in Appts
  PROVE  /\ Open(Kind(j), a) = Others(j, Kind(j), a) + Claim(j, job[j], a)
         /\ Others(j, Kind(j), a) \in Nat
<1>1. CASE j = "job2"
  BY ClaimIsBit, <1>1 DEF Open, Others, Kind
<1>2. CASE j = "job24"
  BY ClaimIsBit, <1>2 DEF Open, Others, Kind
<1>3. CASE j = "script"
  BY ClaimIsBit, <1>3 DEF Open, Others, Kind
<1> QED
  BY <1>1, <1>2, <1>3 DEF Jobs

LEMMA OpenSplitsNext ==
  ASSUME NEW j \in Jobs, NEW a \in Appts, \A i \in Jobs : i # j => job'[i] = job[i]
  PROVE  Open(Kind(j), a)' = Others(j, Kind(j), a) + Claim(j, job'[j], a)
<1>1. CASE j = "job2"
  BY ClaimIsBit, <1>1 DEF Open, Others, Kind, Jobs
<1>2. CASE j = "job24"
  BY ClaimIsBit, <1>2 DEF Open, Others, Kind, Jobs
<1>3. CASE j = "script"
  BY ClaimIsBit, <1>3 DEF Open, Others, Kind, Jobs
<1> QED
  BY <1>1, <1>2, <1>3 DEF Jobs

\* How a step of one run may move the balance of an appointment: it gives a
\* claim up, takes up one not marked, comes with a run of the script, or
\* delivers and marks.
Moves(j, k, a) ==
  LET p  == Claim(j, job[j], a)
      p2 == Claim(j, job'[j], a)
  IN
  \/ Net(k, a)' = Net(k, a) /\ p2 <= p
  \/ Net(k, a)' = Net(k, a) /\ ~IsMarked(k, a) /\ Others(j, k, a) < Most(k)'
  \/ Net(k, a)' = Net(k, a) /\ Most(k)' = Most(k) + 1
  \/ Net(k, a)' = Net(k, a) + 1 /\ p = 1 /\ p2 = 0 /\ IsMarked(k, a)'

\* A step of job j keeps the balance if it moves every appointment of its kind
\* in one of the four ways and leaves the other kind alone.
LEMMA JobStepKeepsBalance ==
  ASSUME Balanced, PlainTypes, PlainTypes', NEW j \in Jobs,
         \A i \in Jobs : i # j => job'[i] = job[i],
         scripts' >= scripts,
         \A k \in Kinds, a \in Appts :
           /\ IsMarked(k, a) => IsMarked(k, a)'
           /\ k # Kind(j) => Net(k, a)' = Net(k, a) /\ IsMarked(k, a)' = IsMarked(k, a),
         \A a \in Appts : Moves(j, Kind(j), a)
  PROVE  Balanced'
<1>0. scripts \in Nat /\ scripts' \in Nat
  BY DEF PlainTypes
<1>1. ASSUME NEW k \in Kinds, NEW a \in Appts
      PROVE  Balance(Net(k, a)', Open(k, a)', IsMarked(k, a)', Most(k)')
  <2>0. Balance(Net(k, a), Open(k, a), IsMarked(k, a), Most(k))
    BY DEF Balanced
  <2>1. Net(k, a) \in Int /\ Net(k, a)' \in Int
    <3>1. delivered'[k][a] \in Nat /\ lost'[k][a] \in Nat
      BY DEF PlainTypes
    <3> QED
      BY <3>1, NetIsInt DEF Net
  <2>2. Most(k) \in Nat /\ Most(k)' \in Nat /\ Most(k) <= Most(k)'
    BY <1>0 DEF Most, ByScript
  <2>3. CASE k # Kind(j)
    <3>1. Open(k, a)' = Open(k, a) /\ Open(k, a) \in Nat
      BY <2>3, ClaimIsBit DEF Open, Kind, Jobs, Kinds
    <3>2. Net(k, a)' = Net(k, a) /\ IsMarked(k, a)' = IsMarked(k, a)
      BY <2>3
    <3> QED
      BY <2>0, <2>1, <2>2, <3>1, <3>2 DEF Balance
  <2>4. CASE k = Kind(j)
    <3> DEFINE o   == Others(j, k, a)
               p   == Claim(j, job[j], a)
               p2  == Claim(j, job'[j], a)
               net == Net(k, a)
               net2 == Net(k, a)'
               m   == IsMarked(k, a)
               m2  == IsMarked(k, a)'
               most == Most(k)
               most2 == Most(k)'
    <3>1. Open(k, a) = o + p /\ o \in Nat /\ p \in {0, 1}
      BY <2>4, OpenSplits, ClaimIsBit
    <3>2. Open(k, a)' = o + p2 /\ p2 \in {0, 1}
      BY <2>4, OpenSplitsNext, ClaimIsBit
    <3>3. m \in BOOLEAN /\ m2 \in BOOLEAN
      BY Zenon DEF IsMarked
    <3>4. \/ net2 = net /\ p2 <= p
          \/ net2 = net /\ ~m /\ o < most2
          \/ net2 = net /\ most2 = most + 1
          \/ net2 = net + 1 /\ p = 1 /\ p2 = 0 /\ m2
      BY <2>4 DEF Moves
    <3>5. Balance(net, o + p, m, most) /\ (m => m2)
      BY <2>0, <3>1
    <3>6. net \in Int /\ net2 \in Int /\ most \in Nat /\ most2 \in Nat /\ most <= most2
      BY <2>1, <2>2
    <3> HIDE DEF o, p, p2, net, net2, m, m2, most, most2
    <3>7. Balance(net2, o + p2, m2, most2)
      <4>1. CASE net2 = net /\ p2 <= p
        BY <4>1, <3>1, <3>2, <3>5, <3>6 DEF Balance
      <4>2. CASE net2 = net /\ ~m /\ o < most2
        BY <4>2, <3>1, <3>2, <3>5, <3>6 DEF Balance
      <4>3. CASE net2 = net /\ most2 = most + 1
        BY <4>3, <3>1, <3>2, <3>5, <3>6 DEF Balance
      <4>4. CASE net2 = net + 1 /\ p = 1 /\ p2 = 0 /\ m2
        BY <4>4, <3>1, <3>2, <3>5, <3>6 DEF Balance
      <4> QED
        BY <3>4, <4>1, <4>2, <4>3, <4>4
    <3> QED
      BY <3>2, <3>7 DEF net2, m2, most2
  <2> QED
    BY <2>3, <2>4
<1> QED
  BY <1>1 DEF Balanced

----------------------------------------------------------------------------
LEMMA NoRunFits == \A j, table : RunFits(j, NoRun, table)
<1>1. NoRun \in Run
  BY DEF NoRun, Run
<1> QED
  BY <1>1 DEF RunFits, NoRun

LEMMA NoRunClaims == \A j, a : a \in Appts => ~Claims(j, NoRun, a)
BY DEF Claims, NoRun

\* A run that rests is over or as it was.
LEMMA RestFits ==
  ASSUME NEW j, NEW table, NEW r, RunFits(j, r, table)
  PROVE  /\ RunFits(j, Rest(r), table)
         /\ \A a \in Appts : Claims(j, Rest(r), a) => Claims(j, r, a)
<1>1. Rest(r) = NoRun \/ Rest(r) = r
  BY DEF Rest
<1> QED
  BY <1>1, NoRunFits, NoRunClaims

\* What a run believes of an appointment does not depend on the marks.
LEMMA MarksAreNotLookedAt ==
  ASSUME NEW j, NEW table, NEW table2, NEW r, RunFits(j, r, table),
         \A a \in Appts : table[a] # NoRow =>
           /\ table2[a] # NoRow
           /\ table2[a].status = table[a].status
           /\ table2[a].start = table[a].start
  PROVE  RunFits(j, r, table2)
BY DEF RunFits

LEMMA DropFits ==
  ASSUME NEW j, NEW table, NEW r, RunFits(j, r, table), r.phase = "next", NEW a \in Appts
  PROVE  /\ RunFits(j, Drop(r, a), table)
         /\ \A b \in Appts : Claims(j, Drop(r, a), b) => Claims(j, r, b)
<1>0. r \in Run
  BY DEF RunFits
<1> DEFINE d == Drop(r, a)
<1>1. /\ d \in Run
      /\ d.phase = "next" /\ d.now = r.now /\ d.left = r.left /\ d.force = r.force
      /\ d.seen = [r.seen EXCEPT ![a] = NoRow]
      /\ d.changed = r.changed \ {a}
  BY <1>0 DEF Drop, Run
<1>2. /\ d.seen[a] = NoRow
      /\ \A b \in Appts : b # a => d.seen[b] = r.seen[b]
  BY <1>0, <1>1 DEF Run
<1> HIDE DEF d
<1>3. RunFits(j, d, table)
  BY <1>1, <1>2 DEF RunFits
<1>4. \A b \in Appts : Claims(j, d, b) => Claims(j, r, b)
  BY <1>1, <1>2 DEF Claims
<1> QED
  BY <1>3, <1>4 DEF d

LEMMA ProceedFits ==
  ASSUME NEW j, NEW table, NEW r, RunFits(j, r, table), r.phase = "sending"
  PROVE  /\ RunFits(j, Proceed(r), table)
         /\ \A b \in Appts : Claims(j, Proceed(r), b) => Claims(j, r, b) /\ b # r.cur
<1>0. r \in Run /\ r.seen[r.cur] = NoRow /\ TenantOf[r.cur] \notin r.left
  BY DEF RunFits
<1> DEFINE seen2 == [b \in Appts |-> IF r.seen[b] = NoRow THEN NoRow ELSE Expired]
           m == [r EXCEPT !.phase = "next", !.cur = NoRow, !.told = Expired,
                          !.changed = @ \cap ToGo(r), !.seen = seen2]
<1>1. seen2 \in [Appts -> Starts \cup {Expired, NoRow}]
  OBVIOUS
<1>2. \A b \in Appts : seen2[b] = IF r.seen[b] = NoRow THEN NoRow ELSE Expired
  OBVIOUS
<1>3. Proceed(r) = Rest(m)
  BY <1>0 DEF Proceed, Run
<1> HIDE DEF seen2
<1>4. /\ m \in Run
      /\ m.phase = "next" /\ m.now = r.now /\ m.seen = seen2
      /\ m.changed = r.changed \cap ToGo(r) /\ m.left = r.left /\ m.force = r.force
  BY <1>0, <1>1 DEF Run
<1> HIDE DEF m
<1>5. \A b \in Appts : m.seen[b] # NoRow => r.seen[b] # NoRow /\ b \in ToGo(r)
  BY <1>2, <1>4 DEF ToGo
<1>6. \A b \in Appts : m.seen[b] # NoRow => m.seen[b] = Expired
  BY <1>2, <1>4
<1>7. RunFits(j, m, table)
  BY <1>4, <1>5, <1>6 DEF RunFits
<1>8. \A b \in Appts : Claims(j, m, b) => Claims(j, r, b) /\ b # r.cur
  BY <1>0, <1>4, <1>5 DEF Claims
<1> QED
  BY <1>3, <1>7, <1>8, RestFits
----------------------------------------------------------------------------
Function == DOMAIN job = Jobs /\ job = [j \in Jobs |-> job[j]]

LEMMA JobUpdated ==
  ASSUME Function, NEW j \in Jobs, NEW r, job' = [job EXCEPT ![j] = r]
  PROVE  Function' /\ job'[j] = r /\ \A i \in Jobs : i # j => job'[i] = job[i]
BY DEF Function

\* A step of one run leaves the others fitting, whatever marks it sets.
LEMMA OneRunSteps ==
  ASSUME JobsFit, NEW j \in Jobs, \A i \in Jobs : i # j => job'[i] = job[i],
         RunFits(j, job'[j], rows'),
         \A a \in Appts : rows[a] # NoRow =>
           /\ rows'[a] # NoRow
           /\ rows'[a].status = rows[a].status
           /\ rows'[a].start = rows[a].start
  PROVE  JobsFit'
<1>1. ASSUME NEW i \in Jobs, i # j
      PROVE  RunFits(i, job'[i], rows')
  <2>1. RunFits(i, job[i], rows)
    BY DEF JobsFit
  <2>2. RunFits(i, job[i], rows')
    BY <2>1, MarksAreNotLookedAt
  <2> QED
    BY <1>1, <2>2
<1> QED
  BY <1>1 DEF JobsFit, Kind

\* A run that only gives claims up, in a step that counts nothing.
LEMMA GivingUpKeeps ==
  ASSUME IInv, NEW j \in Jobs, NEW r, job' = [job EXCEPT ![j] = r],
         RunFits(j, r, rows),
         \A a \in Appts : Claims(j, r, a) => Claims(j, job[j], a),
         UNCHANGED <<rows, scripts>>, PlainTypes',
         \A k \in Kinds, a \in Appts : Net(k, a)' = Net(k, a)
  PROVE  IInv'
<1>1. Function' /\ job'[j] = r /\ \A i \in Jobs : i # j => job'[i] = job[i]
  BY JobUpdated DEF IInv, Function
<1>2. JobsFit'
  BY <1>1, OneRunSteps DEF IInv
<1>3. \A k \in Kinds, a \in Appts : IsMarked(k, a)' = IsMarked(k, a)
  BY DEF IsMarked
<1>4. \A a \in Appts : Claim(j, job'[j], a) <= Claim(j, job[j], a)
  BY <1>1 DEF Claim
<1>5. Balanced'
  <2>1. Balanced /\ PlainTypes /\ scripts' >= scripts
    BY DEF IInv, PlainTypes
  <2>2. \A a \in Appts : Moves(j, Kind(j), a)
    BY <1>4, KindIsKind DEF Moves
  <2> QED
    BY <1>1, <1>3, <2>1, <2>2, JobStepKeepsBalance
<1>6. ScriptCounted'
  <2>1. \A a \in Appts : Claims("script", job'["script"], a) => Claims("script", job["script"], a)
    BY <1>1 DEF Jobs
  <2> QED
    BY <2>1 DEF IInv, ScriptCounted
<1> QED
  BY <1>1, <1>2, <1>5, <1>6 DEF IInv, Function

LEMMA SameCounters ==
  ASSUME UNCHANGED <<delivered, lost>>
  PROVE  \A k \in Kinds, a \in Appts : Net(k, a)' = Net(k, a)
BY DEF Net

LEMMA IsFit == ASSUME IInv, NEW j \in Jobs PROVE RunFits(j, job[j], rows) /\ job[j] \in Run
BY DEF IInv, JobsFit, RunFits

LEMMA AbortKeeps ==
  ASSUME IInv, NEW j \in Jobs, NEW a \in Appts, Abort(j, a)
  PROVE  IInv'
<1>1. PlainTypes'
  BY DEF IInv, PlainTypes, Abort, env, hist
<1>2. job' = [job EXCEPT ![j] = NoRun] /\ UNCHANGED <<rows, scripts, delivered, lost>>
  BY DEF Abort, env, hist
<1> QED
  BY <1>1, <1>2, NoRunFits, NoRunClaims, SameCounters, GivingUpKeeps

LEMMA CrashKeeps ==
  ASSUME IInv, NEW j \in Jobs, Crash(j)
  PROVE  IInv'
<1>1. PlainTypes'
  BY DEF IInv, PlainTypes, Crash, Fails, env
<1>2. job' = [job EXCEPT ![j] = NoRun] /\ UNCHANGED <<rows, scripts, delivered, lost>>
  BY DEF Crash, Fails, env
<1> QED
  BY <1>1, <1>2, NoRunFits, NoRunClaims, SameCounters, GivingUpKeeps

LEMMA SkipKeeps ==
  ASSUME IInv, NEW j \in Jobs, NEW a \in Appts, Skip(j, a)
  PROVE  IInv'
<1>1. PlainTypes'
  BY DEF IInv, PlainTypes, Skip, env, hist
<1>2. job' = [job EXCEPT ![j] = Rest(Drop(job[j], a))] /\ UNCHANGED <<rows, scripts, delivered, lost>>
  BY DEF Skip, env, hist, IInv
<1>3. job[j].phase = "next"
  BY DEF Skip, IsTurn
<1>4. /\ RunFits(j, Rest(Drop(job[j], a)), rows)
      /\ \A b \in Appts : Claims(j, Rest(Drop(job[j], a)), b) => Claims(j, job[j], b)
  BY <1>3, IsFit, DropFits, RestFits
<1> QED
  BY <1>1, <1>2, <1>4, SameCounters, GivingUpKeeps

LEMMA RefuseKeeps ==
  ASSUME IInv, NEW j \in Jobs, Refuse(j)
  PROVE  IInv'
<1>1. PlainTypes'
  BY DEF IInv, PlainTypes, Refuse, Fails, env
<1>2. job' = [job EXCEPT ![j] = Proceed(job[j])] /\ UNCHANGED <<rows, scripts, delivered, lost>>
  BY DEF Refuse, Fails, env, IInv
<1>3. /\ RunFits(j, Proceed(job[j]), rows)
      /\ \A b \in Appts : Claims(j, Proceed(job[j]), b) => Claims(j, job[j], b)
  BY IsFit, ProceedFits DEF Refuse
<1> QED
  BY <1>1, <1>2, <1>3, SameCounters, GivingUpKeeps

LEMMA LoseMarkKeeps ==
  ASSUME IInv, NEW j \in Jobs, NEW dies \in BOOLEAN, LoseMark(j, dies)
  PROVE  IInv'
<1> DEFINE k == Kind(j)
           c == job[j].cur
           r == IF dies THEN NoRun ELSE Proceed(job[j])
<1>1. job[j].phase = "sending" /\ c \in Appts /\ k \in Kinds
  BY IsFit, KindIsKind DEF LoseMark, RunFits
<1>2. /\ delivered' = [delivered EXCEPT ![k][c] = @ + 1]
      /\ lost' = [lost EXCEPT ![k][c] = @ + 1]
      /\ rows' = rows
  BY DEF LoseMark, Delivered, Fails, env
<1>3. job' = [job EXCEPT ![j] = r]
  BY DEF LoseMark, IInv
<1>4. /\ RunFits(j, r, rows)
      /\ \A b \in Appts : Claims(j, r, b) => Claims(j, job[j], b)
  BY <1>1, IsFit, ProceedFits, NoRunFits, NoRunClaims
<1> HIDE DEF k, c, r
<1>5. PlainTypes
  BY DEF IInv
<1>6. /\ delivered' \in [Kinds -> [Appts -> Nat]]
      /\ delivered'[k][c] = delivered[k][c] + 1
      /\ \A l \in Kinds, b \in Appts : (l # k \/ b # c) => delivered'[l][b] = delivered[l][b]
  BY <1>1, <1>2, <1>5, CountUp DEF PlainTypes
<1>7. /\ lost' \in [Kinds -> [Appts -> Nat]]
      /\ lost'[k][c] = lost[k][c] + 1
      /\ \A l \in Kinds, b \in Appts : (l # k \/ b # c) => lost'[l][b] = lost[l][b]
  BY <1>1, <1>2, <1>5, CountUp DEF PlainTypes
<1>8. PlainTypes'
  BY <1>5, <1>6, <1>7, <1>2 DEF PlainTypes, LoseMark, Fails, env
<1>9. ASSUME NEW l \in Kinds, NEW a \in Appts
      PROVE  Net(l, a)' = Net(l, a)
  <2>0. /\ delivered[l][a] \in Nat /\ lost[l][a] \in Nat
    BY <1>5, NetIsInt
  <2>1. CASE l = k /\ a = c
    BY <2>0, <2>1, <1>2, <1>6, <1>7 DEF Net
  <2>2. CASE l # k \/ a # c
    BY <2>2, <1>2, <1>6, <1>7 DEF Net
  <2> QED
    BY <2>1, <2>2
<1>10. UNCHANGED <<rows, scripts>> /\ RunFits(j, r, rows)
  BY <1>2, <1>4 DEF LoseMark, Fails
<1> QED
  BY <1>3, <1>4, <1>8, <1>9, <1>10, GivingUpKeeps

LEMMA MarkedRow ==
  ASSUME NEW row \in Row, NEW k \in Kinds
  PROVE  /\ Marked(row, k) \in Row
         /\ Marked(row, k).status = row.status /\ Marked(row, k).start = row.start
         /\ Marked(row, k).sent = row.sent \cup {k}
BY DEF Marked, Row

\* The reminder is delivered and marked in one step.
LEMMA MarkKeeps ==
  ASSUME IInv, NEW j \in Jobs, Mark(j)
  PROVE  IInv'
<1>0. /\ job[j].phase = "sending" /\ job[j].cur \in Appts /\ Kind(j) \in Kinds
      /\ rows[job[j].cur] # NoRow
  BY IsFit, KindIsKind DEF Mark, RunFits
<1> PICK k \in Kinds : k = Kind(j)
  BY <1>0
<1> PICK c \in Appts : c = job[j].cur
  BY <1>0
<1> DEFINE r == Proceed(job[j])
           row == Marked(rows[c], k)
<1>1. /\ job[j].phase = "sending" /\ c \in Appts /\ k \in Kinds
      /\ rows[c] # NoRow
  BY <1>0
<1>2. /\ delivered' = [delivered EXCEPT ![k][c] = @ + 1]
      /\ lost' = lost
  BY DEF Mark, Delivered
<1>3. job' = [job EXCEPT ![j] = r]
  BY DEF Mark, IInv
<1>4. /\ RunFits(j, r, rows)
      /\ \A b \in Appts : Claims(j, r, b) => Claims(j, job[j], b) /\ b # c
  BY <1>1, IsFit, ProceedFits
<1>5. PlainTypes /\ Balanced /\ JobsFit /\ Function
  BY DEF IInv, Function
<1>6. rows[c] \in Row
  BY <1>1, <1>5 DEF PlainTypes
<1>7. /\ row \in Row /\ row.sent = rows[c].sent \cup {k}
      /\ row.status = rows[c].status /\ row.start = rows[c].start
  BY <1>1, <1>6, MarkedRow
<1>8. rows' = [rows EXCEPT ![c] = row]
  BY <1>1, <1>5 DEF Mark, PlainTypes
<1>9. Claims(j, job[j], c)
  BY <1>1 DEF Claims
<1> HIDE DEF r, row
<1>10. rows'[c] = row /\ row # NoRow /\ \A b \in Appts : b # c => rows'[b] = rows[b]
  BY <1>1, <1>5, <1>7, <1>8, RowAssumption DEF PlainTypes
<1>11. \A a \in Appts : rows[a] # NoRow =>
         /\ rows'[a] # NoRow
         /\ rows'[a].status = rows[a].status
         /\ rows'[a].start = rows[a].start
  BY <1>7, <1>10
<1>12. Function' /\ job'[j] = r /\ \A i \in Jobs : i # j => job'[i] = job[i]
  BY <1>3, <1>5, JobUpdated
<1>13. JobsFit'
  <2>1. RunFits(j, r, rows')
    BY <1>4, <1>11, MarksAreNotLookedAt
  <2> QED
    BY <2>1, <1>5, <1>11, <1>12, OneRunSteps
<1>14. /\ delivered' \in [Kinds -> [Appts -> Nat]]
       /\ delivered'[k][c] = delivered[k][c] + 1
       /\ \A l \in Kinds, b \in Appts : (l # k \/ b # c) => delivered'[l][b] = delivered[l][b]
  BY <1>1, <1>2, <1>5, CountUp DEF PlainTypes
<1>15. PlainTypes'
  <2>1. rows' \in [Appts -> Row \cup {NoRow}]
    BY <1>1, <1>5, <1>7, <1>8 DEF PlainTypes
  <2> QED
    BY <2>1, <1>2, <1>5, <1>14 DEF PlainTypes, Mark
<1>16. \A l \in Kinds, a \in Appts : (l # k \/ a # c) =>
         Net(l, a)' = Net(l, a)
  BY <1>2, <1>14 DEF Net
<1>17. \A a \in Appts : a # c => IsMarked(k, a)' = IsMarked(k, a)
  BY <1>10 DEF IsMarked
<1>18. \A l \in Kinds, a \in Appts : l # k => IsMarked(l, a)' = IsMarked(l, a)
  BY <1>1, <1>7, <1>10 DEF IsMarked
<1>19. Net(k, c)' = Net(k, c) + 1 /\ IsMarked(k, c)'
  <2>1. /\ delivered[k][c] \in Nat /\ lost[k][c] \in Nat
    BY <1>1, <1>5, NetIsInt
  <2>2. Net(k, c)' = Net(k, c) + 1
    BY <2>1, <1>2, <1>14 DEF Net
  <2>3. IsMarked(k, c)'
    BY <1>7, <1>10 DEF IsMarked
  <2> QED
    BY <2>2, <2>3
<1>20. /\ Claim(j, job[j], c) = 1 /\ Claim(j, job'[j], c) = 0
       /\ \A a \in Appts : Claim(j, job'[j], a) <= Claim(j, job[j], a)
  BY <1>1, <1>4, <1>9, <1>12 DEF Claim
<1>21. ASSUME NEW a \in Appts
       PROVE  Moves(j, k, a)
  BY <1>1, <1>16, <1>19, <1>20 DEF Moves
<1>22. \A l \in Kinds, a \in Appts : IsMarked(l, a) => IsMarked(l, a)'
  BY <1>17, <1>18, <1>19
<1>23. scripts' = scripts /\ scripts' >= scripts
  BY <1>5 DEF Mark, PlainTypes
<1>24. Balanced'
  BY <1>5, <1>12, <1>15, <1>16, <1>18, <1>21, <1>22, <1>23, JobStepKeepsBalance
<1>25. ScriptCounted'
  <2>1. \A a \in Appts : Claims("script", job'["script"], a) => Claims("script", job["script"], a)
    BY <1>4, <1>12 DEF Jobs
  <2> QED
    BY <2>1, <1>23 DEF IInv, ScriptCounted
<1> QED
  BY <1>12, <1>13, <1>15, <1>24, <1>25 DEF IInv, Function

LEMMA TakenRun ==
  ASSUME NEW r \in Run, NEW a \in Appts, NEW told \in Starts
  PROVE  /\ Take(r, a, told) \in Run
         /\ Take(r, a, told).phase = "sending" /\ Take(r, a, told).cur = a
         /\ Take(r, a, told).told = told /\ Take(r, a, told).now = r.now
         /\ Take(r, a, told).left = r.left /\ Take(r, a, told).force = r.force
         /\ Take(r, a, told).changed = r.changed
         /\ Take(r, a, told).seen[a] = NoRow
         /\ \A b \in Appts : b # a => Take(r, a, told).seen[b] = r.seen[b]
<1> DEFINE seen == [r.seen EXCEPT ![a] = NoRow]
<1>1. r.seen \in [Appts -> Starts \cup {Expired, NoRow}]
  BY DEF Run
<1>2. /\ seen \in [Appts -> Starts \cup {Expired, NoRow}]
      /\ seen[a] = NoRow /\ \A b \in Appts : b # a => seen[b] = r.seen[b]
  BY <1>1
<1>3. Take(r, a, told) = [r EXCEPT !.phase = "sending", !.cur = a, !.told = told,
                                   !.seen = seen]
  BY <1>1 DEF Take
<1>4. PICK m : m = [r EXCEPT !.phase = "sending", !.cur = a, !.told = told,
                             !.seen = seen]
  OBVIOUS
<1> HIDE DEF seen
<1>5. /\ m \in Run
      /\ m.phase = "sending" /\ m.cur = a /\ m.told = told /\ m.now = r.now
      /\ m.left = r.left /\ m.force = r.force /\ m.changed = r.changed /\ m.seen = seen
  BY <1>2, <1>4 DEF Run
<1> QED
  BY <1>2, <1>3, <1>4, <1>5

\* What a run takes up was due when it asked, unless written since; it has
\* no claim it did not have.
LEMMA AddressedRunFits ==
  ASSUME IInv, NEW j \in Jobs, NEW a \in Appts, Address(j, a), NEW m,
         m = Take(job[j], a, Loaded(j, a))
  PROVE  /\ RunFits(j, m, rows)
         /\ \A b \in Appts : Claims(j, m, b) => Claims(j, job[j], b)
<1> DEFINE r == job[j]
           told == Loaded(j, a)
<1>1. RunFits(j, r, rows) /\ r \in Run
  BY IsFit
<1>2. r.phase = "next" /\ r.seen[a] # NoRow
  BY DEF Address, IsTurn, ToGo
<1>3. InWindow(Kind(j), told, r.now)
  BY DEF Address
<1>4. told = IF r.seen[a] = Expired THEN rows[a].start ELSE r.seen[a]
  BY DEF Loaded
<1>5. rows[a] \in Row /\ rows[a] # NoRow
  BY <1>1, <1>2 DEF IInv, PlainTypes, RunFits
<1>6. told \in Starts
  BY <1>1, <1>2, <1>4, <1>5 DEF Run, Row
<1>7. \/ a \in r.changed
      \/ rows[a].status = "pending" /\ rows[a].start = told /\ Due(Kind(j), told, r.now)
  BY <1>1, <1>2, <1>3, <1>4 DEF RunFits, Due
<1> HIDE DEF told
<1>8. m = Take(r, a, told)
  BY DEF told
<1> HIDE DEF r
<1>9. /\ m \in Run
      /\ m.phase = "sending" /\ m.cur = a /\ m.told = told /\ m.now = r.now
      /\ m.left = r.left /\ m.force = r.force /\ m.changed = r.changed
      /\ m.seen[a] = NoRow /\ \A b \in Appts : b # a => m.seen[b] = r.seen[b]
  BY <1>1, <1>6, <1>8, TakenRun
<1>11. RunFits(j, m, rows)
  BY <1>1, <1>2, <1>5, <1>6, <1>7, <1>9 DEF RunFits
<1>12. \A b \in Appts : Claims(j, m, b) => Claims(j, r, b)
  BY <1>2, <1>9 DEF Claims
<1> QED
  BY <1>11, <1>12 DEF r

LEMMA AddressKeeps ==
  ASSUME IInv, NEW j \in Jobs, NEW a \in Appts, Address(j, a)
  PROVE  IInv'
<1>1. PlainTypes'
  BY DEF IInv, PlainTypes, Address, env, hist
<1>2. /\ job' = [job EXCEPT ![j] = Take(job[j], a, Loaded(j, a))]
      /\ UNCHANGED <<rows, scripts, delivered, lost>>
  BY DEF Address, env, hist, IInv
<1> QED
  BY <1>1, <1>2, AddressedRunFits, SameCounters, GivingUpKeeps

\* A run that may open another business is a run; only the script forces.
LEMMA OpenedIsRun ==
  ASSUME IInv, NEW j \in Jobs, NEW r \in Opened(j)
  PROVE  /\ r \in Run /\ (r.force => j = "script")
         /\ job[j].phase = "idle" \/ r = job[j]
<1>1. ASSUME NEW S \in SUBSET Tenants, NEW force \in BOOLEAN
      PROVE  Fresh(S, force) \in Run /\ Fresh(S, force).force = force
  BY DEF Fresh, NoRun, Run
<1>2. job[j] \in Run /\ (job[j].force => j = "script")
  BY IsFit DEF RunFits
<1>3. CASE job[j].phase # "idle"
  BY <1>2, <1>3 DEF Opened
<1>4. CASE job[j].phase = "idle" /\ j # "script"
  <2>1. r = Fresh(Tenants, FALSE) /\ Tenants \in SUBSET Tenants /\ FALSE \in BOOLEAN
    BY <1>4 DEF Opened
  <2>2. Fresh(Tenants, FALSE) \in Run /\ Fresh(Tenants, FALSE).force = FALSE
    BY <2>1, <1>1
  <2> QED
    BY <1>4, <2>1, <2>2
<1>5. CASE job[j].phase = "idle" /\ j = "script"
  <2>1. r \in {Fresh(S, force) : S \in {Tenants} \cup {{t} : t \in Tenants}, force \in BOOLEAN}
    BY <1>5 DEF Opened
  <2>2. PICK S \in {Tenants} \cup {{t} : t \in Tenants}, force \in BOOLEAN : r = Fresh(S, force)
    BY <2>1
  <2>3. S \in SUBSET Tenants
    OBVIOUS
  <2> QED
    BY <1>1, <1>5, <2>2, <2>3
<1> QED
  BY <1>3, <1>4, <1>5

\* The run r after its query for business t.
Asked(t, r, found) ==
  [r EXCEPT
     !.left = @ \ {t}, !.now = now, !.changed = {},
     !.seen = [a \in Appts |-> IF a \in found THEN rows[a].start ELSE NoRow]]

\* What the query of a run finds, it believes with reason.  The script had a
\* claim on it; a job finds only what is not marked.
LEMMA AskedRunFits ==
  ASSUME IInv, NEW j \in Jobs, NEW t \in Tenants, NEW r \in Run, r.phase = "next",
         r.force => j = "script", t \in r.left, NEW found,
         found = IF t \in served THEN Eligible(j, t, r.force) ELSE {},
         NEW m, m = Asked(t, r, found)
  PROVE  /\ RunFits(j, m, rows)
         /\ \A a \in Appts : Claims(j, m, a) =>
              \/ j = "script" /\ Claims(j, r, a)
              \/ j # "script" /\ ~IsMarked(Kind(j), a)
<1>1. found \subseteq Appts /\ \A a \in found :
        /\ rows[a] # NoRow /\ rows[a].status = "pending" /\ TenantOf[a] = t
        /\ OnDay(Kind(j), rows[a].start, now)
        /\ r.force \/ Kind(j) \notin rows[a].sent
  BY DEF Eligible, Booked
<1>2. \A a \in found : rows[a] \in Row /\ rows[a].start \in Starts
  BY <1>1 DEF IInv, PlainTypes, Row
<1> DEFINE start == [a \in Appts |-> IF a \in found THEN rows[a].start ELSE NoRow]
<1> PICK seen : seen = start
  OBVIOUS
<1>3. /\ seen \in [Appts -> Starts \cup {Expired, NoRow}]
      /\ \A a \in Appts : seen[a] = IF a \in found THEN rows[a].start ELSE NoRow
  BY <1>2
<1>6. m = [r EXCEPT !.left = r.left \ {t}, !.now = now, !.changed = {}, !.seen = seen]
  BY Zenon DEF Asked
<1> HIDE DEF start
<1>7. now \in Nat /\ r.left \ {t} \in SUBSET Tenants
  BY DEF IInv, PlainTypes, Run
<1>8. /\ m \in Run /\ m.phase = "next" /\ m.now = now /\ m.seen = seen
      /\ m.changed = {} /\ m.left = r.left \ {t} /\ m.force = r.force
  <2>1. PICK left : left = r.left \ {t}
    OBVIOUS
  <2>2. PICK n : n = now
    OBVIOUS
  <2>3. m = [r EXCEPT !.left = left, !.now = n, !.changed = {}, !.seen = seen]
    BY Zenon, <1>6, <2>1, <2>2
  <2>4. left \in SUBSET Tenants /\ n \in Nat
    BY <1>7, <2>1, <2>2
  <2>5. /\ m \in Run /\ m.phase = r.phase /\ m.now = n /\ m.seen = seen
        /\ m.changed = {} /\ m.left = left /\ m.force = r.force
    <3>1. /\ m.phase = r.phase /\ m.now = n /\ m.seen = seen
          /\ m.changed = {} /\ m.left = left /\ m.force = r.force
      BY <2>3 DEF Run
    <3>2. m = [phase |-> r.phase, force |-> r.force, left |-> left, now |-> n, seen |-> seen,
               cur |-> r.cur, told |-> r.told, changed |-> {}]
      BY <2>3 DEF Run
    <3>3. m \in Run
      BY <1>3, <2>4, <3>2 DEF Run
    <3> QED
      BY <3>1, <3>3
  <2> QED
    BY <2>1, <2>2, <2>5
<1>9. \A a \in Appts : m.seen[a] # NoRow => a \in found /\ m.seen[a] = rows[a].start
  BY <1>3, <1>8
<1>10. RunFits(j, m, rows)
  BY <1>1, <1>8, <1>9 DEF RunFits
<1>11. ASSUME NEW a \in Appts, Claims(j, m, a)
       PROVE  \/ j = "script" /\ Claims(j, r, a)
              \/ j # "script" /\ ~IsMarked(Kind(j), a)
  <2>1. CASE j = "script"
    <3>1. TenantOf[a] \in r.left
      BY <1>1, <1>8, <1>9, <1>11 DEF Claims
    <3> QED
      BY <2>1, <3>1 DEF Claims
  <2>2. CASE j # "script"
    <3>1. a \in found /\ ~r.force
      BY <2>2, <1>8, <1>9, <1>11 DEF Claims
    <3> QED
      BY <2>2, <3>1, <1>1 DEF IsMarked
  <2> QED
    BY <2>1, <2>2
<1> QED
  BY <1>10, <1>11

LEMMA QueryKeeps ==
  ASSUME IInv, NEW j \in Jobs, NEW t \in Tenants, Query(j, t)
  PROVE  IInv'
<1> PICK k \in Kinds : k = Kind(j)
  BY KindIsKind
<1>0. PICK r \in Opened(j) :
        /\ r.phase = "next" /\ t \in r.left
        /\ job' = [job EXCEPT ![j] =
             Rest(Asked(t, r, IF t \in served THEN Eligible(j, t, r.force) ELSE {}))]
        /\ scripts' = IF j = "script" /\ job[j].phase = "idle" THEN scripts + 1 ELSE scripts
        /\ UNCHANGED <<env, losses, delivered, lost>>
  BY Zenon DEF Query, Asked
<1> DEFINE found == IF t \in served THEN Eligible(j, t, r.force) ELSE {}
           m == Asked(t, r, found)
<1>1. /\ r \in Run /\ r.phase = "next" /\ t \in r.left /\ (r.force => j = "script")
      /\ job[j].phase = "idle" \/ r = job[j]
  BY <1>0, OpenedIsRun
<1>2. /\ RunFits(j, m, rows)
      /\ \A a \in Appts : Claims(j, m, a) =>
           \/ j = "script" /\ Claims(j, r, a)
           \/ j # "script" /\ ~IsMarked(k, a)
  BY <1>1, AskedRunFits
<1>3. job' = [job EXCEPT ![j] = Rest(m)]
  BY <1>0
<1> HIDE DEF m
<1>4. PlainTypes /\ Balanced /\ JobsFit /\ Function /\ ScriptCounted
  BY DEF IInv, Function
<1>5. rows' = rows /\ UNCHANGED <<delivered, lost>>
  BY <1>0 DEF env
<1>6. /\ PlainTypes' /\ scripts' >= scripts
      /\ j # "script" => scripts' = scripts
      /\ j = "script" /\ r # job[j] => scripts' = scripts + 1
  <2>1. scripts \in Nat /\ scripts' \in Nat /\ scripts' >= scripts
    BY <1>0, <1>4 DEF PlainTypes
  <2> QED
    BY <2>1, <1>0, <1>1, <1>4 DEF PlainTypes, env
<1>7. Function' /\ job'[j] = Rest(m) /\ \A i \in Jobs : i # j => job'[i] = job[i]
  BY <1>3, <1>4, JobUpdated
<1>8. /\ RunFits(j, Rest(m), rows)
      /\ \A a \in Appts : Claims(j, Rest(m), a) => Claims(j, m, a)
  BY <1>2, RestFits
<1>9. JobsFit'
  BY <1>4, <1>5, <1>7, <1>8, OneRunSteps
<1>10. /\ \A l \in Kinds, a \in Appts : Net(l, a)' = Net(l, a)
       /\ \A l \in Kinds, a \in Appts : IsMarked(l, a)' = IsMarked(l, a)
  BY <1>5, SameCounters DEF IsMarked
<1>11. ASSUME NEW a \in Appts
       PROVE  \/ Claim(j, job'[j], a) <= Claim(j, job[j], a)
              \/ ~IsMarked(k, a) /\ Others(j, k, a) < Most(k)'
              \/ Most(k)' = Most(k) + 1
  <2>1. CASE ~Claims(j, job'[j], a)
    BY <2>1 DEF Claim
  <2>2. CASE Claims(j, job'[j], a) /\ j = "script" /\ r = job[j]
    BY <2>2, <1>2, <1>7, <1>8 DEF Claim
  <2>3. CASE j = "script" /\ r # job[j]
    BY <2>3, <1>4, <1>6 DEF Most, ByScript, Kind, PlainTypes
  <2>4. CASE Claims(j, job'[j], a) /\ j # "script"
    <3>1. ~IsMarked(k, a)
      BY <2>4, <1>2, <1>7, <1>8
    <3>2. Others(j, k, a) < Most(k)'
      <4>1. scripts \in Nat /\ scripts' = scripts
        BY <2>4, <1>4, <1>6 DEF PlainTypes
      <4>2. CASE k # "24h"
        BY <4>1, <4>2 DEF Others, Most, ByScript
      <4>3. CASE k = "24h"
        <5>1. j = "job24"
          BY <2>4, <4>3 DEF Kind, Jobs
        <5>2. Claim("script", job["script"], a) <= scripts
          BY <4>1, <1>4 DEF ScriptCounted, Claim
        <5> QED
          BY <4>1, <4>3, <5>1, <5>2, ClaimIsBit DEF Others, Most, ByScript
      <4> QED
        BY <4>2, <4>3
    <3> QED
      BY <3>1, <3>2
  <2> QED
    BY <2>1, <2>2, <2>3, <2>4
<1>12. ASSUME NEW a \in Appts
       PROVE  Moves(j, k, a)
  BY <1>10, <1>11 DEF Moves
<1>13. Balanced'
  BY <1>4, <1>6, <1>7, <1>10, <1>12, JobStepKeepsBalance
<1>14. ScriptCounted'
  <2>1. scripts \in Nat /\ scripts' \in Nat /\ scripts' >= scripts
    BY <1>4, <1>6 DEF PlainTypes
  <2>2. CASE j # "script" \/ r = job[j]
    <3>1. \A a \in Appts : Claims("script", job'["script"], a)
                             => Claims("script", job["script"], a)
      BY <2>2, <1>2, <1>7, <1>8 DEF Jobs
    <3> QED
      BY <3>1, <2>1, <1>4 DEF ScriptCounted
  <2>3. CASE j = "script" /\ r # job[j]
    BY <2>1, <2>3, <1>6 DEF ScriptCounted
  <2> QED
    BY <2>2, <2>3
<1> QED
  BY <1>6, <1>7, <1>9, <1>13, <1>14 DEF IInv, Function
----------------------------------------------------------------------------
\* A write by somebody else is noted in the run that has the appointment.
LEMMA NotedRunFits ==
  ASSUME NEW j, NEW table, NEW table2, NEW r, RunFits(j, r, table), NEW a \in Appts,
         table2[a] # NoRow, \A b \in Appts : b # a => table2[b] = table[b],
         NEW n, n = IF Owns(r, a) THEN [r EXCEPT !.changed = @ \cup {a}] ELSE r
  PROVE  RunFits(j, n, table2) /\ \A b \in Appts : Claims(j, n, b) <=> Claims(j, r, b)
<1>0. r \in Run
  BY DEF RunFits
<1>1. CASE Owns(r, a)
  <2>1. n = [r EXCEPT !.changed = r.changed \cup {a}]
    BY <1>1
  <2>2. /\ n.phase = r.phase /\ n.now = r.now /\ n.seen = r.seen
        /\ n.cur = r.cur /\ n.told = r.told /\ n.left = r.left /\ n.force = r.force
        /\ n.changed = r.changed \cup {a}
    BY <1>0, <2>1 DEF Run
  <2>3. n \in Run
    BY <1>0, <2>1 DEF Run
  <2>4. RunFits(j, n, table2)
    BY <2>2, <2>3 DEF RunFits
  <2> QED
    BY <2>2, <2>4 DEF Claims
<1>2. CASE ~Owns(r, a)
  <2>1. n = r /\ r.seen[a] = NoRow /\ ~(r.phase = "sending" /\ r.cur = a)
    BY <1>2 DEF Owns, ToGo
  <2> QED
    BY <2>1 DEF RunFits
<1> QED
  BY <1>1, <1>2

\* A write that keeps the flags, or makes a row without any.
LEMMA WriteKeeps ==
  ASSUME IInv, NEW a \in Appts, NEW row \in Row, Write(a, row), edits' \in Nat,
         \/ rows[a] = NoRow /\ row.sent = {}
         \/ rows[a] # NoRow /\ row.sent = rows[a].sent
  PROVE  IInv'
<1>1. PlainTypes /\ Balanced /\ JobsFit
  BY DEF IInv
<1>2. /\ rows' = [rows EXCEPT ![a] = row]
      /\ UNCHANGED <<now, served, reachable, scripts, losses, delivered, lost>>
  BY DEF Write, hist
<1>3. rows'[a] = row /\ row # NoRow /\ \A b \in Appts : b # a => rows'[b] = rows[b]
  BY <1>1, <1>2, RowAssumption DEF PlainTypes
<1>4. PlainTypes'
  BY <1>1, <1>2 DEF PlainTypes
<1>5. job' = [j \in Jobs |-> IF Owns(job[j], a)
                             THEN [job[j] EXCEPT !.changed = @ \cup {a}] ELSE job[j]]
  BY DEF Write
<1>6. Function'
  BY <1>5 DEF Function
<1>7. ASSUME NEW j \in Jobs
      PROVE  /\ RunFits(j, job'[j], rows')
             /\ \A b \in Appts : Claims(j, job'[j], b) <=> Claims(j, job[j], b)
  <2>1. RunFits(j, job[j], rows)
    BY IsFit
  <2>2. job'[j] = IF Owns(job[j], a) THEN [job[j] EXCEPT !.changed = @ \cup {a}] ELSE job[j]
    BY <1>5
  <2> QED
    BY <1>3, <2>1, <2>2, NotedRunFits
<1>8. JobsFit'
  BY <1>7 DEF JobsFit, Kind
<1>9. \A k \in Kinds, b \in Appts : Net(k, b)' = Net(k, b)
  BY <1>2, SameCounters
<1>10. \A k \in Kinds, b \in Appts : IsMarked(k, b)' <=> IsMarked(k, b)
  BY <1>3 DEF IsMarked
<1>11. /\ \A k \in Kinds, b \in Appts : Open(k, b)' = Open(k, b)
       /\ \A k \in Kinds : Most(k)' = Most(k)
  BY <1>2, <1>7 DEF Open, Claim, Jobs, Most, ByScript
<1>12. Balanced'
  BY <1>1, <1>9, <1>10, <1>11 DEF Balanced, Balance
<1>13. ScriptCounted'
  BY <1>2, <1>7 DEF IInv, ScriptCounted, Jobs
<1> QED
  BY <1>4, <1>6, <1>8, <1>12, <1>13 DEF IInv, Function

LEMMA BookKeeps ==
  ASSUME IInv, NEW a \in Appts, NEW start \in Starts, Book(a, start)
  PROVE  IInv'
<1> DEFINE row == [start |-> start, status |-> "pending", sent |-> {}, last |-> "none"]
<1>1. row \in Row /\ row.sent = {}
  BY DEF Row
<1>2. rows[a] = NoRow /\ Write(a, row) /\ edits' \in Nat
  BY DEF Book, IInv, PlainTypes
<1> QED
  BY <1>1, <1>2, WriteKeeps

LEMMA CountedIsNat == ASSUME IInv, Counted PROVE edits' \in Nat
BY DEF IInv, PlainTypes, Counted

LEMMA ReplyKeeps ==
  ASSUME IInv, NEW a \in Appts, Reply(a)
  PROVE  IInv'
<1> DEFINE row == [rows[a] EXCEPT !.status = "closed", !.last = "none"]
<1>1. rows[a] # NoRow /\ rows[a] \in Row
  BY DEF Reply, Booked, IInv, PlainTypes
<1>2. row \in Row /\ row.sent = rows[a].sent
  BY <1>1 DEF Row
<1>3. Write(a, row) /\ edits' \in Nat
  BY CountedIsNat DEF Reply
<1> HIDE DEF row
<1> QED
  BY <1>1, <1>2, <1>3, WriteKeeps

LEMMA EditKeeps ==
  ASSUME IInv, NEW a \in Appts, NEW start, NEW status \in {"pending", "closed"},
         start \in Starts, Edit(a, start, status)
  PROVE  IInv'
<1> DEFINE row == [rows[a] EXCEPT !.start = start, !.status = status]
<1>1. rows[a] # NoRow /\ rows[a] \in Row
  BY DEF Edit, Booked, IInv, PlainTypes
<1>2. row \in Row /\ row.sent = rows[a].sent
  BY <1>1 DEF Row
<1>3. Write(a, row) /\ edits' \in Nat
  BY CountedIsNat DEF Edit
<1> HIDE DEF row
<1> QED
  BY <1>1, <1>2, <1>3, WriteKeeps

\* The tables of the runs, the marks and the counters stay.
LEMMA ApartKeeps ==
  ASSUME IInv, UNCHANGED <<rows, job, scripts, delivered, lost>>, PlainTypes'
  PROVE  IInv'
<1>1. JobsFit'
  BY DEF IInv, JobsFit, Kind
<1>2. Balanced'
  BY DEF IInv, Balanced, Balance, Net, Open, IsMarked, Most, ByScript
<1>3. ScriptCounted'
  BY DEF IInv, ScriptCounted
<1> QED
  BY <1>1, <1>2, <1>3 DEF IInv

LEMMA InitHolds == Init => IInv
<1> SUFFICES ASSUME Init PROVE IInv
  OBVIOUS
<1>1. PlainTypes
  BY RemindersAssumption DEF Init, PlainTypes
<1>2. \A j \in Jobs : job[j] = NoRun
  BY DEF Init
<1>3. JobsFit
  BY <1>2, NoRunFits DEF JobsFit
<1>4. \A k \in Kinds, a \in Appts : Net(k, a) = 0 /\ Open(k, a) = 0 /\ Most(k) = 1
  BY <1>2, NoRunClaims DEF Init, Net, Open, Claim, Jobs, Most, ByScript
<1>5. Balanced /\ ScriptCounted
  BY <1>2, <1>4, NoRunClaims DEF Balanced, Balance, ScriptCounted, Jobs
<1>6. DOMAIN job = Jobs /\ job = [j \in Jobs |-> job[j]]
  BY DEF Init
<1> QED
  BY <1>1, <1>3, <1>5, <1>6 DEF IInv

LEMMA NextKeeps == IInv /\ [Next]_vars => IInv'
<1> SUFFICES ASSUME IInv, [Next]_vars PROVE IInv'
  OBVIOUS
<1>1. ASSUME NEW j \in Jobs, Step(j) PROVE IInv'
  <2>1. CASE \E t \in Tenants : Query(j, t)
    BY <2>1, QueryKeeps
  <2>2. ASSUME NEW a \in Appts, Abort(j, a) \/ Skip(j, a) \/ Address(j, a)
        PROVE  IInv'
    BY <2>2, AbortKeeps, SkipKeeps, AddressKeeps
  <2>3. CASE Mark(j)
    BY <2>3, MarkKeeps
  <2> QED
    BY <1>1, <2>1, <2>2, <2>3 DEF Step
<1>2. CASE Failure
  <2>1. PICK j \in Jobs : Refuse(j) \/ Crash(j) \/ LoseMark(j, TRUE) \/ LoseMark(j, FALSE)
    BY <1>2 DEF Failure
  <2> QED
    BY <2>1, RefuseKeeps, CrashKeeps, LoseMarkKeeps
<1>3. CASE Environment
  <2>1. ASSUME NEW a \in Appts, NEW s \in Starts, Book(a, s) \/ Edit(a, s, "pending")
        PROVE  IInv'
    BY <2>1, BookKeeps, EditKeeps
  <2>2. ASSUME NEW a \in Booked, Edit(a, rows[a].start, "closed")
        PROVE  IInv'
    <3>1. a \in Appts /\ rows[a].start \in Starts
      BY DEF Booked, IInv, PlainTypes, Row
    <3>2. PICK s : s = rows[a].start
      OBVIOUS
    <3>3. Edit(a, s, "closed")
      BY <2>2, <3>2
    <3> QED
      BY <3>1, <3>2, <3>3, EditKeeps
  <2>3. ASSUME NEW a \in Appts, Reply(a) PROVE IInv'
    BY <2>3, ReplyKeeps
  <2>4. ASSUME NEW a \in Appts, OptOut(a) PROVE IInv'
    <3>1. PlainTypes'
      BY <2>4, CountedIsNat DEF OptOut, IInv, PlainTypes, hist
    <3> QED
      BY <2>4, <3>1, ApartKeeps DEF OptOut, hist
  <2>5. ASSUME NEW t \in Tenants, SetServed(t) PROVE IInv'
    <3>1. PlainTypes'
      BY <2>5, CountedIsNat DEF SetServed, IInv, PlainTypes, hist
    <3> QED
      BY <2>5, <3>1, ApartKeeps DEF SetServed, hist
  <2>6. CASE Tick
    <3>1. PlainTypes'
      BY <2>6 DEF Tick, IInv, PlainTypes, hist
    <3> QED
      BY <2>6, <3>1, ApartKeeps DEF Tick, hist
  <2> QED
    BY <1>3, <2>1, <2>2, <2>3, <2>4, <2>5, <2>6 DEF Environment
<1>4. CASE UNCHANGED vars
  <2>1. PlainTypes'
    BY <1>4 DEF vars, env, hist, IInv, PlainTypes
  <2> QED
    BY <1>4, <2>1, ApartKeeps DEF vars, env, hist
<1> QED
  BY <1>1, <1>2, <1>3, <1>4 DEF Next

LEMMA AlwaysIInv == Spec => []IInv
BY InitHolds, NextKeeps, PTL DEF Spec
----------------------------------------------------------------------------
\* Every row, run and counter has its type; what a run has yet to take up, or
\* is sending, is an appointment of the table.
THEOREM TypesAreKept == Spec => []TypeOK
<1>1. IInv => TypeOK
  <2> SUFFICES ASSUME IInv PROVE TypeOK
    OBVIOUS
  <2>1. job \in [Jobs -> Run]
    BY IsFit DEF IInv
  <2>2. \A j \in Jobs : job[j].phase = "sending"
                          => job[j].cur \in Booked /\ job[j].told \in Starts
    BY IsFit DEF RunFits, Booked
  <2>3. \A j \in Jobs : ToGo(job[j]) \subseteq Booked
    BY IsFit DEF RunFits, Booked, ToGo
  <2> QED
    BY <2>1, <2>2, <2>3 DEF TypeOK, IInv, PlainTypes
<1> QED
  BY AlwaysIInv, <1>1, PTL

\* However many runs, failures and edits there are, an appointment gets one
\* reminder of a kind and one more for each mark that was lost and, of the
\* 24 h kind, each run of the script (ReminderScheduler, reminder_24h_sent,
\* reminder_2h_sent, send_tomorrow_reminders).
THEOREM RemindersAreBalanced == Spec => []RemindersAreAccounted
<1>1. IInv => RemindersAreAccounted
  <2> SUFFICES ASSUME IInv, NEW k \in Kinds, NEW a \in Appts
               PROVE  delivered[k][a] <= 1 + lost[k][a] + ByScript(k)
    BY DEF RemindersAreAccounted
  <2>1. Net(k, a) + Open(k, a) <= Most(k)
    BY DEF IInv, Balanced, Balance
  <2>2. Open(k, a) \in Nat
    BY ClaimIsBit DEF Open
  <2>3. /\ delivered[k][a] \in Nat /\ lost[k][a] \in Nat
        /\ Net(k, a) \in Int /\ Most(k) \in Nat /\ ByScript(k) \in Nat
    BY NetIsInt DEF IInv, PlainTypes, ByScript
  <2>4. Net(k, a) <= Most(k)
    BY <2>1, <2>2, <2>3
  <2> QED
    BY <2>3, <2>4 DEF Net, Most
<1> QED
  BY AlwaysIInv, <1>1, PTL

\* A reminder that is being sent names a pending appointment, its time and
\* its day rightly, unless it was written after the run's query.
THEOREM OnlyRacesDo == Spec => []OnlyRacesMislead
<1>1. IInv => OnlyRacesMislead
  BY IsFit DEF OnlyRacesMislead, RunFits
<1> QED
  BY AlwaysIInv, <1>1, PTL

=============================================================================
