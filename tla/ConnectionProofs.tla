-------------------------- MODULE ConnectionProofs --------------------------
(***************************************************************************)
(* What the connection run checks, for any number of requests, keys and    *)
(* failures.  The inductive invariant says what a handler knows of the     *)
(* instance and of the keys (Knows), that one handler at a time is between *)
(* its commits (OneRuns), and that only such a handler, or a torn one,     *)
(* leaves the session row apart from the instance (Settled).               *)
(***************************************************************************)
EXTENDS Connection, SequenceTheorems, TLAPS

Free(q) == q.phase \in {"call", "answered"}

\* Unless the instance changed under it, what a handler holds of it is true; a
\* key it tries instead of the loaded one stands in for one that was denied, or
\* whose error was misread.
Knows(q, inst, denied) ==
  /\ q.tries # <<>>
  /\ q.apikey # NoKey \/ Platform # NoKey
  /\ ~q.stale =>
       /\ q.instance = inst
       /\ q.op = "status" \/ (q.op = "create" /\ q.phase = "session") => inst
  /\ q.phase \in {"call", "answered", "key"} =>
       Head(q.tries) = q.apikey \/ q.apikey \in denied \cup {NoKey} \/ q.misread = TRUE
  /\ q.phase = "answered" /\ q.answer = "denied" =>
       Head(q.tries) \in denied \/ q.misread = TRUE
  /\ q.phase = "instance" => q.op \in {"create", "logout"}
  /\ q.phase = "session" => q.op # "sync"

HandlersKnow == \A r \in InFlight : Knows(req[r], instance, revoked)

OneRuns == \A r, s \in InFlight : Free(req[r]) \/ Free(req[s]) \/ r = s

\* There is a key to use for the handlers that come or load the business again.
KeyAtHand == InFlight # {} => apikey # NoKey \/ Platform # NoKey

\* Between its two commits a creation or a logout has changed the instance and
\* not yet the session.
Between(r) == At(r, "session") /\ req[r].op \in {"create", "logout"}

Fits == IF instance THEN session # NoRow ELSE session \notin {"connected", "connecting"}

Settled == torn \/ Fits \/ \E r \in Requests : Between(r)

IInv == TypeOK /\ HandlersKnow /\ OneRuns /\ KeyAtHand /\ Settled
----------------------------------------------------------------------------
LEMMA CandidatesAreKeys ==
  ASSUME NEW k \in Keys \cup {NoKey}, k # NoKey \/ Platform # NoKey
  PROVE  /\ Candidates(k) \in Seq(Keys)
         /\ Candidates(k) # <<>>
         /\ k # NoKey => Head(Candidates(k)) = k
<1>1. CASE k = Platform
  <2>1. Candidates(k) = <<k>> /\ k \in Keys
    BY <1>1 DEF Candidates, Known
  <2> QED
    BY <2>1
<1>2. CASE k # Platform /\ k = NoKey
  <2>1. Candidates(k) = <<>> \o <<Platform>> /\ Platform \in Keys
    BY <1>2 DEF Candidates, Known, Keys
  <2> QED
    BY <2>1, <1>2
<1>3. CASE k # Platform /\ k # NoKey /\ Platform = NoKey
  <2>1. Candidates(k) = <<k>> \o <<>> /\ k \in Keys
    BY <1>3 DEF Candidates, Known
  <2> QED
    BY <2>1
<1>4. CASE k # Platform /\ k # NoKey /\ Platform # NoKey
  <2>1. Candidates(k) = <<k>> \o <<Platform>> /\ k \in Keys /\ Platform \in Keys
    BY <1>4 DEF Candidates, Known, Keys
  <2> DEFINE s == <<k>>
             t == <<Platform>>
  <2>2. s \in Seq(Keys) /\ t \in Seq(Keys) /\ Len(s) = 1 /\ Len(t) = 1 /\ s[1] = k
    BY <2>1
  <2> HIDE DEF s, t
  <2>3. s \o t \in Seq(Keys) /\ Len(s \o t) = 2 /\ (s \o t)[1] = k
    BY <2>2, ConcatProperties
  <2>4. s \o t # <<>> /\ Head(s \o t) = k
    BY <2>3
  <2> QED
    BY <2>1, <2>3, <2>4 DEF s, t
<1> QED
  BY <1>1, <1>2, <1>3, <1>4

\* What follows a call that worked knows what the call knew.
LEMMA FollowingKnows ==
  ASSUME NEW q \in Request, NEW inst, NEW denied, Knows(q, inst, denied),
         Following(q) # Done
  PROVE  /\ Following(q) \in Request
         /\ Knows(Following(q), inst, denied)
         /\ Following(q).op = q.op
         /\ Following(q).phase \in {"call", "instance", "session"}
         /\ Following(q).phase = "session" => q.op \in {"status", "qr"}
<1> DEFINE e == Following(q)
           c == Candidates(q.apikey)
<1>1. q.apikey \in Keys \cup {NoKey} /\ (q.apikey # NoKey \/ Platform # NoKey)
  BY DEF Request, Knows
<1>2. c \in Seq(Keys) /\ c # <<>> /\ (q.apikey # NoKey => Head(c) = q.apikey)
  BY <1>1, CandidatesAreKeys
<1>3. \/ e = [q EXCEPT !.phase = "session"] /\ q.op \in {"status", "qr"}
      \/ e = [q EXCEPT !.phase = "instance"] /\ q.op \in {"create", "logout"}
      \/ e = [q EXCEPT !.phase = "call", !.hooking = TRUE, !.tries = c, !.misread = FALSE]
  BY DEF Following, ThenHook
<1> HIDE DEF e, c
<1>4. CASE e = [q EXCEPT !.phase = "session"] /\ q.op \in {"status", "qr"}
  BY <1>4 DEF Request, Knows, e
<1>5. CASE e = [q EXCEPT !.phase = "instance"] /\ q.op \in {"create", "logout"}
  BY <1>5 DEF Request, Knows, e
<1>6. CASE e = [q EXCEPT !.phase = "call", !.hooking = TRUE, !.tries = c, !.misread = FALSE]
  <2>1. /\ e \in Request
        /\ e.op = q.op /\ e.phase = "call" /\ e.tries = c /\ e.apikey = q.apikey
        /\ e.stale = q.stale /\ e.instance = q.instance
    BY <1>2, <1>6 DEF Request
  <2>2. Knows(e, inst, denied)
    BY <2>1, <1>2 DEF Knows
  <2> QED
    BY <2>1, <2>2 DEF e
<1> QED
  BY <1>3, <1>4, <1>5, <1>6

----------------------------------------------------------------------------
LEMMA KnowsMore ==
  ASSUME NEW q, NEW inst, NEW d, NEW e, d \subseteq e, Knows(q, inst, d)
  PROVE  Knows(q, inst, e)
BY DEF Knows

\* One handler takes a step to n and leaves the instance alone.
LEMMA StepKeepsHandlers ==
  ASSUME IInv, NEW r \in Requests, NEW n \in Request \cup {Done},
         req' = [req EXCEPT ![r] = n], instance' = instance,
         revoked \subseteq revoked',
         n \in Request =>
           /\ Knows(n, instance, revoked')
           /\ apikey' # NoKey \/ Platform # NoKey
           /\ Free(n) \/ LoopIsFree \/ (~ Free(req[r]) /\ r \in InFlight),
         apikey # NoKey => apikey' # NoKey
  PROVE  /\ req' \in [Requests -> Request \cup {NotYet, Done}]
         /\ InFlight' \subseteq InFlight \cup {r}
         /\ r \in InFlight' <=> n \in Request
         /\ \A s \in Requests : s # r => req'[s] = req[s] /\ (s \in InFlight' <=> s \in InFlight)
         /\ req'[r] = n
         /\ HandlersKnow' /\ OneRuns' /\ KeyAtHand'
<1> USE ValuesAssumption
<1>0. /\ TypeOK /\ HandlersKnow /\ OneRuns /\ KeyAtHand
      /\ req \in [Requests -> Request \cup {NotYet, Done}]
  BY DEF IInv, TypeOK
<1>1. req' \in [Requests -> Request \cup {NotYet, Done}]
  BY <1>0
<1>2. req'[r] = n /\ \A s \in Requests : s # r => req'[s] = req[s]
  BY <1>0
<1>3. r \in InFlight' <=> n \in Request
  BY <1>2 DEF InFlight
<1>4. \A s \in Requests : s # r => (s \in InFlight' <=> s \in InFlight)
  BY <1>2 DEF InFlight
<1>5. InFlight' \subseteq InFlight \cup {r}
  BY <1>4 DEF InFlight
<1>6. HandlersKnow'
  <2>1. ASSUME NEW s \in InFlight' PROVE Knows(req'[s], instance, revoked')
    <3>1. CASE s = r
      BY <3>1, <1>2, <1>3
    <3>2. CASE s # r
      <4>1. Knows(req'[s], instance, revoked)
        BY <3>2, <1>2, <1>4, <1>0 DEF HandlersKnow, InFlight
      <4> QED
        BY <4>1, KnowsMore
    <3> QED
      BY <3>1, <3>2
  <2> QED
    BY <2>1 DEF HandlersKnow
<1>7. OneRuns'
  <2>1. ASSUME NEW s \in InFlight', NEW t \in InFlight'
        PROVE  Free(req'[s]) \/ Free(req'[t]) \/ s = t
    <3>1. CASE s # r /\ t # r
      BY <3>1, <1>0, <1>2, <1>4 DEF OneRuns, InFlight
    <3>2. CASE s = r /\ t # r
      <4>1. t \in InFlight /\ req'[t] = req[t] /\ req'[s] = n /\ n \in Request
        BY <3>2, <1>2, <1>3, <1>4 DEF InFlight
      <4> QED
        BY <4>1, <3>2, <1>0 DEF OneRuns, LoopIsFree, Free
    <3>3. CASE s # r /\ t = r
      <4>1. s \in InFlight /\ req'[s] = req[s] /\ req'[t] = n /\ n \in Request
        BY <3>3, <1>2, <1>3, <1>4 DEF InFlight
      <4> QED
        BY <4>1, <3>3, <1>0 DEF OneRuns, LoopIsFree, Free
    <3> QED
      BY <3>1, <3>2, <3>3
  <2> QED
    BY <2>1 DEF OneRuns
<1>8. KeyAtHand'
  BY <1>0, <1>3, <1>5 DEF KeyAtHand
<1> QED
  BY <1>1, <1>2, <1>3, <1>4, <1>5, <1>6, <1>7, <1>8

\* If it also leaves the session alone and does not come from between two
\* commits, the two stay as they were.
LEMMA StepKeepsSettled ==
  ASSUME IInv, NEW r \in Requests,
         \A s \in Requests : s # r => req'[s] = req[s] /\ (s \in InFlight' <=> s \in InFlight),
         Between(r) => Between(r)' \/ torn',
         instance' = instance, session' = session, torn => torn'
  PROVE  Settled'
<1>1. CASE torn \/ Fits
  BY <1>1 DEF Settled, Fits
<1>2. ASSUME NEW s \in Requests, Between(s) PROVE Settled'
  <2>1. CASE s = r
    BY <2>1, <1>2 DEF Settled
  <2>2. CASE s # r
    <3>1. Between(s)'
      BY <2>2, <1>2 DEF Between, At
    <3> QED
      BY <3>1 DEF Settled
  <2> QED
    BY <2>1, <2>2
<1> QED
  BY <1>1, <1>2 DEF IInv, Settled

\* The steps that touch no request.
LEMMA OthersKeep ==
  ASSUME IInv, UNCHANGED <<instance, session, req>>, torn' = torn,
         revoked \subseteq revoked', apikey # NoKey => apikey' # NoKey, TypeOK'
  PROVE  IInv'
<1>0. /\ HandlersKnow /\ OneRuns /\ KeyAtHand /\ Settled
  BY DEF IInv
<1>1. InFlight' = InFlight /\ req' = req
  BY DEF InFlight
<1>2. HandlersKnow'
  <2>1. ASSUME NEW r \in InFlight PROVE Knows(req[r], instance, revoked')
    BY <1>0 DEF HandlersKnow, Knows
  <2> QED
    BY <2>1, <1>1 DEF HandlersKnow
<1>3. OneRuns' /\ KeyAtHand' /\ Settled'
  BY <1>0, <1>1 DEF OneRuns, KeyAtHand, Settled, Fits, Between, At
<1> QED
  BY <1>2, <1>3 DEF IInv
----------------------------------------------------------------------------
LEMMA BeginKeeps ==
  ASSUME IInv, NEW r \in Requests, NEW op \in Ops, Begin(r, op)
  PROVE  IInv'
<1> USE ValuesAssumption
<1> DEFINE c == Candidates(apikey)
           n == [op |-> op, phase |-> "call", hooking |-> op = "sync", instance |-> instance,
                 apikey |-> apikey, tries |-> c, answer |-> "none",
                 state |-> "absent", stale |-> FALSE, misread |-> FALSE]
<1>1. /\ LoopIsFree /\ req[r] = NotYet /\ ~Refused(op) /\ c # <<>>
      /\ req' = [req EXCEPT ![r] = n]
      /\ UNCHANGED <<instance, apikey, session, remote, hook, revoked, patches, failures, torn>>
  BY DEF Begin, tenant, provider
<1>2. apikey \in Keys \cup {NoKey} /\ instance \in BOOLEAN
  BY DEF IInv, TypeOK
<1>3. apikey # NoKey \/ Platform # NoKey
  BY <1>1 DEF Candidates, Known
<1>4. c \in Seq(Keys) /\ (apikey # NoKey => Head(c) = apikey)
  BY <1>2, <1>3, CandidatesAreKeys
<1>5. op = "status" => instance
  BY <1>1 DEF Refused
<1>6. (op = "sync") \in BOOLEAN
  BY Zenon
<1> HIDE DEF c
<1>7. n \in Request
  BY <1>2, <1>4, <1>6 DEF Request, Remotes
<1>8. Knows(n, instance, revoked)
  BY <1>1, <1>3, <1>4, <1>5 DEF Knows
<1>9. Free(n) /\ n.tries # <<>>
  BY <1>1 DEF Free
<1> HIDE DEF n
<1>10. /\ req' \in [Requests -> Request \cup {NotYet, Done}]
       /\ InFlight' \subseteq InFlight \cup {r}
       /\ \A s \in Requests : s # r => req'[s] = req[s] /\ (s \in InFlight' <=> s \in InFlight)
       /\ req'[r] = n
       /\ HandlersKnow' /\ OneRuns' /\ KeyAtHand'
  <2>1. /\ n \in Request \cup {Done} /\ revoked \subseteq revoked' /\ instance' = instance
        /\ Knows(n, instance, revoked') /\ (apikey' # NoKey \/ Platform # NoKey)
        /\ (apikey # NoKey => apikey' # NoKey)
    BY <1>1, <1>3, <1>7, <1>8
  <2> QED
    BY <1>1, <1>7, <1>9, <2>1, StepKeepsHandlers
<1>11. Settled'
  <2>1. ~ Between(r)
    BY <1>1 DEF Between, At, InFlight
  <2> QED
    BY <1>1, <1>10, <2>1, StepKeepsSettled
<1>12. TypeOK'
  <2>1. \A s \in InFlight' : req'[s].tries # <<>>
    BY <1>10 DEF HandlersKnow, Knows
  <2> QED
    BY <1>1, <1>10, <2>1 DEF IInv, TypeOK
<1> QED
  BY <1>10, <1>11, <1>12 DEF IInv

\* The provider's answer, whatever it is: Deny, Serve, Refuse and FailCall.
LEMMA AnswerKeeps ==
  ASSUME IInv, NEW r \in Requests, At(r, "call"), NEW misread \in BOOLEAN,
         NEW answer \in {"ok", "denied", "failed"}, Answered(r, answer, misread),
         answer = "denied" => Denied(r) \/ misread,
         remote' \in Remotes, hook' \in BOOLEAN, failures' \in Nat,
         UNCHANGED <<instance, apikey, session, revoked, patches, torn>>
  PROVE  IInv'
<1> USE ValuesAssumption
<1> DEFINE q  == req[r]
           st == Told(q, answer)
           ms == q.misread \/ misread
           n  == [q EXCEPT !.phase = "answered", !.answer = answer, !.state = st,
                           !.misread = ms]
<1>1. /\ r \in InFlight /\ q.phase = "call" /\ q \in Request
      /\ Knows(q, instance, revoked) /\ remote \in Remotes
  BY DEF At, IInv, TypeOK, HandlersKnow, InFlight
<1>2. req' = [req EXCEPT ![r] = n]
  BY DEF Answered
<1>3. st \in Remotes
  BY <1>1 DEF Request, Told
<1>3a. ms \in BOOLEAN
  BY Zenon
<1>3b. (q.misread = TRUE => ms = TRUE) /\ (misread => ms = TRUE)
  BY <1>3a
<1>3c. answer = "denied" => Head(q.tries) \in revoked \/ ms = TRUE
  BY <1>3b DEF Denied
<1> HIDE DEF q, st, ms
<1>4. /\ n \in Request /\ n.phase = "answered" /\ n.answer = answer /\ n.op = q.op
      /\ n.tries = q.tries /\ n.apikey = q.apikey /\ n.stale = q.stale
      /\ n.instance = q.instance /\ n.misread = ms
  BY <1>1, <1>3, <1>3a DEF Request
<1>5. Knows(n, instance, revoked)
  BY <1>1, <1>3b, <1>3c, <1>4 DEF Knows
<1>6. Free(n) /\ (apikey # NoKey \/ Platform # NoKey)
  BY <1>1, <1>4 DEF Free, IInv, KeyAtHand
<1> HIDE DEF n
<1>10. /\ req' \in [Requests -> Request \cup {NotYet, Done}]
       /\ \A s \in Requests : s # r => req'[s] = req[s] /\ (s \in InFlight' <=> s \in InFlight)
       /\ HandlersKnow' /\ OneRuns' /\ KeyAtHand'
  <2>1. /\ n \in Request \cup {Done} /\ revoked \subseteq revoked' /\ instance' = instance
        /\ Knows(n, instance, revoked') /\ (apikey' # NoKey \/ Platform # NoKey)
        /\ (apikey # NoKey => apikey' # NoKey)
    BY <1>4, <1>5, <1>6
  <2> QED
    BY <1>2, <1>4, <1>6, <2>1, StepKeepsHandlers
<1>11. Settled'
  <2>1. ~ Between(r)
    BY <1>1 DEF Between, At, q
  <2> QED
    BY <1>10, <2>1, StepKeepsSettled
<1>12. TypeOK'
  <2>1. \A s \in InFlight' : req'[s].tries # <<>>
    BY <1>10 DEF HandlersKnow, Knows
  <2> QED
    BY <1>10, <2>1 DEF IInv, TypeOK
<1> QED
  BY <1>10, <1>11, <1>12 DEF IInv

\* A step of r alone that leaves instance, session, provider and torn alone:
\* what remains of Resume and CommitKey once n is known to be right.
LEMMA QuietStepKeeps ==
  ASSUME IInv, NEW r \in InFlight, NEW n \in Request \cup {Done},
         req' = [req EXCEPT ![r] = n],
         n \in Request => Knows(n, instance, revoked),
         LoopIsFree \/ ~ Free(req[r]), ~ Between(r),
         apikey' \in Keys \cup {NoKey}, apikey # NoKey => apikey' # NoKey,
         UNCHANGED <<instance, session, remote, hook, revoked, patches, failures, torn>>
  PROVE  IInv'
<1> USE ValuesAssumption
<1>0. r \in Requests /\ (apikey # NoKey \/ Platform # NoKey)
  BY DEF InFlight, IInv, KeyAtHand
<1>1. /\ revoked \subseteq revoked' /\ instance' = instance
      /\ apikey' # NoKey \/ Platform # NoKey
      /\ n \in Request => Knows(n, instance, revoked')
  BY <1>0
<1>2. /\ req' \in [Requests -> Request \cup {NotYet, Done}]
      /\ \A s \in Requests : s # r => req'[s] = req[s] /\ (s \in InFlight' <=> s \in InFlight)
      /\ HandlersKnow' /\ OneRuns' /\ KeyAtHand'
  BY <1>0, <1>1, StepKeepsHandlers
<1>3. Settled'
  BY <1>0, <1>2, StepKeepsSettled
<1>4. \A s \in InFlight' : req'[s].tries # <<>>
  BY <1>2 DEF HandlersKnow, Knows
<1>5. TypeOK'
  BY <1>2, <1>4 DEF IInv, TypeOK
<1> QED
  BY <1>2, <1>3, <1>5 DEF IInv

LEMMA ResumeKeeps ==
  ASSUME IInv, NEW r \in Requests, Resume(r)
  PROVE  IInv'
<1> DEFINE q == req[r]
           n == IF q.answer = "denied" /\ Len(q.tries) > 1
                THEN [q EXCEPT !.phase = "call", !.tries = Tail(@)]
                ELSE IF q.answer # "ok" THEN GivenUp(q)
                ELSE IF q.apikey # Head(q.tries) THEN [q EXCEPT !.phase = "key"]
                ELSE Following(q)
<1>1. /\ LoopIsFree /\ r \in InFlight /\ q.phase = "answered" /\ q \in Request
      /\ Knows(q, instance, revoked)
      /\ req' = [req EXCEPT ![r] = n]
      /\ UNCHANGED <<instance, apikey, session, remote, hook, revoked, patches, failures, torn>>
  BY DEF Resume, At, IInv, TypeOK, HandlersKnow, InFlight, tenant, provider
<1>2. n \in Request \cup {Done} /\ (n \in Request => Knows(n, instance, revoked))
  <2>1. CASE q.answer = "denied" /\ Len(q.tries) > 1
    <3> DEFINE t == Tail(q.tries)
    <3>1. q.tries \in Seq(Keys)
      BY <1>1 DEF Request
    <3>2. t \in Seq(Keys) /\ t # <<>>
      <4> DEFINE a == Len(t)
                 b == Len(q.tries)
      <4>1. t \in Seq(Keys) /\ a = b - 1 /\ b \in Nat
        BY <3>1, <2>1
      <4>2. b > 1
        BY <2>1
      <4> HIDE DEF a, b, t, q
      <4>4. a # 0
        BY <4>1, <4>2
      <4>3. t # <<>>
        BY <4>4 DEF a
      <4> QED
        BY <4>1, <4>3
    <3>3. q.apikey \in revoked \cup {NoKey} \/ q.misread = TRUE
      BY <1>1, <2>1 DEF Knows
    <3>4. n = [q EXCEPT !.phase = "call", !.tries = t]
      BY <2>1
    <3> HIDE DEF q, t, n
    <3>5. /\ n \in Request /\ n.phase = "call" /\ n.tries = t /\ n.apikey = q.apikey
          /\ n.stale = q.stale /\ n.instance = q.instance /\ n.op = q.op
          /\ n.misread = q.misread
      BY <1>1, <3>2, <3>4 DEF Request
    <3>6. Knows(n, instance, revoked)
      BY <1>1, <3>2, <3>3, <3>5 DEF Knows
    <3> QED
      BY <3>5, <3>6
  <2>2. CASE ~ (q.answer = "denied" /\ Len(q.tries) > 1) /\ q.answer = "ok"
             /\ q.apikey # Head(q.tries)
    <3>1. n = [q EXCEPT !.phase = "key"]
      BY <2>2
    <3> HIDE DEF q, n
    <3>2. n \in Request /\ Knows(n, instance, revoked)
      BY <1>1, <3>1 DEF Request, Knows
    <3> QED
      BY <3>2
  <2>3. CASE n = Following(q) \/ n = Done
    <3> HIDE DEF q, n
    <3>1. CASE n = Done
      BY <3>1, ValuesAssumption
    <3>2. CASE n = Following(q) /\ n # Done
      BY <1>1, <3>2, FollowingKnows
    <3> QED
      BY <2>3, <3>1, <3>2
  <2>4. \/ q.answer = "denied" /\ Len(q.tries) > 1
        \/ ~ (q.answer = "denied" /\ Len(q.tries) > 1) /\ q.answer = "ok"
           /\ q.apikey # Head(q.tries)
        \/ n = Following(q) \/ n = Done
    BY DEF GivenUp
  <2> QED
    BY <2>1, <2>2, <2>3, <2>4
<1>3. ~ Between(r)
  BY <1>1 DEF Between, At
<1>4. apikey' \in Keys \cup {NoKey} /\ (apikey # NoKey => apikey' # NoKey)
  BY <1>1 DEF IInv, TypeOK
<1> HIDE DEF n, q
<1> QED
  BY <1>1, <1>2, <1>3, <1>4, QuietStepKeeps

LEMMA CommitKeyKeeps ==
  ASSUME IInv, NEW r \in Requests, CommitKey(r)
  PROVE  IInv'
<1> DEFINE q   == req[r]
           key == Head(q.tries)
           p   == [q EXCEPT !.apikey = key, !.instance = instance]
           n   == Following(p)
<1>1. /\ r \in InFlight /\ q.phase = "key" /\ q \in Request
      /\ Knows(q, instance, revoked) /\ instance \in BOOLEAN
      /\ apikey' = key
      /\ req' = [req EXCEPT ![r] = n]
      /\ UNCHANGED <<instance, session, remote, hook, revoked, patches, failures, torn>>
  BY DEF CommitKey, At, IInv, TypeOK, HandlersKnow, InFlight, provider
<1>2. key \in Keys /\ key # NoKey
  <2>1. q.tries \in Seq(Keys) /\ q.tries # <<>>
    BY <1>1 DEF Request, Knows
  <2> QED
    BY <2>1 DEF Keys
<1>3. p \in Request /\ Knows(p, instance, revoked)
  <2> HIDE DEF q, key
  <2>1. /\ p \in Request /\ p.apikey = key /\ p.instance = instance /\ p.phase = "key"
        /\ p.tries = q.tries /\ p.stale = q.stale /\ p.op = q.op
    BY <1>1, <1>2 DEF Request
  <2> HIDE DEF p
  <2> QED
    BY <2>1, <1>1, <1>2 DEF Knows, key
<1>4. n \in Request \cup {Done} /\ (n \in Request => Knows(n, instance, revoked))
  <2> HIDE DEF p
  <2>1. CASE n = Done
    BY <2>1, ValuesAssumption
  <2>2. CASE n # Done
    BY <2>2, <1>3, FollowingKnows
  <2> QED
    BY <2>1, <2>2
<1>5. ~ Between(r) /\ ~ Free(req[r])
  BY <1>1 DEF Between, At, Free
<1>6. apikey' \in Keys \cup {NoKey} /\ (apikey # NoKey => apikey' # NoKey)
  BY <1>1, <1>2
<1> HIDE DEF n, q, key
<1> QED
  BY <1>1, <1>4, <1>5, <1>6, QuietStepKeeps

LEMMA CommitInstanceKeeps ==
  ASSUME IInv, NEW r \in Requests, CommitInstance(r)
  PROVE  IInv'
<1> USE ValuesAssumption
<1> DEFINE q      == req[r]
           name   == q.op = "create"
           writes == q.instance # name
           n      == [q EXCEPT !.phase = "session", !.stale = @ /\ ~writes,
                               !.instance = instance', !.apikey = apikey]
<1>1. /\ r \in InFlight /\ q.phase = "instance" /\ q \in Request
      /\ Knows(q, instance, revoked) /\ instance \in BOOLEAN
      /\ instance' = IF writes THEN name ELSE instance
      /\ req' = [s \in Requests |->
           IF s = r THEN n
           ELSE IF s \in InFlight /\ instance' # instance
           THEN [req[s] EXCEPT !.stale = TRUE] ELSE req[s]]
      /\ UNCHANGED <<apikey, session, remote, hook, revoked, patches, failures, torn>>
  BY DEF CommitInstance, At, IInv, TypeOK, HandlersKnow, InFlight, provider
<1>2. apikey \in Keys \cup {NoKey} /\ (apikey # NoKey \/ Platform # NoKey)
  BY <1>1 DEF IInv, TypeOK, KeyAtHand
<1>3. q.op \in {"create", "logout"}
  BY <1>1 DEF Knows
<1>4. instance' \in BOOLEAN
  BY <1>1
<1>5. n \in Request /\ Knows(n, instance', revoked) /\ n.phase = "session" /\ n.op = q.op
  <2> DEFINE st == q.stale /\ ~writes
  <2>1. st \in BOOLEAN
    BY Zenon
  <2>2. n = [q EXCEPT !.phase = "session", !.stale = st, !.instance = instance', !.apikey = apikey]
    OBVIOUS
  <2>3. ~st => (q.op = "create" => instance')
    BY <1>1, <1>3 DEF Knows, Request
  <2> HIDE DEF st, q, n
  <2>4. /\ n \in Request /\ n.phase = "session" /\ n.stale = st /\ n.instance = instance'
        /\ n.apikey = apikey /\ n.op = q.op /\ n.tries = q.tries
    BY <1>1, <1>2, <1>4, <2>1, <2>2 DEF Request
  <2>5. Knows(n, instance', revoked)
    BY <1>1, <1>2, <1>3, <2>3, <2>4 DEF Knows
  <2> QED
    BY <2>4, <2>5
<1> HIDE DEF n
<1>6. req'[r] = n /\ r \in InFlight'
  BY <1>1, <1>5 DEF InFlight
<1>7. ASSUME NEW s \in Requests, s # r
      PROVE  /\ s \in InFlight' <=> s \in InFlight
             /\ s \in InFlight =>
                  /\ req'[s] \in Request /\ req'[s].phase = req[s].phase
                  /\ Knows(req'[s], instance', revoked)
             /\ s \notin InFlight => req'[s] = req[s]
  <2>1. CASE s \in InFlight /\ instance' # instance
    <3> DEFINE t == req[s]
    <3>1. t \in Request /\ Knows(t, instance, revoked)
      BY <2>1 DEF IInv, TypeOK, InFlight, HandlersKnow
    <3>2. req'[s] = [t EXCEPT !.stale = TRUE]
      BY <2>1, <1>1, <1>7
    <3> HIDE DEF t
    <3>3. /\ req'[s] \in Request /\ req'[s].phase = t.phase /\ req'[s].stale = TRUE
          /\ req'[s].tries = t.tries /\ req'[s].apikey = t.apikey /\ req'[s].op = t.op
          /\ req'[s].answer = t.answer /\ req'[s].misread = t.misread
      BY <3>1, <3>2 DEF Request
    <3>4. Knows(req'[s], instance', revoked)
      BY <3>1, <3>3 DEF Knows
    <3> QED
      BY <3>3, <3>4, <2>1 DEF InFlight, t
  <2>2. CASE s \in InFlight /\ instance' = instance
    <3>1. req'[s] = req[s] /\ req[s] \in Request /\ Knows(req[s], instance, revoked)
      BY <2>2, <1>1, <1>7 DEF IInv, TypeOK, InFlight, HandlersKnow
    <3> QED
      BY <3>1, <2>2 DEF InFlight
  <2>3. CASE s \notin InFlight
    <3>1. req'[s] = req[s]
      BY <2>3, <1>1, <1>7
    <3> QED
      BY <3>1, <2>3 DEF InFlight
  <2> QED
    BY <2>1, <2>2, <2>3
<1>8. req' \in [Requests -> Request \cup {NotYet, Done}]
  <2>1. \A s \in Requests : req'[s] \in Request \cup {NotYet, Done}
    BY <1>5, <1>6, <1>7 DEF IInv, TypeOK
  <2> QED
    BY <2>1, <1>1
<1>9. InFlight' = InFlight
  BY <1>1, <1>6, <1>7 DEF InFlight
<1>10. HandlersKnow'
  <2>1. ASSUME NEW s \in InFlight PROVE Knows(req'[s], instance', revoked)
    BY <1>5, <1>6, <1>7 DEF InFlight
  <2> QED
    BY <2>1, <1>1, <1>9 DEF HandlersKnow
<1>11. OneRuns'
  <2>1. ASSUME NEW s \in InFlight, s # r PROVE Free(req[s]) /\ Free(req'[s])
    <3>1. Free(req[s])
      BY <2>1, <1>1 DEF IInv, OneRuns, Free
    <3>2. req'[s].phase = req[s].phase
      BY <2>1, <1>7 DEF InFlight
    <3> QED
      BY <3>1, <3>2 DEF Free
  <2> QED
    BY <2>1, <1>9 DEF OneRuns
<1>12. KeyAtHand'
  BY <1>1, <1>2 DEF KeyAtHand
<1>13. Settled'
  <2>1. Between(r)'
    BY <1>3, <1>5, <1>6 DEF Between, At
  <2> QED
    BY <2>1 DEF Settled
<1>14. TypeOK'
  <2>1. \A s \in InFlight' : req'[s].tries # <<>>
    BY <1>10 DEF HandlersKnow, Knows
  <2> QED
    BY <1>1, <1>4, <1>8, <2>1 DEF IInv, TypeOK
<1> QED
  BY <1>10, <1>11, <1>12, <1>13, <1>14 DEF IInv

LEMMA CommitSessionKeeps ==
  ASSUME IInv, NEW r \in Requests, CommitSession(r)
  PROVE  IInv'
<1> USE ValuesAssumption
<1> DEFINE q == req[r]
           c == Candidates(q.apikey)
           n == IF q.op = "create" THEN ThenHook(q) ELSE Done
<1>1. /\ r \in InFlight /\ q.phase = "session" /\ q \in Request
      /\ Knows(q, instance, revoked)
      /\ session' = Recorded(q)
      /\ torn' = (q.stale /\ q.op \in {"create", "status"})
      /\ req' = [req EXCEPT ![r] = n]
      /\ UNCHANGED <<instance, apikey, remote, hook, revoked, patches, failures>>
  BY DEF CommitSession, At, IInv, TypeOK, HandlersKnow, InFlight, tenant, provider
<1>2. q.apikey \in Keys \cup {NoKey} /\ (q.apikey # NoKey \/ Platform # NoKey)
  BY <1>1 DEF Request, Knows
<1>3. c \in Seq(Keys) /\ c # <<>> /\ (q.apikey # NoKey => Head(c) = q.apikey)
  BY <1>2, CandidatesAreKeys
<1>4. n \in Request \cup {Done} /\ (n \in Request => Knows(n, instance, revoked) /\ Free(n))
  <2>1. CASE q.op # "create"
    BY <2>1
  <2>2. CASE q.op = "create"
    <3>1. n = [q EXCEPT !.phase = "call", !.hooking = TRUE, !.tries = c, !.misread = FALSE]
      BY <2>2 DEF ThenHook
    <3> HIDE DEF q, n, c
    <3>2. /\ n \in Request /\ n.phase = "call" /\ n.tries = c /\ n.apikey = q.apikey
          /\ n.op = q.op /\ n.stale = q.stale /\ n.instance = q.instance
      BY <1>1, <1>3, <3>1 DEF Request
    <3>3. Knows(n, instance, revoked)
      BY <1>1, <1>2, <1>3, <2>2, <3>2 DEF Knows
    <3> QED
      BY <3>2, <3>3 DEF Free
  <2> QED
    BY <2>1, <2>2
<1>5. session' \in Statuses
  <2>1. q.op \in {"create", "qr", "status", "logout"}
    BY <1>1 DEF Request, Ops, Knows
  <2> QED
    BY <1>1, <2>1 DEF Recorded, Normalized, Statuses
<1>6. torn' \/ (instance \/ session' \notin {"connected", "connecting"})
  <2>1. CASE q.op \in {"create", "status"}
    BY <2>1, <1>1 DEF Knows
  <2>2. CASE q.op \in {"qr", "logout"}
    BY <2>2, <1>1 DEF Recorded
  <2> QED
    BY <2>1, <2>2, <1>1 DEF Request, Ops, Knows
<1>7. Settled'
  <2>1. session' # NoRow
    BY <1>5
  <2> QED
    BY <1>1, <1>6, <2>1 DEF Settled, Fits
<1>8. /\ revoked \subseteq revoked' /\ instance' = instance
      /\ apikey' # NoKey \/ Platform # NoKey
      /\ n \in Request => Knows(n, instance, revoked') /\ Free(n)
  BY <1>1, <1>4 DEF IInv, KeyAtHand
<1> HIDE DEF n
<1>9. /\ req' \in [Requests -> Request \cup {NotYet, Done}]
      /\ HandlersKnow' /\ OneRuns' /\ KeyAtHand'
  BY <1>1, <1>4, <1>8, StepKeepsHandlers
<1>10. TypeOK'
  <2>1. \A s \in InFlight' : req'[s].tries # <<>>
    BY <1>9 DEF HandlersKnow, Knows
  <2>2. torn' \in BOOLEAN
    BY <1>1, Zenon
  <2> QED
    BY <1>1, <1>5, <1>9, <2>1, <2>2 DEF IInv, TypeOK
<1> QED
  BY <1>7, <1>9, <1>10 DEF IInv

LEMMA LoseKeeps ==
  ASSUME IInv, NEW r \in Requests, Lose(r)
  PROVE  IInv'
<1> USE ValuesAssumption
<1>1. /\ r \in InFlight
      /\ req' = [req EXCEPT ![r] = Done]
      /\ failures' = failures + 1
      /\ torn' = (torn \/ Between(r))
      /\ UNCHANGED <<instance, apikey, session, remote, hook, revoked, patches>>
  BY DEF Lose, Between, tenant, provider
<1>2. /\ revoked \subseteq revoked' /\ instance' = instance
      /\ apikey' # NoKey \/ Platform # NoKey
  BY <1>1 DEF IInv, KeyAtHand
<1>3. /\ req' \in [Requests -> Request \cup {NotYet, Done}]
      /\ \A s \in Requests : s # r => req'[s] = req[s] /\ (s \in InFlight' <=> s \in InFlight)
      /\ HandlersKnow' /\ OneRuns' /\ KeyAtHand'
  BY <1>1, <1>2, StepKeepsHandlers
<1>4. Settled'
  BY <1>1, <1>3, StepKeepsSettled
<1>5. TypeOK'
  <2>1. \A s \in InFlight' : req'[s].tries # <<>>
    BY <1>3 DEF HandlersKnow, Knows
  <2>2. torn' \in BOOLEAN
    BY <1>1, Zenon
  <2> QED
    BY <1>1, <1>3, <2>1, <2>2 DEF IInv, TypeOK
<1> QED
  BY <1>3, <1>4, <1>5 DEF IInv

\* What the provider does for a call.
LEMMA EffectTypes ==
  ASSUME TypeOK, NEW q, Effect(q)
  PROVE  remote' \in Remotes /\ hook' \in BOOLEAN
<1>1. remote \in Remotes /\ hook \in BOOLEAN
  BY DEF TypeOK
<1>2. CASE q.hooking
  BY <1>1, <1>2 DEF Effect
<1>3. CASE ~q.hooking /\ q.op = "create"
  <2>1. remote' \in Remotes
    BY <1>1, <1>3 DEF Effect, Remotes
  <2>2. hook' = (hook \/ remote = "absent")
    BY <1>3 DEF Effect
  <2>3. hook' \in BOOLEAN
    BY <2>2, Zenon
  <2> QED
    BY <2>1, <2>3
<1>4. CASE ~q.hooking /\ q.op = "logout"
  BY <1>1, <1>4 DEF Effect, Remotes
<1>5. CASE ~q.hooking /\ q.op \notin {"create", "logout"}
  BY <1>1, <1>5 DEF Effect, Remotes
<1> QED
  BY <1>2, <1>3, <1>4, <1>5

LEMMA NextKeeps ==
  ASSUME IInv, Next
  PROVE  IInv'
<1>0. TypeOK
  BY DEF IInv
<1>1. ASSUME NEW r \in Requests, Deny(r) PROVE IInv'
  <2>1. /\ At(r, "call") /\ Denied(r) /\ Answered(r, "denied", FALSE)
        /\ UNCHANGED <<instance, apikey, session, remote, hook, revoked, patches, failures, torn>>
    BY <1>1 DEF Deny, tenant, provider
  <2>2. remote' \in Remotes /\ hook' \in BOOLEAN /\ failures' \in Nat
    BY <2>1, <1>0 DEF TypeOK
  <2> QED
    BY <2>1, <2>2, AnswerKeeps
<1>2. ASSUME NEW r \in Requests, Serve(r) PROVE IInv'
  <2>1. /\ At(r, "call") /\ Answered(r, "ok", FALSE) /\ Effect(req[r])
        /\ UNCHANGED <<instance, apikey, session, revoked, patches, failures, torn>>
    BY <1>2 DEF Serve, tenant
  <2>2. remote' \in Remotes /\ hook' \in BOOLEAN /\ failures' \in Nat
    BY <2>1, <1>0, EffectTypes DEF TypeOK
  <2> QED
    BY <2>1, <2>2, AnswerKeeps
<1>7. ASSUME NEW r \in Requests, NEW misread \in BOOLEAN, At(r, "call"), Errs(r, misread),
             remote' \in Remotes, hook' \in BOOLEAN, failures' \in Nat,
             UNCHANGED <<instance, apikey, session, revoked, patches, torn>>
      PROVE  IInv'
  <2>1. CASE misread
    <3>1. Answered(r, "denied", misread)
      BY <1>7, <2>1 DEF Errs
    <3> QED
      BY <1>7, <2>1, <3>1, AnswerKeeps
  <2>2. CASE ~misread
    <3>1. Answered(r, "failed", misread)
      BY <1>7, <2>2 DEF Errs
    <3> QED
      BY <1>7, <2>2, <3>1, AnswerKeeps
  <2> QED
    BY <2>1, <2>2
<1>8. ASSUME NEW r \in Requests, Refuse(r) PROVE IInv'
  <2>1. /\ At(r, "call") /\ \E misread \in BOOLEAN : Errs(r, misread)
        /\ UNCHANGED <<instance, apikey, session, remote, hook, revoked, patches, torn>>
        /\ failures' = failures \/ failures' = failures + 1
    BY <1>8 DEF Refuse, tenant, provider
  <2>2. remote' \in Remotes /\ hook' \in BOOLEAN /\ failures' \in Nat
    BY <2>1, <1>0 DEF TypeOK
  <2> QED
    BY <2>1, <2>2, <1>7
<1>9. ASSUME NEW r \in Requests, FailCall(r) PROVE IInv'
  <2>1. /\ At(r, "call") /\ \E misread \in BOOLEAN : Errs(r, misread)
        /\ UNCHANGED <<instance, apikey, session, revoked, patches, torn>>
    BY <1>9 DEF FailCall, tenant, provider
  <2>2. failures' \in Nat
    BY <1>9, <1>0 DEF FailCall, TypeOK
  <2>3. remote' \in Remotes /\ hook' \in BOOLEAN
    <3>1. CASE UNCHANGED provider
      BY <3>1, <1>0 DEF TypeOK, provider
    <3>2. CASE Effect(req[r])
      BY <3>2, <1>0, EffectTypes
    <3> QED
      BY <1>9, <3>1, <3>2 DEF FailCall
  <2> QED
    BY <2>1, <2>2, <2>3, <1>7
<1>3. ASSUME NEW key \in OwnerKeys, PatchKey(key) PROVE IInv'
  <2>1. /\ apikey' = key /\ patches' = patches + 1
        /\ UNCHANGED <<instance, session, remote, hook, revoked, req, failures, torn>>
    BY <1>3 DEF PatchKey, provider
  <2>2. key \in Keys /\ key # NoKey
    BY ConnectionAssumption DEF Keys
  <2>3. TypeOK'
    BY <2>1, <2>2, <1>0 DEF TypeOK, InFlight
  <2> QED
    BY <2>1, <2>2, <2>3, OthersKeep
<1>4. ASSUME NEW key \in Keys, Revoke(key) PROVE IInv'
  <2>1. /\ revoked' = revoked \cup {key}
        /\ UNCHANGED <<instance, apikey, session, remote, hook, req, patches, failures, torn>>
    BY <1>4 DEF Revoke, tenant
  <2>2. TypeOK'
    BY <2>1, <1>0 DEF TypeOK, InFlight
  <2> QED
    BY <2>1, <2>2, OthersKeep
<1>5. CASE RemoteChange
  <2>1. /\ remote' = IF remote = "connecting" THEN "open" ELSE "close"
        /\ UNCHANGED <<instance, apikey, session, hook, revoked, req, patches, failures, torn>>
    BY <1>5 DEF RemoteChange, tenant
  <2>2. TypeOK'
    BY <2>1, <1>0 DEF TypeOK, InFlight, Remotes
  <2> QED
    BY <2>1, <2>2, OthersKeep
<1>6. ASSUME NEW r \in Requests, Handler(r) PROVE IInv'
  BY <1>6, BeginKeeps, ResumeKeeps, CommitKeyKeeps, CommitInstanceKeeps,
     CommitSessionKeeps DEF Handler
<1> QED
  BY <1>1, <1>2, <1>3, <1>4, <1>5, <1>6, <1>8, <1>9, LoseKeeps DEF Next

LEMMA StutterKeeps ==
  ASSUME IInv, UNCHANGED vars
  PROVE  IInv'
<1>1. UNCHANGED <<instance, apikey, session, remote, hook, revoked, req, patches,
                  failures, torn>>
  BY DEF vars, tenant, provider
<1>2. TypeOK'
  BY <1>1 DEF IInv, TypeOK, InFlight
<1> QED
  BY <1>1, <1>2, OthersKeep

LEMMA InitIInv == Init => IInv
<1> SUFFICES ASSUME Init PROVE IInv
  OBVIOUS
<1>1. InFlight = {}
  BY DEF Init, InFlight
<1>2. TypeOK
  BY <1>1 DEF Init, TypeOK, Remotes
<1>3. HandlersKnow /\ OneRuns /\ KeyAtHand
  BY <1>1 DEF HandlersKnow, OneRuns, KeyAtHand
<1>4. Settled
  <2>1. session # "connected" /\ session # "connecting" /\ ~ instance
    BY ValuesAssumption DEF Init, Statuses
  <2> QED
    BY <2>1 DEF Settled, Fits
<1> QED
  BY <1>2, <1>3, <1>4 DEF IInv

LEMMA AlwaysIInv == Spec => []IInv
<1>1. IInv /\ [Next]_vars => IInv'
  BY NextKeeps, StutterKeeps
<1> QED
  BY InitIInv, <1>1, PTL DEF Spec
----------------------------------------------------------------------------
\* The columns, the session row and the handlers keep their shape: a handler
\* that calls the provider always has a key left to try.
THEOREM TypesAreKept == Spec => []TypeOK
<1>1. IInv => TypeOK
  BY DEF IInv
<1> QED
  BY AlwaysIInv, <1>1, PTL

\* When no handler is between its commits, the session row and the instance
\* agree, but for the handlers that were overtaken or cut short.
THEOREM SessionAgrees == Spec => []SessionFollowsInstance
<1>1. ASSUME IInv PROVE SessionFollowsInstance
  <2>1. ASSUME LoopIsFree, NEW r \in Requests PROVE ~ Between(r)
    BY <2>1 DEF LoopIsFree, Between, At
  <2> QED
    BY <1>1, <2>1 DEF IInv, Settled, Fits, SessionFollowsInstance
<1> QED
  BY AlwaysIInv, <1>1, PTL

NoneMisread == \A r \in InFlight : ~ req[r].misread

\* The fallback replaces a key the provider accepts only if its own call with it
\* met an error it misread, or if the key is not the one it had loaded.
THEOREM KeyIsKept == Spec => KeyKeptUnlessBlamed
<1>1. ASSUME IInv, Next, apikey' # apikey, patches' = patches
      PROVE  \/ apikey \in revoked \cup {NoKey}
             \/ \E r \in InFlight :
                  At(r, "key") /\ (req[r].apikey # apikey \/ req[r].misread)
  <2>1. patches \in Nat
    BY <1>1 DEF IInv, TypeOK
  <2>2. \E r \in Requests : CommitKey(r)
    <3>1. ASSUME NEW r \in Requests, NEW op \in Ops PROVE ~ Begin(r, op)
      BY <1>1 DEF Begin, tenant
    <3>2. ASSUME NEW r \in Requests
          PROVE  /\ ~ Resume(r) /\ ~ CommitInstance(r) /\ ~ CommitSession(r)
                 /\ ~ Deny(r) /\ ~ Serve(r) /\ ~ Refuse(r) /\ ~ FailCall(r) /\ ~ Lose(r)
      BY <1>1 DEF Resume, CommitInstance, CommitSession, Deny, Serve, Refuse, FailCall, Lose,
                  tenant
    <3>3. \A key \in OwnerKeys : ~ PatchKey(key)
      BY <1>1, <2>1 DEF PatchKey
    <3>4. ~ RemoteChange /\ \A key \in Keys : ~ Revoke(key)
      BY <1>1 DEF RemoteChange, Revoke, tenant
    <3> QED
      BY <1>1, <3>1, <3>2, <3>3, <3>4 DEF Next, Handler
  <2>3. PICK r \in Requests : CommitKey(r)
    BY <2>2
  <2>4. At(r, "key") /\ r \in InFlight /\ apikey' = Head(req[r].tries)
    BY <2>3 DEF CommitKey, At
  <2>5. \/ Head(req[r].tries) = req[r].apikey
        \/ req[r].apikey \in revoked \cup {NoKey} \/ req[r].misread
    BY <1>1, <2>4 DEF IInv, HandlersKnow, Knows, At
  <2> QED
    BY <1>1, <2>4, <2>5
<1>2. IInv /\ [Next]_vars =>
        [apikey' # apikey /\ patches' = patches =>
           \/ apikey \in revoked \cup {NoKey}
           \/ \E r \in InFlight :
                At(r, "key") /\ (req[r].apikey # apikey \/ req[r].misread)]_vars
  BY <1>1
<1> QED
  BY AlwaysIInv, <1>2, PTL DEF Spec, KeyKeptUnlessBlamed

\* If every error that reads as a denial is one, only a denied key is replaced, or
\* one the settings changed while the handler awaited (_is_auth_error).
THEOREM ReadRightOnlyDeniedKeysGo ==
  Spec /\ []NoneMisread =>
    [][apikey' # apikey /\ patches' = patches =>
         \/ apikey \in revoked \cup {NoKey}
         \/ \E r \in InFlight : At(r, "key") /\ req[r].apikey # apikey]_vars
<1>1. NoneMisread /\ [apikey' # apikey /\ patches' = patches =>
                        \/ apikey \in revoked \cup {NoKey}
                        \/ \E r \in InFlight :
                             At(r, "key") /\ (req[r].apikey # apikey \/ req[r].misread)]_vars
        => [apikey' # apikey /\ patches' = patches =>
              \/ apikey \in revoked \cup {NoKey}
              \/ \E r \in InFlight : At(r, "key") /\ req[r].apikey # apikey]_vars
  BY DEF NoneMisread
<1> QED
  BY KeyIsKept, <1>1, PTL DEF KeyKeptUnlessBlamed
----------------------------------------------------------------------------
\* What the history torn stands for: without the behaviour it records, session
\* and instance agree without exception.

\* A creation or a logout has the business for itself.
Exclusive == \A r, s \in InFlight : req[r].op \in {"create", "logout"} => r = s

\* No handler stops when only its session row is still to be written.
NoneCutShort == [][\A r \in Requests : At(r, "session") => ~ Lose(r)]_vars

Untorn == torn = FALSE /\ \A r \in InFlight : req[r].stale = FALSE

LEMMA StepStaysUntorn ==
  ASSUME TypeOK, Untorn, NEW r \in InFlight, NEW n, req' = [req EXCEPT ![r] = n],
         n = Done \/ n.stale = req[r].stale, torn' = torn
  PROVE  Untorn'
<1>1. ASSUME NEW s \in InFlight' PROVE req'[s].stale = FALSE
  <2>1. CASE s = r
    BY <1>1, <2>1 DEF InFlight, TypeOK, Untorn
  <2>2. CASE s # r
    BY <1>1, <2>2 DEF InFlight, TypeOK, Untorn
  <2> QED
    BY <2>1, <2>2
<1> QED
  BY <1>1 DEF Untorn

LEMMA FollowingStale ==
  ASSUME NEW q \in Request
  PROVE  Following(q) = Done \/ Following(q).stale = q.stale
BY DEF Following, ThenHook, Request

LEMMA AnswerStaysUntorn ==
  ASSUME IInv, Untorn, NEW r \in Requests, At(r, "call"), NEW answer, NEW misread,
         Answered(r, answer, misread), torn' = torn
  PROVE  Untorn'
<1> DEFINE q  == req[r]
           n  == [q EXCEPT !.phase = "answered", !.answer = answer,
                           !.state = Told(q, answer), !.misread = @ \/ misread]
<1>1. r \in InFlight /\ q \in Request
  BY DEF At, IInv, TypeOK, InFlight
<1>2. req' = [req EXCEPT ![r] = n]
  BY DEF Answered
<1>3. n.stale = q.stale
  BY <1>1 DEF Request
<1> HIDE DEF n
<1> QED
  BY <1>1, <1>2, <1>3, StepStaysUntorn DEF IInv

LEMMA ResumeStaysUntorn ==
  ASSUME IInv, Untorn, NEW r \in Requests, Resume(r)
  PROVE  Untorn'
<1> DEFINE q == req[r]
           n == IF q.answer = "denied" /\ Len(q.tries) > 1
                THEN [q EXCEPT !.phase = "call", !.tries = Tail(@)]
                ELSE IF q.answer # "ok" THEN GivenUp(q)
                ELSE IF q.apikey # Head(q.tries) THEN [q EXCEPT !.phase = "key"]
                ELSE Following(q)
<1>1. r \in InFlight /\ q \in Request /\ torn' = torn
  BY DEF Resume, At, IInv, TypeOK, InFlight
<1>2. req' = [req EXCEPT ![r] = n]
  BY DEF Resume
<1>3. n = Done \/ n.stale = q.stale
  <2> HIDE DEF q
  <2>1. [q EXCEPT !.phase = "call", !.tries = Tail(@)].stale = q.stale
    BY <1>1 DEF Request
  <2>2. [q EXCEPT !.phase = "key"].stale = q.stale
    BY <1>1 DEF Request
  <2>3. Following(q) = Done \/ Following(q).stale = q.stale
    BY <1>1, FollowingStale
  <2>4. GivenUp(q) = Done \/ GivenUp(q).stale = q.stale
    BY <2>3 DEF GivenUp
  <2> QED
    BY <2>1, <2>2, <2>3, <2>4
<1> HIDE DEF n
<1> QED
  BY <1>1, <1>2, <1>3, StepStaysUntorn DEF IInv

LEMMA CommitKeyStaysUntorn ==
  ASSUME IInv, Untorn, NEW r \in Requests, CommitKey(r)
  PROVE  Untorn'
<1> DEFINE q   == req[r]
           key == Head(q.tries)
           p   == [q EXCEPT !.apikey = key, !.instance = instance]
           n   == Following(p)
<1>1. r \in InFlight /\ q \in Request /\ torn' = torn /\ instance \in BOOLEAN
  BY DEF CommitKey, At, IInv, TypeOK, InFlight
<1>2. req' = [req EXCEPT ![r] = n]
  BY DEF CommitKey
<1>3. key \in Keys \cup {NoKey}
  <2>1. q.tries \in Seq(Keys) /\ q.tries # <<>>
    BY <1>1 DEF IInv, TypeOK, Request
  <2> QED
    BY <2>1
<1> HIDE DEF key, q
<1>4. p \in Request /\ p.stale = q.stale
  BY <1>1, <1>3 DEF Request
<1> HIDE DEF p
<1>5. n = Done \/ n.stale = q.stale
  BY <1>4, FollowingStale
<1> HIDE DEF n
<1> QED
  BY <1>1, <1>2, <1>5, StepStaysUntorn DEF IInv, q

\* A creation or a logout finds nobody whose reads it could make stale.
LEMMA CommitInstanceStaysUntorn ==
  ASSUME IInv, Untorn, Exclusive, NEW r \in Requests, CommitInstance(r)
  PROVE  Untorn'
<1> DEFINE q == req[r]
           n == [q EXCEPT !.phase = "session", !.stale = @ /\ ~ (q.instance # (q.op = "create")),
                          !.instance = instance', !.apikey = apikey]
<1>1. /\ r \in InFlight /\ q \in Request /\ q.op \in {"create", "logout"}
      /\ torn' = torn
  BY DEF CommitInstance, At, IInv, TypeOK, InFlight, HandlersKnow, Knows
<1>2. /\ req'[r] = n
      /\ \A s \in Requests : s # r /\ s \notin InFlight => req'[s] = req[s]
  BY DEF CommitInstance
<1>3. q.stale = FALSE
  BY <1>1 DEF Untorn
<1>4. n.stale = FALSE
  BY <1>1, <1>3 DEF Request
<1> HIDE DEF n
<1>5. ASSUME NEW s \in InFlight', s # r PROVE FALSE
  BY <1>1, <1>2, <1>5 DEF Exclusive, InFlight
<1> QED
  BY <1>1, <1>2, <1>4, <1>5 DEF Untorn

LEMMA NextStaysUntorn ==
  ASSUME IInv, Untorn, Exclusive, [Next]_vars,
         [\A r \in Requests : At(r, "session") => ~ Lose(r)]_vars
  PROVE  Untorn'
<1> USE ValuesAssumption
<1>1. ASSUME NEW r \in Requests, NEW op \in Ops, Begin(r, op) PROVE Untorn'
  <2> DEFINE n == [op |-> op, phase |-> "call", hooking |-> op = "sync", instance |-> instance,
                   apikey |-> apikey, tries |-> Candidates(apikey), answer |-> "none",
                   state |-> "absent", stale |-> FALSE, misread |-> FALSE]
  <2>1. req' = [req EXCEPT ![r] = n] /\ n.stale = FALSE /\ torn' = torn
    BY <1>1 DEF Begin
  <2> HIDE DEF n
  <2>2. ASSUME NEW s \in InFlight' PROVE req'[s].stale = FALSE
    <3>1. CASE s = r
      BY <2>1, <3>1 DEF IInv, TypeOK
    <3>2. CASE s # r
      BY <2>1, <2>2, <3>2 DEF InFlight, IInv, TypeOK, Untorn
    <3> QED
      BY <3>1, <3>2
  <2> QED
    BY <2>1, <2>2 DEF Untorn
<1>2. ASSUME NEW r \in Requests, Deny(r) \/ Serve(r) PROVE Untorn'
  BY <1>2, AnswerStaysUntorn DEF Deny, Serve
<1>3. ASSUME NEW r \in Requests, Refuse(r) \/ FailCall(r) PROVE Untorn'
  BY <1>3, AnswerStaysUntorn DEF Refuse, FailCall, Errs
<1>4. ASSUME NEW r \in Requests, CommitSession(r) PROVE Untorn'
  <2> DEFINE q == req[r]
             n == IF q.op = "create" THEN ThenHook(q) ELSE Done
  <2>1. r \in InFlight /\ q \in Request
    BY <1>4 DEF CommitSession, At, IInv, TypeOK, InFlight
  <2>2. req' = [req EXCEPT ![r] = n]
    BY <1>4 DEF CommitSession
  <2>3. n = Done \/ n.stale = q.stale
    BY <2>1 DEF Request, ThenHook
  <2>4. torn' = FALSE /\ torn = FALSE
    BY <1>4, <2>1 DEF CommitSession, Untorn
  <2> HIDE DEF n
  <2> QED
    BY <2>1, <2>2, <2>3, <2>4, StepStaysUntorn DEF IInv
<1>5. ASSUME NEW r \in Requests, Lose(r) PROVE Untorn'
  <2>1. r \in InFlight /\ req' = [req EXCEPT ![r] = Done]
    BY <1>5 DEF Lose
  <2>2. vars' # vars
    <3>1. req[r] # Done /\ req'[r] = Done
      BY <2>1 DEF InFlight, IInv, TypeOK
    <3> QED
      BY <3>1 DEF vars
  <2>3. torn' = torn
    BY <1>5, <2>2 DEF Lose, IInv, TypeOK
  <2> QED
    BY <2>1, <2>3, StepStaysUntorn DEF IInv
<1>6. ASSUME UNCHANGED <<req, torn>> PROVE Untorn'
  BY <1>6 DEF Untorn, InFlight
<1>7. ASSUME NEW key \in OwnerKeys, PatchKey(key) PROVE Untorn'
  BY <1>6, <1>7 DEF PatchKey
<1>8. ASSUME NEW key \in Keys, Revoke(key) PROVE Untorn'
  BY <1>6, <1>8 DEF Revoke
<1>9. CASE RemoteChange \/ UNCHANGED vars
  BY <1>6, <1>9 DEF RemoteChange, vars
<1> QED
  BY <1>1, <1>2, <1>3, <1>4, <1>5, <1>7, <1>8, <1>9, ResumeStaysUntorn,
     CommitKeyStaysUntorn, CommitInstanceStaysUntorn DEF Next, Handler

\* If creations and logouts overlap no other handler and none stops between its
\* two commits, the session row agrees with the instance whenever no handler has
\* the loop (create_instance, get_status, logout).
THEOREM ExclusiveSessionsAgree ==
  Spec /\ []Exclusive /\ NoneCutShort => [](LoopIsFree => Fits)
<1>1. Init => Untorn
  BY DEF Init, Untorn, InFlight
<1>2. IInv /\ Untorn /\ Exclusive /\ [Next]_vars
        /\ [\A r \in Requests : At(r, "session") => ~ Lose(r)]_vars => Untorn'
  BY NextStaysUntorn
<1>3. IInv /\ Untorn => (LoopIsFree => Fits)
  <2>1. ASSUME LoopIsFree, NEW r \in Requests PROVE ~ Between(r)
    BY <2>1 DEF LoopIsFree, Between, At
  <2> QED
    BY <2>1 DEF IInv, Settled, Untorn
<1> QED
  BY <1>1, <1>2, <1>3, AlwaysIInv, PTL DEF Spec, NoneCutShort
=============================================================================
