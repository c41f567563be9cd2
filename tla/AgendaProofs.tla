---------------------------- MODULE AgendaProofs ----------------------------
(***************************************************************************)
(* Proofs about Agenda, for any number of appointments, staff members,     *)
(* requests and durations.                                                 *)
(***************************************************************************)
EXTENDS Agenda, TLAPS

USE AgendaAssumption

SameSlot(x, y) ==
  x.user = y.user /\ x.date = y.date /\ x.start = y.start /\ x.end = y.end

\* What a request that nobody disturbed since it read still knows to be true.
Undisturbed(r) ==
  LET q == req[r] IN
  /\ q.appt \in Booked => Merge(appts[q.appt], q.want, q.dirty) = q.want
  /\ q.kind \in Placing => q.want.start < q.want.end
  /\ q.kind \in Placing /\ q.pc = "ready" => ~HasOverlap(q.want, q.appt)
  /\ q.kind \in StatusOnly => /\ q.appt \in Booked
                              /\ SameSlot(appts[q.appt], q.want)
                              /\ Active(q.want) => Active(appts[q.appt])

KnowsWhatItRead == \A r \in InFlight \ stale : Undisturbed(r)

\* The inductive invariant: OverlapOnlyByRace alone says nothing of a request
\* that has checked and not yet committed.
IInv == TypeOK /\ OverlapOnlyByRace /\ SlotIsWhole /\ KnowsWhatItRead
----------------------------------------------------------------------------
\* An end time is a clock time.
LEMMA EndTimeType ==
  ASSUME NEW s \in Times, NEW duration \in Durations
  PROVE  EndTime(s, duration) \in Times
<1>1. s + duration \in Nat
  BY DEF Times
<1>2. ASSUME NEW n \in Nat PROVE n % DayLen \in 0 .. (DayLen - 1)
  BY <1>2, AgendaAssumption
<1> QED
  BY <1>1, <1>2 DEF EndTime, Times

LEMMA NewRowType ==
  ASSUME NEW u \in Staff, NEW d \in Dates, NEW s \in Times, NEW duration \in Durations
  PROVE  /\ NewRow(u, d, s, duration) \in Row
         /\ NewRow(u, d, s, duration).user = u
         /\ NewRow(u, d, s, duration).start = s
         /\ NewRow(u, d, s, duration).end = EndTime(s, duration)
BY EndTimeType DEF NewRow, Row, Statuses

\* The row an update or a reschedule wants.
LEMMA MovedRowType ==
  ASSUME NEW u \in Staff, NEW d \in Dates, NEW s \in Times, NEW duration \in Durations,
         NEW status \in Statuses
  PROVE  LET want == [NewRow(u, d, s, duration) EXCEPT !.status = status] IN
         /\ want \in Row
         /\ want.start = s
         /\ want.end = EndTime(s, duration)
BY EndTimeType DEF NewRow, Row

\* has_overlap's test finds every pair that shares a minute.
LEMMA SharedMinuteOverlaps ==
  ASSUME NEW x \in Row, NEW y \in Row, ShareMinute(x, y)
  PROVE  Overlaps(x, y)
BY AgendaAssumption DEF ShareMinute, Overlaps, Row, Times

LEMMA MergeType ==
  ASSUME NEW row \in Row, NEW want \in Row, NEW dirty
  PROVE  Merge(row, want, dirty) \in Row
BY DEF Merge, Row

\* A flush against the row that was loaded leaves exactly the wanted row.
LEMMA MergeOfLoaded ==
  ASSUME NEW row \in Row, NEW want \in Row
  PROVE  Merge(row, want, Dirty(row, want)) = want
BY DEF Merge, Dirty, Columns, Row

LEMMA MergeOfAll ==
  ASSUME NEW row, NEW want \in Row
  PROVE  Merge(row, want, Columns) = want
BY DEF Merge, Columns, Row

LEMMA KindsSplit == Placing \cap StatusOnly = {} /\ Kinds = Placing \cup StatusOnly
BY DEF Placing, StatusOnly, Kinds
----------------------------------------------------------------------------
LEMMA InitIInv == Init => IInv
BY DEF Init, IInv, TypeOK, OverlapOnlyByRace, SlotIsWhole, KnowsWhatItRead,
       Booked, InFlight

\* A request that reads keeps the invariant if what it means to write follows
\* from the row it loaded.
LEMMA LoadIInv ==
  ASSUME IInv,
         NEW r \in Requests, NEW kind \in Kinds, NEW a \in Ids, NEW want \in Row,
         NEW dirty \in SUBSET Columns, NEW suspect \in BOOLEAN,
         Load(r, kind, a, want, dirty, suspect),
         a \in Booked => Merge(appts[a], want, dirty) = want,
         kind \in Placing => suspect \/ want.start < want.end,
         kind \in StatusOnly => /\ a \in Booked
                                /\ SameSlot(appts[a], want)
                                /\ Active(want) => Active(appts[a])
  PROVE  IInv'
<1> DEFINE q == [pc |-> IF kind \in Placing THEN "loaded" ELSE "ready",
                 kind |-> kind, appt |-> a, want |-> want, dirty |-> dirty]
<1>1. /\ req[r] = NotYet
      /\ req' = [req EXCEPT ![r] = q]
      /\ stale' = IF suspect THEN stale \cup {r} ELSE stale
      /\ UNCHANGED <<appts, now, tainted>>
  BY DEF Load
<1>2. q \in Request
  BY DEF Request
<1> HIDE DEF q
<1>3. TypeOK'
  BY <1>1, <1>2 DEF IInv, TypeOK
<1>4. OverlapOnlyByRace' /\ SlotIsWhole'
  BY <1>1 DEF IInv, OverlapOnlyByRace, SlotIsWhole, Clash, Booked
<1>5. ASSUME NEW p \in InFlight' \ stale' PROVE Undisturbed(p)'
  <2>1. CASE p = r
    <3>1. req'[p] = q
      BY <1>1, <2>1 DEF IInv, TypeOK
    <3>2. ~suspect
      BY <1>1, <1>5, <2>1
    <3>3. q.pc = "ready" => kind \notin Placing
      BY DEF q
    <3> QED
      BY <1>1, <3>1, <3>2, <3>3 DEF q, Undisturbed, Booked, HasOverlap
  <2>2. CASE p # r
    <3>1. req'[p] = req[p] /\ p \in InFlight \ stale
      BY <1>1, <1>5, <2>2 DEF IInv, TypeOK, InFlight
    <3>2. Undisturbed(p)
      BY <3>1 DEF IInv, KnowsWhatItRead
    <3> QED
      BY <1>1, <3>1, <3>2 DEF Undisturbed, Booked, HasOverlap
  <2> QED
    BY <2>1, <2>2
<1> QED
  BY <1>3, <1>4, <1>5 DEF IInv, KnowsWhatItRead

\* The requests that will ask has_overlap.
LEMMA LoadPlacingIInv ==
  ASSUME IInv,
         NEW r \in Requests, NEW kind \in Placing, NEW a \in Ids, NEW want \in Row,
         NEW dirty \in SUBSET Columns, NEW suspect \in BOOLEAN,
         Load(r, kind, a, want, dirty, suspect),
         a \in Booked => Merge(appts[a], want, dirty) = want,
         suspect \/ want.start < want.end
  PROVE  IInv'
<1>1. kind \in Kinds /\ kind \notin StatusOnly
  BY KindsSplit
<1> QED
  BY <1>1, LoadIInv

LEMMA BeginIInv ==
  ASSUME IInv, NEW r \in Requests, Endpoint(r) \/ Webhook(r)
  PROVE  IInv'
<1>1. CASE BeginCreate(r)
  <2>1. PICK a \in FreshIds, u \in Staff, d \in Dates, s \in Times, duration \in Durations :
          /\ FitsInDay(s, duration)
          /\ Load(r, "create", a, NewRow(u, d, s, duration), Columns, FALSE)
    BY <1>1 DEF BeginCreate
  <2> DEFINE row == NewRow(u, d, s, duration)
  <2>2. a \in Ids
    BY DEF FreshIds
  <2>3. row \in Row /\ row.start < row.end
    BY <2>1, NewRowType DEF FitsInDay
  <2>4. Merge(appts[a], row, Columns) = row
    BY <2>3, MergeOfAll
  <2>5. "create" \in Placing
    BY DEF Placing
  <2> HIDE DEF row
  <2> QED
    BY <2>1, <2>2, <2>3, <2>4, <2>5, LoadPlacingIInv DEF row
<1>2. CASE BeginUpdate(r)
  <2>a. PICK a \in Booked :
          \E u \in Staff, d \in Dates, s \in Times, duration \in Durations,
             status \in StatusInputs \cup {appts[a].status} :
            LET want == [NewRow(u, d, s, duration) EXCEPT !.status = status] IN
            /\ FitsInDay(s, duration)
            /\ Load(r, "update", a, want, Dirty(appts[a], want), FALSE)
    BY <1>2 DEF BeginUpdate
  <2>1. PICK u \in Staff, d \in Dates, s \in Times, duration \in Durations,
             status \in StatusInputs \cup {appts[a].status} :
          LET want == [NewRow(u, d, s, duration) EXCEPT !.status = status] IN
          /\ FitsInDay(s, duration)
          /\ Load(r, "update", a, want, Dirty(appts[a], want), FALSE)
    BY <2>a
  <2> DEFINE want == [NewRow(u, d, s, duration) EXCEPT !.status = status]
  <2>2. a \in Ids /\ appts[a] \in Row
    BY DEF Booked, IInv, TypeOK
  <2>3. status \in Statuses
    BY <2>2, AgendaAssumption DEF Row
  <2>4. want \in Row /\ want.start = s /\ want.end = EndTime(s, duration)
    BY <2>3, MovedRowType
  <2> DEFINE dirty == Dirty(appts[a], want)
  <2>5. dirty \in SUBSET Columns
    BY DEF Dirty
  <2>6. Merge(appts[a], want, dirty) = want
    BY <2>2, <2>4, MergeOfLoaded
  <2>7. "update" \in Placing /\ want.start < want.end
    BY <2>1, <2>4 DEF Placing, FitsInDay
  <2>8. Load(r, "update", a, want, dirty, FALSE)
    BY <2>1
  <2> HIDE DEF want, dirty
  <2> QED
    BY <2>2, <2>4, <2>5, <2>6, <2>7, <2>8, LoadPlacingIInv
<1>3. CASE BeginReschedule(r)
  <2>1. PICK a \in Booked, d \in Dates, s \in Times, duration \in Durations :
          LET want == [NewRow(appts[a].user, d, s, duration)
                         EXCEPT !.status = appts[a].status] IN
          /\ FitsInDay(s, duration)
          /\ Load(r, "reschedule", a, want, Dirty(appts[a], want), FALSE)
    BY <1>3 DEF BeginReschedule
  <2> DEFINE want == [NewRow(appts[a].user, d, s, duration)
                        EXCEPT !.status = appts[a].status]
  <2>2. a \in Ids /\ appts[a] \in Row
    BY DEF Booked, IInv, TypeOK
  <2>3. appts[a].user \in Staff /\ appts[a].status \in Statuses
    BY <2>2 DEF Row
  <2>4. want \in Row /\ want.start = s /\ want.end = EndTime(s, duration)
    BY <2>3, MovedRowType
  <2> DEFINE dirty == Dirty(appts[a], want)
  <2>5. dirty \in SUBSET Columns
    BY DEF Dirty
  <2>6. Merge(appts[a], want, dirty) = want
    BY <2>2, <2>4, MergeOfLoaded
  <2>7. "reschedule" \in Placing /\ want.start < want.end
    BY <2>1, <2>4 DEF Placing, FitsInDay
  <2>8. Load(r, "reschedule", a, want, dirty, FALSE)
    BY <2>1
  <2> HIDE DEF want, dirty
  <2> QED
    BY <2>2, <2>4, <2>5, <2>6, <2>7, <2>8, LoadPlacingIInv
<1>4. ASSUME NEW a \in Booked, NEW status \in Statuses, NEW kind \in StatusOnly,
             status # "cancelled" => Active(appts[a]),
             Load(r, kind, a, [appts[a] EXCEPT !.status = status],
                  Dirty(appts[a], [appts[a] EXCEPT !.status = status]), FALSE)
      PROVE  IInv'
  <2> DEFINE want == [appts[a] EXCEPT !.status = status]
  <2>1. a \in Ids /\ appts[a] \in Row
    BY DEF Booked, IInv, TypeOK
  <2>2. want \in Row /\ SameSlot(appts[a], want) /\ want.status = status
    BY <2>1 DEF Row, SameSlot
  <2>3. Merge(appts[a], want, Dirty(appts[a], want)) = want
    BY <2>1, <2>2, MergeOfLoaded
  <2>4. Active(want) => Active(appts[a])
    BY <1>4, <2>2 DEF Active
  <2>5. Dirty(appts[a], want) \in SUBSET Columns
    BY DEF Dirty
  <2> HIDE DEF want
  <2> QED
    BY <1>4, <2>1, <2>2, <2>3, <2>4, <2>5, LoadIInv, KindsSplit DEF want
<1>5. CASE BeginCancel(r)
  BY <1>4, <1>5 DEF BeginCancel, StatusOnly, Statuses
<1>6. CASE BeginChangeStatus(r)
  <2>1. PICK a \in Booked, status \in StatusInputs :
          /\ CanChangeStatus(appts[a])
          /\ Load(r, "status", a, [appts[a] EXCEPT !.status = status],
                  Dirty(appts[a], [appts[a] EXCEPT !.status = status]), FALSE)
    BY <1>6 DEF BeginChangeStatus
  <2> QED
    BY <1>4, <2>1, AgendaAssumption DEF CanChangeStatus, Terminal, Active, StatusOnly
<1>7. CASE BeginReply(r)
  <2>1. PICK a \in Repliable, status \in {"confirmed", "cancelled", "reschedule_req"} :
          Load(r, "reply", a, [appts[a] EXCEPT !.status = status],
               Dirty(appts[a], [appts[a] EXCEPT !.status = status]), FALSE)
    BY <1>7 DEF BeginReply
  <2> QED
    BY <1>4, <2>1 DEF Repliable, Active, StatusOnly, Statuses
<1>8. CASE BeginAutoBook(r)
  <2>1. PICK a \in FreshIds, b \in Booked :
          Load(r, "autobook", a, [appts[b] EXCEPT !.status = "pending"], Columns,
               b \in tainted)
    BY <1>8 DEF BeginAutoBook
  <2> DEFINE want == [appts[b] EXCEPT !.status = "pending"]
  <2>2. a \in Ids /\ a \notin Booked
    BY DEF FreshIds
  <2>3. b \in Ids /\ appts[b] \in Row
    BY DEF Booked, IInv, TypeOK
  <2>4. want \in Row /\ want.start = appts[b].start /\ want.end = appts[b].end
    BY <2>3 DEF Row, Statuses
  <2>5. b \notin tainted => appts[b].start < appts[b].end
    BY DEF IInv, SlotIsWhole
  <2>6. "autobook" \in Placing
    BY DEF Placing
  <2>7. CASE b \in tainted
    <3>1. Load(r, "autobook", a, want, Columns, TRUE)
      <4>1. (b \in tainted) = TRUE
        BY <2>7
      <4> QED
        BY <2>1, <4>1
    <3> HIDE DEF want
    <3> QED
      BY <2>2, <2>4, <2>6, <3>1, LoadPlacingIInv
  <2>8. CASE b \notin tainted
    <3>1. Load(r, "autobook", a, want, Columns, FALSE)
      <4>1. (b \in tainted) = FALSE
        BY <2>8
      <4> QED
        BY <2>1, <4>1
    <3> HIDE DEF want
    <3> QED
      BY <2>2, <2>4, <2>5, <2>6, <2>8, <3>1, LoadPlacingIInv
  <2> QED
    BY <2>7, <2>8
<1> QED
  BY <1>1, <1>2, <1>3, <1>5, <1>6, <1>7, <1>8 DEF Endpoint, Webhook

LEMMA CheckIInv ==
  ASSUME IInv, NEW r \in Requests, CheckPasses(r) \/ CheckRefuses(r)
  PROVE  IInv'
<1>1. CASE CheckPasses(r)
  <2>1. /\ r \in InFlight /\ req[r] \in Request
        /\ ~HasOverlap(req[r].want, req[r].appt)
        /\ req' = [req EXCEPT ![r].pc = "ready"]
        /\ UNCHANGED <<appts, now, stale, tainted>>
    BY <1>1 DEF CheckPasses, IInv, TypeOK, InFlight
  <2>2. TypeOK'
    BY <2>1 DEF IInv, TypeOK, Request
  <2>3. OverlapOnlyByRace' /\ SlotIsWhole'
    BY <2>1 DEF IInv, OverlapOnlyByRace, SlotIsWhole, Clash, Booked
  <2>4. ASSUME NEW p \in InFlight' \ stale' PROVE Undisturbed(p)'
    <3>1. /\ p \in InFlight \ stale
          /\ req'[p].appt = req[p].appt /\ req'[p].want = req[p].want
          /\ req'[p].dirty = req[p].dirty /\ req'[p].kind = req[p].kind
          /\ p # r => req'[p] = req[p]
      BY <2>1, <2>4 DEF IInv, TypeOK, InFlight, Request
    <3>2. Undisturbed(p)
      BY <3>1 DEF IInv, KnowsWhatItRead
    <3> QED
      BY <2>1, <3>1, <3>2 DEF Undisturbed, Booked, HasOverlap
  <2> QED
    BY <2>2, <2>3, <2>4 DEF IInv, KnowsWhatItRead
<1>2. CASE CheckRefuses(r)
  <2>1. /\ req' = [req EXCEPT ![r] = Done]
        /\ stale' = stale \ {r}
        /\ UNCHANGED <<appts, now, tainted>>
    BY <1>2 DEF CheckRefuses
  <2>2. TypeOK'
    BY <2>1 DEF IInv, TypeOK
  <2>3. OverlapOnlyByRace' /\ SlotIsWhole'
    BY <2>1 DEF IInv, OverlapOnlyByRace, SlotIsWhole, Clash, Booked
  <2>4. ASSUME NEW p \in InFlight' \ stale' PROVE Undisturbed(p)'
    <3>1. p \in InFlight \ stale /\ req'[p] = req[p]
      BY <2>1, <2>4 DEF IInv, TypeOK, InFlight
    <3>2. Undisturbed(p)
      BY <3>1 DEF IInv, KnowsWhatItRead
    <3> QED
      BY <2>1, <3>1, <3>2 DEF Undisturbed, Booked, HasOverlap
  <2> QED
    BY <2>2, <2>3, <2>4 DEF IInv, KnowsWhatItRead
<1> QED
  BY <1>1, <1>2
----------------------------------------------------------------------------
LEMMA ShareMinuteSymmetric ==
  ASSUME NEW x, NEW y
  PROVE  ShareMinute(x, y) <=> ShareMinute(y, x)
BY DEF ShareMinute

\* Whoever commits on what it still knows to be true writes a slot that is
\* free; whoever does not taints the row it writes.
LEMMA CommitIInv ==
  ASSUME IInv, NEW r \in Requests, Commit(r)
  PROVE  IInv'
<1> DEFINE q == req[r]
           a == q.appt
           row == IF a \in Booked THEN Merge(appts[a], q.want, q.dirty) ELSE q.want
<1>1. r \in InFlight /\ q \in Request /\ q.pc = "ready" /\ Write(r, a, row)
  BY DEF Commit, IInv, TypeOK, InFlight
<1>2. a \in Ids /\ q.want \in Row /\ q.kind \in Kinds
  BY <1>1 DEF Request
<1>3. row \in Row /\ row # NoRow
  <2>1. a \in Booked => appts[a] \in Row
    BY DEF Booked, IInv, TypeOK
  <2> QED
    BY <1>2, <2>1, MergeType
<1>4. r \notin stale => row = q.want
  BY <1>1 DEF IInv, KnowsWhatItRead, Undisturbed
<1>5. r \notin stale => Undisturbed(r)
  BY <1>1 DEF IInv, KnowsWhatItRead
<1> HIDE DEF row
<1>6. /\ appts' = [appts EXCEPT ![a] = row]
      /\ req' = [req EXCEPT ![r] = Done]
      /\ stale' = (IF row = appts[a] THEN stale ELSE stale \cup Disturbed(a, row)) \ {r}
      /\ tainted' = IF row = appts[a] THEN tainted
                    ELSE IF r \in stale THEN tainted \cup {a}
                    ELSE IF q.kind \in Placing THEN tainted \ {a}
                    ELSE tainted
      /\ now' = now
  BY <1>1 DEF Write
<1>7. /\ appts'[a] = row
      /\ \A b \in Ids \ {a} : appts'[b] = appts[b]
      /\ Booked' = Booked \cup {a}
      /\ \A b \in Ids \ {a} : b \in tainted' <=> b \in tainted
  BY <1>2, <1>3, <1>6 DEF IInv, TypeOK, Booked
<1>8. Booked \subseteq Ids
  BY DEF Booked
<1>9. row = appts[a] => a \in Booked /\ tainted' = tainted
  BY <1>2, <1>3, <1>6 DEF Booked
<1>10. TypeOK'
  <2>1. Disturbed(a, row) \subseteq Requests
    BY DEF Disturbed, InFlight
  <2> QED
    BY <1>2, <1>3, <1>6, <2>1 DEF IInv, TypeOK
<1>11. ASSUME NEW b \in Booked, b # a, Active(row), Active(appts[b]),
              ShareMinute(appts[b], row)
       PROVE  a \in tainted' \/ b \in tainted'
  <2>1. CASE row = appts[a]
    BY <1>7, <1>8, <1>9, <1>11, <2>1 DEF IInv, OverlapOnlyByRace, Clash
  <2>2. CASE row # appts[a] /\ r \in stale
    BY <1>6, <2>2
  <2>3. CASE row # appts[a] /\ r \notin stale /\ q.kind \in Placing
    <3>1. ~HasOverlap(row, a)
      BY <1>1, <1>4, <1>5, <2>3 DEF Undisturbed
    <3>2. appts[b] \in Row
      BY DEF Booked, IInv, TypeOK
    <3>3. Overlaps(appts[b], row)
      BY <1>3, <1>11, <3>2, SharedMinuteOverlaps
    <3> QED
      BY <1>11, <3>1, <3>3 DEF HasOverlap
  <2>4. CASE row # appts[a] /\ r \notin stale /\ q.kind \in StatusOnly
    <3>1. a \in Booked /\ SameSlot(appts[a], row) /\ Active(appts[a])
      BY <1>4, <1>5, <1>11, <2>4 DEF Undisturbed
    <3>2. ShareMinute(appts[b], appts[a])
      BY <1>11, <3>1 DEF ShareMinute, SameSlot
    <3>3. a \in tainted \/ b \in tainted
      BY <1>11, <3>1, <3>2 DEF IInv, OverlapOnlyByRace, Clash
    <3>4. tainted' = tainted
      BY <1>6, <2>4, KindsSplit
    <3> QED
      BY <3>3, <3>4
  <2> QED
    BY <1>2, <2>1, <2>2, <2>3, <2>4, KindsSplit
<1>12. OverlapOnlyByRace'
  <2> SUFFICES ASSUME NEW b \in Booked', NEW c \in Booked', Clash(b, c)'
               PROVE  b \in tainted' \/ c \in tainted'
    BY DEF OverlapOnlyByRace
  <2>1. /\ b # c /\ Active(appts'[b]) /\ Active(appts'[c])
        /\ ShareMinute(appts'[b], appts'[c])
    BY DEF Clash, Active, ShareMinute
  <2>2. CASE b # a /\ c # a
    <3>1. b \in Booked /\ c \in Booked /\ Clash(b, c)
      BY <1>7, <1>8, <2>1, <2>2 DEF Clash
    <3> QED
      BY <1>7, <1>8, <2>2, <3>1 DEF IInv, OverlapOnlyByRace
  <2>3. CASE b = a
    BY <1>7, <1>8, <1>11, <2>1, <2>3, ShareMinuteSymmetric
  <2>4. CASE c = a
    BY <1>7, <1>8, <1>11, <2>1, <2>4
  <2> QED
    BY <2>2, <2>3, <2>4
<1>13. a \notin tainted' => row.start < row.end
  <2>1. CASE row = appts[a]
    BY <1>9, <2>1 DEF IInv, SlotIsWhole
  <2>2. CASE row # appts[a] /\ r \in stale
    BY <1>6, <2>2
  <2>3. CASE row # appts[a] /\ r \notin stale /\ q.kind \in Placing
    BY <1>4, <1>5, <2>3 DEF Undisturbed
  <2>4. CASE row # appts[a] /\ r \notin stale /\ q.kind \in StatusOnly
    <3>1. a \in Booked /\ SameSlot(appts[a], row)
      BY <1>4, <1>5, <2>4 DEF Undisturbed
    <3>2. tainted' = tainted
      BY <1>6, <2>4, KindsSplit
    <3> QED
      BY <3>1, <3>2 DEF IInv, SlotIsWhole, SameSlot
  <2> QED
    BY <1>2, <2>1, <2>2, <2>3, <2>4, KindsSplit
<1>14. SlotIsWhole'
  BY <1>7, <1>8, <1>13 DEF IInv, SlotIsWhole
<1>15. ASSUME NEW p \in InFlight' \ stale' PROVE Undisturbed(p)'
  <2>1. p # r /\ p \in InFlight /\ req'[p] = req[p]
    BY <1>6, <1>15 DEF IInv, TypeOK, InFlight
  <2>2. p \notin stale /\ (row = appts[a] \/ p \notin Disturbed(a, row))
    BY <1>6, <1>15, <2>1
  <2>3. Undisturbed(p)
    BY <2>1, <2>2 DEF IInv, KnowsWhatItRead
  <2>4. CASE row = appts[a]
    <3>1. appts' = appts
      BY <1>2, <1>6, <2>4 DEF IInv, TypeOK
    <3> QED
      BY <2>1, <2>3, <3>1 DEF Undisturbed, Booked, HasOverlap
  <2>5. CASE p \notin Disturbed(a, row)
    <3>1. /\ req[p].appt # a
          /\ req[p].kind \in Placing /\ req[p].pc = "ready" =>
               ~(Active(row) /\ Overlaps(row, req[p].want))
      BY <2>1, <2>5 DEF Disturbed
    <3>2. req[p].appt \in Ids
      BY <2>1 DEF IInv, TypeOK, InFlight, Request
    <3>3. /\ appts'[req[p].appt] = appts[req[p].appt]
          /\ req[p].appt \in Booked' <=> req[p].appt \in Booked
      BY <1>7, <3>1, <3>2
    <3>4. ASSUME req[p].kind \in Placing, req[p].pc = "ready"
          PROVE  ~HasOverlap(req[p].want, req[p].appt)'
      <4>1. ~HasOverlap(req[p].want, req[p].appt)
        BY <2>3, <3>4 DEF Undisturbed
      <4>2. \A b \in Booked' \ {req[p].appt} :
              ~(Active(appts'[b]) /\ Overlaps(appts'[b], req[p].want))
        BY <1>7, <1>8, <3>1, <3>4, <4>1 DEF HasOverlap
      <4> QED
        BY <2>1, <4>2 DEF HasOverlap
    <3> QED
      BY <2>1, <2>3, <3>3, <3>4 DEF Undisturbed
  <2> QED
    BY <2>2, <2>4, <2>5
<1> QED
  BY <1>10, <1>12, <1>14, <1>15 DEF IInv, KnowsWhatItRead
----------------------------------------------------------------------------
\* Marking confirmed rows as attended moves no slot and frees none.
LEMMA ListAgendaIInv ==
  ASSUME IInv, ListAgenda
  PROVE  IInv'
<1> DEFINE marked(a) == IF a \in PastConfirmed
                        THEN [appts[a] EXCEPT !.status = "attended"] ELSE appts[a]
<1>1. /\ appts' = [a \in Ids |-> marked(a)]
      /\ stale' = stale \cup {r \in InFlight : req[r].appt \in PastConfirmed}
      /\ UNCHANGED <<req, now, tainted>>
  BY DEF ListAgenda
<1>2. ASSUME NEW a \in Booked
      PROVE  /\ a \in Ids /\ appts[a] \in Row /\ marked(a) \in Row
             /\ SameSlot(marked(a), appts[a])
             /\ Active(marked(a)) <=> Active(appts[a])
             /\ a \notin PastConfirmed => marked(a) = appts[a]
  <2>1. a \in Ids /\ appts[a] \in Row
    BY DEF Booked, IInv, TypeOK
  <2>2. a \in PastConfirmed => appts[a].status = "confirmed"
    BY DEF PastConfirmed
  <2> QED
    BY <2>1, <2>2 DEF Row, Statuses, SameSlot, Active
<1>3. ASSUME NEW a \in Ids, a \notin Booked PROVE marked(a) = NoRow
  BY <1>3 DEF Booked, PastConfirmed
<1> HIDE DEF marked
<1>4. Booked' = Booked
  BY <1>1, <1>2, <1>3 DEF Booked
<1>5. TypeOK'
  <2>1. \A a \in Ids : marked(a) \in Row \cup {NoRow}
    BY <1>2, <1>3
  <2>2. stale' \in SUBSET Requests
    BY <1>1 DEF IInv, TypeOK, InFlight
  <2> QED
    BY <1>1, <2>1, <2>2 DEF IInv, TypeOK
<1>6. \A a \in Booked : appts'[a] = marked(a)
  BY <1>1, <1>2
<1>7. OverlapOnlyByRace'
  <2> SUFFICES ASSUME NEW b \in Booked, NEW c \in Booked, Clash(b, c)'
               PROVE  b \in tainted \/ c \in tainted
    BY <1>1, <1>4 DEF OverlapOnlyByRace
  <2>1. /\ b # c /\ Active(marked(b)) /\ Active(marked(c))
        /\ ShareMinute(marked(b), marked(c))
    BY <1>6 DEF Clash, Active, ShareMinute
  <2>2. Active(appts[b]) /\ Active(appts[c])
    BY <1>2, <2>1
  <2>3. SameSlot(marked(b), appts[b]) /\ SameSlot(marked(c), appts[c])
    BY <1>2
  <2>4. ShareMinute(appts[b], appts[c])
    BY <2>1, <2>3 DEF ShareMinute, SameSlot
  <2> QED
    BY <2>1, <2>2, <2>4 DEF IInv, OverlapOnlyByRace, Clash
<1>8. SlotIsWhole'
  BY <1>1, <1>2, <1>4, <1>6 DEF IInv, SlotIsWhole, SameSlot
<1>9. ASSUME NEW p \in InFlight' \ stale' PROVE Undisturbed(p)'
  <2>1. /\ p \in InFlight \ stale /\ req'[p] = req[p]
        /\ req[p].appt \notin PastConfirmed
    BY <1>1, <1>9 DEF InFlight
  <2>2. Undisturbed(p)
    BY <2>1 DEF IInv, KnowsWhatItRead
  <2>3. req[p].appt \in Booked => appts'[req[p].appt] = appts[req[p].appt]
    BY <1>2, <1>6, <2>1
  <2>4. ASSUME NEW b \in Booked, Active(appts'[b]), Overlaps(appts'[b], req[p].want)
        PROVE  Active(appts[b]) /\ Overlaps(appts[b], req[p].want)
    <3>1. SameSlot(appts'[b], appts[b]) /\ Active(appts[b])
      BY <1>2, <1>6, <2>4
    <3> QED
      BY <2>4, <3>1 DEF SameSlot, Overlaps
  <2>5. ASSUME ~HasOverlap(req[p].want, req[p].appt)
        PROVE  ~HasOverlap(req[p].want, req[p].appt)'
    <3>1. \A b \in Booked' \ {req[p].appt} :
            ~(Active(appts'[b]) /\ Overlaps(appts'[b], req[p].want))
      BY <1>4, <2>4, <2>5 DEF HasOverlap
    <3> QED
      BY <2>1, <3>1 DEF HasOverlap
  <2> QED
    BY <1>4, <2>1, <2>2, <2>3, <2>5 DEF Undisturbed
<1> QED
  BY <1>5, <1>7, <1>8, <1>9 DEF IInv, KnowsWhatItRead

LEMMA UnchangedIInv ==
  ASSUME IInv, UNCHANGED <<appts, req, stale, tainted>>, now' \in 0 .. MaxNow
  PROVE  IInv'
<1>1. TypeOK'
  BY DEF IInv, TypeOK
<1>2. OverlapOnlyByRace' /\ SlotIsWhole'
  BY DEF IInv, OverlapOnlyByRace, SlotIsWhole, Clash, Booked
<1>3. KnowsWhatItRead'
  BY DEF IInv, KnowsWhatItRead, InFlight, Undisturbed, Booked, HasOverlap
<1> QED
  BY <1>1, <1>2, <1>3 DEF IInv

LEMMA NextIInv == IInv /\ [Next]_vars => IInv'
<1> SUFFICES ASSUME IInv, [Next]_vars PROVE IInv'
  OBVIOUS
<1>1. ASSUME NEW r \in Requests, Endpoint(r) \/ Webhook(r) PROVE IInv'
  BY <1>1, BeginIInv
<1>2. ASSUME NEW r \in Requests, Finish(r) PROVE IInv'
  BY <1>2, CheckIInv, CommitIInv DEF Finish
<1>3. CASE ListAgenda
  BY <1>3, ListAgendaIInv
<1>4. CASE Tick
  <2>1. now' \in 0 .. MaxNow
    BY <1>4, AgendaAssumption DEF Tick, IInv, TypeOK
  <2> QED
    BY <1>4, <2>1, UnchangedIInv DEF Tick
<1>5. CASE UNCHANGED vars
  <2>1. now' \in 0 .. MaxNow
    BY <1>5 DEF vars, IInv, TypeOK
  <2> QED
    BY <1>5, <2>1, UnchangedIInv DEF vars
<1> QED
  BY <1>1, <1>2, <1>3, <1>4, <1>5 DEF Next

LEMMA Inductive == Spec => []IInv
BY InitIInv, NextIInv, PTL DEF Spec
----------------------------------------------------------------------------
\* The table and the requests in flight keep their types under every
\* interleaving of the endpoints, the webhook and attendance marking.
THEOREM TypeCorrect == Spec => []TypeOK
<1>1. IInv => TypeOK
  BY DEF IInv
<1> QED
  BY <1>1, Inductive, PTL

\* Two active appointments of one staff member share a minute only if one of
\* them was last written by a request that committed on what another request
\* had changed since it read it (has_overlap, Commit).
THEOREM DoubleBookingNeedsARace == Spec => []OverlapOnlyByRace
<1>1. IInv => OverlapOnlyByRace
  BY DEF IInv
<1> QED
  BY <1>1, Inductive, PTL

\* A row no raced request wrote last ends after it starts (_calculate_end_time).
THEOREM WholeSlots == Spec => []SlotIsWhole
<1>1. IInv => SlotIsWhole
  BY DEF IInv
<1> QED
  BY <1>1, Inductive, PTL
----------------------------------------------------------------------------
\* What the requests in flight know of the status they may overwrite.
FreshStaysFresh ==
  \A r \in InFlight :
    req[r].kind \in {"create", "autobook"} =>
      /\ req[r].appt \notin Booked
      /\ \A p \in InFlight \ {r} : req[p].appt # req[r].appt

RescheduleKeepsStatus ==
  \A r \in InFlight : req[r].kind = "reschedule" => "status" \notin req[r].dirty

OpenWhenRead ==
  \A r \in InFlight \ stale :
    req[r].kind \in {"status", "reply"} => appts[req[r].appt].status \notin Terminal

SInv == FreshStaysFresh /\ RescheduleKeepsStatus /\ OpenWhenRead

\* What a request has in its hands once it has read.
Reads(r, q) ==
  /\ req[r] = NotYet
  /\ req' = [req EXCEPT ![r] = q]
  /\ UNCHANGED <<appts, now, tainted>>
  /\ stale \subseteq stale'
  /\ tainted = {} => stale' = stale
  /\ Cardinality(InFlight) < MaxInFlight
  /\ q.appt \in Booked \/ q.appt \in FreshIds
  /\ q.kind \in {"create", "autobook"} => q.appt \in FreshIds
  /\ q.kind = "reschedule" => "status" \notin q.dirty
  /\ q.kind \in {"status", "reply"} => appts[q.appt].status \notin Terminal

LEMMA LoadReads ==
  ASSUME NEW r \in Requests, NEW kind, NEW a, NEW want, NEW dirty, NEW suspect,
         Load(r, kind, a, want, dirty, suspect),
         suspect => tainted # {},
         a \in Booked \/ a \in FreshIds,
         kind \in {"create", "autobook"} => a \in FreshIds,
         kind = "reschedule" => "status" \notin dirty,
         kind \in {"status", "reply"} => appts[a].status \notin Terminal
  PROVE  \E q : Reads(r, q)
<1> DEFINE q == [pc |-> IF kind \in Placing THEN "loaded" ELSE "ready",
                 kind |-> kind, appt |-> a, want |-> want, dirty |-> dirty]
<1>1. /\ req[r] = NotYet /\ req' = [req EXCEPT ![r] = q]
      /\ UNCHANGED <<appts, now, tainted>> /\ stale \subseteq stale'
      /\ tainted = {} => stale' = stale
      /\ Cardinality(InFlight) < MaxInFlight
  BY DEF Load
<1>2. q.kind = kind /\ q.appt = a /\ q.dirty = dirty
  OBVIOUS
<1> HIDE DEF q
<1> QED
  BY <1>1, <1>2 DEF Reads

LEMMA BeginReads ==
  ASSUME NEW r \in Requests, Endpoint(r) \/ Webhook(r)
  PROVE  \E q : Reads(r, q)
<1>1. CASE BeginCreate(r)
  BY <1>1, LoadReads DEF BeginCreate
<1>2. CASE BeginUpdate(r)
  BY <1>2, LoadReads DEF BeginUpdate
<1>3. CASE BeginReschedule(r)
  <2>1. PICK a \in Booked, d \in Dates, s \in Times, duration \in Durations :
          LET want == [NewRow(appts[a].user, d, s, duration)
                         EXCEPT !.status = appts[a].status] IN
          Load(r, "reschedule", a, want, Dirty(appts[a], want), FALSE)
    BY <1>3 DEF BeginReschedule
  <2> DEFINE want == [NewRow(appts[a].user, d, s, duration)
                        EXCEPT !.status = appts[a].status]
             dirty == Dirty(appts[a], want)
  <2>2. want.status = appts[a].status
    BY DEF NewRow
  <2>3. "status" \notin dirty
    BY <2>2 DEF Dirty
  <2>4. Load(r, "reschedule", a, want, dirty, FALSE)
    BY <2>1
  <2> HIDE DEF want, dirty
  <2> QED
    BY <2>3, <2>4, LoadReads
<1>4. CASE BeginCancel(r)
  BY <1>4, LoadReads DEF BeginCancel
<1>5. CASE BeginChangeStatus(r)
  BY <1>5, LoadReads DEF BeginChangeStatus, CanChangeStatus
<1>6. CASE BeginReply(r)
  BY <1>6, LoadReads DEF BeginReply, Repliable, Terminal
<1>7. CASE BeginAutoBook(r)
  <2>1. PICK a \in FreshIds, b \in Booked :
          Load(r, "autobook", a, [appts[b] EXCEPT !.status = "pending"], Columns,
               b \in tainted)
    BY <1>7 DEF BeginAutoBook
  <2> DEFINE want == [appts[b] EXCEPT !.status = "pending"]
  <2>2. \/ Load(r, "autobook", a, want, Columns, TRUE) /\ b \in tainted
        \/ Load(r, "autobook", a, want, Columns, FALSE)
    <3>1. (b \in tainted) = TRUE \/ (b \in tainted) = FALSE
      OBVIOUS
    <3> QED
      BY <2>1, <3>1
  <2> HIDE DEF want
  <2>3. "autobook" \notin {"reschedule", "status", "reply"}
    OBVIOUS
  <2> QED
    BY <2>2, <2>3, LoadReads
<1> QED
  BY <1>1, <1>2, <1>3, <1>4, <1>5, <1>6, <1>7 DEF Endpoint, Webhook

LEMMA InitSInv == Init => SInv
BY DEF Init, SInv, FreshStaysFresh, RescheduleKeepsStatus, OpenWhenRead, InFlight

LEMMA BeginSInv ==
  ASSUME IInv, SInv, NEW r \in Requests, Endpoint(r) \/ Webhook(r)
  PROVE  SInv'
<1>1. PICK q : Reads(r, q)
  BY BeginReads
<1>2. /\ req'[r] = q
      /\ \A p \in InFlight' \ {r} : p \in InFlight /\ req'[p] = req[p]
      /\ r \notin InFlight
      /\ Booked' = Booked
  BY <1>1 DEF Reads, IInv, TypeOK, InFlight, Booked
<1>3. FreshStaysFresh'
  <2> SUFFICES ASSUME NEW x \in InFlight', req'[x].kind \in {"create", "autobook"}
               PROVE  /\ req'[x].appt \notin Booked
                      /\ \A p \in InFlight' \ {x} : req'[p].appt # req'[x].appt
    BY <1>2 DEF FreshStaysFresh
  <2>1. CASE x = r
    BY <1>1, <1>2, <2>1 DEF Reads, FreshIds
  <2>2. CASE x # r
    <3>1. /\ x \in InFlight /\ req'[x] = req[x]
          /\ req[x].appt \notin Booked
          /\ \A p \in InFlight \ {x} : req[p].appt # req[x].appt
      BY <1>2, <2>2 DEF SInv, FreshStaysFresh
    <3>2. q.appt # req[x].appt
      BY <1>1, <3>1 DEF Reads, FreshIds
    <3> QED
      BY <1>2, <3>1, <3>2
  <2> QED
    BY <2>1, <2>2
<1>4. RescheduleKeepsStatus'
  BY <1>1, <1>2 DEF Reads, SInv, RescheduleKeepsStatus
<1>5. OpenWhenRead'
  <2>1. ASSUME NEW x \in InFlight' \ stale', req'[x].kind \in {"status", "reply"}
        PROVE  appts'[req'[x].appt].status \notin Terminal
    <3>1. x \notin stale /\ appts' = appts
      BY <1>1, <2>1 DEF Reads
    <3>2. CASE x = r
      BY <1>1, <1>2, <2>1, <3>1, <3>2 DEF Reads
    <3>3. CASE x # r
      BY <1>2, <2>1, <3>1, <3>3 DEF SInv, OpenWhenRead
    <3> QED
      BY <3>2, <3>3
  <2> QED
    BY <2>1 DEF OpenWhenRead
<1> QED
  BY <1>3, <1>4, <1>5 DEF SInv

LEMMA FinishSInv ==
  ASSUME IInv, SInv, NEW r \in Requests, Finish(r)
  PROVE  SInv'
<1>1. r \in InFlight /\ req[r] \in Request /\ req[r].appt \in Ids
  BY DEF Finish, CheckPasses, CheckRefuses, Commit, IInv, TypeOK, InFlight, Request
<1>2. \A p \in InFlight' : /\ p \in InFlight
                           /\ req'[p].kind = req[p].kind /\ req'[p].appt = req[p].appt
                           /\ req'[p].dirty = req[p].dirty
  BY <1>1 DEF Finish, CheckPasses, CheckRefuses, Commit, Write, IInv, TypeOK, InFlight, Request
<1>3. CASE CheckPasses(r) \/ CheckRefuses(r)
  <2>1. appts' = appts /\ Booked' = Booked
    BY <1>3 DEF CheckPasses, CheckRefuses, Booked
  <2>2. \A p \in InFlight' \ stale' : p \in InFlight \ stale
    BY <1>1, <1>2, <1>3 DEF CheckPasses, CheckRefuses, IInv, TypeOK, InFlight
  <2> QED
    BY <1>2, <2>1, <2>2
    DEF SInv, FreshStaysFresh, RescheduleKeepsStatus, OpenWhenRead
<1>4. CASE Commit(r)
  <2> DEFINE a == req[r].appt
  <2>1. PICK row : Write(r, a, row)
    BY <1>4 DEF Commit
  <2>2. /\ Booked' \subseteq Booked \cup {a}
        /\ \A b \in Ids \ {a} : appts'[b] = appts[b]
        /\ \A p \in InFlight' : p # r
        /\ row = appts[a] => appts' = appts
    BY <1>1, <2>1 DEF Write, IInv, TypeOK, Booked, InFlight
  <2>3. FreshStaysFresh'
    <3> SUFFICES ASSUME NEW x \in InFlight', req'[x].kind \in {"create", "autobook"}
                 PROVE  /\ req'[x].appt \notin Booked'
                        /\ \A p \in InFlight' \ {x} : req'[p].appt # req'[x].appt
      BY DEF FreshStaysFresh
    <3>1. /\ x \in InFlight /\ x # r /\ req[x].appt \notin Booked
          /\ \A p \in InFlight \ {x} : req[p].appt # req[x].appt
      BY <1>2, <2>2 DEF SInv, FreshStaysFresh
    <3> QED
      BY <1>1, <1>2, <2>2, <3>1
  <2>4. RescheduleKeepsStatus'
    BY <1>2 DEF SInv, RescheduleKeepsStatus
  <2>5. ASSUME NEW x \in InFlight' \ stale', req'[x].kind \in {"status", "reply"}
        PROVE  appts'[req'[x].appt].status \notin Terminal
    <3>1. /\ x \in InFlight /\ x # r /\ x \notin stale
          /\ row = appts[a] \/ x \notin Disturbed(a, row)
      BY <1>2, <2>1, <2>2, <2>5 DEF Write
    <3>2. appts[req[x].appt].status \notin Terminal
      BY <1>2, <2>5, <3>1 DEF SInv, OpenWhenRead
    <3>3. req[x].appt \in Ids
      BY <3>1 DEF IInv, TypeOK, InFlight, Request
    <3>4. appts'[req[x].appt] = appts[req[x].appt]
      BY <2>2, <3>1, <3>3 DEF Disturbed
    <3> QED
      BY <1>2, <3>2, <3>4
  <2> QED
    BY <2>3, <2>4, <2>5 DEF SInv, OpenWhenRead
<1> QED
  BY <1>3, <1>4 DEF Finish

LEMMA ListAgendaSInv ==
  ASSUME IInv, SInv, ListAgenda
  PROVE  SInv'
<1>1. /\ req' = req
      /\ \A a \in Ids : a \notin PastConfirmed => appts'[a] = appts[a]
      /\ stale' = stale \cup {r \in InFlight : req[r].appt \in PastConfirmed}
  BY DEF ListAgenda
<1>2. InFlight' = InFlight
  BY <1>1 DEF InFlight
<1>3. Booked' \subseteq Booked
  BY <1>1 DEF Booked, PastConfirmed
<1>4. \A r \in InFlight : req[r].appt \in Ids
  BY DEF IInv, TypeOK, InFlight, Request
<1> QED
  BY <1>1, <1>2, <1>3, <1>4
  DEF SInv, FreshStaysFresh, RescheduleKeepsStatus, OpenWhenRead

LEMMA NextSInv == IInv /\ SInv /\ [Next]_vars => SInv'
<1> SUFFICES ASSUME IInv, SInv, [Next]_vars PROVE SInv'
  OBVIOUS
<1>1. ASSUME NEW r \in Requests, Endpoint(r) \/ Webhook(r) PROVE SInv'
  BY <1>1, BeginSInv
<1>2. ASSUME NEW r \in Requests, Finish(r) PROVE SInv'
  BY <1>2, FinishSInv
<1>3. CASE ListAgenda
  BY <1>3, ListAgendaSInv
<1>4. CASE UNCHANGED <<appts, req, stale>>
  BY <1>4 DEF SInv, FreshStaysFresh, RescheduleKeepsStatus, OpenWhenRead, InFlight, Booked
<1> QED
  BY <1>1, <1>2, <1>3, <1>4 DEF Next, Tick, vars

LEMMA TerminalStep ==
  ASSUME IInv, SInv, Next, NEW a \in Booked,
         appts[a].status \in Terminal, appts'[a].status # appts[a].status
  PROVE  \E r \in Requests :
           /\ Finishes(r, a)
           /\ "status" \in req[r].dirty
           /\ req[r].kind \in {"update", "cancel"} \/ r \in stale
<1>1. appts' # appts
  OBVIOUS
<1>2. ASSUME NEW r \in Requests, Endpoint(r) \/ Webhook(r) PROVE FALSE
  <2>1. \E q : Reads(r, q)
    BY <1>2, BeginReads
  <2> QED
    BY <1>1, <2>1 DEF Reads
<1>3. ~ListAgenda
  <2>1. a \in Ids /\ a \notin PastConfirmed
    BY DEF Booked, PastConfirmed, Terminal
  <2> QED
    BY <2>1 DEF ListAgenda
<1>4. ~Tick
  BY <1>1 DEF Tick
<1>5. PICK r \in Requests : Finish(r)
  BY <1>2, <1>3, <1>4 DEF Next
<1>6. Commit(r)
  BY <1>1, <1>5 DEF Finish, CheckPasses, CheckRefuses
<1>7. r \in InFlight /\ req[r] \in Request /\ req[r].pc = "ready" /\ a \in Ids
  BY <1>6 DEF Commit, IInv, TypeOK, InFlight, Booked
<1>8. req[r].appt = a
  BY <1>6, <1>7 DEF Commit, Write, IInv, TypeOK
<1>9. appts'[a] = Merge(appts[a], req[r].want, req[r].dirty)
  BY <1>6, <1>7, <1>8 DEF Commit, Write, IInv, TypeOK
<1>10. Finishes(r, a)
  BY <1>6, <1>7, <1>8 DEF Commit, Write, Finishes, IInv, TypeOK
<1>11. "status" \in req[r].dirty
  BY <1>9 DEF Merge
<1>12. req[r].kind \notin {"create", "autobook", "reschedule"}
  BY <1>7, <1>8, <1>11 DEF SInv, FreshStaysFresh, RescheduleKeepsStatus
<1>13. req[r].kind \in {"status", "reply"} => r \in stale
  BY <1>7, <1>8 DEF SInv, OpenWhenRead
<1>14. req[r].kind \in Kinds
  BY <1>7 DEF Request
<1> QED
  BY <1>10, <1>11, <1>12, <1>13, <1>14 DEF Kinds, Placing, StatusOnly

\* A cancelled or attended appointment gets another status only from a PATCH
\* that names one, from a DELETE, or from a request that raced (change_status,
\* whose guard is read before the commit; reschedule never writes the column).
THEOREM TerminalStatusesHold == Spec => ReopenedOnlyByPatchOrRace
<1> DEFINE A == \A a \in Booked :
                  appts[a].status \in Terminal /\ appts'[a].status # appts[a].status =>
                    \E r \in Requests :
                      /\ Finishes(r, a)
                      /\ "status" \in req[r].dirty
                      /\ req[r].kind \in {"update", "cancel"} \/ r \in stale
<1>1. IInv /\ SInv /\ [Next]_vars => [A]_vars
  BY TerminalStep
<1>2. IInv /\ SInv /\ [Next]_vars => SInv'
  BY NextSInv
<1> HIDE DEF A
<1>3. Spec => [][A]_vars
  BY <1>1, <1>2, InitSInv, Inductive, PTL DEF Spec
<1> QED
  BY <1>3 DEF ReopenedOnlyByPatchOrRace, A
-----------------------------------------------------------------------------
LEMMA EndOfShortService ==
  ASSUME NEW d \in Dates, NEW s \in Grid(d), NEW duration \in Durations,
         duration <= SlotMinutes
  PROVE  /\ EndTime(s, duration) = s + duration
         /\ s < s + duration /\ s + duration <= s + SlotMinutes
         /\ s + SlotMinutes <= ClosesAt[d]
<1>1. /\ s \in Nat /\ duration \in Nat /\ duration >= 1 /\ SlotMinutes \in Nat
      /\ s + SlotMinutes <= ClosesAt[d] /\ ClosesAt[d] \in 0 .. (DayLen - 1)
  BY AgendaAssumption DEF Grid, Times
<1>2. s + duration \in 0 .. (DayLen - 1) /\ DayLen \in Nat \ {0}
  BY <1>1, AgendaAssumption
<1>3. \A n \in 0 .. (DayLen - 1) : n % DayLen = n
  BY AgendaAssumption
<1>4. (s + duration) % DayLen = s + duration
  BY <1>2, <1>3
<1> QED
  BY <1>1, <1>4 DEF EndTime

LEMMA OfferIsAccepted ==
  ASSUME TypeOK, NEW u \in Staff, NEW d \in Dates, NEW s \in FreeSlots(u, d),
         NEW duration \in Durations, duration <= SlotMinutes
  PROVE  /\ FitsInDay(s, duration) /\ WithinBusinessHours(NewRow(u, d, s, duration))
         /\ ~HasOverlap(NewRow(u, d, s, duration), NoRow)
<1> DEFINE row == NewRow(u, d, s, duration)
<1>1. s \in Grid(d) /\ ~IsBusy(u, d, s)
  BY DEF FreeSlots
<1>2. /\ EndTime(s, duration) = s + duration
      /\ s < s + duration /\ s + duration <= s + SlotMinutes
      /\ s + SlotMinutes <= ClosesAt[d]
  BY <1>1, EndOfShortService
<1>3. row.user = u /\ row.date = d /\ row.start = s /\ row.end = s + duration
  BY <1>2 DEF NewRow
<1>4. /\ s \in Nat /\ duration \in Nat /\ SlotMinutes \in Nat /\ s >= OpensAt[d]
      /\ OpensAt[d] \in Nat /\ ClosesAt[d] \in Nat
  BY <1>1, AgendaAssumption DEF Grid, Times
<1>5. WithinBusinessHours(row)
  BY <1>2, <1>3, <1>4 DEF WithinBusinessHours
<1>6. ASSUME NEW b \in Booked, Active(appts[b]), Overlaps(appts[b], row)
      PROVE  FALSE
  <2>1. appts[b].start \in Nat /\ appts[b].end \in Nat
    BY DEF TypeOK, Booked, Row, Times
  <2>2. Overlaps(appts[b], Slot(u, d, s))
    BY <1>2, <1>3, <1>4, <1>6, <2>1 DEF Overlaps, Slot
  <2> QED
    BY <1>1, <1>6, <2>2 DEF IsBusy
<1>7. FitsInDay(s, duration)
  BY <1>2 DEF FitsInDay
<1> QED
  BY <1>5, <1>6, <1>7 DEF HasOverlap

LEMMA BusySlotIsTaken ==
  ASSUME TypeOK, SlotIsWhole, NEW u \in Staff, NEW d \in Dates, NEW s \in Grid(d),
         IsBusy(u, d, s)
  PROVE  \E a \in Booked : /\ Active(appts[a])
                           /\ a \in tainted \/ ShareMinute(appts[a], Slot(u, d, s))
<1>1. PICK a \in Booked : Active(appts[a]) /\ Overlaps(appts[a], Slot(u, d, s))
  BY DEF IsBusy
<1>2. CASE a \in tainted
  BY <1>1, <1>2
<1>3. CASE a \notin tainted
  <2> DEFINE t == IF appts[a].start <= s THEN s ELSE appts[a].start
  <2>1. appts[a].start \in Times /\ appts[a].end \in Times /\ appts[a].start < appts[a].end
    BY <1>3 DEF TypeOK, Booked, Row, SlotIsWhole
  <2>2. s \in Times /\ SlotMinutes \in Nat \ {0}
    BY AgendaAssumption DEF Grid
  <2>3. /\ appts[a].user = u /\ appts[a].date = d
        /\ appts[a].start < s + SlotMinutes /\ appts[a].end > s
    BY <1>1 DEF Overlaps, Slot
  <2>4. /\ t \in Times /\ appts[a].start <= t /\ t < appts[a].end
        /\ s <= t /\ t < s + SlotMinutes
    BY <2>1, <2>2, <2>3 DEF Times
  <2>5. ShareMinute(appts[a], Slot(u, d, s))
    BY <2>3, <2>4 DEF ShareMinute, Slot
  <2> QED
    BY <1>1, <2>5
<1> QED
  BY <1>2, <1>3

\* Whatever the grid, the hours and the requests in flight, what get_availability
\* offers is what create_appointment accepts.
THEOREM OffersHold == Spec => []OffersAreBookable
<1>1. IInv => OffersAreBookable
  <2> SUFFICES ASSUME IInv, NEW u \in Staff, NEW d \in Dates, NEW s \in Times
               PROVE  /\ s \in FreeSlots(u, d) =>
                           \A duration \in Durations : duration <= SlotMinutes =>
                             LET row == NewRow(u, d, s, duration) IN
                             /\ FitsInDay(s, duration) /\ WithinBusinessHours(row)
                             /\ ~HasOverlap(row, NoRow)
                      /\ s \in Grid(d) \ FreeSlots(u, d) =>
                           \/ IsPast(d, s)
                           \/ \E a \in Booked :
                                /\ Active(appts[a])
                                /\ a \in tainted \/ ShareMinute(appts[a], Slot(u, d, s))
    BY DEF OffersAreBookable
  <2>1. TypeOK /\ SlotIsWhole
    BY DEF IInv
  <2>2. s \in FreeSlots(u, d) =>
          \A duration \in Durations : duration <= SlotMinutes =>
            LET row == NewRow(u, d, s, duration) IN
            /\ FitsInDay(s, duration) /\ WithinBusinessHours(row)
            /\ ~HasOverlap(row, NoRow)
    BY <2>1, OfferIsAccepted
  <2>3. s \in Grid(d) \ FreeSlots(u, d) => IsPast(d, s) \/ IsBusy(u, d, s)
    BY DEF FreeSlots
  <2>4. s \in Grid(d) /\ IsBusy(u, d, s) =>
          \E a \in Booked : /\ Active(appts[a])
                            /\ a \in tainted \/ ShareMinute(appts[a], Slot(u, d, s))
    BY <2>1, BusySlotIsTaken
  <2> QED
    BY <2>2, <2>3, <2>4
<1> QED
  BY <1>1, Inductive, PTL
=============================================================================
