----------------------------- MODULE Reminders -----------------------------
(***************************************************************************)
(* Reminders: the 24 h and the 2 h job of the scheduler, and the script    *)
(* that sends tomorrow's reminders by hand.                                *)
(*                                                                         *)
(* A run goes through the businesses; for each it queries once the pending *)
(* appointments without the flag, then takes them one by one: looks at the *)
(* client, awaits the provider, sets the flag and commits.  Two runs of    *)
(* one job never overlap (APScheduler), but the two jobs, the script,      *)
(* which is a process of its own, and everything that writes appointments  *)
(* come in between.                                                        *)
(*                                                                         *)
(* Abstractions.  Time goes in steps of some hours; a start is a step, its *)
(* date the day it lies in, and all businesses share one clock.  Status    *)
(* "closed" is any but pending: the jobs tell no others apart.  A business *)
(* is served while it has a plan with reminders and an instance.           *)
(***************************************************************************)
EXTENDS Integers, FiniteSets

CONSTANTS
  Appts, Tenants,
  TenantOf,   \* appointment -> business
  BadZone,    \* businesses whose timezone_identifier names no zone
  Starts,     \* when an appointment may start
  DayLength,  \* clock steps in a day
  Ahead,      \* clock steps in two hours
  Begin,      \* where the clock begins
  MaxNow,     \* bound on the clock
  MaxEdits,   \* bound on what others change: appointments, opt-outs, service
  MaxScripts, \* bound on the runs of the script
  MaxLosses,  \* bound on refused sends, lost marks and crashes
  NoRow,      \* "no such appointment"
  Expired     \* "to be read again": the session expires what it holds on commit

ASSUME RemindersAssumption ==
  /\ TenantOf \in [Appts -> Tenants] /\ BadZone \subseteq Tenants
  /\ Starts \subseteq Nat /\ DayLength \in Nat \ {0} /\ Ahead \in Nat
  /\ Begin \in Nat /\ MaxNow \in Nat /\ MaxEdits \in Nat /\ MaxScripts \in Nat /\ MaxLosses \in Nat
  /\ Expired \notin Nat /\ NoRow \notin Nat \cup Appts \cup {Expired}

VARIABLES
  rows,       \* the table: appointment -> row
  job,        \* job -> the run it is in
  now,        \* the clock
  served,     \* businesses with plan and instance
  reachable,  \* appointments whose client has a phone and no opt-out
  edits,      \* changes by others so far
  scripts,    \* runs of the script so far
  losses,     \* failures so far
  delivered,  \* history: kind -> appointment -> reminders accepted
  lost        \* history: kind -> appointment -> accepted, then not recorded

env  == <<rows, now, served, reachable, edits>>
hist == <<scripts, losses, delivered, lost>>
vars == <<env, job, hist>>

Jobs    == {"job24", "job2", "script"}
Kinds   == {"24h", "2h"}
Kind(j) == IF j = "job2" THEN "2h" ELSE "24h"

Row == [start : Starts, status : {"pending", "closed"},
        sent : SUBSET Kinds, last : Kinds \cup {"none"}]

\* left: businesses to come; seen: the start loaded of the appointments to go;
\* cur, told: the one being sent and the start its text names; changed, a
\* history: those written by others since the query.
Run == [phase : {"idle", "next", "sending"}, force : BOOLEAN,
        left : SUBSET Tenants, now : Nat,
        seen : [Appts -> Starts \cup {Expired, NoRow}],
        cur : Appts \cup {NoRow}, told : Starts \cup {Expired},
        changed : SUBSET Appts]

ASSUME RowAssumption == NoRow \notin Row

NoRun == [phase |-> "idle", force |-> FALSE, left |-> {}, now |-> 0,
          seen |-> [a \in Appts |-> NoRow], cur |-> NoRow,
          told |-> Expired, changed |-> {}]

Booked     == {a \in Appts : rows[a] # NoRow}
ToGo(r)    == {a \in Appts : r.seen[a] # NoRow}
Owns(r, a) == a \in ToGo(r) \/ (r.phase = "sending" /\ r.cur = a)

Day(t)   == t \div DayLength
\* appointment_date == tomorrow; or today, and in the next two hours of the run.
OnDay(k, start, t)    == Day(start) = IF k = "24h" THEN Day(t) + 1 ELSE Day(t)
InWindow(k, start, t) == k = "24h" \/ (t < start /\ start <= t + Ahead)
Due(k, start, t)      == OnDay(k, start, t) /\ InWindow(k, start, t)
----------------------------------------------------------------------------
\* A run that has nothing left is over.
Rest(r) == IF ToGo(r) = {} /\ r.left = {} THEN NoRun ELSE r

\* Go on after an appointment; a commit or a rollback expires what was loaded.
Proceed(r) ==
  Rest([r EXCEPT !.phase = "next", !.cur = NoRow, !.told = Expired,
                 !.changed = @ \cap ToGo(r),
                 !.seen = [a \in Appts |-> IF @[a] = NoRow THEN NoRow ELSE Expired]])

Fresh(S, force) == [NoRun EXCEPT !.phase = "next", !.left = S, !.force = force]

\* The runs job j may be in when it comes to a business: the one it is in, or
\* a new one, every five minutes for the jobs, by hand for the script.
Opened(j) ==
  IF job[j].phase # "idle" THEN {job[j]}
  ELSE IF j # "script" THEN {Fresh(Tenants, FALSE)}
  ELSE IF scripts = MaxScripts THEN {}
  ELSE {Fresh(S, force) : S \in {Tenants} \cup {{t} : t \in Tenants}, force \in BOOLEAN}
----------------------------------------------------------------------------
AnyStatus(j, t, force) ==   \* mutant
  {a \in Booked : /\ TenantOf[a] = t /\ OnDay(Kind(j), rows[a].start, now)
                  /\ (force \/ Kind(j) \notin rows[a].sent)}
\* The query of a run for one business.
Eligible(j, t, force) ==
  {a \in Booked : /\ TenantOf[a] = t /\ OnDay(Kind(j), rows[a].start, now)
                  /\ rows[a].status = "pending"
                  /\ (force \/ Kind(j) \notin rows[a].sent)}

\* The next business: its clock, and its appointments if it is served.
Query(j, t) ==
  \E r \in Opened(j) :
    LET found == IF t \in served THEN Eligible(j, t, r.force) ELSE {} IN
    /\ r.phase = "next"
    /\ ToGo(r) = {}
    /\ t \in r.left
    /\ job' = [job EXCEPT ![j] = Rest([r EXCEPT
                 !.left = @ \ {t}, !.now = now, !.changed = {},
                 !.seen = [a \in Appts |-> IF a \in found THEN rows[a].start ELSE NoRow]])]
    /\ scripts' = IF j = "script" /\ job[j].phase = "idle" THEN scripts + 1 ELSE scripts
    /\ UNCHANGED <<env, losses, delivered, lost>>
----------------------------------------------------------------------------
\* What the run believes the start to be when it comes to appointment a.
Loaded(j, a) == IF job[j].seen[a] = Expired THEN rows[a].start ELSE job[j].seen[a]

Drop(r, a) == [r EXCEPT !.changed = @ \ {a}, !.seen[a] = NoRow]

Take(r, a, told) == [r EXCEPT !.phase = "sending", !.cur = a, !.told = told,
                              !.seen[a] = NoRow]

\* _appointment_datetime_for_tenant builds the zone of the business; the 24 h
\* messages never do.
ZoneAlwaysFails(j, a) == TenantOf[a] \in BadZone   \* mutant
ZoneFails(j, a) == Kind(j) = "2h" /\ TenantOf[a] \in BadZone

IsTurn(j, a) == job[j].phase = "next" /\ a \in ToGo(job[j])

\* It raises outside the try: the run ends, and with it the businesses to come.
Abort(j, a) ==
  /\ IsTurn(j, a)
  /\ ZoneFails(j, a)
  /\ job' = [job EXCEPT ![j] = NoRun]
  /\ UNCHANGED <<env, hist>>

\* Outside the two hours, or the client cannot be written to.
Skip(j, a) ==
  /\ IsTurn(j, a)
  /\ ~ZoneFails(j, a)
  /\ ~InWindow(Kind(j), Loaded(j, a), job[j].now) \/ a \notin reachable
  /\ job' = [job EXCEPT ![j] = Rest(Drop(@, a))]
  /\ UNCHANGED <<env, hist>>

\* The text is built and handed to the provider.
Address(j, a) ==
  /\ IsTurn(j, a)
  /\ ~ZoneFails(j, a)
  /\ InWindow(Kind(j), Loaded(j, a), job[j].now)
  /\ a \in reachable
  /\ job' = [job EXCEPT ![j] = Take(@, a, Loaded(j, a))]
  /\ UNCHANGED <<env, hist>>

MarkedLast(row, k) == [row EXCEPT !.last = k]   \* mutant
MarkedTest(row, k) == [row EXCEPT !.sent = @ \cup {k}, !.last = "test"]   \* mutant
Marked(row, k)     == [row EXCEPT !.sent = @ \cup {k}, !.last = k]

Delivered(j) ==
  delivered' = [delivered EXCEPT ![Kind(j)][job[j].cur] = @ + 1]

\* Accepted: the flag and the last notification, and no other column, are
\* committed in one go with the return of the await.
Mark(j) ==
  /\ job[j].phase = "sending"
  /\ Delivered(j)
  /\ rows' = [rows EXCEPT ![job[j].cur] = Marked(@, Kind(j))]
  /\ job' = [job EXCEPT ![j] = Proceed(@)]
  /\ UNCHANGED <<now, served, reachable, edits, scripts, losses, lost>>

Fails ==
  /\ losses < MaxLosses
  /\ losses' = losses + 1
  /\ UNCHANGED <<env, scripts>>

\* Not accepted: rollback, and the next appointment.
Refuse(j) ==
  /\ job[j].phase = "sending"
  /\ job' = [job EXCEPT ![j] = Proceed(@)]
  /\ Fails
  /\ UNCHANGED <<delivered, lost>>

\* Accepted, but the answer is lost, the commit fails or the process dies.
LoseMark(j, dies) ==
  /\ job[j].phase = "sending"
  /\ Delivered(j)
  /\ lost' = [lost EXCEPT ![Kind(j)][job[j].cur] = @ + 1]
  /\ job' = [job EXCEPT ![j] = IF dies THEN NoRun ELSE Proceed(@)]
  /\ Fails

\* The process of the run dies; the next run knows only the table.
Crash(j) ==
  /\ job[j].phase # "idle"
  /\ job' = [job EXCEPT ![j] = NoRun]
  /\ Fails
  /\ UNCHANGED <<delivered, lost>>
----------------------------------------------------------------------------
\* A row written by somebody else is noted in the runs that have it.
Write(a, row) ==
  /\ rows' = [rows EXCEPT ![a] = row]
  /\ job' = [j \in Jobs |-> IF Owns(job[j], a)
                            THEN [job[j] EXCEPT !.changed = @ \cup {a}] ELSE job[j]]
  /\ UNCHANGED <<now, served, reachable, hist>>

Book(a, start) ==
  /\ rows[a] = NoRow
  /\ Write(a, [start |-> start, status |-> "pending", sent |-> {}, last |-> "none"])
  /\ UNCHANGED edits

Counted == edits < MaxEdits /\ edits' = edits + 1

\* A reply of the customer: the status and last_notification_type.
Reply(a) ==
  /\ a \in Booked
  /\ rows[a].status = "pending"
  /\ Write(a, [rows[a] EXCEPT !.status = "closed", !.last = "none"])
  /\ Counted

\* PATCH, reschedule, cancel and the like; no endpoint touches the flags.
Edit(a, start, status) ==
  /\ a \in Booked
  /\ Write(a, [rows[a] EXCEPT !.start = start, !.status = status])
  /\ Counted

OptOut(a) ==
  /\ a \in reachable
  /\ reachable' = reachable \ {a}
  /\ Counted
  /\ UNCHANGED <<rows, now, served, job, hist>>

SetServed(t) ==
  /\ served' = IF t \in served THEN served \ {t} ELSE served \cup {t}
  /\ Counted
  /\ UNCHANGED <<rows, now, reachable, job, hist>>

Tick ==
  /\ now < MaxNow
  /\ now' = now + 1
  /\ UNCHANGED <<rows, served, reachable, edits, job, hist>>
----------------------------------------------------------------------------
Init ==
  /\ rows = [a \in Appts |-> NoRow]
  /\ job = [j \in Jobs |-> NoRun]
  /\ now = Begin /\ served = Tenants /\ reachable = Appts
  /\ edits = 0 /\ scripts = 0 /\ losses = 0
  /\ delivered = [k \in Kinds |-> [a \in Appts |-> 0]]
  /\ lost = delivered

Step(j) ==
  \/ \E t \in Tenants : Query(j, t)
  \/ \E a \in Appts : Abort(j, a) \/ Skip(j, a) \/ Address(j, a)
  \/ Mark(j)

Scheduled == {"job24", "job2"}

Failure == \E j \in Jobs : Refuse(j) \/ Crash(j) \/ LoseMark(j, TRUE) \/ LoseMark(j, FALSE)

Environment ==
  \/ \E a \in Appts, s \in Starts : Book(a, s) \/ Edit(a, s, "pending")
  \/ \E a \in Booked : Edit(a, rows[a].start, "closed")
  \/ \E a \in Appts : Reply(a) \/ OptOut(a)
  \/ \E t \in Tenants : SetServed(t)
  \/ Tick

Next ==
  \/ \E j \in Jobs : Step(j)
  \/ Failure
  \/ Environment

Spec == Init /\ [][Next]_vars

\* The two jobs start again and again, and go on once started.
FairSpec == Spec /\ \A j \in Scheduled : WF_vars(Step(j))
----------------------------------------------------------------------------
TypeOK ==
  /\ rows \in [Appts -> Row \cup {NoRow}]
  /\ job \in [Jobs -> Run]
  /\ \A j \in Jobs : job[j].phase = "sending"
                       => job[j].cur \in Booked /\ job[j].told \in Starts
  /\ \A j \in Jobs : ToGo(job[j]) \subseteq Booked
  /\ now \in Nat /\ served \subseteq Tenants /\ reachable \subseteq Appts
  /\ edits \in Nat /\ scripts \in Nat /\ losses \in Nat
  /\ delivered \in [Kinds -> [Appts -> Nat]]
  /\ lost \in [Kinds -> [Appts -> Nat]]

\* An appointment gets one reminder of a kind.  Any more comes from a send
\* whose mark was lost or, for the 24 h one, from the script: each run of it
\* adds one at most, by force or by racing the job; the two jobs alone never
\* repeat a reminder (ReminderScheduler, send_tomorrow_reminders).
ByScript(k) == IF k = "24h" THEN scripts ELSE 0

RemindersAreAccounted ==
  \A k \in Kinds, a \in Appts : delivered[k][a] <= 1 + lost[k][a] + ByScript(k)

\* A reminder goes out for a pending appointment, names the time it has, and
\* that time is tomorrow, or within two hours, of the run's clock; unless the
\* appointment was written after the run had queried it (the status is not
\* read again, and "manana" is not checked again).
OnlyRacesMislead ==
  \A j \in Jobs :
    LET r == job[j] IN
    r.phase = "sending" =>
      \/ r.cur \in r.changed
      \/ /\ rows[r.cur].status = "pending"
         /\ rows[r.cur].start = r.told
         /\ Due(Kind(j), r.told, r.now)

\* Appointment a should get a reminder of kind k now.
Owed(k, a) ==
  /\ a \in Booked /\ rows[a].status = "pending" /\ k \notin rows[a].sent
  /\ Due(k, rows[a].start, now)
  /\ a \in reachable /\ TenantOf[a] \in served

\* A business with a zone that does not exist has appointments of its own to
\* remind today: the 2 h run may end there.
ZoneInTheWay ==
  \E a \in Booked : /\ TenantOf[a] \in BadZone /\ OnDay("2h", rows[a].start, now)
                    /\ rows[a].status = "pending" /\ "2h" \notin rows[a].sent

\* Whoever is owed a reminder gets it, or ceases to be owed it; only the 2 h
\* reminder may wait for ever, behind a business whose zone does not exist.
EveryoneIsReminded ==
  \A a \in Appts :
    /\ Owed("24h", a) ~> ~Owed("24h", a)
    /\ Owed("2h", a) ~> ~Owed("2h", a) \/ ZoneInTheWay
=============================================================================
