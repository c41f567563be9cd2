------------------------------ MODULE Account ------------------------------
(***************************************************************************)
(* One business and its account: payments and the subscription they        *)
(* extend, the plan, and the users whose number the plan limits.           *)
(*                                                                         *)
(* Every endpoint is a request on a thread of its own: it reads, and then  *)
(* commits once, a payment twice.  Between two of its statements the       *)
(* others go on, and its process may die.                                  *)
(*                                                                         *)
(* Abstractions.  Time goes in periods of 30 days.  A user is named by its *)
(* email, which is unique in the table; max_users is a function of the     *)
(* plan, since every write of a tenant sets it so (names, passwords,       *)
(* amounts and settings are left out).  delete_user is an update to        *)
(* inactive.  A request that is refused before its first commit leaves no  *)
(* trace.                                                                  *)
(***************************************************************************)
EXTENDS Integers, FiniteSets

CONSTANTS
  Users,       \* emails
  Founder,     \* the owner the business registers with
  Refs,        \* reference codes of payments
  NoRef,       \* a payment without one
  Plans, FirstPlan,
  MaxUsers,    \* plan -> active staff it allows
  TrialEnd,    \* the period in which the trial ends
  LastPeriod,  \* bound on the clock
  Requests,    \* bound on the requests
  MaxPayments, \* bound on the payments
  NoRow, Keep, \* "no such user", "leave the column as it is"
  NotYet, Done \* a request that has not come, or is over

ASSUME AccountAssumption ==
  /\ Founder \in Users /\ FirstPlan \in Plans
  /\ MaxUsers \in [Plans -> Nat]
  /\ TrialEnd \in Nat /\ LastPeriod \in Nat /\ MaxPayments \in Nat
  /\ IsFiniteSet(Users) /\ IsFiniteSet(Requests)
  /\ IsFiniteSet(Refs) /\ NoRef \notin Refs

VARIABLES
  plan,     \* tenants.plan_tier, and with it max_users
  until,    \* tenants.subscription_valid_until
  paid,     \* tenant_payments: reference -> rows with it
  users,    \* the table of users
  req,      \* request -> what it knows
  today,    \* the clock
  raced,    \* history: extensions committed while another request held the old date
  crashed,  \* history: payments whose request died before it extended
  waived    \* history: staff nobody counted, or counted too early

vars == <<plan, until, paid, users, req, today, raced, crashed, waived>>

Roles   == {"owner", "staff"}
User    == [role : Roles, active : BOOLEAN]
Codes   == Refs \cup {NoRef}
Changes == [role : Roles \cup {Keep}, active : BOOLEAN \cup {Keep}]

\* counts: to be counted against the quota; the plan it loaded and the one it
\* sets, the user it is about, what it changes of the row it loaded; a payment's
\* code, and the date it extends.  stale is a history: others wrote what the
\* quota rests on.
Request == [kind : {"pay", "insert", "update", "plan"}, counts : BOOLEAN,
            step : {"found", "loaded", "counted", "paid", "extending"},
            plan : Plans, goal : Plans, user : Users, was : User, to : Changes,
            code : Codes, until : Nat, stale : BOOLEAN]

ASSUME ValuesAssumption ==
  /\ NoRow \notin User /\ Keep \notin Roles /\ Keep \notin BOOLEAN
  /\ NotYet \notin Request /\ Done \notin Request /\ NotYet # Done

InFlight    == {r \in Requests : req[r] \notin {NotYet, Done}}
Known       == {u \in Users : users[u] # NoRow}
ActiveStaff == {u \in Known : users[u] = [role |-> "staff", active |-> TRUE]}
Owners      == {u \in Known : users[u] = [role |-> "owner", active |-> TRUE]}

\* get_current_tenant_user and require_owner: an active owner, the trial or any
\* payment ever made.  Neither subscription_valid_until nor _status is read.
Admitted == Owners # {} /\ (today < TrialEnd \/ \E c \in Codes : paid[c] > 0)

Blank == [kind |-> "pay", counts |-> FALSE, step |-> "loaded", plan |-> plan,
          goal |-> plan, user |-> Founder, was |-> [role |-> "owner", active |-> TRUE],
          to |-> [role |-> Keep, active |-> Keep], code |-> NoRef,
          until |-> until, stale |-> FALSE]

Arrive(r, request) ==
  /\ req[r] = NotYet
  /\ req' = [req EXCEPT ![r] = request]
  /\ UNCHANGED <<plan, until, paid, users, today, raced, crashed, waived>>

At(r, kind, step) == r \in InFlight /\ req[r].kind = kind /\ req[r].step = step
----------------------------------------------------------------------------
\* register_payment up to its first commit: the business exists, the code is new.
BeginPay(r, code) ==
  /\ code = NoRef \/ paid[code] = 0
  /\ Arrive(r, [Blank EXCEPT !.code = code])

TotalPaid == Cardinality({p \in Codes \X (1 .. MaxPayments) : p[2] <= paid[p[1]]})

\* The payment is committed; the unique index refuses a code that has come
\* since (IntegrityError).
InsertPayment(r) ==
  /\ At(r, "pay", "loaded")
  /\ TotalPaid < MaxPayments
  /\ IF req[r].code # NoRef /\ paid[req[r].code] > 0
     THEN req' = [req EXCEPT ![r] = Done] /\ UNCHANGED paid
     ELSE /\ paid' = [paid EXCEPT ![req[r].code] = @ + 1]
          /\ req' = [req EXCEPT ![r].step = "paid"]
  /\ UNCHANGED <<plan, until, users, today, raced, crashed, waived>>

StillCached(r) == req[r].until   \* mutant
Reloaded(r)    == until

\* extend_subscription reads the business again, the commit has expired it.
ReadUntil(r) ==
  /\ At(r, "pay", "paid")
  /\ req' = [req EXCEPT ![r].step = "extending", ![r].until = Reloaded(r)]
  /\ UNCHANGED <<plan, until, paid, users, today, raced, crashed, waived>>

\* And writes the date it read plus 30 days.
Extend(r) ==
  /\ At(r, "pay", "extending")
  /\ until' = req[r].until + 1
  /\ raced' = IF \E s \in Requests \ {r} : At(s, "pay", "extending")
              THEN raced + 1 ELSE raced
  /\ req' = [req EXCEPT ![r] = Done]
  /\ UNCHANGED <<plan, paid, users, today, crashed, waived>>
----------------------------------------------------------------------------
NewStaff == [role |-> "staff", active |-> TRUE]

\* create_user and create_staff_user; only the second asks for the quota.
BeginInsert(r, u, role, counts) ==
  /\ Admitted
  /\ counts => role = "staff"
  /\ Arrive(r, [Blank EXCEPT !.kind = "insert", !.counts = counts, !.user = u,
                             !.was = [role |-> role, active |-> TRUE]])

\* activate_staff_user: a user that is staff and inactive.
BeginActivate(r, u) ==
  /\ Admitted
  /\ u \in Known
  /\ users[u] = [role |-> "staff", active |-> FALSE]
  /\ Arrive(r, [Blank EXCEPT !.kind = "update", !.counts = TRUE, !.step = "found",
                             !.user = u, !.was = users[u], !.to.active = TRUE])

\* The business is read after the user; only the user is kept in the session.
ReadPlan(r) ==
  /\ At(r, "update", "found")
  /\ req' = [req EXCEPT ![r].step = "loaded", ![r].plan = plan]
  /\ UNCHANGED <<plan, until, paid, users, today, raced, crashed, waived>>

\* update_user, delete_user: with the token alone, and without the quota.
BeginUpdate(r, u, to) ==
  /\ u \in Known
  /\ Arrive(r, [Blank EXCEPT !.kind = "update", !.user = u, !.was = users[u], !.to = to])

AtTheLimit(r) == Cardinality(ActiveStaff) > MaxUsers[req[r].plan]    \* mutant
LimitReached(r) == Cardinality(ActiveStaff) >= MaxUsers[req[r].plan]

Counting(r) == r \in InFlight /\ req[r].counts /\ req[r].step = "loaded"

\* _enforce_active_staff_limit, with the plan read before the count.
CountPasses(r) ==
  /\ Counting(r)
  /\ ~LimitReached(r)
  /\ req' = [req EXCEPT ![r].step = "counted"]
  /\ UNCHANGED <<plan, until, paid, users, today, raced, crashed, waived>>

CountRefuses(r) ==
  /\ Counting(r)
  /\ LimitReached(r)
  /\ req' = [req EXCEPT ![r] = Done]
  /\ UNCHANGED <<plan, until, paid, users, today, raced, crashed, waived>>

AllColumns(row, was, to) == to   \* mutant
\* A column is written if the value differs from the one loaded.
Merged(row, was, to) ==
  [role   |-> IF to.role \in {Keep, was.role} THEN row.role ELSE to.role,
   active |-> IF to.active \in {Keep, was.active} THEN row.active ELSE to.active]

\* The row after the commit: an insert with an email that exists is refused by
\* the unique index (or by the lookup before it), an update merges.
After(r) ==
  LET q == req[r] IN
  IF q.kind = "update" THEN Merged(users[q.user], q.was, q.to)
  ELSE IF q.user \in Known THEN users[q.user] ELSE q.was

CommitUser(r) ==
  LET q == req[r]
      more == After(r) = NewStaff /\ q.user \notin ActiveStaff
  IN
  /\ r \in InFlight /\ q.kind \in {"insert", "update"}
  /\ q.step = IF q.counts THEN "counted" ELSE "loaded"
  /\ users' = [users EXCEPT ![q.user] = After(r)]
  /\ waived' = IF ~more THEN waived
               ELSE IF q.counts /\ ~q.stale THEN waived \ {q.user}
               ELSE waived \cup {q.user}
  /\ req' = [s \in Requests |->
               IF s = r THEN Done
               ELSE IF s \in InFlight /\ more /\ req[s].step = "counted"
               THEN [req[s] EXCEPT !.stale = TRUE] ELSE req[s]]
  /\ UNCHANGED <<plan, until, paid, today, raced, crashed>>
----------------------------------------------------------------------------
\* assign_plan by an owner, update_tenant by a super admin.
BeginPlan(r, p) == Arrive(r, [Blank EXCEPT !.kind = "plan", !.goal = p])

\* plan_tier and max_users are written if they differ from what was loaded.
CommitPlan(r) ==
  /\ At(r, "plan", "loaded")
  /\ plan' = IF req[r].goal = req[r].plan THEN plan ELSE req[r].goal
  /\ req' = [s \in Requests |->
               IF s = r THEN Done
               ELSE IF plan' # plan /\ s \in InFlight /\ req[s].counts /\ req[s].step # "found"
               THEN [req[s] EXCEPT !.stale = TRUE] ELSE req[s]]
  /\ UNCHANGED <<until, paid, users, today, raced, crashed, waived>>

\* The process dies, or a statement fails: what is not committed is gone.
Lose(r) ==
  /\ r \in InFlight
  /\ req' = [req EXCEPT ![r] = Done]
  /\ crashed' = IF req[r].step \in {"paid", "extending"} THEN crashed + 1 ELSE crashed
  /\ UNCHANGED <<plan, until, paid, users, today, raced, waived>>

Tick ==
  /\ today < LastPeriod
  /\ today' = today + 1
  /\ UNCHANGED <<plan, until, paid, users, req, raced, crashed, waived>>
----------------------------------------------------------------------------
\* register_public_owner: business and owner in one transaction, on trial.
Init ==
  /\ plan = FirstPlan /\ until = TrialEnd /\ today = 0
  /\ paid = [c \in Codes |-> 0]
  /\ users = [u \in Users |-> IF u = Founder THEN [role |-> "owner", active |-> TRUE]
                              ELSE NoRow]
  /\ req = [r \in Requests |-> NotYet]
  /\ raced = 0 /\ crashed = 0 /\ waived = {}

Payment(r) ==
  \/ \E c \in Codes : BeginPay(r, c)
  \/ InsertPayment(r) \/ ReadUntil(r) \/ Extend(r)

\* The updates enumerated, one column each.
OneColumn == {to \in Changes : to.role = Keep \/ to.active = Keep}

Staff(r) ==
  \/ \E u \in Users, role \in Roles, counts \in BOOLEAN : BeginInsert(r, u, role, counts)
  \/ \E u \in Users : BeginActivate(r, u)
  \/ \E u \in Users, to \in OneColumn : BeginUpdate(r, u, to)
  \/ ReadPlan(r) \/ CountPasses(r) \/ CountRefuses(r) \/ CommitUser(r)

Next ==
  \/ \E r \in Requests :
       Payment(r) \/ Staff(r) \/ (\E p \in Plans : BeginPlan(r, p)) \/ CommitPlan(r) \/ Lose(r)
  \/ Tick

Spec == Init /\ [][Next]_vars
----------------------------------------------------------------------------
TypeOK ==
  /\ plan \in Plans /\ until \in Nat /\ today \in Nat
  /\ paid \in [Codes -> Nat]
  /\ users \in [Users -> User \cup {NoRow}]
  /\ req \in [Requests -> Request \cup {NotYet, Done}]
  /\ raced \in Nat /\ crashed \in Nat /\ waived \subseteq Users

Unextended == {r \in InFlight : req[r].step \in {"paid", "extending"}}

\* Every payment extends the subscription by one period, once: what is missing
\* is still to be extended by its request, was lost with it between the two
\* commits, or was overwritten by a request that had read the older date
\* (register_payment, extend_subscription).
ExtensionsAreAccounted ==
  LET missing == TrialEnd + TotalPaid - until IN
  /\ missing >= Cardinality(Unextended) + crashed
  /\ missing <= Cardinality(Unextended) + crashed + raced

\* Staff becomes active only within the plan; except through create_user and
\* update_user, which do not count, and through a request that counted before
\* others became active or before the plan was changed
\* (_enforce_active_staff_limit).
QuotaHolds ==
  [][\A u \in ActiveStaff' \ ActiveStaff :
        u \in waived' \/ Cardinality(ActiveStaff') <= MaxUsers[plan']]_vars
=============================================================================
