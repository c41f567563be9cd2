----------------------------- MODULE Connection -----------------------------
(***************************************************************************)
(* The WhatsApp connection of one business: the endpoints that create its  *)
(* instance at the provider, show the QR code, poll the state, log out and *)
(* repair the webhook, and the three places they keep in step: the columns *)
(* whatsapp_instance_id and whatsapp_apikey of the business, the row of    *)
(* whatsapp_sessions, and the provider.                                    *)
(*                                                                         *)
(* The handlers are coroutines of one event loop: they alternate only at   *)
(* the awaits of the provider.  What one writes between two awaits is up   *)
(* to three commits, which threads (the settings) see one by one and       *)
(* which a failure cuts short.                                             *)
(*                                                                         *)
(* Abstractions.  An instance is always called after its business, so the  *)
(* column holds that name or nothing, and there is one session row (the    *)
(* duplicates upsert_status deletes come from older versions).  The QR     *)
(* code, phone numbers and answers that carry no state are left out.  The  *)
(* provider is external: it is what the client's requests assume of it; it *)
(* denies a key alike on every route a request of the client tries.        *)
(***************************************************************************)
EXTENDS Integers, Sequences, FiniteSets

CONSTANTS
  Requests,    \* calls of the endpoints
  OwnerKeys,   \* API keys an owner may set
  Platform,    \* EVOLUTION_API_KEY, or NoKey
  NoKey, NoRow, \* "no key", "no session row"
  MaxPatches,  \* bound on the changes of the key in the settings
  MaxDenials,  \* bound on the keys the provider revokes
  MaxFailures, \* bound on lost, failed or misread calls and lost requests
  NotYet, Done \* a request that has not come, or is over

ASSUME ConnectionAssumption ==
  /\ NoKey \notin OwnerKeys
  /\ MaxPatches \in Nat /\ MaxDenials \in Nat /\ MaxFailures \in Nat

VARIABLES
  instance,  \* whether the business has its instance's name
  apikey,    \* tenants.whatsapp_apikey
  session,   \* status of the session row
  remote,    \* the provider: state of the instance
  hook,      \* the provider: the webhook is the expected one
  revoked,   \* the provider: keys it denies
  req,       \* request -> what its handler knows
  patches, failures,
  torn       \* history: the session was last written by a handler the instance
             \* changed under, or not written by one that changed it

tenant   == <<instance, apikey>>
provider == <<remote, hook, revoked>>
vars     == <<tenant, session, provider, req, patches, failures, torn>>

Ops      == {"create", "qr", "status", "logout", "sync"}
Statuses == {"connected", "connecting", "qr_required", "disconnected"}
Remotes  == {"absent", "connecting", "open", "close"}
Keys     == (OwnerKeys \cup {Platform}) \ {NoKey}

\* instance, apikey: the columns as its session holds them; tries: the keys to
\* try; answer: of the provider, as the fallback reads it, and state the one it
\* told.  Two histories: stale, the instance was written by others since the
\* handler began; misread, an error of this call read as a denial and was none.
Request == [op : Ops, phase : {"call", "answered", "key", "instance", "session"},
            hooking : BOOLEAN, instance : BOOLEAN, apikey : Keys \cup {NoKey},
            tries : Seq(Keys), answer : {"none", "ok", "denied", "failed"},
            state : Remotes, stale : BOOLEAN, misread : BOOLEAN]

ASSUME ValuesAssumption ==
  /\ NotYet \notin Request /\ Done \notin Request /\ Done # NotYet
  /\ NoRow \notin Statuses

InFlight == {r \in Requests : req[r] \notin {NotYet, Done}}
At(r, phase) == r \in InFlight /\ req[r].phase = phase

\* Between two awaits a handler has the loop for itself.
LoopIsFree == \A r \in InFlight : req[r].phase \in {"call", "answered"}

Known(key) == IF key = NoKey THEN <<>> ELSE <<key>>

PlatformFirst(key) ==                                                      \* mutant
  IF key = Platform THEN Known(key) ELSE Known(Platform) \o Known(key)
\* _candidate_api_keys
Candidates(key) ==
  IF key = Platform THEN Known(key) ELSE Known(key) \o Known(Platform)
----------------------------------------------------------------------------
NeverRefused(op) == FALSE   \* mutant
\* Only create_instance and get_qr make the name up.
Refused(op) == op \notin {"create", "qr"} /\ ~instance

\* The handler loads the business and calls the provider with the first key.
Begin(r, op) ==
  /\ LoopIsFree
  /\ req[r] = NotYet
  /\ ~Refused(op)
  /\ Candidates(apikey) # <<>>
  /\ req' = [req EXCEPT ![r] =
       [op |-> op, phase |-> "call", hooking |-> op = "sync", instance |-> instance,
        apikey |-> apikey, tries |-> Candidates(apikey), answer |-> "none",
        state |-> "absent", stale |-> FALSE, misread |-> FALSE]]
  /\ UNCHANGED <<tenant, session, provider, patches, failures, torn>>

\* What the provider does for a call it admits.  /instance/connect reopens an
\* instance; a logout it refuses is followed by /instance/delete.
Effect(q) ==
  IF q.hooking THEN hook' = TRUE /\ UNCHANGED remote
  ELSE IF q.op = "create"
  THEN /\ remote' = IF remote = "absent" THEN "connecting" ELSE remote
       /\ hook' = (hook \/ remote = "absent")
  ELSE IF q.op = "logout"
  THEN /\ remote' \in IF remote = "absent" THEN {"absent"} ELSE {"close", "absent"}
       /\ UNCHANGED hook
  ELSE /\ remote' = IF q.op = "qr" /\ remote = "close" THEN "connecting" ELSE remote
       /\ UNCHANGED hook

\* It knows the instance, which a creation and a logout need not.
Possible(q) == (~q.hooking /\ q.op \in {"create", "logout"}) \/ remote # "absent"

Told(q, answer) ==
  IF answer = "ok" /\ ~q.hooking /\ q.op \in {"qr", "status"} THEN remote ELSE q.state

Answered(r, answer, misread) ==
  req' = [req EXCEPT ![r].phase = "answered", ![r].answer = answer,
                     ![r].state = Told(req[r], answer), ![r].misread = @ \/ misread]

Denied(r) == Head(req[r].tries) \in revoked

Deny(r) ==
  /\ At(r, "call") /\ Denied(r)
  /\ Answered(r, "denied", FALSE)
  /\ UNCHANGED <<tenant, session, provider, patches, failures, torn>>

Serve(r) ==
  /\ At(r, "call") /\ ~Denied(r) /\ Possible(req[r])
  /\ Answered(r, "ok", FALSE)
  /\ Effect(req[r])
  /\ UNCHANGED <<tenant, session, revoked, patches, failures, torn>>

\* An error that is no denial reads as one if 401, 403, "forbidden" or
\* "unauthorized" is anywhere in its text, which holds the provider's words and
\* the instance's name (_is_auth_error).
Errs(r, misread) == Answered(r, IF misread THEN "denied" ELSE "failed", misread)

\* The provider does not know the instance.
Refuse(r) ==
  /\ At(r, "call") /\ ~Denied(r) /\ ~Possible(req[r])
  /\ \/ Errs(r, FALSE) /\ failures' = failures
     \/ Errs(r, TRUE) /\ failures < MaxFailures /\ failures' = failures + 1
  /\ UNCHANGED <<tenant, session, provider, patches, torn>>

\* No connection, or an error after the provider has acted, or before.
FailCall(r) ==
  /\ At(r, "call")
  /\ failures < MaxFailures
  /\ failures' = failures + 1
  /\ \E misread \in BOOLEAN : Errs(r, misread)
  /\ \/ UNCHANGED provider
     \/ Possible(req[r]) /\ ~Denied(r) /\ Effect(req[r]) /\ UNCHANGED revoked
  /\ UNCHANGED <<tenant, session, patches, torn>>
----------------------------------------------------------------------------
\* ensure_webhook, with the keys the handler now holds.
ThenHook(q) == [q EXCEPT !.phase = "call", !.hooking = TRUE, !.tries = Candidates(q.apikey),
                         !.misread = FALSE]

\* After the main call comes the commit it leads to, or the webhook; after the
\* webhook a poll still records its state.  An open instance has no QR code to
\* show, and nothing is recorded.
Following(q) ==
  IF q.hooking THEN IF q.op = "status" THEN [q EXCEPT !.phase = "session"] ELSE Done
  ELSE IF q.op \in {"create", "logout"} THEN [q EXCEPT !.phase = "instance"]
  ELSE IF q.op = "qr" THEN IF q.state = "open" THEN Done ELSE [q EXCEPT !.phase = "session"]
  ELSE ThenHook(q)

\* A handler whose call failed is over, but for the repair of the webhook that
\* follows a creation or a poll.
GivenUp(q) == IF q.hooking /\ q.op # "sync" THEN Following(q) ELSE Done

Resume(r) ==
  LET q == req[r] IN
  /\ LoopIsFree
  /\ At(r, "answered")
  /\ req' = [req EXCEPT ![r] =
       IF q.answer = "denied" /\ Len(q.tries) > 1
       THEN [q EXCEPT !.phase = "call", !.tries = Tail(@)]
       ELSE IF q.answer # "ok" THEN GivenUp(q)
       ELSE IF q.apikey # Head(q.tries) THEN [q EXCEPT !.phase = "key"]
       ELSE Following(q)]
  /\ UNCHANGED <<tenant, session, provider, patches, failures, torn>>

\* A key that worked in the place of the one loaded is kept; the commit
\* refreshes what the handler holds of the business.
CommitKey(r) ==
  LET key == Head(req[r].tries) IN
  /\ At(r, "key")
  /\ apikey' = key
  /\ req' = [req EXCEPT ![r] = Following([@ EXCEPT !.apikey = key, !.instance = instance])]
  /\ UNCHANGED <<instance, session, provider, patches, failures, torn>>

\* set_whatsapp_instance_id writes the column only if it differs from what the
\* handler holds.
CommitInstance(r) ==
  LET q      == req[r]
      name   == q.op = "create"
      writes == q.instance # name
  IN
  /\ At(r, "instance")
  /\ instance' = IF writes THEN name ELSE instance
  /\ req' = [s \in Requests |->
       IF s = r
       THEN [q EXCEPT !.phase = "session", !.stale = @ /\ ~writes,
                      !.instance = instance', !.apikey = apikey]
       ELSE IF s \in InFlight /\ instance' # instance
       THEN [req[s] EXCEPT !.stale = TRUE] ELSE req[s]]
  /\ UNCHANGED <<apikey, session, provider, patches, failures, torn>>

RawState(state) == state   \* mutant
\* _normalize_status; an instance that is closed or unknown is disconnected.
Normalized(state) ==
  IF state = "open" THEN "connected"
  ELSE IF state = "connecting" THEN "connecting" ELSE "disconnected"

Recorded(q) ==
  CASE q.op = "create" -> "connecting"
    [] q.op = "qr"     -> "qr_required"
    [] q.op = "status" -> Normalized(q.state)
    [] q.op = "logout" -> "disconnected"

\* upsert_status; a creation goes on to the webhook.
CommitSession(r) ==
  LET q == req[r] IN
  /\ At(r, "session")
  /\ session' = Recorded(q)
  /\ torn' = (q.stale /\ q.op \in {"create", "status"})
  /\ req' = [req EXCEPT ![r] = IF q.op = "create" THEN ThenHook(q) ELSE Done]
  /\ UNCHANGED <<tenant, provider, patches, failures>>

\* A statement fails, or the request is cancelled: what is committed stays.
Lose(r) ==
  /\ r \in InFlight
  /\ failures < MaxFailures
  /\ failures' = failures + 1
  /\ req' = [req EXCEPT ![r] = Done]
  /\ torn' = (torn \/ (At(r, "session") /\ req[r].op \in {"create", "logout"}))
  /\ UNCHANGED <<tenant, session, provider, patches>>
----------------------------------------------------------------------------
\* PATCH /settings runs on a thread of its own.
PatchKey(key) ==
  /\ patches < MaxPatches
  /\ patches' = patches + 1
  /\ key # apikey
  /\ apikey' = key
  /\ UNCHANGED <<instance, session, provider, req, failures, torn>>

\* The phone scans the code, or unlinks.
RemoteChange ==
  /\ remote \in {"connecting", "open"}
  /\ remote' = IF remote = "connecting" THEN "open" ELSE "close"
  /\ UNCHANGED <<tenant, session, hook, revoked, req, patches, failures, torn>>

Revoke(key) ==
  /\ Cardinality(revoked) < MaxDenials
  /\ revoked' = revoked \cup {key}
  /\ UNCHANGED <<tenant, session, remote, hook, req, patches, failures, torn>>
----------------------------------------------------------------------------
Init ==
  /\ instance = FALSE /\ apikey = NoKey /\ session = NoRow
  /\ remote = "absent" /\ hook = FALSE /\ revoked = {}
  /\ req = [r \in Requests |-> NotYet]
  /\ patches = 0 /\ failures = 0 /\ torn = FALSE

Handler(r) ==
  \/ \E op \in Ops : Begin(r, op)
  \/ Resume(r) \/ CommitKey(r) \/ CommitInstance(r) \/ CommitSession(r)

Next ==
  \/ \E r \in Requests :
       Handler(r) \/ Deny(r) \/ Serve(r) \/ Refuse(r) \/ FailCall(r) \/ Lose(r)
  \/ \E key \in OwnerKeys : PatchKey(key)
  \/ \E key \in Keys : Revoke(key)
  \/ RemoteChange

Spec == Init /\ [][Next]_vars
----------------------------------------------------------------------------
TypeOK ==
  /\ instance \in BOOLEAN /\ apikey \in Keys \cup {NoKey}
  /\ session \in Statuses \cup {NoRow}
  /\ remote \in Remotes /\ hook \in BOOLEAN /\ revoked \subseteq Keys
  /\ req \in [Requests -> Request \cup {NotYet, Done}]
  /\ \A r \in InFlight : req[r].tries # <<>>
  /\ patches \in Nat /\ failures \in Nat /\ torn \in BOOLEAN

\* What the session row says agrees with whether the business has an instance:
\* without one it is not connected or connecting, with one there is a row.  If
\* they disagree, the row was last written by a poll or a creation that another
\* handler overtook at an await, or a handler stopped between its two commits
\* (create_instance, get_status, logout).
SessionFollowsInstance ==
  LoopIsFree =>
    \/ torn
    \/ IF instance THEN session # NoRow ELSE session \notin {"connected", "connecting"}

\* A handler replaces a key of the business that the provider accepts only if
\* the error of its own call with that key, no denial, read as one, or if the key
\* was set while the handler awaited (_execute_with_apikey_fallback).
KeyKeptUnlessBlamed ==
  [][apikey' # apikey /\ patches' = patches =>
       \/ apikey \in revoked \cup {NoKey}
       \/ \E r \in InFlight :
            At(r, "key") /\ (req[r].apikey # apikey \/ req[r].misread)]_vars
=============================================================================
