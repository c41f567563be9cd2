------------------------------- MODULE Outbox -------------------------------
(***************************************************************************)
(* The WhatsApp outbox: table whatsapp_outbox, the worker that empties it, *)
(* and what the endpoints do to a row while the worker holds it.           *)
(*                                                                         *)
(* The worker claims a batch (pending -> processing, one transaction),     *)
(* then takes its messages one by one: it looks at the business and at the *)
(* client's opt-out, sleeps a jitter, sends, records the outcome.  The     *)
(* sleep and the send are awaits, so retries and opt-outs come in between. *)
(* The process may die anywhere, and an exception of the database outside  *)
(* the try of the send abandons the iteration just as well.                *)
(*                                                                         *)
(* Abstractions.  Messages are numbered in the order of created_at.  Time  *)
(* is kept as what is left: wait is next_attempt_at minus now, elapsed the *)
(* age of the batch's own "now".  A business that is not found ends like   *)
(* one that is not connected.  Text, template and payload are left out.    *)
(* send_text posts the text in one format and, if that is answered with an *)
(* error, in another: the two are one attempt here, on the assumption that *)
(* a provider that answers with an error has not delivered.                *)
(***************************************************************************)
EXTENDS Integers, FiniteSets

CONSTANTS
  Msgs,        \* messages, as many as the model may enqueue: 1, 2, ...
  Clients,     \* who they are for
  ClientOf,    \* message -> client
  Limit,       \* batch size (20 in the code)
  MaxAttempts, \* attempts before a message fails (3 in the code)
  Base,        \* base delay of a retry (30 s in the code)
  MaxResets,   \* bound on the manual retries
  MaxLosses,   \* bound on the iterations lost
  NoRow        \* "no such row"

ASSUME OutboxAssumption ==
  /\ Msgs \subseteq Nat /\ ClientOf \in [Msgs -> Clients]
  /\ Limit \in Nat \ {0} /\ MaxAttempts \in Nat \ {0}
  /\ Base \in Nat /\ MaxResets \in Nat /\ MaxLosses \in Nat

VARIABLES
  rows,       \* the table: message -> [status, attempts, wait]
  batch,      \* messages the current iteration has claimed and not finished
  pc,         \* where the iteration is with the first message of the batch
  elapsed,    \* time since the batch was claimed, 0 without one
  connected,  \* the business has a WhatsApp instance
  optedOut,   \* clients with whatsapp_opt_out
  delivered,  \* message -> times the provider accepted it
  afterOut,   \* history: client -> deliveries since the opt-out
  resets,     \* history: message -> manual retries
  losses      \* iterations lost

vars == <<rows, batch, pc, elapsed, connected, optedOut, delivered, afterOut,
          resets, losses>>

Final    == {"sent", "failed", "blocked_opt_out"}
Statuses == Final \cup {"pending", "processing"}
Queued   == {m \in Msgs : rows[m] # NoRow}

Row      == [status : Statuses, attempts : Nat, wait : Nat]

ASSUME NoRowAssumption == NoRow \notin Row

\* Delays never exceed this, so nothing is gained from counting further.
MaxWait  == Base * (MaxAttempts + MaxResets)

Oldest(S) == CHOOSE m \in S : \A n \in S : m <= n
Current   == Oldest(batch)

ResetsSoFar == {p \in Msgs \X (1 .. MaxResets) : p[2] <= resets[p[1]]}
----------------------------------------------------------------------------
\* queue_message: a row with status pending, due at once.
Enqueue(m) ==
  /\ rows[m] = NoRow
  /\ \A n \in Msgs : n < m => n \in Queued
  /\ rows' = [rows EXCEPT ![m] = [status |-> "pending", attempts |-> 0, wait |-> 0]]
  /\ UNCHANGED <<batch, pc, elapsed, connected, optedOut, delivered, afterOut,
                 resets, losses>>

\* reset_for_retry, which asks neither for the status nor for the attempts.
ManualRetry(m) ==
  /\ m \in Queued
  /\ Cardinality(ResetsSoFar) < MaxResets
  /\ rows' = [rows EXCEPT ![m].status = "pending", ![m].wait = 0]
  /\ resets' = [resets EXCEPT ![m] = @ + 1]
  /\ UNCHANGED <<batch, pc, elapsed, connected, optedOut, delivered, afterOut, losses>>

\* apply_opt_out; nothing takes it back.
OptOut(c) ==
  /\ c \notin optedOut
  /\ optedOut' = optedOut \cup {c}
  /\ UNCHANGED <<rows, batch, pc, elapsed, connected, delivered, afterOut, resets, losses>>

\* The business connects or disconnects its WhatsApp.
SetInstance ==
  /\ connected' = ~connected
  /\ UNCHANGED <<rows, batch, pc, elapsed, optedOut, delivered, afterOut, resets, losses>>
----------------------------------------------------------------------------
DueOrStuck(row) == row.status \in {"pending", "processing"} /\ row.wait = 0   \* mutant
Due(row)        == row.status = "pending" /\ row.wait = 0

\* claim_pending_batch: the oldest due rows, up to the limit.
Claim ==
  LET due   == {m \in Queued : Due(rows[m])}
      taken == {m \in due : Cardinality({n \in due : n < m}) < Limit}
  IN
  /\ pc = "idle"
  /\ due # {}
  /\ rows' = [m \in Msgs |-> IF m \in taken THEN [rows[m] EXCEPT !.status = "processing"]
                             ELSE rows[m]]
  /\ batch' = taken
  /\ pc' = "next"
  /\ UNCHANGED <<elapsed, connected, optedOut, delivered, afterOut, resets, losses>>

\* The iteration is done with the current message.
Advance ==
  /\ batch' = batch \ {Current}
  /\ pc' = IF batch' = {} THEN "idle" ELSE "next"
  /\ elapsed' = IF batch' = {} THEN 0 ELSE elapsed
  /\ UNCHANGED <<connected, optedOut, resets, losses>>

\* A wait of n from now; a next_attempt_at that has passed counts as 0.
Later(n) == IF n > 0 THEN n ELSE 0

GivesUpLate(attempts) == attempts > MaxAttempts                     \* mutant
GivesUp(attempts)     == attempts >= MaxAttempts

Uncounted(row, age) ==                                              \* mutant
  [row EXCEPT !.status = "pending", !.wait = Later(Base * (row.attempts + 1) - age)]

Errored(row, age) ==                                                \* mutant
  [row EXCEPT !.attempts = @ + 1, !.status = "error"]

\* retry_or_fail, told a "now" that is late by age.
RetryOrFail(row, age) ==
  LET attempts == row.attempts + 1 IN
  IF GivesUp(attempts)
  THEN [row EXCEPT !.attempts = attempts, !.status = "failed"]
  ELSE [row EXCEPT !.attempts = attempts, !.status = "pending",
                   !.wait = Later(Base * attempts - age)]

\* No instance: an attempt is spent, counted from the batch's own "now".
NotConnected ==
  /\ pc = "next" /\ ~connected
  /\ rows' = [rows EXCEPT ![Current] = RetryOrFail(@, elapsed)]
  /\ Advance
  /\ UNCHANGED <<delivered, afterOut>>

IgnoresOptOut(c) == FALSE                                           \* mutant
Refuses(c)       == c \in optedOut

\* mark_blocked_opt_out.
Blocked ==
  /\ pc = "next" /\ connected
  /\ Refuses(ClientOf[Current])
  /\ rows' = [rows EXCEPT ![Current].status = "blocked_opt_out"]
  /\ Advance
  /\ UNCHANGED <<delivered, afterOut>>

\* The client may be written to: sleep the jitter.
BeginJitter ==
  /\ pc = "next" /\ connected
  /\ ~Refuses(ClientOf[Current])
  /\ pc' = "jitter"
  /\ UNCHANGED <<rows, batch, elapsed, connected, optedOut, delivered, afterOut,
                 resets, losses>>

\* The provider takes the message; its answer may be lost or unreadable.
SendAccepted ==
  /\ pc = "jitter" /\ connected
  /\ pc' \in {"accepted", "errored"}
  /\ delivered' = [delivered EXCEPT ![Current] = @ + 1]
  /\ afterOut' = [afterOut EXCEPT ![ClientOf[Current]] =
                    IF ClientOf[Current] \in optedOut THEN @ + 1 ELSE @]
  /\ UNCHANGED <<rows, batch, elapsed, connected, optedOut, resets, losses>>

TakenForSent == "accepted"                                          \* mutant

\* Where an exception of the send leaves the worker.
AfterError == "errored"

\* The provider refuses it or is not reached.
SendRefused ==
  /\ pc = "jitter"
  /\ pc' = AfterError
  /\ UNCHANGED <<rows, batch, elapsed, connected, optedOut, delivered, afterOut,
                 resets, losses>>

\* mark_sent
RecordSent ==
  /\ pc = "accepted"
  /\ rows' = [rows EXCEPT ![Current].status = "sent"]
  /\ Advance
  /\ UNCHANGED <<delivered, afterOut>>

\* The except branch: a fresh "now".
RecordFailure ==
  /\ pc = "errored"
  /\ rows' = [rows EXCEPT ![Current] = RetryOrFail(@, 0)]
  /\ Advance
  /\ UNCHANGED <<delivered, afterOut>>

\* The process dies, or an exception leaves process_pending_messages.
LoseBatch ==
  /\ pc # "idle"
  /\ losses < MaxLosses
  /\ pc' = "idle"
  /\ batch' = {}
  /\ elapsed' = 0
  /\ losses' = losses + 1
  /\ UNCHANGED <<rows, connected, optedOut, delivered, afterOut, resets>>
----------------------------------------------------------------------------
Tick ==
  /\ rows' = [m \in Msgs |-> IF m \in Queued THEN [rows[m] EXCEPT !.wait = Later(@ - 1)]
                             ELSE NoRow]
  /\ elapsed' = IF pc # "idle" /\ elapsed < MaxWait THEN elapsed + 1 ELSE elapsed
  /\ UNCHANGED <<batch, pc, connected, optedOut, delivered, afterOut, resets, losses>>

Init ==
  /\ rows = [m \in Msgs |-> NoRow]
  /\ batch = {} /\ pc = "idle" /\ elapsed = 0
  /\ connected \in BOOLEAN
  /\ optedOut = {}
  /\ delivered = [m \in Msgs |-> 0]
  /\ afterOut = [c \in Clients |-> 0]
  /\ resets = [m \in Msgs |-> 0]
  /\ losses = 0

Worker ==
  \/ Claim
  \/ NotConnected
  \/ Blocked
  \/ BeginJitter
  \/ SendAccepted
  \/ SendRefused
  \/ RecordSent
  \/ RecordFailure

Environment ==
  \/ \E m \in Msgs : Enqueue(m) \/ ManualRetry(m)
  \/ \E c \in Clients : OptOut(c)
  \/ SetInstance
  \/ LoseBatch
  \/ Tick

Next == Worker \/ Environment

Spec == Init /\ [][Next]_vars

\* The worker's loop never ends and every await returns (the HTTP client has a
\* timeout); time passes.
FairSpec == Spec /\ WF_vars(Worker) /\ WF_vars(Tick)
----------------------------------------------------------------------------
TypeOK ==
  /\ rows \in [Msgs -> Row \cup {NoRow}]
  /\ batch \in SUBSET Queued
  /\ pc \in {"idle", "next", "jitter", "accepted", "errored"}
  /\ pc = "idle" <=> batch = {}
  /\ elapsed \in Nat
  /\ connected \in BOOLEAN
  /\ optedOut \in SUBSET Clients
  /\ delivered \in [Msgs -> Nat] /\ afterOut \in [Clients -> Nat]
  /\ resets \in [Msgs -> Nat] /\ losses \in Nat

\* A message reaches its client more than once only for a recorded failure or
\* a manual retry each: neither claiming, nor a lost iteration, nor a row put
\* back to pending under the worker's feet sends it twice by itself.
DuplicatesAreAccounted ==
  \A m \in Queued : delivered[m] <= 1 + rows[m].attempts + resets[m]

\* max_attempts bounds the attempts; a manual retry, which keeps the count,
\* buys one more and no more.
AttemptsAreBounded ==
  \A m \in Queued : rows[m].attempts <= MaxAttempts + resets[m]

\* A client who opts out may still get the one message the worker was already
\* waiting to send, and never another, whatever is retried.
OneMessageAfterOptOut == \A c \in Clients : afterOut[c] <= 1

Is(m, status) == m \in Queued /\ rows[m].status = status

\* A message marked sent has reached its client, also when it was retried by
\* hand while the worker held it (mark_sent after reset_for_retry).
SentWasDelivered == \A m \in Msgs : Is(m, "sent") => delivered[m] > 0

Orphan(m)     == Is(m, "processing") /\ m \notin batch

\* A message that waits, new or queued again, gets a final status, whatever is
\* ahead of it in the queue (claim_pending_batch, retry_or_fail), unless the
\* iteration that claimed it was lost: then it stays "processing" until
\* somebody retries it by hand.
EveryMessageSettles ==
  \A m \in Msgs : Is(m, "pending") ~> Orphan(m) \/ \E s \in Final : Is(m, s)
----------------------------------------------------------------------------
\* A message's life as its row and the worker tell it.
Life ==
  [m \in Msgs |->
     IF m \notin Queued THEN "absent"
     ELSE IF rows[m].status \in Final THEN rows[m].status
     ELSE IF pc = "accepted" /\ m = Current THEN "taken"
     ELSE "open"]

\* One copy, and one more for each failure recorded and each retry by hand.
Credit ==
  [m \in Msgs |-> IF m \in Queued THEN 1 + rows[m].attempts + resets[m] - delivered[m]
                  ELSE 1]

ML == INSTANCE MessageLife WITH state <- Life, credit <- Credit, copies <- delivered

\* Whatever the worker claims, loses and retries and whoever interferes, each
\* step is one of a message that is delivered within its credit and called sent
\* only after the provider took it (process_pending_messages, reset_for_retry).
ImplementsMessageLife == ML!Spec
=============================================================================
