------------------------- MODULE IdempotencyRecord -------------------------
(***************************************************************************)
(* execute_idempotent_mutation of apps/common/idempotency.py: a mutation   *)
(* that carries an Idempotency-Key runs in one transaction with the row    *)
(* that remembers its answer.                                              *)
(*                                                                         *)
(* The transaction-scoped advisory lock of PostgreSQL serialises the calls *)
(* of one key from their first read of the row to the commit, so a row is  *)
(* never seen IN_PROGRESS and record holds committed rows only.  A call    *)
(* that is delayed or lost on its way is one that has arrived and is not   *)
(* begun.  The operation is abstract: it is applied, it refuses the        *)
(* request with a 4xx answer, or it answers 5xx; the last two leave        *)
(* nothing behind.                                                         *)
(***************************************************************************)
EXTENDS Naturals, FiniteSets

CONSTANTS
  Calls,     \* HTTP requests that reach the endpoint
  Keys,      \* values of the Idempotency-Key header
  NoKey,     \* marks a call that was not made
  Payloads,  \* request payloads, up to their fingerprint
  NoPayload, \* the payload of a row that does not exist
  Outcomes   \* what the operation may answer

ASSUME RecordAssumption ==
  /\ NoKey \notin Keys /\ NoPayload \notin Payloads
  /\ Outcomes \subseteq {"applied", "refused", "unavailable"}

VARIABLES
  record,   \* MutationIdempotencyRecord rows by idempotency_key
  call,     \* what each call asks for, how far it got and its answer
  applied   \* the calls whose operation was committed

recordVars == <<record, call, applied>>

NoRow == [status |-> "none", payload |-> NoPayload, retryable |-> FALSE, expired |-> FALSE]
NoCall == [stage |-> "unused", key |-> NoKey, payload |-> NoPayload, answer |-> "none"]

RecordInit ==
  /\ record = [k \in Keys |-> NoRow]
  /\ call = [c \in Calls |-> NoCall]
  /\ applied = {}

\* A request with key k and payload p is on its way.
Receive(c, k, p) ==
  /\ call[c].stage = "unused"
  /\ call' = [call EXCEPT ![c] = [stage |-> "arrived", key |-> k, payload |-> p, answer |-> "none"]]
  /\ UNCHANGED <<record, applied>>

Row(c) == record[call[c].key]

\* Faulty variant: no advisory lock is taken.
NeverLocked(k) == FALSE

\* pg_advisory_xact_lock of the key is held by another call's transaction.
Locked(k) == \E d \in Calls : call[d].stage = "running" /\ call[d].key = k

\* The key was used with another payload, or its row has expired.
Conflict(c) == Row(c).status # "none" /\ (Row(c).payload # call[c].payload \/ Row(c).expired)

\* The operation may run: the key is new, or its last answer was a 5xx.
Runnable(c) ==
  \/ Row(c).status = "none"
  \/ ~Conflict(c) /\ Row(c).status = "failed" /\ Row(c).retryable

StoredAnswer(c) == IF Row(c).status = "succeeded" THEN "applied" ELSE "refused"

\* The row answers: 409 on a conflict, otherwise the stored answer again.
Replay(c) ==
  /\ call[c].stage = "arrived" /\ ~Locked(call[c].key)
  /\ ~Runnable(c)
  /\ call' = [call EXCEPT ![c] = [@ EXCEPT !.stage = "done",
                                       !.answer = IF Conflict(c) THEN "conflict" ELSE StoredAnswer(c)]]
  /\ UNCHANGED <<record, applied>>

\* The lock is taken, the row created or set to IN_PROGRESS, the operation started.
Begin(c) ==
  /\ call[c].stage = "arrived" /\ ~Locked(call[c].key)
  /\ Runnable(c)
  /\ call' = [call EXCEPT ![c].stage = "running"]
  /\ UNCHANGED <<record, applied>>

\* Faulty variant: the row is saved without its new status.
CompleteInProgress(c, outcome) ==
  /\ call[c].stage = "running"
  /\ record' = [record EXCEPT ![call[c].key] = [status |-> "in_progress",
       payload |-> call[c].payload, retryable |-> outcome = "unavailable", expired |-> @.expired]]
  /\ call' = [call EXCEPT ![c] = [@ EXCEPT !.stage = "done", !.answer = outcome]]
  /\ applied' = IF outcome = "applied" THEN applied \cup {c} ELSE applied

\* The operation's effect, the row and its answer are committed together.
Complete(c, outcome) ==
  /\ call[c].stage = "running"
  /\ record' = [record EXCEPT ![call[c].key] =
       [status |-> IF outcome = "applied" THEN "succeeded" ELSE "failed",
        payload |-> call[c].payload, retryable |-> outcome = "unavailable", expired |-> @.expired]]
  /\ call' = [call EXCEPT ![c] = [@ EXCEPT !.stage = "done", !.answer = outcome]]
  /\ applied' = IF outcome = "applied" THEN applied \cup {c} ELSE applied

\* The operation raises or the server is lost: the transaction leaves nothing.
Rollback(c) ==
  /\ call[c].stage = "running"
  /\ call' = [call EXCEPT ![c] = [@ EXCEPT !.stage = "done", !.answer = "error"]]
  /\ UNCHANGED <<record, applied>>

\* MUTATION_IDEMPOTENCY_REPLAY_SECONDS have passed since the row was created.
Expire(k) ==
  /\ record[k].status # "none" /\ ~record[k].expired
  /\ record' = [record EXCEPT ![k].expired = TRUE]
  /\ UNCHANGED <<call, applied>>

Serve(c) ==
  \/ Replay(c) \/ Begin(c) \/ Rollback(c)
  \/ \E outcome \in Outcomes : Complete(c, outcome)

RecordNext ==
  \/ \E c \in Calls : Serve(c) \/ \E k \in Keys, p \in Payloads : Receive(c, k, p)
  \/ \E k \in Keys : Expire(k)

RecordSpec == RecordInit /\ [][RecordNext]_recordVars
-----------------------------------------------------------------------------
RecordTypeOK ==
  /\ record \in [Keys -> [status : {"none", "succeeded", "failed"},
                          payload : Payloads \cup {NoPayload},
                          retryable : BOOLEAN, expired : BOOLEAN]]
  /\ call \in [Calls -> [stage : {"unused", "arrived", "running", "done"},
                         key : Keys \cup {NoKey}, payload : Payloads \cup {NoPayload},
                         answer : {"none", "conflict", "error", "applied", "refused", "unavailable"}]]
  /\ applied \subseteq Calls
  /\ \A c \in Calls : call[c].stage # "unused" => call[c].key \in Keys /\ call[c].payload \in Payloads

\* A mutation is committed at most once for a key, by whichever of the
\* requests that carry it ran: concurrent, repeated, late, after a rollback,
\* after a 5xx answer or after the row has expired.
OncePerKey ==
  \A c, d \in applied : call[c].key = call[d].key => c = d

\* A success answer is never an empty promise: the mutation it speaks of was
\* committed for the same key with the same payload, and an answer that denies
\* it was given by a call that did not commit.
AnswersAreTrue ==
  \A c \in Calls :
    /\ call[c].answer = "applied" =>
         \E d \in applied : call[d].key = call[c].key /\ call[d].payload = call[c].payload
    /\ call[c].answer \in {"refused", "unavailable", "error", "conflict"} => c \notin applied
=============================================================================
