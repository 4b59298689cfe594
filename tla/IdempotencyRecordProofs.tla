---------------------- MODULE IdempotencyRecordProofs ----------------------
(***************************************************************************)
(* Proofs about IdempotencyRecord for any number of calls, keys and        *)
(* payloads.  OncePerKey is not inductive: what makes it hold is that the  *)
(* lock leaves at most one running call per key, that such a call found no *)
(* succeeded row, and that the row of a committed call stays succeeded.    *)
(***************************************************************************)
EXTENDS IdempotencyRecord, TLAPS

\* The advisory lock: one transaction per key.
OneRunning ==
  \A c, d \in Calls :
    call[c].stage = "running" /\ call[d].stage = "running" /\ call[c].key = call[d].key => c = d

\* The operation runs only for a key nobody has succeeded with.
RunningIsNew ==
  \A c \in Calls : call[c].stage = "running" => record[call[c].key].status # "succeeded"

\* The row remembers the call that committed.
RowOfApplied ==
  \A c \in applied :
    /\ call[c].stage = "done" /\ call[c].answer = "applied"
    /\ record[call[c].key].status = "succeeded"
    /\ record[call[c].key].payload = call[c].payload

\* A succeeded row was written by such a call.
AppliedOfRow ==
  \A k \in Keys : record[k].status = "succeeded" =>
    \E d \in applied : call[d].key = k /\ call[d].payload = record[k].payload

\* What a call was told, if it was told of a success.
PromiseKept ==
  \A c \in Calls : call[c].answer = "applied" =>
    \E d \in applied : call[d].key = call[c].key /\ call[d].payload = call[c].payload

RecordInv ==
  /\ RecordTypeOK /\ OneRunning /\ RunningIsNew /\ RowOfApplied /\ AppliedOfRow
  /\ PromiseKept /\ OncePerKey

\* A service without requests satisfies the invariant.
LEMMA InitRecordInv == RecordInit => RecordInv
  BY DEF RecordInit, RecordInv, RecordTypeOK, OneRunning, RunningIsNew, RowOfApplied,
         AppliedOfRow, PromiseKept, OncePerKey, NoRow, NoCall

\* A request on its way disturbs nothing: nobody has answered it.
LEMMA ReceiveKeepsInv ==
  ASSUME RecordInv, NEW c \in Calls, NEW k \in Keys, NEW p \in Payloads, Receive(c, k, p)
  PROVE  RecordInv'
PROOF
  <1> USE DEF RecordInv
  <1>1. c \notin applied
    BY DEF Receive, RowOfApplied
  <1>2. call' = [call EXCEPT ![c] = [stage |-> "arrived", key |-> k, payload |-> p, answer |-> "none"]]
        /\ record' = record /\ applied' = applied
    BY DEF Receive
  <1>3. RecordTypeOK'
    BY <1>2 DEF RecordTypeOK
  <1>4. OneRunning' /\ RunningIsNew'
    BY <1>2 DEF RecordTypeOK, OneRunning, RunningIsNew
  <1>5. RowOfApplied' /\ AppliedOfRow' /\ PromiseKept' /\ OncePerKey'
    BY <1>1, <1>2 DEF RecordTypeOK, RowOfApplied, AppliedOfRow, PromiseKept, OncePerKey
  <1>6. QED
    BY <1>3, <1>4, <1>5

Answers == {"none", "conflict", "error", "applied", "refused", "unavailable"}

\* Call c ends with answer a and keeps its key and payload; no other call changes.
Answered(c, a) ==
  /\ call' \in [Calls -> [stage : {"unused", "arrived", "running", "done"},
                          key : Keys \cup {NoKey}, payload : Payloads \cup {NoPayload},
                          answer : Answers]]
  /\ call'[c].stage = "done" /\ call'[c].answer = a
  /\ \A d \in Calls : call'[d].key = call[d].key /\ call'[d].payload = call[d].payload
  /\ \A d \in Calls \ {c} : call'[d] = call[d]

\* What answering a call changes of it.
LEMMA AnsweredCall ==
  ASSUME RecordTypeOK, NEW c \in Calls, call[c].stage # "unused", NEW a \in Answers,
         call' = [call EXCEPT ![c] = [@ EXCEPT !.stage = "done", !.answer = a]]
  PROVE  Answered(c, a)
PROOF
  <1> DEFINE r == [call[c] EXCEPT !.stage = "done", !.answer = a]
  <1>1. call[c] \in [stage : {"unused", "arrived", "running", "done"}, key : Keys \cup {NoKey},
                     payload : Payloads \cup {NoPayload}, answer : Answers]
    BY DEF RecordTypeOK, Answers
  <1>2. /\ r \in [stage : {"unused", "arrived", "running", "done"}, key : Keys \cup {NoKey},
                  payload : Payloads \cup {NoPayload}, answer : Answers]
        /\ r.stage = "done" /\ r.answer = a /\ r.key = call[c].key /\ r.payload = call[c].payload
    BY <1>1
  <1>3. call' = [call EXCEPT ![c] = r]
    OBVIOUS
  <1> HIDE DEF r
  <1>4. QED
    BY <1>2, <1>3 DEF RecordTypeOK, Answers, Answered

\* A replay repeats what the row says, and the row is right.
LEMMA ReplayKeepsInv ==
  ASSUME RecordInv, NEW c \in Calls, Replay(c)
  PROVE  RecordInv'
PROOF
  <1> USE DEF RecordInv
  <1> DEFINE answer == IF Conflict(c) THEN "conflict" ELSE StoredAnswer(c)
  <1>1. c \notin applied /\ call[c].key \in Keys
    BY DEF Replay, RowOfApplied, RecordTypeOK
  <1>2. call' = [call EXCEPT ![c] = [@ EXCEPT !.stage = "done", !.answer = answer]]
        /\ record' = record /\ applied' = applied
    BY DEF Replay
  <1>3. answer \in {"conflict", "applied", "refused"}
    BY DEF StoredAnswer
  <1> HIDE DEF answer
  <1>4. answer = "applied" => record[call[c].key].status = "succeeded"
                             /\ record[call[c].key].payload = call[c].payload
    BY <1>1 DEF answer, Replay, Conflict, Runnable, StoredAnswer, Row
  <1> HIDE DEF answer
  <1>done. Answered(c, answer)
    BY <1>2, <1>3, AnsweredCall DEF Answers, Replay
  <1>5. RecordTypeOK'
    BY <1>1, <1>2, <1>done DEF Answered, RecordTypeOK, Answers, Replay
  <1>6. OneRunning' /\ RunningIsNew' /\ RowOfApplied' /\ AppliedOfRow' /\ OncePerKey'
    BY <1>1, <1>2, <1>done DEF Answered, RecordTypeOK, OneRunning, RunningIsNew, RowOfApplied, AppliedOfRow, OncePerKey
  <1>7. PromiseKept'
    BY <1>1, <1>2, <1>4, <1>done DEF Answered, RecordTypeOK, PromiseKept, AppliedOfRow
  <1>8. QED
    BY <1>5, <1>6, <1>7

\* A call begins only where no other call of its key is running.
LEMMA BeginKeepsInv ==
  ASSUME RecordInv, NEW c \in Calls, Begin(c)
  PROVE  RecordInv'
PROOF
  <1> USE DEF RecordInv
  <1>1. c \notin applied /\ call[c].key \in Keys
    BY DEF Begin, RowOfApplied, RecordTypeOK
  <1>2. call' = [call EXCEPT ![c].stage = "running"] /\ record' = record /\ applied' = applied
    BY DEF Begin
  <1>3. record[call[c].key].status # "succeeded"
    BY <1>1 DEF Begin, Runnable, Row
  <1>4. \A d \in Calls : ~(call[d].stage = "running" /\ call[d].key = call[c].key)
    BY DEF Begin, Locked
  <1>5. RecordTypeOK'
    BY <1>1, <1>2 DEF RecordTypeOK, Begin
  <1>6. OneRunning' /\ RunningIsNew'
    BY <1>2, <1>3, <1>4 DEF RecordTypeOK, OneRunning, RunningIsNew
  <1>7. RowOfApplied' /\ AppliedOfRow' /\ PromiseKept' /\ OncePerKey'
    BY <1>1, <1>2 DEF RecordTypeOK, RowOfApplied, AppliedOfRow, PromiseKept, OncePerKey
  <1>8. QED
    BY <1>5, <1>6, <1>7

\* The commit: no call of this key has committed, and none other is running.
LEMMA CompleteKeepsInv ==
  ASSUME RecordInv, NEW c \in Calls, NEW outcome \in Outcomes, Complete(c, outcome)
  PROVE  RecordInv'
PROOF
  <1> USE DEF RecordInv
  <1> DEFINE k == call[c].key
             row == [status |-> IF outcome = "applied" THEN "succeeded" ELSE "failed",
                     payload |-> call[c].payload, retryable |-> outcome = "unavailable",
                     expired |-> record[k].expired]
  <1>1. k \in Keys /\ call[c].payload \in Payloads /\ record[k].status # "succeeded"
        /\ c \notin applied /\ outcome \in {"applied", "refused", "unavailable"}
    BY RecordAssumption DEF Complete, RunningIsNew, RowOfApplied, RecordTypeOK
  <1>2. \A d \in applied : call[d].key # k /\ d # c
    BY <1>1 DEF RowOfApplied
  <1>3. \A d \in Calls : call[d].stage = "running" /\ call[d].key = k => d = c
    BY DEF Complete, OneRunning
  <1>4. /\ record' = [record EXCEPT ![k] = row]
        /\ call' = [call EXCEPT ![c] = [@ EXCEPT !.stage = "done", !.answer = outcome]]
        /\ applied' = IF outcome = "applied" THEN applied \cup {c} ELSE applied
    BY <1>1 DEF Complete, RecordTypeOK
  <1>5. row \in [status : {"none", "succeeded", "failed"}, payload : Payloads \cup {NoPayload},
                 retryable : BOOLEAN, expired : BOOLEAN]
    BY <1>1 DEF RecordTypeOK
  <1>6. row.payload = call[c].payload /\ (outcome = "applied" <=> row.status = "succeeded")
    OBVIOUS
  <1> HIDE DEF row
  <1>done. Answered(c, outcome)
    BY <1>1, <1>4, AnsweredCall DEF Answers, Complete
  <1>7. RecordTypeOK'
    <2>1. record' \in [Keys -> [status : {"none", "succeeded", "failed"},
                       payload : Payloads \cup {NoPayload}, retryable : BOOLEAN, expired : BOOLEAN]]
      BY <1>4, <1>5 DEF RecordTypeOK
    <2>2. QED
      BY <2>1, <1>1, <1>4, <1>done DEF Answered, RecordTypeOK, Answers
  <1>8. OneRunning' /\ RunningIsNew'
    BY <1>1, <1>3, <1>4, <1>done DEF Answered, RecordTypeOK, OneRunning, RunningIsNew
  <1>9. RowOfApplied'
    BY <1>1, <1>2, <1>4, <1>6, <1>done DEF Answered, RecordTypeOK, RowOfApplied
  <1>10. AppliedOfRow'
    BY <1>1, <1>2, <1>4, <1>6, <1>done DEF Answered, RecordTypeOK, AppliedOfRow
  <1>11. PromiseKept'
    BY <1>1, <1>2, <1>4, <1>done DEF Answered, RecordTypeOK, PromiseKept
  <1>12. OncePerKey'
    BY <1>1, <1>2, <1>4, <1>done DEF Answered, RecordTypeOK, OncePerKey
  <1>13. QED
    BY <1>7, <1>8, <1>9, <1>10, <1>11, <1>12

\* A rollback leaves the rows as they were.
LEMMA RollbackKeepsInv ==
  ASSUME RecordInv, NEW c \in Calls, Rollback(c)
  PROVE  RecordInv'
PROOF
  <1> USE DEF RecordInv
  <1>1. c \notin applied /\ call[c].key \in Keys
    BY DEF Rollback, RowOfApplied, RecordTypeOK
  <1>2. call' = [call EXCEPT ![c] = [@ EXCEPT !.stage = "done", !.answer = "error"]]
        /\ record' = record /\ applied' = applied
    BY DEF Rollback
  <1>done. Answered(c, "error")
    BY <1>2, AnsweredCall DEF Answers, Rollback
  <1>3. RecordTypeOK'
    BY <1>1, <1>2, <1>done DEF Answered, RecordTypeOK, Answers, Rollback
  <1>4. OneRunning' /\ RunningIsNew' /\ RowOfApplied' /\ AppliedOfRow' /\ PromiseKept' /\ OncePerKey'
    BY <1>1, <1>2, <1>done DEF Answered, RecordTypeOK, OneRunning, RunningIsNew, RowOfApplied, AppliedOfRow,
                      PromiseKept, OncePerKey
  <1>5. QED
    BY <1>3, <1>4

\* An expired row keeps its status and payload.
LEMMA ExpireKeepsInv ==
  ASSUME RecordInv, NEW k \in Keys, Expire(k)
  PROVE  RecordInv'
PROOF
  <1> USE DEF RecordInv
  <1>1. record' = [record EXCEPT ![k].expired = TRUE] /\ call' = call /\ applied' = applied
    BY DEF Expire
  <1>2. \A j \in Keys : record'[j].status = record[j].status /\ record'[j].payload = record[j].payload
    BY <1>1 DEF RecordTypeOK
  <1>3. RecordTypeOK'
    BY <1>1 DEF RecordTypeOK
  <1>4. OneRunning' /\ PromiseKept' /\ OncePerKey'
    BY <1>1 DEF OneRunning, PromiseKept, OncePerKey
  <1>5. RunningIsNew' /\ RowOfApplied' /\ AppliedOfRow'
    BY <1>1, <1>2 DEF RecordTypeOK, RunningIsNew, RowOfApplied, AppliedOfRow
  <1>6. QED
    BY <1>3, <1>4, <1>5

\* Every step of the service keeps the invariant.
LEMMA NextRecordInv == RecordInv /\ [RecordNext]_recordVars => RecordInv'
PROOF
  <1> SUFFICES ASSUME RecordInv, [RecordNext]_recordVars PROVE RecordInv'
    OBVIOUS
  <1>1. CASE RecordNext
    <2>1. ASSUME NEW c \in Calls, NEW k \in Keys, NEW p \in Payloads, Receive(c, k, p)
          PROVE  RecordInv'
      BY <2>1, ReceiveKeepsInv
    <2>2. ASSUME NEW c \in Calls, Serve(c) PROVE RecordInv'
      BY <2>2, ReplayKeepsInv, BeginKeepsInv, RollbackKeepsInv, CompleteKeepsInv DEF Serve
    <2>3. ASSUME NEW k \in Keys, Expire(k) PROVE RecordInv'
      BY <2>3, ExpireKeepsInv
    <2>4. QED
      BY <1>1, <2>1, <2>2, <2>3 DEF RecordNext
  <1>2. CASE UNCHANGED recordVars
    BY <1>2 DEF recordVars, RecordInv, RecordTypeOK, OneRunning, RunningIsNew, RowOfApplied,
                AppliedOfRow, PromiseKept, OncePerKey
  <1>3. QED
    BY <1>1, <1>2

\* The invariant holds throughout.
THEOREM RecordInvariant == RecordSpec => []RecordInv
  BY InitRecordInv, NextRecordInv, PTL DEF RecordSpec

\* execute_idempotent_mutation keeps its rows and calls well formed.
THEOREM RecordTypeCorrect == RecordSpec => []RecordTypeOK
PROOF
  <1>1. RecordInv => RecordTypeOK
    BY DEF RecordInv
  <1>2. QED
    BY <1>1, RecordInvariant, PTL

\* However many requests carry a key, at once, again, late or after a failure,
\* execute_idempotent_mutation commits the operation at most once for it.
THEOREM KeyCommitsOnce == RecordSpec => []OncePerKey
PROOF
  <1>1. RecordInv => OncePerKey
    BY DEF RecordInv
  <1>2. QED
    BY <1>1, RecordInvariant, PTL

\* A success that execute_idempotent_mutation returns or replays is of a
\* committed operation with the caller's key and payload; a call that was told
\* anything else has committed nothing.
THEOREM AnswersTellTheTruth == RecordSpec => []AnswersAreTrue
PROOF
  <1>1. RecordInv => AnswersAreTrue
    BY DEF RecordInv, PromiseKept, RowOfApplied, AnswersAreTrue
  <1>2. QED
    BY <1>1, RecordInvariant, PTL
=============================================================================
