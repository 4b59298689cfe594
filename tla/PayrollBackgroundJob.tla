----------------------- MODULE PayrollBackgroundJob -----------------------
(***************************************************************************)
(* The durable job table of apps/payroll/background_jobs.py and everyone   *)
(* who writes to it: the API that enqueues and retries, the beat task that *)
(* dispatches queued rows and recovers stale ones, and the Celery workers  *)
(* that claim, execute and settle them.                                    *)
(*                                                                         *)
(* Each SQL statement or transaction is one action; what a process read    *)
(* earlier is kept in its own record until it is used.  The broker is      *)
(* external: late acknowledgement returns the message of a crashed worker  *)
(* to the queue, so deliveries can be repeated, delayed and reordered.     *)
(*                                                                         *)
(* Time is abstract.  stale stands for a heartbeat older than 7 minutes    *)
(* and backoff for a next_retry_at in the future.  A task is killed after  *)
(* 330 s, so no heartbeat is stale while its execution is still running.   *)
(***************************************************************************)
EXTENDS Naturals, FiniteSets

CONSTANTS
  Jobs,         \* idempotency keys; get_or_create gives each at most one row
  NoJob,        \* marks a process that handles no job
  Dispatchers,  \* overlapping runs of the dispatch task
  Recoverers,   \* overlapping runs of the stale-job scan
  Retriers,     \* concurrent retry requests
  WorkerSlots,  \* number of tasks the workers execute at the same time
  MaxAttempts,  \* PayrollBackgroundJob.max_attempts
  MaxRetries,   \* max_retries of the Celery task
  CrashPoints,  \* where a worker may be lost: "running", "retry" or "ack"
  FaultKinds,   \* other failures that may happen: see the uses of Fault
  MaxFaults,    \* bound: how many of them happen
  MaxMessages   \* bound: how many messages are ever published

ASSUME JobAssumption ==
  /\ NoJob \notin Jobs
  /\ MaxAttempts \in Nat /\ MaxRetries \in Nat
  /\ MaxFaults \in Nat /\ MaxMessages \in Nat

\* max_retries=2 of the task goes with the default max_attempts=3 of the row.
ASSUME RetryLimitsAgree == MaxAttempts <= MaxRetries + 1

VARIABLES
  job,         \* PayrollBackgroundJob rows
  queue,       \* messages in the broker
  execution,   \* deliveries that workers hold and have not acknowledged
  dispatcher,  \* what each dispatch run has read and done
  recoverer,   \* the row each stale-job scan is about to update
  retrier,     \* the row each retry request has checked
  published,   \* number of messages published; the last one is its identifier
  faults,      \* number of failures so far
  commits,     \* history: how often the job's operation was committed
  mishap       \* history: which of Mishaps happened to which job

jobVars == <<job, queue, execution, dispatcher, recoverer, retrier, published, faults, commits, mishap>>

\* "overtaken": a recovery or a manual retry updates a row that is no longer
\*   in the state in which it was read.
\* "twin": a message is delivered again while its retry waits or is executed.
\* "requeued": a manual retry queues the row while a dispatch run has published
\*   a message for it and not yet recorded that.
\* "lost": a message is gone although no worker has claimed the job for it.
Mishaps == {"overtaken", "twin", "requeued", "lost"}

NoTask == 0   \* celery_task_id = ""

\* A Celery message: a retry has a number of its own and its task's identifier.
Message == [number : Nat, task : Nat, job : Jobs, retries : Nat]
Execution == [msg : Message, attempt : Nat, pc : {"running", "retry", "ack"}]

NewRow == [status |-> "none", task |-> NoTask, attempts |-> 0,
           retryable |-> FALSE, backoff |-> FALSE, stale |-> FALSE]
IdleDispatcher == [pc |-> "idle", job |-> NoJob, task |-> NoTask]
IdleRecoverer == [job |-> NoJob, exhausted |-> FALSE]

Init ==
  /\ job = [j \in Jobs |-> NewRow]
  /\ queue = {} /\ execution = {}
  /\ dispatcher = [d \in Dispatchers |-> IdleDispatcher]
  /\ recoverer = [r \in Recoverers |-> IdleRecoverer]
  /\ retrier = [u \in Retriers |-> NoJob]
  /\ published = 0 /\ faults = 0
  /\ commits = [j \in Jobs |-> 0]
  /\ mishap = {}

Note(kind, j) == mishap' = mishap \cup {<<kind, j>>}

Fault == faults < MaxFaults /\ faults' = faults + 1

-----------------------------------------------------------------------------
(* The API and the dispatch run.                                           *)

\* enqueue_payroll_background_job: a repeated request finds the row and stops.
Enqueue(j) ==
  /\ job[j].status = "none"
  /\ job' = [job EXCEPT ![j].status = "queued"]
  /\ UNCHANGED <<queue, execution, dispatcher, recoverer, retrier, published, faults, commits, mishap>>

Dispatchable(j) == job[j].status = "queued" /\ job[j].task = NoTask /\ ~job[j].backoff

\* dispatch_pending_payroll_background_jobs reads a row it will dispatch.
LoadForDispatch(d, j) ==
  /\ dispatcher[d].pc = "idle"
  /\ Dispatchable(j)
  /\ dispatcher' = [dispatcher EXCEPT ![d] = [pc |-> "loaded", job |-> j, task |-> NoTask]]
  /\ UNCHANGED <<job, queue, execution, recoverer, retrier, published, faults, commits, mishap>>

\* apply_async hands the message to the broker before the row is updated.
Send(d) ==
  LET n == published + 1 IN
  /\ dispatcher[d].pc = "loaded"
  /\ published < MaxMessages
  /\ published' = n
  /\ queue' = queue \cup {[number |-> n, task |-> n, job |-> dispatcher[d].job, retries |-> 0]}
  /\ dispatcher' = [dispatcher EXCEPT ![d].pc = "sent", ![d].task = n]
  /\ UNCHANGED <<job, execution, recoverer, retrier, faults, commits, mishap>>

\* The broker cannot be reached: apply_async raises.
SendFails(d) ==
  /\ dispatcher[d].pc = "loaded"
  /\ "unreachable" \in FaultKinds /\ Fault
  /\ dispatcher' = [dispatcher EXCEPT ![d].pc = "failed"]
  /\ UNCHANGED <<job, queue, execution, recoverer, retrier, published, commits, mishap>>

\* Faulty variant: the identifier chosen for the message is recorded even if
\* the broker could not be reached.
RecordDispatchIgnoresFailure(d) ==
  LET j == dispatcher[d].job
      task == IF dispatcher[d].pc = "sent" THEN dispatcher[d].task ELSE published + 1 IN
  /\ dispatcher[d].pc \in {"sent", "failed"}
  /\ job' = IF job[j].status = "queued"
            THEN [job EXCEPT ![j].task = task, ![j].backoff = FALSE]
            ELSE job
  /\ dispatcher' = [dispatcher EXCEPT ![d] = IdleDispatcher]
  /\ UNCHANGED <<queue, execution, recoverer, retrier, published, faults, commits, mishap>>

\* The UPDATE after apply_async, of a row that is still queued.
RecordDispatch(d) ==
  LET j == dispatcher[d].job
      sent == dispatcher[d].pc = "sent" IN
  /\ dispatcher[d].pc \in {"sent", "failed"}
  /\ job' = IF job[j].status # "queued" THEN job
            ELSE IF sent
            THEN [job EXCEPT ![j] = [@ EXCEPT !.task = dispatcher[d].task, !.backoff = FALSE]]
            ELSE [job EXCEPT ![j] = [@ EXCEPT !.retryable = TRUE, !.backoff = TRUE]]
  /\ dispatcher' = [dispatcher EXCEPT ![d] = IdleDispatcher]
  /\ UNCHANGED <<queue, execution, recoverer, retrier, published, faults, commits, mishap>>

\* next_retry_at passes.
BackoffEnds(j) ==
  /\ job[j].backoff
  /\ job' = [job EXCEPT ![j].backoff = FALSE]
  /\ UNCHANGED <<queue, execution, dispatcher, recoverer, retrier, published, faults, commits, mishap>>

-----------------------------------------------------------------------------
(* The worker.                                                             *)

\* Faulty variant: only a live claim of the same task turns a delivery away.
LeaseHeldBySame(m) ==
  /\ job[m.job].status = "running"
  /\ ~job[m.job].stale
  /\ job[m.job].task = m.task

\* A fresh heartbeat of another task.
LeaseHeld(m) ==
  /\ job[m.job].status = "running"
  /\ ~job[m.job].stale
  /\ job[m.job].task # m.task

\* The delivery of a succeeded job, or of one another task is working on.
DropDelivery(m) ==
  /\ Cardinality(execution) < WorkerSlots
  /\ m \in queue
  /\ job[m.job].status = "succeeded" \/ LeaseHeld(m)
  /\ queue' = queue \ {m}
  /\ UNCHANGED <<job, execution, dispatcher, recoverer, retrier, published, faults, commits, mishap>>

\* Faulty variant: a succeeded job is executed again.
ClaimSucceeded(m) ==
  LET n == job[m.job].attempts + 1 IN
  /\ Cardinality(execution) < WorkerSlots
  /\ m \in queue
  /\ ~LeaseHeld(m)
  /\ job' = [job EXCEPT ![m.job] = [@ EXCEPT !.status = "running", !.task = m.task, !.attempts = n,
               !.retryable = FALSE, !.backoff = FALSE, !.stale = FALSE]]
  /\ queue' = queue \ {m}
  /\ execution' = execution \cup {[msg |-> m, attempt |-> n, pc |-> "running"]}
  /\ UNCHANGED <<dispatcher, recoverer, retrier, published, faults, commits, mishap>>

\* Faulty variant: attempt_count is not increased.
ClaimKeepsAttempts(m) ==
  /\ Cardinality(execution) < WorkerSlots
  /\ m \in queue
  /\ job[m.job].status # "succeeded" /\ ~LeaseHeld(m)
  /\ job' = [job EXCEPT ![m.job] = [@ EXCEPT !.status = "running", !.task = m.task,
               !.retryable = FALSE, !.backoff = FALSE, !.stale = FALSE]]
  /\ queue' = queue \ {m}
  /\ execution' = execution \cup {[msg |-> m, attempt |-> job[m.job].attempts, pc |-> "running"]}
  /\ UNCHANGED <<dispatcher, recoverer, retrier, published, faults, commits, mishap>>

\* The first transaction of execute_payroll_background_job, under a row lock.
Claim(m) ==
  LET n == job[m.job].attempts + 1 IN
  /\ Cardinality(execution) < WorkerSlots
  /\ m \in queue
  /\ job[m.job].status # "succeeded" /\ ~LeaseHeld(m)
  /\ job' = [job EXCEPT ![m.job] = [@ EXCEPT !.status = "running", !.task = m.task, !.attempts = n,
               !.retryable = FALSE, !.backoff = FALSE, !.stale = FALSE]]
  /\ queue' = queue \ {m}
  /\ execution' = execution \cup {[msg |-> m, attempt |-> n, pc |-> "running"]}
  /\ UNCHANGED <<dispatcher, recoverer, retrier, published, faults, commits, mishap>>

Proceed(e, pc) == execution' = (execution \ {e}) \cup {[e EXCEPT !.pc = pc]}

\* The second transaction: the operation and the terminal state, by row id.
Succeed(e) ==
  /\ e \in execution /\ e.pc = "running"
  /\ job' = [job EXCEPT ![e.msg.job] = [@ EXCEPT
               !.status = "succeeded", !.retryable = FALSE, !.backoff = FALSE, !.stale = FALSE]]
  /\ commits' = [commits EXCEPT ![e.msg.job] = @ + 1]
  /\ Proceed(e, "ack")
  /\ UNCHANGED <<queue, dispatcher, recoverer, retrier, published, faults, mishap>>

Exhausted(e) == e.attempt >= MaxAttempts

\* The operation fails for good, or transiently on the last attempt.
FailForGood(e, retryable) ==
  /\ e \in execution /\ e.pc = "running"
  /\ retryable => Exhausted(e)
  /\ job' = [job EXCEPT ![e.msg.job] = [@ EXCEPT !.status = "failed", !.task = e.msg.task,
               !.retryable = retryable, !.backoff = FALSE, !.stale = FALSE]]
  /\ Proceed(e, "ack")
  /\ UNCHANGED <<queue, dispatcher, recoverer, retrier, published, faults, commits, mishap>>

\* Faulty variant: the stage is stored where the status belongs.
FailTransientlyStoresStage(e) ==
  /\ e \in execution /\ e.pc = "running"
  /\ ~Exhausted(e)
  /\ job' = [job EXCEPT ![e.msg.job] = [@ EXCEPT !.status = "retry_scheduled", !.task = e.msg.task,
               !.retryable = TRUE, !.backoff = TRUE, !.stale = FALSE]]
  /\ Proceed(e, "retry")
  /\ UNCHANGED <<queue, dispatcher, recoverer, retrier, published, faults, commits, mishap>>

\* A transient failure with attempts left: the row waits for the Celery retry
\* and keeps its task id, which hides it from the dispatch run.
FailTransiently(e) ==
  /\ e \in execution /\ e.pc = "running"
  /\ ~Exhausted(e)
  /\ job' = [job EXCEPT ![e.msg.job] = [@ EXCEPT !.status = "queued", !.task = e.msg.task,
               !.retryable = TRUE, !.backoff = TRUE, !.stale = FALSE]]
  /\ Proceed(e, "retry")
  /\ UNCHANGED <<queue, dispatcher, recoverer, retrier, published, faults, commits, mishap>>

\* self.retry publishes the same task again; it raises once max_retries is reached.
PublishRetry(e) ==
  LET n == published + 1 IN
  /\ e \in execution /\ e.pc = "retry"
  /\ e.msg.retries < MaxRetries
  /\ published < MaxMessages
  /\ published' = n
  /\ queue' = queue \cup {[number |-> n, task |-> e.msg.task,
                           job |-> e.msg.job, retries |-> e.msg.retries + 1]}
  /\ Proceed(e, "ack")
  /\ UNCHANGED <<job, dispatcher, recoverer, retrier, faults, commits, mishap>>

\* acks_late: the message leaves the broker when the task has returned.
Ack(e) ==
  /\ e \in execution /\ e.pc = "ack"
  /\ execution' = execution \ {e}
  /\ UNCHANGED <<job, queue, dispatcher, recoverer, retrier, published, faults, commits, mishap>>

\* A message of the task of e waits, or another execution of it is not over.
HasTwin(e) ==
  \/ \E m \in queue : m.task = e.msg.task
  \/ \E f \in execution \ {e} : f.msg.task = e.msg.task /\ f.pc # "ack"

\* The worker is lost and its unacknowledged message is delivered again.
Crash(e) ==
  /\ e \in execution
  /\ e.pc \in CrashPoints /\ Fault
  /\ execution' = execution \ {e}
  /\ queue' = queue \cup {e.msg}
  /\ IF HasTwin(e) THEN Note("twin", e.msg.job) ELSE UNCHANGED mishap
  /\ UNCHANGED <<job, dispatcher, recoverer, retrier, published, commits>>

\* A process is between reading the row, or publishing its message, and the
\* UPDATE that follows.  Such a gap may outlast any number of other steps, but
\* not the minutes of a time limit or of a heartbeat.
Between(j) ==
  \/ \E d \in Dispatchers : dispatcher[d].job = j /\ dispatcher[d].pc # "loaded"
  \/ \E r \in Recoverers : recoverer[r].job = j
  \/ \E u \in Retriers : retrier[u] = j

\* time_limit=330: the task is killed and its message acknowledged.
HardTimeLimit(e) ==
  /\ e \in execution /\ e.pc = "running"
  /\ ~Between(e.msg.job)
  /\ "time_limit" \in FaultKinds /\ Fault
  /\ execution' = execution \ {e}
  /\ UNCHANGED <<job, queue, dispatcher, recoverer, retrier, published, commits, mishap>>

\* The broker loses a message, or refuses the one self.retry publishes.
LoseMessage(m) ==
  /\ m \in queue
  /\ "lost_message" \in FaultKinds /\ Fault
  /\ queue' = queue \ {m}
  /\ Note("lost", m.job)
  /\ UNCHANGED <<job, execution, dispatcher, recoverer, retrier, published, commits>>

\* The claim's transaction raises.  The task retries transient failures of the
\* operation only: it ends, and its message is acknowledged.
ClaimRaises(m) ==
  /\ Cardinality(execution) < WorkerSlots
  /\ m \in queue
  /\ "claim_error" \in FaultKinds /\ Fault
  /\ queue' = queue \ {m}
  /\ Note("lost", m.job)
  /\ UNCHANGED <<job, execution, dispatcher, recoverer, retrier, published, commits>>

Executing(j) == {e \in execution : e.msg.job = j /\ e.pc = "running"}

\* Seven minutes pass without a heartbeat; no execution takes that long.
HeartbeatExpires(j) ==
  /\ job[j].status = "running" /\ ~job[j].stale
  /\ Executing(j) = {}
  /\ ~Between(j)
  /\ job' = [job EXCEPT ![j].stale = TRUE]
  /\ UNCHANGED <<queue, execution, dispatcher, recoverer, retrier, published, faults, commits, mishap>>

-----------------------------------------------------------------------------
(* Recovery and manual retry.                                              *)

\* recover_stale_payroll_background_jobs reads a stale row.
SelectStale(r, j) ==
  /\ recoverer[r].job = NoJob
  /\ job[j].status = "running" /\ job[j].stale
  /\ recoverer' = [recoverer EXCEPT ![r] =
       [job |-> j, exhausted |-> job[j].attempts >= MaxAttempts]]
  /\ UNCHANGED <<job, queue, execution, dispatcher, retrier, published, faults, commits, mishap>>

\* Faulty variant: the task id stays on the row that is queued again.
RecoverKeepsTask(r) ==
  LET j == recoverer[r].job IN
  /\ j # NoJob
  /\ job' = IF job[j].status # "running" THEN job
            ELSE [job EXCEPT ![j] = [@ EXCEPT
                   !.status = IF recoverer[r].exhausted THEN "failed" ELSE "queued",
                   !.retryable = TRUE, !.backoff = FALSE]]
  /\ recoverer' = [recoverer EXCEPT ![r] = IdleRecoverer]
  /\ UNCHANGED <<queue, execution, dispatcher, retrier, published, faults, commits, mishap>>

\* ... and updates it if it is still running; the heartbeat is not read again.
Recover(r) ==
  LET j == recoverer[r].job IN
  /\ j # NoJob
  /\ job' = IF job[j].status # "running" THEN job
            ELSE [job EXCEPT ![j] = [@ EXCEPT
                   !.status = IF recoverer[r].exhausted THEN "failed" ELSE "queued",
                   !.task = NoTask, !.retryable = TRUE, !.backoff = FALSE]]
  /\ IF job[j].status = "running" /\ ~job[j].stale THEN Note("overtaken", j) ELSE UNCHANGED mishap
  /\ recoverer' = [recoverer EXCEPT ![r] = IdleRecoverer]
  /\ UNCHANGED <<queue, execution, dispatcher, retrier, published, faults, commits>>

\* retry_payroll_background_job checks the row it has loaded ...
CheckRetry(u, j) ==
  /\ retrier[u] = NoJob
  /\ job[j].status = "failed" /\ job[j].retryable
  /\ retrier' = [retrier EXCEPT ![u] = j]
  /\ UNCHANGED <<job, queue, execution, dispatcher, recoverer, published, faults, commits, mishap>>

NoteRetry(j) ==
  LET asRead == job[j].status = "failed" /\ job[j].retryable
      unrecorded == \E d \in Dispatchers : dispatcher[d].job = j /\ dispatcher[d].pc = "sent" IN
  mishap' = mishap \cup (IF asRead THEN {} ELSE {<<"overtaken", j>>})
                   \cup (IF unrecorded THEN {<<"requeued", j>>} ELSE {})

\* Faulty variant: attempt_count starts again.
ApplyRetryResetsAttempts(u) ==
  LET j == retrier[u] IN
  /\ j # NoJob
  /\ job' = [job EXCEPT ![j] = [@ EXCEPT
               !.status = "queued", !.task = NoTask, !.backoff = FALSE, !.attempts = 0]]
  /\ NoteRetry(j)
  /\ retrier' = [retrier EXCEPT ![u] = NoJob]
  /\ UNCHANGED <<queue, execution, dispatcher, recoverer, published, faults, commits>>

\* ... and queues the row by id, whatever its status is by then.
ApplyRetry(u) ==
  LET j == retrier[u] IN
  /\ j # NoJob
  /\ job' = [job EXCEPT ![j] = [@ EXCEPT
               !.status = "queued", !.task = NoTask, !.backoff = FALSE]]
  /\ NoteRetry(j)
  /\ retrier' = [retrier EXCEPT ![u] = NoJob]
  /\ UNCHANGED <<queue, execution, dispatcher, recoverer, published, faults, commits>>

-----------------------------------------------------------------------------
Settle(e) == Succeed(e) \/ (\E b \in BOOLEAN : FailForGood(e, b)) \/ FailTransiently(e)

Next ==
  \/ \E j \in Jobs : Enqueue(j) \/ BackoffEnds(j) \/ HeartbeatExpires(j)
  \/ \E d \in Dispatchers :
       (\E j \in Jobs : LoadForDispatch(d, j)) \/ Send(d) \/ SendFails(d) \/ RecordDispatch(d)
  \/ \E m \in queue : DropDelivery(m) \/ Claim(m) \/ LoseMessage(m) \/ ClaimRaises(m)
  \/ \E e \in execution : Settle(e) \/ PublishRetry(e) \/ Ack(e) \/ Crash(e) \/ HardTimeLimit(e)
  \/ \E r \in Recoverers : (\E j \in Jobs : SelectStale(r, j)) \/ Recover(r)
  \/ \E u \in Retriers : (\E j \in Jobs : CheckRetry(u, j)) \/ ApplyRetry(u)

Spec == Init /\ [][Next]_jobVars

\* Beat starts dispatch runs and scans forever, the workers consume the queue,
\* every started process goes on unless it fails, and time passes.  No one has
\* to enqueue or to retry, and no failure has to happen.
Fairness ==
  /\ \A j \in Jobs : WF_jobVars(BackoffEnds(j)) /\ WF_jobVars(HeartbeatExpires(j))
  /\ \A d \in Dispatchers :
       /\ WF_jobVars(\E j \in Jobs : LoadForDispatch(d, j))
       /\ WF_jobVars(Send(d) \/ SendFails(d))
       /\ WF_jobVars(RecordDispatch(d))
  /\ WF_jobVars(\E m \in queue : DropDelivery(m) \/ Claim(m))
  /\ WF_jobVars(\E e \in execution : Settle(e) \/ PublishRetry(e) \/ Ack(e))
  /\ \A r \in Recoverers :
       WF_jobVars(\E j \in Jobs : SelectStale(r, j)) /\ WF_jobVars(Recover(r))

FairSpec == Spec /\ Fairness
-----------------------------------------------------------------------------
Row == [status : {"none", "queued", "running", "succeeded", "failed"}, task : Nat,
        attempts : Nat, retryable : BOOLEAN, backoff : BOOLEAN, stale : BOOLEAN]

\* The declared values of the rows, the messages and the processes' records.
TypeOK ==
  /\ job \in [Jobs -> Row]
  /\ queue \subseteq Message
  /\ execution \subseteq Execution
  /\ dispatcher \in [Dispatchers -> [pc : {"idle", "loaded", "sent", "failed"},
                                     job : Jobs \cup {NoJob}, task : Nat]]
  /\ \A d \in Dispatchers : dispatcher[d].pc # "idle" => dispatcher[d].job \in Jobs
  /\ recoverer \in [Recoverers -> [job : Jobs \cup {NoJob}, exhausted : BOOLEAN]]
  /\ retrier \in [Retriers -> Jobs \cup {NoJob}]
  /\ published \in Nat /\ faults \in Nat
  /\ commits \in [Jobs -> Nat]
  /\ mishap \subseteq Mishaps \X Jobs

\* The two retry limits never disagree: whenever a row was returned to "queued"
\* to wait for a Celery retry, self.retry still has a retry left and does not
\* raise MaxRetriesExceededError, which would leave the row queued for ever.
\* Attempts are counted per row and retries per message, across repeated
\* deliveries, concurrent executions and manual retries.
RetryBudgetSuffices ==
  \A e \in execution : e.pc = "retry" => e.msg.retries < MaxRetries

\* Two executions of a job that overlap never count as the same attempt.
AttemptsAreDistinct ==
  \A e, f \in execution :
    e.msg.job = f.msg.job /\ e.attempt = f.attempt => e = f

Unharmed(j, kinds) == \A k \in kinds : <<k, j>> \notin mishap

\* At most one worker executes a job's operation at a time: the lease of a
\* claim is lost only after its execution has ended.  That fails only for a job
\* whose row a recovery or a manual retry has overtaken, or of which one task
\* has got two messages; no other order of the actors' steps breaks it.
ExclusiveExecution ==
  \A j \in Jobs : Unharmed(j, {"overtaken", "twin"}) => Cardinality(Executing(j)) <= 1

\* An operation is committed at most once, and its row then says so for good:
\* it is not queued, claimed or failed again by a process that read it before,
\* unless one of the same two things has happened.
SuccessIsFinal ==
  \A j \in Jobs : Unharmed(j, {"overtaken", "twin"}) =>
    commits[j] <= 1 /\ (commits[j] = 1 <=> job[j].status = "succeeded")

\* A queued row is visible to the dispatch run (at once or after its backoff),
\* or a message or a process that will move it on still exists.  Nothing else
\* looks for queued rows: one that has a task id and no message is stranded.
\* That happens only to a job that lost a message, whose row was overtaken, or
\* that was queued by hand between a dispatch and its record.
NotStranded ==
  \A j \in Jobs :
    Unharmed(j, {"lost", "overtaken", "requeued"})
      /\ job[j].status = "queued" /\ job[j].task # NoTask =>
    \/ \E m \in queue : m.job = j
    \/ \E e \in execution : e.msg.job = j /\ e.pc # "ack"

\* Every accepted job is eventually settled, through failed dispatches, lost
\* workers, killed tasks, stale heartbeats and repeated deliveries, unless one
\* of the things happens to it that strand it.
EventuallySettled ==
  \A j \in Jobs : job[j].status # "none" ~>
    \/ job[j].status \in {"succeeded", "failed"}
    \/ ~Unharmed(j, {"lost", "overtaken", "requeued"})
=============================================================================
