--------------------------- MODULE LeaveYearClose ---------------------------
(***************************************************************************)
(* One leave-year close run: year_end_services.py and tasks.py of          *)
(* apps/leave_management, the ledger movements the run makes, the period   *)
(* it closes, and the HR workbench that starts the run and polls the list  *)
(* of all runs, of which another one may be active.                        *)
(*                                                                         *)
(* Each transaction is one action.  A worker takes the employees in order, *)
(* one transaction each, between a first transaction that sets the run     *)
(* RUNNING and a last one that settles it; nothing keeps a second worker   *)
(* from doing the same at the same time.  The broker is external.          *)
(*                                                                         *)
(* A movement exists iff its units are not 0: the keys "run:carry:e" and   *)
(* "run:forfeit:e" name at most one movement each, so carried and          *)
(* forfeited hold the ledger of the run.  Time is abstract: stale stands   *)
(* for a started_at older than LEAVE_YEAR_CLOSE_STALE_SECONDS (1800 s); a  *)
(* task is killed after 930 s.                                             *)
(***************************************************************************)
EXTENDS Naturals, FiniteSets

CONSTANTS
  Employees,   \* 1..n, in the order of employee_id
  Opening,     \* closing_balance of each source balance before the run
  Cap,         \* carry_forward_cap of the run
  Workers,     \* tasks the workers execute at the same time
  MaxRetries,  \* max_retries of the task
  FaultKinds,  \* failures that may happen: see the uses of Fault
  MaxEvents,   \* bound: close requests, other movements, changes of the period
               \* and failures, together
  MaxQueue     \* bound: messages waiting at the same time

ASSUME YearAssumption ==
  /\ IsFiniteSet(Employees) /\ Employees = 1..Cardinality(Employees)
  /\ Opening \in [Employees -> Nat]
  /\ {Cap, MaxRetries, MaxEvents, MaxQueue} \subseteq Nat

VARIABLES
  run,        \* the LeaveYearCloseRun row
  item,       \* LeaveYearCloseItem status by employee
  source,     \* closing_balance of the source period's balances
  carried,    \* units of the carry-forward movement to the target period
  forfeited,  \* units of the forfeiture movement
  rolledOver, \* history: employees whose item transaction was committed
  period,     \* status of the source LeavePolicyPeriod
  queue,      \* how many messages of each number of retries the broker holds
  worker,     \* what each worker is doing
  unstarted,  \* history: a task was used up before it had marked the run as running
  others,     \* is another close run of the tenant queued or running?
  page,       \* the workbench: the list it shows, its poll and its request
  events      \* counter of the bound

serverVars == <<run, item, source, carried, forfeited, rolledOver, period>>
taskVars == <<queue, worker, unstarted>>
yearVars == <<serverVars, taskVars, others, page, events>>

Unsettled == {"queued", "running"}
Settled == {"succeeded", "failed"}

IdleWorker == [pc |-> "idle", retries |-> 0, next |-> 0, first |-> FALSE, failures |-> FALSE]

\* A list of close runs: the status of this run, "none" when it is not in the
\* list, and whether another run in it is active.
List(status, active) == [run |-> status, others |-> active]
Active(list) == list.run \in Unsettled \/ list.others
EmptyList == List("none", FALSE)

\* Another page may have had the run accepted.  Bound: then none else is active.
Init ==
  /\ \E accepted \in {"none", "queued"} :
       run = [status |-> accepted, dispatched |-> FALSE, started |-> FALSE, stale |-> FALSE, completed |-> FALSE]
  /\ item = [e \in Employees |-> "none"]
  /\ source = Opening
  /\ carried = [e \in Employees |-> 0] /\ forfeited = [e \in Employees |-> 0]
  /\ rolledOver = {}
  /\ period = "open"
  /\ queue = [r \in 0..MaxRetries |-> 0] /\ worker = [w \in Workers |-> IdleWorker]
  /\ unstarted = FALSE
  /\ others \in BOOLEAN /\ (others => run.status = "none")
  /\ page = [shown |-> List("none", others), poll |-> "off", polled |-> EmptyList,
             post |-> "off", posted |-> "none", overtaken |-> FALSE]
  /\ events = 0

Count == events < MaxEvents /\ events' = events + 1
Fault(kind) == kind \in FaultKinds /\ Count

-----------------------------------------------------------------------------
(* The beat task: recovery and dispatch.                                   *)

Publish(retries) ==
  /\ \A r \in 0..MaxRetries : queue[r] < MaxQueue
  /\ queue' = [queue EXCEPT ![retries] = @ + 1]

Dispatchable == run.status = "queued" /\ ~run.dispatched

\* apply_async and dispatched_at in one transaction, under the row's lock.
Dispatch ==
  /\ Dispatchable
  /\ Publish(0)
  /\ run' = [run EXCEPT !.dispatched = TRUE]
  /\ UNCHANGED <<item, source, carried, forfeited, rolledOver, period, worker, unstarted, others, page, events>>

\* The transaction is rolled back after the message has left.
DispatchRollsBack ==
  /\ Dispatchable
  /\ Fault("rollback") /\ Publish(0)
  /\ UNCHANGED <<serverVars, worker, unstarted, others, page>>

\* Faulty variant: the run is queued again but keeps its dispatched_at.
RecoverKeepsDispatch ==
  /\ run.status = "running" /\ run.stale /\ ~run.completed
  /\ run' = [run EXCEPT !.status = "queued"]
  /\ UNCHANGED <<item, source, carried, forfeited, rolledOver, period, taskVars, others, page, events>>

\* recover_stale_leave_year_close_runs; started_at stays as it is.
Recover ==
  /\ run.status = "running" /\ run.stale /\ ~run.completed
  /\ run' = [run EXCEPT !.status = "queued", !.dispatched = FALSE]
  /\ UNCHANGED <<item, source, carried, forfeited, rolledOver, period, taskVars, others, page, events>>

\* 1800 s have passed since the first execution started, which is over by then.
BecomesStale ==
  /\ run.started /\ ~run.stale
  /\ \A w \in Workers : ~worker[w].first
  /\ run' = [run EXCEPT !.stale = TRUE]
  /\ UNCHANGED <<item, source, carried, forfeited, rolledOver, period, taskVars, others, page, events>>

-----------------------------------------------------------------------------
(* The worker: execute_leave_year_close_run.                               *)

Deliver(r) == queue[r] > 0 /\ queue' = [queue EXCEPT ![r] = @ - 1]

\* The delivery of a run that has succeeded returns at once.
DropDelivery(w, r) ==
  /\ worker[w].pc = "idle" /\ Deliver(r)
  /\ run.status = "succeeded"
  /\ UNCHANGED <<serverVars, worker, unstarted, others, page, events>>

\* The first transaction; started_at keeps its first value.
Start(w, r) ==
  /\ worker[w].pc = "idle" /\ Deliver(r)
  /\ run.status # "succeeded"
  /\ run' = [run EXCEPT !.status = "running", !.started = TRUE]
  /\ worker' = [worker EXCEPT ![w] = [pc |-> "items", retries |-> r,
                  next |-> 1, first |-> ~run.started, failures |-> FALSE]]
  /\ UNCHANGED <<item, source, carried, forfeited, rolledOver, period, unstarted, others, page, events>>

\* self.retry publishes the task again; after the last attempt nothing is left.
Retry(retries) ==
  IF retries < MaxRetries THEN Publish(retries + 1) ELSE UNCHANGED <<queue>>

\* The same for a task that has only just been delivered.
RetryDelivered(r) ==
  /\ queue[r] > 0
  /\ r < MaxRetries => queue[r + 1] < MaxQueue
  /\ queue' = IF r < MaxRetries THEN [queue EXCEPT ![r] = @ - 1, ![r + 1] = @ + 1]
              ELSE [queue EXCEPT ![r] = @ - 1]

\* The first transaction raises: the task is published again, up to max_retries.
StartRaises(w, r) ==
  /\ worker[w].pc = "idle" /\ Fault("raise")
  /\ RetryDelivered(r)
  /\ unstarted' = (unstarted \/ r = MaxRetries)
  /\ UNCHANGED <<serverVars, worker, others, page>>

\* The read of the run, outside the try, raises, or the hard time limit ends
\* the task before its first transaction: its message is acknowledged.
NotStarted(w, r) ==
  /\ worker[w].pc = "idle" /\ Fault("unread")
  /\ Deliver(r)
  /\ unstarted' = TRUE
  /\ UNCHANGED <<serverVars, worker, others, page>>

Carry(e) == IF source[e] <= Cap THEN source[e] ELSE Cap

\* Faulty variant: the difference to the cap, whatever its sign.
ForfeitBelowCap(e) == source[e] - Cap

Forfeit(e) == source[e] - Carry(e)

\* Faulty variant: a movement whose key exists is recorded once more.
AppendAgain(existing, units) == existing + units

\* append_leave_ledger_movement: the existing movement of the key, or a new one.
AppendMovement(existing, units) == IF existing = 0 THEN units ELSE existing

\* The key was used with other units.
Mismatch(existing, units) == units # 0 /\ existing \notin {0, units}

Raises(e) ==
  item[e] # "succeeded" /\ (Mismatch(forfeited[e], Forfeit(e)) \/ Mismatch(carried[e], Carry(e)))

AtItem(w) == worker[w].pc = "items" /\ worker[w].next \in Employees

Advance(w, failed) ==
  worker' = [worker EXCEPT ![w] = [@ EXCEPT !.next = worker[w].next + 1,
                                          !.failures = worker[w].failures \/ failed]]

\* _process_close_item: both movements, the lots and the item in one transaction.
ProcessItem(w) ==
  LET e == worker[w].next IN
  /\ AtItem(w) /\ item[e] # "succeeded" /\ ~Raises(e)
  /\ item' = [item EXCEPT ![e] = "succeeded"]
  /\ forfeited' = [forfeited EXCEPT ![e] = AppendMovement(@, Forfeit(e))]
  /\ source' = [source EXCEPT ![e] = IF forfeited[e] = 0 THEN @ - Forfeit(e) ELSE @]
  /\ carried' = [carried EXCEPT ![e] = AppendMovement(@, Carry(e))]
  /\ rolledOver' = rolledOver \cup {e}
  /\ Advance(w, FALSE)
  /\ UNCHANGED <<run, period, queue, unstarted, others, page, events>>

\* Another worker or an earlier attempt has done it.
SkipItem(w) ==
  /\ AtItem(w) /\ item[worker[w].next] = "succeeded"
  /\ Advance(w, FALSE)
  /\ UNCHANGED <<serverVars, queue, unstarted, others, page, events>>

RecordFailure(w) ==
  /\ item' = [item EXCEPT ![worker[w].next] = "failed"]
  /\ Advance(w, TRUE)
  /\ UNCHANGED <<run, source, carried, forfeited, rolledOver, period, queue, unstarted, others, page>>

\* The transaction raises and is rolled back; the item is then recorded as
\* failed, whatever another worker has made of it.
ItemMismatch(w) ==
  /\ AtItem(w) /\ Raises(worker[w].next)
  /\ RecordFailure(w)
  /\ UNCHANGED events

\* ... on a database error, a deadlock or the soft time limit.
ItemFails(w) ==
  /\ AtItem(w)
  /\ Fault("item")
  /\ RecordFailure(w)

AtEnd(w) == worker[w].pc = "items" /\ worker[w].next \notin Employees

\* Faulty variant: failures of the items are not counted.
OutcomeIgnoresFailures(w) == "succeeded"

Outcome(w) == IF worker[w].failures THEN "failed" ELSE "succeeded"

\* The last transaction settles the run by this worker's own failures.
Settle(w) ==
  /\ AtEnd(w)
  /\ run' = [run EXCEPT !.status = Outcome(w), !.completed = TRUE]
  /\ worker' = [worker EXCEPT ![w] = IdleWorker]
  /\ UNCHANGED <<item, source, carried, forfeited, rolledOver, period, unstarted, others, page>>

Finish(w) == Settle(w) /\ UNCHANGED <<queue, events>>

Requeue(w) == queue' = [queue EXCEPT ![worker[w].retries] = @ + 1]

\* The worker is lost after its last transaction and before the acknowledgement.
CrashBeforeAck(w) == Settle(w) /\ Fault("late_crash") /\ Requeue(w)

\* The worker is lost; acks_late returns its message to the queue.
Crash(w) ==
  /\ worker[w].pc = "items" /\ Fault("crash")
  /\ Requeue(w)
  /\ worker' = [worker EXCEPT ![w] = IdleWorker]
  /\ UNCHANGED <<serverVars, unstarted, others, page>>

\* time_limit=930: the task is killed and its message acknowledged.
HardTimeLimit(w) ==
  /\ worker[w].pc = "items" /\ Fault("time_limit")
  /\ worker' = [worker EXCEPT ![w] = IdleWorker]
  /\ UNCHANGED <<serverVars, queue, unstarted, others, page>>

\* The run itself raises: self.retry publishes the task again, up to max_retries.
ExecutionRaises(w) ==
  /\ worker[w].pc = "items" /\ Fault("raise")
  /\ worker' = [worker EXCEPT ![w] = IdleWorker]
  /\ Retry(worker[w].retries)
  /\ UNCHANGED <<serverVars, unstarted, others, page>>

-----------------------------------------------------------------------------
(* Other writers of the ledger and of the period.                          *)

MovementAccepted == period = "open" /\ run.status \notin {"running", "succeeded"}

\* A movement of one unit, granted or taken.
OtherMovement(e, granted) ==
  /\ MovementAccepted
  /\ granted \/ source[e] > 0
  /\ Count
  /\ source' = [source EXCEPT ![e] = IF granted THEN @ + 1 ELSE @ - 1]
  /\ UNCHANGED <<run, item, carried, forfeited, rolledOver, period, taskVars, others, page>>

Closable == period = "open" /\ run.status = "succeeded"

ChangePeriod(status) ==
  /\ Count
  /\ period' = status
  /\ UNCHANGED <<run, item, source, carried, forfeited, rolledOver, taskVars, others, page>>

\* transition_leave_policy_period; a repeated key changes nothing.
ClosePeriod == Closable /\ ChangePeriod("closed")
ReopenPeriod == period = "closed" /\ ChangePeriod("open")
LockPeriod == period = "closed" /\ ChangePeriod("locked")

-----------------------------------------------------------------------------
(* The workbench.  inFlight admits one request at a time; the poll effect  *)
(* runs while a run of the list is queued or running, and is aborted when  *)
(* none is any more.                                                       *)

Show(list) ==
  IF Active(list) THEN [page EXCEPT !.shown = list]
  ELSE [page EXCEPT !.shown = list, !.poll = "off", !.polled = EmptyList]

\* commitClose sends the request.
CommitClose ==
  /\ page.post = "off" /\ Count
  /\ page' = [page EXCEPT !.post = "sent"]
  /\ UNCHANGED <<serverVars, taskVars, others>>

\* create_leave_year_close_run: a new run, or the one this key has made before.
AcceptRun ==
  /\ page.post = "sent"
  /\ run' = [run EXCEPT !.status = IF @ = "none" THEN "queued" ELSE @]
  /\ page' = [page EXCEPT !.post = "answered", !.posted = run'.status]
  /\ UNCHANGED <<item, source, carried, forfeited, rolledOver, period, taskVars, others, events>>

\* updateRun puts the accepted run into the list.
ReceiveAccepted ==
  /\ page.post = "answered"
  /\ page' = [Show(List(page.posted, page.shown.others)) EXCEPT
                !.post = "off", !.posted = "none", !.overtaken = FALSE]
  /\ UNCHANGED <<serverVars, taskVars, others, events>>

\* The request or its answer is lost; the outcome is unconfirmed.
PostFails ==
  /\ page.post \in {"sent", "answered"} /\ Fault("network")
  /\ page' = [page EXCEPT !.post = "off", !.posted = "none"]
  /\ UNCHANGED <<serverVars, taskVars, others>>

\* Faulty variant: a queued run is not polled.
PollRunning ==
  /\ (page.shown.run = "running" \/ page.shown.others) /\ page.poll = "off"
  /\ page' = [page EXCEPT !.poll = "sent"]
  /\ UNCHANGED <<serverVars, taskVars, others, events>>

\* The effect starts, or its timer of 3 s ends.
Poll ==
  /\ Active(page.shown) /\ page.poll = "off"
  /\ page' = [page EXCEPT !.poll = "sent"]
  /\ UNCHANGED <<serverVars, taskVars, others, events>>

ServePoll ==
  /\ page.poll = "sent"
  /\ page' = [page EXCEPT !.poll = "answered", !.polled = List(run.status, others)]
  /\ UNCHANGED <<serverVars, taskVars, others, events>>

\* An error is shown; finally sets the timer all the same.
PollFails ==
  /\ page.poll \in {"sent", "answered"} /\ Fault("network")
  /\ page' = [page EXCEPT !.poll = "off", !.polled = EmptyList]
  /\ UNCHANGED <<serverVars, taskVars, others>>

\* setRunSnapshot replaces the list; the timer is set, or the effect ends with
\* the last active run.  A list older than the accepted run overtakes it.
ReceivePoll ==
  /\ page.poll = "answered"
  /\ page' = [page EXCEPT !.shown = page.polled, !.poll = "off", !.polled = EmptyList,
                !.overtaken = @ \/ (page.shown.run # "none" /\ page.polled.run = "none")]
  /\ UNCHANGED <<serverVars, taskVars, others, events>>

\* The other run is settled by a worker of its own.
OtherRunEnds ==
  /\ others /\ others' = FALSE
  /\ UNCHANGED <<serverVars, taskVars, page, events>>

-----------------------------------------------------------------------------
WorkOn(w) == ProcessItem(w) \/ SkipItem(w) \/ ItemMismatch(w) \/ Finish(w)

Next ==
  \/ Dispatch \/ DispatchRollsBack \/ Recover \/ BecomesStale
  \/ \E w \in Workers :
       \/ \E r \in 0..MaxRetries :
            DropDelivery(w, r) \/ Start(w, r) \/ StartRaises(w, r) \/ NotStarted(w, r)
       \/ WorkOn(w) \/ ItemFails(w)
       \/ Crash(w) \/ CrashBeforeAck(w) \/ HardTimeLimit(w) \/ ExecutionRaises(w)
  \/ \E e \in Employees, granted \in BOOLEAN : OtherMovement(e, granted)
  \/ ClosePeriod \/ ReopenPeriod \/ LockPeriod
  \/ CommitClose \/ AcceptRun \/ ReceiveAccepted \/ PostFails
  \/ Poll \/ ServePoll \/ ReceivePoll \/ PollFails \/ OtherRunEnds

Spec == Init /\ [][Next]_yearVars

\* Beat runs every 15 s, the workers consume the queue and go on, time passes,
\* requests are answered, and the page stays open.  Nobody has to post, to move
\* units or to close the period, and no failure has to happen.
Fairness ==
  /\ WF_yearVars(Dispatch) /\ WF_yearVars(Recover) /\ WF_yearVars(BecomesStale)
  /\ \A w \in Workers :
       /\ WF_yearVars(\E r \in 0..MaxRetries : DropDelivery(w, r) \/ Start(w, r))
       /\ WF_yearVars(WorkOn(w))
  /\ WF_yearVars(AcceptRun) /\ WF_yearVars(ReceiveAccepted)
  /\ WF_yearVars(Poll) /\ WF_yearVars(ServePoll) /\ WF_yearVars(ReceivePoll)

FairSpec == Spec /\ Fairness
-----------------------------------------------------------------------------
RunStatuses == {"none"} \cup Unsettled \cup Settled

TypeOK ==
  /\ run \in [status : RunStatuses, dispatched : BOOLEAN, started : BOOLEAN,
              stale : BOOLEAN, completed : BOOLEAN]
  /\ item \in [Employees -> {"none", "succeeded", "failed"}]
  /\ source \in [Employees -> Nat] /\ carried \in [Employees -> Nat] /\ forfeited \in [Employees -> Nat]
  /\ rolledOver \subseteq Employees
  /\ period \in {"open", "closed", "locked"}
  /\ queue \in [0..MaxRetries -> Nat]
  /\ worker \in [Workers -> [pc : {"idle", "items"}, retries : 0..MaxRetries,
                             next : Nat, first : BOOLEAN, failures : BOOLEAN]]
  /\ unstarted \in BOOLEAN /\ others \in BOOLEAN
  /\ page \in [shown : [run : RunStatuses, others : BOOLEAN], poll : {"off", "sent", "answered"},
               polled : [run : RunStatuses, others : BOOLEAN],
               post : {"off", "sent", "answered"}, posted : RunStatuses, overtaken : BOOLEAN]
  /\ events \in 0..MaxEvents

\* However many workers and attempts process an employee, the new year gets at
\* most the cap, and units are forfeited only where the whole cap was carried.
CarryRespectsCap ==
  \A e \in Employees :
    /\ carried[e] <= Cap
    /\ forfeited[e] > 0 => carried[e] = Cap

\* A run that reports success, and a period that was closed on it, left no
\* employee out: every balance was rolled over by a committed transaction,
\* whichever worker the status came from.
SuccessLeavesNoOneOut ==
  run.status = "succeeded" \/ period # "open" => rolledOver = Employees

\* A queued run that no message names: dispatch and recovery both pass it over.
Stranded ==
  /\ run.status = "queued" /\ run.dispatched
  /\ \A r \in 0..MaxRetries : queue[r] = 0
  /\ \A w \in Workers : worker[w].pc = "idle"

\* Once a run was accepted some execution of it reaches its end, through lost
\* workers, killed tasks, repeated messages and the recovery of a stale run.
\* What stops it for good is only a task that was used up before it had marked
\* the run as running: the read of the run raised, the first transaction raised
\* through every retry, or the time limit was reached before it.
EventuallyCompletes ==
  run.status # "none" ~> run.completed \/ (unstarted /\ Stranded)

\* If the run comes to rest, a page that shows an accepted run comes to show
\* an outcome, through lost polls and late answers.  It loses the run for good
\* only to a list read before the run was accepted, received after the answer
\* to its request, in which no other run is active.
OutcomeReachesPage ==
  <>[](run.status \in Settled) =>
    (page.shown.run # "none" ~> \/ page.shown.run \in Settled
                                \/ page.overtaken /\ ~Active(page.shown))
=============================================================================
