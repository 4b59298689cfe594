# HRMS and payroll: TLA+ verification

This directory models the parts of the HRMS/payroll system in which several actors change
the same state: in the backend (`src/backend`, Django and Celery on PostgreSQL and Redis)
requests, workers and timers that write the same rows; in the web client (`src/web`,
Next.js) overlapping reads, retried submissions and polling. TLC checks the modules on small instances; TLAPS proves
every safety property and action property of the passing runs for every value of the constants. `PROJECT.json` lists, for every definition, the source lines it models.

## 1. Inventory

| Component | State it keeps | Operations | What is hard about it |
|---|---|---|---|
| Workflow engine (`workflows/services.py`) | instance status, current step pointer, step rows, assignments, action log | create, resolve (approve, reject, cancel) | an approval changes four tables; free step orders in templates; late or repeated decisions |
| Durable payroll jobs (`payroll/background_jobs.py`, `payroll/tasks.py`) | job rows: status, task id, attempts, heartbeat, next retry | enqueue, dispatch, claim, execute, fail, Celery retry, recover, manual retry | publish-then-record outbox, late acknowledgement, redelivery, two counters of attempts, stale scans |
| Leave requests and balances (`leave_management/services.py`) | request status and action, reserved, consumed and closing amounts | submit, decide, withdraw, cancel | checks before the lock, one request with successive workflows, balance moved by six paths |
| Leave auto approval (`leave_management/auto_approval.py`) | due date of the open step | scan, decide | a timer that races everybody else |
| Payroll run lifecycle (`payroll/services.py`, `payroll/models.py`) | run status, input snapshots, calculation attempts, review, exceptions, approvals, output batch | edit, lock inputs, calculate, open review, raise and decide exceptions, submit, approve, reject, lock, generate, publish | handlers that save whole records they loaded without a lock |
| HTTP API layer (`common/api_views.py`) | none of its own | about 500 views | authority and status are often read before the service locks |
| Idempotent mutations (`common/idempotency.py`) | key, fingerprint, stored answer, expiry | execute once, replay, refuse | a replay while the first call runs, after it was rolled back or answered 5xx |
| Leave-year close and ledger (`year_end_services.py`, `leave_management/tasks.py`) | periods, ledger entries, close runs and items | create, dispatch, execute, recover; other movements; close, reopen, lock a period | item-by-item progress, two executions of one run, stale by a start time that is never reset, tasks used up before they start the run |
| Scoped workspace resource (`web/src/lib/ui/use-scoped-workspace-resource.ts`) | data, applied query, version and controller of the active read, browser history | load, popstate, unmount | answers out of order, a URL that changes before its read |
| Idempotent submissions (`web/src/lib/ui/mutation-idempotency.ts`, leave form, manager decision, attendance correction) | key and signature in the session storage, a continuation per submission | submit, receive, reload the list, clear the key | lost answers, closed dialogs, page reloads while the handler goes on |
| Leave-year workbench (`web/src/app/hr-admin/leave-year`) | shown runs, a poll timer, the request in flight | commit a close, poll | failed polls, lists older than the accepted run |
| Attendance (`attendance/services.py`) | punches, daily records, regularisations, closed periods | punch, regularise, close, reopen | records refreshed after the close |
| Notifications (`notifications/`) | event rows, attempts | enqueue, deliver, retry | delivery is at least once |
| Finance handoff and providers (`payroll/services.py`, `payroll/providers.py`) | provider jobs, attempts, callbacks | send, retry, callback | a late callback of an earlier attempt |
| Fiscal calendar, employee lifecycle, documents, tenants, policies, storage | configuration and master data | transitions, mostly single-row | little concurrency of their own |
| Other web pages, route handlers, mobile client | component state | rendering, forwarding | not applicable |

**How they interact.** Leave, attendance and lifecycle requests create a workflow
instance and follow its outcome; `resolve_leave_request` calls `resolve_workflow_action`
inside its own transaction. Leave decisions move units of the balance. Long payroll
operations (calculation, outputs) are put into the job table by the API and executed by
Celery workers, which call the same payroll services as the synchronous views. Beat
starts the dispatch run (every 2 s), the stale-job scan with it, the year-close dispatch (every
15 s) and the auto-approval scan (every 60 s): `config/settings/base.py:196`. The web client posts
mutations through Next.js route handlers that pass body, `Idempotency-Key` and status on; views
wrap the service call in `execute_idempotent_mutation`. After a success the client reads its
workspace again through the scoped resource hook; the workbench polls the run it started.

**What makes each modelled component correct.** Workflow: rows, pointer, log and status
agree, and an outcome is final. Jobs: one executor at a time, one commit, bounded attempts,
nothing stranded. Leave: the balance is the sum of the requests, the request follows its
workflow, timers only decide what is due. Payroll: nobody approves
their own submission, and a locked review is clean. Idempotent mutations: one commit per key and
truthful answers. Workspace pages: one write per intent, the last read wins, what was reported as
saved is shown, nothing stays busy. Year close: nobody is carried over twice or left out, and the
run completes. `hazards` in `PROJECT.json` lists where in the code each of these could go wrong.

## 2. Modules

| Module | Content |
|---|---|
| `ApprovalChain` | abstract specification: what a workflow promises to its callers |
| `WorkflowInstance` | the engine; `ImplementsApprovalChain` is the refinement |
| `WorkflowInstanceProofs` | its theorems |
| `PayrollBackgroundJob`, `PayrollBackgroundJobProofs` | the job table with every process that writes to it |
| `LeaveRequest`, `LeaveRequestProofs` | requests, balance, callers and timers, composed with `WorkflowInstance` (`wf == INSTANCE WorkflowInstance`); its proofs use those of the engine |
| `PayrollRun`, `PayrollRunProofs` | one payroll run with the handlers that serve its requests |
| `IdempotencyRecord`, `IdempotencyRecordProofs` | the server side of an idempotent mutation; also the specification the page is shown to implement |
| `WorkspaceResource`, `WorkspaceResourceProofs` | the hook behind every workspace page, on its own |
| `WorkspacePage`, `WorkspacePageProofs` | both composed with the dialogs that submit; the composition implements each of the two |
| `LeaveYearClose`, `LeaveYearCloseProofs` | one close run, its ledger, its workers and the workbench |
| `MC...` | model values and symmetry sets for TLC |

A definition whose comment starts with "Faulty variant" is a plausible mistake in the code
it stands next to. It is used by no specification; it is there to show that the property
listed with it in `PROJECT.json` would notice.

### WorkflowInstance

`status`, `currentStepOrder`, `route`, `stepStatus`, `actionLog` are the tables. `Create` is
`create_workflow_instance` for a dynamic chain, a template or the default step, which differ
only in the route (step order to assignees). `Resolve` is `resolve_workflow_action`: it runs
in one transaction that locks the instance and then the step, hence one action. Calls that
it refuses or answers with the stored outcome change nothing and are stuttering steps.

### PayrollBackgroundJob

`job` is the table; `queue` and `execution` are the broker and the workers, modelled from how
the task is declared (`acks_late`, `reject_on_worker_lost`, `max_retries=2`, `time_limit=330`).
Every SQL statement or transaction is an action. A process that has read a row and not yet
written it is kept in `dispatcher`, `recoverer` or `retrier`.

Time is abstract. `stale` is a heartbeat older than 7 minutes, `backoff` a `next_retry_at` in
the future. One timing assumption is made: the gap between a read (or a publication) and the
UPDATE that follows it is shorter than the minutes of a time limit or heartbeat (`Between`).
Since a task is killed after 330 s and the heartbeat expires after 420 s, no heartbeat is
stale while its execution is running. The operation a job executes is reduced to "commits" or
"fails"; `PayrollRun` models what it does.

Some interleavings of this code do break the lease or strand a row. The history variable `mishap` records, by job,
when one of them happens, and the properties name the ones they do not survive: `"overtaken"` (a recovery or a
manual retry updates a row that is no longer as it was read), `"twin"` (a message comes back while the retry of the same
task waits or runs), `"requeued"` (a manual retry between a publication and its record) and `"lost"` (a message is gone
without a claim: lost by the broker, or acknowledged after an exception in the claim's transaction).

### LeaveRequest

One employee, one policy without a policy period. What the policy has granted depends on the start date of the request
at hand (`Entitlement`, `Available`), as `_get_or_create_leave_balance` recomputes the accrual as of that date. Every service call locks the request row and
is one action; what its caller read before is in `submitter` (dates validated), `session`
(authority checked for a step), `timer` (candidate) and `viewer` (balance computed by a page
view). `_validate_leave_request` also stores a recalculated balance without a lock; this is not
an action of its own, because every service recalculates the balance under the lock and page
views (`ViewBalance`, `StoreView`) already store outdated ones. Not modelled: negative-balance
policies, balances of a policy period (ledger), unit calculation from calendars, and policy
resolution.

### PayrollRun

One run. Submit, approve, reject, lock, generate and publish hold row locks from start to end
and are one action each. Edits, lock inputs, calculation, opening a review and handling an
exception are cut where the code reads, cleans (`full_clean` in `save`) and writes; `handler`
holds the loaded record. In `CommitCalculation` the save of the run is one step with the
commit: the row lock that the INSERT and UPDATE statements of the transaction take closes the
gap between clean and write. Input snapshots are reduced to whether they are all locked.
What is calculated, evidence hashes and seals, adjustments and settlements are left out.
`lastSubmitter`, `submitters` and `staleWrites` are history variables; the last one records which of four things a
request has done because it does not lock what it reads: saved a run that was locked meanwhile, superseded
calculations of such a run, inserted an exception into a review that was locked, or saved a review over a newer one.

### IdempotencyRecord

`record` holds the committed rows, `call` the requests, `applied` is a history variable: the calls
whose operation was committed. The advisory lock of PostgreSQL is held from the first read of the
row to the commit, so the row's creation, the operation and the stored answer are two steps: `Begin`
takes the lock, `Complete` commits all or `Rollback` nothing. The `IN_PROGRESS` answer of the code is
therefore never given; on a database without the advisory lock (`_lock_key` returns at once) it would
be, and the unique constraint would take over. A refused operation (4xx) is stored and replayed;
a 5xx is stored as retryable. No operation of the repository returns a 5xx response of its own, so
the outcome `"unavailable"` exercises a path that is in the code but not used yet.

### WorkspaceResource

`load` is cut at its `await`: `Load` before, `Apply`, `Reject` or `Discard` after, and the `finally`
block belongs to each of them (`Finish`). `version` and `active` are the two refs. `entries` and
`position` are the browser's history; `PopState` moves the position first, as browsers do. The mode
`"history"` is the code's `"none"` of a `popstate` read, told apart only for the history variable
`lostRead`. `resolveQuery` (line 81) takes the page out of the answer: `ServeRead` carries the query the answer stands
for, and `Resolutions` of `WorkspacePage` says which. The live leave and attendance endpoints return the page that
was asked for, while the approvals also give way from a page beyond the last. `cancel`, `reconcile` and `clearError` are not used by the three pages considered.

### WorkspacePage

`submission` is the continuation of each submit handler, which survives its dialog and its page, and
ends with a page reload. `dialog`, `submitting` and `stored` are the state of the mounted dialog and
its session storage entry. The three handlers differ in when they clear the key and whether they wait
for the read: `ApplySaved`, `DecisionSaved` and `RegularizationSaved`. The end of a read and the
handler that awaits it are one step (`ReconcileOk`, `ReconcileNotOk`). `intent` is what the user means:
a submission with the payload of the last one, whose success was not reported, means the same again. A dialog can be
closed while its submission is in flight and opened for another; `beside` records for a submission which others were not over.

### LeaveYearClose

Each transaction of `execute_leave_year_close_run` is an action, and so is each publication. A run
has no lease: several workers may execute it at once, and the row locks of items and balances together
with the ledger keys are what keeps a movement single. `stale` abstracts `started_at`, which is set
once and never reset, hence `BecomesStale` is permanent. The timing assumption is that a task is
killed (930 s) before its run is stale (1800 s). `page` is the workbench, with one request and one
poll in flight; it shows a list of runs, here this run and whether another one is active (`others`), and a poll
replaces the whole list. `unstarted` records that a task was used up before it marked the run as running: the read of the run
(`tasks.py:34`, outside the try) raised, the first transaction raised through every retry, or the time limit came first.
The target period is taken to be open and to have no close run of its own, the run is not scheduled for later, and the set of
balances is fixed, while the code lists them anew in each execution; units are
whole and balances not negative, while the code rounds to hundredths and clamps at zero.

## 3. Runs

Passing runs:

| Run | Bounds | Shows |
|---|---|---|
| `workflow` | 2 instances, 6 routes (default step, 1, 2 and 3 steps, a gap, no step of order 1) | rows, pointer, log and status agree; outcome final; refinement of `ApprovalChain` |
| `job_all_actors` | 1 job, 2 dispatch runs, 1 scan, 1 retry request, 2 workers, every kind of failure, 2 failures, 3 messages | types; the two attempt counters never disagree; overlapping executions are different attempts; exclusive execution, one commit and no stranded row, but for the named mishaps |
| `job_settled` | 2 dispatch runs, 1 scan, 2 workers, every kind of failure, 2 failures, 2 attempts, 6 messages | every job is settled, or lost its message, or its row was overtaken |
| `leave_multi_level` | 3 requests of which any two fit, entitlement by start date, 1- and 2-step routes and the default step, 2 submissions, session, timer, page view | balance, no overdraft, request follows workflow, timer decides only what is due |
| `leave_cancellation` | 2 requests with two approvals, direct and two-step cancellation after and between them, 3 workflows per request | balance and workflow agreement through cancellation, refusal and renewed cancellation |
| `payroll` | 2 handlers, 2 users, 1 exception, 2 calculations, edits to 2 statuses or none | four eyes behind every locked review and output; maker-checker and clean locked review, but for the named stale writes |
| `workspace_page` | 2 submissions, 2 payloads, 2 queries, 3 reads, 3 steps of the user, every dialog and outcome | one commit per key, one write per intent, the last read wins, saved data is shown, the leave page's URL names its data, keys are kept until confirmed, everything settles |
| `leave_year_close` | 2 employees (1 and 3 units, cap 2), 2 workers, 1 retry, another run active or not, 3 events: 8 kinds of failure, movements and requests | cap respected, nobody left out, the run completes or its task never started it, its outcome reaches the page or an older list overtakes it |

Why the bounds are enough: one job suffices because rows do not interact; two dispatch runs and
two workers give every overlap of two writers; three attempts is the real limit. Three leave
requests, of which any two fit the entitlement and two only if the earlier one is first, compete for one balance; a two-step
route has an intermediate and a final approval, and the third workflow of a request is a renewed cancellation. Two
calculations are a superseded and a current one; two users are a submitter and an approver, two handlers give every overlap of a
request with another, and a third one or a second exception adds no kind of stale write. Two submissions are a first one
and its retry or a different one beside it; three steps allow a submission, its retry and a reload, navigation or expired key
between them. One balance below and one above the cap give every kind of item, and three events allow a close request and two
failures or movements, or three of these where another page has had the run accepted already (then no other run is active, which is
a bound of the initial states). The liveness run of the jobs has one retry less and no manual retry, so that it stays small; its kinds of
failure are the same. `MaxMessages`, `MaxFaults`, `MaxWorkflows`, `MaxCalculations`, `MaxLoads`,
`MaxSteps`, `MaxEvents`, `MaxQueue` and `MaxLoad` are the only artificial bounds, and each is named in its module. Deadlock is not checked where all work may be
done: settled jobs, decided requests, published outputs, finished runs and idle pages are final by design.

Runs that show a disagreement between the code and what the repository says of it (quoted in
`findings`):

| Run | Shows |
|---|---|
| `leave_overlap` | two concurrent submissions for one date both pass the overlap check and both succeed |
| `leave_stale_decision` | the slower of two decisions on a step is applied to the next step |
| `leave_early_cancellation` | leave with one of its two approvals is cancelled, and its reserved units stay reserved |
| `page_reopened` | the end of a submission whose dialog was closed clears the key of the unconfirmed submission made after it |

**Fairness** is used in the runs that check liveness. In `job_settled` weak fairness is assumed
of the dispatch run and of the scan (beat starts them forever), of the workers taking messages and
finishing what they started, and of time passing. Enqueueing, manual retry and all failures are
not fair. Failures are finitely many, as in any run of bounded length that is to end. In
`workspace_page` only the browser is fair: `fetch` resolves or throws, and a settled promise runs its
continuation; neither the user nor the server owes anything. In `leave_year_close` beat, the workers,
time, the answers to requests and the poll timer are fair, and nobody has to post, to move units or to
close the period; a transaction that always raises is a failure, hence not fair. `OutcomeReachesPage` is about runs that come to rest, since the code does not
guarantee that they do (see below).

### Where the code does not keep what one might expect

The properties above hold of the code as it is, so some of them name what they do not cover. Dropping the named
exception makes TLC show the behaviour.

* An instance of a template without a step of order 1 is pending for ever, has no open step and refuses
  every decision as already resolved (`workflows/services.py:213`). Template step orders are
  free integers (`api_views.py:2705`). `PendingChainShape` says so, and `WorkflowStuckWithoutFirstStep` that it is the only case.
* `ExclusiveExecution` and `SuccessIsFinal` except jobs whose row was `"overtaken"` and tasks with a `"twin"`: the
  recovery does not read the heartbeat again, `retry_payroll_background_job` updates by id
  what it checked before, and a redelivered message passes the lease test when the row is running under the same task.
* `attempt_count` is not a bound on executions: each redelivery is one more, since the claim does not compare
  it with `max_attempts`.
* `NotStranded` and `EventuallySettled` except jobs that have `"lost"` a message, were `"overtaken"` or `"requeued"`: no scan
  selects a queued row that has a task id. A message is lost by the broker, or by any exception in the claim's
  transaction, which the task does not retry (`background_jobs.py:250`, `tasks.py:21`). And if a job is published, executed,
  failed for good and retried by hand before the dispatch run records the publication, the record puts the old task id on the
  row that was queued again (`background_jobs.py:138`).
* `BalanceMatchesRequests` and `RequestFollowsWorkflow` speak of leave cancelled between its approvals (`CancelledEarly`), which the
  code offers (`leave_management/services.py:2145`) although its message says otherwise (line 2153). The reservation stays for
  ever, and the units it returns are taken from the consumed ones of other leave, down to zero. `leave_early_cancellation` shows it.
* `MakerChecker` and `LockedReviewIsClean` hold until one of the `StaleWrites` happens. `_sync_review_snapshots` saves every field of
  a review loaded earlier (`payroll/services.py:4646`), which restores an earlier submitter, and the user who submitted last can
  approve, against the message of line 4819. A stale edit can unlock a run, a calculation with failed lines can supersede
  the calculation of a locked run (line 4165), and an exception can be inserted into a locked review (line 4755). `FourEyes` is what
  remains true. Two overlapping calculations leave two completed ones; a review names the one it is about.
* A run can be edited to `locked` without a review (`api_views.py:11768`); outputs still require a locked
  review (`FinalLocked`).
* `KeyKeptUntilConfirmed` and `NoDuplicateWrite` hold as long as no submission is made beside one that is not over (`OneAtATime`).
  The dialogs can be closed and opened again meanwhile; when the first submission ends, it clears the key of the scope, also if a newer
  one has stored another key there. `page_reopened` shows it.
* `NoDuplicateWrite` needs a session storage that works (`StorageAvailable`): otherwise each attempt has a fresh key,
  also after a lost answer. It says nothing about changing the form to another payload and back, which makes
  a third key.
* The manager's and the attendance dialog take any success status for a success, also without a body; only the leave form
  treats an answer without an id as unconfirmed.
* A 4xx answer is replayed for as long as its row lives, and after that the key is refused with 409; a form that is
  not changed cannot get past either.
* `LeaveUrlFollowsData` leaves out reads for back and forward that failed or were superseded: the URL is then ahead of the
  data, while the hook's comment (lines 41 to 43) says that failed reads retain the URL. The manager's and attendance's reads
  use the query of the render the click came from and mode `"none"`, so there the URL may name another query.
* A leave submission that goes on after its page was left still loads, and its `replaceState` writes the
  leave URL over the entry of the other page.
* A read answered 401 shows nothing on most workspaces: no error is set, and only three of 27 pass `onUnauthorized`.
* `EventuallyCompletes` excepts a run whose task was used up before it had started it (`unstarted`, `Stranded`): the run stays
  queued with `dispatched_at` set, which neither dispatch nor recovery selects. It speaks of the first completion: a recovered run is
  stale from its start and may be published again at every beat while it runs, and one that completed
  once is not recovered any more, so an execution of it that is killed leaves it `running` for ever.
* `OutcomeReachesPage` excepts a page on which a list read before the run was accepted arrived after the answer that
  showed it (`overtaken`): the run is gone from the page, and if no other run of that list is active the polling ends.
* Ordinary ledger movements are accepted again while a run is `failed` or was put back to `queued`
  (`year_end_services.py:177`), although the refusal says that they no longer are once the close has started. A movement
  between a failed and a repeated execution changes what is carried.
* The slower of two workers decides the status of a run: it can turn `succeeded` into `failed`, and the item of an employee
  who was rolled over into a failed one (hence the history variable `rolledOver`).
* A failed run cannot be repeated from the workbench: its key depends on the periods only, and the stored run is returned.

## 4. Proofs

All theorems are about every value of the constants, hence without the bounds of the runs, and none has a hypothesis beyond the
assumptions of the modules (`RoutesAssumption`, `LeaveAssumption`, `JobAssumption`, `RetryLimitsAgree`, `PayrollAssumption`,
`YearAssumption` and those of the page). What the code does not keep is part of the properties, as described above.

* **Workflow** (`WorkflowInstanceProofs`). `PendingChainShape` is not
  inductive alone: a resolution looks only for the lowest open step, so a resolved or absent instance with an
  open step left over could be moved on. The inductive invariant `ChainInv` joins the types, absent rows
  without steps, the shape of a pending chain around its pointer, or that of one that was never opened, and the steps of
  approved, rejected and
  cancelled instances. From it follow the chain shape, the outcome, `WorkflowStuckWithoutFirstStep`, finality (an action
  property), and `WorkflowRefinement`: `Create` maps to `Start`,
  an approval to `Grant`, a rejection or cancellation to `Refuse`, everything else to a stutter.
  `WorkflowLogAccounts` says that the audit trail reconstructs the instance. It rests on `ChainInv`: the
  decision that is appended is of the pointer's step, all steps before it are decided and in the log, and none after it is.
* **Leave** (`LeaveRequestProofs`). The engine's lemmas are used by instance, so a request's workflow is the real
  one. `LeaveFollowsWorkflow` needs that later workflows of a request do not exist yet (`WorkflowShape`) and the chain invariant
  of the engine; together they are `FollowInv`, on which the others rest.
  `LeaveNeverOverdrawn`: `BalanceInv` says that the balance row reserves at least the units of the
  waiting requests, that reserved and consumed together are at least the units of the waiting and the approved ones, and
  that they stay within what is granted (`AmountsCover`), whatever outdated amounts a page view stored before; the
  services recalculate before they test. `LeaveBalanceMatches` follows the six paths that move units, early cancellation
  included. `LeaveAutoAfterDeadline` is an action property and rests on `Consistent` alone.
  Units are added as the cardinality of the set of unit pairs of the requests (`UnitsOf`, `TotalUnits`):
  a sum defined by recursion or by a fold has properties that only an induction over data shows, while the cardinality of
  a union is in the library's theorems.
* **Jobs** (`PayrollBackgroundJobProofs`). `JobRetryBudget` says that Celery has a retry left whenever the row
  waits for one, under `RetryLimitsAgree` (`max_attempts <= max_retries + 1`, 3 and 2 in the code). Its
  inductive invariant `RetryInv` adds that a message that was retried n times belongs to a row with at least n
  attempts (`MessageBound`), that an execution's attempt is above the retries of its message and not above the row's count
  (`AttemptBound`), and that executions of a job are distinct attempts. It holds through lost and duplicated
  messages, crashes, overlapping scans and manual retry.
  `JobExclusive` and `JobSuccessIsFinal` are about the lease, which nothing in the code states as an invariant: while a job is
  neither overtaken nor has a task of it got two messages (`Steady`), a task has one
  message or one live execution (`OneHolder`), and a running execution finds its row running, fresh and under its own task
  id (`LeaseHolder`); `LeaseInv` joins them with the single commit. `JobNotStranded` adds `Carried`, for jobs without the mishaps
  that strand a row: also a row whose dispatch is published but not yet recorded has something that will move it on.
* **Payroll** (`PayrollRunProofs`). `PayrollFourEyes` holds for any number of handlers. Stale copies can put
  an old review back, so the current review is not enough: the inductive invariant `FourEyesInv` says of
  every review, stored or held as a copy by some handler, that its submitter really submitted it and that an approved
  status is backed by an approval of another user (`BackedReviews`, `BackedCopies`, `BackedOutputs`).
  `PayrollMakerChecker` and `PayrollLockedIsClean` rest on `ReviewInv`: without a stale write a review that is about to be
  created is an open one (`CreatesOpen`), an approved review names its last submitter and somebody else as approver
  (`CheckedReviews`), and a locked review has a locked run (`LockedWithRun`).
* **Idempotent mutations** (`IdempotencyRecordProofs`). `KeyCommitsOnce` and `AnswersTellTheTruth` hold for any calls,
  keys and payloads. `OncePerKey` is not inductive: a call may commit because its row says that nothing was. `RecordInv`
  adds that one call per key is running (`OneRunning`), that the key of a running call is not yet committed
  (`RunningIsNew`), that rows and commits account for each other (`RowOfApplied`, `AppliedOfRow`) and that every success
  answer is backed (`PromiseKept`).
* **Scoped resource** (`WorkspaceResourceProofs`). `LastRequestWins` needs, of a mounted page, that a page that waits, waits
  for the latest read (`WaitsForLatest`), that the latest read is the one asked for last (`LatestReadIsAsked`), and
  that history entries are the page's own (`OwnHistory`), so that back and forward ask for a query.
* **Workspace page** (`WorkspacePageProofs`). Every step of the composition is a step or a stutter of
  `IdempotencyRecord` and of `WorkspaceResource` (`PageImplementsRecord`, `PageImplementsResource`), so their theorems carry
  over (`PageKeyCommitsOnce`, `PageLastRequestWins`), with and without a session storage. So do
  `PageShowsWhatWasSaved`, whose invariant `ShownInv` says that a read begun after a reported mutation will show it
  and that an older one can no longer be applied, and `LeavePageUrl` (`UrlInv`). `PageWritesOnce` says that one intent is
  written once. The endpoint promises this per key only; the rest is the client's: while the submissions of a tab are made one after the
  other (`TurnsInv`) the last one is the one that is live and owns the stored key (`SerialInv`), the key of an unconfirmed one stays in the storage (`KeptUntilTold`) and the next one with the same
  meaning takes it up (`OneKeyPerIntent`). `PageKeepsKey` is the action property behind it.
* **Year close** (`LeaveYearCloseProofs`). `SuccessIsComplete` needs that an item is `succeeded` only for an employee who
  was rolled over (`ItemsRolledOver`) and that a worker without failures has rolled over everyone it has passed
  (`PassedRolledOver`), because the status comes from the worker that ends last and not from the items. `CapIsRespected`
  holds of the ledger through any number of executions.

Only model-checked: liveness (`EventuallySettled`, `EverythingSettles`, `EventuallyCompletes`,
`OutcomeReachesPage`), which is outside this prover's reach because it needs fairness and ENABLED. Every other property of a
passing run is stated by a theorem.

## 5. Not modelled, and the plan

`components` in `PROJECT.json` gives the reason for every part left out. Most lines of the repository are
TypeScript of the web client, and most of these are markup in page components, type declarations
(`lib/types.ts`), typed wrappers around one request each with their demonstration data (`lib/api.ts`) and route
handlers that forward a request. They keep no state of their own and have no steps to interleave; what of
the client does, the hook all workspaces share, the submit handlers and the polling, is modelled. The core logic of the
program is in the Python backend.

Order of further work:

1. Imports of leave balances (`hr-admin/leave-balances`), report completion, and the selection of an employee's detail: the
   remaining stateful parts of the web client.
2. Provider jobs, retries and callbacks, and signed access grants (`payroll/services.py` 5857–6045, 7858–8777).
3. Payroll adjustments and settlements (`payroll/services.py` 4172–4560).
4. Attendance regularisation and close; notification delivery; fiscal period transitions; the job key.
5. Proofs: that `LeaveRequest` makes only steps an `ApprovalChain` allows.
6. Several runs of the year close at once, with the selection of balances of each execution.

## 6. Running

    tlc -workers 2 -config JobAllActors.cfg MCPayrollBackgroundJob
    tlc -workers 2 -config WorkspacePage.cfg WorkspacePage
    tlapm WorkspacePageProofs.tla
