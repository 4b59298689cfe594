----------------------------- MODULE PayrollRun -----------------------------
(***************************************************************************)
(* One payroll run from its inputs to its published outputs: locking the   *)
(* inputs, draft calculations, the review of a calculation with its        *)
(* exceptions, submission, approval by another user, the final lock, and   *)
(* the generation and publication of the outputs                           *)
(* (apps/payroll/services.py and models.py, and the views of               *)
(* apps/common/api_views.py that call them).                               *)
(*                                                                         *)
(* A request is served by a handler.  Submit, approve, reject, final lock, *)
(* generate and publish lock the review, its calculation and the run from  *)
(* their first statement to their commit, so each of them is one step.     *)
(* The other requests load a row without a lock, let the model's clean()   *)
(* look at the stored row, and save the whole record they loaded: they are *)
(* cut at these points, and the handler keeps the copy.                    *)
(***************************************************************************)
EXTENDS Integers, FiniteSets, FiniteSetsExt

CONSTANTS
  Handlers,        \* threads that serve requests or run background jobs
  Users,           \* users who submit, approve, reject and lock
  NoUser,
  Exceptions,      \* blocker exceptions that may be raised
  EditStatuses,    \* statuses an edit of the run may name
  MaxCalculations, \* bound: calculation attempts of the run
  MaxLoad          \* bound: calculation attempts and requests in progress, together

ASSUME PayrollAssumption ==
  /\ NoUser \notin Users
  /\ MaxCalculations \in Nat /\ MaxLoad \in Nat

VARIABLES
  run,            \* PayrollRun.status
  inputsLocked,   \* whether every input snapshot of the run is locked
  calculation,    \* status of each calculation attempt
  review,         \* the review of each attempt
  exception,      \* blocker exceptions of the reviews
  approvals,      \* users with an APPROVED approval row, by attempt
  batch,          \* output batch of each review
  handler,        \* what each handler is doing
  lastSubmitter,  \* history: who last submitted the review of each attempt
  submitters,     \* history: everyone who ever submitted it
  staleWrites     \* history: which of StaleWrites have happened

reviewVars == <<review, exception, approvals, lastSubmitter, submitters>>
vars == <<run, inputsLocked, calculation, reviewVars, batch, handler, staleWrites>>

\* What a request may do because it does not lock what it has read:
\* "run": save a run that has been locked since it was loaded;
\* "calculation": supersede calculations of a run that has been locked;
\* "exception": insert an exception into a review that has been locked;
\* "review": save a review that has changed since it was loaded.
StaleWrites == {"run", "calculation", "exception", "review"}

RunStatuses == {"draft", "collecting_inputs", "inputs_locked", "calculated",
                "review", "approved", "locked", "cancelled"}
Attempts == 1..MaxCalculations

NewReview == [status |-> "none", submittedBy |-> NoUser, approvedBy |-> NoUser]
NewException == [attempt |-> 0, status |-> "none"]
Idle == [step |-> "idle", attempt |-> 0, run |-> "draft", calculation |-> "none",
         review |-> NewReview, exception |-> "none", targets |-> {}]

Init ==
  /\ run = "draft" /\ inputsLocked = FALSE
  /\ calculation = [c \in Attempts |-> "none"]
  /\ review = [c \in Attempts |-> NewReview]
  /\ exception = [e \in Exceptions |-> NewException]
  /\ approvals = [c \in Attempts |-> {}]
  /\ batch = [c \in Attempts |-> "none"]
  /\ handler = [h \in Handlers |-> Idle]
  /\ lastSubmitter = [c \in Attempts |-> NoUser]
  /\ submitters = [c \in Attempts |-> {}]
  /\ staleWrites = {}

NoteIf(kind, stale) == staleWrites' = staleWrites \cup (IF stale THEN {kind} ELSE {})

Free(h) == handler[h] = Idle
At(h, step) == handler[h].step = step
Serve(h, request) == handler' = [handler EXCEPT ![h] = request]
Finish(h) == handler' = [handler EXCEPT ![h] = Idle]

Calculated == {c \in Attempts : calculation[c] # "none"}
Completed == {c \in Attempts : calculation[c] = "completed"}

Begin(h, request) ==
  /\ Free(h)
  /\ Cardinality(Calculated) + Cardinality({g \in Handlers : ~Free(g)}) < MaxLoad
  /\ Serve(h, request)

-----------------------------------------------------------------------------
(* PayrollRun.save: clean() reads the stored status, which must not be     *)
(* LOCKED, and then the loaded record is written.                          *)

\* save_hr_admin_payroll_run; an edit that names no status writes the loaded one.
BeginEdit(h, status) ==
  /\ run # "locked"
  /\ status \in EditStatuses \cup {run}
  /\ Begin(h, [Idle EXCEPT !.step = "write run", !.run = status])
  /\ UNCHANGED <<run, inputsLocked, calculation, reviewVars, batch, staleWrites>>

\* HrAdminPayrollRunLockInputsView looks at the snapshots, not at the run.
BeginLockInputs(h) ==
  /\ run # "locked"
  /\ Begin(h, [Idle EXCEPT !.step = "write run and inputs", !.run = "inputs_locked"])
  /\ UNCHANGED <<run, inputsLocked, calculation, reviewVars, batch, staleWrites>>

WriteRun(h) ==
  /\ At(h, "write run") \/ At(h, "write run and inputs")
  /\ run' = handler[h].run
  /\ inputsLocked' = (inputsLocked \/ At(h, "write run and inputs"))
  /\ NoteIf("run", run = "locked")
  /\ Finish(h)
  /\ UNCHANGED <<calculation, reviewVars, batch>>

-----------------------------------------------------------------------------
(* calculate_draft_payroll_run.                                            *)

BeginCalculate(h) ==
  /\ run \in {"inputs_locked", "calculated"} /\ inputsLocked
  /\ Begin(h, [Idle EXCEPT !.step = "calculate"])
  /\ UNCHANGED <<run, inputsLocked, calculation, reviewVars, batch, staleWrites>>

\* The UPDATE that supersedes earlier attempts acts on the rows committed when
\* it starts.
Supersede(h) ==
  /\ At(h, "calculate")
  /\ Serve(h, [Idle EXCEPT !.step = "insert calculation", !.targets = Completed])
  /\ UNCHANGED <<run, inputsLocked, calculation, reviewVars, batch, staleWrites>>

\* The attempt gets the next number and the transaction commits.  One with
\* failed lines leaves the run alone; otherwise the run is saved, which undoes
\* the whole transaction if the run has been locked.
CommitCalculation(h, outcome) ==
  LET next == Cardinality(Calculated) + 1 IN
  /\ At(h, "insert calculation")
  /\ next \in Attempts
  /\ outcome = "failed" \/ run # "locked"
  /\ calculation' = [c \in Attempts |->
       IF c = next THEN outcome
       ELSE IF c \in handler[h].targets THEN "superseded" ELSE calculation[c]]
  /\ run' = IF outcome = "completed" THEN "calculated" ELSE run
  /\ NoteIf("calculation", run = "locked")
  /\ Finish(h)
  /\ UNCHANGED <<inputsLocked, reviewVars, batch>>

\* Undone: the run is locked, another attempt took the number, or a failure.
RollBackCalculation(h) ==
  /\ At(h, "calculate") \/ At(h, "insert calculation")
  /\ Finish(h)
  /\ UNCHANGED <<run, inputsLocked, calculation, reviewVars, batch, staleWrites>>

-----------------------------------------------------------------------------
(* The review.                                                             *)

\* PayrollRunReview.clean: the calculation is completed, and the stored review
\* is not locked unless the copy is.
ReviewClean(c, copy, calculated) ==
  /\ calculated = "completed"
  /\ review[c].status = "locked" => copy.status = "locked"

Creating(c) ==
  \E g \in Handlers : At(g, "write run and review") /\ handler[g].attempt = c /\ review[c] = NewReview

\* open_payroll_run_review creates the review or loads the existing one, and
\* the run's clean() passes; a second creation waits for the first.
BeginOpen(h, c) ==
  /\ calculation[c] = "completed" /\ run # "locked"
  /\ ~Creating(c)
  /\ LET copy == IF review[c] = NewReview THEN [NewReview EXCEPT !.status = "open"] ELSE review[c]
     IN Begin(h, [Idle EXCEPT !.step = "write run and review", !.attempt = c, !.review = copy])
  /\ UNCHANGED <<run, inputsLocked, calculation, reviewVars, batch, staleWrites>>

\* It saves the run and then the copy of the review.
CommitOpen(h) ==
  LET c == handler[h].attempt
      changed == review[c] # NewReview /\ review[c] # handler[h].review
  IN
  /\ At(h, "write run and review")
  /\ review[c] = NewReview \/ ReviewClean(c, handler[h].review, calculation[c])
  /\ run' = "review"
  /\ review' = [review EXCEPT ![c] = handler[h].review]
  /\ staleWrites' = staleWrites \cup (IF run = "locked" THEN {"run"} ELSE {})
                                \cup (IF changed THEN {"review"} ELSE {})
  /\ Finish(h)
  /\ UNCHANGED <<inputsLocked, calculation, exception, approvals, lastSubmitter, submitters, batch>>

RollBackOpen(h) ==
  LET c == handler[h].attempt IN
  /\ At(h, "write run and review")
  /\ review[c] # NewReview /\ ~ReviewClean(c, handler[h].review, calculation[c])
  /\ Finish(h)
  /\ UNCHANGED <<run, inputsLocked, calculation, reviewVars, batch, staleWrites>>

-----------------------------------------------------------------------------
(* Exceptions of a review.  They are handled without a transaction.        *)

\* create_payroll_run_exception has loaded the review and its calculation.
BeginException(h, c, e) ==
  /\ review[c].status \notin {"none", "locked"}
  /\ exception[e].status = "none"
  /\ \A g \in Handlers : At(g, "raise") => handler[g].exception # e
  /\ Begin(h, [Idle EXCEPT !.step = "raise", !.attempt = c, !.exception = e,
               !.review = review[c], !.calculation = calculation[c]])
  /\ UNCHANGED <<run, inputsLocked, calculation, reviewVars, batch, staleWrites>>

\* decide_payroll_run_exception has loaded the exception and its review.
BeginDecision(h, e) ==
  LET c == exception[e].attempt IN
  /\ exception[e].status # "none"
  /\ review[c].status # "locked"
  /\ Begin(h, [Idle EXCEPT !.step = "decide", !.attempt = c, !.exception = e, !.review = review[c]])
  /\ UNCHANGED <<run, inputsLocked, calculation, reviewVars, batch, staleWrites>>

\* The exception is inserted, or its decision saved ...
SaveException(h) ==
  LET e == handler[h].exception
      status == IF At(h, "raise") THEN "open" ELSE "decided"
  IN
  /\ At(h, "raise") \/ At(h, "decide")
  /\ exception' = [exception EXCEPT ![e] = [attempt |-> handler[h].attempt, status |-> status]]
  /\ handler' = [handler EXCEPT ![h].step = IF At(h, "raise") THEN "sync raised" ELSE "sync decided"]
  /\ NoteIf("exception", At(h, "raise") /\ review[handler[h].attempt].status = "locked")
  /\ UNCHANGED <<run, inputsLocked, calculation, review, approvals, lastSubmitter, submitters, batch>>

\* ... then _sync_review_snapshots saves the loaded review: it is cleaned ...
CleanCopy(h) ==
  LET c == handler[h].attempt
      calculated == IF At(h, "sync raised") THEN handler[h].calculation ELSE calculation[c]
  IN
  /\ At(h, "sync raised") \/ At(h, "sync decided")
  /\ IF ReviewClean(c, handler[h].review, calculated)
     THEN handler' = [handler EXCEPT ![h].step = "write review"]
     ELSE Finish(h)
  /\ UNCHANGED <<run, inputsLocked, calculation, reviewVars, batch, staleWrites>>

\* ... and written over the stored one.
WriteReview(h) ==
  /\ At(h, "write review")
  /\ review' = [review EXCEPT ![handler[h].attempt] = handler[h].review]
  /\ NoteIf("review", review[handler[h].attempt] # handler[h].review)
  /\ Finish(h)
  /\ UNCHANGED <<run, inputsLocked, calculation, exception, approvals, lastSubmitter, submitters, batch>>

-----------------------------------------------------------------------------
(* Decisions on the review, under row locks.                               *)

OpenBlockers(c) == {e \in Exceptions : exception[e] = [attempt |-> c, status |-> "open"]}

\* The saves of the locked run and review pass their clean().
Savable(c) == run # "locked" /\ calculation[c] = "completed"

\* A transaction that supersedes the calculation keeps it locked to its end.
Superseding(c) == \E g \in Handlers : At(g, "insert calculation") /\ c \in handler[g].targets

Decision(h, c, from) ==
  /\ Free(h)
  /\ ~Superseding(c)
  /\ review[c].status \in from
  /\ Savable(c)
  /\ UNCHANGED <<inputsLocked, calculation, exception, batch, handler, staleWrites>>

\* submit_payroll_run_review
Submit(h, c, u) ==
  /\ Decision(h, c, {"open", "rejected"})
  /\ OpenBlockers(c) = {}
  /\ review' = [review EXCEPT ![c] = [@ EXCEPT !.status = "ready_for_approval", !.submittedBy = u]]
  /\ run' = "review"
  /\ lastSubmitter' = [lastSubmitter EXCEPT ![c] = u]
  /\ submitters' = [submitters EXCEPT ![c] = @ \cup {u}]
  /\ UNCHANGED approvals

\* Faulty variant: the submitter may approve.
ApproveOwn(h, c, u) ==
  /\ Decision(h, c, {"ready_for_approval"})
  /\ OpenBlockers(c) = {}
  /\ review' = [review EXCEPT ![c] = [@ EXCEPT !.status = "approved", !.approvedBy = u]]
  /\ approvals' = [approvals EXCEPT ![c] = @ \cup {u}]
  /\ run' = "approved"
  /\ UNCHANGED <<lastSubmitter, submitters>>

\* approve_payroll_run_review
Approve(h, c, u) ==
  /\ Decision(h, c, {"ready_for_approval"})
  /\ review[c].submittedBy # u
  /\ OpenBlockers(c) = {}
  /\ review' = [review EXCEPT ![c] = [@ EXCEPT !.status = "approved", !.approvedBy = u]]
  /\ approvals' = [approvals EXCEPT ![c] = @ \cup {u}]
  /\ run' = "approved"
  /\ UNCHANGED <<lastSubmitter, submitters>>

\* Faulty variant: the action is stored instead of the status.
RejectStoresAction(h, c, u) ==
  /\ Decision(h, c, {"ready_for_approval"})
  /\ review[c].submittedBy # u
  /\ review' = [review EXCEPT ![c].status = "reject"]
  /\ run' = "review"
  /\ UNCHANGED <<approvals, lastSubmitter, submitters>>

\* reject_payroll_run_review
Reject(h, c, u) ==
  /\ Decision(h, c, {"ready_for_approval"})
  /\ review[c].submittedBy # u
  /\ review' = [review EXCEPT ![c].status = "rejected"]
  /\ run' = "review"
  /\ UNCHANGED <<approvals, lastSubmitter, submitters>>

\* Faulty variant: exceptions raised after the approval are not looked at.
LockWithBlockers(h, c) ==
  /\ Decision(h, c, {"approved"})
  /\ review' = [review EXCEPT ![c].status = "locked"]
  /\ run' = "locked"
  /\ UNCHANGED <<approvals, lastSubmitter, submitters>>

\* lock_approved_payroll_run_review
Lock(h, c) ==
  /\ Decision(h, c, {"approved"})
  /\ OpenBlockers(c) = {}
  /\ review' = [review EXCEPT ![c].status = "locked"]
  /\ run' = "locked"
  /\ UNCHANGED <<approvals, lastSubmitter, submitters>>

-----------------------------------------------------------------------------
(* Outputs, under row locks.                                               *)

FinalLocked(c) == review[c].status = "locked" /\ run = "locked"

\* generate_payroll_outputs; an existing batch is returned.
Generate(h, c) ==
  /\ Free(h)
  /\ ~Superseding(c)
  /\ FinalLocked(c) /\ batch[c] = "none"
  /\ batch' = [batch EXCEPT ![c] = "generated"]
  /\ UNCHANGED <<run, inputsLocked, calculation, reviewVars, handler, staleWrites>>

\* publish_payroll_output_batch
Publish(h, c) ==
  /\ Free(h)
  /\ ~Superseding(c)
  /\ FinalLocked(c) /\ batch[c] = "generated"
  /\ batch' = [batch EXCEPT ![c] = "published"]
  /\ UNCHANGED <<run, inputsLocked, calculation, reviewVars, handler, staleWrites>>

-----------------------------------------------------------------------------
Prepare(h) ==
  \/ \E status \in RunStatuses : BeginEdit(h, status)
  \/ BeginLockInputs(h)
  \/ WriteRun(h)
  \/ BeginCalculate(h)
  \/ Supersede(h)
  \/ \E outcome \in {"completed", "failed"} : CommitCalculation(h, outcome)
  \/ RollBackCalculation(h)

Examine(h) ==
  \/ \E c \in Attempts : BeginOpen(h, c) \/ \E e \in Exceptions : BeginException(h, c, e)
  \/ CommitOpen(h)
  \/ RollBackOpen(h)
  \/ \E e \in Exceptions : BeginDecision(h, e)
  \/ SaveException(h)
  \/ CleanCopy(h)
  \/ WriteReview(h)

Settle(h, c) ==
  \/ \E u \in Users : Submit(h, c, u) \/ Approve(h, c, u) \/ Reject(h, c, u)
  \/ Lock(h, c)
  \/ Generate(h, c)
  \/ Publish(h, c)

Next == \E h \in Handlers : Prepare(h) \/ Examine(h) \/ \E c \in Attempts : Settle(h, c)

Spec == Init /\ [][Next]_vars
-----------------------------------------------------------------------------
ReviewStatuses == {"none", "open", "ready_for_approval", "rejected", "approved", "locked"}
ReviewRecord == [status : ReviewStatuses, submittedBy : Users \cup {NoUser}, approvedBy : Users \cup {NoUser}]
CalculationStatuses == {"none", "completed", "failed", "superseded"}

Steps == {"idle", "write run", "write run and inputs", "calculate", "insert calculation",
          "write run and review", "raise", "decide", "sync raised", "sync decided", "write review"}
Request == [step : Steps, attempt : 0..MaxCalculations, run : RunStatuses,
            calculation : CalculationStatuses, review : ReviewRecord,
            exception : Exceptions \cup {"none"}, targets : SUBSET Attempts]

\* The declared values of the rows and of the handlers' copies.
TypeOK ==
  /\ run \in RunStatuses /\ inputsLocked \in BOOLEAN
  /\ calculation \in [Attempts -> CalculationStatuses]
  /\ review \in [Attempts -> ReviewRecord]
  /\ exception \in [Exceptions -> [attempt : Attempts, status : {"open", "decided"}] \cup {NewException}]
  /\ approvals \in [Attempts -> SUBSET Users]
  /\ batch \in [Attempts -> {"none", "generated", "published"}]
  /\ lastSubmitter \in [Attempts -> Users \cup {NoUser}]
  /\ submitters \in [Attempts -> SUBSET Users]
  /\ handler \in [Handlers -> Request]
  /\ \A h \in Handlers : handler[h].step \in {"raise", "decide"} => handler[h].attempt \in Attempts
  /\ staleWrites \subseteq StaleWrites

\* Nobody approves the review they submitted themselves, however the requests
\* are interleaved, unless one of them has saved an outdated copy of a review.
MakerChecker ==
  "review" \notin staleWrites =>
    \A c \in Attempts :
      review[c].status \in {"approved", "locked"} => review[c].approvedBy # lastSubmitter[c]

\* A locked review is the last word on its run: its calculation has not been
\* superseded, none of its blockers is open, and no other review is locked.
\* What breaks that is a request that writes what it read before the lock, or
\* saves an outdated copy of the review.
LockedReviewIsClean ==
  staleWrites = {} =>
    \A c \in Attempts : review[c].status = "locked" =>
      /\ calculation[c] = "completed" /\ OpenBlockers(c) = {}
      /\ \A d \in Attempts \ {c} : review[d].status # "locked"

\* Two users stand behind every locked review and every output: one who
\* submitted it and another who approved it, however the requests were
\* interleaved and whichever stale copies of the review were written back.
FourEyes ==
  \A c \in Attempts : review[c].status = "locked" \/ batch[c] # "none" =>
    \E u \in submitters[c], v \in approvals[c] : u # v
=============================================================================
