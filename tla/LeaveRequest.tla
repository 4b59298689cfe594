--------------------------- MODULE LeaveRequest ---------------------------
(***************************************************************************)
(* The leave requests of one employee and one leave policy: submission,    *)
(* decisions by managers, HR and the auto-approval timer, withdrawal and   *)
(* cancellation, on top of the workflow engine and of the leave balance    *)
(* (apps/leave_management/services.py and auto_approval.py, and the views  *)
(* of apps/common/api_views.py that call them).                            *)
(*                                                                         *)
(* Every service call is one transaction that locks the request row, so it *)
(* is one action.  What its caller read before that is kept in the         *)
(* caller's record: the dates a submission was checked against, the step   *)
(* an approver's authority was checked for, a timer's candidate, and the   *)
(* balance a page view is about to write back.                             *)
(*                                                                         *)
(* Modelled here are the balances that belong to no policy period; one     *)
(* unit stands for the policy's unit of leave.                             *)
(***************************************************************************)
EXTENDS Integers, Sequences, FiniteSets

CONSTANTS
  Requests,      \* LeaveRequest rows that may be created
  NoRequest,     \* marks an idle caller
  Dates,         \* the dates of each request
  Units,         \* requested_units of each request
  Entitlement,   \* what the policy has granted by the start date of each request
  Approvers,     \* employees that steps are assigned to
  HrAdmins,      \* actors of the HR decision views, which check no assignment
  System,        \* actor of automatic decisions
  Employee,      \* the employee whose leave it is
  LeaveRoutes,   \* approval routes of leave requests
  CancelRoutes,  \* approval routes of cancellation requests
  CancelModes,   \* what the policy allows after approval: {}, "direct", "reapproval"
  TimedRequests, \* requests submitted under a policy with auto approval
  Submitters, Sessions, Timers, Viewers,  \* concurrent callers of each kind
  MaxWorkflows   \* bound: workflows of one request

ASSUME LeaveAssumption ==
  /\ IsFiniteSet(Requests) /\ NoRequest \notin Requests
  /\ Units \in [Requests -> Nat \ {0}]
  /\ Entitlement \in [Requests -> Nat] /\ MaxWorkflows \in Nat \ {0}
  /\ System \notin Approvers \cup HrAdmins \cup {Employee}
  /\ \A path \in LeaveRoutes \cup CancelRoutes :
       DOMAIN path \subseteq Nat \ {0} /\ path \in [DOMAIN path -> SUBSET Approvers]

VARIABLES
  request,     \* LeaveRequest rows
  reserved,    \* LeaveBalance.reserved_amount
  consumed,    \* LeaveBalance.consumed_amount
  closing,     \* LeaveBalance.closing_balance
  wfStatus, wfOrder, wfRoute, wfSteps, wfLog,  \* the workflow engine's tables
  overdue,     \* workflows whose open step is past its due_at
  submitter,   \* the request each submission has validated
  session,     \* the decision each approver is about to make
  timer,       \* the request each auto-approval scan is about to decide
  viewer,      \* the closing balance each page view is about to store
  stale        \* history: workflows that got a decision meant for another step

balanceVars == <<reserved, consumed, closing>>
workflowVars == <<wfStatus, wfOrder, wfRoute, wfSteps, wfLog>>
callerVars == <<submitter, session, timer, viewer>>
leaveVars == <<request, balanceVars, workflowVars, overdue, callerVars, stale>>

Workflows == Requests \X (1..MaxWorkflows)

wf == INSTANCE WorkflowInstance WITH
  Instances <- Workflows, Actors <- Approvers \cup HrAdmins \cup {System, Employee},
  Routes <- LeaveRoutes \cup CancelRoutes,
  status <- wfStatus, currentStepOrder <- wfOrder, route <- wfRoute,
  stepStatus <- wfSteps, actionLog <- wfLog

\* direct: metadata has a "cancellation", which only a direct one writes.
NewRequest == [status |-> "none", action |-> "leave_request", workflow |-> 0, direct |-> FALSE]
NoDecision == [actor |-> System, request |-> NoRequest, approve |-> FALSE, seen |-> 0, step |-> 0]
NoBalance == -1

Init ==
  /\ request = [r \in Requests |-> NewRequest]
  /\ reserved = 0 /\ consumed = 0 /\ closing = 0
  /\ wf!Init
  /\ overdue = {}
  /\ submitter = [s \in Submitters |-> NoRequest]
  /\ session = [s \in Sessions |-> NoDecision]
  /\ timer = [t \in Timers |-> NoRequest]
  /\ viewer = [v \in Viewers |-> NoBalance]
  /\ stale = {}

-----------------------------------------------------------------------------
(* The leave balance.                                                      *)

AtLeastZero(n) == IF n > 0 THEN n ELSE 0

\* _get_or_create_leave_balance recomputes the accrued amount as of the start
\* date of the request at hand, then _recalculate_closing_balance subtracts.
Available(r) == Entitlement[r] - consumed - reserved

SetBalance(r, res, con) ==
  /\ reserved' = res /\ consumed' = con
  /\ closing' = Entitlement[r] - con - res

\* _reserve_leave_balance
ReserveUnits(r) == SetBalance(r, reserved + Units[r], consumed)

\* _release_reserved_leave_balance
ReleaseUnits(r) == SetBalance(r, AtLeastZero(reserved - Units[r]), consumed)

\* _release_reserved_leave_balance, then _consume_leave_balance.
ConsumeUnits(r) == SetBalance(r, AtLeastZero(reserved - Units[r]), consumed + Units[r])

\* Faulty variant: a cancelled leave stays consumed.
ReturnNothing(r) == SetBalance(r, reserved, consumed)

\* _release_consumed_leave_balance
ReturnUnits(r) == SetBalance(r, reserved, AtLeastZero(consumed - Units[r]))

\* A page view calls _get_or_create_leave_balance without a lock and as of the
\* day it is made, which may be that of any request: it reads ...
ViewBalance(v, r) ==
  /\ viewer[v] = NoBalance
  /\ viewer' = [viewer EXCEPT ![v] = Available(r)]
  /\ UNCHANGED <<request, balanceVars, workflowVars, overdue, submitter, session, timer, stale>>

\* ... and saves the closing balance it computed.
StoreView(v) ==
  /\ viewer[v] # NoBalance
  /\ closing' = viewer[v]
  /\ viewer' = [viewer EXCEPT ![v] = NoBalance]
  /\ UNCHANGED <<request, reserved, consumed, workflowVars, overdue, submitter, session, timer, stale>>

-----------------------------------------------------------------------------
(* Submission.                                                             *)

Waiting == {"pending", "partially_approved"}
Active == Waiting \cup {"approved"}

Overlapping(r, q) == r # q /\ Dates[r] \cap Dates[q] # {}

\* _validate_leave_request: no active request overlaps, the balance suffices.
Validate(s, r) ==
  /\ submitter[s] = NoRequest
  /\ request[r].status = "none" /\ \A t \in Submitters : submitter[t] # r
  /\ \A q \in Requests : Overlapping(r, q) => request[q].status \notin Active
  /\ Units[r] <= Available(r)
  /\ submitter' = [submitter EXCEPT ![s] = r]
  /\ UNCHANGED <<request, balanceVars, workflowVars, overdue, session, timer, viewer, stale>>

\* Faulty variant: the stored closing balance is trusted.
SubmitTrustsClosing(s, path) ==
  LET r == submitter[s] IN
  /\ r # NoRequest
  /\ Units[r] <= closing
  /\ request' = [request EXCEPT ![r] = [@ EXCEPT !.status = "pending", !.workflow = 1]]
  /\ ReserveUnits(r)
  /\ wf!Create(<<r, 1>>, path, Employee)
  /\ submitter' = [submitter EXCEPT ![s] = NoRequest]
  /\ UNCHANGED <<overdue, session, timer, viewer, stale>>

\* The balance row is locked, recalculated and checked again; the request, its
\* reservation and its workflow are created together.
Submit(s, path) ==
  LET r == submitter[s] IN
  /\ r # NoRequest
  /\ Units[r] <= Available(r)
  /\ request' = [request EXCEPT ![r] = [@ EXCEPT !.status = "pending", !.workflow = 1]]
  /\ ReserveUnits(r)
  /\ wf!Create(<<r, 1>>, path, Employee)
  /\ submitter' = [submitter EXCEPT ![s] = NoRequest]
  /\ UNCHANGED <<overdue, session, timer, viewer, stale>>

\* The second check fails and the transaction is rolled back.
SubmitFails(s) ==
  /\ submitter[s] # NoRequest
  /\ Units[submitter[s]] > Available(submitter[s])
  /\ submitter' = [submitter EXCEPT ![s] = NoRequest]
  /\ UNCHANGED <<request, balanceVars, workflowVars, overdue, session, timer, viewer, stale>>

-----------------------------------------------------------------------------
(* Decisions.                                                              *)

WorkflowOf(r) == <<r, request[r].workflow>>

\* Faulty variant: the status of the locked request is not looked at.
DecidableAnyStatus(r) == request[r].workflow # 0

\* resolve_leave_request returns or raises unless the request can be decided.
Decidable(r) ==
  /\ request[r].workflow # 0
  /\ request[r].action = "cancellation_request" \/ request[r].status \in Waiting

\* An intermediate approval: the request waits for the next step.
Advance(r) ==
  /\ wfStatus'[WorkflowOf(r)] = "pending"
  /\ request' = [request EXCEPT ![r].status = "partially_approved"]
  /\ UNCHANGED balanceVars

\* Faulty variant: every approval is taken for the final one.
ApproveLeaveEarly(r) ==
  /\ request[r].action = "leave_request"
  /\ request' = [request EXCEPT ![r].status = "approved"]
  /\ ConsumeUnits(r)

ApproveLeave(r) ==
  /\ request[r].action = "leave_request"
  /\ wfStatus'[WorkflowOf(r)] = "approved"
  /\ request' = [request EXCEPT ![r].status = "approved"]
  /\ ConsumeUnits(r)

\* Faulty variant: the action's name is stored as the status.
RejectLeaveStoresAction(r) ==
  /\ request[r].action = "leave_request"
  /\ request' = [request EXCEPT ![r].status = "reject"]
  /\ ReleaseUnits(r)

RejectLeave(r) ==
  /\ request[r].action = "leave_request"
  /\ request' = [request EXCEPT ![r].status = "rejected"]
  /\ ReleaseUnits(r)

\* Faulty variant: the first approval of a cancellation is taken for the final one.
ApproveCancellationEarly(r) ==
  /\ request[r].action = "cancellation_request"
  /\ request' = [request EXCEPT ![r] = [@ EXCEPT !.status = "cancelled", !.action = "leave_request"]]
  /\ ReturnUnits(r)

ApproveCancellation(r) ==
  /\ request[r].action = "cancellation_request"
  /\ wfStatus'[WorkflowOf(r)] = "approved"
  /\ request' = [request EXCEPT ![r] = [@ EXCEPT !.status = "cancelled", !.action = "leave_request"]]
  /\ ReturnUnits(r)

\* previous_status was stored as APPROVED when the cancellation was requested.
RejectCancellation(r) ==
  /\ request[r].action = "cancellation_request"
  /\ request' = [request EXCEPT ![r] = [@ EXCEPT !.status = "approved", !.action = "leave_request"]]
  /\ UNCHANGED balanceVars

\* resolve_leave_request; the next step starts with a deadline of its own.
Decide(r, actor, approve) ==
  /\ Decidable(r)
  /\ wf!Resolve(WorkflowOf(r), actor, IF approve THEN "approve" ELSE "reject")
  /\ IF approve THEN Advance(r) \/ ApproveLeave(r) \/ ApproveCancellation(r)
                ELSE RejectLeave(r) \/ RejectCancellation(r)
  /\ overdue' = overdue \ {WorkflowOf(r)}

OpenStep(i) == {k \in DOMAIN wfSteps[i] : wfSteps[i][k] = "pending"}

\* _is_current_workflow_approver
IsApprover(a, r) == \E k \in OpenStep(WorkflowOf(r)) : a \in wfRoute[WorkflowOf(r)][k]

\* The view checks the actor's authority before the request row is locked.
OpenSession(s, a, r, approve) ==
  /\ session[s].request = NoRequest
  /\ request[r].workflow # 0
  /\ \/ a \in Approvers /\ IsApprover(a, r)
     \/ a \in HrAdmins /\ request[r].status \in Waiting
  /\ session' = [session EXCEPT ![s] = [actor |-> a, request |-> r, approve |-> approve,
                   seen |-> request[r].workflow, step |-> wfOrder[WorkflowOf(r)]]]
  /\ UNCHANGED <<request, balanceVars, workflowVars, overdue, submitter, timer, viewer, stale>>

\* The service decides whatever step is open by then.
CloseSession(s) ==
  LET d == session[s] IN
  /\ d.request # NoRequest
  /\ Decide(d.request, d.actor, d.approve)
  /\ stale' = IF <<d.seen, d.step>> = <<request[d.request].workflow, wfOrder[WorkflowOf(d.request)]>>
              THEN stale ELSE stale \cup {WorkflowOf(d.request)}
  /\ session' = [session EXCEPT ![s] = NoDecision]
  /\ UNCHANGED <<submitter, timer, viewer>>

\* The request is terminal: the call returns it unchanged or is refused.
SessionRefused(s) ==
  /\ session[s].request # NoRequest
  /\ ~Decidable(session[s].request)
  /\ session' = [session EXCEPT ![s] = NoDecision]
  /\ UNCHANGED <<request, balanceVars, workflowVars, overdue, submitter, timer, viewer, stale>>

-----------------------------------------------------------------------------
(* Auto approval.                                                          *)

\* arm_leave_auto_approval gave the open step a deadline, and it passes.
DeadlinePasses(r) ==
  /\ r \in TimedRequests
  /\ wfStatus[<<r, 1>>] = "pending" /\ <<r, 1>> \notin overdue
  /\ overdue' = overdue \cup {<<r, 1>>}
  /\ UNCHANGED <<request, balanceVars, workflowVars, callerVars, stale>>

\* due_leave_auto_approval_context
Due(r) ==
  /\ request[r].action = "leave_request" /\ request[r].status \in Waiting
  /\ wfStatus[WorkflowOf(r)] = "pending" /\ WorkflowOf(r) \in overdue

HasAssignee(r) == \A k \in OpenStep(WorkflowOf(r)) : wfRoute[WorkflowOf(r)][k] # {}

\* process_due_leave_auto_approvals collects its candidates ...
SelectCandidate(t, r) ==
  /\ timer[t] = NoRequest
  /\ Due(r)
  /\ timer' = [timer EXCEPT ![t] = r]
  /\ UNCHANGED <<request, balanceVars, workflowVars, overdue, submitter, session, viewer, stale>>

\* Faulty variant: a candidate is decided without looking at it again.
AutoApproveCandidate(t) ==
  /\ timer[t] # NoRequest
  /\ HasAssignee(timer[t])
  /\ Decide(timer[t], System, TRUE)
  /\ timer' = [timer EXCEPT ![t] = NoRequest]
  /\ UNCHANGED <<submitter, session, viewer, stale>>

\* ... and decides each of them only if it is still due under the row locks.
AutoApprove(t) ==
  /\ timer[t] # NoRequest
  /\ Due(timer[t]) /\ HasAssignee(timer[t])
  /\ Decide(timer[t], System, TRUE)
  /\ timer' = [timer EXCEPT ![t] = NoRequest]
  /\ UNCHANGED <<submitter, session, viewer, stale>>

\* The candidate is locked by someone else, not due any more, or blocked.
SkipCandidate(t) ==
  /\ timer[t] # NoRequest
  /\ timer' = [timer EXCEPT ![t] = NoRequest]
  /\ UNCHANGED <<request, balanceVars, workflowVars, overdue, submitter, session, viewer, stale>>

-----------------------------------------------------------------------------
(* Withdrawal and cancellation by the employee.                            *)

\* withdraw_leave_request; the workflow is left as it is.
Withdraw(r) ==
  /\ request[r].status = "pending" /\ request[r].action = "leave_request"
  /\ request' = [request EXCEPT ![r].status = "withdrawn"]
  /\ ReleaseUnits(r)
  /\ UNCHANGED <<workflowVars, overdue, callerVars, stale>>

\* _get_leave_request_lifecycle_runtime: can_cancel
CanCancel(r) ==
  /\ request[r].status \in {"approved", "partially_approved"}
  /\ request[r].action = "leave_request"

\* cancel_leave_request without reapproval.
CancelDirectly(r) ==
  /\ "direct" \in CancelModes
  /\ CanCancel(r)
  /\ request' = [request EXCEPT ![r] = [@ EXCEPT !.status = "cancelled", !.direct = TRUE]]
  /\ ReturnUnits(r)
  /\ UNCHANGED <<workflowVars, overdue, callerVars, stale>>

\* cancel_leave_request with reapproval: a second workflow replaces the first.
RequestCancellation(r, path) ==
  LET n == request[r].workflow + 1 IN
  /\ "reapproval" \in CancelModes
  /\ CanCancel(r)
  /\ n <= MaxWorkflows
  /\ wf!Create(<<r, n>>, path, Employee)
  /\ request' = [request EXCEPT ![r] = [@ EXCEPT
       !.status = "pending", !.action = "cancellation_request", !.workflow = n]]
  /\ UNCHANGED <<balanceVars, overdue, callerVars, stale>>

-----------------------------------------------------------------------------
Next ==
  \/ \E v \in Viewers : (\E r \in Requests : ViewBalance(v, r)) \/ StoreView(v)
  \/ \E s \in Submitters :
       \/ \E r \in Requests : Validate(s, r)
       \/ \E path \in LeaveRoutes : Submit(s, path)
       \/ SubmitFails(s)
  \/ \E s \in Sessions :
       \/ \E a \in Approvers \cup HrAdmins, r \in Requests, b \in BOOLEAN : OpenSession(s, a, r, b)
       \/ CloseSession(s)
       \/ SessionRefused(s)
  \/ \E t \in Timers : (\E r \in Requests : SelectCandidate(t, r)) \/ AutoApprove(t) \/ SkipCandidate(t)
  \/ \E r \in Requests :
       \/ DeadlinePasses(r)
       \/ Withdraw(r)
       \/ CancelDirectly(r)
       \/ \E path \in CancelRoutes : RequestCancellation(r, path)

Spec == Init /\ [][Next]_leaveVars
-----------------------------------------------------------------------------
\* The declared values of the rows and of the callers' records.
TypeOK ==
  /\ request \in [Requests -> [
       status : {"none", "withdrawn", "rejected", "cancelled"} \cup Active,
       action : {"leave_request", "cancellation_request"}, workflow : 0..MaxWorkflows,
       direct : BOOLEAN]]
  /\ reserved \in Nat /\ consumed \in Nat /\ closing \in Int
  /\ wf!TypeOK
  /\ overdue \subseteq Workflows /\ stale \subseteq Workflows
  /\ submitter \in [Submitters -> Requests \cup {NoRequest}]
  /\ session \in [Sessions -> [
       actor : Approvers \cup HrAdmins \cup {System}, request : Requests \cup {NoRequest},
       approve : BOOLEAN, seen : 0..MaxWorkflows, step : Nat]]
  /\ timer \in [Timers -> Requests \cup {NoRequest}]
  /\ viewer \in [Viewers -> Int]

\* The single units that the requests in S ask for, and their number.
UnitsOf(S) == UNION {{r} \X (1..Units[r]) : r \in S}
TotalUnits(S) == Cardinality(UnitsOf(S))

Undecided(r) == request[r].status \in Waiting /\ request[r].action = "leave_request"
Taken(r) == request[r].status = "approved" \/ request[r].action = "cancellation_request"

\* The policy's cancellation reaches leave that only some of its approvers have
\* approved: the first workflow stays open for good, and the units reserved for
\* it are returned from the consumed ones instead.
CancelledEarly(r) ==
  /\ wfStatus[<<r, 1>>] = "pending"
  /\ request[r].workflow > 1 \/ request[r].status = "cancelled"

\* The balance accounts for the requests through any sequence of submissions,
\* decisions, withdrawals and cancellations.  Exactly the units of undecided
\* requests are reserved, besides those of leave that was cancelled between two
\* of its approvals, which stay reserved for good.  Exactly those of approved
\* leave (until its cancellation is approved) are consumed, unless some leave
\* was cancelled early; then some of them may be missing, never too many.
BalanceMatchesRequests ==
  LET taken == {r \in Requests : Taken(r)}
      early == {r \in Requests : CancelledEarly(r)} IN
  /\ reserved = TotalUnits({r \in Requests : Undecided(r)} \cup early)
  /\ consumed <= TotalUnits(taken \ early)
  /\ early = {} => consumed = TotalUnits(taken)

\* No leave is reserved or consumed beyond what the policy grants by its start:
\* the leave that is granted no more than r never exceeds what r is granted, and
\* the amounts together never exceed what some submitted request is granted.
\* This holds for concurrent submissions too, and when a page view has stored an
\* outdated closing balance in between.
NeverOverdrawn ==
  /\ \A r \in Requests :
       TotalUnits({q \in Requests : (Undecided(q) \/ Taken(q)) /\ Entitlement[q] <= Entitlement[r]})
         <= Entitlement[r]
  /\ reserved + consumed > 0 =>
       \E r \in Requests : request[r].status # "none" /\ reserved + consumed <= Entitlement[r]

\* The request's status is the outcome of its latest workflow.  While it waits
\* the workflow is open.  Leave is approved only when every step of its workflow
\* was, or when the approvers of its cancellation refused that.  Unless the
\* employee cancels it directly it is cancelled only when every step of a
\* cancellation workflow was approved.  Leave that its own workflow rejected is
\* neither approved nor cancelled; leave that is was approved by every step of
\* its own workflow, or it was cancelled before the last of them.
RequestFollowsWorkflow ==
  \A r \in Requests :
    LET outcome == wfStatus[WorkflowOf(r)]
        own == wfStatus[<<r, 1>>] IN
    /\ request[r].status \in Waiting => outcome = "pending"
    /\ request[r].status = "approved" =>
         outcome = (IF request[r].workflow = 1 THEN "approved" ELSE "rejected")
    /\ request[r].status = "rejected" => request[r].workflow = 1 /\ outcome = "rejected"
    /\ request[r].status = "cancelled" /\ ~request[r].direct =>
         request[r].workflow > 1 /\ outcome = "approved"
    /\ request[r].workflow > 1 \/ request[r].status \in {"approved", "cancelled"} =>
         own = "approved" \/ CancelledEarly(r)

\* An automatic decision is made only of a step whose own deadline has passed:
\* a timer that raced a manual decision does not approve the step after it,
\* nor a request that was withdrawn or is being cancelled.
AutoOnlyAfterDeadline ==
  [][\A i \in Workflows :
       Len(wfLog'[i]) > Len(wfLog[i]) /\ wfLog'[i][Len(wfLog'[i])].actor = System =>
         i \in overdue /\ request[i[1]].status \in Waiting /\ i[2] = 1]_leaveVars

\* Cancelling leave restores the balance, as the scenario catalog of the
\* repository says: no units stay reserved but those of requests that still wait
\* for a decision.  cancel_leave_request breaks this for leave that only some of
\* its approvers have approved.
CancellationRestoresBalance == reserved = TotalUnits({r \in Requests : Undecided(r)})

\* No two active requests of an employee share a date.
NoOverlap ==
  \A r, q \in Requests :
    Overlapping(r, q) => ~(request[r].status \in Active /\ request[q].status \in Active)

\* A decision is applied only to the step its actor was authorised for; one
\* that comes too late is refused.
StaleDecisionRejected == stale = {}
=============================================================================
