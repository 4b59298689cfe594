------------------------- MODULE WorkflowInstance -------------------------
(***************************************************************************)
(* The workflow engine of apps/workflows/services.py: instances seeded     *)
(* from a dynamic approval chain, an active template or the default step,  *)
(* and resolved one step at a time under row locks.                        *)
(*                                                                         *)
(* resolve_workflow_action runs in one transaction that locks the instance *)
(* row and then the step row, so each resolution is one atomic action.     *)
(* Whether the actor is assigned to the step is not checked there; the     *)
(* callers do that (see LeaveRequest).  The status in_progress is assigned *)
(* only by an else branch that the supported actions never reach.          *)
(***************************************************************************)
EXTENDS Naturals, Sequences

CONSTANTS
  Instances,  \* WorkflowInstance rows that may be created
  Actors,     \* actor identifiers written to assignments and to the log
  Routes      \* what an instance can be seeded with: step order |-> assignees

ASSUME RoutesAssumption ==
  \A r \in Routes : /\ DOMAIN r \subseteq Nat \ {0}
                    /\ r \in [DOMAIN r -> SUBSET Actors]

VARIABLES
  status,            \* WorkflowInstance.status, "none" before the row exists
  currentStepOrder,  \* WorkflowInstance.current_step_order
  route,             \* WorkflowAssignment rows: step order |-> assignees
  stepStatus,        \* WorkflowStepInstance.status by step_order
  actionLog          \* WorkflowActionLog rows in creation order

workflowVars == <<status, currentStepOrder, route, stepStatus, actionLog>>

NoSteps == [k \in {} |-> {}]

TerminalStatus == {"approved", "rejected", "cancelled"}
StatusSet == TerminalStatus \cup {"none", "pending"}
StepStatusSet == TerminalStatus \cup {"draft", "pending"}
Decisions == {"approve", "reject", "cancel"}

\* terminal_action_statuses: the status in which an action ends the instance.
StatusOf(action) ==
  CASE action = "approve" -> "approved"
    [] action = "reject"  -> "rejected"
    [] action = "cancel"  -> "cancelled"

-----------------------------------------------------------------------------
Init ==
  /\ status = [i \in Instances |-> "none"]
  /\ currentStepOrder = [i \in Instances |-> 0]
  /\ route = [i \in Instances |-> NoSteps]
  /\ stepStatus = [i \in Instances |-> NoSteps]
  /\ actionLog = [i \in Instances |-> << >>]

\* Only the step whose order is 1 starts out pending.
SeedStatus(r) == [k \in DOMAIN r |-> IF k = 1 THEN "pending" ELSE "draft"]

Create(i, r, initiator) ==
  /\ status[i] = "none"
  /\ status' = [status EXCEPT ![i] = "pending"]
  /\ currentStepOrder' = [currentStepOrder EXCEPT ![i] = 1]
  /\ route' = [route EXCEPT ![i] = r]
  /\ stepStatus' = [stepStatus EXCEPT ![i] = SeedStatus(r)]
  /\ actionLog' = [actionLog EXCEPT ![i] =
       Append(@, [action |-> "submit", step |-> 0, actor |-> initiator, to |-> "pending"])]

Steps(i) == DOMAIN stepStatus[i]
OpenSteps(i) == {k \in Steps(i) : stepStatus[i][k] = "pending"}

\* current_step: the open step of least order.
IsCurrent(i, k) == k \in OpenSteps(i) /\ \A j \in OpenSteps(i) : k <= j

StepsAfter(i, k) == {j \in Steps(i) : j > k}

\* Faulty variant: the sort direction of next_step is reversed.
IsNextReversed(i, k, n) == n \in StepsAfter(i, k) /\ \A j \in StepsAfter(i, k) : j <= n

\* next_step: the first step after the current one.
IsNext(i, k, n) == n \in StepsAfter(i, k) /\ \A j \in StepsAfter(i, k) : n <= j

Logged(i, k, actor, action, to) ==
  actionLog' = [actionLog EXCEPT ![i] =
    Append(@, [action |-> action, step |-> k, actor |-> actor, to |-> to])]

\* Faulty variant: any approval approves the instance.
ApproveLastAnyStep(i, k, actor) ==
  /\ IsCurrent(i, k)
  /\ stepStatus' = [stepStatus EXCEPT ![i][k] = "approved"]
  /\ status' = [status EXCEPT ![i] = "approved"]
  /\ Logged(i, k, actor, "approve", "approved")
  /\ UNCHANGED <<currentStepOrder, route>>

\* APPROVE of the last step approves the instance.
ApproveLast(i, k, actor) ==
  /\ IsCurrent(i, k)
  /\ StepsAfter(i, k) = {}
  /\ stepStatus' = [stepStatus EXCEPT ![i][k] = "approved"]
  /\ status' = [status EXCEPT ![i] = "approved"]
  /\ Logged(i, k, actor, "approve", "approved")
  /\ UNCHANGED <<currentStepOrder, route>>

\* Faulty variant: current_step_order is not advanced.
ApproveStepKeepsPointer(i, k, n, actor) ==
  /\ IsCurrent(i, k)
  /\ IsNext(i, k, n)
  /\ stepStatus' = [stepStatus EXCEPT ![i] = [@ EXCEPT ![k] = "approved", ![n] = "pending"]]
  /\ status' = [status EXCEPT ![i] = "pending"]
  /\ Logged(i, k, actor, "approve", "pending")
  /\ UNCHANGED <<currentStepOrder, route>>

\* Faulty variant: intermediate approvals are not logged.
ApproveStepUnlogged(i, k, n, actor) ==
  /\ IsCurrent(i, k)
  /\ IsNext(i, k, n)
  /\ stepStatus' = [stepStatus EXCEPT ![i] = [@ EXCEPT ![k] = "approved", ![n] = "pending"]]
  /\ status' = [status EXCEPT ![i] = "pending"]
  /\ currentStepOrder' = [currentStepOrder EXCEPT ![i] = n]
  /\ UNCHANGED <<route, actionLog>>

\* APPROVE of any other step opens the next one in order.
ApproveStep(i, k, n, actor) ==
  /\ IsCurrent(i, k)
  /\ IsNext(i, k, n)
  /\ stepStatus' = [stepStatus EXCEPT ![i] = [@ EXCEPT ![k] = "approved", ![n] = "pending"]]
  /\ status' = [status EXCEPT ![i] = "pending"]
  /\ currentStepOrder' = [currentStepOrder EXCEPT ![i] = n]
  /\ Logged(i, k, actor, "approve", "pending")
  /\ UNCHANGED route

\* Faulty variant: the step row keeps its open status.
CloseKeepsStepOpen(i, k, actor, action) ==
  /\ IsCurrent(i, k)
  /\ status' = [status EXCEPT ![i] = StatusOf(action)]
  /\ Logged(i, k, actor, action, StatusOf(action))
  /\ UNCHANGED <<currentStepOrder, route, stepStatus>>

\* Faulty variant: the action is stored where the status belongs.
CloseStoresAction(i, k, actor, action) ==
  /\ IsCurrent(i, k)
  /\ stepStatus' = [stepStatus EXCEPT ![i][k] = action]
  /\ status' = [status EXCEPT ![i] = action]
  /\ Logged(i, k, actor, action, StatusOf(action))
  /\ UNCHANGED <<currentStepOrder, route>>

\* REJECT and CANCEL close the step and the instance together.
Close(i, k, actor, action) ==
  /\ IsCurrent(i, k)
  /\ stepStatus' = [stepStatus EXCEPT ![i][k] = StatusOf(action)]
  /\ status' = [status EXCEPT ![i] = StatusOf(action)]
  /\ Logged(i, k, actor, action, StatusOf(action))
  /\ UNCHANGED <<currentStepOrder, route>>

\* One call of resolve_workflow_action.  Without an open step it changes nothing:
\* it returns the instance if the action's status is reached, else it is refused.
Resolve(i, actor, action) ==
  \E k \in Steps(i) :
    \/ action = "approve" /\ ApproveLast(i, k, actor)
    \/ action = "approve" /\ \E n \in Steps(i) : ApproveStep(i, k, n, actor)
    \/ action # "approve" /\ Close(i, k, actor, action)

Next ==
  \E i \in Instances, actor \in Actors :
    \/ \E r \in Routes : Create(i, r, actor)
    \/ \E action \in Decisions : Resolve(i, actor, action)

Spec == Init /\ [][Next]_workflowVars
-----------------------------------------------------------------------------
LogEntry == [action : Decisions \cup {"submit"}, step : Nat, actor : Actors, to : StatusSet]

\* The declared values of every field of the workflow tables.
TypeOK ==
  /\ status \in [Instances -> StatusSet]
  /\ currentStepOrder \in [Instances -> Nat]
  /\ route \in [Instances -> Routes \cup {NoSteps}]
  /\ stepStatus = [i \in Instances |-> stepStatus[i]]
  /\ \A i \in Instances : stepStatus[i] \in [DOMAIN route[i] -> StepStatusSet]
  /\ actionLog \in [Instances -> Seq(LogEntry)]

\* Steps before c are approved, c has the given status, later ones are untouched.
ShapeAround(i, c, statusAtC) ==
  /\ c \in Steps(i)
  /\ \A k \in Steps(i) : /\ k < c => stepStatus[i][k] = "approved"
                         /\ k = c => stepStatus[i][k] = statusAtC
                         /\ k > c => stepStatus[i][k] = "draft"

\* While an instance is pending, the step that current_step_order names is the
\* only open one, everything before it is approved and nothing after it was
\* touched: approvals cannot be skipped, reordered or left half applied.  The
\* one exception is an instance seeded without a step of order 1: none of its
\* steps is ever opened, so that it stays pending with every step in draft.
PendingChainShape ==
  \A i \in Instances :
    status[i] = "pending" =>
      IF 1 \in Steps(i) THEN ShapeAround(i, currentStepOrder[i], "pending")
      ELSE \A k \in Steps(i) : stepStatus[i][k] = "draft"

\* An instance is approved only when every one of its steps was approved, and
\* a rejected or cancelled one stopped at exactly one step with that decision.
OutcomeMatchesSteps ==
  \A i \in Instances :
    /\ status[i] = "approved" => \A k \in Steps(i) : stepStatus[i][k] = "approved"
    /\ status[i] \in {"rejected", "cancelled"} =>
         \E c \in Steps(i) : ShapeAround(i, c, status[i])

\* The audit trail reconstructs the instance: the log's decisions are exactly
\* the decided steps, in ascending order, and its last entry is the status.
LogAccountsForDecisions ==
  \A i \in Instances : status[i] # "none" =>
    LET log == actionLog[i] IN
      /\ log # << >> /\ log[Len(log)].to = status[i]
      /\ \A n \in 2..Len(log) : /\ log[n].step \in Steps(i)
                                /\ stepStatus[i][log[n].step] = StatusOf(log[n].action)
                                /\ log[n - 1].step < log[n].step
      /\ \A k \in Steps(i) : stepStatus[i][k] \in TerminalStatus =>
           \E n \in 2..Len(log) : log[n].step = k

\* A pending instance has no open step, and resolve_workflow_action refuses every
\* decision as "already resolved", exactly if no step of order 1 was seeded.
StuckWithoutFirstStep ==
  \A i \in Instances : status[i] = "pending" => (OpenSteps(i) = {} <=> 1 \notin Steps(i))

\* A workflow that was approved, rejected or cancelled never changes again.
OutcomeIsFinal ==
  [][\A i \in Instances : status[i] \in TerminalStatus =>
       status'[i] = status[i] /\ stepStatus'[i] = stepStatus[i]]_workflowVars

\* The engine implements the approval chain its callers rely on.
chain == INSTANCE ApprovalChain WITH
  Plans <- {DOMAIN r : r \in Routes},
  outcome <- [i \in Instances |-> IF status[i] = "pending" THEN "open" ELSE status[i]],
  required <- [i \in Instances |-> Steps(i)],
  granted <- [i \in Instances |-> {k \in Steps(i) : stepStatus[i][k] = "approved"}]

\* Every step of the engine is a step of the abstract chain or leaves it alone.
ImplementsApprovalChain == chain!Spec
=============================================================================
