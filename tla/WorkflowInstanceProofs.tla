----------------------- MODULE WorkflowInstanceProofs -----------------------
(***************************************************************************)
(* Proofs about the workflow engine, for every set of instances, actors    *)
(* and routes, a template without a step of order 1 included: an instance  *)
(* seeded from it has no open step, and nothing can be decided about it.   *)
(***************************************************************************)
EXTENDS WorkflowInstance, TLAPS

LEMMA TypeInit == Init => TypeOK
BY DEF Init, TypeOK, StatusSet, NoSteps

LEMMA TypeNext == TypeOK /\ [Next]_workflowVars => TypeOK'
<1> SUFFICES ASSUME TypeOK, [Next]_workflowVars PROVE TypeOK'
  OBVIOUS
<1> USE DEF TypeOK
<1>1. CASE UNCHANGED workflowVars
  BY <1>1 DEF workflowVars
<1>2. ASSUME NEW i \in Instances, NEW actor \in Actors, NEW r \in Routes,
             Create(i, r, actor)
      PROVE  TypeOK'
  <2>1. [action |-> "submit", step |-> 0, actor |-> actor, to |-> "pending"] \in LogEntry
    BY DEF LogEntry, StatusSet
  <2>2. SeedStatus(r) \in [DOMAIN r -> StepStatusSet]
    BY DEF SeedStatus, StepStatusSet
  <2>a. status' \in [Instances -> StatusSet] /\ currentStepOrder' \in [Instances -> Nat]
    BY <1>2, <2>1, <2>2 DEF Create, StatusSet, TerminalStatus
  <2>b. route' \in [Instances -> Routes \cup {NoSteps}] /\ actionLog' \in [Instances -> Seq(LogEntry)]
    BY <1>2, <2>1, <2>2 DEF Create, Logged
  <2>c. stepStatus' = [j \in Instances |-> stepStatus'[j]]
    BY <1>2, <2>1, <2>2 DEF Create
  <2>d. ASSUME NEW j \in Instances PROVE stepStatus'[j] \in [DOMAIN route'[j] -> StepStatusSet]
    BY <1>2, <2>1, <2>2 DEF Create, Steps, StepStatusSet, TerminalStatus
  <2> QED
    BY <2>a, <2>b, <2>c, <2>d
<1>3. ASSUME NEW i \in Instances, NEW actor \in Actors, NEW k \in Steps(i),
             ApproveLast(i, k, actor)
      PROVE  TypeOK'
  <2>1. k \in Nat
    BY RoutesAssumption DEF Steps, NoSteps
  <2>2. [action |-> "approve", step |-> k, actor |-> actor, to |-> "approved"] \in LogEntry
    BY <2>1 DEF LogEntry, StatusSet, TerminalStatus, Decisions
  <2>a. status' \in [Instances -> StatusSet] /\ currentStepOrder' \in [Instances -> Nat]
    BY <1>3, <2>2 DEF ApproveLast, StatusSet, TerminalStatus
  <2>b. route' \in [Instances -> Routes \cup {NoSteps}] /\ actionLog' \in [Instances -> Seq(LogEntry)]
    BY <1>3, <2>2 DEF ApproveLast, Logged
  <2>c. stepStatus' = [j \in Instances |-> stepStatus'[j]]
    BY <1>3, <2>2 DEF ApproveLast
  <2>d. ASSUME NEW j \in Instances PROVE stepStatus'[j] \in [DOMAIN route'[j] -> StepStatusSet]
    BY <1>3, <2>2 DEF ApproveLast, Steps, StepStatusSet, TerminalStatus
  <2> QED
    BY <2>a, <2>b, <2>c, <2>d
<1>4. ASSUME NEW i \in Instances, NEW actor \in Actors, NEW k \in Steps(i), NEW n \in Steps(i),
             ApproveStep(i, k, n, actor)
      PROVE  TypeOK'
  <2>1. k \in Nat /\ n \in Nat
    BY RoutesAssumption DEF Steps, NoSteps
  <2>2. [action |-> "approve", step |-> k, actor |-> actor, to |-> "pending"] \in LogEntry
    BY <2>1 DEF LogEntry, StatusSet, TerminalStatus, Decisions
  <2>a. status' \in [Instances -> StatusSet] /\ currentStepOrder' \in [Instances -> Nat]
    BY <1>4, <2>1, <2>2 DEF ApproveStep, StatusSet, TerminalStatus
  <2>b. route' \in [Instances -> Routes \cup {NoSteps}] /\ actionLog' \in [Instances -> Seq(LogEntry)]
    BY <1>4, <2>1, <2>2 DEF ApproveStep, Logged
  <2>c. stepStatus' = [j \in Instances |-> stepStatus'[j]]
    BY <1>4, <2>1, <2>2 DEF ApproveStep
  <2>d. ASSUME NEW j \in Instances PROVE stepStatus'[j] \in [DOMAIN route'[j] -> StepStatusSet]
    BY <1>4, <2>1, <2>2 DEF ApproveStep, Steps, StepStatusSet, TerminalStatus
  <2> QED
    BY <2>a, <2>b, <2>c, <2>d
<1>5. ASSUME NEW i \in Instances, NEW actor \in Actors, NEW action \in Decisions \ {"approve"},
             NEW k \in Steps(i), Close(i, k, actor, action)
      PROVE  TypeOK'
  <2>1. k \in Nat
    BY RoutesAssumption DEF Steps, NoSteps
  <2>2. StatusOf(action) \in TerminalStatus
    BY DEF StatusOf, Decisions, TerminalStatus
  <2>3. [action |-> action, step |-> k, actor |-> actor, to |-> StatusOf(action)] \in LogEntry
    BY <2>1, <2>2 DEF LogEntry, StatusSet
  <2>a. status' \in [Instances -> StatusSet] /\ currentStepOrder' \in [Instances -> Nat]
    BY <1>5, <2>2, <2>3 DEF Close, StatusSet, TerminalStatus
  <2>b. route' \in [Instances -> Routes \cup {NoSteps}] /\ actionLog' \in [Instances -> Seq(LogEntry)]
    BY <1>5, <2>2, <2>3 DEF Close, Logged
  <2>c. stepStatus' = [j \in Instances |-> stepStatus'[j]]
    BY <1>5, <2>2, <2>3 DEF Close
  <2>d. ASSUME NEW j \in Instances PROVE stepStatus'[j] \in [DOMAIN route'[j] -> StepStatusSet]
    BY <1>5, <2>2, <2>3 DEF Close, Steps, StepStatusSet, TerminalStatus
  <2> QED
    BY <2>a, <2>b, <2>c, <2>d
<1> QED
  BY <1>1, <1>2, <1>3, <1>4, <1>5 DEF Next, Resolve, Decisions

\* Every reachable state of the workflow tables is well typed.
THEOREM WorkflowTypeCorrect == Spec => []TypeOK
BY TypeInit, TypeNext, PTL DEF Spec
-----------------------------------------------------------------------------
\* Rows that do not exist have no steps.
AbsentHasNoSteps == \A i \in Instances : status[i] = "none" => Steps(i) = {}

ChainInv == TypeOK /\ AbsentHasNoSteps /\ PendingChainShape /\ OutcomeMatchesSteps

\* Step orders are positive numbers, so they can be compared.
LEMMA StepOrders == ASSUME TypeOK, NEW i \in Instances PROVE Steps(i) \subseteq Nat \ {0}
BY RoutesAssumption DEF TypeOK, Steps, NoSteps

\* The step a resolution works on is the one current_step_order names.
LEMMA CurrentIsPointer ==
  ASSUME ChainInv, NEW i \in Instances, NEW k \in Steps(i), IsCurrent(i, k)
  PROVE  status[i] = "pending" /\ k = currentStepOrder[i] /\ 1 \in Steps(i)
<1>1. k \in Nat /\ currentStepOrder[i] \in Nat
  BY StepOrders DEF ChainInv, TypeOK
<1>2. stepStatus[i][k] = "pending"
  BY DEF IsCurrent, OpenSteps
<1>3. status[i] # "none"
  BY DEF ChainInv, AbsentHasNoSteps
<1>4. status[i] \notin TerminalStatus
  <2>1. status[i] # "approved"
    BY <1>2 DEF ChainInv, OutcomeMatchesSteps
  <2>2. ASSUME status[i] \in {"rejected", "cancelled"} PROVE FALSE
    <3>1. PICK c \in Steps(i) : ShapeAround(i, c, status[i])
      BY <2>2 DEF ChainInv, OutcomeMatchesSteps
    <3>2. c \in Nat
      BY StepOrders DEF ChainInv
    <3> QED
      BY <1>1, <1>2, <2>2, <3>1, <3>2 DEF ShapeAround
  <2> QED
    BY <2>1, <2>2 DEF TerminalStatus
<1>5. status[i] = "pending"
  BY <1>3, <1>4 DEF ChainInv, TypeOK, StatusSet
<1>6. 1 \in Steps(i)
  BY <1>2, <1>5 DEF ChainInv, PendingChainShape
<1> QED
  BY <1>1, <1>2, <1>5, <1>6 DEF ChainInv, PendingChainShape, ShapeAround

\* PendingChainShape read at one step j of a pending instance.
LEMMA PendingShape ==
  ASSUME ChainInv, NEW i \in Instances, status[i] = "pending", 1 \in Steps(i), NEW j \in Steps(i)
  PROVE  LET c == currentStepOrder[i] IN
           /\ c \in Steps(i) /\ c \in Nat /\ j \in Nat
           /\ j < c => stepStatus[i][j] = "approved"
           /\ j = c => stepStatus[i][j] = "pending"
           /\ j > c => stepStatus[i][j] = "draft"
<1>1. currentStepOrder[i] \in Steps(i) /\ currentStepOrder[i] \in Nat /\ j \in Nat
  BY StepOrders DEF ChainInv, PendingChainShape, ShapeAround
<1> QED
  BY <1>1 DEF ChainInv, PendingChainShape, ShapeAround

\* One call of resolve_workflow_action logs one entry of its actor.
LEMMA ResolveLogs ==
  ASSUME TypeOK, NEW i \in Instances, NEW actor, NEW action, Resolve(i, actor, action)
  PROVE  /\ \A j \in Instances \ {i} : actionLog'[j] = actionLog[j]
         /\ \E e : e.actor = actor /\ actionLog'[i] = Append(actionLog[i], e)
<1>1. PICK e : e.actor = actor /\ actionLog' = [actionLog EXCEPT ![i] = Append(@, e)]
  <2> DEFINE entry(k, to) == [action |-> action, step |-> k, actor |-> actor, to |-> to]
  <2>1. \A k, to : entry(k, to).actor = actor
    OBVIOUS
  <2> QED
    BY <2>1 DEF Resolve, ApproveLast, ApproveStep, Close, Logged
<1>2. actionLog'[i] = Append(actionLog[i], e) /\ \A j \in Instances \ {i} : actionLog'[j] = actionLog[j]
  BY <1>1 DEF TypeOK
<1> QED
  BY <1>1, <1>2

\* The instance was pending; an approval that keeps it open has a step left.
LEMMA ResolveEffect ==
  ASSUME ChainInv, NEW i \in Instances, NEW actor, NEW action, Resolve(i, actor, action)
  PROVE  /\ status[i] = "pending" /\ route' = route
         /\ \A j \in Instances \ {i} : status'[j] = status[j]
         /\ action = "approve" =>
              \/ status'[i] = "approved"
              \/ status'[i] = "pending" /\ \E k, n \in Steps(i) : n > k
         /\ action # "approve" => status'[i] = StatusOf(action)
<1>1. PICK k \in Steps(i) : \/ action = "approve" /\ ApproveLast(i, k, actor)
                            \/ action = "approve" /\ \E n \in Steps(i) : ApproveStep(i, k, n, actor)
                            \/ action # "approve" /\ Close(i, k, actor, action)
  BY DEF Resolve
<1>2. status[i] = "pending" /\ route' = route
  BY <1>1, CurrentIsPointer DEF ApproveLast, ApproveStep, Close
<1>3. PICK to : /\ status' = [status EXCEPT ![i] = to]
                /\ action = "approve" =>
                     to = "approved" \/ (to = "pending" /\ \E n \in Steps(i) : n > k)
                /\ action # "approve" => to = StatusOf(action)
  <2>1. CASE action = "approve" /\ ApproveLast(i, k, actor)
    BY <2>1 DEF ApproveLast
  <2>2. CASE action = "approve" /\ \E n \in Steps(i) : ApproveStep(i, k, n, actor)
    <3>1. \E n \in Steps(i) : n > k
      BY <2>2 DEF ApproveStep, IsNext, StepsAfter
    <3>2. status' = [status EXCEPT ![i] = "pending"]
      BY <2>2 DEF ApproveStep
    <3> QED
      BY <2>2, <3>1, <3>2
  <2>3. CASE action # "approve" /\ Close(i, k, actor, action)
    BY <2>3 DEF Close
  <2> QED
    BY <1>1, <2>1, <2>2, <2>3
<1>4. status'[i] = to /\ \A j \in Instances \ {i} : status'[j] = status[j]
  BY <1>3 DEF ChainInv, TypeOK
<1> QED
  BY <1>1, <1>2, <1>3, <1>4

LEMMA ChainInit == Init => ChainInv
BY TypeInit DEF Init, ChainInv, AbsentHasNoSteps, PendingChainShape, OutcomeMatchesSteps,
                Steps, NoSteps

LEMMA ChainNext ==
  ASSUME ChainInv, [Next]_workflowVars
  PROVE  ChainInv'
<1>0. TypeOK'
  BY TypeNext DEF ChainInv
<1> DEFINE Shape(j) == /\ status[j] = "none" => Steps(j) = {}
                       /\ status[j] = "pending" =>
                            IF 1 \in Steps(j) THEN ShapeAround(j, currentStepOrder[j], "pending")
                            ELSE \A k \in Steps(j) : stepStatus[j][k] = "draft"
                       /\ status[j] = "approved" => \A k \in Steps(j) : stepStatus[j][k] = "approved"
                       /\ status[j] \in {"rejected", "cancelled"} =>
                            \E c \in Steps(j) : ShapeAround(j, c, status[j])
<1>a. \A j \in Instances : Shape(j)
  BY DEF ChainInv, AbsentHasNoSteps, PendingChainShape, OutcomeMatchesSteps
<1>b. ASSUME \A j \in Instances : Shape(j)' PROVE ChainInv'
  BY <1>0, <1>b DEF ChainInv, AbsentHasNoSteps, PendingChainShape, OutcomeMatchesSteps
<1>c. ASSUME NEW j \in Instances, status'[j] = status[j],
             currentStepOrder'[j] = currentStepOrder[j], stepStatus'[j] = stepStatus[j]
      PROVE  Shape(j)'
  <2>1. Shape(j) /\ Steps(j)' = Steps(j)
    BY <1>a, <1>c DEF Steps
  <2> QED
    BY <1>c, <2>1 DEF ShapeAround
<1>1. CASE UNCHANGED workflowVars
  BY <1>1, <1>b, <1>c DEF workflowVars
<1>2. ASSUME NEW i \in Instances, NEW actor \in Actors, NEW r \in Routes,
             Create(i, r, actor)
      PROVE  ChainInv'
  <2>1. ASSUME NEW j \in Instances, j # i PROVE Shape(j)'
    BY <1>2, <1>c, <2>1 DEF Create, ChainInv, TypeOK
  <2>2. /\ status'[i] = "pending" /\ currentStepOrder'[i] = 1
        /\ stepStatus'[i] = SeedStatus(r)
    BY <1>2 DEF Create, ChainInv, TypeOK
  <2>3. DOMAIN r \subseteq Nat \ {0}
    BY RoutesAssumption
  <2>4. Shape(i)'
    BY <2>2, <2>3 DEF SeedStatus, Steps, ShapeAround
  <2> QED
    BY <1>b, <2>1, <2>4
<1>3. ASSUME NEW i \in Instances, NEW actor \in Actors, NEW k \in Steps(i),
             ApproveLast(i, k, actor)
      PROVE  ChainInv'
  <2>1. ASSUME NEW j \in Instances, j # i PROVE Shape(j)'
    BY <1>3, <1>c, <2>1 DEF ApproveLast, ChainInv, TypeOK
  <2>2. status[i] = "pending" /\ k = currentStepOrder[i] /\ 1 \in Steps(i)
    BY <1>3, CurrentIsPointer DEF ApproveLast
  <2>3. /\ status'[i] = "approved"
        /\ stepStatus'[i] = [stepStatus[i] EXCEPT ![k] = "approved"]
    BY <1>3 DEF ApproveLast, ChainInv, TypeOK
  <2>4. \A j \in Steps(i) : j <= k
    BY <1>3, StepOrders DEF ApproveLast, StepsAfter, ChainInv
  <2>5. ASSUME NEW j \in Steps(i) PROVE stepStatus'[i][j] = "approved"
    BY <2>2, <2>3, <2>4, PendingShape DEF ChainInv, TypeOK, Steps
  <2>6. Shape(i)'
    BY <2>3, <2>5 DEF Steps, ShapeAround
  <2> QED
    BY <1>b, <2>1, <2>6
<1>4. ASSUME NEW i \in Instances, NEW actor \in Actors, NEW k \in Steps(i), NEW n \in Steps(i),
             ApproveStep(i, k, n, actor)
      PROVE  ChainInv'
  <2>1. ASSUME NEW j \in Instances, j # i PROVE Shape(j)'
    BY <1>4, <1>c, <2>1 DEF ApproveStep, ChainInv, TypeOK
  <2>2. status[i] = "pending" /\ k = currentStepOrder[i] /\ 1 \in Steps(i)
    BY <1>4, CurrentIsPointer DEF ApproveStep
  <2>3. /\ status'[i] = "pending" /\ currentStepOrder'[i] = n
        /\ stepStatus'[i] = [stepStatus[i] EXCEPT ![k] = "approved", ![n] = "pending"]
    BY <1>4 DEF ApproveStep, ChainInv, TypeOK
  <2>4. /\ n > k /\ k \in Nat /\ n \in Nat
        /\ \A j \in Steps(i) : j \in Nat /\ (j > k => n <= j)
    BY <1>4, StepOrders DEF ApproveStep, IsNext, StepsAfter, ChainInv
  <2>5. ASSUME NEW j \in Steps(i)
        PROVE  /\ j < n => stepStatus'[i][j] = "approved"
               /\ j = n => stepStatus'[i][j] = "pending"
               /\ j > n => stepStatus'[i][j] = "draft"
    <3>0. /\ j < k => stepStatus[i][j] = "approved"
          /\ j > k => stepStatus[i][j] = "draft"
      BY <2>2, PendingShape
    <3>1. CASE j < n
      BY <2>3, <2>4, <3>0, <3>1 DEF Steps
    <3>2. CASE j = n
      BY <2>3, <2>4, <3>2 DEF Steps
    <3>3. CASE j > n
      BY <2>3, <2>4, <3>0, <3>3 DEF Steps
    <3> QED
      BY <2>4, <3>1, <3>2, <3>3
  <2>6. Steps(i)' = Steps(i)
    BY <2>3 DEF Steps
  <2>7. ShapeAround(i, currentStepOrder[i], "pending")'
    BY <2>3, <2>5, <2>6 DEF ShapeAround
  <2>8. Shape(i)'
    BY <2>2, <2>3, <2>6, <2>7
  <2> QED
    BY <1>b, <2>1, <2>8
<1>5. ASSUME NEW i \in Instances, NEW actor \in Actors, NEW action \in Decisions \ {"approve"},
             NEW k \in Steps(i), Close(i, k, actor, action)
      PROVE  ChainInv'
  <2>1. ASSUME NEW j \in Instances, j # i PROVE Shape(j)'
    BY <1>5, <1>c, <2>1 DEF Close, ChainInv, TypeOK
  <2>2. status[i] = "pending" /\ k = currentStepOrder[i] /\ 1 \in Steps(i)
    BY <1>5, CurrentIsPointer DEF Close
  <2>3. StatusOf(action) \in {"rejected", "cancelled"}
    BY DEF StatusOf, Decisions
  <2>4. /\ status'[i] = StatusOf(action)
        /\ stepStatus'[i] = [stepStatus[i] EXCEPT ![k] = StatusOf(action)]
    BY <1>5 DEF Close, ChainInv, TypeOK
  <2>5. k \in Nat
    BY StepOrders DEF ChainInv
  <2>6. ASSUME NEW j \in Steps(i)
        PROVE  /\ j < k => stepStatus'[i][j] = "approved"
               /\ j = k => stepStatus'[i][j] = status'[i]
               /\ j > k => stepStatus'[i][j] = "draft"
    BY <2>2, <2>4, <2>5, PendingShape DEF ChainInv, TypeOK, Steps
  <2>7. Steps(i)' = Steps(i)
    BY <2>4 DEF Steps
  <2>8. Shape(i)'
    BY <2>3, <2>4, <2>6, <2>7 DEF ShapeAround
  <2> QED
    BY <1>b, <2>1, <2>8
<1> QED
  BY <1>1, <1>2, <1>3, <1>4, <1>5 DEF Next, Resolve, Decisions

\* Approvals are taken one at a time and in order, whatever the approvers do and
\* whatever orders the template's steps have.
THEOREM WorkflowChainShape == Spec => []PendingChainShape
<1>1. ChainInv /\ [Next]_workflowVars => ChainInv'
  BY ChainNext
<1>2. ChainInv => PendingChainShape
  BY DEF ChainInv
<1> QED
  BY ChainInit, <1>1, <1>2, PTL DEF Spec

\* An instance is approved only if all of its steps are.
THEOREM WorkflowOutcome == Spec => []OutcomeMatchesSteps
<1>1. ChainInv /\ [Next]_workflowVars => ChainInv'
  BY ChainNext
<1>2. ChainInv => OutcomeMatchesSteps
  BY DEF ChainInv
<1> QED
  BY ChainInit, <1>1, <1>2, PTL DEF Spec

\* A pending instance has no open step, so that resolve_workflow_action refuses
\* every decision about it, exactly if it was seeded without a step of order 1.
THEOREM WorkflowStuckWithoutFirstStep == Spec => []StuckWithoutFirstStep
<1>1. ChainInv /\ [Next]_workflowVars => ChainInv'
  BY ChainNext
<1>2. ASSUME ChainInv PROVE StuckWithoutFirstStep
  <2>1. ASSUME NEW i \in Instances, status[i] = "pending", 1 \in Steps(i)
        PROVE  OpenSteps(i) # {}
    <3>1. currentStepOrder[i] \in OpenSteps(i)
      BY <1>2, <2>1 DEF ChainInv, PendingChainShape, ShapeAround, OpenSteps
    <3> QED
      BY <3>1
  <2>2. ASSUME NEW i \in Instances, status[i] = "pending", 1 \notin Steps(i)
        PROVE  OpenSteps(i) = {}
    BY <1>2, <2>2 DEF ChainInv, PendingChainShape, OpenSteps
  <2> QED
    BY <2>1, <2>2 DEF StuckWithoutFirstStep
<1> QED
  BY ChainInit, <1>1, <1>2, PTL DEF Spec

LEMMA FinalStep ==
  ASSUME ChainInv, [Next]_workflowVars, NEW j \in Instances, status[j] \in TerminalStatus
  PROVE  status'[j] = status[j] /\ stepStatus'[j] = stepStatus[j]
<1>0. status[j] # "none" /\ status[j] # "pending"
  BY DEF TerminalStatus
<1>1. CASE UNCHANGED workflowVars
  BY <1>1 DEF workflowVars
<1>2. ASSUME NEW i \in Instances, NEW actor \in Actors, NEW r \in Routes,
             Create(i, r, actor)
      PROVE  status'[j] = status[j] /\ stepStatus'[j] = stepStatus[j]
  BY <1>0, <1>2 DEF Create, ChainInv, TypeOK
<1>3. ASSUME NEW i \in Instances, NEW actor \in Actors, NEW action \in Decisions,
             Resolve(i, actor, action)
      PROVE  status'[j] = status[j] /\ stepStatus'[j] = stepStatus[j]
  <2>1. i # j
    BY <1>0, <1>3, CurrentIsPointer DEF Resolve, ApproveLast, ApproveStep, Close
  <2> QED
    BY <1>3, <2>1 DEF Resolve, ApproveLast, ApproveStep, Close, ChainInv, TypeOK
<1> QED
  BY <1>1, <1>2, <1>3 DEF Next

\* A decision, once taken, is final.
THEOREM WorkflowFinality == Spec => OutcomeIsFinal
<1>1. ChainInv /\ [Next]_workflowVars => ChainInv'
  BY ChainNext
<1>2. ChainInv /\ [Next]_workflowVars =>
        [\A i \in Instances : status[i] \in TerminalStatus =>
           status'[i] = status[i] /\ stepStatus'[i] = stepStatus[i]]_workflowVars
  BY FinalStep
<1> QED
  BY ChainInit, <1>1, <1>2, PTL DEF Spec, OutcomeIsFinal
-----------------------------------------------------------------------------
(* The audit trail.                                                        *)

\* The log starts with the submission, as step 0; then come the decided steps.
Accounts(i) ==
  LET log == actionLog[i] IN
  /\ status[i] = "none" => log = << >>
  /\ status[i] # "none" =>
       /\ log # << >> /\ log[1].step = 0 /\ log[Len(log)].to = status[i]
       /\ \A n \in 2..Len(log) : /\ log[n].action \in Decisions /\ log[n].step \in Steps(i)
                                 /\ stepStatus[i][log[n].step] = StatusOf(log[n].action)
                                 /\ log[n - 1].step < log[n].step
       /\ \A k \in Steps(i) : stepStatus[i][k] \in TerminalStatus =>
            \E n \in 2..Len(log) : log[n].step = k

LogInv == ChainInv /\ \A i \in Instances : Accounts(i)

LEMMA StatusOfIsTerminal == \A action \in Decisions : StatusOf(action) \in TerminalStatus
BY DEF StatusOf, Decisions, TerminalStatus

\* What is logged last was decided before the current step.
LEMMA LastLoggedBefore ==
  ASSUME LogInv, NEW i \in Instances, NEW k \in Steps(i), IsCurrent(i, k)
  PROVE  LET log == actionLog[i] IN
         /\ Len(log) \in Nat \ {0} /\ log[Len(log)].step < k
         /\ \A n \in 2..Len(log) : log[n].step # k
<1> DEFINE log == actionLog[i]
<1>1. ChainInv /\ Accounts(i) /\ status[i] = "pending" /\ k = currentStepOrder[i] /\ 1 \in Steps(i)
  BY CurrentIsPointer DEF LogInv
<1>2. log \in Seq(LogEntry) /\ log # << >>
  BY <1>1 DEF ChainInv, TypeOK, Accounts
<1>3. Len(log) \in Nat \ {0}
  BY <1>2
<1>4. ASSUME NEW n \in 2..Len(log) PROVE log[n].step < k
  <2>1. /\ log[n].step \in Steps(i)
        /\ stepStatus[i][log[n].step] \in TerminalStatus
    BY <1>1, StatusOfIsTerminal DEF Accounts
  <2>2. stepStatus[i][log[n].step] # "pending" /\ stepStatus[i][log[n].step] # "draft"
    BY <2>1 DEF TerminalStatus
  <2> QED
    BY <1>1, <2>1, <2>2, PendingShape
<1>5. log[1].step < k
  BY <1>1, StepOrders DEF Accounts, ChainInv
<1>6. log[Len(log)].step < k
  BY <1>3, <1>4, <1>5
<1>7. \A n \in 2..Len(log) : log[n].step # k
  <2>1. k \in Nat
    BY <1>1, StepOrders DEF ChainInv
  <2>2. \A n \in 2..Len(log) : log[n].step \in Nat
    BY <1>1, StepOrders DEF Accounts, ChainInv
  <2> QED
    BY <1>4, <2>1, <2>2
<1> QED
  BY <1>3, <1>6, <1>7

\* Deciding the current step and logging it keeps the account.
LEMMA DecisionAccounted ==
  ASSUME LogInv, NEW i \in Instances, NEW k \in Steps(i), IsCurrent(i, k),
         NEW actor, NEW action \in Decisions, NEW to \in StatusSet \ {"none"},
         actionLog'[i] = Append(actionLog[i], [action |-> action, step |-> k, actor |-> actor, to |-> to]),
         status'[i] = to, Steps(i)' = Steps(i), stepStatus'[i][k] = StatusOf(action),
         \A j \in Steps(i) \ {k} :
           /\ stepStatus[i][j] \in TerminalStatus => stepStatus'[i][j] = stepStatus[i][j]
           /\ stepStatus'[i][j] \in TerminalStatus => stepStatus[i][j] \in TerminalStatus
  PROVE  Accounts(i)'
<1> DEFINE log == actionLog[i]
           entry == [action |-> action, step |-> k, actor |-> actor, to |-> to]
<1>1. ChainInv /\ Accounts(i) /\ status[i] = "pending"
  BY CurrentIsPointer DEF LogInv
<1>2. log \in Seq(LogEntry)
  BY <1>1 DEF ChainInv, TypeOK
<1>3. /\ Len(log) \in Nat \ {0} /\ log[Len(log)].step < k
      /\ \A n \in 2..Len(log) : log[n].step # k
  BY LastLoggedBefore
<1>4. PICK m : m = Len(log)
  OBVIOUS
<1>5. /\ Len(log') = m + 1 /\ log'[m + 1] = entry
      /\ \A n \in 1..m : log'[n] = log[n]
  BY <1>2, <1>4
<1>6. log' # << >> /\ log'[1].step = 0 /\ log'[Len(log')].to = status'[i]
  <2>1. 1 \in 1..m
    BY <1>3, <1>4
  <2>2. log[1].step = 0
    BY <1>1 DEF Accounts
  <2> QED
    BY <1>3, <1>4, <1>5, <2>1, <2>2
<1>7. ASSUME NEW n \in 2..Len(log')
      PROVE  /\ log'[n].action \in Decisions /\ log'[n].step \in Steps(i)
             /\ stepStatus'[i][log'[n].step] = StatusOf(log'[n].action)
             /\ log'[n - 1].step < log'[n].step
  <2>1. CASE n = m + 1
    <3>1. log'[n] = entry /\ n - 1 = m /\ log'[m] = log[m]
      BY <1>3, <1>4, <1>5, <2>1
    <3> QED
      BY <1>3, <1>4, <3>1
  <2>2. CASE n \in 2..m
    <3>1. log'[n] = log[n] /\ log'[n - 1] = log[n - 1] /\ n \in 2..Len(log)
      BY <1>3, <1>4, <1>5, <2>2
    <3>2. /\ log[n].action \in Decisions /\ log[n].step \in Steps(i)
          /\ stepStatus[i][log[n].step] = StatusOf(log[n].action)
          /\ log[n - 1].step < log[n].step
      BY <1>1, <3>1 DEF Accounts
    <3>3. stepStatus'[i][log[n].step] = stepStatus[i][log[n].step]
      BY <1>3, <3>1, <3>2, StatusOfIsTerminal
    <3> QED
      BY <3>1, <3>2, <3>3
  <2>3. n \in 2..m \/ n = m + 1
    BY <1>3, <1>4, <1>5
  <2> QED
    BY <2>1, <2>2, <2>3
<1>8. ASSUME NEW j \in Steps(i), stepStatus'[i][j] \in TerminalStatus
      PROVE  \E n \in 2..Len(log') : log'[n].step = j
  <2>1. CASE j = k
    <3>1. m + 1 \in 2..Len(log') /\ log'[m + 1].step = k
      BY <1>3, <1>4, <1>5
    <3> QED
      BY <2>1, <3>1
  <2>2. CASE j # k
    <3>1. PICK n \in 2..Len(log) : log[n].step = j
      BY <1>1, <1>8, <2>2 DEF Accounts
    <3>2. n \in 2..Len(log') /\ log'[n] = log[n]
      BY <1>3, <1>4, <1>5
    <3> QED
      BY <3>1, <3>2
  <2> QED
    BY <2>1, <2>2
<1> QED
  BY <1>6, <1>7, <1>8 DEF Accounts

LEMMA LogInit == Init => LogInv
BY ChainInit DEF Init, LogInv, Accounts

LEMMA LogNext ==
  ASSUME LogInv, [Next]_workflowVars PROVE LogInv'
<1>0. ChainInv /\ TypeOK /\ \A i \in Instances : Accounts(i)
  BY DEF LogInv, ChainInv
<1>c. ChainInv'
  BY <1>0, ChainNext
<1>1. ASSUME NEW j \in Instances, status'[j] = status[j], stepStatus'[j] = stepStatus[j],
             actionLog'[j] = actionLog[j]
      PROVE  Accounts(j)'
  BY <1>0, <1>1 DEF Accounts, Steps
<1>2. CASE UNCHANGED workflowVars
  BY <1>1, <1>2, <1>c DEF workflowVars, LogInv
<1>3. ASSUME NEW i \in Instances, NEW actor \in Actors, NEW r \in Routes, Create(i, r, actor)
      PROVE  LogInv'
  <2>1. ASSUME NEW j \in Instances \ {i} PROVE Accounts(j)'
    BY <1>0, <1>1, <1>3 DEF Create, TypeOK
  <2>2. /\ status'[i] = "pending" /\ stepStatus'[i] = SeedStatus(r)
        /\ actionLog'[i] = Append(actionLog[i], [action |-> "submit", step |-> 0, actor |-> actor, to |-> "pending"])
    BY <1>0, <1>3 DEF Create, TypeOK
  <2>3. actionLog[i] = << >>
    BY <1>0, <1>3 DEF Create, Accounts
  <2>4. actionLog'[i] = << [action |-> "submit", step |-> 0, actor |-> actor, to |-> "pending"] >>
    BY <2>2, <2>3
  <2>5. \A k \in Steps(i)' : stepStatus'[i][k] \notin TerminalStatus
    BY <2>2 DEF SeedStatus, Steps, TerminalStatus
  <2>6. /\ Len(actionLog'[i]) = 1 /\ actionLog'[i] # << >>
        /\ actionLog'[i][1].step = 0 /\ actionLog'[i][1].to = "pending"
    BY <2>4
  <2>7. Accounts(i)'
    BY <2>2, <2>5, <2>6 DEF Accounts
  <2> QED
    BY <1>c, <2>1, <2>7 DEF LogInv
<1>4. ASSUME NEW i \in Instances, NEW actor \in Actors, NEW k \in Steps(i),
             ApproveLast(i, k, actor)
      PROVE  LogInv'
  <2>1. ASSUME NEW j \in Instances \ {i} PROVE Accounts(j)'
    BY <1>0, <1>1, <1>4 DEF ApproveLast, Logged, TypeOK
  <2>2. /\ IsCurrent(i, k) /\ status'[i] = "approved"
        /\ stepStatus'[i] = [stepStatus[i] EXCEPT ![k] = "approved"]
        /\ actionLog'[i] = Append(actionLog[i], [action |-> "approve", step |-> k, actor |-> actor, to |-> "approved"])
    BY <1>0, <1>4 DEF ApproveLast, Logged, TypeOK
  <2>3. "approved" \in StatusSet \ {"none"} /\ "approve" \in Decisions /\ StatusOf("approve") = "approved"
    BY DEF StatusSet, TerminalStatus, Decisions, StatusOf
  <2>4. /\ Steps(i)' = Steps(i) /\ stepStatus'[i][k] = "approved"
        /\ \A j \in Steps(i) \ {k} : stepStatus'[i][j] = stepStatus[i][j]
    BY <2>2 DEF Steps
  <2>5. /\ IsCurrent(i, k) /\ status'[i] = "approved" /\ Steps(i)' = Steps(i)
        /\ stepStatus'[i][k] = StatusOf("approve")
        /\ actionLog'[i] = Append(actionLog[i], [action |-> "approve", step |-> k, actor |-> actor, to |-> "approved"])
        /\ \A j \in Steps(i) \ {k} : stepStatus'[i][j] = stepStatus[i][j]
    BY <2>2, <2>3, <2>4
  <2>6. Accounts(i)'
    BY <2>3, <2>5, DecisionAccounted
  <2> QED
    BY <1>c, <2>1, <2>6 DEF LogInv
<1>5. ASSUME NEW i \in Instances, NEW actor \in Actors, NEW k \in Steps(i), NEW n \in Steps(i),
             ApproveStep(i, k, n, actor)
      PROVE  LogInv'
  <2>1. ASSUME NEW j \in Instances \ {i} PROVE Accounts(j)'
    BY <1>0, <1>1, <1>5 DEF ApproveStep, Logged, TypeOK
  <2>2. /\ IsCurrent(i, k) /\ status'[i] = "pending"
        /\ stepStatus'[i] = [stepStatus[i] EXCEPT ![k] = "approved", ![n] = "pending"]
        /\ actionLog'[i] = Append(actionLog[i], [action |-> "approve", step |-> k, actor |-> actor, to |-> "pending"])
    BY <1>0, <1>5 DEF ApproveStep, Logged, TypeOK
  <2>3. "pending" \in StatusSet \ {"none"} /\ "approve" \in Decisions /\ StatusOf("approve") = "approved"
    BY DEF StatusSet, TerminalStatus, Decisions, StatusOf
  <2>4. n > k /\ n \in Nat /\ k \in Nat
    BY <1>0, <1>5, StepOrders DEF ApproveStep, IsNext, StepsAfter
  <2>5. stepStatus[i][n] = "draft"
    BY <1>0, <2>2, <2>4, CurrentIsPointer, PendingShape
  <2>6. /\ Steps(i)' = Steps(i) /\ stepStatus'[i][k] = "approved" /\ stepStatus'[i][n] = "pending"
        /\ \A j \in Steps(i) \ {k, n} : stepStatus'[i][j] = stepStatus[i][j]
    BY <2>2, <2>4 DEF Steps
  <2>7. "draft" \notin TerminalStatus /\ "pending" \notin TerminalStatus
    BY DEF TerminalStatus
  <2>8. ASSUME NEW j \in Steps(i) \ {k}
        PROVE  /\ stepStatus[i][j] \in TerminalStatus => stepStatus'[i][j] = stepStatus[i][j]
               /\ stepStatus'[i][j] \in TerminalStatus => stepStatus[i][j] \in TerminalStatus
    BY <2>5, <2>6, <2>7
  <2>9. /\ IsCurrent(i, k) /\ status'[i] = "pending" /\ Steps(i)' = Steps(i)
        /\ stepStatus'[i][k] = StatusOf("approve")
        /\ actionLog'[i] = Append(actionLog[i], [action |-> "approve", step |-> k, actor |-> actor, to |-> "pending"])
    BY <2>2, <2>3, <2>6
  <2>10. Accounts(i)'
    BY <2>3, <2>8, <2>9, DecisionAccounted
  <2> QED
    BY <1>c, <2>1, <2>10 DEF LogInv
<1>6. ASSUME NEW i \in Instances, NEW actor \in Actors, NEW action \in Decisions \ {"approve"},
             NEW k \in Steps(i), Close(i, k, actor, action)
      PROVE  LogInv'
  <2>1. ASSUME NEW j \in Instances \ {i} PROVE Accounts(j)'
    BY <1>0, <1>1, <1>6 DEF Close, Logged, TypeOK
  <2>2. /\ IsCurrent(i, k) /\ status'[i] = StatusOf(action)
        /\ stepStatus'[i] = [stepStatus[i] EXCEPT ![k] = StatusOf(action)]
        /\ actionLog'[i] = Append(actionLog[i], [action |-> action, step |-> k, actor |-> actor, to |-> StatusOf(action)])
    BY <1>0, <1>6 DEF Close, Logged, TypeOK
  <2>3. StatusOf(action) \in StatusSet \ {"none"}
    BY StatusOfIsTerminal DEF StatusSet, TerminalStatus
  <2>4. /\ Steps(i)' = Steps(i) /\ stepStatus'[i][k] = StatusOf(action)
        /\ \A j \in Steps(i) \ {k} : stepStatus'[i][j] = stepStatus[i][j]
    BY <2>2 DEF Steps
  <2>5. Accounts(i)'
    BY <2>2, <2>3, <2>4, DecisionAccounted
  <2> QED
    BY <1>c, <2>1, <2>5 DEF LogInv
<1> QED
  BY <1>2, <1>3, <1>4, <1>5, <1>6 DEF Next, Resolve, Decisions

\* The audit trail always tells which steps were decided, and how.
THEOREM WorkflowLogAccounts == Spec => []LogAccountsForDecisions
<1>1. LogInv /\ [Next]_workflowVars => LogInv'
  BY LogNext
<1>2. LogInv => LogAccountsForDecisions
  BY DEF LogInv, Accounts, LogAccountsForDecisions
<1> QED
  BY LogInit, <1>1, <1>2, PTL DEF Spec
-----------------------------------------------------------------------------
(* Refinement: the abstract state is a function of the step rows.            *)

Outcome == [i \in Instances |-> IF status[i] = "pending" THEN "open" ELSE status[i]]
Required == [i \in Instances |-> Steps(i)]
Granted == [i \in Instances |-> {k \in Steps(i) : stepStatus[i][k] = "approved"}]

LEMMA RefinesInit == Init => chain!Init
BY DEF Init, chain!Init, Steps, NoSteps

LEMMA RefinesNext ==
  ASSUME ChainInv, [Next]_workflowVars
  PROVE  [chain!Next]_(chain!chainVars)
<1>0. ChainInv'
  BY ChainNext
<1>1. CASE UNCHANGED workflowVars
  BY <1>1 DEF workflowVars, chain!chainVars, Steps
<1>2. ASSUME NEW i \in Instances, NEW actor \in Actors, NEW r \in Routes,
             Create(i, r, actor)
      PROVE  chain!Next
  <2>1. /\ status[i] = "none" /\ Steps(i) = {}
        /\ status' = [status EXCEPT ![i] = "pending"]
        /\ stepStatus' = [stepStatus EXCEPT ![i] = SeedStatus(r)]
    BY <1>2 DEF Create, ChainInv, AbsentHasNoSteps
  <2>2. \A j \in Instances : /\ j # i => status'[j] = status[j] /\ stepStatus'[j] = stepStatus[j]
                             /\ j = i => status'[j] = "pending" /\ stepStatus'[j] = SeedStatus(r)
    BY <2>1 DEF ChainInv, TypeOK
  <2>3. Outcome[i] = "none" /\ Outcome' = [Outcome EXCEPT ![i] = "open"]
    BY <2>1, <2>2 DEF Outcome
  <2>4. Required' = [Required EXCEPT ![i] = DOMAIN r]
    BY <2>2 DEF Required, Steps, SeedStatus
  <2>5. Granted' = Granted
    BY <2>1, <2>2 DEF Granted, Steps, SeedStatus
  <2>6. chain!Start(i, DOMAIN r)
    BY <2>3, <2>4, <2>5 DEF chain!Start, Outcome, Required, Granted
  <2> QED
    BY <2>6 DEF chain!Next
<1>3. ASSUME NEW i \in Instances, NEW actor \in Actors, NEW k \in Steps(i),
             \/ ApproveLast(i, k, actor)
             \/ \E n \in Steps(i) : ApproveStep(i, k, n, actor)
      PROVE  chain!Next
  <2>1. status[i] = "pending" /\ k = currentStepOrder[i] /\ 1 \in Steps(i)
    BY <1>3, CurrentIsPointer DEF ApproveLast, ApproveStep
  <2>2. \A j \in Instances \ {i} : status'[j] = status[j] /\ stepStatus'[j] = stepStatus[j]
    BY <1>3 DEF ApproveLast, ApproveStep, ChainInv, TypeOK
  <2>3. /\ Steps(i)' = Steps(i)
        /\ {j \in Steps(i) : stepStatus'[i][j] = "approved"}
             = {j \in Steps(i) : stepStatus[i][j] = "approved"} \cup {k}
    <3>1. CASE ApproveLast(i, k, actor)
      BY <3>1 DEF ApproveLast, ChainInv, TypeOK, Steps
    <3>2. ASSUME NEW n \in Steps(i), ApproveStep(i, k, n, actor)
          PROVE  <2>3!1 /\ <2>3!2
      <4>1. n > k /\ n \in Nat /\ k \in Nat
        BY <3>2, StepOrders DEF ApproveStep, IsNext, StepsAfter, ChainInv
      <4>2. stepStatus[i][n] = "draft"
        BY <2>1, <4>1, PendingShape
      <4>3. stepStatus'[i] = [stepStatus[i] EXCEPT ![k] = "approved", ![n] = "pending"]
        BY <3>2 DEF ApproveStep, ChainInv, TypeOK
      <4> QED
        BY <4>1, <4>2, <4>3 DEF ChainInv, TypeOK, Steps
    <3> QED
      BY <1>3, <3>1, <3>2
  <2>4. Granted' = [Granted EXCEPT ![i] = @ \cup {k}] /\ Required' = Required
    BY <2>2, <2>3 DEF Granted, Required, Steps
  <2> DEFINE Miss == Steps(i) \ {j \in Steps(i) : stepStatus[i][j] = "approved"}
  <2>5. /\ k \in Miss
        /\ \A j \in Miss : k <= j
    BY <2>1, PendingShape
  <2>6. status'[i] = IF Miss = {k} THEN "approved" ELSE "pending"
    <3>1. CASE ApproveLast(i, k, actor)
      <4>1. \A j \in Steps(i) : j \in Nat /\ k \in Nat /\ j <= k
        BY <3>1, StepOrders DEF ApproveLast, StepsAfter, ChainInv
      <4>2. Miss = {k}
        BY <2>1, <2>5, <4>1, PendingShape
      <4> QED
        BY <3>1, <4>2 DEF ApproveLast, ChainInv, TypeOK
    <3>2. ASSUME NEW n \in Steps(i), ApproveStep(i, k, n, actor)
          PROVE  status'[i] = IF Miss = {k} THEN "approved" ELSE "pending"
      <4>1. n > k /\ n \in Nat /\ k \in Nat
        BY <3>2, StepOrders DEF ApproveStep, IsNext, StepsAfter, ChainInv
      <4>2. n \in Miss /\ n # k
        BY <2>1, <4>1, PendingShape
      <4> QED
        BY <3>2, <4>2 DEF ApproveStep, ChainInv, TypeOK
    <3> QED
      BY <1>3, <3>1, <3>2
  <2>7. Outcome[i] = "open" /\ Outcome' = [Outcome EXCEPT ![i] = IF Miss = {k} THEN "approved" ELSE "open"]
    BY <2>1, <2>2, <2>6 DEF Outcome
  <2>8. Required[i] = Steps(i) /\ Granted[i] = {j \in Steps(i) : stepStatus[i][j] = "approved"}
    BY DEF Required, Granted
  <2>9. chain!Grant(i, k)
    BY <2>4, <2>5, <2>7, <2>8 DEF chain!Grant, chain!Missing, Outcome, Required, Granted
  <2> QED
    BY <2>8, <2>9 DEF chain!Next, Required
<1>4. ASSUME NEW i \in Instances, NEW actor \in Actors, NEW action \in Decisions \ {"approve"},
             NEW k \in Steps(i), Close(i, k, actor, action)
      PROVE  chain!Next
  <2>1. status[i] = "pending" /\ k = currentStepOrder[i] /\ stepStatus[i][k] = "pending" /\ 1 \in Steps(i)
    BY <1>4, CurrentIsPointer DEF Close, IsCurrent, OpenSteps
  <2>2. StatusOf(action) \in {"rejected", "cancelled"}
    BY DEF StatusOf, Decisions
  <2>3. /\ \A j \in Instances \ {i} : status'[j] = status[j] /\ stepStatus'[j] = stepStatus[j]
        /\ status'[i] = StatusOf(action)
        /\ stepStatus'[i] = [stepStatus[i] EXCEPT ![k] = StatusOf(action)]
    BY <1>4 DEF Close, ChainInv, TypeOK
  <2>4. Outcome[i] = "open" /\ Outcome' = [Outcome EXCEPT ![i] = StatusOf(action)]
    BY <2>1, <2>2, <2>3 DEF Outcome
  <2>5. Required' = Required
    BY <2>3 DEF Required, Steps
  <2>6. {j \in Steps(i)' : stepStatus'[i][j] = "approved"} = {j \in Steps(i) : stepStatus[i][j] = "approved"}
    BY <2>1, <2>2, <2>3 DEF Steps
  <2>7. Granted' = Granted
    BY <2>3, <2>6 DEF Granted, Steps
  <2>8. chain!Refuse(i, StatusOf(action))
    BY <2>4, <2>5, <2>7 DEF chain!Refuse, Outcome, Required, Granted
  <2> QED
    BY <2>2, <2>8 DEF chain!Next, chain!Refusals
<1> QED
  BY <1>1, <1>2, <1>3, <1>4 DEF Next, Resolve, Decisions

\* The engine implements the abstract approval chain.
THEOREM WorkflowRefinement == Spec => ImplementsApprovalChain
<1>1. ChainInv /\ [Next]_workflowVars => ChainInv'
  BY ChainNext
<1>2. ChainInv /\ [Next]_workflowVars => [chain!Next]_(chain!chainVars)
  BY RefinesNext
<1> QED
  BY ChainInit, RefinesInit, <1>1, <1>2, PTL DEF Spec, ImplementsApprovalChain, chain!Spec
=============================================================================
