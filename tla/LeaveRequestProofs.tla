------------------------- MODULE LeaveRequestProofs -------------------------
(***************************************************************************)
(* Proofs about leave requests and their balance, for any finite set of    *)
(* requests, any units, entitlements, routes and number of callers.        *)
(***************************************************************************)
EXTENDS LeaveRequest, FiniteSetTheorems, TLAPS

\* The workflow engine's lemmas, for the workflows of leave requests.
engine == INSTANCE WorkflowInstanceProofs WITH
  Instances <- Workflows, Actors <- Approvers \cup HrAdmins \cup {System, Employee},
  Routes <- LeaveRoutes \cup CancelRoutes,
  status <- wfStatus, currentStepOrder <- wfOrder, route <- wfRoute,
  stepStatus <- wfSteps, actionLog <- wfLog

-----------------------------------------------------------------------------
(* Sums of units.                                                          *)

LEMMA UnitsFinite == ASSUME NEW S \in SUBSET Requests PROVE IsFiniteSet(UnitsOf(S))
<1> DEFINE rows == {{r} \X (1..Units[r]) : r \in S}
           rowOf == [r \in S |-> {r} \X (1..Units[r])]
<1>1. IsFiniteSet(S)
  BY LeaveAssumption, FS_Subset
<1>2. IsFiniteSet(rows)
  <2>1. rowOf \in Surjection(S, rows)
    BY DEF Surjection
  <2> QED
    BY <1>1, <2>1, FS_Surjection
<1>3. ASSUME NEW r \in S PROVE IsFiniteSet({r} \X (1..Units[r]))
  <2>1. 1 \in Int /\ Units[r] \in Int
    BY LeaveAssumption
  <2> QED
    BY <2>1, FS_Interval, FS_Singleton, FS_Product
<1>4. \A row \in rows : IsFiniteSet(row)
  BY <1>3
<1> QED
  BY <1>2, <1>4, FS_UNION DEF UnitsOf

LEMMA TotalIsNat == ASSUME NEW S \in SUBSET Requests PROVE TotalUnits(S) \in Nat
BY UnitsFinite, FS_CardinalityType DEF TotalUnits

LEMMA TotalOfNone == TotalUnits({}) = 0
<1>1. UnitsOf({}) = {}
  BY DEF UnitsOf
<1> QED
  BY <1>1, FS_EmptySet DEF TotalUnits

LEMMA RowSize ==
  ASSUME NEW r, NEW S, IsFiniteSet(S)
  PROVE  IsFiniteSet({r} \X S) /\ Cardinality({r} \X S) = Cardinality(S)
<1>1. IsFiniteSet({r}) /\ Cardinality({r}) = 1
  BY FS_Singleton
<1>2. IsFiniteSet({r} \X S) /\ Cardinality({r} \X S) = Cardinality({r}) * Cardinality(S)
  BY <1>1, FS_Product
<1>3. Cardinality(S) \in Nat
  BY FS_CardinalityType
<1> QED
  BY <1>1, <1>2, <1>3

LEMMA TotalWith ==
  ASSUME NEW S \in SUBSET Requests, NEW r \in Requests \ S
  PROVE  TotalUnits(S \cup {r}) = TotalUnits(S) + Units[r]
<1> DEFINE row == {r} \X (1..Units[r])
<1>1. UnitsOf(S \cup {r}) = UnitsOf(S) \cup row
  BY DEF UnitsOf
<1>2. UnitsOf(S) \cap row = {}
  BY DEF UnitsOf
<1>3. IsFiniteSet(row) /\ Cardinality(row) = Units[r]
  <2>1. 1 \in Int /\ Units[r] \in Int /\ Units[r] >= 1
    BY LeaveAssumption
  <2>2. IsFiniteSet(1..Units[r]) /\ Cardinality(1..Units[r]) = Units[r]
    BY <2>1, FS_Interval
  <2> QED
    BY <2>2, RowSize
<1>4. IsFiniteSet(UnitsOf(S)) /\ Cardinality(UnitsOf(S)) \in Nat
  BY UnitsFinite, FS_CardinalityType
<1>5. Cardinality(UnitsOf(S) \cup row)
        = Cardinality(UnitsOf(S)) + Cardinality(row) - Cardinality(UnitsOf(S) \cap row)
  BY <1>3, <1>4, FS_Union
<1>6. Cardinality(UnitsOf(S) \cap row) = 0
  BY <1>2, FS_EmptySet
<1>7. Units[r] \in Nat
  BY LeaveAssumption
<1>8. Cardinality(UnitsOf(S) \cup row) = Cardinality(UnitsOf(S)) + Units[r]
  <2> HIDE DEF row
  <2> QED
    BY ONLY <1>3, <1>4, <1>5, <1>6, <1>7
<1> QED
  BY <1>1, <1>8 DEF TotalUnits

LEMMA TotalWithout ==
  ASSUME NEW S \in SUBSET Requests, NEW r \in S
  PROVE  TotalUnits(S) = TotalUnits(S \ {r}) + Units[r]
<1>1. S \ {r} \in SUBSET Requests /\ r \in Requests \ (S \ {r}) /\ (S \ {r}) \cup {r} = S
  OBVIOUS
<1> QED
  BY <1>1, TotalWith

-----------------------------------------------------------------------------
(* The engine's operators are those that LeaveRequest uses.                *)

LEMMA EngineAssumption == engine!RoutesAssumption
BY LeaveAssumption DEF engine!RoutesAssumption

LEMMA EngineInit == wf!Init => engine!Init
BY DEF wf!Init, engine!Init, wf!NoSteps, engine!NoSteps

LEMMA EngineTypeOK == wf!TypeOK <=> engine!TypeOK
BY DEF wf!TypeOK, engine!TypeOK, wf!NoSteps, engine!NoSteps, wf!StatusSet, engine!StatusSet,
       wf!StepStatusSet, engine!StepStatusSet, wf!TerminalStatus, engine!TerminalStatus,
       wf!LogEntry, engine!LogEntry, wf!Decisions, engine!Decisions

LEMMA EngineCreate ==
  ASSUME NEW i, NEW path, wf!Create(i, path, Employee) PROVE engine!Create(i, path, Employee)
BY DEF wf!Create, engine!Create, wf!SeedStatus, engine!SeedStatus

LEMMA EngineResolve ==
  ASSUME NEW i, NEW actor, NEW action, wf!Resolve(i, actor, action)
  PROVE  engine!Resolve(i, actor, action)
BY DEF wf!Resolve, engine!Resolve, wf!ApproveLast, engine!ApproveLast, wf!ApproveStep,
       engine!ApproveStep, wf!Close, engine!Close, wf!Logged, engine!Logged, wf!IsCurrent,
       engine!IsCurrent, wf!IsNext, engine!IsNext, wf!StepsAfter, engine!StepsAfter,
       wf!OpenSteps, engine!OpenSteps, wf!Steps, engine!Steps, wf!StatusOf, engine!StatusOf

-----------------------------------------------------------------------------
(* Every step leaves requests, amounts and workflows alone, or is one of    *)
(* the service calls.                                                       *)

Quiet == UNCHANGED <<request, reserved, consumed, workflowVars>>

\* A decision of request r, by a session or by a timer.
Decision(r) == \E actor \in Approvers \cup HrAdmins \cup {System}, b \in BOOLEAN : Decide(r, actor, b)

\* A session or a timer that ends in this step.
ByCaller == (\E s \in Sessions : CloseSession(s)) \/ (\E t \in Timers : AutoApprove(t))

LEMMA StepKinds ==
  ASSUME TypeOK, [Next]_leaveVars
  PROVE  \/ Quiet
         \/ \E s \in Submitters, path \in LeaveRoutes : Submit(s, path)
         \/ \E r \in Requests : Decision(r) /\ ByCaller
         \/ \E r \in Requests : Withdraw(r) \/ CancelDirectly(r)
         \/ \E r \in Requests, path \in CancelRoutes : RequestCancellation(r, path)
<1>1. ASSUME NEW s \in Sessions, CloseSession(s)
      PROVE  \E r \in Requests : Decision(r) /\ ByCaller
  <2>1. session[s].request \in Requests
    BY <1>1 DEF CloseSession, TypeOK
  <2>2. session[s].actor \in Approvers \cup HrAdmins \cup {System} /\ session[s].approve \in BOOLEAN
    BY DEF TypeOK
  <2> QED
    BY <1>1, <2>1, <2>2 DEF CloseSession, Decision, ByCaller
<1>2. ASSUME NEW t \in Timers, AutoApprove(t)
      PROVE  \E r \in Requests : Decision(r) /\ ByCaller
  <2>1. timer[t] \in Requests
    BY <1>2 DEF AutoApprove, TypeOK
  <2> QED
    BY <1>2, <2>1 DEF AutoApprove, Decision, ByCaller
<1>3. CASE UNCHANGED leaveVars
  BY <1>3 DEF leaveVars, balanceVars, Quiet
<1>4. ASSUME NEW v \in Viewers, StoreView(v) \/ \E r \in Requests : ViewBalance(v, r) PROVE Quiet
  BY <1>4 DEF ViewBalance, StoreView, balanceVars, Quiet
<1>5. ASSUME NEW s \in Submitters, SubmitFails(s) \/ \E r \in Requests : Validate(s, r) PROVE Quiet
  BY <1>5 DEF SubmitFails, Validate, balanceVars, Quiet
<1>6. ASSUME NEW s \in Sessions,
             \/ SessionRefused(s)
             \/ \E a \in Approvers \cup HrAdmins, r \in Requests, b \in BOOLEAN : OpenSession(s, a, r, b)
      PROVE  Quiet
  BY <1>6 DEF SessionRefused, OpenSession, balanceVars, Quiet
<1>7. ASSUME NEW t \in Timers, SkipCandidate(t) \/ \E r \in Requests : SelectCandidate(t, r) PROVE Quiet
  BY <1>7 DEF SkipCandidate, SelectCandidate, balanceVars, Quiet
<1>8. ASSUME NEW r \in Requests, DeadlinePasses(r) PROVE Quiet
  BY <1>8 DEF DeadlinePasses, balanceVars, Quiet
<1> QED
  BY <1>1, <1>2, <1>3, <1>4, <1>5, <1>6, <1>7, <1>8 DEF Next
-----------------------------------------------------------------------------
(* Types.                                                                  *)

LEMMA WorkflowOfIsWorkflow ==
  ASSUME TypeOK, NEW r \in Requests, Decidable(r) PROVE WorkflowOf(r) \in Workflows
<1>1. request[r].workflow \in 0..MaxWorkflows /\ request[r].workflow # 0
  BY DEF TypeOK, Decidable
<1> QED
  BY <1>1, LeaveAssumption DEF WorkflowOf, Workflows

\* A decision is a step of the engine on the request's latest workflow.
LEMMA DecisionIsEngineStep ==
  ASSUME TypeOK, NEW r \in Requests, Decision(r)
  PROVE  engine!Next
<1>1. PICK actor \in Approvers \cup HrAdmins \cup {System}, b \in BOOLEAN : Decide(r, actor, b)
  BY DEF Decision
<1>2. WorkflowOf(r) \in Workflows
  BY <1>1, WorkflowOfIsWorkflow DEF Decide
<1>3. engine!Resolve(WorkflowOf(r), actor, IF b THEN "approve" ELSE "reject")
  BY <1>1, EngineResolve DEF Decide
<1>4. (IF b THEN "approve" ELSE "reject") \in engine!Decisions
  BY DEF engine!Decisions
<1> QED
  BY <1>1, <1>2, <1>3, <1>4 DEF engine!Next

LEMMA EngineStep ==
  ASSUME TypeOK, [Next]_leaveVars PROVE [engine!Next]_(engine!workflowVars)
<1>1. ASSUME Quiet \/ \E r \in Requests : Withdraw(r) \/ CancelDirectly(r)
      PROVE  UNCHANGED engine!workflowVars
  BY <1>1 DEF Quiet, Withdraw, CancelDirectly, workflowVars, engine!workflowVars
<1>2. ASSUME NEW s \in Submitters, NEW path \in LeaveRoutes, Submit(s, path) PROVE engine!Next
  <2>1. <<submitter[s], 1>> \in Workflows
    BY <1>2, LeaveAssumption DEF Submit, TypeOK, Workflows
  <2>2. engine!Create(<<submitter[s], 1>>, path, Employee)
    BY <1>2, EngineCreate DEF Submit
  <2> QED
    BY <2>1, <2>2 DEF engine!Next
<1>3. ASSUME NEW r \in Requests, NEW path \in CancelRoutes, RequestCancellation(r, path)
      PROVE  engine!Next
  <2>1. <<r, request[r].workflow + 1>> \in Workflows
    BY <1>3, LeaveAssumption DEF RequestCancellation, TypeOK, Workflows
  <2>2. engine!Create(<<r, request[r].workflow + 1>>, path, Employee)
    BY <1>3, EngineCreate DEF RequestCancellation
  <2> QED
    BY <2>1, <2>2 DEF engine!Next
<1> QED
  BY <1>1, <1>2, <1>3, StepKinds, DecisionIsEngineStep

LEMMA EngineTypeOKNext == wf!TypeOK' <=> engine!TypeOK'
BY EngineTypeOK, PTL

RequestRow == [status : {"none", "withdrawn", "rejected", "cancelled"} \cup Active,
               action : {"leave_request", "cancellation_request"}, workflow : 0..MaxWorkflows,
               direct : BOOLEAN]

SessionRow == [actor : Approvers \cup HrAdmins \cup {System}, request : Requests \cup {NoRequest},
               approve : BOOLEAN, seen : 0..MaxWorkflows, step : Nat]

LEMMA TypeInit == Init => TypeOK
<1> SUFFICES ASSUME Init PROVE TypeOK
  OBVIOUS
<1>1. wf!TypeOK
  BY EngineAssumption, EngineInit, EngineTypeOK, engine!TypeInit DEF Init
<1>2. request \in [Requests -> RequestRow]
  BY LeaveAssumption DEF Init, NewRequest, RequestRow
<1>3. session \in [Sessions -> SessionRow]
  BY LeaveAssumption DEF Init, NoDecision, SessionRow
<1> QED
  BY <1>1, <1>2, <1>3, LeaveAssumption DEF Init, TypeOK, RequestRow, SessionRow, NoBalance

LEMMA AmountsAreNat ==
  ASSUME TypeOK, NEW r \in Requests
  PROVE  /\ Units[r] \in Nat \ {0} /\ Entitlement[r] \in Nat
         /\ AtLeastZero(reserved - Units[r]) \in Nat /\ AtLeastZero(consumed - Units[r]) \in Nat
BY LeaveAssumption DEF TypeOK, AtLeastZero

LEMMA RequestType ==
  ASSUME TypeOK, [Next]_leaveVars PROVE request' \in [Requests -> RequestRow]
<1>0. request \in [Requests -> RequestRow]
  BY DEF TypeOK, RequestRow
<1>1. CASE Quiet
  BY <1>0, <1>1 DEF Quiet
<1>2. ASSUME NEW s \in Submitters, NEW path \in LeaveRoutes, Submit(s, path)
      PROVE  request' \in [Requests -> RequestRow]
  <2>1. submitter[s] \in Requests
    BY <1>2 DEF Submit, TypeOK
  <2>2. request' = [request EXCEPT ![submitter[s]] = [@ EXCEPT !.status = "pending", !.workflow = 1]]
    BY <1>2 DEF Submit
  <2>3. 1 \in 0..MaxWorkflows
    BY LeaveAssumption
  <2>4. [request[submitter[s]] EXCEPT !.status = "pending", !.workflow = 1] \in RequestRow
    BY <1>0, <2>1, <2>3 DEF RequestRow, Active, Waiting
  <2> QED
    BY <1>0, <2>1, <2>2, <2>4
<1>3. ASSUME NEW r \in Requests, Decision(r)
      PROVE  request' \in [Requests -> RequestRow]
  <2> DEFINE closed == {"partially_approved", "approved", "rejected"}
  <2>1. \/ \E new \in closed : request' = [request EXCEPT ![r].status = new]
        \/ \E new \in {"approved", "cancelled"} :
             request' = [request EXCEPT ![r] = [@ EXCEPT !.status = new, !.action = "leave_request"]]
    BY <1>3 DEF Decision, Decide, Advance, ApproveLeave, RejectLeave, ApproveCancellation, RejectCancellation
  <2>2. CASE \E new \in closed : request' = [request EXCEPT ![r].status = new]
    <3>1. PICK new \in closed : request' = [request EXCEPT ![r] = [request[r] EXCEPT !.status = new]]
      BY <2>2
    <3>2. [request[r] EXCEPT !.status = new] \in RequestRow
      BY <1>0 DEF RequestRow, Active, Waiting
    <3> QED
      BY <1>0, <3>1, <3>2
  <2>3. CASE \E new \in {"approved", "cancelled"} :
               request' = [request EXCEPT ![r] = [@ EXCEPT !.status = new, !.action = "leave_request"]]
    <3>1. PICK new \in {"approved", "cancelled"} :
            request' = [request EXCEPT ![r] = [request[r] EXCEPT !.status = new, !.action = "leave_request"]]
      BY <2>3
    <3>2. [request[r] EXCEPT !.status = new, !.action = "leave_request"] \in RequestRow
      BY <1>0 DEF RequestRow, Active, Waiting
    <3> QED
      BY <1>0, <3>1, <3>2
  <2> QED
    BY <2>1, <2>2, <2>3
<1>4. ASSUME NEW r \in Requests, Withdraw(r) \/ CancelDirectly(r)
      PROVE  request' \in [Requests -> RequestRow]
  <2>1. CASE Withdraw(r)
    BY <1>0, <2>1 DEF Withdraw, RequestRow, Active, Waiting
  <2>2. CASE CancelDirectly(r)
    <3>1. [request[r] EXCEPT !.status = "cancelled", !.direct = TRUE] \in RequestRow
      BY <1>0 DEF RequestRow, Active, Waiting
    <3> QED
      BY <1>0, <2>2, <3>1 DEF CancelDirectly
  <2> QED
    BY <1>4, <2>1, <2>2
<1>5. ASSUME NEW r \in Requests, NEW path \in CancelRoutes, RequestCancellation(r, path)
      PROVE  request' \in [Requests -> RequestRow]
  <2>1. request[r].workflow + 1 \in 0..MaxWorkflows
    BY <1>0, <1>5, LeaveAssumption DEF RequestCancellation, RequestRow
  <2> QED
    BY <1>0, <1>5, <2>1 DEF RequestCancellation, RequestRow, Active, Waiting
<1> QED
  BY <1>1, <1>2, <1>3, <1>4, <1>5, StepKinds

LEMMA AmountsType ==
  ASSUME TypeOK, [Next]_leaveVars PROVE reserved' \in Nat /\ consumed' \in Nat
<1>1. CASE Quiet
  BY <1>1 DEF Quiet, TypeOK
<1>2. ASSUME NEW s \in Submitters, NEW path \in LeaveRoutes, Submit(s, path)
      PROVE  reserved' \in Nat /\ consumed' \in Nat
  <2>1. submitter[s] \in Requests
    BY <1>2 DEF Submit, TypeOK
  <2>2. reserved' = reserved + Units[submitter[s]] /\ consumed' = consumed
    BY <1>2 DEF Submit, ReserveUnits, SetBalance
  <2> QED
    BY <2>1, <2>2, AmountsAreNat DEF TypeOK
<1>3. ASSUME NEW r \in Requests,
             \/ Decision(r) \/ Withdraw(r) \/ CancelDirectly(r)
             \/ \E path \in CancelRoutes : RequestCancellation(r, path)
      PROVE  reserved' \in Nat /\ consumed' \in Nat
  <2>1. \/ UNCHANGED balanceVars
        \/ ConsumeUnits(r) \/ ReleaseUnits(r) \/ ReturnUnits(r)
    BY <1>3 DEF Decision, Decide, Advance, ApproveLeave, RejectLeave, ApproveCancellation,
                RejectCancellation, Withdraw, CancelDirectly, RequestCancellation
  <2> QED
    BY <2>1, AmountsAreNat DEF balanceVars, ConsumeUnits, ReleaseUnits, ReturnUnits, SetBalance, TypeOK
<1> QED
  BY <1>1, <1>2, <1>3, StepKinds

\* The callers' records, the stored closing balance and the workflow marks.
CallersOK ==
  /\ closing \in Int
  /\ overdue \subseteq Workflows /\ stale \subseteq Workflows
  /\ submitter \in [Submitters -> Requests \cup {NoRequest}]
  /\ session \in [Sessions -> SessionRow]
  /\ timer \in [Timers -> Requests \cup {NoRequest}]
  /\ viewer \in [Viewers -> Int]

LEMMA CallersType == ASSUME TypeOK, [Next]_leaveVars PROVE CallersOK'
<1>0. CallersOK
  BY DEF TypeOK, CallersOK, SessionRow
<1>1. ASSUME NEW r \in Requests,
             SetBalance(r, reserved', consumed') \/ UNCHANGED balanceVars
      PROVE  closing' \in Int
  BY <1>0, <1>1, AmountsType, AmountsAreNat DEF SetBalance, CallersOK, balanceVars
<1>2. CASE UNCHANGED leaveVars
  BY <1>0, <1>2 DEF leaveVars, balanceVars, callerVars, CallersOK
<1>3. ASSUME NEW v \in Viewers, StoreView(v) \/ \E r \in Requests : ViewBalance(v, r) PROVE CallersOK'
  <2>1. \A r \in Requests : Available(r) \in Int
    BY AmountsAreNat DEF TypeOK, Available
  <2> QED
    BY <1>0, <1>3, <2>1 DEF ViewBalance, StoreView, NoBalance, CallersOK, balanceVars
<1>4. ASSUME NEW s \in Submitters, SubmitFails(s) \/ \E r \in Requests : Validate(s, r) PROVE CallersOK'
  BY <1>0, <1>4 DEF SubmitFails, Validate, CallersOK, balanceVars
<1>5. ASSUME NEW s \in Submitters, NEW path \in LeaveRoutes, Submit(s, path) PROVE CallersOK'
  <2>1. submitter[s] \in Requests
    BY <1>5 DEF Submit, TypeOK
  <2>2. SetBalance(submitter[s], reserved', consumed')
    BY <1>5 DEF Submit, ReserveUnits, SetBalance
  <2> QED
    BY <1>0, <1>1, <1>5, <2>1, <2>2 DEF Submit, CallersOK
<1>6. ASSUME NEW s \in Sessions, NEW a \in Approvers \cup HrAdmins, NEW r \in Requests,
             NEW b \in BOOLEAN, OpenSession(s, a, r, b)
      PROVE  CallersOK'
  <2>1. request[r].workflow \in 1..MaxWorkflows
    BY <1>6, LeaveAssumption DEF OpenSession, TypeOK
  <2>2. WorkflowOf(r) \in Workflows
    BY <2>1 DEF WorkflowOf, Workflows
  <2>3. wfOrder[WorkflowOf(r)] \in Nat
    BY <2>2 DEF TypeOK, wf!TypeOK
  <2>4. session' \in [Sessions -> SessionRow]
    BY <1>0, <1>6, <2>1, <2>3, LeaveAssumption DEF OpenSession, CallersOK, SessionRow
  <2> QED
    BY <1>0, <1>6, <2>4 DEF OpenSession, CallersOK, balanceVars
<1>7. NoDecision \in SessionRow
  BY LeaveAssumption DEF NoDecision, SessionRow
<1>8. ASSUME NEW s \in Sessions, SessionRefused(s) PROVE CallersOK'
  BY <1>0, <1>7, <1>8 DEF SessionRefused, CallersOK, balanceVars
<1>9. ASSUME NEW r \in Requests, Decision(r)
      PROVE  closing' \in Int /\ overdue' \subseteq Workflows
  <2>1. UNCHANGED balanceVars \/ SetBalance(r, reserved', consumed')
    BY <1>9 DEF Decision, Decide, Advance, ApproveLeave, RejectLeave, ApproveCancellation,
                RejectCancellation, ConsumeUnits, ReleaseUnits, ReturnUnits, SetBalance
  <2> QED
    BY <1>0, <1>1, <1>9, <2>1 DEF Decision, Decide, CallersOK
<1>10. ASSUME NEW s \in Sessions, CloseSession(s) PROVE CallersOK'
  <2>1. session[s].request \in Requests
    BY <1>10 DEF CloseSession, TypeOK
  <2>2. Decision(session[s].request) /\ Decidable(session[s].request)
    BY <1>10 DEF CloseSession, TypeOK, Decision, Decide
  <2>3. stale' \subseteq Workflows
    BY <1>0, <1>10, <2>1, <2>2, WorkflowOfIsWorkflow DEF CloseSession, CallersOK
  <2> QED
    BY <1>0, <1>7, <1>9, <1>10, <2>1, <2>2, <2>3 DEF CloseSession, CallersOK
<1>11. ASSUME NEW t \in Timers, AutoApprove(t) PROVE CallersOK'
  <2>1. timer[t] \in Requests /\ Decision(timer[t])
    BY <1>11 DEF AutoApprove, TypeOK, Decision
  <2> QED
    BY <1>0, <1>9, <1>11, <2>1 DEF AutoApprove, CallersOK
<1>12. ASSUME NEW t \in Timers, SkipCandidate(t) \/ \E r \in Requests : SelectCandidate(t, r)
       PROVE  CallersOK'
  BY <1>0, <1>12 DEF SkipCandidate, SelectCandidate, CallersOK, balanceVars
<1>13. ASSUME NEW r \in Requests, DeadlinePasses(r) PROVE CallersOK'
  <2>1. <<r, 1>> \in Workflows
    BY LeaveAssumption DEF Workflows
  <2> QED
    BY <1>0, <1>13, <2>1 DEF DeadlinePasses, CallersOK, callerVars, balanceVars
<1>14. ASSUME NEW r \in Requests,
              \/ Withdraw(r) \/ CancelDirectly(r)
              \/ \E path \in CancelRoutes : RequestCancellation(r, path)
       PROVE  CallersOK'
  <2>1. UNCHANGED balanceVars \/ SetBalance(r, reserved', consumed')
    BY <1>14 DEF Withdraw, CancelDirectly, RequestCancellation, ReleaseUnits, ReturnUnits, SetBalance
  <2>2. UNCHANGED <<overdue, callerVars, stale>>
    BY <1>14 DEF Withdraw, CancelDirectly, RequestCancellation
  <2> QED
    BY <1>0, <1>1, <2>1, <2>2 DEF CallersOK, callerVars
<1> QED
  BY <1>2, <1>3, <1>4, <1>5, <1>6, <1>8, <1>10, <1>11, <1>12, <1>13, <1>14 DEF Next

LEMMA TypeNext == ASSUME TypeOK, [Next]_leaveVars PROVE TypeOK'
<1>1. wf!TypeOK'
  BY EngineAssumption, EngineStep, EngineTypeOK, EngineTypeOKNext, engine!TypeNext DEF TypeOK
<1>2. request' \in [Requests -> RequestRow] /\ reserved' \in Nat /\ consumed' \in Nat
  BY RequestType, AmountsType
<1> QED
  BY <1>1, <1>2, CallersType DEF TypeOK, CallersOK, RequestRow, SessionRow

\* Requests, balance, workflows and callers keep their declared values.
THEOREM LeaveTypeCorrect == Spec => []TypeOK
BY TypeInit, TypeNext, PTL DEF Spec
-----------------------------------------------------------------------------
(* How requests and their callers' records fit together.                   *)

\* A request has a workflow from its submission on, its first one as long as
\* the leave itself is undecided; a cancellation is asked for in a later one.
RequestShape ==
  \A r \in Requests :
    /\ request[r].status = "none" <=> request[r].workflow = 0
    /\ request[r].action = "cancellation_request" =>
         request[r].status \in Waiting /\ request[r].workflow > 1
    /\ Undecided(r) => request[r].workflow = 1

\* What is being submitted does not exist yet and is submitted by one caller;
\* sessions belong to people; deadlines belong to first workflows.
CallerShape ==
  /\ \A s \in Submitters : submitter[s] # NoRequest =>
       /\ request[submitter[s]].status = "none"
       /\ \A t \in Submitters : submitter[t] = submitter[s] => t = s
  /\ \A s \in Sessions : session[s].request # NoRequest => session[s].actor # System
  /\ \A i \in overdue : i[2] = 1

Consistent == TypeOK /\ RequestShape /\ CallerShape

LEMMA ConsistentInit == Init => Consistent
<1> SUFFICES ASSUME Init PROVE Consistent
  OBVIOUS
<1>1. RequestShape
  BY DEF Init, NewRequest, RequestShape, Undecided, Waiting
<1>2. CallerShape
  BY DEF Init, NoDecision, CallerShape
<1> QED
  BY <1>1, <1>2, TypeInit DEF Consistent

\* The three things a decision does to its request.
LeavesOpen(r) ==
  /\ request'[r].status = "partially_approved" /\ request'[r].action = request[r].action
  /\ UNCHANGED balanceVars

DecidesLeave(r) ==
  /\ request[r].action = "leave_request" /\ request'[r].action = "leave_request"
  /\ \/ request'[r].status = "approved" /\ ConsumeUnits(r)
     \/ request'[r].status = "rejected" /\ ReleaseUnits(r)

DecidesCancellation(r) ==
  /\ request[r].action = "cancellation_request" /\ request'[r].action = "leave_request"
  /\ \/ request'[r].status = "cancelled" /\ ReturnUnits(r)
     \/ request'[r].status = "approved" /\ UNCHANGED balanceVars

\* A decision writes one request; it had a workflow and was not decided yet.
LEMMA DecisionWrites ==
  ASSUME Consistent, NEW r \in Requests, Decision(r)
  PROVE  /\ \A q \in Requests \ {r} : request'[q] = request[q]
         /\ request[r].status \in Waiting
         /\ request'[r].workflow = request[r].workflow
         /\ LeavesOpen(r) \/ DecidesLeave(r) \/ DecidesCancellation(r)
<1>0. request \in [Requests -> RequestRow]
  BY DEF Consistent, TypeOK, RequestRow
<1>1. Decidable(r) /\ (Advance(r) \/ ApproveLeave(r) \/ ApproveCancellation(r)
                        \/ RejectLeave(r) \/ RejectCancellation(r))
  BY DEF Decision, Decide
<1>2. request[r].status \in Waiting
  BY <1>1 DEF Decidable, Consistent, RequestShape
<1>3. CASE Advance(r)
  BY <1>0, <1>2, <1>3 DEF Advance, LeavesOpen, RequestRow
<1>4. CASE ApproveLeave(r)
  BY <1>0, <1>2, <1>4 DEF ApproveLeave, DecidesLeave, RequestRow
<1>5. CASE ApproveCancellation(r)
  BY <1>0, <1>2, <1>5 DEF ApproveCancellation, DecidesCancellation, RequestRow
<1>6. CASE RejectLeave(r)
  BY <1>0, <1>2, <1>6 DEF RejectLeave, DecidesLeave, RequestRow
<1>7. CASE RejectCancellation(r)
  BY <1>0, <1>2, <1>7 DEF RejectCancellation, DecidesCancellation, RequestRow
<1> QED
  BY <1>1, <1>3, <1>4, <1>5, <1>6, <1>7

\* A submission writes the request it has validated, which did not exist yet.
LEMMA SubmitWrites ==
  ASSUME Consistent, NEW s \in Submitters, NEW path \in LeaveRoutes, Submit(s, path),
         NEW r, r = submitter[s]
  PROVE  /\ r \in Requests /\ \A q \in Requests \ {r} : request'[q] = request[q]
         /\ request[r].status = "none" /\ request[r].action = "leave_request"
         /\ request'[r].status = "pending" /\ request'[r].action = "leave_request"
         /\ request'[r].workflow = 1
         /\ ReserveUnits(r) /\ Units[r] <= Available(r)
<1>0. request \in [Requests -> RequestRow] /\ TypeOK
  BY DEF Consistent, TypeOK, RequestRow
<1>1. r \in Requests /\ request[r].status = "none"
  BY <1>0 DEF Submit, Consistent, TypeOK, CallerShape
<1>2. request[r].action = "leave_request"
  BY <1>0, <1>1 DEF Consistent, RequestShape, RequestRow, Waiting
<1>3. request' = [request EXCEPT ![r] = [@ EXCEPT !.status = "pending", !.workflow = 1]]
  BY DEF Submit
<1>4. /\ \A q \in Requests \ {r} : request'[q] = request[q]
      /\ request'[r] = [request[r] EXCEPT !.status = "pending", !.workflow = 1]
  BY <1>0, <1>1, <1>3
<1>5. /\ request'[r].status = "pending" /\ request'[r].action = "leave_request"
      /\ request'[r].workflow = 1
  BY <1>0, <1>1, <1>2, <1>4 DEF RequestRow
<1> QED
  BY <1>1, <1>2, <1>4, <1>5 DEF Submit

LEMMA RequestShapeNext ==
  ASSUME Consistent, [Next]_leaveVars PROVE RequestShape'
<1>0. request \in [Requests -> RequestRow] /\ TypeOK
  BY DEF Consistent, TypeOK, RequestRow
<1> DEFINE Shape(r) == /\ request[r].status = "none" <=> request[r].workflow = 0
                       /\ request[r].action = "cancellation_request" =>
                            request[r].status \in Waiting /\ request[r].workflow > 1
                       /\ Undecided(r) => request[r].workflow = 1
<1>1. \A r \in Requests : Shape(r)
  BY DEF Consistent, RequestShape
<1>2. ASSUME NEW r \in Requests, request'[r] = request[r] PROVE Shape(r)'
  BY <1>1, <1>2 DEF Undecided
<1>3. CASE Quiet
  BY <1>2, <1>3 DEF Quiet, RequestShape
<1>4. ASSUME NEW s \in Submitters, NEW path \in LeaveRoutes, Submit(s, path) PROVE RequestShape'
  <2>1. PICK r : r = submitter[s]
    OBVIOUS
  <2>2. Shape(r)'
    BY <1>4, <2>1, SubmitWrites DEF Undecided
  <2> QED
    BY <1>2, <1>4, <2>1, <2>2, SubmitWrites DEF RequestShape
<1>5. ASSUME NEW r \in Requests, Decision(r) PROVE RequestShape'
  <2>1. Shape(r)'
    BY <1>0, <1>1, <1>5, DecisionWrites
       DEF LeavesOpen, DecidesLeave, DecidesCancellation, Undecided, Waiting, RequestRow
  <2> QED
    BY <1>2, <1>5, <2>1, DecisionWrites DEF RequestShape
<1>6. ASSUME NEW r \in Requests, Withdraw(r) \/ CancelDirectly(r) PROVE RequestShape'
  <2>1. /\ \A q \in Requests \ {r} : request'[q] = request[q]
        /\ request[r].status # "none" /\ request[r].action = "leave_request"
        /\ request'[r].status \in {"withdrawn", "cancelled"} /\ request'[r].action = "leave_request"
        /\ request'[r].workflow = request[r].workflow
    BY <1>0, <1>6 DEF Withdraw, CancelDirectly, CanCancel, RequestRow
  <2>2. Shape(r)'
    BY <1>0, <1>1, <2>1 DEF Undecided, Waiting
  <2> QED
    BY <1>2, <2>1, <2>2 DEF RequestShape
<1>7. ASSUME NEW r \in Requests, NEW path \in CancelRoutes, RequestCancellation(r, path)
      PROVE  RequestShape'
  <2>1. /\ \A q \in Requests \ {r} : request'[q] = request[q]
        /\ request[r].status # "none"
        /\ request'[r] = [request[r] EXCEPT !.status = "pending", !.action = "cancellation_request",
                          !.workflow = request[r].workflow + 1]
    BY <1>0, <1>7 DEF RequestCancellation, CanCancel
  <2>2. request[r].workflow \in Nat /\ request[r].workflow # 0
    BY <1>0, <1>1, <2>1, LeaveAssumption DEF RequestRow
  <2>3. Shape(r)'
    BY <1>0, <2>1, <2>2 DEF Undecided, Waiting, RequestRow
  <2> QED
    BY <1>2, <2>1, <2>3 DEF RequestShape
<1> QED
  BY <1>0, <1>3, <1>4, <1>5, <1>6, <1>7, StepKinds

LEMMA CallerShapeNext ==
  ASSUME Consistent, [Next]_leaveVars PROVE CallerShape'
<1>0. TypeOK
  BY DEF Consistent
<1> DEFINE SubmitterShape == \A s \in Submitters : submitter[s] # NoRequest =>
             /\ request[submitter[s]].status = "none"
             /\ \A t \in Submitters : submitter[t] = submitter[s] => t = s
           SessionShape == \A s \in Sessions : session[s].request # NoRequest => session[s].actor # System
           DeadlineShape == \A i \in overdue : i[2] = 1
<1>1. SubmitterShape /\ SessionShape /\ DeadlineShape
  BY DEF Consistent, CallerShape
<1>2. ASSUME submitter' = submitter,
             \A r \in Requests : request[r].status = "none" => request'[r].status = "none"
      PROVE  SubmitterShape'
  BY <1>0, <1>1, <1>2 DEF TypeOK
<1>3. ASSUME session' = session PROVE SessionShape'
  BY <1>1, <1>3
<1>4. ASSUME overdue' \subseteq overdue PROVE DeadlineShape'
  BY <1>1, <1>4
<1>5. CASE UNCHANGED leaveVars
  BY <1>2, <1>3, <1>4, <1>5 DEF leaveVars, callerVars, CallerShape
<1>6. ASSUME NEW v \in Viewers, StoreView(v) \/ \E r \in Requests : ViewBalance(v, r) PROVE CallerShape'
  BY <1>2, <1>3, <1>4, <1>6 DEF ViewBalance, StoreView, CallerShape
<1>7. ASSUME NEW s \in Submitters, NEW r \in Requests, Validate(s, r) PROVE CallerShape'
  <2>1. /\ submitter' = [submitter EXCEPT ![s] = r] /\ request' = request
        /\ request[r].status = "none" /\ \A t \in Submitters : submitter[t] # r
    BY <1>7 DEF Validate
  <2>2. SubmitterShape'
    BY <1>0, <1>1, <2>1 DEF TypeOK
  <2> QED
    BY <1>3, <1>4, <1>7, <2>2 DEF Validate, CallerShape
<1>8. ASSUME NEW s \in Submitters, SubmitFails(s) PROVE CallerShape'
  <2>1. submitter' = [submitter EXCEPT ![s] = NoRequest] /\ request' = request
    BY <1>8 DEF SubmitFails
  <2>2. SubmitterShape'
    BY <1>0, <1>1, <2>1 DEF TypeOK
  <2> QED
    BY <1>3, <1>4, <1>8, <2>2 DEF SubmitFails, CallerShape
<1>9. ASSUME NEW s \in Submitters, NEW path \in LeaveRoutes, Submit(s, path) PROVE CallerShape'
  <2>1. submitter' = [submitter EXCEPT ![s] = NoRequest] /\ submitter[s] # NoRequest
    BY <1>9 DEF Submit
  <2>2. \A q \in Requests \ {submitter[s]} : request'[q] = request[q]
    BY <1>9, SubmitWrites
  <2>3. SubmitterShape'
    BY <1>0, <1>1, <2>1, <2>2 DEF TypeOK
  <2> QED
    BY <1>3, <1>4, <1>9, <2>3 DEF Submit, CallerShape
<1>10. ASSUME NEW s \in Sessions, NEW a \in Approvers \cup HrAdmins, NEW r \in Requests,
              NEW b \in BOOLEAN, OpenSession(s, a, r, b)
       PROVE  CallerShape'
  <2>1. a # System
    BY LeaveAssumption
  <2>2. SessionShape'
    BY <1>0, <1>1, <1>10, <2>1 DEF OpenSession, TypeOK
  <2> QED
    BY <1>2, <1>4, <1>10, <2>2 DEF OpenSession, CallerShape
<1>11. ASSUME NEW s \in Sessions, session' = [session EXCEPT ![s] = NoDecision]
       PROVE  SessionShape'
  BY <1>0, <1>1, <1>11 DEF TypeOK, NoDecision
<1>12. ASSUME NEW s \in Sessions, SessionRefused(s) PROVE CallerShape'
  BY <1>2, <1>4, <1>11, <1>12 DEF SessionRefused, CallerShape
<1>13. ASSUME NEW r \in Requests, Decision(r), submitter' = submitter
       PROVE  SubmitterShape' /\ DeadlineShape'
  <2>1. overdue' \subseteq overdue
    BY <1>13 DEF Decision, Decide
  <2>2. \A q \in Requests : request[q].status = "none" => request'[q].status = "none"
    BY <1>13, DecisionWrites DEF Waiting
  <2> QED
    BY <1>2, <1>4, <1>13, <2>1, <2>2
<1>14. ASSUME NEW s \in Sessions, CloseSession(s) PROVE CallerShape'
  <2>1. session[s].request \in Requests /\ Decision(session[s].request)
    BY <1>0, <1>14 DEF CloseSession, TypeOK, Decision
  <2> QED
    BY <1>11, <1>13, <1>14, <2>1 DEF CloseSession, CallerShape
<1>15. ASSUME NEW t \in Timers, AutoApprove(t) PROVE CallerShape'
  <2>1. timer[t] \in Requests /\ Decision(timer[t])
    BY <1>0, <1>15 DEF AutoApprove, TypeOK, Decision
  <2> QED
    BY <1>3, <1>13, <1>15, <2>1 DEF AutoApprove, CallerShape
<1>16. ASSUME NEW t \in Timers, SkipCandidate(t) \/ \E r \in Requests : SelectCandidate(t, r)
       PROVE  CallerShape'
  BY <1>2, <1>3, <1>4, <1>16 DEF SkipCandidate, SelectCandidate, CallerShape
<1>17. ASSUME NEW r \in Requests, DeadlinePasses(r) PROVE CallerShape'
  <2>1. DeadlineShape'
    BY <1>1, <1>17 DEF DeadlinePasses
  <2> QED
    BY <1>2, <1>3, <1>17, <2>1 DEF DeadlinePasses, callerVars, CallerShape
<1>18. ASSUME NEW r \in Requests,
              \/ Withdraw(r) \/ CancelDirectly(r)
              \/ \E path \in CancelRoutes : RequestCancellation(r, path)
       PROVE  CallerShape'
  <2>1. UNCHANGED <<overdue, callerVars>>
    BY <1>18 DEF Withdraw, CancelDirectly, RequestCancellation
  <2>2. request[r].status # "none" /\ \A q \in Requests \ {r} : request'[q] = request[q]
    BY <1>0, <1>18 DEF Withdraw, CancelDirectly, RequestCancellation, CanCancel, TypeOK
  <2> QED
    BY <1>2, <1>3, <1>4, <2>1, <2>2 DEF callerVars, CallerShape
<1> QED
  BY <1>5, <1>6, <1>7, <1>8, <1>9, <1>10, <1>12, <1>14, <1>15, <1>16, <1>17, <1>18 DEF Next

LEMMA ConsistentNext == ASSUME Consistent, [Next]_leaveVars PROVE Consistent'
BY TypeNext, RequestShapeNext, CallerShapeNext DEF Consistent
-----------------------------------------------------------------------------
(* Requests and their workflows.                                           *)

\* Workflows after the latest one do not exist.
WorkflowShape ==
  \A r \in Requests, n \in 1..MaxWorkflows : n > request[r].workflow => wfStatus[<<r, n>>] = "none"

FollowInv == Consistent /\ engine!ChainInv /\ WorkflowShape /\ RequestFollowsWorkflow

\* A workflow that is created is pending; no other one is touched.
LEMMA CreateEffect ==
  ASSUME TypeOK, NEW i \in Workflows, NEW path, wf!Create(i, path, Employee)
  PROVE  wfStatus'[i] = "pending" /\ \A j \in Workflows \ {i} : wfStatus'[j] = wfStatus[j]
BY DEF TypeOK, wf!TypeOK, wf!Create

\* A decision is a decision of the request's latest workflow, and only of it.
LEMMA DecisionEffect ==
  ASSUME Consistent, engine!ChainInv, NEW r \in Requests, NEW actor, NEW b \in BOOLEAN,
         Decide(r, actor, b)
  PROVE  LET i == WorkflowOf(r) IN
         /\ i \in Workflows /\ wfStatus[i] = "pending"
         /\ \A j \in Workflows \ {i} : wfStatus'[j] = wfStatus[j]
         /\ b => wfStatus'[i] \in {"approved", "pending"}
         /\ ~b => wfStatus'[i] = "rejected"
<1> DEFINE i == WorkflowOf(r)
           action == IF b THEN "approve" ELSE "reject"
<1>1. i \in Workflows
  BY WorkflowOfIsWorkflow DEF Decide, Consistent
<1>2. engine!Resolve(i, actor, action)
  BY EngineResolve DEF Decide
<1>3. /\ wfStatus[i] = "pending"
      /\ \A j \in Workflows \ {i} : wfStatus'[j] = wfStatus[j]
      /\ action = "approve" => wfStatus'[i] \in {"approved", "pending"}
      /\ action # "approve" => wfStatus'[i] = engine!StatusOf(action)
  <2> HIDE DEF i, action
  <2> QED
    BY <1>1, <1>2, EngineAssumption, engine!ResolveEffect
<1>4. engine!StatusOf("reject") = "rejected"
  BY DEF engine!StatusOf
<1> QED
  BY <1>1, <1>3, <1>4

LEMMA FollowInit == Init => FollowInv
<1> SUFFICES ASSUME Init PROVE FollowInv
  OBVIOUS
<1>1. engine!ChainInv
  BY EngineAssumption, EngineInit, engine!ChainInit DEF Init
<1>2. WorkflowShape
  BY LeaveAssumption DEF Init, wf!Init, NewRequest, Workflows, WorkflowShape
<1>3. RequestFollowsWorkflow
  BY DEF Init, NewRequest, RequestFollowsWorkflow, Waiting
<1> QED
  BY <1>1, <1>2, <1>3, ConsistentInit DEF FollowInv

LEMMA FollowNext ==
  ASSUME FollowInv, [Next]_leaveVars PROVE FollowInv'
<1>0. Consistent /\ TypeOK /\ RequestShape /\ request \in [Requests -> RequestRow]
  BY DEF FollowInv, Consistent, TypeOK, RequestRow
<1>c. Consistent'
  BY <1>0, ConsistentNext
<1>e. engine!ChainInv'
  BY <1>0, EngineAssumption, EngineStep, engine!ChainNext DEF FollowInv
<1> DEFINE
      Chained(r) ==
        \A n \in 1..MaxWorkflows : n > request[r].workflow => wfStatus[<<r, n>>] = "none"
      Latest(r) ==
        /\ request[r].status \in Waiting => wfStatus[WorkflowOf(r)] = "pending"
        /\ request[r].status = "approved" =>
             wfStatus[WorkflowOf(r)] = (IF request[r].workflow = 1 THEN "approved" ELSE "rejected")
        /\ request[r].status = "rejected" =>
             request[r].workflow = 1 /\ wfStatus[WorkflowOf(r)] = "rejected"
        /\ request[r].status = "cancelled" /\ ~request[r].direct =>
             request[r].workflow > 1 /\ wfStatus[WorkflowOf(r)] = "approved"
      Own(r) ==
        request[r].workflow > 1 \/ request[r].status \in {"approved", "cancelled"} =>
          wfStatus[<<r, 1>>] = "approved" \/ CancelledEarly(r)
      Follows(r) == Latest(r) /\ Own(r)
<1>1. \A r \in Requests : Chained(r) /\ Follows(r)
  BY DEF FollowInv, WorkflowShape, RequestFollowsWorkflow
<1>2. ASSUME \A r \in Requests : Chained(r)' /\ Follows(r)' PROVE FollowInv'
  BY <1>c, <1>e, <1>2 DEF FollowInv, WorkflowShape, RequestFollowsWorkflow
<1>n. \A r \in Requests : request[r].workflow \in 0..MaxWorkflows /\ <<r, 1>> \in Workflows
                            /\ \A n \in 1..MaxWorkflows : <<r, n>> \in Workflows
  BY <1>0, LeaveAssumption DEF RequestRow, Workflows
<1>w. ASSUME NEW q \in Requests, request[q].status # "none"
      PROVE  request[q].workflow \in 1..MaxWorkflows
  <2>1. request[q].workflow \in 0..MaxWorkflows
    BY <1>n
  <2>2. request[q].workflow # 0
    BY <1>0, <1>w DEF RequestShape
  <2> QED
    BY <2>1, <2>2, LeaveAssumption
\* A request stays as it was when neither its row nor its workflows change.
<1>3. ASSUME NEW q \in Requests, request'[q] = request[q],
             \A n \in 1..MaxWorkflows : wfStatus'[<<q, n>>] = wfStatus[<<q, n>>]
      PROVE  Chained(q)' /\ Follows(q)'
  <2>1. Chained(q)'
    BY <1>1, <1>3
  <2>2. request[q].status # "none" => request[q].workflow \in 1..MaxWorkflows
    BY <1>w
  <2>3. request[q].status # "none" => wfStatus'[WorkflowOf(q)'] = wfStatus[WorkflowOf(q)]
    BY <1>3, <2>2 DEF WorkflowOf
  <2>4. Latest(q)'
    BY <1>1, <1>3, <2>3 DEF Waiting
  <2>5. Own(q)'
    <3>1. 1 \in 1..MaxWorkflows
      BY LeaveAssumption
    <3> QED
      BY <1>1, <1>3, <3>1 DEF CancelledEarly
  <2> QED
    BY <2>1, <2>4, <2>5
<1>4. CASE Quiet
  BY <1>2, <1>3, <1>4 DEF Quiet, workflowVars
<1>5. ASSUME NEW s \in Submitters, NEW path \in LeaveRoutes, Submit(s, path) PROVE FollowInv'
  <2>1. PICK r : r = submitter[s]
    OBVIOUS
  <2>2. /\ r \in Requests /\ \A q \in Requests \ {r} : request'[q] = request[q]
        /\ request[r].status = "none"
        /\ request'[r].status = "pending" /\ request'[r].action = "leave_request"
        /\ request'[r].workflow = 1
    BY <1>0, <1>5, <2>1, SubmitWrites
  <2>3. /\ wfStatus'[<<r, 1>>] = "pending"
        /\ \A j \in Workflows \ {<<r, 1>>} : wfStatus'[j] = wfStatus[j]
    BY <1>0, <1>5, <1>n, <2>1, <2>2, CreateEffect DEF Submit
  <2>4. ASSUME NEW q \in Requests \ {r} PROVE Chained(q)' /\ Follows(q)'
    BY <1>3, <1>n, <2>2, <2>3
  <2>5. Chained(r)'
    <3>1. ASSUME NEW n \in 1..MaxWorkflows, n > 1 PROVE wfStatus'[<<r, n>>] = "none"
      <4>1. request[r].workflow = 0 /\ n > 0 /\ <<r, n>> # <<r, 1>>
        BY <1>0, <2>2, <3>1 DEF RequestShape
      <4> QED
        BY <1>1, <1>n, <2>2, <2>3, <4>1
    <3> QED
      BY <2>2, <2>3, <3>1
  <2>6. Follows(r)'
    BY <2>2, <2>3 DEF WorkflowOf
  <2> QED
    BY <1>2, <2>4, <2>5, <2>6
<1>6. ASSUME NEW r \in Requests, Decision(r) PROVE FollowInv'
  <2>1. PICK actor \in Approvers \cup HrAdmins \cup {System}, b \in BOOLEAN : Decide(r, actor, b)
    BY <1>6 DEF Decision
  <2> DEFINE i == WorkflowOf(r)
  <2>2. /\ i \in Workflows /\ wfStatus[i] = "pending"
        /\ \A j \in Workflows \ {i} : wfStatus'[j] = wfStatus[j]
        /\ b => wfStatus'[i] \in {"approved", "pending"}
        /\ ~b => wfStatus'[i] = "rejected"
    BY <1>0, <2>1, DecisionEffect DEF FollowInv
  <2>3. /\ \A q \in Requests \ {r} : request'[q] = request[q]
        /\ request'[r].workflow = request[r].workflow /\ request[r].status \in Waiting
    BY <1>0, <1>6, DecisionWrites
  <2>4. request[r].workflow \in 1..MaxWorkflows
    BY <1>w, <2>3 DEF Waiting
  <2>5. ASSUME NEW q \in Requests \ {r} PROVE Chained(q)' /\ Follows(q)'
    <3>1. \A n \in 1..MaxWorkflows : <<q, n>> # i /\ <<q, n>> \in Workflows
      BY <1>n DEF WorkflowOf
    <3> QED
      BY <1>3, <2>2, <2>3, <3>1
  <2>6. WorkflowOf(r)' = i
    BY <2>3 DEF WorkflowOf
  <2>a. request[r].action = "leave_request" => request[r].workflow = 1
    BY <1>0, <2>3 DEF RequestShape, Undecided
  <2>b. request[r].action = "cancellation_request" => request[r].workflow > 1
    BY <1>0, <2>4 DEF RequestShape
  <2>7. \/ b /\ wfStatus'[i] = "pending" /\ request'[r].status = "partially_approved"
        \/ /\ b /\ wfStatus'[i] = "approved" /\ request'[r].status = "approved"
           /\ request[r].workflow = 1
        \/ /\ b /\ wfStatus'[i] = "approved" /\ request'[r].status = "cancelled"
           /\ request[r].workflow > 1
        \/ ~b /\ request'[r].status = "rejected" /\ request[r].workflow = 1
        \/ ~b /\ request'[r].status = "approved" /\ request[r].workflow > 1
    <3>1. request[r] \in RequestRow
      BY <1>0
    <3>2. CASE b /\ (Advance(r) \/ ApproveLeave(r))
      BY <1>0, <2>a, <3>1, <3>2 DEF Advance, ApproveLeave, RequestRow
    <3>3. CASE b /\ ApproveCancellation(r)
      BY <1>0, <2>b, <3>1, <3>3 DEF ApproveCancellation, RequestRow
    <3>4. CASE ~b /\ RejectLeave(r)
      BY <1>0, <2>a, <3>1, <3>4 DEF RejectLeave, RequestRow
    <3>5. CASE ~b /\ RejectCancellation(r)
      BY <1>0, <2>b, <3>1, <3>5 DEF RejectCancellation, RequestRow
    <3> QED
      BY <2>1, <3>2, <3>3, <3>4, <3>5 DEF Decide
  <2>8. Latest(r)'
    BY <2>2, <2>3, <2>4, <2>6, <2>7 DEF Waiting
  <2>9. Own(r)'
    <3>1. CASE request[r].workflow = 1
      BY <2>2, <2>3, <2>6, <2>7, <3>1 DEF WorkflowOf
    <3>2. CASE request[r].workflow > 1
      <4>1. wfStatus'[<<r, 1>>] = wfStatus[<<r, 1>>]
        BY <1>n, <2>2, <3>2 DEF WorkflowOf
      <4> QED
        BY <1>1, <2>3, <3>2, <4>1 DEF CancelledEarly
    <3> QED
      BY <2>4, <3>1, <3>2
  <2>10. Chained(r)'
    <3>1. ASSUME NEW n \in 1..MaxWorkflows, n > request'[r].workflow PROVE wfStatus'[<<r, n>>] = "none"
      <4>1. n # request[r].workflow
        BY <2>3, <2>4, <3>1
      <4>2. <<r, n>> # i /\ <<r, n>> \in Workflows
        BY <1>n, <4>1 DEF WorkflowOf
      <4> QED
        BY <1>1, <2>2, <2>3, <3>1, <4>2
    <3> QED
      BY <3>1
  <2> QED
    BY <1>2, <2>5, <2>8, <2>9, <2>10
<1>7. ASSUME NEW r \in Requests, Withdraw(r) \/ CancelDirectly(r) PROVE FollowInv'
  <2>1. /\ \A q \in Requests \ {r} : request'[q] = request[q]
        /\ request'[r].workflow = request[r].workflow
        /\ \/ /\ request'[r].status = "withdrawn" /\ request[r].status \in Waiting
              /\ request[r].action = "leave_request"
           \/ request'[r].status = "cancelled" /\ request'[r].direct /\ CanCancel(r)
        /\ UNCHANGED workflowVars
    <3>1. CASE Withdraw(r)
      BY <1>0, <3>1 DEF Withdraw, RequestRow, Waiting
    <3>2. CASE CancelDirectly(r)
      <4>1. /\ \A q \in Requests \ {r} : request'[q] = request[q]
            /\ request'[r] = [request[r] EXCEPT !.status = "cancelled", !.direct = TRUE]
            /\ CanCancel(r) /\ UNCHANGED workflowVars
        BY <1>0, <3>2 DEF CancelDirectly
      <4>2. request'[r].workflow = request[r].workflow /\ request'[r].status = "cancelled"
        BY <1>0, <4>1 DEF RequestRow
      <4>3. request'[r].direct
        BY <1>0, <4>1 DEF RequestRow
      <4> QED
        BY <4>1, <4>2, <4>3
    <3> QED
      BY <1>7, <3>1, <3>2
  <2>2. ASSUME NEW q \in Requests \ {r} PROVE Chained(q)' /\ Follows(q)'
    BY <1>3, <2>1 DEF workflowVars
  <2>3. Chained(r)'
    BY <1>1, <2>1 DEF workflowVars
  <2>4. Latest(r)'
    BY <2>1 DEF Waiting
  <2>5. Own(r)'
    <3>0. wfStatus' = wfStatus /\ request[r].workflow \in 0..MaxWorkflows
      BY <1>n, <2>1 DEF workflowVars
    <3>1. CASE request'[r].status = "withdrawn"
      <4>1. request[r].workflow = 1
        BY <1>0, <2>1, <3>1 DEF RequestShape, Undecided
      <4> QED
        BY <2>1, <3>1, <4>1
    <3>2. CASE request'[r].status = "cancelled" /\ request[r].status = "approved"
      BY <1>1, <2>1, <3>0, <3>2 DEF CancelledEarly
    <3>3. CASE request'[r].status = "cancelled" /\ request[r].status = "partially_approved"
      <4>1. request[r].workflow = 1
        BY <1>0, <2>1, <3>3 DEF RequestShape, Undecided, CanCancel, Waiting
      <4>2. wfStatus[<<r, 1>>] = "pending"
        BY <1>1, <3>3, <4>1 DEF Waiting, WorkflowOf
      <4> QED
        BY <3>0, <3>3, <4>2 DEF CancelledEarly
    <3> QED
      BY <2>1, <3>1, <3>2, <3>3 DEF CanCancel
  <2> QED
    BY <1>2, <2>2, <2>3, <2>4, <2>5
<1>8. ASSUME NEW r \in Requests, NEW path \in CancelRoutes, RequestCancellation(r, path)
      PROVE  FollowInv'
  <2>1. PICK m : m = request[r].workflow + 1
    OBVIOUS
  <2>2. /\ \A q \in Requests \ {r} : request'[q] = request[q]
        /\ request[r].status # "none" /\ m <= MaxWorkflows /\ CanCancel(r)
        /\ request'[r].status = "pending" /\ request'[r].workflow = m
        /\ wf!Create(<<r, m>>, path, Employee)
    BY <1>0, <1>8, <2>1 DEF RequestCancellation, CanCancel, RequestRow
  <2>3. request[r].workflow \in 1..MaxWorkflows /\ m \in 1..MaxWorkflows /\ m > 1
    <3>1. request[r].workflow \in 1..MaxWorkflows
      BY <1>w, <2>2
    <3> QED
      BY <2>1, <2>2, <3>1, LeaveAssumption
  <2>4. <<r, m>> \in Workflows
    BY <1>n, <2>3
  <2>5. /\ wfStatus'[<<r, m>>] = "pending"
        /\ \A j \in Workflows \ {<<r, m>>} : wfStatus'[j] = wfStatus[j]
    BY <1>0, <2>2, <2>4, CreateEffect
  <2>6. ASSUME NEW q \in Requests \ {r} PROVE Chained(q)' /\ Follows(q)'
    BY <1>3, <1>n, <2>2, <2>5
  <2>7. Chained(r)'
    <3>1. ASSUME NEW n \in 1..MaxWorkflows, n > m PROVE wfStatus'[<<r, n>>] = "none"
      <4>1. n > request[r].workflow /\ <<r, n>> # <<r, m>>
        BY <2>1, <2>3, <3>1
      <4> QED
        BY <1>1, <1>n, <2>5, <4>1
    <3> QED
      BY <2>2, <3>1
  <2>8. Latest(r)'
    BY <2>2, <2>5 DEF WorkflowOf
  <2>9. Own(r)'
    <3>1. wfStatus'[<<r, 1>>] = wfStatus[<<r, 1>>]
      BY <1>n, <2>3, <2>5
    <3>2. CASE request[r].status = "approved"
      BY <1>1, <2>2, <2>3, <3>1, <3>2 DEF CancelledEarly
    <3>3. CASE request[r].status = "partially_approved"
      <4>1. request[r].workflow = 1
        BY <1>0, <2>2, <3>3 DEF RequestShape, Undecided, CanCancel, Waiting
      <4>2. wfStatus[<<r, 1>>] = "pending"
        BY <1>1, <3>3, <4>1 DEF Waiting, WorkflowOf
      <4> QED
        BY <2>2, <2>3, <3>1, <4>2 DEF CancelledEarly
    <3> QED
      BY <2>2, <3>2, <3>3 DEF CanCancel
  <2> QED
    BY <1>2, <2>6, <2>7, <2>8, <2>9
<1> QED
  BY <1>0, <1>4, <1>5, <1>6, <1>7, <1>8, StepKinds

\* The status of a request is the outcome of its latest workflow, on any route
\* and through any sequence of decisions, withdrawals and cancellations.
THEOREM LeaveFollowsWorkflow == Spec => []RequestFollowsWorkflow
<1>1. FollowInv => RequestFollowsWorkflow
  BY DEF FollowInv
<1>2. FollowInv /\ [Next]_leaveVars => FollowInv'
  BY FollowNext
<1> QED
  BY FollowInit, <1>1, <1>2, PTL DEF Spec
-----------------------------------------------------------------------------
(* The balance: every step moves the units of at most one request.         *)

Waits == {r \in Requests : Undecided(r)}
Used == {r \in Requests : Taken(r)}
Early == {r \in Requests : CancelledEarly(r)}

\* What a step does to the three sets and to the two amounts.
NothingMoves ==
  Waits' = Waits /\ Used' = Used /\ Early' = Early /\ UNCHANGED <<reserved, consumed>>
Reserves(r) ==
  /\ r \notin Waits /\ r \notin Early
  /\ Waits' = Waits \cup {r} /\ Used' = Used /\ Early' = Early
  /\ ReserveUnits(r) /\ Units[r] <= Available(r)
Releases(r) ==
  /\ r \in Waits /\ r \notin Early
  /\ Waits' = Waits \ {r} /\ Used' = Used /\ Early' = Early /\ ReleaseUnits(r)
Consumes(r) ==
  /\ r \in Waits /\ r \notin Used /\ r \notin Early
  /\ Waits' = Waits \ {r} /\ Used' = Used \cup {r} /\ Early' = Early /\ ConsumeUnits(r)
Returns(r) ==
  r \in Used /\ Waits' = Waits /\ Used' = Used \ {r} /\ Early' = Early /\ ReturnUnits(r)

\* Cancelling leave that only some approvers have approved: its units are
\* still reserved, but are returned from, or are counted as, consumed ones.
CancelsReserved(r) ==
  /\ r \in Waits /\ r \notin Used /\ r \notin Early
  /\ Waits' = Waits \ {r} /\ Early' = Early \cup {r}
  /\ \/ Used' = Used /\ ReturnUnits(r)
     \/ Used' = Used \cup {r} /\ UNCHANGED <<reserved, consumed>>

\* A step that writes at most request r moves at most r between the sets.
LEMMA SetsFollow ==
  ASSUME NEW r \in Requests, \A q \in Requests \ {r} : request'[q] = request[q]
  PROVE  /\ Waits' = IF Undecided(r)' THEN Waits \cup {r} ELSE Waits \ {r}
         /\ Used' = IF Taken(r)' THEN Used \cup {r} ELSE Used \ {r}
BY DEF Waits, Used, Undecided, Taken

LEMMA EarlyFollows ==
  ASSUME NEW r \in Requests,
         \A q \in Requests \ {r} : request'[q] = request[q] /\ wfStatus'[<<q, 1>>] = wfStatus[<<q, 1>>]
  PROVE  Early' = IF CancelledEarly(r)' THEN Early \cup {r} ELSE Early \ {r}
BY DEF Early, CancelledEarly

\* A request that is undecided was not cancelled.
LEMMA WaitingIsNotEarly ==
  ASSUME Consistent, NEW r \in Requests, Undecided(r) PROVE ~CancelledEarly(r)
BY DEF Consistent, RequestShape, Undecided, Waiting, CancelledEarly

LEMMA BalanceMoves ==
  ASSUME FollowInv, [Next]_leaveVars
  PROVE  NothingMoves \/ \E r \in Requests :
           Reserves(r) \/ Releases(r) \/ Consumes(r) \/ Returns(r) \/ CancelsReserved(r)
<1>0. Consistent /\ request \in [Requests -> RequestRow] /\ TypeOK /\ RequestShape
  BY DEF FollowInv, Consistent, TypeOK, RequestRow
<1>n. 1 \in 1..MaxWorkflows
  BY LeaveAssumption
<1>p. \A q \in Requests, n \in 1..MaxWorkflows : <<q, n>> \in Workflows /\ <<q, 1>> \in Workflows
  BY <1>n DEF Workflows
<1>w. \A q \in Requests : request[q].workflow \in 0..MaxWorkflows
  BY <1>0 DEF RequestRow
<1>1. CASE Quiet
  BY <1>1 DEF Quiet, NothingMoves, Waits, Used, Early, Undecided, Taken, CancelledEarly, workflowVars
<1>2. ASSUME NEW s \in Submitters, NEW path \in LeaveRoutes, Submit(s, path)
      PROVE  \E r \in Requests : Reserves(r)
  <2>1. PICK r : r = submitter[s]
    OBVIOUS
  <2>2. /\ r \in Requests /\ \A q \in Requests \ {r} : request'[q] = request[q]
        /\ request[r].status = "none" /\ request[r].action = "leave_request"
        /\ request'[r].status = "pending" /\ request'[r].action = "leave_request"
        /\ request'[r].workflow = 1
        /\ ReserveUnits(r) /\ Units[r] <= Available(r)
    BY <1>0, <1>2, <2>1, SubmitWrites
  <2>3. r \notin Waits /\ r \notin Used /\ Undecided(r)' /\ ~Taken(r)'
    BY <2>2 DEF Waits, Used, Undecided, Taken, Waiting
  <2>4. \A q \in Requests \ {r} : wfStatus'[<<q, 1>>] = wfStatus[<<q, 1>>]
    <3>1. wf!Create(<<r, 1>>, path, Employee) /\ <<r, 1>> \in Workflows
      BY <1>2, <1>p, <1>n, <2>1, <2>2 DEF Submit
    <3>2. \A j \in Workflows \ {<<r, 1>>} : wfStatus'[j] = wfStatus[j]
      BY <1>0, <3>1, CreateEffect
    <3> QED
      BY <1>p, <1>n, <3>2
  <2>5. ~CancelledEarly(r) /\ ~CancelledEarly(r)'
    BY <1>0, <2>2 DEF CancelledEarly, RequestShape
  <2>6. r \notin Early /\ Early' = Early
    BY <2>2, <2>4, <2>5, EarlyFollows DEF Early
  <2> QED
    BY <2>2, <2>3, <2>6, SetsFollow DEF Reserves
<1>3. ASSUME NEW r \in Requests, Decision(r)
      PROVE  NothingMoves \/ Releases(r) \/ Consumes(r) \/ Returns(r)
  <2>1. \A q \in Requests \ {r} : request'[q] = request[q]
    BY <1>0, <1>3, DecisionWrites
  <2>2. /\ request[r].status \in Waiting /\ request'[r].workflow = request[r].workflow
        /\ request[r].action \in {"leave_request", "cancellation_request"}
    BY <1>0, <1>3, DecisionWrites DEF RequestRow
  <2>e. \A j \in Workflows \ {WorkflowOf(r)} : wfStatus'[j] = wfStatus[j]
    BY <1>0, <1>3, DecisionEffect DEF Decision, FollowInv
  <2>f. \A q \in Requests \ {r} : wfStatus'[<<q, 1>>] = wfStatus[<<q, 1>>]
    BY <1>p, <2>e, LeaveAssumption DEF WorkflowOf
  <2>g. Early' = Early
    <3>1. CASE request[r].workflow = 1
      <4>1. request[r].action = "leave_request"
        BY <1>0, <2>2, <3>1 DEF RequestShape
      <4>2. request'[r].status # "cancelled" /\ request[r].status # "cancelled"
        BY <1>0, <1>3, <2>2, <4>1, DecisionWrites
           DEF LeavesOpen, DecidesLeave, DecidesCancellation, Waiting
      <4>3. ~CancelledEarly(r) /\ ~CancelledEarly(r)'
        BY <2>2, <3>1, <4>2 DEF CancelledEarly
      <4> QED
        BY <2>1, <2>f, <4>3, EarlyFollows DEF Early
    <3>2. CASE request[r].workflow # 1
      <4>1. request[r].workflow > 1
        BY <1>0, <1>w, <2>2, <3>2 DEF RequestShape, Waiting
      <4>2. wfStatus'[<<r, 1>>] = wfStatus[<<r, 1>>]
        BY <1>p, <2>e, <3>2, LeaveAssumption DEF WorkflowOf
      <4>3. CancelledEarly(r)' <=> CancelledEarly(r)
        BY <2>2, <4>1, <4>2 DEF CancelledEarly
      <4> QED
        BY <2>1, <2>f, <4>3, EarlyFollows DEF Early
    <3> QED
      BY <3>1, <3>2
  <2>3. CASE LeavesOpen(r)
    <3>1. (Undecided(r)' <=> Undecided(r)) /\ (Taken(r)' <=> Taken(r))
      BY <2>2, <2>3 DEF LeavesOpen, Undecided, Taken, Waiting
    <3> QED
      BY <2>1, <2>3, <2>g, <3>1, SetsFollow DEF LeavesOpen, NothingMoves, Waits, Used, balanceVars
  <2>4. CASE DecidesLeave(r)
    <3>1. r \in Waits /\ r \notin Used /\ ~Undecided(r)' /\ (Taken(r)' <=> request'[r].status = "approved")
      BY <2>2, <2>4 DEF DecidesLeave, Waits, Used, Undecided, Taken, Waiting
    <3>2. r \notin Early
      BY <1>0, <3>1, WaitingIsNotEarly DEF Waits, Early
    <3> QED
      BY <2>1, <2>4, <2>g, <3>1, <3>2, SetsFollow DEF DecidesLeave, Consumes, Releases
  <2>5. CASE DecidesCancellation(r)
    <3>1. r \notin Waits /\ r \in Used /\ ~Undecided(r)' /\ (Taken(r)' <=> request'[r].status = "approved")
      BY <2>2, <2>5 DEF DecidesCancellation, Waits, Used, Undecided, Taken, Waiting
    <3> QED
      BY <2>1, <2>5, <2>g, <3>1, SetsFollow DEF DecidesCancellation, Returns, NothingMoves, balanceVars
  <2> QED
    BY <1>0, <1>3, <2>3, <2>4, <2>5, DecisionWrites
<1>4. ASSUME NEW r \in Requests, Withdraw(r) PROVE Releases(r)
  <2>1. /\ \A q \in Requests \ {r} : request'[q] = request[q]
        /\ request[r].status = "pending" /\ request[r].action = "leave_request"
        /\ request'[r].status = "withdrawn" /\ request'[r].action = "leave_request"
        /\ request'[r].workflow = request[r].workflow
        /\ ReleaseUnits(r) /\ wfStatus' = wfStatus
    BY <1>0, <1>4 DEF Withdraw, RequestRow, workflowVars
  <2>2. r \in Waits /\ r \notin Used /\ ~Undecided(r)' /\ ~Taken(r)'
    BY <2>1 DEF Waits, Used, Undecided, Taken, Waiting
  <2>3. ~CancelledEarly(r) /\ ~CancelledEarly(r)'
    BY <1>0, <2>1, <2>2, WaitingIsNotEarly DEF Waits, CancelledEarly
  <2>4. r \notin Early /\ Early' = Early
    BY <2>1, <2>3, EarlyFollows DEF Early
  <2> QED
    BY <2>1, <2>2, <2>4, SetsFollow DEF Releases
\* Approved leave that is cancelled was cancelled early before or is not now;
\* leave that only some approvers have approved is cancelled early.
<1>c. ASSUME NEW r \in Requests, CanCancel(r), \A q \in Requests \ {r} : request'[q] = request[q],
             request'[r].workflow > 1 \/ request'[r].status = "cancelled",
             request[r].workflow > 1 => request'[r].workflow > 1,
             request[r].workflow = 1 /\ request[r].status = "approved" => wfStatus[<<r, 1>>] = "approved",
             \A q \in Requests : wfStatus'[<<q, 1>>] = wfStatus[<<q, 1>>]
      PROVE  /\ request[r].status = "approved" => Early' = Early
             /\ request[r].status = "partially_approved" => r \notin Early /\ Early' = Early \cup {r}
  <2>1. CASE request[r].status = "approved"
    <3>1. request[r].workflow = 1 \/ request[r].workflow > 1
      BY <1>0, <1>w, <2>1 DEF RequestShape
    <3>2. CancelledEarly(r)' <=> CancelledEarly(r)
      BY <1>c, <2>1, <3>1 DEF CancelledEarly
    <3> QED
      BY <1>c, <2>1, <3>2, EarlyFollows DEF Early
  <2>2. CASE request[r].status = "partially_approved"
    <3>1. Undecided(r) /\ request[r].workflow = 1
      BY <1>0, <1>c, <2>2 DEF Undecided, CanCancel, Waiting, RequestShape
    <3>2. wfStatus[<<r, 1>>] = "pending"
      BY <3>1 DEF FollowInv, RequestFollowsWorkflow, WorkflowOf, Undecided
    <3>3. CancelledEarly(r)' /\ ~CancelledEarly(r)
      BY <1>0, <1>c, <3>1, <3>2, WaitingIsNotEarly DEF CancelledEarly
    <3> QED
      BY <1>c, <2>2, <3>3, EarlyFollows DEF Early
  <2> QED
    BY <2>1, <2>2
<1>a. \A r \in Requests : request[r].workflow = 1 /\ request[r].status = "approved" =>
        wfStatus[<<r, 1>>] = "approved"
  BY DEF FollowInv, RequestFollowsWorkflow, WorkflowOf
<1>5. ASSUME NEW r \in Requests, CancelDirectly(r) PROVE Returns(r) \/ CancelsReserved(r)
  <2>1. /\ \A q \in Requests \ {r} : request'[q] = request[q]
        /\ CanCancel(r) /\ request'[r].workflow = request[r].workflow
        /\ request'[r].status = "cancelled" /\ request'[r].action = "leave_request"
        /\ ReturnUnits(r) /\ wfStatus' = wfStatus
    BY <1>0, <1>5 DEF CancelDirectly, CanCancel, RequestRow, workflowVars
  <2>2. ~Undecided(r)' /\ ~Taken(r)'
    BY <2>1 DEF Undecided, Taken, Waiting
  <2>e. /\ request[r].status = "approved" => Early' = Early
        /\ request[r].status = "partially_approved" => r \notin Early /\ Early' = Early \cup {r}
    BY <1>a, <1>c, <2>1
  <2>3. CASE request[r].status = "approved"
    <3>1. r \in Used /\ r \notin Waits
      BY <2>1, <2>3 DEF Waits, Used, Undecided, Taken, Waiting
    <3> QED
      BY <2>1, <2>2, <2>3, <2>e, <3>1, SetsFollow DEF Returns
  <2>4. CASE request[r].status = "partially_approved"
    <3>1. r \in Waits /\ r \notin Used
      BY <2>1, <2>4 DEF Waits, Used, Undecided, Taken, Waiting, CanCancel
    <3> QED
      BY <2>1, <2>2, <2>4, <2>e, <3>1, SetsFollow DEF CancelsReserved
  <2> QED
    BY <2>1, <2>3, <2>4 DEF CanCancel
<1>6. ASSUME NEW r \in Requests, NEW path \in CancelRoutes, RequestCancellation(r, path)
      PROVE  NothingMoves \/ CancelsReserved(r)
  <2>0. PICK m : m = request[r].workflow + 1
    OBVIOUS
  <2>1. /\ \A q \in Requests \ {r} : request'[q] = request[q]
        /\ CanCancel(r) /\ UNCHANGED balanceVars /\ m <= MaxWorkflows
        /\ request'[r].status = "pending" /\ request'[r].action = "cancellation_request"
        /\ request'[r].workflow = m /\ wf!Create(<<r, m>>, path, Employee)
    BY <1>0, <1>6, <2>0 DEF RequestCancellation, CanCancel, RequestRow
  <2>a. request[r].workflow # 0
    BY <1>0, <2>1 DEF RequestShape, CanCancel
  <2>b. m > 1 /\ m \in 1..MaxWorkflows
    BY <1>w, <2>0, <2>1, <2>a, LeaveAssumption
  <2>c. \A q \in Requests : wfStatus'[<<q, 1>>] = wfStatus[<<q, 1>>]
    <3>1. \A j \in Workflows \ {<<r, m>>} : wfStatus'[j] = wfStatus[j]
      BY <1>0, <1>p, <2>1, <2>b, CreateEffect
    <3>2. \A q \in Requests : <<q, 1>> \in Workflows /\ <<q, 1>> # <<r, m>>
      <4>1. m # 1
        BY <2>b, LeaveAssumption
      <4> QED
        BY <1>n, <1>p, <4>1
    <3> QED
      BY <3>1, <3>2
  <2>2. ~Undecided(r)' /\ Taken(r)'
    BY <2>1 DEF Undecided, Taken, Waiting
  <2>e. /\ request[r].status = "approved" => Early' = Early
        /\ request[r].status = "partially_approved" => r \notin Early /\ Early' = Early \cup {r}
    <3>1. request'[r].workflow > 1
      BY <2>1, <2>b
    <3> QED
      BY <1>a, <1>c, <2>1, <2>c, <3>1
  <2>3. CASE request[r].status = "approved"
    <3>1. r \in Used /\ r \notin Waits
      BY <2>1, <2>3 DEF Waits, Used, Undecided, Taken, Waiting
    <3> QED
      BY <2>1, <2>2, <2>3, <2>e, <3>1, SetsFollow DEF NothingMoves, balanceVars
  <2>4. CASE request[r].status = "partially_approved"
    <3>1. r \in Waits /\ r \notin Used
      BY <2>1, <2>4 DEF Waits, Used, Undecided, Taken, Waiting, CanCancel
    <3> QED
      BY <2>1, <2>2, <2>4, <2>e, <3>1, SetsFollow DEF CancelsReserved, balanceVars
  <2> QED
    BY <2>1, <2>3, <2>4 DEF CanCancel
<1> QED
  BY <1>0, <1>1, <1>2, <1>3, <1>4, <1>5, <1>6, StepKinds

\* What was submitted stays submitted.
LEMMA SubmittedStays ==
  ASSUME Consistent, [Next]_leaveVars, NEW q \in Requests, request[q].status # "none"
  PROVE  request'[q].status # "none"
<1>0. TypeOK /\ request \in [Requests -> RequestRow]
  BY DEF Consistent, TypeOK, RequestRow
<1>1. CASE Quiet
  BY <1>1 DEF Quiet
<1>2. ASSUME NEW s \in Submitters, NEW path \in LeaveRoutes, Submit(s, path)
      PROVE  request'[q].status # "none"
  BY <1>2, SubmitWrites
<1>3. ASSUME NEW r \in Requests, Decision(r) PROVE request'[q].status # "none"
  BY <1>3, DecisionWrites DEF LeavesOpen, DecidesLeave, DecidesCancellation
<1>4. ASSUME NEW r \in Requests,
             \/ Withdraw(r) \/ CancelDirectly(r)
             \/ \E path \in CancelRoutes : RequestCancellation(r, path)
      PROVE  request'[q].status # "none"
  BY <1>0, <1>4 DEF Withdraw, CancelDirectly, RequestCancellation, RequestRow
<1> QED
  BY <1>0, <1>1, <1>2, <1>3, <1>4, StepKinds
-----------------------------------------------------------------------------
(* Sums over sets of requests.                                             *)

\* How a sum follows its set, in numbers.
LEMMA SumsFollow ==
  ASSUME NEW S \in SUBSET Requests, NEW r \in Requests
  PROVE  /\ TotalUnits(S) \in Nat
         /\ r \notin S => TotalUnits(S \cup {r}) = TotalUnits(S) + Units[r]
         /\ r \in S => TotalUnits(S \ {r}) = TotalUnits(S) - Units[r] /\ TotalUnits(S) >= Units[r]
<1>1. TotalUnits(S) \in Nat /\ TotalUnits(S \ {r}) \in Nat /\ Units[r] \in Nat
  BY TotalIsNat, LeaveAssumption
<1>2. r \notin S => TotalUnits(S \cup {r}) = TotalUnits(S) + Units[r]
  BY TotalWith
<1>3. r \in S => TotalUnits(S) = TotalUnits(S \ {r}) + Units[r]
  BY TotalWithout
<1> QED
  BY <1>1, <1>2, <1>3

LEMMA TotalOfPart ==
  ASSUME NEW T \in SUBSET Requests, NEW S \in SUBSET T PROVE TotalUnits(S) <= TotalUnits(T)
<1>1. UnitsOf(S) \subseteq UnitsOf(T)
  BY DEF UnitsOf
<1> QED
  BY <1>1, UnitsFinite, FS_Subset DEF TotalUnits

LEMMA TotalOfTwo ==
  ASSUME NEW S \in SUBSET Requests, NEW T \in SUBSET Requests
  PROVE  TotalUnits(S \cup T) <= TotalUnits(S) + TotalUnits(T)
<1>1. UnitsOf(S \cup T) = UnitsOf(S) \cup UnitsOf(T)
  BY DEF UnitsOf
<1>2. IsFiniteSet(UnitsOf(S)) /\ IsFiniteSet(UnitsOf(T)) /\ IsFiniteSet(UnitsOf(S) \cap UnitsOf(T))
  BY UnitsFinite, FS_Intersection
<1>3. Cardinality(UnitsOf(S) \cup UnitsOf(T))
        = Cardinality(UnitsOf(S)) + Cardinality(UnitsOf(T)) - Cardinality(UnitsOf(S) \cap UnitsOf(T))
  BY <1>2, FS_Union
<1>4. /\ Cardinality(UnitsOf(S)) \in Nat /\ Cardinality(UnitsOf(T)) \in Nat
      /\ Cardinality(UnitsOf(S) \cap UnitsOf(T)) \in Nat
  BY <1>2, FS_CardinalityType
<1>5. Cardinality(UnitsOf(S) \cup UnitsOf(T)) <= Cardinality(UnitsOf(S)) + Cardinality(UnitsOf(T))
  BY ONLY <1>3, <1>4
<1> QED
  BY <1>1, <1>5 DEF TotalUnits

\* The leave that is undecided or taken and is granted no more than r.
Claimed(r) == {q \in Waits \cup Used : Entitlement[q] <= Entitlement[r]}

\* The amounts cover the requests and never exceed what is granted.
AmountsCover ==
  /\ reserved >= TotalUnits(Waits)
  /\ reserved + consumed >= TotalUnits(Waits) + TotalUnits(Used)
  /\ NeverOverdrawn

BalanceInv == FollowInv /\ AmountsCover

\* The three conjuncts of NeverOverdrawn, in the terms of this proof.
WithinGrants == \A r \in Requests : TotalUnits(Claimed(r)) <= Entitlement[r]
AmountsWithinGrants ==
  reserved + consumed > 0 =>
    \E r \in Requests : request[r].status # "none" /\ reserved + consumed <= Entitlement[r]

LEMMA NeverOverdrawnIs == NeverOverdrawn <=> WithinGrants /\ AmountsWithinGrants
<1>1. ASSUME NEW r \in Requests
      PROVE  {q \in Requests : (Undecided(q) \/ Taken(q)) /\ Entitlement[q] <= Entitlement[r]} = Claimed(r)
  BY DEF Claimed, Waits, Used
<1> QED
  BY <1>1 DEF NeverOverdrawn, WithinGrants, AmountsWithinGrants

LEMMA NextSums ==
  /\ TotalUnits(Waits)' = TotalUnits(Waits') /\ TotalUnits(Used)' = TotalUnits(Used')
  /\ \A r : TotalUnits(Claimed(r))' = TotalUnits(Claimed(r)')
  /\ \A r : Claimed(r)' = {q \in Waits' \cup Used' : Entitlement[q] <= Entitlement[r]}
BY DEF TotalUnits, UnitsOf, Claimed

\* A move in numbers: w and u are the sums of the two sets.
LEMMA MoveAmounts ==
  ASSUME Consistent, NEW r \in Requests, NEW w, NEW u, NEW a,
         w = TotalUnits(Waits), u = TotalUnits(Used), a = Units[r]
  PROVE  /\ w \in Nat /\ u \in Nat /\ a \in Nat
         /\ reserved \in Nat /\ consumed \in Nat /\ Entitlement[r] \in Nat
         /\ Reserves(r) => /\ TotalUnits(Waits') = w + a /\ TotalUnits(Used') = u
                           /\ reserved' = reserved + a /\ consumed' = consumed
                           /\ a <= Entitlement[r] - consumed - reserved
         /\ Releases(r) => /\ TotalUnits(Waits') = w - a /\ a <= w /\ TotalUnits(Used') = u
                           /\ reserved' = AtLeastZero(reserved - a) /\ consumed' = consumed
         /\ Consumes(r) => /\ TotalUnits(Waits') = w - a /\ a <= w /\ TotalUnits(Used') = u + a
                           /\ reserved' = AtLeastZero(reserved - a) /\ consumed' = consumed + a
         /\ Returns(r) => /\ TotalUnits(Waits') = w /\ TotalUnits(Used') = u - a /\ a <= u
                          /\ reserved' = reserved /\ consumed' = AtLeastZero(consumed - a)
         /\ CancelsReserved(r) =>
              /\ TotalUnits(Waits') = w - a /\ a <= w
              /\ reserved' = reserved
              /\ \/ TotalUnits(Used') = u /\ consumed' = AtLeastZero(consumed - a)
                 \/ TotalUnits(Used') = u + a /\ consumed' = consumed
<1>0. Waits \in SUBSET Requests /\ Used \in SUBSET Requests
  BY DEF Waits, Used
<1>1. /\ w \in Nat /\ u \in Nat /\ a \in Nat
      /\ reserved \in Nat /\ consumed \in Nat /\ Entitlement[r] \in Nat
  BY <1>0, SumsFollow, LeaveAssumption DEF Consistent, TypeOK
<1>2. ASSUME Reserves(r)
      PROVE  /\ TotalUnits(Waits') = w + a /\ TotalUnits(Used') = u
             /\ reserved' = reserved + a /\ consumed' = consumed
             /\ a <= Entitlement[r] - consumed - reserved
  BY <1>0, <1>2, SumsFollow DEF Reserves, ReserveUnits, SetBalance, Available
<1>3. ASSUME Releases(r)
      PROVE  /\ TotalUnits(Waits') = w - a /\ a <= w /\ TotalUnits(Used') = u
             /\ reserved' = AtLeastZero(reserved - a) /\ consumed' = consumed
  BY <1>0, <1>3, SumsFollow DEF Releases, ReleaseUnits, SetBalance
<1>4. ASSUME Consumes(r)
      PROVE  /\ TotalUnits(Waits') = w - a /\ a <= w /\ TotalUnits(Used') = u + a
             /\ reserved' = AtLeastZero(reserved - a) /\ consumed' = consumed + a
  BY <1>0, <1>4, SumsFollow DEF Consumes, ConsumeUnits, SetBalance
<1>5. ASSUME Returns(r)
      PROVE  /\ TotalUnits(Waits') = w /\ TotalUnits(Used') = u - a /\ a <= u
             /\ reserved' = reserved /\ consumed' = AtLeastZero(consumed - a)
  BY <1>0, <1>5, SumsFollow DEF Returns, ReturnUnits, SetBalance
<1>6. ASSUME CancelsReserved(r)
      PROVE  /\ TotalUnits(Waits') = w - a /\ a <= w
             /\ reserved' = reserved
             /\ \/ TotalUnits(Used') = u /\ consumed' = AtLeastZero(consumed - a)
                \/ TotalUnits(Used') = u + a /\ consumed' = consumed
  BY <1>0, <1>6, SumsFollow DEF CancelsReserved, ReturnUnits, SetBalance
<1> QED
  BY <1>1, <1>2, <1>3, <1>4, <1>5, <1>6

LEMMA SumStaysZero ==
  ASSUME NEW m \in Nat, NEW n \in Nat, NEW k \in Nat, NEW l \in Nat,
         m + n <= k + l, ~(k + l > 0)
  PROVE  ~(m + n > 0)
OBVIOUS

LEMMA BalanceNext == ASSUME BalanceInv, [Next]_leaveVars PROVE BalanceInv'
<1>0. FollowInv /\ FollowInv' /\ Consistent /\ AmountsCover /\ WithinGrants /\ AmountsWithinGrants
  BY FollowNext, NeverOverdrawnIs DEF BalanceInv, AmountsCover, FollowInv
<1>1. CASE NothingMoves
  <2>1. WithinGrants'
    BY <1>0, <1>1, NextSums DEF WithinGrants, NothingMoves, Claimed
  <2>2. AmountsWithinGrants'
    BY <1>0, <1>1, SubmittedStays DEF AmountsWithinGrants, NothingMoves
  <2>3. NeverOverdrawn'
    BY <2>1, <2>2, NeverOverdrawnIs, PTL
  <2>4. /\ (reserved >= TotalUnits(Waits))'
        /\ (reserved + consumed >= TotalUnits(Waits) + TotalUnits(Used))'
    BY <1>0, <1>1, NextSums DEF NothingMoves, AmountsCover
  <2> QED
    BY <1>0, <2>3, <2>4 DEF BalanceInv, AmountsCover
<1>2. ASSUME NEW r \in Requests,
             Reserves(r) \/ Releases(r) \/ Consumes(r) \/ Returns(r) \/ CancelsReserved(r)
      PROVE  BalanceInv'
  <2>1. PICK w, u, a : w = TotalUnits(Waits) /\ u = TotalUnits(Used) /\ a = Units[r]
    OBVIOUS
  <2>2. reserved >= w /\ reserved + consumed >= w + u
    BY <1>0, <2>1 DEF AmountsCover
  <2> DEFINE Covered(w2, u2) == reserved' >= w2 /\ reserved' + consumed' >= w2 + u2
             Grows == /\ reserved' + consumed' <= Entitlement[r]
                      /\ Reserves(r)
             Shrinks == /\ reserved' + consumed' <= reserved + consumed
                        /\ Waits' \cup Used' \subseteq Waits \cup Used
                        /\ reserved' \in Nat /\ consumed' \in Nat
  <2>3. Covered(TotalUnits(Waits'), TotalUnits(Used')) /\ (Grows \/ Shrinks)
    <3>1. CASE Reserves(r)
      BY <1>0, <2>1, <2>2, <3>1, MoveAmounts DEF AtLeastZero
    <3>2. CASE Releases(r)
      <4>1. Waits' \cup Used' \subseteq Waits \cup Used
        BY <3>2 DEF Releases
      <4> QED
        BY <1>0, <2>1, <2>2, <3>2, <4>1, MoveAmounts DEF AtLeastZero
    <3>3. CASE Consumes(r)
      <4>1. Waits' \cup Used' \subseteq Waits \cup Used
        BY <3>3 DEF Consumes
      <4> QED
        BY <1>0, <2>1, <2>2, <3>3, <4>1, MoveAmounts DEF AtLeastZero
    <3>4. CASE Returns(r)
      <4>1. Waits' \cup Used' \subseteq Waits \cup Used
        BY <3>4 DEF Returns
      <4> QED
        BY <1>0, <2>1, <2>2, <3>4, <4>1, MoveAmounts DEF AtLeastZero
    <3>5. CASE CancelsReserved(r)
      <4>1. Waits' \cup Used' \subseteq Waits \cup Used
        BY <3>5 DEF CancelsReserved
      <4> QED
        BY <1>0, <2>1, <2>2, <3>5, <4>1, MoveAmounts DEF AtLeastZero
    <3> QED
      BY <1>2, <3>1, <3>2, <3>3, <3>4, <3>5
  <2>c. ASSUME AmountsWithinGrants', \A q \in Requests : TotalUnits(Claimed(q)') <= Entitlement[q]
        PROVE  BalanceInv'
    <3>1. WithinGrants'
      BY <2>c, NextSums DEF WithinGrants
    <3>2. NeverOverdrawn'
      BY <2>c, <3>1, NeverOverdrawnIs, PTL
    <3>3. /\ (reserved >= TotalUnits(Waits))'
          /\ (reserved + consumed >= TotalUnits(Waits) + TotalUnits(Used))'
      BY <2>3, NextSums
    <3> QED
      BY <1>0, <3>2, <3>3 DEF BalanceInv, AmountsCover
  <2>4. CASE Grows
    <3>1. (r \in Waits)' /\ request'[r].status # "none"
      BY <1>0, <2>4 DEF Reserves, Waits, Undecided, Waiting
    <3>2. AmountsWithinGrants'
      BY <2>4, <3>1 DEF AmountsWithinGrants
    <3>3. ASSUME NEW q \in Requests PROVE TotalUnits(Claimed(q)') <= Entitlement[q]
      <4>1. CASE Entitlement[r] <= Entitlement[q]
        <5>1. /\ Waits' \in SUBSET Requests /\ Used' \in SUBSET Requests
              /\ Claimed(q)' \in SUBSET (Waits' \cup Used')
          BY NextSums DEF Waits, Used
        <5>2. /\ TotalUnits(Claimed(q)') <= TotalUnits(Waits' \cup Used')
              /\ TotalUnits(Waits' \cup Used') <= TotalUnits(Waits') + TotalUnits(Used')
          BY <5>1, TotalOfPart, TotalOfTwo
        <5>3. /\ TotalUnits(Claimed(q)') \in Nat /\ TotalUnits(Waits' \cup Used') \in Nat
              /\ TotalUnits(Waits') \in Nat /\ TotalUnits(Used') \in Nat
          BY <5>1, TotalIsNat
        <5>4. reserved' \in Nat /\ consumed' \in Nat /\ Entitlement[r] \in Nat /\ Entitlement[q] \in Nat
          BY <1>0, LeaveAssumption DEF FollowInv, Consistent, TypeOK
        <5> QED
          BY <2>3, <2>4, <4>1, <5>2, <5>3, <5>4
      <4>2. CASE ~(Entitlement[r] <= Entitlement[q])
        <5>1. Claimed(q)' = Claimed(q)
          BY <2>4, <4>2, NextSums DEF Reserves, Claimed
        <5> QED
          BY <1>0, <5>1 DEF WithinGrants
      <4> QED
        BY <4>1, <4>2
    <3> QED
      BY <3>2, <3>3, <2>c
  <2>5. CASE Shrinks
    <3>2. AmountsWithinGrants'
      <4>0. /\ reserved' + consumed' <= reserved + consumed
            /\ reserved' \in Nat /\ consumed' \in Nat /\ reserved \in Nat /\ consumed \in Nat
        BY <1>0, <2>5 DEF Consistent, TypeOK
      <4>1. CASE ~(reserved + consumed > 0)
        <5>1. ~(reserved' + consumed' > 0)
          BY <4>0, <4>1, SumStaysZero, Zenon
        <5> QED
          BY <5>1 DEF AmountsWithinGrants
      <4>2. ASSUME NEW q \in Requests, request[q].status # "none", reserved + consumed <= Entitlement[q]
            PROVE  AmountsWithinGrants'
        <5>1. /\ reserved' + consumed' \in Nat /\ reserved + consumed \in Nat
              /\ Entitlement[q] \in Nat
          BY <1>0, <2>5, LeaveAssumption DEF Consistent, TypeOK
        <5>2. reserved' + consumed' <= Entitlement[q]
          BY <2>5, <4>2, <5>1
        <5> QED
          BY <1>0, <4>2, <5>2, SubmittedStays DEF AmountsWithinGrants
      <4> QED
        BY <1>0, <4>1, <4>2 DEF AmountsWithinGrants
    <3>3. ASSUME NEW q \in Requests PROVE TotalUnits(Claimed(q)') <= Entitlement[q]
      <4>1. Claimed(q) \in SUBSET Requests /\ Claimed(q)' \in SUBSET Claimed(q)
        BY <2>5, NextSums DEF Claimed, Waits, Used
      <4>2. TotalUnits(Claimed(q)') <= TotalUnits(Claimed(q)) /\ TotalUnits(Claimed(q)) <= Entitlement[q]
        BY <1>0, <4>1, TotalOfPart DEF WithinGrants
      <4>3. TotalUnits(Claimed(q)') \in Nat /\ TotalUnits(Claimed(q)) \in Nat /\ Entitlement[q] \in Nat
        BY <4>1, TotalIsNat, LeaveAssumption
      <4> QED
        BY <4>2, <4>3
    <3> QED
      BY <3>2, <3>3, <2>c
  <2> QED
    BY <2>3, <2>4, <2>5
<1> QED
  BY <1>0, <1>1, <1>2, BalanceMoves DEF BalanceInv

LEMMA BalanceInit == Init => BalanceInv
<1> SUFFICES ASSUME Init PROVE BalanceInv
  OBVIOUS
<1>1. Waits = {} /\ Used = {}
  BY DEF Init, NewRequest, Waits, Used, Undecided, Taken, Waiting
<1>2. \A r \in Requests : Claimed(r) = {}
  BY <1>1 DEF Claimed
<1>3. WithinGrants
  <2>1. ASSUME NEW r \in Requests PROVE TotalUnits(Claimed(r)) = 0 /\ Entitlement[r] \in Nat
    BY <1>2, TotalOfNone, LeaveAssumption
  <2> QED
    BY <2>1 DEF WithinGrants
<1>4. AmountsWithinGrants
  BY DEF Init, AmountsWithinGrants
<1> QED
  BY <1>1, <1>3, <1>4, FollowInit, NeverOverdrawnIs, TotalOfNone DEF Init, BalanceInv, AmountsCover

\* However submissions, decisions and cancellations interleave, and whatever
\* closing balances are stored in between, no leave exceeds what is granted.
THEOREM LeaveNeverOverdrawn == Spec => []NeverOverdrawn
<1>1. BalanceInv => NeverOverdrawn
  BY DEF BalanceInv, AmountsCover
<1>2. BalanceInv /\ [Next]_leaveVars => BalanceInv'
  BY BalanceNext
<1> QED
  BY BalanceInit, <1>1, <1>2, PTL DEF Spec
-----------------------------------------------------------------------------
(* The balance and the requests.                                           *)

\* The requests whose units are reserved, and those that account for the
\* consumed ones.
Held == Waits \cup Early
Own == Used \ Early

\* BalanceMatchesRequests, in the terms of this proof.
LEMMA BalanceMatchesIs ==
  BalanceMatchesRequests <=>
    /\ reserved = TotalUnits(Held) /\ consumed <= TotalUnits(Own)
    /\ Early = {} => consumed = TotalUnits(Used)
BY DEF BalanceMatchesRequests, Held, Own, Waits, Used, Early

LEMMA NextHolds ==
  /\ TotalUnits(Held)' = TotalUnits(Held') /\ TotalUnits(Own)' = TotalUnits(Own')
  /\ TotalUnits(Used)' = TotalUnits(Used')
  /\ Held' = Waits' \cup Early' /\ Own' = Used' \ Early'
BY DEF TotalUnits, UnitsOf, Held, Own

LEMMA BalanceMatchesNext ==
  ASSUME FollowInv, BalanceMatchesRequests, [Next]_leaveVars
  PROVE  BalanceMatchesRequests'
<1> DEFINE Matches == /\ reserved' = TotalUnits(Held') /\ consumed' <= TotalUnits(Own')
                      /\ Early' = {} => consumed' = TotalUnits(Used')
<1>0. /\ reserved = TotalUnits(Held) /\ consumed <= TotalUnits(Own)
      /\ Early = {} => consumed = TotalUnits(Used)
  BY BalanceMatchesIs
<1>1. reserved \in Nat /\ consumed \in Nat
  BY DEF FollowInv, Consistent, TypeOK
<1>2. Held \in SUBSET Requests /\ Own \in SUBSET Requests /\ Used \in SUBSET Requests
  BY DEF Held, Own, Waits, Used, Early
<1>3. ASSUME NothingMoves PROVE Matches
  <2>1. Held' = Held /\ Own' = Own /\ Used' = Used /\ Early' = Early
    BY <1>3, NextHolds DEF NothingMoves, Held, Own
  <2> QED
    BY <1>0, <1>3, <2>1 DEF NothingMoves
<1>4. ASSUME NEW r \in Requests, Reserves(r) PROVE Matches
  <2>1. Held' = Held \cup {r} /\ r \notin Held /\ Own' = Own /\ Used' = Used /\ Early' = Early
    BY <1>4, NextHolds DEF Reserves, Held, Own
  <2>2. reserved' = reserved + Units[r] /\ consumed' = consumed
    BY <1>4 DEF Reserves, ReserveUnits, SetBalance
  <2>3. TotalUnits(Held') = TotalUnits(Held) + Units[r]
    BY <1>2, <2>1, SumsFollow
  <2> QED
    BY <1>0, <2>1, <2>2, <2>3
<1>5. ASSUME NEW r \in Requests, Releases(r) PROVE Matches
  <2>1. Held' = Held \ {r} /\ r \in Held /\ Own' = Own /\ Used' = Used /\ Early' = Early
    BY <1>5, NextHolds DEF Releases, Held, Own
  <2>2. reserved' = AtLeastZero(reserved - Units[r]) /\ consumed' = consumed
    BY <1>5 DEF Releases, ReleaseUnits, SetBalance
  <2>3. TotalUnits(Held') = TotalUnits(Held) - Units[r] /\ TotalUnits(Held) >= Units[r]
    BY <1>2, <2>1, SumsFollow
  <2>4. reserved' = TotalUnits(Held')
    <3>1. PICK h, a : h = TotalUnits(Held) /\ a = Units[r]
      OBVIOUS
    <3>2. a \in Nat
      BY <3>1, LeaveAssumption
    <3> QED
      BY <1>0, <1>1, <2>2, <2>3, <3>1, <3>2 DEF AtLeastZero
  <2> QED
    BY <1>0, <2>1, <2>2, <2>4
<1>6. ASSUME NEW r \in Requests, Consumes(r) PROVE Matches
  <2>1. /\ Held' = Held \ {r} /\ r \in Held /\ Own' = Own \cup {r} /\ r \notin Own
        /\ Used' = Used \cup {r} /\ r \notin Used /\ Early' = Early
    BY <1>6, NextHolds DEF Consumes, Held, Own
  <2>2. reserved' = AtLeastZero(reserved - Units[r]) /\ consumed' = consumed + Units[r]
    BY <1>6 DEF Consumes, ConsumeUnits, SetBalance
  <2>3. /\ TotalUnits(Held') = TotalUnits(Held) - Units[r] /\ TotalUnits(Held) >= Units[r]
        /\ TotalUnits(Own') = TotalUnits(Own) + Units[r] /\ TotalUnits(Own) \in Nat
        /\ TotalUnits(Used') = TotalUnits(Used) + Units[r]
    BY <1>2, <2>1, SumsFollow
  <2>4. PICK h, o, u, a : /\ h = TotalUnits(Held) /\ o = TotalUnits(Own)
                          /\ u = TotalUnits(Used) /\ a = Units[r]
    OBVIOUS
  <2>5. a \in Nat
    BY <2>4, LeaveAssumption
  <2> QED
    BY <1>0, <1>1, <2>1, <2>2, <2>3, <2>4, <2>5 DEF AtLeastZero
<1>7. ASSUME NEW r \in Requests, Returns(r) PROVE Matches
  <2>1. /\ Held' = Held /\ r \in Used /\ Used' = Used \ {r} /\ Early' = Early
        /\ Own' = IF r \in Early THEN Own ELSE Own \ {r}
        /\ r \notin Early => r \in Own
    BY <1>7, NextHolds DEF Returns, Held, Own
  <2>2. reserved' = reserved /\ consumed' = AtLeastZero(consumed - Units[r])
    BY <1>7 DEF Returns, ReturnUnits, SetBalance
  <2>3. /\ TotalUnits(Used') = TotalUnits(Used) - Units[r] /\ TotalUnits(Used) >= Units[r]
        /\ r \in Own => TotalUnits(Own \ {r}) = TotalUnits(Own) - Units[r] /\ TotalUnits(Own) >= Units[r]
        /\ TotalUnits(Own) \in Nat /\ TotalUnits(Used) \in Nat
    BY <1>2, <2>1, SumsFollow
  <2>4. PICK a : a = Units[r] /\ a \in Nat
    BY LeaveAssumption
  <2>5. consumed' <= TotalUnits(Own')
    <3>1. CASE r \in Early
      BY <1>0, <1>1, <2>1, <2>2, <2>3, <2>4, <3>1 DEF AtLeastZero
    <3>2. CASE r \notin Early
      BY <1>0, <1>1, <2>1, <2>2, <2>3, <2>4, <3>2 DEF AtLeastZero
    <3> QED
      BY <3>1, <3>2
  <2>6. Early' = {} => consumed' = TotalUnits(Used')
    BY <1>0, <1>1, <2>1, <2>2, <2>3, <2>4 DEF AtLeastZero
  <2> QED
    BY <1>0, <2>1, <2>2, <2>5, <2>6
<1>8. ASSUME NEW r \in Requests, CancelsReserved(r) PROVE Matches
  <2>1. Held' = Held /\ Own' = Own /\ Early' # {}
    BY <1>8, NextHolds DEF CancelsReserved, Held, Own
  <2>2. reserved' = reserved /\ (consumed' = consumed \/ consumed' = AtLeastZero(consumed - Units[r]))
    BY <1>8 DEF CancelsReserved, ReturnUnits, SetBalance
  <2>3. consumed' <= consumed /\ consumed' \in Nat
    <3>1. PICK a : a = Units[r] /\ a \in Nat
      BY LeaveAssumption
    <3> QED
      BY <1>1, <2>2, <3>1 DEF AtLeastZero
  <2>4. TotalUnits(Own) \in Nat
    BY <1>2, TotalIsNat
  <2> QED
    BY <1>0, <1>1, <2>1, <2>2, <2>3, <2>4
<1>9. Matches
  <2> HIDE DEF Matches
  <2> QED
    BY <1>3, <1>4, <1>5, <1>6, <1>7, <1>8, BalanceMoves
<1>10. (/\ reserved = TotalUnits(Held) /\ consumed <= TotalUnits(Own)
        /\ Early = {} => consumed = TotalUnits(Used))'
  BY <1>9, NextHolds
<1> QED
  BY <1>10, BalanceMatchesIs, PTL

\* Through any sequence of calls, on any route, the balance accounts for the
\* requests, but for the units of leave that was cancelled between approvals.
THEOREM LeaveBalanceMatches == Spec => []BalanceMatchesRequests
<1> DEFINE Inv == FollowInv /\ BalanceMatchesRequests
<1>1. Init => Inv
  <2> SUFFICES ASSUME Init PROVE BalanceMatchesRequests
    BY FollowInit
  <2>1. Held = {} /\ Own = {} /\ Used = {}
    BY DEF Init, wf!Init, NewRequest, Held, Own, Waits, Used, Early, Undecided, Taken, Waiting,
           CancelledEarly
  <2> QED
    BY <2>1, TotalOfNone, BalanceMatchesIs DEF Init
<1>2. Inv /\ [Next]_leaveVars => Inv'
  BY FollowNext, BalanceMatchesNext
<1>3. Inv => BalanceMatchesRequests
  OBVIOUS
<1> HIDE DEF Inv
<1> QED
  BY <1>1, <1>2, <1>3, PTL DEF Spec
-----------------------------------------------------------------------------
(* Automatic decisions.                                                    *)

\* The last entry of a log is the one that was appended.
LEMMA LoggedEntry ==
  ASSUME TypeOK, NEW i \in Workflows, NEW e, wfLog'[i] = Append(wfLog[i], e)
  PROVE  wfLog'[i][Len(wfLog'[i])] = e
BY DEF TypeOK, wf!TypeOK

LEMMA DecisionLogs ==
  ASSUME TypeOK, NEW r \in Requests, NEW actor, NEW b, Decide(r, actor, b)
  PROVE  /\ \A j \in Workflows \ {WorkflowOf(r)} : wfLog'[j] = wfLog[j]
         /\ wfLog'[WorkflowOf(r)][Len(wfLog'[WorkflowOf(r)])].actor = actor
<1>1. WorkflowOf(r) \in Workflows
  BY WorkflowOfIsWorkflow DEF Decide
<1>2. engine!Resolve(WorkflowOf(r), actor, IF b THEN "approve" ELSE "reject")
  BY EngineResolve DEF Decide
<1>3. /\ \A j \in Workflows \ {WorkflowOf(r)} : wfLog'[j] = wfLog[j]
      /\ \E e : e.actor = actor /\ wfLog'[WorkflowOf(r)] = Append(wfLog[WorkflowOf(r)], e)
  BY <1>1, <1>2, EngineAssumption, EngineTypeOK, engine!ResolveLogs DEF TypeOK
<1> QED
  BY <1>1, <1>3, LoggedEntry

LEMMA CreateLogs ==
  ASSUME TypeOK, NEW i \in Workflows, NEW path, wf!Create(i, path, Employee)
  PROVE  /\ \A j \in Workflows \ {i} : wfLog'[j] = wfLog[j]
         /\ wfLog'[i][Len(wfLog'[i])].actor # System
<1>1. PICK e : e.actor = Employee /\ wfLog' = [wfLog EXCEPT ![i] = Append(@, e)]
  BY DEF wf!Create
<1>2. wfLog'[i] = Append(wfLog[i], e) /\ \A j \in Workflows \ {i} : wfLog'[j] = wfLog[j]
  BY <1>1 DEF TypeOK, wf!TypeOK
<1> QED
  BY <1>1, <1>2, LoggedEntry, LeaveAssumption

\* A timer decides nothing but the open step whose deadline has passed.
THEOREM LeaveAutoAfterDeadline == Spec => AutoOnlyAfterDeadline
<1> DEFINE AutoRule == \A i \in Workflows :
                 Len(wfLog'[i]) > Len(wfLog[i]) /\ wfLog'[i][Len(wfLog'[i])].actor = System =>
                   i \in overdue /\ request[i[1]].status \in Waiting /\ i[2] = 1
<1>1. ASSUME Consistent, [Next]_leaveVars PROVE [AutoRule]_leaveVars
  <2>0. TypeOK
    BY <1>1 DEF Consistent
  <2>1. ASSUME wfLog' = wfLog PROVE AutoRule
    <3>1. \A i \in Workflows : Len(wfLog[i]) \in Nat
      BY <2>0 DEF TypeOK, wf!TypeOK
    <3> QED
      BY <2>1, <3>1
  <2>2. ASSUME NEW i \in Workflows, \A j \in Workflows \ {i} : wfLog'[j] = wfLog[j],
               wfLog'[i][Len(wfLog'[i])].actor # System
        PROVE  AutoRule
    <3>1. \A j \in Workflows : Len(wfLog[j]) \in Nat
      BY <2>0 DEF TypeOK, wf!TypeOK
    <3> QED
      BY <2>2, <3>1
  <2>3. ASSUME NEW s \in Sessions, CloseSession(s) PROVE AutoRule
    <3>1. session[s].request \in Requests /\ session[s].actor # System
      BY <1>1, <2>0, <2>3 DEF CloseSession, TypeOK, Consistent, CallerShape
    <3>2. Decide(session[s].request, session[s].actor, session[s].approve)
      BY <2>3 DEF CloseSession
    <3>3. WorkflowOf(session[s].request) \in Workflows
      BY <2>0, <3>1, <3>2, WorkflowOfIsWorkflow DEF Decide
    <3> QED
      BY <2>0, <2>2, <3>1, <3>2, <3>3, DecisionLogs
  <2>4. ASSUME NEW t \in Timers, AutoApprove(t) PROVE AutoRule
    <3>1. PICK r \in Requests : r = timer[t]
      BY <2>0, <2>4 DEF AutoApprove, TypeOK
    <3>2. Due(r) /\ Decide(r, System, TRUE)
      BY <2>4, <3>1 DEF AutoApprove
    <3>3. \A j \in Workflows \ {WorkflowOf(r)} : wfLog'[j] = wfLog[j]
      BY <2>0, <3>2, DecisionLogs
    <3>4. /\ WorkflowOf(r) \in overdue /\ request[WorkflowOf(r)[1]].status \in Waiting
          /\ WorkflowOf(r)[2] = 1
      BY <1>1, <3>2 DEF Due, WorkflowOf, Consistent, CallerShape
    <3>5. \A j \in Workflows : Len(wfLog[j]) \in Nat
      BY <2>0 DEF TypeOK, wf!TypeOK
    <3> QED
      BY <3>3, <3>4, <3>5
  <2>5. ASSUME NEW s \in Submitters, NEW path \in LeaveRoutes, Submit(s, path) PROVE AutoRule
    <3>1. <<submitter[s], 1>> \in Workflows /\ wf!Create(<<submitter[s], 1>>, path, Employee)
      BY <2>0, <2>5, LeaveAssumption DEF Submit, TypeOK, Workflows
    <3> QED
      BY <2>0, <2>2, <3>1, CreateLogs
  <2>6. ASSUME NEW r \in Requests, NEW path \in CancelRoutes, RequestCancellation(r, path) PROVE AutoRule
    <3>1. PICK n : n = request[r].workflow + 1
      OBVIOUS
    <3>2. <<r, n>> \in Workflows /\ wf!Create(<<r, n>>, path, Employee)
      BY <2>0, <2>6, <3>1, LeaveAssumption DEF RequestCancellation, TypeOK, Workflows
    <3> QED
      BY <2>0, <2>2, <3>2, CreateLogs
  <2>7. ASSUME Quiet \/ \E r \in Requests : Withdraw(r) \/ CancelDirectly(r) PROVE AutoRule
    <3>1. wfLog' = wfLog
      BY <2>7 DEF Quiet, Withdraw, CancelDirectly, workflowVars
    <3> QED
      BY <2>1, <3>1
  <2> QED
    BY <1>1, <2>0, <2>3, <2>4, <2>5, <2>6, <2>7, StepKinds DEF ByCaller
<1>2. Consistent /\ [Next]_leaveVars => Consistent'
  BY ConsistentNext
<1>3. Consistent /\ [Next]_leaveVars => [AutoRule]_leaveVars
  BY <1>1
<1> QED
  BY ConsistentInit, <1>2, <1>3, PTL DEF Spec, AutoOnlyAfterDeadline
=============================================================================
