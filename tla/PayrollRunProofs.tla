-------------------------- MODULE PayrollRunProofs --------------------------
(***************************************************************************)
(* Type correctness of PayrollRun and the four-eyes rule for any number of *)
(* handlers, users, calculations and exceptions; that nobody approves      *)
(* their own submission until an outdated review is saved; and that a      *)
(* locked review is the last word on its run until a request writes what   *)
(* it read before the lock.                                                *)
(***************************************************************************)
EXTENDS PayrollRun, TLAPS

LEMMA IdleTyped == Idle \in Request /\ NewReview \in ReviewRecord
BY PayrollAssumption DEF Idle, NewReview, Request, ReviewRecord, Steps, RunStatuses, CalculationStatuses, ReviewStatuses

LEMMA TypeInit == Init => TypeOK
<1> SUFFICES ASSUME Init PROVE TypeOK
  OBVIOUS
<1>1. run \in RunStatuses /\ inputsLocked \in BOOLEAN /\ calculation \in [Attempts -> CalculationStatuses]
  BY DEF Init, RunStatuses, CalculationStatuses
<1>2. handler \in [Handlers -> Request] /\ review \in [Attempts -> ReviewRecord]
  BY IdleTyped DEF Init
<1>3. \A h \in Handlers : handler[h].step \notin {"raise", "decide"}
  BY DEF Init, Idle
<1>4. approvals \in [Attempts -> SUBSET Users] /\ submitters \in [Attempts -> SUBSET Users]
  BY DEF Init
<1> QED BY <1>1, <1>2, <1>3, <1>4 DEF Init, TypeOK

LEMMA TypePrepare ==
  ASSUME TypeOK, NEW h \in Handlers, Prepare(h)
  PROVE  TypeOK'
<1> USE DEF reviewVars, NoteIf, StaleWrites, Begin
<1>1. ASSUME NEW status \in RunStatuses, BeginEdit(h, status) PROVE TypeOK'
  <2>1. [Idle EXCEPT !.step = "write run", !.run = status] \in Request
    BY IdleTyped DEF Request, Steps, Idle
  <2> QED BY <1>1, <2>1 DEF TypeOK, BeginEdit, Serve, Idle
<1>2. ASSUME BeginLockInputs(h) PROVE TypeOK'
  <2>1. [Idle EXCEPT !.step = "write run and inputs", !.run = "inputs_locked"] \in Request
    BY IdleTyped DEF Request, Steps, Idle, RunStatuses
  <2> QED BY <1>2, <2>1 DEF TypeOK, BeginLockInputs, Serve, Idle
<1>3. ASSUME WriteRun(h) PROVE TypeOK'
  BY <1>3, IdleTyped DEF TypeOK, WriteRun, Finish, Request, Idle, At
<1>4. ASSUME BeginCalculate(h) PROVE TypeOK'
  <2>1. [Idle EXCEPT !.step = "calculate"] \in Request
    BY IdleTyped DEF Request, Steps, Idle
  <2> QED BY <1>4, <2>1 DEF TypeOK, BeginCalculate, Serve, Idle
<1>5. ASSUME Supersede(h) PROVE TypeOK'
  <2>1. [Idle EXCEPT !.step = "insert calculation", !.targets = Completed] \in Request
    BY IdleTyped DEF Request, Steps, Idle, Completed
  <2> QED BY <1>5, <2>1 DEF TypeOK, Supersede, Serve, Idle
<1>6. ASSUME NEW outcome \in {"completed", "failed"}, CommitCalculation(h, outcome) PROVE TypeOK'
  BY <1>6, IdleTyped DEF TypeOK, CommitCalculation, Finish, CalculationStatuses, RunStatuses, Idle
<1>7. ASSUME RollBackCalculation(h) PROVE TypeOK'
  BY <1>7, IdleTyped DEF TypeOK, RollBackCalculation, Finish, Idle
<1> QED BY <1>1, <1>2, <1>3, <1>4, <1>5, <1>6, <1>7 DEF Prepare

LEMMA TypeExamine ==
  ASSUME TypeOK, NEW h \in Handlers, Examine(h)
  PROVE  TypeOK'
<1> USE DEF reviewVars, NoteIf, StaleWrites, Begin
<1>1. ASSUME NEW c \in Attempts, BeginOpen(h, c) PROVE TypeOK'
  <2> DEFINE copy == IF review[c] = NewReview THEN [NewReview EXCEPT !.status = "open"] ELSE review[c]
  <2>1. copy \in ReviewRecord
    BY <1>1, IdleTyped DEF TypeOK, ReviewRecord, ReviewStatuses, NewReview
  <2>2. c \in 0..MaxCalculations
    BY PayrollAssumption DEF Attempts
  <2> HIDE DEF copy
  <2>3. [Idle EXCEPT !.step = "write run and review", !.attempt = c, !.review = copy] \in Request
    BY <2>1, <2>2, IdleTyped DEF Request, Steps, Idle
  <2> QED BY <1>1, <2>3 DEF TypeOK, BeginOpen, Serve, copy, Idle
<1>2. ASSUME NEW c \in Attempts, NEW e \in Exceptions, BeginException(h, c, e) PROVE TypeOK'
  <2>1. c \in 0..MaxCalculations /\ review[c] \in ReviewRecord /\ calculation[c] \in CalculationStatuses
    BY PayrollAssumption DEF Attempts, TypeOK
  <2>2. [Idle EXCEPT !.step = "raise", !.attempt = c, !.exception = e,
               !.review = review[c], !.calculation = calculation[c]] \in Request
    BY <2>1, IdleTyped DEF Request, Steps, Idle
  <2> QED BY <1>2, <2>2 DEF TypeOK, BeginException, Serve, Idle
<1>3. ASSUME CommitOpen(h) PROVE TypeOK'
  BY <1>3, IdleTyped DEF TypeOK, CommitOpen, Finish, Request, RunStatuses, Idle
<1>4. ASSUME RollBackOpen(h) PROVE TypeOK'
  BY <1>4, IdleTyped DEF TypeOK, RollBackOpen, Finish, Idle
<1>5. ASSUME NEW e \in Exceptions, BeginDecision(h, e) PROVE TypeOK'
  <2> DEFINE c == exception[e].attempt
  <2>1. c \in Attempts
    BY <1>5 DEF TypeOK, BeginDecision, NewException
  <2>2. c \in 0..MaxCalculations /\ review[c] \in ReviewRecord
    BY <2>1, PayrollAssumption DEF Attempts, TypeOK
  <2> HIDE DEF c
  <2>3. [Idle EXCEPT !.step = "decide", !.attempt = c, !.exception = e, !.review = review[c]] \in Request
    BY <2>2, IdleTyped DEF Request, Steps, Idle
  <2> QED BY <1>5, <2>1, <2>3 DEF TypeOK, BeginDecision, Serve, Idle, c
<1>6. ASSUME SaveException(h) PROVE TypeOK'
  <2> DEFINE step == IF At(h, "raise") THEN "sync raised" ELSE "sync decided"
             status == IF At(h, "raise") THEN "open" ELSE "decided"
  <2>1. handler[h] \in Request /\ handler[h].attempt \in Attempts
    BY <1>6 DEF TypeOK, SaveException, At
  <2>2. step \in Steps /\ step \notin {"raise", "decide"} /\ status \in {"open", "decided"}
    BY DEF Steps
  <2>3. handler' = [handler EXCEPT ![h].step = step]
        /\ exception' = [exception EXCEPT ![handler[h].exception] = [attempt |-> handler[h].attempt, status |-> status]]
    BY <1>6 DEF SaveException
  <2> HIDE DEF step, status
  <2>4. exception' \in [Exceptions -> [attempt : Attempts, status : {"open", "decided"}] \cup {NewException}]
    BY <2>1, <2>2, <2>3 DEF TypeOK
  <2>5. handler' \in [Handlers -> Request]
    BY <2>1, <2>2, <2>3 DEF TypeOK, Request
  <2>6. \A g \in Handlers : handler'[g].step \in {"raise", "decide"} => handler'[g].attempt \in Attempts
    BY <2>1, <2>2, <2>3 DEF TypeOK, Request
  <2> QED BY <1>6, <2>4, <2>5, <2>6 DEF TypeOK, SaveException
<1>7. ASSUME CleanCopy(h) PROVE TypeOK'
  <2>1. CASE handler' = [handler EXCEPT ![h].step = "write review"]
    <3>1. handler' \in [Handlers -> Request]
      <4>1. "write review" \in Steps
        BY DEF Steps
      <4> QED BY <2>1, <4>1, ZenonT(60) DEF TypeOK, Request
    <3>2. \A g \in Handlers : handler'[g].step \in {"raise", "decide"} => handler'[g].attempt \in Attempts
      BY <2>1, ZenonT(60) DEF TypeOK, Request
    <3> QED BY <1>7, <3>1, <3>2 DEF TypeOK, CleanCopy
  <2>2. CASE Finish(h)
    BY <1>7, <2>2, IdleTyped DEF TypeOK, CleanCopy, Finish, Idle
  <2> QED BY <1>7, <2>1, <2>2 DEF CleanCopy
<1>8. ASSUME WriteReview(h) PROVE TypeOK'
  BY <1>8, IdleTyped DEF TypeOK, WriteReview, Finish, Request, Idle
<1> QED BY <1>1, <1>2, <1>3, <1>4, <1>5, <1>6, <1>7, <1>8 DEF Examine

LEMMA TypeSettle ==
  ASSUME TypeOK, NEW h \in Handlers, NEW c \in Attempts, Settle(h, c)
  PROVE  TypeOK'
<1> USE DEF reviewVars, NoteIf, StaleWrites, Begin
<1>0. review[c] \in ReviewRecord
  BY DEF TypeOK
<1>1. ASSUME NEW u \in Users, Submit(h, c, u) PROVE TypeOK'
  <2>1. [review[c] EXCEPT !.status = "ready_for_approval", !.submittedBy = u] \in ReviewRecord
    BY <1>0 DEF ReviewRecord, ReviewStatuses
  <2>2. review' \in [Attempts -> ReviewRecord]
    BY <1>1, <2>1 DEF TypeOK, Submit
  <2> QED
    BY <1>1, <2>2 DEF TypeOK, Submit, Decision, RunStatuses
<1>2. ASSUME NEW u \in Users, Approve(h, c, u) PROVE TypeOK'
  <2>1. [review[c] EXCEPT !.status = "approved", !.approvedBy = u] \in ReviewRecord
    BY <1>0 DEF ReviewRecord, ReviewStatuses
  <2>2. review' \in [Attempts -> ReviewRecord]
    BY <1>2, <2>1 DEF TypeOK, Approve
  <2> QED
    BY <1>2, <2>2 DEF TypeOK, Approve, Decision, RunStatuses
<1>3. ASSUME NEW u \in Users, Reject(h, c, u) PROVE TypeOK'
  <2>1. [review[c] EXCEPT !.status = "rejected"] \in ReviewRecord
    BY <1>0 DEF ReviewRecord, ReviewStatuses
  <2>2. review' \in [Attempts -> ReviewRecord]
    BY <1>3, <2>1 DEF TypeOK, Reject
  <2> QED
    BY <1>3, <2>2 DEF TypeOK, Reject, Decision, RunStatuses
<1>4. ASSUME Lock(h, c) PROVE TypeOK'
  <2>1. [review[c] EXCEPT !.status = "locked"] \in ReviewRecord
    BY <1>0 DEF ReviewRecord, ReviewStatuses
  <2>2. review' \in [Attempts -> ReviewRecord]
    BY <1>4, <2>1 DEF TypeOK, Lock
  <2> QED
    BY <1>4, <2>2 DEF TypeOK, Lock, Decision, RunStatuses
<1>5. ASSUME Generate(h, c) PROVE TypeOK'
  BY <1>5 DEF TypeOK, Generate
<1>6. ASSUME Publish(h, c) PROVE TypeOK'
  BY <1>6 DEF TypeOK, Publish
<1> QED BY <1>1, <1>2, <1>3, <1>4, <1>5, <1>6 DEF Settle

LEMMA TypeStep == TypeOK /\ [Next]_vars => TypeOK'
<1> SUFFICES ASSUME TypeOK, [Next]_vars PROVE TypeOK'
  OBVIOUS
<1>1. ASSUME UNCHANGED vars PROVE TypeOK'
  BY <1>1 DEF TypeOK, vars, reviewVars
<1>2. ASSUME Next PROVE TypeOK'
  BY <1>2, TypePrepare, TypeExamine, TypeSettle DEF Next
<1> QED BY <1>1, <1>2

\* Every record of a payroll run, and every copy of one that a request carries
\* around, has one of its declared values, for any number of handlers.
THEOREM PayrollTypeCorrect == Spec => []TypeOK
BY TypeInit, TypeStep, PTL DEF Spec

-----------------------------------------------------------------------------
(***************************************************************************)
(* The four-eyes rule.  A stored review may be overwritten by any copy of  *)
(* it that some handler still holds, so the invariant is about the copies  *)
(* too: whoever wrote them, a submitted one names somebody who submitted   *)
(* the review, and an approved or locked one was approved by another user. *)
(* What it says of a copy stays true, since submissions and approvals are  *)
(* only ever added.                                                        *)
(***************************************************************************)
TwoUsers(S, A) == \E u \in S, v \in A : u # v

Backed(copy, S, A) ==
  /\ copy.status = "ready_for_approval" => copy.submittedBy \in S
  /\ copy.status \in {"approved", "locked"} => TwoUsers(S, A)

BackedReviews == \A c \in Attempts : Backed(review[c], submitters[c], approvals[c])
BackedCopies ==
  \A h \in Handlers : handler[h].attempt \in Attempts =>
    Backed(handler[h].review, submitters[handler[h].attempt], approvals[handler[h].attempt])
BackedOutputs == \A c \in Attempts : batch[c] # "none" => TwoUsers(submitters[c], approvals[c])

FourEyesInv == TypeOK /\ BackedReviews /\ BackedCopies /\ BackedOutputs

LEMMA BackedGrows ==
  ASSUME NEW copy, NEW S, NEW T, NEW A, NEW B, S \subseteq T, A \subseteq B
  PROVE  /\ Backed(copy, S, A) => Backed(copy, T, B)
         /\ TwoUsers(S, A) => TwoUsers(T, B)
BY DEF Backed, TwoUsers

LEMMA ZeroIsNoAttempt == 0 \notin Attempts
BY PayrollAssumption DEF Attempts

\* A handler that becomes idle, or starts a request about no attempt, carries
\* no copy of a review.
LEMMA CopiesDropped ==
  ASSUME FourEyesInv, NEW h \in Handlers, NEW request, request.attempt = 0,
         handler' = [handler EXCEPT ![h] = request], UNCHANGED <<submitters, approvals>>
  PROVE  BackedCopies'
BY ZeroIsNoAttempt DEF FourEyesInv, TypeOK, BackedCopies

LEMMA IdleAttempt == Idle.attempt = 0
BY DEF Idle

LEMMA BackedInit == Init => FourEyesInv
<1> SUFFICES ASSUME Init PROVE FourEyesInv
  OBVIOUS
<1>1. BackedReviews
  BY DEF Init, BackedReviews, Backed, NewReview
<1>2. BackedCopies
  BY ZeroIsNoAttempt, IdleAttempt DEF Init, BackedCopies
<1>3. BackedOutputs
  BY DEF Init, BackedOutputs
<1> QED BY TypeInit, <1>1, <1>2, <1>3 DEF FourEyesInv

LEMMA BackedPrepare ==
  ASSUME FourEyesInv, NEW h \in Handlers, Prepare(h)
  PROVE  (BackedReviews /\ BackedCopies /\ BackedOutputs)'
<1>1. UNCHANGED <<review, submitters, approvals, batch>>
  BY DEF Prepare, BeginEdit, BeginLockInputs, WriteRun, BeginCalculate, Supersede, CommitCalculation,
         RollBackCalculation, reviewVars
<1>2. PICK request : request.attempt = 0 /\ handler' = [handler EXCEPT ![h] = request]
  BY IdleAttempt DEF Prepare, BeginEdit, BeginLockInputs, WriteRun, BeginCalculate, Supersede,
         CommitCalculation, RollBackCalculation, Begin, Serve, Finish, Idle
<1> QED BY <1>1, <1>2, CopiesDropped DEF FourEyesInv, BackedReviews, BackedOutputs

LEMMA BackedExamine ==
  ASSUME FourEyesInv, NEW h \in Handlers, Examine(h)
  PROVE  (BackedReviews /\ BackedCopies /\ BackedOutputs)'
<1>0. UNCHANGED <<submitters, approvals, batch>>
  BY DEF Examine, BeginOpen, BeginException, CommitOpen, RollBackOpen, BeginDecision, SaveException,
         CleanCopy, WriteReview, reviewVars
<1>a. BackedOutputs'
  BY <1>0 DEF FourEyesInv, BackedOutputs
<1>b. handler \in [Handlers -> Request] /\ review \in [Attempts -> ReviewRecord]
  BY DEF FourEyesInv, TypeOK
<1>1. ASSUME NEW c \in Attempts, BeginOpen(h, c) PROVE (BackedReviews /\ BackedCopies)'
  <2>1. review' = review
    BY <1>1 DEF BeginOpen, reviewVars
  <2>2. PICK copy : /\ copy = review[c] \/ copy = [NewReview EXCEPT !.status = "open"]
                    /\ handler' = [handler EXCEPT ![h] =
                         [Idle EXCEPT !.step = "write run and review", !.attempt = c, !.review = copy]]
    BY <1>1 DEF BeginOpen, Begin, Serve
  <2>3. Backed(copy, submitters[c], approvals[c])
    BY <2>2 DEF FourEyesInv, BackedReviews, Backed, NewReview
  <2> QED BY <1>0, <1>b, <2>1, <2>2, <2>3 DEF FourEyesInv, BackedReviews, BackedCopies, Idle
<1>2. ASSUME NEW c \in Attempts, NEW e \in Exceptions, BeginException(h, c, e)
      PROVE (BackedReviews /\ BackedCopies)'
  BY <1>0, <1>2, <1>b DEF FourEyesInv, BackedReviews, BackedCopies, BeginException, Begin, Serve, reviewVars, Idle
<1>3. ASSUME CommitOpen(h) PROVE (BackedReviews /\ BackedCopies)'
  <2>1. BackedReviews'
    BY <1>0, <1>3, <1>b DEF FourEyesInv, BackedReviews, BackedCopies, CommitOpen
  <2> QED BY <1>0, <1>3, <2>1, IdleAttempt, CopiesDropped DEF CommitOpen, Finish
<1>4. ASSUME RollBackOpen(h) PROVE (BackedReviews /\ BackedCopies)'
  BY <1>0, <1>4, IdleAttempt, CopiesDropped DEF FourEyesInv, BackedReviews, RollBackOpen, Finish, reviewVars
<1>5. ASSUME NEW e \in Exceptions, BeginDecision(h, e) PROVE (BackedReviews /\ BackedCopies)'
  BY <1>0, <1>5, <1>b DEF FourEyesInv, BackedReviews, BackedCopies, BeginDecision, Begin, Serve, reviewVars, Idle
<1>6. ASSUME SaveException(h) \/ CleanCopy(h) PROVE (BackedReviews /\ BackedCopies)'
  <2>1. review' = review
    BY <1>6 DEF SaveException, CleanCopy, reviewVars
  <2>2. \/ \E step : handler' = [handler EXCEPT ![h].step = step]
        \/ Finish(h)
    BY <1>6 DEF SaveException, CleanCopy
  <2>3. CASE \E step : handler' = [handler EXCEPT ![h].step = step]
    BY <1>0, <1>b, <2>1, <2>3 DEF FourEyesInv, BackedReviews, BackedCopies, Request
  <2>4. CASE Finish(h)
    BY <1>0, <2>1, <2>4, IdleAttempt, CopiesDropped DEF FourEyesInv, BackedReviews, Finish
  <2> QED BY <2>2, <2>3, <2>4
<1>7. ASSUME WriteReview(h) PROVE (BackedReviews /\ BackedCopies)'
  <2>1. BackedReviews'
    BY <1>0, <1>7, <1>b DEF FourEyesInv, BackedReviews, BackedCopies, WriteReview
  <2> QED BY <1>0, <1>7, <2>1, IdleAttempt, CopiesDropped DEF WriteReview, Finish
<1> QED BY <1>a, <1>1, <1>2, <1>3, <1>4, <1>5, <1>6, <1>7 DEF Examine

LEMMA BackedSettle ==
  ASSUME FourEyesInv, NEW h \in Handlers, NEW c \in Attempts, Settle(h, c)
  PROVE  (BackedReviews /\ BackedCopies /\ BackedOutputs)'
<1>0. handler' = handler
  BY DEF Settle, Submit, Approve, Reject, Lock, Generate, Publish, Decision
<1>1. \A d \in Attempts : submitters[d] \subseteq submitters'[d] /\ approvals[d] \subseteq approvals'[d]
  <2>1. ASSUME NEW u \in Users, Submit(h, c, u) \/ Approve(h, c, u)
        PROVE  /\ submitters' = [submitters EXCEPT ![c] = @ \cup {u}] \/ submitters' = submitters
               /\ approvals' = [approvals EXCEPT ![c] = @ \cup {u}] \/ approvals' = approvals
    BY <2>1 DEF Submit, Approve
  <2>2. ASSUME NEW u \in Users, Submit(h, c, u) \/ Approve(h, c, u)
        PROVE  \A d \in Attempts : submitters[d] \subseteq submitters'[d] /\ approvals[d] \subseteq approvals'[d]
    BY <2>1, <2>2 DEF FourEyesInv, TypeOK
  <2>3. ASSUME NEW u \in Users, Reject(h, c, u) PROVE UNCHANGED <<submitters, approvals>>
    BY <2>3 DEF Reject
  <2>4. ASSUME Lock(h, c) \/ Generate(h, c) \/ Publish(h, c) PROVE UNCHANGED <<submitters, approvals>>
    BY <2>4 DEF Lock, Generate, Publish, reviewVars
  <2> QED BY <2>2, <2>3, <2>4 DEF Settle
<1>2. BackedCopies'
  BY <1>0, <1>1, BackedGrows DEF FourEyesInv, BackedCopies
<1>3. \A d \in Attempts \ {c} : review'[d] = review[d] /\ batch'[d] = batch[d]
  BY DEF FourEyesInv, TypeOK, Settle, Submit, Approve, Reject, Lock, Generate, Publish, Decision, reviewVars
<1>4. \A d \in Attempts \ {c} :
        /\ Backed(review'[d], submitters'[d], approvals'[d])
        /\ batch'[d] # "none" => TwoUsers(submitters'[d], approvals'[d])
  BY <1>1, <1>3, BackedGrows DEF FourEyesInv, BackedReviews, BackedOutputs
<1> DEFINE Kept == /\ Backed(review'[c], submitters'[c], approvals'[c])
                   /\ batch'[c] # "none" => TwoUsers(submitters'[c], approvals'[c])
<1>5. Kept
  <2>1. ASSUME NEW u \in Users, Submit(h, c, u) PROVE Kept
    <3>1. review'[c].status = "ready_for_approval" /\ review'[c].submittedBy = u /\ u \in submitters'[c]
          /\ batch' = batch
      BY <2>1 DEF FourEyesInv, TypeOK, ReviewRecord, Submit, Decision
    <3> QED BY <1>1, <3>1, BackedGrows DEF FourEyesInv, BackedOutputs, Backed
  <2>2. ASSUME NEW u \in Users, Approve(h, c, u) PROVE Kept
    <3>1. review[c].submittedBy \in submitters[c] /\ review[c].submittedBy # u
      BY <2>2 DEF FourEyesInv, BackedReviews, Backed, Approve, Decision
    <3>2. u \in approvals'[c] /\ submitters' = submitters
      BY <2>2 DEF FourEyesInv, TypeOK, Approve
    <3>3. TwoUsers(submitters'[c], approvals'[c])
      BY <3>1, <3>2 DEF TwoUsers
    <3>4. review'[c].status = "approved"
      BY <2>2 DEF FourEyesInv, TypeOK, ReviewRecord, Approve
    <3> QED BY <3>3, <3>4 DEF Backed
  <2>3. ASSUME NEW u \in Users, Reject(h, c, u) PROVE Kept
    <3>1. review'[c].status = "rejected" /\ batch' = batch
      BY <2>3 DEF FourEyesInv, TypeOK, ReviewRecord, Reject, Decision
    <3> QED BY <1>1, <3>1, BackedGrows DEF FourEyesInv, BackedOutputs, Backed
  <2>4. ASSUME Lock(h, c) PROVE Kept
    <3>1. TwoUsers(submitters[c], approvals[c])
      BY <2>4 DEF FourEyesInv, BackedReviews, Backed, Lock, Decision
    <3>2. review'[c].status = "locked"
      BY <2>4 DEF FourEyesInv, TypeOK, ReviewRecord, Lock
    <3> QED BY <1>1, <3>1, <3>2, BackedGrows DEF Backed
  <2>5. ASSUME Generate(h, c) \/ Publish(h, c) PROVE Kept
    <3>1. TwoUsers(submitters[c], approvals[c]) /\ review' = review
      BY <2>5 DEF FourEyesInv, BackedReviews, Backed, Generate, Publish, FinalLocked, reviewVars
    <3> QED BY <1>1, <3>1, BackedGrows DEF FourEyesInv, BackedReviews
  <2> QED BY <2>1, <2>2, <2>3, <2>4, <2>5 DEF Settle
<1>6. BackedReviews' /\ BackedOutputs'
  BY <1>4, <1>5 DEF BackedReviews, BackedOutputs
<1> QED BY <1>2, <1>6

LEMMA BackedStep == FourEyesInv /\ [Next]_vars => FourEyesInv'
<1> SUFFICES ASSUME FourEyesInv, [Next]_vars PROVE FourEyesInv'
  OBVIOUS
<1>1. TypeOK'
  BY TypeStep DEF FourEyesInv
<1>2. ASSUME UNCHANGED vars PROVE (BackedReviews /\ BackedCopies /\ BackedOutputs)'
  BY <1>2 DEF FourEyesInv, BackedReviews, BackedCopies, BackedOutputs, vars, reviewVars
<1>3. ASSUME Next PROVE (BackedReviews /\ BackedCopies /\ BackedOutputs)'
  BY <1>3, BackedPrepare, BackedExamine, BackedSettle DEF Next
<1> QED BY <1>1, <1>2, <1>3 DEF FourEyesInv

\* Every final-locked review and every output of a payroll run was submitted by
\* one user and approved by another, for any number of concurrent requests,
\* although the requests overwrite each other's changes to the review.
THEOREM PayrollFourEyes == Spec => []FourEyes
<1>1. FourEyesInv => FourEyes
  BY DEF FourEyesInv, BackedReviews, BackedOutputs, Backed, TwoUsers, FourEyes
<1> QED BY BackedInit, BackedStep, <1>1, PTL DEF Spec
-----------------------------------------------------------------------------
(***************************************************************************)
(* The reviews until a request saves something outdated.  Until then a     *)
(* request that writes its copy of a review back changes nothing, or       *)
(* creates the review; and a request that writes the run or its            *)
(* calculations does so before the run is locked, when no review is        *)
(* locked.                                                                 *)
(***************************************************************************)
\* The review names its last submitter, and an approval is not theirs.
Checked(record, last) ==
  /\ record.status = "ready_for_approval" => record.submittedBy = last
  /\ record.status \in {"approved", "locked"} => record.approvedBy # last

CheckedReviews == "review" \notin staleWrites => \A c \in Attempts : Checked(review[c], lastSubmitter[c])

\* A request that is to create a review creates it open.
CreatesOpen ==
  "review" \notin staleWrites =>
    \A h \in Handlers, c \in Attempts :
      At(h, "write run and review") /\ handler[h].attempt = c /\ review[c] = NewReview
        => handler[h].review.status = "open"

LockedWithRun == staleWrites = {} => \A c \in Attempts : review[c].status = "locked" => run = "locked"

ReviewInv == TypeOK /\ CreatesOpen /\ CheckedReviews /\ LockedWithRun /\ LockedReviewIsClean

LEMMA ReviewInit == Init => ReviewInv
<1> SUFFICES ASSUME Init PROVE ReviewInv
  OBVIOUS
<1>1. Idle.step # "write run and review" /\ NewReview.status = "none"
  BY DEF Idle, NewReview
<1>2. CreatesOpen
  BY <1>1 DEF Init, CreatesOpen, At
<1>3. \A c \in Attempts : review[c].status = "none"
  BY <1>1 DEF Init
<1>4. CheckedReviews /\ LockedWithRun /\ LockedReviewIsClean
  BY <1>3 DEF CheckedReviews, Checked, LockedWithRun, LockedReviewIsClean
<1> QED
  BY <1>2, <1>4, TypeInit DEF ReviewInv

\* What a request that takes no decision does to the reviews: nothing, unless
\* it creates one, raises an exception or writes something outdated.
LEMMA ReviewsKept ==
  ASSUME ReviewInv, NEW h \in Handlers, Prepare(h) \/ Examine(h)
  PROVE  /\ staleWrites \subseteq staleWrites' /\ lastSubmitter' = lastSubmitter
         /\ "review" \notin staleWrites' => \A d \in Attempts :
              review'[d] = review[d] \/ (review[d] = NewReview /\ review'[d].status = "open")
         /\ staleWrites' = {} => run # "locked" \/ UNCHANGED <<run, calculation>>
         /\ staleWrites' = {} => \A d \in Attempts :
              review[d].status = "locked" => OpenBlockers(d)' \subseteq OpenBlockers(d)
<1> DEFINE Goal == /\ staleWrites \subseteq staleWrites' /\ lastSubmitter' = lastSubmitter
                   /\ "review" \notin staleWrites' => \A d \in Attempts :
                        review'[d] = review[d] \/ (review[d] = NewReview /\ review'[d].status = "open")
                   /\ staleWrites' = {} => run # "locked" \/ UNCHANGED <<run, calculation>>
                   /\ staleWrites' = {} => \A d \in Attempts :
                        review[d].status = "locked" => OpenBlockers(d)' \subseteq OpenBlockers(d)
<1>0. review \in [Attempts -> ReviewRecord]
  BY DEF ReviewInv, TypeOK
<1>1. ASSUME UNCHANGED <<review, lastSubmitter, exception>>, staleWrites \subseteq staleWrites',
             run # "locked" \/ "run" \in staleWrites' \/ "calculation" \in staleWrites'
               \/ UNCHANGED <<run, calculation>>
      PROVE  Goal
  BY <1>1 DEF OpenBlockers
<1>2. ASSUME WriteRun(h) PROVE Goal
  BY <1>1, <1>2 DEF WriteRun, NoteIf, reviewVars
<1>3. ASSUME NEW outcome \in {"completed", "failed"}, CommitCalculation(h, outcome) PROVE Goal
  BY <1>1, <1>3 DEF CommitCalculation, NoteIf, reviewVars
<1>4. ASSUME Prepare(h), ~WriteRun(h), ~\E outcome \in {"completed", "failed"} : CommitCalculation(h, outcome)
      PROVE  Goal
  <2>1. UNCHANGED <<review, lastSubmitter, exception, staleWrites, run, calculation>>
    BY <1>4 DEF Prepare, BeginEdit, BeginLockInputs, BeginCalculate, Supersede, RollBackCalculation, reviewVars
  <2> QED
    BY <1>1, <2>1
<1>5. ASSUME CommitOpen(h) PROVE Goal
  <2> DEFINE c == handler[h].attempt
  <2>1. /\ At(h, "write run and review") /\ review' = [review EXCEPT ![c] = handler[h].review]
        /\ UNCHANGED <<lastSubmitter, calculation, exception>>
        /\ staleWrites \subseteq staleWrites'
        /\ run = "locked" => "run" \in staleWrites'
        /\ review[c] # NewReview /\ review[c] # handler[h].review => "review" \in staleWrites'
    BY <1>5 DEF CommitOpen
  <2>2. ASSUME "review" \notin staleWrites', NEW d \in Attempts
        PROVE  review'[d] = review[d] \/ (review[d] = NewReview /\ review'[d].status = "open")
    <3>1. review[c] = NewReview /\ c = d => handler[h].review.status = "open"
      BY <2>1, <2>2 DEF ReviewInv, CreatesOpen
    <3> QED
      BY <1>0, <2>1, <2>2, <3>1
  <2> QED
    BY <2>1, <2>2 DEF OpenBlockers
<1>6. ASSUME WriteReview(h) PROVE Goal
  <2>1. /\ review' = [review EXCEPT ![handler[h].attempt] = handler[h].review]
        /\ UNCHANGED <<lastSubmitter, calculation, exception, run>>
        /\ staleWrites \subseteq staleWrites'
        /\ review[handler[h].attempt] # handler[h].review => "review" \in staleWrites'
    BY <1>6 DEF WriteReview, NoteIf
  <2>2. ASSUME "review" \notin staleWrites', NEW d \in Attempts PROVE review'[d] = review[d]
    BY <1>0, <2>1, <2>2
  <2> QED
    BY <2>1, <2>2 DEF OpenBlockers
<1>7. ASSUME SaveException(h) PROVE Goal
  <2> DEFINE c == handler[h].attempt
             status == IF At(h, "raise") THEN "open" ELSE "decided"
  <2>1. /\ UNCHANGED <<review, lastSubmitter, calculation, run>> /\ staleWrites \subseteq staleWrites'
        /\ At(h, "raise") /\ review[c].status = "locked" => "exception" \in staleWrites'
        /\ exception' = [exception EXCEPT ![handler[h].exception] = [attempt |-> c, status |-> status]]
    BY <1>7 DEF SaveException, NoteIf
  <2>2. ASSUME staleWrites' = {}, NEW d \in Attempts, review[d].status = "locked"
        PROVE  OpenBlockers(d)' \subseteq OpenBlockers(d)
    <3>1. [attempt |-> c, status |-> status] # [attempt |-> d, status |-> "open"]
      BY <2>1, <2>2
    <3> HIDE DEF status, c
    <3> QED
      BY <2>1, <3>1 DEF OpenBlockers, ReviewInv, TypeOK
  <2> QED
    BY <2>1, <2>2
<1>8. ASSUME Examine(h), ~CommitOpen(h), ~SaveException(h), ~WriteReview(h) PROVE Goal
  <2>1. UNCHANGED <<review, lastSubmitter, exception, staleWrites, run, calculation>>
    BY <1>8 DEF Examine, BeginOpen, BeginException, RollBackOpen, BeginDecision, CleanCopy, reviewVars
  <2> QED
    BY <1>1, <2>1
<1> QED
  BY <1>2, <1>3, <1>4, <1>5, <1>6, <1>7, <1>8 DEF Prepare

\* Only opening a review gives a handler a copy to create it from.
LEMMA CreatorBegins ==
  ASSUME TypeOK, NEW h \in Handlers, Prepare(h) \/ Examine(h), ~\E c \in Attempts : BeginOpen(h, c)
  PROVE  handler'[h].step # "write run and review" /\ \A g \in Handlers \ {h} : handler'[g] = handler[g]
<1>0. handler \in [Handlers -> Request]
  BY DEF TypeOK
<1>1. ASSUME NEW request, request.step # "write run and review", handler' = [handler EXCEPT ![h] = request]
      PROVE  handler'[h].step # "write run and review" /\ \A g \in Handlers \ {h} : handler'[g] = handler[g]
  BY <1>0, <1>1
<1>2. ASSUME NEW step, step # "write run and review", handler' = [handler EXCEPT ![h].step = step]
      PROVE  handler'[h].step # "write run and review" /\ \A g \in Handlers \ {h} : handler'[g] = handler[g]
  BY <1>0, <1>2 DEF Request
<1>3. CASE Prepare(h)
  <2>1. PICK request : request.step # "write run and review" /\ handler' = [handler EXCEPT ![h] = request]
    BY <1>3 DEF Prepare, BeginEdit, BeginLockInputs, WriteRun, BeginCalculate, Supersede,
         CommitCalculation, RollBackCalculation, Begin, Serve, Finish, Idle
  <2> QED
    BY <1>1, <2>1
<1>4. CASE SaveException(h) \/ CleanCopy(h)
  <2>1. \/ \E step : step # "write run and review" /\ handler' = [handler EXCEPT ![h].step = step]
        \/ Finish(h)
    BY <1>4 DEF SaveException, CleanCopy
  <2> QED
    BY <1>1, <1>2, <2>1 DEF Finish, Idle
<1>5. CASE Examine(h) /\ ~SaveException(h) /\ ~CleanCopy(h)
  <2>1. PICK request : request.step # "write run and review" /\ handler' = [handler EXCEPT ![h] = request]
    BY <1>5 DEF Examine, BeginException, CommitOpen, RollBackOpen, BeginDecision, WriteReview,
         Begin, Serve, Finish, Idle
  <2> QED
    BY <1>1, <2>1
<1> QED
  BY <1>3, <1>4, <1>5

LEMMA CreatesOpenStep ==
  ASSUME ReviewInv, NEW h \in Handlers, Prepare(h) \/ Examine(h)
  PROVE  CreatesOpen'
<1> SUFFICES ASSUME "review" \notin staleWrites', NEW g \in Handlers, NEW c \in Attempts,
                    At(g, "write run and review")', handler'[g].attempt = c, review'[c] = NewReview
             PROVE  handler'[g].review.status = "open"
  BY DEF CreatesOpen
<1>1. "review" \notin staleWrites /\ review[c] = NewReview
  BY ReviewsKept DEF NewReview
<1>2. CASE \E d \in Attempts : BeginOpen(h, d) /\ g = h
  <2>1. PICK d \in Attempts : BeginOpen(h, d) /\ g = h
    BY <1>2
  <2> DEFINE copy == IF review[d] = NewReview THEN [NewReview EXCEPT !.status = "open"] ELSE review[d]
  <2>2. handler'[h] = [Idle EXCEPT !.step = "write run and review", !.attempt = d, !.review = copy]
    BY <2>1 DEF BeginOpen, Begin, Serve, ReviewInv, TypeOK
  <2>3. handler'[h].attempt = d /\ handler'[h].review = copy
    BY <2>2 DEF Idle
  <2> QED
    BY <1>1, <2>1, <2>3 DEF NewReview
<1>3. CASE handler'[g] = handler[g]
  BY <1>1, <1>3 DEF ReviewInv, CreatesOpen, At
<1>4. CASE g # h /\ \E d \in Attempts : BeginOpen(h, d)
  BY <1>3, <1>4 DEF BeginOpen, Begin, Serve, ReviewInv, TypeOK
<1>5. CASE ~\E d \in Attempts : BeginOpen(h, d)
  BY <1>3, <1>5, CreatorBegins DEF ReviewInv, At
<1> QED
  BY <1>2, <1>4, <1>5

LEMMA ReviewPrepareExamine ==
  ASSUME ReviewInv, NEW h \in Handlers, Prepare(h) \/ Examine(h)
  PROVE  (CreatesOpen /\ CheckedReviews /\ LockedWithRun /\ LockedReviewIsClean)'
<1>1. CheckedReviews'
  BY ReviewsKept DEF CheckedReviews, Checked, ReviewInv
<1>2. ASSUME staleWrites' = {}
      PROVE  /\ staleWrites = {}
             /\ \A d \in Attempts : review'[d].status = "locked" => review[d].status = "locked"
             /\ (\A d \in Attempts : review[d].status # "locked") \/ UNCHANGED <<run, calculation>>
             /\ \A d \in Attempts : review[d].status = "locked" => OpenBlockers(d)' \subseteq OpenBlockers(d)
  BY <1>2, ReviewsKept DEF ReviewInv, LockedWithRun
<1>3. LockedWithRun'
  BY <1>2 DEF LockedWithRun, ReviewInv
<1>4. LockedReviewIsClean'
  <2> SUFFICES ASSUME staleWrites' = {}, NEW c \in Attempts, review'[c].status = "locked"
               PROVE  /\ calculation'[c] = "completed" /\ OpenBlockers(c)' = {}
                      /\ \A d \in Attempts \ {c} : review'[d].status # "locked"
    BY DEF LockedReviewIsClean
  <2>1. /\ calculation[c] = "completed" /\ OpenBlockers(c) = {}
        /\ \A d \in Attempts \ {c} : review[d].status # "locked"
    BY <1>2 DEF ReviewInv, LockedReviewIsClean
  <2> QED
    BY <1>2, <2>1
<1> QED
  BY <1>1, <1>3, <1>4, CreatesOpenStep

LEMMA ReviewSettle ==
  ASSUME ReviewInv, NEW h \in Handlers, NEW c \in Attempts, Settle(h, c)
  PROVE  (CreatesOpen /\ CheckedReviews /\ LockedWithRun /\ LockedReviewIsClean)'
<1>0. /\ TypeOK /\ CreatesOpen /\ CheckedReviews /\ LockedWithRun /\ LockedReviewIsClean
      /\ review \in [Attempts -> ReviewRecord] /\ handler' = handler /\ staleWrites' = staleWrites
  BY DEF ReviewInv, TypeOK, Settle, Submit, Approve, Reject, Lock, Generate, Publish, Decision
<1>1. CASE Generate(h, c) \/ Publish(h, c)
  <2>1. UNCHANGED <<run, calculation, review, exception, lastSubmitter>>
    BY <1>1 DEF Generate, Publish, reviewVars
  <2>2. CreatesOpen' /\ CheckedReviews' /\ LockedWithRun'
    BY <1>0, <2>1 DEF CreatesOpen, CheckedReviews, LockedWithRun, At
  <2>3. LockedReviewIsClean'
    BY <1>0, <2>1 DEF LockedReviewIsClean, OpenBlockers
  <2> QED
    BY <2>2, <2>3
<1>2. CASE ~(Generate(h, c) \/ Publish(h, c))
  <2>1. PICK from : Decision(h, c, from)
    BY <1>2 DEF Settle, Submit, Approve, Reject, Lock
  <2>2. /\ run # "locked" /\ calculation[c] = "completed" /\ UNCHANGED <<calculation, exception>>
        /\ staleWrites = {} => \A d \in Attempts : review[d].status # "locked"
    BY <1>0, <2>1 DEF Decision, Savable, LockedWithRun
  <2>3. ASSUME NEW u \in Users, Submit(h, c, u)
        PROVE  Checked(review[c], lastSubmitter[c])' /\ review'[c].status = "ready_for_approval"
    BY <1>0, <2>3 DEF Submit, Checked, ReviewRecord, TypeOK
  <2>4. ASSUME NEW u \in Users, Approve(h, c, u)
        PROVE  /\ "review" \notin staleWrites => Checked(review[c], lastSubmitter[c])'
               /\ review'[c].status = "approved"
    BY <1>0, <2>4 DEF Approve, Decision, CheckedReviews, Checked, ReviewRecord, TypeOK
  <2>5. ASSUME NEW u \in Users, Reject(h, c, u)
        PROVE  Checked(review[c], lastSubmitter[c])' /\ review'[c].status = "rejected"
    BY <1>0, <2>5 DEF Reject, Checked, ReviewRecord, TypeOK
  <2>6. ASSUME Lock(h, c)
        PROVE  /\ "review" \notin staleWrites => Checked(review[c], lastSubmitter[c])'
               /\ review'[c].status = "locked" /\ run' = "locked" /\ OpenBlockers(c) = {}
    BY <1>0, <2>6 DEF Lock, Decision, CheckedReviews, Checked, ReviewRecord, TypeOK
  <2>7. \A d \in Attempts \ {c} : review'[d] = review[d] /\ lastSubmitter'[d] = lastSubmitter[d]
    BY <1>0, <1>2 DEF Settle, Submit, Approve, Reject, Lock, TypeOK
  <2>8. /\ "review" \notin staleWrites => Checked(review[c], lastSubmitter[c])'
        /\ review'[c].status # "none"
        /\ review'[c].status = "locked" => run' = "locked" /\ OpenBlockers(c) = {}
    BY <1>2, <2>3, <2>4, <2>5, <2>6 DEF Settle
  <2>9. CheckedReviews'
    BY <1>0, <2>7, <2>8 DEF CheckedReviews
  <2>10. LockedWithRun'
    BY <1>0, <2>2, <2>7, <2>8 DEF LockedWithRun
  <2>11. LockedReviewIsClean'
    BY <1>0, <2>2, <2>7, <2>8 DEF LockedReviewIsClean, OpenBlockers
  <2>12. CreatesOpen'
    <3>1. \A d \in Attempts : review'[d] = NewReview => review[d] = NewReview
      BY <2>7, <2>8 DEF NewReview
    <3> QED
      BY <1>0, <3>1 DEF CreatesOpen, At
  <2> QED
    BY <2>9, <2>10, <2>11, <2>12
<1> QED
  BY <1>1, <1>2

\* The inductive invariant behind the two theorems: what holds of the reviews,
\* and of a review about to be created, until something outdated is saved.
LEMMA PayrollReviewInv == Spec => []ReviewInv
<1>1. ASSUME ReviewInv, [Next]_vars PROVE ReviewInv'
  <2>1. TypeOK'
    BY <1>1, TypeStep DEF ReviewInv
  <2>2. CASE UNCHANGED vars
    BY <1>1, <2>2 DEF vars, reviewVars, ReviewInv, TypeOK, CreatesOpen, CheckedReviews, At,
                LockedWithRun, LockedReviewIsClean, OpenBlockers
  <2>3. CASE Next
    BY <1>1, <2>1, <2>3, ReviewPrepareExamine, ReviewSettle DEF Next, ReviewInv
  <2> QED
    BY <1>1, <2>2, <2>3
<1> QED
  BY ReviewInit, <1>1, PTL DEF Spec

\* Nobody approves the review they submitted themselves, for any number of
\* concurrent requests, users, calculations and exceptions, as long as no
\* request has saved a review that was changed after the request loaded it.
THEOREM PayrollMakerChecker == Spec => []MakerChecker
<1>1. ReviewInv => MakerChecker
  BY DEF ReviewInv, CheckedReviews, Checked, MakerChecker
<1> QED
  BY <1>1, PayrollReviewInv, PTL

\* A locked review is the last word on its run: nothing has superseded its
\* calculation, no blocker of it is open and no other review is locked, for any
\* number of concurrent requests, until one of them writes what it read before
\* the lock.
THEOREM PayrollLockedIsClean == Spec => []LockedReviewIsClean
<1>1. ReviewInv => LockedReviewIsClean
  BY DEF ReviewInv
<1> QED
  BY <1>1, PayrollReviewInv, PTL
=============================================================================
