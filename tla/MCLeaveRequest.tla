-------------------------- MODULE MCLeaveRequest --------------------------
(* Model values for checking LeaveRequest. *)
EXTENDS LeaveRequest

CONSTANTS r1, r2, r3, manager, head

TwoRequests == {r1, r2}
ThreeRequests == {r1, r2, r3}

\* A day, the two days after it, and another day, so that no two requests
\* overlap; or two requests for a common date.
MCUnits == [r \in Requests |-> IF r = r2 THEN 2 ELSE 1]
MCDates == [r \in Requests |-> CASE r = r1 -> {1} [] r = r2 -> {2, 3} [] r = r3 -> {4}]
MCCommonDates == [r \in Requests |-> IF r = r1 THEN {2} ELSE {2, 3}]

\* Granted upfront, there is room for r1 and r2 together. Granted by month,
\* there is room for any two requests but not for all three, and for r1 and
\* r2 only if r1, which has the earlier start date, is submitted first.
MCUpfront == [r \in Requests |-> 3]
MCMonthly == [r \in Requests |-> IF r = r1 THEN 2 ELSE 3]

OneStep == { <<{manager}>> }
TwoSteps == { <<{manager}, {head}>> }
AnySteps == OneStep \cup TwoSteps \cup { <<{}>> }
=============================================================================
