------------------------- MODULE MCLeaveYearClose -------------------------
(* Balances for checking LeaveYearClose: below and above the cap. *)
EXTENDS LeaveYearClose

MCOpening == [e \in Employees |-> 2 * e - 1]
=============================================================================
