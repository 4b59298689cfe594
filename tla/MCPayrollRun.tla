---------------------------- MODULE MCPayrollRun ----------------------------
(* Users are interchangeable, and so are the handlers. *)
EXTENDS PayrollRun, TLC

Interchangeable == Permutations(Users) \cup Permutations(Handlers)
=============================================================================
