---------------------- MODULE MCPayrollBackgroundJob ----------------------
(* Symmetry for checking PayrollBackgroundJob. *)
EXTENDS PayrollBackgroundJob, TLC

Interchangeable == Permutations(Dispatchers) \cup Permutations(Recoverers) \cup Permutations(Retriers)
=============================================================================
