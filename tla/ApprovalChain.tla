--------------------------- MODULE ApprovalChain ---------------------------
(***************************************************************************)
(* What an approval workflow promises to the modules that use it (leave,   *)
(* attendance, lifecycle): the required approvals are granted one at a     *)
(* time in ascending order, the last missing grant approves the chain, one *)
(* refusal closes it, and an outcome once reached is final.  How the       *)
(* workflow engine keeps track (step rows, a current-step pointer, a log)  *)
(* is not visible here.                                                    *)
(***************************************************************************)
EXTENDS Naturals

CONSTANT Instances,  \* the chains
         Plans       \* the sets of step orders a chain may require

VARIABLES outcome, required, granted

chainVars == <<outcome, required, granted>>

Refusals == {"rejected", "cancelled"}
Final == Refusals \cup {"approved"}

Init ==
  /\ outcome = [i \in Instances |-> "none"]
  /\ required = [i \in Instances |-> {}]
  /\ granted = [i \in Instances |-> {}]

Start(i, plan) ==
  /\ outcome[i] = "none"
  /\ outcome' = [outcome EXCEPT ![i] = "open"]
  /\ required' = [required EXCEPT ![i] = plan]
  /\ UNCHANGED granted

Missing(i) == required[i] \ granted[i]

\* k is granted only when every lower order has been granted before.
Grant(i, k) ==
  /\ outcome[i] = "open"
  /\ k \in Missing(i)
  /\ \A j \in Missing(i) : k <= j
  /\ granted' = [granted EXCEPT ![i] = @ \cup {k}]
  /\ outcome' = [outcome EXCEPT ![i] = IF Missing(i) = {k} THEN "approved" ELSE "open"]
  /\ UNCHANGED required

Refuse(i, refusal) ==
  /\ outcome[i] = "open"
  /\ outcome' = [outcome EXCEPT ![i] = refusal]
  /\ UNCHANGED <<required, granted>>

Next ==
  \E i \in Instances :
    \/ \E plan \in Plans : Start(i, plan)
    \/ \E k \in required[i] : Grant(i, k)
    \/ \E refusal \in Refusals : Refuse(i, refusal)

Spec == Init /\ [][Next]_chainVars
=============================================================================
