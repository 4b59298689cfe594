------------------------ MODULE MCWorkflowInstance ------------------------
(* Model values for checking WorkflowInstance. *)
EXTENDS WorkflowInstance

CONSTANTS manager, hr

\* A default step nobody is assigned to, a one-step chain, the manager-then-HR
\* and manager-second-level-HR chains, and templates whose orders have a gap or
\* do not start at 1.
MCRoutes == { <<{}>>, <<{manager}>>, <<{manager}, {hr}>>,
              <<{manager}, {manager}, {hr}>>,
              [k \in {1, 3} |-> {hr}], [k \in {2, 3} |-> {hr}] }
=============================================================================
