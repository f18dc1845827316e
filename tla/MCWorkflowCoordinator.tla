----------------------- MODULE MCWorkflowCoordinator -----------------------
(***************************************************************************)
(* An instance of WorkflowCoordinator for TLC: one workflow with a task,   *)
(* which a replan extends with or replaces by an independent one, one      *)
(* thread that reconciles and one inside workflows_finish, which may be    *)
(* the agent that is consulted.                                            *)
(***************************************************************************)
EXTENDS WorkflowCoordinator, TLC

CONSTANTS a, b, f, none

AllOfF == [t \in Task |-> f]
NoDeps == [t \in Task |-> {}]
EachSuggested == (1 :> a @@ 2 :> b)
GrowingPlan == (f :> {1})
===========================================================================
