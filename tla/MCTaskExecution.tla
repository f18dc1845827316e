-------------------------- MODULE MCTaskExecution --------------------------
(***************************************************************************)
(* Instances of TaskExecution for TLC: two agents with one slot each per   *)
(* session, and plans small enough to explore and large enough for the     *)
(* case each run is about.                                                 *)
(***************************************************************************)
EXTENDS TaskExecution, TLC

CONSTANTS a, b, f, g, none

Agents == {a, b}
Slots(sessions) == Agents \X sessions
OneSession == Slots({1})
TwoSessions == Slots({1, 2})
LoneSlots == {a} \X {1, 2}
SlotAgent == [w \in Worker |-> w[1]]
SlotSession == [w \in Worker |-> w[2]]
NobodySuggested == [t \in Task |-> none]
FirstForA == [t \in Task |-> IF t = 1 THEN a ELSE none]
NoDeps == [t \in Task |-> {}]

\* A workflow of two tasks, the second one after the first.
AllOfF == [t \in Task |-> f]
ChainDeps == (1 :> {} @@ 2 :> {1})
PlanOfF == (f :> Task)

\* One task, and one more that a replan may add, after it.
GrowingPlan == (f :> {1})

\* A workflow of one task beside a task created by /task.
BesidePlain == (1 :> f @@ 2 :> none)

\* Two workflows of one task each.
TwoOf == (1 :> f @@ 2 :> g)
TwoPlans == (f :> {1} @@ g :> {2})

SwapAgents == Permutations(Agents)
===========================================================================
