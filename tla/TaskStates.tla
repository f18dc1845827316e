---------------------------- MODULE TaskStates ----------------------------
(***************************************************************************)
(* The two state machines of the workspace database: the status of a task  *)
(* (quimera/domain/task_states.py) and the status of a workflow            *)
(* (quimera/workflows/models.py).  Every write of a status in the          *)
(* repositories is guarded by one of the two tables below.                 *)
(***************************************************************************)
EXTENDS Naturals

TaskStatus ==
  { "pending", "proposed", "approved", "in_progress", "pending_review",
    "reviewing", "completed", "failed", "rejected", "cancelled" }

\* VALID_TRANSITIONS: the statuses a task may be written to from each status.
ValidTransitions ==
  [ s \in TaskStatus |->
      CASE s = "proposed"       -> {"approved", "rejected", "cancelled"}
        [] s = "approved"       -> {"in_progress", "cancelled"}
        [] s = "pending"        -> {"in_progress", "failed", "cancelled"}
        [] s = "in_progress"    -> {"pending_review", "completed", "failed",
                                    "pending", "cancelled"}
        [] s = "pending_review" -> {"reviewing", "cancelled"}
        [] s = "reviewing"      -> {"completed", "failed", "pending",
                                    "pending_review", "cancelled"}
        [] OTHER                -> {} ]

CanTransition(from, to) ==
  /\ from \in TaskStatus
  /\ to \in ValidTransitions[from]

WorkflowStatus ==
  {"ready", "running", "paused", "blocked", "completed", "failed", "cancelled"}

\* OPEN_WORKFLOW_STATES: the workflow can still make progress.
OpenWorkflow == {"ready", "running", "paused", "blocked"}

\* WORKFLOW_TRANSITIONS: completed reopens only by a replan.
WorkflowTransitions ==
  [ s \in WorkflowStatus |->
      CASE s = "ready"     -> {"running", "cancelled"}
        [] s = "running"   -> {"paused", "blocked", "completed", "failed",
                               "cancelled"}
        [] s = "paused"    -> {"running", "cancelled"}
        [] s = "blocked"   -> {"running", "paused", "failed", "cancelled"}
        [] s = "completed" -> {"running"}
        [] OTHER           -> {} ]

CanTransitionWorkflow(from, to) ==
  /\ from \in WorkflowStatus
  /\ to \in WorkflowTransitions[from]
===========================================================================
