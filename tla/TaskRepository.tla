-------------------------- MODULE TaskRepository --------------------------
(***************************************************************************)
(* The tables `tasks`, `task_dependencies` and the claim gates over        *)
(* `workflows`/`workflow_tasks` (quimera/tasks/repository.py,              *)
(* quimera/workflows/schema.py).                                           *)
(*                                                                         *)
(* Every write method of the repository is one BEGIN IMMEDIATE             *)
(* transaction on one row, so it is modelled by an operator from the row   *)
(* before to the row after; a refused write returns the row unchanged.     *)
(* `fence` is the set of attempt numbers the caller accepts: {n} when it   *)
(* passes expected_attempt = n, AnyAttempt when it passes none.            *)
(***************************************************************************)
EXTENDS TaskStates, FiniteSets

CONSTANTS
  Task,            \* task ids, in order of creation
  Agent,           \* members of the agent pool when a session starts
  NoAgent,         \* SQL NULL in assigned_to and reviewed_by
  Workflow,        \* workflow ids
  NoWorkflow,      \* the "workflow" of a task created by /task
  WorkflowOf,      \* workflow_tasks.workflow_id of each task
  Writes,          \* the tasks with workflow_tasks.writes = 1
  Deps,            \* task_dependencies: the prerequisites of each task
  Suggested,       \* assigned_to in the plan of each task
  MaxTaskAttempts  \* WorkflowLimits.max_task_attempts

ASSUME RepositoryAssumption ==
  /\ Task \subseteq Nat
  /\ NoAgent \notin Agent
  /\ NoWorkflow \notin Workflow
  /\ WorkflowOf \in [Task -> Workflow \cup {NoWorkflow}]
  /\ Writes \subseteq { t \in Task : WorkflowOf[t] # NoWorkflow }
  /\ Deps \in [Task -> SUBSET Task]
  /\ Suggested \in [Task -> Agent \cup {NoAgent}]
  /\ MaxTaskAttempts \in Nat \ {0}

VARIABLES
  tasks,      \* the row of each task
  workflows   \* the row of each workflow

AgentOrNull == Agent \cup {NoAgent}

\* What tasks.result holds, as far as the properties tell texts apart: the
\* delivery of one attempt of one agent, or a text that is not a delivery.
Delivery == [agent : AgentOrNull, attempt : Nat]
NoDelivery == [agent |-> NoAgent, attempt |-> 0]

TaskRow ==
  [ status : TaskStatus \cup {"absent"}, owner : AgentOrNull,
    reviewer : AgentOrNull, failed : SUBSET Agent,
    failedReviewers : SUBSET Agent, attempt : Nat, reworks : Nat,
    delivery : Delivery, job : Nat, superseded : BOOLEAN ]

\* A row that was not inserted yet.
AbsentTask ==
  [ status |-> "absent", owner |-> NoAgent, reviewer |-> NoAgent,
    failed |-> {}, failedReviewers |-> {}, attempt |-> 0, reworks |-> 0,
    delivery |-> NoDelivery, job |-> 0, superseded |-> FALSE ]

\* workflows.attention: the motive of a consultation, without its wording.
Attention ==
  [status : WorkflowStatus \cup {"absent"}, version : Nat, failed : SUBSET Task]
NoAttention == [status |-> "absent", version |-> 0, failed |-> {}]

\* workflows.result: NULL, the summary given to workflows_finish, or the
\* answer of a consultation.
Result == {"null", "summary", "answer"}

WorkflowRow ==
  [ status : WorkflowStatus \cup {"absent"}, version : Nat, job : Nat,
    consults : Nat, attention : Attention, result : Result ]

AbsentWorkflow ==
  [ status |-> "absent", version |-> 0, job |-> 0, consults |-> 0,
    attention |-> NoAttention, result |-> "null" ]

IsWorkflowTask(t) == WorkflowOf[t] # NoWorkflow

AnyAttempt == Nat

\* Mutant of Fence: the writes of workflow tasks lose expected_attempt.
FenceNone(t, attempt) == AnyAttempt

\* attempt_fence: only the writes of workflow tasks carry expected_attempt.
Fence(t, attempt) == IF IsWorkflowTask(t) THEN {attempt} ELSE AnyAttempt

\* The test every write makes first: the state machine and the attempt.
Admits(row, to, fence) ==
  /\ CanTransition(row.status, to)
  /\ row.attempt \in fence

----------------------------------------------------------------------------
(* Writes.                                                                 *)

\* insert_task: status pending, owner as given.
InsertTask(owner, job) ==
  [AbsentTask EXCEPT !.status = "pending", !.owner = owner, !.job = job]

\* Mutant of CancelTask: a batch cancellation that skips the state machine.
CancelAnyTask(row) == [row EXCEPT !.status = "cancelled"]

\* transition_tasks(..., CANCELLED) and superseded_in, on one row.
CancelTask(row) ==
  IF CanTransition(row.status, "cancelled")
    THEN [row EXCEPT !.status = "cancelled"] ELSE row

\* Mutant of RequeueInterrupted: an interrupted review starts an attempt too.
RequeueReviewAnew(row) ==
  CASE row.status = "reviewing" ->
         [row EXCEPT !.status = "pending_review", !.reviewer = NoAgent,
                     !.attempt = @ + 1]
    [] row.status = "in_progress" ->
         [row EXCEPT !.status = "pending", !.attempt = @ + 1,
                     !.delivery = NoDelivery]
    [] OTHER -> row

\* requeue_interrupted: a restart or an expired lease.  An interrupted review
\* keeps the delivery and its attempt number; an interrupted execution starts
\* a new attempt of the same owner.
RequeueInterrupted(row) ==
  CASE row.status = "reviewing" ->
         [row EXCEPT !.status = "pending_review", !.reviewer = NoAgent]
    [] row.status = "in_progress" ->
         [row EXCEPT !.status = "pending", !.attempt = @ + 1,
                     !.delivery = NoDelivery]
    [] OTHER -> row

\* unassign_pending_task: compare-and-set on the owner.
UnassignPending(row, owner) ==
  IF row.status = "pending" /\ row.owner = owner
    THEN [row EXCEPT !.owner = NoAgent] ELSE row

\* fail_task / transition_task(FAILED); `from` is expected_status.
FailTask(row, fence, from) ==
  IF Admits(row, "failed", fence) /\ row.status \in from
    THEN [row EXCEPT !.status = "failed", !.delivery = NoDelivery] ELSE row

\* requeue_task: the execution failed.  exclude = FALSE when the agent became
\* unavailable.
RequeueTask(row, fence, agent, exclude) ==
  IF Admits(row, "pending", fence)
    THEN [row EXCEPT !.status = "pending", !.owner = NoAgent,
                     !.delivery = NoDelivery, !.attempt = @ + 1,
                     !.failed = IF exclude THEN @ \cup {agent} ELSE @]
    ELSE row

\* complete_task: reviewed_by is written when given, and cleared when a review
\* ends without a reviewer.
CompleteTask(row, fence, delivery, reviewer) ==
  IF Admits(row, "completed", fence)
    THEN [row EXCEPT !.status = "completed", !.delivery = delivery,
                     !.reviewer = IF reviewer # NoAgent \/ row.status = "reviewing"
                                    THEN reviewer ELSE @]
    ELSE row

\* submit_for_review.
SubmitForReview(row, fence, delivery) ==
  IF Admits(row, "pending_review", fence)
    THEN [row EXCEPT !.status = "pending_review", !.delivery = delivery,
                     !.reviewer = NoAgent]
    ELSE row

\* requeue_task_after_review: a /task delivery was rejected; the executor is
\* excluded and another agent takes the task.
RequeueTaskAfterReview(row, fence, agent, delivery) ==
  IF Admits(row, "pending", fence)
    THEN [row EXCEPT !.status = "pending", !.owner = NoAgent,
                     !.delivery = delivery, !.reviewer = NoAgent,
                     !.failed = @ \cup {agent}, !.attempt = @ + 1]
    ELSE row

\* Mutant of ReworkTask: one round too many.
ReworkOnceMore(row, fence, owner, delivery) ==
  IF Admits(row, "pending", fence)
    THEN [row EXCEPT
            !.status = IF row.reworks >= MaxTaskAttempts
                         THEN "failed" ELSE "pending",
            !.owner = owner, !.delivery = delivery, !.reviewer = NoAgent,
            !.failedReviewers = {}, !.attempt = @ + 1, !.reworks = @ + 1]
    ELSE row

\* rework_task: a workflow delivery goes back to `owner`; the round that
\* reaches max_reworks fails the task in the same transaction.
ReworkTask(row, fence, owner, delivery) ==
  IF Admits(row, "pending", fence)
    THEN [row EXCEPT
            !.status = IF row.reworks + 1 >= MaxTaskAttempts
                         THEN "failed" ELSE "pending",
            !.owner = owner, !.delivery = delivery, !.reviewer = NoAgent,
            !.failedReviewers = {}, !.attempt = @ + 1, !.reworks = @ + 1]
    ELSE row

\* return_review: a review without a verdict.
ReturnReview(row, fence, reviewer, exclude) ==
  IF Admits(row, "pending_review", fence)
    THEN [row EXCEPT !.status = "pending_review", !.reviewer = NoAgent,
                     !.failedReviewers =
                        IF exclude THEN @ \cup {reviewer} ELSE @]
    ELSE row

\* release_agent_tasks: a suspended agent loses the /task rows waiting for it.
ReleaseAgentTasks(agent) ==
  [ t \in Task |-> IF IsWorkflowTask(t) THEN tasks[t]
                   ELSE UnassignPending(tasks[t], agent) ]

----------------------------------------------------------------------------
(* Claims.                                                                 *)

\* workflow_tasks rows of w that no replan superseded.
CurrentTasks(w) ==
  { t \in Task : /\ WorkflowOf[t] = w
                 /\ tasks[t].status # "absent"
                 /\ ~tasks[t].superseded }

\* Mutant of HoldsWorkspace: only the writers of workflows that may go on.
HoldsWhileOpen(t) ==
  /\ t \in Writes /\ IsWorkflowTask(t) /\ ~tasks[t].superseded
  /\ tasks[t].status \in {"in_progress", "pending_review", "reviewing"}
  /\ workflows[WorkflowOf[t]].status \in {"running", "blocked"}

\* The second half of EXEC_CLAIM_GATE_SQL: another current writing task that
\* holds the workspace.
HoldsWorkspace(t) ==
  /\ t \in Writes /\ IsWorkflowTask(t) /\ ~tasks[t].superseded
  /\ \/ tasks[t].status = "in_progress"
     \/ /\ tasks[t].status \in {"pending_review", "reviewing"}
        /\ workflows[WorkflowOf[t]].status \in {"running", "blocked"}

ExecClaimGate(t) ==
  IsWorkflowTask(t) =>
    /\ workflows[WorkflowOf[t]].status = "running"
    /\ ~tasks[t].superseded
    /\ t \in Writes => \A u \in Task \ {t} : ~HoldsWorkspace(u)

ReviewClaimGate(t) ==
  IsWorkflowTask(t) =>
    /\ workflows[WorkflowOf[t]].status \in {"running", "blocked"}
    /\ ~tasks[t].superseded

\* Mutant of Claimable: a prerequisite counts from its delivery on.
ClaimableBeforeReview(t, agent, job) ==
  /\ tasks[t].status \in {"pending", "approved"}
  /\ tasks[t].owner \in {agent, NoAgent}
  /\ tasks[t].job = job
  /\ agent \notin tasks[t].failed
  /\ \A d \in Deps[t] : tasks[d].status \in {"pending_review", "reviewing", "completed"}
  /\ ExecClaimGate(t)

Claimable(t, agent, job) ==
  /\ tasks[t].status \in {"pending", "approved"}
  /\ tasks[t].owner \in {agent, NoAgent}
  /\ tasks[t].job = job
  /\ agent \notin tasks[t].failed
  /\ \A d \in Deps[t] : tasks[d].status = "completed"
  /\ ExecClaimGate(t)

\* Mutant of Reviewable: the author may take the review.
ReviewableByAuthor(t, agent, job) ==
  /\ tasks[t].status = "pending_review"
  /\ tasks[t].reviewer # agent
  /\ agent \notin tasks[t].failedReviewers
  /\ tasks[t].job = job
  /\ ReviewClaimGate(t)

Reviewable(t, agent, job) ==
  /\ tasks[t].status = "pending_review"
  /\ tasks[t].owner # agent
  /\ tasks[t].reviewer # agent
  /\ agent \notin tasks[t].failedReviewers
  /\ tasks[t].job = job
  /\ ReviewClaimGate(t)

\* ORDER BY id LIMIT 1 over the rows that pass the filter.
IsFirst(t, Candidates) == t \in Candidates /\ \A u \in Candidates : t <= u

ClaimTask(row, agent) ==
  [row EXCEPT !.status = "in_progress", !.owner = agent]

ClaimReviewTask(row, agent) ==
  [row EXCEPT !.status = "reviewing", !.reviewer = agent]

\* can_reassign_task and can_review_task.
CanReassign(row, candidates) == candidates \ row.failed # {}
CanReview(row, candidates) == candidates \ row.failedReviewers # {}
===========================================================================
