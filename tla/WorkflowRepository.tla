------------------------ MODULE WorkflowRepository ------------------------
(***************************************************************************)
(* The transactions of quimera/workflows/repository.py: each operator with *)
(* primed variables is one BEGIN IMMEDIATE transaction over the tables     *)
(* `workflows`, `workflow_tasks`, `tasks` and `task_attempts`.             *)
(*                                                                         *)
(* workflows.replans is not kept: publish writes version 1 with replans 0  *)
(* and only replan changes either, adding one to both, so replans is       *)
(* version - 1.                                                            *)
(***************************************************************************)
EXTENDS TaskRepository

CONSTANTS
  FirstPlan,         \* the tasks of version 1 of each workflow
  MaxReplans,        \* WorkflowLimits.max_replans
  MaxConsults,       \* WorkflowLimits.max_consults
  MaxOpenWorkflows   \* WorkflowLimits.max_open_workflows

ASSUME WorkflowAssumption ==
  /\ FirstPlan \in [Workflow -> SUBSET Task]
  /\ \A w \in Workflow : \A t \in FirstPlan[w] :
       WorkflowOf[t] = w /\ Deps[t] \subseteq FirstPlan[w]
  /\ MaxReplans \in Nat
  /\ MaxConsults \in Nat
  /\ MaxOpenWorkflows \in Nat

VARIABLE attempts   \* the rows of task_attempts

db == <<tasks, workflows, attempts>>

AttemptStatus ==
  { "running", "submitted", "insufficient_evidence", "accepted", "rejected",
    "failed", "cancelled", "superseded", "interrupted" }

AttemptRow == [task : Task, attempt : Nat, agent : Agent, status : AttemptStatus]

\* The primary key of task_attempts.
IsAttempt(r, t, n, agent) == r.task = t /\ r.attempt = n /\ r.agent = agent

----------------------------------------------------------------------------
(* task_attempts.                                                          *)

\* Mutant of BeginAttempt: the status of the task instead of the attempt's.
BeginInProgress(t, n, agent) ==
  attempts \cup {[task |-> t, attempt |-> n, agent |-> agent,
                  status |-> "in_progress"]}

\* begin_attempt: an upsert that puts the attempt (back) to running.
BeginAttempt(t, n, agent) ==
  { r \in attempts : ~IsAttempt(r, t, n, agent) }
    \cup {[task |-> t, attempt |-> n, agent |-> agent, status |-> "running"]}

\* finish_attempt: a verdict closes a submitted attempt, any other outcome a
\* running one; an outcome already written is never overwritten.
FinishAttempt(t, n, agent, status) ==
  LET source == IF status \in {"accepted", "rejected"} THEN "submitted" ELSE "running"
  IN  { IF IsAttempt(r, t, n, agent) /\ r.status = source
          THEN [r EXCEPT !.status = status] ELSE r : r \in attempts }

\* _close_open_attempts: the attempts of cancelled tasks.
CloseOpenAttempts(closed) ==
  { IF r.task \in closed /\ r.status \in {"running", "submitted"}
      THEN [r EXCEPT !.status = "cancelled"] ELSE r : r \in attempts }

\* _requeue_interrupted: the running attempts of requeued tasks.
InterruptAttempts(requeued) ==
  { IF r.task \in requeued /\ r.status = "running"
      THEN [r EXCEPT !.status = "interrupted"] ELSE r : r \in attempts }

----------------------------------------------------------------------------
(* Workflows.                                                              *)

InFlight(t) == tasks[t].status \in {"in_progress", "pending_review", "reviewing"}

\* The tasks a batch transition to cancelled would change.
Cancellable(ts) == { t \in ts : CanTransition(tasks[t].status, "cancelled") }

OpenWorkflows(job) ==
  { w \in Workflow : workflows[w].job = job /\ workflows[w].status \in OpenWorkflow }

\* resolve_assignees: only an active agent is kept as the owner of a new task.
Assignee(t, active) == IF Suggested[t] \in active THEN Suggested[t] ELSE NoAgent

\* publish: workflow, first version, tasks and dependencies, all at once.
Publish(w, job, active) ==
  /\ workflows[w].status = "absent"
  /\ Cardinality(OpenWorkflows(job)) < MaxOpenWorkflows
  /\ workflows' = [workflows EXCEPT ![w] =
       [AbsentWorkflow EXCEPT !.status = "ready", !.version = 1, !.job = job]]
  /\ tasks' = [t \in Task |-> IF t \in FirstPlan[w]
                           THEN InsertTask(Assignee(t, active), job) ELSE tasks[t]]
  /\ UNCHANGED attempts

\* Mutant of Keepable: a task is kept whatever happens to its prerequisites.
KeepableAlone(w, kept) ==
  /\ kept \subseteq CurrentTasks(w)
  /\ \A t \in kept : tasks[t].status \notin {"failed", "rejected", "cancelled"}

\* decide_kept, over every plan a coordinator could send: a task is kept when
\* it is alive and the new plan repeats it and what it depends on.
Keepable(w, kept) ==
  /\ kept \subseteq CurrentTasks(w)
  /\ \A t \in kept : /\ tasks[t].status \notin {"failed", "rejected", "cancelled"}
                     /\ Deps[t] \subseteq kept

\* The tasks a new version may add to those it keeps.
Insertable(w, kept, fresh) ==
  /\ fresh \subseteq { t \in Task : WorkflowOf[t] = w /\ tasks[t].status = "absent" }
  /\ \A t \in fresh : Deps[t] \subseteq kept \cup fresh
  /\ kept \cup fresh # {}

Replanned(row) ==
  [row EXCEPT !.version = @ + 1,
              !.status = IF @ = "paused" THEN @ ELSE "running",
              !.attention = NoAttention, !.result = "null"]

\* replan: retires what is not kept, creates what is new in the job of the
\* workflow, and reopens it unless it is paused.
Replan(w, kept, fresh, active) ==
  LET retired == CurrentTasks(w) \ kept
  IN  /\ workflows[w].status \in {"running", "paused", "blocked", "completed"}
      /\ workflows[w].version - 1 < MaxReplans
      /\ Keepable(w, kept)
      /\ Insertable(w, kept, fresh)
      /\ tasks' = [t \in Task |->
           IF t \in retired THEN [CancelTask(tasks[t]) EXCEPT !.superseded = TRUE]
           ELSE IF t \in fresh THEN InsertTask(Assignee(t, active), workflows[w].job)
           ELSE tasks[t]]
      /\ attempts' = CloseOpenAttempts(Cancellable(retired))
      /\ workflows' = [workflows EXCEPT ![w] = Replanned(workflows[w])]

\* The attention of an earlier consultation is overwritten with NULL.
WithStatus(row, to, result) ==
  [row EXCEPT !.status = to, !.attention = NoAttention,
              !.result = IF result = "null" THEN @ ELSE result]

\* set_status without cancel_tasks: compare-and-set on status and version.
SetStatus(w, to, expected, version, result) ==
  /\ workflows[w].status \in expected
  /\ workflows[w].version = version
  /\ CanTransitionWorkflow(workflows[w].status, to)
  /\ workflows' = [workflows EXCEPT ![w] = WithStatus(workflows[w], to, result)]

\* set_status with cancel_tasks = TRUE.
SetStatusAndCancel(w, to, expected, version, result) ==
  /\ SetStatus(w, to, expected, version, result)
  /\ tasks' = [t \in Task |-> IF t \in CurrentTasks(w) THEN CancelTask(tasks[t])
                                                       ELSE tasks[t]]
  /\ attempts' = CloseOpenAttempts(Cancellable(CurrentTasks(w)))

\* set_result: compare-and-set on status and version.
SetResult(w, result, status, version, onlyIfEmpty) ==
  /\ workflows[w].status = status
  /\ workflows[w].version = version
  /\ onlyIfEmpty => workflows[w].result = "null"
  /\ workflows' = [workflows EXCEPT ![w].result = result]

\* claim_consult: one consultation per motive, up to the limit.
ClaimConsult(w, attention) ==
  /\ workflows[w].consults < MaxConsults
  /\ workflows[w].attention # attention
  /\ workflows' = [workflows EXCEPT ![w].attention = attention, ![w].consults = @ + 1]

\* The tasks of `ts` whose execution or review a requeue would interrupt.
Interruptible(ts) == { t \in ts : tasks[t].status \in {"in_progress", "reviewing"} }

Adopted(row, job) ==
  [row EXCEPT !.job = job, !.status = IF @ = "running" THEN "paused" ELSE @]

\* Mutant of Adopt: only the tasks it requeues change job.
AdoptInterrupted(w, job) ==
  LET ts == Interruptible(CurrentTasks(w))
  IN  /\ tasks' = [t \in Task |->
           IF t \in ts THEN [RequeueInterrupted(tasks[t]) EXCEPT !.job = job]
           ELSE tasks[t]]
      /\ attempts' = InterruptAttempts(ts)
      /\ workflows' = [workflows EXCEPT ![w] = Adopted(workflows[w], job)]

\* adopt: a new session takes the workflow, with everything it was running
\* back in its queue, and paused if it was running.
Adopt(w, job) ==
  LET ts == CurrentTasks(w)
  IN  /\ tasks' = [t \in Task |->
           IF t \in ts THEN [RequeueInterrupted(tasks[t]) EXCEPT !.job = job]
           ELSE tasks[t]]
      /\ attempts' = InterruptAttempts(Interruptible(ts))
      /\ workflows' = [workflows EXCEPT ![w] = Adopted(workflows[w], job)]

\* requeue_orphans on one task, still in the state the caller observed.
RequeueOrphan(t, status, attempt) ==
  /\ tasks[t].status = status
  /\ tasks[t].attempt = attempt
  /\ Interruptible({t}) # {}
  /\ tasks' = [tasks EXCEPT ![t] = RequeueInterrupted(@)]
  /\ attempts' = InterruptAttempts({t})
  /\ UNCHANGED workflows
===========================================================================
