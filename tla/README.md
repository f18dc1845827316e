# Verification of Quimera's tasks, workflows and shared decisions

Quimera is a multi-agent assistant: a human talks to several command-line agents, and
the agents delegate work, run tasks and review each other. This directory holds TLA+
specifications of the part of it that decides *what runs, who runs it, and which result
counts*: the task queue, the executors and reviewers that consume it, the workflows
that plan tasks on top of it, and the places where several threads decide one thing:
delegations, approvals, questions to the human, debates and the prompts of the chat. They are checked with TLC on small instances, and the
facts that matter most are proved with TLAPS for every instance.

Paths below are relative to `src/quimera/` unless they say otherwise.

## 1. Inventory

`modelled`, `partly` and `not` say how this directory treats the part.

### 1.1 Tasks and workflows

| Part | Code | State | Operations | |
|---|---|---|---|---|
| State machines | `domain/task_states.py`, `workflows/models.py` | – | tables of legal transitions | modelled |
| Task repository | `tasks/repository.py`, `workflows/schema.py` | SQLite tables `tasks`, `task_dependencies` | create, claim, claim for review, submit, complete, fail, requeue, rework, return a review, unassign, batch cancel | partly |
| Workflow repository | `workflows/repository.py`, `replan.py`, `plan.py` | tables `workflows`, `workflow_tasks`, `task_attempts` | publish, replan, set status/result, claim a consultation, adopt, requeue orphans, begin/finish an attempt | modelled |
| Executors and reviewers | `tasks/executor.py`, `executor_pool.py`, `runner.py`, `reviewer.py`, `workflows/execution.py` | one poller and a few slots per agent, the registry of live runs, the set of cancelled runs | poll, run, deliver, rework, hand off, review, recover from an exception, interrupt | modelled |
| Coordinator | `workflows/coordinator.py` | none of its own | create, start, pause, resume, cancel, replan, finish, reconcile, recover, consult | modelled |
| Workflow service | `workflows/service.py` | coordination lock (a file lock), monitor thread, `_busy`, `_pending`, `_has_running`, `_wake` | start, stop, wake, dispatch of reconciles | modelled |
| Agent pool, failure tracker | `app/agent_pool.py`, `app/agent_failure_tracker.py` | members, suspensions with cooldown, failures and strikes per agent | record success/failure, suspend, resume, freeze, rotate | partly |

They interact through one database. Every agent has a poller thread that claims work
from it and hands it to a small thread pool; each handler then talks to its agent for
minutes and writes the outcome back. In the meantime the coordinator (called by the
principal agent's tools and by the monitor thread) cancels, replans, requeues and adopts
the same rows, and a second Quimera process may be doing the same from another session.
Nothing is locked across these: the only defences are the table of transitions, the
attempt number a writer passes as `expected_attempt`, compare-and-set on status and plan
version, the claim gates in SQL, and the registry of live runs.

What is hard here: an answer that arrives after its attempt was requeued; a poller that
loads the task it claimed after somebody else changed it; a cancel that
commits between the last check of a handler and the registration of its run, and one that cuts
a run as it starts; a lease that
expires under a worker that is merely slow; a session that releases the lock before its
executors stop; a replan that keeps half of a plan; a reviewer that gives no verdict; the
exclusivity of tasks that write to the workspace, which lives in an SQL predicate over
rows of *other* workflows; and a status a workflow could never leave.

What makes it correct: one agent per attempt, and one executor in each session; the accepted result is the reviewed
delivery of the last attempt; settled tasks stay settled; one writer; a plan without
dangling prerequisites, all of it in the job a session can claim from; bounded rework;
cancellations that miss no run; and workflows that leave `running`.

What makes the coordinator correct although what it reads ages: a workflow is completed or
blocked only for reasons that still hold, and an answer of the principal agent counts only
for the decision it was asked about. What makes the service correct: one session
coordinates, the lock is let go, and no event is missed while a reconcile runs.

### 1.2 Delegations, approvals, questions, debates, chat

| Part | Code | State | Hard behaviour | Correct when | |
|---|---|---|---|---|---|
| Delegation | `runtime/tools/delegate.py`, `runtime/tools/tasks.py` | active delegations, the tracking task and its job, handles of steps | cancellation against finalization, parallel steps with a time limit against a late answer, a host that refuses a thread or a write | task, job, reply and cancellations tell one story, and a cancelled delegation ends | partly |
| Input broker | `runtime/input_broker.py`, `app/simple_input_gate.py`, `ui/textual/input_gate.py` | queue of requests, claims of lines, reservation of stdin | expiry against a claimed line, several consumers, chat against question | each line answers the request it was read for, and stdin returns to the chat | partly |
| Approvals | `runtime/approval_broker.py`, `approval.py`, `executor.py` | scopes with uses, delegation budget, approve-all, path locks, forks | concurrent consumption, a call that asks while it holds locks | nothing runs on a grant nobody gave, nor beside a call on its path; every call ends | partly |
| Debate | `debate/service.py`, `debate/repository.py` | the row of the debate, work items, links, tasks and dependencies; the live call and the events that cancel it | cancel against a call being registered, expiry found by another application, work items applied in several transactions | it ends by its total time, and a work item becomes one task | modelled |
| Chat | `app/chat_processor.py`, `worker.py`, `chat_lifecycle.py`, `chat_round.py`, `agent_call_service.py`, `runtime_state.py` | the semaphore of slots and two counters, the sets and the registry of executions, futures, the turn | a slot reserved, promoted, given back by a cancelled future or a wait that timed out; `/stop` and Ctrl+C against the start of a run and against failover | slots are conserved, a stop reaches its run and is final, every prompt ends and leaves nothing behind | partly |
| Agent client | `agents/client.py`, `cancel_signal.py`, `signal_guard.py`, `runtime/drivers/` | cancel event of a run, of a fork and of the round | a cancellation between the check and the clear at the start of a run | a cancelled run is cut | start and cancellation of a run only |
| Processes | `agents/process_runner.py`, `agents/warm_pool.py`, `runtime/process_supervisor.py` | warm slots, registered processes | shutdown against a warm-up | every process started is handed out or terminated | what cuts a run only |

These meet the core and each other through few things: a tool call runs in a thread that may
wait for a human (approvals over the input broker), may delegate (a delegation writes a
tracking task in the tables of the core), and is cut by the cancel event of the client of its
agent; a debate ends in tasks of the core. The chat is where an agent of the human's prompt runs,
and its outcomes are what suspends an agent for everybody.

### 1.3 Not modelled

The drivers, MCP client and server, the tool executor and local
tools, the Textual interface, profiles, evidence files, sandbox
arguments and configuration are I/O, protocol translation, presentation or data. They
meet the modelled parts only through tools and through an agent's answer, which the models
take as a free choice. They are also most of the program: of some 81,000 lines of Python, the
interface, the drivers, the MCP client and server and the local tools are far more than
half, and nothing in them decides about state that two actors share. The definitions here
therefore map a small share of the lines of the repository, and the larger part of the
modules they are about.

## 2. Plan

Done:

1. `TaskStates`, `TaskRepository`, `WorkflowRepository`: rows and transactions.
2. `TaskExecution`: composes them with executors, reviewers, tools, monitor and sessions.
   `TaskLifecycle`: the abstract specification it implements.
3. `TaskExecutionProofs`, and `WorkflowRepositoryProofs` under it: theorems.
4. `WorkflowCoordinator`: `reconcile` split into snapshot, requeue, settlement, decision and
   conclusion, with consultations and `workflows_finish`, over the same `WorkflowRepository`.
5. `WorkflowMonitor`: monitor thread, wake-ups, reconcile jobs and the coordination lock.
6. `InputBroker`, and `ToolApproval` composed with it.
7. `DelegationTracking`: a delegation, its tracking task and the agents it asks.
8. `Debate`: a debate and the application of its work items.
9. `Chat`: prompts, slots, `/stop`, Ctrl+C, failover and the failure tracker.
10. A module of theorems for each of 4 to 9 (section 6).

Left, in the order of what they add:

1. `decide_kept` as an operator over bounded plans, compared with a reference definition
   (the greatest set of unchanged live tasks closed under prerequisites), and its theorem.
2. The relation between `task_attempts` and the rows of tasks.
3. `TurnManager` and the shutdown of the chat; the edits of `AgentPoolView`.
4. Warm processes and the process supervisor.
5. The safety halves of the other liveness properties, as `NoLostWakeup` is that of
   `EventIsRead`.

Runs stay within two or three tasks, two agents, one slot per agent and session, two
workflows, two sessions, two tool calls, two steps of a delegation, two rounds of a debate and
three prompts.

## 3. Modules

| Module | What it is |
|---|---|
| `TaskStates` | the two transition tables |
| `TaskRepository` | the row of a task; one operator from row to row per write method; claim gates and claim candidates |
| `WorkflowRepository` | workflows and attempts; one operator with primed variables per transaction |
| `TaskExecution` | slots, tools, monitor, pool, sessions; `Spec`, fairness, properties |
| `TaskLifecycle` | abstract: a task as a sequence of numbered attempts |
| `MCTaskExecution` | instances for TLC |
| `WorkflowRepositoryProofs` | lemmas about rows and transactions, for both modules over `WorkflowRepository` |
| `TaskExecutionProofs`, `WorkflowCoordinatorProofs`, `WorkflowMonitorProofs`, `ToolApprovalProofs` (with `InputBroker`), `DelegationTrackingProofs`, `DebateProofs`, `ChatProofs` | theorems and their lemmas |
| `WorkflowCoordinator` | the coordinator's decisions step by step, over `WorkflowRepository`; executors and reviewers are their writes |
| `WorkflowMonitor` | sessions, coordination lock, monitor thread, reconcile jobs, start and stop |
| `InputBroker` | requests, the broker's queue, its consumers, the two gates, the chat |
| `ToolApproval` | the approval and locking of tool calls; EXTENDS `InputBroker` and composes it with the calls |
| `DelegationTracking` | one `tasks_delegate` call against cancellations, the time limit and failures of the host |
| `Debate` | one debate, its cancellation, its expiry, and `apply` by several applications |
| `Chat` | prompts of the human over the slots of `--threads`, their cancellation, failover and what suspends an agent |
| `MCWorkflowCoordinator`, `MCToolApproval`, `MCDelegationTracking`, `MCDebate`, `MCChat` | instances for TLC (`WorkflowMonitor` needs none) |

Sections 3.1 and 3.2 are about `TaskExecution` and the modules under it, 3.3 to 3.8 about the
others.

### 3.1 State

* `tasks[t]` is the row of `tasks`, restricted to what decisions read: status, owner
  (`assigned_to`), reviewer (`reviewed_by`), `failed` and `failedReviewers` (the two lists
  of excluded agents), attempt, reworks, delivery, job and superseded
  (`workflow_tasks.superseded_in`). The text of a result is abstracted to *whose delivery of
  which attempt* it is.
* `workflows[f]` has status, plan version, job, number of consultations, attention and
  result. `replans` is not kept: it is always `version - 1`.
* `attempts` is the table `task_attempts`, keyed by task, attempt and agent.
* `workers[w]` is a slot of a thread pool: a program counter, the task and the snapshot of
  it the handler was given (attempt, owner, delivery), what the agent answered, and the state
  of its client: no cancellation chose it, its cut is due, its cancel event is set, or was set
  and then erased by the start of the run. Until the poller has loaded the task (`Polling`) the
  attempt is the one it claimed.
* `session` is the session that holds the coordination lock, and also its job;
  `recovering` the workflows `recover` has still to adopt; `pool` and `suspended` the
  members of the pool and those under suspension; `cancelledRuns` is `_cancelled_task_runs`; `interrupting` holds
  tasks whose cancellation committed but has not reached the registry of runs.

Constants `WorkflowOf`, `Writes`, `Deps` and `Suggested` fix, for each task id, what its
plan says of it: these columns are never updated. `FirstPlan` gives the first version of
each workflow; a replan takes any set of kept tasks and any set of new ones that
`decide_kept` and the plan validation admit.

### 3.2 Actions

| Code | Actions |
|---|---|
| `TaskExecutor._process_next` | `Claim`, `ClaimReview`, `Load`, `LoadReview`, `LoadRaises` |
| `TaskRunner.run`, `WorkflowTaskHooks` | `Begin`, `Check`, `Answer`, `NoAnswer`, `FinishWorkflowRun`, `FinishPlainRun`, `Deliver`, `Rework`, `HandOff`, `RunRaises` |
| `_BackgroundDispatchPerCall.delegate`, `AgentClient.run`, `EscMonitor.start` (executors and reviewers) | `Dispatch` (`_track_task_run`), `CheckRun`, `ClearEvent` |
| `TaskReviewer.review` | `ReviewAnswer`, `CompleteReview`, `RecordAccepted`, `RecordRejected`, `ReviewRework`, `RejectPlain`, `ReviewerUnavailable`, `ReviewRaises` |
| `TaskExecutor._run_handler` | `HandlerRaises`, `HandlerReads`, `FailUnfenced` |
| Tools of the principal agent and of the human | `PublishWorkflow`, `StartWorkflow`, `Pause`, `Resume`, `ResumeAdopts`, `Cancel`, `FinishBlocked`, `FinishFailed`, `ReplanWorkflow`, `CreateTask` (`/task`) |
| `TaskExecutorPool.cancel_task_runs` | `Interrupt` (marks and collects, under the lock), `CutRun` (`cancel_active_work` of one client) |
| `WorkflowCoordinator.reconcile` | `LeaseExpires`, `ReleaseReady`, `FailUnrunnable`, `Complete`, `Block` |
| Pool and sessions | `Suspend`, `Resumes`, `Reload`, `Connect`, `NewSession`, `StopSlot`, `Recover` |

An action is one `BEGIN IMMEDIATE` transaction, or one step of a handler between two of
them. Where several transactions are one action, or a branch is left out, this is why:

* *Claim and load.* Two transactions (`tasks/executor.py:199,201`), two actions. The second one
  reads the row by its id alone, and `_can_execute_task` compares status and agent only, so the
  handler gets the row as it is by then: cancelled, requeued by an adoption, or claimed again
  on another attempt by the same agent. `_claim_lock` only keeps the other slots of the executor
  out meanwhile (`MayClaim`). The submission to the thread pool is part of the load.
* *Read and fenced write.* `discarded` is read in its own transaction before `finish` and
  `abort` close the attempt. If the row changes in between, the attempt was already closed
  by the transaction that changed the row, and `finish_attempt` never overwrites an
  outcome; the later write of the row carries the attempt.
* *Unfenced write.* The recovery of an escaped exception is the exception, and is two
  actions.
* *Cancellation.* `cancel` commits, `cancel_task_runs` marks the tasks and collects their clients
  under the lock of the registry, and cuts each client after it: three actions. A run registers
  under the same lock, then checks the cancel event of its client and then clears it. A cut in
  between is erased. The retries inside one dispatch are one run here, and agents that run over
  an API instead of a process, which a cut also ends directly, are left out.
* *Unreachable branches.* `was_user_cancelled` is constantly false for the runs of the pool
  (`tasks/executor_pool.py:608`), and the self-review branch of `TaskReviewer`
  (`tasks/reviewer.py:161-185`) needs a reviewer equal to the owner, which the claim
  excludes. Neither is an action. A task with an empty body is not created by any caller.
* *Leases.* A lease lasts `lease_seconds` (1800 s) from the claim, and the time from a claim
  to the registration of the run is milliseconds, so a slot that has not loaded its task or
  not called its agent yet holds a fresh lease (`FreshClaim`). From then on the lease may expire any time the
  run is not registered: after the answer, or in a session that is gone.
* *Overlapping sessions.* `tasks/services.py:654-659` stops the workflow service, which
  releases the lock, before it stops the executors. `NewSession` therefore leaves any set
  of slots of the old session alive, free ones included, until `StopSlot` or the end of
  their task; the others are gone as in a crash.
* *Statuses* `proposed`, `approved` and `rejected` belong to the approval path of the
  command line, which is not modelled; no action here produces them.

A suspension may begin at any time (it counts as a fault, so that runs are finite) and end at
any time; a new session forgets it. `/reload` may take any members out of the pool (a fault
too), even all of them, and `/connect` brings one back. Executors exist for the agents the
session started with, so `Agent` is the pool at the start of a session; an agent outside the
pool ends what it runs and claims nothing. The assignee of a planned task is resolved against
the pool when the task is created; a `/task` is routed to an available agent.

### 3.3 The coordinator step by step

`TaskExecution` takes every step of a reconcile as atomic, with everything else free.
`WorkflowCoordinator` is the converse: handlers are reduced to the transactions they end in,
and a thread that reconciles holds what it read (`threads[x].seen`, status, version, owner,
attempt and reworks of each task) while everybody else moves on.

| Code | Actions |
|---|---|
| `reconcile` | `StartReconcile`, `TakeSnapshot`, `Decide` |
| `_requeue_expired`, `_settle_unrunnable` | `SeeExpiredLease`, `RequeueExpired`, `SettleTask` |
| `_conclude`, the consultation of `service.py` | `Conclude`, `Claim`, `ConsultEnds` |
| `finish`, `_record_result` | `FinishCompleted`, `FinishBlocked`, `FinishMove`, `FinishRecord`, `FinishFailed` |
| other tools | `Create`, `Start`, `Pause`, `Resume`, `Cancel`, `ReplanWorkflow` |
| claims and outcomes of handlers | `ClaimExecution`, `DeliverTask`, `HandOffTask`, `ClaimReview`, `AcceptDelivery`, `RejectDelivery`, `ReviewFails` |
| pool | `Leaves`, `Joins`, `Suspends`, `CooldownEnds` |

`churned` marks a thread during whose decision the pool changed: whether a task may run or be
reviewed depends on the pool, so a decision that aged over such a change may be wrong until
the next reconcile, and `BlocksOnlyStuck` says nothing of it. The consulted agent may itself
call `workflows_finish`: it is the thread of `Caller`.

### 3.4 The monitor

Per session `main` is the thread that calls `start` and `stop`, `monitor` the monitor thread;
`coordinating`, `stopped`, `wake`, `hasRunning`, `busy`, `pending` and `pool` are the fields of
`WorkflowService`, `jobs` the futures of its pool, `holder` the file lock. `stale` holds the
workflows with an event no reconcile has read yet. `stop()` joins the monitor for 5 seconds
only: `JoinReturns` lets it give up while the monitor is inside a database call
(`InDatabase`), and nowhere else. A crash of a session frees the lock (`Exit`). The database is
assumed to answer: a `list_running` that raises would lose the wake-up it served.

### 3.5 Questions and approvals

`req[r]` is an `_InputRequest`, `reader[t]` what a consuming thread does, `waiters` the
reservation of stdin (`_direct_waiters`), `lines` the lines written and not yet taken,
`standing` approve-all and approve-once of each approval manager. `ToolApproval` adds what a
call does (`call`), the prompt lock of each manager, the uses left of a scope, the delegations
charged to the budget. Both gates are there: with the pipe gate only the broker's thread
opens prompts; with the Textual gate the threads that watch an agent do too.

Abstractions: deadlines pass at any time (a request may expire as soon as nobody claimed its
line), but the half minute a claimed request is granted suffices for a thread that holds a
line; `set_result` and the release of the reservation are one step, as are the `get` and the
putting back of a request a consumer may not handle; the end of stdin is that nothing more is
written. Exceptions of readers, windows of a TTY and the unattended policy are left out. A
fork of an approval manager has locks and scopes of its own, as in the code: `KeysExclude` is
about the calls of one manager.

### 3.6 Delegations

One call of `tasks_delegate`: `pc` is the thread that executes and finalizes it, `step[i]` the
execution of each step down to the client of its agent, `caller[c]` what a caller of
`tasks_cancel` holds (the entry it looked up) or was told. The client of an agent has a cancel
event that is checked and then cleared when a run starts (`StartRun`, `ClearEvent`): `lost`
records the steps whose agent started over a cancellation. The host may refuse a thread or a
write (`fault`), an agent may never answer.

Not modelled: failure to create the tracking task, retries inside one dispatch, the Ctrl+C
checker of the chat, cleanup callbacks. The retry path of `_persist_terminal_status` needs
another writer of the tracking row, and there is none: it is not an action. The two-second
join after the deadline promises nothing, so it is not waited for.

### 3.7 Debates

`pc` is the thread of the debate, `call` the daemon thread of the current call with its handle
(`cancel` is the handle's event, which is also the cancel event of the agent's client, and is
cleared when a run starts); `canceller` the thread of `/debate cancel`, which collects the
handles, sets `root` and cancels them in this order. `user[a]` is the thread of an application
inside `apply`. `clock` is the total time of the debate; "due" is the moment from which the
database, which compares whole seconds, finds it expired although it has a little time left.
The contents of contributions are a choice (support, critical objection, any other valid
answer, invalid, error), the plan of a synthesis is a set of work items. One debate, one
canceller; participants answer in order. The unique index on the source of a task is assumed
to exist (its creation tolerates old duplicates in the database).

### 3.8 Prompts of the chat

`pc[p]` is where prompt `p` is: accepted by the screen, in the queue of the `ChatWorker`
(`sent`), in the executor (`submitted`), in a thread of it, over. `reserved` holds the prompts
the main loop found a slot for, `slots` the semaphore and the two counters of
`AppRuntimeState`, `book` the sets of `ChatLifecycle` (`listed` is `_chat_executions`) and the
outcome on the screen. `run[p]` is the round: the agent, the candidates of the failover, the
attempt, and the event of the fork (`cut`); `event` is the event of the round, which the fork
reads too (`ForkCancelEvent`).

| Code | Actions |
|---|---|
| `submit_input`, `run_chat_loop`, `ChatWorker` | `Accept`, `Enqueue`, `SubmitAsync` |
| the executor, `process_queued_message` | `StartFuture`, `Promote`, `LeaveQueue`, `QueueTimeout` |
| `process_message` | `StartMessage`, `StartRound`, `Fail`, `Conclude` |
| `ChatRoundOrchestrator.process`, `AgentCallService.call`, `AgentClient.run` | `Bind`, `CheckRun`, `ClearEvent`, `RunCut`, `RunEnds`, `Judge` |
| the end of a thread's call, `_on_submission_done` | `Leave`, `SubmissionDone` |
| `stop_chat_submission` | `StopMark` (under the lock), `StopPublish`, `StopFork` |
| `handle_local_interrupt` | `Interrupt`, `ChooseVictims`, `CancelVictims` |
| `AgentFailureTracker`, `AgentPool` | `RecordSuccess`, `RecordFailure`, `RecordRateLimited` in `RunEnds`; `CooldownEnds` |

`lost` marks a run that started over a `/stop`, in the window between the check and the clear;
`caught` marks prompts whose run had been forked when Ctrl+C set the event. Queues are first in,
first out, so the oldest prompt of a stage is the next. The two early returns of a round that
asks nobody (no agent to route to, an empty message, `app/chat_round.py:257-261`) are left out:
they end it as an answer does. Deadlines of suspensions pass at any
time and any agent may be taken first, also a suspended one (the prompt may name it). The turn,
shutdown, prompts without an executor and runs over an API, which Ctrl+C also cuts directly,
are left out.

## 4. Runs

`chain`, `beside`, `writers`, `sessions`, `reopened` and `stale_handler` are in
`MCTaskExecution`, with two agents (`reopened` has one) and one slot each per session.

| Run | Instance | Checks | Result |
|---|---|---|---|
| `chain` | a workflow of two writing tasks, the second after the first, the first planned for one agent; one replan, which may drop either; one fault; one session | `TypeOK`, `CompletionIsReviewed`, `DeliveryOfCurrentAttempt`, `PlanIsClosed`, `WorkflowSettles` (fair) | holds |
| `beside` | a workflow task beside a `/task`; two rounds of rework; one session, no faults | `ReworkBound`, `ImplementsLifecycle` | holds |
| `writers` | two workflows with one writing task each | `WriterExclusion`, `WritersOverlapOnlyWhenCancelled`, `InterruptReachesEveryRun` | holds |
| `sessions` | a workflow a replan extends with a second task after the first, over two sessions | `AttemptInv` (`OneExecutorPerAttempt`, `DeliveryOfCurrentAttempt`), `PrerequisitesStayCompleted`, `JobOfPlan` | holds |
| `reopened` | a workflow one replan may extend, over two sessions, fair | `WorkflowSettles` | violated |
| `stale_handler` | one task, two faults | `OldAttemptWritesNothing` | violated |
| `decisions` | `MCWorkflowCoordinator`: a workflow of one task, which a replan extends with or replaces by an independent one, one reconciling thread, one thread in `workflows_finish`, one consultation, one fault | `CoordinatorInv` (`CoordinatorTypeOK`, `CompletedIsAccepted`), `BlocksOnlyStuck`, `AnswerFitsDecision`, `AcceptedIsConcluded` (fair) | holds |
| `monitor` | `WorkflowMonitor`: two sessions, one workflow, two starts | `MonitorInv` (`MonitorTypeOK`, `OneCoordinator`), `StoppedLetsGo`, `EventIsRead`, `MonitorSleeps` (fair) | holds |
| `approvals` | `MCToolApproval`: two tool calls in four pairings, both gates, two lines, one `/approve` | `ApprovalInv` (`ApprovalTypeOK`, `KeysExclude`), `LineIsAnswer`, `OnePrompt`, `ChatGetsStdinBack`, `ChatLeavesAnswers`, `ApprovedBySomebody`, `EveryCallEnds` (fair) | holds |
| `delegations` | `MCDelegationTracking`: two steps, in parallel for a caller that waits or in sequence with a fallback for one that does not, two callers of `tasks_cancel` | `DelegationInv` (`DelegationTypeOK`, `CompletedIsWhole`), `CancelOrOutcome`, `OneStory`, `CancelCloses`, `ParallelCloses` (fair) | holds |
| `debates` | `MCDebate`: two participants, two rounds, quorum 2, plans of none or two items, two applications, one death | `DebateInv` (`DebateTypeOK`, `TasksOfDebate`), `DebateEnds` (fair) | holds |
| `chat` | `MCChat`: eight sessions of two or three prompts over one or two slots, with one `/stop` or one Ctrl+C or both, and agents that answer, keep silent, raise, reach a limit or fail for good | `ChatInv` (`ChatTypeOK`, `SlotsConserved`), `CancelReachesRun` (`StopReachesRun`, `InterruptReachesRun`), `NothingLeftBehind`, `StopIsFinal`, `EveryPromptEnds` (fair) | holds |

An invariant named `...Inv` is the conjunction of those in brackets: what it must guarantee, in states
that have their type.

What the passing runs show:

* `DeliveryOfCurrentAttempt`: what is under review or accepted is the delivery of the last
  attempt, by its owner. Late executors and reviewers of older attempts are refused:
  those that lost their lease (`chain`) and those of the old session (`sessions`).
* `CompletionIsReviewed`: a workflow task is accepted only after the review of an agent
  other than its author, unless the pool has no other at that moment; whichever reviewers
  fail, leave or are lost.
* `WorkflowSettles`: a workflow leaves `running`.
* `ImplementsLifecycle`: every step of every actor is a step of `TaskLifecycle` or changes
  nothing there. In particular settled tasks never change and a delivery is accepted as it
  was made. `beside` has neither adoptions nor attempts that come late; those are covered by
  the theorem (section 6.1), and the instance of `sessions` was checked for the refinement too.
* `ReworkBound`: the round that reaches the limit fails the task, no earlier or later.
* `WriterExclusion`: two current writing tasks are never both `in_progress`.
  `WritersOverlapOnlyWhenCancelled`: as to live agents rather than rows, two write at once
  only when the task of one of them is cancelled. Its run is then still to be cut, or the cut
  was erased: until that agent answers, both write.
* `InterruptReachesEveryRun`: a cancellation misses no run, whichever registers, checks or starts
  while it commits, marks and cuts: the client of each registered run of a marked task is due
  to be cut, has its event set, or had it set in the window in which its start clears it
  (section 5).
* `OneExecutorPerAttempt`: only one agent executes an attempt, in one slot of each session. A
  second slot can only be of an earlier session (section 5).
* `PlanIsClosed`, `JobOfPlan`: current tasks wait only for current tasks, and are all in
  the job of their workflow.
* `PrerequisitesStayCompleted`: what a started task depends on stays accepted.
* `CompletedIsAccepted`, `BlocksOnlyStuck`, `AcceptedIsConcluded`: a conclusion drawn from an
  aged snapshot is right when it is written, because every way the rows can outdate it also
  makes the compare-and-set fail, or cannot happen in a state that was stuck; and a reconcile
  that loses is followed by another.
* `AnswerFitsDecision`: the answer of a consultation is recorded only for the status and plan
  version it was asked about, and not over what `workflows_finish` recorded meanwhile.
* `OneCoordinator`, `StoppedLetsGo`: a session that accepts operations on workflows holds the
  lock, and one that stopped does not, whatever `stop()` meets.
* `EventIsRead`, `MonitorSleeps`: no event is missed while its workflow is being reconciled,
  without the help of the poll, and reconciles do not keep the monitor awake.
* `LineIsAnswer`, `ChatGetsStdinBack`, `ChatLeavesAnswers`: over a pipe a line read for a request
  is its answer, stdin returns to the chat, and the chat takes no line written for a prompt.
  `OnePrompt`: over a pipe one question is open at a time, although the broker's thread and the
  threads that watch agents all consume the queue.
* `ApprovedBySomebody`, `KeysExclude`, `EveryCallEnds`: a call runs on a grant that was given to
  it, once; two calls of a manager on one path exclude each other; prompt locks, path locks
  and the queue of prompts never wait in a circle.
* `CancelOrOutcome`, `OneStory`, `CompletedIsWhole`: a caller told that a delegation is being
  cancelled never sees it completed; row, job and reply agree; it is completed only when every
  step answered in time.
* `CancelCloses`, `ParallelCloses`: a cancelled delegation, and parallel steps past their time,
  end without an answer of any agent, with the exception `lost` names.
* `TasksOfDebate`: applied once or again, by whichever application, with a death in between, a
  work item has one task, a debate marked applied has all its links and dependencies, and only
  a concluded debate has tasks; the exception is a result that could not be shown, which fails
  a debate after it concluded (`service.py:430`).
* `DebateEnds`: a debate ends by its total time. A call that is registered while `cancel` sets
  `root_cancel` is not cut, and this deadline is then what ends it.

* `SlotsConserved`: over every way a prompt may take and give back a slot (reserved by the main
  loop, promoted, dropped by the worker, cancelled before it started, timed out) permits and
  counters stay what they say.
* `StopReachesRun`, `StopIsFinal`: a `/stop` that returned has cut the run of its prompt, which
  asks nobody else and counts as nobody's failure, whatever the prompt was doing; the exception
  is a run `lost` names (section 5).
* `InterruptReachesRun`: with one thread a Ctrl+C is not erased before the run it was meant for
  has seen it. With more it may be (section 5).
* `NothingLeftBehind`, `EveryPromptEnds`: no late status brings a finished prompt back to the
  list or leaves it without an outcome, and every prompt ends.

`CHECK_DEADLOCK FALSE` is in every configuration because the system may stop: when all
tasks are settled and all workflows decided nothing is left to do, and replans, sessions
and faults are bounded.

### 4.1 Bounds

| Bound | Values | Why it is enough |
|---|---|---|
| `MaxFaults` | 0, 1, 2 | suspensions, `/reload`, exceptions (of handlers and of loads) and expired leases. In `chain` the fault may meet any state; two are needed in `stale_handler` (an escaped exception is two of them). `chain` was also run with two faults and no replan (1,316,521 states), and `beside` and `writers` with one (4,838,897 and 9,860,720): nothing is violated |
| `MaxSession` | 1, 2 | survivors, adoption and recovery involve an old and a new session |
| `MaxReplans`, `MaxConsults`, `MaxOpenWorkflows` | small values of `WorkflowLimits` | the code compares against them; one replan suffices to retire and keep (`chain`), and to add (`sessions`). With two replans `sessions` has 5,256,748 states and nothing is violated |
| `Writes` | one or both tasks | in `sessions` the first task does not write: with two writers the workspace alone would keep the second from starting before the first is accepted |
| `Reconciler`, `Caller` | 1, 1 | two threads suffice for a lost race of a compare-and-set; a second reconciler of one workflow is excluded by `_busy`, except for `resume`. The two tasks of `decisions` are independent, so that a replan can add a task that may start at once to a plan that was stuck. It was also run with the second task after the first and two consultations (376,707 states), and `BlocksOnlyStuck` with a chain of two tasks, an independent third and no caller (571,889): nothing is violated |
| `MaxStarts` | 2 | each session once, or one twice: a lock taken over and a pool replaced |
| `MCJobs`, `MaxLines`, `MaxGrants` | 4 pairs, 2, 1 | the pairs that meet: two patches of the same files named in opposite order, from one manager and from two; a patch and a question; two delegations on a budget of one. Two lines answer both or the wrong one |
| `MCCalls`, `N` | 2, 2 | who waits and how steps are executed are independent choices of the code; two steps have one that is late and one that is not |
| `MaxRounds`, `Participants`, `Quorum` | 2, 2, 2 | consensus needs a second round, a quorum can be missed by one answer. Other plans (a single item) were run too: nothing is violated |
| `Settings` | eight sessions | the queue needs a prompt more than threads and, to reserve a slot ahead of a waiting prompt, two more than one thread; two threads and every result for the failure tracker; a cancellation together with an agent that fails, for the failover it must not cause. Three prompts with a `/stop` and a Ctrl+C on one thread, two of them with agents that may keep silent, and on two threads two prompts with a Ctrl+C and such agents were run too (1,047,337 states, with two of the sessions above): nothing is violated |
| `MaxCrashes` | 1 | any application may die anywhere, and start again |
| `MaxTaskAttempts` | 1, 2 | 1 makes the first return the last; 2 has a round that is not the last |
| agents, slots | 2, one each per session (`reopened`: 1 agent) | an author and a reviewer; with one excluded there is none left, which is the case blocking and starving are about. Two slots on one agent add nothing to the claims, which look at agents and rows only |
| tasks, workflows | at most 2 and 2 | a prerequisite and its dependent; two writers |

The bounds sit in guards (`Fault`, `NewSession`, and the limits the code itself has), never
in a constraint that cuts behaviours off. In `ToolApproval` the user and the commands of the
chat stop when no call can ask any more, since nothing reads what comes after.

### 4.2 Fairness

`Fairness` of `TaskExecution` is weak fairness of

* each slot with a task (`WorkerStep`): the agent's process is ended at the wall clock limit
  (`agents/process_runner.py:14,189`), the rest is straight code;
* the claims of a free slot (`ClaimStep`): pollers poll every few seconds and on wake-up;
* the monitor (`ReconcileStep`, `Recover`): it polls while a workflow is running;
* `Interrupt` and `CutRun`: they are the next statements after the commit;
* the end of a suspension (`Resumes`): the cooldown is 5 minutes to 1 hour
  (`app/agent_failure_tracker.py:60-66`).

No fairness on tools, sessions or faults: nobody must start, resume or replan anything.
`MaxFaults` means that liveness is checked for finitely many
faults. That is an assumption: an agent that raises in every review, forever, is excluded
by name each time, but leases could expire forever under a clock that jumps.

The other modules assume weak fairness too, of threads that are able to go on:

* `WorkflowCoordinator`: the threads that reconcile and finish, and the start of a reconcile of
  a running workflow (the monitor polls). A consultation ends with the wall clock limit of the
  agent's run. Tools, tasks and the pool owe nothing.
* `WorkflowMonitor`: the monitor, its jobs and `stop`; not the poll, so that `EventIsRead` is
  what the wake-ups achieve alone.
* `ToolApproval`: each call, whose waits end by their deadlines, and a consumer that holds a
  line. The user need not write anything.
* `DelegationTracking`: the executing thread (the passing of its deadline included), the thread
  of each step except for the answer of its agent, and the watcher, which polls.
* `Chat`: each prompt, once the screen accepted it: the main loop, the worker and the threads of
  the executor run, the wait for a slot ends after 600 s (`app/chat_lifecycle.py:17,512-527`) and
  a run at its wall clock limit. Nobody must stop or interrupt anything.
* `Debate`: the thread of the debate, and time. Neither agents, nor their threads, nor anybody
  who cancels.

## 5. Where code and documentation differ

* `reopened`. `replan` accepts a `completed` workflow and creates tasks in the job stored in
  it, but only `recover` (open workflows only) and `resume` move a workflow to the job of the
  session. A workflow completed in an earlier session and reopened by `workflows_replan` has
  tasks no executor claims, and stays `running`; the workflow guide says it never does
  (`src/docs/desenvolvimento/workflows.md:210-214`).
* `stale_handler`. The guide says every write of a workflow task carries `expected_attempt`
  (`workflows.md:189-192`); the recovery of an escaped exception does not, and fails the next
  attempt if the row moved between its read and its write.

Others were met while modelling and have no run of their own; the properties are stated for the
part where they hold, and dropping the condition named here shows the rest:

* *An attempt loaded by the wrong session.* The workflow service releases the lock before the
  executors stop (`tasks/services.py:654-659`). A poller that claimed attempt `n` there and has
  not loaded it yet may find attempt `n + 1`, which the new session adopted and the executor of
  the same agent claimed: the read goes by id (`tasks/executor.py:201`), and `_can_execute_task`
  sees the status and the agent it expects. Two slots then run one attempt. What is delivered
  is still a delivery of the last attempt by its owner (`DeliveryOfCurrentAttempt`), but as soon as
  one of the two hands the task off, the next attempt may start beside the other. That
  `OneExecutorPerAttempt` says "one in each session" is this exception: the form without it is
  violated in the instance of `sessions`, and `WritersOverlapOnlyWhenCancelled` is violated
  there too if its first task is the one that writes, unless such loads are left out (`NoLateLoad`, section
  6.1). The workflow guide says of an old attempt that it does not overwrite the result of a
  newer one (`workflows.md:189-192`); here the old poller is on the newer one.
* *A cut that is lost.* A comment says that the registry and its cancellations share a critical
  section, so that a run registered later sees the cancellation
  (`tasks/executor_pool.py:842`), and it does; but the clients are cut outside of it
  (`:849-851`), and a cut between the check of `AgentClient.run` (`agents/client.py:1076`) and the
  clear of `EscMonitor.start` (`agents/signal_guard.py:37`) is erased. The agent of a cancelled or
  superseded task then runs to its end, where the guide says running tasks are interrupted
  (`workflows.md:243`). Its answer is refused; that it may go on writing to the workspace
  beside the next writer is the case `WritersOverlapOnlyWhenCancelled` leaves.
  `InterruptReachesEveryRun` without `"erased"` is violated in the instance of `writers`.
* *Two prompts at once.* The broker promises to serialise every prompt through one queue
  (`runtime/input_broker.py:167,305`). With the Textual gate its own thread and every thread
  that watches an agent open prompts side by side, and all of them read the same queue of
  direct input, so a line may answer the question of another agent. A comment in the code
  names this race for the pipe gate, where it is excluded (`:352-353`). `OnePrompt` is about
  the pipe; without `gate = "pipe"` it is violated.
* *Ctrl+C with more than one thread.* A fork observes the event of the round "para que Ctrl+C
  continue cancelando todas as execuções" (`agents/client.py`, `fork_for_concurrent_run`), but
  the start of any other prompt clears that event (`app/chat_lifecycle.py:401`), also before a
  run polled it: that run goes on, and so does its failover unless the prompt was among those
  Ctrl+C marked. `InterruptReachesRun` without `threads = 1` is violated.
* *`/stop` of a run that is starting.* It sets the event of the fork, which the start of the run
  clears (`agents/signal_guard.py:37`) if it was checked just before: the agent runs to its end.
  If `run` also resets `user_cancelled` after the `/stop` (`agents/client.py:1084`), an attempt that
  fails then counts as a failure, which the reference says it does not
  (`src/docs/referencia/comandos.md:62`). `StopReachesRun` and `StopIsFinal` except it (`lost`).
* *One thread, a queue of three.* The slot of a finished prompt is free before its thread is
  (`app/chat_lifecycle.py:494`). If the second prompt then takes the thread and the main loop
  the slot, for a third one, the second waits in the only thread for a slot that belongs to a
  prompt queued behind it, until its 600 s pass and it fails.

Two behaviours the models have and no document settles: a delivery nobody is left to review
holds the workspace while its workflow is blocked, so another workflow's writer waits for the
human (`workflows/schema.py:96`); and a rejected `/task` returns to `pending` even if every
agent is excluded from it (`tasks/reviewer.py:255`).

## 6. Proofs

Eight modules of theorems, checked by TLAPS for every value of the constants that satisfies the
named assumptions: `RepositoryAssumption` and `WorkflowAssumption` (types of the columns that are
never updated, plans that are closed, only workflow tasks write), `ExecutionAssumption`,
`CoordinatorAssumption`, `MonitorAssumption`, `BrokerAssumption` (finitely many requests),
`ApprovalAssumption`, `DelegationAssumption`, `DebateAssumption`, `ChatAssumption`. They only
give constants their types and say what the code validates; TLC evaluates each of them. So the
theorems hold for any sets of tasks, agents, workflows, slots, sessions, threads, requests and
prompts, any plans and any limits. Every invariant and every action property of the passing runs
is a theorem.

### 6.1 Tasks and workflows: `TaskExecutionProofs`

| Theorem | Statement |
|---|---|
| `TypeCorrect` | `Spec => []TypeOK` |
| `ReworkIsBounded` | `Spec => []ReworkBound` |
| `SettledIsFinal` | no step changes a settled task's status, attempt or delivery |
| `WritersExclude` | `Spec => []WriterExclusion` |
| `InterruptionIsComplete` | `Spec => []InterruptReachesEveryRun`: no order of registrations, checks and cancellations misses a run |
| `AttemptsAreExclusive` | `Spec => []AttemptInv`: one agent, and one executor in each session |
| `DeliveriesAreCurrent` | `Spec => []DeliveryOfCurrentAttempt` |
| `PrerequisitesStay` | `Spec => []PrerequisitesStayCompleted` |
| `CompletionsAreReviewed` | `Spec => CompletionIsReviewed` |
| `TasksFollowTheirLifecycle` | `Spec => ImplementsLifecycle`, the refinement of `TaskLifecycle` |
| `PlansStayClosed`, `JobsFollowPlans` | `Spec => []PlanIsClosed`, `Spec => []JobOfPlan` |
| `WritersOverlapWhenStopped` | `Spec /\ [][NoLateLoad]_vars => []WritersOverlapOnlyWhenStopped`: two runs of one session write together only when the task of one of them was cancelled or failed |
| `WritersDoNotOverlap` | `Spec /\ [][NoLateLoad /\ NoEscape]_vars => []WritersOverlapOnlyWhenCancelled` |

*Types.* `TypeOK` is not inductive: a handler writes the row of *its* task, so one needs
that a busy slot has a task (`WorkersOK`); and publishing a workflow overwrites the rows of
its first plan, which is an insertion only if a workflow that was never published has no
tasks (`Anchored`). `TypeInv /\ Anchored` is inductive (`TypeInvariance`).

*Rows.* The rest rests on a classification of the steps. Whatever actor moves, what happens to
one row is `RowStep`: nothing, one of the handlers' transactions (`HandlerWrite`), a batch of the
coordinator (`BatchWrite`), an insertion into an absent row, or a claim. This is proved once,
action by action. Facts about rows (`RowFacts`, `ClaimFacts`, `InsertFacts`, in
`WorkflowRepositoryProofs`, which the proofs about the coordinator use too) then follow from
the operators and `TransitionTable`, the consequences of the transition table: no write
reaches a settled row, the number of rounds only grows with the status that bounds it, only a
claim leads to `in_progress`. `ReworkIsBounded` and `SettledIsFinal` are these facts under
`TypeInvariance`. `WritersExclude` adds that the one step that starts a writer, `Claim`,
evaluated the gate over all other current tasks in the same transaction, and that no step
makes a superseded task current again. `InterruptionIsComplete` follows the slots instead of
the rows: `Dispatch` and `Interrupt` are the only steps that register a run or extend
`cancelledRuns`, each in one critical section, and from then on no step of a registered run
forgets that it was chosen: its cut becomes due, set or erased, never none.

*Attempts.* The fences are proved with `AttemptInd`: no slot is ahead of its row; an executor on
the current attempt finds its row `in_progress` or delivered (by the other executor of the attempt,
section 5) with its agent as owner, or failed, or cancelled; a reviewer on the current attempt finds a row that was delivered, whose delivery is the one it
holds, or that was failed or cancelled; the slot of a `/task`, whose writes carry no attempt,
matches its row and is the only one (`SlotsInv`, `PlainSlots`); an executor has one task
between claim and load, claimed on a later attempt than those its other slots run (`PollInv`);
a row in progress has an owner, and one under review another reviewer (`RowsInv`); no row has a status of the
approval path (`Used`). The cases are what a step does to a slot and to a row: a claim, which takes
a waiting row to a free slot with the row's attempt; a load, which puts the slot on the attempt the
row has by then; a step of the slot's own handler; a step of
somebody else, which leaves a slot alone and, if it gives the row to another, gives the row
a new attempt, so that the slot is behind. `DeliveriesAreCurrent`,
`CompletionsAreReviewed` and the refinement read off it: `TasksFollowTheirLifecycle` shows, for each
step, the step of `TaskLifecycle` each task takes, or that it stutters.

*Plans.* `PrerequisitesStay`, `PlansStayClosed` and `JobsFollowPlans` follow the plan of a workflow
instead: a step keeps it, adopts it as a whole into the session, publishes it or replans it. A
replan keeps a set closed under prerequisites and supersedes the rest.

*Writers.* `WriterExclusion` is about rows. That *runs* do not overlap needs `RunInd`: until the call
of its agent returns, a slot of the session is on the attempt of its row, which is in progress,
failed or cancelled, in a job of the session (`RunsInv`), because only its handler, an expired lease
and an adoption give a row a new attempt, no lease is over while the run is registered, and a
session adopts only what belongs to another job (`JobsOfSessions`); what a replan superseded is
settled (`SupersededSettled`); and no attempt has two executors at all (`SoleExecutor`,
`ClaimIsLatest`). The last needs `NoLateLoad`: no poller of an earlier session loads a task. Without
it the handler of that session may requeue the task under a live run of this one, and both
theorems are false: TLC finds two attempts of one writing task at work in the second session. With one session, as in `writers`, every
behaviour satisfies it. The property of the run `writers` blames cancellations only; it does not
survive an exception whose unfenced write (`FailUnfenced`, finding of `stale_handler`) may fail a
task another slot runs. `WritersDoNotOverlap` therefore assumes `NoEscape` too: no step is
`HandlerRaises` or `LoadRaises`. Every behaviour with `MaxFaults = 0`, as in `writers`, satisfies
that. Both hold for any number of tasks, agents, slots and sessions.

### 6.2 The coordinator: `WorkflowCoordinatorProofs`

| Theorem | Statement |
|---|---|
| `CompletionIsAccepted` | `Spec => []CoordinatorInv` |
| `AnswersFit` | `Spec => AnswerFitsDecision` |
| `BlockedWorkflowsAreStuck` | `Spec => BlocksOnlyStuck` |

What a thread read ages while it decides, so the invariant says what of it still stands
(`ThreadInv`): *as long as the version it read is the current one*, the plan it read is the plan, a
task it saw accepted is accepted (`SnapshotStands`), and a decision to complete was
taken over accepted tasks only (`DecisionStands`). The compare-and-set of `_conclude` on status and
version turns the condition into a fact.

To block is harder: the decision is that *nothing* may happen, and what was true at the snapshot
must not have stopped being true through a claim, an expired lease, a verdict or a replan.
`BlockInv` follows every task of the snapshot as long as its version and the pool are the current
ones (`ViewInv`): what was settled is settled in the same way; what waited for a prerequisite waits, or
was failed or cancelled, unless something in the snapshot keeps the thread from blocking
(`Moving`); what waited for a reviewer waits, is over, or has an agent that could review it. Once
the decision is to block, every task is settled, waits for a prerequisite that is not accepted, or has
no reviewer (`StuckTask`). `RowsInv` says which reviewers a row may exclude, and `PlansAreClosed`
that prerequisites stay inside the plan. `BlockInv` was checked by TLC on four
instances before the proof (64,016 to 532,919 states), with a caller of
`workflows_finish` and a replan, and without a replan and two faults.

### 6.3 The monitor: `WorkflowMonitorProofs`

`OneCoordinatorAlways` (`MonitorInv`) and `StoppedLetsGoAlways` (`StoppedLetsGo`) need which
places of `main` and of the monitor thread hold the lock and which flags go with each place
(`LockInv`: `LockOf`, `PhasesOf`, `FlagsOf`), the abandoned monitor included.
`NoLostWakeup` proves `[]NoEventIsLost`, the safety half of `EventIsRead`: in the session that
coordinates, an unread event of a running workflow still has a wake-up, a turn of the loop that
lists or dispatches the workflow, an entry in `_pending` or a queued reconcile (`OnItsWay`). It
needs that a workflow in `_busy` or `_pending` has a job that ends (`WorkOf`), and that a session
begins to coordinate only when recovery has gone over everything that runs (`RecoveryOf`). What is
left to liveness is that these threads move.

### 6.4 Questions and approvals: `ToolApprovalProofs`

| Theorem | Statement |
|---|---|
| `KeysAlwaysExclude` | `Spec => []ApprovalInv` |
| `EveryGroundWasGiven` | `Spec => []ApprovedBySomebody` |
| `LinesAreAnswers`, `OnePromptIsOpen` | `Spec => []LineIsAnswer`, `Spec => []OnePrompt` |
| `ChatAlwaysGetsStdinBack` | `Spec => []ChatGetsStdinBack` |
| `ChatLeavesWhatWasAsked` | `Spec => ChatLeavesAnswers` |

The module covers `InputBroker` as composed with the calls. The proofs count: `waiters` is
the number of requests that hold a reservation, and one for the consumer while it reads a pipe
(`WaitersInv`); the calls approved on a scope and the uses left of it do not exceed what it granted,
and `used` is the number of calls approved on the budget (`GrantInv`). Under them lies that a request
is in one place, the queue or the hands of one thread (`PlacesInv`, `ReqInv`), and that a call
holds some of its keys, all of them while it runs, and none that another call of its manager
holds (`LockInv`).

### 6.5 Delegations, debates, chat

| Module | Theorem | Statement |
|---|---|---|
| `DelegationTrackingProofs` | `CompletedDelegationsAreWhole` | `Spec => []DelegationInv` |
| | `CancelExcludesOutcome` | `Spec => []CancelOrOutcome` |
| | `DelegationsTellOneStory` | `Spec => []OneStory` |
| `DebateProofs` | `DebateIsAppliedOnce` | `Spec => []DebateInv` |
| `ChatProofs` | `SlotsAreConserved` | `Spec => []ChatInv` |
| | `CancellationsReachRuns` | `Spec => []CancelReachesRun` |
| | `EndedPromptsLeave` | `Spec => []NothingLeftBehind` |
| | `StopsAreFinal` | `Spec => StopIsFinal` |

*Delegations.* What callers were told agrees with the entry, and the entry, once finalized, with the
outcome (`CancelInv`); row, job and report are written in this order, from that outcome (`RowInv`);
the loops that start and join the steps have dealt with all before the one they are at, and
`completed` is only computed from steps that all ended well and in time (`StepsInv`).

*Debates.* The invariant says of each application, at each place inside `apply`, which items it
has dealt with, and that every one of these has its task, its link and its dependencies
(`UserInv`), whoever wrote them; an applied debate has them all (`AppliedInv`). A crash forgets where
an application was but undoes nothing it wrote.

*Chat.* `SlotsConserved` equates permits and counters with cardinalities of sets of prompts; `PromptInv`
relates where a prompt is, the sets of the book that hold it and the outcome on the screen;
`InterruptReachesRun` (in `Chat`) is the part of `CancelReachesRun` about Ctrl+C.

### 6.6 What stays with TLC

Liveness: `WorkflowSettles`, `AcceptedIsConcluded`, `EventIsRead`, `MonitorSleeps`,
`EveryCallEnds`, `CancelCloses`, `ParallelCloses`, `DebateEnds` and `EveryPromptEnds` rest on
fairness, hence on ENABLED, which the prover does not handle. What a recursive definition computes
for every input would need induction over data, for which no prover can instantiate the
library's theorems; no module has a `RECURSIVE` operator, and no property here is about one. The two
runs that expect a violation have nothing to prove.

## 7. What is left out of the modelled parts

Jobs and the approval path of the command line, `update_task`, the tables of contributions and
syntheses of a debate; database errors, except where a module says so; the turn and the shutdown of the chat; cooldowns and
the order of rotation of the pool;
the expiry of approval scopes by time; publication keys and hashes of plans; texts, prompts,
logs and what is shown to the human. `TaskExecution` and `WorkflowCoordinator` share
`WorkflowRepository` but are checked apart: the window inside a reconcile is in the second,
sessions and the steps of handlers are in the first. Tracking tasks of delegations and tasks of
debates are written to the table of `TaskRepository`; their modules have their own rows, which
no other writer of the core touches before they are pending.

Hazards of the code that `PROJECT.json` does not follow further, because nothing states what should
happen, or because they are in a part that is left out: a rejected `/task` whose every agent is
excluded (`tasks/reviewer.py:255`); a `/task` in progress when its session ends, which no later one
requeues (`tasks/executor.py:100`); two edits of `AgentPoolView` at once (`app/agent_pool.py:245`);
a prompt cancelled before the worker submits it, which does not return the turn to the human
(`app/chat_lifecycle.py:554`), so that with nothing else outstanding the tasks, which with one
thread are claimed in the human's turn only (`app/core_facade.py:498`), wait for the next prompt or
Ctrl+C; and the
counters of `AgentFailureTracker`, which change together under one lock in the code as in `Chat`.

## 8. Reproducing

    tlc -workers 2 -config chain.cfg MCTaskExecution
    tlapm WorkflowCoordinatorProofs.tla

Each run takes from a few seconds to a minute and a half, the proofs of one module from seconds to
a few minutes (`TaskExecutionProofs` is the longest).
`PROJECT.json` maps every definition to the lines it models and lists, for each property, a
plausible bug in that code (the definitions marked *Mutant*) that makes TLC find it violated.
