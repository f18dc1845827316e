--------------------------- MODULE TaskExecution ---------------------------
(***************************************************************************)
(* The run of the tasks of a workspace: the workers of each agent          *)
(* (quimera/tasks/executor.py, runner.py, reviewer.py), the registry of    *)
(* live runs (quimera/tasks/executor_pool.py), and the transactions with   *)
(* which the coordinator changes workflows under their feet                *)
(* (quimera/workflows/coordinator.py, execution.py).                       *)
(*                                                                         *)
(* One action is one database transaction or one step of a worker between  *)
(* two of them.  A read and the write that follows it are one action only  *)
(* where what could happen in between makes no difference: the write is    *)
(* fenced by the attempt, or by the state it was decided on.               *)
(***************************************************************************)
EXTENDS WorkflowRepository

CONSTANTS
  Worker,       \* slots of the thread pools, over all sessions
  AgentOf,      \* the agent of each slot
  SessionOf,    \* the session of each slot; a session has one job
  NoTask,       \* what an idle slot works on
  MaxSession,   \* bound: sessions of the workspace, one after the other
  MaxFaults     \* bound: suspensions, exceptions and expired leases

ASSUME ExecutionAssumption ==
  /\ AgentOf \in [Worker -> Agent]
  /\ SessionOf \in [Worker -> Nat \ {0}]
  /\ NoTask \notin Task
  /\ MaxSession \in Nat \ {0}
  /\ MaxFaults \in Nat

VARIABLES
  workers,        \* the state of each slot
  session,        \* the session that holds the coordination lock
  recovering,     \* the workflows recover() has not adopted yet
  pool,           \* AgentPool._agents, of which Agent are the first members
  suspended,      \* members of the pool under suspension
  cancelledRuns,  \* TaskExecutorPool._cancelled_task_runs of the session
  interrupting,   \* tasks cancelled in the database and not yet interrupted
  faults          \* how many of MaxFaults happened

sessionState == <<session, recovering>>
poolState == <<pool, suspended>>
runs == <<cancelledRuns, interrupting>>
process == <<sessionState, poolState, runs>>
vars == <<tasks, workflows, attempts, workers, process, faults>>

\* Between claim and submission, in the _claim_lock of the executor.
PollPc == {"claimed", "r_claimed", "unloaded"}
ExecPc == {"begin", "check", "dispatch", "bound", "starting", "live", "answered",
           "deliver", "rework", "handoff"}
ReviewPc == {"r_dispatch", "r_bound", "r_starting", "r_live", "r_accept", "r_reject",
             "r_rework", "r_accepted", "r_none"}
Pc == PollPc \cup ExecPc \cup ReviewPc \cup {"off", "idle", "escaped", "failing"}

\* The client of a run: no cancellation chose it, its cut is due, its cancel
\* event is set, or was and the start of the run cleared it.
Cuts == {"none", "due", "set", "erased"}

\* A slot and the TaskRecord its handler was given.  The attempt of a slot whose
\* poller has not loaded the task yet is the one that was claimed.
WorkerState ==
  [ pc : Pc, task : Task \cup {NoTask}, attempt : Nat, owner : AgentOrNull,
    delivery : Delivery, answer : {"none", "ok", "bad"}, cut : Cuts ]

IdleWorker ==
  [ pc |-> "idle", task |-> NoTask, attempt |-> 0, owner |-> NoAgent,
    delivery |-> NoDelivery, answer |-> "none", cut |-> "none" ]

OffWorker == [IdleWorker EXCEPT !.pc = "off"]

Executing(w) == workers[w].pc \in ExecPc
Reviewing(w) == workers[w].pc \in ReviewPc
Polling(w) == workers[w].pc \in PollPc

\* The slot has its client in _task_runs.
Registered(w) ==
  workers[w].pc \in {"bound", "starting", "live", "r_bound", "r_starting", "r_live"}

\* available_agents: the members out of suspension.
Available == pool \ suspended

\* live_task_ids: the tasks with a run registered in this process.
LiveTasks == { workers[w].task : w \in { v \in Worker : Registered(v) /\ SessionOf[v] = session } }

TypeOK ==
  /\ tasks \in [Task -> TaskRow]
  /\ workflows \in [Workflow -> WorkflowRow]
  /\ attempts \subseteq AttemptRow
  /\ workers \in [Worker -> WorkerState]
  /\ session \in Nat \ {0}
  /\ recovering \subseteq Workflow
  /\ pool \subseteq Agent
  /\ suspended \subseteq Agent
  /\ cancelledRuns \subseteq Task
  /\ interrupting \subseteq Task
  /\ faults \in Nat

Init ==
  /\ tasks = [t \in Task |-> AbsentTask]
  /\ workflows = [w \in Workflow |-> AbsentWorkflow]
  /\ attempts = {}
  /\ workers = [w \in Worker |-> IF SessionOf[w] = 1 THEN IdleWorker ELSE OffWorker]
  /\ session = 1
  /\ recovering = {}
  /\ pool = Agent
  /\ suspended = {}
  /\ cancelledRuns = {}
  /\ interrupting = {}
  /\ faults = 0

Fault ==
  /\ faults < MaxFaults
  /\ faults' = faults + 1

NoFault == UNCHANGED faults

\* The slot w starts on task t with the record its handler is given.
Takes(w, pc, t, owner, delivery) ==
  workers' = [workers EXCEPT ![w] =
    [ pc |-> pc, task |-> t, attempt |-> tasks[t].attempt, owner |-> owner,
      delivery |-> delivery, answer |-> "none", cut |-> "none" ]]

\* The slot goes on to `pc` with the same task, or is free again.
Goes(w, pc) == workers' = [workers EXCEPT ![w].pc = pc]
Ends(w) == workers' = [workers EXCEPT ![w] = IdleWorker]

\* The handler of slot w writes the row of its task.
WritesRow(w, row) == tasks' = [tasks EXCEPT ![workers[w].task] = row]

TaskOf(w) == tasks[workers[w].task]
FenceOf(w) == Fence(workers[w].task, workers[w].attempt)

\* Outcome of the attempt that slot w executes.
Closes(w, status) ==
  attempts' = FinishAttempt(workers[w].task, workers[w].attempt, AgentOf[w], status)

----------------------------------------------------------------------------
(* Claims: _process_next, under the executor's _claim_lock: the claim, the *)
(* load of the row by its id alone, and the submission to the thread pool. *)

\* The first task the agent of slot w may execute; {} when it has none.
Executable(w) ==
  { t \in Task : Claimable(t, AgentOf[w], SessionOf[w]) }

\* The executor of slot w may claim: a slot is free, its _claim_lock too, and
\* the claim gate refuses an agent that is suspended or left the pool.
MayClaim(w) ==
  /\ workers[w].pc = "idle"
  /\ AgentOf[w] \in Available
  /\ \A v \in Worker :
       Polling(v) => AgentOf[v] # AgentOf[w] \/ SessionOf[v] # SessionOf[w]

\* claim_task.
Claim(w, t) ==
  /\ MayClaim(w)
  /\ IsFirst(t, Executable(w))
  /\ tasks' = [tasks EXCEPT ![t] = ClaimTask(@, AgentOf[w])]
  /\ Takes(w, "claimed", t, AgentOf[w], NoDelivery)
  /\ UNCHANGED <<workflows, attempts, process>> /\ NoFault

\* claim_review_task, only when there is nothing to execute.
ClaimReview(w, t) ==
  /\ MayClaim(w)
  /\ Executable(w) = {}
  /\ IsFirst(t, { u \in Task : Reviewable(u, AgentOf[w], SessionOf[w]) })
  /\ tasks' = [tasks EXCEPT ![t] = ClaimReviewTask(@, AgentOf[w])]
  /\ Takes(w, "r_claimed", t, NoAgent, NoDelivery)
  /\ UNCHANGED <<workflows, attempts, process>> /\ NoFault

\* _load_task and _can_execute_task: the row as it is by now, of whatever
\* attempt, is given to the handler when it is in progress with the agent.
Load(w) ==
  /\ workers[w].pc = "claimed"
  /\ LET t == workers[w].task IN
     IF tasks[t].status = "in_progress" /\ tasks[t].owner \in {AgentOf[w], NoAgent}
       THEN Takes(w, IF IsWorkflowTask(t) THEN "begin" ELSE "dispatch", t,
                  AgentOf[w], NoDelivery)
       ELSE Ends(w)
  /\ UNCHANGED <<tasks, workflows, attempts, process>> /\ NoFault

\* The same for a review.
LoadReview(w) ==
  /\ workers[w].pc = "r_claimed"
  /\ LET t == workers[w].task IN
     IF tasks[t].status = "reviewing" /\ tasks[t].reviewer = AgentOf[w]
       THEN Takes(w, "r_dispatch", t, tasks[t].owner, tasks[t].delivery)
       ELSE Ends(w)
  /\ UNCHANGED <<tasks, workflows, attempts, process>> /\ NoFault

\* Loading or submitting the task raises: the poller will fail it.
LoadRaises(w) ==
  /\ workers[w].pc \in {"claimed", "r_claimed"}
  /\ Goes(w, "unloaded")
  /\ UNCHANGED <<tasks, workflows, attempts, process>> /\ Fault

----------------------------------------------------------------------------
(* Execution: TaskRunner.run with the hooks of WorkflowTaskHooks.          *)

\* _discard_reason: the task was cancelled or is on another attempt.
Discarded(w) ==
  \/ TaskOf(w).status = "cancelled"
  \/ TaskOf(w).attempt # workers[w].attempt

DiscardReason(w) ==
  IF TaskOf(w).status = "cancelled" THEN "cancelled" ELSE "superseded"

\* hooks.abort: the reason to discard the attempt, if any, or its failure.
Aborts(w) ==
  IF IsWorkflowTask(workers[w].task)
    THEN Closes(w, IF Discarded(w) THEN DiscardReason(w) ELSE "failed")
    ELSE UNCHANGED attempts

\* hooks.begin.
Begin(w) ==
  /\ workers[w].pc = "begin"
  /\ attempts' = BeginAttempt(workers[w].task, workers[w].attempt, AgentOf[w])
  /\ Goes(w, "check")
  /\ UNCHANGED <<tasks, workflows, process>> /\ NoFault

\* hooks.discarded before the agent is called.
Check(w) ==
  /\ workers[w].pc = "check"
  /\ IF Discarded(w) THEN Aborts(w) /\ Ends(w)
                     ELSE UNCHANGED attempts /\ Goes(w, "dispatch")
  /\ UNCHANGED <<tasks, workflows, process>> /\ NoFault

\* The slot goes on to `exec` or, when it reviews, to `review`.
Side(w, exec, review) == IF Reviewing(w) THEN review ELSE exec

\* Mutant of Dispatch: a run is registered whatever was cancelled.
DispatchAlways(w) ==
  /\ workers[w].pc \in {"dispatch", "r_dispatch"}
  /\ Goes(w, Side(w, "bound", "r_bound"))
  /\ UNCHANGED <<tasks, workflows, attempts, process>> /\ NoFault

\* _track_task_run, for an execution or a review.  A task whose runs were
\* cancelled calls no agent and answers nothing.
Dispatch(w) ==
  /\ workers[w].pc \in {"dispatch", "r_dispatch"}
  /\ IF SessionOf[w] = session /\ workers[w].task \in cancelledRuns
       THEN Goes(w, Side(w, "answered", "r_none"))
       ELSE Goes(w, Side(w, "bound", "r_bound"))
  /\ UNCHANGED <<tasks, workflows, attempts, process>> /\ NoFault

\* AgentClient.run looks at its cancel event first ...
CheckRun(w) ==
  /\ workers[w].pc \in {"bound", "r_bound"}
  /\ IF workers[w].cut = "set"
       THEN workers' = [workers EXCEPT ![w].pc = Side(w, "answered", "r_none"),
                                     ![w].cut = "none"]
       ELSE Goes(w, Side(w, "starting", "r_starting"))
  /\ UNCHANGED <<tasks, workflows, attempts, process>> /\ NoFault

\* ... and EscMonitor.start clears it, whatever came in between.
ClearEvent(w) ==
  /\ workers[w].pc \in {"starting", "r_starting"}
  /\ workers' = [workers EXCEPT ![w].pc = Side(w, "live", "r_live"),
                                ![w].cut = IF @ = "set" THEN "erased" ELSE @]
  /\ UNCHANGED <<tasks, workflows, attempts, process>> /\ NoFault

\* The agent answers: evidence that is enough, evidence that is not, or
\* nothing.  An interrupted run normally answers nothing, but an answer may
\* have been on its way.
Answer(w, answer) ==
  /\ workers[w].pc = "live"
  /\ workers' = [workers EXCEPT ![w].pc = "answered", ![w].answer = answer,
                                ![w].cut = "none"]
  /\ UNCHANGED <<tasks, workflows, attempts, process>> /\ NoFault

\* No answer: not a failure of the agent when the attempt was discarded.
NoAnswer(w) ==
  /\ workers[w].pc = "answered" /\ workers[w].answer = "none"
  /\ Aborts(w)
  /\ IF IsWorkflowTask(workers[w].task) /\ Discarded(w)
       THEN Ends(w) ELSE Goes(w, "handoff")
  /\ UNCHANGED <<tasks, workflows, process>> /\ NoFault

\* hooks.finish: the attempt is submitted, short of evidence, or discarded.
FinishWorkflowRun(w) ==
  /\ workers[w].pc = "answered" /\ workers[w].answer # "none"
  /\ IsWorkflowTask(workers[w].task)
  /\ IF Discarded(w)
       THEN Closes(w, DiscardReason(w)) /\ Ends(w)
       ELSE IF workers[w].answer = "ok"
         THEN Closes(w, "submitted") /\ Goes(w, "deliver")
         ELSE Closes(w, "insufficient_evidence") /\ Goes(w, "rework")
  /\ UNCHANGED <<tasks, workflows, process>> /\ NoFault

\* The same point for a /task: the answer is classified by its wording.
FinishPlainRun(w) ==
  /\ workers[w].pc = "answered" /\ workers[w].answer # "none"
  /\ ~IsWorkflowTask(workers[w].task)
  /\ Goes(w, IF workers[w].answer = "ok" THEN "deliver" ELSE "handoff")
  /\ UNCHANGED <<tasks, workflows, attempts, process>> /\ NoFault

\* submit_for_review, or complete_task when the pool has no other agent.
Deliver(w) ==
  /\ workers[w].pc = "deliver"
  /\ LET delivery == [agent |-> AgentOf[w], attempt |-> workers[w].attempt]
     IN  WritesRow(w, IF pool \ {AgentOf[w]} # {}
                      THEN SubmitForReview(TaskOf(w), FenceOf(w), delivery)
                      ELSE CompleteTask(TaskOf(w), FenceOf(w), delivery, NoAgent))
  /\ Ends(w)
  /\ UNCHANGED <<workflows, attempts, process>> /\ NoFault

\* hooks.rework after insufficient evidence: the same agent tries again.
Rework(w) ==
  /\ workers[w].pc = "rework"
  /\ WritesRow(w, ReworkTask(TaskOf(w), FenceOf(w), AgentOf[w], NoDelivery))
  /\ Ends(w)
  /\ UNCHANGED <<workflows, attempts, process>> /\ NoFault

\* _hand_off: requeued for whoever is available, requeued for another agent,
\* or failed when no member of the pool is left.
HandOff(w) ==
  /\ workers[w].pc = "handoff"
  /\ LET agent == AgentOf[w] IN
     WritesRow(w,
       CASE agent \notin Available ->
              RequeueTask(TaskOf(w), FenceOf(w), agent, FALSE)
         [] agent \in Available /\ CanReassign(TaskOf(w), pool \ {agent}) ->
              RequeueTask(TaskOf(w), FenceOf(w), agent, TRUE)
         [] OTHER ->
              FailTask(TaskOf(w), FenceOf(w), TaskStatus))
  /\ Ends(w)
  /\ UNCHANGED <<workflows, attempts, process>> /\ NoFault

\* An exception inside run: the attempt fails and the task is handed off.
RunRaises(w) ==
  /\ workers[w].pc \in ExecPc \ {"handoff"}
  /\ Aborts(w)
  /\ workers' = [workers EXCEPT ![w].pc = "handoff", ![w].cut = "none"]
  /\ UNCHANGED <<tasks, workflows, process>> /\ Fault

----------------------------------------------------------------------------
(* Review: TaskReviewer.review.                                            *)

ReviewAnswer(w, verdict) ==
  /\ workers[w].pc = "r_live"
  /\ workers' = [workers EXCEPT ![w].pc = verdict, ![w].cut = "none"]
  /\ UNCHANGED <<tasks, workflows, attempts, process>> /\ NoFault

\* complete_task with the reviewer; the verdict is recorded afterwards.
CompleteReview(w) ==
  /\ workers[w].pc = "r_accept"
  /\ WritesRow(w, CompleteTask(TaskOf(w), FenceOf(w), workers[w].delivery, AgentOf[w]))
  /\ IF Admits(TaskOf(w), "completed", FenceOf(w)) /\ IsWorkflowTask(workers[w].task)
       THEN Goes(w, "r_accepted") ELSE Ends(w)
  /\ UNCHANGED <<workflows, attempts, process>> /\ NoFault

\* hooks.reviewed: the verdict goes to the attempt of the executor.
RecordVerdict(w, verdict) ==
  attempts' = IF workers[w].owner = NoAgent THEN attempts
              ELSE FinishAttempt(workers[w].task, workers[w].attempt,
                                 workers[w].owner, verdict)

RecordAccepted(w) ==
  /\ workers[w].pc = "r_accepted"
  /\ RecordVerdict(w, "accepted")
  /\ Ends(w)
  /\ UNCHANGED <<tasks, workflows, process>> /\ NoFault

\* A rejected workflow delivery: first the verdict, then the rework.
RecordRejected(w) ==
  /\ workers[w].pc = "r_reject" /\ IsWorkflowTask(workers[w].task)
  /\ RecordVerdict(w, "rejected")
  /\ Goes(w, "r_rework")
  /\ UNCHANGED <<tasks, workflows, process>> /\ NoFault

ReviewRework(w) ==
  /\ workers[w].pc = "r_rework"
  /\ WritesRow(w, ReworkTask(TaskOf(w), FenceOf(w), workers[w].owner,
                           workers[w].delivery))
  /\ Ends(w)
  /\ UNCHANGED <<workflows, attempts, process>> /\ NoFault

\* A rejected /task delivery goes to another agent.
RejectPlain(w) ==
  /\ workers[w].pc = "r_reject" /\ ~IsWorkflowTask(workers[w].task)
  /\ WritesRow(w, RequeueTaskAfterReview(TaskOf(w), FenceOf(w),
                  IF workers[w].owner = NoAgent THEN AgentOf[w] ELSE workers[w].owner,
                  workers[w].delivery))
  /\ Ends(w)
  /\ UNCHANGED <<workflows, attempts, process>> /\ NoFault

\* _reviewer_unavailable: a review without a verdict goes to another reviewer;
\* a /task nobody else can review is completed as delivered.
ReviewerUnavailable(w) ==
  /\ workers[w].pc = "r_none"
  /\ LET excluded == {AgentOf[w]} \cap Available
         others == pool \ ({workers[w].owner} \cup excluded)
     IN  WritesRow(w,
           IF /\ ~IsWorkflowTask(workers[w].task)
              /\ ~CanReview(TaskOf(w), others)
             THEN CompleteTask(TaskOf(w), FenceOf(w), workers[w].delivery, NoAgent)
             ELSE ReturnReview(TaskOf(w), FenceOf(w), AgentOf[w], excluded # {}))
  /\ Ends(w)
  /\ UNCHANGED <<workflows, attempts, process>> /\ NoFault

\* An exception inside review counts as a review without a verdict.
ReviewRaises(w) ==
  /\ workers[w].pc \in ReviewPc \ {"r_none"}
  /\ workers' = [workers EXCEPT ![w].pc = "r_none", ![w].cut = "none"]
  /\ UNCHANGED <<tasks, workflows, attempts, process>> /\ Fault

----------------------------------------------------------------------------
(* _run_handler: an exception that escapes the handler, because handing    *)
(* off or returning the review raised too.                                 *)

HandlerRaises(w) ==
  /\ workers[w].pc \in {"handoff", "r_none"}
  /\ Goes(w, "escaped")
  /\ UNCHANGED <<tasks, workflows, attempts, process>> /\ Fault

\* The row is read first ...
HandlerReads(w) ==
  /\ workers[w].pc = "escaped"
  /\ IF \/ TaskOf(w).status = "in_progress" /\ TaskOf(w).owner \in {NoAgent, AgentOf[w]}
        \/ TaskOf(w).status = "reviewing" /\ TaskOf(w).reviewer = AgentOf[w]
       THEN Goes(w, "failing") ELSE Ends(w)
  /\ UNCHANGED <<tasks, workflows, attempts, process>> /\ NoFault

\* ... and failed in a later transaction, which carries no expected_attempt.
FailUnfenced(w) ==
  /\ workers[w].pc \in {"failing", "unloaded"}
  /\ WritesRow(w, FailTask(TaskOf(w), AnyAttempt, TaskStatus))
  /\ Ends(w)
  /\ UNCHANGED <<workflows, attempts, process>> /\ NoFault

----------------------------------------------------------------------------
(* The coordinator: workflow tools and reconciliation of the session that  *)
(* holds the lock, once recover() is over.                                 *)

Coordinating == recovering = {}

PublishWorkflow(f) ==
  /\ Coordinating
  /\ Publish(f, session, pool)
  /\ UNCHANGED <<workers, process>> /\ NoFault

\* /task: a task of its own, in the job of the session, routed to an agent
\* that is available, if there is one.
CreateTask(t) ==
  /\ ~IsWorkflowTask(t) /\ tasks[t].status = "absent"
  /\ \E owner \in IF Available = {} THEN {NoAgent} ELSE Available :
       tasks' = [tasks EXCEPT ![t] = InsertTask(owner, session)]
  /\ UNCHANGED <<workflows, attempts, workers, process>> /\ NoFault

\* A change of status that touches no task.
Moves(f, to, expected) ==
  /\ Coordinating
  /\ SetStatus(f, to, expected, workflows[f].version, "null")
  /\ UNCHANGED <<tasks, attempts, workers, process>> /\ NoFault

StartWorkflow(f) == Moves(f, "running", {"ready"})
Pause(f) == Moves(f, "paused", {"running", "blocked"})

\* resume adopts first when the workflow still belongs to another job.
Resume(f) == workflows[f].job = session /\ Moves(f, "running", {"paused"})
ResumeAdopts(f) ==
  /\ Coordinating
  /\ workflows[f].status = "paused" /\ workflows[f].job # session
  /\ Adopt(f, session)
  /\ UNCHANGED <<workers, process>> /\ NoFault

\* workflows_finish blocked: the principal agent gives the decision back.
FinishBlocked(f) == Moves(f, "blocked", {"running"})

\* The transaction of cancel and of workflows_finish failed.  The tasks in
\* flight are interrupted only after it commits.
Stops(f, to, expected) ==
  /\ Coordinating
  /\ SetStatusAndCancel(f, to, expected, workflows[f].version, "null")
  /\ interrupting' = interrupting \cup { t \in CurrentTasks(f) : InFlight(t) }
  /\ UNCHANGED <<workers, sessionState, poolState, cancelledRuns>> /\ NoFault

Cancel(f) == Stops(f, "cancelled", WorkflowStatus)
FinishFailed(f) == Stops(f, "failed", {"running", "blocked", "paused"})

ReplanWorkflow(f, kept, fresh) ==
  /\ Coordinating
  /\ Replan(f, kept, fresh, pool)
  /\ interrupting' = interrupting \cup { t \in CurrentTasks(f) \ kept : InFlight(t) }
  /\ UNCHANGED <<workers, sessionState, poolState, cancelledRuns>> /\ NoFault

\* cancel_task_runs marks the tasks of one cancellation and collects their
\* registered runs, in the critical section that also registers runs ...
Interrupt(f) ==
  LET ids == { t \in interrupting : WorkflowOf[t] = f }
  IN  /\ ids # {}
      /\ cancelledRuns' = cancelledRuns \cup ids
      /\ interrupting' = interrupting \ ids
      /\ workers' = [w \in Worker |->
           IF Registered(w) /\ SessionOf[w] = session /\ workers[w].task \in ids
             THEN [workers[w] EXCEPT !.cut = "due"] ELSE workers[w]]
      /\ UNCHANGED <<tasks, workflows, attempts, sessionState, poolState>>
      /\ NoFault

\* ... and cuts each of them afterwards, outside of it: cancel_active_work sets
\* the cancel event of the client, in vain if the run is over.
CutRun(w) ==
  /\ workers[w].cut = "due"
  /\ workers' = [workers EXCEPT ![w].cut = "set"]
  /\ UNCHANGED <<tasks, workflows, attempts, process>> /\ NoFault

Ready(t) ==
  /\ tasks[t].status = "pending"
  /\ \A d \in Deps[t] : tasks[d].status = "completed"

\* The lease counts from the claim: a slot that has not called its agent yet
\* holds a fresh one (lease_seconds is half an hour by default).
FreshClaim(t) ==
  \E w \in Worker : /\ SessionOf[w] = session /\ workers[w].task = t
                   /\ \/ Polling(w)
                      \/ workers[w].pc \in {"begin", "check", "dispatch", "r_dispatch"}

\* _requeue_expired: in flight, with no live run here, and out of lease.
LeaseExpires(f, t) ==
  /\ Coordinating /\ workflows[f].status = "running" /\ t \in CurrentTasks(f)
  /\ t \notin LiveTasks /\ ~FreshClaim(t)
  /\ RequeueOrphan(t, tasks[t].status, tasks[t].attempt)
  /\ UNCHANGED <<workers, process>> /\ Fault

\* _settle_unrunnable: a ready task of an unavailable owner is released ...
ReleaseReady(f, t) ==
  /\ Coordinating /\ workflows[f].status = "running" /\ t \in CurrentTasks(f)
  /\ Ready(t) /\ tasks[t].owner \notin Available \cup {NoAgent}
  /\ tasks' = [tasks EXCEPT ![t] = UnassignPending(@, @.owner)]
  /\ UNCHANGED <<workflows, attempts, workers, process>> /\ NoFault

\* ... and one that can never run fails.
FailUnrunnable(f, t) ==
  /\ Coordinating /\ workflows[f].status = "running" /\ t \in CurrentTasks(f)
  /\ Ready(t) /\ tasks[t].owner \in Available \cup {NoAgent}
  /\ tasks[t].reworks >= MaxTaskAttempts \/ ~CanReassign(tasks[t], pool)
  /\ tasks' = [tasks EXCEPT ![t] = FailTask(@, AnyAttempt, {"pending"})]
  /\ UNCHANGED <<workflows, attempts, workers, process>> /\ NoFault

\* reconcile and workflows_finish completed.
Complete(f) ==
  /\ \A t \in CurrentTasks(f) : tasks[t].status = "completed"
  /\ Moves(f, "completed", {"running"})

\* Mutant of Stuck: every delivery under review counts as progress.
StuckUnlessInReview(f) ==
  \A t \in CurrentTasks(f) :
    /\ tasks[t].status \notin {"in_progress", "pending_review", "reviewing"}
    /\ ~Ready(t)

\* reconcile: nothing in flight, nothing a reviewer could take, nothing ready.
Stuck(f) ==
  \A t \in CurrentTasks(f) :
    /\ tasks[t].status \notin {"in_progress", "reviewing"}
    /\ tasks[t].status = "pending_review" =>
         ~CanReview(tasks[t], pool \ {tasks[t].owner})
    /\ ~Ready(t)

Block(f) ==
  /\ \E t \in CurrentTasks(f) : tasks[t].status # "completed"
  /\ Stuck(f)
  /\ Moves(f, "blocked", {"running"})

----------------------------------------------------------------------------
(* The pool and the sessions.                                              *)

\* AgentFailureTracker: repeated failures or a rate limit suspend an agent.
Suspend(a) ==
  /\ a \in Available
  /\ suspended' = suspended \cup {a}
  /\ tasks' = ReleaseAgentTasks(a)
  /\ UNCHANGED <<workflows, attempts, workers, sessionState, pool, runs>> /\ Fault

Resumes(a) ==
  /\ a \in suspended
  /\ suspended' = suspended \ {a}
  /\ UNCHANGED <<tasks, workflows, attempts, workers, sessionState, pool, runs>>
  /\ NoFault

\* /reload: members whose profile is gone leave the pool.  Their executors go on
\* with what they run.
Reload(members) ==
  /\ members \subseteq pool /\ members # pool
  /\ pool' = members
  /\ suspended' = suspended \cap members
  /\ UNCHANGED <<tasks, workflows, attempts, workers, sessionState, runs>> /\ Fault

\* /connect: an agent joins again, not suspended.
Connect(a) ==
  /\ a \notin pool
  /\ pool' = pool \cup {a}
  /\ UNCHANGED <<tasks, workflows, attempts, workers, sessionState, suspended, runs>>
  /\ NoFault

\* Another session takes the lock: the old process is gone, or it stopped and
\* let go of the lock while some of its workers were still finishing.
NewSession(survivors) ==
  /\ session < MaxSession
  /\ survivors \subseteq { w \in Worker : SessionOf[w] = session }
  /\ session' = session + 1
  /\ workers' = [w \in Worker |->
       CASE SessionOf[w] = session + 1                -> IdleWorker
         [] SessionOf[w] = session /\ w \notin survivors -> OffWorker
         [] OTHER                                     -> workers[w]]
  /\ recovering' = { f \in Workflow : workflows[f].status \in OpenWorkflow }
  /\ pool' = Agent
  /\ suspended' = {}
  /\ cancelledRuns' = {}
  /\ interrupting' = {}
  /\ UNCHANGED <<tasks, workflows, attempts>> /\ NoFault

\* TaskExecutor.stop, which runs after the lock was released: a slot of the
\* old session that is free claims nothing more.
StopSlot(w) ==
  /\ SessionOf[w] < session /\ workers[w].pc = "idle"
  /\ Goes(w, "off")
  /\ UNCHANGED <<tasks, workflows, attempts, process>> /\ NoFault

\* recover: one transaction per open workflow.
Recover(f) ==
  /\ f \in recovering
  /\ Adopt(f, session)
  /\ recovering' = recovering \ {f}
  /\ UNCHANGED <<workers, session, poolState, runs>> /\ NoFault

----------------------------------------------------------------------------

WorkerStep(w) ==
  \/ Load(w) \/ LoadReview(w) \/ Begin(w) \/ Check(w)
  \/ Dispatch(w) \/ CheckRun(w) \/ ClearEvent(w) \/ NoAnswer(w)
  \/ \E answer \in {"none", "ok", "bad"} : Answer(w, answer)
  \/ FinishWorkflowRun(w) \/ FinishPlainRun(w)
  \/ Deliver(w) \/ Rework(w) \/ HandOff(w)
  \/ \E verdict \in {"r_accept", "r_reject", "r_none"} : ReviewAnswer(w, verdict)
  \/ CompleteReview(w) \/ RecordAccepted(w) \/ RecordRejected(w)
  \/ ReviewRework(w) \/ RejectPlain(w) \/ ReviewerUnavailable(w)
  \/ HandlerReads(w) \/ FailUnfenced(w)

WorkerFault(w) ==
  LoadRaises(w) \/ RunRaises(w) \/ ReviewRaises(w) \/ HandlerRaises(w)

ClaimStep(w) == \E t \in Task : Claim(w, t) \/ ClaimReview(w, t)

ReconcileStep(f) ==
  \/ Complete(f) \/ Block(f)
  \/ \E t \in Task : ReleaseReady(f, t) \/ FailUnrunnable(f, t)

ToolStep(f) ==
  \/ PublishWorkflow(f) \/ StartWorkflow(f) \/ Pause(f) \/ Resume(f)
  \/ ResumeAdopts(f) \/ Cancel(f) \/ FinishFailed(f) \/ FinishBlocked(f)
  \/ \E kept, fresh \in SUBSET { t \in Task : WorkflowOf[t] = f } :
       ReplanWorkflow(f, kept, fresh)

Next ==
  \/ \E w \in Worker :
       \/ ClaimStep(w) \/ WorkerStep(w) \/ WorkerFault(w)
       \/ CutRun(w) \/ StopSlot(w)
  \/ \E f \in Workflow :
       \/ ToolStep(f) \/ ReconcileStep(f) \/ Interrupt(f) \/ Recover(f)
       \/ \E t \in Task : LeaseExpires(f, t)
  \/ \E t \in Task : CreateTask(t)
  \/ \E a \in Agent : Suspend(a) \/ Resumes(a) \/ Connect(a)
  \/ \E members \in SUBSET Agent : Reload(members)
  \/ \E survivors \in SUBSET Worker : NewSession(survivors)

Spec == Init /\ [][Next]_vars

\* Fairness.  A slot goes on with its task: an agent run ends by itself or at
\* the wall clock limit of the process runner.  Pollers claim what they find,
\* a cancellation is followed by its interruption, the monitor reconciles and
\* recovers, and a suspension ends when its cooldown is over.  Nothing makes
\* the principal agent or the human use a tool.
Fairness ==
  /\ \A w \in Worker :
       WF_vars(WorkerStep(w)) /\ WF_vars(ClaimStep(w)) /\ WF_vars(CutRun(w))
  /\ \A f \in Workflow :
       WF_vars(ReconcileStep(f)) /\ WF_vars(Interrupt(f)) /\ WF_vars(Recover(f))
  /\ \A a \in Agent : WF_vars(Resumes(a))

FairSpec == Spec /\ Fairness

----------------------------------------------------------------------------
(* Safety.                                                                 *)

Delivered(t) == tasks[t].status \in {"pending_review", "reviewing", "completed"}

\* What is under review or accepted is the delivery of the last attempt of the
\* task, made by its owner: no late write of an older attempt, of a survivor of
\* an earlier session or of a reviewer replaces it.
DeliveryOfCurrentAttempt ==
  \A t \in Task : Delivered(t) =>
    tasks[t].delivery = [agent |-> tasks[t].owner, attempt |-> tasks[t].attempt]

\* A workflow task is completed by the review of an agent other than the author
\* of the delivery, or when the pool has no such agent; whatever reviewers fail,
\* are suspended, leave the pool or are lost with their process.
CompletionIsReviewed ==
  [][\A t \in Task :
       /\ IsWorkflowTask(t)
       /\ tasks[t].status # "completed" /\ tasks'[t].status = "completed"
       => LET author == tasks'[t].delivery.agent IN
          \/ tasks'[t].reviewer \in Agent \ {author}
          \/ pool \subseteq {author}]_vars

\* An attempt is executed by one agent, and once in each session: no requeue,
\* lease, adoption or new claim puts two slots of a session on the same attempt.
\* Only a poller that outlives its session between claim and load may load the
\* attempt its agent claimed again in the new one.
OneExecutorPerAttempt ==
  \A v, w \in Worker :
    /\ Executing(v) /\ Executing(w) /\ v # w
    /\ workers[v].task = workers[w].task /\ workers[v].attempt = workers[w].attempt
    => AgentOf[v] = AgentOf[w] /\ SessionOf[v] # SessionOf[w]

\* Both together: who executes an attempt, and that only the last attempt
\* delivers (expected_attempt), also across the handover between two sessions.
AttemptInv == OneExecutorPerAttempt /\ DeliveryOfCurrentAttempt

\* Two current writing tasks of the workspace are never both in progress,
\* whatever pauses, resumes, replans and reviews happen between the claims.
WriterExclusion ==
  \A t, u \in Writes :
    /\ IsWorkflowTask(t) /\ IsWorkflowTask(u)
    /\ tasks[t].status = "in_progress" /\ tasks[u].status = "in_progress"
    /\ ~tasks[t].superseded /\ ~tasks[u].superseded
    => t = u

\* In one session, two agents write to the workspace at the same time only
\* when the task of one of them is cancelled: its run is still to be cut, or the
\* cut was lost.
WritersOverlapOnlyWhenCancelled ==
  \A v, w \in Worker :
    /\ v # w /\ SessionOf[v] = session /\ SessionOf[w] = session
    /\ workers[v].pc = "live" /\ workers[w].pc = "live"
    /\ workers[v].task \in Writes /\ workers[w].task \in Writes
    => \E x \in {v, w} : tasks[workers[x].task].status = "cancelled"

\* A cancellation misses no run: once a task is marked as cancelled, the client
\* of every run of it that is registered is to be cut, or its cancel event is
\* set, or was set in the window in which the run clears it.
InterruptReachesEveryRun ==
  \A w \in Worker :
    Registered(w) /\ SessionOf[w] = session /\ workers[w].task \in cancelledRuns
      => workers[w].cut # "none"

\* A task is failed by the delivery that reaches the limit: no one claims a
\* task with no round left.
ReworkBound ==
  \A t \in Task :
    /\ tasks[t].reworks <= MaxTaskAttempts
    /\ tasks[t].reworks = MaxTaskAttempts => tasks[t].status = "failed"

\* A replan never retires a prerequisite of a task it keeps: a current task
\* only waits for current tasks, so it does not wait for a cancelled one.
PlanIsClosed ==
  \A f \in Workflow : \A t \in CurrentTasks(f) : Deps[t] \subseteq CurrentTasks(f)

\* A task that was started keeps its prerequisites accepted, in the deliveries
\* its agent was given: neither a replan nor a late verdict undoes them.
PrerequisitesStayCompleted ==
  \A t \in Task :
    tasks[t].status = "in_progress" \/ Delivered(t) =>
      \A d \in Deps[t] : tasks[d].status = "completed"

\* The current tasks of a workflow are in the job of the workflow, across
\* adoptions and replans: what a session may claim is all it coordinates.
JobOfPlan ==
  \A f \in Workflow : \A t \in CurrentTasks(f) : tasks[t].job = workflows[f].job

\* Each task follows its lifecycle: one agent runs an attempt, a delivery is
\* accepted as it was made, and a settled task never changes again.
Life(t) ==
  LET row == tasks[t]
      phase == CASE row.status = "pending" -> "waiting"
                 [] row.status = "in_progress" -> "running"
                 [] row.status \in {"pending_review", "reviewing"} -> "delivered"
                 [] row.status = "completed" -> "accepted"
                 [] OTHER -> row.status
  IN  [ phase |-> phase, attempt |-> row.attempt,
        agent |-> IF phase \in {"running", "delivered", "accepted"}
                    THEN row.owner ELSE NoAgent,
        delivery |-> IF Delivered(t) THEN row.delivery ELSE NoDelivery ]

Lifecycle == INSTANCE TaskLifecycle WITH life <- [t \in Task |-> Life(t)]
ImplementsLifecycle == Lifecycle!Spec

\* The rule the workflow documentation states for expected_attempt: a slot on
\* an older attempt of a workflow task no longer writes the row of the task.
OldAttemptWritesNothing ==
  [][\A w \in Worker :
       LET t == workers[w].task IN
       t # NoTask /\ workers'[w] # workers[w] =>
         \/ ~IsWorkflowTask(t) \/ workers[w].attempt = tasks[t].attempt
         \/ tasks'[t] = tasks[t]]_vars

----------------------------------------------------------------------------
(* Liveness.                                                               *)

\* A workflow never stays in running: it completes, blocks or fails, unless
\* somebody pauses or cancels it.
WorkflowSettles ==
  \A f \in Workflow :
    workflows[f].status = "running" ~> workflows[f].status # "running"
===========================================================================
