------------------------ MODULE WorkflowCoordinator ------------------------
(***************************************************************************)
(* The decisions of quimera/workflows/coordinator.py, step by step: a      *)
(* reconcile reads a snapshot, requeues and settles tasks in transactions  *)
(* of their own, decides on what it read, and consults the principal agent *)
(* with nothing locked; workflows_finish checks, moves and records in      *)
(* three transactions; and the other workflow tools run in between.        *)
(*                                                                         *)
(* One session, which holds the coordination lock.  What executors and     *)
(* reviewers do to the rows of the tasks is here one action per write: the *)
(* steps of their handlers are the subject of TaskExecution.               *)
(***************************************************************************)
EXTENDS WorkflowRepository

CONSTANTS
  Reconciler,   \* threads that reconcile, of the monitor or of resume
  Caller,       \* threads inside workflows_finish
  MaxFaults     \* bound: suspensions, failed runs, lost runs, reloads

ASSUME CoordinatorAssumption ==
  /\ Reconciler \cap Caller = {}
  /\ MaxFaults \in Nat

VARIABLES
  threads,     \* what each thread is doing, and what it has read
  pool,        \* get_active_agents
  suspended,   \* the members that get_available_agents leaves out
  faults       \* how many of MaxFaults happened

poolState == <<pool, suspended>>
vars == <<tasks, workflows, attempts, threads, pool, suspended, faults>>

Thread == Reconciler \cup Caller

\* The job of the session.
Job == 1

Available == pool \ suspended

\* A TaskView, as far as the decisions read it.
View(t) ==
  IF t \in CurrentTasks(WorkflowOf[t])
    THEN [ status |-> tasks[t].status, owner |-> tasks[t].owner,
           attempt |-> tasks[t].attempt, reworks |-> tasks[t].reworks ]
    ELSE [ status |-> "absent", owner |-> NoAgent, attempt |-> 0, reworks |-> 0 ]

NothingSeen ==
  [t \in Task |-> [status |-> "absent", owner |-> NoAgent, attempt |-> 0,
                   reworks |-> 0]]

\* The snapshot of workflow f.
Snapshot(f) == [t \in Task |-> IF WorkflowOf[t] = f THEN View(t) ELSE NothingSeen[t]]

ReconcilePc == {"snapshot", "lease", "settle", "decide", "conclude",
                "claim", "consult"}
FinishPc == {"move", "record"}

ThreadState ==
  [ pc : ReconcilePc \cup FinishPc \cup {"idle"}, wf : Workflow \cup {NoWorkflow},
    version : Nat, todo : SUBSET Task, changed : BOOLEAN,
    active : SUBSET Agent, available : SUBSET Agent,
    target : WorkflowStatus \cup {"absent"}, failed : SUBSET Task,
    churned : BOOLEAN,  \* history: the pool changed since the snapshot
    seen : [Task -> [status : TaskStatus \cup {"absent"}, owner : AgentOrNull,
                     attempt : Nat, reworks : Nat]] ]

IdleThread ==
  [ pc |-> "idle", wf |-> NoWorkflow, version |-> 0, todo |-> {},
    changed |-> FALSE, active |-> {}, available |-> {}, target |-> "absent",
    failed |-> {}, churned |-> FALSE, seen |-> NothingSeen ]

CoordinatorTypeOK ==
  /\ tasks \in [Task -> TaskRow]
  /\ workflows \in [Workflow -> WorkflowRow]
  /\ attempts \subseteq AttemptRow
  /\ threads \in [Thread -> ThreadState]
  /\ pool \subseteq Agent
  /\ suspended \subseteq Agent
  /\ faults \in 0..MaxFaults

Init ==
  /\ tasks = [t \in Task |-> AbsentTask]
  /\ workflows = [f \in Workflow |-> AbsentWorkflow]
  /\ attempts = {}
  /\ threads = [x \in Thread |-> IdleThread]
  /\ pool = Agent
  /\ suspended = {}
  /\ faults = 0

Becomes(x, state) == threads' = [threads EXCEPT ![x] = state]
Idles(x) == Becomes(x, IdleThread)

Fault == faults < MaxFaults /\ faults' = faults + 1
NoFault == UNCHANGED faults

\* A step of a thread or of a tool that leaves the agents alone.
Internal == UNCHANGED <<pool, suspended, faults>>

----------------------------------------------------------------------------
(* reconcile.                                                              *)

\* reconcile on a running workflow, for the monitor or at the end of resume.
StartReconcile(x, f) ==
  /\ threads[x].pc = "idle"
  /\ workflows[f].status = "running"
  /\ Becomes(x, [IdleThread EXCEPT !.pc = "snapshot", !.wf = f])
  /\ UNCHANGED db /\ Internal

\* The views whose prerequisites all were completed, in what x has seen.
ReadyIn(seen, t) ==
  /\ seen[t].status = "pending"
  /\ \A d \in Deps[t] : seen[d].status \in {"completed", "absent"}

\* The settlement is over: a new snapshot when it changed something.
Proceeds(row) ==
  CASE row.todo # {} -> row
    [] row.todo = {} /\ row.changed ->
         [IdleThread EXCEPT !.pc = "snapshot", !.wf = row.wf, !.changed = TRUE]
    [] OTHER -> [row EXCEPT !.pc = "decide", !.active = {}, !.available = {}]

\* _settle_unrunnable reads the agents once, and then works on each ready task.
Settles(x, seen) ==
  Proceeds([threads[x] EXCEPT !.pc = "settle", !.seen = seen,
     !.version = workflows[threads[x].wf].version,
     !.todo = { t \in Task : ReadyIn(seen, t) },
     !.active = pool, !.available = Available, !.churned = FALSE])

\* The snapshot that follows a settlement goes straight to the decision.
Rereads(x, seen) ==
  [threads[x] EXCEPT !.pc = "decide", !.seen = seen, !.changed = FALSE,
     !.version = workflows[threads[x].wf].version, !.churned = FALSE]

TakeSnapshot(x) ==
  /\ threads[x].pc = "snapshot"
  /\ LET seen == Snapshot(threads[x].wf)
     IN  Becomes(x, IF threads[x].changed THEN Rereads(x, seen) ELSE Settles(x, seen))
  /\ UNCHANGED db /\ Internal

\* The snapshot shows an execution or a review whose run is gone and whose
\* lease is over.
SeeExpiredLease(x, t) ==
  /\ threads[x].pc = "snapshot" /\ ~threads[x].changed
  /\ t \in CurrentTasks(threads[x].wf) /\ Interruptible({t}) # {}
  /\ Becomes(x, [threads[x] EXCEPT !.pc = "lease", !.todo = {t},
                                   !.seen = [NothingSeen EXCEPT ![t] = View(t)]])
  /\ UNCHANGED <<db, poolState>> /\ Fault

\* _requeue_expired: requeue_orphans on what was observed, and a new snapshot.
RequeueExpired(x) ==
  /\ threads[x].pc = "lease"
  /\ \E t \in threads[x].todo :
       LET row == threads[x].seen[t] IN
       \/ RequeueOrphan(t, row.status, row.attempt)
       \/ /\ <<tasks[t].status, tasks[t].attempt>> # <<row.status, row.attempt>>
          /\ UNCHANGED db
  /\ Becomes(x, [IdleThread EXCEPT !.pc = "snapshot", !.wf = threads[x].wf])
  /\ Internal

\* What one iteration of _settle_unrunnable writes to the row of t.
Settled(x, t) ==
  LET view == threads[x].seen[t] IN
  IF view.owner \notin threads[x].available \cup {NoAgent}
    THEN UnassignPending(tasks[t], view.owner)
  ELSE IF view.reworks >= MaxTaskAttempts
            \/ ~CanReassign(tasks[t], threads[x].active)
    THEN FailTask(tasks[t], AnyAttempt, {"pending"})
  ELSE tasks[t]

SettleTask(x, t) ==
  /\ threads[x].pc = "settle"
  /\ IsFirst(t, threads[x].todo)
  /\ tasks' = [tasks EXCEPT ![t] = Settled(x, t)]
  /\ Becomes(x, Proceeds([threads[x] EXCEPT !.todo = @ \ {t},
                            !.changed = @ \/ Settled(x, t) # tasks[t]]))
  /\ UNCHANGED <<workflows, attempts>> /\ Internal

----------------------------------------------------------------------------
(* The decision.                                                           *)

InPlan(seen) == { t \in Task : seen[t].status # "absent" }

\* _reviewable: the owner comes from the snapshot, who failed to review from
\* the database.
ReviewableIn(seen, t) == CanReview(tasks[t], pool \ {seen[t].owner})

InFlightIn(seen) ==
  \E t \in InPlan(seen) :
    \/ seen[t].status \in {"in_progress", "reviewing"}
    \/ seen[t].status = "pending_review" /\ ReviewableIn(seen, t)

RunnableIn(seen) == \E t \in InPlan(seen) : ReadyIn(seen, t)

Dead == {"failed", "rejected", "cancelled"}

Decided(x, target, failed) ==
  [threads[x] EXCEPT !.pc = "conclude", !.target = target, !.failed = failed,
                     !.seen = NothingSeen]

\* reconcile decides on the snapshot.
Decide(x) ==
  /\ threads[x].pc = "decide"
  /\ LET seen == threads[x].seen IN
     CASE \A t \in InPlan(seen) : seen[t].status = "completed" ->
            Becomes(x, Decided(x, "completed", {}))
       [] \/ InFlightIn(seen)
          \/ RunnableIn(seen) -> Idles(x)
       [] OTHER ->
            Becomes(x, Decided(x, "blocked",
                               { t \in InPlan(seen) : seen[t].status \in Dead }))
  /\ UNCHANGED db /\ Internal

\* Mutant of Conclude: the decision holds for whatever version there is now.
ConcludeAnyVersion(x) ==
  /\ threads[x].pc = "conclude"
  /\ LET wf == threads[x].wf IN
     \/ /\ SetStatus(wf, threads[x].target, {"running"}, workflows[wf].version, "null")
        /\ Becomes(x, [threads[x] EXCEPT !.pc = "claim", !.churned = FALSE])
     \/ /\ workflows[wf].status # "running"
        /\ Idles(x) /\ UNCHANGED workflows
  /\ UNCHANGED <<tasks, attempts>> /\ Internal

\* Mutant of Conclude: a refused decision keeps its thread.
ConcludeOrWait(x) ==
  /\ threads[x].pc = "conclude"
  /\ SetStatus(threads[x].wf, threads[x].target, {"running"}, threads[x].version, "null")
  /\ Becomes(x, [threads[x] EXCEPT !.pc = "claim", !.churned = FALSE])
  /\ UNCHANGED <<tasks, attempts>> /\ Internal

\* _conclude: compare-and-set on the status and the version of the snapshot.
Conclude(x) ==
  /\ threads[x].pc = "conclude"
  /\ LET wf == threads[x].wf IN
     \/ /\ SetStatus(wf, threads[x].target, {"running"}, threads[x].version, "null")
        /\ Becomes(x, [threads[x] EXCEPT !.pc = "claim", !.churned = FALSE])
     \/ /\ <<workflows[wf].status, workflows[wf].version>>
             # <<"running", threads[x].version>>
        /\ Idles(x) /\ UNCHANGED workflows
  /\ UNCHANGED <<tasks, attempts>> /\ Internal

AttentionOf(x) ==
  [status |-> threads[x].target, version |-> threads[x].version,
   failed |-> threads[x].failed]

\* claim_consult: the thread that gets the claim asks the principal agent.
Claim(x) ==
  /\ threads[x].pc = "claim"
  /\ LET wf == threads[x].wf IN
     \/ /\ ClaimConsult(wf, AttentionOf(x))
        /\ Becomes(x, [threads[x] EXCEPT !.pc = "consult"])
     \/ /\ \/ workflows[wf].consults >= MaxConsults
           \/ workflows[wf].attention = AttentionOf(x)
        /\ Idles(x) /\ UNCHANGED workflows
  /\ UNCHANGED <<tasks, attempts>> /\ Internal

\* Mutant of ConsultEnds: the answer is recorded whatever was decided meanwhile.
ConsultOverwrites(x, answered) ==
  /\ threads[x].pc = "consult"
  /\ LET wf == threads[x].wf
         row == threads[x] IN
     \/ answered /\ SetResult(wf, "answer", row.target, row.version, FALSE)
     \/ /\ answered =>
             <<workflows[wf].status, workflows[wf].version>> # <<row.target, row.version>>
        /\ UNCHANGED workflows
  /\ Idles(x)
  /\ UNCHANGED <<tasks, attempts>> /\ Internal

\* The consulted agent answers, or not; what it did with the workflow tools
\* meanwhile are actions of a caller.
ConsultEnds(x, answered) ==
  /\ threads[x].pc = "consult"
  /\ LET wf == threads[x].wf
         row == threads[x] IN
     \/ answered /\ SetResult(wf, "answer", row.target, row.version, TRUE)
     \/ /\ answered => \/ workflows[wf].result # "null"
                       \/ <<workflows[wf].status, workflows[wf].version>>
                            # <<row.target, row.version>>
        /\ UNCHANGED workflows
  /\ Idles(x)
  /\ UNCHANGED <<tasks, attempts>> /\ Internal

----------------------------------------------------------------------------
(* workflows_finish.                                                       *)

Finishes(c, f, pc, target) ==
  Becomes(c, [IdleThread EXCEPT !.pc = pc, !.wf = f, !.target = target,
                                !.version = workflows[f].version])

\* outcome completed: every task of the snapshot is accepted, and the workflow
\* is running or already completed; otherwise the call is refused.
FinishCompleted(c, f) ==
  /\ threads[c].pc = "idle"
  /\ workflows[f].status \in {"running", "completed"}
  /\ \A t \in CurrentTasks(f) : tasks[t].status = "completed"
  /\ Finishes(c, f, IF workflows[f].status = "running" THEN "move" ELSE "record",
              "completed")
  /\ UNCHANGED db /\ Internal

\* outcome blocked: a workflow that reconcile blocked is not moved again.
FinishBlocked(c, f) ==
  /\ threads[c].pc = "idle"
  /\ workflows[f].status \in {"running", "blocked"}
  /\ Finishes(c, f, IF workflows[f].status = "running" THEN "move" ELSE "record",
              "blocked")
  /\ UNCHANGED db /\ Internal

\* Mutant of FinishMove: the version that was checked is not passed on.
FinishMoveAnyVersion(c) ==
  /\ threads[c].pc = "move"
  /\ LET wf == threads[c].wf IN
     \/ /\ SetStatus(wf, threads[c].target, {"running"}, workflows[wf].version, "null")
        /\ Becomes(c, [threads[c] EXCEPT !.pc = "record"])
     \/ /\ workflows[wf].status # "running"
        /\ Idles(c) /\ UNCHANGED workflows
  /\ UNCHANGED <<tasks, attempts>> /\ Internal

\* _transition of finish; the call fails when the workflow changed.
FinishMove(c) ==
  /\ threads[c].pc = "move"
  /\ LET wf == threads[c].wf IN
     \/ /\ SetStatus(wf, threads[c].target, {"running"}, threads[c].version, "null")
        /\ Becomes(c, [threads[c] EXCEPT !.pc = "record"])
     \/ /\ <<workflows[wf].status, workflows[wf].version>>
             # <<"running", threads[c].version>>
        /\ Idles(c) /\ UNCHANGED workflows
  /\ UNCHANGED <<tasks, attempts>> /\ Internal

\* _record_result; the call fails when the workflow changed.
FinishRecord(c) ==
  /\ threads[c].pc = "record"
  /\ LET wf == threads[c].wf
         row == threads[c] IN
     \/ SetResult(wf, "summary", row.target, row.version, FALSE)
     \/ /\ <<workflows[wf].status, workflows[wf].version>> # <<row.target, row.version>>
        /\ UNCHANGED workflows
  /\ Idles(c)
  /\ UNCHANGED <<tasks, attempts>> /\ Internal

----------------------------------------------------------------------------
(* The tools of one transaction.                                           *)

Create(f) ==
  /\ Publish(f, Job, pool)
  /\ UNCHANGED threads /\ Internal

Moves(f, to, expected) ==
  /\ SetStatus(f, to, expected, workflows[f].version, "null")
  /\ UNCHANGED <<tasks, attempts, threads>> /\ Internal

Start(f) == Moves(f, "running", {"ready"})
Pause(f) == Moves(f, "paused", {"running", "blocked"})

Resume(f) == Moves(f, "running", {"paused"})

Stops(f, to, expected, result) ==
  /\ SetStatusAndCancel(f, to, expected, workflows[f].version, result)
  /\ UNCHANGED threads /\ Internal

Cancel(f) == Stops(f, "cancelled", WorkflowStatus, "null")
FinishFailed(f) == Stops(f, "failed", {"running", "blocked", "paused"}, "summary")

ReplanWorkflow(f, kept, fresh) ==
  /\ Replan(f, kept, fresh, pool)
  /\ UNCHANGED threads /\ Internal

----------------------------------------------------------------------------
(* The rows of the tasks, written by executors and reviewers.              *)

WritesRow(t, row) ==
  /\ tasks' = [tasks EXCEPT ![t] = row]
  /\ UNCHANGED <<workflows, attempts, threads, pool, suspended>>

ClaimExecution(t, agent) ==
  /\ agent \in Available
  /\ IsFirst(t, { u \in Task : Claimable(u, agent, Job) })
  /\ WritesRow(t, ClaimTask(tasks[t], agent)) /\ NoFault

DeliverTask(t) ==
  /\ tasks[t].status = "in_progress"
  /\ LET row == tasks[t] IN
     WritesRow(t, IF pool \ {row.owner} # {}
                THEN SubmitForReview(row, AnyAttempt, NoDelivery)
                ELSE CompleteTask(row, AnyAttempt, NoDelivery, NoAgent))
  /\ NoFault

HandOffTask(t) ==
  /\ tasks[t].status = "in_progress"
  /\ LET row == tasks[t] IN
     WritesRow(t, CASE row.owner \notin Available ->
                       RequeueTask(row, AnyAttempt, row.owner, FALSE)
                  [] row.owner \in Available /\ CanReassign(row, pool \ {row.owner}) ->
                       RequeueTask(row, AnyAttempt, row.owner, TRUE)
                  [] OTHER -> FailTask(row, AnyAttempt, TaskStatus))
  /\ Fault

ClaimReview(t, agent) ==
  /\ agent \in Available
  /\ IsFirst(t, { u \in Task : Reviewable(u, agent, Job) })
  /\ WritesRow(t, ClaimReviewTask(tasks[t], agent)) /\ NoFault

AcceptDelivery(t) ==
  /\ tasks[t].status = "reviewing"
  /\ WritesRow(t, CompleteTask(tasks[t], AnyAttempt, NoDelivery, tasks[t].reviewer))
  /\ NoFault

RejectDelivery(t) ==
  /\ tasks[t].status = "reviewing"
  /\ WritesRow(t, ReworkTask(tasks[t], AnyAttempt, tasks[t].owner, NoDelivery))
  /\ NoFault

ReviewFails(t) ==
  /\ tasks[t].status = "reviewing"
  /\ WritesRow(t, ReturnReview(tasks[t], AnyAttempt, tasks[t].reviewer,
                           tasks[t].reviewer \in Available))
  /\ Fault

----------------------------------------------------------------------------
(* The pool.                                                               *)

\* The decision under way was prepared with another pool.
Churns ==
  threads' = [x \in Thread |->
    IF threads[x].pc \in {"settle", "decide", "conclude"}
      THEN [threads[x] EXCEPT !.churned = TRUE] ELSE threads[x]]

Leaves(a) ==
  /\ a \in pool
  /\ pool' = pool \ {a}
  /\ suspended' = suspended \ {a}
  /\ Churns
  /\ UNCHANGED db /\ Fault

Joins(a) ==
  /\ a \notin pool
  /\ pool' = pool \cup {a}
  /\ Churns
  /\ UNCHANGED <<db, suspended>> /\ NoFault

Suspends(a) ==
  /\ a \in Available
  /\ suspended' = suspended \cup {a}
  /\ UNCHANGED <<db, threads, pool>> /\ Fault

CooldownEnds(a) ==
  /\ a \in suspended
  /\ suspended' = suspended \ {a}
  /\ UNCHANGED <<db, threads, pool>> /\ NoFault

----------------------------------------------------------------------------

ReconcileStep(x) ==
  \/ TakeSnapshot(x) \/ RequeueExpired(x)
  \/ \E t \in Task : SettleTask(x, t)
  \/ Decide(x) \/ Conclude(x) \/ Claim(x)
  \/ \E answered \in BOOLEAN : ConsultEnds(x, answered)

FinishStep(c) == FinishMove(c) \/ FinishRecord(c)

ToolStep(f) ==
  \/ Create(f) \/ Start(f) \/ Pause(f) \/ Resume(f)
  \/ Cancel(f) \/ FinishFailed(f)
  \/ \E kept, fresh \in SUBSET { t \in Task : WorkflowOf[t] = f } :
       ReplanWorkflow(f, kept, fresh)
  \/ \E c \in Caller : FinishCompleted(c, f) \/ FinishBlocked(c, f)

TaskStep(t) ==
  \/ \E agent \in Agent : ClaimExecution(t, agent) \/ ClaimReview(t, agent)
  \/ DeliverTask(t) \/ HandOffTask(t)
  \/ AcceptDelivery(t) \/ RejectDelivery(t) \/ ReviewFails(t)

Next ==
  \/ \E x \in Reconciler :
       \/ ReconcileStep(x)
       \/ \E f \in Workflow : StartReconcile(x, f)
       \/ \E t \in Task : SeeExpiredLease(x, t)
  \/ \E c \in Caller : FinishStep(c)
  \/ \E f \in Workflow : ToolStep(f)
  \/ \E t \in Task : TaskStep(t)
  \/ \E a \in Agent : Leaves(a) \/ Joins(a) \/ Suspends(a) \/ CooldownEnds(a)

Spec == Init /\ [][Next]_vars

\* Fairness.  The monitor polls while a workflow is running, its threads and
\* those of the tools go on, and a consultation ends at the latest with the
\* wall clock limit of the agent's run.  Tools, agents and the pool owe nothing.
Fairness ==
  /\ \A x \in Reconciler : WF_vars(ReconcileStep(x))
  /\ \A c \in Caller : WF_vars(FinishStep(c))
  /\ \A f \in Workflow : WF_vars(\E x \in Reconciler : StartReconcile(x, f))

FairSpec == Spec /\ Fairness

----------------------------------------------------------------------------
(* Properties.                                                             *)

PlanAccepted(f) == \A t \in CurrentTasks(f) : tasks[t].status = "completed"

\* A completed workflow has every task of its current plan accepted, whoever
\* concluded it: a reconcile or workflows_finish that verified an older plan
\* completes nothing after a replan.
CompletedIsAccepted ==
  \A f \in Workflow : workflows[f].status = "completed" => PlanAccepted(f)

\* ... in rows, threads and attempts that have their type.
CoordinatorInv == CoordinatorTypeOK /\ CompletedIsAccepted

Runnable(t) ==
  tasks[t].status = "pending" /\ \A d \in Deps[t] : tasks[d].status = "completed"

\* A reconcile blocks a workflow only when none of its tasks is running, under
\* review or able to start, although it decides on a snapshot that is several
\* transactions old; unless agents joined or left while it was deciding.
BlocksOnlyStuck ==
  [][\A x \in Thread :
       /\ threads[x].pc = "conclude" /\ threads'[x].pc = "claim"
       /\ threads[x].target = "blocked" /\ ~threads[x].churned
       => \A t \in CurrentTasks(threads[x].wf) :
            tasks[t].status \notin {"in_progress", "reviewing"} /\ ~Runnable(t)]_vars

\* The answer of a consultation is recorded only in the status and the version
\* it was asked about, and never over what the principal agent recorded with
\* workflows_finish while it was answering.
AnswerFitsDecision ==
  [][\A f \in Workflow :
       workflows'[f].result = "answer" /\ workflows[f].result # "answer" =>
         /\ workflows[f].result = "null"
         /\ \E x \in Thread :
              /\ threads[x].pc = "consult" /\ threads[x].wf = f
              /\ threads[x].target = workflows[f].status
              /\ threads[x].version = workflows[f].version]_vars

\* A running workflow whose plan is accepted does not stay so: a reconcile
\* that lost a race against a tool is followed by another one.
AcceptedIsConcluded ==
  \A f \in Workflow :
    (workflows[f].status = "running" /\ PlanAccepted(f))
      ~> ~(workflows[f].status = "running" /\ PlanAccepted(f))
===========================================================================
