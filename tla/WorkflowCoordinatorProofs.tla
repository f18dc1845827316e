--------------------- MODULE WorkflowCoordinatorProofs ---------------------
(***************************************************************************)
(* Theorems about WorkflowCoordinator, for every pool, plan, number of     *)
(* workflows and number of threads.                                        *)
(*                                                                         *)
(* CompletedIsAccepted is not inductive: a thread writes `completed` on    *)
(* what it read several transactions ago.  The strengthening says, for     *)
(* each thread, what its snapshot and its decision are still good for as   *)
(* long as the version they were taken in is the current one.              *)
(*                                                                         *)
(* BlocksOnlyStuck needs more: BlockInv, at the end of the module, follows *)
(* every task of a snapshot through the steps of the executors, reviewers  *)
(* and tools that act between the snapshot and the decision.               *)
(***************************************************************************)
EXTENDS WorkflowCoordinator, WorkflowRepositoryProofs

\* A thread that works, works on a published workflow and read no version
\* that does not exist.
InWorkflow(x) ==
  threads[x].pc # "idle" =>
    /\ threads[x].wf \in Workflow
    /\ workflows[threads[x].wf].status # "absent"
    /\ threads[x].version <= workflows[threads[x].wf].version

UpToDate(x) == threads[x].version = workflows[threads[x].wf].version

\* In the version it was taken in, a snapshot shows every current task, and
\* as accepted only those that still are.
SnapshotStands(x) ==
  threads[x].pc \in {"settle", "decide"} /\ UpToDate(x) =>
    \A t \in CurrentTasks(threads[x].wf) :
      /\ threads[x].seen[t].status # "absent"
      /\ threads[x].seen[t].status = "completed" => tasks[t].status = "completed"

\* In the version it was decided in, a completion stands.
DecisionStands(x) ==
  threads[x].pc \in {"conclude", "move"} /\ UpToDate(x)
    /\ threads[x].target = "completed" => PlanAccepted(threads[x].wf)

ThreadInv(x) == InWorkflow(x) /\ SnapshotStands(x) /\ DecisionStands(x)

ThreadsInv == \A x \in Thread : ThreadInv(x)

IndInv == CoordinatorInv /\ ThreadsInv
(***************************************************************************)
(* Types.                                                                  *)
(***************************************************************************)

SeenRow == [status : TaskStatus \cup {"absent"}, owner : AgentOrNull,
            attempt : Nat, reworks : Nat]
Seen == [Task -> SeenRow]

LEMMA SeenTypes ==
  ASSUME CoordinatorTypeOK
  PROVE  /\ NothingSeen \in Seen
         /\ \A t \in Task : View(t) \in SeenRow
         /\ \A f : Snapshot(f) \in Seen
<1>1. NothingSeen \in Seen
  BY NullTypes DEF NothingSeen, Seen, SeenRow
<1>2. ASSUME NEW t \in Task PROVE View(t) \in SeenRow
  <2>1. tasks[t] \in TaskRow
    BY DEF CoordinatorTypeOK
  <2> QED
    BY <2>1, NullTypes DEF View, SeenRow, TaskRow
<1>3. \A f : Snapshot(f) \in Seen
  BY <1>1, <1>2 DEF Snapshot, Seen
<1> QED
  BY <1>1, <1>2, <1>3

LEMMA IdleTypes ==
  /\ IdleThread \in ThreadState
  /\ IdleThread.pc = "idle"
<1>1. NothingSeen \in Seen
  BY NullTypes DEF NothingSeen, Seen, SeenRow
<1> QED
  BY <1>1 DEF IdleThread, ThreadState, Seen, SeenRow, WorkflowStatus

LEMMA AgentTypes ==
  ASSUME CoordinatorTypeOK
  PROVE  pool \in SUBSET Agent /\ Available \in SUBSET Agent
BY DEF CoordinatorTypeOK, Available

LEMMA ProceedsTypes ==
  ASSUME NEW row \in ThreadState
  PROVE  Proceeds(row) \in ThreadState
<1>1. [IdleThread EXCEPT !.pc = "snapshot", !.wf = row.wf, !.changed = TRUE] \in ThreadState
  BY IdleTypes DEF ThreadState, ReconcilePc
<1>2. [row EXCEPT !.pc = "decide", !.active = {}, !.available = {}] \in ThreadState
  BY DEF ThreadState, ReconcilePc
<1> QED
  BY <1>1, <1>2 DEF Proceeds

LEMMA BecomesTypes ==
  ASSUME CoordinatorTypeOK, NEW x \in Thread, NEW s \in ThreadState, Becomes(x, s)
  PROVE  threads' \in [Thread -> ThreadState]
BY DEF CoordinatorTypeOK, Becomes

\* The reading steps of a reconcile and the checks of workflows_finish.
LEMMA ReadTypes ==
  ASSUME CoordinatorTypeOK, ThreadsInv, NEW x \in Thread,
         \/ \E f \in Workflow : \/ StartReconcile(x, f)
                                \/ FinishCompleted(x, f) \/ FinishBlocked(x, f)
         \/ TakeSnapshot(x)
         \/ \E t \in Task : SeeExpiredLease(x, t)
         \/ Decide(x)
  PROVE  CoordinatorTypeOK' /\ UNCHANGED db
<1>1. threads[x] \in ThreadState
  BY DEF CoordinatorTypeOK
<1>2. \A f \in Workflow : workflows[f].version \in Nat
  BY DEF CoordinatorTypeOK, WorkflowRow
<1>3. \E s \in ThreadState : Becomes(x, s)
  <2>1. ASSUME NEW f \in Workflow, StartReconcile(x, f)
        PROVE  \E s \in ThreadState : Becomes(x, s)
    <3>1. [IdleThread EXCEPT !.pc = "snapshot", !.wf = f] \in ThreadState
      BY IdleTypes DEF ThreadState, ReconcilePc
    <3> QED
      BY <2>1, <3>1 DEF StartReconcile
  <2>2. ASSUME NEW f \in Workflow, FinishCompleted(x, f) \/ FinishBlocked(x, f)
        PROVE  \E s \in ThreadState : Becomes(x, s)
    <3>1. ASSUME NEW pc \in FinishPc, NEW target \in WorkflowStatus, Finishes(x, f, pc, target)
          PROVE  \E s \in ThreadState : Becomes(x, s)
      <4>1. workflows[f].version \in Nat
        BY <1>2
      <4>2. [IdleThread EXCEPT !.pc = pc, !.wf = f, !.target = target,
                               !.version = workflows[f].version] \in ThreadState
        BY <4>1, IdleTypes DEF ThreadState
      <4> QED
        BY <3>1, <4>2 DEF Finishes
    <3> QED
      BY <2>2, <3>1 DEF FinishCompleted, FinishBlocked, FinishPc, WorkflowStatus
  <2>3. CASE TakeSnapshot(x)
    <3>1. threads[x].wf \in Workflow
      BY <2>3 DEF TakeSnapshot, ThreadsInv, ThreadInv, InWorkflow
    <3> DEFINE seen == Snapshot(threads[x].wf)
               version == workflows[threads[x].wf].version
               ready == { t \in Task : ReadyIn(seen, t) }
    <3>2. seen \in Seen /\ version \in Nat /\ ready \in SUBSET Task
      BY <1>2, <3>1, SeenTypes
    <3>3. Rereads(x, seen) \in ThreadState
      <4> HIDE DEF seen
      <4>1. Rereads(x, seen) = [threads[x] EXCEPT !.pc = "decide", !.seen = seen,
                                  !.changed = FALSE, !.version = version, !.churned = FALSE]
        BY DEF Rereads
      <4> HIDE DEF version
      <4> QED
        BY <1>1, <3>2, <4>1 DEF ThreadState, Seen, SeenRow, ReconcilePc
    <3>4. Settles(x, seen) \in ThreadState
      <4> DEFINE s == [threads[x] EXCEPT !.pc = "settle", !.seen = seen, !.version = version,
                         !.todo = ready, !.active = pool, !.available = Available,
                         !.churned = FALSE]
      <4>1. s \in ThreadState
        <5> HIDE DEF seen, version, ready
        <5> QED
          BY <1>1, <3>2, AgentTypes DEF ThreadState, Seen, SeenRow, ReconcilePc
      <4> QED
        BY <4>1, ProceedsTypes DEF Settles
    <3> QED
      BY <2>3, <3>3, <3>4 DEF TakeSnapshot
  <2>4. ASSUME NEW t \in Task, SeeExpiredLease(x, t)
        PROVE  \E s \in ThreadState : Becomes(x, s)
    <3> DEFINE seen == [NothingSeen EXCEPT ![t] = View(t)]
    <3>1. seen \in Seen
      BY SeenTypes DEF Seen
    <3>2. [threads[x] EXCEPT !.pc = "lease", !.todo = {t}, !.seen = seen] \in ThreadState
      <4> HIDE DEF seen
      <4> QED
        BY <1>1, <3>1 DEF ThreadState, Seen, SeenRow, ReconcilePc
    <3> QED
      BY <2>4, <3>2 DEF SeeExpiredLease
  <2>5. CASE Decide(x)
    <3>1. ASSUME NEW target \in WorkflowStatus, NEW failed \in SUBSET Task
          PROVE  Decided(x, target, failed) \in ThreadState
      <4>1. NothingSeen \in Seen
        BY SeenTypes
      <4> QED
        BY <1>1, <4>1 DEF Decided, ThreadState, Seen, SeenRow, ReconcilePc
    <3>2. { t \in InPlan(threads[x].seen) : threads[x].seen[t].status \in Dead }
            \in SUBSET Task
      BY DEF InPlan
    <3> QED
      BY <2>5, <3>1, <3>2, IdleTypes DEF Decide, Idles, WorkflowStatus
  <2> QED
    BY <2>1, <2>2, <2>3, <2>4, <2>5
<1>4. threads' \in [Thread -> ThreadState]
  BY <1>3, BecomesTypes
<1>5. UNCHANGED <<db, pool, suspended>> /\ faults' \in 0..MaxFaults
  <2>1. UNCHANGED <<db, pool, suspended>>
    BY DEF StartReconcile, FinishCompleted, FinishBlocked, TakeSnapshot,
           SeeExpiredLease, Decide, Internal, poolState
  <2>2. faults' = faults \/ Fault
    BY DEF StartReconcile, FinishCompleted, FinishBlocked, TakeSnapshot,
           SeeExpiredLease, Decide, Internal
  <2>3. Fault => faults' \in 0..MaxFaults
    BY CoordinatorAssumption DEF Fault, CoordinatorTypeOK
  <2> QED
    BY <2>1, <2>2, <2>3 DEF CoordinatorTypeOK
<1> QED
  BY <1>4, <1>5 DEF CoordinatorTypeOK, db

(***************************************************************************)
(* What a step does to a published workflow: it keeps the version and its  *)
(* plan, or it is a replan, which takes another version and reopens it.    *)
(***************************************************************************)

KeepsVersion(f) ==
  /\ workflows'[f].status # "absent"
  /\ workflows'[f].version = workflows[f].version
  /\ PlanStands(f)

Reopens(f) ==
  /\ workflows'[f].version = workflows[f].version + 1
  /\ workflows'[f].status \in {"running", "paused"}

WorkflowStep ==
  \A f \in Workflow : workflows[f].status # "absent" => KeepsVersion(f) \/ Reopens(f)

\* The workflows that the step completes.
Completed(f) == workflows'[f].status = "completed" /\ workflows[f].status # "completed"

CompletesNone == \A f \in Workflow : ~Completed(f)

LEMMA TransitionsAreStatuses ==
  ASSUME NEW from, NEW to, CanTransitionWorkflow(from, to)
  PROVE  to \in WorkflowStatus /\ from # "absent"
<1>1. from \in WorkflowStatus /\ to \in WorkflowTransitions[from]
  BY DEF CanTransitionWorkflow
<1>2. "absent" \notin WorkflowStatus
  BY DEF WorkflowStatus
<1>3. WorkflowTransitions[from] \subseteq WorkflowStatus
  BY <1>1 DEF WorkflowTransitions, WorkflowStatus
<1> QED
  BY <1>1, <1>2, <1>3

\* A compare-and-set of a status leaves the version and the other workflows.
LEMMA SetStatusRows ==
  ASSUME CoordinatorTypeOK, NEW f \in Workflow, NEW to, NEW expected, NEW version,
         NEW result \in {"null", "summary"},
         SetStatus(f, to, expected, version, result)
  PROVE  /\ workflows' \in [Workflow -> WorkflowRow]
         /\ workflows[f].version = version /\ workflows'[f].status = to
         /\ \A g \in Workflow : workflows[g].status # "absent" =>
              /\ workflows'[g].status # "absent"
              /\ workflows'[g].version = workflows[g].version
         /\ \A g \in Workflow \ {f} : workflows'[g] = workflows[g]
<1>1. to \in WorkflowStatus /\ "absent" \notin WorkflowStatus
  BY TransitionsAreStatuses DEF SetStatus, WorkflowStatus
<1>2. workflows[f] \in WorkflowRow
  BY DEF CoordinatorTypeOK
<1>3. /\ WithStatus(workflows[f], to, result) \in WorkflowRow
      /\ WithStatus(workflows[f], to, result).status = to
      /\ WithStatus(workflows[f], to, result).version = workflows[f].version
  BY <1>1, <1>2, NullTypes DEF WithStatus, WorkflowRow, Result
<1> QED
  BY <1>1, <1>3 DEF SetStatus, CoordinatorTypeOK

\* A result and a consultation leave status and version of every workflow.
LEMMA ResultRows ==
  ASSUME CoordinatorTypeOK, NEW f \in Workflow,
         \/ \E result \in Result : \E status, version, onlyIfEmpty :
              SetResult(f, result, status, version, onlyIfEmpty)
         \/ \E attention \in Attention : ClaimConsult(f, attention)
         \/ UNCHANGED workflows
  PROVE  /\ workflows' \in [Workflow -> WorkflowRow]
         /\ \A g \in Workflow : /\ workflows'[g].status = workflows[g].status
                                /\ workflows'[g].version = workflows[g].version
<1>1. workflows[f] \in WorkflowRow /\ workflows[f].consults + 1 \in Nat
  BY DEF CoordinatorTypeOK, WorkflowRow
<1>2. CASE \E result \in Result : \E status, version, onlyIfEmpty :
             SetResult(f, result, status, version, onlyIfEmpty)
  <2>1. PICK result \in Result : workflows' = [workflows EXCEPT ![f].result = result]
    BY <1>2 DEF SetResult
  <2>2. [workflows[f] EXCEPT !.result = result] \in WorkflowRow
    BY <1>1 DEF WorkflowRow
  <2> QED
    BY <1>1, <2>1, <2>2 DEF CoordinatorTypeOK, WorkflowRow
<1>3. CASE \E attention \in Attention : ClaimConsult(f, attention)
  <2>0. PICK attention \in Attention : ClaimConsult(f, attention)
    BY <1>3
  <2> DEFINE consults == workflows[f].consults + 1
             row == [workflows[f] EXCEPT !.attention = attention, !.consults = consults]
  <2>1. workflows' = [workflows EXCEPT ![f] = row]
    BY <1>1, <2>0 DEF ClaimConsult, CoordinatorTypeOK
  <2>2. row \in WorkflowRow /\ row.status = workflows[f].status
        /\ row.version = workflows[f].version
    <3>1. consults \in Nat
      BY <1>1
    <3> HIDE DEF consults
    <3> QED
      BY <1>1, <3>1 DEF WorkflowRow
  <2> HIDE DEF row
  <2> QED
    BY <2>1, <2>2 DEF CoordinatorTypeOK
<1>4. CASE UNCHANGED workflows
  BY <1>4 DEF CoordinatorTypeOK
<1> QED
  BY <1>2, <1>3, <1>4

LEMMA SamePlans ==
  ASSUME UNCHANGED tasks
  PROVE  \A f : PlanStands(f)
BY DEF PlanStands, CurrentTasks

\* The steps that conclude, consult, move and record.
LEMMA RecordTypes ==
  ASSUME CoordinatorTypeOK, ThreadsInv, NEW x \in Thread,
         \/ Conclude(x) \/ Claim(x) \/ FinishMove(x) \/ FinishRecord(x)
         \/ \E answered \in BOOLEAN : ConsultEnds(x, answered)
  PROVE  CoordinatorTypeOK' /\ WorkflowStep
<1>1. threads[x] \in ThreadState
  BY DEF CoordinatorTypeOK
<1>2. threads[x].wf \in Workflow
  BY DEF Conclude, Claim, FinishMove, FinishRecord, ConsultEnds, ThreadsInv, ThreadInv,
         InWorkflow
<1> DEFINE f == threads[x].wf
<1>3. \E s \in ThreadState : Becomes(x, s)
  <2>1. [threads[x] EXCEPT !.pc = "claim", !.churned = FALSE] \in ThreadState
        /\ \A pc \in ReconcilePc \cup FinishPc : [threads[x] EXCEPT !.pc = pc] \in ThreadState
    BY <1>1 DEF ThreadState, ReconcilePc
  <2> QED
    BY <2>1, IdleTypes
    DEF Conclude, Claim, FinishMove, FinishRecord, ConsultEnds, Idles, ReconcilePc, FinishPc
<1>4. threads' \in [Thread -> ThreadState]
  BY <1>3, BecomesTypes
<1>5. UNCHANGED <<tasks, attempts, pool, suspended, faults>>
  BY DEF Conclude, Claim, FinishMove, FinishRecord, ConsultEnds, Internal
<1>6. /\ workflows' \in [Workflow -> WorkflowRow]
      /\ \A g \in Workflow : workflows[g].status # "absent" =>
           /\ workflows'[g].status # "absent"
           /\ workflows'[g].version = workflows[g].version
  <2>1. CASE SetStatus(f, threads[x].target, {"running"}, threads[x].version, "null")
    BY <1>2, <2>1, SetStatusRows
  <2>2. CASE \/ \E result \in Result : \E status, version, onlyIfEmpty :
                  SetResult(f, result, status, version, onlyIfEmpty)
             \/ \E attention \in Attention : ClaimConsult(f, attention)
             \/ UNCHANGED workflows
    BY <1>2, <2>2, ResultRows
  <2>3. AttentionOf(x) \in Attention
    BY <1>1 DEF AttentionOf, Attention, ThreadState
  <2> QED
    BY <2>1, <2>2, <2>3
    DEF Conclude, Claim, FinishMove, FinishRecord, ConsultEnds, Result
<1>7. WorkflowStep
  BY <1>5, <1>6, SamePlans DEF WorkflowStep, KeepsVersion
<1> QED
  BY <1>4, <1>5, <1>6, <1>7 DEF CoordinatorTypeOK

LEMMA RowTyped ==
  ASSUME CoordinatorTypeOK, NEW t \in Task
  PROVE  tasks[t] \in TaskRow /\ \A active : Assignee(t, active) \in AgentOrNull
BY RepositoryAssumption DEF CoordinatorTypeOK, AgentOrNull, Assignee

LEMMA AttemptsTyped ==
  ASSUME CoordinatorTypeOK, NEW ts
  PROVE  CloseOpenAttempts(ts) \subseteq AttemptRow /\ InterruptAttempts(ts) \subseteq AttemptRow
<1>1. \A r \in attempts, s \in AttemptStatus :
        r \in AttemptRow /\ [r EXCEPT !.status = s] \in AttemptRow
  BY DEF CoordinatorTypeOK, AttemptRow
<1> QED
  BY <1>1 DEF CloseOpenAttempts, InterruptAttempts, AttemptStatus

\* The tools that move one status: publish, start, pause, resume, cancel, fail.
LEMMA CreateTypes ==
  ASSUME CoordinatorTypeOK, NEW f \in Workflow, Create(f)
  PROVE  CoordinatorTypeOK' /\ WorkflowStep /\ CompletesNone
<1>1. /\ workflows[f].status = "absent"
      /\ workflows' = [workflows EXCEPT ![f] =
           [AbsentWorkflow EXCEPT !.status = "ready", !.version = 1, !.job = Job]]
      /\ tasks' = [t \in Task |-> IF t \in FirstPlan[f]
                       THEN InsertTask(Assignee(t, pool), Job) ELSE tasks[t]]
      /\ UNCHANGED <<attempts, threads, pool, suspended, faults>>
  BY DEF Create, Publish, Internal
<1>2. [AbsentWorkflow EXCEPT !.status = "ready", !.version = 1, !.job = Job] \in WorkflowRow
      /\ [AbsentWorkflow EXCEPT !.status = "ready", !.version = 1, !.job = Job].status = "ready"
  BY NullTypes DEF AbsentWorkflow, WorkflowRow, WorkflowStatus, Job
<1>3. \A t \in Task : InsertTask(Assignee(t, pool), Job) \in TaskRow
  BY RowTyped, PendingTypes, NullTypes DEF Job
<1>4. CoordinatorTypeOK'
  BY <1>1, <1>2, <1>3 DEF CoordinatorTypeOK
<1>5. ASSUME NEW g \in Workflow, workflows[g].status # "absent"
      PROVE  KeepsVersion(g)
  <2>1. g # f /\ workflows'[g] = workflows[g]
    BY <1>1, <1>5 DEF CoordinatorTypeOK
  <2>2. \A t \in Task : WorkflowOf[t] = g => tasks[t]' = tasks[t]
    BY <1>1, <2>1, WorkflowAssumption
  <2>3. PlanStands(g)
    BY <2>2, RowsKeepPlans DEF RowWrite, CoordinatorTypeOK
  <2> QED
    BY <1>5, <2>1, <2>3 DEF KeepsVersion
<1>6. CompletesNone
  BY <1>1, <1>2 DEF CompletesNone, Completed, CoordinatorTypeOK
<1> QED
  BY <1>4, <1>5, <1>6 DEF WorkflowStep

LEMMA StatusTypes ==
  ASSUME CoordinatorTypeOK, NEW f \in Workflow,
         NEW to, NEW expected, NEW result \in {"null", "summary"},
         to # "completed",
         SetStatus(f, to, expected, workflows[f].version, result),
         \/ UNCHANGED <<tasks, attempts>>
         \/ SetStatusAndCancel(f, to, expected, workflows[f].version, result),
         UNCHANGED <<threads, pool, suspended, faults>>
  PROVE  CoordinatorTypeOK' /\ WorkflowStep /\ CompletesNone
<1>1. /\ workflows' \in [Workflow -> WorkflowRow]
      /\ workflows'[f].status = to
      /\ \A g \in Workflow : workflows[g].status # "absent" =>
           /\ workflows'[g].status # "absent"
           /\ workflows'[g].version = workflows[g].version
      /\ \A g \in Workflow \ {f} : workflows'[g] = workflows[g]
  BY SetStatusRows
<1>2. ASSUME NEW t \in Task
      PROVE  RowWrite(tasks[t], tasks[t]') /\ tasks[t]' \in TaskRow
  <2>1. tasks[t]' = tasks[t] \/ tasks[t]' = CancelTask(tasks[t])
    BY DEF SetStatusAndCancel
  <2> QED
    BY <2>1, RowTyped, PendingTypes, NullTypes DEF RowWrite, BatchWrite
<1>3. tasks' \in [Task -> TaskRow]
  <2>1. CASE UNCHANGED tasks
    BY <2>1 DEF CoordinatorTypeOK
  <2>2. CASE SetStatusAndCancel(f, to, expected, workflows[f].version, result)
    BY <1>2, <2>2 DEF SetStatusAndCancel
  <2> QED
    BY <2>1, <2>2
<1>4. attempts' \subseteq AttemptRow
  BY AttemptsTyped DEF SetStatusAndCancel, CoordinatorTypeOK
<1>5. \A g \in Workflow : PlanStands(g)
  BY <1>2, RowsKeepPlans DEF CoordinatorTypeOK
<1>6. WorkflowStep /\ CompletesNone
  BY <1>1, <1>5 DEF WorkflowStep, KeepsVersion, CompletesNone, Completed
<1> QED
  BY <1>1, <1>3, <1>4, <1>6 DEF CoordinatorTypeOK

LEMMA MoveTypes ==
  ASSUME CoordinatorTypeOK, NEW f \in Workflow,
         Start(f) \/ Pause(f) \/ Resume(f) \/ Cancel(f) \/ FinishFailed(f)
  PROVE  CoordinatorTypeOK' /\ WorkflowStep /\ CompletesNone
<1>1. ASSUME NEW to, NEW expected, Moves(f, to, expected), to # "completed"
      PROVE  CoordinatorTypeOK' /\ WorkflowStep /\ CompletesNone
  BY <1>1, StatusTypes DEF Moves, Internal
<1>2. ASSUME NEW to, NEW expected, NEW result \in {"null", "summary"},
             Stops(f, to, expected, result), to # "completed"
      PROVE  CoordinatorTypeOK' /\ WorkflowStep /\ CompletesNone
  <2>1. SetStatus(f, to, expected, workflows[f].version, result)
    BY <1>2 DEF Stops, SetStatusAndCancel
  <2> QED
    BY <1>2, <2>1, StatusTypes DEF Stops, Internal
<1> QED
  BY <1>1, <1>2 DEF Start, Pause, Resume, Cancel, FinishFailed

LEMMA ReplanTypes ==
  ASSUME CoordinatorTypeOK, NEW f \in Workflow, NEW kept, NEW fresh,
         ReplanWorkflow(f, kept, fresh)
  PROVE  CoordinatorTypeOK' /\ WorkflowStep /\ CompletesNone
<1> DEFINE retired == CurrentTasks(f) \ kept
<1>1. /\ tasks' = [t \in Task |->
           IF t \in retired THEN [CancelTask(tasks[t]) EXCEPT !.superseded = TRUE]
           ELSE IF t \in fresh THEN InsertTask(Assignee(t, pool), workflows[f].job)
           ELSE tasks[t]]
      /\ attempts' = CloseOpenAttempts(Cancellable(retired))
      /\ workflows' = [workflows EXCEPT ![f] = Replanned(workflows[f])]
      /\ fresh \subseteq { t \in Task : WorkflowOf[t] = f /\ tasks[t].status = "absent" }
      /\ UNCHANGED <<threads, pool, suspended, faults>>
  BY DEF ReplanWorkflow, Replan, Insertable, Internal
<1>2. workflows[f] \in WorkflowRow /\ workflows[f].job \in Nat
      /\ workflows[f].version \in Nat /\ workflows[f].version + 1 \in Nat
  BY DEF CoordinatorTypeOK, WorkflowRow
<1>3. ASSUME NEW t \in Task PROVE tasks[t]' \in TaskRow
  <2>1. CASE t \in retired
    <3>1. Retirement(tasks[t], tasks[t]')
      BY <1>1, <2>1 DEF Retirement
    <3> QED
      BY <3>1, RowTyped, BatchTypes
  <2>2. CASE t \notin retired
    BY <1>1, <1>2, <2>2, RowTyped, PendingTypes
  <2> QED
    BY <2>1, <2>2
<1>4. Replanned(workflows[f]) \in WorkflowRow
      /\ Replanned(workflows[f]).version = workflows[f].version + 1
      /\ Replanned(workflows[f]).status \in {"running", "paused"}
  BY <1>2, NullTypes DEF Replanned, WorkflowRow, WorkflowStatus, Result
<1>5. CoordinatorTypeOK'
  BY <1>1, <1>3, <1>4, AttemptsTyped DEF CoordinatorTypeOK
<1>6. Reopens(f)
  BY <1>1, <1>4 DEF Reopens, CoordinatorTypeOK
<1>7. ASSUME NEW g \in Workflow, g # f, workflows[g].status # "absent"
      PROVE  KeepsVersion(g)
  <2>1. workflows'[g] = workflows[g]
    BY <1>1, <1>7 DEF CoordinatorTypeOK
  <2>2. \A t \in Task : WorkflowOf[t] = g => tasks[t]' = tasks[t]
    BY <1>1, <1>7 DEF CurrentTasks
  <2>3. PlanStands(g)
    BY <2>2, RowsKeepPlans DEF RowWrite, CoordinatorTypeOK
  <2> QED
    BY <1>7, <2>1, <2>3 DEF KeepsVersion
<1>8. CompletesNone
  BY <1>1, <1>4 DEF CompletesNone, Completed, CoordinatorTypeOK
<1> QED
  BY <1>5, <1>6, <1>7, <1>8 DEF WorkflowStep

\* The writes on the row of one task, whoever makes them.
LEMMA RowStepTypes ==
  ASSUME CoordinatorTypeOK, NEW t \in Task, NEW s,
         RowWrite(tasks[t], s) \/ ClaimWrite(tasks[t], s),
         s \in TaskRow, tasks' = [tasks EXCEPT ![t] = s],
         UNCHANGED workflows
  PROVE  tasks' \in [Task -> TaskRow] /\ WorkflowStep /\ CompletesNone
<1>1. \A u \in Task : RowWrite(tasks[u], tasks[u]') \/ ClaimWrite(tasks[u], tasks[u]')
  BY DEF RowWrite, CoordinatorTypeOK
<1>2. \A g \in Workflow : PlanStands(g)
  BY <1>1, RowsKeepPlans DEF CoordinatorTypeOK
<1> QED
  BY <1>2 DEF WorkflowStep, KeepsVersion, CompletesNone, Completed, CoordinatorTypeOK

LEMMA TaskTypes ==
  ASSUME CoordinatorTypeOK, NEW t \in Task, TaskStep(t)
  PROVE  CoordinatorTypeOK' /\ WorkflowStep /\ CompletesNone /\ UNCHANGED threads
<1> DEFINE row == tasks[t]
<1>1. row \in TaskRow /\ row.owner \in AgentOrNull
      /\ row.reviewer \in AgentOrNull /\ NoDelivery \in Delivery
      /\ NoAgent \in AgentOrNull /\ Available \subseteq Agent
      /\ AnyAttempt \in SUBSET Nat /\ TaskStatus \in SUBSET TaskStatus
  BY RowTyped, NullTypes, AgentTypes DEF TaskRow, AnyAttempt
<1>2. ASSUME NEW s, WritesRow(t, s),
             s = row \/ HandlerWrite(row, s) \/ ClaimWrite(row, s),
             NoFault \/ Fault
      PROVE  CoordinatorTypeOK' /\ WorkflowStep /\ CompletesNone /\ UNCHANGED threads
  <2>1. s \in TaskRow
    <3>1. CASE ClaimWrite(row, s)
      <4>1. \A agent \in Agent : ClaimTask(row, agent) \in TaskRow
                                /\ ClaimReviewTask(row, agent) \in TaskRow
        BY <1>1, NullTypes, WriteTypes
      <4> QED
        BY <3>1, <4>1 DEF ClaimWrite
    <3> QED
      BY <1>1, <1>2, <3>1, HandlerWriteTypes
  <2>2. tasks' \in [Task -> TaskRow] /\ WorkflowStep /\ CompletesNone
    <3>1. RowWrite(row, s) \/ ClaimWrite(row, s)
      BY <1>2 DEF RowWrite
    <3>2. tasks' = [tasks EXCEPT ![t] = s] /\ UNCHANGED workflows
      BY <1>2 DEF WritesRow
    <3> QED
      BY <2>1, <3>1, <3>2, RowStepTypes
  <2>3. faults' \in 0..MaxFaults
    BY <1>2, CoordinatorAssumption DEF NoFault, Fault, CoordinatorTypeOK
  <2> QED
    BY <1>2, <2>2, <2>3 DEF WritesRow, CoordinatorTypeOK
<1>3. ASSUME NEW agent \in Agent, ClaimExecution(t, agent)
      PROVE  WritesRow(t, ClaimTask(row, agent)) /\ ClaimWrite(row, ClaimTask(row, agent))
  BY <1>3 DEF ClaimExecution, IsFirst, Claimable, ClaimWrite
<1>4. ASSUME NEW agent \in Agent, ClaimReview(t, agent)
      PROVE  /\ WritesRow(t, ClaimReviewTask(row, agent))
             /\ ClaimWrite(row, ClaimReviewTask(row, agent))
  BY <1>4 DEF ClaimReview, IsFirst, Reviewable, ClaimWrite
<1>5. DeliverTask(t) => \E s : WritesRow(t, s) /\ HandlerWrite(row, s)
  <2>1. DeliverTask(t) => \/ WritesRow(t, SubmitForReview(row, AnyAttempt, NoDelivery))
                          \/ WritesRow(t, CompleteTask(row, AnyAttempt, NoDelivery, NoAgent))
    BY DEF DeliverTask
  <2> QED
    BY <1>1, <2>1 DEF HandlerWrite
<1>6. HandOffTask(t) => \E s : WritesRow(t, s) /\ HandlerWrite(row, s)
  <2>1. HandOffTask(t) =>
          \/ WritesRow(t, RequeueTask(row, AnyAttempt, row.owner, FALSE))
          \/ /\ row.owner \in Available
             /\ WritesRow(t, RequeueTask(row, AnyAttempt, row.owner, TRUE))
          \/ WritesRow(t, FailTask(row, AnyAttempt, TaskStatus))
    BY DEF HandOffTask
  <2> QED
    BY <1>1, <2>1 DEF HandlerWrite
<1>7. AcceptDelivery(t) \/ RejectDelivery(t) => \E s : WritesRow(t, s) /\ HandlerWrite(row, s)
  BY <1>1 DEF AcceptDelivery, RejectDelivery, HandlerWrite
<1>8. ReviewFails(t) => \E s : WritesRow(t, s) /\ HandlerWrite(row, s)
  <2> DEFINE exclude == row.reviewer \in Available
  <2>1. ReviewFails(t) => WritesRow(t, ReturnReview(row, AnyAttempt, row.reviewer, exclude))
    BY DEF ReviewFails
  <2>2. exclude \in BOOLEAN /\ (exclude => row.reviewer \in Agent)
    BY <1>1
  <2> HIDE DEF exclude
  <2> QED
    BY <1>1, <2>1, <2>2 DEF HandlerWrite
<1>9. NoFault \/ Fault
  BY DEF TaskStep, ClaimExecution, ClaimReview, DeliverTask, HandOffTask, AcceptDelivery,
         RejectDelivery, ReviewFails
<1> QED
  BY <1>2, <1>3, <1>4, <1>5, <1>6, <1>7, <1>8, <1>9 DEF TaskStep

\* The rows that a reconcile requeues and settles.
LEMMA SettleTypes ==
  ASSUME CoordinatorTypeOK, ThreadsInv, NEW x \in Thread,
         RequeueExpired(x) \/ \E t \in Task : SettleTask(x, t)
  PROVE  CoordinatorTypeOK' /\ WorkflowStep /\ CompletesNone
<1>1. threads[x] \in ThreadState
  BY DEF CoordinatorTypeOK
<1>2. UNCHANGED <<workflows, pool, suspended, faults>>
  BY DEF RequeueExpired, RequeueOrphan, SettleTask, Internal, db
<1>3. attempts' \subseteq AttemptRow
  BY AttemptsTyped DEF RequeueExpired, RequeueOrphan, SettleTask, db, CoordinatorTypeOK
<1>4. threads' \in [Thread -> ThreadState]
  <2>1. CASE RequeueExpired(x)
    <3>1. [IdleThread EXCEPT !.pc = "snapshot", !.wf = threads[x].wf] \in ThreadState
      BY <1>1, IdleTypes DEF ThreadState, ReconcilePc
    <3> QED
      BY <2>1, <3>1, BecomesTypes DEF RequeueExpired
  <2>2. ASSUME NEW t \in Task, SettleTask(x, t)
        PROVE  threads' \in [Thread -> ThreadState]
    <3> DEFINE changed == threads[x].changed \/ Settled(x, t) # tasks[t]
               todo == threads[x].todo \ {t}
               s == [threads[x] EXCEPT !.todo = todo, !.changed = changed]
    <3>1. todo \in SUBSET Task /\ changed \in BOOLEAN
      BY <1>1 DEF ThreadState
    <3>2. s \in ThreadState
      <4> HIDE DEF changed, todo
      <4> QED
        BY <1>1, <3>1 DEF ThreadState
    <3>3. Becomes(x, Proceeds(s))
      BY <2>2 DEF SettleTask
    <3> HIDE DEF s
    <3> QED
      BY <3>2, <3>3, ProceedsTypes, BecomesTypes
  <2> QED
    BY <2>1, <2>2
<1>5. \/ UNCHANGED tasks
      \/ \E t \in Task : \E s : /\ tasks' = [tasks EXCEPT ![t] = s]
                                 /\ RowWrite(tasks[t], s) /\ s \in TaskRow
  <2>1. ASSUME NEW t \in Task, BatchWrite(tasks[t], RequeueInterrupted(tasks[t]))
        PROVE  RequeueInterrupted(tasks[t]) \in TaskRow
    BY <2>1, RowTyped, BatchTypes
  <2>2. CASE RequeueExpired(x)
    <3>1. \/ UNCHANGED tasks
          \/ \E t \in Task : tasks' = [tasks EXCEPT ![t] = RequeueInterrupted(tasks[t])]
      BY <1>1, <2>2 DEF RequeueExpired, RequeueOrphan, db, ThreadState
    <3> QED
      BY <2>1, <3>1 DEF RowWrite, BatchWrite
  <2>3. ASSUME NEW t \in Task, SettleTask(x, t)
        PROVE  RowWrite(tasks[t], Settled(x, t)) /\ Settled(x, t) \in TaskRow
    <3>1. threads[x].seen[t].owner \in AgentOrNull
      BY <1>1 DEF ThreadState
    <3>2. AnyAttempt \in SUBSET Nat /\ {"pending"} \in SUBSET TaskStatus
      BY DEF AnyAttempt, TaskStatus
    <3>3. \/ Settled(x, t) = UnassignPending(tasks[t], threads[x].seen[t].owner)
          \/ Settled(x, t) = FailTask(tasks[t], AnyAttempt, {"pending"})
          \/ Settled(x, t) = tasks[t]
      BY DEF Settled
    <3>4. UnassignPending(tasks[t], threads[x].seen[t].owner) \in TaskRow
          /\ FailTask(tasks[t], AnyAttempt, {"pending"}) \in TaskRow
      BY <3>1, RowTyped, FailTypes, PendingTypes
    <3> QED
      BY <3>1, <3>2, <3>3, <3>4, RowTyped DEF RowWrite, BatchWrite, HandlerWrite
  <2>4. ASSUME NEW t \in Task, SettleTask(x, t)
        PROVE  tasks' = [tasks EXCEPT ![t] = Settled(x, t)]
    BY <2>4 DEF SettleTask
  <2> QED
    BY <2>2, <2>3, <2>4
<1>6. tasks' \in [Task -> TaskRow] /\ WorkflowStep /\ CompletesNone
  <2>1. CASE UNCHANGED tasks
    BY <1>2, <2>1, SamePlans
    DEF WorkflowStep, KeepsVersion, CompletesNone, Completed, CoordinatorTypeOK
  <2> QED
    BY <1>2, <1>5, <2>1, RowStepTypes
<1> QED
  BY <1>2, <1>3, <1>4, <1>6 DEF CoordinatorTypeOK
Membership ==
  \E a \in Agent : Leaves(a) \/ Joins(a) \/ Suspends(a) \/ CooldownEnds(a)

\* A thread that did not act has at most learned that the pool changed.
Bystander(x) ==
  threads'[x] = threads[x] \/ threads'[x] = [threads[x] EXCEPT !.churned = TRUE]

LEMMA PoolTypes ==
  ASSUME CoordinatorTypeOK, Membership
  PROVE  /\ CoordinatorTypeOK' /\ WorkflowStep /\ CompletesNone
         /\ \A x \in Thread : Bystander(x)
<1>1. UNCHANGED db
  BY DEF Membership, Leaves, Joins, Suspends, CooldownEnds
<1>2. pool' \subseteq Agent /\ suspended' \subseteq Agent
  BY DEF Membership, Leaves, Joins, Suspends, CooldownEnds, Available, CoordinatorTypeOK
<1>3. faults' \in 0..MaxFaults
  BY CoordinatorAssumption
  DEF Membership, Leaves, Joins, Suspends, CooldownEnds, Fault, NoFault, CoordinatorTypeOK
<1>4. Churns \/ UNCHANGED threads
  BY DEF Membership, Leaves, Joins, Suspends, CooldownEnds
<1>5. threads' \in [Thread -> ThreadState] /\ \A x \in Thread : Bystander(x)
  <2>1. \A x \in Thread : threads[x] \in ThreadState
                          /\ [threads[x] EXCEPT !.churned = TRUE] \in ThreadState
    BY DEF CoordinatorTypeOK, ThreadState
  <2> QED
    BY <1>4, <2>1 DEF Churns, Bystander, CoordinatorTypeOK
<1>6. WorkflowStep /\ CompletesNone
  BY <1>1, SamePlans
  DEF db, WorkflowStep, KeepsVersion, CompletesNone, Completed, CoordinatorTypeOK
<1> QED
  BY <1>1, <1>2, <1>3, <1>5, <1>6 DEF CoordinatorTypeOK, db

(***************************************************************************)
(* The threads.                                                            *)
(***************************************************************************)

\* What a thread holds keeps its worth through the steps of the others.
LEMMA OthersStand ==
  ASSUME CoordinatorTypeOK, WorkflowStep, NEW x \in Thread, ThreadInv(x), Bystander(x),
         workflows' \in [Workflow -> WorkflowRow]
  PROVE  ThreadInv(x)'
<1>1. threads[x] \in ThreadState
  BY DEF CoordinatorTypeOK
<1>2. /\ threads'[x].pc = threads[x].pc /\ threads'[x].wf = threads[x].wf
      /\ threads'[x].version = threads[x].version /\ threads'[x].seen = threads[x].seen
      /\ threads'[x].target = threads[x].target
  BY <1>1 DEF Bystander, ThreadState
<1>3. CASE threads[x].pc = "idle"
  BY <1>2, <1>3 DEF ThreadInv, InWorkflow, SnapshotStands, DecisionStands
<1>4. CASE threads[x].pc # "idle"
  <2> PICK f \in Workflow : f = threads[x].wf
    BY <1>4 DEF ThreadInv, InWorkflow
  <2>1. workflows[f].status # "absent" /\ threads[x].version <= workflows[f].version
    BY <1>4 DEF ThreadInv, InWorkflow
  <2>2. threads[x].version \in Nat /\ workflows[f].version \in Nat
    BY <1>1, <2>1 DEF ThreadState, CoordinatorTypeOK, WorkflowRow
  <2>3. CASE KeepsVersion(f)
    <3>1. InWorkflow(x)'
      BY <1>2, <2>1, <2>3 DEF InWorkflow, KeepsVersion
    <3>2. UpToDate(x)' => UpToDate(x)
      BY <1>2, <2>3 DEF UpToDate, KeepsVersion
    <3>3. SnapshotStands(x)'
      <4> SUFFICES ASSUME threads[x].pc \in {"settle", "decide"}, UpToDate(x),
                          NEW t \in Task, t \in CurrentTasks(f)'
                   PROVE  /\ threads[x].seen[t].status # "absent"
                          /\ threads[x].seen[t].status = "completed" =>
                               tasks[t]'.status = "completed"
        BY <1>2, <3>2 DEF SnapshotStands, CurrentTasks
      <4> QED
        BY <2>3 DEF ThreadInv, SnapshotStands, KeepsVersion, PlanStands
    <3>4. DecisionStands(x)'
      <4> SUFFICES ASSUME threads[x].pc \in {"conclude", "move"}, UpToDate(x),
                          threads[x].target = "completed",
                          NEW t \in Task, t \in CurrentTasks(f)'
                   PROVE  tasks[t]'.status = "completed"
        BY <1>2, <3>2 DEF DecisionStands, PlanAccepted, CurrentTasks
      <4> QED
        BY <2>3 DEF ThreadInv, DecisionStands, PlanAccepted, KeepsVersion, PlanStands
    <3> QED
      BY <3>1, <3>3, <3>4 DEF ThreadInv
  <2>4. CASE Reopens(f)
    <3>1. ~UpToDate(x)'
      BY <1>2, <2>1, <2>2, <2>4 DEF UpToDate, Reopens
    <3>2. InWorkflow(x)'
      BY <1>2, <2>1, <2>2, <2>4 DEF InWorkflow, Reopens
    <3> QED
      BY <3>1, <3>2 DEF ThreadInv, SnapshotStands, DecisionStands
  <2>5. KeepsVersion(f) \/ Reopens(f)
    BY <2>1 DEF WorkflowStep
  <2> QED
    BY <2>3, <2>4, <2>5
<1> QED
  BY <1>3, <1>4

\* A thread between two transactions that holds neither a snapshot nor a
\* decision.
LEMMA EmptyHanded ==
  ASSUME CoordinatorTypeOK, WorkflowStep, NEW x \in Thread, ThreadInv(x),
         NEW s \in ThreadState, Becomes(x, s),
         s.pc \notin {"settle", "decide", "conclude", "move"},
         \/ s.pc = "idle"
         \/ /\ threads[x].pc # "idle" /\ s.wf = threads[x].wf
            /\ s.version = threads[x].version \/ s.version = 0
         \/ /\ s.wf \in Workflow /\ workflows[s.wf].status # "absent"
            /\ s.version <= workflows[s.wf].version,
         workflows' \in [Workflow -> WorkflowRow]
  PROVE  ThreadInv(x)'
<1>1. threads'[x] = s
  BY DEF Becomes, CoordinatorTypeOK
<1>2. SnapshotStands(x)' /\ DecisionStands(x)'
  BY <1>1 DEF SnapshotStands, DecisionStands
<1>3. CASE s.pc = "idle"
  BY <1>1, <1>2, <1>3 DEF ThreadInv, InWorkflow
<1>4. CASE s.pc # "idle"
  <2>1. s.wf \in Workflow /\ workflows[s.wf].status # "absent" /\ s.version \in Nat
        /\ workflows[s.wf].version \in Nat /\ workflows'[s.wf].version \in Nat
    BY <1>4 DEF ThreadInv, InWorkflow, ThreadState, CoordinatorTypeOK, WorkflowRow
  <2>2. s.version <= workflows[s.wf].version
    <3>1. CASE s.version = 0
      BY <2>1, <3>1
    <3>2. CASE s.wf = threads[x].wf /\ s.version = threads[x].version /\ threads[x].pc # "idle"
      BY <3>2 DEF ThreadInv, InWorkflow
    <3> QED
      BY <1>4, <3>1, <3>2
  <2>3. workflows'[s.wf].status # "absent"
        /\ workflows[s.wf].version <= workflows'[s.wf].version
    BY <2>1 DEF WorkflowStep, KeepsVersion, Reopens, PlanStands, CurrentTasks
  <2>4. s.version <= workflows'[s.wf].version
    BY <2>1, <2>2, <2>3
  <2> QED
    BY <1>1, <1>2, <2>1, <2>3, <2>4 DEF ThreadInv, InWorkflow
<1> QED
  BY <1>3, <1>4

LEMMA SnapshotRows ==
  ASSUME CoordinatorTypeOK, NEW f \in Workflow, NEW t \in CurrentTasks(f)
  PROVE  /\ Snapshot(f)[t].status = tasks[t].status
         /\ tasks[t].status # "absent"
BY DEF CurrentTasks, Snapshot, View

\* A thread that has just read a snapshot of its workflow.
LEMMA FreshSnapshot ==
  ASSUME CoordinatorTypeOK, UNCHANGED db, NEW x \in Thread, NEW f \in Workflow,
         workflows[f].status # "absent",
         threads'[x].wf = f, threads'[x].seen = Snapshot(f),
         threads'[x].version = workflows[f].version,
         threads'[x].pc \in {"settle", "decide"}
  PROVE  ThreadInv(x)'
<1>1. workflows[f].version \in Nat
  BY DEF CoordinatorTypeOK, WorkflowRow
<1>2. InWorkflow(x)'
  BY <1>1 DEF InWorkflow, db
<1>3. SnapshotStands(x)'
  <2> SUFFICES ASSUME NEW t \in CurrentTasks(f)'
               PROVE  /\ Snapshot(f)[t].status # "absent"
                      /\ Snapshot(f)[t].status = "completed" => tasks'[t].status = "completed"
    BY DEF SnapshotStands
  <2>1. t \in CurrentTasks(f) /\ tasks' = tasks
    BY DEF CurrentTasks, db
  <2> QED
    BY <2>1, SnapshotRows
<1>4. DecisionStands(x)'
  BY DEF DecisionStands
<1> QED
  BY <1>2, <1>3, <1>4 DEF ThreadInv

\* What a thread holds after its snapshot.
LEMMA SnapshotThread ==
  ASSUME CoordinatorTypeOK, NEW x \in Thread, TakeSnapshot(x), NEW f \in Workflow,
         f = threads[x].wf
  PROVE  /\ threads'[x].pc \in {"settle", "decide"} /\ threads'[x].seen = Snapshot(f)
         /\ threads'[x].version = workflows[f].version /\ threads'[x].wf = f
<1>1. threads[x] \in ThreadState /\ threads[x].pc = "snapshot"
  BY DEF CoordinatorTypeOK, TakeSnapshot
<1> DEFINE seen == Snapshot(f)
           version == workflows[f].version
           ready == { t \in Task : ReadyIn(seen, t) }
           row == [threads[x] EXCEPT !.pc = "settle", !.seen = seen, !.version = version,
                     !.todo = ready, !.active = pool, !.available = Available,
                     !.churned = FALSE]
<1>2. CASE threads[x].changed
  <2>1. threads'[x] = [threads[x] EXCEPT !.pc = "decide", !.seen = seen, !.changed = FALSE,
                                         !.version = version, !.churned = FALSE]
    BY <1>2 DEF TakeSnapshot, Becomes, Rereads, CoordinatorTypeOK
  <2>2. /\ threads'[x].pc = "decide" /\ threads'[x].seen = seen
        /\ threads'[x].version = version /\ threads'[x].wf = f
    <3> HIDE DEF seen, version
    <3> QED
      BY <1>1, <2>1 DEF ThreadState
  <2> QED
    BY <2>2
<1>3. CASE ~threads[x].changed
  <2>1. threads'[x] = Proceeds(row)
    BY <1>3 DEF TakeSnapshot, Becomes, Settles, CoordinatorTypeOK
  <2>2. /\ row.pc = "settle" /\ row.seen = seen /\ row.version = version
        /\ row.wf = f /\ row.todo = ready /\ row.changed = FALSE
    <3> HIDE DEF seen, version, ready
    <3> QED
      BY <1>1, <1>3 DEF ThreadState
  <2>3. [row EXCEPT !.pc = "decide", !.active = {}, !.available = {}].pc = "decide"
        /\ [row EXCEPT !.pc = "decide", !.active = {}, !.available = {}].seen = row.seen
        /\ [row EXCEPT !.pc = "decide", !.active = {}, !.available = {}].version = row.version
        /\ [row EXCEPT !.pc = "decide", !.active = {}, !.available = {}].wf = row.wf
    <3> HIDE DEF seen, version, ready
    <3> QED
      BY <1>1 DEF ThreadState
  <2>4. threads'[x].pc \in {"settle", "decide"} /\ threads'[x].seen = seen
        /\ threads'[x].version = version /\ threads'[x].wf = f
    <3> HIDE DEF row, seen, version
    <3> QED
      BY <2>1, <2>2, <2>3 DEF Proceeds
  <2> QED
    BY <2>4
<1> QED
  BY <1>2, <1>3

LEMMA SnapshotStep ==
  ASSUME CoordinatorTypeOK, NEW x \in Thread, ThreadInv(x), TakeSnapshot(x),
         CoordinatorTypeOK', WorkflowStep
  PROVE  ThreadInv(x)'
<1>1. PICK f \in Workflow : f = threads[x].wf /\ workflows[f].status # "absent"
  BY DEF TakeSnapshot, ThreadInv, InWorkflow
<1>2. UNCHANGED db
  BY DEF TakeSnapshot
<1> QED
  BY <1>1, <1>2, SnapshotThread, FreshSnapshot

LEMMA DecideStep ==
  ASSUME CoordinatorTypeOK, NEW x \in Thread, ThreadInv(x), Decide(x),
         CoordinatorTypeOK', WorkflowStep
  PROVE  ThreadInv(x)'
<1>1. PICK f \in Workflow : f = threads[x].wf /\ workflows[f].status # "absent"
                            /\ threads[x].version <= workflows[f].version
  BY DEF Decide, ThreadInv, InWorkflow
<1>2. threads[x] \in ThreadState /\ UNCHANGED db /\ threads[x].pc = "decide"
  BY DEF CoordinatorTypeOK, Decide
<1>3. CASE Idles(x)
  <2>1. threads'[x].pc = "idle"
    BY <1>3, IdleTypes DEF Idles, Becomes, CoordinatorTypeOK
  <2> QED
    BY <2>1 DEF ThreadInv, InWorkflow, SnapshotStands, DecisionStands
<1>4. ASSUME NEW target, NEW failed, Becomes(x, Decided(x, target, failed)),
             target = "completed" =>
               \A t \in InPlan(threads[x].seen) : threads[x].seen[t].status = "completed"
      PROVE  ThreadInv(x)'
  <2>1. threads'[x] = Decided(x, target, failed)
    BY <1>4 DEF Becomes, CoordinatorTypeOK
  <2>2. /\ threads'[x].pc = "conclude" /\ threads'[x].target = target /\ threads'[x].wf = f
        /\ threads'[x].version = threads[x].version
    BY <1>1, <1>2, <2>1 DEF Decided, ThreadState
  <2>3. InWorkflow(x)' /\ SnapshotStands(x)'
    BY <1>1, <1>2, <2>2 DEF InWorkflow, SnapshotStands, db
  <2>4. DecisionStands(x)'
    <3> SUFFICES ASSUME UpToDate(x), target = "completed", NEW t \in CurrentTasks(f)'
                 PROVE  tasks'[t].status = "completed"
      BY <1>1, <1>2, <2>2 DEF DecisionStands, PlanAccepted, UpToDate, db
    <3>1. t \in CurrentTasks(f) /\ tasks' = tasks
      BY <1>2 DEF CurrentTasks, db
    <3>2. threads[x].seen[t].status # "absent"
          /\ (threads[x].seen[t].status = "completed" => tasks[t].status = "completed")
      BY <1>1, <1>2, <3>1 DEF ThreadInv, SnapshotStands
    <3>3. threads[x].seen[t].status = "completed"
      BY <1>4, <3>1, <3>2 DEF InPlan, CurrentTasks
    <3> QED
      BY <3>1, <3>2, <3>3
  <2> QED
    BY <2>3, <2>4 DEF ThreadInv
<1>5. \/ /\ \A t \in InPlan(threads[x].seen) : threads[x].seen[t].status = "completed"
         /\ Becomes(x, Decided(x, "completed", {}))
      \/ Idles(x)
      \/ Becomes(x, Decided(x, "blocked",
           { t \in InPlan(threads[x].seen) : threads[x].seen[t].status \in Dead }))
  BY DEF Decide
<1> QED
  BY <1>3, <1>4, <1>5

LEMMA FinishChecks ==
  ASSUME CoordinatorTypeOK, NEW c \in Thread, NEW f \in Workflow,
         FinishCompleted(c, f) \/ FinishBlocked(c, f)
  PROVE  ThreadInv(c)'
<1>1. workflows[f].status # "absent" /\ workflows[f].version \in Nat /\ UNCHANGED db
  BY DEF FinishCompleted, FinishBlocked, CoordinatorTypeOK, WorkflowRow
<1>2. PICK pc \in {"move", "record"}, target \in {"completed", "blocked"} :
        /\ Finishes(c, f, pc, target)
        /\ target = "completed" => PlanAccepted(f)
  BY DEF FinishCompleted, FinishBlocked, PlanAccepted
<1>3. threads'[c].pc = pc /\ threads'[c].wf = f /\ threads'[c].target = target
      /\ threads'[c].version = workflows[f].version
  BY <1>2 DEF Finishes, Becomes, IdleThread, CoordinatorTypeOK
<1>4. PlanAccepted(f) => \A t \in CurrentTasks(f)' : tasks'[t].status = "completed"
  BY <1>1 DEF PlanAccepted, CurrentTasks, db
<1> QED
  BY <1>1, <1>2, <1>3, <1>4
  DEF ThreadInv, InWorkflow, SnapshotStands, DecisionStands, PlanAccepted, db

\* What a thread holds after it settled a task: what it held, or a new round.
LEMMA SettleThread ==
  ASSUME CoordinatorTypeOK, NEW x \in Thread, NEW t \in Task, SettleTask(x, t)
  PROVE  /\ threads'[x].wf = threads[x].wf
         /\ \/ threads'[x].pc = "snapshot" /\ threads'[x].version = 0
            \/ /\ threads'[x].pc \in {"settle", "decide"}
               /\ threads'[x].seen = threads[x].seen
               /\ threads'[x].version = threads[x].version
               /\ threads'[x].churned = threads[x].churned
<1>1. threads[x] \in ThreadState /\ threads[x].pc = "settle"
  BY DEF CoordinatorTypeOK, SettleTask
<1> DEFINE changed == threads[x].changed \/ Settled(x, t) # tasks[t]
           todo == threads[x].todo \ {t}
           s == [threads[x] EXCEPT !.todo = todo, !.changed = changed]
<1>2. threads'[x] = Proceeds(s)
  BY DEF SettleTask, Becomes, CoordinatorTypeOK
<1>3. /\ s.pc = "settle" /\ s.seen = threads[x].seen /\ s.version = threads[x].version
      /\ s.wf = threads[x].wf /\ s \in ThreadState
      /\ s.churned = threads[x].churned
  <2>1. todo \in SUBSET Task /\ changed \in BOOLEAN
    BY <1>1 DEF ThreadState
  <2> HIDE DEF todo, changed
  <2> QED
    BY <1>1, <2>1 DEF ThreadState
<1> DEFINE again == [IdleThread EXCEPT !.pc = "snapshot", !.wf = s.wf, !.changed = TRUE]
           decide == [s EXCEPT !.pc = "decide", !.active = {}, !.available = {}]
<1>4. again.pc = "snapshot" /\ again.wf = s.wf /\ again.version = 0
  BY DEF IdleThread
<1>5. decide.pc = "decide" /\ decide.wf = s.wf /\ decide.seen = s.seen
      /\ decide.version = s.version /\ decide.churned = s.churned
  <2> HIDE DEF s
  <2> QED
    BY <1>3 DEF ThreadState
<1>6. threads'[x] = s \/ threads'[x] = again \/ threads'[x] = decide
  BY <1>2 DEF Proceeds
<1> HIDE DEF s, again, decide
<1> QED
  BY <1>3, <1>4, <1>5, <1>6

\* A settled row that was accepted stays so; the thread keeps its snapshot.
LEMMA SettleStep ==
  ASSUME CoordinatorTypeOK, NEW x \in Thread, ThreadInv(x), NEW t \in Task, SettleTask(x, t),
         CoordinatorTypeOK', WorkflowStep
  PROVE  ThreadInv(x)'
<1>1. threads[x] \in ThreadState
  BY DEF CoordinatorTypeOK
<1>2. PICK f \in Workflow : f = threads[x].wf /\ workflows[f].status # "absent"
                            /\ threads[x].version <= workflows[f].version
  BY DEF SettleTask, ThreadInv, InWorkflow
<1>3. UNCHANGED workflows /\ threads[x].pc = "settle"
  BY DEF SettleTask
<1>4. KeepsVersion(f)
  <2>1. workflows[f].version # workflows[f].version + 1
    BY DEF CoordinatorTypeOK, WorkflowRow
  <2>2. KeepsVersion(f) \/ Reopens(f)
    BY <1>2 DEF WorkflowStep
  <2> QED
    BY <1>3, <2>1, <2>2 DEF Reopens
<1>5. \/ threads'[x].pc = "snapshot" /\ threads'[x].wf = f /\ threads'[x].version = 0
      \/ /\ threads'[x].pc \in {"settle", "decide"} /\ threads'[x].wf = f
         /\ threads'[x].seen = threads[x].seen /\ threads'[x].version = threads[x].version
  BY <1>2, SettleThread
<1>6. threads[x].version \in Nat /\ workflows[f].version \in Nat
  BY <1>1 DEF ThreadState, CoordinatorTypeOK, WorkflowRow
<1>7. InWorkflow(x)' /\ DecisionStands(x)'
  BY <1>2, <1>3, <1>5, <1>6 DEF InWorkflow, DecisionStands
<1>8. SnapshotStands(x)'
  <2> SUFFICES ASSUME threads'[x].pc \in {"settle", "decide"}, UpToDate(x)',
                      NEW u \in Task, u \in CurrentTasks(f)'
               PROVE  /\ threads[x].seen[u].status # "absent"
                      /\ threads[x].seen[u].status = "completed" =>
                           tasks[u]'.status = "completed"
    BY <1>5 DEF SnapshotStands, CurrentTasks
  <2>1. UpToDate(x)
    BY <1>2, <1>3, <1>5 DEF UpToDate
  <2> QED
    BY <1>2, <1>3, <1>4, <2>1 DEF ThreadInv, SnapshotStands, KeepsVersion, PlanStands
<1> QED
  BY <1>7, <1>8 DEF ThreadInv

\* The thread that concludes, consults, moves or records goes on with less
\* than it held.
LEMMA RecordStep ==
  ASSUME CoordinatorTypeOK, NEW x \in Thread, ThreadInv(x),
         \/ Conclude(x) \/ Claim(x) \/ FinishMove(x) \/ FinishRecord(x)
         \/ \E answered \in BOOLEAN : ConsultEnds(x, answered),
         CoordinatorTypeOK', WorkflowStep
  PROVE  ThreadInv(x)'
<1>1. threads[x] \in ThreadState /\ threads[x].pc # "idle"
  BY DEF CoordinatorTypeOK, Conclude, Claim, FinishMove, FinishRecord, ConsultEnds
<1>2. \E s \in ThreadState :
        /\ Becomes(x, s)
        /\ s.pc \notin {"settle", "decide", "conclude", "move"}
        /\ s.pc # "idle" => s.wf = threads[x].wf /\ s.version = threads[x].version
  <2>1. CASE Idles(x)
    BY <2>1, IdleTypes DEF Idles
  <2> DEFINE claim == [threads[x] EXCEPT !.pc = "claim", !.churned = FALSE]
  <2>2. claim \in ThreadState /\ claim.pc = "claim" /\ claim.wf = threads[x].wf
        /\ claim.version = threads[x].version
    BY <1>1 DEF ThreadState, ReconcilePc
  <2>3. ASSUME NEW pc \in {"consult", "record"}
        PROVE  /\ [threads[x] EXCEPT !.pc = pc] \in ThreadState
               /\ [threads[x] EXCEPT !.pc = pc].pc = pc
               /\ [threads[x] EXCEPT !.pc = pc].wf = threads[x].wf
               /\ [threads[x] EXCEPT !.pc = pc].version = threads[x].version
    BY <1>1 DEF ThreadState, ReconcilePc, FinishPc
  <2>4. \/ Idles(x) \/ Becomes(x, claim)
        \/ \E pc \in {"consult", "record"} : Becomes(x, [threads[x] EXCEPT !.pc = pc])
    BY DEF Conclude, Claim, FinishMove, FinishRecord, ConsultEnds
  <2> HIDE DEF claim
  <2> QED
    BY <2>1, <2>2, <2>3, <2>4
<1>3. workflows' \in [Workflow -> WorkflowRow]
  BY DEF CoordinatorTypeOK
<1> QED
  BY <1>1, <1>2, <1>3, EmptyHanded

LEMMA StartStep ==
  ASSUME CoordinatorTypeOK, NEW x \in Thread, ThreadInv(x),
         \/ \E f \in Workflow : StartReconcile(x, f)
         \/ \E t \in Task : SeeExpiredLease(x, t)
         \/ RequeueExpired(x),
         CoordinatorTypeOK', WorkflowStep
  PROVE  ThreadInv(x)'
<1>1. threads[x] \in ThreadState /\ threads'[x] \in ThreadState
  BY DEF CoordinatorTypeOK
<1>2. Becomes(x, threads'[x])
  BY DEF StartReconcile, SeeExpiredLease, RequeueExpired, Becomes, CoordinatorTypeOK
<1>3. /\ threads'[x].pc \in {"snapshot", "lease"}
      /\ \/ /\ threads[x].pc # "idle" /\ threads'[x].wf = threads[x].wf
            /\ threads'[x].version = threads[x].version \/ threads'[x].version = 0
         \/ /\ threads'[x].wf \in Workflow /\ workflows[threads'[x].wf].status # "absent"
            /\ threads'[x].version <= workflows[threads'[x].wf].version
  <2>1. ASSUME NEW f \in Workflow, StartReconcile(x, f)
        PROVE  /\ threads'[x].pc = "snapshot" /\ threads'[x].wf = f
               /\ threads'[x].version = 0
               /\ workflows[f].status # "absent" /\ 0 <= workflows[f].version
    <3>1. threads'[x] = [IdleThread EXCEPT !.pc = "snapshot", !.wf = f]
      BY <2>1 DEF StartReconcile, Becomes, CoordinatorTypeOK
    <3>2. workflows[f].status # "absent" /\ workflows[f].version \in Nat
      BY <2>1 DEF StartReconcile, CoordinatorTypeOK, WorkflowRow
    <3> QED
      BY <3>1, <3>2 DEF IdleThread
  <2>2. ASSUME NEW t \in Task, SeeExpiredLease(x, t)
        PROVE  /\ threads[x].pc # "idle" /\ threads'[x].pc = "lease"
               /\ threads'[x].wf = threads[x].wf
               /\ threads'[x].version = threads[x].version
    <3> DEFINE seen == [NothingSeen EXCEPT ![t] = View(t)]
    <3>1. threads'[x] = [threads[x] EXCEPT !.pc = "lease", !.todo = {t}, !.seen = seen]
      BY <2>2 DEF SeeExpiredLease, Becomes, CoordinatorTypeOK
    <3>2. threads[x].pc = "snapshot"
      BY <2>2 DEF SeeExpiredLease
    <3> HIDE DEF seen
    <3> QED
      BY <1>1, <3>1, <3>2 DEF ThreadState
  <2>3. CASE RequeueExpired(x)
    BY <2>3 DEF RequeueExpired, Becomes, IdleThread, CoordinatorTypeOK
  <2> QED
    BY <2>1, <2>2, <2>3
<1>4. workflows' \in [Workflow -> WorkflowRow]
  BY DEF CoordinatorTypeOK
<1> QED
  BY <1>1, <1>2, <1>3, <1>4, EmptyHanded

(***************************************************************************)
(* The theorem.                                                            *)
(***************************************************************************)

\* What one thread does is done by it alone.
LEMMA OneActs ==
  ASSUME CoordinatorTypeOK, WorkflowStep, NEW x \in Thread, ThreadsInv,
         \A y \in Thread \ {x} : threads'[y] = threads[y],
         ThreadInv(x)', CoordinatorTypeOK'
  PROVE  ThreadsInv'
<1>1. workflows' \in [Workflow -> WorkflowRow]
  BY DEF CoordinatorTypeOK
<1>2. \A y \in Thread \ {x} : ThreadInv(y)'
  BY <1>1, OthersStand DEF ThreadsInv, Bystander
<1> QED
  BY <1>2 DEF ThreadsInv

\* Completions: only by a thread whose decision stands.
LEMMA ConcludeAccepted ==
  ASSUME CoordinatorTypeOK, NEW x \in Thread, ThreadInv(x), NEW f \in Workflow, Completed(f),
         \/ Conclude(x) \/ Claim(x) \/ FinishMove(x) \/ FinishRecord(x)
         \/ \E answered \in BOOLEAN : ConsultEnds(x, answered)
  PROVE  PlanAccepted(f)
<1>1. threads[x].wf \in Workflow
  BY DEF Conclude, Claim, FinishMove, FinishRecord, ConsultEnds, ThreadInv, InWorkflow
<1>2. CASE SetStatus(threads[x].wf, threads[x].target, {"running"}, threads[x].version, "null")
           /\ threads[x].pc \in {"conclude", "move"}
  <2>1. f = threads[x].wf /\ threads[x].target = "completed" /\ UpToDate(x)
    BY <1>1, <1>2, SetStatusRows DEF Completed, UpToDate
  <2> QED
    BY <1>2, <2>1 DEF ThreadInv, DecisionStands
<1>3. CASE \/ \E result \in Result : \E status, version, onlyIfEmpty :
                SetResult(threads[x].wf, result, status, version, onlyIfEmpty)
           \/ \E attention \in Attention : ClaimConsult(threads[x].wf, attention)
           \/ UNCHANGED workflows
  BY <1>1, <1>3, ResultRows DEF Completed
<1>4. AttentionOf(x) \in Attention
  BY DEF AttentionOf, Attention, ThreadState, CoordinatorTypeOK
<1> QED
  BY <1>2, <1>3, <1>4 DEF Conclude, Claim, FinishMove, FinishRecord, ConsultEnds, Result

LEMMA AcceptedStays ==
  ASSUME CoordinatorTypeOK, WorkflowStep, CompletedIsAccepted,
         \A f \in Workflow : Completed(f) => PlanAccepted(f) /\ UNCHANGED tasks
  PROVE  CompletedIsAccepted'
<1> SUFFICES ASSUME NEW f \in Workflow, workflows'[f].status = "completed",
                    NEW t \in Task, t \in CurrentTasks(f)'
             PROVE  tasks[t]'.status = "completed"
  BY DEF CompletedIsAccepted, PlanAccepted, CurrentTasks
<1>1. CASE Completed(f)
  BY <1>1 DEF PlanAccepted, CurrentTasks
<1>2. CASE workflows[f].status = "completed"
  <2>1. PlanStands(f)
    BY <1>2 DEF WorkflowStep, KeepsVersion, Reopens
  <2> QED
    BY <1>2, <2>1 DEF CompletedIsAccepted, PlanAccepted, PlanStands
<1> QED
  BY <1>1, <1>2 DEF Completed

LEMMA ActorStep ==
  ASSUME CoordinatorTypeOK, ThreadsInv, NEW x \in Thread,
         \/ ReconcileStep(x) \/ FinishStep(x)
         \/ \E f \in Workflow : \/ StartReconcile(x, f)
                                \/ FinishCompleted(x, f) \/ FinishBlocked(x, f)
         \/ \E t \in Task : SeeExpiredLease(x, t)
  PROVE  /\ CoordinatorTypeOK' /\ WorkflowStep /\ ThreadsInv'
         /\ \A f \in Workflow : Completed(f) => PlanAccepted(f) /\ UNCHANGED tasks
<1> DEFINE Reads ==
             \/ \E f \in Workflow : \/ StartReconcile(x, f)
                                    \/ FinishCompleted(x, f) \/ FinishBlocked(x, f)
             \/ TakeSnapshot(x)
             \/ \E t \in Task : SeeExpiredLease(x, t)
             \/ Decide(x)
           Records ==
             \/ Conclude(x) \/ Claim(x) \/ FinishMove(x) \/ FinishRecord(x)
             \/ \E answered \in BOOLEAN : ConsultEnds(x, answered)
           Requeues == RequeueExpired(x) \/ \E t \in Task : SettleTask(x, t)
<1>1. Reads \/ Records \/ Requeues
  BY DEF ReconcileStep, FinishStep
<1>2. ThreadInv(x)
  BY DEF ThreadsInv
<1>3. \A y \in Thread \ {x} : threads'[y] = threads[y]
  <2>1. Becomes(x, threads'[x])
    BY DEF ReconcileStep, FinishStep, StartReconcile, FinishCompleted, FinishBlocked,
           Finishes, SeeExpiredLease, TakeSnapshot, RequeueExpired, SettleTask, Decide,
           Conclude, Claim, ConsultEnds, FinishMove, FinishRecord, Idles, Becomes,
           CoordinatorTypeOK
  <2> QED
    BY <2>1 DEF Becomes, CoordinatorTypeOK
<1>4. CASE Reads
  <2>1. CoordinatorTypeOK' /\ UNCHANGED db
    BY <1>4, ReadTypes
  <2>2. WorkflowStep /\ CompletesNone
    BY <2>1, SamePlans
    DEF db, WorkflowStep, KeepsVersion, CompletesNone, Completed, CoordinatorTypeOK
  <2>3. ThreadInv(x)'
    BY <1>2, <1>4, <2>1, <2>2, StartStep, FinishChecks, SnapshotStep, DecideStep
  <2> QED
    BY <1>3, <2>1, <2>2, <2>3, OneActs DEF CompletesNone
<1>5. CASE Records
  <2>1. CoordinatorTypeOK' /\ WorkflowStep
    BY <1>5, RecordTypes
  <2>2. ThreadInv(x)'
    BY <1>2, <1>5, <2>1, RecordStep
  <2>3. UNCHANGED tasks
    BY <1>5 DEF Conclude, Claim, FinishMove, FinishRecord, ConsultEnds
  <2>4. \A f \in Workflow : Completed(f) => PlanAccepted(f)
    BY <1>2, <1>5, ConcludeAccepted
  <2> QED
    BY <1>3, <2>1, <2>2, <2>3, <2>4, OneActs
<1>6. CASE Requeues
  <2>1. CoordinatorTypeOK' /\ WorkflowStep /\ CompletesNone
    BY <1>6, SettleTypes
  <2>2. ThreadInv(x)'
    BY <1>2, <1>6, <2>1, StartStep, SettleStep
  <2> QED
    BY <1>3, <2>1, <2>2, OneActs DEF CompletesNone
<1> QED
  BY <1>1, <1>4, <1>5, <1>6

LEMMA IndStep ==
  ASSUME IndInv, [Next]_vars
  PROVE  IndInv'
<1>1. CoordinatorTypeOK /\ CompletedIsAccepted /\ ThreadsInv
  BY DEF IndInv, CoordinatorInv
<1>2. ASSUME CoordinatorTypeOK', WorkflowStep, ThreadsInv',
             \A f \in Workflow : Completed(f) => PlanAccepted(f) /\ UNCHANGED tasks
      PROVE  IndInv'
  BY <1>1, <1>2, AcceptedStays DEF IndInv, CoordinatorInv
<1>3. ASSUME CoordinatorTypeOK', WorkflowStep, CompletesNone, \A x \in Thread : Bystander(x)
      PROVE  IndInv'
  <2>1. workflows' \in [Workflow -> WorkflowRow]
    BY <1>3 DEF CoordinatorTypeOK
  <2>2. ThreadsInv'
    BY <1>1, <1>3, <2>1, OthersStand DEF ThreadsInv
  <2> QED
    BY <1>2, <1>3, <2>2 DEF CompletesNone
<1>4. ASSUME NEW x \in Thread,
             \/ ReconcileStep(x) \/ FinishStep(x)
             \/ \E f \in Workflow : \/ StartReconcile(x, f)
                                    \/ FinishCompleted(x, f) \/ FinishBlocked(x, f)
             \/ \E t \in Task : SeeExpiredLease(x, t)
      PROVE  IndInv'
  BY <1>1, <1>2, <1>4, ActorStep
<1>5. ASSUME NEW f \in Workflow,
             \/ Create(f) \/ Start(f) \/ Pause(f) \/ Resume(f) \/ Cancel(f) \/ FinishFailed(f)
             \/ \E kept, fresh : ReplanWorkflow(f, kept, fresh)
      PROVE  IndInv'
  <2>1. CoordinatorTypeOK' /\ WorkflowStep /\ CompletesNone
    BY <1>1, <1>5, CreateTypes, MoveTypes, ReplanTypes
  <2>2. UNCHANGED threads
    BY <1>5 DEF Create, Start, Pause, Resume, Cancel, FinishFailed, ReplanWorkflow, Moves,
                Stops
  <2> QED
    BY <1>3, <2>1, <2>2 DEF Bystander
<1>6. ASSUME NEW t \in Task, TaskStep(t)
      PROVE  IndInv'
  BY <1>1, <1>3, <1>6, TaskTypes DEF Bystander
<1>7. CASE Membership
  BY <1>1, <1>3, <1>7, PoolTypes
<1>8. CASE UNCHANGED vars
  <2>1. CoordinatorTypeOK'
    BY <1>1, <1>8 DEF vars, CoordinatorTypeOK
  <2>2. WorkflowStep /\ CompletesNone
    BY <1>1, <1>8, SamePlans
    DEF vars, WorkflowStep, KeepsVersion, CompletesNone, Completed, CoordinatorTypeOK
  <2> QED
    BY <1>3, <1>8, <2>1, <2>2 DEF vars, Bystander
<1>9. CASE Next
  BY <1>4, <1>5, <1>6, <1>7, <1>9 DEF Next, ToolStep, Thread, Membership
<1> QED
  BY <1>8, <1>9

LEMMA IndInit == Init => IndInv
<1> SUFFICES ASSUME Init PROVE IndInv
  OBVIOUS
<1>1. CoordinatorTypeOK
  BY NullTypes, IdleTypes, CoordinatorAssumption DEF Init, CoordinatorTypeOK
<1>2. CompletedIsAccepted
  BY DEF Init, CompletedIsAccepted, AbsentWorkflow
<1>3. ThreadsInv
  BY IdleTypes DEF Init, ThreadsInv, ThreadInv, InWorkflow, SnapshotStands, DecisionStands
<1> QED
  BY <1>1, <1>2, <1>3 DEF IndInv, CoordinatorInv

\* A completed workflow has every task of its current plan accepted, for every
\* number of workflows, reconciling threads and callers of workflows_finish:
\* neither reconcile nor workflows_finish completes a plan that a replan has
\* changed since they read it (coordinator.py _conclude, service.py finish).
THEOREM CompletionIsAccepted == Spec => []CoordinatorInv
<1>1. IndInv /\ [Next]_vars => IndInv'
  BY IndStep
<1> QED
  BY <1>1, IndInit, PTL DEF Spec, IndInv

(***************************************************************************)
(* Consultations.                                                          *)
(***************************************************************************)

\* The workflows in which the step records an answer.
Answered(f) == workflows'[f].result = "answer" /\ workflows[f].result # "answer"

LEMMA OnlyConsultationsAnswer ==
  ASSUME IndInv, NEW f \in Workflow, Next, Answered(f)
  PROVE  \E x \in Reconciler : ConsultEnds(x, TRUE)
<1>1. workflows \in [Workflow -> WorkflowRow]
  BY DEF IndInv, CoordinatorInv, CoordinatorTypeOK
<1>2. ASSUME NEW g \in Workflow, NEW to, NEW expected, NEW version,
             NEW result \in {"null", "summary"}, SetStatus(g, to, expected, version, result)
      PROVE  FALSE
  <2>1. workflows[g] \in WorkflowRow
    BY <1>1
  <2>2. WithStatus(workflows[g], to, result).result \in {workflows[g].result, "summary"}
    BY <2>1 DEF WithStatus, WorkflowRow
  <2> QED
    BY <1>1, <1>2, <2>2 DEF SetStatus, Answered
<1>3. ASSUME NEW g \in Workflow, NEW attention, ClaimConsult(g, attention)
      PROVE  FALSE
  BY <1>1, <1>3 DEF ClaimConsult, Answered, WorkflowRow
<1>4. ASSUME NEW g \in Workflow, NEW status, NEW version, NEW onlyIfEmpty,
             SetResult(g, "summary", status, version, onlyIfEmpty)
      PROVE  FALSE
  BY <1>1, <1>4 DEF SetResult, Answered, WorkflowRow
<1>5. workflows' # workflows
  BY DEF Answered
<1>6. ASSUME NEW x \in Thread, threads[x].pc # "idle"
      PROVE  threads[x].wf \in Workflow
  BY <1>6 DEF IndInv, ThreadsInv, ThreadInv, InWorkflow
<1>7. ASSUME NEW x \in Reconciler, ReconcileStep(x)
      PROVE  ConsultEnds(x, TRUE)
  <2>1. x \in Thread
    BY DEF Thread
  <2>2. ~TakeSnapshot(x) /\ ~RequeueExpired(x) /\ ~Decide(x)
        /\ ~\E t \in Task : SettleTask(x, t)
    BY <1>5 DEF TakeSnapshot, RequeueExpired, RequeueOrphan, Decide, SettleTask, db
  <2>3. ~Conclude(x)
    BY <1>2, <1>5, <1>6, <2>1 DEF Conclude
  <2>4. ~Claim(x)
    BY <1>3, <1>5, <1>6, <2>1 DEF Claim
  <2>5. ~ConsultEnds(x, FALSE)
    BY <1>5 DEF ConsultEnds
  <2> QED
    BY <1>7, <2>2, <2>3, <2>4, <2>5 DEF ReconcileStep
<1>8. ASSUME NEW c \in Caller, FinishStep(c)
      PROVE  FALSE
  BY <1>2, <1>4, <1>5, <1>6, <1>8 DEF FinishStep, FinishMove, FinishRecord, Thread
<1>9. ASSUME NEW g \in Workflow, Create(g) \/ \E kept, fresh : ReplanWorkflow(g, kept, fresh)
      PROVE  FALSE
  <2>1. workflows[g] \in WorkflowRow
    BY <1>1
  <2>2. Replanned(workflows[g]).result = "null"
    BY <2>1 DEF Replanned, WorkflowRow
  <2>3. [AbsentWorkflow EXCEPT !.status = "ready", !.version = 1, !.job = Job].result = "null"
    BY DEF AbsentWorkflow
  <2> QED
    BY <1>1, <1>9, <2>2, <2>3 DEF Create, Publish, ReplanWorkflow, Replan, Answered
<1>10. ASSUME NEW g \in Workflow,
              Start(g) \/ Pause(g) \/ Resume(g) \/ Cancel(g) \/ FinishFailed(g)
       PROVE  FALSE
  BY <1>2, <1>10
  DEF Start, Pause, Resume, Cancel, FinishFailed, Moves, Stops, SetStatusAndCancel
<1>11. ASSUME \/ \E x \in Reconciler : \/ \E g \in Workflow : StartReconcile(x, g)
                                       \/ \E t \in Task : SeeExpiredLease(x, t)
              \/ \E c \in Caller, g \in Workflow : FinishCompleted(c, g) \/ FinishBlocked(c, g)
              \/ Membership
       PROVE  FALSE
  BY <1>5, <1>11
  DEF StartReconcile, SeeExpiredLease, FinishCompleted, FinishBlocked, Membership, Leaves,
      Joins, Suspends, CooldownEnds, db
<1>12. ASSUME NEW t \in Task, TaskStep(t)
       PROVE  FALSE
  BY <1>5, <1>12
  DEF TaskStep, ClaimExecution, ClaimReview, DeliverTask, HandOffTask, AcceptDelivery,
      RejectDelivery, ReviewFails, WritesRow
<1> QED
  BY <1>7, <1>8, <1>9, <1>10, <1>11, <1>12 DEF Next, ToolStep, Membership

\* The answer of a consultation is recorded only in the status and the version
\* it was asked about, and over nothing that was recorded meanwhile, whatever
\* the number of threads that consult (repository.py set_result).
THEOREM AnswersFit == Spec => AnswerFitsDecision
<1>1. ASSUME IndInv, [Next]_vars, NEW f \in Workflow, Answered(f)
      PROVE  /\ workflows[f].result = "null"
             /\ \E x \in Thread :
                  /\ threads[x].pc = "consult" /\ threads[x].wf = f
                  /\ threads[x].target = workflows[f].status
                  /\ threads[x].version = workflows[f].version
  <2>1. Next
    BY <1>1 DEF vars, Answered
  <2>2. PICK x \in Thread : ConsultEnds(x, TRUE)
    BY <1>1, <2>1, OnlyConsultationsAnswer DEF Thread
  <2>3. workflows \in [Workflow -> WorkflowRow] /\ workflows' # workflows
    BY <1>1 DEF IndInv, CoordinatorInv, CoordinatorTypeOK, Answered
  <2>4. SetResult(threads[x].wf, "answer", threads[x].target, threads[x].version, TRUE)
    BY <2>2, <2>3 DEF ConsultEnds
  <2>5. threads[x].wf = f
    BY <1>1, <2>3, <2>4 DEF SetResult, Answered
  <2> QED
    BY <2>2, <2>4, <2>5 DEF ConsultEnds, SetResult
<1>2. IndInv /\ [Next]_vars => [\A f \in Workflow :
        workflows'[f].result = "answer" /\ workflows[f].result # "answer" =>
          /\ workflows[f].result = "null"
          /\ \E x \in Thread :
               /\ threads[x].pc = "consult" /\ threads[x].wf = f
               /\ threads[x].target = workflows[f].status
               /\ threads[x].version = workflows[f].version]_vars
  BY <1>1 DEF Answered
<1>3. IndInv /\ [Next]_vars => IndInv'
  BY IndStep
<1> QED
  BY <1>2, <1>3, IndInit, PTL DEF Spec, AnswerFitsDecision

(***************************************************************************)
(* Blocked workflows.  A decision to block is taken on a snapshot that is  *)
(* several transactions old.  The invariant follows each task of the       *)
(* snapshot from the moment it was read: what was settled is settled, what *)
(* waited for another task waits, and what waited for a reviewer waits,    *)
(* unless something in the snapshot keeps the thread from blocking.        *)
(***************************************************************************)

\* Nobody who delivered a task is among those who failed to review it, and a
\* task to execute has had none.
RowInv(t) ==
  LET row == tasks[t] IN
  /\ row.status \in {"absent", "pending", "in_progress", "pending_review", "reviewing"}
                      \cup SettledStatus
  /\ row.status \in {"pending", "in_progress"} => row.failedReviewers = {}
  /\ row.status \in {"pending_review", "reviewing"} => row.owner \notin row.failedReviewers
  /\ row.status = "reviewing" => row.reviewer # row.owner

RowsInv == \A t \in Task : RowInv(t)

PlansAreClosed ==
  \A f \in Workflow : \A t \in CurrentTasks(f) : Deps[t] \subseteq CurrentTasks(f)

\* A task whose delivery by `owner` waited for a reviewer: it waits, it is over,
\* or somebody else could review it.
UnderReview(t, owner) ==
  LET row == tasks[t] IN
  /\ row.status \in {"in_progress", "pending_review", "reviewing"} =>
       row.owner \in pool \cup {owner}
  /\ \/ row.status = "pending_review" /\ row.owner = owner
     \/ row.status \in {"failed", "cancelled"}
     \/ CanReview(row, pool \ {owner})

\* What keeps the decision on a snapshot from blocking the workflow.
Moving(f, seen) ==
  \E t \in CurrentTasks(f) :
    \/ seen[t].status \in {"in_progress", "reviewing"}
    \/ ReadyIn(seen, t)
    \/ /\ seen[t].status = "pending_review" /\ tasks[t].status = "completed"
       /\ CanReview(tasks[t], pool \ {seen[t].owner})

Followed(f, seen, t) ==
  /\ seen[t].status \in {"pending", "in_progress", "pending_review", "reviewing"}
                          \cup SettledStatus
  /\ seen[t].status \in SettledStatus => tasks[t].status = seen[t].status
  /\ seen[t].status = "pending_review" => UnderReview(t, seen[t].owner)
  /\ seen[t].status = "pending" /\ ~ReadyIn(seen, t) =>
       tasks[t].status \in {"pending", "failed", "cancelled"} \/ Moving(f, seen)

Waits(t) == tasks[t].status = "pending" /\ \E d \in Deps[t] : tasks[d].status # "completed"

StuckTask(t) ==
  LET row == tasks[t] IN
  \/ row.status \in SettledStatus
  \/ Waits(t)
  \/ row.status = "pending_review" /\ ~CanReview(row, pool \ {row.owner})

\* The thread decides in the version it read, and with the pool it read it in.
Steady(x) == UpToDate(x) /\ ~threads[x].churned

ViewInv(x) ==
  LET f == threads[x].wf
      seen == threads[x].seen
  IN  /\ threads[x].pc \in {"settle", "decide"} /\ Steady(x) =>
           \A t \in CurrentTasks(f) : Followed(f, seen, t)
      /\ threads[x].pc = "conclude" /\ threads[x].target = "blocked" /\ Steady(x) =>
           \A t \in CurrentTasks(f) : StuckTask(t)

BlockInv == RowsInv /\ PlansAreClosed /\ \A x \in Thread : ViewInv(x)

(***************************************************************************)
(* What a step does to the row of a task that is in a plan before and      *)
(* after it, as far as blocking depends on it.                             *)
(***************************************************************************)

Move(t, r, s) ==
  \/ /\ s.status = r.status /\ r.status # "pending"
     /\ s.owner = r.owner /\ s.reviewer = r.reviewer
     /\ s.failedReviewers = r.failedReviewers
  \/ /\ r.status \in {"pending", "in_progress"} /\ s.status \in {"pending", "failed"}
     /\ s.failedReviewers = r.failedReviewers
  \/ /\ r.status \in {"pending", "approved"} /\ s.status = "in_progress"
     /\ s.owner \in pool /\ s.failedReviewers = r.failedReviewers
     /\ \A d \in Deps[t] : tasks[d].status = "completed"
  \/ /\ r.status = "in_progress" /\ s.status \in {"pending_review", "completed"}
     /\ s.owner = r.owner /\ s.failedReviewers = r.failedReviewers
  \/ /\ r.status = "pending_review" /\ s.status = "reviewing"
     /\ s.owner = r.owner /\ s.failedReviewers = r.failedReviewers
     /\ s.reviewer \in pool \ ({r.owner} \cup r.failedReviewers)
  \/ /\ r.status = "reviewing" /\ s.status \in {"pending", "failed"}
     /\ s.failedReviewers = {}
  \/ /\ r.status = "reviewing" /\ s.status = "completed"
     /\ s.owner = r.owner /\ s.failedReviewers = r.failedReviewers
  \/ /\ r.status = "reviewing" /\ s.status = "pending_review" /\ s.owner = r.owner
     /\ s.failedReviewers \subseteq r.failedReviewers \cup {r.reviewer}
  \/ r.status \notin SettledStatus \cup {"absent"} /\ s.status = "cancelled"

Moved(t) ==
  /\ Move(t, tasks[t], tasks'[t])
  /\ tasks'[t].superseded = tasks[t].superseded

\* A task that a publication or a replan inserts or retires.
Planned(t) ==
  LET f == WorkflowOf[t]
      s == tasks'[t]
  IN  /\ f \in Workflow /\ (workflows[f].status = "absent" \/ Reopens(f))
      /\ \/ s.status = "pending" /\ s.failedReviewers = {}
         \/ s.status \in SettledStatus

AllMove == \A t \in Task : Moved(t)

RowsMove == \A t \in Task : Moved(t) \/ Planned(t)

LEMMA RowInvStep ==
  ASSUME CoordinatorTypeOK, RowsInv, RowsMove
  PROVE  RowsInv'
<1> SUFFICES ASSUME NEW t \in Task PROVE RowInv(t)'
  BY DEF RowsInv
<1>1. RowInv(t)
  BY DEF RowsInv
<1>2. CASE Planned(t)
  BY <1>2 DEF Planned, RowInv, SettledStatus
<1>3. CASE Moved(t)
  BY <1>1, <1>3 DEF Moved, Move, RowInv, SettledStatus
<1> QED
  BY <1>2, <1>3 DEF RowsMove

\* The tasks of a plan that no replan touches.
LEMMA SamePlanStep ==
  ASSUME NEW f \in Workflow, \A t \in Task : WorkflowOf[t] = f => Moved(t)
  PROVE  CurrentTasks(f)' = CurrentTasks(f)
<1>1. ASSUME NEW t \in Task, WorkflowOf[t] = f
      PROVE  /\ (tasks'[t].status = "absent") <=> (tasks[t].status = "absent")
             /\ tasks'[t].superseded = tasks[t].superseded
  BY <1>1 DEF Moved, Move, SettledStatus
<1> QED
  BY <1>1 DEF CurrentTasks

LEMMA SettledStays ==
  ASSUME NEW t \in Task, Moved(t), tasks[t].status \in SettledStatus
  PROVE  /\ tasks'[t].status = tasks[t].status
         /\ tasks'[t].failedReviewers = tasks[t].failedReviewers
BY DEF Moved, Move, SettledStatus

LEMMA UnderReviewStep ==
  ASSUME NEW t \in Task, NEW owner, RowInv(t), Moved(t), pool' = pool,
         UnderReview(t, owner)
  PROVE  UnderReview(t, owner)'
<1>1. /\ Move(t, tasks[t], tasks'[t])
      /\ RowInv(t)
  BY DEF Moved
<1>2. tasks'[t].status \in {"in_progress", "pending_review", "reviewing"} =>
        tasks'[t].owner \in pool \cup {owner}
  BY <1>1 DEF Move, UnderReview, SettledStatus
<1>3. \/ tasks'[t].status = "pending_review" /\ tasks'[t].owner = owner
      \/ tasks'[t].status \in {"failed", "cancelled"}
      \/ (pool \ {owner}) \ tasks'[t].failedReviewers # {}
  <2>1. CASE tasks[t].status = "pending_review" /\ tasks[t].owner = owner
    BY <1>1, <2>1 DEF Move, SettledStatus
  <2>2. CASE tasks[t].status \in {"failed", "cancelled"}
    BY <1>1, <2>2 DEF Move, SettledStatus
  <2>3. CASE (pool \ {owner}) \ tasks[t].failedReviewers # {}
    <3>1. CASE tasks'[t].failedReviewers \subseteq tasks[t].failedReviewers
      BY <2>3, <3>1
    <3>2. CASE /\ tasks[t].status = "reviewing" /\ tasks'[t].status = "pending_review"
               /\ tasks'[t].owner = tasks[t].owner
               /\ tasks'[t].failedReviewers \subseteq
                    tasks[t].failedReviewers \cup {tasks[t].reviewer}
      BY <1>1, <1>2, <3>2 DEF RowInv
    <3>3. \/ tasks'[t].failedReviewers \subseteq tasks[t].failedReviewers
          \/ /\ tasks[t].status = "reviewing" /\ tasks'[t].status = "pending_review"
             /\ tasks'[t].owner = tasks[t].owner
             /\ tasks'[t].failedReviewers \subseteq
                  tasks[t].failedReviewers \cup {tasks[t].reviewer}
          \/ tasks'[t].status = "cancelled"
      BY <1>1 DEF Move
    <3> QED
      BY <3>1, <3>2, <3>3
  <2> QED
    BY <2>1, <2>2, <2>3 DEF UnderReview, CanReview
<1> QED
  BY <1>2, <1>3 DEF UnderReview, CanReview

\* What keeps a thread from blocking its workflow goes on doing so.
LEMMA MovingStep ==
  ASSUME NEW f \in Workflow, NEW seen, pool' = pool,
         \A t \in Task : WorkflowOf[t] = f => Moved(t),
         Moving(f, seen)
  PROVE  Moving(f, seen)'
<1>1. PICK t \in CurrentTasks(f) :
        \/ seen[t].status \in {"in_progress", "reviewing"}
        \/ ReadyIn(seen, t)
        \/ /\ seen[t].status = "pending_review" /\ tasks[t].status = "completed"
           /\ CanReview(tasks[t], pool \ {seen[t].owner})
  BY DEF Moving
<1>2. t \in Task /\ Moved(t) /\ t \in CurrentTasks(f)'
  BY SamePlanStep DEF CurrentTasks
<1>3. tasks[t].status = "completed" =>
        tasks'[t].status = "completed" /\ tasks'[t].failedReviewers = tasks[t].failedReviewers
  BY <1>2, SettledStays DEF SettledStatus
<1> QED
  BY <1>1, <1>2, <1>3 DEF Moving, ReadyIn, CanReview

\* Somebody has finished what a task of the snapshot waited for: something in
\* the snapshot was on its way.
LEMMA PrerequisitesMoved ==
  ASSUME PlansAreClosed, NEW f \in Workflow, NEW seen, NEW t \in CurrentTasks(f),
         \A u \in CurrentTasks(f) : Followed(f, seen, u),
         seen[t].status = "pending", ~ReadyIn(seen, t),
         \A d \in Deps[t] : tasks[d].status = "completed"
  PROVE  Moving(f, seen)
<1>1. PICK d \in Deps[t] : seen[d].status \notin {"completed", "absent"}
  BY DEF ReadyIn
<1>2. d \in CurrentTasks(f) /\ Followed(f, seen, d) /\ tasks[d].status = "completed"
  BY <1>1 DEF PlansAreClosed
<1>3. CASE seen[d].status \in {"in_progress", "reviewing"}
  BY <1>2, <1>3 DEF Moving
<1>4. CASE seen[d].status = "pending"
  BY <1>2, <1>4 DEF Followed, Moving
<1>5. CASE seen[d].status = "pending_review"
  BY <1>2, <1>5 DEF Followed, UnderReview, Moving
<1> QED
  BY <1>1, <1>2, <1>3, <1>4, <1>5 DEF Followed, SettledStatus

LEMMA FollowedStep ==
  ASSUME RowsInv, PlansAreClosed, pool' = pool, NEW f \in Workflow, NEW seen,
         \A t \in Task : WorkflowOf[t] = f => Moved(t),
         \A t \in CurrentTasks(f) : Followed(f, seen, t)
  PROVE  \A t \in CurrentTasks(f)' : Followed(f, seen, t)'
<1>1. SUFFICES ASSUME NEW t \in CurrentTasks(f) PROVE Followed(f, seen, t)'
  BY SamePlanStep
<1>2. t \in Task /\ Moved(t) /\ RowInv(t) /\ Followed(f, seen, t)
  BY DEF CurrentTasks, RowsInv
<1>3. seen[t].status \in SettledStatus => tasks'[t].status = seen[t].status
  BY <1>2, SettledStays DEF Followed
<1>4. seen[t].status = "pending_review" => UnderReview(t, seen[t].owner)'
  BY <1>2, UnderReviewStep DEF Followed
<1>5. ASSUME seen[t].status = "pending", ~ReadyIn(seen, t)
      PROVE  tasks'[t].status \in {"pending", "failed", "cancelled"} \/ Moving(f, seen)'
  <2>1. CASE Moving(f, seen)
    BY <2>1, MovingStep
  <2>2. CASE tasks[t].status \in {"pending", "failed", "cancelled"}
    <3>1. CASE \A d \in Deps[t] : tasks[d].status = "completed"
      BY <1>5, <2>1, <3>1, PrerequisitesMoved
    <3>2. CASE ~(\A d \in Deps[t] : tasks[d].status = "completed")
      BY <1>2, <2>2, <3>2 DEF Moved, Move, SettledStatus
    <3> QED
      BY <3>1, <3>2
  <2> QED
    BY <1>2, <1>5, <2>1, <2>2 DEF Followed
<1> QED
  BY <1>2, <1>3, <1>4, <1>5 DEF Followed, ReadyIn

LEMMA StuckStep ==
  ASSUME RowsInv, PlansAreClosed, pool' = pool, NEW f \in Workflow,
         \A t \in Task : WorkflowOf[t] = f => Moved(t),
         \A t \in CurrentTasks(f) : StuckTask(t)
  PROVE  \A t \in CurrentTasks(f)' : StuckTask(t)'
<1>1. SUFFICES ASSUME NEW t \in CurrentTasks(f) PROVE StuckTask(t)'
  BY SamePlanStep
<1>2. \A u \in CurrentTasks(f) : Move(u, tasks[u], tasks'[u]) /\ StuckTask(u)
  BY DEF CurrentTasks, Moved
<1>3. CASE tasks[t].status \in SettledStatus
  BY <1>2, <1>3 DEF Move, StuckTask, SettledStatus
<1>4. CASE Waits(t)
  <2>1. PICK d \in Deps[t] : tasks[d].status # "completed"
    BY <1>4 DEF Waits
  <2>2. d \in CurrentTasks(f)
    BY DEF PlansAreClosed
  <2>3. tasks'[d].status # "completed"
    BY <1>2, <2>1, <2>2 DEF Move, StuckTask, Waits, SettledStatus
  <2>4. tasks'[t].status \in {"pending", "failed", "cancelled"}
    BY <1>2, <1>4, <2>1 DEF Move, Waits, SettledStatus
  <2> QED
    BY <2>3, <2>4 DEF StuckTask, Waits, SettledStatus
<1>5. CASE tasks[t].status = "pending_review" /\ ~CanReview(tasks[t], pool \ {tasks[t].owner})
  BY <1>2, <1>5 DEF Move, StuckTask, CanReview, SettledStatus
<1> QED
  BY <1>2, <1>3, <1>4, <1>5 DEF StuckTask

(***************************************************************************)
(* Every step moves rows so, or plans them.                                *)
(***************************************************************************)

LEMMA SameRow ==
  ASSUME NEW t \in Task, tasks'[t] = tasks[t]
  PROVE  Moved(t)
BY DEF Moved, Move

LEMMA BatchMoves ==
  ASSUME NEW t, NEW r \in TaskRow, NEW s,
         \/ s = CancelTask(r) \/ s = RequeueInterrupted(r)
         \/ \E owner : s = UnassignPending(r, owner)
         \/ s = FailTask(r, AnyAttempt, {"pending"})
  PROVE  Move(t, r, s) /\ s.superseded = r.superseded
<1>1. CASE s = r
  BY <1>1 DEF Move
<1>2. CASE s = CancelTask(r)
  BY <1>1, <1>2, TransitionTable DEF CancelTask, TaskRow, Move, SettledStatus
<1>3. CASE s = RequeueInterrupted(r)
  <2>1. CASE r.status = "reviewing"
    BY <1>3, <2>1 DEF RequeueInterrupted, TaskRow, Move
  <2>2. CASE r.status = "in_progress"
    BY <1>3, <2>2 DEF RequeueInterrupted, TaskRow, Move
  <2> QED
    BY <1>1, <1>3, <2>1, <2>2 DEF RequeueInterrupted
<1>4. CASE \E owner : s = UnassignPending(r, owner)
  BY <1>1, <1>4 DEF UnassignPending, TaskRow, Move
<1>5. CASE s = FailTask(r, AnyAttempt, {"pending"})
  BY <1>1, <1>5 DEF FailTask, TaskRow, Move
<1> QED
  BY <1>2, <1>3, <1>4, <1>5

\* One row is written.
LEMMA OneMoves ==
  ASSUME CoordinatorTypeOK, NEW t \in Task, NEW s, tasks' = [tasks EXCEPT ![t] = s],
         Move(t, tasks[t], s), s.superseded = tasks[t].superseded
  PROVE  AllMove
<1>1. \A u \in Task : u # t => tasks'[u] = tasks[u]
  BY DEF CoordinatorTypeOK
<1>2. tasks'[t] = s
  BY DEF CoordinatorTypeOK
<1> QED
  BY <1>1, <1>2, SameRow DEF AllMove, Moved

LEMMA TaskMoves ==
  ASSUME CoordinatorTypeOK, NEW t \in Task, TaskStep(t)
  PROVE  AllMove /\ UNCHANGED <<workflows, threads, pool>>
<1> DEFINE row == tasks[t]
<1>1. row \in TaskRow
  BY RowTyped
<1>2. ASSUME NEW s, WritesRow(t, s), Move(t, row, s), s.superseded = row.superseded
      PROVE  AllMove /\ UNCHANGED <<workflows, threads, pool>>
  BY <1>2, OneMoves DEF WritesRow
<1>3. ASSUME NEW agent \in Agent, ClaimExecution(t, agent)
      PROVE  \E s : WritesRow(t, s) /\ Move(t, row, s) /\ s.superseded = row.superseded
  <2>1. /\ row.status \in {"pending", "approved"} /\ agent \in pool
        /\ \A d \in Deps[t] : tasks[d].status = "completed"
        /\ WritesRow(t, ClaimTask(row, agent))
    BY <1>3 DEF ClaimExecution, IsFirst, Claimable, Available
  <2>2. Move(t, row, ClaimTask(row, agent))
        /\ ClaimTask(row, agent).superseded = row.superseded
    BY <1>1, <2>1 DEF ClaimTask, TaskRow, Move
  <2> QED
    BY <2>1, <2>2
<1>4. ASSUME NEW agent \in Agent, ClaimReview(t, agent)
      PROVE  \E s : WritesRow(t, s) /\ Move(t, row, s) /\ s.superseded = row.superseded
  <2>1. /\ row.status = "pending_review"
        /\ agent \in pool \ ({row.owner} \cup row.failedReviewers)
        /\ WritesRow(t, ClaimReviewTask(row, agent))
    BY <1>4 DEF ClaimReview, IsFirst, Reviewable, Available
  <2>2. Move(t, row, ClaimReviewTask(row, agent))
        /\ ClaimReviewTask(row, agent).superseded = row.superseded
    BY <1>1, <2>1 DEF ClaimReviewTask, TaskRow, Move
  <2> QED
    BY <2>1, <2>2
<1>5. ASSUME DeliverTask(t)
      PROVE  \E s : WritesRow(t, s) /\ Move(t, row, s) /\ s.superseded = row.superseded
  <2>1. row.status = "in_progress"
        /\ \/ WritesRow(t, SubmitForReview(row, AnyAttempt, NoDelivery))
           \/ WritesRow(t, CompleteTask(row, AnyAttempt, NoDelivery, NoAgent))
    BY <1>5 DEF DeliverTask
  <2>2. ASSUME NEW s, \/ s = SubmitForReview(row, AnyAttempt, NoDelivery)
                      \/ s = CompleteTask(row, AnyAttempt, NoDelivery, NoAgent)
        PROVE  Move(t, row, s) /\ s.superseded = row.superseded
    BY <1>1, <2>1, <2>2 DEF SubmitForReview, CompleteTask, TaskRow, Move
  <2> QED
    BY <2>1, <2>2
<1>6. ASSUME HandOffTask(t)
      PROVE  \E s : WritesRow(t, s) /\ Move(t, row, s) /\ s.superseded = row.superseded
  <2>1. row.status = "in_progress"
        /\ \/ \E exclude \in BOOLEAN :
                WritesRow(t, RequeueTask(row, AnyAttempt, row.owner, exclude))
           \/ WritesRow(t, FailTask(row, AnyAttempt, TaskStatus))
    BY <1>6 DEF HandOffTask
  <2>2. ASSUME NEW s, \/ \E exclude \in BOOLEAN :
                           s = RequeueTask(row, AnyAttempt, row.owner, exclude)
                      \/ s = FailTask(row, AnyAttempt, TaskStatus)
        PROVE  Move(t, row, s) /\ s.superseded = row.superseded
    BY <1>1, <2>1, <2>2 DEF RequeueTask, FailTask, TaskRow, Move
  <2> QED
    BY <2>1, <2>2
<1>7. ASSUME AcceptDelivery(t) \/ RejectDelivery(t) \/ ReviewFails(t)
      PROVE  \E s : WritesRow(t, s) /\ Move(t, row, s) /\ s.superseded = row.superseded
  <2>1. row.status = "reviewing"
        /\ \/ WritesRow(t, CompleteTask(row, AnyAttempt, NoDelivery, row.reviewer))
           \/ WritesRow(t, ReworkTask(row, AnyAttempt, row.owner, NoDelivery))
           \/ WritesRow(t, ReturnReview(row, AnyAttempt, row.reviewer, row.reviewer \in Available))
    BY <1>7 DEF AcceptDelivery, RejectDelivery, ReviewFails
  <2>2. ASSUME NEW s, s = CompleteTask(row, AnyAttempt, NoDelivery, row.reviewer)
        PROVE  Move(t, row, s) /\ s.superseded = row.superseded
    BY <1>1, <2>1, <2>2 DEF CompleteTask, TaskRow, Move
  <2>3. ASSUME NEW s, s = ReworkTask(row, AnyAttempt, row.owner, NoDelivery)
        PROVE  Move(t, row, s) /\ s.superseded = row.superseded
    BY <1>1, <2>1, <2>3 DEF ReworkTask, TaskRow, Move
  <2>4. ASSUME NEW s, NEW exclude, s = ReturnReview(row, AnyAttempt, row.reviewer, exclude)
        PROVE  Move(t, row, s) /\ s.superseded = row.superseded
    BY <1>1, <2>1, <2>4 DEF ReturnReview, TaskRow, Move
  <2> QED
    BY <2>1, <2>2, <2>3, <2>4
<1> QED
  BY <1>2, <1>3, <1>4, <1>5, <1>6, <1>7 DEF TaskStep

LEMMA RequeueMoves ==
  ASSUME CoordinatorTypeOK, NEW x \in Thread,
         RequeueExpired(x) \/ \E t \in Task : SettleTask(x, t)
  PROVE  AllMove /\ UNCHANGED <<workflows, pool>>
<1>1. UNCHANGED <<workflows, pool>>
  BY DEF RequeueExpired, RequeueOrphan, SettleTask, Internal, db
<1>2. ASSUME UNCHANGED tasks PROVE AllMove
  BY <1>2, SameRow DEF AllMove
<1>3. CASE RequeueExpired(x)
  <2>1. \/ UNCHANGED tasks
        \/ \E t \in Task : tasks' = [tasks EXCEPT ![t] = RequeueInterrupted(tasks[t])]
    BY <1>3 DEF RequeueExpired, RequeueOrphan, db, CoordinatorTypeOK, ThreadState
  <2> QED
    BY <1>1, <1>2, <2>1, RowTyped, BatchMoves, OneMoves
<1>4. ASSUME NEW t \in Task, SettleTask(x, t)
      PROVE  AllMove
  <2>1. \/ Settled(x, t) = UnassignPending(tasks[t], threads[x].seen[t].owner)
        \/ Settled(x, t) = FailTask(tasks[t], AnyAttempt, {"pending"})
        \/ Settled(x, t) = tasks[t]
    BY DEF Settled
  <2>2. tasks' = [tasks EXCEPT ![t] = Settled(x, t)]
    BY <1>4 DEF SettleTask
  <2>3. CASE Settled(x, t) = tasks[t]
    BY <1>2, <2>2, <2>3 DEF CoordinatorTypeOK
  <2>4. \/ \E owner : Settled(x, t) = UnassignPending(tasks[t], owner)
        \/ Settled(x, t) = FailTask(tasks[t], AnyAttempt, {"pending"})
        \/ Settled(x, t) = tasks[t]
    BY <2>1
  <2>5. Settled(x, t) # tasks[t] =>
          Move(t, tasks[t], Settled(x, t)) /\ Settled(x, t).superseded = tasks[t].superseded
    BY <2>4, RowTyped, BatchMoves
  <2> QED
    BY <2>2, <2>3, <2>5, OneMoves
<1> QED
  BY <1>1, <1>3, <1>4

LEMMA StatusMoves ==
  ASSUME CoordinatorTypeOK, NEW f \in Workflow,
         Start(f) \/ Pause(f) \/ Resume(f) \/ Cancel(f) \/ FinishFailed(f)
  PROVE  AllMove
<1>1. CASE Start(f) \/ Pause(f) \/ Resume(f)
  BY <1>1, SameRow DEF Start, Pause, Resume, Moves, AllMove
<1>2. CASE Cancel(f) \/ FinishFailed(f)
  <2>1. \A t \in Task : tasks'[t] = tasks[t] \/ tasks'[t] = CancelTask(tasks[t])
    BY <1>2 DEF Cancel, FinishFailed, Stops, SetStatusAndCancel
  <2> QED
    BY <2>1, SameRow, RowTyped, BatchMoves DEF AllMove, Moved
<1> QED
  BY <1>1, <1>2

LEMMA ClosedStep ==
  ASSUME PlansAreClosed, AllMove
  PROVE  PlansAreClosed'
<1>1. \A f \in Workflow : CurrentTasks(f)' = CurrentTasks(f)
  BY SamePlanStep DEF AllMove
<1> QED
  BY <1>1 DEF PlansAreClosed

\* A published plan is closed; the other plans stay.
LEMMA CreatePlans ==
  ASSUME CoordinatorTypeOK, PlansAreClosed, NEW f \in Workflow, Create(f)
  PROVE  RowsMove /\ PlansAreClosed'
<1>1. /\ workflows[f].status = "absent"
      /\ \A t \in Task : tasks'[t] = IF t \in FirstPlan[f]
           THEN InsertTask(Assignee(t, pool), Job) ELSE tasks[t]
  BY DEF Create, Publish
<1>2. FirstPlan[f] \subseteq Task
      /\ \A t \in FirstPlan[f] : WorkflowOf[t] = f /\ Deps[t] \subseteq FirstPlan[f]
  BY WorkflowAssumption
<1>3. ASSUME NEW t \in FirstPlan[f]
      PROVE  /\ tasks'[t].status = "pending" /\ tasks'[t].failedReviewers = {}
             /\ tasks'[t].superseded = FALSE
  <2>1. tasks'[t] = InsertTask(Assignee(t, pool), Job)
    BY <1>1, <1>2
  <2> QED
    BY <2>1 DEF InsertTask, AbsentTask
<1>4. RowsMove
  <2>1. ASSUME NEW t \in FirstPlan[f] PROVE Planned(t)
    BY <1>1, <1>2, <1>3 DEF Planned
  <2> QED
    BY <1>1, <2>1, SameRow DEF RowsMove
<1>5. ASSUME NEW g \in Workflow, NEW t \in CurrentTasks(g)', NEW d \in Deps[t]
      PROVE  d \in CurrentTasks(g)'
  <2>1. t \in Task /\ d \in Task /\ WorkflowOf[t] = g
    BY RepositoryAssumption DEF CurrentTasks
  <2>2. CASE t \in FirstPlan[f]
    BY <1>2, <1>3, <2>1, <2>2 DEF CurrentTasks
  <2>3. CASE t \notin FirstPlan[f]
    <3>1. t \in CurrentTasks(g)
      BY <1>1, <2>1, <2>3 DEF CurrentTasks
    <3>2. d \in CurrentTasks(g)
      BY <3>1 DEF PlansAreClosed
    <3> QED
      BY <1>1, <1>3, <2>1, <3>2 DEF CurrentTasks
  <2> QED
    BY <2>2, <2>3
<1> QED
  BY <1>4, <1>5 DEF PlansAreClosed

\* A replan keeps a task with what it depends on, and adds tasks that depend on
\* what it keeps and adds.
LEMMA ReplanPlans ==
  ASSUME CoordinatorTypeOK, PlansAreClosed, NEW f \in Workflow, NEW kept, NEW fresh,
         ReplanWorkflow(f, kept, fresh)
  PROVE  RowsMove /\ PlansAreClosed'
<1> DEFINE retired == CurrentTasks(f) \ kept
<1>1. /\ \A t \in Task : tasks'[t] =
           IF t \in retired THEN [CancelTask(tasks[t]) EXCEPT !.superseded = TRUE]
           ELSE IF t \in fresh THEN InsertTask(Assignee(t, pool), workflows[f].job)
           ELSE tasks[t]
      /\ fresh \subseteq { t \in Task : WorkflowOf[t] = f /\ tasks[t].status = "absent" }
      /\ kept \subseteq CurrentTasks(f)
      /\ \A t \in kept : Deps[t] \subseteq kept
      /\ \A t \in fresh : Deps[t] \subseteq kept \cup fresh
      /\ workflows' = [workflows EXCEPT ![f] = Replanned(workflows[f])]
  BY DEF ReplanWorkflow, Replan, Insertable, Keepable
<1>2. Reopens(f)
  BY <1>1 DEF Reopens, Replanned, ReplanWorkflow, Replan, CoordinatorTypeOK, WorkflowRow
<1>3. ASSUME NEW t \in fresh
      PROVE  /\ t \in Task /\ WorkflowOf[t] = f
             /\ tasks'[t].status = "pending" /\ tasks'[t].failedReviewers = {}
             /\ tasks'[t].superseded = FALSE
  <2>1. t \in Task /\ WorkflowOf[t] = f /\ t \notin retired
    BY <1>1 DEF CurrentTasks
  <2>2. tasks'[t] = InsertTask(Assignee(t, pool), workflows[f].job)
    BY <1>1, <2>1
  <2> QED
    BY <2>1, <2>2 DEF InsertTask, AbsentTask
<1>4. ASSUME NEW t \in retired
      PROVE  /\ t \in Task /\ WorkflowOf[t] = f
             /\ tasks'[t].superseded /\ tasks'[t].status \in SettledStatus
  <2>1. t \in Task /\ WorkflowOf[t] = f /\ tasks[t].status # "absent"
    BY DEF CurrentTasks
  <2>2. Retirement(tasks[t], tasks'[t])
    BY <1>1, <2>1 DEF Retirement
  <2> QED
    BY <2>1, <2>2, RowTyped, RetirementFacts
<1>5. RowsMove
  <2>1. ASSUME NEW t \in fresh \cup retired PROVE Planned(t)
    BY <1>2, <1>3, <1>4 DEF Planned
  <2> QED
    BY <1>1, <2>1, SameRow DEF RowsMove
<1>6. ASSUME NEW t \in Task, t \notin fresh \cup retired
      PROVE  tasks'[t] = tasks[t]
  BY <1>1, <1>6
<1>7. CurrentTasks(f)' = kept \cup fresh
  <2>1. ASSUME NEW t \in CurrentTasks(f)' PROVE t \in kept \cup fresh
    BY <1>4, <1>6 DEF CurrentTasks
  <2>2. ASSUME NEW t \in fresh PROVE t \in CurrentTasks(f)'
    BY <1>3 DEF CurrentTasks
  <2>3. ASSUME NEW t \in kept PROVE t \in CurrentTasks(f)'
    <3>1. t \in Task /\ t \in CurrentTasks(f) /\ t \notin fresh \cup retired
      BY <1>1 DEF CurrentTasks
    <3> QED
      BY <1>6, <3>1 DEF CurrentTasks
  <2> QED
    BY <2>1, <2>2, <2>3
<1>8. ASSUME NEW g \in Workflow, g # f PROVE CurrentTasks(g)' = CurrentTasks(g)
  <2>1. \A t \in Task : WorkflowOf[t] = g => tasks'[t] = tasks[t]
    BY <1>3, <1>4, <1>6, <1>8
  <2> QED
    BY <2>1 DEF CurrentTasks
<1>9. PlansAreClosed'
  BY <1>1, <1>7, <1>8 DEF PlansAreClosed
<1> QED
  BY <1>5, <1>9

(***************************************************************************)
(* The views of the threads.                                               *)
(***************************************************************************)

\* A thread that has just read a snapshot sees the tasks as they are.
LEMMA FreshView ==
  ASSUME CoordinatorTypeOK, RowsInv, NEW x \in Thread, ThreadInv(x), TakeSnapshot(x)
  PROVE  ViewInv(x)'
<1>1. PICK f \in Workflow : f = threads[x].wf
  BY DEF TakeSnapshot, ThreadInv, InWorkflow
<1>2. PICK seen : seen = Snapshot(f)
  OBVIOUS
<1>3. /\ threads'[x].pc \in {"settle", "decide"} /\ threads'[x].seen = seen
      /\ threads'[x].wf = f
  BY <1>1, <1>2, SnapshotThread
<1>4. tasks' = tasks /\ CurrentTasks(f)' = CurrentTasks(f)
  BY DEF TakeSnapshot, db, CurrentTasks
<1>5. ASSUME NEW t \in CurrentTasks(f)
      PROVE  Followed(f, seen, t)'
  <2>1. t \in Task /\ RowInv(t) /\ tasks[t].status # "absent"
    BY DEF CurrentTasks, RowsInv
  <2>2. seen[t].status = tasks[t].status /\ seen[t].owner = tasks[t].owner
    BY <1>2, <2>1 DEF Snapshot, View, CurrentTasks
  <2> QED
    BY <1>4, <2>1, <2>2 DEF Followed, UnderReview, RowInv, SettledStatus
<1> QED
  BY <1>3, <1>4, <1>5 DEF ViewInv

\* The decision to block: nothing of the plan was on its way.
LEMMA NothingMoves ==
  ASSUME PlansAreClosed, NEW f \in Workflow, NEW seen,
         \A t \in CurrentTasks(f) : Followed(f, seen, t),
         ~InFlightIn(seen), ~RunnableIn(seen)
  PROVE  \A t \in CurrentTasks(f) : StuckTask(t)
<1>1. ASSUME NEW t \in CurrentTasks(f)
      PROVE  /\ t \in InPlan(seen)
             /\ seen[t].status \notin {"in_progress", "reviewing"}
             /\ ~ReadyIn(seen, t)
             /\ seen[t].status = "pending_review" =>
                  ~CanReview(tasks[t], pool \ {seen[t].owner})
  <2>1. t \in InPlan(seen)
    BY DEF Followed, InPlan, CurrentTasks, SettledStatus
  <2> QED
    BY <2>1 DEF InFlightIn, RunnableIn, ReviewableIn
<1>2. ~Moving(f, seen)
  BY <1>1 DEF Moving
<1>3. ASSUME NEW t \in CurrentTasks(f), seen[t].status = "pending_review"
      PROVE  \/ tasks[t].status \in {"failed", "cancelled"}
             \/ /\ tasks[t].status = "pending_review"
                /\ ~CanReview(tasks[t], pool \ {tasks[t].owner})
  BY <1>1, <1>3 DEF Followed, UnderReview
<1>4. ASSUME NEW t \in CurrentTasks(f), seen[t].status = "pending"
      PROVE  tasks[t].status \in {"pending", "failed", "cancelled"}
  BY <1>1, <1>2, <1>4 DEF Followed
<1> SUFFICES ASSUME NEW t \in CurrentTasks(f) PROVE StuckTask(t)
  OBVIOUS
<1>5. CASE seen[t].status \in SettledStatus
  BY <1>5 DEF Followed, StuckTask
<1>6. CASE seen[t].status = "pending_review"
  BY <1>3, <1>6 DEF StuckTask, SettledStatus
<1>7. CASE seen[t].status = "pending"
  <2>1. PICK d \in Deps[t] : seen[d].status \notin {"completed", "absent"}
    BY <1>1, <1>7 DEF ReadyIn
  <2>2. d \in CurrentTasks(f) /\ Followed(f, seen, d)
    BY DEF PlansAreClosed
  <2>3. tasks[d].status # "completed"
    BY <1>1, <1>3, <1>4, <2>1, <2>2 DEF Followed, SettledStatus
  <2> QED
    BY <1>4, <1>7, <2>3 DEF StuckTask, Waits, SettledStatus
<1> QED
  BY <1>1, <1>5, <1>6, <1>7 DEF Followed

LEMMA DecideView ==
  ASSUME CoordinatorTypeOK, PlansAreClosed, NEW x \in Thread, ThreadInv(x), ViewInv(x),
         Decide(x)
  PROVE  ViewInv(x)'
<1>1. PICK f \in Workflow : f = threads[x].wf
  BY DEF Decide, ThreadInv, InWorkflow
<1>2. PICK seen : seen = threads[x].seen
  OBVIOUS
<1>3. threads[x] \in ThreadState /\ threads[x].pc = "decide"
      /\ UNCHANGED <<tasks, workflows, pool>>
  BY DEF CoordinatorTypeOK, Decide, Internal, db
<1>4. CASE Idles(x)
  <2>1. threads'[x].pc = "idle"
    BY <1>4, IdleTypes DEF Idles, Becomes, CoordinatorTypeOK
  <2> QED
    BY <2>1 DEF ViewInv
<1>5. ASSUME NEW target, NEW failed, Becomes(x, Decided(x, target, failed)),
             target = "blocked" => ~InFlightIn(seen) /\ ~RunnableIn(seen)
      PROVE  ViewInv(x)'
  <2>1. threads'[x] = Decided(x, target, failed)
    BY <1>5 DEF Becomes, CoordinatorTypeOK
  <2>2. /\ threads'[x].pc = "conclude" /\ threads'[x].target = target /\ threads'[x].wf = f
        /\ threads'[x].version = threads[x].version
        /\ threads'[x].churned = threads[x].churned
    BY <1>1, <1>3, <2>1 DEF Decided, ThreadState
  <2>3. CASE target = "blocked" /\ Steady(x)
    <3>1. \A t \in CurrentTasks(f) : Followed(f, seen, t)
      BY <1>1, <1>2, <1>3, <2>3 DEF ViewInv
    <3>2. \A t \in CurrentTasks(f) : StuckTask(t)
      BY <1>5, <2>3, <3>1, NothingMoves
    <3>3. \A t \in CurrentTasks(f)' : StuckTask(t)'
      BY <1>3, <3>2 DEF CurrentTasks, StuckTask, Waits
    <3> QED
      BY <2>2, <3>3 DEF ViewInv
  <2>4. CASE ~(target = "blocked" /\ Steady(x))
    BY <1>1, <1>3, <2>2, <2>4 DEF ViewInv, Steady, UpToDate
  <2> QED
    BY <2>3, <2>4
<1>6. \/ Becomes(x, Decided(x, "completed", {}))
      \/ Idles(x)
      \/ /\ ~InFlightIn(seen) /\ ~RunnableIn(seen)
         /\ Becomes(x, Decided(x, "blocked", { t \in InPlan(seen) : seen[t].status \in Dead }))
  BY <1>2 DEF Decide
<1> QED
  BY <1>4, <1>5, <1>6

\* A thread that keeps what it has seen and decided, whoever acted.
LEMMA ViewStep ==
  ASSUME CoordinatorTypeOK, WorkflowStep, RowsInv, PlansAreClosed, RowsMove,
         pool' = pool, NEW x \in Thread, ThreadInv(x), ViewInv(x),
         threads[x].pc # "idle",
         threads'[x].wf = threads[x].wf, threads'[x].version = threads[x].version,
         threads'[x].seen = threads[x].seen, threads'[x].churned = threads[x].churned,
         \/ threads'[x].pc = threads[x].pc /\ threads'[x].target = threads[x].target
         \/ {threads[x].pc, threads'[x].pc} \subseteq {"settle", "decide"}
  PROVE  ViewInv(x)'
<1>1. PICK f \in Workflow : f = threads[x].wf
  BY DEF ThreadInv, InWorkflow
<1>2. PICK seen : seen = threads[x].seen
  OBVIOUS
<1>3. /\ workflows[f].status # "absent" /\ threads[x].version <= workflows[f].version
      /\ threads[x].version \in Nat /\ workflows[f].version \in Nat
  BY <1>1 DEF ThreadInv, InWorkflow, CoordinatorTypeOK, ThreadState, WorkflowRow
<1>4. CASE Reopens(f)
  <2>1. ~UpToDate(x)'
    BY <1>1, <1>3, <1>4 DEF UpToDate, Reopens
  <2> QED
    BY <2>1 DEF ViewInv, Steady
<1>5. CASE ~Reopens(f)
  <2>1. Steady(x)' => Steady(x)
    BY <1>1, <1>3, <1>5 DEF Steady, UpToDate, WorkflowStep, KeepsVersion
  <2>2. \A t \in Task : WorkflowOf[t] = f => Moved(t)
    BY <1>3, <1>5 DEF RowsMove, Planned
  <2>3. ASSUME threads'[x].pc \in {"settle", "decide"}, Steady(x)'
        PROVE  \A t \in CurrentTasks(f)' : Followed(f, seen, t)'
    <3>1. \A t \in CurrentTasks(f) : Followed(f, seen, t)
      BY <1>1, <1>2, <2>1, <2>3 DEF ViewInv
    <3> QED
      BY <2>2, <3>1, FollowedStep
  <2>4. ASSUME threads'[x].pc = "conclude", threads'[x].target = "blocked", Steady(x)'
        PROVE  \A t \in CurrentTasks(f)' : StuckTask(t)'
    <3>1. \A t \in CurrentTasks(f) : StuckTask(t)
      BY <1>1, <2>1, <2>4 DEF ViewInv
    <3> QED
      BY <2>2, <3>1, StuckStep
  <2> QED
    BY <1>1, <1>2, <2>3, <2>4 DEF ViewInv
<1> QED
  BY <1>4, <1>5

\* The thread that acted, and the others.
LEMMA ViewsStep ==
  ASSUME CoordinatorTypeOK, CoordinatorTypeOK', ThreadsInv, BlockInv, WorkflowStep,
         RowsMove, PlansAreClosed', pool' = pool,
         \A x \in Thread : threads'[x] = threads[x] \/ ViewInv(x)'
  PROVE  BlockInv'
<1>1. RowsInv /\ PlansAreClosed /\ RowsInv'
  BY RowInvStep DEF BlockInv
<1>2. ASSUME NEW x \in Thread PROVE ViewInv(x)'
  <2>1. ViewInv(x) /\ ThreadInv(x)
    BY DEF BlockInv, ThreadsInv
  <2>2. CASE threads'[x] = threads[x] /\ threads[x].pc = "idle"
    BY <2>2 DEF ViewInv
  <2>3. CASE threads'[x] = threads[x] /\ threads[x].pc # "idle"
    BY <1>1, <2>1, <2>3, ViewStep
  <2> QED
    BY <2>2, <2>3
<1> QED
  BY <1>1, <1>2 DEF BlockInv

LEMMA ActorView ==
  ASSUME CoordinatorTypeOK, ThreadsInv, BlockInv, NEW x \in Thread,
         \/ ReconcileStep(x) \/ FinishStep(x)
         \/ \E f \in Workflow : \/ StartReconcile(x, f)
                                \/ FinishCompleted(x, f) \/ FinishBlocked(x, f)
         \/ \E t \in Task : SeeExpiredLease(x, t)
  PROVE  BlockInv'
<1>1. /\ CoordinatorTypeOK' /\ WorkflowStep
      /\ ThreadInv(x) /\ ViewInv(x) /\ RowsInv /\ PlansAreClosed
  BY ActorStep DEF BlockInv, ThreadsInv
<1>2. \A y \in Thread : y # x => threads'[y] = threads[y]
  BY DEF ReconcileStep, FinishStep, StartReconcile, FinishCompleted, FinishBlocked,
         Finishes, SeeExpiredLease, TakeSnapshot, RequeueExpired, SettleTask, Decide,
         Conclude, Claim, ConsultEnds, FinishMove, FinishRecord, Idles, Becomes,
         CoordinatorTypeOK
<1> SUFFICES AllMove /\ pool' = pool /\ ViewInv(x)'
  BY <1>1, <1>2, ClosedStep, ViewsStep DEF AllMove, RowsMove
<1>3. CASE RequeueExpired(x) \/ \E t \in Task : SettleTask(x, t)
  <2>1. AllMove /\ pool' = pool
    BY <1>3, RequeueMoves
  <2>2. CASE RequeueExpired(x)
    <3>1. threads'[x].pc = "snapshot"
      BY <2>2 DEF RequeueExpired, Becomes, IdleThread, CoordinatorTypeOK
    <3> QED
      BY <2>1, <3>1 DEF ViewInv
  <2>3. ASSUME NEW t \in Task, SettleTask(x, t)
        PROVE  ViewInv(x)'
    <3>1. threads[x].pc = "settle"
      BY <2>3 DEF SettleTask
    <3>2. CASE threads'[x].pc = "snapshot"
      BY <3>2 DEF ViewInv
    <3>3. CASE threads'[x].pc # "snapshot"
      <4>1. /\ threads'[x].pc \in {"settle", "decide"}
            /\ threads'[x].wf = threads[x].wf
            /\ threads'[x].version = threads[x].version
            /\ threads'[x].seen = threads[x].seen
            /\ threads'[x].churned = threads[x].churned
        BY <2>3, <3>3, SettleThread
      <4>2. RowsMove
        BY <2>1 DEF AllMove, RowsMove
      <4> QED
        BY <1>1, <2>1, <3>1, <4>1, <4>2, ViewStep
    <3> QED
      BY <3>2, <3>3
  <2> QED
    BY <1>3, <2>1, <2>2, <2>3
<1>4. CASE ~(RequeueExpired(x) \/ \E t \in Task : SettleTask(x, t))
  <2>1. UNCHANGED <<tasks, pool>>
    BY <1>4
    DEF ReconcileStep, FinishStep, StartReconcile, FinishCompleted, FinishBlocked,
        SeeExpiredLease, TakeSnapshot, Decide, Conclude, Claim, ConsultEnds, FinishMove,
        FinishRecord, Internal, db, poolState
  <2>2. AllMove
    BY <2>1, SameRow DEF AllMove
  <2>3. CASE TakeSnapshot(x)
    BY <1>1, <2>1, <2>2, <2>3, FreshView
  <2>4. CASE Decide(x)
    BY <1>1, <2>1, <2>2, <2>4, DecideView
  <2>5. ASSUME ~TakeSnapshot(x), ~Decide(x)
        PROVE  threads'[x].pc \notin {"settle", "decide", "conclude"}
    <3>1. threads[x] \in ThreadState
      BY DEF CoordinatorTypeOK
    <3>2. ASSUME \/ Conclude(x) \/ Claim(x) \/ FinishMove(x) \/ FinishRecord(x)
                 \/ \E answered \in BOOLEAN : ConsultEnds(x, answered)
          PROVE  threads'[x].pc \in {"idle", "claim", "consult", "record"}
      <4>1. \/ Idles(x) \/ Becomes(x, [threads[x] EXCEPT !.pc = "claim", !.churned = FALSE])
            \/ \E pc \in {"consult", "record"} : Becomes(x, [threads[x] EXCEPT !.pc = pc])
        BY <3>2 DEF Conclude, Claim, FinishMove, FinishRecord, ConsultEnds
      <4>2. [threads[x] EXCEPT !.pc = "claim", !.churned = FALSE].pc = "claim"
            /\ \A pc : [threads[x] EXCEPT !.pc = pc].pc = pc
        BY <3>1 DEF ThreadState
      <4> QED
        BY <4>1, <4>2, IdleTypes DEF Idles, Becomes, CoordinatorTypeOK
    <3>3. ASSUME NEW f \in Workflow, StartReconcile(x, f)
          PROVE  threads'[x].pc = "snapshot"
      BY <3>3 DEF StartReconcile, Becomes, IdleThread, CoordinatorTypeOK
    <3>4. ASSUME NEW f \in Workflow, FinishCompleted(x, f) \/ FinishBlocked(x, f)
          PROVE  threads'[x].pc \in {"move", "record"}
      <4>1. PICK pc \in {"move", "record"} : \E target : Finishes(x, f, pc, target)
        BY <3>4 DEF FinishCompleted, FinishBlocked
      <4> QED
        BY <4>1 DEF Finishes, Becomes, IdleThread, CoordinatorTypeOK
    <3>5. ASSUME NEW t \in Task, SeeExpiredLease(x, t)
          PROVE  threads'[x].pc = "lease"
      <4> DEFINE seen == [NothingSeen EXCEPT ![t] = View(t)]
      <4>1. threads'[x] = [threads[x] EXCEPT !.pc = "lease", !.todo = {t}, !.seen = seen]
        BY <3>5 DEF SeeExpiredLease, Becomes, CoordinatorTypeOK
      <4> HIDE DEF seen
      <4> QED
        BY <3>1, <4>1 DEF ThreadState
    <3> QED
      BY <1>4, <2>5, <3>2, <3>3, <3>4, <3>5 DEF ReconcileStep, FinishStep
  <2>6. CASE ~TakeSnapshot(x) /\ ~Decide(x)
    BY <2>1, <2>2, <2>5, <2>6 DEF ViewInv
  <2> QED
    BY <2>3, <2>4, <2>6
<1> QED
  BY <1>3, <1>4

LEMMA BlockStep ==
  ASSUME IndInv, BlockInv, [Next]_vars
  PROVE  BlockInv'
<1>1. /\ CoordinatorTypeOK /\ ThreadsInv /\ PlansAreClosed
      /\ CoordinatorTypeOK'
  BY IndStep DEF IndInv, CoordinatorInv, BlockInv
<1>2. ASSUME WorkflowStep, RowsMove, PlansAreClosed', UNCHANGED <<threads, pool>>
      PROVE  BlockInv'
  BY <1>1, <1>2, ViewsStep
<1>3. ASSUME UNCHANGED <<tasks, workflows>>
      PROVE  AllMove /\ RowsMove /\ PlansAreClosed' /\ WorkflowStep
  <2>1. AllMove
    BY <1>3, SameRow DEF AllMove
  <2>2. WorkflowStep
    BY <1>3, SamePlans DEF WorkflowStep, KeepsVersion
  <2> QED
    BY <1>1, <2>1, <2>2, ClosedStep DEF AllMove, RowsMove
<1>4. ASSUME NEW x \in Thread,
             \/ ReconcileStep(x) \/ FinishStep(x)
             \/ \E f \in Workflow : \/ StartReconcile(x, f)
                                    \/ FinishCompleted(x, f) \/ FinishBlocked(x, f)
             \/ \E t \in Task : SeeExpiredLease(x, t)
      PROVE  BlockInv'
  BY <1>1, <1>4, ActorView
<1>5. ASSUME NEW f \in Workflow,
             \/ Create(f) \/ Start(f) \/ Pause(f) \/ Resume(f) \/ Cancel(f) \/ FinishFailed(f)
             \/ \E kept, fresh : ReplanWorkflow(f, kept, fresh)
      PROVE  BlockInv'
  <2>1. WorkflowStep
    BY <1>1, <1>5, CreateTypes, MoveTypes, ReplanTypes
  <2>2. UNCHANGED <<threads, pool>>
    BY <1>5 DEF Create, Start, Pause, Resume, Cancel, FinishFailed, ReplanWorkflow, Moves,
                Stops, Internal
  <2>3. RowsMove /\ PlansAreClosed'
    <3>1. CASE Create(f)
      BY <1>1, <3>1, CreatePlans
    <3>2. CASE \E kept, fresh : ReplanWorkflow(f, kept, fresh)
      BY <1>1, <3>2, ReplanPlans
    <3>3. CASE Start(f) \/ Pause(f) \/ Resume(f) \/ Cancel(f) \/ FinishFailed(f)
      <4>1. AllMove
        BY <1>1, <3>3, StatusMoves
      <4> QED
        BY <1>1, <4>1, ClosedStep DEF AllMove, RowsMove
    <3> QED
      BY <1>5, <3>1, <3>2, <3>3
  <2> QED
    BY <1>2, <2>1, <2>2, <2>3
<1>6. ASSUME NEW t \in Task, TaskStep(t)
      PROVE  BlockInv'
  <2>1. AllMove /\ UNCHANGED <<threads, pool>> /\ WorkflowStep
    BY <1>1, <1>6, TaskMoves, TaskTypes
  <2> QED
    BY <1>1, <1>2, <2>1, ClosedStep DEF AllMove, RowsMove
<1>7. CASE Membership
  <2>1. UNCHANGED <<tasks, workflows>>
    BY <1>7 DEF Membership, Leaves, Joins, Suspends, CooldownEnds, db
  <2>2. CASE UNCHANGED <<threads, pool>>
    BY <1>2, <1>3, <2>1, <2>2
  <2>3. CASE Churns
    <3>1. ASSUME NEW x \in Thread PROVE ViewInv(x)'
      <4>1. threads[x] \in ThreadState
        BY <1>1 DEF CoordinatorTypeOK
      <4>2. \/ threads'[x].pc \notin {"settle", "decide", "conclude"}
            \/ threads'[x].churned
        BY <2>3, <4>1 DEF Churns, ThreadState
      <4> QED
        BY <4>2 DEF ViewInv, Steady
    <3>2. RowsInv'
      BY <1>1, <1>3, <2>1, RowInvStep DEF BlockInv
    <3> QED
      BY <1>3, <2>1, <3>1, <3>2 DEF BlockInv
  <2> QED
    BY <1>7, <2>2, <2>3 DEF Membership, Leaves, Joins, Suspends, CooldownEnds
<1>8. CASE UNCHANGED vars
  BY <1>2, <1>3, <1>8 DEF vars
<1>9. CASE Next
  BY <1>4, <1>5, <1>6, <1>7, <1>9 DEF Next, ToolStep, Thread, Membership
<1> QED
  BY <1>8, <1>9

LEMMA BlockInit == Init => BlockInv
BY IdleTypes
DEF Init, BlockInv, RowsInv, RowInv, PlansAreClosed, ViewInv, CurrentTasks, AbsentTask,
    SettledStatus

\* The step by which a thread blocks a workflow is its compare-and-set.
LEMMA OnlyConclusionsBlock ==
  ASSUME CoordinatorTypeOK, Next, NEW x \in Thread,
         threads[x].pc = "conclude", threads'[x].pc = "claim"
  PROVE  Conclude(x)
<1>1. \A y \in Thread : threads[y] \in ThreadState
  BY DEF CoordinatorTypeOK
<1>2. threads'[x] # threads[x]
  OBVIOUS
<1>3. ASSUME NEW y \in Thread,
             \/ ReconcileStep(y) \/ FinishStep(y)
             \/ \E f \in Workflow : \/ StartReconcile(y, f)
                                    \/ FinishCompleted(y, f) \/ FinishBlocked(y, f)
             \/ \E t \in Task : SeeExpiredLease(y, t)
      PROVE  Conclude(x)
  <2>1. y = x
    BY <1>2, <1>3
    DEF ReconcileStep, FinishStep, StartReconcile, FinishCompleted, FinishBlocked,
        Finishes, SeeExpiredLease, TakeSnapshot, RequeueExpired, SettleTask, Decide,
        Conclude, Claim, ConsultEnds, FinishMove, FinishRecord, Idles, Becomes,
        CoordinatorTypeOK
  <2> QED
    BY <1>3, <2>1
    DEF ReconcileStep, FinishStep, StartReconcile, FinishCompleted, FinishBlocked,
        SeeExpiredLease, TakeSnapshot, RequeueExpired, SettleTask, Decide, Claim,
        ConsultEnds, FinishMove, FinishRecord
<1>4. ASSUME NEW f \in Workflow,
             \/ Create(f) \/ Start(f) \/ Pause(f) \/ Resume(f) \/ Cancel(f) \/ FinishFailed(f)
             \/ \E kept, fresh : ReplanWorkflow(f, kept, fresh)
      PROVE  FALSE
  BY <1>2, <1>4
  DEF Create, Start, Pause, Resume, Cancel, FinishFailed, ReplanWorkflow, Moves, Stops
<1>5. ASSUME NEW t \in Task, TaskStep(t)
      PROVE  FALSE
  BY <1>2, <1>5, TaskMoves
<1>6. CASE Membership
  BY <1>1, <1>6, PoolTypes DEF Bystander, ThreadState
<1> QED
  BY <1>3, <1>4, <1>5, <1>6 DEF Next, ToolStep, Thread, Membership

\* A reconcile that blocks a workflow in the pool it decided with leaves no task
\* of it running, under review or able to start, whatever happened to the tasks
\* since its snapshot, and for every plan, pool and number of threads
\* (coordinator.py reconcile, _conclude).
THEOREM BlockedWorkflowsAreStuck == Spec => BlocksOnlyStuck
<1>1. ASSUME IndInv, BlockInv, [Next]_vars, NEW x \in Thread,
             threads[x].pc = "conclude", threads'[x].pc = "claim",
             threads[x].target = "blocked", ~threads[x].churned,
             NEW t \in CurrentTasks(threads[x].wf)
      PROVE  tasks[t].status \notin {"in_progress", "reviewing"} /\ ~Runnable(t)
  <2>1. CoordinatorTypeOK /\ ViewInv(x)
    BY <1>1 DEF IndInv, CoordinatorInv, BlockInv
  <2>2. Conclude(x)
    BY <1>1, <2>1, OnlyConclusionsBlock DEF vars
  <2>3. ~Idles(x)
    BY <1>1, <2>1, IdleTypes DEF Idles, Becomes, CoordinatorTypeOK
  <2>4. UpToDate(x)
    BY <2>2, <2>3 DEF Conclude, SetStatus, UpToDate
  <2>5. StuckTask(t)
    BY <1>1, <2>1, <2>4 DEF ViewInv, Steady
  <2> QED
    BY <2>5 DEF StuckTask, Waits, Runnable, SettledStatus
<1>2. IndInv /\ BlockInv /\ [Next]_vars =>
        [\A x \in Thread :
           /\ threads[x].pc = "conclude" /\ threads'[x].pc = "claim"
           /\ threads[x].target = "blocked" /\ ~threads[x].churned
           => \A t \in CurrentTasks(threads[x].wf) :
                tasks[t].status \notin {"in_progress", "reviewing"} /\ ~Runnable(t)]_vars
  BY <1>1
<1>3. IndInv /\ BlockInv /\ [Next]_vars => IndInv' /\ BlockInv'
  BY IndStep, BlockStep
<1> QED
  BY <1>2, <1>3, IndInit, BlockInit, PTL DEF Spec, BlocksOnlyStuck

===========================================================================
