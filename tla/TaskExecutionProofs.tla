------------------------ MODULE TaskExecutionProofs ------------------------
(***************************************************************************)
(* Theorems about TaskExecution, for every pool, plan, number of sessions  *)
(* and limit.                                                              *)
(***************************************************************************)
EXTENDS TaskExecution, WorkflowRepositoryProofs

(***************************************************************************)
(* Type correctness.  It needs one more fact: a slot that is neither off   *)
(* nor idle works on a task, so the writes of its handler hit a row.       *)
(***************************************************************************)

Busy(w) == workers[w].pc \notin {"off", "idle"}

WorkersOK ==
  /\ workers \in [Worker -> WorkerState]
  /\ \A w \in Worker : Busy(w) => workers[w].task \in Task

TypeInv == TypeOK /\ WorkersOK

LEMMA GoesTypes ==
  ASSUME WorkersOK, NEW w \in Worker, Busy(w), NEW pc \in Pc, Goes(w, pc)
  PROVE  WorkersOK'
BY DEF WorkersOK, Busy, Goes, WorkerState

LEMMA EndsTypes ==
  ASSUME WorkersOK, NEW w \in Worker, Ends(w)
  PROVE  WorkersOK'
<1>1. IdleWorker \in WorkerState /\ IdleWorker.pc = "idle"
  BY DEF IdleWorker, WorkerState, Pc, Cuts, AgentOrNull, Delivery, NoDelivery
<1> QED
  BY <1>1 DEF WorkersOK, Busy, Ends

LEMMA TakesTypes ==
  ASSUME TypeInv, NEW w \in Worker, NEW t \in Task, NEW pc \in Pc,
         NEW owner \in AgentOrNull, NEW delivery \in Delivery,
         Takes(w, pc, t, owner, delivery)
  PROVE  WorkersOK'
<1>1. tasks[t].attempt \in Nat
  BY DEF TypeInv, TypeOK, TaskRow
<1> QED
  BY <1>1 DEF TypeInv, WorkersOK, Busy, Takes, WorkerState, Cuts

LEMMA WritesRowTypes ==
  ASSUME TypeInv, NEW w \in Worker, Busy(w), NEW row \in TaskRow, WritesRow(w, row)
  PROVE  tasks' \in [Task -> TaskRow]
BY DEF TypeInv, TypeOK, WorkersOK, WritesRow

LEMMA BusyTypes ==
  ASSUME TypeInv, NEW w \in Worker, Busy(w)
  PROVE  /\ workers[w].task \in Task
         /\ TaskOf(w) \in TaskRow
         /\ AgentOf[w] \in Agent
         /\ AgentOf[w] \in AgentOrNull
         /\ workers[w].attempt \in Nat
         /\ workers[w].owner \in AgentOrNull
         /\ workers[w].delivery \in Delivery
         /\ [agent |-> AgentOf[w], attempt |-> workers[w].attempt] \in Delivery
<1>1. AgentOf[w] \in Agent
  BY ExecutionAssumption
<1>2. workers[w] \in WorkerState /\ workers[w].task \in Task
  BY DEF TypeInv, WorkersOK
<1>3. TaskOf(w) \in TaskRow
  BY <1>2 DEF TypeInv, TypeOK, TaskOf
<1> QED
  BY <1>1, <1>2, <1>3 DEF WorkerState, AgentOrNull, Delivery

LEMMA AttemptTypes ==
  ASSUME TypeInv, NEW t \in Task, NEW n \in Nat, NEW agent \in Agent,
         NEW status \in AttemptStatus, NEW ts
  PROVE  /\ BeginAttempt(t, n, agent) \subseteq AttemptRow
         /\ FinishAttempt(t, n, agent, status) \subseteq AttemptRow
         /\ CloseOpenAttempts(ts) \subseteq AttemptRow
         /\ InterruptAttempts(ts) \subseteq AttemptRow
<1>1. \A r \in attempts, s \in AttemptStatus :
        r \in AttemptRow /\ [r EXCEPT !.status = s] \in AttemptRow
  BY DEF TypeInv, TypeOK, AttemptRow
<1>2. BeginAttempt(t, n, agent) \subseteq AttemptRow
  <2>1. [task |-> t, attempt |-> n, agent |-> agent, status |-> "running"] \in AttemptRow
    BY DEF AttemptRow, AttemptStatus
  <2> QED
    BY <1>1, <2>1 DEF BeginAttempt
<1>3. FinishAttempt(t, n, agent, status) \subseteq AttemptRow
  BY <1>1 DEF FinishAttempt
<1>4. CloseOpenAttempts(ts) \subseteq AttemptRow
  BY <1>1 DEF CloseOpenAttempts, AttemptStatus
<1>5. InterruptAttempts(ts) \subseteq AttemptRow
  BY <1>1 DEF InterruptAttempts, AttemptStatus
<1> QED
  BY <1>2, <1>3, <1>4, <1>5

LEMMA ClosesTypes ==
  ASSUME TypeInv, NEW w \in Worker, Busy(w)
  PROVE  /\ \A status \in AttemptStatus :
              Closes(w, status) => attempts' \subseteq AttemptRow
         /\ Aborts(w) => attempts' \subseteq AttemptRow
         /\ \A verdict \in {"accepted", "rejected"} :
              RecordVerdict(w, verdict) => attempts' \subseteq AttemptRow
<1>1. ASSUME NEW status \in AttemptStatus, Closes(w, status)
      PROVE  attempts' \subseteq AttemptRow
  BY <1>1, BusyTypes, AttemptTypes DEF Closes
<1>2. Aborts(w) => attempts' \subseteq AttemptRow
  <2>1. DiscardReason(w) \in AttemptStatus /\ "failed" \in AttemptStatus
    BY DEF DiscardReason, AttemptStatus
  <2> QED
    BY <1>1, <2>1 DEF Aborts, TypeInv, TypeOK
<1>3. ASSUME NEW verdict \in {"accepted", "rejected"}, RecordVerdict(w, verdict)
      PROVE  attempts' \subseteq AttemptRow
  <2>1. CASE workers[w].owner = NoAgent
    BY <1>3, <2>1 DEF RecordVerdict, TypeInv, TypeOK
  <2>2. CASE workers[w].owner # NoAgent
    <3>1. workers[w].owner \in Agent /\ verdict \in AttemptStatus
      BY <2>2, BusyTypes DEF AgentOrNull, AttemptStatus
    <3> QED
      BY <1>3, <2>2, <3>1, BusyTypes, AttemptTypes DEF RecordVerdict
  <2> QED
    BY <2>1, <2>2
<1> QED
  BY <1>1, <1>2, <1>3

\* The claims and the steps of a slot.
LEMMA ClaimTypes ==
  ASSUME TypeInv, NEW w \in Worker, NEW t \in Task,
         Claim(w, t) \/ ClaimReview(w, t)
  PROVE  TypeInv' /\ UNCHANGED <<workflows, attempts, process>>
<1> USE NullTypes
<1>1. tasks[t] \in TaskRow /\ AgentOf[w] \in Agent /\ tasks[t].attempt \in Nat
      /\ tasks[t].owner \in AgentOrNull /\ tasks[t].delivery \in Delivery
  BY ExecutionAssumption DEF TypeInv, TypeOK, TaskRow
<1>2. ClaimTask(tasks[t], AgentOf[w]) \in TaskRow
      /\ ClaimReviewTask(tasks[t], AgentOf[w]) \in TaskRow
  BY <1>1, WriteTypes
<1>3. tasks' \in [Task -> TaskRow]
  BY <1>2 DEF Claim, ClaimReview, TypeInv, TypeOK
<1>4. WorkersOK'
  <2> USE <1>1
  <2>1. {"claimed", "r_claimed"} \subseteq Pc
    BY DEF Pc, PollPc
  <2>2. AgentOf[w] \in AgentOrNull
    BY DEF AgentOrNull
  <2> QED
    BY <2>1, <2>2, TakesTypes DEF Claim, ClaimReview
<1>5. faults' \in Nat
  BY DEF Claim, ClaimReview, Fault, NoFault, TypeInv, TypeOK
<1> QED
  BY <1>3, <1>4, <1>5
  DEF Claim, ClaimReview, process, sessionState, poolState, runs, TypeInv,
      TypeOK, WorkersOK

\* The steps of a busy slot that leave the rows of the tasks alone.
LEMMA QuietTypes ==
  ASSUME TypeInv, NEW w \in Worker,
         \/ Load(w) \/ LoadReview(w) \/ Begin(w) \/ Check(w)
         \/ Dispatch(w) \/ CheckRun(w) \/ ClearEvent(w) \/ NoAnswer(w)
         \/ \E answer \in {"none", "ok", "bad"} : Answer(w, answer)
         \/ FinishWorkflowRun(w) \/ FinishPlainRun(w)
         \/ \E verdict \in {"r_accept", "r_reject", "r_none"} : ReviewAnswer(w, verdict)
         \/ RecordAccepted(w) \/ RecordRejected(w) \/ HandlerReads(w) \/ StopSlot(w)
         \/ LoadRaises(w) \/ RunRaises(w) \/ ReviewRaises(w) \/ HandlerRaises(w)
         \/ CutRun(w)
  PROVE  TypeInv' /\ UNCHANGED <<tasks, workflows, process>>
<1> DEFINE Quiet == UNCHANGED <<tasks, workflows, process>> /\ faults' \in Nat
<1>1. ASSUME Quiet, WorkersOK', attempts' \subseteq AttemptRow
      PROVE  TypeInv' /\ UNCHANGED <<tasks, workflows, process>>
  BY <1>1 DEF TypeInv, TypeOK, WorkersOK, process, sessionState, poolState, runs
<1>2. faults \in Nat /\ faults + 1 \in Nat
  BY DEF TypeInv, TypeOK
<1>3. attempts \subseteq AttemptRow /\ WorkersOK
  BY DEF TypeInv, TypeOK
<1>4. ExecPc \subseteq Pc /\ ReviewPc \subseteq Pc
      /\ {"off", "escaped", "failing", "unloaded", "begin", "check", "dispatch", "bound",
          "starting", "live", "answered", "deliver", "rework", "handoff", "r_dispatch",
          "r_bound", "r_starting", "r_live", "r_none", "r_rework"} \subseteq Pc
  BY DEF Pc, PollPc, ExecPc, ReviewPc
<1>5. CASE Begin(w)
  <2>1. Busy(w)
    BY <1>5 DEF Begin, Busy
  <2>2. Quiet /\ WorkersOK'
    BY <1>2, <1>3, <1>4, <1>5, <2>1, GoesTypes DEF Begin, NoFault
  <2>3. attempts' \subseteq AttemptRow
    <3>1. "running" \in AttemptStatus
      BY DEF AttemptStatus
    <3> QED
      BY <1>5, <2>1, <3>1, BusyTypes, AttemptTypes DEF Begin
  <2> QED
    BY <1>1, <2>2, <2>3
<1>6. CASE Check(w) \/ NoAnswer(w)
  <2>1. Busy(w)
    BY <1>6 DEF Check, NoAnswer, Busy
  <2>2. Quiet /\ WorkersOK'
    BY <1>2, <1>3, <1>4, <1>6, <2>1, GoesTypes, EndsTypes DEF Check, NoAnswer, NoFault
  <2>3. attempts' \subseteq AttemptRow
    BY <1>3, <1>6, <2>1, ClosesTypes DEF Check, NoAnswer
  <2> QED
    BY <1>1, <2>2, <2>3
<1>7. CASE Dispatch(w)
  <2>1. Busy(w)
    BY <1>7 DEF Dispatch, Busy
  <2>2. \E pc \in Pc : Goes(w, pc)
    BY <1>4, <1>7 DEF Dispatch, Side
  <2>3. Quiet /\ attempts' \subseteq AttemptRow
    BY <1>2, <1>3, <1>7 DEF Dispatch, NoFault
  <2> QED
    BY <1>1, <1>3, <2>1, <2>2, <2>3, GoesTypes
<1>8. CASE \/ \E answer \in {"none", "ok", "bad"} : Answer(w, answer)
           \/ \E verdict \in {"r_accept", "r_reject", "r_none"} : ReviewAnswer(w, verdict)
  <2>1. Busy(w)
    BY <1>8 DEF Answer, ReviewAnswer, Busy
  <2>2. WorkersOK'
    <3>1. CASE \E answer \in {"none", "ok", "bad"} : Answer(w, answer)
      BY <1>3, <2>1, <3>1 DEF Answer, WorkersOK, Busy, WorkerState, Pc, ExecPc, Cuts
    <3>2. CASE \E verdict \in {"r_accept", "r_reject", "r_none"} : ReviewAnswer(w, verdict)
      BY <1>3, <2>1, <3>2 DEF ReviewAnswer, WorkersOK, Busy, WorkerState, Pc, ReviewPc, Cuts
    <3> QED
      BY <1>8, <3>1, <3>2
  <2>3. Quiet /\ attempts' \subseteq AttemptRow
    BY <1>2, <1>3, <1>8 DEF Answer, ReviewAnswer, NoFault
  <2> QED
    BY <1>1, <2>2, <2>3
<1>9. CASE FinishWorkflowRun(w) \/ FinishPlainRun(w)
  <2>1. Busy(w)
    BY <1>9 DEF FinishWorkflowRun, FinishPlainRun, Busy
  <2>2. Quiet /\ WorkersOK'
    BY <1>2, <1>3, <1>4, <1>9, <2>1, GoesTypes, EndsTypes
    DEF FinishWorkflowRun, FinishPlainRun, NoFault
  <2>3. attempts' \subseteq AttemptRow
    <3>1. {DiscardReason(w), "submitted", "insufficient_evidence"} \subseteq AttemptStatus
      BY DEF DiscardReason, AttemptStatus
    <3> QED
      BY <1>3, <1>9, <2>1, <3>1, ClosesTypes DEF FinishWorkflowRun, FinishPlainRun
  <2> QED
    BY <1>1, <2>2, <2>3
<1>10. CASE RecordAccepted(w) \/ RecordRejected(w)
  <2>1. Busy(w)
    BY <1>10 DEF RecordAccepted, RecordRejected, Busy
  <2>2. Quiet /\ WorkersOK'
    BY <1>2, <1>3, <1>4, <1>10, <2>1, GoesTypes, EndsTypes
    DEF RecordAccepted, RecordRejected, NoFault
  <2>3. attempts' \subseteq AttemptRow
    BY <1>10, <2>1, ClosesTypes DEF RecordAccepted, RecordRejected
  <2> QED
    BY <1>1, <2>2, <2>3
<1>11. CASE HandlerReads(w)
  <2>1. Busy(w)
    BY <1>11 DEF HandlerReads, Busy
  <2>2. Quiet /\ WorkersOK' /\ attempts' \subseteq AttemptRow
    BY <1>2, <1>3, <1>4, <1>11, <2>1, GoesTypes, EndsTypes DEF HandlerReads, NoFault
  <2> QED
    BY <1>1, <2>2
<1>12. CASE StopSlot(w)
  <2>1. WorkersOK'
    BY <1>3, <1>4, <1>12 DEF StopSlot, Goes, WorkersOK, Busy, WorkerState
  <2>2. Quiet /\ attempts' \subseteq AttemptRow
    BY <1>2, <1>3, <1>12 DEF StopSlot, NoFault
  <2> QED
    BY <1>1, <2>1, <2>2
<1>13. CASE RunRaises(w) \/ ReviewRaises(w)
  <2>1. Busy(w)
    BY <1>13 DEF RunRaises, ReviewRaises, Busy, ExecPc, ReviewPc
  <2>2. WorkersOK'
    BY <1>3, <1>4, <1>13, <2>1
    DEF RunRaises, ReviewRaises, WorkersOK, Busy, WorkerState, Cuts
  <2>3. Quiet /\ attempts' \subseteq AttemptRow
    BY <1>2, <1>3, <1>13, <2>1, ClosesTypes DEF RunRaises, ReviewRaises, Fault
  <2> QED
    BY <1>1, <2>2, <2>3
<1>14. CASE HandlerRaises(w) \/ LoadRaises(w)
  <2>1. Busy(w)
    BY <1>14 DEF HandlerRaises, LoadRaises, Busy
  <2>2. Quiet /\ WorkersOK' /\ attempts' \subseteq AttemptRow
    BY <1>2, <1>3, <1>4, <1>14, <2>1, GoesTypes DEF HandlerRaises, LoadRaises, Fault
  <2> QED
    BY <1>1, <2>2
<1>15. CASE Load(w) \/ LoadReview(w)
  <2>1. Busy(w)
    BY <1>15 DEF Load, LoadReview, Busy
  <2> DEFINE t == workers[w].task
  <2>2. t \in Task /\ tasks[t].owner \in AgentOrNull /\ tasks[t].delivery \in Delivery
        /\ AgentOf[w] \in AgentOrNull /\ NoDelivery \in Delivery
    BY <2>1, BusyTypes, NullTypes DEF TypeInv, TypeOK, TaskRow
  <2>3. \/ Ends(w)
        \/ \E pc \in Pc, owner \in AgentOrNull, delivery \in Delivery :
             Takes(w, pc, t, owner, delivery)
    BY <1>4, <1>15, <2>2 DEF Load, LoadReview
  <2>4. WorkersOK'
    BY <1>3, <2>2, <2>3, TakesTypes, EndsTypes
  <2>5. Quiet /\ attempts' \subseteq AttemptRow
    BY <1>2, <1>3, <1>15 DEF Load, LoadReview, NoFault
  <2> QED
    BY <1>1, <2>4, <2>5
<1>16. CASE CheckRun(w) \/ ClearEvent(w) \/ CutRun(w)
  <2> DEFINE Moved(pc, cut) == workers' = [workers EXCEPT ![w].pc = pc, ![w].cut = cut]
  <2>1. workers[w] \in WorkerState /\ workers[w].pc \in Pc /\ workers[w].cut \in Cuts
        /\ {"none", "set", "erased"} \subseteq Cuts
    BY <1>3 DEF WorkersOK, WorkerState, Cuts
  <2>2. PICK pc \in Pc, cut \in Cuts :
          Moved(pc, cut) /\ (pc = workers[w].pc \/ Busy(w))
    <3>1. CASE CheckRun(w)
      <4>1. Busy(w)
        BY <3>1 DEF CheckRun, Busy
      <4>2. CASE workers[w].cut = "set"
        <5>1. Moved(Side(w, "answered", "r_none"), "none")
          BY <3>1, <4>2 DEF CheckRun
        <5>2. Side(w, "answered", "r_none") \in Pc
          BY <1>4 DEF Side
        <5> QED
          BY <2>1, <4>1, <5>1, <5>2
      <4>3. CASE workers[w].cut # "set"
        <5>1. Moved(Side(w, "starting", "r_starting"), workers[w].cut)
          BY <1>3, <2>1, <3>1, <4>3 DEF CheckRun, Goes, WorkersOK, WorkerState
        <5>2. Side(w, "starting", "r_starting") \in Pc
          BY <1>4 DEF Side
        <5> QED
          BY <2>1, <4>1, <5>1, <5>2
      <4> QED
        BY <4>2, <4>3
    <3>2. CASE ClearEvent(w)
      <4>1. Busy(w)
        BY <3>2 DEF ClearEvent, Busy
      <4>2. Moved(Side(w, "live", "r_live"),
                  IF workers[w].cut = "set" THEN "erased" ELSE workers[w].cut)
        BY <3>2 DEF ClearEvent
      <4>3. Side(w, "live", "r_live") \in Pc
        BY <1>4 DEF Side
      <4> QED
        BY <2>1, <4>1, <4>2, <4>3
    <3>3. CASE CutRun(w)
      <4>1. Moved(workers[w].pc, "set")
        BY <1>3, <2>1, <3>3 DEF CutRun, WorkersOK, WorkerState
      <4> QED
        BY <2>1, <4>1
    <3> QED
      BY <1>16, <3>1, <3>2, <3>3
  <2>3. WorkersOK'
    <3>1. \A v \in Worker : v # w => workers[v]' = workers[v]
      BY <1>3, <2>2 DEF WorkersOK
    <3>2. workers[w]' = [workers[w] EXCEPT !.pc = pc, !.cut = cut]
      BY <1>3, <2>2 DEF WorkersOK
    <3>3. workers' \in [Worker -> WorkerState]
      <4>1. [workers[w] EXCEPT !.pc = pc, !.cut = cut] \in WorkerState
        BY <2>1 DEF WorkerState
      <4> QED
        BY <1>3, <2>2, <4>1 DEF WorkersOK
    <3>4. workers[w]'.pc = pc /\ workers[w]'.task = workers[w].task
      BY <2>1, <3>2 DEF WorkerState
    <3> QED
      BY <1>3, <2>2, <3>1, <3>3, <3>4 DEF WorkersOK, Busy
  <2>4. Quiet /\ attempts' \subseteq AttemptRow
    BY <1>2, <1>3, <1>16 DEF CheckRun, ClearEvent, CutRun, NoFault
  <2> QED
    BY <1>1, <2>3, <2>4
<1> QED
  BY <1>5, <1>6, <1>7, <1>8, <1>9, <1>10, <1>11, <1>12, <1>13, <1>14, <1>15, <1>16

\* The transactions of a handler on the row of its task.
HandlerStep(w) ==
  \/ Deliver(w) \/ Rework(w) \/ HandOff(w) \/ CompleteReview(w) \/ ReviewRework(w)
  \/ RejectPlain(w) \/ ReviewerUnavailable(w) \/ FailUnfenced(w)

LEMMA HandlerWrites ==
  ASSUME TypeInv, NEW w \in Worker, HandlerStep(w)
  PROVE  /\ Busy(w)
         /\ \E s : WritesRow(w, s) /\ HandlerWrite(TaskOf(w), s)
<1>1. Busy(w)
  BY
  DEF HandlerStep, Deliver, Rework, HandOff, CompleteReview, ReviewRework,
      RejectPlain,
         ReviewerUnavailable, FailUnfenced, Busy
<1> DEFINE a == AgentOf[w]
           n == workers[w].attempt
           t == workers[w].task
           row == TaskOf(w)
           mine == [agent |-> a, attempt |-> n]
<1>2. t \in Task /\ row \in TaskRow /\ a \in Agent /\ a \in AgentOrNull /\ n \in Nat
      /\ workers[w].owner \in AgentOrNull /\ workers[w].delivery \in Delivery
      /\ mine \in Delivery /\ NoDelivery \in Delivery /\ NoAgent \in AgentOrNull
  BY <1>1, BusyTypes, NullTypes
<1>3. FenceOf(w) \in SUBSET Nat /\ AnyAttempt \in SUBSET Nat
  BY <1>2 DEF FenceOf, Fence, AnyAttempt
<1>4. \E s : WritesRow(w, s) /\ HandlerWrite(row, s)
  <2>1. CASE Deliver(w)
    <3>1. \/ WritesRow(w, SubmitForReview(row, FenceOf(w), mine))
          \/ WritesRow(w, CompleteTask(row, FenceOf(w), mine, NoAgent))
      BY <2>1 DEF Deliver
    <3> QED
      BY <1>2, <1>3, <3>1 DEF HandlerWrite
  <2>2. CASE Rework(w)
    BY <1>2, <1>3, <2>2 DEF Rework, HandlerWrite
  <2>3. CASE HandOff(w)
    <3>1. \/ WritesRow(w, RequeueTask(row, FenceOf(w), a, FALSE))
          \/ WritesRow(w, RequeueTask(row, FenceOf(w), a, TRUE))
          \/ WritesRow(w, FailTask(row, FenceOf(w), TaskStatus))
      BY <2>3 DEF HandOff
    <3> QED
      BY <1>2, <1>3, <3>1 DEF HandlerWrite
  <2>4. CASE CompleteReview(w)
    BY <1>2, <1>3, <2>4 DEF CompleteReview, HandlerWrite
  <2>5. CASE ReviewRework(w)
    BY <1>2, <1>3, <2>5 DEF ReviewRework, HandlerWrite
  <2>6. CASE RejectPlain(w)
    <3> DEFINE author == IF workers[w].owner = NoAgent THEN a ELSE workers[w].owner
    <3>1. author \in Agent
      BY <1>2 DEF AgentOrNull
    <3>2. WritesRow(w, RequeueTaskAfterReview(row, FenceOf(w), author, workers[w].delivery))
      BY <2>6 DEF RejectPlain
    <3> QED
      BY <1>2, <1>3, <3>1, <3>2 DEF HandlerWrite
  <2>7. CASE ReviewerUnavailable(w)
    <3>1. \E exclude \in BOOLEAN :
            \/ WritesRow(w, CompleteTask(row, FenceOf(w), workers[w].delivery, NoAgent))
            \/ WritesRow(w, ReturnReview(row, FenceOf(w), a, exclude))
      BY <2>7 DEF ReviewerUnavailable
    <3> QED
      BY <1>2, <1>3, <3>1 DEF HandlerWrite
  <2>8. CASE FailUnfenced(w)
    BY <1>2, <1>3, <2>8 DEF FailUnfenced, HandlerWrite
  <2> QED
    BY <2>1, <2>2, <2>3, <2>4, <2>5, <2>6, <2>7, <2>8 DEF HandlerStep
<1> QED
  BY <1>1, <1>4

LEMMA HandlerTypes ==
  ASSUME TypeInv, NEW w \in Worker, HandlerStep(w)
  PROVE  /\ TypeInv' /\ UNCHANGED <<workflows, attempts, process>>
         /\ Rewrites
<1> DEFINE t == workers[w].task
           row == TaskOf(w)
<1>1. Busy(w)
  BY HandlerWrites
<1>2. t \in Task /\ row \in TaskRow
  BY <1>1, BusyTypes
<1>3. PICK s : WritesRow(w, s) /\ HandlerWrite(row, s)
  BY HandlerWrites
<1>4. s \in TaskRow
  BY <1>2, <1>3, HandlerWriteTypes
<1>5. tasks' \in [Task -> TaskRow]
  BY <1>1, <1>3, <1>4, WritesRowTypes
<1>6. WorkersOK'
  <2>1. WorkersOK /\ "r_accepted" \in Pc
    BY DEF TypeInv, Pc, ReviewPc
  <2>2. Ends(w) \/ Goes(w, "r_accepted")
    BY
    DEF HandlerStep, Deliver, Rework, HandOff, CompleteReview, ReviewRework,
        RejectPlain,
           ReviewerUnavailable, FailUnfenced
  <2> QED
    BY <1>1, <2>1, <2>2, GoesTypes, EndsTypes
<1>7. /\ UNCHANGED <<workflows, attempts, process, faults>>
  BY
  DEF HandlerStep, Deliver, Rework, HandOff, CompleteReview, ReviewRework,
      RejectPlain,
         ReviewerUnavailable, FailUnfenced, NoFault
<1>8. TypeInv'
  BY <1>5, <1>6, <1>7
  DEF TypeInv, TypeOK, WorkersOK, process, sessionState, poolState, runs
<1>9. ASSUME NEW u \in Task PROVE RowWrite(tasks[u], tasks[u]')
  <2>1. CASE u = t
    BY <1>2, <1>3, <2>1 DEF WritesRow, TaskOf, TypeInv, TypeOK, RowWrite
  <2>2. CASE u # t
    BY <1>2, <1>3, <2>2 DEF WritesRow, TypeInv, TypeOK, RowWrite
  <2> QED
    BY <2>1, <2>2
<1> QED
  BY <1>7, <1>8, <1>9 DEF Rewrites

(***************************************************************************)
(* The coordinator and the sessions.  Publishing overwrites the rows of    *)
(* the first plan, so it needs to know that a workflow that was not        *)
(* published has no tasks.                                                 *)
(***************************************************************************)

Anchored ==
  \A t \in Task : IsWorkflowTask(t) /\ tasks[t].status # "absent" =>
    workflows[WorkflowOf[t]].status # "absent"

LEMMA RowTypes ==
  ASSUME TypeInv, NEW t \in Task
  PROVE  tasks[t] \in TaskRow /\ \A active : Assignee(t, active) \in AgentOrNull
BY RepositoryAssumption DEF TypeInv, TypeOK, AgentOrNull, Assignee

\* What the coordinator, a suspension and a restart may do to a row: of a task
\* created by /task they only take the owner away, while it waits.
Managed(t, s) ==
  \/ s = tasks[t]
  \/ \E owner \in AgentOrNull : s = UnassignPending(tasks[t], owner)
  \/ IsWorkflowTask(t) /\ BatchWrite(tasks[t], s)

Batches == \A t \in Task : Managed(t, tasks[t]')

\* The same for the steps that create tasks.
Extends ==
  \A t \in Task :
    \/ Managed(t, tasks[t]') \/ Insertion(tasks[t], tasks[t]')
    \/ /\ IsWorkflowTask(t) /\ tasks[t].status # "absent"
       /\ Retirement(tasks[t], tasks[t]')

LEMMA BatchesRewrite == (Batches => Rewrites) /\ (Extends => Inserts)
BY DEF Batches, Extends, Managed, Rewrites, Inserts, InsertStep, RowWrite, BatchWrite

LEMMA PlannedTasks ==
  ASSUME NEW f \in Workflow, NEW t \in CurrentTasks(f)
  PROVE  t \in Task /\ IsWorkflowTask(t)
BY RepositoryAssumption DEF CurrentTasks, IsWorkflowTask

\* The transactions that move the status of a workflow.
LEMMA SetStatusTypes ==
  ASSUME TypeInv, NEW f \in Workflow, NEW to \in WorkflowStatus, NEW expected,
         SetStatus(f, to, expected, workflows[f].version, "null")
  PROVE  workflows' \in [Workflow -> WorkflowRow]
<1>1. workflows[f] \in WorkflowRow
  BY DEF TypeInv, TypeOK
<1>2. WithStatus(workflows[f], to, "null") \in WorkflowRow
  BY <1>1, NullTypes DEF WithStatus, WorkflowRow
<1> QED
  BY <1>2 DEF SetStatus, TypeInv, TypeOK

LEMMA MovesTypes ==
  ASSUME TypeInv, NEW f \in Workflow,
         \/ StartWorkflow(f) \/ Pause(f) \/ Resume(f) \/ FinishBlocked(f)
         \/ Complete(f) \/ Block(f)
  PROVE  TypeInv' /\ Batches
<1>1. PICK to, expected : to \in WorkflowStatus /\ Moves(f, to, expected)
  BY DEF StartWorkflow, Pause, Resume, FinishBlocked, Complete, Block, WorkflowStatus
<1>2. workflows' \in [Workflow -> WorkflowRow]
  BY <1>1, SetStatusTypes DEF Moves
<1> QED
  BY <1>1, <1>2
  DEF Moves, NoFault, process, sessionState, poolState, runs, TypeInv, TypeOK,
      WorkersOK, Busy, Batches, Managed

LEMMA StopsTypes ==
  ASSUME TypeInv, NEW f \in Workflow, Cancel(f) \/ FinishFailed(f)
  PROVE  TypeInv' /\ Batches
<1>1. PICK to, expected : to \in WorkflowStatus /\ Stops(f, to, expected)
  BY DEF Cancel, FinishFailed, WorkflowStatus
<1>2. workflows' \in [Workflow -> WorkflowRow]
  BY <1>1, SetStatusTypes DEF Stops, SetStatusAndCancel
<1>3. \A t \in Task : tasks[t] \in TaskRow /\ CancelTask(tasks[t]) \in TaskRow
  BY RowTypes, PendingTypes, NullTypes
<1>4. tasks' = [t \in Task |-> IF t \in CurrentTasks(f) THEN CancelTask(tasks[t])
                                                       ELSE tasks[t]]
  BY <1>1 DEF Stops, SetStatusAndCancel
<1>5. tasks' \in [Task -> TaskRow] /\ Batches
  BY <1>3, <1>4, PlannedTasks DEF Batches, Managed, BatchWrite
<1>6. attempts' \subseteq AttemptRow
  <2>1. attempts' = CloseOpenAttempts(Cancellable(CurrentTasks(f)))
    BY <1>1 DEF Stops, SetStatusAndCancel
  <2> QED
    BY <2>1 DEF CloseOpenAttempts, TypeInv, TypeOK, AttemptRow, AttemptStatus
<1>7. interrupting' \subseteq Task
  BY <1>1 DEF Stops, CurrentTasks, TypeInv, TypeOK
<1> QED
  BY <1>1, <1>2, <1>5, <1>6, <1>7
  DEF Stops, sessionState, poolState, NoFault, TypeInv, TypeOK, WorkersOK, Busy

LEMMA ClaimRows ==
  ASSUME TypeInv, NEW w \in Worker, NEW t \in Task,
         Claim(w, t) \/ ClaimReview(w, t)
  PROVE  Rows
<1>1. AgentOf[w] \in Agent
  BY ExecutionAssumption
<1>2. CASE Claim(w, t)
  <2>1. tasks[t].status \in {"pending", "approved"}
    BY <1>2 DEF Claim, IsFirst, Executable, Claimable
  <2>2. tasks' = [tasks EXCEPT ![t] = ClaimTask(tasks[t], AgentOf[w])]
    BY <1>2 DEF Claim
  <2> QED
    BY <1>1, <2>1, <2>2
    DEF Rows, RowStep, InsertStep, RowWrite, ClaimWrite, TypeInv, TypeOK
<1>3. CASE ClaimReview(w, t)
  <2>1. tasks[t].status = "pending_review"
    BY <1>3 DEF ClaimReview, IsFirst, Reviewable
  <2>2. tasks' = [tasks EXCEPT ![t] = ClaimReviewTask(tasks[t], AgentOf[w])]
    BY <1>3 DEF ClaimReview
  <2> QED
    BY <1>1, <2>1, <2>2
    DEF Rows, RowStep, InsertStep, RowWrite, ClaimWrite, TypeInv, TypeOK
<1> QED
  BY <1>2, <1>3

LEMMA InsertTypes ==
  ASSUME TypeInv, Anchored,
         \/ \E f \in Workflow : PublishWorkflow(f)
         \/ \E t \in Task : CreateTask(t)
  PROVE  TypeInv' /\ Extends
<1>1. \A owner \in AgentOrNull, job \in Nat : InsertTask(owner, job) \in TaskRow
  BY PendingTypes, NullTypes
<1>2. session \in Nat
  BY DEF TypeInv, TypeOK
<1>3. ASSUME NEW f \in Workflow, PublishWorkflow(f)
      PROVE  TypeInv' /\ Extends
  <2>1. tasks' = [t \in Task |-> IF t \in FirstPlan[f]
                                THEN InsertTask(Assignee(t, pool), session)
                                ELSE tasks[t]]
    BY <1>3 DEF PublishWorkflow, Publish
  <2>2. tasks' \in [Task -> TaskRow]
    BY <1>1, <1>2, <2>1, RowTypes
  <2>3. ASSUME NEW t \in Task PROVE Managed(t, tasks[t]') \/ Insertion(tasks[t], tasks[t]')
    <3>1. CASE t \in FirstPlan[f]
      <4>1. WorkflowOf[t] = f /\ IsWorkflowTask(t)
        BY <3>1, WorkflowAssumption, RepositoryAssumption DEF IsWorkflowTask
      <4>2. tasks[t].status = "absent"
        BY <1>3, <4>1 DEF Anchored, PublishWorkflow, Publish
      <4> QED
        BY <1>2, <2>1, <3>1, <4>2, RowTypes DEF Insertion
    <3>2. CASE t \notin FirstPlan[f]
      BY <2>1, <3>2 DEF Managed
    <3> QED
      BY <3>1, <3>2
  <2>4. workflows' \in [Workflow -> WorkflowRow]
    <3>1. [AbsentWorkflow EXCEPT !.status = "ready", !.version = 1, !.job = session]
            \in WorkflowRow
      BY <1>2, NullTypes DEF AbsentWorkflow, WorkflowRow, WorkflowStatus
    <3> QED
      BY <1>3, <3>1 DEF PublishWorkflow, Publish, TypeInv, TypeOK
  <2> QED
    BY <1>3, <2>2, <2>3, <2>4
    DEF PublishWorkflow, Publish, process, sessionState, poolState, runs, NoFault,
        TypeInv, TypeOK, WorkersOK, Busy, Extends
<1>4. ASSUME NEW t \in Task, CreateTask(t)
      PROVE  TypeInv' /\ Extends
  <2>1. PICK owner \in AgentOrNull : tasks' = [tasks EXCEPT ![t] = InsertTask(owner, session)]
    BY <1>4 DEF CreateTask, AgentOrNull, Available, TypeInv, TypeOK
  <2>2. tasks' \in [Task -> TaskRow]
    BY <1>1, <1>2, <2>1 DEF TypeInv, TypeOK
  <2>3. Extends
    BY <1>2, <1>4, <2>1, RowTypes
    DEF CreateTask, Extends, Managed, Insertion, TypeInv, TypeOK
  <2> QED
    BY <1>4, <2>2, <2>3
    DEF CreateTask, process, sessionState, poolState, runs, NoFault, TypeInv, TypeOK,
        WorkersOK, Busy
<1> QED
  BY <1>3, <1>4

LEMMA ReplanTypes ==
  ASSUME TypeInv, NEW f \in Workflow, NEW kept, NEW fresh, ReplanWorkflow(f, kept, fresh)
  PROVE  TypeInv' /\ Extends
<1> DEFINE retired == CurrentTasks(f) \ kept
<1>1. workflows[f] \in WorkflowRow /\ workflows[f].job \in Nat
      /\ workflows[f].version \in Nat
  BY DEF TypeInv, TypeOK, WorkflowRow
<1>2. \A t \in fresh : t \in Task /\ tasks[t].status = "absent"
  BY DEF ReplanWorkflow, Replan, Insertable
<1>3. tasks' = [t \in Task |->
        IF t \in retired THEN [CancelTask(tasks[t]) EXCEPT !.superseded = TRUE]
        ELSE IF t \in fresh THEN InsertTask(Assignee(t, pool), workflows[f].job)
        ELSE tasks[t]]
  BY DEF ReplanWorkflow, Replan
<1>4. ASSUME NEW t \in Task
      PROVE  /\ \/ Managed(t, tasks[t]') \/ Insertion(tasks[t], tasks[t]')
                \/ /\ IsWorkflowTask(t) /\ tasks[t].status # "absent"
                   /\ Retirement(tasks[t], tasks[t]')
             /\ tasks[t]' \in TaskRow
  <2>1. CASE t \in retired
    <3>1. Retirement(tasks[t], tasks[t]') /\ tasks[t].status # "absent"
      BY <1>3, <2>1 DEF Retirement, CurrentTasks
    <3> QED
      BY <2>1, <3>1, RowTypes, BatchTypes, PlannedTasks
  <2>2. CASE t \notin retired /\ t \in fresh
    BY <1>1, <1>2, <1>3, <2>2, RowTypes, PendingTypes DEF Insertion
  <2>3. CASE t \notin retired /\ t \notin fresh
    BY <1>3, <2>3, RowTypes DEF Managed
  <2> QED
    BY <2>1, <2>2, <2>3
<1>5. tasks' \in [Task -> TaskRow]
  BY <1>3, <1>4
<1>6. workflows' \in [Workflow -> WorkflowRow]
  <2>1. workflows[f].version + 1 \in Nat
    BY <1>1
  <2>2. Replanned(workflows[f]) \in WorkflowRow
    BY <1>1, <2>1, NullTypes DEF Replanned, WorkflowRow, WorkflowStatus, Result
  <2> QED
    BY <2>2 DEF ReplanWorkflow, Replan, TypeInv, TypeOK
<1>7. attempts' \subseteq AttemptRow
  <2>1. attempts' = CloseOpenAttempts(Cancellable(retired))
    BY DEF ReplanWorkflow, Replan
  <2> QED
    BY <2>1 DEF CloseOpenAttempts, TypeInv, TypeOK, AttemptRow, AttemptStatus
<1>8. interrupting' \subseteq Task
  BY DEF ReplanWorkflow, CurrentTasks, TypeInv, TypeOK
<1> QED
  BY <1>4, <1>5, <1>6, <1>7, <1>8
  DEF ReplanWorkflow, sessionState, poolState, NoFault, TypeInv, TypeOK, WorkersOK,
      Busy, Extends

LEMMA AdoptTypes ==
  ASSUME TypeInv, NEW f \in Workflow, ResumeAdopts(f) \/ Recover(f)
  PROVE  TypeInv' /\ Batches
<1>1. Adopt(f, session) /\ session \in Nat
  BY DEF ResumeAdopts, Recover, TypeInv, TypeOK
<1>2. ASSUME NEW t \in Task
      PROVE  Managed(t, tasks[t]') /\ tasks[t]' \in TaskRow
  <2>1. CASE t \in CurrentTasks(f)
    <3>1. BatchWrite(tasks[t], tasks[t]')
      BY <1>1, <2>1 DEF Adopt, BatchWrite
    <3> QED
      BY <2>1, <3>1, RowTypes, BatchTypes, PlannedTasks DEF Managed
  <2>2. CASE t \notin CurrentTasks(f)
    BY <1>1, <2>2, RowTypes DEF Adopt, Managed
  <2> QED
    BY <2>1, <2>2
<1>3. tasks' \in [Task -> TaskRow]
  BY <1>1, <1>2 DEF Adopt
<1>4. workflows' \in [Workflow -> WorkflowRow]
  <2>1. Adopted(workflows[f], session) \in WorkflowRow
    BY <1>1 DEF Adopted, WorkflowRow, WorkflowStatus, TypeInv, TypeOK
  <2> QED
    BY <1>1, <2>1 DEF Adopt, TypeInv, TypeOK
<1>5. attempts' \subseteq AttemptRow
  BY <1>1 DEF Adopt, InterruptAttempts, TypeInv, TypeOK, AttemptRow, AttemptStatus
<1> QED
  BY <1>2, <1>3, <1>4, <1>5
  DEF ResumeAdopts, Recover, process, sessionState, poolState, runs, NoFault, TypeInv,
      TypeOK, WorkersOK, Busy, Batches

\* The steps of the monitor, of the pool and of the sessions.
LEMMA LeaseTypes ==
  ASSUME TypeInv, NEW f \in Workflow, NEW t \in Task,
         LeaseExpires(f, t) \/ ReleaseReady(f, t) \/ FailUnrunnable(f, t)
  PROVE  TypeInv' /\ Batches
<1>1. PICK s : /\ tasks' = [tasks EXCEPT ![t] = s]
               /\ BatchWrite(tasks[t], s)
               /\ s \in TaskRow
  <2>1. CASE LeaseExpires(f, t)
    <3>1. tasks' = [tasks EXCEPT ![t] = RequeueInterrupted(tasks[t])]
      BY <2>1 DEF LeaseExpires, RequeueOrphan
    <3> QED
      BY <3>1, RowTypes, BatchTypes DEF BatchWrite
  <2>2. CASE ReleaseReady(f, t)
    <3>1. tasks' = [tasks EXCEPT ![t] = UnassignPending(tasks[t], tasks[t].owner)]
      BY <2>2 DEF ReleaseReady
    <3>2. tasks[t].owner \in AgentOrNull
      BY RowTypes DEF TaskRow
    <3> QED
      BY <3>1, <3>2, RowTypes, BatchTypes DEF BatchWrite
  <2>3. CASE FailUnrunnable(f, t)
    <3>1. tasks' = [tasks EXCEPT ![t] = FailTask(tasks[t], AnyAttempt, {"pending"})]
      BY <2>3 DEF FailUnrunnable
    <3> QED
      BY <3>1, RowTypes, BatchTypes DEF BatchWrite
  <2> QED
    BY <2>1, <2>2, <2>3
<1>2. Batches /\ tasks' \in [Task -> TaskRow]
  <2>1. IsWorkflowTask(t)
    BY PlannedTasks DEF LeaseExpires, ReleaseReady, FailUnrunnable
  <2> QED
    BY <1>1, <2>1 DEF Batches, Managed, TypeInv, TypeOK
<1>3. attempts' \subseteq AttemptRow
  <2>1. attempts' = attempts \/ attempts' = InterruptAttempts({t})
    BY DEF LeaseExpires, RequeueOrphan, ReleaseReady, FailUnrunnable
  <2> QED
    BY <2>1 DEF InterruptAttempts, TypeInv, TypeOK, AttemptRow, AttemptStatus
<1>4. /\ UNCHANGED <<workflows, workers, process>>
      /\ faults' \in Nat
  BY DEF LeaseExpires, RequeueOrphan, ReleaseReady, FailUnrunnable, Fault, NoFault,
         TypeInv, TypeOK
<1>5. WorkersOK'
  BY <1>4 DEF TypeInv, WorkersOK, Busy
<1> QED
  <2>1. UNCHANGED <<session, recovering, pool, suspended, cancelledRuns, interrupting>>
    BY <1>4 DEF process, sessionState, poolState, runs
  <2> QED
    BY <1>2, <1>3, <1>4, <1>5, <2>1 DEF TypeInv, TypeOK

LEMMA InterruptTypes ==
  ASSUME TypeInv, NEW f \in Workflow, Interrupt(f)
  PROVE  TypeInv' /\ Batches
<1>1. WorkersOK'
  <2> SUFFICES ASSUME NEW w \in Worker
               PROVE  /\ workers'[w] \in WorkerState
                      /\ workers'[w].pc \notin {"off", "idle"} => workers'[w].task \in Task
    BY DEF Interrupt, TypeInv, WorkersOK, Busy
  <2>1. /\ workers[w] \in WorkerState
        /\ workers[w].pc \notin {"off", "idle"} => workers[w].task \in Task
    BY DEF TypeInv, WorkersOK, Busy
  <2>2. \/ workers'[w] = workers[w]
        \/ workers'[w] = [workers[w] EXCEPT !.cut = "due"]
    BY DEF Interrupt
  <2> QED
    BY <2>1, <2>2 DEF WorkerState, Cuts
<1>2. cancelledRuns' \subseteq Task /\ interrupting' \subseteq Task
  BY DEF Interrupt, TypeInv, TypeOK
<1> QED
  BY <1>1, <1>2
  DEF Interrupt, sessionState, poolState, NoFault, TypeInv, TypeOK, WorkersOK, Batches,
      Managed

LEMMA SuspendTypes ==
  ASSUME TypeInv, NEW a \in Agent, Suspend(a)
  PROVE  TypeInv' /\ Batches
<1>1. a \in AgentOrNull
  BY DEF AgentOrNull
<1>2. ASSUME NEW t \in Task
      PROVE  Managed(t, tasks[t]') /\ tasks[t]' \in TaskRow
  <2>1. tasks[t]' = tasks[t] \/ tasks[t]' = UnassignPending(tasks[t], a)
    BY DEF Suspend, ReleaseAgentTasks
  <2> QED
    BY <1>1, <2>1, RowTypes, PendingTypes, NullTypes DEF Managed
<1>3. tasks' \in [Task -> TaskRow]
  BY <1>2 DEF Suspend, ReleaseAgentTasks
<1> QED
  BY <1>2, <1>3
  DEF Suspend, sessionState, runs, Fault, TypeInv, TypeOK, WorkersOK, Busy, Batches

\* The steps of the pool that touch no row.
Membership ==
  \/ \E a \in Agent : Resumes(a) \/ Connect(a)
  \/ \E members : Reload(members)

LEMMA PoolTypes ==
  ASSUME TypeInv, Membership
  PROVE  TypeInv' /\ Batches
<1>1. /\ UNCHANGED <<tasks, workflows, attempts, workers, sessionState, runs>>
      /\ pool' \subseteq Agent /\ suspended' \subseteq Agent /\ faults' \in Nat
  BY DEF Membership, Resumes, Connect, Reload, Fault, NoFault, TypeInv, TypeOK
<1> QED
  BY <1>1 DEF sessionState, runs, TypeInv, TypeOK, WorkersOK, Busy, Batches, Managed

LEMMA SessionTypes ==
  ASSUME TypeInv, NEW survivors, NewSession(survivors)
  PROVE  TypeInv' /\ Batches
<1>1. /\ IdleWorker \in WorkerState /\ IdleWorker.pc = "idle"
      /\ OffWorker \in WorkerState /\ OffWorker.pc = "off"
  BY DEF IdleWorker, OffWorker, WorkerState, Pc, Cuts, AgentOrNull,
         Delivery, NoDelivery
<1>2. WorkersOK'
  <2>1. ASSUME NEW w \in Worker
        PROVE  workers[w]' \in WorkerState
               /\ (workers[w]'.pc \notin {"off", "idle"} => workers[w]'.task \in Task)
    <3>1. \/ workers[w]' = IdleWorker
          \/ workers[w]' = OffWorker
          \/ workers[w]' = workers[w]
      BY DEF NewSession
    <3> QED
      BY <1>1, <3>1 DEF TypeInv, WorkersOK, Busy
  <2> QED
    BY <2>1 DEF NewSession, WorkersOK, Busy
<1>3. session' \in Nat \ {0} /\ recovering' \subseteq Workflow
      /\ pool' \subseteq Agent /\ suspended' \subseteq Agent
      /\ cancelledRuns' \subseteq Task /\ interrupting' \subseteq Task
  BY DEF NewSession, TypeInv, TypeOK
<1> QED
  BY <1>2, <1>3 DEF NewSession, NoFault, TypeInv, TypeOK, WorkersOK, Batches, Managed

\* The steps that insert or claim rows; every other step only writes rows.
Claiming ==
  \E w \in Worker, t \in Task : Claim(w, t) \/ ClaimReview(w, t)

Inserting ==
  \/ \E f \in Workflow : PublishWorkflow(f)
  \/ \E f \in Workflow : \E kept, fresh : ReplanWorkflow(f, kept, fresh)
  \/ \E t \in Task : CreateTask(t)

LEMMA TypeStep ==
  ASSUME TypeInv, Anchored, [Next]_vars
  PROVE  /\ TypeInv' /\ Rows /\ (Rewrites \/ (Inserting /\ Inserts) \/ Claiming)
         /\ \/ Batches \/ (\E w \in Worker : HandlerStep(w))
            \/ (Inserting /\ Extends) \/ Claiming
<1>1. CASE UNCHANGED vars
  BY <1>1
  DEF vars, process, sessionState, poolState, runs, TypeInv, TypeOK, WorkersOK, Busy,
      Rows, RowStep, InsertStep, RowWrite, Rewrites, Batches, Managed
<1>2. ASSUME NEW w \in Worker, NEW t \in Task,
             Claim(w, t) \/ ClaimReview(w, t)
      PROVE  TypeInv' /\ Rows /\ Claiming
  BY <1>2, ClaimTypes, ClaimRows DEF Claiming
<1>3. ASSUME NEW w \in Worker, WorkerStep(w) \/ WorkerFault(w) \/ StopSlot(w) \/ CutRun(w)
      PROVE  TypeInv' /\ Rewrites /\ (Batches \/ HandlerStep(w))
  BY <1>3, QuietTypes, HandlerTypes
  DEF WorkerStep, WorkerFault, HandlerStep, Rewrites, RowWrite, Batches, Managed
<1>4. ASSUME NEW f \in Workflow, ToolStep(f) \/ ReconcileStep(f) \/ Interrupt(f) \/ Recover(f)
                                 \/ \E t \in Task : LeaseExpires(f, t)
      PROVE  TypeInv' /\ (Batches \/ (Inserting /\ Extends))
  BY <1>4, InsertTypes, MovesTypes, StopsTypes, ReplanTypes, AdoptTypes, LeaseTypes,
     InterruptTypes
  DEF ToolStep, ReconcileStep, Inserting
<1>5. ASSUME NEW t \in Task, CreateTask(t)
      PROVE  TypeInv' /\ Inserting /\ Extends
  BY <1>5, InsertTypes DEF Inserting
<1>6. ASSUME Membership \/ \E a \in Agent : Suspend(a)
      PROVE  TypeInv' /\ Batches
  BY <1>6, PoolTypes, SuspendTypes
<1>7. ASSUME NEW survivors, NewSession(survivors)
      PROVE  TypeInv' /\ Batches
  BY <1>7, SessionTypes
<1>8. Rewrites \/ Inserts => Rows
  BY DEF Rewrites, Inserts, Rows, RowStep, InsertStep
<1> QED
  BY <1>1, <1>2, <1>3, <1>4, <1>5, <1>6, <1>7, <1>8, BatchesRewrite
  DEF Next, ClaimStep, Membership

(***************************************************************************)
(* Type correctness.                                                       *)
(***************************************************************************)

\* No step removes a workflow that was published.
LEMMA WorkflowsStay ==
  ASSUME TypeInv, [Next]_vars, NEW f \in Workflow, workflows[f].status # "absent"
  PROVE  workflows[f]'.status # "absent"
<1>1. workflows[f] \in WorkflowRow
  BY DEF TypeInv, TypeOK
<1>2. CASE UNCHANGED workflows
  BY <1>2
<1>3. ASSUME NEW g \in Workflow, NEW to \in WorkflowStatus, NEW expected,
             SetStatus(g, to, expected, workflows[g].version, "null")
      PROVE  workflows[f]'.status # "absent"
  BY <1>1, <1>3 DEF SetStatus, WithStatus, WorkflowStatus, WorkflowRow, TypeInv, TypeOK
<1>4. ASSUME NEW g \in Workflow, Adopt(g, session)
      PROVE  workflows[f]'.status # "absent"
  BY <1>1, <1>4 DEF Adopt, Adopted, WorkflowRow, TypeInv, TypeOK
<1>5. ASSUME NEW g \in Workflow, PublishWorkflow(g)
      PROVE  workflows[f]'.status # "absent"
  BY <1>1, <1>5
  DEF PublishWorkflow, Publish, AbsentWorkflow, WorkflowRow, TypeInv, TypeOK
<1>6. ASSUME NEW g \in Workflow, NEW kept, NEW fresh, ReplanWorkflow(g, kept, fresh)
      PROVE  workflows[f]'.status # "absent"
  BY <1>1, <1>6 DEF ReplanWorkflow, Replan, Replanned, WorkflowRow, TypeInv, TypeOK
<1>7. ASSUME NEW g \in Workflow, ToolStep(g)
      PROVE  workflows[f]'.status # "absent"
  <2>1. WorkflowStatus = {"ready", "running", "paused", "blocked", "completed",
                          "failed", "cancelled"}
    BY DEF WorkflowStatus
  <2> QED
    BY <1>3, <1>4, <1>5, <1>6, <1>7, <2>1
    DEF ToolStep, StartWorkflow, Pause, Resume, ResumeAdopts, FinishBlocked, Moves,
        Cancel, FinishFailed, Stops, SetStatusAndCancel
<1>8. ASSUME NEW g \in Workflow, ReconcileStep(g)
      PROVE  workflows[f]'.status # "absent"
  BY <1>2, <1>3, <1>8
  DEF ReconcileStep, Complete, Block, Moves, ReleaseReady, FailUnrunnable,
      WorkflowStatus
<1>9. ASSUME NEW g \in Workflow, Interrupt(g) \/ Recover(g) \/ \E t \in Task : LeaseExpires(g, t)
      PROVE  workflows[f]'.status # "absent"
  BY <1>2, <1>4, <1>9 DEF Interrupt, Recover, LeaseExpires, RequeueOrphan
<1>10. ASSUME NEW w \in Worker, ClaimStep(w)
       PROVE  UNCHANGED workflows
  BY <1>10 DEF ClaimStep, Claim, ClaimReview
<1>11. ASSUME NEW w \in Worker, WorkerStep(w) \/ WorkerFault(w) \/ StopSlot(w) \/ CutRun(w)
       PROVE  UNCHANGED workflows
  BY <1>11, QuietTypes, HandlerTypes DEF WorkerStep, WorkerFault, HandlerStep
<1>12. ASSUME \/ \E t \in Task : CreateTask(t)
              \/ Membership \/ \E a \in Agent : Suspend(a)
              \/ \E survivors \in SUBSET Worker : NewSession(survivors)
              \/ UNCHANGED vars
       PROVE  UNCHANGED workflows
  BY <1>12
  DEF CreateTask, Membership, Suspend, Resumes, Connect, Reload, NewSession, vars
<1> QED
  BY <1>2, <1>7, <1>8, <1>9, <1>10, <1>11, <1>12 DEF Next, Membership

LEMMA AnchoredStep ==
  ASSUME TypeInv, Anchored, [Next]_vars
  PROVE  Anchored'
<1> SUFFICES ASSUME NEW t \in Task, IsWorkflowTask(t), tasks[t]'.status # "absent"
             PROVE  workflows[WorkflowOf[t]]'.status # "absent"
  BY DEF Anchored, IsWorkflowTask
<1>1. WorkflowOf[t] \in Workflow
  BY RepositoryAssumption DEF IsWorkflowTask
<1>2. CASE tasks[t].status # "absent"
  BY <1>1, <1>2, WorkflowsStay DEF Anchored
<1>3. CASE tasks[t].status = "absent"
  <2>1. ~Rewrites
    BY <1>3, RowTypes, RowFacts DEF Rewrites
  <2>5. ~Claiming
    BY <1>3
    DEF Claiming, Claim, ClaimReview, IsFirst, Executable, Claimable,
                Reviewable, TypeInv, TypeOK
  <2>2. ASSUME NEW f \in Workflow, PublishWorkflow(f)
        PROVE  workflows[WorkflowOf[t]]'.status # "absent"
    <3>1. t \in FirstPlan[f]
      BY <1>3, <2>2 DEF PublishWorkflow, Publish
    <3>2. WorkflowOf[t] = f
      BY <3>1, WorkflowAssumption
    <3> QED
      BY <2>2, <3>2 DEF PublishWorkflow, Publish, AbsentWorkflow, TypeInv, TypeOK
  <2>3. ASSUME NEW f \in Workflow, NEW kept, NEW fresh, ReplanWorkflow(f, kept, fresh)
        PROVE  workflows[WorkflowOf[t]]'.status # "absent"
    <3>1. t \in fresh
      BY <1>3, <2>3 DEF ReplanWorkflow, Replan, CurrentTasks
    <3>2. WorkflowOf[t] = f /\ workflows[f].status # "absent"
      BY <2>3, <3>1 DEF ReplanWorkflow, Replan, Insertable
    <3> QED
      BY <3>2, WorkflowsStay
  <2>4. ASSUME NEW u \in Task, CreateTask(u)
        PROVE  FALSE
    BY <1>3, <2>4 DEF CreateTask, TypeInv, TypeOK
  <2> QED
    BY <2>1, <2>2, <2>3, <2>4, <2>5, TypeStep DEF Inserting
<1> QED
  BY <1>2, <1>3

LEMMA TypeInit == Init => TypeInv /\ Anchored
<1> SUFFICES ASSUME Init PROVE TypeInv /\ Anchored
  OBVIOUS
<1>1. /\ IdleWorker \in WorkerState /\ IdleWorker.pc = "idle"
      /\ OffWorker \in WorkerState /\ OffWorker.pc = "off"
  BY DEF IdleWorker, OffWorker, WorkerState, Pc, Cuts, AgentOrNull,
         Delivery, NoDelivery
<1>2. WorkersOK
  <2>1. \A w \in Worker : workers[w] \in {IdleWorker, OffWorker}
    BY DEF Init
  <2> QED
    BY <1>1, <2>1 DEF Init, WorkersOK, Busy
<1>3. TypeOK
  BY <1>2, NullTypes DEF Init, TypeOK, WorkersOK
<1>4. Anchored
  BY DEF Init, Anchored, AbsentTask
<1> QED
  BY <1>2, <1>3, <1>4 DEF TypeInv

\* The first inductive invariant.
LEMMA TypeInvariance == Spec => [](TypeInv /\ Anchored)
<1>1. TypeInv /\ Anchored /\ [Next]_vars => (TypeInv /\ Anchored)'
  BY TypeStep, AnchoredStep
<1> QED
  BY <1>1, TypeInit, PTL DEF Spec

\* Every row, slot and registry stays of its type: no handler, tool or session
\* writes a row that is not there or a status that does not exist.
THEOREM TypeCorrect == Spec => []TypeOK
BY TypeInvariance, PTL DEF TypeInv

(***************************************************************************)
(* Rows.                                                                   *)
(***************************************************************************)

\* A task is failed by the delivery that reaches the limit of rounds, for every
\* limit: whoever writes the row, the bound and the failure go together.
LEMMA ReworkStep ==
  ASSUME TypeInv, Anchored, ReworkBound, [Next]_vars
  PROVE  ReworkBound'
<1> SUFFICES ASSUME NEW t \in Task
             PROVE  /\ tasks[t]'.reworks <= MaxTaskAttempts
                    /\ tasks[t]'.reworks = MaxTaskAttempts => tasks[t]'.status = "failed"
  BY DEF ReworkBound
<1> DEFINE r == tasks[t]
           s == tasks[t]'
<1>1. r \in TaskRow /\ r.reworks \in Nat /\ MaxTaskAttempts \in Nat \ {0}
  BY RepositoryAssumption, RowTypes DEF TaskRow
<1>2. r.reworks <= MaxTaskAttempts /\ (r.reworks = MaxTaskAttempts => r.status = "failed")
  BY DEF ReworkBound
<1>3. RowStep(r, s)
  BY TypeStep DEF Rows
<1>4. CASE RowWrite(r, s)
  <2>1. CASE s.reworks = r.reworks
    BY <1>1, <1>2, <1>4, <2>1, RowFacts DEF SettledStatus
  <2>2. CASE /\ s.reworks = r.reworks + 1
             /\ r.status \in {"in_progress", "reviewing"}
             /\ s.reworks >= MaxTaskAttempts => s.status = "failed"
    BY <1>1, <1>2, <2>2
  <2> QED
    BY <1>1, <1>4, <2>1, <2>2, RowFacts
<1>5. CASE ClaimWrite(r, s)
  BY <1>1, <1>2, <1>5, ClaimFacts
<1>6. CASE Insertion(r, s)
  BY <1>1, <1>6, InsertFacts
<1> QED
  BY <1>3, <1>4, <1>5, <1>6 DEF RowStep, InsertStep

\* A task has at most MaxTaskAttempts rejected or unproven deliveries, and it is
\* failed exactly by the last of them.
THEOREM ReworkIsBounded == Spec => []ReworkBound
<1>1. Init => ReworkBound
  BY RepositoryAssumption DEF Init, AbsentTask, ReworkBound
<1>2. TypeInv /\ Anchored /\ ReworkBound /\ [Next]_vars => ReworkBound'
  BY ReworkStep
<1> QED
  BY <1>1, <1>2, TypeInvariance, PTL DEF Spec

\* A settled task is never touched again: the delivery a review accepted stays
\* the result of the task, whatever replan, cancellation or late answer comes.
SettledStays ==
  [][\A t \in Task : tasks[t].status \in SettledStatus =>
       /\ tasks'[t].status = tasks[t].status
       /\ tasks'[t].delivery = tasks[t].delivery
       /\ tasks'[t].attempt = tasks[t].attempt]_vars

\* No step of any actor changes the outcome of a settled task.
THEOREM SettledIsFinal == Spec => SettledStays
<1>1. ASSUME TypeInv, Anchored, [Next]_vars, NEW t \in Task, tasks[t].status \in SettledStatus
      PROVE  /\ tasks'[t].status = tasks[t].status
             /\ tasks'[t].delivery = tasks[t].delivery
             /\ tasks'[t].attempt = tasks[t].attempt
  <2>1. tasks[t] \in TaskRow /\ RowStep(tasks[t], tasks[t]')
    BY <1>1, RowTypes, TypeStep DEF Rows
  <2>2. RowWrite(tasks[t], tasks[t]')
    BY <1>1, <2>1, ClaimFacts, InsertFacts DEF RowStep, InsertStep, SettledStatus
  <2> QED
    BY <1>1, <2>1, <2>2, RowFacts
<1>2. TypeInv /\ Anchored /\ [Next]_vars =>
        [\A t \in Task : tasks[t].status \in SettledStatus =>
           /\ tasks'[t].status = tasks[t].status
           /\ tasks'[t].delivery = tasks[t].delivery
           /\ tasks'[t].attempt = tasks[t].attempt]_vars
  BY <1>1
<1> QED
  BY <1>2, TypeInvariance, PTL DEF Spec, SettledStays

(***************************************************************************)
(* The workspace has one writer.                                           *)
(***************************************************************************)

Writing(t) ==
  t \in Writes /\ IsWorkflowTask(t) /\ tasks[t].status = "in_progress" /\ ~tasks[t].superseded

\* Only a claim starts a writer, and the claim gate looked for the others.
LEMMA WriterStarts ==
  ASSUME TypeInv, Anchored, [Next]_vars, NEW t \in Task, Writing(t)', ~Writing(t)
  PROVE  \A u \in Task \ {t} : tasks[u]' = tasks[u] /\ ~Writing(u)
<1> DEFINE r == tasks[t]
           s == tasks[t]'
<1>1. r \in TaskRow
  BY RowTypes
<1>2. ~RowWrite(r, s)
  BY <1>1, RowFacts DEF Writing
<1>3. ~Insertion(r, s)
  BY <1>1, InsertFacts DEF Writing
<1>4. ~Rewrites /\ ~Inserts
  BY <1>2, <1>3 DEF Rewrites, Inserts, InsertStep
<1>5. PICK w \in Worker, x \in Task : Claim(w, x) \/ ClaimReview(w, x)
  BY <1>4, TypeStep DEF Claiming
<1>6. \A u \in Task \ {x} : tasks[u]' = tasks[u]
  BY <1>5 DEF Claim, ClaimReview, TypeInv, TypeOK
<1>7. x = t
  BY <1>2, <1>6 DEF RowWrite
<1>8. Claim(w, t)
  <2>1. CASE ClaimReview(w, t)
    BY <1>1, <2>1 DEF ClaimReview, ClaimReviewTask, Writing, TypeInv, TypeOK, TaskRow
  <2> QED
    BY <1>5, <1>7, <2>1
<1>9. ExecClaimGate(t)
  BY <1>8 DEF Claim, IsFirst, Executable, Claimable
<1>10. \A u \in Task \ {t} : ~Writing(u)
  BY <1>9 DEF ExecClaimGate, HoldsWorkspace, Writing
<1> QED
  BY <1>6, <1>7, <1>10

\* No two current writing tasks of any workflows are ever in progress together,
\* for every number of agents, slots and sessions.
THEOREM WritersExclude == Spec => []WriterExclusion
<1>1. WriterExclusion <=> \A t, u \in Task : Writing(t) /\ Writing(u) => t = u
  BY RepositoryAssumption DEF WriterExclusion, Writing
<1>2. Init => WriterExclusion
  BY RepositoryAssumption DEF Init, AbsentTask, WriterExclusion
<1>3. ASSUME TypeInv, Anchored, WriterExclusion, [Next]_vars
      PROVE  WriterExclusion'
  <2> SUFFICES ASSUME NEW t \in Task, NEW u \in Task, Writing(t)', Writing(u)', t # u
               PROVE  FALSE
    BY RepositoryAssumption DEF WriterExclusion, Writing
  <2>1. CASE Writing(t) /\ Writing(u)
    BY <1>1, <1>3, <2>1
  <2>2. CASE ~Writing(t)
    <3>1. tasks[u]' = tasks[u] /\ ~Writing(u)
      BY <1>3, <2>2, WriterStarts
    <3> QED
      BY <3>1 DEF Writing
  <2>3. CASE ~Writing(u)
    <3>1. tasks[t]' = tasks[t] /\ ~Writing(t)
      BY <1>3, <2>3, WriterStarts
    <3> QED
      BY <3>1 DEF Writing
  <2> QED
    BY <2>1, <2>2, <2>3
<1>4. TypeInv /\ Anchored /\ WriterExclusion /\ [Next]_vars => WriterExclusion'
  BY <1>3
<1> QED
  BY <1>2, <1>4, TypeInvariance, PTL DEF Spec

(***************************************************************************)
(* Cancellation.                                                           *)
(***************************************************************************)

LEMMA InterruptStep ==
  ASSUME TypeInv, InterruptReachesEveryRun, [Next]_vars
  PROVE  InterruptReachesEveryRun'
<1> SUFFICES ASSUME NEW w \in Worker, Registered(w)', SessionOf[w] = session',
                    workers[w]'.task \in cancelledRuns'
             PROVE  workers[w]'.cut # "none"
  BY DEF InterruptReachesEveryRun
<1>1. ASSUME workers[w]' = workers[w], session' = session, cancelledRuns' = cancelledRuns
      PROVE  workers[w]'.cut # "none"
  BY <1>1 DEF InterruptReachesEveryRun, Registered
<1>2. ASSUME NEW v \in Worker, NEW t \in Task, Claim(v, t) \/ ClaimReview(v, t)
      PROVE  workers[w]'.cut # "none"
  <2>1. ~Registered(v)'
    BY <1>2 DEF Claim, ClaimReview, Takes, Registered, TypeInv, TypeOK
  <2>2. workers[w]' = workers[w]
    BY <1>2, <2>1 DEF Claim, ClaimReview, Takes, TypeInv, TypeOK
  <2> QED
    BY <1>1, <1>2, <2>2
    DEF Claim, ClaimReview, process, sessionState, poolState, runs
<1>3. ASSUME NEW v \in Worker, WorkerStep(v) \/ WorkerFault(v) \/ StopSlot(v) \/ CutRun(v)
      PROVE  workers[w]'.cut # "none"
  <2>1. session' = session /\ cancelledRuns' = cancelledRuns
    BY <1>3, QuietTypes, HandlerTypes
    DEF WorkerStep, WorkerFault, HandlerStep, process, sessionState, poolState, runs
  <2>2. workers \in [Worker -> WorkerState]
    BY DEF TypeInv, TypeOK
  <2>3. CASE Dispatch(v)
    <3>1. CASE v = w
      <4>1. workers[w]'.task = workers[w].task
        BY <2>2, <2>3, <3>1 DEF Dispatch, Goes, WorkerState
      <4>2. workers[w]'.pc \in {"answered", "r_none"}
        BY <2>1, <2>2, <2>3, <3>1, <4>1 DEF Dispatch, Goes, Side, WorkerState
      <4> QED
        BY <4>2 DEF Registered
    <3>2. CASE v # w
      BY <1>1, <2>1, <2>2, <2>3, <3>2 DEF Dispatch, Goes
    <3> QED
      BY <3>1, <3>2
  <2>4. CASE CheckRun(v) \/ ClearEvent(v) \/ CutRun(v)
    <3>1. CASE v = w
      <4>1. /\ workers[w]'.task = workers[w].task
            /\ \/ workers[w]'.cut = workers[w].cut /\ Registered(w)
               \/ workers[w]'.cut \in {"set", "erased"}
               \/ workers[w]'.pc \in {"answered", "r_none"}
        BY <2>2, <2>4, <3>1
        DEF CheckRun, ClearEvent, CutRun, Goes, Side, Registered, WorkerState
      <4> QED
        BY <2>1, <4>1 DEF InterruptReachesEveryRun, Registered
    <3>2. CASE v # w
      <4>1. workers[w]' = workers[w]
        BY <2>2, <2>4, <3>2 DEF CheckRun, ClearEvent, CutRun, Goes
      <4> QED
        BY <1>1, <2>1, <4>1
    <3> QED
      BY <3>1, <3>2
  <2>5. CASE Load(v) \/ LoadReview(v)
    <3>1. \A u \in Worker \ {v} : workers[u]' = workers[u]
      BY <2>2, <2>5 DEF Load, LoadReview, Takes, Ends
    <3>2. workers[v]'.pc \in {"begin", "dispatch", "r_dispatch", "idle"}
      BY <2>2, <2>5 DEF Load, LoadReview, Takes, Ends, IdleWorker
    <3>3. v # w
      BY <3>2 DEF Registered
    <3> QED
      BY <1>1, <2>1, <3>1, <3>3
  <2>6. CASE ~(\/ Dispatch(v) \/ CheckRun(v) \/ ClearEvent(v) \/ CutRun(v)
              \/ Load(v) \/ LoadReview(v))
    <3> DEFINE Others == Pc \ {"bound", "starting", "live", "r_bound", "r_starting", "r_live"}
    <3>1. \/ workers' = [workers EXCEPT ![v] = IdleWorker]
          \/ \E pc \in Others :
               \/ Goes(v, pc)
               \/ workers' = [workers EXCEPT ![v].pc = pc, ![v].cut = "none"]
               \/ \E answer : workers' = [workers EXCEPT ![v].pc = pc, ![v].answer = answer,
                                                         ![v].cut = "none"]
      BY <1>3, <2>6 DEF WorkerStep, WorkerFault, Begin, Check, NoAnswer, Answer,
         FinishWorkflowRun, FinishPlainRun, Deliver, Rework, HandOff, ReviewAnswer,
         CompleteReview, RecordAccepted, RecordRejected, ReviewRework, RejectPlain,
         ReviewerUnavailable, HandlerReads, FailUnfenced, LoadRaises, RunRaises,
         ReviewRaises, HandlerRaises, StopSlot, Ends, Goes, Pc, PollPc, ExecPc, ReviewPc
    <3>2. ~Registered(v)'
      <4>1. CASE workers' = [workers EXCEPT ![v] = IdleWorker]
        BY <2>2, <4>1 DEF IdleWorker, Registered
      <4>2. ASSUME NEW pc \in Others, Goes(v, pc)
            PROVE  workers[v]'.pc = pc
        BY <2>2, <4>2 DEF Goes, WorkerState
      <4>3. ASSUME NEW pc \in Others,
                   workers' = [workers EXCEPT ![v].pc = pc, ![v].cut = "none"]
            PROVE  workers[v]'.pc = pc
        BY <2>2, <4>3 DEF WorkerState
      <4>4. ASSUME NEW pc \in Others, NEW answer,
                   workers' = [workers EXCEPT ![v].pc = pc, ![v].answer = answer,
                                              ![v].cut = "none"]
            PROVE  workers[v]'.pc = pc
        BY <2>2, <4>4 DEF WorkerState
      <4> QED
        BY <3>1, <4>1, <4>2, <4>3, <4>4 DEF Registered
    <3>3. v # w
      BY <3>2
    <3>4. workers[w]' = workers[w]
      BY <2>2, <3>1, <3>3 DEF Goes
    <3> QED
      BY <1>1, <2>1, <3>4
  <2> QED
    BY <2>3, <2>4, <2>5, <2>6
<1>4. ASSUME NEW f \in Workflow, Interrupt(f)
      PROVE  workers[w]'.cut # "none"
  BY <1>4
  DEF Interrupt, sessionState, InterruptReachesEveryRun, Registered, TypeInv, TypeOK,
      WorkerState
<1>5. ASSUME NEW survivors, NewSession(survivors)
      PROVE  workers[w]'.cut # "none"
  BY <1>5 DEF NewSession
<1>6. ASSUME \/ \E f \in Workflow : ToolStep(f) \/ ReconcileStep(f) \/ Recover(f)
                                    \/ \E t \in Task : LeaseExpires(f, t)
             \/ \E t \in Task : CreateTask(t)
             \/ Membership \/ \E a \in Agent : Suspend(a)
             \/ UNCHANGED vars
      PROVE  workers[w]'.cut # "none"
  <2>1. UNCHANGED <<workers, session, cancelledRuns>>
    BY <1>6 DEF ToolStep, PublishWorkflow, StartWorkflow, Pause, Resume, ResumeAdopts,
       Cancel, FinishFailed, FinishBlocked, ReplanWorkflow, Moves, Stops, ReconcileStep,
       Complete, Block, ReleaseReady, FailUnrunnable, Recover, LeaseExpires, CreateTask,
       Membership, Suspend, Resumes, Connect, Reload, process, sessionState, poolState, runs,
       vars
  <2> QED
    BY <1>1, <2>1
<1> QED
  BY <1>2, <1>3, <1>4, <1>5, <1>6 DEF Next, ClaimStep, Membership

\* The registry of runs and the set of cancelled tasks are read and written in
\* one critical section, so no order of a registration and a cancellation leaves
\* a run of a cancelled task out: each is cut, or will be.  A cut that falls
\* between the check of the cancel event and its clearing is lost all the same.
THEOREM InterruptionIsComplete == Spec => []InterruptReachesEveryRun
<1>1. Init => InterruptReachesEveryRun
  BY DEF Init, InterruptReachesEveryRun
<1>2. TypeInv /\ InterruptReachesEveryRun /\ [Next]_vars => InterruptReachesEveryRun'
  BY InterruptStep
<1> QED
  BY <1>1, <1>2, TypeInvariance, PTL DEF Spec

(***************************************************************************)
(* Slots.  Between the claim and the end of a task, a slot keeps the       *)
(* record its handler was given, and never goes back from a review to an   *)
(* execution or from the answer of the agent to its call.                  *)
(***************************************************************************)

\* The pcs up to the end of the call of the agent.
CallPc == {"begin", "check", "dispatch", "bound", "starting", "live"}
Calling(w) == workers[w].pc \in CallPc

GoesOn(w) ==
  \/ ~Busy(w)'
  \/ /\ Busy(w)
     /\ workers[w]'.task = workers[w].task /\ workers[w]'.attempt = workers[w].attempt
     /\ workers[w]'.owner = workers[w].owner /\ workers[w]'.delivery = workers[w].delivery
     /\ Executing(w)' => Executing(w)
     /\ Reviewing(w)' => Reviewing(w)
     /\ Calling(w)' => Calling(w)
     /\ Polling(w)' => Polling(w)
     /\ workers[w]'.pc \in {"claimed", "r_claimed"} => workers[w]'.pc = workers[w].pc

\* The same phase of the handler, or a later one.
After(from, to) ==
  /\ from \in Pc \ {"off", "idle"} /\ to \in Pc \ {"claimed", "r_claimed"}
  /\ to \in ExecPc => from \in ExecPc
  /\ to \in ReviewPc => from \in ReviewPc
  /\ to \in CallPc => from \in CallPc
  /\ to \in PollPc => from \in PollPc

\* A slot that does not move, or whose run a cancellation chooses or cuts.
LEMMA StillGoesOn ==
  ASSUME TypeInv, NEW v \in Worker,
         \/ workers[v]' = workers[v]
         \/ \E cut : workers[v]' = [workers[v] EXCEPT !.cut = cut]
  PROVE  GoesOn(v)
<1>1. workers[v] \in WorkerState
  BY DEF TypeInv, WorkersOK
<1>2. /\ workers[v]'.pc = workers[v].pc /\ workers[v]'.task = workers[v].task
      /\ workers[v]'.attempt = workers[v].attempt /\ workers[v]'.owner = workers[v].owner
      /\ workers[v]'.delivery = workers[v].delivery
  BY <1>1 DEF WorkerState
<1> QED
  BY <1>2 DEF GoesOn, Busy, Executing, Reviewing, Calling, Polling

LEMMA HandlerGoesOn ==
  ASSUME TypeInv, NEW w \in Worker, NEW pc, After(workers[w].pc, pc),
         \/ Goes(w, pc)
         \/ \E cut : workers' = [workers EXCEPT ![w].pc = pc, ![w].cut = cut]
         \/ \E answer : workers' = [workers EXCEPT ![w].pc = pc, ![w].answer = answer,
                                                   ![w].cut = "none"]
  PROVE  \A v \in Worker : GoesOn(v)
<1>1. workers \in [Worker -> WorkerState]
  BY DEF TypeInv, WorkersOK
<1>2. /\ workers[w]'.pc = pc
      /\ workers[w]'.task = workers[w].task /\ workers[w]'.attempt = workers[w].attempt
      /\ workers[w]'.owner = workers[w].owner
      /\ workers[w]'.delivery = workers[w].delivery
  <2>1. CASE Goes(w, pc)
    BY <1>1, <2>1 DEF Goes, WorkerState
  <2>2. ASSUME NEW cut, workers' = [workers EXCEPT ![w].pc = pc, ![w].cut = cut]
        PROVE  /\ workers[w]'.pc = pc
               /\ workers[w]'.task = workers[w].task
               /\ workers[w]'.attempt = workers[w].attempt
               /\ workers[w]'.owner = workers[w].owner
               /\ workers[w]'.delivery = workers[w].delivery
    <3>1. /\ workers[w] \in WorkerState
          /\ workers[w]' = [workers[w] EXCEPT !.pc = pc, !.cut = cut]
      BY <1>1, <2>2
    <3> QED
      BY <3>1 DEF WorkerState
  <2>3. ASSUME NEW answer, workers' = [workers EXCEPT ![w].pc = pc, ![w].answer = answer,
                                                      ![w].cut = "none"]
        PROVE  /\ workers[w]'.pc = pc
               /\ workers[w]'.task = workers[w].task
               /\ workers[w]'.attempt = workers[w].attempt
               /\ workers[w]'.owner = workers[w].owner
               /\ workers[w]'.delivery = workers[w].delivery
    <3>1. /\ workers[w] \in WorkerState
          /\ workers[w]' = [workers[w] EXCEPT !.pc = pc, !.answer = answer, !.cut = "none"]
      BY <1>1, <2>3
    <3> QED
      BY <3>1 DEF WorkerState
  <2> QED
    BY <2>1, <2>2, <2>3
<1>3. GoesOn(w)
  BY <1>2 DEF GoesOn, Busy, Executing, Reviewing, Calling, Polling, After
<1>4. ASSUME NEW v \in Worker, v # w PROVE GoesOn(v)
  <2>1. workers[v]' = workers[v]
    BY <1>1, <1>4 DEF Goes
  <2> QED
    BY <2>1, StillGoesOn
<1> QED
  BY <1>3, <1>4

LEMMA EndsGoesOn ==
  ASSUME TypeInv, NEW w \in Worker, Ends(w)
  PROVE  \A v \in Worker : GoesOn(v)
<1>1. ASSUME NEW v \in Worker PROVE GoesOn(v)
  <2>1. workers[v]' = IF v = w THEN IdleWorker ELSE workers[v]
    BY DEF Ends, TypeInv, WorkersOK
  <2>2. IdleWorker.pc = "idle"
    BY DEF IdleWorker
  <2> QED
    BY <2>1, <2>2, StillGoesOn DEF GoesOn, Busy
<1> QED
  BY <1>1

\* The poller of a slot hands the task it claimed to its handler.
Loading == \E w \in Worker : Load(w) \/ LoadReview(w)

LEMMA SlotsGoOn ==
  ASSUME TypeInv, [Next]_vars, ~Claiming, ~Loading
  PROVE  \A v \in Worker : GoesOn(v)
<1>1. ASSUME workers' = workers PROVE \A v \in Worker : GoesOn(v)
  BY <1>1, StillGoesOn
<1>2. ASSUME NEW w \in Worker, WorkerStep(w) \/ WorkerFault(w)
      PROVE  \A v \in Worker : GoesOn(v)
  <2> DEFINE pc0 == workers[w].pc
             Follows(pc) ==
               \/ pc0 \in ExecPc /\ pc \in ExecPc \ CallPc
               \/ pc0 = "begin" /\ pc = "check"
               \/ pc0 = "check" /\ pc = "dispatch"
               \/ pc0 = "dispatch" /\ pc = "bound"
               \/ pc0 = "bound" /\ pc = "starting"
               \/ pc0 = "starting" /\ pc = "live"
               \/ pc0 \in ReviewPc /\ pc \in ReviewPc
               \/ pc0 \in {"handoff", "r_none"} /\ pc = "escaped"
               \/ pc0 = "escaped" /\ pc = "failing"
               \/ pc0 \in {"claimed", "r_claimed"} /\ pc = "unloaded"
             Updates(pc) ==
               \/ Goes(w, pc)
               \/ \E cut : workers' = [workers EXCEPT ![w].pc = pc, ![w].cut = cut]
               \/ \E answer : workers' = [workers EXCEPT ![w].pc = pc,
                                            ![w].answer = answer, ![w].cut = "none"]
  <2>1. Ends(w) \/ \E pc : Follows(pc) /\ Updates(pc)
    <3>1. CASE Dispatch(w)
      BY <3>1 DEF Dispatch, Side, Reviewing, ExecPc, ReviewPc, CallPc
    <3>2. CASE CheckRun(w)
      <4>1. \/ workers' = [workers EXCEPT ![w].pc = Side(w, "answered", "r_none"),
                                         ![w].cut = "none"]
            \/ Goes(w, Side(w, "starting", "r_starting"))
        BY <3>2 DEF CheckRun
      <4>2. /\ Follows(Side(w, "answered", "r_none"))
            /\ Follows(Side(w, "starting", "r_starting"))
        BY <3>2 DEF CheckRun, Side, Reviewing, ExecPc, ReviewPc, CallPc
      <4> HIDE DEF Follows
      <4> QED
        BY <4>1, <4>2
    <3>3. CASE ClearEvent(w)
      BY <3>3 DEF ClearEvent, Side, Reviewing, ExecPc, ReviewPc, CallPc
    <3>4. CASE ~(Dispatch(w) \/ CheckRun(w) \/ ClearEvent(w))
      BY <1>2, <3>4 DEF Loading, WorkerStep, WorkerFault, Begin, Check, NoAnswer, Answer,
         FinishWorkflowRun, FinishPlainRun, Deliver, Rework, HandOff, ReviewAnswer,
         CompleteReview, RecordAccepted, RecordRejected, ReviewRework, RejectPlain,
         ReviewerUnavailable, HandlerReads, FailUnfenced, LoadRaises, RunRaises,
         ReviewRaises, HandlerRaises, ExecPc, ReviewPc, CallPc
    <3> QED
      BY <3>1, <3>2, <3>3, <3>4
  <2>2. CASE Ends(w)
    BY <2>2, EndsGoesOn
  <2>3. CASE ~Ends(w)
    <3>1. PICK pc : Follows(pc) /\ Updates(pc)
      BY <2>1, <2>3
    <3>2. After(pc0, pc)
      BY <3>1 DEF After, Pc, PollPc, ExecPc, ReviewPc, CallPc
    <3> QED
      BY <3>1, <3>2, HandlerGoesOn
  <2> QED
    BY <2>2, <2>3
<1>3. ASSUME NEW w \in Worker, StopSlot(w)
      PROVE  \A v \in Worker : GoesOn(v)
  <2> SUFFICES ASSUME NEW v \in Worker PROVE GoesOn(v)
    OBVIOUS
  <2>1. CASE v = w
    BY <1>3, <2>1 DEF StopSlot, Goes, GoesOn, Busy, TypeInv, WorkersOK, WorkerState
  <2>2. CASE v # w
    BY <1>3, <2>2, StillGoesOn DEF StopSlot, Goes, TypeInv, WorkersOK
  <2> QED
    BY <2>1, <2>2
<1>4. ASSUME \/ \E f \in Workflow : Interrupt(f)
             \/ \E w \in Worker : CutRun(w)
      PROVE  \A v \in Worker : GoesOn(v)
  <2> SUFFICES ASSUME NEW v \in Worker PROVE GoesOn(v)
    OBVIOUS
  <2>1. CASE \E f \in Workflow : Interrupt(f)
    <3>1. \/ workers[v]' = workers[v]
          \/ workers[v]' = [workers[v] EXCEPT !.cut = "due"]
      BY <2>1 DEF Interrupt
    <3> QED
      BY <3>1, StillGoesOn
  <2>2. CASE \E w \in Worker : CutRun(w)
    <3>1. \/ workers[v]' = workers[v]
          \/ workers[v]' = [workers[v] EXCEPT !.cut = "set"]
      BY <2>2 DEF CutRun, TypeInv, WorkersOK
    <3> QED
      BY <3>1, StillGoesOn
  <2> QED
    BY <1>4, <2>1, <2>2
<1>5. ASSUME NEW survivors, NewSession(survivors)
      PROVE  \A v \in Worker : GoesOn(v)
  <2> SUFFICES ASSUME NEW v \in Worker PROVE GoesOn(v)
    OBVIOUS
  <2>1. \/ workers[v]' = IdleWorker
        \/ workers[v]' = OffWorker
        \/ workers[v]' = workers[v]
    BY <1>5 DEF NewSession
  <2>2. IdleWorker.pc = "idle" /\ OffWorker.pc = "off"
    BY DEF IdleWorker, OffWorker
  <2> QED
    BY <2>1, <2>2, StillGoesOn DEF GoesOn, Busy
<1>6. ASSUME \/ \E f \in Workflow : ToolStep(f) \/ ReconcileStep(f) \/ Recover(f)
                                    \/ \E t \in Task : LeaseExpires(f, t)
             \/ \E t \in Task : CreateTask(t)
             \/ Membership \/ \E a \in Agent : Suspend(a)
             \/ UNCHANGED vars
      PROVE  workers' = workers
  BY <1>6 DEF ToolStep, PublishWorkflow, StartWorkflow, Pause, Resume, ResumeAdopts,
     Cancel, FinishFailed, FinishBlocked, ReplanWorkflow, Moves, Stops, ReconcileStep,
     Complete, Block, ReleaseReady, FailUnrunnable, Recover, LeaseExpires, CreateTask,
     Membership, Suspend, Resumes, Connect, Reload, vars
<1> QED
  BY <1>1, <1>2, <1>3, <1>4, <1>5, <1>6 DEF Next, ClaimStep, Membership, Claiming

(***************************************************************************)
(* One executor per attempt, and only the last attempt delivers.  A slot   *)
(* of a workflow task may be on an attempt that is over: then its number   *)
(* is smaller and its writes are refused.  As long as the number is that   *)
(* of the row, the row is where the slot believes it is, or another        *)
(* executor of the attempt, of an earlier session, delivered it, or it was *)
(* failed or cancelled.  The writes of a /task carry no number: there the  *)
(* slot and the row are never apart, because nothing but its handler       *)
(* writes it.                                                              *)
(***************************************************************************)

Used == \A t \in Task : tasks[t].status \notin {"proposed", "approved", "rejected"}

\* Whom a row in progress or under review belongs to.
RowsInv ==
  \A t \in Task :
    /\ tasks[t].status = "in_progress" => tasks[t].owner \in Agent
    /\ tasks[t].status = "reviewing" => tasks[t].reviewer # tasks[t].owner

\* The slot executes its task, or holds the claim to do so.
Holds(w) == Executing(w) \/ workers[w].pc = "claimed"

SlotInv(w) ==
  /\ TaskOf(w).status # "absent"
  /\ workers[w].attempt <= TaskOf(w).attempt
  /\ workers[w].attempt = TaskOf(w).attempt =>
       /\ Holds(w) =>
            \/ TaskOf(w).status \in {"failed", "cancelled"}
            \/ /\ TaskOf(w).status = "in_progress" \/ Delivered(workers[w].task)
               /\ TaskOf(w).owner = AgentOf[w]
       /\ Reviewing(w) =>
            /\ TaskOf(w).status \in {"failed", "cancelled"} \/ Delivered(workers[w].task)
            /\ Delivered(workers[w].task) => workers[w].delivery = TaskOf(w).delivery
  /\ ~IsWorkflowTask(workers[w].task) =>
       /\ workers[w].attempt = TaskOf(w).attempt
       /\ TaskOf(w).status \in {"in_progress", "reviewing"}
       /\ Holds(w) => TaskOf(w).status = "in_progress"
       /\ Reviewing(w) \/ workers[w].pc = "r_claimed" => TaskOf(w).status = "reviewing"
  /\ Reviewing(w) => workers[w].delivery.agent # AgentOf[w]

SlotsInv == \A w \in Worker : Busy(w) => SlotInv(w)

\* A /task in progress or under review has one slot.
PlainSlots ==
  \A v, w \in Worker :
    /\ Busy(v) /\ Busy(w) /\ workers[v].task = workers[w].task
    /\ ~IsWorkflowTask(workers[v].task)
    => v = w

SameExecutor(v, w) == AgentOf[v] = AgentOf[w] /\ SessionOf[v] = SessionOf[w]

\* An executor claims and loads one task at a time, and what it claims is a
\* later attempt than those its other slots still run.
PollInv ==
  /\ \A v, w \in Worker : Polling(v) /\ Polling(w) /\ SameExecutor(v, w) => v = w
  /\ \A v, w \in Worker :
       /\ Executing(v) /\ workers[w].pc = "claimed" /\ SameExecutor(v, w)
       /\ workers[v].task = workers[w].task
       => workers[v].attempt < workers[w].attempt

AttemptInd ==
  /\ TypeInv /\ Anchored /\ Used /\ RowsInv
  /\ SlotsInv /\ PlainSlots /\ PollInv /\ AttemptInv

\* What a claim takes: a row that waits, and a slot that was free.
LEMMA ClaimShape ==
  ASSUME TypeInv, NEW x \in Worker, NEW t \in Task,
         Claim(x, t) \/ ClaimReview(x, t)
  PROVE  /\ ~Busy(x) /\ workers[x]'.task = t /\ workers[x]'.attempt = tasks[t].attempt
         /\ \A v \in Worker \ {x} : workers[v]' = workers[v]
         /\ \A v \in Worker : ~(Polling(v) /\ SameExecutor(v, x))
         /\ \A u \in Task \ {t} : tasks[u]' = tasks[u]
         /\ tasks[t]'.attempt = tasks[t].attempt
         /\ tasks[t]'.delivery = tasks[t].delivery
         /\ UNCHANGED <<workflows, session, recovering, pool, cancelledRuns, interrupting>>
         /\ tasks[t].job = SessionOf[x] /\ tasks[t]'.job = tasks[t].job
         /\ tasks[t]'.superseded = tasks[t].superseded
         /\ IsWorkflowTask(t) => ~tasks[t].superseded
         /\ \/ /\ tasks[t].status \in {"pending", "approved"}
               /\ tasks[t]'.status = "in_progress" /\ tasks[t]'.owner = AgentOf[x]
               /\ workers[x]'.pc = "claimed"
               /\ \A d \in Deps[t] : tasks[d].status = "completed"
            \/ /\ tasks[t].status = "pending_review" /\ tasks[t]'.status = "reviewing"
               /\ tasks[t]'.owner = tasks[t].owner /\ tasks[t].owner # AgentOf[x]
               /\ tasks[t]'.reviewer = AgentOf[x]
               /\ workers[x]'.pc = "r_claimed"
<1> DEFINE r == tasks[t]
<1>1. r \in TaskRow /\ tasks \in [Task -> TaskRow] /\ workers \in [Worker -> WorkerState]
      /\ AgentOf[x] \in Agent
  BY RowTypes, ExecutionAssumption DEF TypeInv, TypeOK
<1>2. /\ workers[x].pc = "idle"
      /\ \A v \in Worker : ~(Polling(v) /\ SameExecutor(v, x))
      /\ UNCHANGED <<workflows, session, recovering, pool, cancelledRuns, interrupting>>
  BY
  DEF Claim, ClaimReview, MayClaim, SameExecutor, process, sessionState, poolState, runs
<1>3. CASE Claim(x, t)
  <2>1. workers' = [workers EXCEPT ![x] =
          [ pc |-> "claimed", task |-> t, attempt |-> r.attempt, owner |-> AgentOf[x],
            delivery |-> NoDelivery, answer |-> "none", cut |-> "none" ]]
    BY <1>3 DEF Claim, Takes
  <2>2. Claimable(t, AgentOf[x], SessionOf[x])
    BY <1>3 DEF Claim, IsFirst, Executable
  <2>3. tasks' = [tasks EXCEPT ![t] = ClaimTask(r, AgentOf[x])]
    BY <1>3 DEF Claim
  <2>4. /\ tasks[t]'.attempt = r.attempt /\ tasks[t]'.delivery = r.delivery
        /\ tasks[t]'.job = r.job /\ tasks[t]'.superseded = r.superseded
        /\ tasks[t]'.status = "in_progress" /\ tasks[t]'.owner = AgentOf[x]
    BY <1>1, <2>3 DEF ClaimTask, TaskRow
  <2>5. /\ workers[x]'.task = t /\ workers[x]'.attempt = r.attempt
        /\ workers[x]'.pc = "claimed"
        /\ \A v \in Worker \ {x} : workers[v]' = workers[v]
    BY <1>1, <2>1
  <2>6. \A u \in Task \ {t} : tasks[u]' = tasks[u]
    BY <1>1, <2>3
  <2> QED
    BY <1>2, <2>2, <2>4, <2>5, <2>6 DEF Busy, Claimable, ExecClaimGate
<1>4. CASE ClaimReview(x, t)
  <2>1. workers' = [workers EXCEPT ![x] =
          [ pc |-> "r_claimed", task |-> t, attempt |-> r.attempt, owner |-> NoAgent,
            delivery |-> NoDelivery, answer |-> "none", cut |-> "none" ]]
    BY <1>4 DEF ClaimReview, Takes
  <2>2. Reviewable(t, AgentOf[x], SessionOf[x])
    BY <1>4 DEF ClaimReview, IsFirst
  <2>3. tasks' = [tasks EXCEPT ![t] = ClaimReviewTask(r, AgentOf[x])]
    BY <1>4 DEF ClaimReview
  <2>4. /\ tasks[t]'.attempt = r.attempt /\ tasks[t]'.delivery = r.delivery
        /\ tasks[t]'.job = r.job /\ tasks[t]'.superseded = r.superseded
        /\ tasks[t]'.status = "reviewing" /\ tasks[t]'.owner = r.owner
        /\ tasks[t]'.reviewer = AgentOf[x]
    BY <1>1, <2>3 DEF ClaimReviewTask, TaskRow
  <2>5. /\ workers[x]'.task = t /\ workers[x]'.attempt = r.attempt
        /\ workers[x]'.pc = "r_claimed"
        /\ \A v \in Worker \ {x} : workers[v]' = workers[v]
    BY <1>1, <2>1
  <2>6. \A u \in Task \ {t} : tasks[u]' = tasks[u]
    BY <1>1, <2>3
  <2> QED
    BY <1>2, <2>2, <2>4, <2>5, <2>6 DEF Busy, Reviewable, ReviewClaimGate
<1> QED
  BY <1>3, <1>4

\* What a load hands over: the row as it is by now, if it is still in progress
\* with the agent of the slot, or under its review.
LEMMA LoadShape ==
  ASSUME TypeInv, NEW x \in Worker, Load(x) \/ LoadReview(x)
  PROVE  /\ Busy(x) /\ Polling(x) /\ ~Executing(x) /\ ~Reviewing(x)
         /\ \A v \in Worker \ {x} : workers[v]' = workers[v]
         /\ UNCHANGED <<tasks, workflows, attempts, process>>
         /\ \/ ~Busy(x)'
            \/ /\ workers[x]'.task = workers[x].task
               /\ workers[x]'.attempt = TaskOf(x).attempt
               /\ \/ /\ workers[x].pc = "claimed" /\ Load(x)
                     /\ workers[x]'.pc \in {"begin", "dispatch"}
                     /\ TaskOf(x).status = "in_progress"
                     /\ TaskOf(x).owner \in {AgentOf[x], NoAgent}
                  \/ /\ workers[x].pc = "r_claimed" /\ workers[x]'.pc = "r_dispatch"
                     /\ TaskOf(x).status = "reviewing"
                     /\ TaskOf(x).reviewer = AgentOf[x]
                     /\ workers[x]'.owner = TaskOf(x).owner
                     /\ workers[x]'.delivery = TaskOf(x).delivery
<1> DEFINE t == workers[x].task
<1>1. workers \in [Worker -> WorkerState]
  BY DEF TypeInv, TypeOK
<1>2. /\ UNCHANGED <<tasks, workflows, attempts, process>>
      /\ workers[x].pc \in {"claimed", "r_claimed"}
      /\ Busy(x) /\ Polling(x) /\ ~Executing(x) /\ ~Reviewing(x)
  BY DEF Load, LoadReview, Busy, Polling, PollPc, Executing, ExecPc, Reviewing, ReviewPc
<1>3. CASE Ends(x)
  <2>1. workers[x]'.pc = "idle" /\ \A v \in Worker \ {x} : workers[v]' = workers[v]
    BY <1>1, <1>3 DEF Ends, IdleWorker
  <2> QED
    BY <1>2, <2>1 DEF Busy
<1>4. ASSUME NEW pc, NEW owner, NEW delivery, Takes(x, pc, t, owner, delivery)
      PROVE  /\ workers[x]'.pc = pc /\ workers[x]'.task = t
             /\ workers[x]'.attempt = TaskOf(x).attempt
             /\ workers[x]'.owner = owner /\ workers[x]'.delivery = delivery
             /\ \A v \in Worker \ {x} : workers[v]' = workers[v]
  BY <1>1, <1>4 DEF Takes, TaskOf
<1>5. CASE Load(x) /\ ~Ends(x)
  <2>1. /\ workers[x].pc = "claimed"
        /\ TaskOf(x).status = "in_progress" /\ TaskOf(x).owner \in {AgentOf[x], NoAgent}
        /\ Takes(x, IF IsWorkflowTask(t) THEN "begin" ELSE "dispatch", t,
                 AgentOf[x], NoDelivery)
    BY <1>5 DEF Load, TaskOf
  <2> QED
    BY <1>2, <1>4, <1>5, <2>1
<1>6. CASE LoadReview(x) /\ ~Ends(x)
  <2>1. /\ workers[x].pc = "r_claimed"
        /\ TaskOf(x).status = "reviewing" /\ TaskOf(x).reviewer = AgentOf[x]
        /\ Takes(x, "r_dispatch", t, TaskOf(x).owner, TaskOf(x).delivery)
    BY <1>6 DEF LoadReview, TaskOf
  <2> QED
    BY <1>2, <1>4, <2>1
<1> QED
  BY <1>3, <1>5, <1>6

\* What a handler writes is on the row of its task, and if it delivers or
\* accepts, the row is on the attempt of the slot.
LEMMA Outcomes ==
  ASSUME TypeInv, NEW w \in Worker, HandlerStep(w), SlotInv(w)
  PROVE  /\ Busy(w) /\ UNCHANGED <<workflows, attempts, process>>
         /\ \A u \in Task \ {workers[w].task} : tasks[u]' = tasks[u]
         /\ HandlerWrite(TaskOf(w), tasks'[workers[w].task])
         /\ ~IsWorkflowTask(workers[w].task) \/ Executing(w) => ~Busy(w)'
         /\ \/ tasks'[workers[w].task] = TaskOf(w)
            \/ tasks'[workers[w].task].status \notin {"pending_review", "completed"}
            \/ /\ Executing(w) /\ TaskOf(w).status \in {"in_progress", "reviewing"}
               /\ workers[w].attempt = TaskOf(w).attempt /\ TaskOf(w).owner = AgentOf[w]
               /\ tasks'[workers[w].task].delivery =
                    [agent |-> AgentOf[w], attempt |-> TaskOf(w).attempt]
            \/ /\ Reviewing(w) /\ TaskOf(w).status = "reviewing"
               /\ workers[w].attempt = TaskOf(w).attempt
               /\ tasks'[workers[w].task].delivery = TaskOf(w).delivery
<1> DEFINE t == workers[w].task
           row == TaskOf(w)
           s == tasks'[t]
           mine == [agent |-> AgentOf[w], attempt |-> workers[w].attempt]
           Unmoved == s = row \/ s.status \notin {"pending_review", "completed"}
<1>1. /\ Busy(w) /\ t \in Task /\ row \in TaskRow /\ tasks \in [Task -> TaskRow]
      /\ UNCHANGED <<workflows, attempts, process>>
  BY HandlerWrites, HandlerTypes, BusyTypes DEF TypeInv, TypeOK
<1>2. PICK new : WritesRow(w, new) /\ HandlerWrite(row, new)
  BY HandlerWrites
<1>3. s = new /\ \A u \in Task \ {t} : tasks[u]' = tasks[u]
  BY <1>1, <1>2 DEF WritesRow
<1>4. ASSUME NEW r, WritesRow(w, r) PROVE s = r
  BY <1>1, <1>4 DEF WritesRow
<1>5. row.attempt \in FenceOf(w) => workers[w].attempt = row.attempt
  BY <1>1 DEF FenceOf, Fence, SlotInv
<1>6. Ends(w) => ~Busy(w)'
  BY DEF Ends, Busy, IdleWorker, TypeInv, TypeOK
<1>7. CASE Deliver(w)
  <2>1. Executing(w) /\ Ends(w)
    BY <1>7 DEF Deliver, Executing, ExecPc
  <2>2. \/ s = SubmitForReview(row, FenceOf(w), mine)
        \/ s = CompleteTask(row, FenceOf(w), mine, NoAgent)
    <3>1. \/ WritesRow(w, SubmitForReview(row, FenceOf(w), mine))
          \/ WritesRow(w, CompleteTask(row, FenceOf(w), mine, NoAgent))
      BY <1>7 DEF Deliver
    <3> QED
      BY <1>4, <3>1
  <2>3. \/ s = row
        \/ /\ row.attempt \in FenceOf(w) /\ row.status \in {"in_progress", "reviewing"}
           /\ s.delivery = mine
    BY <1>1, <2>2, TransitionTable DEF SubmitForReview, CompleteTask, Admits, TaskRow
  <2>4. s # row => /\ row.status \in {"in_progress", "reviewing"}
                   /\ workers[w].attempt = row.attempt /\ row.owner = AgentOf[w]
    BY <1>5, <2>1, <2>3 DEF SlotInv, Holds
  <2> QED
    BY <1>1, <1>2, <1>3, <1>6, <2>1, <2>3, <2>4
<1>8. CASE Rework(w) \/ HandOff(w) \/ ReviewRework(w) \/ RejectPlain(w) \/ FailUnfenced(w)
  <2>1. Ends(w)
    BY <1>8 DEF Rework, HandOff, ReviewRework, RejectPlain, FailUnfenced
  <2>2. \/ \E owner, delivery : s = ReworkTask(row, FenceOf(w), owner, delivery)
        \/ \E agent, exclude : s = RequeueTask(row, FenceOf(w), agent, exclude)
        \/ \E fence : s = FailTask(row, fence, TaskStatus)
        \/ \E agent, delivery : s = RequeueTaskAfterReview(row, FenceOf(w), agent, delivery)
    <3>1. CASE Rework(w) \/ ReviewRework(w)
      BY <1>4, <3>1 DEF Rework, ReviewRework
    <3>2. CASE HandOff(w)
      <4>1. \/ WritesRow(w, RequeueTask(row, FenceOf(w), AgentOf[w], FALSE))
            \/ WritesRow(w, RequeueTask(row, FenceOf(w), AgentOf[w], TRUE))
            \/ WritesRow(w, FailTask(row, FenceOf(w), TaskStatus))
        BY <3>2 DEF HandOff
      <4> QED
        BY <1>4, <4>1
    <3>3. CASE RejectPlain(w)
      BY <1>4, <3>3 DEF RejectPlain
    <3>4. CASE FailUnfenced(w)
      BY <1>4, <3>4 DEF FailUnfenced
    <3> QED
      BY <1>8, <3>1, <3>2, <3>3, <3>4
  <2>3. Unmoved
    BY <1>1, <2>2 DEF ReworkTask, RequeueTask, FailTask, RequeueTaskAfterReview, TaskRow
  <2> QED
    BY <1>1, <1>2, <1>3, <1>6, <2>1, <2>3
<1>9. CASE CompleteReview(w) \/ ReviewerUnavailable(w)
  <2>1. Reviewing(w) /\ ~Executing(w)
    BY <1>9
    DEF CompleteReview, ReviewerUnavailable, Reviewing, Executing, ReviewPc, ExecPc
  <2>2. ~IsWorkflowTask(t) => Ends(w)
    BY <1>9 DEF CompleteReview, ReviewerUnavailable
  <2>3. \/ \E reviewer : s = CompleteTask(row, FenceOf(w), workers[w].delivery, reviewer)
        \/ \E exclude : s = ReturnReview(row, FenceOf(w), AgentOf[w], exclude)
    <3>1. \/ \E reviewer :
               WritesRow(w, CompleteTask(row, FenceOf(w), workers[w].delivery, reviewer))
          \/ \E exclude : WritesRow(w, ReturnReview(row, FenceOf(w), AgentOf[w], exclude))
      BY <1>9 DEF CompleteReview, ReviewerUnavailable
    <3> QED
      BY <1>4, <3>1
  <2>4. \/ s = row
        \/ /\ row.attempt \in FenceOf(w) /\ row.status \in {"in_progress", "reviewing"}
           /\ s.delivery \in {workers[w].delivery, row.delivery}
    BY <1>1, <2>3, TransitionTable DEF CompleteTask, ReturnReview, Admits, TaskRow
  <2>5. s # row =>
          /\ row.status = "reviewing" /\ workers[w].attempt = row.attempt
          /\ workers[w].delivery = row.delivery
    BY <1>5, <2>1, <2>4 DEF SlotInv, Delivered, TaskOf
  <2> QED
    BY <1>1, <1>2, <1>3, <1>6, <2>1, <2>2, <2>4, <2>5
<1> QED
  BY <1>7, <1>8, <1>9 DEF HandlerStep

LEMMA UsedStep ==
  ASSUME TypeInv, Anchored, Used, [Next]_vars
  PROVE  Used'
<1> SUFFICES ASSUME NEW t \in Task
             PROVE  tasks[t]'.status \notin {"proposed", "approved", "rejected"}
  BY DEF Used
<1>1. tasks[t] \in TaskRow /\ RowStep(tasks[t], tasks[t]')
  BY RowTypes, TypeStep DEF Rows
<1>2. CASE tasks[t].status # "absent"
  BY <1>1, <1>2, AttemptFacts DEF Used, NextAttempt, SameAttempt
<1>3. CASE tasks[t].status = "absent"
  BY <1>1, <1>3, RowFacts, ClaimFacts, InsertFacts DEF RowStep, InsertStep
<1> QED
  BY <1>2, <1>3

LEMMA RowsInvStep ==
  ASSUME TypeInv, Anchored, Used, RowsInv, [Next]_vars
  PROVE  RowsInv'
<1> SUFFICES ASSUME NEW t \in Task
             PROVE  /\ tasks[t]'.status = "in_progress" => tasks[t]'.owner \in Agent
                    /\ tasks[t]'.status = "reviewing" =>
                         tasks[t]'.reviewer # tasks[t]'.owner
  BY DEF RowsInv
<1> DEFINE r == tasks[t]
           s == tasks[t]'
<1>1. r \in TaskRow /\ RowStep(r, s)
  BY RowTypes, TypeStep DEF Rows
<1>2. CASE Insertion(r, s)
  BY <1>2, InsertFacts
<1>3. CASE ~Insertion(r, s)
  <2>1. RowWrite(r, s) \/ ClaimWrite(r, s)
    BY <1>1, <1>3 DEF RowStep, InsertStep
  <2>2. CASE r.status = "absent"
    BY <1>1, <2>1, <2>2, RowFacts, ClaimFacts
  <2>3. CASE r.status # "absent"
    <3>1. NextAttempt(r, s) \/ SameAttempt(r, s)
      BY <1>1, <2>3, AttemptFacts DEF Used
    <3>2. s.status = "in_progress" => s.owner \in Agent
      BY <3>1 DEF RowsInv, NextAttempt, SameAttempt
    <3>3. ASSUME s.status = "reviewing" PROVE s.reviewer # s.owner
      <4>1. CASE RowWrite(r, s)
        <5>1. r.status = "reviewing" /\ s.reviewer = r.reviewer
          BY <1>1, <3>3, <4>1, ReviewFacts
        <5>2. s.owner = r.owner
          BY <3>1, <3>3, <5>1 DEF NextAttempt, SameAttempt
        <5> QED
          BY <5>1, <5>2 DEF RowsInv
      <4>2. CASE ~RowWrite(r, s)
        <5>1. Claiming
          BY <1>3, <4>2, TypeStep DEF Rewrites, Inserts, InsertStep
        <5>2. PICK x \in Worker, u \in Task : Claim(x, u) \/ ClaimReview(x, u)
          BY <5>1 DEF Claiming
        <5>3. u = t
          BY <4>2, <5>2, ClaimShape DEF RowWrite
        <5> QED
          BY <3>3, <5>2, <5>3, ClaimShape
      <4> QED
        BY <4>1, <4>2
    <3> QED
      BY <3>2, <3>3
  <2> QED
    BY <2>2, <2>3
<1> QED
  BY <1>2, <1>3

\* A row that delivers or accepts: its handler wrote it, in the attempt it is in.
LEMMA DeliveryStep ==
  ASSUME AttemptInd, [Next]_vars, NEW t \in Task,
         tasks[t].status \in {"in_progress", "reviewing"},
         tasks[t]'.status \in {"pending_review", "completed"}
  PROVE  \/ /\ tasks[t].status = "reviewing" /\ tasks[t]'.delivery = tasks[t].delivery
         \/ \E w \in Worker :
              /\ Executing(w) /\ ~Busy(w)' /\ workers[w].task = t
              /\ workers[w].attempt = tasks[t].attempt /\ tasks[t].owner = AgentOf[w]
              /\ tasks[t]'.delivery = [agent |-> AgentOf[w], attempt |-> tasks[t].attempt]
<1>1. TypeInv /\ Anchored /\ tasks[t] \in TaskRow /\ tasks[t]' # tasks[t]
  BY RowTypes DEF AttemptInd
<1>2. ASSUME Managed(t, tasks[t]')
      PROVE  tasks[t].status = "reviewing" /\ tasks[t]'.delivery = tasks[t].delivery
  <2>1. BatchWrite(tasks[t], tasks[t]')
    BY <1>1, <1>2 DEF Managed, BatchWrite
  <2> QED
    BY <1>1, <2>1, BatchFacts
<1>3. CASE Batches
  BY <1>2, <1>3 DEF Batches
<1>4. CASE Extends
  <2>1. ~Retirement(tasks[t], tasks[t]')
    <3> SUFFICES ASSUME Retirement(tasks[t], tasks[t]') PROVE FALSE
      OBVIOUS
    <3>1. tasks[t].status # "absent" /\ tasks[t]'.status # tasks[t].status
      OBVIOUS
    <3>2. tasks[t]'.status = "cancelled"
      BY <1>1, <3>1, RetirementFacts
    <3> QED
      BY <3>2
  <2> QED
    BY <1>2, <1>4, <2>1, InsertFacts DEF Extends
<1>5. ASSUME NEW w \in Worker, HandlerStep(w)
      PROVE  \/ tasks[t].status = "reviewing" /\ tasks[t]'.delivery = tasks[t].delivery
             \/ /\ Executing(w) /\ ~Busy(w)' /\ workers[w].task = t
                /\ workers[w].attempt = tasks[t].attempt /\ tasks[t].owner = AgentOf[w]
                /\ tasks[t]'.delivery = [agent |-> AgentOf[w], attempt |-> tasks[t].attempt]
  <2>1. SlotInv(w)
    BY <1>1, <1>5, HandlerWrites DEF AttemptInd, SlotsInv
  <2>2. workers[w].task = t
    BY <1>1, <1>5, <2>1, Outcomes
  <2>3. TaskOf(w) = tasks[t]
    BY <2>2 DEF TaskOf
  <2>4. \/ tasks'[t].status \notin {"pending_review", "completed"}
        \/ /\ Executing(w) /\ workers[w].attempt = tasks[t].attempt
           /\ tasks[t].owner = AgentOf[w]
           /\ tasks'[t].delivery = [agent |-> AgentOf[w], attempt |-> tasks[t].attempt]
        \/ tasks[t].status = "reviewing" /\ tasks'[t].delivery = tasks[t].delivery
    BY <1>1, <1>5, <2>1, <2>2, <2>3, Outcomes
  <2>5. Executing(w) => ~Busy(w)'
    BY <1>1, <1>5, <2>1, Outcomes
  <2> QED
    BY <2>2, <2>4, <2>5
<1>6. CASE Claiming
  <2>1. PICK x \in Worker, u \in Task : Claim(x, u) \/ ClaimReview(x, u)
    BY <1>6 DEF Claiming
  <2>2. tasks[t]' = tasks[t] \/ tasks[t]'.status \in {"in_progress", "reviewing"}
    BY <1>1, <2>1, ClaimShape
  <2> QED
    BY <1>1, <2>2
<1> QED
  BY <1>1, <1>3, <1>4, <1>5, <1>6, TypeStep

LEMMA DeliveredIsCurrent ==
  ASSUME AttemptInd, [Next]_vars
  PROVE  DeliveryOfCurrentAttempt'
<1> SUFFICES ASSUME NEW t \in Task, Delivered(t)'
             PROVE  tasks[t]'.delivery =
                      [agent |-> tasks[t]'.owner, attempt |-> tasks[t]'.attempt]
  BY DEF DeliveryOfCurrentAttempt
<1> DEFINE r == tasks[t]
           s == tasks[t]'
<1>1. r \in TaskRow /\ RowStep(r, s)
  BY RowTypes, TypeStep DEF AttemptInd, Rows
<1>2. Delivered(t) => r.delivery = [agent |-> r.owner, attempt |-> r.attempt]
  BY DEF AttemptInd, AttemptInv, DeliveryOfCurrentAttempt
<1>3. r.status \notin {"absent", "approved"}
  <2>1. r.status # "absent"
    BY <1>1, RowFacts, ClaimFacts, InsertFacts DEF RowStep, InsertStep, Delivered
  <2> QED
    BY <2>1 DEF AttemptInd, Used
<1>4. SameAttempt(r, s)
  BY <1>1, <1>3, AttemptFacts DEF NextAttempt, Delivered
<1>5. CASE r.status \in {"in_progress", "reviewing"} /\ s.status \in {"pending_review", "completed"}
  <2>1. s.attempt = r.attempt /\ s.owner = r.owner
    BY <1>4, <1>5 DEF SameAttempt
  <2>2. CASE r.status = "reviewing" /\ s.delivery = r.delivery
    BY <1>2, <2>1, <2>2 DEF Delivered
  <2>3. ASSUME NEW w \in Worker, r.owner = AgentOf[w],
               s.delivery = [agent |-> AgentOf[w], attempt |-> r.attempt]
        PROVE  s.delivery = [agent |-> s.owner, attempt |-> s.attempt]
    BY <2>1, <2>3
  <2> QED
    BY <1>5, <2>2, <2>3, DeliveryStep
<1>6. CASE r.status \notin {"in_progress", "reviewing"} \/ s.status \notin {"pending_review", "completed"}
  <2>1. /\ Delivered(t) /\ s.attempt = r.attempt /\ s.owner = r.owner
        /\ s.delivery = r.delivery
    BY <1>4, <1>6 DEF SameAttempt, Delivered
  <2> QED
    BY <1>2, <2>1
<1> QED
  BY <1>5, <1>6

\* A slot that goes on with a task of /task: nobody else wrote its row.
LEMMA PlainStays ==
  ASSUME AttemptInd, [Next]_vars, NEW v \in Worker, Busy(v), Busy(v)',
         ~IsWorkflowTask(workers[v].task)
  PROVE  tasks'[workers[v].task] = TaskOf(v)
<1> DEFINE r == TaskOf(v)
<1>t. PICK t \in Task : t = workers[v].task
  BY BusyTypes DEF AttemptInd
<1>1. /\ TypeInv /\ Anchored /\ SlotInv(v) /\ r \in TaskRow /\ r = tasks[t]
      /\ r.status \in {"in_progress", "reviewing"} /\ ~IsWorkflowTask(t)
  BY <1>t, BusyTypes DEF AttemptInd, SlotsInv, SlotInv, TaskOf
<1>2. ASSUME Managed(t, tasks[t]') PROVE tasks[t]' = r
  BY <1>1, <1>2 DEF Managed, UnassignPending
<1>3. CASE Batches
  BY <1>2, <1>3, <1>t DEF Batches
<1>4. CASE Extends
  BY <1>1, <1>2, <1>4, <1>t, InsertFacts DEF Extends
<1>5. ASSUME NEW w \in Worker, HandlerStep(w) PROVE tasks[t]' = r
  <2>1. Busy(w) /\ SlotInv(w)
    BY <1>1, <1>5, HandlerWrites DEF AttemptInd, SlotsInv
  <2>2. CASE workers[w].task = t
    <3>1. w = v
      BY <1>1, <1>t, <2>1, <2>2 DEF AttemptInd, PlainSlots
    <3>2. ~Busy(w)'
      BY <1>1, <1>5, <1>t, <2>1, <3>1, Outcomes
    <3> QED
      BY <3>1, <3>2
  <2>3. CASE workers[w].task # t
    BY <1>1, <1>5, <2>1, <2>3, Outcomes
  <2> QED
    BY <2>2, <2>3
<1>6. CASE Claiming
  <2>1. PICK x \in Worker, u \in Task : Claim(x, u) \/ ClaimReview(x, u)
    BY <1>6 DEF Claiming
  <2>2. tasks[u].status \in {"pending", "approved", "pending_review"}
    BY <1>1, <2>1, ClaimShape
  <2>3. tasks[t]' = tasks[t]
    BY <1>1, <2>1, <2>2, ClaimShape
  <2> QED
    BY <1>1, <1>t, <2>3
<1> QED
  BY <1>1, <1>3, <1>4, <1>5, <1>6, <1>t, TypeStep

LEMMA SlotStaysTrue ==
  ASSUME AttemptInd, [Next]_vars, DeliveryOfCurrentAttempt', NEW v \in Worker,
         Busy(v)', GoesOn(v)
  PROVE  SlotInv(v)'
<1>t. PICK t \in Task : t = workers[v].task
  BY BusyTypes DEF AttemptInd, GoesOn
<1> DEFINE r == tasks[t]
           s == tasks[t]'
<1>1. /\ Busy(v) /\ TypeInv /\ SlotInv(v) /\ TaskOf(v) = r /\ r \in TaskRow
      /\ workers[v]'.task = t /\ workers[v]'.attempt = workers[v].attempt
      /\ workers[v]'.delivery = workers[v].delivery
      /\ workers[v].attempt \in Nat /\ r.attempt \in Nat
      /\ Holds(v)' => Holds(v)
      /\ Reviewing(v)' => Reviewing(v)
      /\ workers[v]'.pc = "r_claimed" => workers[v].pc = "r_claimed"
  <2>1. Busy(v) /\ TypeInv /\ SlotInv(v)
    BY DEF AttemptInd, SlotsInv, GoesOn
  <2>2. r \in TaskRow /\ r.attempt \in Nat /\ workers[v].attempt \in Nat /\ TaskOf(v) = r
    BY <1>t, <2>1, BusyTypes, RowTypes DEF TaskOf, TaskRow
  <2> QED
    BY <1>t, <2>1, <2>2 DEF GoesOn, Holds
<1>2. TaskOf(v)' = s
  BY <1>1 DEF TaskOf
<1>3. r.status \notin {"absent", "approved"}
  BY <1>1, <1>t DEF SlotInv, AttemptInd, Used
<1>4. RowStep(r, s) /\ (NextAttempt(r, s) \/ SameAttempt(r, s))
  BY <1>1, <1>3, TypeStep, AttemptFacts DEF AttemptInd, Rows
<1>5. s.status # "absent" /\ workers[v]'.attempt <= s.attempt
  BY <1>1, <1>3, <1>4 DEF NextAttempt, SameAttempt, SlotInv
<1>6. workers[v]'.attempt = s.attempt => SameAttempt(r, s) /\ workers[v].attempt = r.attempt
  BY <1>1, <1>4 DEF NextAttempt, SameAttempt, SlotInv
<1>7. ASSUME workers[v]'.attempt = s.attempt, Holds(v)'
      PROVE  \/ s.status \in {"failed", "cancelled"}
             \/ (s.status = "in_progress" \/ Delivered(t)') /\ s.owner = AgentOf[v]
  <2>1. /\ SameAttempt(r, s) /\ workers[v].attempt = r.attempt
        /\ \/ r.status \in {"failed", "cancelled"}
           \/ /\ r.status \in {"in_progress", "pending_review", "reviewing", "completed"}
              /\ r.owner = AgentOf[v]
    BY <1>1, <1>6, <1>7, <1>t DEF SlotInv, Delivered
  <2>2. r.status \in {"failed", "cancelled"} => s.status = r.status
    BY <1>1, <1>4, RowFacts, ClaimFacts, InsertFacts
    DEF RowStep, InsertStep, SettledStatus
  <2> QED
    BY <2>1, <2>2 DEF SameAttempt, Delivered
<1>8. ASSUME workers[v]'.attempt = s.attempt, Reviewing(v)'
      PROVE  /\ s.status \in {"failed", "cancelled"} \/ Delivered(t)'
             /\ Delivered(t)' => workers[v].delivery = s.delivery
  <2>1. /\ SameAttempt(r, s) /\ workers[v].attempt = r.attempt
        /\ r.status \in {"pending_review", "reviewing", "completed", "failed", "cancelled"}
        /\ Delivered(t) => workers[v].delivery = r.delivery
    BY <1>1, <1>6, <1>8, <1>t DEF SlotInv, Delivered
  <2>2. s.status \in {"failed", "cancelled"} \/ Delivered(t)'
    BY <2>1 DEF SameAttempt, Delivered
  <2>3. ASSUME Delivered(t)' PROVE workers[v].delivery = s.delivery
    <3>1. Delivered(t) /\ s.owner = r.owner /\ s.attempt = r.attempt
      <4>1. r.status \in TaskStatus \cup {"absent"}
        BY <1>1 DEF TaskRow
      <4>2. r.status \notin {"failed", "cancelled"}
        BY <1>1, <1>4, <2>3, RowFacts, ClaimFacts, InsertFacts
        DEF RowStep, InsertStep, SettledStatus, Delivered
      <4> QED
        BY <2>1, <2>3, <4>2 DEF SameAttempt, Delivered
    <3>2. r.delivery = [agent |-> r.owner, attempt |-> r.attempt]
      BY <3>1 DEF AttemptInd, AttemptInv, DeliveryOfCurrentAttempt
    <3>3. s.delivery = [agent |-> s.owner, attempt |-> s.attempt]
      BY <2>3 DEF DeliveryOfCurrentAttempt
    <3> QED
      BY <2>1, <3>1, <3>2, <3>3
  <2> QED
    BY <2>2, <2>3
<1>9. ASSUME ~IsWorkflowTask(t)
      PROVE  /\ workers[v]'.attempt = s.attempt
             /\ s.status \in {"in_progress", "reviewing"}
             /\ Holds(v)' => s.status = "in_progress"
             /\ Reviewing(v)' \/ workers[v]'.pc = "r_claimed" => s.status = "reviewing"
  <2>1. s = r
    BY <1>1, <1>9, <1>t, PlainStays DEF TaskOf
  <2> QED
    BY <1>1, <1>9, <1>t, <2>1 DEF SlotInv
<1>10. Reviewing(v)' => workers[v]'.delivery.agent # AgentOf[v]
  BY <1>1 DEF SlotInv
<1>11. /\ workers[v]'.task = t
       /\ IsWorkflowTask(t)' <=> IsWorkflowTask(t)
  BY <1>1 DEF IsWorkflowTask
<1> QED
  BY <1>1, <1>2, <1>5, <1>7, <1>8, <1>9, <1>10, <1>11 DEF SlotInv

LEMMA SlotBegins ==
  ASSUME AttemptInd, NEW x \in Worker, NEW t \in Task,
         Claim(x, t) \/ ClaimReview(x, t)
  PROVE  SlotInv(x)'
<1> DEFINE r == tasks[t]
           s == tasks[t]'
<1>1. /\ TypeInv /\ r \in TaskRow /\ r.attempt \in Nat
      /\ workers[x]'.task = t /\ workers[x]'.attempt = r.attempt
      /\ s.attempt = r.attempt /\ s.delivery = r.delivery
  BY RowTypes, ClaimShape DEF AttemptInd, TaskRow
<1>2. TaskOf(x)' = s /\ (Delivered(t)' <=> s.status \in {"pending_review", "reviewing", "completed"})
  BY <1>1 DEF TaskOf, Delivered
<1>3. CASE s.status = "in_progress"
  <2>1. s.owner = AgentOf[x] /\ workers[x]'.pc = "claimed"
    BY <1>1, <1>3, ClaimShape
  <2>2. ~Reviewing(x)'
    BY <2>1 DEF Reviewing, ReviewPc
  <2> QED
    BY <1>1, <1>2, <1>3, <2>1, <2>2 DEF SlotInv
<1>4. CASE s.status # "in_progress"
  <2>1. s.status = "reviewing" /\ workers[x]'.pc = "r_claimed"
    BY <1>1, <1>4, ClaimShape
  <2>2. ~Holds(x)' /\ ~Reviewing(x)'
    BY <2>1 DEF Holds, Executing, ExecPc, Reviewing, ReviewPc
  <2> QED
    BY <1>1, <1>2, <2>1, <2>2 DEF SlotInv
<1> QED
  BY <1>3, <1>4

\* The record a load gives the handler is right, whatever was claimed.
LEMMA SlotLoads ==
  ASSUME AttemptInd, NEW x \in Worker, Load(x) \/ LoadReview(x), Busy(x)'
  PROVE  SlotInv(x)'
<1> DEFINE r == TaskOf(x)
<1>t. PICK t \in Task : t = workers[x].task
  BY LoadShape, BusyTypes DEF AttemptInd
<1>1. /\ TypeInv /\ Busy(x) /\ r \in TaskRow /\ r.attempt \in Nat /\ r = tasks[t]
      /\ workers[x]'.task = t /\ workers[x]'.attempt = r.attempt /\ tasks' = tasks
  BY <1>t, LoadShape, BusyTypes DEF AttemptInd, TaskRow, TaskOf
<1>2. TaskOf(x)' = r /\ (Delivered(t)' <=> Delivered(t))
  BY <1>1 DEF TaskOf, Delivered
<1>3. CASE workers[x].pc = "claimed"
  <2>1. /\ r.status = "in_progress" /\ r.owner \in {AgentOf[x], NoAgent}
        /\ workers[x]'.pc \in {"begin", "dispatch"}
    BY <1>1, <1>3, LoadShape
  <2>2. r.owner = AgentOf[x]
    BY <1>1, <2>1, RepositoryAssumption DEF AttemptInd, RowsInv
  <2>3. ~Reviewing(x)' /\ workers[x]'.pc # "r_claimed"
    BY <2>1 DEF Reviewing, ReviewPc
  <2> QED
    BY <1>1, <1>2, <2>1, <2>2, <2>3 DEF SlotInv
<1>4. CASE workers[x].pc # "claimed"
  <2>1. /\ r.status = "reviewing" /\ r.reviewer = AgentOf[x]
        /\ workers[x]'.pc = "r_dispatch" /\ workers[x]'.delivery = r.delivery
    BY <1>1, <1>4, LoadShape
  <2>2. ~Holds(x)'
    BY <2>1 DEF Holds, Executing, ExecPc
  <2>3. Delivered(t) /\ r.delivery = [agent |-> r.owner, attempt |-> r.attempt]
    BY <1>1, <2>1 DEF AttemptInd, AttemptInv, DeliveryOfCurrentAttempt, Delivered
  <2>4. workers[x]'.delivery.agent # AgentOf[x]
    BY <1>1, <2>1, <2>3 DEF AttemptInd, RowsInv
  <2> QED
    BY <1>1, <1>2, <2>1, <2>2, <2>3, <2>4 DEF SlotInv
<1> QED
  BY <1>3, <1>4

\* A claim takes a task no slot executes in this attempt.
LEMMA ClaimIsFresh ==
  ASSUME AttemptInd, NEW x \in Worker, NEW t \in Task,
         Claim(x, t) \/ ClaimReview(x, t),
         NEW v \in Worker \ {x}, Busy(v), workers[v].task = t
  PROVE  /\ IsWorkflowTask(t)
         /\ workers[x]'.pc = "claimed" /\ Executing(v) =>
              workers[v].attempt < workers[x]'.attempt
<1>1. TypeInv /\ tasks[t] \in TaskRow /\ tasks[t].attempt \in Nat
      /\ workers[v].attempt \in Nat
  BY RowTypes, BusyTypes DEF AttemptInd, TaskRow
<1>2. SlotInv(v) /\ TaskOf(v) = tasks[t]
  BY DEF AttemptInd, SlotsInv, TaskOf
<1>3. /\ workers[x]'.attempt = tasks[t].attempt
      /\ tasks[t].status \in {"pending", "pending_review"}
      /\ workers[x]'.pc = "claimed" => tasks[t].status = "pending"
  <2>1. "approved" # tasks[t].status
    BY DEF AttemptInd, Used
  <2> QED
    BY <1>1, <2>1, ClaimShape
<1> QED
  BY <1>1, <1>2, <1>3 DEF SlotInv, Holds, Delivered

\* Neither kind of slot changes pc in a step of others.
LEMMA Unmoved ==
  ASSUME TypeInv, NEW v \in Worker, workers[v]' = workers[v]
  PROVE  /\ GoesOn(v) /\ (Busy(v)' <=> Busy(v)) /\ (Executing(v)' <=> Executing(v))
         /\ (Polling(v)' <=> Polling(v))
         /\ workers[v]'.pc = workers[v].pc /\ workers[v]'.task = workers[v].task
         /\ workers[v]'.attempt = workers[v].attempt
BY StillGoesOn DEF Busy, Executing, Polling

LEMMA BusyKinds ==
  ASSUME NEW v \in Worker
  PROVE  /\ Executing(v) => Busy(v) /\ ~Polling(v)
         /\ Polling(v) => Busy(v)
         /\ workers[v].pc \in {"claimed", "r_claimed"} => Polling(v) /\ Busy(v)
BY DEF Executing, ExecPc, Busy, Polling, PollPc

LEMMA AttemptStep ==
  ASSUME AttemptInd, [Next]_vars
  PROVE  AttemptInd'
<1>1. TypeInv' /\ Anchored' /\ Used' /\ RowsInv' /\ DeliveryOfCurrentAttempt' /\ TypeInv
  BY TypeStep, AnchoredStep, UsedStep, RowsInvStep, DeliveredIsCurrent DEF AttemptInd
<1>b. /\ \A v \in Worker : Executing(v)' => Busy(v)' /\ ~Polling(v)'
      /\ \A v \in Worker : Polling(v)' => Busy(v)'
      /\ \A v \in Worker : workers[v]'.pc \in {"claimed", "r_claimed"} => Polling(v)'
  BY DEF Executing, ExecPc, Busy, Polling, PollPc
<1>2. CASE ~Claiming /\ ~Loading
  <2>1. \A v \in Worker : GoesOn(v)
    BY <1>1, <1>2, SlotsGoOn
  <2>2. SlotsInv'
    BY <1>1, <2>1, SlotStaysTrue DEF SlotsInv
  <2>3. PlainSlots'
    BY <2>1 DEF GoesOn, AttemptInd, PlainSlots, IsWorkflowTask
  <2>4. OneExecutorPerAttempt'
    BY <1>b, <2>1 DEF GoesOn, AttemptInd, AttemptInv, OneExecutorPerAttempt
  <2>5. PollInv'
    <3>1. ASSUME NEW v \in Worker, NEW w \in Worker, Polling(v)', Polling(w)',
                 SameExecutor(v, w)
          PROVE  v = w
      BY <1>b, <2>1, <3>1 DEF GoesOn, AttemptInd, PollInv
    <3>2. ASSUME NEW v \in Worker, NEW w \in Worker, Executing(v)',
                 workers[w]'.pc = "claimed", SameExecutor(v, w),
                 workers[v]'.task = workers[w]'.task
          PROVE  workers[v]'.attempt < workers[w]'.attempt
      BY <1>b, <2>1, <3>2 DEF GoesOn, AttemptInd, PollInv
    <3> QED
      BY <3>1, <3>2 DEF PollInv, SameExecutor
  <2> QED
    BY <1>1, <2>2, <2>3, <2>4, <2>5 DEF AttemptInd, AttemptInv
<1>3. ASSUME NEW x \in Worker, NEW t \in Task,
             Claim(x, t) \/ ClaimReview(x, t)
      PROVE  AttemptInd'
  <2>1. /\ workers[x]'.task = t /\ ~Busy(x)
        /\ workers[x]'.pc \in {"claimed", "r_claimed"}
        /\ \A v \in Worker : ~(Polling(v) /\ SameExecutor(v, x))
    BY <1>1, <1>3, ClaimShape
  <2>2. \A v \in Worker \ {x} :
          /\ GoesOn(v) /\ (Busy(v)' <=> Busy(v)) /\ (Executing(v)' <=> Executing(v))
          /\ (Polling(v)' <=> Polling(v))
          /\ workers[v]'.pc = workers[v].pc /\ workers[v]'.task = workers[v].task
          /\ workers[v]'.attempt = workers[v].attempt
    BY <1>1, <1>3, ClaimShape, Unmoved
  <2>3. SlotsInv'
    BY <1>1, <1>3, <2>2, SlotStaysTrue, SlotBegins DEF SlotsInv
  <2>4. ASSUME NEW v \in Worker \ {x}, Busy(v), workers[v].task = t
        PROVE  /\ IsWorkflowTask(t)
               /\ workers[x]'.pc = "claimed" /\ Executing(v) =>
                    workers[v].attempt < workers[x]'.attempt
    BY <1>3, <2>4, ClaimIsFresh
  <2>5. PlainSlots'
    <3> SUFFICES ASSUME NEW v \in Worker, NEW w \in Worker, Busy(v)', Busy(w)',
                        workers[v]'.task = workers[w]'.task,
                        ~IsWorkflowTask(workers[v]'.task), v # w
                 PROVE  FALSE
      BY DEF PlainSlots, IsWorkflowTask
    <3>1. CASE v # x /\ w # x
      BY <2>2, <3>1 DEF AttemptInd, PlainSlots
    <3>2. CASE v = x
      BY <2>1, <2>2, <2>4, <3>2
    <3>3. CASE w = x
      BY <2>1, <2>2, <2>4, <3>3
    <3> QED
      BY <3>1, <3>2, <3>3
  <2>6. OneExecutorPerAttempt'
    <3>1. ~Executing(x)'
      BY <2>1 DEF Executing, ExecPc
    <3> QED
      BY <2>2, <3>1 DEF AttemptInd, AttemptInv, OneExecutorPerAttempt
  <2>7. PollInv'
    <3>1. ASSUME NEW v \in Worker, NEW w \in Worker, Polling(v)', Polling(w)',
                 SameExecutor(v, w), v # w
          PROVE  FALSE
      BY <2>1, <2>2, <3>1 DEF AttemptInd, PollInv, SameExecutor
    <3>2. ASSUME NEW v \in Worker, NEW w \in Worker, Executing(v)',
                 workers[w]'.pc = "claimed", SameExecutor(v, w),
                 workers[v]'.task = workers[w]'.task
          PROVE  workers[v]'.attempt < workers[w]'.attempt
      <4>1. v # x /\ Executing(v) /\ Busy(v)
        BY <1>b, <2>1, <2>2, <3>2, BusyKinds DEF Executing, ExecPc
      <4>2. CASE w = x
        BY <2>1, <2>2, <2>4, <3>2, <4>1, <4>2
      <4>3. CASE w # x
        BY <2>2, <3>2, <4>1, <4>3 DEF AttemptInd, PollInv
      <4> QED
        BY <4>2, <4>3
    <3> QED
      BY <3>1, <3>2 DEF PollInv, SameExecutor
  <2> QED
    BY <1>1, <2>3, <2>5, <2>6, <2>7 DEF AttemptInd, AttemptInv
<1>4. ASSUME NEW x \in Worker, Load(x) \/ LoadReview(x)
      PROVE  AttemptInd'
  <2>1. /\ Busy(x) /\ Polling(x) /\ ~Executing(x) /\ tasks' = tasks
        /\ ~Polling(x)'
        /\ Busy(x)' => workers[x]'.task = workers[x].task
        /\ Executing(x)' =>
             /\ workers[x].pc = "claimed" /\ workers[x]'.attempt = TaskOf(x).attempt
             /\ TaskOf(x).status = "in_progress"
    <3>1. CASE ~Busy(x)'
      BY <1>1, <1>4, <1>b, <3>1, LoadShape
    <3>2. CASE Busy(x)'
      <4>1. workers[x]'.pc \in {"begin", "dispatch", "r_dispatch"}
        BY <1>1, <1>4, <3>2, LoadShape
      <4>2. ~Polling(x)' /\ (Executing(x)' => workers[x]'.pc # "r_dispatch")
        BY <4>1 DEF Polling, PollPc, Executing, ExecPc
      <4> QED
        BY <1>1, <1>4, <3>2, <4>2, LoadShape
    <3> QED
      BY <3>1, <3>2
  <2>2. \A v \in Worker \ {x} :
          /\ GoesOn(v) /\ (Busy(v)' <=> Busy(v)) /\ (Executing(v)' <=> Executing(v))
          /\ (Polling(v)' <=> Polling(v))
          /\ workers[v]'.pc = workers[v].pc /\ workers[v]'.task = workers[v].task
          /\ workers[v]'.attempt = workers[v].attempt
    BY <1>1, <1>4, LoadShape, Unmoved
  <2>3. SlotsInv'
    BY <1>1, <1>4, <2>2, SlotStaysTrue, SlotLoads DEF SlotsInv
  <2>4. PlainSlots'
    BY <2>1, <2>2 DEF AttemptInd, PlainSlots, IsWorkflowTask
  <2>5. ASSUME NEW v \in Worker \ {x}, Executing(v), Executing(x)',
               workers[v].task = workers[x].task,
               workers[v].attempt = workers[x]'.attempt
        PROVE  AgentOf[v] = AgentOf[x] /\ SessionOf[v] # SessionOf[x]
    <3>1. /\ Busy(v) /\ SlotInv(v) /\ SlotInv(x) /\ TaskOf(v) = TaskOf(x)
          /\ workers[v].attempt \in Nat /\ workers[x].attempt \in Nat
          /\ workers[v].attempt = TaskOf(v).attempt
      BY <1>1, <2>1, <2>5, BusyKinds, BusyTypes DEF AttemptInd, SlotsInv, TaskOf
    <3>2. TaskOf(v).owner = AgentOf[v] /\ TaskOf(v).owner = AgentOf[x]
      <4>1. TaskOf(v).owner = AgentOf[v]
        BY <2>1, <2>5, <3>1 DEF SlotInv, Holds
      <4>2. TaskOf(x).owner \in {AgentOf[x], NoAgent}
        BY <1>1, <1>4, <1>b, <2>1, <2>5, LoadShape
      <4>3. AgentOf[v] # NoAgent
        BY ExecutionAssumption, RepositoryAssumption
      <4> QED
        BY <3>1, <4>1, <4>2, <4>3
    <3>3. SessionOf[v] # SessionOf[x]
      <4> SUFFICES ASSUME SessionOf[v] = SessionOf[x] PROVE FALSE
        OBVIOUS
      <4>1. workers[v].attempt < workers[x].attempt
        BY <2>1, <2>5, <3>2 DEF AttemptInd, PollInv, SameExecutor
      <4>2. workers[x].attempt <= TaskOf(x).attempt
        BY <3>1 DEF SlotInv
      <4> QED
        BY <3>1, <4>1, <4>2
    <3> QED
      BY <3>2, <3>3
  <2>6. OneExecutorPerAttempt'
    <3> SUFFICES ASSUME NEW v \in Worker, NEW w \in Worker, Executing(v)', Executing(w)',
                        workers[v]'.task = workers[w]'.task,
                        workers[v]'.attempt = workers[w]'.attempt, v # w
                 PROVE  AgentOf[v] = AgentOf[w] /\ SessionOf[v] # SessionOf[w]
      BY DEF OneExecutorPerAttempt
    <3>1. CASE v # x /\ w # x
      BY <2>2, <3>1 DEF AttemptInd, AttemptInv, OneExecutorPerAttempt
    <3>2. CASE v = x
      BY <1>b, <2>1, <2>2, <2>5, <3>2
    <3>3. CASE w = x
      BY <1>b, <2>1, <2>2, <2>5, <3>3
    <3> QED
      BY <3>1, <3>2, <3>3
  <2>7. PollInv'
    <3>1. ASSUME NEW v \in Worker, NEW w \in Worker, Polling(v)', Polling(w)',
                 SameExecutor(v, w), v # w
          PROVE  FALSE
      BY <2>1, <2>2, <3>1 DEF AttemptInd, PollInv, SameExecutor
    <3>2. ASSUME NEW v \in Worker, NEW w \in Worker, Executing(v)',
                 workers[w]'.pc = "claimed", SameExecutor(v, w),
                 workers[v]'.task = workers[w]'.task
          PROVE  workers[v]'.attempt < workers[w]'.attempt
      <4>1. w # x /\ Polling(w)
        BY <1>b, <2>1, <2>2, <3>2
      <4>2. v # x
        BY <2>1, <3>2, <4>1 DEF AttemptInd, PollInv, SameExecutor
      <4> QED
        BY <2>2, <3>2, <4>1, <4>2 DEF AttemptInd, PollInv
    <3> QED
      BY <3>1, <3>2 DEF PollInv, SameExecutor
  <2> QED
    BY <1>1, <2>3, <2>4, <2>6, <2>7 DEF AttemptInd, AttemptInv
<1> QED
  BY <1>2, <1>3, <1>4 DEF Claiming, Loading

LEMMA AttemptInvariance == Spec => []AttemptInd
<1>1. Init => AttemptInd
  <2> SUFFICES ASSUME Init PROVE AttemptInd
    OBVIOUS
  <2>1. TypeInv /\ Anchored
    BY TypeInit
  <2>2. \A w \in Worker : ~Busy(w)
    BY DEF Init, Busy, IdleWorker, OffWorker
  <2>3. \A w \in Worker : Executing(w) \/ Polling(w) => Busy(w)
    BY BusyKinds
  <2>4. \A t \in Task : tasks[t].status = "absent"
    BY DEF Init, AbsentTask
  <2> QED
    BY <2>1, <2>2, <2>3, <2>4
    DEF AttemptInd, Used, RowsInv, SlotsInv, PlainSlots, PollInv, AttemptInv, OneExecutorPerAttempt,
        DeliveryOfCurrentAttempt, Delivered
<1>2. AttemptInd /\ [Next]_vars => AttemptInd'
  BY AttemptStep
<1> QED
  BY <1>1, <1>2, PTL DEF Spec

\* An attempt has one agent, and one executor in each session, and only its
\* delivery stands, for any number of agents, slots, sessions, expired leases and
\* restarts.  What a poller claimed and what it loads may differ: the poller of a
\* session that is over may load the attempt its agent claimed in the next one.
THEOREM AttemptsAreExclusive == Spec => []AttemptInv
BY AttemptInvariance, PTL DEF AttemptInd

\* What is under review or accepted is the delivery of the last attempt.
THEOREM DeliveriesAreCurrent == Spec => []DeliveryOfCurrentAttempt
BY AttemptInvariance, PTL DEF AttemptInd, AttemptInv

(***************************************************************************)
(* Prerequisites.                                                          *)
(***************************************************************************)

Started(t) == tasks[t].status = "in_progress" \/ Delivered(t)

\* A task starts only by a claim, whose gate saw its prerequisites completed.
LEMMA StartedStep ==
  ASSUME AttemptInd, [Next]_vars, NEW t \in Task, Started(t)'
  PROVE  Started(t) \/ \A d \in Deps[t] : tasks[d].status = "completed"
<1> DEFINE r == tasks[t]
           s == tasks[t]'
<1>1. TypeInv /\ r \in TaskRow /\ RowStep(r, s)
  BY RowTypes, TypeStep DEF AttemptInd, Rows
<1>2. s.status \in {"in_progress", "pending_review", "reviewing", "completed"}
  BY DEF Started, Delivered
<1>3. r.status \notin {"absent", "approved"}
  <2>1. r.status # "absent"
    BY <1>1, <1>2, RowFacts, ClaimFacts, InsertFacts DEF RowStep, InsertStep
  <2> QED
    BY <2>1 DEF AttemptInd, Used
<1>4. Started(t) \/ (r.status = "pending" /\ s.status = "in_progress")
  BY <1>1, <1>2, <1>3, AttemptFacts DEF NextAttempt, SameAttempt, Started, Delivered
<1>5. CASE r.status = "pending" /\ s.status = "in_progress"
  <2>1. ~RowWrite(r, s) /\ ~Insertion(r, s)
    BY <1>1, <1>5, RowFacts, InsertFacts
  <2>2. Claiming
    BY <1>1, <2>1, TypeStep DEF AttemptInd, Rewrites, Inserts, InsertStep
  <2>3. PICK x \in Worker, u \in Task : Claim(x, u) \/ ClaimReview(x, u)
    BY <2>2 DEF Claiming
  <2>4. u = t
    BY <1>1, <1>5, <2>3, ClaimShape
  <2> QED
    BY <1>1, <1>5, <2>3, <2>4, ClaimShape
<1> QED
  BY <1>4, <1>5

\* What was built on an accepted prerequisite is never left without it, for
\* any plan, any replans and any verdicts.
THEOREM PrerequisitesStay == Spec => []PrerequisitesStayCompleted
<1>1. Init => PrerequisitesStayCompleted
  BY DEF Init, AbsentTask, PrerequisitesStayCompleted, Delivered
<1>2. ASSUME AttemptInd, PrerequisitesStayCompleted, [Next]_vars
      PROVE  PrerequisitesStayCompleted'
  <2> SUFFICES ASSUME NEW t \in Task, Started(t)', NEW d \in Deps[t]
               PROVE  tasks[d]'.status = "completed"
    BY DEF PrerequisitesStayCompleted, Started
  <2>1. d \in Task
    BY RepositoryAssumption
  <2>2. tasks[d].status = "completed"
    BY <1>2, StartedStep DEF PrerequisitesStayCompleted, Started
  <2>3. tasks[d] \in TaskRow /\ RowStep(tasks[d], tasks[d]')
    BY <1>2, <2>1, RowTypes, TypeStep DEF AttemptInd, Rows
  <2>4. RowWrite(tasks[d], tasks[d]')
    BY <2>2, <2>3, ClaimFacts, InsertFacts DEF RowStep, InsertStep
  <2> QED
    BY <2>2, <2>3, <2>4, RowFacts DEF SettledStatus
<1>3. AttemptInd /\ PrerequisitesStayCompleted /\ [Next]_vars => PrerequisitesStayCompleted'
  BY <1>2
<1> QED
  BY <1>1, <1>3, AttemptInvariance, PTL DEF Spec

(***************************************************************************)
(* Reviews.                                                                *)
(***************************************************************************)

\* A workflow task completes in the hands of a reviewer who is not the author
\* of the delivery, or of an author who is alone in the pool.
LEMMA CompletionStep ==
  ASSUME AttemptInd, [Next]_vars, NEW t \in Task, IsWorkflowTask(t),
         tasks[t].status # "completed", tasks'[t].status = "completed"
  PROVE  \/ tasks'[t].reviewer \in Agent \ {tasks'[t].delivery.agent}
         \/ pool \subseteq {tasks'[t].delivery.agent}
<1> DEFINE r == tasks[t]
           s == tasks'[t]
<1>1. TypeInv /\ r \in TaskRow
  BY RowTypes DEF AttemptInd
<1>2. ~Batches /\ ~(Inserting /\ Extends) /\ ~Claiming
  <2>1. ASSUME Managed(t, s) PROVE FALSE
    BY <1>1, <2>1, BatchFacts DEF Managed, BatchWrite
  <2>2. ~Retirement(r, s)
    <3> SUFFICES ASSUME Retirement(r, s) PROVE FALSE
      OBVIOUS
    <3>1. CASE r.status = "absent"
      BY <1>1, <3>1, RowFacts DEF RowWrite
    <3>2. CASE r.status # "absent"
      BY <1>1, <3>2, RetirementFacts
    <3> QED
      BY <3>1, <3>2
  <2>3. ~Insertion(r, s)
    BY InsertFacts
  <2>4. ~Claiming
    <3> SUFFICES ASSUME NEW x \in Worker, NEW u \in Task,
                        Claim(x, u) \/ ClaimReview(x, u)
                 PROVE  FALSE
      BY DEF Claiming
    <3> QED
      BY <1>1, ClaimShape
  <2> QED
    BY <2>1, <2>2, <2>3, <2>4 DEF Batches, Extends
<1>3. PICK w \in Worker : HandlerStep(w)
  BY <1>1, <1>2, TypeStep DEF AttemptInd
<1>4. SlotInv(w) /\ Busy(w)
  BY <1>1, <1>3, HandlerWrites DEF AttemptInd, SlotsInv
<1>5. workers[w].task = t
  BY <1>1, <1>3, <1>4, Outcomes
<1>6. TaskOf(w) = r /\ AgentOf[w] \in Agent /\ AgentOf[w] # NoAgent
  BY <1>5, RepositoryAssumption, ExecutionAssumption DEF TaskOf
<1>7. ASSUME NEW new, WritesRow(w, new) PROVE s = new
  BY <1>1, <1>5, <1>7 DEF WritesRow, TypeInv, TypeOK
<1>8. CASE Deliver(w)
  <2> DEFINE mine == [agent |-> AgentOf[w], attempt |-> workers[w].attempt]
  <2>1. \/ s = SubmitForReview(r, FenceOf(w), mine)
        \/ pool \ {AgentOf[w]} = {} /\ s = CompleteTask(r, FenceOf(w), mine, NoAgent)
    <3>1. CASE pool \ {AgentOf[w]} # {}
      <4>1. WritesRow(w, SubmitForReview(r, FenceOf(w), mine))
        BY <1>6, <1>8, <3>1 DEF Deliver
      <4> QED
        BY <1>7, <4>1
    <3>2. CASE pool \ {AgentOf[w]} = {}
      <4>1. WritesRow(w, CompleteTask(r, FenceOf(w), mine, NoAgent))
        BY <1>6, <1>8, <3>2 DEF Deliver
      <4> QED
        BY <1>7, <3>2, <4>1
    <3> QED
      BY <3>1, <3>2
  <2>2. s # SubmitForReview(r, FenceOf(w), mine)
    BY <1>1 DEF SubmitForReview, TaskRow
  <2>3. s = CompleteTask(r, FenceOf(w), mine, NoAgent) => s.delivery = mine
    BY <1>1 DEF CompleteTask, TaskRow
  <2> QED
    BY <2>1, <2>2, <2>3
<1>9. CASE CompleteReview(w)
  <2>1. WritesRow(w, CompleteTask(r, FenceOf(w), workers[w].delivery, AgentOf[w]))
    BY <1>6, <1>9 DEF CompleteReview
  <2>2. s = CompleteTask(r, FenceOf(w), workers[w].delivery, AgentOf[w])
    BY <1>7, <2>1
  <2>3. s.delivery = workers[w].delivery /\ s.reviewer = AgentOf[w]
    BY <1>1, <1>6, <2>2 DEF CompleteTask, TaskRow
  <2>4. Reviewing(w)
    BY <1>9 DEF CompleteReview, Reviewing, ReviewPc
  <2> QED
    BY <1>4, <1>6, <2>3, <2>4 DEF SlotInv
<1>10. CASE ReviewerUnavailable(w)
  <2>1. PICK exclude : WritesRow(w, ReturnReview(r, FenceOf(w), AgentOf[w], exclude))
    BY <1>5, <1>6, <1>10 DEF ReviewerUnavailable
  <2>2. s = ReturnReview(r, FenceOf(w), AgentOf[w], exclude)
    BY <1>7, <2>1
  <2> QED
    BY <1>1, <2>2 DEF ReturnReview, TaskRow
<1>11. CASE Rework(w) \/ HandOff(w) \/ ReviewRework(w) \/ RejectPlain(w) \/ FailUnfenced(w)
  <2>1. \/ \E owner, delivery : s = ReworkTask(r, FenceOf(w), owner, delivery)
        \/ \E agent, exclude : s = RequeueTask(r, FenceOf(w), agent, exclude)
        \/ \E fence : s = FailTask(r, fence, TaskStatus)
        \/ \E agent, delivery : s = RequeueTaskAfterReview(r, FenceOf(w), agent, delivery)
    <3>1. CASE Rework(w) \/ ReviewRework(w)
      BY <1>6, <1>7, <3>1 DEF Rework, ReviewRework
    <3>2. CASE HandOff(w)
      <4>1. \/ WritesRow(w, RequeueTask(r, FenceOf(w), AgentOf[w], FALSE))
            \/ WritesRow(w, RequeueTask(r, FenceOf(w), AgentOf[w], TRUE))
            \/ WritesRow(w, FailTask(r, FenceOf(w), TaskStatus))
        BY <1>6, <3>2 DEF HandOff
      <4> QED
        BY <1>7, <4>1
    <3>3. CASE RejectPlain(w) \/ FailUnfenced(w)
      BY <1>6, <1>7, <3>3 DEF RejectPlain, FailUnfenced
    <3> QED
      BY <1>11, <3>1, <3>2, <3>3
  <2> QED
    BY <1>1, <2>1 DEF ReworkTask, RequeueTask, FailTask, RequeueTaskAfterReview, TaskRow
<1> QED
  BY <1>3, <1>8, <1>9, <1>10, <1>11 DEF HandlerStep

\* No workflow task is accepted without the review of another agent, whatever
\* reviewers fail or leave, unless its author has nobody to ask.
THEOREM CompletionsAreReviewed == Spec => CompletionIsReviewed
<1>1. AttemptInd /\ [Next]_vars =>
        [\A t \in Task :
           /\ IsWorkflowTask(t)
           /\ tasks[t].status # "completed" /\ tasks'[t].status = "completed"
           => LET author == tasks'[t].delivery.agent IN
              \/ tasks'[t].reviewer \in Agent \ {author}
              \/ pool \subseteq {author}]_vars
  BY CompletionStep
<1> QED
  BY <1>1, AttemptInvariance, PTL DEF Spec, CompletionIsReviewed

(***************************************************************************)
(* The lifecycle of a task.                                                *)
(***************************************************************************)

PhaseOf(r) ==
  CASE r.status = "pending" -> "waiting"
    [] r.status = "in_progress" -> "running"
    [] r.status \in {"pending_review", "reviewing"} -> "delivered"
    [] r.status = "completed" -> "accepted"
    [] OTHER -> r.status

LifeOf(r) ==
  [ phase |-> PhaseOf(r), attempt |-> r.attempt,
    agent |-> IF PhaseOf(r) \in {"running", "delivered", "accepted"}
                THEN r.owner ELSE NoAgent,
    delivery |-> IF r.status \in {"pending_review", "reviewing", "completed"}
                   THEN r.delivery ELSE NoDelivery ]

LEMMA LifeIs == \A t : Life(t) = LifeOf(tasks[t]) /\ Life(t)' = LifeOf(tasks'[t])
BY DEF Life, LifeOf, PhaseOf, Delivered

\* A delivery names the attempt it was made in.
Faithful(r) ==
  r.status \in {"pending_review", "reviewing", "completed"} =>
    r.delivery = [agent |-> r.owner, attempt |-> r.attempt]

\* The lives of TaskLifecycle, written out.
LifeRecord(phase, n, agent, delivery) ==
  [phase |-> phase, attempt |-> n, agent |-> agent, delivery |-> delivery]

LEMMA LifeRecords ==
  ASSUME NEW n, NEW a, NEW phase
  PROVE  /\ Lifecycle!Waits(n) = LifeRecord("waiting", n, NoAgent, NoDelivery)
         /\ Lifecycle!Runs(n, a) = LifeRecord("running", n, a, NoDelivery)
         /\ Lifecycle!Delivers(n, a) =
              LifeRecord("delivered", n, a, [agent |-> a, attempt |-> n])
         /\ Lifecycle!Accepts(Lifecycle!Delivers(n, a)) =
              LifeRecord("accepted", n, a, [agent |-> a, attempt |-> n])
         /\ Lifecycle!Ends(n, phase) = LifeRecord(phase, n, NoAgent, NoDelivery)
<1> DEFINE made == [agent |-> a, attempt |-> n]
<1> HIDE DEF made
<1>1. Lifecycle!Unborn = LifeRecord("absent", 0, NoAgent, NoDelivery)
  BY DEF Lifecycle!Unborn, Lifecycle!Undelivered, NoDelivery, LifeRecord
<1>2. Lifecycle!Waits(n) = LifeRecord("waiting", n, NoAgent, NoDelivery)
  <2>1. [Lifecycle!Unborn EXCEPT !.phase = "waiting"] =
          LifeRecord("waiting", 0, NoAgent, NoDelivery)
    BY <1>1 DEF LifeRecord
  <2>2. [LifeRecord("waiting", 0, NoAgent, NoDelivery) EXCEPT !.attempt = n] =
          LifeRecord("waiting", n, NoAgent, NoDelivery)
    BY DEF LifeRecord
  <2> QED
    BY <2>1, <2>2 DEF Lifecycle!Waits
<1>3. Lifecycle!Runs(n, a) = LifeRecord("running", n, a, NoDelivery)
  <2>1. [Lifecycle!Waits(n) EXCEPT !.phase = "running"] =
          LifeRecord("running", n, NoAgent, NoDelivery)
    BY <1>2 DEF LifeRecord
  <2>2. [LifeRecord("running", n, NoAgent, NoDelivery) EXCEPT !.agent = a] =
          LifeRecord("running", n, a, NoDelivery)
    BY DEF LifeRecord
  <2> QED
    BY <2>1, <2>2 DEF Lifecycle!Runs
<1>4. Lifecycle!Delivers(n, a) = LifeRecord("delivered", n, a, made)
  <2>1. [Lifecycle!Runs(n, a) EXCEPT !.phase = "delivered"] =
          LifeRecord("delivered", n, a, NoDelivery)
    BY <1>3 DEF LifeRecord
  <2>2. [LifeRecord("delivered", n, a, NoDelivery) EXCEPT !.delivery = made] =
          LifeRecord("delivered", n, a, made)
    BY DEF LifeRecord
  <2> QED
    BY <2>1, <2>2 DEF Lifecycle!Delivers, made
<1>5. Lifecycle!Accepts(Lifecycle!Delivers(n, a)) = LifeRecord("accepted", n, a, made)
  BY <1>4 DEF LifeRecord, Lifecycle!Accepts
<1>6. Lifecycle!Ends(n, phase) = LifeRecord(phase, n, NoAgent, NoDelivery)
  BY <1>2 DEF LifeRecord, Lifecycle!Ends
<1> QED
  BY <1>2, <1>3, <1>4, <1>5, <1>6 DEF made

\* The life of a row, by its status.
LEMMA LifeForms ==
  ASSUME NEW r \in TaskRow, Faithful(r)
  PROVE  /\ r.status = "pending" => LifeOf(r) = Lifecycle!Waits(r.attempt)
         /\ r.status = "in_progress" => LifeOf(r) = Lifecycle!Runs(r.attempt, r.owner)
         /\ r.status \in {"pending_review", "reviewing"} =>
              LifeOf(r) = Lifecycle!Delivers(r.attempt, r.owner)
         /\ r.status = "completed" =>
              LifeOf(r) = Lifecycle!Accepts(Lifecycle!Delivers(r.attempt, r.owner))
         /\ r.status \in {"failed", "cancelled"} =>
              LifeOf(r) = Lifecycle!Ends(r.attempt, r.status)
<1> USE LifeRecords DEF LifeOf, PhaseOf, LifeRecord
<1>1. CASE r.status = "pending"
  BY <1>1
<1>2. CASE r.status = "in_progress"
  BY <1>2
<1>3. CASE r.status \in {"pending_review", "reviewing"}
  BY <1>3 DEF Faithful
<1>4. CASE r.status = "completed"
  BY <1>4 DEF Faithful
<1>5. CASE r.status \in {"failed", "cancelled"}
  BY <1>5
<1> QED
  BY <1>1, <1>2, <1>3, <1>4, <1>5

\* One step of the row of task t is a step of its life, or none.
LEMMA LifeStep ==
  ASSUME AttemptInd, AttemptInd', [Next]_vars, NEW t \in Task
  PROVE  Life(t)' = Life(t) \/ Lifecycle!Step(t)
<1> DEFINE r == tasks[t]
           s == tasks'[t]
           l == LifeOf(r)
           m == LifeOf(s)
<1>1. /\ TypeInv /\ r \in TaskRow /\ s \in TaskRow /\ RowStep(r, s)
      /\ Faithful(r) /\ Faithful(s)
      /\ r.status \notin {"proposed", "approved", "rejected"}
  <2>1. TypeInv /\ r \in TaskRow /\ RowStep(r, s)
    BY RowTypes, TypeStep DEF AttemptInd, Rows
  <2>2. s \in TaskRow
    BY DEF AttemptInd, TypeInv, TypeOK
  <2>3. Faithful(r) /\ Faithful(s)
    BY DEF AttemptInd, AttemptInv, DeliveryOfCurrentAttempt, Delivered, Faithful
  <2> QED
    BY <2>1, <2>2, <2>3 DEF AttemptInd, Used
<1>2. /\ [u \in Task |-> Life(u)][t] = l
      /\ [u \in Task |-> Life(u)]'[t] = m
      /\ Life(t) = l /\ Life(t)' = m
  BY LifeIs
<1>3. m = l \/
        \/ l.phase = "absent" /\ m = Lifecycle!Waits(0)
        \/ l.phase = "waiting" /\ \E agent \in Agent : m = Lifecycle!Runs(l.attempt, agent)
        \/ l.phase = "running" /\ m = Lifecycle!Delivers(l.attempt, l.agent)
        \/ l.phase = "running" /\ m = Lifecycle!Accepts(Lifecycle!Delivers(l.attempt, l.agent))
        \/ l.phase = "delivered" /\ m = Lifecycle!Accepts(l)
        \/ l.phase \in {"running", "delivered"} /\ m = Lifecycle!Waits(l.attempt + 1)
        \/ /\ l.phase \in {"waiting", "running", "delivered"}
           /\ \E n \in {l.attempt, l.attempt + 1} : m = Lifecycle!Ends(n, "failed")
        \/ /\ l.phase \in {"waiting", "running", "delivered"}
           /\ m = Lifecycle!Ends(l.attempt, "cancelled")
  <2> USE <1>1, LifeForms
  <2>1. CASE r.status = "absent"
    <3>1. CASE RowWrite(r, s)
      <4>1. s.status = r.status /\ s.attempt = r.attempt
        BY <2>1, <3>1, AbsentFacts
      <4> QED
        BY <2>1, <4>1 DEF LifeOf, PhaseOf
    <3>2. CASE Insertion(r, s)
      <4>1. s.status = "pending" /\ s.attempt = 0
        BY <3>2, InsertFacts
      <4>2. l.phase = "absent"
        BY <2>1 DEF LifeOf, PhaseOf
      <4> QED
        BY <4>1, <4>2
    <3>3. ~ClaimWrite(r, s)
      BY <2>1, ClaimFacts
    <3> QED
      BY <3>1, <3>2, <3>3 DEF RowStep, InsertStep
  <2>2. CASE r.status \in SettledStatus
    <3>1. RowWrite(r, s)
      BY <2>2, ClaimFacts, InsertFacts DEF RowStep, InsertStep, SettledStatus
    <3>2. s.status = r.status /\ s.attempt = r.attempt
      BY <2>2, <3>1, RowFacts
    <3>3. r.status = "completed" => s.owner = r.owner
      BY <2>2, <3>2, AttemptFacts DEF NextAttempt, SameAttempt, SettledStatus, TaskRow
    <3>4. CASE r.status = "completed"
      BY <3>2, <3>3, <3>4
    <3>5. CASE r.status \in {"failed", "cancelled"}
      BY <3>2, <3>5
    <3> QED
      BY <2>2, <3>4, <3>5 DEF SettledStatus
  <2>3. CASE r.status \notin SettledStatus \cup {"absent"}
    <3>1. /\ l.attempt = r.attempt
          /\ r.status \in {"pending", "in_progress", "pending_review", "reviewing"}
          /\ l.phase = CASE r.status = "pending" -> "waiting"
                         [] r.status = "in_progress" -> "running"
                         [] OTHER -> "delivered"
          /\ r.status # "pending" => l.agent = r.owner
      <4>1. r.status \in {"pending", "in_progress", "pending_review", "reviewing"}
        BY <2>3 DEF TaskRow, TaskStatus, SettledStatus
      <4> QED
        BY <4>1 DEF LifeOf, PhaseOf
    <3>2. CASE NextAttempt(r, s)
      BY <3>1, <3>2 DEF NextAttempt
    <3>3. CASE SameAttempt(r, s)
      <4>1. s.attempt = r.attempt
        BY <3>3 DEF SameAttempt
      <4>2. CASE s.status = r.status /\ (r.status # "pending" => s.owner = r.owner)
        BY <3>1, <4>1, <4>2
      <4>3. CASE s.status \in {"failed", "cancelled"}
        BY <3>1, <4>1, <4>3
      <4>4. CASE r.status = "pending" /\ s.status = "in_progress" /\ s.owner \in Agent
        BY <3>1, <4>1, <4>4
      <4>5. CASE /\ r.status = "pending_review" /\ s.status = "reviewing"
                 /\ s.owner = r.owner
        BY <3>1, <4>1, <4>5
      <4>6. CASE /\ r.status \in {"in_progress", "reviewing"}
                 /\ s.status \in {"pending_review", "completed"} /\ s.owner = r.owner
        BY <3>1, <4>1, <4>6
      <4> QED
        BY <3>3, <4>2, <4>3, <4>4, <4>5, <4>6 DEF SameAttempt
    <3>4. NextAttempt(r, s) \/ SameAttempt(r, s)
      BY <2>3, AttemptFacts
    <3> QED
      BY <3>2, <3>3, <3>4
  <2> QED
    BY <2>1, <2>2, <2>3
<1> HIDE DEF r, s, l, m
<1> QED
  BY <1>2, <1>3
  DEF Lifecycle!Step, Lifecycle!Create, Lifecycle!Start, Lifecycle!Deliver,
      Lifecycle!DeliverUnreviewed, Lifecycle!Accept, Lifecycle!Retry, Lifecycle!Fail,
      Lifecycle!Cancel

\* Every task of every plan follows the lifecycle, whatever the executors,
\* reviews, leases, replans and sessions do to its row.
THEOREM TasksFollowTheirLifecycle == Spec => ImplementsLifecycle
<1> DEFINE life == [t \in Task |-> Life(t)]
<1>1. Init => Lifecycle!Init
  <2> SUFFICES ASSUME Init PROVE \A t \in Task : Life(t) = Lifecycle!Unborn
    BY DEF Lifecycle!Init
  <2> QED
    BY LifeIs
    DEF Init, AbsentTask, LifeOf, PhaseOf, NoDelivery, Lifecycle!Unborn,
        Lifecycle!Undelivered
<1>2. AttemptInd /\ AttemptInd' /\ [Next]_vars => [Lifecycle!Next]_life
  <2> SUFFICES ASSUME AttemptInd, AttemptInd', [Next]_vars
               PROVE  Lifecycle!Next
    OBVIOUS
  <2> QED
    BY LifeStep DEF Lifecycle!Next
<1> QED
  BY <1>1, <1>2, AttemptInvariance, PTL DEF Spec, ImplementsLifecycle, Lifecycle!Spec

(***************************************************************************)
(* Plans and jobs.  A publication and a replan give a workflow the tasks   *)
(* of a new version, in its job; an adoption moves the workflow and its    *)
(* current tasks to the job of the session; no other step changes a plan   *)
(* or a job.                                                               *)
(***************************************************************************)

Replanning ==
  \E f \in Workflow : \E kept, fresh \in SUBSET { t \in Task : WorkflowOf[t] = f } :
    ReplanWorkflow(f, kept, fresh)

Adopting == \E f \in Workflow : ResumeAdopts(f) \/ Recover(f)

\* The rows of the workflow tasks keep their plans and jobs, and the workflows
\* their jobs.
PlansStay ==
  /\ \A t \in Task : IsWorkflowTask(t) \/ tasks[t].status # "absent" =>
       SamePlan(tasks[t], tasks[t]')
  /\ \A f \in Workflow : workflows[f]'.job = workflows[f].job

LEMMA PlanSteps ==
  ASSUME TypeInv, Anchored, [Next]_vars
  PROVE  PlansStay \/ (\E f \in Workflow : PublishWorkflow(f)) \/ Replanning \/ Adopting
<1>1. /\ tasks \in [Task -> TaskRow] /\ workflows \in [Workflow -> WorkflowRow]
      /\ \A t \in Task : tasks[t] \in TaskRow
  BY DEF TypeInv, TypeOK
<1>2. tasks' = tasks /\ workflows' = workflows => PlansStay
  BY DEF PlansStay, SamePlan
<1>3. ASSUME NEW w \in Worker, HandlerStep(w) PROVE PlansStay
  <2>1. Busy(w) /\ UNCHANGED workflows /\ workers[w].task \in Task
    BY <1>3, HandlerTypes, HandlerWrites, BusyTypes
  <2>2. PICK s : WritesRow(w, s) /\ HandlerWrite(TaskOf(w), s)
    BY <1>3, HandlerWrites
  <2>3. \A t \in Task : \/ tasks[t]' = tasks[t]
                       \/ HandlerWrite(tasks[t], tasks[t]')
    BY <1>1, <2>1, <2>2 DEF WritesRow, TaskOf
  <2>4. \A t \in Task : SamePlan(tasks[t], tasks[t]')
    BY <1>1, <2>3, SamePlanFacts DEF SamePlan
  <2> QED
    BY <2>1, <2>4 DEF PlansStay
<1>4. ASSUME Claiming PROVE PlansStay
  <2>1. PICK x \in Worker, u \in Task : Claim(x, u) \/ ClaimReview(x, u)
    BY <1>4 DEF Claiming
  <2>2. SamePlan(tasks[u], tasks[u]')
    BY <2>1, ClaimShape DEF SamePlan
  <2>3. \A t \in Task \ {u} : tasks[t]' = tasks[t]
    BY <2>1, ClaimShape
  <2>4. UNCHANGED workflows
    BY <2>1, ClaimShape
  <2> QED
    BY <2>2, <2>3, <2>4 DEF PlansStay, SamePlan
<1>5. ASSUME NEW f \in Workflow, NEW to, NEW expected,
             SetStatus(f, to, expected, workflows[f].version, "null")
      PROVE  \A g \in Workflow : workflows[g]'.job = workflows[g].job
  BY <1>1, <1>5 DEF SetStatus, WithStatus, WorkflowRow
<1>6. ASSUME NEW f \in Workflow, NEW to, NEW expected, Moves(f, to, expected)
      PROVE  PlansStay
  BY <1>5, <1>6 DEF Moves, PlansStay, SamePlan
<1>7. ASSUME NEW f \in Workflow, NEW to, NEW expected, Stops(f, to, expected)
      PROVE  PlansStay
  <2>1. \A t \in Task : tasks[t]' = tasks[t] \/ tasks[t]' = CancelTask(tasks[t])
    BY <1>7 DEF Stops, SetStatusAndCancel
  <2>2. \A t \in Task : SamePlan(tasks[t], tasks[t]')
    BY <1>1, <2>1, SamePlanFacts DEF SamePlan
  <2> QED
    BY <1>5, <1>7, <2>2 DEF Stops, SetStatusAndCancel, PlansStay
<1>8. ASSUME NEW f \in Workflow, NEW u \in Task,
             LeaseExpires(f, u) \/ ReleaseReady(f, u) \/ FailUnrunnable(f, u)
      PROVE  PlansStay
  <2>1. PICK s : /\ tasks' = [tasks EXCEPT ![u] = s]
                 /\ \/ s = RequeueInterrupted(tasks[u])
                    \/ s = UnassignPending(tasks[u], tasks[u].owner)
                    \/ s = FailTask(tasks[u], AnyAttempt, {"pending"})
    BY <1>8 DEF LeaseExpires, RequeueOrphan, ReleaseReady, FailUnrunnable
  <2>2. tasks[u].owner \in AgentOrNull
    BY <1>1 DEF TaskRow
  <2>3. SamePlan(tasks[u], s)
    BY <1>1, <2>1, <2>2, SamePlanFacts
  <2> QED
    BY <1>1, <1>8, <2>1, <2>3
    DEF LeaseExpires, RequeueOrphan, ReleaseReady, FailUnrunnable, PlansStay, SamePlan
<1>9. ASSUME NEW a \in Agent, Suspend(a) PROVE PlansStay
  <2>1. \A t \in Task : tasks[t]' = tasks[t] \/ tasks[t]' = UnassignPending(tasks[t], a)
    BY <1>9 DEF Suspend, ReleaseAgentTasks
  <2>2. \A t \in Task : SamePlan(tasks[t], tasks[t]')
    BY <1>1, <2>1, SamePlanFacts DEF SamePlan, AgentOrNull
  <2> QED
    BY <1>9, <2>2 DEF Suspend, PlansStay
<1>10. ASSUME NEW u \in Task, CreateTask(u) PROVE PlansStay
  BY <1>1, <1>10 DEF CreateTask, PlansStay, SamePlan
<1>11. ASSUME NEW w \in Worker, WorkerStep(w) \/ WorkerFault(w) \/ StopSlot(w) \/ CutRun(w)
       PROVE  PlansStay
  <2>1. CASE HandlerStep(w)
    BY <1>3, <2>1
  <2>2. CASE ~HandlerStep(w)
    <3>1. UNCHANGED <<tasks, workflows, process>>
      BY <1>11, <2>2, QuietTypes DEF WorkerStep, WorkerFault, HandlerStep
    <3> QED
      BY <1>2, <3>1
  <2> QED
    BY <2>1, <2>2
<1>12. ASSUME NEW f \in Workflow, ToolStep(f) \/ ReconcileStep(f) \/ Interrupt(f) \/ Recover(f)
                                  \/ \E t \in Task : LeaseExpires(f, t)
       PROVE  PlansStay \/ PublishWorkflow(f) \/ Replanning \/ Adopting
  <2>1. CASE ToolStep(f)
    BY <1>6, <1>7, <2>1
    DEF ToolStep, StartWorkflow, Pause, Resume, Cancel, FinishFailed, FinishBlocked,
        Replanning, Adopting
  <2>2. CASE ReconcileStep(f)
    BY <1>6, <1>8, <2>2 DEF ReconcileStep, Complete, Block
  <2>3. CASE Interrupt(f)
    BY <1>2, <2>3 DEF Interrupt
  <2> QED
    BY <1>8, <1>12, <2>1, <2>2, <2>3 DEF Adopting
<1>13. ASSUME Membership \/ \E survivors : NewSession(survivors) PROVE PlansStay
  <2>1. tasks' = tasks /\ workflows' = workflows
    BY <1>13 DEF Membership, Resumes, Connect, Reload, NewSession
  <2> QED
    BY <1>2, <2>1
<1> QED
  BY <1>2, <1>4, <1>9, <1>10, <1>11, <1>12, <1>13
  DEF Next, vars, ClaimStep, Claiming, Membership

\* Between the steps that give a workflow a new plan, its current tasks are the
\* same.
LEMMA PlanStays ==
  ASSUME TypeInv, PlansStay \/ Adopting, NEW f \in Workflow
  PROVE  CurrentTasks(f)' = CurrentTasks(f)
<1>1. ASSUME NEW t \in Task, WorkflowOf[t] = f
      PROVE  /\ tasks[t]'.superseded = tasks[t].superseded
             /\ (tasks[t]'.status = "absent") <=> (tasks[t].status = "absent")
  <2>1. IsWorkflowTask(t) /\ tasks[t] \in TaskRow
    BY <1>1, RepositoryAssumption, RowTypes DEF IsWorkflowTask
  <2>2. CASE PlansStay
    BY <2>1, <2>2 DEF PlansStay, SamePlan
  <2>3. CASE Adopting
    <3>1. PICK g \in Workflow : Adopt(g, session) /\ session \in Nat
      BY <2>3 DEF Adopting, ResumeAdopts, Recover, TypeInv, TypeOK
    <3>2. tasks[t]' = tasks[t] \/ BatchWrite(tasks[t], tasks[t]')
      BY <3>1 DEF Adopt, BatchWrite
    <3> QED
      BY <2>1, <3>2, BatchFacts, RowFacts DEF RowWrite
  <2> QED
    BY <2>2, <2>3
<1> QED
  BY <1>1 DEF CurrentTasks

\* The tasks of a workflow that a publication creates.
LEMMA PlanBegins ==
  ASSUME TypeInv, Anchored, NEW g \in Workflow, PublishWorkflow(g)
  PROVE  /\ CurrentTasks(g)' = FirstPlan[g]
         /\ \A f \in Workflow \ {g} : CurrentTasks(f)' = CurrentTasks(f)
         /\ \A t \in FirstPlan[g] : tasks[t]'.job = session
         /\ \A t \in Task \ FirstPlan[g] : tasks[t]' = tasks[t]
         /\ workflows[g]'.job = session
         /\ \A f \in Workflow \ {g} : workflows[f]' = workflows[f]
<1>1. /\ tasks' = [t \in Task |-> IF t \in FirstPlan[g]
                                 THEN InsertTask(Assignee(t, pool), session)
                                 ELSE tasks[t]]
      /\ workflows' = [workflows EXCEPT ![g] =
            [AbsentWorkflow EXCEPT !.status = "ready", !.version = 1, !.job = session]]
      /\ workflows[g].status = "absent"
  BY DEF PublishWorkflow, Publish
<1>2. FirstPlan[g] \subseteq Task /\ \A t \in FirstPlan[g] : WorkflowOf[t] = g
  BY WorkflowAssumption
<1>3. \A t \in Task : WorkflowOf[t] = g => tasks[t].status = "absent"
  BY <1>1, RepositoryAssumption DEF Anchored, IsWorkflowTask
<1>4. \A t \in FirstPlan[g] : /\ tasks[t]'.status = "pending" /\ ~tasks[t]'.superseded
                              /\ tasks[t]'.job = session
  BY <1>1, <1>2 DEF InsertTask, AbsentTask
<1>5. \A t \in Task \ FirstPlan[g] : tasks[t]' = tasks[t]
  BY <1>1
<1>6. CurrentTasks(g)' = FirstPlan[g]
  BY <1>2, <1>3, <1>4, <1>5 DEF CurrentTasks
<1>7. \A f \in Workflow \ {g} : CurrentTasks(f)' = CurrentTasks(f)
  BY <1>2, <1>5 DEF CurrentTasks
<1>8. /\ workflows[g]'.job = session
      /\ \A f \in Workflow \ {g} : workflows[f]' = workflows[f]
  BY <1>1 DEF AbsentWorkflow, TypeInv, TypeOK
<1> QED
  BY <1>4, <1>5, <1>6, <1>7, <1>8

\* The tasks of a workflow after a replan: those it keeps and those it creates.
LEMMA PlanChanges ==
  ASSUME TypeInv, NEW g \in Workflow, NEW kept, NEW fresh, ReplanWorkflow(g, kept, fresh)
  PROVE  /\ CurrentTasks(g)' = kept \cup fresh
         /\ \A f \in Workflow \ {g} : CurrentTasks(f)' = CurrentTasks(f)
         /\ \A t \in fresh : tasks[t]'.job = workflows[g].job
         /\ \A t \in Task \ fresh : tasks[t]'.job = tasks[t].job
         /\ \A t \in Task : WorkflowOf[t] # g => tasks[t]' = tasks[t]
         /\ \A f \in Workflow : workflows[f]'.job = workflows[f].job
         /\ kept \subseteq CurrentTasks(g)
         /\ \A t \in kept : Deps[t] \subseteq kept
         /\ \A t \in fresh : Deps[t] \subseteq kept \cup fresh
<1> DEFINE retired == CurrentTasks(g) \ kept
<1>1. /\ Keepable(g, kept) /\ Insertable(g, kept, fresh)
      /\ tasks' = [t \in Task |->
           IF t \in retired THEN [CancelTask(tasks[t]) EXCEPT !.superseded = TRUE]
           ELSE IF t \in fresh THEN InsertTask(Assignee(t, pool), workflows[g].job)
           ELSE tasks[t]]
      /\ workflows' = [workflows EXCEPT ![g] = Replanned(workflows[g])]
  BY DEF ReplanWorkflow, Replan
<1>2. /\ kept \subseteq CurrentTasks(g)
      /\ \A t \in kept : Deps[t] \subseteq kept
      /\ \A t \in fresh : /\ t \in Task /\ WorkflowOf[t] = g /\ tasks[t].status = "absent"
                          /\ Deps[t] \subseteq kept \cup fresh
  BY <1>1 DEF Keepable, Insertable
<1>3. \A t \in fresh : t \notin CurrentTasks(g)
  BY <1>2 DEF CurrentTasks
<1>4. \A t \in fresh : /\ tasks[t]'.status = "pending" /\ ~tasks[t]'.superseded
                       /\ tasks[t]'.job = workflows[g].job
  BY <1>1, <1>2, <1>3 DEF InsertTask, AbsentTask
<1>5. \A t \in retired : t \in Task /\ tasks[t]'.superseded /\ tasks[t]'.job = tasks[t].job
  <2> SUFFICES ASSUME NEW t \in retired
               PROVE  t \in Task /\ tasks[t]'.superseded /\ tasks[t]'.job = tasks[t].job
    OBVIOUS
  <2>1. t \in Task /\ tasks[t].status # "absent" /\ tasks[t] \in TaskRow
    BY RowTypes DEF CurrentTasks
  <2>2. Retirement(tasks[t], tasks[t]')
    BY <1>1, <2>1 DEF Retirement
  <2> QED
    BY <2>1, <2>2, RetirementFacts
<1>6. \A t \in Task \ (retired \cup fresh) : tasks[t]' = tasks[t]
  BY <1>1
<1>7. retired \subseteq { t \in Task : WorkflowOf[t] = g }
  BY DEF CurrentTasks
<1>8. CurrentTasks(g)' = kept \cup fresh
  <2>1. ASSUME NEW t \in Task, t \in CurrentTasks(g)' PROVE t \in kept \cup fresh
    BY <1>5, <1>6, <2>1 DEF CurrentTasks
  <2>2. ASSUME NEW t \in kept PROVE t \in CurrentTasks(g)'
    <3>1. t \in Task /\ tasks[t]' = tasks[t]
      BY <1>2, <1>3, <1>6, <2>2 DEF CurrentTasks
    <3> QED
      BY <1>2, <3>1 DEF CurrentTasks
  <2>3. ASSUME NEW t \in fresh PROVE t \in CurrentTasks(g)'
    BY <1>2, <1>4 DEF CurrentTasks
  <2>4. CurrentTasks(g)' \subseteq Task
    BY DEF CurrentTasks
  <2> QED
    BY <2>1, <2>2, <2>3, <2>4
<1>9. \A t \in Task : WorkflowOf[t] # g => tasks[t]' = tasks[t]
  BY <1>2, <1>6, <1>7
<1>10. \A f \in Workflow \ {g} : CurrentTasks(f)' = CurrentTasks(f)
  BY <1>9 DEF CurrentTasks
<1>11. \A f \in Workflow : workflows[f]'.job = workflows[f].job
  BY <1>1 DEF Replanned, WorkflowRow, TypeInv, TypeOK
<1>12. \A t \in Task \ fresh : tasks[t]'.job = tasks[t].job
  BY <1>5, <1>6
<1> QED
  BY <1>2, <1>4, <1>8, <1>9, <1>10, <1>11, <1>12

\* No current task ever waits for a task that left the plan, after any replans.
THEOREM PlansStayClosed == Spec => []PlanIsClosed
<1>1. Init => PlanIsClosed
  BY DEF Init, AbsentTask, PlanIsClosed, CurrentTasks
<1>2. ASSUME TypeInv, Anchored, PlanIsClosed, [Next]_vars
      PROVE  PlanIsClosed'
  <2> SUFFICES ASSUME NEW f \in Workflow, NEW t \in CurrentTasks(f)'
               PROVE  Deps[t] \subseteq CurrentTasks(f)'
    BY DEF PlanIsClosed
  <2>1. CASE CurrentTasks(f)' = CurrentTasks(f)
    BY <1>2, <2>1 DEF PlanIsClosed
  <2>2. ASSUME NEW g \in Workflow, PublishWorkflow(g)
        PROVE  Deps[t] \subseteq CurrentTasks(f)'
    BY <1>2, <2>1, <2>2, PlanBegins, WorkflowAssumption
  <2>3. ASSUME Replanning
        PROVE  Deps[t] \subseteq CurrentTasks(f)'
    BY <1>2, <2>1, <2>3, PlanChanges DEF Replanning
  <2> QED
    BY <1>2, <2>1, <2>2, <2>3, PlanSteps, PlanStays
<1>3. TypeInv /\ Anchored /\ PlanIsClosed /\ [Next]_vars => PlanIsClosed'
  BY <1>2
<1> QED
  BY <1>1, <1>3, TypeInvariance, PTL DEF Spec

LEMMA JobStep ==
  ASSUME TypeInv, Anchored, JobOfPlan, [Next]_vars
  PROVE  JobOfPlan'
<1> SUFFICES ASSUME NEW f \in Workflow, NEW t \in CurrentTasks(f)'
             PROVE  tasks[t]'.job = workflows[f]'.job
  BY DEF JobOfPlan
<1>1. t \in Task /\ WorkflowOf[t] = f /\ IsWorkflowTask(t)
  BY RepositoryAssumption DEF CurrentTasks, IsWorkflowTask
<1>2. CASE PlansStay
  <2>1. t \in CurrentTasks(f)
    BY <1>2, PlanStays
  <2> QED
    BY <1>1, <1>2, <2>1 DEF PlansStay, SamePlan, JobOfPlan
<1>3. ASSUME NEW g \in Workflow, PublishWorkflow(g)
      PROVE  tasks[t]'.job = workflows[f]'.job
  <2>1. CASE f = g
    BY <1>3, <2>1, PlanBegins
  <2>2. CASE f # g
    BY <1>1, <1>3, <2>2, PlanBegins, WorkflowAssumption DEF JobOfPlan
  <2> QED
    BY <2>1, <2>2
<1>4. ASSUME NEW g \in Workflow, NEW kept, NEW fresh, ReplanWorkflow(g, kept, fresh)
      PROVE  tasks[t]'.job = workflows[f]'.job
  <2>1. CASE f = g /\ t \in fresh
    BY <1>4, <2>1, PlanChanges
  <2>2. CASE t \in CurrentTasks(f) /\ t \notin fresh
    BY <1>1, <1>4, <2>2, PlanChanges DEF JobOfPlan
  <2>3. t \in CurrentTasks(f) \/ (f = g /\ t \in fresh)
    BY <1>4, PlanChanges
  <2>4. f # g => t \notin fresh
    BY <1>1, <1>4 DEF ReplanWorkflow, Replan, Insertable
  <2>5. f = g /\ t \in CurrentTasks(f) => t \notin fresh
    BY <1>4 DEF ReplanWorkflow, Replan, Insertable, CurrentTasks
  <2> QED
    BY <2>1, <2>2, <2>3, <2>4, <2>5
<1>5. ASSUME NEW g \in Workflow, ResumeAdopts(g) \/ Recover(g)
      PROVE  tasks[t]'.job = workflows[f]'.job
  <2>1. t \in CurrentTasks(f)
    BY <1>5, PlanStays DEF Adopting
  <2>2. Adopt(g, session) /\ session \in Nat /\ tasks[t] \in TaskRow
    BY <1>1, <1>5, RowTypes DEF ResumeAdopts, Recover, TypeInv, TypeOK
  <2>3. CASE f = g
    <3>1. workflows[f]'.job = session
      BY <2>2, <2>3 DEF Adopt, Adopted, TypeInv, TypeOK, WorkflowRow
    <3>2. RequeueInterrupted(tasks[t]) \in TaskRow
      BY <2>2, PendingTypes, NullTypes
    <3>3. tasks[t]' = [RequeueInterrupted(tasks[t]) EXCEPT !.job = session]
      BY <1>1, <2>1, <2>2, <2>3 DEF Adopt
    <3> QED
      BY <3>1, <3>2, <3>3 DEF TaskRow
  <2>4. CASE f # g
    <3>1. t \notin CurrentTasks(g)
      BY <1>1, <2>4 DEF CurrentTasks
    <3>2. tasks[t]' = tasks[t] /\ workflows[f]' = workflows[f]
      BY <1>1, <2>2, <2>4, <3>1 DEF Adopt, TypeInv, TypeOK
    <3> QED
      BY <2>1, <3>2 DEF JobOfPlan
  <2> QED
    BY <2>3, <2>4
<1> QED
  BY <1>2, <1>3, <1>4, <1>5, PlanSteps DEF Replanning, Adopting

\* A session may claim all the tasks it coordinates, whatever adoptions and
\* replans there were.
THEOREM JobsFollowPlans == Spec => []JobOfPlan
<1>1. Init => JobOfPlan
  BY DEF Init, AbsentTask, JobOfPlan, CurrentTasks
<1>2. TypeInv /\ Anchored /\ JobOfPlan /\ [Next]_vars => JobOfPlan'
  BY JobStep
<1> QED
  BY <1>1, <1>2, TypeInvariance, PTL DEF Spec

(***************************************************************************)
(* Runs and writers.  A slot of the session that has not finished the call *)
(* of its agent is on the attempt of its row: only its handler, a lease    *)
(* that is over and an adoption close an attempt, no lease is over before  *)
(* the call begins or while the run is registered, and a session adopts    *)
(* only what belongs to another job.                                       *)
(***************************************************************************)

SupersededSettled ==
  \A t \in Task : tasks[t].superseded => tasks[t].status \in SettledStatus

\* A workflow still to be recovered belongs to the job of an earlier session.
JobsOfSessions ==
  \A f \in Workflow :
    /\ workflows[f].job <= session
    /\ f \in recovering => workflows[f].job # session

\* A slot of the session is on a task of its job; while it calls its agent, on
\* the attempt of the row, which is in progress or was stopped.
RunInv(w) ==
  /\ TaskOf(w).job = session
  /\ Calling(w) =>
       /\ workers[w].attempt = TaskOf(w).attempt
       /\ TaskOf(w).status \in {"in_progress", "failed", "cancelled"}

RunsInv == \A w \in Worker : SessionOf[w] = session /\ Busy(w) => RunInv(w)

\* No poller outlives its session between the claim of a task and its load.
NoLateLoad == \A w \in Worker : SessionOf[w] # session => ~Load(w)

\* Then no two slots execute one attempt, of whatever sessions.
SoleExecutor ==
  \A v, w \in Worker :
    /\ Executing(v) /\ Executing(w)
    /\ workers[v].task = workers[w].task /\ workers[v].attempt = workers[w].attempt
    => v = w

\* What a poller of the session claimed is later than all its agent still runs.
ClaimIsLatest ==
  \A v, w \in Worker :
    /\ Executing(v) /\ workers[w].pc = "claimed" /\ SessionOf[w] = session
    /\ AgentOf[v] = AgentOf[w] /\ workers[v].task = workers[w].task
    => workers[v].attempt < workers[w].attempt

RunInd ==
  /\ AttemptInd /\ SupersededSettled /\ JobOfPlan /\ JobsOfSessions
  /\ SoleExecutor /\ ClaimIsLatest /\ RunsInv /\ WriterExclusion

LEMMA SupersededStep ==
  ASSUME AttemptInd, SupersededSettled, [Next]_vars
  PROVE  SupersededSettled'
<1> SUFFICES ASSUME NEW t \in Task, tasks[t]'.superseded
             PROVE  tasks[t]'.status \in SettledStatus
  BY DEF SupersededSettled
<1> DEFINE r == tasks[t]
           s == tasks[t]'
<1>1. TypeInv /\ r \in TaskRow /\ RowStep(r, s)
  BY RowTypes, TypeStep DEF AttemptInd, Rows
<1>2. CASE r.superseded
  <2>1. r.status \in SettledStatus
    BY <1>2 DEF SupersededSettled
  <2>2. RowWrite(r, s)
    BY <1>1, <2>1, ClaimFacts, InsertFacts DEF RowStep, InsertStep, SettledStatus
  <2> QED
    BY <1>1, <2>1, <2>2, RowFacts
<1>3. CASE ~r.superseded
  <2>1. ASSUME Managed(t, s) PROVE FALSE
    <3>1. BatchWrite(r, s) \/ s = r
      BY <2>1 DEF Managed, BatchWrite
    <3> QED
      BY <1>1, <1>3, <3>1, BatchFacts
  <2>2. ~Insertion(r, s)
    BY <1>1 DEF Insertion, InsertTask, AbsentTask
  <2>3. ASSUME NEW w \in Worker, HandlerStep(w) PROVE FALSE
    <3>1. Busy(w) /\ workers[w].task \in Task
      BY <1>1, <2>3, HandlerWrites, BusyTypes
    <3>2. PICK new : WritesRow(w, new) /\ HandlerWrite(TaskOf(w), new)
      BY <1>1, <2>3, HandlerWrites
    <3>3. s = r \/ HandlerWrite(r, s)
      BY <1>1, <3>1, <3>2 DEF WritesRow, TaskOf, TypeInv, TypeOK
    <3> QED
      BY <1>1, <1>3, <3>3, HandlerFacts
  <2>4. ~Claiming
    <3> SUFFICES ASSUME NEW x \in Worker, NEW u \in Task,
                        Claim(x, u) \/ ClaimReview(x, u)
                 PROVE  FALSE
      BY DEF Claiming
    <3> QED
      BY <1>1, <1>3, ClaimShape
  <2>5. r.status # "absent" /\ Retirement(r, s)
    BY <1>1, <2>1, <2>2, <2>3, <2>4, TypeStep DEF AttemptInd, Batches, Extends
  <2> QED
    BY <1>1, <2>5, RetirementFacts
<1> QED
  BY <1>2, <1>3

\* The session changes when another one takes the lock, and recovery ends one
\* workflow at a time.
LEMMA SessionSteps ==
  ASSUME [Next]_vars
  PROVE  \/ \E survivors : NewSession(survivors)
         \/ /\ session' = session /\ recovering' \subseteq recovering
            /\ \A f \in Workflow : Recover(f) => f \notin recovering'
<1>1. ASSUME NEW w \in Worker,
             \/ WorkerStep(w) \/ WorkerFault(w) \/ StopSlot(w) \/ CutRun(w) \/ ClaimStep(w)
      PROVE  UNCHANGED process
  BY <1>1
  DEF WorkerStep, WorkerFault, ClaimStep, Claim, ClaimReview, StopSlot, CutRun,
      Load, LoadReview, Begin, Check, Dispatch, CheckRun, ClearEvent, NoAnswer, Answer,
      FinishWorkflowRun, FinishPlainRun, Deliver, Rework, HandOff, ReviewAnswer,
      CompleteReview, RecordAccepted, RecordRejected, ReviewRework, RejectPlain,
      ReviewerUnavailable, HandlerReads, FailUnfenced, LoadRaises, RunRaises,
      ReviewRaises, HandlerRaises
<1>2. ASSUME NEW f \in Workflow, ToolStep(f) \/ ReconcileStep(f) \/ Interrupt(f)
                                 \/ \E t \in Task : LeaseExpires(f, t)
      PROVE  UNCHANGED sessionState
  BY <1>2
  DEF ToolStep, ReconcileStep, Interrupt, LeaseExpires, PublishWorkflow, StartWorkflow,
      Pause, Resume, ResumeAdopts, Cancel, FinishFailed, FinishBlocked, ReplanWorkflow,
      Moves, Stops, Complete, Block, ReleaseReady, FailUnrunnable, process
<1>3. ASSUME Membership \/ (\E t \in Task : CreateTask(t)) \/ (\E a \in Agent : Suspend(a))
      PROVE  UNCHANGED sessionState
  BY <1>3 DEF Membership, Resumes, Connect, Reload, CreateTask, Suspend, process
<1>4. \A f \in Workflow : Recover(f) => /\ session' = session /\ recovering' \subseteq recovering
                                        /\ f \notin recovering'
  BY DEF Recover
<1>5. UNCHANGED process \/ UNCHANGED vars => UNCHANGED sessionState
  BY DEF vars, process
<1>6. UNCHANGED sessionState => session' = session /\ recovering' = recovering
  BY DEF sessionState
<1>7. \/ \E survivors : NewSession(survivors)
      \/ \E f \in Workflow : Recover(f)
      \/ session' = session /\ recovering' = recovering
  BY <1>1, <1>2, <1>3, <1>5, <1>6 DEF Next, Membership
<1> QED
  BY <1>4, <1>7

LEMMA JobsOfSessionsStep ==
  ASSUME TypeInv, Anchored, JobsOfSessions, [Next]_vars
  PROVE  JobsOfSessions'
<1>1. /\ session \in Nat
      /\ \A f \in Workflow : workflows[f] \in WorkflowRow /\ workflows[f].job \in Nat
  BY DEF TypeInv, TypeOK, WorkflowRow
<1>2. ASSUME NEW survivors, NewSession(survivors) PROVE JobsOfSessions'
  <2>1. session' = session + 1 /\ workflows' = workflows
    BY <1>2 DEF NewSession
  <2>2. \A f \in Workflow : workflows[f].job <= session
    BY DEF JobsOfSessions
  <2>3. \A f \in Workflow : workflows[f]'.job <= session' /\ workflows[f]'.job # session'
    BY <1>1, <2>1, <2>2
  <2> QED
    BY <2>3 DEF JobsOfSessions
<1>3. CASE session' = session /\ recovering' \subseteq recovering
           /\ \A f \in Workflow : Recover(f) => f \notin recovering'
  <2>1. CASE PlansStay
    BY <1>3, <2>1 DEF PlansStay, JobsOfSessions
  <2>2. ASSUME NEW g \in Workflow, PublishWorkflow(g) PROVE JobsOfSessions'
    <3>1. recovering' = {}
      BY <1>3, <2>2 DEF PublishWorkflow, Coordinating
    <3>2. \A f \in Workflow : workflows[f]'.job = workflows[f].job \/ workflows[f]'.job = session
      BY <2>2, PlanBegins
    <3> QED
      BY <1>1, <1>3, <3>1, <3>2 DEF JobsOfSessions
  <2>3. ASSUME Replanning PROVE JobsOfSessions'
    <3>1. \A f \in Workflow : workflows[f]'.job = workflows[f].job
      BY <2>3, PlanChanges DEF Replanning
    <3> QED
      BY <1>3, <3>1 DEF JobsOfSessions
  <2>4. ASSUME NEW g \in Workflow, ResumeAdopts(g) \/ Recover(g) PROVE JobsOfSessions'
    <3>1. Adopt(g, session)
      BY <2>4 DEF ResumeAdopts, Recover
    <3>2. /\ workflows[g]'.job = session
          /\ \A f \in Workflow \ {g} : workflows[f]' = workflows[f]
      BY <1>1, <3>1 DEF Adopt, Adopted, TypeInv, TypeOK, WorkflowRow
    <3>3. g \notin recovering'
      BY <1>3, <2>4 DEF ResumeAdopts, Coordinating
    <3> QED
      BY <1>1, <1>3, <3>2, <3>3 DEF JobsOfSessions
  <2> QED
    BY <2>1, <2>2, <2>3, <2>4, PlanSteps DEF Adopting
<1> QED
  BY <1>2, <1>3, SessionSteps

\* A handler writes on the attempt of its slot, or fails the row without
\* looking at its attempt.
LEMMA HandlerFence ==
  ASSUME TypeInv, NEW w \in Worker, HandlerStep(w), SlotInv(w)
  PROVE  \/ tasks'[workers[w].task] = TaskOf(w)
         \/ /\ workers[w].attempt = TaskOf(w).attempt
            /\ Executing(w) \/ Reviewing(w)
         \/ /\ workers[w].pc \in {"failing", "unloaded"}
            /\ tasks'[workers[w].task].attempt = TaskOf(w).attempt
<1> DEFINE t == workers[w].task
           row == TaskOf(w)
           s == tasks'[t]
<1>1. /\ t \in Task /\ row \in TaskRow /\ tasks \in [Task -> TaskRow]
      /\ workers[w].attempt \in Nat
  BY HandlerWrites, BusyTypes DEF TypeInv, TypeOK
<1>2. ASSUME NEW new, WritesRow(w, new) PROVE s = new
  BY <1>1, <1>2 DEF WritesRow
<1>3. row.attempt \in FenceOf(w) => workers[w].attempt = row.attempt
  BY DEF FenceOf, Fence, SlotInv
<1>4. CASE FailUnfenced(w)
  <2>1. s = FailTask(row, AnyAttempt, TaskStatus)
    BY <1>2, <1>4 DEF FailUnfenced
  <2>2. s.attempt = row.attempt
    BY <1>1, <2>1 DEF FailTask, TaskRow
  <2> QED
    BY <1>4, <2>2 DEF FailUnfenced
<1>5. CASE ~FailUnfenced(w)
  <2>1. Executing(w) \/ Reviewing(w)
    BY <1>5
    DEF HandlerStep, Deliver, Rework, HandOff, CompleteReview, ReviewRework,
        RejectPlain,
        ReviewerUnavailable, Executing, Reviewing, ExecPc, ReviewPc
  <2>2. \/ \E delivery : s = SubmitForReview(row, FenceOf(w), delivery)
        \/ \E delivery, reviewer : s = CompleteTask(row, FenceOf(w), delivery, reviewer)
        \/ \E owner, delivery : s = ReworkTask(row, FenceOf(w), owner, delivery)
        \/ \E agent, exclude : s = RequeueTask(row, FenceOf(w), agent, exclude)
        \/ s = FailTask(row, FenceOf(w), TaskStatus)
        \/ \E agent, delivery : s = RequeueTaskAfterReview(row, FenceOf(w), agent, delivery)
        \/ \E agent, exclude : s = ReturnReview(row, FenceOf(w), agent, exclude)
    <3>1. CASE Deliver(w)
      <4>1. \E delivery : \/ WritesRow(w, SubmitForReview(row, FenceOf(w), delivery))
                          \/ WritesRow(w, CompleteTask(row, FenceOf(w), delivery, NoAgent))
        BY <3>1 DEF Deliver
      <4> QED
        BY <1>2, <4>1
    <3>2. CASE Rework(w) \/ ReviewRework(w)
      BY <1>2, <3>2 DEF Rework, ReviewRework
    <3>3. CASE HandOff(w)
      <4>1. \/ WritesRow(w, RequeueTask(row, FenceOf(w), AgentOf[w], FALSE))
            \/ WritesRow(w, RequeueTask(row, FenceOf(w), AgentOf[w], TRUE))
            \/ WritesRow(w, FailTask(row, FenceOf(w), TaskStatus))
        BY <3>3 DEF HandOff
      <4> QED
        BY <1>2, <4>1
    <3>4. CASE CompleteReview(w)
      BY <1>2, <3>4 DEF CompleteReview
    <3>5. CASE RejectPlain(w)
      BY <1>2, <3>5 DEF RejectPlain
    <3>6. CASE ReviewerUnavailable(w)
      <4>1. \/ WritesRow(w, CompleteTask(row, FenceOf(w), workers[w].delivery, NoAgent))
            \/ \E exclude : WritesRow(w, ReturnReview(row, FenceOf(w), AgentOf[w], exclude))
        BY <3>6 DEF ReviewerUnavailable
      <4> QED
        BY <1>2, <4>1
    <3> QED
      BY <1>5, <3>1, <3>2, <3>3, <3>4, <3>5, <3>6 DEF HandlerStep
  <2>3. s = row \/ row.attempt \in FenceOf(w)
    BY <2>2
    DEF SubmitForReview, CompleteTask, ReworkTask, RequeueTask, FailTask,
        RequeueTaskAfterReview, ReturnReview, Admits
  <2> QED
    BY <1>3, <2>1, <2>3
<1> QED
  BY <1>4, <1>5

\* Who closes an attempt.
LEMMA AttemptCloses ==
  ASSUME AttemptInd, [Next]_vars, NEW t \in Task, tasks[t].status # "absent",
         tasks[t]'.attempt # tasks[t].attempt
  PROVE  \/ \E w \in Worker : HandlerStep(w)
         \/ \E f \in Workflow : LeaseExpires(f, t)
         \/ \E f \in Workflow : (ResumeAdopts(f) \/ Recover(f)) /\ t \in CurrentTasks(f)
<1> DEFINE r == tasks[t]
           s == tasks[t]'
<1>1. TypeInv /\ Anchored /\ r \in TaskRow /\ s # r
      /\ r.owner \in AgentOrNull
  BY RowTypes DEF AttemptInd, TaskRow
<1>2. s # CancelTask(r) /\ s # FailTask(r, AnyAttempt, {"pending"})
      /\ (\A owner : s # UnassignPending(r, owner)) /\ ~Retirement(r, s)
  BY <1>1 DEF CancelTask, FailTask, UnassignPending, Retirement, TaskRow
<1>3. ~Claiming
  <2> SUFFICES ASSUME NEW x \in Worker, NEW u \in Task,
                      Claim(x, u) \/ ClaimReview(x, u)
               PROVE  FALSE
    BY DEF Claiming
  <2> QED
    BY <1>1, ClaimShape
<1>4. ASSUME NEW w \in Worker, WorkerStep(w) \/ WorkerFault(w) \/ StopSlot(w) \/ CutRun(w)
      PROVE  HandlerStep(w)
  BY <1>1, <1>4, QuietTypes DEF WorkerStep, WorkerFault, HandlerStep
<1>5. ASSUME NEW f \in Workflow, ToolStep(f)
      PROVE  ResumeAdopts(f) /\ t \in CurrentTasks(f)
  <2>1. ASSUME NEW to, NEW expected PROVE ~Moves(f, to, expected) /\ ~Stops(f, to, expected)
    BY <1>1, <1>2 DEF Moves, Stops, SetStatusAndCancel
  <2>2. ~PublishWorkflow(f)
    <3> SUFFICES ASSUME PublishWorkflow(f) PROVE FALSE
      OBVIOUS
    <3>1. t \notin FirstPlan[f]
      BY WorkflowAssumption, RepositoryAssumption, <1>1
      DEF PublishWorkflow, Publish, Anchored, IsWorkflowTask
    <3> QED
      BY <1>1, <3>1 DEF PublishWorkflow, Publish
  <2>3. ASSUME NEW kept, NEW fresh PROVE ~ReplanWorkflow(f, kept, fresh)
    <3> SUFFICES ASSUME ReplanWorkflow(f, kept, fresh) PROVE FALSE
      OBVIOUS
    <3>1. t \notin fresh
      BY DEF ReplanWorkflow, Replan, Insertable
    <3>2. s = [CancelTask(r) EXCEPT !.superseded = TRUE] \/ s = r
      BY <3>1 DEF ReplanWorkflow, Replan
    <3> QED
      BY <1>1, <1>2, <3>2 DEF Retirement
  <2>4. ResumeAdopts(f)
    BY <1>5, <2>1, <2>2, <2>3
    DEF ToolStep, StartWorkflow, Pause, Resume, Cancel, FinishFailed, FinishBlocked
  <2> QED
    BY <1>1, <2>4 DEF ResumeAdopts, Adopt
<1>6. ASSUME NEW f \in Workflow
      PROVE  ~ReconcileStep(f) /\ ~Interrupt(f)
  <2>1. ASSUME NEW u \in Task PROVE ~ReleaseReady(f, u) /\ ~FailUnrunnable(f, u)
    <3>1. ASSUME ReleaseReady(f, u) PROVE FALSE
      <4>1. s = r \/ s = UnassignPending(r, r.owner)
        BY <3>1 DEF ReleaseReady, TypeInv, TypeOK
      <4> QED
        BY <1>1, <1>2, <4>1
    <3>2. ASSUME FailUnrunnable(f, u) PROVE FALSE
      <4>1. s = r \/ s = FailTask(r, AnyAttempt, {"pending"})
        BY <3>2 DEF FailUnrunnable, TypeInv, TypeOK
      <4> QED
        BY <1>1, <1>2, <4>1
    <3> QED
      BY <3>1, <3>2
  <2> QED
    BY <1>1, <2>1 DEF ReconcileStep, Complete, Block, Moves, Interrupt
<1>7. ASSUME NEW f \in Workflow, Recover(f) PROVE t \in CurrentTasks(f)
  BY <1>1, <1>7 DEF Recover, Adopt
<1>8. ASSUME NEW f \in Workflow, NEW u \in Task, LeaseExpires(f, u) PROVE u = t
  BY <1>1, <1>8 DEF LeaseExpires, RequeueOrphan, TypeInv, TypeOK
<1>9. ASSUME NEW a \in Agent PROVE ~Suspend(a)
  <2> SUFFICES ASSUME Suspend(a) PROVE FALSE
    OBVIOUS
  <2>1. s = r \/ s = UnassignPending(r, a)
    BY DEF Suspend, ReleaseAgentTasks
  <2> QED
    BY <1>1, <1>2, <2>1
<1>10. ASSUME NEW u \in Task PROVE ~CreateTask(u)
  BY <1>1 DEF CreateTask, TypeInv, TypeOK
<1>11. ~Membership /\ ~(\E survivors : NewSession(survivors)) /\ ~UNCHANGED vars
  BY <1>1 DEF Membership, Resumes, Connect, Reload, NewSession, vars
<1> QED
  BY <1>3, <1>4, <1>5, <1>6, <1>7, <1>8, <1>9, <1>10, <1>11
  DEF Next, ClaimStep, Claiming, Membership

\* The attempt of a slot of the session that has not heard from its agent
\* stays open.
LEMMA CallStays ==
  ASSUME RunInd, [Next]_vars, NEW v \in Worker, SessionOf[v] = session, Busy(v),
         Calling(v), Calling(v)', workers[v]'.task = workers[v].task
  PROVE  tasks'[workers[v].task].attempt = TaskOf(v).attempt
<1>t. PICK t \in Task : t = workers[v].task
  BY BusyTypes DEF RunInd, AttemptInd
<1> DEFINE r == tasks[t]
           s == tasks[t]'
<1>1. /\ AttemptInd /\ TypeInv /\ SlotInv(v) /\ TaskOf(v) = r /\ r \in TaskRow
      /\ workers[v].attempt = r.attempt /\ r.job = session
      /\ r.status \in {"in_progress", "failed", "cancelled"}
      /\ Executing(v) /\ Busy(v)'
  <2>1. Executing(v) /\ Busy(v)'
    BY DEF Calling, CallPc, Executing, ExecPc, Busy
  <2>2. RunInv(v) /\ SlotInv(v) /\ TypeInv
    BY DEF RunInd, RunsInv, AttemptInd, SlotsInv
  <2> QED
    BY <1>t, <2>1, <2>2, RowTypes DEF RunInv, TaskOf, RunInd
<1> SUFFICES ASSUME s.attempt # r.attempt PROVE FALSE
  BY <1>1, <1>t
<1>2. r.status \notin {"absent", "approved"}
  BY <1>1, <1>t DEF SlotInv, AttemptInd, Used
<1>3. NextAttempt(r, s)
  <2>1. RowStep(r, s)
    BY <1>1, TypeStep DEF AttemptInd, Rows
  <2> QED
    BY <1>1, <1>2, <2>1, AttemptFacts DEF SameAttempt
<1>4. r.status = "in_progress"
  BY <1>1, <1>3 DEF NextAttempt
<1>5. ASSUME NEW w \in Worker, HandlerStep(w) PROVE FALSE
  <2>1. SlotInv(w) /\ Busy(w)
    BY <1>1, <1>5, HandlerWrites DEF AttemptInd, SlotsInv
  <2>2. workers[w].task = t
    BY <1>1, <1>5, <2>1, Outcomes
  <2>3. TaskOf(w) = r /\ workers[w].attempt = r.attempt /\ (Executing(w) \/ Reviewing(w))
    <3>1. TaskOf(w) = r
      BY <2>2 DEF TaskOf
    <3> QED
      BY <1>1, <1>5, <2>1, <2>2, <3>1, HandlerFence
  <2>4. Executing(w)
    BY <1>4, <2>1, <2>2, <2>3 DEF SlotInv, Delivered, TaskOf
  <2>5. w = v
    BY <1>1, <1>t, <2>2, <2>3, <2>4 DEF RunInd, SoleExecutor
  <2> QED
    BY <1>1, <1>5, <2>1, <2>4, <2>5, Outcomes
<1>6. ASSUME NEW f \in Workflow, LeaseExpires(f, t) PROVE FALSE
  BY <1>6, <1>t DEF LeaseExpires, LiveTasks, FreshClaim, Calling, CallPc, Registered
<1>7. ASSUME NEW f \in Workflow, ResumeAdopts(f) \/ Recover(f), t \in CurrentTasks(f)
      PROVE  FALSE
  <2>1. workflows[f].job = session
    BY <1>1, <1>7 DEF RunInd, JobOfPlan
  <2> QED
    BY <1>7, <2>1 DEF ResumeAdopts, Recover, RunInd, JobsOfSessions
<1> QED
  BY <1>1, <1>2, <1>5, <1>6, <1>7, AttemptCloses

\* Only the executor of an attempt delivers it, and is free afterwards.
LEMMA CallGoesOn ==
  ASSUME RunInd, [Next]_vars, NEW v \in Worker, SessionOf[v] = session, Busy(v),
         Calling(v), Calling(v)', workers[v]'.task = workers[v].task,
         ~Claiming
  PROVE  tasks'[workers[v].task].status \in {"in_progress", "failed", "cancelled"}
<1>t. PICK t \in Task : t = workers[v].task
  BY BusyTypes DEF RunInd, AttemptInd
<1> DEFINE r == tasks[t]
           s == tasks[t]'
<1>1. /\ AttemptInd /\ TypeInv /\ r \in TaskRow /\ workers[v].attempt = r.attempt
      /\ r.status \in {"in_progress", "failed", "cancelled"}
      /\ Executing(v) /\ Busy(v)'
  <2>1. Executing(v) /\ Busy(v)'
    BY DEF Calling, CallPc, Executing, ExecPc, Busy
  <2>2. RunInv(v) /\ TypeInv /\ AttemptInd
    BY DEF RunInd, RunsInv, AttemptInd
  <2> QED
    BY <1>t, <2>1, <2>2, RowTypes DEF RunInv, TaskOf
<1>2. RowStep(r, s) /\ s.attempt = r.attempt
  BY <1>1, <1>t, CallStays, TypeStep DEF AttemptInd, Rows, TaskOf
<1>3. CASE r.status \in {"failed", "cancelled"}
  BY <1>1, <1>2, <1>3, <1>t, RowFacts, ClaimFacts, InsertFacts
  DEF RowStep, InsertStep, SettledStatus
<1>4. CASE r.status = "in_progress"
  <2> SUFFICES ASSUME s.status \notin {"in_progress", "failed", "cancelled"} PROVE FALSE
    BY <1>t
  <2>1. s.status \in {"pending_review", "reviewing", "completed"}
    BY <1>1, <1>2, <1>4, AttemptFacts DEF NextAttempt, SameAttempt, TaskRow
  <2>2. ~Batches /\ ~Extends
    <3>1. ~BatchWrite(r, s) /\ ~Retirement(r, s) /\ s # r
      BY <1>1, <1>4, <2>1, BatchFacts, RetirementFacts
    <3> QED
      BY <1>4, <3>1 DEF Batches, Extends, Managed, BatchWrite, Insertion
  <2>3. ASSUME NEW w \in Worker, HandlerStep(w) PROVE FALSE
    <3>1. SlotInv(w) /\ Busy(w)
      BY <1>1, <2>3, HandlerWrites DEF AttemptInd, SlotsInv
    <3>2. workers[w].task = t /\ TaskOf(w) = r
      BY <1>1, <1>4, <2>1, <2>3, <3>1, Outcomes DEF TaskOf
    <3>3. Executing(w) /\ workers[w].attempt = r.attempt /\ ~Busy(w)'
      <4>1. HandlerWrite(r, s) /\ s # r
        BY <1>1, <1>4, <2>1, <2>3, <3>1, <3>2, Outcomes
      <4>2. s.status \in {"pending_review", "completed"}
        BY <1>1, <1>4, <2>1, <4>1, ReviewFacts DEF RowWrite
      <4> QED
        BY <1>1, <1>4, <2>3, <3>1, <3>2, <4>1, <4>2, Outcomes
    <3>4. w = v
      BY <1>1, <1>t, <3>2, <3>3 DEF RunInd, SoleExecutor
    <3> QED
      BY <1>1, <3>3, <3>4
  <2> QED
    BY <1>1, <2>2, <2>3, TypeStep DEF AttemptInd
<1> QED
  BY <1>1, <1>3, <1>4

\* A slot of the session that is busy after a step was of the session before it.
LEMMA SessionStays ==
  ASSUME TypeInv, [Next]_vars, NEW v \in Worker, SessionOf[v] = session', Busy(v)'
  PROVE  session' = session
<1>1. ~(\E survivors : NewSession(survivors))
  <2> SUFFICES ASSUME NEW survivors, NewSession(survivors) PROVE FALSE
    OBVIOUS
  <2>1. session' = session + 1
    BY DEF NewSession
  <2>2. SessionOf[v] = session + 1
    BY <2>1
  <2>3. workers[v]' = (CASE SessionOf[v] = session + 1 -> IdleWorker
                         [] SessionOf[v] = session /\ v \notin survivors -> OffWorker
                         [] OTHER -> workers[v])
    BY DEF NewSession
  <2>4. workers[v]' = IdleWorker
    BY <2>2, <2>3 DEF TypeInv, TypeOK
  <2> QED
    BY <2>4 DEF Busy, IdleWorker
<1> QED
  BY <1>1, SessionSteps

LEMMA RunStep ==
  ASSUME RunInd, [Next]_vars, Anchored, NEW v \in Worker, SessionOf[v] = session', Busy(v)'
  PROVE  RunInv(v)'
<1>1. AttemptInd /\ TypeInv
  BY DEF RunInd, AttemptInd
<1>3. session' = session
  BY <1>1, SessionStays
<1>4. ASSUME NEW x \in Worker, NEW t \in Task,
             Claim(x, t) \/ ClaimReview(x, t)
      PROVE  RunInv(v)'
  <2>1. CASE v = x
    BY <1>1, <1>3, <1>4, <2>1, ClaimShape DEF RunInv, TaskOf, Calling, CallPc
  <2>2. CASE v # x
    <3>1. workers[v]' = workers[v]
      BY <1>1, <1>4, <2>2, ClaimShape
    <3>2. Busy(v) /\ (Calling(v)' <=> Calling(v))
      BY <3>1 DEF Busy, Calling
    <3>3. RunInv(v) /\ workers[v].task \in Task
      BY <1>1, <1>3, <3>2, BusyTypes DEF RunInd, RunsInv
    <3>4. /\ \A u \in Task : /\ tasks[u]'.job = tasks[u].job
                            /\ tasks[u]'.attempt = tasks[u].attempt
          /\ \A u \in Task \ {t} : tasks[u]' = tasks[u]
          /\ tasks[t].status \in {"pending", "approved", "pending_review"}
      BY <1>1, <1>4, ClaimShape
    <3>5. Calling(v) => tasks'[workers[v].task] = TaskOf(v)
      BY <3>3, <3>4 DEF RunInv, TaskOf
    <3> QED
      BY <1>3, <3>1, <3>2, <3>3, <3>4, <3>5 DEF RunInv, TaskOf, Calling
  <2> QED
    BY <2>1, <2>2
<1>5. ASSUME NEW x \in Worker, Load(x) \/ LoadReview(x)
      PROVE  RunInv(v)'
  <2>1. tasks' = tasks /\ session' = session
    BY <1>1, <1>3, <1>5, LoadShape
  <2>2. CASE v = x
    <3>1. /\ Busy(v) /\ workers[v]'.task = workers[v].task
          /\ workers[v]'.attempt = TaskOf(v).attempt
          /\ \/ TaskOf(v).status = "in_progress"
             \/ workers[v]'.pc = "r_dispatch"
      BY <1>1, <1>5, <2>2, LoadShape
    <3>2. RunInv(v)
      BY <2>1, <3>1 DEF RunInd, RunsInv
    <3> QED
      BY <2>1, <3>1, <3>2 DEF RunInv, TaskOf, Calling, CallPc
  <2>3. CASE v # x
    <3>1. workers[v]' = workers[v]
      BY <1>1, <1>5, <2>3, LoadShape
    <3>2. RunInv(v)
      BY <2>1, <3>1 DEF RunInd, RunsInv, Busy
    <3> QED
      BY <2>1, <3>1, <3>2 DEF RunInv, TaskOf, Calling
  <2> QED
    BY <2>2, <2>3
<1>6. CASE ~Claiming /\ ~Loading
  <2>1. GoesOn(v) /\ Busy(v)
    BY <1>1, <1>6, SlotsGoOn DEF GoesOn
  <2>2. /\ workers[v]'.task = workers[v].task /\ workers[v]'.attempt = workers[v].attempt
        /\ Calling(v)' => Calling(v)
    BY <2>1 DEF GoesOn
  <2>t. PICK t \in Task : t = workers[v].task
    BY <1>1, <2>1, BusyTypes
  <2>3. /\ RunInv(v) /\ tasks[t].job = session /\ tasks[t] \in TaskRow
        /\ tasks[t].status # "absent"
    <3>1. RunInv(v) /\ SlotInv(v)
      BY <1>1, <1>3, <2>1 DEF RunInd, RunsInv, AttemptInd, SlotsInv
    <3> QED
      BY <1>1, <2>t, <3>1, RowTypes DEF RunInv, SlotInv, TaskOf
  <2>4. tasks[t]'.job = session
    <3>1. CASE PlansStay
      BY <2>3, <3>1 DEF PlansStay, SamePlan
    <3>2. ASSUME NEW g \in Workflow, PublishWorkflow(g) PROVE tasks[t]'.job = session
      BY <1>1, <2>3, <3>2, PlanBegins
    <3>3. ASSUME NEW g \in Workflow, NEW kept, NEW fresh, ReplanWorkflow(g, kept, fresh)
          PROVE  tasks[t]'.job = session
      <4>1. t \notin fresh
        BY <2>3, <3>3 DEF ReplanWorkflow, Replan, Insertable
      <4> QED
        BY <1>1, <2>3, <3>3, <4>1, PlanChanges
    <3>4. ASSUME NEW g \in Workflow, ResumeAdopts(g) \/ Recover(g)
          PROVE  tasks[t]'.job = session
      <4>1. RequeueInterrupted(tasks[t]) \in TaskRow
        BY <2>3, PendingTypes, NullTypes
      <4>2. \/ tasks[t]' = tasks[t]
            \/ tasks[t]' = [RequeueInterrupted(tasks[t]) EXCEPT !.job = session]
        BY <3>4 DEF ResumeAdopts, Recover, Adopt
      <4> QED
        BY <2>3, <4>1, <4>2 DEF TaskRow
    <3> QED
      BY <1>1, <3>1, <3>2, <3>3, <3>4, PlanSteps DEF Replanning, Adopting
  <2>5. Calling(v)' => /\ tasks[t]'.attempt = tasks[t].attempt
                       /\ tasks[t]'.status \in {"in_progress", "failed", "cancelled"}
    BY <1>3, <1>6, <2>1, <2>2, <2>t, CallStays, CallGoesOn DEF TaskOf
  <2> QED
    BY <1>3, <2>2, <2>3, <2>4, <2>5, <2>t DEF RunInv, TaskOf
<1> QED
  BY <1>4, <1>5, <1>6 DEF Claiming, Loading

\* With no late load, a claim and the load after it make one executor.
LEMMA SoleStep ==
  ASSUME AttemptInd, SoleExecutor, ClaimIsLatest, [Next]_vars, NoLateLoad
  PROVE  SoleExecutor' /\ ClaimIsLatest'
<1>1. TypeInv
  BY DEF AttemptInd
<1>b. /\ \A v \in Worker : Executing(v)' => Busy(v)' /\ ~Polling(v)'
      /\ \A v \in Worker : workers[v]'.pc = "claimed" => Polling(v)' /\ Busy(v)'
  BY DEF Executing, ExecPc, Busy, Polling, PollPc
<1>s. ASSUME NEW w \in Worker, workers[w]'.pc = "claimed", SessionOf[w] = session'
      PROVE  session' = session
  BY <1>1, <1>b, <1>s, SessionStays
<1>2. CASE ~Claiming /\ ~Loading
  <2>1. \A v \in Worker : GoesOn(v)
    BY <1>1, <1>2, SlotsGoOn
  <2>2. SoleExecutor'
    BY <1>b, <2>1 DEF GoesOn, SoleExecutor
  <2>3. ClaimIsLatest'
    <3> SUFFICES ASSUME NEW v \in Worker, NEW w \in Worker, Executing(v)',
                        workers[w]'.pc = "claimed", SessionOf[w] = session',
                        AgentOf[v] = AgentOf[w], workers[v]'.task = workers[w]'.task
                 PROVE  workers[v]'.attempt < workers[w]'.attempt
      BY DEF ClaimIsLatest
    <3>1. SessionOf[w] = session
      BY <1>s
    <3> QED
      BY <1>b, <2>1, <3>1 DEF GoesOn, ClaimIsLatest
  <2> QED
    BY <2>2, <2>3
<1>3. ASSUME NEW x \in Worker, NEW t \in Task, Claim(x, t) \/ ClaimReview(x, t)
      PROVE  SoleExecutor' /\ ClaimIsLatest'
  <2>1. /\ workers[x]'.task = t /\ workers[x]'.pc \in {"claimed", "r_claimed"}
        /\ session' = session
    BY <1>1, <1>3, ClaimShape
  <2>2. \A v \in Worker \ {x} :
          /\ (Executing(v)' <=> Executing(v)) /\ workers[v]'.pc = workers[v].pc
          /\ workers[v]'.task = workers[v].task
          /\ workers[v]'.attempt = workers[v].attempt
    BY <1>1, <1>3, ClaimShape, Unmoved
  <2>3. ~Executing(x)'
    BY <2>1 DEF Executing, ExecPc
  <2>4. ASSUME NEW v \in Worker \ {x}, Executing(v), workers[v].task = t,
               workers[x]'.pc = "claimed"
        PROVE  workers[v].attempt < workers[x]'.attempt
    BY <1>3, <2>4, ClaimIsFresh, BusyKinds
  <2>5. SoleExecutor'
    BY <2>2, <2>3 DEF SoleExecutor
  <2>6. ClaimIsLatest'
    <3> SUFFICES ASSUME NEW v \in Worker, NEW w \in Worker, Executing(v)',
                        workers[w]'.pc = "claimed", SessionOf[w] = session',
                        AgentOf[v] = AgentOf[w], workers[v]'.task = workers[w]'.task
                 PROVE  workers[v]'.attempt < workers[w]'.attempt
      BY DEF ClaimIsLatest
    <3>1. v # x
      BY <2>3
    <3>2. CASE w = x
      BY <2>1, <2>2, <2>4, <3>1, <3>2
    <3>3. CASE w # x
      BY <2>1, <2>2, <3>1, <3>3 DEF ClaimIsLatest
    <3> QED
      BY <3>2, <3>3
  <2> QED
    BY <2>5, <2>6
<1>4. ASSUME NEW x \in Worker, Load(x) \/ LoadReview(x)
      PROVE  SoleExecutor' /\ ClaimIsLatest'
  <2>1. /\ Busy(x) /\ Polling(x) /\ session' = session
        /\ workers[x]'.pc # "claimed"
        /\ Executing(x)' =>
             /\ workers[x].pc = "claimed" /\ SessionOf[x] = session
             /\ workers[x]'.task = workers[x].task
             /\ workers[x]'.attempt = TaskOf(x).attempt
             /\ TaskOf(x).owner \in {AgentOf[x], NoAgent}
             /\ TaskOf(x).status = "in_progress"
    <3>1. session' = session
      BY <1>1, <1>4, LoadShape DEF process, sessionState
    <3>2. CASE ~Busy(x)'
      BY <1>1, <1>4, <1>b, <3>1, <3>2, LoadShape
    <3>3. CASE Busy(x)'
      <4>1. workers[x]'.pc \in {"begin", "dispatch", "r_dispatch"}
        BY <1>1, <1>4, <3>3, LoadShape
      <4>2. workers[x]'.pc # "claimed" /\ (Executing(x)' => workers[x]'.pc # "r_dispatch")
        BY <4>1 DEF Executing, ExecPc
      <4> QED
        BY <1>1, <1>4, <3>1, <3>3, <4>2, LoadShape DEF NoLateLoad
    <3> QED
      BY <3>2, <3>3
  <2>2. \A v \in Worker \ {x} :
          /\ (Executing(v)' <=> Executing(v)) /\ workers[v]'.pc = workers[v].pc
          /\ workers[v]'.task = workers[v].task
          /\ workers[v]'.attempt = workers[v].attempt
    BY <1>1, <1>4, LoadShape, Unmoved
  <2>3. ASSUME NEW v \in Worker \ {x}, Executing(v), Executing(x)',
               workers[v].task = workers[x].task
        PROVE  workers[v].attempt # workers[x]'.attempt
    <3> SUFFICES ASSUME workers[v].attempt = workers[x]'.attempt PROVE FALSE
      OBVIOUS
    <3>1. /\ Busy(v) /\ SlotInv(v) /\ SlotInv(x) /\ TaskOf(v) = TaskOf(x)
          /\ workers[v].attempt \in Nat /\ workers[x].attempt \in Nat
          /\ workers[v].attempt = TaskOf(v).attempt
      BY <1>1, <2>1, <2>3, BusyKinds, BusyTypes DEF AttemptInd, SlotsInv, TaskOf
    <3>2. AgentOf[v] = AgentOf[x]
      <4>1. TaskOf(v).owner = AgentOf[v]
        BY <2>1, <2>3, <3>1 DEF SlotInv, Holds
      <4>2. AgentOf[v] # NoAgent
        BY ExecutionAssumption, RepositoryAssumption
      <4> QED
        BY <2>1, <2>3, <3>1, <4>1, <4>2
    <3>3. workers[v].attempt < workers[x].attempt
      BY <2>1, <2>3, <3>2 DEF ClaimIsLatest
    <3>4. workers[x].attempt <= TaskOf(x).attempt
      BY <3>1 DEF SlotInv
    <3> QED
      BY <3>1, <3>3, <3>4
  <2>4. SoleExecutor'
    <3> SUFFICES ASSUME NEW v \in Worker, NEW w \in Worker, Executing(v)', Executing(w)',
                        workers[v]'.task = workers[w]'.task,
                        workers[v]'.attempt = workers[w]'.attempt, v # w
                 PROVE  FALSE
      BY DEF SoleExecutor
    <3>1. CASE v # x /\ w # x
      BY <2>2, <3>1 DEF SoleExecutor
    <3>2. CASE v = x
      BY <2>1, <2>2, <2>3, <3>2
    <3>3. CASE w = x
      BY <2>1, <2>2, <2>3, <3>3
    <3> QED
      BY <3>1, <3>2, <3>3
  <2>5. ClaimIsLatest'
    <3> SUFFICES ASSUME NEW v \in Worker, NEW w \in Worker, Executing(v)',
                        workers[w]'.pc = "claimed", SessionOf[w] = session',
                        AgentOf[v] = AgentOf[w], workers[v]'.task = workers[w]'.task
                 PROVE  workers[v]'.attempt < workers[w]'.attempt
      BY DEF ClaimIsLatest
    <3>1. w # x /\ Polling(w)
      BY <2>1, <2>2 DEF Polling, PollPc
    <3>2. v # x
      BY <2>1, <3>1 DEF AttemptInd, PollInv, SameExecutor
    <3> QED
      BY <2>1, <2>2, <3>1, <3>2 DEF ClaimIsLatest
  <2> QED
    BY <2>4, <2>5
<1> QED
  BY <1>2, <1>3, <1>4 DEF Claiming, Loading

LEMMA RunInvariance == Spec /\ [][NoLateLoad]_vars => []RunInd
<1>1. Init => SupersededSettled /\ JobsOfSessions /\ RunsInv /\ SoleExecutor /\ ClaimIsLatest
  <2> SUFFICES ASSUME Init
               PROVE  /\ SupersededSettled /\ JobsOfSessions /\ RunsInv
                      /\ SoleExecutor /\ ClaimIsLatest
    OBVIOUS
  <2>1. \A w \in Worker : ~Busy(w) /\ ~Executing(w)
    BY DEF Init, Busy, Executing, ExecPc, IdleWorker, OffWorker
  <2>2. \A f \in Workflow : workflows[f].job = 0
    BY DEF Init, AbsentWorkflow
  <2>3. session = 1 /\ recovering = {}
    BY DEF Init
  <2>4. \A t \in Task : tasks[t] = AbsentTask
    BY DEF Init
  <2> QED
    BY <2>1, <2>2, <2>3, <2>4
    DEF AbsentTask, SupersededSettled, JobsOfSessions, RunsInv, SoleExecutor, ClaimIsLatest
<1>2. /\ AttemptInd /\ JobOfPlan /\ WriterExclusion /\ SupersededSettled /\ JobsOfSessions
      /\ SoleExecutor /\ ClaimIsLatest /\ RunsInv /\ [Next]_vars /\ [NoLateLoad]_vars
      => SupersededSettled' /\ JobsOfSessions' /\ RunsInv' /\ SoleExecutor' /\ ClaimIsLatest'
  <2> SUFFICES ASSUME AttemptInd, JobOfPlan, WriterExclusion, SupersededSettled,
                      JobsOfSessions, SoleExecutor, ClaimIsLatest, RunsInv, [Next]_vars,
                      [NoLateLoad]_vars
               PROVE  /\ SupersededSettled' /\ JobsOfSessions' /\ RunsInv'
                      /\ SoleExecutor' /\ ClaimIsLatest'
    OBVIOUS
  <2>1. RunInd /\ TypeInv /\ Anchored
    BY DEF RunInd, AttemptInd
  <2>2. SoleExecutor' /\ ClaimIsLatest'
    <3>1. CASE NoLateLoad
      BY <3>1, SoleStep
    <3>2. CASE UNCHANGED vars
      BY <3>2 DEF vars, process, sessionState, SoleExecutor, ClaimIsLatest, Executing
    <3> QED
      BY <3>1, <3>2
  <2> QED
    BY <2>1, <2>2, SupersededStep, JobsOfSessionsStep, RunStep DEF RunsInv
<1>3. Spec => []JobOfPlan /\ []WriterExclusion /\ []AttemptInd
  BY JobsFollowPlans, WritersExclude, AttemptInvariance, PTL
<1> QED
  BY <1>1, <1>2, <1>3, PTL DEF Spec, RunInd

(***************************************************************************)
(* Two writers at work.  Two live runs of the session are on the attempts  *)
(* of their rows, and an attempt in progress excludes every other writer:  *)
(* so one of the two rows was stopped under its run.  It was cancelled,    *)
(* unless it was failed without looking at its attempt, which takes an     *)
(* exception that escapes a handler or its poller.  All this needs one     *)
(* executor per attempt, so that no poller of an earlier session loads an  *)
(* attempt of this one: its handler would requeue the task, and another    *)
(* writer start, with the run of this session still alive.                 *)
(***************************************************************************)

\* In one session, two agents write to the workspace at the same time only
\* while the run of a task that was cancelled or failed goes on.
WritersOverlapOnlyWhenStopped ==
  \A v, w \in Worker :
    /\ v # w /\ SessionOf[v] = session /\ SessionOf[w] = session
    /\ workers[v].pc = "live" /\ workers[w].pc = "live"
    /\ workers[v].task \in Writes /\ workers[w].task \in Writes
    => \E x \in {v, w} : TaskOf(x).status \in {"cancelled", "failed"}

LEMMA LiveRun ==
  ASSUME RunInd, NEW w \in Worker, SessionOf[w] = session, Calling(w)
  PROVE  /\ Busy(w) /\ Executing(w) /\ SlotInv(w) /\ workers[w].task \in Task
         /\ workers[w].attempt = TaskOf(w).attempt
         /\ TaskOf(w).status \in {"in_progress", "failed", "cancelled"}
<1>1. Busy(w) /\ Executing(w)
  BY DEF Calling, CallPc, Busy, Executing, ExecPc
<1>2. RunInv(w) /\ SlotInv(w) /\ workers[w].task \in Task
  BY <1>1, BusyTypes DEF RunInd, RunsInv, AttemptInd, SlotsInv
<1> QED
  BY <1>1, <1>2 DEF RunInv

LEMMA OverlapIsOfStopped ==
  ASSUME RunInd
  PROVE  WritersOverlapOnlyWhenStopped
<1> SUFFICES ASSUME NEW v \in Worker, NEW w \in Worker,
                    v # w, SessionOf[v] = session, SessionOf[w] = session,
                    workers[v].pc = "live", workers[w].pc = "live",
                    workers[v].task \in Writes, workers[w].task \in Writes,
                    TaskOf(v).status \notin {"cancelled", "failed"},
                    TaskOf(w).status \notin {"cancelled", "failed"}
             PROVE  FALSE
  BY DEF WritersOverlapOnlyWhenStopped
<1>1. Calling(v) /\ Calling(w)
  BY DEF Calling, CallPc
<1>2. /\ Executing(v) /\ Executing(w)
      /\ workers[v].attempt = TaskOf(v).attempt /\ workers[w].attempt = TaskOf(w).attempt
      /\ TaskOf(v).status = "in_progress" /\ TaskOf(w).status = "in_progress"
      /\ workers[v].task \in Task /\ workers[w].task \in Task
  BY <1>1, LiveRun
<1>3. IsWorkflowTask(workers[v].task) /\ IsWorkflowTask(workers[w].task)
  BY RepositoryAssumption DEF IsWorkflowTask
<1>4. ~TaskOf(v).superseded /\ ~TaskOf(w).superseded
  BY <1>2 DEF RunInd, SupersededSettled, SettledStatus, TaskOf
<1>5. workers[v].task = workers[w].task
  BY <1>2, <1>3, <1>4 DEF RunInd, WriterExclusion, TaskOf
<1>6. workers[v].attempt = workers[w].attempt
  BY <1>2, <1>5 DEF TaskOf
<1> QED
  BY <1>2, <1>5, <1>6 DEF RunInd, SoleExecutor

\* Whatever fails, two writers of a session overlap only while one of them runs
\* for a task that was stopped, as long as no poller of an earlier session loads
\* a task it claimed there.
THEOREM WritersOverlapWhenStopped ==
  Spec /\ [][NoLateLoad]_vars => []WritersOverlapOnlyWhenStopped
BY RunInvariance, OverlapIsOfStopped, PTL

\* No exception escapes a handler and no claimed task is lost before its handler
\* is called: nothing fails a row without looking at its attempt.
NoEscape == \A w \in Worker : ~HandlerRaises(w) /\ ~LoadRaises(w)

Unfenced == {"escaped", "failing", "unloaded"}
NothingEscaped == \A w \in Worker : workers[w].pc \notin Unfenced

\* The task a slot of the session calls its agent for was not failed.
StillWanted ==
  \A w \in Worker : SessionOf[w] = session /\ Calling(w) => TaskOf(w).status # "failed"

LEMMA EscapeStep ==
  ASSUME TypeInv, NothingEscaped, NoEscape, [Next]_vars
  PROVE  NothingEscaped'
<1> SUFFICES ASSUME NEW v \in Worker PROVE workers[v]'.pc \notin Unfenced
  BY DEF NothingEscaped
<1>0. /\ workers[v].pc \notin Unfenced /\ workers \in [Worker -> WorkerState]
      /\ workers[v] \in WorkerState
  BY DEF NothingEscaped, TypeInv, TypeOK
<1>1. ASSUME NEW w \in Worker, WorkerStep(w) \/ WorkerFault(w), ~Load(w), ~LoadReview(w)
      PROVE  workers[v]'.pc \notin Unfenced
  <2>1. workers[w].pc \notin Unfenced
    BY DEF NothingEscaped
  <2>2. \/ Ends(w)
        \/ \E pc \in Pc \ Unfenced :
             \/ Goes(w, pc)
             \/ \E cut : workers' = [workers EXCEPT ![w].pc = pc, ![w].cut = cut]
             \/ \E answer : workers' = [workers EXCEPT ![w].pc = pc,
                                          ![w].answer = answer, ![w].cut = "none"]
    BY <1>1, <2>1
    DEF NoEscape, Unfenced, WorkerStep, WorkerFault, Begin, Check, Dispatch, CheckRun,
        ClearEvent, Side, NoAnswer, Answer, FinishWorkflowRun, FinishPlainRun, Deliver,
        Rework, HandOff, ReviewAnswer, CompleteReview, RecordAccepted, RecordRejected,
        ReviewRework, RejectPlain, ReviewerUnavailable, HandlerReads, FailUnfenced,
        RunRaises, ReviewRaises, Pc, ExecPc, ReviewPc
  <2>3. CASE Ends(w)
    BY <1>0, <2>3 DEF Ends, IdleWorker, Unfenced
  <2>4. ASSUME NEW pc \in Pc \ Unfenced,
               \/ Goes(w, pc)
               \/ \E cut : workers' = [workers EXCEPT ![w].pc = pc, ![w].cut = cut]
               \/ \E answer : workers' = [workers EXCEPT ![w].pc = pc,
                                            ![w].answer = answer, ![w].cut = "none"]
        PROVE  workers[v]'.pc \notin Unfenced
    <3>1. CASE v # w
      BY <1>0, <2>4, <3>1 DEF Goes
    <3>2. CASE v = w
      <4>1. \/ workers[v]' = [workers[v] EXCEPT !.pc = pc]
            \/ \E cut : workers[v]' = [workers[v] EXCEPT !.pc = pc, !.cut = cut]
            \/ \E answer : workers[v]' = [workers[v] EXCEPT !.pc = pc, !.answer = answer,
                                                            !.cut = "none"]
        BY <1>0, <2>4, <3>2 DEF Goes
      <4>2. workers[v]'.pc = pc
        BY <1>0, <4>1 DEF WorkerState
      <4> QED
        BY <4>2
    <3> QED
      BY <3>1, <3>2
  <2> QED
    BY <2>2, <2>3, <2>4
<1>2. ASSUME NEW x \in Worker, NEW t \in Task,
             Claim(x, t) \/ ClaimReview(x, t)
      PROVE  workers[v]'.pc \notin Unfenced
  <2>1. CASE v # x
    BY <1>0, <1>2, <2>1, ClaimShape
  <2>2. CASE v = x
    <3>1. workers[v]'.pc \in {"claimed", "r_claimed"}
      BY <1>2, <2>2, ClaimShape
    <3> QED
      BY <3>1 DEF Unfenced
  <2> QED
    BY <2>1, <2>2
<1>3. ASSUME NEW x \in Worker, Load(x) \/ LoadReview(x)
      PROVE  workers[v]'.pc \notin Unfenced
  <2>1. CASE v # x
    BY <1>0, <1>3, <2>1, LoadShape
  <2>2. CASE v = x
    <3>1. ~Busy(v)' \/ workers[v]'.pc \in {"begin", "dispatch", "r_dispatch"}
      BY <1>3, <2>2, LoadShape
    <3> QED
      BY <3>1 DEF Unfenced, Busy
  <2> QED
    BY <2>1, <2>2
<1>4. ASSUME NEW w \in Worker, StopSlot(w) \/ CutRun(w)
      PROVE  workers[v]'.pc \notin Unfenced
  <2>1. \/ workers[v]' = workers[v]
        \/ workers[v]' = [workers[v] EXCEPT !.pc = "off"]
        \/ workers[v]' = [workers[v] EXCEPT !.cut = "set"]
    BY <1>0, <1>4 DEF StopSlot, CutRun, Goes
  <2> QED
    BY <1>0, <2>1 DEF WorkerState, Unfenced
<1>5. ASSUME NEW f \in Workflow, Interrupt(f)
      PROVE  workers[v]'.pc \notin Unfenced
  <2>1. \/ workers[v]' = workers[v]
        \/ workers[v]' = [workers[v] EXCEPT !.cut = "due"]
    BY <1>5 DEF Interrupt
  <2> QED
    BY <1>0, <2>1 DEF WorkerState
<1>6. ASSUME NEW survivors, NewSession(survivors)
      PROVE  workers[v]'.pc \notin Unfenced
  <2>1. \/ workers[v]' = IdleWorker
        \/ workers[v]' = OffWorker
        \/ workers[v]' = workers[v]
    BY <1>6 DEF NewSession
  <2>2. IdleWorker.pc = "idle" /\ OffWorker.pc = "off"
    BY DEF IdleWorker, OffWorker
  <2> QED
    BY <1>0, <2>1, <2>2 DEF Unfenced
<1>7. ASSUME \/ \E f \in Workflow : ToolStep(f) \/ ReconcileStep(f) \/ Recover(f)
                                    \/ \E t \in Task : LeaseExpires(f, t)
             \/ \E t \in Task : CreateTask(t)
             \/ Membership \/ \E a \in Agent : Suspend(a)
             \/ UNCHANGED vars
      PROVE  workers' = workers
  BY <1>7 DEF ToolStep, PublishWorkflow, StartWorkflow, Pause, Resume, ResumeAdopts,
     Cancel, FinishFailed, FinishBlocked, ReplanWorkflow, Moves, Stops, ReconcileStep,
     Complete, Block, ReleaseReady, FailUnrunnable, Recover, LeaseExpires, CreateTask,
     Membership, Suspend, Resumes, Connect, Reload, vars
<1> QED
  BY <1>0, <1>1, <1>2, <1>3, <1>4, <1>5, <1>6, <1>7 DEF Next, ClaimStep, Membership

\* Who fails a row in progress: the handler that hands its task off.
LEMMA WantedStep ==
  ASSUME RunInd, NothingEscaped, StillWanted, [Next]_vars
  PROVE  StillWanted'
<1> SUFFICES ASSUME NEW v \in Worker, SessionOf[v] = session', Calling(v)',
                    TaskOf(v)'.status = "failed"
             PROVE  FALSE
  BY DEF StillWanted
<1>1. AttemptInd /\ TypeInv /\ Busy(v)' /\ session' = session
  <2>1. AttemptInd /\ TypeInv /\ Busy(v)'
    BY DEF RunInd, AttemptInd, Calling, CallPc, Busy
  <2> QED
    BY <2>1, SessionStays
<1>2. ASSUME NEW x \in Worker, NEW t \in Task,
             Claim(x, t) \/ ClaimReview(x, t)
      PROVE  FALSE
  <2>1. tasks[t]'.status \in {"in_progress", "reviewing"} /\ workers[x]'.task = t
    BY <1>1, <1>2, ClaimShape
  <2>2. v # x
    BY <2>1 DEF TaskOf
  <2>3. workers[v]' = workers[v]
    BY <1>1, <1>2, <2>2, ClaimShape
  <2>4. Calling(v) /\ workers[v].task \in Task /\ TaskOf(v).status # "failed"
    <3>1. Calling(v) /\ Busy(v)
      BY <1>1, <2>3 DEF Calling, Busy
    <3> QED
      BY <1>1, <3>1, BusyTypes DEF StillWanted
  <2>5. \A u \in Task \ {t} : tasks[u]' = tasks[u]
    BY <1>1, <1>2, ClaimShape
  <2> QED
    BY <2>1, <2>3, <2>4, <2>5 DEF TaskOf
<1>3. ASSUME NEW x \in Worker, Load(x) \/ LoadReview(x)
      PROVE  FALSE
  <2>1. tasks' = tasks
    BY <1>1, <1>3, LoadShape
  <2>2. CASE v = x
    <3>1. /\ workers[v]'.task = workers[v].task
          /\ TaskOf(v).status = "in_progress" \/ workers[v]'.pc = "r_dispatch"
      BY <1>1, <1>3, <2>2, LoadShape
    <3> QED
      BY <2>1, <3>1 DEF TaskOf, Calling, CallPc
  <2>3. CASE v # x
    <3>1. workers[v]' = workers[v]
      BY <1>1, <1>3, <2>3, LoadShape
    <3> QED
      BY <1>1, <2>1, <3>1 DEF StillWanted, TaskOf, Calling
  <2> QED
    BY <2>2, <2>3
<1>4. CASE ~Claiming /\ ~Loading
  <2>1. GoesOn(v) /\ Busy(v)
    BY <1>1, <1>4, SlotsGoOn DEF GoesOn
  <2>2. Calling(v) /\ workers[v]'.task = workers[v].task
    BY <1>1, <2>1 DEF GoesOn
  <2>t. PICK t \in Task : t = workers[v].task
    BY <1>1, <2>1, BusyTypes
  <2> DEFINE r == tasks[t]
             s == tasks[t]'
  <2>3. /\ Executing(v) /\ r \in TaskRow /\ r = TaskOf(v) /\ s = TaskOf(v)'
        /\ r.status \in {"in_progress", "cancelled"} /\ s.status = "failed"
        /\ workers[v].attempt = r.attempt
    <3>1. r = TaskOf(v) /\ s = TaskOf(v)' /\ r \in TaskRow
      BY <1>1, <2>2, <2>t, RowTypes DEF TaskOf
    <3>2. r.status # "failed"
      BY <1>1, <2>2, <3>1 DEF StillWanted
    <3> QED
      BY <1>1, <2>2, <3>1, <3>2, LiveRun
  <2>4. RowStep(r, s) /\ r.status = "in_progress"
    <3>1. RowStep(r, s)
      BY <1>1, TypeStep DEF AttemptInd, Rows
    <3> QED
      BY <2>3, <3>1, RowFacts, ClaimFacts, InsertFacts
      DEF RowStep, InsertStep, SettledStatus
  <2>5. ~Managed(t, s)
    <3> SUFFICES ASSUME BatchWrite(r, s) \/ s = r PROVE FALSE
      BY DEF Managed, BatchWrite
    <3> QED
      BY <2>3, <2>4, TransitionTable
      DEF BatchWrite, CancelTask, FailTask, RequeueInterrupted, UnassignPending,
          Admits, TaskRow
  <2>6. ~Batches /\ ~Extends
    <3>1. ~Retirement(r, s)
      BY <2>3, <2>4, RetirementFacts
    <3> QED
      BY <2>4, <2>5, <3>1 DEF Batches, Extends, Insertion
  <2>7. ASSUME NEW w \in Worker, HandlerStep(w) PROVE FALSE
    <3>1. SlotInv(w) /\ Busy(w)
      BY <1>1, <2>7, HandlerWrites DEF AttemptInd, SlotsInv
    <3>2. workers[w].task = t
      BY <1>1, <2>3, <2>7, <3>1, Outcomes
    <3>3. TaskOf(w) = r /\ s # r
      BY <2>3, <3>2 DEF TaskOf
    <3>4. workers[w].attempt = r.attempt /\ (Executing(w) \/ Reviewing(w))
      BY <1>1, <2>7, <3>1, <3>2, <3>3, HandlerFence DEF NothingEscaped, Unfenced
    <3>5. Executing(w)
      BY <2>4, <3>1, <3>2, <3>3, <3>4 DEF SlotInv, Delivered, TaskOf
    <3>6. w = v
      BY <1>1, <2>3, <2>t, <3>2, <3>4, <3>5 DEF RunInd, SoleExecutor
    <3> QED
      BY <1>1, <2>7, <3>1, <3>5, <3>6, Outcomes
  <2> QED
    BY <1>1, <1>4, <2>6, <2>7, TypeStep DEF AttemptInd
<1> QED
  BY <1>2, <1>3, <1>4 DEF Claiming, Loading

\* As long as no exception escapes a handler either, two writers of a session
\* overlap only when the task of one of them is cancelled: its run is still to be
\* cut, or its cut was lost.
THEOREM WritersDoNotOverlap ==
  Spec /\ [][NoLateLoad /\ NoEscape]_vars => []WritersOverlapOnlyWhenCancelled
<1>1. Init => NothingEscaped /\ StillWanted
  BY DEF Init, NothingEscaped, Unfenced, StillWanted, IdleWorker, OffWorker, Calling, CallPc
<1>2. RunInd /\ NothingEscaped /\ StillWanted /\ [Next]_vars /\ [NoEscape]_vars
      => NothingEscaped' /\ StillWanted'
  <2> SUFFICES ASSUME RunInd, NothingEscaped, StillWanted, [Next]_vars, [NoEscape]_vars
               PROVE  NothingEscaped' /\ StillWanted'
    OBVIOUS
  <2>1. TypeInv
    BY DEF RunInd, AttemptInd
  <2>2. NothingEscaped'
    <3>1. CASE NoEscape
      BY <2>1, <3>1, EscapeStep
    <3>2. CASE UNCHANGED vars
      BY <3>2 DEF vars, NothingEscaped
    <3> QED
      BY <3>1, <3>2
  <2> QED
    BY <2>2, WantedStep
<1>3. RunInd /\ StillWanted => WritersOverlapOnlyWhenCancelled
  <2> SUFFICES ASSUME RunInd, StillWanted,
                      NEW v \in Worker, NEW w \in Worker,
                      v # w, SessionOf[v] = session, SessionOf[w] = session,
                      workers[v].pc = "live", workers[w].pc = "live",
                      workers[v].task \in Writes, workers[w].task \in Writes
               PROVE  \E x \in {v, w} : tasks[workers[x].task].status = "cancelled"
    BY DEF WritersOverlapOnlyWhenCancelled
  <2>1. \E x \in {v, w} : TaskOf(x).status \in {"cancelled", "failed"}
    BY OverlapIsOfStopped DEF WritersOverlapOnlyWhenStopped
  <2>2. \A x \in {v, w} : TaskOf(x).status # "failed"
    BY DEF StillWanted, Calling, CallPc
  <2> QED
    BY <2>1, <2>2 DEF TaskOf
<1>4. [NoLateLoad /\ NoEscape]_vars => [NoLateLoad]_vars /\ [NoEscape]_vars
  OBVIOUS
<1> QED
  BY <1>1, <1>2, <1>3, <1>4, RunInvariance, PTL DEF Spec

============================================================================
