---------------------- MODULE WorkflowRepositoryProofs ----------------------
(***************************************************************************)
(* Lemmas about the operators of TaskRepository and WorkflowRepository,    *)
(* for every set of tasks, agents and workflows: what the transactions do  *)
(* to one row.  The proofs about executors and coordinators cite them.     *)
(***************************************************************************)
EXTENDS WorkflowRepository, TLAPS

(***************************************************************************)
(* The types of the row operators of the repository.                       *)
(***************************************************************************)

LEMMA NullTypes ==
  /\ NoAgent \in AgentOrNull
  /\ NoDelivery \in Delivery
  /\ AbsentTask \in TaskRow
  /\ NoAttention \in Attention
  /\ AbsentWorkflow \in WorkflowRow
BY DEF AgentOrNull, NoDelivery, Delivery, AbsentTask, TaskRow, TaskStatus,
       NoAttention, Attention, AbsentWorkflow, WorkflowRow, WorkflowStatus, Result

LEMMA NextNumbers ==
  ASSUME NEW row \in TaskRow
  PROVE  row.attempt + 1 \in Nat /\ row.reworks + 1 \in Nat
BY DEF TaskRow

LEMMA PendingTypes ==
  ASSUME NEW row \in TaskRow, NEW owner \in AgentOrNull, NEW job \in Nat
  PROVE  /\ InsertTask(owner, job) \in TaskRow
         /\ CancelTask(row) \in TaskRow
         /\ RequeueInterrupted(row) \in TaskRow
         /\ UnassignPending(row, owner) \in TaskRow
<1>1. InsertTask(owner, job) \in TaskRow
  BY NullTypes DEF InsertTask, AbsentTask, TaskRow, TaskStatus
<1>2. CancelTask(row) \in TaskRow
  BY DEF CancelTask, TaskRow, TaskStatus
<1>3. RequeueInterrupted(row) \in TaskRow
  <2>1. CASE row.status = "reviewing"
    BY <2>1, NullTypes DEF RequeueInterrupted, TaskRow, TaskStatus
  <2>2. CASE row.status = "in_progress"
    BY <2>2, NullTypes, NextNumbers DEF RequeueInterrupted, TaskRow, TaskStatus
  <2>3. CASE row.status \notin {"reviewing", "in_progress"}
    BY <2>3 DEF RequeueInterrupted
  <2> QED
    BY <2>1, <2>2, <2>3
<1>4. UnassignPending(row, owner) \in TaskRow
  BY NullTypes DEF UnassignPending, TaskRow
<1> QED
  BY <1>1, <1>2, <1>3, <1>4

LEMMA FailTypes ==
  ASSUME NEW row \in TaskRow, NEW fence, NEW from
  PROVE  FailTask(row, fence, from) \in TaskRow
BY NullTypes DEF FailTask, TaskRow, TaskStatus, AgentOrNull

LEMMA WriteTypes ==
  ASSUME NEW row \in TaskRow, NEW fence, NEW agent \in Agent,
         NEW delivery \in Delivery
  PROVE  /\ RequeueTaskAfterReview(row, fence, agent, delivery) \in TaskRow
         /\ ClaimTask(row, agent) \in TaskRow
         /\ ClaimReviewTask(row, agent) \in TaskRow
<1>1. /\ row.failed \cup {agent} \in SUBSET Agent
      /\ agent \in AgentOrNull
  BY DEF TaskRow, AgentOrNull
<1>2. RequeueTaskAfterReview(row, fence, agent, delivery) \in TaskRow
  BY <1>1, NullTypes, NextNumbers
  DEF RequeueTaskAfterReview, TaskRow, TaskStatus, AgentOrNull
<1>3. ClaimTask(row, agent) \in TaskRow /\ ClaimReviewTask(row, agent) \in TaskRow
  BY <1>1 DEF ClaimTask, ClaimReviewTask, TaskRow, TaskStatus
<1> QED
  BY <1>2, <1>3

LEMMA OutcomeTypes ==
  ASSUME NEW row \in TaskRow, NEW fence, NEW agent \in AgentOrNull,
         NEW owner \in AgentOrNull, NEW delivery \in Delivery,
         NEW exclude \in BOOLEAN, exclude => agent \in Agent
  PROVE  /\ RequeueTask(row, fence, agent, exclude) \in TaskRow
         /\ CompleteTask(row, fence, delivery, owner) \in TaskRow
         /\ SubmitForReview(row, fence, delivery) \in TaskRow
         /\ ReworkTask(row, fence, owner, delivery) \in TaskRow
         /\ ReturnReview(row, fence, agent, exclude) \in TaskRow
<1>1. exclude => /\ row.failed \cup {agent} \in SUBSET Agent
                 /\ row.failedReviewers \cup {agent} \in SUBSET Agent
  BY DEF TaskRow
<1>2. RequeueTask(row, fence, agent, exclude) \in TaskRow
  <2> DEFINE failed == IF exclude THEN row.failed \cup {agent} ELSE row.failed
             attempt == row.attempt + 1
             new == [row EXCEPT !.status = "pending", !.owner = NoAgent,
                                !.delivery = NoDelivery, !.attempt = attempt,
                                !.failed = failed]
  <2>1. failed \in SUBSET Agent /\ attempt \in Nat
    BY <1>1, NextNumbers DEF TaskRow
  <2>2. new \in TaskRow
    <3> HIDE DEF failed, attempt
    <3> QED
      BY <2>1, NullTypes DEF TaskRow, TaskStatus
  <2>3. CASE Admits(row, "pending", fence)
    BY <2>2, <2>3 DEF RequeueTask
  <2>4. CASE ~Admits(row, "pending", fence)
    BY <2>4 DEF RequeueTask
  <2> QED
    BY <2>3, <2>4
<1>3. CompleteTask(row, fence, delivery, owner) \in TaskRow
  <2> DEFINE reviewer == IF owner # NoAgent \/ row.status = "reviewing"
                           THEN owner ELSE row.reviewer
             new == [row EXCEPT !.status = "completed", !.delivery = delivery,
                                !.reviewer = reviewer]
  <2>1. reviewer \in AgentOrNull
    BY DEF TaskRow
  <2>2. new \in TaskRow
    <3> HIDE DEF reviewer
    <3> QED
      BY <2>1 DEF TaskRow, TaskStatus
  <2>3. CASE Admits(row, "completed", fence)
    BY <2>2, <2>3 DEF CompleteTask
  <2>4. CASE ~Admits(row, "completed", fence)
    BY <2>4 DEF CompleteTask
  <2> QED
    BY <2>3, <2>4
<1>4. SubmitForReview(row, fence, delivery) \in TaskRow
  BY NullTypes DEF SubmitForReview, TaskRow, TaskStatus, AgentOrNull
<1>5. ReworkTask(row, fence, owner, delivery) \in TaskRow
  <2>1. CASE Admits(row, "pending", fence)
    <3> DEFINE status == IF row.reworks + 1 >= MaxTaskAttempts THEN "failed" ELSE "pending"
               attempt == row.attempt + 1
               reworks == row.reworks + 1
               new == [row EXCEPT !.status = status, !.owner = owner,
                                  !.delivery = delivery, !.reviewer = NoAgent,
                                  !.failedReviewers = {}, !.attempt = attempt,
                                  !.reworks = reworks]
    <3>1. status \in TaskStatus /\ attempt \in Nat /\ reworks \in Nat
      BY NextNumbers DEF TaskStatus
    <3>2. ReworkTask(row, fence, owner, delivery) = new
      BY <2>1 DEF ReworkTask
    <3>3. new \in TaskRow
      <4> HIDE DEF status, attempt, reworks
      <4> QED
        BY <3>1, NullTypes DEF TaskRow
    <3> QED
      BY <3>2, <3>3
  <2>2. CASE ~Admits(row, "pending", fence)
    BY <2>2 DEF ReworkTask
  <2> QED
    BY <2>1, <2>2
<1>6. ReturnReview(row, fence, agent, exclude) \in TaskRow
  BY <1>1, NullTypes DEF ReturnReview, TaskRow, TaskStatus
<1> QED
  BY <1>2, <1>3, <1>4, <1>5, <1>6

(***************************************************************************)
(* What one step may do to the row of one task.  The theorems about rows   *)
(* are proved from these disjuncts, whichever actor wrote.                 *)
(***************************************************************************)

\* The transactions of a handler, with any arguments.
HandlerWrite(r, s) ==
  \/ \E fence \in SUBSET Nat, from \in SUBSET TaskStatus : s = FailTask(r, fence, from)
  \/ \E fence \in SUBSET Nat, owner \in AgentOrNull, delivery \in Delivery :
       \/ s = CompleteTask(r, fence, delivery, owner)
       \/ s = SubmitForReview(r, fence, delivery)
       \/ s = ReworkTask(r, fence, owner, delivery)
  \/ \E fence \in SUBSET Nat, agent \in AgentOrNull, exclude \in BOOLEAN :
       /\ exclude => agent \in Agent
       /\ \/ s = RequeueTask(r, fence, agent, exclude)
          \/ s = ReturnReview(r, fence, agent, exclude)
  \/ \E fence \in SUBSET Nat, agent \in Agent, delivery \in Delivery :
       s = RequeueTaskAfterReview(r, fence, agent, delivery)

\* The transactions of the coordinator and of a suspension.
BatchWrite(r, s) ==
  \/ s = CancelTask(r)
  \/ s = FailTask(r, AnyAttempt, {"pending"})
  \/ s = RequeueInterrupted(r)
  \/ \E job \in Nat : s = [RequeueInterrupted(r) EXCEPT !.job = job]
  \/ \E owner \in AgentOrNull : s = UnassignPending(r, owner)

\* A replan retires a row.
Retirement(r, s) == s = [CancelTask(r) EXCEPT !.superseded = TRUE]

\* A claim, of an execution or of a review.
ClaimWrite(r, s) ==
  \E agent \in Agent :
    \/ r.status \in {"pending", "approved"} /\ s = ClaimTask(r, agent)
    \/ r.status = "pending_review" /\ s = ClaimReviewTask(r, agent)

Insertion(r, s) ==
  /\ r.status = "absent"
  /\ \E owner \in AgentOrNull, job \in Nat : s = InsertTask(owner, job)

RowWrite(r, s) ==
  s = r \/ HandlerWrite(r, s) \/ BatchWrite(r, s) \/ Retirement(r, s)
InsertStep(r, s) == RowWrite(r, s) \/ Insertion(r, s)
RowStep(r, s) == InsertStep(r, s) \/ ClaimWrite(r, s)

Rewrites == \A t \in Task : RowWrite(tasks[t], tasks[t]')
Inserts == \A t \in Task : InsertStep(tasks[t], tasks[t]')
Rows == \A t \in Task : RowStep(tasks[t], tasks[t]')

LEMMA HandlerWriteTypes ==
  ASSUME NEW r \in TaskRow, NEW s, HandlerWrite(r, s)
  PROVE  s \in TaskRow
<1>1. ASSUME NEW fence, NEW from, s = FailTask(r, fence, from)
      PROVE  s \in TaskRow
  BY <1>1, FailTypes
<1>2. ASSUME NEW fence, NEW owner \in AgentOrNull, NEW delivery \in Delivery,
             \/ s = CompleteTask(r, fence, delivery, owner)
             \/ s = SubmitForReview(r, fence, delivery)
             \/ s = ReworkTask(r, fence, owner, delivery)
      PROVE  s \in TaskRow
  <2>1. /\ CompleteTask(r, fence, delivery, owner) \in TaskRow
        /\ SubmitForReview(r, fence, delivery) \in TaskRow
        /\ ReworkTask(r, fence, owner, delivery) \in TaskRow
    BY OutcomeTypes
  <2> QED
    BY <1>2, <2>1
<1>3. ASSUME NEW fence, NEW agent \in AgentOrNull, NEW exclude \in BOOLEAN,
             exclude => agent \in Agent,
             s = RequeueTask(r, fence, agent, exclude) \/ s = ReturnReview(r, fence, agent, exclude)
      PROVE  s \in TaskRow
  <2>1. /\ RequeueTask(r, fence, agent, exclude) \in TaskRow
        /\ ReturnReview(r, fence, agent, exclude) \in TaskRow
    BY <1>3, NullTypes, OutcomeTypes
  <2> QED
    BY <1>3, <2>1
<1>4. ASSUME NEW fence, NEW agent \in Agent, NEW delivery \in Delivery,
             s = RequeueTaskAfterReview(r, fence, agent, delivery)
      PROVE  s \in TaskRow
  BY <1>4, WriteTypes
<1> QED
  BY <1>1, <1>2, <1>3, <1>4 DEF HandlerWrite

\* Batches over the rows: each row is written by a batch write or left alone.
LEMMA BatchTypes ==
  ASSUME NEW row \in TaskRow, NEW s, BatchWrite(row, s) \/ Retirement(row, s)
  PROVE  s \in TaskRow
<1>1. ASSUME NEW r \in TaskRow
      PROVE  /\ [r EXCEPT !.superseded = TRUE] \in TaskRow
             /\ \A job \in Nat : [r EXCEPT !.job = job] \in TaskRow
  BY DEF TaskRow
<1>2. CancelTask(row) \in TaskRow /\ RequeueInterrupted(row) \in TaskRow
      /\ \A owner \in AgentOrNull : UnassignPending(row, owner) \in TaskRow
  BY PendingTypes, NullTypes
<1>3. FailTask(row, AnyAttempt, {"pending"}) \in TaskRow
  BY FailTypes
<1> QED
  BY <1>1, <1>2, <1>3 DEF BatchWrite, Retirement

(***************************************************************************)
(* What follows for a row from the table of transitions alone.             *)
(***************************************************************************)

LEMMA TransitionTable ==
  ASSUME NEW s
  PROVE  /\ CanTransition(s, "pending") => s \in {"in_progress", "reviewing"}
         /\ CanTransition(s, "pending_review") => s \in {"in_progress", "reviewing"}
         /\ CanTransition(s, "completed") => s \in {"in_progress", "reviewing"}
         /\ CanTransition(s, "failed") => s \in {"pending", "in_progress", "reviewing"}
         /\ CanTransition(s, "cancelled") =>
              s \in {"proposed", "approved", "pending", "in_progress", "pending_review",
                     "reviewing"}
<1>1. s \in TaskStatus => s \in
        { "pending", "proposed", "approved", "in_progress", "pending_review",
          "reviewing", "completed", "failed", "rejected", "cancelled" }
  BY DEF TaskStatus
<1>2. CASE s \in {"pending", "proposed", "approved", "rejected", "cancelled", "failed",
                  "completed"}
  BY <1>2 DEF CanTransition, ValidTransitions, TaskStatus
<1>3. CASE s \in {"in_progress", "pending_review", "reviewing"}
  BY <1>3 DEF CanTransition, ValidTransitions, TaskStatus
<1>4. CASE s \notin TaskStatus
  BY <1>4 DEF CanTransition
<1> QED
  BY <1>1, <1>2, <1>3, <1>4

SettledStatus == {"completed", "failed", "rejected", "cancelled"}

\* A write never reaches a settled row, a row that does not exist, nor the
\* number of rounds that failed the task.
LEMMA RowFacts ==
  ASSUME NEW r \in TaskRow, NEW s, RowWrite(r, s)
  PROVE  /\ (s.status = "absent") <=> (r.status = "absent")
         /\ r.status \in SettledStatus => s.status = r.status /\ s.delivery = r.delivery
                                    /\ s.attempt = r.attempt /\ s.reworks = r.reworks
         /\ r.superseded => s.superseded
         /\ s.status = "in_progress" => r.status = "in_progress"
         /\ s.reworks = r.reworks
            \/ /\ s.reworks = r.reworks + 1
               /\ r.status \in {"in_progress", "reviewing"}
               /\ s.reworks >= MaxTaskAttempts => s.status = "failed"
<1> USE TransitionTable DEF Admits, SettledStatus
<1>1. r.reworks \in Nat /\ MaxTaskAttempts \in Nat
  BY RepositoryAssumption DEF TaskRow
<1>2. CASE s = r
  BY <1>2 DEF TaskRow
<1>3. CASE HandlerWrite(r, s)
  <2>1. CASE \E fence \in SUBSET Nat, from \in SUBSET TaskStatus : s = FailTask(r, fence, from)
    BY <2>1 DEF FailTask, TaskRow
  <2>2. CASE \E fence \in SUBSET Nat, agent \in AgentOrNull, exclude \in BOOLEAN :
               s = RequeueTask(r, fence, agent, exclude)
    BY <2>2 DEF RequeueTask, TaskRow
  <2>3. CASE \E fence \in SUBSET Nat, delivery \in Delivery, owner \in AgentOrNull :
               s = CompleteTask(r, fence, delivery, owner)
    BY <2>3 DEF CompleteTask, TaskRow
  <2>4. CASE \E fence \in SUBSET Nat, delivery \in Delivery :
               s = SubmitForReview(r, fence, delivery)
    BY <2>4 DEF SubmitForReview, TaskRow
  <2>5. CASE \E fence \in SUBSET Nat, agent \in Agent, delivery \in Delivery :
               s = RequeueTaskAfterReview(r, fence, agent, delivery)
    BY <2>5 DEF RequeueTaskAfterReview, TaskRow
  <2>6. CASE \E fence \in SUBSET Nat, owner \in AgentOrNull, delivery \in Delivery :
               s = ReworkTask(r, fence, owner, delivery)
    BY <1>1, <2>6 DEF ReworkTask, TaskRow
  <2>7. CASE \E fence \in SUBSET Nat, agent \in AgentOrNull, exclude \in BOOLEAN :
               s = ReturnReview(r, fence, agent, exclude)
    BY <2>7 DEF ReturnReview, TaskRow
  <2> QED
    BY <1>3, <2>1, <2>2, <2>3, <2>4, <2>5, <2>6, <2>7 DEF HandlerWrite
<1>4. CASE BatchWrite(r, s) \/ Retirement(r, s)
  <2>1. CASE s = CancelTask(r) \/ Retirement(r, s)
    BY <2>1 DEF CancelTask, Retirement, TaskRow
  <2>2. CASE s = RequeueInterrupted(r)
             \/ \E job \in Nat : s = [RequeueInterrupted(r) EXCEPT !.job = job]
    <3>1. CASE r.status = "reviewing"
      BY <2>2, <3>1 DEF RequeueInterrupted, TaskRow
    <3>2. CASE r.status = "in_progress"
      BY <2>2, <3>2 DEF RequeueInterrupted, TaskRow
    <3>3. CASE r.status \notin {"in_progress", "reviewing"}
      BY <2>2, <3>3 DEF RequeueInterrupted, TaskRow
    <3> QED
      BY <3>1, <3>2, <3>3
  <2>3. CASE \E owner \in AgentOrNull : s = UnassignPending(r, owner)
    BY <2>3 DEF UnassignPending, TaskRow
  <2>4. CASE s = FailTask(r, AnyAttempt, {"pending"})
    BY <2>4 DEF FailTask, TaskRow
  <2> QED
    BY <1>4, <2>1, <2>2, <2>3, <2>4 DEF BatchWrite
<1> QED
  BY <1>2, <1>3, <1>4 DEF RowWrite

LEMMA ClaimFacts ==
  ASSUME NEW r \in TaskRow, NEW s, ClaimWrite(r, s)
  PROVE  /\ r.status \in {"pending", "approved", "pending_review"}
         /\ s.status \in {"in_progress", "reviewing"}
         /\ s.attempt = r.attempt /\ s.reworks = r.reworks /\ s.delivery = r.delivery
         /\ s.superseded = r.superseded /\ s.job = r.job
BY DEF ClaimWrite, ClaimTask, ClaimReviewTask, TaskRow

LEMMA InsertFacts ==
  ASSUME NEW r, NEW s, Insertion(r, s)
  PROVE  r.status = "absent" /\ s.status = "pending" /\ s.attempt = 0 /\ s.reworks = 0
BY DEF Insertion, InsertTask, AbsentTask

(***************************************************************************)
(* Plans.  A write of rows that exist adds nothing to a plan, and takes    *)
(* no acceptance back.                                                     *)
(***************************************************************************)

\* No task joins the plan of f, and what was accepted in it remains so.
PlanStands(f) ==
  \A t \in Task : t \in CurrentTasks(f)' =>
    /\ t \in CurrentTasks(f)
    /\ tasks[t].status = "completed" => tasks[t]'.status = "completed"

LEMMA RowsKeepPlans ==
  ASSUME tasks \in [Task -> TaskRow], NEW f \in Workflow,
         \A t \in Task : WorkflowOf[t] = f =>
           RowWrite(tasks[t], tasks[t]') \/ ClaimWrite(tasks[t], tasks[t]')
  PROVE  PlanStands(f)
<1> SUFFICES ASSUME NEW t \in Task, WorkflowOf[t] = f, tasks[t]'.status # "absent",
                    ~tasks[t]'.superseded
             PROVE  /\ tasks[t].status # "absent" /\ ~tasks[t].superseded
                    /\ tasks[t].status = "completed" => tasks[t]'.status = "completed"
  BY DEF PlanStands, CurrentTasks
<1>1. tasks[t] \in TaskRow
  OBVIOUS
<1>2. CASE RowWrite(tasks[t], tasks[t]')
  BY <1>1, <1>2, RowFacts DEF SettledStatus
<1>3. CASE ClaimWrite(tasks[t], tasks[t]')
  BY <1>1, <1>3, ClaimFacts
<1> QED
  BY <1>2, <1>3

(***************************************************************************)
(* Attempts.  What a step may do to a row, by the number of its attempt.   *)
(***************************************************************************)

\* A step stays in the attempt, and goes through its phases in order, or it
\* closes the attempt.
NextAttempt(r, s) ==
  /\ s.attempt = r.attempt + 1
  /\ r.status \in {"in_progress", "reviewing"} /\ s.status \in {"pending", "failed"}

SameAttempt(r, s) ==
  /\ s.attempt = r.attempt
  /\ \/ /\ s.status = r.status /\ s.delivery = r.delivery
        /\ r.status # "pending" => s.owner = r.owner
     \/ s.status \in {"failed", "cancelled"}
     \/ r.status = "pending" /\ s.status = "in_progress" /\ s.owner \in Agent
     \/ /\ r.status = "pending_review" /\ s.status = "reviewing"
        /\ s.owner = r.owner /\ s.delivery = r.delivery
     \/ /\ r.status \in {"in_progress", "reviewing"}
        /\ s.status \in {"pending_review", "completed"} /\ s.owner = r.owner

LEMMA AttemptFacts ==
  ASSUME NEW r \in TaskRow, NEW s, RowStep(r, s), r.status \notin {"absent", "approved"}
  PROVE  NextAttempt(r, s) \/ SameAttempt(r, s)
<1> USE TransitionTable DEF Admits, NextAttempt, SameAttempt
<1>1. r.reworks \in Nat /\ MaxTaskAttempts \in Nat /\ r.attempt \in Nat
  BY RepositoryAssumption DEF TaskRow
<1>2. CASE s = r
  BY <1>2 DEF TaskRow
<1>3. CASE HandlerWrite(r, s)
  <2>1. CASE \E fence \in SUBSET Nat, from \in SUBSET TaskStatus : s = FailTask(r, fence, from)
    BY <2>1 DEF FailTask, TaskRow
  <2>2. CASE \E fence \in SUBSET Nat, agent \in AgentOrNull, exclude \in BOOLEAN :
               s = RequeueTask(r, fence, agent, exclude)
    BY <2>2 DEF RequeueTask, TaskRow
  <2>3. CASE \E fence \in SUBSET Nat, delivery \in Delivery, owner \in AgentOrNull :
               s = CompleteTask(r, fence, delivery, owner)
    BY <2>3 DEF CompleteTask, TaskRow
  <2>4. CASE \E fence \in SUBSET Nat, delivery \in Delivery :
               s = SubmitForReview(r, fence, delivery)
    BY <2>4 DEF SubmitForReview, TaskRow
  <2>5. CASE \E fence \in SUBSET Nat, agent \in Agent, delivery \in Delivery :
               s = RequeueTaskAfterReview(r, fence, agent, delivery)
    BY <2>5 DEF RequeueTaskAfterReview, TaskRow
  <2>6. CASE \E fence \in SUBSET Nat, owner \in AgentOrNull, delivery \in Delivery :
               s = ReworkTask(r, fence, owner, delivery)
    BY <1>1, <2>6 DEF ReworkTask, TaskRow
  <2>7. CASE \E fence \in SUBSET Nat, agent \in AgentOrNull, exclude \in BOOLEAN :
               s = ReturnReview(r, fence, agent, exclude)
    BY <2>7 DEF ReturnReview, TaskRow
  <2> QED
    BY <1>3, <2>1, <2>2, <2>3, <2>4, <2>5, <2>6, <2>7 DEF HandlerWrite
<1>4. CASE BatchWrite(r, s) \/ Retirement(r, s)
  <2>1. CASE s = CancelTask(r) \/ Retirement(r, s)
    BY <2>1 DEF CancelTask, Retirement, TaskRow
  <2>2. CASE s = RequeueInterrupted(r)
             \/ \E job \in Nat : s = [RequeueInterrupted(r) EXCEPT !.job = job]
    <3>1. CASE r.status = "reviewing"
      BY <2>2, <3>1 DEF RequeueInterrupted, TaskRow
    <3>2. CASE r.status = "in_progress"
      BY <2>2, <3>2 DEF RequeueInterrupted, TaskRow
    <3>3. CASE r.status \notin {"in_progress", "reviewing"}
      BY <2>2, <3>3 DEF RequeueInterrupted, TaskRow
    <3> QED
      BY <3>1, <3>2, <3>3
  <2>3. CASE \E owner \in AgentOrNull : s = UnassignPending(r, owner)
    BY <2>3 DEF UnassignPending, TaskRow
  <2>4. CASE s = FailTask(r, AnyAttempt, {"pending"})
    BY <2>4 DEF FailTask, TaskRow
  <2> QED
    BY <1>4, <2>1, <2>2, <2>3, <2>4 DEF BatchWrite
<1>5. CASE ClaimWrite(r, s)
  BY <1>5 DEF ClaimWrite, ClaimTask, ClaimReviewTask, TaskRow
<1> QED
  BY <1>2, <1>3, <1>4, <1>5 DEF RowStep, InsertStep, RowWrite, Insertion

\* Only a claim starts a review, and a review has one reviewer.
LEMMA ReviewFacts ==
  ASSUME NEW r \in TaskRow, NEW s, RowWrite(r, s), s.status = "reviewing"
  PROVE  r.status = "reviewing" /\ s.reviewer = r.reviewer
<1>1. CASE HandlerWrite(r, s)
  BY <1>1
  DEF HandlerWrite, FailTask, RequeueTask, CompleteTask, SubmitForReview,
      RequeueTaskAfterReview, ReworkTask, ReturnReview, TaskRow
<1>2. CASE BatchWrite(r, s) \/ Retirement(r, s)
  <2>1. CASE s = CancelTask(r) \/ Retirement(r, s)
    BY <2>1 DEF CancelTask, Retirement, TaskRow
  <2>2. CASE s = RequeueInterrupted(r)
             \/ \E job \in Nat : s = [RequeueInterrupted(r) EXCEPT !.job = job]
    <3>1. CASE r.status = "reviewing"
      BY <2>2, <3>1 DEF RequeueInterrupted, TaskRow
    <3>2. CASE r.status = "in_progress"
      BY <2>2, <3>2 DEF RequeueInterrupted, TaskRow
    <3>3. CASE r.status \notin {"in_progress", "reviewing"}
      BY <2>2, <3>3 DEF RequeueInterrupted, TaskRow
    <3> QED
      BY <3>1, <3>2, <3>3
  <2>3. CASE \E owner \in AgentOrNull : s = UnassignPending(r, owner)
    BY <2>3 DEF UnassignPending, TaskRow
  <2>4. CASE s = FailTask(r, AnyAttempt, {"pending"})
    BY <2>4 DEF FailTask, TaskRow
  <2> QED
    BY <1>2, <2>1, <2>2, <2>3, <2>4 DEF BatchWrite
<1> QED
  BY <1>1, <1>2 DEF RowWrite

\* No batch starts, delivers or accepts anything: what is in progress, under
\* review or completed after it was so before, except that an interrupted
\* review waits again.
LEMMA BatchFacts ==
  ASSUME NEW r \in TaskRow, NEW s, BatchWrite(r, s)
  PROVE  /\ s.status \in {"in_progress", "pending_review", "reviewing", "completed"} =>
              /\ s.attempt = r.attempt /\ s.owner = r.owner /\ s.delivery = r.delivery
              /\ \/ s.status = r.status
                 \/ s.status = "pending_review" /\ r.status = "reviewing"
         /\ s.superseded = r.superseded
         /\ s.status = "absent" => r.status = "absent"
<1> USE TransitionTable DEF Admits
<1>1. CASE s = CancelTask(r)
  BY <1>1 DEF CancelTask, TaskRow
<1>2. CASE s = RequeueInterrupted(r)
           \/ \E job \in Nat : s = [RequeueInterrupted(r) EXCEPT !.job = job]
  <2>1. CASE r.status = "reviewing"
    BY <1>2, <2>1 DEF RequeueInterrupted, TaskRow
  <2>2. CASE r.status = "in_progress"
    BY <1>2, <2>2 DEF RequeueInterrupted, TaskRow
  <2>3. CASE r.status \notin {"in_progress", "reviewing"}
    BY <1>2, <2>3 DEF RequeueInterrupted, TaskRow
  <2> QED
    BY <2>1, <2>2, <2>3
<1>3. CASE \E owner \in AgentOrNull : s = UnassignPending(r, owner)
  BY <1>3 DEF UnassignPending, TaskRow
<1>4. CASE s = FailTask(r, AnyAttempt, {"pending"})
  BY <1>4 DEF FailTask, TaskRow
<1> QED
  BY <1>1, <1>2, <1>3, <1>4 DEF BatchWrite

\* A replan settles the rows it retires.
LEMMA RetirementFacts ==
  ASSUME NEW r \in TaskRow, NEW s, Retirement(r, s), r.status # "absent"
  PROVE  /\ s.superseded /\ s.status \in SettledStatus /\ s.job = r.job
         /\ s.status # r.status => s.status = "cancelled"
BY
DEF Retirement, CancelTask, CanTransition, ValidTransitions, TaskStatus,
    SettledStatus, TaskRow

\* A handler changes nothing in the plan: neither the job of a row nor whether
\* a replan superseded it.
LEMMA HandlerFacts ==
  ASSUME NEW r \in TaskRow, NEW s, HandlerWrite(r, s)
  PROVE  s.job = r.job /\ s.superseded = r.superseded
BY DEF HandlerWrite, FailTask, RequeueTask, CompleteTask, SubmitForReview,
       RequeueTaskAfterReview, ReworkTask, ReturnReview, TaskRow

\* Whether a row is in the plan of a workflow, and in which job.
SamePlan(r, s) ==
  /\ s.job = r.job /\ s.superseded = r.superseded
  /\ (s.status = "absent") <=> (r.status = "absent")

\* A row keeps its plan and its job unless it is adopted or replanned.
LEMMA SamePlanFacts ==
  ASSUME NEW r \in TaskRow, NEW s,
         \/ HandlerWrite(r, s) \/ s = CancelTask(r) \/ s = RequeueInterrupted(r)
         \/ s = FailTask(r, AnyAttempt, {"pending"})
         \/ \E owner \in AgentOrNull : s = UnassignPending(r, owner)
  PROVE  SamePlan(r, s)
<1>1. (s.status = "absent") <=> (r.status = "absent")
  BY RowFacts DEF RowWrite, BatchWrite
<1>2. s.job = r.job /\ s.superseded = r.superseded
  <2>1. CASE HandlerWrite(r, s)
    BY <2>1, HandlerFacts
  <2>2. CASE s = RequeueInterrupted(r)
    <3>1. CASE r.status = "reviewing"
      BY <2>2, <3>1 DEF RequeueInterrupted, TaskRow
    <3>2. CASE r.status = "in_progress"
      BY <2>2, <3>2 DEF RequeueInterrupted, TaskRow
    <3>3. CASE r.status \notin {"in_progress", "reviewing"}
      BY <2>2, <3>3 DEF RequeueInterrupted, TaskRow
    <3> QED
      BY <3>1, <3>2, <3>3
  <2>3. CASE \/ s = CancelTask(r) \/ s = FailTask(r, AnyAttempt, {"pending"})
             \/ \E owner \in AgentOrNull : s = UnassignPending(r, owner)
    BY <2>3 DEF CancelTask, FailTask, UnassignPending, TaskRow
  <2> QED
    BY <2>1, <2>2, <2>3
<1> QED
  BY <1>1, <1>2 DEF SamePlan

\* Nothing but an insertion fills an absent row.
LEMMA AbsentFacts ==
  ASSUME NEW r \in TaskRow, NEW s, RowWrite(r, s), r.status = "absent"
  PROVE  s.status = "absent" /\ s.attempt = r.attempt
<1>1. s.status = "absent"
  BY RowFacts
<1>2. CASE HandlerWrite(r, s)
  BY <1>2, TransitionTable
  DEF HandlerWrite, FailTask, RequeueTask, CompleteTask, SubmitForReview,
      RequeueTaskAfterReview, ReworkTask, ReturnReview, Admits
<1>3. CASE BatchWrite(r, s) \/ Retirement(r, s)
  BY <1>3, TransitionTable
  DEF BatchWrite, Retirement, CancelTask, FailTask, RequeueInterrupted, UnassignPending,
      Admits, TaskRow
<1> QED
  BY <1>1, <1>2, <1>3 DEF RowWrite

=============================================================================
