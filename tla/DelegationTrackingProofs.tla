---------------------- MODULE DelegationTrackingProofs ----------------------
(***************************************************************************)
(* Theorems about DelegationTracking, for every number of steps, targets   *)
(* and callers.                                                            *)
(*                                                                         *)
(* None of the three properties is inductive: each speaks of the row that  *)
(* the last transactions write.  CancelInv says what the lock of the entry *)
(* has settled before, and StepsInv what the loops over the steps know of  *)
(* those they went past.                                                   *)
(***************************************************************************)
EXTENDS DelegationTracking, TLAPS

Closing == {"leave", "mark", "persist", "job", "report", "over"}
Settled == {"persist", "job", "report", "over"}
Collecting == {"spawning", "joining", "expired", "cutting", "gather"}

\* What callers were told agrees with the entry, and the entry, once
\* finalized, with the outcome.
CancelInv ==
  /\ cancelled <=> \E d \in Caller : caller[d] = "cancelled"
  /\ \A c \in Caller : /\ caller[c] = "already_cancelling" => cancelled
                       /\ caller[c] = "finalized" => finalized
  /\ finalized => pc \in Settled /\ (cancelled <=> outcome = "cancelled")
  /\ ~finalized => outcome # "cancelled"
  /\ fault # "thread" /\ pc \in Settled => finalized

\* The row, the job and the report are written in this order, from the outcome.
RowInv ==
  /\ outcome # "none" => pc \in Closing
  /\ pc \in Closing /\ fault # "thread" => outcome # "none"
  /\ row \in Outcomes => row = outcome /\ pc \in {"job", "report", "over"}
  /\ pc = "job" => row = outcome
  /\ pc \in {"report", "over"} /\ fault = "none" => row = outcome /\ job = outcome
  /\ pc = "over" /\ fault = "none" /\ call.wait => report = outcome

Whole == timedOut = {} /\ \A i \in Steps : step[i].result = "ok" /\ step[i].at = "done"

\* Collected(i): the loop that joins is past step i.
Collected(i) == i \in timedOut \/ step[i].at = "done"

StepsInv ==
  /\ pc \in Collecting \/ timedOut # {} => call.parallel
  /\ pc = "waiting" => ~call.parallel
  /\ \A i \in Steps : i \in timedOut => results[i] = "timeout"
  /\ call.parallel => \A i \in Steps \ timedOut : step[i].at = "done" =>
       results[i] = IF step[i].result = "ok" THEN "ok" ELSE "error"
  /\ pc \in {"steps", "waiting"} /\ ~call.parallel =>
       \A i \in Steps : i < next => step[i].result = "ok" /\ step[i].at = "done"
  /\ pc \in {"start", "spawn"} => next = 1
  /\ pc \in {"joining", "expired", "cutting"} => \A i \in Steps : i < next => Collected(i)
  /\ pc = "cutting" => next \in timedOut
  /\ pc = "gather" => \A i \in Steps : Collected(i)
  /\ outcome = "completed" => Whole

IndInv == DelegationTypeOK /\ CancelInv /\ RowInv /\ StepsInv

(***************************************************************************)
(* Types.                                                                  *)
(***************************************************************************)

\* The indices of the steps.
LEMMA Numbers ==
  /\ N \in Nat /\ N >= 1 /\ 1 \in Steps
  /\ Steps \subseteq Nat
  /\ \A i \in Steps : i >= 1 /\ i <= N /\ (i # N => i + 1 \in Steps)
BY DelegationAssumption DEF Steps

\* The arguments of the call.
LEMMA CallTypes ==
  ASSUME DelegationTypeOK
  PROVE  /\ call.wait \in BOOLEAN /\ call.parallel \in BOOLEAN
         /\ call.targets \in Nat /\ call.targets >= 1
BY DelegationAssumption DEF DelegationTypeOK

\* A step that begins.
LEMMA BegunTypes ==
  ASSUME DelegationTypeOK, NEW i \in Steps
  PROVE  Begun(i) \in [Steps -> Step]
BY DEF DelegationTypeOK, Begun, Step, StepPc

\* A handle that is cancelled leaves its step where it was.
LEMMA HandleTypes ==
  ASSUME NEW s \in Step
  PROVE  /\ HandleCancelled(s) \in Step
         /\ HandleCancelled(s).at = s.at /\ HandleCancelled(s).result = s.result
<1>1. CASE s.handle
  BY <1>1 DEF HandleCancelled
<1>2. CASE ~s.handle
  <2> DEFINE cut == s.cut \/ s.at \in {"dispatched", "starting", "running"}
  <2>1. cut \in BOOLEAN
    BY DEF Step
  <2>2. [s EXCEPT !.handle = TRUE, !.cut = cut] \in Step
        /\ [s EXCEPT !.handle = TRUE, !.cut = cut].at = s.at
        /\ [s EXCEPT !.handle = TRUE, !.cut = cut].result = s.result
    <3> HIDE DEF cut
    <3> QED
      BY <2>1 DEF Step
  <2> QED
    BY <1>2, <2>2 DEF HandleCancelled
<1> QED
  BY <1>1, <1>2 DEF Step

\* What the thread of step i does to the execution of the step.
LEMMA ThreadSteps ==
  ASSUME DelegationTypeOK, NEW i \in Steps, StepThread(i) \/ AgentEnds(i)
  PROVE  /\ \E s \in Step :
              /\ step' = [step EXCEPT ![i] = s]
              /\ step[i].at # "done"
              /\ \/ s.at # "done" /\ UNCHANGED results
                 \/ s.at = "done" /\ s.result = step[i].result /\ results' = Stored(i)
         /\ UNCHANGED <<call, pc, next, rows, entry, caller, request, time, watching, fault>>
         /\ lost' \subseteq Steps
<1>1. step[i] \in Step
  BY DEF DelegationTypeOK
<1>2. UNCHANGED <<call, pc, next, rows, entry, caller, request, time, watching, fault>>
      /\ lost' \subseteq Steps
  BY DEF StepThread, AskTarget, RegisterClient, StartRun, ClearEvent, AgentCut,
         DispatchReturns, StoreResult, AgentEnds, OnlyStep, DelegationTypeOK
<1>3. ASSUME NEW s \in Step, Set(i, s), s.at # "done", step[i].at # "done", UNCHANGED results
      PROVE  \E r \in Step :
               /\ step' = [step EXCEPT ![i] = r]
               /\ step[i].at # "done"
               /\ \/ r.at # "done" /\ UNCHANGED results
                  \/ r.at = "done" /\ r.result = step[i].result /\ results' = Stored(i)
  BY <1>3 DEF Set
<1>4. CASE AskTarget(i)
  <2>1. [step[i] EXCEPT !.at = "store", !.result = "cancelled"] \in Step
        /\ [step[i] EXCEPT !.at = "store", !.result = "cancelled"].at = "store"
        /\ [step[i] EXCEPT !.at = "register"] \in Step
        /\ [step[i] EXCEPT !.at = "register"].at = "register"
    BY <1>1 DEF Step, StepPc
  <2> QED
    BY <1>2, <1>3, <1>4, <2>1 DEF AskTarget, OnlyStep
<1>5. CASE RegisterClient(i)
  <2> DEFINE cut == step[i].handle
  <2>1. cut \in BOOLEAN
    BY <1>1 DEF Step
  <2>2. [step[i] EXCEPT !.at = "dispatched", !.cut = cut] \in Step
        /\ [step[i] EXCEPT !.at = "dispatched", !.cut = cut].at = "dispatched"
    <3> HIDE DEF cut
    <3> QED
      BY <1>1, <2>1 DEF Step, StepPc
  <2> QED
    BY <1>2, <1>3, <1>5, <2>2 DEF RegisterClient, CutAtOnce, OnlyStep
<1>6. CASE StartRun(i)
  <2>1. [step[i] EXCEPT !.at = "returned", !.result = "cancelled"] \in Step
        /\ [step[i] EXCEPT !.at = "returned", !.result = "cancelled"].at = "returned"
        /\ [step[i] EXCEPT !.at = "starting"] \in Step
        /\ [step[i] EXCEPT !.at = "starting"].at = "starting"
    BY <1>1 DEF Step, StepPc
  <2> QED
    BY <1>2, <1>3, <1>6, <2>1 DEF StartRun, OnlyStep
<1>7. CASE ClearEvent(i)
  <2>1. [step[i] EXCEPT !.at = "running", !.cut = FALSE] \in Step
        /\ [step[i] EXCEPT !.at = "running", !.cut = FALSE].at = "running"
    BY <1>1 DEF Step, StepPc
  <2> QED
    BY <1>2, <1>3, <1>7, <2>1 DEF ClearEvent, OnlyStep
<1>8. CASE AgentCut(i) \/ AgentEnds(i)
  <2>1. \A r \in {"ok", "error", "cancelled"} :
          /\ [step[i] EXCEPT !.at = "returned", !.result = r] \in Step
          /\ [step[i] EXCEPT !.at = "returned", !.result = r].at = "returned"
    BY <1>1 DEF Step, StepPc
  <2> QED
    BY <1>2, <1>3, <1>8, <2>1 DEF AgentCut, AgentEnds, OnlyStep
<1>9. CASE DispatchReturns(i)
  <2>1. AfterDispatch(step[i]) \in Step /\ AfterDispatch(step[i]).at # "done"
    <3> DEFINE s == step[i]
    <3>1. [s EXCEPT !.at = "store"] \in Step /\ [s EXCEPT !.at = "store"].at = "store"
      BY <1>1 DEF Step, StepPc
    <3>2. [s EXCEPT !.at = "store", !.result = "cancelled"] \in Step
          /\ [s EXCEPT !.at = "store", !.result = "cancelled"].at = "store"
      BY <1>1 DEF Step, StepPc
    <3>3. CASE s.target < call.targets
      <4> DEFINE target == s.target + 1
      <4>1. target \in 1..call.targets
        BY <1>1, <3>3, CallTypes DEF Step
      <4>2. [s EXCEPT !.at = "ask", !.target = target] \in Step
            /\ [s EXCEPT !.at = "ask", !.target = target].at = "ask"
        <5> HIDE DEF target
        <5> QED
          BY <1>1, <4>1 DEF Step, StepPc
      <4> QED
        BY <3>1, <3>2, <4>2 DEF AfterDispatch
    <3>4. CASE ~(s.target < call.targets)
      BY <3>1, <3>2, <3>4 DEF AfterDispatch
    <3> QED
      BY <3>3, <3>4
  <2> QED
    BY <1>2, <1>3, <1>9, <2>1 DEF DispatchReturns, OnlyStep
<1>10. CASE StoreResult(i)
  <2>1. [step[i] EXCEPT !.at = "done"] \in Step
        /\ [step[i] EXCEPT !.at = "done"].at = "done"
        /\ [step[i] EXCEPT !.at = "done"].result = step[i].result
    BY <1>1 DEF Step, StepPc
  <2>2. step' = [step EXCEPT ![i] = [step[i] EXCEPT !.at = "done"]]
        /\ step[i].at # "done" /\ results' = Stored(i)
    BY <1>10 DEF StoreResult, Set
  <2> QED
    BY <1>2, <2>1, <2>2
<1> QED
  BY <1>2, <1>4, <1>5, <1>6, <1>7, <1>8, <1>9, <1>10 DEF StepThread

\* A step cut by its watcher or by the deadline stays where it was.
LEMMA CutSteps ==
  ASSUME DelegationTypeOK, WatcherCuts \/ CutTimedOut
  PROVE  /\ step' \in [Steps -> Step]
         /\ \A i \in Steps : step'[i].at = step[i].at /\ step'[i].result = step[i].result
<1>1. \A i \in Steps : step'[i] = step[i] \/ step'[i] = HandleCancelled(step[i])
  BY DEF WatcherCuts, CutTimedOut, DelegationTypeOK
<1>2. DOMAIN step' = Steps /\ step' = [i \in Steps |-> step'[i]]
  BY DEF WatcherCuts, CutTimedOut, DelegationTypeOK
<1>3. \A i \in Steps : step[i] \in Step
  BY DEF DelegationTypeOK
<1> QED
  BY <1>1, <1>2, <1>3, HandleTypes

\* The arguments of the call stay, and with them the type of its steps.
LEMMA StepTyped ==
  ASSUME UNCHANGED call, step' \in [Steps -> Step]
  PROVE  (step \in [Steps -> Step])' /\ (call \in Calls => call' \in Calls)
BY DEF Step

\* Every step of every thread keeps the types.
LEMMA TypeStep ==
  ASSUME DelegationTypeOK, [Next]_vars
  PROVE  DelegationTypeOK'
<1> USE DEF rows, entry, time, Outcomes
<1>0. UNCHANGED call
  BY ThreadSteps
  DEF Next, MainStep, HostFails, StartTracking, SpawnThread, SequentialStep,
      SequentialDone, ParallelSteps, StartStep, JoinStep, SeesAlive, TimesOut, CutTimedOut,
      Gather, Leave, MarkFinalized, PersistRow, PersistJob, Report, SpawnFails,
      StartStepFails, WriteFails, PoolRefuses, WatcherCuts, CancelRequest, FindDelegation,
      RequestCancel, vars
<1>a. ASSUME step' \in [Steps -> Step]
      PROVE  (step \in [Steps -> Step])' /\ call' \in Calls
  BY <1>0, <1>a, StepTyped DEF DelegationTypeOK
<1>b. UNCHANGED step => (step \in [Steps -> Step])' /\ call' \in Calls
  BY <1>a DEF DelegationTypeOK
<1>20. CASE StartTracking
  BY <1>20, <1>b DEF StartTracking, DelegationTypeOK
<1>21. CASE SpawnThread
  BY <1>21, <1>b DEF SpawnThread, DelegationTypeOK
<1>22. CASE SpawnFails
  BY <1>22, <1>b DEF SpawnFails, DelegationTypeOK
<1>23. CASE PoolRefuses
  BY <1>23, <1>b DEF PoolRefuses, Ends, DelegationTypeOK
<1>24. CASE ParallelSteps
  BY <1>24, <1>b DEF ParallelSteps, DelegationTypeOK
<1>25. CASE StartStepFails
  <2>1. registered' \in BOOLEAN /\ fault' \in {"none", "thread", "write"} /\ watching' \subseteq Steps
    BY <1>25 DEF StartStepFails
  <2> QED
    BY <1>25, <1>b, <2>1 DEF StartStepFails, DelegationTypeOK
<1>26. CASE SeesAlive
  BY <1>26, <1>b DEF SeesAlive, DelegationTypeOK
<1>27. CASE Gather
  BY <1>27, <1>b DEF Gather, Ends, DelegationTypeOK
<1>28. CASE SequentialDone
  BY <1>28, <1>b, Numbers DEF SequentialDone, Ends, DelegationTypeOK
<1>29. CASE JoinStep
  BY <1>29, <1>b, Numbers DEF JoinStep, JoinsNext, DelegationTypeOK
<1>30. CASE Leave
  BY <1>30, <1>b DEF Leave, DelegationTypeOK
<1>31. CASE MarkFinalized
  BY <1>31, <1>b DEF MarkFinalized, DelegationTypeOK
<1>32. CASE PersistRow
  BY <1>32, <1>b DEF PersistRow, DelegationTypeOK
<1>33. CASE PersistJob
  BY <1>33, <1>b DEF PersistJob, DelegationTypeOK
<1>34. CASE WriteFails
  BY <1>34, <1>b DEF WriteFails, DelegationTypeOK
<1>35. CASE Report
  <2>1. registered' \in BOOLEAN
    BY <1>35 DEF Report
  <2>2. report' \in {"none"} \cup Outcomes
    BY <1>35 DEF Report, TaskStatus, DelegationTypeOK
  <2> QED
    BY <1>35, <1>b, <2>1, <2>2 DEF Report, DelegationTypeOK
<1>4. CASE SequentialStep
  <2>1. step' \in [Steps -> Step] /\ watching' \subseteq Steps
    BY <1>4, BegunTypes DEF SequentialStep, DelegationTypeOK
  <2> QED
    BY <1>4, <1>a, <2>1 DEF SequentialStep, Ends, DelegationTypeOK
<1>5. CASE StartStep
  <2>1. step' \in [Steps -> Step]
    BY <1>5, BegunTypes DEF StartStep, DelegationTypeOK
  <2> QED
    BY <1>5, <1>a, <2>1, Numbers DEF StartStep, DelegationTypeOK
<1>6. CASE TimesOut
  BY <1>6, <1>b DEF TimesOut, DelegationTypeOK
<1>7. CASE WatcherCuts
  BY <1>7, <1>a, CutSteps DEF WatcherCuts, DelegationTypeOK
<1>8. CASE CutTimedOut
  BY <1>8, <1>a, CutSteps, Numbers DEF CutTimedOut, JoinsNext, DelegationTypeOK
<1>9. ASSUME NEW i \in Steps, StepThread(i) \/ AgentEnds(i)
      PROVE  DelegationTypeOK'
  <2>1. PICK s \in Step :
          /\ step' = [step EXCEPT ![i] = s]
          /\ results' = results \/ results' = Stored(i)
    BY <1>9, ThreadSteps
  <2>2. UNCHANGED <<pc, next, rows, entry, caller, request, time, watching, fault>>
        /\ lost' \subseteq Steps
    BY <1>9, ThreadSteps
  <2>3. results' \in [Steps -> {"none", "ok", "error", "timeout"}]
    BY <2>1 DEF Stored, DelegationTypeOK
  <2>4. step' \in [Steps -> Step]
    BY <2>1 DEF DelegationTypeOK
  <2> QED
    BY <1>a, <2>2, <2>3, <2>4 DEF DelegationTypeOK
<1>10. CASE CancelRequest
  BY <1>10, <1>b DEF CancelRequest, DelegationTypeOK
<1>11. ASSUME NEW c \in Caller, FindDelegation(c) \/ RequestCancel(c)
       PROVE  DelegationTypeOK'
  <2>1. CancelReply \in {"idle", "found", "unknown", "cancelled", "already_cancelling", "finalized"}
    BY DEF CancelReply
  <2>2. (caller \in [Caller -> {"idle", "found", "unknown", "cancelled", "already_cancelling",
                               "finalized"}])'
    BY <1>11, <2>1 DEF FindDelegation, RequestCancel, DelegationTypeOK
  <2>3. cancelled' \in BOOLEAN
    <3>1. CASE UNCHANGED cancelled
      BY <3>1 DEF DelegationTypeOK
    <3>2. CASE cancelled' = (cancelled \/ CancelReply = "cancelled")
      BY <3>2
    <3> QED
      BY <1>11, <3>1, <3>2 DEF FindDelegation, RequestCancel
  <2> QED
    BY <1>11, <1>b, <2>2, <2>3 DEF FindDelegation, RequestCancel, DelegationTypeOK
<1>12. CASE UNCHANGED vars
  BY <1>12, <1>b DEF vars, DelegationTypeOK
<1> QED
  BY <1>20, <1>21, <1>22, <1>23, <1>24, <1>25, <1>26, <1>27, <1>28, <1>29, <1>30,
     <1>31, <1>32, <1>33, <1>34, <1>35, <1>4, <1>5, <1>6, <1>7, <1>8, <1>9, <1>10,
     <1>11, <1>12
  DEF Next, MainStep, HostFails

(***************************************************************************)
(* The entry: what the callers were told, and the outcome.                 *)
(***************************************************************************)

\* Every step keeps what the lock of the entry settles: only tasks_cancel and
\* mark_finalized touch it.
LEMMA CancelStep ==
  ASSUME IndInv, [Next]_vars
  PROVE  CancelInv'
<1> USE DEF rows, entry, time, Outcomes, IndInv
<1>1. CASE StartTracking
  BY <1>1 DEF StartTracking, CancelInv, Settled
<1>2. CASE SpawnThread
  BY <1>2 DEF SpawnThread, CancelInv, Settled
<1>3. CASE SpawnFails
  BY <1>3 DEF SpawnFails, CancelInv, Settled
<1>4. CASE PoolRefuses
  BY <1>4 DEF PoolRefuses, Ends, CancelInv, Settled
<1>5. CASE SequentialStep
  BY <1>5 DEF SequentialStep, Ends, CancelInv, Settled
<1>6. CASE SequentialDone
  BY <1>6 DEF SequentialDone, Ends, CancelInv, Settled
<1>7. CASE ParallelSteps
  BY <1>7 DEF ParallelSteps, CancelInv, Settled
<1>8. CASE StartStep
  BY <1>8 DEF StartStep, CancelInv, Settled
<1>9. CASE StartStepFails
  BY <1>9 DEF StartStepFails, CancelInv, Settled
<1>10. CASE JoinStep
  BY <1>10 DEF JoinStep, JoinsNext, CancelInv, Settled
<1>11. CASE SeesAlive
  BY <1>11 DEF SeesAlive, CancelInv, Settled
<1>12. CASE TimesOut
  BY <1>12 DEF TimesOut, CancelInv, Settled
<1>13. CASE CutTimedOut
  BY <1>13 DEF CutTimedOut, JoinsNext, CancelInv, Settled
<1>14. CASE Gather
  BY <1>14 DEF Gather, Ends, CancelInv, Settled
<1>15. CASE Leave
  BY <1>15 DEF Leave, CancelInv, Settled
<1>16. CASE MarkFinalized
  BY <1>16 DEF MarkFinalized, CancelInv, Settled
<1>17. CASE PersistRow
  BY <1>17 DEF PersistRow, CancelInv, Settled
<1>18. CASE PersistJob
  BY <1>18 DEF PersistJob, CancelInv, Settled
<1>19. CASE WriteFails
  BY <1>19 DEF WriteFails, CancelInv, Settled
<1>20. CASE Report
  BY <1>20 DEF Report, TaskStatus, CancelInv, Settled
<1>21. CASE WatcherCuts
  BY <1>21 DEF WatcherCuts, CancelInv, Settled
<1>22. CASE CancelRequest
  BY <1>22 DEF CancelRequest, CancelInv, Settled
<1>23. CASE UNCHANGED vars
  BY <1>23 DEF vars, CancelInv, Settled
<1>24. ASSUME NEW i \in Steps, StepThread(i) \/ AgentEnds(i)
       PROVE  CancelInv'
  BY <1>24, ThreadSteps DEF CancelInv, Settled
<1>25. ASSUME NEW c \in Caller, FindDelegation(c) \/ RequestCancel(c)
       PROVE  CancelInv'
  <2>1. CASE FindDelegation(c)
    <3>1. \A d \in Caller : caller'[d] # caller[d] =>
            caller[d] = "idle" /\ caller'[d] \in {"found", "unknown"}
      BY <2>1 DEF FindDelegation, DelegationTypeOK
    <3>2. \A d \in Caller : caller'[d] = "cancelled" <=> caller[d] = "cancelled"
      BY <3>1
    <3> QED
      BY <2>1, <3>1, <3>2 DEF FindDelegation, CancelInv, Settled
  <2>2. CASE RequestCancel(c)
    <3>1. /\ caller'[c] = CancelReply /\ caller[c] = "found"
          /\ \A d \in Caller : d # c => caller'[d] = caller[d]
      BY <2>2 DEF RequestCancel, DelegationTypeOK
    <3>2. UNCHANGED <<pc, fault, finalized, outcome>>
      BY <2>2 DEF RequestCancel
    <3>3. CASE finalized \/ cancelled
      <4>1. /\ CancelReply \in {"finalized", "already_cancelling"}
            /\ CancelReply = "finalized" => finalized
            /\ CancelReply = "already_cancelling" => cancelled
        <5>1. CASE finalized
          BY <5>1 DEF CancelReply
        <5>2. CASE ~finalized
          BY <3>3, <5>2 DEF CancelReply
        <5> QED
          BY <5>1, <5>2
      <4>2. cancelled' <=> cancelled
        BY <2>2, <4>1 DEF RequestCancel
      <4>3. \A d \in Caller : caller'[d] = "cancelled" <=> caller[d] = "cancelled"
        BY <3>1, <4>1
      <4> QED
        BY <3>1, <3>2, <4>1, <4>2, <4>3 DEF CancelInv
    <3>4. CASE ~(finalized \/ cancelled)
      <4>1. CancelReply = "cancelled" /\ cancelled'
        BY <2>2, <3>4 DEF RequestCancel, CancelReply
      <4> QED
        BY <3>1, <3>2, <3>4, <4>1 DEF CancelInv
    <3> QED
      BY <3>3, <3>4
  <2> QED
    BY <1>25, <2>1, <2>2
<1> QED
  BY <1>1, <1>2, <1>3, <1>4, <1>5, <1>6, <1>7, <1>8, <1>9, <1>10, <1>11, <1>12, <1>13,
     <1>14, <1>15, <1>16, <1>17, <1>18, <1>19, <1>20, <1>21, <1>22, <1>23, <1>24,
     <1>25
  DEF Next, MainStep, HostFails

(***************************************************************************)
(* The rows: the task, its job, and the answer.                            *)
(***************************************************************************)

\* Every step keeps the order in which they are written.
LEMMA RowStep ==
  ASSUME IndInv, [Next]_vars
  PROVE  RowInv'
<1> USE DEF rows, entry, time, Outcomes, IndInv
<1>1. CASE StartTracking
  BY <1>1 DEF StartTracking, RowInv, Closing
<1>2. CASE SpawnThread
  BY <1>2 DEF SpawnThread, RowInv, Closing
<1>3. CASE SpawnFails
  BY <1>3 DEF SpawnFails, RowInv, Closing
<1>4. CASE PoolRefuses
  BY <1>4 DEF PoolRefuses, Ends, RowInv, Closing
<1>5. CASE SequentialStep
  BY <1>5 DEF SequentialStep, Ends, RowInv, Closing
<1>6. CASE SequentialDone
  BY <1>6 DEF SequentialDone, Ends, RowInv, Closing
<1>7. CASE ParallelSteps
  BY <1>7 DEF ParallelSteps, RowInv, Closing
<1>8. CASE StartStep
  BY <1>8 DEF StartStep, RowInv, Closing
<1>9. CASE StartStepFails
  BY <1>9 DEF StartStepFails, RowInv, Closing
<1>10. CASE JoinStep
  BY <1>10 DEF JoinStep, JoinsNext, RowInv, Closing
<1>11. CASE SeesAlive
  BY <1>11 DEF SeesAlive, RowInv, Closing
<1>12. CASE TimesOut
  BY <1>12 DEF TimesOut, RowInv, Closing
<1>13. CASE CutTimedOut
  BY <1>13 DEF CutTimedOut, JoinsNext, RowInv, Closing
<1>14. CASE Gather
  BY <1>14 DEF Gather, Ends, RowInv, Closing
<1>15. CASE Leave
  BY <1>15 DEF Leave, RowInv, Closing
<1>16. CASE MarkFinalized
  BY <1>16 DEF MarkFinalized, RowInv, Closing
<1>17. CASE PersistRow
  BY <1>17 DEF PersistRow, RowInv, Closing
<1>18. CASE PersistJob
  BY <1>18 DEF PersistJob, RowInv, Closing
<1>19. CASE WriteFails
  BY <1>19 DEF WriteFails, RowInv, Closing
<1>20. CASE Report
  <2>1. fault = "none" => TaskStatus = outcome
    BY <1>20 DEF Report, TaskStatus, CancelInv, Settled, DelegationTypeOK
  <2> QED
    BY <1>20, <2>1 DEF Report, RowInv, Closing
<1>21. CASE WatcherCuts
  BY <1>21 DEF WatcherCuts, RowInv, Closing
<1>22. CASE CancelRequest
  BY <1>22 DEF CancelRequest, RowInv, Closing
<1>23. CASE UNCHANGED vars
  BY <1>23 DEF vars, RowInv, Closing
<1>24. ASSUME NEW i \in Steps, StepThread(i) \/ AgentEnds(i)
       PROVE  RowInv'
  BY <1>24, ThreadSteps DEF RowInv, Closing
<1>25. ASSUME NEW c \in Caller, FindDelegation(c) \/ RequestCancel(c)
       PROVE  RowInv'
  BY <1>25 DEF FindDelegation, RequestCancel, RowInv, Closing
<1> QED
  BY <1>1, <1>2, <1>3, <1>4, <1>5, <1>6, <1>7, <1>8, <1>9, <1>10, <1>11, <1>12, <1>13,
     <1>14, <1>15, <1>16, <1>17, <1>18, <1>19, <1>20, <1>21, <1>22, <1>23, <1>24,
     <1>25
  DEF Next, MainStep, HostFails

(***************************************************************************)
(* The steps: what the loops went past.                                    *)
(***************************************************************************)

\* Every step keeps what the loops over the steps know.
LEMMA StepsStep ==
  ASSUME IndInv, [Next]_vars
  PROVE  StepsInv'
<1> USE DEF rows, entry, time, Outcomes, IndInv
<1>1. CASE StartTracking
  <2>1. \A i \in Steps : ~(i < next)
    BY <1>1, Numbers DEF StartTracking, StepsInv
  <2>2. /\ ~(pc \in Collecting) /\ ~(pc' \in Collecting) /\ pc' \in {"spawn", "steps"}
        /\ outcome' = "none"
    BY <1>1 DEF StartTracking, RowInv, Collecting, Closing
  <2>3. UNCHANGED <<call, next, step, results, timedOut>>
    BY <1>1 DEF StartTracking
  <2>4. next = 1
    BY <1>1 DEF StartTracking, StepsInv
  <2> QED
    BY <2>1, <2>2, <2>3, <2>4 DEF StepsInv, Collecting, Collected, Whole
<1>2. CASE SpawnThread
  <2>1. \A i \in Steps : ~(i < next)
    BY <1>2, Numbers DEF SpawnThread, StepsInv
  <2>2. /\ ~(pc \in Collecting) /\ ~(pc' \in Collecting) /\ pc' \in {"spawn", "steps"}
        /\ outcome' = "none"
    BY <1>2 DEF SpawnThread, RowInv, Collecting, Closing
  <2>3. UNCHANGED <<call, next, step, results, timedOut>>
    BY <1>2 DEF SpawnThread
  <2>4. next = 1
    BY <1>2 DEF SpawnThread, StepsInv
  <2> QED
    BY <2>1, <2>2, <2>3, <2>4 DEF StepsInv, Collecting, Collected, Whole
<1>3. CASE SpawnFails
  BY <1>3 DEF SpawnFails, StepsInv, Collecting, Collected, Whole
<1>4. CASE PoolRefuses
  BY <1>4 DEF PoolRefuses, Ends, StepsInv, Collecting, Collected, Whole
<1>5. CASE SequentialStep
  <2>1. CASE Signal
    BY <1>5, <2>1 DEF SequentialStep, Ends, StepsInv, Collecting, Collected, Whole
  <2>2. CASE ~Signal
    <3>1. \A i \in Steps : i # next => step'[i] = step[i]
      BY <1>5, <2>2 DEF SequentialStep, Begun, DelegationTypeOK
    <3>2. outcome' = "none"
      BY <1>5, <2>2 DEF SequentialStep, RowInv, Closing
    <3> QED
      BY <1>5, <2>2, <3>1, <3>2, Numbers
      DEF SequentialStep, StepsInv, Collecting, Collected, Whole, DelegationTypeOK
  <2> QED
    BY <2>1, <2>2
<1>6. CASE SequentialDone
  <2> USE <1>6 DEF SequentialDone
  <2>1. CASE step[next].result # "ok"
    BY <2>1 DEF Ends, StepsInv, Collecting, Collected, Whole
  <2>2. CASE step[next].result = "ok" /\ next = N
    <3>1. \A i \in Steps : step[i].result = "ok" /\ step[i].at = "done"
      BY <2>2, Numbers DEF StepsInv
    <3>2. timedOut = {}
      BY DEF StepsInv
    <3> QED
      BY <2>2, <3>1, <3>2 DEF Ends, StepsInv, Collecting, Collected, Whole
  <2>3. CASE step[next].result = "ok" /\ next # N
    <3>1. \A i \in Steps : i < next + 1 => i < next \/ i = next
      BY Numbers DEF DelegationTypeOK
    <3>2. \A i \in Steps : i < next + 1 => step[i].result = "ok" /\ step[i].at = "done"
      BY <2>3, <3>1 DEF StepsInv
    <3>3. outcome' = "none"
      BY <2>3 DEF RowInv, Closing
    <3> QED
      BY <2>3, <3>2, <3>3 DEF StepsInv, Collecting, Collected, Whole
  <2> QED
    BY <2>1, <2>2, <2>3
<1>7. CASE ParallelSteps
  BY <1>7 DEF ParallelSteps, StepsInv, Collecting, Collected, Whole
<1>8. CASE StartStep
  <2>1. \A i \in Steps : i # next => step'[i] = step[i]
    BY <1>8 DEF StartStep, Begun, DelegationTypeOK
  <2>2. step'[next].at = "ask"
    BY <1>8 DEF StartStep, Begun, DelegationTypeOK, Step
  <2>3. outcome' = "none"
    BY <1>8 DEF StartStep, RowInv, Closing
  <2> QED
    BY <1>8, <2>1, <2>2, <2>3, Numbers
    DEF StartStep, StepsInv, Collecting, Collected, Whole, DelegationTypeOK
<1>9. CASE StartStepFails
  BY <1>9 DEF StartStepFails, StepsInv, Collecting, Collected, Whole
<1>10. CASE JoinStep
  <2>1. \A i \in Steps : i < next + 1 => i < next \/ i = next
    BY Numbers DEF DelegationTypeOK
  <2>2. \A i \in Steps : i < next + 1 => Collected(i)
    BY <1>10, <2>1 DEF JoinStep, StepsInv, Collected
  <2>3. next = N => \A i \in Steps : i < next + 1
    BY Numbers DEF DelegationTypeOK
  <2>4. outcome' = "none"
    BY <1>10 DEF JoinStep, RowInv, Closing
  <2> QED
    BY <1>10, <2>2, <2>3, <2>4
    DEF JoinStep, JoinsNext, StepsInv, Collecting, Collected, Whole
<1>11. CASE SeesAlive
  BY <1>11 DEF SeesAlive, StepsInv, Collecting, Collected, Whole
<1>12. CASE TimesOut
  <2>1. /\ results'[next] = "timeout"
        /\ \A i \in Steps : i # next => results'[i] = results[i]
    BY <1>12 DEF TimesOut, DelegationTypeOK
  <2>2. outcome' = "none"
    BY <1>12 DEF TimesOut, RowInv, Closing
  <2> QED
    BY <1>12, <2>1, <2>2 DEF TimesOut, StepsInv, Collecting, Collected, Whole
<1>13. CASE CutTimedOut
  <2>1. \A i \in Steps : step'[i].at = step[i].at /\ step'[i].result = step[i].result
    BY <1>13, CutSteps
  <2>2. \A i \in Steps : i < next + 1 => i < next \/ i = next
    BY Numbers DEF DelegationTypeOK
  <2>3. \A i \in Steps : i < next + 1 => Collected(i)
    BY <1>13, <2>2 DEF CutTimedOut, StepsInv, Collected
  <2>4. next = N => \A i \in Steps : i < next + 1
    BY Numbers DEF DelegationTypeOK
  <2>5. outcome' = "none"
    BY <1>13 DEF CutTimedOut, RowInv, Closing
  <2> QED
    BY <1>13, <2>1, <2>3, <2>4, <2>5
    DEF CutTimedOut, JoinsNext, StepsInv, Collecting, Collected, Whole
<1>14. CASE Gather
  <2>1. ASSUME \A i \in Steps : results[i] \notin {"error", "timeout"}
        PROVE  Whole
    <3>1. \A i \in Steps : Collected(i) /\ i \notin timedOut
      BY <1>14, <2>1 DEF Gather, StepsInv
    <3>2. timedOut = {}
      BY <3>1 DEF DelegationTypeOK
    <3>3. \A i \in Steps : step[i].at = "done" /\ results[i] # "error"
      BY <2>1, <3>1 DEF Collected
    <3>4. call.parallel
      BY <1>14 DEF Gather, StepsInv, Collecting
    <3>5. \A i \in Steps : step[i].result = "ok"
      BY <3>1, <3>3, <3>4 DEF StepsInv
    <3> QED
      BY <3>2, <3>3, <3>5 DEF Whole
  <2> QED
    BY <1>14, <2>1 DEF Gather, Ends, StepsInv, Collecting, Collected, Whole
<1>15. CASE Leave
  BY <1>15 DEF Leave, StepsInv, Collecting, Collected, Whole
<1>16. CASE MarkFinalized
  BY <1>16 DEF MarkFinalized, StepsInv, Collecting, Collected, Whole
<1>17. CASE PersistRow
  BY <1>17 DEF PersistRow, StepsInv, Collecting, Collected, Whole
<1>18. CASE PersistJob
  BY <1>18 DEF PersistJob, StepsInv, Collecting, Collected, Whole
<1>19. CASE WriteFails
  BY <1>19 DEF WriteFails, StepsInv, Collecting, Collected, Whole
<1>20. CASE Report
  BY <1>20 DEF Report, TaskStatus, StepsInv, Collecting, Collected, Whole
<1>21. CASE WatcherCuts
  <2>1. \A i \in Steps : step'[i].at = step[i].at /\ step'[i].result = step[i].result
    BY <1>21, CutSteps
  <2> QED
    BY <1>21, <2>1 DEF WatcherCuts, StepsInv, Collecting, Collected, Whole
<1>22. CASE CancelRequest
  BY <1>22 DEF CancelRequest, StepsInv, Collecting, Collected, Whole
<1>23. CASE UNCHANGED vars
  BY <1>23 DEF vars, StepsInv, Collecting, Collected, Whole
<1>24. ASSUME NEW i \in Steps, StepThread(i) \/ AgentEnds(i)
       PROVE  StepsInv'
  BY <1>24, ThreadSteps
  DEF StepsInv, Collecting, Collected, Whole, Stored, DelegationTypeOK
<1>25. ASSUME NEW c \in Caller, FindDelegation(c) \/ RequestCancel(c)
       PROVE  StepsInv'
  BY <1>25 DEF FindDelegation, RequestCancel, StepsInv, Collecting, Collected, Whole
<1> QED
  BY <1>1, <1>2, <1>3, <1>4, <1>5, <1>6, <1>7, <1>8, <1>9, <1>10, <1>11, <1>12, <1>13,
     <1>14, <1>15, <1>16, <1>17, <1>18, <1>19, <1>20, <1>21, <1>22, <1>23, <1>24,
     <1>25
  DEF Next, MainStep, HostFails
(***************************************************************************)
(* Theorems.                                                               *)
(***************************************************************************)

LEMMA Initially == Init => IndInv
<1> SUFFICES ASSUME Init
             PROVE  IndInv
  OBVIOUS
<1>1. 1 \in 1..call.targets /\ call \in Calls
  BY DelegationAssumption DEF Init
<1>2. step \in [Steps -> Step]
  BY <1>1 DEF Init, Step, StepPc
<1>3. DelegationTypeOK
  BY <1>1, <1>2, Numbers DEF Init, DelegationTypeOK, Outcomes
<1>4. CancelInv
  BY DEF Init, CancelInv, Settled
<1>5. RowInv
  BY DEF Init, RowInv, Closing, Outcomes
<1>6. StepsInv
  BY <1>3, Numbers DEF Init, StepsInv, Collecting, Collected
<1> QED
  BY <1>3, <1>4, <1>5, <1>6 DEF IndInv

LEMMA Inductive == Spec => []IndInv
<1>1. IndInv /\ [Next]_vars => IndInv'
  <2> SUFFICES ASSUME IndInv, [Next]_vars
               PROVE  IndInv'
    OBVIOUS
  <2>1. DelegationTypeOK'
    BY TypeStep DEF IndInv
  <2>2. CancelInv'
    BY CancelStep
  <2>3. RowInv'
    BY RowStep
  <2>4. StepsInv'
    BY StepsStep
  <2> QED
    BY <2>1, <2>2, <2>3, <2>4 DEF IndInv
<1> QED
  BY <1>1, Initially, PTL DEF Spec

\* Whatever the number of steps and of agents each may ask, a delegation is
\* written completed only if every step has its own result, in time: neither the
\* sequential loop nor the loop that joins threads until the deadline goes past
\* a step it has no result for, and no late answer replaces a time-out.
THEOREM CompletedDelegationsAreWhole == Spec => []DelegationInv
<1>1. IndInv => DelegationInv
  BY DEF IndInv, RowInv, StepsInv, Whole, Outcomes, DelegationInv, CompletedIsWhole
<1> QED
  BY <1>1, Inductive, PTL

\* However many callers of tasks_cancel race the end of a delegation, and
\* whatever they hold when it ends, none is told that the delegation is being
\* cancelled and then finds it completed or failed, and none is told that it was
\* finalized and finds it cancelled by nobody.
THEOREM CancelExcludesOutcome == Spec => []CancelOrOutcome
<1>1. IndInv => CancelOrOutcome
  <2> SUFFICES ASSUME IndInv
               PROVE  CancelOrOutcome
    OBVIOUS
  <2>1. row \in Outcomes /\ fault # "thread" =>
          row = outcome /\ (cancelled <=> outcome = "cancelled")
    BY DEF IndInv, RowInv, CancelInv, Settled
  <2>2. row = "cancelled" => cancelled
    BY DEF IndInv, RowInv, CancelInv, Outcomes
  <2>3. ASSUME NEW c \in Caller, caller[c] \in {"cancelled", "already_cancelling"}
        PROVE  cancelled
    BY <2>3 DEF IndInv, CancelInv
  <2> QED
    BY <2>1, <2>2, <2>3 DEF CancelOrOutcome, Outcomes, IndInv, CancelInv
<1> QED
  BY <1>1, Inductive, PTL

\* When a delegation is over and the host refused neither a thread nor a write,
\* the row of the task, its job and the answer to a caller that waits carry the
\* same outcome, although the three are written one after the other and a
\* cancellation may arrive between any two of them.
THEOREM DelegationsTellOneStory == Spec => []OneStory
<1>1. IndInv => OneStory
  BY DEF IndInv, DelegationTypeOK, RowInv, Closing, Outcomes, OneStory
<1> QED
  BY <1>1, Inductive, PTL
=============================================================================
