----------------------- MODULE WorkflowMonitorProofs -----------------------
(***************************************************************************)
(* Proofs about WorkflowMonitor, for every set of sessions and workflows   *)
(* and every number of starts: a session that coordinates holds the lock,  *)
(* and a session that is over has let go of it.                            *)
(***************************************************************************)
EXTENDS WorkflowMonitor, TLAPS

\* What of the state is always true of session s and the lock.  A monitor that
\* stop() did not wait for may finish its recovery after the lock is gone, so
\* the lock is only sure to be its own until main[s] is "stopped".
LockOf(s) ==
  /\ coordinating[s] \/ monitor[s] = "assume" => holder = s
  /\ monitor[s] \in {"recover", "recovered"} => holder = s \/ main[s] = "stopped"
  /\ main[s] \in {"off", "stopped"} => holder # s

\* Where the monitor of s can be while the thread of start and stop is at
\* main[s]: after join() has returned it never takes the lock again.
PhasesOf(s) ==
  /\ main[s] = "off" => monitor[s] = "none"
  /\ main[s] = "start" => monitor[s] \in {"acquire", "recover", "recovered", "assume"}
  /\ main[s] \in {"relinquish", "release", "stopped"} =>
       monitor[s] \in {"none", "recover", "recovered", "list", "dispatch"}

\* _stopped and _coordinating of s against main[s].
FlagsOf(s) ==
  /\ main[s] \in {"start", "up"} => ~stopped[s]
  /\ main[s] \in {"join", "relinquish", "release", "stopped"} => stopped[s]
  /\ coordinating[s] => main[s] \in {"up", "join", "relinquish"}

\* The inductive invariant.
LockInv == \A s \in Session : LockOf(s) /\ PhasesOf(s) /\ FlagsOf(s)

\* A reconcile of workflow w by session s is queued or runs.
JobOf(s, w) == \E j \in jobs : j.session = s /\ j.wf = w

\* While s recovers, what still runs is before it in the loop, for nobody who
\* could start a workflow coordinates; s does not, once it has the lock.
RecoveryOf(s) ==
  /\ coordinating[s] => monitor[s] \in {"none", "wait", "list", "dispatch"}
  /\ monitor[s] \in {"recover", "recovered", "assume"} /\ holder = s =>
       Running \subseteq recovering[s]
  /\ monitor[s] \in {"recovered", "assume"} => recovering[s] = {}

\* _busy and _pending only name workflows whose reconcile will end and look at
\* them, as long as the pool takes them.
WorkOf(s) ==
  /\ main[s] = "start" => starts # 0
  /\ main[s] \in {"up", "join"} => pool[s] # 0
  /\ main[s] = "up" => monitor[s] # "none"
  /\ main[s] \in {"start", "up", "join"} =>
       \A w \in busy[s] \cup pending[s] : JobOf(s, w)

\* What makes an unread event of w certain to be read.
OnItsWay(s, w) ==
  \/ wake[s]
  \/ monitor[s] = "list"
  \/ monitor[s] = "dispatch" /\ w \in listed[s]
  \/ w \in pending[s]
  \/ \E j \in jobs : j.session = s /\ j.wf = w /\ j.pc = "queued"

\* No event is lost: in the session that coordinates, whatever an event
\* leaves to be read still has a wake-up, a turn of the loop, a queued
\* reconcile, or one that ends and wakes the monitor again.
NoEventIsLost ==
  \A s \in Session : \A w \in stale :
    main[s] = "up" /\ coordinating[s] => OnItsWay(s, w)

\* The inductive invariant of NoEventIsLost.
WakeInv ==
  /\ stale \subseteq Running
  /\ \A s \in Session : RecoveryOf(s) /\ WorkOf(s)
  /\ NoEventIsLost

\* The types of WorkflowMonitor are kept: no transition of a thread leads to a
\* place, and no write of a field to a value, that the code has no name for.
LEMMA MonitorTyped == Spec => []MonitorTypeOK
<1> USE MonitorAssumption DEF MonitorTypeOK, Put, Goes
<1>1. Init => MonitorTypeOK
  BY DEF Init, MainPc, MonitorPc
<1>2. MonitorTypeOK /\ [Next]_vars => MonitorTypeOK'
  <2> SUFFICES ASSUME MonitorTypeOK, [Next]_vars PROVE MonitorTypeOK'
    OBVIOUS
  <2> USE DEF shared, flags, work, MainPc, MonitorPc, Running
  <2>1. ASSUME NEW s \in Session, StartService(s) PROVE MonitorTypeOK'
    <3>1. starts' \in 0..MaxStarts
      BY <2>1 DEF StartService
    <3> QED
      BY <2>1, <3>1 DEF StartService
  <2>2. ASSUME NEW s \in Session, AcquireLock(s) \/ LockIsTaken(s) PROVE MonitorTypeOK'
    BY <2>2 DEF AcquireLock, LockIsTaken, Returns, TopOfLoop
  <2>3. ASSUME NEW s \in Session, NEW w \in Workflow, RecoverWorkflow(s, w)
        PROVE MonitorTypeOK'
    BY <2>3 DEF RecoverWorkflow
  <2>4. ASSUME NEW s \in Session, EndRecover(s) \/ RecoverRaises(s) PROVE MonitorTypeOK'
    BY <2>4 DEF EndRecover, RecoverRaises, TopOfLoop
  <2>5. ASSUME NEW s \in Session, CheckStopped(s) \/ Assume(s) PROVE MonitorTypeOK'
    <3>1. main' \in [Session -> MainPc] /\ monitor' \in [Session -> MonitorPc]
      BY <2>5 DEF CheckStopped, Assume, Returns
    <3>2. pool' \in [Session -> 0..MaxStarts]
      BY <2>5 DEF CheckStopped, Assume, Returns
    <3> QED
      BY <2>5, <3>1, <3>2 DEF CheckStopped, Assume
  <2>6. ASSUME NEW s \in Session, MonitorWakes(s) \/ PollElapses(s) PROVE MonitorTypeOK'
    BY <2>6 DEF MonitorWakes, PollElapses, AfterWait
  <2>7. ASSUME NEW s \in Session, ListRunning(s) PROVE MonitorTypeOK'
    BY <2>7 DEF ListRunning, Lists, TopOfLoop
  <2>8. ASSUME NEW s \in Session, NEW w \in Workflow, Dispatch(s, w) \/ DispatchRaises(s, w)
        PROVE MonitorTypeOK'
    <3>1. [session |-> s, wf |-> w, pool |-> pool[s], pc |-> "queued"] \in Job
      BY DEF Job, JobPc
    <3> QED
      BY <2>8, <3>1 DEF Dispatch, DispatchRaises, Lists, TopOfLoop
  <2>9. ASSUME NEW s \in Session, NEW w \in Workflow, JobStep(s, w) PROVE MonitorTypeOK'
    <3>1. PICK j \in jobs : /\ j.session = s /\ j.wf = w
                            /\ \/ JobStarts(j)
                               \/ \E to \in {"open", "running", "closed"} : JobEnds(j, to)
      BY <2>9 DEF JobStep
    <3>2. [j EXCEPT !.pc = "reconciling"] \in Job
      BY DEF Job, JobPc
    <3>3. CASE JobStarts(j)
      BY <3>2, <3>3 DEF JobStarts
    <3>4. CASE \E to \in {"open", "running", "closed"} : JobEnds(j, to)
      BY <3>1, <3>4 DEF JobEnds, ReleasesBusy
    <3> QED
      BY <3>1, <3>3, <3>4
  <2>10. ASSUME NEW s \in Session, StopService(s) \/ StopStep(s) PROVE MonitorTypeOK'
    <3>1. CASE StopService(s)
      BY <3>1 DEF StopService
    <3>2. CASE JoinReturns(s)
      BY <3>2 DEF JoinReturns
    <3>3. CASE Relinquish(s) \/ ReleaseLock(s)
      BY <3>3 DEF Relinquish, ReleaseLock
    <3> QED
      BY <2>10, <3>1, <3>2, <3>3 DEF StopStep
  <2>11. ASSUME NEW s \in Session, Exit(s) PROVE MonitorTypeOK'
    BY <2>11 DEF Exit
  <2>12. ASSUME NEW s \in Session, UserStep(s) PROVE MonitorTypeOK'
    <3>1. PICK w \in Workflow : RunWorkflow(s, w) \/ PauseWorkflow(s, w) \/ TaskEvent(s, w)
      BY <2>12 DEF UserStep
    <3>2. status' \in [Workflow -> {"open", "running", "closed"}] /\ stale' \subseteq Workflow
      BY <3>1 DEF RunWorkflow, PauseWorkflow, TaskEvent
    <3> QED
      BY <3>1, <3>2 DEF RunWorkflow, PauseWorkflow, TaskEvent, Wakes
  <2>13. CASE UNCHANGED vars
    BY <2>13 DEF vars
  <2> QED
    BY <2>1, <2>2, <2>3, <2>4, <2>5, <2>6, <2>7, <2>8, <2>9, <2>10, <2>11, <2>12, <2>13
    DEF Next, MonitorStep, TakeStep, LoopStep
<1> QED
  BY <1>1, <1>2, PTL DEF Spec

\* The lock is consistent with every session: the inductive invariant of the
\* two theorems below.
LEMMA LockKept == Spec => []LockInv
<1> USE MonitorAssumption DEF MonitorTypeOK, Put, Goes, LockInv, LockOf, PhasesOf, FlagsOf
<1>1. Init => LockInv
  BY DEF Init
<1>2. MonitorTypeOK /\ LockInv /\ [Next]_vars => LockInv'
  <2> SUFFICES ASSUME MonitorTypeOK, LockInv, [Next]_vars PROVE LockInv'
    OBVIOUS
  <2> USE DEF shared, flags, work, MainPc, MonitorPc
  <2>1. ASSUME NEW s \in Session, StartService(s) PROVE LockInv'
    BY <2>1 DEF StartService
  <2>2. ASSUME NEW s \in Session, AcquireLock(s) \/ LockIsTaken(s) PROVE LockInv'
    BY <2>2 DEF AcquireLock, LockIsTaken, Returns, TopOfLoop
  <2>3. ASSUME NEW s \in Session, NEW w \in Workflow, RecoverWorkflow(s, w)
        PROVE LockInv'
    BY <2>3 DEF RecoverWorkflow
  <2>4. ASSUME NEW s \in Session, EndRecover(s) \/ RecoverRaises(s) PROVE LockInv'
    BY <2>4 DEF EndRecover, RecoverRaises, TopOfLoop
  <2>5. ASSUME NEW s \in Session, CheckStopped(s) \/ Assume(s) PROVE LockInv'
    BY <2>5 DEF CheckStopped, Assume, Returns
  <2>6. ASSUME NEW s \in Session, MonitorWakes(s) \/ PollElapses(s) PROVE LockInv'
    BY <2>6 DEF MonitorWakes, PollElapses, AfterWait
  <2>7. ASSUME NEW s \in Session, ListRunning(s) PROVE LockInv'
    BY <2>7 DEF ListRunning, Lists, TopOfLoop
  <2>8. ASSUME NEW s \in Session, NEW w \in Workflow, Dispatch(s, w) \/ DispatchRaises(s, w)
        PROVE LockInv'
    BY <2>8 DEF Dispatch, DispatchRaises, Lists, TopOfLoop
  <2>9. ASSUME NEW s \in Session, NEW w \in Workflow, JobStep(s, w) PROVE LockInv'
    BY <2>9 DEF JobStep, JobStarts, JobEnds, ReleasesBusy
  <2>10. ASSUME NEW s \in Session, StopService(s) \/ StopStep(s) PROVE LockInv'
    BY <2>10 DEF StopService, StopStep, JoinReturns, InDatabase, Relinquish, ReleaseLock
  <2>11. ASSUME NEW s \in Session, Exit(s) PROVE LockInv'
    BY <2>11 DEF Exit
  <2>12. ASSUME NEW s \in Session, UserStep(s) PROVE LockInv'
    BY <2>12 DEF UserStep, RunWorkflow, PauseWorkflow, TaskEvent, Wakes
  <2>13. CASE UNCHANGED vars
    BY <2>13 DEF vars
  <2> QED
    BY <2>1, <2>2, <2>3, <2>4, <2>5, <2>6, <2>7, <2>8, <2>9, <2>10, <2>11, <2>12, <2>13
    DEF Next, MonitorStep, TakeStep, LoopStep
<1> QED
  BY <1>1, <1>2, MonitorTyped, PTL DEF Spec

\* No wake-up is lost: the inductive invariant of NoLostWakeup.
LEMMA WakeKept == Spec => []WakeInv
<1> USE MonitorAssumption
    DEF MonitorTypeOK, Put, Goes, LockInv, LockOf, PhasesOf, FlagsOf,
        WakeInv, RecoveryOf, WorkOf, JobOf, OnItsWay, NoEventIsLost, Running
<1>1. Init => WakeInv
  BY DEF Init
<1>2. MonitorTypeOK /\ LockInv /\ WakeInv /\ [Next]_vars => WakeInv'
  <2> SUFFICES ASSUME MonitorTypeOK, LockInv, WakeInv, [Next]_vars PROVE WakeInv'
    OBVIOUS
  <2> USE DEF shared, flags, work, MainPc, MonitorPc
  <2>1. ASSUME NEW s \in Session, StartService(s) PROVE WakeInv'
    <3>1. starts' # 0
      BY <2>1 DEF StartService
    <3> QED
      BY <2>1, <3>1 DEF StartService
  <2>2. ASSUME NEW s \in Session, AcquireLock(s) \/ LockIsTaken(s) PROVE WakeInv'
    <3>1. CASE AcquireLock(s)
      BY <3>1 DEF AcquireLock
    <3>2. CASE LockIsTaken(s)
      BY <3>2 DEF LockIsTaken, Returns, TopOfLoop
    <3> QED
      BY <2>2, <3>1, <3>2
  <2>3. ASSUME NEW s \in Session, NEW w \in Workflow, RecoverWorkflow(s, w)
        PROVE WakeInv'
    BY <2>3 DEF RecoverWorkflow
  <2>4. ASSUME NEW s \in Session, EndRecover(s) \/ RecoverRaises(s) PROVE WakeInv'
    BY <2>4 DEF EndRecover, RecoverRaises, TopOfLoop
  <2>5. ASSUME NEW s \in Session, CheckStopped(s) \/ Assume(s) PROVE WakeInv'
    <3>1. CASE CheckStopped(s)
      BY <2>5, <3>1 DEF CheckStopped, Returns
    <3>2. CASE Assume(s)
      <4>1. Running = {} /\ stale = {}
        BY <3>2 DEF Assume
      <4> QED
        BY <3>2, <4>1 DEF Assume, Returns
    <3> QED
      BY <2>5, <3>1, <3>2
  <2>6. ASSUME NEW s \in Session, MonitorWakes(s) \/ PollElapses(s) PROVE WakeInv'
    BY <2>6 DEF MonitorWakes, PollElapses, AfterWait
  <2>7. ASSUME NEW s \in Session, ListRunning(s) PROVE WakeInv'
    BY <2>7 DEF ListRunning, Lists, TopOfLoop
  <2>8. ASSUME NEW s \in Session, NEW w \in Workflow, Dispatch(s, w) \/ DispatchRaises(s, w)
        PROVE WakeInv'
    <3>1. CASE DispatchRaises(s, w)
      BY <3>1 DEF DispatchRaises, Lists, TopOfLoop
    <3>2. CASE Dispatch(s, w) /\ w \in busy[s]
      BY <3>2 DEF Dispatch, Lists, TopOfLoop
    <3>3. CASE Dispatch(s, w) /\ w \notin busy[s]
      <4> DEFINE j == [session |-> s, wf |-> w, pool |-> pool[s], pc |-> "queued"]
      <4>1. /\ monitor[s] = "dispatch"
            /\ jobs' = jobs \cup {j} /\ busy' = [busy EXCEPT ![s] = busy[s] \cup {w}]
            /\ listed' = [listed EXCEPT ![s] = listed[s] \ {w}]
            /\ \E pc \in MonitorPc \ {"acquire", "recover", "recovered", "assume"} :
                  /\ monitor' = [monitor EXCEPT ![s] = pc]
                  /\ pc # "none" \/ stopped[s]
                  /\ pc = "dispatch" \/ listed[s] \ {w} = {}
        BY <3>3 DEF Dispatch, Lists, TopOfLoop
      <4>2. UNCHANGED <<shared, main, flags, recovering, pending, pool>>
        BY <3>3 DEF Dispatch
      <4>3. j \in jobs' /\ j.session = s /\ j.wf = w /\ j.pc = "queued" /\ jobs \subseteq jobs'
        BY <4>1
      <4> HIDE DEF j
      <4>4. stale' \subseteq Running' /\ \A t \in Session : RecoveryOf(t)'
        BY <4>1, <4>2
      <4>5. \A t \in Session : WorkOf(t)'
        BY <4>1, <4>2, <4>3
      <4>6. NoEventIsLost'
        BY <4>1, <4>2, <4>3
      <4> QED
        BY <4>4, <4>5, <4>6
    <3> QED
      BY <2>8, <3>1, <3>2, <3>3
  <2>9. ASSUME NEW s \in Session, NEW w \in Workflow, JobStep(s, w) PROVE WakeInv'
    <3>1. PICK j \in jobs : /\ j.session = s /\ j.wf = w
                            /\ \/ JobStarts(j)
                               \/ \E to \in {"open", "running", "closed"} : JobEnds(j, to)
      BY <2>9 DEF JobStep
    <3>2. CASE JobStarts(j)
      <4> DEFINE k == [j EXCEPT !.pc = "reconciling"]
      <4>1. jobs' = (jobs \ {j}) \cup {k} /\ stale' = stale \ {w} /\ k.session = s /\ k.wf = w
        BY <3>1, <3>2 DEF JobStarts, Job
      <4>2. UNCHANGED <<holder, status, starts, main, monitor, flags, recovering,
                        listed, busy, pending, pool>>
        BY <3>2 DEF JobStarts
      <4> HIDE DEF k
      <4>3. stale' \subseteq Running' /\ \A t \in Session : RecoveryOf(t)'
        BY <4>1, <4>2
      <4>4. \A t \in Session, v \in Workflow : JobOf(t, v) => JobOf(t, v)'
        BY <3>1, <4>1
      <4>5. \A t \in Session : WorkOf(t)'
        BY <4>2, <4>4
      <4>6. NoEventIsLost'
        BY <3>1, <4>1, <4>2
      <4> QED
        BY <4>3, <4>5, <4>6
    <3>3. CASE \E to \in {"open", "running", "closed"} : JobEnds(j, to)
      <4>1. PICK to \in {"open", "running", "closed"} : JobEnds(j, to)
        BY <3>3
      <4>2. stale' \subseteq Running' /\ Running' \subseteq Running /\ stale' \subseteq stale
        BY <3>1, <4>1 DEF JobEnds
      <4>3. /\ jobs' = jobs \ {j} /\ j.pc = "reconciling"
            /\ busy' = [busy EXCEPT ![s] = busy[s] \ {w}]
            /\ pending' = [pending EXCEPT ![s] = pending[s] \ {w}]
            /\ wake' = [wake EXCEPT ![s] = wake[s] \/ w \in pending[s]]
            /\ UNCHANGED <<holder, starts, main, monitor, coordinating, stopped,
                           hasRunning, recovering, listed, pool>>
        BY <3>1, <4>1 DEF JobEnds, ReleasesBusy
      <4>4. \A t \in Session : RecoveryOf(t)'
        BY <4>2, <4>3
      <4>5. \A t \in Session : WorkOf(t)'
        BY <3>1, <4>3
      <4>6. NoEventIsLost'
        BY <3>1, <4>2, <4>3
      <4> QED
        BY <4>2, <4>4, <4>5, <4>6
    <3> QED
      BY <3>1, <3>2, <3>3
  <2>10. ASSUME NEW s \in Session, StopService(s) \/ StopStep(s) PROVE WakeInv'
    BY <2>10 DEF StopService, StopStep, JoinReturns, InDatabase, Relinquish, ReleaseLock
  <2>11. ASSUME NEW s \in Session, Exit(s) PROVE WakeInv'
    BY <2>11 DEF Exit
  <2>12. ASSUME NEW s \in Session, UserStep(s) PROVE WakeInv'
    BY <2>12 DEF UserStep, RunWorkflow, PauseWorkflow, TaskEvent, Wakes
  <2>13. CASE UNCHANGED vars
    BY <2>13 DEF vars
  <2> QED
    BY <2>1, <2>2, <2>3, <2>4, <2>5, <2>6, <2>7, <2>8, <2>9, <2>10, <2>11, <2>12, <2>13
    DEF Next, MonitorStep, TakeStep, LoopStep
<1> QED
  BY <1>1, <1>2, MonitorTyped, LockKept, PTL DEF Spec

\* One coordinator: a session that accepts operations on workflows holds the
\* lock of the workspace, whatever the other sessions, an abandoned monitor or
\* a failed recovery do (WorkflowService and CoordinationLock).
THEOREM OneCoordinatorAlways == Spec => []MonitorInv
<1>1. MonitorTypeOK /\ LockInv => MonitorInv
  BY DEF LockInv, LockOf, MonitorInv, OneCoordinator
<1> QED
  BY <1>1, MonitorTyped, LockKept, PTL

\* A session that is over holds no lock: stop() and the end of the process let
\* go of it, and the monitor that stop() did not wait for never takes it back.
THEOREM StoppedLetsGoAlways == Spec => []StoppedLetsGo
<1>1. LockInv => StoppedLetsGo
  BY DEF LockInv, LockOf, StoppedLetsGo
<1> QED
  BY <1>1, LockKept, PTL

\* No lost wake-up: an event of a running workflow is read by a reconcile that
\* starts after it even if no poll ever elapses, however it falls between the
\* wait, the listing, a reconcile that runs and its finally clause.
THEOREM NoLostWakeup == Spec => []NoEventIsLost
<1>1. WakeInv => NoEventIsLost
  BY DEF WakeInv
<1> QED
  BY <1>1, WakeKept, PTL
=============================================================================
