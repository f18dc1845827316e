-------------------------- MODULE WorkflowMonitor --------------------------
(***************************************************************************)
(* quimera/workflows/service.py: the sessions of one workspace, the lock   *)
(* that elects the one that coordinates its workflows, and in each session *)
(* the monitor thread, the pool that reconciles, and start and stop.       *)
(*                                                                         *)
(* A workflow is here only running, open without running, or closed; what  *)
(* a reconcile decides is the subject of WorkflowCoordinator.              *)
(***************************************************************************)
EXTENDS Naturals, FiniteSets

CONSTANTS
  Session,    \* processes of Quimera on the workspace
  Workflow,   \* workflow ids
  NoSession,  \* the lock file is not locked
  MaxStarts   \* bound: calls of start() over all sessions

ASSUME MonitorAssumption ==
  /\ NoSession \notin Session
  /\ MaxStarts \in Nat

VARIABLES
  holder,        \* the session that holds the flock
  status,        \* of each workflow, in the database
  stale,         \* running workflows with an event no reconcile has read
  starts,        \* how many of MaxStarts happened
  main,          \* the thread of each session that calls start and stop
  monitor,       \* its monitor thread
  coordinating,  \* _coordinating
  stopped,       \* _stopped
  wake,          \* _wake
  hasRunning,    \* _has_running
  recovering,    \* what is left of the loop of recover()
  listed,        \* what is left of the loop of _dispatch_reconciles
  busy,          \* _busy
  pending,       \* _pending
  pool,          \* _pool: 0 is None, and each start() has a pool of its own
  jobs           \* the futures that are queued or running

shared == <<holder, status, stale, starts>>
flags == <<coordinating, stopped, wake, hasRunning>>
work == <<busy, pending, pool, jobs>>
vars == <<shared, main, monitor, flags, recovering, listed, work>>

MainPc == {"off", "start", "up", "join", "relinquish", "release", "stopped"}
MonitorPc == {"none", "wait", "acquire", "recover", "recovered", "assume",
              "list", "dispatch"}
JobPc == {"queued", "reconciling"}

Job == [session : Session, wf : Workflow, pool : Nat, pc : JobPc]

MonitorTypeOK ==
  /\ holder \in Session \cup {NoSession}
  /\ status \in [Workflow -> {"open", "running", "closed"}]
  /\ stale \subseteq Workflow
  /\ starts \in 0..MaxStarts
  /\ main \in [Session -> MainPc]
  /\ monitor \in [Session -> MonitorPc]
  /\ coordinating \in [Session -> BOOLEAN]
  /\ stopped \in [Session -> BOOLEAN]
  /\ wake \in [Session -> BOOLEAN]
  /\ hasRunning \in [Session -> BOOLEAN]
  /\ recovering \in [Session -> SUBSET Workflow]
  /\ listed \in [Session -> SUBSET Workflow]
  /\ busy \in [Session -> SUBSET Workflow]
  /\ pending \in [Session -> SUBSET Workflow]
  /\ pool \in [Session -> 0..MaxStarts]
  /\ jobs \subseteq Job

Init ==
  /\ holder = NoSession
  /\ status = [w \in Workflow |-> "open"]
  /\ stale = {}
  /\ starts = 0
  /\ main = [s \in Session |-> "off"]
  /\ monitor = [s \in Session |-> "none"]
  /\ coordinating = [s \in Session |-> FALSE]
  /\ stopped = [s \in Session |-> FALSE]
  /\ wake = [s \in Session |-> FALSE]
  /\ hasRunning = [s \in Session |-> FALSE]
  /\ recovering = [s \in Session |-> {}]
  /\ listed = [s \in Session |-> {}]
  /\ busy = [s \in Session |-> {}]
  /\ pending = [s \in Session |-> {}]
  /\ pool = [s \in Session |-> 0]
  /\ jobs = {}

Running == { w \in Workflow : status[w] = "running" }

\* One field of session s changes.
Put(field, s, value) == [field EXCEPT ![s] = value]

\* The monitor thread, or start() in its place, goes on to `pc`.
Goes(s, pc) == monitor' = Put(monitor, s, pc)

----------------------------------------------------------------------------
(* start, and _take_coordination, which start calls before the monitor     *)
(* thread exists and the monitor calls afterwards.                         *)

\* start() returns at once while an earlier monitor thread is alive.
StartService(s) ==
  /\ main[s] \in {"off", "stopped"} /\ monitor[s] = "none"
  /\ starts < MaxStarts
  /\ starts' = starts + 1
  /\ main' = Put(main, s, "start")
  /\ stopped' = Put(stopped, s, FALSE)
  /\ busy' = Put(busy, s, {})
  /\ pending' = Put(pending, s, {})
  /\ Goes(s, "acquire")
  /\ UNCHANGED <<holder, status, stale, coordinating, wake, hasRunning,
                 recovering, listed, pool, jobs>>

\* The end of a call of _take_coordination: start() creates the pool and the
\* thread, which begins with the top of its loop; the monitor goes to `pc`.
Returns(s, pc) ==
  IF main[s] = "start"
    THEN /\ main' = Put(main, s, "up")
         /\ pool' = Put(pool, s, starts)
         /\ Goes(s, "wait")
    ELSE /\ Goes(s, pc)
         /\ UNCHANGED <<main, pool>>

\* The top of the loop: the monitor waits, or ends when stop() was called.
TopOfLoop(s) == IF stopped[s] THEN "none" ELSE "wait"

\* CoordinationLock.acquire; this process may hold the lock already.
AcquireLock(s) ==
  /\ monitor[s] = "acquire"
  /\ holder \in {s, NoSession}
  /\ holder' = s
  /\ recovering' = Put(recovering, s, { w \in Workflow : status[w] # "closed" })
  /\ Goes(s, "recover")
  /\ UNCHANGED <<status, stale, starts, main, flags, listed, work>>

LockIsTaken(s) ==
  /\ monitor[s] = "acquire"
  /\ holder \notin {s, NoSession}
  /\ Returns(s, TopOfLoop(s))
  /\ UNCHANGED <<shared, flags, recovering, listed, busy, pending, jobs>>

\* recover: one transaction per open workflow, which pauses a running one.
RecoverWorkflow(s, w) ==
  /\ monitor[s] = "recover" /\ w \in recovering[s]
  /\ recovering' = Put(recovering, s, recovering[s] \ {w})
  /\ status' = [status EXCEPT ![w] = IF @ = "running" THEN "open" ELSE @]
  /\ stale' = stale \ {w}
  /\ UNCHANGED <<holder, starts, main, monitor, flags, listed, work>>

EndRecover(s) ==
  /\ monitor[s] = "recover" /\ recovering[s] = {}
  /\ hasRunning' = Put(hasRunning, s, Running # {})
  /\ Goes(s, "recovered")
  /\ UNCHANGED <<shared, main, coordinating, stopped, wake, recovering, listed, work>>

\* An exception of the database during the recovery: logged by the monitor,
\* and the lock stays with the session.
RecoverRaises(s) ==
  /\ monitor[s] = "recover" /\ main[s] # "start"
  /\ recovering' = Put(recovering, s, {})
  /\ Goes(s, TopOfLoop(s))
  /\ UNCHANGED <<shared, main, flags, listed, work>>

\* Mutant of CheckStopped: the session coordinates whether stop() was called
\* or not.
CheckNothing(s) ==
  /\ monitor[s] = "recovered"
  /\ Goes(s, "assume")
  /\ UNCHANGED <<shared, main, flags, recovering, listed, work>>

\* After the recovery: a stop() meanwhile has let go of the lock, or will.
CheckStopped(s) ==
  /\ monitor[s] = "recovered"
  /\ IF stopped[s] THEN Returns(s, "none")
                   ELSE Goes(s, "assume") /\ UNCHANGED <<main, pool>>
  /\ UNCHANGED <<shared, flags, recovering, listed, busy, pending, jobs>>

\* From here on the operations on workflows are accepted in this session.
Assume(s) ==
  /\ monitor[s] = "assume"
  /\ coordinating' = Put(coordinating, s, TRUE)
  /\ Returns(s, "list")
  /\ UNCHANGED <<shared, stopped, wake, hasRunning, recovering, listed,
                 busy, pending, jobs>>

----------------------------------------------------------------------------
(* The loop of the monitor.                                                *)

\* What follows the wait, once _wake is cleared.
AfterWait(s) ==
  CASE stopped[s]                       -> "none"
    [] ~stopped[s] /\ coordinating[s]   -> "list"
    [] OTHER                            -> "acquire"

MonitorWakes(s) ==
  /\ monitor[s] = "wait"
  /\ wake[s]
  /\ wake' = Put(wake, s, FALSE)
  /\ Goes(s, AfterWait(s))
  /\ UNCHANGED <<shared, main, coordinating, stopped, hasRunning, recovering,
                 listed, work>>

\* The wait times out, while something runs or the lock may become free.
PollElapses(s) ==
  /\ monitor[s] = "wait" /\ ~wake[s]
  /\ hasRunning[s] \/ ~coordinating[s]
  /\ Goes(s, AfterWait(s))
  /\ UNCHANGED <<shared, main, flags, recovering, listed, work>>

\* The loop over `rest` goes on, or the overview is published and the loop of
\* the monitor begins again.
Lists(s, rest) ==
  /\ listed' = Put(listed, s, rest)
  /\ Goes(s, IF rest = {} THEN TopOfLoop(s) ELSE "dispatch")

\* _dispatch_reconciles, on the pool there was before it read the database.
ListRunning(s) ==
  /\ monitor[s] = "list"
  /\ Lists(s, Running)
  /\ hasRunning' = Put(hasRunning, s, Running # {})
  /\ UNCHANGED <<shared, main, coordinating, stopped, wake, recovering, work>>

\* Mutant of Dispatch: a request that finds the workflow busy is dropped.
DispatchUnlessBusy(s, w) ==
  /\ monitor[s] = "dispatch" /\ w \in listed[s] /\ pool[s] # 0
  /\ Lists(s, listed[s] \ {w})
  /\ busy' = Put(busy, s, busy[s] \cup {w})
  /\ jobs' = IF w \in busy[s] THEN jobs ELSE
       jobs \cup {[session |-> s, wf |-> w, pool |-> pool[s], pc |-> "queued"]}
  /\ UNCHANGED <<shared, main, flags, recovering, pending, pool>>

\* One running workflow: reconciled, or noted when it is being reconciled.
Dispatch(s, w) ==
  /\ monitor[s] = "dispatch" /\ w \in listed[s]
  /\ w \in busy[s] \/ pool[s] # 0
  /\ Lists(s, listed[s] \ {w})
  /\ IF w \in busy[s]
       THEN /\ pending' = Put(pending, s, pending[s] \cup {w})
            /\ UNCHANGED <<busy, jobs>>
       ELSE /\ busy' = Put(busy, s, busy[s] \cup {w})
            /\ jobs' = jobs \cup {[session |-> s, wf |-> w, pool |-> pool[s],
                                  pc |-> "queued"]}
            /\ UNCHANGED pending
  /\ UNCHANGED <<shared, main, flags, recovering, pool>>

\* submit raises on a pool that stop() has shut down; the id stays in _busy.
DispatchRaises(s, w) ==
  /\ monitor[s] = "dispatch" /\ w \in listed[s] \ busy[s]
  /\ pool[s] = 0
  /\ busy' = Put(busy, s, busy[s] \cup {w})
  /\ Lists(s, {})
  /\ UNCHANGED <<shared, main, flags, recovering, pending, pool, jobs>>

----------------------------------------------------------------------------
(* _reconcile_one.                                                         *)

\* From here on the reconcile sees what was written before.
JobStarts(j) ==
  /\ j.pc = "queued"
  /\ jobs' = (jobs \ {j}) \cup {[j EXCEPT !.pc = "reconciling"]}
  /\ stale' = stale \ {j.wf}
  /\ UNCHANGED <<holder, status, starts, main, monitor, flags, recovering,
                 listed, busy, pending, pool>>

\* Mutant of ReleasesBusy: every reconcile asks for another one.
AlwaysWakes(s, w) ==
  /\ busy' = Put(busy, s, busy[s] \ {w})
  /\ pending' = Put(pending, s, pending[s] \ {w})
  /\ wake' = Put(wake, s, TRUE)

\* The finally clause: a request that came meanwhile wakes the monitor again.
ReleasesBusy(s, w) ==
  /\ busy' = Put(busy, s, busy[s] \ {w})
  /\ pending' = Put(pending, s, pending[s] \ {w})
  /\ wake' = Put(wake, s, wake[s] \/ w \in pending[s])

\* The reconcile, which may take the workflow out of running, is over.
JobEnds(j, to) ==
  /\ j.pc = "reconciling"
  /\ to = status[j.wf] \/ status[j.wf] = "running"
  /\ status' = [status EXCEPT ![j.wf] = to]
  /\ stale' = IF to = "running" THEN stale ELSE stale \ {j.wf}
  /\ jobs' = jobs \ {j}
  /\ ReleasesBusy(j.session, j.wf)
  /\ UNCHANGED <<holder, starts, main, monitor, coordinating, stopped, hasRunning,
                 recovering, listed, pool>>

----------------------------------------------------------------------------
(* stop, and the end of the process.                                       *)

StopService(s) ==
  /\ main[s] = "up"
  /\ main' = Put(main, s, "join")
  /\ stopped' = Put(stopped, s, TRUE)
  /\ wake' = Put(wake, s, TRUE)
  /\ UNCHANGED <<shared, monitor, coordinating, hasRunning, recovering, listed, work>>

\* Where the monitor can spend the five seconds of join(timeout=5): inside the
\* transactions of the database.
InDatabase(s) == monitor[s] \in {"recover", "list"}

\* Mutant of JoinReturns: stop() does not wait for the monitor.
JoinAtOnce(s) ==
  /\ main[s] = "join"
  /\ main' = Put(main, s, "relinquish")
  /\ pool' = Put(pool, s, 0)
  /\ jobs' = { j \in jobs : j.session = s => j.pc # "queued" }
  /\ UNCHANGED <<shared, monitor, flags, recovering, listed, busy, pending>>

\* join and shutdown: what is queued is dropped, what runs goes on.
JoinReturns(s) ==
  /\ main[s] = "join"
  /\ monitor[s] = "none" \/ InDatabase(s)
  /\ main' = Put(main, s, "relinquish")
  /\ pool' = Put(pool, s, 0)
  /\ jobs' = { j \in jobs : j.session = s => j.pc # "queued" }
  /\ UNCHANGED <<shared, monitor, flags, recovering, listed, busy, pending>>

Relinquish(s) ==
  /\ main[s] = "relinquish"
  /\ main' = Put(main, s, "release")
  /\ coordinating' = Put(coordinating, s, FALSE)
  /\ UNCHANGED <<shared, monitor, stopped, wake, hasRunning, recovering, listed, work>>

ReleaseLock(s) ==
  /\ main[s] = "release"
  /\ main' = Put(main, s, "stopped")
  /\ holder' = IF holder = s THEN NoSession ELSE holder
  /\ UNCHANGED <<status, stale, starts, monitor, flags, recovering, listed, work>>

\* The process ends or dies, and the system unlocks the file.
Exit(s) ==
  /\ main[s] # "off"
  /\ main' = Put(main, s, "off")
  /\ monitor' = Put(monitor, s, "none")
  /\ holder' = IF holder = s THEN NoSession ELSE holder
  /\ coordinating' = Put(coordinating, s, FALSE)
  /\ stopped' = Put(stopped, s, FALSE)
  /\ wake' = Put(wake, s, FALSE)
  /\ hasRunning' = Put(hasRunning, s, FALSE)
  /\ recovering' = Put(recovering, s, {})
  /\ listed' = Put(listed, s, {})
  /\ busy' = Put(busy, s, {})
  /\ pending' = Put(pending, s, {})
  /\ pool' = Put(pool, s, 0)
  /\ jobs' = { j \in jobs : j.session # s }
  /\ UNCHANGED <<status, stale, starts>>

----------------------------------------------------------------------------
(* What happens to the workflows: tools and events of the session that     *)
(* coordinates.  Each writes the database and then wakes the monitor.      *)

Wakes(s) == wake' = Put(wake, s, TRUE)

\* start or resume.
RunWorkflow(s, w) ==
  /\ coordinating[s] /\ status[w] = "open"
  /\ status' = [status EXCEPT ![w] = "running"]
  /\ stale' = stale \cup {w}
  /\ Wakes(s)
  /\ UNCHANGED <<holder, starts, main, monitor, coordinating, stopped,
                 hasRunning, recovering, listed, work>>

\* pause.
PauseWorkflow(s, w) ==
  /\ coordinating[s] /\ status[w] = "running"
  /\ status' = [status EXCEPT ![w] = "open"]
  /\ stale' = stale \ {w}
  /\ Wakes(s)
  /\ UNCHANGED <<holder, starts, main, monitor, coordinating, stopped,
                 hasRunning, recovering, listed, work>>

\* A task of the workflow changed: task_event_wake.
TaskEvent(s, w) ==
  /\ coordinating[s] /\ status[w] = "running"
  /\ stale' = stale \cup {w}
  /\ Wakes(s)
  /\ UNCHANGED <<holder, status, starts, main, monitor, coordinating, stopped,
                 hasRunning, recovering, listed, work>>

----------------------------------------------------------------------------

TakeStep(s) ==
  \/ AcquireLock(s) \/ LockIsTaken(s)
  \/ \E w \in Workflow : RecoverWorkflow(s, w)
  \/ EndRecover(s) \/ CheckStopped(s) \/ Assume(s)

LoopStep(s) ==
  \/ MonitorWakes(s) \/ ListRunning(s)
  \/ \E w \in Workflow : Dispatch(s, w) \/ DispatchRaises(s, w)

MonitorStep(s) == TakeStep(s) \/ LoopStep(s)

JobStep(s, w) ==
  \E j \in { i \in jobs : i.session = s /\ i.wf = w } :
    \/ JobStarts(j)
    \/ \E to \in {"open", "running", "closed"} : JobEnds(j, to)

StopStep(s) == JoinReturns(s) \/ Relinquish(s) \/ ReleaseLock(s)

UserStep(s) ==
  \E w \in Workflow : RunWorkflow(s, w) \/ PauseWorkflow(s, w) \/ TaskEvent(s, w)

Next ==
  \E s \in Session :
    \/ StartService(s) \/ MonitorStep(s) \/ PollElapses(s) \/ RecoverRaises(s)
    \/ StopService(s) \/ StopStep(s) \/ Exit(s)
    \/ UserStep(s) \/ \E w \in Workflow : JobStep(s, w)

Spec == Init /\ [][Next]_vars

\* Fairness: threads that are able to go on do so.  The poll is not assumed:
\* what follows is what the wake-ups alone achieve.
Fairness ==
  \A s \in Session :
    /\ WF_vars(MonitorStep(s)) /\ WF_vars(StopStep(s))
    /\ \A w \in Workflow : WF_vars(JobStep(s, w))

FairSpec == Spec /\ Fairness

----------------------------------------------------------------------------
(* Properties.                                                             *)

\* A session that accepts operations on workflows holds the lock, so only one
\* does: although stop() gives up waiting for a monitor that is taking the lock
\* over, and the monitor takes it over again after a failed recovery.
OneCoordinator == \A s \in Session : coordinating[s] => holder = s

\* ... in states whose fields all have their type: no job, no session and no
\* wake-up is in a condition the code has no name for.
MonitorInv == MonitorTypeOK /\ OneCoordinator

\* A session that stopped and whose monitor ended holds no lock: no other
\* session waits for a process that coordinates nothing.
StoppedLetsGo ==
  \A s \in Session :
    main[s] \in {"off", "stopped"} /\ monitor[s] = "none" => holder # s

\* An event of a running workflow is read by a reconcile that starts after it,
\* without the help of the poll, also when it comes while the workflow is being
\* reconciled or the monitor is between two cycles.
EventIsRead ==
  \A s \in Session : \A w \in Workflow :
    (w \in stale /\ main[s] = "up" /\ coordinating[s])
      ~> (w \notin stale \/ main[s] # "up")

\* The monitor never keeps itself busy: when nobody asks for anything and no
\* poll is due, reconciles come to an end.
Demand ==
  \E s \in Session :
    PollElapses(s) \/ UserStep(s) \/ StartService(s) \/ StopService(s)

MonitorSleeps ==
  <>[][~Demand]_vars => <>[](jobs = {})
===========================================================================
