------------------------- MODULE DelegationTracking -------------------------
(***************************************************************************)
(* quimera/runtime/tools/delegate.py: one tasks_delegate call, from its    *)
(* tracking task to the outcome written on it, against the callers of      *)
(* tasks_cancel, the cancellation of the MCP request, and the deadline of  *)
(* parallel steps.                                                         *)
(*                                                                         *)
(* A step asks its targets one after the other.  The agent of a target     *)
(* runs in an AgentClient of its own (agents/client.py), whose cancel      *)
(* event is the only thing that ends an agent that does not answer.        *)
(***************************************************************************)
EXTENDS Naturals

CONSTANTS
  N,        \* steps of the call
  Calls,    \* the calls considered: who waits, how the steps are executed, and
            \* how many agents each may ask (its target and its fallbacks)
  Caller    \* calls of tasks_cancel

ASSUME DelegationAssumption ==
  /\ N \in Nat \ {0}
  /\ Calls \subseteq [wait : BOOLEAN, parallel : BOOLEAN, targets : Nat \ {0}]
  /\ \A k \in Calls : k.parallel => N > 1

Steps == 1..N

VARIABLES
  call,                \* the arguments of the call
  pc,                  \* the thread that executes the steps and finalizes
  next,                \* its index in the loop over the steps
  row, job,            \* status of the tracking task and of its job
  registered,          \* the entry is in _ACTIVE_DELEGATIONS
  cancelled,           \* cancel_event of the entry
  finalized,           \* _finalized of the entry
  caller,              \* what each caller of tasks_cancel holds or was told
  request,             \* the cancel event of the MCP request
  step,                \* the execution of each step
  results,             \* results, as the parallel call collects them
  timedOut,            \* timed_out_indexes
  timeoutCancelled,    \* timeout_cancelled
  watching,            \* steps whose handles the watcher still guards
  outcome,             \* the result the finalization is given
  report,              \* task_status in the answer to a caller that waits
  fault,               \* what the host refused: a thread, or a write
  lost                 \* steps whose agent started over a cancellation

entry == <<registered, cancelled, finalized>>
time == <<timedOut, timeoutCancelled>>
rows == <<row, job, outcome, report>>
vars == <<call, pc, next, rows, entry, caller, request, step, results, time,
          watching, fault, lost>>

Outcomes == {"completed", "failed", "cancelled"}

StepPc == {"idle", "ask", "register", "dispatched", "starting", "running", "returned",
           "store", "done"}

Step ==
  [at : StepPc, target : 1..call.targets,
   handle : BOOLEAN,  \* _cancelled of the step's handle
   cut : BOOLEAN,     \* the cancel event of the AgentClient of the target
   result : {"none", "ok", "error", "cancelled"}]

DelegationTypeOK ==
  /\ call \in Calls
  /\ pc \in {"start", "spawn", "steps", "waiting", "spawning", "joining",
             "expired", "cutting", "gather", "leave", "mark", "persist", "job", "report",
             "over"}
  /\ next \in Steps
  /\ row \in {"none", "in_progress"} \cup Outcomes
  /\ job \in {"none", "active"} \cup Outcomes
  /\ registered \in BOOLEAN /\ cancelled \in BOOLEAN /\ finalized \in BOOLEAN
  /\ caller \in [Caller -> {"idle", "found", "unknown", "cancelled",
                            "already_cancelling", "finalized"}]
  /\ request \in BOOLEAN
  /\ step \in [Steps -> Step]
  /\ results \in [Steps -> {"none", "ok", "error", "timeout"}]
  /\ timedOut \subseteq Steps
  /\ timeoutCancelled \in BOOLEAN
  /\ watching \subseteq Steps
  /\ outcome \in {"none", "completed", "failed", "cancelled"}
  /\ report \in {"none"} \cup Outcomes
  /\ fault \in {"none", "thread", "write"}
  /\ lost \subseteq Steps

Init ==
  /\ call \in Calls
  /\ pc = "start" /\ next = 1
  /\ row = "none" /\ job = "none" /\ outcome = "none" /\ report = "none"
  /\ registered = FALSE /\ cancelled = FALSE /\ finalized = FALSE
  /\ caller = [c \in Caller |-> "idle"]
  /\ request = FALSE
  /\ step = [i \in Steps |-> [at |-> "idle", target |-> 1, handle |-> FALSE,
                              cut |-> FALSE, result |-> "none"]]
  /\ results = [i \in Steps |-> "none"]
  /\ timedOut = {} /\ timeoutCancelled = FALSE
  /\ watching = {}
  /\ fault = "none" /\ lost = {}

----------------------------------------------------------------------------
(* The executing thread: the caller's own, or the one _delegate_async       *)
(* starts.                                                                  *)

\* The signal the watchers observe, and cancel_checker without time-outs.
Signal == cancelled \/ request

\* The job, the task in progress and the active delegation.  Nobody else
\* knows the task before it is registered.
StartTracking ==
  /\ pc = "start"
  /\ row' = "in_progress" /\ job' = "active" /\ registered' = TRUE
  /\ pc' = IF call.wait THEN "steps" ELSE "spawn"
  /\ UNCHANGED <<call, next, outcome, report, cancelled, finalized, caller,
                 request, step, results, time, watching, fault, lost>>

SpawnThread ==
  /\ pc = "spawn"
  /\ pc' = "steps"
  /\ UNCHANGED <<call, next, rows, entry, caller, request, step, results,
                 time, watching, fault, lost>>

\* The host has no thread left: the task fails, without the entry.
SpawnFails ==
  /\ pc = "spawn" /\ fault = "none"
  /\ registered' = FALSE
  /\ outcome' = "failed" /\ fault' = "thread"
  /\ pc' = "persist"
  /\ UNCHANGED <<call, next, row, job, report, cancelled, finalized, caller,
                 request, step, results, time, watching, lost>>

\* The steps are over with this outcome.
Ends(result) == outcome' = result /\ pc' = "leave"

\* A target of a step has left the pool: nothing (more) is executed.
PoolRefuses ==
  /\ pc = "steps"
  /\ Ends("failed")
  /\ UNCHANGED <<call, next, row, job, report, entry, caller, request, step,
                 results, time, watching, fault, lost>>

\* The thread of step i, or the sequential loop in its place, begins.
Begun(i) == [step EXCEPT ![i].at = "ask"]

\* _execute_steps_inner before a step: the check, then the step with a
\* watcher of its own.
SequentialStep ==
  /\ pc = "steps" /\ ~call.parallel
  /\ IF Signal
       THEN Ends("failed") /\ UNCHANGED <<step, watching>>
       ELSE /\ step' = Begun(next) /\ watching' = {next}
            /\ pc' = "waiting" /\ UNCHANGED outcome
  /\ UNCHANGED <<call, next, row, job, report, entry, caller, request,
                 results, time, fault, lost>>

\* ... and after it: a step without a result ends the call.
SequentialDone ==
  /\ pc = "waiting" /\ step[next].at = "done"
  /\ watching' = {}
  /\ IF step[next].result # "ok" THEN Ends("failed") /\ UNCHANGED next
     ELSE IF next = N THEN Ends("completed") /\ UNCHANGED next
     ELSE next' = next + 1 /\ pc' = "steps" /\ UNCHANGED outcome
  /\ UNCHANGED <<call, row, job, report, entry, caller, request, step,
                 results, time, fault, lost>>

\* _execute_steps_parallel: the watcher first, then a thread per step.
ParallelSteps ==
  /\ pc = "steps" /\ call.parallel
  /\ watching' = Steps
  /\ pc' = "spawning"
  /\ UNCHANGED <<call, next, rows, entry, caller, request, step, results,
                 time, fault, lost>>

StartStep ==
  /\ pc = "spawning"
  /\ step' = Begun(next)
  /\ IF next = N THEN next' = 1 /\ pc' = "joining"
                 ELSE next' = next + 1 /\ UNCHANGED pc
  /\ UNCHANGED <<call, rows, entry, caller, request, results, time, watching,
                 fault, lost>>

\* t.start() raises: the exception leaves the call after the finally blocks,
\* which stop the watcher and unregister, and nothing is finalized.
StartStepFails ==
  /\ pc = "spawning" /\ fault = "none"
  /\ fault' = "thread"
  /\ watching' = {} /\ registered' = FALSE
  /\ pc' = "over"
  /\ UNCHANGED <<call, next, rows, cancelled, finalized, caller, request,
                 step, results, time, lost>>

\* To the next thread to join, or to the end of the loop.
JoinsNext ==
  IF next = N THEN pc' = "gather" /\ UNCHANGED next
              ELSE next' = next + 1 /\ pc' = "joining"

JoinStep ==
  /\ pc = "joining" /\ step[next].at = "done"
  /\ JoinsNext
  /\ UNCHANGED <<call, rows, entry, caller, request, step, results, time,
                 watching, fault, lost>>

\* Mutant of SeesAlive: only the first join that times out has a limit.
SeesFirstAlive ==
  /\ pc = "joining" /\ step[next].at # "done" /\ timedOut = {}
  /\ pc' = "expired"
  /\ UNCHANGED <<call, next, rows, entry, caller, request, step, results,
                 time, watching, fault, lost>>

\* The common deadline passes, at any time, and is_alive() is true; the thread
\* may still store its result.
SeesAlive ==
  /\ pc = "joining" /\ step[next].at # "done"
  /\ pc' = "expired"
  /\ UNCHANGED <<call, next, rows, entry, caller, request, step, results,
                 time, watching, fault, lost>>

\* Under results_lock: the step has no other result from here on.
TimesOut ==
  /\ pc = "expired"
  /\ timedOut' = timedOut \cup {next}
  /\ results' = [results EXCEPT ![next] = "timeout"]
  /\ pc' = "cutting"
  /\ UNCHANGED <<call, next, rows, entry, caller, request, step,
                 timeoutCancelled, watching, fault, lost>>

\* The handle of step i is cancelled, once, and with it the client that
\* registered there.
HandleCancelled(s) ==
  IF s.handle THEN s
  ELSE [s EXCEPT !.handle = TRUE,
                 !.cut = s.cut \/ s.at \in {"dispatched", "starting", "running"}]

\* timeout_cancelled, the handle, and a join of two seconds that promises
\* nothing.
CutTimedOut ==
  /\ pc = "cutting"
  /\ timeoutCancelled' = TRUE
  /\ step' = [step EXCEPT ![next] = HandleCancelled(@)]
  /\ JoinsNext
  /\ UNCHANGED <<call, rows, entry, caller, request, results, timedOut,
                 watching, fault, lost>>

\* A snapshot of the results, of which one failure fails the call.
Gather ==
  /\ pc = "gather"
  /\ watching' = {}
  /\ Ends(IF \E i \in Steps : results[i] \in {"error", "timeout"}
            THEN "failed" ELSE "completed")
  /\ UNCHANGED <<call, next, row, job, report, entry, caller, request, step,
                 results, time, fault, lost>>
----------------------------------------------------------------------------
(* _finalize_tracking, and what surrounds it.                               *)

Leave ==
  /\ pc = "leave"
  /\ registered' = (registered /\ ~call.wait)
  /\ pc' = "mark"
  /\ UNCHANGED <<call, next, rows, cancelled, finalized, caller, request, step,
                 results, time, watching, fault, lost>>

\* mark_finalized closes the window of cancellation and tells how it ended.
MarkFinalized ==
  /\ pc = "mark"
  /\ finalized' = TRUE
  /\ outcome' = IF cancelled THEN "cancelled" ELSE outcome
  /\ pc' = "persist"
  /\ UNCHANGED <<call, next, row, job, report, registered, cancelled, caller,
                 request, step, results, time, watching, fault, lost>>

PersistRow ==
  /\ pc = "persist"
  /\ row' = outcome
  /\ pc' = "job"
  /\ UNCHANGED <<call, next, job, outcome, report, entry, caller, request, step,
                 results, time, watching, fault, lost>>

PersistJob ==
  /\ pc = "job"
  /\ job' = outcome
  /\ pc' = "report"
  /\ UNCHANGED <<call, next, row, outcome, report, entry, caller, request, step,
                 results, time, watching, fault, lost>>

\* The database refuses the write: the exception is logged and nothing more
\* is written.
WriteFails ==
  /\ pc \in {"persist", "job"} /\ fault = "none"
  /\ fault' = "write"
  /\ pc' = "report"
  /\ UNCHANGED <<call, next, rows, entry, caller, request, step, results, time,
                 watching, lost>>

\* Mutant of TaskStatus: the cancellation of the request counts too.
TaskStatusOfRequest == IF cancelled \/ request THEN "cancelled" ELSE outcome

\* data["task_status"]
TaskStatus == IF cancelled THEN "cancelled" ELSE outcome

\* The answer to a caller that waits, and the end of a thread nobody waits for.
Report ==
  /\ pc = "report"
  /\ report' = IF call.wait THEN TaskStatus ELSE "none"
  /\ registered' = FALSE
  /\ pc' = "over"
  /\ UNCHANGED <<call, next, row, job, outcome, cancelled, finalized, caller,
                 request, step, results, time, watching, fault, lost>>

----------------------------------------------------------------------------
(* One step: _execute_single_step and, of AgentClient.run, what the cancel  *)
(* event meets.  The retries of a dispatch are one run.                     *)

\* The cancel_checker a step is given.
IsCancelled == Signal \/ timeoutCancelled

Set(i, s) == step' = [step EXCEPT ![i] = s]

OnlyStep == UNCHANGED <<call, pc, next, rows, entry, caller, request, results,
                        time, watching, fault>>

\* The check before each target.
AskTarget(i) ==
  /\ step[i].at = "ask"
  /\ Set(i, IF IsCancelled
              THEN [step[i] EXCEPT !.at = "store", !.result = "cancelled"]
              ELSE [step[i] EXCEPT !.at = "register"])
  /\ OnlyStep /\ UNCHANGED lost

\* Mutant of CutAtOnce: register only stores the callback.
CutNever(i) == FALSE

\* register: a handle already cancelled calls back at once.
CutAtOnce(i) == step[i].handle

\* The target gets a client of its own, which registers with the handle.
RegisterClient(i) ==
  /\ step[i].at = "register"
  /\ Set(i, [step[i] EXCEPT !.at = "dispatched", !.cut = CutAtOnce(i)])
  /\ OnlyStep /\ UNCHANGED lost

\* run() does not start an agent that is already cancelled ...
StartRun(i) ==
  /\ step[i].at = "dispatched"
  /\ Set(i, IF step[i].cut
              THEN [step[i] EXCEPT !.at = "returned", !.result = "cancelled"]
              ELSE [step[i] EXCEPT !.at = "starting"])
  /\ OnlyStep /\ UNCHANGED lost

\* ... but EscMonitor.start clears the event after that check.
ClearEvent(i) ==
  /\ step[i].at = "starting"
  /\ Set(i, [step[i] EXCEPT !.at = "running", !.cut = FALSE])
  /\ lost' = IF step[i].cut THEN lost \cup {i} ELSE lost
  /\ OnlyStep

\* The agent answers, or fails by itself.
AgentEnds(i) ==
  /\ step[i].at = "running"
  /\ \E r \in {"ok", "error"} :
       Set(i, [step[i] EXCEPT !.at = "returned", !.result = r])
  /\ OnlyStep /\ UNCHANGED lost

\* ProcessRunner sees the event and ends the process.
AgentCut(i) ==
  /\ step[i].at = "running" /\ step[i].cut
  /\ Set(i, [step[i] EXCEPT !.at = "returned", !.result = "cancelled"])
  /\ OnlyStep /\ UNCHANGED lost

\* What follows a dispatch: its result, the cancellation, or a fallback.
AfterDispatch(s) ==
  IF s.result = "ok" THEN [s EXCEPT !.at = "store"]
  ELSE IF IsCancelled THEN [s EXCEPT !.at = "store", !.result = "cancelled"]
  ELSE IF s.target < call.targets THEN [s EXCEPT !.at = "ask", !.target = @ + 1]
  ELSE [s EXCEPT !.at = "store"]

DispatchReturns(i) ==
  /\ step[i].at = "returned"
  /\ Set(i, AfterDispatch(step[i]))
  /\ OnlyStep /\ UNCHANGED lost

\* Mutant of Stored: a late result is stored too.
StoredLate(i) ==
  IF call.parallel
    THEN [results EXCEPT ![i] = IF step[i].result = "ok" THEN "ok" ELSE "error"]
    ELSE results

\* run_step stores under results_lock, unless the step was given up.
Stored(i) ==
  IF call.parallel /\ i \notin timedOut
    THEN [results EXCEPT ![i] = IF step[i].result = "ok" THEN "ok" ELSE "error"]
    ELSE results

StoreResult(i) ==
  /\ step[i].at = "store"
  /\ results' = Stored(i)
  /\ Set(i, [step[i] EXCEPT !.at = "done"])
  /\ UNCHANGED <<call, pc, next, rows, entry, caller, request, time, watching,
                 fault, lost>>

----------------------------------------------------------------------------
(* Cancellation.                                                            *)

\* The watcher polls the signal, cancels the handles it guards and ends.
WatcherCuts ==
  /\ watching # {} /\ Signal
  /\ step' = [i \in Steps |->
                IF i \in watching THEN HandleCancelled(step[i]) ELSE step[i]]
  /\ watching' = {}
  /\ UNCHANGED <<call, pc, next, rows, entry, caller, request, results, time,
                 fault, lost>>

\* notifications/cancelled, for a caller that waits.
CancelRequest ==
  /\ call.wait /\ ~request /\ pc \notin {"start", "over"}
  /\ request' = TRUE
  /\ UNCHANGED <<call, pc, next, rows, entry, caller, step, results, time,
                 watching, fault, lost>>

\* tasks_cancel looks the delegation up (nobody does after its end) ...
FindDelegation(c) ==
  /\ caller[c] = "idle" /\ pc \notin {"start", "over"}
  /\ caller' = [caller EXCEPT ![c] = IF registered THEN "found" ELSE "unknown"]
  /\ UNCHANGED <<call, pc, next, rows, entry, request, step, results, time,
                 watching, fault, lost>>

\* Mutant of CancelReply: the entry does not know that it was finalized.
CancelReplyAlways == IF cancelled THEN "already_cancelling" ELSE "cancelled"

\* request_cancel, under the lock of the entry.
CancelReply ==
  IF finalized THEN "finalized"
  ELSE IF cancelled THEN "already_cancelling" ELSE "cancelled"

\* ... and later asks the entry it holds.
RequestCancel(c) ==
  /\ caller[c] = "found"
  /\ caller' = [caller EXCEPT ![c] = CancelReply]
  /\ cancelled' = (cancelled \/ CancelReply = "cancelled")
  /\ UNCHANGED <<call, pc, next, rows, registered, finalized, request, step,
                 results, time, watching, fault, lost>>

----------------------------------------------------------------------------
MainStep ==
  \/ StartTracking \/ SpawnThread \/ SequentialStep \/ SequentialDone
  \/ ParallelSteps \/ StartStep \/ JoinStep \/ SeesAlive \/ TimesOut
  \/ CutTimedOut \/ Gather \/ Leave \/ MarkFinalized \/ PersistRow
  \/ PersistJob \/ Report

HostFails == SpawnFails \/ StartStepFails \/ WriteFails \/ PoolRefuses

\* What the thread of a step does without its agent's answer.
StepThread(i) ==
  \/ AskTarget(i) \/ RegisterClient(i) \/ StartRun(i) \/ ClearEvent(i) \/ AgentCut(i)
  \/ DispatchReturns(i) \/ StoreResult(i)

Next ==
  \/ MainStep \/ HostFails
  \/ \E i \in Steps : StepThread(i) \/ AgentEnds(i)
  \/ WatcherCuts \/ CancelRequest
  \/ \E c \in Caller : FindDelegation(c) \/ RequestCancel(c)

Spec == Init /\ [][Next]_vars

\* Fairness: threads that are able to go on do so, the watcher polls, and time
\* passes.  Agents are not assumed to answer, nor anybody to cancel.
Fairness ==
  /\ WF_vars(MainStep) /\ WF_vars(WatcherCuts)
  /\ \A i \in Steps : WF_vars(StepThread(i))

FairSpec == Spec /\ Fairness

----------------------------------------------------------------------------
(* Properties.                                                              *)

\* Cancellation and outcome exclude each other, whatever a caller was holding
\* when the delegation ended: one told that the delegation is being cancelled
\* never sees it completed or failed, and one told that it was finalized never
\* sees it cancelled by nobody.  The one exception is the thread the host
\* refused, whose failure is written without the entry.
CancelOrOutcome ==
  \A c \in Caller :
    /\ caller[c] \in {"cancelled", "already_cancelling"} /\ fault # "thread"
         => row \notin {"completed", "failed"}
    /\ caller[c] = "finalized" /\ row = "cancelled"
         => \E d \in Caller : caller[d] = "cancelled"

\* A delegation is completed only if every step has its own result, in time:
\* no late answer makes up for a step that was given up, whatever the order of
\* the deadline, the answer and the lock of the results.
CompletedIsWhole ==
  row = "completed" =>
    /\ timedOut = {}
    /\ \A i \in Steps : step[i].result = "ok" /\ step[i].at = "done"

\* ... in states that have their type: the loops over steps stay inside them.
DelegationInv == DelegationTypeOK /\ CompletedIsWhole

\* When the delegation is over, the task, its job and the answer to the caller
\* tell the same story, unless the host refused a thread or a write.
OneStory ==
  pc = "over" /\ fault = "none" =>
    /\ row \in Outcomes /\ job = row
    /\ call.wait => report = row

\* A cancelled delegation closes without an answer of any agent: the signal
\* reaches the client of every step, whenever it registers.  The one exception
\* is an agent that started between the check of run() and the event it clears.
CancelCloses ==
  Signal ~> (pc = "over" \/ \E i \in lost : step[i].at = "running")

\* Parallel steps close without an answer of any agent: no step can hold the
\* call beyond the deadline.
ParallelCloses == call.parallel ~> (pc = "over")
=============================================================================
