-------------------------------- MODULE Chat --------------------------------
(***************************************************************************)
(* quimera/app/chat_lifecycle.py and what it drives: prompts from their    *)
(* acceptance to the end of their round, over the slots of --threads, with *)
(* /stop of one prompt, Ctrl+C of the round, the failover between agents,  *)
(* and the failures that suspend an agent (agent_failure_tracker.py,       *)
(* agent_pool.py).                                                         *)
(*                                                                         *)
(* A prompt passes from the main loop (chat_processor.py) to the           *)
(* ChatWorker (worker.py) to a thread of the executor.  A main loop that   *)
(* finds a free slot reserves it; a prompt it finds none for waits for one *)
(* inside a thread of the executor.  An agent runs in a fork of the        *)
(* AgentClient whose cancel event also answers for the round's event       *)
(* (agents/cancel_signal.py).                                              *)
(***************************************************************************)
EXTENDS Naturals, FiniteSets

CONSTANTS
  Agent,      \* the agents of the pool
  Prompt,     \* prompts, by the order in which they are accepted
  Settings    \* the sessions considered: --threads, and how many prompts are
              \* written, how many /stop and Ctrl+C, and how an agent may end

ASSUME ChatAssumption ==
  /\ IsFiniteSet(Agent) /\ Agent # {}
  /\ Prompt \subseteq Nat \ {0} /\ IsFiniteSet(Prompt)
  /\ Settings \subseteq
       [threads : Nat \ {0}, prompts : Nat, stops : Nat, interrupts : Nat,
        results : SUBSET {"answer", "silent", "error", "limited", "fatal"}]

VARIABLES
  setting,     \* the session
  pc,          \* where each prompt is
  reserved,    \* prompts the main loop reserved a slot for
  slots,       \* the semaphore and the two counters of runtime_state.py
  book,        \* the sets of ChatLifecycle, and the status on the screen
  run,         \* the round of each prompt and the fork that runs its agent
  event,       \* the cancel event of the round
  ctrlC,       \* progress of a Ctrl+C and the prompts it is going to cancel
  stop,        \* progress of the /stop of each prompt, and if it holds a fork
  caught,      \* prompts with a fork from before the event was set
  suspended,   \* agents out of the rotation
  failures,    \* consecutive failures, up to FAILURE_THRESHOLD
  strikes      \* agents with a strike since their last success

tracker == <<suspended, failures, strikes>>
signals == <<event, ctrlC, stop, caught>>
vars == <<setting, pc, reserved, slots, book, run, signals, tracker>>

Threshold == 2

\* async_capacity: threads of the executor, and slots.
threads == setting.threads

\* In threads each prompt asks an agent once; alone it retries.
Attempts == IF threads > 1 THEN 1 ELSE 2

Terminal == {"completed", "failed", "cancelled"}

\* Prompts in a thread of the executor, and those of them that hold a slot.
Started == {"starting", "reset", "ask", "bound", "clearing", "running", "judge",
            "failing", "ended", "leaving"}
InThread == Started \cup {"waiting", "returned"}
HasFork == {"bound", "clearing", "running"}

Busy == { p \in Prompt : pc[p] \in InThread }

\* Prompts that own a permit of the semaphore, and those counted as pending.
Waiting == { p \in Prompt : /\ pc[p] \in {"sent", "submitted", "waiting"}
                            /\ p \notin reserved }
Holding == { p \in Prompt : \/ pc[p] \in {"sent", "submitted"} /\ p \in reserved
                            \/ pc[p] \in Started }

Run == [agent : Agent, candidates : SUBSET Agent, first : BOOLEAN, attempt : 1..Attempts,
        cut : BOOLEAN, lost : BOOLEAN, reply : {"none", "answer", "raised"}]

NoRun == [agent |-> CHOOSE a \in Agent : TRUE, candidates |-> {}, first |-> TRUE,
          attempt |-> 1, cut |-> FALSE, lost |-> FALSE, reply |-> "none"]

ChatTypeOK ==
  /\ setting \in Settings
  /\ pc \in [Prompt -> {"new", "accepted", "sent", "submitted", "waiting", "returned",
                        "over"} \cup Started]
  /\ reserved \subseteq Prompt
  /\ slots \in [permits : 0..threads, inflight : 0..threads,
               pending : 0..Cardinality(Prompt)]
  /\ book \in [active : SUBSET Prompt, queued : SUBSET Prompt,
               cancelled : SUBSET Prompt, listed : SUBSET Prompt,
               shown : [Prompt -> {"open"} \cup Terminal]]
  /\ run \in [Prompt -> Run]
  /\ event \in BOOLEAN
  /\ ctrlC \in [at : {"no", "set", "chosen"}, victims : SUBSET Prompt,
                count : 0..setting.interrupts]
  /\ stop \in [Prompt -> [at : {"no", "marked", "published", "done"},
                          fork : BOOLEAN]]
  /\ caught \subseteq Prompt
  /\ suspended \subseteq Agent /\ strikes \subseteq Agent
  /\ failures \in [Agent -> 0..Threshold]

Init ==
  /\ setting \in Settings
  /\ pc = [p \in Prompt |-> "new"] /\ reserved = {}
  /\ slots = [permits |-> setting.threads, inflight |-> 0, pending |-> 0]
  /\ book = [active |-> {}, queued |-> {}, cancelled |-> {}, listed |-> {},
             shown |-> [p \in Prompt |-> "open"]]
  /\ run = [p \in Prompt |-> NoRun]
  /\ event = FALSE /\ ctrlC = [at |-> "no", victims |-> {}, count |-> 0]
  /\ stop = [p \in Prompt |-> [at |-> "no", fork |-> FALSE]] /\ caught = {}
  /\ suspended = {} /\ strikes = {} /\ failures = [a \in Agent |-> 0]

----------------------------------------------------------------------------
(* The registry: update_submission_status and register_submission.         *)

Registered(b, p) ==
  [b EXCEPT !.active = @ \cup {p}, !.listed = @ \cup {p}]

\* The status of every prompt of P becomes s.  A cancelled prompt only takes
\* a terminal one, and the screen keeps the first terminal one it is given.
Updated(b, P, s) ==
  LET Q == IF s \in Terminal THEN P ELSE P \ b.cancelled
  IN [active |-> IF s \in Terminal THEN b.active \ Q ELSE b.active \cup Q,
      queued |-> IF s \in {"queued", "starting"} THEN b.queued \cup Q
                                                 ELSE b.queued \ Q,
      cancelled |-> IF s = "cancelled" THEN b.cancelled \cup Q ELSE b.cancelled \ Q,
      listed |-> IF s \in Terminal THEN b.listed \ Q ELSE b.listed,
      shown |-> [q \in Prompt |->
                   IF q \in Q /\ s \in Terminal /\ b.shown[q] = "open"
                     THEN s ELSE b.shown[q]]]

Forgotten(b, p) == [b EXCEPT !.cancelled = @ \ {p}]

\* Mutant of Unstarted: a prompt that never ran leaves the counter only.
UnstartedKeepsPermit(p) ==
  IF p \in reserved THEN [slots EXCEPT !.inflight = @ - 1]
                    ELSE [slots EXCEPT !.pending = @ - 1]

\* _release_unstarted_slot
Unstarted(p) ==
  IF p \in reserved
    THEN [slots EXCEPT !.inflight = @ - 1, !.permits = @ + 1]
    ELSE [slots EXCEPT !.pending = @ - 1]

\* _is_processing_cancelled
IsCancelled(p) == p \in book.cancelled \/ event

----------------------------------------------------------------------------
(* The pool and the failure tracker.                                       *)

Available == Agent \ suspended

\* take_primary: an available agent; with all of them suspended, the one that
\* returns first is probed.  An agent the prompt names is asked in any case.
\* Neither the rotation nor the deadlines are kept: any agent may be chosen.
TakePrimary == Agent

RecordSuccess(a) ==
  /\ failures' = [failures EXCEPT ![a] = 0]
  /\ strikes' = strikes \ {a} /\ suspended' = suspended \ {a}

Suspended(a) == strikes' = strikes \cup {a} /\ suspended' = suspended \cup {a}

RecordFailure(a) ==
  LET n == IF failures[a] = Threshold THEN Threshold ELSE failures[a] + 1
  IN /\ failures' = [failures EXCEPT ![a] = n]
     /\ IF n = Threshold THEN Suspended(a) ELSE UNCHANGED <<strikes, suspended>>

RecordRateLimited(a) == Suspended(a) /\ UNCHANGED failures

\* The deadline of a suspension passes.
CooldownEnds(a) ==
  /\ a \in suspended
  /\ suspended' = suspended \ {a}
  /\ UNCHANGED <<setting, pc, reserved, slots, book, run, signals, failures, strikes>>

----------------------------------------------------------------------------
(* From the human to a thread of the executor.                             *)

Goes(p, to) == pc' = [pc EXCEPT ![p] = to]

\* p is the oldest prompt at this stage: the queues are first in, first out.
IsNext(p, stage) ==
  pc[p] = stage /\ \A q \in Prompt : pc[q] = stage => p <= q

\* The screen accepts the line and registers it (bridge.submit_input).
Accept(p) ==
  /\ IsNext(p, "new") /\ p <= setting.prompts /\ Goes(p, "accepted")
  /\ book' = Registered(book, p)
  /\ UNCHANGED <<setting, reserved, slots, run, signals, tracker>>

\* The main loop reads it, and reserves a slot when one is free.
Enqueue(p) ==
  /\ IsNext(p, "accepted") /\ Goes(p, "sent")
  /\ book' = Updated(book, {p}, "queued")
  /\ \/ /\ slots.permits > 0
        /\ slots' = [slots EXCEPT !.permits = @ - 1, !.inflight = @ + 1]
        /\ reserved' = reserved \cup {p}
     \/ /\ slots.permits = 0
        /\ slots' = [slots EXCEPT !.pending = @ + 1]
        /\ UNCHANGED reserved
  /\ UNCHANGED <<setting, run, signals, tracker>>

\* ChatWorker: submit_async_message.
SubmitAsync(p) ==
  /\ IsNext(p, "sent")
  /\ \/ /\ p \in book.cancelled
        /\ Goes(p, "over")
        /\ slots' = Unstarted(p) /\ book' = Forgotten(book, p)
     \/ /\ p \notin book.cancelled
        /\ Goes(p, "submitted")
        /\ book' = IF p \in reserved THEN Updated(book, {p}, "starting") ELSE book
        /\ UNCHANGED slots
  /\ UNCHANGED <<setting, reserved, run, signals, tracker>>

\* A thread of the executor takes the next call: process_async_message or
\* process_queued_message.
StartFuture(p) ==
  /\ IsNext(p, "submitted") /\ Cardinality(Busy) < threads
  /\ Goes(p, IF p \in reserved THEN "starting" ELSE "waiting")
  /\ UNCHANGED <<setting, reserved, slots, book, run, signals, tracker>>

\* The wait for a slot ends with one.
Promote(p) ==
  /\ pc[p] = "waiting" /\ slots.permits > 0 /\ Goes(p, "starting")
  /\ slots' = [permits |-> slots.permits - 1, pending |-> slots.pending - 1,
               inflight |-> slots.inflight + 1]
  /\ book' = Updated(book, {p}, "starting")
  /\ UNCHANGED <<setting, reserved, run, signals, tracker>>

\* ... or because the prompt was cancelled.
LeaveQueue(p) ==
  /\ pc[p] = "waiting" /\ p \in book.cancelled /\ Goes(p, "returned")
  /\ slots' = [slots EXCEPT !.pending = @ - 1]
  /\ book' = Updated(book, {p}, "cancelled")
  /\ UNCHANGED <<setting, reserved, run, signals, tracker>>

\* Mutant of QueueTimeout: the wait has no limit.
QueueForever(p) == FALSE /\ UNCHANGED vars

\* ... or at queue_wait_timeout_seconds, with ChatQueueWaitTimeoutError.
QueueTimeout(p) ==
  /\ pc[p] = "waiting" /\ slots.permits = 0 /\ Goes(p, "returned")
  /\ slots' = [slots EXCEPT !.pending = @ - 1]
  /\ run' = [run EXCEPT ![p].reply = "raised"]
  /\ UNCHANGED <<setting, reserved, book, signals, tracker>>

----------------------------------------------------------------------------
(* The round: process_message and ChatRoundOrchestrator.process.           *)

\* A prompt cancelled in the queue ends here, under the entry it registers
\* again; any other clears the cancellation of the round before it.
StartMessage(p) ==
  LET b == IF p \in book.listed THEN book ELSE Registered(book, p)
  IN /\ pc[p] = "starting"
     /\ \/ /\ p \in b.cancelled
           /\ Goes(p, "leaving") /\ book' = Updated(b, {p}, "cancelled")
           /\ UNCHANGED event
        \/ /\ p \notin b.cancelled
           /\ Goes(p, "reset") /\ book' = b
           /\ event' = FALSE
     /\ UNCHANGED <<setting, reserved, slots, run, ctrlC, stop, caught, tracker>>

\* The prompt is running; the agent is the one it names, or the next one.
StartRound(p) ==
  /\ pc[p] = "reset" /\ Goes(p, "ask")
  /\ book' = Updated(book, {p}, "running")
  /\ \E a \in TakePrimary :
       run' = [run EXCEPT ![p] = [NoRun EXCEPT !.agent = a]]
  /\ UNCHANGED <<setting, reserved, slots, signals, tracker>>

\* A fork of the client is made and registered (_bind_chat_client), which
\* cancels it at once when the prompt was cancelled.
Bind(p) ==
  /\ pc[p] = "ask" /\ Goes(p, "bound")
  /\ run' = [run EXCEPT ![p].attempt = 1, ![p].cut = p \in book.cancelled,
                        ![p].lost = FALSE]
  /\ book' = Updated(book, {p}, "running")
  /\ UNCHANGED <<setting, reserved, slots, signals, tracker>>

\* (Bookkeeping of InterruptReachesRun.)
StillCaught == caught' = { p \in caught : pc'[p] \in HasFork }

\* The call of the agent, and AgentClient.run up to its check of the event.
CheckRun(p) ==
  /\ pc[p] = "bound"
  /\ \/ /\ run[p].cut \/ event
        /\ Goes(p, "judge") /\ run' = [run EXCEPT ![p].reply = "none"]
     \/ /\ ~run[p].cut /\ ~event
        /\ Goes(p, "clearing") /\ UNCHANGED run
  /\ StillCaught
  /\ UNCHANGED <<setting, reserved, slots, book, event, ctrlC, stop, tracker>>

\* EscMonitor.start clears the event of the fork, and with it a /stop that
\* came after the check.
ClearEvent(p) ==
  /\ pc[p] = "clearing" /\ Goes(p, "running")
  /\ run' = [run EXCEPT ![p].lost = @ \/ run[p].cut, ![p].cut = FALSE]
  /\ UNCHANGED <<setting, reserved, slots, book, signals, tracker>>

\* ProcessRunner sees the event of the fork or of the round; or the agent ends,
\* and the flag of a /stop whose event was cleared (user_cancelled) drops what
\* it answered.
RunCut(p) ==
  /\ pc[p] = "running"
  /\ run[p].cut \/ run[p].lost \/ event
  /\ Goes(p, "judge")
  /\ run' = [run EXCEPT ![p].reply = "none"]
  /\ StillCaught
  /\ UNCHANGED <<setting, reserved, slots, book, event, ctrlC, stop, tracker>>

\* The agent ends by itself.  A failure is tried again while attempts are
\* left, except a fatal one and a limit too long to wait for; an exception on
\* the last attempt leaves the round.
RunEnds(p) ==
  /\ pc[p] = "running" /\ ~run[p].cut
  /\ \E result \in setting.results :
       LET a == run[p].agent
           again == /\ result \in {"silent", "error", "limited"}
                    /\ run[p].attempt < Attempts
           reply == CASE result = "answer" -> "answer"
                      [] result = "error" -> "raised"
                      [] OTHER -> "none"
       IN \/ /\ again
             /\ Goes(p, "bound") /\ run' = [run EXCEPT ![p].attempt = @ + 1]
             /\ UNCHANGED tracker
          \/ /\ ~again \/ result = "limited"
             /\ Goes(p, IF reply = "raised" THEN "failing" ELSE "judge")
             /\ run' = [run EXCEPT ![p].reply = reply]
             /\ CASE result = "answer" -> RecordSuccess(a)
                  [] result = "limited" -> RecordRateLimited(a)
                  [] OTHER -> RecordFailure(a)
  /\ StillCaught
  /\ UNCHANGED <<setting, reserved, slots, book, event, ctrlC, stop>>

\* Mutant of Judge: the failover does not look at the cancellation.
JudgeAnswerOnly(p) ==
  /\ pc[p] = "judge"
  /\ LET others == Available \ {run[p].agent}
         left == IF run[p].first THEN others ELSE run[p].candidates
     IN \/ /\ run[p].reply = "answer"
           /\ Goes(p, "ended") /\ UNCHANGED run
        \/ /\ run[p].reply # "answer" /\ left = {}
           /\ Goes(p, "failing") /\ run' = [run EXCEPT ![p].reply = "raised"]
        \/ /\ run[p].reply # "answer" /\ left # {}
           /\ Goes(p, "ask")
           /\ \E a \in left :
                run' = [run EXCEPT ![p].agent = a, ![p].first = FALSE,
                                   ![p].candidates = left \ {a}]
  /\ UNCHANGED <<setting, reserved, slots, book, signals, tracker>>

\* The round goes on with what the agent returned: an answer is printed; with
\* none the next of the agents available at the first failure is asked.
Judge(p) ==
  /\ pc[p] = "judge"
  /\ LET others == Available \ {run[p].agent}
         left == IF run[p].first THEN others ELSE run[p].candidates
     IN \/ /\ IsCancelled(p) \/ run[p].reply = "answer"
           /\ Goes(p, "ended") /\ UNCHANGED run
        \/ /\ ~IsCancelled(p) /\ run[p].reply # "answer" /\ left = {}
           /\ Goes(p, "failing") /\ run' = [run EXCEPT ![p].reply = "raised"]
        \/ /\ ~IsCancelled(p) /\ run[p].reply # "answer" /\ left # {}
           /\ Goes(p, "ask")
           /\ \E a \in left :
                run' = [run EXCEPT ![p].agent = a, ![p].first = FALSE,
                                   ![p].candidates = left \ {a}]
  /\ UNCHANGED <<setting, reserved, slots, book, signals, tracker>>

\* process_message publishes how the round ended: an exception ...
Fail(p) ==
  /\ pc[p] = "failing" /\ Goes(p, "leaving")
  /\ book' = Updated(book, {p}, "failed")
  /\ UNCHANGED <<setting, reserved, slots, run, signals, tracker>>

\* ... or not.
Conclude(p) ==
  /\ pc[p] = "ended" /\ Goes(p, "leaving")
  /\ book' = Updated(book, {p}, IF IsCancelled(p) THEN "cancelled" ELSE "completed")
  /\ UNCHANGED <<setting, reserved, slots, run, signals, tracker>>

\* The slot is free before the thread is.
Leave(p) ==
  /\ pc[p] = "leaving" /\ Goes(p, "returned")
  /\ slots' = [slots EXCEPT !.inflight = @ - 1, !.permits = @ + 1]
  /\ UNCHANGED <<setting, reserved, book, run, signals, tracker>>

\* Mutant of SubmissionDone: only rounds publish a status.
SubmissionDoneQuietly(p) ==
  /\ pc[p] = "returned" /\ Goes(p, "over")
  /\ book' = Forgotten(book, p)
  /\ run' = [run EXCEPT ![p] = NoRun]
  /\ UNCHANGED <<setting, reserved, slots, signals, tracker>>

\* _on_submission_done, in the thread of the executor.
SubmissionDone(p) ==
  /\ pc[p] = "returned" /\ Goes(p, "over")
  /\ book' = IF run[p].reply = "raised" THEN Updated(book, {p}, "failed")
                                        ELSE Forgotten(book, p)
  /\ run' = [run EXCEPT ![p] = NoRun]
  /\ UNCHANGED <<setting, reserved, slots, signals, tracker>>

----------------------------------------------------------------------------
(* /stop of one prompt (stop_chat_submission).                             *)

Stops == Cardinality({ p \in Prompt : stop[p].at # "no" })

\* Under the lock: the prompt is cancelled, and its fork is read.
StopMark(p) ==
  /\ stop[p].at = "no" /\ p \in book.listed /\ Stops < setting.stops
  /\ stop' = [stop EXCEPT ![p] = [at |-> "marked", fork |-> pc[p] \in HasFork]]
  /\ book' = [book EXCEPT !.cancelled = @ \cup {p}]
  /\ UNCHANGED <<setting, pc, reserved, slots, run, event, ctrlC, caught, tracker>>

\* The status is published and its future cancelled: one that no thread took
\* calls _on_submission_done here.
StopPublish(p) ==
  /\ stop[p].at = "marked"
  /\ stop' = [stop EXCEPT ![p].at = "published"]
  /\ IF pc[p] = "submitted"
       THEN /\ Goes(p, "over") /\ slots' = Unstarted(p)
            /\ book' = Forgotten(Updated(book, {p}, "cancelled"), p)
       ELSE /\ book' = Updated(book, {p}, "cancelled")
            /\ UNCHANGED <<pc, slots>>
  /\ UNCHANGED <<setting, reserved, run, event, ctrlC, caught, tracker>>

\* Mutant of StopFork: the fork is looked up again, when it may be gone.
StopForkOfRunning(p) ==
  /\ stop[p].at = "published"
  /\ stop' = [stop EXCEPT ![p] = [at |-> "done", fork |-> FALSE]]
  /\ run' = [run EXCEPT ![p].cut = @ \/ pc[p] = "running"]
  /\ UNCHANGED <<setting, pc, reserved, slots, book, event, ctrlC, caught, tracker>>

\* cancel_own_work of the fork that was read.
StopFork(p) ==
  /\ stop[p].at = "published"
  /\ stop' = [stop EXCEPT ![p] = [at |-> "done", fork |-> FALSE]]
  /\ run' = [run EXCEPT ![p].cut = @ \/ (stop[p].fork /\ pc[p] \in HasFork)]
  /\ UNCHANGED <<setting, pc, reserved, slots, book, event, ctrlC, caught, tracker>>

----------------------------------------------------------------------------
(* Ctrl+C (handle_local_interrupt).                                        *)

\* cancel_active_work of the round's client.
Interrupt ==
  /\ ctrlC.at = "no" /\ ctrlC.count < setting.interrupts
  /\ slots.inflight + slots.pending > 0
  /\ ctrlC' = [at |-> "set", victims |-> {}, count |-> ctrlC.count + 1]
  /\ event' = TRUE
  /\ caught' = { p \in Prompt : pc[p] \in HasFork }
  /\ UNCHANGED <<setting, pc, reserved, slots, book, run, stop, tracker>>

\* Under the lock: what is accepted and not in the queue is cancelled.
ChooseVictims ==
  /\ ctrlC.at = "set"
  /\ ctrlC' = [ctrlC EXCEPT !.at = "chosen", !.victims = book.active \ book.queued]
  /\ UNCHANGED <<setting, pc, reserved, slots, book, run, event, stop, caught, tracker>>

\* No victim has a future that can still be cancelled: those are queued.
CancelVictims ==
  /\ ctrlC.at = "chosen"
  /\ ctrlC' = [ctrlC EXCEPT !.at = "no", !.victims = {}]
  /\ book' = Updated(book, ctrlC.victims, "cancelled")
  /\ UNCHANGED <<setting, pc, reserved, slots, run, event, stop, caught, tracker>>

----------------------------------------------------------------------------
Advance(p) ==
  \/ Enqueue(p) \/ SubmitAsync(p) \/ StartFuture(p)
  \/ Promote(p) \/ LeaveQueue(p) \/ QueueTimeout(p)
  \/ StartMessage(p) \/ StartRound(p) \/ Bind(p) \/ CheckRun(p) \/ ClearEvent(p)
  \/ RunCut(p) \/ RunEnds(p) \/ Judge(p) \/ Fail(p) \/ Conclude(p)
  \/ Leave(p) \/ SubmissionDone(p)

Stopping(p) == StopPublish(p) \/ StopFork(p)

Interrupting == ChooseVictims \/ CancelVictims

Next ==
  \/ \E p \in Prompt : Accept(p) \/ Advance(p) \/ StopMark(p) \/ Stopping(p)
  \/ Interrupt \/ Interrupting
  \/ \E a \in Agent : CooldownEnds(a)

Spec == Init /\ [][Next]_vars

\* Threads advance; the limits on waiting for a slot and on running an agent
\* make a thread that waits or runs advance too.
FairSpec == Spec /\ \A p \in Prompt : WF_vars(Advance(p))

----------------------------------------------------------------------------
(* Properties.                                                             *)

\* A permit is held by one prompt or free, through reservations, promotions,
\* cancelled calls, stops and timeouts, and the counters agree: a slot is
\* neither lost nor handed out twice.
SlotsConserved ==
  /\ slots.permits + Cardinality(Holding) = threads
  /\ slots.inflight = Cardinality(Holding)
  /\ slots.pending = Cardinality(Waiting)

\* ... in states that have their type: no counter leaves its range.
ChatInv == ChatTypeOK /\ SlotsConserved

\* A /stop that returned has cut the agent of its prompt, whatever the
\* prompt was doing when it was marked, unless the run was just starting.
StopReachesRun ==
  \A p \in Prompt :
    stop[p].at = "done" /\ pc[p] \in HasFork => run[p].cut \/ run[p].lost

\* docs/referencia/comandos.md:62: a stopped prompt asks no other agent, and
\* is not a failure of the one it was asking.
StopIsFinal ==
  [][\A p \in Prompt :
       stop[p].at = "done" /\ ~run[p].lost =>
         /\ pc[p] = "judge" => pc'[p] # "ask"
         /\ pc[p] = "bound" => pc'[p] # "clearing"
         /\ pc[p] = "running" /\ pc'[p] # "running" =>
              UNCHANGED <<failures, strikes>>]_vars

\* With one thread, Ctrl+C is not erased before the agent it was meant for
\* saw it, neither by the start of that agent nor by the prompt that comes
\* next (agents/cancel_signal.py:11-15).  With more threads it may be.
InterruptReachesRun == threads = 1 /\ caught # {} => event

\* Neither a /stop nor a Ctrl+C is lost on its way to the run it is meant for,
\* in whatever order forks, checks, clears and the next prompts meet it.
CancelReachesRun == StopReachesRun /\ InterruptReachesRun

\* A prompt that is over is neither active, queued nor listed (a late /stop may
\* leave it among the cancelled ones), and the screen shows how it ended, unless
\* a /stop or a Ctrl+C is about to say so.
NothingLeftBehind ==
  \A p \in Prompt :
    /\ pc[p] = "over"
    /\ stop[p].at # "marked" /\ p \notin ctrlC.victims
    => /\ p \notin book.active \cup book.queued \cup book.listed
       /\ book.shown[p] # "open"

\* Every accepted prompt ends, also one that waits in the only thread for a
\* slot reserved for a prompt that is queued behind it.
EveryPromptEnds == \A p \in Prompt : pc[p] = "accepted" ~> pc[p] = "over"
=============================================================================
