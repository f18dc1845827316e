---------------------------- MODULE InputBroker ----------------------------
(***************************************************************************)
(* The input broker of the runtime (runtime/input_broker.py) over the two  *)
(* gates that read the user: the pipe gate (app/simple_input_gate.py),     *)
(* whose lines go in order to whoever asks, and the Textual gate           *)
(* (ui/textual/input_gate.py), whose submissions go to a queue that every  *)
(* open prompt reads.                                                      *)
(*                                                                         *)
(* Producers, the threads of tool calls, publish a request and wait for    *)
(* its result or its deadline.  The broker's own thread serves the queue;  *)
(* with the Textual gate the threads that watch a driver pump it as well.  *)
(* The actions of the producers are composed with the approval of a tool   *)
(* call in ToolApproval.                                                   *)
(***************************************************************************)
EXTENDS Naturals, Sequences, FiniteSets

CONSTANTS
    Request,       \* the tool calls; each may make one request
    Cancellable,   \* those whose run may be cancelled meanwhile
    Tool,          \* the tools they may be of; "ask_user" is one
    Manager,       \* the approval managers of the chat and of its forks
    Jobs,          \* what the calls of a session may be
    consumer,      \* the thread of the broker
    Pump,          \* the threads that wait for a driver
    Gate,          \* the gates a session may have: "pipe", "textual"
    MaxLines       \* bound: lines the user writes

ASSUME BrokerAssumption ==
    /\ Jobs \subseteq [Request -> [tool : Tool, manager : Manager]]
    /\ IsFiniteSet(Request) /\ Cancellable \subseteq Request
    /\ consumer \notin Pump
    /\ Gate \subseteq {"pipe", "textual"}
    /\ MaxLines \in Nat

VARIABLES
    job,         \* the tool and the manager of each call
    gate,        \* the gate of the session
    mounted,     \* the Textual app is mounted
    active,      \* the _active flag of the Textual gate
    lines,       \* lines of the reader's deque, or of direct_input_queue
    typed,       \* lines written so far
    waiters,     \* _direct_waiters
    queue,       \* the broker's queue
    req,         \* the request objects
    producer,    \* where each producer is
    reader,      \* what each consuming thread does
    standing     \* approve_all and pre_approved of each manager

brokerVars == <<job, gate, mounted, active, lines, typed, waiters, queue,
                req, producer, reader, standing>>

Thread == {consumer} \cup Pump

\* A question with options; every other call asks for its approval.
Asks(r) == job[r].tool = "ask_user"

\* What a line says to an approval: y, a or anything else.  To a selection
\* only "yes" is one of the options.
Line == {"yes", "all", "no"}

\* A request object, with the last line that was read for it.
InputRequest ==
    [done : BOOLEAN, expired : BOOLEAN, claimed : BOOLEAN,
     cancelled : BOOLEAN, reserved : BOOLEAN,
     heard : Line \cup {"none"},
     result : {"none", "denied", "approved", "answered", "unanswered"}]

NewRequest == [done |-> FALSE, expired |-> FALSE, claimed |-> FALSE,
               cancelled |-> FALSE, reserved |-> FALSE,
               heard |-> "none", result |-> "none"]

IdleReader == [at |-> "idle"]
Serving(t) == reader[t].at # "idle"
Reading(t) == reader[t].at = "reading"

BrokerInit ==
    /\ job \in Jobs
    /\ gate \in Gate
    /\ mounted = FALSE /\ active = FALSE
    /\ lines = <<>> /\ typed = 0
    /\ waiters = 0
    /\ queue = <<>>
    /\ req = [r \in Request |-> NewRequest]
    /\ producer = [r \in Request |-> "idle"]
    /\ reader = [t \in Thread |-> IdleReader]
    /\ standing = [m \in Manager |-> {}]

-----------------------------------------------------------------------------
(***************************************************************************)
(* The request: the first conclusion counts and releases the reservation.  *)
(***************************************************************************)

\* Mutant of Released: the conclusion forgets the reservation.
ReleasedByAnswer(r, n) == n

\* What is left of the reservations when request r concludes: release is
\* idempotent.
Released(r, n) == IF ~req[r].done /\ req[r].reserved THEN n - 1 ELSE n

SetResult(r, value) ==
    IF req[r].done THEN req[r]
    ELSE [req[r] EXCEPT !.done = TRUE, !.result = value, !.reserved = FALSE]

\* The answer of a request nobody answered: denied, or unanswered.
Default(r) == IF Asks(r) THEN "unanswered" ELSE "denied"

ShouldAbort(r) == req[r].done \/ req[r].expired \/ req[r].cancelled

\* Request r concludes with value; `extra` readers leave the gate in the
\* same step.
Conclude(r, value, extra) ==
    /\ req' = [req EXCEPT ![r] = SetResult(r, value)]
    /\ waiters' = Released(r, waiters) - extra

Outstanding(r) == producer[r] \in {"waiting", "grace", "late"} /\ ~req[r].done

-----------------------------------------------------------------------------
(***************************************************************************)
(* Producers.                                                              *)
(***************************************************************************)

\* Mutant of Ask: the reservation is left to the reader of the prompt.
AskUnreserved(r) ==
    /\ producer[r] = "idle"
    /\ producer' = [producer EXCEPT ![r] = "asking"]
    /\ UNCHANGED <<job, gate, mounted, active, lines, typed, waiters, queue,
                   req, reader, standing>>

\* The request is created; over a pipe the next line of stdin is reserved
\* before the request is in the queue.
Ask(r) ==
    /\ producer[r] = "idle"
    /\ producer' = [producer EXCEPT ![r] = "asking"]
    /\ IF gate = "pipe"
       THEN /\ req' = [req EXCEPT ![r].reserved = TRUE]
            /\ waiters' = waiters + 1
       ELSE UNCHANGED <<req, waiters>>
    /\ UNCHANGED <<job, gate, mounted, active, lines, typed, queue, reader,
                   standing>>

\* A cancelled execution is denied before anything is published.
Refused(r) ==
    /\ producer[r] = "idle" /\ req[r].cancelled
    /\ producer' = [producer EXCEPT ![r] = "returned"]
    /\ Conclude(r, Default(r), 0)
    /\ UNCHANGED <<job, gate, mounted, active, lines, typed, queue, reader,
                   standing>>

Publish(r) ==
    /\ producer[r] = "asking"
    /\ producer' = [producer EXCEPT ![r] = "waiting"]
    /\ queue' = Append(queue, r)
    /\ UNCHANGED <<job, gate, mounted, active, lines, typed, waiters, req,
                   reader, standing>>

\* The wait sees the result.
Answered(r) ==
    /\ producer[r] \in {"waiting", "grace", "late"} /\ req[r].done
    /\ producer' = [producer EXCEPT ![r] = "returned"]
    /\ UNCHANGED <<job, gate, mounted, active, lines, typed, waiters, queue,
                   req, reader, standing>>

\* The wait sees the cancellation, or its last deadline: the grace after the
\* expiry, or the half minute a claimed request still has.  That time is
\* enough for a thread that took a line to conclude the request with it: only
\* a selection still reading is overtaken.
Gives(r) ==
    /\ \/ producer[r] = "waiting" /\ req[r].cancelled
       \/ producer[r] = "grace"
       \/ /\ producer[r] = "late"
          /\ \A t \in Thread : Serving(t) /\ reader[t].r = r
                                  => reader[t].at # "taken"
    /\ ~req[r].done
    /\ producer' = [producer EXCEPT ![r] = "returned"]
    /\ Conclude(r, Default(r), 0)
    /\ UNCHANGED <<job, gate, mounted, active, lines, typed, queue, reader,
                   standing>>

\* Mutant of TryExpire: the expiry does not look at the claim.
ExpireClaimed(r) ==
    /\ producer[r] = "waiting" /\ ~req[r].done
    /\ producer' = [producer EXCEPT ![r] = "grace"]
    /\ req' = [req EXCEPT ![r].expired = TRUE]
    /\ UNCHANGED <<job, gate, mounted, active, lines, typed, waiters, queue,
                   reader, standing>>

\* The deadline: the request expires unless a line is claimed for it.
TryExpire(r) ==
    /\ producer[r] = "waiting" /\ ~req[r].done
    /\ IF req[r].claimed
       THEN /\ producer' = [producer EXCEPT ![r] = "late"]
            /\ UNCHANGED req
       ELSE /\ producer' = [producer EXCEPT ![r] = "grace"]
            /\ req' = [req EXCEPT ![r].expired = TRUE]
    /\ UNCHANGED <<job, gate, mounted, active, lines, typed, waiters, queue,
                   reader, standing>>

\* The execution a request belongs to is cancelled.
Cancel(r) ==
    /\ r \in Cancellable /\ ~Asks(r)
    /\ ~req[r].cancelled /\ producer[r] # "returned"
    /\ req' = [req EXCEPT ![r].cancelled = TRUE]
    /\ UNCHANGED <<job, gate, mounted, active, lines, typed, waiters, queue,
                   producer, reader, standing>>

-----------------------------------------------------------------------------
(***************************************************************************)
(* Consumers: the broker's thread and the pumping threads.                 *)
(***************************************************************************)

\* The broker's thread leaves a prompt to the pumps while the Textual gate is
\* neither mounted nor reading.
ConsumerCanHandle == gate = "pipe" \/ mounted \/ active

\* Mutant of Pumps: a thread that watches an agent consumes over any gate.
PumpsAnyGate(t) == t \in Pump

\* A pump takes nothing from a pipe, whose requests are served in order.
Pumps(t) == t \in Pump /\ gate # "pipe"

\* The next request of the queue: skipped when it is done, resolved when it
\* is cancelled, put back when the broker's thread may not read.
Get(t) ==
    LET r == Head(queue) IN
    /\ t = consumer \/ Pumps(t)
    /\ reader[t].at = "idle" /\ queue # <<>>
    /\ \/ /\ req[r].done
          /\ queue' = Tail(queue)
          /\ UNCHANGED <<req, waiters, reader>>
       \/ /\ ~req[r].done /\ req[r].cancelled
          /\ queue' = Tail(queue)
          /\ Conclude(r, Default(r), 0)
          /\ UNCHANGED reader
       \/ /\ ~req[r].done /\ ~req[r].cancelled
          /\ t = consumer /\ ~ConsumerCanHandle
          /\ queue' = Append(Tail(queue), r)
          /\ UNCHANGED <<req, waiters, reader>>
       \/ /\ ~req[r].done /\ ~req[r].cancelled
          /\ t = consumer => ConsumerCanHandle
          /\ queue' = Tail(queue)
          /\ reader' = [reader EXCEPT ![t] = [at |-> "got", r |-> r]]
          /\ UNCHANGED <<req, waiters>>
    /\ UNCHANGED <<job, gate, mounted, active, lines, typed, producer,
                   standing>>

\* The thread starts to read: a direct read of the pipe waits like one more
\* reservation, a read of the Textual gate makes it active.
StartsReading(t, r) ==
    /\ reader' = [reader EXCEPT ![t] = [at |-> "reading", r |-> r]]
    /\ IF gate = "pipe"
       THEN waiters' = waiters + 1 /\ UNCHANGED active
       ELSE active' = TRUE /\ UNCHANGED waiters

Open(t) ==
    LET r == reader[t].r IN
    /\ reader[t].at = "got"
    /\ \/ /\ req[r].cancelled
          /\ Conclude(r, Default(r), 0)
          /\ reader' = [reader EXCEPT ![t] = IdleReader]
          /\ UNCHANGED active
       \/ /\ ~req[r].cancelled
          /\ StartsReading(t, r)
          /\ UNCHANGED req
    /\ UNCHANGED <<job, gate, mounted, lines, typed, queue, producer, standing>>

InPipe == IF gate = "pipe" THEN 1 ELSE 0

\* The read ends without a line: the request of a pipe was decided meanwhile,
\* stdin ended, or the time of the read is over.
Aborts(t) == gate = "pipe" /\ ShouldAbort(reader[t].r)

ReadsNothing(t) ==
    LET r == reader[t].r IN
    /\ Reading(t)
    /\ Conclude(r, Default(r), InPipe)
    /\ reader' = [reader EXCEPT ![t] = IdleReader]
    /\ active' = FALSE
    /\ UNCHANGED <<job, gate, mounted, lines, typed, queue, producer, standing>>

\* The next line.  A pipe claims it for the request in the same step, and
\* not for one that is done, expired or cancelled; the Textual gate knows no
\* request.
TakeLine(t) ==
    LET r == reader[t].r IN
    /\ Reading(t) /\ lines # <<>> /\ ~Aborts(t)
    /\ lines' = Tail(lines)
    /\ req' = [req EXCEPT ![r].heard = Head(lines),
                          ![r].claimed = @ \/ gate = "pipe"]
    /\ reader' = [reader EXCEPT ![t] =
                     [at |-> "taken", r |-> r, line |-> Head(lines)]]
    /\ waiters' = waiters - InPipe
    /\ active' = FALSE
    /\ UNCHANGED <<job, gate, mounted, typed, queue, producer, standing>>

\* What a line answers; a selection reads on after a line that is no option.
Answers(r, line) ==
    CASE Asks(r) -> IF line = "yes" THEN "answered" ELSE "none"
      [] OTHER -> IF line = "no" THEN "denied" ELSE "approved"

\* Mutant of Reply: the callback of "all" reaches the managers of the forks.
ReplyToForks(t) ==
    LET r == reader[t].r
        answer == Answers(r, reader[t].line)
    IN
    /\ reader[t].at = "taken" /\ answer # "none"
    /\ Conclude(r, answer, 0)
    /\ reader' = [reader EXCEPT ![t] = IdleReader]
    /\ standing' = IF ~Asks(r) /\ reader[t].line = "all"
                   THEN [m \in Manager |-> {"all"}]
                   ELSE standing
    /\ UNCHANGED <<job, gate, mounted, active, lines, typed, queue, producer>>

\* The line is the answer.  "all" approves every later call of the manager
\* first, and takes back a pending /approve.
Reply(t) ==
    LET r == reader[t].r
        answer == Answers(r, reader[t].line)
    IN
    /\ reader[t].at = "taken" /\ answer # "none"
    /\ Conclude(r, answer, 0)
    /\ reader' = [reader EXCEPT ![t] = IdleReader]
    /\ standing' = IF ~Asks(r) /\ reader[t].line = "all"
                   THEN [standing EXCEPT ![job[r].manager] = {"all"}]
                   ELSE standing
    /\ UNCHANGED <<job, gate, mounted, active, lines, typed, queue, producer>>

ReadsAgain(t) ==
    LET r == reader[t].r IN
    /\ reader[t].at = "taken" /\ Answers(r, reader[t].line) = "none"
    /\ StartsReading(t, r)
    /\ UNCHANGED <<job, gate, mounted, lines, typed, queue, req, producer,
                   standing>>

-----------------------------------------------------------------------------
(***************************************************************************)
(* The user, stdin and the chat.                                           *)
(***************************************************************************)

\* A line of stdin, whose end is that nothing more is written, or a submission
\* while a prompt of the Textual app is open (any other goes to the chat).
Write(line) ==
    /\ typed < MaxLines
    /\ gate = "textual" => \E t \in Thread : Reading(t)
    /\ typed' = typed + 1
    /\ lines' = Append(lines, line)
    /\ UNCHANGED <<job, gate, mounted, active, waiters, queue, req, producer,
                   reader, standing>>

\* The idle chat takes a line nobody reserved.
ChatReads ==
    /\ gate = "pipe" /\ lines # <<>> /\ waiters = 0
    /\ lines' = Tail(lines)
    /\ UNCHANGED <<job, gate, mounted, active, typed, waiters, queue, req,
                   producer, reader, standing>>

Mount ==
    /\ gate = "textual" /\ ~mounted
    /\ mounted' = TRUE
    /\ UNCHANGED <<job, gate, active, lines, typed, waiters, queue, req,
                   producer, reader, standing>>

Serve ==
    \E t \in Thread :
        \/ Get(t) \/ Open(t) \/ ReadsNothing(t) \/ TakeLine(t)
        \/ Reply(t) \/ ReadsAgain(t)

Surroundings ==
    \/ \E line \in Line : Write(line)
    \/ ChatReads \/ Mount
    \/ \E r \in Cancellable : Cancel(r)

Waits(r) == Publish(r) \/ Answered(r) \/ Gives(r) \/ TryExpire(r)

-----------------------------------------------------------------------------
(***************************************************************************)
(* Properties.                                                             *)
(***************************************************************************)

BrokerTypeOK ==
    /\ job \in Jobs
    /\ gate \in Gate /\ mounted \in BOOLEAN /\ active \in BOOLEAN
    /\ lines \in Seq(Line) /\ typed \in 0..MaxLines
    /\ waiters \in Nat
    /\ queue \in Seq(Request)
    /\ req \in [Request -> InputRequest]
    /\ producer \in [Request ->
          {"idle", "asking", "waiting", "grace", "late", "returned"}]
    /\ standing \in [Manager -> SUBSET {"once", "all"}]

\* Over a pipe a line that answers a request is the answer its producer gets:
\* no expiry, late default or second conclusion discards a line once it is
\* claimed (_InputRequest.try_expire and claim, SimpleInputGate._take).  Only
\* the cancellation of the run drops its answer.
LineIsAnswer ==
    \A r \in Request :
        (/\ gate = "pipe" /\ producer[r] = "returned" /\ ~req[r].cancelled
         /\ req[r].heard # "none" /\ Answers(r, req[r].heard) # "none")
        => req[r].result = Answers(r, req[r].heard)

\* The chat gets stdin back: once every prompt is decided and no thread reads,
\* no reservation is left over, however the conclusions of producers, readers
\* and cancellations met (DirectReservation.release, _take).
ChatGetsStdinBack ==
    (\A r \in Request : producer[r] \in {"idle", "returned"})
    /\ (\A t \in Thread : ~Reading(t))
        => waiters = 0

\* A line written while a prompt waits for its answer never goes to the chat
\* (_enqueue reserves before it publishes).
ChatLeavesAnswers ==
    [][ChatReads => \A r \in Request : ~Outstanding(r)]_brokerVars

\* Over a pipe one prompt is open at a time: a second one would contend for
\* the next line (process_pending_once, _consumer_can_handle).
OnePrompt == gate = "pipe" => Cardinality({t \in Thread : Reading(t)}) <= 1

=============================================================================
