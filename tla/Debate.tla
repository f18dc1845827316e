------------------------------- MODULE Debate -------------------------------
(***************************************************************************)
(* quimera/debate: one debate, from its first round to the tasks made of   *)
(* its work items.  The thread of the debate asks the participants one     *)
(* after the other and then the moderator for a synthesis, each in a       *)
(* daemon thread that it gives up at the deadline; the user, or Ctrl+C,    *)
(* cancels it; other instances of the application share the database,      *)
(* fail expired debates when they start, and may apply this one.           *)
(***************************************************************************)
EXTENDS Naturals, FiniteSets

CONSTANTS
  App,            \* instances of the application
  Home,           \* the one that runs the debate
  Participants,   \* how many agents take part
  MaxRounds, Quorum,
  Item,           \* ids of work items, in the order of a plan
  Plans,          \* the sets of work items a synthesis may contain
  DependsOn,      \* the dependencies of each work item
  MaxCrashes      \* bound: instances that die

ASSUME DebateAssumption ==
  /\ Home \in App
  /\ Participants \in Nat \ {0, 1} /\ Quorum \in 1..Participants
  /\ MaxRounds \in Nat \ {0}
  /\ Item \subseteq Nat
  /\ DependsOn \in [Item -> SUBSET Item]
  /\ \A p \in Plans : p \subseteq Item /\ \A i \in p : DependsOn[i] \subseteq p
  /\ MaxCrashes \in Nat

VARIABLES
  mode,        \* "verdict" or "workflow"
  row,         \* the row of debates
  plan,        \* debate_work_items
  tasks,       \* the tasks of origin "debate": <<item, number>>
  links,       \* debate_task_links
  edges,       \* task_dependencies between them
  clock,       \* the total time: "early", "due" for the database, or "over"
  pc,          \* the thread of the debate
  round, speaker, votes, candidate,   \* its local variables
  call,        \* the daemon thread of the current call, and its handle
  root,        \* _root_cancel
  canceller,   \* the thread that cancels
  user,        \* of each application, the thread that runs its commands
  crashes,
  fault        \* the result could not be shown or saved in the history

database == <<row, plan, tasks, links, edges>>
locals == <<round, speaker, votes, candidate>>
vars == <<mode, database, clock, pc, locals, call, root, canceller, user,
          crashes, fault>>

Speakers == 1..Participants
Moderator == 0

Active == {"created", "running", "synthesizing"}
Concluded == {"converged", "exhausted"}
Terminal == Concluded \cup {"cancelled", "failed"}

ThreadPc == {"none", "begin", "round", "ask", "register", "wait", "tally",
             "synthesize", "keep", "conclude", "show", "cancelled", "failed",
             "leave", "ended"}
CallPc == {"none", "submitted", "dispatch", "bound", "starting", "running",
           "answered", "done"}
Answer == {"none", "support", "critical", "other", "invalid", "error", "cancelled"}
Vote == {"none", "support", "critical", "other", "missing"}

\* A call is registered under its round and speaker; "cancel" is the event of
\* its handle, which is also the cancel event of the client of the agent.
NoCall == [at |-> "none", cancel |-> FALSE, repair |-> FALSE, answer |-> "none"]

NoVotes == [a \in Speakers |-> "none"]

IdleUser == [at |-> "idle", todo |-> {}, known |-> {}]

Task == Item \X (1..2)

DebateTypeOK ==
  /\ mode \in {"verdict", "workflow"}
  /\ row \in [status : Active \cup Terminal \cup {"absent"}, applied : BOOLEAN]
  /\ plan \in SUBSET Item
  /\ tasks \subseteq Task /\ links \subseteq Item \X Task /\ edges \subseteq Task \X Task
  /\ clock \in {"early", "due", "over"}
  /\ pc \in ThreadPc
  /\ round \in 0..MaxRounds /\ speaker \in Speakers \cup {Moderator}
  /\ votes \in [Speakers -> Vote]
  /\ candidate \in Plans \cup {{}}
  /\ call \in [at : CallPc, cancel : BOOLEAN, repair : BOOLEAN, answer : Answer]
  /\ root \in BOOLEAN
  /\ canceller \in [at : {"idle", "collected", "cutting", "done"},
                    handles : SUBSET ((0..MaxRounds) \X (0..Participants))]
  /\ user \in [App -> [at : {"down", "idle", "item", "create", "link", "edges", "mark"},
                       todo : SUBSET Item, known : SUBSET (Item \X Task)]]
  /\ crashes \in 0..MaxCrashes
  /\ fault \in BOOLEAN

Init ==
  /\ mode \in {"verdict", "workflow"}
  /\ row = [status |-> "absent", applied |-> FALSE]
  /\ plan = {} /\ tasks = {} /\ links = {} /\ edges = {}
  /\ clock = "early"
  /\ pc = "none"
  /\ round = 0 /\ speaker = Moderator
  /\ votes = NoVotes /\ candidate = {}
  /\ call = NoCall
  /\ root = FALSE
  /\ canceller = [at |-> "idle", handles |-> {}]
  /\ user = [a \in App |-> IF a = Home THEN IdleUser ELSE [IdleUser EXCEPT !.at = "down"]]
  /\ crashes = 0
  /\ fault = FALSE

Goes(to) == pc' = to

\* set_status does not look at the status it replaces.
SetStatus(status) == row' = [row EXCEPT !.status = status]

\* The local variables go with the call of _run_session.
LocalsGo == round' = 0 /\ speaker' = Moderator /\ votes' = NoVotes /\ candidate' = {}

Stays == UNCHANGED <<mode, plan, tasks, links, edges, canceller, user, crashes>>

----------------------------------------------------------------------------
(* The thread of the debate.                                               *)

StartDebate ==
  /\ pc = "none" /\ user[Home].at = "idle"
  /\ SetStatus("created")
  /\ Goes("begin")
  /\ Stays /\ UNCHANGED <<clock, locals, call, root, fault>>

Begin ==
  /\ pc = "begin"
  /\ SetStatus("running")
  /\ round' = 1
  /\ Goes("round")
  /\ Stays /\ UNCHANGED <<clock, speaker, votes, candidate, call, root, fault>>

\* _raise_if_cancelled, then _remaining_seconds.
Raises == root \/ clock = "over"
Raised == IF root THEN "cancelled" ELSE "failed"

StartRound ==
  /\ pc = "round"
  /\ IF Raises THEN Goes(Raised) /\ UNCHANGED <<row, locals>>
     ELSE /\ SetStatus("running")
          /\ votes' = NoVotes /\ speaker' = 1
          /\ Goes("ask") /\ UNCHANGED <<round, candidate>>
  /\ Stays /\ UNCHANGED <<clock, call, root, fault>>

AskNext ==
  /\ pc = "ask"
  /\ Goes(IF Raises THEN Raised ELSE "register")
  /\ Stays /\ UNCHANGED <<row, clock, locals, call, root, fault>>

\* _register_call cancels the handle of a call that comes after root_cancel;
\* the call is then handed to its daemon thread.
RegisterCall ==
  /\ pc = "register"
  /\ call' = [NoCall EXCEPT !.at = "submitted", !.cancel = root]
  /\ Goes("wait")
  /\ Stays /\ UNCHANGED <<row, clock, locals, root, fault>>

HandleCancelled == [call EXCEPT !.cancel = TRUE]

Valid == {"support", "critical", "other"}

\* The call of a participant is over: the next one, or the end of the round.
\* An answer that is missing counts against the quorum.
Heard ==
  /\ pc = "wait" /\ speaker # Moderator /\ call.at = "done"
  /\ call' = NoCall
  /\ IF call.answer = "cancelled" /\ root
       THEN Goes("cancelled") /\ UNCHANGED <<speaker, votes>>
       ELSE /\ votes' = [votes EXCEPT ![speaker] = IF call.answer \in Valid
                                                   THEN call.answer ELSE "missing"]
            /\ IF speaker = Participants
                 THEN Goes("tally") /\ UNCHANGED speaker
                 ELSE Goes("ask") /\ speaker' = speaker + 1
  /\ Stays /\ UNCHANGED <<row, clock, round, candidate, root, fault>>

\* The call of the moderator is over: the synthesis becomes the candidate.
Synthesized ==
  /\ pc = "wait" /\ speaker = Moderator /\ call.at = "done"
  /\ call' = NoCall
  /\ IF call.answer \in Valid
       THEN /\ candidate' \in IF mode = "workflow" THEN Plans \ {{}} ELSE Plans
            /\ Goes("keep")
       ELSE /\ Goes(IF call.answer = "cancelled" THEN "cancelled" ELSE "failed")
            /\ UNCHANGED candidate
  /\ Stays /\ UNCHANGED <<row, clock, round, speaker, votes, root, fault>>

\* Mutant of GivesUp: only the participants are given up at the deadline.
GivesUpSpeakers ==
  /\ pc = "wait" /\ call.at # "done" /\ clock = "over" /\ speaker # Moderator
  /\ call' = HandleCancelled
  /\ Goes("failed")
  /\ Stays /\ UNCHANGED <<row, clock, locals, root, fault>>

\* The wait for a call ends with the total time of the debate.
GivesUp ==
  /\ pc = "wait" /\ call.at # "done" /\ clock = "over"
  /\ call' = HandleCancelled
  /\ Goes("failed")
  /\ Stays /\ UNCHANGED <<row, clock, locals, root, fault>>

With(answers) == Cardinality({ a \in Speakers : votes[a] \in answers })

HasConsensus == With({"support"}) >= Quorum /\ With({"critical"}) = 0

\* The end of a round: the quorum, and a candidate of an earlier round that
\* the quorum supports.
Tally ==
  /\ pc = "tally"
  /\ Goes(IF root THEN "cancelled"
          ELSE IF With(Valid) < Quorum THEN "failed"
          ELSE IF round > 1 /\ HasConsensus THEN "keep"
          ELSE "synthesize")
  /\ Stays /\ UNCHANGED <<row, clock, locals, call, root, fault>>

\* Registers the call of the moderator without asking for a cancellation.
Synthesize ==
  /\ pc = "synthesize"
  /\ SetStatus("synthesizing")
  /\ speaker' = Moderator
  /\ Goes(IF clock = "over" THEN "failed" ELSE "register")
  /\ Stays /\ UNCHANGED <<clock, round, votes, candidate, call, root, fault>>

LastRound == round = MaxRounds

\* add_synthesis replaces the work items; a consensus, or the last round, is
\* the end of the debate.
Keep ==
  /\ pc = "keep"
  /\ plan' = candidate
  /\ IF speaker # Moderator \/ LastRound
       THEN Goes("conclude") /\ UNCHANGED round
       ELSE Goes("round") /\ round' = round + 1
  /\ UNCHANGED <<mode, row, tasks, links, edges, clock, speaker, votes, candidate,
                 call, root, canceller, user, crashes, fault>>

Conclude ==
  /\ pc = "conclude"
  /\ SetStatus(IF speaker = Moderator THEN "exhausted" ELSE "converged")
  /\ Goes("show")
  /\ LocalsGo
  /\ Stays /\ UNCHANGED <<clock, call, root, fault>>

\* The result is shown and saved; an exception fails the debate after all.
Show ==
  /\ pc = "show"
  /\ \/ Goes("leave") /\ UNCHANGED fault
     \/ Goes("failed") /\ fault' = TRUE
  /\ Stays /\ UNCHANGED <<row, clock, locals, call, root>>

\* _run_session_guarded.
Guarded ==
  /\ pc \in {"cancelled", "failed"}
  /\ SetStatus(pc)
  /\ Goes("leave")
  /\ LocalsGo
  /\ Stays /\ UNCHANGED <<clock, call, root, fault>>

Leave ==
  /\ pc = "leave"
  /\ Goes("ended")
  /\ Stays /\ UNCHANGED <<row, clock, locals, call, root, fault>>

----------------------------------------------------------------------------
(* A call, in its daemon thread: _call_agent, once more for a repair.      *)

OnlyCall == UNCHANGED <<mode, database, clock, pc, locals, root, canceller, user,
                        crashes, fault>>

Finishes(answer) == call' = [call EXCEPT !.at = "done", !.answer = answer]

CallBegins ==
  /\ call.at = "submitted"
  /\ IF root \/ call.cancel THEN Finishes("cancelled")
     ELSE call' = [call EXCEPT !.at = "dispatch"]
  /\ OnlyCall

\* The isolated dispatch, which may be unavailable.
BindClient ==
  /\ call.at = "dispatch"
  /\ \/ Finishes("error")
     \/ call' = [call EXCEPT !.at = "bound"]
  /\ OnlyCall

\* AgentClient.run: an agent already cancelled is not started, but the event is
\* cleared after that check.
RunAgent ==
  /\ call.at \in {"bound", "starting"}
  /\ call' = IF call.at = "bound"
               THEN [call EXCEPT !.at = IF call.cancel THEN "answered" ELSE "starting"]
               ELSE [call EXCEPT !.at = "running", !.cancel = FALSE]
  /\ OnlyCall

\* The agent answers, well, badly or not at all, or is cut.
AgentAnswers ==
  /\ call.at = "running"
  /\ \E a \in Valid \cup {"invalid", "error"} :
       /\ a \in {"support", "critical"} => round > 1 /\ speaker # Moderator
       /\ call' = [call EXCEPT !.at = "answered", !.answer = a]
  /\ OnlyCall

AgentCut ==
  /\ call.at = "running" /\ call.cancel
  /\ call' = [call EXCEPT !.at = "answered", !.answer = "error"]
  /\ OnlyCall

\* A cancelled call drops its answer; an invalid one is repaired once.
CallEnds ==
  /\ call.at = "answered"
  /\ IF root \/ call.cancel THEN Finishes("cancelled")
     ELSE IF call.answer = "invalid" /\ ~call.repair
       THEN call' = [NoCall EXCEPT !.at = "submitted", !.repair = TRUE]
     ELSE Finishes(call.answer)
  /\ OnlyCall

----------------------------------------------------------------------------
(* Cancellation: the handles are collected under the lock, root_cancel is  *)
(* set after it, and the handles are cancelled last.                       *)

OnlyCanceller == UNCHANGED <<mode, database, clock, pc, locals, user, crashes, fault>>

Collect ==
  /\ canceller.at = "idle" /\ pc \notin {"none", "ended"}
  /\ canceller' = [at |-> "collected",
                   handles |-> IF pc = "wait" THEN {<<round, speaker>>} ELSE {}]
  /\ OnlyCanceller /\ UNCHANGED <<call, root>>

SetRoot ==
  /\ canceller.at = "collected"
  /\ canceller' = [canceller EXCEPT !.at = "cutting"]
  /\ root' = TRUE
  /\ OnlyCanceller /\ UNCHANGED call

CutHandles ==
  /\ canceller.at = "cutting"
  /\ canceller' = [at |-> "done", handles |-> {}]
  /\ call' = IF pc = "wait" /\ <<round, speaker>> \in canceller.handles
               THEN HandleCancelled ELSE call
  /\ OnlyCanceller /\ UNCHANGED root

----------------------------------------------------------------------------
(* apply, of any application.                                              *)

UserGoes(a, state) == user' = [user EXCEPT ![a] = state]

OnlyUser == UNCHANGED <<mode, plan, clock, pc, locals, call, root, canceller, crashes,
                        fault>>

First(S) == CHOOSE i \in S : \A j \in S : i <= j

\* The work items and the links are read once; the first transaction follows.
Apply(a) ==
  /\ user[a].at = "idle"
  /\ mode = "workflow" /\ row.status \in Concluded /\ plan # {}
  /\ UserGoes(a, [at |-> "item", todo |-> plan, known |-> links])
  /\ OnlyUser /\ UNCHANGED <<row, tasks, links, edges>>

TaskOf(i) == { t \in tasks : t[1] = i }

\* The next item: known by its link, found by its source, or still to create.
FindTask(a) ==
  LET me == user[a] IN
  /\ me.at = "item" /\ me.todo # {}
  /\ LET i == First(me.todo) IN
     IF \E t \in tasks : <<i, t>> \in me.known
       THEN UserGoes(a, [me EXCEPT !.todo = @ \ {i}])
       ELSE UserGoes(a, [me EXCEPT !.at = IF TaskOf(i) = {} THEN "create" ELSE "link"])
  /\ OnlyUser /\ UNCHANGED <<row, tasks, links, edges>>

\* Mutant of NewTask: no index on the source of a task.
NewTaskAnyway(i) == {<<i, Cardinality(TaskOf(i)) + 1>>}

\* The unique index: a task that exists by now is found instead.
NewTask(i) == IF TaskOf(i) = {} THEN {<<i, 1>>} ELSE {}

CreateTask(a) ==
  LET me == user[a] IN
  /\ me.at = "create"
  /\ tasks' = tasks \cup NewTask(First(me.todo))
  /\ UserGoes(a, [me EXCEPT !.at = "link"])
  /\ OnlyUser /\ UNCHANGED <<row, links, edges>>

\* link_task: INSERT OR IGNORE, with one link per item.
LinkTask(a) ==
  LET me == user[a]
      i == First(me.todo)
      t == CHOOSE u \in TaskOf(i) : TRUE
  IN
  /\ me.at = "link"
  /\ links' = IF \E l \in links : l[1] = i THEN links ELSE links \cup {<<i, t>>}
  /\ UserGoes(a, [at |-> "item", todo |-> me.todo \ {i}, known |-> me.known \cup {<<i, t>>}])
  /\ OnlyUser /\ UNCHANGED <<row, tasks, edges>>

ItemsDone(a) ==
  /\ user[a].at = "item" /\ user[a].todo = {}
  /\ UserGoes(a, [user[a] EXCEPT !.at = "edges",
                                 !.todo = { i \in plan : DependsOn[i] # {} }])
  /\ OnlyUser /\ UNCHANGED <<row, tasks, links, edges>>

Known(a, i) == CHOOSE t \in Task : <<i, t>> \in user[a].known

\* add_task_dependency, for the dependencies of one item.
AddDependencies(a) ==
  LET me == user[a]
      i == First(me.todo)
  IN
  /\ me.at = "edges" /\ me.todo # {}
  /\ edges' = edges \cup { <<Known(a, i), Known(a, d)>> : d \in DependsOn[i] }
  /\ UserGoes(a, [me EXCEPT !.todo = @ \ {i}])
  /\ OnlyUser /\ UNCHANGED <<row, tasks, links>>

MarkApplied(a) ==
  /\ user[a].at = "edges" /\ user[a].todo = {}
  /\ row' = [row EXCEPT !.applied = TRUE]
  /\ UserGoes(a, IdleUser)
  /\ OnlyUser /\ UNCHANGED <<tasks, links, edges>>

----------------------------------------------------------------------------
(* Instances of the application, and time.                                 *)

\* recover_expired compares times of the database, which drop the fraction of
\* a second: a debate is due a little before its own deadline.
Expired == row.status \in Active /\ clock # "early"

StartApp(a) ==
  /\ user[a].at = "down"
  /\ row' = IF Expired THEN [row EXCEPT !.status = "failed"] ELSE row
  /\ UserGoes(a, IdleUser)
  /\ OnlyUser /\ UNCHANGED <<tasks, links, edges>>

\* The process dies, with the threads it had.
Crash(a) ==
  /\ user[a].at # "down" /\ crashes < MaxCrashes
  /\ crashes' = crashes + 1
  /\ UserGoes(a, [IdleUser EXCEPT !.at = "down"])
  /\ IF a = Home /\ pc # "none"
       THEN /\ Goes("ended") /\ call' = NoCall /\ LocalsGo
            /\ canceller' = [at |-> "done", handles |-> {}]
       ELSE UNCHANGED <<pc, call, canceller, locals>>
  /\ UNCHANGED <<mode, database, clock, root, fault>>

TimePasses ==
  /\ clock # "over"
  /\ pc \notin {"none", "ended"} \/ row.status \in Active
  /\ clock' = IF clock = "early" THEN "due" ELSE "over"
  /\ UNCHANGED <<mode, database, pc, locals, call, root, canceller, user, crashes,
                 fault>>

----------------------------------------------------------------------------

ThreadStep ==
  \/ Begin \/ StartRound \/ AskNext \/ RegisterCall \/ Heard \/ Synthesized
  \/ GivesUp \/ Tally \/ Synthesize \/ Keep \/ Conclude \/ Show \/ Guarded
  \/ Leave

CallStep == CallBegins \/ BindClient \/ RunAgent \/ AgentAnswers \/ AgentCut \/ CallEnds

CancelStep == Collect \/ SetRoot \/ CutHandles

ApplyStep(a) ==
  \/ Apply(a) \/ FindTask(a) \/ CreateTask(a) \/ LinkTask(a) \/ ItemsDone(a)
  \/ AddDependencies(a) \/ MarkApplied(a)

Next ==
  \/ StartDebate \/ ThreadStep \/ CallStep \/ CancelStep \/ TimePasses
  \/ \E a \in App : ApplyStep(a) \/ StartApp(a) \/ Crash(a)

Spec == Init /\ [][Next]_vars

\* Fairness: the thread of the debate goes on, and time passes.  Neither agents
\* nor anybody who cancels owes anything.
Fairness == WF_vars(ThreadStep) /\ WF_vars(TimePasses)

FairSpec == Spec /\ Fairness

----------------------------------------------------------------------------
(* Properties.                                                             *)

\* The tasks of a debate: whoever applies it, once or again, in whichever
\* instance, with whatever died in between, a work item has one task; once it
\* is marked applied every item is linked to its task and waits for those it
\* depends on; and only a debate that concluded, and was not failed by an
\* instance that started meanwhile, has tasks, unless its result could not be
\* shown.
TasksOfDebate ==
  /\ \A i \in Item : Cardinality(TaskOf(i)) <= 1
  /\ row.applied =>
       /\ \A i \in plan : <<i, <<i, 1>>>> \in links
       /\ \A i \in plan : \A d \in DependsOn[i] : <<<<i, 1>>, <<d, 1>>>> \in edges
  /\ tasks # {} /\ ~fault => row.status \in Concluded

\* ... in states that have their type: no debate goes beyond its rounds.
DebateInv == DebateTypeOK /\ TasksOfDebate

\* A debate ends by its total time, though agents do not answer and although a
\* cancellation may miss the call that is registered while it sets root_cancel.
DebateEnds == (pc = "begin") ~> (pc = "ended")
=============================================================================
