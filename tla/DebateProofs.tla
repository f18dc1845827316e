---------------------------- MODULE DebateProofs ----------------------------
(***************************************************************************)
(* Proofs about Debate, for every number of applications, participants,    *)
(* rounds and crashes and every plan: a debate stays within its rounds,    *)
(* and its work items become tasks at most once each, whoever applies it.  *)
(***************************************************************************)
EXTENDS Debate, FiniteSetTheorems, WellFoundedInduction, TLAPS

\* The only task, link and edge there can be of work items i and d.
TheTask(i) == <<i, 1>>
TheLink(i) == <<i, <<i, 1>>>>
TheEdge(i, d) == <<<<i, 1>>, <<d, 1>>>>

\* Nothing replaces the work items any more.
Over == pc \in {"show", "failed", "leave", "ended"}

Applying == \E a \in App : user[a].at \notin {"down", "idle"}

\* The debate against what was made of it.
ThreadInv ==
  /\ row.status \in Concluded \/ row.applied \/ tasks # {} \/ Applying => Over
  /\ pc = "failed" /\ row.status \in Concluded => fault
  /\ (tasks # {} \/ Applying) /\ ~fault => row.status \in Concluded

\* Tasks and links have the one form the unique indexes leave.
TasksInv ==
  /\ \A t \in tasks : t[2] = 1
  /\ \A l \in links : l = TheLink(l[1]) /\ TheTask(l[1]) \in tasks

PlanInv == plan \in Plans \cup {{}}

\* What an application that applies the debate has done so far.
UserInv(a) ==
  /\ user[a].known \subseteq links
  /\ user[a].at \notin {"down", "idle"} => user[a].todo \subseteq plan
  /\ user[a].at \in {"item", "create", "link"} =>
       \A i \in plan \ user[a].todo : TheLink(i) \in user[a].known
  /\ user[a].at \in {"create", "link"} => user[a].todo # {}
  /\ user[a].at = "link" => TheTask(First(user[a].todo)) \in tasks
  /\ user[a].at = "edges" =>
       /\ \A i \in plan : TheLink(i) \in user[a].known
       /\ \A i \in plan \ user[a].todo : \A d \in DependsOn[i] : TheEdge(i, d) \in edges

\* A debate marked as applied is applied as a whole.
AppliedInv ==
  row.applied =>
    /\ \A i \in plan : TheLink(i) \in links
    /\ \A i \in plan : \A d \in DependsOn[i] : TheEdge(i, d) \in edges

\* The inductive invariant.
ApplyInv ==
  ThreadInv /\ TasksInv /\ PlanInv /\ AppliedInv /\ \A a \in App : UserInv(a)

\* The loops of apply take the smallest id that is left: there is one.
LEMMA FirstIsIn ==
  ASSUME NEW S \in SUBSET Nat, S # {}
  PROVE  First(S) \in S /\ \A j \in S : First(S) <= j
<1>1. PICK i \in S : \A j \in S : <<j, i>> \notin OpToRel(<, Nat)
  BY NatLessThanWellFounded, WFMin
<1>2. \A j \in S : ~(j < i)
  BY <1>1 DEF OpToRel
<1>3. \A j \in S : i <= j
  BY <1>2
<1> QED
  BY <1>3 DEF First

\* The sets DebateTypeOK is made of, and how their members change.
Status == Active \cup Terminal \cup {"absent"}
RowType == [status : Status, applied : BOOLEAN]
CallType == [at : CallPc, cancel : BOOLEAN, repair : BOOLEAN, answer : Answer]
UserType ==
  [at : {"down", "idle", "item", "create", "link", "edges", "mark"},
   todo : SUBSET Item, known : SUBSET (Item \X Task)]
Calls == (0..MaxRounds) \X (0..Participants)
CancellerType == [at : {"idle", "collected", "cutting", "done"}, handles : SUBSET Calls]

\* The local variables of the thread of the debate.
LocalsOK ==
  /\ pc \in ThreadPc
  /\ round \in 0..MaxRounds /\ speaker \in Speakers \cup {Moderator}
  /\ votes \in [Speakers -> Vote]
  /\ candidate \in Plans \cup {{}}

\* What the applications write.
TasksOK ==
  /\ tasks \subseteq Task /\ links \subseteq Item \X Task /\ edges \subseteq Task \X Task

LEMMA TypesSplit ==
  DebateTypeOK <=>
    /\ mode \in {"verdict", "workflow"} /\ row \in RowType /\ plan \in SUBSET Item
    /\ TasksOK /\ LocalsOK
    /\ clock \in {"early", "due", "over"} /\ call \in CallType /\ root \in BOOLEAN
    /\ canceller \in CancellerType /\ user \in [App -> UserType]
    /\ crashes \in 0..MaxCrashes /\ fault \in BOOLEAN
BY DEF DebateTypeOK, Status, RowType, CallType, UserType, Calls, CancellerType, LocalsOK,
       TasksOK

LEMMA ConstantTypes ==
  /\ NoCall \in CallType /\ IdleUser \in UserType /\ [IdleUser EXCEPT !.at = "down"] \in UserType
  /\ NoVotes \in [Speakers -> Vote] /\ Moderator \in Speakers \cup {Moderator}
  /\ 0 \in 0..MaxRounds /\ 1 \in 0..MaxRounds /\ 1 \in Speakers
BY DebateAssumption DEF NoCall, CallType, CallPc, Answer, IdleUser, UserType, NoVotes, Vote, Speakers

\* The steps of the thread of the debate, by what they write.
LEMMA ThreadTyped ==
  ASSUME DebateTypeOK, StartDebate \/ ThreadStep
  PROVE  DebateTypeOK'
<1>1. /\ row \in RowType /\ LocalsOK /\ call \in CallType /\ plan \in SUBSET Item
      /\ fault \in BOOLEAN
  BY TypesSplit
<1>2. UNCHANGED <<mode, tasks, links, edges, canceller, user, crashes, clock, root>>
  BY DEF ThreadStep, StartDebate, Begin, StartRound, AskNext, RegisterCall, Heard, Synthesized,
         GivesUp, Tally, Synthesize, Keep, Conclude, Show, Guarded, Leave, Stays, locals
<1>3. row' \in RowType
  <2>1. \/ UNCHANGED row
        \/ \E st \in Status : row' = [row EXCEPT !.status = st]
    BY DEF ThreadStep, StartDebate, Begin, StartRound, AskNext, RegisterCall, Heard, Synthesized,
           GivesUp, Tally, Synthesize, Keep, Conclude, Show, Guarded, Leave, Stays, SetStatus,
           Status, Active, Terminal, Concluded
  <2> QED
    BY <1>1, <2>1 DEF RowType
<1>4. call' \in CallType
  <2>1. \/ call' \in {call, NoCall}
        \/ \E c \in BOOLEAN : call' = [NoCall EXCEPT !.at = "submitted", !.cancel = c]
        \/ call' = [call EXCEPT !.cancel = TRUE]
    BY TypesSplit DEF ThreadStep, StartDebate, Begin, StartRound, AskNext, RegisterCall, Heard, Synthesized,
           GivesUp, Tally, Synthesize, Keep, Conclude, Show, Guarded, Leave, HandleCancelled
  <2>2. "submitted" \in CallPc
    BY DEF CallPc
  <2> QED
    BY <1>1, <2>1, <2>2, ConstantTypes DEF CallType
<1>5. plan' \in SUBSET Item
  BY <1>1, DebateAssumption DEF ThreadStep, StartDebate, Begin, StartRound, AskNext, RegisterCall, Heard,
         Synthesized, GivesUp, Tally, Synthesize, Keep, Conclude, Show, Guarded, Leave,
         Stays, LocalsOK
<1>6. fault' \in BOOLEAN
  BY <1>1 DEF ThreadStep, StartDebate, Begin, StartRound, AskNext, RegisterCall, Heard, Synthesized,
         GivesUp, Tally, Synthesize, Keep, Conclude, Show, Guarded, Leave
<1>7. LocalsOK'
  <2>1. pc' \in ThreadPc
    BY DEF ThreadStep, StartDebate, Begin, StartRound, AskNext, RegisterCall, Heard, Synthesized,
           GivesUp, Tally, Synthesize, Keep, Conclude, Show, Guarded, Leave, Goes, Raised,
           ThreadPc
  <2>2. round' \in 0..MaxRounds
    <3>1. CASE UNCHANGED round \/ round' \in {0, 1}
      BY <1>1, <3>1, ConstantTypes DEF LocalsOK
    <3>2. CASE Keep /\ round' = round + 1
      BY <1>1, <3>2, DebateAssumption DEF Keep, LastRound, LocalsOK
    <3> QED
      BY <3>1, <3>2 DEF ThreadStep, StartDebate, Begin, StartRound, AskNext, RegisterCall,
         Heard, Synthesized, GivesUp, Tally, Synthesize, Keep, Conclude, Show, Guarded, Leave,
         LocalsGo, locals
  <2>3. speaker' \in Speakers \cup {Moderator}
    <3>1. CASE UNCHANGED speaker \/ speaker' \in {1, Moderator}
      BY <1>1, <3>1, ConstantTypes DEF LocalsOK
    <3>2. CASE Heard /\ speaker' = speaker + 1 /\ speaker # Participants
      BY <1>1, <3>2, DebateAssumption DEF Heard, LocalsOK, Speakers, Moderator
    <3> QED
      BY <3>1, <3>2 DEF ThreadStep, StartDebate, Begin, StartRound, AskNext, RegisterCall,
         Heard, Synthesized, GivesUp, Tally, Synthesize, Keep, Conclude, Show, Guarded, Leave,
         LocalsGo, locals
  <2>4. votes' \in [Speakers -> Vote]
    <3>1. \/ votes' \in {votes, NoVotes}
          \/ \E v \in Vote : votes' = [votes EXCEPT ![speaker] = v]
      BY DEF ThreadStep, StartDebate, Begin, StartRound, AskNext, RegisterCall,
         Heard, Synthesized, GivesUp, Tally, Synthesize, Keep, Conclude, Show, Guarded, Leave,
         LocalsGo, locals, Valid, Vote
    <3> QED
      BY <1>1, <3>1, ConstantTypes DEF LocalsOK
  <2>5. candidate' \in Plans \cup {{}}
    BY <1>1 DEF ThreadStep, StartDebate, Begin, StartRound, AskNext, RegisterCall,
         Heard, Synthesized, GivesUp, Tally, Synthesize, Keep, Conclude, Show, Guarded, Leave,
         LocalsGo, locals, LocalsOK
  <2> QED
    BY <2>1, <2>2, <2>3, <2>4, <2>5 DEF LocalsOK
<1> QED
  BY <1>2, <1>3, <1>4, <1>5, <1>6, <1>7, TypesSplit DEF TasksOK, Status, RowType, CallType, UserType, Calls, CancellerType, DebateTypeOK, LocalsOK

\* The steps of the call of an agent and of who cancels.
LEMMA CallTyped ==
  ASSUME DebateTypeOK, CallStep \/ CancelStep
  PROVE  DebateTypeOK'
<1>1. call \in CallType /\ canceller \in CancellerType /\ root \in BOOLEAN /\ LocalsOK
  BY TypesSplit
<1>2. UNCHANGED <<mode, row, plan, tasks, links, edges, clock, pc, round, speaker, votes,
                 candidate, user, crashes, fault>>
  BY DEF CallStep, CallBegins, BindClient, RunAgent, AgentAnswers, AgentCut, CallEnds,
         OnlyCall, CancelStep, Collect, SetRoot, CutHandles, OnlyCanceller, database, locals
<1>3. call' \in CallType
  <2>1. {"submitted", "dispatch", "bound", "starting", "running", "answered", "done"} \subseteq CallPc
    BY DEF CallPc
  <2>2. Valid \cup {"invalid", "error", "cancelled"} \subseteq Answer
    BY DEF Valid, Answer
  <2>3. [NoCall EXCEPT !.at = "submitted", !.repair = TRUE] \in CallType
    BY ConstantTypes, <2>1 DEF CallType
  <2>4. CASE CancelStep
    BY <1>1, <2>4 DEF CancelStep, Collect, SetRoot, CutHandles, HandleCancelled, CallType
  <2>5. CASE CallBegins \/ BindClient
    BY <1>1, <2>1, <2>2, <2>5 DEF CallBegins, BindClient, Finishes, CallType
  <2>6. CASE RunAgent
    BY <1>1, <2>1, <2>6 DEF RunAgent, CallType
  <2>7. CASE AgentAnswers \/ AgentCut
    BY <1>1, <2>1, <2>2, <2>7 DEF AgentAnswers, AgentCut, CallType
  <2>8. CASE CallEnds
    BY <1>1, <2>1, <2>2, <2>3, <2>8 DEF CallEnds, Finishes, CallType
  <2> QED
    BY <2>4, <2>5, <2>6, <2>7, <2>8 DEF CallStep
<1>4. canceller' \in CancellerType /\ root' \in BOOLEAN
  <2>1. <<round, speaker>> \in Calls
    BY <1>1, DebateAssumption DEF LocalsOK, Calls, Speakers, Moderator
  <2>2. CASE Collect
    <3>1. \A h \in SUBSET Calls : [at |-> "collected", handles |-> h] \in CancellerType
      BY DEF CancellerType
    <3> QED
      BY <1>1, <2>1, <2>2, <3>1 DEF Collect
  <2>3. CASE SetRoot \/ CutHandles
    <3>1. [at |-> "done", handles |-> {}] \in CancellerType
      BY DEF CancellerType
    <3>2. [canceller EXCEPT !.at = "cutting"] \in CancellerType
      BY <1>1 DEF CancellerType
    <3> QED
      BY <1>1, <2>3, <3>1, <3>2 DEF SetRoot, CutHandles
  <2>4. CASE CallStep
    BY <1>1, <2>4 DEF CallStep, CallBegins, BindClient, RunAgent, AgentAnswers, AgentCut,
                     CallEnds, OnlyCall
  <2> QED
    BY <2>2, <2>3, <2>4 DEF CancelStep
<1> QED
  BY <1>2, <1>3, <1>4, TypesSplit DEF Status, RowType, CallType, UserType, Calls,
     CancellerType, DebateTypeOK, LocalsOK

\* What an application has done stays done while others add to the database.
LEMMA OthersKeep ==
  ASSUME NEW b \in App, DebateTypeOK, UserInv(b), user'[b] = user[b], plan' = plan,
         tasks \subseteq tasks', links \subseteq links', edges \subseteq edges'
  PROVE  UserInv(b)'
BY DEF UserInv

\* A link that is known leads to the one task of its item.
LEMMA KnownIsTheTask ==
  ASSUME DebateTypeOK, TasksInv, NEW a \in App, UserInv(a), NEW i \in Item,
         TheLink(i) \in user[a].known
  PROVE  Known(a, i) = TheTask(i)
<1>1. \A t \in Task : <<i, t>> \in user[a].known => t = TheTask(i)
  BY DEF TasksInv, UserInv, TheLink, TheTask
<1>2. TheTask(i) \in Task /\ <<i, TheTask(i)>> \in user[a].known
  BY DEF TheTask, TheLink, Task
<1> QED
  BY <1>1, <1>2 DEF Known

\* The transactions of apply.
LEMMA ApplyKept ==
  ASSUME DebateTypeOK, ApplyInv, NEW a \in App, ApplyStep(a)
  PROVE  DebateTypeOK' /\ ApplyInv'
<1> DEFINE me == user[a]
           i == First(me.todo)
<1>1. /\ user \in [App -> UserType] /\ me \in UserType /\ me.todo \in SUBSET Nat
      /\ TasksOK /\ LocalsOK /\ plan \subseteq Item /\ row \in RowType
  BY TypesSplit, DebateAssumption DEF UserType
<1>2. /\ UserInv(a) /\ TasksInv /\ PlanInv /\ AppliedInv /\ ThreadInv
      /\ \A b \in App : UserInv(b)
  BY DEF ApplyInv
<1>3. me.todo # {} => i \in me.todo
  BY <1>1, FirstIsIn
<1>4. /\ UNCHANGED <<mode, plan, clock, pc, locals, call, root, canceller, crashes, fault>>
      /\ \E m : user' = [user EXCEPT ![a] = m]
      /\ row' = row \/ row' = [row EXCEPT !.applied = TRUE]
  BY DEF ApplyStep, Apply, FindTask, CreateTask, LinkTask, ItemsDone, AddDependencies,
         MarkApplied, OnlyUser, UserGoes
<1>5. \A b \in App : b # a => user'[b] = user[b]
  BY <1>1, <1>4
<1>6. row' \in RowType
  BY <1>1, <1>4 DEF RowType
<1> HIDE DEF me, i
<1>7. ThreadInv'
  <2>1. row'.status = row.status
    BY <1>1, <1>4 DEF RowType
  <2>2. Over /\ (~fault => row.status \in Concluded)
    BY <1>2 DEF ApplyStep, Apply, FindTask, CreateTask, LinkTask, ItemsDone, AddDependencies,
         MarkApplied, ThreadInv, Applying
  <2> QED
    BY <1>2, <1>4, <2>1, <2>2 DEF ThreadInv, Over
<1>8. SUFFICES /\ user'[a] \in UserType /\ TasksOK' /\ UserInv(a)'
               /\ tasks \subseteq tasks' /\ links \subseteq links' /\ edges \subseteq edges'
               /\ TasksInv' /\ AppliedInv'
  <2>1. DebateTypeOK'
    <3>1. user' \in [App -> UserType]
      BY <1>1, <1>4, <1>8
    <3> QED
      BY <1>4, <1>6, <1>8, <3>1, TypesSplit DEF Status, RowType, CallType, UserType, Calls,
         CancellerType, LocalsOK, DebateTypeOK, TasksOK, locals
  <2>2. \A b \in App : UserInv(b)'
    BY <1>2, <1>4, <1>5, <1>8, OthersKeep
  <2> QED
    BY <1>2, <1>4, <1>7, <1>8, <2>1, <2>2 DEF ApplyInv, PlanInv
<1>9. CASE Apply(a) \/ FindTask(a) \/ ItemsDone(a)
  <2>0. UNCHANGED <<row, tasks, links, edges>>
    BY <1>9 DEF Apply, FindTask, ItemsDone
  <2>1. TasksOK' /\ TasksInv' /\ AppliedInv'
    BY <1>1, <1>2, <1>4, <2>0 DEF TasksOK, TasksInv, AppliedInv
  <2>2. CASE Apply(a)
    <3>1. user'[a] = [at |-> "item", todo |-> plan, known |-> links]
      BY <1>1, <2>2 DEF Apply, UserGoes
    <3> QED
      BY <1>1, <1>4, <2>0, <2>1, <3>1 DEF UserType, UserInv, TasksOK
  <2>3. CASE FindTask(a)
    <3>1. me.at = "item" /\ me.todo # {} /\ i \in me.todo
      BY <1>3, <2>3 DEF FindTask, me, i
    <3>2. CASE \E t \in tasks : <<i, t>> \in me.known
      <4>1. user'[a] = [me EXCEPT !.todo = @ \ {i}]
        BY <1>1, <2>3, <3>2 DEF FindTask, UserGoes, me, i
      <4>2. TheLink(i) \in me.known
        BY <1>2, <3>2 DEF UserInv, TasksInv, TheLink, me
      <4> QED
        BY <1>1, <1>2, <1>4, <2>0, <2>1, <3>1, <4>1, <4>2 DEF UserType, UserInv, me
    <3>3. CASE ~ \E t \in tasks : <<i, t>> \in me.known
      <4>1. user'[a] = [me EXCEPT !.at = IF TaskOf(i) = {} THEN "create" ELSE "link"]
        BY <1>1, <2>3, <3>3 DEF FindTask, UserGoes, me, i
      <4>2. TaskOf(i) # {} => TheTask(i) \in tasks
        BY <1>1, <1>2 DEF TaskOf, TasksInv, TasksOK, Task, TheTask
      <4> QED
        BY <1>1, <1>2, <1>4, <2>0, <2>1, <3>1, <4>1, <4>2 DEF UserType, UserInv, me, i
    <3> QED
      BY <3>2, <3>3
  <2>4. CASE ItemsDone(a)
    <3>1. user'[a] = [me EXCEPT !.at = "edges", !.todo = { k \in plan : DependsOn[k] # {} }]
      BY <1>1, <2>4 DEF ItemsDone, UserGoes, me
    <3>2. me.at = "item" /\ me.todo = {}
      BY <2>4 DEF ItemsDone, me
    <3>3. \A k \in plan, d \in Item : d \in DependsOn[k] =>
            k \in { h \in plan : DependsOn[h] # {} }
      OBVIOUS
    <3>4. \A k \in plan : DependsOn[k] \subseteq Item
      BY <1>1, DebateAssumption
    <3>5. { k \in plan : DependsOn[k] # {} } \in SUBSET Item
      BY <1>1
    <3>6. user'[a].at = "edges" /\ user'[a].todo = { k \in plan : DependsOn[k] # {} }
          /\ user'[a].known = me.known /\ user'[a] \in UserType
      BY <1>1, <3>1, <3>5 DEF UserType
    <3>7. UserInv(a)'
      BY <1>1, <1>2, <1>4, <2>0, <3>2, <3>3, <3>4, <3>6 DEF UserInv, me
    <3> QED
      BY <2>0, <2>1, <3>6, <3>7
  <2> QED
    BY <1>9, <2>2, <2>3, <2>4
<1>10. CASE CreateTask(a)
  <2>1. /\ me.at = "create" /\ me.todo # {} /\ i \in me.todo /\ i \in Item
    BY <1>1, <1>2, <1>3, <1>10 DEF CreateTask, UserInv, UserType, me
  <2>2. /\ tasks' = tasks \cup NewTask(i) /\ user'[a] = [me EXCEPT !.at = "link"]
        /\ UNCHANGED <<row, links, edges>>
    BY <1>1, <1>10 DEF CreateTask, UserGoes, me, i
  <2>3. TheTask(i) \in tasks' /\ tasks \subseteq tasks' /\ tasks' \subseteq tasks \cup {TheTask(i)}
    BY <1>1, <1>2, <2>2 DEF NewTask, TaskOf, TasksInv, TasksOK, Task, TheTask
  <2>4. TheTask(i) \in Task /\ TheTask(i)[2] = 1
    BY <2>1 DEF TheTask, Task
  <2>5. TasksOK' /\ TasksInv' /\ AppliedInv'
    BY <1>1, <1>2, <1>4, <2>2, <2>3, <2>4 DEF TasksOK, TasksInv, AppliedInv
  <2> QED
    BY <1>1, <1>2, <1>4, <2>1, <2>2, <2>3, <2>5 DEF UserType, UserInv, me, i
<1>11. CASE LinkTask(a)
  <2>1. /\ me.at = "link" /\ me.todo # {} /\ i \in me.todo /\ i \in Item /\ TheTask(i) \in tasks
    BY <1>1, <1>2, <1>3, <1>11 DEF LinkTask, UserInv, UserType, me, i
  <2>2. (CHOOSE u \in TaskOf(i) : TRUE) = TheTask(i)
    <3>1. TaskOf(i) = {TheTask(i)}
      BY <1>1, <1>2, <2>1 DEF TaskOf, TasksInv, TasksOK, Task, TheTask
    <3> QED
      BY <3>1
  <2>3. /\ links' = IF \E l \in links : l[1] = i THEN links ELSE links \cup {TheLink(i)}
        /\ user'[a] = [at |-> "item", todo |-> me.todo \ {i}, known |-> me.known \cup {TheLink(i)}]
        /\ UNCHANGED <<row, tasks, edges>>
    BY <1>1, <1>11, <2>2 DEF LinkTask, UserGoes, me, i, TheLink, TheTask
  <2>4. TheLink(i) \in links' /\ links \subseteq links' /\ links' \subseteq links \cup {TheLink(i)}
    BY <1>2, <2>3 DEF TasksInv
  <2>5. TheLink(i) \in Item \X Task /\ TheLink(i) = TheLink(TheLink(i)[1]) /\ TheLink(i)[1] = i
    BY <2>1 DEF TheLink, Task
  <2>6. TasksOK' /\ TasksInv' /\ AppliedInv'
    BY <1>1, <1>2, <1>4, <2>1, <2>3, <2>4, <2>5 DEF TasksOK, TasksInv, AppliedInv
  <2> QED
    BY <1>1, <1>2, <1>4, <2>1, <2>3, <2>4, <2>5, <2>6 DEF UserType, UserInv, me
<1>12. CASE AddDependencies(a)
  <2>1. /\ me.at = "edges" /\ me.todo # {} /\ i \in me.todo /\ i \in plan /\ i \in Item
        /\ DependsOn[i] \subseteq plan /\ DependsOn[i] \subseteq Item
    BY <1>1, <1>2, <1>3, <1>12, DebateAssumption DEF AddDependencies, UserInv, PlanInv, me
  <2>2. \A d \in plan : Known(a, d) = TheTask(d) /\ TheTask(d) \in Task
    <3>1. \A d \in plan : TheLink(d) \in user[a].known /\ d \in Item
      BY <1>1, <1>2, <2>1 DEF UserInv, me
    <3>2. \A d \in plan : Known(a, d) = TheTask(d)
      BY <1>2, <3>1, KnownIsTheTask
    <3> QED
      BY <3>1, <3>2 DEF TheTask, Task
  <2>3. /\ edges' = edges \cup { TheEdge(i, d) : d \in DependsOn[i] }
        /\ user'[a] = [me EXCEPT !.todo = @ \ {i}]
        /\ UNCHANGED <<row, tasks, links>>
    BY <1>1, <1>12, <2>1, <2>2 DEF AddDependencies, UserGoes, me, i, TheEdge, TheTask
  <2>4. TasksOK' /\ TasksInv' /\ AppliedInv'
    BY <1>1, <1>2, <1>4, <2>1, <2>2, <2>3 DEF TasksOK, TasksInv, AppliedInv, TheEdge, TheTask
  <2> QED
    BY <1>1, <1>2, <1>4, <2>1, <2>3, <2>4 DEF UserType, UserInv, me
<1>13. CASE MarkApplied(a)
  <2>1. /\ me.at = "edges" /\ me.todo = {} /\ user'[a] = IdleUser
        /\ UNCHANGED <<tasks, links, edges>>
    BY <1>1, <1>13 DEF MarkApplied, UserGoes, OnlyUser, me
  <2>2. TasksOK' /\ TasksInv' /\ AppliedInv'
    BY <1>1, <1>2, <1>4, <2>1 DEF TasksOK, TasksInv, AppliedInv, UserInv, me
  <2> QED
    BY <1>2, <2>1, <2>2, ConstantTypes DEF IdleUser, UserInv
<1> QED
  BY <1>9, <1>10, <1>11, <1>12, <1>13
  DEF ApplyStep, Apply, FindTask, ItemsDone, OnlyUser

\* Steps that write no task leave what was done alone, while the plan stays or
\* nothing has been done yet.
LEMMA PlanKept ==
  ASSUME DebateTypeOK, ApplyInv, UNCHANGED <<tasks, links, edges, user>>,
         row'.applied = row.applied,
         plan' = plan \/ (~Over /\ plan' = candidate)
  PROVE  TasksInv' /\ PlanInv' /\ AppliedInv' /\ \A a \in App : UserInv(a)'
<1>1. TasksInv' /\ PlanInv'
  BY TypesSplit DEF ApplyInv, TasksInv, PlanInv, LocalsOK
<1>2. CASE plan' = plan
  BY <1>1, <1>2, OthersKeep DEF ApplyInv, AppliedInv
<1>3. CASE ~Over
  <2>1. ~row.applied /\ \A a \in App : user[a].at \in {"down", "idle"}
    BY <1>3 DEF ApplyInv, ThreadInv, Applying
  <2> QED
    BY <1>1, <2>1 DEF ApplyInv, AppliedInv, UserInv
<1> QED
  BY <1>2, <1>3

\* The thread of the debate replaces the plan before anything is made of it,
\* and leaves a conclusion only for a failure to show it.
LEMMA ThreadKept ==
  ASSUME DebateTypeOK, ApplyInv, StartDebate \/ ThreadStep
  PROVE  ApplyInv'
<1>1. row \in RowType /\ ThreadInv
  BY TypesSplit DEF ApplyInv
<1>2. UNCHANGED <<tasks, links, edges, user>>
  BY DEF ThreadStep, StartDebate, Begin, StartRound, AskNext, RegisterCall, Heard, Synthesized,
         GivesUp, Tally, Synthesize, Keep, Conclude, Show, Guarded, Leave, Stays
<1>3. plan' = plan \/ (~Over /\ plan' = candidate)
  <2>1. CASE Keep
    BY <2>1 DEF Keep, Over
  <2>2. CASE ~Keep
    BY <2>2 DEF ThreadStep, StartDebate, Begin, StartRound, AskNext, RegisterCall, Heard,
         Synthesized, GivesUp, Tally, Synthesize, Conclude, Show, Guarded, Leave, Stays
  <2> QED
    BY <2>1, <2>2
<1>4. row'.applied = row.applied /\ ThreadInv'
  <2> USE <1>1, <1>2 DEF ThreadInv, Over, Applying, RowType, SetStatus, Goes, Concluded
  <2>1. CASE StartDebate \/ Begin
    BY <2>1 DEF StartDebate, Begin
  <2>2. CASE StartRound \/ Synthesize
    BY <2>2 DEF StartRound, Synthesize, Raised
  <2>3. CASE AskNext \/ RegisterCall \/ Heard \/ Synthesized \/ GivesUp \/ Tally \/ Leave
    BY <2>3 DEF AskNext, RegisterCall, Heard, Synthesized, GivesUp, Tally, Leave, Raised
  <2>4. CASE Keep \/ Show
    BY <2>4 DEF Keep, Show
  <2>5. CASE Conclude
    BY <2>5 DEF Conclude
  <2>6. CASE Guarded
    BY <2>6 DEF Guarded
  <2> QED
    BY <2>1, <2>2, <2>3, <2>4, <2>5, <2>6 DEF ThreadStep
<1> QED
  BY <1>2, <1>3, <1>4, PlanKept DEF ApplyInv

\* The inductive invariant of the theorem below.
LEMMA DebateKept == Spec => [](DebateTypeOK /\ ApplyInv)
<1>1. Init => DebateTypeOK /\ ApplyInv
  <2> SUFFICES ASSUME Init PROVE DebateTypeOK /\ ApplyInv
    OBVIOUS
  <2>1. user \in [App -> UserType] /\ \A a \in App : user[a].at \in {"down", "idle"} /\ user[a].known = {}
    BY ConstantTypes DEF Init, UserType, IdleUser
  <2>2. row.status \notin Concluded /\ ~row.applied
    BY DEF Init, Concluded
  <2>3. DebateTypeOK
    <3>1. row \in RowType /\ canceller \in CancellerType /\ call \in CallType
      BY ConstantTypes DEF Init, RowType, Status, CancellerType
    <3>2. LocalsOK /\ TasksOK
      BY ConstantTypes DEF Init, LocalsOK, TasksOK, ThreadPc
    <3>3. crashes \in 0..MaxCrashes
      BY DebateAssumption DEF Init
    <3> QED
      BY <2>1, <3>1, <3>2, <3>3, TypesSplit DEF Init
  <2>4. ApplyInv
    BY <2>1, <2>2 DEF Init, ApplyInv, ThreadInv, TasksInv, PlanInv, AppliedInv, UserInv, Applying
  <2> QED
    BY <2>3, <2>4
<1>2. DebateTypeOK /\ ApplyInv /\ [Next]_vars => DebateTypeOK' /\ ApplyInv'
  <2> SUFFICES ASSUME DebateTypeOK, ApplyInv, [Next]_vars PROVE DebateTypeOK' /\ ApplyInv'
    OBVIOUS
  <2>0. /\ row \in RowType /\ user \in [App -> UserType] /\ LocalsOK /\ ThreadInv
        /\ \A a \in App : UserInv(a)
    BY TypesSplit DEF ApplyInv
  <2>1. CASE StartDebate \/ ThreadStep
    BY <2>1, ThreadTyped, ThreadKept
  <2>2. CASE CallStep \/ CancelStep
    <3>1. UNCHANGED <<row, plan, tasks, links, edges, pc, user, fault>>
      BY <2>2 DEF CallStep, CallBegins, BindClient, RunAgent, AgentAnswers, AgentCut, CallEnds,
         OnlyCall, CancelStep, Collect, SetRoot, CutHandles, OnlyCanceller, database
    <3>2. ThreadInv'
      BY <2>0, <3>1 DEF ThreadInv, Over, Applying
    <3>3. TasksInv' /\ PlanInv' /\ AppliedInv' /\ \A a \in App : UserInv(a)'
      BY <3>1, PlanKept
    <3> QED
      BY <2>2, <3>2, <3>3, CallTyped DEF ApplyInv
  <2>3. CASE TimePasses \/ UNCHANGED vars
    <3>1. DebateTypeOK'
      BY <2>3 DEF TimePasses, vars, DebateTypeOK, database, locals, Speakers, Moderator, Task
    <3>2. UNCHANGED <<row, plan, tasks, links, edges, pc, user, fault>>
      BY <2>3 DEF TimePasses, vars, database
    <3>3. ThreadInv'
      BY <2>0, <3>2 DEF ThreadInv, Over, Applying
    <3>4. TasksInv' /\ PlanInv' /\ AppliedInv' /\ \A a \in App : UserInv(a)'
      BY <3>2, PlanKept
    <3> QED
      BY <3>1, <3>3, <3>4 DEF ApplyInv
  <2>4. ASSUME NEW a \in App, ApplyStep(a) PROVE DebateTypeOK' /\ ApplyInv'
    BY <2>4, ApplyKept
  <2>5. ASSUME NEW a \in App, StartApp(a) PROVE DebateTypeOK' /\ ApplyInv'
    <3>1. /\ UNCHANGED <<mode, plan, tasks, links, edges, clock, pc, locals, call, root,
                         canceller, crashes, fault>>
          /\ user' = [user EXCEPT ![a] = IdleUser]
          /\ user[a].at = "down"
          /\ row' = IF row.status \in Active /\ clock # "early"
                      THEN [row EXCEPT !.status = "failed"] ELSE row
      BY <2>5 DEF StartApp, OnlyUser, UserGoes, Expired
    <3>2. /\ row' \in RowType /\ row'.applied = row.applied
          /\ row.status \in Concluded <=> row'.status \in Concluded
      BY <2>0, <3>1 DEF RowType, Status, Active, Concluded, Terminal
    <3>3. user' \in [App -> UserType]
      BY <2>0, <3>1, ConstantTypes
    <3>4. DebateTypeOK'
      BY <3>1, <3>2, <3>3 DEF DebateTypeOK, RowType, Status, UserType, Speakers, Moderator,
         Task, locals
    <3>5. ThreadInv'
      BY <2>0, <3>1, <3>2 DEF ThreadInv, Over, Applying, IdleUser
    <3>6. \A b \in App : UserInv(b)'
      <4> TAKE b \in App
      <4>1. CASE b = a
        BY <2>0, <3>1, <4>1 DEF UserInv, IdleUser
      <4>2. CASE b # a
        BY <2>0, <3>1, <4>2, OthersKeep
      <4> QED
        BY <4>1, <4>2
    <3> QED
      BY <3>1, <3>2, <3>4, <3>5, <3>6 DEF ApplyInv, TasksInv, PlanInv, AppliedInv
  <2>6. ASSUME NEW a \in App, Crash(a) PROVE DebateTypeOK' /\ ApplyInv'
    <3> DEFINE down == [IdleUser EXCEPT !.at = "down"]
    <3>1. /\ UNCHANGED <<mode, row, plan, tasks, links, edges, clock, root, fault>>
          /\ user' = [user EXCEPT ![a] = down]
          /\ pc' = pc \/ pc' = "ended"
          /\ crashes < MaxCrashes /\ crashes' = crashes + 1
          /\ \/ UNCHANGED <<call, canceller, locals, pc>>
             \/ /\ call' = NoCall /\ LocalsGo /\ pc' = "ended"
                /\ canceller' = [at |-> "done", handles |-> {}]
      BY <2>6 DEF Crash, UserGoes, database, Goes
    <3>2. down \in UserType /\ down.at = "down" /\ down.known = {}
      BY ConstantTypes DEF IdleUser
    <3>3. call' \in CallType /\ canceller' \in CancellerType /\ LocalsOK'
      BY <2>0, <3>1, ConstantTypes, TypesSplit
      DEF LocalsOK, CancellerType, ThreadPc, LocalsGo, locals
    <3>4. crashes' \in 0..MaxCrashes
      BY <3>1, TypesSplit, DebateAssumption
    <3> HIDE DEF down
    <3>5. user' \in [App -> UserType]
      BY <2>0, <3>1, <3>2
    <3>6. DebateTypeOK'
      BY <3>1, <3>3, <3>4, <3>5 DEF DebateTypeOK, RowType, Status, UserType, CallType,
         CancellerType, Calls, LocalsOK, Speakers, Moderator, Task
    <3>7. ThreadInv'
      BY <2>0, <3>1, <3>2 DEF ThreadInv, Over, Applying
    <3>8. \A b \in App : UserInv(b)'
      <4> TAKE b \in App
      <4>1. CASE b = a
        BY <2>0, <3>1, <3>2, <4>1 DEF UserInv
      <4>2. CASE b # a
        BY <2>0, <3>1, <4>2, OthersKeep
      <4> QED
        BY <4>1, <4>2
    <3> QED
      BY <3>1, <3>6, <3>7, <3>8 DEF ApplyInv, TasksInv, PlanInv, AppliedInv
  <2> QED
    BY <2>1, <2>2, <2>3, <2>4, <2>5, <2>6 DEF Next
<1> QED
  BY <1>1, <1>2, PTL DEF Spec

\* The tasks of a debate, and its bounds: a work item has at most one task and
\* one link, whichever instances apply the debate at the same time or again
\* after a crash; a debate marked as applied has them all, with the
\* dependencies; and only a debate that concluded has tasks.
THEOREM DebateIsAppliedOnce == Spec => []DebateInv
<1>1. DebateTypeOK /\ ApplyInv => DebateInv
  <2> SUFFICES ASSUME DebateTypeOK, ApplyInv PROVE TasksOfDebate
    BY DEF DebateInv
  <2>1. \A i \in Item : Cardinality(TaskOf(i)) <= 1
    <3> TAKE i \in Item
    <3>1. TaskOf(i) \subseteq {TheTask(i)}
      BY DEF TaskOf, ApplyInv, TasksInv, DebateTypeOK, Task, TheTask
    <3>2. TaskOf(i) = {} \/ TaskOf(i) = {TheTask(i)}
      BY <3>1
    <3> QED
      <4>1. Cardinality({}) = 0
        BY FS_EmptySet
      <4>2. Cardinality({TheTask(i)}) = 1
        BY FS_Singleton
      <4> QED
        BY <3>2, <4>1, <4>2
  <2> QED
    BY <2>1 DEF ApplyInv, AppliedInv, ThreadInv, TasksOfDebate, TheLink, TheEdge
<1> QED
  BY <1>1, DebateKept, PTL
=============================================================================
