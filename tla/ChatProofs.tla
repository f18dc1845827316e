----------------------------- MODULE ChatProofs -----------------------------
(***************************************************************************)
(* Theorems about Chat, for every number of threads, prompts and agents,   *)
(* and any number of /stop and Ctrl+C.                                     *)
(*                                                                         *)
(* Slots are conserved because every action moves its prompt into or out   *)
(* of Holding and Waiting exactly as it moves the counters.  What became   *)
(* of a cancelled prompt is PromptInv: it stays in the book's cancelled    *)
(* set until it can ask no agent any more, and it is never in that set     *)
(* without having left the others.                                         *)
(***************************************************************************)
EXTENDS Chat, FiniteSetTheorems, TLAPS

Book == [active : SUBSET Prompt, queued : SUBSET Prompt, cancelled : SUBSET Prompt,
         listed : SUBSET Prompt, shown : [Prompt -> {"open"} \cup Terminal]]

\* Prompt q is neither active, queued nor listed in the book b, which shows how
\* it ended.
CleanIn(b, q) ==
  /\ q \notin b.active /\ q \notin b.queued /\ q \notin b.listed
  /\ b.shown[q] # "open"

\* What happened to q is known, or is about to be published as an exception.
Done(q) ==
  \/ pc[q] \in {"leaving", "over"}
  \/ pc[q] = "returned" /\ run[q].reply # "raised"

Gone == {"leaving", "returned", "over"}

PromptInv(q) ==
  /\ q \in reserved => pc[q] \notin {"new", "accepted", "waiting"}
  /\ pc[q] = "new" =>
       /\ q \notin book.active /\ q \notin book.queued
       /\ q \notin book.cancelled /\ q \notin book.listed
       /\ q \notin ctrlC.victims
       /\ stop[q].at = "no"
  /\ stop[q].at # "no" /\ pc[q] \notin Gone => q \in book.cancelled
  /\ stop[q].at # "no" /\ pc[q] \in HasFork =>
       run[q].cut \/ run[q].lost \/ (stop[q].fork /\ stop[q].at # "done")
  /\ q \in book.cancelled \/ Done(q) => CleanIn(book, q) \/ stop[q].at = "marked"
  /\ q \in caught => pc[q] \in HasFork

PromptsInv == \A q \in Prompt : PromptInv(q)

IndInv == ChatTypeOK /\ SlotsConserved /\ PromptsInv /\ InterruptReachesRun

(***************************************************************************)
(* The book.                                                               *)
(***************************************************************************)

\* The books b and c say the same of prompt q.
SameOf(q, b, c) ==
  /\ q \in c.active <=> q \in b.active
  /\ q \in c.queued <=> q \in b.queued
  /\ q \in c.cancelled <=> q \in b.cancelled
  /\ q \in c.listed <=> q \in b.listed
  /\ c.shown[q] = b.shown[q]

Live == {"queued", "starting", "running"}

\* The changes of a book, one by one: what they are about, and nothing else.
LEMMA RegisteredFacts ==
  ASSUME NEW b \in Book, NEW p \in Prompt
  PROVE  /\ Registered(b, p) \in Book
         /\ \A q \in Prompt \ {p} : SameOf(q, b, Registered(b, p))
         /\ p \in Registered(b, p).cancelled <=> p \in b.cancelled
BY DEF Book, Registered, SameOf

LEMMA ForgottenFacts ==
  ASSUME NEW b \in Book, NEW p \in Prompt
  PROVE  /\ Forgotten(b, p) \in Book
         /\ \A q \in Prompt \ {p} : SameOf(q, b, Forgotten(b, p))
         /\ CleanIn(b, p) => CleanIn(Forgotten(b, p), p)
         /\ p \notin Forgotten(b, p).cancelled
BY DEF Book, Forgotten, SameOf, CleanIn

LEMMA MarkedFacts ==
  ASSUME NEW b \in Book, NEW p \in Prompt
  PROVE  LET c == [b EXCEPT !.cancelled = @ \cup {p}] IN
         /\ c \in Book
         /\ \A q \in Prompt \ {p} : SameOf(q, b, c)
         /\ p \in c.cancelled
BY DEF Book, SameOf

\* What an update does to the prompts it is not about, and to a cancelled one.
LEMMA LiveUpdateFacts ==
  ASSUME NEW b \in Book, NEW P \in SUBSET Prompt, NEW s \in Live
  PROVE  /\ Updated(b, P, s) \in Book
         /\ \A q \in Prompt \ P : SameOf(q, b, Updated(b, P, s))
         /\ \A q \in P : q \in b.cancelled => SameOf(q, b, Updated(b, P, s))
         /\ \A q \in P : q \in Updated(b, P, s).cancelled <=> q \in b.cancelled
<1> DEFINE Q == P \ b.cancelled
<1>1. /\ s \notin Terminal
      /\ Updated(b, P, s).active = b.active \cup Q
      /\ Updated(b, P, s).queued \in {b.queued \cup Q, b.queued \ Q}
      /\ Updated(b, P, s).cancelled = b.cancelled \ Q
      /\ Updated(b, P, s).listed = b.listed
      /\ Updated(b, P, s).shown = [q \in Prompt |-> b.shown[q]]
      /\ Updated(b, P, s) = [active |-> Updated(b, P, s).active, queued |-> Updated(b, P, s).queued,
                             cancelled |-> Updated(b, P, s).cancelled,
                             listed |-> Updated(b, P, s).listed, shown |-> Updated(b, P, s).shown]
  BY DEF Updated, Terminal, Live
<1>2. Updated(b, P, s) \in Book
  BY <1>1 DEF Book
<1> QED
  BY <1>1, <1>2 DEF SameOf

\* A prompt that is given a terminal status leaves every set but one.
LEMMA TerminalUpdateFacts ==
  ASSUME NEW b \in Book, NEW P \in SUBSET Prompt, NEW s \in Terminal
  PROVE  /\ Updated(b, P, s) \in Book
         /\ \A q \in Prompt \ P : SameOf(q, b, Updated(b, P, s))
         /\ \A q \in P : CleanIn(Updated(b, P, s), q)
         /\ s = "cancelled" => P \subseteq Updated(b, P, s).cancelled
         /\ s # "cancelled" => \A q \in P : q \notin Updated(b, P, s).cancelled
<1>1. /\ Updated(b, P, s).active = b.active \ P
      /\ Updated(b, P, s).queued = b.queued \ P
      /\ Updated(b, P, s).cancelled =
           IF s = "cancelled" THEN b.cancelled \cup P ELSE b.cancelled \ P
      /\ Updated(b, P, s).listed = b.listed \ P
      /\ Updated(b, P, s).shown =
           [q \in Prompt |-> IF q \in P /\ b.shown[q] = "open" THEN s ELSE b.shown[q]]
      /\ Updated(b, P, s) = [active |-> Updated(b, P, s).active, queued |-> Updated(b, P, s).queued,
                             cancelled |-> Updated(b, P, s).cancelled,
                             listed |-> Updated(b, P, s).listed, shown |-> Updated(b, P, s).shown]
  BY DEF Updated, Terminal
<1>2. Updated(b, P, s).shown \in [Prompt -> {"open"} \cup Terminal]
  BY <1>1 DEF Book
<1>3. Updated(b, P, s) \in Book
  BY <1>1, <1>2 DEF Book
<1>4. "open" \notin Terminal
  BY DEF Terminal
<1> QED
  BY <1>1, <1>3, <1>4 DEF SameOf, CleanIn

\* What the type invariant says of the parts that proofs use.
LEMMA Types ==
  ASSUME ChatTypeOK
  PROVE  /\ book \in Book /\ run \in [Prompt -> Run]
         /\ threads \in Nat /\ threads >= 1 /\ Attempts \in Nat /\ Attempts >= 1
         /\ setting \in Settings
         /\ NoRun \in Run
BY ChatAssumption DEF ChatTypeOK, Book, threads, Attempts, NoRun, Run

\* Whether a prompt has left depends on what the book says of it.
LEMMA SameClean ==
  ASSUME NEW b, NEW c, NEW q, SameOf(q, b, c)
  PROVE  CleanIn(b, q) <=> CleanIn(c, q)
BY DEF SameOf, CleanIn

(***************************************************************************)
(* A step of one prompt.                                                   *)
(***************************************************************************)

\* The actions that belong to prompt p.
StepOf(p) == Accept(p) \/ Advance(p) \/ StopMark(p) \/ Stopping(p)

\* The book stays a book, and says of the other prompts what it said.
LEMMA BookMoves ==
  ASSUME ChatTypeOK, NEW p \in Prompt, StepOf(p)
  PROVE  /\ book' \in Book
         /\ \A q \in Prompt \ {p} : SameOf(q, book, book')
<1>1. book \in Book
  BY Types
<1>2. UNCHANGED book => book' \in Book /\ \A q \in Prompt \ {p} : SameOf(q, book, book')
  BY <1>1 DEF SameOf
<1> USE DEF Live, Terminal
<1>3. CASE StartFuture(p) \/ QueueTimeout(p) \/ CheckRun(p) \/ ClearEvent(p)
           \/ RunCut(p) \/ RunEnds(p) \/ Judge(p) \/ Leave(p) \/ StopFork(p)
  BY <1>2, <1>3
  DEF StartFuture, QueueTimeout, CheckRun, ClearEvent, RunCut, RunEnds, Judge, Leave,
      StopFork
<1>4. CASE Accept(p)
  BY <1>1, <1>2, <1>4, RegisteredFacts DEF Accept
<1>5. CASE Enqueue(p)
  BY <1>1, <1>2, <1>5, LiveUpdateFacts DEF Enqueue
<1>6. CASE SubmitAsync(p)
  BY <1>1, <1>2, <1>6, LiveUpdateFacts, ForgottenFacts DEF SubmitAsync
<1>7. CASE Promote(p)
  BY <1>1, <1>2, <1>7, LiveUpdateFacts DEF Promote
<1>8. CASE LeaveQueue(p)
  BY <1>1, <1>2, <1>8, TerminalUpdateFacts DEF LeaveQueue
<1>9. CASE StartMessage(p)
  <2> DEFINE b == IF p \in book.listed THEN book ELSE Registered(book, p)
  <2>1. b \in Book /\ \A q \in Prompt \ {p} : SameOf(q, book, b)
    BY <1>1, RegisteredFacts DEF SameOf
  <2>2. book' = Updated(b, {p}, "cancelled") \/ book' = b
    BY <1>9 DEF StartMessage
  <2>3. /\ Updated(b, {p}, "cancelled") \in Book
        /\ \A q \in Prompt \ {p} : SameOf(q, b, Updated(b, {p}, "cancelled"))
    <3> HIDE DEF b
    <3> QED
      BY <2>1, TerminalUpdateFacts
  <2> HIDE DEF b
  <2> QED
    BY <2>1, <2>2, <2>3 DEF SameOf
<1>10. CASE StartRound(p)
  BY <1>1, <1>2, <1>10, LiveUpdateFacts DEF StartRound
<1>11. CASE Bind(p)
  BY <1>1, <1>2, <1>11, LiveUpdateFacts DEF Bind
<1>12. CASE Fail(p)
  BY <1>1, <1>2, <1>12, TerminalUpdateFacts DEF Fail
<1>13. CASE Conclude(p)
  BY <1>1, <1>2, <1>13, TerminalUpdateFacts DEF Conclude
<1>14. CASE SubmissionDone(p)
  BY <1>1, <1>2, <1>14, TerminalUpdateFacts, ForgottenFacts DEF SubmissionDone
<1>15. CASE StopMark(p)
  BY <1>1, <1>2, <1>15, MarkedFacts DEF StopMark
<1>16. CASE StopPublish(p)
  <2> DEFINE b == Updated(book, {p}, "cancelled")
  <2>1. b \in Book /\ \A q \in Prompt \ {p} : SameOf(q, book, b)
    BY <1>1, TerminalUpdateFacts
  <2>2. book' = Forgotten(b, p) \/ book' = b
    BY <1>16 DEF StopPublish
  <2> HIDE DEF b
  <2> QED
    BY <2>1, <2>2, ForgottenFacts DEF SameOf
<1> QED
  BY <1>3, <1>4, <1>5, <1>6, <1>7, <1>8, <1>9, <1>10, <1>11, <1>12, <1>13, <1>14,
     <1>15, <1>16
  DEF StepOf, Advance, Stopping

\* The rest of the state, which is as much a matter of one prompt.
LEMMA RunMoves ==
  ASSUME ChatTypeOK, NEW p \in Prompt, StepOf(p)
  PROVE  /\ run' \in [Prompt -> Run]
         /\ \A q \in Prompt \ {p} : run'[q] = run[q]
<1>1. run \in [Prompt -> Run] /\ NoRun \in Run
  BY Types
<1>2. \A r \in Run : run' = [run EXCEPT ![p] = r] =>
        run' \in [Prompt -> Run] /\ \A q \in Prompt \ {p} : run'[q] = run[q]
  BY <1>1
<1>3. \A a \in Agent : [NoRun EXCEPT !.agent = a] \in Run
  BY <1>1 DEF Run
<1>4. ASSUME NEW r \in Run
      PROVE  /\ \A x \in BOOLEAN : /\ [r EXCEPT !.attempt = 1, !.cut = x, !.lost = FALSE] \in Run
                                   /\ [r EXCEPT !.lost = x, !.cut = FALSE] \in Run
                                   /\ [r EXCEPT !.cut = x] \in Run
             /\ \A n \in 1..Attempts : [r EXCEPT !.attempt = n] \in Run
             /\ \A x \in {"answer", "raised", "none"} : [r EXCEPT !.reply = x] \in Run
             /\ \A a \in Agent, C \in SUBSET Agent :
                  [r EXCEPT !.agent = a, !.first = FALSE, !.candidates = C] \in Run
  <2>1. 1 \in 1..Attempts
    BY Types
  <2>2. \A x \in BOOLEAN : [r EXCEPT !.attempt = 1, !.cut = x, !.lost = FALSE] \in Run
    BY <1>4, <2>1 DEF Run
  <2>3. \A x \in BOOLEAN : [r EXCEPT !.lost = x, !.cut = FALSE] \in Run
    BY <1>4 DEF Run
  <2>4. \A x \in BOOLEAN : [r EXCEPT !.cut = x] \in Run
    BY <1>4 DEF Run
  <2>5. \A n \in 1..Attempts : [r EXCEPT !.attempt = n] \in Run
    BY <1>4 DEF Run
  <2>6. \A x \in {"answer", "raised", "none"} : [r EXCEPT !.reply = x] \in Run
    BY <1>4 DEF Run
  <2>7. \A a \in Agent, C \in SUBSET Agent :
          [r EXCEPT !.agent = a, !.first = FALSE, !.candidates = C] \in Run
    BY <1>4 DEF Run
  <2> QED
    BY <2>2, <2>3, <2>4, <2>5, <2>6, <2>7
<1>5. CASE Accept(p) \/ Enqueue(p) \/ SubmitAsync(p) \/ StartFuture(p) \/ Promote(p)
           \/ LeaveQueue(p) \/ StartMessage(p) \/ Fail(p) \/ Conclude(p) \/ Leave(p)
           \/ StopMark(p) \/ StopPublish(p)
  BY <1>1, <1>5
  DEF Accept, Enqueue, SubmitAsync, StartFuture, Promote, LeaveQueue, StartMessage,
      Fail, Conclude, Leave, StopMark, StopPublish
<1>6. CASE QueueTimeout(p)
  BY <1>6, <1>1, <1>2, <1>4 DEF QueueTimeout
<1>7. CASE StartRound(p)
  <2>1. \E r \in Run : run' = [run EXCEPT ![p] = r]
    BY <1>7, <1>3 DEF StartRound, TakePrimary
  <2> QED
    BY <1>2, <2>1
<1>8. CASE Bind(p)
  <2> DEFINE cut == p \in book.cancelled
  <2>1. run' = [run EXCEPT ![p] = [run[p] EXCEPT !.attempt = 1, !.cut = cut, !.lost = FALSE]]
    BY <1>8 DEF Bind
  <2>2. cut \in BOOLEAN
    OBVIOUS
  <2> HIDE DEF cut
  <2> QED
    BY <1>1, <1>2, <1>4, <2>1, <2>2
<1>9. CASE CheckRun(p)
  BY <1>9, <1>1, <1>2, <1>4 DEF CheckRun
<1>10. CASE ClearEvent(p)
  <2> DEFINE lost == run[p].lost \/ run[p].cut
  <2>1. run' = [run EXCEPT ![p] = [run[p] EXCEPT !.lost = lost, !.cut = FALSE]]
    BY <1>10 DEF ClearEvent
  <2>2. lost \in BOOLEAN
    OBVIOUS
  <2> HIDE DEF lost
  <2> QED
    BY <1>1, <1>2, <1>4, <2>1, <2>2
<1>11. CASE RunCut(p)
  BY <1>11, <1>1, <1>2, <1>4 DEF RunCut
<1>12. CASE RunEnds(p)
  <2>1. \/ \E x \in {"answer", "raised", "none"} :
              run' = [run EXCEPT ![p] = [run[p] EXCEPT !.reply = x]]
        \/ /\ run[p].attempt < Attempts
           /\ run' = [run EXCEPT ![p] = [run[p] EXCEPT !.attempt = run[p].attempt + 1]]
    BY <1>12 DEF RunEnds
  <2>2. run[p].attempt < Attempts => run[p].attempt + 1 \in 1..Attempts
    BY <1>1, Types DEF Run
  <2> QED
    BY <1>1, <1>2, <1>4, <2>1, <2>2
<1>13. CASE Judge(p)
  <2> DEFINE left == IF run[p].first THEN Available \ {run[p].agent} ELSE run[p].candidates
  <2>1. left \subseteq Agent
    BY <1>1 DEF Run, Available
  <2>2. \/ UNCHANGED run
        \/ run' = [run EXCEPT ![p] = [run[p] EXCEPT !.reply = "raised"]]
        \/ \E a \in left :
             run' = [run EXCEPT ![p] = [run[p] EXCEPT !.agent = a, !.first = FALSE,
                                                      !.candidates = left \ {a}]]
    BY <1>13 DEF Judge
  <2>3. \A a \in left : a \in Agent /\ left \ {a} \subseteq Agent
    BY <2>1
  <2> HIDE DEF left
  <2> QED
    BY <1>1, <1>2, <1>4, <2>2, <2>3
<1>14. CASE SubmissionDone(p)
  BY <1>14, <1>1, <1>2 DEF SubmissionDone
<1>15. CASE StopFork(p)
  <2> DEFINE cut == run[p].cut \/ (stop[p].fork /\ pc[p] \in HasFork)
  <2>1. run' = [run EXCEPT ![p] = [run[p] EXCEPT !.cut = cut]]
    BY <1>15 DEF StopFork
  <2>2. cut \in BOOLEAN
    OBVIOUS
  <2> HIDE DEF cut
  <2> QED
    BY <1>1, <1>2, <1>4, <2>1, <2>2
<1> QED
  BY <1>5, <1>6, <1>7, <1>8, <1>9, <1>10, <1>11, <1>12, <1>13, <1>14, <1>15
  DEF StepOf, Advance, Stopping

\* No action moves two prompts.
LEMMA PcMoves ==
  ASSUME ChatTypeOK, NEW p \in Prompt, StepOf(p)
  PROVE  /\ (pc \in [Prompt -> {"new", "accepted", "sent", "submitted", "waiting", "returned",
                               "over"} \cup Started])'
         /\ \A q \in Prompt \ {p} : pc'[q] = pc[q]
<1>1. CASE Accept(p)
  BY <1>1 DEF Accept, Goes, IsNext, Started, ChatTypeOK
<1>2. CASE Enqueue(p)
  BY <1>2 DEF Enqueue, Goes, IsNext, Started, ChatTypeOK
<1>3. CASE SubmitAsync(p)
  BY <1>3 DEF SubmitAsync, Goes, IsNext, Started, ChatTypeOK
<1>4. CASE StartFuture(p)
  BY <1>4 DEF StartFuture, Goes, IsNext, Started, ChatTypeOK
<1>5. CASE Promote(p)
  BY <1>5 DEF Promote, Goes, IsNext, Started, ChatTypeOK
<1>6. CASE LeaveQueue(p)
  BY <1>6 DEF LeaveQueue, Goes, IsNext, Started, ChatTypeOK
<1>7. CASE QueueTimeout(p)
  BY <1>7 DEF QueueTimeout, Goes, IsNext, Started, ChatTypeOK
<1>8. CASE StartMessage(p)
  BY <1>8 DEF StartMessage, Goes, IsNext, Started, ChatTypeOK
<1>9. CASE StartRound(p)
  BY <1>9 DEF StartRound, Goes, IsNext, Started, ChatTypeOK
<1>10. CASE Bind(p)
  BY <1>10 DEF Bind, Goes, IsNext, Started, ChatTypeOK
<1>11. CASE CheckRun(p)
  BY <1>11 DEF CheckRun, Goes, IsNext, Started, ChatTypeOK
<1>12. CASE ClearEvent(p)
  BY <1>12 DEF ClearEvent, Goes, IsNext, Started, ChatTypeOK
<1>13. CASE RunCut(p)
  BY <1>13 DEF RunCut, Goes, IsNext, Started, ChatTypeOK
<1>14. CASE RunEnds(p)
  BY <1>14 DEF RunEnds, Goes, IsNext, Started, ChatTypeOK
<1>15. CASE Judge(p)
  BY <1>15 DEF Judge, Goes, IsNext, Started, ChatTypeOK
<1>16. CASE Fail(p)
  BY <1>16 DEF Fail, Goes, IsNext, Started, ChatTypeOK
<1>17. CASE Conclude(p)
  BY <1>17 DEF Conclude, Goes, IsNext, Started, ChatTypeOK
<1>18. CASE Leave(p)
  BY <1>18 DEF Leave, Goes, IsNext, Started, ChatTypeOK
<1>19. CASE SubmissionDone(p)
  BY <1>19 DEF SubmissionDone, Goes, IsNext, Started, ChatTypeOK
<1>20. CASE StopMark(p)
  BY <1>20 DEF StopMark, Goes, IsNext, Started, ChatTypeOK
<1>21. CASE StopPublish(p)
  BY <1>21 DEF StopPublish, Goes, IsNext, Started, ChatTypeOK
<1>22. CASE StopFork(p)
  BY <1>22 DEF StopFork, Goes, IsNext, Started, ChatTypeOK
<1> QED
  BY <1>1, <1>2, <1>3, <1>4, <1>5, <1>6, <1>7, <1>8, <1>9, <1>10, <1>11, <1>12, <1>13,
     <1>14, <1>15, <1>16, <1>17, <1>18, <1>19, <1>20, <1>21, <1>22
  DEF StepOf, Advance, Stopping

LEMMA RestMoves ==
  ASSUME ChatTypeOK, NEW p \in Prompt, StepOf(p)
  PROVE  /\ UNCHANGED <<setting, ctrlC>>
         /\ reserved' \subseteq Prompt
         /\ \A q \in Prompt \ {p} : q \in reserved' <=> q \in reserved
         /\ (stop \in [Prompt -> [at : {"no", "marked", "published", "done"}, fork : BOOLEAN]])'
         /\ \A q \in Prompt \ {p} : stop'[q] = stop[q]
         /\ caught' \subseteq caught
         /\ event' \in BOOLEAN
         /\ event' # event => StartMessage(p)
<1>1. CASE Accept(p)
  BY <1>1 DEF Accept, signals, StillCaught, ChatTypeOK
<1>2. CASE Enqueue(p)
  BY <1>2 DEF Enqueue, signals, StillCaught, ChatTypeOK
<1>3. CASE SubmitAsync(p)
  BY <1>3 DEF SubmitAsync, signals, StillCaught, ChatTypeOK
<1>4. CASE StartFuture(p)
  BY <1>4 DEF StartFuture, signals, StillCaught, ChatTypeOK
<1>5. CASE Promote(p)
  BY <1>5 DEF Promote, signals, StillCaught, ChatTypeOK
<1>6. CASE LeaveQueue(p)
  BY <1>6 DEF LeaveQueue, signals, StillCaught, ChatTypeOK
<1>7. CASE QueueTimeout(p)
  BY <1>7 DEF QueueTimeout, signals, StillCaught, ChatTypeOK
<1>8. CASE StartMessage(p)
  BY <1>8 DEF StartMessage, signals, StillCaught, ChatTypeOK
<1>9. CASE StartRound(p)
  BY <1>9 DEF StartRound, signals, StillCaught, ChatTypeOK
<1>10. CASE Bind(p)
  BY <1>10 DEF Bind, signals, StillCaught, ChatTypeOK
<1>11. CASE CheckRun(p)
  BY <1>11 DEF CheckRun, signals, StillCaught, ChatTypeOK
<1>12. CASE ClearEvent(p)
  BY <1>12 DEF ClearEvent, signals, StillCaught, ChatTypeOK
<1>13. CASE RunCut(p)
  BY <1>13 DEF RunCut, signals, StillCaught, ChatTypeOK
<1>14. CASE RunEnds(p)
  BY <1>14 DEF RunEnds, signals, StillCaught, ChatTypeOK
<1>15. CASE Judge(p)
  BY <1>15 DEF Judge, signals, StillCaught, ChatTypeOK
<1>16. CASE Fail(p)
  BY <1>16 DEF Fail, signals, StillCaught, ChatTypeOK
<1>17. CASE Conclude(p)
  BY <1>17 DEF Conclude, signals, StillCaught, ChatTypeOK
<1>18. CASE Leave(p)
  BY <1>18 DEF Leave, signals, StillCaught, ChatTypeOK
<1>19. CASE SubmissionDone(p)
  BY <1>19 DEF SubmissionDone, signals, StillCaught, ChatTypeOK
<1>20. CASE StopMark(p)
  BY <1>20 DEF StopMark, signals, StillCaught, ChatTypeOK
<1>21. CASE StopPublish(p)
  BY <1>21 DEF StopPublish, signals, StillCaught, ChatTypeOK
<1>22. CASE StopFork(p)
  BY <1>22 DEF StopFork, signals, StillCaught, ChatTypeOK
<1> QED
  BY <1>1, <1>2, <1>3, <1>4, <1>5, <1>6, <1>7, <1>8, <1>9, <1>10, <1>11, <1>12, <1>13,
     <1>14, <1>15, <1>16, <1>17, <1>18, <1>19, <1>20, <1>21, <1>22
  DEF StepOf, Advance, Stopping

(***************************************************************************)
(* The slots.                                                              *)
(***************************************************************************)

In(p, S) == IF p \in S THEN 1 ELSE 0

\* Two sets of prompts that differ in p alone.
LEMMA CountMoves ==
  ASSUME NEW S \in SUBSET Prompt, NEW T \in SUBSET Prompt, NEW p \in Prompt,
         \A q \in Prompt \ {p} : q \in T <=> q \in S
  PROVE  /\ Cardinality(S) \in Nat /\ Cardinality(T) \in Nat
         /\ Cardinality(T) + In(p, S) = Cardinality(S) + In(p, T)
<1>1. IsFiniteSet(S) /\ IsFiniteSet(T)
  BY ChatAssumption, FS_Subset
<1>2. Cardinality(S) \in Nat /\ Cardinality(T) \in Nat
  BY <1>1, FS_CardinalityType
<1>3. CASE p \in S /\ p \notin T
  <2>1. T = S \ {p}
    BY <1>3
  <2> QED
    BY <1>1, <1>2, <1>3, <2>1, FS_RemoveElement DEF In
<1>4. CASE p \notin S /\ p \in T
  <2>1. T = S \cup {p}
    BY <1>4
  <2> QED
    BY <1>1, <1>2, <1>4, <2>1, FS_AddElement DEF In
<1>5. CASE p \in S <=> p \in T
  <2>1. T = S
    BY <1>5
  <2> QED
    BY <1>2, <2>1
<1> QED
  BY <1>3, <1>4, <1>5

\* A prompt moves the permits and the counters as it moves between the sets.
LEMMA SlotMoves ==
  ASSUME ChatTypeOK, PromptsInv, NEW p \in Prompt, StepOf(p)
  PROVE  /\ slots' \in [permits : Int, inflight : Int, pending : Int]
         /\ slots'.permits >= 0
         /\ slots'.permits + In(p, Holding') = slots.permits + In(p, Holding)
         /\ slots'.inflight - In(p, Holding') = slots.inflight - In(p, Holding)
         /\ slots'.pending - In(p, Waiting') = slots.pending - In(p, Waiting)
<1> USE DEF Goes, Started
<1>1. slots \in [permits : Nat, inflight : Nat, pending : Nat]
  BY ChatAssumption, Types DEF ChatTypeOK
<1>2. pc[p] \in {"new", "accepted", "waiting"} => p \notin reserved
  BY DEF PromptsInv, PromptInv
<1>3. pc \in [Prompt -> {"new", "accepted", "sent", "submitted", "waiting", "returned", "over"} \cup Started]
  BY DEF ChatTypeOK
<1>4. CASE Accept(p)
  BY <1>1, <1>2, <1>3, <1>4 DEF Accept, IsNext, In, Holding, Waiting
<1>5. CASE Enqueue(p)
  <2>1. pc[p] = "accepted" /\ pc'[p] = "sent"
    BY <1>5, <1>3 DEF Enqueue, IsNext
  <2>2. In(p, Holding) = 0 /\ In(p, Waiting) = 0
    BY <2>1 DEF In, Holding, Waiting
  <2>3. CASE /\ slots.permits > 0
             /\ slots' = [slots EXCEPT !.permits = slots.permits - 1,
                                      !.inflight = slots.inflight + 1]
             /\ reserved' = reserved \cup {p}
    <3>1. In(p, Holding') = 1 /\ In(p, Waiting') = 0
      BY <2>1, <2>3 DEF In, Holding, Waiting
    <3>2. slots' = [permits |-> slots.permits - 1, inflight |-> slots.inflight + 1, pending |-> slots.pending]
      BY <1>1, <2>3
    <3> QED
      BY <1>1, <2>2, <2>3, <3>1, <3>2
  <2>4. CASE /\ slots' = [slots EXCEPT !.pending = slots.pending + 1]
             /\ UNCHANGED reserved
    <3>1. In(p, Holding') = 0 /\ In(p, Waiting') = 1
      BY <1>2, <2>1, <2>4 DEF In, Holding, Waiting
    <3>2. slots' = [permits |-> slots.permits, inflight |-> slots.inflight, pending |-> slots.pending + 1]
      BY <1>1, <2>4
    <3> QED
      BY <1>1, <2>2, <2>4, <3>1, <3>2
  <2> QED
    BY <1>5, <2>3, <2>4 DEF Enqueue
<1>6. CASE SubmitAsync(p)
  <2>1. pc[p] \in {"sent", "submitted"}
    BY <1>6 DEF SubmitAsync, IsNext
  <2>2. CASE pc'[p] = "over" /\ slots' = Unstarted(p) /\ UNCHANGED reserved
    <3>1. CASE p \in reserved
      <4>1. In(p, Holding) = 1 /\ In(p, Waiting) = 0 /\ In(p, Holding') = 0 /\ In(p, Waiting') = 0
        BY <2>1, <2>2, <3>1 DEF In, Holding, Waiting
      <4>2. slots' = [permits |-> slots.permits + 1, inflight |-> slots.inflight - 1, pending |-> slots.pending]
        BY <1>1, <2>2, <3>1 DEF Unstarted
      <4> QED
        BY <1>1, <4>1, <4>2
    <3>2. CASE p \notin reserved
      <4>1. In(p, Holding) = 0 /\ In(p, Waiting) = 1 /\ In(p, Holding') = 0 /\ In(p, Waiting') = 0
        BY <2>1, <2>2, <3>2 DEF In, Holding, Waiting
      <4>2. slots' = [permits |-> slots.permits, inflight |-> slots.inflight, pending |-> slots.pending - 1]
        BY <1>1, <2>2, <3>2 DEF Unstarted
      <4> QED
        BY <1>1, <4>1, <4>2
    <3> QED
      BY <3>1, <3>2
  <2>3. CASE pc'[p] = "submitted" /\ UNCHANGED <<slots, reserved>>
    <3>1. In(p, Holding') = In(p, Holding) /\ In(p, Waiting') = In(p, Waiting)
      BY <2>1, <2>3 DEF In, Holding, Waiting
    <3> QED
      BY <1>1, <2>3, <3>1
  <2> QED
    BY <1>6, <1>3, <2>2, <2>3 DEF SubmitAsync
<1>7. CASE StartFuture(p)
  BY <1>1, <1>2, <1>3, <1>7 DEF StartFuture, IsNext, In, Holding, Waiting
<1>8. CASE Promote(p)
  BY <1>1, <1>2, <1>3, <1>8 DEF Promote, IsNext, In, Holding, Waiting
<1>9. CASE LeaveQueue(p)
  BY <1>1, <1>2, <1>3, <1>9 DEF LeaveQueue, IsNext, In, Holding, Waiting
<1>10. CASE QueueTimeout(p)
  BY <1>1, <1>2, <1>3, <1>10 DEF QueueTimeout, IsNext, In, Holding, Waiting
<1>11. CASE StartMessage(p)
  BY <1>1, <1>2, <1>3, <1>11 DEF StartMessage, IsNext, In, Holding, Waiting
<1>12. CASE StartRound(p)
  BY <1>1, <1>2, <1>3, <1>12 DEF StartRound, IsNext, In, Holding, Waiting
<1>13. CASE Bind(p)
  BY <1>1, <1>2, <1>3, <1>13 DEF Bind, IsNext, In, Holding, Waiting
<1>14. CASE CheckRun(p)
  BY <1>1, <1>2, <1>3, <1>14 DEF CheckRun, IsNext, In, Holding, Waiting
<1>15. CASE ClearEvent(p)
  BY <1>1, <1>2, <1>3, <1>15 DEF ClearEvent, IsNext, In, Holding, Waiting
<1>16. CASE RunCut(p)
  BY <1>1, <1>2, <1>3, <1>16 DEF RunCut, IsNext, In, Holding, Waiting
<1>17. CASE RunEnds(p)
  BY <1>1, <1>2, <1>3, <1>17 DEF RunEnds, IsNext, In, Holding, Waiting
<1>18. CASE Judge(p)
  <2>1. pc[p] \in Started /\ pc'[p] \in Started /\ UNCHANGED <<reserved, slots>>
    BY <1>18, <1>3 DEF Judge
  <2>2. In(p, Holding') = In(p, Holding) /\ In(p, Waiting') = In(p, Waiting)
    BY <2>1 DEF In, Holding, Waiting
  <2> QED
    BY <1>1, <2>1, <2>2
<1>19. CASE Fail(p)
  BY <1>1, <1>2, <1>3, <1>19 DEF Fail, IsNext, In, Holding, Waiting
<1>20. CASE Conclude(p)
  BY <1>1, <1>2, <1>3, <1>20 DEF Conclude, IsNext, In, Holding, Waiting
<1>21. CASE Leave(p)
  <2>1. In(p, Holding) = 1 /\ In(p, Waiting) = 0 /\ In(p, Holding') = 0 /\ In(p, Waiting') = 0
    BY <1>21, <1>3 DEF Leave, In, Holding, Waiting
  <2>2. slots' = [permits |-> slots.permits + 1, inflight |-> slots.inflight - 1, pending |-> slots.pending]
    BY <1>1, <1>21 DEF Leave
  <2> QED
    BY <1>1, <2>1, <2>2
<1>22. CASE SubmissionDone(p)
  BY <1>1, <1>2, <1>3, <1>22 DEF SubmissionDone, IsNext, In, Holding, Waiting
<1>23. CASE StopMark(p)
  BY <1>1, <1>2, <1>3, <1>23 DEF StopMark, IsNext, In, Holding, Waiting
<1>24. CASE StopPublish(p)
  <2>0. CASE pc[p] # "submitted"
    BY <1>1, <1>24, <2>0 DEF StopPublish, Holding, Waiting
  <2>1. CASE pc[p] = "submitted"
    <3>1. pc'[p] = "over" /\ slots' = Unstarted(p) /\ UNCHANGED reserved
      BY <1>24, <1>3, <2>1 DEF StopPublish
    <3>2. CASE p \in reserved
      <4>1. In(p, Holding) = 1 /\ In(p, Waiting) = 0 /\ In(p, Holding') = 0 /\ In(p, Waiting') = 0
        BY <2>1, <3>1, <3>2 DEF In, Holding, Waiting
      <4>2. slots' = [permits |-> slots.permits + 1, inflight |-> slots.inflight - 1, pending |-> slots.pending]
        BY <1>1, <3>1, <3>2 DEF Unstarted
      <4> QED
        BY <1>1, <4>1, <4>2
    <3>3. CASE p \notin reserved
      <4>1. In(p, Holding) = 0 /\ In(p, Waiting) = 1 /\ In(p, Holding') = 0 /\ In(p, Waiting') = 0
        BY <2>1, <3>1, <3>3 DEF In, Holding, Waiting
      <4>2. slots' = [permits |-> slots.permits, inflight |-> slots.inflight, pending |-> slots.pending - 1]
        BY <1>1, <3>1, <3>3 DEF Unstarted
      <4> QED
        BY <1>1, <4>1, <4>2
    <3> QED
      BY <3>2, <3>3
  <2> QED
    BY <2>0, <2>1
<1>25. CASE StopFork(p)
  BY <1>1, <1>2, <1>3, <1>25 DEF StopFork, IsNext, In, Holding, Waiting
<1> QED
  BY <1>4, <1>5, <1>6, <1>7, <1>8, <1>9, <1>10, <1>11, <1>12, <1>13, <1>14, <1>15,
     <1>16, <1>17, <1>18, <1>19, <1>20, <1>21, <1>22, <1>23, <1>24, <1>25
  DEF StepOf, Advance, Stopping

\* ... so that the counts follow.
LEMMA SlotsStep ==
  ASSUME ChatTypeOK, PromptsInv, SlotsConserved, NEW p \in Prompt, StepOf(p)
  PROVE  /\ SlotsConserved'
         /\ (slots \in [permits : 0..threads, inflight : 0..threads,
                        pending : 0..Cardinality(Prompt)])'
<1>1. /\ Holding \subseteq Prompt /\ Waiting \subseteq Prompt
      /\ Holding' \subseteq Prompt /\ Waiting' \subseteq Prompt
  BY DEF Holding, Waiting
<1>2. \A q \in Prompt \ {p} :
        (q \in Holding' <=> q \in Holding) /\ (q \in Waiting' <=> q \in Waiting)
  BY PcMoves, RestMoves DEF Holding, Waiting
<1>3. /\ Cardinality(Holding) \in Nat /\ Cardinality(Holding') \in Nat
      /\ Cardinality(Holding') + In(p, Holding) = Cardinality(Holding) + In(p, Holding')
  BY <1>1, <1>2, CountMoves
<1>4. /\ Cardinality(Waiting) \in Nat /\ Cardinality(Waiting') \in Nat
      /\ Cardinality(Waiting') + In(p, Waiting) = Cardinality(Waiting) + In(p, Waiting')
  BY <1>1, <1>2, CountMoves
<1>5. /\ In(p, Holding) \in Int /\ In(p, Holding') \in Int
      /\ In(p, Waiting) \in Int /\ In(p, Waiting') \in Int
  BY DEF In
<1>6. /\ slots.permits \in Int /\ slots.inflight \in Int /\ slots.pending \in Int
      /\ slots'.permits \in Int /\ slots'.inflight \in Int /\ slots'.pending \in Int
  BY SlotMoves, Types, ChatAssumption DEF ChatTypeOK
<1>7. threads \in Nat /\ threads' = threads
  BY Types, RestMoves DEF threads
<1>8. /\ slots'.permits + Cardinality(Holding') = threads
      /\ slots'.inflight = Cardinality(Holding')
      /\ slots'.pending = Cardinality(Waiting')
      /\ slots'.permits >= 0
  BY <1>3, <1>4, <1>5, <1>6, <1>7, SlotMoves DEF SlotsConserved
<1>9. Cardinality(Waiting') <= Cardinality(Prompt) /\ Cardinality(Prompt) \in Nat
  BY <1>1, ChatAssumption, FS_Subset, FS_CardinalityType
<1>10. slots' \in [permits : 0..threads, inflight : 0..threads, pending : 0..Cardinality(Prompt)]
  <2>1. /\ slots'.permits \in 0..threads /\ slots'.inflight \in 0..threads
        /\ slots'.pending \in 0..Cardinality(Prompt)
    BY <1>3, <1>4, <1>6, <1>7, <1>8, <1>9
  <2>2. slots' \in [permits : Int, inflight : Int, pending : Int]
    BY SlotMoves
  <2> QED
    BY <2>1, <2>2
<1> QED
  BY <1>7, <1>8, <1>10 DEF SlotsConserved

(***************************************************************************)
(* What is known of every prompt.                                          *)
(***************************************************************************)

\* A step of one prompt is none of the others'.
LEMMA OthersKeep ==
  ASSUME ChatTypeOK, PromptsInv, NEW p \in Prompt, StepOf(p), NEW q \in Prompt \ {p}
  PROVE  PromptInv(q)'
<1>1. /\ pc'[q] = pc[q] /\ run'[q] = run[q] /\ stop'[q] = stop[q]
      /\ q \in reserved' <=> q \in reserved
      /\ q \in caught' => q \in caught
      /\ ctrlC' = ctrlC
      /\ SameOf(q, book, book')
  BY PcMoves, RunMoves, RestMoves, BookMoves
<1>2. CleanIn(book, q) <=> CleanIn(book', q)
  BY <1>1, SameClean
<1>3. (Done(q) <=> Done(q)') /\ (CleanIn(book, q)' <=> CleanIn(book', q))
  BY <1>1 DEF Done, CleanIn
<1> QED
  BY <1>1, <1>2, <1>3 DEF PromptsInv, PromptInv, SameOf

\* A prompt goes on: its book changes only if it is not cancelled.
LEMMA GoingOn ==
  ASSUME ChatTypeOK, NEW p \in Prompt, PromptInv(p), UNCHANGED ctrlC, stop'[p] = stop[p],
         p \in reserved' => pc'[p] \notin {"new", "accepted", "waiting"},
         p \in book'.cancelled <=> p \in book.cancelled,
         p \in book.cancelled => SameOf(p, book, book'),
         pc[p] \notin Gone, pc'[p] \notin Gone \cup {"new"},
         stop[p].at # "no" /\ pc'[p] \in HasFork =>
           run'[p].cut \/ run'[p].lost \/ (stop[p].fork /\ stop[p].at # "done"),
         p \in caught' => pc'[p] \in HasFork
  PROVE  PromptInv(p)'
<1>1. ~Done(p)'
  BY DEF Done, Gone
<1>2. p \in book'.cancelled => CleanIn(book', p) \/ stop'[p].at = "marked"
  BY SameClean DEF PromptInv
<1>3. stop'[p].at # "no" /\ pc'[p] \notin Gone => p \in book'.cancelled
  BY DEF PromptInv
<1> QED
  BY <1>1, <1>2, <1>3 DEF PromptInv, CleanIn

\* A prompt is neither active, queued nor listed, and asks no agent any more.
LEMMA Ending ==
  ASSUME NEW p \in Prompt, CleanIn(book', p), pc'[p] \in Gone, p \notin caught'
  PROVE  PromptInv(p)'
BY DEF PromptInv, CleanIn, Gone, HasFork

\* A prompt that has left, or is cancelled, is forgotten.
LEMMA Forgetting ==
  ASSUME NEW p \in Prompt, PromptInv(p), stop'[p] = stop[p],
         CleanIn(book, p) => CleanIn(book', p),
         p \in book'.cancelled => p \in book.cancelled,
         Done(p)' => Done(p) \/ p \in book.cancelled,
         pc'[p] \in Gone, p \notin caught'
  PROVE  PromptInv(p)'
BY DEF PromptInv, CleanIn, Gone, HasFork

\* What a prompt's own step keeps of it: it goes on, it ends, or it is stopped.
LEMMA OwnKeep ==
  ASSUME ChatTypeOK, PromptsInv, NEW p \in Prompt, StepOf(p)
  PROVE  PromptInv(p)'
<1>1. /\ book \in Book /\ run \in [Prompt -> Run]
      /\ pc \in [Prompt -> {"new", "accepted", "sent", "submitted", "waiting", "returned",
                           "over"} \cup Started]
      /\ stop \in [Prompt -> [at : {"no", "marked", "published", "done"}, fork : BOOLEAN]]
  BY Types DEF ChatTypeOK
<1>2. PromptInv(p)
  BY DEF PromptsInv
<1>3. \A s \in Live :
        /\ p \in book.cancelled => SameOf(p, book, Updated(book, {p}, s))
        /\ p \in Updated(book, {p}, s).cancelled <=> p \in book.cancelled
  <2> SUFFICES ASSUME NEW s \in Live
               PROVE  /\ p \in book.cancelled => SameOf(p, book, Updated(book, {p}, s))
                      /\ p \in Updated(book, {p}, s).cancelled <=> p \in book.cancelled
    OBVIOUS
  <2>1. {p} \in SUBSET Prompt /\ p \in {p}
    OBVIOUS
  <2> QED
    BY <1>1, <2>1, LiveUpdateFacts
<1>4. \A b \in Book : \A s \in Terminal :
        /\ Updated(b, {p}, s) \in Book
        /\ CleanIn(Updated(b, {p}, s), p)
        /\ p \in Updated(b, {p}, s).cancelled <=> s = "cancelled"
  <2> SUFFICES ASSUME NEW b \in Book, NEW s \in Terminal
               PROVE  /\ Updated(b, {p}, s) \in Book
                      /\ CleanIn(Updated(b, {p}, s), p)
                      /\ p \in Updated(b, {p}, s).cancelled <=> s = "cancelled"
    OBVIOUS
  <2>1. {p} \in SUBSET Prompt /\ p \in {p}
    OBVIOUS
  <2> QED
    BY <2>1, TerminalUpdateFacts
<1>5. caught' \subseteq caught /\ ctrlC' = ctrlC
  BY RestMoves
<1>6. pc[p] \notin HasFork => p \notin caught'
  BY <1>2, <1>5 DEF PromptInv
<1>7. UNCHANGED book =>
        /\ p \in book'.cancelled <=> p \in book.cancelled
        /\ SameOf(p, book, book')
  BY DEF SameOf
<1>8. CASE Accept(p)
  <2>1. /\ pc[p] \notin Gone /\ pc'[p] \in {"accepted"} /\ stop'[p] = stop[p]
        /\ p \in reserved' => pc'[p] \notin {"new", "accepted", "waiting"}
    BY <1>8, <1>1, <1>2 DEF Accept, IsNext, Goes, Gone, Started, PromptInv, signals
  <2>2. /\ p \in book'.cancelled <=> p \in book.cancelled
        /\ p \in book.cancelled => SameOf(p, book, book')
    BY <1>8, <1>1, <1>2, RegisteredFacts DEF Accept, IsNext, PromptInv
  <2>3. stop[p].at # "no" /\ pc'[p] \in HasFork =>
          run'[p].cut \/ run'[p].lost \/ (stop[p].fork /\ stop[p].at # "done")
    BY <1>8, <1>1, <1>2, <2>1 DEF Accept, Goes, HasFork, Gone, PromptInv
  <2>4. p \in caught' => pc'[p] \in HasFork
    BY <1>8, <1>1, <1>5, <1>6 DEF Accept, HasFork, Goes, signals, IsNext
  <2> QED
    BY <1>2, <1>5, <2>1, <2>2, <2>3, <2>4, GoingOn DEF Gone
<1>9. CASE Enqueue(p)
  <2>1. /\ pc[p] \notin Gone /\ pc'[p] \in {"sent"} /\ stop'[p] = stop[p]
        /\ p \in reserved' => pc'[p] \notin {"new", "accepted", "waiting"}
    BY <1>9, <1>1, <1>2 DEF Enqueue, IsNext, Goes, Gone, Started, PromptInv, signals
  <2>2. /\ p \in book'.cancelled <=> p \in book.cancelled
        /\ p \in book.cancelled => SameOf(p, book, book')
    BY <1>9, <1>1, <1>3 DEF Enqueue, Live
  <2>3. stop[p].at # "no" /\ pc'[p] \in HasFork =>
          run'[p].cut \/ run'[p].lost \/ (stop[p].fork /\ stop[p].at # "done")
    BY <1>9, <1>1, <1>2, <2>1 DEF Enqueue, Goes, HasFork, Gone, PromptInv
  <2>4. p \in caught' => pc'[p] \in HasFork
    BY <1>9, <1>1, <1>5, <1>6 DEF Enqueue, HasFork, Goes, signals, IsNext
  <2> QED
    BY <1>2, <1>5, <2>1, <2>2, <2>3, <2>4, GoingOn DEF Gone
<1>10. CASE SubmitAsync(p)
  <2>0. p \notin caught' /\ pc[p] = "sent" /\ stop'[p] = stop[p]
    BY <1>10, <1>6 DEF SubmitAsync, IsNext, HasFork, signals
  <2>5. CASE p \in book.cancelled
    <3>1. book' = Forgotten(book, p) /\ pc'[p] = "over"
      BY <1>10, <1>1, <2>5 DEF SubmitAsync, Goes
    <3>2. p \notin book'.cancelled /\ (CleanIn(book, p) => CleanIn(book', p))
      BY <1>1, <3>1, ForgottenFacts
    <3> QED
      BY <1>2, <2>0, <2>5, <3>1, <3>2, Forgetting DEF Gone
  <2>6. CASE p \notin book.cancelled
    <3>1. pc'[p] = "submitted"
      BY <1>10, <1>1, <2>6 DEF SubmitAsync, Goes
    <3>2. p \notin book'.cancelled
      BY <1>10, <1>3, <2>6 DEF SubmitAsync, Live
    <3> QED
      BY <1>2, <1>5, <2>0, <2>6, <3>1, <3>2, GoingOn DEF Gone, HasFork
  <2> QED
    BY <2>5, <2>6
<1>11. CASE StartFuture(p)
  <2>1. /\ pc[p] \notin Gone /\ pc'[p] \in {"starting", "waiting"} /\ stop'[p] = stop[p]
        /\ p \in reserved' => pc'[p] \notin {"new", "accepted", "waiting"}
    BY <1>11, <1>1, <1>2
    DEF StartFuture, IsNext, Goes, Gone, Started, PromptInv, signals
  <2>2. /\ p \in book'.cancelled <=> p \in book.cancelled
        /\ p \in book.cancelled => SameOf(p, book, book')
    BY <1>11, <1>1, <1>7 DEF StartFuture, Live
  <2>3. stop[p].at # "no" /\ pc'[p] \in HasFork =>
          run'[p].cut \/ run'[p].lost \/ (stop[p].fork /\ stop[p].at # "done")
    BY <1>11, <1>1, <1>2, <2>1 DEF StartFuture, Goes, HasFork, Gone, PromptInv
  <2>4. p \in caught' => pc'[p] \in HasFork
    BY <1>11, <1>1, <1>5, <1>6 DEF StartFuture, HasFork, Goes, signals, IsNext
  <2> QED
    BY <1>2, <1>5, <2>1, <2>2, <2>3, <2>4, GoingOn DEF Gone
<1>12. CASE Promote(p)
  <2>1. /\ pc[p] \notin Gone /\ pc'[p] \in {"starting"} /\ stop'[p] = stop[p]
        /\ p \in reserved' => pc'[p] \notin {"new", "accepted", "waiting"}
    BY <1>12, <1>1, <1>2 DEF Promote, IsNext, Goes, Gone, Started, PromptInv, signals
  <2>2. /\ p \in book'.cancelled <=> p \in book.cancelled
        /\ p \in book.cancelled => SameOf(p, book, book')
    BY <1>12, <1>1, <1>3 DEF Promote, Live
  <2>3. stop[p].at # "no" /\ pc'[p] \in HasFork =>
          run'[p].cut \/ run'[p].lost \/ (stop[p].fork /\ stop[p].at # "done")
    BY <1>12, <1>1, <1>2, <2>1 DEF Promote, Goes, HasFork, Gone, PromptInv
  <2>4. p \in caught' => pc'[p] \in HasFork
    BY <1>12, <1>1, <1>5, <1>6 DEF Promote, HasFork, Goes, signals, IsNext
  <2> QED
    BY <1>2, <1>5, <2>1, <2>2, <2>3, <2>4, GoingOn DEF Gone
<1>13. CASE LeaveQueue(p)
  <2>1. pc[p] \notin HasFork /\ pc'[p] \in {"returned"}
    BY <1>13, <1>1 DEF LeaveQueue, Goes, HasFork
  <2>2. CleanIn(book', p)
    BY <1>13, <1>1, <1>4 DEF LeaveQueue, Terminal
  <2> QED
    BY <1>6, <2>1, <2>2, Ending DEF Gone
<1>14. CASE QueueTimeout(p)
  <2>1. /\ pc[p] = "waiting" /\ pc'[p] = "returned" /\ run'[p].reply = "raised"
        /\ UNCHANGED book /\ stop'[p] = stop[p] /\ p \notin caught'
    BY <1>14, <1>1, <1>6 DEF QueueTimeout, Goes, HasFork, signals, Run
  <2> QED
    BY <1>2, <2>1, Forgetting DEF Gone, Done
<1>15. CASE StartMessage(p)
  <2> DEFINE b == IF p \in book.listed THEN book ELSE Registered(book, p)
  <2>1. b \in Book /\ (p \in b.cancelled <=> p \in book.cancelled)
    BY <1>1, RegisteredFacts
  <2>2. pc[p] = "starting" /\ stop'[p] = stop[p] /\ p \notin caught' /\ UNCHANGED reserved
    BY <1>15, <1>6 DEF StartMessage, HasFork
  <2>3. CASE p \in b.cancelled
    <3>1. pc'[p] = "leaving" /\ book' = Updated(b, {p}, "cancelled")
      BY <1>15, <1>1, <2>3 DEF StartMessage, Goes
    <3>2. CleanIn(book', p)
      <4> HIDE DEF b
      <4> QED
        BY <1>4, <2>1, <3>1 DEF Terminal
    <3> QED
      BY <2>2, <3>1, <3>2, Ending DEF Gone
  <2>4. CASE p \notin b.cancelled
    <3>1. pc'[p] = "reset" /\ book' = b
      BY <1>15, <1>1, <2>4 DEF StartMessage, Goes
    <3>2. p \notin book'.cancelled /\ p \notin book.cancelled
      BY <2>1, <2>4, <3>1
    <3> QED
      BY <1>2, <1>5, <2>2, <3>1, <3>2, GoingOn DEF Gone, HasFork
  <2> QED
    BY <2>3, <2>4
<1>16. CASE StartRound(p)
  <2>1. /\ pc[p] \notin Gone /\ pc'[p] \in {"ask"} /\ stop'[p] = stop[p]
        /\ p \in reserved' => pc'[p] \notin {"new", "accepted", "waiting"}
    BY <1>16, <1>1, <1>2 DEF StartRound, IsNext, Goes, Gone, Started, PromptInv, signals
  <2>2. /\ p \in book'.cancelled <=> p \in book.cancelled
        /\ p \in book.cancelled => SameOf(p, book, book')
    BY <1>16, <1>1, <1>3 DEF StartRound, Live
  <2>3. stop[p].at # "no" /\ pc'[p] \in HasFork =>
          run'[p].cut \/ run'[p].lost \/ (stop[p].fork /\ stop[p].at # "done")
    BY <1>16, <1>1, <1>2, <2>1 DEF StartRound, Goes, HasFork, Gone, PromptInv
  <2>4. p \in caught' => pc'[p] \in HasFork
    BY <1>16, <1>1, <1>5, <1>6 DEF StartRound, HasFork, Goes, signals, IsNext
  <2> QED
    BY <1>2, <1>5, <2>1, <2>2, <2>3, <2>4, GoingOn DEF Gone
<1>17. CASE Bind(p)
  <2>1. /\ pc[p] \notin Gone /\ pc'[p] \in {"bound"} /\ stop'[p] = stop[p]
        /\ p \in reserved' => pc'[p] \notin {"new", "accepted", "waiting"}
    BY <1>17, <1>1, <1>2 DEF Bind, IsNext, Goes, Gone, Started, PromptInv, signals
  <2>2. /\ p \in book'.cancelled <=> p \in book.cancelled
        /\ p \in book.cancelled => SameOf(p, book, book')
    BY <1>17, <1>1, <1>3 DEF Bind, Live
  <2>3. stop[p].at # "no" /\ pc'[p] \in HasFork =>
          run'[p].cut \/ run'[p].lost \/ (stop[p].fork /\ stop[p].at # "done")
    <3> DEFINE cut == p \in book.cancelled
    <3>1. run'[p] = [run[p] EXCEPT !.attempt = 1, !.cut = cut, !.lost = FALSE]
      BY <1>17, <1>1 DEF Bind
    <3>2. run'[p].cut = cut
      <4> HIDE DEF cut
      <4> QED
        BY <1>1, <3>1 DEF Run
    <3>3. stop[p].at # "no" => cut
      BY <1>2, <2>1 DEF PromptInv
    <3> QED
      BY <3>2, <3>3
  <2>4. p \in caught' => pc'[p] \in HasFork
    BY <1>17, <1>1, <1>5, <1>6 DEF Bind, HasFork, Goes, signals, IsNext
  <2> QED
    BY <1>2, <1>5, <2>1, <2>2, <2>3, <2>4, GoingOn DEF Gone
<1>18. CASE CheckRun(p)
  <2>1. /\ pc[p] \notin Gone /\ pc'[p] \in {"judge", "clearing"} /\ stop'[p] = stop[p]
        /\ p \in reserved' => pc'[p] \notin {"new", "accepted", "waiting"}
    BY <1>18, <1>1, <1>2 DEF CheckRun, IsNext, Goes, Gone, Started, PromptInv, signals
  <2>2. /\ p \in book'.cancelled <=> p \in book.cancelled
        /\ p \in book.cancelled => SameOf(p, book, book')
    BY <1>18, <1>1, <1>7 DEF CheckRun, Live
  <2>3. stop[p].at # "no" /\ pc'[p] \in HasFork =>
          run'[p].cut \/ run'[p].lost \/ (stop[p].fork /\ stop[p].at # "done")
    BY <1>18, <1>1, <1>2, <2>1 DEF CheckRun, Goes, HasFork, Gone, PromptInv
  <2>4. p \in caught' => pc'[p] \in HasFork
    BY <1>18, <1>1, <1>5, <1>6 DEF CheckRun, HasFork, StillCaught
  <2> QED
    BY <1>2, <1>5, <2>1, <2>2, <2>3, <2>4, GoingOn DEF Gone
<1>19. CASE ClearEvent(p)
  <2>1. /\ pc[p] \notin Gone /\ pc'[p] \in {"running"} /\ stop'[p] = stop[p]
        /\ p \in reserved' => pc'[p] \notin {"new", "accepted", "waiting"}
    BY <1>19, <1>1, <1>2 DEF ClearEvent, IsNext, Goes, Gone, Started, PromptInv, signals
  <2>2. /\ p \in book'.cancelled <=> p \in book.cancelled
        /\ p \in book.cancelled => SameOf(p, book, book')
    BY <1>19, <1>1, <1>7 DEF ClearEvent, Live
  <2>3. stop[p].at # "no" /\ pc'[p] \in HasFork =>
          run'[p].cut \/ run'[p].lost \/ (stop[p].fork /\ stop[p].at # "done")
    <3> DEFINE lost == run[p].lost \/ run[p].cut
    <3>1. run'[p] = [run[p] EXCEPT !.lost = lost, !.cut = FALSE] /\ pc[p] = "clearing"
      BY <1>19, <1>1 DEF ClearEvent
    <3>2. run'[p].lost = lost
      <4> HIDE DEF lost
      <4> QED
        BY <1>1, <3>1 DEF Run
    <3>3. stop[p].at # "no" => lost \/ (stop[p].fork /\ stop[p].at # "done")
      BY <1>2, <3>1 DEF PromptInv, HasFork
    <3> QED
      BY <3>2, <3>3
  <2>4. p \in caught' => pc'[p] \in HasFork
    BY <1>19, <1>1, <1>5, <1>6 DEF ClearEvent, HasFork, Goes, signals, IsNext
  <2> QED
    BY <1>2, <1>5, <2>1, <2>2, <2>3, <2>4, GoingOn DEF Gone
<1>20. CASE RunCut(p)
  <2>1. /\ pc[p] \notin Gone /\ pc'[p] \in {"judge"} /\ stop'[p] = stop[p]
        /\ p \in reserved' => pc'[p] \notin {"new", "accepted", "waiting"}
    BY <1>20, <1>1, <1>2 DEF RunCut, IsNext, Goes, Gone, Started, PromptInv, signals
  <2>2. /\ p \in book'.cancelled <=> p \in book.cancelled
        /\ p \in book.cancelled => SameOf(p, book, book')
    BY <1>20, <1>1, <1>7 DEF RunCut, Live
  <2>3. stop[p].at # "no" /\ pc'[p] \in HasFork =>
          run'[p].cut \/ run'[p].lost \/ (stop[p].fork /\ stop[p].at # "done")
    BY <1>20, <1>1, <1>2, <2>1 DEF RunCut, Goes, HasFork, Gone, PromptInv
  <2>4. p \in caught' => pc'[p] \in HasFork
    BY <1>20, <1>1, <1>5, <1>6 DEF RunCut, HasFork, StillCaught
  <2> QED
    BY <1>2, <1>5, <2>1, <2>2, <2>3, <2>4, GoingOn DEF Gone
<1>21. CASE RunEnds(p)
  <2>1. /\ pc[p] \notin Gone /\ pc'[p] \in {"bound", "failing", "judge"} /\ stop'[p] = stop[p]
        /\ p \in reserved' => pc'[p] \notin {"new", "accepted", "waiting"}
    BY <1>21, <1>1, <1>2 DEF RunEnds, IsNext, Goes, Gone, Started, PromptInv, signals
  <2>2. /\ p \in book'.cancelled <=> p \in book.cancelled
        /\ p \in book.cancelled => SameOf(p, book, book')
    BY <1>21, <1>1, <1>7 DEF RunEnds, Live
  <2>3. stop[p].at # "no" /\ pc'[p] \in HasFork =>
          run'[p].cut \/ run'[p].lost \/ (stop[p].fork /\ stop[p].at # "done")
    <3>1. pc'[p] \in HasFork => run'[p] = [run[p] EXCEPT !.attempt = run[p].attempt + 1]
      BY <1>21, <1>1 DEF RunEnds, Goes, HasFork
    <3>2. pc'[p] \in HasFork => run'[p].cut = run[p].cut /\ run'[p].lost = run[p].lost
      BY <1>1, <3>1 DEF Run
    <3>3. pc[p] = "running"
      BY <1>21 DEF RunEnds
    <3> QED
      BY <1>2, <3>2, <3>3 DEF PromptInv, HasFork
  <2>4. p \in caught' => pc'[p] \in HasFork
    BY <1>21, <1>1, <1>5, <1>6 DEF RunEnds, HasFork, StillCaught
  <2> QED
    BY <1>2, <1>5, <2>1, <2>2, <2>3, <2>4, GoingOn DEF Gone
<1>22. CASE Judge(p)
  <2>1. /\ pc[p] \notin Gone /\ pc'[p] \in {"ended", "failing", "ask"} /\ stop'[p] = stop[p]
        /\ p \in reserved' => pc'[p] \notin {"new", "accepted", "waiting"}
    BY <1>22, <1>1, <1>2 DEF Judge, IsNext, Goes, Gone, Started, PromptInv, signals
  <2>2. /\ p \in book'.cancelled <=> p \in book.cancelled
        /\ p \in book.cancelled => SameOf(p, book, book')
    BY <1>22, <1>1, <1>7 DEF Judge, Live
  <2>3. stop[p].at # "no" /\ pc'[p] \in HasFork =>
          run'[p].cut \/ run'[p].lost \/ (stop[p].fork /\ stop[p].at # "done")
    BY <1>22, <1>1, <1>2, <2>1 DEF Judge, Goes, HasFork, Gone, PromptInv
  <2>4. p \in caught' => pc'[p] \in HasFork
    BY <1>22, <1>1, <1>5, <1>6 DEF Judge, HasFork, Goes, signals, IsNext
  <2> QED
    BY <1>2, <1>5, <2>1, <2>2, <2>3, <2>4, GoingOn DEF Gone
<1>23. CASE Fail(p)
  <2>1. pc[p] \notin HasFork /\ pc'[p] \in {"leaving"}
    BY <1>23, <1>1 DEF Fail, Goes, HasFork
  <2>2. CleanIn(book', p)
    BY <1>23, <1>1, <1>4 DEF Fail, Terminal
  <2> QED
    BY <1>6, <2>1, <2>2, Ending DEF Gone
<1>24. CASE Conclude(p)
  <2>1. pc[p] \notin HasFork /\ pc'[p] \in {"leaving"}
    BY <1>24, <1>1 DEF Conclude, Goes, HasFork
  <2>2. CleanIn(book', p)
    BY <1>24, <1>1, <1>4 DEF Conclude, Terminal
  <2> QED
    BY <1>6, <2>1, <2>2, Ending DEF Gone
<1>25. CASE Leave(p)
  <2>1. /\ pc[p] = "leaving" /\ pc'[p] = "returned"
        /\ UNCHANGED book /\ stop'[p] = stop[p] /\ p \notin caught'
    BY <1>25, <1>1, <1>6 DEF Leave, Goes, HasFork, signals
  <2> QED
    BY <1>2, <2>1, Forgetting DEF Gone, Done
<1>26. CASE SubmissionDone(p)
  <2>1. /\ pc[p] = "returned" /\ pc'[p] = "over"
        /\ stop'[p] = stop[p] /\ p \notin caught'
    BY <1>26, <1>1, <1>6 DEF SubmissionDone, Goes, HasFork, signals
  <2>2. CASE run[p].reply = "raised"
    <3>1. CleanIn(book', p)
      BY <1>26, <1>1, <1>4, <2>2 DEF SubmissionDone, Terminal
    <3> QED
      BY <2>1, <3>1, Ending DEF Gone
  <2>3. CASE run[p].reply # "raised"
    <3>1. p \notin book'.cancelled /\ (CleanIn(book, p) => CleanIn(book', p))
      BY <1>26, <1>1, <2>3, ForgottenFacts DEF SubmissionDone
    <3> QED
      BY <1>2, <2>1, <2>3, <3>1, Forgetting DEF Gone, Done
  <2> QED
    BY <2>2, <2>3
<1>27. CASE StopMark(p)
  <2>1. /\ stop'[p] = [at |-> "marked", fork |-> pc[p] \in HasFork]
        /\ pc' = pc /\ reserved' = reserved /\ pc[p] # "new"
    BY <1>27, <1>1, <1>2 DEF StopMark, PromptInv
  <2>2. p \in book'.cancelled
    BY <1>27, <1>1, MarkedFacts DEF StopMark
  <2>3. pc[p] \in HasFork => stop'[p].fork
    <3> DEFINE fork == pc[p] \in HasFork
    <3>1. stop'[p].fork = fork
      <4>1. stop'[p] = [at |-> "marked", fork |-> fork]
        BY <2>1
      <4> HIDE DEF fork
      <4> QED
        BY <4>1
    <3> QED
      BY <3>1
  <2>4. stop'[p].at = "marked"
    BY <2>1
  <2>5. p \in caught' => pc[p] \in HasFork
    BY <1>6
  <2> QED
    BY <1>2, <2>1, <2>2, <2>3, <2>4, <2>5 DEF PromptInv
<1>28. CASE StopPublish(p)
  <2>1. /\ stop'[p].at = "published" /\ stop'[p].fork = stop[p].fork
        /\ stop[p].at = "marked" /\ pc[p] # "new" /\ UNCHANGED <<run, reserved>>
    BY <1>28, <1>1, <1>2 DEF StopPublish, PromptInv
  <2> DEFINE b == Updated(book, {p}, "cancelled")
  <2>2. b \in Book /\ CleanIn(b, p) /\ p \in b.cancelled
    BY <1>1, <1>4 DEF Terminal
  <2>3. CASE pc[p] = "submitted"
    <3>1. pc'[p] = "over" /\ book' = Forgotten(b, p)
      BY <1>28, <1>1, <2>3 DEF StopPublish, Goes
    <3>2. CleanIn(book', p)
      <4> HIDE DEF b
      <4> QED
        BY <2>2, <3>1, ForgottenFacts
    <3> QED
      BY <1>6, <2>3, <3>1, <3>2, Ending DEF Gone, HasFork
  <2>4. CASE pc[p] # "submitted"
    <3>1. pc' = pc /\ book' = b
      BY <1>28, <2>4 DEF StopPublish
    <3>2. CleanIn(book', p) /\ p \in book'.cancelled
      BY <2>2, <3>1
    <3>3. (CleanIn(book, p))' <=> CleanIn(book', p)
      BY DEF CleanIn
    <3> HIDE DEF b
    <3> QED
      BY <1>2, <1>6, <2>1, <3>1, <3>2, <3>3 DEF PromptInv
  <2> QED
    BY <2>3, <2>4
<1>29. CASE StopFork(p)
  <2> DEFINE cut == run[p].cut \/ (stop[p].fork /\ pc[p] \in HasFork)
  <2>1. /\ stop'[p].at = "done" /\ stop[p].at = "published" /\ pc[p] # "new"
        /\ UNCHANGED <<pc, reserved, book>>
    BY <1>29, <1>1, <1>2 DEF StopFork, PromptInv
  <2>2. run'[p] = [run[p] EXCEPT !.cut = cut]
    BY <1>29, <1>1 DEF StopFork
  <2>3. run'[p].cut = cut /\ run'[p].lost = run[p].lost /\ run'[p].reply = run[p].reply
    <3> HIDE DEF cut
    <3> QED
      BY <1>1, <2>2 DEF Run
  <2>4. pc[p] \in HasFork => run'[p].cut \/ run'[p].lost
    BY <1>2, <2>1, <2>3 DEF PromptInv
  <2>5. Done(p)' <=> Done(p)
    BY <2>1, <2>3 DEF Done
  <2>6. CleanIn(book, p)' <=> CleanIn(book, p)
    BY <2>1 DEF CleanIn
  <2> QED
    BY <1>2, <1>6, <2>1, <2>4, <2>5, <2>6 DEF PromptInv
<1> QED
  BY <1>8, <1>9, <1>10, <1>11, <1>12, <1>13, <1>14, <1>15, <1>16, <1>17, <1>18, <1>19,
     <1>20, <1>21, <1>22, <1>23, <1>24, <1>25, <1>26, <1>27, <1>28, <1>29
  DEF StepOf, Advance, Stopping

(***************************************************************************)
(* The steps of the specification.                                         *)
(***************************************************************************)

\* Only the end of an agent moves the tracker.
LEMMA TrackerMoves ==
  ASSUME ChatTypeOK, NEW p \in Prompt, StepOf(p)
  PROVE  (/\ suspended \subseteq Agent /\ strikes \subseteq Agent
          /\ failures \in [Agent -> 0..Threshold])'
<1>1. CASE UNCHANGED tracker
  BY <1>1 DEF tracker, ChatTypeOK
<1>2. CASE RunEnds(p)
  <2>1. run[p].agent \in Agent
    BY Types DEF Run
  <2>2. \A a \in Agent : (IF failures[a] = Threshold THEN Threshold ELSE failures[a] + 1) \in 0..Threshold
    BY DEF ChatTypeOK, Threshold
  <2>3. \/ UNCHANGED tracker
        \/ \E a \in Agent : RecordSuccess(a) \/ RecordRateLimited(a) \/ RecordFailure(a)
    BY <1>2, <2>1 DEF RunEnds
  <2>4. ASSUME NEW a \in Agent, RecordSuccess(a)
        PROVE  (/\ suspended \subseteq Agent /\ strikes \subseteq Agent
                /\ failures \in [Agent -> 0..Threshold])'
    BY <2>4 DEF RecordSuccess, ChatTypeOK, Threshold
  <2>5. ASSUME NEW a \in Agent, RecordRateLimited(a)
        PROVE  (/\ suspended \subseteq Agent /\ strikes \subseteq Agent
                /\ failures \in [Agent -> 0..Threshold])'
    BY <2>5 DEF RecordRateLimited, Suspended, ChatTypeOK
  <2>6. ASSUME NEW a \in Agent, RecordFailure(a)
        PROVE  (/\ suspended \subseteq Agent /\ strikes \subseteq Agent
                /\ failures \in [Agent -> 0..Threshold])'
    <3> DEFINE n == IF failures[a] = Threshold THEN Threshold ELSE failures[a] + 1
    <3>1. /\ failures' = [failures EXCEPT ![a] = n]
          /\ suspended' \subseteq Agent /\ strikes' \subseteq Agent
      BY <2>6 DEF RecordFailure, Suspended, ChatTypeOK
    <3>2. n \in 0..Threshold
      BY <2>2
    <3> HIDE DEF n
    <3> QED
      BY <3>1, <3>2 DEF ChatTypeOK
  <2> QED
    BY <1>1, <2>3, <2>4, <2>5, <2>6
<1> QED
  BY <1>1, <1>2
  DEF StepOf, Advance, Stopping, Accept, Enqueue, SubmitAsync, StartFuture, Promote,
      LeaveQueue, QueueTimeout, StartMessage, StartRound, Bind, CheckRun, ClearEvent,
      RunCut, Judge, Fail, Conclude, Leave, SubmissionDone, StopMark, StopPublish,
      StopFork

\* The step of a prompt keeps the types ...
LEMMA TypeStep ==
  ASSUME ChatTypeOK, PromptsInv, SlotsConserved, NEW p \in Prompt, StepOf(p)
  PROVE  ChatTypeOK'
<1>1. UNCHANGED <<setting, ctrlC>> /\ caught' \subseteq caught
  BY RestMoves
<1>2. threads' = threads /\ Attempts' = Attempts
  BY <1>1 DEF threads, Attempts
<1>3. (run \in [Prompt -> Run])'
  BY <1>2, RunMoves DEF Run
<1>4. (book \in [active : SUBSET Prompt, queued : SUBSET Prompt, cancelled : SUBSET Prompt,
                 listed : SUBSET Prompt, shown : [Prompt -> {"open"} \cup Terminal]])'
  BY BookMoves DEF Book
<1>5. (pc \in [Prompt -> {"new", "accepted", "sent", "submitted", "waiting", "returned",
                         "over"} \cup Started])'
  BY PcMoves
<1>6. (ctrlC \in [at : {"no", "set", "chosen"}, victims : SUBSET Prompt,
                  count : 0..setting.interrupts])'
  BY <1>1 DEF ChatTypeOK
<1>7. setting' \in Settings /\ caught' \subseteq Prompt
  BY <1>1 DEF ChatTypeOK
<1> QED
  BY <1>3, <1>4, <1>5, <1>6, <1>7, RestMoves, SlotsStep, TrackerMoves DEF ChatTypeOK

\* With one slot there is no prompt to start while another has a fork.
LEMMA OneAtATime ==
  ASSUME ChatTypeOK, SlotsConserved, threads = 1,
         NEW p \in Prompt, NEW q \in Prompt, pc[p] \in Started, pc[q] \in Started
  PROVE  p = q
<1> SUFFICES ASSUME p # q
             PROVE  FALSE
  OBVIOUS
<1>1. Holding \subseteq Prompt /\ {p, q} \subseteq Holding
  BY DEF Holding
<1>2. IsFiniteSet(Holding)
  BY <1>1, ChatAssumption, FS_Subset
<1>3. Cardinality({q}) = 1 /\ IsFiniteSet({q})
  BY FS_Singleton
<1>4. Cardinality({q} \cup {p}) = 2
  <2>1. p \notin {q}
    OBVIOUS
  <2>2. Cardinality({q} \cup {p}) = Cardinality({q}) + 1
    BY <1>3, <2>1, FS_AddElement
  <2> QED
    BY <1>3, <2>2
<1>5. {q} \cup {p} = {p, q}
  OBVIOUS
<1>6. Cardinality({p, q}) <= Cardinality(Holding) /\ Cardinality(Holding) \in Nat
  BY <1>1, <1>2, FS_Subset, FS_CardinalityType
<1>7. slots.permits \in Nat
  BY Types DEF ChatTypeOK
<1>8. 2 <= Cardinality(Holding)
  BY <1>4, <1>5, <1>6
<1>9. slots.permits + Cardinality(Holding) = 1
  BY DEF SlotsConserved
<1> QED
  BY <1>6, <1>7, <1>8, <1>9

\* ... and clears no event that a run still has to see.
LEMMA InterruptStep ==
  ASSUME IndInv, NEW p \in Prompt, StepOf(p)
  PROVE  InterruptReachesRun'
<1> SUFFICES ASSUME threads' = 1, caught' # {}
             PROVE  event'
  BY DEF InterruptReachesRun
<1>1. threads = 1 /\ caught' \subseteq caught /\ caught \subseteq Prompt
  BY RestMoves DEF threads, IndInv, ChatTypeOK
<1>2. PICK q \in Prompt : q \in caught
  BY <1>1
<1>3. event
  BY <1>1, <1>2 DEF IndInv, InterruptReachesRun
<1>4. pc[q] \in HasFork
  BY <1>2 DEF IndInv, PromptsInv, PromptInv
<1>5. ~StartMessage(p)
  <2> SUFFICES ASSUME pc[p] = "starting"
               PROVE  FALSE
    BY DEF StartMessage
  <2>1. pc[p] \in Started /\ pc[q] \in Started
    BY <1>4 DEF Started, HasFork
  <2>2. p = q
    BY <1>1, <2>1, OneAtATime DEF IndInv
  <2> QED
    BY <1>4, <2>2 DEF HasFork
<1> QED
  BY <1>3, <1>5, RestMoves DEF IndInv

\* What moves no prompt moves no slot.
LEMMA StillSlots ==
  ASSUME SlotsConserved, UNCHANGED <<setting, pc, reserved, slots>>
  PROVE  SlotsConserved'
<1>1. Holding' = Holding /\ Waiting' = Waiting /\ threads' = threads
  BY DEF Holding, Waiting, threads
<1> QED
  BY <1>1 DEF SlotsConserved

\* Ctrl+C: the event, the victims, and their end.
LEMMA InterruptingStep ==
  ASSUME IndInv, Interrupt \/ Interrupting
  PROVE  IndInv'
<1>1. UNCHANGED <<setting, pc, reserved, slots, run, stop, tracker>>
  BY DEF Interrupt, Interrupting, ChooseVictims, CancelVictims
<1>2. SlotsConserved'
  BY <1>1, StillSlots DEF IndInv
<1>3. book \in Book /\ ChatTypeOK /\ setting.interrupts \in Nat
  BY Types, ChatAssumption DEF IndInv
<1>4. threads' = threads /\ Attempts' = Attempts /\ (Run = Run')
  BY <1>1 DEF threads, Attempts, Run
<1>5. ctrlC.victims \subseteq Prompt
  BY <1>3 DEF ChatTypeOK
<1>6. CASE Interrupt
  <2>1. ctrlC' = [at |-> "set", victims |-> {}, count |-> ctrlC.count + 1]
        /\ ctrlC.count + 1 \in 0..setting.interrupts
    BY <1>3, <1>6 DEF Interrupt, ChatTypeOK
  <2>2. ChatTypeOK'
    BY <1>1, <1>3, <1>4, <1>6, <2>1 DEF Interrupt, ChatTypeOK, tracker
  <2>3. ASSUME NEW q \in Prompt
        PROVE  PromptInv(q)'
    BY <1>1, <1>6, <2>1 DEF IndInv, PromptsInv, PromptInv, Interrupt, Done, CleanIn
  <2>4. InterruptReachesRun'
    BY <1>6 DEF Interrupt, InterruptReachesRun
  <2> QED
    BY <1>2, <2>2, <2>3, <2>4 DEF IndInv, PromptsInv
<1>7. CASE ChooseVictims
  <2>1. ctrlC' \in [at : {"no", "set", "chosen"}, victims : SUBSET Prompt,
                    count : 0..setting.interrupts]
        /\ ctrlC'.victims = book.active \ book.queued
    BY <1>3, <1>7 DEF ChooseVictims, ChatTypeOK, Book
  <2>2. ChatTypeOK'
    BY <1>1, <1>3, <1>4, <1>7, <2>1 DEF ChooseVictims, ChatTypeOK, tracker
  <2>3. ASSUME NEW q \in Prompt
        PROVE  PromptInv(q)'
    BY <1>1, <1>7, <2>1 DEF IndInv, PromptsInv, PromptInv, ChooseVictims, Done, CleanIn
  <2>4. InterruptReachesRun'
    BY <1>4, <1>7 DEF ChooseVictims, InterruptReachesRun, IndInv
  <2> QED
    BY <1>2, <2>2, <2>3, <2>4 DEF IndInv, PromptsInv
<1>8. CASE CancelVictims
  <2>1. ctrlC' \in [at : {"no", "set", "chosen"}, victims : SUBSET Prompt,
                    count : 0..setting.interrupts]
        /\ ctrlC'.victims = {}
    BY <1>3, <1>8 DEF CancelVictims, ChatTypeOK
  <2>2. /\ book' \in Book
        /\ \A q \in Prompt \ ctrlC.victims : SameOf(q, book, book')
        /\ \A q \in ctrlC.victims : CleanIn(book', q) /\ q \in book'.cancelled
    BY <1>3, <1>5, <1>8, TerminalUpdateFacts DEF CancelVictims, Terminal
  <2>3. ChatTypeOK'
    <3>1. book' \in [active : SUBSET Prompt, queued : SUBSET Prompt, cancelled : SUBSET Prompt,
                     listed : SUBSET Prompt, shown : [Prompt -> {"open"} \cup Terminal]]
      BY <2>2 DEF Book
    <3> QED
      BY <1>1, <1>3, <1>4, <1>8, <2>1, <3>1 DEF CancelVictims, ChatTypeOK, tracker
  <2>4. ASSUME NEW q \in Prompt
        PROVE  PromptInv(q)'
    <3>1. (CleanIn(book, q))' <=> CleanIn(book', q)
      BY DEF CleanIn
    <3>2. (Done(q))' <=> Done(q)
      BY <1>1 DEF Done
    <3>3. CASE q \in ctrlC.victims
      BY <1>1, <1>8, <2>1, <2>2, <3>1, <3>2, <3>3
      DEF IndInv, PromptsInv, PromptInv, CancelVictims
    <3>4. CASE q \notin ctrlC.victims
      <4>1. SameOf(q, book, book') /\ (CleanIn(book, q) <=> CleanIn(book', q))
        BY <2>2, <3>4, SameClean
      <4> QED
        BY <1>1, <1>8, <2>1, <3>1, <3>2, <4>1
        DEF IndInv, PromptsInv, PromptInv, CancelVictims, SameOf
    <3> QED
      BY <3>3, <3>4
  <2>5. InterruptReachesRun'
    BY <1>4, <1>8 DEF CancelVictims, InterruptReachesRun, IndInv
  <2> QED
    BY <1>2, <2>3, <2>4, <2>5 DEF IndInv, PromptsInv
<1> QED
  BY <1>6, <1>7, <1>8 DEF Interrupting

\* What moves neither prompts nor signals.
LEMMA StillStep ==
  ASSUME IndInv, UNCHANGED <<setting, pc, reserved, slots, book, run, signals>>,
         suspended' \subseteq Agent, UNCHANGED <<failures, strikes>>
  PROVE  IndInv'
<1>1. threads' = threads /\ Attempts' = Attempts /\ (Run = Run')
  BY DEF threads, Attempts, Run
<1>2. ChatTypeOK'
  BY <1>1 DEF IndInv, ChatTypeOK, signals
<1>3. SlotsConserved'
  BY StillSlots DEF IndInv
<1>4. PromptsInv'
  BY DEF IndInv, PromptsInv, PromptInv, Done, CleanIn, signals
<1>5. InterruptReachesRun'
  BY <1>1 DEF IndInv, InterruptReachesRun, signals
<1> QED
  BY <1>2, <1>3, <1>4, <1>5 DEF IndInv

\* The invariant is inductive.
LEMMA Inductive == Spec => []IndInv
<1>1. Init => IndInv
  <2> SUFFICES ASSUME Init
               PROVE  IndInv
    OBVIOUS
  <2>1. setting \in Settings /\ threads \in Nat \ {0} /\ setting.interrupts \in Nat
    BY ChatAssumption DEF Init, threads
  <2>2. NoRun \in Run
    BY ChatAssumption, <2>1 DEF NoRun, Run, Attempts
  <2>3. Holding = {} /\ Waiting = {}
    BY DEF Init, Holding, Waiting, Started
  <2>4. Cardinality({}) = 0 /\ Cardinality(Prompt) \in Nat
    BY ChatAssumption, FS_EmptySet, FS_CardinalityType
  <2>5. SlotsConserved
    BY <2>1, <2>3, <2>4 DEF Init, SlotsConserved, threads
  <2>6. slots \in [permits : 0..threads, inflight : 0..threads, pending : 0..Cardinality(Prompt)]
    BY <2>1, <2>4 DEF Init, threads
  <2>7. ChatTypeOK
    <3>1. /\ setting \in Settings /\ reserved \subseteq Prompt /\ caught \subseteq Prompt
          /\ pc \in [Prompt -> {"new", "accepted", "sent", "submitted", "waiting", "returned",
                               "over"} \cup Started]
          /\ suspended \subseteq Agent /\ strikes \subseteq Agent
          /\ failures \in [Agent -> 0..Threshold]
      BY DEF Init, Threshold
    <3>2. book \in [active : SUBSET Prompt, queued : SUBSET Prompt, cancelled : SUBSET Prompt,
                    listed : SUBSET Prompt, shown : [Prompt -> {"open"} \cup Terminal]]
      BY DEF Init
    <3>3. event \in BOOLEAN /\ run \in [Prompt -> Run]
      BY <2>2 DEF Init
    <3>4. ctrlC \in [at : {"no", "set", "chosen"}, victims : SUBSET Prompt,
                     count : 0..setting.interrupts]
      BY <2>1 DEF Init
    <3>5. stop \in [Prompt -> [at : {"no", "marked", "published", "done"}, fork : BOOLEAN]]
      BY DEF Init
    <3> QED
      BY <2>6, <3>1, <3>2, <3>3, <3>4, <3>5 DEF ChatTypeOK
  <2>8. PromptsInv
    BY DEF Init, PromptsInv, PromptInv, Done, CleanIn, HasFork
  <2>9. InterruptReachesRun
    BY DEF Init, InterruptReachesRun
  <2> QED
    BY <2>5, <2>7, <2>8, <2>9 DEF IndInv
<1>2. IndInv /\ [Next]_vars => IndInv'
  <2> SUFFICES ASSUME IndInv, [Next]_vars
               PROVE  IndInv'
    OBVIOUS
  <2>1. ASSUME NEW p \in Prompt, StepOf(p)
        PROVE  IndInv'
    <3>1. ChatTypeOK'
      BY <2>1, TypeStep DEF IndInv
    <3>2. SlotsConserved'
      BY <2>1, SlotsStep DEF IndInv
    <3>3. PromptsInv'
      <4>1. ASSUME NEW q \in Prompt
            PROVE  PromptInv(q)'
        BY <2>1, OwnKeep, OthersKeep DEF IndInv
      <4> QED
        BY <4>1 DEF PromptsInv
    <3>4. InterruptReachesRun'
      BY <2>1, InterruptStep
    <3> QED
      BY <3>1, <3>2, <3>3, <3>4 DEF IndInv
  <2>2. CASE Interrupt \/ Interrupting
    BY <2>2, InterruptingStep
  <2>3. ASSUME NEW a \in Agent, CooldownEnds(a)
        PROVE  IndInv'
    BY <2>3, StillStep DEF CooldownEnds, IndInv, ChatTypeOK
  <2>4. CASE UNCHANGED vars
    BY <2>4, StillStep DEF vars, tracker, IndInv, ChatTypeOK
  <2> QED
    BY <2>1, <2>2, <2>3, <2>4 DEF Next, StepOf
<1> QED
  BY <1>1, <1>2, PTL DEF Spec

(***************************************************************************)
(* Theorems.                                                               *)
(***************************************************************************)

\* For every number of threads and prompts: no sequence of reservations,
\* promotions, stops, cancelled futures and queue time-outs loses a permit of
\* the semaphore or hands one out twice, and the counters of running and waiting
\* prompts say how many there are.
THEOREM SlotsAreConserved == Spec => []ChatInv
<1>1. IndInv => ChatInv
  BY DEF IndInv, ChatInv
<1> QED
  BY <1>1, Inductive, PTL

\* Neither a /stop nor, with one thread, a Ctrl+C is lost on its way to the run
\* it is meant for: a stopped prompt stays in the cancelled set until it can bind
\* no client any more, so that a fork made later is born cancelled, and with one
\* slot no prompt can start, and clear the event, while another has a fork.
THEOREM CancellationsReachRuns == Spec => []CancelReachesRun
<1>1. IndInv => CancelReachesRun
  BY DEF IndInv, PromptsInv, PromptInv, CancelReachesRun, StopReachesRun
<1> QED
  BY <1>1, Inductive, PTL

\* A prompt that is over is neither active, queued nor listed, and the screen
\* shows how it ended, on each of the paths by which prompts end.
THEOREM EndedPromptsLeave == Spec => []NothingLeftBehind
<1>1. IndInv => NothingLeftBehind
  BY DEF IndInv, PromptsInv, PromptInv, Done, CleanIn, NothingLeftBehind
<1> QED
  BY <1>1, Inductive, PTL

\* A stopped prompt asks no other agent, starts no run that was only bound, and
\* its end is not counted as a failure of its agent, whichever step comes next.
THEOREM StopsAreFinal == Spec => StopIsFinal
<1>1. IndInv /\ [Next]_vars =>
        [\A p \in Prompt :
           stop[p].at = "done" /\ ~run[p].lost =>
             /\ pc[p] = "judge" => pc'[p] # "ask"
             /\ pc[p] = "bound" => pc'[p] # "clearing"
             /\ pc[p] = "running" /\ pc'[p] # "running" =>
                  UNCHANGED <<failures, strikes>>]_vars
  <2> SUFFICES ASSUME IndInv, Next, NEW p \in Prompt, stop[p].at = "done", ~run[p].lost
               PROVE  /\ pc[p] = "judge" => pc'[p] # "ask"
                      /\ pc[p] = "bound" => pc'[p] # "clearing"
                      /\ pc[p] = "running" /\ pc'[p] # "running" =>
                           UNCHANGED <<failures, strikes>>
    OBVIOUS
  <2>1. ChatTypeOK /\ PromptInv(p)
    BY DEF IndInv, PromptsInv
  <2>2. pc[p] \in Started \ Gone => p \in book.cancelled
    BY <2>1 DEF PromptInv
  <2>3. pc[p] \in HasFork => run[p].cut
    BY <2>1 DEF PromptInv
  <2>4. CASE pc'[p] = pc[p]
    BY <2>4
  <2>5. CASE pc'[p] # pc[p]
    <3>1. StepOf(p)
      <4>1. PICK q \in Prompt : StepOf(q)
        BY <2>5
        DEF Next, StepOf, Interrupt, Interrupting, ChooseVictims, CancelVictims,
            CooldownEnds
      <4>2. q = p
        BY <2>1, <2>5, <4>1, PcMoves
      <4> QED
        BY <4>1, <4>2
    <3>2. CASE pc[p] = "judge"
      <4>1. p \in book.cancelled
        BY <2>2, <3>2 DEF Started, Gone
      <4>2. Judge(p)
        BY <2>5, <3>1, <3>2
        DEF StepOf, Advance, Stopping, Accept, Enqueue, SubmitAsync, StartFuture,
            Promote, LeaveQueue, QueueTimeout, StartMessage, StartRound, Bind,
            CheckRun, ClearEvent, RunCut, RunEnds, Fail, Conclude, Leave,
            SubmissionDone, StopMark, StopPublish, StopFork, IsNext
      <4> QED
        BY <2>1, <3>2, <4>1, <4>2 DEF Judge, IsCancelled, Goes, ChatTypeOK
    <3>3. CASE pc[p] = "bound"
      <4>1. CheckRun(p) /\ run[p].cut
        BY <2>3, <2>5, <3>1, <3>3
        DEF HasFork, StepOf, Advance, Stopping, Accept, Enqueue, SubmitAsync,
            StartFuture, Promote, LeaveQueue, QueueTimeout, StartMessage, StartRound,
            Bind, ClearEvent, RunCut, RunEnds, Judge, Fail, Conclude, Leave,
            SubmissionDone, StopMark, StopPublish, StopFork, IsNext
      <4> QED
        BY <2>1, <3>3, <4>1 DEF CheckRun, Goes, ChatTypeOK
    <3>4. CASE pc[p] = "running"
      <4>1. RunCut(p) /\ run[p].cut
        BY <2>3, <2>5, <3>1, <3>4
        DEF HasFork, StepOf, Advance, Stopping, Accept, Enqueue, SubmitAsync,
            StartFuture, Promote, LeaveQueue, QueueTimeout, StartMessage, StartRound,
            Bind, CheckRun, ClearEvent, RunEnds, Judge, Fail, Conclude, Leave,
            SubmissionDone, StopMark, StopPublish, StopFork, IsNext
      <4> QED
        BY <3>4, <4>1 DEF RunCut, tracker
    <3> QED
      BY <3>2, <3>3, <3>4
  <2> QED
    BY <2>4, <2>5
<1> QED
  BY <1>1, Inductive, PTL DEF Spec, StopIsFinal
=============================================================================
