------------------------- MODULE ToolApprovalProofs -------------------------
(***************************************************************************)
(* Theorems about ToolApproval and the InputBroker it composes, for every  *)
(* number of calls, managers and threads.                                  *)
(*                                                                         *)
(* A request is in one place: with its producer, in the queue, or with one *)
(* thread.  That is why the line a thread hears is its request's alone,    *)
(* and a result never meets a second line (ReqInv).  WaitersInv counts the *)
(* reservations that keep the chat away from stdin.  GrantInv counts every *)
(* ground on which a call may run against what was granted.                *)
(***************************************************************************)
EXTENDS ToolApproval, FiniteSetTheorems, SequenceTheorems, TLAPS

Holds(t, r) == reader[t].at # "idle" /\ reader[t].r = r

InSeq(r, s) == \E i \in 1..Len(s) : s[i] = r
Distinct(s) == \A i, j \in 1..Len(s) : s[i] = s[j] => i = j

Queued(r) == InSeq(r, queue)

\* No thread has request r, nor will one get it.
IsFree(r) ==
    /\ producer[r] \notin {"idle", "asking"} /\ ~Queued(r)
    /\ \A t \in Thread : ~Holds(t, r)

ReaderType ==
    {IdleReader} \cup [at : {"got", "reading"}, r : Request]
                 \cup [at : {"taken"}, r : Request, line : Line]

\* A request is in one place.
PlacesInv ==
    /\ reader \in [Thread -> ReaderType]
    /\ Distinct(queue)
    /\ \A t \in Thread, r \in Request : Holds(t, r) =>
           /\ ~Queued(r)
           /\ \A u \in Thread : Holds(u, r) => u = t
    /\ gate = "pipe" => \A t \in Pump : ~Serving(t)

ReqInv(r) ==
    /\ producer[r] \in {"idle", "asking"} =>
           /\ ~req[r].done /\ req[r].heard = "none"
           /\ ~Queued(r) /\ \A t \in Thread : ~Holds(t, r)
    /\ producer[r] = "returned" => req[r].done
    /\ producer[r] = "grace" => req[r].expired
    /\ req[r].reserved <=> (gate = "pipe" /\ producer[r] # "idle" /\ ~req[r].done)
    /\ req[r].result = "approved" =>
           /\ req[r].done /\ IsFree(r)
           /\ ~Asks(r) /\ req[r].heard \in {"yes", "all"}
    /\ \A t \in Thread : Holds(t, r) /\ reader[t].at = "taken" => req[r].heard = reader[t].line
    /\ gate = "pipe" /\ ~req[r].cancelled /\ req[r].heard # "none"
         /\ Answers(r, req[r].heard) # "none" =>
           \/ req[r].done /\ req[r].result = Answers(r, req[r].heard)
           \/ /\ ~req[r].done /\ ~req[r].expired /\ req[r].claimed
              /\ Holds(consumer, r) /\ reader[consumer].at = "taken"

One(P) == IF P THEN 1 ELSE 0

Reserved == {r \in Request : req[r].reserved}

WaitersInv ==
    waiters = Cardinality(Reserved) + One(gate = "pipe" /\ Reading(consumer))

BrokerInv ==
    /\ BrokerTypeOK /\ PlacesInv /\ WaitersInv
    /\ \A r \in Request : ReqInv(r)

\* What was granted: a call of manager m was answered "a", and no thread will
\* hear another line for it.
AllSaid(m) == \E d \in Request : job[d].manager = m /\ Heard(d, "all") /\ IsFree(d)

GroundInv(c) ==
    /\ call[c].at \in {"new", "prompt", "asked"} => call[c].ground = "none"
    /\ call[c].ground = "user" => req[c].result = "approved"

StandingInv(m) ==
    /\ "all" \in standing[m] \/ OnGround(m, "all") # {} => AllSaid(m)
    /\ "once" \in standing[m] => m = Chat

\* What is left and what was used is what there was.
UsesInv(m) ==
    /\ Cardinality(OnGround(m, "scope")) + scope[m] <= ScopeUses
    /\ Cardinality(OnGround(m, "budget")) = used[m]

OnceUsed == {c \in Request : call[c].ground = "once"}

OnceInv ==
    Cardinality(OnceUsed) + One("once" \in standing[Chat]) <= grants.approve

GrantInv ==
    /\ \A c \in Request : GroundInv(c)
    /\ \A m \in Manager : StandingInv(m) /\ UsesInv(m)
    /\ grants \in [approve : Nat, cycle : Nat] /\ OnceInv

\* What a call holds is of its keys, all of them while it runs, and of no
\* other call.
HeldInv(c) ==
    /\ call[c].held \subseteq Range(Keys(c))
    /\ call[c].at = "running" => call[c].held = Range(Keys(c))

LockInv ==
    /\ \A c \in Request : HeldInv(c)
    /\ \A c, d \in Request :
           c # d /\ job[c].manager = job[d].manager => call[c].held \cap call[d].held = {}

IndInv == BrokerInv /\ ApprovalTypeOK /\ GrantInv /\ LockInv

(***************************************************************************)
(* The queue, and where a request is.                                      *)
(***************************************************************************)

LEMMA AppendFacts ==
  ASSUME NEW s \in Seq(Request), NEW r \in Request
  PROVE  /\ Append(s, r) \in Seq(Request)
         /\ \A q : InSeq(q, Append(s, r)) <=> InSeq(q, s) \/ q = r
         /\ Distinct(s) /\ ~InSeq(r, s) => Distinct(Append(s, r))
<1>1. /\ Len(s) \in Nat /\ Len(Append(s, r)) = Len(s) + 1
      /\ \A i \in 1..Len(s) : Append(s, r)[i] = s[i]
      /\ Append(s, r)[Len(s) + 1] = r
  BY LenProperties, AppendProperties
<1>2. \A i : i \in 1..(Len(s) + 1) <=> i \in 1..Len(s) \/ i = Len(s) + 1
  BY <1>1
<1> QED
  BY <1>1, <1>2, AppendProperties DEF InSeq, Distinct

LEMMA TailFacts ==
  ASSUME NEW s \in Seq(Request), s # <<>>
  PROVE  /\ Head(s) \in Request /\ Tail(s) \in Seq(Request)
         /\ InSeq(Head(s), s)
         /\ \A q : InSeq(q, Tail(s)) => InSeq(q, s)
         /\ \A q : InSeq(q, s) => InSeq(q, Tail(s)) \/ q = Head(s)
         /\ Distinct(s) => Distinct(Tail(s)) /\ ~InSeq(Head(s), Tail(s))
<1>1. /\ Len(s) \in Nat /\ Len(s) > 0 /\ Len(Tail(s)) = Len(s) - 1
      /\ \A i \in 1..Len(Tail(s)) : Tail(s)[i] = s[i + 1]
      /\ Head(s) = s[1] /\ Head(s) \in Request /\ Tail(s) \in Seq(Request)
  BY LenProperties, EmptySeq, HeadTailProperties
<1>2. \A i : i \in 1..Len(Tail(s)) => i + 1 \in 1..Len(s) /\ i + 1 # 1
  BY <1>1
<1>3. \A i : i \in 1..Len(s) => i = 1 \/ (i - 1 \in 1..Len(Tail(s)) /\ (i - 1) + 1 = i)
  BY <1>1
<1>4. InSeq(Head(s), s)
  BY <1>1 DEF InSeq
<1>5. \A q : InSeq(q, Tail(s)) => InSeq(q, s)
  BY <1>1, <1>2 DEF InSeq
<1>6. \A q : InSeq(q, s) => InSeq(q, Tail(s)) \/ q = Head(s)
  BY <1>1, <1>3 DEF InSeq
<1>7. Distinct(s) => Distinct(Tail(s))
  <2> SUFFICES ASSUME Distinct(s), NEW i \in 1..Len(Tail(s)), NEW j \in 1..Len(Tail(s)),
                      Tail(s)[i] = Tail(s)[j]
               PROVE  i = j
    BY DEF Distinct
  <2>1. i + 1 = j + 1
    BY <1>1, <1>2 DEF Distinct
  <2> QED
    BY <1>1, <2>1
<1>8. Distinct(s) => ~InSeq(Head(s), Tail(s))
  BY <1>1, <1>2 DEF Distinct, InSeq
<1> QED
  BY <1>1, <1>4, <1>5, <1>6, <1>7, <1>8

\* The head of the queue is put back at its end.
LEMMA RotateFacts ==
  ASSUME NEW s \in Seq(Request), s # <<>>, Distinct(s)
  PROVE  /\ Append(Tail(s), Head(s)) \in Seq(Request)
         /\ Distinct(Append(Tail(s), Head(s)))
         /\ \A q : InSeq(q, Append(Tail(s), Head(s))) <=> InSeq(q, s)
<1>1. /\ Head(s) \in Request /\ Tail(s) \in Seq(Request) /\ InSeq(Head(s), s)
      /\ Distinct(Tail(s)) /\ ~InSeq(Head(s), Tail(s))
      /\ \A q : InSeq(q, Tail(s)) => InSeq(q, s)
      /\ \A q : InSeq(q, s) => InSeq(q, Tail(s)) \/ q = Head(s)
  BY TailFacts
<1>2. /\ Append(Tail(s), Head(s)) \in Seq(Request)
      /\ \A q : InSeq(q, Append(Tail(s), Head(s))) <=> InSeq(q, Tail(s)) \/ q = Head(s)
      /\ Distinct(Append(Tail(s), Head(s)))
  BY <1>1, AppendFacts
<1> QED
  BY <1>1, <1>2

\* What a thread that serves a request has.
LEMMA ServingFacts ==
  ASSUME reader \in [Thread -> ReaderType], NEW t \in Thread, Serving(t)
  PROVE  /\ reader[t].r \in Request /\ Holds(t, reader[t].r)
         /\ reader[t].at \in {"got", "reading", "taken"}
         /\ reader[t].at = "taken" => reader[t].line \in Line
BY DEF ReaderType, IdleReader, Serving, Holds

\* The steps of the queue and of the threads, one by one: each leaves every
\* request in one place.
LEMMA PublishPlaces ==
  ASSUME PlacesInv, queue \in Seq(Request), NEW r \in Request,
         ~Queued(r), \A t \in Thread : ~Holds(t, r),
         queue' = Append(queue, r), gate' = gate, reader' = reader
  PROVE  /\ PlacesInv' /\ queue' \in Seq(Request)
         /\ \A q \in Request : Queued(q)' <=> Queued(q) \/ q = r
         /\ \A q \in Request, u \in Thread : Holds(u, q)' <=> Holds(u, q)
<1>1. /\ queue' \in Seq(Request) /\ Distinct(queue)'
      /\ \A q : InSeq(q, queue') <=> InSeq(q, queue) \/ q = r
  BY AppendFacts DEF PlacesInv, Queued, Distinct
<1>2. \A q : Queued(q)' <=> Queued(q) \/ q = r
  BY <1>1 DEF Queued
<1>3. \A q, u : Holds(u, q)' <=> Holds(u, q)
  BY DEF Holds
<1>4. Thread' = Thread /\ ReaderType' = ReaderType
  BY DEF Thread, ReaderType
<1> QED
  BY <1>1, <1>2, <1>3, <1>4 DEF PlacesInv, Serving

LEMMA DropPlaces ==
  ASSUME PlacesInv, queue \in Seq(Request), queue # <<>>,
         queue' = Tail(queue), gate' = gate, reader' = reader
  PROVE  /\ PlacesInv' /\ queue' \in Seq(Request)
         /\ \A q \in Request : Queued(q)' <=> Queued(q) /\ q # Head(queue)
         /\ \A q \in Request, u \in Thread : Holds(u, q)' <=> Holds(u, q)
<1>1. /\ queue' \in Seq(Request) /\ Distinct(queue)'
      /\ \A q : InSeq(q, queue') <=> InSeq(q, queue) /\ q # Head(queue)
  BY TailFacts DEF PlacesInv, Distinct
<1>2. \A q : Queued(q)' <=> Queued(q) /\ q # Head(queue)
  BY <1>1 DEF Queued
<1>3. \A q, u : Holds(u, q)' <=> Holds(u, q)
  BY DEF Holds
<1>4. Thread' = Thread /\ ReaderType' = ReaderType
  BY DEF Thread, ReaderType
<1> QED
  BY <1>1, <1>2, <1>3, <1>4 DEF PlacesInv, Serving

LEMMA RotatePlaces ==
  ASSUME PlacesInv, queue \in Seq(Request), queue # <<>>,
         queue' = Append(Tail(queue), Head(queue)), gate' = gate, reader' = reader
  PROVE  /\ PlacesInv' /\ queue' \in Seq(Request)
         /\ \A q \in Request : Queued(q)' <=> Queued(q)
         /\ \A q \in Request, u \in Thread : Holds(u, q)' <=> Holds(u, q)
<1>1. /\ queue' \in Seq(Request) /\ Distinct(queue)'
      /\ \A q : InSeq(q, queue') <=> InSeq(q, queue)
  BY RotateFacts DEF PlacesInv, Distinct
<1>2. \A q : Queued(q)' <=> Queued(q)
  BY <1>1 DEF Queued
<1>3. \A q, u : Holds(u, q)' <=> Holds(u, q)
  BY DEF Holds
<1>4. Thread' = Thread /\ ReaderType' = ReaderType
  BY DEF Thread, ReaderType
<1> QED
  BY <1>1, <1>2, <1>3, <1>4 DEF PlacesInv, Serving

LEMMA GetPlaces ==
  ASSUME PlacesInv, queue \in Seq(Request), queue # <<>>,
         NEW t \in Thread, ~Serving(t), gate = "pipe" => t = consumer,
         queue' = Tail(queue), gate' = gate,
         reader' = [reader EXCEPT ![t] = [at |-> "got", r |-> Head(queue)]]
  PROVE  /\ PlacesInv' /\ queue' \in Seq(Request)
         /\ \A q \in Request : Queued(q)' <=> Queued(q) /\ q # Head(queue)
         /\ \A q \in Request, u \in Thread :
                Holds(u, q)' <=> Holds(u, q) \/ (u = t /\ q = Head(queue))
         /\ \A u \in Thread \ {t} : reader'[u] = reader[u]
         /\ reader'[t].at = "got"
<1>1. /\ queue' \in Seq(Request) /\ Distinct(queue)' /\ Head(queue) \in Request
      /\ InSeq(Head(queue), queue)
      /\ \A q : InSeq(q, queue') <=> InSeq(q, queue) /\ q # Head(queue)
  BY TailFacts DEF PlacesInv, Distinct
<1>2. Queued(Head(queue)) /\ \A q : Queued(q)' <=> Queued(q) /\ q # Head(queue)
  BY <1>1 DEF Queued
<1>3. Thread' = Thread /\ ReaderType' = ReaderType
  BY DEF Thread, ReaderType
<1>4. reader' \in [Thread -> ReaderType]
  BY <1>1 DEF PlacesInv, ReaderType
<1>5. /\ \A u \in Thread \ {t} : reader'[u] = reader[u]
      /\ reader'[t].at = "got" /\ reader'[t].r = Head(queue)
  BY DEF PlacesInv
<1>6. \A q \in Request, u \in Thread :
          Holds(u, q)' <=> Holds(u, q) \/ (u = t /\ q = Head(queue))
  BY <1>5 DEF Holds, Serving
<1>7. \A u \in Thread, q \in Request : Holds(u, q)' =>
          /\ ~Queued(q)'
          /\ \A v \in Thread : Holds(v, q)' => v = u
  BY <1>1, <1>2, <1>6 DEF PlacesInv
<1>8. gate = "pipe" => \A u \in Pump : ~Serving(u)'
  <2> SUFFICES ASSUME gate = "pipe", NEW u \in Pump PROVE ~Serving(u)'
    OBVIOUS
  <2>1. u # t /\ u \in Thread
    BY BrokerAssumption DEF Thread
  <2> QED
    BY <1>5, <2>1 DEF PlacesInv, Serving
<1> QED
  BY <1>1, <1>2, <1>3, <1>4, <1>5, <1>6, <1>7, <1>8 DEF PlacesInv

LEMMA StayPlaces ==
  ASSUME PlacesInv, NEW t \in Thread, Serving(t),
         NEW x \in ReaderType, x.at # "idle", x.r = reader[t].r,
         queue' = queue, gate' = gate, reader' = [reader EXCEPT ![t] = x]
  PROVE  /\ PlacesInv'
         /\ \A q \in Request : Queued(q)' <=> Queued(q)
         /\ \A q \in Request, u \in Thread : Holds(u, q)' <=> Holds(u, q)
         /\ \A u \in Thread \ {t} : reader'[u] = reader[u]
         /\ reader'[t] = x
<1>1. Thread' = Thread /\ ReaderType' = ReaderType
  BY DEF Thread, ReaderType
<1>2. reader' \in [Thread -> ReaderType]
  BY DEF PlacesInv
<1>3. (\A u \in Thread \ {t} : reader'[u] = reader[u]) /\ reader'[t] = x
  BY DEF PlacesInv
<1>4. \A q, u : u \in Thread => (Holds(u, q)' <=> Holds(u, q))
  BY <1>3 DEF Holds, Serving
<1>5. \A q : Queued(q)' <=> Queued(q)
  BY DEF Queued
<1>6. \A u \in Thread : Serving(u)' <=> Serving(u)
  BY <1>3 DEF Serving
<1>7. Distinct(queue)'
  BY DEF PlacesInv, Distinct
<1>8. \A u \in Pump : u \in Thread
  BY DEF Thread
<1> QED
  BY <1>1, <1>2, <1>3, <1>4, <1>5, <1>6, <1>7, <1>8 DEF PlacesInv

LEMMA LetGoPlaces ==
  ASSUME PlacesInv, NEW t \in Thread,
         queue' = queue, gate' = gate, reader' = [reader EXCEPT ![t] = IdleReader]
  PROVE  /\ PlacesInv'
         /\ \A q \in Request : Queued(q)' <=> Queued(q)
         /\ \A q \in Request, u \in Thread : Holds(u, q)' <=> Holds(u, q) /\ u # t
         /\ \A u \in Thread \ {t} : reader'[u] = reader[u]
         /\ ~Serving(t)'
<1>1. Thread' = Thread /\ ReaderType' = ReaderType
  BY DEF Thread, ReaderType
<1>2. reader' \in [Thread -> ReaderType]
  BY DEF PlacesInv, ReaderType
<1>3. (\A u \in Thread \ {t} : reader'[u] = reader[u]) /\ reader'[t].at = "idle"
  BY DEF PlacesInv, IdleReader
<1>4. \A q, u : u \in Thread => (Holds(u, q)' <=> Holds(u, q) /\ u # t)
  BY <1>3 DEF Holds
<1>5. \A q : Queued(q)' <=> Queued(q)
  BY DEF Queued
<1>6. \A u \in Thread : Serving(u)' <=> Serving(u) /\ u # t
  BY <1>3 DEF Serving
<1>7. Distinct(queue)'
  BY DEF PlacesInv, Distinct
<1>8. \A u \in Pump : u \in Thread
  BY DEF Thread
<1>9. t \in Thread
  OBVIOUS
<1> QED
  BY <1>1, <1>2, <1>3, <1>4, <1>5, <1>6, <1>7, <1>8, <1>9 DEF PlacesInv

(***************************************************************************)
(* What is known of a request, and the reservations.                       *)
(***************************************************************************)

\* A step that says nothing of request q.
Untouched(q) ==
    /\ req'[q] = req[q] /\ producer'[q] = producer[q]
    /\ Queued(q)' <=> Queued(q)
    /\ \A u \in Thread : /\ Holds(u, q)' <=> Holds(u, q)
                         /\ Holds(u, q) => reader'[u] = reader[u]

\* What no step takes back.
Keeps(q) ==
    /\ IsFree(q) => IsFree(q)' /\ req'[q].heard = req[q].heard
    /\ req[q].result = "approved" => req'[q].result = "approved"

LEMMA UntouchedKeeps ==
  ASSUME NEW q \in Request, ReqInv(q), Untouched(q), job' = job, gate' = gate
  PROVE  ReqInv(q)' /\ Keeps(q)
<1>1. consumer \in Thread /\ Thread' = Thread
  BY DEF Thread
<1>2. IsFree(q)' <=> IsFree(q)
  BY <1>1 DEF IsFree, Untouched
<1>3. /\ Asks(q)' <=> Asks(q)
      /\ Answers(q, req[q].heard)' = Answers(q, req[q].heard)
  BY DEF Asks, Answers, Untouched
<1>4. /\ producer'[q] \in {"idle", "asking"} =>
             /\ ~req'[q].done /\ req'[q].heard = "none"
             /\ ~Queued(q)' /\ \A t \in Thread : ~Holds(t, q)'
      /\ producer'[q] = "returned" => req'[q].done
      /\ producer'[q] = "grace" => req'[q].expired
      /\ req'[q].reserved <=> (gate' = "pipe" /\ producer'[q] # "idle" /\ ~req'[q].done)
  BY DEF ReqInv, Untouched
<1>5. req'[q].result = "approved" =>
             /\ req'[q].done /\ IsFree(q)'
             /\ ~Asks(q)' /\ req'[q].heard \in {"yes", "all"}
  BY <1>2, <1>3 DEF ReqInv, Untouched
<1>6. \A t \in Thread : Holds(t, q)' /\ reader'[t].at = "taken"
                            => req'[q].heard = reader'[t].line
  BY DEF ReqInv, Untouched
<1>7. gate' = "pipe" /\ ~req'[q].cancelled /\ req'[q].heard # "none"
         /\ Answers(q, req[q].heard)' # "none" =>
           \/ req'[q].done /\ req'[q].result = Answers(q, req[q].heard)'
           \/ /\ ~req'[q].done /\ ~req'[q].expired /\ req'[q].claimed
              /\ Holds(consumer, q)' /\ reader'[consumer].at = "taken"
  BY <1>1, <1>3 DEF ReqInv, Untouched
<1>8. ReqInv(q)'
  BY <1>1, <1>4, <1>5, <1>6, <1>7 DEF ReqInv
<1> QED
  BY <1>2, <1>8 DEF Keeps, Untouched

\* Two sets of requests that differ in r alone.
LEMMA CountMoves ==
  ASSUME NEW S \in SUBSET Request, NEW T \in SUBSET Request, NEW r \in Request,
         \A q \in Request \ {r} : q \in T <=> q \in S
  PROVE  /\ Cardinality(S) \in Nat /\ Cardinality(T) \in Nat
         /\ Cardinality(T) + One(r \in S) = Cardinality(S) + One(r \in T)
<1>1. IsFiniteSet(S) /\ IsFiniteSet(T)
  BY BrokerAssumption, FS_Subset
<1>2. Cardinality(S) \in Nat /\ Cardinality(T) \in Nat
  BY <1>1, FS_CardinalityType
<1>3. CASE r \in S /\ r \notin T
  <2>1. T = S \ {r}
    BY <1>3
  <2> QED
    BY <1>1, <1>2, <1>3, <2>1, FS_RemoveElement DEF One
<1>4. CASE r \notin S /\ r \in T
  <2>1. T = S \cup {r}
    BY <1>4
  <2> QED
    BY <1>1, <1>2, <1>4, <2>1, FS_AddElement DEF One
<1>5. CASE r \in S <=> r \in T
  <2>1. T = S
    BY <1>5
  <2> QED
    BY <1>2, <1>5, <2>1 DEF One
<1> QED
  BY <1>3, <1>4, <1>5

\* The types of all but the requests, the queue and the waiters.
RestOK ==
    /\ job \in Jobs
    /\ gate \in Gate /\ mounted \in BOOLEAN /\ active \in BOOLEAN
    /\ lines \in Seq(Line) /\ typed \in 0..MaxLines
    /\ standing \in [Manager -> SUBSET {"once", "all"}]

\* The reservations follow request r and the thread of the broker.
CountsFor(r) ==
    waiters' = waiters + (One(req'[r].reserved) - One(req[r].reserved))
                 + (One(gate = "pipe" /\ Reading(consumer)')
                      - One(gate = "pipe" /\ Reading(consumer)))

\* A step about request r alone keeps the invariant when it keeps what is
\* known of r.
LEMMA BrokerStep ==
  ASSUME BrokerInv, NEW r \in Request, \A q \in Request \ {r} : Untouched(q),
         ReqInv(r)', Keeps(r), PlacesInv', RestOK', CountsFor(r),
         job' = job, gate' = gate, queue' \in Seq(Request),
         req' \in [Request -> InputRequest],
         producer' \in [Request ->
            {"idle", "asking", "waiting", "grace", "late", "returned"}]
  PROVE  BrokerInv' /\ \A q \in Request : Keeps(q)
<1>1. \A q \in Request \ {r} : ReqInv(q)' /\ Keeps(q)
  BY UntouchedKeeps DEF BrokerInv
<1>2. /\ Reserved \in SUBSET Request /\ Reserved' \in SUBSET Request
      /\ r \in Reserved <=> req[r].reserved
      /\ r \in Reserved' <=> req'[r].reserved
      /\ \A q \in Request \ {r} : q \in Reserved' <=> q \in Reserved
  BY DEF Reserved, Untouched
<1>3. /\ Cardinality(Reserved) \in Nat /\ Cardinality(Reserved') \in Nat
      /\ Cardinality(Reserved') + One(r \in Reserved)
           = Cardinality(Reserved) + One(r \in Reserved')
  BY <1>2, CountMoves
<1>4. /\ One(r \in Reserved) = One(req[r].reserved)
      /\ One(r \in Reserved') = One(req'[r].reserved)
  BY <1>2 DEF One
<1> DEFINE was == One(req[r].reserved)
           is == One(req'[r].reserved)
           read == One(gate = "pipe" /\ Reading(consumer))
           reads == One(gate = "pipe" /\ Reading(consumer)')
<1>5. was \in Nat /\ is \in Nat /\ read \in Nat /\ reads \in Nat
  BY DEF One
<1>6. waiters = Cardinality(Reserved) + read
  BY DEF BrokerInv, WaitersInv
<1>7. /\ Cardinality(Reserved') + was = Cardinality(Reserved) + is
      /\ waiters' = waiters + (is - was) + (reads - read)
  BY <1>3, <1>4 DEF CountsFor
<1>8. waiters' = Cardinality(Reserved') + reads
  <2> HIDE DEF was, is, read, reads
  <2> QED
    BY <1>3, <1>5, <1>6, <1>7
<1>9. WaitersInv' /\ waiters' \in Nat
  BY <1>3, <1>5, <1>8 DEF WaitersInv
<1>10. BrokerTypeOK'
  BY <1>9 DEF BrokerTypeOK, RestOK
<1> QED
  BY <1>1, <1>9, <1>10 DEF BrokerInv

Values == {"denied", "approved", "answered", "unanswered"}

\* The first conclusion counts, and releases the reservation.
LEMMA ConcludeFacts ==
  ASSUME req \in [Request -> InputRequest], NEW r \in Request, ReqInv(r),
         waiters \in Nat, NEW value \in Values, NEW extra \in {0, 1},
         Conclude(r, value, extra)
  PROVE  /\ req' \in [Request -> InputRequest]
         /\ \A q \in Request \ {r} : req'[q] = req[q]
         /\ req'[r].done /\ ~req'[r].reserved
         /\ req'[r].expired = req[r].expired /\ req'[r].claimed = req[r].claimed
         /\ req'[r].cancelled = req[r].cancelled /\ req'[r].heard = req[r].heard
         /\ req'[r].result = IF req[r].done THEN req[r].result ELSE value
         /\ waiters' = waiters + (One(req'[r].reserved) - One(req[r].reserved)) - extra
<1>1. req[r] \in InputRequest
  OBVIOUS
<1>2. req[r].reserved => ~req[r].done
  BY DEF ReqInv
<1>3. CASE req[r].done
  <2>1. req' = [req EXCEPT ![r] = req[r]] /\ waiters' = waiters - extra
    BY <1>3 DEF Conclude, SetResult, Released
  <2>2. req' = req /\ ~req[r].reserved
    BY <1>2, <1>3, <2>1
  <2> QED
    BY <1>3, <2>1, <2>2 DEF One
<1>4. CASE ~req[r].done
  <2>1. req' = [req EXCEPT ![r] = [req[r] EXCEPT !.done = TRUE, !.result = value,
                                                 !.reserved = FALSE]]
    BY <1>4 DEF Conclude, SetResult
  <2>2. waiters' = waiters - One(req[r].reserved) - extra
    BY <1>4 DEF Conclude, Released, One
  <2>3. /\ [req[r] EXCEPT !.done = TRUE, !.result = value, !.reserved = FALSE]
             \in InputRequest
        /\ req'[r] = [req[r] EXCEPT !.done = TRUE, !.result = value, !.reserved = FALSE]
    BY <1>1, <2>1 DEF InputRequest, Values
  <2>4. /\ req'[r].done /\ ~req'[r].reserved
        /\ req'[r].expired = req[r].expired /\ req'[r].claimed = req[r].claimed
        /\ req'[r].cancelled = req[r].cancelled /\ req'[r].heard = req[r].heard
        /\ req'[r].result = value
    BY <1>1, <2>3 DEF InputRequest
  <2>5. req' \in [Request -> InputRequest] /\ \A q \in Request \ {r} : req'[q] = req[q]
    BY <2>1, <2>3
  <2> QED
    BY <1>4, <2>2, <2>4, <2>5 DEF One
<1> QED
  BY <1>3, <1>4

\* A request that concludes without an answer had none to give: no line was
\* read for it that a thread still carries.
LEMMA DefaultOwn ==
  ASSUME NEW r \in Request, ReqInv(r), job' = job, gate' = gate,
         NEW value \in {"denied", "unanswered"},
         req'[r].done, ~req'[r].reserved,
         req'[r].cancelled = req[r].cancelled, req'[r].heard = req[r].heard,
         req'[r].expired = req[r].expired,
         req'[r].result = IF req[r].done THEN req[r].result ELSE value,
         producer'[r] \notin {"idle", "asking"},
         producer'[r] = "grace" => producer[r] = "grace",
         Queued(r)' => Queued(r),
         \A u \in Thread : Holds(u, r)' => Holds(u, r) /\ reader'[u] = reader[u],
         gate = "pipe" =>
             \/ req[r].done \/ req[r].cancelled \/ req[r].expired \/ req[r].heard = "none"
             \/ ~(Holds(consumer, r) /\ reader[consumer].at = "taken")
  PROVE  ReqInv(r)' /\ Keeps(r)
<1>1. Thread' = Thread
  BY DEF Thread
<1>2. producer[r] \in {"idle", "asking"} => ~Queued(r) /\ \A t \in Thread : ~Holds(t, r)
  BY DEF ReqInv
<1>3. IsFree(r) => IsFree(r)'
  BY <1>1 DEF IsFree
<1>4. /\ Asks(r)' <=> Asks(r)
      /\ Answers(r, req[r].heard)' = Answers(r, req[r].heard)
  BY DEF Asks, Answers
<1>5. producer'[r] = "grace" => req'[r].expired
  BY DEF ReqInv
<1>6. req'[r].result = "approved" =>
             /\ req'[r].done /\ IsFree(r)'
             /\ ~Asks(r)' /\ req'[r].heard \in {"yes", "all"}
  BY <1>3, <1>4 DEF ReqInv
<1>7. \A t \in Thread : Holds(t, r)' /\ reader'[t].at = "taken"
                            => req'[r].heard = reader'[t].line
  BY DEF ReqInv
<1>8. gate' = "pipe" /\ ~req'[r].cancelled /\ req'[r].heard # "none"
         /\ Answers(r, req[r].heard)' # "none" =>
           req'[r].done /\ req'[r].result = Answers(r, req[r].heard)'
  BY <1>4 DEF ReqInv
<1>9. ReqInv(r)'
  BY <1>1, <1>5, <1>6, <1>7, <1>8 DEF ReqInv
<1>10. req[r].result = "approved" => req[r].done
  BY DEF ReqInv
<1> QED
  BY <1>3, <1>9, <1>10 DEF Keeps

(***************************************************************************)
(* The actions of producers.                                               *)
(***************************************************************************)

\* What the invariant says of the parts that the actions use.
LEMMA BrokerTypes ==
  ASSUME BrokerInv
  PROVE  /\ req \in [Request -> InputRequest] /\ queue \in Seq(Request) /\ waiters \in Nat
         /\ producer \in [Request ->
                {"idle", "asking", "waiting", "grace", "late", "returned"}]
         /\ reader \in [Thread -> ReaderType] /\ consumer \in Thread
         /\ PlacesInv /\ RestOK
BY DEF BrokerInv, BrokerTypeOK, RestOK, PlacesInv, Thread

\* The queue and the threads stay as they are.
LEMMA SamePlaces ==
  ASSUME PlacesInv, queue' = queue, gate' = gate, reader' = reader
  PROVE  /\ PlacesInv'
         /\ \A q : Queued(q)' <=> Queued(q)
         /\ \A q, u : Holds(u, q)' <=> Holds(u, q)
<1>1. /\ \A q : Queued(q)' <=> Queued(q)
      /\ \A q, u : Holds(u, q)' <=> Holds(u, q)
  BY DEF Holds, Queued
<1>2. Thread' = Thread /\ ReaderType' = ReaderType
  BY DEF Thread, ReaderType
<1> QED
  BY <1>1, <1>2 DEF PlacesInv, Serving, Distinct

LEMMA AskKeeps ==
  ASSUME BrokerInv, NEW r \in Request, Ask(r)
  PROVE  BrokerInv' /\ \A q \in Request : Keeps(q)
<1> USE DEF Ask
<1>1. /\ req[r] \in InputRequest /\ ReqInv(r)
      /\ producer'[r] = "asking" /\ \A q \in Request \ {r} : producer'[q] = producer[q]
      /\ producer' \in [Request ->
            {"idle", "asking", "waiting", "grace", "late", "returned"}]
  BY BrokerTypes DEF BrokerInv
<1>2. /\ PlacesInv' /\ \A q : Queued(q)' <=> Queued(q)
      /\ \A q, u : Holds(u, q)' <=> Holds(u, q)
  BY BrokerTypes, SamePlaces
<1>3. /\ req' \in [Request -> InputRequest] /\ \A q \in Request \ {r} : req'[q] = req[q]
      /\ ~req'[r].done /\ req'[r].heard = "none" /\ req'[r].result = req[r].result
      /\ ~req[r].reserved
      /\ req'[r].reserved <=> gate = "pipe"
  <2>1. ~req[r].reserved /\ ~req[r].done /\ req[r].heard = "none"
    BY <1>1 DEF ReqInv
  <2>2. CASE gate = "pipe"
    <3>1. req \in [Request -> InputRequest] /\ req' = [req EXCEPT ![r].reserved = TRUE]
      BY <2>2, BrokerTypes
    <3> QED
      BY <2>1, <2>2, <3>1 DEF InputRequest
  <2>3. CASE gate # "pipe"
    BY <1>1, <2>1, <2>3, BrokerTypes
  <2> QED
    BY <2>2, <2>3
<1>4. \A q \in Request \ {r} : Untouched(q)
  BY <1>1, <1>2, <1>3 DEF Untouched
<1>5. ReqInv(r)' /\ Keeps(r)
  <2>1. req[r].result # "approved" /\ ~Queued(r) /\ \A t \in Thread : ~Holds(t, r)
    BY <1>1 DEF ReqInv
  <2>2. ReqInv(r)'
    BY <1>1, <1>2, <1>3, <2>1 DEF ReqInv, Thread
  <2> QED
    BY <2>1, <2>2 DEF Keeps, IsFree
<1>6. CountsFor(r)
  BY <1>3, BrokerTypes DEF CountsFor, One, Reading
<1>7. RestOK'
  BY BrokerTypes DEF RestOK
<1> QED
  BY <1>1, <1>2, <1>3, <1>4, <1>5, <1>6, <1>7, BrokerTypes, BrokerStep

LEMMA ConcludingKeeps ==
  ASSUME BrokerInv, NEW r \in Request, Refused(r) \/ Gives(r)
  PROVE  BrokerInv' /\ \A q \in Request : Keeps(q)
<1>1. /\ Conclude(r, Default(r), 0) /\ producer' = [producer EXCEPT ![r] = "returned"]
      /\ UNCHANGED <<job, gate, mounted, active, lines, typed, queue, reader, standing>>
  BY DEF Refused, Gives
<1>2. /\ ReqInv(r)
      /\ producer'[r] = "returned" /\ \A q \in Request \ {r} : producer'[q] = producer[q]
      /\ producer' \in [Request ->
            {"idle", "asking", "waiting", "grace", "late", "returned"}]
  BY <1>1, BrokerTypes DEF BrokerInv
<1>3. /\ PlacesInv' /\ \A q : Queued(q)' <=> Queued(q)
      /\ \A q, u : Holds(u, q)' <=> Holds(u, q)
  BY <1>1, BrokerTypes, SamePlaces
<1>4. Default(r) \in {"denied", "unanswered"} /\ Default(r) \in Values
  BY DEF Default, Values
<1>5. /\ req' \in [Request -> InputRequest] /\ \A q \in Request \ {r} : req'[q] = req[q]
      /\ req'[r].done /\ ~req'[r].reserved
      /\ req'[r].expired = req[r].expired
      /\ req'[r].cancelled = req[r].cancelled /\ req'[r].heard = req[r].heard
      /\ req'[r].result = IF req[r].done THEN req[r].result ELSE Default(r)
      /\ waiters' = waiters + (One(req'[r].reserved) - One(req[r].reserved)) - 0
  BY <1>1, <1>2, <1>4, BrokerTypes, ConcludeFacts
<1>6. \A q \in Request \ {r} : Untouched(q)
  BY <1>1, <1>2, <1>3, <1>5 DEF Untouched
<1>7. \/ req[r].done \/ req[r].cancelled \/ req[r].expired \/ req[r].heard = "none"
      \/ ~(Holds(consumer, r) /\ reader[consumer].at = "taken")
  BY <1>2, BrokerTypes DEF Refused, Gives, ReqInv, Holds, Serving
<1>8. ReqInv(r)' /\ Keeps(r)
  BY <1>1, <1>2, <1>3, <1>4, <1>5, <1>7, DefaultOwn
<1>9. CountsFor(r)
  BY <1>1, <1>5, BrokerTypes DEF CountsFor, One, Reading
<1>10. RestOK'
  BY <1>1, BrokerTypes DEF RestOK
<1> QED
  BY <1>1, <1>2, <1>3, <1>5, <1>6, <1>8, <1>9, <1>10, BrokerTypes, BrokerStep

LEMMA PublishKeeps ==
  ASSUME BrokerInv, NEW r \in Request, Publish(r)
  PROVE  BrokerInv' /\ \A q \in Request : Keeps(q)
<1> USE DEF Publish
<1>1. /\ ReqInv(r) /\ producer[r] = "asking"
      /\ producer'[r] = "waiting" /\ \A q \in Request \ {r} : producer'[q] = producer[q]
      /\ producer' \in [Request ->
            {"idle", "asking", "waiting", "grace", "late", "returned"}]
  BY BrokerTypes DEF BrokerInv
<1>2. /\ ~Queued(r) /\ \A t \in Thread : ~Holds(t, r)
      /\ ~req[r].done /\ req[r].heard = "none" /\ req[r].result # "approved"
  BY <1>1 DEF ReqInv
<1>3. /\ PlacesInv' /\ queue' \in Seq(Request)
      /\ \A q \in Request : Queued(q)' <=> Queued(q) \/ q = r
      /\ \A q \in Request, u \in Thread : Holds(u, q)' <=> Holds(u, q)
  BY <1>2, BrokerTypes, PublishPlaces
<1>4. \A q \in Request \ {r} : Untouched(q)
  BY <1>1, <1>3 DEF Untouched
<1>5. ReqInv(r)' /\ Keeps(r)
  <2>1. ReqInv(r)'
    BY <1>1, <1>2, <1>3 DEF ReqInv, Thread
  <2> QED
    BY <1>1, <1>2, <2>1 DEF Keeps, IsFree
<1>6. CountsFor(r)
  BY BrokerTypes DEF CountsFor, One, Reading
<1>7. RestOK'
  BY BrokerTypes DEF RestOK
<1> QED
  BY <1>1, <1>3, <1>4, <1>5, <1>6, <1>7, BrokerTypes, BrokerStep

LEMMA AnsweredKeeps ==
  ASSUME BrokerInv, NEW r \in Request, Answered(r)
  PROVE  BrokerInv' /\ \A q \in Request : Keeps(q)
<1> USE DEF Answered
<1>1. /\ ReqInv(r) /\ producer[r] \in {"waiting", "grace", "late"} /\ req[r].done
      /\ producer'[r] = "returned" /\ \A q \in Request \ {r} : producer'[q] = producer[q]
      /\ producer' \in [Request ->
            {"idle", "asking", "waiting", "grace", "late", "returned"}]
  BY BrokerTypes DEF BrokerInv
<1>2. /\ PlacesInv' /\ \A q : Queued(q)' <=> Queued(q)
      /\ \A q, u : Holds(u, q)' <=> Holds(u, q)
  BY BrokerTypes, SamePlaces
<1>3. \A q \in Request \ {r} : Untouched(q)
  BY <1>1, <1>2 DEF Untouched
<1>4. IsFree(r) => IsFree(r)'
  BY <1>1, <1>2 DEF IsFree, Thread
<1>5. ReqInv(r)' /\ Keeps(r)
  <2>1. ReqInv(r)'
    BY <1>1, <1>2, <1>4 DEF ReqInv, Thread, Asks, Answers
  <2> QED
    BY <1>1, <1>4, <2>1 DEF Keeps
<1>6. CountsFor(r)
  BY BrokerTypes DEF CountsFor, One, Reading
<1>7. RestOK'
  BY BrokerTypes DEF RestOK
<1> QED
  BY <1>1, <1>2, <1>3, <1>5, <1>6, <1>7, BrokerTypes, BrokerStep

LEMMA TryExpireKeeps ==
  ASSUME BrokerInv, NEW r \in Request, TryExpire(r)
  PROVE  BrokerInv' /\ \A q \in Request : Keeps(q)
<1> USE DEF TryExpire
<1>1. /\ req[r] \in InputRequest /\ ReqInv(r) /\ producer[r] = "waiting" /\ ~req[r].done
      /\ producer'[r] = IF req[r].claimed THEN "late" ELSE "grace"
      /\ \A q \in Request \ {r} : producer'[q] = producer[q]
      /\ producer' \in [Request ->
            {"idle", "asking", "waiting", "grace", "late", "returned"}]
  BY BrokerTypes DEF BrokerInv
<1>2. /\ PlacesInv' /\ \A q : Queued(q)' <=> Queued(q)
      /\ \A q, u : Holds(u, q)' <=> Holds(u, q)
  BY BrokerTypes, SamePlaces
<1>3. /\ req' \in [Request -> InputRequest] /\ \A q \in Request \ {r} : req'[q] = req[q]
      /\ ~req'[r].done /\ req'[r].heard = req[r].heard /\ req'[r].result = req[r].result
      /\ req'[r].cancelled = req[r].cancelled /\ req'[r].reserved = req[r].reserved
      /\ req'[r].claimed = req[r].claimed
      /\ req'[r].expired = IF req[r].claimed THEN req[r].expired ELSE TRUE
  <2>1. CASE req[r].claimed
    BY <1>1, <2>1, BrokerTypes
  <2>2. CASE ~req[r].claimed
    <3>1. req \in [Request -> InputRequest] /\ req' = [req EXCEPT ![r].expired = TRUE]
      BY <2>2, BrokerTypes
    <3> QED
      BY <1>1, <2>2, <3>1 DEF InputRequest
  <2> QED
    BY <2>1, <2>2
<1>4. \A q \in Request \ {r} : Untouched(q)
  BY <1>1, <1>2, <1>3 DEF Untouched
<1>5. req[r].result # "approved" /\ (IsFree(r) => IsFree(r)')
  BY <1>1, <1>2 DEF IsFree, ReqInv, Thread
<1>6. ReqInv(r)' /\ Keeps(r)
  <2>1. ReqInv(r)'
    BY <1>1, <1>2, <1>3, <1>5 DEF ReqInv, Thread, Asks, Answers
  <2> QED
    BY <1>3, <1>5, <2>1 DEF Keeps
<1>7. CountsFor(r)
  BY <1>3, BrokerTypes DEF CountsFor, One, Reading
<1>8. RestOK'
  BY BrokerTypes DEF RestOK
<1> QED
  BY <1>1, <1>2, <1>3, <1>4, <1>6, <1>7, <1>8, BrokerTypes, BrokerStep

LEMMA CancelKeeps ==
  ASSUME BrokerInv, NEW r \in Request, Cancel(r)
  PROVE  BrokerInv' /\ \A q \in Request : Keeps(q)
<1> USE DEF Cancel
<1>1. req[r] \in InputRequest /\ ReqInv(r)
  BY BrokerTypes DEF BrokerInv
<1>2. /\ PlacesInv' /\ \A q : Queued(q)' <=> Queued(q)
      /\ \A q, u : Holds(u, q)' <=> Holds(u, q)
  BY BrokerTypes, SamePlaces
<1>3. /\ req' \in [Request -> InputRequest] /\ \A q \in Request \ {r} : req'[q] = req[q]
      /\ req'[r].done = req[r].done /\ req'[r].heard = req[r].heard
      /\ req'[r].result = req[r].result /\ req'[r].cancelled
      /\ req'[r].reserved = req[r].reserved /\ req'[r].expired = req[r].expired
  BY <1>1, BrokerTypes DEF InputRequest
<1>4. \A q \in Request \ {r} : Untouched(q)
  BY <1>1, <1>2, <1>3 DEF Untouched
<1>5. IsFree(r) => IsFree(r)'
  BY <1>2 DEF IsFree, Thread
<1>6. ReqInv(r)' /\ Keeps(r)
  <2>1. ReqInv(r)'
    BY <1>1, <1>2, <1>3, <1>5 DEF ReqInv, Thread, Asks
  <2> QED
    BY <1>3, <1>5, <2>1 DEF Keeps
<1>7. CountsFor(r)
  BY <1>3, BrokerTypes DEF CountsFor, One, Reading
<1>8. RestOK'
  BY BrokerTypes DEF RestOK
<1> QED
  BY <1>1, <1>2, <1>3, <1>4, <1>6, <1>7, <1>8, BrokerTypes, BrokerStep

(***************************************************************************)
(* The actions of the threads that serve the queue.                        *)
(***************************************************************************)

\* Over a pipe the thread that serves is the broker's own.
LEMMA PipeServer ==
  ASSUME BrokerInv, NEW t \in Thread, Serving(t), gate = "pipe"
  PROVE  t = consumer
BY DEF BrokerInv, PlacesInv, Thread

\* A request that a thread has was published, is not in the queue, and is not
\* free: none of what it was asked for has come to it yet.
LEMMA HeldRequest ==
  ASSUME BrokerInv, NEW t \in Thread, Serving(t)
  PROVE  LET r == reader[t].r IN
         /\ r \in Request /\ Holds(t, r) /\ ReqInv(r) /\ req[r] \in InputRequest
         /\ \A u \in Thread : Holds(u, r) => u = t
         /\ ~Queued(r) /\ producer[r] \notin {"idle", "asking"}
         /\ ~IsFree(r) /\ req[r].result # "approved"
         /\ reader[t].at \in {"got", "reading", "taken"}
         /\ reader[t].at = "taken" => reader[t].line \in Line /\ req[r].heard = reader[t].line
<1> DEFINE r == reader[t].r
<1>1. /\ r \in Request /\ Holds(t, r) /\ reader[t].at \in {"got", "reading", "taken"}
      /\ reader[t].at = "taken" => reader[t].line \in Line
  BY BrokerTypes, ServingFacts
<1> HIDE DEF r
<1>2. ReqInv(r) /\ req[r] \in InputRequest
  BY <1>1, BrokerTypes DEF BrokerInv
<1>3. (\A u \in Thread : Holds(u, r) => u = t) /\ ~Queued(r)
  BY <1>1 DEF BrokerInv, PlacesInv
<1>4. ~IsFree(r) /\ producer[r] \notin {"idle", "asking"} /\ req[r].result # "approved"
  BY <1>1, <1>2 DEF IsFree, ReqInv
<1>5. reader[t].at = "taken" => req[r].heard = reader[t].line
  BY <1>1, <1>2 DEF ReqInv
<1> QED
  BY <1>1, <1>2, <1>3, <1>4, <1>5 DEF r

LEMMA GetKeeps ==
  ASSUME BrokerInv, NEW t \in Thread, Get(t)
  PROVE  BrokerInv' /\ \A q \in Request : Keeps(q)
<1>1. /\ queue # <<>> /\ queue \in Seq(Request)
      /\ ~Serving(t) /\ (gate = "pipe" => t = consumer)
      /\ UNCHANGED <<job, gate, mounted, active, lines, typed, producer, standing>>
  BY BrokerTypes DEF Get, Serving, Pumps
<1>r. PICK r \in Request : r = Head(queue) /\ Queued(r)
  BY <1>1, TailFacts DEF Queued
<1>2. /\ ReqInv(r) /\ req[r] \in InputRequest /\ ~IsFree(r)
      /\ producer[r] \notin {"idle", "asking"} /\ req[r].result # "approved"
      /\ \A u \in Thread : ~Holds(u, r)
  <2>1. ReqInv(r) /\ req[r] \in InputRequest
    BY BrokerTypes DEF BrokerInv
  <2>2. ~IsFree(r) /\ \A u \in Thread : ~Holds(u, r)
    BY <1>r DEF IsFree, BrokerInv, PlacesInv
  <2> QED
    BY <1>r, <2>1, <2>2 DEF ReqInv
<1>3. RestOK'
  BY <1>1, BrokerTypes DEF RestOK
<1>4. CASE req[r].done /\ queue' = Tail(queue) /\ UNCHANGED <<req, waiters, reader>>
  <2>1. /\ PlacesInv' /\ queue' \in Seq(Request)
        /\ \A q \in Request : Queued(q)' <=> Queued(q) /\ q # r
        /\ \A q \in Request, u \in Thread : Holds(u, q)' <=> Holds(u, q)
    BY <1>1, <1>4, BrokerTypes, <1>r, DropPlaces
  <2>2. \A q \in Request \ {r} : Untouched(q)
    BY <1>1, <1>4, <2>1 DEF Untouched
  <2>3. ReqInv(r)'
    BY <1>1, <1>2, <1>4, <2>1 DEF ReqInv, Thread, Asks, Answers
  <2>4. Keeps(r)
    BY <1>2 DEF Keeps
  <2>5. CountsFor(r)
    BY <1>1, <1>4, BrokerTypes DEF CountsFor, One, Reading
  <2> QED
    BY <1>1, <1>3, <1>4, <2>1, <2>2, <2>3, <2>4, <2>5, BrokerTypes, BrokerStep
<1>5. CASE /\ ~req[r].done /\ req[r].cancelled /\ queue' = Tail(queue)
           /\ Conclude(r, Default(r), 0) /\ UNCHANGED reader
  <2>1. /\ PlacesInv' /\ queue' \in Seq(Request)
        /\ \A q \in Request : Queued(q)' <=> Queued(q) /\ q # r
        /\ \A q \in Request, u \in Thread : Holds(u, q)' <=> Holds(u, q)
    BY <1>1, <1>5, BrokerTypes, <1>r, DropPlaces
  <2>2. Default(r) \in {"denied", "unanswered"} /\ Default(r) \in Values
    BY DEF Default, Values
  <2>3. /\ req' \in [Request -> InputRequest] /\ \A q \in Request \ {r} : req'[q] = req[q]
        /\ req'[r].done /\ ~req'[r].reserved
        /\ req'[r].expired = req[r].expired
        /\ req'[r].cancelled = req[r].cancelled /\ req'[r].heard = req[r].heard
        /\ req'[r].result = IF req[r].done THEN req[r].result ELSE Default(r)
        /\ waiters' = waiters + (One(req'[r].reserved) - One(req[r].reserved)) - 0
    BY <1>1, <1>2, <1>5, <2>2, BrokerTypes, ConcludeFacts
  <2>4. \A q \in Request \ {r} : Untouched(q)
    BY <1>1, <1>5, <2>1, <2>3 DEF Untouched
  <2>5. ReqInv(r)' /\ Keeps(r)
    BY <1>1, <1>2, <1>5, <2>1, <2>2, <2>3, DefaultOwn
  <2>6. CountsFor(r)
    BY <1>1, <1>5, <2>3, BrokerTypes DEF CountsFor, One, Reading
  <2> QED
    BY <1>1, <1>3, <2>1, <2>3, <2>4, <2>5, <2>6, BrokerTypes, BrokerStep
<1>6. CASE queue' = Append(Tail(queue), r) /\ UNCHANGED <<req, waiters, reader>>
  <2>1. /\ PlacesInv' /\ queue' \in Seq(Request)
        /\ \A q \in Request : Queued(q)' <=> Queued(q)
        /\ \A q \in Request, u \in Thread : Holds(u, q)' <=> Holds(u, q)
    BY <1>1, <1>6, BrokerTypes, <1>r, RotatePlaces
  <2>2. \A q \in Request : Untouched(q)
    BY <1>1, <1>6, <2>1 DEF Untouched
  <2>3. ReqInv(r)' /\ Keeps(r)
    BY <1>1, <1>2, <2>2, UntouchedKeeps
  <2>4. CountsFor(r)
    BY <1>1, <1>6, BrokerTypes DEF CountsFor, One, Reading
  <2> QED
    BY <1>1, <1>3, <1>6, <2>1, <2>2, <2>3, <2>4, BrokerTypes, BrokerStep
<1>7. CASE /\ queue' = Tail(queue) /\ UNCHANGED <<req, waiters>>
           /\ reader' = [reader EXCEPT ![t] = [at |-> "got", r |-> r]]
           /\ ~req[r].done /\ ~req[r].cancelled
  <2>1. /\ PlacesInv' /\ queue' \in Seq(Request)
        /\ \A q \in Request : Queued(q)' <=> Queued(q) /\ q # r
        /\ \A q \in Request, u \in Thread :
               Holds(u, q)' <=> Holds(u, q) \/ (u = t /\ q = r)
        /\ \A u \in Thread \ {t} : reader'[u] = reader[u]
        /\ reader'[t].at = "got"
    BY <1>1, <1>7, BrokerTypes, <1>r, GetPlaces
  <2>2. \A q \in Request \ {r} : Untouched(q)
    BY <1>1, <1>7, <2>1 DEF Untouched, Holds, Serving
  <2>3. ReqInv(r)'
    BY <1>1, <1>2, <1>7, <2>1, BrokerTypes DEF ReqInv, Thread, Asks, Answers
  <2>4. Keeps(r)
    BY <1>2 DEF Keeps
  <2>5. CountsFor(r)
    BY <1>1, <1>7, <2>1, BrokerTypes DEF CountsFor, One, Reading, Serving
  <2> QED
    BY <1>1, <1>3, <1>7, <2>1, <2>2, <2>3, <2>4, <2>5, BrokerTypes, BrokerStep
<1> QED
  BY <1>r, <1>4, <1>5, <1>6, <1>7 DEF Get

\* A thread concludes the request it has without an answer.
LEMMA LetGoKeeps ==
  ASSUME BrokerInv, NEW t \in Thread, Serving(t),
         (Open(t) /\ req[reader[t].r].cancelled) \/ ReadsNothing(t)
  PROVE  BrokerInv' /\ \A q \in Request : Keeps(q)
<1> DEFINE extra == IF Reading(t) THEN InPipe ELSE 0
<1>r. PICK r \in Request : r = reader[t].r
  BY HeldRequest
<1>1. /\ r \in Request /\ Holds(t, r) /\ ReqInv(r)
      /\ \A u \in Thread : Holds(u, r) => u = t
      /\ producer[r] \notin {"idle", "asking"}
      /\ gate = "pipe" => t = consumer
      /\ reader[t].at \in {"got", "reading", "taken"}
  BY <1>r, HeldRequest, PipeServer
<1>2. /\ Conclude(r, Default(r), extra) /\ extra \in {0, 1}
      /\ reader' = [reader EXCEPT ![t] = IdleReader]
      /\ active' \in BOOLEAN
      /\ UNCHANGED <<job, gate, mounted, lines, typed, queue, producer, standing>>
      /\ req[r].cancelled \/ reader[t].at # "taken"
  BY <1>r, BrokerTypes DEF Open, ReadsNothing, Reading, InPipe, RestOK
<1>3. extra = One(gate = "pipe" /\ Reading(t))
  BY DEF One, InPipe
<1> HIDE DEF extra
<1>4. /\ PlacesInv'
      /\ \A q \in Request : Queued(q)' <=> Queued(q)
      /\ \A q \in Request, u \in Thread : Holds(u, q)' <=> Holds(u, q) /\ u # t
      /\ \A u \in Thread \ {t} : reader'[u] = reader[u]
      /\ ~Serving(t)'
  BY <1>2, BrokerTypes, LetGoPlaces
<1>5. Default(r) \in {"denied", "unanswered"} /\ Default(r) \in Values
  BY DEF Default, Values
<1>6. /\ req' \in [Request -> InputRequest] /\ \A q \in Request \ {r} : req'[q] = req[q]
      /\ req'[r].done /\ ~req'[r].reserved
      /\ req'[r].expired = req[r].expired
      /\ req'[r].cancelled = req[r].cancelled /\ req'[r].heard = req[r].heard
      /\ req'[r].result = IF req[r].done THEN req[r].result ELSE Default(r)
      /\ waiters' = waiters + (One(req'[r].reserved) - One(req[r].reserved)) - extra
  BY <1>1, <1>2, <1>5, BrokerTypes, ConcludeFacts
<1>7. \A q \in Request \ {r} : Untouched(q)
  BY <1>1, <1>2, <1>4, <1>6 DEF Untouched, Holds
<1>8. ReqInv(r)' /\ Keeps(r)
  BY <1>1, <1>2, <1>4, <1>5, <1>6, DefaultOwn
<1>9. CountsFor(r)
  <2>1. CASE gate = "pipe"
    <3>1. ~Reading(consumer)' /\ extra = One(gate = "pipe" /\ Reading(consumer))
      BY <1>1, <1>3, <1>4, <2>1 DEF Reading, Serving
    <3> QED
      BY <1>6, <2>1, <3>1, BrokerTypes DEF CountsFor, One
  <2>2. CASE gate # "pipe"
    BY <1>3, <1>6, <2>2, BrokerTypes DEF CountsFor, One
  <2> QED
    BY <2>1, <2>2
<1>10. RestOK'
  BY <1>2, BrokerTypes DEF RestOK
<1> QED
  BY <1>1, <1>2, <1>4, <1>6, <1>7, <1>8, <1>9, <1>10, BrokerTypes, BrokerStep

\* A thread opens the prompt of the request it has, or opens it again after a
\* line that was no option.
LEMMA StartsReadingKeeps ==
  ASSUME BrokerInv, NEW t \in Thread, Serving(t), reader[t].at \in {"got", "taken"},
         StartsReading(t, reader[t].r),
         reader[t].at = "taken" => Answers(reader[t].r, reader[t].line) = "none",
         UNCHANGED <<job, gate, mounted, lines, typed, queue, req, producer, standing>>
  PROVE  BrokerInv' /\ \A q \in Request : Keeps(q)
<1>1. PICK r \in Request : r = reader[t].r
  BY HeldRequest
<1>2. /\ Holds(t, r) /\ ReqInv(r)
      /\ \A u \in Thread : Holds(u, r) => u = t
      /\ producer[r] \notin {"idle", "asking"} /\ ~IsFree(r) /\ req[r].result # "approved"
      /\ gate = "pipe" => t = consumer
      /\ reader[t].at = "taken" => Answers(r, req[r].heard) = "none"
  BY <1>1, HeldRequest, PipeServer
<1> DEFINE x == [at |-> "reading", r |-> r]
<1>3. x \in ReaderType /\ x.at = "reading" /\ x.r = r
  BY DEF ReaderType
<1>4. reader' = [reader EXCEPT ![t] = x]
  BY <1>1 DEF StartsReading
<1> HIDE DEF x
<1>5. /\ PlacesInv'
      /\ \A q \in Request : Queued(q)' <=> Queued(q)
      /\ \A q \in Request, u \in Thread : Holds(u, q)' <=> Holds(u, q)
      /\ \A u \in Thread \ {t} : reader'[u] = reader[u]
      /\ reader'[t].at = "reading"
  BY <1>1, <1>3, <1>4, BrokerTypes, StayPlaces
<1>6. \A q \in Request \ {r} : Untouched(q)
  BY <1>1, <1>5 DEF Untouched, Holds
<1>7. /\ gate = "pipe" /\ ~req[r].cancelled /\ req[r].heard # "none"
            /\ Answers(r, req[r].heard) # "none" =>
              req[r].done /\ req[r].result = Answers(r, req[r].heard)
      /\ Answers(r, req[r].heard)' = Answers(r, req[r].heard)
  BY <1>2 DEF ReqInv, Answers, Asks
<1>8. \A u \in Thread : ~(Holds(u, r)' /\ reader'[u].at = "taken")
  BY <1>2, <1>5
<1>9. ReqInv(r)'
  BY <1>2, <1>5, <1>7, <1>8 DEF ReqInv, Thread
<1>10. Keeps(r)
  BY <1>2 DEF Keeps
<1>11. RestOK'
  BY BrokerTypes DEF RestOK, StartsReading
<1>12. CountsFor(r)
  <2>1. CASE gate = "pipe"
    <3>1. Reading(consumer)' /\ ~Reading(consumer) /\ waiters' = waiters + 1
      BY <1>2, <1>5, <2>1 DEF Reading, StartsReading
    <3> QED
      BY <2>1, <3>1, BrokerTypes DEF CountsFor, One
  <2>2. CASE gate # "pipe"
    BY <2>2, BrokerTypes DEF CountsFor, One, StartsReading
  <2> QED
    BY <2>1, <2>2
<1> QED
  BY <1>5, <1>6, <1>9, <1>10, <1>11, <1>12, BrokerTypes, BrokerStep

LEMMA TakeLineKeeps ==
  ASSUME BrokerInv, NEW t \in Thread, TakeLine(t)
  PROVE  BrokerInv' /\ \A q \in Request : Keeps(q)
<1>1. Serving(t) /\ reader[t].at = "reading" /\ lines # <<>>
  BY DEF TakeLine, Serving, Reading
<1>2. PICK r \in Request : r = reader[t].r
  BY <1>1, HeldRequest
<1>3. /\ Holds(t, r) /\ ReqInv(r) /\ req[r] \in InputRequest
      /\ \A u \in Thread : Holds(u, r) => u = t
      /\ producer[r] \notin {"idle", "asking"} /\ ~IsFree(r) /\ req[r].result # "approved"
      /\ gate = "pipe" => t = consumer
  BY <1>1, <1>2, HeldRequest, PipeServer
<1>4. PICK line \in Line : line = Head(lines)
  BY <1>1, BrokerTypes, HeadTailProperties DEF RestOK
<1>5. /\ req' = [req EXCEPT ![r].heard = line, ![r].claimed = @ \/ gate = "pipe"]
      /\ reader' = [reader EXCEPT ![t] = [at |-> "taken", r |-> r, line |-> line]]
      /\ lines' = Tail(lines) /\ waiters' = waiters - InPipe /\ active' = FALSE
      /\ UNCHANGED <<job, gate, mounted, typed, queue, producer, standing>>
      /\ gate = "pipe" => ~ShouldAbort(r)
  BY <1>2, <1>4 DEF TakeLine, Aborts
<1> DEFINE x == [at |-> "taken", r |-> r, line |-> line]
<1>6. x \in ReaderType /\ x.at = "taken" /\ x.r = r /\ x.line = line
  BY DEF ReaderType
<1>7. reader' = [reader EXCEPT ![t] = x]
  BY <1>5
<1> HIDE DEF x
<1>8. /\ PlacesInv'
      /\ \A q \in Request : Queued(q)' <=> Queued(q)
      /\ \A q \in Request, u \in Thread : Holds(u, q)' <=> Holds(u, q)
      /\ \A u \in Thread \ {t} : reader'[u] = reader[u]
      /\ reader'[t].at = "taken" /\ reader'[t].line = line
  BY <1>1, <1>2, <1>5, <1>6, <1>7, BrokerTypes, StayPlaces
<1> DEFINE claimed == req[r].claimed \/ gate = "pipe"
           row == [req[r] EXCEPT !.heard = line, !.claimed = claimed]
<1>9. req \in [Request -> InputRequest] /\ req' = [req EXCEPT ![r] = row]
  BY <1>5, BrokerTypes
<1>10. claimed \in BOOLEAN /\ (gate = "pipe" => claimed)
  BY <1>3 DEF InputRequest
<1> HIDE DEF claimed
<1>11. /\ row \in InputRequest /\ row.heard = line /\ row.claimed = claimed
       /\ row.done = req[r].done /\ row.expired = req[r].expired
       /\ row.cancelled = req[r].cancelled /\ row.result = req[r].result
       /\ row.reserved = req[r].reserved
  BY <1>3, <1>10 DEF InputRequest
<1> HIDE DEF row
<1>12. /\ req' \in [Request -> InputRequest] /\ req'[r] = row
       /\ \A q \in Request \ {r} : req'[q] = req[q]
  BY <1>9, <1>11
<1>13. \A q \in Request \ {r} : Untouched(q)
  BY <1>2, <1>5, <1>8, <1>12 DEF Untouched, Holds
<1>14. gate = "pipe" => ~row.done /\ ~row.expired /\ row.claimed /\ t = consumer
  BY <1>3, <1>5, <1>10, <1>11 DEF ShouldAbort
<1>15. \A u \in Thread : Holds(u, r)' /\ reader'[u].at = "taken" => line = reader'[u].line
  BY <1>3, <1>8
<1>16. ReqInv(r)'
  BY <1>3, <1>5, <1>8, <1>11, <1>12, <1>14, <1>15 DEF ReqInv, Thread
<1>17. Keeps(r)
  BY <1>3 DEF Keeps
<1>18. RestOK'
  <2>1. Tail(lines) \in Seq(Line)
    BY <1>1, BrokerTypes, HeadTailProperties DEF RestOK
  <2> QED
    BY <1>5, <2>1, BrokerTypes DEF RestOK
<1>19. CountsFor(r)
  <2>1. CASE gate = "pipe"
    <3>1. Reading(consumer) /\ ~Reading(consumer)' /\ waiters' = waiters - 1
      BY <1>1, <1>3, <1>5, <1>8, <2>1 DEF Reading, InPipe
    <3> QED
      BY <1>11, <1>12, <2>1, <3>1, BrokerTypes DEF CountsFor, One
  <2>2. CASE gate # "pipe"
    <3>1. waiters' = waiters
      BY <1>5, <2>2, BrokerTypes DEF InPipe
    <3> QED
      BY <1>11, <1>12, <2>2, <3>1, BrokerTypes DEF CountsFor, One
  <2> QED
    BY <2>1, <2>2
<1> QED
  BY <1>5, <1>8, <1>12, <1>13, <1>16, <1>17, <1>18, <1>19, BrokerTypes, BrokerStep

LEMMA ReplyKeeps ==
  ASSUME BrokerInv, NEW t \in Thread, Reply(t)
  PROVE  /\ BrokerInv' /\ \A q \in Request : Keeps(q)
         /\ \A q \in Request : q = reader[t].r /\ ~Asks(q) /\ reader[t].line = "all"
                => Heard(q, "all")' /\ IsFree(q)'
<1>1. Serving(t) /\ reader[t].at = "taken"
  BY DEF Reply, Serving
<1>2. PICK r \in Request : r = reader[t].r
  BY <1>1, HeldRequest
<1>3. /\ Holds(t, r) /\ ReqInv(r) /\ req[r] \in InputRequest
      /\ \A u \in Thread : Holds(u, r) => u = t
      /\ ~Queued(r) /\ producer[r] \notin {"idle", "asking"}
      /\ ~IsFree(r) /\ req[r].result # "approved"
      /\ gate = "pipe" => t = consumer
      /\ reader[t].line \in Line /\ req[r].heard = reader[t].line
  BY <1>1, <1>2, HeldRequest, PipeServer
<1>4. PICK value \in {"denied", "approved", "answered"} : value = Answers(r, reader[t].line)
  BY <1>2 DEF Reply, Answers
<1>5. /\ Conclude(r, value, 0)
      /\ reader' = [reader EXCEPT ![t] = IdleReader]
      /\ UNCHANGED <<job, gate, mounted, active, lines, typed, queue, producer>>
  BY <1>2, <1>4 DEF Reply
<1>6. /\ PlacesInv'
      /\ \A q \in Request : Queued(q)' <=> Queued(q)
      /\ \A q \in Request, u \in Thread : Holds(u, q)' <=> Holds(u, q) /\ u # t
      /\ \A u \in Thread \ {t} : reader'[u] = reader[u]
      /\ ~Serving(t)'
  BY <1>5, BrokerTypes, LetGoPlaces
<1>7. /\ req' \in [Request -> InputRequest] /\ \A q \in Request \ {r} : req'[q] = req[q]
      /\ req'[r].done /\ ~req'[r].reserved
      /\ req'[r].expired = req[r].expired
      /\ req'[r].cancelled = req[r].cancelled /\ req'[r].heard = req[r].heard
      /\ req'[r].result = IF req[r].done THEN req[r].result ELSE value
      /\ waiters' = waiters + (One(req'[r].reserved) - One(req[r].reserved)) - 0
  BY <1>3, <1>5, BrokerTypes, ConcludeFacts DEF Values
<1>8. \A q \in Request \ {r} : Untouched(q)
  BY <1>2, <1>5, <1>6, <1>7 DEF Untouched, Holds
<1>9. IsFree(r)'
  BY <1>3, <1>5, <1>6 DEF IsFree, Thread
<1>10. /\ Asks(r)' <=> Asks(r)
       /\ Answers(r, req[r].heard)' = Answers(r, req[r].heard)
       /\ value = Answers(r, req[r].heard)
  BY <1>3, <1>4, <1>5, <1>7 DEF Asks, Answers
<1>11. value = "approved" => ~Asks(r) /\ req[r].heard \in {"yes", "all"}
  BY <1>3, <1>4 DEF Answers, Line
<1>12. \A u \in Thread : ~Holds(u, r)'
  BY <1>3, <1>6
<1>13. ReqInv(r)'
  <2>1. req'[r].result = "approved" =>
           /\ req'[r].done /\ IsFree(r)'
           /\ ~Asks(r)' /\ req'[r].heard \in {"yes", "all"}
    BY <1>3, <1>7, <1>9, <1>10, <1>11
  <2>2. gate = "pipe" /\ ~req'[r].cancelled /\ req'[r].heard # "none"
          /\ Answers(r, req[r].heard)' # "none" =>
            req'[r].done /\ req'[r].result = Answers(r, req[r].heard)'
    BY <1>3, <1>7, <1>10 DEF ReqInv
  <2>3. producer'[r] = "grace" => req'[r].expired
    BY <1>3, <1>5, <1>7 DEF ReqInv
  <2> QED
    BY <1>3, <1>5, <1>7, <1>12, <2>1, <2>2, <2>3 DEF ReqInv, Thread
<1>14. Keeps(r)
  BY <1>3 DEF Keeps
<1>15. CountsFor(r)
  <2>1. gate = "pipe" => ~Reading(consumer)' /\ ~Reading(consumer)
    BY <1>1, <1>3, <1>6 DEF Reading, Serving
  <2> QED
    BY <1>7, <2>1, BrokerTypes DEF CountsFor, One
<1>16. RestOK'
  <2>1. job[r].manager \in Manager
    BY BrokerAssumption, BrokerTypes DEF RestOK
  <2>2. standing' \in [Manager -> SUBSET {"once", "all"}]
    BY <1>2, <2>1, BrokerTypes DEF Reply, RestOK
  <2> QED
    BY <1>5, <2>2, BrokerTypes DEF RestOK
<1>17. ~Asks(r) /\ reader[t].line = "all" => Heard(r, "all")' /\ IsFree(r)'
  BY <1>3, <1>7, <1>9, <1>10 DEF Heard
<1>18. BrokerInv' /\ \A q \in Request : Keeps(q)
  BY <1>3, <1>5, <1>6, <1>7, <1>8, <1>13, <1>14, <1>15, <1>16, BrokerTypes, BrokerStep
<1> QED
  BY <1>2, <1>17, <1>18

(***************************************************************************)
(* The rest: the user, the chat, and what is about no request.             *)
(***************************************************************************)

LEMMA AsideKeeps ==
  ASSUME BrokerInv, RestOK',
         UNCHANGED <<job, gate, waiters, queue, req, producer, reader>>
  PROVE  BrokerInv' /\ \A q \in Request : Keeps(q)
<1>1. /\ PlacesInv' /\ \A q : Queued(q)' <=> Queued(q)
      /\ \A q, u : Holds(u, q)' <=> Holds(u, q)
  BY BrokerTypes, SamePlaces
<1>2. \A q \in Request : Untouched(q)
  BY <1>1 DEF Untouched
<1>3. \A q \in Request : ReqInv(q)' /\ Keeps(q)
  BY <1>2, UntouchedKeeps DEF BrokerInv
<1>4. Reserved' = Reserved /\ (Reading(consumer)' <=> Reading(consumer))
  BY DEF Reserved, Reading
<1>5. WaitersInv'
  BY <1>4 DEF BrokerInv, WaitersInv, One
<1>6. BrokerTypeOK'
  BY BrokerTypes DEF BrokerTypeOK, RestOK
<1> QED
  BY <1>1, <1>3, <1>5, <1>6 DEF BrokerInv

LEMMA UserKeeps ==
  ASSUME BrokerInv, ChatReads \/ Mount \/ \E line \in Line : Write(line)
  PROVE  BrokerInv' /\ \A q \in Request : Keeps(q)
<1>1. lines # <<>> => Tail(lines) \in Seq(Line)
  BY BrokerTypes, HeadTailProperties DEF RestOK
<1>2. \A line \in Line : Append(lines, line) \in Seq(Line)
  BY BrokerTypes, AppendProperties DEF RestOK
<1>3. typed \in 0..MaxLines /\ MaxLines \in Nat
      /\ (typed < MaxLines => typed + 1 \in 0..MaxLines)
  BY BrokerTypes, BrokerAssumption DEF RestOK
<1>4. RestOK'
  BY <1>1, <1>2, <1>3, BrokerTypes DEF RestOK, ChatReads, Mount, Write
<1> QED
  BY <1>4, AsideKeeps DEF ChatReads, Mount, Write

\* No step of the broker grants more than was said: "all" is given to a
\* manager one of whose calls heard it.
StandingStep(m) ==
    /\ "all" \in standing'[m] => "all" \in standing[m] \/ AllSaid(m)'
    /\ "once" \in standing'[m] => "once" \in standing[m]

LEMMA ReplyStanding ==
  ASSUME BrokerInv, NEW t \in Thread, Reply(t), NEW m \in Manager
  PROVE  StandingStep(m)
<1>1. Serving(t)
  BY DEF Reply, Serving
<1>2. PICK r \in Request : r = reader[t].r
  BY <1>1, HeldRequest
<1>3. /\ job[r].manager \in Manager /\ job' = job
      /\ standing \in [Manager -> SUBSET {"once", "all"}]
  BY BrokerAssumption, BrokerTypes DEF RestOK, Reply
<1>4. ~Asks(r) /\ reader[t].line = "all" => Heard(r, "all")' /\ IsFree(r)'
  BY <1>2, ReplyKeeps
<1>5. ~Asks(r) /\ reader[t].line = "all" => AllSaid(job[r].manager)'
  BY <1>3, <1>4 DEF AllSaid
<1>6. standing' = IF ~Asks(r) /\ reader[t].line = "all"
                  THEN [standing EXCEPT ![job[r].manager] = {"all"}]
                  ELSE standing
  BY <1>2 DEF Reply
<1>7. CASE ~Asks(r) /\ reader[t].line = "all" /\ m = job[r].manager
  BY <1>3, <1>5, <1>6, <1>7 DEF StandingStep
<1>8. CASE ~(~Asks(r) /\ reader[t].line = "all" /\ m = job[r].manager)
  BY <1>3, <1>6, <1>8 DEF StandingStep
<1> QED
  BY <1>7, <1>8

\* Every step of the broker keeps its invariant, and takes back nothing.
LEMMA BrokerKeeps ==
  ASSUME BrokerInv,
         \/ Serve
         \/ Surroundings
         \/ \E r \in Request : Ask(r) \/ Refused(r) \/ Waits(r)
  PROVE  /\ BrokerInv' /\ job' = job
         /\ \A q \in Request : Keeps(q)
         /\ \A m \in Manager : StandingStep(m)
<1>1. CASE Serve
  <2>1. PICK t \in Thread : \/ Get(t) \/ Open(t) \/ ReadsNothing(t) \/ TakeLine(t)
                            \/ Reply(t) \/ ReadsAgain(t)
    BY <1>1 DEF Serve
  <2>2. CASE Get(t)
    <3>1. job' = job /\ standing' = standing
      BY <2>2 DEF Get
    <3> QED
      BY <2>2, <3>1, GetKeeps DEF StandingStep
  <2>3. CASE Open(t)
    <3>1. Serving(t) /\ job' = job /\ standing' = standing
      BY <2>3 DEF Open, Serving
    <3>2. CASE req[reader[t].r].cancelled
      BY <2>3, <3>1, <3>2, LetGoKeeps DEF StandingStep
    <3>3. CASE ~req[reader[t].r].cancelled
      <4>1. /\ reader[t].at = "got" /\ StartsReading(t, reader[t].r)
            /\ UNCHANGED <<job, gate, mounted, lines, typed, queue, req, producer, standing>>
        BY <2>3, <3>3 DEF Open
      <4> QED
        BY <3>1, <4>1, StartsReadingKeeps DEF StandingStep
    <3> QED
      BY <3>2, <3>3
  <2>4. CASE ReadsNothing(t)
    <3>1. Serving(t) /\ job' = job /\ standing' = standing
      BY <2>4 DEF ReadsNothing, Reading, Serving
    <3> QED
      BY <2>4, <3>1, LetGoKeeps DEF StandingStep
  <2>5. CASE TakeLine(t)
    <3>1. job' = job /\ standing' = standing
      BY <2>5 DEF TakeLine
    <3> QED
      BY <2>5, <3>1, TakeLineKeeps DEF StandingStep
  <2>6. CASE Reply(t)
    <3>1. job' = job
      BY <2>6 DEF Reply
    <3> QED
      BY <2>6, <3>1, ReplyKeeps, ReplyStanding
  <2>7. CASE ReadsAgain(t)
    <3>1. /\ Serving(t) /\ reader[t].at = "taken" /\ StartsReading(t, reader[t].r)
          /\ Answers(reader[t].r, reader[t].line) = "none"
          /\ UNCHANGED <<job, gate, mounted, lines, typed, queue, req, producer, standing>>
      BY <2>7 DEF ReadsAgain, Serving
    <3> QED
      BY <3>1, StartsReadingKeeps DEF StandingStep
  <2> QED
    BY <2>1, <2>2, <2>3, <2>4, <2>5, <2>6, <2>7
<1>2. CASE Surroundings
  <2>1. job' = job /\ standing' = standing
    BY <1>2 DEF Surroundings, Write, ChatReads, Mount, Cancel
  <2>2. CASE \E r \in Cancellable : Cancel(r)
    <3>1. PICK r \in Request : Cancel(r)
      BY <2>2, BrokerAssumption
    <3> QED
      BY <2>1, <3>1, CancelKeeps DEF StandingStep
  <2>3. CASE ChatReads \/ Mount \/ \E line \in Line : Write(line)
    BY <2>1, <2>3, UserKeeps DEF StandingStep
  <2> QED
    BY <1>2, <2>2, <2>3 DEF Surroundings
<1>3. CASE \E r \in Request : Ask(r) \/ Refused(r) \/ Waits(r)
  <2>1. PICK r \in Request : \/ Ask(r) \/ Refused(r) \/ Publish(r) \/ Answered(r)
                             \/ Gives(r) \/ TryExpire(r)
    BY <1>3 DEF Waits
  <2>2. job' = job /\ standing' = standing
    BY <2>1 DEF Ask, Refused, Publish, Answered, Gives, TryExpire
  <2> QED
    BY <2>1, <2>2, AskKeeps, ConcludingKeeps, PublishKeeps, AnsweredKeeps,
       TryExpireKeeps
    DEF StandingStep
<1> QED
  BY <1>1, <1>2, <1>3

(***************************************************************************)
(* What was granted.                                                       *)
(***************************************************************************)

LEMMA AllSaidStays ==
  ASSUME job' = job, \A q \in Request : Keeps(q), NEW m \in Manager, AllSaid(m)
  PROVE  AllSaid(m)'
<1>1. PICK d \in Request : job[d].manager = m /\ Heard(d, "all") /\ IsFree(d)
  BY DEF AllSaid
<1>2. Heard(d, "all")' /\ IsFree(d)'
  BY <1>1 DEF Keeps, Heard, Asks
<1> QED
  BY <1>1, <1>2 DEF AllSaid

\* A step that gives call c a ground pays for it.
Pays(c, m) ==
    /\ scope'[m] + One(c \in OnGround(m, "scope")')
         = scope[m] + One(c \in OnGround(m, "scope"))
    /\ used'[m] - One(c \in OnGround(m, "budget")')
         = used[m] - One(c \in OnGround(m, "budget"))

LEMMA CallTypes ==
  ASSUME ApprovalTypeOK, NEW c \in Request
  PROVE  /\ call \in [Request -> CallRow] /\ call[c] \in CallRow
         /\ prompting \in [Manager -> Request \cup {Nobody}]
         /\ scope \in [Manager -> 0..ScopeUses] /\ used \in [Manager -> 0..Budget]
         /\ standing \in [Manager -> SUBSET {"once", "all"}]
         /\ job[c].manager \in Manager /\ job[c].tool \in Tool
         /\ ScopeUses \in Nat /\ Budget \in Nat
BY BrokerAssumption, ApprovalAssumption DEF ApprovalTypeOK, BrokerTypeOK

LEMMA OnGroundMoves ==
  ASSUME job' = job, NEW c \in Request, NEW m, NEW g,
         \A d \in Request \ {c} : call'[d].ground = call[d].ground
  PROVE  /\ OnGround(m, g) \in SUBSET Request /\ OnGround(m, g)' \in SUBSET Request
         /\ \A d \in Request \ {c} : d \in OnGround(m, g)' <=> d \in OnGround(m, g)
         /\ c \in OnGround(m, g)' <=> job[c].manager = m /\ call'[c].ground = g
         /\ c \in OnGround(m, g) <=> job[c].manager = m /\ call[c].ground = g
BY DEF OnGround

LEMMA UsesStep ==
  ASSUME ApprovalTypeOK, job' = job, NEW c \in Request, NEW m \in Manager,
         scope'[m] \in Nat, used'[m] \in Nat,
         \A d \in Request \ {c} : call'[d].ground = call[d].ground,
         UsesInv(m), Pays(c, m)
  PROVE  UsesInv(m)'
<1>1. scope[m] \in Nat /\ used[m] \in Nat /\ ScopeUses \in Nat
  BY ApprovalAssumption DEF ApprovalTypeOK
<1> DEFINE n(g) == Cardinality(OnGround(m, g))
           k(g) == Cardinality(OnGround(m, g)')
           was(g) == One(c \in OnGround(m, g))
           is(g) == One(c \in OnGround(m, g)')
<1>2. ASSUME NEW g PROVE n(g) \in Nat /\ k(g) \in Nat /\ k(g) + was(g) = n(g) + is(g)
  BY OnGroundMoves, CountMoves
<1>3. ASSUME NEW g PROVE was(g) \in Nat /\ is(g) \in Nat
  BY DEF One
<1>4. /\ n("scope") + scope[m] <= ScopeUses /\ n("budget") = used[m]
      /\ scope'[m] + is("scope") = scope[m] + was("scope")
      /\ used'[m] - is("budget") = used[m] - was("budget")
  BY DEF UsesInv, Pays
<1>5. /\ n("scope") \in Nat /\ k("scope") \in Nat
      /\ k("scope") + was("scope") = n("scope") + is("scope")
      /\ n("budget") \in Nat /\ k("budget") \in Nat
      /\ k("budget") + was("budget") = n("budget") + is("budget")
      /\ was("scope") \in Nat /\ is("scope") \in Nat
      /\ was("budget") \in Nat /\ is("budget") \in Nat
  BY <1>2, <1>3
<1>6. k("scope") + scope'[m] <= ScopeUses /\ k("budget") = used'[m]
  <2> HIDE DEF n, k, was, is
  <2> QED
    BY <1>1, <1>4, <1>5
<1> QED
  BY <1>6 DEF UsesInv

\* A step of call c keeps every count when what it took is paid for.
LEMMA GrantStep ==
  ASSUME ApprovalTypeOK, GrantInv, NEW c \in Request,
         job' = job, \A q \in Request : Keeps(q),
         call' \in [Request -> CallRow],
         \A d \in Request \ {c} : call'[d] = call[d],
         GroundInv(c)',
         scope' \in [Manager -> 0..ScopeUses], used' \in [Manager -> 0..Budget],
         \A m \in Manager : Pays(c, m),
         call'[c].ground = "all" =>
             call[c].ground = "all" \/ "all" \in standing[job[c].manager],
         \A m \in Manager : StandingStep(m),
         grants' \in [approve : Nat, cycle : Nat],
         One(call'[c].ground = "once") + One("once" \in standing'[Chat]) - grants'.approve
           <= One(call[c].ground = "once") + One("once" \in standing[Chat]) - grants.approve
  PROVE  GrantInv'
<1>1. \A d \in Request : GroundInv(d)'
  <2>1. \A d \in Request \ {c} : GroundInv(d)'
    BY DEF GrantInv, GroundInv, Keeps
  <2> QED
    BY <2>1
<1>2. ASSUME NEW m \in Manager PROVE StandingInv(m)'
  <2>1. AllSaid(m) => AllSaid(m)'
    BY AllSaidStays
  <2>2. OnGround(m, "all")' # {} =>
          OnGround(m, "all") # {} \/ "all" \in standing[m]
    BY OnGroundMoves
  <2>3. StandingInv(m) /\ StandingStep(m)
    BY DEF GrantInv
  <2> QED
    BY <2>1, <2>2, <2>3 DEF StandingInv, StandingStep
<1>3. ASSUME NEW m \in Manager PROVE UsesInv(m)'
  <2>1. scope'[m] \in Nat /\ used'[m] \in Nat /\ UsesInv(m)
    BY ApprovalAssumption DEF GrantInv
  <2> QED
    BY <2>1, UsesStep
<1>4. OnceInv'
  <2> DEFINE n == Cardinality(OnceUsed)
             k == Cardinality(OnceUsed')
             was == One(c \in OnceUsed)
             is == One(c \in OnceUsed')
             has == One("once" \in standing[Chat])
             left == One("once" \in standing'[Chat])
  <2>1. /\ OnceUsed \in SUBSET Request /\ OnceUsed' \in SUBSET Request
        /\ \A d \in Request \ {c} : d \in OnceUsed' <=> d \in OnceUsed
        /\ c \in OnceUsed <=> call[c].ground = "once"
        /\ c \in OnceUsed' <=> call'[c].ground = "once"
    BY DEF OnceUsed
  <2>2. n \in Nat /\ k \in Nat /\ k + was = n + is
    BY <2>1, CountMoves
  <2>3. was = One(call[c].ground = "once") /\ is = One(call'[c].ground = "once")
    BY <2>1 DEF One
  <2>4. was \in Nat /\ is \in Nat /\ has \in Nat /\ left \in Nat
    BY DEF One
  <2>5. n + has <= grants.approve /\ grants.approve \in Nat /\ grants'.approve \in Nat
    BY DEF GrantInv, OnceInv
  <2>6. is + left - grants'.approve <= was + has - grants.approve
    BY <2>3
  <2>7. k + left <= grants'.approve
    <3> HIDE DEF n, k, was, is, has, left
    <3> QED
      BY <2>2, <2>4, <2>5, <2>6
  <2> QED
    BY <2>7 DEF OnceInv
<1> QED
  BY <1>1, <1>2, <1>3, <1>4 DEF GrantInv

\* A step that no call takes: the grounds and the uses stay as they are.
LEMMA GrantAside ==
  ASSUME GrantInv, job' = job, \A q \in Request : Keeps(q),
         UNCHANGED <<call, scope, used>>,
         \A m \in Manager : /\ "all" \in standing'[m] => "all" \in standing[m] \/ AllSaid(m)'
                            /\ "once" \in standing'[m] => "once" \in standing[m] \/ m = Chat,
         grants' \in [approve : Nat, cycle : Nat],
         One("once" \in standing'[Chat]) - grants'.approve
           <= One("once" \in standing[Chat]) - grants.approve
  PROVE  GrantInv'
<1>1. \A d \in Request : GroundInv(d)'
  BY DEF GrantInv, GroundInv, Keeps
<1>2. \A m, g : OnGround(m, g)' = OnGround(m, g)
  BY DEF OnGround
<1>3. ASSUME NEW m \in Manager PROVE StandingInv(m)' /\ UsesInv(m)'
  <2>1. AllSaid(m) => AllSaid(m)'
    BY AllSaidStays
  <2> QED
    BY <1>2, <2>1 DEF GrantInv, StandingInv, UsesInv
<1>4. OnceInv'
  <2> DEFINE has == One("once" \in standing[Chat])
             left == One("once" \in standing'[Chat])
             n == Cardinality(OnceUsed)
  <2>1. OnceUsed' = OnceUsed /\ OnceUsed \in SUBSET Request
    BY DEF OnceUsed
  <2>2. n \in Nat
    BY <2>1, BrokerAssumption, FS_Subset, FS_CardinalityType
  <2>3. has \in Nat /\ left \in Nat
    BY DEF One
  <2>4. n + has <= grants.approve /\ grants.approve \in Nat /\ grants'.approve \in Nat
    BY DEF GrantInv, OnceInv
  <2>5. left - grants'.approve <= has - grants.approve
    OBVIOUS
  <2>6. n + left <= grants'.approve
    <3> HIDE DEF n, has, left
    <3> QED
      BY <2>2, <2>3, <2>4, <2>5
  <2> QED
    BY <2>1, <2>6 DEF OnceInv
<1> QED
  BY <1>1, <1>3, <1>4 DEF GrantInv

(***************************************************************************)
(* The actions of the calls.                                               *)
(***************************************************************************)

LEMMA BecomesFacts ==
  ASSUME call \in [Request -> CallRow], NEW c \in Request,
         NEW at \in {"new", "prompt", "asked", "guard", "running", "ended"},
         NEW ground \in {"none", "denied", "scope", "reads", "budget", "all", "once", "user"},
         Becomes(c, at, ground)
  PROVE  /\ call' \in [Request -> CallRow]
         /\ call'[c].at = at /\ call'[c].ground = ground /\ call'[c].held = call[c].held
         /\ \A d \in Request \ {c} : call'[d] = call[d]
BY DEF Becomes, CallRow

\* Nothing of the broker changes.
LEMMA BrokerAside ==
  ASSUME BrokerInv, UNCHANGED brokerVars
  PROVE  /\ BrokerInv' /\ job' = job
         /\ \A q \in Request : Keeps(q)
         /\ \A m \in Manager : StandingStep(m)
<1>1. /\ UNCHANGED <<job, gate, waiters, queue, req, producer, reader>>
      /\ standing' = standing
  BY DEF brokerVars
<1>2. RestOK'
  BY BrokerTypes DEF RestOK, brokerVars
<1> QED
  BY <1>1, <1>2, AsideKeeps DEF StandingStep

LEMMA LocksStay ==
  ASSUME LockInv, job' = job,
         \A d \in Request : /\ call'[d].held = call[d].held
                            /\ call'[d].at = "running" => call[d].at = "running"
  PROVE  LockInv'
BY DEF LockInv, HeldInv, Keys

\* A call that gets no ground has nothing to pay.
LEMMA PaysNothing ==
  ASSUME ApprovalTypeOK, job' = job, NEW c \in Request, NEW m \in Manager,
         scope'[m] = scope[m], used'[m] = used[m],
         call[c].ground \notin {"scope", "budget"},
         call'[c].ground \notin {"scope", "budget"}
  PROVE  Pays(c, m)
<1>1. scope[m] \in Nat /\ used[m] \in Nat
  BY ApprovalAssumption DEF ApprovalTypeOK
<1>2. /\ c \notin OnGround(m, "scope") /\ c \notin OnGround(m, "budget")
      /\ c \notin OnGround(m, "scope")' /\ c \notin OnGround(m, "budget")'
  BY DEF OnGround
<1> QED
  BY <1>1, <1>2 DEF Pays, One

LEMMA AutoApproveKeeps ==
  ASSUME IndInv, NEW c \in Request, AutoApprove(c)
  PROVE  IndInv'
<1>1. /\ ApprovalTypeOK /\ GrantInv /\ call[c].at = "new" /\ call[c].ground = "none"
      /\ UNCHANGED <<brokerVars, prompting, grants>>
  BY DEF IndInv, GrantInv, GroundInv, AutoApprove
<1>2. /\ BrokerInv' /\ job' = job /\ \A q \in Request : Keeps(q)
      /\ \A m \in Manager : StandingStep(m)
  BY <1>1, BrokerAside DEF IndInv
<1>3. PICK ground \in {"scope", "reads", "budget"} :
        /\ Becomes(c, "guard", ground)
        /\ scope' = IF ground = "scope"
                    THEN [scope EXCEPT ![job[c].manager] = @ - 1] ELSE scope
        /\ used' = IF ground = "budget"
                   THEN [used EXCEPT ![job[c].manager] = @ + 1] ELSE used
        /\ ground = "scope" => InScope(c)
        /\ ground = "budget" => InBudget(c)
  BY DEF AutoApprove
<1>4. /\ call' \in [Request -> CallRow]
      /\ call'[c].at = "guard" /\ call'[c].ground = ground /\ call'[c].held = call[c].held
      /\ \A d \in Request \ {c} : call'[d] = call[d]
  BY <1>1, <1>3, BecomesFacts, CallTypes
<1>5. /\ scope' \in [Manager -> 0..ScopeUses] /\ used' \in [Manager -> 0..Budget]
  <2>1. ground = "scope" => scope[job[c].manager] - 1 \in 0..ScopeUses
    BY <1>1, <1>3, CallTypes DEF InScope
  <2>2. ground = "budget" => used[job[c].manager] + 1 \in 0..Budget
    BY <1>1, <1>3, CallTypes DEF InBudget
  <2> QED
    BY <1>1, <1>3, <2>1, <2>2, CallTypes
<1>6. ASSUME NEW m \in Manager PROVE Pays(c, m)
  <2>1. /\ c \notin OnGround(m, "scope") /\ c \notin OnGround(m, "budget")
        /\ c \in OnGround(m, "scope")' <=> job[c].manager = m /\ ground = "scope"
        /\ c \in OnGround(m, "budget")' <=> job[c].manager = m /\ ground = "budget"
    BY <1>1, <1>2, <1>4 DEF OnGround
  <2>2. /\ scope[m] \in Nat /\ used[m] \in Nat
        /\ scope'[m] = IF job[c].manager = m /\ ground = "scope" THEN scope[m] - 1 ELSE scope[m]
        /\ used'[m] = IF job[c].manager = m /\ ground = "budget" THEN used[m] + 1 ELSE used[m]
    BY <1>1, <1>3, CallTypes
  <2> QED
    BY <2>1, <2>2 DEF Pays, One
<1>7. GrantInv'
  <2>1. GroundInv(c)'
    BY <1>4 DEF GroundInv
  <2>2. /\ One(call'[c].ground = "once") = One(call[c].ground = "once")
        /\ One("once" \in standing'[Chat]) = One("once" \in standing[Chat])
        /\ grants' = grants
    BY <1>1, <1>4 DEF One, brokerVars
  <2>3. /\ grants \in [approve : Nat, cycle : Nat]
        /\ One(call[c].ground = "once") \in Nat /\ One("once" \in standing[Chat]) \in Nat
    BY <1>1 DEF GrantInv, One
  <2>4. call'[c].ground # "all"
    BY <1>4
  <2> QED
    BY <1>1, <1>2, <1>4, <1>5, <1>6, <2>1, <2>2, <2>3, <2>4, GrantStep
<1>8. LockInv'
  BY <1>2, <1>4, LocksStay DEF IndInv
<1>9. ApprovalTypeOK'
  BY <1>1, <1>2, <1>4, <1>5, CallTypes DEF ApprovalTypeOK, BrokerInv
<1> QED
  BY <1>2, <1>7, <1>8, <1>9 DEF IndInv

\* The ground of a call stays, and so do the uses of its manager.
LEMMA PlainStep ==
  ASSUME IndInv, BrokerInv', job' = job, \A q \in Request : Keeps(q),
         \A m \in Manager : StandingStep(m),
         NEW c \in Request, call' \in [Request -> CallRow],
         \A d \in Request \ {c} : call'[d] = call[d],
         call'[c].ground = call[c].ground,
         call'[c].at \in {"new", "prompt", "asked"} => call[c].ground = "none",
         UNCHANGED <<scope, used, grants>>, LockInv',
         prompting' \in [Manager -> Request \cup {Nobody}]
  PROVE  IndInv'
<1>1. ApprovalTypeOK /\ GrantInv
  BY DEF IndInv
<1>2. \A m \in Manager : Pays(c, m)
  BY OnGroundMoves DEF Pays, OnGround
<1>3. GroundInv(c)'
  BY <1>1 DEF GrantInv, GroundInv, Keeps
<1>4. /\ One(call'[c].ground = "once") = One(call[c].ground = "once")
      /\ One(call[c].ground = "once") \in Nat
      /\ One("once" \in standing[Chat]) \in Nat /\ One("once" \in standing'[Chat]) \in Nat
      /\ One("once" \in standing'[Chat]) <= One("once" \in standing[Chat])
      /\ grants' = grants /\ grants \in [approve : Nat, cycle : Nat]
  BY <1>1, ApprovalAssumption DEF One, GrantInv, StandingStep
<1>5. GrantInv'
  <2>1. /\ scope' \in [Manager -> 0..ScopeUses] /\ used' \in [Manager -> 0..Budget]
        /\ grants' \in [approve : Nat, cycle : Nat]
    BY <1>1, <1>4 DEF ApprovalTypeOK
  <2>2. call'[c].ground = "all" => call[c].ground = "all"
    OBVIOUS
  <2>3. One(call'[c].ground = "once") + One("once" \in standing'[Chat]) - grants'.approve
          <= One(call[c].ground = "once") + One("once" \in standing[Chat]) - grants.approve
    BY <1>4
  <2> QED
    BY <1>1, <1>2, <1>3, <2>1, <2>2, <2>3, GrantStep
<1>6. ApprovalTypeOK'
  BY <1>1 DEF ApprovalTypeOK, BrokerInv
<1> QED
  BY <1>5, <1>6 DEF IndInv

\* A step that is no call's.
LEMMA CallsAside ==
  ASSUME IndInv, BrokerInv', job' = job, \A q \in Request : Keeps(q),
         \A m \in Manager : StandingStep(m), UNCHANGED approvalVars
  PROVE  IndInv'
<1>1. ApprovalTypeOK /\ GrantInv /\ UNCHANGED <<call, prompting, scope, used, grants>>
  BY DEF IndInv, approvalVars
<1>2. /\ One("once" \in standing[Chat]) \in Nat /\ One("once" \in standing'[Chat]) \in Nat
      /\ One("once" \in standing'[Chat]) <= One("once" \in standing[Chat])
      /\ grants' = grants /\ grants \in [approve : Nat, cycle : Nat]
  BY <1>1, ApprovalAssumption DEF One, GrantInv, StandingStep
<1>3. GrantInv'
  <2>1. One("once" \in standing'[Chat]) - grants'.approve
          <= One("once" \in standing[Chat]) - grants.approve
    BY <1>2
  <2> QED
    BY <1>1, <1>2, <2>1, GrantAside DEF StandingStep
<1>4. LockInv'
  BY <1>1, LocksStay DEF IndInv
<1>5. ApprovalTypeOK'
  BY <1>1 DEF ApprovalTypeOK, BrokerInv
<1> QED
  BY <1>3, <1>4, <1>5 DEF IndInv

LEMMA NeedsPromptKeeps ==
  ASSUME IndInv, NEW c \in Request, NeedsPrompt(c)
  PROVE  IndInv'
<1>1. /\ ApprovalTypeOK /\ call[c].at = "new" /\ call[c].ground = "none"
      /\ Becomes(c, "prompt", "none")
      /\ UNCHANGED <<brokerVars, prompting, scope, used, grants>>
  BY DEF IndInv, GrantInv, GroundInv, NeedsPrompt
<1>2. /\ BrokerInv' /\ job' = job /\ \A q \in Request : Keeps(q)
      /\ \A m \in Manager : StandingStep(m)
  BY <1>1, BrokerAside DEF IndInv
<1>3. /\ call' \in [Request -> CallRow]
      /\ call'[c].at = "prompt" /\ call'[c].ground = "none" /\ call'[c].held = call[c].held
      /\ \A d \in Request \ {c} : call'[d] = call[d]
  BY <1>1, BecomesFacts, CallTypes
<1>4. LockInv'
  BY <1>2, <1>3, LocksStay DEF IndInv
<1> QED
  BY <1>1, <1>2, <1>3, <1>4, CallTypes, PlainStep

LEMMA LocalApprovalKeeps ==
  ASSUME IndInv, NEW c \in Request, LocalApproval(c)
  PROVE  IndInv'
<1>1. /\ BrokerInv /\ ApprovalTypeOK /\ GrantInv
      /\ call[c].at = "prompt" /\ call[c].ground = "none"
      /\ UNCHANGED <<job, gate, mounted, active, lines, typed, waiters, queue, req, producer,
                     reader, prompting, scope, used, grants>>
  BY DEF IndInv, GrantInv, GroundInv, LocalApproval
<1>2. PICK ground \in {"all", "once"} :
        /\ Becomes(c, "guard", ground)
        /\ ground = "all" => "all" \in standing[job[c].manager] /\ standing' = standing
        /\ ground = "once" => /\ standing[job[c].manager] = {"once"}
                              /\ standing' = [standing EXCEPT ![job[c].manager] = {}]
  BY DEF LocalApproval
<1>3. \A m \in Manager : StandingStep(m)
  BY <1>1, <1>2, CallTypes DEF StandingStep
<1>4. RestOK'
  BY <1>1, <1>2, CallTypes, BrokerTypes DEF RestOK
<1>5. BrokerInv' /\ job' = job /\ \A q \in Request : Keeps(q)
  BY <1>1, <1>4, AsideKeeps
<1>6. /\ call' \in [Request -> CallRow]
      /\ call'[c].at = "guard" /\ call'[c].ground = ground /\ call'[c].held = call[c].held
      /\ \A d \in Request \ {c} : call'[d] = call[d]
  BY <1>1, <1>2, BecomesFacts, CallTypes
<1>7. GrantInv'
  <2>1. GroundInv(c)'
    BY <1>6 DEF GroundInv
  <2>2. \A m \in Manager : Pays(c, m)
    BY <1>1, <1>6, PaysNothing
  <2>3. grants' \in [approve : Nat, cycle : Nat] /\ grants' = grants /\ grants.approve \in Nat
    BY <1>1 DEF GrantInv
  <2>4. One(call'[c].ground = "once") + One("once" \in standing'[Chat])
          <= One(call[c].ground = "once") + One("once" \in standing[Chat])
    <3>1. CASE ground = "all"
      BY <1>1, <1>2, <1>6, <3>1 DEF One
    <3>2. CASE ground = "once"
      <4>1. job[c].manager \in Manager /\ standing \in [Manager -> SUBSET {"once", "all"}]
        BY <1>1, CallTypes
      <4>2. job[c].manager = Chat
        BY <1>1, <1>2, <3>2, <4>1 DEF GrantInv, StandingInv
      <4>3. "once" \in standing[Chat] /\ "once" \notin standing'[Chat]
        BY <1>2, <3>2, <4>1, <4>2
      <4> QED
        BY <1>1, <1>6, <3>2, <4>3 DEF One
    <3> QED
      BY <3>1, <3>2
  <2>5. /\ One(call'[c].ground = "once") \in Nat /\ One(call[c].ground = "once") \in Nat
        /\ One("once" \in standing[Chat]) \in Nat /\ One("once" \in standing'[Chat]) \in Nat
    BY DEF One
  <2>6. One(call'[c].ground = "once") + One("once" \in standing'[Chat]) - grants'.approve
          <= One(call[c].ground = "once") + One("once" \in standing[Chat]) - grants.approve
    BY <2>3, <2>4, <2>5
  <2>7. /\ scope' \in [Manager -> 0..ScopeUses] /\ used' \in [Manager -> 0..Budget]
        /\ call'[c].ground = "all" => "all" \in standing[job[c].manager]
    BY <1>1, <1>2, <1>6, CallTypes
  <2> QED
    BY <1>1, <1>3, <1>5, <1>6, <2>1, <2>2, <2>3, <2>6, <2>7, GrantStep
<1>8. LockInv'
  BY <1>1, <1>6, LocksStay DEF IndInv
<1>9. ApprovalTypeOK'
  BY <1>1, <1>5, <1>6, CallTypes DEF ApprovalTypeOK, BrokerInv
<1> QED
  BY <1>5, <1>7, <1>8, <1>9 DEF IndInv

LEMMA AskUserKeeps ==
  ASSUME IndInv, NEW c \in Request, AskUser(c)
  PROVE  IndInv'
<1>1. /\ ApprovalTypeOK /\ call[c].at = "prompt" /\ call[c].ground = "none"
      /\ Becomes(c, "asked", "none") /\ (Refused(c) \/ Ask(c))
      /\ prompting' = [prompting EXCEPT ![job[c].manager] = c]
      /\ UNCHANGED <<scope, used, grants>>
  BY DEF IndInv, GrantInv, GroundInv, AskUser
<1>2. /\ BrokerInv' /\ job' = job /\ \A q \in Request : Keeps(q)
      /\ \A m \in Manager : StandingStep(m)
  BY <1>1, BrokerKeeps DEF IndInv
<1>3. /\ call' \in [Request -> CallRow]
      /\ call'[c].at = "asked" /\ call'[c].ground = "none" /\ call'[c].held = call[c].held
      /\ \A d \in Request \ {c} : call'[d] = call[d]
  BY <1>1, BecomesFacts, CallTypes
<1>4. prompting' \in [Manager -> Request \cup {Nobody}]
  BY <1>1, CallTypes
<1>5. LockInv'
  BY <1>2, <1>3, LocksStay DEF IndInv
<1> QED
  BY <1>1, <1>2, <1>3, <1>4, <1>5, PlainStep

LEMMA DecidedKeeps ==
  ASSUME IndInv, NEW c \in Request, Decided(c)
  PROVE  IndInv'
<1>1. /\ ApprovalTypeOK /\ GrantInv /\ call[c].at = "asked" /\ call[c].ground = "none"
      /\ prompting' = [prompting EXCEPT ![job[c].manager] = Nobody]
      /\ UNCHANGED <<brokerVars, scope, used, grants>>
  BY DEF IndInv, GrantInv, GroundInv, Decided
<1>2. PICK ground \in {"user", "denied"} :
        /\ \E at \in {"guard", "ended"} : Becomes(c, at, ground)
        /\ ground = "user" => req[c].result = "approved"
  BY DEF Decided
<1>3. /\ BrokerInv' /\ job' = job /\ \A q \in Request : Keeps(q)
      /\ \A m \in Manager : StandingStep(m)
  BY <1>1, BrokerAside DEF IndInv
<1>4. /\ call' \in [Request -> CallRow]
      /\ call'[c].at \in {"guard", "ended"} /\ call'[c].ground = ground
      /\ call'[c].held = call[c].held
      /\ \A d \in Request \ {c} : call'[d] = call[d]
  BY <1>1, <1>2, BecomesFacts, CallTypes
<1>5. GrantInv'
  <2>1. GroundInv(c)'
    BY <1>2, <1>3, <1>4 DEF GroundInv, Keeps
  <2>2. \A m \in Manager : Pays(c, m)
    BY <1>1, <1>3, <1>4, PaysNothing
  <2>3. /\ One(call'[c].ground = "once") = One(call[c].ground = "once")
        /\ One("once" \in standing'[Chat]) = One("once" \in standing[Chat])
        /\ grants' = grants /\ grants \in [approve : Nat, cycle : Nat]
        /\ One(call[c].ground = "once") \in Nat /\ One("once" \in standing[Chat]) \in Nat
    BY <1>1, <1>4 DEF One, brokerVars, GrantInv
  <2>4. One(call'[c].ground = "once") + One("once" \in standing'[Chat]) - grants'.approve
          <= One(call[c].ground = "once") + One("once" \in standing[Chat]) - grants.approve
    BY <2>3
  <2>5. scope' \in [Manager -> 0..ScopeUses] /\ used' \in [Manager -> 0..Budget]
    BY <1>1, CallTypes
  <2>6. call'[c].ground # "all"
    BY <1>4
  <2> QED
    BY <1>1, <1>3, <1>4, <2>1, <2>2, <2>3, <2>4, <2>5, <2>6, GrantStep
<1>6. LockInv'
  BY <1>3, <1>4, LocksStay DEF IndInv
<1>7. prompting' \in [Manager -> Request \cup {Nobody}]
  BY <1>1, CallTypes
<1>8. ApprovalTypeOK'
  BY <1>1, <1>3, <1>4, <1>7, CallTypes DEF ApprovalTypeOK, BrokerInv
<1> QED
  BY <1>3, <1>5, <1>6, <1>8 DEF IndInv

LEMMA LockKeeps ==
  ASSUME IndInv, NEW c \in Request, Lock(c)
  PROVE  IndInv'
<1>1. /\ ApprovalTypeOK /\ call[c].at = "guard" /\ LockInv
      /\ UNCHANGED <<brokerVars, prompting, scope, used, grants>>
  BY DEF IndInv, Lock
<1>2. /\ BrokerInv' /\ job' = job /\ \A q \in Request : Keeps(q)
      /\ \A m \in Manager : StandingStep(m)
  BY <1>1, BrokerAside DEF IndInv
<1>3. PICK key \in Range(Keys(c)) :
        /\ ~IsLocked(job[c].manager, key)
        /\ call' = [call EXCEPT ![c].held = @ \cup {key}]
  BY DEF Lock
<1>4. key \in Nat
  <2>1. Keys(c) \in Seq(Nat)
    BY <1>1, CallTypes, ApprovalAssumption DEF Keys
  <2> QED
    BY <1>3, <2>1 DEF Range
<1>5. /\ call' \in [Request -> CallRow]
      /\ call'[c].at = "guard" /\ call'[c].ground = call[c].ground
      /\ call'[c].held = call[c].held \cup {key}
      /\ \A d \in Request \ {c} : call'[d] = call[d]
  BY <1>1, <1>3, <1>4, CallTypes DEF CallRow
<1>6. LockInv'
  <2>1. \A d \in Request : Keys(d)' = Keys(d)
    BY <1>2 DEF Keys
  <2>2. \A d \in Request : HeldInv(d)'
    BY <1>1, <1>3, <1>5, <2>1 DEF LockInv, HeldInv
  <2>3. \A d \in Request : job[d].manager = job[c].manager => key \notin call[d].held
    BY <1>3 DEF IsLocked
  <2>4. \A d, e \in Request : d # e /\ job'[d].manager = job'[e].manager =>
            call'[d].held \cap call'[e].held = {}
    BY <1>1, <1>2, <1>5, <2>3 DEF LockInv
  <2> QED
    BY <2>2, <2>4 DEF LockInv
<1> QED
  BY <1>1, <1>2, <1>5, <1>6, CallTypes, PlainStep

LEMMA EnterKeeps ==
  ASSUME IndInv, NEW c \in Request, Enter(c)
  PROVE  IndInv'
<1>1. /\ ApprovalTypeOK /\ call[c].at = "guard" /\ LockInv
      /\ call' = [call EXCEPT ![c].at = "running"]
      /\ UNCHANGED <<brokerVars, prompting, scope, used, grants>>
  BY DEF IndInv, Enter
<1>2. /\ BrokerInv' /\ job' = job /\ \A q \in Request : Keeps(q)
      /\ \A m \in Manager : StandingStep(m)
  BY <1>1, BrokerAside DEF IndInv
<1>3. /\ call' \in [Request -> CallRow]
      /\ call'[c].at = "running" /\ call'[c].ground = call[c].ground
      /\ call'[c].held = call[c].held
      /\ \A d \in Request \ {c} : call'[d] = call[d]
  BY <1>1, CallTypes DEF CallRow
<1>4. call[c].held = Range(Keys(c))
  BY <1>1 DEF Enter, Wanted, LockInv, HeldInv
<1>5. LockInv'
  BY <1>1, <1>2, <1>3, <1>4 DEF LockInv, HeldInv, Keys
<1> QED
  BY <1>1, <1>2, <1>3, <1>5, CallTypes, PlainStep

LEMMA LeaveKeeps ==
  ASSUME IndInv, NEW c \in Request, Leave(c)
  PROVE  IndInv'
<1>1. /\ ApprovalTypeOK /\ LockInv
      /\ call' = [call EXCEPT ![c].at = "ended", ![c].held = {}]
      /\ UNCHANGED <<brokerVars, prompting, scope, used, grants>>
  BY DEF IndInv, Leave
<1>2. /\ BrokerInv' /\ job' = job /\ \A q \in Request : Keeps(q)
      /\ \A m \in Manager : StandingStep(m)
  BY <1>1, BrokerAside DEF IndInv
<1>3. /\ call' \in [Request -> CallRow]
      /\ call'[c].at = "ended" /\ call'[c].ground = call[c].ground /\ call'[c].held = {}
      /\ \A d \in Request \ {c} : call'[d] = call[d]
  BY <1>1, CallTypes DEF CallRow
<1>4. LockInv'
  BY <1>1, <1>2, <1>3 DEF LockInv, HeldInv, Keys
<1> QED
  BY <1>1, <1>2, <1>3, <1>4, CallTypes, PlainStep

\* The commands of the user change what stands, and are counted.
LEMMA CommandKeeps ==
  ASSUME IndInv, PreApprove \/ \E m \in Manager : CycleEnds(m)
  PROVE  IndInv'
<1>1. /\ BrokerInv /\ ApprovalTypeOK /\ GrantInv
      /\ UNCHANGED <<job, gate, mounted, active, lines, typed, waiters, queue, req, producer,
                     reader, call, prompting, scope, used>>
  BY DEF IndInv, PreApprove, CycleEnds
<1>2. /\ standing \in [Manager -> SUBSET {"once", "all"}] /\ Chat \in Manager
      /\ grants \in [approve : Nat, cycle : Nat]
  BY <1>1, ApprovalAssumption DEF ApprovalTypeOK, BrokerTypeOK, GrantInv
<1>3. /\ standing' \in [Manager -> SUBSET {"once", "all"}]
      /\ \A m \in Manager : /\ "all" \in standing'[m] => "all" \in standing[m]
                            /\ "once" \in standing'[m] => "once" \in standing[m] \/ m = Chat
      /\ grants' \in [approve : Nat, cycle : Nat]
      /\ \/ grants'.approve = grants.approve + 1
         \/ grants'.approve = grants.approve
            /\ ("once" \in standing'[Chat] => "once" \in standing[Chat])
  <2>1. CASE PreApprove
    BY <1>2, <2>1 DEF PreApprove
  <2>2. CASE \E m \in Manager : CycleEnds(m)
    BY <1>2, <2>2 DEF CycleEnds
  <2> QED
    BY <2>1, <2>2
<1>4. RestOK'
  BY <1>1, <1>3, BrokerTypes DEF RestOK
<1>5. BrokerInv' /\ \A q \in Request : Keeps(q)
  BY <1>1, <1>4, AsideKeeps
<1>6. One("once" \in standing'[Chat]) - grants'.approve
        <= One("once" \in standing[Chat]) - grants.approve
  BY <1>2, <1>3 DEF One
<1>7. GrantInv'
  BY <1>1, <1>3, <1>5, <1>6, GrantAside
<1>8. LockInv'
  BY <1>1, LocksStay DEF IndInv
<1>9. ApprovalTypeOK'
  BY <1>1, <1>5 DEF ApprovalTypeOK, BrokerInv
<1> QED
  BY <1>5, <1>7, <1>8, <1>9 DEF IndInv

(***************************************************************************)
(* The theorems.                                                           *)
(***************************************************************************)

LEMMA InitEstablishes ==
  ASSUME Init
  PROVE  IndInv
<1> USE DEF Init
<1>1. BrokerInit
  OBVIOUS
<1>2. /\ req = [r \in Request |-> NewRequest] /\ queue = <<>> /\ waiters = 0
      /\ producer = [r \in Request |-> "idle"] /\ reader = [t \in Thread |-> IdleReader]
      /\ standing = [m \in Manager |-> {}] /\ job \in Jobs /\ gate \in Gate
      /\ mounted = FALSE /\ active = FALSE /\ lines = <<>> /\ typed = 0
  BY <1>1 DEF BrokerInit
<1>3. NewRequest \in InputRequest
  BY DEF NewRequest, InputRequest
<1>4. BrokerTypeOK
  <2>1. lines \in Seq(Line) /\ queue \in Seq(Request)
    BY <1>2, EmptySeq
  <2>2. typed \in 0..MaxLines /\ waiters \in Nat
    BY <1>2, BrokerAssumption
  <2>3. req \in [Request -> InputRequest]
    BY <1>2, <1>3
  <2>4. /\ producer \in [Request ->
              {"idle", "asking", "waiting", "grace", "late", "returned"}]
        /\ standing \in [Manager -> SUBSET {"once", "all"}]
    BY <1>2
  <2> QED
    BY <1>2, <2>1, <2>2, <2>3, <2>4 DEF BrokerTypeOK
<1>5. (\A t \in Thread : \A r : ~Holds(t, r)) /\ \A r : ~Queued(r)
  BY <1>2 DEF Holds, IdleReader, Queued, InSeq
<1>6. PlacesInv
  <2>1. Distinct(queue)
    BY <1>2 DEF Distinct
  <2> QED
    BY <1>2, <1>5, <2>1 DEF PlacesInv, ReaderType, Serving, IdleReader, Thread
<1>7. \A r \in Request : ReqInv(r)
  BY <1>2, <1>5 DEF ReqInv, NewRequest
<1>8. WaitersInv
  <2>1. Reserved = {} /\ ~Reading(consumer)
    BY <1>2 DEF Reserved, NewRequest, Reading, IdleReader, Thread
  <2> QED
    BY <1>2, <2>1, FS_EmptySet DEF WaitersInv, One
<1>9. call = [c \in Request |-> [at |-> "new", ground |-> "none", held |-> {}]]
  OBVIOUS
<1>10. ApprovalTypeOK
  <2>1. [at |-> "new", ground |-> "none", held |-> {}] \in CallRow
    BY DEF CallRow
  <2>2. scope \in [Manager -> 0..ScopeUses] /\ used \in [Manager -> 0..Budget]
    BY ApprovalAssumption
  <2> QED
    BY <1>4, <1>9, <2>1, <2>2 DEF ApprovalTypeOK
<1>11. GrantInv
  <2>1. \A m, g : g # "none" => OnGround(m, g) = {}
    BY <1>9 DEF OnGround
  <2>2. OnceUsed = {} /\ Cardinality({}) = 0
    BY <1>9, FS_EmptySet DEF OnceUsed
  <2>3. \A c \in Request : GroundInv(c)
    BY <1>9 DEF GroundInv
  <2>4. \A m \in Manager : StandingInv(m) /\ UsesInv(m)
    <3>1. \A m \in Manager : OnGround(m, "all") = {} /\ standing[m] = {}
      BY <1>2, <2>1
    <3>2. \A m \in Manager : scope[m] \in {0, ScopeUses} /\ used[m] = 0
      OBVIOUS
    <3>3. \A m \in Manager : OnGround(m, "scope") = {} /\ OnGround(m, "budget") = {}
      BY <2>1
    <3>4. \A m \in Manager : StandingInv(m)
      BY <3>1 DEF StandingInv
    <3>5. ASSUME NEW m \in Manager PROVE UsesInv(m)
      <4>1. /\ Cardinality(OnGround(m, "scope")) = 0
            /\ Cardinality(OnGround(m, "budget")) = 0
        BY <2>2, <3>3
      <4> QED
        BY <3>2, <4>1, ApprovalAssumption DEF UsesInv
    <3> QED
      BY <3>4, <3>5
  <2>5. OnceInv /\ grants \in [approve : Nat, cycle : Nat]
    BY <1>2, <2>2, ApprovalAssumption DEF OnceInv, One
  <2> QED
    BY <2>3, <2>4, <2>5 DEF GrantInv
<1>12. LockInv
  BY <1>9 DEF LockInv, HeldInv
<1> QED
  BY <1>4, <1>6, <1>7, <1>8, <1>10, <1>11, <1>12 DEF IndInv, BrokerInv

LEMMA StepPreserves ==
  ASSUME IndInv, [Next]_vars
  PROVE  IndInv'
<1>1. CASE UNCHANGED vars
  <2>1. UNCHANGED brokerVars /\ UNCHANGED approvalVars
    BY <1>1 DEF vars
  <2>2. /\ BrokerInv' /\ job' = job /\ \A q \in Request : Keeps(q)
        /\ \A m \in Manager : StandingStep(m)
    BY <2>1, BrokerAside DEF IndInv
  <2> QED
    BY <2>1, <2>2, CallsAside
<1>2. CASE \E c \in Request : CallStep(c)
  <2>1. PICK c \in Request : CallStep(c)
    BY <1>2
  <2>2. CASE HandlerAsks(c) \/ (Waits(c) /\ UNCHANGED approvalVars)
    <3>1. (Ask(c) \/ Waits(c)) /\ UNCHANGED approvalVars
      BY <2>2 DEF HandlerAsks
    <3>2. /\ BrokerInv' /\ job' = job /\ \A q \in Request : Keeps(q)
          /\ \A m \in Manager : StandingStep(m)
      BY <3>1, BrokerKeeps DEF IndInv
    <3> QED
      BY <3>1, <3>2, CallsAside
  <2> QED
    BY <2>1, <2>2, AutoApproveKeeps, NeedsPromptKeeps, LocalApprovalKeeps, AskUserKeeps,
       DecidedKeeps, LockKeeps, EnterKeeps, LeaveKeeps
    DEF CallStep
<1>3. CASE (Serve \/ Surroundings) /\ UNCHANGED approvalVars
  <2>1. /\ BrokerInv' /\ job' = job /\ \A q \in Request : Keeps(q)
        /\ \A m \in Manager : StandingStep(m)
    BY <1>3, BrokerKeeps DEF IndInv
  <2> QED
    BY <1>3, <2>1, CallsAside
<1>4. CASE PreApprove \/ \E m \in Manager : CycleEnds(m)
  BY <1>4, CommandKeeps
<1> QED
  BY <1>1, <1>2, <1>3, <1>4 DEF Next

LEMMA IndInvHolds == Spec => []IndInv
BY InitEstablishes, StepPreserves, PTL DEF Spec

\* Calls, requests and grants have their types, so that no scope and no budget
\* is used beyond what it has, and two calls of a manager that touch one path
\* or workspace never run at once (ApprovalBroker.execution_guard).
THEOREM KeysAlwaysExclude == Spec => []ApprovalInv
<1>1. IndInv => ApprovalInv
  BY DEF IndInv, LockInv, HeldInv, ApprovalInv, KeysExclude
<1> QED
  BY <1>1, IndInvHolds, PTL

\* No call runs that nobody approved: its ground is an answer of the user to
\* it, an "a" to a call of the same manager, a /approve no other call used, a
\* use of the scope or a unit of the budget (PreApprovalHandler).
THEOREM EveryGroundWasGiven == Spec => []ApprovedBySomebody
<1>1. IndInv => ApprovedBySomebody
  <2> SUFFICES ASSUME IndInv PROVE ApprovedBySomebody
    OBVIOUS
  <2>1. \A c \in Request : call[c].ground = "user" => Heard(c, "yes") \/ Heard(c, "all")
    BY DEF IndInv, BrokerInv, GrantInv, GroundInv, ReqInv, Heard
  <2>2. ASSUME NEW m \in Manager
        PROVE  /\ OnGround(m, "all") # {} =>
                     \E d \in Request : job[d].manager = m /\ Heard(d, "all")
               /\ Cardinality(OnGround(m, "scope")) <= ScopeUses
               /\ Cardinality(OnGround(m, "budget")) <= Budget
    <3>1. StandingInv(m) /\ UsesInv(m)
      BY DEF IndInv, GrantInv
    <3>2. scope[m] \in 0..ScopeUses /\ used[m] \in 0..Budget
      BY DEF IndInv, ApprovalTypeOK
    <3>3. Cardinality(OnGround(m, "scope")) \in Nat
      BY BrokerAssumption, FS_Subset, FS_CardinalityType DEF OnGround
    <3> QED
      BY <3>1, <3>2, <3>3, ApprovalAssumption DEF StandingInv, UsesInv, AllSaid
  <2>3. Cardinality(OnceUsed) <= grants.approve
    <3>1. Cardinality(OnceUsed) \in Nat
      BY BrokerAssumption, FS_Subset, FS_CardinalityType DEF OnceUsed
    <3>2. One("once" \in standing[Chat]) \in Nat
      BY DEF One
    <3> QED
      BY <3>1, <3>2 DEF IndInv, GrantInv, OnceInv
  <2> QED
    BY <2>1, <2>2, <2>3 DEF ApprovedBySomebody, OnceUsed
<1> QED
  BY <1>1, IndInvHolds, PTL

\* Over a pipe the line that was read for a request is the answer its producer
\* gets, unless its run was cancelled: claim and try_expire exclude each other,
\* and the first conclusion counts (_InputRequest).
THEOREM LinesAreAnswers == Spec => []LineIsAnswer
<1>1. IndInv => LineIsAnswer
  BY DEF IndInv, BrokerInv, ReqInv, LineIsAnswer
<1> QED
  BY <1>1, IndInvHolds, PTL

\* Over a pipe two prompts never contend for the next line: only the broker's
\* own thread serves one (process_pending_once).
THEOREM OnePromptIsOpen == Spec => []OnePrompt
<1>1. IndInv => OnePrompt
  <2> SUFFICES ASSUME IndInv, gate = "pipe"
               PROVE  Cardinality({t \in Thread : Reading(t)}) <= 1
    BY DEF OnePrompt
  <2>1. {t \in Thread : Reading(t)} \in SUBSET {consumer}
    BY DEF IndInv, BrokerInv, PlacesInv, Serving, Reading, Thread
  <2>2. /\ IsFiniteSet({consumer}) /\ Cardinality({consumer}) = 1
    BY FS_Singleton
  <2> QED
    BY <2>1, <2>2, FS_Subset
<1> QED
  BY <1>1, IndInvHolds, PTL

\* The reservations are the requests that wait and the read that is open, so
\* none is left when every prompt is decided (DirectReservation.release).
THEOREM ChatAlwaysGetsStdinBack == Spec => []ChatGetsStdinBack
<1>1. IndInv => ChatGetsStdinBack
  <2> SUFFICES ASSUME IndInv, \A r \in Request : producer[r] \in {"idle", "returned"},
                      \A t \in Thread : ~Reading(t)
               PROVE  waiters = 0
    BY DEF ChatGetsStdinBack
  <2>1. Reserved = {}
    BY DEF IndInv, BrokerInv, ReqInv, Reserved
  <2>2. ~Reading(consumer)
    BY DEF Thread
  <2> QED
    BY <2>1, <2>2, FS_EmptySet DEF IndInv, BrokerInv, WaitersInv, One
<1> QED
  BY <1>1, IndInvHolds, PTL

\* The chat takes no line while a prompt waits for its answer: what waits has
\* its reservation, and the chat reads when there is none (_enqueue).
THEOREM ChatLeavesWhatWasAsked == Spec => ChatLeavesAnswers
<1>1. IndInv => [ChatReads => \A r \in Request : ~Outstanding(r)]_brokerVars
  <2> SUFFICES ASSUME IndInv, ChatReads, NEW r \in Request, Outstanding(r)
               PROVE  FALSE
    OBVIOUS
  <2>1. ReqInv(r) /\ WaitersInv
    BY DEF IndInv, BrokerInv
  <2>2. r \in Reserved
    BY <2>1 DEF Outstanding, ReqInv, Reserved, ChatReads
  <2>3. IsFiniteSet(Reserved)
    BY BrokerAssumption, FS_Subset DEF Reserved
  <2>4. Cardinality(Reserved) \in Nat /\ Cardinality(Reserved) # 0
    BY <2>2, <2>3, FS_CardinalityType, FS_EmptySet
  <2>5. One(gate = "pipe" /\ Reading(consumer)) \in Nat
    BY DEF One
  <2> QED
    BY <2>1, <2>4, <2>5 DEF WaitersInv, ChatReads
<1> QED
  BY <1>1, IndInvHolds, PTL DEF ChatLeavesAnswers

=============================================================================
