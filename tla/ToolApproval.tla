---------------------------- MODULE ToolApproval ----------------------------
(***************************************************************************)
(* The approval of tool calls: ToolExecutor.execute (runtime/executor.py)  *)
(* authorises a call with the ApprovalBroker (runtime/approval_broker.py)  *)
(* and the pre-approval handler of its manager (runtime/approval.py), asks *)
(* the user through InputBroker when neither decides, and runs the handler *)
(* of the tool under the locks of the keys it serialises on.               *)
(*                                                                         *)
(* A call is one thread and the request of InputBroker it may make.  The   *)
(* calls of the chat share a manager; a concurrent run has a fork of it,   *)
(* with approvals, scopes and locks of its own.                            *)
(***************************************************************************)
EXTENDS InputBroker, FiniteSetsExt

CONSTANTS
    Scoped,        \* tools an approval scope of a manager covers
    ScopeUses,     \* uses of a manager's scope
    Budget,        \* delegation_budget_per_run
    KeysOf,        \* the serialization keys of each tool, as they come
    Chat,          \* the manager the commands of the chat act on
    MaxGrants      \* bound: /approve commands and ends of a cycle

ASSUME ApprovalAssumption ==
    /\ Scoped \subseteq Tool /\ Chat \in Manager
    /\ ScopeUses \in Nat /\ Budget \in Nat /\ MaxGrants \in Nat
    /\ KeysOf \in [Tool -> Seq(Nat)]

VARIABLES
    call,        \* what each call does, and on what ground it was approved
    prompting,   \* the holder of each manager's prompt lock
    scope,       \* remaining uses of each manager's scope
    used,        \* delegations charged to each manager's run
    grants       \* /approve commands and cycle ends so far

approvalVars == <<call, prompting, scope, used, grants>>
vars == <<brokerVars, approvalVars>>

Nobody == "nobody"

\* A call, the ground it was approved on and the keys it has locked.
CallRow ==
    [at : {"new", "prompt", "asked", "guard", "running", "ended"},
     ground : {"none", "denied", "scope", "reads", "budget", "all", "once",
               "user"},
     held : SUBSET Nat]

Init ==
    /\ BrokerInit
    /\ call = [c \in Request |-> [at |-> "new", ground |-> "none", held |-> {}]]
    /\ prompting = [m \in Manager |-> Nobody]
    /\ \E n \in {0, ScopeUses} : scope = [m \in Manager |-> n]
    /\ used = [m \in Manager |-> 0]
    /\ grants = [approve |-> 0, cycle |-> 0]

Becomes(c, at, ground) ==
    call' = [call EXCEPT ![c].at = at, ![c].ground = ground]

-----------------------------------------------------------------------------
(***************************************************************************)
(* Authorisation.                                                          *)
(***************************************************************************)

Keys(c) == KeysOf[job[c].tool]
InScope(c) == job[c].tool \in Scoped /\ scope[job[c].manager] > 0

InBudget(c) == job[c].tool = "tasks_delegate" /\ used[job[c].manager] < Budget

\* _can_auto_approve with consume: the first scope that matches, then a
\* reading tool (ask_user is one), then the budget of the run.
AutoApprove(c) ==
    LET m == job[c].manager IN
    /\ call[c].at = "new"
    /\ \/ /\ InScope(c)
          /\ scope' = [scope EXCEPT ![m] = @ - 1]
          /\ Becomes(c, "guard", "scope")
          /\ UNCHANGED used
       \/ /\ ~InScope(c) /\ Asks(c)
          /\ Becomes(c, "guard", "reads")
          /\ UNCHANGED <<scope, used>>
       \/ /\ ~InScope(c) /\ InBudget(c)
          /\ used' = [used EXCEPT ![m] = @ + 1]
          /\ Becomes(c, "guard", "budget")
          /\ UNCHANGED scope
    /\ UNCHANGED <<brokerVars, prompting, grants>>

\* Any other call waits for the prompt lock of its manager.
NeedsPrompt(c) ==
    /\ call[c].at = "new"
    /\ ~InScope(c) /\ ~InBudget(c) /\ ~Asks(c)
    /\ Becomes(c, "prompt", "none")
    /\ UNCHANGED <<brokerVars, prompting, scope, used, grants>>

\* Under the lock the handler looks for an approval of its own first: every
\* call of the manager, or the one of /approve, which it consumes.
LocalApproval(c) ==
    LET m == job[c].manager IN
    /\ call[c].at = "prompt" /\ prompting[m] = Nobody
    /\ \/ /\ "all" \in standing[m]
          /\ Becomes(c, "guard", "all")
          /\ UNCHANGED standing
       \/ /\ standing[m] = {"once"}
          /\ Becomes(c, "guard", "once")
          /\ standing' = [standing EXCEPT ![m] = {}]
    /\ UNCHANGED <<job, gate, mounted, active, lines, typed, waiters, queue,
                   req, producer, reader, prompting, scope, used, grants>>

\* Otherwise the user is asked.
AskUser(c) ==
    LET m == job[c].manager IN
    /\ call[c].at = "prompt" /\ prompting[m] = Nobody /\ standing[m] = {}
    /\ prompting' = [prompting EXCEPT ![m] = c]
    /\ Becomes(c, "asked", "none")
    /\ IF req[c].cancelled THEN Refused(c) ELSE Ask(c)
    /\ UNCHANGED <<scope, used, grants>>

Decided(c) ==
    /\ call[c].at = "asked" /\ producer[c] = "returned"
    /\ prompting' = [prompting EXCEPT ![job[c].manager] = Nobody]
    /\ IF req[c].result = "approved"
       THEN Becomes(c, "guard", "user")
       ELSE Becomes(c, "ended", "denied")
    /\ UNCHANGED <<brokerVars, scope, used, grants>>

-----------------------------------------------------------------------------
(***************************************************************************)
(* Execution under the locks of the manager.                               *)
(***************************************************************************)

\* The keys a call still has to lock.
Wanted(c) == Range(Keys(c)) \ call[c].held

\* Mutant of IsNextLock: the locks are taken as the patch names its files.
IsNextLockOfPatch(c, key) ==
    \E i \in DOMAIN Keys(c) :
        key = Keys(c)[i] /\ \A j \in 1..(i - 1) : Keys(c)[j] \in call[c].held

\* The locks of a call are taken in the order of their keys.
IsNextLock(c, key) ==
    key \in Wanted(c) /\ \A other \in Wanted(c) : key <= other

\* Mutant of IsLocked: only the last key taken counts as held.
IsLockedLast(m, key) ==
    \E d \in Request : /\ job[d].manager = m /\ call[d].held # {}
                       /\ key = Max(call[d].held)
                       /\ call[d].at = "guard"

IsLocked(m, key) ==
    \E d \in Request : job[d].manager = m /\ key \in call[d].held

Lock(c) ==
    /\ call[c].at = "guard"
    /\ \E key \in Range(Keys(c)) :
           /\ IsNextLock(c, key) /\ ~IsLocked(job[c].manager, key)
           /\ call' = [call EXCEPT ![c].held = @ \cup {key}]
    /\ UNCHANGED <<brokerVars, prompting, scope, used, grants>>

\* Every lock is held: the handler of the tool runs.
Enter(c) ==
    /\ call[c].at = "guard" /\ Wanted(c) = {}
    /\ call' = [call EXCEPT ![c].at = "running"]
    /\ UNCHANGED <<brokerVars, prompting, scope, used, grants>>

\* The handler of ask_user asks.
HandlerAsks(c) ==
    /\ call[c].at = "running" /\ Asks(c)
    /\ Ask(c)
    /\ UNCHANGED approvalVars

\* The handler returns or raises; the locks are released.
Leave(c) ==
    /\ call[c].at = "running"
    /\ Asks(c) => producer[c] = "returned"
    /\ call' = [call EXCEPT ![c].at = "ended", ![c].held = {}]
    /\ UNCHANGED <<brokerVars, prompting, scope, used, grants>>

-----------------------------------------------------------------------------
(***************************************************************************)
(* The user's commands and the end of a cycle of tool calls.               *)
(***************************************************************************)

GrantsLeft == grants.approve + grants.cycle < MaxGrants

PreApprove ==
    /\ GrantsLeft /\ "once" \notin standing[Chat]
    /\ standing' = [standing EXCEPT ![Chat] = @ \cup {"once"}]
    /\ grants' = [grants EXCEPT !.approve = @ + 1]
    /\ UNCHANGED <<job, gate, mounted, active, lines, typed, waiters, queue,
                   req, producer, reader, call, prompting, scope, used>>

CycleEnds(m) ==
    /\ GrantsLeft /\ "all" \in standing[m]
    /\ standing' = [standing EXCEPT ![m] = @ \ {"all"}]
    /\ grants' = [grants EXCEPT !.cycle = @ + 1]
    /\ UNCHANGED <<job, gate, mounted, active, lines, typed, waiters, queue,
                   req, producer, reader, call, prompting, scope, used>>

CallStep(c) ==
    \/ AutoApprove(c) \/ NeedsPrompt(c) \/ LocalApproval(c) \/ AskUser(c)
    \/ Decided(c) \/ Lock(c) \/ Enter(c) \/ HandlerAsks(c) \/ Leave(c)
    \/ Waits(c) /\ UNCHANGED approvalVars

\* While a call may still ask; what is written or commanded after that no call
\* sees.
MayAsk ==
    \E c \in Request : \/ call[c].at \in {"new", "prompt", "asked"}
                       \/ call[c].at = "running" /\ Asks(c)

AllEnded == \A c \in Request : call[c].at = "ended"

Next ==
    \/ \E c \in Request : CallStep(c)
    \/ Serve /\ UNCHANGED approvalVars
    \/ MayAsk /\ Surroundings /\ UNCHANGED approvalVars
    \/ MayAsk /\ (PreApprove \/ \E m \in Manager : CycleEnds(m))

\* Each call is a thread that runs on, and its waits end by their deadlines;
\* a thread that serves the queue goes on with a prompt it has a line for.
Fairness ==
    /\ \A c \in Request : WF_vars(CallStep(c))
    /\ \A t \in Thread :
           WF_vars((Reply(t) \/ ReadsAgain(t)) /\ UNCHANGED approvalVars)

Spec == Init /\ [][Next]_vars /\ Fairness

-----------------------------------------------------------------------------
(***************************************************************************)
(* Properties.                                                             *)
(***************************************************************************)

ApprovalTypeOK ==
    /\ BrokerTypeOK
    /\ call \in [Request -> CallRow]
    /\ prompting \in [Manager -> Request \cup {Nobody}]
    /\ scope \in [Manager -> 0..ScopeUses]
    /\ used \in [Manager -> 0..Budget]

Heard(c, line) == ~Asks(c) /\ req[c].heard = line
OnGround(m, ground) ==
    {c \in Request : job[c].manager = m /\ call[c].ground = ground}

\* A call runs on a ground somebody gave: the user's own answer to it, an "a"
\* answered to a call of the same manager, one /approve per call, one use of
\* the scope, or one unit of the run's budget.  A fork never runs on what was
\* approved in the chat (PreApprovalHandler, fork_for_concurrent_run).
ApprovedBySomebody ==
    /\ \A c \in Request : call[c].ground = "user" =>
           Heard(c, "yes") \/ Heard(c, "all")
    /\ \A m \in Manager :
           /\ OnGround(m, "all") # {} =>
                 \E d \in Request : job[d].manager = m /\ Heard(d, "all")
           /\ Cardinality(OnGround(m, "scope")) <= ScopeUses
           /\ Cardinality(OnGround(m, "budget")) <= Budget
    /\ Cardinality({c \in Request : call[c].ground = "once"}) <= grants.approve

\* Two calls of a manager that touch one path or workspace never run at once
\* (ApprovalBroker.execution_guard).
KeysExclude ==
    \A c, d \in Request :
        (/\ c # d /\ job[c].manager = job[d].manager
         /\ call[c].at = "running" /\ call[d].at = "running")
        => Range(Keys(c)) \cap Range(Keys(d)) = {}

\* ... in states of calls, requests and grants that have their type: no scope
\* or budget is used beyond what it has.
ApprovalInv == ApprovalTypeOK /\ KeysExclude

\* Whatever the user does, every call ends: no two calls wait for each other
\* with prompt locks, path locks and the queue of prompts between them.
EveryCallEnds == <>AllEnded

=============================================================================
