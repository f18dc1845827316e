--------------------------- MODULE TaskLifecycle ---------------------------
(***************************************************************************)
(* What the workspace promises about one task, without executors, reviews, *)
(* leases or sessions: a task is a sequence of numbered attempts.  An      *)
(* attempt waits, is run by one agent and may be delivered; a delivery     *)
(* carries the agent and the number of its attempt, and is either accepted *)
(* as it was delivered or discarded for a next attempt.  A task that was   *)
(* accepted, failed or cancelled never changes again.                      *)
(*                                                                         *)
(* A replan, a cancellation or an adoption moves many tasks at once, so a  *)
(* step moves any number of them, each one on its own.                     *)
(***************************************************************************)
EXTENDS Naturals

CONSTANTS Task, Agent, NoAgent

VARIABLE life   \* [phase, attempt, agent, delivery] of each task

Undelivered == [agent |-> NoAgent, attempt |-> 0]

Unborn == [phase |-> "absent", attempt |-> 0, agent |-> NoAgent,
           delivery |-> Undelivered]

Waits(n) == [Unborn EXCEPT !.phase = "waiting", !.attempt = n]

Runs(n, agent) == [Waits(n) EXCEPT !.phase = "running", !.agent = agent]

Delivers(n, agent) ==
  [Runs(n, agent) EXCEPT !.phase = "delivered",
                         !.delivery = [agent |-> agent, attempt |-> n]]

Accepts(l) == [l EXCEPT !.phase = "accepted"]

Ends(n, phase) == [Waits(n) EXCEPT !.phase = phase]

Init == life = [t \in Task |-> Unborn]

Create(t) == life[t].phase = "absent" /\ life'[t] = Waits(0)

Start(t) ==
  /\ life[t].phase = "waiting"
  /\ \E agent \in Agent : life'[t] = Runs(life[t].attempt, agent)

Deliver(t) ==
  /\ life[t].phase = "running"
  /\ life'[t] = Delivers(life[t].attempt, life[t].agent)

\* The delivery of a pool of one agent is accepted without review.
DeliverUnreviewed(t) ==
  /\ life[t].phase = "running"
  /\ life'[t] = Accepts(Delivers(life[t].attempt, life[t].agent))

Accept(t) == life[t].phase = "delivered" /\ life'[t] = Accepts(life[t])

Retry(t) ==
  /\ life[t].phase \in {"running", "delivered"}
  /\ life'[t] = Waits(life[t].attempt + 1)

\* The failure may close the attempt it happens in.
Fail(t) ==
  /\ life[t].phase \in {"waiting", "running", "delivered"}
  /\ \E n \in {life[t].attempt, life[t].attempt + 1} : life'[t] = Ends(n, "failed")

Cancel(t) ==
  /\ life[t].phase \in {"waiting", "running", "delivered"}
  /\ life'[t] = Ends(life[t].attempt, "cancelled")

Step(t) ==
  \/ Create(t) \/ Start(t) \/ Deliver(t) \/ DeliverUnreviewed(t) \/ Accept(t)
  \/ Retry(t) \/ Fail(t) \/ Cancel(t)

Next ==
  /\ \A t \in Task : Step(t) \/ life'[t] = life[t]
  /\ life' = [t \in Task |-> life'[t]]

Spec == Init /\ [][Next]_life
===========================================================================
