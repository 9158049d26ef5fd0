-------------------------- MODULE MCConcurrentQueue --------------------------
(***************************************************************************)
(* The scenarios are few items each, chosen for what they lead to.         *)
(***************************************************************************)
EXTENDS ConcurrentQueue, TLC

CONSTANTS t1, t2, t3, c1, c2

Sends(x, y, z) == t1 :> x @@ t2 :> y @@ t3 :> z
Scenario(sends, consumers, fails) == [sends |-> sends, team |-> consumers, failures |-> fails]

MCScenarios == {
  \* The index of blocks wraps and then grows, from a tail in its middle.
  Scenario(Sends(7, 0, 0), {c1}, 1),
  \* Two threads and the one worker that the server has.
  Scenario(Sends(2, 2, 0), {c1}, 0),
  \* Three threads whose ids collide; tables are superseded or cannot be.
  Scenario(Sends(2, 1, 1), {}, 1),
  \* Two consumers of one producer.
  Scenario(Sends(4, 0, 0), {c1, c2}, 0)}

\* Two ids begin at the same slot.
MCHash == t1 :> 1 @@ t2 :> 1 @@ t3 :> 0
=============================================================================
