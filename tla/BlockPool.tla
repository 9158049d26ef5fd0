------------------------------ MODULE BlockPool ------------------------------
(***************************************************************************)
(* What a free list of blocks promises: a block is free or belongs to one  *)
(* thread, which may put it back; a free one may be taken by any thread.   *)
(***************************************************************************)
CONSTANTS Threads, Blocks

VARIABLES
  free,  \* the blocks that may be taken
  held   \* held[t]: the blocks of thread t

TypeOK == free \subseteq Blocks /\ held \in [Threads -> SUBSET Blocks]

Init ==
  /\ TypeOK
  /\ \A b \in Blocks : \/ b \in free /\ \A t \in Threads : b \notin held[t]
                       \/ b \notin free /\ \E t \in Threads :
                            \A s \in Threads : b \in held[s] <=> s = t

Add(t, b) ==
  /\ b \in held[t]
  /\ free' = free \union {b}
  /\ held' = [held EXCEPT ![t] = @ \ {b}]

Take(t, b) ==
  /\ b \in free
  /\ free' = free \ {b}
  /\ held' = [held EXCEPT ![t] = @ \union {b}]

Next == \E t \in Threads, b \in Blocks : Add(t, b) \/ Take(t, b)

Spec == Init /\ [][Next]_<<free, held>>
=============================================================================
