----------------------------- MODULE MpmcQueue -----------------------------
(***************************************************************************)
(* mpmc_bounded_queue: a ring of cells for any number of producers and     *)
(* consumers.  A thread claims a ticket by a compare-and-swap of           *)
(* enqueue_pos_ or dequeue_pos_ and has the cell of the ticket to itself   *)
(* until it stores the cell's next sequence number.                        *)
(*                                                                         *)
(* push and pop are the same code but for the sequence number they wait    *)
(* for, the one they leave and the direction of the copy, so they are one  *)
(* set of actions with the operation in op[t].  Every step is one access   *)
(* to shared memory.                                                       *)
(***************************************************************************)
EXTENDS Integers, Sequences

CONSTANTS
  Threads,
  Values, None, \* what is pushed; a cell nothing was pushed to
  Size,         \* buffer_mask_ + 1; the code asks for a power of two
  MaxTickets    \* bound: the pushes that claim a cell

ASSUME QueueConstants ==
  Size \in Nat /\ Size > 1 /\ MaxTickets \in Nat /\ None \notin Values

VARIABLES
  sequence, data,  \* sequence_ and data_ of the cells
  next,            \* next["push"] is enqueue_pos_, next["pop"] is dequeue_pos_
  pc, op, pos,     \* a thread: where it is, in which operation, its pos
  item,            \* what it pushes
  pushed,          \* history: pushed[k + 1] is what the push of ticket k is for
  popped           \* history: the tickets of pops, with what they got

vars == <<sequence, data, next, pc, op, pos, item, pushed, popped>>
-----------------------------------------------------------------------------
Ops == {"push", "pop"}
Cells == 0 .. Size - 1

\* pos & buffer_mask_
Cell(k) == k % Size

Init ==
  /\ sequence = [i \in Cells |-> i] /\ data = [i \in Cells |-> None]
  /\ next = [o \in Ops |-> 0]
  /\ pc = [t \in Threads |-> "idle"] /\ op = [t \in Threads |-> "pop"]
  /\ pos = [t \in Threads |-> 0] /\ item = [t \in Threads |-> None]
  /\ pushed = <<>> /\ popped = {}

\* push(v) and pop: pos is loaded.
Call(t, o, v) ==
  /\ pc[t] = "idle"
  /\ op' = [op EXCEPT ![t] = o] /\ item' = [item EXCEPT ![t] = v]
  /\ pos' = [pos EXCEPT ![t] = next[o]]
  /\ pc' = [pc EXCEPT ![t] = "test"]
  /\ UNCHANGED <<sequence, data, next, pushed, popped>>

Return(t) ==
  /\ pc' = [pc EXCEPT ![t] = "idle"] /\ op' = [op EXCEPT ![t] = "pop"]
  /\ pos' = [pos EXCEPT ![t] = 0] /\ item' = [item EXCEPT ![t] = None]

\* Mutant: pop does not wait for the push of its ticket to be complete.
Awaited_Same(o, k) == k

\* The sequence number that makes the cell of ticket k ready for o.
Awaited(o, k) == IF o = "push" THEN k ELSE k + 1

\* `if (dif == 0) ... else if (dif < 0) return false; else ...'
Test(t) ==
  /\ pc[t] = "test"
  /\ LET dif == sequence[Cell(pos[t])] - Awaited(op[t], pos[t])
     IN  IF dif < 0 THEN Return(t)
         ELSE /\ pc' = [pc EXCEPT ![t] = IF dif = 0 THEN "claim" ELSE "reload"]
              /\ UNCHANGED <<op, pos, item>>
  /\ UNCHANGED <<sequence, data, next, pushed, popped>>

Reload(t) ==
  /\ pc[t] = "reload"
  /\ pos' = [pos EXCEPT ![t] = next[op[t]]]
  /\ pc' = [pc EXCEPT ![t] = "test"]
  /\ UNCHANGED <<sequence, data, next, op, item, pushed, popped>>

\* Mutant: the new position is stored, whatever it has become.
Current_Any(t) == TRUE

\* The position has not moved on since it was loaded.
Current(t) == next[op[t]] = pos[t]

\* compare_exchange_weak succeeds.
Claim(t) ==
  /\ pc[t] = "claim" /\ Current(t)
  /\ op[t] = "push" => pos[t] < MaxTickets
  /\ next' = [next EXCEPT ![op[t]] = pos[t] + 1]
  /\ pc' = [pc EXCEPT ![t] = "copy"]
  /\ pushed' = IF op[t] = "push" THEN Append(pushed, item[t]) ELSE pushed
  /\ UNCHANGED <<sequence, data, op, pos, item, popped>>

\* It fails, which it may for no reason, and loads pos anew.
ClaimFails(t) ==
  /\ pc[t] = "claim"
  /\ pos' = [pos EXCEPT ![t] = next[op[t]]]
  /\ pc' = [pc EXCEPT ![t] = "test"]
  /\ UNCHANGED <<sequence, data, next, op, item, pushed, popped>>

\* The data is copied into the cell or out of it.
Copy(t) ==
  /\ pc[t] = "copy"
  /\ LET i == Cell(pos[t])
     IN  IF op[t] = "push"
           THEN data' = [data EXCEPT ![i] = item[t]] /\ UNCHANGED popped
           ELSE popped' = popped \union {[ticket |-> pos[t], value |-> data[i]]}
                /\ UNCHANGED data
  /\ pc' = [pc EXCEPT ![t] = "leave"]
  /\ UNCHANGED <<sequence, next, op, pos, item, pushed>>

\* Mutant: the cell is handed on a ticket too early.
Left_Mask(o, k) == IF o = "push" THEN k + 1 ELSE k + Size - 1

\* The sequence number o leaves in the cell of ticket k.
Left(o, k) == IF o = "push" THEN k + 1 ELSE k + Size

Leave(t) ==
  /\ pc[t] = "leave"
  /\ sequence' = [sequence EXCEPT ![Cell(pos[t])] = Left(op[t], pos[t])]
  /\ Return(t)
  /\ UNCHANGED <<data, next, pushed, popped>>

Next ==
  \E t \in Threads :
    \/ Call(t, "pop", None) \/ \E v \in Values : Call(t, "push", v)
    \/ Test(t) \/ Reload(t) \/ Claim(t) \/ ClaimFails(t) \/ Copy(t) \/ Leave(t)

Spec == Init /\ [][Next]_vars
-----------------------------------------------------------------------------
(* Properties.                                                             *)

\* Thread t holds ticket k of operation o.
Holds(t, o, k) == pc[t] \in {"copy", "leave"} /\ op[t] = o /\ pos[t] = k

\* Every variable keeps its type, and as many items were pushed as tickets
\* were claimed for it.
TypeOK ==
  /\ sequence \in [Cells -> Nat] /\ data \in [Cells -> Values \union {None}]
  /\ next \in [Ops -> Nat]
  /\ pc \in [Threads -> {"idle", "test", "reload", "claim", "copy", "leave"}]
  /\ op \in [Threads -> Ops] /\ pos \in [Threads -> Nat]
  /\ item \in [Threads -> Values \union {None}]
  /\ \A t \in Threads : op[t] = "push" => item[t] \in Values
  /\ pushed \in Seq(Values) /\ Len(pushed) = next["push"]
  /\ popped \subseteq [ticket : Nat, value : Values]

\* No two threads are ever at the data of one cell, producers and consumers a
\* lap ahead or behind included: data_ is no atomic, and the sequence numbers
\* (lockfree.hpp:28-38, 49-59) alone keep its accesses apart.
CellExclusive ==
  \A t, u \in Threads :
    t # u /\ pc[t] \in {"copy", "leave"} /\ pc[u] \in {"copy", "leave"}
      => Cell(pos[t]) # Cell(pos[u])

\* First in, first out: the pop of a ticket gets what the push of the same
\* ticket was for, so that nothing is lost, doubled or taken out of order.
PopsWhatWasPushed ==
  \A e \in popped : e.ticket < Len(pushed) /\ e.value = pushed[e.ticket + 1]

\* push returns false only if the cell it needs is still taken by the ticket a
\* lap before it, and pop only if the push of its ticket is not complete: a
\* queue with room, or with an item in front, is never reported full or empty.
FailsWithReason ==
  [][\A t \in Threads :
       pc[t] = "test" /\ pc'[t] = "idle" =>
         IF op[t] = "push"
           THEN pos[t] - Size >= next["pop"] \/ \E u \in Threads : Holds(u, "pop", pos[t] - Size)
           ELSE pos[t] >= next["push"] \/ \E u \in Threads : Holds(u, "push", pos[t])]_vars
=============================================================================
