----------------------------- MODULE RequestQueue -----------------------------
(***************************************************************************)
(* What the writers expect of their queue: what a thread enqueues comes    *)
(* out once and in the order it was enqueued, and a lone consumer is told  *)
(* that nothing is there only if that was so when it began to ask.  What a *)
(* thread enqueues is told apart by its number.                            *)
(***************************************************************************)
EXTENDS Naturals, Sequences

CONSTANTS Threads, Consumers, NoItem

VARIABLES
  sent,   \* sent[t]: how many t has enqueued
  inbox,  \* inbox[t]: what t has enqueued and no one has dequeued
  team,   \* the consumers there are
  asked,  \* asked[c]: "no", or what c saw when it began: "some", "empty"
  hand    \* hand[c]: what c has dequeued and not returned yet

vars == <<sent, inbox, team, asked, hand>>

Init ==
  /\ sent = [t \in Threads |-> 0]
  /\ inbox = [t \in Threads |-> <<>>]
  /\ team \in SUBSET Consumers
  /\ asked = [c \in Consumers |-> "no"]
  /\ hand = [c \in Consumers |-> NoItem]

Enqueue(t) ==
  /\ UNCHANGED <<team, asked, hand>>
  /\ sent' = [sent EXCEPT ![t] = @ + 1]
  /\ inbox' = [inbox EXCEPT ![t] = Append(@, [from |-> t, no |-> sent[t] + 1])]

Ask(c) ==
  /\ asked[c] = "no"
  /\ asked' = [asked EXCEPT ![c] =
       IF \A t \in Threads : inbox[t] = <<>> THEN "empty" ELSE "some"]
  /\ UNCHANGED <<sent, inbox, team, hand>>

Dequeue(c, t) ==
  /\ asked[c] # "no" /\ hand[c] = NoItem /\ inbox[t] # <<>>
  /\ inbox' = [inbox EXCEPT ![t] = Tail(@)]
  /\ hand' = [hand EXCEPT ![c] = Head(inbox[t])]
  /\ UNCHANGED <<sent, team, asked>>

ReturnTrue(c) ==
  /\ hand[c] # NoItem
  /\ hand' = [hand EXCEPT ![c] = NoItem]
  /\ asked' = [asked EXCEPT ![c] = "no"]
  /\ UNCHANGED <<sent, inbox, team>>

\* Where several consume, one may miss what comes while it looks elsewhere.
ReturnFalse(c) ==
  /\ hand[c] = NoItem /\ asked[c] # "no"
  /\ team = {c} => asked[c] = "empty"
  /\ asked' = [asked EXCEPT ![c] = "no"]
  /\ UNCHANGED <<sent, inbox, team, hand>>

Next ==
  \/ \E t \in Threads : Enqueue(t)
  \/ \E c \in team : \/ Ask(c) \/ ReturnTrue(c) \/ ReturnFalse(c)
                     \/ \E t \in Threads : Dequeue(c, t)

Spec == Init /\ [][Next]_vars
=============================================================================
