------------------------------- MODULE FreeList -------------------------------
(***************************************************************************)
(* The free list of concurrentqueue.h: a stack of blocks that threads push *)
(* and pop without a lock.  A block may not change its successor while     *)
(* someone is about to pop it, so it counts those who hold a reference,    *)
(* the list being one of them, and has a bit that says it is to be put     *)
(* back by whoever gives up the last one.                                  *)
(***************************************************************************)
EXTENDS Naturals, FiniteSets

CONSTANTS Threads, Blocks, Null

ASSUME FreeListConstants == Null \notin Blocks /\ IsFiniteSet(Threads)

VARIABLES
  freeListHead,
  freeListNext,  \* freeListNext[b]: the block below b
  freeListRefs,  \* freeListRefs[b]: the count, and SHOULD_BE_ON_FREELIST
  held,          \* the blocks a thread was given and has not put back
  op             \* where a thread is in add or try_get, and its locals

vars == <<freeListHead, freeListNext, freeListRefs, held, op>>

Refs(should, count) == [should |-> should, count |-> count]

\* head, next: of try_get; node, top: of add_knowing_refcount_is_zero; seen: the
\* references try_get has read.
Idle == [at |-> "idle", getting |-> FALSE, head |-> Null, next |-> Null,
         node |-> Null, top |-> Null, seen |-> Refs(FALSE, 0)]

\* Blocks come from elsewhere before they are first put here.
Init ==
  /\ freeListHead = Null
  /\ freeListNext = [b \in Blocks |-> Null]
  /\ freeListRefs = [b \in Blocks |-> Refs(FALSE, 0)]
  /\ \E owner \in [Blocks -> Threads] :
       held = [t \in Threads |-> {b \in Blocks : owner[b] = t}]
  /\ op = [t \in Threads |-> Idle]

At(t, label) == op[t].at = label
Step(t, o) == op' = [op EXCEPT ![t] = o]
Goto(t, label) == Step(t, [op[t] EXCEPT !.at = label])
-----------------------------------------------------------------------------
(* add_knowing_refcount_is_zero, on op[t].node.                            *)

PutBack(t, b) == [op[t] EXCEPT !.at = "load", !.node = b]

\* It returns, to try_get if it was called there.
Returned(t) ==
  IF op[t].getting /\ op[t].head # Null
    THEN [Idle EXCEPT !.at = "refs", !.getting = TRUE, !.head = op[t].head]
    ELSE Idle

loadHead(t) ==
  /\ At(t, "load")
  /\ Step(t, [op[t] EXCEPT !.at = "link", !.top = freeListHead])
  /\ UNCHANGED <<freeListHead, freeListNext, freeListRefs, held>>

storeNext(t) ==
  /\ At(t, "link") /\ Goto(t, "count")
  /\ freeListNext' = [freeListNext EXCEPT ![op[t].node] = op[t].top]
  /\ UNCHANGED <<freeListHead, freeListRefs, held>>

storeRefs(t) ==
  /\ At(t, "count") /\ Goto(t, "push")
  /\ freeListRefs' = [freeListRefs EXCEPT ![op[t].node] = Refs(FALSE, 1)]
  /\ UNCHANGED <<freeListHead, freeListNext, held>>

\* compare_exchange_strong, which reads the head where it fails.
push(t) ==
  /\ At(t, "push")
  /\ IF freeListHead = op[t].top
       THEN freeListHead' = op[t].node /\ Step(t, Returned(t))
       ELSE Step(t, [op[t] EXCEPT !.at = "giveUp", !.top = freeListHead])
            /\ UNCHANGED freeListHead
  /\ UNCHANGED <<freeListNext, freeListRefs, held>>

\* fetch_add(SHOULD_BE_ON_FREELIST - 1): if others took references meanwhile,
\* one of them will put the block back.
giveUp(t) ==
  /\ At(t, "giveUp")
  /\ LET b == op[t].node
         refs == freeListRefs[b]
     IN  /\ freeListRefs' = [freeListRefs EXCEPT ![b] = Refs(TRUE, refs.count - 1)]
         /\ Step(t, IF refs = Refs(FALSE, 1) THEN [op[t] EXCEPT !.at = "link"] ELSE Returned(t))
  /\ UNCHANGED <<freeListHead, freeListNext, held>>
-----------------------------------------------------------------------------
add(t, b) ==
  /\ At(t, "idle") /\ b \in held[t]
  /\ held' = [held EXCEPT ![t] = @ \ {b}]
  /\ freeListRefs' = [freeListRefs EXCEPT ![b].should = TRUE]
  /\ freeListRefs[b] = Refs(FALSE, 0) => Step(t, PutBack(t, b))
  /\ freeListRefs[b] # Refs(FALSE, 0) => UNCHANGED op
  /\ UNCHANGED <<freeListHead, freeListNext>>

\* From an empty list it returns nullptr.
try_get(t) ==
  /\ At(t, "idle") /\ freeListHead # Null
  /\ Step(t, [Idle EXCEPT !.at = "refs", !.getting = TRUE, !.head = freeListHead])
  /\ UNCHANGED <<freeListHead, freeListNext, freeListRefs, held>>

loadRefs(t) ==
  /\ At(t, "refs")
  /\ LET refs == freeListRefs[op[t].head]
     IN  Step(t, [op[t] EXCEPT !.seen = refs,
                               !.at = IF refs.count = 0 THEN "again" ELSE "ref"])
  /\ UNCHANGED <<freeListHead, freeListNext, freeListRefs, held>>

reload(t) ==
  /\ At(t, "again")
  /\ Step(t, IF freeListHead = Null THEN Idle
             ELSE [Idle EXCEPT !.at = "refs", !.getting = TRUE, !.head = freeListHead])
  /\ UNCHANGED <<freeListHead, freeListNext, freeListRefs, held>>

\* Mutant: the count goes up even if it has become zero.
takeRef_Unchecked(t) ==
  /\ At(t, "ref")
  /\ Goto(t, "next")
  /\ freeListRefs' = [freeListRefs EXCEPT ![op[t].head].count = @ + 1]
  /\ UNCHANGED <<freeListHead, freeListNext, held>>

\* compare_exchange_strong on the count.
takeRef(t) ==
  /\ At(t, "ref")
  /\ LET b == op[t].head
     IN  IF freeListRefs[b] = op[t].seen
           THEN Goto(t, "next") /\ freeListRefs' = [freeListRefs EXCEPT ![b].count = @ + 1]
           ELSE Goto(t, "again") /\ UNCHANGED freeListRefs
  /\ UNCHANGED <<freeListHead, freeListNext, held>>

loadNext(t) ==
  /\ At(t, "next")
  /\ Step(t, [op[t] EXCEPT !.at = "pop", !.next = freeListNext[op[t].head]])
  /\ UNCHANGED <<freeListHead, freeListNext, freeListRefs, held>>

\* compare_exchange_strong, which reads the head where it fails.
pop(t) ==
  /\ At(t, "pop")
  /\ IF freeListHead = op[t].head
       THEN /\ freeListHead' = op[t].next /\ Goto(t, "popped")
            /\ held' = [held EXCEPT ![t] = @ \union {op[t].head}]
       ELSE /\ Step(t, [op[t] EXCEPT !.at = "unref", !.node = op[t].head, !.head = freeListHead])
            /\ UNCHANGED <<freeListHead, held>>
  /\ UNCHANGED <<freeListNext, freeListRefs>>

\* fetch_sub(2), for the thread and for the list.
popped(t) ==
  /\ At(t, "popped") /\ Step(t, Idle)
  /\ freeListRefs' = [freeListRefs EXCEPT ![op[t].head].count = @ - 2]
  /\ UNCHANGED <<freeListHead, freeListNext, held>>

\* Mutant: the last reference to a block that should be on the list is dropped.
unref_Forgets(t) ==
  /\ At(t, "unref")
  /\ freeListRefs' = [freeListRefs EXCEPT ![op[t].node].count = @ - 1]
  /\ Step(t, Returned(t))
  /\ UNCHANGED <<freeListHead, freeListNext, held>>

unref(t) ==
  /\ At(t, "unref")
  /\ LET b == op[t].node
     IN  /\ freeListRefs' = [freeListRefs EXCEPT ![b].count = @ - 1]
         /\ Step(t, IF freeListRefs[b] = Refs(TRUE, 1) THEN PutBack(t, b) ELSE Returned(t))
  /\ UNCHANGED <<freeListHead, freeListNext, held>>

Next ==
  \E t \in Threads :
    \/ \E b \in held[t] : add(t, b)
    \/ loadHead(t) \/ storeNext(t) \/ storeRefs(t) \/ push(t) \/ giveUp(t)
    \/ try_get(t) \/ loadRefs(t) \/ reload(t) \/ takeRef(t) \/ loadNext(t)
    \/ pop(t) \/ popped(t) \/ unref(t)

Spec == Init /\ [][Next]_vars
-----------------------------------------------------------------------------
(* Properties.                                                             *)

\* No block is given to two threads, or to one twice, and none comes out that was
\* not put in, however pushes and pops of the same blocks overlap
\* (concurrentqueue.h:1347-1424): the list is a pool of blocks.
Pool == INSTANCE BlockPool WITH free <- Blocks \ UNION {held[t] : t \in Threads}
ImplementsBlockPool == Pool!Spec

\* The list, Null at its end included: what is in every set that has the head
\* and, with a block, the one below.
Closed(S) == freeListHead \in S /\ \A b \in S \ {Null} : freeListNext[b] \in S
Listed ==
  {x \in Blocks \union {Null} :
     \A S \in SUBSET (Blocks \union {Null}) : Closed(S) => x \in S}

\* No block is lost, whoever had to put it back: when no call is under way, the
\* list holds the blocks that were put back and nothing else, each with the
\* list's own reference, and ends.  Until then the assertion of line 1380 holds:
\* a block that was popped has not been put back meanwhile.
NoneLost ==
  /\ \A t \in Threads : At(t, "popped") => ~ freeListRefs[op[t].head].should
  /\ (\A t \in Threads : At(t, "idle")) =>
    /\ Null \in Listed
    /\ Listed \ {Null} = Blocks \ UNION {held[t] : t \in Threads}
    /\ \A b \in Blocks :
         freeListRefs[b] = Refs(FALSE, IF b \in Listed THEN 1 ELSE 0)
=============================================================================
