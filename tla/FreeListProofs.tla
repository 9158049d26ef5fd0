--------------------------- MODULE FreeListProofs ---------------------------
(***************************************************************************)
(* The free list of concurrentqueue.h is a pool of blocks, and loses none. *)
(*                                                                         *)
(* A block belongs to a thread, is being put back by one, waits for the    *)
(* last of those who hold a reference to put it back (its bit says so), or *)
(* is on the list.  The count of a block is that of the threads that hold  *)
(* a reference, and one for the list; from it follows that nobody links a  *)
(* block while another is about to pop it with the successor it had.       *)
(***************************************************************************)
EXTENDS FreeList, FiniteSetTheorems, TLAPS

Stages == {"idle", "load", "link", "count", "push", "giveUp",
           "refs", "again", "ref", "next", "pop", "popped", "unref"}

Frame == [at : Stages, getting : BOOLEAN, head : Blocks \union {Null},
          next : Blocks \union {Null}, node : Blocks \union {Null},
          top : Blocks \union {Null}, seen : [should : BOOLEAN, count : Nat]]

\* What a thread at o is doing to block b.
Adds(o, b) == o.at \in {"load", "link", "count"} /\ o.node = b
Pushes(o, b) == o.at \in {"push", "giveUp"} /\ o.node = b
Holds(o, b) == \/ o.at \in {"next", "pop", "popped"} /\ o.head = b
               \/ o.at = "unref" /\ o.node = b
Popped(o, b) == o.at = "popped" /\ o.head = b

\* What it names is a block where it is used as one.
NamesBlocks(o) ==
  /\ o.at \in {"load", "link", "count", "push", "giveUp", "unref"} => o.node \in Blocks
  /\ o.at \in {"refs", "ref", "next", "pop", "popped"} => o.head \in Blocks

FreeListTypeOK ==
  /\ freeListHead \in Blocks \union {Null}
  /\ freeListNext \in [Blocks -> Blocks \union {Null}]
  /\ freeListRefs \in [Blocks -> [should : BOOLEAN, count : Nat]]
  /\ held \in [Threads -> SUBSET Blocks]
  /\ op \in [Threads -> Frame]
  /\ \A t \in Threads : NamesBlocks(op[t])

Owned(b) == \E t \in Threads : b \in held[t]
Holders(b) == {t \in Threads : Holds(op[t], b)}

\* The list's own reference, which a thread that has popped the block drops
\* together with its own.
ListsRef(b) ==
  /\ ~ freeListRefs[b].should
  /\ Owned(b) => \E t \in Threads : Popped(op[t], b)

\* A block is with one thread at most: it owns it, or puts it back.
OneOwner ==
  \A b \in Blocks : \A t, u \in Threads :
    /\ b \in held[t] /\ b \in held[u] => t = u
    /\ Adds(op[t], b) \/ Pushes(op[t], b) =>
         /\ ~ Owned(b)
         /\ Adds(op[u], b) \/ Pushes(op[u], b) => t = u
    /\ Popped(op[t], b) => b \in held[t]

\* Whether a block should be put back, and by whom if nobody holds a reference.
BitsTell ==
  \A b \in Blocks :
    /\ Owned(b) => ~ freeListRefs[b].should
    /\ \A t \in Threads :
         /\ Adds(op[t], b) => freeListRefs[b] = Refs(TRUE, 0)
         /\ Pushes(op[t], b) => ~ freeListRefs[b].should
    /\ freeListRefs[b] = Refs(TRUE, 0) => \E t \in Threads : Adds(op[t], b)

CountsHolders ==
  \A b \in Blocks :
    freeListRefs[b].count = Cardinality(Holders(b)) + IF ListsRef(b) THEN 1 ELSE 0

\* What a thread has read that can no longer change, or that it compares.
ReadsHold(o) ==
  /\ o.at = "ref" => o.seen.count # 0
  /\ o.at = "pop" => freeListNext[o.head] = o.next
  /\ o.at \in {"count", "push"} => freeListNext[o.node] = o.top

OnList(b) ==
  /\ b \in Blocks /\ ~ Owned(b) /\ ~ freeListRefs[b].should
  /\ \A t \in Threads : ~ Pushes(op[t], b)

\* The blocks that are on the list follow one another, and the head none.
Chained ==
  /\ freeListHead = Null \/ OnList(freeListHead)
  /\ \A b \in Blocks : OnList(b) =>
       /\ freeListNext[b] = Null \/ (OnList(freeListNext[b]) /\ freeListNext[b] # freeListHead)
       /\ \A c \in Blocks :
            OnList(c) /\ freeListNext[c] = freeListNext[b] /\ b # c => freeListNext[b] = Null

\* They are reached from the head, and so is the end.
Reached ==
  \A S \in SUBSET (Blocks \union {Null}) :
    Closed(S) => Null \in S /\ \A b \in Blocks : OnList(b) => b \in S

FreeListInv ==
  /\ FreeListTypeOK /\ OneOwner /\ BitsTell /\ CountsHolders
  /\ \A t \in Threads : ReadsHold(op[t])
  /\ Chained /\ Reached
-----------------------------------------------------------------------------
(* Types.                                                                  *)

\* Where a thread is when it is not in a call.
LEMMA IdleType == Idle \in Frame /\ NamesBlocks(Idle) /\ Idle.at = "idle"
BY DEF Idle, Frame, Stages, Refs, NamesBlocks

\* A thread that begins to try the head of the list, or goes on with it.
LEMMA TriesType ==
  ASSUME NEW h \in Blocks
  PROVE  LET o == [Idle EXCEPT !.at = "refs", !.getting = TRUE, !.head = h]
         IN  o \in Frame /\ NamesBlocks(o) /\ o.at = "refs"
BY DEF Idle, Frame, Stages, Refs, NamesBlocks

\* Where add_knowing_refcount_is_zero returns to.
LEMMA ReturnedType ==
  ASSUME NEW t \in Threads, op[t] \in Frame
  PROVE  /\ Returned(t) \in Frame /\ NamesBlocks(Returned(t))
         /\ Returned(t).at \in {"idle", "refs"}
<1>1. CASE op[t].getting /\ op[t].head # Null
  <2>1. op[t].head \in Blocks
    BY <1>1 DEF Frame
  <2> QED BY <1>1, <2>1, TriesType DEF Returned
<1>2. CASE ~ (op[t].getting /\ op[t].head # Null)
  BY <1>2, IdleType DEF Returned
<1> QED BY <1>1, <1>2

\* A step moves one thread.
LEMMA StepIs ==
  ASSUME FreeListTypeOK, NEW t \in Threads, NEW o, Step(t, o)
  PROVE  /\ op'[t] = o /\ \A u \in Threads : u # t => op'[u] = op[u]
         /\ o \in Frame /\ NamesBlocks(o) =>
              op' \in [Threads -> Frame] /\ \A u \in Threads : NamesBlocks(op'[u])
BY DEF FreeListTypeOK, Step

\* The stored data and the calls are of their types, if the thread's own is.
LEMMA TypeKept ==
  ASSUME FreeListTypeOK, NEW t \in Threads, NEW o \in Frame, NamesBlocks(o), Step(t, o),
         freeListHead' \in Blocks \union {Null},
         freeListNext' \in [Blocks -> Blocks \union {Null}],
         freeListRefs' \in [Blocks -> [should : BOOLEAN, count : Nat]],
         held' \in [Threads -> SUBSET Blocks]
  PROVE  FreeListTypeOK'
BY StepIs DEF FreeListTypeOK, NamesBlocks
-----------------------------------------------------------------------------
(* Counting.                                                               *)

\* How many hold a reference to a block.
LEMMA HoldersCount ==
  ASSUME NEW b
  PROVE  /\ IsFiniteSet(Holders(b)) /\ Cardinality(Holders(b)) \in Nat
         /\ Cardinality(Holders(b)) > 0 <=> \E t \in Threads : Holds(op[t], b)
<1>1. PICK H : H = Holders(b)
  OBVIOUS
<1>2. H = {t \in Threads : Holds(op[t], b)}
  BY <1>1 DEF Holders
<1>3. IsFiniteSet(H)
  <2>1. H \in SUBSET Threads
    BY <1>2
  <2> QED BY <2>1, FS_Subset, FreeListConstants
<1>4. Cardinality(H) \in Nat /\ (Cardinality(H) = 0 <=> H = {})
  BY <1>3, FS_CardinalityType, FS_EmptySet
<1> QED BY <1>1, <1>2, <1>3, <1>4

\* How that number changes with a thread.
LEMMA HoldersChange ==
  ASSUME NEW t \in Threads, \A u \in Threads : u # t => op'[u] = op[u], NEW b
  PROVE  /\ (Holds(op'[t], b) <=> Holds(op[t], b)) =>
              Cardinality(Holders(b)') = Cardinality(Holders(b))
         /\ Holds(op'[t], b) /\ ~ Holds(op[t], b) =>
              Cardinality(Holders(b)') = Cardinality(Holders(b)) + 1
         /\ ~ Holds(op'[t], b) /\ Holds(op[t], b) =>
              Cardinality(Holders(b)') = Cardinality(Holders(b)) - 1
<1>1. PICK H : H = Holders(b)
  OBVIOUS
<1>2. PICK J : J = Holders(b)'
  OBVIOUS
<1>3. /\ H = {u \in Threads : Holds(op[u], b)}
      /\ J = {u \in Threads : Holds(op'[u], b)}
  BY <1>1, <1>2 DEF Holders, Holds
<1>4. IsFiniteSet(H)
  BY <1>1, HoldersCount
<1>5. ASSUME Holds(op'[t], b) <=> Holds(op[t], b) PROVE J = H
  BY <1>3, <1>5
<1>6. ASSUME Holds(op'[t], b), ~ Holds(op[t], b) PROVE Cardinality(J) = Cardinality(H) + 1
  <2>1. J = H \union {t} /\ t \notin H
    BY <1>3, <1>6
  <2> QED BY <1>4, <2>1, FS_AddElement
<1>7. ASSUME ~ Holds(op'[t], b), Holds(op[t], b) PROVE Cardinality(J) = Cardinality(H) - 1
  <2>1. J = H \ {t} /\ t \in H
    BY <1>3, <1>7
  <2> QED BY <1>4, <2>1, FS_RemoveElement
<1> QED BY <1>1, <1>2, <1>5, <1>6, <1>7

\* A step of t that concerns the count of no block but b.
LEMMA CountsKept ==
  ASSUME FreeListInv, NEW t \in Threads, \A u \in Threads : u # t => op'[u] = op[u],
         NEW b \in Blocks,
         \A c \in Blocks : c # b =>
           /\ freeListRefs'[c] = freeListRefs[c] /\ (Owned(c)' <=> Owned(c))
           /\ Holds(op'[t], c) <=> Holds(op[t], c)
           /\ Popped(op'[t], c) <=> Popped(op[t], c),
         freeListRefs'[b].count = Cardinality(Holders(b)') + IF ListsRef(b)' THEN 1 ELSE 0
  PROVE  CountsHolders'
<1> SUFFICES ASSUME NEW c \in Blocks, c # b
             PROVE  freeListRefs'[c].count
                      = Cardinality(Holders(c)') + IF ListsRef(c)' THEN 1 ELSE 0
  BY DEF CountsHolders
<1>1. Cardinality(Holders(c)') = Cardinality(Holders(c))
  BY HoldersChange
<1>2. (\E u \in Threads : Popped(op'[u], c)) <=> \E u \in Threads : Popped(op[u], c)
  OBVIOUS
<1>3. ListsRef(c)' <=> ListsRef(c)
  BY <1>2 DEF ListsRef, Popped
<1> QED BY <1>1, <1>3 DEF FreeListInv, CountsHolders

\* A block somebody holds a reference to is not being linked.
LEMMA HeldNotAdded ==
  ASSUME FreeListInv, NEW t \in Threads, NEW b \in Blocks, Holds(op[t], b)
  PROVE  freeListRefs[b].count > 0 /\ \A u \in Threads : ~ Adds(op[u], b)
<1>1. Cardinality(Holders(b)) \in Nat /\ Cardinality(Holders(b)) > 0
  BY HoldersCount
<1>2. freeListRefs[b].count > 0
  BY <1>1 DEF FreeListInv, CountsHolders
<1> QED BY <1>2 DEF FreeListInv, BitsTell, Refs

-----------------------------------------------------------------------------
(* The invariant.                                                          *)

\* Who owns, holds and puts back the blocks, where no call of one changes.
LEMMA SameCalls ==
  ASSUME FreeListInv, UNCHANGED <<freeListRefs, held>>,
         \A u \in Threads, b \in Blocks :
           /\ Adds(op'[u], b) <=> Adds(op[u], b)
           /\ Pushes(op'[u], b) <=> Pushes(op[u], b)
           /\ Holds(op'[u], b) <=> Holds(op[u], b)
           /\ Popped(op'[u], b) <=> Popped(op[u], b)
  PROVE  OneOwner' /\ BitsTell' /\ CountsHolders'
<1>1. \A b \in Blocks : Owned(b)' <=> Owned(b)
  BY DEF Owned
<1>2. OneOwner'
  BY <1>1 DEF FreeListInv, OneOwner, Adds, Pushes, Popped
<1>3. BitsTell'
  <2> SUFFICES ASSUME NEW b \in Blocks
               PROVE  /\ Owned(b) => ~ freeListRefs[b].should
                      /\ \A u \in Threads :
                           /\ Adds(op'[u], b) => freeListRefs[b] = Refs(TRUE, 0)
                           /\ Pushes(op'[u], b) => ~ freeListRefs[b].should
                      /\ freeListRefs[b] = Refs(TRUE, 0) => \E u \in Threads : Adds(op'[u], b)
    BY <1>1 DEF BitsTell, Adds, Pushes
  <2> QED BY DEF FreeListInv, BitsTell
<1>4. CountsHolders'
  <2> SUFFICES ASSUME NEW b \in Blocks
               PROVE  freeListRefs[b].count
                        = Cardinality(Holders(b)') + IF ListsRef(b)' THEN 1 ELSE 0
    BY DEF CountsHolders
  <2>1. Cardinality(Holders(b)') = Cardinality(Holders(b))
    BY DEF Holders
  <2>2. ListsRef(b)' <=> ListsRef(b)
    BY <1>1 DEF ListsRef, Popped
  <2> QED BY <2>1, <2>2 DEF FreeListInv, CountsHolders
<1> QED BY <1>2, <1>3, <1>4

\* A step that changes nothing but where a thread is in its call.
LEMMA QuietInv ==
  ASSUME FreeListInv, FreeListTypeOK', NEW t \in Threads,
         \A u \in Threads : u # t => op'[u] = op[u],
         UNCHANGED <<freeListHead, freeListNext, freeListRefs, held>>,
         \A b \in Blocks :
           /\ Adds(op'[t], b) <=> Adds(op[t], b)
           /\ Pushes(op'[t], b) <=> Pushes(op[t], b)
           /\ Holds(op'[t], b) <=> Holds(op[t], b)
           /\ Popped(op'[t], b) <=> Popped(op[t], b),
         ReadsHold(op'[t])
  PROVE  FreeListInv'
<1>1. \A u \in Threads, b \in Blocks :
        /\ Adds(op'[u], b) <=> Adds(op[u], b)
        /\ Pushes(op'[u], b) <=> Pushes(op[u], b)
        /\ Holds(op'[u], b) <=> Holds(op[u], b)
        /\ Popped(op'[u], b) <=> Popped(op[u], b)
  OBVIOUS
<1>2. \A b \in Blocks : Owned(b)' <=> Owned(b)
  BY DEF Owned
<1>3. OneOwner' /\ BitsTell' /\ CountsHolders'
  BY <1>1, SameCalls
<1>4. \A u \in Threads : ReadsHold(op[u])'
  BY DEF FreeListInv, ReadsHold
<1>5. \A b : OnList(b)' <=> OnList(b)
  BY <1>1, <1>2 DEF OnList, Pushes
<1>6. Chained' /\ Reached'
  BY <1>5 DEF FreeListInv, Chained, Reached, Closed
<1> QED BY <1>3, <1>4, <1>6 DEF FreeListInv

\* The same, of the new state of the thread.
LEMMA QuietStep ==
  ASSUME FreeListInv, NEW t \in Threads, NEW o \in Frame, NamesBlocks(o), Step(t, o),
         UNCHANGED <<freeListHead, freeListNext, freeListRefs, held>>,
         \A b \in Blocks :
           /\ Adds(o, b) <=> Adds(op[t], b)
           /\ Pushes(o, b) <=> Pushes(op[t], b)
           /\ Holds(o, b) <=> Holds(op[t], b)
           /\ Popped(o, b) <=> Popped(op[t], b),
         ReadsHold(o)
  PROVE  FreeListInv'
<1>1. FreeListTypeOK'
  BY TypeKept DEF FreeListInv, FreeListTypeOK
<1>2. op'[t] = o /\ \A u \in Threads : u # t => op'[u] = op[u]
  BY StepIs DEF FreeListInv
<1> QED BY <1>1, <1>2, QuietInv

\* Reading the head, before a block is linked to it.
LEMMA loadHeadInv == ASSUME FreeListInv, NEW t \in Threads, loadHead(t) PROVE FreeListInv'
<1>1. PICK o : o = [op[t] EXCEPT !.at = "link", !.top = freeListHead]
  OBVIOUS
<1>2. op[t] \in Frame /\ op[t].at = "load" /\ NamesBlocks(op[t])
  BY DEF FreeListInv, FreeListTypeOK, loadHead, At
<1>3. o \in Frame /\ o.at = "link" /\ o.node = op[t].node
  BY <1>1, <1>2 DEF Frame, Stages, FreeListInv, FreeListTypeOK
<1>4. NamesBlocks(o) /\ ReadsHold(o)
  BY <1>2, <1>3 DEF NamesBlocks, ReadsHold
<1>5. Step(t, o) /\ UNCHANGED <<freeListHead, freeListNext, freeListRefs, held>>
  BY <1>1 DEF loadHead
<1> QED BY <1>2, <1>3, <1>4, <1>5, QuietStep DEF Adds, Pushes, Holds, Popped

\* Trying to get a block from a list that is not empty.
LEMMA triesInv == ASSUME FreeListInv, NEW t \in Threads, try_get(t) \/ reload(t) PROVE FreeListInv'
<1>1. op[t].at \in {"idle", "again"}
  BY DEF try_get, reload, At
<1>2. UNCHANGED <<freeListHead, freeListNext, freeListRefs, held>>
  BY DEF try_get, reload
<1>3. CASE Step(t, Idle)
  BY <1>1, <1>2, <1>3, IdleType, QuietStep DEF Adds, Pushes, Holds, Popped, ReadsHold
<1>4. CASE freeListHead # Null
           /\ Step(t, [Idle EXCEPT !.at = "refs", !.getting = TRUE, !.head = freeListHead])
  <2>1. PICK o : o = [Idle EXCEPT !.at = "refs", !.getting = TRUE, !.head = freeListHead]
    OBVIOUS
  <2>2. o \in Frame /\ NamesBlocks(o) /\ o.at = "refs"
    BY <1>4, <2>1, TriesType DEF FreeListInv, FreeListTypeOK
  <2> QED BY <1>1, <1>2, <1>4, <2>1, <2>2, QuietStep DEF Adds, Pushes, Holds, Popped, ReadsHold
<1> QED BY <1>3, <1>4 DEF try_get, reload

\* Reading the count.
LEMMA loadRefsInv == ASSUME FreeListInv, NEW t \in Threads, loadRefs(t) PROVE FreeListInv'
<1>1. PICK r : r = freeListRefs[op[t].head]
  OBVIOUS
<1>2. op[t] \in Frame /\ op[t].at = "refs" /\ NamesBlocks(op[t])
  BY DEF FreeListInv, FreeListTypeOK, loadRefs, At
<1>3. op[t].head \in Blocks /\ r \in [should : BOOLEAN, count : Nat]
  BY <1>1, <1>2 DEF NamesBlocks, FreeListInv, FreeListTypeOK
<1>4. PICK o : o = [op[t] EXCEPT !.seen = r, !.at = IF r.count = 0 THEN "again" ELSE "ref"]
  OBVIOUS
<1>5. /\ o \in Frame /\ o.at = (IF r.count = 0 THEN "again" ELSE "ref")
      /\ o.head = op[t].head /\ o.seen = r
  BY <1>2, <1>3, <1>4 DEF Frame, Stages
<1>6. NamesBlocks(o) /\ ReadsHold(o)
  BY <1>3, <1>5 DEF NamesBlocks, ReadsHold
<1>7. Step(t, o) /\ UNCHANGED <<freeListHead, freeListNext, freeListRefs, held>>
  BY <1>1, <1>4 DEF loadRefs
<1> QED BY <1>2, <1>5, <1>6, <1>7, QuietStep DEF Adds, Pushes, Holds, Popped

\* Reading the block below, which does not change while it is held.
LEMMA loadNextInv == ASSUME FreeListInv, NEW t \in Threads, loadNext(t) PROVE FreeListInv'
<1>1. PICK n : n = freeListNext[op[t].head]
  OBVIOUS
<1>2. op[t] \in Frame /\ op[t].at = "next" /\ NamesBlocks(op[t])
  BY DEF FreeListInv, FreeListTypeOK, loadNext, At
<1>3. op[t].head \in Blocks /\ n \in Blocks \union {Null}
  BY <1>1, <1>2 DEF NamesBlocks, FreeListInv, FreeListTypeOK
<1>4. PICK o : o = [op[t] EXCEPT !.at = "pop", !.next = n]
  OBVIOUS
<1>5. o \in Frame /\ o.at = "pop" /\ o.head = op[t].head /\ o.next = n
  BY <1>2, <1>3, <1>4 DEF Frame, Stages
<1>6. NamesBlocks(o) /\ ReadsHold(o)
  BY <1>1, <1>3, <1>5 DEF NamesBlocks, ReadsHold
<1>7. Step(t, o) /\ UNCHANGED <<freeListHead, freeListNext, freeListRefs, held>>
  BY <1>1, <1>4 DEF loadNext
<1> QED BY <1>2, <1>5, <1>6, <1>7, QuietStep DEF Adds, Pushes, Holds, Popped

\* A block to be linked above the head that was read: nobody is about to pop it.
LEMMA storeNextInv == ASSUME FreeListInv, NEW t \in Threads, storeNext(t) PROVE FreeListInv'
<1>1. PICK b : b = op[t].node
  OBVIOUS
<1>2. op[t] \in Frame /\ op[t].at = "link" /\ NamesBlocks(op[t])
  BY DEF FreeListInv, FreeListTypeOK, storeNext, At
<1>3. b \in Blocks /\ op[t].top \in Blocks \union {Null} /\ Adds(op[t], b)
  BY <1>1, <1>2 DEF NamesBlocks, Frame, Adds
<1>4. PICK o : o = [op[t] EXCEPT !.at = "count"]
  OBVIOUS
<1>5. o \in Frame /\ o.at = "count" /\ o.node = b /\ o.top = op[t].top
  BY <1>1, <1>2, <1>4 DEF Frame, Stages
<1>6. NamesBlocks(o)
  BY <1>3, <1>5 DEF NamesBlocks
<1>7. /\ Step(t, o) /\ UNCHANGED <<freeListHead, freeListRefs, held>>
      /\ freeListNext' = [freeListNext EXCEPT ![b] = op[t].top]
  BY <1>1, <1>4 DEF storeNext, Goto
<1>8. /\ op'[t] = o /\ \A u \in Threads : u # t => op'[u] = op[u]
      /\ FreeListTypeOK'
      /\ freeListNext'[b] = op[t].top /\ \A c \in Blocks : c # b => freeListNext'[c] = freeListNext[c]
  BY <1>3, <1>5, <1>6, <1>7, StepIs, TypeKept DEF FreeListInv, FreeListTypeOK
<1>9. \A u \in Threads, c \in Blocks :
        /\ Adds(op'[u], c) <=> Adds(op[u], c)
        /\ Pushes(op'[u], c) <=> Pushes(op[u], c)
        /\ Holds(op'[u], c) <=> Holds(op[u], c)
        /\ Popped(op'[u], c) <=> Popped(op[u], c)
  BY <1>1, <1>2, <1>5, <1>8 DEF Adds, Pushes, Holds, Popped
<1>10. freeListRefs[b] = Refs(TRUE, 0) /\ \A u \in Threads : ~ Holds(op[u], b)
  BY <1>3, HeldNotAdded DEF FreeListInv, BitsTell
<1>11. \A c \in Blocks : Owned(c)' <=> Owned(c)
  BY <1>7 DEF Owned
<1>12. OneOwner' /\ BitsTell' /\ CountsHolders'
  BY <1>7, <1>9, <1>11, SameCalls DEF FreeListInv
<1>13. ASSUME NEW u \in Threads PROVE ReadsHold(op[u])'
  <2>1. CASE u = t
    BY <1>5, <1>8, <2>1 DEF ReadsHold
  <2>2. CASE u # t
    <3>1. op'[u] = op[u] /\ NamesBlocks(op[u]) /\ ReadsHold(op[u])
      BY <1>8, <2>2 DEF FreeListInv, FreeListTypeOK
    <3>2. op[u].at \in {"count", "push"} => op[u].node # b
      BY <1>3, <2>2 DEF FreeListInv, OneOwner, Adds, Pushes
    <3>3. op[u].at = "pop" => op[u].head # b
      BY <1>10 DEF Holds
    <3> QED BY <1>8, <3>1, <3>2, <3>3 DEF ReadsHold, NamesBlocks
  <2> QED BY <2>1, <2>2
<1>14. ~ OnList(b) /\ \A c : OnList(c)' <=> OnList(c)
  BY <1>7, <1>9, <1>10, <1>11 DEF OnList, Refs, Pushes
<1>15. Chained'
  BY <1>7, <1>8, <1>14 DEF FreeListInv, Chained
<1>16. Reached'
  <2> SUFFICES ASSUME NEW S \in SUBSET (Blocks \union {Null}), Closed(S)'
               PROVE  Null \in S /\ \A c \in Blocks : OnList(c) => c \in S
    BY <1>14 DEF Reached
  <2>1. PICK T : T = {c \in S : c = Null \/ OnList(c)}
    OBVIOUS
  <2>2. Closed(T)
    BY <1>7, <1>8, <1>14, <2>1 DEF FreeListInv, Chained, Closed, FreeListTypeOK
  <2>3. T \in SUBSET (Blocks \union {Null})
    BY <2>1
  <2> QED BY <2>1, <2>2, <2>3 DEF FreeListInv, Reached
<1> QED BY <1>8, <1>12, <1>13, <1>15, <1>16 DEF FreeListInv

\* The count the block will be pushed with; from here on others may take it.
LEMMA storeRefsInv == ASSUME FreeListInv, NEW t \in Threads, storeRefs(t) PROVE FreeListInv'
<1>1. PICK b : b = op[t].node
  OBVIOUS
<1>2. op[t] \in Frame /\ op[t].at = "count" /\ NamesBlocks(op[t])
  BY DEF FreeListInv, FreeListTypeOK, storeRefs, At
<1>3. b \in Blocks /\ Adds(op[t], b)
  BY <1>1, <1>2 DEF NamesBlocks, Adds
<1>4. PICK o : o = [op[t] EXCEPT !.at = "push"]
  OBVIOUS
<1>5. o \in Frame /\ o.at = "push" /\ o.node = b /\ o.top = op[t].top
  BY <1>1, <1>2, <1>4 DEF Frame, Stages
<1>6. NamesBlocks(o)
  BY <1>3, <1>5 DEF NamesBlocks
<1>7. /\ Step(t, o) /\ UNCHANGED <<freeListHead, freeListNext, held>>
      /\ freeListRefs' = [freeListRefs EXCEPT ![b] = Refs(FALSE, 1)]
  BY <1>1, <1>4 DEF storeRefs, Goto
<1>8. /\ op'[t] = o /\ \A u \in Threads : u # t => op'[u] = op[u]
      /\ freeListRefs'[b].should = FALSE /\ freeListRefs'[b].count = 1
      /\ \A c \in Blocks : c # b => freeListRefs'[c] = freeListRefs[c]
      /\ freeListRefs' \in [Blocks -> [should : BOOLEAN, count : Nat]]
  BY <1>3, <1>7, StepIs DEF FreeListInv, FreeListTypeOK, Refs
<1>9. FreeListTypeOK'
  BY <1>5, <1>6, <1>7, <1>8, TypeKept DEF FreeListInv, FreeListTypeOK
<1>10. \A c \in Blocks :
         /\ Adds(op'[t], c) <=> FALSE
         /\ Pushes(op'[t], c) <=> c = b
         /\ Adds(op[t], c) <=> c = b
         /\ Holds(op'[t], c) <=> Holds(op[t], c)
         /\ Popped(op'[t], c) <=> Popped(op[t], c)
  BY <1>1, <1>2, <1>5, <1>8 DEF Adds, Pushes, Holds, Popped
<1>11. /\ freeListRefs[b].should = TRUE /\ freeListRefs[b].count = 0
       /\ ~ Owned(b) /\ \A u \in Threads : ~ Holds(op[u], b)
       /\ \A u \in Threads : u # t => ~ Adds(op[u], b) /\ ~ Pushes(op[u], b)
  BY <1>3, HeldNotAdded DEF FreeListInv, BitsTell, OneOwner, Refs
<1>12. \A c \in Blocks : Owned(c)' <=> Owned(c)
  BY <1>7 DEF Owned
<1>13. OneOwner'
  BY <1>7, <1>8, <1>10, <1>11, <1>12 DEF FreeListInv, OneOwner, Adds, Pushes, Popped
<1>14. BitsTell'
  <2> SUFFICES ASSUME NEW c \in Blocks
               PROVE  /\ Owned(c) => ~ freeListRefs'[c].should
                      /\ \A u \in Threads :
                           /\ Adds(op'[u], c) => freeListRefs'[c] = Refs(TRUE, 0)
                           /\ Pushes(op'[u], c) => ~ freeListRefs'[c].should
                      /\ freeListRefs'[c] = Refs(TRUE, 0) => \E u \in Threads : Adds(op'[u], c)
    BY <1>12 DEF BitsTell, Adds, Pushes
  <2>1. CASE c = b
    BY <1>8, <1>10, <1>11, <2>1 DEF Refs
  <2>2. CASE c # b
    BY <1>8, <1>10, <2>2 DEF FreeListInv, BitsTell
  <2> QED BY <2>1, <2>2
<1>15. CountsHolders'
  <2>1. Cardinality(Holders(b)') = Cardinality(Holders(b)) /\ Cardinality(Holders(b)) \in Nat
    BY <1>3, <1>8, <1>10, HoldersChange, HoldersCount
  <2>2. ListsRef(b)' /\ ~ ListsRef(b)
    BY <1>3, <1>8, <1>11, <1>12 DEF ListsRef
  <2>3. Cardinality(Holders(b)) = 0
    BY <1>3, <1>11, <2>1, <2>2 DEF FreeListInv, CountsHolders
  <2> QED BY <1>3, <1>8, <1>10, <1>12, <2>1, <2>2, <2>3, CountsKept
<1>16. ASSUME NEW u \in Threads PROVE ReadsHold(op[u])'
  <2>1. CASE u = t
    BY <1>2, <1>1, <1>5, <1>7, <1>8, <2>1 DEF FreeListInv, ReadsHold
  <2>2. CASE u # t
    BY <1>7, <1>8, <2>2 DEF FreeListInv, ReadsHold
  <2> QED BY <2>1, <2>2
<1>17. \A c : OnList(c)' <=> OnList(c)
  <2>1. ~ OnList(b)
    BY <1>11 DEF OnList
  <2>2. ~ OnList(b)'
    BY <1>3, <1>10 DEF OnList, Pushes
  <2>3. ASSUME NEW c \in Blocks, c # b PROVE OnList(c)' <=> OnList(c)
    <3>1. \A u \in Threads : Pushes(op'[u], c) <=> Pushes(op[u], c)
      <4>1. ~ Pushes(op'[t], c) /\ ~ Pushes(op[t], c)
        BY <1>2, <1>10, <2>3 DEF Pushes
      <4> QED BY <1>8, <4>1
    <3> QED BY <1>8, <1>12, <2>3, <3>1 DEF OnList, Pushes
  <2> QED BY <2>1, <2>2, <2>3 DEF OnList
<1>18. Chained' /\ Reached'
  BY <1>7, <1>17 DEF FreeListInv, Chained, Reached, Closed
<1> QED BY <1>9, <1>13, <1>14, <1>15, <1>16, <1>18 DEF FreeListInv

\* The block is on the list, above what was the head.
LEMMA pushInv == ASSUME FreeListInv, NEW t \in Threads, push(t) PROVE FreeListInv'
<1>1. PICK b : b = op[t].node
  OBVIOUS
<1>2. op[t] \in Frame /\ op[t].at = "push" /\ NamesBlocks(op[t])
  BY DEF FreeListInv, FreeListTypeOK, push, At
<1>3. b \in Blocks /\ b # Null /\ Pushes(op[t], b) /\ freeListNext[b] = op[t].top
  BY <1>1, <1>2, FreeListConstants DEF NamesBlocks, Pushes, FreeListInv, ReadsHold
<1>4. CASE freeListHead # op[t].top
  <2>1. PICK o : o = [op[t] EXCEPT !.at = "giveUp", !.top = freeListHead]
    OBVIOUS
  <2>2. o \in Frame /\ o.at = "giveUp" /\ o.node = b
    BY <1>1, <1>2, <2>1 DEF Frame, Stages, FreeListInv, FreeListTypeOK
  <2>3. NamesBlocks(o) /\ ReadsHold(o)
    BY <1>3, <2>2 DEF NamesBlocks, ReadsHold
  <2>4. Step(t, o) /\ UNCHANGED <<freeListHead, freeListNext, freeListRefs, held>>
    BY <1>4, <2>1 DEF push
  <2> QED BY <1>1, <1>2, <2>2, <2>3, <2>4, QuietStep DEF Adds, Pushes, Holds, Popped
<1>5. CASE freeListHead = op[t].top
  <2>1. PICK o : o = Returned(t)
    OBVIOUS
  <2>2. o \in Frame /\ NamesBlocks(o) /\ o.at \in {"idle", "refs"}
    BY <1>2, <2>1, ReturnedType
  <2>3. /\ Step(t, o) /\ freeListHead' = b
        /\ UNCHANGED <<freeListNext, freeListRefs, held>>
    BY <1>1, <1>5, <2>1 DEF push
  <2>4. /\ op'[t] = o /\ \A u \in Threads : u # t => op'[u] = op[u]
        /\ FreeListTypeOK'
    BY <1>3, <2>2, <2>3, StepIs, TypeKept DEF FreeListInv, FreeListTypeOK
  <2>5. \A c \in Blocks :
          /\ Pushes(op[t], c) <=> c = b
          /\ ~ Adds(op'[t], c) /\ ~ Pushes(op'[t], c) /\ ~ Holds(op'[t], c) /\ ~ Popped(op'[t], c)
          /\ ~ Adds(op[t], c) /\ ~ Holds(op[t], c) /\ ~ Popped(op[t], c)
    BY <1>1, <1>2, <2>2, <2>4 DEF Adds, Pushes, Holds, Popped
  <2>6. /\ ~ Owned(b) /\ ~ freeListRefs[b].should
        /\ \A u \in Threads : u # t => ~ Pushes(op[u], b)
    BY <1>3 DEF FreeListInv, BitsTell, OneOwner
  <2>7. \A c \in Blocks : Owned(c)' <=> Owned(c)
    BY <2>3 DEF Owned
  <2>8. OneOwner'
    BY <2>3, <2>4, <2>5, <2>7 DEF FreeListInv, OneOwner, Adds, Pushes, Popped
  <2>9. BitsTell'
    <3> SUFFICES ASSUME NEW c \in Blocks
                 PROVE  /\ Owned(c) => ~ freeListRefs[c].should
                        /\ \A u \in Threads :
                             /\ Adds(op'[u], c) => freeListRefs[c] = Refs(TRUE, 0)
                             /\ Pushes(op'[u], c) => ~ freeListRefs[c].should
                        /\ freeListRefs[c] = Refs(TRUE, 0) => \E u \in Threads : Adds(op'[u], c)
      BY <2>3, <2>7 DEF BitsTell, Adds, Pushes
    <3> QED BY <2>4, <2>5 DEF FreeListInv, BitsTell
  <2>10. CountsHolders'
    <3>1. ListsRef(b)' /\ ListsRef(b)
      BY <1>3, <2>3, <2>6, <2>7 DEF ListsRef
    <3>2. Cardinality(Holders(b)') = Cardinality(Holders(b))
      BY <1>3, <2>4, <2>5, HoldersChange
    <3> QED BY <1>3, <2>3, <2>4, <2>5, <2>7, <3>1, <3>2, CountsKept DEF FreeListInv, CountsHolders
  <2>11. ASSUME NEW u \in Threads PROVE ReadsHold(op[u])'
    BY <2>2, <2>3, <2>4 DEF FreeListInv, ReadsHold
  <2>12. \A c : OnList(c)' <=> OnList(c) \/ c = b
    BY <1>3, <2>3, <2>4, <2>5, <2>6, <2>7 DEF OnList, Pushes
  <2>13. ~ OnList(b)
    BY <1>3 DEF OnList
  <2>14. Chained'
    <3>1. freeListNext[b] = freeListHead
      BY <1>3, <1>5
    <3>2. OnList(b)' /\ freeListHead' = b
      BY <2>3, <2>12
    <3>3. ASSUME NEW c \in Blocks, OnList(c) \/ c = b
          PROVE  /\ freeListNext[c] = Null \/ OnList(freeListNext[c])
                 /\ freeListNext[c] # b
                 /\ \A d \in Blocks : (OnList(d) \/ d = b) /\ freeListNext[d] = freeListNext[c] /\ c # d
                      => freeListNext[c] = Null
      BY <1>3, <2>13, <3>1, <3>3 DEF FreeListInv, Chained
    <3> QED BY <2>3, <2>12, <3>2, <3>3 DEF Chained
  <2>15. Reached'
    <3> SUFFICES ASSUME NEW S \in SUBSET (Blocks \union {Null}), Closed(S)'
                 PROVE  Null \in S /\ \A c \in Blocks : OnList(c) \/ c = b => c \in S
      BY <2>12 DEF Reached
    <3>1. Closed(S) /\ b \in S
      BY <1>3, <1>5, <2>3 DEF Closed
    <3> QED BY <3>1 DEF FreeListInv, Reached
  <2> QED BY <2>4, <2>8, <2>9, <2>10, <2>11, <2>14, <2>15 DEF FreeListInv
<1> QED BY <1>4, <1>5

\* Others took references meanwhile, and one of them will put the block back;
\* or they are gone, and it is tried again.
LEMMA giveUpInv == ASSUME FreeListInv, NEW t \in Threads, giveUp(t) PROVE FreeListInv'
<1>1. PICK b : b = op[t].node
  OBVIOUS
<1>2. op[t] \in Frame /\ op[t].at = "giveUp" /\ NamesBlocks(op[t])
  BY DEF FreeListInv, FreeListTypeOK, giveUp, At
<1>3. b \in Blocks /\ Pushes(op[t], b)
  BY <1>1, <1>2 DEF NamesBlocks, Pushes
<1>4. /\ freeListRefs[b].should = FALSE /\ ~ Owned(b)
      /\ \A u \in Threads : u # t => ~ Adds(op[u], b) /\ ~ Pushes(op[u], b)
      /\ \A u \in Threads : ~ Popped(op[u], b)
  BY <1>3 DEF FreeListInv, BitsTell, OneOwner, FreeListTypeOK, Owned
<1>5. PICK n \in Nat : n = Cardinality(Holders(b)) /\ freeListRefs[b].count = n + 1
  <2>1. ListsRef(b)
    BY <1>4 DEF ListsRef
  <2>2. Cardinality(Holders(b)) \in Nat
    BY HoldersCount
  <2> QED BY <1>3, <2>1, <2>2 DEF FreeListInv, CountsHolders
<1>6. freeListRefs[b] = Refs(FALSE, 1) <=> n = 0
  BY <1>3, <1>4, <1>5 DEF Refs, FreeListInv, FreeListTypeOK
<1>7. PICK o : o = IF n = 0 THEN [op[t] EXCEPT !.at = "link"] ELSE Returned(t)
  OBVIOUS
<1>8. /\ o \in Frame /\ NamesBlocks(o)
      /\ n = 0 => o.at = "link" /\ o.node = b
      /\ n # 0 => o.at \in {"idle", "refs"}
  <2>1. PICK r : r = [op[t] EXCEPT !.at = "link"]
    OBVIOUS
  <2>2. r \in Frame /\ r.at = "link" /\ r.node = b
    BY <1>1, <1>2, <2>1 DEF Frame, Stages
  <2>3. NamesBlocks(r)
    BY <1>3, <2>2 DEF NamesBlocks
  <2> QED BY <1>2, <1>7, <2>1, <2>2, <2>3, ReturnedType
<1>9. /\ Step(t, o) /\ UNCHANGED <<freeListHead, freeListNext, held>>
      /\ freeListRefs' = [freeListRefs EXCEPT ![b] = Refs(TRUE, n)]
  <2>1. (n + 1) - 1 = n
    OBVIOUS
  <2> QED BY <1>1, <1>5, <1>6, <1>7, <2>1 DEF giveUp
<1>10. /\ op'[t] = o /\ \A u \in Threads : u # t => op'[u] = op[u]
       /\ freeListRefs'[b] = Refs(TRUE, n)
       /\ freeListRefs'[b].should = TRUE /\ freeListRefs'[b].count = n
       /\ \A c \in Blocks : c # b => freeListRefs'[c] = freeListRefs[c]
       /\ freeListRefs' \in [Blocks -> [should : BOOLEAN, count : Nat]]
  BY <1>3, <1>9, StepIs DEF FreeListInv, FreeListTypeOK, Refs
<1>11. FreeListTypeOK'
  BY <1>8, <1>9, <1>10, TypeKept DEF FreeListInv, FreeListTypeOK
<1>12. \A c \in Blocks :
         /\ Adds(op'[t], c) <=> c = b /\ n = 0
         /\ ~ Pushes(op'[t], c)
         /\ ~ Adds(op[t], c) /\ (Pushes(op[t], c) <=> c = b)
         /\ ~ Holds(op'[t], c) /\ ~ Holds(op[t], c)
         /\ ~ Popped(op'[t], c) /\ ~ Popped(op[t], c)
  BY <1>1, <1>2, <1>8, <1>10 DEF Adds, Pushes, Holds, Popped
<1>13. \A c \in Blocks : Owned(c)' <=> Owned(c)
  BY <1>9 DEF Owned
<1>14. OneOwner'
  BY <1>4, <1>9, <1>10, <1>12, <1>13 DEF FreeListInv, OneOwner, Adds, Pushes, Popped
<1>15. BitsTell'
  <2> SUFFICES ASSUME NEW c \in Blocks
               PROVE  /\ Owned(c) => ~ freeListRefs'[c].should
                      /\ \A u \in Threads :
                           /\ Adds(op'[u], c) => freeListRefs'[c] = Refs(TRUE, 0)
                           /\ Pushes(op'[u], c) => ~ freeListRefs'[c].should
                      /\ freeListRefs'[c] = Refs(TRUE, 0) => \E u \in Threads : Adds(op'[u], c)
    BY <1>13 DEF BitsTell, Adds, Pushes
  <2>1. CASE c = b
    <3>1. Refs(TRUE, n) = Refs(TRUE, 0) => n = 0
      BY DEF Refs
    <3> QED BY <1>4, <1>10, <1>12, <2>1, <3>1
  <2>2. CASE c # b
    BY <1>10, <1>12, <2>2 DEF FreeListInv, BitsTell
  <2> QED BY <2>1, <2>2
<1>16. CountsHolders'
  <2>1. Cardinality(Holders(b)') = n
    BY <1>3, <1>5, <1>10, <1>12, HoldersChange
  <2>2. ~ ListsRef(b)'
    BY <1>10 DEF ListsRef
  <2>3. freeListRefs'[b].count = Cardinality(Holders(b)') + IF ListsRef(b)' THEN 1 ELSE 0
    <3>1. freeListRefs'[b].count = n /\ n = n + 0
      <4>1. n = n + 0
        OBVIOUS
      <4> QED BY <1>10, <4>1
    <3> QED BY <2>1, <2>2, <3>1
  <2>4. \A u \in Threads : u # t => op'[u] = op[u]
    BY <1>10
  <2> QED BY <1>3, <1>10, <1>12, <1>13, <2>3, <2>4, CountsKept
<1>17. ASSUME NEW u \in Threads PROVE ReadsHold(op[u])'
  BY <1>8, <1>9, <1>10 DEF FreeListInv, ReadsHold
<1>18. \A c : OnList(c)' <=> OnList(c)
  <2>1. ~ OnList(b)
    BY <1>3 DEF OnList
  <2>2. ~ OnList(b)'
    BY <1>10 DEF OnList
  <2>3. ASSUME NEW c \in Blocks, c # b PROVE OnList(c)' <=> OnList(c)
    BY <1>10, <1>12, <1>13, <2>3 DEF OnList, Pushes
  <2> QED BY <2>1, <2>2, <2>3 DEF OnList
<1>19. Chained' /\ Reached'
  BY <1>9, <1>18 DEF FreeListInv, Chained, Reached, Closed
<1> QED BY <1>11, <1>14, <1>15, <1>16, <1>17, <1>19 DEF FreeListInv

\* A block is put back by its owner, or by the last who holds a reference.
LEMMA addInv == ASSUME FreeListInv, NEW t \in Threads, NEW b \in held[t], add(t, b) PROVE FreeListInv'
<1>1. PICK r : r = freeListRefs[b]
  OBVIOUS
<1>2. /\ op[t] \in Frame /\ op[t].at = "idle" /\ b \in Blocks /\ NamesBlocks(op[t])
      /\ r \in [should : BOOLEAN, count : Nat]
  BY <1>1 DEF FreeListInv, FreeListTypeOK, add, At
<1>3. /\ Owned(b) /\ r.should = FALSE
      /\ \A u \in Threads : /\ ~ Adds(op[u], b) /\ ~ Pushes(op[u], b) /\ ~ Popped(op[u], b)
                            /\ u # t => b \notin held[u]
  <2>1. Owned(b)
    BY DEF Owned
  <2>2. \A u \in Threads : Popped(op[u], b) => u = t
    BY <1>2 DEF FreeListInv, OneOwner
  <2>3. ~ Popped(op[t], b)
    BY <1>2 DEF Popped
  <2> QED BY <1>1, <1>2, <2>1, <2>2, <2>3 DEF FreeListInv, OneOwner, BitsTell
<1>4. Cardinality(Holders(b)) = r.count
  <2>1. ~ ListsRef(b)
    BY <1>3 DEF ListsRef
  <2>2. Cardinality(Holders(b)) \in Nat
    BY HoldersCount
  <2> QED BY <1>1, <1>2, <2>1, <2>2 DEF FreeListInv, CountsHolders
<1>5. PICK o : o = IF r.count = 0 THEN [op[t] EXCEPT !.at = "load", !.node = b] ELSE op[t]
  OBVIOUS
<1>6. /\ o \in Frame
      /\ r.count = 0 => o.at = "load" /\ o.node = b
      /\ r.count # 0 => o = op[t]
  BY <1>2, <1>5 DEF Frame, Stages
<1>7. NamesBlocks(o)
  BY <1>2, <1>6 DEF NamesBlocks
<1>8. PICK s : s = [r EXCEPT !.should = TRUE]
  OBVIOUS
<1>9. s \in [should : BOOLEAN, count : Nat] /\ s.should = TRUE /\ s.count = r.count
  BY <1>2, <1>8
<1>10. /\ Step(t, o) /\ UNCHANGED <<freeListHead, freeListNext>>
       /\ freeListRefs' = [freeListRefs EXCEPT ![b] = s]
       /\ held' = [held EXCEPT ![t] = @ \ {b}]
  <2>1. r = Refs(FALSE, 0) <=> r.count = 0
    BY <1>2, <1>3 DEF Refs
  <2>2. freeListRefs' = [freeListRefs EXCEPT ![b] = s]
    BY <1>1, <1>8 DEF add
  <2>3. Step(t, o)
    <3>1. CASE r.count = 0
      BY <1>1, <1>5, <2>1, <3>1 DEF add, PutBack
    <3>2. CASE r.count # 0
      <4>1. op' = op /\ o = op[t]
        BY <1>1, <1>5, <2>1, <3>2 DEF add
      <4> QED BY <4>1 DEF Step, FreeListInv, FreeListTypeOK
    <3> QED BY <3>1, <3>2
  <2> QED BY <2>2, <2>3 DEF add
<1>11. /\ op'[t] = o /\ \A u \in Threads : u # t => op'[u] = op[u]
       /\ freeListRefs'[b] = s /\ \A c \in Blocks : c # b => freeListRefs'[c] = freeListRefs[c]
       /\ freeListRefs' \in [Blocks -> [should : BOOLEAN, count : Nat]]
       /\ held' \in [Threads -> SUBSET Blocks]
       /\ held'[t] = held[t] \ {b} /\ \A u \in Threads : u # t => held'[u] = held[u]
  BY <1>2, <1>9, <1>10, StepIs DEF FreeListInv, FreeListTypeOK
<1>12. FreeListTypeOK'
  BY <1>6, <1>7, <1>10, <1>11, TypeKept DEF FreeListInv, FreeListTypeOK
<1>13. \A c \in Blocks :
         /\ Adds(op'[t], c) <=> c = b /\ r.count = 0
         /\ ~ Pushes(op'[t], c) /\ ~ Holds(op'[t], c) /\ ~ Popped(op'[t], c)
         /\ ~ Adds(op[t], c) /\ ~ Pushes(op[t], c) /\ ~ Holds(op[t], c) /\ ~ Popped(op[t], c)
  BY <1>2, <1>6, <1>11 DEF Adds, Pushes, Holds, Popped
<1>14. /\ ~ Owned(b)' /\ \A c \in Blocks : c # b => (Owned(c)' <=> Owned(c))
  BY <1>3, <1>11 DEF Owned
<1>15. OneOwner'
  <2> SUFFICES ASSUME NEW c \in Blocks, NEW u \in Threads, NEW w \in Threads
               PROVE  /\ c \in held'[u] /\ c \in held'[w] => u = w
                      /\ Adds(op'[u], c) \/ Pushes(op'[u], c) =>
                           /\ ~ Owned(c)'
                           /\ Adds(op'[w], c) \/ Pushes(op'[w], c) => u = w
                      /\ Popped(op'[u], c) => c \in held'[u]
    BY DEF OneOwner, Adds, Pushes, Popped
  <2>1. CASE c = b
    BY <1>3, <1>11, <1>13, <1>14, <2>1
  <2>2. CASE c # b
    BY <1>11, <1>13, <1>14, <2>2 DEF FreeListInv, OneOwner
  <2> QED BY <2>1, <2>2
<1>16. BitsTell'
  <2> SUFFICES ASSUME NEW c \in Blocks
               PROVE  /\ Owned(c)' => ~ freeListRefs'[c].should
                      /\ \A u \in Threads :
                           /\ Adds(op'[u], c) => freeListRefs'[c] = Refs(TRUE, 0)
                           /\ Pushes(op'[u], c) => ~ freeListRefs'[c].should
                      /\ freeListRefs'[c] = Refs(TRUE, 0) => \E u \in Threads : Adds(op'[u], c)
    BY DEF BitsTell, Adds, Pushes
  <2>1. CASE c = b
    <3>1. s = Refs(TRUE, 0) <=> r.count = 0
      BY <1>9 DEF Refs
    <3> QED BY <1>3, <1>11, <1>13, <1>14, <2>1, <3>1
  <2>2. CASE c # b
    BY <1>11, <1>13, <1>14, <2>2 DEF FreeListInv, BitsTell
  <2> QED BY <2>1, <2>2
<1>17. CountsHolders'
  <2>1. Cardinality(Holders(b)') = r.count
    BY <1>2, <1>4, <1>11, <1>13, HoldersChange
  <2>2. ~ ListsRef(b)' /\ r.count \in Nat
    BY <1>2, <1>9, <1>11 DEF ListsRef
  <2> QED BY <1>2, <1>9, <1>11, <1>13, <1>14, <2>1, <2>2, CountsKept
<1>18. ASSUME NEW u \in Threads PROVE ReadsHold(op[u])'
  BY <1>2, <1>6, <1>10, <1>11 DEF FreeListInv, ReadsHold
<1>19. \A c : OnList(c)' <=> OnList(c)
  <2>1. ~ OnList(b)
    BY <1>3 DEF OnList
  <2>2. ~ OnList(b)'
    BY <1>9, <1>11 DEF OnList
  <2>3. ASSUME NEW c \in Blocks, c # b PROVE OnList(c)' <=> OnList(c)
    BY <1>11, <1>13, <1>14, <2>3 DEF OnList, Pushes
  <2> QED BY <2>1, <2>2, <2>3 DEF OnList
<1>20. Chained' /\ Reached'
  BY <1>10, <1>19 DEF FreeListInv, Chained, Reached, Closed
<1> QED BY <1>12, <1>15, <1>16, <1>17, <1>18, <1>20 DEF FreeListInv

\* Another reference to a block whose count is not zero.
LEMMA takeRefInv == ASSUME FreeListInv, NEW t \in Threads, takeRef(t) PROVE FreeListInv'
<1>1. PICK b : b = op[t].head
  OBVIOUS
<1>2. op[t] \in Frame /\ op[t].at = "ref" /\ NamesBlocks(op[t])
  BY DEF FreeListInv, FreeListTypeOK, takeRef, At
<1>3. b \in Blocks /\ op[t].seen.count # 0
  BY <1>1, <1>2 DEF NamesBlocks, FreeListInv, ReadsHold
<1>4. CASE freeListRefs[b] # op[t].seen
  <2>1. PICK o : o = [op[t] EXCEPT !.at = "again"]
    OBVIOUS
  <2>2. o \in Frame /\ o.at = "again"
    BY <1>2, <2>1 DEF Frame, Stages
  <2>3. NamesBlocks(o) /\ ReadsHold(o)
    BY <2>2 DEF NamesBlocks, ReadsHold
  <2>4. Step(t, o) /\ UNCHANGED <<freeListHead, freeListNext, freeListRefs, held>>
    BY <1>1, <1>4, <2>1 DEF takeRef, Goto
  <2> QED BY <1>2, <2>2, <2>3, <2>4, QuietStep DEF Adds, Pushes, Holds, Popped
<1>5. CASE freeListRefs[b] = op[t].seen
  <2>1. PICK o : o = [op[t] EXCEPT !.at = "next"]
    OBVIOUS
  <2>2. o \in Frame /\ o.at = "next" /\ o.head = b
    BY <1>1, <1>2, <2>1 DEF Frame, Stages
  <2>3. NamesBlocks(o) /\ ReadsHold(o)
    BY <1>3, <2>2 DEF NamesBlocks, ReadsHold
  <2>4. PICK r : r = [freeListRefs[b] EXCEPT !.count = @ + 1]
    OBVIOUS
  <2>5. /\ r \in [should : BOOLEAN, count : Nat]
        /\ r.should = freeListRefs[b].should /\ r.count = freeListRefs[b].count + 1
    BY <1>3, <2>4 DEF FreeListInv, FreeListTypeOK
  <2>6. /\ Step(t, o) /\ UNCHANGED <<freeListHead, freeListNext, held>>
        /\ freeListRefs' = [freeListRefs EXCEPT ![b] = r]
    BY <1>1, <1>5, <2>1, <2>4 DEF takeRef, Goto
  <2>7. /\ op'[t] = o /\ \A u \in Threads : u # t => op'[u] = op[u]
        /\ freeListRefs'[b] = r /\ \A c \in Blocks : c # b => freeListRefs'[c] = freeListRefs[c]
        /\ freeListRefs' \in [Blocks -> [should : BOOLEAN, count : Nat]]
    BY <1>3, <2>5, <2>6, StepIs DEF FreeListInv, FreeListTypeOK
  <2>8. FreeListTypeOK'
    BY <2>2, <2>3, <2>6, <2>7, TypeKept DEF FreeListInv, FreeListTypeOK
  <2>9. \A c \in Blocks :
          /\ ~ Adds(op'[t], c) /\ ~ Pushes(op'[t], c) /\ ~ Popped(op'[t], c)
          /\ ~ Adds(op[t], c) /\ ~ Pushes(op[t], c) /\ ~ Popped(op[t], c)
          /\ Holds(op'[t], c) <=> c = b
          /\ ~ Holds(op[t], c)
    BY <1>2, <2>2, <2>7 DEF Adds, Pushes, Holds, Popped
  <2>10. \A u \in Threads, c \in Blocks :
           /\ Adds(op'[u], c) <=> Adds(op[u], c)
           /\ Pushes(op'[u], c) <=> Pushes(op[u], c)
           /\ Popped(op'[u], c) <=> Popped(op[u], c)
    BY <2>7, <2>9
  <2>11. /\ \A c \in Blocks : Owned(c)' <=> Owned(c)
         /\ \A c \in Blocks : freeListRefs'[c].should = freeListRefs[c].should
    BY <1>3, <2>5, <2>6, <2>7 DEF Owned
  <2>12. freeListRefs[b].count # 0 /\ \A u \in Threads : ~ Adds(op[u], b)
    BY <1>3, <1>5 DEF FreeListInv, BitsTell, Refs
  <2>13. OneOwner'
    BY <2>6, <2>10, <2>11 DEF FreeListInv, OneOwner, Adds, Pushes, Popped
  <2>14. BitsTell'
    <3> SUFFICES ASSUME NEW c \in Blocks
                 PROVE  /\ Owned(c) => ~ freeListRefs'[c].should
                        /\ \A u \in Threads :
                             /\ Adds(op'[u], c) => freeListRefs'[c] = Refs(TRUE, 0)
                             /\ Pushes(op'[u], c) => ~ freeListRefs'[c].should
                        /\ freeListRefs'[c] = Refs(TRUE, 0) => \E u \in Threads : Adds(op'[u], c)
      BY <2>11 DEF BitsTell, Adds, Pushes
    <3>1. CASE c = b
      <4>1. r # Refs(TRUE, 0)
        BY <1>3, <2>5 DEF Refs, FreeListInv, FreeListTypeOK
      <4> QED BY <2>7, <2>10, <2>11, <2>12, <3>1, <4>1 DEF FreeListInv, BitsTell
    <3>2. CASE c # b
      BY <2>7, <2>10, <3>2 DEF FreeListInv, BitsTell
    <3> QED BY <3>1, <3>2
  <2>15. CountsHolders'
    <3>1. Cardinality(Holders(b)') = Cardinality(Holders(b)) + 1
      BY <1>3, <2>7, <2>9, HoldersChange
    <3>2. ListsRef(b)' <=> ListsRef(b)
      BY <1>3, <2>10, <2>11 DEF ListsRef, Popped
    <3>3. freeListRefs[b].count = Cardinality(Holders(b)) + IF ListsRef(b) THEN 1 ELSE 0
      BY <1>3 DEF FreeListInv, CountsHolders
    <3>4. freeListRefs'[b].count = Cardinality(Holders(b)') + IF ListsRef(b)' THEN 1 ELSE 0
      BY <2>5, <2>7, <3>1, <3>2, <3>3, HoldersCount
    <3> QED BY <1>3, <2>7, <2>9, <2>11, <3>4, CountsKept
  <2>16. ASSUME NEW u \in Threads PROVE ReadsHold(op[u])'
    BY <2>2, <2>6, <2>7 DEF FreeListInv, ReadsHold
  <2>17. \A c : OnList(c)' <=> OnList(c)
    BY <2>10, <2>11 DEF OnList, Pushes
  <2>18. Chained' /\ Reached'
    BY <2>6, <2>17 DEF FreeListInv, Chained, Reached, Closed
  <2> QED BY <2>8, <2>13, <2>14, <2>15, <2>16, <2>18 DEF FreeListInv
<1> QED BY <1>4, <1>5

\* The head is taken off the list: nobody owned it, and what was read below it
\* is still there.
LEMMA popInv == ASSUME FreeListInv, NEW t \in Threads, pop(t) PROVE FreeListInv'
<1>1. PICK b : b = op[t].head
  OBVIOUS
<1>2. op[t] \in Frame /\ op[t].at = "pop" /\ NamesBlocks(op[t])
  BY DEF FreeListInv, FreeListTypeOK, pop, At
<1>3. b \in Blocks /\ b # Null /\ freeListNext[b] = op[t].next /\ Holds(op[t], b)
  BY <1>1, <1>2, FreeListConstants DEF NamesBlocks, FreeListInv, ReadsHold, Holds
<1>4. CASE freeListHead # b
  <2>1. PICK o : o = [op[t] EXCEPT !.at = "unref", !.node = op[t].head, !.head = freeListHead]
    OBVIOUS
  <2>2. o \in Frame /\ o.at = "unref" /\ o.node = b
    BY <1>1, <1>2, <2>1 DEF Frame, Stages, FreeListInv, FreeListTypeOK
  <2>3. NamesBlocks(o) /\ ReadsHold(o)
    BY <1>3, <2>2 DEF NamesBlocks, ReadsHold
  <2>4. Step(t, o) /\ UNCHANGED <<freeListHead, freeListNext, freeListRefs, held>>
    BY <1>1, <1>4, <2>1 DEF pop
  <2> QED BY <1>1, <1>2, <2>2, <2>3, <2>4, QuietStep DEF Adds, Pushes, Holds, Popped
<1>5. CASE freeListHead = b
  <2>1. PICK o : o = [op[t] EXCEPT !.at = "popped"]
    OBVIOUS
  <2>2. o \in Frame /\ o.at = "popped" /\ o.head = b
    BY <1>1, <1>2, <2>1 DEF Frame, Stages
  <2>3. NamesBlocks(o) /\ ReadsHold(o)
    BY <1>3, <2>2 DEF NamesBlocks, ReadsHold
  <2>4. /\ Step(t, o) /\ UNCHANGED <<freeListNext, freeListRefs>>
        /\ freeListHead' = freeListNext[b]
        /\ held' = [held EXCEPT ![t] = @ \union {b}]
    BY <1>1, <1>3, <1>5, <2>1 DEF pop, Goto
  <2>5. /\ op'[t] = o /\ \A u \in Threads : u # t => op'[u] = op[u]
        /\ held'[t] = held[t] \union {b} /\ \A u \in Threads : u # t => held'[u] = held[u]
        /\ held' \in [Threads -> SUBSET Blocks]
        /\ freeListHead' \in Blocks \union {Null}
    BY <1>3, <2>4, StepIs DEF FreeListInv, FreeListTypeOK
  <2>6. FreeListTypeOK'
    BY <2>2, <2>3, <2>4, <2>5, TypeKept DEF FreeListInv, FreeListTypeOK
  <2>7. \A c \in Blocks :
          /\ ~ Adds(op'[t], c) /\ ~ Pushes(op'[t], c)
          /\ ~ Adds(op[t], c) /\ ~ Pushes(op[t], c) /\ ~ Popped(op[t], c)
          /\ Popped(op'[t], c) <=> c = b
          /\ Holds(op'[t], c) <=> Holds(op[t], c)
    BY <1>1, <1>2, <2>2, <2>5 DEF Adds, Pushes, Holds, Popped
  <2>8. /\ OnList(b) /\ ~ Owned(b) /\ ~ freeListRefs[b].should
        /\ \A u \in Threads : /\ ~ Adds(op[u], b) /\ ~ Pushes(op[u], b) /\ ~ Popped(op[u], b)
                              /\ b \notin held[u]
    <3>1. OnList(b) /\ ~ Owned(b) /\ ~ freeListRefs[b].should
      BY <1>3, <1>5 DEF FreeListInv, Chained, OnList
    <3>2. \A u \in Threads : b \notin held[u]
      BY <3>1 DEF Owned
    <3> QED BY <1>3, <3>1, <3>2 DEF OnList, FreeListInv, BitsTell, OneOwner, Refs
  <2>9. Owned(b)' /\ \A c \in Blocks : c # b => (Owned(c)' <=> Owned(c))
    BY <2>5 DEF Owned
  <2>10. OneOwner'
    <3> SUFFICES ASSUME NEW c \in Blocks, NEW u \in Threads, NEW w \in Threads
                 PROVE  /\ c \in held'[u] /\ c \in held'[w] => u = w
                        /\ Adds(op'[u], c) \/ Pushes(op'[u], c) =>
                             /\ ~ Owned(c)'
                             /\ Adds(op'[w], c) \/ Pushes(op'[w], c) => u = w
                        /\ Popped(op'[u], c) => c \in held'[u]
      BY DEF OneOwner, Adds, Pushes, Popped
    <3>1. CASE c = b
      BY <2>5, <2>7, <2>8, <3>1
    <3>2. CASE c # b
      BY <2>5, <2>7, <2>9, <3>2 DEF FreeListInv, OneOwner
    <3> QED BY <3>1, <3>2
  <2>11. BitsTell'
    <3> SUFFICES ASSUME NEW c \in Blocks
                 PROVE  /\ Owned(c)' => ~ freeListRefs[c].should
                        /\ \A u \in Threads :
                             /\ Adds(op'[u], c) => freeListRefs[c] = Refs(TRUE, 0)
                             /\ Pushes(op'[u], c) => ~ freeListRefs[c].should
                        /\ freeListRefs[c] = Refs(TRUE, 0) => \E u \in Threads : Adds(op'[u], c)
      BY <2>4 DEF BitsTell, Adds, Pushes
    <3>1. CASE c = b
      <4>1. freeListRefs[b] # Refs(TRUE, 0)
        BY <2>8 DEF Refs
      <4> QED BY <2>5, <2>7, <2>8, <3>1, <4>1
    <3>2. CASE c # b
      BY <2>5, <2>7, <2>9, <3>2 DEF FreeListInv, BitsTell
    <3> QED BY <3>1, <3>2
  <2>12. CountsHolders'
    <3>1. Cardinality(Holders(b)') = Cardinality(Holders(b))
      BY <1>3, <2>5, <2>7, HoldersChange
    <3>2. ListsRef(b)
      BY <2>8 DEF ListsRef
    <3>3. ListsRef(b)'
      <4>1. \E u \in Threads : Popped(op'[u], b)
        BY <1>3, <2>7
      <4> QED BY <2>4, <2>8, <4>1 DEF ListsRef, Popped
    <3>4. freeListRefs'[b].count = Cardinality(Holders(b)') + IF ListsRef(b)' THEN 1 ELSE 0
      BY <1>3, <2>4, <3>1, <3>2, <3>3 DEF FreeListInv, CountsHolders
    <3> QED BY <1>3, <2>4, <2>5, <2>7, <2>9, <3>4, CountsKept
  <2>13. ASSUME NEW u \in Threads PROVE ReadsHold(op[u])'
    BY <2>2, <2>4, <2>5 DEF FreeListInv, ReadsHold
  <2>14. \A c : OnList(c)' <=> OnList(c) /\ c # b
    <3>1. ~ OnList(b)'
      BY <2>9 DEF OnList
    <3>2. ASSUME NEW c \in Blocks, c # b PROVE OnList(c)' <=> OnList(c)
      BY <2>4, <2>5, <2>7, <2>9, <3>2 DEF OnList, Pushes
    <3> QED BY <3>1, <3>2 DEF OnList
  <2>15. Chained'
    <3>1. freeListNext[b] = Null \/ (OnList(freeListNext[b]) /\ freeListNext[b] # b)
      BY <1>3, <1>5, <2>8 DEF FreeListInv, Chained
    <3>2. ASSUME NEW c \in Blocks, OnList(c), c # b
          PROVE  /\ freeListNext[c] = Null \/ (OnList(freeListNext[c]) /\ freeListNext[c] # b)
                 /\ freeListNext[c] = freeListNext[b] => freeListNext[c] = Null
                 /\ \A d \in Blocks : OnList(d) /\ freeListNext[d] = freeListNext[c] /\ c # d
                      => freeListNext[c] = Null
      BY <1>3, <1>5, <2>8, <3>2 DEF FreeListInv, Chained
    <3>3. freeListHead' = Null \/ OnList(freeListHead)'
      BY <2>4, <2>14, <3>1
    <3> QED BY <2>4, <2>14, <3>2, <3>3 DEF Chained
  <2>16. Reached'
    <3> SUFFICES ASSUME NEW S \in SUBSET (Blocks \union {Null}), Closed(S)'
                 PROVE  Null \in S /\ \A c \in Blocks : OnList(c) /\ c # b => c \in S
      BY <2>14 DEF Reached
    <3>1. Closed(S \union {b}) /\ S \union {b} \in SUBSET (Blocks \union {Null})
      BY <1>3, <1>5, <2>4 DEF Closed
    <3> QED BY <1>3, <3>1 DEF FreeListInv, Reached
  <2> QED BY <2>6, <2>10, <2>11, <2>12, <2>13, <2>15, <2>16 DEF FreeListInv
<1> QED BY <1>4, <1>5

\* A thread that has popped the head drops its reference and the list's.
LEMMA poppedInv == ASSUME FreeListInv, NEW t \in Threads, popped(t) PROVE FreeListInv'
<1>1. PICK b : b = op[t].head
  OBVIOUS
<1>2. op[t] \in Frame /\ op[t].at = "popped" /\ NamesBlocks(op[t])
  BY DEF FreeListInv, FreeListTypeOK, popped, At
<1>3. b \in Blocks /\ Popped(op[t], b) /\ Holds(op[t], b)
  BY <1>1, <1>2 DEF NamesBlocks, Popped, Holds
<1>4. /\ b \in held[t] /\ Owned(b) /\ freeListRefs[b].should = FALSE
      /\ \A u \in Threads : /\ ~ Adds(op[u], b) /\ ~ Pushes(op[u], b)
                            /\ Popped(op[u], b) => u = t
  <2>1. b \in held[t]
    BY <1>3 DEF FreeListInv, OneOwner
  <2>2. Owned(b)
    BY <2>1 DEF Owned
  <2> QED BY <1>3, <2>1, <2>2 DEF FreeListInv, OneOwner, BitsTell, FreeListTypeOK
<1>5. PICK n \in Nat : Cardinality(Holders(b)) = n + 1 /\ freeListRefs[b].count = n + 2
  <2>1. ListsRef(b)
    BY <1>3, <1>4 DEF ListsRef
  <2>2. PICK k : k = Cardinality(Holders(b))
    OBVIOUS
  <2>3. k \in Nat /\ k > 0
    BY <1>3, <2>2, HoldersCount
  <2>4. freeListRefs[b].count = k + 1
    BY <1>3, <2>1, <2>2 DEF FreeListInv, CountsHolders
  <2>5. k - 1 \in Nat /\ k = (k - 1) + 1 /\ k + 1 = (k - 1) + 2
    BY <2>3
  <2> QED BY <2>2, <2>4, <2>5
<1>6. PICK r : r = [freeListRefs[b] EXCEPT !.count = @ - 2]
  OBVIOUS
<1>7. r \in [should : BOOLEAN, count : Nat] /\ r.should = FALSE /\ r.count = n
  BY <1>3, <1>4, <1>5, <1>6 DEF FreeListInv, FreeListTypeOK
<1>8. /\ Step(t, Idle) /\ UNCHANGED <<freeListHead, freeListNext, held>>
      /\ freeListRefs' = [freeListRefs EXCEPT ![b] = r]
  BY <1>1, <1>6 DEF popped
<1>9. /\ op'[t] = Idle /\ \A u \in Threads : u # t => op'[u] = op[u]
      /\ freeListRefs'[b] = r /\ \A c \in Blocks : c # b => freeListRefs'[c] = freeListRefs[c]
      /\ freeListRefs' \in [Blocks -> [should : BOOLEAN, count : Nat]]
  BY <1>3, <1>7, <1>8, StepIs DEF FreeListInv, FreeListTypeOK
<1>10. FreeListTypeOK'
  BY <1>8, <1>9, IdleType, TypeKept DEF FreeListInv, FreeListTypeOK
<1>11. \A c \in Blocks :
         /\ ~ Adds(op'[t], c) /\ ~ Pushes(op'[t], c) /\ ~ Holds(op'[t], c) /\ ~ Popped(op'[t], c)
         /\ ~ Adds(op[t], c) /\ ~ Pushes(op[t], c)
         /\ Holds(op[t], c) <=> c = b
         /\ Popped(op[t], c) <=> c = b
  BY <1>1, <1>2, <1>9, IdleType DEF Adds, Pushes, Holds, Popped
<1>12. \A u \in Threads, c \in Blocks :
         /\ Adds(op'[u], c) <=> Adds(op[u], c)
         /\ Pushes(op'[u], c) <=> Pushes(op[u], c)
         /\ Popped(op'[u], c) => Popped(op[u], c)
  BY <1>9, <1>11
<1>13. /\ \A c \in Blocks : Owned(c)' <=> Owned(c)
       /\ \A c \in Blocks : freeListRefs'[c].should = freeListRefs[c].should
  BY <1>4, <1>7, <1>8, <1>9 DEF Owned
<1>14. OneOwner'
  BY <1>8, <1>12, <1>13 DEF FreeListInv, OneOwner, Adds, Pushes, Popped
<1>15. BitsTell'
  <2> SUFFICES ASSUME NEW c \in Blocks
               PROVE  /\ Owned(c) => ~ freeListRefs'[c].should
                      /\ \A u \in Threads :
                           /\ Adds(op'[u], c) => freeListRefs'[c] = Refs(TRUE, 0)
                           /\ Pushes(op'[u], c) => ~ freeListRefs'[c].should
                      /\ freeListRefs'[c] = Refs(TRUE, 0) => \E u \in Threads : Adds(op'[u], c)
    BY <1>13 DEF BitsTell, Adds, Pushes
  <2>1. CASE c = b
    <3>1. r # Refs(TRUE, 0)
      BY <1>7 DEF Refs
    <3> QED BY <1>4, <1>7, <1>9, <1>12, <2>1, <3>1
  <2>2. CASE c # b
    BY <1>9, <1>12, <2>2 DEF FreeListInv, BitsTell
  <2> QED BY <2>1, <2>2
<1>16. CountsHolders'
  <2>1. Cardinality(Holders(b)') = n
    <3>1. Cardinality(Holders(b)') = Cardinality(Holders(b)) - 1
      BY <1>3, <1>9, <1>11, HoldersChange
    <3>2. (n + 1) - 1 = n
      OBVIOUS
    <3> QED BY <1>5, <3>1, <3>2
  <2>2. ~ ListsRef(b)'
    <3>1. \A u \in Threads : ~ Popped(op'[u], b)
      BY <1>3, <1>4, <1>11, <1>12
    <3> QED BY <1>3, <1>4, <1>13, <3>1 DEF ListsRef, Popped
  <2>3. freeListRefs'[b].count = Cardinality(Holders(b)') + IF ListsRef(b)' THEN 1 ELSE 0
    BY <1>7, <1>9, <2>1, <2>2
  <2> QED BY <1>3, <1>9, <1>11, <1>13, <2>3, CountsKept
<1>17. ASSUME NEW u \in Threads PROVE ReadsHold(op[u])'
  BY <1>8, <1>9, IdleType DEF FreeListInv, ReadsHold
<1>18. \A c : OnList(c)' <=> OnList(c)
  BY <1>12, <1>13 DEF OnList, Pushes
<1>19. Chained' /\ Reached'
  BY <1>8, <1>18 DEF FreeListInv, Chained, Reached, Closed
<1> QED BY <1>10, <1>14, <1>15, <1>16, <1>17, <1>19 DEF FreeListInv

\* A thread that did not get the head gives up its reference, and puts the block
\* back if that was the last and the block should be on the list.
LEMMA unrefInv == ASSUME FreeListInv, NEW t \in Threads, unref(t) PROVE FreeListInv'
<1>1. PICK b : b = op[t].node
  OBVIOUS
<1>2. op[t] \in Frame /\ op[t].at = "unref" /\ NamesBlocks(op[t])
  BY DEF FreeListInv, FreeListTypeOK, unref, At
<1>3. b \in Blocks /\ Holds(op[t], b)
  BY <1>1, <1>2 DEF NamesBlocks, Holds
<1>4. /\ \A u \in Threads : ~ Adds(op[u], b)
      /\ freeListRefs[b].should = TRUE =>
           /\ ~ Owned(b)
           /\ \A u \in Threads : ~ Pushes(op[u], b)
  BY <1>3, HeldNotAdded DEF FreeListInv, BitsTell
<1>5. PICK n \in Nat : freeListRefs[b].count = n + 1
  <2>1. freeListRefs[b].count \in Nat /\ freeListRefs[b].count > 0
    BY <1>3, HeldNotAdded DEF FreeListInv, FreeListTypeOK
  <2>2. /\ freeListRefs[b].count - 1 \in Nat
        /\ freeListRefs[b].count = (freeListRefs[b].count - 1) + 1
    BY <2>1
  <2> QED BY <2>2
<1>6. freeListRefs[b] = Refs(TRUE, 1) <=> freeListRefs[b].should = TRUE /\ n = 0
  BY <1>3, <1>5 DEF Refs, FreeListInv, FreeListTypeOK
<1>7. PICK o : o = IF freeListRefs[b] = Refs(TRUE, 1) THEN PutBack(t, b) ELSE Returned(t)
  OBVIOUS
<1>8. /\ o \in Frame /\ NamesBlocks(o)
      /\ freeListRefs[b] = Refs(TRUE, 1) => o.at = "load" /\ o.node = b
      /\ freeListRefs[b] # Refs(TRUE, 1) => o.at \in {"idle", "refs"}
  <2>1. PICK p : p = PutBack(t, b)
    OBVIOUS
  <2>2. p \in Frame /\ p.at = "load" /\ p.node = b
    BY <1>2, <1>3, <2>1 DEF PutBack, Frame, Stages
  <2>3. NamesBlocks(p)
    BY <1>3, <2>2 DEF NamesBlocks
  <2> QED BY <1>2, <1>7, <2>1, <2>2, <2>3, ReturnedType
<1>9. PICK r : r = [freeListRefs[b] EXCEPT !.count = @ - 1]
  OBVIOUS
<1>10. /\ r \in [should : BOOLEAN, count : Nat]
       /\ r.should = freeListRefs[b].should /\ r.count = n
  BY <1>3, <1>5, <1>9 DEF FreeListInv, FreeListTypeOK
<1>11. /\ Step(t, o) /\ UNCHANGED <<freeListHead, freeListNext, held>>
       /\ freeListRefs' = [freeListRefs EXCEPT ![b] = r]
  BY <1>1, <1>7, <1>9 DEF unref
<1>12. /\ op'[t] = o /\ \A u \in Threads : u # t => op'[u] = op[u]
       /\ freeListRefs'[b] = r /\ \A c \in Blocks : c # b => freeListRefs'[c] = freeListRefs[c]
       /\ freeListRefs' \in [Blocks -> [should : BOOLEAN, count : Nat]]
  BY <1>3, <1>10, <1>11, StepIs DEF FreeListInv, FreeListTypeOK
<1>13. FreeListTypeOK'
  BY <1>8, <1>11, <1>12, TypeKept DEF FreeListInv, FreeListTypeOK
<1>14. \A c \in Blocks :
         /\ Adds(op'[t], c) <=> c = b /\ freeListRefs[b] = Refs(TRUE, 1)
         /\ ~ Pushes(op'[t], c) /\ ~ Holds(op'[t], c) /\ ~ Popped(op'[t], c)
         /\ ~ Adds(op[t], c) /\ ~ Pushes(op[t], c) /\ ~ Popped(op[t], c)
         /\ Holds(op[t], c) <=> c = b
  BY <1>1, <1>2, <1>8, <1>12 DEF Adds, Pushes, Holds, Popped
<1>15. /\ \A c \in Blocks : Owned(c)' <=> Owned(c)
       /\ \A c \in Blocks : freeListRefs'[c].should = freeListRefs[c].should
       /\ \A u \in Threads, c \in Blocks :
            /\ Pushes(op'[u], c) <=> Pushes(op[u], c)
            /\ Popped(op'[u], c) <=> Popped(op[u], c)
  BY <1>10, <1>11, <1>12, <1>14 DEF Owned
<1>16. OneOwner'
  <2> SUFFICES ASSUME NEW c \in Blocks, NEW u \in Threads, NEW w \in Threads
               PROVE  /\ c \in held[u] /\ c \in held[w] => u = w
                      /\ Adds(op'[u], c) \/ Pushes(op'[u], c) =>
                           /\ ~ Owned(c)
                           /\ Adds(op'[w], c) \/ Pushes(op'[w], c) => u = w
                      /\ Popped(op'[u], c) => c \in held[u]
    BY <1>11, <1>15 DEF OneOwner, Adds, Pushes, Popped
  <2>1. CASE c = b
    <3>1. Adds(op'[t], b) => ~ Owned(b) /\ \A v \in Threads : ~ Pushes(op[v], b)
      BY <1>3, <1>4, <1>6, <1>14
    <3>2. \A v \in Threads : Adds(op'[v], b) => v = t
      BY <1>4, <1>12
    <3> QED BY <1>3, <1>15, <2>1, <3>1, <3>2 DEF FreeListInv, OneOwner
  <2>2. CASE c # b
    BY <1>12, <1>14, <1>15, <2>2 DEF FreeListInv, OneOwner
  <2> QED BY <2>1, <2>2
<1>17. BitsTell'
  <2> SUFFICES ASSUME NEW c \in Blocks
               PROVE  /\ Owned(c) => ~ freeListRefs'[c].should
                      /\ \A u \in Threads :
                           /\ Adds(op'[u], c) => freeListRefs'[c] = Refs(TRUE, 0)
                           /\ Pushes(op'[u], c) => ~ freeListRefs'[c].should
                      /\ freeListRefs'[c] = Refs(TRUE, 0) => \E u \in Threads : Adds(op'[u], c)
    BY <1>15 DEF BitsTell, Adds, Pushes
  <2>1. CASE c = b
    <3>1. r = Refs(TRUE, 0) <=> freeListRefs[b] = Refs(TRUE, 1)
      BY <1>6, <1>10 DEF Refs
    <3> QED BY <1>3, <1>4, <1>12, <1>14, <1>15, <2>1, <3>1 DEF FreeListInv, BitsTell
  <2>2. CASE c # b
    BY <1>12, <1>14, <1>15, <2>2 DEF FreeListInv, BitsTell
  <2> QED BY <2>1, <2>2
<1>18. CountsHolders'
  <2>1. PICK k \in Nat : k = Cardinality(Holders(b))
    BY HoldersCount
  <2>2. Cardinality(Holders(b)') = k - 1
    BY <1>3, <1>12, <1>14, <2>1, HoldersChange
  <2>3. ListsRef(b)' <=> ListsRef(b)
    BY <1>3, <1>15 DEF ListsRef, Popped
  <2>4. n + 1 = k + IF ListsRef(b) THEN 1 ELSE 0
    BY <1>3, <1>5, <2>1 DEF FreeListInv, CountsHolders
  <2>5. freeListRefs'[b].count = Cardinality(Holders(b)') + IF ListsRef(b)' THEN 1 ELSE 0
    BY <1>10, <1>12, <2>2, <2>3, <2>4
  <2>6. \A c \in Blocks : c # b =>
          /\ freeListRefs'[c] = freeListRefs[c] /\ (Owned(c)' <=> Owned(c))
          /\ Holds(op'[t], c) <=> Holds(op[t], c)
          /\ Popped(op'[t], c) <=> Popped(op[t], c)
    BY <1>12, <1>14, <1>15
  <2>7. \A u \in Threads : u # t => op'[u] = op[u]
    BY <1>12
  <2> QED BY <1>3, <2>5, <2>6, <2>7, CountsKept
<1>19. ASSUME NEW u \in Threads PROVE ReadsHold(op[u])'
  BY <1>8, <1>11, <1>12 DEF FreeListInv, ReadsHold
<1>20. \A c : OnList(c)' <=> OnList(c)
  BY <1>15 DEF OnList, Pushes
<1>21. Chained' /\ Reached'
  BY <1>11, <1>20 DEF FreeListInv, Chained, Reached, Closed
<1> QED BY <1>13, <1>16, <1>17, <1>18, <1>19, <1>21 DEF FreeListInv
-----------------------------------------------------------------------------
\* At the start every block has its owner, and the list is empty.
LEMMA InitFreeListInv == Init => FreeListInv
<1> SUFFICES ASSUME Init PROVE FreeListInv
  OBVIOUS
<1>1. PICK owner \in [Blocks -> Threads] :
        held = [t \in Threads |-> {b \in Blocks : owner[b] = t}]
  BY DEF Init
<1>2. \A t \in Threads : op[t] = Idle
  BY DEF Init
<1>3. \A t \in Threads : \A b : /\ ~ Adds(op[t], b) /\ ~ Pushes(op[t], b)
                                 /\ ~ Holds(op[t], b) /\ ~ Popped(op[t], b)
  BY <1>2, IdleType DEF Adds, Pushes, Holds, Popped
<1>4. \A b \in Blocks : /\ freeListRefs[b] = Refs(FALSE, 0)
                        /\ freeListRefs[b].should = FALSE /\ freeListRefs[b].count = 0
  BY DEF Init, Refs
<1>5. \A b \in Blocks : Owned(b) /\ ~ OnList(b)
  <2>1. \A b \in Blocks : owner[b] \in Threads /\ b \in held[owner[b]]
    BY <1>1
  <2> QED BY <2>1 DEF Owned, OnList
<1>6. FreeListTypeOK
  <2>1. freeListRefs \in [Blocks -> [should : BOOLEAN, count : Nat]]
    BY DEF Init, Refs
  <2> QED BY <1>1, <2>1, IdleType DEF Init, FreeListTypeOK
<1>7. OneOwner
  BY <1>1, <1>3 DEF OneOwner
<1>8. BitsTell
  <2>1. Refs(FALSE, 0) # Refs(TRUE, 0)
    BY DEF Refs
  <2> QED BY <1>3, <1>4, <2>1 DEF BitsTell
<1>9. CountsHolders
  <2> SUFFICES ASSUME NEW b \in Blocks
               PROVE  freeListRefs[b].count
                        = Cardinality(Holders(b)) + IF ListsRef(b) THEN 1 ELSE 0
    BY DEF CountsHolders
  <2>1. Cardinality(Holders(b)) = 0
    BY <1>3, HoldersCount
  <2>2. ~ ListsRef(b)
    BY <1>3, <1>5 DEF ListsRef
  <2>3. freeListRefs[b].count = 0
    BY <1>4
  <2>4. 0 = 0 + 0
    OBVIOUS
  <2> QED BY <2>1, <2>2, <2>3, <2>4
<1>10. \A t \in Threads : ReadsHold(op[t])
  BY <1>2, IdleType DEF ReadsHold
<1>11. Chained /\ Reached
  BY <1>5 DEF Init, Chained, Reached, Closed, OnList
<1> QED BY <1>6, <1>7, <1>8, <1>9, <1>10, <1>11 DEF FreeListInv

\* Every step keeps the invariant.
LEMMA NextFreeListInv == FreeListInv /\ [Next]_vars => FreeListInv'
<1> SUFFICES ASSUME FreeListInv, [Next]_vars PROVE FreeListInv'
  OBVIOUS
<1>1. CASE UNCHANGED vars
  <2>1. UNCHANGED <<freeListHead, freeListNext, freeListRefs, held, op>>
    BY <1>1 DEF vars
  <2>2. OneOwner' /\ BitsTell' /\ CountsHolders'
    BY <2>1, SameCalls
  <2>3. FreeListTypeOK' /\ \A t \in Threads : ReadsHold(op[t])'
    BY <2>1 DEF FreeListInv, FreeListTypeOK, ReadsHold
  <2>4. \A b : OnList(b)' <=> OnList(b)
    BY <2>1 DEF OnList, Owned
  <2>5. Chained' /\ Reached'
    BY <2>1, <2>4 DEF FreeListInv, Chained, Reached, Closed
  <2> QED BY <2>2, <2>3, <2>5 DEF FreeListInv
<1>2. CASE Next
  <2> SUFFICES ASSUME NEW t \in Threads,
                      \/ \E b \in held[t] : add(t, b)
                      \/ loadHead(t) \/ storeNext(t) \/ storeRefs(t) \/ push(t) \/ giveUp(t)
                      \/ try_get(t) \/ loadRefs(t) \/ reload(t) \/ takeRef(t) \/ loadNext(t)
                      \/ pop(t) \/ popped(t) \/ unref(t)
               PROVE  FreeListInv'
    BY <1>2 DEF Next
  <2> QED BY addInv, loadHeadInv, storeNextInv, storeRefsInv, pushInv, giveUpInv, triesInv,
             loadRefsInv, takeRefInv, loadNextInv, popInv, poppedInv, unrefInv
<1> QED BY <1>1, <1>2

\* Who holds the blocks, what they are counted as and how they are linked is
\* always as the invariant says (concurrentqueue.h:1347-1424).
THEOREM FreeListSafe == Spec => []FreeListInv
BY InitFreeListInv, NextFreeListInv, PTL DEF Spec

\* When no call is under way the list holds exactly the blocks nobody has, each
\* counted once.
LEMMA IdleList ==
  ASSUME FreeListInv, \A t \in Threads : At(t, "idle")
  PROVE  /\ \A b \in Blocks : OnList(b) <=> ~ Owned(b)
         /\ \A b \in Blocks :
              freeListRefs[b] = Refs(FALSE, IF Owned(b) THEN 0 ELSE 1)
<1>1. \A t \in Threads : \A b :
        ~ Adds(op[t], b) /\ ~ Pushes(op[t], b) /\ ~ Holds(op[t], b) /\ ~ Popped(op[t], b)
  BY DEF At, Adds, Pushes, Holds, Popped
<1> SUFFICES ASSUME NEW b \in Blocks
             PROVE  /\ OnList(b) <=> ~ Owned(b)
                    /\ freeListRefs[b] = Refs(FALSE, IF Owned(b) THEN 0 ELSE 1)
  OBVIOUS
<1>2. freeListRefs[b] \in [should : BOOLEAN, count : Nat]
  BY DEF FreeListInv, FreeListTypeOK
<1>3. freeListRefs[b].count = IF ListsRef(b) THEN 1 ELSE 0
  <2>1. PICK n \in Nat : n = Cardinality(Holders(b))
    BY HoldersCount
  <2>2. ~ (n > 0)
    BY <1>1, <2>1, HoldersCount
  <2>3. freeListRefs[b].count = n + IF ListsRef(b) THEN 1 ELSE 0
    BY <2>1 DEF FreeListInv, CountsHolders
  <2> QED BY <2>1, <2>2, <2>3
<1>4. freeListRefs[b].should = FALSE
  <2> SUFFICES ASSUME freeListRefs[b].should = TRUE PROVE FALSE
    BY <1>2
  <2>1. ~ ListsRef(b)
    BY DEF ListsRef
  <2>2. freeListRefs[b].count = 0
    BY <1>3, <2>1
  <2>3. freeListRefs[b] = Refs(TRUE, 0)
    BY <1>2, <2>2 DEF Refs
  <2> QED BY <1>1, <2>3 DEF FreeListInv, BitsTell
<1>5. OnList(b) <=> ~ Owned(b)
  BY <1>1, <1>4 DEF OnList
<1>6. ListsRef(b) <=> ~ Owned(b)
  BY <1>1, <1>4 DEF ListsRef
<1>7. CASE Owned(b)
  <2>1. freeListRefs[b].count = 0
    BY <1>3, <1>6, <1>7
  <2>2. freeListRefs[b] = Refs(FALSE, 0)
    BY <1>2, <1>4, <2>1 DEF Refs
  <2> QED BY <1>5, <1>7, <2>2
<1>8. CASE ~ Owned(b)
  <2>1. freeListRefs[b].count = 1
    BY <1>3, <1>6, <1>8
  <2>2. freeListRefs[b] = Refs(FALSE, 1)
    BY <1>2, <1>4, <2>1 DEF Refs
  <2> QED BY <1>5, <1>8, <2>2
<1> QED BY <1>7, <1>8

\* The list is the blocks that are on it, and its end.
LEMMA ListedIs ==
  ASSUME FreeListInv
  PROVE  Listed = {b \in Blocks : OnList(b)} \union {Null}
<1>1. PICK L : L = {b \in Blocks : OnList(b)} \union {Null}
  OBVIOUS
<1>2. L \in SUBSET (Blocks \union {Null}) /\ Closed(L)
  BY <1>1 DEF FreeListInv, Chained, Closed, OnList
<1>3. Listed \subseteq L
  BY <1>2 DEF Listed
<1>4. L \subseteq Listed
  BY <1>1, <1>2 DEF FreeListInv, Reached, Listed
<1> QED BY <1>1, <1>3, <1>4

\* No block is lost, however pushes and pops overlap and whoever must put one
\* back: once no call is under way, the list ends and holds the blocks that were
\* put back, each counted once; and a block that was just popped is not marked
\* to be put back, as line 1380 of concurrentqueue.h asserts.
THEOREM NoBlockLost == Spec => []NoneLost
<1>1. ASSUME FreeListInv PROVE NoneLost
  <2>1. ASSUME NEW t \in Threads, At(t, "popped") PROVE ~ freeListRefs[op[t].head].should
    <3>1. op[t].head \in Blocks /\ Popped(op[t], op[t].head)
      BY <1>1, <2>1 DEF At, FreeListInv, FreeListTypeOK, NamesBlocks, Popped
    <3>2. Owned(op[t].head)
      BY <1>1, <3>1 DEF FreeListInv, OneOwner, Owned
    <3> QED BY <1>1, <3>1, <3>2 DEF FreeListInv, BitsTell
  <2>2. ASSUME \A t \in Threads : At(t, "idle")
        PROVE  /\ Null \in Listed
               /\ Listed \ {Null} = Blocks \ UNION {held[t] : t \in Threads}
               /\ \A b \in Blocks :
                    freeListRefs[b] = Refs(FALSE, IF b \in Listed THEN 1 ELSE 0)
    <3>1. Listed = {b \in Blocks : OnList(b)} \union {Null}
      BY <1>1, ListedIs
    <3>2. \A b \in Blocks : OnList(b) <=> ~ Owned(b)
      BY <1>1, <2>2, IdleList
    <3>3. \A b \in Blocks : b \in Listed <=> ~ Owned(b)
      BY <3>1, <3>2, FreeListConstants
    <3>4. \A b \in Blocks : Owned(b) <=> b \in UNION {held[t] : t \in Threads}
      BY DEF Owned
    <3>5. Listed \ {Null} = Blocks \ UNION {held[t] : t \in Threads}
      BY <3>1, <3>3, <3>4, FreeListConstants
    <3>6. ASSUME NEW b \in Blocks
          PROVE  freeListRefs[b] = Refs(FALSE, IF b \in Listed THEN 1 ELSE 0)
      <4>1. freeListRefs[b] = Refs(FALSE, IF Owned(b) THEN 0 ELSE 1)
        BY <1>1, <2>2, IdleList
      <4>2. (IF Owned(b) THEN 0 ELSE 1) = IF b \in Listed THEN 1 ELSE 0
        BY <3>3
      <4> QED BY <4>1, <4>2
    <3> QED BY <3>1, <3>5, <3>6
  <2> QED BY <2>1, <2>2 DEF NoneLost
<1> QED BY <1>1, FreeListSafe, PTL
-----------------------------------------------------------------------------
(* The pool of blocks.                                                     *)

\* What the pool has free is what no thread has.
LEMMA FreeIs ==
  \A b : b \in Blocks \ UNION {held[t] : t \in Threads} <=> b \in Blocks /\ ~ Owned(b)
BY DEF Owned

\* The blocks come out of a thread's hands, into the pool.
LEMMA AddImplements ==
  ASSUME FreeListInv, NEW t \in Threads, NEW b \in held[t], add(t, b)
  PROVE  b \in Blocks /\ Pool!Add(t, b)
<1>1. b \in Blocks /\ held' = [held EXCEPT ![t] = @ \ {b}]
  BY DEF add, FreeListInv, FreeListTypeOK
<1>2. /\ held'[t] = held[t] \ {b} /\ \A u \in Threads : u # t => held'[u] = held[u]
      /\ \A u \in Threads : u # t => b \notin held[u]
  BY <1>1 DEF FreeListInv, FreeListTypeOK, OneOwner
<1>3. \A c : (\E u \in Threads : c \in held'[u]) <=> (\E u \in Threads : c \in held[u]) /\ c # b
  BY <1>2
<1>4. \A c : c \in UNION {held'[u] : u \in Threads} <=> c \in UNION {held[u] : u \in Threads} /\ c # b
  BY <1>3
<1>5. Blocks \ (UNION {held'[u] : u \in Threads})
        = (Blocks \ (UNION {held[u] : u \in Threads})) \union {b}
  BY <1>1, <1>4
<1> QED BY <1>1, <1>5 DEF Pool!Add

\* The head of the list is free, and goes to the thread that took it off.
LEMMA PopImplements ==
  ASSUME FreeListInv, NEW t \in Threads, pop(t)
  PROVE  (\E b \in Blocks : Pool!Take(t, b)) \/ UNCHANGED held
<1>1. CASE freeListHead # op[t].head
  BY <1>1 DEF pop
<1>2. CASE freeListHead = op[t].head
  <2>1. PICK b : b = op[t].head
    OBVIOUS
  <2>2. b \in Blocks /\ b # Null
    BY <2>1, FreeListConstants DEF pop, At, FreeListInv, FreeListTypeOK, NamesBlocks
  <2>3. ~ Owned(b)
    BY <1>2, <2>1, <2>2 DEF FreeListInv, Chained, OnList
  <2>4. held' = [held EXCEPT ![t] = @ \union {b}]
    BY <1>2, <2>1 DEF pop
  <2>5. held'[t] = held[t] \union {b} /\ \A u \in Threads : u # t => held'[u] = held[u]
    BY <2>4 DEF FreeListInv, FreeListTypeOK
  <2>6. \A c : (\E u \in Threads : c \in held'[u]) <=> (\E u \in Threads : c \in held[u]) \/ c = b
    BY <2>5
  <2>7. Blocks \ (UNION {held'[u] : u \in Threads})
          = (Blocks \ (UNION {held[u] : u \in Threads})) \ {b}
    <3>1. \A c : c \in UNION {held'[u] : u \in Threads}
                  <=> c \in UNION {held[u] : u \in Threads} \/ c = b
      BY <2>6
    <3> QED BY <3>1
  <2>8. b \in Blocks \ UNION {held[u] : u \in Threads}
    BY <2>2, <2>3, FreeIs
  <2> QED BY <2>2, <2>4, <2>7, <2>8 DEF Pool!Take
<1> QED BY <1>1, <1>2

\* At the start every block has one owner.
LEMMA InitImplements == Init => Pool!Init
<1> SUFFICES ASSUME Init PROVE Pool!Init
  OBVIOUS
<1>1. FreeListInv
  BY InitFreeListInv
<1>2. held \in [Threads -> SUBSET Blocks]
  BY <1>1 DEF FreeListInv, FreeListTypeOK
<1>3. PICK owner \in [Blocks -> Threads] :
        held = [t \in Threads |-> {b \in Blocks : owner[b] = t}]
  BY DEF Init
<1>4. ASSUME NEW b \in Blocks
      PROVE  /\ b \notin Blocks \ UNION {held[t] : t \in Threads}
             /\ \E t \in Threads : \A s \in Threads : b \in held[s] <=> s = t
  <2>1. owner[b] \in Threads /\ \A s \in Threads : b \in held[s] <=> s = owner[b]
    BY <1>3
  <2> QED BY <2>1
<1> QED BY <1>2, <1>4 DEF Pool!Init, Pool!TypeOK

\* A step of a thread gives a block to the pool, takes one, or does neither.
LEMMA NextImplements ==
  FreeListInv /\ [Next]_vars =>
    [Pool!Next]_<<Blocks \ UNION {held[t] : t \in Threads}, held>>
<1> SUFFICES ASSUME FreeListInv, [Next]_vars
             PROVE  Pool!Next \/ UNCHANGED held
  OBVIOUS
<1>1. CASE UNCHANGED vars
  BY <1>1 DEF vars
<1>2. CASE Next
  <2> SUFFICES ASSUME NEW t \in Threads,
                      \/ \E b \in held[t] : add(t, b)
                      \/ loadHead(t) \/ storeNext(t) \/ storeRefs(t) \/ push(t) \/ giveUp(t)
                      \/ try_get(t) \/ loadRefs(t) \/ reload(t) \/ takeRef(t) \/ loadNext(t)
                      \/ pop(t) \/ popped(t) \/ unref(t)
               PROVE  Pool!Next \/ UNCHANGED held
    BY <1>2 DEF Next
  <2>1. ASSUME NEW b \in held[t], add(t, b) PROVE Pool!Next
    BY <2>1, AddImplements DEF Pool!Next
  <2>2. ASSUME pop(t) PROVE Pool!Next \/ UNCHANGED held
    BY <2>2, PopImplements DEF Pool!Next
  <2>3. ASSUME \/ loadHead(t) \/ storeNext(t) \/ storeRefs(t) \/ push(t) \/ giveUp(t)
               \/ try_get(t) \/ loadRefs(t) \/ reload(t) \/ takeRef(t) \/ loadNext(t)
               \/ popped(t) \/ unref(t)
        PROVE  UNCHANGED held
    BY <2>3 DEF loadHead, storeNext, storeRefs, push, giveUp, try_get, loadRefs, reload,
                takeRef, loadNext, popped, unref
  <2> QED BY <2>1, <2>2, <2>3
<1> QED BY <1>1, <1>2

\* The free list is a pool of blocks: none is given to two threads, or to one
\* twice, and none comes out that was not put in, whatever the number of threads
\* and of blocks (concurrentqueue.h:1347-1424).
THEOREM IsABlockPool == Spec => ImplementsBlockPool
BY InitImplements, NextImplements, FreeListSafe, PTL DEF Spec, ImplementsBlockPool, Pool!Spec
=============================================================================
