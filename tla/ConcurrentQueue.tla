--------------------------- MODULE ConcurrentQueue ---------------------------
(***************************************************************************)
(* enqueue and try_dequeue of concurrentqueue.h, as Writer uses them: no   *)
(* tokens and no bulk operations.  Each thread appends to a producer of    *)
(* its own, whose elements are in blocks; a block index, which grows by    *)
(* doubling, tells which block an index is in.  Consumers claim indices by *)
(* counting, and the last one to leave a block gives it back.              *)
(*                                                                         *)
(* The free list of blocks is the pool BlockPool describes.  Indices are   *)
(* plain numbers: 2^64 of them are not reached.                            *)
(***************************************************************************)
EXTENDS ProducerHash

CONSTANTS
  Consumers,
  BlockSize, IndexSize,  \* BLOCK_SIZE, IMPLICIT_INITIAL_INDEX_SIZE
  PoolSize,              \* initialBlockPoolSize
  MaxOvercommit,         \* how many claims may fail before consumers stop: a bound
  Scenarios              \* who consumes, how many items each thread sends,
                         \* and how many allocations may fail

ASSUME QueueConstants ==
  /\ IsFiniteSet(Consumers)
  /\ BlockSize \in Nat /\ BlockSize > 1 /\ IndexSize \in Nat /\ IndexSize > 1
  /\ \E k, l \in 1 .. 10 : BlockSize = 2 ^ k /\ IndexSize = 2 ^ l
  /\ PoolSize \in Nat /\ MaxOvercommit \in Nat
  /\ \A s \in Scenarios : /\ s.team \subseteq Consumers /\ s.failures \in Nat
                          /\ s.sends \in [Threads -> Nat]

VARIABLES
  team,    \* the consumers there are
  blocks,  \* all blocks: elementsCompletelyDequeued and the elements
  used,    \* initialBlockPoolIndex
  pool,    \* the blocks in the free list
  con      \* con[c]: where consumer c is, and its locals

vars == <<tables, hashCount, resizing, producers, failures, thr, team, blocks, used, pool, con>>

NoBlock == 0
NoKey == -1     \* INVALID_BLOCK_BASE
NoItem == [from |-> NoThread, no |-> 0]
NewBlock == [dequeued |-> 0, elements |-> [i \in 0 .. BlockSize - 1 |-> NoItem]]

FreeEntries(n) == [i \in 1 .. n |-> [key |-> NoKey, value |-> NoBlock]]

\* A block index: its tail and, by position, the numbers of its entries.
FirstIndex == [tail |-> IndexSize - 1, index |-> [i \in 0 .. IndexSize - 1 |-> i + 1]]

\* ProducerBase and ImplicitProducer.  `indices' are all its block indices, the
\* current one last, with common entries.  The owner is not part of the code.
Producer(t, indices, entries) ==
  [owner |-> t, tail |-> 0, head |-> 0, optimistic |-> 0, overcommit |-> 0,
   tailBlock |-> NoBlock, indices |-> indices, entries |-> entries]

\* saw: whether all was empty when it began, which is not part of the code.
\* p: the producer it is at.  n, best, size: those found so far that are not empty.
\* left: the producers to try after p.  i: the index it took.  h, entry, b: where
\* it found the block.  tail, overcommit, count: what it loaded and counted.
AtRest ==
  [at |-> "idle", saw |-> "no", p |-> 0, n |-> 0, best |-> 0, size |-> 0, left |-> 0,
   tail |-> 0, overcommit |-> 0, count |-> 0, i |-> 0, h |-> 0, entry |-> 0, b |-> NoBlock,
   item |-> NoItem]

Init ==
  /\ HashInit
  /\ \E s \in Scenarios :
       /\ team = s.team /\ failures = s.failures
       /\ thr = [t \in Threads |-> [at |-> "idle", left |-> s.sends[t], sent |-> 0,
                                    main |-> 0, count |-> 0, producer |-> NoProducer, block |-> NoBlock]]
  /\ blocks = [b \in 1 .. PoolSize |-> NewBlock]
  /\ used = 0 /\ pool = {}
  /\ con = [c \in Consumers |-> AtRest]

Slot(i) == i % BlockSize
Base(i) == i - Slot(i)
CapacityOf(h) == Cardinality(DOMAIN h.index)
-----------------------------------------------------------------------------
(* enqueue, by thread t.                                                   *)

mine(t) == producers[thr[t].producer]
IndexOf(p) == p.indices[Len(p.indices)]
\* The entry for the block that begins at the tail.
NextPosition(h) == (h.tail + 1) % CapacityOf(h)

qvars == <<tables, hashCount, resizing, team>>

\* What the thread has looked up is not kept from one call to the next.
enqueue(t) ==
  /\ ThrAt(t, "idle") /\ thr[t].left > 0
  /\ Now(t, [thr[t] EXCEPT !.at = "find", !.left = @ - 1, !.producer = NoProducer])
  /\ UNCHANGED <<qvars, producers, failures, blocks, used, pool, con>>

getProducer(t) ==
  /\ \/ HashNext(t, Producer(t, <<FirstIndex>>, FreeEntries(IndexSize)))
     \/ /\ failures > 0 /\ failures' = failures - 1   \* new_block_index fails
        /\ ThrAt(t, "create")
        /\ producers' = Append(producers, Producer(t, <<>>, <<>>))
        /\ Now(t, [thr[t] EXCEPT !.at = "insert", !.producer = Len(producers) + 1])
        /\ UNCHANGED <<tables, hashCount, resizing>>
  /\ UNCHANGED <<team, blocks, used, pool, con>>

Starts(p) == Slot(p.tail) = 0

fillBlock(t) ==
  /\ ThrAt(t, "enqueue") /\ ~ Starts(mine(t)) /\ Jump(t, "write")
  /\ UNCHANGED <<qvars, producers, failures, blocks, used, pool, con>>

\* blockIndex is a null pointer: enqueue returns false.
noIndex(t) ==
  /\ ThrAt(t, "enqueue") /\ Starts(mine(t)) /\ mine(t).indices = <<>> /\ Jump(t, "idle")
  /\ UNCHANGED <<qvars, producers, failures, blocks, used, pool, con>>

HasRoom(p) ==
  LET e == p.entries[IndexOf(p).index[NextPosition(IndexOf(p))]]
  IN  e.key = NoKey \/ e.value = NoBlock

insert_block_index_entry(t) ==
  /\ ThrAt(t, "enqueue") /\ Starts(mine(t)) /\ mine(t).indices # <<>> /\ HasRoom(mine(t))
  /\ LET h == IndexOf(mine(t))
     IN  producers' = [producers EXCEPT
           ![thr[t].producer].entries[h.index[NextPosition(h)]].key = mine(t).tail]
  /\ Jump(t, "keyed")
  /\ UNCHANGED <<qvars, failures, blocks, used, pool, con>>

\* Mutant: the old entries are copied as they lie, not from the oldest on.
Grown_Unrotated(p) ==
  LET h == IndexOf(p)
      n == CapacityOf(h)
      new == [tail |-> n - 1,
              index |-> [i \in 0 .. 2 * n - 1 |->
                IF i < n THEN h.index[i] ELSE Len(p.entries) + i - n + 1]]
  IN  [p EXCEPT !.indices = Append(@, new), !.entries = @ \o FreeEntries(n)]

\* new_block_index: the old entries from the oldest on, and as many new ones.
Grown(p) ==
  LET h == IndexOf(p)
      n == CapacityOf(h)
      new == [tail |-> n - 1,
              index |-> [i \in 0 .. 2 * n - 1 |->
                IF i < n THEN h.index[(h.tail + 1 + i) % n] ELSE Len(p.entries) + i - n + 1]]
  IN  [p EXCEPT !.indices = Append(@, new), !.entries = @ \o FreeEntries(n)]

new_block_index(t) ==
  /\ ThrAt(t, "enqueue") /\ Starts(mine(t)) /\ mine(t).indices # <<>> /\ ~ HasRoom(mine(t))
  /\ \/ /\ producers' = [producers EXCEPT ![thr[t].producer] = Grown(@)]
        /\ UNCHANGED <<thr, failures>>
     \/ Fails(t) /\ UNCHANGED producers
  /\ UNCHANGED <<qvars, blocks, used, pool, con>>

setIndexTail(t) ==
  /\ ThrAt(t, "keyed") /\ Jump(t, "requisition")
  /\ LET p == thr[t].producer
     IN  producers' = [producers EXCEPT
           ![p].indices[Len(producers[p].indices)].tail = NextPosition(IndexOf(producers[p]))]
  /\ UNCHANGED <<qvars, failures, blocks, used, pool, con>>

\* requisition_block and reset_empty: from the initial pool while it lasts, then
\* from the free list, which may appear empty while others use it, or a new one.
requisition_block(t) ==
  /\ ThrAt(t, "requisition")
  /\ \E b \in 1 .. Len(blocks) + 1 :
       /\ Now(t, [thr[t] EXCEPT !.at = "store", !.block = b])
       /\ \/ /\ used < PoolSize /\ b = used + 1 /\ used' = used + 1
             /\ UNCHANGED <<blocks, pool>>
          \/ /\ used >= PoolSize /\ b \in pool /\ pool' = pool \ {b}
             /\ blocks' = [blocks EXCEPT ![b].dequeued = 0]
             /\ UNCHANGED used
          \/ /\ used >= PoolSize /\ b = Len(blocks) + 1
             /\ blocks' = Append(blocks, NewBlock)
             /\ UNCHANGED <<used, pool>>
  /\ UNCHANGED <<qvars, producers, failures, con>>

\* No block is to be had: rewind_block_index_tail.
requisitionFails(t) ==
  /\ ThrAt(t, "requisition") /\ used >= PoolSize
  /\ Fails(t)
  /\ LET p == thr[t].producer
         h == IndexOf(producers[p])
     IN  producers' = [producers EXCEPT
           ![p].indices[Len(producers[p].indices)].tail = (h.tail - 1) % CapacityOf(h),
           ![p].entries[h.index[h.tail]].value = NoBlock]
  /\ UNCHANGED <<qvars, blocks, used, pool, con>>

storeBlock(t) ==
  /\ ThrAt(t, "store") /\ Jump(t, "write")
  /\ LET h == IndexOf(mine(t))
     IN  producers' = [producers EXCEPT
           ![thr[t].producer].entries[h.index[h.tail]].value = thr[t].block,
           ![thr[t].producer].tailBlock = thr[t].block]
  /\ UNCHANGED <<qvars, failures, blocks, used, pool, con>>

Item(t) == [from |-> t, no |-> thr[t].sent + 1]

writeElement(t) ==
  /\ ThrAt(t, "write") /\ Jump(t, "publish")
  /\ blocks' = [blocks EXCEPT ![mine(t).tailBlock].elements[Slot(mine(t).tail)] = Item(t)]
  /\ UNCHANGED <<qvars, producers, failures, used, pool, con>>

storeTail(t) ==
  /\ ThrAt(t, "publish")
  /\ Now(t, [thr[t] EXCEPT !.at = "idle", !.sent = @ + 1, !.block = NoBlock])
  /\ producers' = [producers EXCEPT ![thr[t].producer].tail = @ + 1]
  /\ UNCHANGED <<qvars, failures, blocks, used, pool, con>>
-----------------------------------------------------------------------------
(* try_dequeue, by consumer c.                                             *)

ConAt(c, label) == con[c].at = label
Is(c, locals) == con' = [con EXCEPT ![c] = locals]
from(c) == producers[con[c].p]
try_dequeue(c) ==
  /\ ConAt(c, "idle")
  /\ \A i \in DOMAIN producers : producers[i].overcommit < MaxOvercommit
  /\ Is(c, [AtRest EXCEPT !.at = "look", !.p = Len(producers), !.saw =
              IF \A i \in DOMAIN producers : producers[i].head = producers[i].tail
                THEN "empty" ELSE "some"])
  /\ UNCHANGED <<qvars, thr, producers, failures, blocks, used, pool>>

\* size_approx loads the tail, then the head.
loadSizeTail(c) ==
  /\ ConAt(c, "look") /\ con[c].n < 3 /\ con[c].p > 0
  /\ Is(c, [con[c] EXCEPT !.at = "size", !.tail = from(c).tail])
  /\ UNCHANGED <<qvars, thr, producers, failures, blocks, used, pool>>

loadSizeHead(c) ==
  /\ ConAt(c, "size")
  /\ LET size == con[c].tail - from(c).head
         better == size > con[c].size
     IN  Is(c, [con[c] EXCEPT !.at = "look", !.p = @ - 1, !.tail = 0,
                              !.n = IF size > 0 THEN @ + 1 ELSE @,
                              !.best = IF better THEN con[c].p ELSE @,
                              !.size = IF better THEN size ELSE @])
  /\ UNCHANGED <<qvars, thr, producers, failures, blocks, used, pool>>

\* To dequeue from producer p; `left' are the ones to try after it.
Try(c, p, left) ==
  [AtRest EXCEPT !.at = "dequeue", !.saw = con[c].saw, !.p = p, !.best = con[c].best, !.left = left]

\* `left' has not been loaded yet.
NotYet == -1

tryBest(c) ==
  /\ ConAt(c, "look") /\ ~ (con[c].n < 3 /\ con[c].p > 0)
  /\ Is(c, IF con[c].n > 0 THEN Try(c, con[c].best, NotYet) ELSE AtRest)
  /\ UNCHANGED <<qvars, thr, producers, failures, blocks, used, pool>>

\* The dequeue from a producer fails: on to the next other than the best.
NextTry(c) ==
  LET left == IF con[c].left = NotYet THEN Len(producers) ELSE con[c].left
      others == {i \in 1 .. left : i # con[c].best}
  IN  IF others = {} THEN AtRest ELSE Try(c, Max(others), Max(others) - 1)

loadTail(c) ==
  /\ ConAt(c, "dequeue")
  /\ Is(c, [con[c] EXCEPT !.at = "check", !.tail = from(c).tail, !.overcommit = from(c).overcommit])
  /\ UNCHANGED <<qvars, thr, producers, failures, blocks, used, pool>>

loadOptimistic(c) ==
  /\ ConAt(c, "check")
  /\ Is(c, IF from(c).optimistic - con[c].overcommit < con[c].tail
             THEN [con[c] EXCEPT !.at = "claim"] ELSE NextTry(c))
  /\ UNCHANGED <<qvars, thr, producers, failures, blocks, used, pool>>

claim(c) ==
  /\ ConAt(c, "claim")
  /\ producers' = [producers EXCEPT ![con[c].p].optimistic = @ + 1]
  /\ Is(c, [con[c] EXCEPT !.at = "verify", !.count = from(c).optimistic])
  /\ UNCHANGED <<qvars, thr, failures, blocks, used, pool>>

\* At "header", i: the index to dequeue.
Taken(c) ==
  [AtRest EXCEPT !.at = "header", !.saw = con[c].saw, !.p = con[c].p, !.i = from(c).head]

\* Mutant: the claim is not verified.
takeIndex_Unverified(c) ==
  /\ ConAt(c, "verify")
  /\ producers' = [producers EXCEPT ![con[c].p].head = @ + 1]
  /\ Is(c, Taken(c))
  /\ UNCHANGED <<qvars, thr, failures, blocks, used, pool>>

\* The tail is loaded again.
takeIndex(c) ==
  /\ ConAt(c, "verify")
  /\ IF con[c].count - con[c].overcommit < from(c).tail
       THEN /\ producers' = [producers EXCEPT ![con[c].p].head = @ + 1]
            /\ Is(c, Taken(c))
       ELSE /\ Is(c, [con[c] EXCEPT !.at = "giveBack"])
            /\ UNCHANGED producers
  /\ UNCHANGED <<qvars, thr, failures, blocks, used, pool>>

giveBack(c) ==
  /\ ConAt(c, "giveBack")
  /\ producers' = [producers EXCEPT ![con[c].p].overcommit = @ + 1]
  /\ Is(c, NextTry(c))
  /\ UNCHANGED <<qvars, thr, failures, blocks, used, pool>>

\* get_block_index_entry_for_index: the current index, its tail, the key there.
loadIndex(c) ==
  /\ ConAt(c, "header")
  /\ Is(c, [con[c] EXCEPT !.at = "tail", !.h = Len(from(c).indices)])
  /\ UNCHANGED <<qvars, thr, producers, failures, blocks, used, pool>>

loadIndexTail(c) ==
  /\ ConAt(c, "tail")
  /\ Is(c, [con[c] EXCEPT !.at = "key", !.tail = from(c).indices[con[c].h].tail])
  /\ UNCHANGED <<qvars, thr, producers, failures, blocks, used, pool>>

\* The division is exact: both are the first index of a block.
loadKey(c) ==
  /\ ConAt(c, "key")
  /\ LET h == from(c).indices[con[c].h]
         tailBase == from(c).entries[h.index[con[c].tail]].key
         behind == (tailBase - Base(con[c].i)) \div BlockSize
         entry == h.index[(con[c].tail - behind) % CapacityOf(h)]
     IN  Is(c, [con[c] EXCEPT !.at = "move", !.h = 0, !.tail = 0, !.entry = entry])
  /\ UNCHANGED <<qvars, thr, producers, failures, blocks, used, pool>>

entry(c) == from(c).entries[con[c].entry]

\* The element is moved out and destroyed.
moveElement(c) ==
  /\ ConAt(c, "move")
  /\ LET b == entry(c).value
     IN  /\ blocks' = [blocks EXCEPT ![b].elements[Slot(con[c].i)] = NoItem]
         /\ Is(c, [con[c] EXCEPT !.at = "empty", !.b = b,
                                 !.item = blocks[b].elements[Slot(con[c].i)]])
  /\ UNCHANGED <<qvars, thr, producers, failures, used, pool>>

\* The last one to leave the block frees it; the others return true.
set_empty(c) ==
  /\ ConAt(c, "empty")
  /\ blocks' = [blocks EXCEPT ![con[c].b].dequeued = @ + 1]
  /\ Is(c, IF blocks[con[c].b].dequeued = BlockSize - 1
             THEN [con[c] EXCEPT !.at = "clear"] ELSE AtRest)
  /\ UNCHANGED <<qvars, thr, producers, failures, used, pool>>

clearEntry(c) ==
  /\ ConAt(c, "clear")
  /\ producers' = [producers EXCEPT ![con[c].p].entries[con[c].entry].value = NoBlock]
  /\ Is(c, [con[c] EXCEPT !.at = "free"])
  /\ UNCHANGED <<qvars, thr, failures, blocks, used, pool>>

freeBlock(c) ==
  /\ ConAt(c, "free")
  /\ pool' = pool \union {con[c].b}
  /\ Is(c, AtRest)
  /\ UNCHANGED <<qvars, thr, producers, failures, blocks, used>>

Next ==
  \/ \E t \in Threads :
       \/ enqueue(t) \/ getProducer(t) \/ fillBlock(t) \/ noIndex(t)
       \/ insert_block_index_entry(t) \/ new_block_index(t) \/ setIndexTail(t)
       \/ requisition_block(t) \/ requisitionFails(t) \/ storeBlock(t)
       \/ writeElement(t) \/ storeTail(t)
  \/ \E c \in team :
       \/ try_dequeue(c) \/ loadSizeTail(c) \/ loadSizeHead(c) \/ tryBest(c)
       \/ loadTail(c) \/ loadOptimistic(c) \/ claim(c) \/ takeIndex(c) \/ giveBack(c)
       \/ loadIndex(c) \/ loadIndexTail(c) \/ loadKey(c) \/ moveElement(c)
       \/ set_empty(c) \/ clearEntry(c) \/ freeBlock(c)

Spec == Init /\ [][Next]_vars
-----------------------------------------------------------------------------
(* Properties.                                                             *)

\* What is between head and tail of the producer of t.
Inbox(t) ==
  LET own == {i \in DOMAIN producers : producers[i].owner = t}
      p == producers[Min(own)]
  IN  IF own = {} THEN <<>>
      ELSE [k \in 1 .. p.tail - p.head |-> [from |-> t, no |-> p.head + k]]

\* A claimed index stands for the item that was enqueued there; once an element
\* is moved out, it is that element.
Hand(c) ==
  CASE con[c].at \in {"header", "tail", "key", "move"} ->
         [from |-> from(c).owner, no |-> con[c].i + 1]
    [] con[c].at \in {"empty", "clear", "free"} -> con[c].item
    [] OTHER -> NoItem

\* Whatever blocks are reused, indices grown and tables superseded meanwhile,
\* no item is lost, doubled, or comes before one its thread enqueued earlier, and
\* a lone consumer is told false only if nothing was there when it asked
\* (concurrentqueue.h:1038-1068, 2346-2474, 3207-3360).
Requests == INSTANCE RequestQueue WITH
  sent <- [t \in Threads |-> thr[t].sent],
  inbox <- [t \in Threads |-> Inbox(t)],
  asked <- [c \in Consumers |-> con[c].saw],
  hand <- [c \in Consumers |-> Hand(c)]
ImplementsRequestQueue == Requests!Spec

\* The assertions of concurrentqueue.h hold: the tail is not behind the head
\* (2352), no more is given back than was claimed (2417), the index of blocks has
\* a key at its tail (2800) and leads to the block of the index that was claimed
\* (2805), no block is emptied twice (1486); and so does what is said at line 3229
\* of the search loops: each table has a free slot.
AssertsHold ==
  /\ \A t \in Threads : ThrAt(t, "enqueue") => mine(t).head <= mine(t).tail
  /\ \A c \in team :
       /\ ConAt(c, "verify") => con[c].overcommit <= con[c].count
       /\ ConAt(c, "key") =>
            from(c).entries[from(c).indices[con[c].h].index[con[c].tail]].key # NoKey
       /\ ConAt(c, "move") => entry(c).key = Base(con[c].i) /\ entry(c).value # NoBlock
       /\ ConAt(c, "empty") => blocks[con[c].b].dequeued < BlockSize
  /\ \A i \in DOMAIN tables : \E slot \in DOMAIN tables[i] : tables[i][slot].key = NoThread
=============================================================================
