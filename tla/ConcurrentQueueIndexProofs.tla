-------------------- MODULE ConcurrentQueueIndexProofs ---------------------
(***************************************************************************)
(* The second part of the theorems about ConcurrentQueue: however its      *)
(* owner changes it meanwhile, the index of blocks leads each consumer to  *)
(* the block of the index it took, and each block has one owner at a time. *)
(* With that, the invariant holds at each moment, and so do the            *)
(* assertions of concurrentqueue.h. Two more parts rest on it, about the   *)
(* items and about a consumer that is alone, and lead to the theorem that  *)
(* the queue is the one RequestQueue describes.                            *)
(***************************************************************************)
EXTENDS ConcurrentQueueProofs
-----------------------------------------------------------------------------
(* The steps of the owner of a producer.                                   *)

\* The other producers have other owners.
LEMMA OwnerAlone ==
  ASSUME TypeOK, HashInv, NEW t \in Threads, ThrOnly(t), NEW p \in DOMAIN producers,
         producers[p].owner = t, producers'[p].owner = t, OnlyAt(p)
  PROVE  /\ \A q \in DOMAIN producers \ {p} : Doing(q)' = Doing(q)
         /\ Doing(p)' = thr'[t].at /\ Doing(p) = thr[t].at
<1>1. ASSUME NEW q \in DOMAIN producers \ {p} PROVE Doing(q)' = Doing(q)
  <2>1. producers'[q] = producers[q]
    BY DEF OnlyAt
  <2>2. PICK u : u = producers[q].owner
    OBVIOUS
  <2>3. u \in Threads /\ u # t
    BY <2>2, ProducerTyped DEF HashInv, OwnedOnce
  <2> QED BY <2>1, <2>2, <2>3 DEF Doing, ThrOnly
<1> QED BY <1>1 DEF Doing

\* The owner of producer p leaves its blocks where they are.
LEMMA OwnerPlaces ==
  ASSUME TypeOK, HashInv, CountInv, IndexInv, BlockInv, NEW t \in Threads, ThrOnly(t),
         NEW p \in DOMAIN producers, producers[p].owner = t, producers'[p].owner = t, OnlyAt(p),
         UNCHANGED <<used, pool>>, SameFill,
         producers'[p].head = producers[p].head,
             producers'[p].tailBlock = producers[p].tailBlock,
         Used(p)' = Used(p), OpenBase(p)' = OpenBase(p),
         \A e \in Used(p) : KeyOf(p, e)' = KeyOf(p, e) /\ ValueOf(p, e)' = ValueOf(p, e),
         StoreKept(t)
  PROVE  BlockInv'
<1>1. Placed /\ Keys /\ Ownership /\ \A q \in DOMAIN producers : PlaceAt(q) /\ KeysAt(q)
  BY DEF CountInv, IndexInv, BlockInv, BlocksInPlace, Keys
<1>2. con' = con
  BY DEF ThrOnly
<1>3. \A d \in Consumers : HandKept(d) /\ FreeKept(d)
  BY <1>2 DEF HandKept, FreeKept
<1>4. \A u \in Threads : StoreKept(u)
  BY DEF ThrOnly, StoreKept
<1>5. \A q \in DOMAIN producers \ {p} :
        /\ ViewKept(q) /\ producers'[q].tailBlock = producers[q].tailBlock
        /\ producers'[q].head = producers[q].head
  BY OwnerAlone, OthersKept
<1>6. \A q \in DOMAIN producers : producers'[q].head = producers[q].head
  BY <1>5
<1>7. Hands'
  BY <1>1, <1>3, <1>6, HandsFrame
<1>8. ASSUME NEW q \in DOMAIN producers, NEW e \in Used(q)
      PROVE  blocks'[ValueOf(q, e)].dequeued = blocks[ValueOf(q, e)].dequeued
  <2>1. ValueOf(q, e) \in DOMAIN blocks
    BY <1>1 DEF Ownership, EntriesOwn, InUse
  <2> QED BY <2>1 DEF SameFill
<1>9. ASSUME NEW q \in DOMAIN producers PROVE PlaceAt(q)'
  <2>1. \A base : Left(q, base)' = Left(q, base)
    BY <1>3, <1>6, SameLeft
  <2>2. CASE q = p
    BY <1>1, <1>8, <2>1, <2>2, PlaceStays
  <2>3. CASE q # p
    BY <1>1, <1>5, <1>8, <2>1, <2>3, PlaceFrame
  <2> QED BY <2>2, <2>3
<1>10. DOMAIN producers' = DOMAIN producers
  BY DEF OnlyAt
<1>11. BlocksInPlace'
  BY <1>9, <1>10 DEF BlocksInPlace
<1>12. ASSUME NEW q \in DOMAIN producers
       PROVE  Used(q)' = Used(q) /\ \A e \in Used(q) : ValueOf(q, e)' = ValueOf(q, e)
  <2>1. CASE q # p
    BY <1>5, <2>1, SameView
  <2> QED BY <2>1
<1>13. \A d \in Consumers : FreeKept(d)
  BY <1>3
<1>14. Ownership'
  BY <1>1, <1>4, <1>10, <1>12, <1>13, OwnFrame DEF SameFill
<1> QED BY <1>7, <1>11, <1>14 DEF BlockInv

\* Producer p keeps its index, and none of its keys is its tail.
LEMMA SameIndexKept ==
  ASSUME TypeOK, HashInv, CountInv, IndexInv, BlockInv, NEW t \in Threads, ThrOnly(t),
         NEW p \in DOMAIN producers, producers[p].owner = t, producers'[p].owner = t, OnlyAt(p),
         UNCHANGED <<blocks, used, pool>>,
         producers'[p].head = producers[p].head,
             producers'[p].tailBlock = producers[p].tailBlock,
         producers'[p].indices = producers[p].indices,
             producers'[p].entries = producers[p].entries,
         producers[p].indices # <<>>, NEW x, x = producers'[p].tail, x \in Nat,
             producers[p].tail <= x,
         LastBase(p)' = LastBase(p), OpenBase(p)' = OpenBase(p),
         \A e \in DOMAIN producers[p].entries : KeyOf(p, e) # x,
         Doing(p)' \notin {"keyed", "requisition", "store"}, StoreKept(t)
  PROVE  IndexInv' /\ BlockInv'
<1>1. /\ Used(p)' = Used(p)
      /\ \A e : KeyOf(p, e)' = KeyOf(p, e) /\ ValueOf(p, e)' = ValueOf(p, e)
      /\ \A h, tail, last : Anchored(p, h, tail, last)' <=> Anchored(p, h, tail, last)
  BY EntriesKept
<1>2. SameFill
  BY DEF SameFill
<1>3. BlockInv'
  BY <1>1, <1>2, OwnerPlaces
<1>4. ShapeAt(p) /\ KeysAt(p) /\ AnchorAt(p) /\ Placed /\ Searches
  BY DEF IndexInv, IndexShape, Keys, Anchors, CountInv
<1>5. ShapeAt(p)'
  BY <1>4 DEF ShapeAt
<1>6. KeysAt(p)'
  <2>1. producers[p].tail \in Nat
    BY ProducerTyped
  <2>2. ASSUME NEW e \in DOMAIN producers[p].entries, KeyOf(p, e) # NoKey
        PROVE  /\ KeyOf(p, e) \in Nat /\ Slot(KeyOf(p, e)) = 0 /\ KeyOf(p, e) <= x
               /\ KeyOf(p, e) # x
               /\ \A f \in DOMAIN producers[p].entries : KeyOf(p, e) = KeyOf(p, f) => e = f
    BY <1>4, <2>1, <2>2 DEF KeysAt
  <2>3. \A e \in Used(p) : KeyOf(p, e) # NoKey /\ KeyOf(p, e) <= OpenBase(p)
    BY <1>4 DEF KeysAt
  <2> QED BY <1>1, <2>2, <2>3 DEF KeysAt, Slot
<1>7. AnchorAt(p)'
  <2>1. PICK h, l : h = Current(p) /\ l = LastBase(p)
    OBVIOUS
  <2>2. Anchored(p, h, h.tail, l)'
    BY <1>1, <1>4, <2>1 DEF AnchorAt
  <2>3. Current(p)' = h /\ LastBase(p)' = l
    BY <2>1 DEF Current, IndexOf
  <2> QED BY <2>2, <2>3 DEF AnchorAt, Anchored
<1>8. con' = con
  BY DEF ThrOnly
<1>9. ASSUME NEW d \in Consumers PROVE SearchAt(d)' \/ (con'[d] = con[d] /\ con[d].p # p)
  <2>1. CASE con[d].p = p
    BY <1>4, <1>8, <2>1, SameSearch DEF Searches
  <2> QED BY <1>8, <2>1
<1>10. \A q \in DOMAIN producers \ {p} : Doing(q)' = Doing(q)
  BY OwnerAlone
<1>11. IndexInv'
  BY <1>4, <1>5, <1>6, <1>7, <1>9, <1>10, IndexChange
<1> QED BY <1>3, <1>11

\* The element goes into a block that is not full.
LEMMA FillKeepsBlocks ==
  ASSUME TypeOK, HashInv, CountInv, IndexInv, BlockInv, NEW t \in Threads, fillBlock(t)
  PROVE  IndexInv' /\ BlockInv'
<1>1. PICK p : p = thr[t].producer
  OBVIOUS
<1>2. /\ ThrOnly(t) /\ UNCHANGED <<producers, blocks, used, pool>>
      /\ thr[t].at = "enqueue" /\ p \in DOMAIN producers /\ producers[p].owner = t
      /\ thr'[t].at = "write" /\ ~ Starts(producers[p])
  BY <1>1, FillBlockStep DEF HashInv
<1>3. PICK x : x = producers[p].tail
  OBVIOUS
<1>4. x \in Nat /\ Slot(x) # 0 /\ Base(x - 1) = Base(x)
  <2>1. x \in Nat /\ Slot(x) # 0
    BY <1>2, <1>3, ProducerTyped DEF Starts
  <2> QED BY <2>1, BaseBefore
<1>5. OnlyAt(p)
  BY <1>2 DEF OnlyAt
<1>6. Doing(p)' = "write" /\ Doing(p) = "enqueue"
  BY <1>2, <1>5, OwnerAlone
<1>7. LastBase(p)' = LastBase(p) /\ OpenBase(p)' = OpenBase(p)
  BY <1>2, <1>3, <1>4, <1>6 DEF LastBase, OpenBase, Filling, Base, Slot
<1>8. ShapeAt(p) /\ KeysAt(p)
  BY <1>2 DEF IndexInv, IndexShape, Keys
<1>9. producers[p].indices # <<>>
  <2>1. Slot(0) = 0
    <3>1. 0 \in 0 .. BlockSize - 1 /\ BlockSize \in Nat \ {0}
      BY QueueConstants
    <3> QED BY <3>1, SmallMod DEF Slot
  <2> QED BY <1>3, <1>4, <1>8, <2>1 DEF ShapeAt
<1>10. \A e \in DOMAIN producers[p].entries : KeyOf(p, e) # x
  <2>1. NoKey # x
    BY <1>4 DEF NoKey
  <2> QED BY <1>4, <1>8, <2>1 DEF KeysAt
<1>11. StoreKept(t)
  BY <1>2 DEF StoreKept
<1>12. Doing(p)' \notin {"keyed", "requisition", "store"} /\ x = producers'[p].tail
           /\ producers[p].tail <= x
  BY <1>2, <1>3, <1>4, <1>6
<1> QED BY <1>2, <1>4, <1>5, <1>7, <1>9, <1>10, <1>11, <1>12, SameIndexKept

\* The element is there for consumers once the tail is stored.
LEMMA StoreTailKeepsBlocks ==
  ASSUME TypeOK, HashInv, CountInv, IndexInv, BlockInv, NEW t \in Threads, storeTail(t)
  PROVE  IndexInv' /\ BlockInv'
<1>1. PICK p : p = thr[t].producer
  OBVIOUS
<1>2. /\ ThrOnly(t) /\ UNCHANGED <<blocks, used, pool>>
      /\ thr[t].at = "publish" /\ p \in DOMAIN producers /\ producers[p].owner = t
      /\ thr'[t].at = "idle" /\ OnlyAt(p)
      /\ producers'[p].owner = producers[p].owner /\ producers'[p].head = producers[p].head
      /\ producers'[p].tailBlock = producers[p].tailBlock
      /\ producers'[p].indices = producers[p].indices
      /\ producers'[p].entries = producers[p].entries
      /\ producers'[p].tail = producers[p].tail + 1
  BY <1>1, StoreTailStep DEF HashInv
<1>3. PICK x : x = producers[p].tail
  OBVIOUS
<1>4. x \in Nat
  BY <1>2, <1>3, ProducerTyped
<1>5. PICK y : y = x + 1
  OBVIOUS
<1>6. y \in Nat /\ y - 1 = x /\ producers'[p].tail = y /\ x <= y
  BY <1>2, <1>3, <1>4, <1>5
<1>7. Doing(p)' = "idle" /\ Doing(p) = "publish"
  BY <1>2, OwnerAlone
<1>8. LastBase(p) = Base(x) /\ OpenBase(p) = Base(x)
  BY <1>3, <1>7 DEF LastBase, OpenBase, Filling
<1>9. LastBase(p)' = Base(y - 1) /\ OpenBase(p)' = Base(y - 1)
  BY <1>6, <1>7 DEF LastBase, OpenBase, Filling, Base, Slot
<1>10. LastBase(p)' = LastBase(p) /\ OpenBase(p)' = OpenBase(p)
  BY <1>6, <1>8, <1>9
<1>11. ShapeAt(p) /\ KeysAt(p)
  BY <1>2 DEF IndexInv, IndexShape, Keys
<1>12. producers[p].indices # <<>>
  BY <1>7, <1>11 DEF ShapeAt
<1>13. \A e \in DOMAIN producers[p].entries : KeyOf(p, e) # y
  <2>1. NoKey # y
    BY <1>6 DEF NoKey
  <2>2. ~ (y <= x)
    BY <1>4, <1>5
  <2> QED BY <1>3, <1>11, <2>1, <2>2 DEF KeysAt
<1>14. StoreKept(t)
  BY <1>2 DEF StoreKept
<1>15. Doing(p)' \notin {"keyed", "requisition", "store"}
  BY <1>7
<1> QED BY <1>2, <1>3, <1>6, <1>10, <1>12, <1>13, <1>14, <1>15, SameIndexKept

\* While an element is written or published, the block it goes into is that of an entry.
LEMMA OpenBlock ==
  ASSUME TypeOK, CountInv, IndexInv, BlockInv, NEW p \in DOMAIN producers,
         Doing(p) \in {"write", "publish"}, NEW b, b = producers[p].tailBlock
  PROVE  /\ b \in DOMAIN blocks
         /\ \E e \in Used(p) : KeyOf(p, e) = Base(producers[p].tail) /\ ValueOf(p, e) = b
<1>1. PICK x : x = producers[p].tail
  OBVIOUS
<1>2. x \in Nat /\ producers[p].head \in Nat
  BY <1>1, ProducerTyped
<1>3. PICK base : base = Base(x)
  OBVIOUS
<1>4. base \in Int /\ 0 <= base /\ base <= x /\ x < base + BlockSize /\ IsBase(base)
  <2>1. x >= 0 /\ x \in Int
    BY <1>2
  <2> QED BY <1>3, <2>1, BaseOf, BaseBefore
<1>5. producers[p].head <= x
  BY <1>1 DEF CountInv, Counted, CountedAt
<1>6. OpenBase(p) = base
  BY <1>1, <1>3 DEF OpenBase
<1>7. x \in Left(p, base)
  <2>1. x \in base .. base + BlockSize - 1
    BY <1>2, <1>4, QueueConstants
  <2>2. x >= producers[p].head
    BY <1>2, <1>5
  <2> QED BY <2>1, <2>2 DEF Left
<1>8. PlaceAt(p)
  BY DEF BlockInv, BlocksInPlace
<1>9. PICK e \in Used(p) : KeyOf(p, e) = base
  <2>1. base \in 0 .. OpenBase(p) /\ Slot(base) = 0 /\ Left(p, base) # {}
    BY <1>4, <1>6, <1>7 DEF IsBase
  <2> QED BY <1>8, <2>1 DEF PlaceAt
<1>10. ValueOf(p, e) = b
  BY <1>6, <1>8, <1>9 DEF PlaceAt
<1>11. b \in DOMAIN blocks
  BY <1>9, <1>10 DEF BlockInv, Ownership, EntriesOwn, InUse
<1> QED BY <1>1, <1>3, <1>9, <1>10, <1>11

\* Writing the element disturbs no index, and the count of no block.
LEMMA WriteKeepsBlocks ==
  ASSUME TypeOK, HashInv, CountInv, IndexInv, BlockInv, NEW t \in Threads, writeElement(t)
  PROVE  IndexInv' /\ BlockInv'
<1>1. PICK p : p = thr[t].producer
  OBVIOUS
<1>2. thr[t].at = "write"
  BY DEF writeElement, ThrAt
<1>3. p \in DOMAIN producers /\ producers[p].owner = t
  BY <1>1, <1>2 DEF HashInv, ThreadsSound, ThreadSound, Enqueueing
<1>4. PICK b : b = producers[p].tailBlock
  OBVIOUS
<1>5. b \in DOMAIN blocks
  BY <1>2, <1>3, <1>4, OpenBlock DEF Doing
<1>6. /\ ThrOnly(t) /\ UNCHANGED <<producers, used, pool>> /\ thr'[t].at = "publish"
      /\ Len(blocks') = Len(blocks) /\ DOMAIN blocks' = DOMAIN blocks
      /\ \A d \in DOMAIN blocks \ {b} : blocks'[d] = blocks[d]
      /\ blocks'[b].dequeued = blocks[b].dequeued
  <2>1. ThreadsSound
    BY DEF HashInv
  <2>2. p = thr[t].producer /\ b = producers[p].tailBlock
    BY <1>1, <1>4
  <2>3. ThrOnly(t)
    <3>1. TypeOK'
      BY <1>5, <2>1, <2>2, WriteElementStep
    <3>2. thr' \in [Threads -> ThreadType]
      BY <3>1 DEF TypeOK
    <3>3. /\ \A u \in Threads \ {t} : thr'[u] = thr[u]
          /\ UNCHANGED <<team, con>>
      BY DEF TypeOK, writeElement, Jump, Now, qvars
    <3> QED BY <3>2, <3>3 DEF ThrOnly
  <2>4. UNCHANGED <<producers, used, pool>>
    BY <1>5, <2>1, <2>2, WriteElementStep
  <2>5. thr'[t].at = "publish"
    BY DEF TypeOK, writeElement, Jump, Now
  <2>6. Len(blocks') = Len(blocks) /\ DOMAIN blocks' = DOMAIN blocks
    BY DEF TypeOK, writeElement
  <2>7. ASSUME NEW d \in DOMAIN blocks \ {b} PROVE blocks'[d] = blocks[d]
    BY <1>1, <1>4 DEF TypeOK, writeElement, mine
  <2>8. blocks'[b].dequeued = blocks[b].dequeued
    <3>1. blocks[b] \in Blocks /\ blocks \in Seq(Blocks)
      BY <1>5 DEF TypeOK
    <3>2. blocks' = [blocks EXCEPT ![b].elements[Slot(producers[p].tail)] = Item(t)]
      BY <1>1, <1>4 DEF writeElement, mine
    <3> QED BY <1>5, <3>1, <3>2 DEF Blocks
  <2> QED BY <2>3, <2>4, <2>5, <2>6, <2>7, <2>8
<1>7. OnlyAt(p)
  BY <1>6 DEF OnlyAt
<1>8. SameFill
  BY <1>6 DEF SameFill
<1>9. StoreKept(t)
  BY <1>2, <1>6 DEF StoreKept
<1>10. Placed
  BY DEF CountInv
<1> QED BY <1>2, <1>6, <1>8, <1>9, <1>10, ThreadsKeepBlocks DEF Filling

\* The entry a consumer has found is in use until it is cleared.
LEMMA EntryInUse ==
  ASSUME TypeOK, CountInv, IndexInv, BlockInv, NEW d \in Consumers,
             con[d].at \in {"move", "empty", "clear"},
         NEW p, p = con[d].p
  PROVE  con[d].entry \in Used(p) /\ con[d].entry \in DOMAIN producers[p].entries
<1>1. con[d].entry \in Used(p)
  <2>1. CASE con[d].at = "clear"
    BY <2>1, ClearFound
  <2>2. CASE con[d].at \in {"move", "empty"}
    BY <2>2, EntryFound
  <2> QED BY <2>1, <2>2
<1> QED BY <1>1 DEF Used

\* Consumers find their entries still, where the owner of producer p has changed its index
\* but no entry in use, and no key they may pass.
LEMMA OwnerSearches ==
  ASSUME TypeOK, CountInv, IndexInv, BlockInv, NEW p \in DOMAIN producers, con' = con,
         DOMAIN producers[p].indices \subseteq DOMAIN producers'[p].indices,
         \A j \in DOMAIN producers[p].indices :
           /\ producers'[p].indices[j].index = producers[p].indices[j].index
           /\ j # Len(producers[p].indices) =>
                  producers'[p].indices[j] = producers[p].indices[j],
         \/ Len(producers'[p].indices) = Len(producers[p].indices)
         \/ /\ \A j \in DOMAIN producers[p].indices :
                   producers'[p].indices[j] = producers[p].indices[j]
            /\ \A d \in Consumers : con[d].at = "tail" /\ con[d].p = p
                   /\ con[d].h = Len(producers[p].indices) =>
                 LeadsTo(d, Searched(d), Searched(d).tail),
         DOMAIN producers[p].entries \subseteq DOMAIN producers'[p].entries,
             Used(p)' \subseteq Used(p),
         \A e \in DOMAIN producers[p].entries :
           KeyOf(p, e)' = KeyOf(p, e) \/ \A f \in Used(p) : ~ (KeyOf(p, f) <= KeyOf(p, e)),
         \A e \in Used(p) : KeyOf(p, e)' = KeyOf(p, e) /\ ValueOf(p, e)' = ValueOf(p, e)
  PROVE  \A d \in Consumers : SearchAt(d)' \/ (con'[d] = con[d] /\ con[d].p # p)
<1>0. Placed /\ Searches
  BY DEF CountInv, IndexInv
<1>1. ASSUME NEW d \in Consumers, con[d].p = p PROVE SearchAt(d)'
  <2>1. con[d].at \in {"tail", "key"} => con[d].h \in DOMAIN producers[p].indices
    BY <1>0, <1>1 DEF Searches, SearchAt
  <2>2. con[d].at = "key" =>
            producers'[p].indices[con[d].h].index = producers[p].indices[con[d].h].index
    BY <2>1
  <2>3. con[d].at = "tail" =>
           \/ con[d].h = Len(producers'[p].indices)
           \/ /\ producers'[p].indices[con[d].h] = producers[p].indices[con[d].h]
              /\ con[d].h # Len(producers[p].indices)
                     \/ LeadsTo(d, Searched(d), Searched(d).tail)
    BY <1>1, <2>1
  <2>4. con[d].at \in {"move", "empty", "clear"} =>
          KeyOf(p, con[d].entry)' = KeyOf(p, con[d].entry)
              /\ ValueOf(p, con[d].entry)' = ValueOf(p, con[d].entry)
    <3>1. PICK x : x = con[d].entry
      OBVIOUS
    <3>2. con[d].at \in {"move", "empty", "clear"} => x \in Used(p)
      BY <1>1, <3>1, EntryInUse
    <3>3. KeyOf(p, con[d].entry)' = KeyOf(p, x)' /\ ValueOf(p, con[d].entry)' = ValueOf(p, x)'
      BY <3>1 DEF KeyOf, ValueOf
    <3> QED BY <3>1, <3>2, <3>3
  <2>5. con'[d] = con[d]
    OBVIOUS
  <2> QED BY <1>0, <1>1, <2>2, <2>3, <2>4, <2>5, SearchKept
<1> QED BY <1>1

\* The entry the next block is to have is not in use, and no entry in use has a key as old as its.
LEMMA OldestGone ==
  ASSUME TypeOK, IndexInv, NEW p \in DOMAIN producers, Doing(p) = "enqueue",
         producers[p].indices # <<>>, HasRoom(producers[p]), NEW x, x = producers[p].tail,
             Slot(x) = 0,
         NEW h, h = Current(p), NEW e, e = h.index[NextPosition(h)]
  PROVE  /\ e \in DOMAIN producers[p].entries /\ e \notin Used(p)
         /\ KeyOf(p, e) = x \/ \A f \in Used(p) : ~ (KeyOf(p, f) <= KeyOf(p, e))
<1>1. IndexShape /\ KeysAt(p) /\ AnchorAt(p)
  BY DEF IndexInv, Keys, Anchors
<1>2. /\ h \in Headers /\ CapacityOf(h) \in Nat \ {0} /\ DOMAIN h.index = 0 .. CapacityOf(h) - 1
      /\ h.tail \in 0 .. CapacityOf(h) - 1 /\ NextPosition(h) \in 0 .. CapacityOf(h) - 1
      /\ \A i \in 0 .. CapacityOf(h) - 1 : h.index[i] \in DOMAIN producers[p].entries
      /\ \A i, m \in 0 .. CapacityOf(h) - 1 : h.index[i] = h.index[m] => i = m
  BY <1>1, CurrentShape
<1>3. e \in DOMAIN producers[p].entries
  BY <1>2
<1>4. e \notin Used(p)
  <2>1. KeyOf(p, e) = NoKey \/ ValueOf(p, e) = NoBlock
    BY DEF HasRoom, KeyOf, ValueOf, Current, IndexOf
  <2>2. \A f \in Used(p) : KeyOf(p, f) # NoKey /\ ValueOf(p, f) # NoBlock
    BY <1>1 DEF KeysAt, Used, ValueOf
  <2> QED BY <2>1, <2>2
<1>5. ASSUME NEW f \in Used(p), KeyOf(p, f) <= KeyOf(p, e), KeyOf(p, e) # x PROVE FALSE
  <2>1. PICK a, k : a = KeyOf(p, f) /\ k = KeyOf(p, e)
    OBVIOUS
  <2>2. f \in DOMAIN producers[p].entries /\ a # NoKey
    BY <1>1, <2>1 DEF KeysAt, Used
  <2>3. a \in Nat /\ IsBase(a)
    BY <1>1, <2>1, <2>2 DEF KeysAt, IsBase
  <2>4. k \in Int /\ a <= k
    BY <1>3, <1>5, <2>1, EntryTyped
  <2>5. k # NoKey
    BY <2>3, <2>4 DEF NoKey
  <2>6. k \in Nat /\ IsBase(k) /\ k <= x /\ k # x /\ k # a
    <3>1. k = a => f = e
      BY <1>1, <1>3, <2>1, <2>2 DEF KeysAt
    <3> QED BY <1>1, <1>3, <1>4, <1>5, <2>1, <2>5, <3>1 DEF KeysAt, IsBase
  <2>7. x \in Nat /\ IsBase(x)
    BY ProducerTyped DEF IsBase
  <2>8. PICK n, last, B \in Int : n = CapacityOf(h) /\ last = x - BlockSize /\ B = BlockSize
    BY <1>2, <2>7, QueueConstants
  <2>9. LastBase(p) = last
    BY <2>7, <2>8, BaseBefore DEF LastBase, Filling
  <2>10. k + B <= x /\ a + B <= k
    <3>1. a < k /\ k < x
      BY <2>3, <2>4, <2>6, <2>7
    <3>2. k + BlockSize <= x
      BY <2>6, <2>7, <3>1, BasesApart
    <3>3. a + BlockSize <= k
      BY <2>3, <2>6, <3>1, BasesApart
    <3> QED BY <2>8, <3>2, <3>3
  <2>11. IsBase(last) /\ IsBase(k - B) /\ k <= last /\ a <= k - B /\ k - B <= last
             /\ k - B \in Int /\ last \in Int
    <3>1. IsBase(x - BlockSize) /\ IsBase(k - BlockSize)
      BY <2>6, <2>7, NextBase
    <3> QED BY <2>3, <2>6, <2>7, <2>8, <2>10, <3>1
  <2>12. PICK m : m = (last - k) \div BlockSize
    OBVIOUS
  <2>13. m \in Nat
    BY <2>6, <2>11, <2>12, BasesApart
  <2>14. (last - (k - B)) \div BlockSize = m + 1
    <3>1. ((k - B) + BlockSize) = k
      BY <2>6, <2>8, QueueConstants
    <3>2. (last - (k - B)) \div BlockSize = (((last + BlockSize) - k)) \div BlockSize
      <4>1. last - (k - B) = (last + BlockSize) - k
        BY <2>6, <2>8, <2>11
      <4> QED BY <4>1
    <3>3. ((last + BlockSize) - k) \div BlockSize = ((last - k) \div BlockSize) + 1
      <4>1. IsBase(last) /\ IsBase(k)
        BY <2>6, <2>11
      <4> QED BY <4>1, BaseAway
    <3> QED BY <2>12, <3>2, <3>3
  <2>15. Anchored(p, h, h.tail, last)
    BY <1>1, <2>9 DEF AnchorAt
  <2>16. m + 1 < n
    <3>1. k - B \in KeyOf(p, f) .. last /\ Slot(k - B) = 0
      BY <2>1, <2>3, <2>11 DEF IsBase
    <3> QED BY <2>8, <2>14, <2>15, <3>1 DEF Anchored
  <2>17. KeyOf(p, h.index[(h.tail - m) % n]) = k
    <3>1. k \in KeyOf(p, f) .. last /\ Slot(k) = 0
      BY <2>1, <2>3, <2>4, <2>6, <2>11 DEF IsBase
    <3> QED BY <2>8, <2>12, <2>15, <3>1 DEF Anchored
  <2>18. (h.tail - m) % n \in 0 .. n - 1
    <3>1. n \in Nat \ {0} /\ h.tail \in 0 .. n - 1 /\ m \in Int
      BY <1>2, <2>8, <2>13
    <3> QED BY <3>1, RingSteps
  <2>19. h.index[(h.tail - m) % n] = e
    <3>1. PICK g : g = h.index[(h.tail - m) % n]
      OBVIOUS
    <3>2. g \in DOMAIN producers[p].entries
      BY <1>2, <2>8, <2>18, <3>1
    <3>3. KeyOf(p, e) # NoKey /\ KeyOf(p, e) = KeyOf(p, g)
      BY <2>1, <2>5, <2>17, <3>1
    <3> QED BY <1>1, <1>3, <3>1, <3>2, <3>3 DEF KeysAt
  <2>20. (h.tail - m) % n = NextPosition(h)
    BY <1>2, <2>8, <2>18, <2>19
  <2>21. (h.tail - m) % n = (h.tail - (n - 1)) % n
    <3>1. n \in Nat \ {0} /\ h.tail \in 0 .. n - 1
      BY <1>2, <2>8
    <3>2. (h.tail - (n - 1)) % n = (h.tail + 1) % n
      <4>1. PICK y : y = h.tail
        OBVIOUS
      <4>2. (y - (n - 1)) % n = (y + 1) % n
        BY <3>1, <4>1, RingEnd
      <4> QED BY <4>1, <4>2
    <3> QED BY <2>8, <2>20, <3>2 DEF NextPosition
  <2>22. m = n - 1
    <3>1. m \in 0 .. n - 1 /\ n - 1 \in 0 .. n - 1 /\ n \in Nat \ {0} /\ h.tail \in Int
      BY <1>2, <2>8, <2>13, <2>16
    <3>2. PICK y \in Int, i \in 0 .. n - 1, j \in 0 .. n - 1 : y = h.tail /\ i = m /\ j = n - 1
      BY <3>1
    <3>3. (y - i) % n = (y - j) % n
      BY <2>21, <3>2
    <3>4. i = j
      BY <3>1, <3>3, RingApart
    <3> QED BY <3>2, <3>4
  <2> QED BY <2>8, <2>13, <2>16, <2>22
<1> QED BY <1>3, <1>4, <1>5

\* The next entry gets the key of the block to be.
LEMMA InsertKeepsBlocks ==
  ASSUME TypeOK, HashInv, CountInv, IndexInv, BlockInv, NEW t \in Threads,
             insert_block_index_entry(t)
  PROVE  IndexInv' /\ BlockInv'
<1>0. Placed /\ IndexShape /\ ThreadsSound
  BY DEF CountInv, IndexInv, HashInv
<1>1. PICK p : p = thr[t].producer
  OBVIOUS
<1>2. PICK x : x = producers[p].tail
  OBVIOUS
<1>3. PICK h : h = Current(p)
  OBVIOUS
<1>4. PICK e : e = h.index[NextPosition(h)]
  OBVIOUS
<1>5. /\ ThrOnly(t) /\ UNCHANGED <<blocks, used, pool>>
      /\ thr[t].at = "enqueue" /\ p \in DOMAIN producers /\ producers[p].owner = t
      /\ producers[p].indices # <<>> /\ Starts(producers[p]) /\ HasRoom(producers[p])
      /\ thr'[t].at = "keyed" /\ OnlyAt(p)
  BY <1>0, <1>1, InsertEntryStep
<1>6. /\ producers'[p].owner = producers[p].owner /\ producers'[p].tail = x
      /\ producers'[p].head = producers[p].head
      /\ producers'[p].tailBlock = producers[p].tailBlock
      /\ producers'[p].indices = producers[p].indices
      /\ DOMAIN producers'[p].entries = DOMAIN producers[p].entries
  BY <1>0, <1>1, <1>2, InsertEntryStep
<1>7. /\ producers'[p].entries[e].key = x
      /\ producers'[p].entries[e].value = producers[p].entries[e].value
      /\ \A f \in DOMAIN producers[p].entries \ {e} :
             producers'[p].entries[f] = producers[p].entries[f]
  <2>1. Current(p).index[NextPosition(Current(p))] = e
    BY <1>3, <1>4
  <2>2. producers'[p].entries[e].key = x
    BY <1>0, <1>1, <1>2, <2>1, InsertEntryStep
  <2>3. producers'[p].entries[e].value = producers[p].entries[e].value
    <3>1. producers'[p].entries[Current(p).index[NextPosition(Current(p))]].value
            = producers[p].entries[Current(p).index[NextPosition(Current(p))]].value
      BY <1>0, <1>1, InsertEntryStep
    <3> QED BY <2>1, <3>1
  <2>4. ASSUME NEW f \in DOMAIN producers[p].entries \ {e}
        PROVE producers'[p].entries[f] = producers[p].entries[f]
    <3>1. producers \in Seq(ProducerType) /\ producers[p] \in ProducerType
      BY <1>5 DEF TypeOK
    <3>2. producers' = [producers EXCEPT ![p].entries[e].key = x]
      BY <1>1, <1>2, <2>1 DEF insert_block_index_entry, mine, Current
    <3>3. PICK o : o = [producers[p] EXCEPT !.entries[e].key = x]
      OBVIOUS
    <3>4. o.entries[f] = producers[p].entries[f]
      BY <3>1, <3>3 DEF ProducerType
    <3>5. producers'[p] = o
      BY <1>5, <3>1, <3>2, <3>3
    <3> QED BY <3>4, <3>5
  <2> QED BY <2>2, <2>3, <2>4
<1>8. Doing(p)' = "keyed" /\ Doing(p) = "enqueue"
          /\ \A q \in DOMAIN producers \ {p} : Doing(q)' = Doing(q)
  BY <1>5, <1>6, OwnerAlone
<1>9. x \in Nat /\ Slot(x) = 0 /\ IsBase(x)
  BY <1>2, <1>5, ProducerTyped DEF Starts, IsBase
<1>10. /\ e \in DOMAIN producers[p].entries /\ e \notin Used(p)
       /\ KeyOf(p, e) = x \/ \A f \in Used(p) : ~ (KeyOf(p, f) <= KeyOf(p, e))
  BY <1>2, <1>3, <1>4, <1>5, <1>8, <1>9, OldestGone
<1>11. /\ KeyOf(p, e)' = x
       /\ \A f \in DOMAIN producers[p].entries \ {e} : KeyOf(p, f)' = KeyOf(p, f)
       /\ \A f \in DOMAIN producers[p].entries : ValueOf(p, f)' = ValueOf(p, f)
  BY <1>7, <1>10 DEF KeyOf, ValueOf
<1>12. Used(p)' = Used(p)
  BY <1>6, <1>11 DEF Used, ValueOf
<1>13. \A f \in Used(p) : f \in DOMAIN producers[p].entries \ {e}
  BY <1>10 DEF Used
<1>14. \A f \in Used(p) : KeyOf(p, f)' = KeyOf(p, f) /\ ValueOf(p, f)' = ValueOf(p, f)
  BY <1>11, <1>13
<1>15. LastBase(p)' = LastBase(p) /\ OpenBase(p)' = OpenBase(p)
  BY <1>2, <1>6, <1>8 DEF LastBase, OpenBase, Filling, Base, Slot
<1>16. /\ Current(p)' = h /\ TailEntry(p) = e
  BY <1>3, <1>4, <1>6, <1>8 DEF Current, TailEntry, IndexOf, Filling
<1>17. TailEntry(p)' = e
  BY <1>4, <1>8, <1>16 DEF TailEntry, Filling, NextPosition, CapacityOf
<1>18. StoreKept(t) /\ SameFill
  BY <1>5 DEF StoreKept, SameFill
<1>19. BlockInv'
  BY <1>5, <1>6, <1>12, <1>14, <1>15, <1>18, OwnerPlaces
<1>20. ShapeAt(p) /\ KeysAt(p) /\ AnchorAt(p)
  BY <1>5 DEF IndexInv, IndexShape, Keys, Anchors
<1>21. ShapeAt(p)'
  <2>1. KeyOf(p, TailEntry(p))' = x /\ ValueOf(p, TailEntry(p))' = NoBlock
    <3>1. ValueOf(p, e)' = NoBlock
      BY <1>10, <1>11 DEF Used, ValueOf
    <3> QED BY <1>11, <1>17, <3>1 DEF KeyOf, ValueOf
  <2>2. Slot(producers[p].tail)' = 0
    BY <1>6, <1>9 DEF Slot
  <2> QED BY <1>5, <1>6, <1>8, <1>20, <2>1, <2>2 DEF ShapeAt
<1>22. KeysAt(p)'
  <2>1. NoKey # x
    BY <1>9 DEF NoKey
  <2>2. ASSUME NEW f \in DOMAIN producers[p].entries \ {e}, KeyOf(p, f) # NoKey
        PROVE  /\ KeyOf(p, f) \in Nat /\ Slot(KeyOf(p, f)) = 0 /\ KeyOf(p, f) <= x
               /\ KeyOf(p, f) # x
               /\ \A g \in DOMAIN producers[p].entries : KeyOf(p, f) = KeyOf(p, g) => f = g
    BY <1>2, <1>16, <1>20, <2>2 DEF KeysAt
  <2>3. ASSUME NEW f \in DOMAIN producers[p].entries, KeyOf(p, f)' # NoKey
        PROVE  /\ KeyOf(p, f)' \in Nat /\ Slot(KeyOf(p, f)') = 0 /\ KeyOf(p, f)' <= x
               /\ KeyOf(p, f)' = x => f = e
               /\ \A g \in DOMAIN producers[p].entries : KeyOf(p, f)' = KeyOf(p, g)' => f = g
    <3>1. CASE f = e
      <4>1. ASSUME NEW g \in DOMAIN producers[p].entries, x = KeyOf(p, g)' PROVE g = e
        <5>1. CASE g # e
          <6>1. KeyOf(p, g) = x
            BY <1>11, <4>1, <5>1
          <6> QED BY <2>1, <2>2, <5>1, <6>1
        <5> QED BY <5>1
      <4>2. x <= x
        BY <1>9
      <4> QED BY <1>9, <1>11, <3>1, <4>1, <4>2
    <3>2. CASE f # e
      <4>1. KeyOf(p, f)' = KeyOf(p, f) /\ KeyOf(p, f) # NoKey
        BY <1>11, <2>3, <3>2
      <4>2. KeyOf(p, f) # x
        BY <2>2, <3>2, <4>1
      <4>3. \A g \in DOMAIN producers[p].entries : KeyOf(p, f)' = KeyOf(p, g)' => f = g
        BY <1>11, <2>2, <3>2, <4>1, <4>2
      <4> QED BY <2>2, <3>2, <4>1, <4>2, <4>3
    <3> QED BY <3>1, <3>2
  <2>4. \A f \in Used(p) : KeyOf(p, f)' # NoKey /\ KeyOf(p, f)' <= OpenBase(p)
    BY <1>14, <1>20 DEF KeysAt
  <2> QED BY <1>6, <1>12, <1>15, <1>17, <2>3, <2>4 DEF KeysAt, Slot
<1>23. \A f \in DOMAIN producers[p].entries :
         KeyOf(p, f)' = KeyOf(p, f) \/ \A g \in Used(p) : ~ (KeyOf(p, g) <= KeyOf(p, f))
  BY <1>10, <1>11
<1>24. AnchorAt(p)'
  <2>1. h \in Headers /\ h.tail \in DOMAIN h.index
        /\ \A j \in DOMAIN h.index : h.index[j] \in DOMAIN producers[p].entries
    BY <1>0, <1>3, <1>5, CurrentHeader
  <2>2. PICK l : l = LastBase(p)
    OBVIOUS
  <2>3. IsBase(l) /\ Anchored(p, h, h.tail, l)
    BY <1>3, <1>5, <1>20, <2>2, LastBases DEF AnchorAt
  <2>4. Used(p)' \subseteq Used(p)
    BY <1>12
  <2>5. Anchored(p, h, h.tail, l)'
    BY <1>5, <1>20, <1>23, <2>1, <2>3, <2>4, AnchoredKept
  <2>6. Current(p)' = h /\ LastBase(p)' = l
    BY <1>15, <1>16, <2>2
  <2> QED BY <2>5, <2>6 DEF AnchorAt, Anchored
<1>25. con' = con
  BY <1>5 DEF ThrOnly
<1>26. \A d \in Consumers : SearchAt(d)' \/ (con'[d] = con[d] /\ con[d].p # p)
  <2>1. DOMAIN producers[p].indices \subseteq DOMAIN producers'[p].indices
        /\ Len(producers'[p].indices) = Len(producers[p].indices)
    BY <1>6
  <2>2. \A j \in DOMAIN producers[p].indices :
           /\ producers'[p].indices[j].index = producers[p].indices[j].index
           /\ j # Len(producers[p].indices) =>
                  producers'[p].indices[j] = producers[p].indices[j]
    BY <1>6
  <2>3. DOMAIN producers[p].entries \subseteq DOMAIN producers'[p].entries
            /\ Used(p)' \subseteq Used(p)
    BY <1>6, <1>12
  <2> QED BY <1>5, <1>14, <1>23, <1>25, <2>1, <2>2, <2>3, OwnerSearches
<1>27. IndexInv'
  BY <1>0, <1>5, <1>8, <1>21, <1>22, <1>24, <1>26, IndexChange
<1> QED BY <1>19, <1>27

\* The tail of the current index moves, and the entries stay as they are.
LEMMA TailMoved ==
  ASSUME TypeOK, HashInv, CountInv, IndexInv, BlockInv, NEW t \in Threads, ThrOnly(t),
         NEW p \in DOMAIN producers, producers[p].owner = t, producers'[p].owner = t, OnlyAt(p),
         UNCHANGED <<blocks, used, pool>>, producers'[p].tail = producers[p].tail,
         producers'[p].head = producers[p].head,
             producers'[p].tailBlock = producers[p].tailBlock,
         DOMAIN producers'[p].entries = DOMAIN producers[p].entries,
         \A e \in DOMAIN producers[p].entries : KeyOf(p, e)' = KeyOf(p, e)
             /\ ValueOf(p, e)' = ValueOf(p, e),
         NEW n, n = Len(producers[p].indices),
         DOMAIN producers'[p].indices = DOMAIN producers[p].indices,
             Len(producers'[p].indices) = n,
         producers'[p].indices[n].index = producers[p].indices[n].index,
         producers'[p].indices[n].tail \in DOMAIN producers[p].indices[n].index,
         \A j \in DOMAIN producers[p].indices \ {n} :
             producers'[p].indices[j] = producers[p].indices[j],
         OpenBase(p)' = OpenBase(p), TailEntry(p)' = TailEntry(p), StoreKept(t),
         Doing(p) \in {"keyed", "requisition"}, Doing(p)' \notin {"write", "publish"},
             AnchorAt(p)'
  PROVE  IndexInv' /\ BlockInv'
<1>1. Placed /\ ShapeAt(p) /\ KeysAt(p)
  BY DEF CountInv, IndexInv, IndexShape, Keys
<1>2. Used(p)' = Used(p)
  BY DEF Used, ValueOf
<1>3. \A e \in Used(p) : e \in DOMAIN producers[p].entries
  BY DEF Used
<1>4. \A e \in Used(p) : KeyOf(p, e)' = KeyOf(p, e) /\ ValueOf(p, e)' = ValueOf(p, e)
  BY <1>3
<1>5. SameFill
  BY DEF SameFill
<1>6. BlockInv'
  BY <1>2, <1>4, <1>5, OwnerPlaces
<1>7. producers[p].indices # <<>> /\ n \in DOMAIN producers[p].indices
  <2>1. producers[p].indices # <<>>
    BY <1>1 DEF ShapeAt
  <2> QED BY <2>1, CurrentShape DEF IndexInv
<1>8. \A j \in DOMAIN producers[p].indices :
        /\ producers'[p].indices[j].index = producers[p].indices[j].index
        /\ j # Len(producers[p].indices) => producers'[p].indices[j] = producers[p].indices[j]
  BY <1>7
<1>9. ShapeAt(p)'
  <2>1. producers'[p].indices # <<>>
    BY <1>7
  <2>2. ASSUME NEW j \in DOMAIN producers[p].indices, NEW h, h = producers'[p].indices[j]
        PROVE  /\ h.tail \in DOMAIN h.index
               /\ \A i \in DOMAIN h.index : h.index[i] \in DOMAIN producers[p].entries
               /\ j = n => \A i, m \in DOMAIN h.index : h.index[i] = h.index[m] => i = m
    <3>1. PICK g : g = producers[p].indices[j]
      OBVIOUS
    <3>2. /\ g.tail \in DOMAIN g.index
                 /\ \A i \in DOMAIN g.index : g.index[i] \in DOMAIN producers[p].entries
          /\ j = n => \A i, m \in DOMAIN g.index : g.index[i] = g.index[m] => i = m
      BY <1>1, <3>1 DEF ShapeAt
    <3>3. h.index = g.index /\ h.tail \in DOMAIN g.index
      BY <1>8, <2>2, <3>1, <3>2
    <3> QED BY <3>2, <3>3
  <2>3. Slot(producers[p].tail)' = 0 /\ KeyOf(p, TailEntry(p))' = producers[p].tail
            /\ ValueOf(p, TailEntry(p))' = NoBlock
    <3>1. PICK e, x : e = TailEntry(p) /\ x = producers[p].tail
      OBVIOUS
    <3>2. Slot(x) = 0 /\ KeyOf(p, e) = x /\ ValueOf(p, e) = NoBlock
      BY <1>1, <3>1 DEF ShapeAt
    <3>3. e \in DOMAIN producers[p].entries
      BY <1>7, <3>1, CurrentShape DEF IndexInv, TailEntry
    <3>4. KeyOf(p, e)' = x /\ ValueOf(p, e)' = NoBlock
      BY <3>2, <3>3
    <3>5. TailEntry(p)' = e /\ producers'[p].tail = x
      BY <3>1
    <3> QED BY <3>1, <3>2, <3>4, <3>5 DEF KeyOf, ValueOf, Slot
  <2> QED BY <2>1, <2>2, <2>3 DEF ShapeAt
<1>10. KeysAt(p)'
  <2>1. \A e \in DOMAIN producers[p].entries : KeyOf(p, e) # NoKey =>
           /\ KeyOf(p, e) \in Nat /\ Slot(KeyOf(p, e)) = 0 /\ KeyOf(p, e) <= producers[p].tail
           /\ KeyOf(p, e) = producers[p].tail => e = TailEntry(p)
           /\ \A f \in DOMAIN producers[p].entries : KeyOf(p, e) = KeyOf(p, f) => e = f
    BY <1>1 DEF KeysAt
  <2>2. \A e \in Used(p) : KeyOf(p, e) # NoKey /\ KeyOf(p, e) <= OpenBase(p)
    BY <1>1 DEF KeysAt
  <2>3. \A e \in DOMAIN producers[p].entries : KeyOf(p, e)' = KeyOf(p, e)
    OBVIOUS
  <2> QED BY <1>2, <1>4, <2>1, <2>2, <2>3 DEF KeysAt, Slot
<1>11. con' = con
  BY DEF ThrOnly
<1>12. \A d \in Consumers : SearchAt(d)' \/ (con'[d] = con[d] /\ con[d].p # p)
  <2>1. DOMAIN producers[p].indices \subseteq DOMAIN producers'[p].indices
        /\ Len(producers'[p].indices) = Len(producers[p].indices)
        /\ DOMAIN producers[p].entries \subseteq DOMAIN producers'[p].entries
        /\ Used(p)' \subseteq Used(p)
    BY <1>2
  <2>2. \A e \in DOMAIN producers[p].entries :
          KeyOf(p, e)' = KeyOf(p, e) \/ \A f \in Used(p) : ~ (KeyOf(p, f) <= KeyOf(p, e))
    OBVIOUS
  <2> QED BY <1>4, <1>8, <1>11, <2>1, <2>2, OwnerSearches
<1>13. \A q \in DOMAIN producers \ {p} : Doing(q)' = Doing(q)
  BY OwnerAlone
<1>14. IndexInv'
  BY <1>1, <1>9, <1>10, <1>12, <1>13, IndexChange
<1> QED BY <1>6, <1>14

\* How far the entry of a base lies behind the tail, and what it takes to move the tail forth.
LEMMA AnchoredForth ==
  ASSUME TypeOK, NEW p \in DOMAIN producers, KeysAt(p), NEW h \in Headers, NEW g \in Headers,
         h.tail \in DOMAIN h.index, g.index = h.index, g.tail = NextPosition(h),
         NEW x, IsBase(x), x - BlockSize \in Int, Anchored(p, h, h.tail, x - BlockSize),
         KeyOf(p, h.index[NextPosition(h)]) = x
  PROVE  Anchored(p, g, g.tail, x)
<1>1. PICK n \in Nat \ {0} : n = CapacityOf(h)
  BY HeaderShape
<1>2. DOMAIN h.index = 0 .. n - 1 /\ CapacityOf(g) = n
  BY <1>1, HeaderShape DEF CapacityOf
<1>3. PICK k \in 0 .. n - 1 : k = h.tail
  BY <1>2
<1>4. PICK m : m = (k + 1) % n
  OBVIOUS
<1>5. m \in 0 .. n - 1 /\ g.tail = m /\ NextPosition(h) = m
  BY <1>1, <1>3, <1>4, RingSteps DEF NextPosition
<1>6. x \in Int /\ IsBase(x - BlockSize)
  BY NextBase DEF IsBase
<1>7. PICK last \in Int : last = x - BlockSize
  OBVIOUS
<1>8. ASSUME NEW f \in Used(p), NEW base \in KeyOf(p, f) .. x, Slot(base) = 0
      PROVE  /\ (x - base) \div BlockSize < n
             /\ KeyOf(p, h.index[(m - ((x - base) \div BlockSize)) % n]) = base
  <2>1. KeyOf(p, f) \in Int /\ base \in Int /\ KeyOf(p, f) <= base /\ base <= x /\ IsBase(base)
    <3>1. KeyOf(p, f) \in Int
      BY EntryTyped DEF Used
    <3> QED BY <1>6, <1>8, <3>1 DEF IsBase
  <2>2. CASE base = x
    <3>1. (x - base) \div BlockSize = 0
      BY <2>2, NextBase
    <3>2. (m - 0) % n = m
      BY <1>5, RingSteps
    <3> QED BY <1>1, <1>5, <2>2, <3>1, <3>2
  <2>3. CASE base # x
    <3>1. base + BlockSize <= x
      BY <1>6, <2>1, <2>3, BasesApart
    <3>2. base \in KeyOf(p, f) .. last
      BY <1>6, <1>7, <2>1, <3>1, QueueConstants
    <3>3. PICK j \in Int : j = (last - base) \div BlockSize
      BY <1>6, <1>7, <2>1, BasesApart
    <3>4. j < n /\ KeyOf(p, h.index[(k - j) % n]) = base
      BY <1>1, <1>3, <1>7, <1>8, <3>2, <3>3 DEF Anchored
    <3>5. j \in Nat
      BY <1>6, <1>7, <2>1, <3>2, <3>3, BasesApart
    <3>6. (x - base) \div BlockSize = j + 1
      <4>1. ((last + BlockSize) - base) \div BlockSize = ((last - base) \div BlockSize) + 1
        BY <1>6, <1>7, <2>1, BaseAway
      <4>2. (last + BlockSize) - base = x - base
        BY <1>6, <1>7, <2>1, QueueConstants
      <4> QED BY <3>3, <4>1, <4>2
    <3>7. PICK i \in Int : i = j + 1
      OBVIOUS
    <3>8. (m - i) % n = (k - j) % n
      <4>1. (((k + 1) % n) - i) % n = (k - (i - 1)) % n
        <5>1. k \in Int
          BY <1>3
        <5> QED BY <5>1, RingForth
      <4>2. i - 1 = j
        BY <3>7
      <4> QED BY <1>4, <4>1, <4>2
    <3>9. j # n - 1
      <4>1. CASE j = n - 1
        <5>1. (k - (n - 1)) % n = m
          BY <1>3, <1>4, RingEnd
        <5>2. KeyOf(p, h.index[m]) = base
          BY <3>4, <4>1, <5>1
        <5> QED BY <1>5, <2>3, <5>2
      <4> QED BY <4>1
    <3>10. i < n
      BY <3>4, <3>5, <3>7, <3>9
    <3> QED BY <3>4, <3>6, <3>7, <3>8, <3>10
  <2> QED BY <2>2, <2>3
<1> QED BY <1>2, <1>5, <1>8 DEF Anchored

\* What it takes to move the tail back.
LEMMA AnchoredBack ==
  ASSUME TypeOK, NEW p \in DOMAIN producers, NEW h \in Headers, NEW g \in Headers,
         h.tail \in DOMAIN h.index, g.index = h.index, g.tail = (h.tail - 1) % CapacityOf(h),
         NEW x, IsBase(x), Anchored(p, h, h.tail, x)
  PROVE  Anchored(p, g, g.tail, x - BlockSize)
<1>1. PICK n \in Nat \ {0} : n = CapacityOf(h)
  BY HeaderShape
<1>2. DOMAIN h.index = 0 .. n - 1 /\ CapacityOf(g) = n
  BY <1>1, HeaderShape DEF CapacityOf
<1>3. PICK k \in 0 .. n - 1 : k = h.tail
  BY <1>2
<1>4. PICK m : m = (k - 1) % n
  OBVIOUS
<1>5. g.tail = m
  BY <1>1, <1>3, <1>4
<1>6. x \in Int /\ IsBase(x - BlockSize) /\ BlockSize \in Nat
  BY NextBase, QueueConstants DEF IsBase
<1>7. PICK last \in Int : last = x - BlockSize
  BY <1>6
<1>8. ASSUME NEW f \in Used(p), NEW base \in KeyOf(p, f) .. last, Slot(base) = 0
      PROVE  /\ (last - base) \div BlockSize < n
             /\ KeyOf(p, h.index[(m - ((last - base) \div BlockSize)) % n]) = base
  <2>1. KeyOf(p, f) \in Int /\ base \in Int /\ KeyOf(p, f) <= base /\ base <= last
            /\ IsBase(base)
    <3>1. KeyOf(p, f) \in Int
      BY EntryTyped DEF Used
    <3> QED BY <1>6, <1>8, <3>1 DEF IsBase
  <2>2. base \in KeyOf(p, f) .. x
    BY <1>6, <1>7, <2>1
  <2>3. PICK j \in Int : j = (last - base) \div BlockSize
    BY <1>6, <1>7, <2>1, BasesApart
  <2>4. (x - base) \div BlockSize = j + 1
    <3>1. ((last + BlockSize) - base) \div BlockSize = ((last - base) \div BlockSize) + 1
      BY <1>6, <1>7, <2>1, BaseAway
    <3>2. (last + BlockSize) - base = x - base
      BY <1>6, <1>7, <2>1
    <3> QED BY <2>3, <3>1, <3>2
  <2>5. j + 1 < n /\ KeyOf(p, h.index[(k - (j + 1)) % n]) = base
    BY <1>1, <1>3, <1>8, <2>2, <2>4 DEF Anchored
  <2>6. (((k - 1) % n) - j) % n = (k - (j + 1)) % n
    BY <1>3, RingBack
  <2> QED BY <1>4, <2>3, <2>5, <2>6
<1> QED BY <1>2, <1>5, <1>7, <1>8 DEF Anchored

\* The index leads on to the next entry, which has its key by now.
LEMMA SetTailKeepsBlocks ==
  ASSUME TypeOK, HashInv, CountInv, IndexInv, BlockInv, NEW t \in Threads, setIndexTail(t)
  PROVE  IndexInv' /\ BlockInv'
<1>0. Placed /\ IndexShape /\ ThreadsSound
  BY DEF CountInv, IndexInv, HashInv
<1>1. PICK p : p = thr[t].producer
  OBVIOUS
<1>2. PICK x : x = producers[p].tail
  OBVIOUS
<1>3. PICK n : n = Len(producers[p].indices)
  OBVIOUS
<1>4. PICK h : h = producers[p].indices[n]
  OBVIOUS
<1>5. /\ TypeOK' /\ ThrOnly(t) /\ UNCHANGED <<blocks, used, pool>>
      /\ thr[t].at = "keyed" /\ p \in DOMAIN producers /\ producers[p].owner = t
      /\ producers[p].indices # <<>> /\ thr'[t].at = "requisition" /\ OnlyAt(p)
  BY <1>0, <1>1, SetIndexTailStep
<1>6. /\ producers'[p].owner = producers[p].owner /\ producers'[p].tail = producers[p].tail
      /\ producers'[p].head = producers[p].head
      /\ producers'[p].tailBlock = producers[p].tailBlock
      /\ producers'[p].entries = producers[p].entries
      /\ DOMAIN producers'[p].indices = DOMAIN producers[p].indices
      /\ Len(producers'[p].indices) = n
  BY <1>0, <1>1, <1>3, SetIndexTailStep
<1>7. h = Current(p) /\ n \in DOMAIN producers[p].indices
  BY <1>0, <1>3, <1>4, <1>5, CurrentShape DEF Current, IndexOf
<1>8. producers \in Seq(ProducerType) /\ producers[p] \in ProducerType
          /\ producers[p].indices \in Seq(Headers)
  BY <1>5, ProducerTyped DEF TypeOK
<1>9. PICK m : m = NextPosition(h)
  OBVIOUS
<1>10. h \in Headers /\ h.tail \in DOMAIN h.index /\ m \in DOMAIN h.index
  BY <1>0, <1>5, <1>7, <1>9, CurrentHeader
<1>11. /\ producers'[p].indices[n].tail = m /\ producers'[p].indices[n].index = h.index
  <2>1. producers'[p].indices[n].tail = NextPosition(Current(p))
    BY <1>0, <1>1, <1>3, SetIndexTailStep
  <2>2. producers'[p].indices[n].index = producers[p].indices[n].index
    BY <1>0, <1>1, <1>3, SetIndexTailStep
  <2> QED BY <1>4, <1>7, <1>9, <2>1, <2>2
<1>12. \A j \in DOMAIN producers[p].indices \ {n} :
           producers'[p].indices[j] = producers[p].indices[j]
  <2>1. ASSUME NEW j \in DOMAIN producers[p].indices \ {n}
        PROVE producers'[p].indices[j] = producers[p].indices[j]
    <3>1. producers' = [producers EXCEPT ![p].indices[n].tail = m]
      BY <1>1, <1>3, <1>4, <1>7, <1>9 DEF setIndexTail, Current
    <3>2. PICK o : o = [producers[p] EXCEPT !.indices[n].tail = m]
      OBVIOUS
    <3>3. o.indices[j] = producers[p].indices[j]
      BY <1>8, <3>2 DEF ProducerType
    <3>4. producers'[p] = o
      BY <1>5, <1>8, <3>1, <3>2
    <3> QED BY <3>3, <3>4
  <2> QED BY <2>1
<1>13. PICK g : g = producers'[p].indices[n]
  OBVIOUS
<1>14. g \in Headers /\ g.index = h.index /\ g.tail = m /\ Current(p)' = g
  <2>1. producers'[p].indices \in Seq(Headers)
    <3>1. p \in DOMAIN producers'
      BY <1>5 DEF OnlyAt
    <3>2. producers'[p] \in ProducerType
      BY <1>5, <3>1 DEF TypeOK
    <3> QED BY <3>2 DEF ProducerType
  <2>2. n \in DOMAIN producers'[p].indices
    BY <1>6, <1>7
  <2>3. g \in Headers
    BY <1>13, <2>1, <2>2
  <2> QED BY <1>3, <1>6, <1>11, <1>13, <2>3 DEF Current, IndexOf
<1>15. Doing(p) = "keyed" /\ Doing(p)' = "requisition"
  BY <1>5, <1>6, OwnerAlone
<1>16. PICK e : e = h.index[m]
  OBVIOUS
<1>17. TailEntry(p) = e /\ TailEntry(p)' = e
  <2>1. TailEntry(p) = e
    BY <1>7, <1>9, <1>15, <1>16 DEF TailEntry, Filling
  <2>2. TailEntry(p)' = Current(p)'.index[Current(p)'.tail]
    BY <1>15 DEF TailEntry, Filling
  <2> QED BY <1>14, <1>16, <2>1, <2>2
<1>18. ShapeAt(p) /\ KeysAt(p) /\ AnchorAt(p)
  BY <1>5 DEF IndexInv, IndexShape, Keys, Anchors
<1>19. Slot(x) = 0 /\ KeyOf(p, e) = x
  BY <1>2, <1>15, <1>17, <1>18 DEF ShapeAt
<1>20. x \in Nat /\ IsBase(x)
  BY <1>2, <1>5, <1>19, ProducerTyped DEF IsBase
<1>21. Base(x) = x /\ Base(x - 1) = x - BlockSize
  BY <1>19, <1>20, BaseBefore
<1>22. LastBase(p) = x - BlockSize /\ LastBase(p)' = x
  <2>1. Base(producers[p].tail)' = x
    BY <1>2, <1>6, <1>21 DEF Base, Slot
  <2> QED BY <1>2, <1>15, <1>21, <2>1 DEF LastBase, Filling
<1>23. OpenBase(p)' = OpenBase(p)
  BY <1>6, <1>15 DEF OpenBase, Base, Slot
<1>24. Anchored(p, h, h.tail, x - BlockSize) /\ x - BlockSize \in Int
  BY <1>5, <1>7, <1>18, <1>20, <1>22, QueueConstants DEF AnchorAt
<1>25. Anchored(p, g, g.tail, x)
  BY <1>5, <1>9, <1>10, <1>14, <1>16, <1>18, <1>19, <1>20, <1>24, AnchoredForth
<1>26. AnchorAt(p)'
  <2>1. Anchored(p, g, g.tail, x)'
    BY <1>6, <1>25, EntriesKept
  <2> QED BY <1>14, <1>22, <2>1 DEF AnchorAt, Anchored
<1>27. \A f \in DOMAIN producers[p].entries : KeyOf(p, f)' = KeyOf(p, f)
           /\ ValueOf(p, f)' = ValueOf(p, f)
  BY <1>6 DEF KeyOf, ValueOf
<1>28. StoreKept(t)
  BY <1>5 DEF StoreKept
<1>29. producers'[p].indices[n].tail \in DOMAIN producers[p].indices[n].index
       /\ producers'[p].indices[n].index = producers[p].indices[n].index
  BY <1>4, <1>10, <1>11
<1>30. TailEntry(p)' = TailEntry(p) /\ Doing(p) \in {"keyed", "requisition"}
           /\ Doing(p)' \notin {"write", "publish"}
       /\ DOMAIN producers'[p].entries = DOMAIN producers[p].entries
  BY <1>6, <1>15, <1>17
<1> QED BY <1>3, <1>5, <1>6, <1>12, <1>23, <1>26, <1>27, <1>28, <1>29, <1>30, TailMoved

\* Where no block is to be had the index leads no further than before.
LEMMA RewindKeepsBlocks ==
  ASSUME TypeOK, HashInv, CountInv, IndexInv, BlockInv, NEW t \in Threads, requisitionFails(t)
  PROVE  IndexInv' /\ BlockInv'
<1>0. Placed /\ IndexShape /\ ThreadsSound
  BY DEF CountInv, IndexInv, HashInv
<1>1. PICK p : p = thr[t].producer
  OBVIOUS
<1>2. PICK x : x = producers[p].tail
  OBVIOUS
<1>3. PICK n : n = Len(producers[p].indices)
  OBVIOUS
<1>4. PICK h : h = producers[p].indices[n]
  OBVIOUS
<1>5. /\ TypeOK' /\ ThrOnly(t) /\ UNCHANGED <<blocks, used, pool>>
      /\ thr[t].at = "requisition" /\ p \in DOMAIN producers /\ producers[p].owner = t
      /\ producers[p].indices # <<>> /\ thr'[t].at = "idle" /\ OnlyAt(p)
  BY <1>0, <1>1, RequisitionFailsStep
<1>6. /\ producers'[p].owner = producers[p].owner /\ producers'[p].tail = producers[p].tail
      /\ producers'[p].head = producers[p].head
      /\ producers'[p].tailBlock = producers[p].tailBlock
      /\ DOMAIN producers'[p].entries = DOMAIN producers[p].entries
      /\ DOMAIN producers'[p].indices = DOMAIN producers[p].indices
      /\ Len(producers'[p].indices) = n
  <2>1. producers'[p].owner = producers[p].owner /\ producers'[p].tail = producers[p].tail
    BY <1>0, <1>1, RequisitionFailsStep
  <2>2. producers'[p].head = producers[p].head
            /\ producers'[p].tailBlock = producers[p].tailBlock
    BY <1>0, <1>1, RequisitionFailsStep
  <2>3. DOMAIN producers'[p].entries = DOMAIN producers[p].entries
    BY <1>0, <1>1, RequisitionFailsStep
  <2>4. /\ DOMAIN producers'[p].indices = DOMAIN producers[p].indices
        /\ Len(producers'[p].indices) = Len(producers[p].indices)
    BY <1>0, <1>1, RequisitionFailsStep
  <2> QED BY <1>3, <2>1, <2>2, <2>3, <2>4
<1>7. h = Current(p) /\ n \in DOMAIN producers[p].indices
  BY <1>0, <1>3, <1>4, <1>5, CurrentShape DEF Current, IndexOf
<1>8. /\ producers \in Seq(ProducerType) /\ producers[p] \in ProducerType
      /\ producers[p].indices \in Seq(Headers) /\ producers[p].entries \in Seq(Entries)
  BY <1>5, ProducerTyped DEF TypeOK
<1>9. PICK m : m = (h.tail - 1) % CapacityOf(h)
  OBVIOUS
<1>10. h \in Headers /\ h.tail \in DOMAIN h.index
  BY <1>0, <1>5, <1>7, CurrentHeader
<1>11. PICK e : e = h.index[h.tail]
  OBVIOUS
<1>12. Doing(p) = "requisition" /\ Doing(p)' = "idle"
  BY <1>5, <1>6, OwnerAlone
<1>13. TailEntry(p) = e
  BY <1>7, <1>11, <1>12 DEF TailEntry, Filling
<1>14. ShapeAt(p) /\ KeysAt(p) /\ AnchorAt(p)
  BY <1>5 DEF IndexInv, IndexShape, Keys, Anchors
<1>15. Slot(x) = 0 /\ ValueOf(p, e) = NoBlock
  BY <1>2, <1>12, <1>13, <1>14 DEF ShapeAt
<1>16. e \in DOMAIN producers[p].entries
  BY <1>0, <1>5, <1>7, <1>10, <1>11, CurrentHeader
<1>17. PICK o : o = [producers[p] EXCEPT !.indices[n].tail = m, !.entries[e].value = NoBlock]
  OBVIOUS
<1>18. producers'[p] = o
  <2>1. PICK o1 : o1 = [producers EXCEPT ![p].indices[n].tail = m,
            ![p].entries[e].value = NoBlock]
    OBVIOUS
  <2>2. producers' = o1
    BY <1>1, <1>3, <1>4, <1>7, <1>9, <1>11, <2>1 DEF requisitionFails, Current
  <2>3. o1[p] = o
    BY <1>5, <1>8, <1>17, <2>1
  <2> QED BY <2>2, <2>3
<1>19. \A j \in DOMAIN producers[p].indices \ {n} :
           producers'[p].indices[j] = producers[p].indices[j]
  <2>1. ASSUME NEW j \in DOMAIN producers[p].indices \ {n}
        PROVE o.indices[j] = producers[p].indices[j]
    BY <1>8, <1>17 DEF ProducerType
  <2> QED BY <1>18, <2>1
<1>20. \A f \in DOMAIN producers[p].entries \ {e} :
           producers'[p].entries[f] = producers[p].entries[f]
  <2>1. ASSUME NEW f \in DOMAIN producers[p].entries \ {e}
        PROVE o.entries[f] = producers[p].entries[f]
    BY <1>8, <1>17 DEF ProducerType
  <2> QED BY <1>18, <2>1
<1>21. producers'[p].entries[e].value = NoBlock
           /\ producers'[p].entries[e].key = producers[p].entries[e].key
  <2>1. o.entries[e].value = NoBlock
    BY <1>8, <1>16, <1>17 DEF ProducerType, Entries
  <2>2. o.entries[e].key = producers[p].entries[e].key
    BY <1>8, <1>16, <1>17 DEF ProducerType, Entries
  <2> QED BY <1>18, <2>1, <2>2
<1>22. \A f \in DOMAIN producers[p].entries : KeyOf(p, f)' = KeyOf(p, f)
           /\ ValueOf(p, f)' = ValueOf(p, f)
  BY <1>15, <1>20, <1>21 DEF KeyOf, ValueOf
<1>23. /\ producers'[p].indices[n].tail = m /\ producers'[p].indices[n].index = h.index
  <2>1. producers'[p].indices[n].tail = (Current(p).tail - 1) % CapacityOf(Current(p))
    BY <1>0, <1>1, <1>3, RequisitionFailsStep
  <2>2. producers'[p].indices[n].index = producers[p].indices[n].index
    BY <1>0, <1>1, <1>3, RequisitionFailsStep
  <2> QED BY <1>4, <1>7, <1>9, <2>1, <2>2
<1>24. PICK g : g = producers'[p].indices[n]
  OBVIOUS
<1>25. g \in Headers /\ g.index = h.index /\ g.tail = m /\ Current(p)' = g
  <2>1. producers'[p].indices \in Seq(Headers)
    <3>1. p \in DOMAIN producers'
      BY <1>5 DEF OnlyAt
    <3>2. producers'[p] \in ProducerType
      BY <1>5, <3>1 DEF TypeOK
    <3> QED BY <3>2 DEF ProducerType
  <2>2. n \in DOMAIN producers'[p].indices
    BY <1>6, <1>7
  <2>3. g \in Headers
    BY <1>24, <2>1, <2>2
  <2> QED BY <1>3, <1>6, <1>23, <1>24, <2>3 DEF Current, IndexOf
<1>26. PICK c \in Nat \ {0} : c = CapacityOf(h)
  BY <1>10, HeaderShape
<1>27. PICK k \in 0 .. c - 1 : k = h.tail
  BY <1>10, <1>26, HeaderShape
<1>28. m = (k - 1) % c /\ m \in 0 .. c - 1 /\ (m + 1) % c = k
  BY <1>9, <1>26, <1>27, RingSteps
<1>29. TailEntry(p)' = e
  <2>1. TailEntry(p)' = Current(p)'.index[(Current(p)'.tail + 1) % CapacityOf(Current(p))']
    BY <1>12 DEF TailEntry, Filling, NextPosition
  <2>2. CapacityOf(Current(p))' = CapacityOf(g)'
    BY <1>25 DEF CapacityOf
  <2>3. CapacityOf(g)' = c
    BY <1>25, <1>26 DEF CapacityOf
  <2> QED BY <1>11, <1>25, <1>27, <1>28, <2>1, <2>2, <2>3
<1>30. x \in Nat /\ IsBase(x)
  BY <1>2, <1>5, <1>15, ProducerTyped DEF IsBase
<1>31. Base(x) = x /\ Base(x - 1) = x - BlockSize
  BY <1>15, <1>30, BaseBefore
<1>32. LastBase(p) = x /\ LastBase(p)' = x - BlockSize
  <2>1. Base(producers[p].tail - 1)' = x - BlockSize
    BY <1>2, <1>6, <1>31 DEF Base, Slot
  <2> QED BY <1>2, <1>12, <1>31, <2>1 DEF LastBase, Filling
<1>33. OpenBase(p)' = OpenBase(p)
  BY <1>6, <1>12 DEF OpenBase, Base, Slot
<1>34. Anchored(p, h, h.tail, x)
  BY <1>5, <1>7, <1>14, <1>32 DEF AnchorAt
<1>35. Anchored(p, g, g.tail, x - BlockSize)
  BY <1>5, <1>9, <1>10, <1>25, <1>30, <1>34, AnchoredBack
<1>36. AnchorAt(p)'
  <2>1. Used(p)' = Used(p)
    BY <1>6, <1>22 DEF Used, ValueOf
  <2>2. PICK l : l = x - BlockSize
    OBVIOUS
  <2>3. Used(p)' \subseteq Used(p)
    BY <2>1
  <2>4. IsBase(l)
    BY <1>30, <2>2, NextBase
  <2>5. \A j \in DOMAIN g.index : g.index[j] \in DOMAIN producers[p].entries
    BY <1>0, <1>5, <1>7, <1>25, CurrentHeader
  <2>6. g.tail \in DOMAIN g.index
    BY <1>10, <1>25, <1>26, <1>28, HeaderShape
  <2>7. Anchored(p, g, g.tail, l)'
    BY <1>5, <1>14, <1>22, <1>25, <1>35, <2>2, <2>3, <2>4, <2>5, <2>6, AnchoredKept
  <2> QED BY <1>25, <1>32, <2>2, <2>7 DEF AnchorAt, Anchored
<1>37. StoreKept(t)
  BY <1>5 DEF StoreKept
<1>38. producers'[p].indices[n].tail \in DOMAIN producers[p].indices[n].index
       /\ producers'[p].indices[n].index = producers[p].indices[n].index
  BY <1>4, <1>10, <1>23, <1>26, <1>28, HeaderShape
<1>39. TailEntry(p)' = TailEntry(p) /\ Doing(p) \in {"keyed", "requisition"}
           /\ Doing(p)' \notin {"write", "publish"}
  BY <1>12, <1>13, <1>29
<1> QED BY <1>3, <1>5, <1>6, <1>19, <1>22, <1>33, <1>36, <1>37, <1>38, <1>39, TailMoved

\* What storing a block does to producer p: entry e, which has the tail as its key, leads to it.
Stored(p, e, b) ==
  /\ OnlyAt(p) /\ producers'[p].owner = producers[p].owner
  /\ producers'[p].tail = producers[p].tail
  /\ producers'[p].head = producers[p].head /\ producers'[p].tailBlock = b
  /\ producers'[p].indices = producers[p].indices
  /\ DOMAIN producers'[p].entries = DOMAIN producers[p].entries
  /\ e \in DOMAIN producers[p].entries
  /\ \A f \in DOMAIN producers[p].entries : KeyOf(p, f)' = KeyOf(p, f)
  /\ \A f \in DOMAIN producers[p].entries \ {e} : ValueOf(p, f)' = ValueOf(p, f)
  /\ ValueOf(p, e)' = b /\ ValueOf(p, e) = NoBlock /\ b # NoBlock
  /\ KeyOf(p, e) = producers[p].tail /\ Slot(producers[p].tail) = 0
  /\ Used(p)' = Used(p) \union {e} /\ e \notin Used(p)

\* storeBlock by thread t: what it stores, and where.
LEMMA StoredFacts ==
  ASSUME TypeOK, HashInv, CountInv, IndexInv, BlockInv, NEW t \in Threads, storeBlock(t),
         NEW p, p = thr[t].producer, NEW e, e = TailEntry(p), NEW b, b = thr[t].block
  PROVE  /\ ThrOnly(t) /\ UNCHANGED <<blocks, used, pool>>
         /\ p \in DOMAIN producers /\ producers[p].owner = t /\ producers[p].indices # <<>>
         /\ Doing(p) = "store" /\ Doing(p)' = "write"
         /\ thr[t].at = "store" /\ thr'[t].at = "write"
         /\ e = Current(p).index[Current(p).tail] /\ TailEntry(p)' = e
         /\ Stored(p, e, b)
<1>0. Placed /\ IndexShape /\ ThreadsSound
  BY DEF CountInv, IndexInv, HashInv
<1>1. /\ TypeOK' /\ ThrOnly(t) /\ UNCHANGED <<blocks, used, pool>>
      /\ thr[t].at = "store" /\ p \in DOMAIN producers /\ producers[p].owner = t
      /\ producers[p].indices # <<>> /\ thr'[t].at = "write" /\ OnlyAt(p)
  BY <1>0, StoreBlockStep
<1>2. /\ producers'[p].owner = producers[p].owner /\ producers'[p].tail = producers[p].tail
      /\ producers'[p].head = producers[p].head /\ producers'[p].tailBlock = b
      /\ producers'[p].indices = producers[p].indices
      /\ DOMAIN producers'[p].entries = DOMAIN producers[p].entries
  BY <1>0, StoreBlockStep
<1>3. Doing(p) = "store" /\ Doing(p)' = "write"
  BY <1>1, <1>2, OwnerAlone
<1>4. e = Current(p).index[Current(p).tail]
  BY <1>3 DEF TailEntry, Filling
<1>5. TailEntry(p)' = e
  BY <1>2, <1>3, <1>4 DEF TailEntry, Filling, Current, IndexOf
<1>6. ShapeAt(p)
  BY <1>0, <1>1 DEF IndexShape
<1>7. KeyOf(p, e) = producers[p].tail /\ ValueOf(p, e) = NoBlock /\ Slot(producers[p].tail) = 0
  BY <1>3, <1>6 DEF ShapeAt
<1>8. e \in DOMAIN producers[p].entries
  BY <1>0, <1>1, <1>4, CurrentHeader
<1>9. b # NoBlock
  <2>1. b \in DOMAIN blocks
    BY <1>1 DEF BlockInv, Ownership, ThreadsOwn, Storing, InUse
  <2>2. DOMAIN blocks = 1 .. Len(blocks) /\ Len(blocks) \in Nat
    BY DEF TypeOK
  <2> QED BY <2>1, <2>2 DEF NoBlock
<1>10. /\ producers \in Seq(ProducerType) /\ producers[p] \in ProducerType
       /\ producers[p].entries \in Seq(Entries)
  BY <1>1, ProducerTyped DEF TypeOK
<1>11. PICK o : o = [producers[p] EXCEPT !.entries[e].value = b, !.tailBlock = b]
  OBVIOUS
<1>12. producers'[p] = o
  <2>1. PICK o1 : o1 = [producers EXCEPT ![p].entries[e].value = b, ![p].tailBlock = b]
    OBVIOUS
  <2>2. producers' = o1
    BY <1>4, <2>1 DEF storeBlock, mine, Current
  <2>3. o1[p] = o
    BY <1>1, <1>10, <1>11, <2>1
  <2> QED BY <2>2, <2>3
<1>13. /\ o.entries[e].value = b /\ o.entries[e].key = producers[p].entries[e].key
       /\ \A f \in DOMAIN producers[p].entries \ {e} : o.entries[f] = producers[p].entries[f]
  <2>1. PICK r : r = [producers[p].entries EXCEPT ![e].value = b]
    OBVIOUS
  <2>2. o.entries = r
    BY <1>10, <1>11, <2>1 DEF ProducerType
  <2>3. b \in Nat
    BY DEF TypeOK, ThreadType
  <2>4. PICK s : s = producers[p].entries
    OBVIOUS
  <2>5. /\ r[e].value = b /\ r[e].key = s[e].key
        /\ \A f \in DOMAIN s \ {e} : r[f] = s[f]
    <3>1. s \in Seq(Entries) /\ e \in DOMAIN s /\ r = [s EXCEPT ![e].value = b]
      BY <1>8, <1>10, <2>1, <2>4
    <3> QED BY <2>3, <3>1, ValueStep
  <2> QED BY <2>2, <2>4, <2>5
<1>15. \A f \in DOMAIN producers[p].entries \ {e} : KeyOf(p, f)' = KeyOf(p, f)
           /\ ValueOf(p, f)' = ValueOf(p, f)
  BY <1>12, <1>13 DEF KeyOf, ValueOf
<1>16. KeyOf(p, e)' = KeyOf(p, e) /\ ValueOf(p, e)' = b
  BY <1>12, <1>13 DEF KeyOf, ValueOf
<1>17. Used(p)' = Used(p) \union {e} /\ e \notin Used(p)
  <2>1. DOMAIN producers'[p].entries = DOMAIN producers[p].entries
            /\ e \in DOMAIN producers[p].entries
    BY <1>2, <1>7, <1>8
  <2>2. \A f \in DOMAIN producers[p].entries \ {e} : f \in Used(p)' <=> f \in Used(p)
    BY <1>15, <2>1 DEF Used, ValueOf
  <2>3. e \in Used(p)' /\ e \notin Used(p)
    BY <1>7, <1>8, <1>9, <1>16, <2>1 DEF Used, ValueOf
  <2>4. Used(p) \subseteq DOMAIN producers[p].entries
            /\ Used(p)' \subseteq DOMAIN producers'[p].entries
    BY DEF Used
  <2> QED BY <2>1, <2>2, <2>3, <2>4
<1>18. Stored(p, e, b)
  BY <1>1, <1>2, <1>7, <1>8, <1>9, <1>15, <1>16, <1>17 DEF Stored
<1> QED BY <1>1, <1>3, <1>4, <1>5, <1>18

\* A header that leads to a block in use leads there still.
LEMMA AnchoredMore ==
  ASSUME TypeOK, NEW p \in DOMAIN producers, KeysAt(p), NEW h \in Headers,
             NEW x \in DOMAIN h.index,
         \A j \in DOMAIN h.index : h.index[j] \in DOMAIN producers[p].entries,
         NEW e, NEW b, Stored(p, e, b), NEW last, IsBase(last), Anchored(p, h, x, last),
         \E f \in Used(p) : KeyOf(p, f) <= producers[p].tail
  PROVE  Anchored(p, h, x, last)'
<1>1. PICK g \in Used(p) : KeyOf(p, g) <= producers[p].tail
  OBVIOUS
<1>2. ASSUME NEW f \in Used(p)' PROVE f \in DOMAIN producers[p].entries
                 /\ KeyOf(p, f)' = KeyOf(p, f)
  BY DEF Stored, Used
<1>3. last \in Int /\ producers[p].tail \in Int /\ KeyOf(p, g) \in Int
  BY EntryTyped, ProducerTyped DEF IsBase, Used
<1>4. ASSUME NEW f \in Used(p)', NEW base \in KeyOf(p, f) .. last, Slot(base) = 0
      PROVE  /\ (last - base) \div BlockSize < CapacityOf(h)
             /\ KeyOf(p, h.index[(x - ((last - base) \div BlockSize)) % CapacityOf(h)])' = base
  <2>1. f \in DOMAIN producers[p].entries /\ KeyOf(p, f) \in Int
    BY <1>2, EntryTyped
  <2>2. base \in Int /\ KeyOf(p, f) <= base /\ base <= last /\ IsBase(base)
    BY <1>3, <1>4, <2>1 DEF IsBase
  <2>3. \E d \in Used(p) : base \in KeyOf(p, d) .. last
    <3>1. CASE f \in Used(p)
      BY <1>4, <3>1
    <3>2. CASE f \notin Used(p)
      <4>1. f = e /\ KeyOf(p, f) = producers[p].tail
        BY <1>4, <3>2 DEF Stored
      <4>2. base \in KeyOf(p, g) .. last
        BY <1>1, <1>3, <2>2, <4>1
      <4> QED BY <4>2
    <3> QED BY <3>1, <3>2
  <2>4. PICK j : j = (x - ((last - base) \div BlockSize)) % CapacityOf(h)
    OBVIOUS
  <2>5. j \in DOMAIN h.index
    BY <2>2, <2>4, StepBack
  <2>6. (last - base) \div BlockSize < CapacityOf(h) /\ KeyOf(p, h.index[j]) = base
    BY <1>4, <2>3, <2>4 DEF Anchored
  <2>7. PICK d : d = h.index[j]
    OBVIOUS
  <2>8. KeyOf(p, d)' = KeyOf(p, d)
    BY <2>5, <2>7 DEF Stored
  <2> QED BY <2>4, <2>6, <2>7, <2>8 DEF KeyOf
<1>5. PICK n : n = CapacityOf(h)
  OBVIOUS
<1>6. CapacityOf(h)' = n
  BY <1>5 DEF CapacityOf
<1>7. \A f \in Used(p)' : \A base \in KeyOf(p, f)' .. last : Slot(base) = 0 =>
        /\ (last - base) \div BlockSize < n
        /\ KeyOf(p, h.index[(x - ((last - base) \div BlockSize)) % n])' = base
  BY <1>2, <1>4, <1>5
<1> QED BY <1>6, <1>7 DEF Anchored, Slot

\* The tail of the index leads to the block that is stored, and from it to those before.
LEMMA StoredAnchor ==
  ASSUME TypeOK, NEW p \in DOMAIN producers, KeysAt(p), NEW h \in Headers,
             h.tail \in DOMAIN h.index,
         \A j \in DOMAIN h.index : h.index[j] \in DOMAIN producers[p].entries,
         NEW e, NEW b, Stored(p, e, b), h.index[h.tail] = e, NEW last, IsBase(last),
         Anchored(p, h, h.tail, last), last = producers[p].tail
  PROVE  Anchored(p, h, h.tail, last)'
<1>1. PICK n : n = CapacityOf(h)
  OBVIOUS
<1>2. /\ n \in Nat \ {0} /\ h.tail \in 0 .. n - 1 /\ DOMAIN h.index = 0 .. n - 1
      /\ (h.tail - 0) % n = h.tail
  <2>1. n \in Nat \ {0} /\ h.tail \in 0 .. n - 1 /\ DOMAIN h.index = 0 .. n - 1
    BY <1>1, HeaderShape
  <2> QED BY <2>1, RingSteps
<1>3. ASSUME NEW f \in Used(p)', NEW base \in KeyOf(p, f)' .. last, Slot(base) = 0
      PROVE  /\ (last - base) \div BlockSize < n
             /\ KeyOf(p, h.index[(h.tail - ((last - base) \div BlockSize)) % n])' = base
  <2>1. CASE f \in Used(p)
    <3>1. \E g \in Used(p) : KeyOf(p, g) <= producers[p].tail
      <4>1. KeyOf(p, f) \in Int /\ KeyOf(p, f) <= OpenBase(p) /\ OpenBase(p) \in Int
            /\ OpenBase(p) <= LastBase(p) /\ LastBase(p) \in Int
            /\ LastBase(p) <= producers[p].tail
            /\ producers[p].tail \in Int
        BY <2>1, EntryTyped, LastBases, ProducerTyped DEF KeysAt, Used
      <4> QED BY <2>1, <4>1
    <3>2. Anchored(p, h, h.tail, last)'
      BY <3>1, AnchoredMore
    <3>3. CapacityOf(h)' = n
      BY <1>1 DEF CapacityOf
    <3> QED BY <1>3, <3>2, <3>3 DEF Anchored, Slot
  <2>2. CASE f \notin Used(p)
    <3>1. f = e /\ KeyOf(p, f)' = last
      BY <1>3, <2>2 DEF Stored
    <3>2. base = last
      BY <1>3, <3>1 DEF IsBase
    <3>3. (last - base) \div BlockSize = 0
      BY <3>2, NextBase
    <3>4. (h.tail - ((last - base) \div BlockSize)) % n = h.tail
      BY <1>2, <3>3
    <3>5. KeyOf(p, h.index[(h.tail - ((last - base) \div BlockSize)) % n])' = KeyOf(p, e)'
      BY <3>4 DEF KeyOf
    <3> QED BY <1>2, <3>1, <3>2, <3>3, <3>5
  <2> QED BY <2>1, <2>2
<1>4. CapacityOf(h)' = n
  BY <1>1 DEF CapacityOf
<1> QED BY <1>3, <1>4 DEF Anchored, Slot

\* Consumers find the entries they look for while a block is stored.
LEMMA StoredSearches ==
  ASSUME TypeOK, CountInv, IndexInv, BlockInv, NEW p \in DOMAIN producers, NEW e, NEW b,
             Stored(p, e, b), con' = con
  PROVE  \A d \in Consumers : SearchAt(d)' \/ (con'[d] = con[d] /\ con[d].p # p)
<1>0. Placed /\ Searches /\ KeysAt(p)
  BY DEF CountInv, IndexInv, Keys
<1>1. ASSUME NEW d \in Consumers, con[d].p = p PROVE SearchAt(d)'
  <2>0. SearchAt(d) /\ producers'[p].indices = producers[p].indices
    BY <1>0 DEF Searches, Stored
  <2>1. CASE con[d].at \in {"tail", "key"}
    <3>1. PICK h : h = Searched(d)
      OBVIOUS
    <3>2. /\ h \in Headers /\ h.tail \in DOMAIN h.index
          /\ \A j \in DOMAIN h.index : h.index[j] \in DOMAIN producers[p].entries
      BY <1>0, <1>1, <2>1, <3>1, SearchedShape
    <3>3. \E f \in Used(p) : KeyOf(p, f) <= producers[p].tail
      <4>1. con[d].at \in Holding
        BY <2>1 DEF Holding
      <4>2. PICK i : i = con[d].i
        OBVIOUS
      <4>3. /\ Base(i) \in Nat /\ Base(i) <= LastBase(p)
            /\ \E f \in Used(p) : KeyOf(p, f) = Base(i)
        BY <1>1, <4>1, <4>2, HeldEntry
      <4>4. LastBase(p) \in Int /\ LastBase(p) <= producers[p].tail /\ producers[p].tail \in Int
        BY LastBases, ProducerTyped
      <4> QED BY <4>3, <4>4
    <3>4. ASSUME NEW x \in DOMAIN h.index, LeadsTo(d, h, x) PROVE LeadsTo(d, h, x)'
      <4>1. PICK last \in Nat : Slot(last) = 0 /\ Base(con[d].i) <= last
                /\ Anchored(p, h, x, last)
        BY <1>1, <3>4 DEF LeadsTo
      <4>2. Anchored(p, h, x, last)'
        BY <1>0, <3>2, <3>3, <4>1, AnchoredMore DEF IsBase
      <4> QED BY <1>1, <4>1, <4>2 DEF LeadsTo, Base, Slot, Anchored
    <3>5. Searched(d)' = h
      BY <1>1, <2>0, <3>1 DEF Searched
    <3>6. con'[d] = con[d]
      OBVIOUS
    <3>7. CASE con[d].at = "tail"
      <4>1. con[d].h = Len(producers[p].indices) \/ LeadsTo(d, h, h.tail)
        BY <1>1, <2>0, <3>1, <3>7 DEF SearchAt
      <4>2. con[d].h = Len(producers[p].indices) \/ LeadsTo(d, h, h.tail)'
        BY <3>2, <3>4, <4>1
      <4>3. con[d].h = Len(producers[p].indices) \/ LeadsTo(d, Searched(d), Searched(d).tail)'
        BY <3>5, <4>2 DEF LeadsTo, Anchored, CapacityOf
      <4> QED BY <1>1, <2>0, <3>6, <3>7, <4>3 DEF SearchAt
    <3>8. CASE con[d].at = "key"
      <4>1. con[d].tail \in DOMAIN h.index /\ LeadsTo(d, h, con[d].tail)
        BY <2>0, <3>1, <3>8 DEF SearchAt
      <4>2. PICK x : x = con[d].tail
        OBVIOUS
      <4>3. LeadsTo(d, h, x)' /\ x \in DOMAIN h.index
        BY <3>4, <4>1, <4>2
      <4>4. LeadsTo(d, Searched(d), con[d].tail)'
        BY <3>5, <3>6, <4>2, <4>3 DEF LeadsTo, Anchored, CapacityOf
      <4> QED BY <1>1, <2>0, <3>5, <3>6, <3>8, <4>2, <4>3, <4>4 DEF SearchAt
    <3> QED BY <2>1, <3>7, <3>8
  <2>2. CASE con[d].at \in {"move", "empty", "clear"}
    <3>1. PICK f : f = con[d].entry
      OBVIOUS
    <3>2. f \in Used(p) /\ f \in DOMAIN producers[p].entries
      BY <1>1, <2>2, <3>1, EntryInUse
    <3>3. KeyOf(p, f)' = KeyOf(p, f) /\ ValueOf(p, f)' = ValueOf(p, f)
      BY <3>2 DEF Stored
    <3>4. /\ KeyOf(p, f) = Base(con[d].i)
          /\ con[d].at \in {"empty", "clear"} => ValueOf(p, f) = con[d].b
      BY <1>1, <2>0, <2>2, <3>1 DEF SearchAt
    <3>5. DOMAIN producers'[p].entries = DOMAIN producers[p].entries
      BY DEF Stored
    <3> QED BY <1>1, <2>2, <3>1, <3>2, <3>3, <3>4, <3>5 DEF SearchAt, KeyOf, ValueOf, Base, Slot
  <2>3. CASE con[d].at \notin {"tail", "key", "move", "empty", "clear"}
    BY <2>3 DEF SearchAt
  <2> QED BY <2>1, <2>2, <2>3
<1> QED BY <1>1

\* The block that is stored takes the place of the indices from the tail on, none of which is
\* dequeued yet.
LEMMA StoredPlace ==
  ASSUME TypeOK, NEW p \in DOMAIN producers, PlaceAt(p), KeysAt(p), CountedAt(p),
         NEW e, NEW b, Stored(p, e, b), b \in DOMAIN blocks, blocks[b].dequeued = 0,
         UNCHANGED <<blocks, con>>, Doing(p) = "store", Doing(p)' = "write"
  PROVE  PlaceAt(p)'
<1>1. PICK x : x = producers[p].tail
  OBVIOUS
<1>2. x \in Nat /\ Slot(x) = 0 /\ IsBase(x) /\ Base(x) = x
  BY <1>1, ProducerTyped, BaseBefore DEF Stored, IsBase
<1>3. OpenBase(p) = Base(x - 1) /\ OpenBase(p)' = x
  BY <1>1, <1>2 DEF OpenBase, Stored, Base, Slot
<1>4. /\ OpenBase(p) \in Int /\ OpenBase(p) < x
      /\ \A y : IsBase(y) /\ y < x => y <= OpenBase(p)
  <2>1. Base(x - 1) = x - BlockSize /\ x - BlockSize \in Int /\ x - BlockSize < x
    BY <1>2, BaseBefore, QueueConstants
  <2>2. ASSUME NEW y, IsBase(y), y < x PROVE y <= x - BlockSize
    <3>1. y + BlockSize <= x
      BY <1>2, <2>2, BasesApart
    <3> QED BY <1>2, <2>2, <3>1, QueueConstants DEF IsBase
  <2> QED BY <1>3, <2>1, <2>2
<1>5. \A base : Left(p, base)' = Left(p, base)
  <2>1. \A c \in Consumers : HandKept(c)
    BY DEF HandKept
  <2> QED BY <2>1, SameLeft DEF Stored
<1>6. /\ \A f \in Used(p) : /\ f \in DOMAIN producers[p].entries /\ f # e
                            /\ KeyOf(p, f)' = KeyOf(p, f) /\ ValueOf(p, f)' = ValueOf(p, f)
      /\ KeyOf(p, e)' = x /\ ValueOf(p, e)' = b
  <2>1. ASSUME NEW f \in Used(p)
        PROVE  /\ f \in DOMAIN producers[p].entries /\ f # e
               /\ KeyOf(p, f)' = KeyOf(p, f) /\ ValueOf(p, f)' = ValueOf(p, f)
    <3>1. f \in DOMAIN producers[p].entries \ {e}
      BY DEF Stored, Used
    <3> QED BY <3>1 DEF Stored
  <2>2. KeyOf(p, e)' = x /\ ValueOf(p, e)' = b
    BY <1>1 DEF Stored
  <2> QED BY <2>1, <2>2
<1>7. ASSUME NEW base \in 0 .. x, Slot(base) = 0, Left(p, base) # {}
      PROVE  \E f \in Used(p)' : KeyOf(p, f)' = base
  <2>1. CASE base = x
    <3>1. e \in Used(p)'
      BY DEF Stored
    <3> QED BY <1>6, <2>1, <3>1
  <2>2. CASE base < x
    <3>1. base \in 0 .. OpenBase(p)
      BY <1>2, <1>4, <1>7, <2>2 DEF IsBase
    <3>2. PICK f \in Used(p) : KeyOf(p, f) = base
      BY <1>7, <3>1 DEF PlaceAt
    <3>3. f \in Used(p)'
      BY DEF Stored
    <3> QED BY <1>6, <3>2, <3>3
  <2> QED BY <1>2, <1>7, <2>1, <2>2
<1>8. Cardinality(Left(p, x)) = BlockSize
  <2>1. producers[p].head \in Nat /\ producers[p].head <= x
    BY <1>1, ProducerTyped DEF CountedAt
  <2>2. Left(p, x) = x .. x + BlockSize - 1
    BY <1>2, <2>1 DEF Left
  <2>3. x \in Int /\ x + BlockSize - 1 \in Int /\ x <= x + BlockSize - 1
            /\ (x + BlockSize - 1) - x + 1 = BlockSize
    BY <1>2, QueueConstants
  <2>4. PICK z : z = x + BlockSize - 1
    OBVIOUS
  <2>5. Cardinality(x .. z) = z - x + 1
    BY <2>3, <2>4, FS_Interval
  <2>6. z - x + 1 = BlockSize
    BY <1>2, <2>4, QueueConstants
  <2> QED BY <2>2, <2>4, <2>5, <2>6
<1>9. ASSUME NEW f \in Used(p)'
      PROVE  /\ blocks[ValueOf(p, f)'].dequeued + Cardinality(Left(p, KeyOf(p, f)')) = BlockSize
             /\ KeyOf(p, f)' = x => ValueOf(p, f)' = b
  <2>1. CASE f \in Used(p)
    <3>1. KeyOf(p, f) <= OpenBase(p) /\ KeyOf(p, f) \in Int
      BY <1>6, <2>1, EntryTyped DEF KeysAt
    <3>2. KeyOf(p, f) # x
      BY <1>2, <1>4, <3>1
    <3>3. blocks[ValueOf(p, f)].dequeued + Cardinality(Left(p, KeyOf(p, f))) = BlockSize
      BY <2>1 DEF PlaceAt
    <3> QED BY <1>6, <2>1, <3>2, <3>3
  <2>2. CASE f \notin Used(p)
    <3>1. f = e
      BY <2>2 DEF Stored
    <3>2. 0 + BlockSize = BlockSize
      BY QueueConstants
    <3> QED BY <1>6, <1>8, <3>1, <3>2
  <2> QED BY <2>1, <2>2
<1>10. producers'[p].tailBlock = b
  BY DEF Stored
<1>11. \A base \in 0 .. OpenBase(p)' : Slot(base) = 0 /\ Left(p, base)' # {} =>
         \E f \in Used(p)' : KeyOf(p, f)' = base
  BY <1>3, <1>5, <1>7
<1>12. ASSUME NEW f \in Used(p)'
       PROVE  /\ (blocks[ValueOf(p, f)].dequeued + Cardinality(Left(p, KeyOf(p, f)))
                     = BlockSize)'
              /\ (KeyOf(p, f) = OpenBase(p) => ValueOf(p, f) = producers[p].tailBlock)'
  <2>1. PICK k : k = KeyOf(p, f)'
    OBVIOUS
  <2>2. Left(p, KeyOf(p, f))' = Left(p, k)'
    BY <2>1 DEF Left, Held
  <2>3. Left(p, k)' = Left(p, k)
    BY <1>5
  <2>4. blocks[ValueOf(p, f)'].dequeued + Cardinality(Left(p, k)) = BlockSize
    BY <1>9, <2>1
  <2>5. (blocks[ValueOf(p, f)].dequeued + Cardinality(Left(p, KeyOf(p, f))) = BlockSize)'
    BY <2>2, <2>3, <2>4
  <2> QED BY <1>3, <1>9, <1>10, <2>5
<1> QED BY <1>11, <1>12 DEF PlaceAt, Slot

\* Then the block is the entry's, and no longer the thread's.
LEMMA StoredOwned ==
  ASSUME TypeOK, Ownership, NEW t \in Threads, NEW p \in DOMAIN producers, NEW e, NEW b,
             Stored(p, e, b),
         UNCHANGED <<blocks, used, pool, con>>, DOMAIN producers' = DOMAIN producers,
         \A q \in DOMAIN producers \ {p} : ViewKept(q),
         \A u \in Threads \ {t} : thr'[u] = thr[u],
         thr[t].at = "store", thr[t].block = b, thr'[t].at = "write"
  PROVE  Ownership'
<1>1. PoolOwns /\ EntriesOwn /\ ThreadsOwn /\ ConsumersOwn
  BY DEF Ownership
<1>2. /\ InUse(b) /\ Storing(t)
      /\ \A u \in Threads : Storing(u) /\ thr[u].block = b => u = t
      /\ \A c \in Consumers : Freeing(c) => con[c].b # b
  BY <1>1 DEF ThreadsOwn, Storing
<1>3. /\ \A x : InUse(x)' <=> InUse(x)
      /\ \A c \in Consumers : (Freeing(c)' <=> Freeing(c)) /\ con'[c].b = con[c].b
      /\ \A u \in Threads : Storing(u)' => u # t /\ Storing(u) /\ thr'[u].block = thr[u].block
  BY DEF InUse, Freeing, Storing
<1>4. ASSUME NEW q \in DOMAIN producers, NEW f \in Used(q)'
      PROVE  \/ f \in Used(q) /\ ValueOf(q, f)' = ValueOf(q, f) /\ ValueOf(q, f) # b
             \/ q = p /\ f = e /\ ValueOf(q, f)' = b
  <2>1. CASE q # p
    <3>1. f \in Used(q) /\ ValueOf(q, f)' = ValueOf(q, f)
      BY <2>1, SameView
    <3> QED BY <1>1, <1>2, <3>1 DEF EntriesOwn
  <2>2. CASE q = p /\ f = e
    BY <2>2 DEF Stored
  <2>3. CASE q = p /\ f # e
    <3>1. f \in Used(p)
      BY <2>3 DEF Stored
    <3>2. f \in DOMAIN producers[p].entries \ {e}
      BY <2>3, <3>1 DEF Used
    <3>3. ValueOf(p, f)' = ValueOf(p, f)
      BY <3>2 DEF Stored
    <3>4. ValueOf(p, f) # b
      BY <1>1, <1>2, <3>1 DEF EntriesOwn
    <3> QED BY <2>3, <3>1, <3>3, <3>4
  <2> QED BY <2>1, <2>2, <2>3
<1>5. PoolOwns'
  BY <1>1 DEF PoolOwns
<1>6. EntriesOwn'
  <2>1. ASSUME NEW q \in DOMAIN producers, NEW f \in Used(q)'
        PROVE  /\ InUse(ValueOf(q, f)')
               /\ \A r \in DOMAIN producers : \A g \in Used(r)' :
                    ValueOf(q, f)' = ValueOf(r, g)' => q = r /\ f = g
               /\ \A u \in Threads : Storing(u)' => thr'[u].block # ValueOf(q, f)'
               /\ \A c \in Consumers : Freeing(c)' => con'[c].b # ValueOf(q, f)'
    <3>1. ASSUME NEW r \in DOMAIN producers, NEW g \in Used(r)', ValueOf(q, f)' = ValueOf(r, g)'
          PROVE  q = r /\ f = g
      <4>1. \/ f \in Used(q) /\ ValueOf(q, f)' = ValueOf(q, f) /\ ValueOf(q, f) # b
            \/ q = p /\ f = e /\ ValueOf(q, f)' = b
        BY <1>4
      <4>2. \/ g \in Used(r) /\ ValueOf(r, g)' = ValueOf(r, g) /\ ValueOf(r, g) # b
            \/ r = p /\ g = e /\ ValueOf(r, g)' = b
        BY <1>4
      <4>3. CASE f \in Used(q) /\ ValueOf(q, f)' = ValueOf(q, f) /\ ValueOf(q, f) # b
        <5>1. g \in Used(r) /\ ValueOf(r, g) = ValueOf(q, f)
          BY <3>1, <4>2, <4>3
        <5> QED BY <1>1, <4>3, <5>1 DEF EntriesOwn
      <4>4. CASE q = p /\ f = e /\ ValueOf(q, f)' = b
        BY <3>1, <4>2, <4>4
      <4> QED BY <4>1, <4>3, <4>4
    <3>2. CASE f \in Used(q) /\ ValueOf(q, f)' = ValueOf(q, f) /\ ValueOf(q, f) # b
      <4>1. /\ InUse(ValueOf(q, f))
            /\ \A u \in Threads : Storing(u) => thr[u].block # ValueOf(q, f)
            /\ \A c \in Consumers : Freeing(c) => con[c].b # ValueOf(q, f)
        BY <1>1, <3>2 DEF EntriesOwn
      <4> QED BY <1>3, <3>1, <3>2, <4>1
    <3>3. CASE q = p /\ f = e /\ ValueOf(q, f)' = b
      BY <1>2, <1>3, <3>1, <3>3
    <3> QED BY <1>4, <3>2, <3>3
  <2>2. \A x : InUse(x) => InUse(x)'
    BY <1>3
  <2>3. ASSUME NEW q \in DOMAIN producers, NEW f \in Used(q)' PROVE InUse(ValueOf(q, f))'
    <3>1. PICK x : x = ValueOf(q, f)'
      OBVIOUS
    <3>2. InUse(x)'
      BY <2>1, <2>2, <3>1
    <3> QED BY <3>1, <3>2 DEF InUse
  <2> QED BY <2>1, <2>3 DEF EntriesOwn
<1>7. ThreadsOwn'
  <2>1. ASSUME NEW u \in Threads, Storing(u)'
        PROVE  /\ InUse(thr[u].block)' /\ blocks'[thr'[u].block].dequeued = 0
               /\ \A v \in Threads : Storing(v)' /\ thr'[v].block = thr'[u].block => v = u
               /\ \A c \in Consumers : Freeing(c)' => con'[c].b # thr'[u].block
    <3>1. Storing(u) /\ thr'[u].block = thr[u].block
      BY <1>3, <2>1
    <3>2. /\ InUse(thr[u].block) /\ blocks[thr[u].block].dequeued = 0
          /\ \A v \in Threads : Storing(v) /\ thr[v].block = thr[u].block => v = u
          /\ \A c \in Consumers : Freeing(c) => con[c].b # thr[u].block
      BY <1>1, <3>1 DEF ThreadsOwn
    <3> QED BY <1>3, <3>1, <3>2 DEF InUse
  <2> QED BY <2>1 DEF ThreadsOwn
<1>8. ConsumersOwn'
  BY <1>1, <1>3 DEF ConsumersOwn, InUse
<1> QED BY <1>5, <1>6, <1>7, <1>8 DEF Ownership

\* The block is stored in the entry at the tail of the index.
LEMMA StoreKeepsBlocks ==
  ASSUME TypeOK, HashInv, CountInv, IndexInv, BlockInv, NEW t \in Threads, storeBlock(t)
  PROVE  IndexInv' /\ BlockInv'
<1>0. Placed /\ IndexShape /\ ThreadsSound /\ Ownership
  BY DEF CountInv, IndexInv, HashInv, BlockInv
<1>1. PICK p : p = thr[t].producer
  OBVIOUS
<1>2. PICK x : x = producers[p].tail
  OBVIOUS
<1>3. PICK h : h = Current(p)
  OBVIOUS
<1>4. PICK e : e = TailEntry(p)
  OBVIOUS
<1>5. PICK b : b = thr[t].block
  OBVIOUS
<1>6. /\ ThrOnly(t) /\ UNCHANGED <<blocks, used, pool>>
      /\ p \in DOMAIN producers /\ producers[p].owner = t /\ producers[p].indices # <<>>
      /\ Doing(p) = "store" /\ Doing(p)' = "write"
      /\ thr[t].at = "store" /\ thr'[t].at = "write"
      /\ e = h.index[h.tail] /\ TailEntry(p)' = e
      /\ Stored(p, e, b)
  BY <1>1, <1>3, <1>4, <1>5, StoredFacts
<1>7. /\ OnlyAt(p) /\ producers'[p].owner = producers[p].owner /\ producers'[p].tail = x
      /\ producers'[p].head = producers[p].head /\ producers'[p].tailBlock = b
      /\ producers'[p].indices = producers[p].indices
      /\ DOMAIN producers'[p].entries = DOMAIN producers[p].entries
      /\ e \in DOMAIN producers[p].entries
  BY <1>2, <1>6 DEF Stored
<1>8. \A q \in DOMAIN producers \ {p} : Doing(q)' = Doing(q)
  BY <1>6, <1>7, OwnerAlone
<1>9. con' = con /\ \A u \in Threads \ {t} : thr'[u] = thr[u]
  BY <1>6 DEF ThrOnly
<1>10. ShapeAt(p) /\ KeysAt(p) /\ AnchorAt(p) /\ CountedAt(p) /\ PlaceAt(p)
  BY <1>6 DEF IndexInv, IndexShape, Keys, Anchors, CountInv, Counted, BlockInv, BlocksInPlace
<1>11. /\ x \in Nat /\ IsBase(x) /\ Base(x) = x /\ Slot(x) = 0
  BY <1>2, <1>6, ProducerTyped, BaseBefore DEF Stored, IsBase
<1>12. LastBase(p) = x /\ LastBase(p)' = x /\ OpenBase(p)' = x
  BY <1>2, <1>6, <1>7, <1>11 DEF LastBase, OpenBase, Filling, Base, Slot
<1>13. ShapeAt(p)'
  BY <1>6, <1>7, <1>10 DEF ShapeAt
<1>14. KeysAt(p)'
  <2>1. \A f \in DOMAIN producers[p].entries : KeyOf(p, f)' = KeyOf(p, f)
    BY <1>6 DEF Stored
  <2>2. ASSUME NEW f \in DOMAIN producers[p].entries, KeyOf(p, f) # NoKey
        PROVE  /\ KeyOf(p, f) \in Nat /\ Slot(KeyOf(p, f)) = 0 /\ KeyOf(p, f) <= x
               /\ KeyOf(p, f) = x => f = e
               /\ \A g \in DOMAIN producers[p].entries : KeyOf(p, f) = KeyOf(p, g) => f = g
    BY <1>2, <1>4, <1>10, <2>2 DEF KeysAt
  <2>3. ASSUME NEW f \in Used(p)' PROVE KeyOf(p, f)' # NoKey /\ KeyOf(p, f)' <= x
    <3>1. CASE f \in Used(p)
      <4>1. f \in DOMAIN producers[p].entries /\ KeyOf(p, f) # NoKey
        BY <1>10, <3>1 DEF KeysAt, Used
      <4> QED BY <2>1, <2>2, <4>1
    <3>2. CASE f \notin Used(p)
      <4>1. f = e /\ KeyOf(p, e) = x
        BY <1>2, <1>6, <3>2 DEF Stored
      <4>2. x # NoKey /\ x <= x
        BY <1>11 DEF NoKey
      <4> QED BY <1>7, <2>1, <4>1, <4>2
    <3> QED BY <3>1, <3>2
  <2>4. /\ \A f \in DOMAIN producers[p].entries : KeyOf(p, f)' # NoKey =>
             /\ KeyOf(p, f)' \in Nat /\ Slot(KeyOf(p, f)') = 0 /\ KeyOf(p, f)' <= x
             /\ KeyOf(p, f)' = x => f = e
             /\ \A g \in DOMAIN producers[p].entries : KeyOf(p, f)' = KeyOf(p, g)' => f = g
    BY <2>1, <2>2
  <2> QED BY <1>6, <1>7, <1>12, <2>3, <2>4 DEF KeysAt, Slot
<1>15. AnchorAt(p)'
  <2>1. h \in Headers /\ h.tail \in DOMAIN h.index
        /\ \A j \in DOMAIN h.index : h.index[j] \in DOMAIN producers[p].entries
    BY <1>0, <1>3, <1>6, CurrentHeader
  <2>2. Anchored(p, h, h.tail, x)
    BY <1>3, <1>6, <1>10, <1>12 DEF AnchorAt
  <2>3. Anchored(p, h, h.tail, x)'
    BY <1>2, <1>6, <1>10, <1>11, <2>1, <2>2, StoredAnchor
  <2>4. Current(p)' = h
    BY <1>3, <1>7 DEF Current, IndexOf
  <2> QED BY <1>12, <2>3, <2>4 DEF AnchorAt, Anchored
<1>16. \A d \in Consumers : SearchAt(d)' \/ (con'[d] = con[d] /\ con[d].p # p)
  BY <1>6, <1>9, StoredSearches
<1>17. IndexInv'
  BY <1>0, <1>6, <1>7, <1>8, <1>13, <1>14, <1>15, <1>16, IndexChange
<1>18. \A q \in DOMAIN producers \ {p} :
         /\ ViewKept(q) /\ producers'[q].tailBlock = producers[q].tailBlock
         /\ producers'[q].head = producers[q].head
  BY <1>6, <1>7, <1>8, OthersKept
<1>19. b \in DOMAIN blocks /\ blocks[b].dequeued = 0
  BY <1>0, <1>5, <1>6 DEF Ownership, ThreadsOwn, Storing, InUse
<1>20. \A d \in Consumers : HandKept(d)
  BY <1>9 DEF HandKept
<1>21. \A q \in DOMAIN producers : producers'[q].head = producers[q].head
  BY <1>7, <1>18
<1>22. Hands'
  BY <1>0, <1>20, <1>21, HandsFrame
<1>23. BlocksInPlace'
  <2>1. ASSUME NEW q \in DOMAIN producers PROVE PlaceAt(q)'
    <3>1. CASE q = p
      BY <1>6, <1>9, <1>10, <1>19, <3>1, StoredPlace
    <3>2. CASE q # p
      <4>1. \A base : Left(q, base)' = Left(q, base)
        BY <1>20, <1>21, SameLeft
      <4>2. PlaceAt(q) /\ KeysAt(q)
        BY DEF BlockInv, BlocksInPlace, IndexInv, Keys
      <4>3. \A f \in Used(q) : blocks'[ValueOf(q, f)].dequeued = blocks[ValueOf(q, f)].dequeued
        BY <1>6
      <4> QED BY <1>18, <3>2, <4>1, <4>2, <4>3, PlaceFrame
    <3> QED BY <3>1, <3>2
  <2>2. DOMAIN producers' = DOMAIN producers
    BY <1>7 DEF OnlyAt
  <2> QED BY <2>1, <2>2 DEF BlocksInPlace
<1>24. Ownership'
  <2>1. DOMAIN producers' = DOMAIN producers /\ \A q \in DOMAIN producers \ {p} : ViewKept(q)
    BY <1>7, <1>18 DEF OnlyAt
  <2> QED BY <1>0, <1>5, <1>6, <1>9, <2>1, StoredOwned
<1> QED BY <1>17, <1>22, <1>23, <1>24 DEF BlockInv
-----------------------------------------------------------------------------
(* The index grows.                                                        *)

\* Index g has the n entries of h, from the oldest on, and then as many beyond the m-th.
Turned(h, n, m, g) ==
  /\ g \in Headers /\ g.tail = n - 1 /\ g.tail \in DOMAIN g.index /\ CapacityOf(g) = 2 * n
  /\ \A i \in DOMAIN g.index : g.index[i] \in 1 .. m + n
  /\ \A i, k \in DOMAIN g.index : g.index[i] = g.index[k] => i = k
  /\ NextPosition(g) = n /\ g.index[n] = m + 1
  /\ \A k \in 0 .. n - 1 : g.index[((n - 1) - k) % (2 * n)] = h.index[(h.tail - k) % n]

\* The new index has the old entries in the same order, then new ones.
LEMMA TurnedIndex ==
  ASSUME NEW h \in Headers, NEW n \in Nat \ {0}, n = CapacityOf(h), h.tail \in 0 .. n - 1,
             NEW m \in Nat,
         \A i \in 0 .. n - 1 : h.index[i] \in 1 .. m,
         \A i, k \in 0 .. n - 1 : h.index[i] = h.index[k] => i = k,
         NEW g, g = NewIndex(h, n, m)
  PROVE  Turned(h, n, m, g)
<1>1. /\ g \in Headers /\ g.tail = n - 1
      /\ DOMAIN g.index = 0 .. 2 * n - 1 /\ CapacityOf(g) = 2 * n
      /\ \A i \in 0 .. n - 1 : /\ (h.tail + 1 + i) % n \in 0 .. n - 1
                               /\ g.index[i] = h.index[(h.tail + 1 + i) % n]
      /\ \A i \in n .. 2 * n - 1 : g.index[i] = m + i - n + 1
  <2>1. g \in Headers /\ g.tail = n - 1 /\ DOMAIN g.index = 0 .. 2 * n - 1
            /\ CapacityOf(g) = 2 * n
    <3>1. NewIndex(h, n, m) \in Headers /\ NewIndex(h, n, m).tail = n - 1
      BY NewIndexShape
    <3>2. /\ DOMAIN NewIndex(h, n, m).index = 0 .. 2 * n - 1
          /\ CapacityOf(NewIndex(h, n, m)) = 2 * n
      BY NewIndexShape
    <3> QED BY <3>1, <3>2
  <2>2. PICK f : f = [i \in 0 .. 2 * n - 1 |-> IF i < n THEN h.index[(h.tail + 1 + i) % n] ELSE m + i - n + 1]
    OBVIOUS
  <2>3. g.index = f
    BY <2>2 DEF NewIndex
  <2>4. ASSUME NEW i \in 0 .. n - 1
        PROVE  (h.tail + 1 + i) % n \in 0 .. n - 1 /\ f[i] = h.index[(h.tail + 1 + i) % n]
    <3>1. h.tail + 1 + i \in Int /\ i \in 0 .. 2 * n - 1 /\ i < n
      OBVIOUS
    <3>2. (h.tail + 1 + i) % n \in 0 .. n - 1
      BY <3>1, DivMod
    <3> QED BY <2>2, <3>1, <3>2
  <2>5. ASSUME NEW i \in n .. 2 * n - 1 PROVE f[i] = m + i - n + 1
    <3>1. i \in 0 .. 2 * n - 1 /\ ~ (i < n)
      OBVIOUS
    <3> QED BY <2>2, <3>1
  <2> QED BY <2>1, <2>3, <2>4, <2>5
<1>2. PICK x \in 0 .. n - 1 : x = h.tail
  OBVIOUS
<1>3. ASSUME NEW i \in 0 .. 2 * n - 1
      PROVE  /\ i \in 0 .. n - 1 => g.index[i] \in 1 .. m
             /\ i \notin 0 .. n - 1 =>
                    i \in n .. 2 * n - 1 /\ g.index[i] = m + i - n + 1
                        /\ g.index[i] \in m + 1 .. m + n
  <2>1. CASE i \in 0 .. n - 1
    <3>1. PICK y \in 0 .. n - 1 : y = (h.tail + 1 + i) % n
      BY <1>1, <2>1
    <3>2. g.index[i] = h.index[y]
      BY <1>1, <2>1, <3>1
    <3> QED BY <2>1, <3>2
  <2>2. CASE i \notin 0 .. n - 1
    <3>1. i \in n .. 2 * n - 1 /\ m + i - n + 1 \in m + 1 .. m + n
      BY <2>2
    <3> QED BY <1>1, <2>2, <3>1
  <2> QED BY <2>1, <2>2
<1>4. ASSUME NEW i \in 0 .. 2 * n - 1, NEW k \in 0 .. 2 * n - 1, g.index[i] = g.index[k]
      PROVE i = k
  <2>1. CASE i \in 0 .. n - 1 /\ k \in 0 .. n - 1
    <3>1. PICK y \in 0 .. n - 1 : y = (x + 1 + i) % n
      BY <1>1, <1>2, <2>1
    <3>2. PICK z \in 0 .. n - 1 : z = (x + 1 + k) % n
      BY <1>1, <1>2, <2>1
    <3>3. y = z
      <4>1. g.index[i] = h.index[y]
        BY <1>1, <1>2, <2>1, <3>1
      <4>2. g.index[k] = h.index[z]
        BY <1>1, <1>2, <2>1, <3>2
      <4> QED BY <1>4, <4>1, <4>2
    <3>4. x + 1 \in Int
      OBVIOUS
    <3> QED BY <2>1, <3>1, <3>2, <3>3, <3>4, RingApart
  <2>2. CASE i \notin 0 .. n - 1 \/ k \notin 0 .. n - 1
    BY <1>3, <1>4, <2>2
  <2> QED BY <2>1, <2>2
<1>5. NextPosition(g) = n
  <2>1. ((n - 1) + 1) % (2 * n) = n
    BY RingTurned
  <2> QED BY <1>1, <2>1 DEF NextPosition
<1>6. g.index[n] = m + 1
  <2>1. n \in n .. 2 * n - 1 /\ m + n - n + 1 = m + 1
    OBVIOUS
  <2> QED BY <1>1, <2>1
<1>7. ASSUME NEW k \in 0 .. n - 1
      PROVE g.index[((n - 1) - k) % (2 * n)] = h.index[(h.tail - k) % n]
  <2>1. /\ ((n - 1) - k) % (2 * n) = (n - 1) - k
        /\ (x + 1 + ((n - 1) - k)) % n = (x - k) % n
    BY RingTurned
  <2>2. (n - 1) - k \in 0 .. n - 1
    OBVIOUS
  <2>3. g.index[(n - 1) - k] = h.index[(x + 1 + ((n - 1) - k)) % n]
    BY <1>1, <1>2, <2>2
  <2> QED BY <1>2, <2>1, <2>3
<1>8. g.tail \in DOMAIN g.index
  <2>1. n - 1 \in 0 .. 2 * n - 1
    OBVIOUS
  <2> QED BY <1>1, <2>1
<1>9. \A i \in DOMAIN g.index : g.index[i] \in 1 .. m + n
  <2>1. ASSUME NEW i \in 0 .. 2 * n - 1 PROVE g.index[i] \in 1 .. m + n
    BY <1>3
  <2> QED BY <1>1, <2>1
<1>10. \A i, k \in DOMAIN g.index : g.index[i] = g.index[k] => i = k
  <2>1. DOMAIN g.index = 0 .. 2 * n - 1
    BY <1>1
  <2> QED BY <1>4, <2>1
<1> QED BY <1>1, <1>5, <1>6, <1>7, <1>8, <1>9, <1>10 DEF Turned

\* An index that has the entries of another in the same order leads where that one leads.
LEMMA AnchoredTurned ==
  ASSUME TypeOK, NEW p \in DOMAIN producers, NEW h \in Headers, NEW n \in Nat \ {0},
             n = CapacityOf(h),
         h.tail \in 0 .. n - 1, NEW g \in Headers, CapacityOf(g) = 2 * n, g.tail = n - 1,
         \A k \in 0 .. n - 1 : g.index[((n - 1) - k) % (2 * n)] = h.index[(h.tail - k) % n],
         NEW last, IsBase(last), Anchored(p, h, h.tail, last)
  PROVE  Anchored(p, g, g.tail, last)
<1>1. ASSUME NEW f \in Used(p), NEW base \in KeyOf(p, f) .. last, Slot(base) = 0
      PROVE  /\ (last - base) \div BlockSize < 2 * n
             /\ KeyOf(p, g.index[((n - 1) - ((last - base) \div BlockSize)) % (2 * n)]) = base
  <2>1. KeyOf(p, f) \in Int
    BY EntryTyped DEF Used
  <2>2. IsBase(base) /\ base <= last
    BY <1>1, <2>1 DEF IsBase
  <2>3. PICK k : k = (last - base) \div BlockSize
    OBVIOUS
  <2>4. k \in Nat
    BY <2>2, <2>3, BasesApart
  <2>5. k < n /\ KeyOf(p, h.index[(h.tail - k) % n]) = base
    BY <1>1, <2>3 DEF Anchored
  <2>6. k \in 0 .. n - 1 /\ k < 2 * n
    BY <2>4, <2>5
  <2>7. g.index[((n - 1) - k) % (2 * n)] = h.index[(h.tail - k) % n]
    BY <2>6
  <2> QED BY <2>3, <2>5, <2>6, <2>7
<1> QED BY <1>1 DEF Anchored

\* A consumer that has the current index and not yet its tail finds its block from there.
LEMMA CurrentLeads ==
  ASSUME TypeOK, CountInv, IndexInv, BlockInv, NEW d \in Consumers, con[d].at = "tail", NEW p,
             p = con[d].p,
         con[d].h = Len(producers[p].indices)
  PROVE  LeadsTo(d, Searched(d), Searched(d).tail)
<1>1. con[d].at \in Holding
  BY DEF Holding
<1>2. PICK i : i = con[d].i
  OBVIOUS
<1>3. /\ p \in DOMAIN producers /\ Base(i) \in Nat /\ Base(i) <= LastBase(p)
      /\ \E f \in Used(p) : KeyOf(p, f) = Base(i)
  BY <1>1, <1>2, HeldEntry
<1>4. PICK l : l = LastBase(p)
  OBVIOUS
<1>5. l \in Nat /\ Slot(l) = 0 /\ Base(i) <= l
  BY <1>3, <1>4, LastBases DEF IsBase
<1>6. producers[p].indices # <<>>
  BY <1>3 DEF Used, IndexInv, IndexShape, ShapeAt
<1>7. PICK h : h = Current(p)
  OBVIOUS
<1>8. h = Searched(d)
  BY <1>7 DEF Current, IndexOf, Searched
<1>9. Anchored(p, h, h.tail, l)
  BY <1>3, <1>4, <1>6, <1>7 DEF IndexInv, Anchors, AnchorAt
<1> QED BY <1>2, <1>5, <1>8, <1>9 DEF LeadsTo

\* What new_block_index does to producer p: a second index, and as many more entries as it had.
GrownTo(p, g, n, m) ==
  /\ OnlyAt(p) /\ producers'[p].owner = producers[p].owner
  /\ producers'[p].tail = producers[p].tail
  /\ producers'[p].head = producers[p].head /\ producers'[p].tailBlock = producers[p].tailBlock
  /\ DOMAIN producers[p].indices = 1 .. Len(producers[p].indices)
  /\ DOMAIN producers'[p].indices = 1 .. Len(producers[p].indices) + 1
  /\ Len(producers'[p].indices) = Len(producers[p].indices) + 1
  /\ Len(producers[p].indices) \in Nat
  /\ \A j \in DOMAIN producers[p].indices : producers'[p].indices[j] = producers[p].indices[j]
  /\ producers'[p].indices[Len(producers[p].indices) + 1] = g
  /\ DOMAIN producers[p].entries = 1 .. m /\ DOMAIN producers'[p].entries = 1 .. m + n
  /\ m \in Nat /\ n \in Nat \ {0}
  /\ \A e \in 1 .. m : KeyOf(p, e)' = KeyOf(p, e) /\ ValueOf(p, e)' = ValueOf(p, e)
  /\ \A e \in m + 1 .. m + n : KeyOf(p, e)' = NoKey /\ ValueOf(p, e)' = NoBlock

\* That is what it does, if its allocation succeeds.
LEMMA GrownFacts ==
  ASSUME TypeOK, ThreadsSound, IndexShape, NEW t \in Threads, new_block_index(t), ~ Fails(t),
         NEW p, p = thr[t].producer, NEW h, h = Current(p), NEW n, n = CapacityOf(h),
         NEW m, m = Len(producers[p].entries)
  PROVE  GrownTo(p, NewIndex(h, n, m), n, m)
<1>1. /\ TypeOK' /\ p \in DOMAIN producers /\ producers[p].indices # <<>> /\ OnlyAt(p)
      /\ producers'[p].owner = producers[p].owner /\ producers'[p].tail = producers[p].tail
      /\ producers'[p].head = producers[p].head
      /\ producers'[p].tailBlock = producers[p].tailBlock
  <2>1. TypeOK' /\ p \in DOMAIN producers /\ producers[p].indices # <<>> /\ OnlyAt(p)
    BY GrowStep
  <2>2. producers'[p].owner = producers[p].owner /\ producers'[p].tail = producers[p].tail
    BY GrowStep
  <2>3. producers'[p].head = producers[p].head
            /\ producers'[p].tailBlock = producers[p].tailBlock
    BY GrowStep
  <2> QED BY <2>1, <2>2, <2>3
<1>2. /\ Len(producers'[p].indices) = Len(producers[p].indices) + 1
      /\ \A j \in DOMAIN producers[p].indices :
           j \in DOMAIN producers'[p].indices
               /\ producers'[p].indices[j] = producers[p].indices[j]
      /\ producers'[p].indices[Len(producers[p].indices) + 1] = NewIndex(h, n, m)
  <2>1. PICK hs \in Seq(Headers) : hs = producers[p].indices
    BY <1>1, ProducerTyped
  <2>2. PICK g : g = NewIndex(h, n, m)
    OBVIOUS
  <2>3. producers'[p].indices = Append(hs, g)
    <3>1. producers'[p].indices
            = Append(producers[p].indices,
                NewIndex(Current(p), CapacityOf(Current(p)), Len(producers[p].entries)))
      BY GrowStep
    <3> QED BY <2>1, <2>2, <3>1
  <2>4. /\ Len(Append(hs, g)) = Len(hs) + 1 /\ Append(hs, g)[Len(hs) + 1] = g
        /\ \A j \in DOMAIN hs : j \in DOMAIN Append(hs, g) /\ Append(hs, g)[j] = hs[j]
    OBVIOUS
  <2> QED BY <2>1, <2>2, <2>3, <2>4
<1>4. /\ m \in Nat /\ DOMAIN producers'[p].entries = 1 .. m + n
      /\ \A e \in DOMAIN producers[p].entries :
              e \in DOMAIN producers'[p].entries
                  /\ producers'[p].entries[e] = producers[p].entries[e]
      /\ \A e \in DOMAIN producers'[p].entries \ DOMAIN producers[p].entries :
              producers'[p].entries[e].key = NoKey /\ producers'[p].entries[e].value = NoBlock
  <2>1. Len(producers[p].entries) \in Nat
    BY GrowStep
  <2>2. DOMAIN producers'[p].entries = 1 .. Len(producers[p].entries) + CapacityOf(Current(p))
    BY GrowStep
  <2>3. \A e \in DOMAIN producers[p].entries :
              e \in DOMAIN producers'[p].entries
                  /\ producers'[p].entries[e] = producers[p].entries[e]
    <3>1. producers'[p].entries = producers[p].entries \o FreeEntries(CapacityOf(Current(p)))
      BY GrowStep
    <3>2. PICK es \in Seq(Entries) : es = producers[p].entries
      BY <1>1, ProducerTyped
    <3>3. PICK k \in Nat : k = CapacityOf(Current(p))
      BY <1>1, CurrentShape
    <3>4. PICK ne : ne = es \o FreeEntries(k)
      OBVIOUS
    <3>5. \A e \in DOMAIN es : e \in DOMAIN ne /\ ne[e] = es[e]
      BY <3>4, MoreEntries
    <3>6. producers'[p].entries = ne
      BY <3>1, <3>2, <3>3, <3>4
    <3> QED BY <3>2, <3>5, <3>6
  <2>4. \A e \in DOMAIN producers'[p].entries \ DOMAIN producers[p].entries :
              producers'[p].entries[e].key = NoKey /\ producers'[p].entries[e].value = NoBlock
    <3>1. producers'[p].entries = producers[p].entries \o FreeEntries(CapacityOf(Current(p)))
      BY GrowStep
    <3>2. PICK es \in Seq(Entries) : es = producers[p].entries
      BY <1>1, ProducerTyped
    <3>3. PICK k \in Nat : k = CapacityOf(Current(p))
      BY <1>1, CurrentShape
    <3>4. PICK ne : ne = es \o FreeEntries(k)
      OBVIOUS
    <3>5. \A e \in DOMAIN ne \ DOMAIN es : ne[e].key = NoKey /\ ne[e].value = NoBlock
      BY <3>4, MoreEntries
    <3>6. producers'[p].entries = ne
      BY <3>1, <3>2, <3>3, <3>4
    <3> QED BY <3>2, <3>5, <3>6
  <2> QED BY <2>1, <2>2, <2>3, <2>4
<1>5. n \in Nat \ {0}
  BY <1>1, CurrentShape
<1>6. producers[p].indices \in Seq(Headers) /\ producers[p].entries \in Seq(Entries)
  BY <1>1, ProducerTyped
<1>7. producers'[p].indices \in Seq(Headers)
  <2>1. p \in DOMAIN producers'
    BY <1>1 DEF OnlyAt
  <2>2. producers' \in Seq(ProducerType)
    BY <1>1 DEF TypeOK
  <2>3. producers'[p] \in ProducerType
    BY <2>1, <2>2
  <2> QED BY <2>3 DEF ProducerType
<1>8. /\ DOMAIN producers[p].indices = 1 .. Len(producers[p].indices)
      /\ Len(producers[p].indices) \in Nat
      /\ DOMAIN producers'[p].indices = 1 .. Len(producers'[p].indices)
      /\ DOMAIN producers[p].entries = 1 .. m
  BY <1>6, <1>7
<1>9. DOMAIN producers'[p].indices = 1 .. Len(producers[p].indices) + 1
  BY <1>2, <1>8
<1>10. \A e \in 1 .. m : KeyOf(p, e)' = KeyOf(p, e) /\ ValueOf(p, e)' = ValueOf(p, e)
  BY <1>4, <1>8 DEF KeyOf, ValueOf
<1>11. ASSUME NEW e \in m + 1 .. m + n PROVE KeyOf(p, e)' = NoKey /\ ValueOf(p, e)' = NoBlock
  <2>1. e \in 1 .. m + n /\ e \notin 1 .. m
    BY <1>4, <1>5
  <2> QED BY <1>4, <1>8, <2>1 DEF KeyOf, ValueOf
<1> QED BY <1>1, <1>2, <1>4, <1>5, <1>8, <1>9, <1>10, <1>11 DEF GrownTo

\* The index is superseded by one with twice as many entries.
LEMMA GrowKeepsBlocks ==
  ASSUME TypeOK, HashInv, CountInv, IndexInv, BlockInv, NEW t \in Threads, new_block_index(t),
             ~ Fails(t)
  PROVE  IndexInv' /\ BlockInv'
<1>0. Placed /\ IndexShape /\ ThreadsSound
  BY DEF CountInv, IndexInv, HashInv
<1>1. PICK p : p = thr[t].producer
  OBVIOUS
<1>2. PICK x : x = producers[p].tail
  OBVIOUS
<1>3. PICK h : h = Current(p)
  OBVIOUS
<1>4. PICK n : n = CapacityOf(h)
  OBVIOUS
<1>5. PICK m : m = Len(producers[p].entries)
  OBVIOUS
<1>6. PICK g : g = NewIndex(h, n, m)
  OBVIOUS
<1>7. /\ ThrOnly(t) /\ thr' = thr /\ UNCHANGED <<blocks, used, pool>>
      /\ thr[t].at = "enqueue" /\ p \in DOMAIN producers /\ producers[p].owner = t
      /\ Starts(producers[p]) /\ ~ HasRoom(producers[p]) /\ producers[p].indices # <<>>
  BY <1>0, <1>1, GrowStep
<1>8. GrownTo(p, g, n, m)
  BY <1>0, <1>1, <1>3, <1>4, <1>5, <1>6, GrownFacts
<1>9. /\ OnlyAt(p) /\ producers'[p].owner = producers[p].owner /\ producers'[p].tail = x
      /\ producers'[p].head = producers[p].head
      /\ producers'[p].tailBlock = producers[p].tailBlock
      /\ DOMAIN producers[p].entries = 1 .. m /\ DOMAIN producers'[p].entries = 1 .. m + n
      /\ m \in Nat /\ n \in Nat \ {0}
  BY <1>2, <1>8 DEF GrownTo
<1>10. PICK l : l = Len(producers[p].indices)
  OBVIOUS
<1>11. /\ DOMAIN producers[p].indices = 1 .. l /\ DOMAIN producers'[p].indices = 1 .. l + 1
       /\ Len(producers'[p].indices) = l + 1 /\ l \in Nat
       /\ \A j \in 1 .. l : producers'[p].indices[j] = producers[p].indices[j]
       /\ producers'[p].indices[l + 1] = g
  BY <1>8, <1>10 DEF GrownTo
<1>12. /\ Doing(p)' = "enqueue" /\ Doing(p) = "enqueue"
       /\ \A q \in DOMAIN producers \ {p} : Doing(q)' = Doing(q)
  BY <1>7, <1>9, OwnerAlone
<1>13. /\ h \in Headers /\ h.tail \in 0 .. n - 1
       /\ \A i \in 0 .. n - 1 : h.index[i] \in 1 .. m
       /\ \A i, k \in 0 .. n - 1 : h.index[i] = h.index[k] => i = k
  BY <1>0, <1>3, <1>4, <1>7, <1>9, CurrentShape
<1>14. /\ g \in Headers /\ g.tail = n - 1 /\ g.tail \in DOMAIN g.index /\ CapacityOf(g) = 2 * n
       /\ \A i \in DOMAIN g.index : g.index[i] \in 1 .. m + n
       /\ \A i, k \in DOMAIN g.index : g.index[i] = g.index[k] => i = k
       /\ NextPosition(g) = n /\ g.index[n] = m + 1
       /\ \A k \in 0 .. n - 1 : g.index[((n - 1) - k) % (2 * n)] = h.index[(h.tail - k) % n]
  <2>1. m \in Nat /\ n \in Nat \ {0}
    BY <1>9
  <2>2. Turned(h, n, m, g)
    BY <1>4, <1>6, <1>13, <2>1, TurnedIndex
  <2> QED BY <2>2 DEF Turned
<1>15. Current(p)' = g
  BY <1>11 DEF Current, IndexOf
<1>16. \A e \in 1 .. m : KeyOf(p, e)' = KeyOf(p, e) /\ ValueOf(p, e)' = ValueOf(p, e)
  BY <1>8 DEF GrownTo
<1>17. ASSUME NEW e \in 1 .. m + n, e \notin 1 .. m
       PROVE KeyOf(p, e)' = NoKey /\ ValueOf(p, e)' = NoBlock
  <2>1. m \in Nat /\ n \in Nat
    BY <1>9
  <2>2. e \in m + 1 .. m + n
    BY <1>17, <2>1
  <2> QED BY <1>8, <2>2 DEF GrownTo
<1>18. \A e \in 1 .. m : e \in 1 .. m + n
  BY <1>9
<1>19. Used(p)' = Used(p) /\ \A e \in Used(p) : e \in 1 .. m
  <2>1. Used(p)' = {e \in 1 .. m + n : ValueOf(p, e)' # NoBlock}
    BY <1>9 DEF Used, ValueOf
  <2>2. Used(p) = {e \in 1 .. m : ValueOf(p, e) # NoBlock}
    BY <1>9 DEF Used, ValueOf
  <2> QED BY <1>16, <1>17, <1>18, <2>1, <2>2
<1>20. LastBase(p)' = LastBase(p) /\ OpenBase(p)' = OpenBase(p)
  BY <1>2, <1>9, <1>12 DEF LastBase, OpenBase, Filling, Base, Slot
<1>21. ShapeAt(p) /\ KeysAt(p) /\ AnchorAt(p)
  BY <1>7 DEF IndexInv, IndexShape, Keys, Anchors
<1>22. StoreKept(t) /\ SameFill /\ con' = con
  BY <1>7 DEF StoreKept, SameFill, ThrOnly
<1>23. \A e \in Used(p) : KeyOf(p, e)' = KeyOf(p, e) /\ ValueOf(p, e)' = ValueOf(p, e)
  BY <1>16, <1>19
<1>24. BlockInv'
  BY <1>7, <1>9, <1>19, <1>20, <1>22, <1>23, OwnerPlaces
<1>25. ShapeAt(p)'
  <2>1. producers'[p].indices # <<>>
    BY <1>11
  <2>2. ASSUME NEW j \in DOMAIN producers'[p].indices
        PROVE  LET r == producers'[p].indices[j]
               IN  /\ r.tail \in DOMAIN r.index
                   /\ \A i \in DOMAIN r.index : r.index[i] \in DOMAIN producers'[p].entries
                   /\ j = Len(producers'[p].indices) =>
                        \A i, k \in DOMAIN r.index : r.index[i] = r.index[k] => i = k
    <3>1. CASE j = l + 1
      BY <1>9, <1>11, <1>14, <3>1
    <3>2. CASE j # l + 1
      <4>1. j \in 1 .. l
        BY <1>11, <3>2
      <4>2. PICK r : r = producers[p].indices[j]
        OBVIOUS
      <4>3. r.tail \in DOMAIN r.index
                /\ \A i \in DOMAIN r.index : r.index[i] \in DOMAIN producers[p].entries
        BY <1>11, <1>21, <4>1, <4>2 DEF ShapeAt
      <4>4. \A i \in DOMAIN r.index : r.index[i] \in DOMAIN producers'[p].entries
        BY <1>9, <1>18, <4>3
      <4> QED BY <1>11, <3>2, <4>1, <4>2, <4>3, <4>4
    <3> QED BY <3>1, <3>2
  <2> QED BY <1>12, <2>1, <2>2 DEF ShapeAt
<1>26. x \in Nat /\ Slot(x) = 0 /\ IsBase(x)
  BY <1>2, <1>7, ProducerTyped DEF Starts, IsBase
<1>27. KeysAt(p)'
  <2>1. TailEntry(p) \in Used(p) /\ KeyOf(p, TailEntry(p)) # x
    <3>1. PICK e : e = TailEntry(p)
      OBVIOUS
    <3>2. e = h.index[NextPosition(h)] /\ NextPosition(h) \in DOMAIN h.index
      BY <1>0, <1>3, <1>7, <1>12, <3>1, CurrentHeader DEF TailEntry, Filling
    <3>3. e \in DOMAIN producers[p].entries
      BY <1>0, <1>3, <1>7, <3>2, CurrentHeader
    <3>4. e \in Used(p)
      BY <1>3, <1>7, <3>2, <3>3 DEF HasRoom, Used, Current
    <3>5. KeyOf(p, e) <= OpenBase(p) /\ KeyOf(p, e) \in Int
      BY <1>21, <3>3, <3>4, EntryTyped DEF KeysAt
    <3>6. OpenBase(p) = Base(x - 1)
      BY <1>2, <1>12 DEF OpenBase
    <3>7. Base(x - 1) = x - BlockSize
      BY <1>26, BaseBefore
    <3>8. KeyOf(p, e) # x
      BY <1>26, <3>5, <3>6, <3>7, QueueConstants
    <3> QED BY <3>1, <3>4, <3>8
  <2>2. ASSUME NEW f \in 1 .. m, KeyOf(p, f) # NoKey
        PROVE  /\ KeyOf(p, f) \in Nat /\ Slot(KeyOf(p, f)) = 0 /\ KeyOf(p, f) <= x
               /\ KeyOf(p, f) # x
               /\ \A e \in 1 .. m : KeyOf(p, f) = KeyOf(p, e) => f = e
    BY <1>2, <1>9, <1>21, <2>1, <2>2 DEF KeysAt
  <2>3. ASSUME NEW f \in 1 .. m + n, KeyOf(p, f)' # NoKey
        PROVE  /\ KeyOf(p, f)' \in Nat /\ Slot(KeyOf(p, f)') = 0 /\ KeyOf(p, f)' <= x
               /\ KeyOf(p, f)' # x
               /\ \A e \in 1 .. m + n : KeyOf(p, f)' = KeyOf(p, e)' => f = e
    <3>1. f \in 1 .. m
      BY <1>17, <2>3
    <3>2. KeyOf(p, f)' = KeyOf(p, f)
      BY <1>16, <3>1
    <3>3. ASSUME NEW e \in 1 .. m + n, KeyOf(p, f)' = KeyOf(p, e)' PROVE f = e
      <4>1. e \in 1 .. m
        BY <1>17, <2>3, <3>3
      <4>2. KeyOf(p, e)' = KeyOf(p, e)
        BY <1>16, <4>1
      <4> QED BY <2>2, <2>3, <3>1, <3>2, <3>3, <4>1, <4>2
    <3> QED BY <2>2, <2>3, <3>1, <3>2, <3>3
  <2>4. \A f \in Used(p) : KeyOf(p, f)' # NoKey /\ KeyOf(p, f)' <= OpenBase(p)
    BY <1>21, <1>23 DEF KeysAt
  <2> QED BY <1>9, <1>19, <1>20, <2>3, <2>4 DEF KeysAt, Slot
<1>28. AnchorAt(p)'
  <2>1. PICK last : last = LastBase(p)
    OBVIOUS
  <2>2. IsBase(last) /\ Anchored(p, h, h.tail, last)
    BY <1>3, <1>7, <1>21, <2>1, LastBases DEF AnchorAt
  <2>3. Anchored(p, g, g.tail, last)
    BY <1>4, <1>7, <1>9, <1>13, <1>14, <2>2, AnchoredTurned
  <2>4. Anchored(p, g, g.tail, last)'
    <3>1. g.tail \in DOMAIN g.index
      BY <1>14
    <3>2. ASSUME NEW f \in Used(p), NEW base \in KeyOf(p, f) .. last, Slot(base) = 0
          PROVE  /\ (last - base) \div BlockSize < CapacityOf(g)
                 /\ KeyOf(p, g.index[(g.tail - ((last - base) \div BlockSize)) % CapacityOf(g)])' = base
      <4>1. PICK k : k = (last - base) \div BlockSize
        OBVIOUS
      <4>2. KeyOf(p, f) \in Int
        BY <1>7, <1>9, <1>19, EntryTyped
      <4>3. IsBase(base) /\ base <= last
        BY <2>2, <3>2, <4>2 DEF IsBase
      <4>4. k \in Nat
        BY <2>2, <4>1, <4>3, BasesApart
      <4>5. k < n
        <5>1. (last - base) \div BlockSize < CapacityOf(h)
          BY <2>2, <3>2 DEF Anchored
        <5> QED BY <1>4, <4>1, <5>1
      <4>6. k < CapacityOf(g) /\ KeyOf(p, g.index[(g.tail - k) % CapacityOf(g)]) = base
        BY <2>3, <3>2, <4>1 DEF Anchored
      <4>7. k \in 0 .. n - 1
        BY <1>9, <4>4, <4>5
      <4>8. g.index[(g.tail - k) % CapacityOf(g)] = h.index[(h.tail - k) % n]
        BY <1>14, <4>7
      <4>9. (h.tail - k) % n \in 0 .. n - 1
        <5>1. n \in Nat \ {0} /\ k \in Int
          BY <1>9, <4>4
        <5> QED BY <1>13, <5>1, RingSteps
      <4>10. PICK e : e = g.index[(g.tail - k) % CapacityOf(g)]
        OBVIOUS
      <4>11. e \in 1 .. m
        BY <1>13, <4>8, <4>9, <4>10
      <4>12. KeyOf(p, e)' = base
        BY <1>16, <4>6, <4>10, <4>11
      <4> QED BY <4>1, <4>6, <4>10, <4>12 DEF KeyOf
    <3>3. CapacityOf(g)' = CapacityOf(g)
      BY DEF CapacityOf
    <3>4. \A f \in Used(p)' : KeyOf(p, f)' = KeyOf(p, f) /\ f \in Used(p)
      BY <1>19, <1>23
    <3> QED BY <3>2, <3>3, <3>4 DEF Anchored, Slot
  <2> QED BY <1>15, <1>20, <2>1, <2>4 DEF AnchorAt, Anchored
<1>29. \A d \in Consumers : SearchAt(d)' \/ (con'[d] = con[d] /\ con[d].p # p)
  <2>1. DOMAIN producers[p].indices \subseteq DOMAIN producers'[p].indices
    BY <1>11
  <2>2. \A j \in DOMAIN producers[p].indices :
            producers'[p].indices[j] = producers[p].indices[j]
    BY <1>11
  <2>3. \A d \in Consumers : con[d].at = "tail" /\ con[d].p = p
            /\ con[d].h = Len(producers[p].indices) =>
                 LeadsTo(d, Searched(d), Searched(d).tail)
    BY CurrentLeads
  <2>4. DOMAIN producers[p].entries \subseteq DOMAIN producers'[p].entries
            /\ Used(p)' \subseteq Used(p)
    BY <1>9, <1>18, <1>19
  <2>5. \A e \in DOMAIN producers[p].entries :
           KeyOf(p, e)' = KeyOf(p, e) \/ \A f \in Used(p) : ~ (KeyOf(p, f) <= KeyOf(p, e))
    BY <1>9, <1>16
  <2> QED BY <1>7, <1>22, <1>23, <2>1, <2>2, <2>3, <2>4, <2>5, OwnerSearches
<1>30. IndexInv'
  BY <1>0, <1>7, <1>9, <1>12, <1>25, <1>27, <1>28, <1>29, IndexChange
<1> QED BY <1>24, <1>30
-----------------------------------------------------------------------------
(* Each action keeps the invariant.                                        *)

\* What a thread does to a producer of its own that it has found already disturbs no claims
\* and nothing in the hash.
LEMMA OwnerKeepsCounts ==
  ASSUME TypeOK, TypeOK', HashInv, CountInv, NEW t \in Threads, ThrOnly(t),
             UNCHANGED <<tables, hashCount>>,
         NEW p \in DOMAIN producers, OnlyAt(p), producers'[p].owner = producers[p].owner,
         producers'[p].head = producers[p].head,
             producers'[p].optimistic = producers[p].optimistic,
         producers'[p].overcommit = producers[p].overcommit,
             producers'[p].tail >= producers[p].tail,
         thr[t].at \in Enqueueing, thr'[t].at \in Enqueueing \union {"idle"},
         thr'[t].producer = thr[t].producer
  PROVE  CountInv' /\ HashInv'
<1>1. DOMAIN producers' = DOMAIN producers /\ Len(producers') = Len(producers)
          /\ UNCHANGED <<con, team>>
  BY DEF OnlyAt, ThrOnly
<1>2. ASSUME NEW q \in DOMAIN producers
      PROVE  /\ producers'[q].owner = producers[q].owner
             /\ producers'[q].head = producers[q].head
             /\ producers'[q].tail >= producers[q].tail
             /\ producers'[q].optimistic = producers[q].optimistic
             /\ producers'[q].overcommit = producers[q].overcommit
  <2>1. producers[q].tail \in Nat
    BY ProducerTyped
  <2>2. CASE q # p
    BY <2>1, <2>2 DEF OnlyAt
  <2>3. CASE q = p
    BY <2>3
  <2> QED BY <2>2, <2>3
<1>3. Len(producers) <= Len(producers')
  BY <1>1 DEF TypeOK
<1>4. CountInv'
  BY <1>1, <1>2, <1>3, MoreToCount
<1>5. HashInv'
  BY <1>1, <1>2, EnqueueKeepsHash
<1> QED BY <1>4, <1>5

\* It disturbs none where it leaves the producers as they are.
LEMMA OwnerWaits ==
  ASSUME TypeOK, TypeOK', HashInv, CountInv, NEW t \in Threads, ThrOnly(t),
         UNCHANGED <<tables, hashCount, producers>>, thr[t].producer \in DOMAIN producers,
         thr[t].at \in Enqueueing, thr'[t].at \in Enqueueing \union {"idle"},
         thr'[t].producer = thr[t].producer
  PROVE  CountInv' /\ HashInv'
<1>1. PICK p : p = thr[t].producer
  OBVIOUS
<1>2. p \in DOMAIN producers /\ producers[p].tail \in Nat
  BY <1>1, ProducerTyped
<1>3. producers'[p].tail >= producers[p].tail
  BY <1>2
<1>4. OnlyAt(p)
  BY DEF OnlyAt
<1> QED BY <1>2, <1>3, <1>4, OwnerKeepsCounts

\* The element goes into a block that is not full: the invariant holds on.
LEMMA FillBlockActs ==
  ASSUME IInv, NEW t \in Threads, fillBlock(t)
  PROVE  IInv'
<1>0. /\ TypeOK /\ HashInv /\ CountInv /\ IndexInv /\ BlockInv
      /\ ThreadsSound /\ Placed /\ IndexShape /\ Ownership
  BY DEF IInv, HashInv, CountInv, IndexInv, BlockInv
<1>1. PICK p : p = thr[t].producer
  OBVIOUS
<1>2. /\ TypeOK' /\ ThrOnly(t) /\ UNCHANGED <<tables, hashCount, producers>>
      /\ p \in DOMAIN producers
      /\ thr[t].at \in Enqueueing /\ thr'[t].at \in Enqueueing \union {"idle"}
      /\ thr'[t].producer = thr[t].producer
  BY <1>0, <1>1, FillBlockStep DEF Enqueueing
<1>3. CountInv' /\ HashInv'
  BY <1>0, <1>1, <1>2, OwnerWaits
<1>4. IndexInv' /\ BlockInv'
  BY <1>0, FillKeepsBlocks
<1> QED BY <1>2, <1>3, <1>4 DEF IInv

\* The next entry gets its key: the invariant holds on.
LEMMA InsertEntryActs ==
  ASSUME IInv, NEW t \in Threads, insert_block_index_entry(t)
  PROVE  IInv'
<1>0. /\ TypeOK /\ HashInv /\ CountInv /\ IndexInv /\ BlockInv
      /\ ThreadsSound /\ Placed /\ IndexShape /\ Ownership
  BY DEF IInv, HashInv, CountInv, IndexInv, BlockInv
<1>1. PICK p : p = thr[t].producer
  OBVIOUS
<1>2. /\ TypeOK' /\ ThrOnly(t) /\ UNCHANGED <<tables, hashCount>> /\ p \in DOMAIN producers
      /\ thr[t].at \in Enqueueing /\ thr'[t].at \in Enqueueing \union {"idle"}
      /\ thr'[t].producer = thr[t].producer
  BY <1>0, <1>1, InsertEntryStep DEF Enqueueing
<1>3. OnlyAt(p) /\ producers'[p].owner = producers[p].owner
  BY <1>0, <1>1, InsertEntryStep
<1>4. /\ producers'[p].head = producers[p].head
      /\ producers'[p].optimistic = producers[p].optimistic
      /\ producers'[p].overcommit = producers[p].overcommit
  BY <1>0, <1>1, InsertEntryStep
<1>5. producers'[p].tail >= producers[p].tail
  <2>1. producers'[p].tail = producers[p].tail
    BY <1>0, <1>1, InsertEntryStep
  <2>2. producers[p].tail \in Nat
    BY <1>0, <1>2, ProducerTyped
  <2> QED BY <2>1, <2>2
<1>6. CountInv' /\ HashInv'
  BY <1>0, <1>1, <1>2, <1>3, <1>4, <1>5, OwnerKeepsCounts
<1>7. IndexInv' /\ BlockInv'
  BY <1>0, InsertKeepsBlocks
<1> QED BY <1>2, <1>6, <1>7 DEF IInv

\* The tail of the index moves on: the invariant holds on.
LEMMA SetIndexTailActs ==
  ASSUME IInv, NEW t \in Threads, setIndexTail(t)
  PROVE  IInv'
<1>0. /\ TypeOK /\ HashInv /\ CountInv /\ IndexInv /\ BlockInv
      /\ ThreadsSound /\ Placed /\ IndexShape /\ Ownership
  BY DEF IInv, HashInv, CountInv, IndexInv, BlockInv
<1>1. PICK p : p = thr[t].producer
  OBVIOUS
<1>2. /\ TypeOK' /\ ThrOnly(t) /\ UNCHANGED <<tables, hashCount>> /\ p \in DOMAIN producers
      /\ thr[t].at \in Enqueueing /\ thr'[t].at \in Enqueueing \union {"idle"}
      /\ thr'[t].producer = thr[t].producer
  BY <1>0, <1>1, SetIndexTailStep DEF Enqueueing
<1>3. OnlyAt(p) /\ producers'[p].owner = producers[p].owner
  BY <1>0, <1>1, SetIndexTailStep
<1>4. /\ producers'[p].head = producers[p].head
      /\ producers'[p].optimistic = producers[p].optimistic
      /\ producers'[p].overcommit = producers[p].overcommit
  BY <1>0, <1>1, SetIndexTailStep
<1>5. producers'[p].tail >= producers[p].tail
  <2>1. producers'[p].tail = producers[p].tail
    BY <1>0, <1>1, SetIndexTailStep
  <2>2. producers[p].tail \in Nat
    BY <1>0, <1>2, ProducerTyped
  <2> QED BY <2>1, <2>2
<1>6. CountInv' /\ HashInv'
  BY <1>0, <1>1, <1>2, <1>3, <1>4, <1>5, OwnerKeepsCounts
<1>7. IndexInv' /\ BlockInv'
  BY <1>0, SetTailKeepsBlocks
<1> QED BY <1>2, <1>6, <1>7 DEF IInv

\* A block is had from the initial pool, the free list or the heap: the invariant holds on.
LEMMA RequisitionActs ==
  ASSUME IInv, NEW t \in Threads, requisition_block(t)
  PROVE  IInv'
<1>0. /\ TypeOK /\ HashInv /\ CountInv /\ IndexInv /\ BlockInv
      /\ ThreadsSound /\ Placed /\ IndexShape /\ Ownership
  BY DEF IInv, HashInv, CountInv, IndexInv, BlockInv
<1>1. PICK p : p = thr[t].producer
  OBVIOUS
<1>2. /\ TypeOK' /\ ThrOnly(t) /\ UNCHANGED <<tables, hashCount, producers>>
      /\ p \in DOMAIN producers
      /\ thr[t].at \in Enqueueing /\ thr'[t].at \in Enqueueing \union {"idle"}
      /\ thr'[t].producer = thr[t].producer
  BY <1>0, <1>1, RequisitionStep DEF Enqueueing
<1>3. CountInv' /\ HashInv'
  BY <1>0, <1>1, <1>2, OwnerWaits
<1>4. IndexInv' /\ BlockInv'
  BY <1>0, RequisitionKeepsBlocks
<1> QED BY <1>2, <1>3, <1>4 DEF IInv

\* No block is to be had: the invariant holds on.
LEMMA RequisitionFailsActs ==
  ASSUME IInv, NEW t \in Threads, requisitionFails(t)
  PROVE  IInv'
<1>0. /\ TypeOK /\ HashInv /\ CountInv /\ IndexInv /\ BlockInv
      /\ ThreadsSound /\ Placed /\ IndexShape /\ Ownership
  BY DEF IInv, HashInv, CountInv, IndexInv, BlockInv
<1>1. PICK p : p = thr[t].producer
  OBVIOUS
<1>2. /\ TypeOK' /\ ThrOnly(t) /\ UNCHANGED <<tables, hashCount>> /\ p \in DOMAIN producers
      /\ thr[t].at \in Enqueueing /\ thr'[t].at \in Enqueueing \union {"idle"}
      /\ thr'[t].producer = thr[t].producer
  BY <1>0, <1>1, RequisitionFailsStep DEF Enqueueing
<1>3. OnlyAt(p) /\ producers'[p].owner = producers[p].owner
  BY <1>0, <1>1, RequisitionFailsStep
<1>4. /\ producers'[p].head = producers[p].head
      /\ producers'[p].optimistic = producers[p].optimistic
      /\ producers'[p].overcommit = producers[p].overcommit
  BY <1>0, <1>1, RequisitionFailsStep
<1>5. producers'[p].tail >= producers[p].tail
  <2>1. producers'[p].tail = producers[p].tail
    BY <1>0, <1>1, RequisitionFailsStep
  <2>2. producers[p].tail \in Nat
    BY <1>0, <1>2, ProducerTyped
  <2> QED BY <2>1, <2>2
<1>6. CountInv' /\ HashInv'
  BY <1>0, <1>1, <1>2, <1>3, <1>4, <1>5, OwnerKeepsCounts
<1>7. IndexInv' /\ BlockInv'
  BY <1>0, RewindKeepsBlocks
<1> QED BY <1>2, <1>6, <1>7 DEF IInv

\* The entry gets its block: the invariant holds on.
LEMMA StoreBlockActs ==
  ASSUME IInv, NEW t \in Threads, storeBlock(t)
  PROVE  IInv'
<1>0. /\ TypeOK /\ HashInv /\ CountInv /\ IndexInv /\ BlockInv
      /\ ThreadsSound /\ Placed /\ IndexShape /\ Ownership
  BY DEF IInv, HashInv, CountInv, IndexInv, BlockInv
<1>1. PICK p : p = thr[t].producer
  OBVIOUS
<1>2. /\ TypeOK' /\ ThrOnly(t) /\ UNCHANGED <<tables, hashCount>> /\ p \in DOMAIN producers
      /\ thr[t].at \in Enqueueing /\ thr'[t].at \in Enqueueing \union {"idle"}
      /\ thr'[t].producer = thr[t].producer
  BY <1>0, <1>1, StoreBlockStep DEF Enqueueing
<1>3. OnlyAt(p) /\ producers'[p].owner = producers[p].owner
  BY <1>0, <1>1, StoreBlockStep
<1>4. /\ producers'[p].head = producers[p].head
      /\ producers'[p].optimistic = producers[p].optimistic
      /\ producers'[p].overcommit = producers[p].overcommit
  BY <1>0, <1>1, StoreBlockStep
<1>5. producers'[p].tail >= producers[p].tail
  <2>1. producers'[p].tail = producers[p].tail
    BY <1>0, <1>1, StoreBlockStep
  <2>2. producers[p].tail \in Nat
    BY <1>0, <1>2, ProducerTyped
  <2> QED BY <2>1, <2>2
<1>6. CountInv' /\ HashInv'
  BY <1>0, <1>1, <1>2, <1>3, <1>4, <1>5, OwnerKeepsCounts
<1>7. IndexInv' /\ BlockInv'
  BY <1>0, StoreKeepsBlocks
<1> QED BY <1>2, <1>6, <1>7 DEF IInv

\* The element is there to be dequeued: the invariant holds on.
LEMMA StoreTailActs ==
  ASSUME IInv, NEW t \in Threads, storeTail(t)
  PROVE  IInv'
<1>0. /\ TypeOK /\ HashInv /\ CountInv /\ IndexInv /\ BlockInv
      /\ ThreadsSound /\ Placed /\ IndexShape /\ Ownership
  BY DEF IInv, HashInv, CountInv, IndexInv, BlockInv
<1>1. PICK p : p = thr[t].producer
  OBVIOUS
<1>2. /\ TypeOK' /\ ThrOnly(t) /\ UNCHANGED <<tables, hashCount>> /\ p \in DOMAIN producers
      /\ thr[t].at \in Enqueueing /\ thr'[t].at \in Enqueueing \union {"idle"}
      /\ thr'[t].producer = thr[t].producer
  BY <1>0, <1>1, StoreTailStep DEF Enqueueing
<1>3. OnlyAt(p) /\ producers'[p].owner = producers[p].owner
  BY <1>0, <1>1, StoreTailStep
<1>4. /\ producers'[p].head = producers[p].head
      /\ producers'[p].optimistic = producers[p].optimistic
      /\ producers'[p].overcommit = producers[p].overcommit
  BY <1>0, <1>1, StoreTailStep
<1>5. producers'[p].tail >= producers[p].tail
  <2>1. producers'[p].tail = producers[p].tail + 1
    BY <1>0, <1>1, StoreTailStep
  <2>2. producers[p].tail \in Nat
    BY <1>0, <1>2, ProducerTyped
  <2> QED BY <2>1, <2>2
<1>6. CountInv' /\ HashInv'
  BY <1>0, <1>1, <1>2, <1>3, <1>4, <1>5, OwnerKeepsCounts
<1>7. IndexInv' /\ BlockInv'
  BY <1>0, StoreTailKeepsBlocks
<1> QED BY <1>2, <1>6, <1>7 DEF IInv

\* The element is constructed in its place: the invariant holds on.
LEMMA WriteElementActs ==
  ASSUME IInv, NEW t \in Threads, writeElement(t)
  PROVE  IInv'
<1>0. /\ TypeOK /\ HashInv /\ CountInv /\ IndexInv /\ BlockInv /\ ThreadsSound
  BY DEF IInv, HashInv
<1>1. PICK p : p = thr[t].producer
  OBVIOUS
<1>2. thr[t].at = "write" /\ p \in DOMAIN producers /\ producers[p].owner = t
  BY <1>0, <1>1 DEF writeElement, ThrAt, ThreadsSound, ThreadSound, Enqueueing
<1>3. PICK b : b = producers[p].tailBlock
  OBVIOUS
<1>4. b \in DOMAIN blocks
  BY <1>0, <1>2, <1>3, OpenBlock DEF Doing
<1>5. /\ TypeOK' /\ ThrOnly(t) /\ UNCHANGED <<tables, hashCount, producers>>
      /\ thr'[t].at = "publish" /\ thr'[t].producer = thr[t].producer
  BY <1>0, <1>1, <1>3, <1>4, WriteElementStep
<1>6. thr[t].at \in Enqueueing /\ thr'[t].at \in Enqueueing \union {"idle"}
  BY <1>2, <1>5 DEF Enqueueing
<1>7. CountInv' /\ HashInv'
  BY <1>0, <1>1, <1>2, <1>5, <1>6, OwnerWaits
<1>8. IndexInv' /\ BlockInv'
  BY <1>0, WriteKeepsBlocks
<1> QED BY <1>5, <1>7, <1>8 DEF IInv

\* There is no index, and the call gives up: the invariant holds on.
LEMMA NoIndexActs ==
  ASSUME IInv, NEW t \in Threads, noIndex(t)
  PROVE  IInv'
<1>0. /\ TypeOK /\ HashInv /\ CountInv /\ IndexInv /\ BlockInv /\ ThreadsSound /\ Placed
  BY DEF IInv, HashInv, CountInv
<1>1. PICK p : p = thr[t].producer
  OBVIOUS
<1>2. /\ TypeOK' /\ ThrOnly(t) /\ UNCHANGED <<tables, hashCount, producers, blocks, used, pool>>
      /\ p \in DOMAIN producers /\ thr'[t].producer = thr[t].producer
      /\ thr[t].at = "enqueue" /\ thr'[t].at = "idle"
  BY <1>0, <1>1, NoIndexStep
<1>3. /\ thr[t].at \in Enqueueing /\ thr'[t].at \in Enqueueing \union {"idle"}
      /\ thr[t].at \in Quiet /\ thr'[t].at \in Quiet
  BY <1>2 DEF Enqueueing, Quiet
<1>4. CountInv' /\ HashInv'
  BY <1>0, <1>1, <1>2, <1>3, OwnerWaits
<1>5. IndexInv' /\ BlockInv'
  BY <1>0, <1>2, <1>3, QuietKeepsBlocks
<1> QED BY <1>2, <1>4, <1>5 DEF IInv

\* The index is full: a bigger one takes its place, or cannot be had. The invariant holds on.
LEMMA NewBlockIndexActs ==
  ASSUME IInv, NEW t \in Threads, new_block_index(t)
  PROVE  IInv'
<1>0. /\ TypeOK /\ HashInv /\ CountInv /\ IndexInv /\ BlockInv /\ ThreadsSound /\ Placed
      /\ IndexShape
  BY DEF IInv, HashInv, CountInv, IndexInv
<1>1. PICK p : p = thr[t].producer
  OBVIOUS
<1>2. CASE Fails(t)
  <2>1. producers' = producers
    <3>1. failures > 0 /\ failures' = failures - 1 /\ failures \in Nat
      BY <1>0, <1>2 DEF Fails, TypeOK
    <3>2. failures' # failures
      BY <3>1
    <3> QED BY <3>2 DEF new_block_index
  <2>2. /\ TypeOK' /\ ThrOnly(t)
        /\ UNCHANGED <<tables, hashCount, producers, blocks, used, pool>>
        /\ p \in DOMAIN producers /\ thr'[t].producer = thr[t].producer
        /\ thr[t].at = "enqueue" /\ thr'[t].at = "idle"
    BY <1>0, <1>1, <1>2, <2>1, GrowFailsStep
  <2>3. /\ thr[t].at \in Enqueueing /\ thr'[t].at \in Enqueueing \union {"idle"}
        /\ thr[t].at \in Quiet /\ thr'[t].at \in Quiet
    BY <2>2 DEF Enqueueing, Quiet
  <2>4. CountInv' /\ HashInv'
    BY <1>0, <1>1, <2>2, <2>3, OwnerWaits
  <2>5. IndexInv' /\ BlockInv'
    BY <1>0, <2>2, <2>3, QuietKeepsBlocks
  <2> QED BY <2>2, <2>4, <2>5 DEF IInv
<1>3. CASE ~ Fails(t)
  <2>1. /\ TypeOK' /\ ThrOnly(t) /\ UNCHANGED <<tables, hashCount, thr>>
        /\ p \in DOMAIN producers
        /\ thr[t].at = "enqueue"
    BY <1>0, <1>1, <1>3, GrowStep
  <2>2. OnlyAt(p) /\ producers'[p].owner = producers[p].owner
            /\ producers'[p].tail = producers[p].tail
    BY <1>0, <1>1, <1>3, GrowStep
  <2>3. /\ producers'[p].head = producers[p].head
        /\ producers'[p].optimistic = producers[p].optimistic
        /\ producers'[p].overcommit = producers[p].overcommit
    BY <1>0, <1>1, <1>3, GrowStep
  <2>4. producers[p].tail \in Nat
    BY <1>0, <2>1, ProducerTyped
  <2>5. producers'[p].tail >= producers[p].tail
    BY <2>2, <2>4
  <2>6. /\ thr[t].at \in Enqueueing /\ thr'[t].at \in Enqueueing \union {"idle"}
        /\ thr'[t].producer = thr[t].producer
    BY <2>1 DEF Enqueueing
  <2>7. CountInv' /\ HashInv'
    BY <1>0, <2>1, <2>2, <2>3, <2>5, <2>6, OwnerKeepsCounts
  <2>8. IndexInv' /\ BlockInv'
    BY <1>0, <1>3, GrowKeepsBlocks
  <2> QED BY <2>1, <2>7, <2>8 DEF IInv
<1> QED BY <1>2, <1>3

\* A call of enqueue begins: the invariant holds on.
LEMMA EnqueueActs ==
  ASSUME IInv, NEW t \in Threads, enqueue(t)
  PROVE  IInv'
<1>0. TypeOK /\ HashInv /\ CountInv /\ IndexInv /\ BlockInv /\ Placed
  BY DEF IInv, CountInv
<1>1. /\ TypeOK' /\ ThrOnly(t) /\ UNCHANGED <<tables, hashCount, producers, blocks, used, pool>>
      /\ thr[t].at = "idle" /\ thr'[t].at = "find"
  BY <1>0, EnqueueStep
<1>2. thr[t].at \in Quiet /\ thr'[t].at \in Quiet
  BY <1>1 DEF Quiet
<1>3. HashInv'
  BY <1>0, EnqueueStartsHash
<1>4. CountInv'
  <2>1. UNCHANGED <<con, team>>
    BY <1>1 DEF ThrOnly
  <2>2. \A q \in DOMAIN producers : producers'[q].tail >= producers[q].tail
    BY <1>0, <1>1, ProducerTyped
  <2>3. Len(producers) <= Len(producers')
    BY <1>0, <1>1 DEF TypeOK
  <2> QED BY <1>0, <1>1, <2>1, <2>2, <2>3, MoreToCount
<1>5. IndexInv' /\ BlockInv'
  BY <1>0, <1>1, <1>2, QuietKeepsBlocks
<1> QED BY <1>1, <1>3, <1>4, <1>5 DEF IInv

\* The thread looks for its producer, or makes one: the invariant holds on.
LEMMA GetProducerActs ==
  ASSUME IInv, NEW t \in Threads, getProducer(t)
  PROVE  IInv'
<1>0. TypeOK /\ HashInv /\ CountInv /\ IndexInv /\ BlockInv /\ Placed
  BY DEF IInv, CountInv
<1>1. /\ HashInv' /\ TypeOK' /\ ThrOnly(t) /\ UNCHANGED <<blocks, used, pool>>
      /\ thr[t].at \in Quiet /\ thr'[t].at \in Quiet
      /\ \/ UNCHANGED producers
         \/ \E o : Fresh(o, t) /\ ProducerAdded(o)
  BY <1>0, GetProducerStep
<1>2. UNCHANGED <<con, team>>
  BY <1>1 DEF ThrOnly
<1>3. CASE UNCHANGED producers
  <2>1. CountInv'
    <3>1. \A q \in DOMAIN producers : producers'[q].tail >= producers[q].tail
      BY <1>0, <1>3, ProducerTyped
    <3>2. Len(producers) <= Len(producers')
      BY <1>0, <1>3 DEF TypeOK
    <3> QED BY <1>0, <1>1, <1>2, <1>3, <3>1, <3>2, MoreToCount
  <2>2. IndexInv' /\ BlockInv'
    BY <1>0, <1>1, <1>3, QuietKeepsBlocks
  <2> QED BY <1>1, <2>1, <2>2 DEF IInv
<1>4. CASE \E o : Fresh(o, t) /\ ProducerAdded(o)
  <2>1. PICK o : Fresh(o, t) /\ ProducerAdded(o)
    BY <1>4
  <2>2. CountInv'
    <3>1. /\ \A q \in DOMAIN producers : q \in DOMAIN producers' /\ producers'[q] = producers[q]
          /\ \A q \in DOMAIN producers' : q \in DOMAIN producers \/ producers'[q] = o
          /\ Len(producers') = Len(producers) + 1
      BY <2>1 DEF ProducerAdded
    <3>2. \A q \in DOMAIN producers : producers'[q].tail >= producers[q].tail
      BY <1>0, <3>1, ProducerTyped
    <3>3. Len(producers) <= Len(producers')
      BY <1>0, <3>1 DEF TypeOK
    <3>4. o.tail = 0 /\ o.head = 0 /\ o.optimistic = 0 /\ o.overcommit = 0
      BY <2>1 DEF Fresh
    <3>5. DOMAIN producers \subseteq DOMAIN producers'
      BY <3>1
    <3> QED BY <1>0, <1>1, <1>2, <3>1, <3>2, <3>3, <3>4, <3>5, MoreToCount
  <2>3. IndexInv' /\ BlockInv'
    BY <1>0, <1>1, <2>1, NewProducerKeepsBlocks
  <2> QED BY <1>1, <2>2, <2>3 DEF IInv
<1> QED BY <1>1, <1>3, <1>4

\* What a thread does keeps the invariant.
LEMMA ThreadActs ==
  ASSUME IInv, NEW t \in Threads,
         \/ enqueue(t) \/ getProducer(t) \/ fillBlock(t) \/ noIndex(t)
         \/ insert_block_index_entry(t) \/ new_block_index(t) \/ setIndexTail(t)
         \/ requisition_block(t) \/ requisitionFails(t) \/ storeBlock(t)
         \/ writeElement(t) \/ storeTail(t)
  PROVE  IInv'
<1>1. CASE enqueue(t) \/ getProducer(t) \/ noIndex(t) \/ new_block_index(t) \/ writeElement(t)
  BY <1>1, EnqueueActs, GetProducerActs, NoIndexActs, NewBlockIndexActs, WriteElementActs
<1>2. CASE fillBlock(t) \/ insert_block_index_entry(t) \/ setIndexTail(t)
               \/ requisition_block(t)
  BY <1>2, FillBlockActs, InsertEntryActs, SetIndexTailActs, RequisitionActs
<1>3. CASE requisitionFails(t) \/ storeBlock(t) \/ storeTail(t)
  BY <1>3, RequisitionFailsActs, StoreBlockActs, StoreTailActs
<1> QED BY <1>1, <1>2, <1>3

\* What a consumer does with the index it has taken.
TakenStep(c) ==
  /\ TypeOK' /\ ConOnly(c) /\ c \in Consumers
  /\ DOMAIN producers' = DOMAIN producers /\ Len(producers') = Len(producers)
  /\ \A p \in DOMAIN producers : CountsKept(p) /\ producers'[p].owner = producers[p].owner
  /\ con[c].at \in Taking
  /\ \/ con'[c] = AtRest
     \/ /\ con'[c].at \in Taking /\ con'[c].p = con[c].p
        /\ con'[c].saw = con[c].saw /\ con'[c].left = con[c].left

\* It changes no producer but in clearEntry.
LEMMA ProducersStay ==
  ASSUME UNCHANGED producers
  PROVE  /\ DOMAIN producers' = DOMAIN producers /\ Len(producers') = Len(producers)
         /\ \A p \in DOMAIN producers : CountsKept(p)
                /\ producers'[p].owner = producers[p].owner
BY DEF CountsKept

\* The way to the block: three loads.
LEMMA LoadsTake ==
  ASSUME TypeOK, CountInv, IndexInv, BlockInv, NEW c \in team, loadIndex(c) \/ loadIndexTail(c)
             \/ loadKey(c)
  PROVE  TakenStep(c) /\ IndexInv' /\ BlockInv'
<1>0. Placed /\ Searches /\ IndexShape
  BY DEF CountInv, IndexInv
<1>1. CASE loadIndex(c)
  <2>1. /\ TypeOK' /\ ConOnly(c) /\ c \in Consumers /\ UNCHANGED producers
        /\ con[c].at = "header" /\ con'[c].at = "tail" /\ con'[c].p = con[c].p
        /\ con'[c].saw = con[c].saw /\ con'[c].left = con[c].left
    BY <1>0, <1>1, LoadIndexStep
  <2>2. con[c].at \in Taking /\ con'[c].at \in Taking
    BY <2>1 DEF Taking
  <2>3. TakenStep(c)
    BY <2>1, <2>2, ProducersStay DEF TakenStep
  <2> QED BY <1>1, <2>3, LoadIndexFinds
<1>2. CASE loadIndexTail(c)
  <2>1. /\ TypeOK' /\ ConOnly(c) /\ c \in Consumers /\ UNCHANGED producers
        /\ con[c].at = "tail" /\ con'[c].at = "key" /\ con'[c].p = con[c].p
        /\ con'[c].saw = con[c].saw /\ con'[c].left = con[c].left
    BY <1>0, <1>2, LoadIndexTailStep
  <2>2. con[c].at \in Taking /\ con'[c].at \in Taking
    BY <2>1 DEF Taking
  <2>3. TakenStep(c)
    BY <2>1, <2>2, ProducersStay DEF TakenStep
  <2> QED BY <1>2, <2>3, LoadIndexTailFinds
<1>3. CASE loadKey(c)
  <2>1. /\ TypeOK' /\ ConOnly(c) /\ c \in Consumers /\ UNCHANGED producers
        /\ con[c].at = "key" /\ con'[c].at = "move" /\ con'[c].p = con[c].p
        /\ con'[c].saw = con[c].saw /\ con'[c].left = con[c].left
    BY <1>0, <1>3, LoadKeyStep
  <2>2. con[c].at \in Taking /\ con'[c].at \in Taking
    BY <2>1 DEF Taking
  <2>3. TakenStep(c)
    BY <2>1, <2>2, ProducersStay DEF TakenStep
  <2> QED BY <1>3, <2>3, LoadKeyFinds
<1> QED BY <1>1, <1>2, <1>3

\* The element is moved out of the block that was found.
LEMMA MoveTakes ==
  ASSUME TypeOK, CountInv, IndexInv, BlockInv, NEW c \in team, moveElement(c)
  PROVE  TakenStep(c) /\ IndexInv' /\ BlockInv'
<1>0. Placed /\ c \in Consumers
  BY DEF CountInv, TypeOK
<1>1. con[c].at = "move"
  BY DEF moveElement, ConAt
<1>2. PICK p, e : p = con[c].p /\ e = con[c].entry
  OBVIOUS
<1>3. ValueOf(p, e) \in DOMAIN blocks
  BY <1>0, <1>1, <1>2, EntryFound
<1>4. entry(c).value \in DOMAIN blocks
  BY <1>2, <1>3 DEF entry, from, ValueOf
<1>5. /\ TypeOK' /\ ConOnly(c) /\ UNCHANGED producers
      /\ con'[c].at = "empty" /\ con'[c].p = con[c].p
      /\ con'[c].saw = con[c].saw /\ con'[c].left = con[c].left
  BY <1>0, <1>4, MoveElementStep
<1>6. con[c].at \in Taking /\ con'[c].at \in Taking
  BY <1>1, <1>5 DEF Taking
<1>7. TakenStep(c)
  BY <1>0, <1>5, <1>6, ProducersStay DEF TakenStep
<1> QED BY <1>7, MoveKeepsBlocks

\* The consumer leaves the block.
LEMMA EmptyTakes ==
  ASSUME TypeOK, CountInv, IndexInv, BlockInv, NEW c \in team, set_empty(c)
  PROVE  TakenStep(c) /\ IndexInv' /\ BlockInv'
<1>0. Placed /\ c \in Consumers
  BY DEF CountInv, TypeOK
<1>1. con[c].at = "empty"
  BY DEF set_empty, ConAt
<1>2. PICK p, e : p = con[c].p /\ e = con[c].entry
  OBVIOUS
<1>3. ValueOf(p, e) \in DOMAIN blocks /\ ValueOf(p, e) = con[c].b
  BY <1>0, <1>1, <1>2, EntryFound
<1>4. con[c].b \in DOMAIN blocks
  BY <1>3
<1>5. /\ TypeOK' /\ ConOnly(c) /\ UNCHANGED producers
      /\ \/ con'[c] = AtRest
         \/ /\ con'[c].at = "clear" /\ con'[c].p = con[c].p
            /\ con'[c].saw = con[c].saw /\ con'[c].left = con[c].left
  <2>1. CASE blocks[con[c].b].dequeued # BlockSize - 1
    BY <1>0, <1>4, <2>1, LeaveBlockStep
  <2>2. CASE blocks[con[c].b].dequeued = BlockSize - 1
    BY <1>0, <1>4, <2>2, LastToLeaveStep
  <2> QED BY <2>1, <2>2
<1>6. con[c].at \in Taking /\ (con'[c].at = "clear" => con'[c].at \in Taking)
  BY <1>1 DEF Taking
<1>7. TakenStep(c)
  BY <1>0, <1>5, <1>6, ProducersStay DEF TakenStep
<1> QED BY <1>7, EmptyKeepsBlocks

\* The last one to leave the block clears its entry.
LEMMA ClearTakes ==
  ASSUME TypeOK, CountInv, IndexInv, BlockInv, NEW c \in team, clearEntry(c)
  PROVE  TakenStep(c) /\ IndexInv' /\ BlockInv'
<1>0. Placed /\ Searches /\ IndexShape
  BY DEF CountInv, IndexInv
<1>1. PICK p : p = con[c].p
  OBVIOUS
<1>2. /\ TypeOK' /\ ConOnly(c) /\ c \in Consumers
      /\ con[c].at = "clear" /\ con'[c].at = "free" /\ con'[c].p = con[c].p
      /\ con'[c].saw = con[c].saw /\ con'[c].left = con[c].left /\ OnlyAt(con[c].p)
  BY <1>0, ClearEntryStep
<1>3. /\ producers'[con[c].p].owner = from(c).owner /\ producers'[con[c].p].tail = from(c).tail
      /\ producers'[con[c].p].head = from(c).head
      /\ producers'[con[c].p].optimistic = from(c).optimistic
      /\ producers'[con[c].p].overcommit = from(c).overcommit
  BY <1>0, ClearEntryStep
<1>4. ASSUME NEW q \in DOMAIN producers
      PROVE CountsKept(q) /\ producers'[q].owner = producers[q].owner
  <2>1. CASE q = p
    BY <1>1, <1>3, <2>1 DEF CountsKept, from
  <2>2. CASE q # p
    BY <1>1, <1>2, <2>2 DEF CountsKept, OnlyAt
  <2> QED BY <2>1, <2>2
<1>5. DOMAIN producers' = DOMAIN producers /\ Len(producers') = Len(producers)
  BY <1>2 DEF OnlyAt
<1>6. con[c].at \in Taking /\ con'[c].at \in Taking
  BY <1>2 DEF Taking
<1>7. TakenStep(c)
  BY <1>2, <1>4, <1>5, <1>6 DEF TakenStep
<1> QED BY <1>7, ClearKeepsBlocks

\* Then it gives the block back.
LEMMA FreeTakes ==
  ASSUME TypeOK, CountInv, IndexInv, BlockInv, NEW c \in team, freeBlock(c)
  PROVE  TakenStep(c) /\ IndexInv' /\ BlockInv'
<1>0. Placed
  BY DEF CountInv
<1>1. /\ TypeOK' /\ ConOnly(c) /\ c \in Consumers /\ UNCHANGED producers
      /\ con[c].at = "free" /\ con'[c] = AtRest
  BY <1>0, FreeBlockStep
<1>2. con[c].at \in Taking
  BY <1>1 DEF Taking
<1>3. TakenStep(c)
  BY <1>1, <1>2, ProducersStay DEF TakenStep
<1> QED BY <1>3, FreeKeepsBlocks

\* What a consumer does keeps the invariant.
LEMMA ConsumerActs ==
  ASSUME IInv, NEW c \in team,
         \/ try_dequeue(c) \/ loadSizeTail(c) \/ loadSizeHead(c) \/ tryBest(c)
         \/ loadTail(c) \/ loadOptimistic(c) \/ claim(c) \/ takeIndex(c) \/ giveBack(c)
         \/ loadIndex(c) \/ loadIndexTail(c) \/ loadKey(c) \/ moveElement(c)
         \/ set_empty(c) \/ clearEntry(c) \/ freeBlock(c)
  PROVE  IInv'
<1>0. TypeOK /\ HashInv /\ CountInv /\ IndexInv /\ BlockInv /\ Placed
  BY DEF IInv, CountInv
<1>1. PICK verified \in BOOLEAN : verified <=> con[c].count - con[c].overcommit < from(c).tail
  OBVIOUS
<1>2. CASE \/ try_dequeue(c) \/ loadSizeTail(c) \/ loadSizeHead(c) \/ tryBest(c)
           \/ loadTail(c) \/ loadOptimistic(c) \/ claim(c) \/ giveBack(c)
           \/ takeIndex(c) /\ ~ verified
  <2>1. LookStep(c)
    BY <1>0, <1>1, <1>2, Looking, Counting
  <2>2. TypeOK' /\ CountInv' /\ HashInv' /\ c \in Consumers
    BY <2>1 DEF LookStep
  <2>3. IndexInv' /\ BlockInv'
    BY <1>0, <2>1, <2>2, LooksKeepBlocks
  <2> QED BY <2>2, <2>3 DEF IInv
<1>3. CASE takeIndex(c) /\ verified
  <2>1. /\ TypeOK' /\ ConOnly(c) /\ c \in Consumers /\ OnlyAt(con[c].p)
        /\ producers'[con[c].p].owner = from(c).owner
    BY <1>0, <1>1, <1>3, TakeIndexStep
  <2>2. CountInv'
    BY <1>0, <1>1, <1>3, TakeKeepsCount
  <2>3. HashInv'
    <3>1. DOMAIN producers' = DOMAIN producers
      BY <2>1 DEF OnlyAt
    <3>2. \A p \in DOMAIN producers : producers'[p].owner = producers[p].owner
      BY <2>1 DEF OnlyAt, from
    <3> QED BY <1>0, <2>1, <3>1, <3>2, ConKeepsHash
  <2>4. IndexInv' /\ BlockInv'
    BY <1>0, <1>1, <1>3, TakeKeepsBlocks
  <2> QED BY <2>1, <2>2, <2>3, <2>4 DEF IInv
<1>4. CASE \/ loadIndex(c) \/ loadIndexTail(c) \/ loadKey(c) \/ moveElement(c)
           \/ set_empty(c) \/ clearEntry(c) \/ freeBlock(c)
  <2>1. TakenStep(c) /\ IndexInv' /\ BlockInv'
    BY <1>0, <1>4, LoadsTake, MoveTakes, EmptyTakes, ClearTakes, FreeTakes
  <2>2. CountInv' /\ HashInv'
    BY <1>0, <2>1, TakingKeepsCounts DEF TakenStep
  <2>3. TypeOK'
    BY <2>1 DEF TakenStep
  <2> QED BY <2>1, <2>2, <2>3 DEF IInv
<1> QED BY <1>1, <1>2, <1>3, <1>4
-----------------------------------------------------------------------------
(* The invariant holds.                                                    *)

\* The table there is at first has free slots only.
LEMMA FirstTable ==
  /\ EmptyTable(HashSize) \in Tables
  /\ \A i \in DOMAIN EmptyTable(HashSize) : EmptyTable(HashSize)[i].key = NoThread
<1>1. HashSize \in Nat \ {0}
  BY HashConstants
<1>2. PICK r : r = [key |-> NoThread, value |-> NoProducer]
  OBVIOUS
<1>3. r \in Slots /\ r.key = NoThread
  BY <1>2 DEF Slots, NoProducer
<1>4. PICK T : T = EmptyTable(HashSize)
  OBVIOUS
<1>5. T = [i \in 0 .. HashSize - 1 |-> r]
  BY <1>2, <1>4 DEF EmptyTable
<1>6. T \in [0 .. HashSize - 1 -> Slots] /\ \A i \in DOMAIN T : T[i].key = NoThread
  BY <1>3, <1>5
<1>7. T \in Tables
  BY <1>1, <1>6 DEF Tables
<1> QED BY <1>4, <1>6, <1>7

\* Initially no thread has a producer and all consumers are at rest.
LEMMA InitTyped ==
  ASSUME Init
  PROVE  /\ TypeOK /\ tables \in Seq(Tables) /\ Len(tables) = 1 /\ DOMAIN tables = {1}
         /\ \A i \in DOMAIN tables[1] : tables[1][i].key = NoThread
         /\ hashCount = 0 /\ producers = <<>> /\ Len(producers) = 0 /\ DOMAIN producers = {}
         /\ \A t \in Threads : thr[t].at = "idle"
         /\ \A c \in Consumers : con[c] = AtRest
         /\ used = 0 /\ pool = {} /\ Len(blocks) = PoolSize /\ DOMAIN blocks = 1 .. PoolSize
         /\ \A b \in DOMAIN blocks : blocks[b].dequeued = 0
<1>1. PICK T : T = EmptyTable(HashSize)
  OBVIOUS
<1>2. T \in Tables /\ \A i \in DOMAIN T : T[i].key = NoThread
  BY <1>1, FirstTable
<1>3. tables = <<T>>
  BY <1>1 DEF Init, HashInit
<1>4. tables \in Seq(Tables) /\ Len(tables) = 1 /\ DOMAIN tables = {1} /\ tables[1] = T
  BY <1>2, <1>3
<1>5. PICK s \in Scenarios :
        /\ team = s.team /\ failures = s.failures
        /\ thr = [t \in Threads |-> [at |-> "idle", left |-> s.sends[t], sent |-> 0,
                                     main |-> 0, count |-> 0, producer |-> NoProducer,
                                         block |-> NoBlock]]
  BY DEF Init
<1>6. s.team \subseteq Consumers /\ s.failures \in Nat /\ s.sends \in [Threads -> Nat]
  BY QueueConstants
<1>7. ASSUME NEW t \in Threads PROVE thr[t] \in ThreadType /\ thr[t].at = "idle"
  <2>1. PICK r : r = [at |-> "idle", left |-> s.sends[t], sent |-> 0,
                      main |-> 0, count |-> 0, producer |-> NoProducer, block |-> NoBlock]
    OBVIOUS
  <2>2. thr[t] = r
    BY <1>5, <2>1
  <2>3. s.sends[t] \in Nat
    BY <1>6
  <2>4. r \in ThreadType /\ r.at = "idle"
    BY <2>1, <2>3 DEF ThreadType, NoProducer, NoBlock
  <2> QED BY <2>2, <2>4
<1>8. thr \in [Threads -> ThreadType]
  <2>1. DOMAIN thr = Threads
    BY <1>5
  <2>2. thr = [t \in Threads |-> thr[t]]
    BY <1>5
  <2> QED BY <1>7, <2>1, <2>2
<1>9. con \in [Consumers -> ConsumerType] /\ \A c \in Consumers : con[c] = AtRest
  BY RestFields DEF Init
<1>10. /\ hashCount = 0 /\ resizing = FALSE /\ producers = <<>> /\ used = 0 /\ pool = {}
       /\ blocks = [b \in 1 .. PoolSize |-> NewBlock]
  BY DEF Init, HashInit
<1>11. PICK nb : nb = NewBlock
  OBVIOUS
<1>12. nb \in Blocks /\ nb.dequeued = 0 /\ PoolSize \in Nat
  BY <1>11, NewBlockFields, QueueConstants
<1>13. /\ blocks \in Seq(Blocks) /\ Len(blocks) = PoolSize /\ DOMAIN blocks = 1 .. PoolSize
       /\ \A b \in DOMAIN blocks : blocks[b].dequeued = 0
  <2>1. blocks = [b \in 1 .. PoolSize |-> nb]
    BY <1>10, <1>11
  <2> QED BY <1>12, <2>1
<1>14. producers \in Seq(ProducerType) /\ Len(producers) = 0 /\ DOMAIN producers = {}
  BY <1>10
<1>15. TypeOK
  <2>1. tables \in Seq(Tables)
    BY <1>4
  <2>2. hashCount \in Int /\ resizing \in BOOLEAN /\ used \in Nat /\ pool \subseteq Nat
    <3>1. hashCount = 0 /\ resizing = FALSE /\ used = 0 /\ pool = {}
      BY <1>10
    <3>2. hashCount \in Int
      BY <3>1
    <3>3. resizing \in BOOLEAN
      BY <3>1, Zenon
    <3>4. used \in Nat /\ pool \subseteq Nat
      BY <3>1
    <3> QED BY <3>2, <3>3, <3>4
  <2>3. failures \in Nat /\ team \subseteq Consumers
    BY <1>5, <1>6
  <2>4. producers \in Seq(ProducerType) /\ blocks \in Seq(Blocks)
    BY <1>13, <1>14
  <2> QED BY <1>8, <1>9, <2>1, <2>2, <2>3, <2>4 DEF TypeOK
<1> QED BY <1>2, <1>4, <1>7, <1>9, <1>10, <1>13, <1>14, <1>15

\* Where no thread has called yet there is nothing to keep.
LEMMA InitHash ==
  ASSUME Init
  PROVE  HashInv
<1>1. /\ TypeOK /\ DOMAIN tables = {1} /\ Len(tables) = 1
      /\ \A i \in DOMAIN tables[1] : tables[1][i].key = NoThread
      /\ hashCount = 0 /\ DOMAIN producers = {}
      /\ \A t \in Threads : thr[t].at = "idle"
  BY InitTyped
<1>2. \A t \in Threads, i \in DOMAIN tables : ~ InTable(t, i)
  BY <1>1, HashConstants DEF InTable
<1>3. TablesGrow
  <2>1. Capacity(1) \in Nat
    BY <1>1, TableShape
  <2> QED BY <1>1, <2>1 DEF TablesGrow
<1>4. Crowds
  <2>1. \A t \in Threads : thr[t].at \notin Joining
    BY <1>1 DEF Joining
  <2>2. Joined = {}
    BY <1>2, <2>1 DEF Joined
  <2>3. \A n : Early(n) = {}
    BY <1>2, <2>1 DEF Early
  <2>4. Cardinality({}) = 0
    BY FS_EmptySet
  <2>5. \A n \in Nat : 0 <= n
    OBVIOUS
  <2> QED BY <1>1, <2>2, <2>3, <2>4, <2>5 DEF Crowds
<1>5. SlotsSound
  BY <1>1 DEF SlotsSound
<1>6. Reachable
  BY <1>2 DEF Reachable
<1>7. ThreadsSound
  BY <1>1 DEF ThreadsSound, ThreadSound, Joining, Enqueueing
<1>8. OwnedOnce /\ OwnedFound
  BY <1>1 DEF OwnedOnce, OwnedFound
<1> QED BY <1>3, <1>4, <1>5, <1>6, <1>7, <1>8 DEF HashInv

\* The invariant holds initially.
LEMMA InitHolds == Init => IInv
<1> SUFFICES ASSUME Init PROVE IInv
  OBVIOUS
<1>1. /\ TypeOK /\ Len(producers) = 0 /\ DOMAIN producers = {}
      /\ \A t \in Threads : thr[t].at = "idle"
      /\ \A c \in Consumers : con[c] = AtRest
      /\ used = 0 /\ pool = {} /\ Len(blocks) = PoolSize /\ DOMAIN blocks = 1 .. PoolSize
      /\ \A b \in DOMAIN blocks : blocks[b].dequeued = 0
  BY InitTyped
<1>2. \A c \in Consumers : con[c].at = "idle" /\ con[c].saw = "no" /\ con[c].left = 0
  BY <1>1, RestFields
<1>3. CountInv
  <2>1. Counted
    BY <1>1 DEF Counted
  <2>2. Claims
    BY <1>2 DEF Claims, ClaimAt
  <2>3. ASSUME NEW c \in Consumers PROVE PlacedAt(c)
    <3>1. con[c].left <= Len(producers) /\ con[c].left >= NotYet
      BY <1>1, <1>2 DEF NotYet
    <3>2. con[c].at \notin AtProducer
      BY <1>2 DEF AtProducer
    <3> QED BY <1>1, <1>2, <3>1, <3>2 DEF PlacedAt
  <2> QED BY <2>1, <2>2, <2>3 DEF CountInv, Placed
<1>4. IndexInv
  BY <1>1, <1>2 DEF IndexInv, IndexShape, Keys, Anchors, Searches, SearchAt
<1>5. BlockInv
  <2>1. Hands
    BY <1>2 DEF Hands, HandAt, Holding
  <2>2. BlocksInPlace /\ EntriesOwn
    BY <1>1 DEF BlocksInPlace, EntriesOwn
  <2>3. ThreadsOwn /\ ConsumersOwn
    BY <1>1, <1>2 DEF ThreadsOwn, ConsumersOwn, Storing, Freeing
  <2>4. PoolOwns
    <3>1. PoolSize \in Nat /\ 0 <= PoolSize /\ PoolSize <= PoolSize
      BY QueueConstants
    <3>2. \A b \in used + 1 .. PoolSize : b \in DOMAIN blocks
      BY <1>1, <3>1
    <3> QED BY <1>1, <3>1, <3>2 DEF PoolOwns
  <2> QED BY <2>1, <2>2, <2>3, <2>4 DEF BlockInv, Ownership
<1> QED BY <1>1, <1>3, <1>4, <1>5, InitHash DEF IInv

\* A step of something else.
LEMMA NoStep ==
  ASSUME IInv, UNCHANGED vars
  PROVE  IInv'
<1>0. TypeOK /\ HashInv /\ CountInv /\ IndexInv /\ BlockInv /\ Placed /\ Keys
  BY DEF IInv, CountInv, IndexInv
<1>1. UNCHANGED <<tables, hashCount, resizing, producers, failures, thr, team, blocks, used,
          pool, con>>
  BY DEF vars
<1>2. TypeOK'
  BY <1>0, <1>1 DEF TypeOK
<1>3. HashInv'
  BY <1>0, <1>1, HashFrame DEF Undisturbed
<1>4. CountInv'
  <2>1. \A q \in DOMAIN producers : producers'[q].tail >= producers[q].tail
    BY <1>0, <1>1, ProducerTyped
  <2>2. Len(producers) <= Len(producers')
    BY <1>0, <1>1 DEF TypeOK
  <2> QED BY <1>0, <1>1, <1>2, <2>1, <2>2, MoreToCount
<1>5. \A p \in DOMAIN producers : ViewKept(p)
  BY <1>1 DEF ViewKept, Doing
<1>6. \A c \in Consumers : HandKept(c) /\ FreeKept(c)
  BY <1>1 DEF HandKept, FreeKept
<1>7. \A t \in Threads : StoreKept(t)
  BY <1>1 DEF StoreKept
<1>8. IndexInv'
  BY <1>0, <1>1, <1>5, IndexFrame
<1>9. BlockInv'
  <2>1. SameFill
    BY <1>1 DEF SameFill
  <2> QED BY <1>0, <1>1, <1>5, <1>6, <1>7, <2>1, BlockFrame
<1> QED BY <1>2, <1>3, <1>4, <1>8, <1>9 DEF IInv

\* Every step keeps it.
LEMMA NextHolds == IInv /\ [Next]_vars => IInv'
<1> SUFFICES ASSUME IInv, [Next]_vars PROVE IInv'
  OBVIOUS
<1>1. CASE UNCHANGED vars
  BY <1>1, NoStep
<1>2. CASE \E t \in Threads :
       \/ enqueue(t) \/ getProducer(t) \/ fillBlock(t) \/ noIndex(t)
       \/ insert_block_index_entry(t) \/ new_block_index(t) \/ setIndexTail(t)
       \/ requisition_block(t) \/ requisitionFails(t) \/ storeBlock(t)
       \/ writeElement(t) \/ storeTail(t)
  BY <1>2, ThreadActs
<1>3. CASE \E c \in team :
       \/ try_dequeue(c) \/ loadSizeTail(c) \/ loadSizeHead(c) \/ tryBest(c)
       \/ loadTail(c) \/ loadOptimistic(c) \/ claim(c) \/ takeIndex(c) \/ giveBack(c)
       \/ loadIndex(c) \/ loadIndexTail(c) \/ loadKey(c) \/ moveElement(c)
       \/ set_empty(c) \/ clearEntry(c) \/ freeBlock(c)
  BY <1>3, ConsumerActs
<1> QED BY <1>1, <1>2, <1>3 DEF Next

\* The invariant of the queue: the hash, the counts of claims, the index of blocks and the
\* blocks themselves.
THEOREM QueueInvariant == Spec => []IInv
<1> QED BY InitHolds, NextHolds, PTL DEF Spec

\* The block that a consumer is about to leave is not empty: it holds an index there itself.
LEMMA NotYetEmpty ==
  ASSUME TypeOK, CountInv, IndexInv, BlockInv, NEW c \in Consumers, con[c].at = "empty"
  PROVE  blocks[con[c].b].dequeued < BlockSize
<1>1. PICK p : p = con[c].p
  OBVIOUS
<1>2. PICK i : i = con[c].i
  OBVIOUS
<1>3. PICK e : e = con[c].entry
  OBVIOUS
<1>4. /\ p \in DOMAIN producers /\ e \in Used(p) /\ KeyOf(p, e) = Base(i)
      /\ ValueOf(p, e) \in DOMAIN blocks /\ ValueOf(p, e) = con[c].b
  BY <1>1, <1>2, <1>3, EntryFound
<1>5. con[c].at \in Holding
  BY DEF Holding
<1>6. i \in Left(p, Base(i)) /\ Base(i) \in Nat
  BY <1>1, <1>2, <1>5, HeldEntry
<1>7. PICK b : b = con[c].b
  OBVIOUS
<1>8. blocks[b].dequeued \in Nat
  <2>1. blocks \in Seq(Blocks) /\ b \in DOMAIN blocks
    BY <1>4, <1>7 DEF TypeOK
  <2>2. blocks[b] \in Blocks
    BY <2>1
  <2> QED BY <2>2 DEF Blocks
<1>9. blocks[b].dequeued + Cardinality(Left(p, Base(i))) = BlockSize
  <2>1. PlaceAt(p)
    BY <1>4 DEF BlockInv, BlocksInPlace
  <2>2. blocks[ValueOf(p, e)].dequeued + Cardinality(Left(p, KeyOf(p, e))) = BlockSize
    BY <1>4, <2>1 DEF PlaceAt
  <2> QED BY <1>4, <1>7, <2>2
<1>10. Cardinality(Left(p, Base(i))) \in Nat \ {0}
  <2>1. PICK L : L = Left(p, Base(i))
    OBVIOUS
  <2>2. PICK x \in Int : x = Base(i)
    BY <1>6
  <2>3. PICK z \in Int : z = x + BlockSize - 1
    BY QueueConstants
  <2>4. L \subseteq x .. z
    BY <2>1, <2>2, <2>3 DEF Left
  <2>5. IsFiniteSet(x .. z)
    BY FS_Interval
  <2>6. IsFiniteSet(L)
    BY <2>4, <2>5, FS_Subset
  <2>7. L # {} /\ Cardinality(L) \in Nat
    BY <1>6, <2>1, <2>6, FS_CardinalityType
  <2>8. Cardinality(L) # 0
    BY <2>6, <2>7, FS_EmptySet
  <2> QED BY <2>1, <2>7, <2>8
<1>11. PICK k \in Nat \ {0} : k = Cardinality(Left(p, Base(i)))
  BY <1>10
<1>12. blocks[b].dequeued + k = BlockSize
  BY <1>9, <1>11
<1> QED BY <1>7, <1>8, <1>12, QueueConstants

\* The assertions of concurrentqueue.h hold, and each table has a free slot, whatever the
\* threads, the consumers and the sizes of tables, blocks and indices.
THEOREM AssertionsHold == Spec => []AssertsHold
<1>1. IInv => AssertsHold
  <2> SUFFICES ASSUME IInv PROVE AssertsHold
    OBVIOUS
  <2>0. TypeOK /\ HashInv /\ CountInv /\ IndexInv /\ BlockInv
    BY DEF IInv
  <2>1. ASSUME NEW t \in Threads, ThrAt(t, "enqueue") PROVE mine(t).head <= mine(t).tail
    <3>1. thr[t].producer \in DOMAIN producers
      BY <2>0, <2>1 DEF ThrAt, HashInv, ThreadsSound, ThreadSound, Enqueueing
    <3> QED BY <2>0, <3>1 DEF CountInv, Counted, CountedAt, mine
  <2>2. ASSUME NEW c \in team
        PROVE  /\ ConAt(c, "verify") => con[c].overcommit <= con[c].count
               /\ ConAt(c, "key") =>
                    from(c).entries[from(c).indices[con[c].h].index[con[c].tail]].key # NoKey
               /\ ConAt(c, "move") => entry(c).key = Base(con[c].i) /\ entry(c).value # NoBlock
               /\ ConAt(c, "empty") => blocks[con[c].b].dequeued < BlockSize
    <3>0. c \in Consumers
      BY <2>0 DEF TypeOK
    <3>1. ASSUME ConAt(c, "verify") PROVE con[c].overcommit <= con[c].count
      BY <2>0, <3>0, <3>1 DEF CountInv, Claims, ClaimAt, ConAt
    <3>2. ASSUME ConAt(c, "key")
          PROVE  from(c).entries[from(c).indices[con[c].h].index[con[c].tail]].key # NoKey
      <4>1. PICK p : p = con[c].p
        OBVIOUS
      <4>2. PICK h : h = Searched(c)
        OBVIOUS
      <4>3. PICK x : x = con[c].tail
        OBVIOUS
      <4>4. KeyOf(p, h.index[x]) \in Nat
        BY <2>0, <3>0, <3>2, <4>1, <4>2, <4>3, KeyFound DEF ConAt
      <4>5. KeyOf(p, h.index[x]) # NoKey
        BY <4>4 DEF NoKey
      <4> QED BY <4>1, <4>2, <4>3, <4>5 DEF KeyOf, Searched, from
    <3>3. ASSUME ConAt(c, "move") PROVE entry(c).key = Base(con[c].i)
                     /\ entry(c).value # NoBlock
      <4>1. PICK p : p = con[c].p
        OBVIOUS
      <4>2. PICK e : e = con[c].entry
        OBVIOUS
      <4>3. e \in Used(p) /\ KeyOf(p, e) = Base(con[c].i)
        BY <2>0, <3>0, <3>3, <4>1, <4>2, EntryFound DEF ConAt
      <4> QED BY <4>1, <4>2, <4>3 DEF Used, KeyOf, entry, from
    <3>4. ASSUME ConAt(c, "empty") PROVE blocks[con[c].b].dequeued < BlockSize
      BY <2>0, <3>0, <3>4, NotYetEmpty DEF ConAt
    <3> QED BY <3>1, <3>2, <3>3, <3>4
  <2>3. FreeSlots
    BY <2>0, TablesHaveFreeSlots DEF HashInv
  <2> QED BY <2>1, <2>2, <2>3 DEF AssertsHold, FreeSlots
<1> QED BY <1>1, QueueInvariant, PTL
-----------------------------------------------------------------------------
(* What is said of the items, at the steps of a thread and of a consumer.  *)

\* The entries of producer p that have a block are among those that had one, unchanged.
EntriesStay(p) ==
  \A e \in Used(p)' :
    e \in Used(p) /\ KeyOf(p, e)' = KeyOf(p, e) /\ ValueOf(p, e)' = ValueOf(p, e)
\* The elements of the blocks in use stay.
BlocksStay(p) == \A e \in Used(p) :
    blocks'[ValueOf(p, e)].elements = blocks[ValueOf(p, e)].elements
\* What is said about the items of p speaks of the same numbers.
CountersStay(p) ==
  /\ producers'[p].owner = producers[p].owner /\ producers'[p].tail = producers[p].tail
  /\ producers'[p].head = producers[p].head
  /\ producers'[p].overcommit = producers[p].overcommit

\* Elements stay where they are as long as they are kept.
LEMMA ElementsFrame ==
  ASSUME Elements,
         \A p \in DOMAIN producers :
           /\ producers'[p].owner = producers[p].owner /\ EntriesStay(p) /\ BlocksStay(p)
           /\ \A i \in Int : Kept(p, i)' => Kept(p, i),
         \A p \in DOMAIN producers' : p \in DOMAIN producers \/ Used(p)' = {}
  PROVE  Elements'
<1>1. ASSUME NEW p \in DOMAIN producers'
      PROVE  ElementsAt(p)'
  <2>1. CASE p \in DOMAIN producers
    <3>1. ASSUME NEW e \in Used(p)', NEW i \in KeyOf(p, e)' .. KeyOf(p, e)' + BlockSize - 1,
                     Kept(p, i)'
          PROVE  blocks'[ValueOf(p, e)'].elements[i - KeyOf(p, e)'] = ItemAt(p, i)'
      <4>1. e \in Used(p)
        BY <2>1 DEF EntriesStay
      <4>2. KeyOf(p, e)' = KeyOf(p, e) /\ ValueOf(p, e)' = ValueOf(p, e)
        BY <2>1 DEF EntriesStay
      <4>3. Kept(p, i) /\ ElementsAt(p)
        <5>1. i \in Int
          OBVIOUS
        <5> QED BY <2>1, <3>1, <5>1 DEF Elements
      <4>4. blocks[ValueOf(p, e)].elements[i - KeyOf(p, e)] = ItemAt(p, i)
        BY <3>1, <4>1, <4>2, <4>3 DEF ElementsAt
      <4>5. blocks'[ValueOf(p, e)].elements = blocks[ValueOf(p, e)].elements
        BY <2>1, <4>1 DEF BlocksStay
      <4>6. ItemAt(p, i)' = ItemAt(p, i)
        BY <2>1 DEF ItemAt
      <4> QED BY <4>2, <4>4, <4>5, <4>6
    <3> QED BY <3>1 DEF ElementsAt
  <2>2. CASE Used(p)' = {}
    BY <2>2 DEF ElementsAt
  <2> QED BY <2>1, <2>2
<1> QED BY <1>1 DEF Elements

\* Where the tail and the head of p stay, an index is kept that was kept before.
LEMMA KeptFrame ==
  ASSUME NEW p, producers'[p].tail = producers[p].tail, producers'[p].head = producers[p].head,
         Doing(p)' = "publish" => Doing(p) = "publish",
         \A c \in Consumers : con'[c].at \in Holding \ {"empty"} =>
           con[c].at \in Holding \ {"empty"} /\ con'[c].p = con[c].p /\ con'[c].i = con[c].i
  PROVE  \A i : Kept(p, i)' => Kept(p, i)
<1>1. ASSUME NEW i, Kept(p, i)' PROVE Kept(p, i)
  <2>1. i < producers[p].tail \/ (i = producers[p].tail /\ Doing(p) = "publish")
    BY <1>1 DEF Kept
  <2>2. \/ i >= producers[p].head
        \/ \E c \in Consumers : con'[c].at \in Holding \ {"empty"} /\ con'[c].p = p
               /\ con'[c].i = i
    BY <1>1 DEF Kept
  <2>3. (\E c \in Consumers : con'[c].at \in Holding \ {"empty"} /\ con'[c].p = p
            /\ con'[c].i = i)
        => \E c \in Consumers : con[c].at \in Holding \ {"empty"} /\ con[c].p = p
            /\ con[c].i = i
    OBVIOUS
  <2> QED BY <2>1, <2>2, <2>3 DEF Kept
<1> QED BY <1>1

\* A step of thread t that publishes no item: a producer that is new is empty.
Unsent(t) ==
  /\ ThrOnly(t) /\ thr'[t].sent = thr[t].sent
  /\ DOMAIN producers \subseteq DOMAIN producers'
  /\ \A p \in DOMAIN producers : CountersStay(p)
  /\ \A p \in DOMAIN producers' \ DOMAIN producers :
       /\ producers'[p].owner = t /\ producers'[p].tail = 0 /\ producers'[p].head = 0
       /\ Used(p)' = {}
\* It writes no item either.
Idles(t) ==
  /\ Unsent(t) /\ thr'[t].at # "publish"
  /\ \A p \in DOMAIN producers : EntriesStay(p) /\ BlocksStay(p)

\* The numbers of the items and those in hands stay true.
LEMMA UnsentNumbers ==
  ASSUME TypeOK, Placed, OwnedOnce', Numbered, InHand, NEW t \in Threads, Unsent(t)
  PROVE  Numbered' /\ InHand'
<1>1. UNCHANGED con /\ \A u \in Threads : thr'[u].sent = thr[u].sent
  BY DEF Unsent, ThrOnly
<1>2. ASSUME NEW p \in DOMAIN producers
      PROVE  /\ p \in DOMAIN producers' /\ producers[p].owner \in Threads
             /\ producers'[p].owner = producers[p].owner
             /\ producers'[p].tail = producers[p].tail
  BY ProducerTyped DEF Unsent, CountersStay
<1>3. ASSUME NEW p \in DOMAIN producers'
      PROVE thr'[producers'[p].owner].sent = producers'[p].tail
  <2>1. CASE p \in DOMAIN producers
    BY <1>1, <1>2, <2>1 DEF Numbered
  <2>2. CASE p \notin DOMAIN producers
    <3>1. producers'[p].owner = t /\ producers'[p].tail = 0
      BY <2>2 DEF Unsent
    <3>2. ASSUME NEW q \in DOMAIN producers, producers[q].owner = t PROVE FALSE
      <4>1. q \in DOMAIN producers' /\ producers'[q].owner = producers'[p].owner
        BY <1>2, <3>1, <3>2
      <4>2. q = p
        BY <4>1 DEF OwnedOnce
      <4> QED BY <2>2, <4>2
    <3>3. thr[t].sent = 0
      BY <3>2 DEF Numbered
    <3> QED BY <1>1, <3>1, <3>3
  <2> QED BY <2>1, <2>2
<1>4. ASSUME NEW u \in Threads
      PROVE  thr'[u].sent = 0 \/ \E p \in DOMAIN producers' : producers'[p].owner = u
  <2>1. CASE thr[u].sent = 0
    BY <1>1, <2>1
  <2>2. CASE \E p \in DOMAIN producers : producers[p].owner = u
    BY <1>2, <2>2
  <2> QED BY <2>1, <2>2 DEF Numbered
<1>5. Numbered'
  BY <1>3, <1>4 DEF Numbered
<1>6. ASSUME NEW c \in Consumers, con'[c].at \in {"empty", "clear", "free"}
      PROVE  con'[c].item = ItemAt(con[c].p, con[c].i)'
  <2>1. con[c].at \in {"empty", "clear", "free"} /\ con'[c] = con[c]
    BY <1>1, <1>6
  <2>2. con[c].p \in DOMAIN producers
    BY <2>1 DEF Placed, PlacedAt, AtProducer
  <2>3. con[c].item = ItemAt(con[c].p, con[c].i)
    BY <2>1 DEF InHand
  <2>4. producers'[con[c].p].owner = producers[con[c].p].owner
    BY <1>2, <2>2
  <2> QED BY <2>1, <2>3, <2>4 DEF ItemAt
<1>7. InHand'
  BY <1>6 DEF InHand
<1> QED BY <1>5, <1>7

\* Such a step keeps the elements.
LEMMA IdlesElements ==
  ASSUME TypeOK, Elements, NEW t \in Threads, Idles(t)
  PROVE  Elements'
<1>1. UNCHANGED con /\ thr'[t].at # "publish" /\ \A u \in Threads \ {t} : thr'[u] = thr[u]
  BY DEF Idles, Unsent, ThrOnly
<1>2. ASSUME NEW p \in DOMAIN producers
      PROVE  /\ producers'[p].owner = producers[p].owner /\ EntriesStay(p) /\ BlocksStay(p)
             /\ \A i \in Int : Kept(p, i)' => Kept(p, i)
  <2>1. /\ producers'[p].owner = producers[p].owner /\ producers'[p].tail = producers[p].tail
        /\ producers'[p].head = producers[p].head
    BY DEF Idles, Unsent, CountersStay
  <2>2. producers[p].owner \in Threads
    BY ProducerTyped
  <2>3. Doing(p)' = "publish" => Doing(p) = "publish"
    BY <1>1, <2>1, <2>2 DEF Doing
  <2>4. \A i : Kept(p, i)' => Kept(p, i)
    BY <1>1, <2>1, <2>3, KeptFrame
  <2> QED BY <2>1, <2>4 DEF Idles
<1>3. \A p \in DOMAIN producers' : p \in DOMAIN producers \/ Used(p)' = {}
  BY DEF Idles, Unsent
<1> QED BY <1>2, <1>3, ElementsFrame

\* So it keeps all that is said of items.
LEMMA IdlesItems ==
  ASSUME IInv, IInv', ItemInv, NEW t \in Threads, Idles(t)
  PROVE  ItemInv'
<1>1. TypeOK /\ Placed /\ OwnedOnce'
  BY DEF IInv, CountInv, HashInv
<1>2. Numbered' /\ InHand'
  BY <1>1, UnsentNumbers DEF Idles, ItemInv
<1>3. Elements'
  BY <1>1, IdlesElements DEF ItemInv
<1> QED BY <1>2, <1>3 DEF ItemInv

\* A thread that only looks on leaves the items alone,
LEMMA WaitsIdles ==
  ASSUME NEW t \in Threads, ThrOnly(t), UNCHANGED <<producers, blocks>>,
         thr'[t].sent = thr[t].sent, thr'[t].at # "publish"
  PROVE  Idles(t)
<1>1. \A p \in DOMAIN producers : CountersStay(p) /\ EntriesStay(p) /\ BlocksStay(p)
  BY DEF CountersStay, EntriesStay, BlocksStay, Used, KeyOf, ValueOf
<1> QED BY <1>1 DEF Idles, Unsent

\* and so does one that changes its index only.
LEMMA OwnerIdles ==
  ASSUME NEW t \in Threads, ThrOnly(t), UNCHANGED blocks, NEW p \in DOMAIN producers, OnlyAt(p),
         thr'[t].sent = thr[t].sent, thr'[t].at # "publish", CountersStay(p), EntriesStay(p)
  PROVE  Idles(t)
<1>1. ASSUME NEW q \in DOMAIN producers PROVE CountersStay(q) /\ EntriesStay(q) /\ BlocksStay(q)
  <2>1. CASE q = p
    BY <2>1 DEF BlocksStay
  <2>2. CASE q # p
    BY <2>2 DEF OnlyAt, CountersStay, EntriesStay, BlocksStay, Used, KeyOf, ValueOf
  <2> QED BY <2>1, <2>2
<1>2. DOMAIN producers' = DOMAIN producers
  BY DEF OnlyAt
<1> QED BY <1>1, <1>2 DEF Idles, Unsent

\* insert_block_index_entry changes the key of an entry without a block.
LEMMA InsertIdles ==
  ASSUME IInv, NEW t \in Threads, insert_block_index_entry(t)
  PROVE  Idles(t)
<1>0. TypeOK /\ ThreadsSound /\ IndexShape /\ HashInv /\ IndexInv
  BY DEF IInv, HashInv, IndexInv
<1>1. PICK p : p = thr[t].producer
  OBVIOUS
<1>2. PICK h : h = Current(p)
  OBVIOUS
<1>3. PICK e : e = h.index[NextPosition(h)]
  OBVIOUS
<1>4. PICK x : x = producers[p].tail
  OBVIOUS
<1>5. /\ ThrOnly(t) /\ UNCHANGED blocks /\ p \in DOMAIN producers /\ OnlyAt(p)
      /\ thr'[t].at = "keyed" /\ thr'[t].sent = thr[t].sent /\ Doing(p) = "enqueue"
  BY <1>0, <1>1, InsertEntryStep
<1>6. /\ producers'[p].owner = producers[p].owner /\ producers'[p].tail = producers[p].tail
      /\ producers'[p].head = producers[p].head
      /\ producers'[p].overcommit = producers[p].overcommit
  BY <1>0, <1>1, InsertEntryStep
<1>7. /\ producers[p].indices # <<>> /\ Starts(producers[p]) /\ HasRoom(producers[p])
      /\ DOMAIN producers'[p].entries = DOMAIN producers[p].entries
  BY <1>0, <1>1, InsertEntryStep
<1>8. Slot(x) = 0
  BY <1>4, <1>7 DEF Starts
<1>9. e \notin Used(p) /\ e \in DOMAIN producers[p].entries
  BY <1>0, <1>2, <1>3, <1>4, <1>5, <1>7, <1>8, OldestGone
<1>10. /\ producers'[p].entries[e].value = producers[p].entries[e].value
       /\ \A f \in DOMAIN producers[p].entries \ {e} :
              producers'[p].entries[f] = producers[p].entries[f]
  <2>1. Current(p).index[NextPosition(Current(p))] = e
    BY <1>2, <1>3
  <2>2. PICK es : es = producers[p].entries
    OBVIOUS
  <2>3. producers \in Seq(ProducerType) /\ producers[p] \in ProducerType
    BY <1>0, <1>5 DEF TypeOK
  <2>4. producers' = [producers EXCEPT ![p].entries[e].key = x]
    BY <1>1, <1>4, <2>1 DEF insert_block_index_entry, mine, Current
  <2>5. PICK fs : fs = [es EXCEPT ![e].key = x]
    OBVIOUS
  <2>6. producers'[p].entries = fs
    BY <1>5, <2>2, <2>3, <2>4, <2>5 DEF ProducerType
  <2>7. es[e] \in Entries
    <3>1. es \in Seq(Entries)
      BY <2>2, <2>3 DEF ProducerType
    <3> QED BY <1>9, <2>2, <3>1
  <2>8. fs[e].value = es[e].value /\ \A f \in DOMAIN es \ {e} : fs[f] = es[f]
    BY <1>9, <2>2, <2>5, <2>7 DEF Entries
  <2> QED BY <2>2, <2>6, <2>8
<1>11. EntriesStay(p)
  <2>1. ASSUME NEW f \in Used(p)'
        PROVE  f \in Used(p) /\ KeyOf(p, f)' = KeyOf(p, f) /\ ValueOf(p, f)' = ValueOf(p, f)
    <3>1. f \in DOMAIN producers[p].entries /\ producers'[p].entries[f].value # NoBlock
      BY <1>7, <2>1 DEF Used
    <3>2. f # e
      BY <1>9, <1>10, <3>1 DEF Used
    <3> QED BY <1>10, <3>1, <3>2 DEF Used, KeyOf, ValueOf
  <2> QED BY <2>1 DEF EntriesStay
<1>12. CountersStay(p)
  BY <1>6 DEF CountersStay
<1> QED BY <1>5, <1>11, <1>12, OwnerIdles

\* So does setting the tail of the index.
LEMMA SetTailIdles ==
  ASSUME IInv, NEW t \in Threads, setIndexTail(t)
  PROVE  Idles(t)
<1>0. TypeOK /\ ThreadsSound /\ IndexShape
  BY DEF IInv, HashInv, IndexInv
<1>1. PICK p : p = thr[t].producer
  OBVIOUS
<1>2. /\ ThrOnly(t) /\ UNCHANGED blocks /\ p \in DOMAIN producers /\ OnlyAt(p)
      /\ thr'[t].at = "requisition" /\ thr'[t].sent = thr[t].sent
  BY <1>0, <1>1, SetIndexTailStep
<1>3. /\ producers'[p].owner = producers[p].owner /\ producers'[p].tail = producers[p].tail
      /\ producers'[p].head = producers[p].head
      /\ producers'[p].overcommit = producers[p].overcommit
      /\ producers'[p].entries = producers[p].entries
  BY <1>0, <1>1, SetIndexTailStep
<1>4. EntriesStay(p) /\ CountersStay(p)
  BY <1>3 DEF EntriesStay, CountersStay, Used, KeyOf, ValueOf
<1> QED BY <1>2, <1>4, OwnerIdles

\* So does taking the tail of the index back, where no block could be had (rewind_block_index_tail).
LEMMA RewindIdles ==
  ASSUME IInv, NEW t \in Threads, requisitionFails(t)
  PROVE  Idles(t)
<1>0. TypeOK /\ ThreadsSound /\ IndexShape
  BY DEF IInv, HashInv, IndexInv
<1>1. PICK p : p = thr[t].producer
  OBVIOUS
<1>2. PICK e : e = Current(p).index[Current(p).tail]
  OBVIOUS
<1>3. /\ ThrOnly(t) /\ UNCHANGED blocks /\ p \in DOMAIN producers /\ OnlyAt(p)
      /\ thr'[t].at = "idle" /\ thr'[t].sent = thr[t].sent
  BY <1>0, <1>1, RequisitionFailsStep
<1>4. producers'[p].owner = producers[p].owner /\ producers'[p].tail = producers[p].tail
  BY <1>0, <1>1, RequisitionFailsStep
<1>5. producers'[p].head = producers[p].head
          /\ producers'[p].overcommit = producers[p].overcommit
  BY <1>0, <1>1, RequisitionFailsStep
<1>6. DOMAIN producers'[p].entries = DOMAIN producers[p].entries
  BY <1>0, <1>1, RequisitionFailsStep
<1>7. /\ e \in DOMAIN producers[p].entries => producers'[p].entries[e].value = NoBlock
      /\ \A f \in DOMAIN producers[p].entries \ {e} :
             producers'[p].entries[f] = producers[p].entries[f]
  <2>1. PICK n : n = Len(producers[p].indices)
    OBVIOUS
  <2>2. PICK m : m = (Current(p).tail - 1) % CapacityOf(Current(p))
    OBVIOUS
  <2>3. PICK o : o = [producers[p] EXCEPT !.indices[n].tail = m, !.entries[e].value = NoBlock]
    OBVIOUS
  <2>4. producers \in Seq(ProducerType) /\ producers[p] \in ProducerType
    BY <1>0, <1>3 DEF TypeOK
  <2>5. producers'[p] = o
    <3>1. PICK o1 : o1 = [producers EXCEPT ![p].indices[n].tail = m,
              ![p].entries[e].value = NoBlock]
      OBVIOUS
    <3>2. producers' = o1
      BY <1>1, <1>2, <2>1, <2>2, <3>1 DEF requisitionFails, Current
    <3>3. o1[p] = o
      BY <1>3, <2>3, <2>4, <3>1
    <3> QED BY <3>2, <3>3
  <2>6. e \in DOMAIN producers[p].entries => o.entries[e].value = NoBlock
    BY <2>3, <2>4 DEF ProducerType, Entries
  <2>7. ASSUME NEW f \in DOMAIN producers[p].entries \ {e}
        PROVE o.entries[f] = producers[p].entries[f]
    BY <2>3, <2>4 DEF ProducerType
  <2> QED BY <2>5, <2>6, <2>7
<1>9. EntriesStay(p)
  <2>1. ASSUME NEW f \in Used(p)'
        PROVE  f \in Used(p) /\ KeyOf(p, f)' = KeyOf(p, f) /\ ValueOf(p, f)' = ValueOf(p, f)
    <3>1. f \in DOMAIN producers[p].entries /\ producers'[p].entries[f].value # NoBlock
      BY <1>6, <2>1 DEF Used
    <3>2. f # e
      BY <1>7, <3>1
    <3>3. producers'[p].entries[f] = producers[p].entries[f]
      BY <1>7, <3>1, <3>2
    <3> QED BY <3>1, <3>3 DEF Used, KeyOf, ValueOf
  <2> QED BY <2>1 DEF EntriesStay
<1>10. CountersStay(p)
  BY <1>4, <1>5 DEF CountersStay
<1> QED BY <1>3, <1>9, <1>10, OwnerIdles

\* The entries an index grows by have no block.
LEMMA GrowIdles ==
  ASSUME IInv, NEW t \in Threads, new_block_index(t)
  PROVE  Idles(t)
<1>0. TypeOK /\ ThreadsSound /\ IndexShape
  BY DEF IInv, HashInv, IndexInv
<1>1. PICK p : p = thr[t].producer
  OBVIOUS
<1>2. CASE ~ Fails(t)
  <2>1. PICK h : h = Current(p)
    OBVIOUS
  <2>2. PICK n : n = CapacityOf(h)
    OBVIOUS
  <2>3. PICK m : m = Len(producers[p].entries)
    OBVIOUS
  <2>4. PICK g : g = NewIndex(h, n, m)
    OBVIOUS
  <2>5. GrownTo(p, g, n, m)
    BY <1>0, <1>1, <1>2, <2>1, <2>2, <2>3, <2>4, GrownFacts
  <2>6. /\ ThrOnly(t) /\ UNCHANGED <<thr, blocks>> /\ p \in DOMAIN producers
        /\ thr[t].at = "enqueue"
    BY <1>0, <1>1, <1>2, GrowStep
  <2>7. producers'[p].overcommit = producers[p].overcommit
    BY <1>0, <1>1, <1>2, GrowStep
  <2>8. EntriesStay(p)
    <3>1. ASSUME NEW f \in Used(p)'
          PROVE  f \in Used(p) /\ KeyOf(p, f)' = KeyOf(p, f) /\ ValueOf(p, f)' = ValueOf(p, f)
      <4>1. f \in 1 .. m + n /\ ValueOf(p, f)' # NoBlock
        BY <2>5, <3>1 DEF GrownTo, Used, ValueOf
      <4>2. f \notin m + 1 .. m + n
        BY <2>5, <4>1 DEF GrownTo
      <4>3. m \in Nat /\ n \in Nat
        BY <2>5 DEF GrownTo
      <4>4. f \in 1 .. m
        BY <4>1, <4>2, <4>3
      <4>5. KeyOf(p, f)' = KeyOf(p, f) /\ ValueOf(p, f)' = ValueOf(p, f)
                /\ f \in DOMAIN producers[p].entries
        BY <2>5, <4>4 DEF GrownTo
      <4> QED BY <4>1, <4>5 DEF Used, ValueOf
    <3> QED BY <3>1 DEF EntriesStay
  <2>9. CountersStay(p) /\ OnlyAt(p)
    BY <2>5, <2>7 DEF CountersStay, GrownTo
  <2> QED BY <2>6, <2>8, <2>9, OwnerIdles
<1>3. CASE Fails(t)
  <2>1. producers' = producers
    <3>1. failures' = failures - 1 /\ failures \in Nat
      BY <1>0, <1>3 DEF Fails, TypeOK
    <3>2. failures' # failures
      BY <3>1
    <3> QED BY <3>2 DEF new_block_index
  <2>2. /\ ThrOnly(t) /\ UNCHANGED blocks /\ thr'[t].at = "idle" /\ thr'[t].sent = thr[t].sent
    BY <1>0, <1>1, <1>3, <2>1, GrowFailsStep
  <2> QED BY <2>1, <2>2, WaitsIdles
<1> QED BY <1>2, <1>3

\* A block that is had for an entry is not in use yet.
LEMMA RequisitionIdles ==
  ASSUME IInv, NEW t \in Threads, requisition_block(t)
  PROVE  Idles(t)
<1>0. TypeOK /\ ThreadsSound /\ Ownership /\ EntriesOwn
  BY DEF IInv, HashInv, BlockInv, Ownership
<1>1. PICK p : p = thr[t].producer
  OBVIOUS
<1>2. /\ ThrOnly(t) /\ UNCHANGED producers /\ thr'[t].at = "store" /\ thr'[t].sent = thr[t].sent
      /\ FromInitialPool(thr'[t].block) \/ FromFreeList(thr'[t].block)
             \/ FromHeap(thr'[t].block)
  BY <1>0, <1>1, RequisitionStep
<1>3. ASSUME NEW q \in DOMAIN producers PROVE CountersStay(q) /\ EntriesStay(q) /\ BlocksStay(q)
  <2>1. CountersStay(q) /\ EntriesStay(q)
    BY <1>2 DEF CountersStay, EntriesStay, Used, KeyOf, ValueOf
  <2>2. ASSUME NEW d \in DOMAIN blocks PROVE blocks'[d].elements = blocks[d].elements
    BY <1>2 DEF FromInitialPool, FromFreeList, FromHeap
  <2>3. \A e \in Used(q) : ValueOf(q, e) \in DOMAIN blocks
    BY <1>0 DEF EntriesOwn, InUse
  <2> QED BY <2>1, <2>2, <2>3 DEF BlocksStay
<1> QED BY <1>2, <1>3 DEF Idles, Unsent

\* A producer that is new has nothing yet.
LEMMA GetProducerIdles ==
  ASSUME IInv, NEW t \in Threads, getProducer(t)
  PROVE  Idles(t)
<1>0. TypeOK /\ HashInv
  BY DEF IInv
<1>1. /\ ThrOnly(t) /\ UNCHANGED blocks /\ thr'[t].sent = thr[t].sent /\ thr'[t].at \in Quiet
      /\ \/ UNCHANGED producers
         \/ \E o : Fresh(o, t) /\ ProducerAdded(o)
  BY <1>0, GetProducerStep
<1>2. thr'[t].at # "publish"
  BY <1>1 DEF Quiet, Joining
<1>3. CASE UNCHANGED producers
  BY <1>1, <1>2, <1>3, WaitsIdles
<1>4. CASE \E o : Fresh(o, t) /\ ProducerAdded(o)
  <2>1. PICK o : Fresh(o, t) /\ ProducerAdded(o)
    BY <1>4
  <2>2. ASSUME NEW q \in DOMAIN producers
        PROVE q \in DOMAIN producers' /\ producers'[q] = producers[q]
    BY <2>1 DEF ProducerAdded
  <2>3. ASSUME NEW q \in DOMAIN producers
        PROVE CountersStay(q) /\ EntriesStay(q) /\ BlocksStay(q)
    BY <1>1, <2>2 DEF CountersStay, EntriesStay, BlocksStay, Used, KeyOf, ValueOf
  <2>4. ASSUME NEW q \in DOMAIN producers' \ DOMAIN producers
        PROVE  /\ producers'[q].owner = t /\ producers'[q].tail = 0 /\ producers'[q].head = 0
               /\ Used(q)' = {}
    <3>1. producers'[q] = o
      BY <2>1, <2>4 DEF ProducerAdded
    <3> QED BY <2>1, <3>1 DEF Fresh, Used
  <2> QED BY <1>1, <1>2, <2>2, <2>3, <2>4 DEF Idles, Unsent
<1> QED BY <1>1, <1>3, <1>4

\* The steps of a thread that leave the items alone.
LEMMA ThreadIdles ==
  ASSUME IInv, NEW t \in Threads,
         \/ enqueue(t) \/ getProducer(t) \/ fillBlock(t) \/ noIndex(t)
         \/ insert_block_index_entry(t) \/ new_block_index(t) \/ setIndexTail(t)
         \/ requisition_block(t) \/ requisitionFails(t)
  PROVE  Idles(t)
<1>0. TypeOK /\ ThreadsSound
  BY DEF IInv, HashInv
<1>1. PICK p : p = thr[t].producer
  OBVIOUS
<1>2. ASSUME enqueue(t) PROVE Idles(t)
  <2>1. /\ ThrOnly(t) /\ UNCHANGED <<producers, blocks>>
        /\ thr'[t].at = "find" /\ thr'[t].sent = thr[t].sent
    BY <1>0, <1>2, EnqueueStep
  <2> QED BY <2>1, WaitsIdles
<1>3. ASSUME fillBlock(t) PROVE Idles(t)
  <2>1. /\ ThrOnly(t) /\ UNCHANGED <<producers, blocks>>
        /\ thr'[t].at = "write" /\ thr'[t].sent = thr[t].sent
    BY <1>0, <1>1, <1>3, FillBlockStep
  <2> QED BY <2>1, WaitsIdles
<1>4. ASSUME noIndex(t) PROVE Idles(t)
  <2>1. /\ ThrOnly(t) /\ UNCHANGED <<producers, blocks>>
        /\ thr'[t].at = "idle" /\ thr'[t].sent = thr[t].sent
    BY <1>0, <1>1, <1>4, NoIndexStep
  <2> QED BY <2>1, WaitsIdles
<1> QED BY <1>2, <1>3, <1>4, GetProducerIdles, InsertIdles, GrowIdles, SetTailIdles,
           RequisitionIdles, RewindIdles

\* The elements of a block that is stored for an entry do not count yet.
LEMMA StoreKeepsItems ==
  ASSUME IInv, IInv', ItemInv, NEW t \in Threads, storeBlock(t)
  PROVE  ItemInv'
<1>0. TypeOK /\ HashInv /\ CountInv /\ IndexInv /\ BlockInv /\ Placed /\ OwnedOnce'
          /\ ThreadsSound /\ IndexShape
  BY DEF IInv, CountInv, HashInv, IndexInv
<1>1. PICK p : p = thr[t].producer
  OBVIOUS
<1>2. PICK e : e = TailEntry(p)
  OBVIOUS
<1>3. PICK b : b = thr[t].block
  OBVIOUS
<1>4. /\ ThrOnly(t) /\ UNCHANGED blocks /\ p \in DOMAIN producers /\ producers[p].owner = t
      /\ Doing(p)' = "write" /\ Stored(p, e, b)
  BY <1>0, <1>1, <1>2, <1>3, StoredFacts
<1>5. thr'[t].sent = thr[t].sent /\ producers'[p].overcommit = producers[p].overcommit
  BY <1>0, <1>1, StoreBlockStep
<1>6. /\ OnlyAt(p) /\ DOMAIN producers' = DOMAIN producers
      /\ producers'[p].owner = producers[p].owner /\ producers'[p].tail = producers[p].tail
      /\ producers'[p].head = producers[p].head
  BY <1>4 DEF Stored, OnlyAt
<1>7. \A q \in DOMAIN producers : CountersStay(q)
  <2>1. CountersStay(p)
    BY <1>5, <1>6 DEF CountersStay
  <2>2. \A q \in DOMAIN producers \ {p} : producers'[q] = producers[q]
    BY <1>6 DEF OnlyAt
  <2> QED BY <2>1, <2>2 DEF CountersStay
<1>8. Unsent(t)
  BY <1>4, <1>5, <1>6, <1>7 DEF Unsent
<1>9. Numbered' /\ InHand'
  BY <1>0, <1>8, UnsentNumbers DEF ItemInv
<1>10. \A q \in DOMAIN producers \ {p} : Doing(q)' = Doing(q)
  BY <1>0, <1>4, <1>6, OwnerAlone
<1>11. ASSUME NEW q \in DOMAIN producers, NEW i, Kept(q, i)' PROVE Kept(q, i)
  <2>1. Doing(q)' = "publish" => Doing(q) = "publish"
    BY <1>4, <1>10
  <2>2. producers'[q].tail = producers[q].tail /\ producers'[q].head = producers[q].head
    BY <1>7 DEF CountersStay
  <2>3. con' = con
    BY <1>4 DEF ThrOnly
  <2>4. \A j : Kept(q, j)' => Kept(q, j)
    BY <2>1, <2>2, <2>3, KeptFrame
  <2> QED BY <1>11, <2>4
<1>12. ASSUME NEW q \in DOMAIN producers', NEW f \in Used(q)',
              NEW i \in KeyOf(q, f)' .. KeyOf(q, f)' + BlockSize - 1, Kept(q, i)'
       PROVE  blocks'[ValueOf(q, f)'].elements[i - KeyOf(q, f)'] = ItemAt(q, i)'
  <2>0. q \in DOMAIN producers /\ i \in Int
    BY <1>6
  <2>1. CASE q = p /\ f = e
    <3>1. KeyOf(p, e)' = producers[p].tail /\ producers[p].tail \in Nat
      BY <1>0, <1>4, ProducerTyped DEF Stored
    <3>2. i >= producers[p].tail
      BY <2>0, <2>1, <3>1
    <3>3. i < producers'[p].tail
      BY <1>4, <1>12, <2>1 DEF Kept
    <3> QED BY <1>6, <2>0, <3>1, <3>2, <3>3
  <2>2. CASE ~ (q = p /\ f = e)
    <3>1. f \in Used(q) /\ KeyOf(q, f)' = KeyOf(q, f) /\ ValueOf(q, f)' = ValueOf(q, f)
      <4>1. CASE q = p
        <5>1. f \in Used(p) /\ f \in DOMAIN producers[p].entries /\ f # e
          BY <1>4, <2>2, <4>1 DEF Stored, Used
        <5> QED BY <1>4, <4>1, <5>1 DEF Stored
      <4>2. CASE q # p
        <5>1. producers'[q] = producers[q]
          BY <1>6, <2>0, <4>2 DEF OnlyAt
        <5> QED BY <5>1 DEF Used, KeyOf, ValueOf
      <4> QED BY <4>1, <4>2
    <3>2. Kept(q, i)
      BY <1>11, <1>12, <2>0
    <3>3. ElementsAt(q)
      BY <2>0 DEF ItemInv, Elements
    <3>4. blocks[ValueOf(q, f)].elements[i - KeyOf(q, f)] = ItemAt(q, i)
      BY <3>1, <3>2, <3>3 DEF ElementsAt
    <3>5. ItemAt(q, i)' = ItemAt(q, i)
      BY <1>7, <2>0 DEF ItemAt, CountersStay
    <3> QED BY <1>4, <3>1, <3>4, <3>5
  <2> QED BY <2>1, <2>2
<1>13. Elements'
  BY <1>12 DEF Elements, ElementsAt
<1> QED BY <1>9, <1>13 DEF ItemInv

\* What is written at the tail is the item there.
LEMMA WriteKeepsItems ==
  ASSUME IInv, IInv', ItemInv, NEW t \in Threads, writeElement(t)
  PROVE  ItemInv'
<1>0. /\ TypeOK /\ HashInv /\ CountInv /\ IndexInv /\ BlockInv /\ Placed /\ OwnedOnce'
      /\ ThreadsSound
      /\ EntriesOwn
  BY DEF IInv, CountInv, HashInv, IndexInv, BlockInv, Ownership
<1>1. PICK p : p = thr[t].producer
  OBVIOUS
<1>2. PICK x : x = producers[p].tail
  OBVIOUS
<1>3. PICK b : b = producers[p].tailBlock
  OBVIOUS
<1>4. p \in DOMAIN producers /\ producers[p].owner = t /\ Doing(p) = "write"
  <2>1. thr[t].at = "write"
    BY DEF writeElement, ThrAt
  <2>2. p \in DOMAIN producers /\ producers[p].owner = t
    BY <1>0, <1>1, <2>1 DEF ThreadsSound, ThreadSound, Enqueueing
  <2> QED BY <2>1, <2>2 DEF Doing
<1>5. b \in DOMAIN blocks
  BY <1>0, <1>3, <1>4, OpenBlock
<1>6. PICK e \in Used(p) : KeyOf(p, e) = Base(x) /\ ValueOf(p, e) = b
  BY <1>0, <1>2, <1>3, <1>4, OpenBlock
<1>7. /\ ThrOnly(t) /\ UNCHANGED producers /\ thr'[t].at = "publish"
      /\ thr'[t].sent = thr[t].sent
      /\ \A d \in DOMAIN blocks \ {b} : blocks'[d] = blocks[d]
  <2>1. ThrOnly(t) /\ UNCHANGED producers
    BY <1>0, <1>1, <1>3, <1>5, WriteElementStep
  <2>2. thr'[t].at = "publish" /\ thr'[t].sent = thr[t].sent
    BY <1>0, <1>1, <1>3, <1>5, WriteElementStep
  <2>3. \A d \in DOMAIN blocks \ {b} : blocks'[d] = blocks[d]
    <3>1. blocks' = [blocks EXCEPT ![b].elements[Slot(x)] = Item(t)]
      BY <1>1, <1>2, <1>3 DEF writeElement, mine
    <3>2. blocks \in Seq(Blocks)
      BY <1>0 DEF TypeOK
    <3> QED BY <3>1, <3>2
  <2> QED BY <2>1, <2>2, <2>3
<1>8. blocks'[b].elements = [blocks[b].elements EXCEPT ![Slot(x)] = Item(t)]
  BY <1>0, <1>1, <1>2, <1>3, <1>5, WriteElementStep
<1>9. Unsent(t)
  BY <1>7 DEF Unsent, CountersStay
<1>10. Numbered' /\ InHand'
  BY <1>0, <1>9, UnsentNumbers DEF ItemInv
<1>11. Item(t) = ItemAt(p, x)
  <2>1. thr[t].sent = x
    BY <1>2, <1>4 DEF ItemInv, Numbered
  <2> QED BY <1>4, <2>1 DEF Item, ItemAt
<1>12. x \in Nat /\ Slot(x) \in 0 .. BlockSize - 1 /\ Base(x) \in Int /\ x = Base(x) + Slot(x)
       /\ IsBase(Base(x))
  <2>1. x \in Nat
    BY <1>0, <1>2, <1>4, ProducerTyped
  <2> QED BY <2>1, BaseOf
<1>13. blocks[b].elements \in [0 .. BlockSize - 1 -> Items]
  <2>1. blocks[b] \in Blocks
    BY <1>0, <1>5 DEF TypeOK
  <2> QED BY <2>1 DEF Blocks
<1>14. \A q \in DOMAIN producers \ {p} : Doing(q)' = Doing(q)
  <2>1. OnlyAt(p)
    BY <1>7 DEF OnlyAt
  <2> QED BY <1>0, <1>4, <1>7, <2>1, OwnerAlone
<1>15. ASSUME NEW q \in DOMAIN producers, NEW i, Kept(q, i)', ~ (q = p /\ i = x)
       PROVE  Kept(q, i)
  <2>1. con' = con /\ producers' = producers
    BY <1>7 DEF ThrOnly
  <2>2. CASE q = p
    BY <1>2, <1>15, <2>1, <2>2 DEF Kept
  <2>3. CASE q # p
    BY <1>14, <1>15, <2>1, <2>3 DEF Kept
  <2> QED BY <2>2, <2>3
<1>16. ASSUME NEW q \in DOMAIN producers, NEW f \in Used(q),
              NEW i \in KeyOf(q, f) .. KeyOf(q, f) + BlockSize - 1, Kept(q, i)'
       PROVE  blocks'[ValueOf(q, f)].elements[i - KeyOf(q, f)] = ItemAt(q, i)
  <2>1. f \in DOMAIN producers[q].entries
    BY DEF Used
  <2>2. PICK k \in Int : k = KeyOf(q, f)
    BY <1>0, <2>1, EntryTyped
  <2>3. i \in Int /\ k <= i /\ i < k + BlockSize /\ BlockSize \in Nat
    BY <2>2, QueueConstants
  <2>4. ValueOf(q, f) \in DOMAIN blocks
    BY <1>0 DEF EntriesOwn, InUse
  <2>5. ~ (q = p /\ i = x) => blocks[ValueOf(q, f)].elements[i - k] = ItemAt(q, i)
    <3>1. ElementsAt(q)
      BY DEF ItemInv, Elements
    <3> QED BY <1>15, <1>16, <2>2, <3>1 DEF ElementsAt
  <2>6. CASE ValueOf(q, f) = b
    <3>1. q = p /\ f = e
      BY <1>0, <1>4, <1>6, <2>6 DEF EntriesOwn
    <3>2. k = Base(x)
      BY <1>6, <2>2, <3>1
    <3>3. CASE i = x
      <4>1. i - k = Slot(x)
        BY <1>12, <2>2, <2>3, <3>2, <3>3
      <4>2. blocks'[b].elements[Slot(x)] = Item(t)
        BY <1>8, <1>12, <1>13
      <4> QED BY <1>11, <2>2, <2>6, <3>1, <3>3, <4>1, <4>2
    <3>4. CASE i # x
      <4>1. i - k # Slot(x) /\ i - k \in 0 .. BlockSize - 1
        <5>1. PICK r \in Int : r = Slot(x)
          BY <1>12
        <5>2. x = k + r /\ x \in Int
          BY <1>12, <3>2, <5>1
        <5> QED BY <2>2, <2>3, <3>4, <5>1, <5>2
      <4>2. blocks'[b].elements[i - k] = blocks[b].elements[i - k]
        BY <1>8, <1>13, <4>1
      <4> QED BY <2>2, <2>5, <2>6, <3>4, <4>2
    <3> QED BY <3>3, <3>4
  <2>7. CASE ValueOf(q, f) # b
    <3>1. ~ (q = p /\ i = x)
      <4>1. ASSUME q = p, i = x PROVE FALSE
        <5>1. KeysAt(p) /\ k \in Int
          BY <1>0, <1>4 DEF IndexInv, Keys
        <5>2. KeyOf(p, f) # NoKey /\ KeyOf(p, e) # NoKey
          BY <1>6, <4>1, <5>1 DEF KeysAt
        <5>3. IsBase(k)
          BY <2>1, <2>2, <4>1, <5>1, <5>2 DEF KeysAt, IsBase
        <5>4. Base(x) = k
          BY <1>12, <2>3, <4>1, <5>3, OneBase
        <5>5. e \in DOMAIN producers[p].entries
          BY <1>6 DEF Used
        <5>6. f = e
          BY <1>6, <2>1, <2>2, <4>1, <5>1, <5>2, <5>4, <5>5 DEF KeysAt
        <5> QED BY <1>6, <2>7, <4>1, <5>6
      <4> QED BY <4>1
    <3>2. blocks'[ValueOf(q, f)] = blocks[ValueOf(q, f)]
      BY <1>7, <2>4, <2>7
    <3> QED BY <2>2, <2>5, <3>1, <3>2
  <2> QED BY <2>6, <2>7
<1>17. Elements'
  <2>1. producers' = producers
    BY <1>7
  <2> QED BY <1>16, <2>1 DEF Elements, ElementsAt, Used, KeyOf, ValueOf, ItemAt
<1> QED BY <1>10, <1>17 DEF ItemInv

\* Once the tail is stored, the item at it has been sent.
LEMMA StoreTailKeepsItems ==
  ASSUME IInv, ItemInv, NEW t \in Threads, storeTail(t)
  PROVE  ItemInv'
<1>0. TypeOK /\ HashInv /\ Placed /\ OwnedOnce /\ ThreadsSound
  BY DEF IInv, CountInv, HashInv
<1>1. PICK p : p = thr[t].producer
  OBVIOUS
<1>2. PICK x : x = producers[p].tail
  OBVIOUS
<1>3. /\ ThrOnly(t) /\ UNCHANGED blocks /\ p \in DOMAIN producers /\ producers[p].owner = t
      /\ Doing(p) = "publish" /\ thr'[t].at = "idle" /\ thr'[t].sent = thr[t].sent + 1
  BY <1>0, <1>1, StoreTailStep
<1>4. /\ OnlyAt(p) /\ DOMAIN producers' = DOMAIN producers
      /\ producers'[p].owner = producers[p].owner /\ producers'[p].head = producers[p].head
      /\ producers'[p].entries = producers[p].entries /\ producers'[p].tail = x + 1
  BY <1>0, <1>1, <1>2, StoreTailStep DEF OnlyAt
<1>5. con' = con /\ \A u \in Threads \ {t} : thr'[u] = thr[u]
  BY <1>3 DEF ThrOnly
<1>6. \A q \in DOMAIN producers \ {p} : producers'[q] = producers[q] /\ producers[q].owner # t
  BY <1>0, <1>3, <1>4 DEF OwnedOnce, OnlyAt
<1>7. \A q \in DOMAIN producers : producers'[q].owner = producers[q].owner
          /\ producers[q].owner \in Threads
  BY <1>0, <1>4, <1>6, ProducerTyped
<1>8. thr[t].sent = x
  BY <1>2, <1>3 DEF ItemInv, Numbered
<1>9. Numbered'
  <2>1. ASSUME NEW q \in DOMAIN producers'
        PROVE thr'[producers'[q].owner].sent = producers'[q].tail
    <3>1. CASE q = p
      BY <1>3, <1>4, <1>8, <3>1
    <3>2. CASE q # p
      BY <1>4, <1>5, <1>6, <1>7, <3>2 DEF ItemInv, Numbered
    <3> QED BY <3>1, <3>2
  <2>2. ASSUME NEW u \in Threads
        PROVE  thr'[u].sent = 0 \/ \E q \in DOMAIN producers' : producers'[q].owner = u
    <3>1. CASE u = t
      BY <1>3, <1>4, <3>1
    <3>2. CASE u # t
      BY <1>4, <1>5, <1>7, <3>2 DEF ItemInv, Numbered
    <3> QED BY <3>1, <3>2
  <2> QED BY <2>1, <2>2 DEF Numbered
<1>10. InHand'
  <2>1. ASSUME NEW c \in Consumers, con'[c].at \in {"empty", "clear", "free"}
        PROVE  con'[c].item = ItemAt(con[c].p, con[c].i)' /\ con'[c] = con[c]
    <3>1. con[c].at \in {"empty", "clear", "free"} /\ con'[c] = con[c]
      BY <1>5, <2>1
    <3>2. con[c].p \in DOMAIN producers
      BY <1>0, <3>1 DEF Placed, PlacedAt, AtProducer
    <3>3. con[c].item = ItemAt(con[c].p, con[c].i)
      BY <3>1 DEF ItemInv, InHand
    <3> QED BY <1>7, <3>1, <3>2, <3>3 DEF ItemAt
  <2> QED BY <2>1 DEF InHand
<1>11. ASSUME NEW q \in DOMAIN producers
       PROVE  /\ producers'[q].owner = producers[q].owner /\ EntriesStay(q) /\ BlocksStay(q)
              /\ \A i \in Int : Kept(q, i)' => Kept(q, i)
  <2>1. producers'[q].entries = producers[q].entries /\ producers'[q].head = producers[q].head
    BY <1>4, <1>6
  <2>2. EntriesStay(q) /\ BlocksStay(q)
    BY <1>3, <2>1 DEF EntriesStay, BlocksStay, Used, KeyOf, ValueOf
  <2>3. ASSUME NEW i \in Int, Kept(q, i)' PROVE Kept(q, i)
    <3>1. CASE q = p
      <4>1. Doing(p)' = "idle"
        BY <1>3, <1>4 DEF Doing
      <4>2. x \in Nat
        BY <1>0, <1>2, <1>3, ProducerTyped
      <4>3. i < x + 1
        BY <1>4, <2>3, <3>1, <4>1 DEF Kept
      <4>4. i < x \/ i = x
        BY <4>2, <4>3
      <4>5. /\ \/ i >= producers[q].head
               \/ \E c \in Consumers : con[c].at \in Holding \ {"empty"} /\ con[c].p = q
                      /\ con[c].i = i
        BY <1>5, <2>1, <2>3 DEF Kept
      <4> QED BY <1>2, <1>3, <3>1, <4>4, <4>5 DEF Kept
    <3>2. CASE q # p
      <4>1. producers'[q] = producers[q] /\ Doing(q)' = Doing(q)
        BY <1>5, <1>6, <1>7, <3>2 DEF Doing
      <4> QED BY <1>5, <2>3, <4>1 DEF Kept
    <3> QED BY <3>1, <3>2
  <2> QED BY <1>7, <2>2, <2>3
<1>12. Elements'
  BY <1>4, <1>11, ElementsFrame DEF ItemInv
<1> QED BY <1>9, <1>10, <1>12 DEF ItemInv

\* A step of consumer c that leaves owners and tails as they are keeps the numbers.  If it has
\* an item in its hand then, it is the one of its index.
LEMMA ConNumbers ==
  ASSUME TypeOK, Placed, Numbered, InHand, NEW c \in Consumers, ConOnly(c),
         DOMAIN producers' = DOMAIN producers,
         \A p \in DOMAIN producers :
           producers'[p].owner = producers[p].owner /\ producers'[p].tail = producers[p].tail,
         con'[c].at \in {"empty", "clear", "free"} =>
           /\ con'[c].p = con[c].p /\ con'[c].i = con[c].i /\ con[c].p \in DOMAIN producers
           /\ con'[c].item = ItemAt(con[c].p, con[c].i)
  PROVE  Numbered' /\ InHand'
<1>1. thr' = thr /\ \A d \in Consumers \ {c} : con'[d] = con[d]
  BY DEF ConOnly
<1>2. Numbered'
  BY <1>1 DEF Numbered
<1>3. ASSUME NEW d \in Consumers, con'[d].at \in {"empty", "clear", "free"}
      PROVE  /\ con'[d].p = con[d].p /\ con'[d].i = con[d].i /\ con[d].p \in DOMAIN producers
             /\ con'[d].item = ItemAt(con[d].p, con[d].i)
  <2>1. CASE d = c
    BY <1>3, <2>1
  <2>2. CASE d # c
    <3>1. con'[d] = con[d] /\ con[d].at \in {"empty", "clear", "free"}
      BY <1>1, <1>3, <2>2
    <3>2. con[d].p \in DOMAIN producers
      BY <3>1 DEF Placed, PlacedAt, AtProducer
    <3> QED BY <3>1, <3>2 DEF InHand
  <2> QED BY <2>1, <2>2
<1>4. InHand'
  <2>1. \A p \in DOMAIN producers : producers'[p].owner = producers[p].owner
    OBVIOUS
  <2>2. ASSUME NEW d \in Consumers, con'[d].at \in {"empty", "clear", "free"}
        PROVE  con'[d].item = [from |-> producers'[con'[d].p].owner, no |-> con'[d].i + 1]
    <3>1. /\ con'[d].p = con[d].p /\ con'[d].i = con[d].i /\ con[d].p \in DOMAIN producers
          /\ con'[d].item = [from |-> producers[con[d].p].owner, no |-> con[d].i + 1]
      BY <1>3, <2>2 DEF ItemAt
    <3> QED BY <2>1, <3>1
  <2> QED BY <2>2 DEF InHand, ItemAt
<1> QED BY <1>2, <1>4

\* Where it takes no index either, the elements stay.
LEMMA ConElements ==
  ASSUME Elements, NEW c \in Consumers, ConOnly(c), DOMAIN producers' = DOMAIN producers,
         \A p \in DOMAIN producers :
           /\ producers'[p].owner = producers[p].owner /\ producers'[p].tail = producers[p].tail
           /\ producers'[p].head = producers[p].head /\ EntriesStay(p) /\ BlocksStay(p),
         con'[c].at \in Holding \ {"empty"} =>
           con[c].at \in Holding \ {"empty"} /\ con'[c].p = con[c].p /\ con'[c].i = con[c].i
  PROVE  Elements'
<1>1. thr' = thr /\ \A d \in Consumers \ {c} : con'[d] = con[d]
  BY DEF ConOnly
<1>2. \A d \in Consumers : con'[d].at \in Holding \ {"empty"} =>
        con[d].at \in Holding \ {"empty"} /\ con'[d].p = con[d].p /\ con'[d].i = con[d].i
  BY <1>1
<1>3. ASSUME NEW p \in DOMAIN producers PROVE \A i : Kept(p, i)' => Kept(p, i)
  <2>1. Doing(p)' = "publish" => Doing(p) = "publish"
    BY <1>1 DEF Doing
  <2> QED BY <1>2, <2>1, KeptFrame
<1> QED BY <1>3, ElementsFrame

\* A consumer that has no index in its hand leaves the items alone.
LEMMA LooksKeepItems ==
  ASSUME IInv, ItemInv, NEW c \in Consumers, LookStep(c)
  PROVE  ItemInv'
<1>0. TypeOK /\ Placed
  BY DEF IInv, CountInv
<1>1. /\ ConOnly(c) /\ UNCHANGED blocks /\ con'[c].at \in Aside
      /\ DOMAIN producers' = DOMAIN producers /\ \A p \in DOMAIN producers : Untouched(p)
  BY DEF LookStep
<1>2. ASSUME NEW p \in DOMAIN producers
      PROVE  /\ producers'[p].owner = producers[p].owner
             /\ producers'[p].tail = producers[p].tail
             /\ producers'[p].head = producers[p].head /\ EntriesStay(p) /\ BlocksStay(p)
  BY <1>1 DEF Untouched, EntriesStay, BlocksStay, Used, KeyOf, ValueOf
<1>3. con'[c].at \notin {"empty", "clear", "free"} /\ con'[c].at \notin Holding
  BY <1>1 DEF Aside, Holding
<1>4. Numbered' /\ InHand'
  BY <1>0, <1>1, <1>2, <1>3, ConNumbers DEF ItemInv
<1>5. Elements'
  BY <1>1, <1>2, <1>3, ConElements DEF ItemInv
<1> QED BY <1>4, <1>5 DEF ItemInv

\* So do its loads once it has one.
LEMMA LoadsKeepItems ==
  ASSUME IInv, ItemInv, NEW c \in team, loadIndex(c) \/ loadIndexTail(c) \/ loadKey(c)
  PROVE  ItemInv'
<1>0. TypeOK /\ Placed /\ IndexShape /\ Searches
  BY DEF IInv, CountInv, IndexInv
<1>1. /\ c \in Consumers /\ ConOnly(c) /\ UNCHANGED <<producers, blocks>>
      /\ con[c].at \in {"header", "tail", "key"} /\ con'[c].at \in {"tail", "key", "move"}
      /\ con'[c].p = con[c].p /\ con'[c].i = con[c].i
  <2>1. CASE loadIndex(c)
    BY <1>0, <2>1, LoadIndexStep
  <2>2. CASE loadIndexTail(c)
    BY <1>0, <2>2, LoadIndexTailStep
  <2>3. CASE loadKey(c)
    BY <1>0, <2>3, LoadKeyStep
  <2> QED BY <2>1, <2>2, <2>3
<1>2. \A p \in DOMAIN producers : EntriesStay(p) /\ BlocksStay(p)
  BY <1>1 DEF EntriesStay, BlocksStay, Used, KeyOf, ValueOf
<1>3. con[c].at \in Holding \ {"empty"} /\ con'[c].at \notin {"empty", "clear", "free"}
  BY <1>1 DEF Holding
<1>4. Numbered' /\ InHand'
  BY <1>0, <1>1, <1>3, ConNumbers DEF ItemInv
<1>5. Elements'
  BY <1>1, <1>2, <1>3, ConElements DEF ItemInv
<1> QED BY <1>4, <1>5 DEF ItemInv

\* An index that is taken was between head and tail, and is in a hand now.
LEMMA TakeKeepsItems ==
  ASSUME IInv, ItemInv, NEW c \in team, takeIndex(c),
             con[c].count - con[c].overcommit < from(c).tail
  PROVE  ItemInv'
<1>0. TypeOK /\ Placed
  BY DEF IInv, CountInv
<1>1. PICK p : p = con[c].p
  OBVIOUS
<1>2. PICK x : x = producers[p].head
  OBVIOUS
<1>3. /\ c \in Consumers /\ ConOnly(c) /\ UNCHANGED blocks /\ p \in DOMAIN producers
      /\ OnlyAt(p)
      /\ con'[c].at = "header" /\ con'[c].p = p /\ con'[c].i = x /\ con[c].at = "verify"
  BY <1>0, <1>1, <1>2, TakeIndexStep DEF from
<1>4. /\ producers'[p].owner = producers[p].owner /\ producers'[p].tail = producers[p].tail
      /\ producers'[p].head = x + 1 /\ producers'[p].entries = producers[p].entries
  BY <1>0, <1>1, <1>2, TakeIndexStep DEF from
<1>5. DOMAIN producers' = DOMAIN producers
          /\ \A q \in DOMAIN producers \ {p} : producers'[q] = producers[q]
  BY <1>3 DEF OnlyAt
<1>6. \A q \in DOMAIN producers :
        producers'[q].owner = producers[q].owner /\ producers'[q].tail = producers[q].tail
  BY <1>4, <1>5
<1>7. Numbered' /\ InHand'
  BY <1>0, <1>3, <1>5, <1>6, ConNumbers DEF ItemInv
<1>8. x \in Nat
  BY <1>0, <1>2, <1>3, ProducerTyped
<1>9. thr' = thr /\ \A d \in Consumers \ {c} : con'[d] = con[d]
  BY <1>3 DEF ConOnly
<1>10. ASSUME NEW q \in DOMAIN producers
       PROVE  /\ producers'[q].owner = producers[q].owner /\ EntriesStay(q) /\ BlocksStay(q)
              /\ \A i \in Int : Kept(q, i)' => Kept(q, i)
  <2>1. producers'[q].entries = producers[q].entries
    BY <1>4, <1>5
  <2>2. EntriesStay(q) /\ BlocksStay(q)
    BY <1>3, <2>1 DEF EntriesStay, BlocksStay, Used, KeyOf, ValueOf
  <2>3. ASSUME NEW i \in Int, Kept(q, i)' PROVE Kept(q, i)
    <3>1. i < producers[q].tail \/ (i = producers[q].tail /\ Doing(q) = "publish")
      BY <1>6, <1>9, <2>3 DEF Kept, Doing
    <3>2. \/ i >= producers'[q].head
          \/ \E d \in Consumers : con'[d].at \in Holding \ {"empty"} /\ con'[d].p = q
                 /\ con'[d].i = i
      BY <2>3 DEF Kept
    <3>3. CASE i >= producers'[q].head
      <4>1. i >= producers[q].head
        <5>1. CASE q = p
          BY <1>2, <1>4, <1>8, <3>3, <5>1
        <5>2. CASE q # p
          BY <1>5, <3>3, <5>2
        <5> QED BY <5>1, <5>2
      <4> QED BY <3>1, <4>1 DEF Kept
    <3>4. CASE \E d \in Consumers : con'[d].at \in Holding \ {"empty"} /\ con'[d].p = q
                   /\ con'[d].i = i
      <4>1. PICK d \in Consumers : con'[d].at \in Holding \ {"empty"} /\ con'[d].p = q
                /\ con'[d].i = i
        BY <3>4
      <4>2. CASE d = c
        <5>1. q = p /\ i = x
          BY <1>3, <4>1, <4>2
        <5>2. i >= producers[q].head
          BY <1>2, <1>8, <5>1
        <5> QED BY <3>1, <5>2 DEF Kept
      <4>3. CASE d # c
        BY <1>9, <3>1, <4>1, <4>3 DEF Kept
      <4> QED BY <4>2, <4>3
    <3> QED BY <3>2, <3>3, <3>4
  <2> QED BY <1>6, <2>2, <2>3
<1>11. Elements'
  BY <1>5, <1>10, ElementsFrame DEF ItemInv
<1> QED BY <1>7, <1>11 DEF ItemInv

\* What is moved out is the item of the index, and no one looks for it there again.
LEMMA MoveKeepsItems ==
  ASSUME IInv, ItemInv, NEW c \in team, moveElement(c)
  PROVE  ItemInv' /\ con'[c].item = ItemAt(con[c].p, con[c].i)
<1>0. TypeOK /\ Placed /\ CountInv /\ IndexInv /\ BlockInv /\ EntriesOwn /\ Hands
  BY DEF IInv, CountInv, BlockInv, Ownership
<1>1. PICK p : p = con[c].p
  OBVIOUS
<1>2. PICK x : x = con[c].i
  OBVIOUS
<1>3. PICK e : e = con[c].entry
  OBVIOUS
<1>4. PICK b : b = ValueOf(p, e)
  OBVIOUS
<1>5. c \in Consumers /\ con[c].at = "move"
  BY <1>0 DEF TypeOK, moveElement, ConAt
<1>6. /\ p \in DOMAIN producers /\ e \in Used(p) /\ KeyOf(p, e) = Base(x) /\ b \in DOMAIN blocks
  BY <1>0, <1>1, <1>2, <1>3, <1>4, <1>5, EntryFound
<1>7. entry(c).value = b
  BY <1>1, <1>3, <1>4 DEF entry, from, ValueOf
<1>8. /\ ConOnly(c) /\ UNCHANGED producers /\ con'[c].at = "empty" /\ con'[c].p = p
      /\ con'[c].i = x
  BY <1>0, <1>1, <1>2, <1>6, <1>7, MoveElementStep
<1>9. con'[c].item = blocks[b].elements[Slot(x)]
  BY <1>0, <1>2, <1>6, <1>7, MoveElementStep
<1>10. blocks'[b].elements = [blocks[b].elements EXCEPT ![Slot(x)] = NoItem]
  BY <1>0, <1>2, <1>6, <1>7, MoveElementStep
<1>11. \A d \in DOMAIN blocks \ {b} : blocks'[d] = blocks[d]
  BY <1>0, <1>6, <1>7, MoveElementStep
<1>12. con[c].at \in Holding \ {"empty"}
  BY <1>5 DEF Holding
<1>13. x \in Nat /\ x < producers[p].head
  BY <1>0, <1>1, <1>2, <1>5, <1>12, HeldEntry
<1>14. /\ Slot(x) \in 0 .. BlockSize - 1 /\ Base(x) \in Int /\ x = Base(x) + Slot(x)
       /\ Base(x) <= x /\ x < Base(x) + BlockSize
  BY <1>13, BaseOf
<1>15. producers[p].head <= producers[p].tail /\ producers[p].head \in Nat
           /\ producers[p].tail \in Nat
  BY <1>0, <1>6, ProducerTyped DEF CountInv, Counted, CountedAt
<1>16. con'[c].item = ItemAt(p, x)
  <2>1. x < producers[p].tail
    BY <1>13, <1>15
  <2>2. Kept(p, x)
    BY <1>1, <1>2, <1>5, <1>12, <2>1 DEF Kept
  <2>3. ElementsAt(p)
    BY <1>6 DEF ItemInv, Elements
  <2>4. x \in Base(x) .. Base(x) + BlockSize - 1
    BY <1>13, <1>14, QueueConstants
  <2>5. blocks[b].elements[x - Base(x)] = ItemAt(p, x)
    BY <1>4, <1>6, <2>2, <2>3, <2>4 DEF ElementsAt
  <2>6. x - Base(x) = Slot(x)
    <3>1. PICK r \in Int : r = Slot(x)
      BY <1>14
    <3> QED BY <1>13, <1>14, <3>1
  <2> QED BY <1>9, <2>5, <2>6
<1>17. Numbered' /\ InHand'
  <2>1. con'[c].at \in {"empty", "clear", "free"} =>
           /\ con'[c].p = con[c].p /\ con'[c].i = con[c].i /\ con[c].p \in DOMAIN producers
           /\ con'[c].item = ItemAt(con[c].p, con[c].i)
    BY <1>1, <1>2, <1>6, <1>8, <1>16
  <2> QED BY <1>0, <1>5, <1>8, <2>1, ConNumbers DEF ItemInv
<1>18. thr' = thr /\ \A d \in Consumers \ {c} : con'[d] = con[d]
  BY <1>8 DEF ConOnly
<1>19. ASSUME NEW q \in DOMAIN producers, NEW i, Kept(q, i)'
       PROVE  Kept(q, i) /\ ~ (q = p /\ i = x)
  <2>1. \A d \in Consumers : con'[d].at \in Holding \ {"empty"} => d # c /\ con'[d] = con[d]
    BY <1>8, <1>18
  <2>2. Kept(q, i)
    <3>1. Doing(q)' = "publish" => Doing(q) = "publish"
      BY <1>8, <1>18 DEF Doing
    <3>2. \A j : Kept(q, j)' => Kept(q, j)
      BY <1>8, <2>1, <3>1, KeptFrame
    <3> QED BY <1>19, <3>2
  <2>3. ASSUME q = p, i = x PROVE FALSE
    <3>1. ~ (x >= producers'[p].head)
      BY <1>8, <1>13, <1>15
    <3>2. PICK d \in Consumers : con'[d].at \in Holding \ {"empty"} /\ con'[d].p = p
              /\ con'[d].i = x
      BY <1>19, <2>3, <3>1 DEF Kept
    <3>3. d # c /\ con[d].at \in Holding /\ con[d].p = p /\ con[d].i = x
      BY <2>1, <3>2
    <3>4. HandAt(c)
      BY <1>0, <1>5 DEF Hands
    <3> QED BY <1>1, <1>2, <1>12, <3>3, <3>4 DEF HandAt
  <2> QED BY <2>2, <2>3
<1>20. blocks[b].elements \in [0 .. BlockSize - 1 -> Items]
  <2>1. blocks[b] \in Blocks
    BY <1>0, <1>6 DEF TypeOK
  <2> QED BY <2>1 DEF Blocks
<1>21. ASSUME NEW q \in DOMAIN producers, NEW f \in Used(q),
              NEW i \in KeyOf(q, f) .. KeyOf(q, f) + BlockSize - 1, Kept(q, i)'
       PROVE  blocks'[ValueOf(q, f)].elements[i - KeyOf(q, f)] = ItemAt(q, i)
  <2>1. f \in DOMAIN producers[q].entries
    BY DEF Used
  <2>2. PICK k \in Int : k = KeyOf(q, f)
    BY <1>0, <2>1, EntryTyped
  <2>3. i \in Int /\ k <= i /\ i < k + BlockSize /\ BlockSize \in Nat
    BY <2>2, QueueConstants
  <2>4. blocks[ValueOf(q, f)].elements[i - k] = ItemAt(q, i) /\ ~ (q = p /\ i = x)
    <3>1. ElementsAt(q)
      BY DEF ItemInv, Elements
    <3> QED BY <1>19, <1>21, <2>2, <3>1 DEF ElementsAt
  <2>5. ValueOf(q, f) \in DOMAIN blocks
    BY <1>0 DEF EntriesOwn, InUse
  <2>6. CASE ValueOf(q, f) = b
    <3>1. q = p /\ f = e
      BY <1>0, <1>4, <1>6, <2>6 DEF EntriesOwn
    <3>2. k = Base(x) /\ i # x
      BY <1>6, <2>2, <2>4, <3>1
    <3>3. i - k # Slot(x) /\ i - k \in 0 .. BlockSize - 1
      <4>1. PICK r \in Int : r = Slot(x)
        BY <1>14
      <4>2. x = k + r /\ x \in Int
        BY <1>13, <1>14, <3>2, <4>1
      <4> QED BY <2>2, <2>3, <3>2, <4>1, <4>2
    <3>4. blocks'[b].elements[i - k] = blocks[b].elements[i - k]
      BY <1>10, <1>20, <3>3
    <3> QED BY <2>2, <2>4, <2>6, <3>4
  <2>7. CASE ValueOf(q, f) # b
    BY <1>11, <2>2, <2>4, <2>5, <2>7
  <2> QED BY <2>6, <2>7
<1>22. Elements'
  <2>1. producers' = producers
    BY <1>8
  <2>2. ASSUME NEW q \in DOMAIN producers'
        PROVE  ElementsAt(q)'
    <3>1. q \in DOMAIN producers /\ Used(q)' = Used(q)
      BY <2>1 DEF Used
    <3>2. ASSUME NEW f \in Used(q), NEW i \in KeyOf(q, f) .. KeyOf(q, f) + BlockSize - 1,
                     Kept(q, i)'
          PROVE  blocks'[ValueOf(q, f)].elements[i - KeyOf(q, f)] = ItemAt(q, i)
      BY <1>21, <3>1, <3>2
    <3> QED BY <2>1, <3>1, <3>2 DEF ElementsAt, KeyOf, ValueOf, ItemAt
  <2> QED BY <2>2 DEF Elements
<1> QED BY <1>1, <1>2, <1>16, <1>17, <1>22 DEF ItemInv

\* A consumer that leaves a block returns, or goes on with the item it has to free the block.
Leaves(c) ==
  \/ con'[c] = AtRest
  \/ /\ con'[c].at \in {"clear", "free"} /\ con'[c].p = con[c].p /\ con'[c].i = con[c].i
     /\ con'[c].item = con[c].item /\ con'[c].saw = con[c].saw

\* set_empty and what frees the block are such steps, and change no counter or element.
LEMMA LeavingSteps ==
  ASSUME IInv, NEW c \in team, set_empty(c) \/ clearEntry(c) \/ freeBlock(c)
  PROVE  /\ c \in Consumers /\ con[c].at \in {"empty", "clear", "free"}
         /\ con[c].p \in DOMAIN producers
         /\ ConOnly(c) /\ Leaves(c) /\ DOMAIN producers' = DOMAIN producers
         /\ \A p \in DOMAIN producers : CountersStay(p) /\ EntriesStay(p) /\ BlocksStay(p)
<1>0. /\ TypeOK /\ Placed /\ CountInv /\ IndexInv /\ BlockInv /\ Searches /\ IndexShape
      /\ EntriesOwn
  BY DEF IInv, CountInv, IndexInv, BlockInv, Ownership
<1>1. CASE set_empty(c)
  <2>1. c \in Consumers /\ con[c].at = "empty"
    BY <1>0, <1>1 DEF TypeOK, set_empty, ConAt
  <2>2. PICK p : p = con[c].p
    OBVIOUS
  <2>3. PICK e : e = con[c].entry
    OBVIOUS
  <2>4. con[c].b \in DOMAIN blocks
    BY <1>0, <2>1, <2>2, <2>3, EntryFound
  <2>5. /\ ConOnly(c) /\ UNCHANGED producers /\ con[c].p \in DOMAIN producers /\ Leaves(c)
        /\ \A b \in DOMAIN blocks \ {con[c].b} : blocks'[b] = blocks[b]
        /\ blocks'[con[c].b].elements = blocks[con[c].b].elements
    <3>1. CASE blocks[con[c].b].dequeued = BlockSize - 1
      <4>1. ConOnly(c) /\ UNCHANGED producers /\ con[c].p \in DOMAIN producers
        BY <1>0, <1>1, <2>4, <3>1, LastToLeaveStep
      <4>2. /\ con'[c].at = "clear" /\ con'[c].p = con[c].p /\ con'[c].i = con[c].i
            /\ con'[c].item = con[c].item /\ con'[c].saw = con[c].saw
        BY <1>0, <1>1, <2>4, <3>1, LastToLeaveStep
      <4>3. /\ \A b \in DOMAIN blocks \ {con[c].b} : blocks'[b] = blocks[b]
            /\ blocks'[con[c].b].elements = blocks[con[c].b].elements
        BY <1>0, <1>1, <2>4, <3>1, LastToLeaveStep
      <4> QED BY <4>1, <4>2, <4>3 DEF Leaves
    <3>2. CASE blocks[con[c].b].dequeued # BlockSize - 1
      BY <1>0, <1>1, <2>4, <3>2, LeaveBlockStep DEF Leaves
    <3> QED BY <3>1, <3>2
  <2>6. ASSUME NEW b \in DOMAIN blocks PROVE blocks'[b].elements = blocks[b].elements
    BY <2>5
  <2>7. \A q \in DOMAIN producers : \A f \in Used(q) : ValueOf(q, f) \in DOMAIN blocks
    BY <1>0 DEF EntriesOwn, InUse
  <2>8. \A q \in DOMAIN producers : CountersStay(q) /\ EntriesStay(q) /\ BlocksStay(q)
    BY <2>5, <2>6, <2>7 DEF CountersStay, EntriesStay, BlocksStay, Used, KeyOf, ValueOf
  <2> QED BY <2>1, <2>5, <2>8
<1>2. CASE clearEntry(c)
  <2>1. /\ c \in Consumers /\ ConOnly(c) /\ UNCHANGED blocks /\ con[c].at = "clear"
        /\ con[c].p \in DOMAIN producers /\ con[c].entry \in DOMAIN from(c).entries
        /\ OnlyAt(con[c].p)
    BY <1>0, <1>2, ClearEntryStep
  <2>2. /\ con'[c].at = "free" /\ con'[c].p = con[c].p /\ con'[c].i = con[c].i
        /\ con'[c].item = con[c].item /\ con'[c].saw = con[c].saw
    BY <1>0, <1>2, ClearEntryStep
  <2>3. /\ producers'[con[c].p].owner = from(c).owner
        /\ producers'[con[c].p].tail = from(c).tail
        /\ producers'[con[c].p].head = from(c).head
        /\ producers'[con[c].p].overcommit = from(c).overcommit
    BY <1>0, <1>2, ClearEntryStep
  <2>4. /\ DOMAIN producers'[con[c].p].entries = DOMAIN from(c).entries
        /\ producers'[con[c].p].entries[con[c].entry].value = NoBlock
        /\ \A e \in DOMAIN from(c).entries \ {con[c].entry} :
             producers'[con[c].p].entries[e] = from(c).entries[e]
    BY <1>0, <1>2, ClearEntryStep
  <2>5. PICK p : p = con[c].p
    OBVIOUS
  <2>6. EntriesStay(p) /\ CountersStay(p)
    <3>1. CountersStay(p)
      BY <2>3, <2>5 DEF CountersStay, from
    <3>2. ASSUME NEW f \in Used(p)'
          PROVE  f \in Used(p) /\ KeyOf(p, f)' = KeyOf(p, f) /\ ValueOf(p, f)' = ValueOf(p, f)
      <4>1. f \in DOMAIN producers[p].entries
                /\ producers'[p].entries[f] = producers[p].entries[f]
            /\ producers'[p].entries[f].value # NoBlock
        BY <2>4, <2>5, <3>2 DEF Used, from
      <4> QED BY <4>1 DEF Used, KeyOf, ValueOf
    <3> QED BY <3>1, <3>2 DEF EntriesStay
  <2>7. ASSUME NEW q \in DOMAIN producers
        PROVE CountersStay(q) /\ EntriesStay(q) /\ BlocksStay(q)
    <3>1. CASE q = p
      BY <2>1, <2>6, <3>1 DEF BlocksStay
    <3>2. CASE q # p
      <4>1. producers'[q] = producers[q]
        BY <2>1, <2>5, <3>2 DEF OnlyAt
      <4> QED BY <2>1, <4>1 DEF CountersStay, EntriesStay, BlocksStay, Used, KeyOf, ValueOf
    <3> QED BY <3>1, <3>2
  <2>8. DOMAIN producers' = DOMAIN producers
    BY <2>1 DEF OnlyAt
  <2> QED BY <2>1, <2>2, <2>7, <2>8 DEF Leaves
<1>3. CASE freeBlock(c)
  <2>1. /\ c \in Consumers /\ ConOnly(c) /\ UNCHANGED <<producers, blocks>>
        /\ con[c].at = "free"
        /\ con[c].p \in DOMAIN producers /\ con'[c] = AtRest
    BY <1>0, <1>3, FreeBlockStep
  <2>2. \A q \in DOMAIN producers : CountersStay(q) /\ EntriesStay(q) /\ BlocksStay(q)
    BY <2>1 DEF CountersStay, EntriesStay, BlocksStay, Used, KeyOf, ValueOf
  <2> QED BY <2>1, <2>2 DEF Leaves
<1> QED BY <1>1, <1>2, <1>3

\* They keep the items.
LEMMA LeavesKeepItems ==
  ASSUME IInv, ItemInv, NEW c \in team, set_empty(c) \/ clearEntry(c) \/ freeBlock(c)
  PROVE  ItemInv'
<1>0. TypeOK /\ Placed
  BY DEF IInv, CountInv
<1>1. /\ c \in Consumers /\ con[c].at \in {"empty", "clear", "free"}
      /\ con[c].p \in DOMAIN producers
      /\ ConOnly(c) /\ Leaves(c) /\ DOMAIN producers' = DOMAIN producers
      /\ \A p \in DOMAIN producers : CountersStay(p) /\ EntriesStay(p) /\ BlocksStay(p)
  BY LeavingSteps
<1>2. con[c].item = ItemAt(con[c].p, con[c].i)
  BY <1>1 DEF ItemInv, InHand
<1>3. con'[c].at \in {"empty", "clear", "free"} =>
        con'[c].p = con[c].p /\ con'[c].i = con[c].i /\ con'[c].item = con[c].item
  BY <1>1, RestFields DEF Leaves
<1>4. con'[c].at \notin Holding \ {"empty"}
  BY <1>1, RestFields DEF Leaves, Holding
<1>5. \A p \in DOMAIN producers :
        /\ producers'[p].owner = producers[p].owner /\ producers'[p].tail = producers[p].tail
        /\ producers'[p].head = producers[p].head
  BY <1>1 DEF CountersStay
<1>6. Numbered' /\ InHand'
  BY <1>0, <1>1, <1>2, <1>3, <1>5, ConNumbers DEF ItemInv
<1>7. Elements'
  BY <1>1, <1>4, <1>5, ConElements DEF ItemInv
<1> QED BY <1>6, <1>7 DEF ItemInv

\* So do all steps of a thread.
LEMMA ThreadItems ==
  ASSUME IInv, IInv', ItemInv, NEW t \in Threads,
         \/ enqueue(t) \/ getProducer(t) \/ fillBlock(t) \/ noIndex(t)
         \/ insert_block_index_entry(t) \/ new_block_index(t) \/ setIndexTail(t)
         \/ requisition_block(t) \/ requisitionFails(t) \/ storeBlock(t)
         \/ writeElement(t) \/ storeTail(t)
  PROVE  ItemInv'
BY ThreadIdles, IdlesItems, StoreKeepsItems, WriteKeepsItems, StoreTailKeepsItems

\* A consumer that looks for an index has none in its hand.
LEMMA LookSteps ==
  ASSUME IInv, NEW c \in team,
         \/ try_dequeue(c) \/ loadSizeTail(c) \/ loadSizeHead(c) \/ tryBest(c)
         \/ loadTail(c) \/ loadOptimistic(c) \/ claim(c) \/ giveBack(c)
         \/ takeIndex(c) /\ ~ (con[c].count - con[c].overcommit < from(c).tail)
  PROVE  LookStep(c)
<1>1. TypeOK /\ CountInv /\ HashInv
  BY DEF IInv
<1> QED BY <1>1, Looking, Counting

\* All that a consumer does keeps the items.
LEMMA ConsumerItems ==
  ASSUME IInv, ItemInv, NEW c \in team,
         \/ try_dequeue(c) \/ loadSizeTail(c) \/ loadSizeHead(c) \/ tryBest(c)
         \/ loadTail(c) \/ loadOptimistic(c) \/ claim(c) \/ takeIndex(c) \/ giveBack(c)
         \/ loadIndex(c) \/ loadIndexTail(c) \/ loadKey(c) \/ moveElement(c)
         \/ set_empty(c) \/ clearEntry(c) \/ freeBlock(c)
  PROVE  ItemInv'
<1>1. ASSUME LookStep(c) PROVE ItemInv'
  <2>1. c \in Consumers
    BY DEF IInv, TypeOK
  <2> QED BY <1>1, <2>1, LooksKeepItems
<1>2. CASE \/ try_dequeue(c) \/ loadSizeTail(c) \/ loadSizeHead(c) \/ tryBest(c)
           \/ loadTail(c) \/ loadOptimistic(c) \/ claim(c) \/ giveBack(c)
  BY <1>1, <1>2, LookSteps
<1>3. CASE takeIndex(c)
  <2>1. CASE con[c].count - con[c].overcommit < from(c).tail
    BY <1>3, <2>1, TakeKeepsItems
  <2>2. CASE ~ (con[c].count - con[c].overcommit < from(c).tail)
    BY <1>1, <1>3, <2>2, LookSteps
  <2> QED BY <2>1, <2>2
<1>4. CASE loadIndex(c) \/ loadIndexTail(c) \/ loadKey(c)
  BY <1>4, LoadsKeepItems
<1>5. CASE moveElement(c)
  BY <1>5, MoveKeepsItems
<1>6. CASE set_empty(c) \/ clearEntry(c) \/ freeBlock(c)
  BY <1>6, LeavesKeepItems
<1> QED BY <1>2, <1>3, <1>4, <1>5, <1>6
-----------------------------------------------------------------------------
(* A consumer that is alone finds what was there when it asked.            *)

\* The steps of a thread that publish no item.
LEMMA ThreadUnsent ==
  ASSUME IInv, NEW t \in Threads,
         \/ enqueue(t) \/ getProducer(t) \/ fillBlock(t) \/ noIndex(t)
         \/ insert_block_index_entry(t) \/ new_block_index(t) \/ setIndexTail(t)
         \/ requisition_block(t) \/ requisitionFails(t) \/ storeBlock(t) \/ writeElement(t)
  PROVE  Unsent(t)
<1>0. TypeOK /\ ThreadsSound /\ HashInv /\ CountInv /\ IndexInv /\ BlockInv /\ IndexShape
  BY DEF IInv, HashInv, IndexInv
<1>1. PICK p : p = thr[t].producer
  OBVIOUS
<1>2. ASSUME storeBlock(t) PROVE Unsent(t)
  <2>1. ThrOnly(t) /\ thr'[t].sent = thr[t].sent /\ p \in DOMAIN producers /\ OnlyAt(p)
    BY <1>0, <1>1, <1>2, StoreBlockStep
  <2>2. CountersStay(p)
    BY <1>0, <1>1, <1>2, StoreBlockStep DEF CountersStay
  <2>3. ASSUME NEW q \in DOMAIN producers PROVE CountersStay(q)
    <3>1. q # p => producers'[q] = producers[q]
      BY <2>1 DEF OnlyAt
    <3> QED BY <2>2, <3>1 DEF CountersStay
  <2> QED BY <2>1, <2>3 DEF Unsent, OnlyAt
<1>3. ASSUME writeElement(t) PROVE Unsent(t)
  <2>1. PICK b : b = producers[p].tailBlock
    OBVIOUS
  <2>2. p \in DOMAIN producers /\ Doing(p) = "write"
    <3>1. thr[t].at = "write"
      BY <1>3 DEF writeElement, ThrAt
    <3>2. p \in DOMAIN producers /\ producers[p].owner = t
      BY <1>0, <1>1, <3>1 DEF ThreadsSound, ThreadSound, Enqueueing
    <3> QED BY <3>1, <3>2 DEF Doing
  <2>3. b \in DOMAIN blocks
    BY <1>0, <2>1, <2>2, OpenBlock
  <2>4. ThrOnly(t) /\ UNCHANGED producers /\ thr'[t].sent = thr[t].sent
    BY <1>0, <1>1, <1>3, <2>1, <2>3, WriteElementStep
  <2> QED BY <2>4 DEF Unsent, CountersStay
<1>4. ASSUME Idles(t) PROVE Unsent(t)
  BY <1>4 DEF Idles
<1> QED BY <1>2, <1>3, <1>4, ThreadIdles

\* The step that publishes the item at the tail of producer p.
Publishes(t, p) ==
  /\ ThrOnly(t) /\ p \in DOMAIN producers /\ producers[p].owner = t /\ OnlyAt(p)
  /\ thr'[t].sent = thr[t].sent + 1
  /\ producers'[p].owner = t /\ producers'[p].head = producers[p].head
  /\ producers'[p].overcommit = producers[p].overcommit
  /\ producers'[p].tail = producers[p].tail + 1

\* Only the store to the tail at the end of enqueue is that step.
LEMMA StoreTailPublishes ==
  ASSUME IInv, NEW t \in Threads, storeTail(t)
  PROVE  \E p \in DOMAIN producers : Publishes(t, p)
<1>0. TypeOK /\ ThreadsSound
  BY DEF IInv, HashInv
<1>1. PICK p : p = thr[t].producer
  OBVIOUS
<1>2. /\ ThrOnly(t) /\ p \in DOMAIN producers /\ producers[p].owner = t
      /\ thr'[t].sent = thr[t].sent + 1
  BY <1>0, <1>1, StoreTailStep
<1>3. /\ OnlyAt(p) /\ producers'[p].owner = producers[p].owner
      /\ producers'[p].head = producers[p].head
      /\ producers'[p].overcommit = producers[p].overcommit
      /\ producers'[p].tail = producers[p].tail + 1
  BY <1>0, <1>1, StoreTailStep
<1> QED BY <1>2, <1>3 DEF Publishes

\* To what there is, threads only add.
Adds ==
  /\ UNCHANGED <<team, con>>
  /\ \A p \in DOMAIN producers :
       /\ p \in DOMAIN producers' /\ producers'[p].head = producers[p].head
       /\ producers'[p].overcommit = producers[p].overcommit
       /\ producers'[p].tail \in Nat /\ producers'[p].tail >= producers[p].tail

\* Nothing a thread does takes away what a consumer has seen to be there.
LEMMA ThreadAdds ==
  ASSUME IInv, NEW t \in Threads,
         \/ enqueue(t) \/ getProducer(t) \/ fillBlock(t) \/ noIndex(t)
         \/ insert_block_index_entry(t) \/ new_block_index(t) \/ setIndexTail(t)
         \/ requisition_block(t) \/ requisitionFails(t) \/ storeBlock(t)
         \/ writeElement(t) \/ storeTail(t)
  PROVE  Adds
<1>0. TypeOK
  BY DEF IInv
<1>1. \A q \in DOMAIN producers : producers[q].tail \in Nat
  BY <1>0, ProducerTyped
<1>2. ASSUME Unsent(t) PROVE Adds
  BY <1>1, <1>2 DEF Unsent, CountersStay, ThrOnly, Adds
<1>3. CASE storeTail(t)
  <2>1. PICK p \in DOMAIN producers : Publishes(t, p)
    BY <1>3, StoreTailPublishes
  <2>2. ASSUME NEW q \in DOMAIN producers
        PROVE  /\ q \in DOMAIN producers' /\ producers'[q].head = producers[q].head
               /\ producers'[q].overcommit = producers[q].overcommit
               /\ producers'[q].tail \in Nat /\ producers'[q].tail >= producers[q].tail
    <3>1. CASE q = p
      BY <1>1, <2>1, <3>1 DEF Publishes, OnlyAt
    <3>2. CASE q # p
      BY <1>1, <2>1, <3>2 DEF Publishes, OnlyAt
    <3> QED BY <3>1, <3>2
  <2> QED BY <2>1, <2>2 DEF Adds, Publishes, ThrOnly
<1> QED BY <1>2, <1>3, ThreadUnsent

\* So a consumer that is alone still finds what it has found.
LEMMA AddsKeepLone ==
  ASSUME TypeOK, Placed, Lone, Adds
  PROVE  Lone'
<1>1. ASSUME NEW c \in Consumers, team' = {c} PROVE LoneAt(c)'
  <2>1. LoneAt(c) /\ con' = con /\ PlacedAt(c)
    BY <1>1 DEF Lone, Adds, Placed
  <2>2. DOMAIN producers = 1 .. Len(producers) /\ Len(producers) \in Nat
    BY DEF TypeOK
  <2>3. con[c].p \in Nat /\ con[c].best \in Nat /\ con[c].n \in Nat /\ con[c].tail \in Nat
    BY DEF TypeOK, ConsumerType
  <2>4. \A q \in DOMAIN producers :
          /\ producers[q].tail \in Nat /\ producers[q].head \in Nat
          /\ producers'[q].tail \in Int /\ producers'[q].tail >= producers[q].tail
          /\ producers'[q].head = producers[q].head
          /\ producers'[q].overcommit = producers[q].overcommit
    <3>1. ASSUME NEW q \in DOMAIN producers
          PROVE  producers[q].tail \in Nat /\ producers[q].head \in Nat
      BY ProducerTyped
    <3> QED BY <3>1 DEF Adds
  <2>5. \A q \in DOMAIN producers : Some(q) => Some(q)'
    BY <2>4 DEF Some
  <2>6. con[c].at \in {"look", "size"} /\ con[c].n > 0 => Some(con[c].best)'
    BY <2>1, <2>2, <2>3, <2>5 DEF LoneAt, PlacedAt
  <2>7. con[c].at \in {"size", "dequeue", "check", "claim", "verify"} =>
            con[c].p \in DOMAIN producers
    BY <2>1 DEF PlacedAt, AtProducer
  <2>8. con[c].at = "size" => con[c].tail <= producers'[con[c].p].tail
    BY <2>1, <2>3, <2>4, <2>7 DEF LoneAt
  <2>9. ASSUME con[c].saw = "some", con[c].at = "look"
        PROVE con[c].n > 0 \/ \E q \in 1 .. con[c].p : Some(q)'
    <3>1. \A q \in 1 .. con[c].p : q \in DOMAIN producers
      BY <2>1, <2>2, <2>3, <2>9 DEF PlacedAt
    <3> QED BY <2>1, <2>5, <2>9, <3>1 DEF LoneAt
  <2>10. ASSUME con[c].saw = "some", con[c].at = "size"
         PROVE  \/ con[c].n > 0 \/ \E q \in 1 .. con[c].p - 1 : Some(q)'
                \/ con[c].tail > producers'[con[c].p].head
    <3>1. \A q \in 1 .. con[c].p - 1 : q \in DOMAIN producers
      BY <2>1, <2>2, <2>3, <2>10 DEF PlacedAt
    <3>2. \/ con[c].n > 0 \/ \E q \in 1 .. con[c].p - 1 : Some(q)
          \/ con[c].tail > producers[con[c].p].head
      BY <2>1, <2>10 DEF LoneAt
    <3>3. producers'[con[c].p].head = producers[con[c].p].head
      BY <2>4, <2>7, <2>10
    <3> QED BY <2>5, <3>1, <3>2, <3>3
  <2>11. con[c].saw = "some" /\ con[c].at = "dequeue" => Some(con[c].p)'
    BY <2>1, <2>5, <2>7 DEF LoneAt
  <2>12. ASSUME con[c].saw = "some", con[c].at \in {"check", "claim", "verify"}
         PROVE  /\ con[c].tail > producers'[con[c].p].head
                /\ con[c].tail <= producers'[con[c].p].tail
                /\ con[c].overcommit = producers'[con[c].p].overcommit
                /\ con[c].at = "verify" =>
                     con[c].count = producers'[con[c].p].head + producers'[con[c].p].overcommit
    <3>1. PICK p \in DOMAIN producers : p = con[c].p
      BY <2>7, <2>12
    <3>2. /\ con[c].tail > producers[p].head /\ con[c].tail <= producers[p].tail
          /\ con[c].overcommit = producers[p].overcommit
          /\ con[c].at = "verify" => con[c].count = producers[p].head + producers[p].overcommit
      BY <2>1, <2>12, <3>1 DEF LoneAt
    <3> QED BY <2>3, <2>4, <3>1, <3>2
  <2>13. con[c].saw = "some" => con[c].at # "giveBack"
    BY <2>1 DEF LoneAt
  <2> QED BY <2>1, <2>6, <2>8, <2>9, <2>10, <2>11, <2>12, <2>13 DEF LoneAt
<1> QED BY <1>1 DEF Lone

\* Where a consumer is alone, no claims are made but its own.
LEMMA OwnClaims ==
  ASSUME IInv, NEW c \in Consumers, team = {c}, con[c].at \notin {"verify", "giveBack"},
         NEW p \in DOMAIN producers
  PROVE  producers[p].optimistic = producers[p].head + producers[p].overcommit
<1>1. \A d \in Consumers : con[d].at \notin {"verify", "giveBack"}
  BY DEF IInv, CountInv, Placed, PlacedAt
<1>2. Verifying(p) = {} /\ Returning(p) = {}
  BY <1>1 DEF Verifying, Returning
<1>3. CountedAt(p) /\ TypeOK
  BY DEF IInv, CountInv, Counted
<1>4. Cardinality({}) = 0
  BY FS_EmptySet
<1>5. /\ producers[p].optimistic \in Nat /\ producers[p].head \in Nat
      /\ producers[p].overcommit \in Nat
  BY <1>3, ProducerTyped
<1>6. producers[p].optimistic = producers[p].head + producers[p].overcommit + 0 + 0
  BY <1>2, <1>3, <1>4 DEF CountedAt
<1> QED BY <1>5, <1>6

\* A step of a consumer that is alone: what is said of it stays true, and it is not told that
\* all is empty if there was something when it asked.
Told(c) == LoneAt(c)'
    /\ (con'[c].at = "idle" /\ con[c].at \in Aside \ {"idle"} => con[c].saw # "some")
\* At the labels where nothing is said this is so.
LEMMA NothingSaid ==
  ASSUME NEW c, con'[c].at \notin {"look", "size"},
         \/ con'[c].saw # "some"
         \/ con'[c].at \notin {"dequeue", "check", "claim", "verify", "giveBack"}
  PROVE  LoneAt(c)'
BY DEF LoneAt

\* The consumer asks.
LEMMA AskTold ==
  ASSUME IInv, NEW c \in team, team = {c}, try_dequeue(c)
  PROVE  Told(c)
<1>0. TypeOK /\ Placed /\ Counted
  BY DEF IInv, CountInv
<1>1. /\ con[c].at = "idle" /\ con'[c].at = "look" /\ con'[c].p = Len(producers)
      /\ con'[c].n = 0
      /\ con'[c].saw = (IF \A i \in DOMAIN producers : producers[i].head = producers[i].tail
           THEN "empty" ELSE "some")
      /\ UNCHANGED producers
  BY <1>0, TryDequeueStep
<1>2. ASSUME con'[c].saw = "some" PROVE \E q \in 1 .. Len(producers) : Some(q)'
  <2>1. PICK q \in DOMAIN producers : producers[q].head # producers[q].tail
    BY <1>1, <1>2
  <2>2. producers[q].head <= producers[q].tail
    BY <1>0 DEF Counted, CountedAt
  <2>3. producers[q].head \in Nat /\ producers[q].tail \in Nat
    BY <1>0, ProducerTyped
  <2>4. Some(q)'
    BY <1>1, <2>1, <2>2, <2>3 DEF Some
  <2>5. q \in 1 .. Len(producers)
    BY <1>0 DEF TypeOK
  <2> QED BY <2>4, <2>5
<1>3. ~ (con'[c].n > 0)
  BY <1>1
<1> QED BY <1>1, <1>2, <1>3 DEF Told, LoneAt, Aside

\* It reads the tail of a producer and keeps it (size_approx, the tail is read first).
LEMMA SizeTailTold ==
  ASSUME IInv, NEW c \in team, team = {c}, LoneAt(c), loadSizeTail(c)
  PROVE  Told(c)
<1>0. TypeOK /\ Placed /\ c \in Consumers
  BY DEF IInv, CountInv, TypeOK
<1>1. PICK p : p = con[c].p
  OBVIOUS
<1>2. /\ con[c].at = "look" /\ p \in DOMAIN producers
      /\ con'[c].at = "size" /\ con'[c].tail = producers[p].tail
      /\ con'[c].saw = con[c].saw /\ con'[c].p = p /\ con'[c].n = con[c].n
      /\ con'[c].best = con[c].best /\ UNCHANGED producers
  BY <1>0, <1>1, LoadSizeTailStep DEF from
<1>3. producers[p].head \in Nat /\ producers[p].tail \in Nat /\ p \in Nat
  <2>1. producers[p].head \in Nat /\ producers[p].tail \in Nat
    BY <1>0, <1>2, ProducerTyped
  <2> QED BY <1>0, <1>2, <2>1 DEF TypeOK
<1>4. \A q : Some(q)' <=> Some(q)
  BY <1>2 DEF Some
<1>5. con'[c].n > 0 => producers'[con'[c].best].head < producers'[con'[c].best].tail
  BY <1>2 DEF LoneAt, Some
<1>6. ASSUME con'[c].saw = "some"
      PROVE  con'[c].n > 0 \/ (\E q \in 1 .. p - 1 : Some(q)')
                 \/ con'[c].tail > producers'[p].head
  <2>1. con[c].n > 0 \/ \E q \in 1 .. p : Some(q)
    BY <1>1, <1>2, <1>6 DEF LoneAt
  <2>2. ASSUME NEW q \in 1 .. p, Some(q)
        PROVE q \in 1 .. p - 1 \/ producers[p].tail > producers[p].head
    <3>1. CASE q = p
      BY <1>3, <2>2, <3>1 DEF Some
    <3>2. CASE q # p
      BY <1>3, <3>2
    <3> QED BY <3>1, <3>2
  <2> QED BY <1>2, <1>4, <2>1, <2>2
<1>7. con'[c].tail <= producers'[p].tail
  BY <1>2, <1>3
<1> QED BY <1>2, <1>5, <1>6, <1>7 DEF Told, LoneAt, Some

\* Nor does it pass over a producer whose size it computes from head and tail (size_approx).
LEMMA SizeHeadTold ==
  ASSUME IInv, NEW c \in team, team = {c}, LoneAt(c), loadSizeHead(c)
  PROVE  Told(c)
<1>0. TypeOK /\ Placed /\ c \in Consumers
  BY DEF IInv, CountInv, TypeOK
<1>1. PICK p : p = con[c].p
  OBVIOUS
<1>2. con[c].n \in Nat /\ con[c].size \in Nat /\ con[c].tail \in Nat
  BY <1>0 DEF TypeOK, ConsumerType
<1>3. PICK z \in Int : z = con[c].tail - producers[p].head
  <2>1. p \in DOMAIN producers
    BY <1>0, <1>1, LoadSizeHeadStep
  <2>2. producers[p].head \in Nat
    BY <1>0, <2>1, ProducerTyped
  <2> QED BY <1>2, <2>2
<1>4. /\ con[c].at = "size" /\ p \in DOMAIN producers /\ UNCHANGED producers
      /\ con'[c].at = "look" /\ con'[c].p = p - 1 /\ con'[c].saw = con[c].saw
  BY <1>0, <1>1, LoadSizeHeadStep
<1>5. /\ con'[c].n = (IF z > 0 THEN con[c].n + 1 ELSE con[c].n)
      /\ con'[c].best = (IF z > con[c].size THEN p ELSE con[c].best)
  BY <1>0, <1>1, <1>3, LoadSizeHeadStep DEF from
<1>6. producers[p].head \in Nat /\ producers[p].tail \in Nat /\ p \in Nat
  <2>1. producers[p].head \in Nat /\ producers[p].tail \in Nat
    BY <1>0, <1>4, ProducerTyped
  <2> QED BY <1>0, <1>4, <2>1 DEF TypeOK
<1>7. \A q : Some(q)' <=> Some(q)
  BY <1>4 DEF Some
<1>8. con[c].tail <= producers[p].tail
  BY <1>1, <1>4 DEF LoneAt
<1>9. ~ (con[c].n > 0) => con[c].size = 0
  BY <1>0, <1>4 DEF Placed, PlacedAt
<1>10. ASSUME con'[c].n > 0 PROVE producers'[con'[c].best].head < producers'[con'[c].best].tail
  <2>1. CASE z > con[c].size
    <3>1. Some(p)
      BY <1>2, <1>3, <1>6, <1>8, <2>1 DEF Some
    <3> QED BY <1>4, <1>5, <2>1, <3>1 DEF Some
  <2>2. CASE ~ (z > con[c].size)
    <3>1. con[c].n > 0
      BY <1>2, <1>5, <1>9, <1>10, <2>2
    <3>2. Some(con[c].best)
      BY <1>4, <3>1 DEF LoneAt
    <3> QED BY <1>4, <1>5, <2>2, <3>2 DEF Some
  <2> QED BY <2>1, <2>2
<1>11. ASSUME con'[c].saw = "some" PROVE con'[c].n > 0 \/ \E q \in 1 .. p - 1 : Some(q)'
  <2>1. con[c].n > 0 \/ (\E q \in 1 .. p - 1 : Some(q)) \/ con[c].tail > producers[p].head
    BY <1>1, <1>4, <1>11 DEF LoneAt
  <2>2. CASE con[c].n > 0
    BY <1>2, <1>5, <2>2
  <2>3. CASE con[c].tail > producers[p].head
    BY <1>2, <1>3, <1>5, <1>6, <2>3
  <2> QED BY <1>7, <2>1, <2>2, <2>3
<1> QED BY <1>4, <1>10, <1>11 DEF Told, LoneAt, Some

\* It goes to the best of those it has found, or has found none.
LEMMA BestTold ==
  ASSUME IInv, NEW c \in team, team = {c}, LoneAt(c), tryBest(c)
  PROVE  Told(c)
<1>0. TypeOK /\ Placed /\ c \in Consumers
  BY DEF IInv, CountInv, TypeOK
<1>1. CASE con[c].n > 0
  <2>1. /\ con[c].at = "look" /\ con'[c].at = "dequeue" /\ con'[c].p = con[c].best
        /\ UNCHANGED producers
    BY <1>0, <1>1, TryBestStep
  <2>2. producers'[con'[c].p].head < producers'[con'[c].p].tail
    BY <1>1, <2>1 DEF LoneAt, Some
  <2> QED BY <2>1, <2>2 DEF Told, LoneAt, Some
<1>2. CASE ~ (con[c].n > 0)
  <2>1. con[c].at = "look" /\ con'[c] = AtRest
    BY <1>0, <1>2, NoneFoundStep
  <2>2. con[c].n \in Nat /\ con[c].p \in Nat
    BY <1>0 DEF TypeOK, ConsumerType
  <2>3. ~ (con[c].n < 3 /\ con[c].p > 0)
    BY DEF tryBest
  <2>4. con[c].p = 0
    BY <1>2, <2>2, <2>3
  <2>5. 1 .. con[c].p = {}
    BY <2>4
  <2>6. con[c].saw # "some"
    BY <1>2, <2>1, <2>5 DEF LoneAt
  <2>7. con'[c].at = "idle" /\ con'[c].saw = "no"
    BY <2>1, RestFields
  <2> QED BY <2>6, <2>7, NothingSaid DEF Told
<1> QED BY <1>1, <1>2

\* It claims an index there.
LEMMA TailTold ==
  ASSUME IInv, NEW c \in team, team = {c}, LoneAt(c), loadTail(c)
  PROVE  Told(c)
<1>0. TypeOK /\ Placed
  BY DEF IInv, CountInv
<1>1. PICK p : p = con[c].p
  OBVIOUS
<1>2. /\ con[c].at = "dequeue" /\ p \in DOMAIN producers /\ UNCHANGED producers
      /\ con'[c].at = "check" /\ con'[c].tail = producers[p].tail
      /\ con'[c].overcommit = producers[p].overcommit
      /\ con'[c].saw = con[c].saw /\ con'[c].p = p
  BY <1>0, <1>1, LoadTailStep DEF from
<1>3. producers[p].head \in Nat /\ producers[p].tail \in Nat
  BY <1>0, <1>2, ProducerTyped
<1>4. con[c].saw = "some" => producers[p].tail > producers[p].head
  BY <1>1, <1>2, <1>3 DEF LoneAt, Some
<1> QED BY <1>2, <1>3, <1>4 DEF Told, LoneAt

\* The test of dequeueOptimisticCount does not fail where there is something,
LEMMA OptimisticTold ==
  ASSUME IInv, NEW c \in team, team = {c}, LoneAt(c), loadOptimistic(c)
  PROVE  Told(c)
<1>0. TypeOK /\ Placed /\ c \in Consumers
  BY DEF IInv, CountInv, TypeOK
<1>1. PICK p : p = con[c].p
  OBVIOUS
<1>2. CASE from(c).optimistic - con[c].overcommit < con[c].tail
  <2>1. /\ con[c].at = "check" /\ UNCHANGED producers
        /\ con'[c].at = "claim" /\ con'[c].saw = con[c].saw /\ con'[c].p = p
        /\ con'[c].tail = con[c].tail /\ con'[c].overcommit = con[c].overcommit
    BY <1>0, <1>1, <1>2, SeemsLeftStep
  <2>2. con[c].saw = "some" =>
          /\ con[c].tail > producers[p].head /\ con[c].tail <= producers[p].tail
          /\ con[c].overcommit = producers[p].overcommit
    BY <1>1, <2>1 DEF LoneAt
  <2> QED BY <2>1, <2>2 DEF Told, LoneAt
<1>3. CASE ~ (from(c).optimistic - con[c].overcommit < con[c].tail)
  <2>1. con[c].at = "check" /\ p \in DOMAIN producers /\ NextOf(c, con'[c])
    BY <1>0, <1>1, <1>3, AllClaimedStep
  <2>2. producers[p].optimistic = producers[p].head + producers[p].overcommit
    BY <1>0, <2>1, OwnClaims
  <2>3. producers[p].head \in Nat /\ producers[p].overcommit \in Nat /\ con[c].tail \in Nat
    <3>1. producers[p].head \in Nat /\ producers[p].overcommit \in Nat
      BY <1>0, <2>1, ProducerTyped
    <3> QED BY <1>0, <3>1 DEF TypeOK, ConsumerType
  <2>4. con[c].saw # "some"
    <3>1. ASSUME con[c].saw = "some" PROVE FALSE
      <4>1. con[c].tail > producers[p].head /\ con[c].overcommit = producers[p].overcommit
        BY <1>1, <2>1, <3>1 DEF LoneAt
      <4>2. ~ (producers[p].optimistic - producers[p].overcommit < con[c].tail)
        BY <1>1, <1>3, <4>1 DEF from
      <4> QED BY <2>2, <2>3, <4>1, <4>2
    <3> QED BY <3>1
  <2>5. con'[c].at \in {"idle", "dequeue"} /\ con'[c].saw # "some"
    BY <2>1, <2>4, RestFields DEF NextOf
  <2> QED BY <2>4, <2>5, NothingSaid DEF Told
<1> QED BY <1>2, <1>3

\* nor does the claim: what is compared with the tail is the head.
LEMMA ClaimTold ==
  ASSUME IInv, NEW c \in team, team = {c}, LoneAt(c), claim(c)
  PROVE  Told(c)
<1>0. TypeOK /\ Placed /\ c \in Consumers
  BY DEF IInv, CountInv, TypeOK
<1>1. PICK p : p = con[c].p
  OBVIOUS
<1>2. /\ con[c].at = "claim" /\ p \in DOMAIN producers
      /\ con'[c].at = "verify" /\ con'[c].count = producers[p].optimistic
      /\ con'[c].saw = con[c].saw /\ con'[c].p = p
      /\ con'[c].tail = con[c].tail /\ con'[c].overcommit = con[c].overcommit
  BY <1>0, <1>1, ClaimStep DEF from
<1>3. /\ producers'[p].tail = producers[p].tail /\ producers'[p].head = producers[p].head
      /\ producers'[p].overcommit = producers[p].overcommit
  BY <1>0, <1>1, ClaimStep DEF from
<1>4. producers[p].optimistic = producers[p].head + producers[p].overcommit
  BY <1>0, <1>2, OwnClaims
<1>5. con[c].saw = "some" =>
        /\ con[c].tail > producers[p].head /\ con[c].tail <= producers[p].tail
        /\ con[c].overcommit = producers[p].overcommit
  BY <1>1, <1>2 DEF LoneAt
<1> QED BY <1>2, <1>3, <1>4, <1>5 DEF Told, LoneAt

\* The claim of a consumer that is alone fails only where nothing was there.
LEMMA VerifyTold ==
  ASSUME IInv, NEW c \in team, team = {c}, LoneAt(c), takeIndex(c)
  PROVE  Told(c)
<1>0. TypeOK /\ Placed /\ c \in Consumers
  BY DEF IInv, CountInv, TypeOK
<1>1. PICK p : p = con[c].p
  OBVIOUS
<1>2. CASE con[c].count - con[c].overcommit < from(c).tail
  <2>1. con'[c].at = "header"
    BY <1>0, <1>2, TakeIndexStep
  <2> QED BY <2>1, NothingSaid DEF Told
<1>3. CASE ~ (con[c].count - con[c].overcommit < from(c).tail)
  <2>1. con[c].at = "verify" /\ p \in DOMAIN producers /\ con'[c].at = "giveBack"
            /\ con'[c].saw = con[c].saw
    BY <1>0, <1>1, <1>3, TakeFailsStep
  <2>2. /\ producers[p].head \in Nat /\ producers[p].tail \in Nat
        /\ producers[p].overcommit \in Nat
        /\ con[c].tail \in Nat
    <3>1. producers[p].head \in Nat /\ producers[p].tail \in Nat
              /\ producers[p].overcommit \in Nat
      BY <1>0, <2>1, ProducerTyped
    <3> QED BY <1>0, <3>1 DEF TypeOK, ConsumerType
  <2>3. con[c].saw # "some"
    <3>1. ASSUME con[c].saw = "some" PROVE FALSE
      <4>1. /\ con[c].tail > producers[p].head /\ con[c].tail <= producers[p].tail
            /\ con[c].overcommit = producers[p].overcommit
            /\ con[c].count = producers[p].head + producers[p].overcommit
        BY <1>1, <2>1, <3>1 DEF LoneAt
      <4>2. ~ ((producers[p].head + producers[p].overcommit) - producers[p].overcommit < producers[p].tail)
        BY <1>1, <1>3, <4>1 DEF from
      <4> QED BY <2>2, <4>1, <4>2
    <3> QED BY <3>1
  <2> QED BY <2>1, <2>3, NothingSaid DEF Told
<1> QED BY <1>2, <1>3

\* So no claim is given back where there is something.
LEMMA ReturnTold ==
  ASSUME IInv, NEW c \in team, team = {c}, LoneAt(c), giveBack(c)
  PROVE  Told(c)
<1>0. TypeOK /\ Placed
  BY DEF IInv, CountInv
<1>1. con[c].at = "giveBack" /\ NextOf(c, con'[c])
  BY <1>0, GiveBackStep
<1>2. con[c].saw # "some"
  BY <1>1 DEF LoneAt
<1>3. con'[c].at \in {"idle", "dequeue"} /\ con'[c].saw # "some"
  BY <1>1, <1>2, RestFields DEF NextOf
<1> QED BY <1>2, <1>3, NothingSaid DEF Told

\* With an index in its hand it is told true.
LEMMA TakingTold ==
  ASSUME IInv, NEW c \in team, TakenStep(c)
  PROVE  Told(c)
<1>1. con'[c].at \in Taking \union {"idle"} /\ con[c].at \in Taking
  BY RestFields DEF TakenStep
<1> QED BY <1>1, NothingSaid DEF Told, Taking, Aside

\* So it is with all steps of a consumer.
LEMMA ConsumerTold ==
  ASSUME IInv, NEW c \in team, team = {c}, LoneAt(c),
         \/ try_dequeue(c) \/ loadSizeTail(c) \/ loadSizeHead(c) \/ tryBest(c)
         \/ loadTail(c) \/ loadOptimistic(c) \/ claim(c) \/ takeIndex(c) \/ giveBack(c)
         \/ loadIndex(c) \/ loadIndexTail(c) \/ loadKey(c) \/ moveElement(c)
         \/ set_empty(c) \/ clearEntry(c) \/ freeBlock(c)
  PROVE  Told(c)
<1>0. TypeOK /\ CountInv /\ IndexInv /\ BlockInv
  BY DEF IInv
<1>1. CASE try_dequeue(c) \/ loadSizeTail(c) \/ loadSizeHead(c) \/ tryBest(c)
  BY <1>1, AskTold, SizeTailTold, SizeHeadTold, BestTold
<1>2. CASE loadTail(c) \/ loadOptimistic(c) \/ claim(c) \/ takeIndex(c) \/ giveBack(c)
  BY <1>2, TailTold, OptimisticTold, ClaimTold, VerifyTold, ReturnTold
<1>3. CASE \/ loadIndex(c) \/ loadIndexTail(c) \/ loadKey(c) \/ moveElement(c)
           \/ set_empty(c) \/ clearEntry(c) \/ freeBlock(c)
  <2>1. TakenStep(c)
    BY <1>0, <1>3, LoadsTake, MoveTakes, EmptyTakes, ClearTakes, FreeTakes
  <2> QED BY <2>1, TakingTold
<1> QED BY <1>1, <1>2, <1>3

\* The team stays.
LEMMA TeamStays ==
  ASSUME [Next]_vars
  PROVE  UNCHANGED team
<1>1. CASE UNCHANGED vars
  BY <1>1 DEF vars
<1>2. ASSUME NEW t \in Threads,
        \/ enqueue(t) \/ getProducer(t) \/ fillBlock(t) \/ noIndex(t)
        \/ insert_block_index_entry(t) \/ new_block_index(t) \/ setIndexTail(t)
        \/ requisition_block(t) \/ requisitionFails(t) \/ storeBlock(t)
        \/ writeElement(t) \/ storeTail(t)
      PROVE UNCHANGED team
  BY <1>2 DEF enqueue, getProducer, fillBlock, noIndex, insert_block_index_entry,
     new_block_index,
              setIndexTail, requisition_block, requisitionFails, storeBlock, writeElement,
                  storeTail, qvars
<1>3. ASSUME NEW c \in team,
         \/ try_dequeue(c) \/ loadSizeTail(c) \/ loadSizeHead(c) \/ tryBest(c)
         \/ loadTail(c) \/ loadOptimistic(c) \/ claim(c) \/ takeIndex(c) \/ giveBack(c)
         \/ loadIndex(c) \/ loadIndexTail(c) \/ loadKey(c) \/ moveElement(c)
         \/ set_empty(c) \/ clearEntry(c) \/ freeBlock(c)
      PROVE UNCHANGED team
  BY <1>3 DEF try_dequeue, loadSizeTail, loadSizeHead, tryBest, loadTail, loadOptimistic, claim,
     takeIndex,
              giveBack, loadIndex, loadIndexTail, loadKey, moveElement, set_empty, clearEntry,
                  freeBlock, qvars
<1> QED BY <1>1, <1>2, <1>3 DEF Next

\* What is said of consumers that are alone stays true.
LEMMA ConsumersKeepLone ==
  ASSUME Lone, NEW c \in team, UNCHANGED team, team = {c} /\ LoneAt(c) =>
             Told(c), c \in Consumers
  PROVE  Lone'
<1>1. ASSUME NEW d \in Consumers, team' = {d} PROVE LoneAt(d)'
  <2>1. d = c /\ team = {c}
    BY <1>1
  <2>2. LoneAt(c)
    BY <2>1 DEF Lone
  <2> QED BY <2>1, <2>2 DEF Told
<1> QED BY <1>1 DEF Lone

\* All of it holds initially,
LEMMA InitFull == Init => FullInv
<1> SUFFICES ASSUME Init PROVE FullInv
  OBVIOUS
<1>1. /\ DOMAIN producers = {} /\ \A c \in Consumers : con[c] = AtRest
  BY InitTyped
<1>2. \A c \in Consumers : con[c].at = "idle" /\ con[c].saw = "no"
  BY <1>1, RestFields
<1>3. \A t \in Threads : thr[t].sent = 0
  BY DEF Init
<1>4. ItemInv
  BY <1>1, <1>2, <1>3 DEF ItemInv, Elements, Numbered, InHand
<1>5. Lone
  BY <1>2 DEF Lone, LoneAt
<1> QED BY <1>4, <1>5, InitHolds DEF FullInv

\* and every step keeps it.
LEMMA NextFull == FullInv /\ [Next]_vars => FullInv'
<1> SUFFICES ASSUME FullInv, [Next]_vars PROVE FullInv'
  OBVIOUS
<1>0. IInv /\ ItemInv /\ Lone /\ TypeOK /\ Placed
  BY DEF FullInv, IInv, CountInv
<1>1. IInv' /\ UNCHANGED team
  BY <1>0, NextHolds, TeamStays
<1>2. ItemInv' /\ Lone'
  <2>1. CASE UNCHANGED vars
    <3>1. UNCHANGED <<producers, thr, blocks, con, team>>
      BY <2>1 DEF vars
    <3>2. ItemInv'
      BY <1>0, <3>1 DEF ItemInv, Elements, ElementsAt, Numbered, InHand, Used, KeyOf, ValueOf,
         Kept, Doing, ItemAt
    <3>3. Lone'
      BY <1>0, <3>1 DEF Lone, LoneAt, Some
    <3> QED BY <3>2, <3>3
  <2>2. ASSUME NEW t \in Threads,
          \/ enqueue(t) \/ getProducer(t) \/ fillBlock(t) \/ noIndex(t)
          \/ insert_block_index_entry(t) \/ new_block_index(t) \/ setIndexTail(t)
          \/ requisition_block(t) \/ requisitionFails(t) \/ storeBlock(t)
          \/ writeElement(t) \/ storeTail(t)
        PROVE ItemInv' /\ Lone'
    <3>1. ItemInv'
      BY <1>0, <1>1, <2>2, ThreadItems
    <3>2. Adds
      BY <1>0, <2>2, ThreadAdds
    <3> QED BY <1>0, <3>1, <3>2, AddsKeepLone
  <2>3. ASSUME NEW c \in team,
           \/ try_dequeue(c) \/ loadSizeTail(c) \/ loadSizeHead(c) \/ tryBest(c)
           \/ loadTail(c) \/ loadOptimistic(c) \/ claim(c) \/ takeIndex(c) \/ giveBack(c)
           \/ loadIndex(c) \/ loadIndexTail(c) \/ loadKey(c) \/ moveElement(c)
           \/ set_empty(c) \/ clearEntry(c) \/ freeBlock(c)
        PROVE ItemInv' /\ Lone'
    <3>1. ItemInv'
      BY <1>0, <2>3, ConsumerItems
    <3>2. team = {c} /\ LoneAt(c) => Told(c)
      BY <1>0, <2>3, ConsumerTold
    <3>3. c \in Consumers
      BY <1>0 DEF TypeOK
    <3> QED BY <1>0, <1>1, <3>1, <3>2, <3>3, ConsumersKeepLone
  <2> QED BY <2>1, <2>2, <2>3 DEF Next
<1> QED BY <1>1, <1>2 DEF FullInv
-----------------------------------------------------------------------------
(* What RequestQueue sees of the queue.                                    *)

\* The items of thread t with the indices from head up to tail.
Between(t, head, tail) == [k \in 1 .. tail - head |-> [from |-> t, no |-> head + k]]

\* There are none where the head is the tail.
LEMMA NoneBetween ==
  ASSUME NEW t, NEW n \in Nat
  PROVE  Between(t, n, n) = <<>>
<1>1. 1 .. n - n = {}
  OBVIOUS
<1> QED BY <1>1 DEF Between

\* A sequence with one element more,
LEMMA AppendedTo ==
  ASSUME NEW n \in Nat, NEW S, NEW f \in [1 .. n -> S], NEW g \in [1 .. n + 1 -> S],
         \A k \in 1 .. n : g[k] = f[k]
  PROVE  g = Append(f, g[n + 1])
<1>1. f \in Seq(S) /\ Len(f) = n /\ g \in Seq(S) /\ Len(g) = n + 1 /\ g[n + 1] \in S
  OBVIOUS
<1>2. PICK h : h = Append(f, g[n + 1])
  OBVIOUS
<1>3. h \in Seq(S) /\ Len(h) = n + 1 /\ h[n + 1] = g[n + 1] /\ \A k \in 1 .. n : h[k] = f[k]
  BY <1>1, <1>2
<1>4. ASSUME NEW k \in 1 .. n + 1 PROVE h[k] = g[k]
  <2>1. k = n + 1 \/ k \in 1 .. n
    OBVIOUS
  <2> QED BY <1>3, <2>1
<1> QED BY <1>1, <1>2, <1>3, <1>4

\* and one without its head.
LEMMA HeadTaken ==
  ASSUME NEW n \in Nat \ {0}, NEW S, NEW f \in [1 .. n -> S], NEW g \in [1 .. n - 1 -> S],
         \A k \in 1 .. n - 1 : g[k] = f[k + 1]
  PROVE  f # <<>> /\ Head(f) = f[1] /\ Tail(f) = g
<1>1. f \in Seq(S) /\ Len(f) = n /\ g \in Seq(S) /\ Len(g) = n - 1
  OBVIOUS
<1>2. f # <<>> /\ Head(f) = f[1]
  BY <1>1
<1>3. PICK h : h = Tail(f)
  OBVIOUS
<1>4. h \in Seq(S) /\ Len(h) = n - 1 /\ \A k \in 1 .. n - 1 : h[k] = f[k + 1]
  BY <1>1, <1>2, <1>3
<1> QED BY <1>1, <1>2, <1>3, <1>4

\* The items between two indices are a sequence of items.
LEMMA ItemsBetween ==
  ASSUME NEW t, NEW head \in Nat, NEW tail \in Nat, head <= tail
  PROVE  /\ Between(t, head, tail) \in [1 .. tail - head -> [from : {t}, no : Nat]]
         /\ \A k \in 1 .. tail - head :
                Between(t, head, tail)[k] = [from |-> t, no |-> head + k]
<1>1. PICK n \in Nat : n = tail - head
  OBVIOUS
<1>2. ASSUME NEW k \in 1 .. n PROVE [from |-> t, no |-> head + k] \in [from : {t}, no : Nat]
  <2>1. head + k \in Nat
    OBVIOUS
  <2> QED BY <2>1
<1> QED BY <1>1, <1>2 DEF Between

\* With one more at the tail, it is appended;
LEMMA OneAdded ==
  ASSUME NEW t, NEW head \in Nat, NEW tail \in Nat, head <= tail
  PROVE  Between(t, head, tail + 1)
             = Append(Between(t, head, tail), [from |-> t, no |-> tail + 1])
<1>1. PICK n \in Nat : n = tail - head
  OBVIOUS
<1>2. PICK f : f = Between(t, head, tail)
  OBVIOUS
<1>3. PICK g : g = Between(t, head, tail + 1)
  OBVIOUS
<1>4. PICK S : S = [from : {t}, no : Nat]
  OBVIOUS
<1>5. f \in [1 .. n -> S] /\ \A k \in 1 .. n : f[k] = [from |-> t, no |-> head + k]
  BY <1>1, <1>2, <1>4, ItemsBetween
<1>6. g \in [1 .. n + 1 -> S] /\ \A k \in 1 .. n + 1 : g[k] = [from |-> t, no |-> head + k]
  <2>1. (tail + 1) - head = n + 1 /\ head <= tail + 1 /\ tail + 1 \in Nat
    BY <1>1
  <2>2. /\ g \in [1 .. (tail + 1) - head -> S]
        /\ \A k \in 1 .. (tail + 1) - head : g[k] = [from |-> t, no |-> head + k]
    BY <1>3, <1>4, <2>1, ItemsBetween
  <2> QED BY <2>1, <2>2
<1>7. \A k \in 1 .. n : g[k] = f[k]
  <2>1. \A k \in 1 .. n : k \in 1 .. n + 1
    OBVIOUS
  <2> QED BY <1>5, <1>6, <2>1
<1>8. g = Append(f, g[n + 1])
  BY <1>5, <1>6, <1>7, AppendedTo
<1>9. g[n + 1] = [from |-> t, no |-> tail + 1]
  <2>1. n + 1 \in 1 .. n + 1 /\ head + (n + 1) = tail + 1
    BY <1>1
  <2>2. g[n + 1] = [from |-> t, no |-> head + (n + 1)]
    BY <1>6, <2>1
  <2> QED BY <2>1, <2>2
<1> QED BY <1>2, <1>3, <1>8, <1>9

\* with one less at the head, it was the first.
LEMMA OneTaken ==
  ASSUME NEW t, NEW head \in Nat, NEW tail \in Nat, head < tail
  PROVE  /\ Between(t, head, tail) # <<>>
         /\ Head(Between(t, head, tail)) = [from |-> t, no |-> head + 1]
         /\ Tail(Between(t, head, tail)) = Between(t, head + 1, tail)
<1>1. PICK n \in Nat \ {0} : n = tail - head
  OBVIOUS
<1>2. PICK f : f = Between(t, head, tail)
  OBVIOUS
<1>3. PICK g : g = Between(t, head + 1, tail)
  OBVIOUS
<1>4. PICK S : S = [from : {t}, no : Nat]
  OBVIOUS
<1>5. f \in [1 .. n -> S] /\ \A k \in 1 .. n : f[k] = [from |-> t, no |-> head + k]
  <2>1. head <= tail
    OBVIOUS
  <2> QED BY <1>1, <1>2, <1>4, <2>1, ItemsBetween
<1>6. g \in [1 .. n - 1 -> S]
          /\ \A k \in 1 .. n - 1 : g[k] = [from |-> t, no |-> (head + 1) + k]
  <2>1. tail - (head + 1) = n - 1 /\ head + 1 <= tail /\ head + 1 \in Nat
    BY <1>1
  <2>2. /\ g \in [1 .. tail - (head + 1) -> S]
        /\ \A k \in 1 .. tail - (head + 1) : g[k] = [from |-> t, no |-> (head + 1) + k]
    BY <1>3, <1>4, <2>1, ItemsBetween
  <2> QED BY <2>1, <2>2
<1>7. ASSUME NEW k \in 1 .. n - 1 PROVE g[k] = f[k + 1]
  <2>1. k + 1 \in 1 .. n /\ head + (k + 1) = (head + 1) + k
    OBVIOUS
  <2>2. f[k + 1] = [from |-> t, no |-> head + (k + 1)]
    BY <1>5, <2>1
  <2> QED BY <1>6, <2>1, <2>2
<1>8. f # <<>> /\ Head(f) = f[1] /\ Tail(f) = g
  BY <1>5, <1>6, <1>7, HeadTaken
<1>9. f[1] = [from |-> t, no |-> head + 1]
  BY <1>5
<1> QED BY <1>2, <1>3, <1>8, <1>9

\* What is in the inbox of a thread: what is between the head and the tail of its producer.
Inboxes ==
  \A t \in Threads :
    /\ (\A p \in DOMAIN producers : producers[p].owner # t) => Inbox(t) = <<>>
    /\ \A p \in DOMAIN producers : producers[p].owner = t =>
         Inbox(t) = Between(t, producers[p].head, producers[p].tail)

\* Inbox(t) says so with the lowest producer of t, and t has only one.
LEMMA InboxesAre == FullInv => Inboxes
<1> SUFFICES ASSUME FullInv, NEW t \in Threads
             PROVE  /\ (\A p \in DOMAIN producers : producers[p].owner # t) => Inbox(t) = <<>>
                    /\ \A p \in DOMAIN producers : producers[p].owner = t =>
                         Inbox(t) = Between(t, producers[p].head, producers[p].tail)
  BY DEF Inboxes
<1>1. ASSUME \A p \in DOMAIN producers : producers[p].owner # t PROVE Inbox(t) = <<>>
  <2>1. {i \in DOMAIN producers : producers[i].owner = t} = {}
    BY <1>1
  <2> QED BY <2>1 DEF Inbox
<1>2. ASSUME NEW p \in DOMAIN producers, producers[p].owner = t
      PROVE  Inbox(t) = Between(t, producers[p].head, producers[p].tail)
  <2>1. PICK S : S = {i \in DOMAIN producers : producers[i].owner = t}
    OBVIOUS
  <2>2. S = {p}
    BY <1>2, <2>1 DEF FullInv, IInv, HashInv, OwnedOnce
  <2>3. S \in SUBSET Nat /\ S # {}
    BY <2>1, <2>2 DEF FullInv, IInv, TypeOK
  <2>4. Min(S) = p
    BY <2>2, <2>3, MinInSet
  <2> QED BY <2>1, <2>2, <2>4 DEF Inbox, Between
<1> QED BY <1>1, <1>2

\* That holds after a step, too.
LEMMA NextInboxes == FullInv' => Inboxes'
BY InboxesAre, PTL

\* What is in the hand of a consumer: the item of its index.
InHands ==
  \A c \in Consumers :
    Hand(c) = IF con[c].at \in Taking THEN ItemAt(con[c].p, con[c].i) ELSE NoItem

\* Hand(c) says so by the place the consumer is at, which comes to the same.
LEMMA HandsAre == FullInv => InHands
<1> SUFFICES ASSUME FullInv, NEW c \in Consumers
             PROVE  Hand(c) = IF con[c].at \in Taking THEN ItemAt(con[c].p,
                        con[c].i) ELSE NoItem
  BY DEF InHands
<1>1. CASE con[c].at \in {"header", "tail", "key", "move"}
  BY <1>1 DEF Hand, Taking, ItemAt, from
<1>2. CASE con[c].at \in {"empty", "clear", "free"}
  <2>1. con[c].item = ItemAt(con[c].p, con[c].i)
    BY <1>2 DEF FullInv, ItemInv, InHand
  <2> QED BY <1>2, <2>1 DEF Hand, Taking
<1>3. CASE con[c].at \notin Taking
  BY <1>3 DEF Hand, Taking
<1> QED BY <1>1, <1>2, <1>3 DEF Taking

\* That holds after a step, too.
LEMMA NextHandsAre == FullInv' => InHands'
BY HandsAre, PTL

\* What RequestQueue sees of the queue, other than the team.
SentStays == \A t \in Threads : thr'[t].sent = thr[t].sent
InboxStays == \A t \in Threads : Inbox(t)' = Inbox(t)
AskedStays == \A c \in Consumers : con'[c].saw = con[c].saw
HandStays == \A c \in Consumers : Hand(c)' = Hand(c)

\* Where all of it stays, RequestQueue does not move.
LEMMA NothingSeen ==
  ASSUME SentStays, InboxStays, AskedStays, HandStays, UNCHANGED team
  PROVE  UNCHANGED Requests!vars
BY DEF SentStays, InboxStays, AskedStays, HandStays, Requests!vars

\* The inboxes stay where the heads and tails of producers do, and new ones are empty.
LEMMA InboxFrame ==
  ASSUME Inboxes, Inboxes', TypeOK,
         \A p \in DOMAIN producers :
           /\ p \in DOMAIN producers' /\ producers'[p].owner = producers[p].owner
           /\ producers'[p].head = producers[p].head /\ producers'[p].tail = producers[p].tail,
         \A p \in DOMAIN producers' \ DOMAIN producers :
           producers'[p].head = 0 /\ producers'[p].tail = 0
  PROVE  InboxStays
<1>1. ASSUME NEW t \in Threads PROVE Inbox(t)' = Inbox(t)
  <2>1. CASE \E p \in DOMAIN producers : producers[p].owner = t
    <3>1. PICK p \in DOMAIN producers : producers[p].owner = t
      BY <2>1
    <3>2. Inbox(t) = Between(t, producers[p].head, producers[p].tail)
      BY <3>1 DEF Inboxes
    <3>3. Inbox(t)' = Between(t, producers'[p].head, producers'[p].tail)
      BY <3>1 DEF Inboxes, Between
    <3> QED BY <3>1, <3>2, <3>3
  <2>2. CASE \A p \in DOMAIN producers : producers[p].owner # t
    <3>1. Inbox(t) = <<>>
      BY <2>2 DEF Inboxes
    <3>2. CASE \A p \in DOMAIN producers' : producers'[p].owner # t
      BY <3>1, <3>2 DEF Inboxes
    <3>3. CASE \E p \in DOMAIN producers' : producers'[p].owner = t
      <4>1. PICK p \in DOMAIN producers' : producers'[p].owner = t
        BY <3>3
      <4>2. producers'[p].head = 0 /\ producers'[p].tail = 0
        BY <2>2, <4>1
      <4>3. Inbox(t)' = Between(t, 0, 0)
        BY <4>1, <4>2 DEF Inboxes, Between
      <4> QED BY <3>1, <4>3, NoneBetween
    <3> QED BY <3>2, <3>3
  <2> QED BY <2>1, <2>2
<1> QED BY <1>1 DEF InboxStays

\* The hands stay where no consumer gets an index or leaves it.
LEMMA HandFrame ==
  ASSUME InHands, InHands', Placed, NEW D \in SUBSET Consumers,
         \A p \in DOMAIN producers : producers'[p].owner = producers[p].owner,
         \A c \in D : /\ con'[c].at \in Taking <=> con[c].at \in Taking
                      /\ con'[c].at \in Taking => con'[c].p = con[c].p /\ con'[c].i = con[c].i
  PROVE  \A c \in D : Hand(c)' = Hand(c)
<1>1. ASSUME NEW c \in D PROVE Hand(c)' = Hand(c)
  <2>1. CASE con[c].at \in Taking
    <3>1. con[c].p \in DOMAIN producers
      BY <2>1 DEF Placed, PlacedAt, AtProducer, Taking
    <3>2. Hand(c) = [from |-> producers[con[c].p].owner, no |-> con[c].i + 1]
      BY <2>1 DEF InHands, ItemAt
    <3>3. Hand(c)' = [from |-> producers'[con'[c].p].owner, no |-> con'[c].i + 1]
      BY <2>1 DEF InHands, ItemAt, Taking
    <3> QED BY <2>1, <3>1, <3>2, <3>3
  <2>2. CASE con[c].at \notin Taking
    BY <2>2 DEF InHands, Taking
  <2> QED BY <2>1, <2>2
<1> QED BY <1>1

\* A step of a thread that publishes no item is not seen.
LEMMA UnsentUnseen ==
  ASSUME FullInv, FullInv', NEW t \in Threads, Unsent(t)
  PROVE  UNCHANGED Requests!vars
<1>0. TypeOK /\ Placed /\ Inboxes /\ Inboxes' /\ InHands /\ InHands'
  BY InboxesAre, NextInboxes, HandsAre, NextHandsAre DEF FullInv, IInv, CountInv
<1>1. UNCHANGED <<team, con>> /\ SentStays
  BY DEF Unsent, ThrOnly, SentStays
<1>2. \A p \in DOMAIN producers :
        /\ p \in DOMAIN producers' /\ producers'[p].owner = producers[p].owner
        /\ producers'[p].head = producers[p].head /\ producers'[p].tail = producers[p].tail
  BY DEF Unsent, CountersStay
<1>3. InboxStays
  <2>1. \A p \in DOMAIN producers' \ DOMAIN producers : producers'[p].head = 0
            /\ producers'[p].tail = 0
    BY DEF Unsent
  <2> QED BY <1>0, <1>2, <2>1, InboxFrame
<1>4. HandStays
  <2>1. Consumers \in SUBSET Consumers
    OBVIOUS
  <2>2. \A c \in Consumers : Hand(c)' = Hand(c)
    BY <1>0, <1>1, <1>2, <2>1, HandFrame
  <2> QED BY <2>2 DEF HandStays
<1>5. AskedStays
  BY <1>1 DEF AskedStays
<1> QED BY <1>1, <1>3, <1>4, <1>5, NothingSeen

\* The step that stores the tail enqueues the item.
LEMMA StoreTailEnqueues ==
  ASSUME FullInv, FullInv', NEW t \in Threads, storeTail(t)
  PROVE  Requests!Enqueue(t)
<1>0. /\ TypeOK /\ Placed /\ Inboxes /\ Inboxes' /\ InHands /\ InHands' /\ OwnedOnce
      /\ Numbered /\ Counted
  BY InboxesAre, NextInboxes, HandsAre, NextHandsAre DEF FullInv, IInv, CountInv, HashInv,
     ItemInv
<1>1. PICK p \in DOMAIN producers : Publishes(t, p)
  BY StoreTailPublishes DEF FullInv
<1>2. PICK x \in Nat : x = producers[p].tail
  BY <1>0, ProducerTyped
<1>3. PICK h \in Nat : h = producers[p].head
  BY <1>0, ProducerTyped
<1>4. /\ UNCHANGED <<team, con>> /\ \A u \in Threads \ {t} : thr'[u] = thr[u]
      /\ producers[p].owner = t /\ producers'[p].owner = t
      /\ producers'[p].head = h /\ producers'[p].tail = x + 1
      /\ DOMAIN producers' = DOMAIN producers
             /\ \A q \in DOMAIN producers \ {p} : producers'[q] = producers[q]
  BY <1>1, <1>2, <1>3 DEF Publishes, ThrOnly, OnlyAt
<1>5. thr[t].sent = x /\ thr'[t].sent = x + 1
  <2>1. thr[t].sent = x
    BY <1>0, <1>2, <1>4 DEF Numbered
  <2> QED BY <1>1, <2>1 DEF Publishes
<1>6. Inbox(t)' = Append(Inbox(t), [from |-> t, no |-> thr[t].sent + 1])
  <2>1. Inbox(t) = Between(t, h, x)
    BY <1>0, <1>2, <1>3, <1>4 DEF Inboxes
  <2>2. Inbox(t)' = Between(t, h, x + 1)
    BY <1>0, <1>4 DEF Inboxes, Between
  <2>3. h <= x
    BY <1>0, <1>2, <1>3 DEF Counted, CountedAt
  <2>4. Between(t, h, x + 1) = Append(Between(t, h, x), [from |-> t, no |-> x + 1])
    BY <2>3, OneAdded
  <2> QED BY <1>5, <2>1, <2>2, <2>4
<1>7. ASSUME NEW u \in Threads \ {t} PROVE Inbox(u)' = Inbox(u)
  <2>1. CASE \E q \in DOMAIN producers : producers[q].owner = u
    <3>1. PICK q \in DOMAIN producers : producers[q].owner = u
      BY <2>1
    <3>2. producers'[q] = producers[q]
      BY <1>4, <3>1
    <3>3. Inbox(u) = Between(u, producers[q].head, producers[q].tail)
      BY <1>0, <3>1 DEF Inboxes
    <3>4. Inbox(u)' = Between(u, producers'[q].head, producers'[q].tail)
      BY <1>0, <1>4, <3>1, <3>2 DEF Inboxes, Between
    <3> QED BY <3>2, <3>3, <3>4
  <2>2. CASE \A q \in DOMAIN producers : producers[q].owner # u
    <3>1. \A q \in DOMAIN producers' : producers'[q].owner # u
      BY <1>4, <2>2
    <3> QED BY <1>0, <2>2, <3>1 DEF Inboxes
  <2> QED BY <2>1, <2>2
<1>8. HandStays
  <2>1. Consumers \in SUBSET Consumers
    OBVIOUS
  <2>2. \A q \in DOMAIN producers : producers'[q].owner = producers[q].owner
    BY <1>4
  <2>3. \A c \in Consumers : Hand(c)' = Hand(c)
    BY <1>0, <1>4, <2>1, <2>2, HandFrame
  <2> QED BY <2>3 DEF HandStays
<1>9. AskedStays
  BY <1>4 DEF AskedStays
<1>10. /\ [u \in Threads |-> thr'[u].sent]
              = [[u \in Threads |-> thr[u].sent] EXCEPT ![t] = @ + 1]
       /\ [u \in Threads |-> Inbox(u)'] =
            [[u \in Threads |-> Inbox(u)] EXCEPT ![t]
                = Append(@, [from |-> t, no |-> thr[t].sent + 1])]
  BY <1>4, <1>5, <1>6, <1>7
<1>11. /\ [c \in Consumers |-> con'[c].saw] = [c \in Consumers |-> con[c].saw]
       /\ [c \in Consumers |-> Hand(c)'] = [c \in Consumers |-> Hand(c)]
  BY <1>8, <1>9 DEF HandStays, AskedStays
<1> QED BY <1>4, <1>10, <1>11 DEF Requests!Enqueue
-----------------------------------------------------------------------------
(* The steps of a consumer, as RequestQueue sees them.                     *)

\* What a step of consumer c leaves as it is.
LEMMA OthersSeen ==
  ASSUME FullInv, FullInv', NEW c \in Consumers, ConOnly(c),
         \A p \in DOMAIN producers : producers'[p].owner = producers[p].owner
  PROVE  /\ SentStays /\ UNCHANGED team
         /\ \A d \in Consumers \ {c} : con'[d].saw = con[d].saw /\ Hand(d)' = Hand(d)
<1>0. Placed /\ InHands /\ InHands'
  BY HandsAre, NextHandsAre DEF FullInv, IInv, CountInv
<1>1. UNCHANGED <<team, thr>> /\ \A d \in Consumers \ {c} : con'[d] = con[d]
  BY DEF ConOnly
<1>2. \A d \in Consumers \ {c} : Hand(d)' = Hand(d)
  <2>1. Consumers \ {c} \in SUBSET Consumers
    OBVIOUS
  <2> QED BY <1>0, <1>1, <2>1, HandFrame
<1> QED BY <1>1, <1>2 DEF SentStays

\* The inboxes stay where it takes no index.
LEMMA InboxKept ==
  ASSUME FullInv, FullInv', DOMAIN producers' = DOMAIN producers,
         \A p \in DOMAIN producers :
           /\ producers'[p].owner = producers[p].owner
           /\ producers'[p].head = producers[p].head /\ producers'[p].tail = producers[p].tail
  PROVE  InboxStays
<1>0. TypeOK /\ Inboxes /\ Inboxes'
  BY InboxesAre, NextInboxes DEF FullInv, IInv
<1> QED BY <1>0, InboxFrame

\* The step that consumer c makes, as RequestQueue sees it.
SeenAsked(c, saw) ==
  [d \in Consumers |-> con'[d].saw] = [[d \in Consumers |-> con[d].saw] EXCEPT ![c] = saw]
SeenHand(c, item) ==
  [d \in Consumers |-> Hand(d)'] = [[d \in Consumers |-> Hand(d)] EXCEPT ![c] = item]

\* All it does until it takes an index is to ask, or to be told false.
LEMMA LookSeen ==
  ASSUME FullInv, FullInv', NEW c \in team, LookStep(c)
  PROVE  /\ c \in Consumers /\ SentStays /\ InboxStays /\ HandStays /\ UNCHANGED team
         /\ Hand(c) = NoItem /\ SeenAsked(c, con'[c].saw)
         /\ con'[c].saw = con[c].saw => AskedStays
<1>0. TypeOK /\ Placed /\ InHands /\ InHands'
  BY HandsAre, NextHandsAre DEF FullInv, IInv, CountInv
<1>1. /\ c \in Consumers /\ ConOnly(c) /\ con[c].at \in Aside /\ con'[c].at \in Aside
      /\ DOMAIN producers' = DOMAIN producers
  BY DEF LookStep
<1>2. \A p \in DOMAIN producers :
        /\ producers'[p].owner = producers[p].owner
        /\ producers'[p].head = producers[p].head /\ producers'[p].tail = producers[p].tail
  BY DEF LookStep, Untouched
<1>3. /\ SentStays /\ UNCHANGED team
      /\ \A d \in Consumers \ {c} : con'[d].saw = con[d].saw /\ Hand(d)' = Hand(d)
  BY <1>1, <1>2, OthersSeen
<1>4. InboxStays
  BY <1>1, <1>2, InboxKept
<1>5. Hand(c) = NoItem
  BY <1>0, <1>1 DEF InHands, Aside, Taking
<1>6. Hand(c)' = NoItem
  BY <1>0, <1>1 DEF InHands, Aside, Taking, NoItem
<1>7. HandStays
  BY <1>3, <1>5, <1>6 DEF HandStays
<1>8. SeenAsked(c, con'[c].saw)
  BY <1>1, <1>3 DEF SeenAsked
<1>9. con'[c].saw = con[c].saw => AskedStays
  BY <1>3 DEF AskedStays
<1> QED BY <1>1, <1>3, <1>4, <1>5, <1>7, <1>8, <1>9

\* It asks,
LEMMA AskImplements ==
  ASSUME FullInv, FullInv', NEW c \in team, try_dequeue(c)
  PROVE  Requests!Ask(c)
<1>0. IInv /\ TypeOK /\ Placed /\ Counted /\ OwnedOnce /\ Inboxes
  BY InboxesAre DEF FullInv, IInv, CountInv, HashInv
<1>1. LookStep(c)
  BY <1>0, LookSteps
<1>2. /\ c \in Consumers /\ SentStays /\ InboxStays /\ HandStays /\ UNCHANGED team
      /\ SeenAsked(c, con'[c].saw)
  BY <1>1, LookSeen
<1>3. /\ con[c].at = "idle"
      /\ con'[c].saw = (IF \A i \in DOMAIN producers : producers[i].head = producers[i].tail
           THEN "empty" ELSE "some")
  BY <1>0, TryDequeueStep
<1>4. con[c].saw = "no"
  BY <1>0, <1>2, <1>3 DEF Placed, PlacedAt
<1>5. (\A i \in DOMAIN producers : producers[i].head = producers[i].tail)
        <=> \A t \in Threads : Inbox(t) = <<>>
  <2>1. ASSUME NEW t \in Threads, \A i \in DOMAIN producers :
                   producers[i].head = producers[i].tail
        PROVE  Inbox(t) = <<>>
    <3>1. CASE \A p \in DOMAIN producers : producers[p].owner # t
      BY <1>0, <3>1 DEF Inboxes
    <3>2. CASE \E p \in DOMAIN producers : producers[p].owner = t
      <4>1. PICK p \in DOMAIN producers : producers[p].owner = t
        BY <3>2
      <4>2. PICK h \in Nat : h = producers[p].head
        BY <1>0, ProducerTyped
      <4>3. Inbox(t) = Between(t, h, h)
        BY <1>0, <2>1, <4>1, <4>2 DEF Inboxes
      <4> QED BY <4>3, NoneBetween
    <3> QED BY <3>1, <3>2
  <2>2. ASSUME NEW i \in DOMAIN producers, \A t \in Threads : Inbox(t) = <<>>
        PROVE  producers[i].head = producers[i].tail
    <3>1. PICK h \in Nat : h = producers[i].head
      BY <1>0, ProducerTyped
    <3>2. PICK x \in Nat : x = producers[i].tail
      BY <1>0, ProducerTyped
    <3>3. PICK t \in Threads : t = producers[i].owner
      BY <1>0, ProducerTyped
    <3>4. Between(t, h, x) = <<>>
      BY <1>0, <2>2, <3>1, <3>2, <3>3 DEF Inboxes
    <3>5. ~ (h < x)
      BY <3>4, OneTaken
    <3>6. h <= x
      BY <1>0, <3>1, <3>2 DEF Counted, CountedAt
    <3> QED BY <3>1, <3>2, <3>5, <3>6
  <2> QED BY <2>1, <2>2
<1>6. SeenAsked(c, IF \A t \in Threads : Inbox(t) = <<>> THEN "empty" ELSE "some")
  BY <1>2, <1>3, <1>5
<1>7. \A t \in Threads : [u \in Threads |-> Inbox(u)][t] = Inbox(t)
  OBVIOUS
<1> QED BY <1>2, <1>4, <1>6, <1>7
        DEF Requests!Ask, SeenAsked, SentStays, InboxStays, HandStays

\* and it is told false.
LEMMA FalseImplements ==
  ASSUME FullInv, FullInv', NEW c \in team, LookStep(c), con[c].at # "idle", con'[c] = AtRest,
         team = {c} /\ LoneAt(c) => Told(c)
  PROVE  Requests!ReturnFalse(c)
<1>0. TypeOK /\ Placed /\ Lone
  BY DEF FullInv, IInv, CountInv
<1>1. /\ c \in Consumers /\ SentStays /\ InboxStays /\ HandStays /\ UNCHANGED team
      /\ Hand(c) = NoItem /\ SeenAsked(c, con'[c].saw)
  BY LookSeen
<1>2. con'[c].saw = "no" /\ con'[c].at = "idle"
  BY RestFields
<1>3. con[c].saw # "no"
  BY <1>0, <1>1 DEF Placed, PlacedAt
<1>4. con[c].saw \in {"no", "empty", "some"}
  BY <1>0, <1>1 DEF TypeOK, ConsumerType
<1>5. team = {c} => con[c].saw = "empty"
  <2>1. team = {c} => Told(c)
    BY <1>0, <1>1 DEF Lone
  <2>2. con[c].at \in Aside
    BY DEF LookStep
  <2> QED BY <1>2, <1>3, <1>4, <2>1, <2>2 DEF Told
<1>6. SeenAsked(c, "no")
  BY <1>1, <1>2
<1> QED BY <1>1, <1>3, <1>5, <1>6
        DEF Requests!ReturnFalse, SeenAsked, SentStays, InboxStays, HandStays

\* All else it does until it takes an index is not seen.
LEMMA LookImplements ==
  ASSUME FullInv, FullInv', NEW c \in team,
         \/ loadSizeTail(c) \/ loadSizeHead(c) \/ tryBest(c)
         \/ loadTail(c) \/ loadOptimistic(c) \/ claim(c) \/ giveBack(c)
         \/ takeIndex(c) /\ ~ (con[c].count - con[c].overcommit < from(c).tail)
  PROVE  Requests!ReturnFalse(c) \/ UNCHANGED Requests!vars
<1>0. IInv /\ TypeOK /\ Placed
  BY DEF FullInv, IInv, CountInv
<1>1. LookStep(c)
  BY <1>0, LookSteps
<1>2. team = {c} /\ LoneAt(c) => Told(c)
  BY <1>0, ConsumerTold
<1>3. con[c].at # "idle" /\ (con'[c].saw = con[c].saw \/ con'[c] = AtRest)
  <2>1. CASE loadSizeTail(c)
    BY <1>0, <2>1, LoadSizeTailStep
  <2>2. CASE loadSizeHead(c)
    <3>1. con[c].at = "size" /\ con'[c].saw = con[c].saw
      BY <1>0, <2>2, LoadSizeHeadStep
    <3> QED BY <3>1
  <2>3. CASE tryBest(c)
    <3>1. CASE con[c].n > 0
      BY <1>0, <2>3, <3>1, TryBestStep
    <3>2. CASE ~ (con[c].n > 0)
      BY <1>0, <2>3, <3>2, NoneFoundStep
    <3> QED BY <3>1, <3>2
  <2>4. CASE loadTail(c)
    BY <1>0, <2>4, LoadTailStep
  <2>5. CASE loadOptimistic(c)
    <3>1. CASE from(c).optimistic - con[c].overcommit < con[c].tail
      BY <1>0, <2>5, <3>1, SeemsLeftStep
    <3>2. CASE ~ (from(c).optimistic - con[c].overcommit < con[c].tail)
      <4>1. con[c].at = "check" /\ NextOf(c, con'[c])
        BY <1>0, <2>5, <3>2, AllClaimedStep
      <4> QED BY <4>1 DEF NextOf
    <3> QED BY <3>1, <3>2
  <2>6. CASE claim(c)
    BY <1>0, <2>6, ClaimStep
  <2>7. CASE giveBack(c)
    <3>1. con[c].at = "giveBack" /\ NextOf(c, con'[c])
      BY <1>0, <2>7, GiveBackStep
    <3> QED BY <3>1 DEF NextOf
  <2>8. CASE takeIndex(c) /\ ~ (con[c].count - con[c].overcommit < from(c).tail)
    BY <1>0, <2>8, TakeFailsStep
  <2> QED BY <2>1, <2>2, <2>3, <2>4, <2>5, <2>6, <2>7, <2>8
<1>4. CASE con'[c] = AtRest
  BY <1>1, <1>2, <1>3, <1>4, FalseImplements
<1>5. CASE con'[c].saw = con[c].saw
  BY <1>1, <1>5, LookSeen, NothingSeen
<1> QED BY <1>3, <1>4, <1>5

\* To take an index is to dequeue the item there.
LEMMA TakeImplements ==
  ASSUME FullInv, FullInv', NEW c \in team, takeIndex(c),
             con[c].count - con[c].overcommit < from(c).tail
  PROVE  \E t \in Threads : Requests!Dequeue(c, t)
<1>0. /\ TypeOK /\ Placed /\ Inboxes /\ Inboxes' /\ InHands /\ InHands' /\ OwnedOnce /\ Counted'
      /\ c \in Consumers
  BY InboxesAre, NextInboxes, HandsAre, NextHandsAre DEF FullInv, IInv, CountInv, HashInv,
     TypeOK
<1>1. PICK p : p = con[c].p
  OBVIOUS
<1>2. PICK h : h = producers[p].head
  OBVIOUS
<1>3. PICK x : x = producers[p].tail
  OBVIOUS
<1>4. PICK t : t = producers[p].owner
  OBVIOUS
<1>5. /\ ConOnly(c) /\ con[c].at = "verify" /\ p \in DOMAIN producers
      /\ con'[c].at = "header" /\ con'[c].saw = con[c].saw /\ con'[c].p = p /\ con'[c].i = h
  BY <1>0, <1>1, <1>2, TakeIndexStep DEF from
<1>6. /\ OnlyAt(p) /\ producers'[p].head = h + 1 /\ producers'[p].owner = t
      /\ producers'[p].tail = x
  BY <1>0, <1>1, <1>2, <1>3, <1>4, TakeIndexStep DEF from
<1>7. h \in Nat /\ x \in Nat /\ t \in Threads
  BY <1>0, <1>2, <1>3, <1>4, <1>5, ProducerTyped
<1>8. h < x
  <2>1. p \in DOMAIN producers'
    BY <1>5, <1>6 DEF OnlyAt
  <2>2. producers'[p].head <= producers'[p].tail
    BY <1>0, <2>1 DEF Counted, CountedAt
  <2> QED BY <1>6, <1>7, <2>2
<1>9. PICK item : item = [from |-> t, no |-> h + 1]
  OBVIOUS
<1>10. Inbox(t) = Between(t, h, x)
  BY <1>0, <1>2, <1>3, <1>4, <1>5, <1>7 DEF Inboxes
<1>11. Inbox(t)' = Between(t, h + 1, x)
  <2>1. p \in DOMAIN producers'
    BY <1>5, <1>6 DEF OnlyAt
  <2>2. Inbox(t)' = Between(t, producers'[p].head, producers'[p].tail)
    BY <1>0, <1>6, <1>7, <2>1 DEF Inboxes, Between
  <2> QED BY <1>6, <2>2
<1>12. Inbox(t) # <<>> /\ Head(Inbox(t)) = item /\ Inbox(t)' = Tail(Inbox(t))
  <2>1. /\ Between(t, h, x) # <<>>
        /\ Head(Between(t, h, x)) = [from |-> t, no |-> h + 1]
        /\ Tail(Between(t, h, x)) = Between(t, h + 1, x)
    BY <1>7, <1>8, OneTaken
  <2> QED BY <1>9, <1>10, <1>11, <2>1
<1>13. /\ DOMAIN producers' = DOMAIN producers
       /\ \A q \in DOMAIN producers \ {p} : producers'[q] = producers[q]
              /\ producers[q].owner # t
  BY <1>0, <1>4, <1>5, <1>6 DEF OnlyAt, OwnedOnce
<1>14. ASSUME NEW u \in Threads \ {t} PROVE Inbox(u)' = Inbox(u)
  <2>1. CASE \E q \in DOMAIN producers : producers[q].owner = u
    <3>1. PICK q \in DOMAIN producers : producers[q].owner = u
      BY <2>1
    <3>2. producers'[q] = producers[q]
      BY <1>4, <1>13, <3>1
    <3>3. Inbox(u) = Between(u, producers[q].head, producers[q].tail)
      BY <1>0, <3>1 DEF Inboxes
    <3>4. Inbox(u)' = Between(u, producers'[q].head, producers'[q].tail)
      BY <1>0, <1>13, <3>1, <3>2 DEF Inboxes, Between
    <3> QED BY <3>2, <3>3, <3>4
  <2>2. CASE \A q \in DOMAIN producers : producers[q].owner # u
    <3>1. \A q \in DOMAIN producers' : producers'[q].owner # u
      BY <1>5, <1>6, <1>13, <2>2
    <3> QED BY <1>0, <2>2, <3>1 DEF Inboxes
  <2> QED BY <2>1, <2>2
<1>15. \A q \in DOMAIN producers : producers'[q].owner = producers[q].owner
  BY <1>4, <1>6, <1>13
<1>16. /\ SentStays /\ UNCHANGED team
       /\ \A d \in Consumers \ {c} : con'[d].saw = con[d].saw /\ Hand(d)' = Hand(d)
  BY <1>0, <1>5, <1>15, OthersSeen
<1>17. Hand(c) = NoItem
  BY <1>0, <1>5 DEF InHands, Taking
<1>18. Hand(c)' = item
  <2>1. con'[c].at \in Taking
    BY <1>5 DEF Taking
  <2>2. Hand(c)' = [from |-> producers'[con'[c].p].owner, no |-> con'[c].i + 1]
    BY <1>0, <2>1 DEF InHands, ItemAt, Taking
  <2> QED BY <1>5, <1>6, <1>9, <2>2
<1>19. con[c].saw # "no"
  BY <1>0, <1>5 DEF Placed, PlacedAt
<1>20. SeenHand(c, item)
  BY <1>0, <1>16, <1>18 DEF SeenHand
<1>21. [d \in Consumers |-> con'[d].saw] = [d \in Consumers |-> con[d].saw]
  BY <1>5, <1>16
<1>22. [u \in Threads |-> Inbox(u)'] = [[u \in Threads |-> Inbox(u)] EXCEPT ![t] = Tail(@)]
  BY <1>7, <1>12, <1>14
<1>23. [u \in Threads |-> thr'[u].sent] = [u \in Threads |-> thr[u].sent]
  BY <1>16 DEF SentStays
<1>24. /\ [u \in Threads |-> Inbox(u)][t] = Inbox(t)
       /\ [d \in Consumers |-> con[d].saw][c] = con[c].saw
       /\ [d \in Consumers |-> Hand(d)][c] = Hand(c)
  BY <1>0, <1>7
<1>25. Requests!Dequeue(c, t)
  BY <1>12, <1>16, <1>17, <1>19, <1>20, <1>21, <1>22, <1>23, <1>24
     DEF Requests!Dequeue, SeenHand
<1> QED BY <1>7, <1>25

\* A consumer that has taken an index either keeps it or returns with its item.
LEMMA TakenSteps ==
  ASSUME IInv, NEW c \in team,
         \/ loadIndex(c) \/ loadIndexTail(c) \/ loadKey(c) \/ moveElement(c)
         \/ set_empty(c) \/ clearEntry(c) \/ freeBlock(c)
  PROVE  /\ c \in Consumers /\ ConOnly(c) /\ con[c].at \in Taking
         /\ con[c].p \in DOMAIN producers
         /\ DOMAIN producers' = DOMAIN producers /\ \A p \in DOMAIN producers : CountersStay(p)
         /\ \/ con'[c] = AtRest
            \/ /\ con'[c].at \in Taking
               /\ con'[c].p = con[c].p /\ con'[c].i = con[c].i /\ con'[c].saw = con[c].saw
<1>0. /\ TypeOK /\ Placed /\ IndexShape /\ Searches /\ IndexInv /\ CountInv /\ BlockInv
      /\ EntriesOwn
      /\ c \in Consumers
  BY DEF IInv, CountInv, IndexInv, BlockInv, Ownership, TypeOK
<1>1. ASSUME ConOnly(c), UNCHANGED producers, con[c].at \in {"header", "tail", "key", "move"},
             con'[c].at \in {"tail", "key", "move", "empty"},
             con'[c].p = con[c].p, con'[c].i = con[c].i, con'[c].saw = con[c].saw
      PROVE  /\ con[c].at \in Taking /\ con[c].p \in DOMAIN producers /\ ConOnly(c)
             /\ DOMAIN producers' = DOMAIN producers
                    /\ \A p \in DOMAIN producers : CountersStay(p)
             /\ con'[c].at \in Taking
             /\ con'[c].p = con[c].p /\ con'[c].i = con[c].i /\ con'[c].saw = con[c].saw
  <2>1. con[c].at \in Taking /\ con'[c].at \in Taking
    BY <1>1 DEF Taking
  <2>2. con[c].p \in DOMAIN producers
    BY <1>0, <1>1 DEF Placed, PlacedAt, AtProducer
  <2>3. \A p \in DOMAIN producers : CountersStay(p)
    BY <1>1 DEF CountersStay
  <2> QED BY <1>1, <2>1, <2>2, <2>3
<1>2. CASE loadIndex(c)
  <2>1. /\ ConOnly(c) /\ UNCHANGED producers /\ con[c].at = "header" /\ con'[c].at = "tail"
        /\ con'[c].p = con[c].p /\ con'[c].i = con[c].i /\ con'[c].saw = con[c].saw
    BY <1>0, <1>2, LoadIndexStep
  <2> QED BY <1>0, <1>1, <2>1
<1>3. CASE loadIndexTail(c)
  <2>1. /\ ConOnly(c) /\ UNCHANGED producers /\ con[c].at = "tail" /\ con'[c].at = "key"
        /\ con'[c].p = con[c].p /\ con'[c].i = con[c].i /\ con'[c].saw = con[c].saw
    BY <1>0, <1>3, LoadIndexTailStep
  <2> QED BY <1>0, <1>1, <2>1
<1>4. CASE loadKey(c)
  <2>1. /\ ConOnly(c) /\ UNCHANGED producers /\ con[c].at = "key" /\ con'[c].at = "move"
        /\ con'[c].p = con[c].p /\ con'[c].i = con[c].i /\ con'[c].saw = con[c].saw
    BY <1>0, <1>4, LoadKeyStep
  <2> QED BY <1>0, <1>1, <2>1
<1>5. CASE moveElement(c)
  <2>1. con[c].at = "move"
    BY <1>0, <1>5 DEF TypeOK, moveElement, ConAt
  <2>2. PICK b : b = ValueOf(con[c].p, con[c].entry)
    OBVIOUS
  <2>3. b \in DOMAIN blocks /\ entry(c).value = b
    BY <1>0, <2>1, <2>2, EntryFound DEF entry, from, ValueOf
  <2>4. /\ ConOnly(c) /\ UNCHANGED producers /\ con'[c].at = "empty"
        /\ con'[c].p = con[c].p /\ con'[c].i = con[c].i /\ con'[c].saw = con[c].saw
    BY <1>0, <1>5, <2>3, MoveElementStep
  <2> QED BY <1>0, <1>1, <2>1, <2>4
<1>6. CASE set_empty(c) \/ clearEntry(c) \/ freeBlock(c)
  <2>1. /\ con[c].at \in {"empty", "clear", "free"} /\ con[c].p \in DOMAIN producers
        /\ ConOnly(c) /\ Leaves(c) /\ DOMAIN producers' = DOMAIN producers
        /\ \A p \in DOMAIN producers : CountersStay(p)
    BY <1>6, LeavingSteps
  <2> QED BY <1>0, <2>1 DEF Leaves, Taking
<1> QED BY <1>2, <1>3, <1>4, <1>5, <1>6

\* It keeps the item until it returns with it.
LEMMA TakenImplements ==
  ASSUME FullInv, FullInv', NEW c \in team,
         \/ loadIndex(c) \/ loadIndexTail(c) \/ loadKey(c) \/ moveElement(c)
         \/ set_empty(c) \/ clearEntry(c) \/ freeBlock(c)
  PROVE  Requests!ReturnTrue(c) \/ UNCHANGED Requests!vars
<1>0. /\ IInv /\ TypeOK /\ Placed /\ InHands /\ InHands'
  BY HandsAre, NextHandsAre DEF FullInv, IInv, CountInv
<1>1. /\ c \in Consumers /\ ConOnly(c) /\ con[c].at \in Taking /\ con[c].p \in DOMAIN producers
      /\ DOMAIN producers' = DOMAIN producers /\ \A p \in DOMAIN producers : CountersStay(p)
  BY <1>0, TakenSteps
<1>2. \/ con'[c] = AtRest
      \/ /\ con'[c].at \in Taking
         /\ con'[c].p = con[c].p /\ con'[c].i = con[c].i /\ con'[c].saw = con[c].saw
  BY <1>0, TakenSteps
<1>3. /\ SentStays /\ UNCHANGED team
      /\ \A d \in Consumers \ {c} : con'[d].saw = con[d].saw /\ Hand(d)' = Hand(d)
  BY <1>1, OthersSeen DEF CountersStay
<1>4. InboxStays
  BY <1>1, InboxKept DEF CountersStay
<1>5. CASE con'[c] = AtRest
  <2>1. con'[c].saw = "no" /\ con'[c].at \notin Taking
    BY <1>5, RestFields DEF Taking
  <2>2. Hand(c) # NoItem
    <3>1. Hand(c) = [from |-> producers[con[c].p].owner, no |-> con[c].i + 1]
      BY <1>0, <1>1 DEF InHands, ItemAt
    <3>2. producers[con[c].p].owner \in Threads /\ NoThread \notin Threads
      BY <1>0, <1>1, ProducerTyped, HashConstants
    <3> QED BY <3>1, <3>2 DEF NoItem
  <2>3. Hand(c)' = NoItem
    BY <1>0, <1>1, <2>1 DEF InHands
  <2>4. SeenHand(c, NoItem)
    BY <1>3, <2>3 DEF SeenHand
  <2>5. SeenAsked(c, "no")
    BY <1>1, <1>3, <2>1 DEF SeenAsked
  <2>6. [d \in Consumers |-> Hand(d)][c] = Hand(c)
    BY <1>1
  <2> QED BY <1>3, <1>4, <2>2, <2>4, <2>5, <2>6
          DEF Requests!ReturnTrue, SeenAsked, SeenHand, SentStays, InboxStays
<1>6. CASE /\ con'[c].at \in Taking
           /\ con'[c].p = con[c].p /\ con'[c].i = con[c].i /\ con'[c].saw = con[c].saw
  <2>1. Hand(c)' = Hand(c)
    <3>1. \A p \in DOMAIN producers : producers'[p].owner = producers[p].owner
      BY <1>1 DEF CountersStay
    <3>2. {c} \in SUBSET Consumers /\ \A d \in {c} :
            /\ con'[d].at \in Taking <=> con[d].at \in Taking
            /\ con'[d].at \in Taking => con'[d].p = con[d].p /\ con'[d].i = con[d].i
      BY <1>1, <1>6
    <3>3. \A d \in {c} : Hand(d)' = Hand(d)
      BY <1>0, <3>1, <3>2, HandFrame
    <3> QED BY <3>3
  <2>2. HandStays
    BY <1>3, <2>1 DEF HandStays
  <2>3. AskedStays
    BY <1>3, <1>6 DEF AskedStays
  <2> QED BY <1>3, <1>4, <2>2, <2>3, NothingSeen
<1> QED BY <1>2, <1>5, <1>6

\* It begins as the queue it promises to be,
LEMMA InitImplements == Init => Requests!Init
<1> SUFFICES ASSUME Init PROVE Requests!Init
  OBVIOUS
<1>0. Inboxes /\ InHands /\ TypeOK
  BY InitFull, InboxesAre, HandsAre DEF FullInv, IInv
<1>1. DOMAIN producers = {} /\ \A c \in Consumers : con[c] = AtRest
  BY InitTyped
<1>2. \A t \in Threads : thr[t].sent = 0
  BY DEF Init
<1>3. \A t \in Threads : Inbox(t) = <<>>
  BY <1>0, <1>1 DEF Inboxes
<1>4. \A c \in Consumers : con[c].saw = "no" /\ con[c].at \notin Taking
  BY <1>1, RestFields DEF Taking
<1>5. \A c \in Consumers : Hand(c) = NoItem
  BY <1>0, <1>4 DEF InHands
<1>6. team \in SUBSET Consumers
  BY <1>0 DEF TypeOK
<1> QED BY <1>2, <1>3, <1>4, <1>5, <1>6 DEF Requests!Init

\* and every step is one of that queue, or is not seen.
LEMMA NextImplements ==
  ASSUME FullInv, FullInv', [Next]_vars
  PROVE  [Requests!Next]_(Requests!vars)
<1>0. IInv
  BY DEF FullInv
<1>1. CASE UNCHANGED vars
  <2>1. UNCHANGED <<producers, thr, blocks, con, team>>
    BY <1>1 DEF vars
  <2>2. SentStays /\ AskedStays
    BY <2>1 DEF SentStays, AskedStays
  <2>3. InboxStays
    BY <2>1, InboxKept
  <2>4. HandStays
    BY <2>1 DEF HandStays, Hand, from
  <2> QED BY <2>1, <2>2, <2>3, <2>4, NothingSeen
<1>2. ASSUME NEW t \in Threads,
        \/ enqueue(t) \/ getProducer(t) \/ fillBlock(t) \/ noIndex(t)
        \/ insert_block_index_entry(t) \/ new_block_index(t) \/ setIndexTail(t)
        \/ requisition_block(t) \/ requisitionFails(t) \/ storeBlock(t)
        \/ writeElement(t) \/ storeTail(t)
      PROVE [Requests!Next]_(Requests!vars)
  <2>1. CASE storeTail(t)
    BY <2>1, StoreTailEnqueues DEF Requests!Next
  <2>2. CASE ~ storeTail(t)
    <3>1. Unsent(t)
      BY <1>0, <1>2, <2>2, ThreadUnsent
    <3> QED BY <3>1, UnsentUnseen
  <2> QED BY <2>1, <2>2
<1>3. ASSUME NEW c \in team,
        \/ try_dequeue(c) \/ loadSizeTail(c) \/ loadSizeHead(c) \/ tryBest(c)
        \/ loadTail(c) \/ loadOptimistic(c) \/ claim(c) \/ takeIndex(c) \/ giveBack(c)
        \/ loadIndex(c) \/ loadIndexTail(c) \/ loadKey(c) \/ moveElement(c)
        \/ set_empty(c) \/ clearEntry(c) \/ freeBlock(c)
      PROVE [Requests!Next]_(Requests!vars)
  <2>1. CASE try_dequeue(c)
    BY <2>1, AskImplements DEF Requests!Next
  <2>2. CASE \/ loadSizeTail(c) \/ loadSizeHead(c) \/ tryBest(c)
             \/ loadTail(c) \/ loadOptimistic(c) \/ claim(c) \/ giveBack(c)
    BY <2>2, LookImplements DEF Requests!Next
  <2>3. CASE takeIndex(c)
    <3>1. CASE con[c].count - con[c].overcommit < from(c).tail
      BY <2>3, <3>1, TakeImplements DEF Requests!Next
    <3>2. CASE ~ (con[c].count - con[c].overcommit < from(c).tail)
      BY <2>3, <3>2, LookImplements DEF Requests!Next
    <3> QED BY <3>1, <3>2
  <2>4. CASE \/ loadIndex(c) \/ loadIndexTail(c) \/ loadKey(c) \/ moveElement(c)
             \/ set_empty(c) \/ clearEntry(c) \/ freeBlock(c)
    BY <2>4, TakenImplements DEF Requests!Next
  <2> QED BY <1>3, <2>1, <2>2, <2>3, <2>4
<1> QED BY <1>1, <1>2, <1>3 DEF Next

\* Of every table, index and block reused, nothing is seen but the queue RequestQueue
\* describes: no item is lost, doubled or out of the order of its thread, and a lone consumer
\* is told that nothing is there only if that was so when it asked (try_dequeue,
\* concurrentqueue.h:1038-1068).
THEOREM QueueImplements == Spec => ImplementsRequestQueue
<1>1. Init => FullInv
  BY InitFull
<1>2. FullInv /\ [Next]_vars => FullInv'
  BY NextFull
<1>3. Init => Requests!Init
  BY InitImplements
<1>4. FullInv /\ FullInv' /\ [Next]_vars => [Requests!Next]_(Requests!vars)
  BY NextImplements
<1> QED BY <1>1, <1>2, <1>3, <1>4, PTL DEF Spec, ImplementsRequestQueue, Requests!Spec
=============================================================================
