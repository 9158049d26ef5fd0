----------------------------- MODULE ProducerHash -----------------------------
(***************************************************************************)
(* get_or_add_implicit_producer of concurrentqueue.h: each thread that     *)
(* enqueues has an implicit producer of its own, which it finds by its id  *)
(* in a hash table without locks.  A table that is half full is superseded *)
(* by a bigger one, but not copied: threads find their way through the     *)
(* tables before it, and move to the new one when they come by.            *)
(***************************************************************************)
EXTENDS Integers, Sequences, FiniteSetsExt

CONSTANTS
  Threads, NoThread,  \* NoThread: invalid_thread_id
  HashSize,           \* INITIAL_IMPLICIT_PRODUCER_HASH_SIZE
  hash_thread_id      \* a function on Threads

ASSUME HashConstants ==
  /\ NoThread \notin Threads /\ IsFiniteSet(Threads)
  /\ HashSize \in Nat \ {0} /\ \E k \in 0 .. 10 : HashSize = 2 ^ k
  /\ hash_thread_id \in [Threads -> Nat]

VARIABLES
  tables,      \* the tables, the newest last; each precedes the next by `prev'
  hashCount,   \* implicitProducerHashCount
  resizing,    \* implicitProducerHashResizeInProgress
  producers,   \* the producers, the newest last: producerListTail
  failures,    \* how many allocations may still fail
  thr          \* thr[t]: where thread t is, and its locals

hvars == <<tables, hashCount, resizing, failures>>

NoProducer == 0
EmptyTable(capacity) ==
  [i \in 0 .. capacity - 1 |-> [key |-> NoThread, value |-> NoProducer]]
Capacity(main) == Cardinality(DOMAIN tables[main])

HashInit ==
  /\ tables = <<EmptyTable(HashSize)>>
  /\ hashCount = 0 /\ resizing = FALSE /\ producers = <<>>

ThrAt(t, label) == thr[t].at = label
Now(t, locals) == thr' = [thr EXCEPT ![t] = locals]
Jump(t, label) == Now(t, [thr[t] EXCEPT !.at = label])

\* On to the producer that was found or made.
EnqueueTo(t, p) ==
  Now(t, [thr[t] EXCEPT !.at = "enqueue", !.main = 0, !.count = 0, !.producer = p])

\* malloc returns a null pointer: the call gives up, and enqueue returns false.
Fails(t) ==
  /\ failures > 0 /\ failures' = failures - 1
  /\ Now(t, [thr[t] EXCEPT !.at = "idle", !.main = 0, !.count = 0])

\* The first slot with one of these keys from where the hash of t points.
FirstSlot(T, t, keys) ==
  LET size == Cardinality(DOMAIN T)
      slot(k) == (hash_thread_id[t] + k) % size
  IN  slot(Min({k \in 0 .. size - 1 : T[slot(k)].key \in keys}))

\* Where the search for t in T ends.
Probe(T, t) == FirstSlot(T, t, {t, NoThread})

Claimed(T, t, p) ==
  [T EXCEPT ![FirstSlot(T, t, {NoThread})] = [key |-> t, value |-> p]]
-----------------------------------------------------------------------------
\* Mutant: the thread is not searched for in the tables before the main one.
findProducer_MainOnly(t) ==
  /\ ThrAt(t, "find")
  /\ LET main == Len(tables)
         i == Probe(tables[main], t)
     IN  IF tables[main][i].key # t THEN Now(t, [thr[t] EXCEPT !.at = "add", !.main = main])
         ELSE EnqueueTo(t, tables[main][i].value)
  /\ UNCHANGED <<hvars, producers>>

\* The search through all the tables is one step: only t writes its key.
findProducer(t) ==
  /\ ThrAt(t, "find")
  /\ LET found == {i \in DOMAIN tables : tables[i][Probe(tables[i], t)].key = t}
         i == Max(found)
         main == Len(tables)
         p == tables[i][Probe(tables[i], t)].value
     IN  IF found = {} THEN Now(t, [thr[t] EXCEPT !.at = "add", !.main = main])
         ELSE IF i = main THEN EnqueueTo(t, p)
         ELSE Now(t, [thr[t] EXCEPT !.at = "move", !.main = main, !.producer = p])
  /\ UNCHANGED <<hvars, producers>>

\* It was in an older table: add it to the main one as well.
moveToMain(t) ==
  /\ ThrAt(t, "move") /\ EnqueueTo(t, thr[t].producer)
  /\ tables' = [tables EXCEPT ![thr[t].main] = Claimed(@, t, thr[t].producer)]
  /\ UNCHANGED <<hashCount, resizing, failures, producers>>

addOne(t) ==
  /\ ThrAt(t, "add")
  /\ hashCount' = hashCount + 1
  /\ Now(t, [thr[t] EXCEPT !.at = "room", !.count = hashCount + 1])
  /\ UNCHANGED <<tables, resizing, failures, producers>>

HalfFull(t, main) == thr[t].count >= Capacity(main) \div 2
Fits(t, main) == thr[t].count < (Capacity(main) \div 2) + (Capacity(main) \div 4)

\* test_and_set finds the flag clear.
startResize(t) ==
  /\ ThrAt(t, "room") /\ HalfFull(t, thr[t].main) /\ ~ resizing
  /\ resizing' = TRUE /\ Jump(t, "resize")
  /\ UNCHANGED <<tables, hashCount, failures, producers>>

\* The capacity is doubled until the count is less than a half of it.
NewCapacity(t, main, new) ==
  /\ thr[t].count < new \div 2
  /\ new = 2 * Capacity(main) \/ thr[t].count >= (new \div 2) \div 2
  /\ \E k \in 1 .. thr[t].count + 1 : new = Capacity(main) * 2 ^ k

resize(t) ==
  /\ ThrAt(t, "resize")
  /\ LET main == Len(tables)
     IN  IF HalfFull(t, main)
           THEN /\ \E new \in 2 * Capacity(main) .. 4 * thr[t].count + 2 :
                     NewCapacity(t, main, new) /\ tables' = Append(tables, EmptyTable(new))
                /\ Now(t, [thr[t] EXCEPT !.at = "resized", !.main = main + 1])
           ELSE /\ Now(t, [thr[t] EXCEPT !.at = "resized", !.main = main])
                /\ UNCHANGED tables
  /\ UNCHANGED <<hashCount, resizing, failures, producers>>

\* The count goes down before the flag is cleared; it is one step here.
resizeFails(t) ==
  /\ ThrAt(t, "resize") /\ HalfFull(t, Len(tables))
  /\ Fails(t)
  /\ hashCount' = hashCount - 1 /\ resizing' = FALSE
  /\ UNCHANGED <<tables, producers>>

endResize(t) ==
  /\ ThrAt(t, "resized")
  /\ resizing' = FALSE
  /\ Jump(t, IF Fits(t, thr[t].main) THEN "create" ELSE "wait")
  /\ UNCHANGED <<tables, hashCount, failures, producers>>

\* There is no need to resize, or another thread is at it.
goWithoutResize(t) ==
  /\ ThrAt(t, "room") /\ (HalfFull(t, thr[t].main) => resizing)
  /\ Jump(t, IF Fits(t, thr[t].main) THEN "create" ELSE "wait")
  /\ UNCHANGED <<hvars, producers>>

\* The main table is loaded again.
waitForResize(t) ==
  /\ ThrAt(t, "wait")
  /\ Now(t, [thr[t] EXCEPT !.at = "room", !.main = Len(tables)])
  /\ UNCHANGED <<hvars, producers>>

\* recycle_or_create_producer: none is ever inactive, so a new one is pushed.
createProducer(t, new) ==
  /\ ThrAt(t, "create")
  /\ producers' = Append(producers, new)
  /\ Now(t, [thr[t] EXCEPT !.at = "insert", !.producer = Len(producers) + 1])
  /\ UNCHANGED hvars

createFails(t) ==
  /\ ThrAt(t, "create")
  /\ Fails(t) /\ hashCount' = hashCount - 1
  /\ UNCHANGED <<tables, resizing, producers>>

insertProducer(t) ==
  /\ ThrAt(t, "insert") /\ EnqueueTo(t, thr[t].producer)
  /\ tables' = [tables EXCEPT ![thr[t].main] = Claimed(@, t, thr[t].producer)]
  /\ UNCHANGED <<hashCount, resizing, failures, producers>>

HashNext(t, new) ==
  \/ findProducer(t) \/ moveToMain(t) \/ addOne(t) \/ startResize(t) \/ resize(t)
  \/ resizeFails(t) \/ endResize(t) \/ goWithoutResize(t) \/ waitForResize(t)
  \/ createProducer(t, new) \/ createFails(t) \/ insertProducer(t)
=============================================================================
