-------------------------- MODULE NameWriterProofs --------------------------
(***************************************************************************)
(* Theorems about NameWriter, for any threads, entities, names, loaded     *)
(* data, requests and size of the queue of Strings.                        *)
(***************************************************************************)
EXTENDS NameWriter, FiniteSetTheorems, TLAPS

-----------------------------------------------------------------------------
(* Types.                                                                  *)

\* The dictionaries, and those the fields of a user or a location are in.
LEMMA DictNames ==
  /\ AllDicts = {"first_name", "last_name", "city", "country", "place"}
  /\ \A k \in Kinds : Dicts(k) \subseteq AllDicts
BY DEF AllDicts, Kinds, Dicts

\* The names that are sent are in the order of the worker's code.
LEMMA InOrderType ==
  ASSUME NEW k \in Kinds, NEW D
  PROVE  InOrder(k, D) \in Seq(D)
<1>1. \A d : FieldIf(d, D) \in Seq(D)
  BY DEF FieldIf
<1> QED BY <1>1 DEF InOrder

\* What the dictionaries are loaded with.
LEMMA LoadedDicts ==
  ASSUME Init, NEW d \in AllDicts
  PROVE  /\ vec[d] \in Seq(Names)
         /\ \A i, j \in DOMAIN vec[d] : i # j => vec[d][i] # vec[d][j]
         /\ DOMAIN map[d] = ToSet(vec[d])
         /\ \A i \in DOMAIN vec[d] : map[d][vec[d][i]] = i - 1
         /\ \A n \in ToSet(vec[d]) : map[d][n] \in 0 .. Len(vec[d]) - 1
<1>1. PICK c \in AllDicts : vec[d] \in SetToSeqs(Range(Loaded[c]))
  BY DEF Init
<1> DEFINE S == Range(Loaded[c])
           n == Cardinality(S)
<1>2. n \in Nat
  <2> DEFINE D == DOMAIN Loaded[c]
             f == [x \in D |-> Loaded[c][x]]
  <2>1. IsFiniteSet(D)
    BY FS_Subset, NameConstants
  <2>2. f \in Surjection(D, S)
    BY DEF Surjection, Range
  <2> HIDE DEF D, f, S
  <2>3. IsFiniteSet(S)
    BY <2>1, <2>2, FS_Surjection
  <2> QED BY <2>3, FS_CardinalityType
<1>3. /\ vec[d] \in [1 .. n -> S]
      /\ \A i, j \in 1 .. n : i # j => vec[d][i] # vec[d][j]
  BY <1>1 DEF SetToSeqs
<1>4. vec[d] \in Seq(Names) /\ Len(vec[d]) = n /\ DOMAIN vec[d] = 1 .. n
  <2>1. S \subseteq Names
    BY NameConstants
  <2> QED BY <1>2, <1>3, <2>1
<1>5. map[d] = [m \in ToSet(vec[d]) |->
                  CHOOSE i \in 0 .. Len(vec[d]) - 1 : vec[d][i + 1] = m]
  BY DEF Init
<1>6. ASSUME NEW i \in 1 .. n
      PROVE  map[d][vec[d][i]] = i - 1
  <2> DEFINE P(j) == vec[d][j + 1] = vec[d][i]
  <2>1. i - 1 \in 0 .. n - 1 /\ P(i - 1)
    BY <1>2
  <2>2. \A j \in 0 .. n - 1 : P(j) => j = i - 1
    BY <1>2, <1>3
  <2>3. (CHOOSE j \in 0 .. n - 1 : P(j)) = i - 1
    BY <2>1, <2>2
  <2>4. vec[d][i] \in ToSet(vec[d])
    BY <1>4 DEF ToSet
  <2> QED BY <1>4, <1>5, <2>3, <2>4
<1>7. ASSUME NEW m \in ToSet(vec[d])
      PROVE  map[d][m] \in 0 .. n - 1
  <2>1. PICK i \in 1 .. n : vec[d][i] = m
    BY <1>4 DEF ToSet
  <2> QED BY <1>2, <1>6, <2>1
<1> QED BY <1>3, <1>4, <1>5, <1>6, <1>7

\* The dictionaries start empty, or with the names that were loaded.
LEMMA InitDicts == Init => DictsTypeOK
<1> SUFFICES ASSUME Init PROVE DictsTypeOK
  OBVIOUS
<1>1. /\ exists \in [Kinds -> SUBSET Ids]
      /\ others \in [Kinds -> [Ids -> Contents \union {NoContent}]]
  <2>1. \A k \in Kinds : \E d \in AllDicts : DOMAIN LoadedOthers[k] = DOMAIN Loaded[d]
    BY NameConstants, DictNames DEF Kinds, Dicts
  <2>2. \A k \in Kinds : DOMAIN LoadedOthers[k] \subseteq Ids
    BY <2>1, NameConstants
  <2>3. \A k \in Kinds : \A e \in DOMAIN LoadedOthers[k] : LoadedOthers[k][e] \in Contents
    BY NameConstants DEF Range
  <2> QED BY <2>2, <2>3 DEF Init
<1>2. /\ vec \in [AllDicts -> Seq(Names)]
      /\ DOMAIN map = AllDicts
      /\ \A d \in AllDicts : DOMAIN map[d] \subseteq Names /\ map[d] \in [DOMAIN map[d] -> Nat]
  <2>1. DOMAIN vec = AllDicts /\ vec = [d \in AllDicts |-> vec[d]] /\ DOMAIN map = AllDicts
    BY DEF Init
  <2>2. \A d \in AllDicts : vec[d] \in Seq(Names)
    BY LoadedDicts
  <2>3. ASSUME NEW d \in AllDicts
        PROVE  DOMAIN map[d] \subseteq Names /\ map[d] \in [DOMAIN map[d] -> Nat]
    <3>1. DOMAIN map[d] = ToSet(vec[d]) /\ \A n \in ToSet(vec[d]) : map[d][n] \in Nat
      BY LoadedDicts
    <3>2. map[d] = [n \in ToSet(vec[d]) |->
                      CHOOSE i \in 0 .. Len(vec[d]) - 1 : vec[d][i + 1] = n]
      BY DEF Init
    <3>3. ToSet(vec[d]) \subseteq Names
      BY <2>2 DEF ToSet
    <3> QED BY <3>1, <3>2, <3>3
  <2> QED BY <2>1, <2>2, <2>3
<1>3. name_id \in [AllDicts -> [Ids -> Nat \union {NoId}]]
  <2> SUFFICES ASSUME NEW d \in AllDicts, NEW e \in DOMAIN Loaded[d]
               PROVE  map[d][Loaded[d][e]] \in Nat
    BY DEF Init
  <2>1. Loaded[d][e] \in ToSet(vec[d])
    BY DEF Init, Range
  <2> QED BY <2>1, LoadedDicts
<1> QED BY <1>1, <1>2, <1>3 DEF DictsTypeOK

\* The initial state is typed.
LEMMA InitTypeOK == Init => TypeOK
<1> SUFFICES ASSUME Init PROVE TypeOK
  OBVIOUS
<1>1. ThreadsTypeOK
  BY DEF Init, ThreadsTypeOK
<1>2. WorkersTypeOK
  <2>1. \A k \in Kinds : <<>> \in Seq(Body(k))
    OBVIOUS
  <2>2. 0 \in Indices
    BY NameConstants DEF Indices
  <2> QED BY <2>1, <2>2 DEF Init, WorkersTypeOK, HoldsBody
<1>3. StringsTypeOK
  BY NameConstants DEF Init, StringsTypeOK, Slots, Indices
<1> QED BY <1>1, <1>2, <1>3, InitDicts DEF TypeOK

\* A POST is of one kind, and what is enqueued for it is a body of its kind.
LEMMA PostType ==
  ASSUME NEW p \in Posts
  PROVE  /\ p.kind \in Kinds
         /\ [p.body EXCEPT !.id = IF p.entity_id = NoId THEN @ ELSE p.entity_id] \in Body(p.kind)
<1>1. PICK k \in Kinds : p \in Post(k)
  BY NameConstants
<1> DEFINE Others == Contents \union {NoContent}
           Sent == UNION {[D -> Names] : D \in SUBSET Dicts(k)}
           OptId == Ids \union {NoId}
<1>2. Body(k) = [id : Ids, sets_id : BOOLEAN, others : Others, names : Sent]
  BY DEF Body
<1>3. p.kind = k /\ p.body \in Body(k) /\ p.entity_id \in OptId
  BY <1>1 DEF Post
<1> HIDE DEF Others, Sent
<1> QED BY <1>2, <1>3

\* Answering and enqueueing a POST leaves the threads and queues typed.
LEMMA FinishType ==
  ASSUME TypeOK, NEW t \in Threads, NEW p \in Posts, Finish(t, p), working' = working
  PROVE  /\ ThreadsTypeOK'
         /\ DOMAIN requests' = Kinds
         /\ \A k \in Kinds : requests'[k] \in [Threads -> Seq(Body(k))]
<1> DEFINE b == [p.body EXCEPT !.id = IF p.entity_id = NoId THEN @ ELSE p.entity_id]
           answer == [post |-> p, code |-> Answer(p)]
<1>1. p.kind \in Kinds /\ b \in Body(p.kind)
  BY PostType
<1>2. requests' = [requests EXCEPT ![p.kind][t] = Append(@, b)]
  BY DEF Finish
<1>3. answer \in [post : Posts, code : {200, 400, 404}] /\ log' = log \union {answer}
  BY DEF Finish, Answer
<1>4. tpc' = [tpc EXCEPT ![t] = "idle"] /\ sent' = [sent EXCEPT ![t] = Blank]
  BY DEF Finish
<1> HIDE DEF b, answer
<1>5. ThreadsTypeOK'
  <2>1. log' \subseteq [post : Posts, code : {200, 400, 404}]
    BY <1>3 DEF TypeOK, ThreadsTypeOK
  <2> QED BY <1>4, <2>1 DEF TypeOK, ThreadsTypeOK
<1>6. ASSUME NEW k \in Kinds
      PROVE  requests'[k] \in [Threads -> Seq(Body(k))]
  <2>1. requests[k] \in [Threads -> Seq(Body(k))] /\ DOMAIN requests = Kinds
    BY DEF TypeOK, WorkersTypeOK
  <2>2. CASE k = p.kind
    <3>1. Append(requests[k][t], b) \in Seq(Body(k))
      BY <1>1, <2>1, <2>2
    <3>2. requests'[k] = [requests[k] EXCEPT ![t] = Append(requests[k][t], b)]
      BY <1>1, <1>2, <2>1, <2>2
    <3> QED BY <2>1, <3>1, <3>2
  <2>3. CASE k # p.kind
    BY <1>1, <1>2, <2>1, <2>3
  <2> QED BY <2>2, <2>3
<1>7. DOMAIN requests' = Kinds
  BY <1>2 DEF TypeOK, WorkersTypeOK
<1> QED BY <1>5, <1>6, <1>7

\* The steps of the server threads.
LEMMA ThreadStepType ==
  ASSUME TypeOK, NEW t \in Threads,
         \/ disableWriters(t) \/ enableWriters(t) \/ notify_all(t)
         \/ \E p \in Posts : handlePost(t, p)
  PROVE  TypeOK'
<1>1. CASE disableWriters(t) \/ enableWriters(t)
  <2>1. ThreadsTypeOK'
    BY <1>1, ZenonT(60) DEF disableWriters, enableWriters, TypeOK, ThreadsTypeOK
  <2>2. UNCHANGED <<svars, requests, wvars, qvars, spc, entry>>
    BY <1>1 DEF disableWriters, enableWriters
  <2> QED BY <2>1, <2>2 DEF TypeOK, DictsTypeOK, WorkersTypeOK, HoldsBody, StringsTypeOK,
          svars, wvars, qvars
<1>2. CASE notify_all(t)
  <2>1. sent[t] \in Posts
    BY <1>2 DEF notify_all, TypeOK, ThreadsTypeOK
  <2>2. /\ Finish(t, sent[t]) /\ working' = working
        /\ spc' = IF spc = "asleep" THEN "woken" ELSE spc
        /\ UNCHANGED <<svars, wvars, qvars, entry>>
    BY <1>2 DEF notify_all
  <2> QED BY <2>1, <2>2, FinishType DEF TypeOK, DictsTypeOK, WorkersTypeOK, HoldsBody,
          StringsTypeOK, svars, wvars, qvars
<1>3. ASSUME NEW p \in Posts, handlePost(t, p)
      PROVE  TypeOK'
  <2>1. UNCHANGED <<svars, working, wvars, qvars, spc, entry>>
    BY <1>3 DEF handlePost
  <2>2. CASE working
    <3>1. Finish(t, p)
      BY <1>3, <2>2 DEF handlePost
    <3> QED BY <2>1, <3>1, FinishType DEF TypeOK, DictsTypeOK, WorkersTypeOK, HoldsBody,
            StringsTypeOK, svars, wvars, qvars
  <2>3. CASE ~ working
    <3>1. /\ tpc' = [tpc EXCEPT ![t] = "set"] /\ sent' = [sent EXCEPT ![t] = p]
          /\ UNCHANGED <<log, requests>>
      BY <1>3, <2>3 DEF handlePost
    <3>2. ThreadsTypeOK'
      BY <2>1, <3>1 DEF TypeOK, ThreadsTypeOK
    <3> QED BY <2>1, <3>1, <3>2 DEF TypeOK, DictsTypeOK, WorkersTypeOK, HoldsBody,
            StringsTypeOK, svars, wvars, qvars
  <2> QED BY <2>2, <2>3
<1> QED BY <1>1, <1>2, <1>3

\* A body has an id, and a name of the kind's dictionaries for each of its fields.
LEMMA BodyType ==
  ASSUME NEW k \in Kinds, NEW b \in Body(k)
  PROVE  /\ b.id \in Ids /\ b.sets_id \in BOOLEAN /\ b.others \in Contents \union {NoContent}
         /\ DOMAIN b.names \subseteq AllDicts
         /\ \A d \in DOMAIN b.names : b.names[d] \in Names
<1> DEFINE Others == Contents \union {NoContent}
           Sent == UNION {[D -> Names] : D \in SUBSET Dicts(k)}
<1>1. Body(k) = [id : Ids, sets_id : BOOLEAN, others : Others, names : Sent]
  BY DEF Body
<1>2. \A ns \in Sent : DOMAIN ns \subseteq AllDicts /\ \A d \in DOMAIN ns : ns[d] \in Names
  BY DictNames
<1> HIDE DEF Others, Sent
<1>3. b.id \in Ids /\ b.sets_id \in BOOLEAN /\ b.others \in Others /\ b.names \in Sent
  BY <1>1
<1> QED BY <1>2, <1>3 DEF Others

\* What the worker of the other kind holds is left alone.
LEMMA OneWorker ==
  ASSUME WorkersTypeOK, NEW k \in Kinds,
         \A j \in Kinds \ {k} : /\ requests'[j] = requests[j] /\ wpc'[j] = wpc[j]
                                /\ item'[j] = item[j] /\ todo'[j] = todo[j],
         DOMAIN requests' = Kinds, DOMAIN item' = Kinds, DOMAIN todo' = Kinds,
         wpc' \in [Kinds -> {"loop", "dequeue", "names", "push"}],
         slot' \in [Kinds -> Indices],
         requests'[k] \in [Threads -> Seq(Body(k))],
         HoldsBody(k)'
  PROVE  WorkersTypeOK'
BY DEF WorkersTypeOK, HoldsBody

\* Taking a request off its queue leaves the state typed.
LEMMA WorkerTakeType ==
  ASSUME TypeOK, NEW k \in Kinds, NEW t \in Threads, WorkerTake(k, t)
  PROVE  TypeOK'
<1> DEFINE b == Head(requests[k][t])
<1>1. /\ requests[k][t] \in Seq(Body(k)) /\ requests[k][t] # <<>>
      /\ requests[k] \in [Threads -> Seq(Body(k))] /\ DOMAIN requests = Kinds
  BY DEF WorkerTake, TypeOK, WorkersTypeOK
<1>2. b \in Body(k) /\ Tail(requests[k][t]) \in Seq(Body(k))
  BY <1>1
<1>3. /\ item' = [item EXCEPT ![k] = b]
      /\ todo' = [todo EXCEPT ![k] = InOrder(k, DOMAIN b.names)]
      /\ exists' = [exists EXCEPT ![k] = IF b.sets_id THEN @ \union {b.id} ELSE @]
      /\ others' = [others EXCEPT ![k][b.id] = IF b.others # NoContent THEN b.others ELSE @]
      /\ requests' = [requests EXCEPT ![k][t] = Tail(@)]
      /\ wpc' = [wpc EXCEPT ![k] = "names"]
      /\ UNCHANGED <<name_id, vec, map, tvars, slot, qvars, spc, entry>>
  BY DEF WorkerTake
<1> HIDE DEF b
<1>4. WorkersTypeOK'
  <2>1. requests'[k] = [requests[k] EXCEPT ![t] = Tail(requests[k][t])]
    BY <1>1, <1>3
  <2>2. requests'[k] \in [Threads -> Seq(Body(k))] /\ DOMAIN requests' = Kinds
    BY <1>1, <1>2, <1>3, <2>1
  <2>3. HoldsBody(k)'
    BY <1>2, <1>3, InOrderType DEF TypeOK, WorkersTypeOK, HoldsBody
  <2> QED BY <1>3, <2>2, <2>3, OneWorker DEF TypeOK, WorkersTypeOK
<1>5. DictsTypeOK'
  <2>1. /\ exists \in [Kinds -> SUBSET Ids]
        /\ others \in [Kinds -> [Ids -> Contents \union {NoContent}]]
    BY DEF TypeOK, DictsTypeOK
  <2>2. b.id \in Ids /\ b.others \in Contents \union {NoContent}
    BY <1>2, BodyType
  <2>3. /\ exists' \in [Kinds -> SUBSET Ids]
        /\ others' \in [Kinds -> [Ids -> Contents \union {NoContent}]]
    BY <1>3, <2>1, <2>2
  <2> QED BY <1>3, <2>3 DEF TypeOK, DictsTypeOK
<1> QED BY <1>3, <1>4, <1>5 DEF TypeOK, ThreadsTypeOK, StringsTypeOK, tvars, qvars

\* The next field of a worker in a request.
LEMMA NextName ==
  ASSUME TypeOK, NEW k \in Kinds, wpc[k] \in {"names", "push"}, todo[k] # <<>>
  PROVE  /\ Head(todo[k]) \in AllDicts /\ Head(todo[k]) \in DOMAIN item[k].names
         /\ item[k].names[Head(todo[k])] \in Names
         /\ item[k].id \in Ids
         /\ Tail(todo[k]) \in Seq(DOMAIN item[k].names)
<1>1. item[k] \in Body(k) /\ todo[k] \in Seq(DOMAIN item[k].names)
  BY DEF TypeOK, WorkersTypeOK, HoldsBody
<1>2. \A S : \A s \in Seq(S) : s # <<>> => Head(s) \in S /\ Tail(s) \in Seq(S)
  OBVIOUS
<1>3. Head(todo[k]) \in DOMAIN item[k].names /\ Tail(todo[k]) \in Seq(DOMAIN item[k].names)
  BY <1>1, <1>2
<1> QED BY <1>1, <1>3, BodyType

\* Looking a name up leaves the state typed.
LEMMA WorkerNameType ==
  ASSUME TypeOK, NEW k \in Kinds, WorkerName(k)
  PROVE  TypeOK'
<1> DEFINE d == Head(todo[k])
           n == item[k].names[d]
<1>1. /\ wpc[k] = "names" /\ todo[k] # <<>>
      /\ UNCHANGED <<exists, others, vec, map, tvars, requests, item, qvars, spc, entry>>
  BY DEF WorkerName
<1>2. d \in AllDicts /\ item[k].id \in Ids /\ Tail(todo[k]) \in Seq(DOMAIN item[k].names)
  BY <1>1, NextName
<1>3. CASE IsKnown(d, n)
  <2>1. /\ name_id' = [name_id EXCEPT ![d][item[k].id] = map[d][n]]
        /\ todo' = [todo EXCEPT ![k] = Tail(@)]
        /\ UNCHANGED <<wpc, slot>>
    BY <1>3 DEF WorkerName
  <2>2. map[d][n] \in Nat
    BY <1>2, <1>3 DEF TypeOK, DictsTypeOK, IsKnown
  <2>3. DictsTypeOK'
    <3>1. name_id' \in [AllDicts -> [Ids -> Nat \union {NoId}]]
      BY <1>2, <2>1, <2>2 DEF TypeOK, DictsTypeOK
    <3> QED BY <1>1, <3>1 DEF TypeOK, DictsTypeOK
  <2>4. WorkersTypeOK'
    BY <1>1, <1>2, <2>1, OneWorker DEF TypeOK, WorkersTypeOK, HoldsBody
  <2> QED BY <1>1, <2>3, <2>4 DEF TypeOK, ThreadsTypeOK, StringsTypeOK, tvars, qvars
<1>4. CASE ~ IsKnown(d, n)
  <2>1. /\ wpc' = [wpc EXCEPT ![k] = "push"]
        /\ slot' = [slot EXCEPT ![k] = write_index]
        /\ UNCHANGED <<name_id, todo>>
    BY <1>4 DEF WorkerName
  <2>2. WorkersTypeOK'
    BY <1>1, <2>1, OneWorker DEF TypeOK, WorkersTypeOK, HoldsBody, StringsTypeOK
  <2> QED BY <1>1, <2>1, <2>2 DEF TypeOK, DictsTypeOK, ThreadsTypeOK, StringsTypeOK,
          tvars, qvars
<1> QED BY <1>3, <1>4

\* The next index is an index: it wraps at its width.
LEMMA IndexType == \A i \in Indices : NextIndex(i) \in Indices
BY NameConstants DEF NextIndex, Indices

\* Pushing a new name, or dropping it when full, leaves the state typed.
LEMMA WorkerPushType ==
  ASSUME TypeOK, NEW k \in Kinds, WorkerPush(k)
  PROVE  TypeOK'
<1> DEFINE d == Head(todo[k])
           eid == IF item[k].id \in exists[k] THEN item[k].id ELSE NoId
           new == [act |-> ActOf(d), id |-> eid, str |-> item[k].names[d]]
<1>1. /\ wpc[k] = "push" /\ todo[k] # <<>>
      /\ todo' = [todo EXCEPT ![k] = Tail(@)]
      /\ slot' = [slot EXCEPT ![k] = 0]
      /\ wpc' = [wpc EXCEPT ![k] = "names"]
      /\ UNCHANGED <<svars, tvars, requests, item, read_index, lost, spc, entry>>
  BY DEF WorkerPush, TypeOK, WorkersTypeOK, HoldsBody
<1>2. /\ d \in AllDicts /\ item[k].id \in Ids /\ item[k].names[d] \in Names
      /\ Tail(todo[k]) \in Seq(DOMAIN item[k].names)
  BY <1>1, NextName
<1>3. new \in QueueEntry
  <2>1. ActOf(d) \in 0 .. 4
    BY <1>2, DictNames DEF ActOf
  <2> QED BY <1>2, <2>1 DEF QueueEntry
<1>4. \/ UNCHANGED <<ring, write_index>>
      \/ ring' = [ring EXCEPT ![slot[k]] = new] /\ write_index' = NextIndex(slot[k])
  BY DEF WorkerPush
<1> HIDE DEF new
<1>5. StringsTypeOK'
  <2>1. slot[k] \in Indices /\ NextIndex(slot[k]) \in Indices
    BY IndexType DEF TypeOK, WorkersTypeOK
  <2>2. ring' \in [Indices -> Slots] /\ write_index' \in Indices
    <3>1. new \in Slots
      BY <1>3 DEF QueueEntry, Slots
    <3> QED BY <1>4, <2>1, <3>1 DEF TypeOK, StringsTypeOK
  <2> QED BY <1>1, <2>2 DEF TypeOK, StringsTypeOK
<1>6. WorkersTypeOK'
  <2>1. 0 \in Indices
    BY NameConstants DEF Indices
  <2> QED BY <1>1, <1>2, <2>1, OneWorker DEF TypeOK, WorkersTypeOK, HoldsBody
<1> QED BY <1>1, <1>5, <1>6 DEF TypeOK, DictsTypeOK, ThreadsTypeOK, svars, tvars

\* A step of the writer thread leaves the state typed.
LEMMA WorkerStepType ==
  ASSUME TypeOK, NEW k \in Kinds, Worker(k)
  PROVE  TypeOK'
<1>1. CASE WorkerCheck(k) \/ WorkerEmpty(k) \/ WorkerDone(k)
  <2>1. /\ UNCHANGED <<svars, tvars, requests, todo, slot, qvars, spc, entry>>
        /\ wpc' \in [Kinds -> {"loop", "dequeue", "names", "push"}]
        /\ \A j \in Kinds \ {k} : wpc'[j] = wpc[j] /\ item'[j] = item[j]
        /\ DOMAIN item' = Kinds
    BY <1>1 DEF WorkerCheck, WorkerEmpty, WorkerDone, TypeOK, WorkersTypeOK
  <2>2. HoldsBody(k)'
    BY <1>1 DEF WorkerCheck, WorkerEmpty, WorkerDone, TypeOK, WorkersTypeOK, HoldsBody
  <2>3. WorkersTypeOK'
    BY <2>1, <2>2, OneWorker DEF TypeOK, WorkersTypeOK
  <2> QED BY <2>1, <2>3 DEF TypeOK, DictsTypeOK, ThreadsTypeOK, StringsTypeOK,
          svars, tvars, qvars
<1> QED BY <1>1, WorkerTakeType, WorkerNameType, WorkerPushType DEF Worker

\* An entry names a dictionary, whatever its act is meant to say.
LEMMA EntryType ==
  ASSUME NEW e \in QueueEntry, e.act \in Handled
  PROVE  FieldOf(e.act) \in AllDicts /\ e.str \in Names /\ e.id \in Ids \union {NoId}
BY DictNames DEF QueueEntry, Handled, FieldOf

\* Storing the id of a name leaves the fields typed.
LEMMA StoredType ==
  ASSUME TypeOK, NEW d \in AllDicts, NEW eid \in Ids \union {NoId}, NEW id \in Nat
  PROVE  Stored(d, eid, id) \in [AllDicts -> [Ids -> Nat \union {NoId}]]
BY DEF Stored, TypeOK, DictsTypeOK

\* A slot whose string is not destroyed is an entry, and any slot is a slot when
\* its string is destroyed.
LEMMA SlotType ==
  ASSUME TypeOK, NEW i \in Indices
  PROVE  /\ ring[i] \in Slots /\ Destroyed(i) \in Slots
         /\ Holds(i) => ring[i] \in QueueEntry
<1>1. ring[i] \in Slots
  BY DEF TypeOK, StringsTypeOK
<1>2. CASE ring[i] = NoEntry
  <2>1. Destroyed(i) = NoEntry
    BY <1>2 DEF Destroyed, NoEntry
  <2> QED BY <1>1, <1>2, <2>1 DEF Holds, NoEntry, Slots
<1>3. CASE ring[i] \in [act : 0 .. 4, id : Ids \union {NoId}, str : Names \union {NoName}]
  <2>1. Destroyed(i) \in [act : 0 .. 4, id : Ids \union {NoId}, str : Names \union {NoName}]
    BY <1>3 DEF Destroyed
  <2> QED BY <1>1, <1>3, <2>1 DEF Holds, Slots, QueueEntry
<1> QED BY <1>1, <1>2, <1>3 DEF Slots

\* Taking what is in its queue leaves the state typed.
LEMMA StringsPopType ==
  ASSUME TypeOK, StringsPop
  PROVE  TypeOK'
<1> DEFINE e == ring[read_index]
           d == FieldOf(e.act)
<1>1. /\ spc = "pop" /\ entry = NoEntry
      /\ UNCHANGED <<exists, others, vec, tvars, requests, wvars, write_index>>
      /\ e \in QueueEntry
  <2>1. read_index \in Indices
    BY DEF TypeOK, StringsTypeOK
  <2> QED BY <2>1, SlotType DEF StringsPop, TypeOK, StringsTypeOK
<1>6. ring' \in [Indices -> Slots] /\ write_index' \in Indices /\ read_index' \in Indices
      /\ lost' \subseteq Slots
  <2>1. /\ read_index' = write_index /\ write_index' = write_index
        /\ ring' = [i \in Indices |-> IF i \in Available THEN Destroyed(i) ELSE ring[i]]
        /\ lost' = lost \union {ring[i] : i \in Available \ {read_index}}
    BY DEF StringsPop
  <2>2. Available \subseteq Indices
    BY DEF Available
  <2> QED BY <2>1, <2>2, SlotType DEF TypeOK, StringsTypeOK
<1>2. ThreadsTypeOK' /\ WorkersTypeOK'
  BY <1>1 DEF TypeOK, ThreadsTypeOK, WorkersTypeOK, HoldsBody, tvars, wvars
<1>3. CASE e.act \notin Handled
  <2>1. spc' = "loop" /\ UNCHANGED <<name_id, map, entry>>
    BY <1>3 DEF StringsPop
  <2> QED BY <1>1, <1>2, <1>6, <2>1 DEF TypeOK, DictsTypeOK, StringsTypeOK
<1>4. CASE e.act \in Handled /\ IsKnown(d, e.str)
  <2>1. name_id' = Stored(d, e.id, map[d][e.str]) /\ spc' = "loop" /\ UNCHANGED <<map, entry>>
    BY <1>4 DEF StringsPop
  <2>2. d \in AllDicts /\ e.id \in Ids \union {NoId}
    BY <1>1, <1>4, EntryType
  <2>3. map[d][e.str] \in Nat
    BY <1>4, <2>2 DEF TypeOK, DictsTypeOK, IsKnown
  <2>4. DictsTypeOK'
    <3>1. name_id' \in [AllDicts -> [Ids -> Nat \union {NoId}]]
      BY <2>1, <2>2, <2>3, StoredType
    <3> QED BY <1>1, <2>1, <3>1 DEF TypeOK, DictsTypeOK
  <2> QED BY <1>1, <1>2, <1>6, <2>1, <2>4 DEF TypeOK, StringsTypeOK
<1>5. CASE e.act \in Handled /\ ~ IsKnown(d, e.str)
  <2>1. /\ map' = [map EXCEPT ![d] = Entered(@, e.str, NewId(d))]
        /\ entry' = e /\ spc' = "emplace" /\ UNCHANGED name_id
    BY <1>5 DEF StringsPop
  <2>2. d \in AllDicts /\ e.str \in Names
    BY <1>1, <1>5, EntryType
  <2>3. NewId(d) \in Nat
    BY <2>2 DEF NewId, TypeOK, DictsTypeOK
  <2>4. /\ DOMAIN map' = AllDicts
        /\ \A c \in AllDicts : DOMAIN map'[c] \subseteq Names /\ map'[c] \in [DOMAIN map'[c] -> Nat]
    BY <2>1, <2>2, <2>3 DEF Entered, TypeOK, DictsTypeOK
  <2>5. DictsTypeOK'
    BY <1>1, <2>1, <2>4 DEF TypeOK, DictsTypeOK
  <2> QED BY <1>1, <1>2, <1>5, <1>6, <2>1, <2>5 DEF TypeOK, StringsTypeOK
<1> QED BY <1>3, <1>4, <1>5

\* Indexing a name in both directions leaves the state typed.
LEMMA StringsEmplaceType ==
  ASSUME TypeOK, StringsEmplace
  PROVE  TypeOK'
<1> DEFINE d == FieldOf(entry.act)
<1>1. /\ name_id' = Stored(d, entry.id, NewId(d))
      /\ vec' = [vec EXCEPT ![d] = Append(@, entry.str)]
      /\ entry' = NoEntry /\ spc' = "loop"
      /\ UNCHANGED <<exists, others, map, tvars, requests, wvars, qvars>>
  BY DEF StringsEmplace
<1>2. d \in AllDicts /\ entry.str \in Names /\ entry.id \in Ids \union {NoId}
  BY EntryType DEF StringsEmplace, TypeOK, StringsTypeOK
<1>3. NewId(d) \in Nat
  BY <1>2 DEF NewId, TypeOK, DictsTypeOK
<1>4. name_id' \in [AllDicts -> [Ids -> Nat \union {NoId}]]
  BY <1>1, <1>2, <1>3, StoredType
<1>5. vec' \in [AllDicts -> Seq(Names)]
  BY <1>1, <1>2 DEF TypeOK, DictsTypeOK
<1>6. DictsTypeOK'
  BY <1>1, <1>4, <1>5 DEF TypeOK, DictsTypeOK
<1> QED BY <1>1, <1>6 DEF TypeOK, ThreadsTypeOK, WorkersTypeOK, HoldsBody, StringsTypeOK,
        tvars, wvars, qvars

\* A step of the strings thread leaves the state typed.
LEMMA StringsStepType ==
  ASSUME TypeOK, Strings \/ SpuriousWakeup
  PROVE  TypeOK'
<1>1. CASE StringsWait \/ SpuriousWakeup \/ StringsWake \/ StringsCheck \/ StringsEmpty
  <2>1. /\ UNCHANGED <<svars, tvars, requests, wvars, qvars, entry>>
        /\ spc # "emplace" /\ spc' \in {"lock", "asleep", "woken", "loop", "pop"}
    BY <1>1 DEF StringsWait, SpuriousWakeup, StringsWake, StringsCheck, StringsEmpty
  <2> QED BY <2>1 DEF TypeOK, DictsTypeOK, ThreadsTypeOK, WorkersTypeOK, HoldsBody,
          StringsTypeOK, svars, tvars, wvars, qvars
<1>2. CASE Undefined
  BY <1>2 DEF Undefined, TypeOK, DictsTypeOK, ThreadsTypeOK, WorkersTypeOK, HoldsBody,
     StringsTypeOK, svars, tvars, wvars, qvars
<1> QED BY <1>1, <1>2, StringsPopType, StringsEmplaceType DEF Strings

\* Every step leaves the state typed.
LEMMA NextTypeOK == TypeOK /\ [Next]_vars => TypeOK'
<1> SUFFICES ASSUME TypeOK, [Next]_vars
             PROVE  TypeOK'
  OBVIOUS
<1>1. CASE UNCHANGED vars
  BY <1>1 DEF vars, svars, tvars, wvars, qvars, TypeOK, DictsTypeOK, ThreadsTypeOK,
     WorkersTypeOK, HoldsBody, StringsTypeOK
<1> QED BY <1>1, ThreadStepType, WorkerStepType, StringsStepType DEF Next, Handler

\* No request, whatever it is answered and however many threads send it to the
\* workers, takes a worker to a field it was not sent or an index out of its
\* range: Users::run, Locations::run and Strings::run keep every type.
THEOREM TypeCorrect == Spec => []TypeOK
BY InitTypeOK, NextTypeOK, PTL DEF Spec

-----------------------------------------------------------------------------
(* The dictionaries.                                                       *)

\* The name Strings has entered in the map is there with the id it will have.
EntryEntered ==
  spc = "emplace" =>
    LET d == FieldOf(entry.act)
    IN  entry.str \in DOMAIN map[d] /\ map[d][entry.str] = Len(vec[d])

IInv == TypeOK /\ DictsAgree /\ NameIdsValid /\ EntryEntered

\* The invariant holds after loading.
LEMMA InitIInv == Init => IInv
<1> SUFFICES ASSUME Init PROVE IInv
  OBVIOUS
<1>1. ASSUME NEW d \in AllDicts
      PROVE  /\ \A i \in DOMAIN vec[d] : vec[d][i] \in DOMAIN map[d] /\ map[d][vec[d][i]] = i - 1
             /\ DOMAIN map[d] \ ToSet(vec[d]) = {}
  BY LoadedDicts DEF ToSet
<1>2. DictsAgree
  BY <1>1 DEF DictsAgree, HalvesAgree
<1>3. NameIdsValid
  <2> SUFFICES ASSUME NEW d \in AllDicts, NEW e \in DOMAIN Loaded[d], e \in Ids
               PROVE  name_id[d][e] \in 0 .. Len(vec[d]) - 1
    BY DEF Init, NameIdsValid
  <2>1. name_id[d][e] = map[d][Loaded[d][e]]
    BY DEF Init
  <2>2. Loaded[d][e] \in ToSet(vec[d])
    BY DEF Init, Range
  <2> QED BY <2>1, <2>2, LoadedDicts
<1>4. EntryEntered
  BY DEF Init, EntryEntered
<1> QED BY <1>2, <1>3, <1>4, InitTypeOK DEF IInv

\* The id of a name in the map is one a field may have.
LEMMA KnownId ==
  ASSUME IInv, spc # "undefined", NEW d \in AllDicts, NEW n \in DOMAIN map[d]
  PROVE  map[d][n] \in 0 .. Len(vec[d]) - 1 \/ (map[d][n] = Len(vec[d]) /\ Emplacing(d))
<1>1. CASE n \in ToSet(vec[d])
  <2>1. PICK i \in DOMAIN vec[d] : vec[d][i] = n
    BY <1>1 DEF ToSet
  <2>2. map[d][n] = i - 1
    BY <2>1 DEF IInv, DictsAgree, HalvesAgree
  <2>3. vec[d] \in Seq(Names)
    BY DEF IInv, TypeOK, DictsTypeOK
  <2> QED BY <2>2, <2>3
<1>2. CASE n \notin ToSet(vec[d])
  BY <1>2 DEF IInv, DictsAgree, HalvesAgree
<1> QED BY <1>1, <1>2

\* A step that changes no dictionary and no field.
LEMMA DictsUnchanged ==
  ASSUME IInv, UNCHANGED <<vec, map, name_id, entry>>, (spc' = "emplace") = (spc = "emplace"),
         spc' # "undefined" => spc # "undefined"
  PROVE  DictsAgree' /\ NameIdsValid' /\ EntryEntered'
<1>1. \A d : Emplacing(d)' = Emplacing(d)
  BY DEF Emplacing
<1>2. DictsAgree'
  BY <1>1 DEF IInv, DictsAgree, HalvesAgree
<1>3. NameIdsValid'
  BY <1>1 DEF IInv, NameIdsValid
<1>4. EntryEntered'
  BY DEF IInv, EntryEntered
<1> QED BY <1>2, <1>3, <1>4

\* A field is given an id of its dictionary.
LEMMA IdStored ==
  ASSUME IInv, UNCHANGED <<vec, map, entry>>, (spc' = "emplace") = (spc = "emplace"),
         spc' # "undefined" => spc # "undefined",
         NEW d \in AllDicts, NEW n \in DOMAIN map[d], NEW eid \in Ids \union {NoId},
         name_id' = Stored(d, eid, map[d][n])
  PROVE  DictsAgree' /\ NameIdsValid' /\ EntryEntered'
<1>1. \A c : Emplacing(c)' = Emplacing(c)
  BY DEF Emplacing
<1>2. DictsAgree' /\ EntryEntered'
  BY <1>1 DEF IInv, DictsAgree, HalvesAgree, EntryEntered
<1>3. NameIdsValid'
  <2> SUFFICES ASSUME NEW c \in AllDicts, NEW e \in Ids, spc # "undefined"
               PROVE  \/ name_id'[c][e] = NoId
                      \/ name_id'[c][e] \in 0 .. Len(vec[c]) - 1
                      \/ name_id'[c][e] = Len(vec[c]) /\ Emplacing(c)
    BY <1>1 DEF NameIdsValid
  <2>1. name_id'[c][e] = name_id[c][e] \/ (c = d /\ name_id'[c][e] = map[d][n])
    BY DEF Stored, IInv, TypeOK, DictsTypeOK
  <2>2. CASE name_id'[c][e] = name_id[c][e]
    BY <2>2 DEF IInv, NameIdsValid
  <2>3. CASE c = d /\ name_id'[c][e] = map[d][n]
    BY <2>3, KnownId
  <2> QED BY <2>1, <2>2, <2>3
<1> QED BY <1>2, <1>3

\* A known name is stored with the id its dictionary has for it.
LEMMA WorkerNameDicts ==
  ASSUME IInv, NEW k \in Kinds, WorkerName(k)
  PROVE  DictsAgree' /\ NameIdsValid' /\ EntryEntered'
<1> DEFINE d == Head(todo[k])
           n == item[k].names[d]
<1>1. UNCHANGED <<vec, map, spc, entry>> /\ wpc[k] = "names" /\ todo[k] # <<>>
  BY DEF WorkerName
<1>2. d \in AllDicts /\ item[k].id \in Ids
  BY <1>1, NextName DEF IInv
<1>3. CASE IsKnown(d, n)
  <2>1. name_id' = [name_id EXCEPT ![d][item[k].id] = map[d][n]] /\ n \in DOMAIN map[d]
    BY <1>3 DEF WorkerName, IsKnown
  <2>2. name_id' = Stored(d, item[k].id, map[d][n])
    BY <1>2, <2>1, NameConstants DEF Stored
  <2> QED BY <1>1, <1>2, <2>1, <2>2, IdStored
<1>4. CASE ~ IsKnown(d, n)
  <2>1. UNCHANGED name_id
    BY <1>4 DEF WorkerName
  <2> QED BY <1>1, <2>1, DictsUnchanged
<1> QED BY <1>3, <1>4

\* A new name is entered in the map with the id the vector is to give it.
LEMMA StringsPopDicts ==
  ASSUME IInv, StringsPop
  PROVE  DictsAgree' /\ NameIdsValid' /\ EntryEntered'
<1> DEFINE e == ring[read_index]
           d == FieldOf(e.act)
<1>1. spc = "pop" /\ UNCHANGED vec /\ e \in QueueEntry
  <2>1. read_index \in Indices
    BY DEF IInv, TypeOK, StringsTypeOK
  <2> QED BY <2>1, SlotType DEF StringsPop, IInv
<1>2. CASE e.act \notin Handled
  <2>1. spc' = "loop" /\ UNCHANGED <<name_id, map, entry>>
    BY <1>2 DEF StringsPop
  <2> QED BY <1>1, <2>1, DictsUnchanged
<1>3. CASE e.act \in Handled /\ IsKnown(d, e.str)
  <2>1. name_id' = Stored(d, e.id, map[d][e.str]) /\ spc' = "loop" /\ UNCHANGED <<map, entry>>
    BY <1>3 DEF StringsPop
  <2>2. d \in AllDicts /\ e.id \in Ids \union {NoId} /\ e.str \in DOMAIN map[d]
    BY <1>1, <1>3, EntryType DEF IsKnown
  <2> HIDE DEF d, e
  <2> QED BY <1>1, <2>1, <2>2, IdStored
<1>4. CASE e.act \in Handled /\ ~ IsKnown(d, e.str)
  <2>1. /\ map' = [map EXCEPT ![d] = Entered(@, e.str, Len(vec[d]))]
        /\ entry' = e /\ spc' = "emplace" /\ UNCHANGED name_id
    BY <1>4 DEF StringsPop, NewId
  <2>2. d \in AllDicts /\ e.str \notin DOMAIN map[d] /\ DOMAIN map = AllDicts
    BY <1>1, <1>4, EntryType DEF IsKnown, IInv, TypeOK, DictsTypeOK
  <2>3. /\ \A c \in AllDicts \ {d} : map'[c] = map[c]
        /\ DOMAIN map'[d] = DOMAIN map[d] \union {e.str} /\ map'[d][e.str] = Len(vec[d])
        /\ \A n \in DOMAIN map[d] : map'[d][n] = map[d][n]
    <3> DEFINE m == Entered(map[d], e.str, Len(vec[d]))
    <3>1. map' = [map EXCEPT ![d] = m]
      BY <2>1
    <3>2. /\ DOMAIN m = DOMAIN map[d] \union {e.str} /\ m[e.str] = Len(vec[d])
          /\ \A x \in DOMAIN map[d] \ {e.str} : m[x] = map[d][x]
      BY DEF Entered
    <3> HIDE DEF m, d, e
    <3> QED BY <2>2, <3>1, <3>2
  <2>4. (\A c : ~ Emplacing(c)) /\ \A c : Emplacing(c)' <=> d = c
    BY <1>1, <2>1 DEF Emplacing
  <2>5. DictsAgree'
    <3> SUFFICES ASSUME NEW c \in AllDicts
                 PROVE  /\ \A i \in DOMAIN vec[c] : vec[c][i] \in DOMAIN map'[c]
                                                    /\ map'[c][vec[c][i]] = i - 1
                        /\ \A n \in DOMAIN map'[c] \ ToSet(vec[c]) :
                             d = c /\ e.str = n /\ map'[c][n] = Len(vec[c])
      BY <1>1, <2>1, <2>4 DEF DictsAgree, HalvesAgree
    <3>1. /\ \A i \in DOMAIN vec[c] : vec[c][i] \in DOMAIN map[c] /\ map[c][vec[c][i]] = i - 1
          /\ DOMAIN map[c] \ ToSet(vec[c]) = {}
      BY <1>1, <2>4 DEF IInv, DictsAgree, HalvesAgree
    <3>2. CASE c = d
      BY <2>3, <3>1, <3>2
    <3>3. CASE c # d
      BY <2>3, <3>1, <3>3
    <3> QED BY <3>2, <3>3
  <2>6. NameIdsValid'
    BY <1>1, <2>1, <2>4 DEF IInv, NameIdsValid
  <2>7. EntryEntered'
    BY <1>1, <2>1, <2>2, <2>3 DEF EntryEntered
  <2> QED BY <2>5, <2>6, <2>7
<1> QED BY <1>2, <1>3, <1>4

\* The vector then gives the name of the map its id.
LEMMA StringsEmplaceDicts ==
  ASSUME IInv, StringsEmplace
  PROVE  DictsAgree' /\ NameIdsValid' /\ EntryEntered'
<1> DEFINE d == FieldOf(entry.act)
           n == entry.str
           new == Len(vec[d])
<1>1. /\ name_id' = Stored(d, entry.id, new)
      /\ vec' = [vec EXCEPT ![d] = Append(@, n)]
      /\ spc = "emplace" /\ spc' = "loop" /\ UNCHANGED map
  BY DEF StringsEmplace, NewId
<1>2. d \in AllDicts /\ n \in Names /\ entry.id \in Ids \union {NoId}
  BY EntryType DEF StringsEmplace, IInv, TypeOK, StringsTypeOK
<1>3. n \in DOMAIN map[d] /\ map[d][n] = new
  BY <1>1 DEF IInv, EntryEntered
<1>4. vec \in [AllDicts -> Seq(Names)]
  BY DEF IInv, TypeOK, DictsTypeOK
<1>5. /\ \A c \in AllDicts \ {d} : vec'[c] = vec[c]
      /\ vec'[d] \in Seq(Names) /\ Len(vec'[d]) = new + 1 /\ new \in Nat
      /\ vec'[d][new + 1] = n
      /\ \A i \in 1 .. new : vec'[d][i] = vec[d][i]
  BY <1>1, <1>2, <1>4
<1>6. (\A c : ~ Emplacing(c)') /\ \A c : Emplacing(c) <=> d = c
  BY <1>1 DEF Emplacing
<1>7. DictsAgree'
  <2> SUFFICES ASSUME NEW c \in AllDicts
               PROVE  /\ \A i \in DOMAIN vec'[c] : vec'[c][i] \in DOMAIN map[c]
                                                   /\ map[c][vec'[c][i]] = i - 1
                      /\ DOMAIN map[c] \subseteq ToSet(vec'[c])
    BY <1>1, <1>6 DEF DictsAgree, HalvesAgree
  <2>1. /\ \A i \in DOMAIN vec[c] : vec[c][i] \in DOMAIN map[c] /\ map[c][vec[c][i]] = i - 1
        /\ \A m \in DOMAIN map[c] \ ToSet(vec[c]) : d = c /\ n = m
    BY <1>1, <1>6 DEF IInv, DictsAgree, HalvesAgree
  <2>2. CASE c = d
    <3>1. DOMAIN vec[c] = 1 .. new /\ DOMAIN vec'[c] = 1 .. new + 1
      BY <1>2, <1>4, <1>5, <2>2
    <3>2. ToSet(vec'[c]) = ToSet(vec[c]) \union {n}
      BY <1>5, <2>2, <3>1 DEF ToSet
    <3>3. ASSUME NEW i \in DOMAIN vec'[c]
          PROVE  vec'[c][i] \in DOMAIN map[c] /\ map[c][vec'[c][i]] = i - 1
      BY <1>3, <1>5, <2>1, <2>2, <3>1
    <3> QED BY <2>1, <3>2, <3>3
  <2>3. CASE c # d
    BY <1>5, <2>1, <2>3
  <2> QED BY <2>2, <2>3
<1>8. NameIdsValid'
  <2> SUFFICES ASSUME NEW c \in AllDicts, NEW e \in Ids
               PROVE  name_id'[c][e] = NoId \/ name_id'[c][e] \in 0 .. Len(vec'[c]) - 1
    BY DEF NameIdsValid
  <2>1. name_id'[c][e] = name_id[c][e] \/ (c = d /\ name_id'[c][e] = new)
    BY <1>1, <1>2 DEF Stored, IInv, TypeOK, DictsTypeOK
  <2>2. CASE name_id'[c][e] = name_id[c][e]
    <3>1. \/ name_id[c][e] = NoId \/ name_id[c][e] \in 0 .. Len(vec[c]) - 1
          \/ name_id[c][e] = Len(vec[c]) /\ c = d
      BY <1>1, <1>6 DEF IInv, NameIdsValid
    <3>2. Len(vec[c]) \in Nat
      BY <1>4
    <3>3. CASE c = d
      BY <1>5, <2>2, <3>1, <3>2, <3>3
    <3>4. CASE c # d
      BY <1>5, <2>2, <3>1, <3>4
    <3> QED BY <3>3, <3>4
  <2>3. CASE c = d /\ name_id'[c][e] = new
    BY <1>5, <2>3
  <2> QED BY <2>1, <2>2, <2>3
<1>9. EntryEntered'
  BY <1>1 DEF EntryEntered
<1> QED BY <1>7, <1>8, <1>9

\* Every step keeps the invariant.
LEMMA NextIInv == IInv /\ [Next]_vars => IInv'
<1> SUFFICES ASSUME IInv, [Next]_vars
             PROVE  DictsAgree' /\ NameIdsValid' /\ EntryEntered'
  BY NextTypeOK DEF IInv
<1>1. CASE UNCHANGED vars
  BY <1>1, DictsUnchanged DEF vars, svars
<1>2. ASSUME NEW t \in Threads,
             \/ disableWriters(t) \/ enableWriters(t) \/ notify_all(t)
             \/ \E p \in Posts : handlePost(t, p)
      PROVE  DictsAgree' /\ NameIdsValid' /\ EntryEntered'
  <2>1. /\ UNCHANGED <<vec, map, name_id, entry>> /\ (spc' = "emplace") = (spc = "emplace")
        /\ spc' # "undefined" => spc # "undefined"
    BY <1>2 DEF disableWriters, enableWriters, notify_all, handlePost, svars
  <2> QED BY <2>1, DictsUnchanged
<1>3. ASSUME NEW k \in Kinds, Worker(k)
      PROVE  DictsAgree' /\ NameIdsValid' /\ EntryEntered'
  <2>1. CASE \/ WorkerCheck(k) \/ WorkerEmpty(k) \/ WorkerDone(k) \/ WorkerPush(k)
             \/ \E t \in Threads : WorkerTake(k, t)
    <3>1. UNCHANGED <<vec, map, name_id, entry, spc>>
      BY <2>1 DEF WorkerCheck, WorkerEmpty, WorkerDone, WorkerPush, WorkerTake, svars
    <3> QED BY <3>1, DictsUnchanged
  <2> QED BY <1>3, <2>1, WorkerNameDicts DEF Worker
<1>4. CASE Strings \/ SpuriousWakeup
  <2>1. CASE StringsWait \/ SpuriousWakeup \/ StringsWake \/ StringsCheck \/ StringsEmpty
    <3>1. /\ UNCHANGED <<vec, map, name_id, entry>> /\ (spc' = "emplace") = (spc = "emplace")
          /\ spc # "undefined"
      BY <2>1 DEF StringsWait, SpuriousWakeup, StringsWake, StringsCheck, StringsEmpty, svars
    <3> QED BY <3>1, DictsUnchanged
  <2>2. CASE Undefined
    BY <2>2 DEF Undefined, DictsAgree, NameIdsValid, EntryEntered
  <2> QED BY <1>4, <2>1, <2>2, StringsPopDicts, StringsEmplaceDicts DEF Strings
<1> QED BY <1>1, <1>2, <1>3, <1>4 DEF Next, Handler

\* The invariant holds in every reachable state.
LEMMA Inductive == Spec => []IInv
BY InitIInv, NextIInv, PTL DEF Spec

\* find_or_create_in_dict (Storage.hpp:172-182), run by Strings while two
\* workers look names up, gives each name one id and each id one name.
THEOREM DictsAlwaysAgree == Spec => []DictsAgree
<1>1. IInv => DictsAgree
  BY DEF IInv
<1> QED BY <1>1, Inductive, PTL

\* Every id the GET handlers index a dictionary with is one of the dictionary,
\* or of the one name that is being added to it.
THEOREM NameIdsAlwaysValid == Spec => []NameIdsValid
<1>1. IInv => NameIdsValid
  BY DEF IInv
<1> QED BY <1>1, Inductive, PTL

-----------------------------------------------------------------------------
(* The cities.                                                             *)

\* A POST is held by one thread, and is not answered yet.
SentOnce ==
  \A t \in Threads : tpc[t] # "idle" =>
    /\ \A e \in log : e.post # sent[t]
    /\ \A u \in Threads \ {t} : tpc[u] # "idle" => sent[u] # sent[t]

\* What was enqueued for the worker of locations, the body it holds, and the
\* fields it has not come to.
Queue(t) == requests["location"][t]
Held == item["location"]
Left == todo["location"]
Busy == wpc["location"] \notin {"loop", "dequeue"}

\* No user was sent, so its worker has nothing to do.
UsersIdle ==
  wpc["user"] \in {"loop", "dequeue"} /\ \A t \in Threads : requests["user"][t] = <<>>

\* A body, or an entry of the queue of Strings, is what some POST said.
BodySaid(b) ==
  \E e \in log : /\ Target(e.post) = b.id
                 /\ e.post.body.names = b.names /\ e.post.body.others = b.others

EntrySaid(x) ==
  \E e \in log : \E d \in DOMAIN e.post.body.names :
    x.act = ActOf(d) /\ x.id = Target(e.post) /\ x.str = e.post.body.names[d]

\* A slot, its string destroyed or not, is of a field that some POST named.
SlotSaid(x) ==
  \E e \in log : \E d \in DOMAIN e.post.body.names :
    x.act = ActOf(d) /\ x.id = Target(e.post)

\* A request on its way is about a location that is stored, or stores it.
BodiesStand ==
  /\ \A t \in Threads : \A i \in DOMAIN Queue(t) :
       BodySaid(Queue(t)[i]) /\ (Queue(t)[i].sets_id \/ Queue(t)[i].id \in exists["location"])
  /\ Busy => BodySaid(Held) /\ Held.id \in exists["location"]

\* No two requests on their way write one field of one location.
FieldsApart ==
  /\ \A t, u \in Threads : \A i \in DOMAIN Queue(t) : \A j \in DOMAIN Queue(u) :
       Queue(t)[i].id = Queue(u)[j].id /\ (t # u \/ i # j) =>
         DOMAIN Queue(t)[i].names \intersect DOMAIN Queue(u)[j].names = {}
  /\ Busy => /\ \A i, j \in DOMAIN Left : Left[i] = Left[j] => i = j
             /\ \A t \in Threads : \A i \in DOMAIN Queue(t) : Queue(t)[i].id = Held.id =>
                  \A j \in DOMAIN Left : Left[j] \notin DOMAIN Queue(t)[i].names

\* Strings' queue, of which no slot is used twice, has what was said; the slots
\* it has taken are of fields that were named.
RingStands ==
  /\ read_index <= write_index
  /\ \A r \in 0 .. write_index - 1 : SlotSaid(ring[r])
  /\ \A r \in read_index .. write_index - 1 : EntrySaid(ring[r])
  /\ wpc["location"] = "push" => slot["location"] = write_index
  /\ spc = "emplace" => EntrySaid(entry)

\* No field of a location has two slots, or a slot while it is on its way there.
SlotsApart ==
  /\ \A r, s \in 0 .. write_index - 1 :
       ring[r].id = ring[s].id /\ ring[r].act = ring[s].act => r = s
  /\ \A r \in 0 .. write_index - 1 :
       /\ \A t \in Threads : \A i \in DOMAIN Queue(t) : Queue(t)[i].id = ring[r].id =>
            \A d \in DOMAIN Queue(t)[i].names : ActOf(d) # ring[r].act
       /\ Busy /\ Held.id = ring[r].id => \A j \in DOMAIN Left : ActOf(Left[j]) # ring[r].act

\* The city of location l is n, in the map at least.
CityHas(l, n) == n \in DOMAIN map["city"] /\ name_id["city"][l] = map["city"][n]

\* Where the city n of location l is: queued, in the worker's hands, queued for
\* Strings, in its hands, lost behind another entry, or stored.
CityAt(l, n) ==
  \/ \E t \in Threads : \E i \in DOMAIN Queue(t) :
       /\ Queue(t)[i].id = l /\ "city" \in DOMAIN Queue(t)[i].names
       /\ Queue(t)[i].names["city"] = n
  \/ Busy /\ Held.id = l /\ "city" \in ToSet(Left) /\ Held.names["city"] = n
  \/ \E r \in read_index .. write_index - 1 :
       ring[r].act = 2 /\ ring[r].id = l /\ ring[r].str = n
  \/ spc = "emplace" /\ entry.act = 2 /\ entry.id = l /\ entry.str = n
  \/ \E x \in lost : x.act = 2 /\ x.id = l /\ x.str = n
  \/ CityHas(l, n)

\* No city that was accepted is anywhere else.
CityKept ==
  \A e \in log : "city" \in DOMAIN e.post.body.names =>
    CityAt(Target(e.post), e.post.body.names["city"])

\* The other fields of a location are queued or stored, or are the loaded ones.
OthersAt(l, c) ==
  \/ \E t \in Threads : \E i \in DOMAIN Queue(t) : Queue(t)[i].id = l /\ Queue(t)[i].others = c
  \/ others["location"][l] = c

OthersKept ==
  /\ \A e \in log : e.post.body.others # NoContent =>
       OthersAt(Target(e.post), e.post.body.others)
  /\ \A l \in DOMAIN LoadedOthers["location"] :
       (\A e \in log : Target(e.post) = l => e.post.body.others = NoContent) =>
         others["location"][l] = LoadedOthers["location"][l]

\* What holds as long as the POSTs are plain.
CityParts ==
  /\ UsersIdle /\ BodiesStand /\ FieldsApart /\ RingStands /\ SlotsApart
  /\ CityKept /\ OthersKept

\* The city of location l is the loaded one.
CityLoaded(l) ==
  IF l \in DOMAIN Loaded["city"] THEN CityHas(l, Loaded["city"][l])
  ELSE name_id["city"][l] = NoId

\* A location has the city that was loaded or one that a POST named for it.
CityOwn ==
  \A l \in Ids : CityLoaded(l) \/ \E e \in Naming(l) : CityHas(l, e.post.body.names["city"])

CityInv ==
  /\ IInv /\ IsFiniteSet(log) /\ SentOnce
  /\ PlainLocations /\ spc # "undefined" => CityParts /\ CityOwn

\* Each field of a name has an act of its own, and the city's is stored as one.
LEMMA CityAct ==
  /\ \A c, d \in AllDicts : ActOf(c) = ActOf(d) => c = d
  /\ \A d \in AllDicts : ActOf(d) \in 0 .. 4 /\ (ActOf(d) = 2 <=> d = "city")
  /\ FieldOf(2) = "city" /\ \A a \in Handled : FieldOf(a) = "city" => a = 2
  /\ "city" \in AllDicts
<1>1. \A c, d \in AllDicts : ActOf(c) = ActOf(d) => c = d
  BY DictNames DEF ActOf
<1>2. \A d \in AllDicts : ActOf(d) \in 0 .. 4 /\ (ActOf(d) = 2 <=> d = "city")
  BY DictNames DEF ActOf
<1>3. FieldOf(2) = "city"
  BY DEF FieldOf
<1>4. ASSUME NEW a \in Handled, FieldOf(a) = "city" PROVE a = 2
  BY <1>4 DEF FieldOf, Handled
<1> QED BY <1>1, <1>2, <1>3, <1>4, DictNames

\* What is answered is a POST, with its names for fields that have one.
LEMMA LogType ==
  ASSUME ThreadsTypeOK, NEW e \in log
  PROVE  /\ e.post \in Posts
         /\ DOMAIN e.post.body.names \subseteq AllDicts
         /\ Target(e.post) \in Ids
<1>1. e.post \in Posts
  BY DEF ThreadsTypeOK
<1>2. PICK k \in Kinds : e.post \in Post(k)
  BY <1>1, NameConstants
<1>3. e.post.body \in Body(k) /\ e.post.entity_id \in Ids \union {NoId}
  BY <1>2 DEF Post
<1> QED BY <1>1, <1>3, BodyType DEF Target

\* Only one POST names a field of a location.
LEMMA OneSays ==
  ASSUME PlainLocations, NEW e \in log, NEW f \in log, Target(e.post) = Target(f.post),
         NEW d \in DOMAIN e.post.body.names, d \in DOMAIN f.post.body.names
  PROVE  e = f
BY DEF PlainLocations

\* Only one POST says what the other fields of a location are.
LEMMA OneSaysOthers ==
  ASSUME PlainLocations, NEW e \in log, NEW f \in log, Target(e.post) = Target(f.post),
         e.post.body.others # NoContent, f.post.body.others # NoContent
  PROVE  e = f
BY DEF PlainLocations

\* The pairs of an answered POST and a field it names are finitely many.
LEMMA NamesFinite ==
  ASSUME NEW L, IsFiniteSet(L)
  PROVE  IsFiniteSet({w \in L \X AllDicts : w[2] \in DOMAIN w[1].post.body.names})
<1>1. IsFiniteSet(AllDicts)
  <2>1. IsFiniteSet({"first_name"})
    BY FS_Singleton
  <2>2. IsFiniteSet({"first_name"} \union {"last_name"})
    BY <2>1, FS_AddElement
  <2>3. IsFiniteSet({"first_name"} \union {"last_name"} \union {"city"})
    BY <2>2, FS_AddElement
  <2>4. IsFiniteSet({"first_name"} \union {"last_name"} \union {"city"} \union {"country"})
    BY <2>3, FS_AddElement
  <2>5. IsFiniteSet({"first_name"} \union {"last_name"} \union {"city"} \union {"country"}
                    \union {"place"})
    BY <2>4, FS_AddElement
  <2>6. AllDicts = {"first_name"} \union {"last_name"} \union {"city"} \union {"country"}
                   \union {"place"}
    BY DictNames
  <2> QED BY <2>5, <2>6
<1>2. IsFiniteSet(L \X AllDicts)
  BY <1>1, FS_Product
<1> QED BY <1>2, FS_Subset

\* The POSTs answered so far were plain if they are with one more.
LEMMA PlainBefore ==
  ASSUME IsFiniteSet(log'), log \subseteq log', PlainLocations'
  PROVE  PlainLocations
<1> DEFINE W(L) == {w \in L \X AllDicts : w[2] \in DOMAIN w[1].post.body.names}
<1>1. IsFiniteSet(W(log'))
  BY NamesFinite
<1>2. W(log) \subseteq W(log')
  OBVIOUS
<1>3. Cardinality(W(log)) <= Cardinality(W(log')) /\ IsFiniteSet(W(log))
  BY <1>1, <1>2, FS_Subset
<1>4. Cardinality(W(log)) \in Nat /\ Cardinality(W(log')) \in Nat
  BY <1>1, <1>3, FS_CardinalityType
<1>5. Cardinality(W(log')) < RingSize
  BY DEF PlainLocations
<1>6. Cardinality(W(log)) < RingSize
  BY <1>3, <1>4, <1>5, NameConstants
<1>7. /\ \A e \in log : e.code = 200 /\ e.post.kind = "location"
      /\ \A e, f \in log :
           e # f /\ Target(e.post) = Target(f.post) =>
             /\ DOMAIN e.post.body.names \intersect DOMAIN f.post.body.names = {}
             /\ NoContent \in {e.post.body.others, f.post.body.others}
  BY DEF PlainLocations, Target
<1> QED BY <1>6, <1>7 DEF PlainLocations

\* Slots of fields that were named, no two of one field of one location, leave the queue
\* of Strings room.
LEMMA RoomLeft ==
  ASSUME PlainLocations, ThreadsTypeOK, IsFiniteSet(log), NEW n \in Nat, NEW f,
         \A r \in 0 .. n - 1 : SlotSaid(f[r]),
         \A r, s \in 0 .. n - 1 : f[r].id = f[s].id /\ f[r].act = f[s].act => r = s
  PROVE  n < RingSize
<1> DEFINE W == {w \in log \X AllDicts : w[2] \in DOMAIN w[1].post.body.names}
           Says(r, w) == f[r].act = ActOf(w[2]) /\ f[r].id = Target(w[1].post)
           g == [r \in 0 .. n - 1 |-> CHOOSE w \in W : Says(r, w)]
<1>1. ASSUME NEW r \in 0 .. n - 1 PROVE \E w \in W : Says(r, w)
  <2>1. PICK e \in log : \E d \in DOMAIN e.post.body.names :
          f[r].act = ActOf(d) /\ f[r].id = Target(e.post)
    BY DEF SlotSaid
  <2>2. PICK d \in DOMAIN e.post.body.names :
          f[r].act = ActOf(d) /\ f[r].id = Target(e.post)
    BY <2>1
  <2>3. d \in AllDicts
    BY LogType
  <2>4. <<e, d>> \in W /\ Says(r, <<e, d>>)
    BY <2>2, <2>3
  <2> QED BY <2>4
<1>2. ASSUME NEW r \in 0 .. n - 1 PROVE g[r] \in W /\ Says(r, g[r])
  BY <1>1
<1>3. g \in Injection(0 .. n - 1, W)
  <2>1. ASSUME NEW r \in 0 .. n - 1, NEW s \in 0 .. n - 1, g[r] = g[s] PROVE r = s
    <3>1. f[r].act = f[s].act /\ f[r].id = f[s].id
      BY <1>2, <2>1
    <3> QED BY <3>1
  <2>2. g \in [0 .. n - 1 -> W]
    BY <1>2
  <2> HIDE DEF g
  <2> QED BY <2>1, <2>2 DEF Injection, IsInjective
<1>4. IsFiniteSet(W)
  BY NamesFinite
<1>5. Cardinality(0 .. n - 1) <= Cardinality(W)
  BY <1>3, <1>4, FS_Injection
<1>6. Cardinality(0 .. n - 1) = n
  BY FS_Interval
<1>7. Cardinality(W) < RingSize
  BY DEF PlainLocations
<1>8. Cardinality(W) \in Nat
  BY <1>4, FS_CardinalityType
<1> QED BY <1>5, <1>6, <1>7, <1>8, NameConstants

-----------------------------------------------------------------------------
(* The steps.                                                              *)

\* What no POST, worker or Strings has changed stays as it was.
LEMMA CityFrame ==
  ASSUME CityParts,
         UNCHANGED <<log, requests, exists, item, todo, slot, ring, write_index, read_index,
                     lost, entry, map, name_id, others>>,
         (spc' = "emplace") <=> (spc = "emplace"),
         wpc'["user"] = wpc["user"] \/ wpc'["user"] \in {"loop", "dequeue"},
         Busy' <=> Busy, wpc'["location"] = "push" => wpc["location"] = "push"
  PROVE  CityParts'
<1>1. UsersIdle'
  BY DEF CityParts, UsersIdle
<1>2. \A b : BodySaid(b)' <=> BodySaid(b)
  BY DEF BodySaid, Target
<1>3. \A x : (EntrySaid(x)' <=> EntrySaid(x)) /\ (SlotSaid(x)' <=> SlotSaid(x))
  BY DEF EntrySaid, SlotSaid, Target
<1>4. BodiesStand' /\ FieldsApart' /\ SlotsApart'
  BY <1>2 DEF CityParts, BodiesStand, FieldsApart, SlotsApart, Queue, Held, Left
<1>5. RingStands'
  BY <1>3 DEF CityParts, RingStands
<1>6. CityKept'
  BY DEF CityParts, CityKept, CityAt, CityHas, Queue, Held, Left, Target
<1>7. OthersKept'
  BY DEF CityParts, OthersKept, OthersAt, Queue, Target
<1> QED BY <1>1, <1>4, <1>5, <1>6, <1>7 DEF CityParts

\* A POST that is answered names, for its location, fields nothing on its way
\* to Strings or in its queue is about: nothing answered before has named them.
LEMMA FinishCity ==
  ASSUME IInv, IsFiniteSet(log), CityParts, NEW t \in Threads, NEW p \in Posts,
         \A e \in log : e.post # p, Finish(t, p), PlainLocations, PlainLocations',
         UNCHANGED <<exists, wpc, item, todo, slot, ring, write_index, read_index,
                     lost, entry, map, name_id, others>>,
         (spc' = "emplace") <=> (spc = "emplace")
  PROVE  CityParts'
<1>1. PICK new, b, q : /\ new = [post |-> p, code |-> Answer(p)]
                       /\ b = [p.body EXCEPT !.id = IF p.entity_id = NoId THEN @ ELSE p.entity_id]
                       /\ q = Queue(t)
  OBVIOUS
<1>2. /\ log' = log \union {new} /\ new \notin log
      /\ requests' = [requests EXCEPT ![p.kind][t] = Append(@, b)]
  BY <1>1 DEF Finish
<1>3. new.post = p /\ p.kind = "location" /\ Answer(p) = 200
  <2>1. new.post = p /\ new.code = Answer(p)
    BY <1>1
  <2> QED BY <1>2, <2>1 DEF PlainLocations
<1>4. /\ b.id = Target(p) /\ b.names = p.body.names /\ b.others = p.body.others
      /\ b.sets_id = p.body.sets_id
  <2>1. PICK k \in Kinds : p \in Post(k)
    BY NameConstants
  <2>2. p.body \in Body(k)
    BY <2>1 DEF Post
  <2>3. DOMAIN p.body = {"id", "sets_id", "others", "names"}
    BY <2>2 DEF Body
  <2> QED BY <1>1, <2>3 DEF Target
<1>5. b.sets_id \/ b.id \in exists["location"]
  BY <1>3, <1>4 DEF Answer, Complete, Target
<1>6. ASSUME NEW e \in log, Target(e.post) = b.id
      PROVE  /\ DOMAIN e.post.body.names \intersect DOMAIN b.names = {}
             /\ NoContent \in {e.post.body.others, b.others}
  <2>1. e # new /\ e \in log' /\ new \in log'
    BY <1>2
  <2>2. \A f, g \in log' :
          f # g /\ Target(f.post) = Target(g.post) =>
            /\ DOMAIN f.post.body.names \intersect DOMAIN g.post.body.names = {}
            /\ NoContent \in {f.post.body.others, g.post.body.others}
    BY DEF PlainLocations, Target
  <2> QED BY <1>3, <1>4, <1>6, <2>1, <2>2
<1>7. requests["location"] \in [Threads -> Seq(Body("location"))] /\ "location" \in DOMAIN requests
  BY DEF IInv, TypeOK, WorkersTypeOK, Kinds
<1>8. PICK l \in Nat : /\ l = Len(q) /\ DOMAIN q = 1 .. l
                       /\ DOMAIN Append(q, b) = 1 .. l + 1 /\ Append(q, b)[l + 1] = b
                       /\ \A i \in 1 .. l : Append(q, b)[i] = q[i]
  <2>1. PICK S : S = Body("location")
    OBVIOUS
  <2>2. q \in Seq(S)
    BY <1>1, <1>7, <2>1 DEF Queue
  <2>3. PICK l \in Nat : l = Len(q)
    BY <2>2
  <2>4. DOMAIN q = 1 .. l /\ DOMAIN Append(q, b) = 1 .. l + 1
    BY <2>2, <2>3
  <2>5. Append(q, b)[l + 1] = b /\ \A i \in 1 .. l : Append(q, b)[i] = q[i]
    BY <2>2, <2>3
  <2> QED BY <2>3, <2>4, <2>5
<1>9. /\ requests'["location"] = [requests["location"] EXCEPT ![t] = Append(q, b)]
      /\ requests'["user"] = requests["user"]
  BY <1>1, <1>2, <1>3, <1>7 DEF Queue
<1>10. /\ \A u \in Threads : Queue(u)' = IF u = t THEN Append(q, b) ELSE Queue(u)
       /\ DOMAIN Queue(t) = 1 .. l
  BY <1>1, <1>7, <1>8, <1>9 DEF Queue
<1>11. ASSUME NEW u \in Threads, NEW i \in DOMAIN Queue(u)'
       PROVE  \/ i \in DOMAIN Queue(u) /\ Queue(u)'[i] = Queue(u)[i]
              \/ u = t /\ i = l + 1 /\ Queue(u)'[i] = b
  BY <1>1, <1>8, <1>10, <1>11
<1>12. ASSUME NEW u \in Threads, NEW i \in DOMAIN Queue(u)
       PROVE  i \in DOMAIN Queue(u)' /\ Queue(u)'[i] = Queue(u)[i]
  BY <1>1, <1>8, <1>10, <1>12
<1>13. l + 1 \in DOMAIN Queue(t)' /\ Queue(t)'[l + 1] = b
  BY <1>8, <1>10
<1>14. \A x : /\ BodySaid(x) => BodySaid(x)'
              /\ (EntrySaid(x) => EntrySaid(x)') /\ (SlotSaid(x) => SlotSaid(x)')
  BY <1>2 DEF BodySaid, EntrySaid, SlotSaid, Target
<1>15. BodySaid(b)'
  BY <1>2, <1>3, <1>4 DEF BodySaid, Target
<1>16. UsersIdle'
  BY <1>9 DEF CityParts, UsersIdle
<1>17. BodiesStand'
  <2>1. ASSUME NEW u \in Threads, NEW i \in DOMAIN Queue(u)', NEW x, x = Queue(u)'[i]
        PROVE  BodySaid(x)' /\ (x.sets_id \/ x.id \in exists["location"])
    <3>1. CASE i \in DOMAIN Queue(u) /\ x = Queue(u)[i]
      <4>1. BodySaid(x) /\ (x.sets_id \/ x.id \in exists["location"])
        BY <3>1 DEF CityParts, BodiesStand
      <4> QED BY <1>14, <4>1
    <3>2. CASE x = b
      BY <1>5, <1>15, <3>2
    <3> QED BY <1>11, <2>1, <3>1, <3>2
  <2>2. PICK h : h = Held
    OBVIOUS
  <2>3. Busy => BodySaid(h)' /\ h.id \in exists["location"]
    BY <1>14, <2>2 DEF CityParts, BodiesStand
  <2>4. Held' = h /\ (Busy' <=> Busy)
    BY <2>2 DEF Held, Busy
  <2> QED BY <2>1, <2>3, <2>4 DEF BodiesStand
<1>18. ASSUME NEW u \in Threads, NEW i \in DOMAIN Queue(u), Queue(u)[i].id = b.id
       PROVE  DOMAIN Queue(u)[i].names \intersect DOMAIN b.names = {}
  <2>1. BodySaid(Queue(u)[i])
    BY DEF CityParts, BodiesStand
  <2>2. PICK e \in log : Target(e.post) = b.id /\ e.post.body.names = Queue(u)[i].names
    BY <1>18, <2>1 DEF BodySaid
  <2> QED BY <1>6, <2>2
<1>19. FieldsApart'
  <2>1. ASSUME NEW u \in Threads, NEW v \in Threads, NEW i \in DOMAIN Queue(u)',
               NEW j \in DOMAIN Queue(v)', Queue(u)'[i].id = Queue(v)'[j].id, u # v \/ i # j
        PROVE  DOMAIN Queue(u)'[i].names \intersect DOMAIN Queue(v)'[j].names = {}
    <3>1. CASE /\ i \in DOMAIN Queue(u) /\ Queue(u)'[i] = Queue(u)[i]
               /\ j \in DOMAIN Queue(v) /\ Queue(v)'[j] = Queue(v)[j]
      BY <2>1, <3>1 DEF CityParts, FieldsApart
    <3>2. CASE /\ i \in DOMAIN Queue(u) /\ Queue(u)'[i] = Queue(u)[i]
               /\ Queue(v)'[j] = b
      BY <1>18, <2>1, <3>2
    <3>3. CASE /\ j \in DOMAIN Queue(v) /\ Queue(v)'[j] = Queue(v)[j]
               /\ Queue(u)'[i] = b
      BY <1>18, <2>1, <3>3
    <3>4. ~ (u = t /\ i = l + 1 /\ v = t /\ j = l + 1)
      BY <2>1
    <3> QED BY <1>11, <3>1, <3>2, <3>3, <3>4
  <2>2. ASSUME Busy
        PROVE  /\ \A i, j \in DOMAIN Left : Left[i] = Left[j] => i = j
               /\ \A u \in Threads : \A i \in DOMAIN Queue(u)' : Queue(u)'[i].id = Held.id =>
                    \A j \in DOMAIN Left : Left[j] \notin DOMAIN Queue(u)'[i].names
    <3>1. /\ \A i, j \in DOMAIN Left : Left[i] = Left[j] => i = j
          /\ \A u \in Threads : \A i \in DOMAIN Queue(u) : Queue(u)[i].id = Held.id =>
                    \A j \in DOMAIN Left : Left[j] \notin DOMAIN Queue(u)[i].names
      BY <2>2 DEF CityParts, FieldsApart
    <3>2. ASSUME NEW j \in DOMAIN Left, Held.id = b.id PROVE Left[j] \notin DOMAIN b.names
      <4>1. Left[j] \in DOMAIN Held.names
        BY <2>2 DEF IInv, TypeOK, WorkersTypeOK, HoldsBody, Kinds, Left, Held, Busy
      <4>2. PICK e \in log : Target(e.post) = b.id /\ e.post.body.names = Held.names
        BY <2>2, <3>2 DEF CityParts, BodiesStand, BodySaid
      <4> QED BY <1>6, <4>1, <4>2
    <3> QED BY <1>11, <3>1, <3>2
  <2> QED BY <2>1, <2>2 DEF FieldsApart, Left, Held, Busy
<1>20. RingStands'
  BY <1>14 DEF CityParts, RingStands
<1>21. SlotsApart'
  <2>1. ASSUME NEW r \in 0 .. write_index - 1, ring[r].id = b.id, NEW d \in DOMAIN b.names
        PROVE  ActOf(d) # ring[r].act
    <3>1. SlotSaid(ring[r])
      BY DEF CityParts, RingStands
    <3>2. PICK e \in log : \E c \in DOMAIN e.post.body.names :
            ring[r].act = ActOf(c) /\ ring[r].id = Target(e.post)
      BY <3>1 DEF SlotSaid
    <3>3. PICK c \in DOMAIN e.post.body.names : ring[r].act = ActOf(c) /\ b.id = Target(e.post)
      BY <2>1, <3>2
    <3>4. c \in AllDicts
      BY LogType DEF IInv, TypeOK
    <3>5. c # d
      BY <1>6, <3>3
    <3>6. d \in AllDicts
      <4>1. PICK k \in Kinds : p \in Post(k)
        BY NameConstants
      <4>2. p.body \in Body(k)
        BY <4>1 DEF Post
      <4> QED BY <1>4, <4>2, BodyType
    <3> QED BY <3>3, <3>4, <3>5, <3>6, CityAct
  <2>2. \A r \in 0 .. write_index - 1 :
          \A u \in Threads : \A i \in DOMAIN Queue(u)' : Queue(u)'[i].id = ring[r].id =>
            \A d \in DOMAIN Queue(u)'[i].names : ActOf(d) # ring[r].act
    BY <1>11, <2>1 DEF CityParts, SlotsApart
  <2> QED BY <2>2 DEF CityParts, SlotsApart, Left, Held, Busy
<1>22. CityKept'
  <2> SUFFICES ASSUME NEW e \in log', "city" \in DOMAIN e.post.body.names
               PROVE  CityAt(Target(e.post), e.post.body.names["city"])'
    BY DEF CityKept, Target
  <2>1. CASE e = new
    BY <1>3, <1>4, <1>13, <2>1 DEF CityAt
  <2>2. ASSUME NEW m, NEW n, CityAt(m, n) PROVE CityAt(m, n)'
    BY <1>12, <2>2 DEF CityAt, CityHas, Held, Left, Busy
  <2> QED BY <1>2, <2>1, <2>2 DEF CityParts, CityKept
<1>23. OthersKept'
  <2>1. ASSUME NEW m, NEW c, OthersAt(m, c) PROVE OthersAt(m, c)'
    BY <1>12, <2>1 DEF OthersAt
  <2>2. OthersAt(b.id, b.others)'
    BY <1>13 DEF OthersAt
  <2>3. \A e \in log' : e.post.body.others # NoContent =>
          OthersAt(Target(e.post), e.post.body.others)'
    BY <1>2, <1>3, <1>4, <2>1, <2>2 DEF CityParts, OthersKept
  <2> QED BY <1>2, <2>3 DEF CityParts, OthersKept, Target
<1> QED BY <1>16, <1>17, <1>19, <1>20, <1>21, <1>22, <1>23 DEF CityParts

\* The worker comes to each name of a location once, and to its city.
LEMMA InOrderOnce ==
  ASSUME NEW D, NEW s, s = InOrder("location", D)
  PROVE  /\ \A i, j \in DOMAIN s : s[i] = s[j] => i = j
         /\ "city" \in D => "city" \in ToSet(s)
<1>1. PICK a, b, c :
        a = FieldIf("city", D) /\ b = FieldIf("country", D) /\ c = FieldIf("place", D)
  OBVIOUS
<1>2. s = a \o b \o c
  BY <1>1 DEF InOrder
<1>3. /\ a = IF "city" \in D THEN <<"city">> ELSE <<>>
      /\ b = IF "country" \in D THEN <<"country">> ELSE <<>>
      /\ c = IF "place" \in D THEN <<"place">> ELSE <<>>
  BY <1>1 DEF FieldIf
<1>4. CASE "city" \in D
  <2>1. \/ s = <<"city", "country", "place">> \/ s = <<"city", "country">>
        \/ s = <<"city", "place">> \/ s = <<"city">>
    <3>1. CASE "country" \in D /\ "place" \in D
      <4>1. s = <<"city">> \o <<"country">> \o <<"place">>
        BY <1>2, <1>3, <1>4, <3>1
      <4> QED BY <4>1
    <3>2. CASE "country" \in D /\ "place" \notin D
      <4>1. s = <<"city">> \o <<"country">> \o <<>>
        BY <1>2, <1>3, <1>4, <3>2
      <4> QED BY <4>1
    <3>3. CASE "country" \notin D /\ "place" \in D
      <4>1. s = <<"city">> \o <<>> \o <<"place">>
        BY <1>2, <1>3, <1>4, <3>3
      <4> QED BY <4>1
    <3>4. CASE "country" \notin D /\ "place" \notin D
      <4>1. s = <<"city">> \o <<>> \o <<>>
        BY <1>2, <1>3, <1>4, <3>4
      <4> QED BY <4>1
    <3> QED BY <3>1, <3>2, <3>3, <3>4
  <2>2. s[1] = "city" /\ 1 \in DOMAIN s
    BY <2>1
  <2>3. \A i, j \in DOMAIN s : s[i] = s[j] => i = j
    BY <2>1
  <2> QED BY <2>2, <2>3 DEF ToSet
<1>5. CASE "city" \notin D
  <2>1. \/ s = <<"country", "place">> \/ s = <<"country">>
        \/ s = <<"place">> \/ s = <<>>
    <3>1. CASE "country" \in D /\ "place" \in D
      <4>1. s = <<>> \o <<"country">> \o <<"place">>
        BY <1>2, <1>3, <1>5, <3>1
      <4> QED BY <4>1
    <3>2. CASE "country" \in D /\ "place" \notin D
      <4>1. s = <<>> \o <<"country">> \o <<>>
        BY <1>2, <1>3, <1>5, <3>2
      <4> QED BY <4>1
    <3>3. CASE "country" \notin D /\ "place" \in D
      <4>1. s = <<>> \o <<>> \o <<"place">>
        BY <1>2, <1>3, <1>5, <3>3
      <4> QED BY <4>1
    <3>4. CASE "country" \notin D /\ "place" \notin D
      <4>1. s = <<>> \o <<>> \o <<>>
        BY <1>2, <1>3, <1>5, <3>4
      <4> QED BY <4>1
    <3> QED BY <3>1, <3>2, <3>3, <3>4
  <2> QED BY <1>5, <2>1
<1> QED BY <1>4, <1>5

\* A location that is taken from the queue is stored, and its names, which no
\* other request on its way has, are in the worker's hands.
LEMMA TakeCity ==
  ASSUME IInv, CityParts, PlainLocations, NEW t \in Threads, WorkerTake("location", t)
  PROVE  CityParts'
<1>1. PICK q, b, n : q = Queue(t) /\ b = Head(q) /\ n = Tail(q)
  OBVIOUS
<1>2. /\ requests["location"] \in [Threads -> Seq(Body("location"))]
      /\ "location" \in DOMAIN requests
      /\ "location" \in DOMAIN item /\ "location" \in DOMAIN todo /\ "location" \in DOMAIN wpc
      /\ exists \in [Kinds -> SUBSET Ids] /\ "location" \in Kinds
      /\ others \in [Kinds -> [Ids -> Contents \union {NoContent}]]
  BY DEF IInv, TypeOK, WorkersTypeOK, DictsTypeOK, Kinds
<1>3. /\ q \in Seq(Body("location")) /\ q # <<>> /\ wpc["location"] = "dequeue"
      /\ Held' = b /\ Left' = InOrder("location", DOMAIN b.names)
      /\ exists' = [exists EXCEPT !["location"] = IF b.sets_id THEN @ \union {b.id} ELSE @]
      /\ others' = [others EXCEPT !["location"][b.id] = IF b.others # NoContent THEN b.others ELSE @]
      /\ requests' = [requests EXCEPT !["location"][t] = n]
      /\ wpc' = [wpc EXCEPT !["location"] = "names"]
      /\ UNCHANGED <<log, name_id, map, write_index, read_index, ring, lost, spc, entry>>
  BY <1>1, <1>2 DEF WorkerTake, Queue, Held, Left, tvars, qvars
<1>4. PICK l \in Nat : /\ l = Len(q) /\ l >= 1 /\ DOMAIN q = 1 .. l /\ q[1] = b
                       /\ DOMAIN n = 1 .. l - 1 /\ \A i \in 1 .. l - 1 : n[i] = q[i + 1]
  <2>1. PICK S : S = Body("location")
    OBVIOUS
  <2>2. q \in Seq(S) /\ q # <<>> /\ b = Head(q) /\ n = Tail(q)
    BY <1>1, <1>3, <2>1
  <2>3. PICK l \in Nat : l = Len(q) /\ l >= 1
    BY <2>2
  <2>4. DOMAIN q = 1 .. l /\ q[1] = b /\ DOMAIN n = 1 .. l - 1
    BY <2>2, <2>3
  <2>5. \A i \in 1 .. l - 1 : n[i] = q[i + 1]
    BY <2>2, <2>3
  <2> QED BY <2>3, <2>4, <2>5
<1>5. /\ ~ Busy /\ Busy' /\ wpc'["location"] = "names" /\ wpc'["user"] = wpc["user"]
      /\ requests'["location"] = [requests["location"] EXCEPT ![t] = n]
      /\ requests'["user"] = requests["user"]
      /\ b \in Body("location") /\ b.id \in Ids
  <2>1. b \in Body("location")
    BY <1>1, <1>3
  <2> QED BY <1>2, <1>3, <2>1, BodyType DEF Busy
<1>6. \A u \in Threads : Queue(u)' = IF u = t THEN n ELSE Queue(u)
  BY <1>2, <1>5 DEF Queue
<1>7. ASSUME NEW u \in Threads, NEW i \in DOMAIN Queue(u)'
      PROVE  LET j == IF u = t THEN i + 1 ELSE i
             IN  /\ j \in DOMAIN Queue(u) /\ Queue(u)[j] = Queue(u)'[i]
                 /\ u # t \/ j # 1
  BY <1>1, <1>4, <1>6, <1>7
<1>8. ASSUME NEW u \in Threads, NEW j \in DOMAIN Queue(u), u # t \/ j # 1
      PROVE  \E i \in DOMAIN Queue(u)' : Queue(u)'[i] = Queue(u)[j]
  <2>1. CASE u = t
    <3>1. j - 1 \in 1 .. l - 1 /\ (j - 1) + 1 = j
      BY <1>1, <1>4, <1>8, <2>1
    <3>2. n[j - 1] = q[j]
      BY <1>4, <3>1
    <3> QED BY <1>1, <1>4, <1>6, <2>1, <3>1, <3>2
  <2>2. CASE u # t
    BY <1>6, <2>2
  <2> QED BY <2>1, <2>2
<1>9. 1 \in DOMAIN Queue(t) /\ Queue(t)[1] = b
  BY <1>1, <1>4
<1>10. \A x : /\ BodySaid(x)' <=> BodySaid(x)
              /\ (EntrySaid(x)' <=> EntrySaid(x)) /\ (SlotSaid(x)' <=> SlotSaid(x))
  BY <1>3 DEF BodySaid, EntrySaid, SlotSaid, Target
<1>11. UsersIdle'
  BY <1>5 DEF CityParts, UsersIdle
<1>12. BodySaid(b) /\ (b.sets_id \/ b.id \in exists["location"])
  BY <1>9 DEF CityParts, BodiesStand
<1>13. BodiesStand'
  <2>1. exists["location"] \subseteq exists'["location"] /\ b.id \in exists'["location"]
    BY <1>2, <1>3, <1>12
  <2>2. ASSUME NEW u \in Threads, NEW i \in DOMAIN Queue(u)', NEW x, x = Queue(u)'[i]
        PROVE  BodySaid(x)' /\ (x.sets_id \/ x.id \in exists'["location"])
    <3>1. PICK j \in DOMAIN Queue(u) : Queue(u)[j] = x
      BY <1>7, <2>2
    <3>2. BodySaid(x) /\ (x.sets_id \/ x.id \in exists["location"])
      BY <3>1 DEF CityParts, BodiesStand
    <3> QED BY <1>10, <2>1, <3>2
  <2>3. BodySaid(b)'
    BY <1>10, <1>12
  <2> QED BY <1>3, <2>1, <2>2, <2>3 DEF BodiesStand
<1>14. FieldsApart'
  <2>1. ASSUME NEW u \in Threads, NEW v \in Threads, NEW i \in DOMAIN Queue(u)',
               NEW j \in DOMAIN Queue(v)', Queue(u)'[i].id = Queue(v)'[j].id, u # v \/ i # j
        PROVE  DOMAIN Queue(u)'[i].names \intersect DOMAIN Queue(v)'[j].names = {}
    <3>1. PICK x, y : /\ x = IF u = t THEN i + 1 ELSE i
                      /\ y = IF v = t THEN j + 1 ELSE j
      OBVIOUS
    <3>2. /\ x \in DOMAIN Queue(u) /\ Queue(u)[x] = Queue(u)'[i]
          /\ y \in DOMAIN Queue(v) /\ Queue(v)[y] = Queue(v)'[j]
      BY <1>7, <3>1
    <3>3. u # v \/ x # y
      <4>1. CASE u = v /\ u = t
        <5>1. i \in 1 .. l - 1 /\ j \in 1 .. l - 1
          BY <1>4, <1>6, <4>1
        <5> QED BY <2>1, <3>1, <4>1, <5>1
      <4> QED BY <2>1, <3>1, <4>1
    <3> QED BY <2>1, <3>2, <3>3 DEF CityParts, FieldsApart
  <2>2. \A i, j \in DOMAIN Left' : Left'[i] = Left'[j] => i = j
    BY <1>3, InOrderOnce
  <2>3. ASSUME NEW u \in Threads, NEW i \in DOMAIN Queue(u)', Queue(u)'[i].id = b.id,
               NEW j \in DOMAIN Left'
        PROVE  Left'[j] \notin DOMAIN Queue(u)'[i].names
    <3>1. PICK x \in DOMAIN Queue(u) : Queue(u)[x] = Queue(u)'[i] /\ (u # t \/ x # 1)
      BY <1>7
    <3>2. DOMAIN Queue(u)[x].names \intersect DOMAIN b.names = {}
      BY <1>9, <2>3, <3>1 DEF CityParts, FieldsApart
    <3>3. PICK s : s = Left'
      OBVIOUS
    <3>4. s \in Seq(DOMAIN b.names)
      BY <1>3, <3>3, InOrderType DEF Kinds
    <3>5. s[j] \in DOMAIN b.names
      BY <2>3, <3>3, <3>4
    <3> QED BY <3>1, <3>2, <3>3, <3>5
  <2> QED BY <1>3, <2>1, <2>2, <2>3 DEF FieldsApart
<1>15. RingStands'
  BY <1>3, <1>5, <1>10 DEF CityParts, RingStands
<1>16. SlotsApart'
  <2>1. ASSUME NEW r \in 0 .. write_index - 1, NEW u \in Threads, NEW i \in DOMAIN Queue(u)',
               Queue(u)'[i].id = ring[r].id, NEW d \in DOMAIN Queue(u)'[i].names
        PROVE  ActOf(d) # ring[r].act
    <3>1. PICK x \in DOMAIN Queue(u) : Queue(u)[x] = Queue(u)'[i]
      BY <1>7
    <3> QED BY <2>1, <3>1 DEF CityParts, SlotsApart
  <2>2. ASSUME NEW r \in 0 .. write_index - 1, b.id = ring[r].id, NEW j \in DOMAIN Left'
        PROVE  ActOf(Left'[j]) # ring[r].act
    <3>1. PICK s : s = Left'
      OBVIOUS
    <3>2. s \in Seq(DOMAIN b.names)
      BY <1>3, <3>1, InOrderType DEF Kinds
    <3>3. s[j] \in DOMAIN b.names
      BY <2>2, <3>1, <3>2
    <3> QED BY <1>9, <2>2, <3>1, <3>3 DEF CityParts, SlotsApart
  <2>3. \A r, s \in 0 .. write_index - 1 :
          ring[r].id = ring[s].id /\ ring[r].act = ring[s].act => r = s
    BY DEF CityParts, SlotsApart
  <2> QED BY <1>3, <2>1, <2>2, <2>3 DEF SlotsApart
<1>17. CityKept'
  <2>1. ASSUME NEW m, NEW x, CityAt(m, x) PROVE CityAt(m, x)'
    <3>1. CASE \E u \in Threads : \E i \in DOMAIN Queue(u) :
                 /\ Queue(u)[i].id = m /\ "city" \in DOMAIN Queue(u)[i].names
                 /\ Queue(u)[i].names["city"] = x
      <4>1. PICK u \in Threads :
              \E i \in DOMAIN Queue(u) : /\ Queue(u)[i].id = m
                                         /\ "city" \in DOMAIN Queue(u)[i].names
                                         /\ Queue(u)[i].names["city"] = x
        BY <3>1
      <4>2. PICK i \in DOMAIN Queue(u) : /\ Queue(u)[i].id = m
                                         /\ "city" \in DOMAIN Queue(u)[i].names
                                         /\ Queue(u)[i].names["city"] = x
        BY <4>1
      <4>3. CASE u # t \/ i # 1
        <5>1. PICK j \in DOMAIN Queue(u)' : Queue(u)'[j] = Queue(u)[i]
          BY <1>8, <4>3
        <5> QED BY <4>2, <5>1 DEF CityAt
      <4>4. CASE u = t /\ i = 1
        <5>1. b.id = m /\ "city" \in DOMAIN b.names /\ b.names["city"] = x
          BY <1>9, <4>2, <4>4
        <5>2. "city" \in ToSet(Left')
          BY <1>3, <5>1, InOrderOnce
        <5> QED BY <1>3, <1>5, <5>1, <5>2 DEF CityAt
      <4> QED BY <4>3, <4>4
    <3>2. CASE ~ \E u \in Threads : \E i \in DOMAIN Queue(u) :
                   /\ Queue(u)[i].id = m /\ "city" \in DOMAIN Queue(u)[i].names
                   /\ Queue(u)[i].names["city"] = x
      BY <1>3, <1>5, <2>1, <3>2 DEF CityAt, CityHas
    <3> QED BY <3>1, <3>2
  <2> QED BY <1>3, <2>1 DEF CityParts, CityKept, Target
<1>18. OthersKept'
  <2>1. \A m \in Ids : others'["location"][m] =
          IF m = b.id /\ b.others # NoContent THEN b.others ELSE others["location"][m]
    BY <1>2, <1>3, <1>5
  <2>2. PICK f \in log : Target(f.post) = b.id /\ f.post.body.others = b.others
    BY <1>12 DEF BodySaid
  <2>3. ASSUME NEW e \in log, e.post.body.others # NoContent, NEW m, m = Target(e.post),
               NEW c, c = e.post.body.others
        PROVE  OthersAt(m, c)'
    <3>1. m \in Ids
      BY <2>3, LogType DEF IInv, TypeOK
    <3>2. CASE m = b.id /\ b.others # NoContent
      <4>1. e = f
        BY <2>2, <2>3, <3>2, OneSaysOthers
      <4> QED BY <2>1, <2>2, <2>3, <3>1, <3>2, <4>1 DEF OthersAt
    <3>3. CASE others["location"][m] = c /\ ~ (m = b.id /\ b.others # NoContent)
      BY <2>1, <3>1, <3>3 DEF OthersAt
    <3>4. ASSUME NEW u \in Threads, NEW i \in DOMAIN Queue(u),
                 Queue(u)[i].id = m, Queue(u)[i].others = c,
                 ~ (m = b.id /\ b.others # NoContent)
          PROVE  OthersAt(m, c)'
      <4>1. u # t \/ i # 1
        BY <1>9, <2>3, <3>4
      <4>2. PICK j \in DOMAIN Queue(u)' : Queue(u)'[j] = Queue(u)[i]
        BY <1>8, <4>1
      <4> QED BY <3>4, <4>2 DEF OthersAt
    <3>5. OthersAt(m, c)
      BY <2>3 DEF CityParts, OthersKept
    <3> QED BY <3>2, <3>3, <3>4, <3>5 DEF OthersAt
  <2>4. ASSUME NEW m \in DOMAIN LoadedOthers["location"],
               \A e \in log : Target(e.post) = m => e.post.body.others = NoContent
        PROVE  others'["location"][m] = LoadedOthers["location"][m]
    <3>1. m \in Ids
      BY NameConstants, DictNames DEF Kinds, Dicts
    <3>2. others["location"][m] = LoadedOthers["location"][m]
      BY <2>4 DEF CityParts, OthersKept
    <3>3. m = b.id => b.others = NoContent
      BY <2>2, <2>4
    <3> QED BY <2>1, <3>1, <3>2, <3>3
  <2> QED BY <1>3, <2>3, <2>4 DEF OthersKept, Target
<1> QED BY <1>11, <1>13, <1>14, <1>15, <1>16, <1>17, <1>18 DEF CityParts

\* A city that is stored stays, whatever id a field is given: only its own POST
\* says what the city of the location is.
LEMMA StoredStays ==
  ASSUME PlainLocations, TypeOK, NEW d \in AllDicts, NEW eid \in Ids, NEW n,
         n \in DOMAIN map'[d], name_id' = Stored(d, eid, map'[d][n]),
         NEW e \in log, "city" \in DOMAIN e.post.body.names,
         NEW m, m = Target(e.post), NEW x, x = e.post.body.names["city"],
         d = "city" => \E f \in log : /\ Target(f.post) = eid
                                      /\ "city" \in DOMAIN f.post.body.names
                                      /\ f.post.body.names["city"] = n,
         x \in DOMAIN map["city"], name_id["city"][m] = map["city"][x],
         x \in DOMAIN map'["city"], map'["city"][x] = map["city"][x]
  PROVE  name_id'["city"][m] = map'["city"][x]
<1>1. m \in Ids /\ eid # NoId /\ "city" \in AllDicts
  BY LogType, NameConstants, DictNames DEF TypeOK
<1>2. name_id' = [name_id EXCEPT ![d][eid] = map'[d][n]]
  BY <1>1 DEF Stored
<1>3. name_id \in [AllDicts -> [Ids -> Nat \union {NoId}]]
  BY DEF TypeOK, DictsTypeOK
<1>4. CASE d = "city" /\ m = eid
  <2>1. PICK f \in log : /\ Target(f.post) = eid
                         /\ "city" \in DOMAIN f.post.body.names
                         /\ f.post.body.names["city"] = n
    BY <1>4
  <2>2. e = f
    BY <1>4, <2>1, OneSays
  <2>3. n = x
    BY <2>1, <2>2
  <2>4. name_id'["city"][m] = map'["city"][n]
    BY <1>1, <1>2, <1>3, <1>4
  <2> QED BY <2>3, <2>4
<1>5. CASE ~ (d = "city" /\ m = eid)
  <2>1. name_id'["city"][m] = name_id["city"][m]
    BY <1>1, <1>2, <1>3, <1>5
  <2> QED BY <2>1
<1> QED BY <1>4, <1>5

\* The field the worker is at.
LEMMA NextField ==
  ASSUME IInv, CityParts, wpc["location"] \in {"names", "push"}, Left # <<>>
  PROVE  /\ Busy /\ Held.id \in Ids /\ Left[1] \in AllDicts /\ Left[1] \in DOMAIN Held.names
         /\ 1 \in DOMAIN Left /\ Head(Left) = Left[1]
         /\ \A i \in DOMAIN Tail(Left) : i + 1 \in DOMAIN Left /\ Tail(Left)[i] = Left[i + 1]
         /\ \A j \in DOMAIN Left : j # 1 =>
              \E i \in DOMAIN Tail(Left) : Tail(Left)[i] = Left[j]
         /\ \E e \in log : /\ Target(e.post) = Held.id /\ e.post.body.names = Held.names
<1>1. PICK q, n : q = Left /\ n = Tail(q)
  OBVIOUS
<1>2. PICK S : S = DOMAIN Held.names
  OBVIOUS
<1>3. Busy
  BY DEF Busy
<1>4. q \in Seq(S) /\ q # <<>> /\ Held \in Body("location")
  BY <1>1, <1>2, <1>3 DEF IInv, TypeOK, WorkersTypeOK, HoldsBody, Kinds, Left, Held, Busy
<1>5. PICK l \in Nat : l = Len(q) /\ l >= 1
  BY <1>4
<1>6. DOMAIN q = 1 .. l /\ DOMAIN n = 1 .. l - 1 /\ q[1] \in S /\ Head(q) = q[1]
  BY <1>1, <1>4, <1>5
<1>7. \A i \in 1 .. l - 1 : n[i] = q[i + 1]
  BY <1>1, <1>4, <1>5
<1>8. ASSUME NEW j \in 1 .. l, j # 1 PROVE \E i \in 1 .. l - 1 : n[i] = q[j]
  <2>1. j - 1 \in 1 .. l - 1 /\ (j - 1) + 1 = j
    BY <1>5, <1>8
  <2> QED BY <1>7, <2>1
<1>9. Held.id \in Ids /\ S \subseteq AllDicts
  BY <1>2, <1>4, BodyType DEF Kinds
<1>10. \E e \in log : Target(e.post) = Held.id /\ e.post.body.names = Held.names
  BY <1>3 DEF CityParts, BodiesStand, BodySaid
<1>11. /\ q[1] \in AllDicts /\ q[1] \in DOMAIN Held.names /\ 1 \in DOMAIN q
       /\ \A i \in DOMAIN n : i + 1 \in DOMAIN q /\ n[i] = q[i + 1]
  BY <1>2, <1>5, <1>6, <1>7, <1>9
<1>12. \A j \in DOMAIN q : j # 1 => \E i \in DOMAIN n : n[i] = q[j]
  BY <1>6, <1>8
<1> QED BY <1>1, <1>3, <1>6, <1>9, <1>10, <1>11, <1>12

\* A field the worker is past is one less for it to come to.
LEMMA PastField ==
  ASSUME IInv, CityParts, wpc["location"] \in {"names", "push"}, Left # <<>>,
         Left' = Tail(Left), Held' = Held, Busy', UNCHANGED requests
  PROVE  FieldsApart'
<1>1. PICK n : n = Tail(Left)
  OBVIOUS
<1>2. \A i \in DOMAIN n : i \in Int /\ i + 1 \in DOMAIN Left /\ n[i] = Left[i + 1]
  <2>1. \A i \in DOMAIN n : i + 1 \in DOMAIN Left /\ n[i] = Left[i + 1]
    BY <1>1, NextField
  <2>2. n \in Seq(DOMAIN Held.names)
    BY <1>1, NextName DEF IInv, Kinds, Left, Held
  <2> QED BY <2>1, <2>2
<1>3. /\ \A i, j \in DOMAIN Left : Left[i] = Left[j] => i = j
      /\ \A u \in Threads : \A i \in DOMAIN Queue(u) : Queue(u)[i].id = Held.id =>
           \A j \in DOMAIN Left : Left[j] \notin DOMAIN Queue(u)[i].names
  BY NextField DEF CityParts, FieldsApart
<1>4. ASSUME NEW i \in DOMAIN n, NEW j \in DOMAIN n, n[i] = n[j] PROVE i = j
  <2>1. i + 1 = j + 1
    BY <1>2, <1>3, <1>4
  <2> QED BY <1>2, <2>1
<1>5. \A u \in Threads : \A i \in DOMAIN Queue(u) : Queue(u)[i].id = Held.id =>
         \A j \in DOMAIN n : n[j] \notin DOMAIN Queue(u)[i].names
  BY <1>2, <1>3
<1>6. \A t, u \in Threads : \A i \in DOMAIN Queue(t) : \A j \in DOMAIN Queue(u) :
        Queue(t)[i].id = Queue(u)[j].id /\ (t # u \/ i # j) =>
          DOMAIN Queue(t)[i].names \intersect DOMAIN Queue(u)[j].names = {}
  BY DEF CityParts, FieldsApart
<1>7. \A u : Queue(u)' = Queue(u)
  BY DEF Queue
<1> QED BY <1>1, <1>4, <1>5, <1>6, <1>7 DEF FieldsApart

\* A name the worker looks up and finds is stored; for another it has read the
\* index where to write it.
LEMMA NameCity ==
  ASSUME IInv, CityParts, PlainLocations, WorkerName("location")
  PROVE  CityParts'
<1>1. PICK d, n : d = Head(Left) /\ n = Held.names[d]
  OBVIOUS
<1>2. /\ wpc["location"] = "names" /\ Left # <<>> /\ todo["location"] = Left
      /\ item["location"] = Held
      /\ UNCHANGED <<log, exists, others, vec, map, requests, item, ring, write_index,
                     read_index, lost, spc, entry>>
  BY DEF WorkerName, Left, Held, tvars, qvars
<1>3. /\ Busy /\ Held.id \in Ids /\ d \in AllDicts /\ d \in DOMAIN Held.names /\ d = Left[1]
      /\ \E e \in log : Target(e.post) = Held.id /\ e.post.body.names = Held.names
  BY <1>1, <1>2, NextField
<1>4. /\ "location" \in DOMAIN todo /\ "location" \in DOMAIN wpc /\ "location" \in DOMAIN slot
      /\ "user" # "location"
  BY DEF IInv, TypeOK, WorkersTypeOK, Kinds
<1>5. CASE ~ IsKnown(d, n)
  <2>1. /\ wpc' = [wpc EXCEPT !["location"] = "push"]
        /\ slot' = [slot EXCEPT !["location"] = write_index]
        /\ UNCHANGED <<name_id, todo>>
    BY <1>1, <1>2, <1>5 DEF WorkerName
  <2>2. /\ wpc'["user"] = wpc["user"] /\ wpc'["location"] = "push" /\ Busy'
        /\ slot'["location"] = write_index
    BY <1>4, <2>1 DEF Busy
  <2>3. UsersIdle'
    BY <1>2, <2>2 DEF CityParts, UsersIdle
  <2>4. /\ \A b : BodySaid(b)' <=> BodySaid(b)
        /\ \A x : (EntrySaid(x)' <=> EntrySaid(x)) /\ (SlotSaid(x)' <=> SlotSaid(x))
    BY <1>2 DEF BodySaid, EntrySaid, SlotSaid, Target
  <2>5. BodiesStand'
    BY <1>2, <1>3, <2>2, <2>4 DEF CityParts, BodiesStand, Queue, Held
  <2>6. FieldsApart' /\ SlotsApart'
    BY <1>2, <1>3, <2>1, <2>2 DEF CityParts, FieldsApart, SlotsApart, Queue, Held, Left
  <2>7. RingStands'
    BY <1>2, <2>2, <2>4 DEF CityParts, RingStands
  <2>8. CityKept' /\ OthersKept'
    BY <1>2, <1>3, <2>1, <2>2 DEF CityParts, CityKept, CityAt, CityHas, OthersKept, OthersAt, Queue,
       Held, Left, Target
  <2> QED BY <2>3, <2>5, <2>6, <2>7, <2>8 DEF CityParts
<1>6. CASE IsKnown(d, n)
  <2>1. /\ name_id' = [name_id EXCEPT ![d][Held.id] = map[d][n]] /\ n \in DOMAIN map[d]
        /\ todo' = [todo EXCEPT !["location"] = Tail(@)] /\ UNCHANGED <<wpc, slot>>
    BY <1>1, <1>2, <1>6 DEF WorkerName, IsKnown
  <2>2. Left' = Tail(Left) /\ Busy' /\ Held' = Held
    BY <1>2, <1>3, <1>4, <2>1 DEF Left, Busy, Held
  <2>3. name_id' = Stored(d, Held.id, map'[d][n])
    BY <1>2, <1>3, <2>1, NameConstants DEF Stored
  <2>4. UsersIdle'
    BY <1>2, <2>1 DEF CityParts, UsersIdle
  <2>5. /\ \A b : BodySaid(b)' <=> BodySaid(b)
        /\ \A x : (EntrySaid(x)' <=> EntrySaid(x)) /\ (SlotSaid(x)' <=> SlotSaid(x))
    BY <1>2 DEF BodySaid, EntrySaid, SlotSaid, Target
  <2>6. BodiesStand'
    BY <1>2, <1>3, <2>2, <2>5 DEF CityParts, BodiesStand, Queue
  <2>7. FieldsApart'
    BY <1>2, <2>2, PastField
  <2>8. RingStands'
    BY <1>2, <2>1, <2>5 DEF CityParts, RingStands
  <2>9. SlotsApart'
    <3>1. PICK s : s = Tail(Left)
      OBVIOUS
    <3>2. \A j \in DOMAIN s : j + 1 \in DOMAIN Left /\ s[j] = Left[j + 1]
      BY <1>2, <3>1, NextField
    <3>3. \A u : Queue(u)' = Queue(u)
      BY <1>2 DEF Queue
    <3> QED BY <1>2, <1>3, <2>2, <3>1, <3>2, <3>3 DEF CityParts, SlotsApart
  <2>10. CityKept'
    <3> SUFFICES ASSUME NEW e \in log, "city" \in DOMAIN e.post.body.names,
                        NEW m, m = Target(e.post), NEW x, x = e.post.body.names["city"]
                 PROVE  CityAt(m, x)'
      BY <1>2 DEF CityKept, Target
    <3>1. CityAt(m, x)
      BY DEF CityParts, CityKept
    <3>2. CASE Busy /\ Held.id = m /\ "city" \in ToSet(Left) /\ Held.names["city"] = x
      <4>1. PICK j \in DOMAIN Left : Left[j] = "city"
        BY <3>2 DEF ToSet
      <4>2. CASE j = 1
        <5>1. d = "city" /\ n = x /\ "city" \in AllDicts
          BY <1>1, <1>3, <3>2, <4>1, <4>2
        <5>2. name_id'["city"][m] = map'["city"][x] /\ x \in DOMAIN map'["city"]
          BY <1>2, <1>3, <2>1, <3>2, <5>1 DEF IInv, TypeOK, DictsTypeOK
        <5> QED BY <5>2 DEF CityAt, CityHas
      <4>3. CASE j # 1
        <5>1. PICK i \in DOMAIN Tail(Left) : Tail(Left)[i] = Left[j]
          BY <1>2, <4>1, <4>3, NextField
        <5>2. "city" \in ToSet(Left')
          BY <2>2, <4>1, <5>1 DEF ToSet
        <5> QED BY <2>2, <3>2, <5>2 DEF CityAt
      <4> QED BY <4>2, <4>3
    <3>3. CASE x \in DOMAIN map["city"] /\ name_id["city"][m] = map["city"][x]
      <4>1. d = "city" => \E f \in log : /\ Target(f.post) = Held.id
                                         /\ "city" \in DOMAIN f.post.body.names
                                         /\ f.post.body.names["city"] = n
        BY <1>1, <1>3
      <4>2. name_id'["city"][m] = map'["city"][x]
        <5>1. PICK eid : eid = Held.id
          OBVIOUS
        <5>2. eid \in Ids /\ name_id' = Stored(d, eid, map'[d][n]) /\ n \in DOMAIN map'[d]
          BY <1>2, <1>3, <2>1, <2>3, <5>1
        <5>3. d = "city" => \E f \in log : /\ Target(f.post) = eid
                                           /\ "city" \in DOMAIN f.post.body.names
                                           /\ f.post.body.names["city"] = n
          BY <4>1, <5>1
        <5>4. x \in DOMAIN map'["city"] /\ map'["city"][x] = map["city"][x]
          BY <1>2, <3>3
        <5>5. TypeOK /\ PlainLocations
          BY DEF IInv
        <5>6. e \in log /\ "city" \in DOMAIN e.post.body.names /\ m = Target(e.post)
              /\ x = e.post.body.names["city"] /\ d \in AllDicts
          BY <1>3
        <5> QED BY <3>3, <5>2, <5>3, <5>4, <5>5, <5>6, StoredStays
      <4> QED BY <1>2, <3>3, <4>2 DEF CityAt, CityHas
    <3>4. CASE \/ \E t \in Threads : \E i \in DOMAIN Queue(t) :
                    /\ Queue(t)[i].id = m /\ "city" \in DOMAIN Queue(t)[i].names
                    /\ Queue(t)[i].names["city"] = x
               \/ \E r \in read_index .. write_index - 1 :
                    ring[r].act = 2 /\ ring[r].id = m /\ ring[r].str = x
               \/ spc = "emplace" /\ entry.act = 2 /\ entry.id = m /\ entry.str = x
               \/ \E y \in lost : y.act = 2 /\ y.id = m /\ y.str = x
      <4>1. \A u : Queue(u)' = Queue(u)
        BY <1>2 DEF Queue
      <4> QED BY <1>2, <3>4, <4>1 DEF CityAt
    <3> QED BY <3>1, <3>2, <3>3, <3>4 DEF CityAt, CityHas
  <2>11. OthersKept'
    BY <1>2 DEF CityParts, OthersKept, OthersAt, Queue, Target
  <2> QED BY <2>4, <2>6, <2>7, <2>8, <2>9, <2>10, <2>11 DEF CityParts
<1> QED BY <1>5, <1>6

\* The queue of Strings has room for a name of the worker, and no slot of its
\* field: it is written behind the others.
LEMMA PushCity ==
  ASSUME IInv, IsFiniteSet(log), CityParts, PlainLocations, WorkerPush("location")
  PROVE  CityParts'
<1>1. PICK d, w : d = Head(Left) /\ w = write_index
  OBVIOUS
<1>2. PICK new : new = [act |-> ActOf(d), id |-> Held.id, str |-> Held.names[d]]
  OBVIOUS
<1>3. /\ wpc["location"] = "push" /\ Left # <<>> /\ slot["location"] = w
      /\ UNCHANGED <<log, exists, others, name_id, vec, map, requests, item, read_index,
                     lost, spc, entry>>
      /\ wpc' = [wpc EXCEPT !["location"] = "names"]
      /\ todo' = [todo EXCEPT !["location"] = Tail(@)]
  BY <1>1 DEF WorkerPush, CityParts, RingStands, IInv, TypeOK, WorkersTypeOK, HoldsBody, Kinds,
     Left, svars, tvars
<1>4. /\ Busy /\ Held.id \in Ids /\ d \in AllDicts /\ d \in DOMAIN Held.names /\ d = Left[1]
      /\ 1 \in DOMAIN Left
      /\ \E e \in log : Target(e.post) = Held.id /\ e.post.body.names = Held.names
  BY <1>1, <1>3, NextField
<1>5. /\ "location" \in DOMAIN todo /\ "location" \in DOMAIN wpc /\ "user" # "location"
      /\ w \in Nat /\ read_index \in Nat /\ read_index <= w /\ w < RingSize
      /\ DOMAIN ring = Indices
  BY <1>1, NameConstants DEF IInv, TypeOK, WorkersTypeOK, StringsTypeOK, Indices, Kinds,
     CityParts, RingStands
<1>6. new.act = ActOf(d) /\ new.id = Held.id /\ new.str = Held.names[d]
  BY <1>2
<1>7. EntrySaid(new) /\ SlotSaid(new)
  BY <1>4, <1>6 DEF EntrySaid, SlotSaid
<1>8. \A r \in 0 .. w - 1 : ~ (ring[r].id = new.id /\ ring[r].act = new.act)
  BY <1>1, <1>4, <1>6 DEF CityParts, SlotsApart
<1>9. w + 1 < RingSize
  <2>1. PICK f : f = [r \in 0 .. w |-> IF r = w THEN new ELSE ring[r]]
    OBVIOUS
  <2>2. PICK n \in Nat : n = w + 1 /\ n - 1 = w
    BY <1>5
  <2>3. f[w] = new /\ \A r \in 0 .. w - 1 : f[r] = ring[r]
    BY <1>5, <2>1
  <2>4. \A r \in 0 .. n - 1 : r = w \/ r \in 0 .. w - 1
    BY <1>5, <2>2
  <2>5. \A r \in 0 .. n - 1 : SlotSaid(f[r])
    <3>1. \A r \in 0 .. w - 1 : SlotSaid(ring[r])
      BY <1>1 DEF CityParts, RingStands
    <3> QED BY <1>7, <2>3, <2>4, <3>1
  <2>6. \A r, s \in 0 .. n - 1 : f[r].id = f[s].id /\ f[r].act = f[s].act => r = s
    <3>1. \A r, s \in 0 .. w - 1 :
            ring[r].id = ring[s].id /\ ring[r].act = ring[s].act => r = s
      BY <1>1 DEF CityParts, SlotsApart
    <3> QED BY <1>8, <2>3, <2>4, <3>1
  <2>7. n < RingSize
    BY <2>5, <2>6, RoomLeft DEF IInv, TypeOK
  <2> QED BY <2>2, <2>7
<1>10. NextIndex(w) = w + 1
  BY <1>5, <1>9, NameConstants DEF NextIndex
<1>11. ring' = [ring EXCEPT ![w] = new] /\ write_index' = w + 1
  <2>1. NextIndex(slot["location"]) # read_index
    BY <1>3, <1>5, <1>10
  <2>2. item["location"].id \in exists["location"]
    BY <1>4 DEF CityParts, BodiesStand, Held
  <2> QED BY <1>1, <1>2, <1>3, <1>10, <2>1, <2>2 DEF WorkerPush, Left, Held
<1>12. /\ ring'[w] = new /\ \A r \in 0 .. w - 1 : ring'[r] = ring[r]
       /\ \A r \in 0 .. write_index' - 1 : r = w \/ r \in 0 .. w - 1
  <2>1. w \in DOMAIN ring
    BY <1>5, NameConstants DEF Indices
  <2> QED BY <1>5, <1>11, <2>1
<1>13. /\ Left' = Tail(Left) /\ Held' = Held /\ Busy' /\ wpc'["location"] = "names"
       /\ wpc'["user"] = wpc["user"] /\ \A u : Queue(u)' = Queue(u)
  BY <1>3, <1>5 DEF Left, Held, Busy, Queue
<1>14. /\ \A b : BodySaid(b)' <=> BodySaid(b)
       /\ \A x : (EntrySaid(x)' <=> EntrySaid(x)) /\ (SlotSaid(x)' <=> SlotSaid(x))
  BY <1>3 DEF BodySaid, EntrySaid, SlotSaid, Target
<1>15. UsersIdle'
  BY <1>3, <1>13 DEF CityParts, UsersIdle
<1>16. BodiesStand'
  BY <1>3, <1>4, <1>13, <1>14 DEF CityParts, BodiesStand
<1>17. FieldsApart'
  BY <1>3, <1>13, PastField
<1>18. RingStands'
  <2>1. /\ \A r \in 0 .. w - 1 : SlotSaid(ring[r])
        /\ \A r \in read_index .. w - 1 : EntrySaid(ring[r])
    BY <1>1 DEF CityParts, RingStands
  <2>2. ASSUME NEW r \in 0 .. write_index' - 1, NEW x, x = ring'[r] PROVE SlotSaid(x)
    BY <1>7, <1>12, <2>1, <2>2
  <2>3. ASSUME NEW r \in read_index .. write_index' - 1, NEW x, x = ring'[r]
        PROVE  EntrySaid(x)
    <3>1. r = w \/ (r \in 0 .. w - 1 /\ r \in read_index .. w - 1)
      BY <1>5, <1>11
    <3> QED BY <1>7, <1>12, <2>1, <2>3, <3>1
  <2>4. read_index <= write_index'
    BY <1>5, <1>11
  <2>5. spc = "emplace" => EntrySaid(entry)
    BY DEF CityParts, RingStands
  <2>6. PICK y : y = entry
    OBVIOUS
  <2> QED BY <1>3, <1>13, <1>14, <2>2, <2>3, <2>4, <2>5, <2>6 DEF RingStands
<1>19. SlotsApart'
  <2>1. PICK s : s = Tail(Left)
    OBVIOUS
  <2>2. \A j \in DOMAIN s : j \in Int /\ j + 1 \in DOMAIN Left /\ s[j] = Left[j + 1]
    <3>1. s \in Seq(DOMAIN Held.names)
      BY <1>3, <2>1, NextName DEF IInv, Kinds, Left, Held
    <3> QED BY <1>3, <2>1, <3>1, NextField
  <2>3. \A r, q \in 0 .. write_index' - 1 :
          ring'[r].id = ring'[q].id /\ ring'[r].act = ring'[q].act => r = q
    <3>1. \A r, q \in 0 .. w - 1 :
            ring[r].id = ring[q].id /\ ring[r].act = ring[q].act => r = q
      BY <1>1 DEF CityParts, SlotsApart
    <3> QED BY <1>8, <1>12, <3>1
  <2>4. ASSUME NEW t \in Threads, NEW i \in DOMAIN Queue(t), NEW r \in 0 .. write_index' - 1,
               Queue(t)[i].id = ring'[r].id, NEW c \in DOMAIN Queue(t)[i].names
        PROVE  ActOf(c) # ring'[r].act
    <3>1. CASE r \in 0 .. w - 1
      BY <1>1, <1>12, <2>4, <3>1 DEF CityParts, SlotsApart
    <3>2. CASE r = w
      <4>1. Queue(t)[i].id = Held.id /\ ring'[r].act = ActOf(d)
        BY <1>6, <1>12, <2>4, <3>2
      <4>2. d # c
        BY <1>4, <2>4, <4>1 DEF CityParts, FieldsApart
      <4>3. c \in AllDicts
        <5>1. Queue(t)[i] \in Body("location")
          BY DEF IInv, TypeOK, WorkersTypeOK, Kinds, Queue
        <5> QED BY <2>4, <5>1, BodyType DEF Kinds
      <4> QED BY <1>4, <4>1, <4>2, <4>3, CityAct
    <3> QED BY <1>12, <3>1, <3>2
  <2>5. ASSUME NEW r \in 0 .. write_index' - 1, Held.id = ring'[r].id, NEW j \in DOMAIN s
        PROVE  ActOf(s[j]) # ring'[r].act
    <3>1. CASE r \in 0 .. w - 1
      BY <1>1, <1>4, <1>12, <2>2, <2>5, <3>1 DEF CityParts, SlotsApart
    <3>2. CASE r = w
      <4>1. ring'[r].act = ActOf(d)
        BY <1>6, <1>12, <3>2
      <4>2. s \in Seq(DOMAIN Held.names)
        BY <1>3, <2>1, NextName DEF IInv, Kinds, Left, Held
      <4>3. j >= 1 /\ s[j] = Left[j + 1] /\ j + 1 \in DOMAIN Left /\ j + 1 # 1
        BY <2>2, <2>5, <4>2
      <4>4. s[j] # d
        BY <1>4, <4>3 DEF CityParts, FieldsApart
      <4>5. s[j] \in AllDicts
        <5>1. Held \in Body("location")
          BY <1>4 DEF IInv, TypeOK, WorkersTypeOK, HoldsBody, Kinds, Held, Busy
        <5>2. DOMAIN Held.names \subseteq AllDicts
          BY <5>1, BodyType DEF Kinds
        <5>3. s[j] \in DOMAIN Held.names
          BY <2>5, <4>2
        <5> QED BY <5>2, <5>3
      <4> QED BY <1>4, <4>1, <4>4, <4>5, CityAct
    <3> QED BY <1>12, <3>1, <3>2
  <2> QED BY <1>13, <2>1, <2>3, <2>4, <2>5 DEF SlotsApart
<1>20. CityKept'
  <2>1. ASSUME NEW m, NEW x, CityAt(m, x) PROVE CityAt(m, x)'
    <3>1. CASE Busy /\ Held.id = m /\ "city" \in ToSet(Left) /\ Held.names["city"] = x
      <4>1. PICK j \in DOMAIN Left : Left[j] = "city"
        BY <3>1 DEF ToSet
      <4>2. CASE j = 1
        <5>1. d = "city" /\ new.act = 2 /\ new.id = m /\ new.str = x
          BY <1>4, <1>6, <3>1, <4>1, <4>2, CityAct
        <5>2. w \in read_index .. write_index' - 1
          BY <1>5, <1>11
        <5> QED BY <1>3, <1>12, <5>1, <5>2 DEF CityAt
      <4>3. CASE j # 1
        <5>1. PICK i \in DOMAIN Tail(Left) : Tail(Left)[i] = Left[j]
          BY <1>3, <4>1, <4>3, NextField
        <5>2. "city" \in ToSet(Left')
          BY <1>13, <4>1, <5>1 DEF ToSet
        <5> QED BY <1>13, <3>1, <5>2 DEF CityAt
      <4> QED BY <4>2, <4>3
    <3>2. ASSUME NEW r \in read_index .. write_index - 1,
                 ring[r].act = 2 /\ ring[r].id = m /\ ring[r].str = x
          PROVE  CityAt(m, x)'
      <4>1. r \in 0 .. w - 1 /\ r \in read_index .. write_index' - 1
        BY <1>1, <1>5, <1>11
      <4> QED BY <1>3, <1>12, <3>2, <4>1 DEF CityAt
    <3>3. CASE \/ \E t \in Threads : \E i \in DOMAIN Queue(t) :
                    /\ Queue(t)[i].id = m /\ "city" \in DOMAIN Queue(t)[i].names
                    /\ Queue(t)[i].names["city"] = x
               \/ spc = "emplace" /\ entry.act = 2 /\ entry.id = m /\ entry.str = x
               \/ \E y \in lost : y.act = 2 /\ y.id = m /\ y.str = x
               \/ CityHas(m, x)
      BY <1>3, <1>13, <3>3 DEF CityAt, CityHas
    <3> QED BY <2>1, <3>1, <3>2, <3>3 DEF CityAt
  <2> QED BY <1>3, <2>1 DEF CityParts, CityKept, Target
<1>21. OthersKept'
  BY <1>3 DEF CityParts, OthersKept, OthersAt, Queue, Target
<1> QED BY <1>15, <1>16, <1>17, <1>18, <1>19, <1>20, <1>21 DEF CityParts

\* What popping does to the fields and the map: names that are in the map keep
\* their ids, and the first entry is stored, or is what is entered.
LEMMA PopStores ==
  ASSUME IInv, StringsPop, NEW e, e = ring[read_index], NEW d, d = FieldOf(e.act)
  PROVE  /\ e \in QueueEntry /\ (e.act \in Handled => d \in AllDicts)
         /\ \A x \in DOMAIN map["city"] :
              x \in DOMAIN map'["city"] /\ map'["city"][x] = map["city"][x]
         /\ e.act = 2 =>
              \/ /\ e.str \in DOMAIN map'["city"]
                 /\ name_id' = Stored("city", e.id, map'["city"][e.str])
              \/ spc' = "emplace" /\ entry' = e
         /\ \/ name_id' = name_id
            \/ /\ e.act \in Handled /\ e.str \in DOMAIN map'[d]
               /\ name_id' = Stored(d, e.id, map'[d][e.str])
<1>1. e \in QueueEntry /\ DOMAIN map = AllDicts
  <2>1. read_index \in Indices /\ Holds(read_index)
    BY DEF StringsPop, IInv, TypeOK, StringsTypeOK
  <2> QED BY <2>1, SlotType DEF IInv, TypeOK, DictsTypeOK
<1>2. e.act \in Handled => d \in AllDicts /\ (d = "city" <=> e.act = 2)
  BY <1>1, CityAct, EntryType
<1>3. /\ \A x \in DOMAIN map["city"] :
           x \in DOMAIN map'["city"] /\ map'["city"][x] = map["city"][x]
      /\ e.act = 2 =>
           \/ /\ e.str \in DOMAIN map'["city"]
              /\ name_id' = Stored("city", e.id, map'["city"][e.str])
           \/ spc' = "emplace" /\ entry' = e
      /\ \/ name_id' = name_id
         \/ /\ e.act \in Handled /\ e.str \in DOMAIN map'[d]
            /\ name_id' = Stored(d, e.id, map'[d][e.str])
  <2>1. CASE e.act \notin Handled
    <3>1. e.act # 2 /\ UNCHANGED <<map, name_id>>
      BY <2>1 DEF StringsPop, Handled
    <3> QED BY <3>1
  <2>2. CASE e.act \in Handled /\ IsKnown(d, e.str)
    <3>1. name_id' = Stored(d, e.id, map[d][e.str]) /\ map' = map /\ e.str \in DOMAIN map[d]
      BY <2>2 DEF StringsPop, IsKnown
    <3> QED BY <1>2, <2>2, <3>1
  <2>3. CASE e.act \in Handled /\ ~ IsKnown(d, e.str)
    <3>1. /\ map' = [map EXCEPT ![d] = Entered(@, e.str, NewId(d))]
          /\ entry' = e /\ spc' = "emplace" /\ name_id' = name_id
          /\ e.str \notin DOMAIN map[d]
      BY <2>3 DEF StringsPop, IsKnown
    <3>2. PICK h : h = Entered(map[d], e.str, NewId(d))
      OBVIOUS
    <3>3. \A y \in DOMAIN map[d] : y \in DOMAIN h /\ (y # e.str => h[y] = map[d][y])
      BY <3>2 DEF Entered
    <3>4. map'["city"] = IF d = "city" THEN h ELSE map["city"]
      BY <1>1, <1>2, <2>3, <3>1, <3>2, CityAct
    <3>5. \A x \in DOMAIN map["city"] :
            x \in DOMAIN map'["city"] /\ map'["city"][x] = map["city"][x]
      BY <3>1, <3>3, <3>4
    <3> QED BY <3>1, <3>5
  <2> QED BY <2>1, <2>2, <2>3
<1> QED BY <1>1, <1>2, <1>3

\* Strings takes what is in its queue, stores or enters the first name, and
\* drops the others.
LEMMA PopCity ==
  ASSUME IInv, CityParts, PlainLocations, StringsPop
  PROVE  CityParts'
<1>1. PICK e, d, r0 : e = ring[read_index] /\ d = FieldOf(e.act) /\ r0 = read_index
  OBVIOUS
<1>2. /\ spc = "pop" /\ r0 # write_index /\ Holds(r0) /\ read_index' = write_index
      /\ ring' = [i \in Indices |-> IF i \in Available THEN Destroyed(i) ELSE ring[i]]
      /\ lost' = lost \union {ring[i] : i \in Available \ {r0}}
      /\ UNCHANGED <<exists, others, vec, log, requests, wpc, item, todo, slot, write_index>>
  BY <1>1 DEF StringsPop, tvars, wvars
<1>3. /\ r0 \in Nat /\ write_index \in Nat /\ r0 < write_index /\ write_index < RingSize
      /\ e \in QueueEntry /\ DOMAIN map = AllDicts
      /\ name_id \in [AllDicts -> [Ids -> Nat \union {NoId}]]
  <2>1. r0 \in Indices /\ write_index \in Indices /\ r0 <= write_index
    BY <1>1 DEF IInv, TypeOK, StringsTypeOK, CityParts, RingStands
  <2>2. e \in QueueEntry
    BY <1>1, <1>2, <2>1, SlotType DEF IInv
  <2>3. DOMAIN map = AllDicts /\ name_id \in [AllDicts -> [Ids -> Nat \union {NoId}]]
    BY DEF IInv, TypeOK, DictsTypeOK
  <2>4. /\ r0 \in Nat /\ write_index \in Nat /\ r0 < write_index /\ write_index < RingSize
    <3>1. PICK w : w = write_index
      OBVIOUS
    <3>2. r0 \in Nat /\ w \in Nat /\ r0 # w /\ r0 <= w /\ w < RingSize
      BY <1>2, <2>1, <3>1, NameConstants DEF Indices
    <3> QED BY <3>1, <3>2
  <2> QED BY <2>2, <2>3, <2>4
<1>4. /\ \A r \in r0 .. write_index - 1 : r \in Available /\ r \in Indices
      /\ \A r \in 0 .. write_index - 1 :
           ring'[r].act = ring[r].act /\ ring'[r].id = ring[r].id
  <2>1. \A r \in 0 .. write_index - 1 : r \in Indices
    BY <1>3, NameConstants DEF Indices
  <2>2. \A r \in r0 .. write_index - 1 : r \in Available
    BY <1>1, <1>3, <2>1 DEF Available
  <2>3. ASSUME NEW r \in Indices
        PROVE  ring'[r].act = ring[r].act /\ ring'[r].id = ring[r].id
    <3>1. ring[r] \in Slots
      BY SlotType DEF IInv
    <3>2. DOMAIN ring[r] = {"act", "id", "str"}
      BY <3>1 DEF Slots, NoEntry
    <3>3. PICK x, y : x = ring[r] /\ y = [x EXCEPT !.str = NoName]
      OBVIOUS
    <3>4. y.act = x.act /\ y.id = x.id
      BY <3>2, <3>3
    <3>5. ring'[r] = y \/ ring'[r] = x
      BY <1>2, <3>3 DEF Destroyed
    <3> QED BY <3>3, <3>4, <3>5
  <2> QED BY <1>3, <2>1, <2>2, <2>3
<1>5. EntrySaid(e)
  <2>1. r0 \in r0 .. write_index - 1
    BY <1>3
  <2> QED BY <1>1, <2>1 DEF CityParts, RingStands
<1>6. PICK f \in log : \E c \in DOMAIN f.post.body.names :
        /\ e.act = ActOf(c) /\ e.id = Target(f.post) /\ e.str = f.post.body.names[c]
  BY <1>5 DEF EntrySaid
<1>7. PICK c \in DOMAIN f.post.body.names :
        /\ e.act = ActOf(c) /\ e.id = Target(f.post) /\ e.str = f.post.body.names[c]
  BY <1>6
<1>8. c \in AllDicts /\ e.id \in Ids /\ e.id # NoId
  BY <1>7, LogType, NameConstants DEF IInv, TypeOK
<1>9. e.act \in Handled => /\ d \in AllDicts
                           /\ d = "city" <=> e.act = 2
                           /\ d = "city" => c = "city"
  BY <1>1, <1>3, <1>7, <1>8, CityAct, EntryType
<1>10. UsersIdle' /\ BodiesStand' /\ FieldsApart' /\ SlotsApart' /\ OthersKept'
  <2>1. (\A b : BodySaid(b)' <=> BodySaid(b)) /\ (Busy' <=> Busy)
    BY <1>2 DEF BodySaid, Target, Busy
  <2>2. UsersIdle'
    BY <1>2 DEF CityParts, UsersIdle
  <2>3. BodiesStand'
    BY <1>2, <2>1 DEF CityParts, BodiesStand, Queue, Held
  <2>4. FieldsApart' /\ SlotsApart'
    <3>1. FieldsApart'
      BY <1>2, <2>1 DEF CityParts, FieldsApart, Queue, Held, Left
    <3>2. PICK w : w = write_index
      OBVIOUS
    <3>3. \A r, s \in 0 .. w - 1 :
            ring'[r].id = ring'[s].id /\ ring'[r].act = ring'[s].act => r = s
      BY <1>4, <3>2 DEF CityParts, SlotsApart
    <3>4. ASSUME NEW r \in 0 .. w - 1
          PROVE  /\ \A t \in Threads : \A i \in DOMAIN Queue(t) : Queue(t)[i].id = ring'[r].id =>
                      \A a \in DOMAIN Queue(t)[i].names : ActOf(a) # ring'[r].act
                 /\ Busy /\ Held.id = ring'[r].id =>
                      \A j \in DOMAIN Left : ActOf(Left[j]) # ring'[r].act
      BY <1>4, <3>2 DEF CityParts, SlotsApart
    <3>5. Held' = Held /\ Left' = Left /\ write_index' = w /\ \A u : Queue(u)' = Queue(u)
      BY <1>2, <3>2 DEF Held, Left, Queue
    <3> QED BY <2>1, <3>1, <3>3, <3>4, <3>5 DEF SlotsApart
  <2>5. OthersKept'
    BY <1>2 DEF CityParts, OthersKept, OthersAt, Queue, Target
  <2> QED BY <2>2, <2>3, <2>4, <2>5
<1>11. RingStands'
  <2>1. \A x : (EntrySaid(x)' <=> EntrySaid(x)) /\ (SlotSaid(x)' <=> SlotSaid(x))
    BY <1>2 DEF EntrySaid, SlotSaid, Target
  <2>2. spc' = "emplace" => entry' = e
    BY <1>1 DEF StringsPop
  <2>3. PICK y : y = entry'
    OBVIOUS
  <2>4. spc' = "emplace" => EntrySaid(y)'
    BY <1>5, <2>1, <2>2, <2>3
  <2>5. /\ read_index' <= write_index'
        /\ \A r : r \notin read_index' .. write_index' - 1
    BY <1>2, <1>3
  <2>6. ASSUME NEW r \in 0 .. write_index - 1, NEW x, x = ring'[r] PROVE SlotSaid(x)
    <3>1. SlotSaid(ring[r])
      BY DEF CityParts, RingStands
    <3> QED BY <1>4, <2>6, <3>1 DEF SlotSaid
  <2>7. wpc["location"] = "push" => slot["location"] = write_index
    BY DEF CityParts, RingStands
  <2> QED BY <1>2, <2>1, <2>3, <2>4, <2>5, <2>6, <2>7 DEF RingStands
<1>12. CityKept'
  <2> SUFFICES ASSUME NEW g \in log, "city" \in DOMAIN g.post.body.names,
                      NEW m, m = Target(g.post), NEW x, x = g.post.body.names["city"]
               PROVE  CityAt(m, x)'
    BY <1>2 DEF CityKept, Target
  <2>1. CityAt(m, x)
    BY DEF CityParts, CityKept
  <2>2. /\ x \in DOMAIN map["city"] =>
             x \in DOMAIN map'["city"] /\ map'["city"][x] = map["city"][x]
        /\ e.act = 2 =>
             \/ /\ e.str \in DOMAIN map'["city"]
                /\ name_id' = Stored("city", e.id, map'["city"][e.str])
             \/ spc' = "emplace" /\ entry' = e
        /\ \/ name_id' = name_id
           \/ /\ e.act \in Handled /\ e.str \in DOMAIN map'[d]
              /\ name_id' = Stored(d, e.id, map'[d][e.str])
    BY <1>1, PopStores
  <2>3. ASSUME e.act = 2, e.id = m, e.str = x PROVE CityAt(m, x)'
    <3>1. CASE /\ e.str \in DOMAIN map'["city"]
               /\ name_id' = Stored("city", e.id, map'["city"][e.str])
      <4>1. name_id' = [name_id EXCEPT !["city"][m] = map'["city"][x]]
        BY <1>8, <2>3, <3>1 DEF Stored
      <4>2. name_id'["city"][m] = map'["city"][x]
        BY <1>3, <1>8, <2>3, <4>1, CityAct
      <4> QED BY <2>3, <3>1, <4>2 DEF CityAt, CityHas
    <3>2. CASE spc' = "emplace" /\ entry' = e
      BY <2>3, <3>2 DEF CityAt
    <3> QED BY <2>2, <2>3, <3>1, <3>2
  <2>4. ASSUME NEW r \in r0 .. write_index - 1,
               ring[r].act = 2 /\ ring[r].id = m /\ ring[r].str = x
        PROVE  CityAt(m, x)'
    <3>1. CASE r = r0
      BY <1>1, <2>3, <2>4, <3>1
    <3>2. CASE r # r0
      <4>1. ring[r] \in lost'
        BY <1>2, <1>4, <3>2
      <4> QED BY <2>4, <4>1 DEF CityAt
    <3> QED BY <3>1, <3>2
  <2>5. ASSUME x \in DOMAIN map["city"], name_id["city"][m] = map["city"][x]
        PROVE  CityAt(m, x)'
    <3>1. CASE name_id' = name_id
      BY <2>2, <2>5, <3>1 DEF CityAt, CityHas
    <3>2. CASE /\ e.act \in Handled /\ e.str \in DOMAIN map'[d]
               /\ name_id' = Stored(d, e.id, map'[d][e.str])
      <4>1. PICK eid, n : eid = e.id /\ n = e.str
        OBVIOUS
      <4>2. d = "city" => \E k \in log : /\ Target(k.post) = eid
                                         /\ "city" \in DOMAIN k.post.body.names
                                         /\ k.post.body.names["city"] = n
        BY <1>7, <1>9, <3>2, <4>1
      <4>3. /\ eid \in Ids /\ name_id' = Stored(d, eid, map'[d][n]) /\ n \in DOMAIN map'[d]
            /\ d \in AllDicts
        BY <1>8, <1>9, <3>2, <4>1
      <4>4. x \in DOMAIN map'["city"] /\ map'["city"][x] = map["city"][x]
        BY <2>2, <2>5
      <4>5. name_id'["city"][m] = map'["city"][x]
        BY <2>5, <4>2, <4>3, <4>4, StoredStays DEF IInv
      <4> QED BY <4>4, <4>5 DEF CityAt, CityHas
    <3> QED BY <2>2, <3>1, <3>2
  <2>6. CASE \/ \E t \in Threads : \E i \in DOMAIN Queue(t) :
                  /\ Queue(t)[i].id = m /\ "city" \in DOMAIN Queue(t)[i].names
                  /\ Queue(t)[i].names["city"] = x
             \/ Busy /\ Held.id = m /\ "city" \in ToSet(Left) /\ Held.names["city"] = x
             \/ \E y \in lost : y.act = 2 /\ y.id = m /\ y.str = x
    BY <1>2, <2>6 DEF CityAt, Queue, Busy, Held, Left
  <2> QED BY <1>1, <1>2, <2>1, <2>4, <2>5, <2>6 DEF CityAt, CityHas
<1> QED BY <1>10, <1>11, <1>12 DEF CityParts

\* Strings then stores the name it has entered.
LEMMA EmplaceCity ==
  ASSUME IInv, CityParts, PlainLocations, StringsEmplace
  PROVE  CityParts'
<1>1. PICK d, n, eid : d = FieldOf(entry.act) /\ n = entry.str /\ eid = entry.id
  OBVIOUS
<1>2. /\ spc = "emplace" /\ spc' = "loop" /\ name_id' = Stored(d, eid, Len(vec[d]))
      /\ UNCHANGED <<exists, others, map, log, requests, wpc, item, todo, slot, ring,
                     write_index, read_index, lost>>
  BY <1>1 DEF StringsEmplace, NewId, tvars, wvars, qvars
<1>3. /\ entry \in QueueEntry /\ entry.act \in Handled /\ EntrySaid(entry)
      /\ name_id \in [AllDicts -> [Ids -> Nat \union {NoId}]]
  BY <1>2 DEF IInv, TypeOK, StringsTypeOK, DictsTypeOK, CityParts, RingStands
<1>4. PICK f \in log : \E c \in DOMAIN f.post.body.names :
        /\ entry.act = ActOf(c) /\ entry.id = Target(f.post) /\ entry.str = f.post.body.names[c]
  BY <1>3 DEF EntrySaid
<1>5. PICK c \in DOMAIN f.post.body.names :
        /\ entry.act = ActOf(c) /\ entry.id = Target(f.post) /\ entry.str = f.post.body.names[c]
  BY <1>4
<1>6. c \in AllDicts /\ eid \in Ids /\ eid # NoId
  BY <1>1, <1>5, LogType, NameConstants DEF IInv, TypeOK
<1>7. /\ d \in AllDicts /\ (d = "city" <=> entry.act = 2) /\ (d = "city" => c = "city")
  BY <1>1, <1>3, <1>5, <1>6, CityAct, EntryType
<1>8. n \in DOMAIN map[d] /\ map[d][n] = Len(vec[d])
  BY <1>1, <1>2 DEF IInv, EntryEntered
<1>9. UsersIdle' /\ BodiesStand' /\ FieldsApart' /\ SlotsApart' /\ OthersKept' /\ RingStands'
  <2>1. (\A b : BodySaid(b)' <=> BodySaid(b)) /\ (Busy' <=> Busy)
    BY <1>2 DEF BodySaid, Target, Busy
  <2>2. UsersIdle'
    BY <1>2 DEF CityParts, UsersIdle
  <2>3. BodiesStand'
    BY <1>2, <2>1 DEF CityParts, BodiesStand, Queue, Held
  <2>4. FieldsApart' /\ SlotsApart'
    BY <1>2, <2>1 DEF CityParts, FieldsApart, SlotsApart, Queue, Held, Left
  <2>5. OthersKept'
    BY <1>2 DEF CityParts, OthersKept, OthersAt, Queue, Target
  <2>6. \A x : (EntrySaid(x)' <=> EntrySaid(x)) /\ (SlotSaid(x)' <=> SlotSaid(x))
    BY <1>2 DEF EntrySaid, SlotSaid, Target
  <2>7. RingStands'
    BY <1>2, <2>6 DEF CityParts, RingStands
  <2> QED BY <2>2, <2>3, <2>4, <2>5, <2>7
<1>10. CityKept'
  <2> SUFFICES ASSUME NEW g \in log, "city" \in DOMAIN g.post.body.names,
                      NEW m, m = Target(g.post), NEW x, x = g.post.body.names["city"]
               PROVE  CityAt(m, x)'
    BY <1>2 DEF CityKept, Target
  <2>1. CityAt(m, x)
    BY DEF CityParts, CityKept
  <2>2. CASE entry.act = 2 /\ eid = m /\ n = x
    <3>1. name_id' = [name_id EXCEPT !["city"][m] = map'["city"][x]] /\ x \in DOMAIN map'["city"]
      BY <1>2, <1>6, <1>7, <1>8, <2>2 DEF Stored
    <3>2. name_id'["city"][m] = map'["city"][x]
      BY <1>3, <1>6, <2>2, <3>1, CityAct
    <3> QED BY <3>1, <3>2 DEF CityAt, CityHas
  <2>3. CASE x \in DOMAIN map["city"] /\ name_id["city"][m] = map["city"][x]
    <3>1. d = "city" => \E k \in log : /\ Target(k.post) = eid
                                       /\ "city" \in DOMAIN k.post.body.names
                                       /\ k.post.body.names["city"] = n
      BY <1>1, <1>5, <1>7
    <3>2. name_id' = Stored(d, eid, map'[d][n]) /\ n \in DOMAIN map'[d]
      BY <1>2, <1>8
    <3>3. x \in DOMAIN map'["city"] /\ map'["city"][x] = map["city"][x]
      BY <1>2, <2>3
    <3>4. name_id'["city"][m] = map'["city"][x]
      BY <1>6, <1>7, <2>3, <3>1, <3>2, <3>3, StoredStays DEF IInv
    <3> QED BY <3>3, <3>4 DEF CityAt, CityHas
  <2>4. CASE \/ \E t \in Threads : \E i \in DOMAIN Queue(t) :
                  /\ Queue(t)[i].id = m /\ "city" \in DOMAIN Queue(t)[i].names
                  /\ Queue(t)[i].names["city"] = x
             \/ Busy /\ Held.id = m /\ "city" \in ToSet(Left) /\ Held.names["city"] = x
             \/ \E r \in read_index .. write_index - 1 :
                  ring[r].act = 2 /\ ring[r].id = m /\ ring[r].str = x
             \/ \E y \in lost : y.act = 2 /\ y.id = m /\ y.str = x
    BY <1>2, <2>4 DEF CityAt, Queue, Busy, Held, Left
  <2> QED BY <1>1, <2>1, <2>2, <2>3, <2>4 DEF CityAt, CityHas
<1> QED BY <1>9, <1>10 DEF CityParts

\* A worker is done with a request when it has come to all its names.
LEMMA DoneCity ==
  ASSUME CityParts, IInv, WorkerDone("location")
  PROVE  CityParts'
<1>1. /\ wpc["location"] = "names" /\ Left = <<>>
      /\ wpc' = [wpc EXCEPT !["location"] = "loop"]
      /\ UNCHANGED <<log, exists, others, name_id, map, requests, todo, slot, ring, write_index,
                     read_index, lost, spc, entry>>
  BY DEF WorkerDone, Left, svars, tvars, qvars
<1>2. wpc'["location"] = "loop" /\ wpc'["user"] = wpc["user"] /\ ~ Busy'
  BY <1>1 DEF IInv, TypeOK, WorkersTypeOK, Kinds, Busy
<1>3. \A b : BodySaid(b)' <=> BodySaid(b)
  BY <1>1 DEF BodySaid, Target
<1>4. \A x : (EntrySaid(x)' <=> EntrySaid(x)) /\ (SlotSaid(x)' <=> SlotSaid(x))
  BY <1>1 DEF EntrySaid, SlotSaid, Target
<1>5. UsersIdle'
  BY <1>1, <1>2 DEF CityParts, UsersIdle
<1>6. BodiesStand' /\ FieldsApart' /\ SlotsApart'
  BY <1>1, <1>2, <1>3 DEF CityParts, BodiesStand, FieldsApart, SlotsApart, Queue
<1>7. RingStands'
  BY <1>1, <1>2, <1>4 DEF CityParts, RingStands
<1>8. CityKept'
  <2>1. ToSet(Left) = {}
    BY <1>1 DEF ToSet
  <2> QED BY <1>1, <2>1 DEF CityParts, CityKept, CityAt, CityHas, Queue, Target
<1>9. OthersKept'
  BY <1>1 DEF CityParts, OthersKept, OthersAt, Queue, Target
<1> QED BY <1>5, <1>6, <1>7, <1>8, <1>9 DEF CityParts

\* Nothing was sent at first, and what was loaded is there.
LEMMA InitCityInv == Init => CityInv
<1> SUFFICES ASSUME Init PROVE CityInv
  OBVIOUS
<1>1. IsFiniteSet(log) /\ SentOnce
  BY FS_EmptySet DEF Init, SentOnce
<1>2. /\ requests = [k \in Kinds |-> [t \in Threads |-> <<>>]] /\ wpc = [k \in Kinds |-> "loop"]
      /\ log = {} /\ write_index = 0 /\ read_index = 0 /\ spc = "lock"
  BY DEF Init
<1>3. (\A t \in Threads : DOMAIN Queue(t) = {} /\ requests["user"][t] = <<>>)
      /\ ~ Busy /\ wpc["user"] = "loop" /\ wpc["location"] = "loop"
  BY <1>2 DEF Queue, Busy, Kinds
<1>4. UsersIdle /\ BodiesStand /\ FieldsApart /\ RingStands /\ SlotsApart
  BY <1>2, <1>3 DEF UsersIdle, BodiesStand, FieldsApart, RingStands, SlotsApart
<1>5. CityKept
  BY <1>2 DEF CityKept
<1>6. OthersKept
  <2>1. ASSUME NEW l \in DOMAIN LoadedOthers["location"]
        PROVE  others["location"][l] = LoadedOthers["location"][l]
    <3>1. l \in Ids
      BY NameConstants, DictNames DEF Kinds, Dicts
    <3>2. exists["location"] = DOMAIN LoadedOthers["location"]
      BY DEF Init, Kinds
    <3> QED BY <3>1, <3>2 DEF Init, Kinds
  <2> QED BY <1>2, <2>1 DEF OthersKept
<1>7. CityOwn
  <2> SUFFICES ASSUME NEW l \in Ids PROVE CityLoaded(l)
    BY DEF CityOwn
  <2>1. name_id["city"][l] =
          IF l \in DOMAIN Loaded["city"] THEN map["city"][Loaded["city"][l]] ELSE NoId
    BY CityAct DEF Init
  <2>2. ASSUME l \in DOMAIN Loaded["city"] PROVE Loaded["city"][l] \in DOMAIN map["city"]
    <3>1. Loaded["city"][l] \in ToSet(vec["city"])
      BY <2>2, CityAct DEF Init, Range
    <3> QED BY <3>1, CityAct DEF Init
  <2> QED BY <2>1, <2>2 DEF CityLoaded, CityHas
<1> QED BY <1>1, <1>4, <1>5, <1>6, <1>7, InitIInv DEF CityInv, CityParts

\* A location keeps the city it has, or is given one a POST has named for it.
LEMMA OwnGiven ==
  ASSUME CityOwn, log \subseteq log',
         \A x \in DOMAIN map["city"] :
           x \in DOMAIN map'["city"] /\ map'["city"][x] = map["city"][x],
         \A l \in Ids : \/ name_id'["city"][l] = name_id["city"][l]
                        \/ \E e \in Naming(l) : CityHas(l, e.post.body.names["city"])'
  PROVE  CityOwn'
<1> SUFFICES ASSUME NEW l \in Ids
             PROVE  CityLoaded(l)' \/ \E e \in Naming(l)' : CityHas(l, e.post.body.names["city"])'
  BY DEF CityOwn
<1>1. Naming(l) \subseteq Naming(l)'
  BY DEF Naming, Target
<1>2. CASE name_id'["city"][l] = name_id["city"][l]
  <2>1. \A n : CityHas(l, n) => CityHas(l, n)'
    BY <1>2 DEF CityHas
  <2>2. CityLoaded(l) => CityLoaded(l)'
    BY <1>2, <2>1 DEF CityLoaded
  <2>3. CASE \E e \in Naming(l) : CityHas(l, e.post.body.names["city"])
    <3>1. PICK e \in Naming(l) : CityHas(l, e.post.body.names["city"])
      BY <2>3
    <3>2. PICK n : n = e.post.body.names["city"]
      OBVIOUS
    <3>3. CityHas(l, n)'
      BY <2>1, <3>1, <3>2
    <3>4. CityHas(l, e.post.body.names["city"])'
      BY <3>2, <3>3
    <3> QED BY <1>1, <3>4
  <2> QED BY <2>2, <2>3 DEF CityOwn
<1>3. CASE name_id'["city"][l] # name_id["city"][l]
  <2>1. PICK e \in Naming(l) : CityHas(l, e.post.body.names["city"])'
    BY <1>3
  <2> QED BY <1>1, <2>1
<1> QED BY <1>2, <1>3

\* The fields are only given ids of names that a POST has for them.
LEMMA StoresOwn ==
  ASSUME TypeOK, NEW d \in AllDicts, NEW eid \in Ids, NEW n,
         n \in DOMAIN map'[d], name_id' = Stored(d, eid, map'[d][n]),
         d = "city" => \E f \in log : /\ Target(f.post) = eid
                                      /\ "city" \in DOMAIN f.post.body.names
                                      /\ f.post.body.names["city"] = n
  PROVE  \A l \in Ids : \/ name_id'["city"][l] = name_id["city"][l]
                        \/ \E e \in Naming(l) : CityHas(l, e.post.body.names["city"])'
<1>1. eid # NoId /\ "city" \in AllDicts
  BY NameConstants, CityAct
<1>2. name_id' = [name_id EXCEPT ![d][eid] = map'[d][n]]
  BY <1>1 DEF Stored
<1>3. name_id \in [AllDicts -> [Ids -> Nat \union {NoId}]]
  BY DEF TypeOK, DictsTypeOK
<1>4. ASSUME NEW l \in Ids, d = "city", l = eid
      PROVE  \E e \in Naming(l) : CityHas(l, e.post.body.names["city"])'
  <2>1. PICK f \in log : /\ Target(f.post) = eid
                         /\ "city" \in DOMAIN f.post.body.names
                         /\ f.post.body.names["city"] = n
    BY <1>4
  <2>2. name_id'["city"][l] = map'["city"][n]
    BY <1>1, <1>2, <1>3, <1>4
  <2>3. CityHas(l, n)'
    BY <1>4, <2>2 DEF CityHas
  <2>4. CityHas(l, f.post.body.names["city"])'
    BY <2>1, <2>3
  <2>5. f \in Naming(l)
    BY <1>4, <2>1 DEF Naming
  <2> QED BY <2>4, <2>5
<1>5. ASSUME NEW l \in Ids, ~ (d = "city" /\ l = eid)
      PROVE  name_id'["city"][l] = name_id["city"][l]
  BY <1>1, <1>2, <1>3, <1>5
<1> QED BY <1>4, <1>5

\* Every step leaves a location a city of its own.
LEMMA NextOwn ==
  ASSUME IInv, CityParts, CityOwn, [Next]_vars, log \subseteq log', spc' # "undefined"
  PROVE  CityOwn'
<1>1. CASE UNCHANGED <<name_id, map>>
  BY <1>1, OwnGiven
<1>2. ASSUME NEW k \in Kinds, WorkerName(k)
      PROVE  CityOwn'
  <2>1. k = "location"
    BY <1>2 DEF CityParts, UsersIdle, Kinds, WorkerName
  <2>2. PICK d, n : d = Head(Left) /\ n = Held.names[d]
    OBVIOUS
  <2>3. wpc["location"] = "names" /\ Left # <<>> /\ UNCHANGED map
    BY <1>2, <2>1 DEF WorkerName, Left
  <2>4. /\ Held.id \in Ids /\ d \in AllDicts /\ d \in DOMAIN Held.names
        /\ \E e \in log : Target(e.post) = Held.id /\ e.post.body.names = Held.names
    BY <2>2, <2>3, NextField
  <2>5. CASE IsKnown(d, n)
    <3>1. name_id' = [name_id EXCEPT ![d][Held.id] = map[d][n]] /\ n \in DOMAIN map[d]
      BY <1>2, <2>1, <2>2, <2>5 DEF WorkerName, IsKnown, Left, Held
    <3>2. PICK eid : eid = Held.id
      OBVIOUS
    <3>3. eid \in Ids /\ name_id' = Stored(d, eid, map'[d][n]) /\ n \in DOMAIN map'[d]
      BY <2>3, <2>4, <3>1, <3>2, NameConstants DEF Stored
    <3>4. d = "city" => \E f \in log : /\ Target(f.post) = eid
                                       /\ "city" \in DOMAIN f.post.body.names
                                       /\ f.post.body.names["city"] = n
      BY <2>2, <2>4, <3>2
    <3>5. \A l \in Ids : \/ name_id'["city"][l] = name_id["city"][l]
                         \/ \E e \in Naming(l) : CityHas(l, e.post.body.names["city"])'
      BY <2>4, <3>3, <3>4, StoresOwn DEF IInv
    <3> QED BY <2>3, <3>5, OwnGiven
  <2>6. CASE ~ IsKnown(d, n)
    <3>1. UNCHANGED name_id
      BY <1>2, <2>1, <2>2, <2>6 DEF WorkerName, Left, Held
    <3> QED BY <1>1, <2>3, <3>1
  <2> QED BY <2>5, <2>6
<1>3. ASSUME NEW e, EntrySaid(e), NEW d \in AllDicts, d = FieldOf(e.act), e.act \in Handled,
             e.str \in DOMAIN map'[d], name_id' = Stored(d, e.id, map'[d][e.str]),
             \A x \in DOMAIN map["city"] :
               x \in DOMAIN map'["city"] /\ map'["city"][x] = map["city"][x]
      PROVE  CityOwn'
  <2>1. PICK f \in log : \E c \in DOMAIN f.post.body.names :
          /\ e.act = ActOf(c) /\ e.id = Target(f.post) /\ e.str = f.post.body.names[c]
    BY <1>3 DEF EntrySaid
  <2>2. PICK c \in DOMAIN f.post.body.names :
          /\ e.act = ActOf(c) /\ e.id = Target(f.post) /\ e.str = f.post.body.names[c]
    BY <2>1
  <2>3. c \in AllDicts /\ e.id \in Ids
    BY <2>2, LogType DEF IInv, TypeOK
  <2>4. d = "city" => c = "city"
    BY <1>3, <2>2, <2>3, CityAct
  <2>5. PICK eid, n : eid = e.id /\ n = e.str
    OBVIOUS
  <2>6. /\ eid \in Ids /\ n \in DOMAIN map'[d] /\ name_id' = Stored(d, eid, map'[d][n])
        /\ d = "city" => \E g \in log : /\ Target(g.post) = eid
                                         /\ "city" \in DOMAIN g.post.body.names
                                         /\ g.post.body.names["city"] = n
    BY <1>3, <2>2, <2>3, <2>4, <2>5
  <2>7. \A l \in Ids : \/ name_id'["city"][l] = name_id["city"][l]
                       \/ \E g \in Naming(l) : CityHas(l, g.post.body.names["city"])'
    BY <2>6, StoresOwn DEF IInv
  <2> QED BY <1>3, <2>7, OwnGiven
<1>4. CASE StringsPop
  <2>1. PICK e, d : e = ring[read_index] /\ d = FieldOf(e.act)
    OBVIOUS
  <2>2. EntrySaid(e)
    <3>1. PICK r, w : r = read_index /\ w = write_index
      OBVIOUS
    <3>2. r \in Int /\ w \in Int /\ r # w /\ r <= w
      BY <1>4, <3>1, NameConstants DEF StringsPop, IInv, TypeOK, StringsTypeOK, Indices,
         CityParts, RingStands
    <3>3. r \in r .. w - 1
      BY <3>2
    <3> QED BY <2>1, <3>1, <3>3 DEF CityParts, RingStands
  <2>3. \A x \in DOMAIN map["city"] :
          x \in DOMAIN map'["city"] /\ map'["city"][x] = map["city"][x]
    BY <1>4, <2>1, PopStores
  <2>4. \/ name_id' = name_id
        \/ /\ e.act \in Handled /\ d \in AllDicts /\ e.str \in DOMAIN map'[d]
           /\ name_id' = Stored(d, e.id, map'[d][e.str])
    BY <1>4, <2>1, PopStores
  <2>5. CASE name_id' = name_id
    BY <2>3, <2>5, OwnGiven
  <2> QED BY <1>3, <2>1, <2>2, <2>3, <2>4, <2>5
<1>5. CASE StringsEmplace
  <2>1. PICK e, d : e = entry /\ d = FieldOf(e.act)
    OBVIOUS
  <2>2. /\ spc = "emplace" /\ UNCHANGED map /\ name_id' = Stored(d, e.id, Len(vec[d]))
    BY <1>5, <2>1 DEF StringsEmplace, NewId
  <2>3. e \in QueueEntry /\ e.act \in Handled /\ EntrySaid(e)
    BY <2>1, <2>2 DEF IInv, TypeOK, StringsTypeOK, CityParts, RingStands
  <2>4. d \in AllDicts /\ e.str \in DOMAIN map'[d] /\ map'[d][e.str] = Len(vec[d])
    BY <2>1, <2>2, <2>3, EntryType DEF IInv, EntryEntered
  <2> QED BY <1>3, <2>1, <2>2, <2>3, <2>4
<1>6. ASSUME NEW t \in Threads,
             \/ disableWriters(t) \/ enableWriters(t) \/ notify_all(t)
             \/ \E p \in Posts : handlePost(t, p)
      PROVE  UNCHANGED <<name_id, map>>
  BY <1>6 DEF disableWriters, enableWriters, notify_all, handlePost, svars
<1>7. ASSUME NEW k \in Kinds,
             \/ WorkerCheck(k) \/ WorkerEmpty(k) \/ WorkerDone(k) \/ WorkerPush(k)
             \/ \E t \in Threads : WorkerTake(k, t)
      PROVE  UNCHANGED <<name_id, map>>
  BY <1>7 DEF WorkerCheck, WorkerEmpty, WorkerDone, WorkerPush, WorkerTake, svars
<1>8. CASE \/ StringsWait \/ SpuriousWakeup \/ StringsWake \/ StringsCheck
           \/ StringsEmpty \/ Undefined
  <2>1. UNCHANGED <<name_id, map>>
    BY <1>8 DEF StringsWait, SpuriousWakeup, StringsWake, StringsCheck, StringsEmpty, Undefined,
       svars
  <2> QED BY <1>1, <2>1
<1>9. CASE UNCHANGED vars
  BY <1>1, <1>9 DEF vars, svars
<1> QED BY <1>1, <1>2, <1>4, <1>5, <1>6, <1>7, <1>8, <1>9 DEF Next, Handler, Worker, Strings

\* A POST that a thread has been handed is not handed to another.
LEMMA NextSent ==
  ASSUME TypeOK, SentOnce, IsFiniteSet(log), [Next]_vars
  PROVE  /\ SentOnce' /\ IsFiniteSet(log') /\ log \subseteq log'
<1>1. ASSUME NEW t \in Threads, NEW p \in Posts, Finish(t, p), \A e \in log : e.post # p,
             \A u \in Threads \ {t} : tpc[u] # "idle" => sent[u] # p
      PROVE  SentOnce' /\ IsFiniteSet(log') /\ log \subseteq log'
  <2>1. PICK new : new = [post |-> p, code |-> Answer(p)]
    OBVIOUS
  <2>2. new.post = p /\ log' = log \union {new}
    BY <1>1, <2>1 DEF Finish
  <2>3. \A u \in Threads : /\ tpc'[u] = IF u = t THEN "idle" ELSE tpc[u]
                           /\ u # t => sent'[u] = sent[u]
    BY <1>1 DEF Finish, TypeOK, ThreadsTypeOK
  <2>4. IsFiniteSet(log')
    BY <2>2, FS_AddElement
  <2> QED BY <1>1, <2>2, <2>3, <2>4 DEF SentOnce
<1>2. ASSUME NEW t \in Threads, NEW p \in Posts, handlePost(t, p)
      PROVE  SentOnce' /\ IsFiniteSet(log') /\ log \subseteq log'
  <2>1. (\A e \in log : e.post # p) /\ \A u \in Threads : sent[u] # p
    BY <1>2 DEF handlePost, Unsent
  <2>2. CASE working
    BY <1>1, <1>2, <2>1, <2>2 DEF handlePost
  <2>3. CASE ~ working
    <3>1. /\ tpc' = [tpc EXCEPT ![t] = "set"] /\ sent' = [sent EXCEPT ![t] = p] /\ log' = log
      BY <1>2, <2>3 DEF handlePost
    <3>2. \A u \in Threads : /\ sent'[u] = IF u = t THEN p ELSE sent[u]
                             /\ u # t => tpc'[u] = tpc[u]
      BY <3>1 DEF TypeOK, ThreadsTypeOK
    <3> QED BY <2>1, <3>1, <3>2 DEF SentOnce
  <2> QED BY <2>2, <2>3
<1>3. ASSUME NEW t \in Threads, notify_all(t)
      PROVE  SentOnce' /\ IsFiniteSet(log') /\ log \subseteq log'
  <2>1. tpc[t] # "idle" /\ sent[t] \in Posts /\ Finish(t, sent[t])
    BY <1>3 DEF notify_all, TypeOK, ThreadsTypeOK
  <2>2. PICK p : p = sent[t]
    OBVIOUS
  <2>3. /\ \A e \in log : e.post # p
        /\ \A u \in Threads \ {t} : tpc[u] # "idle" => sent[u] # p
    BY <2>1, <2>2 DEF SentOnce
  <2>4. p \in Posts /\ Finish(t, p)
    BY <2>1, <2>2
  <2> QED BY <1>1, <2>3, <2>4
<1>4. ASSUME NEW t \in Threads, enableWriters(t)
      PROVE  SentOnce' /\ IsFiniteSet(log') /\ log \subseteq log'
  <2>1. tpc[t] = "set" /\ tpc' = [tpc EXCEPT ![t] = "lock"] /\ UNCHANGED <<sent, log>>
    BY <1>4 DEF enableWriters
  <2>2. \A u \in Threads : tpc'[u] # "idle" => tpc[u] # "idle"
    BY <2>1 DEF TypeOK, ThreadsTypeOK
  <2> QED BY <2>1, <2>2 DEF SentOnce
<1>5. CASE UNCHANGED <<tpc, sent, log>>
  BY <1>5 DEF SentOnce
<1>6. ASSUME NEW t \in Threads, disableWriters(t)
      PROVE  UNCHANGED <<tpc, sent, log>>
  BY <1>6 DEF disableWriters
<1>7. ASSUME NEW k \in Kinds, Worker(k)
      PROVE  UNCHANGED <<tpc, sent, log>>
  BY <1>7 DEF Worker, WorkerCheck, WorkerEmpty, WorkerName, WorkerDone, WorkerPush,
     WorkerTake, tvars
<1>8. Strings \/ SpuriousWakeup => UNCHANGED <<tpc, sent, log>>
  BY DEF Strings, SpuriousWakeup, StringsWait, StringsWake, StringsCheck, StringsEmpty,
     StringsPop, StringsEmplace, Undefined, tvars
<1> QED BY <1>2, <1>3, <1>4, <1>5, <1>6, <1>7, <1>8 DEF Next, Handler, vars, tvars

\* Every step keeps what is said of plain POSTs.
LEMMA NextCityInv == CityInv /\ [Next]_vars => CityInv'
<1> SUFFICES ASSUME CityInv, [Next]_vars, PlainLocations', spc' # "undefined"
             PROVE  CityParts' /\ CityOwn'
  BY NextIInv, NextSent DEF CityInv, IInv
<1>1. IsFiniteSet(log') /\ log \subseteq log' /\ IInv /\ IsFiniteSet(log) /\ SentOnce
  BY NextSent DEF CityInv, IInv
<1>2. PlainLocations /\ CityParts /\ CityOwn
  <2>1. spc # "undefined"
    BY DEF Next, Handler, Worker, Strings, SpuriousWakeup, vars, disableWriters, handlePost,
       enableWriters, notify_all, WorkerCheck, WorkerEmpty, WorkerName, WorkerDone, WorkerPush,
       WorkerTake, StringsWait, StringsWake, StringsCheck, StringsEmpty, StringsPop,
       StringsEmplace, Undefined
  <2> QED BY <1>1, <2>1, PlainBefore DEF CityInv
<1>3. ASSUME NEW t \in Threads, NEW p \in Posts, Finish(t, p), \A e \in log : e.post # p,
             UNCHANGED <<svars, wvars, qvars, entry>>, (spc' = "emplace") <=> (spc = "emplace")
      PROVE  CityParts'
  BY <1>1, <1>2, <1>3, FinishCity DEF svars, wvars, qvars
<1>4. ASSUME NEW t \in Threads, NEW p \in Posts, handlePost(t, p) PROVE CityParts'
  <2>1. /\ \A e \in log : e.post # p
        /\ UNCHANGED <<svars, working, wvars, qvars, spc, entry>>
    BY <1>4 DEF handlePost, Unsent
  <2>2. CASE working
    BY <1>3, <1>4, <2>1, <2>2 DEF handlePost
  <2>3. CASE ~ working
    <3>1. UNCHANGED <<log, requests>>
      BY <1>4, <2>3 DEF handlePost
    <3> QED BY <1>2, <2>1, <3>1, CityFrame DEF svars, wvars, qvars, Busy
  <2> QED BY <2>2, <2>3
<1>5. ASSUME NEW t \in Threads, notify_all(t) PROVE CityParts'
  <2>1. PICK p : p = sent[t]
    OBVIOUS
  <2>2. /\ tpc[t] # "idle" /\ p \in Posts /\ Finish(t, p)
        /\ UNCHANGED <<svars, wvars, qvars, entry>>
        /\ ((spc' = "emplace") <=> (spc = "emplace"))
    BY <1>1, <1>5, <2>1 DEF notify_all, IInv, TypeOK, ThreadsTypeOK
  <2>3. \A e \in log : e.post # p
    BY <1>1, <2>1, <2>2 DEF SentOnce
  <2> QED BY <1>3, <2>2, <2>3
<1>6. ASSUME NEW t \in Threads, disableWriters(t) \/ enableWriters(t) PROVE CityParts'
  BY <1>2, <1>6, CityFrame DEF disableWriters, enableWriters, svars, wvars, qvars, Busy
<1>7. ASSUME UNCHANGED vars PROVE CityParts'
  BY <1>2, <1>7, CityFrame DEF vars, svars, tvars, wvars, qvars, Busy
<1>8. ASSUME NEW k \in Kinds, WorkerCheck(k) \/ WorkerEmpty(k) PROVE CityParts'
  <2>1. /\ wpc[k] \in {"loop", "dequeue"}
        /\ \E x \in {"loop", "dequeue"} : wpc' = [wpc EXCEPT ![k] = x]
        /\ UNCHANGED <<svars, tvars, requests, item, todo, slot, qvars, spc, entry>>
    BY <1>8 DEF WorkerCheck, WorkerEmpty
  <2>2. wpc \in [Kinds -> {"loop", "dequeue", "names", "push"}]
    BY <1>1 DEF IInv, TypeOK, WorkersTypeOK
  <2>3. /\ wpc'["user"] = wpc["user"] \/ wpc'["user"] \in {"loop", "dequeue"}
        /\ Busy' <=> Busy
        /\ wpc'["location"] = "push" => wpc["location"] = "push"
    BY <2>1, <2>2 DEF Kinds, Busy
  <2> QED BY <1>2, <2>1, <2>3, CityFrame DEF svars, tvars, qvars
<1>9. ASSUME NEW k \in Kinds,
             \/ WorkerName(k) \/ WorkerDone(k) \/ WorkerPush(k)
             \/ \E t \in Threads : WorkerTake(k, t)
      PROVE  CityParts'
  <2>1. k = "location"
    BY <1>2, <1>9 DEF CityParts, UsersIdle, Kinds, WorkerName, WorkerDone, WorkerPush,
       WorkerTake
  <2> QED BY <1>1, <1>2, <1>9, <2>1, NameCity, DoneCity, PushCity, TakeCity
<1>10. ASSUME Strings \/ SpuriousWakeup PROVE CityParts'
  <2>1. CASE \/ StringsWait \/ SpuriousWakeup \/ StringsWake \/ StringsCheck \/ StringsEmpty
    <3>1. /\ UNCHANGED <<svars, tvars, requests, wvars, qvars, entry>>
          /\ ((spc' = "emplace") <=> (spc = "emplace"))
      BY <2>1 DEF StringsWait, SpuriousWakeup, StringsWake, StringsCheck, StringsEmpty
    <3> QED BY <1>2, <3>1, CityFrame DEF svars, tvars, wvars, qvars, Busy
  <2>2. ~ Undefined
    BY DEF Undefined
  <2> QED BY <1>1, <1>2, <1>10, <2>1, <2>2, PopCity, EmplaceCity DEF Strings
<1>11. CityOwn'
  BY <1>1, <1>2, NextOwn
<1> QED BY <1>11, <1>4, <1>5, <1>6, <1>7, <1>8, <1>9, <1>10 DEF Next, Handler, Worker

\* Once the queues are empty a location has the city its POST named, or the one
\* that was loaded if the name was behind another in the queue of Strings when
\* that was popped (Writer.hpp:61), and the other fields of its POST in any case,
\* as long as only locations are sent, each field once, and the queue of Strings
\* holds all the names.  So Writer::Locations and Strings, between them, lose a
\* city in this one way only, and never give a location a city that is not its.
THEOREM CityAlwaysStored == Spec => []CityStored
<1>1. CityInv => CityStored
  <2> SUFFICES ASSUME CityInv, Drained, PlainLocations
               PROVE  /\ \A l \in Ids :
                           \/ \E e \in Naming(l) : HasName("city", l, e.post.body.names["city"])
                           \/ /\ \A e \in Naming(l) :
                                   NameLost("city", l, e.post.body.names["city"])
                              /\ NameAsLoaded("city", l)
                      /\ OthersStored
    BY DEF CityStored
  <2>1. IInv /\ CityParts /\ CityOwn
    BY DEF CityInv, Drained
  <2>2. /\ \A t \in Threads : DOMAIN Queue(t) = {}
        /\ ~ Busy /\ read_index = write_index /\ spc \notin {"emplace", "undefined"}
    BY DEF Drained, Queue, Busy, Kinds
  <2>3. write_index \in Int
    BY <2>1, NameConstants DEF IInv, TypeOK, StringsTypeOK, Indices
  <2>4. ASSUME NEW l, NEW n, CityAt(l, n)
        PROVE  CityHas(l, n) \/ \E x \in lost : x.act = 2 /\ x.id = l /\ x.str = n
    BY <2>2, <2>3, <2>4 DEF CityAt
  <2>5. ASSUME NEW l, NEW n, CityHas(l, n) PROVE HasName("city", l, n)
    <3>1. PICK v, id : v = vec["city"] /\ id = name_id["city"][l]
      OBVIOUS
    <3>2. HalvesAgree("city") /\ ~ Emplacing("city")
      BY <2>1, <2>2, CityAct DEF IInv, DictsAgree, Emplacing
    <3>3. n \in ToSet(v)
      BY <2>5, <3>1, <3>2 DEF HalvesAgree, CityHas
    <3>4. PICK i \in DOMAIN v : v[i] = n
      BY <3>3 DEF ToSet
    <3>5. id = i - 1
      BY <2>5, <3>1, <3>2, <3>4 DEF HalvesAgree, CityHas
    <3>6. v \in Seq(Names)
      BY <2>1, <3>1, CityAct DEF IInv, TypeOK, DictsTypeOK
    <3>7. i \in 1 .. Len(v) /\ Len(v) \in Nat
      BY <3>4, <3>6
    <3>8. id \in 0 .. Len(v) - 1 /\ v[id + 1] = n
      BY <3>4, <3>5, <3>7
    <3> QED BY <3>1, <3>8 DEF HasName
  <2>6. ASSUME NEW l \in Ids,
               ~ \E e \in Naming(l) : HasName("city", l, e.post.body.names["city"])
        PROVE  /\ \A e \in Naming(l) : NameLost("city", l, e.post.body.names["city"])
               /\ NameAsLoaded("city", l)
    <3>1. ASSUME NEW e \in Naming(l), NEW n, n = e.post.body.names["city"]
          PROVE  NameLost("city", l, n)
      <4>1. CityAt(l, n)
        BY <2>1, <3>1 DEF CityParts, CityKept, Naming
      <4>2. ~ CityHas(l, n)
        BY <2>5, <2>6, <3>1
      <4>3. PICK x \in lost : x.act = 2 /\ x.id = l /\ x.str = n
        BY <2>4, <4>1, <4>2
      <4>4. 2 \in Handled /\ FieldOf(2) = "city"
        BY CityAct DEF Handled
      <4> QED BY <4>3, <4>4 DEF NameLost
    <3>2. CityLoaded(l)
      BY <2>1, <2>5, <2>6 DEF CityOwn
    <3>3. NameAsLoaded("city", l)
      BY <2>5, <3>2 DEF NameAsLoaded, CityLoaded
    <3> QED BY <3>1, <3>3
  <2>7. OthersStored
    <3>1. ASSUME NEW m, NEW c, OthersAt(m, c) PROVE others["location"][m] = c
      BY <2>2, <3>1 DEF OthersAt
    <3>2. \A e \in log : e.post.body.others # NoContent =>
            others["location"][Target(e.post)] = e.post.body.others
      BY <2>1, <3>1 DEF CityParts, OthersKept
    <3>3. \A l \in DOMAIN LoadedOthers["location"] :
            (\A e \in log : Target(e.post) = l => e.post.body.others = NoContent) =>
              others["location"][l] = LoadedOthers["location"][l]
      BY <2>1 DEF CityParts, OthersKept
    <3> QED BY <3>2, <3>3 DEF OthersStored
  <2> QED BY <2>6, <2>7
<1> QED BY <1>1, InitCityInv, NextCityInv, PTL DEF Spec
=============================================================================
