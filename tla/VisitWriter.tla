----------------------------- MODULE VisitWriter -----------------------------
(***************************************************************************)
(* The asynchronous write path of a visit: the POST handlers of            *)
(* Connection.hpp run on the server threads and only enqueue the request;  *)
(* the Writer::Visits worker applies it to Storage::visits field by field  *)
(* and enqueues what the two index workers (Writer::UserVisits and         *)
(* Writer::LocationsVisits) must do to the vectors that list the visits of *)
(* a user and of a location.  Every GET handler clears Writer::working,    *)
(* every POST handler sets it; the workers test it before each dequeue.    *)
(*                                                                         *)
(* The two index workers are the same code over two fields of a visit, so  *)
(* they are one set of actions with the field as the parameter `k'.        *)
(***************************************************************************)
EXTENDS SortedVisits, VisitTypes

CONSTANT OutOfBoundsTime  \* what reading visits[kInvalidId].visited_at yields

ASSUME OutOfBoundsIsInt == OutOfBoundsTime \in Int

\* The two fields of a visit that are indexed, and what they range over.
Kinds == {"user_id", "location_id"}
Owners(k) == IF k = "user_id" THEN UserIds ELSE LocationIds

\* What an id that names a visit, or none, ranges over.
VisitRefs == VisitIds \union {NoId}

\* What Writer::UserVisits and Writer::LocationsVisits queue (act, owner, vid).
Op(k) == [act : {"add", "remove", "sort"}, owner : Owners(k),
          vid : VisitRefs]

VARIABLES
  visits,    \* Storage::visits
  vecs,      \* vecs[k][o]: users[o].visits or locations[o].visits
  working,   \* Writer::working
  requests,  \* Writer::Visits::queue: FIFO for each thread that enqueues
  pc, item,  \* the Visits worker: where it is and its local `Visit v'
  ops,       \* ops[k]: an index worker's queue.  Visits alone enqueues, the
             \* worker alone dequeues: the op it applies is left at the head
  ipc,       \* ipc[k]: where the index worker is
  racing,    \* racing[k]: a key was written while the worker was applying
  log        \* history: what each thread was asked, and what it answered

vars == <<visits, vecs, working, requests, pc, item, ops, ipc, racing, log>>
-----------------------------------------------------------------------------
\* Mutant: only the range of the id is tested.
visitExists_RangeOnly(id) == id \in VisitIds

visitExists(id) == id \in VisitIds /\ visits[id].id # NoId

\* visited_at as a comparator reads it: visits[kInvalidId] is out of bounds
At(items) ==
  [x \in VisitIds \union {NoId} |->
     IF x = NoId THEN OutOfBoundsTime ELSE items[x].visited_at]

VisitsOf(items, k, o) == {v \in VisitIds : items[v].id # NoId /\ items[v][k] = o}

\* The vectors that list exactly the visits S, in the order of visited_at.
Listings(S, at) ==
  {s \in [1 .. Cardinality(S) -> S] : ToSet(s) = S /\ SortedBy(at, s)}

LoadedVectors(items, k) ==
  LET listings(o) == Listings(VisitsOf(items, k, o), At(items))
  IN  {f \in [Owners(k) -> UNION {listings(o) : o \in Owners(k)}] :
         \A o \in Owners(k) : f[o] \in listings(o)}

Init ==
  /\ visits = LoadedVisits
  /\ \E byUser \in LoadedVectors(visits, "user_id"),
        byLocation \in LoadedVectors(visits, "location_id") :
       vecs = [k \in Kinds |-> IF k = "user_id" THEN byUser ELSE byLocation]
  /\ working = FALSE
  /\ requests = [t \in Threads |-> <<>>]
  /\ pc = "loop" /\ item = BlankVisit
  /\ ops = [k \in Kinds |-> <<>>]
  /\ ipc = [k \in Kinds |-> "loop"]
  /\ racing = [k \in Kinds |-> FALSE]
  /\ log = [t \in Threads |-> <<>>]
-----------------------------------------------------------------------------
(* The server threads: one step is one whole handler of Connection.hpp.     *)
(* A handler answers before it enqueues; as the worker may dequeue as late *)
(* as it likes, that order cannot be told from a single step.              *)

Unsent(p) == \A t \in Threads : \A i \in DOMAIN log[t] : log[t][i].post # p

insertVisit(t, p) ==
  /\ p.entity_id = NoId /\ Unsent(p)
  /\ working' = TRUE
  /\ LET code == IF visitExists(p.entity_id) \/ p.v.mask # Param THEN 400 ELSE 200
     IN  log' = [log EXCEPT ![t] = Append(@, [post |-> p, code |-> code])]
  /\ requests' = [requests EXCEPT ![t] = Append(@, p.v)]
  /\ UNCHANGED <<visits, vecs, pc, item, ops, ipc, racing>>

updateVisit(t, p) ==
  /\ p.entity_id # NoId /\ Unsent(p)
  /\ working' = TRUE
  /\ LET code == IF ~ visitExists(p.entity_id) THEN 404
                 ELSE IF "id" \in p.v.mask THEN 400 ELSE 200
     IN  log' = [log EXCEPT ![t] = Append(@, [post |-> p, code |-> code])]
  /\ requests' = [requests EXCEPT ![t] = Append(@, Body(p))]
  /\ UNCHANGED <<visits, vecs, pc, item, ops, ipc, racing>>

\* A POST of a user or of a location, as far as visits are concerned.
enableWriters ==
  /\ working' = TRUE
  /\ UNCHANGED <<visits, vecs, requests, pc, item, ops, ipc, racing, log>>

\* Any GET.
disableWriters ==
  /\ working' = FALSE
  /\ UNCHANGED <<visits, vecs, requests, pc, item, ops, ipc, racing, log>>
-----------------------------------------------------------------------------
(* Writer::Visits::run                                                     *)

VisitsCheck ==
  /\ pc = "loop" /\ working
  /\ pc' = "dequeue"
  /\ UNCHANGED <<visits, vecs, working, requests, item, ops, ipc, racing, log>>

\* Mutant: the worker tries again without looking at Writer::working.
VisitsEmpty_Spins ==
  /\ pc = "dequeue" /\ \A t \in Threads : requests[t] = <<>>
  /\ UNCHANGED vars

VisitsEmpty ==
  /\ pc = "dequeue" /\ \A t \in Threads : requests[t] = <<>>
  /\ pc' = "loop"
  /\ UNCHANGED <<visits, vecs, working, requests, item, ops, ipc, racing, log>>

\* try_dequeue, then the two fields nothing is derived from.
VisitsTake(t) ==
  /\ pc = "dequeue" /\ requests[t] # <<>>
  /\ LET v == Head(requests[t])
     IN  /\ item' = v
         /\ visits' = [visits EXCEPT
              ![v.id].id   = IF "id"   \in v.mask THEN v.id   ELSE @,
              ![v.id].mark = IF "mark" \in v.mask THEN v.mark ELSE @]
  /\ requests' = [requests EXCEPT ![t] = Tail(@)]
  /\ pc' = "user_id"
  /\ UNCHANGED <<vecs, working, ops, ipc, racing, log>>

NextField(k) == IF k = "user_id" THEN "location_id" ELSE "visited_at"

OpIf(owner, act, vid) ==
  IF owner = NoId THEN <<>> ELSE <<[act |-> act, owner |-> owner, vid |-> vid]>>

\* Mutant: the owner is only changed in the index if there was one.
VisitsOwner_TestsOldOwner(k) ==
  /\ pc = k
  /\ IF k \in item.mask
       THEN LET it == visits[item.id]
            IN  /\ visits' = [visits EXCEPT ![item.id][k] = item[k]]
                /\ ops' = [ops EXCEPT ![k] = @ \o OpIf(it[k], "remove", it.id)
                          \o IF it[k] = NoId THEN <<>> ELSE OpIf(item[k], "add", it.id)]
       ELSE UNCHANGED <<visits, ops>>
  /\ pc' = NextField(k)
  /\ UNCHANGED <<vecs, working, requests, item, ipc, racing, log>>

\* if (v.mask.test(k)): leave the old owner, take the new one.  Both ops go to
\* the queue of the same worker, which cannot tell one enqueue from the other.
VisitsOwner(k) ==
  /\ pc = k
  /\ IF k \in item.mask
       THEN LET it == visits[item.id]
            IN  /\ visits' = [visits EXCEPT ![item.id][k] = item[k]]
                /\ ops' = [ops EXCEPT ![k] = @ \o OpIf(it[k], "remove", it.id)
                                               \o OpIf(item[k], "add", it.id)]
       ELSE UNCHANGED <<visits, ops>>
  /\ pc' = NextField(k)
  /\ UNCHANGED <<vecs, working, requests, item, ipc, racing, log>>

\* Whether the op an index worker is applying compares the key of visit x.
Compares(k, x) ==
  /\ ipc[k] = "apply"
  /\ x \in ToSet(vecs[k][Head(ops[k]).owner]) \union {Head(ops[k]).vid}

\* Mutant: the mask is not tested.
VisitsTime_Unmasked ==
  /\ pc = "visited_at"
  /\ visits' = [visits EXCEPT ![item.id].visited_at = item.visited_at]
  /\ pc' = "sort"
  /\ UNCHANGED <<vecs, working, requests, item, ops, ipc, racing, log>>

VisitsTime ==
  /\ pc = "visited_at"
  /\ IF "visited_at" \in item.mask
       THEN /\ visits' = [visits EXCEPT ![item.id].visited_at = item.visited_at]
            /\ racing' = [k \in Kinds |-> racing[k] \/
                    /\ Compares(k, item.id)
                    /\ visits[item.id].visited_at # item.visited_at]
       ELSE UNCHANGED <<visits, racing>>
  /\ pc' = "sort"
  /\ UNCHANGED <<vecs, working, requests, item, ops, ipc, log>>

\* Mutant: the vector of the user is forgotten.
VisitsSort_LocationOnly ==
  /\ pc = "sort"
  /\ LET it == visits[item.id]
     IN  ops' = IF "visited_at" \in item.mask
                  THEN [ops EXCEPT !["location_id"] = @ \o OpIf(it.location_id, "sort", it.id)]
                  ELSE ops
  /\ pc' = "loop" /\ item' = BlankVisit
  /\ UNCHANGED <<visits, vecs, working, requests, ipc, racing, log>>

VisitsSort ==
  /\ pc = "sort"
  /\ LET it == visits[item.id]
     IN  ops' = IF "visited_at" \in item.mask
                  THEN [k \in Kinds |-> ops[k] \o OpIf(it[k], "sort", it.id)]
                  ELSE ops
  /\ pc' = "loop" /\ item' = BlankVisit
  /\ UNCHANGED <<visits, vecs, working, requests, ipc, racing, log>>

VisitsWorker ==
  \/ VisitsCheck \/ VisitsEmpty \/ VisitsTime \/ VisitsSort
  \/ \E t \in Threads : VisitsTake(t)
  \/ \E k \in Kinds : VisitsOwner(k)
-----------------------------------------------------------------------------
(* Writer::UserVisits::run and Writer::LocationsVisits::run                *)

IndexCheck(k) ==
  /\ ipc[k] = "loop" /\ working
  /\ ipc' = [ipc EXCEPT ![k] = "dequeue"]
  /\ UNCHANGED <<visits, vecs, working, requests, pc, item, ops, racing, log>>

\* Mutant: the thread ends when its queue is empty.
IndexEmpty_Returns(k) ==
  /\ ipc[k] = "dequeue" /\ ops[k] = <<>>
  /\ ipc' = [ipc EXCEPT ![k] = "returned"]
  /\ UNCHANGED <<visits, vecs, working, requests, pc, item, ops, racing, log>>

IndexEmpty(k) ==
  /\ ipc[k] = "dequeue" /\ ops[k] = <<>>
  /\ ipc' = [ipc EXCEPT ![k] = "loop"]
  /\ UNCHANGED <<visits, vecs, working, requests, pc, item, ops, racing, log>>

\* Mutant: the result of try_dequeue is not tested.
IndexTake_Unchecked(k) ==
  /\ ipc[k] = "dequeue"
  /\ ipc' = [ipc EXCEPT ![k] = "apply"]
  /\ UNCHANGED <<visits, vecs, working, requests, pc, item, ops, racing, log>>

IndexTake(k) ==
  /\ ipc[k] = "dequeue" /\ ops[k] # <<>>
  /\ ipc' = [ipc EXCEPT ![k] = "apply"]
  /\ UNCHANGED <<visits, vecs, working, requests, pc, item, ops, racing, log>>

\* The vectors op may leave in place of vec.
Applied(k, op, vec) ==
  CASE op.act = "add"    -> insert_sorted(At(visits), vec, op.vid, racing[k])
    [] op.act = "remove" -> erase_sorted(At(visits), vec, op.vid, racing[k])
    [] op.act = "sort"   -> sort(At(visits), vec, racing[k])

IndexApply(k) ==
  /\ ipc[k] = "apply"
  /\ LET op == Head(ops[k])
     IN  \E vec \in Applied(k, op, vecs[k][op.owner]) :
           vecs' = [vecs EXCEPT ![k][op.owner] = vec]
  /\ ops' = [ops EXCEPT ![k] = Tail(@)]
  /\ ipc' = [ipc EXCEPT ![k] = "loop"]
  /\ racing' = [racing EXCEPT ![k] = FALSE]
  /\ UNCHANGED <<visits, working, requests, pc, item, log>>

IndexWorker(k) ==
  IndexCheck(k) \/ IndexEmpty(k) \/ IndexTake(k) \/ IndexApply(k)
-----------------------------------------------------------------------------
Next ==
  \/ \E t \in Threads, p \in Posts : insertVisit(t, p) \/ updateVisit(t, p)
  \/ enableWriters \/ disableWriters
  \/ VisitsWorker
  \/ \E k \in Kinds : IndexWorker(k)

Spec == Init /\ [][Next]_vars

\* The three workers are threads of their own that never block.
FairSpec == /\ Spec
            /\ WF_vars(VisitsWorker)
            /\ \A k \in Kinds : WF_vars(IndexWorker(k))
-----------------------------------------------------------------------------
(* Properties.                                                             *)

Request == {v \in Visit : v.id \in VisitIds}
Entry == [post : Posts, code : {200, 400, 404}]

VisitsTypeOK == visits \in [VisitIds -> VisitItem]

RequestsTypeOK ==
  /\ working \in BOOLEAN
  /\ requests \in [Threads -> Seq(Request)]
  /\ log \in [Threads -> Seq(Entry)]

WorkerTypeOK ==
  IF pc \in {"loop", "dequeue"} THEN item = BlankVisit
  ELSE pc \in Kinds \union {"visited_at", "sort"} /\ item \in Request

VectorsTypeOK ==
  /\ DOMAIN vecs = Kinds
  /\ \A k \in Kinds : vecs[k] \in [Owners(k) -> Seq(VisitRefs)]

IndexTypeOK ==
  /\ DOMAIN ops = Kinds
  /\ \A k \in Kinds : /\ ops[k] \in Seq(Op(k))
                      /\ ipc[k] = "apply" => ops[k] # <<>>
  /\ ipc \in [Kinds -> {"loop", "dequeue", "apply"}]
  /\ racing \in [Kinds -> BOOLEAN]

\* Every variable stays in its type; an index worker that is applying has the
\* op it applies at the head of its queue, and a Visits worker between two
\* requests holds none.
TypeOK ==
  VisitsTypeOK /\ RequestsTypeOK /\ WorkerTypeOK /\ VectorsTypeOK /\ IndexTypeOK

Logged == UNION {ToSet(log[t]) : t \in Threads}

\* No request is left anywhere and no worker is inside one.
Drained ==
  /\ pc \in {"loop", "dequeue"} /\ \A t \in Threads : requests[t] = <<>>
  /\ \A k \in Kinds : ops[k] = <<>>

AddOf(o, v) == [act |-> "add", owner |-> o, vid |-> v]
RemoveOf(o, v) == [act |-> "remove", owner |-> o, vid |-> v]

\* Visit v is in the vector of o or on its way there, and whatever will be
\* done to take it out is followed by what puts it back.
Covered(vec, q, o, v) ==
  /\ v \in ToSet(vec) \/ AddOf(o, v) \in ToSet(q)
  /\ \A i \in DOMAIN q :
       q[i] = RemoveOf(o, v) => \E j \in DOMAIN q : i < j /\ q[j] = AddOf(o, v)

\* The Visits worker has yet to reach field k of a visit it is creating.
Creating(k, v) ==
  /\ item.id = v /\ "id" \in item.mask
  /\ pc = k \/ pc = "user_id"

CreatesAreComplete == \A p \in Posts : "id" \in p.v.mask => p.v.mask = Param

\* No visit is ever lost from the index, whatever is moved or re-timed and
\* whatever the comparators race with: a stored visit is listed by the user and
\* the location it names, or will be once the index worker (Writer.hpp:104-171)
\* has caught up.  A create that leaves fields out, which is answered 400 and
\* enqueued all the same, voids this.
Indexed ==
  CreatesAreComplete =>
    \A k \in Kinds : \A v \in VisitIds :
      LET o == visits[v][k]
      IN  visits[v].id # NoId /\ o # NoId /\ ~ Creating(k, v)
            => Covered(vecs[k][o], ops[k], o, v)

NamesOwners(p) == \A k \in Kinds : k \in p.v.mask => p.v[k] # NoId

\* What the GET handlers dereference without a test.  As long as every POST
\* was answered 200 and named existing owners, writeLocationAvg finds only
\* stored visits with a user in a location's vector (Connection.hpp:472-496),
\* and writeUserVisits only stored visits with a location in a user's vector
\* (428-447), except for a visit being created between its two owners.
ReadsValid ==
  (\A e \in Logged : e.code = 200 /\ NamesOwners(e.post)) =>
    \A k \in Kinds : \A o \in Owners(k) : \A v \in ToSet(vecs[k][o]) :
      /\ visitExists(v)
      /\ visits[v].user_id # NoId
      /\ visits[v].location_id # NoId \/ (item.id = v /\ pc = "location_id")

\* What the file and the requests sent so far say of field f of visit v.
Stated(v, f) ==
  {Loaded[v][f] : w \in {v} \intersect DOMAIN Loaded} \union
  {e.post.v[f] : e \in {e \in Logged : Target(e.post) = v /\ f \in e.post.v.mask}}

\* As long as no visit changes its owner, a vector is sorted by visited_at, as
\* the binary searches of insert_sorted and erase_sorted require, or a sort of
\* it is still to come: keys written under a running search or sort included.
SortedUnlessPending ==
  \A k \in Kinds :
    (\A v \in VisitIds : Cardinality(Stated(v, k)) <= 1) =>
      \A o \in Owners(k) :
        \/ SortedBy(At(visits), vecs[k][o])
        \/ \E op \in ToSet(ops[k]) : op.act = "sort" /\ op.owner = o
        \/ /\ pc = "sort" /\ "visited_at" \in item.mask
           /\ visits[item.id][k] = o

TimesStayDistinct ==
  \A v, w \in VisitIds :
    IF v = w THEN Cardinality(Stated(v, "visited_at")) <= 1
    ELSE Stated(v, "visited_at") \intersect Stated(w, "visited_at") = {}

\* When the workers have caught up, every vector lists exactly the visits that
\* name its owner, once each and in order, provided that every POST was
\* answered 200, that no two visits share a visited_at and that no visit's is
\* changed: erase_sorted (Storage.hpp:33-38) searches by visited_at alone, with
\* the key the visit has by then, and leaves a stale entry otherwise.
VectorsExact ==
  /\ Drained /\ TimesStayDistinct
  /\ \A e \in Logged : e.code = 200
  => \A k \in Kinds : \A o \in Owners(k) :
       vecs[k][o] \in Listings(VisitsOf(visits, k, o), At(visits))

\* The request the Visits worker is applying field by field has taken effect
\* as a whole when it was dequeued.
Seen == [v \in VisitIds |->
           IF item.id = v THEN Overlay(item, visits[v]) ELSE visits[v]]

Store == INSTANCE VisitStore WITH store <- Seen, inbox <- requests

\* The write path does what VisitStore promises: each POST is answered from
\* the visits of that moment and takes effect once, in the order of its thread.
ImplementsVisitStore == Store!SSpec

\* Of a visit being written field by field, what will be there when its request
\* has been applied counts: a field is what some thread wrote to it last, and no
\* field keeps what its own thread has overwritten (Writer.hpp:195-226).
LastWriteOfAThread == Store!LastWriteOfAThread

\* If requests go on and reads stop clearing Writer::working, every request is
\* applied in the end and every vector is brought up to date.
EventuallyDrained == (<>[]working) => <>[]Drained

\* If reads go on and no POST sets Writer::working again, every worker comes to
\* rest outside the data, so that from then on the GETs run undisturbed.
EventuallyQuiet ==
  (<>[]~ working) => <>[](pc = "loop" /\ \A k \in Kinds : ipc[k] = "loop")
=============================================================================
