----------------------------- MODULE NameWriter -----------------------------
(***************************************************************************)
(* The asynchronous write path of users and locations, as far as it goes   *)
(* beyond the one of visits: their names are kept in dictionaries, and a   *)
(* name no dictionary has is passed on to a third worker, Writer::Strings, *)
(* the only one that adds to them.  Strings does not poll: it sleeps on    *)
(* Writer::cond and holds Writer::mutex while it works, and the POST       *)
(* handlers take the mutex to wake it.                                     *)
(*                                                                         *)
(* Writer::Users and Writer::Locations are the same code over other        *)
(* fields, so they are one set of actions with the kind as parameter `k'.  *)
(***************************************************************************)
EXTENDS Integers, Sequences, FiniteSets, SequencesExt

CONSTANTS
  Threads,   \* server threads; each is a producer of the request queues
  Ids,       \* the indices of Storage::users and of Storage::locations
  NoId,      \* Entity::kInvalidId
  Names,     \* strings
  NoName,    \* what a string is after its destructor
  Contents,  \* what the fields that hold no name may hold, taken together
  NoContent,
  Loaded,    \* Loaded[d]: the name in field d of the entities in data.zip
  LoadedOthers,  \* LoadedOthers[k]: their other fields
  Posts,     \* the POST requests clients send, each at most once
  RingSize   \* slots of Strings::queue; one stays free

Kinds == {"user", "location"}

\* The fields that hold a name, each with a dictionary of its own.
Dicts(k) ==
  IF k = "user" THEN {"first_name", "last_name"} ELSE {"city", "country", "place"}
AllDicts == UNION {Dicts(k) : k \in Kinds}

\* hlcup::User and hlcup::Location, the body of a request: a name for each
\* field that is in the mask, whether the id is, and the others, all or none.
Body(k) == [id : Ids, sets_id : BOOLEAN, others : Contents \union {NoContent},
            names : UNION {[D -> Names] : D \in SUBSET Dicts(k)}]

\* A POST with its entity_id.  POST .../new has none, and the tag tells two
\* requests of the same content apart.
Post(k) == [tag : Nat, kind : {k}, entity_id : Ids \union {NoId}, body : Body(k)]

ASSUME NameConstants ==
  /\ NoId \notin Ids /\ IsFiniteSet(Ids)
  /\ \A p \in Posts :
       /\ \E k \in Kinds : p \in Post(k)
       /\ p.entity_id = NoId => p.body.sets_id
  /\ NoContent \notin Contents /\ NoName \notin Names
  /\ \A k \in Kinds : \A d \in Dicts(k) : DOMAIN Loaded[d] = DOMAIN LoadedOthers[k]
  /\ \A k \in Kinds : Range(LoadedOthers[k]) \subseteq Contents
  /\ \A d \in AllDicts : DOMAIN Loaded[d] \subseteq Ids /\ Range(Loaded[d]) \subseteq Names
  /\ RingSize \in Nat /\ RingSize > 1

VARIABLES
  exists,      \* exists[k]: the entities whose stored id is set
  name_id,     \* name_id[d][e]: Storage::users[e].first_name_id and so on
  others,      \* others[k][e]: gender, e-mail, birth date and age; or distance
  vec, map,    \* vec[d], map[d]: the dictionary of field d, by id and by name
  working,     \* Writer::working
  tpc, sent,   \* a server thread: where it is, and the POST it handles
  requests,    \* requests[k][t]: what thread t enqueued to the worker of k
  wpc, item,   \* the worker of k: where it is, and the body it applies
  todo,        \* todo[k]: the fields it has not come to
  slot,        \* slot[k]: the write index as push has read it
  ring, write_index, read_index,  \* Strings::queue
  lost,        \* history: the entries a pop took behind the one it returned
  spc, entry,  \* Strings: where it is, and the entry it applies
  log          \* history: what the POSTs were answered

svars == <<exists, name_id, others, vec, map>>
tvars == <<working, tpc, sent, log>>
wvars == <<wpc, item, todo, slot>>
qvars == <<ring, write_index, read_index, lost>>
vars == <<svars, tvars, requests, wvars, qvars, spc, entry>>
-----------------------------------------------------------------------------
Blank == [id |-> NoId]

Indices == 0 .. RingSize - 1

NoEntry == [act |-> -1, id |-> NoId, str |-> NoName]

\* A dictionary filled by find_or_create_in_dict holds each name once; which
\* got which id depends on the order in the file.
Init ==
  /\ exists = [k \in Kinds |-> DOMAIN LoadedOthers[k]]
  /\ others = [k \in Kinds |-> [e \in Ids |->
                IF e \in exists[k] THEN LoadedOthers[k][e] ELSE NoContent]]
  /\ vec \in [AllDicts -> UNION {SetToSeqs(Range(Loaded[d])) : d \in AllDicts}]
  /\ \A d \in AllDicts : ToSet(vec[d]) = Range(Loaded[d])
  /\ map = [d \in AllDicts |-> [n \in ToSet(vec[d]) |->
                CHOOSE i \in 0 .. Len(vec[d]) - 1 : vec[d][i + 1] = n]]
  /\ name_id = [d \in AllDicts |-> [e \in Ids |->
                IF e \in DOMAIN Loaded[d] THEN map[d][Loaded[d][e]] ELSE NoId]]
  /\ working = FALSE
  /\ tpc = [t \in Threads |-> "idle"] /\ sent = [t \in Threads |-> Blank]
  /\ requests = [k \in Kinds |-> [t \in Threads |-> <<>>]]
  /\ wpc = [k \in Kinds |-> "loop"] /\ item = [k \in Kinds |-> Blank]
  /\ todo = [k \in Kinds |-> <<>>] /\ slot = [k \in Kinds |-> 0]
  /\ ring = [i \in Indices |-> NoEntry]
  /\ write_index = 0 /\ read_index = 0
  /\ spc = "lock" /\ entry = NoEntry
  /\ log = {} /\ lost = {}
-----------------------------------------------------------------------------
(* find_or_create_in_dict, and the lookups of the workers.                 *)

\* Mutant: names are never found.
IsKnown_Never(d, n) == FALSE

\* map.find(s) != map.end()
IsKnown(d, n) == n \in DOMAIN map[d]

\* Mutant: ids are counted from one.
NewId_OneBased(d) == Len(vec[d]) + 1

\* int32_t id = vec.size()
NewId(d) == Len(vec[d])
-----------------------------------------------------------------------------
(* The server threads.                                                     *)

\* mask.all()
Complete(p) ==
  p.body.sets_id /\ p.body.others # NoContent /\ DOMAIN p.body.names = Dicts(p.kind)

Answer(p) ==
  IF p.entity_id = NoId THEN IF Complete(p) THEN 200 ELSE 400
  ELSE IF p.entity_id \notin exists[p.kind] THEN 404
       ELSE IF p.body.sets_id THEN 400 ELSE 200

\* The rest of insertUser, updateUser, insertLocation, updateLocation once
\* enableWriters has returned: answer, then enqueue whatever the answer was.
Finish(t, p) ==
  /\ log' = log \union {[post |-> p, code |-> Answer(p)]}
  /\ requests' = [requests EXCEPT ![p.kind][t] =
       Append(@, [p.body EXCEPT !.id = IF p.entity_id = NoId THEN @ ELSE p.entity_id])]
  /\ tpc' = [tpc EXCEPT ![t] = "idle"] /\ sent' = [sent EXCEPT ![t] = Blank]

Unsent(p) == (\A e \in log : e.post # p) /\ \A t \in Threads : sent[t] # p

\* A POST arrives; `if (!Writer::working)' of enableWriters.
handlePost(t, p) ==
  /\ tpc[t] = "idle" /\ Unsent(p)
  /\ IF working
       THEN Finish(t, p)
       ELSE /\ tpc' = [tpc EXCEPT ![t] = "set"] /\ sent' = [sent EXCEPT ![t] = p]
            /\ UNCHANGED <<log, requests>>
  /\ UNCHANGED <<svars, working, wvars, qvars, spc, entry>>

enableWriters(t) ==
  /\ tpc[t] = "set"
  /\ working' = TRUE
  /\ tpc' = [tpc EXCEPT ![t] = "lock"]
  /\ UNCHANGED <<svars, sent, log, requests, wvars, qvars, spc, entry>>

\* Strings holds Writer::mutex from when it wakes up to when it is back before
\* its wait; a handler holds it only to notify.
Locked == spc \in {"loop", "pop", "emplace", "undefined"}

notify_all(t) ==
  /\ tpc[t] = "lock" /\ ~ Locked
  /\ spc' = IF spc = "asleep" THEN "woken" ELSE spc
  /\ Finish(t, sent[t])
  /\ UNCHANGED <<svars, working, wvars, qvars, entry>>

\* A GET, on a thread that is free to handle one.
disableWriters(t) ==
  /\ tpc[t] = "idle"
  /\ working' = FALSE
  /\ UNCHANGED <<svars, tpc, sent, log, requests, wvars, qvars, spc, entry>>

\* What a server thread does of itself once a POST has arrived.
Handler(t) == enableWriters(t) \/ notify_all(t)
-----------------------------------------------------------------------------
(* Writer::Users::run and Writer::Locations::run                           *)

WorkerCheck(k) ==
  /\ wpc[k] = "loop" /\ working
  /\ wpc' = [wpc EXCEPT ![k] = "dequeue"]
  /\ UNCHANGED <<svars, tvars, requests, item, todo, slot, qvars, spc, entry>>

WorkerEmpty(k) ==
  /\ wpc[k] = "dequeue" /\ \A t \in Threads : requests[k][t] = <<>>
  /\ wpc' = [wpc EXCEPT ![k] = "loop"]
  /\ UNCHANGED <<svars, tvars, requests, item, todo, slot, qvars, spc, entry>>

\* The fields of D in the order in which the worker of k comes to them.
FieldIf(d, D) == IF d \in D THEN <<d>> ELSE <<>>
InOrder(k, D) ==
  IF k = "user" THEN FieldIf("first_name", D) \o FieldIf("last_name", D)
  ELSE FieldIf("city", D) \o FieldIf("country", D) \o FieldIf("place", D)

WorkerTake(k, t) ==
  /\ wpc[k] = "dequeue" /\ requests[k][t] # <<>>
  /\ LET b == Head(requests[k][t])
     IN  /\ item' = [item EXCEPT ![k] = b]
         /\ todo' = [todo EXCEPT ![k] = InOrder(k, DOMAIN b.names)]
         /\ exists' = [exists EXCEPT ![k] = IF b.sets_id THEN @ \union {b.id} ELSE @]
         /\ others' = [others EXCEPT ![k][b.id] = IF b.others # NoContent THEN b.others ELSE @]
  /\ requests' = [requests EXCEPT ![k][t] = Tail(@)]
  /\ wpc' = [wpc EXCEPT ![k] = "names"]
  /\ UNCHANGED <<name_id, vec, map, tvars, slot, qvars, spc, entry>>

\* Look the next name up.  One that is known is stored; for one that is not,
\* Strings::queue.push begins by reading where to write.
WorkerName(k) ==
  /\ wpc[k] = "names" /\ todo[k] # <<>>
  /\ LET d == Head(todo[k])
         n == item[k].names[d]
     IN  IF IsKnown(d, n)
           THEN /\ name_id' = [name_id EXCEPT ![d][item[k].id] = map[d][n]]
                /\ todo' = [todo EXCEPT ![k] = Tail(@)]
                /\ UNCHANGED <<wpc, slot>>
           ELSE /\ wpc' = [wpc EXCEPT ![k] = "push"]
                /\ slot' = [slot EXCEPT ![k] = write_index]
                /\ UNCHANGED <<name_id, todo>>
  /\ UNCHANGED <<exists, others, vec, map, tvars, requests, item, qvars, spc, entry>>

\* Mutant: the thread ends after a request.
WorkerDone_Returns(k) ==
  /\ wpc[k] = "names" /\ todo[k] = <<>>
  /\ wpc' = [wpc EXCEPT ![k] = "returned"] /\ item' = [item EXCEPT ![k] = Blank]
  /\ UNCHANGED <<svars, tvars, requests, todo, slot, qvars, spc, entry>>

WorkerDone(k) ==
  /\ wpc[k] = "names" /\ todo[k] = <<>>
  /\ wpc' = [wpc EXCEPT ![k] = "loop"] /\ item' = [item EXCEPT ![k] = Blank]
  /\ UNCHANGED <<svars, tvars, requests, todo, slot, qvars, spc, entry>>

\* Mutant: the acts follow the order in which the worker comes to the fields.
ActOf_InOrder(d) == CASE d = "city" -> 0 [] d = "country" -> 1 [] d = "place" -> 2
                      [] d = "first_name" -> 3 [] d = "last_name" -> 4

\* The act that addPlace, addCountry, addCity, addFirstName, addLastName put in
\* an entry of Strings::queue.
ActOf(d) == CASE d = "place" -> 0 [] d = "country" -> 1 [] d = "city" -> 2
              [] d = "first_name" -> 3 [] d = "last_name" -> 4

\* Mutant: the index does not wrap around.
NextIndex_NoWrap(i) == i + 1

NextIndex(i) == (i + 1) % RingSize

\* push writes the slot and publishes the index after it, unless the queue is
\* full.  The id is the stored one, which is kInvalidId when nothing is stored.
WorkerPush(k) ==
  /\ wpc[k] = "push"
  /\ LET d == Head(todo[k])
         eid == IF item[k].id \in exists[k] THEN item[k].id ELSE NoId
     IN  IF NextIndex(slot[k]) = read_index
           THEN UNCHANGED <<ring, write_index>>
           ELSE /\ ring' = [ring EXCEPT ![slot[k]] =
                     [act |-> ActOf(d), id |-> eid, str |-> item[k].names[d]]]
                /\ write_index' = NextIndex(slot[k])
  /\ todo' = [todo EXCEPT ![k] = Tail(@)]
  /\ slot' = [slot EXCEPT ![k] = 0]
  /\ wpc' = [wpc EXCEPT ![k] = "names"]
  /\ UNCHANGED <<svars, tvars, requests, item, read_index, lost, spc, entry>>

Worker(k) ==
  \/ WorkerCheck(k) \/ WorkerEmpty(k) \/ WorkerName(k) \/ WorkerDone(k) \/ WorkerPush(k)
  \/ \E t \in Threads : WorkerTake(k, t)
-----------------------------------------------------------------------------
(* Writer::Strings::run                                                    *)

\* Take the lock, and give it up again in wait.
StringsWait ==
  /\ spc = "lock"
  /\ spc' = "asleep"
  /\ UNCHANGED <<svars, tvars, requests, wvars, qvars, entry>>

SpuriousWakeup ==
  /\ spc = "asleep"
  /\ spc' = "woken"
  /\ UNCHANGED <<svars, tvars, requests, wvars, qvars, entry>>

\* wait returns, with the lock.
StringsWake ==
  /\ spc = "woken"
  /\ spc' = "loop"
  /\ UNCHANGED <<svars, tvars, requests, wvars, qvars, entry>>

\* Mutant: the lock is kept until there is work again.
StringsCheck_KeepsLock ==
  /\ spc = "loop"
  /\ spc' = IF working THEN "pop" ELSE "loop"
  /\ UNCHANGED <<svars, tvars, requests, wvars, qvars, entry>>

StringsCheck ==
  /\ spc = "loop"
  /\ spc' = IF working THEN "pop" ELSE "lock"
  /\ UNCHANGED <<svars, tvars, requests, wvars, qvars, entry>>

\* Mutant: pop is retried without a look at Writer::working.
StringsEmpty_Spins ==
  /\ spc = "pop" /\ read_index = write_index
  /\ UNCHANGED vars

StringsEmpty ==
  /\ spc = "pop" /\ read_index = write_index
  /\ spc' = "loop"
  /\ UNCHANGED <<svars, tvars, requests, wvars, qvars, entry>>

\* Where run() puts the name of an entry; it knows no act 3.
FieldOf(act) == CASE act = 0 -> "country" [] act = 1 -> "place" [] act = 2 -> "city"
                  [] act = 4 -> "first_name" [] act = 5 -> "last_name"
Handled == {0, 1, 2, 4, 5}

\* The entry of an entity that was never stored writes in front of the array,
\* outside what is modelled.
Stored(d, eid, id) == IF eid = NoId THEN name_id ELSE [name_id EXCEPT ![d][eid] = id]

\* map[s] = id
Entered(f, n, id) == [x \in DOMAIN f \union {n} |-> IF x = n THEN id ELSE f[x]]

\* The slots from the read index to the write index.
Available ==
  IF read_index <= write_index THEN {i \in Indices : read_index <= i /\ i < write_index}
  ELSE {i \in Indices : read_index <= i \/ i < write_index}

Holds(i) == ring[i].str # NoName

Destroyed(i) == [ring[i] EXCEPT !.str = NoName]

\* The pop that takes an iterator, since it is passed a pointer: whatever entries
\* there are go to where p is and behind it, and are destroyed in their slots.
\* The first is applied if run() knows its act, the others are not looked at.
\* With it the lookup of find_or_create_in_dict, which enters a new name in the
\* map first.
StringsPop ==
  /\ spc = "pop" /\ read_index # write_index /\ Holds(read_index)
  /\ read_index' = write_index
  /\ ring' = [i \in Indices |-> IF i \in Available THEN Destroyed(i) ELSE ring[i]]
  /\ lost' = lost \union {ring[i] : i \in Available \ {read_index}}
  /\ LET e == ring[read_index]
         d == FieldOf(e.act)
     IN  IF e.act \notin Handled
           THEN spc' = "loop" /\ UNCHANGED <<name_id, map, entry>>
           ELSE IF IsKnown(d, e.str)
             THEN /\ name_id' = Stored(d, e.id, map[d][e.str])
                  /\ spc' = "loop"
                  /\ UNCHANGED <<map, entry>>
             ELSE /\ map' = [map EXCEPT ![d] = Entered(@, e.str, NewId(d))]
                  /\ entry' = e /\ spc' = "emplace"
                  /\ UNCHANGED name_id
  /\ UNCHANGED <<exists, others, vec, tvars, requests, wvars, write_index>>

\* vec.emplace_back, and the field is set to the id.
StringsEmplace ==
  /\ spc = "emplace"
  /\ LET d == FieldOf(entry.act)
     IN  /\ name_id' = Stored(d, entry.id, NewId(d))
         /\ vec' = [vec EXCEPT ![d] = Append(@, entry.str)]
  /\ entry' = NoEntry /\ spc' = "loop"
  /\ UNCHANGED <<exists, others, map, tvars, requests, wvars, qvars>>

\* Worker k is about to write its slot.
Writes(k) == wpc[k] = "push" /\ NextIndex(slot[k]) # read_index

\* What the language leaves open: pop writes a second entry behind p, over the
\* stack of run(), or takes a slot that holds none; a slot is popped while it is
\* written; two producers write the same slot at once.
Overrun == read_index # write_index /\ (Cardinality(Available) > 1 \/ ~ Holds(read_index))
PopRaces == \E k \in Kinds : Writes(k) /\ slot[k] \in Available
PushesRace == \E j, k \in Kinds : j # k /\ Writes(j) /\ Writes(k) /\ slot[j] = slot[k]

\* One of these has happened, and nothing is said of what follows.  That it does
\* no harm is a possible outcome, too.
Undefined ==
  /\ \/ spc = "pop" /\ (Overrun \/ PopRaces)
     \/ spc # "undefined" /\ PushesRace
  /\ spc' = "undefined" /\ entry' = NoEntry
  /\ UNCHANGED <<svars, tvars, requests, wvars, qvars>>

Strings ==
  \/ StringsWait \/ StringsWake \/ StringsCheck \/ StringsEmpty
  \/ StringsPop \/ StringsEmplace \/ Undefined
-----------------------------------------------------------------------------
Next ==
  \/ \E t \in Threads : disableWriters(t) \/ \E p \in Posts : handlePost(t, p)
  \/ \E t \in Threads : Handler(t)
  \/ \E k \in Kinds : Worker(k)
  \/ Strings \/ SpuriousWakeup

Spec == Init /\ [][Next]_vars

\* The threads run; what is not theirs to decide are the requests that come in
\* and a wakeup nobody asked for.
FairSpec == /\ Spec
            /\ \A t \in Threads : WF_vars(Handler(t))
            /\ \A k \in Kinds : WF_vars(Worker(k))
            /\ WF_vars(Strings)
-----------------------------------------------------------------------------
(* Properties.                                                             *)

QueueEntry == [act : 0 .. 4, id : Ids \union {NoId}, str : Names]
Slots == {NoEntry} \union [act : 0 .. 4, id : Ids \union {NoId}, str : Names \union {NoName}]

DictsTypeOK ==
  /\ exists \in [Kinds -> SUBSET Ids]
  /\ name_id \in [AllDicts -> [Ids -> Nat \union {NoId}]]
  /\ others \in [Kinds -> [Ids -> Contents \union {NoContent}]]
  /\ vec \in [AllDicts -> Seq(Names)]
  /\ DOMAIN map = AllDicts
  /\ \A d \in AllDicts : DOMAIN map[d] \subseteq Names /\ map[d] \in [DOMAIN map[d] -> Nat]

ThreadsTypeOK ==
  /\ working \in BOOLEAN
  /\ tpc \in [Threads -> {"idle", "set", "lock"}] /\ DOMAIN sent = Threads
  /\ \A t \in Threads : IF tpc[t] = "idle" THEN sent[t] = Blank ELSE sent[t] \in Posts
  /\ log \subseteq [post : Posts, code : {200, 400, 404}]

\* The body a worker holds and the fields it has not come to.
HoldsBody(k) ==
  IF wpc[k] \in {"loop", "dequeue"} THEN item[k] = Blank /\ todo[k] = <<>>
  ELSE /\ item[k] \in Body(k) /\ todo[k] \in Seq(DOMAIN item[k].names)
       /\ wpc[k] = "push" => todo[k] # <<>>

WorkersTypeOK ==
  /\ DOMAIN requests = Kinds /\ DOMAIN item = Kinds /\ DOMAIN todo = Kinds
  /\ wpc \in [Kinds -> {"loop", "dequeue", "names", "push"}]
  /\ slot \in [Kinds -> Indices]
  /\ \A k \in Kinds : requests[k] \in [Threads -> Seq(Body(k))] /\ HoldsBody(k)

StringsTypeOK ==
  /\ ring \in [Indices -> Slots]
  /\ write_index \in Indices /\ read_index \in Indices
  /\ lost \subseteq Slots
  /\ spc \in {"lock", "asleep", "woken", "loop", "pop", "emplace", "undefined"}
  /\ IF spc = "emplace" THEN entry \in QueueEntry /\ entry.act \in Handled
                        ELSE entry = NoEntry

\* Every variable stays in its type.  A worker that stores or pushes a name is
\* at a field of the body it holds, and the handler of a POST holds the POST.
TypeOK == DictsTypeOK /\ ThreadsTypeOK /\ WorkersTypeOK /\ StringsTypeOK

\* Strings has put a name of d in the map that vec[d] does not have yet.
Emplacing(d) == spc = "emplace" /\ FieldOf(entry.act) = d

HalvesAgree(d) ==
  /\ \A i \in DOMAIN vec[d] : vec[d][i] \in DOMAIN map[d] /\ map[d][vec[d][i]] = i - 1
  /\ \A n \in DOMAIN map[d] \ ToSet(vec[d]) :
       Emplacing(d) /\ entry.str = n /\ map[d][n] = Len(vec[d])

\* The two halves of a dictionary agree: map and vec are inverse to each other
\* except for the one name find_or_create_in_dict (Storage.hpp:172-182) has
\* entered in map and not in vec.  No name ever gets a second id, although
\* three threads look names up and queue them while the dictionary grows, and
\* names on their way are dropped.
DictsAgree == spc # "undefined" => \A d \in AllDicts : HalvesAgree(d)

\* What writeUser, writeLocation and writeUserVisits (Connection.hpp:118-120,
\* 171-175, 449) index the dictionaries with: an id that a field has been given
\* is in vec, but for the time in which Strings has entered it in map alone and
\* a worker has found it there.  A field that was not given one is kInvalidId.
NameIdsValid ==
  spc # "undefined" =>
    \A d \in AllDicts : \A e \in Ids :
      LET id == name_id[d][e]
      IN  \/ id = NoId
          \/ id \in 0 .. Len(vec[d]) - 1
          \/ id = Len(vec[d]) /\ Emplacing(d)

Target(p) == IF p.entity_id = NoId THEN p.body.id ELSE p.entity_id

\* The queues are empty and no worker is inside a request.
Drained ==
  /\ \A k \in Kinds : /\ wpc[k] \in {"loop", "dequeue"}
                       /\ \A t \in Threads : requests[k][t] = <<>>
  /\ read_index = write_index /\ spc \notin {"emplace", "undefined"}

\* Only locations were written, every POST was answered 200, no field was
\* written twice, and Strings::queue had room for all the names.
PlainLocations ==
  /\ \A e \in log : e.code = 200 /\ e.post.kind = "location"
  /\ \A e, f \in log :
       e # f /\ Target(e.post) = Target(f.post) =>
         /\ DOMAIN e.post.body.names \intersect DOMAIN f.post.body.names = {}
         /\ NoContent \in {e.post.body.others, f.post.body.others}
  /\ Cardinality({w \in log \X AllDicts : w[2] \in DOMAIN w[1].post.body.names})
       < RingSize

\* Field d of location l has name n.
HasName(d, l, n) ==
  name_id[d][l] \in 0 .. Len(vec[d]) - 1 /\ vec[d][name_id[d][l] + 1] = n

NameStored(d) ==
  \A e \in log :
    d \in DOMAIN e.post.body.names => HasName(d, Target(e.post), e.post.body.names[d])

\* The name was taken out of the queue of Strings behind another one.
NameLost(d, l, n) ==
  \E x \in lost : x.act \in Handled /\ FieldOf(x.act) = d /\ x.id = l /\ x.str = n

\* Field d of location l has what the file gave it.
NameAsLoaded(d, l) ==
  IF l \in DOMAIN Loaded[d] THEN HasName(d, l, Loaded[d][l]) ELSE name_id[d][l] = NoId

\* A location has the other fields it was sent, or the ones that were loaded.
OthersStored ==
  \A l \in Ids :
    LET sets == {e \in log : Target(e.post) = l /\ e.post.body.others # NoContent}
    IN  IF sets = {} THEN l \in DOMAIN LoadedOthers["location"] =>
                            others["location"][l] = LoadedOthers["location"][l]
        ELSE \A e \in sets : others["location"][l] = e.post.body.others

\* The POSTs that named a city of location l.
Naming(l) == {e \in log : Target(e.post) = l /\ "city" \in DOMAIN e.post.body.names}

\* A city is never mixed up, and lost in one way only: when the queues are empty
\* a location has the city its POST named, new or known, unless the name was
\* behind another in the queue of Strings when it was popped (Writer.hpp:61);
\* then, or if no POST named one, it has the city that was loaded.  This is so as
\* long as only the Locations worker used that queue, which is made for a single
\* producer.  A known city written after a new one for the same location may be
\* overtaken by it, hence the premise that no field is written twice.  The fields
\* that hold no name are those of the POST in any case.
CityStored ==
  Drained /\ PlainLocations =>
    /\ \A l \in Ids :
         \/ \E e \in Naming(l) : HasName("city", l, e.post.body.names["city"])
         \/ /\ \A e \in Naming(l) : NameLost("city", l, e.post.body.names["city"])
            /\ NameAsLoaded("city", l)
    /\ OthersStored

\* What Connection.hpp:308-315, the handler's code before there were workers,
\* says becomes of a place, new or known: it.place_id is its id.
PlaceStored == Drained /\ PlainLocations => NameStored("place")

\* A POST handler that waits for Writer::mutex is not kept there for good once
\* GETs have cleared Writer::working and no POST sets it again: Strings lets go
\* of the mutex (Writer.hpp:56-59), unless the queue was corrupted or a pop wrote
\* over the stack frame that holds the lock (Undefined).  The mutex need not be
\* fair: it is enough that Strings is not woken up for no reason over and over.
PostsReturn ==
  (<>[] ~ working) /\ (<>[][~ SpuriousWakeup]_vars) /\ [](spc # "undefined") =>
    \A t \in Threads : []<>(tpc[t] = "idle")

\* Without POSTs to wake it up Strings comes to rest, but for spurious wakeups.
StringsRests == (<>[] ~ working) => <>[](spc \notin {"pop", "emplace"})

\* While Strings is awake and working stays set, no name stays queued or half
\* entered: each is stored, has an act run() knows nothing of, or is dropped behind
\* another one, unless the language leaves open what happens (Undefined).  When a
\* notify comes while Strings is not in wait it is lost, and Strings sleeps through.
NamesTaken ==
  (<>[](working /\ Locked)) /\ [](spc # "undefined") => <>[]Drained
=============================================================================
