# Verification of the hlcup travel server

`hlcup` is an in-memory HTTP server for users, locations and visits: it loads
`data.zip`, answers GETs from arrays indexed by id, and applies POSTs
asynchronously, in worker threads fed by lock-free queues. This directory holds
TLA+ models of it, the TLC configurations that check them on small instances,
and TLAPS proofs of the results that hold for every instance.

## The system

| component | state | operations | hard part |
|---|---|---|---|
| Storage (`Storage.hpp`) | `users`, `locations`, `visits` arrays, the sorted vector of visit ids of every user and location, string dictionaries | load, exists, `insert_sorted`, `erase_sorted`, `find_or_create_in_dict` | no lock; vectors ordered by a key that changes |
| Connection (`Connection.hpp`) | descriptor, parser, `closed_` | `handleData`, a handler per request | answers first, enqueues whatever it answered |
| Writer (`Writer.hpp`) | `working`, `mutex`, `cond`, a queue per worker | Users, Locations, Visits, UserVisits, LocationsVisits, Strings | workers feed workers; every GET stops and every POST starts them |
| HttpParser, JSON parsers (`*.hpp.rl`) | machine state, `content_length`, `r` | `parse`, `reset` | requests split over reads, pipelining |
| HttpServer (`HttpServer.hpp`) | epoll set, listening socket | `startListener`, `run` | edge-triggered events, life of a Connection |
| `mpmc_bounded_queue` (`lockfree.hpp`) | cells with sequence numbers | `push`, `pop` | lock-free |
| `moodycamel::ConcurrentQueue` (`concurrentqueue.h`) | a producer for each thread, blocks, block indices, a free list, a hash of threads | `enqueue`, `try_dequeue` | lock-free; reuses and grows what others look at |
| number conversions (`itoa_branchlut.hpp`, `ucs2_to_utf8`) | none | pure functions | boundaries |

A POST handler runs on one of ten server threads: it sets `Writer::working`,
answers, and enqueues the body to the worker of its entity. The Visits worker
stores the fields in `Storage::visits` one by one and enqueues `remove`, `add`
and `sort` to the UserVisits and LocationsVisits workers, each of which alone
changes the vectors of its kind. The Users and Locations workers enqueue names
that no dictionary has to Strings, which alone adds to the dictionaries. Strings
sleeps on `Writer::cond`, and holds `Writer::mutex` while it is awake, which POST
handlers take to wake it; the others poll. A GET handler clears `working` and reads the
arrays at once; the workers look at `working` only between two items.

`main` as committed runs a parser benchmark and returns before the server code,
and the lines that start the worker threads are commented out. The models
describe the server and the workers as their code is written, started.

## Modules

| module | what it is |
|---|---|
| `VisitTypes` | a request body, a POST, a stored visit, what is loaded; the constants and their assumption `VisitConstants` |
| `VisitStore` | abstract: a POST is answered at once from the visits so far and takes effect later, once, whole, in the order of its thread |
| `SortedVisits` | `insert_sorted`, `erase_sorted`, `std::sort` as the set of vectors each may leave |
| `VisitWriter` | the write path of visits: handlers, Visits worker, both index workers, `Writer::working`; implements `VisitStore` through `Seen` |
| `NameWriter` | the write path of users and locations: handlers with `Writer::mutex` and `Writer::cond`, the Users and the Locations worker, Strings with its queue, the dictionaries |
| `HttpServer` | server threads, epoll, the descriptor table they share, the life of a Connection, and clients |
| `RequestFraming` | one connection's input through `HttpParser`, `VisitParser` and `handleData` |
| `MpmcQueue` | `mpmc_bounded_queue`, one access to shared memory at a time |
| `Conversions` | numbers written as text, characters of JSON strings |
| `Loader` | `loadTimestamp` and `loadFromFile`, up to the storage the server starts with |
| `Reads` | the five GET handlers on what `Loader` left; shows that it is where `VisitWriter` and `NameWriter` start |
| `RequestQueue` | abstract: what the writers expect of their queue, a FIFO for each thread |
| `BlockPool` | abstract: blocks that are free or belong to one thread |
| `FreeList` | the lock-free list of blocks; implements `BlockPool` |
| `ProducerHash` | how a thread finds its producer in tables that are superseded |
| `ConcurrentQueue` | `enqueue` and `try_dequeue` on `ProducerHash`, with the free list as a pool; implements `RequestQueue` |
| `MCVisits`, `MCVisitWriter`, `MCNameWriter`, `MCHttpServer`, `MCRequestFraming`, `MCMpmcQueue`, `MCReads`, `MCFreeList`, `MCConcurrentQueue` | instances and workloads for TLC |
| `VisitWriterProofs` | types; `VisitWriter` implements `VisitStore`; what the vector operations keep, of the members and of the order, for every vector; no visit is ever lost from the index, what it lists is readable, sorted or about to be, and in the end exact |
| `NameWriterProofs` | types, the dictionaries and the ids taken from them, cities in the end |
| `HttpServerProofs` | types, descriptors, edges, the accept loop, isolation of servers |
| `RequestFramingProofs` | types, and that a request is handled once, in order, as what it is |
| `MpmcQueueProofs` | types, exclusion in a cell, first in first out, failures |
| `FreeListProofs` | `FreeList` loses no block, and implements `BlockPool` |
| `ConcurrentQueueProofs` | the inductive invariant of `ConcurrentQueue`, what each action does, the hash of producers, the counters of a producer and the steps of a consumer |
| `ConcurrentQueueIndexProofs` | the steps of `enqueue`; the invariant as a whole, the assertions of the code, and that `ConcurrentQueue` implements `RequestQueue` |

The models meet at their interfaces. `Loader` ends where `VisitWriter` and
`NameWriter` begin (`LoadedIsInit`). What those two keep as `requests[t]` is the
`inbox` of `RequestQueue`, which `ConcurrentQueue` implements; the pool it takes
blocks from is the `BlockPool` that `FreeList` implements.

### How `VisitWriter` corresponds to the code

- One action is one whole handler. A handler replies before it enqueues, but as
  the worker may dequeue as late as it likes nothing can tell that order from
  one step. `log` is a history variable: what each thread was asked and
  answered. `insertVisit` tests `visitExists(r.entity_id)` although a create
  has no entity id, as the code does.
- `VisitsCheck`, `VisitsEmpty`, `VisitsTake`, `VisitsOwner("user_id")`,
  `VisitsOwner("location_id")`, `VisitsTime`, `VisitsSort` are the points of
  `Visits::run` between which another thread can see a difference. `id` and
  `mark` are stored with the dequeue, as no other value is derived from them.
  The `remove` and the `add` of one field go to one queue with one consumer and
  are enqueued in one step.
- `requests[t]` is what thread `t` has enqueued and the worker has not dequeued:
  `moodycamel::ConcurrentQueue` keeps the order of each producer and no order
  between two (`ImplementsRequestQueue`). An allocation that fails in `enqueue`,
  which loses the request, is left out here.
- The two index workers are one set of actions with the field as parameter. The
  op a worker applies stays at the head of `ops[k]` until it is applied.
- A key written while a worker searches or sorts a vector that holds it sets
  `racing[k]`; the operation may then leave any result its comparisons could
  lead to. A binary search on a vector that is not sorted is described by what
  halving guarantees at the position found. That `std::sort` may leave its
  range altogether when the order changes under it is not modelled.
- A rejected update can put `kInvalidId` in a vector; the comparator then reads
  `visits[-1].visited_at`, which is the constant `OutOfBoundsTime`.
- A create without an `id` is excluded from `Post`: its id is what the parser
  left over from an earlier request.

### How `NameWriter` corresponds to the code

- A user and a location are their id, the fields that hold names, and `others`: the
  rest (distance; gender, e-mail, birth date and the age that follows from it)
  as one value, which a body has or has not. `WorkerTake` stores it with the
  dequeue, as it does the id.
- A handler is `handlePost`, up to the test of `Writer::working` and, when it is
  set, to the end; else `enableWriters` and `notify_all`, which takes the mutex,
  and the rest of the handler. `Locked` says when Strings holds the mutex.
- `WorkerName` looks a name up and, if it is new, reads `write_index`, as the
  queue's `push` does first; `WorkerPush` writes the entry and the index. The
  ring buffer is boost's `spsc_queue`, which is made for one producer; two push
  to it. When their writes of the index cross, entries are lost or slots are
  taken that hold none.
- `StringsPop` is `queue.pop(&p)` (`Writer.hpp:61`) with the lookup of
  `find_or_create_in_dict` and the insertion in the map, `StringsEmplace` the
  `emplace_back` and the assignment: between them a worker may find the name and
  a GET the id. `&p` is no lvalue, so the `pop` that is called is the one with an
  iterator: it takes all entries there are (`Available`), writes them from `p` on,
  destroys the strings in their slots (`Destroyed`, with `NoName` for a string
  that is) and moves the read index to the write index. `run()` looks at the
  first only. The history variable `lost` keeps the others.
- C++ says nothing of what follows when `pop` writes a second entry, which goes
  behind `p` on the stack of `run()`, or takes a slot without an entry (`Overrun`);
  when a slot is popped while a producer writes it (`PopRaces`); when two producers
  write one slot (`PushesRace`). `Undefined` is then possible: it sets `spc` to
  `"undefined"`, and the model says nothing of Strings, the dictionaries or the
  mutex any more. The other possibility is that the memory written over was of no
  use: then the step does what the code says, and the model goes on. A slot
  without an entry has no such outcome.
- A lookup in the `unordered_map` while Strings inserts is taken for atomic, and
  so is an access to the vector while it grows.
- The numbers of the acts are the code's, on both sides of the queue.
- An entry of an entity that has no id writes in front of the array, outside of
  what is modelled; ids beyond the array are left out.

### How `HttpServer` corresponds to the code

- A step of a server is a system call with the code up to the next: `epoll_wait`,
  `accept4`, `EPOLL_CTL_ADD` (`register`), `EPOLL_CTL_DEL` with the `delete` that
  follows (`hangup`), `read`, the `writev` of an answer, `close`. Server threads
  and clients interleave between any two.
- A request is whether its answer keeps the connection open, closes it or closes
  it twice (`insertLocation` and `insertVisit` close what `writePostOk` has
  closed already), and whether it says `Connection: close`. POSTs are answered
  200. A read returns whole requests; `ReadBufSize` is in requests, and a read
  that fills the buffer is followed by another.
- The kernel is modelled from what the server asks of it: the lowest free
  descriptor is given out, the last `close` takes a socket out of its epoll set,
  an edge-triggered event is pending from the arrival of input or of a shut-down
  (or from `EPOLL_CTL_ADD`, if there is any by then) until it is reported.
- `conn[c]` is the Connection made for client `c`. One whose POST was answered
  and that did not say `Connection: close` stays allocated for ever with
  `closed_` set: nothing points to it any more.
- A POST handler calls `enableWriters`, which may wait for `Writer::mutex`, in the
  step that answers (`InHandler`); how long is in `NameWriter`.
- A call that would go through a descriptor that is another client's by now, or
  through a deleted Connection, sets `undefined`, and the model stops there.
- A client makes one connection, does not reset it and reads its answers.

### How `RequestFraming` corresponds to the code

- The input is a sequence of parts: a request line, the headers with the empty
  line, and the pieces of a body that a read can separate. A head split inside a
  line is resumed by the generated machine where it stopped and is not told apart.
  `content_length` and `kReadBufSize` are counted in parts.
- `RequestLine`, `Headers`, `HeadersError` and `parse_body` are what one call of
  `parse` may do in turn; `handleRequest` is the handler with what follows it in
  `handleData`. `r` is `HttpParser::r`: `reset` makes all of it new but the
  entity, of which only the mask is cleared, and only when a POST is recognised.
- A visit is its id, the other fields together (`"rest"`), and the mask.
  `Parsed` takes the fields up to the closing brace, the last of each. If the
  brace is not in the piece the JSON parser returns `nullptr`: a body that comes
  in two reads is answered 400, although it is well formed. What follows the
  brace is skipped, and a part of it that comes in another read is not looked at
  unless the action is still a POST: then it is parsed from where the machine
  stopped, has no closing brace, and makes the request a bad one.
- A header line that is rejected puts the machine in its error state. `parse`
  consumes nothing from then on and `handleData` calls it for ever: the server
  thread is lost, with all its connections. The model stops there.
- A POST that is answered 200 closes the descriptor; what else was in the buffer
  is handled all the same, and nothing is read any more. Whether a visit exists
  is a choice, as another model keeps the storage.

### How `MpmcQueue` corresponds to the code

- A step is one access to shared memory: the load of a position (`Call`,
  `Reload`), the load of a sequence number and the branch on it (`Test`), the
  compare-and-swap (`Claim`, `ClaimFails`, which may fail for no reason), the
  copy of the data (`Copy`), the store of the sequence number (`Leave`).
- Memory is sequentially consistent in the model. The data and the sequence
  number are ordered by release and acquire in the code; the positions are
  relaxed, and a stale one is what a thread that loaded it long ago has as well.
- `pos & buffer_mask_` is `pos % Size`; that `size_t` wraps after 2^64 tickets is
  not modelled. The server includes the queue, and has its use commented out.

### How `Conversions`, `Loader` and `Reads` correspond to the code

- A text is the sequence of its bytes; the lookup table of digits is arithmetic.
  A JSON string is a sequence of characters, each plain or written `\uXXXX`.
  `json_string` has the order in which the generated machine appends: an escape
  is a leaving action, run on the next character, after the action of that
  character if it is a plain one. So `"\u0041b"` is read as `bA`. U+FFFF gets four
  bytes, and halves of surrogate pairs are converted one by one. The one-letter
  escapes append at once, as plain characters do, and are not told apart.
- `loadFromFile` goes through the entries (`openEntry`) and inserts object by object
  (`parse`), until the entry ends or the parser gives up in an object
  (`parseEnds`). `e` is the entity on its stack: a field that an object lacks
  keeps what it had, from the object before or, for a field without initializer,
  from the stack. The e-mail was moved out.
- `insertVisit` stores the visit and inserts it in two vectors with
  `insert_sorted` of `SortedVisits`. The arrays have a place for every id, so users
  need not be there before their visits.
- Arithmetic on ages is done in 64 bits and cut to the seven bits of `age`.
- An answer of `Reads` is its status and values; labels and headers are left out,
  but for the commas of a list, of which the last is overwritten, and the
  seven characters of an average. The array that holds the text of an average has
  no terminating NUL, and `IoVec` looks for one: `overrun` is how many more bytes
  are sent than the 15 that `Content-Length` says.
- A query is a function on its parameters, with values parsed; one that is no
  integer or gender is `Malformed` and makes the request a bad one. A country is
  its characters, plain, `+` or `%XX`. It is cleared at its first character: an
  empty one leaves what `HttpParser::r` had from the request before (`Leftovers`).
- GETs come when nothing is written. What they may see while the workers finish
  an item are `ReadsValid`, `SortedUnlessPending` and `NameIdsValid`. A location that
  was created and whose country is still queued has `kInvalidId` for it, and so
  has a country nobody knows: a filter by one lists the visits of the other.

### How `FreeList`, `ProducerHash` and `ConcurrentQueue` correspond to the code

- A step is one access to shared memory, by a thread that enqueues or by a
  consumer. Steps are merged where nobody else can tell: the key and the reset of
  the entry of a block only its producer writes, the search of `findProducer`
  through all tables (only the thread itself ever writes its id), the compare-and-swap
  loops that push a producer or claim a slot of a table, and the last two stores
  of a resize that failed.
- Memory is sequentially consistent in the model. What the code orders weaker than
  release and acquire, the counters of a consumer, it checks again by adding to
  them.
- `ConcurrentQueue` takes blocks from a pool: an atomic choice of a free one, or none
  though some are free, as `try_get` may return `nullptr` while others have
  references. `FreeList` is the list behind it, with its count of references
  and the bit that says a block is to be put back by whoever gives up the last one.
- An allocation may fail as often as `failures` says: of a table, of a producer,
  of its first block index, of a bigger one, of a block. `enqueue` then returns
  false, and the thread has sent one item less.
- `sends`, `owner`, `saw` and the numbers of items are not part of the code; they
  say what it was asked to do. `MaxOvercommit` bounds how often consumers may be
  turned away, as the counters grow with it. Indices are plain numbers: that
  they wrap after 2^64 is not reached.
- `RequestQueue` lets `try_dequeue` return false to one of several consumers although
  something is queued: what is enqueued behind its back where it has looked, while another
  takes what it had seen, it misses. A lone consumer, and each of the server's
  queues has one, is told false only if the queue was empty when it asked.

## Runs

| run | question | bound |
|---|---|---|
| `visit_moves` | does a visit leave the index, does a GET follow an invalid id, are the drained vectors exact, is every field the last write of a thread, while two visits are moved and one is created? | 3 POSTs on 2 threads |
| `visit_rejected` | are requests answered 400 and 404 applied as a whole and in order? is a vector that a concurrent change of key left unsorted always sorted later? do requests get applied, do the workers come to rest? | 3 POSTs, of which two change times |
| `names_two_producers` | how may a location not get the city it was sent, with a concurrent POST of the same new name? do the dictionaries stay consistent when both workers push to the queue of Strings, and refused POSTs are applied? who is let through the mutex and woken by the condition variable? | 3 POSTs with 6 names, queue of 4 |
| `names_place` | is a new place stored as the place? (No.) | 1 POST |
| `server_shared` | does a thread use a descriptor that is not its own? is a descriptor leaked? | 2 servers, 2 clients, 2 requests each |
| `server_keep_alive` | is input lost that comes at the wrong moment of the input loop? are connections left unaccepted? | 2 servers, 3 clients, 1 descriptor, 3 requests each, reads of 2 |
| `server_fair` | is every request answered and every hang-up noticed by a server that is sent pipelined and double-closing requests, as long as its POST handlers return? | 1 server, 2 clients, 2 requests each |
| `framing` | is every request handled once, in order, with its own action and fields, wherever reads cut the input? | 3 requests of 8 kinds, reads of up to 5 parts |
| `queue` | are cells, items and tickets kept apart; is full or empty reported without cause? | 3 threads, 2 cells, 4 pushes, 2 values |
| `load_and_read` | is what is loaded, in any order and damaged or not, what the write path starts from? does every GET tell what the data says, in UTF-8 and with averages rounded? | 2 users, 2 locations, 4 visits, 5 or 3 entries, 33 GETs one at a time |
| `free_list` | is a block given out twice, or lost? | 3 threads, 2 blocks |
| `concurrent_queue` | do items get lost, doubled or overtaken; is a lone consumer told false without cause; do the code's assertions hold? | up to 7 items, blocks of 2, tables and indices of 2 that grow, 1 failing allocation, 1 or 2 consumers |

Every visit run has three visits, two users, three locations; three requests are the
fewest with which a visit is created, overtaken on another thread and changed
again. Each POST is sent once; GETs and POSTs of other entities come at any time
and without bound. Threads are symmetric.

The names runs have two threads, an entity of each kind that is loaded and one
that is not, and two names, of which one is known. In `names_two_producers` the
queue of Strings has room for four of the six names: those of the locations fit,
all together overflow it and wrap around. One POST sends a new city and a new
place, so a pop finds one name or several. Two servers are the fewest that can take each other's descriptors, two
clients the fewest that a descriptor can pass between; with reads of two
requests a client's three requests fill a buffer once and leave one over.

The requests of `framing` are the fewest that differ in all that the parser keeps:
creates with and without an id, updates whose body is one piece, two pieces, or
none, a body on a request that is no POST, a request that closes, and one that
is malformed. Three in a row let one be rejected, the next depend on where its
body ended, and a third on what the second left. `queue` goes twice around its
ring, and three threads let one lag a lap behind two that go on.

The numbers of `load_and_read` lie on both sides of the branches: ids, distances
and times of every length in digits, characters of one, two and three bytes,
birthdays a second apart, averages with a remainder below and above a half. The
archives have their five entries in every order, and objects in both; three
more kinds are damaged: an object the parser gives up in, one without some
fields, one that is missing, an entry of another kind. `free_list` has a block to
be popped again while another is below it, and a third thread with a stale
reference; three blocks or four threads with two blocks take minutes and show
no more. The scenarios of `concurrent_queue` are each for one thing: seven
items of one thread, consumed meanwhile, wrap the index of two blocks and then
make it grow from a tail in its middle; two threads and one consumer are the
server's case; of three threads two have the same hash, in a table of two that is
superseded twice, or cannot be because the allocation fails; two consumers of
one thread's four items overcommit. Several allocations that fail, and
consumers next to three threads, are beyond the bound.

`LastWriteOfAThread` is stated in `VisitStore` and checked of `VisitWriter` through
the refinement mapping.

`VectorsExact` holds only as long as no two visits share a `visited_at` and none
is changed: `erase_sorted` looks a visit up by the key it has by then. The
precondition is part of the property, and what holds without it is `Indexed`.

`CityStored` says in which one way a city gets lost: behind another name in the
queue when Strings pops, as the `pop` that is called takes them all and `run()`
applies the first. The location then keeps the city it was loaded with. A new
city and a new country in one POST, which was answered 200, are enough; whether
both are stored depends on whether Strings pops between the two pushes. What the
names that are dropped are written over is one of the cases of `Undefined`, after
which nothing is claimed. Otherwise `CityStored` holds as long as the Locations
worker is the only producer, the queue has room, and no field is written twice: a
known name is stored at once and may be overtaken by a new one that was sent
before it. `names_place` is the
same property of places, and is violated: `addPlace` and `addCountry` enqueue
acts 0 and 1, `Strings::run` takes 0 for a country and 1 for a place. For the
same reason a new first name (act 3) is dropped and a new last name (act 4) is
stored as a first name. `NameIdsValid` and `DictsAgree` hold all the same, unless
`undefined`. The run queues a single name, so the `pop` of several has no part
in it.

`TextsAreUtf8` has the premises that no plain character follows an escape and that
none is U+FFFF or half of a surrogate pair, where the code's text is another; the
model has these texts all the same, and `AnswersTellTheData` compares answers
with the text that was read. `AverageRounded` assumes that the timestamp was known before the first
user: otherwise ages are counted from 0. `AnswersTellTheData` and
`AverageRounded` are about archives that have every object once, and a filter by
an empty country, which takes over another's, is excepted; of the damaged
ones `LoadedIsInit` says that the vectors list just what is stored.

`PostsReturn` and `NamesTaken` say nothing once something `Undefined` has happened.
`NamesTaken` says that no name stays queued, not that each is stored: see
`CityStored`. `PostsReturn` has the premise that GETs do clear `Writer::working`. They need
not be able to: each of the server threads may be in a POST handler that waits
for the mutex, which Strings holds as long as `working` is set. A GET that
clears `working` between `Writer::working = true` of one handler and the test of
the next is enough to bring every thread there, after which no thread is left to
handle a GET.

`Isolation` says which clients are safe. Several servers need a client that
sends nothing after a request that ends the connection, no such request at the
end of a full buffer, and no POST that creates a location or a visit: the second
`close` may hit a descriptor another thread has just accepted. A single server
needs no more than that no `Connection: close` ends a full buffer: its stale
descriptors are free whenever it uses them.

Fairness: each of the three workers is a thread in a loop that never blocks, so
`FairSpec` has weak fairness of each worker and nothing for clients.
`EventuallyDrained` assumes that from some time on no GET clears `working`,
`EventuallyQuiet` that no POST sets it. In `NameWriter` the threads that run are
fair as well: a handler that has begun goes on when it can (weak fairness, so the
mutex may pass it over), the workers and Strings go on; POSTs, GETs and spurious
wakeups need not come. `NamesTaken` assumes that Strings is awake and stays so:
a notify it does not wait for is lost. In `HttpServer` and `RequestFraming` a server
thread goes on (weak fairness) but where it is in the handler of a POST: there
it calls `enableWriters` (`Connection.hpp:88-93`), which waits for `Writer::mutex`
as long as Strings is awake, and it may wait for good. So there is no fairness for
the step that ends a handler (`InHandler` in `HttpServer`, which does not tell
POSTs from GETs; `MayBlock` in `RequestFraming`). `RequestAnswered` and `ShutClosed`
have the premise `HandlersReturn`, that each server is out of its handlers again
and again; `EveryRequestHandled` has `PostsReturn`, which `NameWriter` has as a
property with the conditions under which it holds. Without these premises TLC
finds a server that stays in a handler, with its requests unanswered. Clients
need not do anything. `EveryRequestHandled` also has the premise that no header
line so far was rejected, and ends where a 200 of a POST has closed the
descriptor.

Runs of `HttpServer` and `RequestFraming` do not check for deadlock: when the
clients are done the servers wait in `epoll_wait`, and nothing happens after
`undefined` or a lost server thread. Nor does `concurrent_queue`: its threads
stop when they have sent what they were to send.

## Proofs

For any sets of threads, visits, users, locations, times and requests that
satisfy `VisitConstants`:

- `TypeCorrect`: `TypeOK`, with the two facts that are not types: an index
  worker that applies an op has one, and a worker between requests holds none.
- `AlwaysIndexed`: `Indexed`. Inductive with `IndexInv`: the id of a visit is
  its index or none, and a queued or held request that sets the id sets every
  field. Without the first the worker could enqueue `add` for another visit,
  without the second a created visit would be listed by the owners of whatever
  was there before. Its core are three lemmas on queues: ops that name other
  visits keep a visit covered, an `add` enqueued last covers its visit, and
  applying the head of the queue moves the promise into the vector.
- `AlwaysReadable`: `ReadsValid`. Inductive with `ReadInv`: under its hypothesis a
  queued or held request creates a visit with all its fields or is about one that
  is stored; a stored visit has both owners but those the worker is about to
  write; and what an `add` in a queue names is as readable as what is listed. The
  handlers test that a visit exists when they answer, long before it is written
  to: the invariant needs that no visit is ever taken out.
- `AlwaysSorted`: `SortedUnlessPending`. Inductive with `SortInv`: for a kind of
  owner no visit changes, what a vector lists and what an op in its queue names
  has its owner (`ListedByOwner`), so that the one vector a new time unsorts is
  the one `VisitsSort` asks to sort; and what a comparator races with is the op at
  the head, with that sort behind it or in the worker's hands (`RacingPending`).
  Owners are told apart from what was said of them, by the file, the queues and
  the request held (`OwnersStated`, `RequestsStated`). It rests on
  `InsertSortedSorts` and `EraseSortedSorts`: on any vector, the positions the
  two searches may find keep the order.
- `AlwaysExact`: `VectorsExact`. Inductive with `VectorInv`, which follows every visit
  through the queue of ops: `FollowsOps` says that there is a path of owners, from
  the one vector the visit is in now to the owner it has in the storage, and
  that each op takes it one step. `erase_sorted` finds its one entry if the vector
  is sorted and no other entry has the key, so `SortedOrNext` leaves an unsorted
  vector one thing to happen to it, the sort; a time is written to a visit only
  while the last op is the `add` of it (`UntimedLast`), and the one comparator that
  may run meanwhile is of that `add` (`RacingAdd`). Times are told apart from all
  that was said of them (`RequestsSound`, `TimesKnown`), which is why the property
  has its precondition on what was sent and not on what is stored.
- `Implements`: `Spec => Store!SSpec`. `PastFieldsStored`, that the fields the
  worker is past are stored, makes the last step of a request, which forgets it,
  a stutter.
- `LastWriteStored`: `LastWriteOfAThread`. A property of the whole log, which no
  step looks at: the invariant is that a queue holds the tail of what its thread
  was asked, so that the latest write in the log of a thread before what it
  still has queued is the last one applied for it.

`NameWriter`, under `NameConstants` (the file gives every entity its names, a
create names its entity, the ring has more than one entry, a destroyed string is
no name):

- `TypeCorrect`, `DictsAlwaysAgree` and `NameIdsAlwaysValid`: `TypeOK`, `DictsAgree`,
  `NameIdsValid`. The invariant is their conjunction with `EntryEntered`: the
  name Strings has put in the map and not yet in the vector has the id the
  vector will give it. `NameIdsValid` alone is not inductive: a worker takes ids
  out of the map, so the map may promise none that the vector does not keep.
  Nothing is asked of the queue of Strings but that a slot it takes holds a
  string (`SlotType`): that names are dropped does no harm to the dictionaries, as
  Strings looks each up before it enters it. The last two claim nothing after
  `Undefined`.
- `CityAlwaysStored`: `CityStored`, for any number of locations and names that are
  fewer than the slots of the ring. Inductive with `CityInv`: `CityKept` says where
  the city of each accepted POST is (queued, in the worker's hands, in the ring,
  in the hands of Strings, lost behind another, or stored), `OthersKept` the same
  of the other fields, and `CityOwn` that the city of a location is the loaded one
  or one a POST named for it, so that one whose name was lost is as it was.
  That the ring drops nothing by itself is counted: no field of a location has two
  slots, or one while it is on its way (`FieldsApart`, `SlotsApart`), and each slot,
  taken or not, is of a field a POST named (`RingStands`, `SlotSaid`), so there are as
  many slots used as names sent at most (`RoomLeft`), no slot is used twice, and the
  index never wraps. A stored id stays because only the one POST that names the
  field leads to a write of it (`StoredStays`). A POST is answered once however
  often its handler was interrupted (`SentOnce`). `CityInv` was an invariant of
  `names_two_producers` before it was proved.

`HttpServer`, under `ServerConstants`, for any finite number of servers and
descriptors, any clients, requests, and size of the read buffer:

- `TypeCorrect`, `DescriptorsAlwaysOwned`, `AcceptsPending`, `EdgesNotLost`,
  `ServersIsolated`: `TypeOK`, `DescriptorsOwned`, `AcceptPending`, `NoLostEdge`,
  `Isolation`. `BaseInv` says who has to do with a connection: it is in one
  backlog, once, until it is accepted; a socket in an epoll set still has its
  descriptor; a batch has one event at most of a connection, and none of the
  one its server is at; no two servers have to do with the same. It holds
  whatever clients send, and gives the three middle properties. `Isolation` is
  about careful clients, so it has to follow a request from where it is sent to
  where it ends the connection: `InboxSent` and `InHand` say that what is unread,
  and what a server has in its buffer, are consecutive parts of what the client
  has sent, and `Steady` that the server at a connection can go on with it. With
  one server a closed descriptor may be stale, with several it may not, and
  that is why the two cases differ in what a careful client is.

`RequestFraming`, under `FramingConstants` (what is behind the closing brace is not
of the object), for any requests, lengths of bodies, and cuts between reads:

- `TypeCorrect`, `HandledAsSent`, `ActionsKept`, `FieldsOwn`: `TypeOK`,
  `HandledInOrder`, `ActionKept`, `FieldsAreOwn`. `AtNext` ties the state of the
  parser to the first request that was not handled, `InOrder` says that the
  buffer followed by what is unread is the input from the part it expects on,
  `Kept` what `HttpParser::r` stands for in each state, with the two ways a body
  goes wrong (cut by a read, no closing brace), and `AllAnswered` is what was
  handled. That a chain of parts is the input is said of its neighbours, so no
  induction over the input is needed.

`MpmcQueue`, under `QueueConstants`, for any threads, values and size above one:

- `TypeCorrect`, `ExclusiveCells`, `FirstInFirstOut`, and the action property
  `FailuresHaveReason`: `TypeOK`, `CellExclusive`, `PopsWhatWasPushed`,
  `FailsWithReason`. The invariant is about tickets: a ticket is one thread's
  (`TicketsClaimed`), its cell carries the number it waits for (`CellsWait`), also
  for a thread whose compare-and-swap can still succeed (`ClaimsReady`), a number
  says what is in the cell (`PushesStore`, `CellsFilled`), and it is no smaller than
  what the tickets no longer held have left (`TicketsLeft`). The core is
  arithmetic: a number awaited in a cell tells operation and ticket
  (`AwaitedOnce`). The size need not be a power of two for it.

`FreeList`, for any finite set of threads and any blocks (`Null` is not one):

- `NoBlockLost` and `IsABlockPool`: `NoneLost` and the refinement of `BlockPool`. The
  invariant counts: the count of a block is the number of the threads that hold a
  reference, and one if the list has its own (`CountsHolders`), which from the pop
  to the subtraction of 2 is in the hands of the thread that popped. A block whose
  count is zero with the bit set is being linked by one thread (`BitsTell`,
  `OneOwner`), so nobody who has a reference sees its successor change
  (`ReadsHold`), and the head that is popped is replaced by what is below it
  still. `Chained` and `Reached` say that the blocks on the list follow one another
  from the head to the end: what no set that has the head and is closed under
  successors can miss, so no number of steps is counted. `FreeListInv` was
  an invariant of `free_list` before it was proved.

`ConcurrentQueue`, under `HashConstants` and `QueueConstants` (the sizes of tables,
blocks and block indices are powers of two, as the code asserts), for any
finite sets of threads and consumers, any hash of thread ids, any sizes and
scenarios:

- `QueueInvariant` and `AssertionsHold`: the inductive invariant `IInv` and
  `AssertsHold`. The assertion that a consumer finds in the index the block of the
  index it has taken needs all of it, in four layers, each of which rests on the
  one below.
  `HashInv`: a thread has one producer, whichever table it finds it in. The search
  of a table finds a key that is there because the slots before it stay taken
  (`Reachable`), and finds an end because no table fills up. That is a count over
  time: `hashCount` counts threads, the n-th of them writes its key only where n
  is below 3/4 of the capacity, so at most n threads were admitted by counts up to
  n (`Crowds`), and each table has a free slot.
  `CountInv`: the tail a consumer has loaded may be old and other claims come
  between, so that a claim is good is not said of one consumer but of all that
  have claimed and not verified: were all of them with a count of n or less to
  take an index, the head would not pass the tail (`Claims`, `Bound`). A count is
  one consumer's, which makes that set lose one element when the least of them
  goes. Hence no index is taken twice, and none beyond the tail.
  `BlockInv`: a block counts those of its indices that consumers have left, each
  index is with one consumer at most, and so the block is there, with one owner,
  as long as an index of it is below the tail or in the hands of a consumer.
  `IndexInv`: the index of blocks, whichever of its versions a consumer has
  loaded and however old its tail. `LeadsTo` says that from the tail a
  consumer has seen, counting blocks backwards leads to the entry of its block: keys
  of neighbouring positions differ by one block (`AnchorAt`), entries
  are reused in the order in which they were used, and one that still has a
  block is not reused; growing copies the entries from the oldest on.
  `IInv` was an invariant of `concurrent_queue` before it was proved. The proof takes
  each action through each layer, and most of it is about what an action leaves
  alone.
- `QueueImplements`: the refinement of `RequestQueue`, with `FullInv`, which adds two
  conjuncts to `IInv`. `ItemInv` says where an item is: the element of an index
  that is below the tail (or at it, once written) is the item of that number from
  the moment it is written until a consumer moves it out (`Kept`, `ElementsAt`),
  and what a consumer has moved out is the item of the index it took (`InHand`).
  Blocks that are reused, and indices that grow, move no element that is kept, as
  a block has one owner and one entry. `Lone` is about the answer false: a consumer
  that is alone, and saw something when it asked, has found a producer that is not
  empty, or has one yet to look at (`LoneAt`). Others only add items, and with no
  other claims `optimistic - overcommit` is the head, so that none of its tests
  fails at that producer. With that, each step is one of `RequestQueue` or a
  stutter: the store to the tail is `Enqueue`, the increment of the head is
  `Dequeue`, the load of the list of producers is `Ask`, the end of `try_dequeue`
  one of the two `Return`s. Both conjuncts were invariants of `concurrent_queue`
  before they were proved.

What stays with TLC, and why:

- Liveness (`EventuallyDrained`, `EventuallyQuiet`, `RequestAnswered`,
  `EveryRequestHandled` and the others that assume fairness), which needs
  `ENABLED`.
- `AnswersTellTheData`, `AverageRounded`, `TextsAreUtf8`, `LoadedIsInit`: they are
  about functions computed by recursion over text and over the file, and would
  need an induction over data.

## Not modelled

- `date.hpp`, both copies of the B-tree, `safe_btree.h`, their tests and benchmarks,
  and the zip and zlib binaries: third-party code that no line of the server
  that is compiled calls. They are more than half of the lines of the repository.
- Of `concurrentqueue.h` what the server does not call: explicit producers and
  tokens, bulk operations, `try_enqueue`, moves, swaps and destructors (the queues
  live as long as the program), the debugging and portability variants, the
  recycling of producers of threads that ended (the server's never do).
- The parser benchmark of `main.cpp`, and the code in comments throughout.
  `u64toa` and `i64toa` of `itoa_branchlut.hpp` have no caller.
- The recognition of characters by the two generated parsers: white space, the
  digits of integers, labels, a head that is split inside a line. The machines are
  resumed where they stopped, so no cut tells apart; as automata they would be
  copied state by state.
- Failures of `socket`, `bind`, `listen` and `epoll_create`, which end the program
  before it serves; clients that reset their connection.
- Memory orders weaker than sequential consistency, `std::sort` running out of its
  range, and accesses to an `unordered_map` or a `std::string` that another thread
  changes: C++ says nothing of what they may do.
