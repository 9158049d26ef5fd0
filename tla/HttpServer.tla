----------------------------- MODULE HttpServer -----------------------------
(***************************************************************************)
(* The server threads of main.cpp: each runs an HttpServer of its own, with *)
(* its own listening socket (SO_REUSEPORT) and its own epoll set, in the    *)
(* one descriptor table of the process.  An event carries a pointer to the  *)
(* Connection, which handles a buffer full of requests at a time and closes *)
(* its descriptor after it has answered a POST.                             *)
(*                                                                          *)
(* Sockets, the descriptor table and epoll are the kernel's, modelled from  *)
(* how HttpServer uses them.  A client makes one connection, so a client,   *)
(* its socket and the Connection accept4 is followed by share one name.     *)
(***************************************************************************)
EXTENDS Integers, Sequences, FiniteSets, FiniteSetsExt, SequencesExt

CONSTANTS
  Servers, Clients, None,
  Fds,         \* the descriptors the process may have open for connections
  ReadBufSize, \* kReadBufSize, in requests
  MaxSent,     \* bound: the requests a client sends
  Requests     \* what clients send

\* Of a request the server cares whether its answer keeps the connection open
\* ("get"), closes it ("post"), or closes it twice ("create": insertLocation,
\* insertVisit), and whether the request says `Connection: close'.
Request == [kind : {"get", "post", "create"}, close : BOOLEAN]

ASSUME ServerConstants ==
  /\ Requests \subseteq Request
  /\ ReadBufSize \in Nat \ {0} /\ MaxSent \in Nat
  /\ Fds \subseteq Nat /\ Fds # {} /\ IsFiniteSet(Fds) /\ IsFiniteSet(Servers)
  /\ None \notin Clients \union Servers

VARIABLES
  sock,      \* sock[c]: "none", "queued", "open" or "gone"
  queue,     \* queue[s]: the connections s has not accepted
  fdt,       \* the descriptor table
  sent,      \* history: what a client has sent
  inbox,     \* what of it has not been read
  shut,      \* whether the client has shut down its side
  answered,  \* history: how many answers reached the client
  reg,       \* the server in whose epoll set a socket is
  edge,      \* edge[c]: an event of the socket is pending
  ledge,     \* ledge[s]: an event of the listening socket is pending
  refused,   \* history: whether accept4 of s has failed for want of a descriptor
  conn,      \* conn[c]: the Connection
  pc, batch, \* a server: where it is, and the events it has not come to
  cur,       \* the connection it is at
  buf, full, \* the requests it has read, and whether they fill the buffer
  undefined  \* a call went through the descriptor of somebody else, or through
             \* a deleted Connection; what follows is left open

net == <<sent, shut>>
kernel == <<sock, queue, fdt, reg, edge, ledge>>
loop == <<pc, batch, cur, buf, full>>
hist == <<answered, refused>>
vars == <<net, inbox, kernel, loop, hist, conn, undefined>>

Event == [conn : Clients \union {None}, hup : BOOLEAN]
Accepting == [conn |-> None, hup |-> FALSE]

Connection == [fd : Fds, closed : BOOLEAN, deleted : BOOLEAN]

\* Connection(fd).
NewConnection(fd) == [fd |-> fd, closed |-> FALSE, deleted |-> FALSE]

Init ==
  /\ sock = [c \in Clients |-> "none"] /\ queue = [s \in Servers |-> <<>>]
  /\ fdt = [f \in Fds |-> None]
  /\ sent = [c \in Clients |-> <<>>] /\ inbox = sent
  /\ shut = [c \in Clients |-> FALSE] /\ answered = [c \in Clients |-> 0]
  /\ reg = [c \in Clients |-> None] /\ edge = [c \in Clients |-> FALSE]
  /\ ledge = [s \in Servers |-> FALSE] /\ refused = ledge
  /\ conn = [c \in Clients |-> None]
  /\ pc = [s \in Servers |-> "events"] /\ batch = [s \in Servers |-> {}]
  /\ cur = [s \in Servers |-> None] /\ buf = [s \in Servers |-> <<>>]
  /\ full = [s \in Servers |-> FALSE]
  /\ undefined = FALSE
-----------------------------------------------------------------------------
(* Clients.                                                                *)

\* The kernel gives a new connection to one of the listening sockets.
Connect(c, s) ==
  /\ sock[c] = "none"
  /\ sock' = [sock EXCEPT ![c] = "queued"]
  /\ queue' = [queue EXCEPT ![s] = Append(@, c)]
  /\ ledge' = [ledge EXCEPT ![s] = TRUE]
  /\ UNCHANGED <<net, inbox, fdt, reg, edge, loop, hist, conn, undefined>>

Connected(c) == sock[c] \in {"queued", "open"} /\ ~ shut[c]

Send(c, r) ==
  /\ Connected(c) /\ Len(sent[c]) < MaxSent
  /\ sent' = [sent EXCEPT ![c] = Append(@, r)]
  /\ inbox' = [inbox EXCEPT ![c] = Append(@, r)]
  /\ edge' = [edge EXCEPT ![c] = reg[c] # None]
  /\ UNCHANGED <<shut, sock, queue, fdt, reg, ledge, loop, hist, conn, undefined>>

Shutdown(c) ==
  /\ Connected(c)
  /\ shut' = [shut EXCEPT ![c] = TRUE]
  /\ edge' = [edge EXCEPT ![c] = reg[c] # None]
  /\ UNCHANGED <<sent, inbox, sock, queue, fdt, reg, ledge, loop, hist, conn, undefined>>

Client(c) ==
  (\E s \in Servers : Connect(c, s)) \/ (\E r \in Requests : Send(c, r)) \/ Shutdown(c)
-----------------------------------------------------------------------------
(* HttpServer::run.  One step is one system call, with the code up to the   *)
(* next.                                                                    *)

\* The socket behind the descriptor that Connection c believes is its own.
Behind(c) == fdt[conn[c].fd]

\* close(fd) of the last descriptor of socket c takes it out of the epoll set.
CloseSocket(c) ==
  /\ fdt' = [fdt EXCEPT ![conn[c].fd] = None]
  /\ sock' = [sock EXCEPT ![c] = "gone"]
  /\ inbox' = [inbox EXCEPT ![c] = <<>>]
  /\ reg' = [reg EXCEPT ![c] = None]
  /\ edge' = [edge EXCEPT ![c] = FALSE]
  /\ UNCHANGED <<queue, ledge>>

\* close(fd), EBADF when the descriptor is closed already.
Close(c) == IF Behind(c) = c THEN CloseSocket(c) ELSE UNCHANGED <<kernel, inbox>>

\* The events epoll_wait would report now.
Ready(s) ==
  {[conn |-> c, hup |-> shut[c]] :
     c \in {c \in Clients : reg[c] = s /\ edge[c] /\ (shut[c] \/ inbox[c] # <<>>)}}
  \union (IF ledge[s] THEN {Accepting} ELSE {})

epoll_wait(s) ==
  /\ ~ undefined
  /\ pc[s] = "events" /\ batch[s] = {} /\ Ready(s) # {}
  /\ batch' = [batch EXCEPT ![s] = Ready(s)]
  /\ edge' = [c \in Clients |-> edge[c] /\ reg[c] # s]
  /\ ledge' = [ledge EXCEPT ![s] = FALSE]
  /\ UNCHANGED <<net, inbox, sock, queue, fdt, reg, pc, cur, buf, full, hist, conn, undefined>>

\* Mutant: the pointer of the listening socket's event is not tested.
nextEvent_Unchecked(s) ==
  /\ ~ undefined
  /\ pc[s] = "events"
  /\ \E e \in batch[s] :
       /\ batch' = [batch EXCEPT ![s] = @ \ {e}]
       /\ cur' = [cur EXCEPT ![s] = e.conn]
       /\ pc' = [pc EXCEPT ![s] = IF e.hup THEN "hangup" ELSE "read"]
  /\ UNCHANGED <<net, inbox, kernel, buf, full, hist, conn, undefined>>

\* A hang-up goes before the input that may have come with it.
nextEvent(s) ==
  /\ ~ undefined
  /\ pc[s] = "events"
  /\ \E e \in batch[s] :
       /\ batch' = [batch EXCEPT ![s] = @ \ {e}]
       /\ cur' = [cur EXCEPT ![s] = e.conn]
       /\ pc' = [pc EXCEPT ![s] = IF e.conn = None THEN "accept"
                                  ELSE IF e.hup THEN "hangup" ELSE "read"]
  /\ UNCHANGED <<net, inbox, kernel, buf, full, hist, conn, undefined>>

\* Mutant: one connection is accepted for an event.
AfterRegister_Once == "events"

\* The accept loop goes on.
AfterRegister == "accept"

\* EAGAIN and any other error end the loop, and a new connection gets the
\* lowest descriptor that is free.
accept4(s) ==
  /\ ~ undefined
  /\ pc[s] = "accept"
  /\ LET free == {f \in Fds : fdt[f] = None}
         c == Head(queue[s])
     IN  IF queue[s] = <<>> \/ free = {}
           THEN /\ pc' = [pc EXCEPT ![s] = "events"]
                /\ refused' = [refused EXCEPT ![s] = @ \/ queue[s] # <<>>]
                /\ UNCHANGED <<queue, sock, fdt, conn, cur>>
           ELSE /\ queue' = [queue EXCEPT ![s] = Tail(@)]
                /\ sock' = [sock EXCEPT ![c] = "open"]
                /\ fdt' = [fdt EXCEPT ![Min(free)] = c]
                /\ conn' = [conn EXCEPT ![c] = NewConnection(Min(free))]
                /\ cur' = [cur EXCEPT ![s] = c]
                /\ pc' = [pc EXCEPT ![s] = "register"]
                /\ UNCHANGED refused
  /\ UNCHANGED <<net, inbox, reg, edge, ledge, answered, batch, buf, full, undefined>>

\* EPOLL_CTL_ADD reports at once what the socket already has.
register(s) ==
  /\ ~ undefined
  /\ pc[s] = "register" /\ Behind(cur[s]) = cur[s]
  /\ LET c == cur[s]
     IN  /\ reg' = [reg EXCEPT ![c] = s]
         /\ edge' = [edge EXCEPT ![c] = shut[c] \/ inbox[c] # <<>>]
  /\ pc' = [pc EXCEPT ![s] = AfterRegister] /\ cur' = [cur EXCEPT ![s] = None]
  /\ UNCHANGED <<net, inbox, sock, queue, fdt, ledge, hist, conn, batch, buf, full, undefined>>

\* Mutant: the Connection is not deleted.
hangup_Forgets(s) ==
  /\ ~ undefined
  /\ pc[s] = "hangup" /\ Behind(cur[s]) \in {None, cur[s]}
  /\ reg' = [reg EXCEPT ![cur[s]] = None]
  /\ pc' = [pc EXCEPT ![s] = "events"] /\ cur' = [cur EXCEPT ![s] = None]
  /\ UNCHANGED <<net, inbox, sock, queue, fdt, edge, ledge, conn, hist, batch, buf, full, undefined>>

\* EPOLL_CTL_DEL, and unless it fails delete conn, whose destructor closes the
\* descriptor.
hangup(s) ==
  /\ ~ undefined
  /\ pc[s] = "hangup" /\ Behind(cur[s]) \in {None, cur[s]}
  /\ LET c == cur[s]
     IN  IF Behind(c) = c
           THEN CloseSocket(c) /\ conn' = [conn EXCEPT ![c].deleted = TRUE]
           ELSE UNCHANGED <<kernel, inbox, conn>>
  /\ pc' = [pc EXCEPT ![s] = "events"] /\ cur' = [cur EXCEPT ![s] = None]
  /\ UNCHANGED <<net, hist, batch, buf, full, undefined>>

\* EBADF, EAGAIN and the end of the stream end the loop over the input.
read(s) ==
  /\ ~ undefined
  /\ pc[s] = "read" /\ ~ conn[cur[s]].deleted /\ Behind(cur[s]) \in {None, cur[s]}
  /\ LET c == cur[s]
         n == Min({ReadBufSize, Len(inbox[c])})
     IN  IF Behind(c) = None \/ n = 0
           THEN /\ pc' = [pc EXCEPT ![s] = "events"] /\ cur' = [cur EXCEPT ![s] = None]
                /\ UNCHANGED <<inbox, buf, full>>
           ELSE /\ buf' = [buf EXCEPT ![s] = SubSeq(inbox[c], 1, n)]
                /\ full' = [full EXCEPT ![s] = n = ReadBufSize]
                /\ inbox' = [inbox EXCEPT ![c] = SubSeq(@, n + 1, Len(@))]
                /\ pc' = [pc EXCEPT ![s] = "answer"]
                /\ UNCHANGED cur
  /\ UNCHANGED <<net, kernel, hist, conn, batch, undefined>>

\* Mutant: the input loop ends after one read.
AfterBuffer_Once(s) == "events"

\* Mutant: only the end of the input ends the loop.
AfterBuffer_Always(s) == "read"

\* `if (count < kReadBufSize) break;'
AfterBuffer(s) == IF full[s] THEN "read" ELSE "events"

\* Mutant: what follows the first request is dropped.
LastOfBuffer_First(s) == TRUE

\* Connection: close drops the rest of the buffer.
LastOfBuffer(s) == Head(buf[s]).close \/ Len(buf[s]) = 1

\* Back in handleData, and in the input loop after the last request.
Handled(s) ==
  LET c == cur[s]
  IN  /\ IF LastOfBuffer(s)
           THEN /\ pc' = [pc EXCEPT ![s] = AfterBuffer(s)]
                /\ buf' = [buf EXCEPT ![s] = <<>>] /\ full' = [full EXCEPT ![s] = FALSE]
                /\ cur' = [cur EXCEPT ![s] = IF AfterBuffer(s) = "read" THEN c ELSE None]
           ELSE /\ pc' = [pc EXCEPT ![s] = "answer"]
                /\ buf' = [buf EXCEPT ![s] = Tail(@)]
                /\ UNCHANGED <<full, cur>>
      /\ UNCHANGED batch

\* The write of a handler, EBADF when the descriptor is closed already, and
\* delete conn if that was all the handler does and the request asks for it:
\* the destructor closes what is not closed_.
answer(s) ==
  /\ ~ undefined
  /\ pc[s] = "answer" /\ Behind(cur[s]) \in {None, cur[s]}
  /\ LET c == cur[s]
         r == Head(buf[s])
         deletes == r.kind = "get" /\ r.close
     IN  /\ answered' = [answered EXCEPT ![c] = IF Behind(c) = c THEN @ + 1 ELSE @]
         /\ IF r.kind = "get" THEN Handled(s)
            ELSE pc' = [pc EXCEPT ![s] = "close"] /\ UNCHANGED <<batch, cur, buf, full>>
         /\ IF deletes
              THEN /\ conn' = [conn EXCEPT ![c].deleted = TRUE]
                   /\ IF conn[c].closed THEN UNCHANGED <<kernel, inbox>> ELSE Close(c)
              ELSE UNCHANGED <<kernel, inbox, conn>>
  /\ UNCHANGED <<net, refused, undefined>>

\* Mutant: the destructor does not look at closed_.
ClosesTwice_Destructor(r) == r.kind = "create" \/ r.close

\* insertLocation and insertVisit close what writePostOk has closed.
ClosesTwice(r) == r.kind = "create"

\* After the last close closed_ is set, and conn deleted if the request asks
\* for it.
close(s) ==
  /\ ~ undefined
  /\ pc[s] \in {"close", "again"} /\ Behind(cur[s]) \in {None, cur[s]}
  /\ LET c == cur[s]
         r == Head(buf[s])
     IN  /\ Close(c)
         /\ IF ClosesTwice(r) /\ pc[s] = "close"
              THEN /\ pc' = [pc EXCEPT ![s] = "again"]
                   /\ UNCHANGED <<conn, batch, cur, buf, full>>
              ELSE /\ conn' = [conn EXCEPT ![c].closed = TRUE, ![c].deleted = r.close]
                   /\ Handled(s)
  /\ UNCHANGED <<net, hist, undefined>>

\* A descriptor that was closed and is somebody else's by now, one that was
\* closed between accept4 and epoll_ctl, or a Connection that was deleted.
misuse(s) ==
  /\ ~ undefined
  /\ CASE pc[s] = "register" -> Behind(cur[s]) # cur[s]
       [] pc[s] = "read" -> \/ conn[cur[s]].deleted
                            \/ Behind(cur[s]) \notin {None, cur[s]}
       [] pc[s] \in {"hangup", "answer", "close", "again"} ->
            Behind(cur[s]) \notin {None, cur[s]}
       [] OTHER -> FALSE
  /\ undefined' = TRUE
  /\ UNCHANGED <<net, inbox, kernel, loop, hist, conn>>

Server(s) ==
  \/ epoll_wait(s) \/ nextEvent(s) \/ accept4(s) \/ register(s) \/ hangup(s)
  \/ read(s) \/ answer(s) \/ close(s) \/ misuse(s)

Next == (\E c \in Clients : ~ undefined /\ Client(c)) \/ (\E s \in Servers : Server(s))

Spec == Init /\ [][Next]_vars

\* A thread in a handler may block: that of a POST, whatever it will answer,
\* begins with enableWriters, which waits for Writer::mutex.  No fairness lets it
\* get on.
InHandler(s) == pc[s] = "answer"

\* Elsewhere a server is a thread that blocks in epoll_wait only.
FairSpec == Spec /\ \A s \in Servers : WF_vars(~ InHandler(s) /\ Server(s))
-----------------------------------------------------------------------------
(* Properties.                                                             *)

\* Connections and what the kernel keeps of them.
KernelTypeOK ==
  /\ sock \in [Clients -> {"none", "queued", "open", "gone"}]
  /\ queue \in [Servers -> Seq(Clients)]
  /\ fdt \in [Fds -> Clients \union {None}]
  /\ sent \in [Clients -> Seq(Requests)] /\ inbox \in [Clients -> Seq(Requests)]
  /\ shut \in [Clients -> BOOLEAN] /\ edge \in [Clients -> BOOLEAN]
  /\ reg \in [Clients -> Servers \union {None}]
  /\ ledge \in [Servers -> BOOLEAN] /\ refused \in [Servers -> BOOLEAN]
  /\ conn \in [Clients -> Connection \union {None}]
  /\ \A c \in Clients : IF sock[c] \in {"none", "queued"} THEN conn[c] = None
                        ELSE conn[c] \in Connection

\* A server inside an event is at a connection it has accepted, and holds
\* requests exactly while it handles them.
LoopTypeOK ==
  /\ pc \in [Servers -> {"events", "accept", "register", "hangup", "read",
                         "answer", "close", "again"}]
  /\ batch \in [Servers -> SUBSET Event]
  /\ cur \in [Servers -> Clients \union {None}]
  /\ buf \in [Servers -> Seq(Requests)] /\ full \in [Servers -> BOOLEAN]
  /\ \A s \in Servers :
       /\ cur[s] = None <=> pc[s] \in {"events", "accept"}
       /\ cur[s] # None => sock[cur[s]] \in {"open", "gone"}
       /\ buf[s] # <<>> <=> pc[s] \in {"answer", "close", "again"}
  /\ undefined \in BOOLEAN

\* Every variable keeps its type, and no client gets more answers than it can
\* have sent requests.
TypeOK ==
  /\ KernelTypeOK
  /\ LoopTypeOK
  /\ answered \in [Clients -> 0 .. MaxSent]

Closing(r) == r.close \/ r.kind # "get"

\* The client sends nothing behind a request that ends the connection, none
\* that ends in a full read, and unless there is but one server thread no
\* POST .../new of a location or a visit.
Careful(c) ==
  \A i \in DOMAIN sent[c] :
    Closing(sent[c][i]) =>
      /\ i = Len(sent[c]) /\ i < ReadBufSize
      /\ sent[c][i].kind = "create" => Cardinality(Servers) = 1

\* No `Connection: close' comes at the end of a full read.
ClosesFit(c) ==
  (\E i \in DOMAIN sent[c] : sent[c][i].close) => Len(sent[c]) < ReadBufSize

Behaved == \A c \in Clients : IF Cardinality(Servers) = 1 THEN ClosesFit(c) ELSE Careful(c)

\* No server thread ever reads from, writes to, closes or registers the
\* descriptor of a connection it does not own, nor touches a Connection after
\* `delete conn', however accepts and closes of several threads interleave on
\* one descriptor table, provided that clients are careful.  A single thread
\* may be sent anything but a Connection: close that fills its read buffer
\* (HttpServer.hpp:198-201): its stale descriptors are free when it uses them.
Isolation == Behaved => ~ undefined

Owns(c, f) ==
  /\ sock[c] = "open" /\ conn[c].fd = f /\ ~ conn[c].deleted /\ ~ conn[c].closed
  /\ reg[c] # None \/ \E s \in Servers : pc[s] = "register" /\ cur[s] = c

\* No descriptor is leaked, and none has two owners: an open one is always that
\* of the one Connection that was made for it, which still has to close it.
DescriptorsOwned ==
  ~ undefined => \A f \in Fds : fdt[f] # None => Owns(fdt[f], f)

\* Server s is going to read from c.
WillRead(s, c) ==
  \/ edge[c] \/ \E e \in batch[s] : e.conn = c
  \/ cur[s] = c /\ (full[s] \/ pc[s] \in {"read", "hangup"})

\* Server s is going to notice that c has hung up.
WillHangup(s, c) ==
  \/ edge[c] \/ [conn |-> c, hup |-> TRUE] \in batch[s]
  \/ cur[s] = c /\ pc[s] = "hangup"

\* Edge-triggered events are not lost (HttpServer.hpp:160-203): a registered
\* socket that has unread input, or whose client has shut down its side, has an
\* event pending or in a batch, or its server will still read from it.
NoLostEdge ==
  ~ undefined =>
    \A c \in Clients :
      reg[c] # None =>
        /\ inbox[c] # <<>> => WillRead(reg[c], c)
        /\ shut[c] => WillHangup(reg[c], c)

\* A connection waits to be accepted only while its server is due to come to
\* the accept loop or is in it, or has left it once for want of a descriptor
\* (HttpServer.hpp:164-168), after which the next arrival has to wake it up.
AcceptPending ==
  \A s \in Servers :
    queue[s] # <<>> =>
      \/ ledge[s] \/ Accepting \in batch[s] \/ pc[s] \in {"accept", "register"}
      \/ refused[s] \/ undefined

Stranded(c) == sock[c] = "queued" /\ \E s \in Servers : refused[s]

\* No server is kept in a handler for good.
HandlersReturn == \A s \in Servers : []<> ~ InHandler(s)

\* Every request of a careful client is answered in the end, unless the client
\* shuts down its side: HttpServer.hpp:143 then drops what is still unread.  The
\* premise is that enableWriters gets the mutex (Connection.hpp:88-93), which it
\* need not while Strings works.
RequestAnswered ==
  HandlersReturn =>
    \A c \in Clients : \A n \in 1 .. MaxSent :
      Len(sent[c]) >= n ~>
        answered[c] >= n \/ shut[c] \/ ~ Careful(c) \/ Stranded(c) \/ undefined

\* A client that has shut down its side has its connection closed in the end,
\* under the same premise: a server that is kept in a handler handles no hang-up.
ShutClosed ==
  HandlersReturn =>
    \A c \in Clients : shut[c] ~> sock[c] = "gone" \/ Stranded(c) \/ undefined
=============================================================================
