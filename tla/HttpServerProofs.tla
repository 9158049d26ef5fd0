-------------------------- MODULE HttpServerProofs --------------------------
(***************************************************************************)
(* Theorems about HttpServer, for any number of servers and clients, any    *)
(* descriptors, size of the buffer and number of requests, whatever the     *)
(* clients send.                                                            *)
(***************************************************************************)
EXTENDS HttpServer, FiniteSetTheorems, SequenceTheorems, WellFoundedInduction, TLAPS

(***************************************************************************)
(* The inductive invariant.                                                *)
(***************************************************************************)

\* The types that are inductive: that answered stays below MaxSent follows from
\* InboxSent.
TypeInv == KernelTypeOK /\ LoopTypeOK /\ answered \in [Clients -> Nat]

\* A connection that was not accepted is in one queue, once.
QueuedOnce ==
  /\ \A s \in Servers : \A i \in 1 .. Len(queue[s]) : sock[queue[s][i]] = "queued"
  /\ \A s, t \in Servers : \A i \in 1 .. Len(queue[s]), j \in 1 .. Len(queue[t]) :
       queue[s][i] = queue[t][j] => (s = t /\ i = j)

\* An open descriptor is that of the Connection made for it, also once a
\* call has gone astray.
Owned == \A f \in Fds : fdt[f] # None => Owns(fdt[f], f)

\* An open socket that still has its descriptor.
Holds(c) == sock[c] = "open" /\ Behind(c) = c

\* Only an open socket is in an epoll set.
Registered == \A c \in Clients : reg[c] # None => Holds(c)

\* A batch has one event of a connection at most, of one that holds its
\* descriptor, and none of the connection its server is at.
BatchFresh ==
  \A s \in Servers : \A e \in batch[s] :
    e.conn # None =>
      /\ Holds(e.conn) /\ cur[s] # e.conn
      /\ \A e2 \in batch[s] : e2.conn = e.conn => e2 = e

\* Server s has to do with connection c.
At(s, c) == reg[c] = s \/ cur[s] = c \/ \E e \in batch[s] : e.conn = c

\* A connection is one server's.
OneServer ==
  \A c \in Clients : \A s, t \in Servers : At(s, c) /\ At(t, c) => s = t
-----------------------------------------------------------------------------
(***************************************************************************)
(* The operators the actions are built from.                               *)
(***************************************************************************)

\* The least element of a set of numbers is one of them.
LEMMA MinInSet ==
  ASSUME NEW S \in SUBSET Nat, S # {}
  PROVE  Min(S) \in S /\ \A y \in S : Min(S) <= y
<1> DEFINE Less == OpToRel(<, Nat)
<1>1. IsWellFoundedOn(Less, Nat)
  BY NatLessThanWellFounded
<1>2. \A x, y \in Nat : x < y => <<x, y>> \in Less
  BY DEF OpToRel
<1> HIDE DEF Less
<1>3. \E x \in S : \A y \in S : ~ (<<y, x>> \in Less)
  BY <1>1, WFMin
<1>4. PICK x \in S : \A y \in S : ~ (<<y, x>> \in Less)
  BY <1>3
<1>5. ASSUME NEW y \in S PROVE x <= y
  <2>1. x \in Nat /\ y \in Nat
    OBVIOUS
  <2>2. ~ (y < x)
    BY <1>2, <1>4, <2>1
  <2> QED
    BY <2>1, <2>2
<1> QED
  BY <1>5 DEF Min

\* A sequence that is not empty.
LEMMA SeqParts ==
  ASSUME NEW S, NEW q \in Seq(S), q # <<>>
  PROVE  /\ Len(q) \in Nat /\ Len(q) > 0
         /\ Head(q) = q[1] /\ Head(q) \in S
         /\ Tail(q) \in Seq(S) /\ Len(Tail(q)) = Len(q) - 1
         /\ Tail(q) # <<>> <=> Len(q) # 1
         /\ \A i \in 1 .. Len(q) - 1 : Tail(q)[i] = q[i + 1]
<1>1. Len(q) \in Nat /\ Len(q) > 0
  OBVIOUS
<1>2. Head(q) = q[1] /\ Head(q) \in S
  OBVIOUS
<1>3. Tail(q) \in Seq(S) /\ Len(Tail(q)) = Len(q) - 1
  OBVIOUS
<1>4. Tail(q) # <<>> <=> Len(q) # 1
  BY <1>1, <1>3, EmptySeq
<1>5. \A i \in 1 .. Len(q) - 1 : Tail(q)[i] = q[i + 1]
  OBVIOUS
<1> QED
  BY <1>1, <1>2, <1>3, <1>4, <1>5

\* A Connection that was just made.
LEMMA NewConnectionIs ==
  ASSUME NEW f \in Fds
  PROVE  /\ NewConnection(f) \in Connection /\ NewConnection(f).fd = f
         /\ ~ NewConnection(f).closed /\ ~ NewConnection(f).deleted
BY DEF NewConnection, Connection

\* What epoll_wait reports of a connection.
Report(c) == [conn |-> c, hup |-> shut[c]]

\* What epoll reports of a connection.
LEMMA ReportIs ==
  ASSUME TypeInv, NEW c \in Clients
  PROVE  /\ Report(c) \in Event /\ Report(c).conn = c
         /\ Report(c) # Accepting
         /\ shut[c] => Report(c) = [conn |-> c, hup |-> TRUE]
<1>1. c # None
  BY ServerConstants
<1>2. Report(c).conn = c /\ Accepting.conn = None
  BY DEF Report, Accepting
<1>3. shut[c] \in BOOLEAN
  BY DEF TypeInv, KernelTypeOK
<1>4. Report(c) \in Event
  BY <1>3 DEF Report, Event
<1>5. shut[c] => Report(c) = [conn |-> c, hup |-> TRUE]
  <2> SUFFICES ASSUME shut[c] PROVE Report(c) = [conn |-> c, hup |-> TRUE]
    OBVIOUS
  <2>1. shut[c] = TRUE
    BY <1>3
  <2> QED
    BY <2>1 DEF Report
<1> QED
  BY <1>1, <1>2, <1>4, <1>5

\* An event of a connection is reported if it is due, and nothing else.
LEMMA ReadyIs ==
  ASSUME TypeInv, NEW s \in Servers
  PROVE  /\ Ready(s) \in SUBSET Event
         /\ \A e \in Ready(s) :
              \/ e = Accepting /\ ledge[s]
              \/ \E c \in Clients : e = Report(c) /\ reg[c] = s
         /\ \A c \in Clients :
              reg[c] = s /\ edge[c] /\ (shut[c] \/ inbox[c] # <<>>) => Report(c) \in Ready(s)
         /\ ledge[s] => Accepting \in Ready(s)
<1> DEFINE Due == {c \in Clients : reg[c] = s /\ edge[c] /\ (shut[c] \/ inbox[c] # <<>>)}
           Reports == {Report(c) : c \in Due}
           Listening == IF ledge[s] THEN {Accepting} ELSE {}
<1>1. Ready(s) = Reports \union Listening
  BY DEF Ready, Report
<1>2. \A e \in Reports : \E c \in Clients : e = Report(c) /\ reg[c] = s
  OBVIOUS
<1>3. \A e \in Listening : e = Accepting /\ ledge[s]
  OBVIOUS
<1>4. \A e \in Reports : e \in Event
  BY ReportIs
<1>5. Accepting \in Event
  BY DEF Accepting, Event
<1>6. \A c \in Clients :
        reg[c] = s /\ edge[c] /\ (shut[c] \/ inbox[c] # <<>>) => Report(c) \in Reports
  OBVIOUS
<1>7. ledge[s] => Accepting \in Listening
  OBVIOUS
<1> HIDE DEF Reports, Listening
<1> QED
  BY <1>1, <1>2, <1>3, <1>4, <1>5, <1>6, <1>7
-----------------------------------------------------------------------------
(***************************************************************************)
(* What the longer actions do, in the terms the invariant is stated in.    *)
(***************************************************************************)

\* accept4 has nobody to accept, or no descriptor.
Refuses(s) ==
  /\ pc' = [pc EXCEPT ![s] = "events"]
  /\ refused' = [refused EXCEPT ![s] = @ \/ queue[s] # <<>>]
  /\ UNCHANGED <<queue, sock, fdt, conn, cur>>

\* accept4 gives descriptor f to the first in the queue.
Takes(s, f) ==
  /\ queue[s] # <<>>
  /\ queue' = [queue EXCEPT ![s] = Tail(@)]
  /\ sock' = [sock EXCEPT ![Head(queue[s])] = "open"]
  /\ fdt' = [fdt EXCEPT ![f] = Head(queue[s])]
  /\ conn' = [conn EXCEPT ![Head(queue[s])] = NewConnection(f)]
  /\ cur' = [cur EXCEPT ![s] = Head(queue[s])]
  /\ pc' = [pc EXCEPT ![s] = "register"]
  /\ UNCHANGED refused

\* What accept4 leaves alone.
AcceptRest == UNCHANGED <<net, inbox, reg, edge, ledge, answered, batch, buf, full, undefined>>

\* accept4 fails, or gives a free descriptor to the first in the queue.
LEMMA AcceptCases ==
  ASSUME TypeInv, NEW s \in Servers, accept4(s)
  PROVE  /\ ~ undefined /\ pc[s] = "accept" /\ AcceptRest
         /\ Refuses(s) \/ \E f \in Fds : fdt[f] = None /\ Takes(s, f)
<1> DEFINE free == {f \in Fds : fdt[f] = None}
<1>1. ~ undefined /\ pc[s] = "accept" /\ AcceptRest
  BY DEF accept4, AcceptRest
<1>2. CASE queue[s] = <<>> \/ free = {}
  <2>1. Refuses(s)
    BY <1>2, Zenon DEF accept4, Refuses
  <2> QED
    BY <1>1, <2>1
<1>3. CASE ~ (queue[s] = <<>> \/ free = {})
  <2>1. Takes(s, Min(free))
    BY <1>3 DEF accept4, Takes
  <2>2. free \in SUBSET Nat
    BY ServerConstants
  <2>3. Min(free) \in free
    BY <1>3, <2>2, MinInSet
  <2> QED
    BY <1>1, <2>1, <2>3
<1> QED
  BY <1>1, <1>2, <1>3

\* A server that is not in the accept loop or between events is at a connection.
LEMMA AtConnection ==
  ASSUME TypeInv, NEW s \in Servers, pc[s] \notin {"events", "accept"}
  PROVE  /\ cur[s] \in Clients /\ cur[s] # None /\ conn[cur[s]] \in Connection
         /\ conn[cur[s]].fd \in Fds /\ sock[cur[s]] \in {"open", "gone"}
<1>1. cur[s] \in Clients \union {None} /\ cur[s] # None
  BY DEF TypeInv, LoopTypeOK
<1>2. cur[s] \in Clients /\ sock[cur[s]] \in {"open", "gone"}
  BY <1>1 DEF TypeInv, LoopTypeOK
<1>3. conn[cur[s]] \in Connection
  BY <1>2 DEF TypeInv, KernelTypeOK
<1> QED
  BY <1>1, <1>2, <1>3 DEF Connection

\* EBADF, EAGAIN or the end of the stream.
ReadsNothing(s) ==
  /\ Behind(cur[s]) = None \/ inbox[cur[s]] = <<>>
  /\ pc' = [pc EXCEPT ![s] = "events"] /\ cur' = [cur EXCEPT ![s] = None]
  /\ UNCHANGED <<inbox, buf, full>>

\* n requests go from the socket to the buffer.
Reads(s, n) ==
  /\ Behind(cur[s]) = cur[s]
  /\ n \in 1 .. Len(inbox[cur[s]]) /\ n <= ReadBufSize
  /\ n # ReadBufSize => n = Len(inbox[cur[s]])
  /\ buf' = [buf EXCEPT ![s] = SubSeq(inbox[cur[s]], 1, n)]
  /\ full' = [full EXCEPT ![s] = n = ReadBufSize]
  /\ inbox' = [inbox EXCEPT ![cur[s]] = SubSeq(@, n + 1, Len(@))]
  /\ pc' = [pc EXCEPT ![s] = "answer"] /\ cur' = cur

\* read gets nothing, or as much as there is and fits.
LEMMA ReadCases ==
  ASSUME TypeInv, NEW s \in Servers, read(s)
  PROVE  /\ ~ undefined /\ pc[s] = "read" /\ ~ conn[cur[s]].deleted
         /\ UNCHANGED <<net, kernel, hist, conn, batch, undefined>>
         /\ ReadsNothing(s) \/ \E n \in Nat : Reads(s, n)
<1> DEFINE c == cur[s]
           k == Len(inbox[c])
           n == Min({ReadBufSize, k})
<1>1. /\ ~ undefined /\ pc[s] = "read" /\ ~ conn[cur[s]].deleted
      /\ UNCHANGED <<net, kernel, hist, conn, batch, undefined>>
      /\ Behind(c) \in {None, c}
  BY DEF read
<1>2. c \in Clients
  BY <1>1, AtConnection
<1>3. inbox[c] \in Seq(Requests)
  BY <1>2 DEF TypeInv, KernelTypeOK
<1>4. k \in Nat /\ ReadBufSize \in Nat /\ ReadBufSize > 0
  BY <1>3, ServerConstants
<1>5. n \in {ReadBufSize, k} /\ n <= ReadBufSize /\ n <= k
  <2>1. {ReadBufSize, k} \in SUBSET Nat
    BY <1>4
  <2> HIDE DEF k
  <2> QED
    BY <2>1, MinInSet
<1>6. CASE Behind(c) = None \/ n = 0
  <2>1. pc' = [pc EXCEPT ![s] = "events"] /\ cur' = [cur EXCEPT ![s] = None]
        /\ UNCHANGED <<inbox, buf, full>>
    BY <1>6 DEF read
  <2>2. n = 0 => inbox[c] = <<>>
    <3>1. n = 0 => k = 0
      BY <1>4, <1>5
    <3> QED
      BY <1>3, <3>1, SeqParts
  <2> QED
    BY <1>1, <1>6, <2>1, <2>2 DEF ReadsNothing
<1>7. CASE ~ (Behind(c) = None \/ n = 0)
  <2>1. /\ buf' = [buf EXCEPT ![s] = SubSeq(inbox[c], 1, n)]
        /\ full' = [full EXCEPT ![s] = n = ReadBufSize]
        /\ inbox' = [inbox EXCEPT ![c] = SubSeq(@, n + 1, Len(@))]
        /\ pc' = [pc EXCEPT ![s] = "answer"] /\ cur' = cur
    BY <1>7 DEF read
  <2>2. n \in 1 .. k /\ n <= ReadBufSize /\ (n # ReadBufSize => n = k) /\ n \in Nat
    <3> HIDE DEF n, k
    <3> QED
      BY <1>4, <1>5, <1>7
  <2>3. Reads(s, n)
    <3> HIDE DEF n
    <3> QED
      BY <1>1, <1>7, <2>1, <2>2 DEF Reads
  <2> QED
    BY <1>1, <2>2, <2>3
<1> QED
  BY <1>6, <1>7

\* A sequence that is cut in two.
LEMMA SubSeqParts ==
  ASSUME NEW S, NEW q \in Seq(S), NEW n \in Nat, n \in 1 .. Len(q)
  PROVE  /\ SubSeq(q, 1, n) \in Seq(S) /\ Len(SubSeq(q, 1, n)) = n /\ SubSeq(q, 1, n) # <<>>
         /\ \A i \in 1 .. n : SubSeq(q, 1, n)[i] = q[i]
         /\ SubSeq(q, n + 1, Len(q)) \in Seq(S) /\ Len(SubSeq(q, n + 1, Len(q))) = Len(q) - n
         /\ SubSeq(q, n + 1, Len(q)) # <<>> <=> n # Len(q)
         /\ \A i \in 1 .. Len(q) - n : SubSeq(q, n + 1, Len(q))[i] = q[n + i]
<1>1. Len(q) \in Nat
  OBVIOUS
<1>2. /\ SubSeq(q, 1, n) \in Seq(S) /\ Len(SubSeq(q, 1, n)) = n
      /\ \A i \in 1 .. n : SubSeq(q, 1, n)[i] = q[i]
  BY <1>1
<1>3. /\ SubSeq(q, n + 1, Len(q)) \in Seq(S)
      /\ Len(SubSeq(q, n + 1, Len(q))) = Len(q) - n
      /\ \A i \in 1 .. Len(q) - n : SubSeq(q, n + 1, Len(q))[i] = q[n + i]
  BY <1>1
<1>4. SubSeq(q, 1, n) # <<>>
  BY <1>1, <1>2, EmptySeq
<1>5. SubSeq(q, n + 1, Len(q)) # <<>> <=> n # Len(q)
  <2> DEFINE rest == SubSeq(q, n + 1, Len(q))
  <2>1. rest \in Seq(S) /\ Len(rest) = Len(q) - n
    BY <1>3
  <2> HIDE DEF rest
  <2>2. rest # <<>> <=> Len(rest) # 0
    BY <2>1, EmptySeq
  <2>3. rest # <<>> <=> n # Len(q)
    BY <1>1, <2>1, <2>2
  <2> QED
    BY <2>3 DEF rest
<1> QED
  BY <1>2, <1>3, <1>4, <1>5

\* What hangup, an answer and a close do to the socket of their connection:
\* they close it, or nothing.
Sockets(s) ==
  \/ Behind(cur[s]) = cur[s] /\ CloseSocket(cur[s])
  \/ UNCHANGED <<kernel, inbox>>

\* Once its Connection says closed_ or is deleted, the descriptor is closed.
Connections(s) ==
  /\ conn' \in [Clients -> Connection \union {None}]
  /\ conn'[cur[s]] \in Connection /\ conn'[cur[s]].fd = conn[cur[s]].fd
  /\ \A d \in Clients : d # cur[s] => conn'[d] = conn[d]
  /\ conn' = conn \/ fdt'[conn[cur[s]].fd] # cur[s]

\* Where the server goes on.
Loop(s) ==
  /\ batch' = batch
  /\ \A t \in Servers : t # s =>
       /\ pc'[t] = pc[t] /\ cur'[t] = cur[t] /\ buf'[t] = buf[t] /\ full'[t] = full[t]
  /\ \/ pc'[s] = "events" /\ cur'[s] = None /\ buf'[s] = <<>> /\ (pc[s] = "hangup" \/ ~ full[s])
     \/ pc'[s] = "read" /\ cur'[s] = cur[s] /\ buf'[s] = <<>> /\ full[s] /\ pc[s] # "hangup"
     \/ /\ pc'[s] = "answer" /\ cur'[s] = cur[s] /\ full'[s] = full[s] /\ pc[s] # "hangup"
        /\ buf'[s] = Tail(buf[s]) /\ Tail(buf[s]) # <<>>
     \/ /\ pc'[s] \in {"close", "again"} /\ cur'[s] = cur[s] /\ full'[s] = full[s]
        /\ buf'[s] = buf[s] /\ pc[s] \notin {"hangup", "again"}

\* The types of the server loop, without what ties them together.
LoopFunctions ==
  /\ pc \in [Servers -> {"events", "accept", "register", "hangup", "read",
                         "answer", "close", "again"}]
  /\ batch \in [Servers -> SUBSET Event]
  /\ cur \in [Servers -> Clients \union {None}]
  /\ buf \in [Servers -> Seq(Requests)] /\ full \in [Servers -> BOOLEAN]

\* The loop after a request.
LEMMA HandledLoop ==
  ASSUME TypeInv, NEW s \in Servers, pc[s] \in {"answer", "close", "again"}, Handled(s)
  PROVE  /\ Loop(s)
         /\ LoopFunctions'
<1>0. /\ pc \in [Servers -> {"events", "accept", "register", "hangup", "read",
                             "answer", "close", "again"}]
      /\ cur \in [Servers -> Clients \union {None}] /\ cur[s] \in Clients \union {None}
      /\ buf \in [Servers -> Seq(Requests)] /\ full \in [Servers -> BOOLEAN]
      /\ buf[s] \in Seq(Requests) /\ buf[s] # <<>> /\ full[s] \in BOOLEAN
      /\ batch \in [Servers -> SUBSET Event]
  BY DEF TypeInv, LoopTypeOK
<1>1. CASE LastOfBuffer(s) /\ full[s]
  <2>1. /\ pc' = [pc EXCEPT ![s] = "read"] /\ buf' = [buf EXCEPT ![s] = <<>>]
        /\ full' = [full EXCEPT ![s] = FALSE] /\ cur' = [cur EXCEPT ![s] = cur[s]]
        /\ batch' = batch
    BY <1>1 DEF Handled, AfterBuffer
  <2>2. <<>> \in Seq(Requests)
    OBVIOUS
  <2> QED
    BY <1>0, <1>1, <2>1, <2>2 DEF Loop, LoopFunctions
<1>2. CASE LastOfBuffer(s) /\ ~ full[s]
  <2>1. /\ pc' = [pc EXCEPT ![s] = "events"] /\ buf' = [buf EXCEPT ![s] = <<>>]
        /\ full' = [full EXCEPT ![s] = FALSE] /\ cur' = [cur EXCEPT ![s] = None]
        /\ batch' = batch
    BY <1>2 DEF Handled, AfterBuffer
  <2>2. <<>> \in Seq(Requests)
    OBVIOUS
  <2> QED
    BY <1>0, <1>2, <2>1, <2>2 DEF Loop, LoopFunctions
<1>3. CASE ~ LastOfBuffer(s)
  <2>1. /\ pc' = [pc EXCEPT ![s] = "answer"] /\ buf' = [buf EXCEPT ![s] = Tail(buf[s])]
        /\ full' = full /\ cur' = cur /\ batch' = batch
    BY <1>3 DEF Handled
  <2>2. Len(buf[s]) # 1
    BY <1>3 DEF LastOfBuffer
  <2>3. Tail(buf[s]) \in Seq(Requests) /\ Tail(buf[s]) # <<>>
    BY <1>0, <2>2, SeqParts
  <2> QED
    BY <1>0, <2>1, <2>3 DEF Loop, LoopFunctions
<1> QED
  BY <1>1, <1>2, <1>3

\* A Connection whose flags change keeps its descriptor.
LEMMA FlagsOnly ==
  ASSUME NEW k \in Connection, NEW b \in BOOLEAN
  PROVE  /\ [k EXCEPT !.deleted = b] \in Connection
         /\ [k EXCEPT !.deleted = b].fd = k.fd
         /\ [k EXCEPT !.closed = TRUE, !.deleted = b] \in Connection
         /\ [k EXCEPT !.closed = TRUE, !.deleted = b].fd = k.fd
BY DEF Connection

\* The flags of one Connection change, if its descriptor is closed.
LEMMA OneConnection ==
  ASSUME TypeInv, NEW s \in Servers, cur[s] \in Clients, conn[cur[s]] \in Connection,
         NEW k \in Connection, k.fd = conn[cur[s]].fd,
         conn' = [conn EXCEPT ![cur[s]] = k], fdt'[conn[cur[s]].fd] # cur[s]
  PROVE  Connections(s)
<1>1. conn \in [Clients -> Connection \union {None}]
  BY DEF TypeInv, KernelTypeOK
<1> QED
  BY <1>1 DEF Connections

\* close(fd) leaves the connection without a descriptor.
LEMMA CloseEffect ==
  ASSUME TypeInv, NEW s \in Servers, pc[s] \notin {"events", "accept"}, Close(cur[s])
  PROVE  Sockets(s) /\ fdt'[conn[cur[s]].fd] # cur[s]
<1>1. cur[s] \in Clients /\ cur[s] # None /\ conn[cur[s]].fd \in Fds
  BY AtConnection
<1>2. fdt \in [Fds -> Clients \union {None}]
  BY DEF TypeInv, KernelTypeOK
<1>3. CASE Behind(cur[s]) = cur[s]
  BY <1>1, <1>2, <1>3 DEF Close, Sockets, CloseSocket
<1>4. CASE Behind(cur[s]) # cur[s]
  BY <1>4 DEF Close, Sockets, Behind, kernel
<1> QED
  BY <1>3, <1>4

\* hangup, an answer or a close does no more than that.
LEMMA HandlerEffect ==
  ASSUME TypeInv, Owned, NEW s \in Servers, hangup(s) \/ answer(s) \/ close(s)
  PROVE  /\ Sockets(s) /\ Connections(s) /\ Loop(s) /\ LoopFunctions' /\ UNCHANGED net
         /\ ~ undefined /\ ~ undefined'
         /\ pc[s] \in {"hangup", "answer", "close", "again"}
         /\ refused' = refused
<1>0. pc[s] \in {"hangup", "answer", "close", "again"} /\ ~ undefined /\ ~ undefined'
  BY DEF hangup, answer, close
<1> DEFINE c == cur[s]
<1>1. c \in Clients /\ c # None /\ conn[c] \in Connection /\ conn[c].fd \in Fds
  BY <1>0, AtConnection
<1>2. LoopFunctions
  BY DEF TypeInv, LoopTypeOK, LoopFunctions
<1>3. conn \in [Clients -> Connection \union {None}] /\ fdt \in [Fds -> Clients \union {None}]
  BY DEF TypeInv, KernelTypeOK
<1>4. conn' = conn => Connections(s)
  BY <1>1, <1>3 DEF Connections
<1>5. CASE hangup(s)
  <2>1. pc[s] = "hangup" /\ buf[s] = <<>>
    BY <1>5 DEF hangup, TypeInv, LoopTypeOK
  <2>2. /\ pc' = [pc EXCEPT ![s] = "events"] /\ cur' = [cur EXCEPT ![s] = None]
        /\ UNCHANGED <<net, hist, batch, buf, full>>
    BY <1>5 DEF hangup
  <2>3. Loop(s) /\ LoopFunctions' /\ UNCHANGED net /\ refused' = refused
    BY <1>2, <2>1, <2>2 DEF Loop, LoopFunctions, net, hist
  <2>4. CASE Behind(c) = c
    <3>1. CloseSocket(c) /\ conn' = [conn EXCEPT ![c].deleted = TRUE]
      BY <1>5, <2>4 DEF hangup
    <3>2. fdt'[conn[c].fd] # c
      BY <1>1, <1>3, <3>1 DEF CloseSocket
    <3>3. conn' = [conn EXCEPT ![c] = [conn[c] EXCEPT !.deleted = TRUE]]
      BY <1>1, <1>3, <3>1
    <3>4. Connections(s)
      BY <1>1, <3>2, <3>3, FlagsOnly, OneConnection
    <3> QED
      BY <1>0, <2>3, <2>4, <3>1, <3>4 DEF Sockets
  <2>5. CASE Behind(c) # c
    <3>1. UNCHANGED <<kernel, inbox, conn>>
      BY <1>5, <2>5 DEF hangup
    <3> QED
      BY <1>0, <1>4, <2>3, <3>1 DEF Sockets
  <2> QED
    BY <2>4, <2>5
<1>6. CASE answer(s)
  <2> DEFINE r == Head(buf[s])
             deletes == r.kind = "get" /\ r.close
  <2>1. pc[s] = "answer"
    BY <1>6 DEF answer
  <2>2. UNCHANGED net /\ refused' = refused
    BY <1>6 DEF answer, net
  <2>3. Loop(s) /\ LoopFunctions'
    <3>1. CASE r.kind = "get"
      BY <1>6, <2>1, <3>1, HandledLoop DEF answer
    <3>2. CASE r.kind # "get"
      <4>1. pc' = [pc EXCEPT ![s] = "close"] /\ UNCHANGED <<batch, cur, buf, full>>
        BY <1>6, <3>2 DEF answer
      <4> QED
        BY <1>2, <2>1, <4>1 DEF Loop, LoopFunctions
    <3> QED
      BY <3>1, <3>2
  <2>4. CASE ~ deletes
    <3>1. UNCHANGED <<kernel, inbox, conn>>
      BY <1>6, <2>4 DEF answer
    <3> QED
      BY <1>0, <1>4, <2>2, <2>3, <3>1 DEF Sockets
  <2>5. CASE deletes
    <3>1. conn' = [conn EXCEPT ![c].deleted = TRUE]
      BY <1>6, <2>5 DEF answer
    <3>2. Sockets(s) /\ fdt'[conn[c].fd] # c
      <4>1. CASE conn[c].closed
        <5>1. UNCHANGED <<kernel, inbox>>
          BY <1>6, <2>5, <4>1 DEF answer
        <5>2. fdt[conn[c].fd] # c
          BY <1>1, <4>1 DEF Owned, Owns
        <5> QED
          BY <5>1, <5>2 DEF Sockets, kernel
      <4>2. CASE ~ conn[c].closed
        BY <1>6, <2>1, <2>5, <4>2, CloseEffect DEF answer
      <4> QED
        BY <4>1, <4>2
    <3>3. conn' = [conn EXCEPT ![c] = [conn[c] EXCEPT !.deleted = TRUE]]
      BY <1>1, <1>3, <3>1
    <3>4. Connections(s)
      BY <1>1, <3>2, <3>3, FlagsOnly, OneConnection
    <3> QED
      BY <1>0, <2>2, <2>3, <3>2, <3>4
  <2> QED
    BY <2>4, <2>5
<1>7. CASE close(s)
  <2> DEFINE r == Head(buf[s])
  <2>1. pc[s] \in {"close", "again"} /\ Close(c)
    BY <1>7 DEF close
  <2>2. UNCHANGED net /\ refused' = refused
    BY <1>7 DEF close, net, hist
  <2>3. Sockets(s) /\ fdt'[conn[c].fd] # c
    BY <2>1, CloseEffect
  <2>4. CASE ClosesTwice(r) /\ pc[s] = "close"
    <3>1. pc' = [pc EXCEPT ![s] = "again"] /\ UNCHANGED <<conn, batch, cur, buf, full>>
      BY <1>7, <2>4 DEF close
    <3>2. Loop(s) /\ LoopFunctions'
      BY <1>2, <2>4, <3>1 DEF Loop, LoopFunctions
    <3> QED
      BY <1>0, <1>4, <2>2, <2>3, <3>1, <3>2
  <2>5. CASE ~ (ClosesTwice(r) /\ pc[s] = "close")
    <3>1. /\ conn' = [conn EXCEPT ![c].closed = TRUE, ![c].deleted = r.close]
          /\ Handled(s)
      BY <1>7, <2>5 DEF close
    <3>2. Loop(s) /\ LoopFunctions'
      BY <2>1, <3>1, HandledLoop
    <3>3. r.close \in BOOLEAN
      <4>1. r \in Requests
        BY <2>1, SeqParts DEF TypeInv, LoopTypeOK
      <4> QED
        BY <4>1, ServerConstants DEF Request
    <3>4. conn' = [conn EXCEPT ![c] = [conn[c] EXCEPT !.closed = TRUE, !.deleted = r.close]]
      BY <1>1, <1>3, <3>1
    <3>5. Connections(s)
      <4> DEFINE k == [conn[c] EXCEPT !.closed = TRUE, !.deleted = r.close]
      <4>1. k \in Connection /\ k.fd = conn[c].fd
        BY <1>1, <3>3, FlagsOnly
      <4> HIDE DEF k
      <4> QED
        BY <1>1, <2>3, <3>4, <4>1, OneConnection DEF k
    <3> QED
      BY <1>0, <2>2, <2>3, <3>2, <3>5
  <2> QED
    BY <2>4, <2>5
<1> QED
  BY <1>5, <1>6, <1>7
-----------------------------------------------------------------------------
(***************************************************************************)
(* Types.                                                                  *)
(***************************************************************************)

\* What does not depend on what the clients send.
BaseInv ==
  /\ TypeInv /\ QueuedOnce /\ Owned /\ Registered /\ BatchFresh /\ OneServer

\* One handler of a server, whatever it does to its connection.
Handler(s) == hangup(s) \/ answer(s) \/ close(s)

\* The types of the kernel's part after a handler.
LEMMA SocketsTyped ==
  ASSUME TypeInv, Owned, NEW s \in Servers, Handler(s)
  PROVE  KernelTypeOK'
<1>1. Sockets(s) /\ Connections(s) /\ UNCHANGED net /\ refused' = refused
  BY HandlerEffect DEF Handler
<1>2. /\ cur[s] \in Clients /\ cur[s] # None /\ conn[cur[s]] \in Connection
      /\ conn[cur[s]].fd \in Fds /\ sock[cur[s]] \in {"open", "gone"}
  <2>1. pc[s] \in {"hangup", "answer", "close", "again"}
    BY HandlerEffect DEF Handler
  <2> QED
    BY <2>1, AtConnection
<1>3. KernelTypeOK
  BY DEF TypeInv
<1>4. conn' \in [Clients -> Connection \union {None}]
  BY <1>1 DEF Connections
<1>5. \A d \in Clients : d # cur[s] => conn'[d] = conn[d] /\ sock'[d] = sock[d]
  BY <1>1, <1>3 DEF Connections, Sockets, CloseSocket, kernel, KernelTypeOK
<1>6. conn'[cur[s]] \in Connection /\ sock'[cur[s]] \in {"open", "gone"}
  BY <1>1, <1>2, <1>3 DEF Connections, Sockets, CloseSocket, kernel, KernelTypeOK
<1>7. \A d \in Clients : IF sock'[d] \in {"none", "queued"} THEN conn'[d] = None
                         ELSE conn'[d] \in Connection
  BY <1>3, <1>5, <1>6 DEF KernelTypeOK
<1>8. CASE Behind(cur[s]) = cur[s] /\ CloseSocket(cur[s])
  <2>1. <<>> \in Seq(Requests)
    OBVIOUS
  <2> QED
    BY <1>1, <1>2, <1>3, <1>4, <1>7, <1>8, <2>1 DEF KernelTypeOK, CloseSocket, net
<1>9. CASE UNCHANGED <<kernel, inbox>>
  BY <1>1, <1>3, <1>4, <1>7, <1>9 DEF KernelTypeOK, kernel, net
<1> QED
  BY <1>1, <1>8, <1>9 DEF Sockets

\* Each step keeps the types of the kernel's part.
LEMMA KernelTyped ==
  ASSUME TypeInv, QueuedOnce, Owned, [Next]_vars
  PROVE  KernelTypeOK'
<1>0. KernelTypeOK
  BY DEF TypeInv
<1>1. ASSUME NEW c \in Clients, NEW s \in Servers, Connect(c, s)
      PROVE  KernelTypeOK'
  <2>1. queue' \in [Servers -> Seq(Clients)]
    BY <1>0, <1>1 DEF KernelTypeOK, Connect
  <2>2. sock' \in [Clients -> {"none", "queued", "open", "gone"}] /\ sock'[c] = "queued"
    BY <1>0, <1>1 DEF KernelTypeOK, Connect
  <2>3. \A d \in Clients : IF sock'[d] \in {"none", "queued"} THEN conn[d] = None
                           ELSE conn[d] \in Connection
    BY <1>0, <1>1, <2>2 DEF KernelTypeOK, Connect
  <2> QED
    BY <1>0, <1>1, <2>1, <2>2, <2>3 DEF KernelTypeOK, Connect, net, hist
<1>2. ASSUME NEW c \in Clients, NEW r \in Requests, Send(c, r)
      PROVE  KernelTypeOK'
  <2>1. /\ sent' = [sent EXCEPT ![c] = Append(@, r)] /\ inbox' = [inbox EXCEPT ![c] = Append(@, r)]
        /\ edge' = [edge EXCEPT ![c] = reg[c] # None]
        /\ UNCHANGED <<shut, sock, queue, fdt, reg, ledge, refused, conn>>
    BY <1>2 DEF Send, hist
  <2>2. sent' \in [Clients -> Seq(Requests)] /\ inbox' \in [Clients -> Seq(Requests)]
    BY <1>0, <2>1 DEF KernelTypeOK
  <2> QED
    BY <1>0, <2>1, <2>2 DEF KernelTypeOK
<1>3. ASSUME NEW c \in Clients, Shutdown(c)
      PROVE  KernelTypeOK'
  BY <1>0, <1>3 DEF KernelTypeOK, Shutdown, hist
<1>4. ASSUME NEW s \in Servers, epoll_wait(s)
      PROVE  KernelTypeOK'
  BY <1>0, <1>4 DEF KernelTypeOK, epoll_wait, net, hist
<1>5. ASSUME NEW s \in Servers, nextEvent(s)
      PROVE  KernelTypeOK'
  BY <1>0, <1>5 DEF KernelTypeOK, nextEvent, net, kernel, hist
<1>6. ASSUME NEW s \in Servers, accept4(s)
      PROVE  KernelTypeOK'
  <2>1. AcceptRest
    BY <1>6, AcceptCases
  <2>2. CASE Refuses(s)
    BY <1>0, <2>1, <2>2 DEF KernelTypeOK, AcceptRest, Refuses, net
  <2>3. ASSUME NEW f \in Fds, fdt[f] = None, Takes(s, f)
        PROVE  KernelTypeOK'
    <3>1. /\ Head(queue[s]) \in Clients /\ Tail(queue[s]) \in Seq(Clients)
          /\ NewConnection(f) \in Connection
      BY <1>0, <2>3, SeqParts, NewConnectionIs DEF KernelTypeOK, Takes
    <3>2. /\ sock' \in [Clients -> {"none", "queued", "open", "gone"}]
          /\ conn' \in [Clients -> Connection \union {None}]
          /\ queue' \in [Servers -> Seq(Clients)]
          /\ fdt' \in [Fds -> Clients \union {None}]
      BY <1>0, <2>3, <3>1 DEF KernelTypeOK, Takes
    <3>3. \A d \in Clients : IF sock'[d] \in {"none", "queued"} THEN conn'[d] = None
                             ELSE conn'[d] \in Connection
      BY <1>0, <2>3, <3>1 DEF KernelTypeOK, Takes
    <3> QED
      BY <1>0, <2>1, <2>3, <3>2, <3>3 DEF KernelTypeOK, AcceptRest, Takes, net
  <2> QED
    BY <1>6, <2>2, <2>3, AcceptCases
<1>7. ASSUME NEW s \in Servers, register(s)
      PROVE  KernelTypeOK'
  BY <1>0, <1>7 DEF KernelTypeOK, register, net, hist
<1>8. ASSUME NEW s \in Servers, Handler(s)
      PROVE  KernelTypeOK'
  BY <1>8, SocketsTyped
<1>9. ASSUME NEW s \in Servers, read(s)
      PROVE  KernelTypeOK'
  <2>1. UNCHANGED <<net, kernel, hist, conn>>
    BY <1>9 DEF read
  <2>2. inbox' \in [Clients -> Seq(Requests)]
    <3>1. inbox \in [Clients -> Seq(Requests)] /\ cur[s] \in Clients
      BY <1>0, <1>9, AtConnection DEF KernelTypeOK, read
    <3>2. CASE ReadsNothing(s)
      BY <3>1, <3>2 DEF ReadsNothing
    <3>3. ASSUME NEW n \in Nat, Reads(s, n)
          PROVE  inbox' \in [Clients -> Seq(Requests)]
      <4>1. SubSeq(inbox[cur[s]], n + 1, Len(inbox[cur[s]])) \in Seq(Requests)
        BY <3>1, <3>3, SubSeqParts DEF Reads
      <4> QED
        BY <3>1, <3>3, <4>1 DEF Reads
    <3> QED
      BY <1>9, <3>2, <3>3, ReadCases
  <2> QED
    BY <1>0, <2>1, <2>2 DEF KernelTypeOK, net, kernel, hist
<1>10. ASSUME NEW s \in Servers, misuse(s)
       PROVE  KernelTypeOK'
  BY <1>0, <1>10 DEF KernelTypeOK, misuse, net, kernel, hist
<1>11. CASE UNCHANGED vars
  BY <1>0, <1>11 DEF KernelTypeOK, vars, net, kernel, hist
<1> QED
  BY <1>1, <1>2, <1>3, <1>4, <1>5, <1>6, <1>7, <1>8, <1>9, <1>10, <1>11
     DEF Next, Client, Server, Handler
\* The loop after what changes nothing of it.
LEMMA LoopUnchanged ==
  ASSUME LoopTypeOK, UNCHANGED <<loop, sock, undefined>>
  PROVE  LoopTypeOK'
BY DEF LoopTypeOK, loop

\* The loop after an action of server s, which leaves it in order at s.
LEMMA LoopKept ==
  ASSUME LoopTypeOK, LoopFunctions', undefined' \in BOOLEAN, NEW s \in Servers,
         \A t \in Servers : t # s => pc'[t] = pc[t] /\ cur'[t] = cur[t] /\ buf'[t] = buf[t],
         \A d \in Clients : sock[d] \in {"open", "gone"} => sock'[d] \in {"open", "gone"},
         cur'[s] = None <=> pc'[s] \in {"events", "accept"},
         cur'[s] # None => sock'[cur'[s]] \in {"open", "gone"},
         buf'[s] # <<>> <=> pc'[s] \in {"answer", "close", "again"}
  PROVE  LoopTypeOK'
<1>1. ASSUME NEW t \in Servers, t # s
      PROVE  /\ cur'[t] = None <=> pc'[t] \in {"events", "accept"}
             /\ cur'[t] # None => sock'[cur'[t]] \in {"open", "gone"}
             /\ buf'[t] # <<>> <=> pc'[t] \in {"answer", "close", "again"}
  <2>1. cur[t] \in Clients \union {None}
    BY DEF LoopTypeOK
  <2> QED
    BY <1>1, <2>1 DEF LoopTypeOK
<1> QED
  BY <1>1 DEF LoopTypeOK, LoopFunctions

\* Each step keeps the types of the server loops.
LEMMA LoopTyped ==
  ASSUME TypeInv, QueuedOnce, Owned, BatchFresh, [Next]_vars
  PROVE  LoopTypeOK'
<1>0. LoopTypeOK /\ KernelTypeOK
  BY DEF TypeInv
<1>1. LoopFunctions
  BY <1>0 DEF LoopTypeOK, LoopFunctions
<1>2. ASSUME NEW c \in Clients, NEW s \in Servers, Connect(c, s)
      PROVE  LoopTypeOK'
  <2>1. \A d \in Clients : sock[d] \in {"open", "gone"} => sock'[d] = sock[d]
    BY <1>0, <1>2 DEF Connect, KernelTypeOK
  <2> QED
    BY <1>0, <1>2, <2>1 DEF Connect, loop, LoopTypeOK
<1>3. ASSUME NEW c \in Clients, NEW r \in Requests, Send(c, r)
      PROVE  LoopTypeOK'
  BY <1>0, <1>3, LoopUnchanged DEF Send
<1>4. ASSUME NEW c \in Clients, Shutdown(c)
      PROVE  LoopTypeOK'
  BY <1>0, <1>4, LoopUnchanged DEF Shutdown
<1>5. ASSUME NEW s \in Servers, epoll_wait(s)
      PROVE  LoopTypeOK'
  <2>1. batch' \in [Servers -> SUBSET Event]
    BY <1>1, <1>5, ReadyIs DEF LoopFunctions, epoll_wait
  <2> QED
    BY <1>0, <1>5, <2>1 DEF epoll_wait, LoopTypeOK
<1>6. ASSUME NEW s \in Servers, nextEvent(s)
      PROVE  LoopTypeOK'
  <2>1. UNCHANGED <<sock, buf, full, undefined>> /\ pc[s] = "events"
    BY <1>6 DEF nextEvent, kernel
  <2>2. PICK e \in batch[s] :
          /\ batch' = [batch EXCEPT ![s] = @ \ {e}]
          /\ cur' = [cur EXCEPT ![s] = e.conn]
          /\ pc' = [pc EXCEPT ![s] = IF e.conn = None THEN "accept"
                                     ELSE IF e.hup THEN "hangup" ELSE "read"]
    BY <1>6 DEF nextEvent
  <2>3. e.conn \in Clients \union {None}
    BY <1>1 DEF LoopFunctions, Event
  <2>4. LoopFunctions'
    BY <1>1, <2>1, <2>2, <2>3 DEF LoopFunctions
  <2>5. e.conn # None => sock[e.conn] \in {"open", "gone"}
    BY DEF BatchFresh, Holds
  <2>6. buf[s] = <<>>
    BY <1>0, <2>1 DEF LoopTypeOK
  <2>7. /\ cur'[s] = None <=> pc'[s] \in {"events", "accept"}
        /\ cur'[s] # None => sock'[cur'[s]] \in {"open", "gone"}
        /\ buf'[s] # <<>> <=> pc'[s] \in {"answer", "close", "again"}
    BY <1>1, <2>1, <2>2, <2>3, <2>5, <2>6 DEF LoopFunctions
  <2>8. \A t \in Servers : t # s => pc'[t] = pc[t] /\ cur'[t] = cur[t] /\ buf'[t] = buf[t]
    BY <1>1, <2>1, <2>2 DEF LoopFunctions
  <2>9. undefined' \in BOOLEAN /\ \A d \in Clients : sock'[d] = sock[d]
    BY <1>0, <2>1 DEF LoopTypeOK
  <2> QED
    BY <1>0, <2>4, <2>7, <2>8, <2>9, LoopKept
<1>7. ASSUME NEW s \in Servers, accept4(s)
      PROVE  LoopTypeOK'
  <2>1. UNCHANGED <<batch, buf, full, undefined>> /\ pc[s] = "accept"
    BY <1>7, AcceptCases DEF AcceptRest
  <2>2. cur[s] = None /\ buf[s] = <<>>
    BY <1>0, <2>1 DEF LoopTypeOK
  <2>3. CASE Refuses(s)
    BY <1>0, <2>1, <2>2, <2>3 DEF Refuses, LoopTypeOK
  <2>4. ASSUME NEW f \in Fds, Takes(s, f)
        PROVE  LoopTypeOK'
    <3>1. Head(queue[s]) \in Clients /\ Head(queue[s]) # None
      BY <1>0, <2>4, SeqParts, ServerConstants DEF KernelTypeOK, Takes
    <3>2. LoopFunctions' /\ undefined' \in BOOLEAN
      BY <1>0, <1>1, <2>1, <2>4, <3>1 DEF Takes, LoopFunctions, LoopTypeOK
    <3>3. cur'[s] = Head(queue[s]) /\ pc'[s] = "register" /\ sock'[Head(queue[s])] = "open"
      BY <1>0, <1>1, <2>4, <3>1 DEF Takes, LoopFunctions, KernelTypeOK
    <3>4. \A d \in Clients : sock[d] \in {"open", "gone"} => sock'[d] \in {"open", "gone"}
      BY <1>0, <2>4 DEF Takes, KernelTypeOK
    <3>5. \A t \in Servers : t # s => pc'[t] = pc[t] /\ cur'[t] = cur[t] /\ buf'[t] = buf[t]
      BY <1>1, <2>1, <2>4 DEF Takes, LoopFunctions
    <3>6. buf'[s] = <<>>
      BY <2>1, <2>2
    <3> QED
      BY <1>0, <3>1, <3>2, <3>3, <3>4, <3>5, <3>6, LoopKept
  <2> QED
    BY <1>7, <2>3, <2>4, AcceptCases
<1>8. ASSUME NEW s \in Servers, register(s)
      PROVE  LoopTypeOK'
  <2>1. /\ pc' = [pc EXCEPT ![s] = "accept"] /\ cur' = [cur EXCEPT ![s] = None]
        /\ UNCHANGED <<sock, batch, buf, full, undefined>> /\ pc[s] = "register"
    BY <1>8 DEF register, AfterRegister
  <2> QED
    BY <1>0, <2>1 DEF LoopTypeOK
<1>9. ASSUME NEW s \in Servers, Handler(s)
      PROVE  LoopTypeOK'
  <2>1. /\ Sockets(s) /\ Loop(s) /\ LoopFunctions' /\ ~ undefined'
        /\ pc[s] \in {"hangup", "answer", "close", "again"}
    BY <1>9, HandlerEffect DEF Handler
  <2>2. /\ cur[s] \in Clients /\ cur[s] # None /\ sock[cur[s]] \in {"open", "gone"}
    BY <2>1, AtConnection
  <2>3. \A d \in Clients : sock[d] \in {"open", "gone"} => sock'[d] \in {"open", "gone"}
    BY <1>0, <2>1 DEF Sockets, CloseSocket, kernel, KernelTypeOK
  <2>4. pc[s] # "hangup" => buf[s] # <<>>
    BY <1>0, <2>1 DEF LoopTypeOK
  <2>5. /\ cur'[s] = None <=> pc'[s] \in {"events", "accept"}
        /\ cur'[s] # None => sock'[cur'[s]] \in {"open", "gone"}
        /\ buf'[s] # <<>> <=> pc'[s] \in {"answer", "close", "again"}
    BY <2>1, <2>2, <2>3, <2>4 DEF Loop
  <2>6. \A t \in Servers : t # s => pc'[t] = pc[t] /\ cur'[t] = cur[t] /\ buf'[t] = buf[t]
    BY <2>1 DEF Loop
  <2>7. undefined' \in BOOLEAN
    BY <1>9 DEF Handler, hangup, answer, close, TypeInv, LoopTypeOK
  <2> QED
    BY <1>0, <2>1, <2>3, <2>5, <2>6, <2>7, LoopKept
<1>10. ASSUME NEW s \in Servers, read(s)
       PROVE  LoopTypeOK'
  <2>1. pc[s] = "read" /\ UNCHANGED <<sock, batch, undefined>>
    BY <1>10, ReadCases DEF kernel
  <2>2. cur[s] \in Clients /\ cur[s] # None
    BY <2>1, AtConnection
  <2>3. CASE ReadsNothing(s)
    BY <1>0, <2>1, <2>3 DEF ReadsNothing, LoopTypeOK
  <2>4. ASSUME NEW n \in Nat, Reads(s, n)
        PROVE  LoopTypeOK'
    <3>1. inbox[cur[s]] \in Seq(Requests)
      BY <1>0, <2>2 DEF KernelTypeOK
    <3>2. /\ SubSeq(inbox[cur[s]], 1, n) \in Seq(Requests)
          /\ SubSeq(inbox[cur[s]], 1, n) # <<>>
      BY <2>4, <3>1, SubSeqParts DEF Reads
    <3>3. (n = ReadBufSize) \in BOOLEAN
      OBVIOUS
    <3>4. LoopFunctions'
      BY <1>1, <2>1, <2>4, <3>2, <3>3 DEF Reads, LoopFunctions
    <3>5. buf'[s] # <<>> /\ pc'[s] = "answer" /\ cur' = cur
      BY <1>1, <2>4, <3>2 DEF Reads, LoopFunctions
    <3>6. \A t \in Servers : t # s => pc'[t] = pc[t] /\ cur'[t] = cur[t] /\ buf'[t] = buf[t]
      BY <1>1, <2>4 DEF Reads, LoopFunctions
    <3>7. sock[cur[s]] \in {"open", "gone"}
      BY <2>1, AtConnection
    <3>8. undefined' \in BOOLEAN
      BY <1>0, <2>1 DEF LoopTypeOK
    <3> QED
      BY <1>0, <2>1, <2>2, <3>4, <3>5, <3>6, <3>7, <3>8, LoopKept
  <2> QED
    BY <1>10, <2>3, <2>4, ReadCases
<1>11. ASSUME NEW s \in Servers, misuse(s)
       PROVE  LoopTypeOK'
  BY <1>0, <1>11 DEF misuse, loop, kernel, LoopTypeOK
<1>12. CASE UNCHANGED vars
  BY <1>0, <1>12, LoopUnchanged DEF vars, kernel
<1> QED
  BY <1>2, <1>3, <1>4, <1>5, <1>6, <1>7, <1>8, <1>9, <1>10, <1>11, <1>12
     DEF Next, Client, Server, Handler
-----------------------------------------------------------------------------
(***************************************************************************)
(* Queues and descriptors.                                                 *)
(***************************************************************************)

\* Nothing happens to the queues, nor to a socket in one.
LEMMA QueuedKept ==
  ASSUME QueuedOnce, queue' = queue,
         \A d \in Clients : sock[d] = "queued" => sock'[d] = "queued",
         KernelTypeOK
  PROVE  QueuedOnce'
<1>1. \A s \in Servers : \A i \in 1 .. Len(queue[s]) : queue[s][i] \in Clients
  BY DEF KernelTypeOK
<1> QED
  BY <1>1 DEF QueuedOnce

\* The first of a queue is in no other place.
LEMMA HeadQueued ==
  ASSUME TypeInv, QueuedOnce, NEW s \in Servers, queue[s] # <<>>
  PROVE  Head(queue[s]) \in Clients /\ Head(queue[s]) # None /\ sock[Head(queue[s])] = "queued"
<1>1. queue[s] \in Seq(Clients)
  BY DEF TypeInv, KernelTypeOK
<1>2. 1 \in 1 .. Len(queue[s]) /\ Head(queue[s]) = queue[s][1] /\ Head(queue[s]) \in Clients
  BY <1>1, SeqParts
<1> QED
  BY <1>2, ServerConstants DEF QueuedOnce

\* QueuedOnce, of one position.
LEMMA QueuedAt ==
  ASSUME QueuedOnce, NEW s \in Servers, NEW t \in Servers,
         NEW i \in 1 .. Len(queue[s]), NEW j \in 1 .. Len(queue[t]), queue[s][i] = queue[t][j]
  PROVE  s = t /\ i = j
BY DEF QueuedOnce

\* Connect appends a connection that is in no queue, accept4 takes one out.
LEMMA QueuedOnceStep ==
  ASSUME TypeInv, QueuedOnce, Owned, [Next]_vars
  PROVE  QueuedOnce'
<1>0. KernelTypeOK
  BY DEF TypeInv
<1>1. ASSUME NEW c \in Clients, NEW s \in Servers, Connect(c, s)
      PROVE  QueuedOnce'
  <2>1. sock[c] = "none" /\ sock' = [sock EXCEPT ![c] = "queued"]
        /\ queue' = [queue EXCEPT ![s] = Append(queue[s], c)]
    BY <1>1 DEF Connect
  <2>2. \A t \in Servers : queue[t] \in Seq(Clients) /\ Len(queue[t]) \in Nat
    BY <1>0 DEF KernelTypeOK
  <2>3. \A t \in Servers : \A i \in 1 .. Len(queue[t]) : queue[t][i] \in Clients /\ queue[t][i] # c
    BY <2>1, <2>2 DEF QueuedOnce
  <2>4. \A t \in Servers : t # s => queue'[t] = queue[t]
    BY <1>0, <2>1 DEF KernelTypeOK
  <2>5. /\ Len(queue'[s]) = Len(queue[s]) + 1 /\ queue'[s][Len(queue[s]) + 1] = c
        /\ \A i \in 1 .. Len(queue[s]) : queue'[s][i] = queue[s][i]
    <3>1. queue'[s] = Append(queue[s], c) /\ queue[s] \in Seq(Clients)
      BY <1>0, <2>1 DEF KernelTypeOK
    <3> QED
      BY <3>1
  <2>6. \A t \in Servers : \A i \in 1 .. Len(queue'[t]) :
          \/ i \in 1 .. Len(queue[t]) /\ queue'[t][i] = queue[t][i]
          \/ t = s /\ i = Len(queue[s]) + 1 /\ queue'[t][i] = c
    BY <2>2, <2>4, <2>5
  <2>7. sock'[c] = "queued" /\ \A d \in Clients : d # c => sock'[d] = sock[d]
    BY <1>0, <2>1 DEF KernelTypeOK
  <2>8. \A t \in Servers : \A i \in 1 .. Len(queue'[t]) : sock'[queue'[t][i]] = "queued"
    BY <2>3, <2>6, <2>7 DEF QueuedOnce
  <2>9. \A t, u \in Servers : \A i \in 1 .. Len(queue'[t]), j \in 1 .. Len(queue'[u]) :
          queue'[t][i] = queue'[u][j] => (t = u /\ i = j)
    <3> SUFFICES ASSUME NEW t \in Servers, NEW u \in Servers, NEW i \in 1 .. Len(queue'[t]),
                        NEW j \in 1 .. Len(queue'[u]), queue'[t][i] = queue'[u][j]
                 PROVE  t = u /\ i = j
      OBVIOUS
    <3>1. CASE queue'[t][i] = c
      <4>1. t = s /\ i = Len(queue[s]) + 1
        BY <2>3, <2>6, <3>1
      <4>2. u = s /\ j = Len(queue[s]) + 1
        BY <2>3, <2>6, <3>1
      <4> QED BY <4>1, <4>2
    <3>2. CASE queue'[t][i] # c
      <4>1. i \in 1 .. Len(queue[t]) /\ queue[t][i] = queue'[t][i]
        BY <2>6, <3>2
      <4>2. j \in 1 .. Len(queue[u]) /\ queue[u][j] = queue'[t][i]
        BY <2>6, <3>2
      <4> QED BY <4>1, <4>2 DEF QueuedOnce
    <3> QED BY <3>1, <3>2
  <2> QED
    BY <2>8, <2>9 DEF QueuedOnce
<1>2. ASSUME NEW c \in Clients, NEW r \in Requests, Send(c, r)
      PROVE  QueuedOnce'
  BY <1>0, <1>2, QueuedKept DEF Send
<1>3. ASSUME NEW c \in Clients, Shutdown(c)
      PROVE  QueuedOnce'
  BY <1>0, <1>3, QueuedKept DEF Shutdown
<1>4. ASSUME NEW s \in Servers, epoll_wait(s)
      PROVE  QueuedOnce'
  BY <1>0, <1>4, QueuedKept DEF epoll_wait
<1>5. ASSUME NEW s \in Servers, nextEvent(s)
      PROVE  QueuedOnce'
  BY <1>0, <1>5, QueuedKept DEF nextEvent, kernel
<1>6. ASSUME NEW s \in Servers, accept4(s)
      PROVE  QueuedOnce'
  <2>1. CASE Refuses(s)
    BY <1>0, <2>1, QueuedKept DEF Refuses
  <2>2. ASSUME NEW f \in Fds, Takes(s, f)
        PROVE  QueuedOnce'
    <3> DEFINE c == Head(queue[s])
    <3>1. /\ queue[s] # <<>> /\ queue' = [queue EXCEPT ![s] = Tail(queue[s])]
          /\ sock' = [sock EXCEPT ![c] = "open"]
      BY <2>2 DEF Takes
    <3>2. \A t \in Servers : queue[t] \in Seq(Clients) /\ Len(queue[t]) \in Nat
      BY <1>0 DEF KernelTypeOK
    <3>3. /\ Len(Tail(queue[s])) = Len(queue[s]) - 1 /\ c = queue[s][1] /\ Len(queue[s]) > 0
          /\ \A i \in 1 .. Len(queue[s]) - 1 : Tail(queue[s])[i] = queue[s][i + 1]
      BY <3>1, <3>2, SeqParts
    <3>4. queue'[s] = Tail(queue[s]) /\ \A t \in Servers : t # s => queue'[t] = queue[t]
      BY <1>0, <3>1 DEF KernelTypeOK
    <3>5. \A t \in Servers : \A i \in 1 .. Len(queue'[t]) :
            \/ t # s /\ i \in 1 .. Len(queue[t]) /\ queue'[t][i] = queue[t][i]
            \/ t = s /\ i + 1 \in 1 .. Len(queue[s]) /\ queue'[t][i] = queue[s][i + 1]
      <4> SUFFICES ASSUME NEW t \in Servers, NEW i \in 1 .. Len(queue'[t])
                   PROVE  \/ t # s /\ i \in 1 .. Len(queue[t]) /\ queue'[t][i] = queue[t][i]
                          \/ t = s /\ i + 1 \in 1 .. Len(queue[s]) /\ queue'[t][i] = queue[s][i + 1]
        OBVIOUS
      <4>1. CASE t # s
        BY <3>4, <4>1
      <4>2. CASE t = s
        <5> HIDE DEF c
        <5>1. Len(queue'[t]) = Len(queue[s]) - 1 /\ Len(queue[s]) \in Nat
          BY <3>2, <3>3, <3>4, <4>2
        <5>2. i \in 1 .. Len(queue[s]) - 1
          BY <5>1
        <5>3. i + 1 \in 1 .. Len(queue[s])
          BY <5>1, <5>2
        <5> QED
          BY <3>3, <3>4, <4>2, <5>2, <5>3
      <4> QED
        BY <4>1, <4>2
    <3>6. \A d \in Clients : d # c => sock'[d] = sock[d]
      BY <1>0, <3>1 DEF KernelTypeOK
    <3>7. \A t \in Servers : \A i \in 1 .. Len(queue[t]) :
            queue[t][i] \in Clients /\ (queue[t][i] = c => t = s /\ i = 1)
      <4> SUFFICES ASSUME NEW t \in Servers, NEW i \in 1 .. Len(queue[t])
                   PROVE  queue[t][i] \in Clients /\ (queue[t][i] = c => t = s /\ i = 1)
        OBVIOUS
      <4>1. 1 \in 1 .. Len(queue[s])
        BY <3>2, <3>3
      <4>2. queue[t][i] \in Clients
        BY <3>2
      <4>3. queue[t][i] = queue[s][1] => t = s /\ i = 1
        BY <4>1, QueuedAt
      <4> QED
        BY <3>3, <4>2, <4>3
    <3>8. \A t \in Servers : \A i \in 1 .. Len(queue'[t]) : sock'[queue'[t][i]] = "queued"
      <4> SUFFICES ASSUME NEW t \in Servers, NEW i \in 1 .. Len(queue'[t])
                   PROVE  sock'[queue'[t][i]] = "queued"
        OBVIOUS
      <4>0. i \in Nat /\ i + 1 # 1
        <5>1. Len(queue'[t]) \in Nat
          BY <3>2, <3>3, <3>4
        <5> QED
          BY <5>1
      <4>1. CASE t # s /\ i \in 1 .. Len(queue[t]) /\ queue'[t][i] = queue[t][i]
        BY <3>6, <3>7, <4>1 DEF QueuedOnce
      <4>2. CASE t = s /\ i + 1 \in 1 .. Len(queue[s]) /\ queue'[t][i] = queue[s][i + 1]
        BY <3>6, <3>7, <4>0, <4>2 DEF QueuedOnce
      <4> QED
        BY <3>5, <4>1, <4>2
    <3>9. \A t, u \in Servers : \A i \in 1 .. Len(queue'[t]), j \in 1 .. Len(queue'[u]) :
            queue'[t][i] = queue'[u][j] => (t = u /\ i = j)
      <4> SUFFICES ASSUME NEW t \in Servers, NEW u \in Servers,
                          NEW i \in 1 .. Len(queue'[t]), NEW j \in 1 .. Len(queue'[u]),
                          queue'[t][i] = queue'[u][j]
                   PROVE  t = u /\ i = j
        OBVIOUS
      <4>0. i \in Nat /\ j \in Nat
        <5>1. Len(queue'[t]) \in Nat /\ Len(queue'[u]) \in Nat
          BY <3>2, <3>3, <3>4
        <5> QED
          BY <5>1
      <4>1. PICK i1 \in 1 .. Len(queue[t]) :
              queue'[t][i] = queue[t][i1] /\ (i1 = IF t = s THEN i + 1 ELSE i)
        BY <3>5
      <4>2. PICK j1 \in 1 .. Len(queue[u]) :
              queue'[u][j] = queue[u][j1] /\ (j1 = IF u = s THEN j + 1 ELSE j)
        BY <3>5
      <4>3. t = u /\ i1 = j1
        <5>1. queue[t][i1] = queue[u][j1]
          BY <4>1, <4>2
        <5> QED
          BY <5>1, QueuedAt
      <4> QED
        BY <4>0, <4>1, <4>2, <4>3
    <3> QED
      BY <3>8, <3>9 DEF QueuedOnce
  <2> QED
    BY <1>6, <2>1, <2>2, AcceptCases
<1>7. ASSUME NEW s \in Servers, register(s)
      PROVE  QueuedOnce'
  BY <1>0, <1>7, QueuedKept DEF register
<1>8. ASSUME NEW s \in Servers, Handler(s)
      PROVE  QueuedOnce'
  <2>1. Sockets(s) /\ pc[s] \in {"hangup", "answer", "close", "again"}
    BY <1>8, HandlerEffect DEF Handler
  <2>2. sock[cur[s]] \in {"open", "gone"}
    BY <2>1, AtConnection
  <2>3. queue' = queue /\ \A d \in Clients : sock[d] = "queued" => sock'[d] = "queued"
    BY <1>0, <2>1, <2>2 DEF Sockets, CloseSocket, kernel, KernelTypeOK
  <2> QED
    BY <1>0, <2>3, QueuedKept
<1>9. ASSUME NEW s \in Servers, read(s)
      PROVE  QueuedOnce'
  BY <1>0, <1>9, QueuedKept DEF read, kernel
<1>10. ASSUME NEW s \in Servers, misuse(s)
       PROVE  QueuedOnce'
  BY <1>0, <1>10, QueuedKept DEF misuse, kernel
<1>11. CASE UNCHANGED vars
  BY <1>0, <1>11, QueuedKept DEF vars, kernel
<1> QED
  BY <1>1, <1>2, <1>3, <1>4, <1>5, <1>6, <1>7, <1>8, <1>9, <1>10, <1>11
     DEF Next, Client, Server, Handler

\* Nothing happens to a connection or to its registration.
LEMMA OwnsKept ==
  ASSUME NEW d \in Clients, NEW f \in Fds, Owns(d, f),
         conn'[d] = conn[d], reg'[d] = reg[d], sock'[d] = sock[d],
         \A t \in Servers : pc[t] = "register" => pc'[t] = "register" /\ cur'[t] = cur[t]
  PROVE  Owns(d, f)'
BY DEF Owns

\* Nothing happens to the descriptors.
LEMMA OwnedKept ==
  ASSUME KernelTypeOK, Owned, fdt' = fdt, conn' = conn, reg' = reg,
         \A d \in Clients : sock[d] = "open" => sock'[d] = "open",
         \A t \in Servers : pc[t] = "register" => pc'[t] = "register" /\ cur'[t] = cur[t]
  PROVE  Owned'
<1>1. \A f \in Fds : fdt[f] # None => fdt[f] \in Clients
  BY DEF KernelTypeOK
<1> QED
  BY <1>1 DEF Owned, Owns

\* accept4 gives out a descriptor that is free, and a handler that marks a
\* Connection closed_ or deletes it has closed its descriptor.
LEMMA OwnedStep ==
  ASSUME TypeInv, QueuedOnce, Owned, [Next]_vars
  PROVE  Owned'
<1>0. KernelTypeOK /\ LoopFunctions
  BY DEF TypeInv, LoopTypeOK, LoopFunctions
<1> DEFINE Mine(f, d) == fdt'[f] = d /\ d # None
<1>b. /\ \A f \in Fds : fdt'[f] \in Clients \union {None}
      /\ \A f \in Fds : \A d \in Clients : Mine(f, d) => Owns(d, f)'
      => Owned'
  BY DEF Owned, Owns
<1>c. \A f \in Fds : fdt'[f] \in Clients \union {None}
  BY KernelTyped DEF KernelTypeOK
<1>d. (\A f \in Fds : \A d \in Clients : Mine(f, d) => Owns(d, f)') => Owned'
  BY <1>b, <1>c
<1>1. ASSUME NEW c \in Clients, NEW s \in Servers, Connect(c, s)
      PROVE  Owned'
  <2>1. \A d \in Clients : sock[d] = "open" => sock'[d] = "open"
    BY <1>0, <1>1 DEF Connect, KernelTypeOK
  <2> QED
    BY <1>0, <1>1, <2>1, OwnedKept DEF Connect, loop
<1>2. ASSUME NEW c \in Clients, NEW r \in Requests, Send(c, r)
      PROVE  Owned'
  BY <1>0, <1>2, OwnedKept DEF Send, loop
<1>3. ASSUME NEW c \in Clients, Shutdown(c)
      PROVE  Owned'
  BY <1>0, <1>3, OwnedKept DEF Shutdown, loop
<1>4. ASSUME NEW s \in Servers, epoll_wait(s)
      PROVE  Owned'
  BY <1>0, <1>4, OwnedKept DEF epoll_wait
<1>5. ASSUME NEW s \in Servers, nextEvent(s)
      PROVE  Owned'
  <2>1. \A t \in Servers : pc[t] = "register" => pc'[t] = "register" /\ cur'[t] = cur[t]
    BY <1>0, <1>5 DEF nextEvent, LoopFunctions
  <2> QED
    BY <1>0, <1>5, <2>1, OwnedKept DEF nextEvent, kernel
<1>6. ASSUME NEW s \in Servers, accept4(s)
      PROVE  Owned'
  <2>1. pc[s] = "accept" /\ reg' = reg
    BY <1>6, AcceptCases DEF AcceptRest
  <2>2. CASE Refuses(s)
    <3>1. \A t \in Servers : pc[t] = "register" => pc'[t] = "register" /\ cur'[t] = cur[t]
      BY <1>0, <2>1, <2>2 DEF Refuses, LoopFunctions
    <3> QED
      BY <1>0, <2>1, <2>2, <3>1, OwnedKept DEF Refuses
  <2>3. ASSUME NEW f \in Fds, fdt[f] = None, Takes(s, f)
        PROVE  Owned'
    <3>0. Head(queue[s]) \in Clients /\ Head(queue[s]) # None /\ sock[Head(queue[s])] = "queued"
      BY <2>3, HeadQueued DEF Takes
    <3>1. PICK c \in Clients : c = Head(queue[s]) /\ c # None /\ sock[c] = "queued"
      BY <3>0
    <3>2. /\ sock' = [sock EXCEPT ![c] = "open"] /\ fdt' = [fdt EXCEPT ![f] = c]
          /\ conn' = [conn EXCEPT ![c] = NewConnection(f)]
          /\ cur' = [cur EXCEPT ![s] = c] /\ pc' = [pc EXCEPT ![s] = "register"]
      BY <2>3, <3>1 DEF Takes
    <3>3. \A t \in Servers : pc[t] = "register" => pc'[t] = "register" /\ cur'[t] = cur[t]
      BY <1>0, <2>1, <3>2 DEF LoopFunctions
    <3>4. Owns(c, f)'
      <4>1. fdt'[f] = c /\ sock'[c] = "open" /\ conn'[c] = NewConnection(f)
        BY <1>0, <3>1, <3>2 DEF KernelTypeOK
      <4>2. pc'[s] = "register" /\ cur'[s] = c
        BY <1>0, <3>2 DEF LoopFunctions
      <4> QED
        BY <4>1, <4>2, NewConnectionIs DEF Owns
    <3>5. ASSUME NEW g \in Fds, NEW d \in Clients, Mine(g, d), g # f
          PROVE  Owns(d, g)'
      <4>1. fdt[g] = d
        BY <1>0, <3>2, <3>5 DEF KernelTypeOK
      <4>2. Owns(d, g)
        BY <3>5, <4>1 DEF Owned
      <4>3. d # c
        BY <3>1, <4>2 DEF Owns
      <4>4. conn'[d] = conn[d] /\ sock'[d] = sock[d] /\ reg'[d] = reg[d]
        BY <1>0, <2>1, <3>2, <4>1, <4>3 DEF KernelTypeOK
      <4> QED
        BY <3>3, <4>2, <4>4, OwnsKept
    <3>6. fdt'[f] = c
      BY <1>0, <3>1, <3>2 DEF KernelTypeOK
    <3> QED
      BY <1>d, <3>4, <3>5, <3>6
  <2> QED
    BY <1>6, <2>2, <2>3, AcceptCases
<1>7. ASSUME NEW s \in Servers, register(s)
      PROVE  Owned'
  <2> DEFINE c == cur[s]
  <2>1. /\ pc[s] = "register" /\ reg' = [reg EXCEPT ![c] = s]
        /\ pc' = [pc EXCEPT ![s] = "accept"] /\ cur' = [cur EXCEPT ![s] = None]
        /\ UNCHANGED <<fdt, conn, sock>>
    BY <1>7 DEF register, AfterRegister
  <2>2. ASSUME NEW f \in Fds, NEW d \in Clients, Mine(f, d)
        PROVE  Owns(d, f)'
    <3>1. Owns(d, f)
      BY <2>1, <2>2 DEF Owned
    <3>2. sock'[d] = sock[d] /\ conn'[d] = conn[d]
      BY <2>1
    <3>3. reg'[d] # None \/ \E t \in Servers : pc'[t] = "register" /\ cur'[t] = d
      <4>1. CASE d = c
        BY <1>0, <2>1, <3>1, <4>1, ServerConstants DEF KernelTypeOK
      <4>2. CASE d # c
        <5>1. reg'[d] = reg[d]
          BY <1>0, <2>1, <3>1, <4>2 DEF KernelTypeOK
        <5>2. \A t \in Servers : t # s => pc'[t] = pc[t] /\ cur'[t] = cur[t]
          BY <1>0, <2>1 DEF LoopFunctions
        <5> QED
          BY <3>1, <4>2, <5>1, <5>2 DEF Owns
      <4> QED
        BY <4>1, <4>2
    <3> QED
      BY <3>1, <3>2, <3>3 DEF Owns
  <2> QED
    BY <1>d, <2>2
<1>8. ASSUME NEW s \in Servers, Handler(s)
      PROVE  Owned'
  <2> DEFINE c == cur[s]
  <2>1. Sockets(s) /\ Connections(s) /\ Loop(s) /\ pc[s] \in {"hangup", "answer", "close", "again"}
    BY <1>8, HandlerEffect DEF Handler
  <2>2. c \in Clients /\ c # None /\ conn[c].fd \in Fds
    BY <2>1, AtConnection
  <2>3. \A t \in Servers : pc[t] = "register" => pc'[t] = "register" /\ cur'[t] = cur[t]
    BY <2>1 DEF Loop
  <2>4. ASSUME NEW f \in Fds, NEW d \in Clients, Mine(f, d)
        PROVE  Owns(d, f)'
    <3>1. fdt[f] = d
      BY <1>0, <2>1, <2>2, <2>4 DEF Sockets, CloseSocket, kernel, KernelTypeOK
    <3>2. Owns(d, f)
      BY <2>4, <3>1 DEF Owned
    <3>3. conn'[d] = conn[d]
      <4>1. CASE d = c
        BY <2>1, <2>4, <3>1, <3>2, <4>1 DEF Connections, Owns
      <4>2. CASE d # c
        BY <2>1, <3>2, <4>2 DEF Connections
      <4> QED
        BY <4>1, <4>2
    <3>4. reg'[d] = reg[d] /\ sock'[d] = sock[d]
      <4>1. CASE UNCHANGED <<kernel, inbox>>
        BY <4>1 DEF kernel
      <4>2. CASE Behind(c) = c /\ CloseSocket(c)
        <5>1. fdt'[conn[c].fd] = None
          BY <1>0, <2>2, <4>2 DEF CloseSocket, KernelTypeOK
        <5>2. d # c
          BY <2>4, <3>2, <5>1 DEF Owns
        <5> QED
          BY <1>0, <3>2, <4>2, <5>2 DEF CloseSocket, KernelTypeOK
      <4> QED
        BY <2>1, <4>1, <4>2 DEF Sockets
    <3> QED
      BY <2>3, <3>2, <3>3, <3>4, OwnsKept
  <2> QED
    BY <1>d, <2>4
<1>9. ASSUME NEW s \in Servers, read(s)
      PROVE  Owned'
  <2>1. pc[s] = "read" /\ UNCHANGED <<kernel, conn>>
    BY <1>9, ReadCases
  <2>2. \A t \in Servers : pc[t] = "register" => pc'[t] = "register" /\ cur'[t] = cur[t]
    <3>1. CASE ReadsNothing(s)
      BY <1>0, <2>1, <3>1 DEF ReadsNothing, LoopFunctions
    <3>2. ASSUME NEW n \in Nat, Reads(s, n)
          PROVE  \A t \in Servers : pc[t] = "register" => pc'[t] = "register" /\ cur'[t] = cur[t]
      BY <1>0, <2>1, <3>2 DEF Reads, LoopFunctions
    <3> QED
      BY <1>9, <3>1, <3>2, ReadCases
  <2> QED
    BY <1>0, <2>1, <2>2, OwnedKept DEF kernel
<1>10. ASSUME NEW s \in Servers, misuse(s)
       PROVE  Owned'
  BY <1>0, <1>10, OwnedKept DEF misuse, kernel, loop
<1>11. CASE UNCHANGED vars
  BY <1>0, <1>11, OwnedKept DEF vars, kernel, loop
<1> QED
  BY <1>1, <1>2, <1>3, <1>4, <1>5, <1>6, <1>7, <1>8, <1>9, <1>10, <1>11
     DEF Next, Client, Server, Handler
-----------------------------------------------------------------------------
(***************************************************************************)
(* One server has to do with a connection, and only it closes it.          *)
(***************************************************************************)

\* Nothing happens to the descriptor of a connection.
LEMMA HoldsKept ==
  ASSUME NEW d \in Clients, Holds(d), sock'[d] = "open", conn'[d].fd = conn[d].fd,
         fdt'[conn[d].fd] = d
  PROVE  Holds(d)'
BY DEF Holds, Behind

\* A connection is closed by nobody but a server that is at it.
LEMMA HoldsStep ==
  ASSUME TypeInv, QueuedOnce, Owned, [Next]_vars, NEW d \in Clients, Holds(d),
         \A s \in Servers : Handler(s) => cur[s] # d
  PROVE  Holds(d)'
<1>0. KernelTypeOK
  BY DEF TypeInv
<1>a. sock[d] = "open" /\ conn[d] \in Connection /\ conn[d].fd \in Fds /\ fdt[conn[d].fd] = d
  BY <1>0 DEF KernelTypeOK, Holds, Behind, Connection
<1>1. ASSUME NEW c \in Clients, NEW s \in Servers, Connect(c, s)
      PROVE  Holds(d)'
  <2>1. sock'[d] = "open"
    BY <1>0, <1>1, <1>a DEF Connect, KernelTypeOK
  <2> QED
    BY <1>1, <1>a, <2>1, HoldsKept DEF Connect
<1>2. ASSUME NEW c \in Clients, NEW r \in Requests, Send(c, r)
      PROVE  Holds(d)'
  BY <1>2, <1>a, HoldsKept DEF Send
<1>3. ASSUME NEW c \in Clients, Shutdown(c)
      PROVE  Holds(d)'
  BY <1>3, <1>a, HoldsKept DEF Shutdown
<1>4. ASSUME NEW s \in Servers, epoll_wait(s)
      PROVE  Holds(d)'
  BY <1>4, <1>a, HoldsKept DEF epoll_wait
<1>5. ASSUME NEW s \in Servers, nextEvent(s)
      PROVE  Holds(d)'
  BY <1>5, <1>a, HoldsKept DEF nextEvent, kernel
<1>6. ASSUME NEW s \in Servers, accept4(s)
      PROVE  Holds(d)'
  <2>1. CASE Refuses(s)
    BY <1>a, <2>1, HoldsKept DEF Refuses
  <2>2. ASSUME NEW f \in Fds, fdt[f] = None, Takes(s, f)
        PROVE  Holds(d)'
    <3>1. Head(queue[s]) # d /\ f # conn[d].fd
      <4>1. d # None
        BY ServerConstants
      <4> QED
        BY <1>a, <2>2, <4>1, HeadQueued DEF Takes
    <3>2. sock'[d] = "open" /\ conn'[d] = conn[d] /\ fdt'[conn[d].fd] = d
      BY <1>0, <1>a, <2>2, <3>1 DEF Takes, KernelTypeOK
    <3> QED
      BY <3>2, HoldsKept
  <2> QED
    BY <1>6, <2>1, <2>2, AcceptCases
<1>7. ASSUME NEW s \in Servers, register(s)
      PROVE  Holds(d)'
  BY <1>7, <1>a, HoldsKept DEF register
<1>8. ASSUME NEW s \in Servers, Handler(s)
      PROVE  Holds(d)'
  <2>1. Sockets(s) /\ Connections(s) /\ pc[s] \in {"hangup", "answer", "close", "again"}
    BY <1>8, HandlerEffect DEF Handler
  <2>2. cur[s] \in Clients /\ cur[s] # d /\ conn[cur[s]].fd \in Fds /\ conn'[d] = conn[d]
    BY <1>8, <2>1, AtConnection DEF Connections
  <2>3. CASE Behind(cur[s]) = cur[s] /\ CloseSocket(cur[s])
    <3>1. conn[cur[s]].fd # conn[d].fd
      BY <1>a, <2>2, <2>3 DEF Behind
    <3>2. sock'[d] = "open" /\ fdt'[conn[d].fd] = d
      BY <1>0, <1>a, <2>2, <2>3, <3>1 DEF CloseSocket, KernelTypeOK
    <3> QED
      BY <2>2, <3>2, HoldsKept
  <2>4. CASE UNCHANGED <<kernel, inbox>>
    BY <1>a, <2>2, <2>4, HoldsKept DEF kernel
  <2> QED
    BY <2>1, <2>3, <2>4 DEF Sockets
<1>9. ASSUME NEW s \in Servers, read(s)
      PROVE  Holds(d)'
  BY <1>9, <1>a, HoldsKept DEF read, kernel
<1>10. ASSUME NEW s \in Servers, misuse(s)
       PROVE  Holds(d)'
  BY <1>10, <1>a, HoldsKept DEF misuse, kernel
<1>11. CASE UNCHANGED vars
  BY <1>11, <1>a, HoldsKept DEF vars, kernel
<1> QED
  BY <1>1, <1>2, <1>3, <1>4, <1>5, <1>6, <1>7, <1>8, <1>9, <1>10, <1>11
     DEF Next, Client, Server, Handler

\* Who registers a connection, and who unregisters it.
LEMMA RegStep ==
  ASSUME TypeInv, Owned, [Next]_vars, NEW d \in Clients
  PROVE  \/ reg'[d] = reg[d]
         \/ reg'[d] = None
         \/ \E s \in Servers : register(s) /\ cur[s] = d /\ reg'[d] = s
<1>0. KernelTypeOK
  BY DEF TypeInv
<1> DEFINE Goal == \/ reg'[d] = reg[d]
                   \/ reg'[d] = None
                   \/ \E s \in Servers : register(s) /\ cur[s] = d /\ reg'[d] = s
<1>1. ASSUME NEW s \in Servers, register(s)
      PROVE  Goal
  BY <1>0, <1>1 DEF register, KernelTypeOK
<1>2. ASSUME NEW s \in Servers, Handler(s)
      PROVE  Goal
  BY <1>0, <1>2, HandlerEffect DEF Handler, Sockets, CloseSocket, kernel, KernelTypeOK
<1>3. ASSUME NEW s \in Servers, accept4(s)
      PROVE  Goal
  BY <1>3 DEF accept4
<1>4. ASSUME NEW s \in Servers, epoll_wait(s) \/ nextEvent(s) \/ read(s) \/ misuse(s)
      PROVE  Goal
  BY <1>4 DEF epoll_wait, nextEvent, read, misuse, kernel
<1>5. ASSUME NEW c \in Clients, Client(c)
      PROVE  Goal
  BY <1>5 DEF Client, Connect, Send, Shutdown
<1>6. CASE UNCHANGED vars
  BY <1>6 DEF vars, kernel
<1> HIDE DEF Goal
<1> QED
  BY <1>1, <1>2, <1>3, <1>4, <1>5, <1>6 DEF Next, Server, Handler, Goal

\* What a server is at after a step: what it was at, nothing, a connection it
\* has just accepted or one of its batch.
LEMMA CurStep ==
  ASSUME TypeInv, Owned, [Next]_vars, NEW s \in Servers
  PROVE  \/ cur'[s] = cur[s]
         \/ cur'[s] = None
         \/ \E f \in Fds : accept4(s) /\ fdt[f] = None /\ Takes(s, f) /\ cur'[s] = Head(queue[s])
         \/ nextEvent(s) /\ \E e \in batch[s] :
              /\ e.conn # None /\ cur'[s] = e.conn /\ batch' = [batch EXCEPT ![s] = @ \ {e}]
<1>0. KernelTypeOK /\ LoopFunctions
  BY DEF TypeInv, LoopTypeOK, LoopFunctions
<1> DEFINE Goal == \/ cur'[s] = cur[s]
                   \/ cur'[s] = None
                   \/ \E f \in Fds : accept4(s) /\ fdt[f] = None /\ Takes(s, f) /\ cur'[s] = Head(queue[s])
                   \/ nextEvent(s) /\ \E e \in batch[s] :
                        /\ e.conn # None /\ cur'[s] = e.conn
                        /\ batch' = [batch EXCEPT ![s] = @ \ {e}]
<1>1. ASSUME NEW t \in Servers, register(t)
      PROVE  Goal
  BY <1>0, <1>1 DEF register, LoopFunctions
<1>2. ASSUME NEW t \in Servers, Handler(t)
      PROVE  Goal
  BY <1>2, HandlerEffect DEF Handler, Loop
<1>3. ASSUME NEW t \in Servers, accept4(t)
      PROVE  Goal
  <2>1. CASE Refuses(t)
    BY <2>1 DEF Refuses
  <2>2. ASSUME NEW f \in Fds, fdt[f] = None, Takes(t, f)
        PROVE  Goal
    <3>1. t # s => cur'[s] = cur[s]
      BY <1>0, <2>2 DEF Takes, LoopFunctions
    <3>2. cur'[t] = Head(queue[t])
      BY <1>0, <2>2 DEF Takes, LoopFunctions
    <3> QED
      BY <1>3, <2>2, <3>1, <3>2
  <2> HIDE DEF Goal
  <2> QED
    BY <1>3, <2>1, <2>2, AcceptCases
<1>4. ASSUME NEW t \in Servers, nextEvent(t)
      PROVE  Goal
  <2>1. PICK e \in batch[t] : /\ batch' = [batch EXCEPT ![t] = @ \ {e}]
                              /\ cur' = [cur EXCEPT ![t] = e.conn]
    BY <1>4 DEF nextEvent
  <2>2. t # s => cur'[s] = cur[s]
    BY <1>0, <2>1 DEF LoopFunctions
  <2>3. cur'[t] = e.conn
    BY <1>0, <2>1 DEF LoopFunctions
  <2> QED
    BY <1>4, <2>1, <2>2, <2>3
<1>5. ASSUME NEW t \in Servers, read(t)
      PROVE  Goal
  BY <1>0, <1>5, ReadCases DEF ReadsNothing, Reads, LoopFunctions
<1>6. ASSUME NEW t \in Servers, epoll_wait(t) \/ misuse(t)
      PROVE  Goal
  BY <1>6 DEF epoll_wait, misuse, loop
<1>7. ASSUME NEW c \in Clients, Client(c)
      PROVE  Goal
  BY <1>7 DEF Client, Connect, Send, Shutdown, loop
<1>8. CASE UNCHANGED vars
  BY <1>8 DEF vars, loop
<1> HIDE DEF Goal
<1> QED
  BY <1>1, <1>2, <1>3, <1>4, <1>5, <1>6, <1>7, <1>8 DEF Next, Server, Handler, Goal

\* What is in a batch after a step was in it before, or is reported now.
LEMMA BatchStep ==
  ASSUME TypeInv, Owned, [Next]_vars, NEW s \in Servers
  PROVE  \/ batch'[s] \subseteq batch[s] /\ ~ epoll_wait(s)
         \/ epoll_wait(s) /\ batch'[s] = Ready(s)
<1>0. LoopFunctions
  BY DEF TypeInv, LoopTypeOK, LoopFunctions
<1>a. SUFFICES ASSUME ~ epoll_wait(s) PROVE batch'[s] \subseteq batch[s]
  BY <1>0 DEF epoll_wait, LoopFunctions
<1> DEFINE Goal == batch'[s] \subseteq batch[s]
<1>1. ASSUME NEW t \in Servers, register(t) \/ accept4(t) \/ read(t) \/ misuse(t)
      PROVE  Goal
  BY <1>1 DEF register, accept4, read, misuse, loop
<1>2. ASSUME NEW t \in Servers, Handler(t)
      PROVE  Goal
  BY <1>2, HandlerEffect DEF Handler, Loop
<1>3. ASSUME NEW t \in Servers, epoll_wait(t)
      PROVE  Goal
  BY <1>0, <1>3, <1>a DEF epoll_wait, LoopFunctions
<1>4. ASSUME NEW t \in Servers, nextEvent(t)
      PROVE  Goal
  BY <1>0, <1>4 DEF nextEvent, LoopFunctions
<1>5. ASSUME NEW c \in Clients, Client(c)
      PROVE  Goal
  BY <1>5 DEF Client, Connect, Send, Shutdown, loop
<1>6. CASE UNCHANGED vars
  BY <1>6 DEF vars, loop
<1> HIDE DEF Goal
<1> QED
  BY <1>1, <1>2, <1>3, <1>4, <1>5, <1>6 DEF Next, Server, Handler, Goal
\* A server that takes a connection from its queue is the first to be at it.
LEMMA HeadUntouched ==
  ASSUME TypeInv, QueuedOnce, Registered, BatchFresh, NEW s \in Servers, queue[s] # <<>>,
         NEW t \in Servers
  PROVE  ~ At(t, Head(queue[s]))
<1>1. /\ Head(queue[s]) \in Clients /\ Head(queue[s]) # None
      /\ sock[Head(queue[s])] = "queued"
  BY HeadQueued
<1>2. reg[Head(queue[s])] # t
  BY <1>1, ServerConstants DEF Registered, Holds
<1>3. cur[t] # Head(queue[s])
  BY <1>1 DEF TypeInv, LoopTypeOK
<1>4. \A e \in batch[t] : e.conn # Head(queue[s])
  BY <1>1 DEF BatchFresh, Holds
<1> QED
  BY <1>2, <1>3, <1>4 DEF At

\* A server is at what it was at before, unless it has just accepted it.
LEMMA AtStep ==
  ASSUME TypeInv, Owned, [Next]_vars, NEW s \in Servers, NEW d \in Clients,
         At(s, d)'
  PROVE  \/ At(s, d)
         \/ \E f \in Fds : accept4(s) /\ fdt[f] = None /\ Takes(s, f) /\ d = Head(queue[s])
<1>0. d # None /\ s # None /\ KernelTypeOK
  BY ServerConstants DEF TypeInv
<1>1. CASE reg'[d] = s
  BY <1>0, <1>1, RegStep DEF At
<1>2. CASE cur'[s] = d
  BY <1>0, <1>2, CurStep DEF At
<1>3. ASSUME NEW e \in batch'[s], e.conn = d
      PROVE  At(s, d)
  <2>1. CASE batch'[s] \subseteq batch[s]
    BY <1>3, <2>1 DEF At
  <2>2. CASE batch'[s] = Ready(s)
    <3>1. e # Accepting
      BY <1>0, <1>3 DEF Accepting
    <3>2. PICK c \in Clients : e = Report(c) /\ reg[c] = s
      BY <1>3, <2>2, <3>1, ReadyIs
    <3> QED
      BY <1>3, <3>2, ReportIs DEF At
  <2> QED
    BY <2>1, <2>2, BatchStep
<1> QED
  BY <1>1, <1>2, <1>3 DEF At

\* The one server that takes a connection from its queue is the only one that
\* ever has to do with it.
LEMMA OneServerStep ==
  ASSUME BaseInv, [Next]_vars
  PROVE  OneServer'
<1> USE DEF BaseInv
<1> SUFFICES ASSUME NEW d \in Clients, NEW s \in Servers, NEW t \in Servers,
                    At(s, d)', At(t, d)'
             PROVE  s = t
  BY DEF OneServer
<1>1. CASE At(s, d) /\ At(t, d)
  BY <1>1 DEF OneServer
<1>2. ASSUME NEW f \in Fds, accept4(s), Takes(s, f), d = Head(queue[s])
      PROVE  s = t
  <2>1. ~ At(t, d)
    BY <1>2, HeadUntouched DEF Takes
  <2>2. PICK g \in Fds : accept4(t) /\ Takes(t, g) /\ d = Head(queue[t])
    BY <2>1, AtStep
  <2>3. queue[s] \in Seq(Clients) /\ queue[t] \in Seq(Clients) /\ queue[s] # <<>> /\ queue[t] # <<>>
    BY <1>2, <2>2 DEF TypeInv, KernelTypeOK, Takes
  <2>4. queue[s][1] = queue[t][1] /\ 1 \in 1 .. Len(queue[s]) /\ 1 \in 1 .. Len(queue[t])
    BY <1>2, <2>2, <2>3, SeqParts
  <2> QED
    BY <2>4, QueuedAt
<1>3. ASSUME NEW f \in Fds, accept4(t), Takes(t, f), d = Head(queue[t])
      PROVE  s = t
  <2>1. ~ At(s, d)
    BY <1>3, HeadUntouched DEF Takes
  <2>2. PICK g \in Fds : accept4(s) /\ Takes(s, g) /\ d = Head(queue[s])
    BY <2>1, AtStep
  <2>3. queue[s] \in Seq(Clients) /\ queue[t] \in Seq(Clients) /\ queue[s] # <<>> /\ queue[t] # <<>>
    BY <1>3, <2>2 DEF TypeInv, KernelTypeOK, Takes
  <2>4. queue[s][1] = queue[t][1] /\ 1 \in 1 .. Len(queue[s]) /\ 1 \in 1 .. Len(queue[t])
    BY <1>3, <2>2, <2>3, SeqParts
  <2> QED
    BY <2>4, QueuedAt
<1> QED
  BY <1>1, <1>2, <1>3, AtStep

\* A socket is registered while it is open, and leaves the set as it is closed.
LEMMA RegisteredStep ==
  ASSUME TypeInv, QueuedOnce, Owned, Registered, [Next]_vars
  PROVE  Registered'
<1>0. KernelTypeOK
  BY DEF TypeInv
<1> SUFFICES ASSUME NEW d \in Clients, reg'[d] # None
             PROVE  Holds(d)'
  BY DEF Registered
<1>1. ASSUME NEW s \in Servers, Handler(s), cur[s] = d
      PROVE  Holds(d)'
  <2>1. Sockets(s) /\ Connections(s)
    BY <1>1, HandlerEffect DEF Handler
  <2>2. ~ CloseSocket(d)
    BY <1>0 DEF CloseSocket, KernelTypeOK
  <2>3. UNCHANGED <<kernel, inbox>>
    BY <1>1, <2>1, <2>2 DEF Sockets
  <2>4. Holds(d) /\ conn'[d].fd = conn[d].fd
    BY <1>1, <2>1, <2>3 DEF Registered, Connections, kernel
  <2> QED
    BY <2>3, <2>4 DEF Holds, Behind, kernel
<1>2. CASE reg[d] # None
  <2>1. Holds(d)
    BY <1>2 DEF Registered
  <2> QED
    BY <1>1, <2>1, HoldsStep
<1>3. ASSUME NEW s \in Servers, register(s), cur[s] = d
      PROVE  Holds(d)'
  <2>1. Behind(d) = d /\ pc[s] = "register" /\ d # None
    BY <1>3, ServerConstants DEF register
  <2>2. conn[d].fd \in Fds
    BY <1>3, <2>1, AtConnection
  <2>3. Holds(d)
    BY <2>1, <2>2 DEF Owned, Owns, Behind, Holds
  <2> QED
    BY <1>1, <2>3, HoldsStep
<1> QED
  BY <1>2, <1>3, RegStep

\* epoll_wait reports registered sockets, and of those in the batch none is
\* closed before its event, for the server is at another.
LEMMA BatchFreshStep ==
  ASSUME BaseInv, [Next]_vars
  PROVE  BatchFresh'
<1> USE DEF BaseInv
<1>0. KernelTypeOK /\ LoopFunctions
  BY DEF TypeInv, LoopTypeOK, LoopFunctions
<1> SUFFICES ASSUME NEW s \in Servers, NEW e \in batch'[s], e.conn # None
             PROVE  /\ Holds(e.conn)' /\ cur'[s] # e.conn
                    /\ \A e2 \in batch'[s] : e2.conn = e.conn => e2 = e
  BY DEF BatchFresh
<1>1. CASE epoll_wait(s)
  <2>1. batch'[s] = Ready(s) /\ cur' = cur /\ pc[s] = "events"
    BY <1>0, <1>1 DEF epoll_wait, LoopFunctions
  <2>2. \A e2 \in Ready(s) : e2.conn # None =>
          \E c \in Clients : e2 = Report(c) /\ reg[c] = s /\ e2.conn = c
    BY ReadyIs, ReportIs DEF Accepting
  <2>3. PICK c \in Clients : e = Report(c) /\ reg[c] = s /\ e.conn = c
    BY <2>1, <2>2
  <2>4. c # None /\ s # None
    BY ServerConstants
  <2>5. Holds(c)
    BY <2>3, <2>4 DEF Registered
  <2>6. cur[s] = None
    BY <2>1 DEF TypeInv, LoopTypeOK
  <2>7. Holds(c)'
    BY <1>1, <2>5 DEF epoll_wait, Holds, Behind
  <2> QED
    BY <2>1, <2>2, <2>3, <2>4, <2>6, <2>7
<1>2. CASE batch'[s] \subseteq batch[s]
  <2>1. PICK c : c = e.conn
    OBVIOUS
  <2>2. /\ e \in batch[s] /\ c \in Clients /\ Holds(c) /\ cur[s] # c
        /\ \A e2 \in batch[s] : e2.conn = c => e2 = e
    <3>1. e \in batch[s] /\ e \in Event
      BY <1>0, <1>2 DEF LoopFunctions
    <3> QED
      BY <2>1, <3>1 DEF BatchFresh, Event
  <2>3. Holds(c)'
    <3>1. \A t \in Servers : Handler(t) => cur[t] # c
      <4> SUFFICES ASSUME NEW t \in Servers, cur[t] = c PROVE FALSE
        OBVIOUS
      <4>1. At(s, c) /\ At(t, c)
        BY <2>1, <2>2 DEF At
      <4> QED
        BY <2>2, <4>1 DEF OneServer
    <3> QED
      BY <2>2, <3>1, HoldsStep
  <2>4. cur'[s] # c
    <3>1. c # None
      BY <2>1
    <3>2. ASSUME NEW f \in Fds, Takes(s, f), cur'[s] = Head(queue[s]) PROVE cur'[s] # c
      BY <2>2, <3>2, HeadQueued DEF Takes, Holds
    <3>3. ASSUME NEW e2 \in batch[s], cur'[s] = e2.conn, batch' = [batch EXCEPT ![s] = @ \ {e2}]
          PROVE  cur'[s] # c
      <4>1. batch'[s] = batch[s] \ {e2}
        BY <1>0, <3>3 DEF LoopFunctions
      <4>2. e2 # e
        BY <4>1
      <4> QED
        BY <2>2, <3>3, <4>2
    <3> QED
      BY <2>2, <3>1, <3>2, <3>3, CurStep
  <2> QED
    BY <1>2, <2>1, <2>2, <2>3, <2>4
<1> QED
  BY <1>1, <1>2, BatchStep
-----------------------------------------------------------------------------
(***************************************************************************)
(* Nothing that arrives is overlooked.                                     *)
(***************************************************************************)

\* AcceptPending, of one server.
Pending(s) ==
  \/ ledge[s] \/ Accepting \in batch[s] \/ pc[s] \in {"accept", "register"}
  \/ refused[s] \/ undefined

\* A server leaves the accept loop when its queue is empty, or for want of a
\* descriptor.
LEMMA AcceptPendingStep ==
  ASSUME TypeInv, Owned, AcceptPending, [Next]_vars
  PROVE  AcceptPending'
<1>0. KernelTypeOK /\ LoopFunctions
  BY DEF TypeInv, LoopTypeOK, LoopFunctions
<1> SUFFICES ASSUME NEW s \in Servers, queue'[s] # <<>>
             PROVE  Pending(s)'
  BY DEF AcceptPending, Pending
<1> USE DEF Pending
<1>1. ASSUME NEW c \in Clients, NEW t \in Servers, Connect(c, t)
      PROVE  Pending(s)'
  <2>1. t = s => ledge'[s]
    BY <1>0, <1>1 DEF Connect, KernelTypeOK
  <2>2. t # s => queue'[s] = queue[s] /\ ledge'[s] = ledge[s]
    BY <1>0, <1>1 DEF Connect, KernelTypeOK
  <2> QED
    BY <1>1, <2>1, <2>2 DEF Connect, loop, hist, AcceptPending
<1>2. ASSUME NEW c \in Clients, NEW r \in Requests, Send(c, r)
      PROVE  Pending(s)'
  BY <1>2 DEF Send, loop, hist, AcceptPending
<1>12. ASSUME NEW c \in Clients, Shutdown(c)
       PROVE  Pending(s)'
  BY <1>12 DEF Shutdown, loop, hist, AcceptPending
<1>3. ASSUME NEW t \in Servers, epoll_wait(t)
      PROVE  Pending(s)'
  <2>1. UNCHANGED <<queue, pc, refused, undefined>> /\ batch[t] = {}
    BY <1>3 DEF epoll_wait, hist
  <2>2. t # s => ledge'[s] = ledge[s] /\ batch'[s] = batch[s]
    BY <1>0, <1>3 DEF epoll_wait, KernelTypeOK, LoopFunctions
  <2>3. t = s => (ledge[s] => Accepting \in batch'[s])
    BY <1>0, <1>3, ReadyIs DEF epoll_wait, LoopFunctions
  <2> QED
    BY <2>1, <2>2, <2>3 DEF AcceptPending
<1>4. ASSUME NEW t \in Servers, nextEvent(t)
      PROVE  Pending(s)'
  <2>1. UNCHANGED <<queue, ledge, refused, undefined>> /\ pc[t] = "events"
    BY <1>4 DEF nextEvent, kernel, hist
  <2>2. PICK e \in batch[t] :
          /\ batch' = [batch EXCEPT ![t] = @ \ {e}]
          /\ pc' = [pc EXCEPT ![t] = IF e.conn = None THEN "accept"
                                     ELSE IF e.hup THEN "hangup" ELSE "read"]
    BY <1>4 DEF nextEvent
  <2>3. t # s => batch'[s] = batch[s] /\ pc'[s] = pc[s]
    BY <1>0, <2>2 DEF LoopFunctions
  <2>4. e = Accepting => pc'[t] = "accept"
    BY <1>0, <2>2 DEF LoopFunctions, Accepting
  <2>5. e # Accepting /\ Accepting \in batch[t] => Accepting \in batch'[t]
    BY <1>0, <2>2 DEF LoopFunctions
  <2> QED
    BY <2>1, <2>3, <2>4, <2>5 DEF AcceptPending
<1>5. ASSUME NEW t \in Servers, accept4(t)
      PROVE  Pending(s)'
  <2>1. UNCHANGED <<ledge, batch, undefined>>
    BY <1>5 DEF accept4
  <2>2. CASE Refuses(t)
    <3>1. queue' = queue /\ (t # s => pc'[s] = pc[s] /\ refused'[s] = refused[s])
      BY <1>0, <2>2 DEF Refuses, LoopFunctions, KernelTypeOK
    <3>2. refused'[t] = (refused[t] \/ queue[t] # <<>>)
      BY <1>0, <2>2, Zenon DEF Refuses, KernelTypeOK
    <3> QED
      BY <2>1, <3>1, <3>2 DEF AcceptPending
  <2>3. ASSUME NEW f \in Fds, Takes(t, f)
        PROVE  Pending(s)'
    <3>1. t = s => pc'[s] = "register"
      BY <1>0, <2>3 DEF Takes, LoopFunctions
    <3>2. t # s => queue'[s] = queue[s] /\ pc'[s] = pc[s] /\ refused' = refused
      BY <1>0, <2>3 DEF Takes, LoopFunctions, KernelTypeOK
    <3> QED
      BY <2>1, <3>1, <3>2 DEF AcceptPending
  <2> QED
    BY <1>5, <2>2, <2>3, AcceptCases
<1>6. ASSUME NEW t \in Servers, register(t)
      PROVE  Pending(s)'
  <2>1. pc' = [pc EXCEPT ![t] = "accept"] /\ UNCHANGED <<queue, ledge, batch, refused, undefined>>
    BY <1>6 DEF register, AfterRegister, hist
  <2>2. t = s => pc'[s] = "accept"
    BY <1>0, <2>1 DEF LoopFunctions
  <2>3. t # s => pc'[s] = pc[s]
    BY <1>0, <2>1 DEF LoopFunctions
  <2> QED
    BY <2>1, <2>2, <2>3 DEF AcceptPending
<1>7. ASSUME NEW t \in Servers, Handler(t)
      PROVE  Pending(s)'
  <2>1. /\ Sockets(t) /\ Loop(t) /\ pc[t] \in {"hangup", "answer", "close", "again"}
        /\ refused' = refused /\ ~ undefined
    BY <1>7, HandlerEffect DEF Handler
  <2>2. queue' = queue /\ ledge' = ledge
    BY <2>1 DEF Sockets, CloseSocket, kernel
  <2>3. batch' = batch /\ (pc[s] \in {"accept", "register"} => pc'[s] = pc[s])
    BY <2>1 DEF Loop
  <2> QED
    BY <2>1, <2>2, <2>3 DEF AcceptPending
<1>8. ASSUME NEW t \in Servers, read(t)
      PROVE  Pending(s)'
  <2>1. /\ UNCHANGED <<queue, ledge, batch, refused>> /\ ~ undefined /\ pc[t] = "read"
    BY <1>8, ReadCases DEF kernel, hist
  <2>2. pc[s] \in {"accept", "register"} => pc'[s] = pc[s]
    BY <1>0, <1>8, <2>1, ReadCases DEF ReadsNothing, Reads, LoopFunctions
  <2> QED
    BY <2>1, <2>2, Zenon DEF AcceptPending
<1>9. ASSUME NEW t \in Servers, misuse(t)
      PROVE  Pending(s)'
  BY <1>9 DEF misuse
<1>10. CASE UNCHANGED vars
  BY <1>10 DEF vars, kernel, loop, hist, AcceptPending
<1> HIDE DEF Pending
<1> QED
  BY <1>1, <1>2, <1>3, <1>4, <1>5, <1>6, <1>7, <1>8, <1>9, <1>10, <1>12
     DEF Next, Client, Server, Handler

\* NoLostEdge, of one connection.
Seen(d) ==
  reg[d] # None =>
    /\ inbox[d] # <<>> => WillRead(reg[d], d)
    /\ shut[d] => WillHangup(reg[d], d)

\* Nothing happens that has to do with the events of a connection.
LEMMA SeenStill ==
  ASSUME NEW d \in Clients, Seen(d),
         UNCHANGED <<reg, inbox, shut, edge, batch, cur, pc, full>>
  PROVE  Seen(d)'
BY DEF Seen, WillRead, WillHangup

\* Each step keeps NoLostEdge: only a read that is not full ends the input
\* loop, and it has read everything.
LEMMA SeenStep ==
  ASSUME BaseInv, NEW d \in Clients, ~ undefined => Seen(d), [Next]_vars, ~ undefined'
  PROVE  Seen(d)'
<1> USE DEF BaseInv
<1>0. KernelTypeOK /\ LoopFunctions
  BY DEF TypeInv, LoopTypeOK, LoopFunctions
<1>a. ~ undefined => Seen(d)
  OBVIOUS
<1>b. d # None
  BY ServerConstants
<1>1. ASSUME NEW c \in Clients, NEW s \in Servers, Connect(c, s)
      PROVE  Seen(d)'
  BY <1>1, SeenStill DEF Connect, net, loop
<1>2. ASSUME NEW c \in Clients, NEW r \in Requests, Send(c, r)
      PROVE  Seen(d)'
  <2>1. /\ ~ undefined /\ UNCHANGED <<reg, shut, batch, cur, pc, full>>
        /\ inbox' = [inbox EXCEPT ![c] = Append(@, r)]
        /\ edge' = [edge EXCEPT ![c] = reg[c] # None]
    BY <1>2 DEF Send, loop
  <2>2. CASE c = d
    <3>1. reg[d] # None => edge'[d]
      BY <1>0, <2>1, <2>2 DEF KernelTypeOK
    <3> QED
      BY <2>1, <3>1 DEF Seen, WillRead, WillHangup
  <2>3. CASE c # d
    <3>1. inbox'[d] = inbox[d] /\ edge'[d] = edge[d]
      BY <1>0, <2>1, <2>3 DEF KernelTypeOK
    <3> QED
      BY <2>1, <3>1 DEF Seen, WillRead, WillHangup
  <2> QED
    BY <2>2, <2>3
<1>3. ASSUME NEW c \in Clients, Shutdown(c)
      PROVE  Seen(d)'
  <2>1. /\ ~ undefined /\ UNCHANGED <<reg, inbox, batch, cur, pc, full>>
        /\ shut' = [shut EXCEPT ![c] = TRUE]
        /\ edge' = [edge EXCEPT ![c] = reg[c] # None]
    BY <1>3 DEF Shutdown, loop
  <2>2. CASE c = d
    <3>1. reg[d] # None => edge'[d]
      BY <1>0, <2>1, <2>2 DEF KernelTypeOK
    <3> QED
      BY <2>1, <3>1 DEF Seen, WillRead, WillHangup
  <2>3. CASE c # d
    <3>1. shut'[d] = shut[d] /\ edge'[d] = edge[d]
      BY <1>0, <2>1, <2>3 DEF KernelTypeOK
    <3> QED
      BY <2>1, <3>1 DEF Seen, WillRead, WillHangup
  <2> QED
    BY <2>2, <2>3
<1>4. ASSUME NEW s \in Servers, epoll_wait(s)
      PROVE  Seen(d)'
  <2>1. /\ ~ undefined /\ UNCHANGED <<reg, inbox, shut, cur, pc, full>>
        /\ batch[s] = {} /\ batch' = [batch EXCEPT ![s] = Ready(s)]
        /\ edge' = [c \in Clients |-> edge[c] /\ reg[c] # s]
    BY <1>4 DEF epoll_wait, net
  <2>2. CASE reg[d] = s
    <3>1. batch'[s] = Ready(s) /\ reg'[d] = s
      BY <1>0, <2>1, <2>2 DEF LoopFunctions
    <3>2. edge[d] /\ (shut[d] \/ inbox[d] # <<>>) =>
            /\ Report(d) \in batch'[s] /\ Report(d).conn = d
            /\ shut[d] => [conn |-> d, hup |-> TRUE] \in batch'[s]
      BY <2>2, <3>1, ReadyIs, ReportIs, ZenonT(60)
    <3>3. s # None
      BY ServerConstants
    <3>4. inbox[d] # <<>> => WillRead(s, d)'
      BY <1>a, <2>1, <2>2, <3>2, <3>3 DEF Seen, WillRead
    <3>5. shut[d] => WillHangup(s, d)'
      BY <1>a, <2>1, <2>2, <3>2, <3>3 DEF Seen, WillHangup
    <3> QED
      BY <2>1, <3>1, <3>4, <3>5 DEF Seen, WillRead, WillHangup
  <2>3. CASE reg[d] # s
    <3>1. edge'[d] = edge[d] /\ (reg[d] # None => batch'[reg[d]] = batch[reg[d]])
      <4>1. reg[d] \in Servers \union {None} /\ edge[d] \in BOOLEAN
        BY <1>0 DEF KernelTypeOK
      <4> QED
        BY <1>0, <2>1, <2>3, <4>1 DEF LoopFunctions
    <3> QED
      BY <1>a, <2>1, <3>1 DEF Seen, WillRead, WillHangup
  <2> QED
    BY <2>2, <2>3
<1>5. ASSUME NEW s \in Servers, nextEvent(s)
      PROVE  Seen(d)'
  <2>1. ~ undefined /\ UNCHANGED <<reg, inbox, shut, edge, full>> /\ pc[s] = "events"
    BY <1>5 DEF nextEvent, net, kernel
  <2>2. PICK e \in batch[s] :
          /\ batch' = [batch EXCEPT ![s] = @ \ {e}]
          /\ cur' = [cur EXCEPT ![s] = e.conn]
          /\ pc' = [pc EXCEPT ![s] = IF e.conn = None THEN "accept"
                                     ELSE IF e.hup THEN "hangup" ELSE "read"]
    BY <1>5 DEF nextEvent
  <2>3. cur[s] = None /\ Seen(d)
    BY <1>a, <2>1 DEF TypeInv, LoopTypeOK
  <2>4. CASE reg[d] = s
    <3>1. /\ batch'[s] = batch[s] \ {e} /\ cur'[s] = e.conn
          /\ pc'[s] = IF e.conn = None THEN "accept" ELSE IF e.hup THEN "hangup" ELSE "read"
      BY <1>0, <2>2 DEF LoopFunctions
    <3>2. WillRead(s, d) => WillRead(s, d)'
      BY <1>b, <2>1, <2>3, <3>1 DEF WillRead
    <3>3. WillHangup(s, d) => WillHangup(s, d)'
      <4> DEFINE h == [conn |-> d, hup |-> TRUE]
      <4>1. h.conn = d /\ h.hup = TRUE
        OBVIOUS
      <4> HIDE DEF h
      <4>2. WillHangup(s, d) => edge[d] \/ h \in batch[s]
        BY <1>b, <2>3 DEF WillHangup, h
      <4>3. h \in batch[s] => h \in batch'[s] \/ (cur'[s] = d /\ pc'[s] = "hangup")
        BY <1>b, <3>1, <4>1
      <4> QED
        BY <2>1, <4>2, <4>3 DEF WillHangup, h
    <3> QED
      BY <2>1, <2>3, <2>4, <3>2, <3>3 DEF Seen, WillRead, WillHangup
  <2>5. CASE reg[d] # s
    <3>1. reg[d] # None => /\ batch'[reg[d]] = batch[reg[d]] /\ cur'[reg[d]] = cur[reg[d]]
                           /\ pc'[reg[d]] = pc[reg[d]]
      <4>1. reg[d] \in Servers \union {None}
        BY <1>0 DEF KernelTypeOK
      <4> QED
        BY <1>0, <2>2, <2>5, <4>1 DEF LoopFunctions
    <3> QED
      BY <2>1, <2>3, <3>1 DEF Seen, WillRead, WillHangup
  <2> QED
    BY <2>4, <2>5
<1>6. ASSUME NEW s \in Servers, accept4(s)
      PROVE  Seen(d)'
  <2>1. ~ undefined /\ UNCHANGED <<reg, inbox, shut, edge, batch, full>> /\ pc[s] = "accept"
    BY <1>6, AcceptCases DEF AcceptRest, net
  <2>2. cur[s] = None /\ Seen(d)
    BY <1>a, <2>1 DEF TypeInv, LoopTypeOK
  <2>3. reg[d] # None /\ cur[reg[d]] = d =>
          cur'[reg[d]] = d /\ pc'[reg[d]] = pc[reg[d]]
    <3>1. reg[d] \in Servers \union {None}
      BY <1>0 DEF KernelTypeOK
    <3>2. \A t \in Servers : t # s => cur'[t] = cur[t] /\ pc'[t] = pc[t]
      BY <1>0, <1>6, AcceptCases DEF Refuses, Takes, LoopFunctions
    <3> QED
      BY <1>b, <2>2, <3>1, <3>2
  <2> QED
    BY <2>1, <2>2, <2>3 DEF Seen, WillRead, WillHangup
<1>7. ASSUME NEW s \in Servers, register(s)
      PROVE  Seen(d)'
  <2>1. /\ ~ undefined /\ UNCHANGED <<inbox, shut, batch, full>> /\ pc[s] = "register"
        /\ reg' = [reg EXCEPT ![cur[s]] = s]
        /\ edge' = [edge EXCEPT ![cur[s]] = shut[cur[s]] \/ inbox[cur[s]] # <<>>]
        /\ pc' = [pc EXCEPT ![s] = "accept"] /\ cur' = [cur EXCEPT ![s] = None]
    BY <1>7 DEF register, AfterRegister, net
  <2>2. CASE cur[s] = d
    <3>1. edge'[d] = (shut[d] \/ inbox[d] # <<>>)
      BY <1>0, <2>1, <2>2, Zenon DEF KernelTypeOK
    <3> QED
      BY <2>1, <3>1 DEF Seen, WillRead, WillHangup
  <2>3. CASE cur[s] # d
    <3>1. reg'[d] = reg[d] /\ edge'[d] = edge[d]
      BY <1>0, <2>1, <2>3 DEF KernelTypeOK
    <3>2. reg[d] # None /\ cur[reg[d]] = d => cur'[reg[d]] = d /\ pc'[reg[d]] = pc[reg[d]]
      <4>1. reg[d] \in Servers \union {None}
        BY <1>0 DEF KernelTypeOK
      <4> QED
        BY <1>0, <2>1, <2>3, <4>1 DEF LoopFunctions
    <3> QED
      BY <1>a, <2>1, <3>1, <3>2 DEF Seen, WillRead, WillHangup
  <2> QED
    BY <2>2, <2>3
<1>8. ASSUME NEW s \in Servers, Handler(s)
      PROVE  Seen(d)'
  <2>1. /\ Sockets(s) /\ Loop(s) /\ UNCHANGED net /\ pc[s] \in {"hangup", "answer", "close", "again"}
        /\ ~ undefined
    BY <1>8, HandlerEffect DEF Handler
  <2>2. cur[s] \in Clients /\ cur[s] # None
    BY <2>1, AtConnection
  <2>3. batch' = batch /\ shut' = shut /\ Seen(d)
    BY <1>a, <2>1 DEF Loop, net
  <2>4. reg[d] \in Servers \union {None}
    BY <1>0 DEF KernelTypeOK
  <2>5. CASE d = cur[s] /\ reg'[d] = None
    BY <2>5 DEF Seen
  <2>6. CASE d = cur[s] /\ reg'[d] # None
    <3>1. UNCHANGED <<kernel, inbox>>
      BY <1>0, <2>1, <2>2, <2>6 DEF Sockets, CloseSocket, KernelTypeOK
    <3>2. reg[d] = s /\ Behind(d) = d
      <4>1. reg[d] # None
        BY <2>6, <3>1 DEF kernel
      <4>2. At(s, d) /\ At(reg[d], d)
        BY <2>6 DEF At
      <4> QED
        BY <2>4, <4>1, <4>2 DEF OneServer, Registered, Holds
    <3>3. pc[s] # "hangup"
      <4>1. CloseSocket(d) => reg'[d] = None
        BY <1>0 DEF CloseSocket, KernelTypeOK
      <4> QED
        BY <1>8, <2>6, <3>2, <4>1 DEF Handler, hangup, answer, close
    <3>4. full[s] => cur'[s] = d /\ (full'[s] \/ pc'[s] = "read")
      BY <2>1, <2>6, <3>3 DEF Loop
    <3> QED
      BY <2>1, <2>3, <2>6, <3>1, <3>2, <3>3, <3>4 DEF Seen, WillRead, WillHangup, kernel
  <2>7. CASE d # cur[s]
    <3>1. reg'[d] = reg[d] /\ edge'[d] = edge[d] /\ inbox'[d] = inbox[d]
      BY <1>0, <2>1, <2>7 DEF Sockets, CloseSocket, kernel, KernelTypeOK
    <3>2. \A t \in Servers : cur[t] = d => cur'[t] = d /\ pc'[t] = pc[t] /\ full'[t] = full[t]
      BY <2>1, <2>7 DEF Loop
    <3> QED
      BY <2>3, <2>4, <3>1, <3>2 DEF Seen, WillRead, WillHangup
  <2> QED
    BY <2>5, <2>6, <2>7
<1>9. ASSUME NEW s \in Servers, read(s)
      PROVE  Seen(d)'
  <2>1. ~ undefined /\ UNCHANGED <<net, kernel, batch>> /\ pc[s] = "read"
    BY <1>9, ReadCases
  <2>2. cur[s] \in Clients /\ cur[s] # None /\ reg[d] \in Servers \union {None} /\ Seen(d)
    BY <1>0, <1>a, <2>1, AtConnection DEF KernelTypeOK
  <2>3. UNCHANGED <<reg, shut, edge>>
    BY <2>1 DEF net, kernel
  <2>4. reg[d] # None /\ WillHangup(reg[d], d) => WillHangup(reg[d], d)'
    <3>1. \A t \in Servers : pc[t] = "hangup" => cur'[t] = cur[t] /\ pc'[t] = "hangup"
      BY <1>0, <1>9, <2>1, ReadCases DEF ReadsNothing, Reads, LoopFunctions
    <3>2. reg[d] # None =>
            (cur[reg[d]] = d /\ pc[reg[d]] = "hangup" => cur'[reg[d]] = d /\ pc'[reg[d]] = "hangup")
      BY <2>2, <3>1
    <3> QED
      BY <2>1, <2>3, <3>2 DEF WillHangup
  <2>5. CASE ReadsNothing(s)
    <3>1. inbox' = inbox /\ full' = full
      BY <2>5 DEF ReadsNothing
    <3>2. ASSUME reg[d] # None, inbox[d] # <<>>, cur[reg[d]] = d
          PROVE  cur'[reg[d]] = d /\ pc'[reg[d]] = pc[reg[d]]
      <4>1. reg[d] # s
        <5>1. Behind(d) = d
          BY <3>2 DEF Registered, Holds
        <5> QED
          BY <1>b, <2>5, <3>2, <5>1 DEF ReadsNothing
      <4> QED
        BY <1>0, <2>2, <2>5, <3>2, <4>1 DEF ReadsNothing, LoopFunctions
    <3>3. reg[d] # None /\ inbox[d] # <<>> /\ WillRead(reg[d], d) => WillRead(reg[d], d)'
      BY <2>1, <2>3, <3>1, <3>2 DEF WillRead
    <3> QED
      BY <2>2, <2>3, <2>4, <3>1, <3>3 DEF Seen, WillRead, WillHangup
  <2>6. ASSUME NEW n \in Nat, Reads(s, n)
        PROVE  Seen(d)'
    <3>1. CASE d = cur[s] /\ reg[d] = s
      <4>1. inbox[d] \in Seq(Requests)
        BY <1>0 DEF KernelTypeOK
      <4>2. inbox'[d] # <<>> => n # Len(inbox[d])
        BY <1>0, <2>6, <3>1, <4>1, SubSeqParts DEF Reads, KernelTypeOK
      <4>3. cur'[s] = d /\ full'[s] = (n = ReadBufSize)
        BY <1>0, <2>6, <3>1 DEF Reads, LoopFunctions
      <4>4. inbox'[d] # <<>> => WillRead(s, d)'
        BY <2>6, <3>1, <4>2, <4>3 DEF Reads, WillRead
      <4>5. shut'[d] => WillHangup(reg[d], d)'
        BY <2>2, <2>3, <2>4, <3>1, ServerConstants DEF Seen
      <4> QED
        BY <2>3, <3>1, <4>4, <4>5 DEF Seen, WillRead, WillHangup
    <3>2. CASE ~ (d = cur[s] /\ reg[d] = s)
      <4>1. inbox'[d] # <<>> => inbox[d] # <<>>
        <5>1. d = cur[s] => inbox[d] # <<>>
          BY <2>6 DEF Reads
        <5>2. d # cur[s] => inbox'[d] = inbox[d]
          BY <1>0, <2>6 DEF Reads, KernelTypeOK
        <5> QED
          BY <5>1, <5>2
      <4>2. reg[d] # None =>
              (cur[reg[d]] = d /\ (full[reg[d]] \/ pc[reg[d]] \in {"read", "hangup"}) =>
               cur'[reg[d]] = d /\ (full'[reg[d]] \/ pc'[reg[d]] \in {"read", "hangup"}))
        <5>1. ASSUME NEW t \in Servers, cur[t] = d, t = reg[d]
              PROVE  cur'[t] = d /\ full'[t] = full[t] /\ pc'[t] = pc[t]
          <6>1. t # s
            BY <3>2, <5>1
          <6> QED
            BY <1>0, <2>6, <5>1, <6>1 DEF Reads, LoopFunctions
        <5> QED
          BY <2>2, <5>1
      <4>3. reg[d] # None /\ WillRead(reg[d], d) => WillRead(reg[d], d)'
        BY <2>1, <2>3, <4>2 DEF WillRead
      <4> QED
        BY <2>2, <2>3, <2>4, <4>1, <4>3 DEF Seen, WillRead, WillHangup
    <3> QED
      BY <3>1, <3>2
  <2> QED
    BY <1>9, <2>5, <2>6, ReadCases
<1>10. ASSUME NEW s \in Servers, misuse(s)
       PROVE  Seen(d)'
  BY <1>10 DEF misuse
<1>11. CASE UNCHANGED vars
  BY <1>a, <1>11, SeenStill DEF vars, kernel, loop, net
<1> QED
  BY <1>1, <1>2, <1>3, <1>4, <1>5, <1>6, <1>7, <1>8, <1>9, <1>10, <1>11
     DEF Next, Client, Server, Handler
-----------------------------------------------------------------------------
(***************************************************************************)
(* Requests: what was sent is answered, in the buffer or unread.           *)
(***************************************************************************)

\* The length of a sequence: what is said of lengths below is arithmetic.
Count(q) == Len(q)

\* Lengths are numbers.
LEMMA CountIs ==
  ASSUME NEW S, NEW q \in Seq(S)
  PROVE  Count(q) \in Nat /\ (q # <<>> => Count(q) > 0)
BY SeqParts DEF Count

\* The empty sequence.
LEMMA CountEmpty == Count(<<>>) = 0
BY DEF Count

\* A sequence without its first element.
LEMMA CountTail ==
  ASSUME NEW S, NEW q \in Seq(S), q # <<>>
  PROVE  /\ Head(q) = q[1] /\ Count(Tail(q)) = Count(q) - 1
         /\ \A i \in 1 .. Count(q) - 1 : Tail(q)[i] = q[i + 1]
BY SeqParts DEF Count

\* A sequence with one more element.
LEMMA CountAppend ==
  ASSUME NEW S, NEW q \in Seq(S), NEW r \in S
  PROVE  /\ Count(Append(q, r)) = Count(q) + 1 /\ Append(q, r)[Count(q) + 1] = r
         /\ \A i \in 1 .. Count(q) : Append(q, r)[i] = q[i]
BY DEF Count

\* A sequence that is cut in two.
LEMMA CountSub ==
  ASSUME NEW S, NEW q \in Seq(S), NEW n \in Nat, n \in 1 .. Count(q)
  PROVE  /\ Count(SubSeq(q, 1, n)) = n
         /\ \A i \in 1 .. n : SubSeq(q, 1, n)[i] = q[i]
         /\ Count(SubSeq(q, n + 1, Len(q))) = Count(q) - n
         /\ \A i \in 1 .. Count(q) - n : SubSeq(q, n + 1, Len(q))[i] = q[n + i]
BY SubSeqParts DEF Count

\* What is unread is the end of what was sent.
InboxSent ==
  \A c \in Clients :
    /\ answered[c] + Count(inbox[c]) <= Count(sent[c]) /\ Count(sent[c]) <= MaxSent
    /\ \A i \in 1 .. Count(inbox[c]) : inbox[c][i] = sent[c][Count(sent[c]) - Count(inbox[c]) + i]

\* Server s handles a buffer.
Busy(s) == pc[s] \in {"answer", "close", "again"}

\* The buffer of server s is what c has sent after its first k requests.
Hand(s, c, k) ==
  /\ k + Count(buf[s]) + Count(inbox[c]) <= Count(sent[c])
  /\ \A i \in 1 .. Count(buf[s]) : buf[s][i] = sent[c][k + i]
  /\ answered[c] <= IF pc[s] = "answer" THEN k ELSE k + 1
  /\ full[s] => Count(sent[c]) >= ReadBufSize

\* Every buffer in hand is a part of what its client has sent.
InHand == \A s \in Servers : Busy(s) => \E k \in Nat : Hand(s, cur[s], k)

\* The types of the sequences and their lengths.
LEMMA Lengths ==
  ASSUME TypeInv
  PROVE  /\ \A c \in Clients : /\ sent[c] \in Seq(Requests) /\ inbox[c] \in Seq(Requests)
                               /\ Count(sent[c]) \in Nat /\ Count(inbox[c]) \in Nat
                               /\ answered[c] \in Nat
         /\ \A s \in Servers : /\ buf[s] \in Seq(Requests) /\ Count(buf[s]) \in Nat
                               /\ Busy(s) => /\ buf[s] # <<>> /\ Count(buf[s]) > 0
                                             /\ cur[s] \in Clients
<1>1. \A c \in Clients : /\ sent[c] \in Seq(Requests) /\ inbox[c] \in Seq(Requests)
                         /\ answered[c] \in Nat
  BY DEF TypeInv, KernelTypeOK
<1>2. \A s \in Servers : buf[s] \in Seq(Requests) /\ (Busy(s) => buf[s] # <<>>)
  BY DEF TypeInv, LoopTypeOK, Busy
<1>3. \A s \in Servers : Busy(s) => cur[s] \in Clients
  BY AtConnection DEF Busy
<1>4. \A s \in Servers : Busy(s) => Count(buf[s]) > 0
  BY <1>2, CountIs
<1> QED
  BY <1>1, <1>2, <1>3, <1>4, CountIs

\* What does not touch a buffer, and reads nothing.
LEMMA CalmStep ==
  ASSUME TypeInv, InboxSent, InHand, sent' = sent, answered' = answered,
         \A c \in Clients : inbox'[c] = inbox[c] \/ inbox'[c] = <<>>,
         \A s \in Servers : Busy(s)' =>
           pc'[s] = pc[s] /\ buf'[s] = buf[s] /\ full'[s] = full[s] /\ cur'[s] = cur[s]
  PROVE  InboxSent' /\ InHand'
<1>1. \A c \in Clients : Count(inbox'[c]) <= Count(inbox[c]) /\ Count(inbox'[c]) \in Nat
  <2> QED
    BY CountEmpty, Lengths
<1>2. InboxSent'
  <2> SUFFICES ASSUME NEW c \in Clients
               PROVE  /\ answered[c] + Count(inbox'[c]) <= Count(sent[c]) /\ Count(sent[c]) <= MaxSent
                      /\ \A i \in 1 .. Count(inbox'[c]) :
                           inbox'[c][i] = sent[c][Count(sent[c]) - Count(inbox'[c]) + i]
    BY DEF InboxSent
  <2>1. answered[c] + Count(inbox'[c]) <= Count(sent[c]) /\ Count(sent[c]) <= MaxSent
    <3>1. answered[c] + Count(inbox[c]) <= Count(sent[c]) /\ Count(sent[c]) <= MaxSent
      BY DEF InboxSent
    <3> QED
      BY <1>1, <3>1, Lengths
  <2>2. CASE inbox'[c] = inbox[c]
    BY <2>1, <2>2 DEF InboxSent
  <2>3. CASE inbox'[c] = <<>>
    <3>1. 1 .. Count(inbox'[c]) = {}
      BY <2>3, CountEmpty
    <3> QED
      BY <2>1, <3>1
  <2> QED
    BY <2>2, <2>3
<1>3. InHand'
  <2> SUFFICES ASSUME NEW s \in Servers, Busy(s)'
               PROVE  \E k \in Nat : Hand(s, cur[s], k)'
    BY DEF InHand, Hand
  <2>1. pc'[s] = pc[s] /\ buf'[s] = buf[s] /\ full'[s] = full[s] /\ cur'[s] = cur[s] /\ Busy(s)
    BY DEF Busy
  <2>2. PICK c \in Clients : c = cur[s]
    BY <2>1, Lengths
  <2>3. PICK k \in Nat : Hand(s, c, k)
    BY <2>1, <2>2 DEF InHand
  <2>4. k + Count(buf[s]) + Count(inbox'[c]) <= Count(sent[c])
    <3>1. k + Count(buf[s]) + Count(inbox[c]) <= Count(sent[c])
      BY <2>3 DEF Hand
    <3>2. /\ Count(buf[s]) \in Nat /\ Count(inbox[c]) \in Nat /\ Count(inbox'[c]) \in Nat
          /\ Count(inbox'[c]) <= Count(inbox[c]) /\ Count(sent[c]) \in Nat
      BY <1>1, Lengths
    <3> QED
      BY <3>1, <3>2
  <2>5. Hand(s, c, k)'
    BY <2>1, <2>3, <2>4 DEF Hand
  <2>6. cur'[s] = c
    BY <2>1, <2>2
  <2> QED
    BY <2>5, <2>6 DEF Hand
<1> QED
  BY <1>2, <1>3

\* Send adds to both ends of the equation, read moves requests from the socket
\* to the buffer, and an answer takes one out of it.
LEMMA CountStep ==
  ASSUME BaseInv, InboxSent, InHand, [Next]_vars
  PROVE  InboxSent' /\ InHand' /\ answered' \in [Clients -> Nat]
<1> USE DEF BaseInv
<1>0. /\ KernelTypeOK /\ LoopFunctions /\ answered \in [Clients -> Nat]
  BY DEF TypeInv, LoopTypeOK, LoopFunctions
<1>1. ASSUME NEW c \in Clients, NEW s \in Servers, Connect(c, s)
      PROVE  InboxSent' /\ InHand' /\ answered' \in [Clients -> Nat]
  BY <1>0, <1>1, CalmStep DEF Connect, net, loop, hist, Busy
<1>2. ASSUME NEW c \in Clients, NEW r \in Requests, Send(c, r)
      PROVE  InboxSent' /\ InHand' /\ answered' \in [Clients -> Nat]
  <2>1. /\ Count(sent[c]) < MaxSent /\ UNCHANGED <<answered, pc, cur, buf, full>>
        /\ sent' = [sent EXCEPT ![c] = Append(sent[c], r)]
        /\ inbox' = [inbox EXCEPT ![c] = Append(inbox[c], r)]
    BY <1>2 DEF Send, loop, hist, Count
  <2>2. /\ sent'[c] = Append(sent[c], r) /\ inbox'[c] = Append(inbox[c], r)
        /\ \A d \in Clients : d # c => sent'[d] = sent[d] /\ inbox'[d] = inbox[d]
    BY <1>0, <2>1 DEF KernelTypeOK
  <2>3. /\ Count(sent'[c]) = Count(sent[c]) + 1 /\ sent'[c][Count(sent[c]) + 1] = r
        /\ \A i \in 1 .. Count(sent[c]) : sent'[c][i] = sent[c][i]
        /\ Count(inbox'[c]) = Count(inbox[c]) + 1 /\ inbox'[c][Count(inbox[c]) + 1] = r
        /\ \A i \in 1 .. Count(inbox[c]) : inbox'[c][i] = inbox[c][i]
    <3>1. sent[c] \in Seq(Requests) /\ inbox[c] \in Seq(Requests)
      BY Lengths
    <3>2. /\ Count(Append(sent[c], r)) = Count(sent[c]) + 1
          /\ Append(sent[c], r)[Count(sent[c]) + 1] = r
          /\ \A i \in 1 .. Count(sent[c]) : Append(sent[c], r)[i] = sent[c][i]
      BY <3>1, CountAppend, ZenonT(60)
    <3>3. /\ Count(Append(inbox[c], r)) = Count(inbox[c]) + 1
          /\ Append(inbox[c], r)[Count(inbox[c]) + 1] = r
          /\ \A i \in 1 .. Count(inbox[c]) : Append(inbox[c], r)[i] = inbox[c][i]
      BY <3>1, CountAppend, ZenonT(60)
    <3> QED
      BY <2>2, <3>2, <3>3, Zenon
  <2>4. /\ Count(sent[c]) \in Nat /\ Count(inbox[c]) \in Nat /\ answered[c] \in Nat
        /\ answered[c] + Count(inbox[c]) <= Count(sent[c]) /\ MaxSent \in Nat
    BY Lengths, ServerConstants DEF InboxSent
  <2>5. /\ answered[c] + Count(inbox'[c]) <= Count(sent'[c]) /\ Count(sent'[c]) <= MaxSent
    BY <2>1, <2>3, <2>4
  <2>6. ASSUME NEW i \in 1 .. Count(inbox'[c])
        PROVE  inbox'[c][i] = sent'[c][Count(sent'[c]) - Count(inbox'[c]) + i]
    <3> DEFINE k == Count(inbox[c])
               m == Count(sent[c])
    <3>1. k \in Nat /\ m \in Nat /\ k <= m /\ i \in 1 .. k + 1
      BY <2>3, <2>4, <2>6
    <3>2. Count(sent'[c]) - Count(inbox'[c]) + i = m - k + i
      BY <2>3, <3>1
    <3>3. CASE i = k + 1
      <4>1. m - k + i = m + 1
        BY <3>1, <3>3
      <4> QED
        BY <2>3, <3>2, <3>3, <4>1
    <3>4. CASE i # k + 1
      <4>1. i \in 1 .. k /\ m - k + i \in 1 .. m
        BY <3>1, <3>4
      <4>2. inbox[c][i] = sent[c][m - k + i]
        BY <4>1 DEF InboxSent
      <4> QED
        BY <2>3, <3>2, <4>1, <4>2
    <3> QED
      BY <3>3, <3>4
  <2>7. InboxSent'
    <3> SUFFICES ASSUME NEW d \in Clients
                 PROVE  /\ answered'[d] + Count(inbox'[d]) <= Count(sent'[d])
                        /\ Count(sent'[d]) <= MaxSent
                        /\ \A i \in 1 .. Count(inbox'[d]) :
                             inbox'[d][i] = sent'[d][Count(sent'[d]) - Count(inbox'[d]) + i]
      BY DEF InboxSent
    <3>1. CASE d = c
      BY <2>1, <2>5, <2>6, <3>1
    <3>2. CASE d # c
      BY <2>1, <2>2, <3>2 DEF InboxSent
    <3> QED
      BY <3>1, <3>2
  <2>8. InHand'
    <3> SUFFICES ASSUME NEW s \in Servers, Busy(s)'
                 PROVE  \E k \in Nat : Hand(s, cur[s], k)'
      BY DEF InHand, Hand
    <3>1. Busy(s) /\ cur'[s] = cur[s]
      BY <2>1 DEF Busy
    <3>2. PICK d \in Clients : d = cur[s]
      BY <3>1, Lengths
    <3>3. PICK k \in Nat : Hand(s, d, k)
      BY <3>1, <3>2 DEF InHand
    <3>4. CASE d # c
      <4>1. Hand(s, d, k)'
        BY <2>1, <2>2, <3>3, <3>4 DEF Hand
      <4> QED
        BY <3>1, <3>2, <4>1 DEF Hand
    <3>5. CASE d = c
      <4>1. /\ k + Count(buf[s]) + Count(inbox[c]) <= Count(sent[c]) /\ Count(buf[s]) \in Nat
            /\ ReadBufSize \in Nat
        BY <3>3, <3>5, Lengths, ServerConstants DEF Hand
      <4>2. k + Count(buf[s]) + Count(inbox'[c]) <= Count(sent'[c])
        BY <2>3, <2>4, <4>1
      <4>3. \A i \in 1 .. Count(buf[s]) : buf[s][i] = sent'[c][k + i]
        <5> SUFFICES ASSUME NEW i \in 1 .. Count(buf[s]) PROVE buf[s][i] = sent'[c][k + i]
          OBVIOUS
        <5>1. k + i \in 1 .. Count(sent[c])
          BY <2>4, <4>1
        <5>2. buf[s][i] = sent[c][k + i]
          BY <3>3, <3>5 DEF Hand
        <5> QED
          BY <2>3, <5>1, <5>2
      <4>4. full[s] => Count(sent'[c]) >= ReadBufSize
        <5>1. full[s] => Count(sent[c]) >= ReadBufSize
          BY <3>3, <3>5 DEF Hand
        <5> QED
          BY <2>3, <2>4, <4>1, <5>1
      <4>5. Hand(s, c, k)'
        BY <2>1, <3>3, <3>5, <4>2, <4>3, <4>4 DEF Hand
      <4> QED
        BY <3>1, <3>2, <3>5, <4>5 DEF Hand
    <3> QED
      BY <3>4, <3>5
  <2> QED
    BY <1>0, <2>1, <2>7, <2>8
<1>3. ASSUME NEW c \in Clients, Shutdown(c)
      PROVE  InboxSent' /\ InHand' /\ answered' \in [Clients -> Nat]
  BY <1>0, <1>3, CalmStep DEF Shutdown, loop, hist, Busy
<1>4. ASSUME NEW s \in Servers, epoll_wait(s)
      PROVE  InboxSent' /\ InHand' /\ answered' \in [Clients -> Nat]
  BY <1>0, <1>4, CalmStep DEF epoll_wait, net, hist, Busy
<1>5. ASSUME NEW s \in Servers, nextEvent(s)
      PROVE  InboxSent' /\ InHand' /\ answered' \in [Clients -> Nat]
  <2>1. UNCHANGED <<sent, inbox, answered, buf, full>>
    BY <1>5 DEF nextEvent, net, hist
  <2>2. \A t \in Servers : Busy(t)' => pc'[t] = pc[t] /\ cur'[t] = cur[t]
    BY <1>0, <1>5 DEF nextEvent, LoopFunctions, Busy
  <2> QED
    BY <1>0, <2>1, <2>2, CalmStep
<1>6. ASSUME NEW s \in Servers, accept4(s)
      PROVE  InboxSent' /\ InHand' /\ answered' \in [Clients -> Nat]
  <2>1. UNCHANGED <<sent, inbox, answered, buf, full>>
    BY <1>6, AcceptCases DEF AcceptRest, net
  <2>2. \A t \in Servers : Busy(t)' => pc'[t] = pc[t] /\ cur'[t] = cur[t]
    BY <1>0, <1>6, AcceptCases DEF Refuses, Takes, LoopFunctions, Busy
  <2> QED
    BY <1>0, <2>1, <2>2, CalmStep
<1>7. ASSUME NEW s \in Servers, register(s)
      PROVE  InboxSent' /\ InHand' /\ answered' \in [Clients -> Nat]
  <2>1. UNCHANGED <<sent, inbox, answered, buf, full>>
    BY <1>7 DEF register, net, hist
  <2>2. \A t \in Servers : Busy(t)' => pc'[t] = pc[t] /\ cur'[t] = cur[t]
    BY <1>0, <1>7 DEF register, AfterRegister, LoopFunctions, Busy
  <2> QED
    BY <1>0, <2>1, <2>2, CalmStep
<1>8. ASSUME NEW s \in Servers, hangup(s)
      PROVE  InboxSent' /\ InHand' /\ answered' \in [Clients -> Nat]
  <2>1. UNCHANGED <<sent, answered, buf, full>>
    BY <1>8 DEF hangup, net, hist
  <2>2. \A t \in Servers : Busy(t)' => pc'[t] = pc[t] /\ cur'[t] = cur[t]
    BY <1>0, <1>8 DEF hangup, LoopFunctions, Busy
  <2>3. Sockets(s)
    BY <1>8, HandlerEffect
  <2>4. \A c \in Clients : inbox'[c] = inbox[c] \/ inbox'[c] = <<>>
    BY <1>0, <2>3 DEF Sockets, CloseSocket, KernelTypeOK
  <2> QED
    BY <1>0, <2>1, <2>2, <2>4, CalmStep
<1>9. ASSUME NEW s \in Servers, misuse(s)
      PROVE  InboxSent' /\ InHand' /\ answered' \in [Clients -> Nat]
  BY <1>0, <1>9, CalmStep DEF misuse, net, loop, hist, Busy
<1>10. CASE UNCHANGED vars
  BY <1>0, <1>10, CalmStep DEF vars, net, loop, hist, Busy
<1>11. ASSUME NEW s \in Servers, read(s)
       PROVE  InboxSent' /\ InHand' /\ answered' \in [Clients -> Nat]
  <2>1. pc[s] = "read" /\ UNCHANGED <<sent, answered>>
    BY <1>11, ReadCases DEF net, hist
  <2>2. CASE ReadsNothing(s)
    <3>1. \A t \in Servers : Busy(t)' => pc'[t] = pc[t] /\ cur'[t] = cur[t]
      BY <1>0, <2>2 DEF ReadsNothing, LoopFunctions, Busy
    <3> QED
      BY <1>0, <2>1, <2>2, <3>1, CalmStep DEF ReadsNothing
  <2>3. ASSUME NEW n \in Nat, Reads(s, n)
        PROVE  InboxSent' /\ InHand'
    <3>1. PICK c \in Clients : c = cur[s]
      BY <2>1, AtConnection
    <3> DEFINE k == Count(sent[c]) - Count(inbox[c])
    <3>2. /\ sent[c] \in Seq(Requests) /\ inbox[c] \in Seq(Requests)
          /\ Count(sent[c]) \in Nat /\ Count(inbox[c]) \in Nat /\ answered[c] \in Nat
          /\ answered[c] + Count(inbox[c]) <= Count(sent[c])
      BY Lengths DEF InboxSent
    <3>3. k \in Nat /\ answered[c] <= k /\ n \in 1 .. Count(inbox[c]) /\ n \in 1 .. Count(sent[c])
      <4>1. n \in 1 .. Count(inbox[c])
        BY <2>3, <3>1 DEF Reads, Count
      <4>2. n \in 1 .. Count(sent[c])
        BY <3>2, <4>1
      <4> QED
        BY <3>2, <4>1, <4>2
    <3>4. /\ buf'[s] = SubSeq(inbox[c], 1, n) /\ inbox'[c] = SubSeq(inbox[c], n + 1, Len(inbox[c]))
          /\ \A d \in Clients : d # c => inbox'[d] = inbox[d]
          /\ pc'[s] = "answer" /\ full'[s] = (n = ReadBufSize) /\ cur' = cur
          /\ \A t \in Servers : t # s => buf'[t] = buf[t] /\ pc'[t] = pc[t] /\ full'[t] = full[t]
      BY <1>0, <2>3, <3>1 DEF Reads, LoopFunctions, KernelTypeOK
    <3>5. /\ Count(buf'[s]) = n /\ Count(inbox'[c]) = Count(inbox[c]) - n
          /\ \A i \in 1 .. n : buf'[s][i] = inbox[c][i]
          /\ \A i \in 1 .. Count(inbox[c]) - n : inbox'[c][i] = inbox[c][n + i]
      <4>1. /\ Count(SubSeq(inbox[c], 1, n)) = n
            /\ \A i \in 1 .. n : SubSeq(inbox[c], 1, n)[i] = inbox[c][i]
            /\ Count(SubSeq(inbox[c], n + 1, Len(inbox[c]))) = Count(inbox[c]) - n
            /\ \A i \in 1 .. Count(inbox[c]) - n :
                 SubSeq(inbox[c], n + 1, Len(inbox[c]))[i] = inbox[c][n + i]
        BY <3>2, <3>3, CountSub
      <4> QED
        BY <3>4, <4>1, Zenon
    <3>6. \A i \in 1 .. Count(inbox[c]) : inbox[c][i] = sent[c][k + i]
      BY DEF InboxSent
    <3> HIDE DEF k
    <3>7. k + Count(inbox[c]) = Count(sent[c])
      BY <3>2 DEF k
    <3>8. InboxSent'
      <4> SUFFICES ASSUME NEW d \in Clients
                   PROVE  /\ answered[d] + Count(inbox'[d]) <= Count(sent[d]) /\ Count(sent[d]) <= MaxSent
                          /\ \A i \in 1 .. Count(inbox'[d]) :
                               inbox'[d][i] = sent[d][Count(sent[d]) - Count(inbox'[d]) + i]
        BY <2>1 DEF InboxSent
      <4>1. CASE d # c
        BY <3>4, <4>1 DEF InboxSent
      <4>2. CASE d = c
        <5>1. answered[c] + Count(inbox'[c]) <= Count(sent[c])
          BY <3>2, <3>3, <3>5
        <5>2. ASSUME NEW i \in 1 .. Count(inbox'[c])
              PROVE  inbox'[c][i] = sent[c][Count(sent[c]) - Count(inbox'[c]) + i]
          <6>1. i \in 1 .. Count(inbox[c]) - n
            BY <3>5
          <6>2. n + i \in 1 .. Count(inbox[c])
            BY <3>2, <3>3, <6>1
          <6>3. inbox'[c][i] = inbox[c][n + i]
            BY <3>5, <6>1
          <6>4. inbox[c][n + i] = sent[c][k + (n + i)]
            BY <3>6, <6>2
          <6>5. k + (n + i) = Count(sent[c]) - Count(inbox'[c]) + i
            BY <3>2, <3>3, <3>5, <3>7, <6>1
          <6> QED
            BY <6>3, <6>4, <6>5
        <5> QED
          BY <4>2, <5>1, <5>2 DEF InboxSent
      <4> QED
        BY <4>1, <4>2
    <3>9. ASSUME NEW t \in Servers, t # s, Busy(t)'
          PROVE  \E j \in Nat : Hand(t, cur[t], j)'
      <4>1. Busy(t) /\ cur'[t] = cur[t]
        BY <3>4, <3>9 DEF Busy
      <4>2. PICK d \in Clients : d = cur[t]
        BY <4>1, Lengths
      <4>3. PICK j \in Nat : Hand(t, d, j)
        BY <4>1, <4>2 DEF InHand
      <4>4. d # c
        <5>1. At(t, d) /\ At(s, c)
          BY <3>1, <4>2 DEF At
        <5> QED
          BY <3>9, <5>1 DEF OneServer
      <4>5. Hand(t, d, j)'
        BY <2>1, <3>4, <3>9, <4>3, <4>4 DEF Hand
      <4> QED
        BY <4>1, <4>2, <4>5 DEF Hand
    <3>10. \E j \in Nat : Hand(s, cur[s], j)'
      <4>1. k + Count(buf'[s]) + Count(inbox'[c]) <= Count(sent[c])
        BY <3>2, <3>3, <3>5, <3>7
      <4>2. \A i \in 1 .. n : buf'[s][i] = sent[c][k + i]
        <5> SUFFICES ASSUME NEW i \in 1 .. n PROVE buf'[s][i] = sent[c][k + i]
          OBVIOUS
        <5>1. i \in 1 .. Count(inbox[c])
          BY <3>2, <3>3
        <5> QED
          BY <3>5, <3>6, <5>1
      <4>3. full'[s] => Count(sent[c]) >= ReadBufSize
        <5>1. full'[s] => n = ReadBufSize
          BY <3>4
        <5>2. n <= Count(sent[c]) /\ Count(sent[c]) \in Nat
          BY <3>2, <3>3
        <5> QED
          BY <5>1, <5>2
      <4>4. PICK j \in Nat : j = k
        BY <3>3
      <4>5. Hand(s, c, j)'
        BY <2>1, <3>3, <3>4, <3>5, <4>1, <4>2, <4>3, <4>4 DEF Hand
      <4> QED
        BY <3>1, <3>4, <4>5 DEF Hand
    <3>11. InHand'
      <4>1. \A t \in Servers : Busy(t)' => \E j \in Nat : Hand(t, cur[t], j)'
        BY <3>9, <3>10
      <4> QED
        BY <4>1 DEF InHand, Hand
    <3> QED
      BY <3>8, <3>11
  <2> QED
    BY <1>0, <1>11, <2>1, <2>2, <2>3, ReadCases
<1>12. ASSUME NEW s \in Servers, answer(s) \/ close(s)
       PROVE  InboxSent' /\ InHand' /\ answered' \in [Clients -> Nat]
  <2>1. Busy(s) /\ sent' = sent /\ Loop(s) /\ Sockets(s)
    BY <1>12, HandlerEffect DEF answer, close, Busy, net
  <2>2. PICK c \in Clients : c = cur[s]
    BY <2>1, Lengths
  <2>3. PICK k \in Nat : Hand(s, c, k)
    BY <2>1, <2>2 DEF InHand
  <2>4. /\ answered' \in [Clients -> Nat] /\ \A d \in Clients : d # c => answered'[d] = answered[d]
        /\ answered'[c] <= k + 1
    <3>1. CASE close(s)
      <4>1. answered' = answered /\ pc[s] # "answer"
        BY <3>1 DEF close, hist
      <4> QED
        BY <1>0, <2>3, <4>1 DEF Hand
    <3>2. CASE answer(s)
      <4>1. pc[s] = "answer" /\ answered[c] \in Nat
        BY <1>0, <3>2 DEF answer
      <4>2. answered[c] <= k
        BY <2>3, <4>1 DEF Hand
      <4>3. answered' = [answered EXCEPT ![c] = answered[c] + 1] \/ answered' = answered
        BY <1>0, <2>2, <3>2 DEF answer
      <4> QED
        BY <1>0, <4>1, <4>2, <4>3
    <3> QED
      BY <1>12, <3>1, <3>2
  <2>5. /\ \A d \in Clients : d # c => inbox'[d] = inbox[d]
        /\ inbox'[c] = inbox[c] \/ inbox'[c] = <<>>
    BY <1>0, <2>1, <2>2 DEF Sockets, CloseSocket, KernelTypeOK
  <2>6. /\ Count(sent[c]) \in Nat /\ Count(inbox[c]) \in Nat /\ buf[s] \in Seq(Requests)
        /\ buf[s] # <<>> /\ Count(buf[s]) \in Nat /\ Count(buf[s]) > 0
        /\ Count(inbox'[c]) \in Nat /\ Count(inbox'[c]) <= Count(inbox[c]) /\ answered'[c] \in Nat
    BY <2>1, <2>4, <2>5, CountEmpty, Lengths
  <2>7. k + Count(buf[s]) + Count(inbox[c]) <= Count(sent[c])
    BY <2>3 DEF Hand
  <2>8. InboxSent'
    <3> SUFFICES ASSUME NEW d \in Clients
                 PROVE  /\ answered'[d] + Count(inbox'[d]) <= Count(sent[d]) /\ Count(sent[d]) <= MaxSent
                        /\ \A i \in 1 .. Count(inbox'[d]) :
                             inbox'[d][i] = sent[d][Count(sent[d]) - Count(inbox'[d]) + i]
      BY <2>1 DEF InboxSent
    <3>1. CASE d # c
      BY <2>4, <2>5, <3>1 DEF InboxSent
    <3>2. CASE d = c
      <4>1. answered'[c] + Count(inbox'[c]) <= Count(sent[c])
        BY <2>4, <2>6, <2>7
      <4>2. CASE inbox'[c] = inbox[c]
        BY <3>2, <4>1, <4>2 DEF InboxSent
      <4>3. CASE inbox'[c] = <<>>
        <5>1. 1 .. Count(inbox'[c]) = {}
          BY <4>3, CountEmpty
        <5> QED
          BY <3>2, <4>1, <5>1 DEF InboxSent
      <4> QED
        BY <2>5, <4>2, <4>3
    <3> QED
      BY <3>1, <3>2
  <2>9. ASSUME NEW t \in Servers, t # s, Busy(t)'
        PROVE  \E j \in Nat : Hand(t, cur[t], j)'
    <3>1. /\ Busy(t) /\ cur'[t] = cur[t] /\ pc'[t] = pc[t] /\ buf'[t] = buf[t]
          /\ full'[t] = full[t]
      BY <2>1, <2>9 DEF Busy, Loop
    <3>2. PICK d \in Clients : d = cur[t]
      BY <3>1, Lengths
    <3>3. PICK j \in Nat : Hand(t, d, j)
      BY <3>1, <3>2 DEF InHand
    <3>4. d # c
      <4>1. At(t, d) /\ At(s, c)
        BY <2>2, <3>2 DEF At
      <4> QED
        BY <2>9, <4>1 DEF OneServer
    <3>5. Hand(t, d, j)'
      BY <2>1, <2>4, <2>5, <3>1, <3>3, <3>4 DEF Hand
    <3> QED
      BY <3>1, <3>2, <3>5 DEF Hand
  <2>10. ASSUME Busy(s)'
         PROVE  \E j \in Nat : Hand(s, cur[s], j)'
    <3>1. cur'[s] = c /\ full'[s] = full[s]
      BY <2>1, <2>2, <2>10 DEF Busy, Loop
    <3>2. full[s] => Count(sent[c]) >= ReadBufSize
      BY <2>3 DEF Hand
    <3>3. CASE pc'[s] \in {"close", "again"} /\ buf'[s] = buf[s]
      <4>1. k + Count(buf'[s]) + Count(inbox'[c]) <= Count(sent[c])
        BY <2>6, <2>7, <3>3
      <4>2. Hand(s, c, k)'
        BY <2>1, <2>3, <2>4, <3>1, <3>2, <3>3, <4>1 DEF Hand
      <4> QED
        BY <3>1, <4>2 DEF Hand
    <3>4. CASE pc'[s] = "answer" /\ buf'[s] = Tail(buf[s])
      <4>1. /\ Count(buf'[s]) = Count(buf[s]) - 1
            /\ \A i \in 1 .. Count(buf[s]) - 1 : buf'[s][i] = buf[s][i + 1]
        BY <2>6, <3>4, CountTail
      <4>2. PICK j \in Nat : j = k + 1
        OBVIOUS
      <4>3. j + Count(buf'[s]) + Count(inbox'[c]) <= Count(sent[c])
        BY <2>6, <2>7, <4>1, <4>2
      <4>4. \A i \in 1 .. Count(buf'[s]) : buf'[s][i] = sent[c][j + i]
        <5> SUFFICES ASSUME NEW i \in 1 .. Count(buf'[s]) PROVE buf'[s][i] = sent[c][j + i]
          OBVIOUS
        <5>1. i \in 1 .. Count(buf[s]) - 1 /\ i + 1 \in 1 .. Count(buf[s])
          BY <2>6, <4>1
        <5>2. buf'[s][i] = buf[s][i + 1] /\ buf[s][i + 1] = sent[c][k + (i + 1)]
          BY <2>3, <4>1, <5>1 DEF Hand
        <5>3. k + (i + 1) = j + i
          BY <4>2, <5>1
        <5> QED
          BY <5>2, <5>3
      <4>5. answered'[c] <= j
        BY <2>4, <4>2
      <4>6. Hand(s, c, j)'
        BY <2>1, <3>1, <3>2, <3>4, <4>3, <4>4, <4>5 DEF Hand
      <4> QED
        BY <3>1, <4>6 DEF Hand
    <3> QED
      BY <2>1, <2>10, <3>3, <3>4 DEF Loop, Busy
  <2>11. InHand'
    <3>1. \A t \in Servers : Busy(t)' => \E j \in Nat : Hand(t, cur[t], j)'
      BY <2>9, <2>10
    <3> QED
      BY <3>1 DEF InHand, Hand
  <2> QED
    BY <2>4, <2>8, <2>11
<1> QED
  BY <1>1, <1>2, <1>3, <1>4, <1>5, <1>6, <1>7, <1>8, <1>9, <1>10, <1>11, <1>12
     DEF Next, Client, Server
-----------------------------------------------------------------------------
(***************************************************************************)
(* No descriptor or Connection is used by a server it is not for.          *)
(***************************************************************************)

\* Server s can go on with its connection.
Steady(s) ==
  /\ pc[s] \in {"register", "hangup"} => Holds(cur[s])
  /\ pc[s] \in {"close", "again"} => Head(buf[s]).kind # "get"
  /\ Behaved /\ Cardinality(Servers) # 1 => Holds(cur[s]) /\ pc[s] # "again"
  /\ Behaved /\ Cardinality(Servers) = 1 =>
       /\ Behind(cur[s]) \in {None, cur[s]}
       /\ pc[s] \notin {"register", "hangup"} => ~ conn[cur[s]].deleted

\* Every server at a connection can go on with it.
AllSteady == \A s \in Servers : cur[s] # None => Steady(s)

\* What was sent stays sent.
LEMMA SentGrows ==
  ASSUME TypeInv, Owned, [Next]_vars, NEW c \in Clients
  PROVE  /\ sent'[c] \in Seq(Requests) /\ Count(sent[c]) <= Count(sent'[c])
         /\ \A i \in 1 .. Count(sent[c]) : sent'[c][i] = sent[c][i]
<1>0. KernelTypeOK /\ sent[c] \in Seq(Requests) /\ Count(sent[c]) \in Nat
  BY Lengths DEF TypeInv
<1> DEFINE Goal == /\ sent'[c] \in Seq(Requests) /\ Count(sent[c]) <= Count(sent'[c])
                   /\ \A i \in 1 .. Count(sent[c]) : sent'[c][i] = sent[c][i]
<1>1. ASSUME sent'[c] = sent[c] PROVE Goal
  <2>1. Count(sent[c]) <= Count(sent[c])
    BY <1>0
  <2> QED
    BY <1>0, <1>1, <2>1
<1>2. ASSUME NEW d \in Clients, NEW r \in Requests, Send(d, r)
      PROVE  Goal
  <2>1. CASE d = c
    <3>1. sent'[c] = Append(sent[c], r)
      BY <1>0, <1>2, <2>1 DEF Send, KernelTypeOK
    <3>2. Append(sent[c], r) \in Seq(Requests)
      BY <1>0
    <3>3. /\ Count(Append(sent[c], r)) = Count(sent[c]) + 1
          /\ \A i \in 1 .. Count(sent[c]) : Append(sent[c], r)[i] = sent[c][i]
      BY <1>0, CountAppend, ZenonT(60)
    <3>4. Count(sent[c]) <= Count(sent[c]) + 1
      BY <1>0
    <3> QED
      BY <3>1, <3>2, <3>3, <3>4
  <2>2. CASE d # c
    <3>1. sent'[c] = sent[c]
      BY <1>0, <1>2, <2>2 DEF Send, KernelTypeOK
    <3> QED
      BY <1>1, <3>1
  <2> QED
    BY <2>1, <2>2
<1>3. ASSUME NEW d \in Clients, Client(d)
      PROVE  Goal
  <2>1. CASE \E s \in Servers : Connect(d, s)
    BY <1>1, <2>1 DEF Connect, net
  <2>2. CASE \E r \in Requests : Send(d, r)
    BY <1>2, <2>2
  <2>3. CASE Shutdown(d)
    BY <1>1, <2>3 DEF Shutdown
  <2> QED
    BY <1>3, <2>1, <2>2, <2>3 DEF Client
<1>4. ASSUME NEW s \in Servers, Server(s)
      PROVE  Goal
  <2>1. sent' = sent
    BY <1>4 DEF Server, epoll_wait, nextEvent, accept4, register, hangup, read, answer,
                close, misuse, net
  <2> QED
    BY <1>1, <2>1
<1>5. ASSUME UNCHANGED vars PROVE Goal
  <2>1. sent' = sent
    BY <1>5 DEF vars, net
  <2> QED
    BY <1>1, <2>1
<1> HIDE DEF Goal
<1>6. Goal
  BY <1>3, <1>4, <1>5 DEF Next
<1> QED
  BY <1>6 DEF Goal

\* Clients that have behaved so far have always behaved.
LEMMA BehavedBefore ==
  ASSUME TypeInv, Owned, [Next]_vars, Behaved'
  PROVE  Behaved
<1> SUFFICES ASSUME NEW c \in Clients
             PROVE  IF Cardinality(Servers) = 1 THEN ClosesFit(c) ELSE Careful(c)
  BY DEF Behaved
<1>0. sent[c] \in Seq(Requests) /\ Count(sent[c]) \in Nat
  BY Lengths
<1>1. /\ sent'[c] \in Seq(Requests) /\ Count(sent[c]) <= Count(sent'[c])
      /\ \A i \in 1 .. Count(sent[c]) : sent'[c][i] = sent[c][i]
  BY SentGrows
<1>2. Count(sent'[c]) \in Nat
  BY <1>1, CountIs
<1>3. DOMAIN sent[c] = 1 .. Count(sent[c]) /\ DOMAIN sent'[c] = 1 .. Count(sent'[c])
  BY <1>0, <1>1 DEF Count
<1>4. \A i \in 1 .. Count(sent[c]) : i \in 1 .. Count(sent'[c])
  BY <1>0, <1>1, <1>2
<1>5. ReadBufSize \in Nat
  BY ServerConstants
<1>6. CASE Cardinality(Servers) = 1
  <2>1. (\E i \in DOMAIN sent'[c] : sent'[c][i].close) => Count(sent'[c]) < ReadBufSize
    BY <1>6 DEF Behaved, ClosesFit, Count
  <2>2. ASSUME NEW i \in 1 .. Count(sent[c]), sent[c][i].close
        PROVE  Count(sent[c]) < ReadBufSize
    <3>1. i \in 1 .. Count(sent'[c]) /\ sent'[c][i].close
      BY <1>1, <1>4, <2>2
    <3>2. Count(sent'[c]) < ReadBufSize
      BY <1>3, <2>1, <3>1
    <3> QED
      BY <1>0, <1>1, <1>2, <1>5, <3>2
  <2>3. ClosesFit(c)
    BY <1>3, <2>2 DEF ClosesFit, Count
  <2> QED
    BY <1>6, <2>3
<1>7. CASE Cardinality(Servers) # 1
  <2>1. \A i \in DOMAIN sent'[c] : Closing(sent'[c][i]) =>
          i = Count(sent'[c]) /\ i < ReadBufSize /\ sent'[c][i].kind # "create"
    BY <1>7 DEF Behaved, Careful, Count
  <2>2. ASSUME NEW i \in 1 .. Count(sent[c]), Closing(sent[c][i])
        PROVE  i = Count(sent[c]) /\ i < ReadBufSize /\ sent[c][i].kind # "create"
    <3>1. i \in 1 .. Count(sent'[c]) /\ sent'[c][i] = sent[c][i]
      BY <1>1, <1>4, <2>2
    <3>2. i = Count(sent'[c]) /\ i < ReadBufSize /\ sent[c][i].kind # "create"
      BY <1>3, <2>1, <2>2, <3>1
    <3> QED
      BY <1>0, <1>1, <1>2, <3>2
  <2>3. Careful(c)
    BY <1>3, <1>7, <2>2 DEF Careful, Count
  <2> QED
    BY <1>7, <2>3
<1> QED
  BY <1>6, <1>7

\* A request that ends the connection is the last in the buffer.
LEMMA ClosingLast ==
  ASSUME TypeInv, InHand, Behaved, Cardinality(Servers) # 1,
         NEW s \in Servers, Busy(s), Closing(Head(buf[s]))
  PROVE  ~ full[s] /\ LastOfBuffer(s) /\ Head(buf[s]).kind # "create"
<1>1. PICK c \in Clients : c = cur[s]
  BY Lengths
<1>2. PICK k \in Nat : Hand(s, c, k)
  BY <1>1 DEF InHand
<1>3. /\ Count(buf[s]) \in Nat /\ Count(buf[s]) > 0 /\ Count(inbox[c]) \in Nat
      /\ Count(sent[c]) \in Nat /\ buf[s] \in Seq(Requests) /\ buf[s] # <<>>
      /\ sent[c] \in Seq(Requests) /\ ReadBufSize \in Nat
  BY Lengths, ServerConstants
<1>4. k + Count(buf[s]) + Count(inbox[c]) <= Count(sent[c])
  BY <1>2 DEF Hand
<1>5. 1 \in 1 .. Count(buf[s]) /\ k + 1 \in 1 .. Count(sent[c])
  BY <1>3, <1>4
<1>6. Head(buf[s]) = sent[c][k + 1]
  <2>1. Head(buf[s]) = buf[s][1]
    BY <1>3, CountTail
  <2> QED
    BY <1>2, <1>5, <2>1 DEF Hand
<1>7. k + 1 \in DOMAIN sent[c]
  BY <1>3, <1>5 DEF Count
<1>8. k + 1 = Count(sent[c]) /\ k + 1 < ReadBufSize /\ Head(buf[s]).kind # "create"
  BY <1>6, <1>7 DEF Behaved, Careful, Count
<1>9. Count(buf[s]) = 1
  BY <1>3, <1>4, <1>8
<1>10. full[s] => Count(sent[c]) >= ReadBufSize
  BY <1>2 DEF Hand
<1>11. ~ full[s]
  BY <1>3, <1>8, <1>10
<1> QED
  BY <1>8, <1>9, <1>11 DEF LastOfBuffer, Count

\* And one with Connection: close is not in a full buffer.
LEMMA CloseNotFull ==
  ASSUME TypeInv, InHand, Behaved, Cardinality(Servers) = 1,
         NEW s \in Servers, Busy(s), Head(buf[s]).close
  PROVE  ~ full[s]
<1>1. PICK c \in Clients : c = cur[s]
  BY Lengths
<1>2. PICK k \in Nat : Hand(s, c, k)
  BY <1>1 DEF InHand
<1>3. /\ Count(buf[s]) \in Nat /\ Count(buf[s]) > 0 /\ Count(inbox[c]) \in Nat
      /\ Count(sent[c]) \in Nat /\ buf[s] \in Seq(Requests) /\ buf[s] # <<>>
      /\ sent[c] \in Seq(Requests) /\ ReadBufSize \in Nat
  BY Lengths, ServerConstants
<1>4. k + Count(buf[s]) + Count(inbox[c]) <= Count(sent[c])
  BY <1>2 DEF Hand
<1>5. 1 \in 1 .. Count(buf[s]) /\ k + 1 \in 1 .. Count(sent[c])
  BY <1>3, <1>4
<1>6. Head(buf[s]) = sent[c][k + 1]
  <2>1. Head(buf[s]) = buf[s][1]
    BY <1>3, CountTail
  <2> QED
    BY <1>2, <1>5, <2>1 DEF Hand
<1>7. k + 1 \in DOMAIN sent[c] /\ sent[c][k + 1].close
  BY <1>3, <1>5, <1>6 DEF Count
<1>8. Count(sent[c]) < ReadBufSize
  BY <1>7 DEF Behaved, ClosesFit, Count
<1>9. full[s] => Count(sent[c]) >= ReadBufSize
  BY <1>2 DEF Hand
<1> QED
  BY <1>3, <1>8, <1>9
\* A server that goes on with its connection after a handler: after a get and
\* before a close, between two closes, or after the last of them.
LEMMA GoesOn ==
  ASSUME TypeInv, Owned, NEW s \in Servers, Handler(s), cur'[s] # None
  PROVE  /\ Busy(s) /\ conn[cur[s]] \in Connection
         /\ \/ /\ Head(buf[s]).kind = "get" /\ pc[s] = "answer"
               /\ pc'[s] \in {"read", "answer"} /\ (LastOfBuffer(s) => full[s])
               /\ ~ Head(buf[s]).close => UNCHANGED <<kernel, conn>>
            \/ /\ Head(buf[s]).kind # "get" /\ pc[s] = "answer" /\ pc'[s] = "close"
               /\ buf'[s] = buf[s] /\ UNCHANGED <<kernel, conn>>
            \/ /\ Head(buf[s]).kind = "create" /\ pc[s] = "close" /\ pc'[s] = "again"
               /\ buf'[s] = buf[s] /\ conn' = conn
            \/ /\ pc[s] \in {"close", "again"}
               /\ pc'[s] \in {"read", "answer"} /\ (LastOfBuffer(s) => full[s])
               /\ conn'[cur[s]].deleted = Head(buf[s]).close
<1>0. /\ KernelTypeOK /\ LoopFunctions /\ LoopTypeOK
  BY DEF TypeInv, LoopTypeOK, LoopFunctions
<1>1. ASSUME Handled(s)
      PROVE  pc'[s] \in {"read", "answer"} /\ (LastOfBuffer(s) => full[s])
  <2>1. CASE LastOfBuffer(s)
    BY <1>0, <1>1, <2>1 DEF Handled, AfterBuffer, LoopFunctions
  <2>2. CASE ~ LastOfBuffer(s)
    BY <1>0, <1>1, <2>2 DEF Handled, LoopFunctions
  <2> QED
    BY <2>1, <2>2
<1>2. ASSUME hangup(s) PROVE FALSE
  BY <1>0, <1>2 DEF hangup, LoopFunctions
<1>3. CASE answer(s)
  <2>1. pc[s] = "answer" /\ Busy(s) /\ conn[cur[s]] \in Connection
    BY <1>3, AtConnection DEF answer, Busy
  <2>2. CASE Head(buf[s]).kind = "get"
    <3>1. Handled(s)
      BY <1>3, <2>2 DEF answer
    <3>2. ~ Head(buf[s]).close => UNCHANGED <<kernel, conn>>
      BY <1>3 DEF answer
    <3> QED
      BY <1>1, <2>1, <2>2, <3>1, <3>2
  <2>3. CASE Head(buf[s]).kind # "get"
    <3>1. pc'[s] = "close" /\ buf'[s] = buf[s] /\ UNCHANGED <<kernel, conn>>
      BY <1>0, <1>3, <2>3 DEF answer, LoopFunctions
    <3> QED
      BY <2>1, <2>3, <3>1
  <2> QED
    BY <2>2, <2>3
<1>4. CASE close(s)
  <2>1. pc[s] \in {"close", "again"} /\ Busy(s)
    BY <1>4 DEF close, Busy
  <2>2. conn[cur[s]] \in Connection /\ cur[s] \in Clients
    BY <2>1, AtConnection
  <2>3. CASE ClosesTwice(Head(buf[s])) /\ pc[s] = "close"
    <3>1. pc'[s] = "again" /\ buf'[s] = buf[s] /\ conn' = conn
      BY <1>0, <1>4, <2>3 DEF close, LoopFunctions
    <3> QED
      BY <2>1, <2>2, <2>3, <3>1 DEF ClosesTwice
  <2>4. CASE ~ (ClosesTwice(Head(buf[s])) /\ pc[s] = "close")
    <3>1. Handled(s)
      BY <1>4, <2>4 DEF close
    <3>2. conn' = [conn EXCEPT ![cur[s]].closed = TRUE,
                               ![cur[s]].deleted = Head(buf[s]).close]
      BY <1>4, <2>4 DEF close
    <3>3. conn'[cur[s]].deleted = Head(buf[s]).close
      BY <1>0, <2>2, <3>2 DEF KernelTypeOK, Connection
    <3> QED
      BY <1>1, <2>1, <2>2, <3>1, <3>3
  <2> QED
    BY <2>3, <2>4
<1> QED
  BY <1>2, <1>3, <1>4 DEF Handler

\* A server that stays with its connection without a handler has done nothing,
\* or read; if it is the only one, nobody has touched a descriptor.
LEMMA StaysOn ==
  ASSUME TypeInv, Owned, [Next]_vars, NEW s \in Servers, ~ Handler(s),
         cur[s] # None, cur'[s] = cur[s]
  PROVE  /\ \/ pc'[s] = pc[s] /\ buf'[s] = buf[s]
            \/ pc[s] = "read" /\ pc'[s] = "answer"
         /\ Cardinality(Servers) = 1 => fdt' = fdt /\ conn' = conn
<1> DEFINE Stays == /\ \/ pc'[s] = pc[s] /\ buf'[s] = buf[s]
                       \/ pc[s] = "read" /\ pc'[s] = "answer"
                    /\ Cardinality(Servers) = 1 => fdt' = fdt /\ conn' = conn
<1>0. /\ KernelTypeOK /\ LoopFunctions /\ LoopTypeOK
  BY DEF TypeInv, LoopTypeOK, LoopFunctions
<1>1. pc[s] \notin {"events", "accept"}
  BY <1>0 DEF LoopTypeOK
<1>2. ASSUME Cardinality(Servers) = 1, NEW t \in Servers
      PROVE  t = s
  <2>1. PICK u : Servers = {u}
    BY <1>2, ServerConstants, FS_Singleton
  <2> QED
    BY <1>2, <2>1
<1>3. ASSUME NEW c \in Clients, Client(c)
      PROVE  Stays
  BY <1>3 DEF Client, Connect, Send, Shutdown, loop
<1>4. ASSUME NEW t \in Servers, epoll_wait(t)
      PROVE  Stays
  BY <1>4 DEF epoll_wait
<1>5. ASSUME NEW t \in Servers, nextEvent(t)
      PROVE  Stays
  <2>1. t # s
    BY <1>1, <1>5 DEF nextEvent
  <2> QED
    BY <1>0, <1>5, <2>1 DEF nextEvent, kernel, LoopFunctions
<1>6. ASSUME NEW t \in Servers, accept4(t)
      PROVE  Stays
  <2>1. t # s
    BY <1>1, <1>6 DEF accept4
  <2>2. pc'[s] = pc[s] /\ buf'[s] = buf[s]
    BY <1>0, <1>6, <2>1, AcceptCases DEF Refuses, Takes, AcceptRest, LoopFunctions
  <2> QED
    BY <1>2, <2>1, <2>2
<1>7. ASSUME NEW t \in Servers, register(t)
      PROVE  Stays
  <2>1. t # s
    BY <1>0, <1>7 DEF register, LoopFunctions
  <2> QED
    BY <1>0, <1>7, <2>1 DEF register, LoopFunctions
<1>8. ASSUME NEW t \in Servers, Handler(t)
      PROVE  Stays
  <2>1. t # s
    BY <1>8
  <2>2. pc'[s] = pc[s] /\ buf'[s] = buf[s]
    BY <1>8, <2>1, HandlerEffect DEF Handler, Loop
  <2> QED
    BY <1>2, <2>1, <2>2
<1>9. ASSUME NEW t \in Servers, read(t)
      PROVE  Stays
  <2>1. fdt' = fdt /\ conn' = conn
    BY <1>9 DEF read, kernel
  <2>2. CASE t = s
    <3>1. ~ ReadsNothing(s)
      BY <1>0 DEF ReadsNothing, LoopFunctions
    <3>2. pc[s] = "read" /\ pc'[s] = "answer"
      BY <1>0, <1>9, <2>2, <3>1, ReadCases DEF Reads, LoopFunctions
    <3> QED
      BY <2>1, <3>2
  <2>3. CASE t # s
    <3>1. pc'[s] = pc[s] /\ buf'[s] = buf[s]
      BY <1>0, <1>9, <2>3, ReadCases DEF Reads, ReadsNothing, LoopFunctions
    <3> QED
      BY <2>1, <3>1
  <2> QED
    BY <2>2, <2>3
<1>10. ASSUME NEW t \in Servers, misuse(t)
       PROVE  Stays
  BY <1>10 DEF misuse, kernel, loop
<1>11. ASSUME UNCHANGED vars
       PROVE  Stays
  BY <1>11 DEF vars, kernel, loop
<1> HIDE DEF Stays
<1>12. Stays
  BY <1>3, <1>4, <1>5, <1>6, <1>7, <1>8, <1>9, <1>10, <1>11 DEF Next, Server, Handler
<1> QED
  BY <1>12 DEF Stays

\* A connection that holds its descriptor has a Connection that is not deleted.
LEMMA HoldsUndeleted ==
  ASSUME TypeInv, Owned, NEW c \in Clients, Holds(c)
  PROVE  conn[c] \in Connection /\ conn[c].fd \in Fds /\ ~ conn[c].deleted
<1>1. conn[c] \in Connection
  BY DEF Holds, TypeInv, KernelTypeOK
<1>2. conn[c].fd \in Fds /\ c # None
  BY <1>1, ServerConstants DEF Connection
<1> QED
  BY <1>1, <1>2 DEF Holds, Behind, Owned, Owns

\* The same, a step later.
LEMMA SteadyIs ==
  ASSUME NEW s \in Servers, NEW c \in Clients, cur'[s] = c,
         pc'[s] \in {"register", "hangup"} => Holds(c)',
         pc'[s] \in {"close", "again"} => Head(buf'[s]).kind # "get",
         Behaved' /\ Cardinality(Servers) # 1 => Holds(c)' /\ pc'[s] # "again",
         Behaved' /\ Cardinality(Servers) = 1 =>
           /\ fdt'[conn'[c].fd] \in {None, c}
           /\ pc'[s] \notin {"register", "hangup"} => ~ conn'[c].deleted
  PROVE  Steady(s)'
<1>1. Holds(cur[s])' <=> Holds(c)'
  BY DEF Holds, Behind
<1>2. Behind(cur[s])' = fdt'[conn'[c].fd]
  BY DEF Behind
<1> QED
  BY <1>1, <1>2 DEF Steady

\* A server that was given a connection by accept4 or epoll_wait.
LEMMA SteadyNew ==
  ASSUME BaseInv, [Next]_vars, NEW s \in Servers, cur'[s] # None, cur'[s] # cur[s]
  PROVE  Steady(s)'
<1> USE DEF BaseInv
<1>0. KernelTypeOK /\ LoopFunctions
  BY DEF TypeInv, LoopTypeOK, LoopFunctions
<1>1. ASSUME NEW f \in Fds, accept4(s), Takes(s, f), cur'[s] = Head(queue[s])
      PROVE  Steady(s)'
  <2>1. PICK c \in Clients : c = Head(queue[s])
    BY <1>0, <1>1, SeqParts DEF Takes, KernelTypeOK
  <2>2. pc'[s] = "register"
    BY <1>0, <1>1 DEF Takes, LoopFunctions
  <2>3. sock'[c] = "open" /\ conn'[c].fd = f /\ fdt'[f] = c
    BY <1>0, <1>1, <2>1, NewConnectionIs DEF Takes, KernelTypeOK
  <2>4. Holds(c)' /\ fdt'[conn'[c].fd] = c
    BY <2>3 DEF Holds, Behind
  <2> QED
    BY <1>1, <2>1, <2>2, <2>4, SteadyIs
<1>2. ASSUME nextEvent(s), NEW e \in batch[s], e.conn # None, cur'[s] = e.conn
      PROVE  Steady(s)'
  <2>1. PICK c \in Clients : c = e.conn
    BY <1>0, <1>2 DEF LoopFunctions, Event
  <2>2. Holds(c)
    BY <1>2, <2>1 DEF BatchFresh
  <2>3. ~ conn[c].deleted
    BY <2>2, HoldsUndeleted
  <2>4. UNCHANGED <<fdt, sock, conn>>
    BY <1>2 DEF nextEvent, kernel
  <2>5. Holds(c)' /\ fdt'[conn'[c].fd] = c /\ ~ conn'[c].deleted
    BY <2>2, <2>3, <2>4 DEF Holds, Behind
  <2>6. pc'[s] \in {"hangup", "read", "accept"}
    BY <1>0, <1>2 DEF nextEvent, LoopFunctions
  <2> QED
    BY <1>2, <2>1, <2>5, <2>6, SteadyIs
<1> QED
  BY <1>1, <1>2, CurStep

\* A server that stays with its connection, and does not close it.
LEMMA SteadyStays ==
  ASSUME BaseInv, [Next]_vars, NEW s \in Servers, cur[s] # None, cur'[s] = cur[s],
         ~ Handler(s), Steady(s)
  PROVE  Steady(s)'
<1> USE DEF BaseInv
<1>1. PICK c \in Clients : c = cur[s]
  BY DEF TypeInv, LoopTypeOK
<1>2. /\ \/ pc'[s] = pc[s] /\ buf'[s] = buf[s]
         \/ pc[s] = "read" /\ pc'[s] = "answer"
      /\ Cardinality(Servers) = 1 => fdt' = fdt /\ conn' = conn
  BY StaysOn
<1>3. Holds(c) => Holds(c)'
  <2>1. \A t \in Servers : Handler(t) => cur[t] # c
    BY <1>1 DEF OneServer, At
  <2> QED
    BY <2>1, HoldsStep
<1>4. Behaved' => Behaved
  BY BehavedBefore
<1>5. pc'[s] \in {"register", "hangup"} => Holds(c)'
  BY <1>1, <1>2, <1>3 DEF Steady
<1>6. pc'[s] \in {"close", "again"} => Head(buf'[s]).kind # "get"
  BY <1>2 DEF Steady
<1>7. Behaved' /\ Cardinality(Servers) # 1 => Holds(c)' /\ pc'[s] # "again"
  BY <1>1, <1>2, <1>3, <1>4 DEF Steady
<1>8. Behaved' /\ Cardinality(Servers) = 1 =>
        /\ fdt'[conn'[c].fd] \in {None, c}
        /\ pc'[s] \notin {"register", "hangup"} => ~ conn'[c].deleted
  BY <1>1, <1>2, <1>4 DEF Steady, Behind
<1> QED
  BY <1>1, <1>5, <1>6, <1>7, <1>8, SteadyIs

\* A server that goes on with its connection after a handler.
LEMMA SteadyGoesOn ==
  ASSUME BaseInv, InHand, [Next]_vars, NEW s \in Servers, cur[s] # None, cur'[s] # None,
         Handler(s), Steady(s)
  PROVE  Steady(s)'
<1> USE DEF BaseInv
<1>1. PICK c \in Clients : c = cur[s]
  BY DEF TypeInv, LoopTypeOK
<1> DEFINE r == Head(buf[s])
<1>2. Sockets(s) /\ Connections(s) /\ Loop(s)
  BY HandlerEffect DEF Handler
<1>3. cur'[s] = c
  BY <1>1, <1>2 DEF Loop
<1>4. Busy(s) /\ conn[c] \in Connection
  BY <1>1, GoesOn
<1>5. \/ /\ r.kind = "get" /\ pc[s] = "answer"
         /\ pc'[s] \in {"read", "answer"} /\ (LastOfBuffer(s) => full[s])
         /\ ~ r.close => UNCHANGED <<kernel, conn>>
      \/ /\ r.kind # "get" /\ pc[s] = "answer" /\ pc'[s] = "close"
         /\ buf'[s] = buf[s] /\ UNCHANGED <<kernel, conn>>
      \/ /\ r.kind = "create" /\ pc[s] = "close" /\ pc'[s] = "again"
         /\ buf'[s] = buf[s] /\ conn' = conn
      \/ /\ pc[s] \in {"close", "again"}
         /\ pc'[s] \in {"read", "answer"} /\ (LastOfBuffer(s) => full[s])
         /\ conn'[c].deleted = r.close
  BY <1>1, GoesOn
<1>6. Behaved' => Behaved
  BY BehavedBefore
<1>7. r.close => LastOfBuffer(s)
  BY DEF LastOfBuffer
<1>8. pc[s] \in {"close", "again"} => r.kind # "get"
  BY DEF Steady
<1>9. pc'[s] \notin {"register", "hangup"}
  BY <1>5
<1>10. pc'[s] \in {"close", "again"} => Head(buf'[s]).kind # "get"
  BY <1>5
<1>11. ASSUME Behaved', Cardinality(Servers) # 1
       PROVE  Holds(c)' /\ pc'[s] # "again"
  <2>1. Closing(r) => ~ full[s] /\ LastOfBuffer(s) /\ r.kind # "create"
    BY <1>4, <1>6, <1>11, ClosingLast
  <2>2. Holds(c)
    BY <1>1, <1>6, <1>11 DEF Steady
  <2>3. UNCHANGED <<kernel, conn>> /\ pc'[s] # "again"
    BY <1>5, <1>8, <2>1 DEF Closing
  <2> QED
    BY <2>2, <2>3 DEF Holds, Behind, kernel
<1>12. ASSUME Behaved', Cardinality(Servers) = 1
       PROVE  fdt'[conn'[c].fd] \in {None, c} /\ ~ conn'[c].deleted
  <2>1. r.close => ~ full[s]
    BY <1>4, <1>6, <1>12, CloseNotFull
  <2>2. Behind(c) \in {None, c} /\ ~ conn[c].deleted
    BY <1>1, <1>4, <1>6, <1>12 DEF Steady, Busy
  <2>3. ~ conn'[c].deleted
    BY <1>5, <1>7, <2>1, <2>2
  <2>4. conn'[c].fd = conn[c].fd
    BY <1>1, <1>2 DEF Connections
  <2>5. fdt'[conn[c].fd] \in {None, c}
    <3>1. CASE CloseSocket(c)
      <4>1. conn[c].fd \in Fds /\ fdt \in [Fds -> Clients \union {None}]
        BY <1>4 DEF Connection, TypeInv, KernelTypeOK
      <4> QED
        BY <3>1, <4>1 DEF CloseSocket
    <3>2. CASE UNCHANGED <<kernel, inbox>>
      BY <2>2, <3>2 DEF Behind, kernel
    <3> QED
      BY <1>1, <1>2, <3>1, <3>2 DEF Sockets
  <2> QED
    BY <2>3, <2>4, <2>5
<1> HIDE DEF r
<1> QED
  BY <1>3, <1>9, <1>10, <1>11, <1>12, SteadyIs

\* Each step leaves every server able to go on.
LEMMA SteadyStep ==
  ASSUME BaseInv, InHand, AllSteady, [Next]_vars
  PROVE  AllSteady'
<1> SUFFICES ASSUME NEW s \in Servers, cur'[s] # None
             PROVE  Steady(s)'
  BY DEF AllSteady
<1>1. CASE cur'[s] # cur[s]
  BY <1>1, SteadyNew
<1>2. CASE cur'[s] = cur[s]
  <2>1. Steady(s)
    BY <1>2 DEF AllSteady
  <2> QED
    BY <1>2, <2>1, SteadyStays, SteadyGoesOn
<1> QED
  BY <1>1, <1>2

\* A server that is steady in front of clients that behave misuses nothing.
LEMMA IsolationStep ==
  ASSUME BaseInv, InHand, AllSteady, Isolation, [Next]_vars
  PROVE  Isolation'
<1> USE DEF BaseInv
<1> SUFFICES ASSUME Behaved', undefined'
             PROVE  FALSE
  BY DEF Isolation, TypeInv, LoopTypeOK
<1>1. Behaved /\ ~ undefined
  BY BehavedBefore DEF Isolation
<1>2. ASSUME NEW c \in Clients, Client(c)
      PROVE  FALSE
  BY <1>1, <1>2 DEF Client, Connect, Send, Shutdown
<1>3. ASSUME NEW s \in Servers, misuse(s)
      PROVE  FALSE
  <2>1. pc[s] \in {"register", "read", "hangup", "answer", "close", "again"}
    BY <1>3 DEF misuse
  <2>2. PICK c \in Clients : c = cur[s] /\ c # None
    BY <2>1, AtConnection
  <2>3. Steady(s)
    BY <2>2 DEF AllSteady
  <2>4. Holds(c) => Behind(c) = c /\ ~ conn[c].deleted
    BY HoldsUndeleted DEF Holds
  <2>5. CASE pc[s] \in {"register", "hangup"} \/ Cardinality(Servers) # 1
    <3>1. Holds(c)
      BY <1>1, <2>2, <2>3, <2>5 DEF Steady
    <3> QED
      BY <1>3, <2>1, <2>2, <2>4, <3>1 DEF misuse
  <2>6. CASE pc[s] \notin {"register", "hangup"} /\ Cardinality(Servers) = 1
    <3>1. Behind(c) \in {None, c} /\ ~ conn[c].deleted
      BY <1>1, <2>2, <2>3, <2>6 DEF Steady
    <3> QED
      BY <1>3, <2>1, <2>2, <2>6, <3>1 DEF misuse
  <2> QED
    BY <2>5, <2>6
<1>4. ASSUME NEW s \in Servers, Handler(s)
      PROVE  FALSE
  BY <1>4, HandlerEffect DEF Handler
<1>5. ASSUME NEW s \in Servers,
             epoll_wait(s) \/ nextEvent(s) \/ accept4(s) \/ register(s) \/ read(s)
      PROVE  FALSE
  BY <1>1, <1>5 DEF epoll_wait, nextEvent, accept4, register, read
<1>6. CASE UNCHANGED vars
  BY <1>1, <1>6 DEF vars
<1> QED
  BY <1>2, <1>3, <1>4, <1>5, <1>6 DEF Next, Server, Handler
-----------------------------------------------------------------------------
(***************************************************************************)
(* The theorems.                                                           *)
(***************************************************************************)

\* The inductive invariant.
IInv ==
  /\ BaseInv /\ InboxSent /\ InHand /\ AllSteady
  /\ AcceptPending /\ NoLostEdge /\ Isolation

\* No connection exists at first.
LEMMA InitBase == Init => BaseInv
<1> SUFFICES ASSUME Init PROVE BaseInv
  OBVIOUS
<1> USE ServerConstants DEF Init
<1>1. TypeInv
  <2>1. <<>> \in Seq(Clients) /\ <<>> \in Seq(Requests)
    OBVIOUS
  <2>2. {} \in SUBSET Event
    OBVIOUS
  <2>3. KernelTypeOK
    BY <2>1 DEF KernelTypeOK
  <2>4. LoopTypeOK
    BY <2>1, <2>2 DEF LoopTypeOK
  <2>5. answered \in [Clients -> Nat]
    OBVIOUS
  <2> QED
    BY <2>3, <2>4, <2>5 DEF TypeInv
<1>2. QueuedOnce
  BY DEF QueuedOnce
<1>3. Owned /\ Registered /\ BatchFresh
  BY DEF Owned, Registered, BatchFresh
<1>4. OneServer
  <2>1. \A c \in Clients : \A s \in Servers : ~ At(s, c)
    BY DEF At
  <2> QED
    BY <2>1 DEF OneServer
<1> QED
  BY <1>1, <1>2, <1>3, <1>4 DEF BaseInv

\* The invariant holds at first,
LEMMA InitInv == Init => IInv
<1> SUFFICES ASSUME Init PROVE IInv
  OBVIOUS
<1>1. BaseInv
  BY InitBase
<1>2. InboxSent
  <2> SUFFICES ASSUME NEW c \in Clients
               PROVE  /\ answered[c] + Count(inbox[c]) <= Count(sent[c])
                      /\ Count(sent[c]) <= MaxSent
                      /\ \A i \in 1 .. Count(inbox[c]) :
                           inbox[c][i] = sent[c][Count(sent[c]) - Count(inbox[c]) + i]
    BY DEF InboxSent
  <2>1. inbox[c] = <<>> /\ sent[c] = <<>> /\ answered[c] = 0
    BY DEF Init
  <2>2. Count(inbox[c]) = 0 /\ Count(sent[c]) = 0
    BY <2>1, CountEmpty
  <2> QED
    BY <2>1, <2>2, ServerConstants
<1>3. InHand
  BY DEF Init, InHand, Busy
<1>4. AllSteady
  BY DEF Init, AllSteady
<1>5. AcceptPending /\ NoLostEdge /\ Isolation
  BY DEF Init, AcceptPending, NoLostEdge, Isolation
<1> QED
  BY <1>1, <1>2, <1>3, <1>4, <1>5 DEF IInv

\* each step keeps it,
LEMMA StepInv ==
  ASSUME IInv, [Next]_vars
  PROVE  IInv'
<1> USE DEF IInv
<1>1. BaseInv'
  <2>1. TypeInv'
    BY KernelTyped, LoopTyped, CountStep DEF BaseInv, TypeInv
  <2>2. QueuedOnce' /\ Owned' /\ Registered' /\ BatchFresh' /\ OneServer'
    BY QueuedOnceStep, OwnedStep, RegisteredStep, BatchFreshStep, OneServerStep DEF BaseInv
  <2> QED
    BY <2>1, <2>2 DEF BaseInv
<1>2. InboxSent' /\ InHand'
  BY CountStep
<1>3. AllSteady'
  BY SteadyStep
<1>4. AcceptPending'
  BY AcceptPendingStep DEF BaseInv
<1>5. NoLostEdge'
  <2>1. NoLostEdge <=> (~ undefined => \A d \in Clients : Seen(d))
    BY DEF NoLostEdge, Seen
  <2>2. NoLostEdge' <=> (~ undefined' => \A d \in Clients : Seen(d)')
    BY DEF NoLostEdge, Seen, WillRead, WillHangup
  <2>3. ASSUME ~ undefined', NEW d \in Clients
        PROVE  Seen(d)'
    BY <2>1, <2>3, SeenStep
  <2> QED
    BY <2>2, <2>3
<1>6. Isolation'
  BY IsolationStep
<1> QED
  BY <1>1, <1>2, <1>3, <1>4, <1>5, <1>6

\* and so it holds always.
LEMMA Inductive == Spec => []IInv
<1>1. IInv /\ [Next]_vars => IInv'
  BY StepInv
<1> QED
  BY InitInv, <1>1, PTL DEF Spec

\* Every variable keeps its type, a server inside an event is at a connection
\* it has accepted, and no client is given more answers than it sent requests.
THEOREM TypeCorrect == Spec => []TypeOK
<1>1. IInv => TypeOK
  <2> SUFFICES ASSUME IInv PROVE TypeOK
    OBVIOUS
  <2>1. KernelTypeOK /\ LoopTypeOK /\ answered \in [Clients -> Nat]
    BY DEF IInv, BaseInv, TypeInv
  <2>2. ASSUME NEW c \in Clients
        PROVE  answered[c] \in 0 .. MaxSent
    <3>1. answered[c] + Count(inbox[c]) <= Count(sent[c]) /\ Count(sent[c]) <= MaxSent
      BY DEF IInv, InboxSent
    <3>2. answered[c] \in Nat /\ Count(inbox[c]) \in Nat /\ Count(sent[c]) \in Nat
      BY Lengths DEF IInv, BaseInv
    <3> QED
      BY <3>1, <3>2, ServerConstants
  <2> QED
    BY <2>1, <2>2 DEF TypeOK
<1> QED
  BY Inductive, <1>1, PTL

\* No descriptor is leaked, and none has two owners, however the accepts and
\* the closes of any number of servers interleave on the one descriptor table.
THEOREM DescriptorsAlwaysOwned == Spec => []DescriptorsOwned
<1>1. IInv => DescriptorsOwned
  BY DEF IInv, BaseInv, Owned, DescriptorsOwned
<1> QED
  BY Inductive, <1>1, PTL

\* No edge-triggered event is lost, for any size of the buffer: the server of a
\* registered socket with unread input, or whose client has hung up, is going
\* to come back to it.
THEOREM EdgesNotLost == Spec => []NoLostEdge
<1>1. IInv => NoLostEdge
  BY DEF IInv
<1> QED
  BY Inductive, <1>1, PTL

\* A connection waits only where its server is due in the accept loop, or has
\* left it for want of a descriptor.
THEOREM AcceptsPending == Spec => []AcceptPending
<1>1. IInv => AcceptPending
  BY DEF IInv
<1> QED
  BY Inductive, <1>1, PTL

\* In front of careful clients no server touches a descriptor or a Connection
\* that is not its own: any number of servers if nothing follows a request that
\* ends its connection, and one server if no Connection: close fills a buffer.
THEOREM ServersIsolated == Spec => []Isolation
<1>1. IInv => Isolation
  BY DEF IInv
<1> QED
  BY Inductive, <1>1, PTL
=============================================================================
