--------------------------- MODULE RequestFraming ---------------------------
(***************************************************************************)
(* What Connection::handleData and HttpParser make of the input of one     *)
(* connection.  Requests are pipelined and a read returns whatever has     *)
(* come, so a buffer may begin and end inside a request; the parser is     *)
(* resumed where it stopped, and reset between requests, though its        *)
(* Request keeps the entity it has parsed.                                 *)
(*                                                                         *)
(* The input is a sequence of parts: the request line, the headers, and    *)
(* each piece of the body that a read can separate from the next.  The     *)
(* entity is a visit; UserParser and LocationParser work like VisitParser. *)
(***************************************************************************)
EXTENDS Integers, Sequences, FiniteSetsExt, SequencesExt

CONSTANTS
  NoId,         \* Entity::kInvalidId
  Ids,          \* visits
  Contents,     \* what "rest", the fields of a visit but its id, may hold
  Requests,     \* what the client may send
  MaxRequests,  \* bound: the requests it sends
  ReadBufSize   \* kReadBufSize, in parts

PostActions == {"PostVisit", "PostVisitNew"}
Actions == {"NotFound", "BadRequest", "GetVisit"} \union PostActions

\* A piece of a body: the fields it gives a value, and whether the closing
\* brace of the JSON object, which has one field at least, is in it.
Fields == {g \in UNION {[D -> Ids \union Contents] : D \in SUBSET {"id", "rest"}} :
             \A f \in DOMAIN g : g[f] \in IF f = "id" THEN Ids ELSE Contents}
Piece == [fields : Fields, closes : BOOLEAN]

\* The action and the entity_id the request line stands for, whether there is a
\* header line the parser rejects, Connection: close, and the body, as long as
\* Content-Length says.
Request == [action : Actions, entity_id : Ids \union {NoId}, malformed : BOOLEAN,
            close : BOOLEAN, body : Seq(Piece)]

ASSUME FramingConstants ==
  /\ \A q \in Requests :
       /\ q \in Request
       /\ q.action = "PostVisit" => q.entity_id # NoId
       /\ \A i, j \in DOMAIN q.body :  \* what is behind the brace is not of the object
            q.body[i].closes /\ i < j => ~ q.body[j].closes /\ DOMAIN q.body[j].fields = {}
  /\ NoId \notin Ids
  /\ MaxRequests \in Nat /\ ReadBufSize \in Nat \ {0}

VARIABLES
  sent,     \* history: the requests the client has sent
  wire,     \* the parts that have not been read
  buf,      \* the parts handleData has been given and not parsed
  open,     \* whether the descriptor is open
  cs,       \* where the state machine of the head is
  headers_done, done, connection_close, content_length,  \* of HttpParser
  r,        \* HttpParser::r
  n,        \* history: the number of the request being parsed
  handled,  \* history: what handleRequest was called with
  cut       \* history: the requests whose body was not parsed in one call

head == <<cs, headers_done, connection_close>>
vars == <<sent, wire, buf, open, head, done, content_length, r, n, handled, cut>>
-----------------------------------------------------------------------------
Part(m, what, i) == [n |-> m, what |-> what, i |-> i]

\* The m-th request on the wire.
Parts(m, q) == <<Part(m, "line", 0), Part(m, "headers", 0)>>
                 \o [i \in DOMAIN q.body |-> Part(m, "body", i)]

\* HttpParser(), but for the entity.
Fresh(v) == [action |-> "NotFound", entity_id |-> NoId, v |-> v]

Init ==
  /\ sent = <<>> /\ wire = <<>> /\ buf = <<>> /\ open = TRUE
  /\ cs = "line" /\ headers_done = FALSE /\ done = FALSE
  /\ connection_close = FALSE /\ content_length = 0
  /\ r = Fresh([id |-> NoId, rest |-> NoId, mask |-> {}]) /\ n = 0
  /\ handled = <<>> /\ cut = {}

\* The client sends a request, whatever has become of those before it.
Send(q) ==
  /\ Len(sent) < MaxRequests
  /\ sent' = Append(sent, q)
  /\ wire' = wire \o Parts(Len(sent) + 1, q)
  /\ UNCHANGED <<buf, open, head, done, content_length, r, n, handled, cut>>

\* read returns some of the input, or the descriptor is closed.
Read(k) ==
  /\ open /\ buf = <<>> /\ ~ done
  /\ k <= Len(wire)
  /\ buf' = SubSeq(wire, 1, k) /\ wire' = SubSeq(wire, k + 1, Len(wire))
  /\ UNCHANGED <<sent, open, head, done, content_length, r, n, handled, cut>>
-----------------------------------------------------------------------------
(* HttpParser::parse, which handleData calls as long as there is input.    *)

\* Mutant: the mask is not reset.
MaskAfter_Kept(q) == r.v.mask

\* A POST resets the JSON parser and the mask, and nothing else of the entity.
MaskAfter(q) == IF q.action \in PostActions THEN {} ELSE r.v.mask

RequestLine ==
  /\ buf # <<>> /\ ~ headers_done /\ cs = "line"
  /\ LET q == sent[Head(buf).n]
     IN  r' = [r EXCEPT !.action = q.action, !.entity_id = q.entity_id,
                        !.v.mask = MaskAfter(q)]
  /\ n' = Head(buf).n
  /\ cs' = "headers" /\ buf' = Tail(buf)
  /\ UNCHANGED <<sent, wire, open, headers_done, connection_close, done,
                 content_length, handled, cut>>

\* Mutant: done is left to parse_body.
DoneAfterHeaders_Never(q) == FALSE

DoneAfterHeaders(q) == q.body = <<>>

\* The end of the headers.  A POST without a body is a bad request.
Headers ==
  /\ buf # <<>> /\ ~ headers_done /\ cs = "headers" /\ ~ sent[n].malformed
  /\ LET q == sent[n]
     IN  /\ connection_close' = q.close /\ content_length' = Len(q.body)
         /\ done' = DoneAfterHeaders(q)
         /\ r' = IF q.body = <<>> /\ r.action \in PostActions
                   THEN [r EXCEPT !.action = "BadRequest"] ELSE r
  /\ headers_done' = TRUE /\ cs' = "end" /\ buf' = Tail(buf)
  /\ UNCHANGED <<sent, wire, open, n, handled, cut>>

\* A header line the state machine has no transition for.  From then on parse
\* consumes nothing, and handleData, which waits for the end of the buffer, does
\* not return.
HeadersError ==
  /\ buf # <<>> /\ ~ headers_done /\ cs = "headers" /\ sent[n].malformed
  /\ cs' = "error"
  /\ UNCHANGED <<sent, wire, buf, open, headers_done, connection_close, done,
                 content_length, r, n, handled, cut>>

PieceOf(part) == IF part.what = "body" THEN sent[part.n].body[part.i]
                 ELSE [fields |-> <<>>, closes |-> FALSE]

\* Where the JSON parser stops: at the closing brace, if it comes.
ObjectEnd(pieces) ==
  LET ends == {i \in DOMAIN pieces : pieces[i].closes}
  IN  IF ends = {} THEN Len(pieces) ELSE Min(ends)

Setting(pieces, f) == {i \in 1 .. ObjectEnd(pieces) : f \in DOMAIN pieces[i].fields}

\* A field that comes more than once has its last value.
Value(v, pieces, f) ==
  IF Setting(pieces, f) = {} THEN v[f] ELSE pieces[Max(Setting(pieces, f))].fields[f]

\* VisitParser::parse: v with the fields up to there.
Parsed(v, pieces) ==
  [id |-> Value(v, pieces, "id"), rest |-> Value(v, pieces, "rest"),
   mask |-> v.mask \union {f \in {"id", "rest"} : Setting(pieces, f) # {}}]

\* std::min(pe, p + content_length)
BodyEnd == Min({Len(buf), content_length})

\* Mutant: what has been parsed of the body counts.
Rejected_Never(pieces) == FALSE

\* The JSON parser returns nullptr unless it comes to the closing brace, also
\* when the rest is still to be read.
Rejected(pieces) == \A i \in DOMAIN pieces : ~ pieces[i].closes

\* Mutant: a rejected body is not read to its end.
DoneAfterBody_Rejected(pieces) == content_length = BodyEnd \/ Rejected(pieces)

DoneAfterBody(pieces) == content_length = BodyEnd

parse_body ==
  /\ buf # <<>> /\ headers_done /\ ~ done
  /\ LET pieces == [i \in 1 .. BodyEnd |-> PieceOf(buf[i])]
     IN  /\ r' = IF r.action \notin PostActions THEN r
                 ELSE [r EXCEPT !.v = Parsed(@, pieces),
                                !.action = IF Rejected(pieces) THEN "BadRequest" ELSE @]
         /\ done' = DoneAfterBody(pieces)
         /\ cut' = IF BodyEnd < Len(sent[n].body) THEN cut \union {n} ELSE cut
  /\ content_length' = content_length - BodyEnd
  /\ buf' = SubSeq(buf, BodyEnd + 1, Len(buf))
  /\ UNCHANGED <<sent, wire, open, head, n, handled>>
-----------------------------------------------------------------------------
(* Connection::handleRequest, and what follows it in handleData.           *)

\* What is enqueued to Writer::Visits if the action is a POST: updateVisit gives
\* the entity the id of the request line.
Enqueued == IF r.action = "PostVisit" THEN [r.v EXCEPT !.id = r.entity_id] ELSE r.v

\* updateVisit and insertVisit answer 200, and close the descriptor.
Accepts(exists) ==
  \/ r.action = "PostVisit" /\ exists /\ "id" \notin r.v.mask
  \/ r.action = "PostVisitNew" /\ r.v.mask = {"id", "rest"}

\* Mutant: the next request goes on where the body ended.
HeadersDoneAfterReset_Kept == headers_done

HeadersDoneAfterReset == FALSE

\* Whether the visit exists is up to the storage.  A request that said
\* Connection: close takes the rest of the buffer and the connection with it;
\* else the parser is reset.
handleRequest ==
  /\ done
  /\ handled' = Append(handled, [n |-> n, action |-> r.action, v |-> Enqueued])
  /\ open' \in {open /\ ~ connection_close /\ ~ Accepts(exists) : exists \in BOOLEAN}
  /\ buf' = IF connection_close THEN <<>> ELSE buf
  /\ r' = Fresh(Enqueued) /\ n' = 0
  /\ cs' = "line" /\ headers_done' = HeadersDoneAfterReset /\ done' = FALSE
  /\ connection_close' = FALSE /\ content_length' = 0
  /\ UNCHANGED <<sent, wire, cut>>

Server ==
  \/ \E k \in 1 .. ReadBufSize : Read(k)
  \/ RequestLine \/ Headers \/ HeadersError \/ parse_body \/ handleRequest

Next == Server \/ \E q \in Requests : Send(q)

Spec == Init /\ [][Next]_vars

\* The handler of a POST begins with enableWriters, which waits for
\* Writer::mutex: no fairness lets it get on.
MayBlock == done /\ r.action \in PostActions

\* Elsewhere the server thread blocks in epoll_wait only, and comes back to the
\* input of every connection.
FairSpec == Spec /\ WF_vars(~ MayBlock /\ Server)
-----------------------------------------------------------------------------
(* Properties.                                                             *)

Visit == [id : Ids \union {NoId}, rest : Contents \union {NoId},
          mask : SUBSET {"id", "rest"}]

\* Every variable keeps its type, and between requests the parser is fresh but
\* for the entity.
TypeOK ==
  /\ sent \in Seq(Requests)
  /\ \A p \in ToSet(wire \o buf) : p \in [n : DOMAIN sent, what : {"line", "headers", "body"}, i : Nat]
  /\ open \in BOOLEAN /\ connection_close \in BOOLEAN
  /\ r.action \in Actions /\ r.entity_id \in Ids \union {NoId} /\ r.v \in Visit
  /\ n \in 0 .. Len(sent) /\ content_length \in Nat
  /\ CASE cs = "line" -> ~ headers_done /\ ~ done /\ n = 0
       [] cs \in {"headers", "error"} -> ~ headers_done /\ ~ done /\ n # 0
       [] cs = "end" -> headers_done /\ n # 0 /\ (done <=> content_length = 0)

IsPost(m) == sent[m].action \in PostActions

\* The requests are handled in the order in which they were sent, each once and
\* none skipped, wherever reads cut the input and whatever was rejected before:
\* content_length (http_parser.hpp.rl:134-158) finds the next request even if
\* the JSON parser has given the body up.
HandledInOrder ==
  /\ \A i \in DOMAIN handled : handled[i].n = i
  /\ buf # <<>> /\ ~ done =>
       Head(buf).what = CASE cs = "line" -> "line" [] cs = "end" -> "body" [] OTHER -> "headers"

\* The body of the m-th request is an object, and was parsed in one call.
Whole(m) == m \notin cut /\ \E k \in DOMAIN sent[m].body : sent[m].body[k].closes

\* handleRequest is called with the action of the request line, but for a POST
\* whose body is missing, is no object, or came in more than one read
\* (http_parser.hpp.rl:141-151): exactly those are answered 400 unheard.
ActionKept ==
  \A i \in DOMAIN handled :
    LET m == handled[i].n
    IN  handled[i].action =
          IF IsPost(m) /\ ~ Whole(m) THEN "BadRequest" ELSE sent[m].action

\* What the body of the m-th request gives field f.
Given(m, f) == {p.fields[f] : p \in {p \in ToSet(sent[m].body) : f \in DOMAIN p.fields}}

\* A visit that is enqueued has the fields its own request gave it in its mask
\* and no others, each with that value, and an update has the id of its request
\* line, although the parser keeps the entity of the requests before it
\* (Request.hpp:46-50).  Only the id of a create that has none is of another.
FieldsAreOwn ==
  \A i \in DOMAIN handled :
    LET m == handled[i].n
        v == handled[i].v
    IN  handled[i].action \in PostActions =>
          /\ v.mask = {f \in {"id", "rest"} : Given(m, f) # {}}
          /\ \A f \in v.mask : f = "rest" \/ sent[m].action = "PostVisitNew" => v[f] \in Given(m, f)
          /\ sent[m].action = "PostVisit" => v.id = sent[m].entity_id

\* The thread is not kept in the handler of a POST for good.
PostsReturn == []<> ~ MayBlock

\* Every request is handled in the end, unless a request before it has closed
\* the connection, which a POST does that is answered 200, or has put the parser
\* in its error state.  The premise is that enableWriters gets the mutex
\* (Connection.hpp:88-93), which it need not while Strings works.
EveryRequestHandled ==
  PostsReturn =>
    \A m \in 1 .. MaxRequests :
      Len(sent) >= m ~>
        Len(handled) >= m \/ ~ open \/ \E k \in DOMAIN sent : k <= m /\ sent[k].malformed
=============================================================================
