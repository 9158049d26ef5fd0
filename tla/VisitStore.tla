----------------------------- MODULE VisitStore -----------------------------
(***************************************************************************)
(* What the write path of visits promises: a POST is answered at once from *)
(* the visits stored so far, and takes effect later, in one step and       *)
(* exactly once; the POSTs of one server thread take effect in the order   *)
(* they were answered, those of different threads in any order.  Nothing   *)
(* else changes a visit, and a request takes effect whatever its answer.   *)
(***************************************************************************)
EXTENDS VisitTypes

VARIABLES
  store,  \* the stored visits
  inbox,  \* inbox[t]: the requests of thread t that have not taken effect
  log     \* log[t]: the requests thread t was sent, with its answers

svars == <<store, inbox, log>>

Stored(id) == store[id].id # NoId

Answer(p) ==
  IF p.entity_id = NoId
    THEN IF p.v.mask = Param THEN 200 ELSE 400
    ELSE IF ~ Stored(p.entity_id) THEN 404
         ELSE IF "id" \in p.v.mask THEN 400 ELSE 200

SInit ==
  /\ store = LoadedVisits
  /\ inbox = [t \in Threads |-> <<>>]
  /\ log = [t \in Threads |-> <<>>]

Unsent(p) == \A t \in Threads : \A i \in DOMAIN log[t] : log[t][i].post # p

Submit(t, p) ==
  /\ Unsent(p)
  /\ log' = [log EXCEPT ![t] = Append(@, [post |-> p, code |-> Answer(p)])]
  /\ inbox' = [inbox EXCEPT ![t] = Append(@, Body(p))]
  /\ UNCHANGED store

TakeEffect(t) ==
  /\ inbox[t] # <<>>
  /\ LET v == Head(inbox[t])
     IN  store' = [store EXCEPT ![v.id] = Overlay(v, @)]
  /\ inbox' = [inbox EXCEPT ![t] = Tail(@)]
  /\ UNCHANGED log

SNext == \E t \in Threads : TakeEffect(t) \/ \E p \in Posts : Submit(t, p)

SSpec == SInit /\ [][SNext]_svars
-----------------------------------------------------------------------------
\* How many of the requests of thread t have taken effect.
Effective(t) == Len(log[t]) - Len(inbox[t])

Writes(t, v, f) ==
  {i \in 1 .. Effective(t) :
     LET p == log[t][i].post IN Target(p) = v /\ f \in p.v.mask}

\* What thread t last made of field f of visit v.
LastWritten(t, v, f) ==
  LET i == CHOOSE i \in Writes(t, v, f) : \A j \in Writes(t, v, f) : j <= i
  IN  Body(log[t][i].post)[f]

\* A stored field is what some server thread wrote to it last, or what was
\* loaded when no request has written it: requests of one thread are never
\* applied out of order (the FIFO of Writer::Visits::queue is per producer),
\* and no field keeps a value that its own thread has overwritten.
LastWriteOfAThread ==
  \A v \in VisitIds, f \in Param :
    LET writers == {t \in Threads : Writes(t, v, f) # {}}
    IN  store[v][f] \in IF writers = {} THEN {LoadedVisits[v][f]}
                        ELSE {LastWritten(t, v, f) : t \in writers}
=============================================================================
