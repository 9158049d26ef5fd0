-------------------------- MODULE MCRequestFraming --------------------------
(***************************************************************************)
(* A small instance of the framing: requests that differ in all that the   *)
(* parser keeps from one to the next.                                      *)
(***************************************************************************)
EXTENDS RequestFraming, TLC

P(fields, closes) == [fields |-> fields, closes |-> closes]
Q(action, id, body) ==
  [action |-> action, entity_id |-> id, malformed |-> FALSE, close |-> FALSE, body |-> body]

MCRequests == {
  Q("PostVisitNew", NoId, <<P("id" :> "v1" @@ "rest" :> "a", TRUE)>>),
  Q("PostVisitNew", NoId, <<P("rest" :> "b", TRUE), P(<<>>, FALSE)>>),
  Q("PostVisit", "v2", <<P("rest" :> "c", FALSE), P("rest" :> "d", TRUE)>>),
  Q("PostVisit", "v2", <<P("id" :> "v1", TRUE)>>),
  Q("PostVisit", "v2", <<>>),
  [Q("GetVisit", "v1", <<>>) EXCEPT !.close = TRUE],
  Q("NotFound", NoId, <<P("id" :> "v2", TRUE)>>),
  [Q("GetVisit", "v2", <<>>) EXCEPT !.malformed = TRUE]}
=============================================================================
