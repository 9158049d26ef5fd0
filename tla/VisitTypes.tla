----------------------------- MODULE VisitTypes -----------------------------
(***************************************************************************)
(* The data of the write path of visits: hlcup::Visit (a request body),    *)
(* hlcup::Request (a POST) and Storage::VisitItem (what is stored), shared *)
(* by VisitStore, what the write path promises, and VisitWriter, how the   *)
(* program does it.                                                        *)
(***************************************************************************)
EXTENDS Integers, Sequences, FiniteSets

CONSTANTS
  Threads,          \* server threads; each is a producer of the request queue
  VisitIds,         \* the indices of Storage::visits
  UserIds,          \* the indices of Storage::users
  LocationIds,      \* the indices of Storage::locations
  NoId,             \* Entity::kInvalidId
  Marks,
  Times,
  Loaded,           \* the visits read from data.zip: a function on some ids
  Posts             \* the POST requests clients send, each at most once

\* Visit::Param
Param == {"id", "user_id", "location_id", "visited_at", "mark"}

\* hlcup::Visit, the body of a request; a field outside mask is never read.
Visit == [id : VisitIds \union {NoId}, mask : SUBSET Param, mark : Marks,
          user_id : UserIds \union {NoId},
          location_id : LocationIds \union {NoId},
          visited_at : Times]

\* Visit v;
BlankVisit == [id |-> NoId, mask |-> {}, mark |-> 0, user_id |-> NoId,
               location_id |-> NoId, visited_at |-> 0]

\* hlcup::Request.  POST /visits/new has no entity id, its body names the visit.
\* The tag tells two requests of the same content apart.
Post == {p \in [tag : Nat, entity_id : VisitIds \union {NoId}, v : Visit] :
           p.entity_id = NoId => p.v.id \in VisitIds /\ "id" \in p.v.mask}

\* Storage::VisitItem
VisitItem == [id : VisitIds \union {NoId}, mark : Marks,
              user_id : UserIds \union {NoId},
              location_id : LocationIds \union {NoId},
              visited_at : Times]

ASSUME VisitConstants ==
  /\ IsFiniteSet(VisitIds)
  /\ NoId \notin VisitIds \union UserIds \union LocationIds
  /\ 0 \in Marks
  /\ 0 \in Times /\ Times \subseteq Int
  /\ Posts \subseteq Post
  /\ DOMAIN Loaded \subseteq VisitIds
  /\ \A v \in DOMAIN Loaded :
       /\ Loaded[v] \in VisitItem /\ Loaded[v].id = v
       /\ Loaded[v].user_id # NoId /\ Loaded[v].location_id # NoId

\* The default member initializers of VisitItem.
NewVisitItem == [id |-> NoId, mark |-> 0, user_id |-> NoId,
                 location_id |-> NoId, visited_at |-> 0]

\* Storage::visits once data.zip is loaded.
LoadedVisits ==
  [v \in VisitIds |-> IF v \in DOMAIN Loaded THEN Loaded[v] ELSE NewVisitItem]

\* The visit a POST is about, and what the handler makes of its body.
Target(p) == IF p.entity_id = NoId THEN p.v.id ELSE p.entity_id
Body(p) == [p.v EXCEPT !.id = Target(p)]

\* The visit `it' once the request v has taken effect.
Overlay(v, it) == [f \in Param |-> IF f \in v.mask THEN v[f] ELSE it[f]]
=============================================================================
