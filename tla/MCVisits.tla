------------------------------ MODULE MCVisits ------------------------------
(***************************************************************************)
(* Small instances of the write path of visits: two loaded visits and one  *)
(* that is created, and workloads of three POSTs, each chosen for what its *)
(* requests make collide.                                                  *)
(***************************************************************************)
EXTENDS VisitTypes, TLC

VisitOf(id, user, location, at, mark) ==
  [id |-> id, user_id |-> user, location_id |-> location, visited_at |-> at,
   mark |-> mark]

\* A body with the fields of mask, the others as a fresh parser leaves them.
BodyOf(mask, it) ==
  [f \in Param \union {"mask"} |->
     IF f = "mask" THEN mask ELSE IF f \in mask THEN it[f] ELSE BlankVisit[f]]

Create(tag, it) == [tag |-> tag, entity_id |-> NoId, v |-> BodyOf(Param, it)]

Update(tag, id, mask, it) ==
  [tag |-> tag, entity_id |-> id, v |-> BodyOf(mask, it)]

\* Visits 1 and 3 are loaded, visit 2 is not.  All belong to user 1.
MCLoaded == [v \in {1, 3} |-> VisitOf(v, 1, v, v + 4, 1)]

\* Visit 2 is created next to visit 1 while both are moved to another user.
Moves == {
  Create(1, VisitOf(2, 1, 1, 6, 1)),
  Update(2, 1, {"user_id"}, VisitOf(1, 2, 1, 0, 0)),
  Update(3, 2, {"user_id", "mark"}, VisitOf(2, 2, 1, 0, 0))}

\* A POST the server answers 404 or 400 is enqueued like any other, here with
\* two that give visits other times.
Rejected == {
  Update(1, 2, {"user_id", "visited_at"}, VisitOf(2, 1, 1, 3, 0)),
  Update(2, 1, {"id", "location_id", "visited_at"}, VisitOf(2, 1, 2, 9, 0)),
  [tag |-> 3, entity_id |-> NoId, v |-> BodyOf({"id", "mark"}, VisitOf(2, 1, 1, 0, 1))]}

Symmetry == Permutations(Threads)
=============================================================================
