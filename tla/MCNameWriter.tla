---------------------------- MODULE MCNameWriter ----------------------------
(***************************************************************************)
(* Small instances of the write path of users and locations: one entity of *)
(* each kind is loaded, a second one may be created.                       *)
(***************************************************************************)
EXTENDS NameWriter

\* Everything loaded has the one name "a".
MCLoadedOthers == [k \in Kinds |-> 1 :> "old"]
MCLoaded == [d \in AllDicts |-> 1 :> "a"]

Update(tag, kind, id, names) ==
  [tag |-> tag, kind |-> kind, entity_id |-> id,
   body |-> [id |-> id, sets_id |-> FALSE, others |-> NoContent, names |-> names]]

Create(tag, kind, id, names) ==
  [tag |-> tag, kind |-> kind, entity_id |-> NoId,
   body |-> [id |-> id, sets_id |-> TRUE, others |-> "new", names |-> names]]

\* A location is created with a new city and place while another one gets the
\* same city; a user that does not exist is sent two names, which is answered
\* 404 and applied: the Users and the Locations worker both push to Strings.
TwoProducers == {
  Create(1, "location", 2, "city" :> "b" @@ "country" :> "a" @@ "place" :> "b"),
  [Update(2, "location", 1, "city" :> "b") EXCEPT !.body.others = "new"],
  Update(3, "user", 2, "last_name" :> "b" @@ "first_name" :> "b")}

NewPlace == {Update(1, "location", 1, "place" :> "b")}

Symmetry == Permutations(Threads)
=============================================================================
