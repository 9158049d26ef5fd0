------------------------------- MODULE Loader -------------------------------
(***************************************************************************)
(* How Storage is filled before the server starts: main reads the          *)
(* timestamp from options.txt, then loadFromFile goes through the entries  *)
(* of data.zip in the order they have there, and inserts every object of   *)
(* an entry as soon as its JSON parser has seen the closing brace.         *)
(***************************************************************************)
EXTENDS Conversions, SortedVisits, TLC

CONSTANTS
  Users, Locations, Visits,      \* the objects data.zip is made of
  Options,                       \* the timestamp
  Archives,                      \* the ways they may be arranged and damaged
  UserIds, LocationIds, VisitIds, NoId,
  Uninitialised                  \* what a field on the stack may hold

kSecondsInYear == 31557600

\* The fields of a JSON object; those that hold a string, and of these the ones
\* kept in dictionaries.
Fields == [
  user     |-> {"id", "birth_date", "gender", "email", "first_name", "last_name"},
  location |-> {"id", "distance", "place", "country", "city"},
  visit    |-> {"id", "user_id", "location_id", "visited_at", "mark"}]
Strings == {"email", "first_name", "last_name", "place", "country", "city"}
AllDicts == Strings \ {"email"}

\* An object is a function on some of these fields.  One the parser gives up in
\* has the field "broken".
Broken(o) == "broken" \in DOMAIN o

ASSUME LoaderConstants ==
  /\ NoId \notin UserIds \union LocationIds \union VisitIds
  /\ \A o \in Users : DOMAIN o = Fields.user /\ o.id \in UserIds
  /\ \A o \in Locations : DOMAIN o = Fields.location /\ o.id \in LocationIds
  /\ \A o \in Visits : /\ DOMAIN o = Fields.visit /\ o.id \in VisitIds
                       /\ o.user_id \in UserIds /\ o.location_id \in LocationIds
  /\ \A a \in Archives : \A i \in DOMAIN a :
       /\ a[i].letter \in {"u", "l", "v", "o", "other"}
       /\ \A j \in DOMAIN a[i].objects : "id" \in DOMAIN a[i].objects[j]

VARIABLES
  pc,                       \* main: "timestamp", "open", "entries", "parse", "serve"
  options_txt,              \* whether there is an options.txt
  archive,                  \* what could be read of data.zip
  next,                     \* the entry that comes next
  rest, e,                  \* objects left in the entry, and `EntityType e'
  current_time,
  users, locations, visits, \* the arrays, without the vectors
  vecs,                     \* vecs[k][o]: users[o].visits, locations[o].visits
  dict                      \* dict[d]: a vector of texts and the map of their ids

stored == <<current_time, users, locations, visits, vecs, dict>>
lvars == <<pc, options_txt, archive, next, rest, e, stored>>
-----------------------------------------------------------------------------
\* A fresh entity: a time, a distance and a gender have no initializer.
Blank(letter) ==
  CASE letter = "u" -> [id : {NoId}, birth_date : Uninitialised, gender : {"m", "f"},
                        email : {<<>>}, first_name : {<<>>}, last_name : {<<>>}]
    [] letter = "l" -> [id : {NoId}, distance : Uninitialised, place : {<<>>},
                        country : {<<>>}, city : {<<>>}]
    [] letter = "v" -> [id : {NoId}, user_id : {NoId}, location_id : {NoId},
                        visited_at : {0}, mark : {0}]

\* The arrays come zeroed from the system; ids have initializers.
LInit ==
  /\ pc = "timestamp" /\ options_txt \in BOOLEAN
  /\ archive \in Archives /\ next = 1
  /\ rest = <<>> /\ e = <<>>
  /\ current_time = 0
  /\ users = [u \in UserIds |-> [id |-> NoId, birth_date |-> 0, gender |-> "m", age |-> 0,
                                 email |-> <<>>, first_name |-> NoId, last_name |-> NoId]]
  /\ locations = [l \in LocationIds |-> [id |-> NoId, distance |-> 0, place |-> NoId,
                                         country |-> NoId, city |-> NoId]]
  /\ visits = [v \in VisitIds |-> [id |-> NoId, user_id |-> NoId, location_id |-> NoId,
                                   visited_at |-> 0, mark |-> 0]]
  /\ vecs = [user_id |-> [u \in UserIds |-> <<>>],
             location_id |-> [l \in LocationIds |-> <<>>]]
  /\ dict = [d \in AllDicts |-> [vec |-> <<>>, map |-> <<>>]]

\* find_or_create_in_dict: the dictionary after it, and the id.
Entered(D, s) ==
  IF s \in DOMAIN D.map THEN D
  ELSE [vec |-> Append(D.vec, s), map |-> (s :> Len(D.vec)) @@ D.map]
NameId(d, s) == dict'[d].map[s]

Enter(x, names) ==
  dict' = [d \in AllDicts |-> IF d \in names THEN Entered(dict[d], x[d]) ELSE dict[d]]

\* An unsigned char that is then cut to seven bits; / truncates toward zero.
userAge(birth_date) ==
  LET lived == current_time - birth_date
      years == IF lived >= 0 THEN lived \div kSecondsInYear
                             ELSE -((-lived) \div kSecondsInYear)
  IN  years % 128

insertUser(x) ==
  /\ Enter(x, {"first_name", "last_name"})
  /\ users' = [users EXCEPT ![x.id] =
       [id |-> x.id, birth_date |-> x.birth_date, gender |-> x.gender,
        age |-> userAge(x.birth_date), email |-> x.email,
        first_name |-> NameId("first_name", x.first_name),
        last_name |-> NameId("last_name", x.last_name)]]
  /\ e' = [x EXCEPT !.email = <<>>]   \* it was moved from
  /\ UNCHANGED <<locations, visits, vecs>>

insertLocation(x) ==
  /\ Enter(x, {"place", "country", "city"})
  /\ locations' = [locations EXCEPT ![x.id] =
       [id |-> x.id, distance |-> x.distance,
        place |-> NameId("place", x.place), country |-> NameId("country", x.country),
        city |-> NameId("city", x.city)]]
  /\ e' = x
  /\ UNCHANGED <<users, visits, vecs>>

\* Mutant: the keys are compared before the visit is stored.
insertVisit_Early(x) ==
  /\ visits' = [visits EXCEPT ![x.id] = x]
  /\ LET at == [v \in VisitIds |-> visits[v].visited_at]
     IN  \E byUser \in insert_sorted(at, vecs.user_id[x.user_id], x.id, FALSE),
            byLocation \in insert_sorted(at, vecs.location_id[x.location_id], x.id, FALSE) :
           vecs' = [vecs EXCEPT !.user_id[x.user_id] = byUser,
                                !.location_id[x.location_id] = byLocation]
  /\ e' = x
  /\ UNCHANGED <<users, locations, dict>>

insertVisit(x) ==
  /\ visits' = [visits EXCEPT ![x.id] = x]
  /\ LET at == [v \in VisitIds |-> visits'[v].visited_at]
     IN  \E byUser \in insert_sorted(at, vecs.user_id[x.user_id], x.id, FALSE),
            byLocation \in insert_sorted(at, vecs.location_id[x.location_id], x.id, FALSE) :
           vecs' = [vecs EXCEPT !.user_id[x.user_id] = byUser,
                                !.location_id[x.location_id] = byLocation]
  /\ e' = x
  /\ UNCHANGED <<users, locations, dict>>
-----------------------------------------------------------------------------
\* main calls loadTimestamp, which finds options.txt or does not.
loadTimestamp ==
  /\ pc = "timestamp" /\ pc' = "open"
  /\ current_time' = IF options_txt THEN Options ELSE current_time
  /\ UNCHANGED <<options_txt, archive, next, rest, e, users, locations, visits, vecs, dict>>

\* zip_open may fail; the server starts all the same, with nothing to serve.
zip_open ==
  /\ pc = "open"
  /\ \/ pc' = "entries" /\ UNCHANGED archive
     \/ pc' = "serve" /\ archive' = <<>>
  /\ UNCHANGED <<options_txt, next, rest, e, stored>>

\* The next entry is opened and its first letter decides on the parser.
openEntry ==
  /\ pc = "entries" /\ next <= Len(archive)
  /\ next' = next + 1
  /\ LET f == archive[next]
     IN  CASE f.letter \in {"u", "l", "v"} ->
                /\ pc' = "parse" /\ rest' = f.objects
                /\ e' \in Blank(f.letter)
                /\ UNCHANGED stored
           [] f.letter = "o" ->
                /\ current_time' = Options
                /\ UNCHANGED <<pc, rest, e, users, locations, visits, vecs, dict>>
           [] OTHER -> UNCHANGED <<pc, rest, e, stored>>
  /\ UNCHANGED <<options_txt, archive>>

\* What the parser leaves in e: a field the object does not have is still
\* the one of the object before.
Parsed(o) ==
  [f \in DOMAIN e |-> IF f \notin DOMAIN o THEN e[f]
                      ELSE IF f \in Strings THEN json_string(o[f]) ELSE o[f]]

\* The parser finds another object.
Finds == rest # <<>> /\ ~ Broken(Head(rest))

parse ==
  /\ pc = "parse" /\ Finds
  /\ rest' = Tail(rest)
  /\ LET x == Parsed(Head(rest))
     IN  CASE archive[next - 1].letter = "u" -> insertUser(x)
           [] archive[next - 1].letter = "l" -> insertLocation(x)
           [] archive[next - 1].letter = "v" -> insertVisit(x)
  /\ UNCHANGED <<pc, options_txt, archive, next, current_time>>

\* The parser returns nullptr, at the end or at what it does not understand:
\* what follows in the entry is left out.
parseEnds ==
  /\ pc = "parse" /\ ~ Finds
  /\ pc' = "entries" /\ rest' = <<>> /\ e' = <<>>
  /\ UNCHANGED <<options_txt, archive, next, stored>>

startServing ==
  /\ pc = "entries" /\ next > Len(archive)
  /\ pc' = "serve"
  /\ UNCHANGED <<options_txt, archive, next, rest, e, stored>>

LNext ==
  \/ loadTimestamp \/ zip_open \/ openEntry \/ parse \/ parseEnds \/ startServing
=============================================================================
