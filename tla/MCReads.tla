------------------------------- MODULE MCReads -------------------------------
(***************************************************************************)
(* A data.zip of two users, two locations and three visits, in many orders, *)
(* whole and damaged, and one GET after the other.  The numbers lie on the *)
(* boundaries between the branches of the number conversions.              *)
(***************************************************************************)
EXTENDS Reads

Plain(s) == [i \in DOMAIN s |-> [escaped |-> FALSE, code |-> s[i]]]
Escaped(s) == [i \in DOMAIN s |-> [escaped |-> TRUE, code |-> s[i]]]

MCOptions == 1500000000

\* The first user becomes 40 in that second, the second a second later.
Born(years) == MCOptions - years * kSecondsInYear

User(id, born, gender, email, first, last) ==
  [id |-> id, birth_date |-> born, gender |-> gender, email |-> email,
   first_name |-> first, last_name |-> last]
MCUsers == {
  User(9999, Born(40), "m", Plain(<<97>>), Escaped(<<127, 128>>), Plain(<<97, 98>>)),
  User(10000, Born(50) + 1, "f", Plain(<<98>>), Escaped(<<2047, 2048>>),
       Escaped(<<65534>>) \o Plain(<<32>>))}

Location(id, distance, place, country, city) ==
  [id |-> id, distance |-> distance, place |-> place, country |-> country, city |-> city]
MCLocations == {
  Location(9, 99, Plain(<<97>>), Plain(<<97, 32, 43>>), Plain(<<99>>)),
  Location(10, 100, Plain(<<98>>), Escaped(<<65535>>), Plain(<<99>>))}

Visit(id, user, location, at, mark) ==
  [id |-> id, user_id |-> user, location_id |-> location, visited_at |-> at, mark |-> mark]
V1 == Visit(1000, 9999, 9, 99999999, 5)
V2 == Visit(99999, 9999, 10, 100000000, 2)
V3 == Visit(7, 10000, 9, -10, 0)
V4 == Visit(0, 9999, 9, 2147483647, 3)
MCVisits == {V1, V2, V3, V4}

File(letter, objects) == [letter |-> letter, objects |-> objects]
Options1 == File("o", <<>>)
SomeUsers == SetToSeqs(MCUsers)
SomeLocations == SetToSeqs(MCLocations)

\* The entries in any order, the visits in two of them.
Orders(S) == {[i \in DOMAIN p |-> p[i]] : p \in SetToSeqs(S)}
WholeArchives == UNION {
  Orders({Options1, File("u", us), File("l", ls), File("v", vs), File("v", <<V4>>)}) :
    us \in SomeUsers, ls \in SomeLocations, vs \in {<<V1, V2, V3>>, <<V2, V3, V1>>}}

\* An object the parser gives up in, one without a last name or a distance,
\* and an entry that is none of the four.
Damaged == UNION {
  {<<File("u", <<us[1], us[2] @@ ("broken" :> TRUE)>>), File("other", <<>>),
     File("l", ls), File("v", <<V1, V2, V3>>)>>,
   <<File("l", <<ls[1], [id |-> ls[2].id, place |-> ls[2].place]>>),
     File("u", <<us[1], [f \in DOMAIN us[2] \ {"last_name", "email"} |-> us[2][f]]>>),
     Options1, File("v", <<V3 @@ ("broken" :> TRUE), V1>>), File("v", <<V2>>)>>,
   <<File("u", us), File("l", <<[f \in Fields.location \ {"distance"} |-> ls[1][f]]>>),
     File("v", <<V2, V1>>), Options1>>} :
  us \in SomeUsers, ls \in SomeLocations}

MCArchives == WholeArchives \union Damaged

\* The query before named no country, or the one of a location.
MCLeftovers == {<<>>, <<97, 32, 43>>}

Get(what, id, q) == [what |-> what, id |-> id, q |-> q]
NoQuery == [p \in {} |-> 0]
MCRequests ==
  {Get("user", id, NoQuery) : id \in {9999, 10000, 3}} \union
  {Get("location", id, NoQuery) : id \in {9, 10, 3}} \union
  {Get("visit", id, NoQuery) : id \in {1000, 99999, 7, 0, 3}} \union
  {Get("visits", 9999, q) : q \in {
     NoQuery, "from_date" :> 99999999, "to_date" :> 2147483647,
     "from_date" :> 99999998 @@ "to_date" :> 100000000,
     "country" :> Plain(<<97, 43>>) \o Escaped(<<43>>), "country" :> Plain(<<97, 43, 43>>),
     "country" :> <<>>, "to_distance" :> 99, "to_distance" :> Malformed,
     "country" :> Escaped(<<240, 143, 191, 191>>) @@ "to_distance" :> 101}} \union
  {Get("visits", 3, NoQuery), Get("avg", 3, NoQuery), Get("avg", 10, NoQuery),
   Get("user", 3, "from_age" :> Malformed)} \union
  {Get("avg", 9, q) : q \in {
     NoQuery, "gender" :> "m", "from_age" :> 40, "to_age" :> 40,
     "from_age" :> 49 @@ "to_age" :> 50, "from_age" :> 41, "to_date" :> -10,
     "from_date" :> 0 @@ "gender" :> "f"}}
=============================================================================
