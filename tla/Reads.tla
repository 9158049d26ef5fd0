-------------------------------- MODULE Reads --------------------------------
(***************************************************************************)
(* The GET handlers of Connection.hpp on the storage the loader has left.  *)
(* An answer is its status and the values its body has; the labels between *)
(* them are left out.                                                      *)
(***************************************************************************)
EXTENDS Loader

CONSTANTS
  Requests,  \* what clients ask: what, id and q, a function on some Param
  Malformed, \* a value of a parameter the parser rejects
  Leftovers, \* what `country' may hold of the query before on the connection
  Overruns   \* how many bytes may follow a char array up to the first NUL

\* Request::Param
Param == {"from_date", "to_date", "from_age", "to_age", "country", "to_distance", "gender"}

ASSUME ReadConstants ==
  \A r \in Requests : /\ r.what \in {"user", "location", "visit", "visits", "avg"}
                      /\ DOMAIN r.q \subseteq Param
                      /\ "country" \in DOMAIN r.q => r.q.country \in Seq(UriChar)

VARIABLE answer  \* to the last GET, with what was asked

vars == <<lvars, answer>>

NoAnswer == [code |-> 0]
Init == LInit /\ answer = NoAnswer
-----------------------------------------------------------------------------
NotFound == [code |-> 404]
BadRequest == [code |-> 400]

userExists(id) == id \in UserIds /\ users[id].id # NoId
locationExists(id) == id \in LocationIds /\ locations[id].id # NoId
visitExists(id) == id \in VisitIds /\ visits[id].id # NoId

\* std::string &operator[]: nothing is said of an index outside.
Undefined == <<-1>>
Text(d, id) == IF id = NoId THEN Undefined ELSE dict[d].vec[id + 1]

writeUser(id) ==
  IF ~ userExists(id) THEN NotFound
  ELSE LET u == users[id]
       IN  [code |-> 200, id |-> u32toa_branchlut2(u.id),
            first_name |-> Text("first_name", u.first_name),
            last_name |-> Text("last_name", u.last_name),
            email |-> u.email, birth_date |-> i32toa_branchlut2(u.birth_date),
            gender |-> u.gender]

writeLocation(id) ==
  IF ~ locationExists(id) THEN NotFound
  ELSE LET l == locations[id]
       IN  [code |-> 200, id |-> i32toa_branchlut2(l.id),
            distance |-> i32toa_branchlut2(l.distance),
            place |-> Text("place", l.place), country |-> Text("country", l.country),
            city |-> Text("city", l.city)]

writeVisit(id) ==
  IF ~ visitExists(id) THEN NotFound
  ELSE LET v == visits[id]
       IN  [code |-> 200, id |-> i32toa_branchlut2(v.id),
            location |-> i32toa_branchlut2(v.location_id),
            user |-> i32toa_branchlut2(v.user_id),
            visited_at |-> i32toa_branchlut2(v.visited_at), mark |-> v.mark]

\* isSet(p) => test
If(q, p, Test(_)) == p \in DOMAIN q => Test(q[p])

\* Between from_date and to_date, both excluded.
InPeriod(q, v) ==
  /\ If(q, "from_date", LAMBDA x : visits[v].visited_at > x)
  /\ If(q, "to_date", LAMBDA x : visits[v].visited_at < x)

\* The id of a country no location has is kInvalidId.
CountryId(q) ==
  IF "country" \in DOMAIN q /\ q.country \in DOMAIN dict["country"].map
    THEN dict["country"].map[q.country] ELSE NoId

Listed(q, v) ==
  LET l == locations[visits[v].location_id]
  IN  /\ InPeriod(q, v)
      /\ "country" \in DOMAIN q => l.country = CountryId(q)
      /\ If(q, "to_distance", LAMBDA x : l.distance < x)

\* An element of the list, whose end is a comma.  The last comma, or the space
\* an empty list begins with, is overwritten with a space.
writeUserVisits(id, q) ==
  IF ~ userExists(id) THEN NotFound
  ELSE LET kept == SelectSeq(vecs.user_id[id], LAMBDA v : Listed(q, v))
           ends == <<" ">> \o [i \in DOMAIN kept |-> ","]
           item(v) == [mark |-> visits[v].mark, visited_at |-> visits[v].visited_at,
                       place |-> Text("place", locations[visits[v].location_id].place)]
       IN  [code |-> 200, list |-> [i \in DOMAIN kept |-> item(kept[i])],
            ends |-> [ends EXCEPT ![Len(ends)] = " "]]

Counted(q, v) ==
  LET u == users[visits[v].user_id]
  IN  /\ InPeriod(q, v)
      /\ If(q, "gender", LAMBDA x : u.gender = x)
      /\ If(q, "from_age", LAMBDA x : u.age >= x)
      /\ If(q, "to_age", LAMBDA x : u.age < x)

Zero == <<Ascii(0), Point, Ascii(0), Ascii(0), Ascii(0), Ascii(0), Ascii(0)>>

\* The length of `body' is taken up to a NUL, which it does not have: so many
\* bytes that happen to follow it are sent as well.
writeLocationAvg(id, q, overrun) ==
  IF ~ locationExists(id) THEN NotFound
  ELSE LET kept == SelectSeq(vecs.location_id[id], LAMBDA v : Counted(q, v))
           sum == FoldLeft(LAMBDA s, v : s + visits[v].mark, 0, kept)
       IN  [code |-> 200, avg |-> fast_div_write(Zero, sum, Len(kept)),
            overrun |-> overrun]

\* uri_param_err, whatever else the request is.
Rejected(q) == \E p \in DOMAIN q : q[p] = Malformed

\* The parameters as the parser leaves them, if the country was `old'.
Query(q, old) ==
  [p \in DOMAIN q |-> IF p = "country" THEN uri_string_param(old, q[p]) ELSE q[p]]

handleRequest(r) ==
  /\ pc = "serve"
  /\ \E overrun \in IF r.what = "avg" THEN Overruns ELSE {0},
        old \in IF "country" \in DOMAIN r.q /\ r.q.country = <<>> THEN Leftovers ELSE {<<>>} :
       answer' = [asked |-> r] @@
         IF Rejected(r.q) THEN BadRequest
         ELSE CASE r.what = "user"     -> writeUser(r.id)
                [] r.what = "location" -> writeLocation(r.id)
                [] r.what = "visit"    -> writeVisit(r.id)
                [] r.what = "visits"   -> writeUserVisits(r.id, Query(r.q, old))
                [] r.what = "avg"      -> writeLocationAvg(r.id, Query(r.q, old), overrun)
  /\ UNCHANGED lvars

Next ==
  \/ LNext /\ UNCHANGED answer
  \/ \E r \in Requests : handleRequest(r)

Spec == Init /\ [][Next]_vars
-----------------------------------------------------------------------------
(* Properties.                                                             *)

\* The objects in the entries of a kind.
Archived(letter) ==
  FlattenSeq([i \in DOMAIN archive |->
    IF archive[i].letter = letter THEN archive[i].objects ELSE <<>>])

\* data.zip holds every object once, and none is damaged.
Whole ==
  \A k \in {<<"u", Users>>, <<"l", Locations>>, <<"v", Visits>>} :
    /\ ToSet(Archived(k[1])) = k[2]
    /\ Len(Archived(k[1])) = Cardinality(k[2])

\* The timestamp is there before the first user is.
TimeKnown ==
  \/ options_txt
  \/ \E i \in DOMAIN archive : /\ archive[i].letter = "o"
                               /\ \A j \in 1 .. i : archive[j].letter # "u"

\* The names of field d, as the parser reads them.
NamesIn(d) == {json_string(o[d]) : o \in {o \in Users \union Locations : d \in DOMAIN o}}

LoadedVisits ==
  [v \in {o.id : o \in Visits} |-> CHOOSE o \in Visits : o.id = v]

LoadedNames ==
  [d \in AllDicts |->
     LET Os == {o \in Users \union Locations : d \in DOMAIN o}
     IN  [i \in {o.id : o \in Os} |-> json_string((CHOOSE o \in Os : o.id = i)[d])]]

\* The other fields, but for the age, which depends on the time as well.
OtherFields(k, x) == IF k = "user" THEN <<x.birth_date, x.gender, x.email>> ELSE <<x.distance>>
LoadedOthers ==
  [user |-> [i \in {o.id : o \in Users} |->
     LET o == CHOOSE o \in Users : o.id = i
     IN  OtherFields("user", [o EXCEPT !.email = json_string(@)])],
   location |-> [i \in {o.id : o \in Locations} |->
     OtherFields("location", CHOOSE o \in Locations : o.id = i)]]

VW == INSTANCE VisitWriter WITH
  Threads <- {}, Marks <- 0 .. 5, Times <- {o.visited_at : o \in Visits} \union {0},
  Loaded <- LoadedVisits, Posts <- {}, OutOfBoundsTime <- 0,
  working <- FALSE, requests <- <<>>, pc <- "loop",
  item <- [id |-> NoId, mask |-> {}, mark |-> 0, user_id |-> NoId,
           location_id |-> NoId, visited_at |-> 0],
  ops <- [user_id |-> <<>>, location_id |-> <<>>],
  ipc <- [user_id |-> "loop", location_id |-> "loop"],
  racing <- [user_id |-> FALSE, location_id |-> FALSE], log <- <<>>

\* What the queue of Strings holds at first.
NoEntry == [act |-> -1, id |-> NoId, str |-> NoId]

NW == INSTANCE NameWriter WITH
  Threads <- {}, Ids <- UserIds \union LocationIds,
  Names <- UNION {NamesIn(d) : d \in AllDicts}, NoName <- NoId,
  Loaded <- LoadedNames, LoadedOthers <- LoadedOthers, Posts <- {}, RingSize <- 2,
  Contents <- {}, NoContent <- NoId,
  exists <- [user |-> {u \in UserIds : userExists(u)},
             location |-> {l \in LocationIds : locationExists(l)}],
  name_id <- [d \in AllDicts |-> [i \in UserIds \union LocationIds |->
    CASE d \in {"first_name", "last_name"} -> IF i \in UserIds THEN users[i][d] ELSE NoId
      [] OTHER -> IF i \in LocationIds THEN locations[i][d] ELSE NoId]],
  others <- [k \in {"user", "location"} |-> [i \in UserIds \union LocationIds |->
    IF k = "user" /\ userExists(i) THEN OtherFields(k, users[i])
    ELSE IF k = "location" /\ locationExists(i) THEN OtherFields(k, locations[i]) ELSE NoId]],
  vec <- [d \in AllDicts |-> dict[d].vec], map <- [d \in AllDicts |-> dict[d].map],
  working <- FALSE, tpc <- <<>>, sent <- <<>>, log <- {},
  requests <- [user |-> <<>>, location |-> <<>>],
  wpc <- [user |-> "loop", location |-> "loop"],
  item <- [k \in {"user", "location"} |-> [id |-> NoId]],
  todo <- [user |-> <<>>, location |-> <<>>], slot <- [user |-> 0, location |-> 0],
  ring <- [i \in {0, 1} |-> NoEntry], write_index <- 0, read_index <- 0, lost <- {},
  spc <- "lock", entry <- NoEntry

\* In whatever order the entries and the objects come, visits before the users
\* they belong to included (Storage.hpp:130-212), the storage that is served is
\* one the write path starts from: every vector lists the visits of its owner in
\* order, every dictionary holds each name once, and every field its name.  Where
\* objects are left out or take over fields of the one before, the vectors still
\* list just what is stored, and no stored name is outside its dictionary.
LoadedIsInit ==
  pc = "serve" =>
    /\ Whole => VW!Init /\ NW!Init
    /\ \A k \in VW!Kinds : \A o \in VW!Owners(k) :
         vecs[k][o] \in VW!Listings(VW!VisitsOf(visits, k, o), VW!At(visits))
    /\ NW!NameIdsValid

\* UTF-8 of a character of the basic plane, by the bits of its code.
Utf8(c) ==
  LET six(unit) == 128 + ((c \div unit) % 64)
  IN  IF c <= 127 THEN <<c>>
      ELSE IF c <= 2047 THEN <<192 + (c \div 64), six(1)>>
      ELSE <<224 + (c \div 4096), six(64), six(1)>>

\* No plain character comes after an escaped one; no escape is U+FFFF or half
\* of a surrogate pair.
Readable(chars) ==
  \A i \in DOMAIN chars :
    /\ i > 1 /\ chars[i - 1].escaped => chars[i].escaped
    /\ chars[i].code \notin 55296 .. 57343 \union {65535}

\* What is stored of a string is its UTF-8 form, whether its characters were
\* escaped or not (json_parser.hpp.rl:12-54), unless a plain character follows
\* an escape: their order is lost.
TextsAreUtf8 ==
  pc = "serve" =>
    \A o \in ToSet(Archived("u")) : \A d \in {"first_name", "last_name"} \intersect DOMAIN o :
      Readable(o[d]) /\ Whole =>
        Text(d, users[o.id][d]) = FlattenSeq([i \in DOMAIN o[d] |-> Utf8(o[d][i].code)])

\* A text without leading zeros whose digits are the ones of n.
Value(text) == FoldLeft(LAMBDA n, c : 10 * n + (c - Ascii(0)), 0, text)
Denotes(text, n) ==
  IF n < 0 THEN Head(text) = Minus /\ Value(Tail(text)) = -n /\ text[2] # Ascii(0)
  ELSE Value(text) = n /\ (Len(text) = 1 \/ Head(text) # Ascii(0))

ObjectOf(S, id) == CHOOSE o \in S : o.id = id
Has(S, id) == \E o \in S : o.id = id

AgeOf(o) ==
  CHOOSE y \in 0 .. 127 :
    /\ o.birth_date <= Options - y * kSecondsInYear
    /\ o.birth_date > Options - (y + 1) * kSecondsInYear

\* text is what the client wrote in the query, byte for byte.
WrittenAs(text, chars) ==
  /\ Len(chars) = Len(text)
  /\ \A i \in DOMAIN chars :
       \/ chars[i].escaped /\ chars[i].code = text[i]
       \/ ~ chars[i].escaped /\ text[i] = 32 /\ chars[i].code = 43
       \/ ~ chars[i].escaped /\ text[i] \notin {32, 43} /\ chars[i].code = text[i]

\* The visits a list or an average is about, by the data.
Matches(r) ==
  {v \in Visits :
     LET u == ObjectOf(Users, v.user_id)
         l == ObjectOf(Locations, v.location_id)
         q == r.q
     IN  /\ r.id = IF r.what = "visits" THEN v.user_id ELSE v.location_id
         /\ If(q, "from_date", LAMBDA x : v.visited_at > x)
         /\ If(q, "to_date", LAMBDA x : v.visited_at < x)
         /\ r.what = "visits" => /\ If(q, "country", LAMBDA x : WrittenAs(json_string(l.country), x))
                                 /\ If(q, "to_distance", LAMBDA x : l.distance < x)
         /\ r.what = "avg" => /\ If(q, "gender", LAMBDA x : u.gender = x)
                              /\ If(q, "from_age", LAMBDA x : AgeOf(u) >= x)
                              /\ If(q, "to_age", LAMBDA x : AgeOf(u) < x)}

TellsUser(a, o) ==
  /\ Denotes(a.id, o.id) /\ Denotes(a.birth_date, o.birth_date) /\ a.gender = o.gender
  /\ \A f \in {"first_name", "last_name", "email"} : a[f] = json_string(o[f])

TellsLocation(a, o) ==
  /\ Denotes(a.id, o.id) /\ Denotes(a.distance, o.distance)
  /\ \A f \in {"place", "country", "city"} : a[f] = json_string(o[f])

TellsVisit(a, o) ==
  /\ Denotes(a.id, o.id) /\ Denotes(a.user, o.user_id) /\ a.mark = o.mark
  /\ Denotes(a.location, o.location_id) /\ Denotes(a.visited_at, o.visited_at)

\* The list is in order, complete, and properly separated.
TellsVisits(a, V) ==
  /\ Len(a.list) = Cardinality(V)
  /\ \A i, j \in DOMAIN a.list : i < j => a.list[i].visited_at <= a.list[j].visited_at
  /\ ToSet(a.list) = {[mark |-> v.mark, visited_at |-> v.visited_at,
                       place |-> json_string(ObjectOf(Locations, v.location_id).place)] : v \in V}
  /\ \A i \in DOMAIN a.ends :
       a.ends[i] = IF 1 < i /\ i < Len(a.ends) THEN "," ELSE " "

\* Every GET answers what the data says (Connection.hpp:102-230, 406-456): all
\* the values an entity was given, as texts that denote them, and all the
\* visits that pass the filters, in order and none twice.  A parameter that is
\* rejected makes it 400.  A filter by no country at all is excepted, as it takes
\* over the one of the query before (http_parser.hpp.rl:47).
AnswersTellTheData ==
  answer # NoAnswer /\ Whole
    /\ ("country" \in DOMAIN answer.asked.q => answer.asked.q.country # <<>>) =>
    LET r == answer.asked
        tells(S, Tells(_, _)) == IF Has(S, r.id) THEN Tells(answer, ObjectOf(S, r.id))
                                 ELSE answer.code = 404
    IN  /\ answer.code = 400 <=> Rejected(r.q)
        /\ ~ Rejected(r.q) =>
             CASE r.what = "user"     -> tells(Users, TellsUser)
               [] r.what = "location" -> tells(Locations, TellsLocation)
               [] r.what = "visit"    -> tells(Visits, TellsVisit)
               [] r.what = "visits"   -> tells(Users, LAMBDA a, o : TellsVisits(a, Matches(r)))
               [] r.what = "avg"      -> (answer.code = 200) <=> Has(Locations, r.id)

\* The average of the marks that pass the filters is the decimal fraction of
\* five digits next to it, and always takes the seven characters that
\* Content-Length counts (itoa_branchlut.hpp:83-101, Connection.hpp:513-514),
\* provided that ages were computed from the timestamp.
AverageRounded ==
  answer # NoAnswer /\ Whole /\ TimeKnown =>
    (answer.asked.what = "avg" /\ answer.code = 200 =>
      LET marks == FoldSet(LAMBDA v, s : s + v.mark, 0, Matches(answer.asked))
          n == Cardinality(Matches(answer.asked))
          text == answer.avg
          read == Value(<<text[1]>> \o SubSeq(text, 3, 7))
      IN  /\ Len(text) = 7 /\ text[2] = Point
          /\ IF n = 0 THEN read = 0
             ELSE /\ 2 * (read * n - marks * 100000) <= n
                  /\ 2 * (marks * 100000 - read * n) < n)
=============================================================================
