------------------------- MODULE VisitWriterProofs -------------------------
(***************************************************************************)
(* Theorems about VisitWriter, for any threads, visits, users, locations,  *)
(* loaded visits and requests, and about the operations of SortedVisits    *)
(* that it is built from, for any vectors and keys.  Three parts:          *)
(*   - the operations on vectors, the types, the FIFO queues and the gate; *)
(*   - the refinement of VisitStore;                                       *)
(*   - what the vectors of visits list, and in which order.                *)
(***************************************************************************)
EXTENDS VisitWriter, SequenceTheorems, FiniteSetTheorems, WellFoundedInduction, TLAPS
-----------------------------------------------------------------------------
(* The operations on a vector of visits: what they do to its elements,     *)
(* sorted or not, whatever the comparators race with, and to its order     *)
(* where nothing races.                                                    *)

\* The elements of a concatenation.
LEMMA ToSetConcat ==
  ASSUME NEW S, NEW s1 \in Seq(S), NEW s2 \in Seq(S)
  PROVE  /\ s1 \o s2 \in Seq(S)
         /\ ToSet(s1 \o s2) = ToSet(s1) \union ToSet(s2)
<1> DEFINE s == s1 \o s2
<1>1. /\ s \in Seq(S) /\ DOMAIN s = 1 .. Len(s1) + Len(s2)
      /\ \A i \in 1 .. Len(s1) + Len(s2) :
           s[i] = IF i <= Len(s1) THEN s1[i] ELSE s2[i - Len(s1)]
  BY ConcatProperties
<1>2. /\ Len(s1) \in Nat /\ DOMAIN s1 = 1 .. Len(s1)
      /\ Len(s2) \in Nat /\ DOMAIN s2 = 1 .. Len(s2)
  OBVIOUS
<1> HIDE DEF s
<1>3. ASSUME NEW i \in DOMAIN s PROVE s[i] \in ToSet(s1) \union ToSet(s2)
  <2>1. CASE i <= Len(s1)
    BY <1>1, <1>2, <2>1 DEF ToSet
  <2>2. CASE i > Len(s1)
    <3>1. i - Len(s1) \in DOMAIN s2 /\ s[i] = s2[i - Len(s1)]
      BY <1>1, <1>2, <2>2
    <3> QED BY <3>1 DEF ToSet
  <2> QED BY <2>1, <2>2, <1>1, <1>2
<1>4. ASSUME NEW i \in DOMAIN s1 PROVE s1[i] \in ToSet(s)
  <2>1. i \in DOMAIN s /\ s[i] = s1[i]
    BY <1>1, <1>2
  <2> QED BY <2>1 DEF ToSet
<1>5. ASSUME NEW i \in DOMAIN s2 PROVE s2[i] \in ToSet(s)
  <2>1. i + Len(s1) \in DOMAIN s /\ s[i + Len(s1)] = s2[(i + Len(s1)) - Len(s1)]
    BY <1>1, <1>2
  <2>2. (i + Len(s1)) - Len(s1) = i
    BY <1>2
  <2> QED BY <2>1, <2>2 DEF ToSet
<1> QED BY <1>1, <1>3, <1>4, <1>5 DEF ToSet, s

\* The elements of a part of a vector.
LEMMA ToSetSubSeq ==
  ASSUME NEW S, NEW vec \in Seq(S), NEW m \in 1 .. Len(vec) + 1, NEW n \in 0 .. Len(vec)
  PROVE  /\ SubSeq(vec, m, n) \in Seq(S)
         /\ ToSet(SubSeq(vec, m, n)) = {vec[i] : i \in m .. n}
<1> DEFINE s == SubSeq(vec, m, n)
<1>1. /\ Len(vec) \in Nat /\ m \in Int /\ n \in Int
      /\ \A i \in m .. n : vec[i] \in S
  OBVIOUS
<1>2. /\ s \in Seq(S) /\ Len(s) = IF m <= n THEN n - m + 1 ELSE 0
      /\ \A i \in 1 .. n - m + 1 : s[i] = vec[m + i - 1]
  BY <1>1, SubSeqProperties
<1> HIDE DEF s
<1>3. DOMAIN s = 1 .. n - m + 1
  BY <1>1, <1>2
<1>4. ASSUME NEW i \in DOMAIN s PROVE s[i] \in {vec[j] : j \in m .. n}
  <2>1. m + i - 1 \in m .. n /\ s[i] = vec[m + i - 1]
    BY <1>1, <1>2, <1>3
  <2> QED BY <2>1
<1>5. ASSUME NEW j \in m .. n PROVE vec[j] \in ToSet(s)
  <2>1. j - m + 1 \in DOMAIN s /\ s[j - m + 1] = vec[m + (j - m + 1) - 1]
    BY <1>1, <1>2, <1>3
  <2>2. m + (j - m + 1) - 1 = j
    BY <1>1
  <2> QED BY <2>1, <2>2 DEF ToSet
<1> QED BY <1>2, <1>4, <1>5 DEF ToSet, s

\* An insertion adds its item and nothing else, and loses nothing.
THEOREM InsertSortedMembers ==
  ASSUME NEW S, NEW vec \in Seq(S), NEW elem \in S, NEW at, NEW races,
         NEW new \in insert_sorted(at, vec, elem, races)
  PROVE  /\ new \in Seq(S)
         /\ ToSet(new) = ToSet(vec) \union {elem}
<1>1. PICK p \in Positions(vec) : new = InsertAt(vec, p, elem)
  BY DEF insert_sorted, UpperBounds
<1> DEFINE a == SubSeq(vec, 1, p - 1)
           b == SubSeq(vec, p, Len(vec))
           one == <<elem>>
<1>2. /\ Len(vec) \in Nat /\ p \in 1 .. Len(vec) + 1 /\ p - 1 \in 0 .. Len(vec)
      /\ new = a \o one \o b
  BY <1>1 DEF Positions, InsertAt
<1>3. a \in Seq(S) /\ ToSet(a) = {vec[i] : i \in 1 .. p - 1}
  BY <1>2, ToSetSubSeq
<1>4. b \in Seq(S) /\ ToSet(b) = {vec[i] : i \in p .. Len(vec)}
  BY <1>2, ToSetSubSeq
<1>5. one \in Seq(S) /\ ToSet(one) = {elem}
  BY DEF ToSet
<1> HIDE DEF a, b, one
<1>6. ToSet(a) \union ToSet(b) = ToSet(vec)
  <2>1. ToSet(vec) = {vec[i] : i \in 1 .. Len(vec)}
    BY DEF ToSet
  <2> QED BY <2>1, <1>2, <1>3, <1>4
<1>7. a \o one \in Seq(S) /\ ToSet(a \o one) = ToSet(a) \union {elem}
  BY <1>3, <1>5, ToSetConcat
<1> DEFINE front == a \o one
<1>8. front \in Seq(S) /\ ToSet(front) = ToSet(a) \union {elem} /\ new = front \o b
  BY <1>2, <1>7
<1> HIDE DEF front
<1>9. new \in Seq(S) /\ ToSet(new) = ToSet(front) \union ToSet(b)
  BY <1>4, <1>8, ToSetConcat
<1> QED BY <1>6, <1>8, <1>9

\* An erasure takes out nothing but its item, and may leave that too.
THEOREM EraseSortedMembers ==
  ASSUME NEW S, NEW vec \in Seq(S), NEW elem, NEW at, NEW races,
         NEW new \in erase_sorted(at, vec, elem, races)
  PROVE  /\ new \in Seq(S)
         /\ ToSet(new) \subseteq ToSet(vec)
         /\ ToSet(vec) \ {elem} \subseteq ToSet(new)
<1>1. PICK p \in Positions(vec) : new = ErasedAt(vec, p, elem)
  BY DEF erase_sorted, LowerBounds
<1>2. CASE ~ (p <= Len(vec) /\ vec[p] = elem)
  BY <1>1, <1>2 DEF ErasedAt
<1>3. CASE p <= Len(vec) /\ vec[p] = elem
  <2> DEFINE a == SubSeq(vec, 1, p - 1)
             b == SubSeq(vec, p + 1, Len(vec))
  <2>1. /\ Len(vec) \in Nat /\ p \in 1 .. Len(vec) /\ p - 1 \in 0 .. Len(vec)
        /\ p + 1 \in 1 .. Len(vec) + 1
    BY <1>3 DEF Positions
  <2>0. new = a \o b
    BY <1>1, <1>3, Zenon DEF ErasedAt, RemoveAt
  <2>2. a \in Seq(S) /\ ToSet(a) = {vec[i] : i \in 1 .. p - 1}
    BY <2>1, ToSetSubSeq
  <2>3. b \in Seq(S) /\ ToSet(b) = {vec[i] : i \in p + 1 .. Len(vec)}
    BY <2>1, ToSetSubSeq
  <2> HIDE DEF a, b
  <2>4. /\ ToSet(a) \union ToSet(b) \subseteq ToSet(vec)
        /\ ToSet(vec) \ {elem} \subseteq ToSet(a) \union ToSet(b)
    <3>1. ToSet(vec) = {vec[i] : i \in 1 .. Len(vec)}
      BY DEF ToSet
    <3> QED BY <3>1, <2>1, <2>2, <2>3, <1>3
  <2>5. new \in Seq(S) /\ ToSet(new) = ToSet(a) \union ToSet(b)
    BY <2>0, <2>2, <2>3, ToSetConcat
  <2> QED BY <2>4, <2>5
<1> QED BY <1>2, <1>3

\* A sort, raced with or not, neither loses nor invents an element.
THEOREM SortMembers ==
  ASSUME NEW S, NEW vec \in Seq(S), NEW at, NEW races,
         NEW new \in sort(at, vec, races)
  PROVE  /\ new \in Seq(S)
         /\ ToSet(new) = ToSet(vec)
<1>1. PICK q \in [DOMAIN vec -> DOMAIN vec] :
        /\ \A j \in DOMAIN vec : \E i \in DOMAIN vec : q[i] = j
        /\ new = [i \in DOMAIN vec |-> vec[q[i]]]
  BY DEF sort, Rearrangements
<1>2. DOMAIN vec = 1 .. Len(vec) /\ Len(vec) \in Nat
  OBVIOUS
<1>3. new \in [1 .. Len(vec) -> S]
  BY <1>1, <1>2
<1>4. new \in Seq(S)
  BY <1>2, <1>3
<1> QED BY <1>1, <1>2, <1>4 DEF ToSet
-----------------------------------------------------------------------------
(* The order of a vector.                                                  *)

\* Where the elements are of two parts that are joined.
LEMMA JoinIs ==
  ASSUME NEW S, NEW a \in Seq(S), NEW b \in Seq(S), NEW m \in Nat, NEW n \in Nat,
         Len(a) = m, Len(b) = n, NEW f, f = a \o b
  PROVE  /\ f \in Seq(S) /\ Len(f) = m + n
         /\ \A i \in 1 .. m : f[i] = a[i]
         /\ \A i \in 1 .. n : f[m + i] = b[i]
<1>1. f \in Seq(S) /\ Len(f) = m + n
  OBVIOUS
<1>2. ASSUME NEW i \in 1 .. m PROVE f[i] = a[i]
  OBVIOUS
<1>3. ASSUME NEW i \in 1 .. n PROVE f[m + i] = b[i]
  OBVIOUS
<1> QED BY <1>1, <1>2, <1>3

\* Where the elements are of a part of a vector.
LEMMA PartIs ==
  ASSUME NEW S, NEW vec \in Seq(S), NEW l \in Nat, Len(vec) = l,
         NEW m \in 1 .. l + 1, NEW n \in 0 .. l, n >= m - 1,
         NEW s, s = SubSeq(vec, m, n)
  PROVE  /\ s \in Seq(S) /\ Len(s) = n - m + 1
         /\ \A i \in 1 .. n - m + 1 : s[i] = vec[m + i - 1]
<1>1. s \in Seq(S) /\ Len(s) = n - m + 1
  OBVIOUS
<1>2. ASSUME NEW i \in 1 .. n - m + 1 PROVE s[i] = vec[m + i - 1]
  OBVIOUS
<1> QED BY <1>1, <1>2

\* Where the elements are after an insertion.
Inserted(f, vec, elem, p) ==
  /\ Len(f) = Len(vec) + 1
  /\ \A i \in 1 .. Len(vec) + 1 :
       f[i] = IF i < p THEN vec[i] ELSE IF i = p THEN elem ELSE vec[i - 1]

\* Inserting an item moves up what is at its place and behind.
LEMMA InsertAtIs ==
  ASSUME NEW S, NEW vec \in Seq(S), NEW l \in Nat, Len(vec) = l,
         NEW elem \in S, NEW p \in 1 .. l + 1, NEW f, f = InsertAt(vec, p, elem)
  PROVE  f \in Seq(S) /\ Inserted(f, vec, elem, p)
<1>1. PICK a, b, one : /\ a = SubSeq(vec, 1, p - 1) /\ one = <<elem>>
                       /\ b = SubSeq(vec, p, l) /\ f = (a \o one) \o b
  BY DEF InsertAt
<1>2. p - 1 \in 0 .. l /\ (p - 1) - 1 + 1 = p - 1 /\ l >= p - 1
  OBVIOUS
<1>3. /\ a \in Seq(S) /\ Len(a) = p - 1
      /\ \A i \in 1 .. p - 1 : a[i] = vec[i]
  BY <1>1
<1>4. /\ b \in Seq(S) /\ Len(b) = l - p + 1
      /\ \A i \in 1 .. l - p + 1 : b[i] = vec[p + i - 1]
  BY <1>1, <1>2, PartIs
<1>5. one \in Seq(S) /\ Len(one) = 1 /\ one[1] = elem
  BY <1>1
<1>6. PICK g : g = a \o one /\ f = g \o b
  BY <1>1
<1>7. p - 1 \in Nat /\ 1 \in Nat /\ (p - 1) + 1 = p /\ l - p + 1 \in Nat
      /\ p + (l - p + 1) = l + 1 /\ p \in Nat
  OBVIOUS
<1>8. /\ g \in Seq(S) /\ Len(g) = p
      /\ \A i \in 1 .. p - 1 : g[i] = a[i]
      /\ \A i \in 1 .. 1 : g[(p - 1) + i] = one[i]
  <2>1. PICK m \in Nat, n \in Nat : m = p - 1 /\ n = 1
    BY <1>7
  <2>2. a \in Seq(S) /\ one \in Seq(S) /\ Len(a) = m /\ Len(one) = n /\ g = a \o one
    BY <1>3, <1>5, <1>6, <2>1
  <2>3. /\ g \in Seq(S) /\ Len(g) = m + n
        /\ \A i \in 1 .. m : g[i] = a[i]
        /\ \A i \in 1 .. n : g[m + i] = one[i]
    <3>1. m \in Nat /\ n \in Nat
      BY <2>1
    <3>2. g \in Seq(S) /\ Len(g) = m + n
      <4>1. g \in Seq(S)
        BY <2>2
      <4>2. Len(g) = Len(a) + Len(one)
        <5>1. a \in Seq(S) /\ one \in Seq(S)
          BY <2>2
        <5>2. Len(a \o one) = Len(a) + Len(one)
          BY <5>1
        <5> QED BY <1>6, <5>2
      <4> QED BY <2>2, <4>1, <4>2
    <3>3. ASSUME NEW i \in 1 .. m PROVE g[i] = a[i]
      BY <2>2, <3>1
    <3>4. ASSUME NEW i \in 1 .. n PROVE g[m + i] = one[i]
      BY <2>2, <3>1
    <3> QED BY <3>2, <3>3, <3>4
  <2> QED BY <1>7, <2>1, <2>3
<1>9. /\ f \in Seq(S) /\ Len(f) = p + (l - p + 1)
      /\ \A i \in 1 .. p : f[i] = g[i]
      /\ \A i \in 1 .. l - p + 1 : f[p + i] = b[i]
  <2>1. PICK n \in Nat : n = l - p + 1
    BY <1>7
  <2>2. g \in Seq(S) /\ b \in Seq(S) /\ Len(g) = p /\ Len(b) = n /\ f = g \o b
    BY <1>4, <1>6, <1>8, <2>1
  <2>3. /\ f \in Seq(S) /\ Len(f) = p + n
        /\ \A i \in 1 .. p : f[i] = g[i]
        /\ \A i \in 1 .. n : f[p + i] = b[i]
    BY <1>7, <2>1, <2>2, JoinIs
  <2> QED BY <2>1, <2>3
<1>10. g[p] = elem
  <2>1. 1 \in 1 .. 1 /\ p - 1 + 1 = p
    OBVIOUS
  <2> QED BY <1>5, <1>8, <2>1
<1>11. ASSUME NEW i \in 1 .. l + 1
       PROVE  f[i] = IF i < p THEN vec[i] ELSE IF i = p THEN elem ELSE vec[i - 1]
  <2>1. CASE i < p
    <3>1. i \in 1 .. p /\ i \in 1 .. p - 1
      BY <2>1
    <3> QED BY <1>3, <1>8, <1>9, <2>1, <3>1
  <2>2. CASE i = p
    <3>1. i \in 1 .. p
      BY <2>2
    <3> QED BY <1>9, <1>10, <2>2, <3>1
  <2>3. CASE i > p
    <3>1. i - p \in 1 .. l - p + 1 /\ p + (i - p) = i /\ p + (i - p) - 1 = i - 1
          /\ ~ (i < p) /\ i # p
      BY <2>3
    <3>2. f[p + (i - p)] = b[i - p] /\ b[i - p] = vec[p + (i - p) - 1]
      BY <1>4, <1>9, <3>1
    <3> QED BY <3>1, <3>2
  <2> QED BY <2>1, <2>2, <2>3
<1>12. Len(f) = l + 1
  BY <1>7, <1>9
<1> QED BY <1>9, <1>11, <1>12 DEF Inserted

\* Where the elements are after an erasure.
LEMMA RemoveAtIs ==
  ASSUME NEW S, NEW vec \in Seq(S), NEW p \in 1 .. Len(vec)
  PROVE  /\ RemoveAt(vec, p) \in Seq(S)
         /\ Len(RemoveAt(vec, p)) = Len(vec) - 1
         /\ \A i \in 1 .. Len(vec) - 1 :
              RemoveAt(vec, p)[i] = IF i < p THEN vec[i] ELSE vec[i + 1]
<1> SUFFICES ASSUME NEW l \in Nat, Len(vec) = l, p \in 1 .. l,
                    NEW f, f = RemoveAt(vec, p)
             PROVE  /\ f \in Seq(S) /\ Len(f) = l - 1
                    /\ \A i \in 1 .. l - 1 : f[i] = IF i < p THEN vec[i] ELSE vec[i + 1]
  OBVIOUS
<1>1. PICK a, b : /\ a = SubSeq(vec, 1, p - 1)
                  /\ b = SubSeq(vec, p + 1, l) /\ f = a \o b
  BY DEF RemoveAt
<1>2. p + 1 \in 1 .. l + 1 /\ l \in 0 .. l /\ l >= (p + 1) - 1
      /\ p - 1 \in Nat /\ l - (p + 1) + 1 \in Nat
      /\ (p - 1) + (l - (p + 1) + 1) = l - 1 /\ l - (p + 1) + 1 = l - p
  OBVIOUS
<1>3. /\ a \in Seq(S) /\ Len(a) = p - 1
      /\ \A i \in 1 .. p - 1 : a[i] = vec[i]
  BY <1>1
<1>4. /\ b \in Seq(S) /\ Len(b) = l - (p + 1) + 1
      /\ \A i \in 1 .. l - (p + 1) + 1 : b[i] = vec[(p + 1) + i - 1]
  BY <1>1, <1>2, PartIs
<1>5. /\ f \in Seq(S) /\ Len(f) = (p - 1) + (l - (p + 1) + 1)
      /\ \A i \in 1 .. p - 1 : f[i] = a[i]
      /\ \A i \in 1 .. l - (p + 1) + 1 : f[(p - 1) + i] = b[i]
  BY <1>1, <1>2, <1>3, <1>4, JoinIs
<1>6. ASSUME NEW i \in 1 .. l - 1
      PROVE  f[i] = IF i < p THEN vec[i] ELSE vec[i + 1]
  <2>1. CASE i < p
    <3>1. i \in 1 .. p - 1
      BY <2>1
    <3> QED BY <1>3, <1>5, <2>1, <3>1
  <2>2. CASE i >= p
    <3>1. /\ i - p + 1 \in 1 .. l - (p + 1) + 1 /\ ~ (i < p)
          /\ (p - 1) + (i - p + 1) = i /\ (p + 1) + (i - p + 1) - 1 = i + 1
      BY <2>2
    <3>2. /\ f[(p - 1) + (i - p + 1)] = b[i - p + 1]
          /\ b[i - p + 1] = vec[(p + 1) + (i - p + 1) - 1]
      BY <1>4, <1>5, <3>1
    <3> QED BY <3>1, <3>2
  <2> QED BY <2>1, <2>2
<1> QED BY <1>2, <1>5, <1>6

\* An insertion that nothing races with leaves a sorted vector sorted.
THEOREM InsertSortedSorts ==
  ASSUME NEW S, NEW at \in [S -> Int], NEW vec \in Seq(S), NEW elem \in S,
         SortedBy(at, vec), NEW new \in insert_sorted(at, vec, elem, FALSE)
  PROVE  SortedBy(at, new)
<1>0. PICK l \in Nat : l = Len(vec)
  OBVIOUS
<1>1. PICK p \in UpperBounds(at, vec, elem) : new = InsertAt(vec, p, elem)
  BY DEF insert_sorted
<1>2. /\ p \in Positions(vec) /\ l \in Nat /\ p \in 1 .. l + 1
      /\ \A i \in 1 .. l : vec[i] \in S
      /\ \A i, j \in 1 .. l : i < j => at[vec[i]] <= at[vec[j]]
  <2>1. p \in Positions(vec) /\ l \in Nat /\ p \in 1 .. l + 1
    BY <1>0, <1>1 DEF UpperBounds, Positions
  <2>2. \A i \in 1 .. l : vec[i] \in S
    BY <1>0
  <2>3. \A i, j \in 1 .. l : i < j => at[vec[i]] <= at[vec[j]]
    BY <1>0 DEF SortedBy
  <2> QED BY <2>1, <2>2, <2>3
<1>3. /\ p > 1 => at[vec[p - 1]] <= at[elem]
      /\ p <= l => at[elem] <= at[vec[p]]
  BY <1>0, <1>1, <1>2 DEF UpperBounds, VisitAtCmp
<1>4. /\ new \in Seq(S) /\ Len(new) = l + 1
      /\ \A i \in 1 .. l + 1 :
           new[i] = IF i < p THEN vec[i] ELSE IF i = p THEN elem ELSE vec[i - 1]
  <2>1. p \in 1 .. Len(vec) + 1
    BY <1>1 DEF UpperBounds, Positions
  <2>2. /\ new \in Seq(S) /\ Len(new) = Len(vec) + 1
        /\ \A i \in 1 .. Len(vec) + 1 :
             new[i] = IF i < p THEN vec[i] ELSE IF i = p THEN elem ELSE vec[i - 1]
    <3>1. l \in Nat /\ Len(vec) = l /\ p \in 1 .. l + 1 /\ vec \in Seq(S)
      BY <1>0, <1>2
    <3>2. Inserted(new, vec, elem, p)
      BY <1>1, <3>1, InsertAtIs, ZenonT(30)
    <3>3. new \in Seq(S)
      BY <1>1, <3>1, InsertAtIs, ZenonT(30)
    <3> QED BY <3>2, <3>3 DEF Inserted
  <2> QED BY <1>0, <2>2
<1>5. ASSUME NEW i \in 1 .. l, i < p
      PROVE  at[vec[i]] <= at[elem]
  <2>1. p - 1 \in 1 .. l /\ (i = p - 1 \/ i < p - 1) /\ p > 1
    BY <1>2, <1>5
  <2>2. at[vec[i]] <= at[vec[p - 1]] /\ at[vec[p - 1]] <= at[elem]
    <3>1. CASE i = p - 1
      BY <1>2, <1>3, <2>1, <3>1
    <3>2. CASE i < p - 1
      BY <1>2, <1>3, <2>1, <3>2
    <3> QED BY <2>1, <3>1, <3>2
  <2>3. at[vec[i]] \in Int /\ at[vec[p - 1]] \in Int /\ at[elem] \in Int
    BY <1>2, <2>1
  <2> QED BY <2>2, <2>3
<1>6. ASSUME NEW i \in 1 .. l, i >= p
      PROVE  at[elem] <= at[vec[i]]
  <2>1. p \in 1 .. l /\ (i = p \/ p < i) /\ p <= l
    BY <1>2, <1>6
  <2>2. at[vec[p]] <= at[vec[i]] /\ at[elem] <= at[vec[p]]
    <3>1. CASE i = p
      BY <1>2, <1>3, <2>1, <3>1
    <3>2. CASE p < i
      BY <1>2, <1>3, <2>1, <3>2
    <3> QED BY <2>1, <3>1, <3>2
  <2>3. at[vec[i]] \in Int /\ at[vec[p]] \in Int /\ at[elem] \in Int
    BY <1>2, <2>1
  <2> QED BY <2>2, <2>3
<1>7. ASSUME NEW i \in 1 .. l + 1, NEW j \in 1 .. l + 1, i < j
      PROVE  at[new[i]] <= at[new[j]]
  <2>1. CASE j < p
    <3>1. new[i] = vec[i] /\ new[j] = vec[j] /\ i \in 1 .. l /\ j \in 1 .. l
      BY <1>2, <1>4, <1>7, <2>1
    <3> QED BY <1>2, <1>7, <3>1
  <2>2. CASE i < p /\ j = p
    <3>1. new[i] = vec[i] /\ new[j] = elem /\ i \in 1 .. l
      BY <1>2, <1>4, <1>7, <2>2
    <3> QED BY <1>5, <2>2, <3>1
  <2>3. CASE i < p /\ j > p
    <3>1. /\ new[i] = vec[i] /\ new[j] = vec[j - 1] /\ i < j - 1
          /\ i \in 1 .. l /\ j - 1 \in 1 .. l
      BY <1>2, <1>4, <1>7, <2>3
    <3> QED BY <1>2, <3>1
  <2>4. CASE i = p
    <3>1. new[i] = elem /\ new[j] = vec[j - 1] /\ j - 1 \in 1 .. l /\ j - 1 >= p
      <4>1. j - 1 \in 1 .. l /\ j - 1 >= p /\ ~ (j < p) /\ j # p /\ ~ (i < p)
        BY <1>2, <1>7, <2>4
      <4> QED BY <1>4, <2>4, <4>1
    <3> QED BY <1>6, <3>1
  <2>5. CASE i > p
    <3>1. /\ new[i] = vec[i - 1] /\ new[j] = vec[j - 1] /\ i - 1 < j - 1
          /\ i - 1 \in 1 .. l /\ j - 1 \in 1 .. l
      <4>1. /\ i - 1 \in 1 .. l /\ j - 1 \in 1 .. l /\ i - 1 < j - 1
            /\ ~ (j < p) /\ j # p /\ ~ (i < p) /\ i # p
        BY <1>2, <1>7, <2>5
      <4> QED BY <1>4, <4>1
    <3> QED BY <1>2, <3>1
  <2> QED BY <1>2, <1>7, <2>1, <2>2, <2>3, <2>4, <2>5
<1>8. DOMAIN new = 1 .. l + 1
  BY <1>4
<1> QED BY <1>7, <1>8 DEF SortedBy

\* An erasure leaves a sorted vector sorted, wherever it looks for its item.
THEOREM EraseSortedSorts ==
  ASSUME NEW S, NEW at \in [S -> Int], NEW vec \in Seq(S), NEW elem, NEW races,
         SortedBy(at, vec), NEW new \in erase_sorted(at, vec, elem, races)
  PROVE  SortedBy(at, new)
<1>1. PICK p \in Positions(vec) : new = ErasedAt(vec, p, elem)
  BY DEF erase_sorted, LowerBounds
<1>2. CASE ~ (p <= Len(vec) /\ vec[p] = elem)
  BY <1>1, <1>2 DEF ErasedAt
<1>3. CASE p <= Len(vec) /\ vec[p] = elem
  <2>0. PICK l \in Nat : l = Len(vec)
    OBVIOUS
  <2>1. p \in 1 .. l /\ Len(vec) = l /\ l \in Nat
    BY <1>1, <1>3, <2>0 DEF Positions
  <2>2. /\ new \in Seq(S) /\ Len(new) = l - 1
        /\ \A i \in 1 .. l - 1 : new[i] = IF i < p THEN vec[i] ELSE vec[i + 1]
    <3>1. new = RemoveAt(vec, p)
      BY <1>1, <1>3, Zenon DEF ErasedAt
    <3>2. p \in 1 .. Len(vec)
      BY <2>1
    <3>3. /\ new \in Seq(S) /\ Len(new) = Len(vec) - 1
          /\ \A i \in 1 .. Len(vec) - 1 : new[i] = IF i < p THEN vec[i] ELSE vec[i + 1]
      BY <3>1, <3>2, RemoveAtIs, Zenon
    <3> QED BY <2>1, <3>3
  <2>3. \A i, j \in 1 .. l : i < j => at[vec[i]] <= at[vec[j]]
    BY <2>1 DEF SortedBy
  <2>4. ASSUME NEW i \in 1 .. l - 1, NEW j \in 1 .. l - 1, i < j
        PROVE  at[new[i]] <= at[new[j]]
    <3>1. i \in 1 .. l /\ i + 1 \in 1 .. l /\ j \in 1 .. l /\ j + 1 \in 1 .. l /\ p \in Int
          /\ i + 1 < j + 1 /\ i < j + 1
      BY <2>1, <2>4
    <3>2. new[i] = IF i < p THEN vec[i] ELSE vec[i + 1]
      BY <2>2
    <3>3. new[j] = IF j < p THEN vec[j] ELSE vec[j + 1]
      BY <2>2
    <3>4. CASE j < p
      BY <2>3, <2>4, <3>1, <3>2, <3>3, <3>4
    <3>5. CASE i < p /\ ~ (j < p)
      BY <2>3, <3>1, <3>2, <3>3, <3>5
    <3>6. CASE ~ (i < p)
      <4>1. ~ (j < p)
        BY <2>4, <3>1, <3>6
      <4> QED BY <2>3, <3>1, <3>2, <3>3, <3>6, <4>1
    <3> QED BY <3>4, <3>5, <3>6
  <2>5. DOMAIN new = 1 .. l - 1
    BY <2>1, <2>2
  <2> QED BY <2>4, <2>5 DEF SortedBy
<1> QED BY <1>2, <1>3
-----------------------------------------------------------------------------
(* Types.                                                                  *)

\* What the loaded visits look like.
LEMMA LoadedVisitsType ==
  /\ LoadedVisits \in [VisitIds -> VisitItem]
  /\ \A v \in VisitIds : LoadedVisits[v].id \in {NoId, v}
  /\ \A v \in VisitIds : LoadedVisits[v].id = NoId => LoadedVisits[v] = NewVisitItem
<1>1. NewVisitItem \in VisitItem
  BY VisitConstants DEF NewVisitItem, VisitItem
<1>2. \A v \in DOMAIN Loaded : Loaded[v] \in VisitItem /\ Loaded[v].id = v /\ v # NoId
  BY VisitConstants
<1> QED BY <1>1, <1>2 DEF LoadedVisits, NewVisitItem

\* The body a handler enqueues is a visit with an id that names it.
LEMMA BodyType ==
  ASSUME NEW p \in Posts
  PROVE  /\ Body(p) \in Request
         /\ Body(p).mask = p.v.mask
         /\ p.entity_id = NoId => Body(p) = p.v
<1>1. p \in Post
  BY VisitConstants
<1>2. p.v \in Visit /\ p.entity_id \in VisitIds \union {NoId} /\ Target(p) \in VisitIds
  BY <1>1 DEF Post, Target
<1> QED BY <1>2 DEF Body, Request, Visit, Target

\* The visit a worker starts with is a visit, with no id.
LEMMA BlankVisitType == BlankVisit \in Visit /\ BlankVisit.id = NoId /\ NoId \notin VisitIds
BY VisitConstants DEF BlankVisit, Visit

\* What Init makes of the vectors.
LEMMA LoadedVectorsType ==
  ASSUME NEW k \in Kinds, NEW f \in LoadedVectors(LoadedVisits, k)
  PROVE  /\ f \in [Owners(k) -> Seq(VisitRefs)]
         /\ \A o \in Owners(k) : ToSet(f[o]) = VisitsOf(LoadedVisits, k, o)
<1>1. /\ DOMAIN f = Owners(k)
      /\ f = [o \in Owners(k) |-> f[o]]
      /\ \A o \in Owners(k) :
           f[o] \in Listings(VisitsOf(LoadedVisits, k, o), At(LoadedVisits))
  BY DEF LoadedVectors
<1>2. ASSUME NEW o \in Owners(k)
      PROVE  /\ f[o] \in Seq(VisitRefs)
             /\ ToSet(f[o]) = VisitsOf(LoadedVisits, k, o)
  <2> DEFINE S == VisitsOf(LoadedVisits, k, o)
  <2>1. f[o] \in [1 .. Cardinality(S) -> S] /\ ToSet(f[o]) = S
    BY <1>1, <1>2 DEF Listings
  <2>2. S \subseteq VisitIds
    BY DEF VisitsOf
  <2>3. Cardinality(S) \in Nat
    BY <2>2, VisitConstants, FS_Subset, FS_CardinalityType
  <2> QED BY <2>1, <2>2, <2>3 DEF VisitRefs
<1> QED BY <1>1, <1>2

\* The initial state is typed.
LEMMA InitTypeOK == Init => TypeOK
<1> SUFFICES ASSUME Init PROVE TypeOK
  OBVIOUS
<1>1. VisitsTypeOK
  BY LoadedVisitsType DEF Init, VisitsTypeOK
<1>2. RequestsTypeOK
  <2>1. <<>> \in Seq(Request) /\ <<>> \in Seq(Entry)
    OBVIOUS
  <2>2. /\ working = FALSE
        /\ requests = [t \in Threads |-> <<>>] /\ log = [t \in Threads |-> <<>>]
    BY DEF Init
  <2> QED BY <2>1, <2>2 DEF RequestsTypeOK
<1>3. WorkerTypeOK
  BY DEF Init, WorkerTypeOK
<1>4. VectorsTypeOK
  <2>1. PICK byUser \in LoadedVectors(visits, "user_id"),
             byLocation \in LoadedVectors(visits, "location_id") :
               vecs = [k \in Kinds |-> IF k = "user_id" THEN byUser ELSE byLocation]
    BY DEF Init
  <2>2. visits = LoadedVisits /\ "user_id" \in Kinds /\ "location_id" \in Kinds
    BY DEF Init, Kinds
  <2>3. /\ byUser \in [Owners("user_id") -> Seq(VisitRefs)]
        /\ byLocation \in [Owners("location_id") -> Seq(VisitRefs)]
    BY <2>2, LoadedVectorsType
  <2> QED BY <2>1, <2>3 DEF Kinds, VectorsTypeOK
<1>5. IndexTypeOK
  <2>1. ops = [k \in Kinds |-> <<>>] /\ \A k \in Kinds : <<>> \in Seq(Op(k))
    BY DEF Init
  <2> QED BY <2>1 DEF Init, IndexTypeOK
<1> QED BY <1>1, <1>2, <1>3, <1>4, <1>5 DEF TypeOK

\* The ops that VisitsOwner and VisitsSort enqueue.
LEMMA OpIfType ==
  ASSUME NEW k \in Kinds, NEW o \in Owners(k) \union {NoId},
         NEW act \in {"add", "remove", "sort"}, NEW v \in VisitRefs
  PROVE  OpIf(o, act, v) \in Seq(Op(k))
<1> DEFINE op == [act |-> act, owner |-> o, vid |-> v]
<1>1. CASE o = NoId
  BY <1>1 DEF OpIf
<1>2. CASE o # NoId
  <2>1. op \in Op(k)
    BY <1>2 DEF Op
  <2> HIDE DEF op
  <2>2. <<op>> \in Seq(Op(k))
    BY <2>1
  <2> QED BY <1>2, <2>2 DEF OpIf, op
<1> QED BY <1>1, <1>2

\* A field that is indexed holds an owner of its kind or none.
LEMMA FieldType ==
  ASSUME NEW k \in Kinds
  PROVE  /\ \A it \in VisitItem : it[k] \in Owners(k) \union {NoId}
         /\ \A v \in Visit : v[k] \in Owners(k) \union {NoId}
         /\ \A it \in VisitItem, o \in Owners(k) \union {NoId} :
              [it EXCEPT ![k] = o] \in VisitItem
<1>1. CASE k = "user_id"
  BY <1>1 DEF Owners, VisitItem, Visit
<1>2. CASE k = "location_id"
  BY <1>2 DEF Owners, VisitItem, Visit
<1> QED BY <1>1, <1>2 DEF Kinds

\* The vector an index worker leaves.
LEMMA AppliedType ==
  ASSUME TypeOK, NEW k \in Kinds, NEW op \in Op(k),
         NEW vec \in Seq(VisitRefs), NEW new \in Applied(k, op, vec)
  PROVE  /\ new \in Seq(VisitRefs)
         /\ op.act = "add" => ToSet(new) = ToSet(vec) \union {op.vid}
         /\ op.act = "remove" => /\ ToSet(new) \subseteq ToSet(vec)
                                 /\ ToSet(vec) \ {op.vid} \subseteq ToSet(new)
         /\ op.act = "sort" => ToSet(new) = ToSet(vec)
<1>1. op.act \in {"add", "remove", "sort"} /\ op.vid \in VisitRefs
  BY DEF Op
<1>2. CASE op.act = "add"
  <2>1. new \in insert_sorted(At(visits), vec, op.vid, racing[k])
    BY <1>2 DEF Applied
  <2>2. new \in Seq(VisitRefs) /\ ToSet(new) = ToSet(vec) \union {op.vid}
    BY <1>1, <2>1, InsertSortedMembers
  <2> QED BY <1>2, <2>2
<1>3. CASE op.act = "remove"
  <2>1. new \in erase_sorted(At(visits), vec, op.vid, racing[k])
    BY <1>3 DEF Applied
  <2>2. /\ new \in Seq(VisitRefs)
        /\ ToSet(new) \subseteq ToSet(vec)
        /\ ToSet(vec) \ {op.vid} \subseteq ToSet(new)
    BY <1>1, <2>1, EraseSortedMembers
  <2> QED BY <1>3, <2>2
<1>4. CASE op.act = "sort"
  <2>1. new \in sort(At(visits), vec, racing[k])
    BY <1>4 DEF Applied
  <2>2. new \in Seq(VisitRefs) /\ ToSet(new) = ToSet(vec)
    BY <2>1, SortMembers
  <2> QED BY <1>4, <2>2
<1> QED BY <1>1, <1>2, <1>3, <1>4

\* A part of the type invariant holds on as long as its variables are unchanged.
LEMMA TypeFrames ==
  ASSUME TypeOK
  PROVE  /\ UNCHANGED visits => VisitsTypeOK'
         /\ UNCHANGED <<working, requests, log>> => RequestsTypeOK'
         /\ UNCHANGED <<pc, item>> => WorkerTypeOK'
         /\ UNCHANGED vecs => VectorsTypeOK'
         /\ UNCHANGED <<ops, ipc, racing>> => IndexTypeOK'
<1>1. UNCHANGED visits => VisitsTypeOK'
  BY DEF TypeOK, VisitsTypeOK
<1>2. UNCHANGED <<working, requests, log>> => RequestsTypeOK'
  BY DEF TypeOK, RequestsTypeOK
<1>3. UNCHANGED <<pc, item>> => WorkerTypeOK'
  BY DEF TypeOK, WorkerTypeOK
<1>4. UNCHANGED vecs => VectorsTypeOK'
  BY DEF TypeOK, VectorsTypeOK
<1>5. UNCHANGED <<ops, ipc, racing>> => IndexTypeOK'
  BY DEF TypeOK, IndexTypeOK
<1> QED BY <1>1, <1>2, <1>3, <1>4, <1>5

\* What a handler does, whatever it answers.
LEMMA SubmitStep ==
  ASSUME TypeOK, NEW t \in Threads, NEW p \in Posts,
         insertVisit(t, p) \/ updateVisit(t, p)
  PROVE  /\ Body(p) \in Request
         /\ requests' = [requests EXCEPT ![t] = Append(@, Body(p))]
         /\ \E e \in Entry : log' = [log EXCEPT ![t] = Append(@, e)]
         /\ working' = TRUE
         /\ UNCHANGED <<visits, vecs, pc, item, ops, ipc, racing>>
<1>1. Body(p) \in Request /\ (p.entity_id = NoId => Body(p) = p.v)
  BY BodyType
<1>2. \A code \in {200, 400, 404} : [post |-> p, code |-> code] \in Entry
  BY DEF Entry
<1>3. \E e \in Entry : log' = [log EXCEPT ![t] = Append(@, e)]
  <2>1. CASE insertVisit(t, p)
    <3>1. PICK code : /\ code = IF visitExists(p.entity_id) \/ p.v.mask # Param THEN 400 ELSE 200
                      /\ code \in {200, 400, 404}
      OBVIOUS
    <3>2. PICK e : e = [post |-> p, code |-> code]
      OBVIOUS
    <3>3. log' = [log EXCEPT ![t] = Append(@, e)]
      BY <2>1, <3>1, <3>2 DEF insertVisit
    <3>4. e \in Entry
      BY <1>2, <3>1, <3>2
    <3> QED BY <3>3, <3>4
  <2>2. CASE updateVisit(t, p)
    <3>1. PICK code : /\ code = IF ~ visitExists(p.entity_id) THEN 404
                                ELSE IF "id" \in p.v.mask THEN 400 ELSE 200
                      /\ code \in {200, 400, 404}
      OBVIOUS
    <3>2. PICK e : e = [post |-> p, code |-> code]
      OBVIOUS
    <3>3. log' = [log EXCEPT ![t] = Append(@, e)]
      BY <2>2, <3>1, <3>2 DEF updateVisit
    <3>4. e \in Entry
      BY <1>2, <3>1, <3>2
    <3> QED BY <3>3, <3>4
  <2> QED BY <2>1, <2>2
<1>4. /\ requests' = [requests EXCEPT ![t] = Append(@, Body(p))]
      /\ working' = TRUE
      /\ UNCHANGED <<visits, vecs, pc, item, ops, ipc, racing>>
  BY <1>1 DEF insertVisit, updateVisit
<1> QED BY <1>1, <1>3, <1>4

\* A POST that is answered and enqueued leaves the state typed.
LEMMA SubmitTypeOK ==
  ASSUME TypeOK, NEW t \in Threads, NEW p \in Posts,
         insertVisit(t, p) \/ updateVisit(t, p)
  PROVE  TypeOK'
<1>1. /\ Body(p) \in Request
      /\ requests' = [requests EXCEPT ![t] = Append(@, Body(p))]
      /\ working' = TRUE
      /\ UNCHANGED <<visits, vecs, pc, item, ops, ipc, racing>>
  BY SubmitStep
<1>2. requests' \in [Threads -> Seq(Request)]
  BY <1>1 DEF TypeOK, RequestsTypeOK
<1>3. log' \in [Threads -> Seq(Entry)]
  <2>1. PICK e \in Entry : log' = [log EXCEPT ![t] = Append(@, e)]
    BY SubmitStep
  <2> QED BY <2>1 DEF TypeOK, RequestsTypeOK
<1>4. RequestsTypeOK'
  BY <1>1, <1>2, <1>3 DEF RequestsTypeOK
<1> QED BY <1>1, <1>4, TypeFrames DEF TypeOK

\* The request the Visits worker holds between dequeue and the end of its turn.
LEMMA HeldRequest ==
  ASSUME TypeOK, pc \notin {"loop", "dequeue"}
  PROVE  item \in Request /\ item \in Visit /\ item.id \in VisitIds
BY DEF TypeOK, WorkerTypeOK, Request

\* Taking a request off its queue leaves the state typed.
LEMMA VisitsTakeTypeOK ==
  ASSUME TypeOK, NEW t \in Threads, VisitsTake(t)
  PROVE  TypeOK'
<1> DEFINE v == Head(requests[t])
           it == visits[v.id]
           new == [it EXCEPT !.id   = IF "id"   \in v.mask THEN v.id   ELSE @,
                             !.mark = IF "mark" \in v.mask THEN v.mark ELSE @]
<1>1. v \in Request /\ Tail(requests[t]) \in Seq(Request)
  BY DEF TypeOK, RequestsTypeOK, VisitsTake
<1>2. v.id \in VisitIds /\ v.mark \in Marks
  BY <1>1 DEF Request, Visit
<1>3. it \in VisitItem
  BY <1>2 DEF TypeOK, VisitsTypeOK
<1>4. visits' = [visits EXCEPT ![v.id] = new]
  BY DEF VisitsTake
<1> HIDE DEF v
<1>5. new \in VisitItem
  BY <1>2, <1>3 DEF VisitItem
<1>6. VisitsTypeOK'
  BY <1>2, <1>4, <1>5 DEF TypeOK, VisitsTypeOK
<1>7. RequestsTypeOK'
  BY <1>1 DEF TypeOK, RequestsTypeOK, VisitsTake, v
<1>8. WorkerTypeOK'
  BY <1>1 DEF WorkerTypeOK, VisitsTake, Kinds, v
<1> QED BY <1>6, <1>7, <1>8, TypeFrames DEF TypeOK, VisitsTake

\* What VisitsOwner does when the request names a new owner.
LEMMA VisitsOwnerStep ==
  ASSUME TypeOK, NEW k \in Kinds, VisitsOwner(k), k \in item.mask
  PROVE  LET it == visits[item.id]
             r == OpIf(it[k], "remove", it.id)
             a == OpIf(item[k], "add", it.id)
         IN  /\ it \in VisitItem /\ item.id \in VisitIds
             /\ it[k] \in Owners(k) \union {NoId}
             /\ item[k] \in Owners(k) \union {NoId}
             /\ r \in Seq(Op(k)) /\ a \in Seq(Op(k))
             /\ visits' = [visits EXCEPT ![item.id] = [it EXCEPT ![k] = item[k]]]
             /\ ops' = [ops EXCEPT ![k] = (ops[k] \o r) \o a]
<1> DEFINE it == visits[item.id]
<1>1. item \in Visit /\ item.id \in VisitIds
  BY HeldRequest DEF VisitsOwner, Kinds
<1>2. it \in VisitItem /\ it.id \in VisitRefs
  BY <1>1 DEF TypeOK, VisitsTypeOK, VisitItem, VisitRefs
<1>3. it[k] \in Owners(k) \union {NoId} /\ item[k] \in Owners(k) \union {NoId}
  BY <1>1, <1>2, FieldType
<1>4. /\ OpIf(it[k], "remove", it.id) \in Seq(Op(k))
      /\ OpIf(item[k], "add", it.id) \in Seq(Op(k))
  BY <1>2, <1>3, OpIfType
<1>5. /\ visits' = [visits EXCEPT ![item.id] = [it EXCEPT ![k] = item[k]]]
      /\ ops' = [ops EXCEPT ![k] = (ops[k] \o OpIf(it[k], "remove", it.id))
                                          \o OpIf(item[k], "add", it.id)]
  BY DEF VisitsOwner
<1> QED BY <1>1, <1>2, <1>3, <1>4, <1>5

\* A change of owner leaves the state typed.
LEMMA VisitsOwnerTypeOK ==
  ASSUME TypeOK, NEW k \in Kinds, VisitsOwner(k)
  PROVE  TypeOK'
<1>1. WorkerTypeOK'
  BY HeldRequest DEF VisitsOwner, NextField, WorkerTypeOK, Kinds
<1>2. CASE k \in item.mask
  <2> DEFINE it == visits[item.id]
             r == OpIf(it[k], "remove", it.id)
             a == OpIf(item[k], "add", it.id)
  <2>1. VisitsTypeOK'
    <3>1. /\ it \in VisitItem /\ item.id \in VisitIds
          /\ item[k] \in Owners(k) \union {NoId}
          /\ visits' = [visits EXCEPT ![item.id] = [it EXCEPT ![k] = item[k]]]
      BY <1>2, VisitsOwnerStep
    <3>2. [it EXCEPT ![k] = item[k]] \in VisitItem
      BY <3>1, FieldType
    <3> QED BY <3>1, <3>2 DEF TypeOK, VisitsTypeOK
  <2>2. /\ r \in Seq(Op(k)) /\ a \in Seq(Op(k)) /\ ops[k] \in Seq(Op(k))
        /\ ops' = [ops EXCEPT ![k] = (ops[k] \o r) \o a]
    BY <1>2, VisitsOwnerStep DEF TypeOK, IndexTypeOK
  <2> HIDE DEF r, a
  <2>3. (ops[k] \o r) \o a \in Seq(Op(k)) /\ (ops[k] # <<>> => (ops[k] \o r) \o a # <<>>)
    BY <2>2
  <2>4. IndexTypeOK'
    BY <2>2, <2>3 DEF TypeOK, IndexTypeOK, VisitsOwner
  <2> QED BY <1>1, <2>1, <2>4, TypeFrames DEF TypeOK, VisitsOwner
<1>3. CASE k \notin item.mask
  BY <1>1, <1>3, TypeFrames DEF TypeOK, VisitsOwner
<1> QED BY <1>2, <1>3

\* A change of visited_at leaves the state typed.
LEMMA VisitsTimeTypeOK == ASSUME TypeOK, VisitsTime PROVE TypeOK'
<1>1. item \in Request /\ item.id \in VisitIds /\ item.visited_at \in Times
  BY HeldRequest DEF VisitsTime, Visit
<1>2. WorkerTypeOK'
  BY <1>1 DEF VisitsTime, WorkerTypeOK, Kinds
<1>3. CASE "visited_at" \in item.mask
  <2>1. VisitsTypeOK'
    <3> DEFINE new == [visits[item.id] EXCEPT !.visited_at = item.visited_at]
    <3>1. visits[item.id] \in VisitItem
      BY <1>1 DEF TypeOK, VisitsTypeOK
    <3>2. new \in VisitItem
      BY <1>1, <3>1 DEF VisitItem
    <3>3. visits' = [visits EXCEPT ![item.id] = new]
      BY <1>3 DEF VisitsTime
    <3> QED BY <1>1, <3>2, <3>3 DEF TypeOK, VisitsTypeOK
  <2> DEFINE raced(k) == racing[k] \/ /\ Compares(k, item.id)
                                      /\ visits[item.id].visited_at # item.visited_at
  <2>2. racing' = [k \in Kinds |-> raced(k)] /\ UNCHANGED <<ops, ipc>>
    BY <1>3 DEF VisitsTime
  <2>3. \A k \in Kinds : raced(k) \in BOOLEAN
    OBVIOUS
  <2>4. racing' \in [Kinds -> BOOLEAN]
    BY <2>2, <2>3
  <2>5. IndexTypeOK'
    BY <2>2, <2>4 DEF TypeOK, IndexTypeOK
  <2> QED BY <1>2, <2>1, <2>5, TypeFrames DEF TypeOK, VisitsTime
<1>4. CASE "visited_at" \notin item.mask
  BY <1>2, <1>4, TypeFrames DEF TypeOK, VisitsTime
<1> QED BY <1>3, <1>4

\* What VisitsSort does when the request carries a new time.
LEMMA VisitsSortStep ==
  ASSUME TypeOK, VisitsSort, "visited_at" \in item.mask, NEW k \in Kinds
  PROVE  LET it == visits[item.id]
             r == OpIf(it[k], "sort", it.id)
         IN  /\ r \in Seq(Op(k))
             /\ DOMAIN ops' = Kinds /\ ops'[k] = ops[k] \o r
<1> DEFINE it == visits[item.id]
<1>1. it \in VisitItem /\ it[k] \in Owners(k) \union {NoId} /\ it.id \in VisitRefs
  BY HeldRequest, FieldType DEF TypeOK, VisitsTypeOK, VisitItem, VisitsSort, VisitRefs
<1>2. OpIf(it[k], "sort", it.id) \in Seq(Op(k))
  BY <1>1, OpIfType
<1>3. ops' = [j \in Kinds |-> ops[j] \o OpIf(it[j], "sort", it.id)]
  BY DEF VisitsSort
<1> QED BY <1>2, <1>3

\* Sorting the two vectors leaves the state typed.
LEMMA VisitsSortTypeOK == ASSUME TypeOK, VisitsSort PROVE TypeOK'
<1>1. WorkerTypeOK'
  BY DEF VisitsSort, WorkerTypeOK
<1>2. CASE "visited_at" \in item.mask
  <2>1. ASSUME NEW k \in Kinds
        PROVE  ops'[k] \in Seq(Op(k)) /\ (ops[k] # <<>> => ops'[k] # <<>>)
    <3> DEFINE r == OpIf(visits[item.id][k], "sort", visits[item.id].id)
    <3>1. r \in Seq(Op(k)) /\ ops'[k] = ops[k] \o r /\ ops[k] \in Seq(Op(k))
      BY <1>2, VisitsSortStep DEF TypeOK, IndexTypeOK
    <3> HIDE DEF r
    <3> QED BY <3>1
  <2>2. DOMAIN ops' = Kinds
    BY <1>2, VisitsSortStep DEF Kinds
  <2>3. IndexTypeOK'
    BY <2>1, <2>2 DEF TypeOK, IndexTypeOK, VisitsSort
  <2> QED BY <1>1, <2>3, TypeFrames DEF TypeOK, VisitsSort
<1>3. CASE "visited_at" \notin item.mask
  BY <1>1, <1>3, TypeFrames DEF TypeOK, VisitsSort
<1> QED BY <1>2, <1>3

\* What IndexApply does.
LEMMA IndexApplyStep ==
  ASSUME TypeOK, NEW k \in Kinds, IndexApply(k)
  PROVE  LET op == Head(ops[k])
         IN  /\ op \in Op(k) /\ op.owner \in Owners(k) /\ ops[k] # <<>>
             /\ Tail(ops[k]) \in Seq(Op(k))
             /\ ops' = [ops EXCEPT ![k] = Tail(@)]
             /\ vecs[k][op.owner] \in Seq(VisitRefs)
             /\ \E new \in Applied(k, op, vecs[k][op.owner]) :
                  /\ new \in Seq(VisitRefs)
                  /\ vecs' = [vecs EXCEPT ![k][op.owner] = new]
<1> DEFINE op == Head(ops[k])
<1>1. ops[k] \in Seq(Op(k)) /\ ops[k] # <<>>
  BY DEF TypeOK, IndexTypeOK, IndexApply
<1>2. op \in Op(k) /\ Tail(ops[k]) \in Seq(Op(k))
  <2> DEFINE S == Op(k)
  <2> HIDE DEF S
  <2>1. \A q \in Seq(S) : q # <<>> => Head(q) \in S /\ Tail(q) \in Seq(S)
    OBVIOUS
  <2> QED BY <1>1, <2>1 DEF S
<1>3. op.owner \in Owners(k)
  BY <1>2 DEF Op
<1>4. vecs[k][op.owner] \in Seq(VisitRefs)
  BY <1>3 DEF TypeOK, VectorsTypeOK
<1>5. PICK new \in Applied(k, op, vecs[k][op.owner]) :
        vecs' = [vecs EXCEPT ![k][op.owner] = new]
  BY DEF IndexApply
<1>6. new \in Seq(VisitRefs)
  BY <1>2, <1>4, <1>5, AppliedType
<1> QED BY <1>1, <1>2, <1>3, <1>4, <1>5, <1>6 DEF IndexApply

\* Applying an op to a vector leaves the state typed.
LEMMA IndexApplyTypeOK ==
  ASSUME TypeOK, NEW k \in Kinds, IndexApply(k)
  PROVE  TypeOK'
<1> DEFINE op == Head(ops[k])
<1>1. VectorsTypeOK'
  <2>1. op.owner \in Owners(k)
    BY IndexApplyStep
  <2>2. PICK new \in Seq(VisitRefs) : vecs' = [vecs EXCEPT ![k][op.owner] = new]
    BY IndexApplyStep
  <2> QED BY <2>1, <2>2 DEF TypeOK, VectorsTypeOK
<1>2. IndexTypeOK'
  BY IndexApplyStep DEF TypeOK, IndexTypeOK, IndexApply
<1> QED BY <1>1, <1>2, TypeFrames DEF TypeOK, IndexApply

\* Every step of the program keeps the types.
LEMMA NextTypeOK == TypeOK /\ [Next]_vars => TypeOK'
<1> SUFFICES ASSUME TypeOK, [Next]_vars PROVE TypeOK'
  OBVIOUS
<1>1. CASE \E t \in Threads, p \in Posts : insertVisit(t, p) \/ updateVisit(t, p)
  BY <1>1, SubmitTypeOK
<1>2. CASE enableWriters \/ disableWriters
  <2>1. RequestsTypeOK'
    BY <1>2 DEF TypeOK, RequestsTypeOK, enableWriters, disableWriters
  <2> QED BY <1>2, <2>1, TypeFrames DEF TypeOK, enableWriters, disableWriters
<1>3. CASE VisitsCheck \/ VisitsEmpty
  <2>1. WorkerTypeOK'
    BY <1>3 DEF TypeOK, WorkerTypeOK, VisitsCheck, VisitsEmpty
  <2> QED BY <1>3, <2>1, TypeFrames DEF TypeOK, VisitsCheck, VisitsEmpty
<1>4. CASE \E t \in Threads : VisitsTake(t)
  BY <1>4, VisitsTakeTypeOK
<1>5. CASE \E k \in Kinds : VisitsOwner(k)
  BY <1>5, VisitsOwnerTypeOK
<1>6. CASE VisitsTime
  BY <1>6, VisitsTimeTypeOK
<1>7. CASE VisitsSort
  BY <1>7, VisitsSortTypeOK
<1>8. ASSUME NEW k \in Kinds, IndexCheck(k) \/ IndexEmpty(k) \/ IndexTake(k)
      PROVE  TypeOK'
  <2>1. IndexTypeOK'
    BY <1>8 DEF TypeOK, IndexTypeOK, IndexCheck, IndexEmpty, IndexTake
  <2> QED BY <1>8, <2>1, TypeFrames DEF TypeOK, IndexCheck, IndexEmpty, IndexTake
<1>9. CASE \E k \in Kinds : IndexApply(k)
  BY <1>9, IndexApplyTypeOK
<1>10. CASE UNCHANGED vars
  BY <1>10, TypeFrames DEF TypeOK, vars
<1> QED BY <1>1, <1>2, <1>3, <1>4, <1>5, <1>6, <1>7, <1>8, <1>9, <1>10
        DEF Next, VisitsWorker, IndexWorker

\* Every variable keeps its type, and an index worker never applies an op that
\* is not there.
THEOREM TypeCorrect == Spec => []TypeOK
BY InitTypeOK, NextTypeOK, PTL DEF Spec
-----------------------------------------------------------------------------
(***************************************************************************)
(* The write path of visits implements VisitStore: a request that the      *)
(* worker applies field by field takes effect, as seen through the request *)
(* it holds, in one step when it is dequeued.                              *)
(*                                                                         *)
(* What the refinement needs beyond the types is that the fields the       *)
(* worker is past are stored already: the last step, which forgets the     *)
(* request, then changes nothing.                                          *)
(***************************************************************************)

\* The fields the worker has yet to reach.
Pending ==
  CASE pc = "user_id"     -> {"user_id", "location_id", "visited_at"}
    [] pc = "location_id" -> {"location_id", "visited_at"}
    [] pc = "visited_at"  -> {"visited_at"}
    [] OTHER              -> {}

PastFieldsStored ==
  pc \notin {"loop", "dequeue"} =>
    \A f \in item.mask \ Pending : visits[item.id][f] = item[f]

RefinementInv == TypeOK /\ PastFieldsStored

\* A stored visit is the function of its fields.
LEMMA ItemIsFunction ==
  ASSUME NEW it \in VisitItem
  PROVE  DOMAIN it = Param /\ it = [f \in Param |-> it[f]]
BY DEF VisitItem, Param

\* The invariant holds of the loaded storage.
LEMMA InitRefinementInv == Init => RefinementInv
BY InitTypeOK DEF Init, RefinementInv, PastFieldsStored

\* Every step keeps the invariant.
LEMMA NextRefinementInv == RefinementInv /\ [Next]_vars => RefinementInv'
<1> SUFFICES ASSUME RefinementInv, [Next]_vars PROVE PastFieldsStored'
  BY NextTypeOK DEF RefinementInv
<1> USE DEF RefinementInv
<1>1. ASSUME UNCHANGED <<visits, pc, item>> PROVE PastFieldsStored'
  BY <1>1 DEF PastFieldsStored, Pending
<1>2. ASSUME pc' \in {"loop", "dequeue"} PROVE PastFieldsStored'
  BY <1>2 DEF PastFieldsStored
<1>3. CASE \E t \in Threads, p \in Posts : insertVisit(t, p) \/ updateVisit(t, p)
  BY <1>1, <1>3 DEF insertVisit, updateVisit
<1>4. CASE enableWriters \/ disableWriters
  BY <1>1, <1>4 DEF enableWriters, disableWriters
<1>5. CASE VisitsCheck \/ VisitsEmpty \/ VisitsSort
  BY <1>2, <1>5 DEF VisitsCheck, VisitsEmpty, VisitsSort
<1>6. ASSUME NEW t \in Threads, VisitsTake(t) PROVE PastFieldsStored'
  <2> DEFINE w == Head(requests[t])
             it == visits[w.id]
             new == [it EXCEPT !.id   = IF "id"   \in w.mask THEN w.id   ELSE @,
                               !.mark = IF "mark" \in w.mask THEN w.mark ELSE @]
  <2>1. w \in Request /\ w.id \in VisitIds /\ w.mask \subseteq Param
    <3>1. w \in Request
      BY <1>6 DEF TypeOK, RequestsTypeOK, VisitsTake
    <3> HIDE DEF w
    <3> QED BY <3>1 DEF Request, Visit
  <2>2. it \in VisitItem /\ visits \in [VisitIds -> VisitItem]
    BY <2>1 DEF TypeOK, VisitsTypeOK
  <2>3. visits' = [visits EXCEPT ![w.id] = new] /\ item' = w /\ pc' = "user_id"
    BY <1>6 DEF VisitsTake
  <2> HIDE DEF w
  <2>4. /\ "id" \in w.mask => new.id = w.id
        /\ "mark" \in w.mask => new.mark = w.mark
    BY <2>2 DEF VisitItem
  <2>5. visits'[w.id] = new
    BY <2>1, <2>2, <2>3
  <2> HIDE DEF new
  <2> QED BY <2>1, <2>3, <2>4, <2>5 DEF PastFieldsStored, Pending, Param
<1>7. ASSUME NEW k \in Kinds, VisitsOwner(k) PROVE PastFieldsStored'
  <2>1. /\ item \in Visit /\ item.id \in VisitIds /\ visits \in [VisitIds -> VisitItem]
        /\ pc = k /\ pc' = NextField(k) /\ item' = item
    BY <1>7, HeldRequest DEF VisitsOwner, Kinds, TypeOK, VisitsTypeOK
  <2>2. visits[item.id] \in VisitItem
    BY <2>1
  <2>3. \A f \in item.mask \ Pending' :
          f \in Param /\ (f # k => f \in item.mask \ Pending)
    BY <2>1 DEF Pending, NextField, Kinds, Param, Visit
  <2>4. \A f \in Param : f # k => visits'[item.id][f] = visits[item.id][f]
    BY <1>7, <2>1, <2>2, ItemIsFunction DEF VisitsOwner
  <2>5. k \in item.mask => visits'[item.id][k] = item[k]
    BY <1>7, <2>1, <2>2, ItemIsFunction DEF VisitsOwner, Kinds, Param
  <2>6. \A f \in item.mask \ Pending : visits[item.id][f] = item[f]
    BY <2>1 DEF PastFieldsStored, Kinds
  <2> QED BY <2>1, <2>3, <2>4, <2>5, <2>6 DEF PastFieldsStored
<1>8. CASE VisitsTime
  <2>1. /\ item \in Visit /\ item.id \in VisitIds /\ visits \in [VisitIds -> VisitItem]
        /\ pc = "visited_at" /\ pc' = "sort" /\ item' = item
    BY <1>8, HeldRequest DEF VisitsTime, TypeOK, VisitsTypeOK
  <2>2. visits[item.id] \in VisitItem
    BY <2>1
  <2>3. \A f \in item.mask : f # "visited_at" => visits[item.id][f] = item[f]
    BY <2>1 DEF PastFieldsStored, Pending
  <2>4. \A f \in item.mask : f # "visited_at" => visits'[item.id][f] = visits[item.id][f]
    BY <1>8, <2>1, <2>2, ItemIsFunction DEF VisitsTime, Visit
  <2>5. "visited_at" \in item.mask => visits'[item.id]["visited_at"] = item["visited_at"]
    BY <1>8, <2>1, <2>2, ItemIsFunction DEF VisitsTime, Param
  <2> QED BY <2>1, <2>3, <2>4, <2>5 DEF PastFieldsStored
<1>9. ASSUME NEW k \in Kinds, IndexWorker(k) PROVE PastFieldsStored'
  BY <1>1, <1>9 DEF IndexWorker, IndexCheck, IndexEmpty, IndexTake, IndexApply
<1>10. CASE UNCHANGED vars
  BY <1>1, <1>10 DEF vars
<1> QED BY <1>3, <1>4, <1>5, <1>6, <1>7, <1>8, <1>9, <1>10 DEF Next, VisitsWorker
-----------------------------------------------------------------------------
(* The steps.                                                              *)

\* Between two requests the stored visits are what VisitStore sees.
LEMMA SeenAtRest ==
  ASSUME TypeOK, item = BlankVisit
  PROVE  Seen = visits
BY BlankVisitType DEF TypeOK, VisitsTypeOK, Seen

\* The id a handler tests is never one the worker has yet to store.
LEMMA SeenExists ==
  ASSUME RefinementInv, NEW v \in VisitIds
  PROVE  Seen[v].id # NoId <=> visitExists(v)
<1>1. CASE item.id # v
  BY <1>1 DEF Seen, visitExists
<1>2. CASE item.id = v
  <2>1. pc \notin {"loop", "dequeue"} /\ item.id \in VisitIds
    BY <1>2, BlankVisitType DEF RefinementInv, TypeOK, WorkerTypeOK
  <2>2. "id" \in item.mask => visits[v].id = item.id
    <3>1. "id" \notin Pending
      BY DEF Pending
    <3>2. "id" \in item.mask => visits[v]["id"] = item["id"]
      BY <1>2, <2>1, <3>1 DEF RefinementInv, PastFieldsStored
    <3> QED BY <3>2
  <2>3. Seen[v].id = IF "id" \in item.mask THEN item.id ELSE visits[v].id
    BY <1>2 DEF Seen, Overlay, Param
  <2> QED BY <1>2, <2>1, <2>2, <2>3 DEF visitExists
<1> QED BY <1>1, <1>2

\* The loaded storage is an initial state of VisitStore.
LEMMA InitImplements == Init => Store!SInit
<1> SUFFICES ASSUME Init PROVE Store!SInit
  OBVIOUS
<1>1. Seen = LoadedVisits
  BY InitTypeOK, SeenAtRest DEF Init
<1>2. Store!LoadedVisits = LoadedVisits
  BY DEF Store!LoadedVisits, LoadedVisits, Store!NewVisitItem, NewVisitItem
<1> QED BY <1>1, <1>2 DEF Init, Store!SInit

\* A handler answers from what VisitStore sees, and enqueues what it enqueues.
LEMMA SubmitImplements ==
  ASSUME RefinementInv, NEW t \in Threads, NEW p \in Posts,
         insertVisit(t, p) \/ updateVisit(t, p)
  PROVE  Store!Submit(t, p)
<1>1. Seen' = Seen
  BY DEF insertVisit, updateVisit, Seen
<1>2. Unsent(p) <=> Store!Unsent(p)
  BY DEF Unsent, Store!Unsent
<1>3. requests' = [requests EXCEPT ![t] = Append(@, Body(p))] /\ Store!Body(p) = Body(p)
  BY SubmitStep DEF RefinementInv, Store!Body, Body, Store!Target, Target
<1>4. p.entity_id \in VisitIds \union {NoId} /\ Store!Param = Param
  BY VisitConstants DEF Post, Store!Param, Param
<1>5. p.entity_id \in VisitIds => (Store!Stored(p.entity_id) <=> visitExists(p.entity_id))
  BY SeenExists DEF Store!Stored
<1>6. Unsent(p) /\ log' = [log EXCEPT ![t] = Append(@, [post |-> p, code |-> Store!Answer(p)])]
  <2>1. CASE insertVisit(t, p)
    <3>1. p.entity_id = NoId /\ ~ visitExists(p.entity_id)
      BY <2>1, VisitConstants DEF insertVisit, visitExists
    <3>2. Store!Answer(p) = IF p.v.mask # Param THEN 400 ELSE 200
      BY <1>4, <3>1 DEF Store!Answer
    <3> QED BY <2>1, <3>1, <3>2 DEF insertVisit
  <2>2. CASE updateVisit(t, p)
    <3>1. p.entity_id # NoId
      BY <2>2 DEF updateVisit
    <3>2. Store!Answer(p) = IF ~ visitExists(p.entity_id) THEN 404
                            ELSE IF "id" \in p.v.mask THEN 400 ELSE 200
      BY <1>4, <1>5, <3>1 DEF Store!Answer
    <3> QED BY <2>2, <3>2 DEF updateVisit
  <2> QED BY <2>1, <2>2
<1> QED BY <1>1, <1>2, <1>3, <1>6 DEF Store!Submit

\* Taking a request is where it takes effect, if it changes nothing else.
LEMMA VisitsTakeImplements ==
  ASSUME RefinementInv, NEW t \in Threads, VisitsTake(t)
  PROVE  Store!TakeEffect(t)
<1> DEFINE w == Head(requests[t])
           it == visits[w.id]
           new == [it EXCEPT !.id   = IF "id"   \in w.mask THEN w.id   ELSE @,
                             !.mark = IF "mark" \in w.mask THEN w.mark ELSE @]
<1>1. w \in Request
  BY DEF RefinementInv, TypeOK, RequestsTypeOK, VisitsTake
<1>2. /\ visits' = [visits EXCEPT ![w.id] = new] /\ item' = w /\ requests[t] # <<>>
      /\ requests' = [requests EXCEPT ![t] = Tail(@)] /\ log' = log
  BY DEF VisitsTake
<1>3. Seen = visits
  BY SeenAtRest DEF RefinementInv, TypeOK, WorkerTypeOK, VisitsTake
<1> HIDE DEF w
<1>4. w.id \in VisitIds /\ visits \in [VisitIds -> VisitItem] /\ it \in VisitItem
  BY <1>1 DEF Request, RefinementInv, TypeOK, VisitsTypeOK
<1>5. Overlay(w, new) = Overlay(w, it)
  <2>1. \A f \in Param : f \notin w.mask => new[f] = it[f]
    BY <1>4, ItemIsFunction DEF Param
  <2> HIDE DEF new
  <2> QED BY <2>1 DEF Overlay
<1>6. Seen' = [visits EXCEPT ![w.id] = Overlay(w, it)]
  <2>1. visits'[w.id] = new /\ \A v \in VisitIds : v # w.id => visits'[v] = visits[v]
    BY <1>2, <1>4
  <2> HIDE DEF new
  <2>2. Seen' = [v \in VisitIds |-> IF w.id = v THEN Overlay(w, visits'[v]) ELSE visits'[v]]
    BY <1>2 DEF Seen
  <2> QED BY <1>4, <1>5, <2>1, <2>2
<1>7. Store!Overlay(w, it) = Overlay(w, it)
  BY DEF Store!Overlay, Overlay, Store!Param, Param
<1> QED BY <1>2, <1>3, <1>6, <1>7 DEF Store!TakeEffect, w

\* What the worker does to a field it holds is seen already.
LEMMA FieldWriteIsSeen ==
  ASSUME TypeOK, item' = item, item.id \in VisitIds, NEW f \in item.mask,
         visits' = [visits EXCEPT ![item.id] = [@ EXCEPT ![f] = item[f]]]
  PROVE  Seen' = Seen
<1> DEFINE it == visits[item.id]
           new == [it EXCEPT ![f] = item[f]]
<1>1. visits \in [VisitIds -> VisitItem] /\ it \in VisitItem
  BY DEF TypeOK, VisitsTypeOK
<1>2. \A g \in Param : g # f => new[g] = it[g]
  BY <1>1, ItemIsFunction
<1>3. visits' = [visits EXCEPT ![item.id] = new]
  OBVIOUS
<1> HIDE DEF new
<1>4. Overlay(item, new) = Overlay(item, it)
  BY <1>2 DEF Overlay
<1> QED BY <1>1, <1>3, <1>4 DEF Seen

\* A change of owner is seen when the request has taken effect, or is not yet.
LEMMA VisitsOwnerImplements ==
  ASSUME RefinementInv, NEW k \in Kinds, VisitsOwner(k)
  PROVE  UNCHANGED Store!svars
<1>1. item' = item /\ requests' = requests /\ log' = log /\ item.id \in VisitIds
  BY HeldRequest DEF VisitsOwner, RefinementInv, Kinds
<1>2. CASE k \in item.mask
  <2>1. visits' = [visits EXCEPT ![item.id] = [@ EXCEPT ![k] = item[k]]]
    BY <1>2 DEF VisitsOwner
  <2> QED BY <1>1, <1>2, <2>1, FieldWriteIsSeen DEF RefinementInv, Store!svars
<1>3. CASE k \notin item.mask
  BY <1>1, <1>3 DEF VisitsOwner, Store!svars, Seen
<1> QED BY <1>2, <1>3

\* The change of visited_at is seen with the rest of its request.
LEMMA VisitsTimeImplements ==
  ASSUME RefinementInv, VisitsTime
  PROVE  UNCHANGED Store!svars
<1>1. item' = item /\ requests' = requests /\ log' = log /\ item.id \in VisitIds
  BY HeldRequest DEF VisitsTime, RefinementInv
<1>2. CASE "visited_at" \in item.mask
  <2>1. visits' = [visits EXCEPT ![item.id] = [@ EXCEPT !["visited_at"] = item["visited_at"]]]
    BY <1>2 DEF VisitsTime
  <2> QED BY <1>1, <1>2, <2>1, FieldWriteIsSeen DEF RefinementInv, Store!svars
<1>3. CASE "visited_at" \notin item.mask
  BY <1>1, <1>3 DEF VisitsTime, Store!svars, Seen
<1> QED BY <1>2, <1>3

\* The request can be forgotten: every field of it is stored.
LEMMA VisitsSortImplements ==
  ASSUME RefinementInv, VisitsSort
  PROVE  UNCHANGED Store!svars
<1>1. /\ item' = BlankVisit /\ requests' = requests /\ log' = log /\ visits' = visits
      /\ pc = "sort"
  BY DEF VisitsSort
<1>2. item.id \in VisitIds /\ visits \in [VisitIds -> VisitItem]
  BY <1>1, HeldRequest DEF RefinementInv, TypeOK, VisitsTypeOK
<1>3. \A f \in item.mask : visits[item.id][f] = item[f]
  BY <1>1 DEF RefinementInv, PastFieldsStored, Pending
<1>4. visits[item.id] = [f \in Param |-> visits[item.id][f]]
  BY <1>2, ItemIsFunction
<1>5. Overlay(item, visits[item.id]) = visits[item.id]
  BY <1>3, <1>4 DEF Overlay
<1>6. Seen = visits
  BY <1>2, <1>5 DEF Seen
<1>7. Seen' = visits'
  BY <1>1, <1>2, BlankVisitType DEF Seen
<1> QED BY <1>1, <1>6, <1>7 DEF Store!svars

\* Every step is a step of VisitStore or leaves its variables alone.
LEMMA NextImplements == RefinementInv /\ [Next]_vars => [Store!SNext]_Store!svars
<1> SUFFICES ASSUME RefinementInv, [Next]_vars PROVE [Store!SNext]_Store!svars
  OBVIOUS
<1>1. ASSUME UNCHANGED <<visits, requests, item, log>> PROVE UNCHANGED Store!svars
  BY <1>1 DEF Store!svars, Seen
<1>2. ASSUME NEW t \in Threads, NEW p \in Posts, insertVisit(t, p) \/ updateVisit(t, p)
      PROVE  Store!SNext
  BY <1>2, SubmitImplements DEF Store!SNext
<1>3. CASE enableWriters \/ disableWriters
  BY <1>1, <1>3 DEF enableWriters, disableWriters
<1>4. CASE VisitsCheck \/ VisitsEmpty
  BY <1>1, <1>4 DEF VisitsCheck, VisitsEmpty
<1>5. ASSUME NEW t \in Threads, VisitsTake(t) PROVE Store!SNext
  BY <1>5, VisitsTakeImplements DEF Store!SNext
<1>6. CASE \E k \in Kinds : VisitsOwner(k)
  BY <1>6, VisitsOwnerImplements
<1>7. CASE VisitsTime
  BY <1>7, VisitsTimeImplements
<1>8. CASE VisitsSort
  BY <1>8, VisitsSortImplements
<1>9. ASSUME NEW k \in Kinds, IndexWorker(k) PROVE UNCHANGED Store!svars
  BY <1>1, <1>9 DEF IndexWorker, IndexCheck, IndexEmpty, IndexTake, IndexApply
<1>10. CASE UNCHANGED vars
  BY <1>1, <1>10 DEF vars
<1> QED BY <1>2, <1>3, <1>4, <1>5, <1>6, <1>7, <1>8, <1>9, <1>10 DEF Next, VisitsWorker

\* The write path of visits implements VisitStore: whatever the interleaving of
\* the handlers and of the three workers, each POST is answered from the visits
\* its predecessors have made, and takes effect once, as a whole, in the order
\* of its thread.
THEOREM Implements == Spec => ImplementsVisitStore
BY InitImplements, NextImplements, InitRefinementInv, NextRefinementInv, PTL
   DEF Spec, ImplementsVisitStore, Store!SSpec
-----------------------------------------------------------------------------
(* What a field is stored from.                                            *)

\* A set of numbers with a bound has a greatest element.
LEMMA GreatestExists ==
  ASSUME NEW S \in SUBSET Nat, S # {}, NEW m \in Nat, \A x \in S : x <= m
  PROVE  \E x \in S : \A y \in S : y <= x
<1> DEFINE Less == OpToRel(<, Nat)
           D == {m - x : x \in S}
<1>1. IsWellFoundedOn(Less, Nat)
  BY NatLessThanWellFounded
<1>2. \A x, y \in Nat : x < y => <<x, y>> \in Less
  BY DEF OpToRel
<1>3. D \subseteq Nat /\ D # {}
  <2>1. \A x \in S : m - x \in Nat
    OBVIOUS
  <2> QED BY <2>1
<1> HIDE DEF Less
<1>4. PICK d \in D : \A y \in D : ~ (<<y, d>> \in Less)
  <2> HIDE DEF D
  <2> QED BY <1>1, <1>3, WFMin
<1>5. PICK x \in S : d = m - x
  BY <1>4
<1>6. ASSUME NEW y \in S PROVE y <= x
  <2>1. m - y \in D /\ m - y \in Nat /\ d \in Nat
    BY <1>3, <1>5
  <2>2. ~ (m - y < d)
    BY <1>2, <1>4, <2>1
  <2> QED BY <1>5, <2>1, <2>2
<1> QED BY <1>5, <1>6

\* The queue of a thread is the end of what it was asked.
QueueLogged ==
  \A t \in Threads :
    /\ Len(requests[t]) <= Len(log[t])
    /\ \A i \in 1 .. Len(requests[t]) :
         requests[t][i] = Body(log[t][Store!Effective(t) + i].post)

WriteInv == RefinementInv /\ QueueLogged /\ LastWriteOfAThread

\* Nothing has been asked, and every field is what was loaded.
LEMMA InitWriteInv == Init => WriteInv
<1> SUFFICES ASSUME Init PROVE WriteInv
  OBVIOUS
<1>1. RefinementInv
  BY InitRefinementInv
<1>2. /\ \A t \in Threads : requests[t] = <<>> /\ log[t] = <<>>
      /\ Seen = Store!LoadedVisits
  BY InitImplements DEF Init, Store!SInit
<1>3. \A t \in Threads : Store!Effective(t) = 0
  BY <1>2 DEF Store!Effective
<1>4. \A t \in Threads : \A v, f : Store!Writes(t, v, f) = {}
  BY <1>3 DEF Store!Writes
<1>5. LastWriteOfAThread
  BY <1>2, <1>4 DEF LastWriteOfAThread, Store!LastWriteOfAThread
<1> QED BY <1>1, <1>2, <1>5 DEF WriteInv, QueueLogged

\* The length of a sequence, as a number.
Count(q) == Len(q)

\* What Append does to a sequence and to its length.
LEMMA Appended ==
  ASSUME NEW S, NEW q \in Seq(S), NEW x
  PROVE  /\ Count(q) \in Nat /\ Count(Append(q, x)) = Count(q) + 1
         /\ \A i \in 1 .. Count(q) : Append(q, x)[i] = q[i]
         /\ Append(q, x)[Count(q) + 1] = x
BY DEF Count

\* How many requests have taken effect, and where they end.
LEMMA EffectiveIs ==
  ASSUME WriteInv, NEW u \in Threads
  PROVE  /\ Count(log[u]) \in Nat /\ Count(requests[u]) \in Nat
         /\ Store!Effective(u) = Count(log[u]) - Count(requests[u])
         /\ Store!Effective(u)' = Count(log'[u]) - Count(requests'[u])
         /\ Store!Effective(u) \in Nat
         /\ Store!Effective(u) + Count(requests[u]) = Count(log[u])
         /\ Store!Effective(u) <= Count(log[u])
<1>1. Count(log[u]) \in Nat /\ Count(requests[u]) \in Nat
  <2>1. log[u] \in Seq(Entry) /\ requests[u] \in Seq(Request)
    BY DEF WriteInv, RefinementInv, TypeOK, RequestsTypeOK
  <2> QED BY <2>1 DEF Count
<1>2. Count(requests[u]) <= Count(log[u])
  BY DEF WriteInv, QueueLogged, Count
<1>3. Store!Effective(u) = Count(log[u]) - Count(requests[u])
  BY DEF Store!Effective, Count
<1>4. Store!Effective(u)' = Count(log'[u]) - Count(requests'[u])
  BY DEF Store!Effective, Count
<1> QED BY <1>1, <1>2, <1>3, <1>4

\* A field is what was loaded if nothing was written, or some thread's last write.
LastOf(v, f) ==
  \/ /\ \A t \in Threads : Store!Writes(t, v, f) = {}
     /\ Seen[v][f] = LoadedVisits[v][f]
  \/ \E t \in Threads :
       Store!Writes(t, v, f) # {} /\ Seen[v][f] = Store!LastWritten(t, v, f)

\* That is what is to be shown of every field.
LEMMA LastWriteIs == LastWriteOfAThread <=> \A v \in VisitIds, f \in Param : LastOf(v, f)
<1>1. Store!LoadedVisits = LoadedVisits /\ Store!Param = Param
  BY DEF Store!LoadedVisits, LoadedVisits, Store!NewVisitItem, NewVisitItem, Store!Param, Param
<1>2. ASSUME NEW v \in VisitIds, NEW f \in Param
      PROVE  LastOf(v, f) <=>
               LET writers == {t \in Threads : Store!Writes(t, v, f) # {}}
               IN  Seen[v][f] \in IF writers = {} THEN {LoadedVisits[v][f]}
                                  ELSE {Store!LastWritten(t, v, f) : t \in writers}
  BY DEF LastOf
<1> QED
  BY <1>1, <1>2 DEF LastWriteOfAThread, Store!LastWriteOfAThread

\* A handler logs what it enqueues, and nothing takes effect.
LEMMA SubmitWrites ==
  ASSUME WriteInv, NEW t \in Threads, NEW p \in Posts,
         insertVisit(t, p) \/ updateVisit(t, p)
  PROVE  QueueLogged' /\ LastWriteOfAThread'
<1>1. /\ requests \in [Threads -> Seq(Request)] /\ log \in [Threads -> Seq(Entry)]
      /\ QueueLogged /\ LastWriteOfAThread
  BY DEF WriteInv, RefinementInv, TypeOK, RequestsTypeOK
<1>2. /\ Seen' = Seen
      /\ requests' = [requests EXCEPT ![t] = Append(@, Body(p))]
  <2>1. TypeOK
    BY DEF WriteInv, RefinementInv
  <2>2. /\ requests' = [requests EXCEPT ![t] = Append(@, Body(p))]
        /\ UNCHANGED <<visits, vecs, pc, item, ops, ipc, racing>>
    BY <2>1, SubmitStep
  <2> QED BY <2>2 DEF Seen
<1>3. PICK e : e.post = p /\ log' = [log EXCEPT ![t] = Append(@, e)]
  BY DEF insertVisit, updateVisit
<1>4. ASSUME NEW u \in Threads
      PROVE  /\ Count(log[u]) <= Count(log'[u])
             /\ Store!Effective(u)' = Store!Effective(u)
             /\ \A i \in 1 .. Count(log[u]) : log'[u][i] = log[u][i]
             /\ \A i \in 1 .. Count(requests[u]) : requests'[u][i] = requests[u][i]
  <2>1. log[u] \in Seq(Entry) /\ requests[u] \in Seq(Request)
    BY <1>1
  <2>2. /\ Store!Effective(u)' = Count(log'[u]) - Count(requests'[u])
        /\ Store!Effective(u) = Count(log[u]) - Count(requests[u])
        /\ Count(log[u]) \in Nat /\ Count(requests[u]) \in Nat
    BY EffectiveIs
  <2>3. CASE u = t
    <3>1. log'[u] = Append(log[u], e) /\ requests'[u] = Append(requests[u], Body(p))
      BY <1>1, <1>2, <1>3, <2>3
    <3>2. /\ Count(Append(log[u], e)) = Count(log[u]) + 1
          /\ \A i \in 1 .. Count(log[u]) : Append(log[u], e)[i] = log[u][i]
          /\ Append(log[u], e)[Count(log[u]) + 1] = e
      BY <2>1, Appended, ZenonT(60)
    <3>3. /\ Count(Append(requests[u], Body(p))) = Count(requests[u]) + 1
          /\ \A i \in 1 .. Count(requests[u]) : Append(requests[u], Body(p))[i] = requests[u][i]
          /\ Append(requests[u], Body(p))[Count(requests[u]) + 1] = Body(p)
      BY <2>1, Appended, ZenonT(60)
    <3>4. Count(log'[u]) = Count(log[u]) + 1 /\ Count(requests'[u]) = Count(requests[u]) + 1
      BY <3>1, <3>2, <3>3
    <3>5. /\ \A i \in 1 .. Count(log[u]) : log'[u][i] = log[u][i]
          /\ \A i \in 1 .. Count(requests[u]) : requests'[u][i] = requests[u][i]
      BY <3>1, <3>2, <3>3
    <3>6. Count(log[u]) <= Count(log'[u]) /\ Store!Effective(u)' = Store!Effective(u)
      BY <2>2, <3>4
    <3> QED BY <3>5, <3>6
  <2>4. CASE u # t
    <3>1. log'[u] = log[u] /\ requests'[u] = requests[u]
      BY <1>1, <1>2, <1>3, <2>4
    <3> QED BY <2>2, <3>1
  <2> QED BY <2>3, <2>4
<1>5. ASSUME NEW u \in Threads
      PROVE  /\ Store!Effective(u) \in Nat /\ Count(log[u]) \in Nat /\ Count(requests[u]) \in Nat
             /\ Store!Effective(u) + Count(requests[u]) = Count(log[u])
             /\ Store!Effective(u) <= Count(log[u])
  BY EffectiveIs
<1>6. ASSUME NEW u \in Threads
      PROVE  /\ Len(requests'[u]) <= Len(log'[u])
             /\ \A i \in 1 .. Len(requests'[u]) :
                  requests'[u][i] = Body(log'[u][Store!Effective(u) + i].post)
  <2>1. CASE u = t
    <3>1. log'[t] = Append(log[t], e) /\ requests'[t] = Append(requests[t], Body(p))
      BY <1>1, <1>2, <1>3
    <3>0. log[t] \in Seq(Entry) /\ requests[t] \in Seq(Request)
      BY <1>1
    <3>6. /\ Count(Append(requests[t], Body(p))) = Count(requests[t]) + 1
          /\ \A i \in 1 .. Count(requests[t]) : Append(requests[t], Body(p))[i] = requests[t][i]
          /\ Append(requests[t], Body(p))[Count(requests[t]) + 1] = Body(p)
      BY <3>0, Appended, ZenonT(60)
    <3>7. /\ Count(Append(log[t], e)) = Count(log[t]) + 1
          /\ \A i \in 1 .. Count(log[t]) : Append(log[t], e)[i] = log[t][i]
          /\ Append(log[t], e)[Count(log[t]) + 1] = e
      BY <3>0, Appended, ZenonT(60)
    <3>5. Count(requests'[t]) = Count(requests[t]) + 1 /\ requests'[t][Count(requests[t]) + 1] = Body(p)
      BY <3>1, <3>6
    <3>2. Count(log'[t]) = Count(log[t]) + 1 /\ log'[t][Count(log[t]) + 1] = e
      BY <3>1, <3>7
    <3>3. ASSUME NEW i \in 1 .. Count(requests'[t])
          PROVE  requests'[t][i] = Body(log'[t][Store!Effective(t) + i].post)
      <4>1. CASE i \in 1 .. Count(requests[t])
        <5>1. Store!Effective(t) + i \in 1 .. Count(log[t])
          BY <1>5, <4>1
        <5>2. requests[t][i] = Body(log[t][Store!Effective(t) + i].post)
          BY <1>1, <4>1 DEF QueueLogged, Count
        <5> QED BY <1>4, <4>1, <5>1, <5>2
      <4>2. CASE i = Count(requests[t]) + 1
        <5>1. Store!Effective(t) + i = Count(log[t]) + 1
          BY <1>5, <4>2
        <5> QED BY <1>3, <3>2, <3>5, <4>2, <5>1
      <4> QED BY <1>5, <3>5, <4>1, <4>2
    <3>4. Count(requests'[t]) <= Count(log'[t])
      BY <1>5, <3>2, <3>5
    <3> QED BY <2>1, <3>3, <3>4 DEF Count
  <2>2. CASE u # t
    BY <1>1, <1>2, <1>3, <2>2 DEF QueueLogged
  <2> QED BY <2>1, <2>2
<1>7. QueueLogged'
  <2>1. \A u \in Threads : Store!Effective(u)' = Store!Effective(u)
    BY <1>4
  <2> QED BY <1>6, <2>1 DEF QueueLogged
<1>8. ASSUME NEW u \in Threads, NEW v \in VisitIds, NEW f \in Param
      PROVE  Store!Writes(u, v, f)' = Store!Writes(u, v, f)
  <2>1. \A i \in 1 .. Store!Effective(u) : log'[u][i] = log[u][i]
    BY <1>4, <1>5
  <2> QED BY <1>4, <2>1 DEF Store!Writes, Store!Target
<1>9. ASSUME NEW u \in Threads, NEW v \in VisitIds, NEW f \in Param,
             Store!Writes(u, v, f) # {}
      PROVE  Store!LastWritten(u, v, f)' = Store!LastWritten(u, v, f)
  <2> DEFINE W == Store!Writes(u, v, f)
             g == CHOOSE i \in W : \A j \in W : j <= i
  <2>1. W \subseteq 1 .. Store!Effective(u)
    BY DEF Store!Writes
  <2>2. g \in W
    <3> HIDE DEF W
    <3>1. W \in SUBSET Nat /\ W # {} /\ \A i \in W : i <= Store!Effective(u)
      BY <1>5, <1>9, <2>1 DEF W
    <3>2. \E i \in W : \A j \in W : j <= i
      BY <1>5, <3>1, GreatestExists
    <3> QED BY <3>2
  <2>3. log'[u][g] = log[u][g]
    <3>1. g \in 1 .. Count(log[u])
      BY <1>5, <2>1, <2>2
    <3> QED BY <1>4, <3>1
  <2>4. Store!Writes(u, v, f)' = W
    BY <1>8
  <2> HIDE DEF W
  <2>5. Store!LastWritten(u, v, f) = Store!Body(log[u][g].post)[f]
    BY DEF W, Store!LastWritten
  <2>6. Store!LastWritten(u, v, f)' = Store!Body(log'[u][g].post)[f]
    BY <2>4 DEF Store!LastWritten, Store!Body, Store!Target
  <2> QED BY <2>3, <2>5, <2>6
<1>10. LastWriteOfAThread'
  <2>1. ASSUME NEW v \in VisitIds, NEW f \in Param
        PROVE  LastOf(v, f)'
    <3>1. LastOf(v, f)
      BY <1>1, LastWriteIs
    <3> QED BY <1>2, <1>8, <1>9, <3>1 DEF LastOf, LoadedVisits
  <2>2. LastWriteOfAThread' <=> (\A v \in VisitIds, f \in Param : LastOf(v, f))'
    BY LastWriteIs, PTL
  <2> QED BY <2>1, <2>2
<1> QED BY <1>7, <1>10

\* What a thread last made of a field is in the latest of its writes of it.
Latest(S) == CHOOSE i \in S : \A j \in S : j <= i

LEMMA LastWrittenIs ==
  \A t \in Threads, v \in VisitIds, f \in Param :
    Store!LastWritten(t, v, f) = Body(log[t][Latest(Store!Writes(t, v, f))].post)[f]
  BY DEF Store!LastWritten, Latest, Store!Body, Body, Store!Target, Target

LEMMA LastWrittenNext ==
  \A t \in Threads, v \in VisitIds, f \in Param :
    Store!LastWritten(t, v, f)' =
      Body(log'[t][Latest(Store!Writes(t, v, f)')].post)[f]
<1>1. (\A t \in Threads, v \in VisitIds, f \in Param :
         Store!LastWritten(t, v, f) = Body(log[t][Latest(Store!Writes(t, v, f))].post)[f])'
  BY LastWrittenIs, PTL
<1> QED BY <1>1

\* The first request of a queue takes effect.
LEMMA TakeWrites ==
  ASSUME WriteInv, NEW t \in Threads, VisitsTake(t)
  PROVE  QueueLogged' /\ LastWriteOfAThread'
<1> DEFINE w == Head(requests[t])
           E == Store!Effective(t)
<1>1. /\ requests \in [Threads -> Seq(Request)] /\ log \in [Threads -> Seq(Entry)]
      /\ QueueLogged /\ LastWriteOfAThread
  BY DEF WriteInv, RefinementInv, TypeOK, RequestsTypeOK
<1>2. /\ requests[t] # <<>> /\ Seen' = [Seen EXCEPT ![w.id] = Overlay(w, Seen[w.id])]
      /\ requests' = [requests EXCEPT ![t] = Tail(@)] /\ log' = log
  <2>1. Store!TakeEffect(t)
    BY VisitsTakeImplements DEF WriteInv
  <2>2. Store!Overlay(w, Seen[w.id]) = Overlay(w, Seen[w.id])
    BY DEF Store!Overlay, Overlay, Store!Param, Param
  <2> QED BY <2>1, <2>2 DEF Store!TakeEffect
<1>3. ASSUME NEW u \in Threads
      PROVE  /\ Store!Effective(u) \in Nat /\ Count(log[u]) \in Nat /\ Count(requests[u]) \in Nat
             /\ Store!Effective(u) + Count(requests[u]) = Count(log[u])
             /\ Store!Effective(u) = Count(log[u]) - Count(requests[u])
             /\ Store!Effective(u)' = Count(log'[u]) - Count(requests'[u])
  BY EffectiveIs
<1>4. /\ Count(requests[t]) > 0 /\ Count(requests'[t]) = Count(requests[t]) - 1
      /\ w = requests[t][1]
      /\ \A i \in 1 .. Count(requests[t]) - 1 : requests'[t][i] = requests[t][i + 1]
  <2>1. requests[t] \in Seq(Request) /\ requests'[t] = Tail(requests[t])
    BY <1>1, <1>2
  <2>2. ASSUME NEW q \in Seq(Request), q # <<>>
        PROVE  /\ Count(q) > 0 /\ Count(Tail(q)) = Count(q) - 1 /\ Head(q) = q[1]
               /\ \A i \in 1 .. Count(q) - 1 : Tail(q)[i] = q[i + 1]
    BY <2>2 DEF Count
  <2> QED BY <1>2, <2>1, <2>2
<1>5. PICK n \in Nat : n = E
  BY <1>3
<1>6. /\ Store!Effective(t)' = n + 1
      /\ \A u \in Threads : u # t => Store!Effective(u)' = Store!Effective(u)
  <2>1. \A u \in Threads : u # t => requests'[u] = requests[u]
    BY <1>1, <1>2
  <2> QED BY <1>2, <1>3, <1>4, <1>5, <2>1
<1>7. QueueLogged'
  <2>1. ASSUME NEW u \in Threads, u # t
        PROVE  /\ Len(requests'[u]) <= Len(log'[u])
               /\ \A i \in 1 .. Len(requests'[u]) :
                    requests'[u][i] = Body(log'[u][Store!Effective(u) + i].post)
    BY <1>1, <1>2, <2>1 DEF QueueLogged
  <2>2. ASSUME NEW i \in 1 .. Count(requests'[t])
        PROVE  requests'[t][i] = Body(log'[t][(n + 1) + i].post)
    <3>1. i \in 1 .. Count(requests[t]) - 1 /\ i + 1 \in 1 .. Count(requests[t])
      BY <1>3, <1>4
    <3>2. requests[t][i + 1] = Body(log[t][n + (i + 1)].post)
      BY <1>1, <1>5, <3>1 DEF QueueLogged, Count
    <3>3. n + (i + 1) = (n + 1) + i
      BY <3>1
    <3> QED BY <1>2, <1>4, <3>1, <3>2, <3>3
  <2>3. Count(requests'[t]) <= Count(log'[t])
    BY <1>2, <1>3, <1>4, <1>5
  <2>4. ASSUME NEW u \in Threads
        PROVE  /\ Len(requests'[u]) <= Len(log'[u])
               /\ \A i \in 1 .. Len(requests'[u]) :
                    requests'[u][i] = Body(log'[u][Store!Effective(u)' + i].post)
    BY <1>6, <2>1, <2>2, <2>3 DEF Count
  <2> QED BY <2>4 DEF QueueLogged
<1>8. PICK e : e = log[t][n + 1]
  OBVIOUS
<1>9. w = Body(e.post) /\ e.post \in Posts
  <2>1. 1 \in 1 .. Count(requests[t]) /\ n + 1 \in 1 .. Count(log[t])
    BY <1>3, <1>4, <1>5
  <2>2. requests[t][1] = Body(log[t][n + 1].post)
    BY <1>1, <1>5, <2>1 DEF QueueLogged, Count
  <2>3. log[t][n + 1] \in Entry
    BY <1>1, <2>1 DEF Count
  <2> QED BY <1>4, <1>8, <2>2, <2>3 DEF Entry
<1>10. w.id = Target(e.post) /\ w.mask = e.post.v.mask /\ w.id \in VisitIds
       /\ w.mask \subseteq Param
  <2>1. Body(e.post) \in Request /\ Body(e.post).mask = e.post.v.mask
    BY <1>9, BodyType
  <2>2. Body(e.post).id = Target(e.post)
    BY <1>9, VisitConstants DEF Body, Post, Visit
  <2> QED BY <1>9, <2>1, <2>2 DEF Request, Visit
<1>11. ASSUME NEW u \in Threads, NEW v \in VisitIds, NEW f \in Param
       PROVE  Store!Writes(u, v, f)' =
                IF u = t /\ v = w.id /\ f \in w.mask
                THEN Store!Writes(u, v, f) \union {n + 1} ELSE Store!Writes(u, v, f)
  <2> DEFINE ToIt(i) == Target(log[u][i].post) = v /\ f \in log[u][i].post.v.mask
  <2>1. Store!Writes(u, v, f) = {i \in 1 .. Store!Effective(u) : ToIt(i)}
    BY DEF Store!Writes, Store!Target, Target
  <2>2. Store!Writes(u, v, f)' = {i \in 1 .. Store!Effective(u)' : ToIt(i)}
    BY <1>2 DEF Store!Writes, Store!Target, Target
  <2>3. u = t => (ToIt(n + 1) <=> v = w.id /\ f \in w.mask)
    BY <1>8, <1>10
  <2> HIDE DEF ToIt
  <2>4. CASE u = t
    <3>1. 1 .. n + 1 = 1 .. n \union {n + 1}
      OBVIOUS
    <3> QED BY <1>5, <1>6, <2>1, <2>2, <2>3, <2>4, <3>1
  <2>5. CASE u # t
    BY <1>6, <2>1, <2>2, <2>5
  <2> QED BY <2>4, <2>5
<1>12. ASSUME NEW u \in Threads, NEW v \in VisitIds, NEW f \in Param,
              Store!Writes(u, v, f)' = Store!Writes(u, v, f)
       PROVE  Store!LastWritten(u, v, f)' = Store!LastWritten(u, v, f)
  BY <1>2, <1>12 DEF Store!LastWritten, Store!Body, Store!Target
<1>13. ASSUME NEW v \in VisitIds, NEW f \in Param
       PROVE  LastOf(v, f)'
  <2>1. CASE v = w.id /\ f \in w.mask
    <3> DEFINE W == Store!Writes(t, v, f)'
    <3>1. n + 1 \in W /\ \A j \in W : j \in Nat /\ j <= n + 1
      <4>1. Store!Writes(t, v, f) \subseteq 1 .. n
        BY <1>5 DEF Store!Writes
      <4> QED BY <1>11, <2>1, <4>1
    <3>2. (CHOOSE i \in W : \A j \in W : j <= i) = n + 1
      <4> HIDE DEF W
      <4>1. PICK g : g = CHOOSE i \in W : \A j \in W : j <= i
        OBVIOUS
      <4>2. g \in W /\ \A j \in W : j <= g
        BY <3>1, <4>1
      <4>3. g <= n + 1 /\ n + 1 <= g /\ g \in Nat
        BY <3>1, <4>2
      <4> QED BY <4>1, <4>3
    <3>3. Store!LastWritten(t, v, f)' = w[f]
      <4>1. Store!LastWritten(t, v, f)' = Body(log[t][n + 1].post)[f]
        <5>1. PICK S : S = W
          OBVIOUS
        <5>2. Store!Writes(t, v, f)' = S /\ (CHOOSE i \in S : \A j \in S : j <= i) = n + 1
          BY <3>2, <5>1
        <5> HIDE DEF W
        <5>3. Latest(Store!Writes(t, v, f)') = n + 1
          BY <5>2 DEF Latest
        <5>4. Store!LastWritten(t, v, f)' = Body(log'[t][n + 1].post)[f]
          BY <2>1, <5>3, LastWrittenNext
        <5> QED BY <1>2, <5>4
      <4> QED BY <1>8, <1>9, <4>1
    <3>4. Seen'[v][f] = w[f]
      <4>1. DOMAIN Seen = VisitIds
        BY DEF Seen
      <4>2. Seen'[v] = Overlay(w, Seen[v])
        BY <1>2, <1>10, <2>1, <4>1
      <4> QED BY <2>1, <4>2 DEF Overlay
    <3>5. Store!Writes(t, v, f)' # {}
      BY <3>1
    <3> QED BY <3>3, <3>4, <3>5 DEF LastOf
  <2>2. CASE ~ (v = w.id /\ f \in w.mask)
    <3>1. LastOf(v, f)
      BY <1>1, LastWriteIs
    <3>2. \A u \in Threads : /\ Store!Writes(u, v, f)' = Store!Writes(u, v, f)
                             /\ Store!LastWritten(u, v, f)' = Store!LastWritten(u, v, f)
      BY <1>11, <1>12, <2>2
    <3>3. Seen'[v][f] = Seen[v][f]
      <4>1. DOMAIN Seen = VisitIds
        BY DEF Seen
      <4>2. CASE v = w.id
        BY <1>2, <1>10, <2>2, <4>1, <4>2 DEF Overlay
      <4>3. CASE v # w.id
        BY <1>2, <4>1, <4>3
      <4> QED BY <4>2, <4>3
    <3> QED BY <3>1, <3>2, <3>3 DEF LastOf, LoadedVisits
  <2> QED BY <2>1, <2>2
<1>14. LastWriteOfAThread'
  <2>1. LastWriteOfAThread' <=> (\A v \in VisitIds, f \in Param : LastOf(v, f))'
    BY LastWriteIs, PTL
  <2> QED BY <1>13, <2>1
<1> QED BY <1>7, <1>14

\* Every step keeps the invariant.
LEMMA NextWriteInv == WriteInv /\ [Next]_vars => WriteInv'
<1> SUFFICES ASSUME WriteInv, [Next]_vars PROVE QueueLogged' /\ LastWriteOfAThread'
  BY NextRefinementInv DEF WriteInv
<1>1. ASSUME UNCHANGED Store!svars PROVE QueueLogged' /\ LastWriteOfAThread'
  <2>1. Seen' = Seen /\ requests' = requests /\ log' = log
    BY <1>1 DEF Store!svars
  <2>2. QueueLogged'
    BY <2>1 DEF WriteInv, QueueLogged, Store!Effective
  <2>3. LastWriteOfAThread'
    <3>1. \A v \in VisitIds, f \in Param : LastOf(v, f)
      BY LastWriteIs DEF WriteInv
    <3>2. \A t \in Threads : Store!Effective(t)' = Store!Effective(t)
      BY <2>1 DEF Store!Effective
    <3>3. \A t \in Threads, v \in VisitIds, f \in Param :
            Store!Writes(t, v, f)' = Store!Writes(t, v, f)
      BY <2>1, <3>2 DEF Store!Writes, Store!Target
    <3>4. \A t \in Threads, v \in VisitIds, f \in Param :
            Store!LastWritten(t, v, f)' = Store!LastWritten(t, v, f)
      BY <2>1, <3>3, LastWrittenIs, LastWrittenNext
    <3>5. (\A v \in VisitIds, f \in Param : LastOf(v, f))'
      BY <2>1, <3>1, <3>3, <3>4 DEF LastOf, LoadedVisits
    <3>6. LastWriteOfAThread' <=> (\A v \in VisitIds, f \in Param : LastOf(v, f))'
      BY LastWriteIs, PTL
    <3> QED BY <3>5, <3>6
  <2> QED BY <2>2, <2>3
<1>2. ASSUME UNCHANGED <<visits, requests, item, log>> PROVE UNCHANGED Store!svars
  BY <1>2 DEF Store!svars, Seen
<1>3. ASSUME NEW t \in Threads, NEW p \in Posts, insertVisit(t, p) \/ updateVisit(t, p)
      PROVE  QueueLogged' /\ LastWriteOfAThread'
  BY <1>3, SubmitWrites
<1>4. ASSUME NEW t \in Threads, VisitsTake(t) PROVE QueueLogged' /\ LastWriteOfAThread'
  BY <1>4, TakeWrites
<1>5. CASE \/ enableWriters \/ disableWriters \/ VisitsCheck \/ VisitsEmpty
           \/ UNCHANGED vars
  BY <1>1, <1>2, <1>5 DEF enableWriters, disableWriters, VisitsCheck, VisitsEmpty, vars
<1>6. CASE \E k \in Kinds : VisitsOwner(k)
  BY <1>1, <1>6, VisitsOwnerImplements DEF WriteInv
<1>7. CASE VisitsTime
  BY <1>1, <1>7, VisitsTimeImplements DEF WriteInv
<1>8. CASE VisitsSort
  BY <1>1, <1>8, VisitsSortImplements DEF WriteInv
<1>9. ASSUME NEW k \in Kinds, IndexWorker(k) PROVE UNCHANGED Store!svars
  BY <1>2, <1>9 DEF IndexWorker, IndexCheck, IndexEmpty, IndexTake, IndexApply
<1> QED BY <1>1, <1>3, <1>4, <1>5, <1>6, <1>7, <1>8, <1>9 DEF Next, VisitsWorker

\* A field of a visit, counted with the request that is being applied, is what
\* some thread wrote to it last, or what was loaded if none did: no request of
\* a thread overtakes another and none is lost, for any number of threads.
THEOREM LastWriteStored == Spec => []LastWriteOfAThread
<1>1. WriteInv => LastWriteOfAThread
  BY DEF WriteInv
<1> QED BY <1>1, InitWriteInv, NextWriteInv, PTL DEF Spec
-----------------------------------------------------------------------------
(***************************************************************************)
(* What can be said of the vectors of visits of the users and locations,   *)
(* each by an inductive invariant of its own:                              *)
(*   - no visit is ever lost from them (Indexed).  It takes that a request *)
(*     which sets the id sets every field, whether it is queued or in the  *)
(*     worker's hands, and that a visit's id is its index: what the worker *)
(*     then enqueues for an owner names the visit it is about;             *)
(*   - what they list can be dereferenced (ReadsValid).  It takes that a   *)
(*     request in flight creates a visit whole or is about a stored one;   *)
(*   - they are sorted or about to be (SortedUnlessPending).  It takes     *)
(*     that they list their owner's visits, so that a new time is followed *)
(*     by a sort of every vector it unsorts, behind whatever it races with;*)
(*   - once the ops are applied, each is its owner's visits, each once, in *)
(*     the order of their times (VectorsExact).  It takes that the ops     *)
(*     queued take every visit, one after the other, from the vector that  *)
(*     lists it to its owner's, and that a vector an entry is erased from  *)
(*     is sorted, by times told apart.                                     *)
(***************************************************************************)

Complete(v) == "id" \in v.mask => v.mask = Param

IdsAreIndices == \A v \in VisitIds : visits[v].id \in {NoId, v}

RequestsComplete ==
  /\ \A t \in Threads : \A i \in DOMAIN requests[t] : Complete(requests[t][i])
  /\ Complete(item)

IndexInv ==
  /\ TypeOK
  /\ IdsAreIndices
  /\ CreatesAreComplete => RequestsComplete
  /\ Indexed
-----------------------------------------------------------------------------
(* Coverage and the queue.                                                 *)

\* Ops enqueued behind the others take nothing out that they do not name.
LEMMA CoveredAppend ==
  ASSUME NEW S, NEW q \in Seq(S), NEW r \in Seq(S), NEW vec, NEW o, NEW v,
         Covered(vec, q, o, v), \A i \in DOMAIN r : r[i] # RemoveOf(o, v)
  PROVE  Covered(vec, q \o r, o, v)
<1> DEFINE a == AddOf(o, v)
           d == RemoveOf(o, v)
<1>1. /\ v \in ToSet(vec) \/ a \in ToSet(q)
      /\ \A i \in DOMAIN q : q[i] = d => \E j \in DOMAIN q : i < j /\ q[j] = a
      /\ \A i \in DOMAIN r : r[i] # d
  BY DEF Covered
<1> HIDE DEF a, d
<1>2. v \in ToSet(vec) \/ a \in ToSet(q \o r)
  BY <1>1, ToSetConcat
<1>3. ASSUME NEW i \in DOMAIN (q \o r), (q \o r)[i] = d
      PROVE  \E j \in DOMAIN (q \o r) : i < j /\ (q \o r)[j] = a
  <2>1. i \in DOMAIN q /\ q[i] = d
    BY <1>1, <1>3
  <2>2. PICK j \in DOMAIN q : i < j /\ q[j] = a
    BY <1>1, <2>1
  <2> QED BY <2>2
<1> QED BY <1>2, <1>3 DEF Covered, a, d

\* An add enqueued last covers its visit, whatever is queued before it.
LEMMA CoveredByAdd ==
  ASSUME NEW S, NEW q \in Seq(S), NEW vec, NEW o, NEW v, AddOf(o, v) \in S
  PROVE  Covered(vec, q \o <<AddOf(o, v)>>, o, v)
<1> DEFINE a == AddOf(o, v)
           d == RemoveOf(o, v)
           n == q \o <<a>>
<1>1. a # d
  BY DEF AddOf, RemoveOf
<1> HIDE DEF a, d
<1>2. n \in Seq(S \union {a}) /\ Len(n) = Len(q) + 1 /\ n[Len(n)] = a
  BY DEF a
<1>3. \A i \in DOMAIN n : n[i] = d => i < Len(n)
  BY <1>1, <1>2
<1>4. Len(n) \in DOMAIN n /\ a \in ToSet(n)
  BY <1>2 DEF ToSet
<1> QED BY <1>2, <1>3, <1>4 DEF Covered, a, d

\* Applying the op at the head of the queue keeps a visit covered.
LEMMA CoveredApply ==
  ASSUME NEW S, NEW q \in Seq(S), q # <<>>, NEW vec, NEW new, NEW o, NEW v,
         Covered(vec, q, o, v),
         Head(q) = AddOf(o, v) => v \in ToSet(new),
         Head(q) # RemoveOf(o, v) /\ v \in ToSet(vec) => v \in ToSet(new)
  PROVE  Covered(new, Tail(q), o, v)
<1> DEFINE a == AddOf(o, v)
           d == RemoveOf(o, v)
           n == Tail(q)
<1>1. /\ v \in ToSet(vec) \/ a \in ToSet(q)
      /\ \A i \in DOMAIN q : q[i] = d => \E j \in DOMAIN q : i < j /\ q[j] = a
      /\ q[1] = a => v \in ToSet(new)
      /\ q[1] # d /\ v \in ToSet(vec) => v \in ToSet(new)
  BY DEF Covered
<1> HIDE DEF a, d
<1>2. /\ Len(n) = Len(q) - 1 /\ n \in Seq(S)
      /\ \A i \in DOMAIN q : i # 1 => i - 1 \in DOMAIN n /\ n[i - 1] = q[i]
      /\ \A i \in DOMAIN n : i + 1 \in DOMAIN q /\ n[i] = q[i + 1]
  OBVIOUS
<1> HIDE DEF n
<1>3. ASSUME NEW i \in DOMAIN q, i # 1, q[i] = a
      PROVE  a \in ToSet(n)
  BY <1>2, <1>3 DEF ToSet
<1>4. v \in ToSet(new) \/ a \in ToSet(n)
  <2>1. CASE q[1] = d
    <3>1. 1 \in DOMAIN q
      OBVIOUS
    <3>2. PICK j \in DOMAIN q : 1 < j /\ q[j] = a
      BY <1>1, <2>1, <3>1
    <3> QED BY <1>3, <3>2
  <2>2. CASE q[1] # d /\ v \in ToSet(vec)
    BY <1>1, <2>2
  <2>3. CASE a \in ToSet(q)
    <3>1. PICK i \in DOMAIN q : q[i] = a
      BY <2>3 DEF ToSet
    <3> QED BY <1>1, <1>3, <3>1
  <2> QED BY <1>1, <2>1, <2>2, <2>3
<1>5. ASSUME NEW i \in DOMAIN n, n[i] = d
      PROVE  \E j \in DOMAIN n : i < j /\ n[j] = a
  <2>1. i + 1 \in DOMAIN q /\ q[i + 1] = d
    BY <1>2, <1>5
  <2>2. PICK j \in DOMAIN q : i + 1 < j /\ q[j] = a
    BY <1>1, <2>1
  <2>3. j - 1 \in DOMAIN n /\ n[j - 1] = a /\ i < j - 1
    BY <1>2, <2>2
  <2> QED BY <2>3
<1> QED BY <1>4, <1>5 DEF Covered, a, d, n

-----------------------------------------------------------------------------
(* The invariant.                                                          *)

\* The invariant holds of the loaded storage.
LEMMA InitIndexInv == Init => IndexInv
<1> SUFFICES ASSUME Init PROVE IndexInv
  OBVIOUS
<1>1. TypeOK
  BY InitTypeOK
<1>2. visits = LoadedVisits /\ IdsAreIndices
  BY LoadedVisitsType DEF Init, IdsAreIndices
<1>3. RequestsComplete
  BY DEF Init, RequestsComplete, Complete, BlankVisit
<1>4. ASSUME NEW k \in Kinds, NEW v \in VisitIds,
             visits[v].id # NoId, visits[v][k] # NoId
      PROVE  Covered(vecs[k][visits[v][k]], ops[k], visits[v][k], v)
  <2> DEFINE o == visits[v][k]
  <2>1. o \in Owners(k)
    BY <1>1, <1>4, FieldType DEF TypeOK, VisitsTypeOK
  <2>2. PICK byUser \in LoadedVectors(visits, "user_id"),
             byLocation \in LoadedVectors(visits, "location_id") :
               vecs = [j \in Kinds |-> IF j = "user_id" THEN byUser ELSE byLocation]
    BY DEF Init
  <2>3. vecs[k] \in LoadedVectors(LoadedVisits, k)
    BY <1>2, <2>2 DEF Kinds
  <2>4. ToSet(vecs[k][o]) = VisitsOf(visits, k, o)
    BY <1>2, <2>1, <2>3, LoadedVectorsType
  <2>5. v \in ToSet(vecs[k][o])
    BY <1>4, <2>4 DEF VisitsOf
  <2>6. ops[k] = <<>>
    BY DEF Init
  <2> QED BY <2>5, <2>6 DEF Covered
<1>5. Indexed
  BY <1>4 DEF Indexed
<1> QED BY <1>1, <1>2, <1>3, <1>5 DEF IndexInv

\* A step that leaves the visits, the vectors and the ops alone, and the worker
\* where it creates what it was creating, keeps every visit covered.
LEMMA IndexedFrame ==
  ASSUME Indexed, UNCHANGED <<visits, vecs, ops>>,
         \A k \in Kinds, v \in VisitIds : Creating(k, v) => Creating(k, v)'
  PROVE  Indexed'
BY DEF Indexed

\* A handler enqueues a body that is complete if it sets the id.
LEMMA SubmitIndexInv ==
  ASSUME IndexInv, NEW t \in Threads, NEW p \in Posts,
         insertVisit(t, p) \/ updateVisit(t, p)
  PROVE  IndexInv'
<1>1. TypeOK /\ TypeOK'
  BY SubmitTypeOK DEF IndexInv
<1>2. /\ Body(p) \in Request
      /\ requests' = [requests EXCEPT ![t] = Append(@, Body(p))]
      /\ UNCHANGED <<visits, vecs, pc, item, ops, ipc, racing>>
  BY <1>1, SubmitStep
<1>3. CreatesAreComplete => RequestsComplete'
  <2> SUFFICES ASSUME CreatesAreComplete PROVE RequestsComplete'
    OBVIOUS
  <2>1. Complete(Body(p))
    BY BodyType DEF CreatesAreComplete, Complete
  <2>2. ASSUME NEW u \in Threads, NEW i \in DOMAIN requests'[u]
        PROVE  Complete(requests'[u][i])
    <3>1. /\ requests \in [Threads -> Seq(Request)]
          /\ \A j \in DOMAIN requests[u] : Complete(requests[u][j])
      BY <1>1 DEF IndexInv, TypeOK, RequestsTypeOK, RequestsComplete
    <3>2. requests'[u] = IF u = t THEN Append(requests[u], Body(p)) ELSE requests[u]
      BY <1>2, <3>1
    <3>3. i \in DOMAIN requests[u] \/ requests'[u][i] = Body(p)
      BY <3>1, <3>2
    <3>4. i \in DOMAIN requests[u] => requests'[u][i] = requests[u][i]
      BY <3>1, <3>2
    <3> QED BY <2>1, <3>1, <3>3, <3>4
  <2>3. Complete(item')
    BY <1>2 DEF IndexInv, RequestsComplete
  <2> QED BY <2>2, <2>3 DEF RequestsComplete, Complete
<1>4. IdsAreIndices'
  BY <1>2 DEF IndexInv, IdsAreIndices
<1>5. Indexed'
  BY <1>2, IndexedFrame DEF IndexInv, Creating
<1> QED BY <1>1, <1>3, <1>4, <1>5 DEF IndexInv

\* What taking a request makes of the ids and the owners of the visits.
LEMMA VisitsTakeFields ==
  ASSUME TypeOK, NEW t \in Threads, VisitsTake(t)
  PROVE  LET w == Head(requests[t])
         IN  \A v \in VisitIds :
               /\ \A k \in Kinds : visits'[v][k] = visits[v][k]
               /\ visits'[v].id = IF v = w.id /\ "id" \in w.mask THEN w.id ELSE visits[v].id
<1> DEFINE w == Head(requests[t])
           it == visits[w.id]
           new == [it EXCEPT !.id   = IF "id"   \in w.mask THEN w.id   ELSE @,
                             !.mark = IF "mark" \in w.mask THEN w.mark ELSE @]
<1>1. w \in Request /\ w.id \in VisitIds
  <2>1. requests[t] \in Seq(Request) /\ requests[t] # <<>>
    BY DEF TypeOK, RequestsTypeOK, VisitsTake
  <2> QED BY <2>1 DEF Request
<1>2. it \in VisitItem /\ visits \in [VisitIds -> VisitItem]
  BY <1>1 DEF TypeOK, VisitsTypeOK
<1>3. visits' = [visits EXCEPT ![w.id] = new]
  BY DEF VisitsTake
<1> HIDE DEF w
<1>4. /\ new.id = IF "id" \in w.mask THEN w.id ELSE it.id
      /\ new.user_id = it.user_id /\ new.location_id = it.location_id
  BY <1>2 DEF VisitItem
<1> HIDE DEF new
<1>5. \A v \in VisitIds :
        /\ \A k \in Kinds : visits'[v][k] = visits[v][k]
        /\ visits'[v].id = IF v = w.id /\ "id" \in w.mask THEN w.id ELSE visits[v].id
  BY <1>1, <1>2, <1>3, <1>4 DEF Kinds
<1> QED BY <1>5 DEF w

\* Taking a request, and inserting a visit that is new.
LEMMA VisitsTakeIndexInv ==
  ASSUME IndexInv, NEW t \in Threads, VisitsTake(t)
  PROVE  IndexInv'
<1> DEFINE w == Head(requests[t])
<1>1. TypeOK /\ TypeOK'
  BY VisitsTakeTypeOK DEF IndexInv
<1>2. /\ requests[t] \in Seq(Request) /\ requests[t] # <<>>
      /\ w \in Request /\ w.id \in VisitIds
  BY <1>1 DEF TypeOK, RequestsTypeOK, VisitsTake, Request
<1>3. /\ item' = w /\ pc = "dequeue" /\ pc' = "user_id"
      /\ requests' = [requests EXCEPT ![t] = Tail(@)]
      /\ UNCHANGED <<vecs, ops>>
  BY DEF VisitsTake
<1>4. \A v \in VisitIds :
        /\ \A k \in Kinds : visits'[v][k] = visits[v][k]
        /\ visits'[v].id = IF v = w.id /\ "id" \in w.mask THEN w.id ELSE visits[v].id
  BY <1>1, VisitsTakeFields
<1> HIDE DEF w
<1>5. IdsAreIndices'
  BY <1>4 DEF IndexInv, IdsAreIndices, Kinds
<1>6. CreatesAreComplete => RequestsComplete'
  <2> SUFFICES ASSUME CreatesAreComplete PROVE RequestsComplete'
    OBVIOUS
  <2>1. \A u \in Threads : \A i \in DOMAIN requests[u] : Complete(requests[u][i])
    BY DEF IndexInv, RequestsComplete
  <2>2. Complete(item')
    BY <1>2, <1>3, <2>1 DEF w
  <2>3. ASSUME NEW u \in Threads, NEW i \in DOMAIN requests'[u]
        PROVE  Complete(requests'[u][i])
    <3>1. CASE u = t
      <4>1. requests'[u] = Tail(requests[t])
        BY <1>1, <1>3, <3>1 DEF TypeOK, RequestsTypeOK
      <4>2. i + 1 \in DOMAIN requests[t] /\ requests'[u][i] = requests[t][i + 1]
        BY <1>2, <4>1
      <4> QED BY <2>1, <4>2
    <3>2. CASE u # t
      <4>1. requests'[u] = requests[u]
        BY <1>1, <1>3, <3>2 DEF TypeOK, RequestsTypeOK
      <4> QED BY <2>1, <4>1
    <3> QED BY <3>1, <3>2
  <2> QED BY <2>2, <2>3 DEF RequestsComplete, Complete
<1>7. Indexed'
  <2> SUFFICES ASSUME CreatesAreComplete, NEW k \in Kinds, NEW v \in VisitIds,
                      visits'[v].id # NoId, visits'[v][k] # NoId, ~ Creating(k, v)'
               PROVE  Covered(vecs'[k][visits'[v][k]], ops'[k], visits'[v][k], v)
    BY DEF Indexed
  <2>1. ~ (v = w.id /\ "id" \in w.mask)
    BY <1>3 DEF Creating
  <2>2. visits[v].id # NoId /\ visits[v][k] # NoId /\ ~ Creating(k, v)
    BY <1>3, <1>4, <2>1 DEF Creating, Kinds
  <2>3. Covered(vecs[k][visits[v][k]], ops[k], visits[v][k], v)
    BY <2>2 DEF IndexInv, Indexed
  <2> QED BY <1>3, <1>4, <2>3
<1> QED BY <1>1, <1>5, <1>6, <1>7 DEF IndexInv

\* The owner named by a request is covered once the worker is past its field.
LEMMA VisitsOwnerIndexInv ==
  ASSUME IndexInv, NEW k \in Kinds, VisitsOwner(k)
  PROVE  IndexInv'
<1> DEFINE u == item.id
           it == visits[u]
           r == OpIf(it[k], "remove", it.id)
           a == OpIf(item[k], "add", it.id)
<1>1. TypeOK /\ TypeOK'
  BY VisitsOwnerTypeOK DEF IndexInv
<1>2. /\ u \in VisitIds /\ pc = k /\ pc' = NextField(k)
      /\ UNCHANGED <<vecs, requests, item>>
  BY <1>1, HeldRequest DEF VisitsOwner, Kinds
<1>3. CreatesAreComplete => RequestsComplete'
  BY <1>2 DEF IndexInv, RequestsComplete, Complete
<1>4. \A j \in Kinds, v \in VisitIds :
        Creating(j, v)' <=> Creating(j, v) /\ j # k
  BY <1>2 DEF Creating, NextField, Kinds
<1>5. CASE k \notin item.mask
  <2>1. UNCHANGED <<visits, ops>>
    BY <1>5 DEF VisitsOwner
  <2>2. CreatesAreComplete => \A v \in VisitIds : ~ Creating(k, v)
    BY <1>5 DEF IndexInv, RequestsComplete, Complete, Creating, Param, Kinds
  <2>3. Indexed'
    BY <1>2, <1>4, <2>1, <2>2 DEF IndexInv, Indexed
  <2> QED BY <1>1, <1>3, <2>1, <2>3 DEF IndexInv, IdsAreIndices
<1>6. CASE k \in item.mask
  <2>1. /\ it \in VisitItem
        /\ item[k] \in Owners(k) \union {NoId}
        /\ r \in Seq(Op(k)) /\ a \in Seq(Op(k))
        /\ visits' = [visits EXCEPT ![u] = [it EXCEPT ![k] = item[k]]]
        /\ ops' = [ops EXCEPT ![k] = (ops[k] \o r) \o a]
    BY <1>1, <1>6, VisitsOwnerStep
  <2>2. \A v \in VisitIds, j \in Kinds :
          /\ visits'[v].id = visits[v].id
          /\ visits'[v][j] = IF v = u /\ j = k THEN item[k] ELSE visits[v][j]
    BY <1>1, <1>2, <2>1 DEF TypeOK, VisitsTypeOK, VisitItem, Kinds
  <2>3. IdsAreIndices'
    BY <2>2 DEF IndexInv, IdsAreIndices
  <2>4. Indexed'
    <3> SUFFICES ASSUME CreatesAreComplete, NEW j \in Kinds, NEW v \in VisitIds,
                        visits'[v].id # NoId, visits'[v][j] # NoId, ~ Creating(j, v)'
                 PROVE  Covered(vecs'[j][visits'[v][j]], ops'[j], visits'[v][j], v)
      BY DEF Indexed
    <3> DEFINE o == visits'[v][j]
    <3>1. DOMAIN ops = Kinds /\ ops[k] \in Seq(Op(k))
      BY <1>1 DEF TypeOK, IndexTypeOK
    <3>2. CASE j # k
      <4>1. ~ Creating(j, v) /\ visits[v].id # NoId /\ visits[v][j] = o
        BY <1>4, <2>2, <3>2
      <4>2. ops'[j] = ops[j] /\ vecs'[j] = vecs[j]
        BY <1>2, <2>1, <3>1, <3>2
      <4> QED BY <4>1, <4>2 DEF IndexInv, Indexed
    <3>3. CASE j = k /\ v # u
      <4>1. it.id # v
        BY <1>2, <3>3, BlankVisitType DEF IndexInv, IdsAreIndices
      <4>2. ~ Creating(k, v) /\ visits[v].id # NoId /\ visits[v][k] = o
        BY <1>4, <2>2, <3>3 DEF Creating
      <4>3. Covered(vecs[k][o], ops[k], o, v)
        BY <3>3, <4>2 DEF IndexInv, Indexed
      <4>4. /\ \A i \in DOMAIN r : r[i] # RemoveOf(o, v)
            /\ \A i \in DOMAIN a : a[i] # RemoveOf(o, v)
        BY <4>1 DEF OpIf, RemoveOf
      <4>5. Covered(vecs[k][o], ops[k] \o r, o, v) /\ ops[k] \o r \in Seq(Op(k))
        <5>1. PICK vec, q, s : vec = vecs[k][o] /\ q = ops[k] /\ s = r
          OBVIOUS
        <5>2. q \in Seq(Op(k)) /\ s \in Seq(Op(k))
          BY <2>1, <3>1, <5>1
        <5>3. Covered(vec, q, o, v) /\ \A i \in DOMAIN s : s[i] # RemoveOf(o, v)
          BY <4>3, <4>4, <5>1
        <5>4. Covered(vec, q \o s, o, v)
          BY <5>2, <5>3, CoveredAppend
        <5>5. q \o s \in Seq(Op(k))
          BY <5>2
        <5> QED BY <5>1, <5>4, <5>5
      <4>6. Covered(vecs[k][o], (ops[k] \o r) \o a, o, v)
        BY <2>1, <4>4, <4>5, CoveredAppend
      <4>7. ops'[k] = (ops[k] \o r) \o a
        BY <2>1, <3>1
      <4> QED BY <1>2, <3>3, <4>6, <4>7
    <3>4. CASE j = k /\ v = u
      <4>1. it.id = u /\ o = item[k] /\ o # NoId
        BY <2>2, <3>4 DEF IndexInv, IdsAreIndices
      <4>2. a = <<AddOf(o, u)>>
        BY <4>1 DEF OpIf, AddOf
      <4>3. AddOf(o, u) \in Op(k)
        BY <1>2, <2>1, <4>1 DEF Op, AddOf, VisitRefs
      <4>4. ops[k] \o r \in Seq(Op(k))
        BY <2>1, <3>1
      <4>5. Covered(vecs[k][o], (ops[k] \o r) \o a, o, u)
        BY <4>2, <4>3, <4>4, CoveredByAdd
      <4>6. ops'[k] = (ops[k] \o r) \o a
        BY <2>1, <3>1
      <4> QED BY <1>2, <3>4, <4>5, <4>6
    <3> QED BY <3>2, <3>3, <3>4
  <2> QED BY <1>1, <1>3, <2>3, <2>4 DEF IndexInv
<1> QED BY <1>5, <1>6

\* The change of visited_at leaves every vector the visits it has.
LEMMA VisitsTimeIndexInv ==
  ASSUME IndexInv, VisitsTime
  PROVE  IndexInv'
<1>1. TypeOK /\ TypeOK'
  BY VisitsTimeTypeOK DEF IndexInv
<1>2. pc = "visited_at" /\ pc' = "sort" /\ UNCHANGED <<vecs, requests, item, ops>>
  BY DEF VisitsTime
<1>3. \A v \in VisitIds, k \in Kinds :
        visits'[v].id = visits[v].id /\ visits'[v][k] = visits[v][k]
  BY <1>1 DEF VisitsTime, TypeOK, VisitsTypeOK, VisitItem, Kinds
<1>4. IdsAreIndices'
  BY <1>3 DEF IndexInv, IdsAreIndices, Kinds
<1>5. CreatesAreComplete => RequestsComplete'
  BY <1>2 DEF IndexInv, RequestsComplete, Complete
<1>6. Indexed'
  BY <1>2, <1>3 DEF IndexInv, Indexed, Creating, Kinds
<1> QED BY <1>1, <1>4, <1>5, <1>6 DEF IndexInv

\* Sorting permutes a vector.
LEMMA VisitsSortIndexInv ==
  ASSUME IndexInv, VisitsSort
  PROVE  IndexInv'
<1>1. TypeOK /\ TypeOK'
  BY VisitsSortTypeOK DEF IndexInv
<1>2. /\ pc = "sort" /\ pc' = "loop" /\ item' = BlankVisit
      /\ UNCHANGED <<visits, vecs, requests>>
  BY DEF VisitsSort
<1>3. IdsAreIndices'
  BY <1>2 DEF IndexInv, IdsAreIndices
<1>4. CreatesAreComplete => RequestsComplete'
  BY <1>2 DEF IndexInv, RequestsComplete, Complete, BlankVisit
<1>5. Indexed'
  <2> SUFFICES ASSUME CreatesAreComplete, NEW k \in Kinds, NEW v \in VisitIds,
                      visits[v].id # NoId, visits[v][k] # NoId
               PROVE  Covered(vecs[k][visits[v][k]], ops'[k], visits[v][k], v)
    BY <1>2 DEF Indexed
  <2> DEFINE o == visits[v][k]
  <2>1. Covered(vecs[k][o], ops[k], o, v)
    BY <1>2 DEF IndexInv, Indexed, Creating, Kinds
  <2>2. CASE "visited_at" \in item.mask
    <3> DEFINE r == OpIf(visits[item.id][k], "sort", visits[item.id].id)
    <3>1. r \in Seq(Op(k)) /\ ops'[k] = ops[k] \o r
      BY <1>1, <2>2, VisitsSortStep
    <3>2. ops[k] \in Seq(Op(k))
      BY <1>1 DEF TypeOK, IndexTypeOK
    <3>3. \A i \in DOMAIN r : r[i] # RemoveOf(o, v)
      BY DEF OpIf, RemoveOf
    <3> QED BY <2>1, <3>1, <3>2, <3>3, CoveredAppend
  <2>3. CASE "visited_at" \notin item.mask
    BY <2>1, <2>3 DEF VisitsSort
  <2> QED BY <2>2, <2>3
<1> QED BY <1>1, <1>3, <1>4, <1>5 DEF IndexInv

\* An index worker applies the op at the head of its queue.
LEMMA IndexApplyIndexInv ==
  ASSUME IndexInv, NEW k \in Kinds, IndexApply(k)
  PROVE  IndexInv'
<1> DEFINE op == Head(ops[k])
           vec == vecs[k][op.owner]
<1>1. TypeOK /\ TypeOK'
  BY IndexApplyTypeOK DEF IndexInv
<1>2. UNCHANGED <<visits, requests, pc, item>>
  BY DEF IndexApply
<1>3. IdsAreIndices' /\ (CreatesAreComplete => RequestsComplete')
  BY <1>2 DEF IndexInv, IdsAreIndices, RequestsComplete, Complete
<1>4. /\ op \in Op(k) /\ op.owner \in Owners(k) /\ ops[k] # <<>>
      /\ ops' = [ops EXCEPT ![k] = Tail(ops[k])]
      /\ vec \in Seq(VisitRefs)
  BY <1>1, IndexApplyStep
<1>5. PICK new \in Applied(k, op, vec) : vecs' = [vecs EXCEPT ![k][op.owner] = new]
  BY <1>1, IndexApplyStep
<1>6. /\ op.act = "add" => ToSet(new) = ToSet(vec) \union {op.vid}
      /\ op.act = "remove" => ToSet(vec) \ {op.vid} \subseteq ToSet(new)
      /\ op.act = "sort" => ToSet(new) = ToSet(vec)
      /\ op.act \in {"add", "remove", "sort"}
  BY <1>1, <1>4, <1>5, AppliedType DEF Op
<1>7. /\ DOMAIN vecs = Kinds /\ DOMAIN ops = Kinds
      /\ vecs[k] \in [Owners(k) -> Seq(VisitRefs)] /\ ops[k] \in Seq(Op(k))
  BY <1>1 DEF TypeOK, VectorsTypeOK, IndexTypeOK
<1>8. Indexed'
  <2> SUFFICES ASSUME CreatesAreComplete, NEW j \in Kinds, NEW v \in VisitIds,
                      visits[v].id # NoId, visits[v][j] # NoId, ~ Creating(j, v)
               PROVE  Covered(vecs'[j][visits[v][j]], ops'[j], visits[v][j], v)
    BY <1>2 DEF Indexed, Creating
  <2> DEFINE o == visits[v][j]
  <2>1. Covered(vecs[j][o], ops[j], o, v)
    BY DEF IndexInv, Indexed
  <2>2. CASE j # k
    BY <1>4, <1>5, <1>7, <2>1, <2>2
  <2>3. CASE j = k
    <3>1. o \in Owners(k)
      BY <1>1, <2>3, FieldType DEF TypeOK, VisitsTypeOK
    <3>2. vecs'[k][o] = IF o = op.owner THEN new ELSE vecs[k][o]
      BY <1>5, <1>7, <3>1
    <3>3. op = AddOf(o, v) => v \in ToSet(vecs'[k][o])
      BY <1>6, <3>2 DEF AddOf
    <3>4. op # RemoveOf(o, v) /\ v \in ToSet(vecs[k][o]) => v \in ToSet(vecs'[k][o])
      <4>1. CASE o # op.owner
        BY <3>2, <4>1
      <4>2. CASE o = op.owner /\ op.act = "remove" /\ op.vid = v
        <5>1. op = RemoveOf(o, v)
          BY <1>4, <4>2 DEF Op, RemoveOf
        <5> QED BY <5>1
      <4>3. CASE o = op.owner /\ ~ (op.act = "remove" /\ op.vid = v)
        BY <1>6, <3>2, <4>3
      <4> QED BY <4>1, <4>2, <4>3
    <3>5. ops'[k] = Tail(ops[k])
      BY <1>4, <1>7
    <3> QED BY <1>4, <1>7, <2>1, <2>3, <3>3, <3>4, <3>5, CoveredApply
  <2> QED BY <2>2, <2>3
<1> QED BY <1>1, <1>3, <1>8 DEF IndexInv

\* Every step keeps the invariant.
LEMMA NextIndexInv == IndexInv /\ [Next]_vars => IndexInv'
<1> SUFFICES ASSUME IndexInv, [Next]_vars PROVE IndexInv'
  OBVIOUS
<1>1. TypeOK'
  BY NextTypeOK DEF IndexInv
<1>2. ASSUME UNCHANGED <<visits, vecs, ops, requests, item>>,
             \A k \in Kinds, v \in VisitIds : Creating(k, v) => Creating(k, v)'
      PROVE  IndexInv'
  BY <1>1, <1>2, IndexedFrame
     DEF IndexInv, IdsAreIndices, RequestsComplete, Complete
<1>3. CASE \E t \in Threads, p \in Posts : insertVisit(t, p) \/ updateVisit(t, p)
  BY <1>3, SubmitIndexInv
<1>4. CASE enableWriters \/ disableWriters
  BY <1>2, <1>4 DEF enableWriters, disableWriters, Creating
<1>5. CASE VisitsCheck \/ VisitsEmpty
  BY <1>2, <1>5 DEF VisitsCheck, VisitsEmpty, Creating, Kinds
<1>6. CASE \E t \in Threads : VisitsTake(t)
  BY <1>6, VisitsTakeIndexInv
<1>7. CASE \E k \in Kinds : VisitsOwner(k)
  BY <1>7, VisitsOwnerIndexInv
<1>8. CASE VisitsTime
  BY <1>8, VisitsTimeIndexInv
<1>9. CASE VisitsSort
  BY <1>9, VisitsSortIndexInv
<1>10. ASSUME NEW k \in Kinds, IndexCheck(k) \/ IndexEmpty(k) \/ IndexTake(k)
       PROVE  IndexInv'
  BY <1>2, <1>10 DEF IndexCheck, IndexEmpty, IndexTake, Creating
<1>11. CASE \E k \in Kinds : IndexApply(k)
  BY <1>11, IndexApplyIndexInv
<1>12. CASE UNCHANGED vars
  BY <1>2, <1>12 DEF vars, Creating
<1> QED BY <1>3, <1>4, <1>5, <1>6, <1>7, <1>8, <1>9, <1>10, <1>11, <1>12
        DEF Next, VisitsWorker, IndexWorker

\* A visit that names a user and a location is in the vectors of both, or the
\* op that puts it there is still queued: for any number of requests, moving
\* and re-timing the visits in any order, and whatever the comparators see.
THEOREM AlwaysIndexed == Spec => []Indexed
<1>1. IndexInv => Indexed
  BY DEF IndexInv
<1> QED BY <1>1, InitIndexInv, NextIndexInv, PTL DEF Spec

-----------------------------------------------------------------------------
(* What the GET handlers may dereference without a test.  As long as every *)
(* POST was answered 200 and named its owners, a request that creates no   *)
(* visit is about one that is stored, so that whatever is listed, or about *)
(* to be, is a stored visit with its owners.                               *)

AllAnswered == \A e \in Logged : e.code = 200 /\ NamesOwners(e.post)

Valid(w) ==
  /\ IF "id" \in w.mask THEN w.mask = Param ELSE visitExists(w.id)
  /\ \A k \in Kinds : k \in w.mask => w[k] # NoId

QueuedValid ==
  \A t \in Threads : \A i \in DOMAIN requests[t] : Valid(requests[t][i])

RequestsValid ==
  /\ QueuedValid
  /\ pc \notin {"loop", "dequeue"} => Valid(item) /\ visitExists(item.id)

\* A visit whose field is yet to be written has no owner of that kind.
StoredOwned ==
  \A v \in VisitIds : visits[v].id # NoId =>
    \A k \in Kinds : visits[v][k] # NoId \/ Creating(k, v)

Readable(v) ==
  /\ visitExists(v)
  /\ visits[v].user_id # NoId
  /\ visits[v].location_id # NoId \/ (item.id = v /\ pc = "location_id")

ListedReadable ==
  \A k \in Kinds : \A o \in Owners(k) : \A v \in ToSet(vecs[k][o]) : Readable(v)

AddedReadable ==
  \A k \in Kinds : \A op \in ToSet(ops[k]) : op.act = "add" => Readable(op.vid)

ReadParts == RequestsValid /\ StoredOwned /\ ListedReadable /\ AddedReadable

ReadInv == TypeOK /\ IdsAreIndices /\ (AllAnswered => ReadParts)

\* The loaded visits have their owners, and the vectors list nothing else.
LEMMA InitReadInv == Init => ReadInv
<1> SUFFICES ASSUME Init PROVE ReadInv
  OBVIOUS
<1>1. TypeOK /\ IdsAreIndices
  BY InitIndexInv DEF IndexInv
<1>2. ASSUME NEW v \in VisitIds, visits[v].id # NoId
      PROVE  visits[v].user_id # NoId /\ visits[v].location_id # NoId
  BY <1>2, VisitConstants DEF Init, LoadedVisits, NewVisitItem
<1>3. RequestsValid
  BY DEF Init, RequestsValid, QueuedValid
<1>4. StoredOwned
  BY <1>2 DEF StoredOwned, Kinds
<1>5. ListedReadable /\ AddedReadable
  <2>1. PICK byUser \in LoadedVectors(visits, "user_id"),
             byLocation \in LoadedVectors(visits, "location_id") :
               vecs = [j \in Kinds |-> IF j = "user_id" THEN byUser ELSE byLocation]
    BY DEF Init
  <2>2. ASSUME NEW k \in Kinds, NEW o \in Owners(k), NEW v \in ToSet(vecs[k][o])
        PROVE  Readable(v)
    <3>1. vecs[k] \in LoadedVectors(LoadedVisits, k) /\ visits = LoadedVisits
      BY <2>1 DEF Kinds, Init
    <3>2. v \in VisitsOf(visits, k, o)
      BY <2>2, <3>1, LoadedVectorsType
    <3> QED BY <1>2, <3>2 DEF VisitsOf, Readable, visitExists
  <2>3. ASSUME NEW k \in Kinds
        PROVE  ToSet(ops[k]) = {}
    BY DEF Init, ToSet
  <2> QED BY <2>2, <2>3 DEF ListedReadable, AddedReadable
<1> QED BY <1>1, <1>3, <1>4, <1>5 DEF ReadInv, ReadParts

\* A request stays valid, and what is listed readable, as long as no visit is
\* taken out and no owner of one that is listed.
LEMMA PartsKept ==
  ASSUME ReadParts, TypeOK, UNCHANGED vecs,
         \A v \in VisitIds : visits[v].id # NoId => visits'[v].id # NoId,
         \A v \in VisitIds : Readable(v) => Readable(v)'
  PROVE  /\ \A w : Valid(w) => Valid(w)'
         /\ UNCHANGED requests => QueuedValid'
         /\ ListedReadable'
         /\ UNCHANGED ops => AddedReadable'
<1>1. \A w : Valid(w) => Valid(w)'
  BY DEF Valid, visitExists
<1>2. \A v : Readable(v) => v \in VisitIds
  BY DEF Readable, visitExists
<1>3. UNCHANGED requests => QueuedValid'
  BY <1>1 DEF ReadParts, RequestsValid, QueuedValid
<1>4. ListedReadable'
  BY <1>2 DEF ReadParts, ListedReadable
<1>5. UNCHANGED ops => AddedReadable'
  BY <1>2 DEF ReadParts, AddedReadable
<1> QED BY <1>1, <1>3, <1>4, <1>5

\* What a handler logs; a request that is answered 200, and names its owners,
\* is valid.
LEMMA SubmitLogged ==
  ASSUME TypeOK, NEW t \in Threads, NEW p \in Posts,
         insertVisit(t, p) \/ updateVisit(t, p)
  PROVE  \E e \in Entry :
           /\ e.post = p /\ Logged' = Logged \union {e}
           /\ e.code = 200 => IF "id" \in p.v.mask THEN p.v.mask = Param
                              ELSE visitExists(Target(p))
           /\ e.code = 200 /\ NamesOwners(p) => Valid(Body(p))
<1> DEFINE made == IF visitExists(p.entity_id) \/ p.v.mask # Param THEN 400 ELSE 200
           changed == IF ~ visitExists(p.entity_id) THEN 404
                      ELSE IF "id" \in p.v.mask THEN 400 ELSE 200
           code == IF p.entity_id = NoId THEN made ELSE changed
           x == [post |-> p, code |-> code]
<1>1. log' = [log EXCEPT ![t] = Append(@, x)]
  BY DEF insertVisit, updateVisit
<1>2. /\ code = 200 => IF "id" \in p.v.mask THEN p.v.mask = Param
                       ELSE visitExists(Target(p))
      /\ code = 200 /\ NamesOwners(p) => Valid(Body(p))
  <2>1. /\ Body(p).mask = p.v.mask /\ Body(p).id = Target(p)
        /\ \A k \in Kinds : Body(p)[k] = p.v[k]
    BY BodyType, VisitConstants DEF Body, Post, Visit, Kinds
  <2> HIDE DEF x
  <2>2. code = 200 => IF "id" \in p.v.mask THEN p.v.mask = Param ELSE visitExists(Target(p))
    <3>1. CASE p.entity_id = NoId
      BY <3>1 DEF Param
    <3>2. CASE p.entity_id # NoId
      BY <3>2 DEF Target
    <3> QED BY <3>1, <3>2
  <2> HIDE DEF code
  <2> QED BY <2>1, <2>2 DEF Valid, NamesOwners
<1>3. x \in Entry /\ x.post = p /\ x.code = code
  BY DEF Entry
<1> HIDE DEF x, code
<1>4. PICK e \in Entry : e = x /\ log' = [log EXCEPT ![t] = Append(@, x)]
  BY <1>1, <1>3
<1>5. Logged' = Logged \union {e}
  <2>1. /\ log \in [Threads -> Seq(Entry)] /\ log[t] \in Seq(Entry)
        /\ log' = [log EXCEPT ![t] = Append(log[t], e)]
    BY <1>4 DEF TypeOK, RequestsTypeOK
  <2>2. /\ Len(log[t]) + 1 \in DOMAIN Append(log[t], e)
        /\ Append(log[t], e)[Len(log[t]) + 1] = e
        /\ \A i \in DOMAIN log[t] : i \in DOMAIN Append(log[t], e) /\ Append(log[t], e)[i] = log[t][i]
        /\ \A i \in DOMAIN Append(log[t], e) : i \in DOMAIN log[t] \/ i = Len(log[t]) + 1
    BY <2>1
  <2>3. ToSet(Append(log[t], e)) = ToSet(log[t]) \union {e}
    BY <2>2 DEF ToSet
  <2>4. \A u \in Threads : ToSet(log'[u]) = IF u = t THEN ToSet(log[u]) \union {e} ELSE ToSet(log[u])
    BY <2>1, <2>3
  <2> QED BY <2>4 DEF Logged
<1> QED BY <1>2, <1>3, <1>4, <1>5

\* A request that was answered 200 is about a stored visit or creates one.
LEMMA SubmitReadInv ==
  ASSUME ReadInv, NEW t \in Threads, NEW p \in Posts,
         insertVisit(t, p) \/ updateVisit(t, p)
  PROVE  ReadInv'
<1>1. TypeOK /\ TypeOK'
  BY SubmitTypeOK DEF ReadInv
<1>2. /\ requests' = [requests EXCEPT ![t] = Append(@, Body(p))]
      /\ UNCHANGED <<visits, vecs, pc, item, ops, ipc, racing>>
  BY <1>1, SubmitStep
<1>3. IdsAreIndices'
  BY <1>2 DEF ReadInv, IdsAreIndices
<1>4. ASSUME AllAnswered'
      PROVE  ReadParts'
  <2>1. PICK e \in Entry : /\ e.post = p /\ Logged' = Logged \union {e}
                           /\ e.code = 200 /\ NamesOwners(p) => Valid(Body(p))
    BY <1>1, SubmitLogged
  <2>2. AllAnswered /\ e.code = 200 /\ NamesOwners(p)
    BY <1>4, <2>1 DEF AllAnswered
  <2>6. ReadParts /\ Valid(Body(p))
    BY <2>1, <2>2 DEF ReadInv
  <2>7. \A w : Valid(w)' <=> Valid(w)
    BY <1>2 DEF Valid, visitExists
  <2>8. ASSUME NEW u \in Threads, NEW i \in DOMAIN requests'[u]
        PROVE  Valid(requests'[u][i])
    <3>1. requests \in [Threads -> Seq(Request)]
      BY <1>1 DEF TypeOK, RequestsTypeOK
    <3>2. requests'[u] = IF u = t THEN Append(requests[u], Body(p)) ELSE requests[u]
      BY <1>2, <3>1
    <3>3. \/ i \in DOMAIN requests[u] /\ requests'[u][i] = requests[u][i]
          \/ requests'[u][i] = Body(p)
      BY <3>1, <3>2
    <3> QED BY <2>6, <3>3 DEF ReadParts, RequestsValid, QueuedValid
  <2>9. RequestsValid'
    BY <1>2, <2>6, <2>7, <2>8 DEF ReadParts, RequestsValid, QueuedValid, visitExists
  <2>10. StoredOwned' /\ ListedReadable' /\ AddedReadable'
    BY <1>2, <2>6 DEF ReadParts, StoredOwned, ListedReadable, AddedReadable, Creating,
                      Readable, visitExists
  <2> QED BY <2>9, <2>10 DEF ReadParts
<1> QED BY <1>1, <1>3, <1>4 DEF ReadInv

\* What the worker takes names a stored visit, or inserts it.
LEMMA VisitsTakeReadParts ==
  ASSUME ReadInv, ReadParts, NEW t \in Threads, VisitsTake(t)
  PROVE  ReadParts'
<1>0. PICK w : w = Head(requests[t])
  OBVIOUS
<1>1. TypeOK /\ TypeOK'
  BY VisitsTakeTypeOK DEF ReadInv
<1>2. /\ requests[t] \in Seq(Request) /\ requests[t] # <<>>
      /\ w \in Request /\ w.id \in VisitIds /\ w.id # NoId
  <2>1. requests[t] \in Seq(Request) /\ requests[t] # <<>>
    BY <1>1 DEF TypeOK, RequestsTypeOK, VisitsTake
  <2>2. w \in Request
    BY <1>0, <2>1
  <2> QED BY <2>1, <2>2, VisitConstants DEF Request
<1>3. /\ item' = w /\ pc = "dequeue" /\ pc' = "user_id"
      /\ requests' = [requests EXCEPT ![t] = Tail(@)]
      /\ UNCHANGED <<vecs, ops>>
  BY <1>0 DEF VisitsTake
<1>4. \A v \in VisitIds :
        /\ \A k \in Kinds : visits'[v][k] = visits[v][k]
        /\ visits'[v].id = IF v = w.id /\ "id" \in w.mask THEN w.id ELSE visits[v].id
  BY <1>0, <1>1, VisitsTakeFields
<1>5. Valid(w)
  BY <1>0, <1>2 DEF ReadParts, RequestsValid, QueuedValid
<1>6. \A v \in VisitIds : visits[v].id # NoId => visits'[v].id # NoId
  BY <1>2, <1>4
<1>7. \A v \in VisitIds : Readable(v) => Readable(v)'
  BY <1>3, <1>4, <1>6 DEF Readable, visitExists, Kinds
<1>8. ListedReadable' /\ AddedReadable' /\ \A x : Valid(x) => Valid(x)'
  BY <1>1, <1>3, <1>6, <1>7, PartsKept
<1>9. StoredOwned'
  <2>1. ASSUME NEW v \in VisitIds, visits'[v].id # NoId, NEW k \in Kinds
        PROVE  visits'[v][k] # NoId \/ Creating(k, v)'
    <3>1. CASE v = w.id /\ "id" \in w.mask
      BY <1>3, <3>1 DEF Creating
    <3>2. CASE ~ (v = w.id /\ "id" \in w.mask)
      BY <1>3, <1>4, <2>1, <3>2 DEF ReadParts, StoredOwned, Creating, Kinds
    <3> QED BY <3>1, <3>2
  <2> QED BY <2>1 DEF StoredOwned
<1>10. RequestsValid'
  <2>1. ASSUME NEW u \in Threads, NEW i \in DOMAIN requests'[u]
        PROVE  Valid(requests'[u][i])
    <3>1. requests \in [Threads -> Seq(Request)]
      BY <1>1 DEF TypeOK, RequestsTypeOK
    <3>2. CASE u = t
      <4>1. requests'[u] = Tail(requests[t])
        BY <1>3, <3>1, <3>2
      <4>2. i + 1 \in DOMAIN requests[t] /\ requests'[u][i] = requests[t][i + 1]
        BY <1>2, <4>1
      <4> QED BY <4>2 DEF ReadParts, RequestsValid, QueuedValid
    <3>3. CASE u # t
      BY <1>3, <3>1, <3>3 DEF ReadParts, RequestsValid, QueuedValid
    <3> QED BY <3>2, <3>3
  <2>2. QueuedValid'
    BY <1>8, <2>1 DEF QueuedValid
  <2>3. Valid(w)' /\ visitExists(w.id)'
    <3>1. Valid(w)'
      BY <1>5, <1>8
    <3>2. visitExists(w.id)'
      BY <1>2, <1>4, <1>5, <1>6 DEF Valid, visitExists
    <3> QED BY <3>1, <3>2
  <2>4. Valid(item)' /\ visitExists(item.id)'
    BY <1>3, <2>3 DEF Valid, visitExists
  <2> QED BY <2>2, <2>4 DEF RequestsValid
<1> QED BY <1>8, <1>9, <1>10 DEF ReadParts

\* A visit is listed by an owner that it has by then, and so are its owners.
LEMMA VisitsOwnerReadParts ==
  ASSUME ReadInv, ReadParts, NEW k \in Kinds, VisitsOwner(k)
  PROVE  ReadParts'
<1> DEFINE u == item.id
           it == visits[u]
           r == OpIf(it[k], "remove", it.id)
           a == OpIf(item[k], "add", it.id)
<1>1. TypeOK /\ TypeOK'
  BY VisitsOwnerTypeOK DEF ReadInv
<1>2. /\ u \in VisitIds /\ u # NoId /\ pc = k /\ pc' = NextField(k)
      /\ UNCHANGED <<vecs, requests, item>>
  BY <1>1, HeldRequest, VisitConstants DEF VisitsOwner, Kinds
<1>3. /\ Valid(item) /\ visitExists(u) /\ it.id = u
      /\ k \in item.mask => item[k] # NoId
      /\ "id" \in item.mask => k \in item.mask
  BY <1>2 DEF ReadInv, ReadParts, RequestsValid, IdsAreIndices, Valid, visitExists,
              Kinds, Param
<1>4. \A v \in VisitIds, j \in Kinds :
        /\ visits'[v].id = visits[v].id
        /\ visits'[v][j] = IF v = u /\ j = k /\ k \in item.mask THEN item[k] ELSE visits[v][j]
  <2>1. CASE k \in item.mask
    <3>1. it \in VisitItem /\ visits' = [visits EXCEPT ![u] = [it EXCEPT ![k] = item[k]]]
      BY <1>1, <2>1, VisitsOwnerStep
    <3> QED BY <1>1, <1>2, <2>1, <3>1 DEF TypeOK, VisitsTypeOK, VisitItem, Kinds
  <2>2. CASE k \notin item.mask
    BY <2>2 DEF VisitsOwner
  <2> QED BY <2>1, <2>2
<1>5. StoredOwned'
  <2>1. ASSUME NEW v \in VisitIds, visits'[v].id # NoId, NEW j \in Kinds
        PROVE  visits'[v][j] # NoId \/ Creating(j, v)'
    <3>1. visits[v][j] # NoId \/ Creating(j, v)
      BY <1>4, <2>1 DEF ReadParts, StoredOwned
    <3>2. Creating(j, v) /\ j # k => Creating(j, v)'
      BY <1>2 DEF Creating, NextField, Kinds
    <3>3. Creating(j, v) /\ j = k => visits'[v][j] # NoId
      BY <1>3, <1>4 DEF Creating
    <3> QED BY <1>3, <1>4, <3>1, <3>2, <3>3
  <2> QED BY <2>1 DEF StoredOwned
<1>6. \A v \in VisitIds : Readable(v) => Readable(v)'
  <2> SUFFICES ASSUME NEW v \in VisitIds, Readable(v)
               PROVE  Readable(v)'
    OBVIOUS
  <2>1. visits[v].id # NoId /\ visits[v].user_id # NoId
    BY DEF Readable, visitExists
  <2>2. visits'[v].id # NoId /\ visits'[v].user_id # NoId
    BY <1>3, <1>4, <2>1 DEF Kinds
  <2>3. visits'[v].location_id # NoId \/ Creating("location_id", v)'
    BY <1>5, <2>2 DEF StoredOwned, Kinds
  <2>4. Creating("location_id", v)' => item'.id = v /\ pc' = "location_id"
    BY <1>2 DEF Creating, NextField, Kinds
  <2> QED BY <2>2, <2>3, <2>4 DEF Readable, visitExists
<1>7. ListedReadable' /\ QueuedValid' /\ (UNCHANGED ops => AddedReadable')
  BY <1>1, <1>2, <1>4, <1>6, PartsKept
<1>8. RequestsValid'
  BY <1>2, <1>3, <1>4, <1>7 DEF RequestsValid, Valid, visitExists
<1>9. AddedReadable'
  <2>1. CASE k \notin item.mask
    BY <1>7, <2>1 DEF VisitsOwner
  <2>2. CASE k \in item.mask
    <3>1. /\ DOMAIN ops = Kinds /\ ops[k] \in Seq(Op(k))
          /\ r \in Seq(Op(k)) /\ a \in Seq(Op(k))
          /\ ops' = [ops EXCEPT ![k] = (ops[k] \o r) \o a]
      BY <1>1, <2>2, VisitsOwnerStep DEF TypeOK, IndexTypeOK
    <3>2. Readable(u)'
      <4>1. visits'[u].id # NoId /\ visits'[u][k] # NoId
        BY <1>2, <1>3, <1>4, <2>2 DEF visitExists
      <4>2. visits'[u].user_id # NoId \/ Creating("user_id", u)'
        BY <1>2, <1>5, <4>1 DEF StoredOwned, Kinds
      <4>3. visits'[u].location_id # NoId \/ Creating("location_id", u)'
        BY <1>2, <1>5, <4>1 DEF StoredOwned, Kinds
      <4> QED BY <1>2, <4>1, <4>2, <4>3 DEF Readable, visitExists, Creating, NextField, Kinds
    <3>3. /\ \A op \in ToSet(r) : op.act = "remove"
          /\ \A op \in ToSet(a) : op.vid = u
      BY <1>3 DEF OpIf, ToSet
    <3> HIDE DEF r, a
    <3>4. ToSet((ops[k] \o r) \o a) = (ToSet(ops[k]) \union ToSet(r)) \union ToSet(a)
      <4>1. PICK q : q = ops[k] \o r
        OBVIOUS
      <4>2. q \in Seq(Op(k)) /\ ToSet(q) = ToSet(ops[k]) \union ToSet(r)
        BY <3>1, <4>1, ToSetConcat
      <4>3. ToSet(q \o a) = ToSet(q) \union ToSet(a)
        BY <3>1, <4>2, ToSetConcat
      <4> QED BY <4>1, <4>2, <4>3
    <3>5. ASSUME NEW j \in Kinds, NEW op \in ToSet(ops'[j]), op.act = "add"
          PROVE  op.vid = u \/ op \in ToSet(ops[j])
      BY <3>1, <3>3, <3>4, <3>5
    <3>6. ASSUME NEW j \in Kinds, NEW op \in ToSet(ops[j]), op.act = "add"
          PROVE  Readable(op.vid)'
      <4>1. Readable(op.vid) /\ op.vid \in VisitIds
        BY <3>6 DEF ReadParts, AddedReadable, Readable, visitExists
      <4> QED BY <1>6, <4>1
    <3>7. ASSUME NEW j \in Kinds, NEW op \in ToSet(ops'[j]), op.act = "add"
          PROVE  Readable(op.vid)'
      BY <1>2, <3>2, <3>5, <3>6, <3>7 DEF Readable, visitExists
    <3> QED BY <3>7 DEF AddedReadable, Readable, visitExists
  <2> QED BY <2>1, <2>2
<1> QED BY <1>5, <1>7, <1>8, <1>9 DEF ReadParts

\* The sorts that are queued last list nothing new.
LEMMA VisitsSortReadParts ==
  ASSUME ReadInv, ReadParts, VisitsSort
  PROVE  ReadParts'
<1>1. TypeOK
  BY DEF ReadInv
<1>2. /\ pc = "sort" /\ pc' = "loop" /\ item' = BlankVisit
      /\ UNCHANGED <<visits, vecs, requests>>
  BY DEF VisitsSort
<1>3. StoredOwned'
  BY <1>2 DEF ReadParts, StoredOwned, Creating, Kinds
<1>4. \A v \in VisitIds : Readable(v) => Readable(v)'
  BY <1>2 DEF Readable, visitExists
<1>5. ListedReadable' /\ QueuedValid' /\ (UNCHANGED ops => AddedReadable')
  BY <1>1, <1>2, <1>4, PartsKept
<1>6. RequestsValid'
  BY <1>2, <1>5 DEF RequestsValid
<1>7. AddedReadable'
  <2>1. CASE "visited_at" \notin item.mask
    BY <1>5, <2>1 DEF VisitsSort
  <2>2. CASE "visited_at" \in item.mask
    <3> SUFFICES ASSUME NEW k \in Kinds, NEW op \in ToSet(ops'[k]), op.act = "add"
                 PROVE  op \in ToSet(ops[k])
      BY <1>2, <1>4 DEF ReadParts, AddedReadable, Readable, visitExists
    <3> DEFINE r == OpIf(visits[item.id][k], "sort", visits[item.id].id)
    <3>1. ops[k] \in Seq(Op(k)) /\ r \in Seq(Op(k)) /\ ops'[k] = ops[k] \o r
      BY <1>1, <2>2, VisitsSortStep DEF TypeOK, IndexTypeOK
    <3>2. \A x \in ToSet(r) : x.act = "sort"
      BY DEF OpIf, ToSet
    <3> HIDE DEF r
    <3>3. ToSet(ops'[k]) = ToSet(ops[k]) \union ToSet(r)
      BY <3>1, ToSetConcat
    <3> QED BY <3>2, <3>3
  <2> QED BY <2>1, <2>2
<1> QED BY <1>3, <1>5, <1>6, <1>7 DEF ReadParts

\* A new time is of no consequence to what is listed.
LEMMA VisitsTimeReadParts ==
  ASSUME ReadInv, ReadParts, VisitsTime
  PROVE  ReadParts'
<1>1. TypeOK
  BY DEF ReadInv
<1>2. pc = "visited_at" /\ pc' = "sort" /\ UNCHANGED <<vecs, requests, item, ops>>
  BY DEF VisitsTime
<1>3. \A v \in VisitIds, k \in Kinds :
        visits'[v].id = visits[v].id /\ visits'[v][k] = visits[v][k]
  BY <1>1 DEF VisitsTime, TypeOK, VisitsTypeOK, VisitItem, Kinds
<1>4. StoredOwned'
  BY <1>2, <1>3 DEF ReadParts, StoredOwned, Creating, Kinds
<1>5. \A v \in VisitIds : Readable(v) => Readable(v)'
  BY <1>2, <1>3 DEF Readable, visitExists, Kinds
<1>6. ListedReadable' /\ QueuedValid' /\ AddedReadable' /\ \A w : Valid(w) => Valid(w)'
  <2>1. \A v \in VisitIds : visits[v].id # NoId => visits'[v].id # NoId
    BY <1>3 DEF Kinds
  <2> QED BY <1>1, <1>2, <1>5, <2>1, PartsKept
<1>7. RequestsValid'
  BY <1>2, <1>3, <1>6 DEF ReadParts, RequestsValid, Valid, visitExists, Kinds
<1> QED BY <1>4, <1>6, <1>7 DEF ReadParts

\* What an index worker puts into a vector, its queue held.
LEMMA IndexApplyReadParts ==
  ASSUME ReadInv, ReadParts, NEW k \in Kinds, IndexApply(k)
  PROVE  ReadParts'
<1> DEFINE op == Head(ops[k])
           vec == vecs[k][op.owner]
<1>1. TypeOK
  BY DEF ReadInv
<1>2. UNCHANGED <<visits, requests, pc, item>>
  BY DEF IndexApply
<1>3. /\ op \in Op(k) /\ op.owner \in Owners(k) /\ ops[k] # <<>>
      /\ ops' = [ops EXCEPT ![k] = Tail(ops[k])]
      /\ vec \in Seq(VisitRefs)
  BY <1>1, IndexApplyStep
<1>4. PICK new \in Applied(k, op, vec) : vecs' = [vecs EXCEPT ![k][op.owner] = new]
  BY <1>1, IndexApplyStep
<1>5. /\ op.act \in {"add", "remove", "sort"}
      /\ op.act = "add" => ToSet(new) = ToSet(vec) \union {op.vid}
      /\ op.act # "add" => ToSet(new) \subseteq ToSet(vec)
  BY <1>1, <1>3, <1>4, AppliedType DEF Op
<1>6. /\ DOMAIN vecs = Kinds /\ DOMAIN ops = Kinds
      /\ vecs[k] \in [Owners(k) -> Seq(VisitRefs)] /\ ops[k] \in Seq(Op(k))
  BY <1>1 DEF TypeOK, VectorsTypeOK, IndexTypeOK
<1>7. op \in ToSet(ops[k]) /\ ToSet(Tail(ops[k])) \subseteq ToSet(ops[k])
  <2>1. /\ 1 \in DOMAIN ops[k] /\ op = ops[k][1]
        /\ \A i \in DOMAIN Tail(ops[k]) : i + 1 \in DOMAIN ops[k] /\ Tail(ops[k])[i] = ops[k][i + 1]
    BY <1>3, <1>6
  <2> QED BY <2>1 DEF ToSet
<1>8. ASSUME NEW j \in Kinds, NEW o \in Owners(j), NEW v \in ToSet(vecs'[j][o])
      PROVE  Readable(v)
  <2>1. CASE j = k /\ o = op.owner
    <3>1. v \in ToSet(new)
      BY <1>4, <1>6, <1>8, <2>1
    <3>2. v \in ToSet(vec) \/ (op.act = "add" /\ v = op.vid)
      BY <1>5, <3>1
    <3> QED BY <1>3, <1>7, <2>1, <3>2 DEF ReadParts, ListedReadable, AddedReadable
  <2>2. CASE ~ (j = k /\ o = op.owner)
    <3>1. vecs'[j][o] = vecs[j][o]
      BY <1>4, <1>6, <2>2
    <3> QED BY <1>8, <3>1 DEF ReadParts, ListedReadable
  <2> QED BY <2>1, <2>2
<1>9. ASSUME NEW j \in Kinds, NEW x \in ToSet(ops'[j]), x.act = "add"
      PROVE  Readable(x.vid)
  <2>1. x \in ToSet(ops[j])
    BY <1>3, <1>6, <1>7, <1>9
  <2> QED BY <1>9, <2>1 DEF ReadParts, AddedReadable
<1>10. ListedReadable' /\ AddedReadable'
  BY <1>2, <1>8, <1>9 DEF ListedReadable, AddedReadable, Readable, visitExists
<1>11. RequestsValid' /\ StoredOwned'
  BY <1>2 DEF ReadParts, RequestsValid, QueuedValid, Valid, visitExists, StoredOwned, Creating
<1> QED BY <1>10, <1>11 DEF ReadParts

\* A visit's id is its index.
LEMMA NextIds == ASSUME TypeOK, IdsAreIndices, [Next]_vars PROVE IdsAreIndices'
<1>1. CASE UNCHANGED visits
  BY <1>1 DEF IdsAreIndices
<1>2. ASSUME NEW t \in Threads, VisitsTake(t) PROVE IdsAreIndices'
  BY <1>2, VisitsTakeFields DEF IdsAreIndices
<1>3. CASE VisitsTime
  <2>1. \A v \in VisitIds : visits'[v].id = visits[v].id
    BY <1>3 DEF VisitsTime, TypeOK, VisitsTypeOK, VisitItem
  <2> QED BY <2>1 DEF IdsAreIndices
<1>4. ASSUME NEW k \in Kinds, VisitsOwner(k) PROVE IdsAreIndices'
  <2>1. CASE k \notin item.mask
    BY <1>1, <1>4, <2>1 DEF VisitsOwner
  <2>2. CASE k \in item.mask
    <3> DEFINE it == visits[item.id]
    <3>1. it \in VisitItem /\ visits' = [visits EXCEPT ![item.id] = [it EXCEPT ![k] = item[k]]]
      BY <1>4, <2>2, VisitsOwnerStep
    <3>2. \A v \in VisitIds : visits'[v].id = visits[v].id
      BY <3>1 DEF TypeOK, VisitsTypeOK, VisitItem, Kinds
    <3> QED BY <3>2 DEF IdsAreIndices
  <2> QED BY <2>1, <2>2
<1> QED
  BY <1>1, <1>2, <1>3, <1>4
  DEF Next, VisitsWorker, IndexWorker, insertVisit, updateVisit, enableWriters,
      disableWriters, VisitsCheck, VisitsEmpty, VisitsSort, IndexCheck, IndexEmpty,
      IndexTake, IndexApply, vars

\* Every step keeps the invariant.
LEMMA NextReadInv == ReadInv /\ [Next]_vars => ReadInv'
<1> SUFFICES ASSUME ReadInv, [Next]_vars PROVE ReadInv'
  OBVIOUS
<1>1. TypeOK /\ TypeOK'
  BY NextTypeOK DEF ReadInv
<1>2. IdsAreIndices'
  BY NextIds DEF ReadInv
<1>3. ASSUME NEW t \in Threads, NEW p \in Posts, insertVisit(t, p) \/ updateVisit(t, p)
      PROVE  ReadInv'
  BY <1>3, SubmitReadInv
<1>4. ASSUME UNCHANGED log, ReadParts => ReadParts'
      PROVE  ReadInv'
  BY <1>1, <1>2, <1>4 DEF ReadInv, AllAnswered, Logged
<1>5. ASSUME UNCHANGED <<visits, vecs, ops, requests, item, log>>,
             UNCHANGED pc \/ (pc \in {"loop", "dequeue"} /\ pc' \in {"loop", "dequeue"})
      PROVE  ReadInv'
  <2>1. ASSUME ReadParts PROVE ReadParts'
    <3>1. RequestsValid'
      BY <1>5, <2>1 DEF ReadParts, RequestsValid, QueuedValid, Valid, visitExists
    <3>2. StoredOwned'
      BY <1>5, <2>1 DEF ReadParts, StoredOwned, Creating, Kinds
    <3>3. ListedReadable' /\ AddedReadable'
      BY <1>5, <2>1 DEF ReadParts, ListedReadable, AddedReadable, Readable, visitExists
    <3> QED BY <3>1, <3>2, <3>3 DEF ReadParts
  <2> QED BY <1>4, <1>5, <2>1
<1>6. CASE enableWriters \/ disableWriters \/ VisitsCheck \/ VisitsEmpty \/ UNCHANGED vars
  BY <1>5, <1>6 DEF enableWriters, disableWriters, VisitsCheck, VisitsEmpty, vars
<1>7. ASSUME NEW t \in Threads, VisitsTake(t) PROVE ReadInv'
  BY <1>4, <1>7, VisitsTakeReadParts DEF VisitsTake
<1>8. ASSUME NEW k \in Kinds, VisitsOwner(k) PROVE ReadInv'
  BY <1>4, <1>8, VisitsOwnerReadParts DEF VisitsOwner
<1>9. CASE VisitsTime
  BY <1>4, <1>9, VisitsTimeReadParts DEF VisitsTime
<1>10. CASE VisitsSort
  BY <1>4, <1>10, VisitsSortReadParts DEF VisitsSort
<1>11. ASSUME NEW k \in Kinds, IndexCheck(k) \/ IndexEmpty(k) \/ IndexTake(k) PROVE ReadInv'
  BY <1>5, <1>11 DEF IndexCheck, IndexEmpty, IndexTake
<1>12. ASSUME NEW k \in Kinds, IndexApply(k) PROVE ReadInv'
  BY <1>4, <1>12, IndexApplyReadParts DEF IndexApply
<1> QED BY <1>3, <1>6, <1>7, <1>8, <1>9, <1>10, <1>11, <1>12
        DEF Next, VisitsWorker, IndexWorker

\* What the GET handlers dereference is there: whatever the interleaving, the
\* vectors of a user and of a location list stored visits that have a user and,
\* but for one that is being created, a location.
THEOREM AlwaysReadable == Spec => []ReadsValid
<1>1. ReadInv => ReadsValid
  BY DEF ReadInv, ReadParts, ListedReadable, ReadsValid, AllAnswered, Readable
<1> QED BY <1>1, InitReadInv, NextReadInv, PTL DEF Spec

-----------------------------------------------------------------------------
(* The order of the vectors.  As long as no visit changes its owner, a     *)
(* visit is listed by the owner it has and by no other, so that the sort   *)
(* that follows a new visited_at is of the one vector that holds the visit *)
(* and comes after whatever the comparators were racing with.              *)

Single(k) == \A v \in VisitIds : \A a, b \in Stated(v, k) : a = b

StatedFinite == \A v \in VisitIds, k \in Kinds : IsFiniteSet(Stated(v, k))

OwnersStated ==
  \A v \in VisitIds, k \in Kinds : visits[v][k] # NoId => visits[v][k] \in Stated(v, k)

\* said[v][k]: what is stated of the owner of kind k of visit v.
Said == [v \in VisitIds |-> [k \in Kinds |-> Stated(v, k)]]
SaidBy(said, w) == \A k \in Kinds : k \in w.mask => w[k] \in said[w.id][k]

RequestsStated ==
  /\ \A t \in Threads : \A i \in DOMAIN requests[t] : SaidBy(Said, requests[t][i])
  /\ pc \notin {"loop", "dequeue"} => SaidBy(Said, item)

ListedByOwner(k) ==
  /\ \A o \in Owners(k) : \A x \in ToSet(vecs[k][o]) : x # NoId => visits[x][k] = o
  /\ \A op \in ToSet(ops[k]) : op.vid # NoId => visits[op.vid][k] = op.owner

\* The sort of the vector of o is queued, or about to be.
Sorts(q, o) == \E i \in DOMAIN q : q[i].act = "sort" /\ q[i].owner = o
SortsBehind(q) ==
  \E i \in DOMAIN q : i > 1 /\ q[i].act = "sort" /\ q[i].owner = q[1].owner
SortHeld(k, o) ==
  pc = "sort" /\ "visited_at" \in item.mask /\ visits[item.id][k] = o

RacingPending(k) ==
  racing[k] => /\ ipc[k] = "apply"
               /\ SortsBehind(ops[k]) \/ SortHeld(k, ops[k][1].owner)

SortedOrPending(k) ==
  \A o \in Owners(k) :
    SortedBy(At(visits), vecs[k][o]) \/ Sorts(ops[k], o) \/ SortHeld(k, o)

SortParts(k) == ListedByOwner(k) /\ RacingPending(k) /\ SortedOrPending(k)

SortInv ==
  /\ TypeOK /\ IdsAreIndices
  /\ StatedFinite /\ OwnersStated /\ RequestsStated
  /\ \A k \in Kinds : Single(k) => SortParts(k)

\* What a queue sorts is kept when ops are enqueued behind.
LEMMA SortsConcat ==
  ASSUME NEW S, NEW q \in Seq(S), NEW r \in Seq(S), NEW n, n = q \o r
  PROVE  /\ \A o : Sorts(q, o) \/ Sorts(r, o) => Sorts(n, o)
         /\ q # <<>> => n[1] = q[1]
         /\ q # <<>> /\ (SortsBehind(q) \/ Sorts(r, q[1].owner)) => SortsBehind(n)
<1>1. PICK l \in Nat, m \in Nat : l = Len(q) /\ m = Len(r)
  OBVIOUS
<1>2. /\ DOMAIN q = 1 .. l /\ DOMAIN r = 1 .. m /\ DOMAIN n = 1 .. l + m
      /\ q # <<>> => l >= 1
  BY <1>1
<1>3. ASSUME NEW i \in 1 .. l PROVE n[i] = q[i]
  BY <1>1
<1>4. ASSUME NEW i \in 1 .. m PROVE n[l + i] = r[i]
  BY <1>1
<1>5. ASSUME NEW o, Sorts(q, o) PROVE Sorts(n, o)
  <2>1. PICK i \in 1 .. l : q[i].act = "sort" /\ q[i].owner = o
    BY <1>2, <1>5 DEF Sorts
  <2>2. i \in 1 .. l + m /\ n[i] = q[i]
    BY <1>1, <1>3
  <2> QED BY <1>2, <2>1, <2>2 DEF Sorts
<1>6. ASSUME NEW o, Sorts(r, o)
      PROVE  \E i \in DOMAIN n : i > l /\ n[i].act = "sort" /\ n[i].owner = o
  <2>1. PICK i \in 1 .. m : r[i].act = "sort" /\ r[i].owner = o
    BY <1>2, <1>6 DEF Sorts
  <2>2. l + i \in 1 .. l + m /\ l + i > l /\ n[l + i] = r[i]
    BY <1>1, <1>4
  <2> QED BY <1>2, <2>1, <2>2
<1>7. \A o : Sorts(q, o) \/ Sorts(r, o) => Sorts(n, o)
  BY <1>5, <1>6 DEF Sorts
<1>8. ASSUME q # <<>> PROVE n[1] = q[1]
  BY <1>2, <1>3, <1>8
<1>9. ASSUME q # <<>>, SortsBehind(q) PROVE SortsBehind(n)
  <2>1. PICK i \in 1 .. l : i > 1 /\ q[i].act = "sort" /\ q[i].owner = q[1].owner
    BY <1>2, <1>9 DEF SortsBehind
  <2>2. i \in 1 .. l + m /\ n[i] = q[i] /\ n[1] = q[1]
    BY <1>1, <1>3, <1>8, <1>9
  <2> QED BY <1>2, <2>1, <2>2 DEF SortsBehind
<1>10. ASSUME q # <<>>, Sorts(r, q[1].owner) PROVE SortsBehind(n)
  <2>1. PICK i \in DOMAIN n : i > l /\ n[i].act = "sort" /\ n[i].owner = q[1].owner
    BY <1>6, <1>10
  <2>2. i > 1 /\ n[1] = q[1]
    BY <1>2, <1>8, <1>10, <2>1
  <2> QED BY <2>1, <2>2 DEF SortsBehind
<1> QED BY <1>7, <1>8, <1>9, <1>10

\* What is left of it when the op at the head is applied.
LEMMA SortsTail ==
  ASSUME NEW S, NEW q \in Seq(S), q # <<>>, NEW n, n = Tail(q)
  PROVE  /\ \A o : Sorts(q, o) => Sorts(n, o) \/ (q[1].act = "sort" /\ q[1].owner = o)
         /\ SortsBehind(q) => Sorts(n, q[1].owner)
         /\ ToSet(n) \subseteq ToSet(q) /\ q[1] \in ToSet(q) /\ Head(q) = q[1]
<1>1. PICK l \in Nat : l = Len(q) /\ l >= 1
  OBVIOUS
<1>2. DOMAIN q = 1 .. l /\ DOMAIN n = 1 .. l - 1 /\ Head(q) = q[1] /\ 1 \in 1 .. l
  BY <1>1
<1>3. ASSUME NEW i \in 1 .. l - 1 PROVE n[i] = q[i + 1]
  BY <1>1
<1>4. ASSUME NEW i \in 1 .. l, i > 1
      PROVE  i - 1 \in 1 .. l - 1 /\ n[i - 1] = q[i]
  <2>1. i - 1 \in 1 .. l - 1 /\ (i - 1) + 1 = i
    BY <1>1, <1>4
  <2> QED BY <1>3, <2>1
<1>5. ASSUME NEW o, Sorts(q, o), ~ (q[1].act = "sort" /\ q[1].owner = o)
      PROVE  Sorts(n, o)
  <2>1. PICK i \in 1 .. l : q[i].act = "sort" /\ q[i].owner = o
    BY <1>2, <1>5 DEF Sorts
  <2>2. i > 1
    BY <1>5, <2>1
  <2> QED BY <1>2, <1>4, <2>1, <2>2 DEF Sorts
<1>6. ASSUME SortsBehind(q) PROVE Sorts(n, q[1].owner)
  <2>1. PICK i \in 1 .. l : i > 1 /\ q[i].act = "sort" /\ q[i].owner = q[1].owner
    BY <1>2, <1>6 DEF SortsBehind
  <2>2. i - 1 \in DOMAIN n /\ n[i - 1].act = "sort" /\ n[i - 1].owner = q[1].owner
    BY <1>2, <1>4, <2>1
  <2> QED BY <2>2 DEF Sorts
<1>7. ToSet(n) \subseteq ToSet(q) /\ q[1] \in ToSet(q)
  <2>1. ASSUME NEW i \in 1 .. l - 1 PROVE i + 1 \in 1 .. l /\ n[i] = q[i + 1]
    BY <1>1, <1>3
  <2> QED BY <1>2, <2>1 DEF ToSet
<1> QED BY <1>2, <1>5, <1>6, <1>7

\* What the comparators read is a number.
LEMMA AtType == VisitsTypeOK => At(visits) \in [VisitRefs -> Int]
BY OutOfBoundsIsInt, VisitConstants DEF VisitsTypeOK, At, VisitRefs, VisitItem

\* Without a race, a sorted vector is left sorted.
LEMMA AppliedSorts ==
  ASSUME TypeOK, NEW k \in Kinds, NEW op \in Op(k), ~ racing[k],
         NEW vec \in Seq(VisitRefs), NEW new \in Applied(k, op, vec)
  PROVE  /\ SortedBy(At(visits), vec) => SortedBy(At(visits), new)
         /\ op.act = "sort" => SortedBy(At(visits), new)
<1> DEFINE at == At(visits)
<1>1. op.act \in {"add", "remove", "sort"} /\ op.vid \in VisitRefs /\ racing[k] = FALSE
  BY DEF Op, TypeOK, IndexTypeOK
<1>2. at \in [VisitRefs -> Int]
  BY AtType DEF TypeOK
<1>3. CASE op.act = "add"
  <2>1. new \in insert_sorted(at, vec, op.vid, FALSE)
    BY <1>1, <1>3 DEF Applied
  <2> HIDE DEF at
  <2>2. SortedBy(at, vec) => SortedBy(at, new)
    BY <1>1, <1>2, <2>1, InsertSortedSorts
  <2> QED BY <1>3, <2>2 DEF at
<1>4. CASE op.act = "remove"
  <2>1. new \in erase_sorted(at, vec, op.vid, FALSE)
    BY <1>1, <1>4 DEF Applied
  <2> HIDE DEF at
  <2>2. SortedBy(at, vec) => SortedBy(at, new)
    BY <1>1, <1>2, <2>1, EraseSortedSorts
  <2> QED BY <1>4, <2>2 DEF at
<1>5. CASE op.act = "sort"
  <2>1. new \in sort(at, vec, FALSE)
    BY <1>1, <1>5 DEF Applied
  <2> QED BY <2>1 DEF sort
<1> QED BY <1>1, <1>3, <1>4, <1>5

\* What a handler logs says of a visit what its body says.
LEMMA SubmitStated ==
  ASSUME TypeOK, NEW t \in Threads, NEW p \in Posts,
         insertVisit(t, p) \/ updateVisit(t, p),
         NEW v \in VisitIds, NEW f \in Param
  PROVE  Stated(v, f)' = Stated(v, f) \union
           IF Target(p) = v /\ f \in p.v.mask THEN {p.v[f]} ELSE {}
<1>1. PICK e \in Entry : e.post = p /\ Logged' = Logged \union {e}
  BY SubmitLogged
<1> QED BY <1>1 DEF Stated, Target

\* Without a POST nothing new is said.
LEMMA StatedFrame ==
  ASSUME UNCHANGED log
  PROVE  /\ \A v \in VisitIds, f \in Param : Stated(v, f)' = Stated(v, f)
         /\ \A k \in Kinds : Single(k)' <=> Single(k)
         /\ StatedFinite' <=> StatedFinite
         /\ Said' = Said
<1>1. \A v \in VisitIds, f \in Param : Stated(v, f)' = Stated(v, f)
  BY DEF Stated, Logged
<1>2. Kinds \subseteq Param
  BY DEF Kinds, Param
<1>3. \A v \in VisitIds, k \in Kinds : Stated(v, k)' = Stated(v, k)
  BY <1>1, <1>2
<1>4. Said' = Said
  BY <1>3 DEF Said
<1> QED BY <1>1, <1>3, <1>4 DEF Single, StatedFinite

\* The fewer requests were sent, the fewer say who owns a visit.
LEMMA SingleBefore ==
  ASSUME TypeOK, [Next]_vars, NEW k \in Kinds, Single(k)'
  PROVE  Single(k)
<1>1. CASE UNCHANGED log
  BY <1>1, StatedFrame
<1>2. ASSUME NEW t \in Threads, NEW p \in Posts, insertVisit(t, p) \/ updateVisit(t, p)
      PROVE  Single(k)
  <2>1. ASSUME NEW v \in VisitIds PROVE Stated(v, k) \subseteq Stated(v, k)'
    <3>1. k \in Param
      BY DEF Kinds, Param
    <3> QED BY <1>2, <3>1, SubmitStated
  <2> QED BY <2>1 DEF Single
<1> QED BY <1>1, <1>2 DEF Next, VisitsWorker, IndexWorker, enableWriters, disableWriters,
      VisitsCheck, VisitsEmpty, VisitsTake, VisitsOwner, VisitsTime, VisitsSort,
      IndexCheck, IndexEmpty, IndexTake, IndexApply, vars

\* The loaded vectors are sorted and list the visits by their owners.
LEMMA InitSortInv == Init => SortInv
<1> SUFFICES ASSUME Init PROVE SortInv
  OBVIOUS
<1>1. TypeOK /\ IdsAreIndices /\ visits = LoadedVisits
  BY InitIndexInv DEF IndexInv, Init
<1>2. Logged = {}
  BY DEF Init, Logged, ToSet
<1>3. ASSUME NEW v \in VisitIds, NEW k \in Kinds
      PROVE  Stated(v, k) = IF v \in DOMAIN Loaded THEN {Loaded[v][k]} ELSE {}
  BY <1>2 DEF Stated
<1>4. StatedFinite
  <2> SUFFICES ASSUME NEW v \in VisitIds, NEW k \in Kinds PROVE IsFiniteSet(Stated(v, k))
    BY DEF StatedFinite
  <2>1. IsFiniteSet({Loaded[v][k]}) /\ IsFiniteSet({})
    BY FS_Singleton, FS_EmptySet
  <2> QED BY <1>3, <2>1
<1>5. OwnersStated
  BY <1>1, <1>3 DEF OwnersStated, LoadedVisits, NewVisitItem, Kinds
<1>6. RequestsStated
  BY DEF Init, RequestsStated
<1>7. ASSUME NEW k \in Kinds PROVE SortParts(k)
  <2>1. PICK byUser \in LoadedVectors(visits, "user_id"),
             byLocation \in LoadedVectors(visits, "location_id") :
               vecs = [j \in Kinds |-> IF j = "user_id" THEN byUser ELSE byLocation]
    BY DEF Init
  <2>2. vecs[k] \in LoadedVectors(LoadedVisits, k)
    BY <1>1, <2>1 DEF Kinds
  <2>3. ASSUME NEW o \in Owners(k)
        PROVE  /\ ToSet(vecs[k][o]) = VisitsOf(visits, k, o)
               /\ SortedBy(At(visits), vecs[k][o])
    <3>1. vecs[k][o] \in Listings(VisitsOf(visits, k, o), At(visits))
      BY <1>1, <2>2 DEF LoadedVectors
    <3> QED BY <3>1 DEF Listings
  <2>4. ToSet(ops[k]) = {} /\ racing[k] = FALSE
    BY DEF Init, ToSet
  <2>5. ListedByOwner(k)
    BY <2>3, <2>4 DEF ListedByOwner, VisitsOf
  <2> QED BY <2>3, <2>4, <2>5 DEF SortParts, RacingPending, SortedOrPending
<1> QED BY <1>1, <1>4, <1>5, <1>6, <1>7 DEF SortInv

\* What the vectors and the ops name.
LEMMA ListedRefs ==
  ASSUME TypeOK, NEW k \in Kinds
  PROVE  /\ \A o \in Owners(k) : ToSet(vecs[k][o]) \subseteq VisitIds \union {NoId}
         /\ \A op \in ToSet(ops[k]) : op.vid \in VisitIds \union {NoId} /\ op \in Op(k)
<1>1. vecs[k] \in [Owners(k) -> Seq(VisitRefs)] /\ ops[k] \in Seq(Op(k))
  BY DEF TypeOK, VectorsTypeOK, IndexTypeOK
<1>2. ASSUME NEW o \in Owners(k), NEW x \in ToSet(vecs[k][o]) PROVE x \in VisitRefs
  <2>1. vecs[k][o] \in Seq(VisitRefs)
    BY <1>1
  <2> QED BY <1>2, <2>1 DEF ToSet
<1>3. ASSUME NEW op \in ToSet(ops[k]) PROVE op \in Op(k)
  BY <1>1, <1>3 DEF ToSet
<1> QED BY <1>2, <1>3 DEF VisitRefs, Op

\* A step that leaves the stored owners and times, the vectors and the ops alone.
LEMMA SortPartsFrame ==
  ASSUME NEW k \in Kinds, SortParts(k), UNCHANGED <<vecs, ops, racing>>,
         \A v \in VisitIds : visits'[v][k] = visits[v][k],
         \A v \in VisitIds : visits'[v].visited_at = visits[v].visited_at,
         TypeOK, racing[k] => ipc'[k] = ipc[k],
         \A o : SortHeld(k, o) => SortHeld(k, o)'
  PROVE  SortParts(k)'
<1>1. At(visits') = At(visits)
  BY DEF At
<1>2. /\ \A o \in Owners(k) : ToSet(vecs[k][o]) \subseteq VisitIds \union {NoId}
      /\ \A op \in ToSet(ops[k]) : op.vid \in VisitIds \union {NoId}
  BY ListedRefs
<1>3. ListedByOwner(k)'
  BY <1>2 DEF SortParts, ListedByOwner
<1>4. RacingPending(k)'
  BY DEF SortParts, RacingPending
<1>5. SortedOrPending(k)'
  BY <1>1 DEF SortParts, SortedOrPending
<1> QED BY <1>3, <1>4, <1>5 DEF SortParts

\* An owner is an index.
LEMMA OwnerIsNotNoId == \A k \in Kinds : NoId \notin Owners(k)
BY VisitConstants DEF Kinds, Owners

\* Without a POST, and as long as the owners stay, so does what is stated of them.
LEMMA StatedPartsFrame ==
  ASSUME SortInv, UNCHANGED <<log, requests>>,
         \A v \in VisitIds, k \in Kinds : visits'[v][k] = visits[v][k],
         pc' \in {"loop", "dequeue"} \/ (UNCHANGED item /\ pc \notin {"loop", "dequeue"})
  PROVE  StatedFinite' /\ OwnersStated' /\ RequestsStated'
<1>1. \A v \in VisitIds, k \in Kinds : Stated(v, k)' = Stated(v, k)
  BY StatedFrame DEF Kinds, Param
<1>2. StatedFinite'
  BY StatedFrame DEF SortInv
<1>3. OwnersStated'
  BY <1>1 DEF SortInv, OwnersStated
<1>4. RequestsStated'
  <2>1. Said' = Said
    BY StatedFrame
  <2> QED BY <2>1 DEF SortInv, RequestsStated
<1> QED BY <1>2, <1>3, <1>4

\* A POST says of its visit what is then queued, and nothing of the others.
LEMMA SubmitSortInv ==
  ASSUME SortInv, NEW t \in Threads, NEW p \in Posts,
         insertVisit(t, p) \/ updateVisit(t, p)
  PROVE  SortInv'
<1>1. TypeOK /\ TypeOK'
  BY SubmitTypeOK DEF SortInv
<1>2. /\ Body(p) \in Request
      /\ requests' = [requests EXCEPT ![t] = Append(@, Body(p))]
      /\ UNCHANGED <<visits, vecs, pc, item, ops, ipc, racing>>
  BY <1>1, SubmitStep
<1>3. \A v \in VisitIds, k \in Kinds :
        Stated(v, k)' = Stated(v, k) \union
          IF Target(p) = v /\ k \in p.v.mask THEN {p.v[k]} ELSE {}
  BY <1>1, SubmitStated DEF Kinds, Param
<1>4. IdsAreIndices'
  BY <1>2 DEF SortInv, IdsAreIndices
<1>5. StatedFinite'
  <2> SUFFICES ASSUME NEW v \in VisitIds, NEW k \in Kinds PROVE IsFiniteSet(Stated(v, k)')
    BY DEF StatedFinite
  <2>1. IsFiniteSet(Stated(v, k)) /\ IsFiniteSet(Stated(v, k) \union {p.v[k]})
    BY FS_AddElement DEF SortInv, StatedFinite
  <2>2. Stated(v, k)' \in {Stated(v, k), Stated(v, k) \union {p.v[k]}}
    BY <1>3
  <2> QED BY <2>1, <2>2
<1>6. OwnersStated'
  BY <1>2, <1>3 DEF SortInv, OwnersStated
<1>7. \A v \in VisitIds, k \in Kinds :
        Said[v][k] = Stated(v, k) /\ Said'[v][k] = Stated(v, k)'
  BY DEF Said
<1>8. ASSUME NEW w, w.id \in VisitIds, SaidBy(Said, w)
      PROVE  SaidBy(Said', w)
  BY <1>3, <1>7, <1>8 DEF SaidBy
<1>9. SaidBy(Said', Body(p))
  <2>1. /\ Body(p).mask = p.v.mask /\ Body(p).id = Target(p)
        /\ \A k \in Kinds : Body(p)[k] = p.v[k]
    BY BodyType, VisitConstants DEF Body, Post, Visit, Kinds
  <2>2. Target(p) \in VisitIds
    BY <1>2, <2>1 DEF Request
  <2> QED BY <1>3, <1>7, <2>1, <2>2 DEF SaidBy
<1>10. ASSUME NEW u \in Threads, NEW i \in DOMAIN requests'[u]
       PROVE  SaidBy(Said', requests'[u][i])
  <2>1. requests \in [Threads -> Seq(Request)]
    BY <1>1 DEF TypeOK, RequestsTypeOK
  <2>2. requests'[u] = IF u = t THEN Append(requests[u], Body(p)) ELSE requests[u]
    BY <1>2, <2>1
  <2>3. \/ i \in DOMAIN requests[u] /\ requests'[u][i] = requests[u][i]
        \/ requests'[u][i] = Body(p)
    BY <2>1, <2>2
  <2>4. ASSUME i \in DOMAIN requests[u]
        PROVE  SaidBy(Said', requests[u][i])
    <3>1. requests[u] \in Seq(Request) /\ requests[u][i] \in Request
      BY <2>1, <2>4
    <3>2. requests[u][i].id \in VisitIds
      BY <3>1 DEF Request
    <3> QED BY <1>8, <2>4, <3>2 DEF SortInv, RequestsStated
  <2> QED BY <1>9, <2>3, <2>4
<1>11. RequestsStated'
  <2>1. pc \notin {"loop", "dequeue"} => SaidBy(Said', item)
    BY <1>1, <1>8, HeldRequest DEF SortInv, RequestsStated
  <2> QED BY <1>2, <1>10, <2>1 DEF RequestsStated
<1>12. ASSUME NEW k \in Kinds, Single(k)' PROVE SortParts(k)'
  <2>1. Single(k)
    BY <1>1, <1>12, SingleBefore DEF Next
  <2>2. SortParts(k)
    BY <2>1 DEF SortInv
  <2> QED BY <1>1, <1>2, <2>2, SortPartsFrame DEF SortHeld
<1> QED BY <1>1, <1>4, <1>5, <1>6, <1>11, <1>12 DEF SortInv

\* Taking a request changes no owner and no time.
LEMMA VisitsTakeTimes ==
  ASSUME TypeOK, NEW t \in Threads, VisitsTake(t)
  PROVE  \A v \in VisitIds : visits'[v].visited_at = visits[v].visited_at
<1> DEFINE w == Head(requests[t])
           it == visits[w.id]
           new == [it EXCEPT !.id   = IF "id"   \in w.mask THEN w.id   ELSE @,
                             !.mark = IF "mark" \in w.mask THEN w.mark ELSE @]
<1>1. w \in Request /\ w.id \in VisitIds
  <2>1. requests[t] \in Seq(Request) /\ requests[t] # <<>>
    BY DEF TypeOK, RequestsTypeOK, VisitsTake
  <2> QED BY <2>1 DEF Request
<1>2. it \in VisitItem /\ visits \in [VisitIds -> VisitItem]
  BY <1>1 DEF TypeOK, VisitsTypeOK
<1>3. visits' = [visits EXCEPT ![w.id] = new]
  BY DEF VisitsTake
<1> HIDE DEF w
<1>4. new.visited_at = it.visited_at
  BY <1>2 DEF VisitItem
<1> HIDE DEF new
<1> QED BY <1>1, <1>2, <1>3, <1>4

\* The request in the worker's hands says what it said in the queue.
LEMMA VisitsTakeSortInv ==
  ASSUME SortInv, NEW t \in Threads, VisitsTake(t)
  PROVE  SortInv'
<1>0. PICK w : w = Head(requests[t])
  OBVIOUS
<1>1. TypeOK /\ TypeOK' /\ IdsAreIndices'
  BY VisitsTakeTypeOK, NextIds DEF SortInv, Next, VisitsWorker
<1>2. requests[t] \in Seq(Request) /\ requests[t] # <<>> /\ w \in Request /\ w.id \in VisitIds
  <2>1. requests[t] \in Seq(Request) /\ requests[t] # <<>>
    BY <1>1 DEF TypeOK, RequestsTypeOK, VisitsTake
  <2> QED BY <1>0, <2>1 DEF Request
<1>3. /\ item' = w /\ pc = "dequeue" /\ pc' = "user_id"
      /\ requests' = [requests EXCEPT ![t] = Tail(@)]
      /\ UNCHANGED <<vecs, ops, ipc, racing, log>>
  BY <1>0 DEF VisitsTake
<1>4. \A v \in VisitIds :
        /\ \A k \in Kinds : visits'[v][k] = visits[v][k]
        /\ visits'[v].visited_at = visits[v].visited_at
  BY <1>1, VisitsTakeFields, VisitsTakeTimes
<1>5. /\ \A v \in VisitIds, k \in Kinds : Stated(v, k)' = Stated(v, k)
      /\ Said' = Said
  BY <1>3, StatedFrame DEF Kinds, Param
<1>6. StatedFinite' /\ OwnersStated'
  BY <1>3, <1>4, <1>5, StatedFrame DEF SortInv, OwnersStated
<1>7. \A u \in Threads : \A i \in DOMAIN requests[u] : SaidBy(Said, requests[u][i])
  BY DEF SortInv, RequestsStated
<1>8. ASSUME NEW u \in Threads, NEW i \in DOMAIN requests'[u]
      PROVE  SaidBy(Said, requests'[u][i])
  <2>1. requests \in [Threads -> Seq(Request)]
    BY <1>1 DEF TypeOK, RequestsTypeOK
  <2>2. CASE u = t
    <3>1. requests'[u] = Tail(requests[t])
      BY <1>3, <2>1, <2>2
    <3>2. i + 1 \in DOMAIN requests[t] /\ requests'[u][i] = requests[t][i + 1]
      BY <1>2, <3>1
    <3> QED BY <1>7, <3>2
  <2>3. CASE u # t
    BY <1>3, <1>7, <2>1, <2>3
  <2> QED BY <2>2, <2>3
<1>9. SaidBy(Said, w)
  <2>1. 1 \in DOMAIN requests[t] /\ requests[t][1] = w
    BY <1>0, <1>2
  <2> QED BY <1>7, <2>1
<1>10. RequestsStated'
  BY <1>3, <1>5, <1>8, <1>9 DEF RequestsStated
<1>11. ASSUME NEW k \in Kinds, Single(k)' PROVE SortParts(k)'
  <2>1. SortParts(k)
    BY <1>3, <1>11, StatedFrame DEF SortInv
  <2> QED BY <1>1, <1>3, <1>4, <2>1, SortPartsFrame DEF SortHeld
<1> QED BY <1>1, <1>6, <1>10, <1>11 DEF SortInv

\* A request names the owner the visit has, or the first it gets.
LEMMA VisitsOwnerSortInv ==
  ASSUME SortInv, NEW k \in Kinds, VisitsOwner(k)
  PROVE  SortInv'
<1> DEFINE u == item.id
           it == visits[u]
           r == OpIf(it[k], "remove", it.id)
           a == OpIf(item[k], "add", it.id)
<1>1. TypeOK /\ TypeOK' /\ IdsAreIndices'
  BY VisitsOwnerTypeOK, NextIds DEF SortInv, Next, VisitsWorker
<1>2. /\ u \in VisitIds /\ u # NoId /\ pc = k /\ pc' = NextField(k)
      /\ UNCHANGED <<vecs, requests, item, ipc, racing, log>>
  BY <1>1, HeldRequest, VisitConstants DEF VisitsOwner, Kinds
<1>3. \A v \in VisitIds :
        /\ visits'[v].visited_at = visits[v].visited_at
        /\ \A j \in Kinds :
             visits'[v][j] = IF v = u /\ j = k /\ k \in item.mask THEN item[k] ELSE visits[v][j]
  <2>1. CASE k \in item.mask
    <3>1. it \in VisitItem /\ visits' = [visits EXCEPT ![u] = [it EXCEPT ![k] = item[k]]]
      BY <1>1, <2>1, VisitsOwnerStep
    <3> QED BY <1>1, <1>2, <2>1, <3>1 DEF TypeOK, VisitsTypeOK, VisitItem, Kinds
  <2>2. CASE k \notin item.mask
    BY <2>2 DEF VisitsOwner
  <2> QED BY <2>1, <2>2
<1>4. /\ \A v \in VisitIds, j \in Kinds : Stated(v, j)' = Stated(v, j)
      /\ Said' = Said /\ StatedFinite'
  BY <1>2, StatedFrame DEF Kinds, Param, SortInv
<1>5. k \in item.mask => item[k] \in Stated(u, k)
  BY <1>2 DEF SortInv, RequestsStated, SaidBy, Said, Kinds
<1>6. OwnersStated'
  BY <1>3, <1>4, <1>5 DEF SortInv, OwnersStated
<1>7. RequestsStated'
  BY <1>2, <1>4 DEF SortInv, RequestsStated, Kinds
<1>8. ASSUME NEW j \in Kinds, Single(j)' PROVE SortParts(j)'
  <2>1. SortParts(j) /\ Single(j)
    BY <1>2, <1>8, StatedFrame DEF SortInv
  <2>2. \A o : ~ SortHeld(j, o)
    BY <1>2 DEF SortHeld, Kinds
  <2>3. DOMAIN ops = Kinds /\ ops[k] \in Seq(Op(k))
    BY <1>1 DEF TypeOK, IndexTypeOK
  <2>4. CASE k \notin item.mask
    <3>1. UNCHANGED <<visits, ops>>
      BY <2>4 DEF VisitsOwner
    <3> QED BY <1>1, <1>2, <2>1, <2>2, <3>1, SortPartsFrame
  <2>5. CASE k \in item.mask
    <3>1. /\ it[k] \in Owners(k) \union {NoId} /\ item[k] \in Owners(k) \union {NoId}
          /\ r \in Seq(Op(k)) /\ a \in Seq(Op(k))
          /\ ops' = [ops EXCEPT ![k] = (ops[k] \o r) \o a]
      BY <1>1, <2>5, VisitsOwnerStep
    <3>2. it.id \in {NoId, u}
      BY <1>2 DEF SortInv, IdsAreIndices
    <3>3. /\ \A op \in ToSet(r) : it[k] # NoId /\ op.owner = it[k] /\ op.vid = it.id
          /\ \A op \in ToSet(a) : item[k] # NoId /\ op.owner = item[k] /\ op.vid = it.id
      BY DEF OpIf, ToSet
    <3> HIDE DEF r, a
    <3>4. At(visits') = At(visits)
      BY <1>3 DEF At
    <3>5. CASE j # k
      <4>1. ops'[j] = ops[j] /\ \A v \in VisitIds : visits'[v][j] = visits[v][j]
        BY <1>3, <2>3, <3>1, <3>5
      <4>2. ListedByOwner(j)'
        BY <1>1, <1>2, <2>1, <4>1, ListedRefs DEF SortParts, ListedByOwner
      <4>3. RacingPending(j)' /\ SortedOrPending(j)'
        BY <1>2, <2>1, <2>2, <3>4, <4>1 DEF SortParts, RacingPending, SortedOrPending
      <4> QED BY <4>2, <4>3 DEF SortParts
    <3>6. CASE j = k
      <4>1. PICK q : q = ops[k] \o r
        OBVIOUS
      <4>2. q \in Seq(Op(k)) /\ ToSet(q) = ToSet(ops[k]) \union ToSet(r)
        BY <2>3, <3>1, <4>1, ToSetConcat
      <4>3. PICK n : n = q \o a
        OBVIOUS
      <4>4. ops'[k] = n /\ ToSet(n) = (ToSet(ops[k]) \union ToSet(r)) \union ToSet(a)
        <5>1. ops'[k] = n
          BY <2>3, <3>1, <4>1, <4>3
        <5>2. ToSet(n) = ToSet(q) \union ToSet(a)
          BY <3>1, <4>2, <4>3, ToSetConcat
        <5> QED BY <4>2, <5>1, <5>2
      <4>5. it[k] # NoId => it[k] = item[k]
        BY <1>2, <1>5, <2>1, <2>5, <3>6 DEF SortInv, OwnersStated, Single
      <4>6. \A v \in VisitIds : visits[v][k] # NoId => visits'[v][k] = visits[v][k]
        BY <1>3, <4>5
      <4>7. visits'[u][k] = item[k]
        BY <1>2, <1>3, <2>5
      <4>8. ListedByOwner(k)'
        <5>1. ASSUME NEW o \in Owners(k), NEW x \in ToSet(vecs[k][o]), x # NoId
              PROVE  visits'[x][k] = o
          <6>1. x \in VisitIds /\ visits[x][k] = o /\ o # NoId
            BY <1>1, <2>1, <3>6, <5>1, ListedRefs, OwnerIsNotNoId DEF SortParts, ListedByOwner
          <6> QED BY <4>6, <6>1
        <5>2. ASSUME NEW op \in ToSet(n), op.vid # NoId
              PROVE  visits'[op.vid][k] = op.owner
          <6>1. CASE op \in ToSet(ops[k])
            <7>1. op.vid \in VisitIds /\ visits[op.vid][k] = op.owner /\ op.owner # NoId
              BY <1>1, <2>1, <3>6, <5>2, <6>1, ListedRefs, OwnerIsNotNoId
                 DEF SortParts, ListedByOwner, Op
            <7> QED BY <4>6, <7>1
          <6>2. CASE op \in ToSet(r) \union ToSet(a)
            BY <3>2, <3>3, <4>5, <4>7, <5>2, <6>2
          <6> QED BY <4>4, <5>2, <6>1, <6>2
        <5> QED BY <1>2, <4>4, <5>1, <5>2 DEF ListedByOwner
      <4>9. /\ \A o : Sorts(ops[k], o) => Sorts(n, o)
            /\ ops[k] # <<>> => n[1] = ops[k][1]
            /\ ops[k] # <<>> /\ SortsBehind(ops[k]) => SortsBehind(n)
        <5>1. /\ \A o : Sorts(ops[k], o) => Sorts(q, o)
              /\ ops[k] # <<>> => q[1] = ops[k][1]
              /\ ops[k] # <<>> /\ SortsBehind(ops[k]) => SortsBehind(q)
          BY <2>3, <3>1, <4>1, SortsConcat
        <5>2. /\ \A o : Sorts(q, o) => Sorts(n, o)
              /\ q # <<>> => n[1] = q[1]
              /\ q # <<>> /\ SortsBehind(q) => SortsBehind(n)
          BY <3>1, <4>2, <4>3, SortsConcat
        <5>3. ops[k] # <<>> => q # <<>>
          BY <2>3, <3>1, <4>1
        <5> QED BY <5>1, <5>2, <5>3
      <4>10. RacingPending(k)'
        <5>1. ipc[k] = "apply" => ops[k] # <<>>
          BY <1>1 DEF TypeOK, IndexTypeOK
        <5> QED BY <1>2, <2>1, <2>2, <3>6, <4>4, <4>9, <5>1 DEF SortParts, RacingPending
      <4>11. SortedOrPending(k)'
        BY <1>2, <2>1, <2>2, <3>4, <3>6, <4>4, <4>9 DEF SortParts, SortedOrPending
      <4> QED BY <3>6, <4>8, <4>10, <4>11 DEF SortParts
    <3> QED BY <3>5, <3>6
  <2> QED BY <2>4, <2>5
<1> QED BY <1>1, <1>4, <1>6, <1>7, <1>8 DEF SortInv

\* A new time unsorts the vectors of the owners of the visit, which are sorted
\* next, and races with what is being applied to one of them.
LEMMA VisitsTimeSortInv ==
  ASSUME SortInv, VisitsTime
  PROVE  SortInv'
<1> DEFINE u == item.id
<1>1. TypeOK /\ TypeOK' /\ IdsAreIndices'
  BY VisitsTimeTypeOK, NextIds DEF SortInv, Next, VisitsWorker
<1>2. /\ u \in VisitIds /\ u # NoId /\ pc = "visited_at" /\ pc' = "sort"
      /\ UNCHANGED <<vecs, requests, item, ops, ipc, log>>
  BY <1>1, HeldRequest, VisitConstants DEF VisitsTime
<1>3. \A v \in VisitIds :
        /\ \A j \in Kinds : visits'[v][j] = visits[v][j]
        /\ v # u \/ "visited_at" \notin item.mask => visits'[v].visited_at = visits[v].visited_at
  BY <1>1 DEF VisitsTime, TypeOK, VisitsTypeOK, VisitItem, Kinds
<1>4. StatedFinite' /\ OwnersStated' /\ RequestsStated'
  BY <1>2, <1>3, StatedPartsFrame
<1>5. ASSUME NEW k \in Kinds, Single(k)' PROVE SortParts(k)'
  <2>1. SortParts(k)
    BY <1>2, <1>5, StatedFrame DEF SortInv
  <2>2. \A o : ~ SortHeld(k, o)
    BY <1>2 DEF SortHeld
  <2>3. CASE "visited_at" \notin item.mask
    BY <1>1, <1>2, <1>3, <2>1, <2>2, <2>3, SortPartsFrame DEF VisitsTime
  <2>4. CASE "visited_at" \in item.mask
    <3>1. \A o : SortHeld(k, o)' <=> visits[u][k] = o
      BY <1>2, <1>3, <2>4 DEF SortHeld
    <3>2. racing'[k] => racing[k] \/ Compares(k, u)
      BY <2>4 DEF VisitsTime
    <3>3. /\ \A o \in Owners(k) : ToSet(vecs[k][o]) \subseteq VisitRefs
          /\ \A op \in ToSet(ops[k]) : op.vid \in VisitRefs
      BY <1>1, ListedRefs DEF VisitRefs
    <3>4. ListedByOwner(k)'
      BY <1>2, <1>3, <2>1, <3>3 DEF SortParts, ListedByOwner, VisitRefs
    <3>5. RacingPending(k)'
      <4>1. CASE racing[k]
        BY <1>2, <2>1, <2>2, <4>1 DEF SortParts, RacingPending
      <4>2. CASE Compares(k, u)
        <5>1. ops[k] \in Seq(Op(k)) /\ ops[k] # <<>> /\ ipc[k] = "apply"
          BY <1>1, <4>2 DEF TypeOK, IndexTypeOK, Compares
        <5>2. ops[k][1] \in ToSet(ops[k]) /\ Head(ops[k]) = ops[k][1]
          BY <5>1, SortsTail
        <5>3. ops[k][1].owner \in Owners(k)
          BY <1>1, <5>2, ListedRefs DEF Op
        <5>4. visits[u][k] = ops[k][1].owner
          BY <1>2, <2>1, <4>2, <5>2, <5>3 DEF Compares, SortParts, ListedByOwner
        <5> QED BY <1>2, <3>1, <5>1, <5>4 DEF RacingPending
      <4> QED BY <3>2, <4>1, <4>2 DEF RacingPending
    <3>6. SortedOrPending(k)'
      <4> SUFFICES ASSUME NEW o \in Owners(k), visits[u][k] # o, ~ Sorts(ops[k], o)
                   PROVE  SortedBy(At(visits'), vecs[k][o])
        BY <1>2, <3>1 DEF SortedOrPending
      <4>1. SortedBy(At(visits), vecs[k][o])
        BY <2>1, <2>2 DEF SortParts, SortedOrPending
      <4>2. \A x \in ToSet(vecs[k][o]) : x \in VisitRefs /\ x # u
        BY <1>2, <2>1, <3>3 DEF SortParts, ListedByOwner
      <4>3. \A x \in ToSet(vecs[k][o]) : At(visits')[x] = At(visits)[x]
        BY <1>3, <4>2 DEF At, VisitRefs
      <4> QED BY <4>1, <4>3 DEF SortedBy, ToSet
    <3> QED BY <3>4, <3>5, <3>6 DEF SortParts
  <2> QED BY <2>3, <2>4
<1> QED BY <1>1, <1>4, <1>5 DEF SortInv

\* The sort is queued behind whatever was applied to the vector meanwhile.
LEMMA VisitsSortSortInv ==
  ASSUME SortInv, VisitsSort
  PROVE  SortInv'
<1> DEFINE u == item.id
<1>1. TypeOK /\ TypeOK' /\ IdsAreIndices'
  BY VisitsSortTypeOK, NextIds DEF SortInv, Next, VisitsWorker
<1>2. /\ u \in VisitIds /\ u # NoId /\ pc = "sort" /\ pc' = "loop"
      /\ UNCHANGED <<visits, vecs, requests, ipc, racing, log>>
  BY <1>1, HeldRequest, VisitConstants DEF VisitsSort
<1>3. StatedFinite' /\ OwnersStated' /\ RequestsStated'
  BY <1>2, StatedPartsFrame
<1>4. ASSUME NEW k \in Kinds, Single(k)' PROVE SortParts(k)'
  <2>1. SortParts(k)
    BY <1>2, <1>4, StatedFrame DEF SortInv
  <2>2. CASE "visited_at" \notin item.mask
    <3>1. ops' = ops /\ \A o : ~ SortHeld(k, o)
      BY <2>2 DEF VisitsSort, SortHeld
    <3> QED BY <1>1, <1>2, <2>1, <3>1, SortPartsFrame
  <2>3. CASE "visited_at" \in item.mask
    <3> DEFINE r == OpIf(visits[u][k], "sort", visits[u].id)
    <3>1. ops[k] \in Seq(Op(k)) /\ r \in Seq(Op(k)) /\ ops'[k] = ops[k] \o r
      BY <1>1, <2>3, VisitsSortStep DEF TypeOK, IndexTypeOK
    <3>2. visits[u].id \in {NoId, u}
      BY <1>2 DEF SortInv, IdsAreIndices
    <3>3. \A op \in ToSet(r) : op.vid # NoId => visits[op.vid][k] = op.owner
      BY <3>2 DEF OpIf, ToSet
    <3>4. ASSUME NEW o \in Owners(k), SortHeld(k, o) PROVE Sorts(r, o)
      <4>1. o # NoId /\ visits[u][k] = o
        BY <3>4, OwnerIsNotNoId DEF SortHeld
      <4> QED BY <4>1 DEF OpIf, Sorts
    <3> HIDE DEF r
    <3>5. PICK n : n = ops[k] \o r /\ ops'[k] = n
      BY <3>1
    <3>6. ToSet(n) = ToSet(ops[k]) \union ToSet(r)
      BY <3>1, <3>5, ToSetConcat
    <3>7. /\ \A o : Sorts(ops[k], o) \/ Sorts(r, o) => Sorts(n, o)
          /\ ops[k] # <<>> => n[1] = ops[k][1]
          /\ ops[k] # <<>> /\ (SortsBehind(ops[k]) \/ Sorts(r, ops[k][1].owner)) => SortsBehind(n)
      BY <3>1, <3>5, SortsConcat
    <3>8. ListedByOwner(k)'
      BY <1>2, <2>1, <3>3, <3>5, <3>6 DEF SortParts, ListedByOwner
    <3>9. RacingPending(k)'
      <4> SUFFICES ASSUME racing[k] PROVE ipc[k] = "apply" /\ SortsBehind(n)
        BY <1>2, <3>5 DEF RacingPending
      <4>1. ipc[k] = "apply" /\ ops[k] # <<>>
        BY <1>1, <2>1 DEF SortParts, RacingPending, TypeOK, IndexTypeOK
      <4>2. ops[k][1].owner \in Owners(k)
        <5>1. ops[k][1] \in Op(k)
          BY <3>1, <4>1
        <5> QED BY <5>1 DEF Op
      <4> QED BY <2>1, <3>4, <3>7, <4>1, <4>2 DEF SortParts, RacingPending
    <3>10. SortedOrPending(k)'
      BY <1>2, <2>1, <3>4, <3>5, <3>7 DEF SortParts, SortedOrPending
    <3> QED BY <3>8, <3>9, <3>10 DEF SortParts
  <2> QED BY <2>2, <2>3
<1> QED BY <1>1, <1>3, <1>4 DEF SortInv

\* What is applied undisturbed leaves the vector sorted; what raced with a new
\* time has a sort behind it.
LEMMA IndexApplySortInv ==
  ASSUME SortInv, NEW k \in Kinds, IndexApply(k)
  PROVE  SortInv'
<1> DEFINE op == Head(ops[k])
           vec == vecs[k][op.owner]
<1>1. TypeOK /\ TypeOK' /\ IdsAreIndices'
  BY IndexApplyTypeOK, NextIds DEF SortInv, Next, IndexWorker
<1>2. /\ UNCHANGED <<visits, requests, pc, item, log>>
      /\ \A j \in Kinds : j # k => racing'[j] = racing[j] /\ ipc'[j] = ipc[j]
      /\ racing'[k] = FALSE
  BY <1>1 DEF IndexApply, TypeOK, IndexTypeOK
<1>3. StatedFinite' /\ OwnersStated' /\ RequestsStated'
  <2>1. Said' = Said /\ StatedFinite' /\ \A v \in VisitIds, j \in Kinds : Stated(v, j)' = Stated(v, j)
    BY <1>2, StatedFrame DEF SortInv, Kinds, Param
  <2> QED BY <1>2, <2>1 DEF SortInv, OwnersStated, RequestsStated
<1>4. /\ op \in Op(k) /\ op.owner \in Owners(k) /\ ops[k] # <<>>
      /\ ops' = [ops EXCEPT ![k] = Tail(ops[k])]
      /\ vec \in Seq(VisitRefs)
  BY <1>1, IndexApplyStep
<1>5. PICK new \in Applied(k, op, vec) : vecs' = [vecs EXCEPT ![k][op.owner] = new]
  BY <1>1, IndexApplyStep
<1>6. /\ op.act \in {"add", "remove", "sort"}
      /\ op.act = "add" => ToSet(new) = ToSet(vec) \union {op.vid}
      /\ op.act # "add" => ToSet(new) \subseteq ToSet(vec)
  BY <1>1, <1>4, <1>5, AppliedType DEF Op
<1>7. /\ DOMAIN vecs = Kinds /\ DOMAIN ops = Kinds
      /\ vecs[k] \in [Owners(k) -> Seq(VisitRefs)] /\ ops[k] \in Seq(Op(k))
  BY <1>1 DEF TypeOK, VectorsTypeOK, IndexTypeOK
<1>8. /\ \A o : Sorts(ops[k], o) => Sorts(Tail(ops[k]), o) \/ (op.act = "sort" /\ op.owner = o)
      /\ SortsBehind(ops[k]) => Sorts(Tail(ops[k]), op.owner)
      /\ ToSet(Tail(ops[k])) \subseteq ToSet(ops[k]) /\ op \in ToSet(ops[k])
      /\ op = ops[k][1]
  <2>1. PICK n : n = Tail(ops[k])
    OBVIOUS
  <2>2. /\ \A o : Sorts(ops[k], o) => Sorts(n, o) \/ (ops[k][1].act = "sort" /\ ops[k][1].owner = o)
        /\ SortsBehind(ops[k]) => Sorts(n, ops[k][1].owner)
        /\ ToSet(n) \subseteq ToSet(ops[k]) /\ ops[k][1] \in ToSet(ops[k])
        /\ Head(ops[k]) = ops[k][1]
    BY <1>4, <1>7, <2>1, SortsTail
  <2> QED BY <2>1, <2>2
<1>9. ops'[k] = Tail(ops[k]) /\ vecs'[k] = [vecs[k] EXCEPT ![op.owner] = new]
  BY <1>4, <1>5, <1>7
<1>10. ASSUME NEW j \in Kinds, Single(j)' PROVE SortParts(j)'
  <2>1. SortParts(j)
    BY <1>2, <1>10, StatedFrame DEF SortInv
  <2>2. CASE j # k
    <3>1. vecs'[j] = vecs[j] /\ ops'[j] = ops[j]
      BY <1>4, <1>5, <1>7, <2>2
    <3> QED BY <1>2, <2>1, <2>2, <3>1
            DEF SortParts, ListedByOwner, RacingPending, SortedOrPending, SortHeld
  <2>3. CASE j = k
    <3>1. \A o \in Owners(k) : vecs'[k][o] = IF o = op.owner THEN new ELSE vecs[k][o]
      BY <1>7, <1>9
    <3>2. ListedByOwner(k)'
      <4>1. ASSUME NEW o \in Owners(k), NEW x \in ToSet(vecs'[k][o]), x # NoId
            PROVE  visits[x][k] = o
        <5>1. x \in ToSet(vecs[k][o]) \/ (o = op.owner /\ x = op.vid)
          BY <1>6, <3>1, <4>1
        <5> QED BY <1>8, <2>1, <2>3, <4>1, <5>1 DEF SortParts, ListedByOwner
      <4>2. \A x \in ToSet(ops'[k]) : x.vid # NoId => visits[x.vid][k] = x.owner
        BY <1>8, <1>9, <2>1, <2>3 DEF SortParts, ListedByOwner
      <4> QED BY <1>2, <4>1, <4>2 DEF ListedByOwner
    <3>3. RacingPending(k)'
      BY <1>2 DEF RacingPending
    <3>4. ASSUME NEW o \in Owners(k)
          PROVE  SortedBy(At(visits), vecs'[k][o]) \/ Sorts(ops'[k], o) \/ SortHeld(k, o)
      <4>1. SortedBy(At(visits), vecs[k][o]) \/ Sorts(ops[k], o) \/ SortHeld(k, o)
        BY <2>1, <2>3, <3>4 DEF SortParts, SortedOrPending
      <4>2. CASE o # op.owner
        BY <1>8, <1>9, <3>1, <3>4, <4>1, <4>2
      <4>3. CASE o = op.owner /\ racing[k]
        BY <1>8, <1>9, <2>1, <2>3, <4>3 DEF SortParts, RacingPending
      <4>4. CASE o = op.owner /\ ~ racing[k]
        <5>1. /\ SortedBy(At(visits), vec) => SortedBy(At(visits), new)
              /\ op.act = "sort" => SortedBy(At(visits), new)
          BY <1>1, <1>4, <1>5, <4>4, AppliedSorts
        <5> QED BY <1>8, <1>9, <3>1, <3>4, <4>1, <4>4, <5>1
      <4> QED BY <4>2, <4>3, <4>4
    <3>5. SortedOrPending(k)'
      BY <1>2, <3>4 DEF SortedOrPending, SortHeld
    <3> QED BY <2>3, <3>2, <3>3, <3>5 DEF SortParts
  <2> QED BY <2>2, <2>3
<1> QED BY <1>1, <1>3, <1>10 DEF SortInv

\* Every step keeps the invariant.
LEMMA NextSortInv == SortInv /\ [Next]_vars => SortInv'
<1> SUFFICES ASSUME SortInv, [Next]_vars PROVE SortInv'
  OBVIOUS
<1>1. TypeOK /\ TypeOK' /\ IdsAreIndices'
  BY NextTypeOK, NextIds DEF SortInv
<1>2. ASSUME NEW t \in Threads, NEW p \in Posts, insertVisit(t, p) \/ updateVisit(t, p)
      PROVE  SortInv'
  BY <1>2, SubmitSortInv
<1>3. ASSUME UNCHANGED <<visits, vecs, ops, requests, item, log, racing>>,
             UNCHANGED pc \/ (pc \in {"loop", "dequeue"} /\ pc' \in {"loop", "dequeue"}),
             \A k \in Kinds : ipc[k] = "apply" => ipc'[k] = ipc[k]
      PROVE  SortInv'
  <2>1. StatedFinite' /\ OwnersStated' /\ RequestsStated'
    BY <1>3, StatedPartsFrame
  <2>2. ASSUME NEW k \in Kinds, Single(k)' PROVE SortParts(k)'
    <3>1. SortParts(k)
      BY <1>3, <2>2, StatedFrame DEF SortInv
    <3>2. \A o : SortHeld(k, o) => SortHeld(k, o)'
      BY <1>3 DEF SortHeld
    <3> QED BY <1>1, <1>3, <3>1, <3>2, SortPartsFrame DEF SortParts, RacingPending
  <2> QED BY <1>1, <2>1, <2>2 DEF SortInv
<1>4. CASE enableWriters \/ disableWriters \/ VisitsCheck \/ VisitsEmpty \/ UNCHANGED vars
  BY <1>3, <1>4 DEF enableWriters, disableWriters, VisitsCheck, VisitsEmpty, vars
<1>5. ASSUME NEW k \in Kinds, IndexCheck(k) \/ IndexEmpty(k) \/ IndexTake(k) PROVE SortInv'
  <2>1. \A j \in Kinds : ipc[j] = "apply" => ipc'[j] = ipc[j]
    BY <1>1, <1>5 DEF IndexCheck, IndexEmpty, IndexTake, TypeOK, IndexTypeOK
  <2> QED BY <1>3, <1>5, <2>1 DEF IndexCheck, IndexEmpty, IndexTake
<1>6. ASSUME NEW k \in Kinds, IndexApply(k) \/ VisitsOwner(k) PROVE SortInv'
  BY <1>6, IndexApplySortInv, VisitsOwnerSortInv
<1>7. ASSUME NEW t \in Threads, VisitsTake(t) PROVE SortInv'
  BY <1>7, VisitsTakeSortInv
<1> QED BY <1>2, <1>4, <1>5, <1>6, <1>7, VisitsTimeSortInv, VisitsSortSortInv
        DEF Next, VisitsWorker, IndexWorker

\* A finite set of at most one element has no two.
LEMMA AtMostOne ==
  ASSUME NEW S, IsFiniteSet(S), Cardinality(S) <= 1, NEW a \in S, NEW b \in S
  PROVE  a = b
<1> SUFFICES ASSUME a # b PROVE FALSE
  OBVIOUS
<1>1. IsFiniteSet({a}) /\ Cardinality({a}) = 1
  BY FS_Singleton
<1>2. IsFiniteSet({a} \union {b}) /\ Cardinality({a} \union {b}) = 2
  <2>1. b \notin {a}
    OBVIOUS
  <2> QED BY <1>1, <2>1, FS_AddElement
<1>3. {a} \union {b} \subseteq S
  OBVIOUS
<1>4. Cardinality({a} \union {b}) <= Cardinality(S)
  BY <1>3, FS_Subset
<1>5. Cardinality(S) \in Nat
  BY FS_CardinalityType
<1> QED BY <1>2, <1>4, <1>5

\* The binary searches of insert_sorted and erase_sorted find a vector in the
\* order they rely on, or a sort of it is still to come, as long as no visit
\* changes its owner: whatever is re-timed, and under whatever search or sort.
THEOREM AlwaysSorted == Spec => []SortedUnlessPending
<1>1. SortInv => SortedUnlessPending
  <2> SUFFICES ASSUME SortInv, NEW k \in Kinds,
                      \A v \in VisitIds : Cardinality(Stated(v, k)) <= 1, NEW o \in Owners(k)
               PROVE  \/ SortedBy(At(visits), vecs[k][o])
                      \/ \E op \in ToSet(ops[k]) : op.act = "sort" /\ op.owner = o
                      \/ /\ pc = "sort" /\ "visited_at" \in item.mask
                         /\ visits[item.id][k] = o
    BY DEF SortedUnlessPending
  <2>1. Single(k)
    BY AtMostOne DEF SortInv, StatedFinite, Single
  <2>2. SortedOrPending(k)
    BY <2>1 DEF SortInv, SortParts
  <2> QED BY <2>2 DEF SortedOrPending, Sorts, SortHeld, ToSet
<1> QED BY <1>1, InitSortInv, NextSortInv, PTL DEF Spec
-----------------------------------------------------------------------------
(* The vectors exactly.  The invariant follows every visit through the ops:*)
(* what the vectors list now, the ops queued turn into what the visits say.*)

\* As VectorsExact supposes: a time names one visit, every POST was accepted.
TimesTell ==
  \A v, w \in VisitIds :
    \A a \in Stated(v, "visited_at"), b \in Stated(w, "visited_at") : a = b <=> v = w

Undisturbed == TimesTell /\ \A e \in Logged : e.code = 200

\* A visit is ever told finitely many times.
TimesFinite == \A v \in VisitIds : IsFiniteSet(Stated(v, "visited_at"))

\* The times stated of each visit.
Told == [v \in VisitIds |-> Stated(v, "visited_at")]

\* Request w creates a visit whole or is about a stored one, at a time told of it.
Sound(store, told, w) ==
  /\ IF "id" \in w.mask THEN w.mask = Param ELSE store[w.id].id # NoId
  /\ "visited_at" \in w.mask => w.visited_at \in told[w.id]

\* So is every request on its way, and the visit in hand is stored.
RequestsSound ==
  /\ \A t \in Threads : \A i \in DOMAIN requests[t] : Sound(visits, Told, requests[t][i])
  /\ pc \notin {"loop", "dequeue"} =>
       Sound(visits, Told, item) /\ visits[item.id].id = item.id

\* The visit the worker creates does not have its time yet.
Untimed ==
  /\ pc \in {"user_id", "location_id", "visited_at"} /\ "id" \in item.mask
  /\ visits[item.id].visited_at # item.visited_at

\* A stored visit has a time that was told of it, once it has one.
TimesKnown ==
  \A v \in VisitIds : visits[v].id # NoId =>
    visits[v].visited_at \in Stated(v, "visited_at") \/ (Untimed /\ item.id = v)

\* A visit that is not stored is nobody's.
UnstoredUnowned == \A v \in VisitIds, k \in Kinds : visits[v].id = NoId => visits[v][k] = NoId

\* What is listed, or named by an op, is stored.
IndexedStored(k) ==
  /\ \A o \in Owners(k) : \A x \in ToSet(vecs[k][o]) : visitExists(x)
  /\ \A op \in ToSet(ops[k]) : visitExists(op.vid)

\* No element of s occurs twice; no two of them have one key.
OnceEach(s) == \A i, j \in DOMAIN s : s[i] = s[j] => i = j

KeysApart(at, s) == \A x, y \in ToSet(s) : at[x] = at[y] => x = y

ListedOnce(k) == \A o \in Owners(k) : OnceEach(vecs[k][o])

\* An op takes visit v from the vector of x to that of y; NoId stands for none.
Moves(op, v, x, y) ==
  IF op.vid = v /\ op.act = "add" THEN x = NoId /\ y = op.owner
  ELSE IF op.vid = v /\ op.act = "remove" THEN x = op.owner /\ y = NoId
  ELSE x = y

ListedBy(f, v, x) == \A o \in DOMAIN f : v \in ToSet(f[o]) <=> o = x

\* The ops q take visit v, one after the other, from where f lists it to x.
Follows(X, f, q, v, x) ==
  \E w \in [0 .. Len(q) -> X] :
    /\ ListedBy(f, v, w[0]) /\ w[Len(q)] = x
    /\ \A i \in 1 .. Len(q) : Moves(q[i], v, w[i - 1], w[i])

OwnerRefs(k) == Owners(k) \union {NoId}

\* The ops queued take every visit to the vector of the owner it has.
FollowsOps(k) ==
  \A v \in VisitIds : Follows(OwnerRefs(k), vecs[k], ops[k], v, visits[v][k])

\* The worker has yet to come to the owner of kind k.
ToReach(k) == pc = "user_id" \/ pc = k

\* A visit without its time is added by the last op, and listed only after it.
UntimedLast(k) ==
  Untimed =>
    /\ \A i \in 1 .. Len(ops[k]) :
         ops[k][i].vid = item.id => i = Len(ops[k]) /\ ops[k][i].act = "add"
    /\ \A o \in Owners(k) : item.id \in ToSet(vecs[k][o]) => ops[k] = <<>>
    /\ ToReach(k) => visits[item.id][k] = NoId

\* The next thing done to the vector of o is to sort it.
SortNext(k, o) ==
  IF ops[k] = <<>> THEN SortHeld(k, o)
  ELSE ops[k][1].act = "sort" /\ ops[k][1].owner = o

SortedOrNext(k) == \A o \in Owners(k) : SortedBy(At(visits), vecs[k][o]) \/ SortNext(k, o)

\* What races with a new time is an add, with a sort of its vector to follow.
RacingAdd(k) ==
  racing[k] =>
    /\ ops[k] # <<>> /\ ops[k][1].act = "add"
    /\ IF Len(ops[k]) = 1 THEN SortHeld(k, ops[k][1].owner)
       ELSE ops[k][2].act = "sort" /\ ops[k][2].owner = ops[k][1].owner

VectorParts(k) ==
  /\ IndexedStored(k) /\ ListedOnce(k) /\ FollowsOps(k)
  /\ SortedOrNext(k) /\ RacingAdd(k) /\ UntimedLast(k)

StoreParts == RequestsSound /\ TimesKnown /\ UnstoredUnowned

ExactParts == StoreParts /\ \A k \in Kinds : VectorParts(k)

VectorInv == TypeOK /\ IdsAreIndices /\ TimesFinite /\ (Undisturbed => ExactParts)
-----------------------------------------------------------------------------
(* Ops.                                                                    *)

\* An op enqueued behind the others goes on from where they end.
LEMMA FollowsAppend ==
  ASSUME NEW S, NEW q \in Seq(S), NEW op \in S, NEW X, NEW f, NEW v, NEW x, NEW y \in X,
         Follows(X, f, q, v, x), Moves(op, v, x, y), NEW n, n = q \o <<op>>
  PROVE  Follows(X, f, n, v, y)
<1>1. PICK l \in Nat : l = Len(q)
  OBVIOUS
<1>2. Len(n) = l + 1 /\ n[l + 1] = op /\ \A i \in 1 .. l : n[i] = q[i]
  BY <1>1
<1>3. PICK w \in [0 .. l -> X] :
        /\ ListedBy(f, v, w[0]) /\ w[l] = x
        /\ \A i \in 1 .. l : Moves(q[i], v, w[i - 1], w[i])
  BY <1>1 DEF Follows
<1>4. PICK u : u = [i \in 0 .. l + 1 |-> IF i = l + 1 THEN y ELSE w[i]]
  OBVIOUS
<1>5. u \in [0 .. l + 1 -> X] /\ u[0] = w[0] /\ u[l] = x /\ u[l + 1] = y
  BY <1>1, <1>3, <1>4
<1>6. ASSUME NEW i \in 1 .. l PROVE Moves(n[i], v, u[i - 1], u[i])
  <2>1. u[i - 1] = w[i - 1] /\ u[i] = w[i] /\ n[i] = q[i]
    BY <1>2, <1>4
  <2> QED BY <1>3, <2>1
<1>7. ASSUME NEW i \in 1 .. l + 1 PROVE Moves(n[i], v, u[i - 1], u[i])
  <2>1. CASE i = l + 1
    <3>1. i - 1 = l
      BY <2>1
    <3> QED BY <1>2, <1>5, <2>1, <3>1
  <2>2. CASE i # l + 1
    <3>1. i \in 1 .. l
      BY <2>2
    <3> QED BY <1>6, <3>1
  <2> QED BY <2>1, <2>2
<1> QED BY <1>2, <1>3, <1>5, <1>7 DEF Follows

\* The same of an op that is only enqueued for an owner.
LEMMA FollowsOpIf ==
  ASSUME NEW k \in Kinds, NEW q \in Seq(Op(k)), NEW f, NEW v \in VisitIds,
         NEW x, NEW y \in OwnerRefs(k), NEW act \in {"add", "remove", "sort"},
         NEW o \in OwnerRefs(k), NEW u \in VisitRefs,
         Follows(OwnerRefs(k), f, q, v, x),
         o = NoId => x = y, o # NoId => Moves([act |-> act, owner |-> o, vid |-> u], v, x, y),
         NEW n, n = q \o OpIf(o, act, u)
  PROVE  Follows(OwnerRefs(k), f, n, v, y)
<1>1. CASE o = NoId
  <2>1. OpIf(o, act, u) = <<>>
    BY <1>1 DEF OpIf
  <2>2. n = q
    BY <2>1
  <2> QED BY <1>1, <2>2
<1>2. CASE o # NoId
  <2>1. PICK op : op = [act |-> act, owner |-> o, vid |-> u]
    OBVIOUS
  <2>2. op \in Op(k)
    BY <1>2, <2>1 DEF Op, OwnerRefs
  <2>3. n = q \o <<op>>
    BY <1>2, <2>1 DEF OpIf
  <2> HIDE DEF OwnerRefs
  <2> QED BY <1>2, <2>1, <2>2, <2>3, FollowsAppend
<1> QED BY <1>1, <1>2

\* What is applied brings a visit where the other ops go on from.
LEMMA FollowsTail ==
  ASSUME NEW S, NEW q \in Seq(S), q # <<>>, NEW X, NEW f, NEW g, NEW v, NEW x,
         Follows(X, f, q, v, x), NEW n, n = Tail(q),
         \A a, b \in X : ListedBy(f, v, a) /\ Moves(q[1], v, a, b) => ListedBy(g, v, b)
  PROVE  Follows(X, g, n, v, x)
<1>1. PICK l \in Nat : l = Len(q) /\ l >= 1
  OBVIOUS
<1>2. Len(n) = l - 1 /\ \A i \in 1 .. l - 1 : n[i] = q[i + 1]
  BY <1>1
<1>3. PICK w \in [0 .. l -> X] :
        /\ ListedBy(f, v, w[0]) /\ w[l] = x
        /\ \A i \in 1 .. l : Moves(q[i], v, w[i - 1], w[i])
  BY <1>1 DEF Follows
<1>4. PICK u : u = [i \in 0 .. l - 1 |-> w[i + 1]]
  OBVIOUS
<1>5. u \in [0 .. l - 1 -> X] /\ u[0] = w[1] /\ u[l - 1] = x
  BY <1>1, <1>3, <1>4
<1>6. ListedBy(g, v, w[1])
  <2>1. Moves(q[1], v, w[0], w[1]) /\ w[0] \in X /\ w[1] \in X
    BY <1>1, <1>3
  <2> QED BY <1>3, <2>1
<1>7. ASSUME NEW i \in 1 .. l - 1 PROVE Moves(n[i], v, u[i - 1], u[i])
  <2>1. u[i - 1] = w[i] /\ u[i] = w[i + 1] /\ n[i] = q[i + 1] /\ i + 1 \in 1 .. l
    BY <1>2, <1>4
  <2>2. Moves(q[i + 1], v, w[(i + 1) - 1], w[i + 1])
    BY <1>3, <2>1
  <2>3. (i + 1) - 1 = i
    OBVIOUS
  <2> QED BY <2>1, <2>2, <2>3
<1> QED BY <1>2, <1>5, <1>6, <1>7 DEF Follows

\* With nothing queued a visit is listed where it belongs.
LEMMA FollowsNone ==
  ASSUME NEW X, NEW f, NEW v, NEW x
  PROVE  /\ Follows(X, f, <<>>, v, x) => ListedBy(f, v, x)
         /\ x \in X /\ ListedBy(f, v, x) => Follows(X, f, <<>>, v, x)
<1>1. ASSUME Follows(X, f, <<>>, v, x) PROVE ListedBy(f, v, x)
  BY <1>1 DEF Follows
<1>2. ASSUME x \in X, ListedBy(f, v, x) PROVE Follows(X, f, <<>>, v, x)
  <2>1. PICK w : w = [i \in 0 .. 0 |-> x]
    OBVIOUS
  <2>2. w \in [0 .. 0 -> X] /\ w[0] = x
    BY <1>2, <2>1
  <2>3. Len(<<>>) = 0 /\ 1 .. 0 = {}
    OBVIOUS
  <2> QED BY <1>2, <2>2, <2>3 DEF Follows
<1> QED BY <1>1, <1>2

\* A visit ends where the last op about it puts it.
LEMMA FollowsLastAdd ==
  ASSUME NEW S, NEW q \in Seq(S), q # <<>>, NEW X, NEW f, NEW v, NEW x,
         Follows(X, f, q, v, x), q[Len(q)].vid = v, q[Len(q)].act = "add"
  PROVE  x = q[Len(q)].owner
<1>1. PICK l \in Nat : l = Len(q) /\ l >= 1
  OBVIOUS
<1>2. PICK w \in [0 .. l -> X] : w[l] = x /\ \A i \in 1 .. l : Moves(q[i], v, w[i - 1], w[i])
  BY <1>1 DEF Follows
<1>3. Moves(q[l], v, w[l - 1], w[l])
  BY <1>1, <1>2
<1> QED BY <1>1, <1>2, <1>3 DEF Moves
\* What is applied next finds the visit where the ops start from.
LEMMA FollowsHead ==
  ASSUME NEW S, NEW q \in Seq(S), q # <<>>, NEW X, NEW f, NEW v, NEW x,
         Follows(X, f, q, v, x)
  PROVE  \E a, b \in X : ListedBy(f, v, a) /\ Moves(q[1], v, a, b)
<1>1. PICK l \in Nat : l = Len(q) /\ l >= 1
  OBVIOUS
<1>2. PICK w \in [0 .. l -> X] :
        ListedBy(f, v, w[0]) /\ \A i \in 1 .. l : Moves(q[i], v, w[i - 1], w[i])
  BY <1>1 DEF Follows
<1>3. Moves(q[1], v, w[0], w[1]) /\ w[0] \in X /\ w[1] \in X
  BY <1>1, <1>2
<1> QED BY <1>2, <1>3

\* What is enqueued goes behind the others.
LEMMA BehindOthers ==
  ASSUME NEW S, NEW q \in Seq(S), NEW r \in Seq(S), NEW n, n = q \o r
  PROVE  /\ n \in Seq(S) /\ Len(n) = Len(q) + Len(r)
         /\ ToSet(n) = ToSet(q) \union ToSet(r)
         /\ \A i \in 1 .. Len(q) : n[i] = q[i]
         /\ \A i \in 1 .. Len(r) : n[Len(q) + i] = r[i]
<1>1. ToSet(n) = ToSet(q) \union ToSet(r)
  BY ToSetConcat
<1>2. PICK a \in Nat, b \in Nat : a = Len(q) /\ b = Len(r)
  OBVIOUS
<1>3. /\ n \in Seq(S) /\ Len(n) = a + b
      /\ \A i \in 1 .. a : n[i] = q[i]
      /\ \A i \in 1 .. b : n[a + i] = r[i]
  BY <1>2, JoinIs
<1> QED BY <1>1, <1>2, <1>3

-----------------------------------------------------------------------------
(* Vectors.                                                                *)

\* A vector is as long as it has members when it lists each once.
LEMMA OnceEachLength ==
  ASSUME NEW S, IsFiniteSet(S), NEW T, NEW s \in Seq(T), ToSet(s) = S
  PROVE  OnceEach(s) <=> Len(s) = Cardinality(S)
<1>1. PICK l \in Nat : l = Len(s)
  OBVIOUS
<1>2. IsFiniteSet(1 .. l) /\ Cardinality(1 .. l) = l
  BY FS_Interval
<1>3. s \in [1 .. l -> S] /\ \A x \in S : \E i \in 1 .. l : s[i] = x
  BY <1>1 DEF ToSet
<1>4. s \in Surjection(1 .. l, S)
  BY <1>3 DEF Surjection
<1>5. Cardinality(S) = l <=> s \in Injection(1 .. l, S)
  BY <1>2, <1>4, FS_Surjection
<1>6. s \in Injection(1 .. l, S) <=> OnceEach(s)
  BY <1>1, <1>3 DEF Injection, IsInjective, OnceEach
<1> QED BY <1>1, <1>5, <1>6

\* insert_sorted repeats nothing that it does not insert again.
LEMMA InsertSortedOnce ==
  ASSUME NEW S, NEW vec \in Seq(S), NEW elem \in S, NEW at, NEW races,
         OnceEach(vec), elem \notin ToSet(vec),
         NEW new \in insert_sorted(at, vec, elem, races)
  PROVE  OnceEach(new)
<1>1. PICK l \in Nat : l = Len(vec)
  OBVIOUS
<1>2. PICK p \in 1 .. l + 1 : new = InsertAt(vec, p, elem)
  BY <1>1 DEF insert_sorted, Positions, UpperBounds
<1>3. new \in Seq(S) /\ Inserted(new, vec, elem, p)
  BY <1>1, <1>2, InsertAtIs
<1>4. /\ Len(new) = l + 1
      /\ \A i \in 1 .. l + 1 :
           new[i] = IF i < p THEN vec[i] ELSE IF i = p THEN elem ELSE vec[i - 1]
  BY <1>1, <1>3 DEF Inserted
<1>5. \A i \in 1 .. l : vec[i] # elem
  BY <1>1 DEF ToSet
<1>6. \A i, j \in 1 .. l : vec[i] = vec[j] => i = j
  BY <1>1 DEF OnceEach
<1>7. ASSUME NEW i \in 1 .. l + 1, NEW j \in 1 .. l + 1, i < j PROVE new[i] # new[j]
  <2>1. CASE i = p
    <3>1. new[i] = elem /\ new[j] = vec[j - 1] /\ j - 1 \in 1 .. l
      BY <1>4, <1>7, <2>1
    <3> QED BY <1>5, <3>1
  <2>2. CASE j = p
    <3>1. new[j] = elem /\ new[i] = vec[i] /\ i \in 1 .. l
      BY <1>4, <1>7, <2>2
    <3> QED BY <1>5, <3>1
  <2>3. CASE j < p
    <3>1. new[i] = vec[i] /\ new[j] = vec[j] /\ i \in 1 .. l /\ j \in 1 .. l
      BY <1>4, <1>7, <2>3
    <3> QED BY <1>6, <1>7, <3>1
  <2>4. CASE i > p
    <3>1. new[i] = vec[i - 1] /\ new[j] = vec[j - 1] /\ i - 1 \in 1 .. l /\ j - 1 \in 1 .. l
      BY <1>4, <1>7, <2>4
    <3>2. i - 1 # j - 1
      BY <1>7
    <3> QED BY <1>6, <3>1, <3>2
  <2>5. CASE i < p /\ j > p
    <3>1. new[i] = vec[i] /\ new[j] = vec[j - 1] /\ i \in 1 .. l /\ j - 1 \in 1 .. l
      BY <1>4, <1>7, <2>5
    <3>2. i # j - 1
      BY <2>5
    <3> QED BY <1>6, <3>1, <3>2
  <2> QED BY <2>1, <2>2, <2>3, <2>4, <2>5
<1>8. DOMAIN new = 1 .. l + 1
  BY <1>3, <1>4
<1> QED BY <1>7, <1>8 DEF OnceEach

\* With the keys apart, erase_sorted erases what it is asked to and nothing else.
LEMMA EraseSortedExact ==
  ASSUME NEW S, NEW at \in [S -> Int], NEW vec \in Seq(S), NEW elem,
         SortedBy(at, vec), OnceEach(vec), elem \in ToSet(vec),
         KeysApart(at, vec),
         NEW new \in erase_sorted(at, vec, elem, FALSE)
  PROVE  OnceEach(new) /\ \A x : x \in ToSet(new) <=> x \in ToSet(vec) /\ x # elem
<1>1. PICK l \in Nat : l = Len(vec)
  OBVIOUS
<1>2. PICK j \in 1 .. l : vec[j] = elem
  BY <1>1 DEF ToSet
<1>3. /\ \A i \in 1 .. l : vec[i] \in S /\ at[vec[i]] \in Int /\ vec[i] \in ToSet(vec)
      /\ \A i, m \in 1 .. l : i < m => at[vec[i]] <= at[vec[m]]
      /\ \A i, m \in 1 .. l : vec[i] = vec[m] => i = m
  <2>1. \A i \in 1 .. l : vec[i] \in S /\ vec[i] \in ToSet(vec)
    BY <1>1 DEF ToSet
  <2>2. \A i, m \in 1 .. l : i < m => at[vec[i]] <= at[vec[m]]
    BY <1>1 DEF SortedBy
  <2>3. \A i, m \in 1 .. l : vec[i] = vec[m] => i = m
    <3>1. DOMAIN vec = 1 .. l
      BY <1>1
    <3> QED BY <3>1 DEF OnceEach
  <2> QED BY <2>1, <2>2, <2>3
<1>4. \A i, m \in 1 .. l : i < m => at[vec[i]] < at[vec[m]]
  <2> SUFFICES ASSUME NEW i \in 1 .. l, NEW m \in 1 .. l, i < m
               PROVE  at[vec[i]] < at[vec[m]]
    OBVIOUS
  <2>1. at[vec[i]] # at[vec[m]]
    BY <1>3 DEF KeysApart
  <2> QED BY <1>3, <2>1
<1>5. PICK p \in 1 .. l + 1 :
        /\ p > 1 => VisitAtCmp(at, vec[p - 1], elem)
        /\ p <= l => ~ VisitAtCmp(at, vec[p], elem)
        /\ new = ErasedAt(vec, p, elem)
  BY <1>1 DEF erase_sorted, LowerBounds, Positions
<1>6. p = j
  <2>1. ~ (p > j)
    <3> SUFFICES ASSUME p > j PROVE FALSE
      OBVIOUS
    <3>1. at[vec[p - 1]] < at[vec[j]] /\ p - 1 \in 1 .. l
      BY <1>2, <1>5 DEF VisitAtCmp
    <3>2. p - 1 = j \/ j < p - 1
      OBVIOUS
    <3> QED BY <1>3, <1>4, <3>1, <3>2
  <2>2. ~ (p < j)
    <3> SUFFICES ASSUME p < j PROVE FALSE
      OBVIOUS
    <3>1. p \in 1 .. l /\ at[vec[p]] < at[vec[j]]
      BY <1>4
    <3>2. vec[p] # elem
      BY <1>2, <1>3, <3>1
    <3> QED BY <1>2, <1>5, <3>1, <3>2 DEF VisitAtCmp
  <2> QED BY <2>1, <2>2
<1>7. new = RemoveAt(vec, j)
  BY <1>1, <1>2, <1>5, <1>6 DEF ErasedAt
<1>8. /\ new \in Seq(S) /\ Len(new) = l - 1
      /\ \A i \in 1 .. l - 1 : new[i] = IF i < j THEN vec[i] ELSE vec[i + 1]
  BY <1>1, <1>7, RemoveAtIs
<1>9. ASSUME NEW i \in 1 .. l - 1
      PROVE  \E m \in 1 .. l : m # j /\ new[i] = vec[m] /\ m = (IF i < j THEN i ELSE i + 1)
  <2>1. CASE i < j
    BY <1>8, <2>1
  <2>2. CASE ~ (i < j)
    <3>1. i + 1 \in 1 .. l /\ i + 1 # j /\ new[i] = vec[i + 1]
      BY <1>8, <2>2
    <3> QED BY <2>2, <3>1
  <2> QED BY <2>1, <2>2
<1>10. DOMAIN new = 1 .. l - 1
  BY <1>8
<1>11. OnceEach(new)
  <2> SUFFICES ASSUME NEW i \in 1 .. l - 1, NEW m \in 1 .. l - 1, new[i] = new[m]
               PROVE  i = m
    BY <1>10 DEF OnceEach
  <2>1. PICK a \in 1 .. l : new[i] = vec[a] /\ a = (IF i < j THEN i ELSE i + 1)
    BY <1>9
  <2>2. PICK b \in 1 .. l : new[m] = vec[b] /\ b = (IF m < j THEN m ELSE m + 1)
    BY <1>9
  <2>3. a = b
    BY <1>3, <2>1, <2>2
  <2> QED BY <2>1, <2>2, <2>3
<1>12. ASSUME NEW x \in ToSet(new) PROVE x \in ToSet(vec) \ {elem}
  <2>1. PICK i \in 1 .. l - 1 : new[i] = x
    BY <1>10 DEF ToSet
  <2>2. PICK m \in 1 .. l : m # j /\ x = vec[m]
    BY <1>9, <2>1
  <2> QED BY <1>2, <1>3, <2>2
<1>13. ASSUME NEW x \in ToSet(vec), x # elem PROVE x \in ToSet(new)
  <2>1. PICK m \in 1 .. l : vec[m] = x /\ m # j
    BY <1>1, <1>2, <1>13 DEF ToSet
  <2>2. CASE m < j
    <3>1. m \in 1 .. l - 1 /\ new[m] = x
      BY <1>8, <2>1, <2>2
    <3> QED BY <1>10, <3>1 DEF ToSet
  <2>3. CASE m > j
    <3>1. m - 1 \in 1 .. l - 1 /\ new[m - 1] = x
      <4>1. m - 1 \in 1 .. l - 1 /\ ~ (m - 1 < j) /\ (m - 1) + 1 = m
        BY <2>3
      <4> QED BY <1>8, <2>1, <4>1
    <3> QED BY <1>10, <3>1 DEF ToSet
  <2> QED BY <2>1, <2>2, <2>3
<1> QED BY <1>11, <1>12, <1>13

\* A sort repeats nothing.
LEMMA SortOnce ==
  ASSUME NEW S, NEW vec \in Seq(S), NEW at, NEW races, OnceEach(vec),
         NEW new \in sort(at, vec, races)
  PROVE  OnceEach(new)
<1>1. PICK l \in Nat : l = Len(vec)
  OBVIOUS
<1>2. PICK q \in [DOMAIN vec -> DOMAIN vec] :
        /\ \A j \in DOMAIN vec : \E i \in DOMAIN vec : q[i] = j
        /\ new = [i \in DOMAIN vec |-> vec[q[i]]]
  BY DEF sort, Rearrangements
<1>3. IsFiniteSet(1 .. l)
  BY FS_Interval
<1>4. q \in Surjection(1 .. l, 1 .. l) /\ DOMAIN vec = 1 .. l
  <2>1. DOMAIN vec = 1 .. l
    BY <1>1
  <2> QED BY <1>2, <2>1 DEF Surjection
<1>5. q \in Injection(1 .. l, 1 .. l)
  BY <1>3, <1>4, FS_Surjection
<1>6. \A i, j \in 1 .. l : q[i] = q[j] => i = j
  BY <1>2, <1>4, <1>5 DEF Injection, IsInjective
<1>7. \A i, j \in 1 .. l : vec[i] = vec[j] => i = j
  BY <1>1 DEF OnceEach
<1>8. DOMAIN new = 1 .. l /\ \A i \in 1 .. l : new[i] = vec[q[i]] /\ q[i] \in 1 .. l
  BY <1>2, <1>4
<1>9. ASSUME NEW i \in 1 .. l, NEW j \in 1 .. l, new[i] = new[j]
      PROVE  i = j
  <2>1. q[i] \in 1 .. l /\ q[j] \in 1 .. l
    BY <1>8
  <2>2. vec[q[i]] = vec[q[j]]
    BY <1>8, <1>9
  <2>3. q[i] = q[j]
    BY <1>7, <2>1, <2>2
  <2> QED BY <1>6, <2>3
<1> QED BY <1>8, <1>9 DEF OnceEach

\* What an op makes of a vector that lists its visits once, and of what it lists.
LEMMA AppliedExact ==
  ASSUME TypeOK, NEW k \in Kinds, NEW op \in Op(k), NEW vec \in Seq(VisitRefs),
         NEW new \in Applied(k, op, vec), OnceEach(vec),
         op.act = "add" => op.vid \notin ToSet(vec),
         op.act = "remove" =>
           /\ op.vid \in ToSet(vec) /\ ~ racing[k] /\ SortedBy(At(visits), vec)
           /\ KeysApart(At(visits), vec)
  PROVE  /\ OnceEach(new)
         /\ ToSet(new) = IF op.act = "add" THEN ToSet(vec) \union {op.vid}
                         ELSE IF op.act = "remove" THEN ToSet(vec) \ {op.vid}
                         ELSE ToSet(vec)
<1>1. PICK at : at = At(visits)
  OBVIOUS
<1>2. op.act \in {"add", "remove", "sort"} /\ op.vid \in VisitRefs
  BY DEF Op
<1>3. at \in [VisitRefs -> Int]
  BY <1>1, AtType DEF TypeOK
<1>4. /\ op.act = "add" => ToSet(new) = ToSet(vec) \union {op.vid}
      /\ op.act = "sort" => ToSet(new) = ToSet(vec)
  BY AppliedType
<1>5. CASE op.act = "add"
  <2>1. new \in insert_sorted(at, vec, op.vid, racing[k])
    BY <1>1, <1>5 DEF Applied
  <2>2. OnceEach(new)
    BY <1>2, <1>5, <2>1, InsertSortedOnce
  <2> QED BY <1>4, <1>5, <2>2
<1>6. CASE op.act = "remove"
  <2>1. racing[k] = FALSE
    BY <1>6 DEF TypeOK, IndexTypeOK
  <2>2. new \in erase_sorted(at, vec, op.vid, FALSE)
    BY <1>1, <1>6, <2>1 DEF Applied
  <2>3. /\ op.vid \in ToSet(vec) /\ SortedBy(at, vec)
        /\ KeysApart(at, vec)
    BY <1>1, <1>6
  <2>4. OnceEach(new) /\ \A x : x \in ToSet(new) <=> x \in ToSet(vec) /\ x # op.vid
    <3>1. PICK S, elem : S = VisitRefs /\ elem = op.vid
      OBVIOUS
    <3>2. /\ elem \in ToSet(vec) /\ new \in erase_sorted(at, vec, elem, FALSE)
          /\ vec \in Seq(S) /\ OnceEach(vec) /\ at \in [S -> Int]
          /\ SortedBy(at, vec) /\ KeysApart(at, vec)
      BY <1>3, <2>2, <2>3, <3>1
    <3>3. OnceEach(new) /\ \A x : x \in ToSet(new) <=> x \in ToSet(vec) /\ x # elem
      BY <3>2, EraseSortedExact
    <3> QED BY <3>1, <3>3
  <2> QED BY <1>6, <2>4
<1>7. CASE op.act = "sort"
  <2>1. new \in sort(at, vec, racing[k])
    BY <1>1, <1>7 DEF Applied
  <2>2. OnceEach(new)
    BY <2>1, SortOnce
  <2> QED BY <1>4, <1>7, <2>2
<1> QED BY <1>2, <1>5, <1>6, <1>7
-----------------------------------------------------------------------------
(* The steps.                                                              *)

\* Without a POST the times said are what they were.
LEMMA UndisturbedFrame ==
  ASSUME UNCHANGED log
  PROVE  /\ \A v \in VisitIds : Stated(v, "visited_at")' = Stated(v, "visited_at")
         /\ TimesFinite' <=> TimesFinite
         /\ Undisturbed' <=> Undisturbed
<1>1. /\ \A v \in VisitIds : Stated(v, "visited_at")' = Stated(v, "visited_at")
      /\ Logged' = Logged
  BY StatedFrame DEF Param, Logged
<1> QED BY <1>1 DEF TimesFinite, Undisturbed, TimesTell

\* What a sound request says stays sound as visits are created and times told.
LEMMA SoundKept ==
  ASSUME \A v \in VisitIds : visits[v].id # NoId => visits'[v].id # NoId,
         \A v \in VisitIds : Stated(v, "visited_at") \subseteq Stated(v, "visited_at")'
  PROVE  \A w \in Request : Sound(visits, Told, w) => Sound(visits', Told', w)
<1> SUFFICES ASSUME NEW w \in Request, Sound(visits, Told, w) PROVE Sound(visits', Told', w)
  OBVIOUS
<1>1. w.id \in VisitIds
  BY DEF Request
<1>2. Told[w.id] \subseteq Told'[w.id]
  BY <1>1 DEF Told
<1> QED BY <1>1, <1>2 DEF Sound

\* The queues of requests and the stored visits, when no visit is created.
LEMMA StoreFrame ==
  ASSUME TypeOK, StoreParts, UNCHANGED <<requests, log>>,
         \A v \in VisitIds : visits'[v].id = visits[v].id,
         pc' \in {"loop", "dequeue"} \/ (pc \notin {"loop", "dequeue"} /\ UNCHANGED item),
         TimesKnown', UnstoredUnowned'
  PROVE  StoreParts'
<1>1. Told' = Told
  BY UndisturbedFrame DEF Told
<1>2. \A w \in Request : Sound(visits, Told, w) => Sound(visits', Told', w)
  BY SoundKept, UndisturbedFrame
<1>3. RequestsSound'
  <2>1. ASSUME NEW t \in Threads, NEW i \in DOMAIN requests'[t]
        PROVE  Sound(visits', Told', requests'[t][i])
    <3>1. requests[t] \in Seq(Request) /\ requests'[t] = requests[t]
      BY DEF TypeOK, RequestsTypeOK
    <3>2. requests[t][i] \in Request /\ Sound(visits, Told, requests[t][i])
      BY <2>1, <3>1 DEF StoreParts, RequestsSound
    <3> QED BY <1>2, <3>1, <3>2
  <2>2. ASSUME pc' \notin {"loop", "dequeue"}
        PROVE  Sound(visits', Told', item') /\ visits'[item'.id].id = item'.id
    <3>1. item' = item /\ item \in Request /\ item.id \in VisitIds
      BY <2>2, HeldRequest
    <3>2. Sound(visits, Told, item) /\ visits[item.id].id = item.id
      BY <2>2 DEF StoreParts, RequestsSound
    <3> QED BY <1>2, <3>1, <3>2
  <2> QED BY <2>1, <2>2 DEF RequestsSound
<1> QED BY <1>3 DEF StoreParts

\* The vectors and the ops of an index worker, when a step leaves them alone.
LEMMA VectorFrame ==
  ASSUME TypeOK, NEW k \in Kinds, VectorParts(k),
         vecs'[k] = vecs[k], ops'[k] = ops[k], racing'[k] = racing[k],
         \A v \in VisitIds : visits[v].id # NoId => visits'[v].id # NoId,
         \A v \in VisitIds : visits'[v][k] = visits[v][k],
         \A v \in VisitIds : visits'[v].visited_at = visits[v].visited_at,
         \A o : SortHeld(k, o) => SortHeld(k, o)',
         \/ UntimedLast(k)'
         \/ ~ Untimed'
         \/ Untimed /\ item'.id = item.id /\ item.id \in VisitIds /\ (ToReach(k)' => ToReach(k))
  PROVE  VectorParts(k)'
<1>1. At(visits') = At(visits)
  BY DEF At
<1>2. IndexedStored(k)'
  BY DEF VectorParts, IndexedStored, visitExists
<1>3. ListedOnce(k)' /\ FollowsOps(k)'
  BY DEF VectorParts, ListedOnce, FollowsOps
<1>4. SortedOrNext(k)' /\ RacingAdd(k)'
  <2>1. \A o : SortNext(k, o) => SortNext(k, o)'
    BY DEF SortNext
  <2>2. SortedOrNext(k)'
    BY <1>1, <2>1 DEF VectorParts, SortedOrNext
  <2>3. RacingAdd(k)'
    BY DEF VectorParts, RacingAdd
  <2> QED BY <2>2, <2>3
<1>5. UntimedLast(k)'
  BY DEF VectorParts, UntimedLast
<1> QED BY <1>2, <1>3, <1>4, <1>5 DEF VectorParts

\* A handler enqueues a sound request, or its answer is not 200; what it logs
\* tells no time that was not apart from the others before.
LEMMA SubmitExact ==
  ASSUME TypeOK, TimesFinite, NEW t \in Threads, NEW p \in Posts,
         insertVisit(t, p) \/ updateVisit(t, p)
  PROVE  /\ TimesFinite'
         /\ Undisturbed' => Undisturbed /\ (ExactParts => ExactParts')
<1>1. /\ Body(p) \in Request
      /\ requests' = [requests EXCEPT ![t] = Append(@, Body(p))]
      /\ UNCHANGED <<visits, vecs, pc, item, ops, ipc, racing>>
  BY SubmitStep
<1>2. PICK e \in Entry :
        /\ Logged' = Logged \union {e}
        /\ e.code = 200 => IF "id" \in p.v.mask THEN p.v.mask = Param ELSE visitExists(Target(p))
  BY SubmitLogged
<1>3. \A v \in VisitIds :
        Stated(v, "visited_at")' = Stated(v, "visited_at") \union
          IF Target(p) = v /\ "visited_at" \in p.v.mask THEN {p.v["visited_at"]} ELSE {}
  BY SubmitStated DEF Param
<1>4. \A v \in VisitIds : Stated(v, "visited_at") \subseteq Stated(v, "visited_at")'
  BY <1>3
<1>5. TimesFinite'
  <2> SUFFICES ASSUME NEW v \in VisitIds PROVE IsFiniteSet(Stated(v, "visited_at")')
    BY DEF TimesFinite
  <2>1. /\ IsFiniteSet(Stated(v, "visited_at"))
        /\ IsFiniteSet(Stated(v, "visited_at") \union {p.v["visited_at"]})
    BY FS_AddElement DEF TimesFinite
  <2>2. Stated(v, "visited_at")' \in
          {Stated(v, "visited_at"), Stated(v, "visited_at") \union {p.v["visited_at"]}}
    BY <1>3
  <2> QED BY <2>1, <2>2
<1>6. ASSUME Undisturbed' PROVE Undisturbed /\ (ExactParts => ExactParts')
  <2>1. Undisturbed
    BY <1>2, <1>4, <1>6 DEF Undisturbed, TimesTell
  <2>2. ASSUME ExactParts PROVE ExactParts'
    <3>1. \A w \in Request : Sound(visits, Told, w) => Sound(visits', Told', w)
      BY <1>1, <1>4, SoundKept
    <3>2. Sound(visits', Told', Body(p))
      <4>1. e.code = 200
        BY <1>2, <1>6 DEF Undisturbed
      <4>2. Body(p).mask = p.v.mask /\ Body(p).id = Target(p) /\ Body(p).visited_at = p.v.visited_at
        BY BodyType, VisitConstants DEF Body, Post, Visit
      <4>3. Target(p) \in VisitIds
        BY <1>1, <4>2 DEF Request
      <4>4. "visited_at" \in p.v.mask => p.v.visited_at \in Told'[Target(p)]
        BY <1>3, <4>3 DEF Told
      <4> QED BY <1>1, <1>2, <4>1, <4>2, <4>4 DEF Sound, visitExists
    <3>3. ASSUME NEW u \in Threads, NEW i \in DOMAIN requests'[u]
          PROVE  Sound(visits', Told', requests'[u][i])
      <4>1. requests \in [Threads -> Seq(Request)]
        BY DEF TypeOK, RequestsTypeOK
      <4>2. requests'[u] = IF u = t THEN Append(requests[u], Body(p)) ELSE requests[u]
        BY <1>1, <4>1
      <4>3. \/ i \in DOMAIN requests[u] /\ requests'[u][i] = requests[u][i]
            \/ requests'[u][i] = Body(p)
        BY <4>1, <4>2
      <4>4. ASSUME i \in DOMAIN requests[u]
            PROVE  Sound(visits', Told', requests[u][i])
        <5>1. requests[u][i] \in Request
          BY <4>1, <4>4
        <5> QED BY <2>2, <3>1, <4>4, <5>1 DEF ExactParts, StoreParts, RequestsSound
      <4> QED BY <3>2, <4>3, <4>4
    <3>4. RequestsSound'
      <4>1. pc \notin {"loop", "dequeue"} =>
              Sound(visits', Told', item) /\ visits[item.id].id = item.id
        BY <2>2, <3>1, HeldRequest DEF ExactParts, StoreParts, RequestsSound
      <4> QED BY <1>1, <3>3, <4>1 DEF RequestsSound
    <3>5. Untimed' = Untimed
      BY <1>1 DEF Untimed
    <3>6. TimesKnown' /\ UnstoredUnowned'
      BY <1>1, <1>4, <2>2, <3>5 DEF ExactParts, StoreParts, TimesKnown, UnstoredUnowned
    <3>7. ASSUME NEW k \in Kinds PROVE VectorParts(k)'
      <4>1. VectorParts(k) /\ UntimedLast(k)
        BY <2>2 DEF ExactParts, VectorParts
      <4>2. UntimedLast(k)' /\ \A o : SortHeld(k, o) => SortHeld(k, o)'
        BY <1>1, <3>5, <4>1 DEF UntimedLast, ToReach, SortHeld
      <4> QED BY <1>1, <4>1, <4>2, VectorFrame
    <3> QED BY <3>4, <3>6, <3>7 DEF ExactParts, StoreParts
  <2> QED BY <2>1, <2>2
<1> QED BY <1>5, <1>6

\* Of a visit that is created nothing is listed, and nothing queued.
LEMMA VisitsTakeExact ==
  ASSUME TypeOK, IdsAreIndices, Undisturbed, ExactParts, NEW t \in Threads, VisitsTake(t)
  PROVE  ExactParts'
<1>1. PICK w : w = Head(requests[t])
  OBVIOUS
<1>2. requests[t] \in Seq(Request) /\ requests[t] # <<>> /\ w \in Request /\ w.id \in VisitIds
  <2>1. requests[t] \in Seq(Request) /\ requests[t] # <<>>
    BY DEF TypeOK, RequestsTypeOK, VisitsTake
  <2> QED BY <1>1, <2>1 DEF Request
<1>3. /\ item' = w /\ pc = "dequeue" /\ pc' = "user_id"
      /\ requests' = [requests EXCEPT ![t] = Tail(@)]
      /\ UNCHANGED <<vecs, ops, ipc, racing, log>>
  BY <1>1 DEF VisitsTake
<1>4. \A v \in VisitIds :
        /\ \A k \in Kinds : visits'[v][k] = visits[v][k]
        /\ visits'[v].visited_at = visits[v].visited_at
        /\ visits'[v].id = IF v = w.id /\ "id" \in w.mask THEN w.id ELSE visits[v].id
  BY <1>1, VisitsTakeFields, VisitsTakeTimes
<1>5. NoId \notin VisitIds /\ Told' = Told
      /\ \A v \in VisitIds : Stated(v, "visited_at")' = Stated(v, "visited_at")
  BY <1>3, UndisturbedFrame, BlankVisitType DEF Told
<1>6. \A v \in VisitIds : visits[v].id # NoId => visits'[v].id # NoId
  BY <1>4, <1>5
<1>7. \A x \in Request : Sound(visits, Told, x) => Sound(visits', Told', x)
  BY <1>5, <1>6, SoundKept
<1>8. \A u \in Threads : \A i \in DOMAIN requests[u] : Sound(visits, Told, requests[u][i])
  BY DEF ExactParts, StoreParts, RequestsSound
<1>9. ASSUME NEW u \in Threads, NEW i \in DOMAIN requests'[u]
      PROVE  Sound(visits', Told', requests'[u][i])
  <2>1. requests \in [Threads -> Seq(Request)]
    BY DEF TypeOK, RequestsTypeOK
  <2>2. PICK j \in DOMAIN requests[u] : requests'[u][i] = requests[u][j]
    <3>1. CASE u = t
      <4>1. requests'[u] = Tail(requests[t])
        BY <1>3, <2>1, <3>1
      <4>2. i + 1 \in DOMAIN requests[t] /\ requests'[u][i] = requests[t][i + 1]
        BY <1>2, <4>1
      <4> QED BY <3>1, <4>2
    <3>2. CASE u # t
      BY <1>3, <2>1, <3>2
    <3> QED BY <3>1, <3>2
  <2>3. requests[u][j] \in Request
    BY <2>1
  <2> QED BY <1>7, <1>8, <2>2, <2>3
<1>10. Sound(visits, Told, w)
  <2>1. 1 \in DOMAIN requests[t] /\ requests[t][1] = w
    BY <1>1, <1>2
  <2> QED BY <1>8, <2>1
<1>11. visits'[w.id].id = w.id
  BY <1>2, <1>4, <1>10 DEF Sound, IdsAreIndices
<1>12. RequestsSound'
  BY <1>2, <1>3, <1>7, <1>9, <1>10, <1>11 DEF RequestsSound
<1>13. "id" \in w.mask => w.visited_at \in Stated(w.id, "visited_at")
  BY <1>2, <1>10 DEF Sound, Told, Param
<1>14. \A v \in VisitIds : visits[v].id # NoId => visits[v].visited_at \in Stated(v, "visited_at")
  BY <1>3 DEF ExactParts, StoreParts, TimesKnown, Untimed
<1>15. Untimed' <=> "id" \in w.mask /\ visits[w.id].visited_at # w.visited_at
  BY <1>2, <1>3, <1>4 DEF Untimed
<1>16. TimesKnown'
  <2> SUFFICES ASSUME NEW v \in VisitIds, visits'[v].id # NoId,
                      visits[v].visited_at \notin Stated(v, "visited_at")
               PROVE  Untimed' /\ w.id = v
    BY <1>3, <1>4, <1>5 DEF TimesKnown
  <2>1. v = w.id /\ "id" \in w.mask
    BY <1>4, <1>14
  <2> QED BY <1>13, <1>15, <2>1
<1>17. UnstoredUnowned'
  BY <1>4, <1>6 DEF ExactParts, StoreParts, UnstoredUnowned
<1>18. ASSUME NEW k \in Kinds PROVE VectorParts(k)'
  <2>1. VectorParts(k)
    BY <1>18 DEF ExactParts
  <2>2. ASSUME Untimed'
        PROVE  /\ visits[w.id].id = NoId /\ visits'[w.id][k] = NoId
               /\ \A o \in Owners(k) : w.id \notin ToSet(vecs[k][o])
               /\ \A i \in 1 .. Len(ops[k]) : ops[k][i].vid # w.id
    <3>1. visits[w.id].id = NoId
      BY <1>2, <1>13, <1>14, <1>15, <2>2 DEF Undisturbed, TimesTell
    <3>2. visits'[w.id][k] = NoId
      BY <1>2, <1>4, <3>1 DEF ExactParts, StoreParts, UnstoredUnowned
    <3>3. \A o \in Owners(k) : w.id \notin ToSet(vecs[k][o])
      BY <2>1, <3>1 DEF VectorParts, IndexedStored, visitExists
    <3>4. \A i \in 1 .. Len(ops[k]) : ops[k][i] \in ToSet(ops[k])
      <4>1. ops[k] \in Seq(Op(k))
        BY DEF TypeOK, IndexTypeOK
      <4> QED BY <4>1 DEF ToSet
    <3>5. \A i \in 1 .. Len(ops[k]) : ops[k][i].vid # w.id
      BY <2>1, <3>1, <3>4 DEF VectorParts, IndexedStored, visitExists
    <3> QED BY <3>1, <3>2, <3>3, <3>5
  <2>3. UntimedLast(k)'
    BY <1>3, <2>2 DEF UntimedLast
  <2>4. \A o : ~ SortHeld(k, o)
    BY <1>3 DEF SortHeld
  <2> QED BY <1>3, <1>4, <1>6, <2>1, <2>3, <2>4, VectorFrame
<1> QED BY <1>12, <1>16, <1>17, <1>18 DEF ExactParts, StoreParts

\* What is queued behind the others leaves what comes next as it was.
LEMMA NextKept ==
  ASSUME TypeOK, NEW k \in Kinds, SortedOrNext(k), RacingAdd(k),
         NEW r \in Seq(Op(k)), ops'[k] = ops[k] \o r,
         racing'[k] = racing[k], vecs'[k] = vecs[k],
         \A v \in VisitIds : visits'[v].visited_at = visits[v].visited_at,
         \A o \in Owners(k) :
           SortHeld(k, o) => Len(r) = 1 /\ r[1].act = "sort" /\ r[1].owner = o
  PROVE  SortedOrNext(k)' /\ RacingAdd(k)'
<1>1. ops[k] \in Seq(Op(k))
  BY DEF TypeOK, IndexTypeOK
<1>2. PICK n : n = ops[k] \o r
  OBVIOUS
<1>3. PICK l \in Nat, m \in Nat : l = Len(ops[k]) /\ m = Len(r)
  BY <1>1
<1>4. /\ ops'[k] = n /\ n \in Seq(Op(k)) /\ Len(n) = l + m
      /\ \A i \in 1 .. l : n[i] = ops[k][i]
      /\ \A i \in 1 .. m : n[l + i] = r[i]
  BY <1>1, <1>2, <1>3, BehindOthers
<1>5. At(visits') = At(visits)
  BY DEF At
<1>6. (ops[k] = <<>> <=> l = 0) /\ (n = <<>> <=> l + m = 0)
  BY <1>1, <1>3, <1>4
<1>7. ASSUME NEW o \in Owners(k), SortNext(k, o) PROVE SortNext(k, o)'
  <2>1. CASE l = 0
    <3>1. m = 1 /\ r[1].act = "sort" /\ r[1].owner = o
      BY <1>3, <1>6, <1>7, <2>1 DEF SortNext
    <3>2. n[1] = r[1]
      BY <1>4, <2>1, <3>1
    <3> QED BY <1>4, <1>6, <3>1, <3>2 DEF SortNext
  <2>2. CASE l # 0
    <3>1. n[1] = ops[k][1] /\ n # <<>> /\ ops[k] # <<>>
      BY <1>4, <1>6, <2>2
    <3> QED BY <1>4, <1>7, <3>1 DEF SortNext
  <2> QED BY <2>1, <2>2
<1>8. SortedOrNext(k)'
  BY <1>5, <1>7 DEF SortedOrNext
<1>9. RacingAdd(k)'
  <2> SUFFICES ASSUME racing[k]
               PROVE  /\ n # <<>> /\ n[1].act = "add" /\ Len(n) # 1
                      /\ n[2].act = "sort" /\ n[2].owner = n[1].owner
    BY <1>4 DEF RacingAdd
  <2>1. l # 0 /\ n[1] = ops[k][1] /\ ops[k][1].act = "add" /\ ops[k][1].owner \in Owners(k)
    <3>1. l # 0 /\ ops[k][1].act = "add"
      BY <1>6 DEF RacingAdd
    <3>2. ops[k][1] \in Op(k)
      BY <1>1, <1>3, <3>1
    <3> QED BY <1>4, <3>1, <3>2 DEF Op
  <2>2. CASE l = 1
    <3>1. m = 1 /\ r[1].act = "sort" /\ r[1].owner = ops[k][1].owner
      BY <1>3, <2>1, <2>2 DEF RacingAdd
    <3>2. n[2] = r[1]
      BY <1>4, <2>2, <3>1
    <3> QED BY <1>4, <1>6, <2>1, <2>2, <3>1, <3>2
  <2>3. CASE l # 1
    <3>1. ops[k][2].act = "sort" /\ ops[k][2].owner = ops[k][1].owner
      BY <1>3, <2>3 DEF RacingAdd
    <3>2. n[2] = ops[k][2]
      BY <1>4, <2>1, <2>3
    <3> QED BY <1>4, <1>6, <2>1, <2>3, <3>1, <3>2
  <2> QED BY <2>2, <2>3
<1> QED BY <1>8, <1>9

\* The sort of a vector with a new time is next, or next but an add.
LEMMA VisitsSortExact ==
  ASSUME TypeOK, ExactParts, VisitsSort
  PROVE  ExactParts'
<1> DEFINE u == item.id
<1>1. /\ u \in VisitIds /\ pc = "sort" /\ pc' = "loop"
      /\ UNCHANGED <<visits, vecs, requests, ipc, racing, log>>
  BY HeldRequest DEF VisitsSort
<1>2. ~ Untimed /\ ~ Untimed'
  BY <1>1 DEF Untimed
<1>3. TimesKnown' /\ UnstoredUnowned'
  BY <1>1, <1>2, UndisturbedFrame DEF ExactParts, StoreParts, TimesKnown, UnstoredUnowned
<1>4. StoreParts'
  BY <1>1, <1>3, StoreFrame DEF ExactParts
<1>5. ASSUME NEW k \in Kinds PROVE VectorParts(k)'
  <2>1. VectorParts(k)
    BY DEF ExactParts
  <2>2. CASE "visited_at" \notin item.mask
    <3>1. ops' = ops /\ \A o : ~ SortHeld(k, o)
      BY <2>2 DEF VisitsSort, SortHeld
    <3> QED BY <1>1, <1>2, <2>1, <3>1, VectorFrame
  <2>3. CASE "visited_at" \in item.mask
    <3> DEFINE o == visits[u][k]
               r == OpIf(o, "sort", visits[u].id)
    <3>1. ops[k] \in Seq(Op(k)) /\ r \in Seq(Op(k)) /\ ops'[k] = ops[k] \o r
      BY <2>3, VisitsSortStep DEF TypeOK, IndexTypeOK
    <3>2. visits[u].id = u /\ o \in OwnerRefs(k) /\ NoId \notin VisitIds
      BY <1>1, FieldType, BlankVisitType
         DEF ExactParts, StoreParts, RequestsSound, TypeOK, VisitsTypeOK, OwnerRefs
    <3>3. FollowsOps(k)'
      <4> SUFFICES ASSUME NEW v \in VisitIds
                   PROVE  Follows(OwnerRefs(k), vecs[k], ops'[k], v, visits[v][k])
        BY <1>1 DEF FollowsOps
      <4>1. Follows(OwnerRefs(k), vecs[k], ops[k], v, visits[v][k])
        BY <2>1 DEF VectorParts, FollowsOps
      <4>2. visits[v][k] \in OwnerRefs(k)
        BY FieldType DEF TypeOK, VisitsTypeOK, OwnerRefs
      <4>3. PICK x \in OwnerRefs(k) : x = visits[v][k]
        BY <4>2
      <4>4. Moves([act |-> "sort", owner |-> o, vid |-> u], v, x, x)
        BY DEF Moves
      <4>5. u \in VisitRefs /\ ops'[k] = ops[k] \o OpIf(o, "sort", u)
        BY <1>1, <3>1, <3>2 DEF VisitRefs
      <4> HIDE DEF o, u
      <4> QED BY <3>1, <3>2, <4>1, <4>3, <4>4, <4>5, FollowsOpIf
    <3>4. \A op \in ToSet(r) : visitExists(op.vid)
      BY <1>1, <3>2 DEF OpIf, ToSet, visitExists
    <3>5. \A x \in Owners(k) : SortHeld(k, x) => Len(r) = 1 /\ r[1].act = "sort" /\ r[1].owner = x
      BY OwnerIsNotNoId DEF SortHeld, OpIf
    <3> HIDE DEF r
    <3>6. IndexedStored(k)' /\ ListedOnce(k)'
      <4>1. ToSet(ops[k] \o r) = ToSet(ops[k]) \union ToSet(r)
        BY <3>1, ToSetConcat
      <4> QED BY <1>1, <2>1, <3>1, <3>4, <4>1
              DEF VectorParts, IndexedStored, ListedOnce, visitExists
    <3>7. SortedOrNext(k)' /\ RacingAdd(k)'
      <4>1. SortedOrNext(k) /\ RacingAdd(k)
        BY <2>1 DEF VectorParts
      <4> QED BY <1>1, <3>1, <3>5, <4>1, NextKept
    <3>8. UntimedLast(k)'
      BY <1>2 DEF UntimedLast
    <3> QED BY <3>3, <3>6, <3>7, <3>8 DEF VectorParts
  <2> QED BY <2>2, <2>3
<1> QED BY <1>4, <1>5 DEF ExactParts

\* A visit gets its first time when nothing is queued behind what lists it; the
\* time of any other stays what it was.
LEMMA VisitsTimeExact ==
  ASSUME TypeOK, Undisturbed, ExactParts, VisitsTime
  PROVE  ExactParts'
<1>0. PICK u : u = item.id
  OBVIOUS
<1>1. /\ u \in VisitIds /\ pc = "visited_at" /\ pc' = "sort"
      /\ UNCHANGED <<vecs, requests, item, ops, ipc, log>>
  BY <1>0, HeldRequest DEF VisitsTime
<1>2. \A v \in VisitIds :
        /\ visits'[v].id = visits[v].id
        /\ \A j \in Kinds : visits'[v][j] = visits[v][j]
        /\ visits'[v].visited_at =
             IF v = u /\ "visited_at" \in item.mask THEN item.visited_at ELSE visits[v].visited_at
  <2>1. CASE "visited_at" \notin item.mask
    BY <2>1 DEF VisitsTime
  <2>2. CASE "visited_at" \in item.mask
    <3>1. visits[u] \in VisitItem /\ visits \in [VisitIds -> VisitItem]
      BY <1>1 DEF TypeOK, VisitsTypeOK
    <3>2. visits' = [visits EXCEPT ![u].visited_at = item.visited_at]
      BY <1>0, <2>2 DEF VisitsTime
    <3> QED BY <1>1, <2>2, <3>1, <3>2 DEF VisitItem, Kinds
  <2> QED BY <2>1, <2>2
<1>3. ~ Untimed' /\ \A k \in Kinds : \A o : ~ SortHeld(k, o)
  BY <1>1 DEF Untimed, SortHeld
<1>4. \A v \in VisitIds : Stated(v, "visited_at")' = Stated(v, "visited_at")
  BY <1>1, UndisturbedFrame
<1>5. Sound(visits, Told, item) /\ visits[u].id = u /\ TimesKnown /\ NoId \notin VisitIds
  BY <1>0, <1>1, BlankVisitType DEF ExactParts, StoreParts, RequestsSound
<1>6. "visited_at" \in item.mask => item.visited_at \in Stated(u, "visited_at")
  BY <1>0, <1>1, <1>5 DEF Sound, Told
<1>7. Untimed => "visited_at" \in item.mask
  BY <1>5 DEF Untimed, Sound, Param
<1>8. TimesKnown'
  <2> SUFFICES ASSUME NEW v \in VisitIds, visits'[v].id # NoId
               PROVE  visits'[v].visited_at \in Stated(v, "visited_at")
    BY <1>4 DEF TimesKnown
  <2>1. CASE v = u /\ "visited_at" \in item.mask
    BY <1>2, <1>6, <2>1
  <2>2. CASE ~ (v = u /\ "visited_at" \in item.mask)
    BY <1>0, <1>2, <1>5, <1>7, <2>2 DEF TimesKnown
  <2> QED BY <2>1, <2>2
<1>9. UnstoredUnowned'
  BY <1>2 DEF ExactParts, StoreParts, UnstoredUnowned
<1>10. StoreParts'
  BY <1>1, <1>2, <1>8, <1>9, StoreFrame DEF ExactParts
<1>11. ASSUME NEW k \in Kinds PROVE VectorParts(k)'
  <2>1. VectorParts(k)
    BY DEF ExactParts
  <2>2. CASE "visited_at" \notin item.mask \/ visits[u].visited_at = item.visited_at
    <3>1. \A v \in VisitIds : visits'[v].visited_at = visits[v].visited_at
      BY <1>2, <2>2
    <3>2. racing'[k] = racing[k]
      <4>1. CASE "visited_at" \notin item.mask
        BY <4>1 DEF VisitsTime
      <4>2. CASE "visited_at" \in item.mask
        <5>1. visits[item.id].visited_at = item.visited_at /\ racing[k] \in BOOLEAN
          BY <1>0, <2>2, <4>2 DEF TypeOK, IndexTypeOK
        <5>2. racing'[k] = (racing[k] \/ (Compares(k, item.id) /\ visits[item.id].visited_at # item.visited_at))
          BY <4>2 DEF VisitsTime
        <5> QED BY <5>1, <5>2
      <4> QED BY <4>1, <4>2
    <3> QED BY <1>1, <1>2, <1>3, <2>1, <3>1, <3>2, VectorFrame
  <2>3. CASE "visited_at" \in item.mask /\ visits[u].visited_at # item.visited_at
    <3>1. Untimed
      BY <1>1, <1>5, <1>6, <2>3 DEF TimesKnown, Undisturbed, TimesTell
    <3>2. ops[k] \in Seq(Op(k)) /\ vecs[k] \in [Owners(k) -> Seq(VisitRefs)]
      BY DEF TypeOK, IndexTypeOK, VectorsTypeOK
    <3>3. Follows(OwnerRefs(k), vecs[k], ops[k], u, visits[u][k])
      BY <1>1, <2>1 DEF VectorParts, FollowsOps
    <3>4. \A o \in Owners(k) : SortHeld(k, o)' <=> visits[u][k] = o
      BY <1>0, <1>1, <1>2, <2>3 DEF SortHeld
    <3>5. IndexedStored(k)' /\ ListedOnce(k)' /\ FollowsOps(k)'
      BY <1>1, <1>2, <2>1 DEF VectorParts, IndexedStored, ListedOnce, FollowsOps, visitExists
    <3>6. SortedOrNext(k)'
      <4> SUFFICES ASSUME NEW o \in Owners(k)
                   PROVE  SortedBy(At(visits'), vecs[k][o]) \/ SortNext(k, o)'
        BY <1>1 DEF SortedOrNext
      <4>1. CASE u \in ToSet(vecs[k][o])
        <5>1. ops[k] = <<>>
          BY <1>0, <2>1, <3>1, <4>1 DEF VectorParts, UntimedLast
        <5>2. ListedBy(vecs[k], u, visits[u][k])
          BY <3>3, <5>1, FollowsNone
        <5>3. visits[u][k] = o
          BY <3>2, <4>1, <5>2 DEF ListedBy
        <5> QED BY <1>1, <3>4, <5>1, <5>3 DEF SortNext
      <4>2. CASE u \notin ToSet(vecs[k][o])
        <5>1. \A x \in ToSet(vecs[k][o]) : x \in VisitRefs /\ x # u
          BY <4>2, ListedRefs DEF VisitRefs
        <5>2. \A x \in ToSet(vecs[k][o]) : At(visits')[x] = At(visits)[x]
          BY <1>2, <5>1 DEF At, VisitRefs
        <5>3. SortedBy(At(visits), vecs[k][o]) => SortedBy(At(visits'), vecs[k][o])
          BY <5>2 DEF SortedBy, ToSet
        <5>4. SortNext(k, o) => SortNext(k, o)'
          BY <1>1, <1>3 DEF SortNext
        <5> QED BY <2>1, <5>3, <5>4 DEF VectorParts, SortedOrNext
      <4> QED BY <4>1, <4>2
    <3>7. RacingAdd(k)'
      <4> SUFFICES ASSUME racing'[k]
                   PROVE  /\ ops[k] # <<>> /\ ops[k][1].act = "add"
                          /\ IF Len(ops[k]) = 1 THEN visits[u][k] = ops[k][1].owner
                             ELSE ops[k][2].act = "sort" /\ ops[k][2].owner = ops[k][1].owner
        <5>1. ops' = ops /\ pc' = "sort" /\ "visited_at" \in item'.mask /\ visits'[item'.id][k] = visits[u][k]
          BY <1>0, <1>1, <1>2, <2>3
        <5> QED BY <5>1 DEF RacingAdd, SortHeld
      <4>1. racing[k] \/ Compares(k, u)
        BY <1>0, <2>3 DEF VisitsTime
      <4>2. CASE racing[k]
        BY <1>3, <2>1, <4>2 DEF VectorParts, RacingAdd
      <4>3. CASE Compares(k, u)
        <5>1. ops[k] # <<>> /\ Len(ops[k]) >= 1 /\ Head(ops[k]) = ops[k][1] /\ ops[k][1] \in Op(k)
          BY <3>2, <4>3 DEF TypeOK, IndexTypeOK, Compares
        <5>2. ops[k][1].owner \in Owners(k)
          BY <5>1 DEF Op
        <5>3. u \notin ToSet(vecs[k][ops[k][1].owner])
          BY <1>0, <2>1, <3>1, <5>1, <5>2 DEF VectorParts, UntimedLast
        <5>4. ops[k][1].vid = u
          BY <4>3, <5>1, <5>3 DEF Compares
        <5>5. Len(ops[k]) = 1 /\ ops[k][1].act = "add"
          <6>1. 1 \in 1 .. Len(ops[k])
            BY <3>2, <5>1
          <6> QED BY <1>0, <2>1, <3>1, <5>4, <6>1 DEF VectorParts, UntimedLast
        <5>6. visits[u][k] = ops[k][1].owner
          BY <3>2, <3>3, <5>1, <5>4, <5>5, FollowsLastAdd
        <5> QED BY <5>1, <5>5, <5>6
      <4> QED BY <4>1, <4>2, <4>3
    <3>8. UntimedLast(k)'
      BY <1>3 DEF UntimedLast
    <3> QED BY <3>5, <3>6, <3>7, <3>8 DEF VectorParts
  <2> QED BY <2>2, <2>3
<1> QED BY <1>10, <1>11 DEF ExactParts

\* A visit leaves its old owner for the new one; until it has a time it has no
\* owner to leave, and the op that lists it is the last about it.
LEMMA VisitsOwnerExact ==
  ASSUME TypeOK, ExactParts, NEW k \in Kinds, VisitsOwner(k)
  PROVE  ExactParts'
<1>0. PICK u : u = item.id
  OBVIOUS
<1>1. /\ u \in VisitIds /\ pc = k /\ pc' = NextField(k)
      /\ UNCHANGED <<vecs, requests, item, ipc, racing, log>>
  BY <1>0, HeldRequest DEF VisitsOwner, Kinds
<1>2. \A v \in VisitIds :
        /\ visits'[v].id = visits[v].id
        /\ visits'[v].visited_at = visits[v].visited_at
        /\ \A j \in Kinds :
             visits'[v][j] = IF v = u /\ j = k /\ k \in item.mask THEN item[k] ELSE visits[v][j]
  <2>1. CASE k \in item.mask
    <3>1. PICK new : new = [visits[u] EXCEPT ![k] = item[k]]
      OBVIOUS
    <3>2. visits[u] \in VisitItem /\ visits' = [visits EXCEPT ![u] = new]
      BY <1>0, <2>1, <3>1, VisitsOwnerStep
    <3>3. /\ new.id = visits[u].id /\ new.visited_at = visits[u].visited_at
          /\ \A j \in Kinds : new[j] = IF j = k THEN item[k] ELSE visits[u][j]
      BY <3>1, <3>2 DEF VisitItem, Kinds
    <3>4. visits \in [VisitIds -> VisitItem]
      BY DEF TypeOK, VisitsTypeOK
    <3> QED BY <1>1, <2>1, <3>2, <3>3, <3>4
  <2>2. CASE k \notin item.mask
    BY <2>2 DEF VisitsOwner
  <2> QED BY <2>1, <2>2
<1>3. (Untimed' => Untimed) /\ (Untimed => Untimed') /\ \A j \in Kinds : \A o : ~ SortHeld(j, o)
  BY <1>0, <1>1, <1>2 DEF Untimed, SortHeld, NextField, Kinds
<1>4. visits[u].id = u /\ NoId \notin VisitIds
  BY <1>0, <1>1, BlankVisitType DEF ExactParts, StoreParts, RequestsSound, Kinds
<1>5. \A v \in VisitIds : Stated(v, "visited_at")' = Stated(v, "visited_at")
  BY <1>1, UndisturbedFrame
<1>6. TimesKnown'
  BY <1>1, <1>2, <1>3, <1>5 DEF ExactParts, StoreParts, TimesKnown
<1>7. UnstoredUnowned'
  BY <1>1, <1>2, <1>4 DEF ExactParts, StoreParts, UnstoredUnowned
<1>8. StoreParts'
  <2>1. pc \notin {"loop", "dequeue"}
    BY <1>1 DEF Kinds
  <2> QED BY <1>1, <1>2, <1>6, <1>7, <2>1, StoreFrame DEF ExactParts
<1>9. ASSUME NEW j \in Kinds PROVE VectorParts(j)'
  <2>1. VectorParts(j) /\ VectorParts(k)
    BY DEF ExactParts
  <2>2. DOMAIN ops = Kinds /\ ops[k] \in Seq(Op(k))
    BY DEF TypeOK, IndexTypeOK
  <2>3. CASE j # k \/ k \notin item.mask
    <3>1. ops'[j] = ops[j] /\ \A v \in VisitIds : visits'[v][j] = visits[v][j]
      <4>1. CASE k \notin item.mask
        BY <1>2, <4>1 DEF VisitsOwner
      <4>2. CASE k \in item.mask /\ j # k
        BY <1>2, <2>2, <4>2 DEF VisitsOwner
      <4> QED BY <2>3, <4>1, <4>2
    <3>2. ToReach(j)' => ToReach(j)
      BY <1>1 DEF ToReach, NextField, Kinds
    <3> QED BY <1>0, <1>1, <1>2, <1>3, <2>1, <3>1, <3>2, VectorFrame
  <2>4. CASE j = k /\ k \in item.mask
    <3> DEFINE r == OpIf(visits[u][k], "remove", u)
               a == OpIf(item[k], "add", u)
    <3>0. /\ visits[u][k] \in Owners(k) \union {NoId} /\ item[k] \in Owners(k) \union {NoId}
          /\ r \in Seq(Op(k)) /\ a \in Seq(Op(k))
          /\ ops' = [ops EXCEPT ![k] = (ops[k] \o r) \o a]
      <4>1. k \in item.mask /\ visits[u].id = u
        BY <1>4, <2>4
      <4> QED BY <1>0, <4>1, VisitsOwnerStep
    <3>1. /\ visits[u][k] \in OwnerRefs(k) /\ item[k] \in OwnerRefs(k)
          /\ r \in Seq(Op(k)) /\ a \in Seq(Op(k))
          /\ ops'[k] = (ops[k] \o r) \o a
      <4>1. ops'[k] = (ops[k] \o r) \o a
        BY <2>2, <3>0
      <4> QED BY <3>0, <4>1 DEF OwnerRefs
    <3>2. u \in VisitRefs /\ NoId \in OwnerRefs(k) /\ NoId \notin Owners(k)
      BY <1>1, OwnerIsNotNoId DEF VisitRefs, OwnerRefs
    <3>3. /\ \A op \in ToSet(r) : op.vid = u
          /\ \A op \in ToSet(a) : op.vid = u
          /\ visits[u][k] = NoId => r = <<>>
          /\ Len(a) \in {0, 1} /\ (Len(a) = 1 => a[1].act = "add")
      BY DEF OpIf, ToSet
    <3>4. PICK q : q = ops[k] \o r
      OBVIOUS
    <3>5. PICK n : n = q \o a /\ ops'[k] = n
      BY <3>1, <3>4
    <3>6. FollowsOps(k)'
      <4> SUFFICES ASSUME NEW v \in VisitIds
                   PROVE  Follows(OwnerRefs(k), vecs[k], n, v, visits'[v][k])
        BY <1>1, <3>5 DEF FollowsOps
      <4>1. PICK f, g, x, y, z : /\ f = vecs[k] /\ g = ops[k] /\ x = visits[v][k] /\ y = (IF v = u THEN NoId ELSE x)
                              /\ z = (IF v = u THEN item[k] ELSE x)
        OBVIOUS
      <4>2. x \in OwnerRefs(k) /\ y \in OwnerRefs(k) /\ z \in OwnerRefs(k) /\ visits'[v][k] = z
        <5>1. visits[v][k] \in OwnerRefs(k)
          BY FieldType DEF TypeOK, VisitsTypeOK, OwnerRefs
        <5> QED BY <1>2, <2>4, <3>1, <3>2, <4>1, <5>1
      <4>3. Follows(OwnerRefs(k), f, g, v, x) /\ g \in Seq(Op(k)) /\ q = g \o r
        BY <2>1, <2>2, <3>4, <4>1 DEF VectorParts, FollowsOps
      <4>4. q \in Seq(Op(k))
        <5> HIDE DEF r
        <5> QED BY <2>2, <3>1, <3>4
      <4>5. Follows(OwnerRefs(k), f, q, v, y)
        <5>1. PICK o \in OwnerRefs(k), act \in {"add", "remove", "sort"} :
                o = visits[u][k] /\ act = "remove"
          BY <3>1
        <5>2. o = NoId => x = y
          BY <4>1, <5>1
        <5>3. o # NoId => Moves([act |-> act, owner |-> o, vid |-> u], v, x, y)
          BY <4>1, <5>1 DEF Moves
        <5>4. q = g \o OpIf(o, act, u) /\ Follows(OwnerRefs(k), f, g, v, x) /\ g \in Seq(Op(k))
          BY <4>3, <5>1
        <5> QED BY <3>2, <4>2, <5>2, <5>3, <5>4, FollowsOpIf
      <4>6. Follows(OwnerRefs(k), f, n, v, z)
        <5>1. PICK o \in OwnerRefs(k), act \in {"add", "remove", "sort"} :
                o = item[k] /\ act = "add"
          BY <3>1
        <5>2. o = NoId => y = z
          BY <4>1, <5>1
        <5>3. o # NoId => Moves([act |-> act, owner |-> o, vid |-> u], v, y, z)
          BY <4>1, <5>1 DEF Moves
        <5>4. n = q \o OpIf(o, act, u) /\ Follows(OwnerRefs(k), f, q, v, y)
          BY <3>5, <4>5, <5>1
        <5> QED BY <3>2, <4>2, <4>4, <5>2, <5>3, <5>4, FollowsOpIf
      <4> QED BY <4>1, <4>2, <4>6
    <3>7. PICK s : s = r \o a
      OBVIOUS
    <3> HIDE DEF r, a
    <3>8. s \in Seq(Op(k)) /\ n = ops[k] \o s /\ ToSet(s) = ToSet(r) \union ToSet(a)
      <4>1. s \in Seq(Op(k)) /\ ToSet(s) = ToSet(r) \union ToSet(a)
        BY <3>1, <3>7, ToSetConcat
      <4>2. n = ops[k] \o s
        BY <2>2, <3>1, <3>4, <3>5, <3>7
      <4> QED BY <4>1, <4>2
    <3>9. IndexedStored(k)' /\ ListedOnce(k)'
      <4>1. ToSet(n) = ToSet(ops[k]) \union (ToSet(r) \union ToSet(a))
        BY <2>2, <3>8, ToSetConcat
      <4>2. \A op \in ToSet(n) : op.vid \in VisitIds /\ visits[op.vid].id # NoId
        BY <1>1, <1>4, <2>1, <3>3, <4>1 DEF VectorParts, IndexedStored, visitExists
      <4> QED BY <1>1, <1>2, <2>1, <3>5, <4>2
              DEF VectorParts, IndexedStored, ListedOnce, visitExists
    <3>10. SortedOrNext(k)' /\ RacingAdd(k)'
      <4>1. SortedOrNext(k) /\ RacingAdd(k)
        BY <2>1 DEF VectorParts
      <4> QED BY <1>1, <1>2, <1>3, <3>5, <3>8, <4>1, NextKept
    <3>11. UntimedLast(k)'
      <4> SUFFICES ASSUME Untimed
                   PROVE  /\ \A i \in 1 .. Len(n) :
                               n[i].vid = u => i = Len(n) /\ n[i].act = "add"
                          /\ \A o \in Owners(k) : u \notin ToSet(vecs[k][o])
        BY <1>0, <1>1, <1>3, <3>5 DEF UntimedLast, ToReach, NextField, Kinds
      <4>1. /\ \A i \in 1 .. Len(ops[k]) :
                 ops[k][i].vid = u => i = Len(ops[k]) /\ ops[k][i].act = "add"
            /\ \A o \in Owners(k) : u \in ToSet(vecs[k][o]) => ops[k] = <<>>
            /\ visits[u][k] = NoId
        BY <1>0, <1>1, <2>1 DEF VectorParts, UntimedLast, ToReach
      <4>2. Follows(OwnerRefs(k), vecs[k], ops[k], u, NoId)
        BY <1>1, <2>1, <4>1 DEF VectorParts, FollowsOps
      <4>3. ASSUME NEW i \in 1 .. Len(ops[k]), ops[k][i].vid = u PROVE FALSE
        <5>1. i = Len(ops[k]) /\ ops[k][i].act = "add" /\ ops[k] # <<>>
          BY <2>2, <4>1, <4>3
        <5>2. ops[k][i].owner = NoId
          BY <2>2, <4>2, <4>3, <5>1, FollowsLastAdd
        <5>3. ops[k][i] \in Op(k)
          BY <2>2
        <5> QED BY <3>2, <5>2, <5>3 DEF Op
      <4>4. ASSUME NEW o \in Owners(k), u \in ToSet(vecs[k][o]) PROVE FALSE
        <5>1. ListedBy(vecs[k], u, NoId)
          BY <4>1, <4>2, <4>4, FollowsNone
        <5>2. vecs[k] \in [Owners(k) -> Seq(VisitRefs)]
          BY DEF TypeOK, VectorsTypeOK
        <5> QED BY <3>2, <4>4, <5>1, <5>2 DEF ListedBy
      <4>5. r = <<>>
        BY <3>3, <4>1
      <4>6. s = a
        BY <3>1, <3>7, <4>5
      <4>7. PICK l \in Nat : l = Len(ops[k])
        BY <2>2
      <4>8. /\ Len(n) = l + Len(a) /\ \A i \in 1 .. l : n[i] = ops[k][i]
            /\ \A i \in 1 .. Len(a) : n[l + i] = a[i]
        BY <2>2, <3>1, <3>8, <4>6, <4>7, BehindOthers
      <4>9. ASSUME NEW i \in 1 .. Len(n), n[i].vid = u PROVE i = Len(n) /\ n[i].act = "add"
        <5>1. ~ (i <= l)
          BY <4>3, <4>7, <4>8, <4>9
        <5>2. Len(a) = 1 /\ i = l + 1
          BY <3>3, <4>8, <5>1
        <5>3. n[i] = a[1]
          BY <4>8, <5>2
        <5> QED BY <3>3, <4>8, <5>2, <5>3
      <4> QED BY <4>4, <4>9
    <3> QED BY <2>4, <3>6, <3>9, <3>10, <3>11 DEF VectorParts
  <2> QED BY <2>3, <2>4
<1> QED BY <1>8, <1>9 DEF ExactParts

\* What an index worker applies finds the vector sorted and its keys apart, and
\* the visit where it is to be taken from, and not where it is to be put.
LEMMA IndexApplyExact ==
  ASSUME TypeOK, Undisturbed, ExactParts, NEW k \in Kinds, IndexApply(k)
  PROVE  ExactParts'
<1>0. PICK op, vec : op = Head(ops[k]) /\ vec = vecs[k][op.owner]
  OBVIOUS
<1>1. /\ UNCHANGED <<visits, requests, pc, item, log>>
      /\ \A j \in Kinds : j # k => racing'[j] = racing[j]
      /\ racing'[k] = FALSE
  BY DEF IndexApply, TypeOK, IndexTypeOK
<1>2. (Untimed' <=> Untimed) /\ \A j \in Kinds : \A o : SortHeld(j, o)' <=> SortHeld(j, o)
  BY <1>1 DEF Untimed, SortHeld
<1>3. StoreParts'
  <2>1. TimesKnown' /\ UnstoredUnowned'
    BY <1>1, <1>2, UndisturbedFrame DEF ExactParts, StoreParts, TimesKnown, UnstoredUnowned
  <2>2. pc' \in {"loop", "dequeue"} \/ (pc \notin {"loop", "dequeue"} /\ UNCHANGED item)
    BY <1>1
  <2> QED BY <1>1, <2>1, <2>2, StoreFrame DEF ExactParts
<1>4. /\ op \in Op(k) /\ op.owner \in Owners(k) /\ ops[k] # <<>>
      /\ ops' = [ops EXCEPT ![k] = Tail(ops[k])]
      /\ vec \in Seq(VisitRefs)
  BY <1>0, IndexApplyStep
<1>5. PICK new \in Applied(k, op, vec) : vecs' = [vecs EXCEPT ![k][op.owner] = new]
  BY <1>0, IndexApplyStep
<1>6. /\ DOMAIN vecs = Kinds /\ DOMAIN ops = Kinds
      /\ vecs[k] \in [Owners(k) -> Seq(VisitRefs)] /\ ops[k] \in Seq(Op(k))
  BY DEF TypeOK, VectorsTypeOK, IndexTypeOK
<1>7. vecs'[k] = [vecs[k] EXCEPT ![op.owner] = new] /\ ops'[k] = Tail(ops[k])
  BY <1>4, <1>5, <1>6
<1>8. PICK n : n = Tail(ops[k])
  OBVIOUS
<1>9. PICK l \in Nat : l = Len(ops[k]) /\ l >= 1
  BY <1>4, <1>6
<1>10. /\ op = ops[k][1] /\ n \in Seq(Op(k)) /\ Len(n) = l - 1
       /\ \A i \in 1 .. l - 1 : n[i] = ops[k][i + 1]
       /\ (n = <<>> <=> l = 1)
  <2>1. PICK q : q = ops[k]
    OBVIOUS
  <2>2. q \in Seq(Op(k)) /\ q # <<>> /\ n = Tail(q) /\ op = Head(q) /\ l = Len(q)
    BY <1>0, <1>4, <1>6, <1>8, <1>9, <2>1
  <2>3. n \in Seq(Op(k)) /\ Len(n) = l - 1 /\ op = q[1]
    BY <2>2
  <2>4. ASSUME NEW i \in 1 .. l - 1 PROVE n[i] = q[i + 1]
    BY <2>2, <2>4
  <2>5. n = <<>> <=> l = 1
    <3>1. PICK S : S = Op(k)
      OBVIOUS
    <3>2. n \in Seq(S) /\ (n = <<>> <=> Len(n) = 0)
      BY <2>3, <3>1
    <3> QED BY <1>9, <2>3, <3>2
  <2> QED BY <2>1, <2>3, <2>4, <2>5
<1>11. ToSet(n) \subseteq ToSet(ops[k]) /\ op \in ToSet(ops[k])
  BY <1>4, <1>6, <1>8, <1>10, SortsTail
<1>12. ASSUME NEW j \in Kinds, j # k PROVE VectorParts(j)'
  <2>1. VectorParts(j) /\ ops'[j] = ops[j] /\ vecs'[j] = vecs[j] /\ racing'[j] = racing[j]
    BY <1>1, <1>4, <1>5, <1>6, <1>12 DEF ExactParts
  <2>2. UntimedLast(j)'
    BY <1>1, <1>2, <2>1 DEF VectorParts, UntimedLast, ToReach
  <2> QED BY <1>1, <1>2, <2>1, <2>2, VectorFrame
<1>13. VectorParts(k)
  BY DEF ExactParts
<1>14. \A o \in Owners(k) : vecs'[k][o] = IF o = op.owner THEN new ELSE vecs[k][o]
  BY <1>6, <1>7
<1>15. op.vid \in VisitIds /\ visits[op.vid].id # NoId /\ op.act \in {"add", "remove", "sort"}
  BY <1>4, <1>11, <1>13 DEF VectorParts, IndexedStored, visitExists, Op
<1>16. racing[k] => op.act = "add"
  BY <1>10, <1>13 DEF VectorParts, RacingAdd
<1>17. \A o \in Owners(k) : SortNext(k, o) => op.act = "sort" /\ op.owner = o
  BY <1>4, <1>10 DEF SortNext
<1>18. ASSUME NEW o \in Owners(k), ~ (op.act = "sort" /\ op.owner = o)
       PROVE  SortedBy(At(visits), vecs[k][o])
  BY <1>13, <1>17, <1>18 DEF VectorParts, SortedOrNext
<1>19. KeysApart(At(visits), vec)
  <2> SUFFICES ASSUME NEW x \in ToSet(vec), NEW y \in ToSet(vec), At(visits)[x] = At(visits)[y]
               PROVE  x = y
    BY DEF KeysApart
  <2>1. ASSUME NEW z \in ToSet(vec)
        PROVE  /\ z \in VisitIds /\ At(visits)[z] = visits[z].visited_at
               /\ visits[z].visited_at \in Stated(z, "visited_at")
    <3>1. z \in VisitIds /\ visits[z].id # NoId /\ z # NoId
      BY <1>0, <1>4, <1>13, BlankVisitType DEF VectorParts, IndexedStored, visitExists
    <3>2. ~ (Untimed /\ item.id = z)
      BY <1>0, <1>4, <1>13 DEF VectorParts, UntimedLast
    <3>3. At(visits)[z] = visits[z].visited_at
      BY <3>1 DEF At
    <3> QED BY <3>1, <3>2, <3>3 DEF ExactParts, StoreParts, TimesKnown
  <2>2. /\ x \in VisitIds /\ visits[x].visited_at \in Stated(x, "visited_at")
        /\ y \in VisitIds /\ visits[y].visited_at \in Stated(y, "visited_at")
        /\ visits[x].visited_at = visits[y].visited_at
    BY <2>1
  <2> QED BY <2>2 DEF Undisturbed, TimesTell
<1>20. ASSUME NEW v \in VisitIds
       PROVE  \E a, b \in OwnerRefs(k) : ListedBy(vecs[k], v, a) /\ Moves(op, v, a, b)
  <2>1. Follows(OwnerRefs(k), vecs[k], ops[k], v, visits[v][k])
    BY <1>13 DEF VectorParts, FollowsOps
  <2> QED BY <1>4, <1>6, <1>10, <2>1, FollowsHead
<1>21. /\ op.act = "add" => op.vid \notin ToSet(vec)
       /\ op.act = "remove" => op.vid \in ToSet(vec)
  <2>1. PICK a, b \in OwnerRefs(k) : ListedBy(vecs[k], op.vid, a) /\ Moves(op, op.vid, a, b)
    BY <1>15, <1>20
  <2>2. op.vid \in ToSet(vec) <=> op.owner = a
    BY <1>0, <1>4, <1>6, <2>1 DEF ListedBy
  <2>3. op.owner # NoId
    BY <1>4, OwnerIsNotNoId
  <2>4. CASE op.act = "add"
    BY <2>1, <2>2, <2>3, <2>4 DEF Moves
  <2>5. CASE op.act = "remove"
    BY <2>1, <2>2, <2>5 DEF Moves
  <2> QED BY <2>4, <2>5
<1>22. /\ OnceEach(new)
       /\ ToSet(new) = IF op.act = "add" THEN ToSet(vec) \union {op.vid}
                       ELSE IF op.act = "remove" THEN ToSet(vec) \ {op.vid}
                       ELSE ToSet(vec)
  <2>1. OnceEach(vec)
    BY <1>0, <1>4, <1>13 DEF VectorParts, ListedOnce
  <2>2. op.act = "remove" => SortedBy(At(visits), vec)
    BY <1>0, <1>4, <1>18
  <2> QED BY <1>4, <1>5, <1>16, <1>19, <1>21, <2>1, <2>2, AppliedExact
<1>23. IndexedStored(k)' /\ ListedOnce(k)'
  <2>1. ASSUME NEW o \in Owners(k), NEW x \in ToSet(vecs'[k][o])
        PROVE  x \in VisitIds /\ visits[x].id # NoId
    <3>1. x \in ToSet(vecs[k][o]) \/ x = op.vid
      BY <1>0, <1>14, <1>22, <2>1
    <3> QED BY <1>13, <1>15, <3>1 DEF VectorParts, IndexedStored, visitExists
  <2>2. \A x \in ToSet(ops'[k]) : x.vid \in VisitIds /\ visits[x.vid].id # NoId
    BY <1>7, <1>8, <1>11, <1>13 DEF VectorParts, IndexedStored, visitExists
  <2>3. ListedOnce(k)'
    BY <1>13, <1>14, <1>22 DEF VectorParts, ListedOnce
  <2> QED BY <1>1, <2>1, <2>2, <2>3 DEF IndexedStored, visitExists
<1>24. FollowsOps(k)'
  <2> SUFFICES ASSUME NEW v \in VisitIds
               PROVE  Follows(OwnerRefs(k), vecs'[k], n, v, visits[v][k])
    BY <1>1, <1>7, <1>8 DEF FollowsOps
  <2>1. PICK f, g : f = vecs[k] /\ g = vecs'[k]
    OBVIOUS
  <2>2. ASSUME NEW a \in OwnerRefs(k), NEW b \in OwnerRefs(k), ListedBy(f, v, a), Moves(op, v, a, b)
        PROVE  ListedBy(g, v, b)
    <3>1. DOMAIN f = Owners(k) /\ DOMAIN g = Owners(k)
      BY <1>6, <1>7, <2>1
    <3>2. ASSUME NEW o \in Owners(k)
          PROVE  v \in ToSet(g[o]) <=> o = b
      <4>1. v \in ToSet(f[o]) <=> o = a
        BY <2>2, <3>1 DEF ListedBy
      <4>2. o # NoId
        BY OwnerIsNotNoId
      <4>3. CASE op.vid = v /\ op.act = "add"
        <5>1. a = NoId /\ b = op.owner
          BY <2>2, <4>3 DEF Moves
        <5>2. o = op.owner => v \in ToSet(g[o])
          BY <1>14, <1>22, <2>1, <4>3
        <5>3. o # op.owner => g[o] = f[o]
          BY <1>14, <2>1
        <5> QED BY <4>1, <4>2, <5>1, <5>2, <5>3
      <4>4. CASE op.vid = v /\ op.act = "remove"
        <5>1. a = op.owner /\ b = NoId
          BY <2>2, <4>4 DEF Moves
        <5>2. o = op.owner => v \notin ToSet(g[o])
          BY <1>14, <1>22, <2>1, <4>4
        <5>3. o # op.owner => g[o] = f[o]
          BY <1>14, <2>1
        <5> QED BY <4>1, <4>2, <5>1, <5>2, <5>3
      <4>5. CASE ~ (op.vid = v /\ op.act \in {"add", "remove"})
        <5>1. a = b
          BY <2>2, <4>5 DEF Moves
        <5>2. o = op.owner => f[o] = vec /\ g[o] = new
          BY <1>0, <1>14, <2>1
        <5>3. v \in ToSet(new) <=> v \in ToSet(vec)
          BY <1>22, <4>5
        <5>4. o # op.owner => g[o] = f[o]
          BY <1>14, <2>1
        <5> QED BY <4>1, <5>1, <5>2, <5>3, <5>4
      <4> QED BY <4>3, <4>4, <4>5
    <3> QED BY <3>1, <3>2 DEF ListedBy
  <2>3. PICK q, x : q = ops[k] /\ x = visits[v][k]
    OBVIOUS
  <2>4. q \in Seq(Op(k)) /\ q # <<>> /\ q[1] = op /\ n = Tail(q) /\ Follows(OwnerRefs(k), f, q, v, x)
    BY <1>4, <1>6, <1>8, <1>10, <1>13, <2>1, <2>3 DEF VectorParts, FollowsOps
  <2>5. Follows(OwnerRefs(k), g, n, v, x)
    BY <2>2, <2>4, FollowsTail
  <2> QED BY <2>1, <2>3, <2>5
<1>25. SortedOrNext(k)'
  <2> SUFFICES ASSUME NEW o \in Owners(k)
               PROVE  SortedBy(At(visits), vecs'[k][o]) \/ SortNext(k, o)'
    BY <1>1 DEF SortedOrNext
  <2>1. CASE o # op.owner
    BY <1>14, <1>18, <2>1
  <2>2. CASE o = op.owner /\ racing[k]
    <3>1. ops'[k] = n /\ (n[1] = ops[k][2] \/ l = 1)
      BY <1>7, <1>8, <1>9, <1>10
    <3>2. IF l = 1 THEN SortHeld(k, o) ELSE ops[k][2].act = "sort" /\ ops[k][2].owner = o
      BY <1>9, <1>10, <1>13, <2>2 DEF VectorParts, RacingAdd
    <3> QED BY <1>2, <1>7, <1>8, <1>10, <3>1, <3>2 DEF SortNext
  <2>3. CASE o = op.owner /\ ~ racing[k]
    <3>1. op.act = "sort" \/ SortedBy(At(visits), vec)
      BY <1>0, <1>4, <1>18
    <3>2. SortedBy(At(visits), new)
      BY <1>4, <1>5, <2>3, <3>1, AppliedSorts
    <3> QED BY <1>14, <2>3, <3>2
  <2> QED BY <2>1, <2>2, <2>3
<1>26. RacingAdd(k)'
  BY <1>1 DEF RacingAdd
<1>27. UntimedLast(k)'
  <2> SUFFICES ASSUME Untimed
               PROVE  /\ \A i \in 1 .. l - 1 :
                           n[i].vid = item.id => i = l - 1 /\ n[i].act = "add"
                      /\ \A o \in Owners(k) : item.id \in ToSet(vecs'[k][o]) => n = <<>>
                      /\ ToReach(k) => visits[item.id][k] = NoId
    BY <1>1, <1>2, <1>7, <1>8, <1>10 DEF UntimedLast, ToReach
  <2>1. /\ \A i \in 1 .. l :
             ops[k][i].vid = item.id => i = l /\ ops[k][i].act = "add"
        /\ \A o \in Owners(k) : item.id \notin ToSet(vecs[k][o])
        /\ ToReach(k) => visits[item.id][k] = NoId
    BY <1>4, <1>9, <1>13 DEF VectorParts, UntimedLast
  <2>2. ASSUME NEW i \in 1 .. l - 1, n[i].vid = item.id PROVE i = l - 1 /\ n[i].act = "add"
    <3>1. i + 1 \in 1 .. l /\ n[i] = ops[k][i + 1]
      BY <1>10
    <3>2. i + 1 = l /\ ops[k][i + 1].act = "add"
      BY <2>1, <2>2, <3>1
    <3> QED BY <3>1, <3>2
  <2>3. ASSUME NEW o \in Owners(k), item.id \in ToSet(vecs'[k][o]) PROVE n = <<>>
    <3>1. op.vid = item.id
      BY <1>0, <1>14, <1>22, <2>1, <2>3
    <3>2. 1 \in 1 .. l
      BY <1>9
    <3> QED BY <1>10, <2>1, <3>1, <3>2
  <2> QED BY <2>1, <2>2, <2>3
<1>28. VectorParts(k)'
  BY <1>23, <1>24, <1>25, <1>26, <1>27 DEF VectorParts
<1> QED BY <1>3, <1>12, <1>28 DEF ExactParts

\* The loaded vectors list the loaded visits, once each and in order.
LEMMA InitVectorInv == Init => VectorInv
<1> SUFFICES ASSUME Init PROVE VectorInv
  OBVIOUS
<1>1. TypeOK /\ IdsAreIndices /\ visits = LoadedVisits
  BY InitIndexInv DEF IndexInv, Init
<1>2. Logged = {}
  BY DEF Init, Logged, ToSet
<1>3. ASSUME NEW v \in VisitIds
      PROVE  Stated(v, "visited_at") = IF v \in DOMAIN Loaded THEN {Loaded[v].visited_at} ELSE {}
  BY <1>2 DEF Stated
<1>4. TimesFinite
  <2> SUFFICES ASSUME NEW v \in VisitIds PROVE IsFiniteSet(Stated(v, "visited_at"))
    BY DEF TimesFinite
  <2>1. IsFiniteSet({Loaded[v].visited_at}) /\ IsFiniteSet({})
    BY FS_Singleton, FS_EmptySet
  <2> QED BY <1>3, <2>1
<1>5. StoreParts
  <2>1. RequestsSound
    BY DEF Init, RequestsSound
  <2>2. TimesKnown
    BY <1>1, <1>3 DEF TimesKnown, LoadedVisits, NewVisitItem
  <2>3. UnstoredUnowned
    BY <1>1, LoadedVisitsType DEF UnstoredUnowned, NewVisitItem, Kinds
  <2> QED BY <2>1, <2>2, <2>3 DEF StoreParts
<1>6. ASSUME NEW k \in Kinds PROVE VectorParts(k)
  <2>1. PICK byUser \in LoadedVectors(visits, "user_id"),
             byLocation \in LoadedVectors(visits, "location_id") :
               vecs = [j \in Kinds |-> IF j = "user_id" THEN byUser ELSE byLocation]
    BY DEF Init
  <2>2. vecs[k] \in LoadedVectors(LoadedVisits, k)
    BY <1>1, <2>1 DEF Kinds
  <2>3. ops[k] = <<>> /\ ToSet(ops[k]) = {} /\ racing[k] = FALSE /\ ~ Untimed
    BY DEF Init, ToSet, Untimed
  <2>4. ASSUME NEW o \in Owners(k)
        PROVE  /\ ToSet(vecs[k][o]) = VisitsOf(visits, k, o)
               /\ SortedBy(At(visits), vecs[k][o]) /\ OnceEach(vecs[k][o])
    <3>1. vecs[k][o] \in Listings(VisitsOf(visits, k, o), At(visits))
      BY <1>1, <2>2 DEF LoadedVectors
    <3>2. VisitsOf(visits, k, o) \subseteq VisitIds
      BY DEF VisitsOf
    <3>3. PICK S : S = VisitsOf(visits, k, o)
      OBVIOUS
    <3>4. IsFiniteSet(S)
      BY <3>2, <3>3, VisitConstants, FS_Subset
    <3>5. Cardinality(S) \in Nat
      BY <3>4, FS_CardinalityType
    <3>6. PICK s \in [1 .. Cardinality(S) -> S] :
            s = vecs[k][o] /\ ToSet(s) = S /\ SortedBy(At(visits), s)
      BY <3>1, <3>3 DEF Listings
    <3>7. s \in Seq(S) /\ Len(s) = Cardinality(S)
      BY <3>5
    <3>8. OnceEach(s)
      BY <3>4, <3>6, <3>7, OnceEachLength
    <3> QED BY <3>3, <3>6, <3>8
  <2>5. IndexedStored(k) /\ ListedOnce(k)
    BY <2>3, <2>4 DEF IndexedStored, ListedOnce, VisitsOf, visitExists
  <2>6. FollowsOps(k)
    <3> SUFFICES ASSUME NEW v \in VisitIds
                 PROVE  Follows(OwnerRefs(k), vecs[k], <<>>, v, visits[v][k])
      BY <2>3 DEF FollowsOps
    <3>1. visits[v][k] \in OwnerRefs(k)
      BY <1>1, FieldType DEF TypeOK, VisitsTypeOK, OwnerRefs
    <3>2. ListedBy(vecs[k], v, visits[v][k])
      <4>1. DOMAIN vecs[k] = Owners(k)
        BY <1>1 DEF TypeOK, VectorsTypeOK
      <4>2. visits[v].id = NoId => visits[v][k] = NoId
        BY <1>5 DEF StoreParts, UnstoredUnowned
      <4>3. NoId \notin Owners(k)
        BY OwnerIsNotNoId
      <4> QED BY <2>4, <4>1, <4>2, <4>3 DEF ListedBy, VisitsOf
    <3> QED BY <3>1, <3>2, FollowsNone
  <2> QED BY <2>3, <2>4, <2>5, <2>6 DEF VectorParts, SortedOrNext, RacingAdd, UntimedLast
<1> QED BY <1>1, <1>4, <1>5, <1>6 DEF VectorInv, ExactParts

\* Every step keeps the invariant.
LEMMA NextVectorInv == VectorInv /\ [Next]_vars => VectorInv'
<1> SUFFICES ASSUME VectorInv, [Next]_vars PROVE VectorInv'
  OBVIOUS
<1>1. TypeOK /\ TypeOK' /\ IdsAreIndices'
  BY NextTypeOK, NextIds DEF VectorInv
<1>2. ASSUME NEW t \in Threads, NEW p \in Posts, insertVisit(t, p) \/ updateVisit(t, p)
      PROVE  VectorInv'
  BY <1>1, <1>2, SubmitExact DEF VectorInv
<1>3. ASSUME UNCHANGED log, Undisturbed /\ ExactParts => ExactParts'
      PROVE  VectorInv'
  BY <1>1, <1>3, UndisturbedFrame DEF VectorInv
<1>4. ASSUME UNCHANGED <<visits, vecs, ops, requests, item, log, racing>>,
             UNCHANGED pc \/ (pc \in {"loop", "dequeue"} /\ pc' \in {"loop", "dequeue"})
      PROVE  VectorInv'
  <2>1. ASSUME ExactParts PROVE ExactParts'
    <3>1. (Untimed' <=> Untimed) /\ \A k \in Kinds : \A o : SortHeld(k, o)' <=> SortHeld(k, o)
      BY <1>4 DEF Untimed, SortHeld
    <3>2. TimesKnown' /\ UnstoredUnowned'
      BY <1>4, <2>1, <3>1, UndisturbedFrame
         DEF ExactParts, StoreParts, TimesKnown, UnstoredUnowned
    <3>3. StoreParts'
      BY <1>1, <1>4, <2>1, <3>2, StoreFrame DEF ExactParts
    <3>4. ASSUME NEW k \in Kinds PROVE VectorParts(k)'
      <4>1. VectorParts(k)
        BY <2>1 DEF ExactParts
      <4>2. UntimedLast(k)'
        <5>1. Untimed => UNCHANGED pc
          BY <1>4 DEF Untimed
        <5> QED BY <1>4, <3>1, <4>1, <5>1 DEF VectorParts, UntimedLast, ToReach
      <4> QED BY <1>1, <1>4, <3>1, <4>1, <4>2, VectorFrame
    <3> QED BY <3>3, <3>4 DEF ExactParts
  <2> QED BY <1>3, <1>4, <2>1
<1>5. CASE enableWriters \/ disableWriters \/ VisitsCheck \/ VisitsEmpty \/ UNCHANGED vars
  BY <1>4, <1>5 DEF enableWriters, disableWriters, VisitsCheck, VisitsEmpty, vars
<1>6. ASSUME NEW k \in Kinds, IndexCheck(k) \/ IndexEmpty(k) \/ IndexTake(k) PROVE VectorInv'
  BY <1>4, <1>6 DEF IndexCheck, IndexEmpty, IndexTake
<1>7. ASSUME NEW k \in Kinds, IndexApply(k) \/ VisitsOwner(k) PROVE VectorInv'
  <2>1. UNCHANGED log
    BY <1>7 DEF IndexApply, VisitsOwner
  <2> QED BY <1>1, <1>3, <1>7, <2>1, IndexApplyExact, VisitsOwnerExact
<1>8. ASSUME NEW t \in Threads, VisitsTake(t) PROVE VectorInv'
  <2>1. UNCHANGED log /\ IdsAreIndices
    BY <1>8 DEF VisitsTake, VectorInv
  <2> QED BY <1>1, <1>3, <1>8, <2>1, VisitsTakeExact
<1>9. CASE VisitsTime \/ VisitsSort
  <2>1. UNCHANGED log
    BY <1>9 DEF VisitsTime, VisitsSort
  <2> QED BY <1>1, <1>3, <1>9, <2>1, VisitsTimeExact, VisitsSortExact
<1> QED BY <1>2, <1>5, <1>6, <1>7, <1>8, <1>9 DEF Next, VisitsWorker, IndexWorker

\* When the workers have caught up, every vector lists exactly the visits that
\* name its owner, once each and in order, as long as no visit is re-timed, no
\* two share a time and every POST was answered 200: whatever moved from owner
\* to owner and however the workers were interleaved, erase_sorted found the
\* one entry it was to erase.
THEOREM AlwaysExact == Spec => []VectorsExact
<1>1. VectorInv => VectorsExact
  <2> SUFFICES ASSUME VectorInv, Drained, TimesStayDistinct, \A e \in Logged : e.code = 200,
                      NEW k \in Kinds, NEW o \in Owners(k)
               PROVE  vecs[k][o] \in Listings(VisitsOf(visits, k, o), At(visits))
    BY DEF VectorsExact
  <2>1. Undisturbed
    <3>1. ASSUME NEW v \in VisitIds, NEW w \in VisitIds,
                 NEW a \in Stated(v, "visited_at"), NEW b \in Stated(w, "visited_at")
          PROVE  a = b <=> v = w
      <4>1. CASE v = w
        <5>1. IsFiniteSet(Stated(v, "visited_at")) /\ Cardinality(Stated(v, "visited_at")) <= 1
          BY <4>1 DEF VectorInv, TimesFinite, TimesStayDistinct
        <5>2. a = b
          BY <3>1, <4>1, <5>1, AtMostOne
        <5> QED BY <4>1, <5>2
      <4>2. CASE v # w
        BY <3>1, <4>2 DEF TimesStayDistinct
      <4> QED BY <4>1, <4>2
    <3> QED BY <3>1 DEF Undisturbed, TimesTell
  <2>2. VectorParts(k)
    BY <2>1 DEF VectorInv, ExactParts
  <2>3. PICK S, s : S = VisitsOf(visits, k, o) /\ s = vecs[k][o]
    OBVIOUS
  <2>4. s \in Seq(VisitRefs) /\ vecs[k] \in [Owners(k) -> Seq(VisitRefs)]
    BY <2>3 DEF VectorInv, TypeOK, VectorsTypeOK
  <2>5. ops[k] = <<>> /\ ~ SortHeld(k, o) /\ o # NoId
    BY OwnerIsNotNoId DEF Drained, SortHeld
  <2>6. SortedBy(At(visits), s) /\ OnceEach(s)
    BY <2>2, <2>3, <2>5 DEF VectorParts, SortedOrNext, SortNext, ListedOnce
  <2>7. ASSUME NEW v \in VisitIds
        PROVE  v \in ToSet(s) <=> visits[v][k] = o
    <3>1. ListedBy(vecs[k], v, visits[v][k])
      BY <2>2, <2>5, FollowsNone DEF VectorParts, FollowsOps
    <3> QED BY <2>3, <2>4, <3>1 DEF ListedBy
  <2>8. \A x \in ToSet(s) : x \in VisitIds /\ visits[x].id # NoId
    BY <2>2, <2>3 DEF VectorParts, IndexedStored, visitExists
  <2>9. ToSet(s) = S
    <3>1. \A v \in VisitIds : visits[v][k] = o => visits[v].id # NoId
      BY <2>7, <2>8
    <3> QED BY <2>3, <2>7, <2>8, <3>1 DEF VisitsOf
  <2>10. IsFiniteSet(S)
    <3>1. S \subseteq VisitIds
      BY <2>3 DEF VisitsOf
    <3> QED BY <3>1, VisitConstants, FS_Subset
  <2>11. Len(s) = Cardinality(S)
    BY <2>4, <2>6, <2>9, <2>10, OnceEachLength
  <2>12. s \in [1 .. Cardinality(S) -> S]
    <3>1. PICK l \in Nat : l = Len(s)
      BY <2>4
    <3>2. \A i \in 1 .. l : s[i] \in S
      BY <2>4, <2>9, <3>1 DEF ToSet
    <3>3. s \in [1 .. l -> VisitRefs]
      BY <2>4, <3>1
    <3> QED BY <2>11, <3>1, <3>2, <3>3
  <2> QED BY <2>3, <2>6, <2>9, <2>12 DEF Listings
<1> QED BY <1>1, InitVectorInv, NextVectorInv, PTL DEF Spec
=============================================================================
