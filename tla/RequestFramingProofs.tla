------------------------ MODULE RequestFramingProofs ------------------------
(***************************************************************************)
(* Theorems about RequestFraming, for any requests with bodies of any      *)
(* length, any size of the buffer and any cuts between reads.              *)
(***************************************************************************)
EXTENDS RequestFraming, FiniteSetTheorems, SequenceTheorems, WellFoundedInduction, TLAPS

-----------------------------------------------------------------------------
(* Numbers and sequences.                                                  *)

\* The least element of a set of numbers is one of them.
LEMMA MinInSet ==
  ASSUME NEW S \in SUBSET Nat, S # {}
  PROVE  Min(S) \in S /\ \A y \in S : Min(S) <= y
<1> DEFINE Less == OpToRel(<, Nat)
<1>1. IsWellFoundedOn(Less, Nat)
  BY NatLessThanWellFounded
<1>2. \A x, y \in Nat : x < y => <<x, y>> \in Less
  BY DEF OpToRel
<1> HIDE DEF Less
<1>3. \E x \in S : \A y \in S : ~ (<<y, x>> \in Less)
  BY <1>1, WFMin
<1>4. PICK x \in S : \A y \in S : ~ (<<y, x>> \in Less)
  BY <1>3
<1>5. ASSUME NEW y \in S PROVE x <= y
  <2>1. x \in Nat /\ y \in Nat
    OBVIOUS
  <2>2. ~ (y < x)
    BY <1>2, <1>4, <2>1
  <2> QED
    BY <2>1, <2>2
<1> QED
  BY <1>5 DEF Min

\* So is the greatest, if there is a bound.
LEMMA MaxInSet ==
  ASSUME NEW S \in SUBSET Nat, S # {}, NEW m \in Nat, \A x \in S : x <= m
  PROVE  Max(S) \in S
<1> DEFINE Bounds == {b \in Nat : \A x \in S : x <= b}
           b == Min(Bounds)
<1>1. b \in Nat /\ (\A x \in S : x <= b) /\ \A c \in Bounds : b <= c
  <2>1. Bounds \in SUBSET Nat /\ m \in Bounds
    OBVIOUS
  <2> HIDE DEF Bounds
  <2>2. b \in Bounds /\ \A c \in Bounds : b <= c
    BY <2>1, MinInSet
  <2> QED
    BY <2>2 DEF Bounds
<1> HIDE DEF b
<1>2. b \in S
  <2> SUFFICES ASSUME b \notin S
               PROVE  FALSE
    OBVIOUS
  <2>1. \A x \in S : x < b
    BY <1>1
  <2>2. b > 0
    <3>1. PICK x \in S : TRUE
      OBVIOUS
    <3>2. x \in Nat /\ x < b
      BY <2>1
    <3> QED
      BY <1>1, <3>2
  <2>3. b - 1 \in Nat /\ \A x \in S : x <= b - 1
    BY <1>1, <2>1, <2>2
  <2> QED
    BY <1>1, <2>3
<1>3. \E x \in S : \A y \in S : x >= y
  BY <1>1, <1>2
<1> QED
  BY <1>3 DEF Max

\* A sequence that is not empty.
LEMMA SeqParts ==
  ASSUME NEW S, NEW q \in Seq(S), q # <<>>
  PROVE  /\ Len(q) \in Nat /\ Len(q) > 0 /\ Head(q) = q[1] /\ Head(q) \in S
         /\ Tail(q) \in Seq(S) /\ Len(Tail(q)) = Len(q) - 1
         /\ \A i \in 1 .. Len(q) - 1 : Tail(q)[i] = q[i + 1]
OBVIOUS

\* A sequence that is cut in two.
LEMMA CutSeq ==
  ASSUME NEW S, NEW q \in Seq(S), NEW k \in 0 .. Len(q)
  PROVE  /\ SubSeq(q, 1, k) \in Seq(S) /\ Len(SubSeq(q, 1, k)) = k
         /\ \A i \in 1 .. k : SubSeq(q, 1, k)[i] = q[i]
         /\ SubSeq(q, k + 1, Len(q)) \in Seq(S) /\ Len(SubSeq(q, k + 1, Len(q))) = Len(q) - k
         /\ \A i \in 1 .. Len(q) - k : SubSeq(q, k + 1, Len(q))[i] = q[k + i]
<1>1. Len(q) \in Nat /\ k \in Nat
  OBVIOUS
<1> QED
  BY <1>1
-----------------------------------------------------------------------------
(* The input: each part is followed by the next of its request, or by the  *)
(* first of the next request.                                              *)

Slot == [n : Nat, what : {"line", "headers", "body"}, i : Nat]

\* p is a part of one of the requests s.
Valid(s, p) ==
  /\ p \in Slot /\ p.n \in DOMAIN s
  /\ p.what = "body" => p.i \in 1 .. Len(s[p.n].body)

\* The k-th piece of the body of request m, or what follows the body.
BodyOrLine(s, m, k) ==
  IF k <= Len(s[m].body) THEN Part(m, "body", k) ELSE Part(m + 1, "line", 0)

\* The part behind p.
After(s, p) ==
  CASE p.what = "line" -> Part(p.n, "headers", 0)
    [] p.what = "headers" -> BodyOrLine(s, p.n, 1)
    [] p.what = "body" -> BodyOrLine(s, p.n, p.i + 1)

\* q is the input from part a up to, but without, part b.
Chain(s, q, a, b) ==
  /\ q \in Seq(Slot)
  /\ \A i \in 1 .. Len(q) : Valid(s, q[i])
  /\ \A i \in 1 .. Len(q) : q[i] = IF i = 1 THEN a ELSE After(s, q[i - 1])
  /\ b = IF Len(q) = 0 THEN a ELSE After(s, q[Len(q)])

\* The fields of a slot built with Part.
LEMMA PartIs ==
  ASSUME NEW m \in Nat, NEW w \in {"line", "headers", "body"}, NEW i \in Nat
  PROVE  Part(m, w, i) \in Slot /\ Part(m, w, i).n = m /\ Part(m, w, i).what = w
         /\ Part(m, w, i).i = i
BY DEF Part, Slot

\* No slots lead from a part to itself.
LEMMA ChainEmpty ==
  ASSUME NEW s, NEW a
  PROVE  Chain(s, <<>>, a, a)
<1>1. Len(<<>>) = 0 /\ <<>> \in Seq(Slot)
  OBVIOUS
<1> QED
  BY <1>1 DEF Chain

\* A chain that is cut in two.
LEMMA ChainCut ==
  ASSUME NEW s, NEW q, NEW a, NEW b, Chain(s, q, a, b), NEW k \in 0 .. Len(q)
  PROVE  \E c : /\ Chain(s, SubSeq(q, 1, k), a, c)
                /\ Chain(s, SubSeq(q, k + 1, Len(q)), c, b)
<1>0. q \in Seq(Slot) /\ Len(q) \in Nat /\ k \in Nat
  BY DEF Chain
<1> DEFINE u == SubSeq(q, 1, k)
           w == SubSeq(q, k + 1, Len(q))
           c == IF k = 0 THEN a ELSE After(s, q[k])
<1>1. /\ u \in Seq(Slot) /\ Len(u) = k /\ \A i \in 1 .. k : u[i] = q[i]
      /\ w \in Seq(Slot) /\ Len(w) = Len(q) - k
      /\ \A i \in 1 .. Len(q) - k : w[i] = q[k + i]
  BY <1>0, CutSeq
<1> HIDE DEF u, w
<1>2. Chain(s, u, a, c)
  <2>1. \A i \in 1 .. k : i \in 1 .. Len(q) /\ (i # 1 => i - 1 \in 1 .. k)
    BY <1>0
  <2>2. k # 0 => u[k] = q[k]
    BY <1>0, <1>1
  <2> QED
    BY <1>0, <1>1, <2>1, <2>2 DEF Chain
<1>3. Chain(s, w, c, b)
  <2>1. \A i \in 1 .. Len(w) : Valid(s, w[i])
    <3>1. \A i \in 1 .. Len(q) - k : k + i \in 1 .. Len(q)
      BY <1>0
    <3> QED
      BY <1>1, <3>1 DEF Chain
  <2>2. ASSUME NEW i \in 1 .. Len(w)
        PROVE  w[i] = IF i = 1 THEN c ELSE After(s, w[i - 1])
    <3>1. k + i \in 1 .. Len(q) /\ w[i] = q[k + i]
      BY <1>0, <1>1
    <3>2. q[k + i] = IF k + i = 1 THEN a ELSE After(s, q[(k + i) - 1])
      BY <3>1 DEF Chain
    <3>3. CASE i = 1
      BY <1>0, <3>1, <3>2, <3>3
    <3>4. CASE i # 1
      <4>1. i - 1 \in 1 .. Len(q) - k /\ k + (i - 1) = (k + i) - 1 /\ k + i # 1
        BY <1>0, <1>1, <3>4
      <4>2. w[i - 1] = q[(k + i) - 1]
        BY <1>1, <4>1
      <4> QED
        BY <3>1, <3>2, <3>4, <4>1, <4>2
    <3> QED
      BY <3>3, <3>4
  <2>3. b = IF Len(w) = 0 THEN c ELSE After(s, w[Len(w)])
    <3>1. b = IF Len(q) = 0 THEN a ELSE After(s, q[Len(q)])
      BY DEF Chain
    <3>2. CASE Len(w) = 0
      <4>1. k = Len(q)
        BY <1>0, <1>1, <3>2
      <4> QED
        BY <3>1, <3>2, <4>1
    <3>3. CASE Len(w) # 0
      <4>1. Len(w) \in 1 .. Len(q) - k /\ k + Len(w) = Len(q) /\ Len(q) # 0
        BY <1>0, <1>1, <3>3
      <4>2. w[Len(w)] = q[Len(q)]
        BY <1>1, <4>1
      <4> QED
        BY <3>1, <3>3, <4>1, <4>2
    <3> QED
      BY <3>2, <3>3
  <2> QED
    BY <1>1, <2>1, <2>2, <2>3 DEF Chain
<1> HIDE DEF c
<1> QED
  BY <1>2, <1>3 DEF u, w

\* The first part of a chain, and what follows it.
LEMMA ChainTail ==
  ASSUME NEW s, NEW q, NEW a, NEW b, Chain(s, q, a, b), q # <<>>
  PROVE  /\ Head(q) = a /\ Valid(s, a) /\ a \in Slot
         /\ Chain(s, Tail(q), After(s, a), b)
<1>0. q \in Seq(Slot) /\ Len(q) \in Nat
  BY DEF Chain
<1>1. /\ Len(q) > 0 /\ Head(q) = q[1]
      /\ Tail(q) \in Seq(Slot) /\ Len(Tail(q)) = Len(q) - 1
      /\ \A i \in 1 .. Len(q) - 1 : Tail(q)[i] = q[i + 1]
  BY <1>0, SeqParts
<1>2. 1 \in 1 .. Len(q)
  BY <1>0, <1>1
<1>3. Head(q) = a /\ Valid(s, a) /\ a \in Slot
  BY <1>1, <1>2 DEF Chain, Valid
<1> DEFINE w == Tail(q)
<1>w. Len(w) = Len(q) - 1
  BY <1>1
<1> HIDE DEF w
<1>4. \A i \in 1 .. Len(w) : Valid(s, w[i])
  <2>1. \A i \in 1 .. Len(q) - 1 : i + 1 \in 1 .. Len(q)
    BY <1>0
  <2> QED
    BY <1>1, <2>1 DEF Chain, w
<1>5. ASSUME NEW i \in 1 .. Len(w)
      PROVE  w[i] = IF i = 1 THEN After(s, a) ELSE After(s, w[i - 1])
  <2>1. i + 1 \in 1 .. Len(q) /\ w[i] = q[i + 1] /\ i + 1 # 1 /\ (i + 1) - 1 = i
    BY <1>0, <1>1 DEF w
  <2>2. q[i + 1] = After(s, q[i])
    BY <2>1 DEF Chain
  <2>3. CASE i = 1
    BY <1>1, <1>3, <2>1, <2>2, <2>3
  <2>4. CASE i # 1
    <3>1. i - 1 \in 1 .. Len(q) - 1 /\ (i - 1) + 1 = i
      BY <1>0, <1>1, <2>4 DEF w
    <3>2. w[i - 1] = q[i]
      BY <1>1, <3>1 DEF w
    <3> QED
      BY <2>1, <2>2, <2>4, <3>2
  <2> QED
    BY <2>3, <2>4
<1>6. b = IF Len(w) = 0 THEN After(s, a) ELSE After(s, w[Len(w)])
  <2>1. b = After(s, q[Len(q)])
    BY <1>0, <1>1 DEF Chain
  <2>2. CASE Len(w) = 0
    <3>1. Len(q) = 1
      BY <1>0, <1>w, <2>2
    <3> QED
      BY <1>1, <1>3, <2>1, <2>2, <3>1
  <2>3. CASE Len(w) # 0
    <3>1. Len(w) \in 1 .. Len(q) - 1 /\ Len(w) + 1 = Len(q)
      BY <1>0, <1>1, <2>3 DEF w
    <3>2. w[Len(w)] = q[Len(q)]
      BY <1>1, <3>1 DEF w
    <3> QED
      BY <2>1, <2>3, <3>2
  <2> QED
    BY <2>2, <2>3
<1>7. Chain(s, w, After(s, a), b)
  BY <1>1, <1>4, <1>5, <1>6 DEF Chain, w
<1> QED
  BY <1>3, <1>7 DEF w

\* The parts of a chain that begins in a body are the pieces of the body, as
\* far as it goes.
LEMMA ChainBody ==
  ASSUME NEW s, NEW q, NEW m \in Nat, NEW k \in Nat, NEW b, NEW L \in Nat, L = Len(s[m].body),
         Chain(s, q, BodyOrLine(s, m, k), b), k > 0,
         NEW j \in 0 .. Len(q), k + j <= L + 1
  PROVE  /\ \A i \in 1 .. j : q[i] = Part(m, "body", (k - 1) + i)
         /\ Chain(s, SubSeq(q, j + 1, Len(q)), BodyOrLine(s, m, k + j), b)
<1>0. q \in Seq(Slot) /\ Len(q) \in Nat /\ j \in Nat
  BY DEF Chain
<1>1. \A i \in 1 .. j : q[i] = Part(m, "body", (k - 1) + i)
  <2> DEFINE Wrong == {i \in 1 .. j : q[i] # Part(m, "body", (k - 1) + i)}
  <2> SUFFICES ASSUME Wrong # {}
               PROVE  FALSE
    OBVIOUS
  <2>1. Wrong \in SUBSET Nat
    BY <1>0
  <2>2. PICK i \in Wrong : \A h \in Wrong : i <= h
    <3> HIDE DEF Wrong
    <3> QED
      BY <2>1, MinInSet
  <2>3. i \in 1 .. j /\ i \in 1 .. Len(q) /\ q[i] # Part(m, "body", (k - 1) + i)
    BY <1>0, <2>2
  <2>4. q[i] = IF i = 1 THEN BodyOrLine(s, m, k) ELSE After(s, q[i - 1])
    BY <2>3 DEF Chain
  <2>5. CASE i = 1
    <3>1. k <= L /\ (k - 1) + i = k
      BY <1>0, <2>3, <2>5
    <3> QED
      BY <2>3, <2>4, <2>5, <3>1 DEF BodyOrLine
  <2>6. CASE i # 1
    <3>1. i - 1 \in 1 .. j /\ i - 1 < i /\ (k - 1) + i <= L
      BY <1>0, <2>3, <2>6
    <3>2. PICK x \in Nat : x = (k - 1) + (i - 1)
      BY <1>0, <3>1
    <3>3. x + 1 = (k - 1) + i
      BY <1>0, <3>1, <3>2
    <3>4. q[i - 1] = Part(m, "body", x)
      BY <1>0, <2>1, <2>2, <3>1, <3>2
    <3>5. After(s, Part(m, "body", x)) = BodyOrLine(s, m, x + 1)
      BY PartIs, SMTT(30) DEF After
    <3>6. After(s, q[i - 1]) = BodyOrLine(s, m, (k - 1) + i)
      BY <3>3, <3>4, <3>5
    <3> QED
      BY <2>3, <2>4, <2>6, <3>1, <3>6 DEF BodyOrLine
  <2> QED
    BY <2>5, <2>6
<1>2. PICK c : /\ Chain(s, SubSeq(q, 1, j), BodyOrLine(s, m, k), c)
               /\ Chain(s, SubSeq(q, j + 1, Len(q)), c, b)
  BY ChainCut
<1>3. c = BodyOrLine(s, m, k + j)
  <2> DEFINE u == SubSeq(q, 1, j)
  <2>1. Len(u) = j /\ \A i \in 1 .. j : u[i] = q[i]
    BY <1>0, CutSeq
  <2>2. c = IF Len(u) = 0 THEN BodyOrLine(s, m, k) ELSE After(s, u[Len(u)])
    BY <1>2 DEF Chain
  <2> HIDE DEF u
  <2>3. CASE j = 0
    <3>1. k + j = k
      BY <2>3
    <3> QED
      BY <2>1, <2>2, <2>3, <3>1
  <2>4. CASE j # 0
    <3>1. j \in 1 .. j /\ (k - 1) + j \in Nat /\ ((k - 1) + j) + 1 = k + j
      BY <1>0, <2>4
    <3>2. u[j] = Part(m, "body", (k - 1) + j)
      BY <1>1, <2>1, <3>1
    <3>3. After(s, u[j]) = BodyOrLine(s, m, k + j)
      BY <3>1, <3>2, PartIs DEF After
    <3> QED
      BY <2>1, <2>2, <2>4, <3>3
  <2> QED
    BY <2>3, <2>4
<1> QED
  BY <1>1, <1>2, <1>3

\* Two chains, one behind the other.
LEMMA ChainConcat ==
  ASSUME NEW s, NEW u, NEW w, NEW a, NEW b, NEW c, Chain(s, u, a, b), Chain(s, w, b, c)
  PROVE  Chain(s, u \o w, a, c)
<1>0. u \in Seq(Slot) /\ w \in Seq(Slot) /\ Len(u) \in Nat /\ Len(w) \in Nat
  BY DEF Chain
<1> DEFINE q == u \o w
<1>1. /\ q \in Seq(Slot) /\ Len(q) = Len(u) + Len(w)
      /\ \A i \in 1 .. Len(u) : q[i] = u[i]
      /\ \A i \in 1 .. Len(w) : q[Len(u) + i] = w[i]
  BY <1>0
<1> HIDE DEF q
<1>2. ASSUME NEW i \in 1 .. Len(q)
      PROVE  Valid(s, q[i]) /\ q[i] = IF i = 1 THEN a ELSE After(s, q[i - 1])
  <2>1. CASE i <= Len(u)
    <3>1. i \in 1 .. Len(u) /\ (i # 1 => i - 1 \in 1 .. Len(u))
      BY <1>0, <1>1, <2>1
    <3> QED
      BY <1>1, <3>1 DEF Chain
  <2>2. CASE i = Len(u) + 1
    <3>1. 1 \in 1 .. Len(w) /\ q[i] = w[1]
      BY <1>0, <1>1, <2>2
    <3>2. Valid(s, q[i]) /\ q[i] = b
      BY <3>1 DEF Chain
    <3>3. CASE Len(u) = 0
      <4>1. i = 1
        BY <2>2, <3>3
      <4> QED
        BY <3>2, <3>3, <4>1 DEF Chain
    <3>4. CASE Len(u) # 0
      <4>1. i # 1 /\ i - 1 = Len(u) /\ Len(u) \in 1 .. Len(u)
        BY <1>0, <2>2, <3>4
      <4> QED
        BY <1>1, <3>2, <3>4, <4>1 DEF Chain
    <3> QED
      BY <3>3, <3>4
  <2>3. CASE i > Len(u) + 1
    <3>1. PICK j \in Nat : j = i - Len(u)
      <4>1. i \in Nat
        BY <1>0, <1>1
      <4> QED
        BY <1>0, <2>3, <4>1
    <3>2. /\ j \in 1 .. Len(w) /\ j - 1 \in 1 .. Len(w) /\ j # 1 /\ i # 1
          /\ Len(u) + j = i /\ Len(u) + (j - 1) = i - 1
      BY <1>0, <1>1, <2>3, <3>1
    <3>3. q[i] = w[j] /\ q[i - 1] = w[j - 1]
      BY <1>1, <3>2
    <3>4. Valid(s, w[j]) /\ w[j] = After(s, w[j - 1])
      BY <3>2 DEF Chain
    <3> QED
      BY <3>2, <3>3, <3>4
  <2> QED
    BY <1>0, <1>1, <2>1, <2>2, <2>3
<1>3. c = IF Len(q) = 0 THEN a ELSE After(s, q[Len(q)])
  <2>1. /\ c = IF Len(w) = 0 THEN b ELSE After(s, w[Len(w)])
        /\ b = IF Len(u) = 0 THEN a ELSE After(s, u[Len(u)])
    BY DEF Chain
  <2>2. CASE Len(w) = 0
    <3>1. Len(q) = Len(u) /\ (Len(u) # 0 => Len(u) \in 1 .. Len(u))
      BY <1>0, <1>1, <2>2
    <3> QED
      BY <1>1, <2>1, <2>2, <3>1
  <2>3. CASE Len(w) # 0
    <3>1. Len(q) # 0 /\ Len(w) \in 1 .. Len(w) /\ Len(q) = Len(u) + Len(w)
      BY <1>0, <1>1, <2>3
    <3>2. q[Len(q)] = w[Len(w)]
      BY <1>1, <3>1
    <3> QED
      BY <2>1, <2>3, <3>1, <3>2
  <2> QED
    BY <2>2, <2>3
<1> QED
  BY <1>1, <1>2, <1>3 DEF Chain, q

\* The requests that were sent stay where they are when one more is sent.
LEMMA ChainMore ==
  ASSUME NEW s \in Seq(Requests), NEW r0 \in Requests, NEW q, NEW a, NEW b, Chain(s, q, a, b)
  PROVE  Chain(Append(s, r0), q, a, b)
<1>0. q \in Seq(Slot) /\ Len(q) \in Nat
  BY DEF Chain
<1> DEFINE s2 == Append(s, r0)
<1>1. Len(s) \in Nat /\ DOMAIN s = 1 .. Len(s) /\ DOMAIN s2 = 1 .. Len(s) + 1
      /\ \A m \in 1 .. Len(s) : s2[m] = s[m]
  OBVIOUS
<1> HIDE DEF s2
<1>2. ASSUME NEW p, Valid(s, p)
      PROVE  Valid(s2, p) /\ After(s2, p) = After(s, p)
  <2>1. p.n \in 1 .. Len(s) /\ p.n \in DOMAIN s2 /\ s2[p.n] = s[p.n]
    BY <1>1, <1>2 DEF Valid
  <2> QED
    BY <1>2, <2>1 DEF Valid, After, BodyOrLine
<1>3. \A i \in 1 .. Len(q) : (i # 1 => i - 1 \in 1 .. Len(q))
  BY <1>0
<1>4. \A i \in 1 .. Len(q) : Valid(s2, q[i])
  BY <1>2 DEF Chain
<1>5. \A i \in 1 .. Len(q) : q[i] = IF i = 1 THEN a ELSE After(s2, q[i - 1])
  BY <1>2, <1>3 DEF Chain
<1>6. b = IF Len(q) = 0 THEN a ELSE After(s2, q[Len(q)])
  <2>1. Len(q) # 0 => Len(q) \in 1 .. Len(q)
    BY <1>0
  <2> QED
    BY <1>2, <2>1 DEF Chain
<1> QED
  BY <1>0, <1>4, <1>5, <1>6 DEF Chain, s2

\* The parts of one request.
LEMMA ChainParts ==
  ASSUME NEW s, NEW m \in DOMAIN s, m \in Nat, NEW q \in Requests, s[m] = q
  PROVE  Chain(s, Parts(m, q), Part(m, "line", 0), Part(m + 1, "line", 0))
<1>0. q.body \in Seq(Piece)
  BY FramingConstants DEF Request
<1> DEFINE L == Len(q.body)
           u == <<Part(m, "line", 0), Part(m, "headers", 0)>>
           w == [i \in DOMAIN q.body |-> Part(m, "body", i)]
<1>1. L \in Nat /\ DOMAIN q.body = 1 .. L
  BY <1>0
<1>2. Part(m, "line", 0) \in Slot /\ Part(m, "headers", 0) \in Slot
  BY PartIs
<1>3. u \in Seq(Slot) /\ Len(u) = 2 /\ u[1] = Part(m, "line", 0) /\ u[2] = Part(m, "headers", 0)
  BY <1>2
<1>4. \A i \in 1 .. L : Part(m, "body", i) \in Slot
  BY <1>1, PartIs
<1>5. w \in Seq(Slot) /\ Len(w) = L /\ \A i \in 1 .. L : w[i] = Part(m, "body", i)
  <2>1. w = [i \in 1 .. L |-> Part(m, "body", i)]
    BY <1>1
  <2> HIDE DEF L
  <2> QED
    BY <1>1, <1>4, <2>1
<1> HIDE DEF u, w
<1>6. Chain(s, u, Part(m, "line", 0), BodyOrLine(s, m, 1))
  <2>1. \A i \in 1 .. Len(u) : i = 1 \/ i = 2
    BY <1>3
  <2>2. Valid(s, Part(m, "line", 0)) /\ Valid(s, Part(m, "headers", 0))
    BY <1>2, PartIs DEF Valid
  <2>3. After(s, Part(m, "line", 0)) = Part(m, "headers", 0)
    BY PartIs DEF After
  <2>4. After(s, Part(m, "headers", 0)) = BodyOrLine(s, m, 1)
    BY PartIs DEF After
  <2> QED
    BY <1>3, <2>1, <2>2, <2>3, <2>4 DEF Chain
<1>7. Chain(s, w, BodyOrLine(s, m, 1), Part(m + 1, "line", 0))
  <2>1. ASSUME NEW i \in 1 .. L
        PROVE  /\ Valid(s, w[i])
               /\ w[i] = IF i = 1 THEN BodyOrLine(s, m, 1) ELSE After(s, w[i - 1])
               /\ After(s, w[i]) = BodyOrLine(s, m, i + 1)
    <3>0. i \in Nat
      BY <1>1
    <3>1. w[i] = Part(m, "body", i) /\ w[i] \in Slot /\ w[i].n = m /\ w[i].what = "body" /\ w[i].i = i
      BY <1>5, <3>0, PartIs
    <3>2. Valid(s, w[i]) /\ After(s, w[i]) = BodyOrLine(s, m, i + 1)
      BY <3>1 DEF Valid, After
    <3>3. BodyOrLine(s, m, i) = Part(m, "body", i)
      BY <1>1 DEF BodyOrLine
    <3>4. CASE i = 1
      BY <3>1, <3>2, <3>3, <3>4
    <3>5. CASE i # 1
      <4>1. i - 1 \in 1 .. L /\ i - 1 \in Nat /\ (i - 1) + 1 = i
        BY <1>1, <3>5
      <4>2. w[i - 1] = Part(m, "body", i - 1)
        BY <1>5, <4>1
      <4>3. After(s, w[i - 1]) = BodyOrLine(s, m, i)
        BY <4>1, <4>2, PartIs DEF After
      <4> QED
        BY <3>1, <3>2, <3>3, <3>5, <4>3
    <3> QED
      BY <3>4, <3>5
  <2>2. BodyOrLine(s, m, L + 1) = Part(m + 1, "line", 0)
    BY <1>1 DEF BodyOrLine
  <2>3. L # 0 => L \in 1 .. L
    BY <1>1
  <2> HIDE DEF L
  <2>4. Part(m + 1, "line", 0) = IF Len(w) = 0 THEN BodyOrLine(s, m, 1) ELSE After(s, w[Len(w)])
    <3>1. CASE L = 0
      <4>1. L + 1 = 1
        BY <3>1
      <4> QED
        BY <1>5, <2>2, <3>1, <4>1
    <3>2. CASE L # 0
      BY <1>5, <2>1, <2>2, <2>3, <3>2
    <3> QED
      BY <3>1, <3>2
  <2> QED
    BY <1>5, <2>1, <2>4 DEF Chain
<1>8. Parts(m, q) = u \o w
  BY DEF Parts, u, w
<1> QED
  BY <1>6, <1>7, <1>8, ChainConcat
-----------------------------------------------------------------------------
(* The body of a POST.                                                     *)

\* What a request of the client consists of.
LEMMA RequestIs ==
  ASSUME NEW q \in Requests
  PROVE  /\ q.action \in Actions /\ q.entity_id \in Ids \union {NoId}
         /\ q.close \in BOOLEAN /\ q.malformed \in BOOLEAN
         /\ q.body \in Seq(Piece) /\ Len(q.body) \in Nat /\ DOMAIN q.body = 1 .. Len(q.body)
         /\ \A i, j \in DOMAIN q.body :
              q.body[i].closes /\ i < j => ~ q.body[j].closes /\ DOMAIN q.body[j].fields = {}
<1>1. q \in Request
  BY FramingConstants
<1>2. q.body \in Seq(Piece)
  BY <1>1 DEF Request
<1>3. Len(q.body) \in Nat /\ DOMAIN q.body = 1 .. Len(q.body)
  BY <1>2
<1>4. /\ q.action \in Actions /\ q.entity_id \in Ids \union {NoId}
      /\ q.close \in BOOLEAN /\ q.malformed \in BOOLEAN
  BY <1>1 DEF Request
<1>5. \A i, j \in DOMAIN q.body :
        q.body[i].closes /\ i < j => ~ q.body[j].closes /\ DOMAIN q.body[j].fields = {}
  BY FramingConstants
<1> QED
  BY <1>2, <1>3, <1>4, <1>5

\* The JSON parser stops in the input it has, at the brace if it is there.
LEMMA ObjectEndIs ==
  ASSUME NEW pieces \in Seq(Piece)
  PROVE  /\ ObjectEnd(pieces) \in 0 .. Len(pieces)
         /\ (\E i \in DOMAIN pieces : pieces[i].closes) =>
              ObjectEnd(pieces) \in DOMAIN pieces /\ pieces[ObjectEnd(pieces)].closes
<1> DEFINE ends == {i \in DOMAIN pieces : pieces[i].closes}
<1>1. Len(pieces) \in Nat /\ DOMAIN pieces = 1 .. Len(pieces)
  OBVIOUS
<1>2. CASE ends = {}
  BY <1>1, <1>2 DEF ObjectEnd
<1>3. CASE ends # {}
  <2>1. ends \in SUBSET Nat
    BY <1>1
  <2>2. Min(ends) \in ends
    <3> HIDE DEF ends
    <3> QED
      BY <1>3, <2>1, MinInSet
  <2>3. ObjectEnd(pieces) = Min(ends)
    BY <1>3 DEF ObjectEnd
  <2> QED
    BY <1>1, <2>2, <2>3
<1> QED
  BY <1>2, <1>3

\* The value of a field is that of a piece, or what it was before.
LEMMA ValueIs ==
  ASSUME NEW pieces \in Seq(Piece), NEW v, NEW f
  PROVE  \/ Setting(pieces, f) = {} /\ Value(v, pieces, f) = v[f]
         \/ \E i \in Setting(pieces, f) :
              /\ i \in DOMAIN pieces /\ f \in DOMAIN pieces[i].fields
              /\ Value(v, pieces, f) = pieces[i].fields[f]
<1>1. ObjectEnd(pieces) \in Nat /\ ObjectEnd(pieces) <= Len(pieces) /\ Len(pieces) \in Nat
      /\ DOMAIN pieces = 1 .. Len(pieces)
  BY ObjectEndIs
<1>2. CASE Setting(pieces, f) = {}
  BY <1>2 DEF Value
<1>3. CASE Setting(pieces, f) # {}
  <2>1. /\ Setting(pieces, f) \in SUBSET Nat
        /\ \A x \in Setting(pieces, f) : x <= ObjectEnd(pieces)
    BY <1>1 DEF Setting
  <2>2. Max(Setting(pieces, f)) \in Setting(pieces, f)
    BY <1>1, <1>3, <2>1, MaxInSet
  <2>3. Value(v, pieces, f) = pieces[Max(Setting(pieces, f))].fields[f]
    BY <1>3 DEF Value
  <2>4. \A i \in Setting(pieces, f) : i \in DOMAIN pieces /\ f \in DOMAIN pieces[i].fields
    BY <1>1 DEF Setting
  <2> QED
    BY <2>2, <2>3, <2>4
<1> QED
  BY <1>2, <1>3

\* An id field holds an id, the other one a content.
LEMMA FieldTyped ==
  ASSUME NEW p \in Piece, NEW f \in DOMAIN p.fields
  PROVE  p.fields[f] \in IF f = "id" THEN Ids ELSE Contents
<1>1. p.fields \in Fields
  BY DEF Piece
<1> QED
  BY <1>1 DEF Fields

\* Parsing pieces of a body leaves the visit a visit.
LEMMA ParsedTyped ==
  ASSUME NEW pieces \in Seq(Piece), NEW v \in Visit
  PROVE  Parsed(v, pieces) \in Visit
<1>1. v["id"] \in Ids \union {NoId} /\ v["rest"] \in Contents \union {NoId}
      /\ v.mask \in SUBSET {"id", "rest"}
  BY DEF Visit
<1>2. \A i \in DOMAIN pieces : pieces[i] \in Piece
  OBVIOUS
<1>3. Value(v, pieces, "id") \in Ids \union {NoId}
  BY <1>1, <1>2, ValueIs, FieldTyped
<1>4. Value(v, pieces, "rest") \in Contents \union {NoId}
  <2>1. "rest" # "id"
    OBVIOUS
  <2> QED
    BY <1>1, <1>2, <2>1, ValueIs, FieldTyped
<1>5. (v.mask \union {f \in {"id", "rest"} : Setting(pieces, f) # {}}) \in SUBSET {"id", "rest"}
  BY <1>1
<1> QED
  BY <1>3, <1>4, <1>5 DEF Parsed, Visit

\* A value is given for a field when a piece of the body has it there.
LEMMA GivenIs ==
  ASSUME NEW m, NEW f, NEW x
  PROVE  x \in Given(m, f) <=>
           \E i \in DOMAIN sent[m].body :
             f \in DOMAIN sent[m].body[i].fields /\ x = sent[m].body[i].fields[f]
BY DEF Given, ToSet

\* Visit v has what the body of the m-th request gives it.
Own(m, v) ==
  /\ v.mask = {f \in {"id", "rest"} : Given(m, f) # {}}
  /\ \A f \in v.mask : v[f] \in Given(m, f)

\* A body that is parsed in one call.
LEMMA ParsedOwn ==
  ASSUME NEW m, sent[m] \in Requests, NEW v \in Visit, v.mask = {},
         \E k \in DOMAIN sent[m].body : sent[m].body[k].closes
  PROVE  Own(m, Parsed(v, sent[m].body))
<1> DEFINE b == sent[m].body
           z == ObjectEnd(b)
<1>1. /\ b \in Seq(Piece) /\ Len(b) \in Nat /\ DOMAIN b = 1 .. Len(b)
      /\ \A i, j \in DOMAIN b : b[i].closes /\ i < j => DOMAIN b[j].fields = {}
  BY RequestIs
<1>2. z \in DOMAIN b /\ b[z].closes
  BY <1>1, ObjectEndIs
<1>3. ASSUME NEW f
      PROVE  Setting(b, f) # {} <=> Given(m, f) # {}
  <2>1. ASSUME NEW i \in Setting(b, f)
        PROVE  b[i].fields[f] \in Given(m, f)
    <3>1. i \in DOMAIN b /\ f \in DOMAIN b[i].fields
      <4> HIDE DEF b
      <4> QED
        BY <1>1, <1>2, <2>1 DEF Setting
    <3> QED
      BY <3>1, GivenIs
  <2>2. ASSUME NEW x \in Given(m, f)
        PROVE  Setting(b, f) # {}
    <3>1. PICK i \in DOMAIN b : f \in DOMAIN b[i].fields
      BY <2>2, GivenIs
    <3>2. ~ (z < i)
      BY <1>1, <1>2, <3>1
    <3>3. i \in 1 .. z
      <4> HIDE DEF z
      <4> QED
        BY <1>1, <1>2, <3>1, <3>2
    <3> QED
      BY <3>1, <3>3 DEF Setting
  <2> QED
    BY <2>1, <2>2
<1> HIDE DEF b
<1>4. ASSUME NEW f, Setting(b, f) # {}
      PROVE  Value(v, b, f) \in Given(m, f)
  <2>1. b \in Seq(Piece)
    BY <1>1
  <2>2. \E i \in Setting(b, f) :
          /\ i \in DOMAIN b /\ f \in DOMAIN b[i].fields
          /\ Value(v, b, f) = b[i].fields[f]
    BY <1>4, <2>1, ValueIs
  <2>3. PICK i \in DOMAIN b : f \in DOMAIN b[i].fields /\ Value(v, b, f) = b[i].fields[f]
    BY <2>2
  <2> QED
    BY <2>3, GivenIs DEF b
<1>5. /\ Parsed(v, b).mask = {f \in {"id", "rest"} : Setting(b, f) # {}}
      /\ Parsed(v, b)["id"] = Value(v, b, "id") /\ Parsed(v, b)["rest"] = Value(v, b, "rest")
  BY DEF Parsed
<1>6. \A f \in {"id", "rest"} : Parsed(v, b)[f] = Value(v, b, f)
  BY <1>5
<1> QED
  BY <1>3, <1>4, <1>5, <1>6 DEF Own, b
-----------------------------------------------------------------------------
(***************************************************************************)
(* The inductive invariant.                                                *)
(***************************************************************************)

\* HttpParser::r, and what handleRequest is called with.
Parsing == [action : Actions, entity_id : Ids \union {NoId}, v : Visit]
Call == [n : Nat, action : Actions, v : Visit]

Typed ==
  /\ sent \in Seq(Requests) /\ wire \in Seq(Slot) /\ buf \in Seq(Slot)
  /\ open \in BOOLEAN /\ done \in BOOLEAN
  /\ headers_done \in BOOLEAN /\ connection_close \in BOOLEAN
  /\ cs \in {"line", "headers", "error", "end"}
  /\ r \in Parsing /\ n \in Nat /\ content_length \in Nat
  /\ handled \in Seq(Call)

\* How many requests were sent and were handled, and how long a body is.
Sent == Len(sent)
Done == Len(handled)
Size(m) == Len(sent[m].body)

\* The parser is at the first request that was not handled.
AtNext ==
  /\ n = (IF cs = "line" THEN 0 ELSE Done + 1)
  /\ Done <= Sent /\ n <= Sent
  /\ headers_done <=> cs = "end"
  /\ done <=> cs = "end" /\ content_length = 0
  /\ cs = "end" => content_length <= Size(n)
  /\ \A i \in 1 .. Done : handled[i].n = i

\* The part the parser is to see next.
Expected ==
  CASE cs = "line" -> Part(Done + 1, "line", 0)
    [] cs \in {"headers", "error"} -> Part(n, "headers", 0)
    [] cs = "end" -> BodyOrLine(sent, n, (Size(n) - content_length) + 1)

\* The buffer and, while the descriptor is open, what has not been read are
\* the input from there on.
InOrder ==
  /\ \E p : /\ Chain(sent, buf, Expected, p)
            /\ open => Chain(sent, wire, p, Part(Sent + 1, "line", 0))
  /\ \A i \in 1 .. Len(wire) : Valid(sent, wire[i])

\* What of the body of request n was parsed has a closing brace.
Closed == \E i \in 1 .. Size(n) - content_length : sent[n].body[i].closes

\* The Request of the parser stands for the request it is at: a POST is kept
\* while it has been seen whole, or its brace is behind a cut.
Kept ==
  /\ cs # "line" => r.entity_id = sent[n].entity_id
  /\ cs \in {"headers", "error"} =>
       r.action = sent[n].action /\ (IsPost(n) => r.v.mask = {})
  /\ cs = "end" /\ ~ IsPost(n) => r.action = sent[n].action
  /\ cs = "end" /\ IsPost(n) =>
       /\ r.action \in {sent[n].action, "BadRequest"}
       /\ content_length = Size(n) /\ content_length # 0 =>
            r.action = sent[n].action /\ r.v.mask = {} /\ n \notin cut
       /\ content_length < Size(n) /\ content_length # 0 =>
            n \in cut /\ (r.action = sent[n].action => Closed)
       /\ content_length = 0 =>
            /\ r.action = IF Whole(n) THEN sent[n].action ELSE "BadRequest"
            /\ Whole(n) => Own(n, r.v)

CutSeen == cut \subseteq 1 .. (IF cs = "end" THEN Done + 1 ELSE Done)

\* What handleRequest was called with.
Answers(h) ==
  /\ h.action = IF IsPost(h.n) /\ ~ Whole(h.n) THEN "BadRequest" ELSE sent[h.n].action
  /\ h.action \in PostActions =>
       /\ h.v.mask = {f \in {"id", "rest"} : Given(h.n, f) # {}}
       /\ \A f \in h.v.mask :
            f = "rest" \/ sent[h.n].action = "PostVisitNew" => h.v[f] \in Given(h.n, f)
       /\ sent[h.n].action = "PostVisit" => h.v.id = sent[h.n].entity_id

AllAnswered == \A i \in 1 .. Done : Answers(handled[i])

IInv == Typed /\ AtNext /\ InOrder /\ Kept /\ CutSeen /\ AllAnswered

\* The invariant holds when the connection is accepted.
LEMMA InitInv == Init => IInv
<1> SUFFICES ASSUME Init PROVE IInv
  OBVIOUS
<1>1. /\ <<>> \in Seq(Requests) /\ <<>> \in Seq(Slot) /\ <<>> \in Seq(Call)
      /\ Len(<<>>) = 0 /\ 1 .. 0 = {}
  OBVIOUS
<1>2. /\ sent = <<>> /\ wire = <<>> /\ buf = <<>> /\ handled = <<>> /\ cs = "line" /\ n = 0
      /\ ~ headers_done /\ ~ done /\ ~ connection_close /\ content_length = 0 /\ cut = {}
  BY DEF Init
<1>3. r \in Parsing
  BY DEF Init, Fresh, Parsing, Visit, Actions
<1>4. Typed
  BY <1>1, <1>3 DEF Init, Typed
<1>5. Sent = 0 /\ Done = 0
  BY <1>1, <1>2 DEF Sent, Done
<1>6. AtNext
  BY <1>1, <1>2, <1>5 DEF AtNext
<1>7. InOrder
  <2>1. Expected = Part(1, "line", 0) /\ Part(Sent + 1, "line", 0) = Part(1, "line", 0)
    BY <1>2, <1>5 DEF Expected
  <2>2. Chain(sent, buf, Expected, Expected) /\ Chain(sent, wire, Expected, Expected)
    BY <1>2, ChainEmpty
  <2>3. \A i \in 1 .. Len(wire) : Valid(sent, wire[i])
    BY <1>1, <1>2
  <2> QED
    BY <2>1, <2>2, <2>3 DEF InOrder
<1>8. Kept /\ CutSeen /\ AllAnswered
  BY <1>1, <1>2, <1>5 DEF Kept, CutSeen, AllAnswered
<1> QED
  BY <1>4, <1>6, <1>7, <1>8 DEF IInv
-----------------------------------------------------------------------------
(* Each step keeps the invariant.                                          *)

\* What a step does not touch of the requests that were handled.
LEMMA AnswersKept ==
  ASSUME NEW h, sent'[h.n] = sent[h.n], h.n \in cut' <=> h.n \in cut, Answers(h)
  PROVE  Answers(h)'
<1>1. Whole(h.n)' <=> Whole(h.n)
  BY DEF Whole
<1>2. \A f : Given(h.n, f)' = Given(h.n, f)
  BY DEF Given
<1>3. IsPost(h.n)' <=> IsPost(h.n)
  BY DEF IsPost
<1> QED
  BY <1>1, <1>2, <1>3 DEF Answers

\* A step that handles nothing and keeps the sent requests keeps the answers.
LEMMA AllAnsweredKept ==
  ASSUME Typed, AtNext, AllAnswered, handled' = handled,
         \A m \in 1 .. Sent : sent'[m] = sent[m],
         \A m \in 1 .. Done : m \in cut' <=> m \in cut
  PROVE  AllAnswered'
<1> SUFFICES ASSUME NEW i \in 1 .. Done
             PROVE  Answers(handled[i])'
  BY DEF AllAnswered, Done
<1>1. PICK h : h = handled[i]
  OBVIOUS
<1>2. h.n = i /\ Answers(h)
  BY <1>1 DEF AtNext, AllAnswered
<1>3. i \in 1 .. Sent
  BY DEF AtNext, Typed, Sent, Done
<1>4. Answers(h)'
  BY <1>2, <1>3, AnswersKept
<1>5. handled'[i] = h
  BY <1>1
<1> QED
  BY <1>4, <1>5 DEF Answers

\* What a step does not touch of the request the parser is at.
LEMMA KeptStill ==
  ASSUME Kept, UNCHANGED <<r, n, cs, content_length, cut>>, cs # "line" => sent'[n] = sent[n]
  PROVE  Kept'
<1>1. CASE cs = "line"
  BY <1>1 DEF Kept
<1>2. CASE cs # "line"
  <2>1. sent'[n] = sent[n]
    BY <1>2
  <2>2. (Whole(n)' <=> Whole(n)) /\ (IsPost(n)' <=> IsPost(n)) /\ Size(n)' = Size(n)
    BY <2>1 DEF Whole, IsPost, Size
  <2>3. Closed' <=> Closed
    BY <2>1, <2>2 DEF Closed
  <2>4. Own(n, r.v)' <=> Own(n, r.v)
    BY <2>1 DEF Own, Given
  <2> QED
    BY <2>1, <2>2, <2>3, <2>4 DEF Kept
<1> QED
  BY <1>1, <1>2

\* The counters of the parser are in range, and it is at a sent request.
LEMMA Numbers ==
  ASSUME Typed, AtNext
  PROVE  /\ Sent \in Nat /\ Done \in Nat /\ DOMAIN sent = 1 .. Sent
         /\ \A m \in 1 .. Sent : sent[m] \in Requests /\ Size(m) \in Nat
         /\ cs # "line" => n = Done + 1 /\ n \in 1 .. Sent
<1>1. Sent \in Nat /\ Done \in Nat /\ DOMAIN sent = 1 .. Sent
  BY DEF Typed, Sent, Done
<1>2. \A m \in 1 .. Sent : sent[m] \in Requests /\ Size(m) \in Nat
  BY RequestIs DEF Typed, Sent, Size
<1>3. cs # "line" => n = Done + 1 /\ n \in 1 .. Sent
  BY <1>1 DEF AtNext
<1> QED
  BY <1>1, <1>2, <1>3

\* The client sends one more request behind the others.
LEMMA SendStep ==
  ASSUME IInv, NEW q \in Requests, Send(q)
  PROVE  IInv'
<1> USE DEF IInv
<1>0. /\ sent' = Append(sent, q) /\ wire' = wire \o Parts(Sent + 1, q)
      /\ UNCHANGED <<buf, open, cs, headers_done, connection_close, done, content_length, r, n,
                     handled, cut>>
  BY DEF Send, head, Sent
<1>1. /\ Sent \in Nat /\ Done \in Nat /\ DOMAIN sent = 1 .. Sent
      /\ cs # "line" => n = Done + 1 /\ n \in 1 .. Sent
  BY Numbers
<1>2. /\ sent' \in Seq(Requests) /\ Sent' = Sent + 1 /\ DOMAIN sent' = 1 .. Sent + 1
      /\ sent'[Sent + 1] = q /\ Done' = Done /\ \A m \in 1 .. Sent : sent'[m] = sent[m]
  BY <1>0, <1>1 DEF Typed, Sent, Done
<1>3. cs # "line" => sent'[n] = sent[n] /\ Size(n)' = Size(n)
  BY <1>0, <1>1, <1>2 DEF Size
<1>4. Expected' = Expected
  BY <1>0, <1>2, <1>3 DEF Expected, BodyOrLine, Size, Typed
<1>5. PICK p : /\ Chain(sent, buf, Expected, p)
               /\ open => Chain(sent, wire, p, Part(Sent + 1, "line", 0))
  BY DEF InOrder
<1>6. PICK e : e = Expected
  OBVIOUS
<1>7. Chain(sent', buf, e, p)
  BY <1>0, <1>5, <1>6, ChainMore DEF Typed
<1>8. PICK w : w = Parts(Sent + 1, q)
  OBVIOUS
<1>9. Chain(sent', w, Part(Sent + 1, "line", 0), Part((Sent + 1) + 1, "line", 0))
  <2>1. Sent + 1 \in DOMAIN sent' /\ Sent + 1 \in Nat
    BY <1>1, <1>2
  <2> QED
    BY <1>2, <1>8, <2>1, ChainParts
<1>10. ASSUME open
       PROVE  Chain(sent', wire \o w, p, Part((Sent + 1) + 1, "line", 0))
  <2>1. Chain(sent', wire, p, Part(Sent + 1, "line", 0))
    BY <1>0, <1>5, <1>10, ChainMore DEF Typed
  <2> QED
    BY <1>9, <2>1, ChainConcat
<1>11. \A i \in 1 .. Len(wire \o w) : Valid(sent', (wire \o w)[i])
  <2>1. wire \in Seq(Slot) /\ w \in Seq(Slot) /\ Len(wire) \in Nat /\ Len(w) \in Nat
    BY <1>9 DEF Typed, Chain
  <2>2. \A i \in 1 .. Len(w) : Valid(sent', w[i])
    BY <1>9 DEF Chain
  <2>3. \A i \in 1 .. Len(wire) : Valid(sent', wire[i])
    <3>1. \A i \in 1 .. Len(wire) : Valid(sent, wire[i])
      BY DEF InOrder
    <3> QED
      BY <1>1, <1>2, <3>1 DEF Valid
  <2>4. /\ Len(wire \o w) = Len(wire) + Len(w)
        /\ \A i \in 1 .. Len(wire) : (wire \o w)[i] = wire[i]
        /\ \A i \in 1 .. Len(w) : (wire \o w)[Len(wire) + i] = w[i]
    BY <2>1
  <2> SUFFICES ASSUME NEW i \in 1 .. Len(wire \o w)
               PROVE  Valid(sent', (wire \o w)[i])
    OBVIOUS
  <2>5. CASE i <= Len(wire)
    <3>1. i \in 1 .. Len(wire)
      BY <2>1, <2>4, <2>5
    <3> QED
      BY <2>3, <2>4, <3>1
  <2>6. CASE i > Len(wire)
    <3>1. PICK j \in Nat : j = i - Len(wire)
      BY <2>1, <2>4, <2>6
    <3>2. j \in 1 .. Len(w) /\ Len(wire) + j = i
      BY <2>1, <2>4, <2>6, <3>1
    <3> QED
      BY <2>2, <2>4, <3>2
  <2> QED
    BY <2>1, <2>4, <2>5, <2>6
<1>12. InOrder'
  <2>1. \E p2 : /\ Chain(sent', buf', Expected', p2)
                /\ open' => Chain(sent', wire', p2, Part(Sent' + 1, "line", 0))
    BY <1>0, <1>2, <1>4, <1>6, <1>7, <1>8, <1>10
  <2>2. \A i \in 1 .. Len(wire') : Valid(sent', wire'[i])
    BY <1>0, <1>8, <1>11
  <2> QED
    BY <2>1, <2>2 DEF InOrder
<1>13. Typed'
  <2>1. wire' \in Seq(Slot)
    <3>1. w \in Seq(Slot) /\ wire \in Seq(Slot)
      BY <1>9 DEF Chain, Typed
    <3> QED
      BY <1>0, <1>8, <3>1
  <2> QED
    BY <1>0, <1>2, <2>1 DEF Typed
<1>14. AtNext'
  BY <1>0, <1>1, <1>2, <1>3 DEF AtNext
<1>15. Kept'
  BY <1>0, <1>3, KeptStill
<1>16. CutSeen'
  BY <1>0, <1>2 DEF CutSeen
<1>17. AllAnswered'
  BY <1>0, <1>2, AllAnsweredKept
<1> QED
  BY <1>12, <1>13, <1>14, <1>15, <1>16, <1>17

\* A read moves slots from the descriptor to the buffer, and may cut a body.
LEMMA ReadStep ==
  ASSUME IInv, NEW k \in 1 .. ReadBufSize, Read(k)
  PROVE  IInv'
<1> USE DEF IInv
<1>0. /\ open /\ buf = <<>> /\ k <= Len(wire)
      /\ buf' = SubSeq(wire, 1, k) /\ wire' = SubSeq(wire, k + 1, Len(wire))
      /\ UNCHANGED <<sent, open, cs, headers_done, connection_close, done, content_length, r, n,
                     handled, cut>>
  BY DEF Read, head
<1>1. wire \in Seq(Slot) /\ k \in 0 .. Len(wire) /\ Len(wire) \in Nat
  BY <1>0, FramingConstants DEF Typed
<1>2. Expected' = Expected /\ Sent' = Sent /\ Done' = Done
  BY <1>0 DEF Expected, Size, Sent, Done
<1>3. PICK e : e = Expected
  OBVIOUS
<1>4. Chain(sent, wire, e, Part(Sent + 1, "line", 0))
  <2>1. PICK p : Chain(sent, buf, e, p) /\ Chain(sent, wire, p, Part(Sent + 1, "line", 0))
    BY <1>0, <1>3 DEF InOrder
  <2>2. Len(buf) = 0
    BY <1>0
  <2>3. p = e
    BY <2>1, <2>2 DEF Chain
  <2> QED
    BY <2>1, <2>3
<1>5. PICK p : Chain(sent, buf', e, p) /\ Chain(sent, wire', p, Part(Sent + 1, "line", 0))
  BY <1>0, <1>1, <1>4, ChainCut
<1>6. \A i \in 1 .. Len(wire') : Valid(sent, wire'[i])
  BY <1>5 DEF Chain
<1>7. InOrder'
  BY <1>0, <1>2, <1>3, <1>5, <1>6 DEF InOrder
<1>8. Typed'
  BY <1>0, <1>5 DEF Typed, Chain
<1>9. AtNext' /\ CutSeen'
  BY <1>0, <1>2 DEF AtNext, CutSeen, Size
<1>10. Kept' /\ AllAnswered'
  BY <1>0, KeptStill, AllAnsweredKept
<1> QED
  BY <1>7, <1>8, <1>9, <1>10

\* Updates of HttpParser::r.
NewLine(x, a, e, k) == [x EXCEPT !.action = a, !.entity_id = e, !.v.mask = k]

\* What the request line leaves in the Request.
LEMMA LineUpdate ==
  ASSUME NEW x \in Parsing, NEW a \in Actions, NEW e \in Ids \union {NoId},
         NEW k \in SUBSET {"id", "rest"}
  PROVE  /\ NewLine(x, a, e, k) \in Parsing /\ NewLine(x, a, e, k).action = a
         /\ NewLine(x, a, e, k).entity_id = e /\ NewLine(x, a, e, k).v.mask = k
BY DEF NewLine, Parsing, Visit

\* What changing the action alone leaves in the Request.
LEMMA ActionUpdate ==
  ASSUME NEW x \in Parsing, NEW a \in Actions
  PROVE  LET y == [x EXCEPT !.action = a]
         IN  y \in Parsing /\ y.action = a /\ y.entity_id = x.entity_id /\ y.v = x.v
BY DEF Parsing

NewBody(x, v, a) == [x EXCEPT !.v = v, !.action = a]

\* What a parsed body leaves in the Request.
LEMMA BodyUpdate ==
  ASSUME NEW x \in Parsing, NEW a \in Actions, NEW v \in Visit
  PROVE  /\ NewBody(x, v, a) \in Parsing /\ NewBody(x, v, a).action = a
         /\ NewBody(x, v, a).entity_id = x.entity_id /\ NewBody(x, v, a).v = v
BY DEF NewBody, Parsing

\* The request line is the one of the next request.
LEMMA LineStep ==
  ASSUME IInv, RequestLine
  PROVE  IInv'
<1> USE DEF IInv
<1>1. /\ buf # <<>> /\ cs = "line" /\ cs' = "headers" /\ buf' = Tail(buf) /\ n' = Head(buf).n
      /\ UNCHANGED <<sent, wire, open, headers_done, connection_close, done, content_length,
                     handled, cut>>
  BY DEF RequestLine
<1>2. /\ Sent \in Nat /\ Done \in Nat /\ DOMAIN sent = 1 .. Sent
      /\ \A m \in 1 .. Sent : sent[m] \in Requests
      /\ Sent' = Sent /\ Done' = Done
  BY <1>1, Numbers DEF Sent, Done
<1>3. PICK p : /\ Chain(sent, buf, Part(Done + 1, "line", 0), p)
               /\ open => Chain(sent, wire, p, Part(Sent + 1, "line", 0))
  BY <1>1 DEF InOrder, Expected
<1>4. PICK m \in Nat : m = Done + 1
  BY <1>2
<1>5. /\ Head(buf) = Part(m, "line", 0) /\ Valid(sent, Part(m, "line", 0))
      /\ Chain(sent, Tail(buf), After(sent, Part(m, "line", 0)), p)
  BY <1>1, <1>3, <1>4, ChainTail
<1>6. n' = m /\ m \in 1 .. Sent /\ sent[m] \in Requests
      /\ After(sent, Part(m, "line", 0)) = Part(m, "headers", 0)
  BY <1>1, <1>2, <1>5, PartIs DEF Valid, After
<1>7. Expected' = Part(m, "headers", 0)
  BY <1>1, <1>6 DEF Expected
<1>8. InOrder'
  BY <1>1, <1>2, <1>3, <1>5, <1>6, <1>7 DEF InOrder
<1>9. PICK q \in Requests : q = sent[m]
  BY <1>6
<1>10. q.action \in Actions /\ q.entity_id \in Ids \union {NoId}
  BY RequestIs
<1>11. r \in Parsing /\ MaskAfter(q) \in SUBSET {"id", "rest"}
  BY DEF Typed, Parsing, Visit, MaskAfter
<1>12. r' \in Parsing /\ r'.action = q.action /\ r'.entity_id = q.entity_id
       /\ r'.v.mask = MaskAfter(q)
  <2>1. r' = [r EXCEPT !.action = q.action, !.entity_id = q.entity_id, !.v.mask = MaskAfter(q)]
    BY <1>1, <1>6, <1>9 DEF RequestLine
  <2>2. PICK a \in Actions : a = q.action
    BY <1>10
  <2>3. PICK e \in Ids \union {NoId} : e = q.entity_id
    BY <1>10
  <2>4. PICK k \in SUBSET {"id", "rest"} : k = MaskAfter(q)
    BY <1>11
  <2>5. r' = NewLine(r, a, e, k)
    BY <2>1, <2>2, <2>3, <2>4 DEF NewLine
  <2>6. PICK x \in Parsing : x = r
    BY <1>11
  <2>7. PICK y : y = NewLine(x, a, e, k)
    OBVIOUS
  <2>8. y \in Parsing /\ y.action = a /\ y.entity_id = e /\ y.v.mask = k
    BY <2>7, LineUpdate
  <2>9. r' = y
    BY <2>5, <2>6, <2>7
  <2> QED
    BY <2>2, <2>3, <2>4, <2>8, <2>9
<1>13. Typed'
  <2>1. Tail(buf) \in Seq(Slot)
    BY <1>5 DEF Chain
  <2> QED
    BY <1>1, <1>6, <1>12, <2>1 DEF Typed
<1>14. AtNext'
  BY <1>1, <1>2, <1>4, <1>6 DEF AtNext
<1>15. Kept'
  <2>1. IsPost(n)' => r'.v.mask = {}
    BY <1>1, <1>6, <1>9, <1>12 DEF IsPost, MaskAfter
  <2> QED
    BY <1>1, <1>6, <1>9, <1>12, <2>1 DEF Kept
<1>16. CutSeen'
  BY <1>1, <1>2 DEF CutSeen
<1>17. AllAnswered'
  BY <1>1, AllAnsweredKept
<1> QED
  BY <1>8, <1>13, <1>14, <1>15, <1>16, <1>17

\* The headers are of the request whose line was parsed.
LEMMA HeadersStep ==
  ASSUME IInv, Headers
  PROVE  IInv'
<1> USE DEF IInv
<1>1. /\ buf # <<>> /\ cs = "headers" /\ cs' = "end" /\ headers_done' = TRUE
      /\ buf' = Tail(buf) /\ connection_close' = sent[n].close
      /\ content_length' = Size(n) /\ done' = (sent[n].body = <<>>)
      /\ r' = IF sent[n].body = <<>> /\ r.action \in PostActions
                THEN [r EXCEPT !.action = "BadRequest"] ELSE r
      /\ UNCHANGED <<sent, wire, open, n, handled, cut>>
  BY DEF Headers, Size, DoneAfterHeaders
<1>2. /\ Sent \in Nat /\ Done \in Nat /\ n = Done + 1 /\ n \in 1 .. Sent /\ n \in Nat
      /\ sent[n] \in Requests /\ Size(n) \in Nat
      /\ Sent' = Sent /\ Done' = Done /\ Size(n)' = Size(n)
  BY <1>1, Numbers DEF Sent, Done, Size
<1>3. PICK p : /\ Chain(sent, buf, Part(n, "headers", 0), p)
               /\ open => Chain(sent, wire, p, Part(Sent + 1, "line", 0))
  BY <1>1 DEF InOrder, Expected
<1>4. /\ Chain(sent, Tail(buf), After(sent, Part(n, "headers", 0)), p)
      /\ After(sent, Part(n, "headers", 0)) = BodyOrLine(sent, n, 1)
  BY <1>1, <1>2, <1>3, ChainTail, PartIs DEF After
<1>5. Expected' = BodyOrLine(sent, n, 1)
  <2>1. (Size(n) - Size(n)) + 1 = 1
    BY <1>2
  <2>2. Expected' = BodyOrLine(sent', n', (Size(n)' - content_length') + 1)
    BY <1>1 DEF Expected
  <2> QED
    BY <1>1, <1>2, <2>1, <2>2
<1>6. InOrder'
  BY <1>1, <1>2, <1>3, <1>4, <1>5 DEF InOrder
<1>7. PICK q \in Requests : q = sent[n]
  BY <1>2
<1>8. q.close \in BOOLEAN /\ (q.body = <<>> <=> Size(n) = 0)
  <2>1. q.body \in Seq(Piece)
    BY RequestIs
  <2>2. q.body = <<>> <=> Len(q.body) = 0
    BY <2>1, EmptySeq
  <2> QED
    BY <1>7, <2>2, RequestIs DEF Size
<1>9. r' \in Parsing /\ r'.entity_id = r.entity_id /\ r'.v = r.v
      /\ r'.action = IF q.body = <<>> /\ r.action \in PostActions THEN "BadRequest" ELSE r.action
  <2>1. r \in Parsing /\ "BadRequest" \in Actions
    BY DEF Typed, Actions
  <2> QED
    BY <1>1, <1>7, <2>1, ActionUpdate
<1>10. Typed'
  <2>1. Tail(buf) \in Seq(Slot)
    BY <1>4 DEF Chain
  <2> QED
    BY <1>1, <1>2, <1>7, <1>8, <1>9, <2>1 DEF Typed
<1>11. AtNext'
  <2>1. done' <=> Size(n) = 0
    BY <1>1, <1>7, <1>8
  <2>2. n' = n /\ n <= Sent /\ Done <= Sent /\ content_length' <= Size(n)'
    BY <1>1, <1>2
  <2>3. \A i \in 1 .. Done' : handled'[i].n = i
    BY <1>1, <1>2 DEF AtNext
  <2> QED
    BY <1>1, <1>2, <2>1, <2>2, <2>3 DEF AtNext
<1>12. n \notin cut
  BY <1>1, <1>2 DEF CutSeen
<1>13. Kept'
  <2>1. r.action = sent[n].action /\ r.entity_id = sent[n].entity_id
        /\ (IsPost(n) => r.v.mask = {}) /\ (IsPost(n)' <=> IsPost(n))
    BY <1>1 DEF Kept, IsPost
  <2>2. CASE ~ IsPost(n)
    BY <1>1, <1>9, <2>1, <2>2 DEF Kept, IsPost
  <2>3. CASE IsPost(n) /\ Size(n) = 0
    <3>1. r'.action = "BadRequest"
      BY <1>7, <1>8, <1>9, <2>1, <2>3 DEF IsPost
    <3>2. ~ Whole(n)'
      <4>1. DOMAIN q.body = {}
        BY <1>7, <1>8, <2>3
      <4> QED
        BY <1>1, <1>7, <4>1 DEF Whole
    <3> QED
      BY <1>1, <1>2, <1>9, <2>1, <2>3, <3>1, <3>2 DEF Kept
  <2>4. CASE IsPost(n) /\ Size(n) # 0
    <3>1. r'.action = sent[n].action
      BY <1>7, <1>8, <1>9, <2>1, <2>4
    <3>2. ~ (Size(n) < Size(n))
      BY <1>2
    <3> QED
      BY <1>1, <1>2, <1>9, <1>12, <2>1, <2>4, <3>1, <3>2 DEF Kept
  <2> QED
    BY <2>2, <2>3, <2>4
<1>14. CutSeen'
  BY <1>1, <1>2 DEF CutSeen
<1>15. AllAnswered'
  BY <1>1, AllAnsweredKept
<1> QED
  BY <1>6, <1>10, <1>11, <1>13, <1>14, <1>15

\* The parser enters its error state and consumes nothing.
LEMMA ErrorStep ==
  ASSUME IInv, HeadersError
  PROVE  IInv'
<1> USE DEF IInv
<1>1. /\ cs = "headers" /\ cs' = "error"
      /\ UNCHANGED <<sent, wire, buf, open, headers_done, connection_close, done,
                     content_length, r, n, handled, cut>>
  BY DEF HeadersError
<1>2. Sent' = Sent /\ Done' = Done /\ Expected' = Expected
  BY <1>1 DEF Sent, Done, Expected
<1>3. Typed' /\ AtNext' /\ InOrder'
  BY <1>1, <1>2 DEF Typed, AtNext, InOrder
<1>4. Kept'
  BY <1>1 DEF Kept, IsPost
<1>5. CutSeen'
  BY <1>1, <1>2 DEF CutSeen
<1>6. AllAnswered'
  BY <1>1, AllAnsweredKept
<1> QED
  BY <1>3, <1>4, <1>5, <1>6

\* What parse_body does to HttpParser::r.
LEMMA BodyParsed ==
  ASSUME r \in Parsing, NEW pieces \in Seq(Piece),
         r' = IF r.action \notin PostActions THEN r
              ELSE [r EXCEPT !.v = Parsed(@, pieces),
                             !.action = IF Rejected(pieces) THEN "BadRequest" ELSE @]
  PROVE  /\ r' \in Parsing /\ r'.entity_id = r.entity_id
         /\ r.action \notin PostActions => r'.action = r.action
         /\ r.action \in PostActions =>
              /\ r'.action = IF Rejected(pieces) THEN "BadRequest" ELSE r.action
              /\ r'.v = Parsed(r.v, pieces)
<1>1. CASE r.action \notin PostActions
  BY <1>1
<1>2. CASE r.action \in PostActions
  <2>1. PICK v \in Visit : v = Parsed(r.v, pieces)
    BY ParsedTyped DEF Parsing
  <2>2. PICK a \in Actions : a = IF Rejected(pieces) THEN "BadRequest" ELSE r.action
    BY DEF Parsing, Actions
  <2>3. r' = NewBody(r, v, a)
    BY <1>2, <2>1, <2>2 DEF NewBody
  <2>4. /\ NewBody(r, v, a) \in Parsing /\ NewBody(r, v, a).action = a
        /\ NewBody(r, v, a).entity_id = r.entity_id /\ NewBody(r, v, a).v = v
    <3>1. PICK x \in Parsing : x = r
      OBVIOUS
    <3>2. /\ NewBody(x, v, a) \in Parsing /\ NewBody(x, v, a).action = a
          /\ NewBody(x, v, a).entity_id = x.entity_id /\ NewBody(x, v, a).v = v
      BY BodyUpdate
    <3> QED
      BY <3>1, <3>2
  <2> QED
    BY <1>2, <2>1, <2>2, <2>3, <2>4
<1> QED
  BY <1>1, <1>2

\* The part of the body that is in the buffer is consumed, to its end or to the cut.
LEMMA BodyStep ==
  ASSUME IInv, parse_body
  PROVE  IInv'
<1> USE DEF IInv
<1> DEFINE given == [i \in 1 .. BodyEnd |-> PieceOf(buf[i])]
<1>1. /\ buf # <<>> /\ headers_done /\ ~ done
      /\ r' = IF r.action \notin PostActions THEN r
              ELSE [r EXCEPT !.v = Parsed(@, given),
                             !.action = IF Rejected(given) THEN "BadRequest" ELSE @]
      /\ done' = (content_length = BodyEnd)
      /\ cut' = IF BodyEnd < Size(n) THEN cut \union {n} ELSE cut
      /\ content_length' = content_length - BodyEnd
      /\ buf' = SubSeq(buf, BodyEnd + 1, Len(buf))
      /\ UNCHANGED <<sent, wire, open, cs, headers_done, connection_close, n, handled>>
  BY DEF parse_body, DoneAfterBody, Size, head
<1>2. /\ cs = "end" /\ content_length \in Nat /\ content_length # 0 /\ content_length <= Size(n)
      /\ buf \in Seq(Slot) /\ Len(buf) \in Nat /\ Len(buf) > 0
  BY <1>1 DEF AtNext, Typed
<1>3. /\ Sent \in Nat /\ Done \in Nat /\ n = Done + 1 /\ n \in 1 .. Sent /\ n \in Nat
      /\ sent[n] \in Requests /\ Size(n) \in Nat /\ n \in DOMAIN sent
      /\ Sent' = Sent /\ Done' = Done /\ Size(n)' = Size(n)
  BY <1>1, <1>2, Numbers DEF Sent, Done, Size
<1>4. PICK e \in Nat : e = BodyEnd /\ e \in 1 .. content_length /\ e \in 0 .. Len(buf)
  <2>1. {Len(buf), content_length} \in SUBSET Nat
    BY <1>2
  <2>2. /\ BodyEnd \in {Len(buf), content_length}
        /\ BodyEnd <= Len(buf) /\ BodyEnd <= content_length
    BY <2>1, MinInSet DEF BodyEnd
  <2> QED
    BY <1>2, <2>2
<1>5. PICK L \in Nat : L = Size(n)
  BY <1>3
<1>6. PICK k \in Nat : k = L - content_length
  BY <1>2, <1>5
<1>7. PICK p : /\ Chain(sent, buf, BodyOrLine(sent, n, k + 1), p)
               /\ open => Chain(sent, wire, p, Part(Sent + 1, "line", 0))
  BY <1>2, <1>5, <1>6 DEF InOrder, Expected
<1>8. /\ \A i \in 1 .. e : buf[i] = Part(n, "body", k + i)
      /\ Chain(sent, SubSeq(buf, e + 1, Len(buf)), BodyOrLine(sent, n, (k + 1) + e), p)
  <2>1. PICK k1 \in Nat : k1 = k + 1
    BY <1>6
  <2>2. k1 > 0 /\ k1 + e <= L + 1 /\ L = Len(sent[n].body) /\ k1 - 1 = k
    BY <1>2, <1>4, <1>5, <1>6, <2>1 DEF Size
  <2>3. /\ \A i \in 1 .. e : buf[i] = Part(n, "body", (k1 - 1) + i)
        /\ Chain(sent, SubSeq(buf, e + 1, Len(buf)), BodyOrLine(sent, n, k1 + e), p)
    BY <1>3, <1>4, <1>7, <2>1, <2>2, ChainBody
  <2> QED
    BY <2>1, <2>2, <2>3
<1>9. InOrder'
  <2>1. Expected' = BodyOrLine(sent, n, (k + 1) + e)
    <3>1. (L - (content_length - e)) + 1 = (k + 1) + e
      BY <1>2, <1>4, <1>5, <1>6
    <3>2. Expected' = BodyOrLine(sent', n', (Size(n)' - content_length') + 1)
      BY <1>1, <1>2 DEF Expected
    <3> QED
      BY <1>1, <1>3, <1>4, <1>5, <3>1, <3>2
  <2> QED
    BY <1>1, <1>3, <1>4, <1>7, <1>8, <2>1 DEF InOrder
<1>10. PICK b \in Seq(Piece) : b = sent[n].body
  BY <1>3, RequestIs
<1>11. /\ L = Len(b) /\ DOMAIN b = 1 .. L
       /\ \A i, j \in 1 .. L : b[i].closes /\ i < j => ~ b[j].closes
  BY <1>3, <1>5, <1>10, RequestIs DEF Size
<1>12. PICK pieces \in Seq(Piece) :
         /\ pieces = given /\ DOMAIN pieces = 1 .. e
         /\ \A i \in 1 .. e : k + i \in 1 .. L /\ pieces[i] = b[k + i]
  <2>1. \A i \in 1 .. e : k + i \in 1 .. L /\ k + i \in Nat
    BY <1>2, <1>4, <1>5, <1>6
  <2>2. ASSUME NEW i \in 1 .. e
        PROVE  PieceOf(buf[i]) = b[k + i]
    <3>1. PICK x \in Nat : x = k + i
      BY <2>1
    <3>2. buf[i] = Part(n, "body", x)
      BY <1>8, <3>1
    <3>3. buf[i].what = "body" /\ buf[i].n = n /\ buf[i].i = x
      BY <1>3, <3>2, PartIs
    <3> QED
      BY <1>10, <3>1, <3>3 DEF PieceOf
  <2>3. \A i \in 1 .. e : PieceOf(buf[i]) \in Piece
    BY <1>10, <1>11, <2>1, <2>2
  <2>4. [i \in 1 .. e |-> PieceOf(buf[i])] \in Seq(Piece)
    BY <1>4, <2>3
  <2>5. given = [i \in 1 .. e |-> PieceOf(buf[i])]
    BY <1>4
  <2> QED
    BY <2>1, <2>2, <2>4, <2>5
<1>13. /\ r' \in Parsing /\ r'.entity_id = r.entity_id
       /\ r.action \notin PostActions => r'.action = r.action
       /\ r.action \in PostActions =>
            /\ r'.action = IF Rejected(pieces) THEN "BadRequest" ELSE r.action
            /\ r'.v = Parsed(r.v, pieces)
  BY <1>1, <1>12, BodyParsed DEF Typed
<1> HIDE DEF given
<1>14. /\ done' <=> content_length = e
       /\ cut' = IF e < L THEN cut \union {n} ELSE cut
       /\ content_length' = content_length - e /\ content_length' \in Nat
       /\ content_length' < content_length
       /\ n' = n /\ cs' = "end" /\ sent' = sent
  <2>1. done' = (content_length = e)
    BY <1>1, <1>4
  <2>2. done' => content_length = e
    BY <2>1
  <2>3. content_length = e => done'
    BY <2>1
  <2>4. cut' = IF e < L THEN cut \union {n} ELSE cut
    BY <1>1, <1>4, <1>5
  <2>5. /\ content_length' = content_length - e /\ content_length' \in Nat
        /\ content_length' < content_length /\ n' = n /\ cs' = "end" /\ sent' = sent
    BY <1>1, <1>2, <1>4
  <2> QED
    BY <2>2, <2>3, <2>4, <2>5
<1>15. Typed'
  <2>1. SubSeq(buf, e + 1, Len(buf)) \in Seq(Slot)
    BY <1>8 DEF Chain
  <2>2. done' \in BOOLEAN
    BY <1>1
  <2> QED
    BY <1>1, <1>4, <1>13, <1>14, <2>1, <2>2 DEF Typed
<1>16. AtNext'
  <2>1. done' <=> content_length' = 0
    BY <1>2, <1>4, <1>14
  <2>2. content_length' <= Size(n)'
    BY <1>2, <1>3, <1>14
  <2>3. \A i \in 1 .. Done' : handled'[i].n = i
    BY <1>1, <1>3 DEF AtNext
  <2>4. headers_done' /\ n' = Done' + 1 /\ Done' <= Sent' /\ n' <= Sent'
    BY <1>1, <1>3
  <2> QED
    BY <1>14, <2>1, <2>2, <2>3, <2>4 DEF AtNext
<1>17. Kept'
  <2>1. r'.entity_id = sent[n].entity_id
    BY <1>2, <1>13 DEF Kept
  <2>2. CASE ~ IsPost(n)
    <3>1. r'.action = sent[n].action
      BY <1>2, <1>13, <2>2 DEF Kept, IsPost
    <3> QED
      BY <1>14, <2>1, <2>2, <3>1 DEF Kept, IsPost
  <2>3. CASE IsPost(n)
    <3>1. r.action \in {sent[n].action, "BadRequest"}
      BY <1>2, <2>3 DEF Kept
    <3>2. sent[n].action \in PostActions /\ sent[n].action # "BadRequest"
          /\ "BadRequest" \notin PostActions
      BY <2>3 DEF IsPost, PostActions
    <3>3. CASE content_length = L /\ e = L
      <4>1. /\ r.action = sent[n].action /\ r.v.mask = {} /\ n \notin cut
        BY <1>2, <1>5, <2>3, <3>3 DEF Kept
      <4>2. pieces = b
        <5>1. k = 0
          BY <1>5, <1>6, <3>3
        <5>2. \A i \in 1 .. L : pieces[i] = b[i]
          BY <1>11, <1>12, <3>3, <5>1
        <5>3. Len(pieces) = Len(b)
          BY <1>11, <1>12, <3>3
        <5> QED
          BY <1>11, <5>2, <5>3
      <4>3. content_length' = 0 /\ n \notin cut'
        BY <1>14, <3>3, <4>1
      <4>4. Rejected(pieces) <=> ~ Whole(n)'
        BY <1>10, <1>14, <4>2, <4>3 DEF Rejected, Whole
      <4>5. r'.action = IF Whole(n)' THEN sent[n].action ELSE "BadRequest"
        BY <1>13, <3>2, <4>1, <4>4
      <4>6. Whole(n)' => Own(n, r'.v)
        <5>1. r.v \in Visit
          BY DEF Typed, Parsing
        <5>2. Whole(n)' => \E j \in DOMAIN sent[n].body : sent[n].body[j].closes
          BY <1>14 DEF Whole
        <5> QED
          BY <1>3, <1>10, <1>13, <3>2, <4>1, <4>2, <5>1, <5>2, ParsedOwn
      <4>7. Own(n, r'.v) => Own(n, r.v)'
        BY <1>14 DEF Own, Given
      <4>8. Size(n)' # 0
        BY <1>2, <1>3
      <4> QED
        BY <1>14, <2>1, <2>3, <4>3, <4>5, <4>6, <4>7, <4>8 DEF Kept, IsPost
    <3>4. CASE content_length = L /\ e < L
      <4>1. /\ r.action = sent[n].action
        BY <1>2, <1>5, <2>3, <3>4 DEF Kept
      <4>2. n \in cut' /\ content_length' # 0 /\ content_length' < Size(n)'
        BY <1>2, <1>3, <1>4, <1>5, <1>14, <3>4
      <4>3. r'.action = sent[n].action => Closed'
        <5> SUFFICES ASSUME ~ Rejected(pieces)
                     PROVE  Closed'
          BY <1>13, <3>2, <4>1
        <5>1. PICK i \in 1 .. e : pieces[i].closes
          BY <1>12 DEF Rejected
        <5>2. k = 0 /\ Size(n)' - content_length' = e
          BY <1>2, <1>3, <1>4, <1>5, <1>6, <1>14, <3>4
        <5>3. b[i].closes
          <6>1. k + i = i
            BY <5>2
          <6> QED
            BY <1>12, <5>1, <6>1
        <5> QED
          BY <1>10, <1>14, <5>2, <5>3 DEF Closed
      <4>4. r'.action \in {sent[n].action, "BadRequest"}
        BY <1>13, <3>2, <4>1
      <4>5. content_length' # Size(n)'
        BY <1>3, <1>14, <4>2
      <4> QED
        BY <1>14, <2>1, <2>3, <4>2, <4>3, <4>4, <4>5 DEF Kept, IsPost
    <3>5. CASE content_length < L
      <4>1. n \in cut /\ (r.action = sent[n].action => Closed)
        BY <1>2, <1>5, <2>3, <3>5 DEF Kept
      <4>2. r'.action = "BadRequest"
        <5>1. CASE r.action = "BadRequest"
          BY <1>13, <3>2, <5>1
        <5>2. CASE r.action = sent[n].action
          <6>1. PICK j \in 1 .. k : b[j].closes
            BY <1>5, <1>6, <1>10, <4>1, <5>2 DEF Closed
          <6>2. \A i \in 1 .. e : ~ pieces[i].closes
            <7>1. \A i \in 1 .. e : j \in 1 .. L /\ j < k + i
              BY <1>2, <1>4, <1>5, <1>6, <6>1
            <7> QED
              BY <1>11, <1>12, <6>1, <7>1
          <6>3. Rejected(pieces)
            BY <1>12, <6>2 DEF Rejected
          <6> QED
            BY <1>13, <3>2, <5>2, <6>3
        <5> QED
          BY <3>1, <5>1, <5>2
      <4>3. n \in cut' /\ content_length' < Size(n)'
        BY <1>2, <1>3, <1>4, <1>5, <1>14, <3>5, <4>1
      <4>4. ~ Whole(n)'
        BY <1>14, <4>3 DEF Whole
      <4>5. content_length' # Size(n)'
        BY <1>3, <1>14, <4>3
      <4> QED
        BY <1>14, <2>1, <2>3, <3>2, <4>2, <4>3, <4>4, <4>5 DEF Kept, IsPost
    <3> QED
      BY <1>2, <1>4, <1>5, <3>3, <3>4, <3>5
  <2> QED
    BY <2>2, <2>3
<1>18. CutSeen'
  BY <1>2, <1>3, <1>14 DEF CutSeen
<1>19. AllAnswered'
  <2>1. \A m \in 1 .. Done : m # n
    BY <1>3
  <2>2. \A m \in 1 .. Done : m \in cut' <=> m \in cut
    BY <1>14, <2>1
  <2> QED
    BY <1>1, <2>2, AllAnsweredKept
<1> QED
  BY <1>9, <1>15, <1>16, <1>17, <1>18, <1>19

\* What is enqueued is the entity of the parser, but for the id of an update.
LEMMA EnqueuedIs ==
  ASSUME r \in Parsing
  PROVE  /\ Enqueued \in Visit /\ Enqueued.mask = r.v.mask
         /\ Enqueued["rest"] = r.v["rest"]
         /\ r.action = "PostVisit" => Enqueued["id"] = r.entity_id
         /\ r.action # "PostVisit" => Enqueued = r.v
<1>1. PICK v \in Visit : v = r.v
  BY DEF Parsing
<1>2. PICK e \in Ids \union {NoId} : e = r.entity_id
  BY DEF Parsing
<1>3. /\ [v EXCEPT !.id = e] \in Visit /\ [v EXCEPT !.id = e].mask = v.mask
      /\ [v EXCEPT !.id = e]["rest"] = v["rest"] /\ [v EXCEPT !.id = e]["id"] = e
  BY DEF Visit
<1>4. CASE r.action = "PostVisit"
  <2>1. Enqueued = [v EXCEPT !.id = e]
    BY <1>1, <1>2, <1>4 DEF Enqueued
  <2> QED
    BY <1>1, <1>2, <1>3, <1>4, <2>1
<1>5. CASE r.action # "PostVisit"
  BY <1>1, <1>5 DEF Enqueued
<1> QED
  BY <1>4, <1>5

TheCall(m, a, v) == [n |-> m, action |-> a, v |-> v]

\* The fields of a recorded call of handleRequest.
LEMMA CallIs ==
  ASSUME NEW m \in Nat, NEW a \in Actions, NEW v \in Visit
  PROVE  /\ TheCall(m, a, v) \in Call /\ TheCall(m, a, v).n = m
         /\ TheCall(m, a, v).action = a /\ TheCall(m, a, v).v = v
BY DEF TheCall, Call

\* The request the parser is at is handled, whole or not.
LEMMA HandleStep ==
  ASSUME IInv, handleRequest
  PROVE  IInv'
<1> USE DEF IInv
<1>1. /\ done /\ handled' = Append(handled, TheCall(n, r.action, Enqueued))
      /\ buf' = (IF connection_close THEN <<>> ELSE buf)
      /\ r' = Fresh(Enqueued) /\ n' = 0
      /\ cs' = "line" /\ headers_done' = FALSE /\ done' = FALSE
      /\ connection_close' = FALSE /\ content_length' = 0
      /\ UNCHANGED <<sent, wire, cut>>
  BY DEF handleRequest, HeadersDoneAfterReset, TheCall
<1>2. open' \in BOOLEAN /\ (open' => open /\ ~ connection_close)
  <2>1. PICK x \in BOOLEAN : open' = (open /\ ~ connection_close /\ ~ Accepts(x))
    BY DEF handleRequest
  <2> QED
    BY <2>1
<1>3. cs = "end" /\ content_length = 0 /\ r \in Parsing /\ handled \in Seq(Call)
  BY <1>1 DEF AtNext, Typed
<1>4. /\ Sent \in Nat /\ Done \in Nat /\ n = Done + 1 /\ n \in 1 .. Sent /\ n \in Nat
      /\ sent[n] \in Requests /\ Size(n) \in Nat /\ Sent' = Sent
  BY <1>1, <1>3, Numbers DEF Sent
<1>5. PICK v \in Visit : v = Enqueued
  BY <1>3, EnqueuedIs
<1>6. PICK a \in Actions : a = r.action
  BY <1>3 DEF Parsing
<1>7. PICK m \in Nat : m = n
  BY <1>4
<1>8. PICK h \in Call : h = TheCall(m, a, v) /\ h.n = m /\ h.action = a /\ h.v = v
  BY CallIs
<1>9. /\ handled' = Append(handled, h) /\ handled' \in Seq(Call) /\ Done' = Done + 1
      /\ \A i \in 1 .. Done : handled'[i] = handled[i]
      /\ handled'[Done + 1] = h
  <2>1. handled' = Append(handled, h)
    BY <1>1, <1>5, <1>6, <1>7, <1>8
  <2> QED
    BY <1>3, <2>1 DEF Done
<1>10. r' \in Parsing
  BY <1>1, <1>5 DEF Fresh, Parsing, Actions
<1>11. InOrder'
  <2>1. PICK p : /\ Chain(sent, buf, BodyOrLine(sent, n, (Size(n) - content_length) + 1), p)
                 /\ open => Chain(sent, wire, p, Part(Sent + 1, "line", 0))
    BY <1>3 DEF InOrder, Expected
  <2>2. BodyOrLine(sent, n, (Size(n) - content_length) + 1) = Part(n + 1, "line", 0)
    <3>1. (Size(n) - content_length) + 1 = Size(n) + 1 /\ ~ (Size(n) + 1 <= Size(n))
      BY <1>3, <1>4
    <3> QED
      BY <3>1 DEF BodyOrLine, Size
  <2>3. Expected' = Part(n + 1, "line", 0)
    BY <1>1, <1>4, <1>9 DEF Expected
  <2>4. PICK l : l = Part(n + 1, "line", 0)
    OBVIOUS
  <2>5. CASE connection_close
    <3>1. Chain(sent, <<>>, l, l)
      BY ChainEmpty
    <3> QED
      BY <1>1, <1>2, <2>3, <2>4, <2>5, <3>1 DEF InOrder
  <2>6. CASE ~ connection_close
    BY <1>1, <1>2, <1>4, <2>1, <2>2, <2>3, <2>6 DEF InOrder
  <2> QED
    BY <2>5, <2>6
<1>12. Typed'
  <2>1. buf' \in Seq(Slot)
    BY <1>1 DEF Typed
  <2> QED
    BY <1>1, <1>2, <1>9, <1>10, <2>1 DEF Typed
<1>13. AtNext'
  <2>1. ASSUME NEW i \in 1 .. Done'
        PROVE  handled'[i].n = i
    <3>1. i \in 1 .. Done \/ i = Done + 1
      BY <1>4, <1>9
    <3> QED
      BY <1>4, <1>7, <1>8, <1>9, <3>1 DEF AtNext
  <2>2. Done' <= Sent' /\ n' <= Sent'
    BY <1>1, <1>4, <1>9
  <2> QED
    BY <1>1, <2>1, <2>2 DEF AtNext
<1>14. Kept'
  BY <1>1 DEF Kept
<1>15. CutSeen'
  BY <1>1, <1>3, <1>9 DEF CutSeen
<1>16. Answers(h)
  <2>1. CASE ~ IsPost(m)
    <3>1. a = sent[m].action
      BY <1>3, <1>6, <1>7, <2>1 DEF Kept
    <3> QED
      BY <1>8, <2>1, <3>1 DEF Answers, IsPost
  <2>2. CASE IsPost(m) /\ ~ Whole(m)
    <3>1. a = "BadRequest"
      BY <1>3, <1>6, <1>7, <2>2 DEF Kept
    <3>2. "BadRequest" \notin PostActions
      BY DEF PostActions
    <3> QED
      BY <1>8, <2>2, <3>1, <3>2 DEF Answers
  <2>3. CASE IsPost(m) /\ Whole(m)
    <3>1. a = sent[m].action /\ Own(m, r.v) /\ r.entity_id = sent[m].entity_id
      BY <1>3, <1>6, <1>7, <2>3 DEF Kept
    <3>2. /\ v.mask = r.v.mask /\ v["rest"] = r.v["rest"]
          /\ a = "PostVisit" => v["id"] = r.entity_id
          /\ a # "PostVisit" => v = r.v
      BY <1>3, <1>5, <1>6, EnqueuedIs
    <3>3. ASSUME NEW f \in v.mask, f = "rest" \/ a = "PostVisitNew"
          PROVE  v[f] \in Given(m, f)
      <4>1. v[f] = r.v[f]
        BY <3>2, <3>3
      <4> QED
        BY <3>1, <3>2, <4>1 DEF Own
    <3>4. v.mask = {f \in {"id", "rest"} : Given(m, f) # {}}
      BY <3>1, <3>2 DEF Own
    <3>5. a = "PostVisit" => v.id = sent[m].entity_id
      BY <3>1, <3>2
    <3> QED
      BY <1>8, <2>3, <3>1, <3>3, <3>4, <3>5 DEF Answers
  <2> QED
    BY <2>1, <2>2, <2>3
<1>17. AllAnswered'
  <2>1. ASSUME NEW i \in 1 .. Done + 1, NEW g, g = handled'[i]
        PROVE  Answers(g)'
    <3>1. i \in 1 .. Done \/ i = Done + 1
      BY <1>4
    <3>2. Answers(g)
      BY <1>9, <1>16, <2>1, <3>1 DEF AllAnswered
    <3> QED
      BY <1>1, <3>2, AnswersKept
  <2> QED
    BY <1>9, <2>1 DEF AllAnswered, Answers
<1> QED
  BY <1>11, <1>12, <1>13, <1>14, <1>15, <1>17

-----------------------------------------------------------------------------
(***************************************************************************)
(* The theorems.                                                           *)
(***************************************************************************)

\* The invariant holds always.
LEMMA Inductive == Spec => []IInv
<1>1. IInv /\ UNCHANGED vars => IInv'
  <2> SUFFICES ASSUME IInv, UNCHANGED vars PROVE IInv'
    OBVIOUS
  <2>1. UNCHANGED <<sent, wire, buf, open, cs, headers_done, connection_close, done,
                    content_length, r, n, handled, cut>>
    BY DEF vars, head
  <2>2. Typed' /\ AtNext' /\ InOrder'
    BY <2>1 DEF IInv, Typed, AtNext, InOrder, Expected, Sent, Done, Size
  <2>3. Kept' /\ AllAnswered'
    BY <2>1, KeptStill, AllAnsweredKept DEF IInv
  <2>4. CutSeen'
    BY <2>1 DEF IInv, CutSeen, Done
  <2> QED
    BY <2>2, <2>3, <2>4 DEF IInv
<1>2. IInv /\ Next => IInv'
  BY SendStep, ReadStep, LineStep, HeadersStep, ErrorStep, BodyStep, HandleStep DEF Next, Server
<1>3. IInv /\ [Next]_vars => IInv'
  BY <1>1, <1>2
<1> QED
  BY InitInv, <1>3, PTL DEF Spec

\* Every variable keeps its type, every part in the socket and in the buffer is
\* of a request that was sent, and between requests HttpParser is fresh but for
\* the entity.
THEOREM TypeCorrect == Spec => []TypeOK
<1>1. IInv => TypeOK
  <2> SUFFICES ASSUME IInv PROVE TypeOK
    OBVIOUS
  <2>1. Typed /\ AtNext
    BY DEF IInv
  <2>2. /\ r.action \in Actions /\ r.entity_id \in Ids \union {NoId} /\ r.v \in Visit
    BY <2>1 DEF Typed, Parsing
  <2>3. n \in 0 .. Len(sent)
    BY <2>1 DEF Typed, AtNext, Sent
  <2>4. cs # "line" => n # 0
    BY <2>1, Numbers
  <2>5. \A p \in ToSet(wire \o buf) :
          p \in [n : DOMAIN sent, what : {"line", "headers", "body"}, i : Nat]
    <3>1. /\ wire \in Seq(Slot) /\ buf \in Seq(Slot)
          /\ \A i \in 1 .. Len(wire) : Valid(sent, wire[i])
          /\ \A i \in 1 .. Len(buf) : Valid(sent, buf[i])
      BY <2>1 DEF IInv, Typed, InOrder, Chain
    <3>2. ASSUME NEW p \in ToSet(wire \o buf)
          PROVE  Valid(sent, p)
      BY <3>1 DEF ToSet
    <3> QED
      BY <3>2 DEF Valid, Slot
  <2> QED
    BY <2>1, <2>2, <2>3, <2>4, <2>5 DEF Typed, AtNext, TypeOK
<1> QED
  BY Inductive, <1>1, PTL

\* Pipelined requests are handled once each and in order, wherever reads cut
\* the input and however long the bodies are: content_length finds the next.
THEOREM HandledAsSent == Spec => []HandledInOrder
<1>1. IInv => HandledInOrder
  <2> SUFFICES ASSUME IInv PROVE HandledInOrder
    OBVIOUS
  <2>1. \A i \in DOMAIN handled : handled[i].n = i
    BY DEF IInv, Typed, AtNext, Done
  <2>2. ASSUME buf # <<>>, ~ done
        PROVE  Head(buf).what = CASE cs = "line" -> "line" [] cs = "end" -> "body"
                                  [] OTHER -> "headers"
    <3>1. Head(buf) = Expected
      BY <2>2, ChainTail DEF IInv, InOrder
    <3>2. /\ cs \in {"line", "headers", "error", "end"} /\ n \in Nat /\ Done + 1 \in Nat
          /\ content_length \in Nat
      BY Numbers DEF IInv, Typed
    <3>3. CASE cs # "end"
      BY <3>1, <3>2, <3>3, PartIs DEF Expected
    <3>4. CASE cs = "end"
      <4>1. n \in 1 .. Sent /\ Size(n) \in Nat /\ content_length <= Size(n) /\ content_length # 0
        BY <2>2, <3>4, Numbers DEF IInv, AtNext
      <4>2. PICK k \in Nat : k = (Size(n) - content_length) + 1
        BY <3>2, <4>1
      <4>3. k <= Size(n)
        BY <3>2, <4>1, <4>2
      <4>4. Expected = Part(n, "body", k)
        BY <3>4, <4>2, <4>3 DEF Expected, BodyOrLine, Size
      <4> QED
        BY <3>1, <3>2, <3>4, <4>4, PartIs
    <3> QED
      BY <3>3, <3>4
  <2> QED
    BY <2>1, <2>2 DEF HandledInOrder
<1> QED
  BY Inductive, <1>1, PTL

\* A request is handled with the action of its request line, but for exactly
\* the POSTs whose body is missing, is no object, or came in several reads.
THEOREM ActionsKept == Spec => []ActionKept
<1>1. IInv => ActionKept
  <2> SUFFICES ASSUME IInv, NEW i \in DOMAIN handled
               PROVE  handled[i].action =
                        IF IsPost(handled[i].n) /\ ~ Whole(handled[i].n) THEN "BadRequest"
                        ELSE sent[handled[i].n].action
    BY DEF ActionKept
  <2>1. i \in 1 .. Done
    BY DEF IInv, Typed, Done
  <2>2. Answers(handled[i])
    BY <2>1 DEF IInv, AllAnswered
  <2> QED
    BY <2>2 DEF Answers
<1> QED
  BY Inductive, <1>1, PTL

\* An enqueued visit has the fields of its own request in its mask and no
\* others, whatever the requests before it have left in the parser.
THEOREM FieldsOwn == Spec => []FieldsAreOwn
<1>1. IInv => FieldsAreOwn
  <2> SUFFICES ASSUME IInv, NEW i \in DOMAIN handled,
                      handled[i].action \in PostActions
               PROVE  /\ handled[i].v.mask = {f \in {"id", "rest"} : Given(handled[i].n, f) # {}}
                      /\ \A f \in handled[i].v.mask :
                           f = "rest" \/ sent[handled[i].n].action = "PostVisitNew"
                             => handled[i].v[f] \in Given(handled[i].n, f)
                      /\ sent[handled[i].n].action = "PostVisit"
                           => handled[i].v.id = sent[handled[i].n].entity_id
    BY DEF FieldsAreOwn
  <2>1. i \in 1 .. Done
    BY DEF IInv, Typed, Done
  <2>2. PICK h : h = handled[i]
    OBVIOUS
  <2>3. Answers(h)
    BY <2>1, <2>2 DEF IInv, AllAnswered
  <2>4. h.action \in PostActions
    BY <2>2
  <2>5. /\ h.v.mask = {f \in {"id", "rest"} : Given(h.n, f) # {}}
        /\ \A f \in h.v.mask :
             f = "rest" \/ sent[h.n].action = "PostVisitNew" => h.v[f] \in Given(h.n, f)
        /\ sent[h.n].action = "PostVisit" => h.v.id = sent[h.n].entity_id
    BY <2>3, <2>4 DEF Answers
  <2> QED
    BY <2>2, <2>5, Zenon
<1> QED
  BY Inductive, <1>1, PTL
=============================================================================
