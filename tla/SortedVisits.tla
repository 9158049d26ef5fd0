---------------------------- MODULE SortedVisits ----------------------------
(***************************************************************************)
(* The vectors of visit ids of Storage.hpp (UserItem::visits and           *)
(* LocationItem::visits) and the three ways the program changes one:       *)
(* insert_sorted, erase_sorted and std::sort, all ordered by VisitAtCmp,   *)
(* which compares the visits' current visited_at and nothing else.         *)
(*                                                                         *)
(* Each operation is the set of vectors it can leave.  The binary searches *)
(* are described by what halving guarantees on ANY vector, sorted or not:  *)
(* the element before the position found answered one way, the element at  *)
(* the position the other.  On a sorted vector exactly one position        *)
(* qualifies; on a vector whose keys have moved several may.               *)
(* `at' is the function from visit ids to visited_at read by the           *)
(* comparator; `racing' says that another thread wrote one of the keys     *)
(* while the operation ran, when every comparison may go either way.       *)
(***************************************************************************)
EXTENDS Integers, SequencesExt

\* Storage::VisitAtCmp
VisitAtCmp(at, a, b) == a # b /\ at[a] < at[b]

\* Where an iterator into vec may point, end() included.
Positions(vec) == 1 .. Len(vec) + 1

\* std::upper_bound(vec.begin(), vec.end(), item, VisitAtCmp())
UpperBounds(at, vec, item) ==
  {p \in Positions(vec) :
     /\ p > 1         => ~ VisitAtCmp(at, item, vec[p - 1])
     /\ p <= Len(vec) => VisitAtCmp(at, item, vec[p])}

\* std::lower_bound(vec.begin(), vec.end(), item, VisitAtCmp())
LowerBounds(at, vec, item) ==
  {p \in Positions(vec) :
     /\ p > 1         => VisitAtCmp(at, vec[p - 1], item)
     /\ p <= Len(vec) => ~ VisitAtCmp(at, vec[p], item)}

insert_sorted(at, vec, item, racing) ==
  {InsertAt(vec, p, item) :
     p \in IF racing THEN Positions(vec) ELSE UpperBounds(at, vec, item)}

\* if (iter != vec.end() && *iter == item) vec.erase(iter)
ErasedAt(vec, p, item) ==
  IF p <= Len(vec) /\ vec[p] = item THEN RemoveAt(vec, p) ELSE vec

\* Mutant: upper_bound, as in insert_sorted.
erase_sorted_UpperBound(at, vec, item, racing) ==
  {ErasedAt(vec, p, item) :
     p \in IF racing THEN Positions(vec) ELSE UpperBounds(at, vec, item)}

erase_sorted(at, vec, item, racing) ==
  {ErasedAt(vec, p, item) :
     p \in IF racing THEN Positions(vec) ELSE LowerBounds(at, vec, item)}

\* Every order of the elements of vec, each kept as often as it occurs.
Rearrangements(vec) ==
  LET D == DOMAIN vec
  IN  {[i \in D |-> vec[p[i]]] :
         p \in {q \in [D -> D] : \A j \in D : \E i \in D : q[i] = j}}

SortedBy(at, vec) ==
  \A i, j \in DOMAIN vec : i < j => at[vec[i]] <= at[vec[j]]

\* std::sort(vec.begin(), vec.end(), VisitAtCmp()): ties in any order
sort(at, vec, racing) ==
  {r \in Rearrangements(vec) : racing \/ SortedBy(at, r)}
=============================================================================
