----------------------- MODULE ConcurrentQueueProofs -----------------------
(***************************************************************************)
(* Theorems about ConcurrentQueue, for any threads, consumers, hash        *)
(* functions, tables, blocks and scenarios: the inductive invariant, what  *)
(* each action does to the variables, why the hash of producers and the    *)
(* counters of a producer stay sound, and why a consumer finds the block   *)
(* of its index and leaves it as it should. ConcurrentQueueIndexProofs     *)
(* goes on with the steps of the threads that enqueue, and has the         *)
(* theorems.  The invariant is needed as a whole. That a consumer finds    *)
(* the block of the index it has claimed (IndexInv) takes that the block   *)
(* is still there, for as long as one of its indices is yet to leave it    *)
(* (BlockInv); that takes that no index is claimed which is not below the  *)
(* tail, and none twice (CountInv); and that the tail is the business of   *)
(* one thread takes that no two threads, and no thread twice, make a       *)
(* producer (HashInv).                                                     *)
(***************************************************************************)
EXTENDS ConcurrentQueue, FiniteSetTheorems, WellFoundedInduction, TLAPS
-----------------------------------------------------------------------------
(* Division and remainder.                                                 *)

\* What division and remainder are, by any positive number.
LEMMA DivMod ==
  ASSUME NEW n \in Nat \ {0}, NEW k \in Int
  PROVE  /\ k % n \in 0 .. n - 1 /\ k \div n \in Int /\ n * (k \div n) \in Int
         /\ k = n * (k \div n) + (k % n)
OBVIOUS

\* A number has one quotient and one remainder.
LEMMA OneRemainder ==
  ASSUME NEW n \in Nat \ {0}, NEW p \in Int, NEW q \in Int,
         NEW r \in 0 .. n - 1, NEW s \in 0 .. n - 1, n * p + r = n * q + s
  PROVE  p = q /\ r = s
<1>1. ASSUME NEW x \in Int, NEW y \in Int, x < y PROVE n * x + n <= n * y
  <2>1. \A a, b \in Nat : a * b >= 0
    OBVIOUS
  <2>2. y - x - 1 \in Nat /\ n \in Nat
    BY <1>1
  <2>3. n * (y - x - 1) >= 0
    BY <2>1, <2>2
  <2>4. n * (y - x - 1) = n * y - n * x - n
    BY <1>1
  <2>5. n * x \in Int /\ n * y \in Int
    BY <1>1
  <2> QED BY <2>3, <2>4, <2>5
<1> DEFINE a == n * p
           b == n * q
<1>2. a \in Int /\ b \in Int /\ a + r = b + s
  OBVIOUS
<1>3. p < q => a + n <= b
  BY <1>1
<1>4. q < p => b + n <= a
  BY <1>1
<1> HIDE DEF a, b
<1>5. ~ (p < q) /\ ~ (q < p)
  BY <1>2, <1>3, <1>4
<1>6. p = q
  BY <1>5
<1>7. p = q => a = b
  BY DEF a, b
<1> QED BY <1>2, <1>6, <1>7

\* Whole multiples do not change a remainder.
LEMMA AddMultiple ==
  ASSUME NEW n \in Nat \ {0}, NEW k \in Int, NEW q \in Int
  PROVE  (k + n * q) % n = k % n /\ (k + n * q) \div n = (k \div n) + q
<1>0. PICK m \in Int : m = k + n * q
  OBVIOUS
<1>1. m = n * (m \div n) + (m % n) /\ m % n \in 0 .. n - 1 /\ m \div n \in Int
  BY DivMod
<1>2. k = n * (k \div n) + (k % n) /\ k % n \in 0 .. n - 1 /\ k \div n \in Int
  BY DivMod
<1>3. m = n * ((k \div n) + q) + (k % n)
  <2>1. n * ((k \div n) + q) = n * (k \div n) + n * q
    BY <1>2
  <2> QED BY <1>0, <1>2, <2>1
<1>4. (k \div n) + q \in Int
  BY <1>2
<1>5. PICK u \in Int, v \in Int, r \in 0 .. n - 1, s \in 0 .. n - 1 :
        u = m \div n /\ v = (k \div n) + q /\ r = m % n /\ s = k % n
  BY <1>1, <1>2, <1>4
<1>6. n * u + r = n * v + s
  BY <1>1, <1>3, <1>5
<1>7. u = v /\ r = s
  BY <1>6, OneRemainder
<1> QED BY <1>0, <1>5, <1>7

\* Numbers below n are their own remainders.
LEMMA SmallMod ==
  ASSUME NEW n \in Nat \ {0}, NEW k \in 0 .. n - 1
  PROVE  k % n = k /\ k \div n = 0
<1>1. k % n \in 0 .. n - 1 /\ k \div n \in Int /\ k = n * (k \div n) + (k % n)
  BY DivMod
<1>2. PICK u \in Int, r \in 0 .. n - 1 : u = k \div n /\ r = k % n
  BY <1>1
<1>3. n * u + r = n * 0 + k
  BY <1>1, <1>2
<1>4. u = 0 /\ r = k
  BY <1>3, OneRemainder
<1> QED BY <1>2, <1>4

\* Numbers with one remainder are whole multiples apart.
LEMMA SameRemainder ==
  ASSUME NEW n \in Nat \ {0}, NEW x \in Int, NEW y \in Int
  PROVE  /\ x % n = y % n => \E q \in Int : y = x + n * q
         /\ (\E q \in Int : y = x + n * q) => x % n = y % n
<1>1. ASSUME x % n = y % n PROVE \E q \in Int : y = x + n * q
  <2>1. PICK u \in Int, v \in Int, r \in Int :
          x = n * u + r /\ y = n * v + r
    <3>1. /\ x = n * (x \div n) + (x % n) /\ x \div n \in Int /\ x % n \in Int
          /\ y = n * (y \div n) + (y % n) /\ y \div n \in Int
      BY DivMod
    <3> QED BY <1>1, <3>1
  <2>2. v - u \in Int /\ n * (v - u) = n * v - n * u
    OBVIOUS
  <2>3. n * u \in Int /\ n * v \in Int
    OBVIOUS
  <2>4. y = x + n * (v - u)
    BY <2>1, <2>2, <2>3
  <2> QED BY <2>2, <2>4
<1>2. ASSUME NEW q \in Int, y = x + n * q PROVE x % n = y % n
  BY <1>2, AddMultiple
<1> QED BY <1>1, <1>2

\* A whole multiple of n between - n and n is 0.
LEMMA SmallMultiple ==
  ASSUME NEW n \in Nat \ {0}, NEW q \in Int, n * q < n, - n < n * q
  PROVE  q = 0
<1>1. q >= 1 => n * q >= n
  <2>1. \A a, b \in Nat : a * b >= 0
    OBVIOUS
  <2>2. q >= 1 => n * (q - 1) >= 0
    <3>1. q >= 1 => q - 1 \in Nat
      OBVIOUS
    <3> QED BY <2>1, <3>1
  <2>3. n * (q - 1) = n * q - n /\ n * q \in Int
    OBVIOUS
  <2> QED BY <2>2, <2>3
<1>2. q <= -1 => n * q <= - n
  <2>1. \A a, b \in Nat : a * b >= 0
    OBVIOUS
  <2>2. q <= -1 => n * (- q - 1) >= 0
    <3>1. q <= -1 => - q - 1 \in Nat
      OBVIOUS
    <3> QED BY <2>1, <3>1
  <2>3. n * (- q - 1) = - (n * q) - n /\ n * q \in Int
    OBVIOUS
  <2> QED BY <2>2, <2>3
<1>3. n * q \in Int
  OBVIOUS
<1> QED BY <1>1, <1>2, <1>3

\* Numbers less than n apart have different remainders.
LEMMA ApartMod ==
  ASSUME NEW n \in Nat \ {0}, NEW x \in Int, NEW y \in Int,
         x % n = y % n, x - y < n, y - x < n
  PROVE  x = y
<1>1. PICK q \in Int : y = x + n * q
  BY SameRemainder
<1>2. n * q \in Int
  OBVIOUS
<1>3. n * q < n /\ - n < n * q
  BY <1>1, <1>2
<1>4. q = 0
  BY <1>3, SmallMultiple
<1> QED BY <1>1, <1>4

\* A sum of remainders has the remainder of the sum.
LEMMA ModAdd ==
  ASSUME NEW n \in Nat \ {0}, NEW x \in Int, NEW y \in Int
  PROVE  ((x % n) + y) % n = (x + y) % n
<1>1. PICK q \in Int, r \in Int : x = n * q + r /\ r = x % n
  <2>1. x = n * (x \div n) + (x % n) /\ x \div n \in Int /\ x % n \in Int
    BY DivMod
  <2> QED BY <2>1
<1>2. n * q \in Int
  OBVIOUS
<1>3. x + y = (r + y) + n * q /\ r + y \in Int /\ x + y \in Int
  BY <1>1, <1>2
<1>4. (r + y) % n = (x + y) % n
  <2>1. PICK a \in Int, b \in Int : a = r + y /\ b = x + y /\ b = a + n * q
    BY <1>3
  <2>2. \E z \in Int : b = a + n * z
    BY <2>1
  <2>3. a % n = b % n
    BY <2>2, SameRemainder
  <2> QED BY <2>1, <2>3
<1> QED BY <1>1, <1>4
-----------------------------------------------------------------------------
(* Indices and the blocks they are in.                                     *)

\* The first indices of blocks.
IsBase(i) == i \in Int /\ Slot(i) = 0

\* An index is in the block that its base begins.
LEMMA BaseOf ==
  ASSUME NEW i \in Int
  PROVE  /\ Slot(i) \in 0 .. BlockSize - 1 /\ Base(i) \in Int /\ IsBase(Base(i))
         /\ Base(i) <= i /\ i < Base(i) + BlockSize /\ i = Base(i) + Slot(i)
<1>1. BlockSize \in Nat \ {0}
  BY QueueConstants
<1>2. PICK q \in Int, r \in 0 .. BlockSize - 1 : i = BlockSize * q + r /\ r = Slot(i)
  <2>1. /\ i % BlockSize \in 0 .. BlockSize - 1 /\ i \div BlockSize \in Int
        /\ i = BlockSize * (i \div BlockSize) + (i % BlockSize)
    BY <1>1, DivMod
  <2> QED BY <2>1 DEF Slot
<1>3. BlockSize * q \in Int
  BY <1>1
<1>4. Base(i) = BlockSize * q
  BY <1>2, <1>3 DEF Base
<1>5. Slot(Base(i)) = 0
  <2>1. (0 + BlockSize * q) % BlockSize = 0 % BlockSize
    BY <1>1, AddMultiple
  <2>2. 0 % BlockSize = 0
    BY <1>1, SmallMod
  <2>3. 0 + BlockSize * q = BlockSize * q
    BY <1>3
  <2> QED BY <1>4, <2>1, <2>2, <2>3 DEF Slot
<1> QED BY <1>1, <1>2, <1>3, <1>4, <1>5 DEF IsBase

\* Bases are a whole number of blocks apart.
LEMMA BasesApart ==
  ASSUME NEW x, NEW y, IsBase(x), IsBase(y)
  PROVE  /\ (y - x) \div BlockSize \in Int /\ y = x + BlockSize * ((y - x) \div BlockSize)
         /\ x < y => x + BlockSize <= y
         /\ x <= y => (y - x) \div BlockSize \in Nat
<1>1. BlockSize \in Nat \ {0} /\ x \in Int /\ y \in Int /\ x % BlockSize = y % BlockSize
  BY QueueConstants DEF IsBase, Slot
<1>2. PICK q \in Int : y = x + BlockSize * q
  BY <1>1, SameRemainder
<1>3. BlockSize * q \in Int
  BY <1>1
<1>4. y - x = 0 + BlockSize * q
  BY <1>1, <1>2, <1>3
<1>5. (y - x) \div BlockSize = q
  <2>1. (0 + BlockSize * q) \div BlockSize = (0 \div BlockSize) + q
    BY <1>1, AddMultiple
  <2>2. 0 \div BlockSize = 0
    BY <1>1, SmallMod
  <2> QED BY <1>4, <2>1, <2>2
<1>6. q < 0 => BlockSize * q < 0
  <2>1. \A a, b \in Nat : a * b >= 0
    OBVIOUS
  <2>2. q < 0 => BlockSize * (- q - 1) >= 0
    <3>1. q < 0 => - q - 1 \in Nat
      OBVIOUS
    <3> QED BY <1>1, <2>1, <3>1
  <2>3. BlockSize * (- q - 1) = - (BlockSize * q) - BlockSize
    BY <1>1
  <2> QED BY <1>1, <1>3, <2>2, <2>3
<1>7. q > 0 => BlockSize * q >= BlockSize
  <2>1. \A a, b \in Nat : a * b >= 0
    OBVIOUS
  <2>2. q > 0 => BlockSize * (q - 1) >= 0
    <3>1. q > 0 => q - 1 \in Nat
      OBVIOUS
    <3> QED BY <1>1, <2>1, <3>1
  <2>3. BlockSize * (q - 1) = BlockSize * q - BlockSize
    BY <1>1
  <2> QED BY <1>1, <1>3, <2>2, <2>3
<1>8. q = 0 => BlockSize * q = 0
  BY <1>1
<1> HIDE DEF IsBase
<1>9. x < y => q > 0
  BY <1>1, <1>2, <1>3, <1>6, <1>8
<1>10. x <= y => q >= 0
  BY <1>1, <1>2, <1>3, <1>6
<1> QED BY <1>1, <1>2, <1>3, <1>5, <1>7, <1>9, <1>10

\* The next base is a block further away.
LEMMA BaseAway ==
  ASSUME NEW x, IsBase(x), NEW y, IsBase(y)
  PROVE  ((x + BlockSize) - y) \div BlockSize = ((x - y) \div BlockSize) + 1
<1>1. BlockSize \in Nat \ {0} /\ x \in Int /\ y \in Int
  BY QueueConstants DEF IsBase
<1>2. ((x - y) + BlockSize * 1) \div BlockSize = ((x - y) \div BlockSize) + 1
  BY <1>1, AddMultiple
<1>3. (x - y) + BlockSize * 1 = (x + BlockSize) - y
  BY <1>1
<1> QED BY <1>2, <1>3

\* The blocks before and after one are BlockSize from it, and one further in any count.
LEMMA NextBase ==
  ASSUME NEW x, IsBase(x)
  PROVE  /\ IsBase(x + BlockSize) /\ IsBase(x - BlockSize)
         /\ \A y : IsBase(y) => ((x + BlockSize) - y) \div BlockSize
                = ((x - y) \div BlockSize) + 1
         /\ (x - x) \div BlockSize = 0
<1>1. BlockSize \in Nat \ {0} /\ x \in Int /\ x % BlockSize = 0
  BY QueueConstants DEF IsBase, Slot
<1>2. ASSUME NEW q \in Int PROVE (x + BlockSize * q) % BlockSize = 0
  BY <1>1, AddMultiple
<1>3. BlockSize * 1 = BlockSize /\ BlockSize * (-1) = - BlockSize
  BY <1>1
<1>4. IsBase(x + BlockSize)
  <2>1. (x + BlockSize * 1) % BlockSize = 0
    BY <1>2
  <2> QED BY <1>1, <1>3, <2>1 DEF IsBase, Slot
<1>5. IsBase(x - BlockSize)
  <2>1. (x + BlockSize * (-1)) % BlockSize = 0
    BY <1>2
  <2>2. x + BlockSize * (-1) = x - BlockSize /\ x - BlockSize \in Int
    BY <1>1, <1>3
  <2> QED BY <2>1, <2>2 DEF IsBase, Slot
<1>6. ASSUME NEW y, IsBase(y)
      PROVE  ((x + BlockSize) - y) \div BlockSize = ((x - y) \div BlockSize) + 1
  BY <1>6, BaseAway
<1>7. (x - x) \div BlockSize = 0
  <2>1. x - x = 0 /\ 0 \div BlockSize = 0
    BY <1>1, SmallMod
  <2> QED BY <2>1
<1> QED BY <1>4, <1>5, <1>6, <1>7

\* There is one base from which an index is less than a block away.
LEMMA OneBase ==
  ASSUME NEW i \in Int, NEW x, IsBase(x), x <= i, i < x + BlockSize
  PROVE  Base(i) = x /\ Slot(i) = i - x
<1>1. IsBase(Base(i)) /\ Base(i) \in Int /\ Base(i) <= i /\ i < Base(i) + BlockSize
      /\ Slot(i) = i - Base(i)
  BY BaseOf
<1>2. x \in Int /\ BlockSize \in Nat
  BY QueueConstants DEF IsBase
<1>3. ~ (x < Base(i)) /\ ~ (Base(i) < x)
  BY <1>1, <1>2, BasesApart
<1> QED BY <1>1, <1>2, <1>3

\* The base of the index before another one.
LEMMA BaseBefore ==
  ASSUME NEW i \in Int
  PROVE  /\ Slot(i) = 0 => Base(i) = i /\ Base(i - 1) = i - BlockSize
         /\ Slot(i) # 0 => Base(i - 1) = Base(i)
         /\ i >= 0 => Base(i) >= 0
<1>1. IsBase(Base(i)) /\ Base(i) \in Int /\ Base(i) <= i /\ i < Base(i) + BlockSize
      /\ i = Base(i) + Slot(i) /\ Slot(i) \in Int
  BY BaseOf
<1>2. BlockSize \in Nat /\ BlockSize > 1 /\ i - 1 \in Int
  BY QueueConstants
<1>3. ASSUME Slot(i) = 0 PROVE Base(i) = i /\ Base(i - 1) = i - BlockSize
  <2>1. Base(i) = i
    BY <1>1, <1>3
  <2>2. IsBase(i - BlockSize)
    BY <1>1, <2>1, NextBase
  <2>3. i - BlockSize <= i - 1 /\ i - 1 < (i - BlockSize) + BlockSize
    BY <1>2
  <2> QED BY <1>2, <2>1, <2>2, <2>3, OneBase
<1>4. ASSUME Slot(i) # 0 PROVE Base(i - 1) = Base(i)
  <2>1. Base(i) <= i - 1 /\ i - 1 < Base(i) + BlockSize
    BY <1>1, <1>2, <1>4, BaseOf
  <2> QED BY <1>1, <1>2, <2>1, OneBase
<1>5. ASSUME i >= 0 PROVE Base(i) >= 0
  <2>1. IsBase(0)
    BY <1>2, SmallMod DEF IsBase, Slot
  <2>2. Base(i) < 0 => Base(i) + BlockSize <= 0
    BY <1>1, <2>1, BasesApart
  <2> QED BY <1>1, <1>2, <1>5, <2>2
<1> QED BY <1>3, <1>4, <1>5

\* Bases do not go down as indices go up.
LEMMA BaseMonotone ==
  ASSUME NEW i \in Int, NEW j \in Int, i <= j
  PROVE  Base(i) <= Base(j)
<1>1. /\ IsBase(Base(i)) /\ Base(i) \in Int /\ Base(i) <= i
      /\ IsBase(Base(j)) /\ Base(j) \in Int /\ j < Base(j) + BlockSize
  BY BaseOf
<1>2. Base(j) < Base(i) => Base(j) + BlockSize <= Base(i)
  BY <1>1, BasesApart
<1> QED BY <1>1, <1>2, QueueConstants
-----------------------------------------------------------------------------
(* Positions on a ring of n.                                               *)

\* One step forth, and so many back.
LEMMA RingForth ==
  ASSUME NEW n \in Nat \ {0}, NEW x \in Int, NEW k \in Int
  PROVE  (((x + 1) % n) - k) % n = (x - (k - 1)) % n
<1>1. PICK y \in Int, m \in Int : y = x + 1 /\ m = - k
  OBVIOUS
<1>2. ((y % n) + m) % n = (y + m) % n
  BY <1>1, ModAdd
<1>3. y % n \in Int
  BY <1>1, DivMod
<1>4. (y % n) + m = ((x + 1) % n) - k
  BY <1>1, <1>3
<1>5. y + m = x - (k - 1)
  BY <1>1
<1> QED BY <1>2, <1>4, <1>5

\* One step back, and so many more.
LEMMA RingBack ==
  ASSUME NEW n \in Nat \ {0}, NEW x \in Int, NEW k \in Int
  PROVE  (((x - 1) % n) - k) % n = (x - (k + 1)) % n
<1>1. PICK y \in Int, m \in Int : y = x - 1 /\ m = - k
  OBVIOUS
<1>2. ((y % n) + m) % n = (y + m) % n
  BY <1>1, ModAdd
<1>3. y % n \in Int
  BY <1>1, DivMod
<1>4. (y % n) + m = ((x - 1) % n) - k
  BY <1>1, <1>3
<1>5. y + m = x - (k + 1)
  BY <1>1
<1> QED BY <1>2, <1>4, <1>5

\* The place furthest back is the next one forth.
LEMMA RingEnd ==
  ASSUME NEW n \in Nat \ {0}, NEW x \in Int
  PROVE  (x - (n - 1)) % n = (x + 1) % n
<1>1. PICK y \in Int, z \in Int : y = x - (n - 1) /\ z = x + 1
  OBVIOUS
<1>2. z = y + n * 1
  BY <1>1
<1>3. \E q \in Int : z = y + n * q
  BY <1>2
<1>4. y % n = z % n
  BY <1>3, SameRemainder
<1> QED BY <1>1, <1>4

\* One step and back, in either order of stepping and counting.
LEMMA RingSteps ==
  ASSUME NEW n \in Nat \ {0}, NEW x \in 0 .. n - 1
  PROVE  /\ (x + 1) % n \in 0 .. n - 1 /\ (x - 1) % n \in 0 .. n - 1
         /\ \A k \in Int : (x - k) % n \in 0 .. n - 1
         /\ \A k \in Int : (((x + 1) % n) - k) % n = (x - (k - 1)) % n
         /\ \A k \in Int : (((x - 1) % n) - k) % n = (x - (k + 1)) % n
         /\ (((x - 1) % n) + 1) % n = x
         /\ (x - 0) % n = x
         /\ (x - (n - 1)) % n = (x + 1) % n
<1>1. (x + 1) % n \in 0 .. n - 1 /\ (x - 1) % n \in 0 .. n - 1
  BY DivMod
<1>2. ASSUME NEW k \in Int PROVE (x - k) % n \in 0 .. n - 1
  BY DivMod
<1>3. ASSUME NEW k \in Int PROVE (((x + 1) % n) - k) % n = (x - (k - 1)) % n
  <2>1. x \in Int
    OBVIOUS
  <2> QED BY <2>1, RingForth
<1>4. ASSUME NEW k \in Int PROVE (((x - 1) % n) - k) % n = (x - (k + 1)) % n
  <2>1. x \in Int
    OBVIOUS
  <2> QED BY <2>1, RingBack
<1>5. (((x - 1) % n) + 1) % n = x
  <2>1. PICK y \in Int, m \in Int : y = x - 1 /\ m = 1
    OBVIOUS
  <2>2. ((y % n) + m) % n = (y + m) % n
    BY ModAdd
  <2>3. y + m = x /\ x % n = x
    BY <2>1, SmallMod
  <2> QED BY <2>1, <2>2, <2>3
<1>6. (x - 0) % n = x
  BY SmallMod
<1>7. (x - (n - 1)) % n = (x + 1) % n
  BY RingEnd
<1> QED BY <1>1, <1>2, <1>3, <1>4, <1>5, <1>6, <1>7

\* Positions less than a turn apart are different, counted either way.
LEMMA RingApart ==
  ASSUME NEW n \in Nat \ {0}, NEW x \in Int, NEW k \in 0 .. n - 1, NEW m \in 0 .. n - 1
  PROVE  /\ (x - k) % n = (x - m) % n => k = m
         /\ (x + k) % n = (x + m) % n => k = m
<1>1. ASSUME (x - k) % n = (x - m) % n PROVE k = m
  <2>1. PICK y \in Int, z \in Int : y = x - k /\ z = x - m
    OBVIOUS
  <2>2. y - z < n /\ z - y < n /\ y % n = z % n
    BY <1>1, <2>1
  <2>3. y = z
    BY <2>2, ApartMod
  <2> QED BY <2>1, <2>3
<1>2. ASSUME (x + k) % n = (x + m) % n PROVE k = m
  <2>1. PICK y \in Int, z \in Int : y = x + k /\ z = x + m
    OBVIOUS
  <2>2. y - z < n /\ z - y < n /\ y % n = z % n
    BY <1>2, <2>1
  <2>3. y = z
    BY <2>2, ApartMod
  <2> QED BY <2>1, <2>3
<1> QED BY <1>1, <1>2

\* From the oldest on: the k-th from the end of what was turned is the k-th before x.
LEMMA RingTurned ==
  ASSUME NEW n \in Nat \ {0}, NEW x \in 0 .. n - 1, NEW k \in 0 .. n - 1
  PROVE  /\ ((n - 1) - k) % (2 * n) = (n - 1) - k
         /\ (x + 1 + ((n - 1) - k)) % n = (x - k) % n
         /\ ((n - 1) + 1) % (2 * n) = n
<1>1. 2 * n \in Nat \ {0} /\ (n - 1) - k \in 0 .. 2 * n - 1 /\ (n - 1) + 1 \in 0 .. 2 * n - 1
      /\ (n - 1) + 1 = n
  OBVIOUS
<1>2. /\ ((n - 1) - k) % (2 * n) = (n - 1) - k
      /\ ((n - 1) + 1) % (2 * n) = n
  <2>1. PICK m \in Nat \ {0} : m = 2 * n
    BY <1>1
  <2>2. PICK y \in 0 .. m - 1, z \in 0 .. m - 1 : y = (n - 1) - k /\ z = (n - 1) + 1
    BY <1>1, <2>1
  <2>3. y % m = y /\ z % m = z
    BY SmallMod
  <2>4. m \in Nat /\ y \in Int /\ z \in Int
    BY <2>2
  <2> QED BY <1>1, <2>1, <2>2, <2>3
<1>3. (x + 1 + ((n - 1) - k)) % n = (x - k) % n
  <2>1. PICK y \in Int, z \in Int : y = x + 1 + ((n - 1) - k) /\ z = x - k
    OBVIOUS
  <2>2. y = z + n * 1
    BY <2>1
  <2>3. \E q \in Int : y = z + n * q
    BY <2>2
  <2>4. z % n = y % n
    BY <2>3, SameRemainder
  <2> QED BY <2>1, <2>4
<1> QED BY <1>2, <1>3
-----------------------------------------------------------------------------
(* What the variables hold.                                                *)

Slots == [key : Threads \union {NoThread}, value : Nat]
Tables == UNION {[0 .. n - 1 -> Slots] : n \in Nat \ {0}}
Items == [from : Threads \union {NoThread}, no : Nat]
Blocks == [dequeued : Nat, elements : [0 .. BlockSize - 1 -> Items]]
Headers == [tail : Nat, index : UNION {[0 .. n - 1 -> Nat] : n \in Nat \ {0}}]
Entries == [key : Int, value : Nat]
ProducerType ==
  [owner : Threads, tail : Nat, head : Nat, optimistic : Nat, overcommit : Nat,
   tailBlock : Nat, indices : Seq(Headers), entries : Seq(Entries)]
ThreadType ==
  [at : {"idle", "find", "move", "add", "room", "resize", "resized", "wait", "create", "insert",
         "enqueue", "keyed", "requisition", "store", "write", "publish"},
   left : Nat, sent : Nat, main : Nat, count : Nat, producer : Nat, block : Nat]
ConsumerType ==
  [at : {"idle", "look", "size", "dequeue", "check", "claim", "verify", "giveBack",
         "header", "tail", "key", "move", "empty", "clear", "free"},
   saw : {"no", "empty", "some"}, p : Nat, n : Nat, best : Nat, size : Nat, left : Int,
   tail : Nat, overcommit : Nat, count : Nat, i : Nat, h : Nat, entry : Nat, b : Nat,
       item : Items]

TypeOK ==
  /\ tables \in Seq(Tables) /\ hashCount \in Int /\ resizing \in BOOLEAN
  /\ producers \in Seq(ProducerType)
  /\ failures \in Nat /\ thr \in [Threads -> ThreadType]
  /\ team \subseteq Consumers /\ blocks \in Seq(Blocks) /\ used \in Nat /\ pool \subseteq Nat
  /\ con \in [Consumers -> ConsumerType]
-----------------------------------------------------------------------------
(* The hash of producers.  The searches of a table end, and threads find   *)
(* their producers, because no table fills up: the n-th thread to be       *)
(* counted writes its key only where its count is below 3/4 of the         *)
(* capacity, and every thread with a key in a table has been counted.      *)

\* Thread t has a key in table i.
InTable(t, i) == \E s \in DOMAIN tables[i] : tables[i][s].key = t
\* A count below this admits to table i.
Limit(i) == (Capacity(i) \div 2) + (Capacity(i) \div 4)
\* Where a thread has been counted and its key is not written yet,
Joining == {"room", "resize", "resized", "wait", "create", "insert"}
\* and where it has its producer.
Enqueueing == {"enqueue", "keyed", "requisition", "store", "write", "publish"}
\* The threads hashCount counts, and those of them a count up to n admitted.
Joined == {t \in Threads : thr[t].at \in Joining \/ \E i \in DOMAIN tables : InTable(t, i)}
Early(n) == {t \in Threads : \/ thr[t].at \in Joining /\ thr[t].count <= n
                             \/ \E i \in DOMAIN tables : InTable(t, i) /\ Limit(i) <= n + 1}
\* The k-th slot that the search for t looks at.
SlotOf(i, t, k) == (hash_thread_id[t] + k) % Capacity(i)

\* Each table is as big as those before it.
TablesGrow == tables # <<>> /\ \A i, j \in DOMAIN tables : i <= j => Capacity(i) <= Capacity(j)
\* The count is that of the threads, and they are counted one after the other.
Crowds == hashCount = Cardinality(Joined) /\ \A n \in Nat : Cardinality(Early(n)) <= n
\* A key has one slot, which leads to the producer of its thread.
SlotsSound ==
  \A i \in DOMAIN tables : \A s \in DOMAIN tables[i] : tables[i][s].key # NoThread =>
    /\ tables[i][s].value \in DOMAIN producers
    /\ producers[tables[i][s].value].owner = tables[i][s].key
    /\ \A r \in DOMAIN tables[i] : tables[i][r].key = tables[i][s].key => r = s
\* The search for a key that is there comes to it before any free slot.
Reachable ==
  \A i \in DOMAIN tables, t \in Threads : InTable(t, i) =>
    \E k \in 0 .. Capacity(i) - 1 :
      /\ tables[i][SlotOf(i, t, k)].key = t
      /\ \A m \in 0 .. k - 1 : tables[i][SlotOf(i, t, m)].key \notin {t, NoThread}
\* What a thread has made sure of.
ThreadSound(t) ==
  /\ thr[t].at \in {"add", "move"} \union Joining => thr[t].main \in DOMAIN tables
  /\ thr[t].at \in {"add"} \union Joining => \A i \in DOMAIN tables : ~ InTable(t, i)
  /\ thr[t].at \in {"create", "insert"} => thr[t].count < Limit(thr[t].main)
  /\ thr[t].at = "move" => /\ ~ InTable(t, thr[t].main)
                           /\ \E j \in DOMAIN tables : j < thr[t].main /\ InTable(t, j)
  /\ thr[t].at \in {"move", "insert"} \union Enqueueing =>
       thr[t].producer \in DOMAIN producers /\ producers[thr[t].producer].owner = t
ThreadsSound == \A t \in Threads : ThreadSound(t)
\* A thread has one producer, and a key for it once it has inserted it.
OwnedOnce ==
  \A p, q \in DOMAIN producers : producers[p].owner = producers[q].owner => p = q
OwnedFound ==
  \A p \in DOMAIN producers :
    \/ thr[producers[p].owner].at = "insert"
    \/ \E i \in DOMAIN tables : InTable(producers[p].owner, i)
\* Each table has a free slot: what the loops that search it rely on.
FreeSlots ==
  \A i \in DOMAIN tables : \E slot \in DOMAIN tables[i] : tables[i][slot].key = NoThread
HashInv ==
  TablesGrow /\ Crowds /\ SlotsSound /\ Reachable /\ ThreadsSound /\ OwnedOnce /\ OwnedFound
-----------------------------------------------------------------------------
(* The counters of a producer.  A consumer claims by counting up           *)
(* optimistic, verifies the claim against the tail, and either takes an    *)
(* index or gives the claim back by counting up overcommit.                *)

\* The consumers that have claimed and not verified yet, or are giving their claim back.
Verifying(p) == {c \in Consumers : con[c].at = "verify" /\ con[c].p = p}
Returning(p) == {c \in Consumers : con[c].at = "giveBack" /\ con[c].p = p}
\* Those that verify with a count of n at most.
UpTo(p, n) == {d \in Verifying(p) : con[d].count <= n}
\* Each claim was taken, given back, or is still in the hands of one of those.
CountedAt(p) ==
  /\ producers[p].head <= producers[p].tail
  /\ producers[p].optimistic = producers[p].head + producers[p].overcommit
                               + Cardinality(Verifying(p)) + Cardinality(Returning(p))
Counted == \A p \in DOMAIN producers : CountedAt(p)
\* Where p is the number of a producer, and what else a consumer has in its locals.
AtProducer == {"size", "dequeue", "check", "claim", "verify", "giveBack",
               "header", "tail", "key", "move", "empty", "clear", "free"}
PlacedAt(c) ==
  /\ con[c].at \in AtProducer => con[c].p \in DOMAIN producers
  /\ con[c].at \in {"look", "size"} =>
       /\ con[c].p <= Len(producers) /\ con[c].best <= Len(producers)
       /\ IF con[c].n > 0 THEN con[c].best # 0 ELSE con[c].size = 0
  /\ con[c].left <= Len(producers) /\ con[c].left >= NotYet
  /\ (con[c].at = "idle" <=> con[c].saw = "no") /\ (con[c].at = "idle" => con[c] = AtRest)
  /\ c \notin team => con[c].at = "idle"
Placed == \A c \in Consumers : PlacedAt(c)
\* The head once those with a count of n at most have taken their index.
Bound(p, n) == producers[p].head + Cardinality(UpTo(p, n))
\* A claim that passes the test, count - overcommit < tail, takes an index below the tail,
\* even once all that have counted before it have taken theirs: either the head does not
\* get beyond the tail anyhow, or not beyond what is compared with it.
ClaimAt(c) ==
  /\ con[c].at \in {"check", "claim", "verify"} =>
       con[c].overcommit <= producers[con[c].p].overcommit
  /\ con[c].at = "verify" =>
       /\ con[c].overcommit <= con[c].count /\ con[c].count < producers[con[c].p].optimistic
       /\ \/ Bound(con[c].p, con[c].count) <= producers[con[c].p].tail
          \/ Bound(con[c].p, con[c].count) <= con[c].count - con[c].overcommit + 1
       /\ \A d \in Verifying(con[c].p) : con[d].count = con[c].count => d = c
Claims == \A c \in Consumers : ClaimAt(c)
CountInv == Counted /\ Placed /\ Claims
\* There is something at producer q.
Some(q) == producers[q].head < producers[q].tail
\* A consumer that is alone goes to a producer only if there is something.  If there was
\* something when it asked, it has found it, or it is at one of the producers yet to be
\* looked at, or at the one it looks at now; and no claim of its own fails.
LoneAt(c) ==
  LET p == con[c].p IN
  /\ con[c].at \in {"look", "size"} /\ con[c].n > 0 => Some(con[c].best)
  /\ con[c].at = "size" => con[c].tail <= producers[p].tail
  /\ con[c].saw = "some" =>
       /\ con[c].at = "look" => con[c].n > 0 \/ \E q \in 1 .. p : Some(q)
       /\ con[c].at = "size" => \/ con[c].n > 0 \/ \E q \in 1 .. p - 1 : Some(q)
                                \/ con[c].tail > producers[p].head
       /\ con[c].at = "dequeue" => Some(p)
       /\ con[c].at \in {"check", "claim", "verify"} =>
            /\ con[c].tail > producers[p].head /\ con[c].tail <= producers[p].tail
            /\ con[c].overcommit = producers[p].overcommit
       /\ con[c].at = "verify" => con[c].count = producers[p].head + producers[p].overcommit
       /\ con[c].at # "giveBack"
Lone == \A c \in Consumers : team = {c} => LoneAt(c)
-----------------------------------------------------------------------------
(* The index of blocks.  By position, its entries have the first indices   *)
(* of the blocks in use, each BlockSize more than the one before it, up to *)
(* the block of the tail.  So the block of an index is as many positions   *)
(* before the tail as its first index is blocks before that of the tail,   *)
(* as long as all blocks between are there.                                *)

\* Where the owner of producer p is in its call of enqueue.
Doing(p) == thr[producers[p].owner].at
\* Where the index has an entry for the block of the tail already.
Filling == {"requisition", "store", "write", "publish"}
\* The first index of the last block with an entry, and of the last one there is.
LastBase(p) == IF Doing(p) \in Filling THEN Base(producers[p].tail) ELSE Base(producers[p].tail - 1)
OpenBase(p) == IF Doing(p) \in {"write", "publish"} THEN Base(producers[p].tail)
               ELSE Base(producers[p].tail - 1)
\* The index in use, and its entry for the block at the tail.
Current(p) == IndexOf(producers[p])
TailEntry(p) ==
  Current(p).index[IF Doing(p) \in Filling THEN Current(p).tail ELSE NextPosition(Current(p))]
\* The entries that have a block.
Used(p) == {e \in DOMAIN producers[p].entries : producers[p].entries[e].value # NoBlock}
KeyOf(p, e) == producers[p].entries[e].key
ValueOf(p, e) == producers[p].entries[e].value

\* The positions of an index have entries, in the current one different ones.
ShapeAt(p) ==
  /\ producers[p].indices = <<>> => (producers[p].tail = 0 /\ producers[p].entries = <<>>)
  /\ \A j \in DOMAIN producers[p].indices :
       LET h == producers[p].indices[j]
       IN  /\ h.tail \in DOMAIN h.index
           /\ \A i \in DOMAIN h.index : h.index[i] \in DOMAIN producers[p].entries
           /\ j = Len(producers[p].indices) =>
                \A i, m \in DOMAIN h.index : h.index[i] = h.index[m] => i = m
  /\ Doing(p) \in {"keyed", "requisition", "store"} =>
       /\ producers[p].indices # <<>> /\ Slot(producers[p].tail) = 0
       /\ KeyOf(p, TailEntry(p)) = producers[p].tail /\ ValueOf(p, TailEntry(p)) = NoBlock
  /\ Doing(p) \in {"write", "publish"} => producers[p].indices # <<>>
IndexShape == \A p \in DOMAIN producers : ShapeAt(p)
\* A key is the first index of one block, and not beyond the tail.
KeysAt(p) ==
  /\ \A e \in DOMAIN producers[p].entries : KeyOf(p, e) # NoKey =>
       /\ KeyOf(p, e) \in Nat /\ Slot(KeyOf(p, e)) = 0 /\ KeyOf(p, e) <= producers[p].tail
       /\ KeyOf(p, e) = producers[p].tail => e = TailEntry(p)
       /\ \A f \in DOMAIN producers[p].entries : KeyOf(p, e) = KeyOf(p, f) => e = f
  /\ \A e \in Used(p) : KeyOf(p, e) # NoKey /\ KeyOf(p, e) <= OpenBase(p)
Keys == \A p \in DOMAIN producers : KeysAt(p)
\* From position `tail', that of the block of `last', all blocks from the first in use on
\* are where they are looked for.
Anchored(p, h, tail, last) ==
  \A e \in Used(p) : \A base \in KeyOf(p, e) .. last : Slot(base) = 0 =>
    /\ (last - base) \div BlockSize < CapacityOf(h)
    /\ KeyOf(p, h.index[(tail - ((last - base) \div BlockSize)) % CapacityOf(h)]) = base
\* So it is from the tail of the current index.
AnchorAt(p) ==
  producers[p].indices # <<>> => Anchored(p, Current(p), Current(p).tail, LastBase(p))
Anchors == \A p \in DOMAIN producers : AnchorAt(p)
\* A consumer that has loaded an index and its tail finds its block from there, even if
\* the index has grown meanwhile.
LeadsTo(c, h, tail) ==
  \E last \in Nat : /\ Slot(last) = 0 /\ Base(con[c].i) <= last
                    /\ Anchored(con[c].p, h, tail, last)
Searched(c) == producers[con[c].p].indices[con[c].h]
\* What a consumer has found of it.
SearchAt(c) ==
  /\ con[c].at \in {"tail", "key"} => con[c].h \in DOMAIN producers[con[c].p].indices
  /\ con[c].at = "tail" => \/ con[c].h = Len(producers[con[c].p].indices)
                           \/ LeadsTo(c, Searched(c), Searched(c).tail)
  /\ con[c].at = "key" =>
         con[c].tail \in DOMAIN Searched(c).index /\ LeadsTo(c, Searched(c), con[c].tail)
  /\ con[c].at \in {"move", "empty", "clear"} =>
       con[c].entry \in DOMAIN producers[con[c].p].entries
           /\ KeyOf(con[c].p, con[c].entry) = Base(con[c].i)
  /\ con[c].at \in {"empty", "clear"} => ValueOf(con[c].p, con[c].entry) = con[c].b
Searches == \A c \in Consumers : SearchAt(c)
IndexInv == IndexShape /\ Keys /\ Anchors /\ Searches
-----------------------------------------------------------------------------
(* The blocks.  A block counts the elements that were moved out of it, and *)
(* belongs at each moment to one entry, one thread that is about to store  *)
(* it, one consumer that is about to free it, or to the pool.              *)

\* Where a consumer holds an index whose element still counts for its block.
Holding == {"header", "tail", "key", "move", "empty"}
\* Index i of producer p is in a hand, and the indices of a block that are yet to leave it.
Held(p, i) == \E c \in Consumers : con[c].at \in Holding /\ con[c].p = p /\ con[c].i = i
Left(p, base) ==
  {i \in base .. base + BlockSize - 1 : i >= producers[p].head \/ Held(p, i)}
\* An index is in one hand; the last to leave a block is alone with it.
HandAt(c) ==
  /\ con[c].at \in Holding =>
       /\ con[c].i < producers[con[c].p].head
       /\ \A d \in Consumers : con[d].at \in Holding /\ con[d].p = con[c].p
              /\ con[d].i = con[c].i => d = c
  /\ con[c].at = "clear" =>
       /\ con[c].b # NoBlock
       /\ Left(con[c].p, Base(con[c].i)) = {}
       /\ \A d \in Consumers : con[d].at = "clear" /\ con[d].p = con[c].p
              /\ con[d].entry = con[c].entry => d = c
Hands == \A c \in Consumers : HandAt(c)
\* The block of an index yet to leave has an entry, and knows how many are yet to leave.
PlaceAt(p) ==
  /\ \A base \in 0 .. OpenBase(p) : Slot(base) = 0 /\ Left(p, base) # {} =>
       \E e \in Used(p) : KeyOf(p, e) = base
  /\ \A e \in Used(p) :
       /\ blocks[ValueOf(p, e)].dequeued + Cardinality(Left(p, KeyOf(p, e))) = BlockSize
       /\ KeyOf(p, e) = OpenBase(p) => ValueOf(p, e) = producers[p].tailBlock
BlocksInPlace == \A p \in DOMAIN producers : PlaceAt(p)
\* Neither free nor one of the initial blocks not used yet.
InUse(b) == b \in DOMAIN blocks /\ b \notin pool /\ b \notin used + 1 .. PoolSize
Storing(t) == thr[t].at = "store"
Freeing(c) == con[c].at = "free"
\* The initial blocks not used yet are empty and not in the pool.
PoolOwns ==
  /\ used <= PoolSize /\ PoolSize <= Len(blocks)
  /\ \A b \in pool : b \in DOMAIN blocks /\ b \notin used + 1 .. PoolSize
  /\ \A b \in used + 1 .. PoolSize : blocks[b].dequeued = 0
\* The block of an entry is its own.
EntriesOwn ==
  \A p \in DOMAIN producers : \A e \in Used(p) :
    /\ InUse(ValueOf(p, e))
    /\ \A q \in DOMAIN producers : \A f \in Used(q) :
         ValueOf(p, e) = ValueOf(q, f) => p = q /\ e = f
    /\ \A t \in Threads : Storing(t) => thr[t].block # ValueOf(p, e)
    /\ \A c \in Consumers : Freeing(c) => con[c].b # ValueOf(p, e)
\* So is that which a thread is about to store, which is empty,
ThreadsOwn ==
  \A t \in Threads : Storing(t) =>
    /\ InUse(thr[t].block) /\ blocks[thr[t].block].dequeued = 0
    /\ \A u \in Threads : Storing(u) /\ thr[u].block = thr[t].block => u = t
    /\ \A c \in Consumers : Freeing(c) => con[c].b # thr[t].block
\* and that which a consumer is about to free.
ConsumersOwn ==
  \A c \in Consumers : Freeing(c) =>
    /\ InUse(con[c].b)
    /\ \A d \in Consumers : Freeing(d) /\ con[d].b = con[c].b => d = c
Ownership == PoolOwns /\ EntriesOwn /\ ThreadsOwn /\ ConsumersOwn
BlockInv == Hands /\ BlocksInPlace /\ Ownership
-----------------------------------------------------------------------------
(* The items.  That of an index is in its block until it is moved out, and *)
(* the items of a thread are numbered by their indices.                    *)

\* The item at index i of producer p.
ItemAt(p, i) == [from |-> producers[p].owner, no |-> i + 1]
\* It is written and has not been moved out.
Kept(p, i) ==
  /\ i < producers[p].tail \/ (i = producers[p].tail /\ Doing(p) = "publish")
  /\ \/ i >= producers[p].head
     \/ \E c \in Consumers : con[c].at \in Holding \ {"empty"} /\ con[c].p = p /\ con[c].i = i
\* Then the block of the entry for it has it.
ElementsAt(p) ==
  \A e \in Used(p) : \A i \in KeyOf(p, e) .. KeyOf(p, e) + BlockSize - 1 :
    Kept(p, i) => blocks[ValueOf(p, e)].elements[i - KeyOf(p, e)] = ItemAt(p, i)
Elements == \A p \in DOMAIN producers : ElementsAt(p)
\* A thread has sent what was stored at its producer.
Numbered ==
  /\ \A p \in DOMAIN producers : thr[producers[p].owner].sent = producers[p].tail
  /\ \A t \in Threads : thr[t].sent = 0 \/ \E p \in DOMAIN producers : producers[p].owner = t
\* What a consumer has moved out is the item of its index.
InHand ==
  \A c \in Consumers : con[c].at \in {"empty", "clear", "free"} =>
    con[c].item = ItemAt(con[c].p, con[c].i)
ItemInv == Elements /\ Numbered /\ InHand
-----------------------------------------------------------------------------
\* The inductive invariant.
IInv == TypeOK /\ HashInv /\ CountInv /\ IndexInv /\ BlockInv
\* With what the refinement needs in addition.
FullInv == IInv /\ ItemInv /\ Lone
-----------------------------------------------------------------------------
\* An index of blocks has a position for each number below its capacity.
LEMMA HeaderShape ==
  ASSUME NEW h \in Headers
  PROVE  /\ CapacityOf(h) \in Nat \ {0} /\ DOMAIN h.index = 0 .. CapacityOf(h) - 1
         /\ h.tail \in Nat /\ h.index \in [0 .. CapacityOf(h) - 1 -> Nat]
         /\ h = [tail |-> h.tail, index |-> h.index]
<1>1. h.tail \in Nat /\ h.index \in UNION {[0 .. n - 1 -> Nat] : n \in Nat \ {0}}
      /\ h = [tail |-> h.tail, index |-> h.index]
  BY DEF Headers
<1>2. PICK n \in Nat \ {0} : h.index \in [0 .. n - 1 -> Nat]
  BY <1>1
<1>3. DOMAIN h.index = 0 .. n - 1 /\ Cardinality(0 .. n - 1) = n
  <2>1. Cardinality(0 .. n - 1) = n
    <3>1. 0 \in Int /\ n - 1 \in Int
      OBVIOUS
    <3> QED BY <3>1, FS_Interval
  <2> QED BY <1>2, <2>1
<1> QED BY <1>1, <1>2, <1>3 DEF CapacityOf

\* So has a hash table.
LEMMA TableShape ==
  ASSUME TypeOK, NEW i \in DOMAIN tables
  PROVE  /\ Capacity(i) \in Nat \ {0} /\ DOMAIN tables[i] = 0 .. Capacity(i) - 1
         /\ tables[i] \in [0 .. Capacity(i) - 1 -> Slots]
<1>1. tables[i] \in UNION {[0 .. n - 1 -> Slots] : n \in Nat \ {0}}
  BY DEF TypeOK, Tables
<1>2. PICK n \in Nat \ {0} : tables[i] \in [0 .. n - 1 -> Slots]
  BY <1>1
<1>3. DOMAIN tables[i] = 0 .. n - 1 /\ Cardinality(0 .. n - 1) = n
  <2>1. Cardinality(0 .. n - 1) = n
    <3>1. 0 \in Int /\ n - 1 \in Int
      OBVIOUS
    <3> QED BY <3>1, FS_Interval
  <2> QED BY <1>2, <2>1
<1> QED BY <1>2, <1>3 DEF Capacity

\* Only consumer c has done something.
ConOnly(c) ==
  /\ con' \in [Consumers -> ConsumerType] /\ \A d \in Consumers \ {c} : con'[d] = con[d]
  /\ UNCHANGED <<tables, hashCount, resizing, team, thr, failures>>
\* Only thread t has done something.
ThrOnly(t) ==
  /\ thr' \in [Threads -> ThreadType] /\ \A u \in Threads \ {t} : thr'[u] = thr[u]
  /\ UNCHANGED <<team, con>>
\* Only producer p has changed.
OnlyAt(p) ==
  /\ Len(producers') = Len(producers) /\ DOMAIN producers' = DOMAIN producers
  /\ \A q \in DOMAIN producers \ {p} : producers'[q] = producers[q]

\* What consumer c may do next where r is what NextTry gives.
NextOf(c, r) ==
  \/ r = AtRest
  \/ /\ r.at = "dequeue" /\ r.saw = con[c].saw /\ r.p \in DOMAIN producers
     /\ r.left \in 0 .. Len(producers) /\ r.best = con[c].best
     /\ r.tail = 0 /\ r.overcommit = 0 /\ r.count = 0

\* The consumer that moves has its new locals, the others what they had.
LEMMA ConStep ==
  ASSUME TypeOK, NEW c \in Consumers, NEW locals \in ConsumerType, Is(c, locals)
  PROVE  /\ con' \in [Consumers -> ConsumerType]
         /\ con'[c] = locals /\ \A d \in Consumers \ {c} : con'[d] = con[d]
BY DEF TypeOK, Is

\* So it is with the threads that enqueue,
LEMMA ThrStep ==
  ASSUME TypeOK, NEW t \in Threads, NEW locals \in ThreadType, Now(t, locals)
  PROVE  /\ thr' \in [Threads -> ThreadType]
         /\ thr'[t] = locals /\ \A u \in Threads \ {t} : thr'[u] = thr[u]
BY DEF TypeOK, Now

\* and with the producers.
LEMMA ProducerStep ==
  ASSUME TypeOK, NEW p \in DOMAIN producers, NEW o \in ProducerType,
         producers' = [producers EXCEPT ![p] = o]
  PROVE  producers' \in Seq(ProducerType) /\ OnlyAt(p) /\ producers'[p] = o
BY DEF TypeOK, OnlyAt

\* A consumer at rest has forgotten all.
LEMMA RestFields ==
  /\ AtRest \in ConsumerType
  /\ AtRest.at = "idle" /\ AtRest.saw = "no" /\ AtRest.p = 0 /\ AtRest.n = 0
  /\ AtRest.best = 0 /\ AtRest.size = 0 /\ AtRest.left = 0 /\ AtRest.tail = 0
  /\ AtRest.overcommit = 0 /\ AtRest.count = 0 /\ AtRest.i = 0 /\ AtRest.h = 0
  /\ AtRest.entry = 0 /\ AtRest.b = NoBlock /\ AtRest.item = NoItem
<1>1. NoItem \in Items /\ NoBlock \in Nat
  BY DEF NoItem, Items, NoBlock
<1> QED BY <1>1 DEF AtRest, ConsumerType

\* The key and the value of an entry are numbers.
LEMMA EntryTyped ==
  ASSUME TypeOK, NEW p \in DOMAIN producers, NEW e \in DOMAIN producers[p].entries
  PROVE  KeyOf(p, e) \in Int /\ ValueOf(p, e) \in Nat
<1>1. producers[p] \in ProducerType
  BY DEF TypeOK
<1>2. producers[p].entries \in Seq(Entries)
  BY <1>1 DEF ProducerType
<1>3. producers[p].entries[e] \in Entries
  BY <1>2
<1> QED BY <1>3 DEF KeyOf, ValueOf, Entries

\* Storing the value of an entry.
LEMMA ValueStep ==
  ASSUME NEW s \in Seq(Entries), NEW k \in DOMAIN s, NEW v \in Nat,
         NEW r, r = [s EXCEPT ![k].value = v]
  PROVE  /\ r \in Seq(Entries) /\ DOMAIN r = DOMAIN s /\ Len(r) = Len(s)
         /\ r[k].value = v /\ r[k].key = s[k].key
         /\ \A e \in DOMAIN s \ {k} : r[e] = s[e]
<1>1. s[k] \in Entries
  OBVIOUS
<1>2. PICK o : o = [s[k] EXCEPT !.value = v]
  OBVIOUS
<1>3. o \in Entries /\ o.value = v /\ o.key = s[k].key
  BY <1>1, <1>2 DEF Entries
<1>4. r = [s EXCEPT ![k] = o]
  BY <1>2
<1> QED BY <1>3, <1>4

\* Storing the key of an entry.
LEMMA KeyStep ==
  ASSUME NEW s \in Seq(Entries), NEW k \in DOMAIN s, NEW v \in Int,
         NEW r, r = [s EXCEPT ![k].key = v]
  PROVE  /\ r \in Seq(Entries) /\ DOMAIN r = DOMAIN s /\ Len(r) = Len(s)
         /\ r[k].key = v /\ r[k].value = s[k].value
         /\ \A e \in DOMAIN s \ {k} : r[e] = s[e]
<1>1. s[k] \in Entries
  OBVIOUS
<1>2. PICK o : o = [s[k] EXCEPT !.key = v]
  OBVIOUS
<1>3. o \in Entries /\ o.key = v /\ o.value = s[k].value
  BY <1>1, <1>2 DEF Entries
<1>4. r = [s EXCEPT ![k] = o]
  BY <1>2
<1> QED BY <1>3, <1>4

\* The least element of a set of numbers is one of them.
LEMMA MinInSet ==
  ASSUME NEW S \in SUBSET Nat, S # {}
  PROVE  Min(S) \in S /\ \A y \in S : Min(S) <= y
<1> DEFINE Less == OpToRel(<, Nat)
<1>1. IsWellFoundedOn(Less, Nat)
  BY NatLessThanWellFounded
<1>2. \A x, y \in Nat : x < y => <<x, y>> \in Less
  BY DEF OpToRel
<1> HIDE DEF Less
<1>3. \E x \in S : \A y \in S : ~ (<<y, x>> \in Less)
  BY <1>1, WFMin
<1>4. PICK x \in S : \A y \in S : ~ (<<y, x>> \in Less)
  BY <1>3
<1>5. ASSUME NEW y \in S PROVE x <= y
  <2>1. x \in Nat /\ y \in Nat
    OBVIOUS
  <2>2. ~ (y < x)
    BY <1>2, <1>4, <2>1
  <2> QED BY <2>1, <2>2
<1> QED BY <1>5 DEF Min

\* So is the greatest of a set that has a bound.
LEMMA MaxInSet ==
  ASSUME NEW m \in Nat, NEW S \in SUBSET (1 .. m), S # {}
  PROVE  Max(S) \in S /\ \A y \in S : y <= Max(S)
<1> DEFINE D == {m - x : x \in S}
<1>1. D \in SUBSET Nat /\ D # {}
  <2>1. \A x \in S : m - x \in Nat
    OBVIOUS
  <2> QED BY <2>1
<1>2. PICK d : d = Min(D)
  OBVIOUS
<1>3. d \in D /\ \A y \in D : d <= y
  <2> HIDE DEF D
  <2> QED BY <1>1, <1>2, MinInSet
<1>4. PICK x \in S : d = m - x
  BY <1>3
<1>5. ASSUME NEW y \in S PROVE x >= y
  <2>1. m - y \in D /\ m - y \in Nat
    BY <1>1
  <2>2. d <= m - y
    BY <1>3, <2>1
  <2>3. x \in Int /\ y \in Int
    OBVIOUS
  <2> QED BY <1>4, <2>2, <2>3
<1>6. \E z \in S : \A y \in S : z >= y
  BY <1>5
<1>7. Max(S) \in S /\ \A y \in S : Max(S) >= y
  BY <1>6 DEF Max
<1>8. ASSUME NEW y \in S PROVE y <= Max(S)
  <2>1. PICK z \in S : z = Max(S)
    BY <1>7
  <2>2. z \in Int /\ y \in Int
    <3>1. \A w \in 1 .. m : w \in Int
      OBVIOUS
    <3>2. z \in 1 .. m /\ y \in 1 .. m
      BY <2>1
    <3> QED BY <3>1, <3>2
  <2>3. z >= y
    BY <1>7, <2>1
  <2> QED BY <2>1, <2>2, <2>3
<1> QED BY <1>7, <1>8

\* What a consumer does when there is nothing at a producer.
LEMMA NextTryFields ==
  ASSUME TypeOK, Placed, NEW c \in Consumers
  PROVE  NextTry(c) \in ConsumerType /\ NextOf(c, NextTry(c))
<1>1. con[c] \in ConsumerType /\ Len(producers) \in Nat
          /\ DOMAIN producers = 1 .. Len(producers)
  BY DEF TypeOK
<1>2. con[c].left \in Int /\ con[c].best \in Nat /\ con[c].saw \in {"no", "empty", "some"}
      /\ con[c].left <= Len(producers) /\ con[c].left >= NotYet
  BY <1>1 DEF Placed, PlacedAt, ConsumerType
<1>3. PICK left : left = (IF con[c].left = NotYet THEN Len(producers) ELSE con[c].left)
  OBVIOUS
<1>4. left \in 0 .. Len(producers)
  BY <1>1, <1>2, <1>3 DEF NotYet
<1>5. PICK others : others = {i \in 1 .. left : i # con[c].best}
  OBVIOUS
<1>6. NextTry(c) = IF others = {} THEN AtRest ELSE Try(c, Max(others), Max(others) - 1)
  BY <1>3, <1>5 DEF NextTry
<1>7. CASE others = {}
  BY <1>6, <1>7, RestFields DEF NextOf
<1>8. CASE others # {}
  <2>1. others \in SUBSET (1 .. left) /\ left \in Nat
    BY <1>4, <1>5
  <2>2. Max(others) \in others
    BY <1>8, <2>1, MaxInSet
  <2>3. PICK m : m = Max(others)
    OBVIOUS
  <2>4. m \in 1 .. Len(producers) /\ m - 1 \in 0 .. Len(producers) /\ m \in Nat /\ m - 1 \in Int
    <3>1. m \in 1 .. left
      BY <2>1, <2>2, <2>3
    <3> QED BY <1>1, <1>4, <3>1
  <2>5. PICK r : r = [AtRest EXCEPT !.at = "dequeue", !.saw = con[c].saw, !.p = m,
            !.best = con[c].best, !.left = m - 1]
    OBVIOUS
  <2>6. NextTry(c) = r
    BY <1>6, <1>8, <2>3, <2>5 DEF Try
  <2>7. /\ r.at = "dequeue" /\ r.saw = con[c].saw /\ r.p = m /\ r.left = m - 1
        /\ r.best = con[c].best /\ r.tail = 0 /\ r.overcommit = 0 /\ r.count = 0
    BY <2>5, RestFields DEF ConsumerType
  <2>8. r \in ConsumerType
    BY <1>2, <2>4, <2>5, RestFields DEF ConsumerType
  <2>9. NextOf(c, r)
    BY <1>1, <2>4, <2>7 DEF NextOf
  <2> QED BY <2>6, <2>8, <2>9
<1> QED BY <1>7, <1>8

\* A call begins with the newest producer, and notes whether all is empty.
LEMMA TryDequeueStep ==
  ASSUME TypeOK, Placed, NEW c \in team, try_dequeue(c)
  PROVE  /\ TypeOK' /\ ConOnly(c) /\ UNCHANGED <<producers, blocks, used, pool>>
         /\ c \in Consumers /\ con[c].at = "idle"
         /\ con'[c].at = "look" /\ con'[c].p = Len(producers)
         /\ con'[c].saw = (IF \A i \in DOMAIN producers : producers[i].head = producers[i].tail
              THEN "empty" ELSE "some")
         /\ con'[c].n = 0 /\ con'[c].best = 0 /\ con'[c].size = 0
         /\ con'[c].left = 0 /\ con'[c].tail = 0
<1>1. c \in Consumers /\ con[c] \in ConsumerType /\ con[c].at = "idle"
  BY DEF TypeOK, try_dequeue, ConAt
<1>2. Len(producers) \in Nat
  BY DEF TypeOK
<1>3. PICK r : r = [AtRest EXCEPT !.at = "look", !.p = Len(producers),
          !.saw = (IF \A i \in DOMAIN producers : producers[i].head = producers[i].tail
              THEN "empty" ELSE "some")]
  OBVIOUS
<1>4. /\ r.at = "look" /\ r.p = Len(producers)
      /\ r.saw = (IF \A i \in DOMAIN producers : producers[i].head = producers[i].tail
              THEN "empty" ELSE "some")
      /\ r.n = 0 /\ r.best = 0 /\ r.size = 0
      /\ r.left = 0 /\ r.tail = 0
  BY RestFields, <1>3 DEF ConsumerType
<1>5. r \in ConsumerType
  BY RestFields, <1>2, <1>3 DEF ConsumerType
<1>6. Is(c, r)
  BY <1>3 DEF try_dequeue
<1>7. con' \in [Consumers -> ConsumerType] /\ con'[c] = r
          /\ \A d \in Consumers \ {c} : con'[d] = con[d]
  BY <1>1, <1>5, <1>6, ConStep
<1>8. UNCHANGED <<producers, blocks, used, pool>> /\ UNCHANGED <<qvars, thr, failures>>
  BY DEF try_dequeue, qvars
<1>9. TypeOK'
  BY <1>7, <1>8 DEF TypeOK, qvars
<1>10. ConOnly(c)
  BY <1>7, <1>8 DEF ConOnly, qvars
<1> QED BY <1>1, <1>4, <1>7, <1>8, <1>9, <1>10

\* The first half of size_approx.
LEMMA LoadSizeTailStep ==
  ASSUME TypeOK, Placed, NEW c \in team, loadSizeTail(c)
  PROVE  /\ TypeOK' /\ ConOnly(c) /\ UNCHANGED <<producers, blocks, used, pool>>
         /\ c \in Consumers /\ con[c].at = "look" /\ con[c].p \in DOMAIN producers
         /\ con'[c].at = "size" /\ con'[c].tail = from(c).tail
         /\ con'[c].saw = con[c].saw /\ con'[c].p = con[c].p /\ con'[c].n = con[c].n
         /\ con'[c].best = con[c].best /\ con'[c].size = con[c].size
         /\ con'[c].left = con[c].left
<1>1. c \in Consumers /\ con[c] \in ConsumerType /\ con[c].at = "look"
  BY DEF TypeOK, loadSizeTail, ConAt
<1>2. con[c].p \in DOMAIN producers
  <2>1. con[c].p > 0
    BY DEF loadSizeTail
  <2>2. con[c].p <= Len(producers)
    BY <1>1 DEF Placed, PlacedAt
  <2>3. con[c].p \in Nat
    BY <1>1 DEF ConsumerType
  <2>4. DOMAIN producers = 1 .. Len(producers)
    BY DEF TypeOK
  <2> QED BY <2>1, <2>2, <2>3, <2>4
<1>3. producers[con[c].p] \in ProducerType
  BY <1>2 DEF TypeOK
<1>4. from(c).tail \in Nat
  BY <1>3 DEF ProducerType, from
<1>5. PICK r : r = [con[c] EXCEPT !.at = "size", !.tail = from(c).tail]
  OBVIOUS
<1>6. /\ r.at = "size" /\ r.tail = from(c).tail
      /\ r.saw = con[c].saw /\ r.p = con[c].p /\ r.n = con[c].n
      /\ r.best = con[c].best /\ r.size = con[c].size /\ r.left = con[c].left
  BY <1>1, <1>5 DEF ConsumerType
<1>7. r \in ConsumerType
  BY <1>1, <1>4, <1>5 DEF ConsumerType
<1>8. Is(c, r)
  BY <1>5 DEF loadSizeTail
<1>9. con' \in [Consumers -> ConsumerType] /\ con'[c] = r
          /\ \A d \in Consumers \ {c} : con'[d] = con[d]
  BY <1>1, <1>7, <1>8, ConStep
<1>10. UNCHANGED <<producers, blocks, used, pool>> /\ UNCHANGED <<qvars, thr, failures>>
  BY DEF loadSizeTail, qvars
<1>11. TypeOK'
  BY <1>9, <1>10 DEF TypeOK, qvars
<1>12. ConOnly(c)
  BY <1>9, <1>10 DEF ConOnly, qvars
<1> QED BY <1>1, <1>2, <1>6, <1>9, <1>10, <1>11, <1>12

\* The second half of size_approx; the biggest so far is kept.
LEMMA LoadSizeHeadStep ==
  ASSUME TypeOK, Placed, NEW c \in team, loadSizeHead(c)
  PROVE  /\ TypeOK' /\ ConOnly(c) /\ UNCHANGED <<producers, blocks, used, pool>>
         /\ c \in Consumers /\ con[c].at = "size" /\ con[c].p \in DOMAIN producers
         /\ con'[c].at = "look" /\ con'[c].p = con[c].p - 1
         /\ con'[c].tail = 0 /\ con'[c].n
                = (IF con[c].tail - from(c).head > 0 THEN con[c].n + 1 ELSE con[c].n)
         /\ con'[c].best = (IF con[c].tail - from(c).head > con[c].size THEN con[c].p ELSE con[c].best) /\ con'[c].size = (IF con[c].tail - from(c).head > con[c].size THEN con[c].tail - from(c).head ELSE con[c].size)
         /\ con'[c].saw = con[c].saw /\ con'[c].left = con[c].left
<1>1. c \in Consumers /\ con[c] \in ConsumerType /\ con[c].at = "size"
  BY DEF TypeOK, loadSizeHead, ConAt
<1>2. con[c].p \in DOMAIN producers
  BY <1>1 DEF Placed, PlacedAt, AtProducer
<1>3. producers[con[c].p] \in ProducerType
  BY <1>2 DEF TypeOK
<1>4. from(c).head \in Nat
  BY <1>3 DEF ProducerType, from
<1>5. con[c].p - 1 \in Nat /\ con[c].p \in Nat
  BY <1>1, <1>2 DEF TypeOK
<1>6. con[c].tail \in Nat /\ con[c].size \in Nat /\ con[c].n \in Nat /\ con[c].best \in Nat
  BY <1>1 DEF ConsumerType
<1>7. (IF con[c].tail - from(c).head > con[c].size THEN con[c].tail - from(c).head ELSE con[c].size) \in Nat
  BY <1>4, <1>6
<1>8. (IF con[c].tail - from(c).head > con[c].size THEN con[c].p ELSE con[c].best) \in Nat
  BY <1>5, <1>6
<1>9. (IF con[c].tail - from(c).head > 0 THEN con[c].n + 1 ELSE con[c].n) \in Nat
  BY <1>6
<1>10. PICK r : r = [con[c] EXCEPT !.at = "look", !.p = con[c].p - 1, !.tail = 0,
           !.n = (IF con[c].tail - from(c).head > 0 THEN con[c].n + 1 ELSE con[c].n),
               !.best = (IF con[c].tail - from(c).head > con[c].size THEN con[c].p ELSE con[c].best), !.size = (IF con[c].tail - from(c).head > con[c].size THEN con[c].tail - from(c).head ELSE con[c].size)]
  OBVIOUS
<1>11. /\ r.at = "look" /\ r.p = con[c].p - 1
      /\ r.tail = 0 /\ r.n = (IF con[c].tail - from(c).head > 0 THEN con[c].n + 1 ELSE con[c].n)
      /\ r.best = (IF con[c].tail - from(c).head > con[c].size THEN con[c].p ELSE con[c].best)
             /\ r.size = (IF con[c].tail - from(c).head > con[c].size THEN con[c].tail - from(c).head ELSE con[c].size)
      /\ r.saw = con[c].saw /\ r.left = con[c].left
  BY <1>1, <1>10 DEF ConsumerType
<1>12. r \in ConsumerType
  BY <1>1, <1>4, <1>5, <1>6, <1>7, <1>8, <1>9, <1>10 DEF ConsumerType
<1>13. Is(c, r)
  BY <1>10 DEF loadSizeHead
<1>14. con' \in [Consumers -> ConsumerType] /\ con'[c] = r
           /\ \A d \in Consumers \ {c} : con'[d] = con[d]
  BY <1>1, <1>12, <1>13, ConStep
<1>15. UNCHANGED <<producers, blocks, used, pool>> /\ UNCHANGED <<qvars, thr, failures>>
  BY DEF loadSizeHead, qvars
<1>16. TypeOK'
  BY <1>14, <1>15 DEF TypeOK, qvars
<1>17. ConOnly(c)
  BY <1>14, <1>15 DEF ConOnly, qvars
<1> QED BY <1>1, <1>2, <1>11, <1>14, <1>15, <1>16, <1>17

\* Some looked non-empty: dequeue from the best.
LEMMA TryBestStep ==
  ASSUME TypeOK, Placed, NEW c \in team, tryBest(c), con[c].n > 0
  PROVE  /\ TypeOK' /\ ConOnly(c) /\ UNCHANGED <<producers, blocks, used, pool>>
         /\ c \in Consumers /\ con[c].at = "look"
         /\ con'[c].at = "dequeue" /\ con'[c].saw = con[c].saw
         /\ con'[c].p = con[c].best /\ con'[c].best = con[c].best
         /\ con'[c].left = NotYet
         /\ con'[c].tail = 0 /\ con'[c].overcommit = 0 /\ con'[c].count = 0
<1>1. c \in Consumers /\ con[c] \in ConsumerType /\ con[c].at = "look"
  BY DEF TypeOK, tryBest, ConAt
<1>2. con[c].saw \in {"no", "empty", "some"} /\ con[c].best \in Nat
  BY <1>1 DEF ConsumerType
<1>3. NotYet \in Int
  BY DEF NotYet
<1>4. PICK r : r = [AtRest EXCEPT !.at = "dequeue", !.saw = con[c].saw, !.p = con[c].best,
          !.best = con[c].best, !.left = NotYet]
  OBVIOUS
<1>5. /\ r.at = "dequeue" /\ r.saw = con[c].saw
      /\ r.p = con[c].best /\ r.best = con[c].best
      /\ r.left = NotYet
      /\ r.tail = 0 /\ r.overcommit = 0 /\ r.count = 0
  BY RestFields, <1>4 DEF ConsumerType
<1>6. r \in ConsumerType
  BY RestFields, <1>2, <1>3, <1>4 DEF ConsumerType
<1>7. Is(c, r)
  BY <1>4 DEF tryBest, Try
<1>8. con' \in [Consumers -> ConsumerType] /\ con'[c] = r
          /\ \A d \in Consumers \ {c} : con'[d] = con[d]
  BY <1>1, <1>6, <1>7, ConStep
<1>9. UNCHANGED <<producers, blocks, used, pool>> /\ UNCHANGED <<qvars, thr, failures>>
  BY DEF tryBest, qvars
<1>10. TypeOK'
  BY <1>8, <1>9 DEF TypeOK, qvars
<1>11. ConOnly(c)
  BY <1>8, <1>9 DEF ConOnly, qvars
<1> QED BY <1>1, <1>5, <1>8, <1>9, <1>10, <1>11

\* None looked non-empty: return false.
LEMMA NoneFoundStep ==
  ASSUME TypeOK, Placed, NEW c \in team, tryBest(c), ~ (con[c].n > 0)
  PROVE  /\ TypeOK' /\ ConOnly(c) /\ UNCHANGED <<producers, blocks, used, pool>>
         /\ c \in Consumers /\ con[c].at = "look"
         /\ con'[c] = AtRest
<1>1. c \in Consumers /\ con[c] \in ConsumerType /\ con[c].at = "look"
  BY DEF TypeOK, tryBest, ConAt
<1>2. PICK r : r = AtRest
  OBVIOUS
<1>3. r \in ConsumerType
  BY <1>2, RestFields
<1>4. Is(c, r)
  BY <1>2 DEF tryBest
<1>5. con' \in [Consumers -> ConsumerType] /\ con'[c] = r
          /\ \A d \in Consumers \ {c} : con'[d] = con[d]
  BY <1>1, <1>3, <1>4, ConStep
<1>6. UNCHANGED <<producers, blocks, used, pool>> /\ UNCHANGED <<qvars, thr, failures>>
  BY DEF tryBest, qvars
<1>7. TypeOK'
  BY <1>5, <1>6 DEF TypeOK, qvars
<1>8. ConOnly(c)
  BY <1>5, <1>6 DEF ConOnly, qvars
<1> QED BY <1>1, <1>2, <1>5, <1>6, <1>7, <1>8

\* The loads of the tail and of the overcommit.
LEMMA LoadTailStep ==
  ASSUME TypeOK, Placed, NEW c \in team, loadTail(c)
  PROVE  /\ TypeOK' /\ ConOnly(c) /\ UNCHANGED <<producers, blocks, used, pool>>
         /\ c \in Consumers /\ con[c].at = "dequeue" /\ con[c].p \in DOMAIN producers
         /\ con'[c].at = "check" /\ con'[c].tail = from(c).tail
         /\ con'[c].overcommit = from(c).overcommit
         /\ con'[c].saw = con[c].saw /\ con'[c].p = con[c].p /\ con'[c].best = con[c].best
         /\ con'[c].left = con[c].left /\ con'[c].count = con[c].count
<1>1. c \in Consumers /\ con[c] \in ConsumerType /\ con[c].at = "dequeue"
  BY DEF TypeOK, loadTail, ConAt
<1>2. con[c].p \in DOMAIN producers
  BY <1>1 DEF Placed, PlacedAt, AtProducer
<1>3. producers[con[c].p] \in ProducerType
  BY <1>2 DEF TypeOK
<1>4. from(c).tail \in Nat
  BY <1>3 DEF ProducerType, from
<1>5. from(c).overcommit \in Nat
  BY <1>3 DEF ProducerType, from
<1>6. PICK r : r = [con[c] EXCEPT !.at = "check", !.tail = from(c).tail,
          !.overcommit = from(c).overcommit]
  OBVIOUS
<1>7. /\ r.at = "check" /\ r.tail = from(c).tail
      /\ r.overcommit = from(c).overcommit
      /\ r.saw = con[c].saw /\ r.p = con[c].p /\ r.best = con[c].best
      /\ r.left = con[c].left /\ r.count = con[c].count
  BY <1>1, <1>6 DEF ConsumerType
<1>8. r \in ConsumerType
  BY <1>1, <1>4, <1>5, <1>6 DEF ConsumerType
<1>9. Is(c, r)
  BY <1>6 DEF loadTail
<1>10. con' \in [Consumers -> ConsumerType] /\ con'[c] = r
           /\ \A d \in Consumers \ {c} : con'[d] = con[d]
  BY <1>1, <1>8, <1>9, ConStep
<1>11. UNCHANGED <<producers, blocks, used, pool>> /\ UNCHANGED <<qvars, thr, failures>>
  BY DEF loadTail, qvars
<1>12. TypeOK'
  BY <1>10, <1>11 DEF TypeOK, qvars
<1>13. ConOnly(c)
  BY <1>10, <1>11 DEF ConOnly, qvars
<1> QED BY <1>1, <1>2, <1>7, <1>10, <1>11, <1>12, <1>13

\* Not all is claimed: claim an index.
LEMMA SeemsLeftStep ==
  ASSUME TypeOK, Placed, NEW c \in team, loadOptimistic(c),
             from(c).optimistic - con[c].overcommit < con[c].tail
  PROVE  /\ TypeOK' /\ ConOnly(c) /\ UNCHANGED <<producers, blocks, used, pool>>
         /\ c \in Consumers /\ con[c].at = "check" /\ con[c].p \in DOMAIN producers
         /\ con'[c].at = "claim"
         /\ con'[c].saw = con[c].saw /\ con'[c].p = con[c].p /\ con'[c].best = con[c].best
         /\ con'[c].left = con[c].left /\ con'[c].tail = con[c].tail
         /\ con'[c].overcommit = con[c].overcommit
         /\ con'[c].count = con[c].count
<1>1. c \in Consumers /\ con[c] \in ConsumerType /\ con[c].at = "check"
  BY DEF TypeOK, loadOptimistic, ConAt
<1>2. con[c].p \in DOMAIN producers
  BY <1>1 DEF Placed, PlacedAt, AtProducer
<1>3. producers[con[c].p] \in ProducerType
  BY <1>2 DEF TypeOK
<1>4. PICK r : r = [con[c] EXCEPT !.at = "claim"]
  OBVIOUS
<1>5. /\ r.at = "claim"
      /\ r.saw = con[c].saw /\ r.p = con[c].p /\ r.best = con[c].best
      /\ r.left = con[c].left /\ r.tail = con[c].tail /\ r.overcommit = con[c].overcommit
      /\ r.count = con[c].count
  BY <1>1, <1>4 DEF ConsumerType
<1>6. r \in ConsumerType
  BY <1>1, <1>4 DEF ConsumerType
<1>7. Is(c, r)
  BY <1>4 DEF loadOptimistic
<1>8. con' \in [Consumers -> ConsumerType] /\ con'[c] = r
          /\ \A d \in Consumers \ {c} : con'[d] = con[d]
  BY <1>1, <1>6, <1>7, ConStep
<1>9. UNCHANGED <<producers, blocks, used, pool>> /\ UNCHANGED <<qvars, thr, failures>>
  BY DEF loadOptimistic, qvars
<1>10. TypeOK'
  BY <1>8, <1>9 DEF TypeOK, qvars
<1>11. ConOnly(c)
  BY <1>8, <1>9 DEF ConOnly, qvars
<1> QED BY <1>1, <1>2, <1>5, <1>8, <1>9, <1>10, <1>11

\* All is claimed: on to the next producer.
LEMMA AllClaimedStep ==
  ASSUME TypeOK, Placed, NEW c \in team, loadOptimistic(c),
             ~ (from(c).optimistic - con[c].overcommit < con[c].tail)
  PROVE  /\ TypeOK' /\ ConOnly(c) /\ UNCHANGED <<producers, blocks, used, pool>>
         /\ c \in Consumers /\ con[c].at = "check" /\ con[c].p \in DOMAIN producers
         /\ NextOf(c, con'[c])
<1>1. c \in Consumers /\ con[c] \in ConsumerType /\ con[c].at = "check"
  BY DEF TypeOK, loadOptimistic, ConAt
<1>2. con[c].p \in DOMAIN producers
  BY <1>1 DEF Placed, PlacedAt, AtProducer
<1>3. producers[con[c].p] \in ProducerType
  BY <1>2 DEF TypeOK
<1>4. PICK r : r = NextTry(c)
  OBVIOUS
<1>5. r \in ConsumerType /\ NextOf(c, r)
  BY <1>1, <1>4, NextTryFields
<1>6. Is(c, r)
  BY <1>4 DEF loadOptimistic
<1>7. con' \in [Consumers -> ConsumerType] /\ con'[c] = r
          /\ \A d \in Consumers \ {c} : con'[d] = con[d]
  BY <1>1, <1>5, <1>6, ConStep
<1>8. UNCHANGED <<producers, blocks, used, pool>> /\ UNCHANGED <<qvars, thr, failures>>
  BY DEF loadOptimistic, qvars
<1>9. TypeOK'
  BY <1>7, <1>8 DEF TypeOK, qvars
<1>10. ConOnly(c)
  BY <1>7, <1>8 DEF ConOnly, qvars
<1> QED BY <1>1, <1>2, <1>5, <1>7, <1>8, <1>9, <1>10

\* A claim is counted.
LEMMA ClaimStep ==
  ASSUME TypeOK, Placed, NEW c \in team, claim(c)
  PROVE  /\ TypeOK' /\ ConOnly(c) /\ UNCHANGED <<blocks, used, pool>>
         /\ c \in Consumers /\ con[c].at = "claim" /\ con[c].p \in DOMAIN producers
         /\ con'[c].at = "verify" /\ con'[c].count = from(c).optimistic
         /\ con'[c].saw = con[c].saw /\ con'[c].p = con[c].p /\ con'[c].best = con[c].best
         /\ con'[c].left = con[c].left /\ con'[c].tail = con[c].tail
         /\ con'[c].overcommit = con[c].overcommit
         /\ OnlyAt(con[c].p)
         /\ producers'[con[c].p].optimistic = from(c).optimistic + 1
         /\ producers'[con[c].p].owner = from(c).owner
         /\ producers'[con[c].p].tail = from(c).tail /\ producers'[con[c].p].head = from(c).head
         /\ producers'[con[c].p].overcommit = from(c).overcommit
         /\ producers'[con[c].p].tailBlock = from(c).tailBlock
         /\ producers'[con[c].p].indices = from(c).indices
         /\ producers'[con[c].p].entries = from(c).entries
<1>1. c \in Consumers /\ con[c] \in ConsumerType /\ con[c].at = "claim"
  BY DEF TypeOK, claim, ConAt
<1>2. con[c].p \in DOMAIN producers
  BY <1>1 DEF Placed, PlacedAt, AtProducer
<1>3. producers[con[c].p] \in ProducerType
  BY <1>2 DEF TypeOK
<1>4. from(c).optimistic \in Nat
  BY <1>3 DEF ProducerType, from
<1>5. PICK r : r = [con[c] EXCEPT !.at = "verify", !.count = from(c).optimistic]
  OBVIOUS
<1>6. /\ r.at = "verify" /\ r.count = from(c).optimistic
      /\ r.saw = con[c].saw /\ r.p = con[c].p /\ r.best = con[c].best
      /\ r.left = con[c].left /\ r.tail = con[c].tail /\ r.overcommit = con[c].overcommit
  BY <1>1, <1>5 DEF ConsumerType
<1>7. r \in ConsumerType
  BY <1>1, <1>4, <1>5 DEF ConsumerType
<1>8. Is(c, r)
  BY <1>5 DEF claim
<1>9. con' \in [Consumers -> ConsumerType] /\ con'[c] = r
          /\ \A d \in Consumers \ {c} : con'[d] = con[d]
  BY <1>1, <1>7, <1>8, ConStep
<1>10. UNCHANGED <<blocks, used, pool>> /\ UNCHANGED <<qvars, thr, failures>>
  BY DEF claim, qvars
<1>11. from(c).optimistic + 1 \in Nat
  BY <1>4
<1>12. PICK o : o = [producers[con[c].p] EXCEPT !.optimistic = from(c).optimistic + 1]
  OBVIOUS
<1>13. /\ o.optimistic = from(c).optimistic + 1 /\ o.owner = from(c).owner
       /\ o.tail = from(c).tail
      /\ o.head = from(c).head /\ o.overcommit = from(c).overcommit
      /\ o.tailBlock = from(c).tailBlock
      /\ o.indices = from(c).indices /\ o.entries = from(c).entries
  BY <1>3, <1>12 DEF ProducerType, from
<1>14. o \in ProducerType
  BY <1>3, <1>4, <1>11, <1>12 DEF ProducerType
<1>15. producers' = [producers EXCEPT ![con[c].p] = o]
  BY <1>12 DEF claim, from
<1>16. producers' \in Seq(ProducerType) /\ OnlyAt(con[c].p) /\ producers'[con[c].p] = o
  BY <1>2, <1>14, <1>15, ProducerStep
<1>17. TypeOK'
  BY <1>9, <1>10, <1>13, <1>16 DEF TypeOK, qvars
<1>18. ConOnly(c)
  BY <1>9, <1>10 DEF ConOnly, qvars
<1> QED BY <1>1, <1>2, <1>6, <1>9, <1>10, <1>17, <1>18, <1>13, <1>16

\* A claim that was true: the next index is taken.
LEMMA TakeIndexStep ==
  ASSUME TypeOK, Placed, NEW c \in team, takeIndex(c),
             con[c].count - con[c].overcommit < from(c).tail
  PROVE  /\ TypeOK' /\ ConOnly(c) /\ UNCHANGED <<blocks, used, pool>>
         /\ c \in Consumers /\ con[c].at = "verify" /\ con[c].p \in DOMAIN producers
         /\ con'[c].at = "header" /\ con'[c].saw = con[c].saw
         /\ con'[c].p = con[c].p /\ con'[c].i = from(c).head
         /\ con'[c].left = 0 /\ con'[c].h = 0 /\ con'[c].tail = 0
         /\ con'[c].entry = 0 /\ con'[c].b = NoBlock /\ con'[c].item = NoItem
         /\ OnlyAt(con[c].p)
         /\ producers'[con[c].p].head = from(c).head + 1
         /\ producers'[con[c].p].owner = from(c).owner
         /\ producers'[con[c].p].tail = from(c).tail
         /\ producers'[con[c].p].optimistic = from(c).optimistic
         /\ producers'[con[c].p].overcommit = from(c).overcommit
         /\ producers'[con[c].p].tailBlock = from(c).tailBlock
         /\ producers'[con[c].p].indices = from(c).indices
         /\ producers'[con[c].p].entries = from(c).entries
<1>1. c \in Consumers /\ con[c] \in ConsumerType /\ con[c].at = "verify"
  BY DEF TypeOK, takeIndex, ConAt
<1>2. con[c].p \in DOMAIN producers
  BY <1>1 DEF Placed, PlacedAt, AtProducer
<1>3. producers[con[c].p] \in ProducerType
  BY <1>2 DEF TypeOK
<1>4. from(c).head \in Nat
  BY <1>3 DEF ProducerType, from
<1>5. con[c].saw \in {"no", "empty", "some"} /\ con[c].p \in Nat
  BY <1>1 DEF ConsumerType
<1>6. PICK r : r = [AtRest EXCEPT !.at = "header", !.saw = con[c].saw, !.p = con[c].p,
          !.i = from(c).head]
  OBVIOUS
<1>7. /\ r.at = "header" /\ r.saw = con[c].saw
      /\ r.p = con[c].p /\ r.i = from(c).head
      /\ r.left = 0 /\ r.h = 0 /\ r.tail = 0
      /\ r.entry = 0 /\ r.b = NoBlock /\ r.item = NoItem
  BY RestFields, <1>6 DEF ConsumerType
<1>8. r \in ConsumerType
  BY RestFields, <1>4, <1>5, <1>6 DEF ConsumerType
<1>9. Is(c, r)
  BY <1>6 DEF takeIndex, Taken
<1>10. con' \in [Consumers -> ConsumerType] /\ con'[c] = r
           /\ \A d \in Consumers \ {c} : con'[d] = con[d]
  BY <1>1, <1>8, <1>9, ConStep
<1>11. UNCHANGED <<blocks, used, pool>> /\ UNCHANGED <<qvars, thr, failures>>
  BY DEF takeIndex, qvars
<1>12. from(c).head + 1 \in Nat
  BY <1>4
<1>13. PICK o : o = [producers[con[c].p] EXCEPT !.head = from(c).head + 1]
  OBVIOUS
<1>14. /\ o.head = from(c).head + 1 /\ o.owner = from(c).owner /\ o.tail = from(c).tail
      /\ o.optimistic = from(c).optimistic /\ o.overcommit = from(c).overcommit
      /\ o.tailBlock = from(c).tailBlock
      /\ o.indices = from(c).indices /\ o.entries = from(c).entries
  BY <1>3, <1>13 DEF ProducerType, from
<1>15. o \in ProducerType
  BY <1>3, <1>4, <1>12, <1>13 DEF ProducerType
<1>16. producers' = [producers EXCEPT ![con[c].p] = o]
  BY <1>13 DEF takeIndex, from
<1>17. producers' \in Seq(ProducerType) /\ OnlyAt(con[c].p) /\ producers'[con[c].p] = o
  BY <1>2, <1>15, <1>16, ProducerStep
<1>18. TypeOK'
  BY <1>10, <1>11, <1>14, <1>17 DEF TypeOK, qvars
<1>19. ConOnly(c)
  BY <1>10, <1>11 DEF ConOnly, qvars
<1> QED BY <1>1, <1>2, <1>7, <1>10, <1>11, <1>18, <1>19, <1>14, <1>17

\* A claim that was not true.
LEMMA TakeFailsStep ==
  ASSUME TypeOK, Placed, NEW c \in team, takeIndex(c),
             ~ (con[c].count - con[c].overcommit < from(c).tail)
  PROVE  /\ TypeOK' /\ ConOnly(c) /\ UNCHANGED <<producers, blocks, used, pool>>
         /\ c \in Consumers /\ con[c].at = "verify" /\ con[c].p \in DOMAIN producers
         /\ con'[c].at = "giveBack"
         /\ con'[c].saw = con[c].saw /\ con'[c].p = con[c].p /\ con'[c].best = con[c].best
         /\ con'[c].left = con[c].left /\ con'[c].tail = con[c].tail
         /\ con'[c].overcommit = con[c].overcommit
         /\ con'[c].count = con[c].count
<1>1. c \in Consumers /\ con[c] \in ConsumerType /\ con[c].at = "verify"
  BY DEF TypeOK, takeIndex, ConAt
<1>2. con[c].p \in DOMAIN producers
  BY <1>1 DEF Placed, PlacedAt, AtProducer
<1>3. producers[con[c].p] \in ProducerType
  BY <1>2 DEF TypeOK
<1>4. PICK r : r = [con[c] EXCEPT !.at = "giveBack"]
  OBVIOUS
<1>5. /\ r.at = "giveBack"
      /\ r.saw = con[c].saw /\ r.p = con[c].p /\ r.best = con[c].best
      /\ r.left = con[c].left /\ r.tail = con[c].tail /\ r.overcommit = con[c].overcommit
      /\ r.count = con[c].count
  BY <1>1, <1>4 DEF ConsumerType
<1>6. r \in ConsumerType
  BY <1>1, <1>4 DEF ConsumerType
<1>7. Is(c, r)
  BY <1>4 DEF takeIndex
<1>8. con' \in [Consumers -> ConsumerType] /\ con'[c] = r
          /\ \A d \in Consumers \ {c} : con'[d] = con[d]
  BY <1>1, <1>6, <1>7, ConStep
<1>9. UNCHANGED <<producers, blocks, used, pool>> /\ UNCHANGED <<qvars, thr, failures>>
  BY DEF takeIndex, qvars
<1>10. TypeOK'
  BY <1>8, <1>9 DEF TypeOK, qvars
<1>11. ConOnly(c)
  BY <1>8, <1>9 DEF ConOnly, qvars
<1> QED BY <1>1, <1>2, <1>5, <1>8, <1>9, <1>10, <1>11

\* A claim is given back, and the next producer tried.
LEMMA GiveBackStep ==
  ASSUME TypeOK, Placed, NEW c \in team, giveBack(c)
  PROVE  /\ TypeOK' /\ ConOnly(c) /\ UNCHANGED <<blocks, used, pool>>
         /\ c \in Consumers /\ con[c].at = "giveBack" /\ con[c].p \in DOMAIN producers
         /\ NextOf(c, con'[c])
         /\ OnlyAt(con[c].p)
         /\ producers'[con[c].p].overcommit = from(c).overcommit + 1
         /\ producers'[con[c].p].owner = from(c).owner
         /\ producers'[con[c].p].tail = from(c).tail /\ producers'[con[c].p].head = from(c).head
         /\ producers'[con[c].p].optimistic = from(c).optimistic
         /\ producers'[con[c].p].tailBlock = from(c).tailBlock
         /\ producers'[con[c].p].indices = from(c).indices
         /\ producers'[con[c].p].entries = from(c).entries
<1>1. c \in Consumers /\ con[c] \in ConsumerType /\ con[c].at = "giveBack"
  BY DEF TypeOK, giveBack, ConAt
<1>2. con[c].p \in DOMAIN producers
  BY <1>1 DEF Placed, PlacedAt, AtProducer
<1>3. producers[con[c].p] \in ProducerType
  BY <1>2 DEF TypeOK
<1>4. from(c).overcommit \in Nat
  BY <1>3 DEF ProducerType, from
<1>5. PICK r : r = NextTry(c)
  OBVIOUS
<1>6. r \in ConsumerType /\ NextOf(c, r)
  BY <1>1, <1>5, NextTryFields
<1>7. Is(c, r)
  BY <1>5 DEF giveBack
<1>8. con' \in [Consumers -> ConsumerType] /\ con'[c] = r
          /\ \A d \in Consumers \ {c} : con'[d] = con[d]
  BY <1>1, <1>6, <1>7, ConStep
<1>9. UNCHANGED <<blocks, used, pool>> /\ UNCHANGED <<qvars, thr, failures>>
  BY DEF giveBack, qvars
<1>10. from(c).overcommit + 1 \in Nat
  BY <1>4
<1>11. PICK o : o = [producers[con[c].p] EXCEPT !.overcommit = from(c).overcommit + 1]
  OBVIOUS
<1>12. /\ o.overcommit = from(c).overcommit + 1 /\ o.owner = from(c).owner
       /\ o.tail = from(c).tail
      /\ o.head = from(c).head /\ o.optimistic = from(c).optimistic
      /\ o.tailBlock = from(c).tailBlock
      /\ o.indices = from(c).indices /\ o.entries = from(c).entries
  BY <1>3, <1>11 DEF ProducerType, from
<1>13. o \in ProducerType
  BY <1>3, <1>4, <1>10, <1>11 DEF ProducerType
<1>14. producers' = [producers EXCEPT ![con[c].p] = o]
  BY <1>11 DEF giveBack, from
<1>15. producers' \in Seq(ProducerType) /\ OnlyAt(con[c].p) /\ producers'[con[c].p] = o
  BY <1>2, <1>13, <1>14, ProducerStep
<1>16. TypeOK'
  BY <1>8, <1>9, <1>12, <1>15 DEF TypeOK, qvars
<1>17. ConOnly(c)
  BY <1>8, <1>9 DEF ConOnly, qvars
<1> QED BY <1>1, <1>2, <1>6, <1>8, <1>9, <1>16, <1>17, <1>12, <1>15

\* The load of the current block index.
LEMMA LoadIndexStep ==
  ASSUME TypeOK, Placed, NEW c \in team, loadIndex(c)
  PROVE  /\ TypeOK' /\ ConOnly(c) /\ UNCHANGED <<producers, blocks, used, pool>>
         /\ c \in Consumers /\ con[c].at = "header" /\ con[c].p \in DOMAIN producers
         /\ con'[c].at = "tail" /\ con'[c].h = Len(from(c).indices)
         /\ con'[c].saw = con[c].saw /\ con'[c].p = con[c].p /\ con'[c].left = con[c].left
         /\ con'[c].i = con[c].i /\ con'[c].tail = con[c].tail /\ con'[c].entry = con[c].entry
         /\ con'[c].b = con[c].b /\ con'[c].item = con[c].item
<1>1. c \in Consumers /\ con[c] \in ConsumerType /\ con[c].at = "header"
  BY DEF TypeOK, loadIndex, ConAt
<1>2. con[c].p \in DOMAIN producers
  BY <1>1 DEF Placed, PlacedAt, AtProducer
<1>3. producers[con[c].p] \in ProducerType
  BY <1>2 DEF TypeOK
<1>4. Len(from(c).indices) \in Nat
  BY <1>3 DEF ProducerType, from
<1>5. PICK r : r = [con[c] EXCEPT !.at = "tail", !.h = Len(from(c).indices)]
  OBVIOUS
<1>6. /\ r.at = "tail" /\ r.h = Len(from(c).indices)
      /\ r.saw = con[c].saw /\ r.p = con[c].p /\ r.left = con[c].left
      /\ r.i = con[c].i /\ r.tail = con[c].tail /\ r.entry = con[c].entry
      /\ r.b = con[c].b /\ r.item = con[c].item
  BY <1>1, <1>5 DEF ConsumerType
<1>7. r \in ConsumerType
  BY <1>1, <1>4, <1>5 DEF ConsumerType
<1>8. Is(c, r)
  BY <1>5 DEF loadIndex
<1>9. con' \in [Consumers -> ConsumerType] /\ con'[c] = r
          /\ \A d \in Consumers \ {c} : con'[d] = con[d]
  BY <1>1, <1>7, <1>8, ConStep
<1>10. UNCHANGED <<producers, blocks, used, pool>> /\ UNCHANGED <<qvars, thr, failures>>
  BY DEF loadIndex, qvars
<1>11. TypeOK'
  BY <1>9, <1>10 DEF TypeOK, qvars
<1>12. ConOnly(c)
  BY <1>9, <1>10 DEF ConOnly, qvars
<1> QED BY <1>1, <1>2, <1>6, <1>9, <1>10, <1>11, <1>12

\* The load of its tail.
LEMMA LoadIndexTailStep ==
  ASSUME TypeOK, Placed, Searches, IndexShape, NEW c \in team, loadIndexTail(c)
  PROVE  /\ TypeOK' /\ ConOnly(c) /\ UNCHANGED <<producers, blocks, used, pool>>
         /\ c \in Consumers /\ con[c].at = "tail" /\ con[c].p \in DOMAIN producers
         /\ con[c].h \in DOMAIN from(c).indices
         /\ from(c).indices[con[c].h] \in Headers
         /\ con'[c].at = "key" /\ con'[c].tail = from(c).indices[con[c].h].tail
         /\ con'[c].saw = con[c].saw /\ con'[c].p = con[c].p /\ con'[c].left = con[c].left
         /\ con'[c].i = con[c].i /\ con'[c].h = con[c].h /\ con'[c].entry = con[c].entry
         /\ con'[c].b = con[c].b /\ con'[c].item = con[c].item
<1>1. c \in Consumers /\ con[c] \in ConsumerType /\ con[c].at = "tail"
  BY DEF TypeOK, loadIndexTail, ConAt
<1>2. con[c].p \in DOMAIN producers
  BY <1>1 DEF Placed, PlacedAt, AtProducer
<1>3. producers[con[c].p] \in ProducerType
  BY <1>2 DEF TypeOK
<1>4. /\ con[c].h \in DOMAIN from(c).indices
      /\ from(c).indices[con[c].h] \in Headers
  BY <1>1, <1>2, <1>3 DEF Searches, SearchAt, Searched, ProducerType, from
<1>5. from(c).indices[con[c].h].tail \in Nat
  BY <1>4, HeaderShape
<1>6. PICK r : r = [con[c] EXCEPT !.at = "key", !.tail = from(c).indices[con[c].h].tail]
  OBVIOUS
<1>7. /\ r.at = "key" /\ r.tail = from(c).indices[con[c].h].tail
      /\ r.saw = con[c].saw /\ r.p = con[c].p /\ r.left = con[c].left
      /\ r.i = con[c].i /\ r.h = con[c].h /\ r.entry = con[c].entry
      /\ r.b = con[c].b /\ r.item = con[c].item
  BY <1>1, <1>6 DEF ConsumerType
<1>8. r \in ConsumerType
  BY <1>1, <1>5, <1>6 DEF ConsumerType
<1>9. Is(c, r)
  BY <1>6 DEF loadIndexTail
<1>10. con' \in [Consumers -> ConsumerType] /\ con'[c] = r
           /\ \A d \in Consumers \ {c} : con'[d] = con[d]
  BY <1>1, <1>8, <1>9, ConStep
<1>11. UNCHANGED <<producers, blocks, used, pool>> /\ UNCHANGED <<qvars, thr, failures>>
  BY DEF loadIndexTail, qvars
<1>12. TypeOK'
  BY <1>10, <1>11 DEF TypeOK, qvars
<1>13. ConOnly(c)
  BY <1>10, <1>11 DEF ConOnly, qvars
<1> QED BY <1>1, <1>2, <1>4, <1>7, <1>10, <1>11, <1>12, <1>13

\* Where get_block_index_entry_for_index says the entry of index i is: from position
\* x of block index h of producer p, as many back as there are blocks between.
EntryFor(p, h, x, i) ==
  h.index[(x - ((KeyOf(p, h.index[x]) - Base(i)) \div BlockSize)) % CapacityOf(h)]

\* The key there says how far back the entry of the index is.
LEMMA LoadKeyStep ==
  ASSUME TypeOK, Placed, Searches, IndexShape, NEW c \in team, loadKey(c)
  PROVE  /\ TypeOK' /\ ConOnly(c) /\ UNCHANGED <<producers, blocks, used, pool>>
         /\ c \in Consumers /\ con[c].at = "key" /\ con[c].p \in DOMAIN producers
         /\ con[c].h \in DOMAIN from(c).indices
         /\ from(c).indices[con[c].h] \in Headers
         /\ con[c].tail \in DOMAIN from(c).indices[con[c].h].index
         /\ con'[c].at = "move" /\ con'[c].h = 0
         /\ con'[c].tail = 0 /\ con'[c].entry
                = EntryFor(con[c].p, from(c).indices[con[c].h], con[c].tail, con[c].i)
         /\ con'[c].saw = con[c].saw /\ con'[c].p = con[c].p /\ con'[c].left = con[c].left
         /\ con'[c].i = con[c].i /\ con'[c].b = con[c].b /\ con'[c].item = con[c].item
<1>1. c \in Consumers /\ con[c] \in ConsumerType /\ con[c].at = "key"
  BY DEF TypeOK, loadKey, ConAt
<1>2. con[c].p \in DOMAIN producers
  BY <1>1 DEF Placed, PlacedAt, AtProducer
<1>3. producers[con[c].p] \in ProducerType
  BY <1>2 DEF TypeOK
<1>4. /\ con[c].h \in DOMAIN from(c).indices
      /\ from(c).indices[con[c].h] \in Headers
      /\ con[c].tail \in DOMAIN from(c).indices[con[c].h].index
  BY <1>1, <1>2, <1>3 DEF Searches, SearchAt, Searched, ProducerType, from
<1>5. PICK h \in Headers : h = from(c).indices[con[c].h]
  BY <1>4
<1>6. CapacityOf(h) \in Nat \ {0} /\ DOMAIN h.index = 0 .. CapacityOf(h) - 1
          /\ h.index \in [0 .. CapacityOf(h) - 1 -> Nat]
  BY HeaderShape
<1>7. h.index[con[c].tail] \in DOMAIN producers[con[c].p].entries
  BY <1>2, <1>4, <1>5 DEF IndexShape, ShapeAt, from
<1>8. KeyOf(con[c].p, h.index[con[c].tail]) \in Int
  <2>1. PICK e : e = h.index[con[c].tail]
    OBVIOUS
  <2>2. KeyOf(con[c].p, e) \in Int
    BY <1>2, <1>7, <2>1, EntryTyped
  <2> QED BY <2>1, <2>2
<1>9. PICK k : k = KeyOf(con[c].p, h.index[con[c].tail]) - Base(con[c].i)
  OBVIOUS
<1>10. k \in Int /\ con[c].tail \in Int
  <2>1. con[c].i \in Int /\ con[c].tail \in Int
    BY <1>1 DEF ConsumerType
  <2>2. Base(con[c].i) \in Int
    BY <2>1, BaseOf
  <2> QED BY <1>8, <1>9, <2>1, <2>2
<1>11. k \div BlockSize \in Int
  BY <1>10, QueueConstants, DivMod
<1>12. (con[c].tail - (k \div BlockSize)) % CapacityOf(h) \in 0 .. CapacityOf(h) - 1
  <2>1. con[c].tail - (k \div BlockSize) \in Int
    BY <1>10, <1>11
  <2> QED BY <1>6, <2>1, DivMod
<1>13. h.index[(con[c].tail - (k \div BlockSize)) % CapacityOf(h)] \in Nat
  BY <1>6, <1>12
<1>14. EntryFor(con[c].p, from(c).indices[con[c].h], con[c].tail, con[c].i) \in Nat
  BY <1>5, <1>9, <1>13 DEF EntryFor
<1>15. PICK r : r = [con[c] EXCEPT !.at = "move", !.h = 0, !.tail = 0,
           !.entry = EntryFor(con[c].p, from(c).indices[con[c].h], con[c].tail, con[c].i)]
  OBVIOUS
<1>16. /\ r.at = "move" /\ r.h = 0
      /\ r.tail = 0 /\ r.entry
             = EntryFor(con[c].p, from(c).indices[con[c].h], con[c].tail, con[c].i)
      /\ r.saw = con[c].saw /\ r.p = con[c].p /\ r.left = con[c].left
      /\ r.i = con[c].i /\ r.b = con[c].b /\ r.item = con[c].item
  BY <1>1, <1>15 DEF ConsumerType
<1>17. r \in ConsumerType
  BY <1>1, <1>5, <1>6, <1>7, <1>8, <1>9, <1>10, <1>11, <1>12, <1>13, <1>14, <1>15
     DEF ConsumerType
<1>18. Is(c, r)
  BY <1>15 DEF loadKey, EntryFor, KeyOf, from
<1>19. con' \in [Consumers -> ConsumerType] /\ con'[c] = r
           /\ \A d \in Consumers \ {c} : con'[d] = con[d]
  BY <1>1, <1>17, <1>18, ConStep
<1>20. UNCHANGED <<producers, blocks, used, pool>> /\ UNCHANGED <<qvars, thr, failures>>
  BY DEF loadKey, qvars
<1>21. TypeOK'
  BY <1>19, <1>20 DEF TypeOK, qvars
<1>22. ConOnly(c)
  BY <1>19, <1>20 DEF ConOnly, qvars
<1> QED BY <1>1, <1>2, <1>4, <1>16, <1>19, <1>20, <1>21, <1>22

\* The element is moved out of its block.
LEMMA MoveElementStep ==
  ASSUME TypeOK, Placed, NEW c \in team, moveElement(c), entry(c).value \in DOMAIN blocks
  PROVE  /\ TypeOK' /\ ConOnly(c) /\ UNCHANGED <<producers, used, pool>>
         /\ c \in Consumers /\ con[c].at = "move" /\ con[c].p \in DOMAIN producers
         /\ con'[c].at = "empty" /\ con'[c].b = entry(c).value
         /\ con'[c].item = blocks[entry(c).value].elements[Slot(con[c].i)]
         /\ con'[c].saw = con[c].saw /\ con'[c].p = con[c].p /\ con'[c].left = con[c].left
         /\ con'[c].i = con[c].i /\ con'[c].h = con[c].h /\ con'[c].tail = con[c].tail
         /\ con'[c].entry = con[c].entry
         /\ Len(blocks') = Len(blocks) /\ DOMAIN blocks' = DOMAIN blocks
         /\ \A b \in DOMAIN blocks \ {entry(c).value} : blocks'[b] = blocks[b]
         /\ blocks'[entry(c).value].dequeued = blocks[entry(c).value].dequeued
         /\ blocks'[entry(c).value].elements
                = [blocks[entry(c).value].elements EXCEPT ![Slot(con[c].i)] = NoItem]
<1>1. c \in Consumers /\ con[c] \in ConsumerType /\ con[c].at = "move"
  BY DEF TypeOK, moveElement, ConAt
<1>2. con[c].p \in DOMAIN producers
  BY <1>1 DEF Placed, PlacedAt, AtProducer
<1>3. producers[con[c].p] \in ProducerType
  BY <1>2 DEF TypeOK
<1>4. blocks[entry(c).value] \in Blocks
  BY DEF TypeOK
<1>5. Slot(con[c].i) \in 0 .. BlockSize - 1
  <2>1. con[c].i \in Int
    BY <1>1 DEF ConsumerType
  <2> QED BY <2>1, BaseOf
<1>6. blocks[entry(c).value].elements[Slot(con[c].i)] \in Items
  BY <1>4, <1>5 DEF Blocks
<1>7. entry(c).value \in Nat
  <2>1. DOMAIN blocks = 1 .. Len(blocks) /\ Len(blocks) \in Nat
    BY DEF TypeOK
  <2> QED BY <2>1
<1>8. PICK r : r = [con[c] EXCEPT !.at = "empty", !.b = entry(c).value,
          !.item = blocks[entry(c).value].elements[Slot(con[c].i)]]
  OBVIOUS
<1>9. /\ r.at = "empty" /\ r.b = entry(c).value
      /\ r.item = blocks[entry(c).value].elements[Slot(con[c].i)]
      /\ r.saw = con[c].saw /\ r.p = con[c].p /\ r.left = con[c].left
      /\ r.i = con[c].i /\ r.h = con[c].h /\ r.tail = con[c].tail
      /\ r.entry = con[c].entry
  BY <1>1, <1>8 DEF ConsumerType
<1>10. r \in ConsumerType
  BY <1>1, <1>4, <1>5, <1>6, <1>7, <1>8 DEF ConsumerType
<1>11. Is(c, r)
  BY <1>8 DEF moveElement
<1>12. con' \in [Consumers -> ConsumerType] /\ con'[c] = r
           /\ \A d \in Consumers \ {c} : con'[d] = con[d]
  BY <1>1, <1>10, <1>11, ConStep
<1>13. UNCHANGED <<producers, used, pool>> /\ UNCHANGED <<qvars, thr, failures>>
  BY DEF moveElement, qvars
<1>14. entry(c).value \in DOMAIN blocks
  OBVIOUS
<1>15. blocks[entry(c).value] \in Blocks
  BY <1>14 DEF TypeOK
<1>16. NoItem \in Items
  BY DEF NoItem, Items
<1>17. PICK o : o = [blocks[entry(c).value] EXCEPT !.elements[Slot(con[c].i)] = NoItem]
  OBVIOUS
<1>18. o.dequeued = blocks[entry(c).value].dequeued
  BY <1>15, <1>17 DEF Blocks
<1>19. o.elements = [blocks[entry(c).value].elements EXCEPT ![Slot(con[c].i)] = NoItem]
  BY <1>15, <1>17 DEF Blocks
<1>20. PICK en : en = [blocks[entry(c).value].elements EXCEPT ![Slot(con[c].i)] = NoItem]
  OBVIOUS
<1>21. en \in [0 .. BlockSize - 1 -> Items]
  BY <1>15, <1>16, <1>5, <1>20 DEF Blocks
<1>22. o = [blocks[entry(c).value] EXCEPT !.elements = en]
  BY <1>15, <1>17, <1>20 DEF Blocks
<1>23. o \in Blocks
  BY <1>15, <1>21, <1>22 DEF Blocks
<1>24. blocks' = [blocks EXCEPT ![entry(c).value] = o]
  BY <1>17 DEF moveElement
<1>25. /\ blocks' \in Seq(Blocks) /\ Len(blocks') = Len(blocks)
       /\ DOMAIN blocks' = DOMAIN blocks
      /\ blocks'[entry(c).value] = o
             /\ \A b \in DOMAIN blocks \ {entry(c).value} : blocks'[b] = blocks[b]
  BY <1>14, <1>23, <1>24 DEF TypeOK
<1>26. TypeOK'
  BY <1>12, <1>13, <1>18, <1>19, <1>25 DEF TypeOK, qvars
<1>27. ConOnly(c)
  BY <1>12, <1>13 DEF ConOnly, qvars
<1> QED BY <1>1, <1>2, <1>9, <1>12, <1>13, <1>26, <1>27, <1>18, <1>19, <1>25

\* Not the last to leave the block: return true.
LEMMA LeaveBlockStep ==
  ASSUME TypeOK, Placed, NEW c \in team, set_empty(c), con[c].b \in DOMAIN blocks,
             blocks[con[c].b].dequeued # BlockSize - 1
  PROVE  /\ TypeOK' /\ ConOnly(c) /\ UNCHANGED <<producers, used, pool>>
         /\ c \in Consumers /\ con[c].at = "empty" /\ con[c].p \in DOMAIN producers
         /\ con'[c] = AtRest
         /\ Len(blocks') = Len(blocks) /\ DOMAIN blocks' = DOMAIN blocks
         /\ \A b \in DOMAIN blocks \ {con[c].b} : blocks'[b] = blocks[b]
         /\ blocks'[con[c].b].elements = blocks[con[c].b].elements
         /\ blocks'[con[c].b].dequeued = blocks[con[c].b].dequeued + 1
<1>1. c \in Consumers /\ con[c] \in ConsumerType /\ con[c].at = "empty"
  BY DEF TypeOK, set_empty, ConAt
<1>2. con[c].p \in DOMAIN producers
  BY <1>1 DEF Placed, PlacedAt, AtProducer
<1>3. producers[con[c].p] \in ProducerType
  BY <1>2 DEF TypeOK
<1>4. PICK r : r = AtRest
  OBVIOUS
<1>5. r \in ConsumerType
  BY <1>4, RestFields
<1>6. Is(c, r)
  BY <1>4 DEF set_empty
<1>7. con' \in [Consumers -> ConsumerType] /\ con'[c] = r
          /\ \A d \in Consumers \ {c} : con'[d] = con[d]
  BY <1>1, <1>5, <1>6, ConStep
<1>8. UNCHANGED <<producers, used, pool>> /\ UNCHANGED <<qvars, thr, failures>>
  BY DEF set_empty, qvars
<1>9. con[c].b \in DOMAIN blocks
  OBVIOUS
<1>10. blocks[con[c].b] \in Blocks
  BY <1>9 DEF TypeOK
<1>11. blocks[con[c].b].dequeued + 1 \in Nat
  BY <1>10 DEF Blocks
<1>12. PICK o : o = [blocks[con[c].b] EXCEPT !.dequeued = blocks[con[c].b].dequeued + 1]
  OBVIOUS
<1>13. o.elements = blocks[con[c].b].elements
  BY <1>10, <1>12 DEF Blocks
<1>14. o.dequeued = blocks[con[c].b].dequeued + 1
  BY <1>10, <1>12 DEF Blocks
<1>15. o \in Blocks
  BY <1>10, <1>11, <1>12 DEF Blocks
<1>16. blocks' = [blocks EXCEPT ![con[c].b] = o]
  BY <1>12 DEF set_empty
<1>17. /\ blocks' \in Seq(Blocks) /\ Len(blocks') = Len(blocks)
       /\ DOMAIN blocks' = DOMAIN blocks
      /\ blocks'[con[c].b] = o /\ \A b \in DOMAIN blocks \ {con[c].b} : blocks'[b] = blocks[b]
  BY <1>9, <1>15, <1>16 DEF TypeOK
<1>18. TypeOK'
  BY <1>7, <1>8, <1>13, <1>14, <1>17 DEF TypeOK, qvars
<1>19. ConOnly(c)
  BY <1>7, <1>8 DEF ConOnly, qvars
<1> QED BY <1>1, <1>2, <1>4, <1>7, <1>8, <1>18, <1>19, <1>13, <1>14, <1>17

\* The last to leave the block goes on to free it.
LEMMA LastToLeaveStep ==
  ASSUME TypeOK, Placed, NEW c \in team, set_empty(c), con[c].b \in DOMAIN blocks,
             blocks[con[c].b].dequeued = BlockSize - 1
  PROVE  /\ TypeOK' /\ ConOnly(c) /\ UNCHANGED <<producers, used, pool>>
         /\ c \in Consumers /\ con[c].at = "empty" /\ con[c].p \in DOMAIN producers
         /\ con'[c].at = "clear"
         /\ con'[c].saw = con[c].saw /\ con'[c].p = con[c].p /\ con'[c].left = con[c].left
         /\ con'[c].i = con[c].i /\ con'[c].h = con[c].h /\ con'[c].tail = con[c].tail
         /\ con'[c].entry = con[c].entry /\ con'[c].b = con[c].b /\ con'[c].item = con[c].item
         /\ Len(blocks') = Len(blocks) /\ DOMAIN blocks' = DOMAIN blocks
         /\ \A b \in DOMAIN blocks \ {con[c].b} : blocks'[b] = blocks[b]
         /\ blocks'[con[c].b].elements = blocks[con[c].b].elements
         /\ blocks'[con[c].b].dequeued = blocks[con[c].b].dequeued + 1
<1>1. c \in Consumers /\ con[c] \in ConsumerType /\ con[c].at = "empty"
  BY DEF TypeOK, set_empty, ConAt
<1>2. con[c].p \in DOMAIN producers
  BY <1>1 DEF Placed, PlacedAt, AtProducer
<1>3. producers[con[c].p] \in ProducerType
  BY <1>2 DEF TypeOK
<1>4. PICK r : r = [con[c] EXCEPT !.at = "clear"]
  OBVIOUS
<1>5. /\ r.at = "clear"
      /\ r.saw = con[c].saw /\ r.p = con[c].p /\ r.left = con[c].left
      /\ r.i = con[c].i /\ r.h = con[c].h /\ r.tail = con[c].tail
      /\ r.entry = con[c].entry /\ r.b = con[c].b /\ r.item = con[c].item
  BY <1>1, <1>4 DEF ConsumerType
<1>6. r \in ConsumerType
  BY <1>1, <1>4 DEF ConsumerType
<1>7. Is(c, r)
  BY <1>4 DEF set_empty
<1>8. con' \in [Consumers -> ConsumerType] /\ con'[c] = r
          /\ \A d \in Consumers \ {c} : con'[d] = con[d]
  BY <1>1, <1>6, <1>7, ConStep
<1>9. UNCHANGED <<producers, used, pool>> /\ UNCHANGED <<qvars, thr, failures>>
  BY DEF set_empty, qvars
<1>10. con[c].b \in DOMAIN blocks
  OBVIOUS
<1>11. blocks[con[c].b] \in Blocks
  BY <1>10 DEF TypeOK
<1>12. blocks[con[c].b].dequeued + 1 \in Nat
  BY <1>11 DEF Blocks
<1>13. PICK o : o = [blocks[con[c].b] EXCEPT !.dequeued = blocks[con[c].b].dequeued + 1]
  OBVIOUS
<1>14. o.elements = blocks[con[c].b].elements
  BY <1>11, <1>13 DEF Blocks
<1>15. o.dequeued = blocks[con[c].b].dequeued + 1
  BY <1>11, <1>13 DEF Blocks
<1>16. o \in Blocks
  BY <1>11, <1>12, <1>13 DEF Blocks
<1>17. blocks' = [blocks EXCEPT ![con[c].b] = o]
  BY <1>13 DEF set_empty
<1>18. /\ blocks' \in Seq(Blocks) /\ Len(blocks') = Len(blocks)
       /\ DOMAIN blocks' = DOMAIN blocks
      /\ blocks'[con[c].b] = o /\ \A b \in DOMAIN blocks \ {con[c].b} : blocks'[b] = blocks[b]
  BY <1>10, <1>16, <1>17 DEF TypeOK
<1>19. TypeOK'
  BY <1>8, <1>9, <1>14, <1>15, <1>18 DEF TypeOK, qvars
<1>20. ConOnly(c)
  BY <1>8, <1>9 DEF ConOnly, qvars
<1> QED BY <1>1, <1>2, <1>5, <1>8, <1>9, <1>19, <1>20, <1>14, <1>15, <1>18

\* The entry of the block that is empty no longer leads to it.
LEMMA ClearEntryStep ==
  ASSUME TypeOK, Placed, Searches, IndexShape, NEW c \in team, clearEntry(c)
  PROVE  /\ TypeOK' /\ ConOnly(c) /\ UNCHANGED <<blocks, used, pool>>
         /\ c \in Consumers /\ con[c].at = "clear" /\ con[c].p \in DOMAIN producers
         /\ con[c].entry \in DOMAIN from(c).entries
         /\ con'[c].at = "free"
         /\ con'[c].saw = con[c].saw /\ con'[c].p = con[c].p /\ con'[c].left = con[c].left
         /\ con'[c].i = con[c].i /\ con'[c].h = con[c].h /\ con'[c].tail = con[c].tail
         /\ con'[c].entry = con[c].entry /\ con'[c].b = con[c].b /\ con'[c].item = con[c].item
         /\ OnlyAt(con[c].p)
         /\ producers'[con[c].p].owner = from(c).owner
         /\ producers'[con[c].p].tail = from(c).tail
         /\ producers'[con[c].p].head = from(c).head
         /\ producers'[con[c].p].optimistic = from(c).optimistic
         /\ producers'[con[c].p].overcommit = from(c).overcommit
         /\ producers'[con[c].p].tailBlock = from(c).tailBlock
         /\ producers'[con[c].p].indices = from(c).indices
         /\ DOMAIN producers'[con[c].p].entries = DOMAIN from(c).entries
         /\ producers'[con[c].p].entries[con[c].entry].value = NoBlock
         /\ producers'[con[c].p].entries[con[c].entry].key = from(c).entries[con[c].entry].key
         /\ \A e \in DOMAIN from(c).entries \ {con[c].entry} :
              producers'[con[c].p].entries[e] = from(c).entries[e]
<1>1. c \in Consumers /\ con[c] \in ConsumerType /\ con[c].at = "clear"
  BY DEF TypeOK, clearEntry, ConAt
<1>2. con[c].p \in DOMAIN producers
  BY <1>1 DEF Placed, PlacedAt, AtProducer
<1>3. producers[con[c].p] \in ProducerType
  BY <1>2 DEF TypeOK
<1>4. con[c].entry \in DOMAIN from(c).entries
  BY <1>1, <1>2 DEF Searches, SearchAt, Searched, from
<1>5. PICK r : r = [con[c] EXCEPT !.at = "free"]
  OBVIOUS
<1>6. /\ r.at = "free"
      /\ r.saw = con[c].saw /\ r.p = con[c].p /\ r.left = con[c].left
      /\ r.i = con[c].i /\ r.h = con[c].h /\ r.tail = con[c].tail
      /\ r.entry = con[c].entry /\ r.b = con[c].b /\ r.item = con[c].item
  BY <1>1, <1>5 DEF ConsumerType
<1>7. r \in ConsumerType
  BY <1>1, <1>5 DEF ConsumerType
<1>8. Is(c, r)
  BY <1>5 DEF clearEntry
<1>9. con' \in [Consumers -> ConsumerType] /\ con'[c] = r
          /\ \A d \in Consumers \ {c} : con'[d] = con[d]
  BY <1>1, <1>7, <1>8, ConStep
<1>10. UNCHANGED <<blocks, used, pool>> /\ UNCHANGED <<qvars, thr, failures>>
  BY DEF clearEntry, qvars
<1>11. PICK o : o = [producers[con[c].p] EXCEPT !.entries[con[c].entry].value = NoBlock]
  OBVIOUS
<1>12. /\ o.owner = from(c).owner /\ o.tail = from(c).tail /\ o.head = from(c).head
      /\ o.optimistic = from(c).optimistic /\ o.overcommit = from(c).overcommit
      /\ o.tailBlock = from(c).tailBlock
      /\ o.indices = from(c).indices
  BY <1>3, <1>11 DEF ProducerType, from
<1>13. PICK en : en = [from(c).entries EXCEPT ![con[c].entry].value = NoBlock]
  OBVIOUS
<1>14. from(c).entries \in Seq(Entries) /\ NoBlock \in Nat
  BY <1>3 DEF ProducerType, from, NoBlock
<1>15. /\ en \in Seq(Entries) /\ DOMAIN en = DOMAIN from(c).entries
       /\ Len(en) = Len(from(c).entries)
      /\ en[con[c].entry].value = NoBlock
      /\ en[con[c].entry].key = from(c).entries[con[c].entry].key
      /\ \A e \in DOMAIN from(c).entries \ {con[c].entry} : en[e] = from(c).entries[e]
  BY <1>4, <1>13, <1>14, ValueStep
<1>16. o = [producers[con[c].p] EXCEPT !.entries = en]
  BY <1>3, <1>11, <1>13 DEF ProducerType, from
<1>17. o.entries = en
  BY <1>3, <1>16 DEF ProducerType
<1>18. o \in ProducerType
  BY <1>3, <1>15, <1>16 DEF ProducerType
<1>19. producers' = [producers EXCEPT ![con[c].p] = o]
  BY <1>11 DEF clearEntry, from
<1>20. producers' \in Seq(ProducerType) /\ OnlyAt(con[c].p) /\ producers'[con[c].p] = o
  BY <1>2, <1>18, <1>19, ProducerStep
<1>21. TypeOK'
  BY <1>9, <1>10, <1>12, <1>20, <1>15, <1>17 DEF TypeOK, qvars
<1>22. ConOnly(c)
  BY <1>9, <1>10 DEF ConOnly, qvars
<1> QED BY <1>1, <1>2, <1>4, <1>6, <1>9, <1>10, <1>21, <1>22, <1>12, <1>20, <1>15, <1>17

\* The block goes to the free list.
LEMMA FreeBlockStep ==
  ASSUME TypeOK, Placed, NEW c \in team, freeBlock(c)
  PROVE  /\ TypeOK' /\ ConOnly(c) /\ UNCHANGED <<producers, blocks, used>>
         /\ c \in Consumers /\ con[c].at = "free" /\ con[c].p \in DOMAIN producers
         /\ con'[c] = AtRest
         /\ pool' = pool \union {con[c].b}
<1>1. c \in Consumers /\ con[c] \in ConsumerType /\ con[c].at = "free"
  BY DEF TypeOK, freeBlock, ConAt
<1>2. con[c].p \in DOMAIN producers
  BY <1>1 DEF Placed, PlacedAt, AtProducer
<1>3. producers[con[c].p] \in ProducerType
  BY <1>2 DEF TypeOK
<1>4. PICK r : r = AtRest
  OBVIOUS
<1>5. r \in ConsumerType
  BY <1>4, RestFields
<1>6. Is(c, r)
  BY <1>4 DEF freeBlock
<1>7. con' \in [Consumers -> ConsumerType] /\ con'[c] = r
          /\ \A d \in Consumers \ {c} : con'[d] = con[d]
  BY <1>1, <1>5, <1>6, ConStep
<1>8. UNCHANGED <<producers, blocks, used>> /\ UNCHANGED <<qvars, thr, failures>>
  BY DEF freeBlock, qvars
<1>9. pool' = pool \union {con[c].b} /\ con[c].b \in Nat
  BY <1>1 DEF freeBlock, ConsumerType
<1>10. TypeOK'
  BY <1>7, <1>8, <1>9 DEF TypeOK, qvars
<1>11. ConOnly(c)
  BY <1>7, <1>8 DEF ConOnly, qvars
<1> QED BY <1>1, <1>2, <1>4, <1>7, <1>8, <1>10, <1>11, <1>9
-----------------------------------------------------------------------------
(* The steps of a thread through the hash of producers.                    *)

\* Where the search for a thread looks first, second, ... : at each slot once.
LEMMA SlotsCovered ==
  ASSUME TypeOK, NEW i \in DOMAIN tables, NEW t \in Threads
  PROVE  /\ \A k \in Int : SlotOf(i, t, k) \in DOMAIN tables[i]
         /\ \A s \in DOMAIN tables[i] : \E k \in 0 .. Capacity(i) - 1 : SlotOf(i, t, k) = s
         /\ \A k, m \in 0 .. Capacity(i) - 1 : SlotOf(i, t, k) = SlotOf(i, t, m) => k = m
<1>1. Capacity(i) \in Nat \ {0} /\ DOMAIN tables[i] = 0 .. Capacity(i) - 1
  BY TableShape
<1>2. PICK n \in Nat \ {0}, h \in Int : n = Capacity(i) /\ h = hash_thread_id[t]
  BY <1>1, HashConstants
<1>3. ASSUME NEW k \in Int PROVE SlotOf(i, t, k) \in DOMAIN tables[i]
  <2>1. (h + k) % n \in 0 .. n - 1
    BY DivMod
  <2> QED BY <1>1, <1>2, <2>1 DEF SlotOf
<1>4. ASSUME NEW s \in DOMAIN tables[i]
      PROVE \E k \in 0 .. Capacity(i) - 1 : SlotOf(i, t, k) = s
  <2>1. s \in 0 .. n - 1 /\ s \in Int
    BY <1>1, <1>2
  <2>2. PICK x \in Int : x = s - h
    BY <2>1
  <2>3. PICK k \in 0 .. n - 1 : k = x % n
    BY DivMod
  <2>4. ((x % n) + h) % n = (x + h) % n
    BY ModAdd
  <2>5. x + h = s /\ s % n = s /\ k + h = h + k
    BY <2>1, <2>2, SmallMod
  <2>6. (h + k) % n = s
    BY <2>3, <2>4, <2>5
  <2> QED BY <1>2, <2>6 DEF SlotOf
<1>5. ASSUME NEW k \in 0 .. Capacity(i) - 1, NEW m \in 0 .. Capacity(i) - 1,
             SlotOf(i, t, k) = SlotOf(i, t, m)
      PROVE  k = m
  BY <1>2, <1>5, RingApart DEF SlotOf
<1> QED BY <1>3, <1>4, <1>5

\* The first slot with one of some keys is such a slot, and none before it is.
LEMMA FirstSlotFound ==
  ASSUME TypeOK, NEW i \in DOMAIN tables, NEW t \in Threads, NEW keys,
         NEW s \in DOMAIN tables[i], tables[i][s].key \in keys
  PROVE  \E k \in 0 .. Capacity(i) - 1 :
           /\ FirstSlot(tables[i], t, keys) = SlotOf(i, t, k)
           /\ tables[i][SlotOf(i, t, k)].key \in keys
           /\ \A m \in 0 .. k - 1 : tables[i][SlotOf(i, t, m)].key \notin keys
<1>1. PICK n \in Nat \ {0} : n = Capacity(i)
  BY TableShape
<1>2. PICK S \in SUBSET Nat : S = {k \in 0 .. n - 1 : tables[i][SlotOf(i, t, k)].key \in keys}
  <2>1. \A k \in 0 .. n - 1 : k \in Nat
    OBVIOUS
  <2> QED BY <2>1
<1>3. \E k \in 0 .. n - 1 : SlotOf(i, t, k) = s
  BY <1>1, SlotsCovered
<1>4. S # {}
  BY <1>2, <1>3
<1>5. PICK k : k = Min(S)
  OBVIOUS
<1>6. k \in S /\ \A m \in S : k <= m
  BY <1>4, <1>5, MinInSet
<1>7. FirstSlot(tables[i], t, keys) = SlotOf(i, t, k)
  BY <1>1, <1>2, <1>5 DEF FirstSlot, SlotOf, Capacity
<1>8. k \in 0 .. n - 1 /\ tables[i][SlotOf(i, t, k)].key \in keys
  BY <1>2, <1>6
<1>9. ASSUME NEW m \in 0 .. k - 1 PROVE tables[i][SlotOf(i, t, m)].key \notin keys
  <2>1. m \in 0 .. n - 1 /\ ~ (k <= m)
    BY <1>8
  <2> QED BY <1>2, <1>6, <2>1
<1> QED BY <1>1, <1>7, <1>8, <1>9

\* The search for a thread that is in a table ends at its key.
LEMMA ProbeFinds ==
  ASSUME TypeOK, Reachable, NEW i \in DOMAIN tables, NEW t \in Threads, InTable(t, i)
  PROVE  Probe(tables[i], t) \in DOMAIN tables[i] /\ tables[i][Probe(tables[i], t)].key = t
<1>1. PICK k \in 0 .. Capacity(i) - 1 :
        /\ tables[i][SlotOf(i, t, k)].key = t
        /\ \A m \in 0 .. k - 1 : tables[i][SlotOf(i, t, m)].key \notin {t, NoThread}
  BY DEF Reachable
<1>2. Capacity(i) \in Nat
  BY TableShape
<1>3. SlotOf(i, t, k) \in DOMAIN tables[i]
  BY <1>2, SlotsCovered
<1>4. PICK l \in 0 .. Capacity(i) - 1 :
        /\ FirstSlot(tables[i], t, {t, NoThread}) = SlotOf(i, t, l)
        /\ tables[i][SlotOf(i, t, l)].key \in {t, NoThread}
        /\ \A m \in 0 .. l - 1 : tables[i][SlotOf(i, t, m)].key \notin {t, NoThread}
  BY <1>1, <1>3, FirstSlotFound
<1>5. ~ (k < l) /\ ~ (l < k)
  BY <1>1, <1>2, <1>4
<1>6. k = l
  BY <1>2, <1>5
<1> QED BY <1>1, <1>3, <1>4, <1>6 DEF Probe

\* The search for one that is not ends at a free slot, if there is one.
LEMMA ProbeMisses ==
  ASSUME TypeOK, FreeSlots, NEW i \in DOMAIN tables, NEW t \in Threads, ~ InTable(t, i)
  PROVE  tables[i][Probe(tables[i], t)].key # t
<1>1. PICK s \in DOMAIN tables[i] : tables[i][s].key = NoThread
  BY DEF FreeSlots
<1>2. tables[i][s].key \in {t, NoThread}
  BY <1>1
<1>3. PICK k \in 0 .. Capacity(i) - 1 : FirstSlot(tables[i], t, {t, NoThread}) = SlotOf(i, t, k)
  BY <1>2, FirstSlotFound
<1>4. Capacity(i) \in Nat
  BY TableShape
<1>5. SlotOf(i, t, k) \in DOMAIN tables[i]
  BY <1>4, SlotsCovered
<1> QED BY <1>3, <1>5 DEF Probe, InTable

\* What inserting a thread finds.
LEMMA FreeSlotFound ==
  ASSUME TypeOK, FreeSlots, NEW i \in DOMAIN tables, NEW t \in Threads
  PROVE  \E k \in 0 .. Capacity(i) - 1 :
           /\ FirstSlot(tables[i], t, {NoThread}) = SlotOf(i, t, k)
           /\ SlotOf(i, t, k) \in DOMAIN tables[i]
           /\ tables[i][SlotOf(i, t, k)].key = NoThread
           /\ \A m \in 0 .. k - 1 : tables[i][SlotOf(i, t, m)].key # NoThread
<1>1. PICK s \in DOMAIN tables[i] : tables[i][s].key = NoThread
  BY DEF FreeSlots
<1>2. PICK k \in 0 .. Capacity(i) - 1 :
        /\ FirstSlot(tables[i], t, {NoThread}) = SlotOf(i, t, k)
        /\ tables[i][SlotOf(i, t, k)].key \in {NoThread}
        /\ \A m \in 0 .. k - 1 : tables[i][SlotOf(i, t, m)].key \notin {NoThread}
  BY <1>1, FirstSlotFound
<1>3. Capacity(i) \in Nat
  BY TableShape
<1>4. SlotOf(i, t, k) \in DOMAIN tables[i]
  BY <1>3, SlotsCovered
<1> QED BY <1>2, <1>4

\* A table holds fewer threads than it has slots, because those that a count lets in
\* are no more than it (concurrentqueue.h:3229).
LEMMA TablesHaveFreeSlots == TypeOK /\ TablesGrow /\ SlotsSound /\ Crowds => FreeSlots
<1> SUFFICES ASSUME TypeOK, SlotsSound, Crowds, NEW i \in DOMAIN tables,
                    ~ \E s \in DOMAIN tables[i] : tables[i][s].key = NoThread
             PROVE  FALSE
  BY DEF FreeSlots
<1>1. Capacity(i) \in Nat \ {0} /\ DOMAIN tables[i] = 0 .. Capacity(i) - 1
      /\ tables[i] \in [0 .. Capacity(i) - 1 -> Slots]
  BY TableShape
<1>2. PICK cap \in Nat \ {0} : cap = Capacity(i)
  BY <1>1
<1>3. /\ cap \div 2 \in Nat /\ cap \div 4 \in Nat
      /\ 4 * ((cap \div 2) + (cap \div 4)) <= 3 * cap
  OBVIOUS
<1>4. PICK n \in Nat : n < cap /\ Limit(i) <= n + 1
  <2>1. Limit(i) \in Nat /\ Limit(i) <= cap
    BY <1>2, <1>3 DEF Limit
  <2>2. cap - 1 \in Nat /\ cap - 1 < cap /\ Limit(i) <= (cap - 1) + 1
    BY <2>1
  <2> QED BY <2>2
<1>5. \A s \in DOMAIN tables[i] : tables[i][s].key \in Early(n)
  <2>1. \A s \in DOMAIN tables[i] : tables[i][s].key \in Threads
    BY <1>1 DEF Slots
  <2> QED BY <1>4, <2>1 DEF Early, InTable
<1>6. Cardinality(Early(n)) <= n
  BY DEF Crowds
<1>7. PICK S : S = DOMAIN tables[i]
  OBVIOUS
<1>8. IsFiniteSet(S) /\ Cardinality(S) = cap
  <2>1. 0 \in Int /\ cap - 1 \in Int /\ S = 0 .. cap - 1
    BY <1>1, <1>2, <1>7
  <2>2. IsFiniteSet(0 .. cap - 1)
            /\ Cardinality(0 .. cap - 1) = IF 0 > cap - 1 THEN 0 ELSE (cap - 1) - 0 + 1
    BY <2>1, FS_Interval
  <2> QED BY <2>1, <2>2
<1>9. PICK T : T = Early(n)
  OBVIOUS
<1>10. IsFiniteSet(T) /\ Cardinality(T) \in Nat /\ Cardinality(T) < Cardinality(S)
  <2>1. T \in SUBSET Threads
    BY <1>9 DEF Early
  <2>2. IsFiniteSet(T)
    BY <2>1, HashConstants, FS_Subset
  <2>3. Cardinality(T) \in Nat
    BY <2>2, FS_CardinalityType
  <2> QED BY <1>4, <1>6, <1>8, <1>9, <2>2, <2>3
<1>11. PICK f : f = [s \in S |-> tables[i][s].key]
  OBVIOUS
<1>12. f \in [S -> T]
  BY <1>5, <1>7, <1>9, <1>11
<1>13. PICK x \in S, y \in S : x # y /\ f[x] = f[y]
  BY <1>8, <1>10, <1>12, FS_PigeonHole
<1> QED BY <1>7, <1>11, <1>13 DEF SlotsSound

\* Thread t has taken the first free slot of table m for producer v.
SlotTaken(m, t, v) ==
  /\ tables' \in Seq(Tables) /\ DOMAIN tables' = DOMAIN tables
  /\ \A i \in DOMAIN tables : DOMAIN tables'[i] = DOMAIN tables[i] /\ Capacity(i)' = Capacity(i)
  /\ \A i \in DOMAIN tables \ {m} : tables'[i] = tables[i]
  /\ \E k \in 0 .. Capacity(m) - 1 :
       /\ SlotOf(m, t, k) \in DOMAIN tables[m]
       /\ tables[m][SlotOf(m, t, k)].key = NoThread
       /\ \A j \in 0 .. k - 1 : tables[m][SlotOf(m, t, j)].key # NoThread
       /\ tables'[m][SlotOf(m, t, k)].key = t /\ tables'[m][SlotOf(m, t, k)].value = v
       /\ \A s \in DOMAIN tables[m] \ {SlotOf(m, t, k)} : tables'[m][s] = tables[m][s]

\* A thread that claims a slot gets the first free one from its hash on (moveToMain,
\* insertProducer).
LEMMA ClaimSlot ==
  ASSUME TypeOK, FreeSlots, NEW t \in Threads, NEW m \in DOMAIN tables, NEW v \in Nat,
         tables' = [tables EXCEPT ![m] = Claimed(@, t, v)]
  PROVE  SlotTaken(m, t, v)
<1>1. PICK k \in 0 .. Capacity(m) - 1 :
        /\ FirstSlot(tables[m], t, {NoThread}) = SlotOf(m, t, k)
        /\ SlotOf(m, t, k) \in DOMAIN tables[m]
        /\ tables[m][SlotOf(m, t, k)].key = NoThread
        /\ \A j \in 0 .. k - 1 : tables[m][SlotOf(m, t, j)].key # NoThread
  BY FreeSlotFound
<1>2. PICK s : s = SlotOf(m, t, k)
  OBVIOUS
<1>3. PICK o : o = [key |-> t, value |-> v]
  OBVIOUS
<1>4. o \in Slots /\ o.key = t /\ o.value = v
  BY <1>3 DEF Slots
<1>5. PICK n \in Nat \ {0} : tables[m] \in [0 .. n - 1 -> Slots]
  BY TableShape
<1>6. PICK T : T = [tables[m] EXCEPT ![s] = o]
  OBVIOUS
<1>7. /\ T \in [0 .. n - 1 -> Slots] /\ DOMAIN T = DOMAIN tables[m] /\ T[s] = o
      /\ \A r \in DOMAIN tables[m] \ {s} : T[r] = tables[m][r]
  BY <1>1, <1>2, <1>4, <1>5, <1>6
<1>8. T \in Tables
  BY <1>7 DEF Tables
<1>9. tables' = [tables EXCEPT ![m] = T]
  BY <1>1, <1>2, <1>3, <1>6 DEF Claimed
<1>10. /\ tables' \in Seq(Tables) /\ DOMAIN tables' = DOMAIN tables /\ tables'[m] = T
       /\ \A i \in DOMAIN tables \ {m} : tables'[i] = tables[i]
  BY <1>8, <1>9 DEF TypeOK
<1>11. \A i \in DOMAIN tables : DOMAIN tables'[i] = DOMAIN tables[i]
  BY <1>7, <1>10
<1>12. \A i \in DOMAIN tables : Capacity(i)' = Capacity(i)
  BY <1>11 DEF Capacity
<1> QED BY <1>1, <1>2, <1>4, <1>7, <1>10, <1>11, <1>12 DEF SlotTaken

\* A table of n slots that are free has been added.
TableAdded(n) ==
  /\ tables' \in Seq(Tables) /\ Len(tables') = Len(tables) + 1
  /\ \A i \in DOMAIN tables : i \in DOMAIN tables' /\ tables'[i] = tables[i]
         /\ Capacity(i)' = Capacity(i)
  /\ \A i \in DOMAIN tables' : i \in DOMAIN tables \/ i = Len(tables) + 1
  /\ \A i : i = Len(tables) + 1 =>
       /\ i \in DOMAIN tables' /\ i \notin DOMAIN tables
       /\ Capacity(i)' = n /\ DOMAIN tables'[i] = 0 .. n - 1
       /\ \A s \in 0 .. n - 1 : tables'[i][s].key = NoThread

\* The table that resize adds is the last one, and empty.
LEMMA AddTable ==
  ASSUME TypeOK, NEW n \in Nat \ {0}, tables' = Append(tables, EmptyTable(n))
  PROVE  TableAdded(n)
<1>1. PICK o : o = [key |-> NoThread, value |-> NoProducer]
  OBVIOUS
<1>2. o \in Slots /\ o.key = NoThread
  BY <1>1 DEF Slots, NoProducer
<1>3. PICK T : T = [i \in 0 .. n - 1 |-> o]
  OBVIOUS
<1>4. T \in Tables /\ DOMAIN T = 0 .. n - 1 /\ \A s \in 0 .. n - 1 : T[s].key = NoThread
  BY <1>2, <1>3 DEF Tables
<1>5. tables' = Append(tables, T)
  BY <1>1, <1>3 DEF EmptyTable
<1>6. tables \in Seq(Tables) /\ Len(tables) \in Nat /\ DOMAIN tables = 1 .. Len(tables)
  BY DEF TypeOK
<1>7. /\ tables' \in Seq(Tables) /\ Len(tables') = Len(tables) + 1
      /\ tables'[Len(tables) + 1] = T
      /\ \A i \in DOMAIN tables : tables'[i] = tables[i]
  BY <1>4, <1>5, <1>6
<1>8. DOMAIN tables' = 1 .. Len(tables) + 1
  BY <1>7
<1>9. \A i \in DOMAIN tables : i \in DOMAIN tables' /\ tables'[i] = tables[i]
          /\ Capacity(i)' = Capacity(i)
  BY <1>6, <1>7, <1>8 DEF Capacity
<1>10. Cardinality(0 .. n - 1) = n
  <2>1. 0 \in Int /\ n - 1 \in Int
    OBVIOUS
  <2>2. Cardinality(0 .. n - 1) = IF 0 > n - 1 THEN 0 ELSE (n - 1) - 0 + 1
    BY <2>1, FS_Interval
  <2> QED BY <2>2
<1>11. ASSUME NEW i, i = Len(tables) + 1
       PROVE  /\ i \in DOMAIN tables' /\ i \notin DOMAIN tables
              /\ Capacity(i)' = n /\ DOMAIN tables'[i] = 0 .. n - 1
              /\ \A s \in 0 .. n - 1 : tables'[i][s].key = NoThread
  <2>1. tables'[i] = T
    BY <1>7, <1>11
  <2>2. i \in DOMAIN tables' /\ i \notin DOMAIN tables
    BY <1>6, <1>8, <1>11
  <2> QED BY <1>4, <1>10, <2>1, <2>2 DEF Capacity
<1>12. \A i \in DOMAIN tables' : i \in DOMAIN tables \/ i = Len(tables) + 1
  BY <1>6, <1>8
<1> QED BY <1>4, <1>7, <1>9, <1>11, <1>12 DEF TableAdded
\* A thread begins to enqueue.
LEMMA EnqueueStep ==
  ASSUME TypeOK, NEW t \in Threads, enqueue(t)
  PROVE  /\ TypeOK' /\ ThrOnly(t)
         /\ UNCHANGED <<tables, hashCount, resizing, failures, producers, blocks, used, pool>>
         /\ thr[t].at = "idle"
         /\ thr'[t].at = "find" /\ thr'[t].producer = NoProducer /\ thr'[t].sent = thr[t].sent
         /\ thr'[t].main = thr[t].main /\ thr'[t].count = thr[t].count
         /\ thr'[t].block = thr[t].block
<1>1. thr[t] \in ThreadType /\ thr[t].at = "idle"
  BY DEF TypeOK, enqueue, ThrAt
<1>2. thr[t].left - 1 \in Nat
  BY <1>1 DEF enqueue, ThreadType
<1>3. NoProducer \in Nat
  BY DEF NoProducer
<1>4. PICK r : r = [thr[t] EXCEPT !.at = "find", !.left = thr[t].left - 1,
          !.producer = NoProducer]
  OBVIOUS
<1>5. /\ r.at = "find" /\ r.producer = NoProducer /\ r.sent = thr[t].sent
      /\ r.main = thr[t].main /\ r.count = thr[t].count /\ r.block = thr[t].block
  BY <1>1, <1>4 DEF ThreadType
<1>6. r \in ThreadType
  BY <1>1, <1>2, <1>3, <1>4 DEF ThreadType
<1>7. Now(t, r)
  BY <1>4 DEF enqueue
<1>8. thr' \in [Threads -> ThreadType] /\ thr'[t] = r
          /\ \A u \in Threads \ {t} : thr'[u] = thr[u]
  BY <1>6, <1>7, ThrStep
<1>9. UNCHANGED <<tables, hashCount, resizing, failures, producers, blocks, used, pool>>
  BY DEF enqueue, qvars, hvars
<1>10. UNCHANGED <<team, con>>
  BY DEF enqueue, qvars, hvars
<1>11. TypeOK' /\ ThrOnly(t)
  BY <1>8, <1>9, <1>10 DEF TypeOK, ThrOnly
<1> QED BY <1>1, <1>5, <1>8, <1>9, <1>10, <1>11

\* The tables the search for a thread finds it in, and what it reads there.
LEMMA TablesSearched ==
  ASSUME TypeOK, HashInv, FreeSlots, NEW t \in Threads
  PROVE  /\ {i \in DOMAIN tables : tables[i][Probe(tables[i], t)].key = t}
                = {i \in DOMAIN tables : InTable(t, i)}
         /\ \A i \in DOMAIN tables : InTable(t, i) =>
              /\ tables[i][Probe(tables[i], t)].value \in DOMAIN producers
              /\ producers[tables[i][Probe(tables[i], t)].value].owner = t
<1>1. ASSUME NEW i \in DOMAIN tables, InTable(t, i)
      PROVE  /\ tables[i][Probe(tables[i], t)].key = t
             /\ tables[i][Probe(tables[i], t)].value \in DOMAIN producers
             /\ producers[tables[i][Probe(tables[i], t)].value].owner = t
  <2>1. PICK s \in DOMAIN tables[i] : s = Probe(tables[i], t) /\ tables[i][s].key = t
    BY <1>1, ProbeFinds DEF HashInv
  <2>2. t # NoThread
    BY HashConstants
  <2>3. tables[i][s].value \in DOMAIN producers
            /\ producers[tables[i][s].value].owner = tables[i][s].key
    BY <2>1, <2>2 DEF HashInv, SlotsSound
  <2> QED BY <2>1, <2>3
<1>2. ASSUME NEW i \in DOMAIN tables, ~ InTable(t, i)
      PROVE tables[i][Probe(tables[i], t)].key # t
  BY <1>2, ProbeMisses
<1> QED BY <1>1, <1>2

\* findProducer ends with the producer of the thread, or where no table has one.
LEMMA FindProducerStep ==
  ASSUME TypeOK, HashInv, FreeSlots, NEW t \in Threads, findProducer(t),
             UNCHANGED <<team, blocks, used, pool, con>>
  PROVE  /\ TypeOK' /\ ThrOnly(t)
         /\ UNCHANGED <<tables, hashCount, resizing, failures, producers>>
         /\ thr[t].at = "find" /\ thr'[t].sent = thr[t].sent /\ thr'[t].block = thr[t].block
         /\ \/ /\ thr'[t].at = "add" /\ thr'[t].main = Len(tables)
               /\ \A i \in DOMAIN tables : ~ InTable(t, i)
            \/ /\ thr'[t].at \in {"enqueue", "move"}
               /\ thr'[t].producer \in DOMAIN producers /\ producers[thr'[t].producer].owner = t
               /\ thr'[t].at = "move" =>
                      /\ thr'[t].main = Len(tables) /\ ~ InTable(t, Len(tables))
                                         /\ \E j \in DOMAIN tables : j < Len(tables)
                                                /\ InTable(t, j)
<1>1. thr[t] \in ThreadType /\ thr[t].at = "find"
  BY DEF TypeOK, findProducer, ThrAt
<1>2. PICK found : found = {i \in DOMAIN tables : tables[i][Probe(tables[i], t)].key = t}
  OBVIOUS
<1>3. found = {i \in DOMAIN tables : InTable(t, i)}
  BY <1>2, TablesSearched
<1>4. PICK main : main = Len(tables)
  OBVIOUS
<1>5. main \in DOMAIN tables /\ DOMAIN tables = 1 .. main /\ main \in Nat
  BY <1>4 DEF TypeOK, HashInv, TablesGrow
<1>6. UNCHANGED <<tables, hashCount, resizing, failures, producers>>
  BY DEF findProducer, hvars
<1>7. CASE found = {}
  <2>1. PICK r : r = [thr[t] EXCEPT !.at = "add", !.main = main]
    OBVIOUS
  <2>2. r.at = "add" /\ r.main = main /\ r.sent = thr[t].sent /\ r.block = thr[t].block
    BY <1>1, <2>1 DEF ThreadType
  <2>3. r \in ThreadType
    BY <1>1, <1>5, <2>1 DEF ThreadType
  <2>4. Now(t, r)
    BY <1>2, <1>4, <1>7, <2>1 DEF findProducer
  <2>5. thr' \in [Threads -> ThreadType] /\ thr'[t] = r
            /\ \A u \in Threads \ {t} : thr'[u] = thr[u]
    BY <2>3, <2>4, ThrStep
  <2>6. TypeOK' /\ ThrOnly(t)
    BY <1>6, <2>5 DEF TypeOK, ThrOnly
  <2>7. \A i \in DOMAIN tables : ~ InTable(t, i)
    BY <1>3, <1>7
  <2> QED BY <1>1, <1>4, <1>6, <2>2, <2>5, <2>6, <2>7
<1>8. CASE found # {}
  <2>1. PICK i : i = Max(found)
    OBVIOUS
  <2>2. i \in found /\ \A j \in found : j <= i
    <3>1. found \in SUBSET (1 .. main)
      BY <1>3, <1>5
    <3> QED BY <1>5, <1>8, <2>1, <3>1, MaxInSet
  <2>3. i \in DOMAIN tables /\ InTable(t, i)
    BY <1>3, <2>2
  <2>4. PICK p : p = tables[i][Probe(tables[i], t)].value
    OBVIOUS
  <2>5. p \in DOMAIN producers /\ producers[p].owner = t
    BY <2>3, <2>4, TablesSearched
  <2>6. p \in Nat
    BY <2>5 DEF TypeOK
  <2>7. CASE i = main
    <3>1. PICK r : r = [thr[t] EXCEPT !.at = "enqueue", !.main = 0, !.count = 0, !.producer = p]
      OBVIOUS
    <3>2. r.at = "enqueue" /\ r.producer = p /\ r.sent = thr[t].sent /\ r.block = thr[t].block
      BY <1>1, <3>1 DEF ThreadType
    <3>3. r \in ThreadType
      BY <1>1, <2>6, <3>1 DEF ThreadType
    <3>4. Now(t, r)
      BY <1>2, <1>4, <1>8, <2>1, <2>4, <2>7, <3>1 DEF findProducer, EnqueueTo
    <3>5. thr' \in [Threads -> ThreadType] /\ thr'[t] = r
              /\ \A u \in Threads \ {t} : thr'[u] = thr[u]
      BY <3>3, <3>4, ThrStep
    <3>6. TypeOK' /\ ThrOnly(t)
      BY <1>6, <3>5 DEF TypeOK, ThrOnly
    <3> QED BY <1>1, <1>6, <2>5, <3>2, <3>5, <3>6
  <2>8. CASE i # main
    <3>1. PICK r : r = [thr[t] EXCEPT !.at = "move", !.main = main, !.producer = p]
      OBVIOUS
    <3>2. r.at = "move" /\ r.producer = p /\ r.main = main /\ r.sent = thr[t].sent
              /\ r.block = thr[t].block
      BY <1>1, <3>1 DEF ThreadType
    <3>3. r \in ThreadType
      BY <1>1, <1>5, <2>6, <3>1 DEF ThreadType
    <3>4. Now(t, r)
      BY <1>2, <1>4, <1>8, <2>1, <2>4, <2>8, <3>1 DEF findProducer
    <3>5. thr' \in [Threads -> ThreadType] /\ thr'[t] = r
              /\ \A u \in Threads \ {t} : thr'[u] = thr[u]
      BY <3>3, <3>4, ThrStep
    <3>6. TypeOK' /\ ThrOnly(t)
      BY <1>6, <3>5 DEF TypeOK, ThrOnly
    <3>7. i < main
      BY <1>5, <2>3, <2>8
    <3>8. main \notin found
      BY <1>5, <2>2, <2>3, <3>7
    <3>9. ~ InTable(t, main)
      BY <1>3, <1>5, <3>8
    <3> QED BY <1>1, <1>4, <1>6, <2>3, <2>5, <3>2, <3>5, <3>6, <3>7, <3>9
  <2> QED BY <2>7, <2>8
<1> QED BY <1>7, <1>8

\* The producer of a thread is added to the main table.
LEMMA MoveToMainStep ==
  ASSUME TypeOK, ThreadsSound, FreeSlots, NEW t \in Threads, moveToMain(t),
             UNCHANGED <<team, blocks, used, pool, con>>
  PROVE  /\ TypeOK' /\ ThrOnly(t) /\ UNCHANGED <<hashCount, resizing, failures, producers>>
         /\ thr[t].at = "move"
         /\ thr'[t].at = "enqueue" /\ thr'[t].main = 0 /\ thr'[t].count = 0
         /\ thr'[t].producer = thr[t].producer /\ thr'[t].sent = thr[t].sent
         /\ thr'[t].block = thr[t].block
         /\ thr[t].main \in DOMAIN tables /\ SlotTaken(thr[t].main, t, thr[t].producer)
<1>1. thr[t] \in ThreadType /\ thr[t].at = "move"
  BY DEF TypeOK, moveToMain, ThrAt
<1>2. PICK r : r = [thr[t] EXCEPT !.at = "enqueue", !.main = 0, !.count = 0,
          !.producer = thr[t].producer]
  OBVIOUS
<1>3. /\ r.at = "enqueue" /\ r.main = 0 /\ r.count = 0
      /\ r.producer = thr[t].producer /\ r.sent = thr[t].sent /\ r.block = thr[t].block
  BY <1>1, <1>2 DEF ThreadType
<1>4. r \in ThreadType
  BY <1>1, <1>2 DEF ThreadType
<1>5. Now(t, r)
  BY <1>2 DEF moveToMain, EnqueueTo
<1>6. thr' \in [Threads -> ThreadType] /\ thr'[t] = r
          /\ \A u \in Threads \ {t} : thr'[u] = thr[u]
  BY <1>4, <1>5, ThrStep
<1>7. UNCHANGED <<hashCount, resizing, failures, producers>>
  BY DEF moveToMain, qvars, hvars, EnqueueTo
<1>8. thr[t].main \in DOMAIN tables /\ thr[t].producer \in Nat
  BY <1>1 DEF ThreadsSound, ThreadSound, Joining, ThreadType
<1>9. tables' = [tables EXCEPT ![thr[t].main] = Claimed(@, t, thr[t].producer)]
  BY DEF moveToMain
<1>10. SlotTaken(thr[t].main, t, thr[t].producer)
  BY <1>8, <1>9, ClaimSlot
<1>11. tables' \in Seq(Tables)
  BY <1>10 DEF SlotTaken
<1>12. TypeOK' /\ ThrOnly(t)
  BY <1>6, <1>7, <1>8, <1>10, <1>11 DEF TypeOK, ThrOnly
<1> QED BY <1>1, <1>3, <1>6, <1>7, <1>8, <1>10, <1>11, <1>12

\* A new producer is added to the table.
LEMMA InsertProducerStep ==
  ASSUME TypeOK, ThreadsSound, FreeSlots, NEW t \in Threads, insertProducer(t),
             UNCHANGED <<team, blocks, used, pool, con>>
  PROVE  /\ TypeOK' /\ ThrOnly(t) /\ UNCHANGED <<hashCount, resizing, failures, producers>>
         /\ thr[t].at = "insert"
         /\ thr'[t].at = "enqueue" /\ thr'[t].main = 0 /\ thr'[t].count = 0
         /\ thr'[t].producer = thr[t].producer /\ thr'[t].sent = thr[t].sent
         /\ thr'[t].block = thr[t].block
         /\ thr[t].main \in DOMAIN tables /\ SlotTaken(thr[t].main, t, thr[t].producer)
<1>1. thr[t] \in ThreadType /\ thr[t].at = "insert"
  BY DEF TypeOK, insertProducer, ThrAt
<1>2. PICK r : r = [thr[t] EXCEPT !.at = "enqueue", !.main = 0, !.count = 0,
          !.producer = thr[t].producer]
  OBVIOUS
<1>3. /\ r.at = "enqueue" /\ r.main = 0 /\ r.count = 0
      /\ r.producer = thr[t].producer /\ r.sent = thr[t].sent /\ r.block = thr[t].block
  BY <1>1, <1>2 DEF ThreadType
<1>4. r \in ThreadType
  BY <1>1, <1>2 DEF ThreadType
<1>5. Now(t, r)
  BY <1>2 DEF insertProducer, EnqueueTo
<1>6. thr' \in [Threads -> ThreadType] /\ thr'[t] = r
          /\ \A u \in Threads \ {t} : thr'[u] = thr[u]
  BY <1>4, <1>5, ThrStep
<1>7. UNCHANGED <<hashCount, resizing, failures, producers>>
  BY DEF insertProducer, qvars, hvars, EnqueueTo
<1>8. thr[t].main \in DOMAIN tables /\ thr[t].producer \in Nat
  BY <1>1 DEF ThreadsSound, ThreadSound, Joining, ThreadType
<1>9. tables' = [tables EXCEPT ![thr[t].main] = Claimed(@, t, thr[t].producer)]
  BY DEF insertProducer
<1>10. SlotTaken(thr[t].main, t, thr[t].producer)
  BY <1>8, <1>9, ClaimSlot
<1>11. tables' \in Seq(Tables)
  BY <1>10 DEF SlotTaken
<1>12. TypeOK' /\ ThrOnly(t)
  BY <1>6, <1>7, <1>8, <1>10, <1>11 DEF TypeOK, ThrOnly
<1> QED BY <1>1, <1>3, <1>6, <1>7, <1>8, <1>10, <1>11, <1>12

\* A thread is counted.
LEMMA AddOneStep ==
  ASSUME TypeOK, Crowds, NEW t \in Threads, addOne(t),
             UNCHANGED <<team, blocks, used, pool, con>>
  PROVE  /\ TypeOK' /\ ThrOnly(t) /\ UNCHANGED <<tables, resizing, failures, producers>>
         /\ thr[t].at = "add"
         /\ thr'[t].at = "room" /\ thr'[t].count = hashCount + 1 /\ thr'[t].sent = thr[t].sent
         /\ thr'[t].main = thr[t].main /\ thr'[t].producer = thr[t].producer
         /\ thr'[t].block = thr[t].block
         /\ hashCount' = hashCount + 1
<1>1. thr[t] \in ThreadType /\ thr[t].at = "add"
  BY DEF TypeOK, addOne, ThrAt
<1>2. hashCount + 1 \in Nat
  <2>1. IsFiniteSet(Joined)
    <3>1. Joined \in SUBSET Threads
      BY DEF Joined
    <3> QED BY <3>1, HashConstants, FS_Subset
  <2>2. hashCount \in Nat
    BY <2>1, FS_CardinalityType DEF Crowds
  <2> QED BY <2>2
<1>3. PICK r : r = [thr[t] EXCEPT !.at = "room", !.count = hashCount + 1]
  OBVIOUS
<1>4. /\ r.at = "room" /\ r.count = hashCount + 1 /\ r.sent = thr[t].sent
      /\ r.main = thr[t].main /\ r.producer = thr[t].producer /\ r.block = thr[t].block
  BY <1>1, <1>3 DEF ThreadType
<1>5. r \in ThreadType
  BY <1>1, <1>2, <1>3 DEF ThreadType
<1>6. Now(t, r)
  BY <1>3 DEF addOne
<1>7. thr' \in [Threads -> ThreadType] /\ thr'[t] = r
          /\ \A u \in Threads \ {t} : thr'[u] = thr[u]
  BY <1>5, <1>6, ThrStep
<1>8. UNCHANGED <<tables, resizing, failures, producers>>
  BY DEF addOne, qvars, hvars
<1>9. hashCount' = hashCount + 1 /\ hashCount' \in Int
  BY DEF addOne, TypeOK
<1>10. TypeOK' /\ ThrOnly(t)
  BY <1>7, <1>8, <1>9 DEF TypeOK, ThrOnly
<1> QED BY <1>1, <1>4, <1>7, <1>8, <1>9, <1>10

\* A thread is the one to resize.
LEMMA StartResizeStep ==
  ASSUME TypeOK, NEW t \in Threads, startResize(t), UNCHANGED <<team, blocks, used, pool, con>>
  PROVE  /\ TypeOK' /\ ThrOnly(t) /\ UNCHANGED <<tables, hashCount, failures, producers>>
         /\ thr[t].at = "room"
         /\ thr'[t].at = "resize" /\ thr'[t].sent = thr[t].sent /\ thr'[t].main = thr[t].main
         /\ thr'[t].count = thr[t].count /\ thr'[t].producer = thr[t].producer
         /\ thr'[t].block = thr[t].block
<1>1. thr[t] \in ThreadType /\ thr[t].at = "room"
  BY DEF TypeOK, startResize, ThrAt
<1>2. PICK r : r = [thr[t] EXCEPT !.at = "resize"]
  OBVIOUS
<1>3. /\ r.at = "resize" /\ r.sent = thr[t].sent /\ r.main = thr[t].main
      /\ r.count = thr[t].count /\ r.producer = thr[t].producer /\ r.block = thr[t].block
  BY <1>1, <1>2 DEF ThreadType
<1>4. r \in ThreadType
  BY <1>1, <1>2 DEF ThreadType
<1>5. Now(t, r)
  BY <1>2 DEF startResize, Jump
<1>6. thr' \in [Threads -> ThreadType] /\ thr'[t] = r
          /\ \A u \in Threads \ {t} : thr'[u] = thr[u]
  BY <1>4, <1>5, ThrStep
<1>7. UNCHANGED <<tables, hashCount, failures, producers>>
  BY DEF startResize, qvars, hvars, Jump
<1>8. resizing' \in BOOLEAN
  BY DEF startResize
<1>9. TypeOK' /\ ThrOnly(t)
  BY <1>6, <1>7, <1>8 DEF TypeOK, ThrOnly
<1> QED BY <1>1, <1>3, <1>6, <1>7, <1>8, <1>9

\* The thread adds a table, a bigger one.
LEMMA ResizeStep ==
  ASSUME TypeOK, NEW t \in Threads, resize(t), TablesGrow, HalfFull(t, Len(tables)),
             UNCHANGED <<team, blocks, used, pool, con>>
  PROVE  /\ TypeOK' /\ ThrOnly(t) /\ UNCHANGED <<hashCount, resizing, failures, producers>>
         /\ thr[t].at = "resize"
         /\ thr'[t].at = "resized" /\ thr'[t].main = Len(tables) + 1
         /\ thr'[t].sent = thr[t].sent
         /\ thr'[t].count = thr[t].count /\ thr'[t].producer = thr[t].producer
         /\ thr'[t].block = thr[t].block
         /\ \E n \in Nat \ {0} : Capacity(Len(tables)) <= n /\ TableAdded(n)
<1>1. thr[t] \in ThreadType /\ thr[t].at = "resize"
  BY DEF TypeOK, resize, ThrAt
<1>2. Len(tables) + 1 \in Nat
  BY DEF TypeOK
<1>3. PICK r : r = [thr[t] EXCEPT !.at = "resized", !.main = Len(tables) + 1]
  OBVIOUS
<1>4. /\ r.at = "resized" /\ r.main = Len(tables) + 1 /\ r.sent = thr[t].sent
      /\ r.count = thr[t].count /\ r.producer = thr[t].producer /\ r.block = thr[t].block
  BY <1>1, <1>3 DEF ThreadType
<1>5. r \in ThreadType
  BY <1>1, <1>2, <1>3 DEF ThreadType
<1>6. Now(t, r)
  BY <1>3 DEF resize
<1>7. thr' \in [Threads -> ThreadType] /\ thr'[t] = r
          /\ \A u \in Threads \ {t} : thr'[u] = thr[u]
  BY <1>5, <1>6, ThrStep
<1>8. UNCHANGED <<hashCount, resizing, failures, producers>>
  BY DEF resize, qvars, hvars
<1>9. Capacity(Len(tables)) \in Nat \ {0}
  <2>1. Len(tables) \in DOMAIN tables
    BY DEF TablesGrow, TypeOK
  <2> QED BY <2>1, TableShape
<1>10. PICK n \in 2 * Capacity(Len(tables)) .. 4 * thr[t].count + 2 :
           tables' = Append(tables, EmptyTable(n))
  BY DEF resize
<1>11. n \in Nat \ {0} /\ Capacity(Len(tables)) <= n
  BY <1>9
<1>12. TableAdded(n)
  BY <1>10, <1>11, AddTable
<1>13. \E m \in Nat \ {0} : Capacity(Len(tables)) <= m /\ TableAdded(m)
  BY <1>11, <1>12
<1>14. tables' \in Seq(Tables)
  BY <1>12 DEF TableAdded
<1>15. TypeOK' /\ ThrOnly(t)
  BY <1>7, <1>8, <1>13, <1>14 DEF TypeOK, ThrOnly
<1> QED BY <1>1, <1>4, <1>7, <1>8, <1>13, <1>14, <1>15

\* Another thread has added one meanwhile.
LEMMA NoResizeStep ==
  ASSUME TypeOK, NEW t \in Threads, resize(t), ~ HalfFull(t, Len(tables)),
             UNCHANGED <<team, blocks, used, pool, con>>
  PROVE  /\ TypeOK' /\ ThrOnly(t)
         /\ UNCHANGED <<tables, hashCount, resizing, failures, producers>>
         /\ thr[t].at = "resize"
         /\ thr'[t].at = "resized" /\ thr'[t].main = Len(tables) /\ thr'[t].sent = thr[t].sent
         /\ thr'[t].count = thr[t].count /\ thr'[t].producer = thr[t].producer
         /\ thr'[t].block = thr[t].block
<1>1. thr[t] \in ThreadType /\ thr[t].at = "resize"
  BY DEF TypeOK, resize, ThrAt
<1>2. Len(tables) \in Nat
  BY DEF TypeOK
<1>3. PICK r : r = [thr[t] EXCEPT !.at = "resized", !.main = Len(tables)]
  OBVIOUS
<1>4. /\ r.at = "resized" /\ r.main = Len(tables) /\ r.sent = thr[t].sent
      /\ r.count = thr[t].count /\ r.producer = thr[t].producer /\ r.block = thr[t].block
  BY <1>1, <1>3 DEF ThreadType
<1>5. r \in ThreadType
  BY <1>1, <1>2, <1>3 DEF ThreadType
<1>6. Now(t, r)
  BY <1>3 DEF resize
<1>7. thr' \in [Threads -> ThreadType] /\ thr'[t] = r
          /\ \A u \in Threads \ {t} : thr'[u] = thr[u]
  BY <1>5, <1>6, ThrStep
<1>8. UNCHANGED <<tables, hashCount, resizing, failures, producers>>
  BY DEF resize, qvars, hvars
<1>9. TypeOK' /\ ThrOnly(t)
  BY <1>7, <1>8 DEF TypeOK, ThrOnly
<1> QED BY <1>1, <1>4, <1>7, <1>8, <1>9

\* The table cannot be allocated.
LEMMA ResizeFailsStep ==
  ASSUME TypeOK, NEW t \in Threads, resizeFails(t), UNCHANGED <<team, blocks, used, pool, con>>
  PROVE  /\ TypeOK' /\ ThrOnly(t) /\ UNCHANGED <<tables, producers>>
         /\ thr[t].at = "resize"
         /\ thr'[t].at = "idle" /\ thr'[t].main = 0 /\ thr'[t].count = 0
         /\ thr'[t].sent = thr[t].sent /\ thr'[t].producer = thr[t].producer
         /\ thr'[t].block = thr[t].block
         /\ hashCount' = hashCount - 1
<1>1. thr[t] \in ThreadType /\ thr[t].at = "resize"
  BY DEF TypeOK, resizeFails, ThrAt
<1>2. PICK r : r = [thr[t] EXCEPT !.at = "idle", !.main = 0, !.count = 0]
  OBVIOUS
<1>3. /\ r.at = "idle" /\ r.main = 0 /\ r.count = 0
      /\ r.sent = thr[t].sent /\ r.producer = thr[t].producer /\ r.block = thr[t].block
  BY <1>1, <1>2 DEF ThreadType
<1>4. r \in ThreadType
  BY <1>1, <1>2 DEF ThreadType
<1>5. Now(t, r)
  BY <1>2 DEF resizeFails, Fails
<1>6. thr' \in [Threads -> ThreadType] /\ thr'[t] = r
          /\ \A u \in Threads \ {t} : thr'[u] = thr[u]
  BY <1>4, <1>5, ThrStep
<1>7. UNCHANGED <<tables, producers>>
  BY DEF resizeFails, qvars, hvars, Fails
<1>8. failures' = failures - 1 /\ failures' \in Nat
  BY DEF resizeFails, Fails, TypeOK
<1>9. hashCount' = hashCount - 1 /\ hashCount' \in Int
  BY DEF resizeFails, TypeOK
<1>10. resizing' \in BOOLEAN
  BY DEF resizeFails
<1>11. TypeOK' /\ ThrOnly(t)
  BY <1>6, <1>7, <1>8, <1>9, <1>10 DEF TypeOK, ThrOnly
<1> QED BY <1>1, <1>3, <1>6, <1>7, <1>8, <1>9, <1>10, <1>11

\* The thread has resized.
LEMMA EndResizeStep ==
  ASSUME TypeOK, NEW t \in Threads, endResize(t), UNCHANGED <<team, blocks, used, pool, con>>
  PROVE  /\ TypeOK' /\ ThrOnly(t) /\ UNCHANGED <<tables, hashCount, failures, producers>>
         /\ thr[t].at = "resized"
         /\ thr'[t].at = (IF Fits(t, thr[t].main) THEN "create" ELSE "wait")
                /\ thr'[t].sent = thr[t].sent /\ thr'[t].main = thr[t].main
         /\ thr'[t].count = thr[t].count /\ thr'[t].producer = thr[t].producer
         /\ thr'[t].block = thr[t].block
<1>1. thr[t] \in ThreadType /\ thr[t].at = "resized"
  BY DEF TypeOK, endResize, ThrAt
<1>2. PICK r : r = [thr[t] EXCEPT !.at = (IF Fits(t, thr[t].main) THEN "create" ELSE "wait")]
  OBVIOUS
<1>3. /\ r.at = (IF Fits(t, thr[t].main) THEN "create" ELSE "wait") /\ r.sent = thr[t].sent
             /\ r.main = thr[t].main
      /\ r.count = thr[t].count /\ r.producer = thr[t].producer /\ r.block = thr[t].block
  BY <1>1, <1>2 DEF ThreadType
<1>4. r \in ThreadType
  BY <1>1, <1>2 DEF ThreadType
<1>5. Now(t, r)
  BY <1>2 DEF endResize, Jump
<1>6. thr' \in [Threads -> ThreadType] /\ thr'[t] = r
          /\ \A u \in Threads \ {t} : thr'[u] = thr[u]
  BY <1>4, <1>5, ThrStep
<1>7. UNCHANGED <<tables, hashCount, failures, producers>>
  BY DEF endResize, qvars, hvars, Jump
<1>8. resizing' \in BOOLEAN
  BY DEF endResize
<1>9. TypeOK' /\ ThrOnly(t)
  BY <1>6, <1>7, <1>8 DEF TypeOK, ThrOnly
<1> QED BY <1>1, <1>3, <1>6, <1>7, <1>8, <1>9

\* The thread need not resize, or must wait.
LEMMA GoWithoutResizeStep ==
  ASSUME TypeOK, NEW t \in Threads, goWithoutResize(t),
             UNCHANGED <<team, blocks, used, pool, con>>
  PROVE  /\ TypeOK' /\ ThrOnly(t)
         /\ UNCHANGED <<tables, hashCount, resizing, failures, producers>>
         /\ thr[t].at = "room"
         /\ thr'[t].at = (IF Fits(t, thr[t].main) THEN "create" ELSE "wait")
                /\ thr'[t].sent = thr[t].sent /\ thr'[t].main = thr[t].main
         /\ thr'[t].count = thr[t].count /\ thr'[t].producer = thr[t].producer
         /\ thr'[t].block = thr[t].block
<1>1. thr[t] \in ThreadType /\ thr[t].at = "room"
  BY DEF TypeOK, goWithoutResize, ThrAt
<1>2. PICK r : r = [thr[t] EXCEPT !.at = (IF Fits(t, thr[t].main) THEN "create" ELSE "wait")]
  OBVIOUS
<1>3. /\ r.at = (IF Fits(t, thr[t].main) THEN "create" ELSE "wait") /\ r.sent = thr[t].sent
             /\ r.main = thr[t].main
      /\ r.count = thr[t].count /\ r.producer = thr[t].producer /\ r.block = thr[t].block
  BY <1>1, <1>2 DEF ThreadType
<1>4. r \in ThreadType
  BY <1>1, <1>2 DEF ThreadType
<1>5. Now(t, r)
  BY <1>2 DEF goWithoutResize, Jump
<1>6. thr' \in [Threads -> ThreadType] /\ thr'[t] = r
          /\ \A u \in Threads \ {t} : thr'[u] = thr[u]
  BY <1>4, <1>5, ThrStep
<1>7. UNCHANGED <<tables, hashCount, resizing, failures, producers>>
  BY DEF goWithoutResize, qvars, hvars, Jump
<1>8. TypeOK' /\ ThrOnly(t)
  BY <1>6, <1>7 DEF TypeOK, ThrOnly
<1> QED BY <1>1, <1>3, <1>6, <1>7, <1>8

\* The thread looks for room again.
LEMMA WaitForResizeStep ==
  ASSUME TypeOK, NEW t \in Threads, waitForResize(t),
             UNCHANGED <<team, blocks, used, pool, con>>
  PROVE  /\ TypeOK' /\ ThrOnly(t)
         /\ UNCHANGED <<tables, hashCount, resizing, failures, producers>>
         /\ thr[t].at = "wait"
         /\ thr'[t].at = "room" /\ thr'[t].main = Len(tables) /\ thr'[t].sent = thr[t].sent
         /\ thr'[t].count = thr[t].count /\ thr'[t].producer = thr[t].producer
         /\ thr'[t].block = thr[t].block
<1>1. thr[t] \in ThreadType /\ thr[t].at = "wait"
  BY DEF TypeOK, waitForResize, ThrAt
<1>2. Len(tables) \in Nat
  BY DEF TypeOK
<1>3. PICK r : r = [thr[t] EXCEPT !.at = "room", !.main = Len(tables)]
  OBVIOUS
<1>4. /\ r.at = "room" /\ r.main = Len(tables) /\ r.sent = thr[t].sent
      /\ r.count = thr[t].count /\ r.producer = thr[t].producer /\ r.block = thr[t].block
  BY <1>1, <1>3 DEF ThreadType
<1>5. r \in ThreadType
  BY <1>1, <1>2, <1>3 DEF ThreadType
<1>6. Now(t, r)
  BY <1>3 DEF waitForResize
<1>7. thr' \in [Threads -> ThreadType] /\ thr'[t] = r
          /\ \A u \in Threads \ {t} : thr'[u] = thr[u]
  BY <1>5, <1>6, ThrStep
<1>8. UNCHANGED <<tables, hashCount, resizing, failures, producers>>
  BY DEF waitForResize, qvars, hvars
<1>9. TypeOK' /\ ThrOnly(t)
  BY <1>7, <1>8 DEF TypeOK, ThrOnly
<1> QED BY <1>1, <1>4, <1>7, <1>8, <1>9

\* A producer has been added to the list.
ProducerAdded(o) ==
  /\ producers' \in Seq(ProducerType) /\ Len(producers') = Len(producers) + 1
  /\ \A p \in DOMAIN producers : p \in DOMAIN producers' /\ producers'[p] = producers[p]
  /\ \A p \in DOMAIN producers' : p \in DOMAIN producers \/ p = Len(producers) + 1
  /\ Len(producers) + 1 \in DOMAIN producers' /\ Len(producers) + 1 \notin DOMAIN producers
  /\ producers'[Len(producers) + 1] = o

\* A producer that is pushed is the last one; the others stay.
LEMMA AddProducer ==
  ASSUME TypeOK, NEW o \in ProducerType, producers' = Append(producers, o)
  PROVE  ProducerAdded(o)
<1>1. producers \in Seq(ProducerType) /\ Len(producers) \in Nat
          /\ DOMAIN producers = 1 .. Len(producers)
  BY DEF TypeOK
<1>2. /\ producers' \in Seq(ProducerType) /\ Len(producers') = Len(producers) + 1
      /\ producers'[Len(producers) + 1] = o
      /\ \A p \in DOMAIN producers : producers'[p] = producers[p]
  BY <1>1
<1>3. DOMAIN producers' = 1 .. Len(producers) + 1
  BY <1>2
<1> QED BY <1>1, <1>2, <1>3 DEF ProducerAdded

\* A producer is added to the list.
LEMMA CreateProducerStep ==
  ASSUME TypeOK, NEW new \in ProducerType, NEW t \in Threads, createProducer(t, new),
             UNCHANGED <<team, blocks, used, pool, con>>
  PROVE  /\ TypeOK' /\ ThrOnly(t) /\ UNCHANGED <<tables, hashCount, resizing, failures>>
         /\ thr[t].at = "create"
         /\ thr'[t].at = "insert" /\ thr'[t].producer = Len(producers) + 1
         /\ thr'[t].sent = thr[t].sent
         /\ thr'[t].main = thr[t].main /\ thr'[t].count = thr[t].count
         /\ thr'[t].block = thr[t].block
         /\ ProducerAdded(new)
<1>1. thr[t] \in ThreadType /\ thr[t].at = "create"
  BY DEF TypeOK, createProducer, ThrAt
<1>2. Len(producers) + 1 \in Nat
  BY DEF TypeOK
<1>3. PICK r : r = [thr[t] EXCEPT !.at = "insert", !.producer = Len(producers) + 1]
  OBVIOUS
<1>4. /\ r.at = "insert" /\ r.producer = Len(producers) + 1 /\ r.sent = thr[t].sent
      /\ r.main = thr[t].main /\ r.count = thr[t].count /\ r.block = thr[t].block
  BY <1>1, <1>3 DEF ThreadType
<1>5. r \in ThreadType
  BY <1>1, <1>2, <1>3 DEF ThreadType
<1>6. Now(t, r)
  BY <1>3 DEF createProducer
<1>7. thr' \in [Threads -> ThreadType] /\ thr'[t] = r
          /\ \A u \in Threads \ {t} : thr'[u] = thr[u]
  BY <1>5, <1>6, ThrStep
<1>8. UNCHANGED <<tables, hashCount, resizing, failures>>
  BY DEF createProducer, qvars, hvars
<1>9. ProducerAdded(new)
  BY AddProducer DEF createProducer
<1>10. producers' \in Seq(ProducerType)
  BY <1>9 DEF ProducerAdded
<1>11. TypeOK' /\ ThrOnly(t)
  BY <1>7, <1>8, <1>9, <1>10 DEF TypeOK, ThrOnly
<1> QED BY <1>1, <1>4, <1>7, <1>8, <1>9, <1>10, <1>11

\* The producer cannot be allocated.
LEMMA CreateFailsStep ==
  ASSUME TypeOK, NEW t \in Threads, createFails(t), UNCHANGED <<team, blocks, used, pool, con>>
  PROVE  /\ TypeOK' /\ ThrOnly(t) /\ UNCHANGED <<tables, resizing, producers>>
         /\ thr[t].at = "create"
         /\ thr'[t].at = "idle" /\ thr'[t].main = 0 /\ thr'[t].count = 0
         /\ thr'[t].sent = thr[t].sent /\ thr'[t].producer = thr[t].producer
         /\ thr'[t].block = thr[t].block
         /\ hashCount' = hashCount - 1
<1>1. thr[t] \in ThreadType /\ thr[t].at = "create"
  BY DEF TypeOK, createFails, ThrAt
<1>2. PICK r : r = [thr[t] EXCEPT !.at = "idle", !.main = 0, !.count = 0]
  OBVIOUS
<1>3. /\ r.at = "idle" /\ r.main = 0 /\ r.count = 0
      /\ r.sent = thr[t].sent /\ r.producer = thr[t].producer /\ r.block = thr[t].block
  BY <1>1, <1>2 DEF ThreadType
<1>4. r \in ThreadType
  BY <1>1, <1>2 DEF ThreadType
<1>5. Now(t, r)
  BY <1>2 DEF createFails, Fails
<1>6. thr' \in [Threads -> ThreadType] /\ thr'[t] = r
          /\ \A u \in Threads \ {t} : thr'[u] = thr[u]
  BY <1>4, <1>5, ThrStep
<1>7. UNCHANGED <<tables, resizing, producers>>
  BY DEF createFails, qvars, hvars, Fails
<1>8. failures' = failures - 1 /\ failures' \in Nat
  BY DEF createFails, Fails, TypeOK
<1>9. hashCount' = hashCount - 1 /\ hashCount' \in Int
  BY DEF createFails, TypeOK
<1>10. TypeOK' /\ ThrOnly(t)
  BY <1>6, <1>7, <1>8, <1>9 DEF TypeOK, ThrOnly
<1> QED BY <1>1, <1>3, <1>6, <1>7, <1>8, <1>9, <1>10
-----------------------------------------------------------------------------
(* The steps of enqueue.                                                   *)

\* Storing the tail of a block index.
LEMMA HeaderTailStep ==
  ASSUME NEW s \in Seq(Headers), NEW k \in DOMAIN s, NEW v \in Nat,
         NEW r, r = [s EXCEPT ![k].tail = v]
  PROVE  /\ r \in Seq(Headers) /\ DOMAIN r = DOMAIN s /\ Len(r) = Len(s)
         /\ r[k].tail = v /\ r[k].index = s[k].index
         /\ \A e \in DOMAIN s \ {k} : r[e] = s[e]
<1>1. s[k] \in Headers
  OBVIOUS
<1>2. PICK o : o = [s[k] EXCEPT !.tail = v]
  OBVIOUS
<1>3. o \in Headers /\ o.tail = v /\ o.index = s[k].index
  BY <1>1, <1>2 DEF Headers
<1>4. r = [s EXCEPT ![k] = o]
  BY <1>2
<1> QED BY <1>3, <1>4

\* The current block index of a producer.
LEMMA CurrentShape ==
  ASSUME TypeOK, IndexShape, NEW p \in DOMAIN producers, producers[p].indices # <<>>
  PROVE  /\ Len(producers[p].indices) \in DOMAIN producers[p].indices
         /\ Current(p) = producers[p].indices[Len(producers[p].indices)]
         /\ Current(p) \in Headers /\ CapacityOf(Current(p)) \in Nat \ {0}
         /\ DOMAIN Current(p).index = 0 .. CapacityOf(Current(p)) - 1
         /\ Current(p).tail \in 0 .. CapacityOf(Current(p)) - 1
         /\ NextPosition(Current(p)) \in 0 .. CapacityOf(Current(p)) - 1
         /\ \A i \in 0 .. CapacityOf(Current(p)) - 1 :
                Current(p).index[i] \in DOMAIN producers[p].entries
         /\ \A i, m \in 0 .. CapacityOf(Current(p)) - 1 :
                Current(p).index[i] = Current(p).index[m] => i = m
<1>1. producers[p] \in ProducerType
  BY DEF TypeOK
<1>2. producers[p].indices \in Seq(Headers)
  BY <1>1 DEF ProducerType
<1>3. Len(producers[p].indices) \in DOMAIN producers[p].indices
  BY <1>2
<1>4. Current(p) = producers[p].indices[Len(producers[p].indices)]
  BY DEF Current, IndexOf
<1>5. Current(p) \in Headers
  BY <1>2, <1>3, <1>4
<1>6. CapacityOf(Current(p)) \in Nat \ {0}
          /\ DOMAIN Current(p).index = 0 .. CapacityOf(Current(p)) - 1
  BY <1>5, HeaderShape
<1>7. /\ Current(p).tail \in DOMAIN Current(p).index
      /\ \A i \in DOMAIN Current(p).index : Current(p).index[i] \in DOMAIN producers[p].entries
      /\ \A i, m \in DOMAIN Current(p).index : Current(p).index[i] = Current(p).index[m] =>
             i = m
  BY <1>3, <1>4 DEF IndexShape, ShapeAt
<1>8. PICK n \in Nat \ {0} : n = CapacityOf(Current(p))
  BY <1>6
<1>9. NextPosition(Current(p)) \in 0 .. CapacityOf(Current(p)) - 1
  <2>1. PICK x \in 0 .. n - 1 : x = Current(p).tail
    BY <1>6, <1>7, <1>8
  <2>2. (x + 1) % n \in 0 .. n - 1
    BY RingSteps
  <2> QED BY <1>8, <2>1, <2>2 DEF NextPosition
<1> QED BY <1>3, <1>4, <1>5, <1>6, <1>7, <1>9

\* There is room in the block at the tail.
LEMMA FillBlockStep ==
  ASSUME TypeOK, ThreadsSound, NEW t \in Threads, fillBlock(t), NEW p, p = thr[t].producer
  PROVE  /\ TypeOK' /\ ThrOnly(t)
         /\ UNCHANGED <<tables, hashCount, resizing, failures, producers, blocks, used, pool>>
         /\ thr[t].at = "enqueue" /\ p \in DOMAIN producers /\ producers[p].owner = t
         /\ Doing(p) = "enqueue"
         /\ thr'[t].at = "write" /\ thr'[t].sent = thr[t].sent /\ thr'[t].main = thr[t].main
         /\ thr'[t].count = thr[t].count /\ thr'[t].producer = thr[t].producer
         /\ thr'[t].block = thr[t].block
         /\ ~ Starts(producers[p])
<1>1. thr[t] \in ThreadType /\ thr[t].at = "enqueue"
  BY DEF TypeOK, fillBlock, ThrAt
<1>2. p \in DOMAIN producers /\ producers[p].owner = t /\ Doing(p) = "enqueue"
  BY <1>1 DEF ThreadsSound, ThreadSound, Enqueueing, Doing
<1>3. producers[p] \in ProducerType
  BY <1>2 DEF TypeOK
<1>4. /\ producers[p].owner \in Threads /\ producers[p].tail \in Nat
      /\ producers[p].head \in Nat
      /\ producers[p].tailBlock \in Nat /\ producers[p].indices \in Seq(Headers)
      /\ producers[p].entries \in Seq(Entries)
  BY <1>3 DEF ProducerType
<1>5. PICK r : r = [thr[t] EXCEPT !.at = "write"]
  OBVIOUS
<1>6. /\ r.at = "write" /\ r.sent = thr[t].sent /\ r.main = thr[t].main
      /\ r.count = thr[t].count /\ r.producer = thr[t].producer /\ r.block = thr[t].block
  BY <1>1, <1>5 DEF ThreadType
<1>7. r \in ThreadType
  BY <1>1, <1>5 DEF ThreadType
<1>8. Now(t, r)
  BY <1>5 DEF fillBlock, Jump, mine
<1>9. thr' \in [Threads -> ThreadType] /\ thr'[t] = r
          /\ \A u \in Threads \ {t} : thr'[u] = thr[u]
  BY <1>7, <1>8, ThrStep
<1>10. UNCHANGED <<tables, hashCount, resizing, team, con, failures, producers, blocks, used,
           pool>>
  BY DEF fillBlock, qvars, Jump, mine
<1>11. ~ Starts(producers[p])
  BY DEF fillBlock, mine
<1>12. TypeOK' /\ ThrOnly(t)
  BY <1>9, <1>10, <1>11 DEF TypeOK, ThrOnly
<1> QED BY <1>1, <1>2, <1>6, <1>9, <1>10, <1>11, <1>12

\* The producer has no block index.
LEMMA NoIndexStep ==
  ASSUME TypeOK, ThreadsSound, NEW t \in Threads, noIndex(t), NEW p, p = thr[t].producer
  PROVE  /\ TypeOK' /\ ThrOnly(t)
         /\ UNCHANGED <<tables, hashCount, resizing, failures, producers, blocks, used, pool>>
         /\ thr[t].at = "enqueue" /\ p \in DOMAIN producers /\ producers[p].owner = t
         /\ Doing(p) = "enqueue"
         /\ thr'[t].at = "idle" /\ thr'[t].sent = thr[t].sent /\ thr'[t].main = thr[t].main
         /\ thr'[t].count = thr[t].count /\ thr'[t].producer = thr[t].producer
         /\ thr'[t].block = thr[t].block
<1>1. thr[t] \in ThreadType /\ thr[t].at = "enqueue"
  BY DEF TypeOK, noIndex, ThrAt
<1>2. p \in DOMAIN producers /\ producers[p].owner = t /\ Doing(p) = "enqueue"
  BY <1>1 DEF ThreadsSound, ThreadSound, Enqueueing, Doing
<1>3. producers[p] \in ProducerType
  BY <1>2 DEF TypeOK
<1>4. /\ producers[p].owner \in Threads /\ producers[p].tail \in Nat
      /\ producers[p].head \in Nat
      /\ producers[p].tailBlock \in Nat /\ producers[p].indices \in Seq(Headers)
      /\ producers[p].entries \in Seq(Entries)
  BY <1>3 DEF ProducerType
<1>5. PICK r : r = [thr[t] EXCEPT !.at = "idle"]
  OBVIOUS
<1>6. /\ r.at = "idle" /\ r.sent = thr[t].sent /\ r.main = thr[t].main
      /\ r.count = thr[t].count /\ r.producer = thr[t].producer /\ r.block = thr[t].block
  BY <1>1, <1>5 DEF ThreadType
<1>7. r \in ThreadType
  BY <1>1, <1>5 DEF ThreadType
<1>8. Now(t, r)
  BY <1>5 DEF noIndex, Jump
<1>9. thr' \in [Threads -> ThreadType] /\ thr'[t] = r
          /\ \A u \in Threads \ {t} : thr'[u] = thr[u]
  BY <1>7, <1>8, ThrStep
<1>10. UNCHANGED <<tables, hashCount, resizing, team, con, failures, producers, blocks, used,
           pool>>
  BY DEF noIndex, qvars, Jump
<1>11. TypeOK' /\ ThrOnly(t)
  BY <1>9, <1>10 DEF TypeOK, ThrOnly
<1> QED BY <1>1, <1>2, <1>6, <1>9, <1>10, <1>11

\* The next entry of the index gets the key of a new block.
LEMMA InsertEntryStep ==
  ASSUME TypeOK, ThreadsSound, IndexShape, NEW t \in Threads, insert_block_index_entry(t),
             NEW p, p = thr[t].producer
  PROVE  /\ TypeOK' /\ ThrOnly(t)
         /\ UNCHANGED <<tables, hashCount, resizing, failures, blocks, used, pool>>
         /\ thr[t].at = "enqueue" /\ p \in DOMAIN producers /\ producers[p].owner = t
         /\ Doing(p) = "enqueue"
         /\ producers[p].indices # <<>>
         /\ Current(p) \in Headers /\ CapacityOf(Current(p)) \in Nat \ {0}
         /\ DOMAIN Current(p).index = 0 .. CapacityOf(Current(p)) - 1
         /\ Current(p).tail \in 0 .. CapacityOf(Current(p)) - 1
         /\ NextPosition(Current(p)) \in 0 .. CapacityOf(Current(p)) - 1
         /\ Len(producers[p].indices) \in DOMAIN producers[p].indices
         /\ \A i \in 0 .. CapacityOf(Current(p)) - 1 :
                Current(p).index[i] \in DOMAIN producers[p].entries
         /\ Starts(producers[p]) /\ HasRoom(producers[p])
         /\ thr'[t].at = "keyed" /\ thr'[t].sent = thr[t].sent /\ thr'[t].main = thr[t].main
         /\ thr'[t].count = thr[t].count /\ thr'[t].producer = thr[t].producer
         /\ thr'[t].block = thr[t].block
         /\ OnlyAt(p)
         /\ producers'[p].owner = producers[p].owner /\ producers'[p].tail = producers[p].tail
         /\ producers'[p].head = producers[p].head
         /\ producers'[p].optimistic = producers[p].optimistic
         /\ producers'[p].overcommit = producers[p].overcommit
         /\ producers'[p].tailBlock = producers[p].tailBlock
         /\ producers'[p].indices = producers[p].indices
         /\ DOMAIN producers'[p].entries = DOMAIN producers[p].entries
         /\ Len(producers'[p].entries) = Len(producers[p].entries)
         /\ producers'[p].entries[Current(p).index[NextPosition(Current(p))]].key
                = producers[p].tail
         /\ producers'[p].entries[Current(p).index[NextPosition(Current(p))]].value
                = producers[p].entries[Current(p).index[NextPosition(Current(p))]].value
         /\ \A e \in DOMAIN producers[p].entries \ {Current(p).index[NextPosition(Current(p))]} : producers'[p].entries[e] = producers[p].entries[e]
<1>1. thr[t] \in ThreadType /\ thr[t].at = "enqueue"
  BY DEF TypeOK, insert_block_index_entry, ThrAt
<1>2. p \in DOMAIN producers /\ producers[p].owner = t /\ Doing(p) = "enqueue"
  BY <1>1 DEF ThreadsSound, ThreadSound, Enqueueing, Doing
<1>3. producers[p] \in ProducerType
  BY <1>2 DEF TypeOK
<1>4. /\ producers[p].owner \in Threads /\ producers[p].tail \in Nat
      /\ producers[p].head \in Nat
      /\ producers[p].tailBlock \in Nat /\ producers[p].indices \in Seq(Headers)
      /\ producers[p].entries \in Seq(Entries)
  BY <1>3 DEF ProducerType
<1>5. /\ producers[p].indices # <<>>
      /\ Current(p) \in Headers /\ CapacityOf(Current(p)) \in Nat \ {0}
      /\ DOMAIN Current(p).index = 0 .. CapacityOf(Current(p)) - 1
      /\ Current(p).tail \in 0 .. CapacityOf(Current(p)) - 1
      /\ NextPosition(Current(p)) \in 0 .. CapacityOf(Current(p)) - 1
      /\ Len(producers[p].indices) \in DOMAIN producers[p].indices
      /\ \A i \in 0 .. CapacityOf(Current(p)) - 1 :
             Current(p).index[i] \in DOMAIN producers[p].entries
      /\ Starts(producers[p]) /\ HasRoom(producers[p])
  <2>1. producers[p].indices # <<>> /\ Starts(producers[p]) /\ HasRoom(producers[p])
    BY DEF insert_block_index_entry, mine
  <2> QED BY <1>2, <2>1, CurrentShape
<1>6. Current(p).index[NextPosition(Current(p))] \in DOMAIN producers[p].entries
          /\ producers[p].tail \in Int
  BY <1>4, <1>5
<1>7. PICK r : r = [thr[t] EXCEPT !.at = "keyed"]
  OBVIOUS
<1>8. /\ r.at = "keyed" /\ r.sent = thr[t].sent /\ r.main = thr[t].main
      /\ r.count = thr[t].count /\ r.producer = thr[t].producer /\ r.block = thr[t].block
  BY <1>1, <1>7 DEF ThreadType
<1>9. r \in ThreadType
  BY <1>1, <1>6, <1>7 DEF ThreadType
<1>10. Now(t, r)
  BY <1>7 DEF insert_block_index_entry, Jump
<1>11. thr' \in [Threads -> ThreadType] /\ thr'[t] = r
           /\ \A u \in Threads \ {t} : thr'[u] = thr[u]
  BY <1>9, <1>10, ThrStep
<1>12. UNCHANGED <<tables, hashCount, resizing, team, con, failures, blocks, used, pool>>
  BY DEF insert_block_index_entry, qvars, Jump
<1>13. PICK o : o = [producers[p] EXCEPT !.entries[Current(p).index[NextPosition(Current(p))]].key = producers[p].tail]
  OBVIOUS
<1>14. PICK es, k, v : es = producers[p].entries
           /\ k = Current(p).index[NextPosition(Current(p))] /\ v = producers[p].tail
  OBVIOUS
<1>15. es \in Seq(Entries) /\ k \in DOMAIN es /\ v \in Int
  BY <1>4, <1>6, <1>14
<1>16. PICK en : en = [es EXCEPT ![k].key = v]
  OBVIOUS
<1>17. /\ en \in Seq(Entries)
      /\ DOMAIN en = DOMAIN es /\ Len(en) = Len(es)
      /\ en[k].key = v
      /\ en[k].value = es[k].value
      /\ \A e \in DOMAIN es \ {k} : en[e] = es[e]
  BY <1>15, <1>16, KeyStep
<1>18. /\ en \in Seq(Entries)
      /\ DOMAIN en = DOMAIN producers[p].entries /\ Len(en) = Len(producers[p].entries)
      /\ en[Current(p).index[NextPosition(Current(p))]].key = producers[p].tail
      /\ en[Current(p).index[NextPosition(Current(p))]].value
             = producers[p].entries[Current(p).index[NextPosition(Current(p))]].value
      /\ \A e \in DOMAIN producers[p].entries \ {Current(p).index[NextPosition(Current(p))]} :
             en[e] = producers[p].entries[e]
  BY <1>14, <1>17
<1>19. o = [producers[p] EXCEPT !.entries = en]
  BY <1>3, <1>13, <1>16, <1>14
<1>20. /\ o.entries = en /\ o.owner = producers[p].owner /\ o.tail = producers[p].tail
      /\ o.head = producers[p].head /\ o.optimistic = producers[p].optimistic
      /\ o.overcommit = producers[p].overcommit
      /\ o.tailBlock = producers[p].tailBlock /\ o.indices = producers[p].indices
  BY <1>3, <1>19 DEF ProducerType
<1>21. o \in ProducerType
  BY <1>3, <1>18, <1>19 DEF ProducerType
<1>22. producers' = [producers EXCEPT ![p] = o]
  BY <1>13 DEF insert_block_index_entry, Jump, mine, Current
<1>23. producers' \in Seq(ProducerType) /\ OnlyAt(p) /\ producers'[p] = o
  BY <1>2, <1>21, <1>22, ProducerStep
<1>24. TypeOK' /\ ThrOnly(t)
  BY <1>11, <1>12, <1>18, <1>20, <1>23 DEF TypeOK, ThrOnly
<1> QED BY <1>1, <1>2, <1>5, <1>8, <1>11, <1>12, <1>18, <1>20, <1>23, <1>24

\* n free entries, and what they are after others.
LEMMA MoreEntries ==
  ASSUME NEW s \in Seq(Entries), NEW n \in Nat
  PROVE  /\ s \o FreeEntries(n) \in Seq(Entries) /\ Len(s \o FreeEntries(n)) = Len(s) + n
         /\ \A e \in DOMAIN s : e \in DOMAIN (s \o FreeEntries(n))
                /\ (s \o FreeEntries(n))[e] = s[e]
         /\ \A e \in DOMAIN (s \o FreeEntries(n)) \ DOMAIN s :
              (s \o FreeEntries(n))[e].key = NoKey /\ (s \o FreeEntries(n))[e].value = NoBlock
<1>1. PICK o : o = [key |-> NoKey, value |-> NoBlock]
  OBVIOUS
<1>2. o \in Entries /\ o.key = NoKey /\ o.value = NoBlock
  BY <1>1 DEF Entries, NoKey, NoBlock
<1>3. PICK f : f = [i \in 1 .. n |-> o]
  OBVIOUS
<1>4. f \in Seq(Entries) /\ Len(f) = n /\ \A i \in 1 .. n : f[i] = o
  BY <1>2, <1>3
<1>5. FreeEntries(n) = f
  BY <1>1, <1>3 DEF FreeEntries
<1>6. /\ s \o f \in Seq(Entries) /\ Len(s \o f) = Len(s) + n
      /\ \A e \in DOMAIN s : e \in DOMAIN (s \o f) /\ (s \o f)[e] = s[e]
  BY <1>4
<1>7. ASSUME NEW e \in DOMAIN (s \o f) \ DOMAIN s PROVE (s \o f)[e] = o
  <2>1. e \in 1 .. Len(s) + n /\ e \notin 1 .. Len(s) /\ Len(s) \in Nat
    BY <1>6
  <2>2. (s \o f)[e] = f[e - Len(s)]
    BY <1>4, <2>1
  <2>3. e - Len(s) \in 1 .. n
    BY <2>1
  <2> QED BY <1>4, <2>2, <2>3
<1> QED BY <1>2, <1>5, <1>6, <1>7

\* The index that new_block_index makes of index h of n entries, m of them its own: the old
\* entries from the oldest on, then new ones.
NewIndex(h, n, m) ==
  [tail |-> n - 1,
   index |-> [i \in 0 .. 2 * n - 1 |-> IF i < n THEN h.index[(h.tail + 1 + i) % n] ELSE m + i - n + 1]]

\* It is an index of twice as many entries.
LEMMA NewIndexShape ==
  ASSUME NEW h \in Headers, NEW n \in Nat \ {0}, n = CapacityOf(h), h.tail \in 0 .. n - 1,
             NEW m \in Nat
  PROVE  /\ NewIndex(h, n, m) \in Headers /\ NewIndex(h, n, m).tail = n - 1
         /\ DOMAIN NewIndex(h, n, m).index = 0 .. 2 * n - 1
         /\ CapacityOf(NewIndex(h, n, m)) = 2 * n
<1>1. DOMAIN h.index = 0 .. n - 1 /\ h.index \in [0 .. n - 1 -> Nat]
  BY HeaderShape
<1>2. ASSUME NEW i \in 0 .. n - 1 PROVE (h.tail + 1 + i) % n \in 0 .. n - 1
  <2>1. h.tail + 1 + i \in Int
    OBVIOUS
  <2> QED BY <2>1, DivMod
<1>3. PICK f : f = [i \in 0 .. 2 * n - 1 |-> IF i < n THEN h.index[(h.tail + 1 + i) % n] ELSE m + i - n + 1]
  OBVIOUS
<1>4. ASSUME NEW i \in 0 .. n - 1 PROVE f[i] = h.index[(h.tail + 1 + i) % n] /\ f[i] \in Nat
  <2>1. i \in 0 .. 2 * n - 1 /\ i < n
    OBVIOUS
  <2>2. f[i] = h.index[(h.tail + 1 + i) % n]
    BY <1>3, <2>1
  <2> QED BY <1>1, <1>2, <2>2
<1>5. ASSUME NEW i \in n .. 2 * n - 1 PROVE f[i] = m + i - n + 1 /\ f[i] \in Nat
  <2>1. i \in 0 .. 2 * n - 1 /\ ~ (i < n) /\ m + i - n + 1 \in Nat
    OBVIOUS
  <2> QED BY <1>3, <2>1
<1>6. \A i \in 0 .. 2 * n - 1 : f[i] \in Nat
  <2>1. \A i \in 0 .. 2 * n - 1 : i \in 0 .. n - 1 \/ i \in n .. 2 * n - 1
    OBVIOUS
  <2> QED BY <1>4, <1>5, <2>1
<1>7. PICK l \in Nat \ {0} : l = 2 * n
  OBVIOUS
<1>8. f \in [0 .. l - 1 -> Nat] /\ DOMAIN f = 0 .. l - 1
  BY <1>3, <1>6, <1>7
<1>9. PICK o : o = [tail |-> n - 1, index |-> f]
  OBVIOUS
<1>10. NewIndex(h, n, m) = o
  BY <1>3, <1>9 DEF NewIndex
<1>11. o.tail = n - 1 /\ o.index = f /\ o \in Headers
  <2>1. f \in UNION {[0 .. k - 1 -> Nat] : k \in Nat \ {0}}
    BY <1>8
  <2>2. PICK m1 \in Nat : m1 = n - 1
    OBVIOUS
  <2> QED BY <1>9, <2>1, <2>2 DEF Headers
<1>12. CapacityOf(o) = l
  <2>1. CapacityOf(o) \in Nat \ {0} /\ DOMAIN o.index = 0 .. CapacityOf(o) - 1
    BY <1>11, HeaderShape
  <2>2. PICK x \in Nat \ {0} : x = CapacityOf(o)
    BY <2>1
  <2>3. 0 .. x - 1 = 0 .. l - 1
    BY <1>8, <1>11, <2>1, <2>2
  <2>4. x - 1 \in 0 .. l - 1 /\ l - 1 \in 0 .. x - 1
    BY <2>3
  <2> QED BY <2>2, <2>4
<1> QED BY <1>7, <1>8, <1>10, <1>11, <1>12

\* The index of a producer is replaced by a bigger one.
LEMMA GrowStep ==
  ASSUME TypeOK, ThreadsSound, IndexShape, NEW t \in Threads, new_block_index(t),
         NEW p, p = thr[t].producer, ~ Fails(t)
  PROVE  /\ TypeOK' /\ ThrOnly(t)
         /\ UNCHANGED <<tables, hashCount, resizing, thr, failures, blocks, used, pool>>
         /\ thr[t].at = "enqueue" /\ p \in DOMAIN producers /\ producers[p].owner = t
         /\ Doing(p) = "enqueue"
         /\ Starts(producers[p]) /\ ~ HasRoom(producers[p]) /\ producers[p].indices # <<>>
         /\ OnlyAt(p)
         /\ producers'[p].owner = producers[p].owner /\ producers'[p].tail = producers[p].tail
         /\ producers'[p].head = producers[p].head
         /\ producers'[p].optimistic = producers[p].optimistic
         /\ producers'[p].overcommit = producers[p].overcommit
         /\ producers'[p].tailBlock = producers[p].tailBlock
         /\ Len(producers'[p].indices) = Len(producers[p].indices) + 1
         /\ \A j \in DOMAIN producers[p].indices :
              j \in DOMAIN producers'[p].indices
                  /\ producers'[p].indices[j] = producers[p].indices[j]
         /\ producers'[p].indices[Len(producers[p].indices) + 1]
              = NewIndex(Current(p), CapacityOf(Current(p)), Len(producers[p].entries))
         /\ producers'[p].indices
              = Append(producers[p].indices,
                  NewIndex(Current(p), CapacityOf(Current(p)), Len(producers[p].entries)))
         /\ producers'[p].entries = producers[p].entries \o FreeEntries(CapacityOf(Current(p)))
         /\ Len(producers[p].entries) \in Nat
         /\ Len(producers'[p].entries) = Len(producers[p].entries) + CapacityOf(Current(p))
         /\ DOMAIN producers'[p].entries
                = 1 .. Len(producers[p].entries) + CapacityOf(Current(p))
         /\ \A e \in DOMAIN producers[p].entries :
              e \in DOMAIN producers'[p].entries
                  /\ producers'[p].entries[e] = producers[p].entries[e]
         /\ \A e \in DOMAIN producers'[p].entries \ DOMAIN producers[p].entries :
              producers'[p].entries[e].key = NoKey /\ producers'[p].entries[e].value = NoBlock
<1>1. thr[t] \in ThreadType /\ thr[t].at = "enqueue"
  BY DEF TypeOK, new_block_index, ThrAt
<1>2. p \in DOMAIN producers /\ producers[p].owner = t /\ Doing(p) = "enqueue"
  BY <1>1 DEF ThreadsSound, ThreadSound, Enqueueing, Doing
<1>3. producers[p] \in ProducerType
  BY <1>2 DEF TypeOK
<1>4. producers[p].indices \in Seq(Headers) /\ producers[p].entries \in Seq(Entries)
  BY <1>3 DEF ProducerType
<1>5. producers[p].indices # <<>> /\ Starts(producers[p]) /\ ~ HasRoom(producers[p])
  BY DEF new_block_index, mine
<1>6. PICK n \in Nat \ {0} : n = CapacityOf(Current(p))
  BY <1>2, <1>5, CurrentShape
<1>7. PICK h \in Headers : h = Current(p)
  BY <1>2, <1>5, CurrentShape
<1>8. n = CapacityOf(h) /\ h.tail \in 0 .. n - 1
  BY <1>2, <1>5, <1>6, <1>7, CurrentShape
<1>9. PICK es \in Seq(Entries), hs \in Seq(Headers) : es = producers[p].entries
          /\ hs = producers[p].indices
  BY <1>4
<1>10. PICK o : o = NewIndex(h, n, Len(es))
  OBVIOUS
<1>11. o \in Headers
  <2>1. PICK m \in Nat : m = Len(es)
    OBVIOUS
  <2>2. NewIndex(h, n, m) \in Headers
    BY <1>8, NewIndexShape
  <2> QED BY <1>10, <2>1, <2>2
<1>12. PICK ne : ne = es \o FreeEntries(n)
  OBVIOUS
<1>13. /\ ne \in Seq(Entries) /\ Len(ne) = Len(es) + n
       /\ \A e \in DOMAIN es : e \in DOMAIN ne /\ ne[e] = es[e]
       /\ \A e \in DOMAIN ne \ DOMAIN es : ne[e].key = NoKey /\ ne[e].value = NoBlock
  BY <1>12, MoreEntries
<1>14. PICK nh : nh = Append(hs, o)
  OBVIOUS
<1>15. /\ nh \in Seq(Headers) /\ Len(nh) = Len(hs) + 1 /\ nh[Len(hs) + 1] = o
       /\ \A j \in DOMAIN hs : j \in DOMAIN nh /\ nh[j] = hs[j]
  BY <1>11, <1>14
<1>16. PICK r : r = [producers[p] EXCEPT !.indices = nh, !.entries = ne]
  OBVIOUS
<1>17. /\ r.indices = nh /\ r.entries = ne /\ r.owner = producers[p].owner
       /\ r.tail = producers[p].tail
       /\ r.head = producers[p].head /\ r.optimistic = producers[p].optimistic
       /\ r.overcommit = producers[p].overcommit /\ r.tailBlock = producers[p].tailBlock
  BY <1>3, <1>16 DEF ProducerType
<1>18. r \in ProducerType
  BY <1>3, <1>13, <1>15, <1>16 DEF ProducerType
<1>19. Grown(producers[p]) = r
  <2>1. IndexOf(producers[p]) = h
    BY <1>7 DEF Current
  <2>2. [tail |-> n - 1,
         index |-> [i \in 0 .. 2 * n - 1 |->
           IF i < n THEN h.index[(h.tail + 1 + i) % n] ELSE Len(producers[p].entries) + i - n + 1]] = o
    BY <1>9, <1>10 DEF NewIndex
  <2>3. Grown(producers[p]) = [producers[p] EXCEPT !.indices = Append(@, o),
            !.entries = @ \o FreeEntries(n)]
    BY <1>8, <2>1, <2>2 DEF Grown
  <2>4. [producers[p] EXCEPT !.indices = Append(@, o), !.entries = @ \o FreeEntries(n)] = r
    BY <1>3, <1>9, <1>12, <1>14, <1>16 DEF ProducerType
  <2> QED BY <2>3, <2>4
<1>20. producers' = [producers EXCEPT ![p] = r] /\ UNCHANGED <<thr, failures>>
  <2>1. producers' = [producers EXCEPT ![p] = Grown(@)] /\ UNCHANGED <<thr, failures>>
    BY DEF new_block_index
  <2> QED BY <1>19, <2>1
<1>21. producers' \in Seq(ProducerType) /\ OnlyAt(p) /\ producers'[p] = r
  BY <1>2, <1>18, <1>20, ProducerStep
<1>22. UNCHANGED <<tables, hashCount, resizing, team, con, blocks, used, pool>>
  BY DEF new_block_index, qvars
<1>23. TypeOK' /\ ThrOnly(t)
  BY <1>20, <1>21, <1>22 DEF TypeOK, ThrOnly
<1>24. DOMAIN ne = 1 .. Len(es) + n /\ Len(es) \in Nat
  BY <1>13
<1>25. producers'[p].entries = producers[p].entries \o FreeEntries(CapacityOf(Current(p)))
  BY <1>6, <1>9, <1>12, <1>17, <1>21
<1>26. producers'[p].indices
           = Append(producers[p].indices,
               NewIndex(Current(p), CapacityOf(Current(p)), Len(producers[p].entries)))
  BY <1>6, <1>7, <1>9, <1>10, <1>14, <1>17, <1>21
<1> QED BY <1>1, <1>2, <1>5, <1>6, <1>7, <1>9, <1>10, <1>13, <1>15, <1>17, <1>20, <1>21, <1>22,
           <1>23, <1>24, <1>25, <1>26

\* The bigger index cannot be allocated.
LEMMA GrowFailsStep ==
  ASSUME TypeOK, ThreadsSound, NEW t \in Threads, new_block_index(t), NEW p,
             p = thr[t].producer, producers' = producers, Fails(t)
  PROVE  /\ TypeOK' /\ ThrOnly(t)
         /\ UNCHANGED <<tables, hashCount, resizing, producers, blocks, used, pool>>
         /\ thr[t].at = "enqueue" /\ p \in DOMAIN producers /\ producers[p].owner = t
         /\ Doing(p) = "enqueue"
         /\ thr'[t].at = "idle" /\ thr'[t].main = 0 /\ thr'[t].count = 0
         /\ thr'[t].sent = thr[t].sent /\ thr'[t].producer = thr[t].producer
         /\ thr'[t].block = thr[t].block
<1>1. thr[t] \in ThreadType /\ thr[t].at = "enqueue"
  BY DEF TypeOK, new_block_index, ThrAt
<1>2. p \in DOMAIN producers /\ producers[p].owner = t /\ Doing(p) = "enqueue"
  BY <1>1 DEF ThreadsSound, ThreadSound, Enqueueing, Doing
<1>3. producers[p] \in ProducerType
  BY <1>2 DEF TypeOK
<1>4. /\ producers[p].owner \in Threads /\ producers[p].tail \in Nat
      /\ producers[p].head \in Nat
      /\ producers[p].tailBlock \in Nat /\ producers[p].indices \in Seq(Headers)
      /\ producers[p].entries \in Seq(Entries)
  BY <1>3 DEF ProducerType
<1>5. PICK r : r = [thr[t] EXCEPT !.at = "idle", !.main = 0, !.count = 0]
  OBVIOUS
<1>6. /\ r.at = "idle" /\ r.main = 0 /\ r.count = 0
      /\ r.sent = thr[t].sent /\ r.producer = thr[t].producer /\ r.block = thr[t].block
  BY <1>1, <1>5 DEF ThreadType
<1>7. r \in ThreadType
  BY <1>1, <1>5 DEF ThreadType
<1>8. Now(t, r)
  BY <1>5 DEF new_block_index, Fails
<1>9. thr' \in [Threads -> ThreadType] /\ thr'[t] = r
          /\ \A u \in Threads \ {t} : thr'[u] = thr[u]
  BY <1>7, <1>8, ThrStep
<1>10. UNCHANGED <<tables, hashCount, resizing, team, con, producers, blocks, used, pool>>
  BY DEF new_block_index, qvars, Fails
<1>11. failures' \in Nat
  BY DEF Fails, TypeOK
<1>12. TypeOK' /\ ThrOnly(t)
  BY <1>9, <1>10, <1>11 DEF TypeOK, ThrOnly
<1> QED BY <1>1, <1>2, <1>6, <1>9, <1>10, <1>11, <1>12

\* The index now ends at the new entry.
LEMMA SetIndexTailStep ==
  ASSUME TypeOK, ThreadsSound, IndexShape, NEW t \in Threads, setIndexTail(t), NEW p,
             p = thr[t].producer
  PROVE  /\ TypeOK' /\ ThrOnly(t)
         /\ UNCHANGED <<tables, hashCount, resizing, failures, blocks, used, pool>>
         /\ thr[t].at = "keyed" /\ p \in DOMAIN producers /\ producers[p].owner = t
         /\ Doing(p) = "keyed"
         /\ producers[p].indices # <<>>
         /\ Current(p) \in Headers /\ CapacityOf(Current(p)) \in Nat \ {0}
         /\ DOMAIN Current(p).index = 0 .. CapacityOf(Current(p)) - 1
         /\ Current(p).tail \in 0 .. CapacityOf(Current(p)) - 1
         /\ NextPosition(Current(p)) \in 0 .. CapacityOf(Current(p)) - 1
         /\ Len(producers[p].indices) \in DOMAIN producers[p].indices
         /\ \A i \in 0 .. CapacityOf(Current(p)) - 1 :
                Current(p).index[i] \in DOMAIN producers[p].entries
         /\ thr'[t].at = "requisition" /\ thr'[t].sent = thr[t].sent
         /\ thr'[t].main = thr[t].main
         /\ thr'[t].count = thr[t].count /\ thr'[t].producer = thr[t].producer
         /\ thr'[t].block = thr[t].block
         /\ OnlyAt(p)
         /\ producers'[p].owner = producers[p].owner /\ producers'[p].tail = producers[p].tail
         /\ producers'[p].head = producers[p].head
         /\ producers'[p].optimistic = producers[p].optimistic
         /\ producers'[p].overcommit = producers[p].overcommit
         /\ producers'[p].tailBlock = producers[p].tailBlock
         /\ producers'[p].entries = producers[p].entries
         /\ DOMAIN producers'[p].indices = DOMAIN producers[p].indices
         /\ Len(producers'[p].indices) = Len(producers[p].indices)
         /\ producers'[p].indices[Len(producers[p].indices)].tail = NextPosition(Current(p))
         /\ producers'[p].indices[Len(producers[p].indices)].index
                = producers[p].indices[Len(producers[p].indices)].index
         /\ \A e \in DOMAIN producers[p].indices \ {Len(producers[p].indices)} :
                producers'[p].indices[e] = producers[p].indices[e]
<1>1. thr[t] \in ThreadType /\ thr[t].at = "keyed"
  BY DEF TypeOK, setIndexTail, ThrAt
<1>2. p \in DOMAIN producers /\ producers[p].owner = t /\ Doing(p) = "keyed"
  BY <1>1 DEF ThreadsSound, ThreadSound, Enqueueing, Doing
<1>3. producers[p] \in ProducerType
  BY <1>2 DEF TypeOK
<1>4. /\ producers[p].owner \in Threads /\ producers[p].tail \in Nat
      /\ producers[p].head \in Nat
      /\ producers[p].tailBlock \in Nat /\ producers[p].indices \in Seq(Headers)
      /\ producers[p].entries \in Seq(Entries)
  BY <1>3 DEF ProducerType
<1>5. /\ producers[p].indices # <<>>
      /\ Current(p) \in Headers /\ CapacityOf(Current(p)) \in Nat \ {0}
      /\ DOMAIN Current(p).index = 0 .. CapacityOf(Current(p)) - 1
      /\ Current(p).tail \in 0 .. CapacityOf(Current(p)) - 1
      /\ NextPosition(Current(p)) \in 0 .. CapacityOf(Current(p)) - 1
      /\ Len(producers[p].indices) \in DOMAIN producers[p].indices
      /\ \A i \in 0 .. CapacityOf(Current(p)) - 1 :
             Current(p).index[i] \in DOMAIN producers[p].entries
  <2>1. producers[p].indices # <<>>
    BY <1>2 DEF IndexShape, ShapeAt
  <2> QED BY <1>2, <2>1, CurrentShape
<1>6. NextPosition(Current(p)) \in Nat
  BY <1>5
<1>7. PICK r : r = [thr[t] EXCEPT !.at = "requisition"]
  OBVIOUS
<1>8. /\ r.at = "requisition" /\ r.sent = thr[t].sent /\ r.main = thr[t].main
      /\ r.count = thr[t].count /\ r.producer = thr[t].producer /\ r.block = thr[t].block
  BY <1>1, <1>7 DEF ThreadType
<1>9. r \in ThreadType
  BY <1>1, <1>6, <1>7 DEF ThreadType
<1>10. Now(t, r)
  BY <1>7 DEF setIndexTail, Jump
<1>11. thr' \in [Threads -> ThreadType] /\ thr'[t] = r
           /\ \A u \in Threads \ {t} : thr'[u] = thr[u]
  BY <1>9, <1>10, ThrStep
<1>12. UNCHANGED <<tables, hashCount, resizing, team, con, failures, blocks, used, pool>>
  BY DEF setIndexTail, qvars, Jump
<1>13. PICK o : o = [producers[p] EXCEPT !.indices[Len(producers[p].indices)].tail
           = NextPosition(Current(p))]
  OBVIOUS
<1>14. PICK hs, l, x : hs = producers[p].indices /\ l = Len(producers[p].indices)
           /\ x = NextPosition(Current(p))
  OBVIOUS
<1>15. hs \in Seq(Headers) /\ l \in DOMAIN hs /\ x \in Nat
  BY <1>4, <1>5, <1>6, <1>14
<1>16. PICK ind : ind = [hs EXCEPT ![l].tail = x]
  OBVIOUS
<1>17. /\ ind \in Seq(Headers)
      /\ DOMAIN ind = DOMAIN hs /\ Len(ind) = Len(hs)
      /\ ind[l].tail = x
      /\ ind[l].index = hs[l].index
      /\ \A e \in DOMAIN hs \ {l} : ind[e] = hs[e]
  BY <1>15, <1>16, HeaderTailStep
<1>18. /\ ind \in Seq(Headers)
      /\ DOMAIN ind = DOMAIN producers[p].indices /\ Len(ind) = Len(producers[p].indices)
      /\ ind[Len(producers[p].indices)].tail = NextPosition(Current(p))
      /\ ind[Len(producers[p].indices)].index
             = producers[p].indices[Len(producers[p].indices)].index
      /\ \A e \in DOMAIN producers[p].indices \ {Len(producers[p].indices)} :
             ind[e] = producers[p].indices[e]
  BY <1>14, <1>17
<1>19. o = [producers[p] EXCEPT !.indices = ind]
  BY <1>3, <1>13, <1>16, <1>14
<1>20. /\ o.indices = ind /\ o.owner = producers[p].owner /\ o.tail = producers[p].tail
      /\ o.head = producers[p].head /\ o.optimistic = producers[p].optimistic
      /\ o.overcommit = producers[p].overcommit
      /\ o.tailBlock = producers[p].tailBlock /\ o.entries = producers[p].entries
  BY <1>3, <1>19 DEF ProducerType
<1>21. o \in ProducerType
  BY <1>3, <1>18, <1>19 DEF ProducerType
<1>22. producers' = [producers EXCEPT ![p] = o]
  BY <1>13 DEF setIndexTail, Jump, mine, Current
<1>23. producers' \in Seq(ProducerType) /\ OnlyAt(p) /\ producers'[p] = o
  BY <1>2, <1>21, <1>22, ProducerStep
<1>24. TypeOK' /\ ThrOnly(t)
  BY <1>11, <1>12, <1>18, <1>20, <1>23 DEF TypeOK, ThrOnly
<1> QED BY <1>1, <1>2, <1>5, <1>8, <1>11, <1>12, <1>18, <1>20, <1>23, <1>24

\* A new block.
LEMMA NewBlockFields == NewBlock \in Blocks /\ NewBlock.dequeued = 0
<1>1. PICK f : f = [i \in 0 .. BlockSize - 1 |-> NoItem]
  OBVIOUS
<1>2. NoItem \in Items
  BY DEF NoItem, Items
<1>3. f \in [0 .. BlockSize - 1 -> Items]
  BY <1>1, <1>2
<1> QED BY <1>1, <1>3 DEF NewBlock, Blocks

\* Where block b comes from.
FromInitialPool(b) ==
  used < PoolSize /\ b = used + 1 /\ used' = used + 1 /\ UNCHANGED <<blocks, pool>>
FromFreeList(b) ==
  /\ used >= PoolSize /\ b \in pool /\ pool' = pool \ {b} /\ UNCHANGED used
  /\ b \in DOMAIN blocks /\ Len(blocks') = Len(blocks) /\ DOMAIN blocks' = DOMAIN blocks
  /\ blocks'[b].dequeued = 0 /\ blocks'[b].elements = blocks[b].elements
  /\ \A d \in DOMAIN blocks \ {b} : blocks'[d] = blocks[d]
FromHeap(b) ==
  /\ used >= PoolSize /\ b = Len(blocks) + 1 /\ UNCHANGED <<used, pool>>
  /\ Len(blocks') = Len(blocks) + 1 /\ b \in DOMAIN blocks' /\ b \notin DOMAIN blocks
  /\ blocks'[b].dequeued = 0
  /\ \A d \in DOMAIN blocks : d \in DOMAIN blocks' /\ blocks'[d] = blocks[d]
  /\ \A d \in DOMAIN blocks' : d \in DOMAIN blocks \/ d = b

\* A block is had for the new entry.
LEMMA RequisitionStep ==
  ASSUME TypeOK, ThreadsSound, Ownership, NEW t \in Threads, requisition_block(t), NEW p,
             p = thr[t].producer
  PROVE  /\ TypeOK' /\ ThrOnly(t)
         /\ UNCHANGED <<tables, hashCount, resizing, producers, failures>>
         /\ thr[t].at = "requisition" /\ p \in DOMAIN producers /\ producers[p].owner = t
         /\ Doing(p) = "requisition"
         /\ thr'[t].at = "store" /\ thr'[t].sent = thr[t].sent /\ thr'[t].main = thr[t].main
         /\ thr'[t].count = thr[t].count /\ thr'[t].producer = thr[t].producer
         /\ FromInitialPool(thr'[t].block) \/ FromFreeList(thr'[t].block)
                \/ FromHeap(thr'[t].block)
<1>1. thr[t] \in ThreadType /\ thr[t].at = "requisition"
  BY DEF TypeOK, requisition_block, ThrAt
<1>2. p \in DOMAIN producers /\ producers[p].owner = t /\ Doing(p) = "requisition"
  BY <1>1 DEF ThreadsSound, ThreadSound, Enqueueing, Doing
<1>3. blocks \in Seq(Blocks) /\ Len(blocks) \in Nat /\ DOMAIN blocks = 1 .. Len(blocks)
          /\ used \in Nat
      /\ pool \subseteq Nat
  BY DEF TypeOK
<1>4. UNCHANGED <<tables, hashCount, resizing, team, producers, failures, con>>
  BY DEF requisition_block, qvars
<1>5. PICK b \in 1 .. Len(blocks) + 1 :
       /\ Now(t, [thr[t] EXCEPT !.at = "store", !.block = b])
       /\ \/ /\ used < PoolSize /\ b = used + 1 /\ used' = used + 1
             /\ UNCHANGED <<blocks, pool>>
          \/ /\ used >= PoolSize /\ b \in pool /\ pool' = pool \ {b}
             /\ blocks' = [blocks EXCEPT ![b].dequeued = 0]
             /\ UNCHANGED used
          \/ /\ used >= PoolSize /\ b = Len(blocks) + 1
             /\ blocks' = Append(blocks, NewBlock)
             /\ UNCHANGED <<used, pool>>
  BY DEF requisition_block
<1>6. PICK r : r = [thr[t] EXCEPT !.at = "store", !.block = b]
  OBVIOUS
<1>7. /\ r.at = "store" /\ r.block = b /\ r.sent = thr[t].sent /\ r.main = thr[t].main
      /\ r.count = thr[t].count /\ r.producer = thr[t].producer
  BY <1>1, <1>6 DEF ThreadType
<1>8. r \in ThreadType
  <2>1. b \in Nat
    BY <1>3
  <2> QED BY <1>1, <1>6, <2>1 DEF ThreadType
<1>9. Now(t, r)
  BY <1>5, <1>6
<1>10. thr' \in [Threads -> ThreadType] /\ thr'[t] = r
           /\ \A u \in Threads \ {t} : thr'[u] = thr[u]
  BY <1>8, <1>9, ThrStep
<1>11. /\ blocks' \in Seq(Blocks) /\ used' \in Nat /\ pool' \subseteq Nat
       /\ FromInitialPool(b) \/ FromFreeList(b) \/ FromHeap(b)
  <2>1. CASE used < PoolSize /\ b = used + 1 /\ used' = used + 1 /\ UNCHANGED <<blocks, pool>>
    BY <1>3, <2>1 DEF FromInitialPool
  <2>2. CASE used >= PoolSize /\ b \in pool /\ pool' = pool \ {b}
                 /\ blocks' = [blocks EXCEPT ![b].dequeued = 0]
             /\ UNCHANGED used
    <3>1. b \in DOMAIN blocks
      BY <2>2 DEF Ownership, PoolOwns
    <3>2. PICK o : o = [blocks[b] EXCEPT !.dequeued = 0]
      OBVIOUS
    <3>3. blocks[b] \in Blocks
      BY <1>3, <3>1
    <3>4. o \in Blocks /\ o.dequeued = 0 /\ o.elements = blocks[b].elements
      BY <3>2, <3>3 DEF Blocks
    <3>5. blocks' = [blocks EXCEPT ![b] = o]
      BY <2>2, <3>2
    <3>6. /\ blocks' \in Seq(Blocks) /\ Len(blocks') = Len(blocks)
          /\ DOMAIN blocks' = DOMAIN blocks
          /\ blocks'[b] = o /\ \A d \in DOMAIN blocks \ {b} : blocks'[d] = blocks[d]
      BY <1>3, <3>1, <3>4, <3>5
    <3>7. pool' \subseteq Nat /\ used' \in Nat
      BY <1>3, <2>2
    <3> QED BY <2>2, <3>1, <3>4, <3>6, <3>7 DEF FromFreeList
  <2>3. CASE used >= PoolSize /\ b = Len(blocks) + 1 /\ blocks' = Append(blocks, NewBlock)
                 /\ UNCHANGED <<used, pool>>
    <3>1. PICK o \in Blocks : o = NewBlock /\ o.dequeued = 0
      BY NewBlockFields
    <3>2. blocks' = Append(blocks, o)
      BY <2>3, <3>1
    <3>3. /\ blocks' \in Seq(Blocks) /\ Len(blocks') = Len(blocks) + 1
          /\ blocks'[Len(blocks) + 1] = o
          /\ \A d \in DOMAIN blocks : blocks'[d] = blocks[d]
      BY <1>3, <3>2
    <3>4. DOMAIN blocks' = 1 .. Len(blocks) + 1
      BY <3>3
    <3>5. /\ b \in DOMAIN blocks' /\ b \notin DOMAIN blocks
          /\ \A d \in DOMAIN blocks : d \in DOMAIN blocks'
          /\ \A d \in DOMAIN blocks' : d \in DOMAIN blocks \/ d = b
      BY <1>3, <2>3, <3>4
    <3> QED BY <1>3, <2>3, <3>1, <3>3, <3>5 DEF FromHeap
  <2> QED BY <1>5, <2>1, <2>2, <2>3
<1>12. TypeOK' /\ ThrOnly(t)
  BY <1>4, <1>10, <1>11 DEF TypeOK, ThrOnly
<1> QED BY <1>1, <1>2, <1>4, <1>7, <1>10, <1>11, <1>12

\* No block can be allocated: the index is as before, and its entry is free.
LEMMA RequisitionFailsStep ==
  ASSUME TypeOK, ThreadsSound, IndexShape, NEW t \in Threads, requisitionFails(t), NEW p,
             p = thr[t].producer
  PROVE  /\ TypeOK' /\ ThrOnly(t)
         /\ UNCHANGED <<tables, hashCount, resizing, blocks, used, pool>>
         /\ thr[t].at = "requisition" /\ p \in DOMAIN producers /\ producers[p].owner = t
         /\ Doing(p) = "requisition"
         /\ producers[p].indices # <<>>
         /\ Current(p) \in Headers /\ CapacityOf(Current(p)) \in Nat \ {0}
         /\ DOMAIN Current(p).index = 0 .. CapacityOf(Current(p)) - 1
         /\ Current(p).tail \in 0 .. CapacityOf(Current(p)) - 1
         /\ NextPosition(Current(p)) \in 0 .. CapacityOf(Current(p)) - 1
         /\ Len(producers[p].indices) \in DOMAIN producers[p].indices
         /\ \A i \in 0 .. CapacityOf(Current(p)) - 1 :
                Current(p).index[i] \in DOMAIN producers[p].entries
         /\ thr'[t].at = "idle" /\ thr'[t].main = 0 /\ thr'[t].count = 0
         /\ thr'[t].sent = thr[t].sent /\ thr'[t].producer = thr[t].producer
         /\ thr'[t].block = thr[t].block
         /\ OnlyAt(p)
         /\ producers'[p].owner = producers[p].owner /\ producers'[p].tail = producers[p].tail
         /\ producers'[p].head = producers[p].head
         /\ producers'[p].optimistic = producers[p].optimistic
         /\ producers'[p].overcommit = producers[p].overcommit
         /\ producers'[p].tailBlock = producers[p].tailBlock
         /\ DOMAIN producers'[p].indices = DOMAIN producers[p].indices
         /\ Len(producers'[p].indices) = Len(producers[p].indices)
         /\ producers'[p].indices[Len(producers[p].indices)].tail
                = ((Current(p).tail - 1) % CapacityOf(Current(p)))
         /\ producers'[p].indices[Len(producers[p].indices)].index
                = producers[p].indices[Len(producers[p].indices)].index
         /\ \A e \in DOMAIN producers[p].indices \ {Len(producers[p].indices)} :
                producers'[p].indices[e] = producers[p].indices[e]
         /\ DOMAIN producers'[p].entries = DOMAIN producers[p].entries
         /\ Len(producers'[p].entries) = Len(producers[p].entries)
         /\ producers'[p].entries[Current(p).index[Current(p).tail]].value = NoBlock
         /\ producers'[p].entries[Current(p).index[Current(p).tail]].key
                = producers[p].entries[Current(p).index[Current(p).tail]].key
         /\ \A e \in DOMAIN producers[p].entries \ {Current(p).index[Current(p).tail]} :
                producers'[p].entries[e] = producers[p].entries[e]
<1>1. thr[t] \in ThreadType /\ thr[t].at = "requisition"
  BY DEF TypeOK, requisitionFails, ThrAt
<1>2. p \in DOMAIN producers /\ producers[p].owner = t /\ Doing(p) = "requisition"
  BY <1>1 DEF ThreadsSound, ThreadSound, Enqueueing, Doing
<1>3. producers[p] \in ProducerType
  BY <1>2 DEF TypeOK
<1>4. /\ producers[p].owner \in Threads /\ producers[p].tail \in Nat
      /\ producers[p].head \in Nat
      /\ producers[p].tailBlock \in Nat /\ producers[p].indices \in Seq(Headers)
      /\ producers[p].entries \in Seq(Entries)
  BY <1>3 DEF ProducerType
<1>5. /\ producers[p].indices # <<>>
      /\ Current(p) \in Headers /\ CapacityOf(Current(p)) \in Nat \ {0}
      /\ DOMAIN Current(p).index = 0 .. CapacityOf(Current(p)) - 1
      /\ Current(p).tail \in 0 .. CapacityOf(Current(p)) - 1
      /\ NextPosition(Current(p)) \in 0 .. CapacityOf(Current(p)) - 1
      /\ Len(producers[p].indices) \in DOMAIN producers[p].indices
      /\ \A i \in 0 .. CapacityOf(Current(p)) - 1 :
             Current(p).index[i] \in DOMAIN producers[p].entries
  <2>1. producers[p].indices # <<>>
    BY <1>2 DEF IndexShape, ShapeAt
  <2> QED BY <1>2, <2>1, CurrentShape
<1>6. (Current(p).tail - 1) % CapacityOf(Current(p)) \in Nat
  <2>1. PICK n \in Nat \ {0} : n = CapacityOf(Current(p))
    BY <1>5
  <2>2. PICK y \in 0 .. n - 1 : y = Current(p).tail
    BY <1>5, <2>1
  <2>3. (y - 1) % n \in 0 .. n - 1
    BY RingSteps
  <2> QED BY <2>1, <2>2, <2>3
<1>7. Current(p).index[Current(p).tail] \in DOMAIN producers[p].entries /\ NoBlock \in Nat
  BY <1>5 DEF NoBlock
<1>8. PICK r : r = [thr[t] EXCEPT !.at = "idle", !.main = 0, !.count = 0]
  OBVIOUS
<1>9. /\ r.at = "idle" /\ r.main = 0 /\ r.count = 0
      /\ r.sent = thr[t].sent /\ r.producer = thr[t].producer /\ r.block = thr[t].block
  BY <1>1, <1>8 DEF ThreadType
<1>10. r \in ThreadType
  BY <1>1, <1>6, <1>7, <1>8 DEF ThreadType
<1>11. Now(t, r)
  BY <1>8 DEF requisitionFails, Fails
<1>12. thr' \in [Threads -> ThreadType] /\ thr'[t] = r
           /\ \A u \in Threads \ {t} : thr'[u] = thr[u]
  BY <1>10, <1>11, ThrStep
<1>13. UNCHANGED <<tables, hashCount, resizing, team, con, blocks, used, pool>>
  BY DEF requisitionFails, qvars, Fails
<1>14. PICK o : o = [producers[p] EXCEPT !.indices[Len(producers[p].indices)].tail
           = ((Current(p).tail - 1) % CapacityOf(Current(p))),
               !.entries[Current(p).index[Current(p).tail]].value = NoBlock]
  OBVIOUS
<1>15. PICK hs, l, x : hs = producers[p].indices /\ l = Len(producers[p].indices)
           /\ x = ((Current(p).tail - 1) % CapacityOf(Current(p)))
  OBVIOUS
<1>16. hs \in Seq(Headers) /\ l \in DOMAIN hs /\ x \in Nat
  BY <1>4, <1>5, <1>6, <1>15
<1>17. PICK ind : ind = [hs EXCEPT ![l].tail = x]
  OBVIOUS
<1>18. /\ ind \in Seq(Headers)
      /\ DOMAIN ind = DOMAIN hs /\ Len(ind) = Len(hs)
      /\ ind[l].tail = x
      /\ ind[l].index = hs[l].index
      /\ \A e \in DOMAIN hs \ {l} : ind[e] = hs[e]
  BY <1>16, <1>17, HeaderTailStep
<1>19. /\ ind \in Seq(Headers)
      /\ DOMAIN ind = DOMAIN producers[p].indices /\ Len(ind) = Len(producers[p].indices)
      /\ ind[Len(producers[p].indices)].tail = ((Current(p).tail - 1) % CapacityOf(Current(p)))
      /\ ind[Len(producers[p].indices)].index
             = producers[p].indices[Len(producers[p].indices)].index
      /\ \A e \in DOMAIN producers[p].indices \ {Len(producers[p].indices)} :
             ind[e] = producers[p].indices[e]
  BY <1>15, <1>18
<1>20. PICK es, k, v : es = producers[p].entries /\ k = Current(p).index[Current(p).tail]
           /\ v = NoBlock
  OBVIOUS
<1>21. es \in Seq(Entries) /\ k \in DOMAIN es /\ v \in Nat
  BY <1>4, <1>7, <1>20
<1>22. PICK en : en = [es EXCEPT ![k].value = v]
  OBVIOUS
<1>23. /\ en \in Seq(Entries)
      /\ DOMAIN en = DOMAIN es /\ Len(en) = Len(es)
      /\ en[k].value = v
      /\ en[k].key = es[k].key
      /\ \A e \in DOMAIN es \ {k} : en[e] = es[e]
  BY <1>21, <1>22, ValueStep
<1>24. /\ en \in Seq(Entries)
      /\ DOMAIN en = DOMAIN producers[p].entries /\ Len(en) = Len(producers[p].entries)
      /\ en[Current(p).index[Current(p).tail]].value = NoBlock
      /\ en[Current(p).index[Current(p).tail]].key
             = producers[p].entries[Current(p).index[Current(p).tail]].key
      /\ \A e \in DOMAIN producers[p].entries \ {Current(p).index[Current(p).tail]} :
             en[e] = producers[p].entries[e]
  BY <1>20, <1>23
<1>25. o = [producers[p] EXCEPT !.indices = ind, !.entries = en]
  BY <1>3, <1>14, <1>17, <1>15, <1>22, <1>20
<1>26. /\ o.indices = ind /\ o.entries = en /\ o.owner = producers[p].owner
      /\ o.tail = producers[p].tail /\ o.head = producers[p].head
      /\ o.optimistic = producers[p].optimistic
      /\ o.overcommit = producers[p].overcommit /\ o.tailBlock = producers[p].tailBlock
  BY <1>3, <1>25 DEF ProducerType
<1>27. o \in ProducerType
  BY <1>3, <1>19, <1>24, <1>25 DEF ProducerType
<1>28. producers' = [producers EXCEPT ![p] = o]
  BY <1>14 DEF requisitionFails, mine, Current
<1>29. producers' \in Seq(ProducerType) /\ OnlyAt(p) /\ producers'[p] = o
  BY <1>2, <1>27, <1>28, ProducerStep
<1>30. failures' \in Nat
  <2>1. Fails(t)
    BY DEF requisitionFails
  <2> QED BY <2>1 DEF Fails, TypeOK
<1>31. TypeOK' /\ ThrOnly(t)
  BY <1>12, <1>13, <1>19, <1>24, <1>26, <1>29, <1>30 DEF TypeOK, ThrOnly
<1> QED BY <1>1, <1>2, <1>5, <1>9, <1>12, <1>13, <1>19, <1>24, <1>26, <1>29, <1>30, <1>31

\* The new entry leads to the block.
LEMMA StoreBlockStep ==
  ASSUME TypeOK, ThreadsSound, IndexShape, NEW t \in Threads, storeBlock(t), NEW p,
             p = thr[t].producer
  PROVE  /\ TypeOK' /\ ThrOnly(t)
         /\ UNCHANGED <<tables, hashCount, resizing, failures, blocks, used, pool>>
         /\ thr[t].at = "store" /\ p \in DOMAIN producers /\ producers[p].owner = t
         /\ Doing(p) = "store"
         /\ producers[p].indices # <<>>
         /\ Current(p) \in Headers /\ CapacityOf(Current(p)) \in Nat \ {0}
         /\ DOMAIN Current(p).index = 0 .. CapacityOf(Current(p)) - 1
         /\ Current(p).tail \in 0 .. CapacityOf(Current(p)) - 1
         /\ NextPosition(Current(p)) \in 0 .. CapacityOf(Current(p)) - 1
         /\ Len(producers[p].indices) \in DOMAIN producers[p].indices
         /\ \A i \in 0 .. CapacityOf(Current(p)) - 1 :
                Current(p).index[i] \in DOMAIN producers[p].entries
         /\ thr'[t].at = "write" /\ thr'[t].sent = thr[t].sent /\ thr'[t].main = thr[t].main
         /\ thr'[t].count = thr[t].count /\ thr'[t].producer = thr[t].producer
         /\ thr'[t].block = thr[t].block
         /\ OnlyAt(p)
         /\ producers'[p].owner = producers[p].owner /\ producers'[p].tail = producers[p].tail
         /\ producers'[p].head = producers[p].head
         /\ producers'[p].optimistic = producers[p].optimistic
         /\ producers'[p].overcommit = producers[p].overcommit
         /\ producers'[p].indices = producers[p].indices
         /\ DOMAIN producers'[p].entries = DOMAIN producers[p].entries
         /\ Len(producers'[p].entries) = Len(producers[p].entries)
         /\ producers'[p].entries[Current(p).index[Current(p).tail]].value = thr[t].block
         /\ producers'[p].entries[Current(p).index[Current(p).tail]].key
                = producers[p].entries[Current(p).index[Current(p).tail]].key
         /\ \A e \in DOMAIN producers[p].entries \ {Current(p).index[Current(p).tail]} :
                producers'[p].entries[e] = producers[p].entries[e]
         /\ producers'[p].tailBlock = thr[t].block
<1>1. thr[t] \in ThreadType /\ thr[t].at = "store"
  BY DEF TypeOK, storeBlock, ThrAt
<1>2. p \in DOMAIN producers /\ producers[p].owner = t /\ Doing(p) = "store"
  BY <1>1 DEF ThreadsSound, ThreadSound, Enqueueing, Doing
<1>3. producers[p] \in ProducerType
  BY <1>2 DEF TypeOK
<1>4. /\ producers[p].owner \in Threads /\ producers[p].tail \in Nat
      /\ producers[p].head \in Nat
      /\ producers[p].tailBlock \in Nat /\ producers[p].indices \in Seq(Headers)
      /\ producers[p].entries \in Seq(Entries)
  BY <1>3 DEF ProducerType
<1>5. /\ producers[p].indices # <<>>
      /\ Current(p) \in Headers /\ CapacityOf(Current(p)) \in Nat \ {0}
      /\ DOMAIN Current(p).index = 0 .. CapacityOf(Current(p)) - 1
      /\ Current(p).tail \in 0 .. CapacityOf(Current(p)) - 1
      /\ NextPosition(Current(p)) \in 0 .. CapacityOf(Current(p)) - 1
      /\ Len(producers[p].indices) \in DOMAIN producers[p].indices
      /\ \A i \in 0 .. CapacityOf(Current(p)) - 1 :
             Current(p).index[i] \in DOMAIN producers[p].entries
  <2>1. producers[p].indices # <<>>
    BY <1>2 DEF IndexShape, ShapeAt
  <2> QED BY <1>2, <2>1, CurrentShape
<1>6. Current(p).index[Current(p).tail] \in DOMAIN producers[p].entries /\ thr[t].block \in Nat
  BY <1>1, <1>5 DEF ThreadType
<1>7. PICK r : r = [thr[t] EXCEPT !.at = "write"]
  OBVIOUS
<1>8. /\ r.at = "write" /\ r.sent = thr[t].sent /\ r.main = thr[t].main
      /\ r.count = thr[t].count /\ r.producer = thr[t].producer /\ r.block = thr[t].block
  BY <1>1, <1>7 DEF ThreadType
<1>9. r \in ThreadType
  BY <1>1, <1>6, <1>7 DEF ThreadType
<1>10. Now(t, r)
  BY <1>7 DEF storeBlock, Jump
<1>11. thr' \in [Threads -> ThreadType] /\ thr'[t] = r
           /\ \A u \in Threads \ {t} : thr'[u] = thr[u]
  BY <1>9, <1>10, ThrStep
<1>12. UNCHANGED <<tables, hashCount, resizing, team, con, failures, blocks, used, pool>>
  BY DEF storeBlock, qvars, Jump
<1>13. PICK o : o = [producers[p] EXCEPT !.entries[Current(p).index[Current(p).tail]].value
           = thr[t].block, !.tailBlock = thr[t].block]
  OBVIOUS
<1>14. PICK es, k, v : es = producers[p].entries /\ k = Current(p).index[Current(p).tail]
           /\ v = thr[t].block
  OBVIOUS
<1>15. es \in Seq(Entries) /\ k \in DOMAIN es /\ v \in Nat
  BY <1>4, <1>6, <1>14
<1>16. PICK en : en = [es EXCEPT ![k].value = v]
  OBVIOUS
<1>17. /\ en \in Seq(Entries)
      /\ DOMAIN en = DOMAIN es /\ Len(en) = Len(es)
      /\ en[k].value = v
      /\ en[k].key = es[k].key
      /\ \A e \in DOMAIN es \ {k} : en[e] = es[e]
  BY <1>15, <1>16, ValueStep
<1>18. /\ en \in Seq(Entries)
      /\ DOMAIN en = DOMAIN producers[p].entries /\ Len(en) = Len(producers[p].entries)
      /\ en[Current(p).index[Current(p).tail]].value = thr[t].block
      /\ en[Current(p).index[Current(p).tail]].key
             = producers[p].entries[Current(p).index[Current(p).tail]].key
      /\ \A e \in DOMAIN producers[p].entries \ {Current(p).index[Current(p).tail]} :
             en[e] = producers[p].entries[e]
  BY <1>14, <1>17
<1>19. o = [producers[p] EXCEPT !.entries = en, !.tailBlock = thr[t].block]
  BY <1>3, <1>13, <1>16, <1>14
<1>20. /\ o.entries = en /\ o.tailBlock = thr[t].block /\ o.owner = producers[p].owner
      /\ o.tail = producers[p].tail /\ o.head = producers[p].head
      /\ o.optimistic = producers[p].optimistic
      /\ o.overcommit = producers[p].overcommit /\ o.indices = producers[p].indices
  BY <1>3, <1>19 DEF ProducerType
<1>21. o \in ProducerType
  BY <1>3, <1>18, <1>6, <1>19 DEF ProducerType
<1>22. producers' = [producers EXCEPT ![p] = o]
  BY <1>13 DEF storeBlock, Jump, mine, Current
<1>23. producers' \in Seq(ProducerType) /\ OnlyAt(p) /\ producers'[p] = o
  BY <1>2, <1>21, <1>22, ProducerStep
<1>24. TypeOK' /\ ThrOnly(t)
  BY <1>11, <1>12, <1>18, <1>20, <1>23 DEF TypeOK, ThrOnly
<1> QED BY <1>1, <1>2, <1>5, <1>8, <1>11, <1>12, <1>18, <1>20, <1>23, <1>24

\* The element is written.
LEMMA WriteElementStep ==
  ASSUME TypeOK, ThreadsSound, NEW t \in Threads, writeElement(t), NEW p, p = thr[t].producer,
         NEW b \in DOMAIN blocks, b = producers[p].tailBlock
  PROVE  /\ TypeOK' /\ ThrOnly(t)
         /\ UNCHANGED <<tables, hashCount, resizing, producers, failures, used, pool>>
         /\ thr[t].at = "write" /\ p \in DOMAIN producers /\ producers[p].owner = t
         /\ Doing(p) = "write"
         /\ thr'[t].at = "publish" /\ thr'[t].sent = thr[t].sent /\ thr'[t].main = thr[t].main
         /\ thr'[t].count = thr[t].count /\ thr'[t].producer = thr[t].producer
         /\ thr'[t].block = thr[t].block
         /\ Len(blocks') = Len(blocks) /\ DOMAIN blocks' = DOMAIN blocks
         /\ \A d \in DOMAIN blocks \ {b} : blocks'[d] = blocks[d]
         /\ blocks'[b].dequeued = blocks[b].dequeued
         /\ blocks'[b].elements = [blocks[b].elements EXCEPT ![Slot(producers[p].tail)]
                = Item(t)]
<1>1. thr[t] \in ThreadType /\ thr[t].at = "write"
  BY DEF TypeOK, writeElement, ThrAt
<1>2. p \in DOMAIN producers /\ producers[p].owner = t /\ Doing(p) = "write"
  BY <1>1 DEF ThreadsSound, ThreadSound, Enqueueing, Doing
<1>3. blocks \in Seq(Blocks) /\ blocks[b] \in Blocks
  BY DEF TypeOK
<1>4. PICK r : r = [thr[t] EXCEPT !.at = "publish"]
  OBVIOUS
<1>5. /\ r.at = "publish" /\ r.block = thr[t].block /\ r.sent = thr[t].sent
      /\ r.main = thr[t].main
      /\ r.count = thr[t].count /\ r.producer = thr[t].producer
  BY <1>1, <1>4 DEF ThreadType
<1>6. r \in ThreadType
  BY <1>1, <1>4 DEF ThreadType
<1>7. Now(t, r)
  BY <1>4 DEF writeElement, Jump
<1>8. thr' \in [Threads -> ThreadType] /\ thr'[t] = r
          /\ \A u \in Threads \ {t} : thr'[u] = thr[u]
  BY <1>6, <1>7, ThrStep
<1>9. UNCHANGED <<tables, hashCount, resizing, team, con, producers, failures, used, pool>>
  BY DEF writeElement, qvars
<1>10. PICK x, i : x = Slot(producers[p].tail) /\ i = Item(t)
  OBVIOUS
<1>11. i \in Items
  <2>1. thr[t].sent + 1 \in Nat
    BY <1>1 DEF ThreadType
  <2> QED BY <1>10, <2>1 DEF Item, Items
<1>12. PICK f : f = [blocks[b].elements EXCEPT ![x] = i]
  OBVIOUS
<1>13. f \in [0 .. BlockSize - 1 -> Items]
  BY <1>3, <1>11, <1>12 DEF Blocks
<1>14. PICK o : o = [blocks[b] EXCEPT !.elements = f]
  OBVIOUS
<1>15. o \in Blocks /\ o.dequeued = blocks[b].dequeued /\ o.elements = f
  BY <1>3, <1>13, <1>14 DEF Blocks
<1>16. blocks' = [blocks EXCEPT ![b] = o]
  <2>1. blocks' = [blocks EXCEPT ![b].elements[x] = i]
    BY <1>10 DEF writeElement, mine
  <2>2. [blocks[b] EXCEPT !.elements[x] = i] = o
    BY <1>3, <1>12, <1>14 DEF Blocks
  <2> QED BY <2>1, <2>2
<1>17. /\ blocks' \in Seq(Blocks) /\ Len(blocks') = Len(blocks)
       /\ DOMAIN blocks' = DOMAIN blocks
       /\ blocks'[b] = o /\ \A d \in DOMAIN blocks \ {b} : blocks'[d] = blocks[d]
  BY <1>3, <1>15, <1>16
<1>18. TypeOK' /\ ThrOnly(t)
  BY <1>8, <1>9, <1>17 DEF TypeOK, ThrOnly
<1> QED BY <1>1, <1>2, <1>5, <1>8, <1>9, <1>10, <1>12, <1>15, <1>17, <1>18

\* The element is there for consumers.
LEMMA StoreTailStep ==
  ASSUME TypeOK, ThreadsSound, NEW t \in Threads, storeTail(t), NEW p, p = thr[t].producer
  PROVE  /\ TypeOK' /\ ThrOnly(t)
         /\ UNCHANGED <<tables, hashCount, resizing, failures, blocks, used, pool>>
         /\ thr[t].at = "publish" /\ p \in DOMAIN producers /\ producers[p].owner = t
         /\ Doing(p) = "publish"
         /\ thr'[t].at = "idle" /\ thr'[t].sent = thr[t].sent + 1 /\ thr'[t].block = NoBlock
         /\ thr'[t].main = thr[t].main /\ thr'[t].count = thr[t].count
         /\ thr'[t].producer = thr[t].producer
         /\ OnlyAt(p)
         /\ producers'[p].owner = producers[p].owner /\ producers'[p].head = producers[p].head
         /\ producers'[p].optimistic = producers[p].optimistic
         /\ producers'[p].overcommit = producers[p].overcommit
         /\ producers'[p].tailBlock = producers[p].tailBlock
         /\ producers'[p].indices = producers[p].indices
         /\ producers'[p].entries = producers[p].entries
         /\ producers'[p].tail = producers[p].tail + 1
<1>1. thr[t] \in ThreadType /\ thr[t].at = "publish"
  BY DEF TypeOK, storeTail, ThrAt
<1>2. p \in DOMAIN producers /\ producers[p].owner = t /\ Doing(p) = "publish"
  BY <1>1 DEF ThreadsSound, ThreadSound, Enqueueing, Doing
<1>3. producers[p] \in ProducerType
  BY <1>2 DEF TypeOK
<1>4. /\ producers[p].owner \in Threads /\ producers[p].tail \in Nat
      /\ producers[p].head \in Nat
      /\ producers[p].tailBlock \in Nat /\ producers[p].indices \in Seq(Headers)
      /\ producers[p].entries \in Seq(Entries)
  BY <1>3 DEF ProducerType
<1>5. producers[p].tail + 1 \in Nat
  BY <1>4
<1>6. thr[t].sent + 1 \in Nat /\ NoBlock \in Nat
  BY <1>1 DEF ThreadType, NoBlock
<1>7. PICK r : r = [thr[t] EXCEPT !.at = "idle", !.sent = thr[t].sent + 1, !.block = NoBlock]
  OBVIOUS
<1>8. /\ r.at = "idle" /\ r.sent = thr[t].sent + 1 /\ r.block = NoBlock
      /\ r.main = thr[t].main /\ r.count = thr[t].count /\ r.producer = thr[t].producer
  BY <1>1, <1>7 DEF ThreadType
<1>9. r \in ThreadType
  BY <1>1, <1>5, <1>6, <1>7 DEF ThreadType
<1>10. Now(t, r)
  BY <1>7 DEF storeTail
<1>11. thr' \in [Threads -> ThreadType] /\ thr'[t] = r
           /\ \A u \in Threads \ {t} : thr'[u] = thr[u]
  BY <1>9, <1>10, ThrStep
<1>12. UNCHANGED <<tables, hashCount, resizing, team, con, failures, blocks, used, pool>>
  BY DEF storeTail, qvars
<1>13. PICK o : o = [producers[p] EXCEPT !.tail = producers[p].tail + 1]
  OBVIOUS
<1>14. /\ o.tail = producers[p].tail + 1 /\ o.owner = producers[p].owner
       /\ o.head = producers[p].head
      /\ o.optimistic = producers[p].optimistic /\ o.overcommit = producers[p].overcommit
      /\ o.tailBlock = producers[p].tailBlock
      /\ o.indices = producers[p].indices /\ o.entries = producers[p].entries
  BY <1>3, <1>13 DEF ProducerType
<1>15. o \in ProducerType
  BY <1>3, <1>5, <1>13 DEF ProducerType
<1>16. producers' = [producers EXCEPT ![p] = o]
  BY <1>13 DEF storeTail, mine
<1>17. producers' \in Seq(ProducerType) /\ OnlyAt(p) /\ producers'[p] = o
  BY <1>2, <1>15, <1>16, ProducerStep
<1>18. TypeOK' /\ ThrOnly(t)
  BY <1>11, <1>12, <1>14, <1>17 DEF TypeOK, ThrOnly
<1> QED BY <1>1, <1>2, <1>8, <1>11, <1>12, <1>14, <1>17, <1>18

\* A producer with a block index of its own, or without one.
LEMMA NewProducer ==
  ASSUME NEW t \in Threads, NEW hs \in Seq(Headers), NEW es \in Seq(Entries)
  PROVE  /\ Producer(t, hs, es) \in ProducerType
         /\ Producer(t, hs, es).owner = t /\ Producer(t, hs, es).tail = 0
         /\ Producer(t, hs, es).head = 0
         /\ Producer(t, hs, es).optimistic = 0 /\ Producer(t, hs, es).overcommit = 0
         /\ Producer(t, hs, es).indices = hs /\ Producer(t, hs, es).entries = es
BY DEF Producer, ProducerType, NoBlock

\* The index an implicit producer begins with.
LEMMA FirstIndexShape ==
  /\ FirstIndex \in Headers /\ FirstIndex.tail = IndexSize - 1
  /\ DOMAIN FirstIndex.index = 0 .. IndexSize - 1
  /\ \A i \in 0 .. IndexSize - 1 : FirstIndex.index[i] = i + 1
<1>1. PICK f : f = [i \in 0 .. IndexSize - 1 |-> i + 1]
  OBVIOUS
<1>2. IndexSize \in Nat \ {0} /\ IndexSize - 1 \in Nat
  BY QueueConstants
<1>3. f \in [0 .. IndexSize - 1 -> Nat] /\ DOMAIN f = 0 .. IndexSize - 1
      /\ \A i \in 0 .. IndexSize - 1 : f[i] = i + 1
  BY <1>1, <1>2
<1> QED BY <1>1, <1>2, <1>3 DEF FirstIndex, Headers

\* A producer without a block index, because there was no memory for one.
LEMMA NoIndexMadeStep ==
  ASSUME TypeOK, NEW t \in Threads, ThrAt(t, "create"), failures > 0, failures' = failures - 1,
         producers' = Append(producers, Producer(t, <<>>, <<>>)),
         Now(t, [thr[t] EXCEPT !.at = "insert", !.producer = Len(producers) + 1]),
         UNCHANGED <<tables, hashCount, resizing, team, blocks, used, pool, con>>
  PROVE  /\ TypeOK' /\ ThrOnly(t) /\ thr[t].at = "create"
         /\ thr'[t].at = "insert" /\ thr'[t].producer = Len(producers) + 1
         /\ thr'[t].sent = thr[t].sent /\ thr'[t].main = thr[t].main
         /\ thr'[t].count = thr[t].count
         /\ thr'[t].block = thr[t].block
         /\ ProducerAdded(Producer(t, <<>>, <<>>))
<1>1. thr[t] \in ThreadType /\ thr[t].at = "create" /\ Len(producers) + 1 \in Nat
  BY DEF TypeOK, ThrAt
<1>2. PICK r : r = [thr[t] EXCEPT !.at = "insert", !.producer = Len(producers) + 1]
  OBVIOUS
<1>3. /\ r.at = "insert" /\ r.block = thr[t].block /\ r.sent = thr[t].sent
      /\ r.main = thr[t].main
      /\ r.count = thr[t].count /\ r.producer = Len(producers) + 1
  BY <1>1, <1>2 DEF ThreadType
<1>4. r \in ThreadType
  BY <1>1, <1>2 DEF ThreadType
<1>5. thr' \in [Threads -> ThreadType] /\ thr'[t] = r
          /\ \A u \in Threads \ {t} : thr'[u] = thr[u]
  BY <1>2, <1>4, ThrStep
<1>6. <<>> \in Seq(Headers) /\ <<>> \in Seq(Entries)
  OBVIOUS
<1>7. Producer(t, <<>>, <<>>) \in ProducerType
  BY <1>6, NewProducer
<1>8. ProducerAdded(Producer(t, <<>>, <<>>))
  BY <1>7, AddProducer
<1>9. producers' \in Seq(ProducerType)
  BY <1>8 DEF ProducerAdded
<1>10. failures' \in Nat
  BY DEF TypeOK
<1>11. TypeOK' /\ ThrOnly(t)
  BY <1>5, <1>9, <1>10 DEF TypeOK, ThrOnly
<1> QED BY <1>1, <1>3, <1>5, <1>8, <1>11
-----------------------------------------------------------------------------
(* The hash of producers stays sound.                                      *)

\* The fields of a producer have their types.
LEMMA ProducerTyped ==
  ASSUME TypeOK, NEW p \in DOMAIN producers
  PROVE  /\ producers[p].owner \in Threads /\ producers[p].tail \in Nat
         /\ producers[p].head \in Nat
         /\ producers[p].optimistic \in Nat /\ producers[p].overcommit \in Nat
         /\ producers[p].tailBlock \in Nat
         /\ producers[p].indices \in Seq(Headers) /\ producers[p].entries \in Seq(Entries)
<1>1. producers[p] \in ProducerType
  BY DEF TypeOK
<1> QED BY <1>1 DEF ProducerType

\* The tables as they are do not lose a thread, or change what a count admits.
LEMMA SameTables ==
  ASSUME UNCHANGED tables
  PROVE  /\ \A i : Capacity(i)' = Capacity(i) /\ Limit(i)' = Limit(i)
         /\ \A t, i : InTable(t, i)' <=> InTable(t, i)
         /\ \A i, t, k : SlotOf(i, t, k)' = SlotOf(i, t, k)
BY DEF Capacity, Limit, InTable, SlotOf

\* A thread changes nothing of the hash table if it goes on counted, or uncounted,
\* as before.
Undisturbed(u) ==
  \/ thr'[u] = thr[u]
  \/ /\ ThreadSound(u)'
     /\ \/ thr[u].at \notin Joining /\ thr'[u].at \notin Joining
        \/ thr[u].at \in Joining \ {"insert"} /\ thr'[u].at \in Joining
               /\ thr'[u].count = thr[u].count

\* Steps that leave the tables, the count and the owners leave the hash sound.
LEMMA HashFrame ==
  ASSUME TypeOK, HashInv, UNCHANGED <<tables, hashCount>>,
         DOMAIN producers' = DOMAIN producers,
         \A p \in DOMAIN producers : producers'[p].owner = producers[p].owner,
         \A u \in Threads : Undisturbed(u)
  PROVE  HashInv'
<1>1. /\ \A i : Capacity(i)' = Capacity(i) /\ Limit(i)' = Limit(i)
      /\ \A t, i : InTable(t, i)' <=> InTable(t, i)
      /\ \A i, t, k : SlotOf(i, t, k)' = SlotOf(i, t, k)
  BY SameTables
<1>2. TablesGrow'
  BY <1>1 DEF HashInv, TablesGrow
<1>3. Crowds'
  <2>1. ASSUME NEW u \in Threads
        PROVE  /\ thr'[u].at \in Joining <=> thr[u].at \in Joining
               /\ thr[u].at \in Joining => thr'[u].count = thr[u].count
    BY DEF Undisturbed
  <2>2. Joined' = Joined
    BY <1>1, <2>1 DEF Joined
  <2>3. ASSUME NEW n \in Nat PROVE Early(n)' = Early(n)
    BY <1>1, <2>1 DEF Early
  <2>4. hashCount' = hashCount
    OBVIOUS
  <2>5. hashCount = Cardinality(Joined) /\ \A n \in Nat : Cardinality(Early(n)) <= n
    BY DEF HashInv, Crowds
  <2>6. \A n \in Nat : Cardinality(Early(n)') <= n
    BY <2>3, <2>5
  <2> QED BY <2>2, <2>4, <2>5, <2>6 DEF Crowds
<1>4. SlotsSound'
  BY DEF HashInv, SlotsSound
<1>5. Reachable'
  BY <1>1 DEF HashInv, Reachable
<1>6. ThreadsSound'
  <2>1. ASSUME NEW u \in Threads, thr'[u] = thr[u] PROVE ThreadSound(u)'
    BY <1>1, <2>1 DEF HashInv, ThreadsSound, ThreadSound
  <2> QED BY <2>1 DEF ThreadsSound, Undisturbed
<1>7. OwnedOnce'
  BY DEF HashInv, OwnedOnce
<1>8. OwnedFound'
  <2>1. ASSUME NEW p \in DOMAIN producers
        PROVE  \/ thr'[producers[p].owner].at = "insert"
               \/ \E i \in DOMAIN tables : InTable(producers[p].owner, i)'
    <3>1. producers[p].owner \in Threads
      BY ProducerTyped
    <3>2. PICK u \in Threads : u = producers[p].owner
      BY <3>1
    <3>3. thr[u].at = "insert" \/ \E i \in DOMAIN tables : InTable(u, i)
      BY <3>2 DEF HashInv, OwnedFound
    <3>4. CASE \E i \in DOMAIN tables : InTable(u, i)
      BY <1>1, <3>2, <3>4
    <3>5. CASE thr[u].at = "insert" /\ ~ \E i \in DOMAIN tables : InTable(u, i)
      <4>1. thr'[u] = thr[u] \/ thr[u].at # "insert"
        BY <3>5 DEF Undisturbed, Joining
      <4>2. thr'[u] = thr[u]
        BY <3>5, <4>1 DEF Joining
      <4> QED BY <3>2, <3>5, <4>2
    <3> QED BY <3>3, <3>4, <3>5
  <2>2. ASSUME NEW p \in DOMAIN producers
        PROVE  (\/ thr[producers[p].owner].at = "insert"
                \/ \E i \in DOMAIN tables : InTable(producers[p].owner, i))'
    <3>1. producers'[p].owner = producers[p].owner
      OBVIOUS
    <3> QED BY <2>1, <3>1 DEF InTable
  <2> QED BY <2>2 DEF OwnedFound
<1> QED BY <1>2, <1>3, <1>4, <1>5, <1>6, <1>7, <1>8 DEF HashInv

\* A thread that is counted is in the crowd of its count.
LEMMA AddOneKeepsHash ==
  ASSUME TypeOK, HashInv, NEW t \in Threads, addOne(t),
             UNCHANGED <<team, blocks, used, pool, con>>
  PROVE  HashInv'
<1>1. /\ TypeOK' /\ ThrOnly(t) /\ UNCHANGED <<tables, resizing, failures, producers>>
      /\ thr[t].at = "add" /\ thr'[t].at = "room" /\ thr'[t].count = hashCount + 1
      /\ thr'[t].main = thr[t].main /\ hashCount' = hashCount + 1
  BY AddOneStep DEF HashInv
<1>2. /\ \A i : Capacity(i)' = Capacity(i) /\ Limit(i)' = Limit(i)
      /\ \A u, i : InTable(u, i)' <=> InTable(u, i)
      /\ \A i, u, k : SlotOf(i, u, k)' = SlotOf(i, u, k)
  BY <1>1, SameTables
<1>3. /\ thr[t].main \in DOMAIN tables /\ \A i \in DOMAIN tables : ~ InTable(t, i)
      /\ t \notin Joined
  BY <1>1 DEF HashInv, ThreadsSound, ThreadSound, Joined, Joining
<1>4. \A u \in Threads \ {t} : thr'[u] = thr[u]
  BY <1>1 DEF ThrOnly
<1>5. Crowds'
  <2>1. Joined' = Joined \union {t}
    BY <1>1, <1>2, <1>4 DEF Joined, Joining
  <2>2. IsFiniteSet(Joined)
    <3>1. Joined \in SUBSET Threads
      BY DEF Joined
    <3> QED BY <3>1, HashConstants, FS_Subset
  <2>3. Cardinality(Joined \union {t}) = Cardinality(Joined) + 1
            /\ IsFiniteSet(Joined \union {t})
    BY <1>3, <2>2, FS_AddElement
  <2>4. hashCount = Cardinality(Joined) /\ hashCount \in Nat
            /\ \A n \in Nat : Cardinality(Early(n)) <= n
    BY <2>2, FS_CardinalityType DEF HashInv, Crowds
  <2>5. ASSUME NEW n \in Nat PROVE Cardinality(Early(n)') <= n
    <3>1. CASE hashCount + 1 <= n
      <4>1. Early(n)' \in SUBSET (Joined \union {t})
        BY <2>1 DEF Early, Joined
      <4>2. PICK E, J : E = Early(n)' /\ J = Joined \union {t}
        OBVIOUS
      <4>3. IsFiniteSet(J) /\ E \in SUBSET J /\ Cardinality(J) = hashCount + 1
        BY <2>3, <2>4, <4>1, <4>2
      <4>4. IsFiniteSet(E) /\ Cardinality(E) <= Cardinality(J)
        BY <4>3, FS_Subset
      <4>5. Cardinality(E) \in Nat
        BY <4>4, FS_CardinalityType
      <4> QED BY <2>4, <3>1, <4>2, <4>3, <4>4, <4>5
    <3>2. CASE ~ (hashCount + 1 <= n)
      <4>1. t \notin Early(n) /\ t \notin Early(n)'
        BY <1>1, <1>2, <1>3, <3>2 DEF Early, Joining
      <4>2. \A u \in Threads : u \in Early(n)' <=> u \in Early(n)
        BY <1>1, <1>2, <1>4, <4>1 DEF Early
      <4>3. Early(n)' \subseteq Threads /\ Early(n) \subseteq Threads
        BY DEF Early
      <4>4. Early(n)' = Early(n)
        BY <4>2, <4>3
      <4> QED BY <2>4, <4>4
    <3> QED BY <3>1, <3>2
  <2> QED BY <1>1, <2>1, <2>3, <2>4, <2>5 DEF Crowds
<1>6. ThreadsSound'
  <2>1. ThreadSound(t)'
    BY <1>1, <1>2, <1>3 DEF ThreadSound, Joining, Enqueueing
  <2>2. ASSUME NEW u \in Threads \ {t} PROVE ThreadSound(u)'
    BY <1>1, <1>2, <1>4 DEF HashInv, ThreadsSound, ThreadSound
  <2> QED BY <2>1, <2>2 DEF ThreadsSound
<1>7. TablesGrow' /\ SlotsSound' /\ OwnedOnce'
  BY <1>1, <1>2 DEF HashInv, TablesGrow, SlotsSound, OwnedOnce
<1>8. Reachable'
  BY <1>1, <1>2 DEF HashInv, Reachable
<1>9. OwnedFound'
  <2>1. ASSUME NEW p \in DOMAIN producers
        PROVE  \/ thr'[producers[p].owner].at = "insert"
               \/ \E i \in DOMAIN tables : InTable(producers[p].owner, i)
    <3>1. producers[p].owner \in Threads
      BY ProducerTyped
    <3>2. thr[producers[p].owner].at = "insert"
              \/ \E i \in DOMAIN tables : InTable(producers[p].owner, i)
      BY DEF HashInv, OwnedFound
    <3> QED BY <1>1, <1>4, <3>1, <3>2
  <2> QED BY <1>1, <2>1 DEF OwnedFound, InTable
<1> QED BY <1>5, <1>6, <1>7, <1>8, <1>9 DEF HashInv

\* A thread that gives up before it has a producer is no longer counted.
LEMMA LeaveKeepsHash ==
  ASSUME TypeOK, HashInv, NEW t \in Threads, TypeOK', ThrOnly(t),
             UNCHANGED <<tables, producers>>,
         thr[t].at \in Joining \ {"insert"}, thr'[t].at = "idle", hashCount' = hashCount - 1
  PROVE  HashInv'
<1>1. /\ \A i : Capacity(i)' = Capacity(i) /\ Limit(i)' = Limit(i)
      /\ \A u, i : InTable(u, i)' <=> InTable(u, i)
      /\ \A i, u, k : SlotOf(i, u, k)' = SlotOf(i, u, k)
  BY SameTables
<1>2. /\ \A i \in DOMAIN tables : ~ InTable(t, i)
      /\ t \in Joined
  BY DEF HashInv, ThreadsSound, ThreadSound, Joined, Joining
<1>3. \A u \in Threads \ {t} : thr'[u] = thr[u]
  BY DEF ThrOnly
<1>4. "idle" \notin Joining /\ "idle" \notin Enqueueing
  BY DEF Joining, Enqueueing
<1>5. Crowds'
  <2>1. Joined' = Joined \ {t}
    BY <1>1, <1>2, <1>3, <1>4 DEF Joined
  <2>2. IsFiniteSet(Joined)
    <3>1. Joined \in SUBSET Threads
      BY DEF Joined
    <3> QED BY <3>1, HashConstants, FS_Subset
  <2>3. Cardinality(Joined \ {t}) = Cardinality(Joined) - 1
    BY <1>2, <2>2, FS_RemoveElement
  <2>4. hashCount = Cardinality(Joined) /\ \A n \in Nat : Cardinality(Early(n)) <= n
    BY DEF HashInv, Crowds
  <2>5. ASSUME NEW n \in Nat PROVE Cardinality(Early(n)') <= n
    <3>1. Early(n)' \in SUBSET Early(n)
      BY <1>1, <1>3, <1>4 DEF Early
    <3>2. IsFiniteSet(Early(n))
      <4>1. Early(n) \in SUBSET Threads
        BY DEF Early
      <4> QED BY <4>1, HashConstants, FS_Subset
    <3>3. PICK E, F : E = Early(n)' /\ F = Early(n)
      OBVIOUS
    <3>4. IsFiniteSet(F) /\ E \in SUBSET F /\ Cardinality(F) <= n
      BY <2>4, <3>1, <3>2, <3>3
    <3>5. IsFiniteSet(E) /\ Cardinality(E) <= Cardinality(F)
      BY <3>4, FS_Subset
    <3>6. Cardinality(E) \in Nat /\ Cardinality(F) \in Nat
      BY <3>4, <3>5, FS_CardinalityType
    <3> QED BY <3>3, <3>4, <3>5, <3>6
  <2> QED BY <2>1, <2>3, <2>4, <2>5 DEF Crowds
<1>6. ThreadsSound'
  <2>1. ThreadSound(t)'
    BY <1>4 DEF ThreadSound
  <2>2. ASSUME NEW u \in Threads \ {t} PROVE ThreadSound(u)'
    BY <1>1, <1>3 DEF HashInv, ThreadsSound, ThreadSound
  <2> QED BY <2>1, <2>2 DEF ThreadsSound
<1>7. TablesGrow' /\ SlotsSound' /\ OwnedOnce'
  BY <1>1 DEF HashInv, TablesGrow, SlotsSound, OwnedOnce
<1>8. Reachable'
  BY <1>1 DEF HashInv, Reachable
<1>9. OwnedFound'
  <2>1. ASSUME NEW p \in DOMAIN producers
        PROVE  \/ thr'[producers[p].owner].at = "insert"
               \/ \E i \in DOMAIN tables : InTable(producers[p].owner, i)
    <3>1. producers[p].owner \in Threads
      BY ProducerTyped
    <3>2. thr[producers[p].owner].at = "insert"
              \/ \E i \in DOMAIN tables : InTable(producers[p].owner, i)
      BY DEF HashInv, OwnedFound
    <3> QED BY <1>3, <3>1, <3>2
  <2> QED BY <2>1 DEF OwnedFound, InTable
<1> QED BY <1>5, <1>6, <1>7, <1>8, <1>9 DEF HashInv

\* A new table holds no one.
LEMMA ResizeKeepsHash ==
  ASSUME TypeOK, HashInv, NEW t \in Threads, resize(t), HalfFull(t, Len(tables)),
         UNCHANGED <<team, blocks, used, pool, con>>
  PROVE  HashInv'
<1>1. /\ TypeOK' /\ ThrOnly(t) /\ UNCHANGED <<hashCount, resizing, failures, producers>>
      /\ thr[t].at = "resize" /\ thr'[t].at = "resized" /\ thr'[t].count = thr[t].count
      /\ thr'[t].main = Len(tables) + 1
      /\ \E n \in Nat \ {0} : Capacity(Len(tables)) <= n /\ TableAdded(n)
  BY ResizeStep DEF HashInv
<1>2. PICK n \in Nat \ {0} : Capacity(Len(tables)) <= n /\ TableAdded(n)
  BY <1>1
<1>3. tables \in Seq(Tables) /\ Len(tables) \in Nat /\ DOMAIN tables = 1 .. Len(tables)
          /\ Len(tables) \in DOMAIN tables
  BY DEF TypeOK, HashInv, TablesGrow
<1>4. \A i \in DOMAIN tables : i \in DOMAIN tables' /\ tables'[i] = tables[i]
          /\ Capacity(i)' = Capacity(i)
  BY <1>2 DEF TableAdded
<1>5. PICK m : m = Len(tables) + 1
  OBVIOUS
<1>6. /\ m \in DOMAIN tables' /\ m \notin DOMAIN tables /\ Capacity(m)' = n
      /\ DOMAIN tables'[m] = 0 .. n - 1
      /\ \A s \in 0 .. n - 1 : tables'[m][s].key = NoThread
      /\ \A i \in DOMAIN tables' : i \in DOMAIN tables \/ i = m
  BY <1>2, <1>5 DEF TableAdded
<1>7. \A u \in Threads : ~ InTable(u, m)'
  BY <1>6, HashConstants DEF InTable
<1>8. \A i \in DOMAIN tables : /\ Limit(i)' = Limit(i)
                               /\ \A u : InTable(u, i)' <=> InTable(u, i)
                               /\ \A u, k : SlotOf(i, u, k)' = SlotOf(i, u, k)
  BY <1>4 DEF Limit, InTable, SlotOf
<1>9. ASSUME NEW u \in Threads
      PROVE  /\ thr'[u].at \in Joining <=> thr[u].at \in Joining
             /\ thr[u].at \in Joining => thr'[u].count = thr[u].count
  BY <1>1 DEF ThrOnly, Joining
<1>10. TablesGrow'
  <2>1. ASSUME NEW i \in DOMAIN tables', NEW j \in DOMAIN tables', i <= j
        PROVE Capacity(i)' <= Capacity(j)'
    <3>1. CASE i \in DOMAIN tables /\ j \in DOMAIN tables
      BY <1>4, <2>1, <3>1 DEF HashInv, TablesGrow
    <3>2. CASE i \in DOMAIN tables /\ j = m
      <4>1. Capacity(i) <= Capacity(Len(tables)) /\ Capacity(i) \in Nat
                /\ Capacity(Len(tables)) \in Nat
        BY <1>3, <3>2, TableShape DEF HashInv, TablesGrow
      <4> QED BY <1>2, <1>4, <1>6, <3>2, <4>1
    <3>3. CASE i = m /\ j = m
      BY <1>6, <3>3
    <3>4. ~ (i = m /\ j \in DOMAIN tables)
      BY <1>3, <1>5, <2>1
    <3> QED BY <1>6, <3>1, <3>2, <3>3, <3>4
  <2>2. tables' # <<>>
    BY <1>1, <1>2 DEF TableAdded, TypeOK
  <2> QED BY <2>1, <2>2 DEF TablesGrow
<1>11. Crowds'
  <2>1. Joined' = Joined
    BY <1>4, <1>6, <1>7, <1>8, <1>9 DEF Joined
  <2>2. ASSUME NEW k \in Nat PROVE Early(k)' = Early(k)
    BY <1>4, <1>6, <1>7, <1>8, <1>9 DEF Early
  <2>3. hashCount = Cardinality(Joined) /\ \A k \in Nat : Cardinality(Early(k)) <= k
    BY DEF HashInv, Crowds
  <2>4. \A k \in Nat : Cardinality(Early(k)') <= k
    BY <2>2, <2>3
  <2> QED BY <1>1, <2>1, <2>3, <2>4 DEF Crowds
<1>12. SlotsSound'
  BY <1>1, <1>4, <1>6 DEF HashInv, SlotsSound
<1>13. Reachable'
  <2>1. ASSUME NEW i \in DOMAIN tables', NEW u \in Threads, InTable(u, i)'
        PROVE  \E k \in 0 .. Capacity(i)' - 1 :
                 /\ tables'[i][SlotOf(i, u, k)'].key = u
                 /\ \A j \in 0 .. k - 1 : tables'[i][SlotOf(i, u, j)'].key \notin {u, NoThread}
    <3>1. i \in DOMAIN tables
      BY <1>6, <1>7, <2>1
    <3> QED BY <1>4, <1>8, <2>1, <3>1 DEF HashInv, Reachable
  <2> QED BY <2>1 DEF Reachable
<1>14. ThreadsSound'
  <2>1. ThreadSound(t)'
    <3>1. \A i \in DOMAIN tables' : ~ InTable(t, i)'
      BY <1>1, <1>6, <1>7, <1>8 DEF HashInv, ThreadsSound, ThreadSound, Joining
    <3> QED BY <1>1, <1>5, <1>6, <3>1 DEF ThreadSound, Enqueueing
  <2>2. ASSUME NEW u \in Threads \ {t} PROVE ThreadSound(u)'
    <3>1. ThreadSound(u) /\ thr'[u] = thr[u]
      BY <1>1 DEF HashInv, ThreadsSound, ThrOnly
    <3>2. ASSUME thr[u].at \in {"add", "move"} \union Joining
          PROVE thr[u].main \in DOMAIN tables
      BY <3>1, <3>2 DEF ThreadSound
    <3>3. ASSUME thr[u].at \in {"add"} \union Joining
          PROVE \A i \in DOMAIN tables' : ~ InTable(u, i)'
      BY <1>6, <1>7, <1>8, <3>1, <3>3 DEF ThreadSound
    <3>4. ASSUME thr[u].at \in {"create", "insert"} PROVE thr[u].count < Limit(thr[u].main)'
      <4>1. thr[u].main \in DOMAIN tables
        BY <3>2, <3>4 DEF Joining
      <4>2. \A i \in DOMAIN tables : Limit(i)' = Limit(i)
        BY <1>8
      <4> QED BY <3>1, <3>4, <4>1, <4>2 DEF ThreadSound, Limit, Capacity
    <3>5. ASSUME thr[u].at = "move"
          PROVE  /\ ~ InTable(u, thr[u].main)'
                 /\ \E j \in DOMAIN tables' : j < thr[u].main /\ InTable(u, j)'
      <4>1. thr[u].main \in DOMAIN tables
        BY <3>2, <3>5
      <4> QED BY <1>4, <3>1, <3>5, <4>1 DEF ThreadSound, InTable
    <3> QED BY <1>1, <1>4, <3>1, <3>2, <3>3, <3>4, <3>5 DEF ThreadSound, InTable, Limit,
               Capacity
  <2> QED BY <2>1, <2>2 DEF ThreadsSound
<1>15. OwnedOnce'
  BY <1>1 DEF HashInv, OwnedOnce
<1>16. OwnedFound'
  <2>1. ASSUME NEW p \in DOMAIN producers
        PROVE  \/ thr'[producers[p].owner].at = "insert"
               \/ \E i \in DOMAIN tables' : InTable(producers[p].owner, i)'
    <3>1. PICK u \in Threads : u = producers[p].owner
      BY ProducerTyped
    <3>2. thr[u].at = "insert" \/ \E i \in DOMAIN tables : InTable(u, i)
      BY <3>1 DEF HashInv, OwnedFound
    <3>3. thr[u].at = "insert" => thr'[u].at = "insert"
      BY <1>1 DEF ThrOnly
    <3> QED BY <1>4, <1>1, <3>1, <3>2, <3>3 DEF InTable
  <2> QED BY <1>1, <2>1 DEF OwnedFound, InTable
<1> QED BY <1>10, <1>11, <1>12, <1>13, <1>14, <1>15, <1>16 DEF HashInv

\* A thread that puts its key in a table is still counted, and can be found there.
LEMMA TakeSlotKeepsHash ==
  ASSUME TypeOK, HashInv, NEW t \in Threads, TypeOK', ThrOnly(t),
             UNCHANGED <<hashCount, producers>>,
         thr[t].at \in {"move", "insert"}, thr'[t].at = "enqueue",
             thr'[t].producer = thr[t].producer,
         NEW m \in DOMAIN tables, m = thr[t].main, SlotTaken(m, t, thr[t].producer)
  PROVE  HashInv'
<1>1. PICK k \in 0 .. Capacity(m) - 1 :
        /\ SlotOf(m, t, k) \in DOMAIN tables[m]
        /\ tables[m][SlotOf(m, t, k)].key = NoThread
        /\ \A j \in 0 .. k - 1 : tables[m][SlotOf(m, t, j)].key # NoThread
        /\ tables'[m][SlotOf(m, t, k)].key = t
        /\ tables'[m][SlotOf(m, t, k)].value = thr[t].producer
        /\ \A s \in DOMAIN tables[m] \ {SlotOf(m, t, k)} : tables'[m][s] = tables[m][s]
  BY DEF SlotTaken
<1>2. PICK s : s = SlotOf(m, t, k)
  OBVIOUS
<1>3. /\ s \in DOMAIN tables[m] /\ tables[m][s].key = NoThread
      /\ tables'[m][s].key = t /\ tables'[m][s].value = thr[t].producer
      /\ \A r \in DOMAIN tables[m] \ {s} : tables'[m][r] = tables[m][r]
  BY <1>1, <1>2
<1>4. /\ DOMAIN tables' = DOMAIN tables
      /\ \A i \in DOMAIN tables : DOMAIN tables'[i] = DOMAIN tables[i]
             /\ Capacity(i)' = Capacity(i)
      /\ \A i \in DOMAIN tables \ {m} : tables'[i] = tables[i]
  BY DEF SlotTaken
<1>5. \A i \in DOMAIN tables : /\ Limit(i)' = Limit(i)
                               /\ \A u, n : SlotOf(i, u, n)' = SlotOf(i, u, n)
  BY <1>4 DEF Limit, SlotOf
<1>6. t # NoThread /\ \A u \in Threads : u # NoThread
  BY HashConstants
<1>7. /\ ~ InTable(t, m)
      /\ thr[t].producer \in DOMAIN producers /\ producers[thr[t].producer].owner = t
      /\ thr[t].at = "insert" => thr[t].count < Limit(m)
      /\ thr[t].at = "move" => \E j \in DOMAIN tables : j < m /\ InTable(t, j)
  BY DEF HashInv, ThreadsSound, ThreadSound, Joining
<1>8. ASSUME NEW i \in DOMAIN tables, NEW u \in Threads
      PROVE  InTable(u, i)' <=> InTable(u, i) \/ (u = t /\ i = m)
  <2>1. CASE i # m
    BY <1>4, <2>1 DEF InTable
  <2>2. CASE i = m /\ u = t
    BY <1>3, <1>4, <2>2 DEF InTable
  <2>3. CASE i = m /\ u # t
    BY <1>3, <1>4, <1>6, <2>3 DEF InTable
  <2> QED BY <2>1, <2>2, <2>3
<1>9. \A u \in Threads \ {t} : thr'[u] = thr[u]
  BY DEF ThrOnly
<1>10. "enqueue" \notin Joining /\ "insert" \in Joining /\ "move" \notin Joining
           /\ "enqueue" \in Enqueueing
  BY DEF Joining, Enqueueing
<1>11. TablesGrow'
  <2>1. tables' # <<>>
    BY <1>4 DEF HashInv, TablesGrow
  <2> QED BY <1>4, <2>1 DEF HashInv, TablesGrow
<1>12. Crowds'
  <2>1. Joined' = Joined
    BY <1>4, <1>7, <1>8, <1>9, <1>10 DEF Joined
  <2>2. ASSUME NEW n \in Nat PROVE Early(n)' \in SUBSET Early(n)
    <3>1. ASSUME NEW u \in Threads \ {t} PROVE u \in Early(n)' => u \in Early(n)
      BY <1>4, <1>5, <1>8, <1>9 DEF Early
    <3>2. ASSUME t \in Early(n)' PROVE t \in Early(n)
      <4>1. PICK i \in DOMAIN tables : InTable(t, i)' /\ Limit(i) <= n + 1
        BY <1>4, <1>5, <1>10, <3>2 DEF Early
      <4>2. CASE InTable(t, i)
        BY <4>1, <4>2 DEF Early
      <4>3. CASE i = m /\ thr[t].at = "insert"
        <5>1. thr[t].count < Limit(m) /\ Limit(m) <= n + 1
          BY <1>7, <4>1, <4>3
        <5>2. thr[t].count \in Nat /\ Limit(m) \in Int
          <6>1. thr[t] \in ThreadType
            BY DEF TypeOK
          <6>2. Capacity(m) \in Nat
            BY TableShape
          <6> QED BY <6>1, <6>2 DEF ThreadType, Limit
        <5>3. thr[t].count <= n
          BY <5>1, <5>2
        <5> QED BY <1>10, <4>3, <5>3 DEF Early
      <4>4. CASE i = m /\ thr[t].at = "move"
        <5>1. PICK j \in DOMAIN tables : j < m /\ InTable(t, j)
          BY <1>7, <4>4
        <5>2. j <= m
          BY <5>1 DEF TypeOK
        <5>3. Capacity(j) <= Capacity(m) /\ Capacity(j) \in Nat /\ Capacity(m) \in Nat
          BY <5>2, TableShape DEF HashInv, TablesGrow
        <5>4. Limit(j) <= Limit(m) /\ Limit(j) \in Int /\ Limit(m) \in Int
          BY <5>3 DEF Limit
        <5>5. Limit(j) <= n + 1
          BY <4>1, <4>4, <5>4
        <5> QED BY <5>1, <5>5 DEF Early
      <4> QED BY <1>8, <4>1, <4>2, <4>3, <4>4
    <3> QED BY <3>1, <3>2 DEF Early
  <2>3. hashCount = Cardinality(Joined) /\ \A n \in Nat : Cardinality(Early(n)) <= n
    BY DEF HashInv, Crowds
  <2>4. ASSUME NEW n \in Nat PROVE Cardinality(Early(n)') <= n
    <3>1. IsFiniteSet(Early(n))
      <4>1. Early(n) \in SUBSET Threads
        BY DEF Early
      <4> QED BY <4>1, HashConstants, FS_Subset
    <3>2. PICK E, F : E = Early(n)' /\ F = Early(n)
      OBVIOUS
    <3>3. IsFiniteSet(F) /\ E \in SUBSET F /\ Cardinality(F) <= n
      BY <2>2, <2>3, <3>1, <3>2
    <3>4. IsFiniteSet(E) /\ Cardinality(E) <= Cardinality(F)
      BY <3>3, FS_Subset
    <3>5. Cardinality(E) \in Nat /\ Cardinality(F) \in Nat
      BY <3>3, <3>4, FS_CardinalityType
    <3> QED BY <3>2, <3>3, <3>4, <3>5
  <2> QED BY <2>1, <2>3, <2>4 DEF Crowds
<1>13. SlotsSound'
  <2>1. ASSUME NEW i \in DOMAIN tables, NEW r \in DOMAIN tables[i], tables'[i][r].key # NoThread
        PROVE  /\ tables'[i][r].value \in DOMAIN producers
               /\ producers[tables'[i][r].value].owner = tables'[i][r].key
               /\ \A q \in DOMAIN tables[i] : tables'[i][q].key = tables'[i][r].key => q = r
    <3>1. CASE i # m
      BY <1>4, <2>1, <3>1 DEF HashInv, SlotsSound
    <3>2. CASE i = m /\ r = s
      BY <1>3, <1>7, <3>2 DEF InTable
    <3>3. CASE i = m /\ r # s
      <4>1. tables'[m][r] = tables[m][r] /\ tables[m][r].key # t
        BY <1>3, <1>7, <3>3 DEF InTable
      <4> QED BY <1>3, <2>1, <3>3, <4>1 DEF HashInv, SlotsSound
    <3> QED BY <3>1, <3>2, <3>3
  <2> QED BY <1>4, <2>1 DEF SlotsSound
<1>14. Reachable'
  <2>1. ASSUME NEW i \in DOMAIN tables, NEW u \in Threads, InTable(u, i)'
        PROVE  \E n \in 0 .. Capacity(i) - 1 :
                 /\ tables'[i][SlotOf(i, u, n)].key = u
                 /\ \A j \in 0 .. n - 1 : tables'[i][SlotOf(i, u, j)].key \notin {u, NoThread}
    <3>1. \A j \in Int : SlotOf(i, u, j) \in DOMAIN tables[i]
      BY SlotsCovered
    <3>2. Capacity(i) \in Nat /\ \A j \in 0 .. Capacity(i) - 1 : j \in Int
      BY TableShape
    <3>3. CASE i # m
      BY <1>4, <1>8, <2>1, <3>3 DEF HashInv, Reachable
    <3>4. CASE i = m /\ u = t
      <4>1. ASSUME NEW j \in 0 .. k - 1
            PROVE  tables'[m][SlotOf(m, t, j)].key \notin {t, NoThread}
        <5>1. j \in Int
          OBVIOUS
        <5>2. SlotOf(m, t, j) \in DOMAIN tables[m] /\ tables[m][SlotOf(m, t, j)].key # NoThread
          BY <1>1, <3>1, <3>4, <5>1
        <5>3. tables[m][SlotOf(m, t, j)].key # t /\ SlotOf(m, t, j) # s
          BY <1>3, <1>7, <5>2 DEF InTable
        <5> QED BY <1>3, <5>2, <5>3
      <4> QED BY <1>1, <3>4, <4>1
    <3>5. CASE i = m /\ u # t
      <4>1. InTable(u, m)
        BY <1>8, <2>1, <3>5
      <4>2. PICK n \in 0 .. Capacity(m) - 1 :
              /\ tables[m][SlotOf(m, u, n)].key = u
              /\ \A j \in 0 .. n - 1 : tables[m][SlotOf(m, u, j)].key \notin {u, NoThread}
        BY <4>1 DEF HashInv, Reachable
      <4>3. n \in Int /\ \A j \in 0 .. n - 1 : j \in Int
        BY <3>2, <3>5
      <4>4. tables'[m][SlotOf(m, u, n)].key = u
        BY <1>3, <1>6, <3>1, <3>5, <4>2, <4>3
      <4>5. ASSUME NEW j \in 0 .. n - 1
            PROVE tables'[m][SlotOf(m, u, j)].key \notin {u, NoThread}
        <5>1. SlotOf(m, u, j) \in DOMAIN tables[m]
                  /\ tables[m][SlotOf(m, u, j)].key \notin {u, NoThread}
          BY <3>1, <3>5, <4>2, <4>3
        <5> QED BY <1>3, <5>1
      <4> QED BY <3>5, <4>2, <4>4, <4>5
    <3> QED BY <3>3, <3>4, <3>5
  <2> QED BY <1>4, <1>5, <2>1 DEF Reachable
<1>15. ThreadsSound'
  <2>1. ThreadSound(t)'
    BY <1>7, <1>10 DEF ThreadSound
  <2>2. ASSUME NEW u \in Threads \ {t} PROVE ThreadSound(u)'
    <3>1. ThreadSound(u) /\ thr'[u] = thr[u]
      BY <1>9 DEF HashInv, ThreadsSound
    <3>2. \A i \in DOMAIN tables : InTable(u, i)' <=> InTable(u, i)
      BY <1>8
    <3>3. ASSUME thr[u].at \in {"create", "insert"} PROVE thr[u].count < Limit(thr[u].main)'
      <4>1. thr[u].main \in DOMAIN tables
        BY <3>1, <3>3 DEF ThreadSound, Joining
      <4> QED BY <1>5, <3>1, <3>3, <4>1 DEF ThreadSound, Limit, Capacity
    <3>4. ASSUME thr[u].at = "move"
          PROVE  /\ ~ InTable(u, thr[u].main)'
                 /\ \E j \in DOMAIN tables' : j < thr[u].main /\ InTable(u, j)'
      <4>1. thr[u].main \in DOMAIN tables
        BY <3>1, <3>4 DEF ThreadSound
      <4> QED BY <1>4, <3>1, <3>2, <3>4, <4>1 DEF ThreadSound, InTable
    <3>5. ASSUME thr[u].at \in {"add"} \union Joining
          PROVE \A i \in DOMAIN tables' : ~ InTable(u, i)'
      BY <1>4, <3>1, <3>2, <3>5 DEF ThreadSound
    <3> QED BY <1>4, <3>1, <3>3, <3>4, <3>5 DEF ThreadSound, InTable, Limit, Capacity
  <2> QED BY <2>1, <2>2 DEF ThreadsSound
<1>16. OwnedOnce'
  BY DEF HashInv, OwnedOnce
<1>17. OwnedFound'
  <2>1. ASSUME NEW p \in DOMAIN producers
        PROVE  \/ thr'[producers[p].owner].at = "insert"
               \/ \E i \in DOMAIN tables : InTable(producers[p].owner, i)'
    <3>1. PICK u \in Threads : u = producers[p].owner
      BY ProducerTyped
    <3>2. thr[u].at = "insert" \/ \E i \in DOMAIN tables : InTable(u, i)
      BY <3>1 DEF HashInv, OwnedFound
    <3>3. \A i \in DOMAIN tables : InTable(u, i)' <=> InTable(u, i) \/ (u = t /\ i = m)
      BY <1>8
    <3>4. CASE u = t
      BY <3>1, <3>3, <3>4 DEF InTable
    <3>5. CASE u # t
      BY <1>9, <3>1, <3>2, <3>3, <3>5 DEF InTable
    <3> QED BY <3>4, <3>5
  <2> QED BY <1>4, <2>1 DEF OwnedFound, InTable
<1> QED BY <1>11, <1>12, <1>13, <1>14, <1>15, <1>16, <1>17 DEF HashInv

\* A thread gets a producer when it has none and is not in any table.
LEMMA CreateKeepsHash ==
  ASSUME TypeOK, HashInv, NEW t \in Threads, TypeOK', ThrOnly(t),
             UNCHANGED <<tables, hashCount>>,
         thr[t].at = "create", thr'[t].at = "insert", thr'[t].main = thr[t].main,
             thr'[t].count = thr[t].count,
         thr'[t].producer = Len(producers) + 1,
         NEW o \in ProducerType, o.owner = t, ProducerAdded(o)
  PROVE  HashInv'
<1>1. PICK q : q = Len(producers) + 1
  OBVIOUS
<1>2. /\ \A p \in DOMAIN producers : p \in DOMAIN producers' /\ producers'[p] = producers[p]
      /\ \A p \in DOMAIN producers' : p \in DOMAIN producers \/ p = q
      /\ q \in DOMAIN producers' /\ q \notin DOMAIN producers /\ producers'[q] = o
  BY <1>1 DEF ProducerAdded
<1>3. /\ \A i : Capacity(i)' = Capacity(i) /\ Limit(i)' = Limit(i)
      /\ \A u, i : InTable(u, i)' <=> InTable(u, i)
      /\ \A i, u, k : SlotOf(i, u, k)' = SlotOf(i, u, k)
  BY SameTables
<1>4. \A u \in Threads \ {t} : thr'[u] = thr[u]
  BY DEF ThrOnly
<1>5. "create" \in Joining /\ "insert" \in Joining
  BY DEF Joining
<1>6. ThreadSound(t) /\ \A i \in DOMAIN tables : ~ InTable(t, i)
  BY <1>5 DEF HashInv, ThreadsSound, ThreadSound
<1>7. \A p \in DOMAIN producers : producers[p].owner # t
  BY <1>6 DEF HashInv, OwnedFound
<1>8. TablesGrow'
  BY <1>3 DEF HashInv, TablesGrow
<1>9. Crowds'
  <2>1. Joined' = Joined
    BY <1>3, <1>4, <1>5 DEF Joined
  <2>2. ASSUME NEW n \in Nat PROVE Early(n)' = Early(n)
    BY <1>3, <1>4, <1>5 DEF Early
  <2>3. hashCount = Cardinality(Joined) /\ \A n \in Nat : Cardinality(Early(n)) <= n
    BY DEF HashInv, Crowds
  <2>4. \A n \in Nat : Cardinality(Early(n)') <= n
    BY <2>2, <2>3
  <2> QED BY <2>1, <2>3, <2>4 DEF Crowds
<1>10. SlotsSound'
  <2>1. ASSUME NEW i \in DOMAIN tables, NEW r \in DOMAIN tables[i], tables[i][r].key # NoThread
        PROVE  /\ tables[i][r].value \in DOMAIN producers'
               /\ producers'[tables[i][r].value].owner = tables[i][r].key
               /\ \A j \in DOMAIN tables[i] : tables[i][j].key = tables[i][r].key => j = r
    BY <1>2, <2>1 DEF HashInv, SlotsSound
  <2> QED BY <2>1 DEF SlotsSound
<1>11. Reachable'
  BY <1>3 DEF HashInv, Reachable
<1>12. ThreadsSound'
  <2>1. ThreadSound(t)'
    <3>1. thr'[t].main \in DOMAIN tables /\ thr'[t].count < Limit(thr[t].main)
      BY <1>5, <1>6 DEF ThreadSound
    <3> QED BY <1>1, <1>2, <1>3, <1>5, <1>6, <3>1 DEF ThreadSound, Limit, Capacity
  <2>2. ASSUME NEW u \in Threads \ {t} PROVE ThreadSound(u)'
    <3>1. ThreadSound(u) /\ thr'[u] = thr[u]
      BY <1>4 DEF HashInv, ThreadsSound
    <3> QED BY <1>2, <1>3, <3>1 DEF ThreadSound, Limit, Capacity, InTable
  <2> QED BY <2>1, <2>2 DEF ThreadsSound
<1>13. OwnedOnce'
  BY <1>2, <1>7 DEF HashInv, OwnedOnce
<1>14. OwnedFound'
  <2>1. ASSUME NEW p \in DOMAIN producers'
        PROVE  \/ thr'[producers'[p].owner].at = "insert"
               \/ \E i \in DOMAIN tables : InTable(producers'[p].owner, i)
    <3>1. CASE p = q
      BY <1>2, <3>1
    <3>2. CASE p \in DOMAIN producers
      <4>1. producers[p].owner \in Threads \ {t}
        BY <1>7, <3>2, ProducerTyped
      <4>2. \/ thr[producers[p].owner].at = "insert"
            \/ \E i \in DOMAIN tables : InTable(producers[p].owner, i)
        BY <3>2 DEF HashInv, OwnedFound
      <4> QED BY <1>2, <1>4, <3>2, <4>1, <4>2
    <3> QED BY <1>2, <3>1, <3>2
  <2> QED BY <2>1 DEF OwnedFound, InTable
<1> QED BY <1>8, <1>9, <1>10, <1>11, <1>12, <1>13, <1>14 DEF HashInv

\* What a consumer does leaves the hash table alone.
LEMMA ConKeepsHash ==
  ASSUME TypeOK, HashInv, NEW c \in Consumers, ConOnly(c), DOMAIN producers' = DOMAIN producers,
         \A p \in DOMAIN producers : producers'[p].owner = producers[p].owner
  PROVE  HashInv'
<1>1. UNCHANGED <<tables, hashCount>> /\ \A u \in Threads : Undisturbed(u)
  BY DEF ConOnly, Undisturbed
<1> QED BY <1>1, HashFrame

\* So does what a thread does that goes on, or returns, once it has a producer.
LEMMA EnqueueKeepsHash ==
  ASSUME TypeOK, HashInv, NEW t \in Threads, ThrOnly(t), UNCHANGED <<tables, hashCount>>,
         DOMAIN producers' = DOMAIN producers,
         \A p \in DOMAIN producers : producers'[p].owner = producers[p].owner,
         thr[t].at \in Enqueueing, thr'[t].at \in Enqueueing \union {"idle"},
         thr'[t].producer = thr[t].producer
  PROVE  HashInv'
<1>1. \A x \in Enqueueing \union {"idle"} : x \notin Joining \union {"add", "move"}
  BY DEF Enqueueing, Joining
<1>2. thr[t].producer \in DOMAIN producers /\ producers[thr[t].producer].owner = t
  BY DEF HashInv, ThreadsSound, ThreadSound
<1>3. ThreadSound(t)'
  <2>1. ASSUME thr'[t].at \in {"move", "insert"} \union Enqueueing
        PROVE  thr'[t].producer \in DOMAIN producers' /\ producers'[thr'[t].producer].owner = t
    BY <1>2
  <2>2. thr'[t].at \notin {"create", "insert", "move"}
    BY <1>1 DEF Joining
  <2> QED BY <1>1, <2>1, <2>2 DEF ThreadSound
<1>4. \A u \in Threads : Undisturbed(u)
  BY <1>1, <1>3 DEF ThrOnly, Undisturbed
<1> QED BY <1>4, HashFrame

\* A thread that begins to enqueue is not counted yet.
LEMMA EnqueueStartsHash ==
  ASSUME TypeOK, HashInv, NEW t \in Threads, enqueue(t)
  PROVE  HashInv'
<1>1. /\ ThrOnly(t) /\ UNCHANGED <<tables, hashCount, producers>>
      /\ thr[t].at = "idle" /\ thr'[t].at = "find"
  BY EnqueueStep
<1>2. Undisturbed(t)
  BY <1>1 DEF Undisturbed, ThreadSound, Joining, Enqueueing
<1>3. \A u \in Threads : Undisturbed(u)
  BY <1>1, <1>2 DEF ThrOnly, Undisturbed
<1> QED BY <1>1, <1>3, HashFrame

\* What findProducer finds is what the tables hold.
LEMMA FindKeepsHash ==
  ASSUME TypeOK, HashInv, FreeSlots, NEW t \in Threads, findProducer(t),
             UNCHANGED <<team, blocks, used, pool, con>>
  PROVE  HashInv'
<1>1. /\ ThrOnly(t) /\ UNCHANGED <<tables, hashCount, producers>> /\ thr[t].at = "find"
      /\ \/ /\ thr'[t].at = "add" /\ thr'[t].main = Len(tables)
            /\ \A i \in DOMAIN tables : ~ InTable(t, i)
         \/ /\ thr'[t].at \in {"enqueue", "move"}
            /\ thr'[t].producer \in DOMAIN producers /\ producers[thr'[t].producer].owner = t
            /\ thr'[t].at = "move" => /\ thr'[t].main = Len(tables) /\ ~ InTable(t, Len(tables))
                                      /\ \E j \in DOMAIN tables : j < Len(tables)
                                             /\ InTable(t, j)
  BY FindProducerStep
<1>2. Len(tables) \in DOMAIN tables
  BY DEF TypeOK, HashInv, TablesGrow
<1>3. \A i \in DOMAIN tables : InTable(t, i)' <=> InTable(t, i)
  BY <1>1, SameTables
<1>4. ThreadSound(t)'
  BY <1>1, <1>2, <1>3 DEF ThreadSound, Joining, Enqueueing, InTable
<1>5. \A u \in Threads : Undisturbed(u)
  BY <1>1, <1>4 DEF ThrOnly, Undisturbed, Joining
<1> QED BY <1>1, <1>5, HashFrame

\* A thread that is counted goes on with the count it has.
LEMMA JoinKeepsHash ==
  ASSUME TypeOK, HashInv, NEW t \in Threads, ThrOnly(t),
             UNCHANGED <<tables, hashCount, producers>>,
         thr[t].at \in Joining \ {"insert"}, thr'[t].at \in Joining \ {"insert"},
         thr'[t].count = thr[t].count, thr'[t].main \in DOMAIN tables,
         thr'[t].at = "create" => thr'[t].count < Limit(thr'[t].main)
  PROVE  HashInv'
<1>1. \A i \in DOMAIN tables : InTable(t, i)' <=> InTable(t, i)
  BY SameTables
<1>2. \A i \in DOMAIN tables : ~ InTable(t, i)
  BY DEF HashInv, ThreadsSound, ThreadSound
<1>3. \A x \in Joining : x # "move" /\ x \notin Enqueueing
  BY DEF Joining, Enqueueing
<1>4. ThreadSound(t)'
  BY <1>1, <1>2, <1>3 DEF ThreadSound, Limit, Capacity, InTable
<1>5. \A u \in Threads : Undisturbed(u)
  BY <1>4 DEF ThrOnly, Undisturbed
<1> QED BY <1>5, HashFrame

\* A thread is not at the index of its producer, or at its blocks.
Quiet == {"idle", "find", "move", "add", "enqueue"} \union Joining

\* A producer as it is made: with an index of free entries, or without one.
Fresh(o, t) ==
  /\ o \in ProducerType /\ o.owner = t
  /\ o.tail = 0 /\ o.head = 0 /\ o.optimistic = 0 /\ o.overcommit = 0
  /\ \/ o.indices = <<>> /\ o.entries = <<>>
     \/ /\ DOMAIN o.indices = {1} /\ Len(o.indices) = 1 /\ o.indices[1] = FirstIndex
        /\ DOMAIN o.entries = 1 .. IndexSize
  /\ \A e \in DOMAIN o.entries : o.entries[e].key = NoKey /\ o.entries[e].value = NoBlock

\* The producers that recycle_or_create_producer makes, with or without an index.
LEMMA FreshProducers ==
  ASSUME NEW t \in Threads
  PROVE  /\ Fresh(Producer(t, <<>>, <<>>), t)
         /\ Fresh(Producer(t, <<FirstIndex>>, FreeEntries(IndexSize)), t)
<1>1. /\ <<>> \in Seq(Headers) /\ <<>> \in Seq(Entries)
      /\ <<FirstIndex>> \in Seq(Headers)
  BY FirstIndexShape
<1>2. IndexSize \in Nat
  BY QueueConstants
<1>3. FreeEntries(IndexSize) \in Seq(Entries) /\ DOMAIN FreeEntries(IndexSize) = 1 .. IndexSize
  <2>1. [key |-> NoKey, value |-> NoBlock] \in Entries
    BY DEF Entries, NoKey, NoBlock
  <2>2. PICK x \in Entries : x = [key |-> NoKey, value |-> NoBlock]
    BY <2>1
  <2>3. FreeEntries(IndexSize) = [i \in 1 .. IndexSize |-> x]
    BY <2>2 DEF FreeEntries
  <2> QED BY <1>2, <2>3
<1>4. \A e \in 1 .. IndexSize : FreeEntries(IndexSize)[e].key = NoKey
          /\ FreeEntries(IndexSize)[e].value = NoBlock
  BY DEF FreeEntries
<1>5. PICK h : h = FirstIndex
  OBVIOUS
<1>6. DOMAIN <<h>> = {1} /\ Len(<<h>>) = 1 /\ <<h>>[1] = h
  OBVIOUS
<1>7. Fresh(Producer(t, <<>>, <<>>), t)
  <2>1. PICK hs \in Seq(Headers) : hs = <<>>
    BY <1>1
  <2>2. PICK es \in Seq(Entries) : es = <<>>
    BY <1>1
  <2>3. PICK o : o = Producer(t, hs, es)
    OBVIOUS
  <2>4. /\ Producer(t, hs, es) \in ProducerType /\ Producer(t, hs, es).owner = t
        /\ Producer(t, hs, es).tail = 0 /\ Producer(t, hs, es).head = 0
        /\ Producer(t, hs, es).optimistic = 0 /\ Producer(t, hs, es).overcommit = 0
        /\ Producer(t, hs, es).indices = hs /\ Producer(t, hs, es).entries = es
    BY NewProducer
  <2>5. /\ o \in ProducerType /\ o.owner = t /\ o.tail = 0 /\ o.head = 0 /\ o.optimistic = 0
        /\ o.overcommit = 0
        /\ o.indices = hs /\ o.entries = es
    BY <2>3, <2>4
  <2>6. DOMAIN es = {}
    BY <2>2
  <2>7. Fresh(o, t)
    BY <2>1, <2>2, <2>5, <2>6 DEF Fresh
  <2> QED BY <2>1, <2>2, <2>3, <2>7
<1>8. Fresh(Producer(t, <<FirstIndex>>, FreeEntries(IndexSize)), t)
  <2>1. PICK hs \in Seq(Headers) : hs = <<FirstIndex>>
    BY <1>1
  <2>2. PICK es \in Seq(Entries) : es = FreeEntries(IndexSize)
    BY <1>3
  <2>3. PICK o : o = Producer(t, hs, es)
    OBVIOUS
  <2>4. /\ Producer(t, hs, es) \in ProducerType /\ Producer(t, hs, es).owner = t
        /\ Producer(t, hs, es).tail = 0 /\ Producer(t, hs, es).head = 0
        /\ Producer(t, hs, es).optimistic = 0 /\ Producer(t, hs, es).overcommit = 0
        /\ Producer(t, hs, es).indices = hs /\ Producer(t, hs, es).entries = es
    BY NewProducer
  <2>5. /\ o \in ProducerType /\ o.owner = t /\ o.tail = 0 /\ o.head = 0 /\ o.optimistic = 0
        /\ o.overcommit = 0
        /\ o.indices = hs /\ o.entries = es
    BY <2>3, <2>4
  <2>6. DOMAIN hs = {1} /\ Len(hs) = 1 /\ hs[1] = FirstIndex
    BY <1>5, <1>6, <2>1
  <2>7. DOMAIN es = 1 .. IndexSize /\ \A e \in DOMAIN es : es[e].key = NoKey
            /\ es[e].value = NoBlock
    BY <1>3, <1>4, <2>2
  <2>8. Fresh(o, t)
    BY <2>5, <2>6, <2>7 DEF Fresh
  <2> QED BY <2>1, <2>2, <2>3, <2>8
<1> QED BY <1>7, <1>8

\* To get a producer is to look it up, or to make one: the others stay as they are.
LEMMA GetProducerStep ==
  ASSUME TypeOK, HashInv, NEW t \in Threads, getProducer(t)
  PROVE  /\ HashInv' /\ TypeOK' /\ ThrOnly(t) /\ UNCHANGED <<blocks, used, pool>>
         /\ thr'[t].sent = thr[t].sent /\ thr'[t].block = thr[t].block
         /\ thr[t].at \in Quiet /\ thr'[t].at \in Quiet
         /\ \/ UNCHANGED producers
            \/ \E o : Fresh(o, t) /\ ProducerAdded(o)
<1>1. FreeSlots
  BY TablesHaveFreeSlots DEF HashInv
<1>2. UNCHANGED <<team, blocks, used, pool, con>>
  BY DEF getProducer
<1>3. ThreadsSound /\ Crowds /\ TablesGrow
  BY DEF HashInv
<1>4. Len(tables) \in DOMAIN tables
  BY <1>3 DEF TypeOK, TablesGrow
<1>5. \A x : x \in Joining <=> x \in {"room", "resize", "resized", "wait", "create", "insert"}
  BY DEF Joining
<1>6. \A x : x \in Quiet <=>
          x \in {"idle", "find", "move", "add", "enqueue", "room", "resize", "resized", "wait",
              "create", "insert"}
  BY DEF Quiet, Joining
<1>7. thr[t].at \in {"add"} \union Joining => thr[t].main \in DOMAIN tables
  BY <1>3 DEF ThreadsSound, ThreadSound
<1>8. CASE findProducer(t)
  <2>1. HashInv'
    BY <1>1, <1>2, <1>8, FindKeepsHash
  <2>2. /\ TypeOK' /\ ThrOnly(t) /\ UNCHANGED producers /\ thr[t].at = "find"
        /\ thr'[t].at \in {"add", "enqueue", "move"}
        /\ thr'[t].sent = thr[t].sent /\ thr'[t].block = thr[t].block
    BY <1>1, <1>2, <1>8, FindProducerStep
  <2> QED BY <1>2, <1>6, <2>1, <2>2
<1>9. CASE moveToMain(t)
  <2>1. /\ TypeOK' /\ ThrOnly(t) /\ thr'[t].sent = thr[t].sent /\ thr'[t].block = thr[t].block
        /\ UNCHANGED <<hashCount, producers>>
        /\ thr[t].at = "move" /\ thr'[t].at = "enqueue" /\ thr'[t].producer = thr[t].producer
        /\ thr[t].main \in DOMAIN tables /\ SlotTaken(thr[t].main, t, thr[t].producer)
    BY <1>1, <1>2, <1>3, <1>9, MoveToMainStep
  <2>2. PICK m \in DOMAIN tables : m = thr[t].main
    BY <2>1
  <2>3. HashInv'
    BY <2>1, <2>2, TakeSlotKeepsHash
  <2> QED BY <1>2, <1>6, <2>1, <2>3
<1>10. CASE addOne(t)
  <2>1. HashInv'
    BY <1>2, <1>10, AddOneKeepsHash
  <2>2. /\ TypeOK' /\ ThrOnly(t) /\ UNCHANGED producers /\ thr[t].at = "add"
        /\ thr'[t].at = "room"
        /\ thr'[t].sent = thr[t].sent /\ thr'[t].block = thr[t].block
    BY <1>2, <1>3, <1>10, AddOneStep
  <2> QED BY <1>2, <1>6, <2>1, <2>2
<1>11. CASE startResize(t)
  <2>1. /\ TypeOK' /\ ThrOnly(t) /\ thr'[t].sent = thr[t].sent /\ thr'[t].block = thr[t].block
        /\ UNCHANGED <<tables, hashCount, producers>> /\ thr[t].at = "room"
        /\ thr'[t].at = "resize"
        /\ thr'[t].main = thr[t].main /\ thr'[t].count = thr[t].count
    BY <1>2, <1>11, StartResizeStep
  <2>2. HashInv'
    BY <1>5, <1>7, <2>1, JoinKeepsHash
  <2> QED BY <1>2, <1>6, <2>1, <2>2
<1>12. CASE resize(t) /\ HalfFull(t, Len(tables))
  <2>1. HashInv'
    BY <1>2, <1>12, ResizeKeepsHash
  <2>2. /\ TypeOK' /\ ThrOnly(t) /\ UNCHANGED producers /\ thr[t].at = "resize"
        /\ thr'[t].at = "resized"
        /\ thr'[t].sent = thr[t].sent /\ thr'[t].block = thr[t].block
    BY <1>2, <1>3, <1>12, ResizeStep
  <2> QED BY <1>2, <1>6, <2>1, <2>2
<1>13. CASE resize(t) /\ ~ HalfFull(t, Len(tables))
  <2>1. /\ TypeOK' /\ ThrOnly(t) /\ thr'[t].sent = thr[t].sent /\ thr'[t].block = thr[t].block
        /\ UNCHANGED <<tables, hashCount, producers>> /\ thr[t].at = "resize"
        /\ thr'[t].at = "resized"
        /\ thr'[t].main = Len(tables) /\ thr'[t].count = thr[t].count
    BY <1>2, <1>13, NoResizeStep
  <2>2. HashInv'
    BY <1>4, <1>5, <2>1, JoinKeepsHash
  <2> QED BY <1>2, <1>6, <2>1, <2>2
<1>14. CASE resizeFails(t)
  <2>1. /\ TypeOK' /\ ThrOnly(t) /\ thr'[t].sent = thr[t].sent /\ thr'[t].block = thr[t].block
        /\ UNCHANGED <<tables, producers>>
        /\ thr[t].at = "resize" /\ thr'[t].at = "idle" /\ hashCount' = hashCount - 1
    BY <1>2, <1>14, ResizeFailsStep
  <2>2. HashInv'
    BY <1>5, <2>1, LeaveKeepsHash
  <2> QED BY <1>2, <1>6, <2>1, <2>2
<1>15. CASE endResize(t)
  <2>1. /\ TypeOK' /\ ThrOnly(t) /\ thr'[t].sent = thr[t].sent /\ thr'[t].block = thr[t].block
        /\ UNCHANGED <<tables, hashCount, producers>> /\ thr[t].at = "resized"
        /\ thr'[t].at = (IF Fits(t, thr[t].main) THEN "create" ELSE "wait")
        /\ thr'[t].main = thr[t].main /\ thr'[t].count = thr[t].count
    BY <1>2, <1>15, EndResizeStep
  <2>2. Fits(t, thr[t].main) => thr[t].count < Limit(thr[t].main)
    BY DEF Fits, Limit
  <2>3. thr'[t].at \in {"create", "wait"} /\ (thr'[t].at = "create" => Fits(t, thr[t].main))
    BY <2>1
  <2>4. HashInv'
    BY <1>5, <1>7, <2>1, <2>2, <2>3, JoinKeepsHash
  <2> QED BY <1>2, <1>6, <2>1, <2>4, <2>3
<1>16. CASE goWithoutResize(t)
  <2>1. /\ TypeOK' /\ ThrOnly(t) /\ thr'[t].sent = thr[t].sent /\ thr'[t].block = thr[t].block
        /\ UNCHANGED <<tables, hashCount, producers>> /\ thr[t].at = "room"
        /\ thr'[t].at = (IF Fits(t, thr[t].main) THEN "create" ELSE "wait")
        /\ thr'[t].main = thr[t].main /\ thr'[t].count = thr[t].count
    BY <1>2, <1>16, GoWithoutResizeStep
  <2>2. Fits(t, thr[t].main) => thr[t].count < Limit(thr[t].main)
    BY DEF Fits, Limit
  <2>3. thr'[t].at \in {"create", "wait"} /\ (thr'[t].at = "create" => Fits(t, thr[t].main))
    BY <2>1
  <2>4. HashInv'
    BY <1>5, <1>7, <2>1, <2>2, <2>3, JoinKeepsHash
  <2> QED BY <1>2, <1>6, <2>1, <2>4, <2>3
<1>17. CASE waitForResize(t)
  <2>1. /\ TypeOK' /\ ThrOnly(t) /\ thr'[t].sent = thr[t].sent /\ thr'[t].block = thr[t].block
        /\ UNCHANGED <<tables, hashCount, producers>> /\ thr[t].at = "wait"
        /\ thr'[t].at = "room"
        /\ thr'[t].main = Len(tables) /\ thr'[t].count = thr[t].count
    BY <1>2, <1>17, WaitForResizeStep
  <2>2. HashInv'
    BY <1>4, <1>5, <2>1, JoinKeepsHash
  <2> QED BY <1>2, <1>6, <2>1, <2>2
<1>18. CASE createProducer(t, Producer(t, <<FirstIndex>>, FreeEntries(IndexSize)))
  <2>1. PICK o : o = Producer(t, <<FirstIndex>>, FreeEntries(IndexSize))
    OBVIOUS
  <2>2. Fresh(o, t)
    BY <2>1, FreshProducers
  <2>3. /\ TypeOK' /\ ThrOnly(t) /\ thr'[t].sent = thr[t].sent /\ thr'[t].block = thr[t].block
        /\ UNCHANGED <<tables, hashCount>>
        /\ thr[t].at = "create" /\ thr'[t].at = "insert"
        /\ thr'[t].producer = Len(producers) + 1
        /\ thr'[t].main = thr[t].main /\ thr'[t].count = thr[t].count /\ ProducerAdded(o)
    BY <1>2, <1>18, <2>1, <2>2, CreateProducerStep DEF Fresh
  <2>4. HashInv'
    BY <2>2, <2>3, CreateKeepsHash DEF Fresh
  <2> QED BY <1>2, <1>6, <2>2, <2>3, <2>4
<1>19. CASE createFails(t)
  <2>1. /\ TypeOK' /\ ThrOnly(t) /\ thr'[t].sent = thr[t].sent /\ thr'[t].block = thr[t].block
        /\ UNCHANGED <<tables, producers>>
        /\ thr[t].at = "create" /\ thr'[t].at = "idle" /\ hashCount' = hashCount - 1
    BY <1>2, <1>19, CreateFailsStep
  <2>2. HashInv'
    BY <1>5, <2>1, LeaveKeepsHash
  <2> QED BY <1>2, <1>6, <2>1, <2>2
<1>20. CASE insertProducer(t)
  <2>1. /\ TypeOK' /\ ThrOnly(t) /\ thr'[t].sent = thr[t].sent /\ thr'[t].block = thr[t].block
        /\ UNCHANGED <<hashCount, producers>>
        /\ thr[t].at = "insert" /\ thr'[t].at = "enqueue" /\ thr'[t].producer = thr[t].producer
        /\ thr[t].main \in DOMAIN tables /\ SlotTaken(thr[t].main, t, thr[t].producer)
    BY <1>1, <1>2, <1>3, <1>20, InsertProducerStep
  <2>2. PICK m \in DOMAIN tables : m = thr[t].main
    BY <2>1
  <2>3. HashInv'
    BY <2>1, <2>2, TakeSlotKeepsHash
  <2> QED BY <1>2, <1>6, <2>1, <2>3
<1>21. CASE /\ failures > 0 /\ failures' = failures - 1
            /\ ThrAt(t, "create")
            /\ producers' = Append(producers, Producer(t, <<>>, <<>>))
            /\ Now(t, [thr[t] EXCEPT !.at = "insert", !.producer = Len(producers) + 1])
            /\ UNCHANGED <<tables, hashCount, resizing>>
  <2>1. PICK o : o = Producer(t, <<>>, <<>>)
    OBVIOUS
  <2>2. Fresh(o, t)
    BY <2>1, FreshProducers
  <2>3. /\ TypeOK' /\ ThrOnly(t) /\ thr'[t].sent = thr[t].sent /\ thr'[t].block = thr[t].block
        /\ thr[t].at = "create" /\ thr'[t].at = "insert"
        /\ thr'[t].producer = Len(producers) + 1
        /\ thr'[t].main = thr[t].main /\ thr'[t].count = thr[t].count /\ ProducerAdded(o)
    BY <1>2, <1>21, <2>1, NoIndexMadeStep
  <2>4. HashInv'
    BY <1>21, <2>2, <2>3, CreateKeepsHash DEF Fresh
  <2> QED BY <1>2, <1>6, <1>21, <2>2, <2>3, <2>4
<1> QED BY <1>8, <1>9, <1>10, <1>11, <1>12, <1>13, <1>14, <1>15, <1>16, <1>17, <1>18, <1>19,
           <1>20, <1>21
        DEF getProducer, HashNext
-----------------------------------------------------------------------------
(* So do the counts.                                                       *)

\* The consumers that verify a claim or give one back are finitely many.
LEMMA CountsFinite ==
  ASSUME NEW p
  PROVE  /\ IsFiniteSet(Verifying(p)) /\ Cardinality(Verifying(p)) \in Nat
         /\ IsFiniteSet(Returning(p)) /\ Cardinality(Returning(p)) \in Nat
         /\ \A n : IsFiniteSet(UpTo(p, n)) /\ Cardinality(UpTo(p, n)) \in Nat
<1>1. IsFiniteSet(Consumers)
  BY QueueConstants
<1>2. Verifying(p) \in SUBSET Consumers /\ Returning(p) \in SUBSET Consumers
  BY DEF Verifying, Returning
<1>3. IsFiniteSet(Verifying(p)) /\ IsFiniteSet(Returning(p))
  BY <1>1, <1>2, FS_Subset
<1>4. ASSUME NEW n PROVE IsFiniteSet(UpTo(p, n)) /\ Cardinality(UpTo(p, n)) \in Nat
  <2>1. UpTo(p, n) \in SUBSET Consumers
    BY DEF UpTo, Verifying
  <2>2. IsFiniteSet(UpTo(p, n))
    BY <1>1, <2>1, FS_Subset
  <2> QED BY <2>2, FS_CardinalityType
<1> QED BY <1>3, <1>4, FS_CardinalityType

\* The counters of the producers other than p are as they were.
CountsKept(p) ==
  /\ producers'[p].head = producers[p].head /\ producers'[p].tail = producers[p].tail
  /\ producers'[p].optimistic = producers[p].optimistic
  /\ producers'[p].overcommit = producers[p].overcommit

\* While consumer c makes no claim, the claims of the others stand.
LEMMA CountFrame ==
  ASSUME TypeOK, CountInv, NEW c \in Consumers, ConOnly(c),
         DOMAIN producers' = DOMAIN producers, Len(producers') = Len(producers),
         \A p \in DOMAIN producers : CountsKept(p),
         con[c].at \notin {"verify", "giveBack"}, con'[c].at \notin {"verify", "giveBack"},
         con'[c].at \in {"check", "claim"} =>
             con'[c].overcommit <= producers[con'[c].p].overcommit,
         PlacedAt(c)'
  PROVE  CountInv'
<1>1. \A d \in Consumers \ {c} : con'[d] = con[d]
  BY DEF ConOnly
<1>2. ASSUME NEW p
      PROVE  /\ Verifying(p)' = Verifying(p) /\ Returning(p)' = Returning(p)
             /\ \A n : UpTo(p, n)' = UpTo(p, n)
  <2>1. ASSUME NEW d \in Consumers
        PROVE  /\ con'[d].at = "verify" /\ con'[d].p = p <=>
                      con[d].at = "verify" /\ con[d].p = p
               /\ con'[d].at = "giveBack" /\ con'[d].p = p <=>
                      con[d].at = "giveBack" /\ con[d].p = p
               /\ con[d].at = "verify" => con'[d].count = con[d].count
    BY <1>1
  <2>2. Verifying(p)' = Verifying(p)
    BY <2>1 DEF Verifying
  <2>3. Returning(p)' = Returning(p)
    BY <2>1 DEF Returning
  <2>4. ASSUME NEW n PROVE UpTo(p, n)' = UpTo(p, n)
    BY <2>1, <2>2 DEF UpTo, Verifying
  <2> QED BY <2>2, <2>3, <2>4
<1>3. Counted'
  <2>1. ASSUME NEW p \in DOMAIN producers
        PROVE  /\ producers'[p].head <= producers'[p].tail
               /\ producers'[p].optimistic = producers'[p].head + producers'[p].overcommit
                     + Cardinality(Verifying(p)') + Cardinality(Returning(p)')
    BY <1>2 DEF CountInv, Counted, CountedAt, CountsKept
  <2> QED BY <2>1 DEF Counted, CountedAt
<1>4. Placed'
  <2>1. ASSUME NEW d \in Consumers \ {c} PROVE PlacedAt(d)'
    BY <1>1 DEF CountInv, Placed, PlacedAt, ConOnly
  <2> QED BY <2>1 DEF Placed
<1>5. Claims'
  <2>1. ASSUME NEW d \in Consumers \ {c} PROVE ClaimAt(d)'
    <3>1. con'[d] = con[d] /\ ClaimAt(d) /\ PlacedAt(d)
      BY <1>1 DEF CountInv, Claims, Placed
    <3>2. CASE con[d].at \in {"check", "claim", "verify"}
      <4>1. PICK p \in DOMAIN producers : p = con[d].p
        BY <3>1, <3>2 DEF PlacedAt, AtProducer
      <4>2. Bound(p, con[d].count)' = Bound(p, con[d].count)
        BY <1>2, <3>1, <4>1 DEF Bound, CountsKept
      <4>3. con[d].at = "verify" => \A x \in Verifying(p) : con'[x].count = con[x].count
        BY <1>1 DEF Verifying
      <4>4. Verifying(p)' = Verifying(p)
        BY <1>2
      <4> QED BY <3>1, <4>1, <4>2, <4>3, <4>4 DEF ClaimAt, CountsKept
    <3>3. CASE con[d].at \notin {"check", "claim", "verify"}
      BY <3>1, <3>3 DEF ClaimAt
    <3> QED BY <3>2, <3>3
  <2>2. ClaimAt(c)'
    <3>1. con'[c].at \in {"check", "claim"} => con'[c].p \in DOMAIN producers
      BY DEF PlacedAt, AtProducer
    <3> QED BY <3>1 DEF ClaimAt, CountsKept
  <2> QED BY <2>1, <2>2 DEF Claims
<1> QED BY <1>3, <1>4, <1>5 DEF CountInv

\* On to the next producer, or at rest, a consumer is somewhere.
LEMMA NextPlaced ==
  ASSUME TypeOK, NEW c \in Consumers, c \in team, ConOnly(c), NextOf(c, con'[c]),
             con[c].at # "idle", Placed,
         DOMAIN producers' = DOMAIN producers, Len(producers') = Len(producers)
  PROVE  PlacedAt(c)' /\ con'[c].at \in {"idle", "dequeue"}
<1>1. con[c].saw # "no" /\ team' = team /\ Len(producers) \in Nat /\ NotYet \in Int
          /\ NotYet < 0
  BY DEF Placed, PlacedAt, ConOnly, TypeOK, NotYet
<1>2. CASE con'[c] = AtRest
  BY <1>1, <1>2, RestFields DEF PlacedAt, AtProducer
<1>3. CASE con'[c].at = "dequeue" /\ con'[c] # AtRest
  BY <1>1, <1>3 DEF PlacedAt, AtProducer, NextOf
<1> QED BY <1>2, <1>3, RestFields DEF NextOf

\* The tail of a producer may grow, and there may be more of them.
LEMMA MoreToCount ==
  ASSUME TypeOK, TypeOK', CountInv, UNCHANGED <<con, team>>,
         Len(producers) <= Len(producers'), DOMAIN producers \subseteq DOMAIN producers',
         \A p \in DOMAIN producers :
           /\ producers'[p].head = producers[p].head /\ producers'[p].tail >= producers[p].tail
           /\ producers'[p].optimistic = producers[p].optimistic
           /\ producers'[p].overcommit = producers[p].overcommit,
         \A p \in DOMAIN producers' \ DOMAIN producers :
           /\ producers'[p].head = 0 /\ producers'[p].tail = 0
           /\ producers'[p].optimistic = 0 /\ producers'[p].overcommit = 0
  PROVE  CountInv'
<1>1. ASSUME NEW p
      PROVE  /\ Verifying(p)' = Verifying(p) /\ Returning(p)' = Returning(p)
             /\ \A n : UpTo(p, n)' = UpTo(p, n)
  BY DEF Verifying, Returning, UpTo
<1>2. ASSUME NEW p \in DOMAIN producers
      PROVE  /\ producers[p].head \in Nat /\ producers[p].tail \in Nat
             /\ producers'[p].tail \in Nat
             /\ Cardinality(Verifying(p)) \in Nat /\ \A n : Cardinality(UpTo(p, n)) \in Nat
  <2>1. producers'[p] \in ProducerType
    BY DEF TypeOK
  <2> QED BY <2>1, ProducerTyped, CountsFinite DEF ProducerType
<1>3. Counted'
  <2>1. ASSUME NEW p \in DOMAIN producers
        PROVE  /\ producers'[p].head <= producers'[p].tail
               /\ producers'[p].optimistic = producers'[p].head + producers'[p].overcommit
                     + Cardinality(Verifying(p)') + Cardinality(Returning(p)')
    <3>1. producers[p].head <= producers[p].tail
      BY DEF CountInv, Counted, CountedAt
    <3>2. producers'[p].head <= producers'[p].tail
      BY <1>2, <3>1
    <3> QED BY <1>1, <3>2 DEF CountInv, Counted, CountedAt
  <2>2. ASSUME NEW p \in DOMAIN producers' \ DOMAIN producers
        PROVE  /\ producers'[p].head <= producers'[p].tail
               /\ producers'[p].optimistic = producers'[p].head + producers'[p].overcommit
                     + Cardinality(Verifying(p)') + Cardinality(Returning(p)')
    <3>1. Verifying(p) = {} /\ Returning(p) = {}
      BY DEF CountInv, Placed, PlacedAt, AtProducer, Verifying, Returning
    <3>2. Cardinality(Verifying(p)') = 0 /\ Cardinality(Returning(p)') = 0
      BY <1>1, <3>1, FS_EmptySet
    <3> QED BY <3>2
  <2> QED BY <2>1, <2>2 DEF Counted, CountedAt
<1>4. Placed'
  <2>1. Len(producers) \in Nat /\ Len(producers') \in Nat
    BY DEF TypeOK
  <2>2. ASSUME NEW d \in Consumers PROVE PlacedAt(d)'
    <3>1. PlacedAt(d) /\ con[d].p \in Nat /\ con[d].best \in Nat /\ con[d].left \in Int
      BY DEF CountInv, Placed, TypeOK, ConsumerType
    <3> QED BY <2>1, <3>1 DEF PlacedAt
  <2> QED BY <2>2 DEF Placed
<1>5. Claims'
  <2>1. ASSUME NEW d \in Consumers PROVE ClaimAt(d)'
    <3>1. ClaimAt(d) /\ PlacedAt(d)
      BY DEF CountInv, Claims, Placed
    <3>2. CASE con[d].at \in {"check", "claim", "verify"}
      <4>1. PICK p \in DOMAIN producers : p = con[d].p
        BY <3>1, <3>2 DEF PlacedAt, AtProducer
      <4>2. Bound(p, con[d].count)' = Bound(p, con[d].count) /\ Bound(p, con[d].count) \in Nat
        BY <1>1, <1>2, <4>1 DEF Bound
      <4>3. Bound(p, con[d].count) <= producers[p].tail =>
                Bound(p, con[d].count) <= producers'[p].tail
        BY <1>2, <4>2
      <4>4. Verifying(p)' = Verifying(p)
        BY <1>1
      <4> QED BY <3>1, <4>1, <4>2, <4>3, <4>4 DEF ClaimAt
    <3>3. CASE con[d].at \notin {"check", "claim", "verify"}
      BY <3>1, <3>3 DEF ClaimAt
    <3> QED BY <3>2, <3>3
  <2> QED BY <2>1 DEF Claims
<1> QED BY <1>3, <1>4, <1>5 DEF CountInv

\* What consumer c does at producer p does not touch the counts at the others.
LEMMA OtherCounts ==
  ASSUME TypeOK, CountInv, NEW c \in Consumers, ConOnly(c), NEW p \in DOMAIN producers,
             p = con[c].p,
         con'[c].p = p \/ con'[c].at \notin {"verify", "giveBack"}, OnlyAt(p), PlacedAt(c)'
  PROVE  /\ Placed'
         /\ \A q \in DOMAIN producers \ {p} : CountedAt(q)'
         /\ \A d \in Consumers \ {c} : con[d].p # p
                \/ con[d].at \notin {"check", "claim", "verify"} => ClaimAt(d)'
<1>1. \A d \in Consumers \ {c} : con'[d] = con[d]
  BY DEF ConOnly
<1>2. ASSUME NEW q, q # p
      PROVE  /\ Verifying(q)' = Verifying(q) /\ Returning(q)' = Returning(q)
             /\ \A n : UpTo(q, n)' = UpTo(q, n)
  <2>1. ASSUME NEW d \in Consumers
        PROVE  /\ con'[d].at = "verify" /\ con'[d].p = q <=>
                      con[d].at = "verify" /\ con[d].p = q
               /\ con'[d].at = "giveBack" /\ con'[d].p = q <=>
                      con[d].at = "giveBack" /\ con[d].p = q
               /\ con[d].at = "verify" /\ con[d].p = q => con'[d].count = con[d].count
    BY <1>1, <1>2
  <2>2. Verifying(q)' = Verifying(q)
    BY <2>1 DEF Verifying
  <2>3. Returning(q)' = Returning(q)
    BY <2>1 DEF Returning
  <2>4. ASSUME NEW n PROVE UpTo(q, n)' = UpTo(q, n)
    BY <2>1, <2>2 DEF UpTo, Verifying
  <2> QED BY <2>2, <2>3, <2>4
<1>3. ASSUME NEW q \in DOMAIN producers \ {p} PROVE CountedAt(q)'
  <2>1. CountedAt(q) /\ producers'[q] = producers[q]
    BY DEF CountInv, Counted, OnlyAt
  <2> QED BY <1>2, <2>1 DEF CountedAt
<1>4. Placed'
  <2>1. ASSUME NEW d \in Consumers \ {c} PROVE PlacedAt(d)'
    BY <1>1 DEF CountInv, Placed, PlacedAt, ConOnly, OnlyAt
  <2> QED BY <2>1 DEF Placed
<1>5. ASSUME NEW d \in Consumers \ {c}, con[d].p # p
                 \/ con[d].at \notin {"check", "claim", "verify"}
      PROVE  ClaimAt(d)'
  <2>1. con'[d] = con[d] /\ ClaimAt(d) /\ PlacedAt(d)
    BY <1>1 DEF CountInv, Claims, Placed
  <2>2. CASE con[d].at \in {"check", "claim", "verify"}
    <3>1. PICK q \in DOMAIN producers \ {p} : q = con[d].p
      BY <1>5, <2>1, <2>2 DEF PlacedAt, AtProducer
    <3>2. producers'[q] = producers[q]
      BY DEF OnlyAt
    <3>3. Bound(q, con[d].count)' = Bound(q, con[d].count)
      BY <1>2, <2>1, <3>1, <3>2 DEF Bound
    <3>4. Verifying(q)' = Verifying(q) /\ \A x \in Verifying(q) : con'[x].count = con[x].count
      <4>1. c \notin Verifying(q)
        BY <3>1 DEF Verifying
      <4> QED BY <1>1, <1>2, <4>1 DEF Verifying
    <3> QED BY <2>1, <3>1, <3>2, <3>3, <3>4 DEF ClaimAt
  <2>3. CASE con[d].at \notin {"check", "claim", "verify"}
    BY <2>1, <2>3 DEF ClaimAt
  <2> QED BY <2>2, <2>3
<1> QED BY <1>3, <1>4, <1>5

\* A claim counts one more, which is in the place of none before it.
LEMMA ClaimKeepsCount ==
  ASSUME TypeOK, CountInv, NEW c \in team, claim(c)
  PROVE  CountInv'
<1>1. /\ TypeOK' /\ ConOnly(c) /\ c \in Consumers /\ con[c].at = "claim"
      /\ con[c].p \in DOMAIN producers
      /\ con'[c].at = "verify" /\ con'[c].count = from(c).optimistic
      /\ con'[c].saw = con[c].saw /\ con'[c].p = con[c].p /\ con'[c].best = con[c].best
      /\ con'[c].left = con[c].left /\ con'[c].overcommit = con[c].overcommit
      /\ OnlyAt(con[c].p)
      /\ producers'[con[c].p].optimistic = from(c).optimistic + 1
      /\ producers'[con[c].p].tail = from(c).tail /\ producers'[con[c].p].head = from(c).head
      /\ producers'[con[c].p].overcommit = from(c).overcommit
  BY ClaimStep DEF CountInv
<1>2. PICK p \in DOMAIN producers : p = con[c].p
  BY <1>1
<1>3. /\ OnlyAt(p) /\ producers'[p].optimistic = producers[p].optimistic + 1
      /\ producers'[p].tail = producers[p].tail /\ producers'[p].head = producers[p].head
      /\ producers'[p].overcommit = producers[p].overcommit
      /\ con'[c].count = producers[p].optimistic
  BY <1>1, <1>2 DEF from
<1>4. \A d \in Consumers \ {c} : con'[d] = con[d]
  BY <1>1 DEF ConOnly
<1>5. PlacedAt(c)'
  <2>1. PlacedAt(c) /\ Len(producers') = Len(producers) /\ DOMAIN producers' = DOMAIN producers
            /\ team' = team
    BY <1>1 DEF CountInv, Placed, OnlyAt, ConOnly
  <2> QED BY <1>1, <2>1 DEF PlacedAt, AtProducer
<1>6. /\ Placed'
      /\ \A q \in DOMAIN producers \ {p} : CountedAt(q)'
      /\ \A d \in Consumers \ {c} : con[d].p # p
             \/ con[d].at \notin {"check", "claim", "verify"} => ClaimAt(d)'
  <2> QED BY <1>1, <1>2, <1>3, <1>5, OtherCounts
<1>7. PICK V, R : V = Verifying(p) /\ R = Returning(p)
  OBVIOUS
<1>8. /\ IsFiniteSet(V) /\ Cardinality(V) \in Nat /\ Cardinality(R) \in Nat /\ c \notin V
      /\ producers[p].head <= producers[p].tail
      /\ producers[p].optimistic
             = producers[p].head + producers[p].overcommit + Cardinality(V) + Cardinality(R)
      /\ producers[p].head \in Nat /\ producers[p].tail \in Nat
      /\ producers[p].optimistic \in Nat
      /\ producers[p].overcommit \in Nat
  BY <1>1, <1>7, CountsFinite, ProducerTyped DEF CountInv, Counted, CountedAt, Verifying
<1>9. /\ Verifying(p)' = V \union {c} /\ Returning(p)' = R
      /\ \A d \in V : con[d].count < producers[p].optimistic /\ con'[d] = con[d]
             /\ con[d].count \in Nat
  <2>1. ASSUME NEW d \in V PROVE con[d].count < producers[p].optimistic /\ con'[d] = con[d]
                   /\ con[d].count \in Nat
    <3>1. d \in Consumers \ {c} /\ con[d].at = "verify" /\ con[d].p = p
      BY <1>7, <1>8 DEF Verifying
    <3> QED BY <1>4, <3>1 DEF CountInv, Claims, ClaimAt, TypeOK, ConsumerType
  <2>2. Verifying(p)' = V \union {c}
    BY <1>1, <1>2, <1>4, <1>7 DEF Verifying
  <2>3. Returning(p)' = R
    BY <1>1, <1>4, <1>7 DEF Returning
  <2> QED BY <2>1, <2>2, <2>3
<1>10. Cardinality(V \union {c}) = Cardinality(V) + 1
  BY <1>8, FS_AddElement
<1>11. CountedAt(p)'
  BY <1>3, <1>8, <1>9, <1>10 DEF CountedAt
<1>12. con[c].overcommit <= producers[p].overcommit /\ con[c].overcommit \in Nat
  BY <1>1, <1>2 DEF CountInv, Claims, ClaimAt, TypeOK, ConsumerType
<1>13. ClaimAt(c)'
  <2>1. PICK n : n = con'[c].count
    OBVIOUS
  <2>2. UpTo(p, n)' = V \union {c}
    <3>1. \A d \in V \union {c} : con'[d].count <= n
      BY <1>3, <1>8, <1>9, <2>1
    <3>2. UpTo(p, n)' = {d \in V \union {c} : con'[d].count <= n}
      BY <1>9 DEF UpTo
    <3> QED BY <3>1, <3>2
  <2>3. Bound(p, n)' = producers[p].head + Cardinality(V) + 1
    BY <1>3, <1>8, <1>10, <2>2 DEF Bound
  <2>4. \A d \in V \union {c} : con'[d].count = n => d = c
    BY <1>3, <1>8, <1>9, <2>1
  <2>5. con'[c].p = p /\ con'[c].overcommit = con[c].overcommit
    BY <1>1, <1>2
  <2>6. con'[c].overcommit <= n /\ n < producers'[p].optimistic
    BY <1>3, <1>8, <1>12, <2>1, <2>5
  <2>7. Bound(p, n)' <= n - con'[c].overcommit + 1
    BY <1>3, <1>8, <1>12, <2>1, <2>3, <2>5
  <2>8. con'[c].overcommit <= producers'[p].overcommit
    BY <1>3, <1>12, <2>5
  <2> QED BY <1>9, <2>1, <2>4, <2>5, <2>6, <2>7, <2>8 DEF ClaimAt, Bound, UpTo
<1>14. ASSUME NEW d \in Consumers \ {c}, con[d].p = p,
                  con[d].at \in {"check", "claim", "verify"}
       PROVE  ClaimAt(d)'
  <2>1. con'[d] = con[d] /\ ClaimAt(d)
    BY <1>4 DEF CountInv, Claims
  <2>2. ASSUME con[d].at = "verify"
        PROVE  /\ UpTo(p, con[d].count)' = UpTo(p, con[d].count)
               /\ con[d].count < producers[p].optimistic + 1
               /\ \A x \in V \union {c} : con'[x].count = con[d].count => x = d
    <3>1. d \in V
      BY <1>7, <1>14, <2>2 DEF Verifying
    <3>2. con[d].count < producers[p].optimistic /\ con[d].count \in Nat
      BY <1>9, <3>1
    <3>3. UpTo(p, con[d].count)' = UpTo(p, con[d].count)
      <4>1. \A x \in V \union {c} : con'[x].count <= con[d].count <=>
                x # c /\ con[x].count <= con[d].count
        BY <1>3, <1>8, <1>9, <3>2
      <4>2. UpTo(p, con[d].count)' = {x \in V \union {c} : con'[x].count <= con[d].count}
        BY <1>9, <2>1 DEF UpTo
      <4>3. UpTo(p, con[d].count) = {x \in V : con[x].count <= con[d].count}
        BY <1>7 DEF UpTo
      <4> QED BY <1>8, <1>9, <4>1, <4>2, <4>3
    <3>4. \A x \in V \union {c} : con'[x].count = con[d].count => x = d
      BY <1>3, <1>7, <1>8, <1>9, <1>14, <2>1, <2>2, <3>2 DEF ClaimAt
    <3>5. con[d].count < producers[p].optimistic + 1
      BY <1>8, <3>2
    <3> QED BY <3>3, <3>4, <3>5
  <2>3. con[d].at = "verify" => Bound(p, con[d].count)' = Bound(p, con[d].count)
    BY <1>3, <2>1, <2>2 DEF Bound
  <2> QED BY <1>3, <1>9, <1>14, <2>1, <2>2, <2>3 DEF ClaimAt
<1> QED BY <1>3, <1>6, <1>11, <1>13, <1>14 DEF CountInv, Counted, Claims, OnlyAt

\* Once its claim is verified, or has failed, c is no longer before the others at p.
LEMMA Verified ==
  ASSUME TypeOK, CountInv, NEW c \in Consumers, ConOnly(c), NEW p \in DOMAIN producers,
         con[c].at = "verify", con[c].p = p, con'[c].at # "verify"
  PROVE  /\ Cardinality(Verifying(p)') = Cardinality(Verifying(p)) - 1
         /\ \A d \in Verifying(p)' : d # c /\ d \in Verifying(p) /\ con'[d] = con[d]
         /\ Cardinality(UpTo(p, con[c].count)) >= 1
         /\ \A d \in Verifying(p)' :
              \/ Cardinality(UpTo(p, con[d].count)') = Cardinality(UpTo(p, con[d].count)) - 1
              \/ /\ UpTo(p, con[d].count)' = UpTo(p, con[d].count)
                 /\ Cardinality(UpTo(p, con[d].count)) + 1 <= Cardinality(UpTo(p, con[c].count))
<1>1. \A d \in Consumers \ {c} : con'[d] = con[d]
  BY DEF ConOnly
<1>2. PICK V : V = Verifying(p)
  OBVIOUS
<1>3. /\ c \in V /\ IsFiniteSet(V) /\ Verifying(p)' = V \ {c}
      /\ \A d \in V \ {c} : con'[d] = con[d]
      /\ \A d \in V : con[d].count \in Int
  <2>1. IsFiniteSet(V)
    BY <1>2, CountsFinite
  <2>2. c \in V /\ \A d \in V : con[d].count \in Int
    BY <1>2 DEF Verifying, TypeOK, ConsumerType
  <2>3. Verifying(p)' = V \ {c} /\ \A d \in V \ {c} : con'[d] = con[d]
    BY <1>1, <1>2 DEF Verifying
  <2> QED BY <2>1, <2>2, <2>3
<1>4. Cardinality(V \ {c}) = Cardinality(V) - 1
  BY <1>3, FS_RemoveElement
<1>5. PICK U : U = UpTo(p, con[c].count)
  OBVIOUS
<1>6. IsFiniteSet(U) /\ c \in U /\ Cardinality(U) \in Nat
          /\ U = {d \in V : con[d].count <= con[c].count}
  <2>1. IsFiniteSet(U) /\ Cardinality(U) \in Nat
    BY <1>5, CountsFinite
  <2>2. U = {d \in V : con[d].count <= con[c].count}
    BY <1>2, <1>5 DEF UpTo
  <2> QED BY <1>3, <2>1, <2>2
<1>7. Cardinality(U) >= 1
  <2>1. Cardinality(U \ {c}) = Cardinality(U) - 1 /\ IsFiniteSet(U \ {c})
    BY <1>6, FS_RemoveElement
  <2>2. Cardinality(U \ {c}) \in Nat
    BY <2>1, FS_CardinalityType
  <2> QED BY <1>6, <2>1, <2>2
<1>8. ASSUME NEW d \in V \ {c}
      PROVE  \/ Cardinality(UpTo(p, con[d].count)') = Cardinality(UpTo(p, con[d].count)) - 1
             \/ /\ UpTo(p, con[d].count)' = UpTo(p, con[d].count)
                /\ Cardinality(UpTo(p, con[d].count)) + 1 <= Cardinality(U)
  <2>1. PICK n : n = con[d].count
    OBVIOUS
  <2>2. PICK W : W = UpTo(p, n)
    OBVIOUS
  <2>3. /\ IsFiniteSet(W) /\ W = {x \in V : con[x].count <= n} /\ Cardinality(W) \in Nat
        /\ n \in Int
    <3>1. IsFiniteSet(W) /\ Cardinality(W) \in Nat
      BY <2>2, CountsFinite
    <3>2. W = {x \in V : con[x].count <= n}
      BY <1>2, <2>2 DEF UpTo
    <3> QED BY <1>3, <2>1, <3>1, <3>2
  <2>4. UpTo(p, n)' = W \ {c}
    <3>1. UpTo(p, n)' = {x \in V \ {c} : con'[x].count <= n}
      BY <1>3 DEF UpTo
    <3> QED BY <1>3, <2>3, <3>1
  <2>5. CASE c \in W
    <3>1. Cardinality(W \ {c}) = Cardinality(W) - 1
      BY <2>3, <2>5, FS_RemoveElement
    <3>2. con'[d].count = n
      BY <1>3, <2>1
    <3>3. Cardinality(UpTo(p, n)') = Cardinality(UpTo(p, n)) - 1
      BY <2>2, <2>4, <3>1
    <3> QED BY <2>1, <3>2, <3>3 DEF UpTo
  <2>6. CASE c \notin W
    <3>1. W \subseteq U /\ c \notin W
      <4>1. con[c].count > n
        BY <1>3, <2>3, <2>6
      <4>2. \A x \in V : con[x].count <= n => con[x].count <= con[c].count
        BY <1>3, <2>3, <4>1
      <4> QED BY <1>6, <2>3, <2>6, <4>2
    <3>2. W \in SUBSET (U \ {c})
      BY <3>1
    <3>3. Cardinality(U \ {c}) = Cardinality(U) - 1 /\ IsFiniteSet(U \ {c})
      BY <1>6, FS_RemoveElement
    <3>4. PICK X : X = U \ {c}
      OBVIOUS
    <3>5. Cardinality(W) <= Cardinality(X)
      BY <3>2, <3>3, <3>4, FS_Subset
    <3>6. W \ {c} = W
      BY <2>6
    <3>7. con'[d].count = n
      BY <1>3, <2>1
    <3>8. UpTo(p, n)' = UpTo(p, n) /\ Cardinality(UpTo(p, n)) + 1 <= Cardinality(U)
      BY <1>6, <2>2, <2>3, <2>4, <3>3, <3>4, <3>5, <3>6
    <3> QED BY <2>1, <3>7, <3>8 DEF UpTo
  <2> QED BY <2>5, <2>6
<1> QED BY <1>2, <1>3, <1>4, <1>5, <1>7, <1>8 DEF UpTo

\* A verified claim takes the place of what it was counted for.
LEMMA TakeKeepsCount ==
  ASSUME TypeOK, CountInv, NEW c \in team, takeIndex(c),
             con[c].count - con[c].overcommit < from(c).tail
  PROVE  CountInv'
<1>1. /\ TypeOK' /\ ConOnly(c) /\ c \in Consumers /\ con[c].at = "verify"
      /\ con[c].p \in DOMAIN producers
      /\ con'[c].at = "header" /\ con'[c].saw = con[c].saw /\ con'[c].p = con[c].p
      /\ con'[c].left = 0 /\ OnlyAt(con[c].p)
      /\ producers'[con[c].p].head = from(c).head + 1
      /\ producers'[con[c].p].tail = from(c).tail
      /\ producers'[con[c].p].optimistic = from(c).optimistic
      /\ producers'[con[c].p].overcommit = from(c).overcommit
  BY TakeIndexStep DEF CountInv
<1>2. PICK p \in DOMAIN producers : p = con[c].p
  BY <1>1
<1>3. /\ OnlyAt(p) /\ producers'[p].optimistic = producers[p].optimistic
      /\ producers'[p].tail = producers[p].tail /\ producers'[p].head = producers[p].head + 1
      /\ producers'[p].overcommit = producers[p].overcommit
      /\ con[c].count - con[c].overcommit < producers[p].tail
  BY <1>1, <1>2 DEF from
<1>4. \A d \in Consumers \ {c} : con'[d] = con[d]
  BY <1>1 DEF ConOnly
<1>5. PlacedAt(c)'
  <2>1. PlacedAt(c) /\ Len(producers') = Len(producers) /\ DOMAIN producers' = DOMAIN producers
            /\ team' = team
        /\ Len(producers) \in Nat
    BY <1>1 DEF CountInv, Placed, OnlyAt, ConOnly, TypeOK
  <2> QED BY <1>1, <2>1 DEF PlacedAt, AtProducer, NotYet
<1>6. /\ Placed'
      /\ \A q \in DOMAIN producers \ {p} : CountedAt(q)'
      /\ \A d \in Consumers \ {c} : con[d].p # p
             \/ con[d].at \notin {"check", "claim", "verify"} => ClaimAt(d)'
  <2> QED BY <1>1, <1>2, <1>3, <1>5, OtherCounts
<1>7. /\ Cardinality(Verifying(p)') = Cardinality(Verifying(p)) - 1
      /\ \A d \in Verifying(p)' : d # c /\ d \in Verifying(p) /\ con'[d] = con[d]
      /\ Cardinality(UpTo(p, con[c].count)) >= 1
      /\ \A d \in Verifying(p)' :
           \/ Cardinality(UpTo(p, con[d].count)') = Cardinality(UpTo(p, con[d].count)) - 1
           \/ /\ UpTo(p, con[d].count)' = UpTo(p, con[d].count)
              /\ Cardinality(UpTo(p, con[d].count)) + 1 <= Cardinality(UpTo(p, con[c].count))
  BY <1>1, <1>2, Verified
<1>8. /\ producers[p].head \in Nat /\ producers[p].tail \in Nat
      /\ producers[p].optimistic \in Nat
      /\ producers[p].overcommit \in Nat /\ Cardinality(Verifying(p)) \in Nat
      /\ Cardinality(Returning(p)) \in Nat /\ Cardinality(UpTo(p, con[c].count)) \in Nat
      /\ con[c].count \in Nat /\ con[c].overcommit \in Nat
  BY <1>1, CountsFinite, ProducerTyped DEF TypeOK, ConsumerType
<1>9. Returning(p)' = Returning(p)
  BY <1>1, <1>4 DEF Returning
<1>10. producers[p].head + Cardinality(UpTo(p, con[c].count)) <= producers[p].tail
  <2>1. \/ Bound(p, con[c].count) <= producers[p].tail
        \/ Bound(p, con[c].count) <= con[c].count - con[c].overcommit + 1
    BY <1>1, <1>2 DEF CountInv, Claims, ClaimAt
  <2> QED BY <1>3, <1>8, <2>1 DEF Bound
<1>11. CountedAt(p)'
  <2>1. producers[p].optimistic = producers[p].head + producers[p].overcommit
                                  + Cardinality(Verifying(p)) + Cardinality(Returning(p))
    BY DEF CountInv, Counted, CountedAt
  <2>2. producers'[p].head <= producers'[p].tail
    BY <1>3, <1>7, <1>8, <1>10
  <2>3. producers'[p].optimistic = producers'[p].head + producers'[p].overcommit
                                  + Cardinality(Verifying(p)') + Cardinality(Returning(p)')
    BY <1>3, <1>7, <1>8, <1>9, <2>1
  <2> QED BY <2>2, <2>3 DEF CountedAt
<1>12. ASSUME NEW d \in Consumers \ {c}, con[d].p = p,
                  con[d].at \in {"check", "claim", "verify"}
       PROVE  ClaimAt(d)'
  <2>1. con'[d] = con[d] /\ ClaimAt(d)
    BY <1>4 DEF CountInv, Claims
  <2>2. ASSUME con[d].at = "verify"
        PROVE  /\ \/ Bound(p, con[d].count)' <= producers[p].tail
                  \/ Bound(p, con[d].count)' <= con[d].count - con[d].overcommit + 1
               /\ \A x \in Verifying(p)' : con'[x].count = con[d].count => x = d
    <3>1. d \in Verifying(p)'
      BY <1>12, <2>1, <2>2 DEF Verifying
    <3>2. \/ Bound(p, con[d].count) <= producers[p].tail
          \/ Bound(p, con[d].count) <= con[d].count - con[d].overcommit + 1
      BY <1>12, <2>1, <2>2 DEF ClaimAt
    <3>3. PICK n : n = con[d].count
      OBVIOUS
    <3>4. PICK k, m, u : k = Cardinality(UpTo(p, n)) /\ m = Cardinality(UpTo(p, n)')
              /\ u = Cardinality(UpTo(p, con[c].count))
      OBVIOUS
    <3>5. k \in Nat /\ u \in Nat /\ con[d].count \in Nat /\ con[d].overcommit \in Nat
      BY <3>4, CountsFinite DEF TypeOK, ConsumerType
    <3>6. m = k - 1 \/ (m = k /\ k + 1 <= u)
      <4>1. con'[d].count = n
        BY <2>1, <3>3
      <4>2. \/ Cardinality(UpTo(p, con[d].count)') = Cardinality(UpTo(p, con[d].count)) - 1
            \/ /\ UpTo(p, con[d].count)' = UpTo(p, con[d].count)
               /\ Cardinality(UpTo(p, con[d].count)) + 1 <= Cardinality(UpTo(p, con[c].count))
        BY <1>7, <3>1
      <4>3. UpTo(p, con[d].count)' = UpTo(p, n)' /\ UpTo(p, con[d].count) = UpTo(p, n)
        BY <3>3, <4>1 DEF UpTo
      <4> QED BY <3>4, <3>5, <4>2, <4>3
    <3>7. Bound(p, n)' = producers[p].head + 1 + m /\ Bound(p, n) = producers[p].head + k
      BY <1>3, <3>4 DEF Bound
    <3>8. producers[p].head + u <= producers[p].tail
      BY <1>10, <3>4
    <3>9. \/ Bound(p, n)' <= producers[p].tail
          \/ Bound(p, n)' <= con[d].count - con[d].overcommit + 1
      BY <1>8, <3>2, <3>3, <3>5, <3>6, <3>7, <3>8
    <3>10. \A x \in Verifying(p)' : con'[x].count = con[d].count => x = d
      BY <1>7, <1>12, <2>1, <2>2 DEF ClaimAt
    <3>11. con'[d].count = n
      BY <2>1, <3>3
    <3> QED BY <3>3, <3>9, <3>10, <3>11 DEF Bound, UpTo
  <2> QED BY <1>3, <1>12, <2>1, <2>2 DEF ClaimAt, Bound, UpTo
<1>13. ClaimAt(c)'
  BY <1>1 DEF ClaimAt
<1> QED BY <1>3, <1>6, <1>11, <1>12, <1>13 DEF CountInv, Counted, Claims, OnlyAt

\* A claim that fails is still counted, until it is given back.
LEMMA FailKeepsCount ==
  ASSUME TypeOK, CountInv, NEW c \in team, takeIndex(c),
             ~ (con[c].count - con[c].overcommit < from(c).tail)
  PROVE  CountInv'
<1>1. /\ TypeOK' /\ ConOnly(c) /\ UNCHANGED producers
      /\ c \in Consumers /\ con[c].at = "verify" /\ con[c].p \in DOMAIN producers
      /\ con'[c].at = "giveBack" /\ con'[c].saw = con[c].saw /\ con'[c].p = con[c].p
      /\ con'[c].best = con[c].best /\ con'[c].left = con[c].left
  BY TakeFailsStep DEF CountInv
<1>2. PICK p \in DOMAIN producers : p = con[c].p
  BY <1>1
<1>3. OnlyAt(p)
  BY <1>1 DEF OnlyAt
<1>4. \A d \in Consumers \ {c} : con'[d] = con[d]
  BY <1>1 DEF ConOnly
<1>5. PlacedAt(c)'
  <2>1. PlacedAt(c) /\ team' = team
    BY <1>1 DEF CountInv, Placed, ConOnly
  <2> QED BY <1>1, <2>1 DEF PlacedAt, AtProducer
<1>6. /\ Placed'
      /\ \A q \in DOMAIN producers \ {p} : CountedAt(q)'
      /\ \A d \in Consumers \ {c} : con[d].p # p
             \/ con[d].at \notin {"check", "claim", "verify"} => ClaimAt(d)'
  <2> QED BY <1>1, <1>2, <1>3, <1>5, OtherCounts
<1>7. /\ Cardinality(Verifying(p)') = Cardinality(Verifying(p)) - 1
      /\ \A d \in Verifying(p)' : d # c /\ d \in Verifying(p) /\ con'[d] = con[d]
      /\ \A d \in Verifying(p)' :
           \/ Cardinality(UpTo(p, con[d].count)') = Cardinality(UpTo(p, con[d].count)) - 1
           \/ UpTo(p, con[d].count)' = UpTo(p, con[d].count)
  <2>1. con'[c].at # "verify"
    BY <1>1
  <2> QED BY <1>1, <1>2, <2>1, Verified
<1>8. PICK R : R = Returning(p)
  OBVIOUS
<1>9. /\ Returning(p)' = R \union {c} /\ c \notin R /\ IsFiniteSet(R)
  <2>1. IsFiniteSet(R)
    BY <1>8, CountsFinite
  <2>2. Returning(p)' = R \union {c} /\ c \notin R
    BY <1>1, <1>2, <1>4, <1>8 DEF Returning
  <2> QED BY <2>1, <2>2
<1>10. Cardinality(R \union {c}) = Cardinality(R) + 1 /\ Cardinality(R) \in Nat
  BY <1>9, FS_AddElement, FS_CardinalityType
<1>11. CountedAt(p)'
  <2>1. CountedAt(p)
    BY DEF CountInv, Counted
  <2>2. Cardinality(Verifying(p)) \in Nat /\ producers[p].head \in Nat
            /\ producers[p].overcommit \in Nat
    BY CountsFinite, ProducerTyped
  <2>3. producers[p].optimistic = producers[p].head + producers[p].overcommit
                                  + (Cardinality(Verifying(p)) - 1) + (Cardinality(R) + 1)
    BY <1>8, <1>10, <2>1, <2>2 DEF CountedAt
  <2> QED BY <1>1, <1>7, <1>9, <1>10, <2>1, <2>3 DEF CountedAt
<1>12. ASSUME NEW d \in Consumers \ {c}, con[d].p = p,
                  con[d].at \in {"check", "claim", "verify"}
       PROVE  ClaimAt(d)'
  <2>1. con'[d] = con[d] /\ ClaimAt(d)
    BY <1>4 DEF CountInv, Claims
  <2>2. ASSUME con[d].at = "verify"
        PROVE  /\ \/ Bound(p, con[d].count)' <= producers[p].tail
                  \/ Bound(p, con[d].count)' <= con[d].count - con[d].overcommit + 1
               /\ \A x \in Verifying(p)' : con'[x].count = con[d].count => x = d
    <3>1. d \in Verifying(p)'
      BY <1>12, <2>1, <2>2 DEF Verifying
    <3>2. \/ Bound(p, con[d].count) <= producers[p].tail
          \/ Bound(p, con[d].count) <= con[d].count - con[d].overcommit + 1
      BY <1>12, <2>1, <2>2 DEF ClaimAt
    <3>3. PICK n : n = con[d].count
      OBVIOUS
    <3>4. PICK k, m : k = Cardinality(UpTo(p, n)) /\ m = Cardinality(UpTo(p, n)')
      OBVIOUS
    <3>5. k \in Nat /\ con[d].count \in Nat /\ con[d].overcommit \in Nat
              /\ producers[p].head \in Nat /\ producers[p].tail \in Nat
      BY <3>4, CountsFinite, ProducerTyped DEF TypeOK, ConsumerType
    <3>6. m = k - 1 \/ m = k
      <4>1. con'[d].count = n
        BY <2>1, <3>3
      <4>2. UpTo(p, con[d].count)' = UpTo(p, n)' /\ UpTo(p, con[d].count) = UpTo(p, n)
        BY <3>3, <4>1 DEF UpTo
      <4>3. \/ Cardinality(UpTo(p, con[d].count)') = Cardinality(UpTo(p, con[d].count)) - 1
            \/ UpTo(p, con[d].count)' = UpTo(p, con[d].count)
        BY <1>7, <3>1
      <4> QED BY <3>4, <4>2, <4>3
    <3>7. Bound(p, n)' = producers[p].head + m /\ Bound(p, n) = producers[p].head + k
      BY <1>1, <3>4 DEF Bound
    <3>8. \/ Bound(p, n)' <= producers[p].tail
          \/ Bound(p, n)' <= con[d].count - con[d].overcommit + 1
      BY <3>2, <3>3, <3>5, <3>6, <3>7
    <3>9. \A x \in Verifying(p)' : con'[x].count = con[d].count => x = d
      BY <1>7, <1>12, <2>1, <2>2 DEF ClaimAt
    <3>10. con'[d].count = n
      BY <2>1, <3>3
    <3> QED BY <3>3, <3>8, <3>9, <3>10 DEF Bound, UpTo
  <2> QED BY <1>1, <1>12, <2>1, <2>2 DEF ClaimAt, Bound, UpTo
<1>13. ClaimAt(c)'
  BY <1>1 DEF ClaimAt
<1> QED BY <1>1, <1>6, <1>11, <1>12, <1>13 DEF CountInv, Counted, Claims

\* What is given back is overcommitted, and no longer counted twice.
LEMMA GiveBackKeepsCount ==
  ASSUME TypeOK, CountInv, NEW c \in team, giveBack(c)
  PROVE  CountInv'
<1>1. /\ TypeOK' /\ ConOnly(c) /\ c \in Consumers /\ con[c].at = "giveBack"
      /\ con[c].p \in DOMAIN producers
      /\ NextOf(c, con'[c]) /\ OnlyAt(con[c].p)
      /\ producers'[con[c].p].overcommit = from(c).overcommit + 1
      /\ producers'[con[c].p].tail = from(c).tail /\ producers'[con[c].p].head = from(c).head
      /\ producers'[con[c].p].optimistic = from(c).optimistic
  BY GiveBackStep DEF CountInv
<1>2. PICK p \in DOMAIN producers : p = con[c].p
  BY <1>1
<1>3. /\ OnlyAt(p) /\ producers'[p].optimistic = producers[p].optimistic
      /\ producers'[p].tail = producers[p].tail /\ producers'[p].head = producers[p].head
      /\ producers'[p].overcommit = producers[p].overcommit + 1
  BY <1>1, <1>2 DEF from
<1>4. \A d \in Consumers \ {c} : con'[d] = con[d]
  BY <1>1 DEF ConOnly
<1>5. PlacedAt(c)' /\ con'[c].at \in {"idle", "dequeue"}
  BY <1>1, NextPlaced DEF CountInv, OnlyAt
<1>6. /\ Placed'
      /\ \A q \in DOMAIN producers \ {p} : CountedAt(q)'
      /\ \A d \in Consumers \ {c} : con[d].p # p
             \/ con[d].at \notin {"check", "claim", "verify"} => ClaimAt(d)'
  <2>1. con'[c].at \notin {"verify", "giveBack"}
    BY <1>5
  <2> QED BY <1>1, <1>2, <1>3, <1>5, <2>1, OtherCounts
<1>7. PICK R : R = Returning(p)
  OBVIOUS
<1>8. /\ Returning(p)' = R \ {c} /\ c \in R /\ IsFiniteSet(R)
  <2>1. IsFiniteSet(R)
    BY <1>7, CountsFinite
  <2>2. Returning(p)' = R \ {c} /\ c \in R
    BY <1>1, <1>2, <1>4, <1>5, <1>7 DEF Returning
  <2> QED BY <2>1, <2>2
<1>9. Cardinality(R \ {c}) = Cardinality(R) - 1 /\ Cardinality(R) \in Nat
  BY <1>8, FS_RemoveElement, FS_CardinalityType
<1>10. Verifying(p)' = Verifying(p) /\ \A n : UpTo(p, n)' = UpTo(p, n)
  <2>1. Verifying(p)' = Verifying(p) /\ \A d \in Verifying(p) : con'[d] = con[d]
    BY <1>1, <1>4, <1>5 DEF Verifying
  <2> QED BY <2>1 DEF UpTo
<1>11. CountedAt(p)'
  <2>1. CountedAt(p)
    BY DEF CountInv, Counted
  <2>2. Cardinality(Verifying(p)) \in Nat /\ producers[p].head \in Nat
            /\ producers[p].overcommit \in Nat
    BY CountsFinite, ProducerTyped
  <2>3. producers[p].optimistic = producers[p].head + (producers[p].overcommit + 1)
                                  + Cardinality(Verifying(p)) + (Cardinality(R) - 1)
    BY <1>7, <1>9, <2>1, <2>2 DEF CountedAt
  <2> QED BY <1>3, <1>8, <1>9, <1>10, <2>1, <2>3 DEF CountedAt
<1>12. ASSUME NEW d \in Consumers \ {c}, con[d].p = p,
                  con[d].at \in {"check", "claim", "verify"}
       PROVE  ClaimAt(d)'
  <2>1. con'[d] = con[d] /\ ClaimAt(d)
    BY <1>4 DEF CountInv, Claims
  <2>2. con[d].overcommit <= producers[p].overcommit + 1
    <3>1. con[d].overcommit <= producers[p].overcommit
      BY <1>12, <2>1 DEF ClaimAt
    <3>2. con[d].overcommit \in Nat /\ producers[p].overcommit \in Nat
      BY ProducerTyped DEF TypeOK, ConsumerType
    <3> QED BY <3>1, <3>2
  <2>3. Bound(p, con[d].count)' = Bound(p, con[d].count)
    BY <1>3, <1>10, <2>1 DEF Bound
  <2>4. \A x \in Verifying(p) : con'[x].count = con[x].count
    BY <1>1, <1>4 DEF Verifying
  <2> QED BY <1>3, <1>10, <1>12, <2>1, <2>2, <2>3, <2>4 DEF ClaimAt
<1>13. ClaimAt(c)'
  BY <1>5 DEF ClaimAt
<1> QED BY <1>3, <1>6, <1>11, <1>12, <1>13 DEF CountInv, Counted, Claims, OnlyAt

\* A consumer has no index in its hand, or has one.
Aside == {"idle", "look", "size", "dequeue", "check", "claim", "verify", "giveBack"}
Taking == {"header", "tail", "key", "move", "empty", "clear", "free"}

\* A producer keeps its elements where they are.
Untouched(p) ==
  /\ producers'[p].owner = producers[p].owner /\ producers'[p].tail = producers[p].tail
  /\ producers'[p].head = producers[p].head /\ producers'[p].tailBlock = producers[p].tailBlock
  /\ producers'[p].indices = producers[p].indices
  /\ producers'[p].entries = producers[p].entries

\* Until a consumer has taken an index it moves no element.
LookStep(c) ==
  /\ TypeOK' /\ CountInv' /\ HashInv' /\ ConOnly(c) /\ c \in Consumers
  /\ UNCHANGED <<blocks, used, pool>>
  /\ con[c].at \in Aside /\ con'[c].at \in Aside
  /\ DOMAIN producers' = DOMAIN producers /\ Len(producers') = Len(producers)
  /\ \A p \in DOMAIN producers : Untouched(p)

\* The steps that leave even the counters as they are.
LEMMA OnlyLooks ==
  ASSUME TypeOK, CountInv, HashInv, NEW c \in team, TypeOK', ConOnly(c),
             UNCHANGED <<producers, blocks, used, pool>>,
         con[c].at \in Aside \ {"verify", "giveBack"},
             con'[c].at \in Aside \ {"verify", "giveBack"},
         con'[c].at \in {"check", "claim"} =>
             con'[c].overcommit <= producers[con'[c].p].overcommit,
         PlacedAt(c)'
  PROVE  LookStep(c)
<1>1. c \in Consumers
  BY DEF TypeOK
<1>2. /\ DOMAIN producers' = DOMAIN producers /\ Len(producers') = Len(producers)
      /\ \A p \in DOMAIN producers : Untouched(p) /\ CountsKept(p)
             /\ producers'[p].owner = producers[p].owner
  BY DEF Untouched, CountsKept
<1>3. con[c].at \notin {"verify", "giveBack"} /\ con'[c].at \notin {"verify", "giveBack"}
  OBVIOUS
<1>4. CountInv'
  BY <1>1, <1>2, <1>3, CountFrame
<1>5. HashInv'
  BY <1>1, <1>2, ConKeepsHash
<1> QED BY <1>1, <1>2, <1>4, <1>5 DEF LookStep

\* The steps of a consumer that only load (try_dequeue_non_interleaved until it claims).
LEMMA Looking ==
  ASSUME TypeOK, CountInv, HashInv, NEW c \in team,
         \/ try_dequeue(c) \/ loadSizeTail(c) \/ loadSizeHead(c) \/ tryBest(c)
         \/ loadTail(c) \/ loadOptimistic(c)
  PROVE  LookStep(c)
<1>1. /\ c \in Consumers /\ Placed /\ PlacedAt(c) /\ con[c] \in ConsumerType
      /\ Len(producers) \in Nat
      /\ DOMAIN producers = 1 .. Len(producers)
  BY DEF TypeOK, CountInv, Placed
<1>2. \A x \in {"idle", "look", "size", "dequeue", "check", "claim"} :
          x \in Aside \ {"verify", "giveBack"}
  BY DEF Aside
<1>3. /\ con[c].p \in Nat /\ con[c].n \in Nat /\ con[c].best \in Nat /\ con[c].size \in Nat
      /\ con[c].left \in Int /\ con[c].tail \in Nat /\ con[c].overcommit \in Nat
  BY <1>1 DEF ConsumerType
<1>4. NotYet = -1 /\ c \in team
  BY DEF NotYet
<1>5. CASE try_dequeue(c)
  <2>1. /\ TypeOK' /\ ConOnly(c) /\ UNCHANGED <<producers, blocks, used, pool>>
        /\ con[c].at = "idle" /\ con'[c].at = "look" /\ con'[c].p = Len(producers)
        /\ con'[c].saw \in {"empty", "some"}
        /\ con'[c].n = 0 /\ con'[c].best = 0 /\ con'[c].size = 0 /\ con'[c].left = 0
    BY <1>1, <1>5, TryDequeueStep
  <2>2. PlacedAt(c)'
    BY <1>1, <1>4, <2>1 DEF PlacedAt, AtProducer, ConOnly
  <2> QED BY <1>2, <2>1, <2>2, OnlyLooks
<1>6. CASE loadSizeTail(c)
  <2>1. /\ TypeOK' /\ ConOnly(c) /\ UNCHANGED <<producers, blocks, used, pool>>
        /\ con[c].at = "look" /\ con[c].p \in DOMAIN producers /\ con'[c].at = "size"
        /\ con'[c].saw = con[c].saw /\ con'[c].p = con[c].p /\ con'[c].n = con[c].n
        /\ con'[c].best = con[c].best /\ con'[c].size = con[c].size
        /\ con'[c].left = con[c].left
    BY <1>1, <1>6, LoadSizeTailStep
  <2>2. PlacedAt(c)'
    BY <1>1, <1>4, <2>1 DEF PlacedAt, AtProducer, ConOnly
  <2> QED BY <1>2, <2>1, <2>2, OnlyLooks
<1>7. CASE loadSizeHead(c)
  <2>1. /\ TypeOK' /\ ConOnly(c) /\ UNCHANGED <<producers, blocks, used, pool>>
        /\ con[c].at = "size" /\ con[c].p \in DOMAIN producers
        /\ con'[c].at = "look" /\ con'[c].p = con[c].p - 1
        /\ con'[c].saw = con[c].saw /\ con'[c].left = con[c].left
    BY <1>1, <1>7, LoadSizeHeadStep
  <2>2. PICK k : k = con[c].tail - from(c).head
    OBVIOUS
  <2>3. /\ con'[c].n = (IF k > 0 THEN con[c].n + 1 ELSE con[c].n)
        /\ con'[c].best = (IF k > con[c].size THEN con[c].p ELSE con[c].best)
        /\ con'[c].size = (IF k > con[c].size THEN k ELSE con[c].size)
    BY <1>1, <1>7, <2>2, LoadSizeHeadStep
  <2>4. k \in Int
    BY <1>3, <2>1, <2>2, ProducerTyped DEF from
  <2>5. con[c].p # 0 /\ con[c].p <= Len(producers)
    BY <1>1, <2>1
  <2>6. /\ con'[c].best <= Len(producers)
        /\ IF con'[c].n > 0 THEN con'[c].best # 0 ELSE con'[c].size = 0
    BY <1>1, <1>3, <2>1, <2>3, <2>4, <2>5 DEF PlacedAt
  <2>7. con'[c].p <= Len(producers)
    BY <1>1, <1>3, <2>1, <2>5
  <2>8. PlacedAt(c)'
    BY <1>1, <1>4, <2>1, <2>6, <2>7 DEF PlacedAt, AtProducer, ConOnly
  <2> QED BY <1>2, <2>1, <2>8, OnlyLooks
<1>8. CASE tryBest(c) /\ con[c].n > 0
  <2>1. /\ TypeOK' /\ ConOnly(c) /\ UNCHANGED <<producers, blocks, used, pool>>
        /\ con[c].at = "look" /\ con'[c].at = "dequeue" /\ con'[c].saw = con[c].saw
        /\ con'[c].p = con[c].best /\ con'[c].best = con[c].best /\ con'[c].left = NotYet
    BY <1>1, <1>8, TryBestStep
  <2>2. con[c].best \in DOMAIN producers
    BY <1>1, <1>3, <1>8, <2>1 DEF PlacedAt
  <2>3. PlacedAt(c)'
    BY <1>1, <1>4, <2>1, <2>2 DEF PlacedAt, AtProducer, ConOnly
  <2> QED BY <1>2, <2>1, <2>3, OnlyLooks
<1>9. CASE tryBest(c) /\ ~ (con[c].n > 0)
  <2>1. /\ TypeOK' /\ ConOnly(c) /\ UNCHANGED <<producers, blocks, used, pool>>
        /\ con[c].at = "look" /\ con'[c] = AtRest
    BY <1>1, <1>9, NoneFoundStep
  <2>2. NextOf(c, con'[c])
    BY <2>1 DEF NextOf
  <2>3. PlacedAt(c)' /\ con'[c].at = "idle"
    BY <1>1, <2>1, <2>2, NextPlaced, RestFields
  <2> QED BY <1>2, <2>1, <2>3, OnlyLooks
<1>10. CASE loadTail(c)
  <2>1. /\ TypeOK' /\ ConOnly(c) /\ UNCHANGED <<producers, blocks, used, pool>>
        /\ con[c].at = "dequeue" /\ con[c].p \in DOMAIN producers
        /\ con'[c].at = "check" /\ con'[c].overcommit = from(c).overcommit
        /\ con'[c].saw = con[c].saw /\ con'[c].p = con[c].p /\ con'[c].left = con[c].left
    BY <1>1, <1>10, LoadTailStep
  <2>2. PlacedAt(c)'
    BY <1>1, <1>4, <2>1 DEF PlacedAt, AtProducer, ConOnly
  <2>3. con'[c].overcommit <= producers[con'[c].p].overcommit
    BY <2>1, ProducerTyped DEF from
  <2> QED BY <1>2, <2>1, <2>2, <2>3, OnlyLooks
<1>11. CASE loadOptimistic(c) /\ from(c).optimistic - con[c].overcommit < con[c].tail
  <2>1. /\ TypeOK' /\ ConOnly(c) /\ UNCHANGED <<producers, blocks, used, pool>>
        /\ con[c].at = "check" /\ con[c].p \in DOMAIN producers
        /\ con'[c].at = "claim" /\ con'[c].overcommit = con[c].overcommit
        /\ con'[c].saw = con[c].saw /\ con'[c].p = con[c].p /\ con'[c].left = con[c].left
    BY <1>1, <1>11, SeemsLeftStep
  <2>2. PlacedAt(c)'
    BY <1>1, <1>4, <2>1 DEF PlacedAt, AtProducer, ConOnly
  <2>3. con'[c].overcommit <= producers[con'[c].p].overcommit
    BY <1>1, <2>1 DEF CountInv, Claims, ClaimAt
  <2> QED BY <1>2, <2>1, <2>2, <2>3, OnlyLooks
<1>12. CASE loadOptimistic(c) /\ ~ (from(c).optimistic - con[c].overcommit < con[c].tail)
  <2>1. /\ TypeOK' /\ ConOnly(c) /\ UNCHANGED <<producers, blocks, used, pool>>
        /\ con[c].at = "check" /\ NextOf(c, con'[c])
    BY <1>1, <1>12, AllClaimedStep
  <2>2. PlacedAt(c)' /\ con'[c].at \in {"idle", "dequeue"}
    BY <1>1, <2>1, NextPlaced
  <2> QED BY <1>2, <2>1, <2>2, OnlyLooks
<1> QED BY <1>5, <1>6, <1>7, <1>8, <1>9, <1>10, <1>11, <1>12

\* So it is with the steps that count.
LEMMA Counting ==
  ASSUME TypeOK, CountInv, HashInv, NEW c \in team,
         \/ claim(c) \/ giveBack(c)
         \/ takeIndex(c) /\ ~ (con[c].count - con[c].overcommit < from(c).tail)
  PROVE  LookStep(c)
<1>1. c \in Consumers /\ Placed
  BY DEF TypeOK, CountInv
<1>2. ASSUME NEW p \in DOMAIN producers, p = con[c].p, OnlyAt(p), Untouched(p)
      PROVE  /\ DOMAIN producers' = DOMAIN producers /\ Len(producers') = Len(producers)
             /\ \A q \in DOMAIN producers : Untouched(q)
                    /\ producers'[q].owner = producers[q].owner
  BY <1>2 DEF OnlyAt, Untouched
<1>3. CASE claim(c)
  <2>1. /\ TypeOK' /\ ConOnly(c) /\ UNCHANGED <<blocks, used, pool>>
        /\ con[c].at = "claim" /\ con[c].p \in DOMAIN producers /\ con'[c].at = "verify"
        /\ OnlyAt(con[c].p) /\ producers'[con[c].p].owner = from(c).owner
        /\ producers'[con[c].p].tail = from(c).tail /\ producers'[con[c].p].head = from(c).head
        /\ producers'[con[c].p].tailBlock = from(c).tailBlock
        /\ producers'[con[c].p].indices = from(c).indices
        /\ producers'[con[c].p].entries = from(c).entries
    BY <1>1, <1>3, ClaimStep
  <2>2. Untouched(con[c].p)
    BY <2>1 DEF Untouched, from
  <2>3. CountInv'
    BY <1>3, ClaimKeepsCount
  <2>4. /\ DOMAIN producers' = DOMAIN producers /\ Len(producers') = Len(producers)
        /\ \A q \in DOMAIN producers : Untouched(q) /\ producers'[q].owner = producers[q].owner
    BY <1>2, <2>1, <2>2
  <2>5. HashInv'
    BY <1>1, <2>1, <2>4, ConKeepsHash
  <2> QED BY <1>1, <2>1, <2>3, <2>4, <2>5 DEF LookStep, Aside
<1>4. CASE giveBack(c)
  <2>1. /\ TypeOK' /\ ConOnly(c) /\ UNCHANGED <<blocks, used, pool>>
        /\ con[c].at = "giveBack" /\ con[c].p \in DOMAIN producers /\ NextOf(c, con'[c])
        /\ OnlyAt(con[c].p) /\ producers'[con[c].p].owner = from(c).owner
        /\ producers'[con[c].p].tail = from(c).tail /\ producers'[con[c].p].head = from(c).head
        /\ producers'[con[c].p].tailBlock = from(c).tailBlock
        /\ producers'[con[c].p].indices = from(c).indices
        /\ producers'[con[c].p].entries = from(c).entries
    BY <1>1, <1>4, GiveBackStep
  <2>2. Untouched(con[c].p)
    BY <2>1 DEF Untouched, from
  <2>3. CountInv'
    BY <1>4, GiveBackKeepsCount
  <2>4. /\ DOMAIN producers' = DOMAIN producers /\ Len(producers') = Len(producers)
        /\ \A q \in DOMAIN producers : Untouched(q) /\ producers'[q].owner = producers[q].owner
    BY <1>2, <2>1, <2>2
  <2>5. HashInv'
    BY <1>1, <2>1, <2>4, ConKeepsHash
  <2>6. con'[c].at \in {"idle", "dequeue"}
    BY <2>1, RestFields DEF NextOf
  <2> QED BY <1>1, <2>1, <2>3, <2>4, <2>5, <2>6 DEF LookStep, Aside
<1>5. CASE takeIndex(c) /\ ~ (con[c].count - con[c].overcommit < from(c).tail)
  <2>1. /\ TypeOK' /\ ConOnly(c) /\ UNCHANGED <<producers, blocks, used, pool>>
        /\ con[c].at = "verify" /\ con'[c].at = "giveBack"
    BY <1>1, <1>5, TakeFailsStep
  <2>2. CountInv'
    BY <1>5, FailKeepsCount
  <2>3. /\ DOMAIN producers' = DOMAIN producers /\ Len(producers') = Len(producers)
        /\ \A q \in DOMAIN producers : Untouched(q) /\ producers'[q].owner = producers[q].owner
    BY <2>1 DEF Untouched
  <2>4. HashInv'
    BY <1>1, <2>1, <2>3, ConKeepsHash
  <2> QED BY <1>1, <2>1, <2>2, <2>3, <2>4 DEF LookStep, Aside
<1> QED BY <1>3, <1>4, <1>5

\* With its index, a consumer leaves the counters and the hash table alone.
LEMMA TakingKeepsCounts ==
  ASSUME TypeOK, CountInv, HashInv, NEW c \in team, ConOnly(c),
         DOMAIN producers' = DOMAIN producers, Len(producers') = Len(producers),
         \A p \in DOMAIN producers : CountsKept(p) /\ producers'[p].owner = producers[p].owner,
         con[c].at \in Taking,
         \/ con'[c] = AtRest
         \/ /\ con'[c].at \in Taking /\ con'[c].p = con[c].p
            /\ con'[c].saw = con[c].saw /\ con'[c].left = con[c].left
  PROVE  CountInv' /\ HashInv'
<1>1. c \in Consumers /\ Placed /\ PlacedAt(c) /\ con[c].at # "idle" /\ team' = team
  BY DEF TypeOK, CountInv, Placed, Taking, ConOnly
<1>2. HashInv'
  BY <1>1, ConKeepsHash
<1>3. PlacedAt(c)'
  <2>1. CASE con'[c] = AtRest
    BY <1>1, <2>1, NextPlaced DEF NextOf
  <2>2. CASE con'[c] # AtRest
    BY <1>1, <2>2 DEF PlacedAt, AtProducer, Taking
  <2> QED BY <2>1, <2>2
<1>4. /\ con[c].at \notin {"verify", "giveBack"}
      /\ con'[c].at \notin {"verify", "giveBack", "check", "claim"}
  BY RestFields DEF Taking
<1>5. CountInv'
  BY <1>1, <1>3, <1>4, CountFrame
<1> QED BY <1>2, <1>5
-----------------------------------------------------------------------------
(* What leaves the index of blocks and the blocks alone.                   *)

\* The last block with an entry is the one at the tail, or the one after it.
LEMMA LastBases ==
  ASSUME TypeOK, NEW p \in DOMAIN producers
  PROVE  /\ IsBase(LastBase(p)) /\ IsBase(OpenBase(p)) /\ OpenBase(p) <= LastBase(p)
         /\ Base(producers[p].tail - 1) <= OpenBase(p) /\ LastBase(p) <= producers[p].tail
         /\ LastBase(p) \in Int /\ OpenBase(p) \in Int
<1>1. PICK t : t = producers[p].tail
  OBVIOUS
<1>2. t \in Nat
  BY <1>1, ProducerTyped
<1>3. t \in Int /\ t - 1 \in Int /\ t - 1 <= t
  BY <1>2
<1>4. /\ IsBase(Base(t)) /\ Base(t) \in Int /\ Base(t) <= t
      /\ IsBase(Base(t - 1)) /\ Base(t - 1) \in Int /\ Base(t - 1) <= t - 1
  BY <1>3, BaseOf
<1>5. Base(t - 1) <= Base(t)
  BY <1>3, BaseMonotone
<1>6. Base(t - 1) <= t
  BY <1>2, <1>4
<1>7. Doing(p) \in {"write", "publish"} => Doing(p) \in Filling
  BY DEF Filling
<1> QED BY <1>1, <1>3, <1>4, <1>5, <1>6, <1>7 DEF LastBase, OpenBase

\* The keys and values of the entries decide what is in use and what is anchored.
LEMMA EntriesKept ==
  ASSUME NEW p, producers'[p].entries = producers[p].entries
  PROVE  /\ Used(p)' = Used(p)
         /\ \A e : KeyOf(p, e)' = KeyOf(p, e) /\ ValueOf(p, e)' = ValueOf(p, e)
         /\ \A h, tail, last : Anchored(p, h, tail, last)' <=> Anchored(p, h, tail, last)
<1>1. \A e : KeyOf(p, e)' = KeyOf(p, e) /\ ValueOf(p, e)' = ValueOf(p, e)
  BY DEF KeyOf, ValueOf
<1>2. Used(p)' = Used(p)
  BY DEF Used
<1>3. ASSUME NEW h, NEW tail, NEW last
      PROVE  Anchored(p, h, tail, last)' <=> Anchored(p, h, tail, last)
  BY <1>1, <1>2 DEF Anchored
<1> QED BY <1>1, <1>2, <1>3

\* What the index of producer p leads to is as it was.
ViewKept(p) ==
  /\ producers'[p].owner = producers[p].owner /\ producers'[p].tail = producers[p].tail
  /\ producers'[p].indices = producers[p].indices
  /\ producers'[p].entries = producers[p].entries
  /\ Doing(p)' \in Filling <=> Doing(p) \in Filling
  /\ Doing(p)' \in {"keyed", "requisition", "store"} <=>
         Doing(p) \in {"keyed", "requisition", "store"}
  /\ Doing(p)' \in {"write", "publish"} <=> Doing(p) \in {"write", "publish"}

\* Then all that is said of its index holds as it did.
LEMMA SameView ==
  ASSUME NEW p, ViewKept(p)
  PROVE  /\ Used(p)' = Used(p)
         /\ \A e : KeyOf(p, e)' = KeyOf(p, e) /\ ValueOf(p, e)' = ValueOf(p, e)
         /\ LastBase(p)' = LastBase(p) /\ OpenBase(p)' = OpenBase(p)
         /\ Current(p)' = Current(p) /\ TailEntry(p)' = TailEntry(p)
         /\ ShapeAt(p) => ShapeAt(p)'
         /\ KeysAt(p) => KeysAt(p)'
         /\ AnchorAt(p) => AnchorAt(p)'
<1>1. /\ Used(p)' = Used(p)
      /\ \A e : KeyOf(p, e)' = KeyOf(p, e) /\ ValueOf(p, e)' = ValueOf(p, e)
      /\ \A h, tail, last : Anchored(p, h, tail, last)' <=> Anchored(p, h, tail, last)
  BY EntriesKept DEF ViewKept
<1>2. LastBase(p)' = LastBase(p) /\ OpenBase(p)' = OpenBase(p)
  BY DEF ViewKept, LastBase, OpenBase
<1>3. Current(p)' = Current(p) /\ TailEntry(p)' = TailEntry(p)
  BY DEF ViewKept, Current, TailEntry, IndexOf
<1>4. ShapeAt(p) => ShapeAt(p)'
  BY <1>1, <1>3 DEF ViewKept, ShapeAt
<1>5. KeysAt(p) => KeysAt(p)'
  BY <1>1, <1>2, <1>3 DEF ViewKept, KeysAt
<1>6. AnchorAt(p) => AnchorAt(p)'
  <2>1. PICK h, l : h = Current(p) /\ l = LastBase(p)
    OBVIOUS
  <2>2. Anchored(p, h, h.tail, l)' <=> Anchored(p, h, h.tail, l)
    BY <1>1
  <2>3. Current(p)' = h /\ LastBase(p)' = l
    BY <1>2, <1>3, <2>1
  <2>4. AnchorAt(p) => (producers[p].indices # <<>> => Anchored(p, h, h.tail, l))
    BY <2>1 DEF AnchorAt
  <2>5. (producers'[p].indices # <<>> => Anchored(p, h, h.tail, l)') => AnchorAt(p)'
    BY <2>3 DEF AnchorAt, Anchored
  <2> QED BY <2>2, <2>4, <2>5 DEF ViewKept
<1> QED BY <1>1, <1>2, <1>3, <1>4, <1>5, <1>6

\* A consumer that does nothing finds the same where its index and entries are kept.
LEMMA SameSearch ==
  ASSUME NEW d \in Consumers, con'[d] = con[d], SearchAt(d),
         con[d].at \in {"tail", "key", "move", "empty", "clear"} =>
           /\ producers'[con[d].p].indices = producers[con[d].p].indices
           /\ producers'[con[d].p].entries = producers[con[d].p].entries
  PROVE  SearchAt(d)'
<1>1. PICK p : p = con[d].p
  OBVIOUS
<1>2. CASE con[d].at \in {"tail", "key", "move", "empty", "clear"}
  <2>1. /\ producers'[p].indices = producers[p].indices
        /\ producers'[p].entries = producers[p].entries
    BY <1>1, <1>2
  <2>2. /\ \A e : KeyOf(p, e)' = KeyOf(p, e) /\ ValueOf(p, e)' = ValueOf(p, e)
        /\ \A h, tail, last : Anchored(p, h, tail, last)' <=> Anchored(p, h, tail, last)
    BY <2>1, EntriesKept
  <2>3. Searched(d)' = Searched(d)
    BY <1>1, <2>1 DEF Searched
  <2>4. ASSUME NEW h, NEW tail PROVE LeadsTo(d, h, tail)' <=> LeadsTo(d, h, tail)
    BY <1>1, <2>2 DEF LeadsTo
  <2>5. PICK h : h = Searched(d)
    OBVIOUS
  <2>6. LeadsTo(d, Searched(d), Searched(d).tail)' <=> LeadsTo(d, Searched(d), Searched(d).tail)
    <3>1. LeadsTo(d, h, h.tail)' <=> LeadsTo(d, h, h.tail)
      BY <2>4
    <3> QED BY <2>3, <2>5, <3>1 DEF LeadsTo
  <2>7. LeadsTo(d, Searched(d), con[d].tail)' <=> LeadsTo(d, Searched(d), con[d].tail)
    <3>1. PICK x : x = con[d].tail
      OBVIOUS
    <3>2. LeadsTo(d, h, x)' <=> LeadsTo(d, h, x)
      BY <2>4
    <3> QED BY <2>3, <2>5, <3>1, <3>2 DEF LeadsTo
  <2> QED BY <1>1, <2>1, <2>2, <2>3, <2>6, <2>7 DEF SearchAt
<1>3. CASE con[d].at \notin {"tail", "key", "move", "empty", "clear"}
  BY <1>3 DEF SearchAt
<1> QED BY <1>2, <1>3

\* The index stays sound where it is left alone, for all but the consumer that moves.
LEMMA IndexFrame ==
  ASSUME TypeOK, IndexInv, Placed, DOMAIN producers \subseteq DOMAIN producers',
         \A p \in DOMAIN producers : ViewKept(p),
         \A p \in DOMAIN producers' \ DOMAIN producers : ShapeAt(p)' /\ KeysAt(p)'
             /\ AnchorAt(p)',
         \A c \in Consumers : con'[c] = con[c] \/ SearchAt(c)'
  PROVE  IndexInv'
<1>1. ASSUME NEW p \in DOMAIN producers PROVE ShapeAt(p)' /\ KeysAt(p)' /\ AnchorAt(p)'
  BY SameView DEF IndexInv, IndexShape, Keys, Anchors
<1>2. ASSUME NEW d \in Consumers, con'[d] = con[d] PROVE SearchAt(d)'
  <2>1. con[d].at \in {"tail", "key", "move", "empty", "clear"} => con[d].p \in DOMAIN producers
    BY DEF Placed, PlacedAt, AtProducer
  <2>2. SearchAt(d)
    BY DEF IndexInv, Searches
  <2> QED BY <1>2, <2>1, <2>2, SameSearch DEF ViewKept
<1>3. ASSUME NEW p \in DOMAIN producers' PROVE ShapeAt(p)' /\ KeysAt(p)' /\ AnchorAt(p)'
  BY <1>1
<1>4. IndexShape' /\ Keys' /\ Anchors'
  BY <1>3 DEF IndexShape, Keys, Anchors
<1>5. Searches'
  BY <1>2 DEF Searches
<1> QED BY <1>4, <1>5 DEF IndexInv
-----------------------------------------------------------------------------
\* What consumer c has in its hand stays in it.
HandKept(c) ==
  /\ con'[c].at \in Holding <=> con[c].at \in Holding
  /\ con'[c].at = "clear" <=> con[c].at = "clear"
  /\ con[c].at \in Holding \union {"clear"} => con'[c].p = con[c].p /\ con'[c].i = con[c].i
  /\ con[c].at = "clear" => con'[c].entry = con[c].entry
  /\ con[c].at = "clear" => con'[c].b = con[c].b
\* So does the block thread t is about to store.
StoreKept(t) ==
  /\ thr'[t].at = "store" <=> thr[t].at = "store"
  /\ thr[t].at = "store" => thr'[t].block = thr[t].block

\* What is left in the blocks of p where no one takes an index or leaves a block.
LEMMA SameLeft ==
  ASSUME NEW p, producers'[p].head = producers[p].head, \A c \in Consumers : HandKept(c)
  PROVE  \A base : Left(p, base)' = Left(p, base)
<1>1. ASSUME NEW i PROVE Held(p, i)' <=> Held(p, i)
  <2>1. \A c \in Consumers : con'[c].at \in Holding /\ con'[c].p = p /\ con'[c].i = i
                             <=> con[c].at \in Holding /\ con[c].p = p /\ con[c].i = i
    BY DEF HandKept
  <2> QED BY <2>1 DEF Held
<1> QED BY <1>1 DEF Left

\* Indices stay in the hands they are in.
LEMMA HandsFrame ==
  ASSUME TypeOK, BlockInv, Placed,
         \A p \in DOMAIN producers : producers'[p].head = producers[p].head,
         \A c \in Consumers : HandKept(c)
  PROVE  Hands'
<1>1. ASSUME NEW c \in Consumers PROVE HandAt(c)'
  <2>1. HandAt(c) /\ HandKept(c)
    BY DEF BlockInv, Hands
  <2>2. CASE con[c].at \in Holding
    <3>1. con[c].p \in DOMAIN producers /\ con[c].at # "clear"
      BY <2>2 DEF Placed, PlacedAt, AtProducer, Holding
    <3>2. con'[c].i < producers'[con'[c].p].head /\ con'[c].p = con[c].p /\ con'[c].i = con[c].i
      BY <2>1, <2>2, <3>1 DEF HandAt, HandKept
    <3>3. ASSUME NEW d \in Consumers, con'[d].at \in Holding, con'[d].p = con'[c].p,
                     con'[d].i = con'[c].i
          PROVE  d = c
      BY <2>1, <2>2, <3>2, <3>3 DEF HandAt, HandKept
    <3> QED BY <2>1, <3>1, <3>2, <3>3 DEF HandAt, HandKept
  <2>3. CASE con[c].at = "clear"
    <3>1. con[c].p \in DOMAIN producers /\ con[c].at \notin Holding
      BY <2>3 DEF Placed, PlacedAt, AtProducer, Holding
    <3>2. /\ con'[c].p = con[c].p /\ con'[c].i = con[c].i /\ con'[c].b = con[c].b
          /\ con'[c].entry = con[c].entry
      BY <2>1, <2>3 DEF HandKept
    <3>3. PICK p, base : p = con[c].p /\ base = Base(con[c].i)
      OBVIOUS
    <3>4. Left(p, base)' = Left(p, base)
      BY <3>1, <3>3, SameLeft
    <3>5. Left(con[c].p, Base(con[c].i))' = {}
      <4>1. Base(con[c].i)' = base /\ con'[c].p = p
        BY <3>2, <3>3 DEF Base, Slot
      <4>2. Left(p, base) = {}
        BY <2>1, <2>3, <3>3 DEF HandAt
      <4> QED BY <3>4, <4>1, <4>2 DEF Left, Held
    <3>6. ASSUME NEW d \in Consumers, con'[d].at = "clear", con'[d].p = con'[c].p,
                     con'[d].entry = con'[c].entry
          PROVE  d = c
      <4>1. con[d].at = "clear" /\ con[d].p = con[c].p /\ con[d].entry = con[c].entry
        BY <3>2, <3>6 DEF HandKept
      <4> QED BY <2>1, <2>3, <4>1 DEF HandAt
    <3> QED BY <2>1, <2>3, <3>1, <3>2, <3>5, <3>6 DEF HandAt, HandKept
  <2>4. CASE con[c].at \notin Holding \union {"clear"}
    BY <2>1, <2>4 DEF HandAt, HandKept
  <2> QED BY <2>2, <2>3, <2>4
<1> QED BY <1>1 DEF Hands

\* The blocks of a producer are in place where what is in use and what is left are as they were.
LEMMA PlaceStays ==
  ASSUME TypeOK, NEW p \in DOMAIN producers, PlaceAt(p), KeysAt(p),
         Used(p)' = Used(p), OpenBase(p)' = OpenBase(p),
         \A e \in Used(p) : KeyOf(p, e)' = KeyOf(p, e) /\ ValueOf(p, e)' = ValueOf(p, e),
         producers'[p].tailBlock = producers[p].tailBlock,
         \A base : IsBase(base) => Left(p, base)' = Left(p, base),
         \A e \in Used(p) : blocks'[ValueOf(p, e)].dequeued = blocks[ValueOf(p, e)].dequeued
  PROVE  PlaceAt(p)'
<1>1. /\ Used(p)' = Used(p) /\ OpenBase(p)' = OpenBase(p)
      /\ \A e \in Used(p) : KeyOf(p, e)' = KeyOf(p, e) /\ ValueOf(p, e)' = ValueOf(p, e)
  OBVIOUS
<1>2. PICK o : o = OpenBase(p)
  OBVIOUS
<1>3. o \in Int
  BY <1>2, LastBases
<1>4. \A base \in 0 .. o : Slot(base) = 0 /\ Left(p, base)' # {} =>
          \E e \in Used(p) : KeyOf(p, e) = base
  <2>1. ASSUME NEW base \in 0 .. o, Slot(base) = 0 PROVE Left(p, base)' = Left(p, base)
    BY <1>3, <2>1 DEF IsBase
  <2> QED BY <1>2, <2>1 DEF PlaceAt
<1>5. ASSUME NEW e \in Used(p)
      PROVE  /\ blocks'[ValueOf(p, e)].dequeued + Cardinality(Left(p, KeyOf(p, e))') = BlockSize
             /\ KeyOf(p, e) = o => ValueOf(p, e) = producers'[p].tailBlock
  <2>1. PICK k : k = KeyOf(p, e)
    OBVIOUS
  <2>2. IsBase(k)
    <3>1. e \in DOMAIN producers[p].entries /\ k # NoKey
      BY <2>1 DEF KeysAt, Used
    <3>2. k \in Nat /\ Slot(k) = 0
      BY <2>1, <3>1 DEF KeysAt
    <3> QED BY <3>2 DEF IsBase
  <2>3. Left(p, k)' = Left(p, k) /\ KeyOf(p, e)' = k
    BY <1>1, <2>1, <2>2
  <2>4. Left(p, KeyOf(p, e))' = Left(p, k)
    BY <2>3 DEF Left, Held
  <2> QED BY <1>2, <2>1, <2>4 DEF PlaceAt
<1>6. OpenBase(p)' = o
  BY <1>1, <1>2
<1>7. \A base \in 0 .. o : Slot(base)' = 0 /\ Left(p, base)' # {} =>
          \E e \in Used(p)' : KeyOf(p, e)' = base
  BY <1>1, <1>4 DEF Slot
<1>8. \A e \in Used(p)' :
        /\ blocks'[ValueOf(p, e)'].dequeued + Cardinality(Left(p, KeyOf(p, e))') = BlockSize
        /\ KeyOf(p, e)' = o => ValueOf(p, e)' = producers'[p].tailBlock
  BY <1>1, <1>5
<1> QED BY <1>6, <1>7, <1>8 DEF PlaceAt

\* So where no more than a step is taken.
LEMMA PlaceFrame ==
  ASSUME TypeOK, NEW p \in DOMAIN producers, PlaceAt(p), KeysAt(p), ViewKept(p),
         producers'[p].tailBlock = producers[p].tailBlock,
         \A base : IsBase(base) => Left(p, base)' = Left(p, base),
         \A e \in Used(p) : blocks'[ValueOf(p, e)].dequeued = blocks[ValueOf(p, e)].dequeued
  PROVE  PlaceAt(p)'
<1>1. /\ Used(p)' = Used(p) /\ OpenBase(p)' = OpenBase(p)
      /\ \A e : KeyOf(p, e)' = KeyOf(p, e) /\ ValueOf(p, e)' = ValueOf(p, e)
  BY SameView
<1> QED BY <1>1, PlaceStays

\* Consumer c goes on with the block it has to free, if any.
FreeKept(c) ==
  /\ con'[c].at = "free" <=> con[c].at = "free"
  /\ con[c].at = "free" => con'[c].b = con[c].b

\* The blocks belong to whom they belonged; those with an entry may be left by consumers.
LEMMA OwnFrame ==
  ASSUME TypeOK, Ownership, UNCHANGED <<used, pool>>, DOMAIN blocks' = DOMAIN blocks,
             Len(blocks') = Len(blocks),
         \A b \in DOMAIN blocks :
           \/ blocks'[b].dequeued = blocks[b].dequeued
           \/ \E p \in DOMAIN producers : \E e \in Used(p) : b = ValueOf(p, e),
         DOMAIN producers \subseteq DOMAIN producers',
         \A p \in DOMAIN producers : Used(p)' = Used(p)
             /\ \A e \in Used(p) : ValueOf(p, e)' = ValueOf(p, e),
         \A p \in DOMAIN producers' \ DOMAIN producers : Used(p)' = {},
         \A c \in Consumers : FreeKept(c),
         \A t \in Threads : StoreKept(t)
  PROVE  Ownership'
<1>1. ASSUME NEW p \in DOMAIN producers
      PROVE  Used(p)' = Used(p) /\ \A e \in Used(p) : ValueOf(p, e)' = ValueOf(p, e)
  OBVIOUS
<1>2. \A b : InUse(b)' <=> InUse(b)
  BY DEF InUse
<1>3. PoolOwns /\ EntriesOwn /\ ThreadsOwn /\ ConsumersOwn
  BY DEF Ownership
<1>4. PoolOwns'
  <2>1. PoolSize \in Nat /\ used \in Nat /\ Len(blocks) \in Nat
            /\ DOMAIN blocks = 1 .. Len(blocks)
    BY QueueConstants DEF TypeOK
  <2>2. used + 1 .. PoolSize \subseteq DOMAIN blocks
    BY <1>3, <2>1 DEF PoolOwns
  <2>3. ASSUME NEW b \in used + 1 .. PoolSize PROVE blocks'[b].dequeued = 0
    <3>1. ~ InUse(b) /\ blocks[b].dequeued = 0 /\ b \in DOMAIN blocks
      BY <1>3, <2>2 DEF PoolOwns, InUse
    <3> QED BY <1>3, <3>1 DEF EntriesOwn
  <2> QED BY <1>3, <2>3 DEF PoolOwns
<1>5. EntriesOwn'
  <2>1. ASSUME NEW p \in DOMAIN producers, NEW e \in Used(p)
        PROVE  /\ InUse(ValueOf(p, e))
               /\ \A q \in DOMAIN producers : \A f \in Used(q) :
                      ValueOf(p, e) = ValueOf(q, f) => p = q /\ e = f
               /\ \A t \in Threads : thr'[t].at = "store" => thr'[t].block # ValueOf(p, e)
               /\ \A c \in Consumers : con'[c].at = "free" => con'[c].b # ValueOf(p, e)
    BY <1>3 DEF EntriesOwn, FreeKept, StoreKept, Storing, Freeing
  <2>2. \A p \in DOMAIN producers' : \A e \in Used(p)' : p \in DOMAIN producers /\ e \in Used(p)
    BY <1>1
  <2>3. ASSUME NEW p \in DOMAIN producers, NEW e \in Used(p)
        PROVE ValueOf(p, e)' = ValueOf(p, e)
    BY <1>1
  <2> QED BY <1>2, <2>1, <2>2, <2>3 DEF EntriesOwn, Storing, Freeing, InUse
<1>6. ThreadsOwn'
  <2>1. ASSUME NEW t \in Threads, thr'[t].at = "store"
        PROVE  /\ InUse(thr'[t].block) /\ blocks'[thr'[t].block].dequeued = 0
               /\ \A u \in Threads : thr'[u].at = "store" /\ thr'[u].block = thr'[t].block =>
                      u = t
               /\ \A c \in Consumers : con'[c].at = "free" => con'[c].b # thr'[t].block
    <3>1. thr[t].at = "store" /\ thr'[t].block = thr[t].block
      BY <2>1 DEF StoreKept
    <3>2. InUse(thr[t].block) /\ blocks[thr[t].block].dequeued = 0
      BY <1>3, <3>1 DEF ThreadsOwn, Storing
    <3>3. blocks'[thr[t].block].dequeued = 0
      <4>1. thr[t].block \in DOMAIN blocks
        BY <3>2 DEF InUse
      <4>2. \A p \in DOMAIN producers : \A e \in Used(p) : thr[t].block # ValueOf(p, e)
        BY <1>3, <3>1 DEF EntriesOwn, Storing
      <4> QED BY <3>2, <4>1, <4>2
    <3> QED BY <1>3, <3>1, <3>2, <3>3 DEF ThreadsOwn, Storing, Freeing, FreeKept, StoreKept
  <2> QED BY <1>2, <2>1 DEF ThreadsOwn, Storing, Freeing, InUse
<1>7. ConsumersOwn'
  <2>1. ASSUME NEW c \in Consumers, con'[c].at = "free"
        PROVE  InUse(con'[c].b) /\ \A d \in Consumers : con'[d].at = "free"
                   /\ con'[d].b = con'[c].b => d = c
    BY <1>3, <2>1 DEF ConsumersOwn, Freeing, FreeKept
  <2> QED BY <1>2, <2>1 DEF ConsumersOwn, Freeing, InUse
<1> QED BY <1>4, <1>5, <1>6, <1>7 DEF Ownership

\* A block is as full as it was.
SameFill == DOMAIN blocks' = DOMAIN blocks /\ Len(blocks') = Len(blocks)
            /\ \A b \in DOMAIN blocks : blocks'[b].dequeued = blocks[b].dequeued

\* Where nothing is taken, stored or left, the blocks stay in place.
LEMMA BlockFrame ==
  ASSUME TypeOK, Keys, BlockInv, Placed, UNCHANGED <<used, pool>>, SameFill,
         DOMAIN producers \subseteq DOMAIN producers',
         \A p \in DOMAIN producers :
           /\ ViewKept(p) /\ producers'[p].head = producers[p].head
           /\ producers'[p].tailBlock = producers[p].tailBlock,
         \A p \in DOMAIN producers' \ DOMAIN producers :
           Used(p)' = {} /\ OpenBase(p)' \in Int /\ OpenBase(p)' < 0,
         \A c \in Consumers : HandKept(c) /\ FreeKept(c),
         \A t \in Threads : StoreKept(t)
  PROVE  BlockInv'
<1>1. Hands'
  BY HandsFrame
<1>2. ASSUME NEW p \in DOMAIN producers PROVE PlaceAt(p)'
  <2>1. \A base : Left(p, base)' = Left(p, base)
    BY SameLeft
  <2>2. PlaceAt(p) /\ KeysAt(p)
    BY DEF BlockInv, BlocksInPlace, Keys
  <2>3. ASSUME NEW e \in Used(p) PROVE blocks'[ValueOf(p, e)].dequeued
                   = blocks[ValueOf(p, e)].dequeued
    <3>1. ValueOf(p, e) \in DOMAIN blocks
      BY DEF BlockInv, Ownership, EntriesOwn, InUse
    <3> QED BY <3>1 DEF SameFill
  <2> QED BY <2>1, <2>2, <2>3, PlaceFrame
<1>3. ASSUME NEW p \in DOMAIN producers' \ DOMAIN producers PROVE PlaceAt(p)'
  <2>1. Used(p)' = {} /\ OpenBase(p)' \in Int /\ OpenBase(p)' < 0
    OBVIOUS
  <2>2. PICK o, us : o = OpenBase(p)' /\ us = Used(p)'
    OBVIOUS
  <2>3. \A base \in 0 .. o : FALSE
    BY <2>1, <2>2
  <2> QED BY <2>1, <2>2, <2>3 DEF PlaceAt
<1>4. BlocksInPlace'
  BY <1>2, <1>3 DEF BlocksInPlace
<1>5. ASSUME NEW p \in DOMAIN producers
      PROVE  Used(p)' = Used(p) /\ \A e \in Used(p) : ValueOf(p, e)' = ValueOf(p, e)
  BY SameView
<1>6. \A c \in Consumers : FreeKept(c)
  OBVIOUS
<1>7. Ownership'
  BY <1>5, <1>6, OwnFrame DEF BlockInv, SameFill
<1> QED BY <1>1, <1>4, <1>7 DEF BlockInv

\* Until a consumer has taken an index it disturbs neither index nor block.
LEMMA LooksKeepBlocks ==
  ASSUME TypeOK, IndexInv, BlockInv, Placed, NEW c \in Consumers, LookStep(c)
  PROVE  IndexInv' /\ BlockInv'
<1>1. ASSUME NEW p \in DOMAIN producers PROVE ViewKept(p)
  <2>1. Untouched(p) /\ thr' = thr
    BY DEF LookStep, ConOnly
  <2>2. Doing(p)' = Doing(p)
    BY <2>1 DEF Doing, Untouched
  <2> QED BY <2>1, <2>2 DEF ViewKept, Untouched
<1>2. con[c].at \in Aside /\ con'[c].at \in Aside /\ \A d \in Consumers \ {c} : con'[d] = con[d]
  BY DEF LookStep, ConOnly
<1>3. SearchAt(c)'
  <2>1. con'[c].at \notin {"tail", "key", "move", "empty", "clear"}
    BY <1>2 DEF Aside
  <2> QED BY <2>1 DEF SearchAt
<1>4. ASSUME NEW d \in Consumers PROVE con'[d] = con[d] \/ SearchAt(d)'
  BY <1>2, <1>3
<1>5. ASSUME NEW d \in Consumers PROVE HandKept(d) /\ FreeKept(d)
  <2>1. CASE d = c
    BY <1>2, <2>1 DEF FreeKept, HandKept, Aside, Holding
  <2>2. CASE d # c
    BY <1>2, <2>2 DEF FreeKept, HandKept
  <2> QED BY <2>1, <2>2
<1>6. \A t \in Threads : StoreKept(t)
  BY DEF LookStep, ConOnly, StoreKept
<1>7. IndexInv'
  BY <1>1, <1>4, IndexFrame DEF LookStep
<1>8. SameFill
  BY DEF LookStep, SameFill
<1>9. BlockInv'
  BY <1>1, <1>5, <1>6, <1>8, BlockFrame DEF IndexInv, LookStep, Untouched
<1> QED BY <1>7, <1>9

\* Nor does a thread that goes on within the same part of enqueue.
LEMMA ThreadsKeepBlocks ==
  ASSUME TypeOK, IndexInv, BlockInv, Placed, NEW t \in Threads, ThrOnly(t),
         UNCHANGED <<producers, used, pool>>, SameFill,
         thr'[t].at \in Filling <=> thr[t].at \in Filling,
         thr'[t].at \in {"keyed", "requisition", "store"} <=>
             thr[t].at \in {"keyed", "requisition", "store"},
         thr'[t].at \in {"write", "publish"} <=> thr[t].at \in {"write", "publish"},
         StoreKept(t)
  PROVE  IndexInv' /\ BlockInv'
<1>1. ASSUME NEW p \in DOMAIN producers PROVE ViewKept(p)
  <2>1. PICK o : o = producers[p].owner
    OBVIOUS
  <2>2. o \in Threads
    BY <2>1, ProducerTyped
  <2>3. Doing(p)' = thr'[o].at /\ Doing(p) = thr[o].at
    BY <2>1 DEF Doing
  <2>4. o # t => thr'[o] = thr[o]
    BY <2>2 DEF ThrOnly
  <2> QED BY <2>3, <2>4 DEF ViewKept
<1>2. con' = con
  BY DEF ThrOnly
<1>3. \A d \in Consumers : HandKept(d) /\ FreeKept(d)
  BY <1>2 DEF FreeKept, HandKept
<1>4. \A u \in Threads : StoreKept(u)
  BY DEF ThrOnly, StoreKept
<1>5. IndexInv'
  BY <1>1, <1>2, IndexFrame
<1>6. BlockInv'
  BY <1>1, <1>3, <1>4, BlockFrame DEF IndexInv
<1> QED BY <1>5, <1>6

\* A thread that makes or finds no producer, and fills no block.
LEMMA QuietKeepsBlocks ==
  ASSUME TypeOK, IndexInv, BlockInv, Placed, NEW t \in Threads, ThrOnly(t),
         UNCHANGED <<producers, blocks, used, pool>>, thr[t].at \in Quiet, thr'[t].at \in Quiet
  PROVE  IndexInv' /\ BlockInv'
<1>1. \A x \in Quiet : x \notin Filling \union {"keyed", "requisition", "store", "write",
          "publish"}
  BY DEF Quiet, Filling, Joining
<1>2. StoreKept(t)
  BY <1>1 DEF StoreKept
<1>3. SameFill
  BY DEF SameFill
<1> QED BY <1>1, <1>2, <1>3, ThreadsKeepBlocks

\* A producer that is new has no element yet, and leaves those of the others alone.
LEMMA NewProducerKeepsBlocks ==
  ASSUME TypeOK, HashInv, IndexInv, BlockInv, Placed, NEW t \in Threads, ThrOnly(t), HashInv',
             TypeOK',
         UNCHANGED <<blocks, used, pool>>, thr[t].at \in Quiet, thr'[t].at \in Quiet,
         NEW o, Fresh(o, t), ProducerAdded(o)
  PROVE  IndexInv' /\ BlockInv'
<1>1. PICK n : n = Len(producers) + 1
  OBVIOUS
<1>2. /\ n \in DOMAIN producers' /\ n \notin DOMAIN producers /\ producers'[n] = o
      /\ \A p \in DOMAIN producers : p \in DOMAIN producers' /\ producers'[p] = producers[p]
      /\ \A p \in DOMAIN producers' : p \in DOMAIN producers \/ p = n
  BY <1>1 DEF ProducerAdded
<1>3. \A x \in Quiet : x \notin Filling \union {"keyed", "requisition", "store", "write",
          "publish"}
  BY DEF Quiet, Filling, Joining
<1>4. ASSUME NEW p \in DOMAIN producers PROVE ViewKept(p)
  <2>1. PICK u : u = producers[p].owner
    OBVIOUS
  <2>2. u \in Threads
    BY <2>1, ProducerTyped
  <2>3. u # t
    BY <1>2, <2>1 DEF HashInv, OwnedOnce, Fresh
  <2>4. Doing(p)' = Doing(p)
    BY <1>2, <2>1, <2>2, <2>3 DEF Doing, ThrOnly
  <2> QED BY <1>2, <2>4 DEF ViewKept
<1>5. Doing(n)' = thr'[t].at
  BY <1>2 DEF Doing, Fresh
<1>6. /\ Doing(n)' \notin Filling /\ Doing(n)' \notin {"keyed", "requisition", "store"}
      /\ Doing(n)' \notin {"write", "publish"}
  BY <1>3, <1>5
<1>7. /\ o.tail = 0 /\ \A e \in DOMAIN o.entries : o.entries[e].key = NoKey
             /\ o.entries[e].value = NoBlock
      /\ o.indices \in Seq(Headers)
      /\ \/ o.indices = <<>> /\ o.entries = <<>>
         \/ /\ DOMAIN o.indices = {1} /\ Len(o.indices) = 1 /\ o.indices[1] = FirstIndex
            /\ DOMAIN o.entries = 1 .. IndexSize
  BY DEF Fresh, ProducerType
<1>8. Used(n)' = {}
  BY <1>2, <1>7 DEF Used
<1>9. ShapeAt(n)'
  <2>1. IndexSize \in Nat /\ IndexSize > 1
    BY QueueConstants
  <2>2. /\ FirstIndex.tail \in DOMAIN FirstIndex.index
        /\ \A i \in DOMAIN FirstIndex.index : FirstIndex.index[i] \in 1 .. IndexSize
        /\ \A i, m \in DOMAIN FirstIndex.index : FirstIndex.index[i] = FirstIndex.index[m] =>
               i = m
    BY <2>1, FirstIndexShape
  <2>3. /\ Doing(n)' \in {"keyed", "requisition", "store"} => FALSE
        /\ Doing(n)' \in {"write", "publish"} => FALSE
    BY <1>6
  <2>4. producers'[n].indices = o.indices /\ producers'[n].entries = o.entries
            /\ producers'[n].tail = 0
    BY <1>2, <1>7
  <2>5. o.indices = <<>> => o.entries = <<>>
    BY <1>7
  <2>6. ASSUME NEW j \in DOMAIN o.indices
        PROVE  o.indices[j] = FirstIndex /\ DOMAIN o.entries = 1 .. IndexSize
    BY <1>7, <2>6
  <2> QED BY <2>2, <2>3, <2>4, <2>5, <2>6 DEF ShapeAt
<1>10. KeysAt(n)'
  BY <1>2, <1>7, <1>8 DEF KeysAt, KeyOf
<1>11. AnchorAt(n)'
  <2>1. \A h, tail, last : Anchored(n, h, tail, last)'
    BY <1>8 DEF Anchored
  <2>2. PICK h, l : h = Current(n)' /\ l = LastBase(n)'
    OBVIOUS
  <2>3. Anchored(n, h, h.tail, l)'
    BY <2>1
  <2> QED BY <2>2, <2>3 DEF AnchorAt, Anchored
<1>12. con' = con /\ DOMAIN producers \subseteq DOMAIN producers'
  BY <1>2 DEF ThrOnly
<1>13. \A p \in DOMAIN producers' \ DOMAIN producers : ShapeAt(p)' /\ KeysAt(p)' /\ AnchorAt(p)'
  BY <1>2, <1>9, <1>10, <1>11
<1>14. IndexInv'
  BY <1>4, <1>12, <1>13, IndexFrame
<1>15. OpenBase(n)' \in Int /\ OpenBase(n)' < 0
  <2>1. OpenBase(n)' = Base(0 - 1)
    BY <1>2, <1>6, <1>7 DEF OpenBase, Base, Slot
  <2>2. Base(0 - 1) \in Int /\ Base(0 - 1) <= 0 - 1
    BY BaseOf
  <2> QED BY <2>1, <2>2
<1>16. \A d \in Consumers : HandKept(d) /\ FreeKept(d)
  BY <1>12 DEF FreeKept, HandKept
<1>17. \A u \in Threads : StoreKept(u)
  <2>1. ASSUME NEW u \in Threads PROVE StoreKept(u)
    <3>1. CASE u = t
      BY <1>3, <3>1 DEF StoreKept
    <3>2. CASE u # t
      BY <3>2 DEF StoreKept, ThrOnly
    <3> QED BY <3>1, <3>2
  <2> QED BY <2>1
<1>18. SameFill
  BY DEF SameFill
<1>19. \A p \in DOMAIN producers' \ DOMAIN producers :
         Used(p)' = {} /\ OpenBase(p)' \in Int /\ OpenBase(p)' < 0
  BY <1>2, <1>8, <1>15
<1>20. BlockInv'
  BY <1>2, <1>4, <1>12, <1>16, <1>17, <1>18, <1>19, BlockFrame DEF IndexInv
<1> QED BY <1>14, <1>20
-----------------------------------------------------------------------------
(* The steps of a consumer with an index in its hand.                      *)

\* The block of an index that is held has an entry.
LEMMA HeldEntry ==
  ASSUME TypeOK, CountInv, BlockInv, NEW c \in Consumers, con[c].at \in Holding,
         NEW p, p = con[c].p, NEW i, i = con[c].i
  PROVE  /\ p \in DOMAIN producers /\ i \in Nat /\ i < producers[p].head
         /\ IsBase(Base(i)) /\ Base(i) \in Nat /\ Base(i) <= OpenBase(p)
         /\ Base(i) <= LastBase(p)
         /\ i \in Left(p, Base(i))
         /\ \E e \in Used(p) : KeyOf(p, e) = Base(i)
<1>1. p \in DOMAIN producers /\ con[c].at \in AtProducer
  BY DEF CountInv, Placed, PlacedAt, AtProducer, Holding
<1>2. i \in Nat
  BY DEF TypeOK, ConsumerType
<1>3. i < producers[p].head
  BY DEF BlockInv, Hands, HandAt
<1>4. producers[p].head <= producers[p].tail
  BY <1>1 DEF CountInv, Counted, CountedAt
<1>5. producers[p].head \in Nat /\ producers[p].tail \in Nat
  BY <1>1, ProducerTyped
<1>6. PICK t : t = producers[p].tail
  OBVIOUS
<1>7. t - 1 \in Int /\ i \in Int /\ i <= t - 1
  BY <1>2, <1>3, <1>4, <1>5, <1>6
<1>8. Base(i) <= Base(t - 1)
  BY <1>7, BaseMonotone
<1>9. IsBase(Base(i)) /\ Base(i) \in Int /\ Base(i) <= i /\ i < Base(i) + BlockSize
          /\ Base(t - 1) \in Int
  BY <1>7, BaseOf
<1>10. Base(i) >= 0
  BY <1>2, <1>7, BaseBefore
<1>11. OpenBase(p) \in Int /\ LastBase(p) \in Int /\ OpenBase(p) <= LastBase(p)
           /\ Base(t - 1) <= OpenBase(p)
  BY <1>1, <1>6, LastBases
<1>12. Base(i) <= OpenBase(p) /\ Base(i) <= LastBase(p) /\ Base(i) \in Nat
  BY <1>8, <1>9, <1>10, <1>11
<1>13. i \in Left(p, Base(i))
  <2>1. Held(p, i)
    BY DEF Held
  <2>2. i \in Base(i) .. Base(i) + BlockSize - 1
    BY <1>7, <1>9, QueueConstants
  <2> QED BY <2>1, <2>2 DEF Left
<1>14. \E e \in Used(p) : KeyOf(p, e) = Base(i)
  <2>1. PICK b : b = Base(i)
    OBVIOUS
  <2>2. b \in 0 .. OpenBase(p) /\ Slot(b) = 0 /\ Left(p, b) # {}
    BY <1>9, <1>11, <1>12, <1>13, <2>1 DEF IsBase
  <2> QED BY <1>1, <2>1, <2>2 DEF BlockInv, BlocksInPlace, PlaceAt
<1> QED BY <1>1, <1>2, <1>3, <1>9, <1>12, <1>13, <1>14

\* A consumer that holds an index and changes no producer finds its entry in the end.
LEMMA LoadsKeepBlocks ==
  ASSUME TypeOK, IndexInv, BlockInv, Placed, NEW c \in Consumers, ConOnly(c),
         UNCHANGED <<producers, used, pool>>, SameFill,
         con[c].at \in Holding, con'[c].at \in Holding,
         con'[c].p = con[c].p, con'[c].i = con[c].i, SearchAt(c)'
  PROVE  IndexInv' /\ BlockInv'
<1>1. ASSUME NEW p \in DOMAIN producers PROVE ViewKept(p)
  <2>1. Doing(p)' = Doing(p)
    BY DEF Doing, ConOnly
  <2> QED BY <2>1 DEF ViewKept
<1>2. ASSUME NEW d \in Consumers PROVE con'[d] = con[d] \/ SearchAt(d)'
  BY DEF ConOnly
<1>3. ASSUME NEW d \in Consumers PROVE HandKept(d) /\ FreeKept(d)
  <2>1. CASE d = c
    BY <2>1 DEF FreeKept, HandKept, Holding
  <2>2. CASE d # c
    BY <2>2 DEF FreeKept, HandKept, ConOnly
  <2> QED BY <2>1, <2>2
<1>4. \A t \in Threads : StoreKept(t)
  BY DEF ConOnly, StoreKept
<1>5. IndexInv'
  BY <1>1, <1>2, IndexFrame
<1>6. BlockInv'
  BY <1>1, <1>3, <1>4, BlockFrame DEF IndexInv
<1> QED BY <1>5, <1>6

\* The current index is loaded.
LEMMA LoadIndexFinds ==
  ASSUME TypeOK, CountInv, IndexInv, BlockInv, NEW c \in team, loadIndex(c)
  PROVE  IndexInv' /\ BlockInv'
<1>0. Placed
  BY DEF CountInv
<1>1. /\ ConOnly(c) /\ UNCHANGED <<producers, blocks, used, pool>>
      /\ c \in Consumers /\ con[c].at = "header" /\ con[c].p \in DOMAIN producers
      /\ con'[c].at = "tail" /\ con'[c].h = Len(from(c).indices)
      /\ con'[c].p = con[c].p /\ con'[c].i = con[c].i
  BY <1>0, LoadIndexStep
<1>2. PICK p : p = con[c].p
  OBVIOUS
<1>3. PICK i : i = con[c].i
  OBVIOUS
<1>4. con[c].at \in Holding /\ con'[c].at \in Holding
  BY <1>1 DEF Holding
<1>5. PICK e \in Used(p) : KeyOf(p, e) = Base(i)
  BY <1>1, <1>2, <1>3, <1>4, HeldEntry
<1>6. producers[p].indices # <<>>
  BY <1>1, <1>2, <1>5 DEF Used, IndexInv, IndexShape, ShapeAt
<1>7. Len(producers[p].indices) \in DOMAIN producers[p].indices
  BY <1>1, <1>2, <1>6, CurrentShape DEF IndexInv
<1>8. SearchAt(c)'
  BY <1>1, <1>2, <1>7 DEF SearchAt, from
<1>9. SameFill
  BY <1>1 DEF SameFill
<1> QED BY <1>0, <1>1, <1>4, <1>8, <1>9, LoadsKeepBlocks

\* The tail of the index leads to the entry, though it be replaced by now.
LEMMA LoadIndexTailFinds ==
  ASSUME TypeOK, CountInv, IndexInv, BlockInv, NEW c \in team, loadIndexTail(c)
  PROVE  IndexInv' /\ BlockInv'
<1>0. Placed /\ Searches /\ IndexShape
  BY DEF CountInv, IndexInv
<1>1. /\ ConOnly(c) /\ UNCHANGED <<producers, blocks, used, pool>>
      /\ c \in Consumers /\ con[c].at = "tail" /\ con[c].p \in DOMAIN producers
      /\ con[c].h \in DOMAIN from(c).indices
      /\ con'[c].at = "key" /\ con'[c].tail = from(c).indices[con[c].h].tail
      /\ con'[c].p = con[c].p /\ con'[c].i = con[c].i /\ con'[c].h = con[c].h
  BY <1>0, LoadIndexTailStep
<1>2. PICK p : p = con[c].p
  OBVIOUS
<1>3. PICK i : i = con[c].i
  OBVIOUS
<1>4. con[c].at \in Holding /\ con'[c].at \in Holding
  BY <1>1 DEF Holding
<1>5. /\ Base(i) \in Nat /\ Base(i) <= LastBase(p) /\ IsBase(LastBase(p)) /\ LastBase(p) \in Int
      /\ \E e \in Used(p) : KeyOf(p, e) = Base(i)
  BY <1>1, <1>2, <1>3, <1>4, HeldEntry, LastBases
<1>6. PICK h : h = Searched(c)
  OBVIOUS
<1>7. h = from(c).indices[con[c].h] /\ h = producers[p].indices[con[c].h]
          /\ h.tail \in DOMAIN h.index
  BY <1>0, <1>1, <1>2, <1>6 DEF Searched, from, IndexShape, ShapeAt
<1>8. LeadsTo(c, h, h.tail)
  <2>1. CASE con[c].h = Len(producers[p].indices)
    <3>1. producers[p].indices # <<>>
      BY <1>5, <1>1, <1>2 DEF Used, IndexInv, IndexShape, ShapeAt
    <3>2. h = Current(p)
      BY <2>1, <1>7 DEF Current, IndexOf
    <3>3. PICK l : l = LastBase(p)
      OBVIOUS
    <3>4. AnchorAt(p)
      BY <1>1, <1>2 DEF IndexInv, Anchors
    <3>5. Anchored(p, h, h.tail, l)
      BY <3>1, <3>2, <3>3, <3>4 DEF AnchorAt
    <3>6. l \in Nat /\ Slot(l) = 0 /\ Base(con[c].i) <= l
      BY <1>3, <1>5, <3>3 DEF IsBase
    <3> QED BY <1>2, <3>5, <3>6 DEF LeadsTo
  <2>2. CASE con[c].h # Len(producers[p].indices)
    BY <1>0, <1>1, <1>2, <1>6, <2>2 DEF Searches, SearchAt
  <2> QED BY <2>1, <2>2
<1>9. LeadsTo(c, Searched(c), con[c].tail)'
  <2>1. Searched(c)' = h /\ con'[c].tail = h.tail
    BY <1>1, <1>6, <1>7 DEF Searched
  <2>2. LeadsTo(c, h, h.tail)'
    <3>1. producers'[p].entries = producers[p].entries
      BY <1>1
    <3>2. \A x, l : Anchored(p, h, x, l)' <=> Anchored(p, h, x, l)
      BY <3>1, EntriesKept
    <3>3. PICK l \in Nat : Slot(l) = 0 /\ Base(i) <= l /\ Anchored(p, h, h.tail, l)
      BY <1>2, <1>3, <1>8 DEF LeadsTo
    <3>4. Anchored(p, h, h.tail, l)'
      BY <3>2, <3>3
    <3>5. con'[c].p = p /\ con'[c].i = i
      BY <1>1, <1>2, <1>3
    <3> QED BY <3>3, <3>4, <3>5 DEF LeadsTo, Slot, Base
  <2> QED BY <2>1, <2>2 DEF LeadsTo
<1>10. con'[c].h \in DOMAIN producers'[con'[c].p].indices
           /\ con'[c].tail \in DOMAIN Searched(c)'.index
  BY <1>1, <1>6, <1>7 DEF Searched, from
<1>11. SearchAt(c)'
  BY <1>1, <1>9, <1>10 DEF SearchAt
<1>12. SameFill
  BY <1>1 DEF SameFill
<1> QED BY <1>0, <1>1, <1>4, <1>11, <1>12, LoadsKeepBlocks

\* The key at the tail tells how far back the entry is.
LEMMA KeyFound ==
  ASSUME TypeOK, CountInv, IndexInv, BlockInv, NEW c \in Consumers, con[c].at = "key",
         NEW p, p = con[c].p, NEW h, h = Searched(c), NEW x, x = con[c].tail
  PROVE  /\ KeyOf(p, h.index[x]) \in Nat
         /\ EntryFor(p, h, x, con[c].i) \in DOMAIN producers[p].entries
         /\ KeyOf(p, EntryFor(p, h, x, con[c].i)) = Base(con[c].i)
<1>1. PICK i : i = con[c].i
  OBVIOUS
<1>2. con[c].at \in Holding
  BY DEF Holding
<1>3. /\ p \in DOMAIN producers /\ IsBase(Base(i)) /\ Base(i) \in Nat
      /\ \E e \in Used(p) : KeyOf(p, e) = Base(i)
  BY <1>1, <1>2, HeldEntry
<1>4. PICK base : base = Base(i)
  OBVIOUS
<1>5. PICK e \in Used(p) : KeyOf(p, e) = base
  BY <1>3, <1>4
<1>6. con[c].h \in DOMAIN producers[p].indices /\ x \in DOMAIN h.index /\ LeadsTo(c, h, x)
  BY DEF IndexInv, Searches, SearchAt
<1>7. PICK last \in Nat : Slot(last) = 0 /\ base <= last /\ Anchored(p, h, x, last)
  BY <1>1, <1>4, <1>6 DEF LeadsTo
<1>8. h \in Headers /\ \A j \in DOMAIN h.index : h.index[j] \in DOMAIN producers[p].entries
  <2>1. producers[p].indices \in Seq(Headers)
    BY <1>3, ProducerTyped
  <2>2. h = producers[p].indices[con[c].h]
    BY DEF Searched
  <2>3. h \in Headers
    BY <1>6, <2>1, <2>2
  <2>4. ShapeAt(p)
    BY <1>3 DEF IndexInv, IndexShape
  <2>5. \A j \in DOMAIN h.index : h.index[j] \in DOMAIN producers[p].entries
    BY <1>6, <2>2, <2>4 DEF ShapeAt
  <2> QED BY <2>3, <2>5
<1>9. PICK n \in Nat \ {0} : n = CapacityOf(h)
  BY <1>8, HeaderShape
<1>10. DOMAIN h.index = 0 .. n - 1 /\ x \in 0 .. n - 1
  BY <1>6, <1>8, <1>9, HeaderShape
<1>11. base \in base .. last /\ last \in base .. last /\ Slot(base) = 0 /\ base \in Nat
  BY <1>3, <1>4, <1>7 DEF IsBase
<1>12. KeyOf(p, h.index[(x - ((last - last) \div BlockSize)) % n]) = last
  BY <1>5, <1>7, <1>9, <1>11 DEF Anchored
<1>13. KeyOf(p, h.index[(x - ((last - base) \div BlockSize)) % n]) = base
  BY <1>5, <1>7, <1>9, <1>11 DEF Anchored
<1>14. IsBase(last) /\ IsBase(base)
  BY <1>3, <1>4, <1>7 DEF IsBase
<1>15. (last - last) \div BlockSize = 0
  BY <1>14, NextBase
<1>16. (x - 0) % n = x
  BY <1>10, RingSteps
<1>17. KeyOf(p, h.index[x]) = last
  BY <1>12, <1>15, <1>16
<1>18. PICK k : k = (last - base) \div BlockSize
  OBVIOUS
<1>19. k \in Int
  BY <1>14, <1>18, BasesApart
<1>20. (x - k) % n \in 0 .. n - 1
  BY <1>10, <1>19, RingSteps
<1>21. EntryFor(p, h, x, i) = h.index[(x - k) % n]
  BY <1>4, <1>9, <1>17, <1>18 DEF EntryFor
<1> QED BY <1>1, <1>4, <1>7, <1>8, <1>10, <1>13, <1>17, <1>18, <1>20, <1>21

\* The entry found is the one of the block of the index.
LEMMA LoadKeyFinds ==
  ASSUME TypeOK, CountInv, IndexInv, BlockInv, NEW c \in team, loadKey(c)
  PROVE  IndexInv' /\ BlockInv'
<1>0. Placed /\ Searches /\ IndexShape
  BY DEF CountInv, IndexInv
<1>1. /\ ConOnly(c) /\ UNCHANGED <<producers, blocks, used, pool>>
      /\ c \in Consumers /\ con[c].at = "key" /\ con[c].p \in DOMAIN producers
      /\ con'[c].at = "move"
      /\ con'[c].entry = EntryFor(con[c].p, from(c).indices[con[c].h], con[c].tail, con[c].i)
      /\ con'[c].p = con[c].p /\ con'[c].i = con[c].i
  BY <1>0, LoadKeyStep
<1>2. PICK p : p = con[c].p
  OBVIOUS
<1>3. PICK h : h = Searched(c)
  OBVIOUS
<1>4. PICK x : x = con[c].tail
  OBVIOUS
<1>5. PICK i : i = con[c].i
  OBVIOUS
<1>6. PICK e : e = EntryFor(p, h, x, i)
  OBVIOUS
<1>7. e \in DOMAIN producers[p].entries /\ KeyOf(p, e) = Base(i)
  BY <1>1, <1>2, <1>3, <1>4, <1>5, <1>6, KeyFound
<1>8. con'[c].entry = e
  <2>1. h = from(c).indices[con[c].h]
    BY <1>3 DEF Searched, from
  <2> QED BY <1>1, <1>2, <1>4, <1>5, <1>6, <2>1
<1>9. con'[c].entry \in DOMAIN producers'[con'[c].p].entries
          /\ KeyOf(con[c].p, con[c].entry)' = Base(con[c].i)'
  <2>1. KeyOf(p, e)' = KeyOf(p, e) /\ Base(i)' = Base(i)
    BY <1>1 DEF KeyOf, Base, Slot
  <2>2. con'[c].p = p /\ con'[c].i = i
    BY <1>1, <1>2, <1>5
  <2> QED BY <1>1, <1>7, <1>8, <2>1, <2>2 DEF KeyOf, Base, Slot
<1>10. SearchAt(c)'
  BY <1>1, <1>9 DEF SearchAt
<1>11. con[c].at \in Holding /\ con'[c].at \in Holding
  BY <1>1 DEF Holding
<1>12. SameFill
  BY <1>1 DEF SameFill
<1> QED BY <1>0, <1>1, <1>10, <1>11, <1>12, LoadsKeepBlocks

\* A claim that is verified takes the index at the head, whose block stays where it is.
LEMMA TakeKeepsBlocks ==
  ASSUME TypeOK, CountInv, IndexInv, BlockInv, NEW c \in team, takeIndex(c),
         con[c].count - con[c].overcommit < from(c).tail
  PROVE  IndexInv' /\ BlockInv'
<1>0. Placed /\ Keys
  BY DEF CountInv, IndexInv
<1>1. PICK p : p = con[c].p
  OBVIOUS
<1>2. /\ ConOnly(c) /\ UNCHANGED <<blocks, used, pool>>
      /\ c \in Consumers /\ con[c].at = "verify" /\ p \in DOMAIN producers
      /\ con'[c].at = "header" /\ con'[c].p = p /\ con'[c].i = producers[p].head
      /\ OnlyAt(p)
      /\ producers'[p].head = producers[p].head + 1 /\ producers'[p].owner = producers[p].owner
      /\ producers'[p].tail = producers[p].tail
      /\ producers'[p].tailBlock = producers[p].tailBlock
      /\ producers'[p].indices = producers[p].indices
      /\ producers'[p].entries = producers[p].entries
  BY <1>0, <1>1, TakeIndexStep DEF from
<1>3. ASSUME NEW q \in DOMAIN producers
      PROVE  ViewKept(q) /\ producers'[q].tailBlock = producers[q].tailBlock
  <2>1. producers'[q].owner = producers[q].owner
    BY <1>2 DEF OnlyAt
  <2>2. Doing(q)' = Doing(q)
    BY <1>2, <2>1 DEF Doing, ConOnly
  <2> QED BY <1>2, <2>2 DEF ViewKept, OnlyAt
<1>4. SearchAt(c)'
  BY <1>2 DEF SearchAt
<1>5. IndexInv'
  <2>1. \A d \in Consumers : con'[d] = con[d] \/ SearchAt(d)'
    BY <1>2, <1>4 DEF ConOnly
  <2>2. DOMAIN producers' = DOMAIN producers
    BY <1>2 DEF OnlyAt
  <2> QED BY <1>0, <1>3, <2>1, <2>2, IndexFrame
<1>6. PICK k : k = producers[p].head
  OBVIOUS
<1>7. k \in Nat
  BY <1>2, <1>6, ProducerTyped
<1>8. con[c].at \notin Holding /\ con'[c].at \in Holding /\ con'[c].p = p /\ con'[c].i = k
      /\ \A d \in Consumers \ {c} : con'[d] = con[d]
  BY <1>2, <1>6 DEF Holding, ConOnly
<1>9. ASSUME NEW q \in DOMAIN producers, NEW i
      PROVE Held(q, i)' <=> Held(q, i) \/ (q = p /\ i = k)
  BY <1>2, <1>8 DEF Held
<1>10. ASSUME NEW q \in DOMAIN producers, NEW base, IsBase(base)
       PROVE Left(q, base)' = Left(q, base)
  <2>1. ASSUME NEW i \in base .. base + BlockSize - 1
        PROVE  i >= producers'[q].head \/ Held(q, i)' <=> i >= producers[q].head \/ Held(q, i)
    <3>1. i \in Int
      BY <1>10, QueueConstants DEF IsBase
    <3>2. CASE q = p
      BY <1>2, <1>6, <1>7, <1>9, <3>1, <3>2
    <3>3. CASE q # p
      BY <1>2, <1>9, <3>3 DEF OnlyAt
    <3> QED BY <3>2, <3>3
  <2> QED BY <2>1 DEF Left
<1>11. Hands'
  <2>1. ASSUME NEW d \in Consumers PROVE HandAt(d)'
    <3>1. HandAt(d)
      BY DEF BlockInv, Hands
    <3>2. CASE d = c
      <4>1. con'[d].i < producers'[con'[d].p].head
        BY <1>2, <1>6, <1>7, <1>8, <3>2
      <4>2. ASSUME NEW f \in Consumers, con'[f].at \in Holding, con'[f].p = p, con'[f].i = k
            PROVE f = c
        <5>1. CASE f # c
          <6>1. con[f].at \in Holding /\ con[f].p = p /\ con[f].i = k
            BY <1>8, <4>2, <5>1
          <6>2. con[f].i < producers[con[f].p].head
            BY <6>1 DEF BlockInv, Hands, HandAt
          <6> QED BY <1>6, <1>7, <6>1, <6>2
        <5> QED BY <5>1
      <4>3. con'[d].at # "clear"
        BY <1>2, <3>2
      <4> QED BY <1>8, <3>2, <4>1, <4>2, <4>3 DEF HandAt
    <3>3. CASE d # c /\ con[d].at \in Holding
      <4>1. con'[d] = con[d] /\ con[d].p \in DOMAIN producers /\ con[d].at # "clear"
                /\ con[d].i \in Nat
        BY <1>0, <1>8, <3>3 DEF Placed, PlacedAt, AtProducer, Holding, TypeOK, ConsumerType
      <4>2. PICK q : q = con[d].p
        OBVIOUS
      <4>3. con[d].i < producers[q].head /\ producers[q].head \in Nat
        BY <3>1, <3>3, <4>1, <4>2, ProducerTyped DEF HandAt
      <4>4. con[d].i < producers'[q].head
        BY <1>2, <4>1, <4>2, <4>3 DEF OnlyAt
      <4>5. con[d].p = p => con[d].i # k
        BY <1>6, <1>7, <4>1, <4>2, <4>3
      <4>6. ASSUME NEW f \in Consumers, con'[f].at \in Holding, con'[f].p = con[d].p,
                       con'[f].i = con[d].i PROVE f = d
        BY <1>8, <3>1, <3>3, <4>5, <4>6 DEF HandAt
      <4> QED BY <4>1, <4>2, <4>4, <4>6 DEF HandAt
    <3>4. CASE d # c /\ con[d].at = "clear"
      <4>1. con'[d] = con[d] /\ con[d].p \in DOMAIN producers /\ con[d].at \notin Holding
                /\ con[d].i \in Nat
        BY <1>0, <1>8, <3>4 DEF Placed, PlacedAt, AtProducer, Holding, TypeOK, ConsumerType
      <4>2. PICK q, base : q = con[d].p /\ base = Base(con[d].i)
        OBVIOUS
      <4>3. IsBase(base)
        BY <4>1, <4>2, BaseOf
      <4>4. Left(q, base)' = {}
        <5>1. Left(q, base) = {}
          BY <3>1, <3>4, <4>2 DEF HandAt
        <5> QED BY <1>10, <4>1, <4>2, <4>3, <5>1
      <4>5. Left(con[d].p, Base(con[d].i))' = {}
        <5>1. con'[d].p = q /\ Base(con[d].i)' = base
          BY <4>1, <4>2 DEF Base, Slot
        <5> QED BY <4>4, <5>1 DEF Left, Held
      <4>6. ASSUME NEW f \in Consumers, con'[f].at = "clear", con'[f].p = con[d].p,
                       con'[f].entry = con[d].entry PROVE f = d
        BY <1>2, <1>8, <3>1, <3>4, <4>6 DEF HandAt
      <4> QED BY <3>1, <3>4, <4>1, <4>5, <4>6 DEF HandAt
    <3>5. CASE d # c /\ con[d].at \notin Holding \union {"clear"}
      BY <1>8, <3>5 DEF HandAt
    <3> QED BY <3>2, <3>3, <3>4, <3>5
  <2> QED BY <2>1 DEF Hands
<1>12. ASSUME NEW q \in DOMAIN producers PROVE PlaceAt(q)'
  <2>1. PlaceAt(q) /\ KeysAt(q)
    BY <1>0 DEF BlockInv, BlocksInPlace, Keys
  <2>2. \A e \in Used(q) : blocks'[ValueOf(q, e)].dequeued = blocks[ValueOf(q, e)].dequeued
    BY <1>2
  <2> QED BY <1>3, <1>10, <2>1, <2>2, PlaceFrame
<1>13. DOMAIN producers' = DOMAIN producers
  BY <1>2 DEF OnlyAt
<1>14. BlocksInPlace'
  BY <1>12, <1>13 DEF BlocksInPlace
<1>15. Ownership'
  <2>1. \A d \in Consumers : FreeKept(d)
    BY <1>2, <1>8 DEF FreeKept
  <2>2. \A u \in Threads : StoreKept(u)
    BY <1>2 DEF StoreKept, ConOnly
  <2>3. ASSUME NEW q \in DOMAIN producers
        PROVE Used(q)' = Used(q) /\ \A e \in Used(q) : ValueOf(q, e)' = ValueOf(q, e)
    BY <1>3, SameView
  <2> QED BY <1>2, <1>13, <2>1, <2>2, <2>3, OwnFrame DEF BlockInv
<1> QED BY <1>5, <1>11, <1>14, <1>15 DEF BlockInv

\* The entry that was found is in use, as long as its element is there.
LEMMA EntryFound ==
  ASSUME TypeOK, CountInv, IndexInv, BlockInv, NEW c \in Consumers,
             con[c].at \in {"move", "empty"},
         NEW p, p = con[c].p, NEW e, e = con[c].entry
  PROVE  /\ p \in DOMAIN producers /\ e \in Used(p) /\ KeyOf(p, e) = Base(con[c].i)
         /\ InUse(ValueOf(p, e)) /\ ValueOf(p, e) \in DOMAIN blocks
         /\ con[c].at = "empty" => ValueOf(p, e) = con[c].b
<1>1. con[c].at \in Holding
  BY DEF Holding
<1>2. PICK i : i = con[c].i
  OBVIOUS
<1>3. p \in DOMAIN producers /\ Base(i) \in Nat /\ \E f \in Used(p) : KeyOf(p, f) = Base(i)
  BY <1>1, <1>2, HeldEntry
<1>4. PICK f \in Used(p) : KeyOf(p, f) = Base(i)
  BY <1>3
<1>5. e \in DOMAIN producers[p].entries /\ KeyOf(p, e) = Base(i)
  BY <1>2 DEF IndexInv, Searches, SearchAt
<1>6. KeyOf(p, f) # NoKey /\ f \in DOMAIN producers[p].entries
  BY <1>3, <1>4 DEF NoKey, Used
<1>7. e = f
  BY <1>3, <1>4, <1>5, <1>6 DEF IndexInv, Keys, KeysAt
<1>8. InUse(ValueOf(p, e)) /\ ValueOf(p, e) \in DOMAIN blocks
  BY <1>3, <1>4, <1>7 DEF BlockInv, Ownership, EntriesOwn, InUse
<1>9. con[c].at = "empty" => ValueOf(p, e) = con[c].b
  BY DEF IndexInv, Searches, SearchAt
<1> QED BY <1>2, <1>3, <1>4, <1>5, <1>7, <1>8, <1>9

\* The element is moved out of the block of its index.
LEMMA MoveKeepsBlocks ==
  ASSUME TypeOK, CountInv, IndexInv, BlockInv, NEW c \in team, moveElement(c)
  PROVE  IndexInv' /\ BlockInv'
<1>0. Placed
  BY DEF CountInv
<1>1. c \in Consumers /\ con[c].at = "move"
  BY DEF TypeOK, moveElement, ConAt
<1>2. PICK p : p = con[c].p
  OBVIOUS
<1>3. PICK e : e = con[c].entry
  OBVIOUS
<1>4. p \in DOMAIN producers /\ e \in Used(p) /\ KeyOf(p, e) = Base(con[c].i)
          /\ ValueOf(p, e) \in DOMAIN blocks
  BY <1>1, <1>2, <1>3, EntryFound
<1>5. entry(c).value = ValueOf(p, e)
  BY <1>2, <1>3 DEF entry, from, ValueOf
<1>6. entry(c).value \in DOMAIN blocks
  BY <1>4, <1>5
<1>7. /\ ConOnly(c) /\ UNCHANGED <<producers, used, pool>>
      /\ con'[c].at = "empty" /\ con'[c].b = entry(c).value
      /\ con'[c].p = con[c].p /\ con'[c].i = con[c].i /\ con'[c].entry = con[c].entry
      /\ Len(blocks') = Len(blocks) /\ DOMAIN blocks' = DOMAIN blocks
      /\ \A b \in DOMAIN blocks \ {entry(c).value} : blocks'[b] = blocks[b]
      /\ blocks'[entry(c).value].dequeued = blocks[entry(c).value].dequeued
  BY <1>0, <1>6, MoveElementStep
<1>8. SameFill
  BY <1>7 DEF SameFill
<1>9. SearchAt(c)'
  <2>1. /\ con'[c].p = p /\ con'[c].entry = e /\ con'[c].b = ValueOf(p, e)
        /\ e \in DOMAIN producers[p].entries
    BY <1>2, <1>3, <1>4, <1>5, <1>7 DEF Used
  <2>2. KeyOf(p, e)' = KeyOf(p, e) /\ ValueOf(p, e)' = ValueOf(p, e) /\ producers' = producers
    BY <1>7 DEF KeyOf, ValueOf
  <2> QED BY <1>4, <1>7, <2>1, <2>2 DEF SearchAt, KeyOf, ValueOf, Base, Slot
<1>10. con[c].at \in Holding /\ con'[c].at \in Holding
  BY <1>1, <1>7 DEF Holding
<1> QED BY <1>0, <1>1, <1>7, <1>8, <1>9, <1>10, LoadsKeepBlocks

\* Consumer c leaves block b, where nothing is left if it is to clear the entry.
LEMMA LeaveKeepsBlocks ==
  ASSUME TypeOK, CountInv, IndexInv, BlockInv, TypeOK', NEW c \in Consumers, ConOnly(c),
         UNCHANGED <<producers, used, pool>>,
         con[c].at = "empty", NEW b, b = con[c].b, NEW next, next = blocks[b].dequeued + 1,
         Len(blocks') = Len(blocks), DOMAIN blocks' = DOMAIN blocks,
         \A a \in DOMAIN blocks \ {b} : blocks'[a] = blocks[a],
         blocks'[b].dequeued = next,
         \/ con'[c].at = "idle"
         \/ /\ con'[c].at = "clear" /\ next = BlockSize
            /\ con'[c].p = con[c].p /\ con'[c].i = con[c].i /\ con'[c].entry = con[c].entry
            /\ con'[c].b = b
  PROVE  IndexInv' /\ BlockInv'
<1>1. PICK p : p = con[c].p
  OBVIOUS
<1>2. PICK e : e = con[c].entry
  OBVIOUS
<1>3. PICK i : i = con[c].i
  OBVIOUS
<1>4. con[c].at \in Holding /\ con'[c].at \notin Holding
          /\ \A d \in Consumers \ {c} : con'[d] = con[d]
  BY DEF Holding, ConOnly
<1>5. /\ p \in DOMAIN producers /\ i \in Nat /\ i < producers[p].head
      /\ IsBase(Base(i)) /\ Base(i) \in Nat /\ i \in Left(p, Base(i))
  BY <1>1, <1>3, <1>4, HeldEntry
<1>6. /\ e \in Used(p) /\ KeyOf(p, e) = Base(i) /\ ValueOf(p, e) = b /\ b \in DOMAIN blocks
  BY <1>1, <1>2, <1>3, EntryFound
<1>7. PICK base : base = Base(i)
  OBVIOUS
<1>8. \A d \in Consumers : con[d].at \in Holding /\ con[d].p = p /\ con[d].i = i => d = c
  BY <1>1, <1>3, <1>4 DEF BlockInv, Hands, HandAt
<1>9. ASSUME NEW q, NEW j PROVE Held(q, j)' <=> Held(q, j) /\ ~ (q = p /\ j = i)
  BY <1>1, <1>3, <1>4, <1>8 DEF Held
<1>10. ASSUME NEW q \in DOMAIN producers, NEW x, IsBase(x), q # p \/ x # base
       PROVE  Left(q, x)' = Left(q, x)
  <2>1. ASSUME NEW j \in x .. x + BlockSize - 1 PROVE Held(q, j)' <=> Held(q, j)
    <3>1. q = p => j # i
      <4>1. x \in Int /\ j \in Int /\ x <= j /\ j < x + BlockSize
        BY <1>10, QueueConstants DEF IsBase
      <4>2. Base(j) = x
        BY <1>10, <4>1, OneBase
      <4> QED BY <1>7, <1>10, <4>2
    <3> QED BY <1>9, <3>1
  <2> QED BY <2>1 DEF Left
<1>11. Left(p, base)' = Left(p, base) \ {i}
  <2>1. producers[p].head \in Nat
    BY <1>5, ProducerTyped
  <2>2. ~ (i >= producers[p].head)
    BY <1>5, <2>1
  <2> QED BY <1>9, <2>2 DEF Left
<1>12. ASSUME NEW q \in DOMAIN producers, NEW x, IsBase(x)
       PROVE Left(q, x)' \subseteq Left(q, x)
  <2>1. CASE q = p /\ x = base
    <3>1. Left(q, x)' = Left(p, base)'
      BY <2>1 DEF Left, Held
    <3> QED BY <1>11, <2>1, <3>1
  <2>2. CASE ~ (q = p /\ x = base)
    BY <1>10, <1>12, <2>2
  <2> QED BY <2>1, <2>2
<1>13. IsFiniteSet(Left(p, base))
           /\ Cardinality(Left(p, base)') = Cardinality(Left(p, base)) - 1
       /\ Cardinality(Left(p, base)) \in Nat
  <2>1. base \in Int /\ base + BlockSize - 1 \in Int
    BY <1>5, <1>7, QueueConstants
  <2>2. IsFiniteSet(base .. base + BlockSize - 1)
    <3>1. PICK hi : hi = base + BlockSize - 1
      OBVIOUS
    <3>2. IsFiniteSet(base .. hi)
      BY <2>1, <3>1, FS_Interval
    <3> QED BY <3>1, <3>2
  <2>3. Left(p, base) \subseteq base .. base + BlockSize - 1
    BY DEF Left
  <2>4. IsFiniteSet(Left(p, base))
    BY <2>2, <2>3, FS_Subset
  <2>5. PICK L : L = Left(p, base)
    OBVIOUS
  <2>6. IsFiniteSet(L) /\ i \in L
    BY <1>5, <1>7, <2>4, <2>5
  <2>7. Cardinality(L \ {i}) = Cardinality(L) - 1 /\ Cardinality(L) \in Nat
    BY <2>6, FS_RemoveElement, FS_CardinalityType
  <2> QED BY <1>11, <2>4, <2>5, <2>7
<1>14. blocks[b].dequeued + Cardinality(Left(p, base)) = BlockSize /\ blocks[b].dequeued \in Nat
           /\ BlockSize \in Nat
  <2>1. blocks[b].dequeued + Cardinality(Left(p, KeyOf(p, e))) = BlockSize
    BY <1>5, <1>6 DEF BlockInv, BlocksInPlace, PlaceAt
  <2>2. blocks[b] \in Blocks
    BY <1>6 DEF TypeOK
  <2> QED BY <1>6, <1>7, <2>1, <2>2, QueueConstants DEF Blocks
<1>15. next + Cardinality(Left(p, base)') = BlockSize
  <2>1. PICK x \in Nat : x = Cardinality(Left(p, base))
    BY <1>13
  <2>2. PICK y \in Int : y = Cardinality(Left(p, base)') /\ y = x - 1
    BY <1>13, <2>1
  <2>5. next = blocks[b].dequeued + 1
    OBVIOUS
  <2>3. PICK z \in Nat : z = blocks[b].dequeued /\ z + x = BlockSize
    BY <1>14, <2>1
  <2>4. (z + 1) + y = BlockSize
    <3>1. PICK w \in Nat : w = BlockSize
      BY QueueConstants
    <3>2. z + x = w /\ y = x - 1
      BY <2>2, <2>3, <3>1
    <3>3. (z + 1) + y = w
      BY <3>2
    <3> QED BY <3>1, <3>3
  <2> QED BY <2>2, <2>3, <2>4, <2>5
<1>16. con'[c].at = "clear" => Left(p, base)' = {}
  <2>1. CASE con'[c].at = "clear"
    <3>1. Cardinality(Left(p, base)') = 0
      <4>1. next = BlockSize
        BY <2>1
      <4>2. PICK k \in Nat : k = Cardinality(Left(p, base))
        BY <1>13
      <4>3. PICK m : m = Cardinality(Left(p, base)')
        OBVIOUS
      <4>4. m = k - 1 /\ BlockSize + m = BlockSize
        BY <1>13, <1>15, <4>1, <4>2, <4>3
      <4> QED BY <1>14, <4>2, <4>3, <4>4
    <3>2. PICK L : L = Left(p, base)'
      OBVIOUS
    <3>3. IsFiniteSet(L)
      BY <1>11, <1>13, <3>2, FS_Subset
    <3>4. L = {}
      BY <3>1, <3>2, <3>3, FS_EmptySet
    <3> QED BY <3>2, <3>4
  <2> QED BY <2>1
<1>17. Placed
  BY DEF CountInv
<1>18. Hands'
  <2>1. ASSUME NEW d \in Consumers PROVE HandAt(d)'
    <3>1. HandAt(d)
      BY DEF BlockInv, Hands
    <3>2. CASE d = c
      <4>1. CASE con'[c].at = "clear"
        <5>1. con'[c].p = p /\ con'[c].i = i /\ con'[c].entry = e /\ con'[c].b = b
          BY <1>1, <1>2, <1>3, <4>1
        <5>2. b # NoBlock
          BY <1>6 DEF Used, ValueOf
        <5>3. Left(con[c].p, Base(con[c].i))' = {}
          <6>1. Base(con[c].i)' = base /\ con'[c].p = p
            BY <1>7, <5>1 DEF Base, Slot
          <6> QED BY <1>16, <4>1, <6>1 DEF Left, Held
        <5>4. ASSUME NEW f \in Consumers, con'[f].at = "clear", con'[f].p = p,
                         con'[f].entry = e, f # c PROVE FALSE
          <6>1. con[f].at = "clear" /\ con[f].p = p /\ con[f].entry = e
            BY <1>4, <5>4
          <6>2. KeyOf(p, e) = Base(con[f].i)
            BY <6>1 DEF IndexInv, Searches, SearchAt
          <6>3. Left(p, Base(con[f].i)) = {}
            BY <6>1 DEF BlockInv, Hands, HandAt
          <6> QED BY <1>5, <1>6, <6>2, <6>3
        <5> QED BY <1>4, <3>2, <4>1, <5>1, <5>2, <5>3, <5>4 DEF HandAt
      <4>2. CASE con'[c].at = "idle"
        BY <1>4, <3>2, <4>2 DEF HandAt
      <4> QED BY <4>1, <4>2
    <3>3. CASE d # c /\ con[d].at \in Holding
      BY <1>4, <3>1, <3>3 DEF HandAt, Holding
    <3>4. CASE d # c /\ con[d].at = "clear"
      <4>1. con'[d] = con[d] /\ con[d].p \in DOMAIN producers /\ con[d].at \notin Holding
                /\ con[d].i \in Nat
        BY <1>4, <1>17, <3>4 DEF Placed, PlacedAt, AtProducer, Holding, TypeOK, ConsumerType
      <4>2. PICK q, x : q = con[d].p /\ x = Base(con[d].i)
        OBVIOUS
      <4>3. IsBase(x)
        <5>1. PICK j \in Int : j = con[d].i
          BY <4>1
        <5> QED BY <4>2, <5>1, BaseOf
      <4>4. Left(q, x)' = {}
        <5>1. Left(q, x) = {}
          BY <3>1, <3>4, <4>2 DEF HandAt
        <5> QED BY <1>12, <4>1, <4>2, <4>3, <5>1
      <4>5. Left(con[d].p, Base(con[d].i))' = {}
        <5>1. con'[d].p = q /\ Base(con[d].i)' = x
          BY <4>1, <4>2 DEF Base, Slot
        <5> QED BY <4>4, <5>1 DEF Left, Held
      <4>6. ASSUME NEW f \in Consumers, con'[f].at = "clear", con'[f].p = con[d].p,
                       con'[f].entry = con[d].entry PROVE f = d
        <5>1. CASE f = c
          <6>1. con[d].p = p /\ con[d].entry = e
            BY <1>1, <1>2, <4>6, <5>1
          <6>2. KeyOf(p, e) = Base(con[d].i)
            BY <3>4, <6>1 DEF IndexInv, Searches, SearchAt
          <6>3. Left(p, Base(con[d].i)) = {}
            BY <3>1, <3>4, <6>1 DEF HandAt
          <6> QED BY <1>5, <1>6, <6>2, <6>3
        <5>2. CASE f # c
          BY <1>4, <3>1, <3>4, <4>6, <5>2 DEF HandAt
        <5> QED BY <5>1, <5>2
      <4> QED BY <3>1, <4>1, <4>5, <4>6, <3>4 DEF HandAt
    <3>5. CASE d # c /\ con[d].at \notin Holding \union {"clear"}
      BY <1>4, <3>5 DEF HandAt
    <3> QED BY <3>2, <3>3, <3>4, <3>5
  <2> QED BY <2>1 DEF Hands
<1>19. ASSUME NEW q \in DOMAIN producers
       PROVE  ViewKept(q) /\ producers'[q].tailBlock = producers[q].tailBlock /\ PlaceAt(q)
                  /\ KeysAt(q)
  <2>1. Doing(q)' = Doing(q)
    BY DEF Doing, ConOnly
  <2> QED BY <2>1 DEF ViewKept, BlockInv, BlocksInPlace, IndexInv, Keys
<1>20. SearchAt(c)'
  <2>1. CASE con'[c].at = "clear"
    <3>1. con'[c].p = p /\ con'[c].i = i /\ con'[c].entry = e /\ con'[c].b = b
      BY <1>1, <1>2, <1>3, <2>1
    <3>2. producers' = producers /\ e \in DOMAIN producers[p].entries
      BY <1>6 DEF Used
    <3> QED BY <1>6, <2>1, <3>1, <3>2 DEF SearchAt, KeyOf, ValueOf, Base, Slot
  <2>2. CASE con'[c].at = "idle"
    BY <2>2 DEF SearchAt
  <2> QED BY <2>1, <2>2
<1>21. IndexInv'
  <2>1. \A d \in Consumers : con'[d] = con[d] \/ SearchAt(d)'
    BY <1>4, <1>20
  <2> QED BY <1>17, <1>19, <2>1, IndexFrame
<1>22. ASSUME NEW q \in DOMAIN producers, NEW f \in Used(q), ~ (q = p /\ f = e)
       PROVE  /\ ValueOf(q, f) # b /\ ValueOf(q, f) \in DOMAIN blocks
              /\ blocks'[ValueOf(q, f)].dequeued = blocks[ValueOf(q, f)].dequeued
  <2>1. ValueOf(q, f) # b /\ ValueOf(q, f) \in DOMAIN blocks
    BY <1>5, <1>6, <1>22 DEF BlockInv, Ownership, EntriesOwn, InUse
  <2> QED BY <2>1
<1>23. ASSUME NEW q \in DOMAIN producers, q # p PROVE PlaceAt(q)'
  <2>1. \A x : IsBase(x) => Left(q, x)' = Left(q, x)
    BY <1>10, <1>23
  <2>2. \A f \in Used(q) : blocks'[ValueOf(q, f)].dequeued = blocks[ValueOf(q, f)].dequeued
    BY <1>22, <1>23
  <2> QED BY <1>19, <2>1, <2>2, PlaceFrame
<1>24. PlaceAt(p)'
  <2>1. /\ Used(p)' = Used(p) /\ OpenBase(p)' = OpenBase(p)
        /\ \A f : KeyOf(p, f)' = KeyOf(p, f) /\ ValueOf(p, f)' = ValueOf(p, f)
    BY <1>5, <1>19, SameView
  <2>2. PICK o : o = OpenBase(p)
    OBVIOUS
  <2>3. o \in Int
    BY <1>5, <2>2, LastBases
  <2>4. ASSUME NEW x \in 0 .. o, Slot(x) = 0, Left(p, x)' # {}
        PROVE \E f \in Used(p) : KeyOf(p, f) = x
    <3>1. IsBase(x)
      BY <2>3, <2>4 DEF IsBase
    <3>2. Left(p, x) # {}
      BY <1>5, <1>12, <2>4, <3>1
    <3> QED BY <1>5, <1>19, <2>2, <2>4, <3>2 DEF PlaceAt
  <2>5. ASSUME NEW f \in Used(p)
        PROVE  /\ blocks'[ValueOf(p, f)].dequeued + Cardinality(Left(p, KeyOf(p, f))')
                      = BlockSize
               /\ KeyOf(p, f) = o => ValueOf(p, f) = producers'[p].tailBlock
    <3>1. PICK k : k = KeyOf(p, f)
      OBVIOUS
    <3>2. KeyOf(p, f)' = k
      BY <2>1, <3>1
    <3>3. Left(p, KeyOf(p, f))' = Left(p, k)'
      BY <3>2 DEF Left, Held
    <3>4. CASE f = e
      BY <1>5, <1>6, <1>7, <1>15, <1>19, <2>2, <3>1, <3>3, <3>4 DEF PlaceAt
    <3>5. CASE f # e
      <4>1. IsBase(k) /\ k # base
        <5>1. f \in DOMAIN producers[p].entries /\ e \in DOMAIN producers[p].entries
                  /\ k # NoKey
          BY <1>5, <1>6, <1>19, <3>1 DEF KeysAt, Used
        <5>2. k \in Nat /\ Slot(k) = 0 /\ k # KeyOf(p, e)
          BY <1>5, <1>19, <3>1, <3>5, <5>1 DEF KeysAt
        <5> QED BY <1>6, <1>7, <5>2 DEF IsBase
      <4>2. Left(p, k)' = Left(p, k)
        BY <1>5, <1>10, <4>1
      <4>3. blocks'[ValueOf(p, f)].dequeued = blocks[ValueOf(p, f)].dequeued
        BY <1>5, <1>22, <3>5
      <4> QED BY <1>5, <1>19, <2>2, <3>1, <3>3, <4>2, <4>3 DEF PlaceAt
    <3> QED BY <3>4, <3>5
  <2>6. OpenBase(p)' = o
    BY <2>1, <2>2
  <2>7. \A x \in 0 .. o : Slot(x)' = 0 /\ Left(p, x)' # {} =>
            \E f \in Used(p)' : KeyOf(p, f)' = x
    BY <2>1, <2>4 DEF Slot
  <2>8. \A f \in Used(p)' :
          /\ blocks'[ValueOf(p, f)'].dequeued + Cardinality(Left(p, KeyOf(p, f))') = BlockSize
          /\ KeyOf(p, f)' = o => ValueOf(p, f)' = producers'[p].tailBlock
    BY <2>1, <2>5
  <2> QED BY <2>6, <2>7, <2>8 DEF PlaceAt
<1>25. BlocksInPlace'
  BY <1>23, <1>24 DEF BlocksInPlace
<1>26. Ownership'
  <2>1. ASSUME NEW d \in Consumers PROVE FreeKept(d)
    BY <1>4 DEF FreeKept
  <2>2. \A u \in Threads : StoreKept(u)
    BY DEF StoreKept, ConOnly
  <2>3. \A a \in DOMAIN blocks :
           \/ blocks'[a].dequeued = blocks[a].dequeued
           \/ \E q \in DOMAIN producers : \E f \in Used(q) : a = ValueOf(q, f)
    BY <1>5, <1>6
  <2>4. \A q \in DOMAIN producers : Used(q)' = Used(q)
            /\ \A f \in Used(q) : ValueOf(q, f)' = ValueOf(q, f)
    BY DEF Used, ValueOf
  <2> QED BY <2>1, <2>2, <2>3, <2>4, OwnFrame DEF BlockInv
<1> QED BY <1>18, <1>21, <1>25, <1>26 DEF BlockInv

\* Both ways of leaving a block.
LEMMA EmptyKeepsBlocks ==
  ASSUME TypeOK, CountInv, IndexInv, BlockInv, NEW c \in team, set_empty(c)
  PROVE  IndexInv' /\ BlockInv'
<1>1. Placed /\ c \in Consumers /\ con[c].at = "empty"
  BY DEF TypeOK, set_empty, ConAt, CountInv
<1>2. PICK b : b = con[c].b
  OBVIOUS
<1>3. b \in DOMAIN blocks
  BY <1>1, <1>2, EntryFound
<1>4. CASE blocks[con[c].b].dequeued # BlockSize - 1
  <2>1. /\ TypeOK' /\ ConOnly(c) /\ UNCHANGED <<producers, used, pool>>
        /\ con'[c] = AtRest
        /\ Len(blocks') = Len(blocks) /\ DOMAIN blocks' = DOMAIN blocks
        /\ \A a \in DOMAIN blocks \ {b} : blocks'[a] = blocks[a]
        /\ blocks'[b].dequeued = blocks[b].dequeued + 1
    BY <1>1, <1>2, <1>3, <1>4, LeaveBlockStep
  <2>2. con'[c].at = "idle"
    BY <2>1, RestFields
  <2> QED BY <1>1, <1>2, <2>1, <2>2, LeaveKeepsBlocks
<1>5. CASE blocks[con[c].b].dequeued = BlockSize - 1
  <2>1. /\ TypeOK' /\ ConOnly(c) /\ UNCHANGED <<producers, used, pool>>
        /\ con'[c].at = "clear"
        /\ con'[c].p = con[c].p /\ con'[c].i = con[c].i /\ con'[c].entry = con[c].entry
        /\ con'[c].b = b
        /\ Len(blocks') = Len(blocks) /\ DOMAIN blocks' = DOMAIN blocks
        /\ \A a \in DOMAIN blocks \ {b} : blocks'[a] = blocks[a]
        /\ blocks'[b].dequeued = blocks[b].dequeued + 1
    BY <1>1, <1>2, <1>3, <1>5, LastToLeaveStep
  <2>2. blocks[b].dequeued + 1 = BlockSize
    BY <1>2, <1>5, QueueConstants
  <2> QED BY <1>1, <1>2, <2>1, <2>2, LeaveKeepsBlocks
<1> QED BY <1>4, <1>5

\* Every step back from the tail of a header is a position of it.
LEMMA StepBack ==
  ASSUME NEW h \in Headers, NEW x \in DOMAIN h.index, NEW last, IsBase(last), NEW base,
             IsBase(base)
  PROVE  (x - ((last - base) \div BlockSize)) % CapacityOf(h) \in DOMAIN h.index
<1>1. PICK n \in Nat \ {0} : n = CapacityOf(h)
  BY HeaderShape
<1>2. x \in 0 .. n - 1 /\ DOMAIN h.index = 0 .. n - 1
  BY <1>1, HeaderShape
<1>3. PICK k \in Int : k = (last - base) \div BlockSize
  BY BasesApart
<1>4. (x - k) % n \in 0 .. n - 1
  BY <1>2, RingSteps
<1> QED BY <1>1, <1>2, <1>3, <1>4

\* The current header is well formed.
LEMMA CurrentHeader ==
  ASSUME TypeOK, IndexShape, NEW p \in DOMAIN producers, producers[p].indices # <<>>, NEW h,
             h = Current(p)
  PROVE  /\ h \in Headers /\ h.tail \in DOMAIN h.index /\ NextPosition(h) \in DOMAIN h.index
         /\ \A j \in DOMAIN h.index : h.index[j] \in DOMAIN producers[p].entries
         /\ \A j, m \in DOMAIN h.index : h.index[j] = h.index[m] => j = m
<1>1. h \in Headers
  BY CurrentShape
<1>2. DOMAIN h.index = 0 .. CapacityOf(h) - 1
  BY CurrentShape
<1>3. h.tail \in 0 .. CapacityOf(h) - 1 /\ NextPosition(h) \in 0 .. CapacityOf(h) - 1
  BY CurrentShape
<1>4. \A j \in 0 .. CapacityOf(h) - 1 : h.index[j] \in DOMAIN producers[p].entries
  BY CurrentShape
<1>5. \A j, m \in 0 .. CapacityOf(h) - 1 : h.index[j] = h.index[m] => j = m
  BY CurrentShape
<1> QED BY <1>1, <1>2, <1>3, <1>4, <1>5

\* A header leads on to the blocks in use though entries be cleared, and others get a
\* key, as long as the keys that change lie before all that is in use.
LEMMA AnchoredKept ==
  ASSUME TypeOK, NEW p \in DOMAIN producers, KeysAt(p), NEW h \in Headers,
             NEW x \in DOMAIN h.index,
         \A j \in DOMAIN h.index : h.index[j] \in DOMAIN producers[p].entries,
         NEW last, IsBase(last), Anchored(p, h, x, last), Used(p)' \subseteq Used(p),
         \A e \in DOMAIN producers[p].entries :
           KeyOf(p, e)' = KeyOf(p, e) \/ \A f \in Used(p) : ~ (KeyOf(p, f) <= KeyOf(p, e))
  PROVE  Anchored(p, h, x, last)'
<1>1. ASSUME NEW f \in Used(p)
      PROVE  KeyOf(p, f)' = KeyOf(p, f) /\ KeyOf(p, f) \in Nat
  <2>1. f \in DOMAIN producers[p].entries /\ KeyOf(p, f) # NoKey
    BY DEF Used, KeysAt
  <2>2. KeyOf(p, f) \in Nat
    BY <2>1 DEF KeysAt
  <2> QED BY <2>1, <2>2
<1>2. ASSUME NEW f \in Used(p)', NEW base \in KeyOf(p, f) .. last, Slot(base) = 0
      PROVE  /\ (last - base) \div BlockSize < CapacityOf(h)
             /\ KeyOf(p, h.index[(x - ((last - base) \div BlockSize)) % CapacityOf(h)])' = base
  <2>1. f \in Used(p) /\ last \in Int /\ KeyOf(p, f) \in Int
    BY <1>1 DEF IsBase
  <2>2. base \in Int /\ KeyOf(p, f) <= base /\ base <= last /\ IsBase(base)
    BY <1>2, <2>1 DEF IsBase
  <2>3. PICK j : j = (x - ((last - base) \div BlockSize)) % CapacityOf(h)
    OBVIOUS
  <2>4. j \in DOMAIN h.index
    BY <2>2, <2>3, StepBack
  <2>5. PICK e : e = h.index[j]
    OBVIOUS
  <2>6. (last - base) \div BlockSize < CapacityOf(h) /\ KeyOf(p, e) = base
    BY <1>2, <2>1, <2>3, <2>5 DEF Anchored
  <2>7. e \in DOMAIN producers[p].entries
    BY <2>4, <2>5
  <2>8. KeyOf(p, e)' = KeyOf(p, e)
    BY <2>1, <2>2, <2>6, <2>7
  <2> QED BY <2>3, <2>5, <2>6, <2>8 DEF KeyOf
<1>3. \A f \in Used(p)' : KeyOf(p, f)' = KeyOf(p, f)
  BY <1>1
<1>4. PICK n : n = CapacityOf(h)
  OBVIOUS
<1>5. CapacityOf(h)' = n
  BY <1>4 DEF CapacityOf
<1>6. \A f \in Used(p)' : \A base \in KeyOf(p, f)' .. last : Slot(base) = 0 =>
        /\ (last - base) \div BlockSize < n
        /\ KeyOf(p, h.index[(x - ((last - base) \div BlockSize)) % n])' = base
  BY <1>2, <1>3, <1>4
<1> QED BY <1>5, <1>6 DEF Anchored, Slot

\* The header a consumer searches is well formed.
LEMMA SearchedShape ==
  ASSUME TypeOK, IndexInv, Placed, NEW c \in Consumers, con[c].at \in {"tail", "key"}, NEW p,
             p = con[c].p,
         NEW h, h = Searched(c)
  PROVE  /\ p \in DOMAIN producers /\ h \in Headers /\ h.tail \in DOMAIN h.index
         /\ \A j \in DOMAIN h.index : h.index[j] \in DOMAIN producers[p].entries
         /\ con[c].h \in DOMAIN producers[p].indices /\ h = producers[p].indices[con[c].h]
<1>1. p \in DOMAIN producers
  BY DEF Placed, PlacedAt, AtProducer
<1>2. con[c].h \in DOMAIN producers[p].indices /\ h = producers[p].indices[con[c].h]
  BY DEF IndexInv, Searches, SearchAt, Searched
<1>3. producers[p].indices \in Seq(Headers)
  BY <1>1, ProducerTyped
<1> QED BY <1>1, <1>2, <1>3 DEF IndexInv, IndexShape, ShapeAt

\* The search of consumer d goes on while entries of its producer are cleared or get keys.
LEMMA SearchKept ==
  ASSUME TypeOK, IndexInv, Placed, NEW d \in Consumers, con'[d] = con[d],
             NEW p \in DOMAIN producers, p = con[d].p,
         DOMAIN producers[p].indices \subseteq DOMAIN producers'[p].indices,
         con[d].at = "key" =>
             producers'[p].indices[con[d].h].index = producers[p].indices[con[d].h].index,
         con[d].at = "tail" =>
           \/ con[d].h = Len(producers'[p].indices)
           \/ /\ producers'[p].indices[con[d].h] = producers[p].indices[con[d].h]
              /\ con[d].h # Len(producers[p].indices)
                     \/ LeadsTo(d, Searched(d), Searched(d).tail),
         DOMAIN producers[p].entries \subseteq DOMAIN producers'[p].entries,
             Used(p)' \subseteq Used(p),
         \A e \in DOMAIN producers[p].entries :
           KeyOf(p, e)' = KeyOf(p, e) \/ \A f \in Used(p) : ~ (KeyOf(p, f) <= KeyOf(p, e)),
         con[d].at \in {"move", "empty", "clear"} =>
             KeyOf(p, con[d].entry)' = KeyOf(p, con[d].entry),
         con[d].at \in {"empty", "clear"} =>
             ValueOf(p, con[d].entry)' = ValueOf(p, con[d].entry)
  PROVE  SearchAt(d)'
<1>1. SearchAt(d) /\ KeysAt(p)
  BY DEF IndexInv, Searches, Keys
<1>2. PICK i : i = con[d].i
  OBVIOUS
<1>3. CASE con[d].at = "tail"
  <2>1. PICK h : h = Searched(d)
    OBVIOUS
  <2>2. h \in Headers /\ h.tail \in DOMAIN h.index /\ h = producers[p].indices[con[d].h]
        /\ \A j \in DOMAIN h.index : h.index[j] \in DOMAIN producers[p].entries
    BY <1>3, <2>1, SearchedShape
  <2>3. CASE con[d].h = Len(producers'[p].indices)
    BY <1>1, <1>3, <2>3 DEF SearchAt
  <2>4. CASE con[d].h # Len(producers'[p].indices)
    <3>0. LeadsTo(d, Searched(d), Searched(d).tail)
      BY <1>1, <1>3, <2>4 DEF SearchAt
    <3>1. PICK last \in Nat : Slot(last) = 0 /\ Base(i) <= last /\ Anchored(p, h, h.tail, last)
      BY <1>2, <2>1, <3>0 DEF LeadsTo
    <3>2. IsBase(last)
      BY <3>1 DEF IsBase
    <3>3. Anchored(p, h, h.tail, last)'
      BY <1>1, <2>2, <3>1, <3>2, AnchoredKept
    <3>4. Searched(d)' = h
      BY <1>3, <2>2, <2>4 DEF Searched
    <3>5. LeadsTo(d, Searched(d), Searched(d).tail)'
      <4>1. con'[d].p = p /\ con'[d].i = i
        BY <1>2
      <4>2. LeadsTo(d, h, h.tail)'
        BY <3>1, <3>3, <4>1 DEF LeadsTo, Slot, Base
      <4> QED BY <3>4, <4>2 DEF LeadsTo
    <3> QED BY <1>1, <1>3, <3>5 DEF SearchAt
  <2> QED BY <2>3, <2>4
<1>4. CASE con[d].at = "key"
  <2>1. PICK h : h = Searched(d)
    OBVIOUS
  <2>2. h \in Headers /\ h = producers[p].indices[con[d].h]
        /\ \A j \in DOMAIN h.index : h.index[j] \in DOMAIN producers[p].entries
    BY <1>4, <2>1, SearchedShape
  <2>3. PICK x : x = con[d].tail
    OBVIOUS
  <2>4. x \in DOMAIN h.index
    BY <1>1, <1>4, <2>1, <2>3 DEF SearchAt
  <2>5. PICK last \in Nat : Slot(last) = 0 /\ Base(i) <= last /\ Anchored(p, h, x, last)
    BY <1>1, <1>2, <1>4, <2>1, <2>3 DEF SearchAt, LeadsTo
  <2>6. IsBase(last)
    BY <2>5 DEF IsBase
  <2>7. Anchored(p, h, x, last)'
    BY <1>1, <2>2, <2>4, <2>5, <2>6, AnchoredKept
  <2>8. PICK g : g = producers'[p].indices[con[d].h]
    OBVIOUS
  <2>9. g.index = h.index /\ Searched(d)' = g
    BY <1>4, <2>2, <2>8 DEF Searched
  <2>10. Anchored(p, g, x, last)'
    BY <2>7, <2>9 DEF Anchored, CapacityOf
  <2>11. LeadsTo(d, Searched(d), con[d].tail)'
    <3>1. con'[d].p = p /\ con'[d].i = i /\ con'[d].tail = x
      BY <1>2, <2>3
    <3>2. LeadsTo(d, g, x)'
      BY <2>5, <2>10, <3>1 DEF LeadsTo, Slot, Base
    <3> QED BY <2>9, <3>1, <3>2 DEF LeadsTo
  <2>12. con'[d].tail \in DOMAIN Searched(d)'.index
    BY <2>3, <2>4, <2>9
  <2> QED BY <1>1, <1>4, <2>11, <2>12 DEF SearchAt
<1>5. CASE con[d].at \in {"move", "empty", "clear"}
  <2>1. PICK e : e = con[d].entry
    OBVIOUS
  <2>2. e \in DOMAIN producers[p].entries /\ KeyOf(p, e)' = Base(i)
    BY <1>1, <1>2, <1>5, <2>1 DEF SearchAt
  <2>3. con[d].at \in {"empty", "clear"} => ValueOf(p, e)' = con[d].b
    BY <1>1, <2>1 DEF SearchAt
  <2>4. con'[d].p = p /\ con'[d].i = i /\ con'[d].entry = e /\ con'[d].at = con[d].at
            /\ con'[d].b = con[d].b
    BY <1>2, <2>1
  <2> QED BY <1>5, <2>2, <2>3, <2>4 DEF SearchAt, KeyOf, ValueOf, Base, Slot
<1>6. CASE con[d].at \notin {"tail", "key", "move", "empty", "clear"}
  BY <1>6 DEF SearchAt
<1> QED BY <1>3, <1>4, <1>5, <1>6

\* What another producer leads to is as it was.
LEMMA OthersKept ==
  ASSUME TypeOK, NEW p \in DOMAIN producers, OnlyAt(p),
         \A q \in DOMAIN producers \ {p} : Doing(q)' = Doing(q)
  PROVE  \A q \in DOMAIN producers \ {p} :
           /\ ViewKept(q) /\ producers'[q].tailBlock = producers[q].tailBlock
           /\ producers'[q].head = producers[q].head
<1>1. ASSUME NEW q \in DOMAIN producers \ {p}
      PROVE  /\ ViewKept(q) /\ producers'[q].tailBlock = producers[q].tailBlock
             /\ producers'[q].head = producers[q].head
  <2>1. producers'[q] = producers[q] /\ Doing(q)' = Doing(q)
    BY DEF OnlyAt
  <2> QED BY <2>1 DEF ViewKept
<1> QED BY <1>1

\* Only the index of producer p has changed.
LEMMA IndexChange ==
  ASSUME TypeOK, IndexInv, Placed, NEW p \in DOMAIN producers, OnlyAt(p),
         \A q \in DOMAIN producers \ {p} : Doing(q)' = Doing(q),
         ShapeAt(p)', KeysAt(p)', AnchorAt(p)',
         \A d \in Consumers : SearchAt(d)' \/ (con'[d] = con[d] /\ con[d].p # p)
  PROVE  IndexInv'
<1>1. ASSUME NEW q \in DOMAIN producers PROVE ShapeAt(q)' /\ KeysAt(q)' /\ AnchorAt(q)'
  <2>1. CASE q # p
    <3>1. ViewKept(q)
      BY <2>1, OthersKept
    <3> QED BY <3>1, SameView DEF IndexInv, IndexShape, Keys, Anchors
  <2> QED BY <2>1
<1>2. ASSUME NEW d \in Consumers PROVE SearchAt(d)'
  <2>1. CASE con'[d] = con[d] /\ con[d].p # p
    <3>1. SearchAt(d) /\ (con[d].at \in {"tail", "key", "move", "empty", "clear"} =>
              con[d].p \in DOMAIN producers)
      BY DEF IndexInv, Searches, Placed, PlacedAt, AtProducer
    <3>2. con[d].at \in {"tail", "key", "move", "empty", "clear"} =>
           /\ producers'[con[d].p].indices = producers[con[d].p].indices
           /\ producers'[con[d].p].entries = producers[con[d].p].entries
      BY <2>1, <3>1 DEF OnlyAt
    <3> QED BY <2>1, <3>1, <3>2, SameSearch
  <2> QED BY <2>1
<1>3. DOMAIN producers' = DOMAIN producers
  BY DEF OnlyAt
<1>4. IndexShape' /\ Keys' /\ Anchors'
  BY <1>1, <1>3 DEF IndexShape, Keys, Anchors
<1>5. Searches'
  BY <1>2 DEF Searches
<1> QED BY <1>4, <1>5 DEF IndexInv

\* The entry of the block that is empty is in use until it is cleared.
LEMMA ClearFound ==
  ASSUME TypeOK, CountInv, IndexInv, BlockInv, NEW c \in Consumers, con[c].at = "clear",
         NEW p, p = con[c].p, NEW e, e = con[c].entry
  PROVE  /\ p \in DOMAIN producers /\ e \in Used(p) /\ e \in DOMAIN producers[p].entries
         /\ KeyOf(p, e) = Base(con[c].i) /\ ValueOf(p, e) = con[c].b
         /\ InUse(con[c].b) /\ con[c].b \in DOMAIN blocks /\ Left(p, KeyOf(p, e)) = {}
<1>1. p \in DOMAIN producers
  BY DEF CountInv, Placed, PlacedAt, AtProducer
<1>2. e \in DOMAIN producers[p].entries /\ KeyOf(p, e) = Base(con[c].i)
          /\ ValueOf(p, e) = con[c].b
  BY DEF IndexInv, Searches, SearchAt
<1>3. con[c].b # NoBlock /\ Left(p, Base(con[c].i)) = {}
  BY DEF BlockInv, Hands, HandAt
<1>4. e \in Used(p)
  BY <1>2, <1>3 DEF Used, ValueOf
<1>5. InUse(ValueOf(p, e)) /\ ValueOf(p, e) \in DOMAIN blocks
  BY <1>1, <1>4 DEF BlockInv, Ownership, EntriesOwn, InUse
<1> QED BY <1>1, <1>2, <1>3, <1>4, <1>5

\* The entry is cleared: no consumer needs it any more.
LEMMA ClearKeepsBlocks ==
  ASSUME TypeOK, CountInv, IndexInv, BlockInv, NEW c \in team, clearEntry(c)
  PROVE  IndexInv' /\ BlockInv'
<1>0. Placed /\ Searches /\ IndexShape
  BY DEF CountInv, IndexInv
<1>1. PICK p : p = con[c].p
  OBVIOUS
<1>2. PICK e : e = con[c].entry
  OBVIOUS
<1>3. PICK b : b = con[c].b
  OBVIOUS
<1>4. /\ TypeOK' /\ ConOnly(c) /\ UNCHANGED <<blocks, used, pool>>
      /\ c \in Consumers /\ con[c].at = "clear" /\ con'[c].at = "free" /\ con'[c].b = b
      /\ OnlyAt(p)
      /\ producers'[p].owner = producers[p].owner /\ producers'[p].tail = producers[p].tail
      /\ producers'[p].head = producers[p].head
      /\ producers'[p].tailBlock = producers[p].tailBlock
      /\ producers'[p].indices = producers[p].indices
      /\ DOMAIN producers'[p].entries = DOMAIN producers[p].entries
      /\ producers'[p].entries[e].value = NoBlock
      /\ producers'[p].entries[e].key = producers[p].entries[e].key
      /\ \A f \in DOMAIN producers[p].entries \ {e} :
             producers'[p].entries[f] = producers[p].entries[f]
  BY <1>0, <1>1, <1>2, <1>3, ClearEntryStep DEF from
<1>5. /\ p \in DOMAIN producers /\ e \in Used(p) /\ e \in DOMAIN producers[p].entries
      /\ ValueOf(p, e) = b /\ InUse(b) /\ b \in DOMAIN blocks /\ Left(p, KeyOf(p, e)) = {}
  <2>1. c \in Consumers /\ con[c].at = "clear"
    BY <1>4
  <2>2. /\ p \in DOMAIN producers /\ e \in Used(p) /\ e \in DOMAIN producers[p].entries
        /\ ValueOf(p, e) = con[c].b
    BY <1>1, <1>2, <2>1, ClearFound
  <2>3. InUse(con[c].b) /\ con[c].b \in DOMAIN blocks
    BY <1>1, <1>2, <2>1, ClearFound
  <2>4. Left(p, KeyOf(p, e)) = {}
    BY <1>1, <1>2, <2>1, ClearFound
  <2> QED BY <1>3, <2>2, <2>3, <2>4
<1>6. /\ \A f \in DOMAIN producers[p].entries : KeyOf(p, f)' = KeyOf(p, f)
      /\ \A f \in DOMAIN producers[p].entries \ {e} : ValueOf(p, f)' = ValueOf(p, f)
      /\ ValueOf(p, e)' = NoBlock
  BY <1>4 DEF KeyOf, ValueOf
<1>7. Used(p)' = Used(p) \ {e}
  BY <1>4, <1>5 DEF Used
<1>8. ASSUME NEW q \in DOMAIN producers PROVE Doing(q)' = Doing(q)
  <2>1. producers'[q].owner = producers[q].owner
    BY <1>4 DEF OnlyAt
  <2> QED BY <1>4, <2>1 DEF Doing, ConOnly
<1>9. /\ Current(p)' = Current(p) /\ TailEntry(p)' = TailEntry(p)
      /\ LastBase(p)' = LastBase(p) /\ OpenBase(p)' = OpenBase(p)
  BY <1>4, <1>5, <1>8 DEF Current, TailEntry, IndexOf, LastBase, OpenBase
<1>10. ShapeAt(p) /\ KeysAt(p) /\ AnchorAt(p)
  BY <1>0, <1>5 DEF IndexInv, IndexShape, Keys, Anchors
<1>11. ShapeAt(p)'
  <2>1. producers[p].indices # <<>> =>
          /\ Len(producers[p].indices) \in DOMAIN producers[p].indices
          /\ TailEntry(p) \in DOMAIN producers[p].entries
    <3>1. CASE producers[p].indices # <<>>
      BY <1>0, <1>5, <3>1, CurrentShape DEF TailEntry
    <3> QED BY <3>1
  <2>2. Doing(p) \in {"keyed", "requisition", "store"} =>
          /\ producers[p].indices # <<>> /\ Slot(producers[p].tail) = 0
          /\ KeyOf(p, TailEntry(p)) = producers[p].tail /\ ValueOf(p, TailEntry(p)) = NoBlock
    BY <1>10 DEF ShapeAt
  <2>3. Doing(p) \in {"keyed", "requisition", "store"} =>
          KeyOf(p, TailEntry(p))' = producers[p].tail /\ ValueOf(p, TailEntry(p))' = NoBlock
    <3>1. PICK x : x = TailEntry(p)
      OBVIOUS
    <3>2. TailEntry(p)' = x
      BY <1>9, <3>1
    <3>3. x \in DOMAIN producers[p].entries =>
              KeyOf(p, x)' = KeyOf(p, x)
                  /\ (ValueOf(p, x) = NoBlock => ValueOf(p, x)' = NoBlock)
      BY <1>6
    <3>4. KeyOf(p, TailEntry(p))' = KeyOf(p, x)' /\ ValueOf(p, TailEntry(p))' = ValueOf(p, x)'
      BY <3>2 DEF KeyOf, ValueOf
    <3> QED BY <2>1, <2>2, <3>1, <3>3, <3>4
  <2>4. Slot(producers[p].tail)' = Slot(producers[p].tail)
    BY <1>4 DEF Slot
  <2>5. producers[p].entries = <<>> => FALSE
    BY <1>5
  <2> QED BY <1>4, <1>5, <1>8, <1>10, <2>2, <2>3, <2>4, <2>5 DEF ShapeAt
<1>12. KeysAt(p)'
  <2>1. ASSUME NEW f \in DOMAIN producers[p].entries, KeyOf(p, f) # NoKey
        PROVE  /\ KeyOf(p, f) \in Nat /\ Slot(KeyOf(p, f)) = 0
               /\ KeyOf(p, f) <= producers[p].tail
               /\ KeyOf(p, f) = producers[p].tail => f = TailEntry(p)
               /\ \A g \in DOMAIN producers[p].entries : KeyOf(p, f) = KeyOf(p, g) => f = g
    BY <1>10, <2>1 DEF KeysAt
  <2>2. \A f \in Used(p) : KeyOf(p, f) # NoKey /\ KeyOf(p, f) <= OpenBase(p)
    BY <1>10 DEF KeysAt
  <2>3. \A f \in Used(p)' : f \in Used(p) /\ f \in DOMAIN producers[p].entries
    BY <1>7 DEF Used
  <2> QED BY <1>4, <1>6, <1>9, <2>1, <2>2, <2>3 DEF KeysAt, Slot
<1>13. AnchorAt(p)'
  <2>1. CASE producers[p].indices # <<>>
    <3>1. PICK h : h = Current(p)
      OBVIOUS
    <3>2. h \in Headers /\ h.tail \in DOMAIN h.index
          /\ \A j \in DOMAIN h.index : h.index[j] \in DOMAIN producers[p].entries
      BY <1>0, <1>5, <2>1, <3>1, CurrentHeader
    <3>3. PICK l : l = LastBase(p)
      OBVIOUS
    <3>4. IsBase(l) /\ Anchored(p, h, h.tail, l)
      BY <1>5, <1>10, <2>1, <3>1, <3>3, LastBases DEF AnchorAt
    <3>5. Used(p)' \subseteq Used(p)
      BY <1>7
    <3>6. Anchored(p, h, h.tail, l)'
      BY <1>5, <1>6, <1>10, <3>2, <3>4, <3>5, AnchoredKept
    <3>7. Current(p)' = h /\ LastBase(p)' = l
      BY <1>9, <3>1, <3>3
    <3> QED BY <3>6, <3>7 DEF AnchorAt, Anchored
  <2>2. CASE producers[p].indices = <<>>
    BY <1>4, <2>2 DEF AnchorAt
  <2> QED BY <2>1, <2>2
<1>14. ASSUME NEW d \in Consumers PROVE SearchAt(d)' \/ (con'[d] = con[d] /\ con[d].p # p)
  <2>1. CASE d = c
    BY <1>4, <2>1 DEF SearchAt
  <2>2. CASE d # c /\ con[d].p = p
    <3>1. con'[d] = con[d]
      BY <1>4, <2>2 DEF ConOnly
    <3>2. con[d].at \in {"empty", "clear"} => con[d].entry # e
      <4>1. CASE con[d].at = "clear"
        BY <1>1, <1>2, <1>4, <2>2, <4>1 DEF BlockInv, Hands, HandAt
      <4>2. CASE con[d].at = "empty"
        <5>1. con[d].at \in Holding
          BY <4>2 DEF Holding
        <5>2. Left(p, Base(con[d].i)) # {} /\ KeyOf(p, con[d].entry) = Base(con[d].i)
          BY <2>2, <4>2, <5>1, HeldEntry, EntryFound
        <5> QED BY <1>5, <5>2
      <4> QED BY <4>1, <4>2
    <3>3. con[d].at \in {"move", "empty", "clear"} =>
              con[d].entry \in DOMAIN producers[p].entries
      BY <1>0, <2>2 DEF Searches, SearchAt
    <3>4. con[d].at \in {"move", "empty", "clear"} =>
              KeyOf(p, con[d].entry)' = KeyOf(p, con[d].entry)
      <4>1. PICK x : x = con[d].entry
        OBVIOUS
      <4>2. x \in DOMAIN producers[p].entries => KeyOf(p, x)' = KeyOf(p, x)
        BY <1>6
      <4>3. KeyOf(p, con[d].entry)' = KeyOf(p, x)'
        BY <3>1, <4>1 DEF KeyOf
      <4> QED BY <3>3, <4>1, <4>2, <4>3
    <3>5. con[d].at \in {"empty", "clear"} =>
              ValueOf(p, con[d].entry)' = ValueOf(p, con[d].entry)
      <4>1. PICK x : x = con[d].entry
        OBVIOUS
      <4>2. x \in DOMAIN producers[p].entries \ {e} => ValueOf(p, x)' = ValueOf(p, x)
        BY <1>6
      <4>3. ValueOf(p, con[d].entry)' = ValueOf(p, x)'
        BY <3>1, <4>1 DEF ValueOf
      <4> QED BY <3>2, <3>3, <4>1, <4>2, <4>3
    <3>6. Used(p)' \subseteq Used(p)
      BY <1>7
    <3> QED BY <1>0, <1>4, <1>5, <1>6, <2>2, <3>1, <3>4, <3>5, <3>6, SearchKept
  <2>3. CASE d # c /\ con[d].p # p
    BY <1>4, <2>3 DEF ConOnly
  <2> QED BY <2>1, <2>2, <2>3
<1>15. IndexInv'
  BY <1>0, <1>4, <1>5, <1>8, <1>11, <1>12, <1>13, <1>14, IndexChange
<1>17. con[c].at \notin Holding /\ con'[c].at \notin Holding
           /\ \A d \in Consumers \ {c} : con'[d] = con[d]
  BY <1>4 DEF Holding, ConOnly
<1>18. ASSUME NEW q \in DOMAIN producers, NEW x PROVE Left(q, x)' = Left(q, x)
  <2>1. \A j : Held(q, j)' <=> Held(q, j)
    BY <1>17 DEF Held
  <2>2. producers'[q].head = producers[q].head
    BY <1>4 DEF OnlyAt
  <2> QED BY <2>1, <2>2 DEF Left
<1>19. Hands'
  <2>1. ASSUME NEW d \in Consumers PROVE HandAt(d)'
    <3>1. HandAt(d)
      BY DEF BlockInv, Hands
    <3>2. CASE d = c
      BY <1>4, <1>17, <3>2 DEF HandAt
    <3>3. CASE d # c /\ con[d].at \in Holding
      <4>1. con'[d] = con[d] /\ con[d].p \in DOMAIN producers /\ con[d].at # "clear"
        BY <1>0, <1>17, <3>3 DEF Placed, PlacedAt, AtProducer, Holding
      <4>2. PICK q : q = con[d].p
        OBVIOUS
      <4>3. producers'[q].head = producers[q].head
        BY <1>4, <4>1, <4>2 DEF OnlyAt
      <4>4. con'[d].i < producers'[con'[d].p].head
        BY <3>1, <3>3, <4>1, <4>2, <4>3 DEF HandAt
      <4>5. \A f \in Consumers : con'[f].at \in Holding /\ con'[f].p = con[d].p
                /\ con'[f].i = con[d].i => f = d
        BY <1>17, <3>1, <3>3 DEF HandAt
      <4> QED BY <4>1, <4>4, <4>5 DEF HandAt
    <3>4. CASE d # c /\ con[d].at = "clear"
      <4>1. con'[d] = con[d] /\ con[d].p \in DOMAIN producers /\ con[d].at \notin Holding
        BY <1>0, <1>17, <3>4 DEF Placed, PlacedAt, AtProducer, Holding
      <4>2. PICK q, x : q = con[d].p /\ x = Base(con[d].i)
        OBVIOUS
      <4>3. Left(q, x)' = {}
        <5>1. Left(q, x) = {}
          BY <3>1, <3>4, <4>2 DEF HandAt
        <5> QED BY <1>18, <4>1, <4>2, <5>1
      <4>4. Left(con[d].p, Base(con[d].i))' = {}
        <5>1. con'[d].p = q /\ Base(con[d].i)' = x
          BY <4>1, <4>2 DEF Base, Slot
        <5> QED BY <4>3, <5>1 DEF Left, Held
      <4>5. \A f \in Consumers : con'[f].at = "clear" /\ con'[f].p = con[d].p
                /\ con'[f].entry = con[d].entry => f = d
        BY <1>4, <1>17, <3>1, <3>4 DEF HandAt
      <4> QED BY <3>1, <3>4, <4>1, <4>4, <4>5 DEF HandAt
    <3>5. CASE d # c /\ con[d].at \notin Holding \union {"clear"}
      BY <1>17, <3>5 DEF HandAt
    <3> QED BY <3>2, <3>3, <3>4, <3>5
  <2> QED BY <2>1 DEF Hands
<1>20. ASSUME NEW q \in DOMAIN producers, q # p PROVE PlaceAt(q)'
  <2>1. ViewKept(q) /\ producers'[q].tailBlock = producers[q].tailBlock
    BY <1>4, <1>5, <1>8, <1>20, OthersKept
  <2>2. \A x : IsBase(x) => Left(q, x)' = Left(q, x)
    BY <1>18
  <2>3. \A f \in Used(q) : blocks'[ValueOf(q, f)].dequeued = blocks[ValueOf(q, f)].dequeued
    BY <1>4
  <2>4. PlaceAt(q) /\ KeysAt(q)
    BY DEF BlockInv, BlocksInPlace, IndexInv, Keys
  <2> QED BY <2>1, <2>2, <2>3, <2>4, PlaceFrame
<1>21. PlaceAt(p)'
  <2>1. PlaceAt(p)
    BY <1>5 DEF BlockInv, BlocksInPlace
  <2>2. PICK o : o = OpenBase(p)
    OBVIOUS
  <2>3. ASSUME NEW x \in 0 .. o, Slot(x) = 0, Left(p, x)' # {}
        PROVE \E f \in Used(p) : KeyOf(p, f) = x /\ f # e
    <3>1. Left(p, x) # {}
      BY <1>5, <1>18, <2>3
    <3>2. PICK f \in Used(p) : KeyOf(p, f) = x
      BY <2>1, <2>2, <2>3, <3>1 DEF PlaceAt
    <3>3. f # e
      BY <1>5, <3>1, <3>2
    <3> QED BY <3>2, <3>3
  <2>4. ASSUME NEW f \in Used(p), f # e
        PROVE  /\ blocks'[ValueOf(p, f)].dequeued + Cardinality(Left(p, KeyOf(p, f))')
                      = BlockSize
               /\ KeyOf(p, f) = o => ValueOf(p, f) = producers'[p].tailBlock
    <3>1. PICK k : k = KeyOf(p, f)
      OBVIOUS
    <3>2. KeyOf(p, f)' = k
      BY <1>6, <3>1 DEF Used
    <3>3. Left(p, KeyOf(p, f))' = Left(p, k)
      <4>1. Left(p, KeyOf(p, f))' = Left(p, k)'
        BY <3>2 DEF Left, Held
      <4> QED BY <1>5, <1>18, <4>1
    <3> QED BY <1>4, <2>1, <2>2, <3>1, <3>3 DEF PlaceAt
  <2>5. OpenBase(p)' = o
    BY <1>9, <2>2
  <2>6. ASSUME NEW f \in Used(p)'
        PROVE  f \in Used(p) /\ f # e /\ KeyOf(p, f)' = KeyOf(p, f)
                   /\ ValueOf(p, f)' = ValueOf(p, f)
    BY <1>6, <1>7 DEF Used
  <2>7. \A x \in 0 .. o : Slot(x)' = 0 /\ Left(p, x)' # {} =>
            \E f \in Used(p)' : KeyOf(p, f)' = x
    <3>1. ASSUME NEW x \in 0 .. o, Slot(x) = 0, Left(p, x)' # {}
          PROVE \E f \in Used(p)' : KeyOf(p, f)' = x
      <4>1. PICK f \in Used(p) : KeyOf(p, f) = x /\ f # e
        BY <2>3, <3>1
      <4>2. f \in Used(p)'
        BY <1>7, <4>1
      <4> QED BY <2>6, <4>1, <4>2
    <3> QED BY <3>1 DEF Slot
  <2>8. \A f \in Used(p)' :
          /\ blocks'[ValueOf(p, f)'].dequeued + Cardinality(Left(p, KeyOf(p, f))') = BlockSize
          /\ KeyOf(p, f)' = o => ValueOf(p, f)' = producers'[p].tailBlock
    BY <2>4, <2>6
  <2> QED BY <2>5, <2>7, <2>8 DEF PlaceAt
<1>22. DOMAIN producers' = DOMAIN producers
  BY <1>4 DEF OnlyAt
<1>23. BlocksInPlace'
  BY <1>20, <1>21, <1>22 DEF BlocksInPlace
<1>24. ASSUME NEW q \in DOMAIN producers, NEW f \in Used(q)'
       PROVE  /\ f \in Used(q) /\ ValueOf(q, f)' = ValueOf(q, f) /\ ValueOf(q, f) # b
  <2>1. CASE q = p
    <3>1. f \in Used(p) /\ f # e /\ f \in DOMAIN producers[p].entries
      BY <1>7, <1>24, <2>1 DEF Used
    <3>2. ValueOf(p, f) # b
      BY <1>5, <3>1 DEF BlockInv, Ownership, EntriesOwn
    <3> QED BY <1>6, <2>1, <3>1, <3>2
  <2>2. CASE q # p
    <3>1. producers'[q] = producers[q]
      BY <1>4, <2>2 DEF OnlyAt
    <3>2. f \in Used(q) /\ ValueOf(q, f)' = ValueOf(q, f)
      BY <1>24, <3>1 DEF Used, ValueOf
    <3>3. ValueOf(q, f) # b
      BY <1>5, <2>2, <3>2 DEF BlockInv, Ownership, EntriesOwn
    <3> QED BY <3>2, <3>3
  <2> QED BY <2>1, <2>2
<1>25. Ownership'
  <2>1. \A a : InUse(a)' <=> InUse(a)
    BY <1>4 DEF InUse
  <2>2. PoolOwns /\ EntriesOwn /\ ThreadsOwn /\ ConsumersOwn
    BY DEF BlockInv, Ownership
  <2>3. thr' = thr
    BY <1>4 DEF ConOnly
  <2>4. \A d \in Consumers : con'[d].at = "free" =>
            (d = c /\ con'[d].b = b) \/ (con[d].at = "free" /\ con'[d].b = con[d].b)
    BY <1>4, <1>17
  <2>5. PoolOwns'
    BY <1>4, <2>2 DEF PoolOwns
  <2>6. EntriesOwn'
    <3>1. ASSUME NEW q \in DOMAIN producers, NEW f \in Used(q)'
          PROVE  /\ InUse(ValueOf(q, f))
                 /\ \A r \in DOMAIN producers : \A g \in Used(r)' :
                        ValueOf(q, f) = ValueOf(r, g) => q = r /\ f = g
                 /\ \A t \in Threads : thr[t].at = "store" => thr[t].block # ValueOf(q, f)
                 /\ \A d \in Consumers : con'[d].at = "free" => con'[d].b # ValueOf(q, f)
      <4>1. f \in Used(q) /\ ValueOf(q, f) # b
        BY <1>24
      <4>2. \A r \in DOMAIN producers : \A g \in Used(r)' : g \in Used(r)
        BY <1>24
      <4> QED BY <2>2, <2>4, <4>1, <4>2 DEF EntriesOwn, Storing, Freeing
    <3> QED BY <1>22, <1>24, <2>1, <2>3, <3>1 DEF EntriesOwn, Storing, Freeing, InUse
  <2>7. ThreadsOwn'
    <3>1. ASSUME NEW t \in Threads, thr[t].at = "store"
          PROVE  \A d \in Consumers : con'[d].at = "free" => con'[d].b # thr[t].block
      <4>1. thr[t].block # b
        BY <1>5, <2>2, <3>1 DEF EntriesOwn, Storing
      <4> QED BY <2>2, <2>4, <3>1, <4>1 DEF ThreadsOwn, Storing, Freeing
    <3> QED BY <1>4, <2>1, <2>2, <2>3, <3>1 DEF ThreadsOwn, Storing, Freeing, InUse
  <2>8. ConsumersOwn'
    <3>1. \A d \in Consumers : con[d].at = "free" => con[d].b # b
      BY <1>5, <2>2 DEF EntriesOwn, Freeing
    <3>2. ASSUME NEW d \in Consumers, con'[d].at = "free"
          PROVE  InUse(con'[d].b) /\ \A f \in Consumers : con'[f].at = "free"
                     /\ con'[f].b = con'[d].b => f = d
      BY <1>5, <2>2, <2>4, <3>1, <3>2 DEF ConsumersOwn, Freeing
    <3> QED BY <2>1, <3>2 DEF ConsumersOwn, Freeing, InUse
  <2> QED BY <2>5, <2>6, <2>7, <2>8 DEF Ownership
<1> QED BY <1>15, <1>19, <1>23, <1>25 DEF BlockInv

\* Nothing is taken, stored or left: what is left lies where it lay.
LEMMA StaysInPlace ==
  ASSUME TypeOK, Keys, BlockInv, Placed, DOMAIN producers' = DOMAIN producers,
         \A p \in DOMAIN producers :
           /\ ViewKept(p) /\ producers'[p].head = producers[p].head
           /\ producers'[p].tailBlock = producers[p].tailBlock,
         \A p \in DOMAIN producers : \A e \in Used(p) :
           blocks'[ValueOf(p, e)].dequeued = blocks[ValueOf(p, e)].dequeued,
         \A c \in Consumers : HandKept(c)
  PROVE  Hands' /\ BlocksInPlace'
<1>1. Hands'
  BY HandsFrame
<1>2. ASSUME NEW p \in DOMAIN producers PROVE PlaceAt(p)'
  <2>1. \A base : Left(p, base)' = Left(p, base)
    BY SameLeft
  <2>2. PlaceAt(p) /\ KeysAt(p)
    BY DEF BlockInv, BlocksInPlace, Keys
  <2> QED BY <2>1, <2>2, PlaceFrame
<1> QED BY <1>1, <1>2 DEF BlocksInPlace

\* The block goes to the free list, and no one else has it.
LEMMA FreeKeepsBlocks ==
  ASSUME TypeOK, CountInv, IndexInv, BlockInv, NEW c \in team, freeBlock(c)
  PROVE  IndexInv' /\ BlockInv'
<1>0. Placed /\ Keys
  BY DEF CountInv, IndexInv
<1>1. PICK b : b = con[c].b
  OBVIOUS
<1>2. /\ ConOnly(c) /\ UNCHANGED <<producers, blocks, used>>
      /\ c \in Consumers /\ con[c].at = "free" /\ con'[c] = AtRest /\ pool' = pool \union {b}
  BY <1>0, <1>1, FreeBlockStep
<1>3. con'[c].at = "idle" /\ \A d \in Consumers \ {c} : con'[d] = con[d]
  BY <1>2, RestFields DEF ConOnly
<1>4. ASSUME NEW p \in DOMAIN producers PROVE ViewKept(p)
  <2>1. Doing(p)' = Doing(p)
    BY <1>2 DEF Doing, ConOnly
  <2> QED BY <1>2, <2>1 DEF ViewKept
<1>5. IndexInv'
  <2>1. SearchAt(c)'
    BY <1>3 DEF SearchAt
  <2>2. \A d \in Consumers : con'[d] = con[d] \/ SearchAt(d)'
    BY <1>3, <2>1
  <2> QED BY <1>0, <1>2, <1>4, <2>2, IndexFrame
<1>6. ASSUME NEW d \in Consumers PROVE HandKept(d)
  <2>1. CASE d = c
    BY <1>2, <1>3, <2>1 DEF HandKept, Holding
  <2>2. CASE d # c
    BY <1>3, <2>2 DEF HandKept
  <2> QED BY <2>1, <2>2
<1>7. Hands' /\ BlocksInPlace'
  BY <1>0, <1>2, <1>4, <1>6, StaysInPlace
<1>8. PoolOwns /\ EntriesOwn /\ ThreadsOwn /\ ConsumersOwn
  BY DEF BlockInv, Ownership
<1>9. InUse(b)
  BY <1>1, <1>2, <1>8 DEF ConsumersOwn, Freeing
<1>10. \A a : InUse(a) /\ a # b => InUse(a)'
  BY <1>2 DEF InUse
<1>11. PoolOwns'
  BY <1>2, <1>8, <1>9 DEF PoolOwns, InUse
<1>12. EntriesOwn'
  <2>1. ASSUME NEW p \in DOMAIN producers, NEW e \in Used(p)
        PROVE  /\ InUse(ValueOf(p, e))'
               /\ \A d \in Consumers : con'[d].at = "free" => con'[d].b # ValueOf(p, e)
    <3>1. InUse(ValueOf(p, e)) /\ ValueOf(p, e) # b
      BY <1>1, <1>2, <1>8 DEF EntriesOwn, Freeing
    <3>2. ValueOf(p, e)' = ValueOf(p, e)
      BY <1>2 DEF ValueOf
    <3>3. PICK v : v = ValueOf(p, e)
      OBVIOUS
    <3>4. InUse(v)'
      BY <1>10, <3>1, <3>3
    <3> QED BY <1>3, <1>8, <3>2, <3>3, <3>4 DEF EntriesOwn, Freeing, InUse
  <2>2. \A p \in DOMAIN producers : Used(p)' = Used(p) /\ \A e : ValueOf(p, e)' = ValueOf(p, e)
    BY <1>2 DEF Used, ValueOf
  <2>3. producers' = producers /\ thr' = thr
    BY <1>2 DEF ConOnly
  <2> QED BY <1>8, <2>1, <2>2, <2>3 DEF EntriesOwn, Storing, Freeing
<1>13. ThreadsOwn'
  <2>1. thr' = thr /\ blocks' = blocks
    BY <1>2 DEF ConOnly
  <2>2. ASSUME NEW t \in Threads, thr[t].at = "store"
        PROVE  InUse(thr[t].block) /\ thr[t].block # b
    BY <1>1, <1>2, <1>8, <2>2 DEF ThreadsOwn, Storing, Freeing
  <2>3. ASSUME NEW t \in Threads, thr[t].at = "store"
        PROVE  InUse(thr[t].block)'
    <3>1. PICK v : v = thr[t].block
      OBVIOUS
    <3>2. InUse(v)'
      BY <1>10, <2>2, <2>3, <3>1
    <3> QED BY <2>1, <3>1, <3>2 DEF InUse
  <2> QED BY <1>3, <1>8, <2>1, <2>2, <2>3 DEF ThreadsOwn, Storing, Freeing
<1>14. ConsumersOwn'
  <2>1. ASSUME NEW d \in Consumers, con'[d].at = "free"
        PROVE  (\E v : v = con'[d].b /\ InUse(v)')
               /\ \A f \in Consumers : con'[f].at = "free" /\ con'[f].b = con'[d].b => f = d
    <3>1. d # c /\ con[d].at = "free" /\ con'[d] = con[d]
      BY <1>3, <2>1
    <3>2. InUse(con[d].b) /\ con[d].b # b
      BY <1>1, <1>2, <1>8, <3>1 DEF ConsumersOwn, Freeing
    <3>3. PICK v : v = con[d].b
      OBVIOUS
    <3>4. InUse(v)'
      BY <1>10, <3>2, <3>3
    <3> QED BY <1>3, <1>8, <3>1, <3>3, <3>4 DEF ConsumersOwn, Freeing
  <2> QED BY <2>1 DEF ConsumersOwn, Freeing, InUse
<1> QED BY <1>5, <1>7, <1>11, <1>12, <1>13, <1>14 DEF BlockInv, Ownership

\* The block that is had for a new entry was no one's.
LEMMA RequisitionKeepsBlocks ==
  ASSUME TypeOK, HashInv, CountInv, IndexInv, BlockInv, NEW t \in Threads, requisition_block(t)
  PROVE  IndexInv' /\ BlockInv'
<1>0. Placed /\ Keys /\ Ownership /\ ThreadsSound
  BY DEF CountInv, IndexInv, BlockInv, HashInv
<1>1. /\ ThrOnly(t) /\ UNCHANGED producers
      /\ thr[t].at = "requisition" /\ thr'[t].at = "store"
      /\ FromInitialPool(thr'[t].block) \/ FromFreeList(thr'[t].block)
             \/ FromHeap(thr'[t].block)
  BY <1>0, RequisitionStep
<1>2. PICK b : b = thr'[t].block
  OBVIOUS
<1>3. con' = con /\ \A u \in Threads \ {t} : thr'[u] = thr[u]
  BY <1>1 DEF ThrOnly
<1>4. PoolOwns /\ EntriesOwn /\ ThreadsOwn /\ ConsumersOwn
  BY <1>0 DEF Ownership
<1>5. /\ Len(blocks) \in Nat /\ DOMAIN blocks = 1 .. Len(blocks) /\ used \in Nat
      /\ PoolSize \in Nat
      /\ used <= PoolSize /\ PoolSize <= Len(blocks)
  BY <1>4, QueueConstants DEF TypeOK, PoolOwns
<1>6. /\ \A a : InUse(a) => InUse(a)' /\ a # b /\ blocks'[a].dequeued = blocks[a].dequeued
      /\ InUse(b)' /\ blocks'[b].dequeued = 0 /\ PoolOwns'
  <2>1. CASE FromInitialPool(b)
    <3>1. used < PoolSize /\ b = used + 1 /\ used' = used + 1 /\ blocks' = blocks
              /\ pool' = pool
      BY <2>1 DEF FromInitialPool
    <3>2. b \in used + 1 .. PoolSize /\ b \in DOMAIN blocks /\ b \notin used' + 1 .. PoolSize
      BY <1>5, <3>1
    <3>3. used' + 1 .. PoolSize \subseteq used + 1 .. PoolSize
      BY <1>5, <3>1
    <3>4. InUse(b)' /\ blocks'[b].dequeued = 0 /\ b \notin pool
      BY <1>4, <3>1, <3>2 DEF InUse, PoolOwns
    <3>5. used' <= PoolSize
      BY <1>5, <3>1
    <3>6. PoolOwns'
      BY <1>4, <3>1, <3>3, <3>5 DEF PoolOwns
    <3>7. \A a : InUse(a) => InUse(a)' /\ a # b /\ blocks'[a].dequeued = blocks[a].dequeued
      BY <3>1, <3>2, <3>3 DEF InUse
    <3> QED BY <3>4, <3>6, <3>7
  <2>2. CASE FromFreeList(b)
    <3>1. /\ b \in pool /\ pool' = pool \ {b} /\ used' = used
          /\ b \in DOMAIN blocks /\ Len(blocks') = Len(blocks) /\ DOMAIN blocks' = DOMAIN blocks
          /\ blocks'[b].dequeued = 0 /\ \A d \in DOMAIN blocks \ {b} : blocks'[d] = blocks[d]
      BY <2>2 DEF FromFreeList
    <3>2. b \notin used + 1 .. PoolSize
      BY <1>4, <3>1 DEF PoolOwns
    <3>3. used + 1 .. PoolSize \subseteq DOMAIN blocks
      BY <1>5
    <3>4. \A a \in used + 1 .. PoolSize : blocks'[a].dequeued = 0
      BY <1>4, <3>1, <3>2, <3>3 DEF PoolOwns
    <3>5. PoolOwns'
      BY <1>4, <3>1, <3>4 DEF PoolOwns
    <3>6. InUse(b)'
      BY <3>1, <3>2 DEF InUse
    <3>7. \A a : InUse(a) => InUse(a)' /\ a # b /\ blocks'[a].dequeued = blocks[a].dequeued
      BY <3>1 DEF InUse
    <3> QED BY <3>1, <3>5, <3>6, <3>7
  <2>3. CASE FromHeap(b)
    <3>1. /\ b = Len(blocks) + 1 /\ used' = used /\ pool' = pool
          /\ Len(blocks') = Len(blocks) + 1 /\ b \in DOMAIN blocks' /\ b \notin DOMAIN blocks
          /\ blocks'[b].dequeued = 0
          /\ \A d \in DOMAIN blocks : d \in DOMAIN blocks' /\ blocks'[d] = blocks[d]
      BY <2>3 DEF FromHeap
    <3>2. b \notin used + 1 .. PoolSize /\ used + 1 .. PoolSize \subseteq DOMAIN blocks
              /\ PoolSize <= Len(blocks')
      BY <1>5, <3>1
    <3>3. b \notin pool
      BY <1>4, <3>1 DEF PoolOwns
    <3>4. PoolOwns'
      BY <1>4, <3>1, <3>2 DEF PoolOwns
    <3>5. InUse(b)'
      BY <3>1, <3>2, <3>3 DEF InUse
    <3>6. \A a : InUse(a) => InUse(a)' /\ a # b /\ blocks'[a].dequeued = blocks[a].dequeued
      BY <3>1 DEF InUse
    <3> QED BY <3>1, <3>4, <3>5, <3>6
  <2> QED BY <1>1, <1>2, <2>1, <2>2, <2>3
<1>7. ASSUME NEW p \in DOMAIN producers PROVE ViewKept(p)
  <2>1. PICK o : o = producers[p].owner
    OBVIOUS
  <2>2. o \in Threads
    BY <2>1, ProducerTyped
  <2>3. Doing(p)' = thr'[o].at /\ Doing(p) = thr[o].at
    BY <1>1, <2>1 DEF Doing
  <2>4. CASE o = t
    BY <1>1, <2>3, <2>4 DEF ViewKept, Filling
  <2>5. CASE o # t
    BY <1>1, <1>3, <2>2, <2>3, <2>5 DEF ViewKept
  <2> QED BY <2>4, <2>5
<1>8. IndexInv'
  BY <1>0, <1>1, <1>3, <1>7, IndexFrame
<1>9. \A c \in Consumers : HandKept(c)
  BY <1>3 DEF HandKept
<1>10. \A p \in DOMAIN producers : \A e \in Used(p) : InUse(ValueOf(p, e))
  BY <1>4 DEF EntriesOwn
<1>11. \A p \in DOMAIN producers : \A e \in Used(p) :
           blocks'[ValueOf(p, e)].dequeued = blocks[ValueOf(p, e)].dequeued
  BY <1>6, <1>10
<1>12. Hands' /\ BlocksInPlace'
  BY <1>0, <1>1, <1>7, <1>9, <1>11, StaysInPlace
<1>13. \A p \in DOMAIN producers : Used(p)' = Used(p) /\ \A e : ValueOf(p, e)' = ValueOf(p, e)
  BY <1>1 DEF Used, ValueOf
<1>14. EntriesOwn'
  <2>1. ASSUME NEW p \in DOMAIN producers, NEW e \in Used(p)
        PROVE  /\ InUse(ValueOf(p, e))'
               /\ \A u \in Threads : thr'[u].at = "store" => thr'[u].block # ValueOf(p, e)
    <3>1. PICK v : v = ValueOf(p, e)
      OBVIOUS
    <3>2. InUse(v)' /\ v # b
      BY <1>6, <1>10, <3>1
    <3>3. ValueOf(p, e)' = v
      BY <1>13, <3>1
    <3>4. \A u \in Threads : thr'[u].at = "store" => thr'[u].block # v
      BY <1>2, <1>3, <1>4, <3>1, <3>2 DEF EntriesOwn, Storing
    <3> QED BY <3>1, <3>2, <3>3, <3>4 DEF InUse
  <2> QED BY <1>1, <1>3, <1>4, <1>13, <2>1 DEF EntriesOwn, Storing, Freeing
<1>15. ThreadsOwn'
  <2>1. ASSUME NEW u \in Threads, thr'[u].at = "store"
        PROVE  /\ InUse(thr[u].block)' \/ u = t
               /\ u = t \/ (thr[u].at = "store" /\ thr'[u] = thr[u] /\ thr[u].block # b
                      /\ InUse(thr[u].block)
                            /\ blocks[thr[u].block].dequeued = 0
                            /\ blocks'[thr[u].block].dequeued = 0)
    <3>1. CASE u # t
      <4>1. thr[u].at = "store" /\ thr'[u] = thr[u]
        BY <1>3, <2>1, <3>1
      <4>2. PICK v : v = thr[u].block
        OBVIOUS
      <4>3. InUse(v) /\ blocks[v].dequeued = 0
        BY <1>4, <4>1, <4>2 DEF ThreadsOwn, Storing
      <4>4. InUse(v)' /\ v # b /\ blocks'[v].dequeued = 0
        BY <1>6, <4>3
      <4>5. thr'[u].block = v
        BY <4>1, <4>2
      <4> QED BY <4>1, <4>2, <4>3, <4>4, <4>5 DEF InUse
    <3> QED BY <3>1
  <2>2. ASSUME NEW u \in Threads, thr'[u].at = "store"
        PROVE  \E v : v = thr'[u].block /\ InUse(v)' /\ blocks'[v].dequeued = 0
    <3>1. CASE u = t
      <4>1. thr'[u].block = b
        BY <1>2, <3>1
      <4> QED BY <1>6, <4>1
    <3>2. CASE u # t
      <4>1. PICK v : v = thr[u].block
        OBVIOUS
      <4>2. thr'[u].block = v /\ InUse(v) /\ blocks'[v].dequeued = 0
        BY <2>1, <2>2, <3>2, <4>1
      <4>3. InUse(v)'
        BY <1>6, <4>2
      <4> QED BY <4>2, <4>3
    <3> QED BY <3>1, <3>2
  <2>3. ASSUME NEW u \in Threads, thr'[u].at = "store"
        PROVE  /\ \A w \in Threads : thr'[w].at = "store" /\ thr'[w].block = thr'[u].block =>
                      w = u
               /\ \A c \in Consumers : con[c].at = "free" => con[c].b # thr'[u].block
    <3>1. \A c \in Consumers : con[c].at = "free" => con[c].b # b
      BY <1>4, <1>6 DEF ConsumersOwn, Freeing
    <3>2. CASE u = t
      BY <1>2, <1>3, <2>1, <3>1, <3>2
    <3>3. CASE u # t
      BY <1>2, <1>3, <1>4, <2>1, <2>3, <3>3 DEF ThreadsOwn, Storing, Freeing
    <3> QED BY <3>2, <3>3
  <2> QED BY <1>3, <2>2, <2>3 DEF ThreadsOwn, Storing, Freeing, InUse
<1>16. ConsumersOwn'
  <2>1. ASSUME NEW c \in Consumers, con[c].at = "free" PROVE InUse(con[c].b)'
    <3>1. PICK v : v = con[c].b
      OBVIOUS
    <3>2. InUse(v)'
      BY <1>4, <1>6, <2>1, <3>1 DEF ConsumersOwn, Freeing
    <3> QED BY <1>3, <3>1, <3>2 DEF InUse
  <2> QED BY <1>3, <1>4, <2>1 DEF ConsumersOwn, Freeing
<1> QED BY <1>6, <1>8, <1>12, <1>14, <1>15, <1>16 DEF BlockInv, Ownership
=============================================================================
