-------------------------- MODULE MpmcQueueProofs --------------------------
(***************************************************************************)
(* Theorems about MpmcQueue, for any threads, values, size of the ring     *)
(* above one (a power of two or not) and number of tickets.                *)
(***************************************************************************)
EXTENDS MpmcQueue, TLAPS

-----------------------------------------------------------------------------
(* The cells of the tickets.                                               *)

\* Division and remainder by the size of the buffer.
LEMMA DivMod ==
  \A k \in Nat : k \div Size \in Nat /\ k = Size * (k \div Size) + (k % Size)
BY QueueConstants

\* A ticket has a cell of the buffer.
LEMMA CellType == \A k \in Nat : Cell(k) \in Cells
BY QueueConstants DEF Cell, Cells

\* A lap is at least Size tickets.
LEMMA LapLength ==
  ASSUME NEW p \in Nat, NEW q \in Nat, p < q
  PROVE  Size * p + Size <= Size * q
<1>1. q - p - 1 \in Nat /\ Size \in Nat
  BY QueueConstants
<1>2. \A x, y \in Nat : x * y >= 0
  OBVIOUS
<1>3. Size * (q - p - 1) >= 0
  BY <1>1, <1>2
<1>4. Size * (q - p - 1) = Size * q - Size * p - Size
  BY <1>1
<1> QED BY <1>3, <1>4, QueueConstants

\* A ticket is in one lap, at one place.
LEMMA OnePlace ==
  ASSUME NEW p \in Nat, NEW q \in Nat, NEW r \in Nat, NEW s \in Nat,
         r < Size, s < Size, Size * p + r = Size * q + s
  PROVE  r = s
<1> DEFINE a == Size * p
           b == Size * q
<1>1. a \in Nat /\ b \in Nat /\ a + r = b + s
  BY QueueConstants
<1>2. ~ (p < q)
  <2>1. p < q => a + Size <= b
    BY LapLength
  <2> HIDE DEF a, b
  <2> QED BY <1>1, <2>1, QueueConstants
<1>3. ~ (q < p)
  <2>1. q < p => b + Size <= a
    BY LapLength
  <2> HIDE DEF a, b
  <2> QED BY <1>1, <2>1, QueueConstants
<1> QED BY <1>1, <1>2, <1>3

\* Tickets one apart have different cells, as Size > 1.
LEMMA CellNext ==
  ASSUME NEW k \in Nat
  PROVE  Cell(k + 1) # Cell(k)
<1> SUFFICES ASSUME Cell(k + 1) = Cell(k)
             PROVE  FALSE
  OBVIOUS
<1> DEFINE p == k \div Size
           q == (k + 1) \div Size
<1>1. p \in Nat /\ q \in Nat /\ Size * p \in Nat /\ Size * q \in Nat
  BY QueueConstants
<1>2. k = Size * p + Cell(k) /\ k + 1 = Size * q + Cell(k) /\ Cell(k) \in Nat
  BY DivMod, CellType DEF Cell, Cells
<1> HIDE DEF p, q
<1>3. Size * p + 1 = Size * q + 0
  BY <1>1, <1>2
<1>4. 1 < Size /\ 0 < Size /\ 1 \in Nat /\ 0 \in Nat
  BY QueueConstants
<1> QED BY <1>1, <1>3, <1>4, OnePlace

\* Tickets a lap apart have one cell.
LEMMA CellLap ==
  ASSUME NEW k \in Nat
  PROVE  Cell(k + Size) = Cell(k)
<1> DEFINE p == k \div Size
           q == (k + Size) \div Size
<1>1. /\ p \in Nat /\ Size * p \in Nat /\ q \in Nat
      /\ k = Size * p + Cell(k) /\ Cell(k) \in Nat /\ Cell(k) < Size
      /\ k + Size = Size * q + Cell(k + Size)
      /\ Cell(k + Size) \in Nat /\ Cell(k + Size) < Size
  BY DivMod, CellType, QueueConstants DEF Cell, Cells
<1> HIDE DEF p, q
<1>2. Size * q + Cell(k + Size) = Size * (p + 1) + Cell(k)
  BY <1>1, QueueConstants
<1>3. p + 1 \in Nat
  BY <1>1
<1> QED BY <1>1, <1>2, <1>3, OnePlace

\* The first tickets, those below the size, have the cell of their number.
LEMMA CellFirst == \A k \in Cells : Cell(k) = k
BY QueueConstants DEF Cell, Cells

\* The number a thread waits for tells its operation and, in a cell, its
\* ticket: what a thread leaves in its cell is awaited by none of those at work.
LEMMA AwaitedOnce ==
  ASSUME NEW o \in Ops, NEW p \in Ops, NEW j \in Nat, NEW k \in Nat,
         Cell(j) = Cell(k), Awaited(o, j) = Awaited(p, k)
  PROVE  o = p /\ j = k
<1>1. CASE o = p
  BY <1>1 DEF Awaited
<1>2. CASE o = "push" /\ p = "pop"
  <2>1. j = k + 1
    BY <1>2 DEF Awaited
  <2> QED BY <2>1, CellNext
<1>3. CASE o = "pop" /\ p = "push"
  <2>1. k = j + 1
    BY <1>3 DEF Awaited
  <2> QED BY <2>1, CellNext
<1> QED BY <1>1, <1>2, <1>3 DEF Ops

-----------------------------------------------------------------------------
(* The inductive invariant.                                                *)

Working(t) == pc[t] \in {"copy", "leave"}

\* A ticket is behind the position it was claimed from, and is one thread's.
TicketsClaimed ==
  /\ \A t \in Threads : Working(t) => pos[t] < next[op[t]]
  /\ \A t, u \in Threads :
       t # u /\ Working(t) /\ Working(u) /\ op[t] = op[u] => pos[t] # pos[u]

\* The cell of a ticket waits for its holder.
CellsWait ==
  \A t \in Threads : Working(t) => sequence[Cell(pos[t])] = Awaited(op[t], pos[t])

\* What a thread found in a cell still holds as long as its compare-and-swap
\* can succeed.
ClaimsReady ==
  \A t \in Threads :
    /\ pos[t] <= next[op[t]]
    /\ pc[t] = "claim" /\ Current(t) => sequence[Cell(pos[t])] = Awaited(op[t], pos[t])

\* A push works for the item recorded, and has stored it when it leaves.
PushesStore ==
  \A t \in Threads :
    Working(t) /\ op[t] = "push" =>
      /\ pushed[pos[t] + 1] = item[t]
      /\ pc[t] = "leave" => data[Cell(pos[t])] = item[t]

\* A cell whose number is that of a completed push has what was pushed.
CellsFilled ==
  \A i \in Cells :
    sequence[i] > 0 /\ Cell(sequence[i] - 1) = i =>
      sequence[i] <= next["push"] /\ data[i] = pushed[sequence[i]]

\* The number of a cell is no less than what the tickets no longer held left.
TicketsLeft ==
  /\ \A i \in Cells : sequence[i] >= i
  /\ \A o \in Ops : \A k \in 0 .. next[o] - 1 :
       (\E t \in Threads : Holds(t, o, k)) \/ sequence[Cell(k)] >= Left(o, k)

IInv ==
  /\ TypeOK
  /\ TicketsClaimed
  /\ CellsWait
  /\ ClaimsReady
  /\ PushesStore
  /\ CellsFilled
  /\ TicketsLeft
  /\ PopsWhatWasPushed

\* The invariant holds of the constructed queue.
LEMMA InitIInv == Init => IInv
<1> SUFFICES ASSUME Init PROVE IInv
  OBVIOUS
<1>1. TypeOK
  <2>1. pushed = <<>> /\ <<>> \in Seq(Values) /\ Len(<<>>) = 0
    BY DEF Init
  <2> QED BY <2>1, QueueConstants DEF Init, TypeOK, Cells, Ops
<1>2. TicketsClaimed /\ CellsWait /\ ClaimsReady /\ PushesStore
  BY DEF Init, TicketsClaimed, CellsWait, ClaimsReady, PushesStore, Working, Ops
<1>3. CellsFilled
  <2> SUFFICES ASSUME NEW i \in Cells, i > 0, Cell(i - 1) = i
               PROVE  FALSE
    BY DEF Init, CellsFilled
  <2>1. i - 1 \in Nat /\ (i - 1) + 1 = i
    BY QueueConstants DEF Cells
  <2> QED BY <2>1, CellNext, CellFirst
<1>4. TicketsLeft
  <2>1. \A o \in Ops : next[o] = 0
    BY DEF Init
  <2> QED BY <2>1, QueueConstants DEF Init, TicketsLeft, Cells
<1>5. PopsWhatWasPushed
  BY DEF Init, PopsWhatWasPushed
<1> QED BY <1>1, <1>2, <1>3, <1>4, <1>5 DEF IInv

\* The two lemmas the proofs of the steps share: what is at work stays apart.
LEMMA WorkersApart ==
  ASSUME TypeOK, TicketsClaimed, CellsWait
  PROVE  CellExclusive
<1> SUFFICES ASSUME NEW t \in Threads, NEW u \in Threads, t # u,
                    Working(t), Working(u), Cell(pos[t]) = Cell(pos[u])
             PROVE  FALSE
  BY DEF CellExclusive, Working
<1>1. Awaited(op[t], pos[t]) = Awaited(op[u], pos[u])
  BY DEF CellsWait
<1>2. op[t] \in Ops /\ op[u] \in Ops /\ pos[t] \in Nat /\ pos[u] \in Nat
  BY DEF TypeOK
<1>3. op[t] = op[u] /\ pos[t] = pos[u]
  BY <1>1, <1>2, AwaitedOnce
<1> QED BY <1>3 DEF TicketsClaimed

\* A step that touches nothing but the locals of a thread without a ticket.
LEMMA LocalStep ==
  ASSUME IInv, TypeOK', NEW t \in Threads,
         UNCHANGED <<sequence, data, next, pushed, popped>>,
         \A u \in Threads \ {t} : /\ pc'[u] = pc[u] /\ op'[u] = op[u]
                                  /\ pos'[u] = pos[u] /\ item'[u] = item[u],
         ~ Working(t), ~ Working(t)',
         pos'[t] <= next[op'[t]],
         pc'[t] = "claim" => sequence[Cell(pos'[t])] = Awaited(op'[t], pos'[t])
  PROVE  IInv'
<1>1. TicketsClaimed'
  BY DEF IInv, TicketsClaimed, Working
<1>2. CellsWait'
  BY DEF IInv, CellsWait, Working
<1>3. ClaimsReady'
  BY DEF IInv, ClaimsReady, Current
<1>4. PushesStore'
  BY DEF IInv, PushesStore, Working
<1>5. CellsFilled' /\ PopsWhatWasPushed'
  BY DEF IInv, CellsFilled, PopsWhatWasPushed
<1>6. TicketsLeft'
  BY DEF IInv, TicketsLeft, Holds, Working
<1> QED BY <1>1, <1>2, <1>3, <1>4, <1>5, <1>6 DEF IInv

\* A call begins: nothing shared has changed.
LEMMA CallStep ==
  ASSUME IInv, NEW t \in Threads, NEW o \in Ops, NEW v \in Values \union {None},
         o = "push" => v \in Values, Call(t, o, v)
  PROVE  IInv'
<1>1. TypeOK'
  BY DEF IInv, TypeOK, Call
<1>2. pos'[t] <= next[op'[t]] /\ pc'[t] = "test" /\ ~ Working(t)
  BY DEF IInv, TypeOK, Call, Working
<1> QED BY <1>1, <1>2, LocalStep DEF IInv, TypeOK, Call, Working

\* The sequence of the cell is compared with the ticket that was loaded.
LEMMA TestStep ==
  ASSUME IInv, NEW t \in Threads, Test(t)
  PROVE  IInv'
<1> DEFINE dif == sequence[Cell(pos[t])] - Awaited(op[t], pos[t])
<1>1. /\ pos[t] \in Nat /\ op[t] \in Ops /\ Awaited(op[t], pos[t]) \in Nat
      /\ sequence[Cell(pos[t])] \in Nat
  BY CellType DEF IInv, TypeOK, Awaited
<1>2. CASE dif < 0
  <2>1. Return(t) /\ UNCHANGED <<sequence, data, next, pushed, popped>> /\ ~ Working(t)
    BY <1>2 DEF Test, Working
  <2>2. TypeOK'
    BY <2>1 DEF IInv, TypeOK, Return, Ops
  <2>3. pos'[t] <= next[op'[t]] /\ pc'[t] = "idle" /\ ~ Working(t)'
    BY <2>1 DEF IInv, TypeOK, Return, Working, Ops
  <2> QED BY <2>1, <2>2, <2>3, LocalStep DEF IInv, TypeOK, Return
<1>3. CASE ~ (dif < 0)
  <2>1. /\ pc' = [pc EXCEPT ![t] = IF dif = 0 THEN "claim" ELSE "reload"]
        /\ UNCHANGED <<sequence, data, next, pushed, popped, op, pos, item>>
        /\ ~ Working(t)
    BY <1>3 DEF Test, Working
  <2>2. TypeOK'
    BY <2>1 DEF IInv, TypeOK
  <2>3. pos'[t] <= next[op'[t]] /\ ~ Working(t)'
    BY <2>1 DEF IInv, TypeOK, ClaimsReady, Working
  <2>4. pc'[t] = "claim" => sequence[Cell(pos'[t])] = Awaited(op'[t], pos'[t])
    BY <1>1, <2>1 DEF IInv, TypeOK
  <2> QED BY <2>1, <2>2, <2>3, <2>4, LocalStep DEF IInv, TypeOK
<1> QED BY <1>2, <1>3

\* A position that is loaded anew.
LEMMA ReloadStep ==
  ASSUME IInv, NEW t \in Threads, Reload(t) \/ ClaimFails(t)
  PROVE  IInv'
<1>1. /\ pos' = [pos EXCEPT ![t] = next[op[t]]]
      /\ pc' = [pc EXCEPT ![t] = "test"]
      /\ UNCHANGED <<sequence, data, next, op, item, pushed, popped>>
      /\ ~ Working(t)
  BY DEF Reload, ClaimFails, Working
<1>2. TypeOK'
  BY <1>1 DEF IInv, TypeOK
<1>3. pos'[t] <= next[op'[t]] /\ pc'[t] = "test" /\ ~ Working(t)'
  BY <1>1 DEF IInv, TypeOK, Working
<1> QED BY <1>1, <1>2, <1>3, LocalStep DEF IInv, TypeOK

\* The compare-exchange claims the ticket if nobody has.
LEMMA ClaimStep ==
  ASSUME IInv, NEW t \in Threads, Claim(t)
  PROVE  IInv'
<1> DEFINE o == op[t]
           k == pos[t]
<1>1. /\ o \in Ops /\ k \in Nat /\ next[o] = k /\ next \in [Ops -> Nat]
      /\ next' = [next EXCEPT ![o] = k + 1]
      /\ pc[t] = "claim" /\ pc' = [pc EXCEPT ![t] = "copy"]
      /\ ~ Working(t) /\ Working(t)'
      /\ \A u \in Threads \ {t} : Working(u)' = Working(u)
      /\ UNCHANGED <<sequence, data, op, pos, item, popped>>
  BY DEF IInv, TypeOK, Claim, Current, Working
<1>2. sequence[Cell(k)] = Awaited(o, k)
  BY <1>1 DEF IInv, ClaimsReady, Current
<1>3. /\ pushed' \in Seq(Values) /\ Len(pushed') = next'["push"]
      /\ Len(pushed) = next["push"]
      /\ \A j \in 1 .. next["push"] : pushed'[j] = pushed[j]
      /\ o = "push" => pushed'[k + 1] = item[t]
  <2>1. CASE o = "push"
    <3>1. item[t] \in Values /\ pushed \in Seq(Values) /\ Len(pushed) = k
      BY <1>1, <2>1 DEF IInv, TypeOK
    <3>2. pushed' = Append(pushed, item[t])
      BY <2>1 DEF Claim
    <3> QED BY <1>1, <2>1, <3>1, <3>2
  <2>2. CASE o # "push"
    <3>1. pushed' = pushed
      BY <2>2 DEF Claim
    <3> QED BY <1>1, <2>2, <3>1 DEF IInv, TypeOK
  <2> QED BY <2>1, <2>2
<1>4. /\ next'["push"] \in Nat /\ next["push"] \in Nat /\ next'["push"] >= next["push"]
      /\ \A u \in Threads : op[u] \in Ops /\ pos[u] \in Nat
      /\ \A p \in Ops : next'[p] >= next[p]
  BY <1>1 DEF IInv, TypeOK, Ops
<1>5. TypeOK'
  BY <1>1, <1>3 DEF IInv, TypeOK
<1>6. TicketsClaimed'
  <2>1. \A u \in Threads \ {t} : Working(u) /\ op[u] = o => pos[u] < k
    BY <1>1 DEF IInv, TicketsClaimed
  <2>2. ASSUME NEW u \in Threads, Working(u)'
        PROVE  pos[u] < next'[op[u]]
    <3>1. CASE u = t
      BY <1>1, <3>1
    <3>2. CASE u # t
      <4>1. pos[u] < next[op[u]]
        BY <1>1, <2>2, <3>2 DEF IInv, TicketsClaimed
      <4> QED BY <1>1, <1>4, <4>1
    <3> QED BY <3>1, <3>2
  <2> QED BY <1>1, <1>4, <2>1, <2>2 DEF IInv, TicketsClaimed
<1>7. CellsWait'
  BY <1>1, <1>2 DEF IInv, CellsWait
<1>8. ClaimsReady'
  <2> SUFFICES ASSUME NEW u \in Threads
               PROVE  /\ pos[u] <= next'[op[u]]
                      /\ pc'[u] = "claim" /\ next'[op[u]] = pos[u] =>
                           sequence[Cell(pos[u])] = Awaited(op[u], pos[u])
    BY <1>1 DEF ClaimsReady, Current
  <2>1. pos[u] <= next[op[u]]
    BY DEF IInv, ClaimsReady
  <2>2. CASE op[u] = o
    BY <1>1, <1>4, <2>1, <2>2
  <2>3. CASE op[u] # o
    BY <1>1, <1>4, <2>1, <2>3 DEF IInv, ClaimsReady, Current
  <2> QED BY <2>2, <2>3
<1>9. PushesStore'
  <2> SUFFICES ASSUME NEW u \in Threads, Working(u)', op[u] = "push"
               PROVE  /\ pushed'[pos[u] + 1] = item[u]
                      /\ pc'[u] = "leave" => data[Cell(pos[u])] = item[u]
    BY <1>1 DEF PushesStore
  <2>1. CASE u = t
    BY <1>1, <1>3, <2>1 DEF IInv, TypeOK
  <2>2. CASE u # t
    <3>1. Working(u) /\ pos[u] + 1 \in 1 .. next["push"]
      BY <1>1, <1>4, <2>2 DEF IInv, TicketsClaimed
    <3> QED BY <1>1, <1>3, <2>2, <3>1 DEF IInv, PushesStore, TypeOK
  <2> QED BY <2>1, <2>2
<1>10. CellsFilled'
  <2> SUFFICES ASSUME NEW i \in Cells, sequence[i] > 0, Cell(sequence[i] - 1) = i
               PROVE  sequence[i] <= next'["push"] /\ data[i] = pushed'[sequence[i]]
    BY <1>1 DEF CellsFilled
  <2>1. sequence[i] <= next["push"] /\ data[i] = pushed[sequence[i]] /\ sequence[i] \in Nat
    BY DEF IInv, TypeOK, CellsFilled
  <2> QED BY <1>3, <1>4, <2>1
<1>11. TicketsLeft'
  <2>1. \A p \in Ops : \A j \in 0 .. next'[p] - 1 : j \in 0 .. next[p] - 1 \/ (p = o /\ j = k)
    BY <1>1
  <2>2. \A p \in Ops : \A j \in Nat : p = o /\ j = k => Holds(t, p, j)'
    BY <1>1 DEF Holds, Working
  <2>3. \A u \in Threads : \A p \in Ops : \A j \in Nat : Holds(u, p, j) => Holds(u, p, j)'
    BY <1>1 DEF Holds, Working
  <2>4. \A i \in Cells : sequence'[i] >= i
    BY <1>1 DEF IInv, TicketsLeft
  <2>5. ASSUME NEW p \in Ops, NEW j \in 0 .. next'[p] - 1
        PROVE  (\E u \in Threads : Holds(u, p, j)') \/ sequence'[Cell(j)] >= Left(p, j)
    <3>1. CASE j \in 0 .. next[p] - 1
      <4>1. (\E u \in Threads : Holds(u, p, j)) \/ sequence[Cell(j)] >= Left(p, j)
        BY <3>1 DEF IInv, TicketsLeft
      <4> QED BY <1>1, <2>3, <3>1, <4>1
    <3>2. CASE p = o /\ j = k
      BY <2>2, <3>2
    <3> QED BY <2>1, <3>1, <3>2
  <2> QED BY <2>4, <2>5 DEF TicketsLeft
<1>12. PopsWhatWasPushed'
  <2> SUFFICES ASSUME NEW e \in popped
               PROVE  e.ticket < Len(pushed') /\ e.value = pushed'[e.ticket + 1]
    BY <1>1 DEF PopsWhatWasPushed
  <2>1. e.ticket \in Nat /\ e.ticket < Len(pushed) /\ e.value = pushed[e.ticket + 1]
    BY DEF IInv, TypeOK, PopsWhatWasPushed
  <2>2. e.ticket + 1 \in 1 .. next["push"]
    BY <1>3, <1>4, <2>1
  <2> QED BY <1>3, <1>4, <2>1, <2>2
<1> QED BY <1>5, <1>6, <1>7, <1>8, <1>9, <1>10, <1>11, <1>12 DEF IInv

\* The claimed cell is written or read by its claimant alone.
LEMMA CopyStep ==
  ASSUME IInv, NEW t \in Threads, Copy(t)
  PROVE  IInv'
<1> DEFINE k == pos[t]
           i == Cell(k)
           got == [ticket |-> k, value |-> data[i]]
<1>1. /\ k \in Nat /\ i \in Cells
      /\ Working(t) /\ pc' = [pc EXCEPT ![t] = "leave"]
      /\ \A u \in Threads : Working(u)' = Working(u)
      /\ UNCHANGED <<sequence, next, op, pos, item, pushed>>
  BY CellType DEF IInv, TypeOK, Copy, Working
<1>2. /\ op[t] = "push" => data' = [data EXCEPT ![i] = item[t]] /\ popped' = popped
      /\ op[t] = "pop" => popped' = popped \union {got} /\ data' = data
      /\ op[t] = "push" => item[t] \in Values
      /\ op[t] = "push" \/ op[t] = "pop"
  BY DEF Copy, IInv, TypeOK, Ops
<1>3. sequence[i] = Awaited(op[t], k)
  BY <1>1 DEF IInv, CellsWait
<1>4. op[t] = "pop" => k < Len(pushed) /\ data[i] = pushed[k + 1] /\ pushed[k + 1] \in Values
  <2> SUFFICES ASSUME op[t] = "pop"
               PROVE  k < Len(pushed) /\ data[i] = pushed[k + 1] /\ pushed[k + 1] \in Values
    OBVIOUS
  <2>1. sequence[i] = k + 1 /\ (k + 1) - 1 = k
    BY <1>1, <1>3 DEF Awaited
  <2>2. k + 1 <= next["push"] /\ data[i] = pushed[k + 1]
    BY <1>1, <2>1 DEF IInv, CellsFilled
  <2> QED BY <1>1, <2>2 DEF IInv, TypeOK
<1>5. TypeOK'
  <2>1. op[t] = "pop" => got \in [ticket : Nat, value : Values]
    BY <1>1, <1>4
  <2> HIDE DEF got
  <2>2. CASE op[t] = "push"
    BY <1>1, <1>2, <2>2 DEF IInv, TypeOK
  <2>3. CASE op[t] = "pop"
    BY <1>1, <1>2, <2>1, <2>3 DEF IInv, TypeOK
  <2> QED BY <1>2, <2>2, <2>3
<1>6. TicketsClaimed' /\ CellsWait' /\ ClaimsReady'
  BY <1>1 DEF IInv, TypeOK, TicketsClaimed, CellsWait, ClaimsReady, Current
<1>7. PushesStore'
  <2> SUFFICES ASSUME NEW u \in Threads, Working(u), op[u] = "push"
               PROVE  /\ pushed[pos[u] + 1] = item[u]
                      /\ pc'[u] = "leave" => data'[Cell(pos[u])] = item[u]
    BY <1>1 DEF PushesStore
  <2>1. pushed[pos[u] + 1] = item[u] /\ Cell(pos[u]) \in Cells /\ data \in [Cells -> Values \union {None}]
    BY CellType DEF IInv, TypeOK, PushesStore
  <2>2. CASE u = t
    BY <1>1, <1>2, <2>1, <2>2
  <2>3. CASE u # t
    <3>1. Cell(pos[u]) # i
      BY <1>1, <2>3, WorkersApart DEF IInv, CellExclusive, Working
    <3>2. data'[Cell(pos[u])] = data[Cell(pos[u])]
      <4>1. CASE op[t] = "push"
        BY <1>2, <2>1, <3>1, <4>1
      <4>2. CASE op[t] = "pop"
        BY <1>2, <4>2
      <4> QED BY <1>2, <4>1, <4>2
    <3>3. pc'[u] = pc[u]
      BY <1>1, <2>3 DEF IInv, TypeOK
    <3> QED BY <2>1, <3>2, <3>3 DEF IInv, PushesStore
  <2> QED BY <2>2, <2>3
<1>8. CellsFilled'
  <2> SUFFICES ASSUME NEW j \in Cells, sequence[j] > 0, Cell(sequence[j] - 1) = j
               PROVE  sequence[j] <= next["push"] /\ data'[j] = pushed[sequence[j]]
    BY <1>1 DEF CellsFilled
  <2>1. sequence[j] <= next["push"] /\ data[j] = pushed[sequence[j]] /\ sequence[j] \in Nat
    BY DEF IInv, TypeOK, CellsFilled
  <2>2. ~ (op[t] = "push" /\ j = i)
    <3> SUFFICES ASSUME op[t] = "push", j = i
                 PROVE  FALSE
      OBVIOUS
    <3>1. sequence[j] = k
      BY <1>3 DEF Awaited
    <3>2. k - 1 \in Nat /\ (k - 1) + 1 = k
      BY <2>1, <3>1
    <3> QED BY <3>1, <3>2, CellNext
  <2>3. data'[j] = data[j]
    BY <1>1, <1>2, <2>2 DEF IInv, TypeOK
  <2> QED BY <2>1, <2>3
<1>9. TicketsLeft'
  <2>1. \A u \in Threads : \A p \in Ops : \A j \in Nat : Holds(u, p, j)' = Holds(u, p, j)
    BY <1>1 DEF Holds, Working
  <2>2. \A j \in Cells : sequence'[j] >= j
    BY <1>1 DEF IInv, TicketsLeft
  <2>3. ASSUME NEW p \in Ops, NEW j \in 0 .. next[p] - 1
        PROVE  (\E u \in Threads : Holds(u, p, j)') \/ sequence'[Cell(j)] >= Left(p, j)
    <3>1. (\E u \in Threads : Holds(u, p, j)) \/ sequence[Cell(j)] >= Left(p, j)
      BY DEF IInv, TicketsLeft
    <3> QED BY <1>1, <2>1, <3>1
  <2> QED BY <1>1, <2>2, <2>3 DEF TicketsLeft
<1>10. PopsWhatWasPushed'
  BY <1>1, <1>2, <1>4 DEF IInv, TypeOK, PopsWhatWasPushed, Ops
<1> QED BY <1>5, <1>6, <1>7, <1>8, <1>9, <1>10 DEF IInv

\* Publishing the sequence hands the cell to the next ticket of it.
LEMMA LeaveStep ==
  ASSUME IInv, NEW t \in Threads, Leave(t)
  PROVE  IInv'
<1> DEFINE o == op[t]
           k == pos[t]
           i == Cell(k)
<1>1. /\ o \in Ops /\ k \in Nat /\ i \in Cells /\ Left(o, k) \in Nat /\ Awaited(o, k) \in Nat
      /\ Left(o, k) > Awaited(o, k)
      /\ Working(t) /\ ~ Working(t)' /\ pc[t] = "leave" /\ pc'[t] = "idle"
      /\ op'[t] = "pop" /\ pos'[t] = 0
      /\ \A u \in Threads \ {t} : /\ pc'[u] = pc[u] /\ op'[u] = op[u] /\ pos'[u] = pos[u]
                                  /\ item'[u] = item[u] /\ Working(u)' = Working(u)
      /\ UNCHANGED <<data, next, pushed, popped>>
  <2>1. o \in Ops /\ k \in Nat /\ i \in Cells
    BY CellType DEF IInv, TypeOK
  <2>2. Left(o, k) \in Nat /\ Awaited(o, k) \in Nat /\ Left(o, k) > Awaited(o, k)
    BY <2>1, QueueConstants DEF Left, Awaited
  <2>3. /\ pc[t] = "leave" /\ pc'[t] = "idle" /\ op'[t] = "pop" /\ pos'[t] = 0
        /\ \A u \in Threads \ {t} : /\ pc'[u] = pc[u] /\ op'[u] = op[u] /\ pos'[u] = pos[u]
                                    /\ item'[u] = item[u]
        /\ UNCHANGED <<data, next, pushed, popped>>
    BY DEF IInv, TypeOK, Leave, Return
  <2>4. /\ Working(t) /\ ~ Working(t)'
        /\ \A u \in Threads \ {t} : Working(u)' = Working(u)
    BY <2>3 DEF Working
  <2> QED BY <2>1, <2>2, <2>3, <2>4
<1>2. /\ sequence' = [sequence EXCEPT ![i] = Left(o, k)]
      /\ sequence \in [Cells -> Nat] /\ sequence[i] = Awaited(o, k)
  BY <1>1 DEF Leave, IInv, TypeOK, CellsWait
<1>3. TypeOK'
  BY <1>1, <1>2 DEF IInv, TypeOK, Leave, Return, Ops
<1>4. \A j \in Cells : j # i => sequence'[j] = sequence[j]
  BY <1>2
<1>5. sequence'[i] = Left(o, k)
  BY <1>1, <1>2
<1>6. TicketsClaimed'
  BY <1>1 DEF IInv, TicketsClaimed
<1>7. CellsWait'
  <2> SUFFICES ASSUME NEW u \in Threads \ {t}, Working(u)
               PROVE  sequence'[Cell(pos[u])] = Awaited(op[u], pos[u])
    BY <1>1 DEF CellsWait
  <2>1. Cell(pos[u]) # i /\ Cell(pos[u]) \in Cells
    BY <1>1, WorkersApart, CellType DEF IInv, TypeOK, CellExclusive, Working
  <2> QED BY <1>4, <2>1 DEF IInv, CellsWait
\* A thread about to claim the ticket that is leaving would find it claimed.
<1>8. ClaimsReady'
  <2>1. \A u \in Threads : pos'[u] <= next[op'[u]]
    <3>1. next["pop"] \in Nat
      BY DEF IInv, TypeOK, Ops
    <3>2. \A u \in Threads : pos[u] <= next[op[u]]
      BY DEF IInv, ClaimsReady
    <3> QED BY <1>1, <3>1, <3>2
  <2>2. ASSUME NEW u \in Threads \ {t}, pc[u] = "claim", Current(u)
        PROVE  sequence'[Cell(pos[u])] = Awaited(op[u], pos[u])
    <3>1. /\ sequence[Cell(pos[u])] = Awaited(op[u], pos[u])
          /\ op[u] \in Ops /\ pos[u] \in Nat /\ Cell(pos[u]) \in Cells
      BY <2>2, CellType DEF IInv, TypeOK, ClaimsReady
    <3>2. Cell(pos[u]) # i
      <4> SUFFICES ASSUME Cell(pos[u]) = i
                   PROVE  FALSE
        OBVIOUS
      <4>1. op[u] = o /\ pos[u] = k
        BY <1>1, <1>2, <3>1, AwaitedOnce
      <4>2. k < next[o]
        BY <1>1 DEF IInv, TicketsClaimed
      <4> QED BY <1>1, <2>2, <4>1, <4>2 DEF Current, IInv, TypeOK
    <3> QED BY <1>4, <3>1, <3>2
  <2> QED BY <1>1, <2>1, <2>2 DEF ClaimsReady, Current
<1>9. PushesStore'
  BY <1>1 DEF IInv, PushesStore
<1>10. CellsFilled'
  <2> SUFFICES ASSUME NEW j \in Cells, sequence'[j] > 0, Cell(sequence'[j] - 1) = j
               PROVE  sequence'[j] <= next["push"] /\ data[j] = pushed[sequence'[j]]
    BY <1>1 DEF CellsFilled
  <2>1. CASE j # i
    BY <1>4, <2>1 DEF IInv, CellsFilled
  <2>2. CASE j = i /\ o = "push"
    <3>1. sequence'[j] = k + 1
      BY <1>5, <2>2 DEF Left
    <3>2. k < next["push"] /\ pushed[k + 1] = item[t] /\ data[i] = item[t]
      BY <1>1, <2>2 DEF IInv, TicketsClaimed, PushesStore
    <3> QED BY <1>1, <2>2, <3>1, <3>2 DEF IInv, TypeOK
  <2>3. CASE j = i /\ o = "pop"
    <3>1. sequence'[j] = k + Size
      BY <1>5, <2>3 DEF Left
    <3>2. k + Size - 1 \in Nat /\ (k + Size - 1) + 1 = k + Size
      BY <1>1, QueueConstants
    <3>3. Cell(k + Size - 1) = Cell(k + Size)
      <4>1. Cell(k + Size) = Cell(k)
        BY <1>1, CellLap
      <4>2. sequence'[j] - 1 = k + Size - 1
        BY <1>1, <3>1, QueueConstants
      <4>3. Cell(k + Size - 1) = j
        BY <4>2, Zenon
      <4> QED BY <2>3, <4>1, <4>3, Zenon
    <3> QED BY <3>2, <3>3, CellNext
  <2> QED BY <1>1, <2>1, <2>2, <2>3 DEF Ops
<1>11. TicketsLeft'
  <2>1. \A j \in Cells : sequence'[j] >= sequence[j] /\ sequence[j] \in Nat /\ sequence'[j] \in Nat
    BY <1>1, <1>2, <1>4, <1>5
  <2>2. \A j \in Cells : sequence'[j] >= j
    BY <2>1 DEF IInv, TicketsLeft, Cells
  <2>3. ASSUME NEW p \in Ops, NEW j \in 0 .. next[p] - 1
        PROVE  (\E u \in Threads : Holds(u, p, j)') \/ sequence'[Cell(j)] >= Left(p, j)
    <3>1. j \in Nat /\ Cell(j) \in Cells /\ Left(p, j) \in Nat
      BY CellType, QueueConstants DEF IInv, TypeOK, Left
    <3>2. CASE sequence[Cell(j)] >= Left(p, j)
      BY <2>1, <3>1, <3>2
    <3>3. ASSUME NEW u \in Threads, Holds(u, p, j)
          PROVE  Holds(u, p, j)' \/ sequence'[Cell(j)] >= Left(p, j)
      <4>1. CASE u = t
        <5>1. p = o /\ j = k
          BY <3>3, <4>1 DEF Holds
        <5> QED BY <1>5, <3>1, <5>1
      <4>2. CASE u # t
        BY <1>1, <3>3, <4>2 DEF Holds
      <4> QED BY <4>1, <4>2
    <3> QED BY <3>2, <3>3 DEF IInv, TicketsLeft
  <2> QED BY <1>1, <2>2, <2>3 DEF TicketsLeft
<1>12. PopsWhatWasPushed'
  BY <1>1 DEF IInv, PopsWhatWasPushed
<1> QED BY <1>3, <1>6, <1>7, <1>8, <1>9, <1>10, <1>11, <1>12 DEF IInv

\* Every step keeps the invariant.
LEMMA NextIInv == IInv /\ [Next]_vars => IInv'
<1> SUFFICES ASSUME IInv, [Next]_vars
             PROVE  IInv'
  OBVIOUS
<1>1. ASSUME NEW t \in Threads, Call(t, "pop", None)
      PROVE  IInv'
  BY <1>1, CallStep DEF Ops
<1>2. ASSUME NEW t \in Threads, NEW v \in Values, Call(t, "push", v)
      PROVE  IInv'
  BY <1>2, CallStep DEF Ops
<1>3. ASSUME NEW t \in Threads,
             Test(t) \/ Reload(t) \/ Claim(t) \/ ClaimFails(t) \/ Copy(t) \/ Leave(t)
      PROVE  IInv'
  BY <1>3, TestStep, ReloadStep, ClaimStep, CopyStep, LeaveStep
<1>4. CASE UNCHANGED vars
  BY <1>4 DEF vars, IInv, TypeOK, TicketsClaimed, CellsWait, ClaimsReady, PushesStore,
     CellsFilled, TicketsLeft, PopsWhatWasPushed, Working, Holds, Current
<1> QED BY <1>1, <1>2, <1>3, <1>4 DEF Next

\* The invariant holds in every reachable state.
LEMMA Inductive == Spec => []IInv
BY InitIInv, NextIInv, PTL DEF Spec

-----------------------------------------------------------------------------
(* What follows from it.                                                   *)

\* Sequence numbers, positions and items keep their types, and a pop never
\* takes the value of a cell nothing was pushed to.
THEOREM TypeCorrect == Spec => []TypeOK
<1>1. IInv => TypeOK
  BY DEF IInv
<1> QED BY <1>1, Inductive, PTL

\* The data of a cell (lockfree.hpp:35-36, 56-57) is one thread's at a time,
\* for rings of any size above one and any number of producers and consumers.
THEOREM ExclusiveCells == Spec => []CellExclusive
<1>1. IInv => CellExclusive
  BY WorkersApart DEF IInv
<1> QED BY <1>1, Inductive, PTL

\* The pop of a ticket returns what the push of that ticket was called with.
THEOREM FirstInFirstOut == Spec => []PopsWhatWasPushed
<1>1. IInv => PopsWhatWasPushed
  BY DEF IInv
<1> QED BY <1>1, Inductive, PTL

\* A call that fails found its cell with the number of a ticket not yet done.
LEMMA TestFailsWithReason ==
  ASSUME IInv, NEW t \in Threads, Test(t), pc'[t] = "idle"
  PROVE  IF op[t] = "push"
           THEN pos[t] - Size >= next["pop"] \/ \E u \in Threads : Holds(u, "pop", pos[t] - Size)
           ELSE pos[t] >= next["push"] \/ \E u \in Threads : Holds(u, "push", pos[t])
<1> DEFINE o == op[t]
           k == pos[t]
<1>1. /\ o \in Ops /\ k \in Nat /\ Cell(k) \in Cells /\ next["pop"] \in Nat
      /\ sequence[Cell(k)] \in Nat /\ next["push"] \in Nat /\ Size \in Nat /\ Size > 1
  BY CellType, QueueConstants DEF IInv, TypeOK, Ops
<1>2. sequence[Cell(k)] - Awaited(o, k) < 0
  BY DEF Test, IInv, TypeOK
<1>3. CASE o = "push"
  <2> SUFFICES ASSUME k - Size < next["pop"]
               PROVE  \E u \in Threads : Holds(u, "pop", k - Size)
    BY <1>1, <1>3
  <2>1. sequence[Cell(k)] < k
    BY <1>1, <1>2, <1>3 DEF Awaited
  <2>2. k >= Size
    <3> SUFFICES ASSUME k < Size
                 PROVE  FALSE
      BY <1>1
    <3>1. k \in Cells /\ Cell(k) = k
      BY <1>1, CellFirst DEF Cells
    <3> QED BY <1>1, <2>1, <3>1 DEF IInv, TicketsLeft
  <2>3. k - Size \in 0 .. next["pop"] - 1 /\ (k - Size) + Size = k
    BY <1>1, <2>2
  <2>4. Cell(k - Size) = Cell(k)
    BY <2>3, CellLap
  <2>5. ~ (sequence[Cell(k - Size)] >= Left("pop", k - Size))
    BY <1>1, <2>1, <2>3, <2>4 DEF Left
  <2> QED BY <2>3, <2>5 DEF IInv, TicketsLeft, Ops
<1>4. CASE o = "pop"
  <2> SUFFICES ASSUME k < next["push"]
               PROVE  \E u \in Threads : Holds(u, "push", k)
    BY <1>1, <1>4
  <2>1. ~ (sequence[Cell(k)] >= Left("push", k))
    BY <1>1, <1>2, <1>4 DEF Awaited, Left
  <2>2. k \in 0 .. next["push"] - 1
    BY <1>1
  <2> QED BY <2>1, <2>2 DEF IInv, TicketsLeft, Ops
<1> QED BY <1>1, <1>3, <1>4 DEF Ops

\* push and pop return false only for a reason that is still there: the ticket
\* whose cell it is has not been taken, or its holder is not through with it.
THEOREM FailuresHaveReason == Spec => FailsWithReason
<1> DEFINE Reason(t) ==
             IF op[t] = "push"
               THEN pos[t] - Size >= next["pop"] \/ \E u \in Threads : Holds(u, "pop", pos[t] - Size)
               ELSE pos[t] >= next["push"] \/ \E u \in Threads : Holds(u, "push", pos[t])
           Fails == \A t \in Threads : pc[t] = "test" /\ pc'[t] = "idle" => Reason(t)
<1>1. IInv /\ [Next]_vars => [Fails]_vars
  <2> SUFFICES ASSUME IInv, Next, NEW t \in Threads, pc[t] = "test", pc'[t] = "idle"
               PROVE  Reason(t)
    OBVIOUS
  <2>1. Test(t)
    <3>1. PICK u \in Threads :
             \/ Call(u, "pop", None) \/ \E v \in Values : Call(u, "push", v)
             \/ Test(u) \/ Reload(u) \/ Claim(u) \/ ClaimFails(u) \/ Copy(u) \/ Leave(u)
      BY DEF Next
    <3>2. pc \in [Threads -> {"idle", "test", "reload", "claim", "copy", "leave"}]
      BY DEF IInv, TypeOK
    <3>3. CASE u = t
      BY <3>1, <3>2, <3>3 DEF Call, Reload, Claim, ClaimFails, Copy, Leave
    <3>4. CASE u # t
      BY <3>1, <3>2, <3>4 DEF Call, Test, Return, Reload, Claim, ClaimFails, Copy, Leave
    <3> QED BY <3>3, <3>4
  <2> QED BY <2>1, TestFailsWithReason
<1>2. [][IInv /\ [Next]_vars]_vars => [][Fails]_vars
  BY <1>1, PTL
<1> QED BY <1>1, Inductive, PTL DEF Spec, FailsWithReason
=============================================================================
