-------------------------- MODULE HeartbeatProofs ---------------------------
(***************************************************************************)
(* Theorems about the heartbeats of a worker: the schedule of its rounds,  *)
(* the connection that the workers of a pool reserve for them, and the     *)
(* transactions that rounds share; for every set of tasks and workers,     *)
(* every time and every number of batches.                                 *)
(*                                                                         *)
(* ScheduleInv ties the timer to the slot of the next regular round, the   *)
(* round in flight to the slot it left at, and every lease to the time     *)
(* since the last regular round: the window that is left and that time     *)
(* together outlast the two intervals and the round a lease must survive.  *)
(*                                                                         *)
(* ConnectionInv ties the session of the reserved connection to the        *)
(* transaction in flight: a session that is not idle is that of a          *)
(* transaction which still sends on the reserved client.                   *)
(*                                                                         *)
(* RoundsInv ties rounds, queue and transaction together: a round waits    *)
(* once, a live member is a round that has not settled and knows its       *)
(* batches, and a round that a heartbeat has passed has no earlier         *)
(* deadline than the leader of a transaction that others can still join.   *)
(* The rows of a member come from Offset, a recursive function; what it    *)
(* and Only compute follows by induction, from the well-foundedness of the *)
(* naturals.                                                               *)
(***************************************************************************)
EXTENDS HeartbeatSchedule, ReservedConnection, WellFoundedInduction, TLAPS

(* Induction over the naturals, and what the recursive functions of the model compute *)

\* A set of naturals that is not empty has a least element.
LEMMA LeastNatural ==
    ASSUME NEW S \in SUBSET Nat, S # {}
    PROVE  \E x \in S : \A y \in S : x <= y
  <1> DEFINE less == {ss \in Nat \X Nat : ss[1] < ss[2]}
  <1>1. IsWellFoundedOn(less, Nat)
    BY NatLessThanWellFounded, ZenonT(30) DEF OpToRel
  <1>2. \A x, y \in Nat : <<y, x>> \in less \/ x <= y
    OBVIOUS
  <1> HIDE DEF less
  <1>3. PICK x \in S : \A y \in S : ~(<<y, x>> \in less)
    BY <1>1, WFMin, Zenon
  <1> QED BY <1>2, <1>3, Zenon

\* Induction over the naturals up to n.
LEMMA Induction ==
    ASSUME NEW n \in Nat, NEW S, 0 \in S, \A k \in 1..n : k - 1 \in S => k \in S
    PROVE  0..n \subseteq S
  <1> DEFINE Bad == {k \in 0..n : k \notin S}
  <1> SUFFICES ASSUME Bad # {} PROVE FALSE
    BY Zenon
  <1>1. Bad \in SUBSET Nat
    OBVIOUS
  <1>2. \E k \in Bad : \A y \in Bad : k <= y
    <2> HIDE DEF Bad
    <2> QED BY <1>1, LeastNatural, Zenon
  <1>3. PICK k \in Bad : \A y \in Bad : k <= y
    BY <1>2, Zenon
  <1>4. k \in 1..n /\ k \notin S
    OBVIOUS
  <1>5. k - 1 \in 0..n /\ k - 1 \notin Bad
    BY <1>3, <1>4
  <1> QED BY <1>4, <1>5, Zenon

Recursive(f, n, V, c, step) ==
    /\ f \in [0..n -> V]
    /\ \A j \in 0..n : f[j] = IF j = 0 THEN c ELSE step[j][f[j - 1]]

LEMMA Recursion ==
    ASSUME NEW n \in Nat, NEW V, NEW c \in V, NEW step \in [1..n -> [V -> V]]
    PROVE  \E f : Recursive(f, n, V, c, step)
  <1> DEFINE S == {k \in Nat : \E f : Recursive(f, k, V, c, step)}
  <1>1. 0 \in S
    <2>1. Recursive([j \in 0..0 |-> c], 0, V, c, step)
      BY DEF Recursive
    <2> QED BY <2>1, Zenon
  <1>2. ASSUME NEW k \in 1..n, k - 1 \in S PROVE k \in S
    <2>1. PICK g : Recursive(g, k - 1, V, c, step)
      BY <1>2, Zenon
    <2> DEFINE f == [j \in 0..k |-> IF j = k THEN step[k][g[k - 1]] ELSE g[j]]
    <2>2. g \in [0..(k - 1) -> V] /\ g[k - 1] \in V
      BY <2>1 DEF Recursive
    <2>3. step[k][g[k - 1]] \in V
      BY <2>2, Zenon
    <2>4. f \in [0..k -> V]
      BY <2>2, <2>3, SMTT(30)
    <2>5. ASSUME NEW j \in 0..k PROVE f[j] = IF j = 0 THEN c ELSE step[j][f[j - 1]]
      <3>1. CASE j = k
        <4>1. f[j - 1] = g[k - 1] /\ f[j] = step[k][g[k - 1]] /\ j # 0
          BY <3>1, SMTT(30)
        <4> QED BY <3>1, <4>1, Zenon
      <3>2. CASE j # k
        <4>1. j \in 0..(k - 1)
          BY <3>2
        <4>2. f[j] = g[j] /\ (j # 0 => f[j - 1] = g[j - 1])
          BY <3>2
        <4>3. g[j] = IF j = 0 THEN c ELSE step[j][g[j - 1]]
          BY <2>1, <4>1, Zenon DEF Recursive
        <4> QED BY <4>2, <4>3, Zenon
      <3> QED BY <3>1, <3>2, Zenon
    <2>6. Recursive(f, k, V, c, step)
      BY <2>4, <2>5, Zenon DEF Recursive
    <2> QED BY <2>6
  <1> HIDE DEF S
  <1>3. 0..n \subseteq S
    BY <1>1, <1>2, Induction, Zenon
  <1> QED BY <1>3 DEF S

LEMMA OffsetFun ==
    ASSUME NEW m, NEW n \in Nat, n = Len(m), \A i \in 1..n : m[i].batches \in Nat
    PROVE  /\ Offset(m, 0) = 0
           /\ \A i \in 1..n : Offset(m, i) = Offset(m, i - 1) + m[i].batches
           /\ \A i \in 0..n : Offset(m, i) \in Nat
  <1> DEFINE step == [i \in 1..n |-> [v \in Nat |-> v + m[i].batches]]
             Def(f) == f = [j \in 0..n |-> IF j = 0 THEN 0 ELSE f[j - 1] + m[j].batches]
             before == CHOOSE f : Def(f)
  <1>1. step \in [1..n -> [Nat -> Nat]]
    OBVIOUS
  <1>2. \A i \in 1..n, v \in Nat : step[i][v] = v + m[i].batches
    BY Zenon
  <1> HIDE DEF step
  <1>3. PICK f : Recursive(f, n, Nat, 0, step)
    BY <1>1, Recursion, Zenon
  <1>4. f \in [0..n -> Nat] /\ f[0] = 0
    BY <1>3 DEF Recursive
  <1>5. ASSUME NEW j \in 1..n PROVE f[j] = f[j - 1] + m[j].batches
    <2>1. j \in 0..n /\ j # 0 /\ j - 1 \in 0..n
      OBVIOUS
    <2>2. f[j] = step[j][f[j - 1]]
      BY <1>3, <2>1, Zenon DEF Recursive
    <2>3. f[j - 1] \in Nat
      BY <1>4, <2>1, Zenon
    <2> QED BY <1>2, <2>2, <2>3, Zenon
  <1>6. Def(f)
    <2>1. f = [j \in 0..n |-> f[j]]
      BY <1>4, Zenon
    <2>2. \A j \in 0..n : f[j] = IF j = 0 THEN 0 ELSE f[j - 1] + m[j].batches
      BY <1>4, <1>5
    <2> QED BY <2>1, <2>2, Zenon
  <1>7. Def(before)
    BY <1>6, Zenon
  <1>8. \A i : Offset(m, i) = before[i]
    BY Zenon DEF Offset
  <1> HIDE DEF before
  <1>9. before[0] = 0 /\ \A i \in 1..n : before[i] = before[i - 1] + m[i].batches
    <2>1. \A i \in 0..n : before[i] = IF i = 0 THEN 0 ELSE before[i - 1] + m[i].batches
      BY <1>7, Zenon
    <2> QED BY <2>1
  <1> DEFINE S == {i \in Nat : before[i] \in Nat}
  <1>10. 0 \in S
    BY <1>9
  <1>11. ASSUME NEW k \in 1..n, k - 1 \in S PROVE k \in S
    <2>1. before[k - 1] \in Nat /\ m[k].batches \in Nat
      BY <1>11, Zenon
    <2> QED BY <1>9, <2>1
  <1>12. 0..n \subseteq S
    <2> HIDE DEF S
    <2> QED BY <1>10, <1>11, Induction, Zenon
  <1>13. \A i \in 0..n : before[i] \in Nat
    BY <1>12, Zenon
  <1> QED BY <1>8, <1>9, <1>13, Zenon

Elements(q) == {q[i] : i \in DOMAIN q}
Distinct(q) == \A i, j \in DOMAIN q : q[i] = q[j] => i = j

LEMMA AppendFacts ==
    ASSUME NEW W, NEW q \in Seq(W), NEW w \in W
    PROVE  /\ Append(q, w) \in Seq(W) /\ Elements(Append(q, w)) = Elements(q) \union {w}
           /\ Distinct(q) /\ w \notin Elements(q) => Distinct(Append(q, w))
  <1>1. Append(q, w) \in Seq(W) /\ Len(Append(q, w)) = Len(q) + 1 /\ Len(q) \in Nat
    OBVIOUS
  <1>2. DOMAIN q = 1..Len(q) /\ DOMAIN Append(q, w) = 1..(Len(q) + 1)
    BY <1>1
  <1>3. Append(q, w)[Len(q) + 1] = w /\ \A i \in 1..Len(q) : Append(q, w)[i] = q[i]
    <2>1. ASSUME NEW i \in 1..(Len(q) + 1)
          PROVE  Append(q, w)[i] = IF i = Len(q) + 1 THEN w ELSE q[i]
      BY <1>1
    <2>2. Len(q) + 1 \in 1..(Len(q) + 1)
      BY <1>1
    <2>3. \A i \in 1..Len(q) : i \in 1..(Len(q) + 1) /\ i # Len(q) + 1
      BY <1>1
    <2> QED BY <2>1, <2>2, <2>3, Zenon
  <1>4. Elements(Append(q, w)) = Elements(q) \union {w}
    BY <1>1, <1>2, <1>3 DEF Elements
  <1>5. ASSUME Distinct(q), w \notin Elements(q) PROVE Distinct(Append(q, w))
    <2> SUFFICES ASSUME NEW i \in 1..(Len(q) + 1), NEW j \in 1..(Len(q) + 1),
                        Append(q, w)[i] = Append(q, w)[j]
                 PROVE  i = j
      BY <1>2, Zenon DEF Distinct
    <2>1. \A k \in 1..Len(q) : q[k] # w
      BY <1>2, <1>5, Zenon DEF Elements
    <2>2. CASE i \in 1..Len(q) /\ j \in 1..Len(q)
      BY <1>2, <1>3, <1>5, <2>2, Zenon DEF Distinct
    <2> QED BY <1>1, <1>3, <2>1, <2>2
  <1> QED BY <1>1, <1>4, <1>5, Zenon

LEMMA OnlyFacts ==
    ASSUME NEW W, NEW q \in Seq(W), NEW S
    PROVE  /\ Only(q, S) \in Seq(W) /\ Elements(Only(q, S)) = Elements(q) \intersect S
           /\ Distinct(q) => Distinct(Only(q, S))
  <1> DEFINE n == Len(q)
             step == [i \in 1..n |->
                        [v \in Seq(W) |-> IF q[i] \in S THEN Append(v, q[i]) ELSE v]]
             Def(f) == f = [i \in 0..n |->
                 IF i = 0 THEN <<>> ELSE IF q[i] \in S THEN Append(f[i - 1], q[i]) ELSE f[i - 1]]
             kept == CHOOSE f : Def(f)
  <1>0. n \in Nat /\ DOMAIN q = 1..n /\ \A i \in 1..n : q[i] \in W
    OBVIOUS
  <1>1. step \in [1..n -> [Seq(W) -> Seq(W)]]
    <2>1. \A i \in 1..n, v \in Seq(W) : Append(v, q[i]) \in Seq(W)
      BY <1>0, AppendFacts, Zenon
    <2> HIDE DEF n
    <2> QED BY <2>1, Zenon
  <1>2. \A i \in 1..n, v \in Seq(W) :
           step[i][v] = IF q[i] \in S THEN Append(v, q[i]) ELSE v
    BY Zenon
  <1> HIDE DEF step, n
  <1>3. PICK f : Recursive(f, n, Seq(W), <<>>, step)
    <2>1. <<>> \in Seq(W)
      OBVIOUS
    <2> QED BY <1>0, <1>1, <2>1, Recursion, Zenon
  <1>4. f \in [0..n -> Seq(W)] /\ f[0] = <<>>
    <2>1. 0 \in 0..n
      BY <1>0
    <2> QED BY <1>3, <2>1, Zenon DEF Recursive
  <1>5. ASSUME NEW j \in 1..n
        PROVE  f[j] = IF q[j] \in S THEN Append(f[j - 1], q[j]) ELSE f[j - 1]
    <2>1. j \in 0..n /\ j # 0 /\ j - 1 \in 0..n
      BY <1>0
    <2>2. f[j] = step[j][f[j - 1]]
      BY <1>3, <2>1, Zenon DEF Recursive
    <2>3. f[j - 1] \in Seq(W)
      BY <1>4, <2>1, Zenon
    <2> QED BY <1>2, <2>2, <2>3, ZenonT(30)
  <1>6. \A j \in 0..n : j = 0 \/ j \in 1..n
    BY <1>0
  <1>7. Def(f)
    <2>1. f = [j \in 0..n |-> f[j]]
      BY <1>4, Zenon
    <2>2. \A j \in 0..n : f[j] = IF j = 0 THEN <<>> ELSE
                IF q[j] \in S THEN Append(f[j - 1], q[j]) ELSE f[j - 1]
      BY <1>4, <1>5, <1>6, Zenon
    <2> QED BY <2>1, <2>2, Zenon
  <1>8. Def(kept)
    BY <1>7, Zenon
  <1>9. Only(q, S) = kept[n]
    BY Zenon DEF Only, n
  <1> HIDE DEF kept
  <1>10. kept[0] = <<>>
    <2>1. 0 \in 0..n
      BY <1>0
    <2> QED BY <1>8, <2>1, Zenon
  <1>11. ASSUME NEW i \in 1..n
         PROVE  kept[i] = IF q[i] \in S THEN Append(kept[i - 1], q[i]) ELSE kept[i - 1]
    <2>1. i \in 0..n /\ i # 0
      BY <1>0
    <2> QED BY <1>8, <2>1, Zenon
  <1> DEFINE first(k) == {q[i] : i \in 1..k}
             G == {k \in Nat : /\ kept[k] \in Seq(W) /\ Elements(kept[k]) = first(k) \intersect S
                               /\ Distinct(q) => Distinct(kept[k])}
  <1>12. 0 \in G
    <2>1. <<>> \in Seq(W) /\ Elements(<<>>) = {} /\ Distinct(<<>>)
      BY DEF Elements, Distinct
    <2>2. first(0) = {} /\ 0 \in Nat
      OBVIOUS
    <2> HIDE DEF first
    <2> QED BY <1>10, <2>1, <2>2, Zenon
  <1>13. ASSUME NEW k \in 1..n, k - 1 \in G PROVE k \in G
    <2>1. /\ kept[k - 1] \in Seq(W) /\ Elements(kept[k - 1]) = first(k - 1) \intersect S
          /\ Distinct(q) => Distinct(kept[k - 1])
      BY <1>13, Zenon
    <2>2. first(k) = first(k - 1) \union {q[k]} /\ q[k] \in W /\ k \in Nat
      BY <1>0
    <2>3. Distinct(q) => q[k] \notin first(k - 1)
      BY <1>0 DEF Distinct
    <2> HIDE DEF first
    <2>4. CASE q[k] \in S
      <3>1. kept[k] = Append(kept[k - 1], q[k])
        BY <1>11, <2>4, Zenon
      <3> HIDE DEF first
      <3>2. /\ kept[k] \in Seq(W) /\ Elements(kept[k]) = Elements(kept[k - 1]) \union {q[k]}
            /\ Distinct(kept[k - 1]) /\ q[k] \notin Elements(kept[k - 1]) => Distinct(kept[k])
        <4>1. ASSUME NEW p \in Seq(W), NEW v \in W
              PROVE  /\ Append(p, v) \in Seq(W) /\ Elements(Append(p, v)) = Elements(p) \union {v}
                     /\ Distinct(p) /\ v \notin Elements(p) => Distinct(Append(p, v))
          BY AppendFacts, Zenon
        <4> QED BY <2>1, <2>2, <3>1, <4>1
      <3> QED BY <2>1, <2>2, <2>3, <2>4, <3>2, Zenon
    <2>5. CASE q[k] \notin S
      BY <1>11, <2>1, <2>2, <2>5, ZenonT(30)
    <2> QED BY <2>4, <2>5, ZenonT(30)
  <1>14. 0..n \subseteq G
    <2> HIDE DEF G
    <2> QED BY <1>0, <1>12, <1>13, Induction, Zenon
  <1>15. n \in G /\ first(n) = Elements(q)
    <2>1. n \in 0..n
      BY <1>0
    <2> QED BY <1>0, <1>14, <2>1, ZenonT(30) DEF Elements
  <1> QED BY <1>9, <1>15, Zenon

\* The offsets do not decrease.
LEMMA OffsetGrows ==
    ASSUME NEW m, NEW n \in Nat, n = Len(m), \A i \in 1..n : m[i].batches \in Nat,
           NEW j \in 0..n, NEW i \in 0..j
    PROVE  Offset(m, i) <= Offset(m, j)
  <1> DEFINE O(k) == Offset(m, k)
             S == {k \in Nat : k < i \/ O(i) <= O(k)}
  <1>1. /\ \A k \in 1..n : O(k) = O(k - 1) + m[k].batches
        /\ \A k \in 0..n : O(k) \in Nat
    BY OffsetFun, Zenon
  <1> HIDE DEF O
  <1>2. 0 \in S
    BY <1>1
  <1>3. ASSUME NEW k \in 1..j, k - 1 \in S PROVE k \in S
    <2>1. O(k - 1) \in Nat /\ O(k) = O(k - 1) + m[k].batches /\ m[k].batches \in Nat /\ O(i) \in Nat
      BY <1>1, SMTT(30)
    <2>2. CASE k = i
      BY <2>1, <2>2
    <2> QED BY <1>3, <2>1, <2>2
  <1>4. 0..j \subseteq S
    <2> HIDE DEF S
    <2>1. j \in Nat
      OBVIOUS
    <2> QED BY <1>2, <1>3, <2>1, Induction, ZenonT(30)
  <1>5. j \in 0..j /\ ~(j < i)
    OBVIOUS
  <1> QED BY <1>4, <1>5, ZenonT(30) DEF O

\* The rows of member i are those of its own batches.
LEMMA RowsOfMember ==
    ASSUME NEW m, NEW n \in Nat, n = Len(m), DOMAIN m = 1..n,
           \A i \in 1..n : m[i].batches \in Nat, NEW i \in 1..n
    PROVE  RowsOf(m, i) = [b \in 1..m[i].batches |-> m[i].worker]
  <1> DEFINE O(k) == Offset(m, k)
             Owns(k, b) == O(k - 1) < b /\ b <= O(k)
  <1>1. /\ \A k \in 1..n : O(k) = O(k - 1) + m[k].batches
        /\ \A k \in 0..n : O(k) \in Nat
    BY OffsetFun, Zenon
  <1>2. \A k \in 0..n : \A l \in 0..k : O(l) <= O(k)
    BY OffsetGrows, Zenon
  <1>3. Rows(m) = [b \in 1..O(n) |-> m[CHOOSE k \in 1..n : Owns(k, b)].worker]
    BY DEF Rows
  <1> HIDE DEF O
  <1>4. /\ O(i - 1) \in Nat /\ O(i) \in Nat /\ O(n) \in Nat /\ O(i) <= O(n)
        /\ O(i) = O(i - 1) + m[i].batches /\ m[i].batches \in Nat
    BY <1>1, <1>2, SMTT(30)
  <1>5. ASSUME NEW b \in 1..m[i].batches
        PROVE  /\ O(i - 1) + b \in 1..O(n)
               /\ (CHOOSE k \in 1..n : Owns(k, O(i - 1) + b)) = i
    <2> DEFINE c == O(i - 1) + b
    <2>1. c \in 1..O(n) /\ Owns(i, c)
      BY <1>4, SMTT(30)
    <2>2. ASSUME NEW k \in 1..n, Owns(k, c) PROVE k = i
      <3>1. O(k - 1) \in Nat /\ O(k) \in Nat
        BY <1>1
      <3>2. CASE k < i
        <4>1. O(k) <= O(i - 1)
          BY <1>2, <3>2, SMTT(30)
        <4> QED BY <1>4, <2>1, <2>2, <3>1, <4>1
      <3>3. CASE i < k
        <4>1. O(i) <= O(k - 1)
          BY <1>2, <3>3
        <4> QED BY <1>4, <2>1, <2>2, <3>1, <4>1, SMTT(30)
      <3> QED BY <3>2, <3>3
    <2> HIDE DEF Owns, c
    <2>3. (CHOOSE k \in 1..n : Owns(k, c)) = i
      BY <2>1, <2>2, Zenon
    <2> QED BY <2>1, <2>3, Zenon DEF c
  <1>6. RowsOf(m, i) = [b \in 1..m[i].batches |-> Rows(m)[O(i - 1) + b]]
    BY Zenon DEF RowsOf, O
  <1>7. \A b \in 1..m[i].batches : Rows(m)[O(i - 1) + b] = m[i].worker
    <2> HIDE DEF Owns
    <2> QED BY <1>3, <1>5, Zenon
  <1> QED BY <1>6, <1>7, Zenon

-----------------------------------------------------------------------------
(* The schedule of the heartbeat rounds *)

LeaseType == [task : Tasks, object : Objects, window : Int, missed : 0..2]
TimerType == [set : BOOLEAN, left : Nat, retry : BOOLEAN]
RetryType == [objects : SUBSET Objects, left : Nat]
FlightType == [on : BOOLEAN, retry : BOOLEAN, objects : SUBSET Objects, age : Nat, left : Nat]

Unique(ls) == \A l, m \in ls : l.object = m.object => l = m

ScheduleType ==
    /\ leases \subseteq LeaseType /\ Unique(leases)
    /\ timer \in TimerType /\ retry \in RetryType /\ flight \in FlightType
    /\ since \in Nat

\* The regular slot is one interval after the last regular round; the timer and the round in
\* flight end by it.
SlotInv ==
    /\ leases = {} => nextAt = {} /\ ~timer.set
    /\ leases # {} =>
          /\ nextAt = {Interval - since} /\ since <= Interval
          /\ timer.set => timer.left + since <= Interval
          /\ flight.on => flight.left + since <= Interval
          /\ timer.set <=> ~flight.on

\* A round has leases and ends by its bound; while one of its leases is registered, it left with
\* or after the last regular round.
FlightInv ==
    flight.on =>
        /\ flight.objects # {} /\ flight.age + flight.left <= RoundMs
        /\ \A l \in Current(flight.objects) :
              /\ IF flight.retry THEN flight.age <= since ELSE flight.age = since
              /\ flight.retry => flight.left <= l.window

\* How much of a lease has passed at most: since the last regular round, one interval for a
\* missed round, and one for the regular round in flight.
InRegular(l) == flight.on /\ ~flight.retry /\ l.object \in flight.objects

Reach(l) ==
    since + (IF l.missed = 0 THEN 0 ELSE Interval) + (IF InRegular(l) THEN Interval ELSE 0)

WindowInv ==
    LeaseOutlastsLoss =>
        \A l \in leases : l.missed <= 1 => l.window + Reach(l) > 2 * Interval + RoundMs

ScheduleInv == ScheduleType /\ SlotInv /\ FlightInv /\ WindowInv

LEMMA MinNatural ==
    ASSUME NEW S \in SUBSET Nat, S # {}
    PROVE  Min(S) \in S /\ \A y \in S : Min(S) <= y
BY LeastNatural, Zenon DEF Min

LEMMA MissedCount == \A m \in 0..2 : Min({2, m + 1}) = IF m = 0 THEN 1 ELSE 2
BY DEF Min

LEMMA MaxSlot == \A k \in Int : Max({k}) = k
BY SMTT(30) DEF Max

\* A round that ends, or a retry that sends nothing, sets the timer to the slot or before.
LEMMA Rescheduled ==
    ASSUME NEW ls, NEW k \in Nat, NEW busy \in RetryType, NEW t, ~t.set, ls # {},
           Schedule(ls, {k}, busy, FALSE, t)
    PROVE  /\ nextAt' = {k}
           /\ timer' \in TimerType /\ timer'.set /\ timer'.left <= k
  <1>1. nextAt' = {k} /\ timer' = DueAt(k, busy)
    BY MaxSlot, SMTT(30) DEF Schedule
  <1> QED BY <1>1 DEF DueAt, TimerType, RetryType

LEMMA InitSchedule == ScheduleInit => ScheduleInv
  <1> SUFFICES ASSUME ScheduleInit PROVE ScheduleInv
    BY Zenon
  <1>1. /\ timer \in TimerType /\ ~timer.set /\ retry \in RetryType
        /\ flight \in FlightType /\ ~flight.on
    BY Zenon DEF ScheduleInit, NoTimer, NoRetry, NoFlight, TimerType, RetryType, FlightType
  <1> QED BY <1>1, Zenon DEF ScheduleInit, ScheduleInv, ScheduleType, Unique, SlotInv, FlightInv,
             WindowInv

LEMMA RegisterKeeps ==
    ASSUME ScheduleInv, NEW task \in Tasks, Register(task)
    PROVE  ScheduleInv'
  <1> USE ScheduleAssumption DEF ScheduleInv
  <1>1. PICK age \in ClaimAges :
           leases' = Others(task) \union
              {[task |-> task, object |-> NewObject, window |-> LeaseMs - age, missed |-> 0]}
    BY ZenonT(30) DEF Register
  <1> DEFINE new == [task |-> task, object |-> NewObject, window |-> LeaseMs - age, missed |-> 0]
  <1>2. NewObject \in Objects /\ NewObject \notin Ids(leases) /\ NewObject \notin flight.objects
    BY ZenonT(30) DEF Register, Fresh, NewObject
  <1>3. /\ new \in LeaseType /\ new.object = NewObject /\ new.window = LeaseMs - age
        /\ new.missed = 0
    BY <1>2, SMTT(30) DEF LeaseType
  <1>4. leases' = Others(task) \union {new} /\ Others(task) \subseteq leases
    BY <1>1, Zenon DEF Others
  <1>5. /\ Schedule(leases', nextAt, retry, flight.on, timer)
        /\ since' = IF nextAt = {} THEN 0 ELSE since
        /\ UNCHANGED <<retry, flight>>
    BY Zenon DEF Register
  <1> HIDE DEF new
  <1>6. \A l \in Others(task) : l.object # NewObject
    BY <1>2, <1>4, ZenonT(30) DEF Ids
  <1>7. /\ nextAt' = {Interval - since'} /\ since' \in Nat /\ since' <= Interval
        /\ timer' = IF leases = {} /\ ~flight.on THEN DueAt(Interval, retry) ELSE timer
    <2>1. CASE leases = {}
      BY <1>4, <1>5, <2>1, MaxSlot, SMTT(30) DEF SlotInv, Schedule, ScheduleType
    <2>2. CASE leases # {}
      BY <1>4, <1>5, <2>2, Zenon DEF SlotInv, Schedule, ScheduleType
    <2> QED BY <2>1, <2>2, ZenonT(30)
  <1>8. timer' \in TimerType /\ (leases = {} /\ ~flight.on => timer'.set /\ timer'.left <= Interval)
    BY <1>7, SMTT(30) DEF ScheduleType, DueAt, TimerType, RetryType
  <1>9. ScheduleType'
    BY <1>3, <1>4, <1>5, <1>6, <1>7, <1>8, Zenon DEF ScheduleType, Unique
  <1>10. SlotInv'
    <2>1. CASE leases = {}
      <3>1. since' = 0
        BY <1>5, <2>1, Zenon DEF SlotInv
      <3>2. flight.on => flight.left <= Interval
        BY SMTT(30) DEF FlightInv, ScheduleType, FlightType
      <3>3. timer'.set <=> ~flight.on
        BY <1>7, <1>8, <2>1, Zenon DEF SlotInv
      <3>4. timer'.set => timer'.left <= Interval
        BY <1>8, <2>1, <3>3, Zenon
      <3> QED BY <1>4, <1>5, <1>7, <1>8, <3>1, <3>2, <3>3, <3>4, SMTT(30)
              DEF SlotInv, ScheduleType, FlightType, TimerType
    <2>2. CASE leases # {}
      <3>1. since' = since /\ timer' = timer
        BY <1>5, <1>7, <2>2, ZenonT(30) DEF SlotInv
      <3> QED BY <1>4, <1>5, <1>7, <2>2, <3>1, Zenon DEF SlotInv
    <2> QED BY <2>1, <2>2, ZenonT(30)
  <1>11. \A l \in leases' : l = new \/ (l \in leases /\ since' = since)
    BY <1>4, <1>5, Zenon DEF SlotInv
  <1>12. FlightInv'
    <2>1. \A l \in leases' : l.object \in flight.objects => l \in leases /\ since' = since
      BY <1>2, <1>3, <1>11, ZenonT(30)
    <2> QED BY <1>5, <2>1, ZenonT(30) DEF FlightInv, Current
  <1>13. WindowInv'
    <2> SUFFICES ASSUME LeaseOutlastsLoss, NEW l \in leases', l.missed <= 1
                 PROVE  l.window + Reach(l)' > 2 * Interval + RoundMs
      BY ZenonT(30) DEF WindowInv, LeaseOutlastsLoss
    <2>1. CASE l = new
      <3>1. Reach(l)' = since'
        BY <1>2, <1>3, <1>5, <1>7, <2>1, SMTT(30) DEF Reach, InRegular
      <3> QED BY <1>3, <1>7, <2>1, <3>1, SMTT(30) DEF LeaseOutlastsLoss
    <2>2. CASE l \in leases /\ since' = since
      <3>1. Reach(l)' = Reach(l)
        BY <1>5, <2>2, Zenon DEF Reach, InRegular
      <3> QED BY <2>2, <3>1, Zenon DEF WindowInv
    <2> QED BY <1>11, <2>1, <2>2, ZenonT(30)
  <1> QED BY <1>9, <1>10, <1>12, <1>13, ZenonT(30)

LEMMA RemoveKeeps ==
    ASSUME ScheduleInv, NEW l \in leases, Remove(l)
    PROVE  ScheduleInv'
  <1> USE DEF ScheduleInv
  <1>1. leases' = leases \ {l} /\ UNCHANGED <<flight, since>>
    BY Zenon DEF Remove
  <1>2. /\ leases' = {} => nextAt' = {} /\ retry' = NoRetry /\ timer' = NoTimer
        /\ leases' # {} => UNCHANGED <<nextAt, retry, timer>>
    BY Zenon DEF Remove, Removed
  <1>3. NoRetry \in RetryType /\ NoTimer \in TimerType /\ ~NoTimer.set
    BY Zenon DEF NoRetry, NoTimer, RetryType, TimerType
  <1>4. ScheduleType'
    BY <1>1, <1>2, <1>3, ZenonT(30) DEF ScheduleType, Unique
  <1>5. SlotInv'
    BY <1>1, <1>2, <1>3, ZenonT(30) DEF SlotInv
  <1>6. FlightInv'
    BY <1>1, Zenon DEF FlightInv, Current
  <1>7. WindowInv'
    <2>1. \A k : Reach(k)' = Reach(k)
      BY <1>1, ZenonT(30) DEF Reach, InRegular
    <2> QED BY <1>1, <2>1, ZenonT(30) DEF WindowInv, LeaseOutlastsLoss
  <1> QED BY <1>4, <1>5, <1>6, <1>7, ZenonT(30)

\* What a round that leaves is: its timer was due, so leases are registered and none is in flight.
LEMMA RegularRoundKeeps ==
    ASSUME ScheduleInv, RegularRound
    PROVE  ScheduleInv'
  <1> USE ScheduleAssumption DEF ScheduleInv
  <1>1. /\ leases # {} /\ leases' = leases
        /\ nextAt' = {Interval} /\ since' = 0 /\ retry' = NoRetry /\ timer' = NoTimer
    BY Zenon DEF RegularRound, Send, RegularSlot, SlotInv
  <1>2. /\ flight'.on /\ ~flight'.retry /\ flight'.objects = Ids(leases)
        /\ flight'.age = 0 /\ flight'.left = RoundMs
        /\ flight' \in FlightType
    BY SMTT(30) DEF RegularRound, Send, FlightType, Ids, ScheduleType, LeaseType
  <1>3. NoRetry \in RetryType /\ NoTimer \in TimerType /\ ~NoTimer.set
    BY Zenon DEF NoRetry, NoTimer, RetryType, TimerType
  <1>4. ScheduleType'
    BY <1>1, <1>2, <1>3, Zenon DEF ScheduleType
  <1>5. SlotInv'
    BY <1>1, <1>2, <1>3, SMTT(30) DEF SlotInv
  <1>6. FlightInv'
    BY <1>1, <1>2, SMTT(30) DEF FlightInv, Ids
  <1>7. WindowInv'
    <2> SUFFICES ASSUME LeaseOutlastsLoss, NEW l \in leases, l.missed <= 1
                 PROVE  l.window + Reach(l)' > 2 * Interval + RoundMs
      BY <1>1, Zenon DEF WindowInv, LeaseOutlastsLoss
    <2>1. ~flight.on /\ since <= Interval /\ since \in Nat
      BY ZenonT(30) DEF RegularRound, SlotInv, ScheduleType
    <2>2. Reach(l)' = (IF l.missed = 0 THEN 0 ELSE Interval) + Interval
      BY <1>1, <1>2, SMTT(30) DEF Reach, InRegular, Ids
    <2>3. Reach(l) = since + (IF l.missed = 0 THEN 0 ELSE Interval)
      BY <2>1, SMTT(30) DEF Reach, InRegular
    <2>4. l.window \in Int
      BY Zenon DEF ScheduleType, LeaseType
    <2> QED BY <2>1, <2>2, <2>3, <2>4, SMTT(30) DEF WindowInv
  <1> QED BY <1>4, <1>5, <1>6, <1>7, ZenonT(30)

\* The bound of a busy retry: by the round bound, the regular slot and every window in it.
LEMMA BusyBound ==
    ASSUME ScheduleInv, leases # {}, NEW s, s = BusySelection
    PROVE  /\ RetryBound(s) \in Nat /\ RetryBound(s) <= RoundMs
           /\ RetryBound(s) + since <= Interval
           /\ \A l \in Current(s) : RetryBound(s) <= l.window
           /\ s \subseteq Objects
  <1> DEFINE S == {RoundMs} \union nextAt \union {l.window : l \in Current(s)}
  <1>1. \A l \in Current(s) : l.window \in Nat
    <2> SUFFICES ASSUME NEW l \in leases, l.object \in s PROVE l.window \in Nat
      BY Zenon DEF Current
    <2>1. PICK k \in leases : k.window > 0 /\ k.object = l.object
      BY Zenon DEF BusySelection, Current
    <2>2. k = l /\ l.window \in Int
      BY <2>1, Zenon DEF ScheduleInv, ScheduleType, Unique, LeaseType
    <2> QED BY <2>1, <2>2, SMTT(30)
  <1>2. nextAt = {Interval - since} /\ Interval - since \in Nat
    BY ScheduleAssumption, SMTT(30) DEF ScheduleInv, SlotInv, ScheduleType
  <1>3. S \in SUBSET Nat /\ S # {}
    BY <1>1, <1>2, ScheduleAssumption
  <1>4. Min(S) \in S /\ \A y \in S : Min(S) <= y
    BY <1>3, MinNatural, ZenonT(30)
  <1>5. RoundMs \in S /\ Interval - since \in S /\ \A l \in Current(s) : l.window \in S
    BY <1>2, Zenon
  <1>6. RetryBound(s) = Min(S)
    BY Zenon DEF RetryBound
  <1> HIDE DEF S
  <1>7. s \subseteq Objects
    BY Zenon DEF BusySelection, Current, ScheduleInv, ScheduleType, LeaseType
  <1>8. /\ RetryBound(s) \in Nat /\ RetryBound(s) <= RoundMs
        /\ RetryBound(s) <= Interval - since
        /\ \A l \in Current(s) : RetryBound(s) <= l.window
    BY <1>3, <1>4, <1>5, <1>6, ZenonT(30)
  <1>9. since \in Nat
    BY Zenon DEF ScheduleInv, ScheduleType
  <1> QED BY <1>7, <1>8, <1>9, ScheduleAssumption, SMTT(30)

LEMMA BusyRetryKeeps ==
    ASSUME ScheduleInv, NEW short \in BOOLEAN, BusyRetry(short)
    PROVE  ScheduleInv'
  <1> USE ScheduleAssumption
  <1>0. ScheduleType /\ SlotInv /\ FlightInv /\ WindowInv
    BY Zenon DEF ScheduleInv
  <1>1. leases # {} /\ ~flight.on /\ leases' = leases /\ since' = since
    BY <1>0, ZenonT(30) DEF BusyRetry, Send, SlotInv
  <1>2. nextAt = {Interval - since} /\ Interval - since \in Nat /\ since \in Nat
    BY <1>0, <1>1, SMTT(30) DEF SlotInv, ScheduleType
  <1>3. NoRetry \in RetryType /\ NoTimer \in TimerType /\ ~NoTimer.set
    BY Zenon DEF NoRetry, NoTimer, RetryType, TimerType
  <1>4. CASE flight' = flight /\ retry' = NoRetry /\ Schedule(leases, nextAt, NoRetry, FALSE, NoTimer)
    <2>1. /\ nextAt' = {Interval - since}
          /\ timer' \in TimerType /\ timer'.set /\ timer'.left <= Interval - since
      BY <1>1, <1>2, <1>3, <1>4, Rescheduled, ZenonT(30)
    <2>2. ScheduleType'
      BY <1>0, <1>1, <1>3, <1>4, <2>1, Zenon DEF ScheduleType
    <2>3. SlotInv'
      BY <1>1, <1>2, <1>4, <2>1, SMTT(30) DEF SlotInv, TimerType
    <2>4. FlightInv'
      BY <1>1, <1>4, Zenon DEF FlightInv
    <2>5. WindowInv'
      BY <1>0, <1>1, <1>4, Zenon DEF WindowInv, LeaseOutlastsLoss, Reach, InRegular
    <2> QED BY <2>2, <2>3, <2>4, <2>5, Zenon DEF ScheduleInv
  <1>5. CASE BusySelection # {} /\ Send(BusySelection, TRUE, RetryBound(BusySelection))
    <2> DEFINE s == BusySelection
    <2>1. /\ RetryBound(s) \in Nat /\ RetryBound(s) <= RoundMs
          /\ RetryBound(s) + since <= Interval
          /\ \A l \in Current(s) : RetryBound(s) <= l.window
          /\ s \subseteq Objects
      BY <1>1, BusyBound, Zenon
    <2>2. /\ flight'.on /\ flight'.retry /\ flight'.objects = s /\ flight'.age = 0
          /\ flight'.left = RetryBound(s) /\ flight' \in FlightType
          /\ nextAt' = nextAt /\ retry' = NoRetry /\ timer' = NoTimer
      BY <1>5, <2>1, Zenon DEF Send, FlightType, RegularSlot
    <2>3. ScheduleType'
      BY <1>0, <1>1, <1>3, <2>2, Zenon DEF ScheduleType
    <2>4. SlotInv'
      BY <1>1, <1>2, <1>3, <2>1, <2>2, SMTT(30) DEF SlotInv
    <2>5. FlightInv'
      BY <1>1, <1>2, <1>5, <2>1, <2>2, SMTT(30) DEF FlightInv, Current
    <2>6. WindowInv'
      BY <1>0, <1>1, <2>2, ZenonT(30) DEF WindowInv, LeaseOutlastsLoss, Reach, InRegular
    <2> QED BY <2>3, <2>4, <2>5, <2>6, Zenon DEF ScheduleInv
  <1> QED BY <1>4, <1>5, ZenonT(30) DEF BusyRetry

\* A round ends: what the schedule needs of the leases that it leaves.
LEMMA RoundEndsKeeps ==
    ASSUME ScheduleInv, flight.on, NEW ls, NEW next, NEW busy \in RetryType, NEW t \in TimerType,
           ~t.set, ls \subseteq LeaseType, Unique(ls),
           ls = {} => next = {}, ls # {} => leases # {} /\ next = nextAt,
           LeaseOutlastsLoss =>
              \A m \in ls : m.missed <= 1 =>
                 m.window + since + (IF m.missed = 0 THEN 0 ELSE Interval) > 2 * Interval + RoundMs,
           RoundEnds(ls, next, busy, t)
    PROVE  ScheduleInv'
  <1> USE ScheduleAssumption
  <1>0. ScheduleType /\ SlotInv /\ FlightInv /\ WindowInv
    BY ZenonT(30) DEF ScheduleInv
  <1>1. leases' = ls /\ flight' = NoFlight /\ retry' = busy /\ since' = since
    BY Zenon DEF RoundEnds
  <1>2. NoFlight \in FlightType /\ ~NoFlight.on
    BY Zenon DEF NoFlight, FlightType
  <1>3. /\ timer' \in TimerType
        /\ ls = {} => nextAt' = {} /\ ~timer'.set
        /\ ls # {} => /\ nextAt' = {Interval - since} /\ timer'.set
                      /\ timer'.left <= Interval - since /\ since <= Interval
    <2>1. CASE ls = {}
      BY <2>1, ZenonT(30) DEF RoundEnds, Schedule
    <2>2. CASE ls # {}
      <3>0. since \in Nat
        BY <1>0, ZenonT(30) DEF ScheduleType
      <3>a. next = {Interval - since} /\ since <= Interval
        BY <1>0, <2>2, ZenonT(30) DEF SlotInv
      <3>1. next = {Interval - since} /\ Interval - since \in Nat /\ since <= Interval
        BY <3>0, <3>a
      <3>2. Schedule(ls, {Interval - since}, busy, FALSE, t)
        BY <3>1, ZenonT(30) DEF RoundEnds
      <3> QED BY <2>2, <3>1, <3>2, Rescheduled, ZenonT(30)
    <2> QED BY <2>1, <2>2, ZenonT(30)
  <1>4. ScheduleType'
    BY <1>0, <1>1, <1>2, <1>3, Zenon DEF ScheduleType
  <1>5. SlotInv'
    BY <1>0, <1>1, <1>2, <1>3, SMTT(30) DEF SlotInv, TimerType, ScheduleType
  <1>6. FlightInv'
    BY <1>1, <1>2, ZenonT(30) DEF FlightInv
  <1>7. WindowInv'
    <2> SUFFICES ASSUME LeaseOutlastsLoss, NEW m \in ls, m.missed <= 1
                 PROVE  m.window + Reach(m)' > 2 * Interval + RoundMs
      BY <1>1, ZenonT(30) DEF WindowInv, LeaseOutlastsLoss
    <2>1. Reach(m)' = since + (IF m.missed = 0 THEN 0 ELSE Interval)
      BY <1>0, <1>1, <1>2, SMTT(30) DEF Reach, InRegular, ScheduleType
    <2>2. m.window \in Int /\ since \in Nat
      BY <1>0, ZenonT(30) DEF ScheduleType, LeaseType
    <2> QED BY <2>1, <2>2, SMTT(30)
  <1> QED BY <1>4, <1>5, <1>6, <1>7, ZenonT(30) DEF ScheduleInv

\* A lease that is not renewed keeps its identity, and a missed regular round counts.
LEMMA UnrenewedLease ==
    ASSUME ScheduleInv, flight.on, NEW l \in leases
    PROVE  /\ Unrenewed(l) \in LeaseType /\ Unrenewed(l).object = l.object
           /\ LeaseOutlastsLoss /\ Unrenewed(l).missed <= 1 =>
                 Unrenewed(l).window + since + (IF Unrenewed(l).missed = 0 THEN 0 ELSE Interval)
                    > 2 * Interval + RoundMs
  <1> USE ScheduleAssumption
  <1>1. l \in LeaseType /\ since \in Nat
    BY ZenonT(30) DEF ScheduleInv, ScheduleType
  <1>2. LeaseOutlastsLoss /\ l.missed <= 1 => l.window + Reach(l) > 2 * Interval + RoundMs
    BY ZenonT(30) DEF ScheduleInv, WindowInv
  <1>3. CASE flight.retry \/ l \notin AnsweredLeases
    <2>1. Unrenewed(l) = l /\ Reach(l) = since + (IF l.missed = 0 THEN 0 ELSE Interval)
      BY <1>1, <1>3, SMTT(30) DEF Unrenewed, AnsweredLeases, Current, Reach, InRegular
    <2> QED BY <1>1, <1>2, <2>1 DEF LeaseType
  <1>4. CASE ~flight.retry /\ l \in AnsweredLeases
    <2>1. Unrenewed(l) = [l EXCEPT !.missed = IF l.missed = 0 THEN 1 ELSE 2]
      BY <1>1, <1>4, MissedCount, ZenonT(30) DEF Unrenewed, LeaseType
    <2>2. /\ Unrenewed(l) \in LeaseType /\ Unrenewed(l).object = l.object
          /\ Unrenewed(l).window = l.window
          /\ Unrenewed(l).missed = IF l.missed = 0 THEN 1 ELSE 2
      BY <1>1, <2>1, SMTT(30) DEF LeaseType
    <2>3. l.missed = 0 => Reach(l) = since + Interval
      BY <1>1, <1>4, SMTT(30) DEF AnsweredLeases, Current, Reach, InRegular
    <2>4. l.missed \in 0..2 /\ l.window \in Int
      BY <1>1, Zenon DEF LeaseType
    <2> QED BY <1>1, <1>2, <2>2, <2>3, <2>4, SMTT(30)
  <1> QED BY <1>3, <1>4, ZenonT(30)

\* A renewed lease has a full window from the moment the round left.
LEMMA RenewedLease ==
    ASSUME ScheduleInv, flight.on, NEW l \in AnsweredLeases,
           NEW m, m = [l EXCEPT !.window = RenewedWindow, !.missed = 0]
    PROVE  /\ m \in LeaseType /\ m.object = l.object /\ m.missed = 0
           /\ LeaseOutlastsLoss => m.window + since > 2 * Interval + RoundMs
  <1> USE ScheduleAssumption
  <1>1. l \in LeaseType /\ since \in Nat /\ flight.age \in Nat /\ flight.age <= since
    BY DEF ScheduleInv, ScheduleType, FlightInv, FlightType, AnsweredLeases, Current
  <1>2. RenewedWindow \in Int /\ RenewedWindow = LeaseMs - flight.age
    BY <1>1 DEF RenewedWindow
  <1>5. m = [task |-> l.task, object |-> l.object, window |-> RenewedWindow, missed |-> 0]
    BY <1>1, Zenon DEF LeaseType
  <1>4. m \in LeaseType /\ m.object = l.object /\ m.missed = 0 /\ m.window = RenewedWindow
    <2>1. l.task \in Tasks /\ l.object \in Objects /\ 0 \in 0..2
      BY <1>1 DEF LeaseType
    <2> HIDE ScheduleAssumption
    <2> QED BY <1>2, <1>5, <2>1, ZenonT(30) DEF LeaseType
  <1>3. LeaseOutlastsLoss => 2 * Interval + RoundMs < LeaseMs
    BY SMTT(30) DEF LeaseOutlastsLoss
  <1> QED BY <1>1, <1>2, <1>3, <1>4, SMTT(30)

LEMMA RoundAnsweredKeeps ==
    ASSUME ScheduleInv, RoundAnswered
    PROVE  ScheduleInv'
  <1>1. PICK accepted \in SUBSET AnsweredLeases, busy \in SUBSET AnsweredLeases,
             gone \in SUBSET AnsweredLeases, delay \in RetryDelays :
           LET kept == {IF l \in accepted
                        THEN [l EXCEPT !.window = RenewedWindow, !.missed = 0]
                        ELSE Unrenewed(l) : l \in leases \ gone}
               r == Removed(kept, nextAt, retry, timer)
               again == IF busy = {} THEN r.retry
                        ELSE [objects |-> Ids(busy), left |-> delay]
           IN RoundEnds(kept, r.next, again, r.timer)
    BY ZenonT(30) DEF RoundAnswered
  <1> DEFINE after(l) == IF l \in accepted
                         THEN [l EXCEPT !.window = RenewedWindow, !.missed = 0]
                         ELSE Unrenewed(l)
             kept == {after(l) : l \in leases \ gone}
             r == Removed(kept, nextAt, retry, timer)
             again == IF busy = {} THEN r.retry ELSE [objects |-> Ids(busy), left |-> delay]
  <1>2. RoundEnds(kept, r.next, again, r.timer)
    BY <1>1, ZenonT(30)
  <1>3. flight.on
    BY Zenon DEF RoundAnswered
  <1>4. ASSUME NEW l \in leases
        PROVE  /\ after(l) \in LeaseType /\ after(l).object = l.object
               /\ LeaseOutlastsLoss /\ after(l).missed <= 1 =>
                     after(l).window + since + (IF after(l).missed = 0 THEN 0 ELSE Interval)
                        > 2 * Interval + RoundMs
    <2>1. CASE l \in accepted
      <3>1. l \in AnsweredLeases
             /\ after(l) = [l EXCEPT !.window = RenewedWindow, !.missed = 0]
        BY <2>1, ZenonT(30)
      <3> HIDE DEF after
      <3>2. /\ after(l) \in LeaseType /\ after(l).object = l.object /\ after(l).missed = 0
            /\ LeaseOutlastsLoss => after(l).window + since > 2 * Interval + RoundMs
        BY <1>3, <3>1, RenewedLease, ZenonT(30)
      <3>3. after(l).window \in Int /\ since \in Nat
        BY <3>2, ZenonT(30) DEF LeaseType, ScheduleInv, ScheduleType
      <3> QED BY <3>2, <3>3, ScheduleAssumption, SMTT(30)
    <2>2. CASE l \notin accepted
      BY <1>3, <2>2, UnrenewedLease, ZenonT(30)
    <2> QED BY <2>1, <2>2, ZenonT(30)
  <1> HIDE DEF after
  <1>5. kept \subseteq LeaseType /\ Unique(kept)
    BY <1>4 DEF Unique, ScheduleInv, ScheduleType
  <1>6. kept # {} => leases # {}
    BY Zenon
  <1>7. r.timer \in TimerType /\ ~r.timer.set
    BY <1>3, ZenonT(30) DEF Removed, NoTimer, TimerType, ScheduleInv, ScheduleType, SlotInv
  <1>8. /\ kept = {} => r.next = {}
        /\ kept # {} => r.next = nextAt
    BY ZenonT(30) DEF Removed
  <1>9. again \in RetryType
    <2>1. r.retry \in RetryType
      BY Zenon DEF Removed, NoRetry, RetryType, ScheduleInv, ScheduleType
    <2>2. Ids(busy) \subseteq Objects
      BY Zenon DEF Ids, AnsweredLeases, Current, ScheduleInv, ScheduleType, LeaseType
    <2>3. delay \in Nat
      BY ScheduleAssumption, Zenon
    <2>4. [objects |-> Ids(busy), left |-> delay] \in RetryType
      BY <2>2, <2>3, ZenonT(30) DEF RetryType
    <2> QED BY <2>1, <2>4, Zenon
  <1>10. LeaseOutlastsLoss =>
           \A m \in kept : m.missed <= 1 =>
              m.window + since + (IF m.missed = 0 THEN 0 ELSE Interval) > 2 * Interval + RoundMs
    BY <1>4, Zenon
  <1> HIDE DEF kept, again, r
  <1> HIDE DEF kept, r, again
  <1> QED BY <1>2, <1>3, <1>5, <1>6, <1>7, <1>8, <1>9, <1>10, RoundEndsKeeps, ZenonT(30)

LEMMA RoundFailsKeeps ==
    ASSUME ScheduleInv, RoundFails
    PROVE  ScheduleInv'
  <1> DEFINE ls == {Unrenewed(l) : l \in leases}
  <1>1. flight.on /\ RoundEnds(ls, nextAt, retry, timer)
    BY ZenonT(30) DEF RoundFails
  <1>2. ls \subseteq LeaseType /\ Unique(ls)
    BY <1>1, UnrenewedLease, SMTT(30) DEF Unique, ScheduleInv, ScheduleType
  <1>3. LeaseOutlastsLoss =>
           \A m \in ls : m.missed <= 1 =>
              m.window + since + (IF m.missed = 0 THEN 0 ELSE Interval) > 2 * Interval + RoundMs
    BY <1>1, UnrenewedLease, Zenon
  <1>4. timer \in TimerType /\ ~timer.set /\ retry \in RetryType
    BY <1>1, Zenon DEF ScheduleInv, ScheduleType, SlotInv
  <1>5. (ls = {} => nextAt = {}) /\ (ls # {} => leases # {})
    BY Zenon DEF ScheduleInv, SlotInv
  <1> HIDE DEF ls
  <1> QED BY <1>1, <1>2, <1>3, <1>4, <1>5, RoundEndsKeeps, Zenon

LEMMA ElapseKeeps ==
    ASSUME ScheduleInv, ScheduleElapses
    PROVE  ScheduleInv'
  <1> USE ScheduleAssumption
  <1> DEFINE after(l) == [l EXCEPT !.window = Down(@)]
  <1>0. ScheduleType /\ SlotInv /\ FlightInv /\ WindowInv
    BY Zenon DEF ScheduleInv
  <1>1. \A n \in Int : Down(n) \in Int /\ n - 1 <= Down(n)
    BY DEF Down
  <1>2. \A n \in Nat : Down(n) \in Nat /\ (n > 0 => Down(n) = n - 1)
    BY DEF Down
  <1>3. leases' = {after(l) : l \in leases}
    BY Zenon DEF ScheduleElapses
  <1>4. \A l \in leases : /\ after(l) \in LeaseType /\ after(l).object = l.object
                          /\ after(l).missed = l.missed /\ after(l).window = Down(l.window)
    BY <1>0, <1>1, Zenon DEF ScheduleType, LeaseType
  <1>5. /\ timer' \in TimerType /\ timer'.set = timer.set /\ timer'.left = Down(timer.left)
        /\ retry' \in RetryType
    BY <1>0, <1>2, Zenon DEF ScheduleElapses, ScheduleType, TimerType, RetryType
  <1>6. /\ flight' \in FlightType /\ flight'.on = flight.on /\ flight'.retry = flight.retry
        /\ flight'.objects = flight.objects
        /\ flight.on => flight'.age = flight.age + 1 /\ flight'.left = Down(flight.left)
    <2>1. flight \in FlightType /\ Down(flight.left) \in Nat /\ flight.age + 1 \in Nat
      BY <1>0, <1>2 DEF ScheduleType, FlightType
    <2>2. CASE flight.on
      <3>1. flight' = [flight EXCEPT !.age = flight.age + 1, !.left = Down(flight.left)]
        BY <2>2, Zenon DEF ScheduleElapses
      <3> QED BY <2>1, <3>1, ZenonT(30) DEF FlightType
    <2> QED BY <2>1, <2>2, Zenon DEF ScheduleElapses
  <1>7. since' = (IF leases = {} THEN since ELSE since + 1) /\ since' \in Nat /\ since \in Nat
    BY <1>0 DEF ScheduleElapses, ScheduleType
  <1>8. /\ timer.left \in Nat /\ flight.left \in Nat /\ flight.age \in Nat
        /\ timer.set => timer.left > 0 /\ Down(timer.left) = timer.left - 1
        /\ flight.on => flight.left > 0 /\ Down(flight.left) = flight.left - 1
    BY <1>0, <1>2, SMTT(30) DEF ScheduleElapses, ScheduleType, TimerType, FlightType
  <1> HIDE DEF after
  <1>9. ScheduleType'
    BY <1>0, <1>3, <1>4, <1>5, <1>6, <1>7, SMTT(30) DEF ScheduleType, Unique
  <1>10. SlotInv'
    <2>1. CASE leases = {}
      BY <1>0, <1>3, <1>5, <2>1, Zenon DEF SlotInv, ScheduleElapses
    <2>2. CASE leases # {}
      <3>1. /\ leases' # {} /\ nextAt = {Interval - since} /\ since' = since + 1
            /\ timer.set <=> ~flight.on
            /\ timer.set => timer.left + since <= Interval
            /\ flight.on => flight.left + since <= Interval
        BY <1>0, <1>3, <1>7, <2>2, Zenon DEF SlotInv
      <3>4. since < Interval
        BY <1>7, <1>8, <3>1
      <3>2. nextAt' = {Down(Interval - since)}
        BY <3>1, ZenonT(30) DEF ScheduleElapses
      <3>3. Down(Interval - since) = Interval - since'
        BY <1>2, <1>7, <3>1, <3>4, SMTT(30)
      <3>5. timer.set => timer'.left + since' <= Interval
        BY <1>5, <1>7, <1>8, <3>1, SMTT(30)
      <3>6. flight.on => flight'.left + since' <= Interval
        BY <1>6, <1>7, <1>8, <3>1, SMTT(30)
      <3>7. since' <= Interval
        BY <1>7, <3>1, <3>4, SMTT(30)
      <3>8. nextAt' = {Interval - since'}
        BY <3>2, <3>3, ZenonT(30)
      <3> QED BY <1>5, <1>6, <3>1, <3>5, <3>6, <3>7, <3>8, ZenonT(30) DEF SlotInv
    <2> QED BY <2>1, <2>2, Zenon
  <1>11. FlightInv'
    <2> SUFFICES ASSUME flight.on
                 PROVE  /\ flight.objects # {} /\ flight'.age + flight'.left <= RoundMs
                        /\ \A m \in leases' : m.object \in flight.objects =>
                              /\ IF flight.retry THEN flight'.age <= since' ELSE flight'.age = since'
                              /\ flight.retry => flight'.left <= m.window
      BY <1>6, Zenon DEF FlightInv, Current
    <2>1. flight.objects # {} /\ flight'.age + flight'.left <= RoundMs
      BY <1>0, <1>6, <1>8, SMTT(30) DEF FlightInv
    <2>2. ASSUME NEW l \in leases, after(l).object \in flight.objects
          PROVE  /\ IF flight.retry THEN flight'.age <= since' ELSE flight'.age = since'
                 /\ flight.retry => flight'.left <= after(l).window
      <3>1. /\ IF flight.retry THEN flight.age <= since ELSE flight.age = since
            /\ flight.retry => flight.left <= l.window
        BY <1>0, <1>4, <2>2, ZenonT(30) DEF FlightInv, Current
      <3>2. l.window \in Int /\ since' = since + 1
        BY <1>0, <1>7, ZenonT(30) DEF ScheduleType, LeaseType
      <3>3. l.window - 1 <= after(l).window /\ after(l).window \in Int
        BY <1>1, <1>4, <3>2, ZenonT(30)
      <3> QED BY <1>6, <1>7, <1>8, <3>1, <3>2, <3>3, SMTT(30)
    <2> QED BY <1>3, <2>1, <2>2, Zenon
  <1>12. WindowInv'
    <2> SUFFICES ASSUME LeaseOutlastsLoss, NEW x \in leases', x.missed <= 1
                 PROVE  x.window + Reach(x)' > 2 * Interval + RoundMs
      BY ZenonT(30) DEF WindowInv, LeaseOutlastsLoss
    <2>0. PICK l \in leases : x = after(l)
      BY <1>3, ZenonT(30)
    <2> HIDE DEF after
    <2>1. Reach(after(l))' = Reach(l) + 1 /\ Reach(l) \in Nat
      BY <1>4, <1>6, <1>7, SMTT(30) DEF Reach, InRegular
    <2>2. l.window + Reach(l) > 2 * Interval + RoundMs
      BY <1>0, <1>4, <2>0, Zenon DEF WindowInv
    <2>3. l.window \in Int
      BY <1>0, Zenon DEF ScheduleType, LeaseType
    <2>4. l.window - 1 <= after(l).window /\ after(l).window \in Int
      BY <1>1, <1>4, <2>3, Zenon
    <2> QED BY <2>0, <2>1, <2>2, <2>3, <2>4, SMTT(30)
  <1> QED BY <1>9, <1>10, <1>11, <1>12, ZenonT(30) DEF ScheduleInv

LEMMA NextSchedule ==
    ASSUME ScheduleInv, [ScheduleNext]_scheduleVars
    PROVE  ScheduleInv'
  <1>1. CASE UNCHANGED scheduleVars
    BY <1>1, ZenonT(30) DEF scheduleVars, ScheduleInv, ScheduleType, SlotInv, FlightInv,
       WindowInv, LeaseOutlastsLoss,
                Reach, InRegular, Current, Unique
  <1> QED BY <1>1, RegisterKeeps, RemoveKeeps, RegularRoundKeeps, BusyRetryKeeps,
             RoundAnsweredKeeps, RoundFailsKeeps, ElapseKeeps, Zenon DEF ScheduleNext

\* ScheduleInv holds in every reachable state: timer, round in flight and leases stay in step.
THEOREM ScheduleInvariance == ScheduleSpec => []ScheduleInv
  <1> QED BY InitSchedule, NextSchedule, PTL DEF ScheduleSpec

LEMMA ScheduleInTime ==
    ASSUME ScheduleInv
    PROVE  RegularRoundsOnTime /\ BusyRetryInTime /\ NoEmptyRound /\ SurvivesOneLostRound
  <1> USE ScheduleAssumption
  <1>0. ScheduleType /\ SlotInv /\ FlightInv /\ WindowInv
    BY ZenonT(30) DEF ScheduleInv
  <1>1. RegularRoundsOnTime /\ BusyRetryInTime /\ NoEmptyRound
    BY <1>0, ZenonT(30) DEF SlotInv, FlightInv, RegularRoundsOnTime, BusyRetryInTime, NoEmptyRound
  <1>2. ASSUME LeaseOutlastsLoss, NEW l \in leases, l.missed <= 1 PROVE l.window > 0
    <2>1. l.window \in Int /\ since \in Nat /\ since <= Interval
      BY <1>0, ZenonT(30) DEF ScheduleType, LeaseType, SlotInv
    <2>2. l.window + Reach(l) > 2 * Interval + RoundMs
      BY <1>0, <1>2, ZenonT(30) DEF WindowInv
    <2>3. CASE InRegular(l)
      <3>1. since <= RoundMs
        BY <1>0, <2>3, SMTT(30) DEF FlightInv, InRegular, Current, ScheduleType, FlightType
      <3>2. Reach(l) \in Nat /\ Reach(l) <= since + 2 * Interval
        BY <2>1, SMTT(30) DEF Reach
      <3> QED BY <2>1, <2>2, <3>1, <3>2, SMTT(30)
    <2>4. CASE ~InRegular(l)
      <3>1. Reach(l) \in Nat /\ Reach(l) <= 2 * Interval
        BY <2>1, <2>4, SMTT(30) DEF Reach
      <3> QED BY <2>1, <2>2, <3>1, SMTT(30)
    <2> QED BY <2>3, <2>4, ZenonT(30)
  <1> QED BY <1>1, <1>2, ZenonT(30) DEF SurvivesOneLostRound

LEMMA AnswerStep ==
    ASSUME ScheduleInv, [ScheduleNext]_scheduleVars
    PROVE  AnswersItsLeases
  <1> SUFFICES ASSUME flight.on, ~flight'.on
               PROVE  leases \ Current(flight.objects) \subseteq leases'
    BY ZenonT(30) DEF AnswersItsLeases
  <1>1. \A l \in leases \ Current(flight.objects) : Unrenewed(l) = l
    BY ZenonT(30) DEF Unrenewed, AnsweredLeases
  <1>2. CASE RoundAnswered
    <2>1. PICK accepted \in SUBSET AnsweredLeases, gone \in SUBSET AnsweredLeases :
             leases' = {IF l \in accepted
                        THEN [l EXCEPT !.window = RenewedWindow, !.missed = 0]
                        ELSE Unrenewed(l) : l \in leases \ gone}
      BY <1>2, ZenonT(30) DEF RoundAnswered, RoundEnds
    <2> QED BY <1>1, <2>1, Zenon DEF AnsweredLeases
  <1>3. CASE RoundFails
    BY <1>1, <1>3, Zenon DEF RoundFails, RoundEnds
  <1>4. CASE ScheduleElapses
    BY <1>4, Zenon DEF ScheduleElapses, ScheduleInv, ScheduleType, FlightType
  <1>5. CASE (\E task \in Tasks : Register(task)) \/ (\E l \in leases : Remove(l)) \/ UNCHANGED scheduleVars
    BY <1>5, ZenonT(30) DEF Register, Remove, scheduleVars
  <1>6. CASE RegularRound
    BY <1>6, Zenon DEF RegularRound, Send
  <1>7. ASSUME NEW short \in BOOLEAN, BusyRetry(short) PROVE FALSE
    BY <1>7, Zenon DEF BusyRetry, ScheduleInv, SlotInv
  <1> QED BY <1>2, <1>3, <1>4, <1>5, <1>6, <1>7, SMTT(30) DEF ScheduleNext

\* For any interval, round bound, lease and retry delays: while leases are registered a regular
\* round leaves every interval, no round leaves without a lease, a busy retry ends within the
\* windows it renews, and with the proportions of the defaults a lost round costs no lease
\* (scheduleHeartbeatBatch, takeBusyRetry, runHeartbeatBatch).
THEOREM RoundsInTimeAlways == ScheduleSpec => []RoundsInTime
  <1>1. ScheduleInv => RoundsInTime
    BY ScheduleInTime, Zenon DEF RoundsInTime
  <1> QED BY <1>1, ScheduleInvariance, PTL

\* The answer of a round leaves alone every lease that was registered after the round had left,
\* also one of the same task (runHeartbeatBatch compares lease objects).
THEOREM AnswerForItsLeaseAlways == ScheduleSpec => AnswerForItsLease
  <1>1. ScheduleInv /\ [ScheduleNext]_scheduleVars => [AnswersItsLeases]_scheduleVars
    BY AnswerStep, Zenon
  <1> QED BY <1>1, ScheduleInvariance, PTL DEF ScheduleSpec, AnswerForItsLease

-----------------------------------------------------------------------------
(* The reserved connection and the transaction on it *)

ConnType ==
    [client : {"none", "connecting", "connected"}, lost : BOOLEAN, retry : BOOLEAN,
     session : {"idle", "open", "aborted"}, parked : BOOLEAN]

\* The fields of a transaction; its members are whatever rounds they are.
TxShape(t) ==
    /\ t = [st |-> t.st, members |-> t.members, lent |-> t.lent, mine |-> t.mine,
            stray |-> t.stray, sent |-> t.sent, err |-> t.err, attempt |-> t.attempt]
    /\ t.lent \in BOOLEAN /\ t.mine \in BOOLEAN

ConnectionType ==
    conn \in ConnType /\ TxShape(tx) /\ closed \in BOOLEAN /\ entry \in BOOLEAN

\* A transaction that sends on the reserved client was lent it, and the client is there.
Lent(t, c) ==
    /\ t.lent => t.st \notin {"none", "refused"}
    /\ t.mine => t.lent /\ c.client = "connected"

\* An open session is that of the transaction in flight.
Open(t, c) ==
    c.session # "idle" => t.mine /\ t.st # "connect"

Held ==
    /\ closed <=> holders = {}
    /\ OneReservation

ConnectionInv == ConnectionType /\ Lent(tx, conn) /\ Open(tx, conn) /\ Held

\* What a step leaves of the connection and the transaction when the reservation stays as it is.
Sound(t, c) ==
    /\ c \in ConnType /\ TxShape(t) /\ Lent(t, c) /\ Open(t, c)
    /\ ~entry => c.client = "none"

LEMMA SoundKeeps ==
    ASSUME ConnectionInv, Sound(tx', conn'), UNCHANGED <<closed, holders, entry>>
    PROVE  ConnectionInv'
BY ZenonT(30) DEF ConnectionInv, ConnectionType, Sound, Lent, Open, Held, OneReservation

LEMMA FreshTx ==
    ASSUME NEW c \in ConnType, c.session = "idle", NEW t, NEW m, NEW s \in {"refused", "connect"},
           t = NoTx \/ t = [NoTx EXCEPT !.st = s, !.members = m]
    PROVE  TxShape(t) /\ Lent(t, c) /\ Open(t, c) /\ ~t.lent /\ ~t.mine
  <1>1. TxShape(t)
    <2>1. CASE t = NoTx
      BY <2>1, ZenonT(30) DEF NoTx, TxShape
    <2>2. CASE t = [NoTx EXCEPT !.st = s, !.members = m]
      BY <2>2, Zenon DEF NoTx, TxShape
    <2> QED BY <2>1, <2>2, ZenonT(30)
  <1>2. t.lent = FALSE /\ t.mine = FALSE
    <2>1. NoTx.lent = FALSE /\ NoTx.mine = FALSE
      BY ZenonT(30) DEF NoTx
    <2>2. LET u == [NoTx EXCEPT !.st = s, !.members = m] IN u.lent = FALSE /\ u.mine = FALSE
      BY Zenon DEF NoTx
    <2> QED BY <2>1, <2>2, Zenon
  <1> QED BY <1>1, <1>2, ZenonT(30) DEF Lent, Open

LEMMA AcquiredConn ==
    ASSUME NEW c \in ConnType, NEW b \in BOOLEAN
    PROVE  /\ Acquired(c, b) \in ConnType /\ Acquired(c, b).session = c.session
           /\ (b \/ c.client # "none") => Acquired(c, b) = c
           /\ Acquired(c, b).client \in {c.client, "connecting"}
BY ZenonT(30) DEF Acquired, ConnType

LEMMA StartNextSound ==
    ASSUME ConnectionInv, NEW r, NEW queue, NEW c \in ConnType, c.session = "idle",
           StartNext(r, queue, c), ~entry => c.client = "none"
    PROVE  /\ Sound(tx', conn') /\ ~tx'.lent
           /\ closed => conn' = c
  <1>1. closed \in BOOLEAN /\ (~entry => closed)
    BY ZenonT(30) DEF ConnectionInv, ConnectionType, Held, OneReservation
  <1>2. conn' = c \/ conn' = Acquired(c, closed)
    BY ZenonT(30) DEF StartNext
  <1>3. /\ conn' \in ConnType /\ conn'.session = "idle" /\ (closed => conn' = c)
        /\ ~entry => conn'.client = "none"
    BY <1>1, <1>2, AcquiredConn
  <1>4. \E m : \E s \in {"refused", "connect"} :
           tx' = NoTx \/ tx' = [NoTx EXCEPT !.st = s, !.members = m]
    BY Zenon DEF StartNext
  <1>5. TxShape(tx') /\ Lent(tx', conn') /\ Open(tx', conn') /\ ~tx'.lent
    BY <1>3, <1>4, FreshTx, Zenon
  <1> QED BY <1>3, <1>5, ZenonT(30) DEF Sound

LEMMA DiscardedConn ==
    ASSUME NEW c \in ConnType
    PROVE  /\ Discarded(c) \in ConnType /\ Discarded(c).session = "idle"
           /\ Discarded(c).client = "none"
BY ZenonT(30) DEF Discarded, ConnType

\* endTransaction leaves a session that is idle.
LEMMA EndWithErrorSound ==
    ASSUME ConnectionInv, NEW c \in ConnType, NEW clean \in BOOLEAN, EndWithError(c, clean),
           c.session # "idle" => tx.mine /\ ~clean,
           ~entry => c.client = "none"
    PROVE  /\ Sound(tx', conn') /\ ~tx'.lent
           /\ closed => conn'.client \in {"none", c.client}
  <1> DEFINE kept == IF tx.lent /\ tx.mine /\ ~clean THEN Discarded(c) ELSE c
  <1>1. PICK r : StartNext(r, waiting, Acquired(kept, closed))
    BY Zenon DEF EndWithError
  <1>2. tx.mine => tx.lent
    BY Zenon DEF ConnectionInv, Lent
  <1>3. kept \in ConnType /\ kept.session = "idle" /\ kept.client \in {"none", c.client}
    BY <1>2, DiscardedConn, Zenon
  <1> HIDE DEF kept
  <1>4. closed \in BOOLEAN /\ (~entry => closed)
    BY Zenon DEF ConnectionInv, ConnectionType, Held, OneReservation
  <1>5. /\ Acquired(kept, closed) \in ConnType /\ Acquired(kept, closed).session = "idle"
        /\ closed => Acquired(kept, closed) = kept
    BY <1>3, <1>4, AcquiredConn
  <1>6. ~entry => Acquired(kept, closed).client = "none"
    BY <1>3, <1>4, <1>5, Zenon
  <1> QED BY <1>1, <1>3, <1>5, <1>6, StartNextSound, Zenon

LEMMA SessionConn ==
    ASSUME ConnectionInv, NEW s \in {"idle", "open", "aborted"}
    PROVE  /\ Session(s) \in ConnType /\ Session(s).client = conn.client
           /\ Session(s).session = IF tx.mine THEN s ELSE conn.session
           /\ ~entry => Session(s).client = "none"
BY Zenon DEF ConnectionInv, ConnectionType, Session, ConnType, Held, OneReservation

LEMMA EndRowsSound ==
    ASSUME ConnectionInv, EndWithRows(Session("idle"))
    PROVE  Sound(tx', conn')
  <1>1. PICK r : StartNext(r, waiting, Session("idle"))
    BY Zenon DEF EndWithRows
  <1>2. Session("idle") \in ConnType /\ Session("idle").session = "idle"
        /\ (~entry => Session("idle").client = "none")
    BY SessionConn, Zenon DEF ConnectionInv, Open
  <1> QED BY <1>1, <1>2, StartNextSound, Zenon

\* The transaction moves on: its client and lending stay.
LEMMA TxStep ==
    ASSUME ConnectionInv, TxShape(tx'), tx'.lent = tx.lent, tx'.mine = tx.mine,
           tx'.st \notin {"none", "refused", "connect"},
           NEW s \in {"open", "aborted"}, conn' = Session(s) \/ conn' = conn, tx.st # "connect"
    PROVE  Sound(tx', conn')
  <1>1. conn' \in ConnType /\ conn'.client = conn.client /\ (~entry => conn'.client = "none")
        /\ (conn'.session # "idle" => tx.mine)
    BY SessionConn, Zenon DEF ConnectionInv, ConnectionType, Held, OneReservation, Open
  <1> QED BY <1>1, Zenon DEF Sound, Lent, Open, ConnectionInv

LEMMA RollbackSound ==
    ASSUME ConnectionInv, NEW err, NEW s \in {"open", "aborted"}, tx.st # "connect", Rollback(err, s)
    PROVE  Sound(tx', conn')
  <1>1. CASE Late
    <2>1. EndWithError(Session(s), FALSE)
      BY <1>1, ZenonT(30) DEF Rollback
    <2>2. Session(s).session # "idle" => tx.mine
      BY SessionConn, ZenonT(30) DEF ConnectionInv, Open
    <2> QED BY <2>1, <2>2, SessionConn, EndWithErrorSound, Zenon
  <1>2. CASE ~Late
    <2>1. tx' = [tx EXCEPT !.st = "rollback", !.err = err] /\ conn' = Session(s)
      BY <1>2, ZenonT(30) DEF Rollback
    <2>2. TxShape(tx') /\ tx'.lent = tx.lent /\ tx'.mine = tx.mine /\ tx'.st = "rollback"
      BY <2>1, Zenon DEF TxShape, ConnectionInv, ConnectionType
    <2> QED BY <2>1, <2>2, TxStep, ZenonT(30)
  <1> QED BY <1>1, <1>2, ZenonT(30)

LEMMA InitConnection == Init => ConnectionInv
  <1> SUFFICES ASSUME Init PROVE ConnectionInv
    BY ZenonT(30)
  <1>1. NoConn \in ConnType /\ NoConn.session = "idle" /\ NoConn.client = "none"
    BY Zenon DEF NoConn, ConnType
  <1>2. closed \in BOOLEAN /\ entry \in BOOLEAN /\ (closed <=> holders = {}) /\ (closed <=> ~entry)
    BY Zenon DEF Init
  <1>3. conn \in ConnType /\ conn.session = "idle" /\ (closed => conn.client = "none")
    BY <1>1, <1>2, AcquiredConn, Zenon DEF Init
  <1>4. TxShape(tx) /\ Lent(tx, conn) /\ Open(tx, conn)
    BY <1>3, FreshTx, Zenon DEF Init
  <1> QED BY <1>2, <1>3, <1>4, ZenonT(30) DEF ConnectionInv, ConnectionType, Held, OneReservation

LEMMA HoldKeeps ==
    ASSUME ConnectionInv, NEW w \in Workers, Hold(w)
    PROVE  ConnectionInv'
  <1> DEFINE old == IF entry THEN conn ELSE NoConn
             open == IF holders = {} /\ old.client = "connected"
                     THEN [old EXCEPT !.lost = FALSE] ELSE old
  <1>1. /\ holders' = holders \union {w} /\ closed' = FALSE /\ entry' = TRUE /\ tx' = tx
        /\ conn' = Acquired(open, FALSE) /\ (entry \/ tx.st = "none")
    BY ZenonT(30) DEF Hold
  <1>2. /\ old \in ConnType
        /\ Lent(tx, old) /\ Open(tx, old)
    <2>1. CASE entry
      BY <2>1, ZenonT(30) DEF ConnectionInv, ConnectionType
    <2>2. CASE ~entry
      BY <1>1, <2>2, ZenonT(30) DEF ConnectionInv, ConnectionType, NoConn, ConnType, Lent, Open
    <2> QED BY <2>1, <2>2, ZenonT(30)
  <1> HIDE DEF old
  <1>3. open \in ConnType /\ open.client = old.client /\ open.session = old.session
    BY <1>2, Zenon DEF ConnType
  <1> HIDE DEF open
  <1>4. /\ conn' \in ConnType /\ conn'.session = open.session
        /\ open.client # "none" => conn'.client = open.client
    BY <1>1, <1>3, AcquiredConn, Zenon
  <1> QED BY <1>1, <1>2, <1>3, <1>4, ZenonT(30)
             DEF ConnectionInv, ConnectionType, Lent, Open, Held, OneReservation

LEMMA CloseKeeps ==
    ASSUME ConnectionInv, NEW w \in Workers, Close(w)
    PROVE  ConnectionInv'
  <1>1. /\ w \in holders /\ holders' = holders \ {w} /\ UNCHANGED <<tx, entry>>
        /\ IF holders' = {} THEN closed' = TRUE /\ conn' = [conn EXCEPT !.retry = FALSE]
           ELSE UNCHANGED <<closed, conn>>
    BY Zenon DEF Close
  <1>2. conn' \in ConnType /\ conn'.client = conn.client /\ conn'.session = conn.session
    BY <1>1, ZenonT(30) DEF ConnectionInv, ConnectionType, ConnType
  <1> QED BY <1>1, <1>2, Zenon DEF ConnectionInv, ConnectionType, Lent, Open, Held, OneReservation

\* The client goes back to the pool: the transaction has it no more.
LEMMA StrayTx ==
    ASSUME ConnectionInv, NEW c \in ConnType, c.session = "idle"
    PROVE  TxShape(Stray) /\ Lent(Stray, c) /\ Open(Stray, c)
  <1>1. CASE tx.st \in {"none", "refused"}
    BY <1>1, Zenon DEF Stray, ConnectionInv, ConnectionType, Lent, Open
  <1>2. CASE tx.st \notin {"none", "refused"}
    <2>1. Stray = [tx EXCEPT !.stray = TRUE, !.mine = FALSE]
      BY <1>2, ZenonT(30) DEF Stray
    <2>2. TxShape(Stray) /\ Stray.lent = tx.lent /\ Stray.mine = FALSE /\ Stray.st = tx.st
      BY <2>1, ZenonT(30) DEF TxShape, ConnectionInv, ConnectionType
    <2> QED BY <1>2, <2>2, ZenonT(30) DEF Lent, Open
  <1> QED BY <1>1, <1>2, Zenon

LEMMA CloseSettledKeeps ==
    ASSUME ConnectionInv, NEW w \in Workers, CloseSettled(w)
    PROVE  ConnectionInv'
  <1> DEFINE held == closing[w].held
             ours == held /\ closed
  <1>1. UNCHANGED <<closed, holders>>
    BY ZenonT(30) DEF CloseSettled
  <1>2. CASE ours /\ conn.client = "connecting"
    <2>1. conn' = [conn EXCEPT !.parked = TRUE] /\ tx' = tx /\ entry' = entry
      BY <1>2, ZenonT(30) DEF CloseSettled
    <2>2. conn' \in ConnType /\ conn'.client = conn.client /\ conn'.session = conn.session
      BY <2>1, ZenonT(30) DEF ConnectionInv, ConnectionType, ConnType
    <2> QED BY <1>1, <2>1, <2>2, ZenonT(30) DEF ConnectionInv, ConnectionType, Lent, Open, Held,
               OneReservation
  <1>3. CASE ours /\ conn.client = "connected"
    <2>1. /\ conn' = [Discarded(conn) EXCEPT !.lost = TRUE] /\ tx' = Stray
          /\ entry' = Forgotten(held)
      BY <1>3, ZenonT(30) DEF CloseSettled
    <2>2. conn' \in ConnType /\ conn'.client = "none" /\ conn'.session = "idle"
      BY <2>1, DiscardedConn, Zenon DEF ConnectionInv, ConnectionType, ConnType
    <2>3. TxShape(tx') /\ Lent(tx', conn') /\ Open(tx', conn')
      BY <2>1, <2>2, StrayTx, Zenon
    <2>4. entry' \in BOOLEAN
      BY <2>1, ZenonT(30) DEF Forgotten
    <2> QED BY <1>1, <1>3, <2>2, <2>3, <2>4, ZenonT(30)
               DEF ConnectionInv, ConnectionType, Held, OneReservation
  <1>4. CASE ~(ours /\ conn.client \in {"connecting", "connected"})
    <2>1. conn' = conn /\ tx' = tx /\ entry' = Forgotten(held)
      BY <1>4, Zenon DEF CloseSettled
    <2>2. entry' \in BOOLEAN
      BY <2>1, ZenonT(30) DEF Forgotten
    <2>3. ~entry' => holders = {} /\ conn.client = "none"
      BY <1>4, <2>1, ZenonT(30) DEF Forgotten, ConnectionInv, ConnectionType, ConnType, Held,
         OneReservation
    <2> QED BY <1>1, <2>1, <2>2, <2>3, ZenonT(30)
               DEF ConnectionInv, ConnectionType, Held, OneReservation
  <1> QED BY <1>2, <1>3, <1>4, ZenonT(30)

LEMMA ConnectArrivesKeeps ==
    ASSUME ConnectionInv, ConnectArrives
    PROVE  ConnectionInv'
  <1>0. conn.client = "connecting" /\ UNCHANGED <<closed, holders>> /\ conn \in ConnType
    BY Zenon DEF ConnectArrives, ConnectionInv, ConnectionType
  <1>9. conn.session = "idle" /\ entry /\ ~tx.mine
    BY <1>0, ZenonT(30) DEF ConnectionInv, Lent, Open, Held, OneReservation
  <1>1. CASE conn.parked /\ closed
    <2>1. /\ conn' = [conn EXCEPT !.client = "none", !.lost = TRUE, !.parked = FALSE]
          /\ tx' = Stray /\ Drained
      BY <1>1, ZenonT(30) DEF ConnectArrives
    <2>2. conn' \in ConnType /\ conn'.client = "none" /\ conn'.session = "idle"
      BY <1>0, <1>9, <2>1, ZenonT(30) DEF ConnType
    <2>3. TxShape(tx') /\ Lent(tx', conn') /\ Open(tx', conn')
      BY <2>1, <2>2, StrayTx, ZenonT(30)
    <2> QED BY <1>0, <1>1, <2>1, <2>2, <2>3, ZenonT(30)
               DEF Drained, ConnectionInv, ConnectionType, Held, OneReservation
  <1>2. CASE ~(conn.parked /\ closed)
    <2>1. conn' = Connected(conn) /\ tx' = tx /\ entry' = entry
      BY <1>2, ZenonT(30) DEF ConnectArrives
    <2>2. conn' \in ConnType /\ conn'.client = "connected" /\ conn'.session = "idle"
      BY <1>0, <2>1, Zenon DEF ConnType, Connected
    <2> QED BY <1>0, <1>9, <2>1, <2>2, ZenonT(30)
               DEF ConnectionInv, ConnectionType, Lent, Open, Held, OneReservation
  <1> QED BY <1>1, <1>2, ZenonT(30)

LEMMA ConnectFailsKeeps ==
    ASSUME ConnectionInv, ConnectFails
    PROVE  ConnectionInv'
  <1>0. conn.client = "connecting" /\ UNCHANGED <<closed, holders>> /\ conn \in ConnType
        /\ closed \in BOOLEAN
    BY ZenonT(30) DEF ConnectFails, ConnectionInv, ConnectionType
  <1>1. conn.session = "idle" /\ entry /\ ~tx.mine
    BY <1>0, ZenonT(30) DEF ConnectionInv, Lent, Open, Held, OneReservation
  <1>2. /\ ConnectFailed(conn) \in ConnType /\ ConnectFailed(conn).session = "idle"
        /\ ConnectFailed(conn).client = "none"
    BY <1>0, <1>1, ZenonT(30) DEF ConnectFailed, ConnType
  <1>3. /\ conn' \in ConnType /\ TxShape(tx') /\ Lent(tx', conn') /\ Open(tx', conn')
        /\ closed => conn'.client = "none"
    <2>1. CASE tx.st = "connect"
      <3>1. EndWithError(ConnectFailed(conn), FALSE)
        BY <2>1, ZenonT(30) DEF ConnectFails
      <3> QED BY <1>2, <3>1, EndWithErrorSound, Zenon DEF Sound
    <2>2. CASE tx.st # "connect"
      <3>1. conn' = ConnectFailed(conn) /\ tx' = tx
        BY <2>2, ZenonT(30) DEF ConnectFails
      <3> QED BY <1>1, <1>2, <3>1, ZenonT(30) DEF ConnectionInv, ConnectionType, Lent, Open
    <2> QED BY <2>1, <2>2, ZenonT(30)
  <1>4. IF conn.parked /\ closed THEN Drained ELSE UNCHANGED entry
    BY Zenon DEF ConnectFails
  <1> QED BY <1>0, <1>1, <1>3, <1>4, ZenonT(30)
             DEF Drained, ConnectionInv, ConnectionType, Held, OneReservation

LEMMA ReplacedKeeps ==
    ASSUME ConnectionInv, RetryConnect \/ ConnectionFails
    PROVE  ConnectionInv'
  <1>0. conn \in ConnType /\ closed \in BOOLEAN /\ (~entry => closed /\ conn.client = "none")
    BY Zenon DEF ConnectionInv, ConnectionType, Held, OneReservation
  <1>1. CASE RetryConnect
    <2> DEFINE c == [conn EXCEPT !.retry = FALSE]
    <2>1. conn' = Acquired(c, closed) /\ UNCHANGED <<tx, closed, holders, entry>>
      BY <1>1, Zenon DEF RetryConnect
    <2>2. c \in ConnType /\ c.client = conn.client /\ c.session = conn.session
      BY <1>0, ZenonT(30) DEF ConnType
    <2> HIDE DEF c
    <2>3. /\ conn' \in ConnType /\ conn'.session = conn.session
          /\ (closed \/ conn.client # "none") => conn'.client = conn.client
      BY <1>0, <2>1, <2>2, AcquiredConn, SMTT(30)
    <2>4. Sound(tx', conn')
      BY <1>0, <2>1, <2>3, Zenon DEF Sound, ConnectionInv, ConnectionType, Lent, Open
    <2> QED BY <2>1, <2>4, SoundKeeps, ZenonT(30)
  <1>2. CASE ConnectionFails
    <2> DEFINE c == [Discarded(conn) EXCEPT !.lost = TRUE]
    <2>1. /\ conn' = Acquired(c, closed) /\ tx' = [tx EXCEPT !.mine = FALSE]
          /\ UNCHANGED <<closed, holders, entry>>
      BY <1>2, Zenon DEF ConnectionFails
    <2>2. c \in ConnType /\ c.client = "none" /\ c.session = "idle"
      BY <1>0, DiscardedConn, Zenon DEF ConnType
    <2> HIDE DEF c
    <2>3. /\ conn' \in ConnType /\ conn'.session = "idle" /\ (closed => conn'.client = "none")
      BY <1>0, <2>1, <2>2, AcquiredConn
    <2>4. TxShape(tx') /\ tx'.lent = tx.lent /\ tx'.mine = FALSE /\ tx'.st = tx.st
      BY <2>1, ZenonT(30) DEF ConnectionInv, ConnectionType, TxShape
    <2>5. Sound(tx', conn')
      BY <1>0, <2>3, <2>4, Zenon DEF Sound, ConnectionInv, Lent, Open
    <2> QED BY <2>1, <2>5, SoundKeeps, Zenon
  <1> QED BY <1>1, <1>2, ZenonT(30)

\* An expired or failed round ends the transaction: the session of a client kept is idle.
LEMMA RoundKeeps ==
    ASSUME ConnectionInv, NEW w \in Workers, Renew(w) \/ TimedOut(w)
    PROVE  ConnectionInv'
  <1>0. /\ UNCHANGED <<closed, holders, entry>>
        /\ conn \in ConnType /\ (~entry => conn.client = "none")
    BY Zenon DEF Renew, TimedOut, Shared, ConnectionInv, ConnectionType, Held, OneReservation
  <1>1. CASE Renew(w)
    <2>1. CASE tx.st = "none"
      <3>1. PICK r : StartNext(r, Append(waiting, w), conn)
        BY <1>1, <2>1, ZenonT(30) DEF Renew
      <3>2. conn.session = "idle"
        BY <2>1, ZenonT(30) DEF ConnectionInv, Lent, Open
      <3> QED BY <1>0, <3>1, <3>2, StartNextSound, SoundKeeps, ZenonT(30)
    <2>2. CASE tx.st # "none"
      <3>1. UNCHANGED <<tx, conn>>
        BY <1>1, <2>2, Zenon DEF Renew
      <3> QED BY <1>0, <3>1, ZenonT(30) DEF ConnectionInv, ConnectionType, Held, OneReservation
    <2> QED BY <2>1, <2>2, Zenon
  <1>2. CASE TimedOut(w) /\ tx.st # "none" /\ Leader = w
    <2>1. EndWithError(conn, FALSE)
      BY <1>2, Zenon DEF TimedOut
    <2> QED BY <1>0, <2>1, EndWithErrorSound, SoundKeeps, ZenonT(30) DEF ConnectionInv, Open
  <1>3. CASE TimedOut(w) /\ ~(tx.st # "none" /\ Leader = w)
    <2>1. PICK m : tx' = [tx EXCEPT !.members = m] /\ conn' = conn
      BY <1>3, Zenon DEF TimedOut
    <2>2. TxShape(tx') /\ tx'.lent = tx.lent /\ tx'.mine = tx.mine /\ tx'.st = tx.st
      BY <2>1, ZenonT(30) DEF ConnectionInv, ConnectionType, TxShape
    <2> QED BY <1>0, <2>1, <2>2, ZenonT(30) DEF ConnectionInv, ConnectionType, Lent, Open, Held,
               OneReservation
  <1> QED BY <1>1, <1>2, <1>3, Zenon

LEMMA EndedKeeps ==
    ASSUME ConnectionInv, Refused \/ StatementLost
    PROVE  ConnectionInv'
  <1>1. EndWithError(conn, FALSE) /\ UNCHANGED <<closed, holders, entry>>
    BY Zenon DEF Refused, StatementLost, Shared
  <1>2. conn \in ConnType /\ (~entry => conn.client = "none") /\ (conn.session # "idle" => tx.mine)
    BY ZenonT(30) DEF ConnectionInv, ConnectionType, Open, Held, OneReservation
  <1> QED BY <1>1, <1>2, EndWithErrorSound, SoundKeeps, ZenonT(30)

LEMMA SendBeginKeeps ==
    ASSUME ConnectionInv, NEW short \in BOOLEAN, SendBegin(short)
    PROVE  ConnectionInv'
  <1>0. UNCHANGED <<closed, holders, entry>> /\ tx.st = "connect" /\ conn.session = "idle"
        /\ conn \in ConnType /\ (~entry => conn.client = "none")
    BY Zenon DEF SendBegin, Shared, ConnectionInv, ConnectionType, Open, Held, OneReservation
  <1>1. CASE TooShort(short)
    <2>1. EndWithError(conn, ~tx.sent)
      BY <1>1, ZenonT(30) DEF SendBegin
    <2> QED BY <1>0, <2>1, EndWithErrorSound, SoundKeeps, ZenonT(30)
  <1>2. CASE ~TooShort(short)
    <2>1. /\ tx' = [tx EXCEPT !.st = "begin", !.lent = TRUE, !.mine = ~tx.stray] /\ conn' = conn
          /\ tx.stray \/ conn.client = "connected"
      BY <1>2, ZenonT(30) DEF SendBegin
    <2>2. TxShape(tx') /\ tx'.lent = TRUE /\ tx'.mine = ~tx.stray /\ tx'.st = "begin"
      BY <2>1, Zenon DEF ConnectionInv, ConnectionType, TxShape
    <2>3. Sound(tx', conn')
      BY <1>0, <2>1, <2>2, ZenonT(30) DEF Sound, Lent, Open
    <2> QED BY <1>0, <2>3, SoundKeeps
  <1> QED BY <1>1, <1>2, ZenonT(30)

LEMMA AnsweredKeeps ==
    ASSUME ConnectionInv, NEW short \in BOOLEAN,
           BeginAnswered(short) \/ SettingsAnswered(short) \/ HeartbeatAnswered
    PROVE  ConnectionInv'
  <1>0. UNCHANGED <<closed, holders, entry>> /\ tx.st \in {"begin", "settings", "heartbeat"}
    BY ZenonT(30) DEF BeginAnswered, SettingsAnswered, HeartbeatAnswered, Shared
  <1>1. CASE \E err : Rollback(err, "open")
    BY <1>0, <1>1, RollbackSound, SoundKeeps, ZenonT(30)
  <1>2. CASE ~\E err : Rollback(err, "open")
    <2>1. PICK s, b, m :
             /\ s \in {"settings", "heartbeat", "commit"} /\ b \in {tx.sent, TRUE}
             /\ tx' = [tx EXCEPT !.st = s, !.sent = b, !.members = m]
             /\ conn' = Session("open") \/ conn' = conn
      <3>1. CASE BeginAnswered(short)
        <4>1. tx' = [tx EXCEPT !.st = "settings"] /\ conn' = Session("open")
          BY <1>2, <3>1, ZenonT(30) DEF BeginAnswered
        <4>2. tx' = [tx EXCEPT !.st = "settings", !.sent = tx.sent, !.members = tx.members]
          BY <4>1, Zenon DEF ConnectionInv, ConnectionType, TxShape
        <4> QED BY <4>1, <4>2, Zenon
      <3>2. CASE SettingsAnswered(short)
        <4>1. PICK m : tx' = [tx EXCEPT !.st = "heartbeat", !.sent = TRUE, !.members = m]
                       /\ conn' = conn
          BY <1>2, <3>2, Zenon DEF SettingsAnswered
        <4> QED BY <4>1, Zenon
      <3>3. CASE HeartbeatAnswered
        <4>1. tx' = [tx EXCEPT !.st = "commit"] /\ conn' = conn
          BY <1>2, <3>3, ZenonT(30) DEF HeartbeatAnswered
        <4>2. tx' = [tx EXCEPT !.st = "commit", !.sent = tx.sent, !.members = tx.members]
          BY <4>1, Zenon DEF ConnectionInv, ConnectionType, TxShape
        <4> QED BY <4>1, <4>2, Zenon
      <3> QED BY <3>1, <3>2, <3>3, ZenonT(30)
    <2>2. TxShape(tx') /\ tx'.lent = tx.lent /\ tx'.mine = tx.mine /\ tx'.st = s
      BY <2>1, Zenon DEF ConnectionInv, ConnectionType, TxShape
    <2>3. Sound(tx', conn')
      BY <1>0, <2>1, <2>2, TxStep, ZenonT(30)
    <2> QED BY <1>0, <2>3, SoundKeeps, ZenonT(30)
  <1> QED BY <1>1, <1>2, ZenonT(30)

LEMMA CommitKeeps ==
    ASSUME ConnectionInv, CommitAnswered
    PROVE  ConnectionInv'
  <1>1. UNCHANGED <<closed, holders, entry>>
        /\ (EndWithError(Session("idle"), FALSE) \/ EndWithRows(Session("idle")))
    BY ZenonT(30) DEF CommitAnswered, Shared
  <1>2. Session("idle") \in ConnType /\ Session("idle").session = "idle"
        /\ (~entry => Session("idle").client = "none")
    BY SessionConn, ZenonT(30) DEF ConnectionInv, Open
  <1> QED BY <1>1, <1>2, EndWithErrorSound, EndRowsSound, SoundKeeps, ZenonT(30)

LEMMA StatementFailsKeeps ==
    ASSUME ConnectionInv, NEW err \in {"failed", "deadlock"}, StatementFails(err)
    PROVE  ConnectionInv'
BY RollbackSound, SoundKeeps, ZenonT(30) DEF StatementFails, Shared

LEMMA RollbackKeeps ==
    ASSUME ConnectionInv, RollbackAnswered
    PROVE  ConnectionInv'
  <1>0. UNCHANGED <<closed, holders, entry>>
    BY Zenon DEF RollbackAnswered, Shared
  <1>1. Session("idle") \in ConnType /\ Session("idle").session = "idle"
        /\ Session("idle").client = conn.client /\ (~entry => Session("idle").client = "none")
    BY SessionConn, ZenonT(30) DEF ConnectionInv, Open
  <1>2. CASE tx.err = "deadlock" /\ tx.attempt < Attempts
    <2>1. /\ tx' = [tx EXCEPT !.st = "connect", !.err = "none", !.attempt = @ + 1]
          /\ conn' = Session("idle") /\ tx.st = "rollback"
      BY <1>2, ZenonT(30) DEF RollbackAnswered
    <2>2. TxShape(tx') /\ tx'.lent = tx.lent /\ tx'.mine = tx.mine /\ tx'.st = "connect"
      BY <2>1, Zenon DEF ConnectionInv, ConnectionType, TxShape
    <2>3. Sound(tx', conn')
      BY <1>1, <2>1, <2>2, ZenonT(30) DEF Sound, Lent, Open, ConnectionInv
    <2> QED BY <1>0, <2>3, SoundKeeps, ZenonT(30)
  <1>3. CASE ~(tx.err = "deadlock" /\ tx.attempt < Attempts)
    <2>1. EndWithError(Session("idle"), tx.err = "clean" /\ ~Late)
      BY <1>3, ZenonT(30) DEF RollbackAnswered
    <2> QED BY <1>0, <1>1, <2>1, EndWithErrorSound, SoundKeeps, ZenonT(30)
  <1> QED BY <1>2, <1>3, ZenonT(30)

LEMMA NextConnection ==
    ASSUME ConnectionInv, [Next]_vars
    PROVE  ConnectionInv'
  <1>1. CASE UNCHANGED vars \/ Elapse
    BY <1>1 DEF vars, Elapse, ConnectionInv, ConnectionType, Held, OneReservation
  <1>2. CASE Answered
    BY <1>2, SendBeginKeeps, AnsweredKeeps, CommitKeeps, RollbackKeeps, ZenonT(30) DEF Answered
  <1>3. CASE Failed
    BY <1>3, EndedKeeps, StatementFailsKeeps, ZenonT(30) DEF Failed
  <1> QED BY <1>1, <1>2, <1>3, HoldKeeps, CloseKeeps, CloseSettledKeeps, RoundKeeps,
             ConnectArrivesKeeps, ConnectFailsKeeps, ReplacedKeeps, EndedKeeps, SMTT(30) DEF Next

\* For every set of workers and every deadline: the session of the reserved connection is idle between
\* transactions (endTransaction discards the client after a failure that leaves one open), and a
\* reservation leaves sharedConnections with no holder and no connection, so that two workers of a
\* pool never have two heartbeat connections (holdHeartbeatConnection, close).
THEOREM ConnectionKeptAlways == Spec => []ConnectionKept
  <1>1. ConnectionInv => ConnectionKept
    BY Zenon DEF ConnectionInv, Open, Lent, Held, SessionIdle, ConnectionKept
  <1> QED BY <1>1, InitConnection, NextConnection, PTL DEF Spec

-----------------------------------------------------------------------------
(* The rounds and their transaction *)

RoundShape(r) ==
    /\ r = [st |-> r.st, left |-> r.left, batches |-> r.batches, rows |-> r.rows,
            passed |-> r.passed]
    /\ r.left \in Nat /\ r.batches \in Nat /\ r.passed \in Nat

MemberType == [worker : Workers, live : BOOLEAN, batches : Nat]

RoundsType(r) ==
    r = [w \in Workers |-> r[w]] /\ \A w \in Workers : RoundShape(r[w])

\* A round waits in the queue once.
Queued(r, q) == q \in Seq(Workers) /\ Distinct(q) /\ \A w \in Elements(q) : r[w].st = "waiting"

OwnRows(r) ==
    \A w \in Workers : r[w].st = "resolved" => r[w].rows = [b \in 1..r[w].batches |-> w]

Few(r) == \A w \in Workers : r[w].st \in {"waiting", "member"} => r[w].passed <= 1

\* A round that has not settled is a member of the transaction once, with its own batches.
Members(r, t) ==
    /\ t.members \in Seq(MemberType) /\ t.sent \in BOOLEAN
    /\ t.st = "none" <=> t.members = <<>>
    /\ t.members # <<>> => t.members[1].live
    /\ \A i \in DOMAIN t.members : t.members[i].live =>
          /\ r[t.members[i].worker].st = "member"
          /\ r[t.members[i].worker].batches = t.members[i].batches
    /\ \A i, j \in DOMAIN t.members :
          /\ t.members[i].live /\ t.members[j].live
          /\ t.members[i].worker = t.members[j].worker
          => i = j

\* A round that a heartbeat has passed can join the transaction in flight.
Ahead(r, q, t) ==
    \A w \in Elements(q) : r[w].passed # 0 =>
        ~t.sent /\ r[t.members[1].worker].left <= r[w].left

RoundsGood(r, q, t) ==
    /\ RoundsType(r) /\ Queued(r, q) /\ OwnRows(r) /\ Few(r)
    /\ Members(r, t) /\ Ahead(r, q, t) /\ (t.st = "none" => q = <<>>)

\* What rounds, queue and transaction look like together.
RoundsInv == RoundsGood(round, waiting, tx)

LEMMA RoundMoves ==
    ASSUME NEW r, RoundShape(r), NEW x
    PROVE  LET s == [r EXCEPT !.st = x]
           IN  /\ RoundShape(s) /\ s.st = x /\ s.left = r.left /\ s.batches = r.batches
               /\ s.rows = r.rows /\ s.passed = r.passed
BY DEF RoundShape

LEMMA RoundTicks ==
    ASSUME NEW r, RoundShape(r), NEW n \in Nat
    PROVE  LET s == [r EXCEPT !.left = n]
           IN  /\ RoundShape(s) /\ s.st = r.st /\ s.left = n /\ s.batches = r.batches
               /\ s.rows = r.rows /\ s.passed = r.passed
BY DEF RoundShape

LEMMA RoundPassed ==
    ASSUME NEW r, RoundShape(r), NEW n \in Nat
    PROVE  LET s == [r EXCEPT !.passed = n]
           IN  /\ RoundShape(s) /\ s.st = r.st /\ s.left = r.left /\ s.batches = r.batches
               /\ s.rows = r.rows /\ s.passed = n
BY DEF RoundShape

\* startNext finds a round, and its deadline is the earliest.
LEMMA LeaderFirst ==
    ASSUME NEW r, RoundsType(r), NEW q \in Seq(Workers), q # <<>>
    PROVE  /\ NextLeader(r, q) \in DOMAIN q
           /\ \A j \in DOMAIN q : r[q[NextLeader(r, q)]].left <= r[q[j]].left
  <1> DEFINE left(j) == r[q[j]].left
             Lefts == {left(j) : j \in DOMAIN q}
             First(i) == \A j \in DOMAIN q : left(i) < left(j) \/ (left(i) = left(j) /\ i <= j)
  <1>1. DOMAIN q \subseteq Nat /\ 1 \in DOMAIN q /\ \A j \in DOMAIN q : q[j] \in Workers
    OBVIOUS
  <1>2. \A j \in DOMAIN q : left(j) \in Nat
    BY <1>1, Zenon DEF RoundsType, RoundShape
  <1> HIDE DEF left
  <1>3. PICK v \in Lefts : \A x \in Lefts : v <= x
    <2>1. Lefts \in SUBSET Nat /\ Lefts # {}
      BY <1>1, <1>2, Zenon
    <2> HIDE DEF Lefts
    <2> QED BY <2>1, LeastNatural, Zenon
  <1> DEFINE Same == {j \in DOMAIN q : left(j) = v}
  <1>4. PICK i \in Same : \A x \in Same : i <= x
    <2>1. Same \in SUBSET Nat /\ Same # {}
      BY <1>1, <1>3, Zenon
    <2> HIDE DEF Same
    <2> QED BY <2>1, LeastNatural, Zenon
  <1>5. i \in DOMAIN q /\ left(i) = v /\ v \in Nat
    BY <1>2, <1>4, ZenonT(30)
  <1>6. First(i)
    <2> TAKE j \in DOMAIN q
    <2>1. v <= left(j) /\ left(j) \in Nat
      BY <1>2, <1>3, Zenon
    <2>2. left(j) = v => i <= j
      BY <1>4, Zenon
    <2> QED BY <1>5, <2>1, <2>2, SMTT(30)
  <1>7. NextLeader(r, q) = CHOOSE k \in DOMAIN q : First(k)
    BY Zenon DEF NextLeader, left
  <1>8. NextLeader(r, q) \in DOMAIN q /\ First(NextLeader(r, q))
    <2> HIDE DEF First
    <2> QED BY <1>5, <1>6, <1>7, ZenonT(30)
  <1>9. \A j \in DOMAIN q : left(NextLeader(r, q)) <= left(j)
    BY <1>2, <1>8
  <1> QED BY <1>8, <1>9, ZenonT(30) DEF left

\* A transaction that starts is good for the rounds it starts with.
LEMMA StartGood ==
    ASSUME NEW r, NEW q, NEW c, RoundsType(r), Queued(r, q), OwnRows(r), Few(r),
           StartNext(r, q, c)
    PROVE  RoundsInv'
  <1>1. CASE q = <<>>
    <2>1. round' = r /\ waiting' = <<>> /\ tx' = NoTx
      BY <1>1, ZenonT(30) DEF StartNext
    <2>2. /\ NoTx.members = <<>> /\ NoTx.st = "none" /\ NoTx.sent = FALSE
          /\ <<>> \in Seq(MemberType) /\ DOMAIN <<>> = {} /\ Elements(<<>>) = {}
      BY DEF NoTx, Elements
    <2>3. Members(r, NoTx)
      BY <2>2, Zenon DEF Members
    <2>4. Ahead(r, <<>>, NoTx)
      BY <2>2, Zenon DEF Ahead
    <2> QED BY <1>1, <2>1, <2>3, <2>4, ZenonT(30) DEF RoundsInv, RoundsGood
  <1>2. CASE q # <<>>
    <2> DEFINE i == NextLeader(r, q)
               w == q[i]
    <2>1. q \in Seq(Workers) /\ Distinct(q) /\ \A v \in Elements(q) : r[v].st = "waiting"
      BY ZenonT(30) DEF Queued
    <2>2. i \in DOMAIN q /\ \A j \in DOMAIN q : r[w].left <= r[q[j]].left
      BY <1>2, <2>1, LeaderFirst, ZenonT(30)
    <2>3. /\ round' = [r EXCEPT ![w] = [r[w] EXCEPT !.st = "member"]]
          /\ waiting' = Without(q, w)
          /\ tx' = [NoTx EXCEPT !.st = IF closed THEN "refused" ELSE "connect",
                                !.members = <<Member(r, w)>>]
      BY <1>2, Zenon DEF StartNext
    <2>4. w \in Workers /\ w \in Elements(q)
      <3>1. \A j \in DOMAIN q : q[j] \in Workers
        BY <2>1
      <3> QED BY <2>2, <3>1, ZenonT(30) DEF Elements
    <2> HIDE DEF i, w
    <2>5. /\ waiting' \in Seq(Workers) /\ Distinct(waiting')
          /\ Elements(waiting') = Elements(q) \intersect (Workers \ {w})
      BY <2>1, <2>3, OnlyFacts, ZenonT(30) DEF Without
    <2>6. /\ \A v \in Workers : v # w => round'[v] = r[v]
          /\ round'[w] = [r[w] EXCEPT !.st = "member"]
          /\ round' = [v \in Workers |-> round'[v]]
      BY <2>3, <2>4, ZenonT(30) DEF RoundsType
    <2>7. /\ RoundShape(round'[w]) /\ round'[w].st = "member" /\ round'[w].left = r[w].left
          /\ round'[w].batches = r[w].batches /\ round'[w].passed = r[w].passed
      <3>1. RoundShape(r[w])
        BY <2>4, Zenon DEF RoundsType
      <3> DEFINE s == [r[w] EXCEPT !.st = "member"]
      <3>2. /\ RoundShape(s) /\ s.st = "member" /\ s.left = r[w].left
            /\ s.batches = r[w].batches /\ s.passed = r[w].passed
        BY <3>1, RoundMoves
      <3> HIDE DEF s
      <3> QED BY <2>6, <3>2, ZenonT(30) DEF s
    <2>8. /\ tx'.st # "none" /\ tx'.sent = FALSE /\ tx'.members = <<Member(r, w)>>
      BY <2>3, Zenon DEF NoTx
    <2>9. /\ Member(r, w) \in MemberType /\ Member(r, w).live /\ Member(r, w).worker = w
          /\ Member(r, w).batches = r[w].batches
      <3>1. r[w].batches \in Nat
        BY <2>4, ZenonT(30) DEF RoundsType, RoundShape
      <3> QED BY <2>4, <3>1, Zenon DEF Member, MemberType
    <2>10. /\ tx'.members \in Seq(MemberType) /\ DOMAIN tx'.members = {1}
           /\ tx'.members[1] = Member(r, w) /\ tx'.members # <<>>
      BY <2>8, <2>9
    <2>11. RoundsType(round')
      BY <2>6, <2>7, ZenonT(30) DEF RoundsType
    <2>12. Queued(round', waiting')
      BY <2>1, <2>5, <2>6, ZenonT(30) DEF Queued
    <2>13. OwnRows(round')
      BY <2>6, <2>7, ZenonT(30) DEF OwnRows
    <2>14. Few(round')
      BY <2>1, <2>4, <2>6, <2>7, Zenon DEF Few
    <2>15. Members(round', tx')
      BY <2>7, <2>8, <2>9, <2>10, ZenonT(30) DEF Members
    <2>16. Ahead(round', waiting', tx')
      <3> SUFFICES ASSUME NEW v \in Elements(waiting')
                   PROVE  round'[w].left <= round'[v].left
        BY <2>8, <2>9, <2>10, ZenonT(30) DEF Ahead
      <3>1. v \in Workers /\ v # w /\ v \in Elements(q)
        BY <2>5, Zenon
      <3>2. r[w].left <= r[v].left
        BY <2>2, <3>1, ZenonT(30) DEF Elements, w
      <3> QED BY <2>6, <2>7, <3>1, <3>2, ZenonT(30)
    <2> QED BY <2>8, <2>11, <2>12, <2>13, <2>14, <2>15, <2>16, ZenonT(30) DEF RoundsInv, RoundsGood
  <1> QED BY <1>1, <1>2, Zenon

Live(w) == \E i \in DOMAIN tx.members : tx.members[i].live /\ tx.members[i].worker = w

\* A round that waits is no member of the transaction in flight.
LEMMA WaitingNotLive ==
    ASSUME RoundsInv, NEW w, Live(w)
    PROVE  w \in Workers /\ round[w].st = "member" /\ w \notin Elements(waiting)
  <1>1. PICK i \in DOMAIN tx.members : tx.members[i].live /\ tx.members[i].worker = w
    BY Zenon DEF Live
  <1>2. tx.members[i] \in MemberType
    <2>1. tx.members \in Seq(MemberType)
      BY ZenonT(30) DEF RoundsInv, RoundsGood, Members
    <2> QED BY <1>1, <2>1
  <1>3. w \in Workers
    BY <1>1, <1>2, ZenonT(30) DEF MemberType
  <1>4. round[w].st = "member"
    BY <1>1, Zenon DEF RoundsInv, RoundsGood, Members
  <1>5. w \in Elements(waiting) => round[w].st = "waiting"
    BY Zenon DEF RoundsInv, RoundsGood, Queued
  <1> QED BY <1>3, <1>4, <1>5, ZenonT(30)

\* What the end of a transaction makes of the rounds is good to start the next one with.
LEMMA EndedGood ==
    ASSUME RoundsInv, NEW r, RoundsType(r), OwnRows(r),
           \A w \in Workers :
              \/ r[w] = round[w]
              \/ Live(w) /\ r[w].st \notin {"waiting", "member"}
    PROVE  /\ RoundsType(Passed(r)) /\ Queued(Passed(r), waiting)
           /\ OwnRows(Passed(r)) /\ Few(Passed(r))
  <1> DEFINE p == Passed(r)
             Passes(w) == tx.sent /\ w \in Elements(waiting)
  <1>1. /\ RoundsType(round) /\ Queued(round, waiting) /\ Few(round) /\ Ahead(round, waiting, tx)
        /\ waiting \in Seq(Workers)
    BY Zenon DEF RoundsInv, RoundsGood, Queued
  <1>2. p = [w \in Workers |-> IF Passes(w) THEN [r[w] EXCEPT !.passed = r[w].passed + 1] ELSE r[w]]
    BY ZenonT(30) DEF Passed, Elements
  <1>3. Elements(waiting) \subseteq Workers
    BY <1>1 DEF Elements
  <1>4. ASSUME NEW w \in Elements(waiting) PROVE r[w] = round[w] /\ r[w].st = "waiting"
    BY <1>1, <1>3, <1>4, WaitingNotLive, ZenonT(30) DEF Queued
  <1>5. ASSUME NEW w \in Workers
        PROVE  /\ RoundShape(p[w]) /\ p[w].st = r[w].st /\ p[w].batches = r[w].batches
               /\ p[w].rows = r[w].rows
               /\ w \in Elements(waiting) => p[w].passed <= 1
               /\ w \notin Elements(waiting) => p[w] = r[w]
    <2>1. RoundShape(r[w]) /\ r[w].passed \in Nat
      BY Zenon DEF RoundsType, RoundShape
    <2>2. CASE Passes(w)
      <3>1. p[w] = [r[w] EXCEPT !.passed = r[w].passed + 1] /\ r[w].passed + 1 \in Nat
        BY <1>2, <2>1, <2>2
      <3>2. r[w].passed = 0
        BY <1>1, <1>4, <2>2, ZenonT(30) DEF Ahead
      <3>3. /\ RoundShape(p[w]) /\ p[w].st = r[w].st /\ p[w].batches = r[w].batches
            /\ p[w].rows = r[w].rows /\ p[w].passed = r[w].passed + 1
        BY <2>1, <3>1, RoundPassed, SMTT(30)
      <3>4. p[w].passed <= 1
        BY <3>2, <3>3
      <3> QED BY <2>2, <3>3, <3>4, ZenonT(30)
    <2>3. CASE ~Passes(w)
      <3>1. p[w] = r[w]
        BY <1>2, <2>3, ZenonT(30)
      <3>2. w \in Elements(waiting) => r[w].passed <= 1
        BY <1>1, <1>4, ZenonT(30) DEF Few
      <3> QED BY <2>1, <3>1, <3>2, ZenonT(30)
    <2> QED BY <2>2, <2>3, ZenonT(30)
  <1>6. p = [w \in Workers |-> p[w]]
    BY <1>2, Zenon
  <1> HIDE DEF p
  <1>7. RoundsType(p)
    BY <1>5, <1>6, ZenonT(30) DEF RoundsType
  <1>8. Queued(p, waiting)
    BY <1>1, <1>3, <1>4, <1>5, ZenonT(30) DEF Queued
  <1>9. OwnRows(p)
    BY <1>5, ZenonT(30) DEF OwnRows
  <1>10. Few(p)
    <2> SUFFICES ASSUME NEW w \in Workers, r[w].st \in {"waiting", "member"}, w \notin Elements(waiting)
                 PROVE  r[w].passed <= 1
      BY <1>5, Zenon DEF Few
    <2> QED BY <1>1, Zenon DEF Few
  <1> QED BY <1>7, <1>8, <1>9, <1>10, ZenonT(30) DEF p

LEMMA RejectedGood ==
    ASSUME RoundsInv, NEW r, r = Rejected(tx.members)
    PROVE  /\ RoundsType(r) /\ OwnRows(r)
           /\ \A w \in Workers : r[w] = round[w] \/ (Live(w) /\ r[w].st \notin {"waiting", "member"})
  <1>1. r = [w \in Workers |-> IF Live(w) THEN [round[w] EXCEPT !.st = "rejected"] ELSE round[w]]
    BY Zenon DEF Rejected, Live
  <1>2. RoundsType(round) /\ OwnRows(round)
    BY Zenon DEF RoundsInv, RoundsGood
  <1>3. ASSUME NEW w \in Workers
        PROVE  RoundShape(r[w]) /\ (r[w] = round[w] \/ (Live(w) /\ r[w].st = "rejected"))
    <2>1. RoundShape(round[w])
      BY <1>2, Zenon DEF RoundsType
    <2>2. CASE Live(w)
      <3>1. r[w] = [round[w] EXCEPT !.st = "rejected"]
        BY <1>1, <2>2, Zenon
      <3> QED BY <2>1, <2>2, <3>1, RoundMoves, SMTT(30)
    <2>3. CASE ~Live(w)
      BY <1>1, <2>1, <2>3, ZenonT(30)
    <2> QED BY <2>2, <2>3, Zenon
  <1>4. r = [w \in Workers |-> r[w]]
    BY <1>1, Zenon
  <1>5. RoundsType(r)
    BY <1>3, <1>4, ZenonT(30) DEF RoundsType
  <1>6. OwnRows(r)
    <2> SUFFICES ASSUME NEW w \in Workers, r[w].st = "resolved" PROVE r[w] = round[w]
      BY <1>2, ZenonT(30) DEF OwnRows
    <2> QED BY <1>3, Zenon
  <1>7. \A w \in Workers : r[w] = round[w] \/ (Live(w) /\ r[w].st \notin {"waiting", "member"})
    BY <1>3, Zenon
  <1> QED BY <1>5, <1>6, <1>7, Zenon

LEMMA ResolvedGood ==
    ASSUME RoundsInv, NEW r, r = Resolved(tx.members)
    PROVE  /\ RoundsType(r) /\ OwnRows(r)
           /\ \A w \in Workers : r[w] = round[w] \/ (Live(w) /\ r[w].st \notin {"waiting", "member"})
  <1> DEFINE m == tx.members
             own(w) == {i \in DOMAIN m : m[i].live /\ m[i].worker = w}
             rows(w) == RowsOf(m, CHOOSE i \in own(w) : TRUE)
  <1>1. r = [w \in Workers |-> IF own(w) = {} THEN round[w] ELSE Renewed(round[w], rows(w))]
    BY Zenon DEF Resolved
  <1>2. RoundsType(round) /\ OwnRows(round) /\ Members(round, tx)
    BY ZenonT(30) DEF RoundsInv, RoundsGood
  <1>3. /\ m \in Seq(MemberType) /\ Len(m) \in Nat /\ DOMAIN m = 1..Len(m)
        /\ \A i \in 1..Len(m) : m[i].batches \in Nat
    <2>1. m \in Seq(MemberType)
      BY <1>2, ZenonT(30) DEF Members
    <2>2. Len(m) \in Nat /\ DOMAIN m = 1..Len(m) /\ \A i \in 1..Len(m) : m[i] \in MemberType
      BY <2>1
    <2> QED BY <2>1, <2>2, ZenonT(30) DEF MemberType
  <1>4. ASSUME NEW w \in Workers, own(w) # {}
        PROVE  rows(w) = [b \in 1..round[w].batches |-> w]
    <2>1. PICK i \in own(w) : i = CHOOSE j \in own(w) : TRUE
      BY <1>4, Zenon
    <2>2. i \in 1..Len(m) /\ m[i].live /\ m[i].worker = w
      BY <1>3, <2>1, ZenonT(30)
    <2>3. round[w].batches = m[i].batches
      BY <1>2, <1>3, <2>2, ZenonT(30) DEF Members
    <2>4. RowsOf(m, i) = [b \in 1..m[i].batches |-> m[i].worker]
      <3> DEFINE n == Len(m)
      <3>1. n \in Nat /\ n = Len(m) /\ DOMAIN m = 1..n /\ i \in 1..n
            /\ \A j \in 1..n : m[j].batches \in Nat
        BY <1>3, <2>2, ZenonT(30)
      <3> HIDE DEF n, m
      <3> QED BY <3>1, RowsOfMember, SMTT(30)
    <2> QED BY <2>1, <2>2, <2>3, <2>4, ZenonT(30)
  <1>5. \A w : own(w) # {} => Live(w)
    BY Zenon DEF Live
  <1> HIDE DEF own, rows
  <1>6. ASSUME NEW w \in Workers
        PROVE  /\ RoundShape(r[w])
               /\ \/ r[w] = round[w]
                  \/ /\ Live(w) /\ r[w].st = "resolved"
                     /\ r[w].rows = [b \in 1..r[w].batches |-> w]
    <2>1. RoundShape(round[w])
      BY <1>2, Zenon DEF RoundsType
    <2>2. CASE own(w) # {}
      <3>1. r[w] = Renewed(round[w], rows(w))
        BY <1>1, <2>2, ZenonT(30)
      <3>2. /\ RoundShape(r[w]) /\ r[w].st = "resolved" /\ r[w].rows = rows(w)
            /\ r[w].batches = round[w].batches
        BY <2>1, <3>1 DEF RoundShape, Renewed
      <3> QED BY <1>4, <1>5, <2>2, <3>2, ZenonT(30)
    <2>3. CASE own(w) = {}
      BY <1>1, <2>1, <2>3, ZenonT(30)
    <2> QED BY <2>2, <2>3, ZenonT(30)
  <1>7. r = [w \in Workers |-> r[w]]
    BY <1>1, ZenonT(30)
  <1>8. RoundsType(r)
    BY <1>6, <1>7, ZenonT(30) DEF RoundsType
  <1>9. OwnRows(r)
    BY <1>2, <1>6, ZenonT(30) DEF OwnRows
  <1>10. \A w \in Workers : r[w] = round[w] \/ (Live(w) /\ r[w].st \notin {"waiting", "member"})
    BY <1>6, Zenon
  <1> QED BY <1>8, <1>9, <1>10, Zenon

LEMMA EndGood ==
    ASSUME RoundsInv, NEW c, NEW clean, EndWithRows(c) \/ EndWithError(c, clean)
    PROVE  RoundsInv'
  <1>1. CASE EndWithRows(c)
    <2> DEFINE r == Resolved(tx.members)
    <2>1. StartNext(Passed(r), waiting, c)
      BY <1>1, Zenon DEF EndWithRows
    <2>2. /\ RoundsType(r) /\ OwnRows(r)
          /\ \A w \in Workers : r[w] = round[w] \/ (Live(w) /\ r[w].st \notin {"waiting", "member"})
      BY ResolvedGood, Zenon
    <2> HIDE DEF r
    <2>3. /\ RoundsType(Passed(r)) /\ Queued(Passed(r), waiting)
          /\ OwnRows(Passed(r)) /\ Few(Passed(r))
      BY <2>2, EndedGood, ZenonT(30)
    <2> QED BY <2>1, <2>3, StartGood, ZenonT(30)
  <1>2. CASE EndWithError(c, clean)
    <2> DEFINE r == Rejected(tx.members)
    <2>1. \E d : StartNext(Passed(r), waiting, d)
      BY <1>2, ZenonT(30) DEF EndWithError
    <2>2. /\ RoundsType(r) /\ OwnRows(r)
          /\ \A w \in Workers : r[w] = round[w] \/ (Live(w) /\ r[w].st \notin {"waiting", "member"})
      BY RejectedGood, Zenon
    <2> HIDE DEF r
    <2>3. /\ RoundsType(Passed(r)) /\ Queued(Passed(r), waiting)
          /\ OwnRows(Passed(r)) /\ Few(Passed(r))
      BY <2>2, EndedGood, ZenonT(30)
    <2> QED BY <2>1, <2>3, StartGood, ZenonT(30)
  <1> QED BY <1>1, <1>2, ZenonT(30)

\* A step that leaves the rounds, the queue and the members alone.
LEMMA QuietGood ==
    ASSUME RoundsInv, round' = round, waiting' = waiting, tx'.members = tx.members,
           tx'.sent = tx.sent, tx'.st = "none" <=> tx.st = "none"
    PROVE  RoundsInv'
  <1>1. RoundsGood(round, waiting, tx)
    BY Zenon DEF RoundsInv
  <1>2. Members(round', tx')
    BY <1>1, ZenonT(30) DEF RoundsGood, Members
  <1>3. Ahead(round', waiting', tx')
    BY <1>1, Zenon DEF RoundsGood, Ahead
  <1> QED BY <1>1, <1>2, <1>3, ZenonT(30) DEF RoundsInv, RoundsGood

\* The leader of a transaction is one of its members, and has not settled.
LEMMA LeaderIn ==
    ASSUME RoundsInv, tx.st # "none"
    PROVE  Leader \in Workers /\ Live(Leader) /\ round[Leader].st = "member"
  <1>1. tx.members \in Seq(MemberType) /\ tx.members # <<>> /\ tx.members[1].live
    BY Zenon DEF RoundsInv, RoundsGood, Members
  <1>2. 1 \in DOMAIN tx.members
    BY <1>1
  <1>3. Live(Leader)
    BY <1>1, <1>2, ZenonT(30) DEF Live, Leader
  <1> QED BY <1>3, WaitingNotLive, Zenon

LEMMA TimedOutGood ==
    ASSUME RoundsInv, TxShape(tx), NEW w \in Workers, TimedOut(w)
    PROVE  RoundsInv'
  <1>1. CASE tx.st # "none" /\ Leader = w
    BY <1>1, EndGood, ZenonT(30) DEF TimedOut
  <1>2. CASE ~(tx.st # "none" /\ Leader = w)
    <2> DEFINE m == tx.members
    <2>1. /\ round' = [round EXCEPT ![w] = [round[w] EXCEPT !.st = "rejected"]]
          /\ waiting' = Without(waiting, w)
          /\ tx' = [tx EXCEPT !.members = Dropped(m, w)]
      BY <1>2, ZenonT(30) DEF TimedOut
    <2>2. tx'.members = Dropped(m, w) /\ tx'.st = tx.st /\ tx'.sent = tx.sent
      BY <2>1, ZenonT(30) DEF TxShape
    <2>3. /\ RoundsType(round) /\ Queued(round, waiting) /\ OwnRows(round) /\ Few(round)
          /\ Members(round, tx) /\ Ahead(round, waiting, tx) /\ (tx.st = "none" => waiting = <<>>)
      BY Zenon DEF RoundsInv, RoundsGood
    <2>4. /\ \A v \in Workers : v # w => round'[v] = round[v]
          /\ round'[w] = [round[w] EXCEPT !.st = "rejected"]
          /\ round' = [v \in Workers |-> round'[v]]
      BY <2>1, <2>3, ZenonT(30) DEF RoundsType
    <2>5. RoundShape(round'[w]) /\ round'[w].st = "rejected"
      <3>1. RoundShape(round[w])
        BY <2>3, ZenonT(30) DEF RoundsType
      <3> QED BY <2>4, <3>1, RoundMoves
    <2>6. /\ waiting \in Seq(Workers) /\ waiting' \in Seq(Workers) /\ Distinct(waiting')
          /\ Elements(waiting') = Elements(waiting) \intersect (Workers \ {w})
      BY <2>1, <2>3, OnlyFacts, ZenonT(30) DEF Without, Queued
    <2>7. m \in Seq(MemberType) /\ DOMAIN m = 1..Len(m) /\ Len(m) \in Nat
      BY <2>3 DEF Members
    <2>8. /\ DOMAIN tx'.members = DOMAIN m /\ tx'.members \in Seq(MemberType)
          /\ \A i \in DOMAIN m : /\ tx'.members[i].worker = m[i].worker
                                 /\ tx'.members[i].batches = m[i].batches
                                 /\ tx'.members[i].live <=> m[i].live /\ m[i].worker # w
      <3>1. tx'.members = [i \in DOMAIN m |->
                IF m[i].worker = w THEN [m[i] EXCEPT !.live = FALSE] ELSE m[i]]
        BY <2>2, ZenonT(30) DEF Dropped
      <3>2. \A i \in DOMAIN m : m[i] \in MemberType
        BY <2>7
      <3> HIDE DEF m
      <3>3. ASSUME NEW i \in DOMAIN m
            PROVE  /\ tx'.members[i] \in MemberType
                   /\ tx'.members[i].worker = m[i].worker
                   /\ tx'.members[i].batches = m[i].batches
                   /\ tx'.members[i].live <=> m[i].live /\ m[i].worker # w
        BY <3>1, <3>2, ZenonT(30) DEF MemberType
      <3>4. tx'.members \in Seq(MemberType)
        BY <2>7, <3>1, <3>3
      <3> QED BY <3>1, <3>3, <3>4, ZenonT(30)
    <2>9. tx'.members = <<>> <=> m = <<>>
      BY <2>7, <2>8
    <2> HIDE DEF m
    <2>10. m # <<>> => 1 \in DOMAIN m /\ m[1].worker # w
      <3>1. m # <<>> => 1 \in DOMAIN m
        BY <2>7
      <3> QED BY <1>2, <2>3, <3>1, ZenonT(30) DEF Members, Leader, m
    <2>11. RoundsType(round')
      BY <2>3, <2>4, <2>5, ZenonT(30) DEF RoundsType
    <2>12. Queued(round', waiting')
      BY <2>3, <2>4, <2>6, ZenonT(30) DEF Queued
    <2>13. OwnRows(round')
      BY <2>3, <2>4, <2>5, ZenonT(30) DEF OwnRows
    <2>14. Few(round')
      BY <2>3, <2>4, <2>5, Zenon DEF Few
    <2>15. Members(round', tx')
      <3>1. \A i \in DOMAIN m : m[i].worker \in Workers
        <4>1. \A i \in DOMAIN m : m[i] \in MemberType
          BY <2>7
        <4> QED BY <4>1, ZenonT(30) DEF MemberType
      <3>2. m = tx.members
        BY ZenonT(30) DEF m
      <3>a. /\ \A i \in DOMAIN m : m[i].live =>
                  /\ round[m[i].worker].st = "member"
                  /\ round[m[i].worker].batches = m[i].batches
            /\ \A i, j \in DOMAIN m :
                  m[i].live /\ m[j].live /\ m[i].worker = m[j].worker => i = j
        BY <2>3, <3>2, Zenon DEF Members
      <3>3. ASSUME NEW i \in DOMAIN tx'.members, tx'.members[i].live
            PROVE  /\ round'[tx'.members[i].worker].st = "member"
                   /\ round'[tx'.members[i].worker].batches = tx'.members[i].batches
        <4>1. /\ i \in DOMAIN m /\ m[i].live /\ m[i].worker # w /\ m[i].worker \in Workers
              /\ tx'.members[i].worker = m[i].worker /\ tx'.members[i].batches = m[i].batches
          BY <2>8, <3>1, <3>3, ZenonT(30)
        <4>2. round'[m[i].worker] = round[m[i].worker]
          BY <2>4, <4>1, ZenonT(30)
        <4>3. round[m[i].worker].st = "member" /\ round[m[i].worker].batches = m[i].batches
          BY <3>a, <4>1, ZenonT(30)
        <4> QED BY <4>1, <4>2, <4>3, ZenonT(30)
      <3>4. ASSUME NEW i \in DOMAIN tx'.members, NEW j \in DOMAIN tx'.members,
                   tx'.members[i].live, tx'.members[j].live,
                   tx'.members[i].worker = tx'.members[j].worker
            PROVE  i = j
        <4>1. /\ i \in DOMAIN m /\ m[i].live /\ tx'.members[i].worker = m[i].worker
              /\ j \in DOMAIN m /\ m[j].live /\ tx'.members[j].worker = m[j].worker
          BY <2>8, <3>4, ZenonT(30)
        <4> QED BY <3>4, <3>a, <4>1, ZenonT(30)
      <3>5. tx'.members # <<>> => tx'.members[1].live
        BY <2>3, <2>8, <2>9, <2>10, <3>2, ZenonT(30) DEF Members
      <3> QED BY <2>2, <2>3, <2>8, <2>9, <3>2, <3>3, <3>4, <3>5, ZenonT(30) DEF Members
    <2>16. Ahead(round', waiting', tx')
      <3> SUFFICES ASSUME NEW v \in Elements(waiting'), round'[v].passed # 0
                   PROVE  ~tx'.sent /\ round'[tx'.members[1].worker].left <= round'[v].left
        BY Zenon DEF Ahead
      <3>1. v \in Workers /\ v # w /\ v \in Elements(waiting) /\ round'[v] = round[v]
        BY <2>4, <2>6, ZenonT(30)
      <3>2. waiting # <<>>
        BY <2>6, <3>1 DEF Elements
      <3>3. tx.st # "none" /\ m # <<>>
        BY <2>3, <3>2, ZenonT(30) DEF Members, m
      <3>4. tx'.members[1].worker = Leader /\ Leader # w /\ Leader \in Workers
        BY <1>2, <2>8, <2>10, <3>3, LeaderIn, ZenonT(30) DEF Leader, m
      <3>5. ~tx.sent /\ round[Leader].left <= round[v].left
        BY <2>3, <3>1, ZenonT(30) DEF Ahead, Leader
      <3> QED BY <2>2, <2>4, <3>1, <3>4, <3>5, ZenonT(30)
    <2>17. tx'.st = "none" => waiting' = <<>>
      <3> SUFFICES ASSUME tx.st = "none" PROVE waiting' = <<>>
        BY <2>2, ZenonT(30)
      <3>1. Elements(waiting') = {}
        BY <2>3, <2>6 DEF Elements
      <3> QED BY <2>6, <3>1 DEF Elements
    <2> QED BY <2>11, <2>12, <2>13, <2>14, <2>15, <2>16, <2>17, ZenonT(30) DEF RoundsInv, RoundsGood
  <1> QED BY <1>1, <1>2, ZenonT(30)

LEMMA RenewGood ==
    ASSUME RoundsInv, NEW w \in Workers, Renew(w)
    PROVE  RoundsInv'
  <1>1. PICK time \in RoundTimes, n \in BatchCounts :
           LET r == [round EXCEPT ![w] = NewRound(time, n)]
           IN IF tx.st = "none" THEN StartNext(r, Append(waiting, w), conn)
              ELSE round' = r /\ waiting' = Append(waiting, w) /\ UNCHANGED <<tx, conn>>
    BY ZenonT(30) DEF Renew
  <1> DEFINE new == NewRound(time, n)
             r == [round EXCEPT ![w] = new]
             q == Append(waiting, w)
  <1>2. time \in Nat /\ n \in Nat /\ round[w].st \notin {"waiting", "member"}
    BY RoundAssumption, Zenon DEF Renew, Unsettled, RoundAssumption
  <1>3. RoundShape(new) /\ new.st = "waiting" /\ new.passed = 0
    BY <1>2, Zenon DEF NewRound, RoundShape
  <1>4. /\ RoundsType(round) /\ Queued(round, waiting) /\ OwnRows(round) /\ Few(round)
        /\ Members(round, tx) /\ Ahead(round, waiting, tx)
    BY ZenonT(30) DEF RoundsInv, RoundsGood
  <1> HIDE DEF new
  <1>5. /\ \A v \in Workers : v # w => r[v] = round[v]
        /\ r[w] = new /\ r = [v \in Workers |-> r[v]]
    BY <1>4, Zenon DEF RoundsType
  <1>6. w \notin Elements(waiting) /\ waiting \in Seq(Workers) /\ Distinct(waiting)
    BY <1>2, <1>4, Zenon DEF Queued
  <1>7. q \in Seq(Workers) /\ Distinct(q) /\ Elements(q) = Elements(waiting) \union {w}
    BY <1>6, AppendFacts, SMTT(30)
  <1>8. Elements(waiting) \subseteq Workers
    BY <1>6 DEF Elements
  <1>9. IF tx.st = "none" THEN StartNext(r, q, conn) ELSE round' = r /\ waiting' = q /\ tx' = tx
    BY <1>1, Zenon DEF new
  <1> HIDE DEF r, q
  <1>10. RoundsType(r)
    BY <1>3, <1>4, <1>5, ZenonT(30) DEF RoundsType
  <1>11. Queued(r, q)
    BY <1>3, <1>4, <1>5, <1>7, <1>8, ZenonT(30) DEF Queued
  <1>12. OwnRows(r)
    <2>1. r[w].st # "resolved"
      BY <1>3, <1>5, Zenon
    <2> QED BY <1>4, <1>5, <2>1, ZenonT(30) DEF OwnRows
  <1>13. Few(r)
    <2>1. r[w].passed <= 1
      BY <1>3, <1>5
    <2> QED BY <1>4, <1>5, <2>1, ZenonT(30) DEF Few
  <1>14. CASE tx.st = "none"
    BY <1>9, <1>10, <1>11, <1>12, <1>13, <1>14, StartGood, ZenonT(30)
  <1>15. CASE tx.st # "none"
    <2>1. round' = r /\ waiting' = q /\ tx' = tx
      BY <1>9, <1>15, ZenonT(30)
    <2>2. \A v : Live(v) => v \in Workers /\ v # w
      BY <1>2, WaitingNotLive, ZenonT(30)
    <2>3. Members(r, tx)
      <3>1. \A i \in DOMAIN tx.members : tx.members[i].live =>
               r[tx.members[i].worker] = round[tx.members[i].worker]
        BY <1>5, <2>2, Zenon DEF Live
      <3> QED BY <1>4, <3>1, ZenonT(30) DEF Members
    <2>4. Ahead(r, q, tx)
      <3> SUFFICES ASSUME NEW v \in Elements(q), r[v].passed # 0
                   PROVE  ~tx.sent /\ r[Leader].left <= r[v].left
        BY Zenon DEF Ahead, Leader
      <3>1. v \in Elements(waiting) /\ v # w /\ v \in Workers /\ r[v] = round[v]
        BY <1>3, <1>5, <1>7, <1>8, ZenonT(30)
      <3>2. r[Leader] = round[Leader]
        BY <1>5, <1>15, <2>2, LeaderIn, ZenonT(30)
      <3> QED BY <1>4, <3>1, <3>2, ZenonT(30) DEF Ahead, Leader
    <2> QED BY <1>10, <1>11, <1>12, <1>13, <1>15, <2>1, <2>3, <2>4, ZenonT(30) DEF RoundsInv, RoundsGood
  <1> QED BY <1>14, <1>15, Zenon

\* The waiting rounds that can join do, so none that is left has been passed before.
LEMMA JoinGood ==
    ASSUME RoundsInv, TxShape(tx), tx.st # "none",
           tx' = [tx EXCEPT !.st = "heartbeat", !.sent = TRUE,
                     !.members = tx.members \o [i \in DOMAIN Joined |-> Member(round, Joined[i])]],
           round' = [w \in Workers |->
               IF \E i \in DOMAIN Joined : Joined[i] = w
               THEN [round[w] EXCEPT !.st = "member"] ELSE round[w]],
           waiting' = Only(waiting, {w \in Workers : ~Joins(w)})
    PROVE  RoundsInv'
  <1> DEFINE m == tx.members
             J == Joined
             A == [i \in DOMAIN J |-> Member(round, J[i])]
             k == Len(m)
             n == Len(J)
             m2 == tx'.members
  <1>1. /\ RoundsType(round) /\ Queued(round, waiting) /\ OwnRows(round) /\ Few(round)
        /\ Members(round, tx) /\ Ahead(round, waiting, tx)
    BY Zenon DEF RoundsInv, RoundsGood
  <1>2. waiting \in Seq(Workers) /\ Distinct(waiting) /\ m \in Seq(MemberType)
    BY <1>1, Zenon DEF Queued, Members
  <1>3. /\ J \in Seq(Workers) /\ Distinct(J)
        /\ Elements(J) = Elements(waiting) \intersect {w \in Workers : Joins(w)}
    <2>1. J = Only(waiting, {w \in Workers : Joins(w)})
      BY Zenon DEF Joined
    <2> HIDE DEF J
    <2> QED BY <1>2, <2>1, OnlyFacts, ZenonT(30)
  <1>4. /\ waiting' \in Seq(Workers) /\ Distinct(waiting')
        /\ Elements(waiting') = Elements(waiting) \intersect {w \in Workers : ~Joins(w)}
    BY <1>2, OnlyFacts, ZenonT(30)
  <1>5. tx'.members = m \o A /\ tx'.sent = TRUE /\ tx'.st = "heartbeat"
    BY ZenonT(30) DEF TxShape
  <1>6. ASSUME NEW w \in Workers
        PROVE  /\ w \in Elements(J) => round'[w] = [round[w] EXCEPT !.st = "member"]
               /\ w \notin Elements(J) => round'[w] = round[w]
    BY Zenon DEF Elements
  <1>7. round' = [w \in Workers |-> round'[w]]
    BY Zenon
  <1> HIDE DEF J
  <1>8. ASSUME NEW w \in Workers
        PROVE  /\ RoundShape(round'[w]) /\ round'[w].left = round[w].left
               /\ round'[w].batches = round[w].batches /\ round'[w].passed = round[w].passed
               /\ round'[w].rows = round[w].rows
               /\ w \in Elements(J) => round'[w].st = "member"
    <2>1. RoundShape(round[w])
      BY <1>1, Zenon DEF RoundsType
    <2>2. CASE w \in Elements(J)
      <3>1. round'[w] = [round[w] EXCEPT !.st = "member"]
        BY <1>6, <2>2, ZenonT(30)
      <3> DEFINE s == [round[w] EXCEPT !.st = "member"]
      <3>2. /\ RoundShape(s) /\ s.st = "member" /\ s.left = round[w].left /\ s.rows = round[w].rows
            /\ s.batches = round[w].batches /\ s.passed = round[w].passed
        BY <2>1, RoundMoves, SMTT(30)
      <3> HIDE DEF s
      <3> QED BY <3>1, <3>2, ZenonT(30) DEF s
    <2>3. CASE w \notin Elements(J)
      BY <1>6, <2>1, <2>3, Zenon
    <2> QED BY <2>2, <2>3, ZenonT(30)
  <1>9. RoundsType(round')
    BY <1>7, <1>8, ZenonT(30) DEF RoundsType
  <1>10. \A w \in Elements(waiting) : w \in Workers /\ round[w].st = "waiting"
    <2>1. Elements(waiting) \subseteq Workers
      BY <1>2 DEF Elements
    <2> QED BY <1>1, <2>1, ZenonT(30) DEF Queued
  <1>11. Queued(round', waiting')
    <2> SUFFICES ASSUME NEW w \in Elements(waiting') PROVE round'[w].st = "waiting"
      BY <1>4, ZenonT(30) DEF Queued
    <2>1. w \in Workers /\ w \notin Elements(J) /\ w \in Elements(waiting)
      BY <1>3, <1>4, ZenonT(30)
    <2> QED BY <1>6, <1>10, <2>1, ZenonT(30)
  <1>12. OwnRows(round')
    <2>1. ASSUME NEW w \in Workers, round'[w].st = "resolved"
          PROVE  round'[w].rows = [b \in 1..round'[w].batches |-> w]
      <3>1. w \notin Elements(J)
        BY <1>8, <2>1, ZenonT(30)
      <3>2. round'[w] = round[w] /\ round[w].st = "resolved"
        BY <1>6, <2>1, <3>1, ZenonT(30)
      <3>3. round[w].rows = [b \in 1..round[w].batches |-> w]
        BY <1>1, <3>2, ZenonT(30) DEF OwnRows
      <3> QED BY <3>2, <3>3, ZenonT(30)
    <2> QED BY <2>1, ZenonT(30) DEF OwnRows
  <1>13. Few(round')
    <2> SUFFICES ASSUME NEW w \in Workers, round'[w].st \in {"waiting", "member"}
                 PROVE  round[w].st \in {"waiting", "member"}
      BY <1>1, <1>8, ZenonT(30) DEF Few
    <2>1. CASE w \in Elements(J)
      BY <1>3, <1>10, <2>1, ZenonT(30)
    <2>2. CASE w \notin Elements(J)
      BY <1>6, <2>2, ZenonT(30)
    <2> QED BY <2>1, <2>2, ZenonT(30)
  <1>14. Ahead(round', waiting', tx')
    <2> SUFFICES ASSUME NEW w \in Elements(waiting'), round'[w].passed # 0 PROVE FALSE
      BY Zenon DEF Ahead
    <2>1. w \in Workers /\ w \in Elements(waiting) /\ ~Joins(w)
      BY <1>4, Zenon
    <2>2. round[Leader].left <= round[w].left
      BY <1>1, <1>8, <2>1, ZenonT(30) DEF Ahead, Leader
    <2>3. round[Leader].left \in Nat /\ round[w].left \in Nat
      BY <1>1, <2>1, LeaderIn, Zenon DEF RoundsType, RoundShape
    <2> QED BY <2>1, <2>2, <2>3, ZenonT(30) DEF Joins
  <1>15. \A i \in DOMAIN J : J[i] \in Workers /\ J[i] \in Elements(J) /\ J[i] \in Elements(waiting)
    <2>1. \A i \in DOMAIN J : J[i] \in Workers
      BY <1>3
    <2> QED BY <1>3, <2>1, Zenon DEF Elements
  <1>16. \A i \in DOMAIN J : A[i] = Member(round, J[i]) /\ A[i] \in MemberType /\ A[i].live
                             /\ A[i].worker = J[i] /\ A[i].batches = round[J[i]].batches
    <2> SUFFICES ASSUME NEW i \in DOMAIN J
                 PROVE  /\ Member(round, J[i]) \in MemberType /\ Member(round, J[i]).live
                        /\ Member(round, J[i]).worker = J[i]
                        /\ Member(round, J[i]).batches = round[J[i]].batches
      BY Zenon
    <2>1. J[i] \in Workers /\ round[J[i]].batches \in Nat
      BY <1>1, <1>15, ZenonT(30) DEF RoundsType, RoundShape
    <2> QED BY <2>1, Zenon DEF Member, MemberType
  <1>17. A \in Seq(MemberType) /\ Len(A) = n /\ DOMAIN J = 1..n /\ n \in Nat
    BY <1>3, <1>16
  <1> HIDE DEF A
  <1>18. /\ m2 \in Seq(MemberType) /\ DOMAIN m2 = 1..(k + n) /\ k \in Nat /\ DOMAIN m = 1..k
         /\ \A i \in 1..k : m2[i] = m[i]
         /\ \A i \in 1..(k + n) : i > k => i - k \in 1..n /\ m2[i] = A[i - k]
    <2>1. m2 = m \o A /\ Len(A) = n /\ A \in Seq(MemberType) /\ n \in Nat
      BY <1>5, <1>17, ZenonT(30)
    <2>2. m \in Seq(MemberType) /\ k = Len(m) /\ k \in Nat /\ DOMAIN m = 1..k
      BY <1>2
    <2> HIDE DEF m2, m, k, n
    <2>3. m2 \in Seq(MemberType) /\ Len(m2) = k + n
      BY <2>1, <2>2
    <2>4. \A i \in 1..k : m2[i] = m[i]
      BY <2>1, <2>2
    <2>5. \A i \in 1..(k + n) : i > k => i - k \in 1..n /\ m2[i] = A[i - k]
      BY <2>1, <2>2
    <2> QED BY <2>2, <2>3, <2>4, <2>5, SMTT(30)
  <1>19. m # <<>> /\ m[1].live /\ k > 0
    <2>1. m # <<>> /\ m[1].live
      BY <1>1, Zenon DEF Members
    <2> QED BY <1>2, <2>1
  <1> HIDE DEF m2, k, n
  \* A member is an earlier one or one that joins.
  <1>20. ASSUME NEW i \in DOMAIN m2
         PROVE  \/ i \in DOMAIN m /\ m2[i] = m[i]
                \/ i - k \in DOMAIN J /\ m2[i] = A[i - k] /\ i \in Nat
    BY <1>17, <1>18
  <1>21. ASSUME NEW i \in DOMAIN m2, m2[i].live
         PROVE  /\ round'[m2[i].worker].st = "member"
                /\ round'[m2[i].worker].batches = m2[i].batches
    <2>1. CASE i \in DOMAIN m /\ m2[i] = m[i]
      <3> DEFINE u == m[i].worker
      <3>1. Live(u)
        BY <1>21, <2>1, ZenonT(30) DEF Live
      <3>2. u \in Workers /\ u \notin Elements(J) /\ round[u].st = "member"
        BY <1>3, <3>1, WaitingNotLive, ZenonT(30)
      <3>3. round'[u] = round[u] /\ round[u].batches = m[i].batches
        BY <1>1, <1>6, <1>21, <2>1, <3>2, ZenonT(30) DEF Members
      <3> QED BY <2>1, <3>2, <3>3, ZenonT(30)
    <2>2. CASE i - k \in DOMAIN J /\ m2[i] = A[i - k]
      <3> DEFINE b == i - k
      <3>1. b \in DOMAIN J /\ m2[i] = A[b]
        BY <2>2, ZenonT(30)
      <3> HIDE DEF b
      <3>2. A[b].worker = J[b] /\ A[b].batches = round[J[b]].batches
            /\ J[b] \in Workers /\ J[b] \in Elements(J)
        BY <1>15, <1>16, <3>1, ZenonT(30)
      <3>3. round'[J[b]].st = "member" /\ round'[J[b]].batches = round[J[b]].batches
        BY <1>8, <3>2, ZenonT(30)
      <3> QED BY <3>1, <3>2, <3>3, ZenonT(30)
    <2> QED BY <1>20, <2>1, <2>2, ZenonT(30)
  <1>22. ASSUME NEW i \in DOMAIN m2, NEW j \in DOMAIN m2, m2[i].live, m2[j].live,
                m2[i].worker = m2[j].worker
         PROVE  i = j
    <2>1. CASE i \in DOMAIN m /\ m2[i] = m[i] /\ j \in DOMAIN m /\ m2[j] = m[j]
      BY <1>1, <1>22, <2>1, ZenonT(30) DEF Members
    <2>2. ASSUME NEW a \in DOMAIN m, NEW b \in DOMAIN J, m[a].live, m[a].worker = A[b].worker
          PROVE  FALSE
      <3>1. Live(m[a].worker)
        BY <2>2, ZenonT(30) DEF Live
      <3> QED BY <1>15, <1>16, <2>2, <3>1, WaitingNotLive, ZenonT(30)
    <2>3. CASE i - k \in DOMAIN J /\ m2[i] = A[i - k] /\ j - k \in DOMAIN J /\ m2[j] = A[j - k]
      <3>1. ASSUME NEW a \in DOMAIN J, NEW b \in DOMAIN J, A[a].worker = A[b].worker PROVE a = b
        <4>1. J[a] = J[b]
          BY <1>16, <3>1, ZenonT(30)
        <4> QED BY <1>3, <4>1, ZenonT(30) DEF Distinct
      <3>2. i - k = j - k
        BY <1>22, <2>3, <3>1, ZenonT(30)
      <3> QED BY <1>18, <3>2
    <2> QED BY <1>20, <1>22, <2>1, <2>2, <2>3, ZenonT(30)
  <1>23. m2 # <<>> /\ m2[1].live
    <2>1. 1 \in 1..k /\ 1 \in DOMAIN m2
      BY <1>17, <1>18, <1>19
    <2>2. m2[1] = m[1]
      BY <1>18, <2>1, ZenonT(30)
    <2>3. m2 # <<>>
      BY <2>1
    <2> QED BY <1>19, <2>2, <2>3, ZenonT(30)
  <1>24. Members(round', tx')
    BY <1>5, <1>18, <1>21, <1>22, <1>23, ZenonT(30) DEF Members, m2
  <1> QED BY <1>5, <1>9, <1>11, <1>12, <1>13, <1>14, <1>24, ZenonT(30) DEF RoundsInv, RoundsGood

\* The rounds run out together, and none overtakes another.
LEMMA ElapseGood ==
    ASSUME RoundsInv, Elapse
    PROVE  RoundsInv'
  <1> DEFINE after(w) == IF Unsettled(w) /\ round[w].left > 0 THEN round[w].left - 1
                         ELSE round[w].left
  <1>1. /\ RoundsType(round) /\ Queued(round, waiting) /\ OwnRows(round) /\ Few(round)
        /\ Members(round, tx) /\ Ahead(round, waiting, tx) /\ (tx.st = "none" => waiting = <<>>)
    BY Zenon DEF RoundsInv, RoundsGood
  <1>2. /\ waiting' = waiting /\ tx' = tx
        /\ round' = [w \in Workers |->
              IF Unsettled(w) /\ round[w].left > 0 THEN [round[w] EXCEPT !.left = round[w].left - 1]
              ELSE round[w]]
    BY Zenon DEF Elapse
  <1>3. ASSUME NEW w \in Workers
        PROVE  /\ RoundShape(round'[w]) /\ round'[w].left = after(w)
               /\ round'[w].batches = round[w].batches /\ round'[w].passed = round[w].passed
               /\ round'[w].rows = round[w].rows /\ round'[w].st = round[w].st
    <2>1. RoundShape(round[w]) /\ round[w].left \in Nat
      BY <1>1, Zenon DEF RoundsType, RoundShape
    <2>2. CASE Unsettled(w) /\ round[w].left > 0
      <3>1. round'[w] = [round[w] EXCEPT !.left = round[w].left - 1]
        BY <1>2, <2>2, ZenonT(30)
      <3>2. round[w].left - 1 \in Nat
        BY <2>1, <2>2
      <3> QED BY <2>1, <2>2, <3>1, <3>2, RoundTicks, SMTT(30)
    <2>3. CASE ~(Unsettled(w) /\ round[w].left > 0)
      BY <1>2, <2>1, <2>3, ZenonT(30)
    <2> QED BY <2>2, <2>3, Zenon
  <1> HIDE DEF after
  <1>4. round' = [w \in Workers |-> round'[w]]
    BY <1>2, ZenonT(30)
  <1>5. Elements(waiting) \subseteq Workers
    BY <1>1 DEF Queued, Elements
  <1>6. RoundsType(round')
    BY <1>3, <1>4, Zenon DEF RoundsType
  <1>7. Queued(round', waiting')
    BY <1>1, <1>2, <1>3, <1>5, ZenonT(30) DEF Queued
  <1>8. OwnRows(round')
    BY <1>1, <1>3, ZenonT(30) DEF OwnRows
  <1>9. Few(round')
    BY <1>1, <1>3, ZenonT(30) DEF Few
  <1>10. Members(round', tx')
    <2>1. \A i \in DOMAIN tx.members : tx.members[i].live => tx.members[i].worker \in Workers
      BY WaitingNotLive, Zenon DEF Live
    <2>2. ASSUME NEW i \in DOMAIN tx.members, tx.members[i].live
          PROVE  /\ round'[tx.members[i].worker].st = "member"
                 /\ round'[tx.members[i].worker].batches = tx.members[i].batches
      <3>1. /\ round[tx.members[i].worker].st = "member" /\ tx.members[i].worker \in Workers
            /\ round[tx.members[i].worker].batches = tx.members[i].batches
        BY <1>1, <2>1, <2>2, ZenonT(30) DEF Members
      <3> QED BY <1>3, <3>1, ZenonT(30)
    <2>3. Members(round', tx)
      BY <1>1, <2>2, ZenonT(30) DEF Members
    <2> QED BY <1>2, <2>3, ZenonT(30)
  <1>11. Ahead(round', waiting', tx')
    <2> SUFFICES ASSUME NEW w \in Elements(waiting), round'[w].passed # 0
                 PROVE  ~tx.sent /\ round'[Leader].left <= round'[w].left
      BY <1>2, ZenonT(30) DEF Ahead, Leader
    <2>1. w \in Workers /\ round[w].passed # 0 /\ round[w].st = "waiting" /\ Unsettled(w)
      BY <1>1, <1>3, <1>5, ZenonT(30) DEF Queued, Unsettled
    <2>2. ~tx.sent /\ round[Leader].left <= round[w].left
      BY <1>1, <2>1, ZenonT(30) DEF Ahead, Leader
    <2>3. waiting # <<>>
      BY SMTT(30) DEF Elements
    <2>4. Leader \in Workers /\ Unsettled(Leader)
      BY <1>1, <2>3, LeaderIn, ZenonT(30) DEF Unsettled
    <2>5. round[Leader].left \in Nat /\ round[w].left \in Nat
      BY <1>1, <2>1, <2>4, ZenonT(30) DEF RoundsType, RoundShape
    <2>6. after(Leader) <= after(w)
      BY <2>1, <2>2, <2>4, <2>5, SMTT(30) DEF after
    <2> QED BY <1>3, <2>1, <2>2, <2>4, <2>6, ZenonT(30)
  <1> QED BY <1>1, <1>2, <1>6, <1>7, <1>8, <1>9, <1>10, <1>11, ZenonT(30) DEF RoundsInv, RoundsGood

LEMMA InitRounds == Init => RoundsInv
  <1> SUFFICES ASSUME Init PROVE RoundsInv
    BY Zenon
  <1>1. round = [w \in Workers |-> NoRound] /\ waiting = <<>> /\ tx = NoTx
    BY ZenonT(30) DEF Init
  <1>2. RoundShape(NoRound) /\ NoRound.st = "idle"
    BY ZenonT(30) DEF NoRound, RoundShape
  <1>3. RoundsType(round) /\ \A w \in Workers : round[w] = NoRound
    BY <1>1, <1>2, ZenonT(30) DEF RoundsType
  <1>4. /\ <<>> \in Seq(Workers) /\ <<>> \in Seq(MemberType) /\ DOMAIN <<>> = {}
        /\ Elements(<<>>) = {} /\ Distinct(<<>>)
    BY SMTT(30) DEF Elements, Distinct
  <1>5. NoTx.members = <<>> /\ NoTx.st = "none" /\ NoTx.sent = FALSE
    BY ZenonT(30) DEF NoTx
  <1>6. Queued(round, waiting) /\ Ahead(round, waiting, tx)
    BY <1>1, <1>4, ZenonT(30) DEF Queued, Ahead
  <1>7. Members(round, tx)
    BY <1>1, <1>4, <1>5, ZenonT(30) DEF Members
  <1>8. OwnRows(round) /\ Few(round)
    BY <1>2, <1>3, ZenonT(30) DEF OwnRows, Few
  <1> QED BY <1>1, <1>3, <1>6, <1>7, <1>8, ZenonT(30) DEF RoundsInv, RoundsGood

LEMMA RollbackGood ==
    ASSUME RoundsInv, TxShape(tx), tx.st # "none", NEW err, NEW s, Rollback(err, s)
    PROVE  RoundsInv'
  <1>1. CASE Late
    BY <1>1, EndGood, ZenonT(30) DEF Rollback
  <1>2. CASE ~Late
    <2>1. tx' = [tx EXCEPT !.st = "rollback", !.err = err] /\ round' = round /\ waiting' = waiting
      BY <1>2, Zenon DEF Rollback
    <2>2. tx'.members = tx.members /\ tx'.sent = tx.sent /\ tx'.st = "rollback"
      BY <2>1, ZenonT(30) DEF TxShape
    <2> QED BY <2>1, <2>2, QuietGood, ZenonT(30)
  <1> QED BY <1>1, <1>2, ZenonT(30)

\* Steps of the connection and of its holders.
LEMMA HolderGood ==
    ASSUME RoundsInv, TxShape(tx), NEW w,
           \/ Hold(w) \/ Close(w) \/ CloseSettled(w) \/ ConnectArrives \/ RetryConnect
           \/ ConnectionFails
    PROVE  RoundsInv'
  <1>1. round' = round /\ waiting' = waiting
    BY ZenonT(30) DEF Hold, Close, CloseSettled, ConnectArrives, RetryConnect, ConnectionFails
  <1>2. \/ tx' = tx \/ tx' = Stray \/ tx' = [tx EXCEPT !.mine = FALSE]
    BY Zenon DEF Hold, Close, CloseSettled, ConnectArrives, RetryConnect, ConnectionFails
  <1>3. tx'.members = tx.members /\ tx'.sent = tx.sent /\ tx'.st = tx.st
    BY <1>2, Zenon DEF Stray, TxShape
  <1> QED BY <1>1, <1>3, QuietGood, ZenonT(30)

\* Steps of a transaction when the database answers.
LEMMA AnsweredGood ==
    ASSUME RoundsInv, TxShape(tx), Answered
    PROVE  RoundsInv'
  <1>1. ASSUME NEW short, SendBegin(short) PROVE RoundsInv'
    <2>1. CASE TooShort(short)
      BY <1>1, <2>1, EndGood, ZenonT(30) DEF SendBegin
    <2>2. CASE ~TooShort(short)
      <3>1. /\ tx' = [tx EXCEPT !.st = "begin", !.lent = TRUE, !.mine = ~tx.stray]
            /\ tx.st = "connect" /\ round' = round /\ waiting' = waiting
        BY <1>1, <2>2, ZenonT(30) DEF SendBegin
      <3>2. tx'.members = tx.members /\ tx'.sent = tx.sent /\ tx'.st = "begin"
        BY <3>1, SMTT(30) DEF TxShape
      <3> QED BY <3>1, <3>2, QuietGood
    <2> QED BY <2>1, <2>2, ZenonT(30)
  <1>2. ASSUME NEW short, BeginAnswered(short) PROVE RoundsInv'
    <2>1. tx.st = "begin"
      BY <1>2, ZenonT(30) DEF BeginAnswered
    <2>2. CASE TooShort(short)
      BY <1>2, <2>1, <2>2, RollbackGood, SMTT(30) DEF BeginAnswered
    <2>3. CASE ~TooShort(short)
      <3>1. tx' = [tx EXCEPT !.st = "settings"] /\ round' = round /\ waiting' = waiting
        BY <1>2, <2>3, ZenonT(30) DEF BeginAnswered
      <3>2. tx'.members = tx.members /\ tx'.sent = tx.sent /\ tx'.st = "settings"
        BY <3>1, ZenonT(30) DEF TxShape
      <3> QED BY <2>1, <3>1, <3>2, QuietGood, SMTT(30)
    <2> QED BY <2>2, <2>3, ZenonT(30)
  <1>3. ASSUME NEW slow, SettingsAnswered(slow) PROVE RoundsInv'
    <2>1. tx.st = "settings"
      BY <1>3, Zenon DEF SettingsAnswered
    <2>2. CASE Late \/ slow
      BY <1>3, <2>1, <2>2, RollbackGood, SMTT(30) DEF SettingsAnswered
    <2>3. CASE ~(Late \/ slow)
      <3>1. /\ tx' = [tx EXCEPT !.st = "heartbeat", !.sent = TRUE,
                        !.members = tx.members \o [i \in DOMAIN Joined |-> Member(round, Joined[i])]]
            /\ round' = [w \in Workers |->
                  IF \E i \in DOMAIN Joined : Joined[i] = w
                  THEN [round[w] EXCEPT !.st = "member"] ELSE round[w]]
            /\ waiting' = Only(waiting, {w \in Workers : ~Joins(w)})
        BY <1>3, <2>3, ZenonT(30) DEF SettingsAnswered
      <3>2. tx.st # "none"
        BY <2>1, ZenonT(30)
      <3> QED BY <3>1, <3>2, JoinGood, ZenonT(30)
    <2> QED BY <2>2, <2>3, ZenonT(30)
  <1>4. CASE HeartbeatAnswered
    <2>1. tx.st = "heartbeat"
      BY <1>4, ZenonT(30) DEF HeartbeatAnswered
    <2>2. CASE Late
      BY <1>4, <2>1, <2>2, RollbackGood, ZenonT(30) DEF HeartbeatAnswered
    <2>3. CASE ~Late
      <3>1. tx' = [tx EXCEPT !.st = "commit"] /\ round' = round /\ waiting' = waiting
        BY <1>4, <2>3, ZenonT(30) DEF HeartbeatAnswered
      <3>2. tx'.members = tx.members /\ tx'.sent = tx.sent /\ tx'.st = "commit"
        BY <3>1, ZenonT(30) DEF TxShape
      <3> QED BY <2>1, <3>1, <3>2, QuietGood, ZenonT(30)
    <2> QED BY <2>2, <2>3, ZenonT(30)
  <1>5. CASE CommitAnswered
    BY <1>5, EndGood, ZenonT(30) DEF CommitAnswered
  <1>6. CASE RollbackAnswered
    <2>1. CASE tx.err = "deadlock" /\ tx.attempt < Attempts
      <3>1. /\ tx' = [tx EXCEPT !.st = "connect", !.err = "none", !.attempt = tx.attempt + 1]
            /\ tx.st = "rollback" /\ round' = round /\ waiting' = waiting
        BY <1>6, <2>1, ZenonT(30) DEF RollbackAnswered
      <3>2. tx'.members = tx.members /\ tx'.sent = tx.sent /\ tx'.st = "connect"
        BY <3>1, ZenonT(30) DEF TxShape
      <3> QED BY <3>1, <3>2, QuietGood, ZenonT(30)
    <2>2. CASE ~(tx.err = "deadlock" /\ tx.attempt < Attempts)
      BY <1>6, <2>2, EndGood, ZenonT(30) DEF RollbackAnswered
    <2> QED BY <2>1, <2>2, ZenonT(30)
  <1> QED BY <1>1, <1>2, <1>3, <1>4, <1>5, <1>6, ZenonT(30) DEF Answered

LEMMA NextRounds ==
    ASSUME RoundsInv, TxShape(tx), [Next]_vars
    PROVE  RoundsInv'
  <1>1. CASE UNCHANGED vars
    <2>1. round' = round /\ waiting' = waiting /\ tx' = tx
      BY <1>1, ZenonT(30) DEF vars
    <2> QED BY <2>1, QuietGood, ZenonT(30)
  <1>2. CASE ConnectFails
    <2>1. CASE tx.st = "connect"
      BY <1>2, <2>1, EndGood, ZenonT(30) DEF ConnectFails
    <2>2. CASE tx.st # "connect"
      <3>1. round' = round /\ waiting' = waiting /\ tx' = tx
        BY <1>2, <2>2, ZenonT(30) DEF ConnectFails
      <3> QED BY <3>1, QuietGood, ZenonT(30)
    <2> QED BY <2>1, <2>2, ZenonT(30)
  <1>3. CASE Refused
    BY <1>3, EndGood, ZenonT(30) DEF Refused
  <1>4. CASE Failed
    <2>1. CASE StatementLost
      BY <2>1, EndGood, ZenonT(30) DEF StatementLost
    <2>2. ASSUME NEW err, StatementFails(err) PROVE RoundsInv'
      <3>1. tx.st # "none" /\ Rollback(err, "aborted")
        BY <2>2, ZenonT(30) DEF StatementFails
      <3> QED BY <3>1, RollbackGood, ZenonT(30)
    <2> QED BY <1>4, <2>1, <2>2, ZenonT(30) DEF Failed
  <1> QED BY <1>1, <1>2, <1>3, <1>4, HolderGood, TimedOutGood, RenewGood, AnsweredGood,
             ElapseGood, ZenonT(30) DEF Next

\* For every set of workers, every deadline and every number of batches: a round that shares a
\* transaction is resolved with the rows of its own batches, whichever rounds lead, join, time out or
\* fail meanwhile (endTransaction's offset), and at most one heartbeat passes a round while it waits,
\* because startNext lets the earliest deadline lead and join takes every deadline that is not
\* earlier.
THEOREM RoundsShareAlways == Spec => []RoundsShare
  <1>1. RoundsInv => RoundsShare
    <2> SUFFICES ASSUME RoundsInv PROVE RoundsShare
      BY ZenonT(30)
    <2>1. DOMAIN round = Workers /\ OwnRows(round) /\ Few(round)
      BY Zenon DEF RoundsInv, RoundsGood, RoundsType
    <2>2. RowsReachTheirRound
      BY <2>1, ZenonT(30) DEF RowsReachTheirRound, OwnRows
    <2>3. NotPassedTwice
      BY <2>1, ZenonT(30) DEF NotPassedTwice, Few, Unsettled
    <2> QED BY <2>2, <2>3, ZenonT(30) DEF RoundsShare
  <1>2. Init => ConnectionInv /\ RoundsInv
    BY InitConnection, InitRounds, ZenonT(30)
  <1>3. ConnectionInv /\ RoundsInv /\ [Next]_vars => ConnectionInv' /\ RoundsInv'
    <2>1. ConnectionInv => TxShape(tx)
      BY Zenon DEF ConnectionInv, ConnectionType
    <2> QED BY <2>1, NextConnection, NextRounds, ZenonT(30)
  <1> QED BY <1>1, <1>2, <1>3, PTL DEF Spec
=============================================================================
