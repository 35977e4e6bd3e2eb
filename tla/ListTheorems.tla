----------------------------- MODULE ListTheorems -----------------------------
(***************************************************************************)
(* Facts the proofs about lists rest on: induction on natural numbers,     *)
(* stated for sets and functions; recursive functions; filters and sums;   *)
(* the elements of a finite set in an order.                               *)
(***************************************************************************)
EXTENDS Ordering, FiniteSetsExt, WellFoundedInduction, NaturalsInduction, FiniteSetTheorems,
        SequenceTheorems, TLAPS

Smaller == {p \in Nat \X Nat : p[1] < p[2]}

(* Every set of numbers that is not empty has a least one.                 *)
LEMMA LeastNumber ==
    ASSUME NEW S \in SUBSET Nat, S # {}
    PROVE  \E x \in S : \A y \in S : x <= y
<1>1. IsWellFoundedOn(Smaller, Nat)
  BY NatLessThanWellFounded, Zenon DEF Smaller, OpToRel
<1>2. PICK x \in S : \A y \in S : ~(<<y, x>> \in Smaller)
  BY <1>1, WFMin
<1>3. ASSUME NEW y \in S PROVE x <= y
  <2>1. x \in Nat /\ y \in Nat
    OBVIOUS
  <2>2. y < x => <<y, x>> \in Smaller
    BY <2>1, Zenon DEF Smaller
  <2> QED
    BY <1>2, <2>1, <2>2
<1> QED
  BY <1>3

(* Induction up to n, for the set of the numbers for which a fact holds.   *)
LEMMA UpTo ==
    ASSUME NEW n \in Nat, NEW S, 0 \in S, \A k \in 1..n : k - 1 \in S => k \in S
    PROVE  0..n \subseteq S
<1> DEFINE Out == {k \in 0..n : k \notin S}
<1>1. ASSUME Out # {} PROVE FALSE
  <2>1. Out \in SUBSET Nat
    OBVIOUS
  <2>2. PICK k \in Out : \A j \in Out : k <= j
    BY <1>1, <2>1, LeastNumber
  <2>3. k \in 1..n /\ k - 1 \in 0..n /\ ~(k <= k - 1)
    BY <2>2
  <2>4. k - 1 \in S
    BY <2>2, <2>3
  <2> QED
    BY <2>2, <2>3, <2>4
<1> QED
  BY <1>1

(* A recursion up to n over the values A: there is a function that obeys   *)
(* its equation.                                                           *)
Obeys(f, n, start, step) ==
    \A k \in 0..n : f[k] = IF k = 0 THEN start ELSE step[<<f[k - 1], k>>]

(* A step for each k up to n has a function that starts and steps so.      *)
LEMMA RecursionExists ==
    ASSUME NEW A, NEW start \in A, NEW n \in Nat, NEW step \in [A \X (1..n) -> A]
    PROVE  \E f \in [0..n -> A] : Obeys(f, n, start, step)
<1> DEFINE S == {k \in 0..n : \E f \in [0..k -> A] : Obeys(f, k, start, step)}
<1>1. 0 \in S
  <2> DEFINE f == [k \in 0..0 |-> start]
  <2>1. f \in [0..0 -> A] /\ Obeys(f, 0, start, step)
    BY DEF Obeys
  <2> QED
    BY <2>1
<1>2. ASSUME NEW k \in 1..n, k - 1 \in S PROVE k \in S
  <2>1. PICK g \in [0..(k - 1) -> A] : Obeys(g, k - 1, start, step)
    BY <1>2
  <2> DEFINE last == step[<<g[k - 1], k>>]
             f    == [j \in 0..k |-> IF j = k THEN last ELSE g[j]]
  <2>2. last \in A
    <3>1. g[k - 1] \in A
      BY <2>1
    <3>2. <<g[k - 1], k>> \in A \X (1..n)
      BY <3>1
    <3> QED
      BY <3>2
  <2> HIDE DEF last
  <2>3. f \in [0..k -> A]
    BY <2>1, <2>2
  <2>4. ASSUME NEW j \in 0..k
        PROVE  f[j] = IF j = 0 THEN start ELSE step[<<f[j - 1], j>>]
    <3>1. CASE j = k
      <4>1. f[j] = last /\ f[j - 1] = g[j - 1] /\ j # 0
        BY <3>1
      <4> QED
        BY <3>1, <4>1 DEF last
    <3>2. CASE j # k
      <4>1. j \in 0..(k - 1) /\ f[j] = g[j]
        BY <3>2
      <4>2. g[j] = IF j = 0 THEN start ELSE step[<<g[j - 1], j>>]
        BY <2>1, <4>1 DEF Obeys
      <4>3. j # 0 => f[j - 1] = g[j - 1]
        BY <4>1
      <4> QED
        BY <4>1, <4>2, <4>3
    <3> QED
      BY <3>1, <3>2
  <2> HIDE DEF f
  <2>5. Obeys(f, k, start, step)
    BY <2>4 DEF Obeys
  <2> QED
    BY <2>3, <2>5
<1> HIDE DEF S
<1>3. 0..n \subseteq S
  BY <1>1, <1>2, UpTo
<1> QED
  BY <1>3 DEF S

(* The places of a finite set of numbers are numbered in order.            *)
LEMMA NthPlace ==
    ASSUME NEW set \in SUBSET Nat, IsFiniteSet(set)
    PROVE  /\ Cardinality(set) \in Nat
           /\ \A n \in 1..Cardinality(set) : Nth(set, n) \in set
           /\ \A m, n \in 1..Cardinality(set) : m < n => Nth(set, m) < Nth(set, n)
           /\ \A i \in set : \E n \in 1..Cardinality(set) : Nth(set, n) = i
<1> DEFINE upto(i) == {j \in set : j <= i}
           rank == [i \in set |-> Cardinality(upto(i))]
           size == Cardinality(set)
<1>1. size \in Nat
  BY FS_CardinalityType
<1>2. ASSUME NEW i \in set
      PROVE  rank[i] \in 1..size
  <2>1. IsFiniteSet(upto(i)) /\ Cardinality(upto(i)) <= size
    <3>1. upto(i) \in SUBSET set
      OBVIOUS
    <3>2. QED
      BY <3>1, FS_Subset
  <2>2. Cardinality(upto(i)) \in Nat /\ (Cardinality(upto(i)) = 0 <=> upto(i) = {})
    BY <2>1, FS_CardinalityType, FS_EmptySet
  <2>3. i \in upto(i)
    OBVIOUS
  <2> HIDE DEF upto
  <2>4. QED
    BY <1>1, <2>1, <2>2, <2>3
<1>3. ASSUME NEW i \in set, NEW j \in set, i < j
      PROVE  rank[i] < rank[j]
  <2> i \in Nat /\ j \in Nat
    OBVIOUS
  <2>1. upto(i) \in SUBSET upto(j) /\ j \in upto(j) /\ j \notin upto(i)
    <3>1. \A k \in set : k <= i => k <= j
      BY <1>3
    <3>2. j <= j /\ ~(j <= i)
      BY <1>3
    <3>3. QED
      BY <3>1, <3>2
  <2>2. IsFiniteSet(upto(j))
    <3>1. upto(j) \in SUBSET set
      OBVIOUS
    <3>2. QED
      BY <3>1, FS_Subset
  <2> HIDE DEF upto
  <2>3. Cardinality(upto(i)) <= Cardinality(upto(j)) /\ Cardinality(upto(j)) # Cardinality(upto(i))
    BY <2>1, <2>2, FS_Subset
  <2>4. Cardinality(upto(i)) \in Int /\ Cardinality(upto(j)) \in Int
    BY <1>2
  <2>5. QED
    BY <2>3, <2>4
<1> HIDE DEF size
<1>4. rank \in [set -> 1..size]
  BY <1>2
<1>5. rank \in Injection(set, 1..size)
  <2>1. ASSUME NEW i \in set, NEW j \in set, i # j
        PROVE  rank[i] # rank[j]
    <3>1. i < j \/ j < i
      BY <2>1
    <3>2. rank[i] \in Int /\ rank[j] \in Int
      BY <1>1, <1>4
    <3> HIDE DEF rank
    <3>3. QED
      BY <1>3, <3>1, <3>2
  <2> HIDE DEF rank
  <2>2. QED
    BY <1>4, <2>1 DEF Injection, IsInjective
<1>6. rank \in Surjection(set, 1..size)
  <2>1. IsFiniteSet(1..size) /\ Cardinality(1..size) = size
    BY <1>1, FS_Interval
  <2> HIDE DEF rank
  <2>2. QED
    BY <1>5, <2>1, FS_Injection DEF size
<1>7. ASSUME NEW n \in 1..size
      PROVE  Nth(set, n) \in set /\ rank[Nth(set, n)] = n
  <2>1. \E i \in set : rank[i] = n
    <3> HIDE DEF rank
    <3> QED
      BY <1>6 DEF Surjection
  <2>2. \E i \in set : Cardinality(upto(i)) = n
    BY <2>1
  <2>3. Nth(set, n) \in set /\ Cardinality(upto(Nth(set, n))) = n
    BY <2>2 DEF Nth
  <2>4. QED
    BY <2>3
<1> HIDE DEF rank
<1>8. ASSUME NEW m \in 1..size, NEW n \in 1..size, m < n
      PROVE  Nth(set, m) < Nth(set, n)
  <2> DEFINE a == Nth(set, m)
             b == Nth(set, n)
  <2>1. a \in set /\ b \in set /\ rank[a] = m /\ rank[b] = n
    BY <1>7
  <2> HIDE DEF a, b
  <2>2. m \in Int /\ n \in Int /\ a \in Nat /\ b \in Nat
    BY <1>1, <2>1
  <2>3. ~(b < a) /\ b # a
    BY <1>3, <1>8, <2>1, <2>2
  <2>4. a < b
    BY <2>2, <2>3
  <2>5. QED
    BY <2>4 DEF a, b
<1>9. ASSUME NEW i \in set
      PROVE  \E n \in 1..size : Nth(set, n) = i
  <2>1. rank[i] \in 1..size
    BY <1>4
  <2>2. Nth(set, rank[i]) \in set /\ rank[Nth(set, rank[i])] = rank[i]
    BY <1>7, <2>1
  <2>3. Nth(set, rank[i]) = i
    BY <1>5, <2>2 DEF Injection, IsInjective
  <2>4. QED
    BY <2>1, <2>3
<1>10. QED
  BY <1>1, <1>7, <1>8, <1>9 DEF size

(* A filtered sequence has the elements that pass, in their order.         *)
LEMMA PlacesOf ==
    ASSUME NEW S, NEW s \in Seq(S), NEW set \in SUBSET (DOMAIN s)
    PROVE  /\ Places(s, set) \in Seq(S)
           /\ Len(Places(s, set)) = Cardinality(set)
           /\ \A n \in DOMAIN Places(s, set) : \E i \in set : Places(s, set)[n] = s[i]
           /\ \A i \in set : \E n \in DOMAIN Places(s, set) : Places(s, set)[n] = s[i]
           /\ \A m, n \in DOMAIN Places(s, set) :
                 m < n => \E i, j \in set :
                            i < j /\ Places(s, set)[m] = s[i] /\ Places(s, set)[n] = s[j]
<1> DEFINE size == Cardinality(set)
           p == Places(s, set)
<1>1. DOMAIN s = 1..Len(s) /\ Len(s) \in Nat
  OBVIOUS
<1>2. set \in SUBSET Nat /\ IsFiniteSet(set)
  <2>1. IsFiniteSet(1..Len(s))
    BY <1>1, FS_Interval
  <2>2. QED
    BY <1>1, <2>1, FS_Subset
<1>3. /\ size \in Nat
      /\ \A n \in 1..size : Nth(set, n) \in set
      /\ \A m, n \in 1..size : m < n => Nth(set, m) < Nth(set, n)
      /\ \A i \in set : \E n \in 1..size : Nth(set, n) = i
  BY <1>2, NthPlace
<1>4. p = [n \in 1..size |-> s[Nth(set, n)]]
  BY DEF Places
<1> HIDE DEF size
<1>5. \A n \in 1..size : s[Nth(set, n)] \in S
  BY <1>1, <1>3
<1>6. p \in [1..size -> S]
  BY <1>4, <1>5
<1>7. p \in Seq(S) /\ Len(p) = size /\ DOMAIN p = 1..size
  BY <1>3, <1>6
<1>8. \A n \in 1..size : p[n] = s[Nth(set, n)]
  BY <1>4
<1> HIDE DEF p
<1>9. \A m, n \in DOMAIN p : m < n => \E i, j \in set : i < j /\ p[m] = s[i] /\ p[n] = s[j]
  BY <1>3, <1>7, <1>8
<1>10. /\ \A n \in DOMAIN p : \E i \in set : p[n] = s[i]
       /\ \A i \in set : \E n \in DOMAIN p : p[n] = s[i]
  BY <1>3, <1>7, <1>8
<1>11. QED
  BY <1>7, <1>9, <1>10 DEF p, size


(* The sum of a sequence is a number, grows with each element, and that of *)
(* no numbers is 0.                                                        *)
LEMMA TotalObeys ==
    ASSUME NEW s \in Seq(Int)
    PROVE  \E sum \in [0..Len(s) -> Int] :
               /\ sum[0] = 0 /\ Total(s) = sum[Len(s)]
               /\ \A k \in 1..Len(s) : sum[k] = sum[k - 1] + s[k]
<1> DEFINE n == Len(s)
           Sum == CHOOSE Sum : Sum = [k \in 0..Len(s) |-> IF k = 0 THEN 0 ELSE Sum[k - 1] + s[k]]
           step == [x \in Int \X (1..n) |-> x[1] + s[x[2]]]
<1>1. n \in Nat /\ 0 \in Int /\ step \in [Int \X (1..n) -> Int]
  OBVIOUS
<1>2. Total(s) = Sum[n]
  BY DEF Total
<1>3. \A k \in 1..n : \A v \in Int : step[<<v, k>>] = v + s[k]
  OBVIOUS
<1> HIDE DEF step, n
<1>4. PICK f \in [0..n -> Int] : Obeys(f, n, 0, step)
  BY <1>1, RecursionExists
<1>5. ASSUME NEW k \in 0..n PROVE f[k] = IF k = 0 THEN 0 ELSE f[k - 1] + s[k]
  <2>1. f[k] = IF k = 0 THEN 0 ELSE step[<<f[k - 1], k>>]
    BY <1>4 DEF Obeys
  <2>2. k # 0 => k \in 1..n /\ f[k - 1] \in Int
    BY <1>1, <1>4
  <2> QED
    BY <1>3, <2>1, <2>2
<1>6. f = [k \in 0..n |-> IF k = 0 THEN 0 ELSE f[k - 1] + s[k]]
  <2>1. f = [k \in 0..n |-> f[k]]
    BY <1>4
  <2> QED
    BY <1>5, <2>1
<1>7. Sum = [k \in 0..n |-> IF k = 0 THEN 0 ELSE Sum[k - 1] + s[k]]
  BY <1>6 DEF n
<1> HIDE DEF Sum
<1>8. \A k \in 1..n : Sum[k] = Sum[k - 1] + s[k]
  BY <1>1, <1>7
<1>9. Sum[0] = 0
  BY <1>1, <1>7
<1> DEFINE T == {k \in 0..n : Sum[k] \in Int}
<1>10. 0 \in T
  BY <1>1, <1>9
<1>11. \A k \in 1..n : k - 1 \in T => k \in T
  <2> SUFFICES ASSUME NEW k \in 1..n, k - 1 \in T PROVE k \in T
    OBVIOUS
  <2>1. s[k] \in Int /\ k \in 0..n
    BY <1>1 DEF n
  <2> QED
    BY <1>8, <2>1
<1>12. 0..n \subseteq T
  <2> HIDE DEF T
  <2> QED
    BY <1>1, <1>10, <1>11, UpTo
<1>13. Sum = [k \in 0..n |-> Sum[k]]
  BY <1>7
<1>14. Sum \in [0..n -> Int]
  BY <1>12, <1>13
<1> QED
  BY <1>2, <1>8, <1>9, <1>14 DEF n

(* The sum of no numbers.                                                  *)
LEMMA TotalOfNone == Total(<<>>) = 0
<1>1. <<>> \in Seq(Int) /\ Len(<<>>) = 0
  OBVIOUS
<1> QED
  BY <1>1, TotalObeys

(* Two sums over the same elements agree.                                  *)
LEMMA TotalAppended ==
    ASSUME NEW s \in Seq(Int), NEW x \in Int
    PROVE  Total(Append(s, x)) = Total(s) + x
<1> DEFINE t == Append(s, x)
           n == Len(s)
<1>1. t \in Seq(Int) /\ Len(t) = n + 1 /\ t[n + 1] = x /\ n \in Nat /\ \A k \in 1..n : t[k] = s[k]
  OBVIOUS
<1> HIDE DEF t
<1>2. PICK f \in [0..n -> Int] : /\ f[0] = 0 /\ Total(s) = f[n]
                                 /\ \A k \in 1..n : f[k] = f[k - 1] + s[k]
  BY TotalObeys
<1>3. PICK g \in [0..Len(t) -> Int] : /\ g[0] = 0 /\ Total(t) = g[Len(t)]
                                      /\ \A k \in 1..Len(t) : g[k] = g[k - 1] + t[k]
  BY <1>1, TotalObeys
<1> DEFINE T == {k \in 0..n : f[k] = g[k]}
<1>4. 0 \in T
  BY <1>1, <1>2, <1>3
<1>5. \A k \in 1..n : k - 1 \in T => k \in T
  BY <1>1, <1>2, <1>3
<1>6. 0..n \subseteq T
  <2> HIDE DEF T
  <2> QED
    BY <1>1, <1>4, <1>5, UpTo
<1>7. f[n] = g[n]
  BY <1>1, <1>6
<1>8. n + 1 \in 1..Len(t) /\ (n + 1) - 1 = n /\ t[n + 1] = x
  BY <1>1
<1>9. g[n + 1] = g[n] + x
  BY <1>3, <1>8
<1> QED
  BY <1>1, <1>2, <1>3, <1>7, <1>9 DEF t

(* The sum of natural numbers is one.                                      *)
LEMMA TotalIsNat ==
    ASSUME NEW s \in Seq(Nat)
    PROVE  Total(s) \in Nat
<1> DEFINE n == Len(s)
<1>1. s \in Seq(Int) /\ n \in Nat /\ \A k \in 1..n : s[k] \in Nat
  OBVIOUS
<1>2. PICK f \in [0..n -> Int] : /\ f[0] = 0 /\ Total(s) = f[n]
                                 /\ \A k \in 1..n : f[k] = f[k - 1] + s[k]
  BY <1>1, TotalObeys
<1> HIDE DEF n
<1> DEFINE T == {k \in 0..n : f[k] \in Nat}
<1>3. 0 \in T
  BY <1>1, <1>2
<1>4. \A k \in 1..n : k - 1 \in T => k \in T
  <2> SUFFICES ASSUME NEW k \in 1..n, k - 1 \in T PROVE k \in T
    OBVIOUS
  <2>1. s[k] \in Nat /\ f[k - 1] \in Nat /\ k \in 0..n /\ f[k] = f[k - 1] + s[k]
    BY <1>1, <1>2
  <2> QED
    BY <2>1
<1>5. 0..n \subseteq T
  <2> HIDE DEF T
  <2> QED
    BY <1>1, <1>3, <1>4, UpTo
<1> QED
  BY <1>1, <1>2, <1>5


(* The elements of a finite set before one of them, in a strict total      *)
(* order: their number is its place, and every place is taken.             *)
Before(R, S, x) == {y \in S : <<y, x>> \in R}

StrictTotalOrder(R, S) ==
    /\ \A x \in S : <<x, x>> \notin R
    /\ \A x, y \in S : x # y => <<x, y>> \in R \/ <<y, x>> \in R
    /\ \A x, y, z \in S : <<x, y>> \in R /\ <<y, z>> \in R => <<x, z>> \in R

(* In a strict total order the number of elements before one determines it.*)
LEMMA RankExists ==
    ASSUME NEW S, IsFiniteSet(S), NEW R, StrictTotalOrder(R, S)
    PROVE  /\ Cardinality(S) \in Nat
           /\ \A x \in S : Cardinality(Before(R, S, x)) \in 0..(Cardinality(S) - 1)
           /\ \A x, y \in S : <<x, y>> \in R =>
                  Cardinality(Before(R, S, x)) < Cardinality(Before(R, S, y))
           /\ \A n \in 0..(Cardinality(S) - 1) :
                  \E x \in S : Cardinality(Before(R, S, x)) = n
<1> DEFINE size == Cardinality(S)
           rank == [x \in S |-> Cardinality(Before(R, S, x))]
<1>1. size \in Nat
  BY FS_CardinalityType
<1>2. \A x \in S : Before(R, S, x) \in SUBSET S /\ x \notin Before(R, S, x)
  BY DEF Before, StrictTotalOrder
<1>3. \A x \in S : IsFiniteSet(Before(R, S, x)) /\ Cardinality(Before(R, S, x)) \in Nat
  BY <1>2, FS_Subset, FS_CardinalityType
<1>4. ASSUME NEW x \in S PROVE rank[x] \in 0..(size - 1)
  <2>1. Cardinality(Before(R, S, x)) <= size
    BY <1>2, FS_Subset
  <2>2. Cardinality(Before(R, S, x)) # size
    BY <1>2, FS_Subset
  <2> HIDE DEF size
  <2> QED
    BY <1>1, <1>3, <2>1, <2>2
<1>5. ASSUME NEW x \in S, NEW y \in S, <<x, y>> \in R PROVE rank[x] < rank[y]
  <2>1. Before(R, S, x) \in SUBSET Before(R, S, y)
    BY <1>5 DEF Before, StrictTotalOrder
  <2>2. x \in Before(R, S, y) /\ x \notin Before(R, S, x)
    BY <1>2, <1>5 DEF Before
  <2>3. Cardinality(Before(R, S, x)) <= Cardinality(Before(R, S, y))
    BY <1>3, <2>1, FS_Subset
  <2>4. Cardinality(Before(R, S, x)) # Cardinality(Before(R, S, y))
    BY <1>3, <2>1, <2>2, FS_Subset
  <2> QED
    BY <1>3, <2>3, <2>4
<1> HIDE DEF rank, size
<1>6. rank \in [S -> 0..(size - 1)]
  BY <1>4 DEF rank
<1>7. rank \in Injection(S, 0..(size - 1))
  <2>1. ASSUME NEW x \in S, NEW y \in S, x # y PROVE rank[x] # rank[y]
    <3>1. <<x, y>> \in R \/ <<y, x>> \in R
      BY <2>1 DEF StrictTotalOrder
    <3>2. rank[x] \in Int /\ rank[y] \in Int
      BY <1>1, <1>6
    <3> QED
      BY <1>5, <3>1, <3>2
  <2> QED
    BY <1>6, <2>1 DEF Injection, IsInjective
<1>8. IsFiniteSet(0..(size - 1)) /\ Cardinality(0..(size - 1)) = size
  <2>1. 0 \in Int /\ size - 1 \in Int
    BY <1>1
  <2>2. /\ IsFiniteSet(0..(size - 1))
        /\ Cardinality(0..(size - 1)) = IF 0 > size - 1 THEN 0 ELSE (size - 1) - 0 + 1
    BY <2>1, FS_Interval
  <2> QED
    BY <1>1, <2>2
<1>9. rank \in Surjection(S, 0..(size - 1))
  BY <1>7, <1>8, FS_Injection DEF size
<1>10. \A n \in 0..(size - 1) : \E x \in S : rank[x] = n
  BY <1>9 DEF Surjection
<1> QED
  BY <1>1, <1>4, <1>5, <1>10 DEF rank, size

(* The greatest of a set of integers between two bounds.                   *)
LEMMA GreatestOf ==
    ASSUME NEW low \in Int, NEW high \in Int, NEW S \in SUBSET (low..high), S # {}
    PROVE  Max(S) \in S /\ \A y \in S : y <= Max(S)
<1> DEFINE T == {high - y : y \in S}
<1>1. T \in SUBSET Nat /\ T # {}
  <2>1. \A y \in S : high - y \in Nat
    OBVIOUS
  <2> QED
    BY <2>1
<1>2. PICK t \in T : \A u \in T : t <= u
  BY <1>1, LeastNumber
<1>3. PICK x \in S : t = high - x
  BY <1>2
<1>4. \A y \in S : x >= y
  <2> SUFFICES ASSUME NEW y \in S PROVE x >= y
    OBVIOUS
  <2>1. high - y \in T
    OBVIOUS
  <2>2. high - x <= high - y
    BY <1>2, <1>3, <2>1
  <2> QED
    BY <2>2
<1>5. \E m \in S : \A y \in S : m >= y
  BY <1>3, <1>4
<1>6. Max(S) \in S /\ \A y \in S : Max(S) >= y
  BY <1>5, Zenon DEF Max
<1> QED
  BY <1>6

(* The least of a set of integers between two bounds.                    *)
LEMMA LeastOf ==
    ASSUME NEW low \in Int, NEW high \in Int, NEW S \in SUBSET (low..high), S # {}
    PROVE  Min(S) \in S /\ \A y \in S : Min(S) <= y
<1> DEFINE T == {y - low : y \in S}
<1>1. T \in SUBSET Nat /\ T # {}
  <2>1. \A y \in S : y - low \in Nat
    OBVIOUS
  <2> QED
    BY <2>1
<1>2. PICK t \in T : \A u \in T : t <= u
  BY <1>1, LeastNumber
<1>3. PICK x \in S : t = x - low
  BY <1>2
<1>4. \A y \in S : x <= y
  <2> SUFFICES ASSUME NEW y \in S PROVE x <= y
    OBVIOUS
  <2>1. y - low \in T
    OBVIOUS
  <2>2. x - low <= y - low
    BY <1>2, <1>3, <2>1
  <2> QED
    BY <2>2
<1>5. \E m \in S : \A y \in S : m <= y
  BY <1>3, <1>4
<1>6. Min(S) \in S /\ \A y \in S : Min(S) <= y
  BY <1>5, Zenon DEF Min
<1> QED
  BY <1>6

(* Of two numbers.                                                       *)
LEMMA OfTwo ==
    ASSUME NEW a \in Int, NEW b \in Int
    PROVE  /\ Max({a, b}) = IF a >= b THEN a ELSE b
           /\ Min({a, b}) = IF a <= b THEN a ELSE b
<1>1. \E m \in {a, b} : \A y \in {a, b} : m >= y
  OBVIOUS
<1>2. \E m \in {a, b} : \A y \in {a, b} : m <= y
  OBVIOUS
<1>3. Max({a, b}) \in {a, b} /\ \A y \in {a, b} : Max({a, b}) >= y
  BY <1>1, Zenon DEF Max
<1>4. Min({a, b}) \in {a, b} /\ \A y \in {a, b} : Min({a, b}) <= y
  BY <1>2, Zenon DEF Min
<1> QED
  BY <1>3, <1>4

(* The image of a finite set.                                              *)
LEMMA ImageIsFinite ==
    ASSUME NEW S, IsFiniteSet(S), NEW f, DOMAIN f = S, NEW T, T = {f[x] : x \in S}
    PROVE  IsFiniteSet(T)
<1>1. \E g \in [S -> T] : \A x \in S : g[x] = f[x]
  <2> DEFINE g == [x \in S |-> f[x]]
  <2>1. g \in [S -> T] /\ \A x \in S : g[x] = f[x]
    OBVIOUS
  <2> QED
    BY <2>1
<1>2. PICK g \in [S -> T] : \A x \in S : g[x] = f[x]
  BY <1>1
<1>3. g \in Surjection(S, T)
  BY <1>2 DEF Surjection
<1> QED
  BY <1>3, FS_Surjection

-----------------------------------------------------------------------------
(* Lists in an order.                                                      *)

(* Every set of elements has one that none of the others is before.        *)
Grounded(S, R) == \A T \in SUBSET S : T # {} => \E x \in T : \A y \in T : <<y, x>> \notin R

(* A list of n elements of S, each once, in the order R, which no other    *)
(* element of S is before.                                                 *)
Ordered(list, n, S, R) ==
    /\ list \in Seq(S) /\ Len(list) = n
    /\ \A i, j \in 1..n : i < j => list[i] # list[j] /\ <<list[j], list[i]>> \notin R
    /\ \A i \in 1..n : \A y \in S : (\A j \in 1..n : list[j] # y) => <<y, list[i]>> \notin R

(* A list with the least of the elements it does not hold.                 *)
Grown(l, S, R) == Append(l, Least(S \ {l[i] : i \in DOMAIN l}, R))

(* The recursion of Sorted, one element after the other.                   *)
LEMMA SortedObeys ==
    ASSUME NEW S, IsFiniteSet(S), NEW R, Grounded(S, R)
    PROVE  \E list \in [0..Cardinality(S) -> Seq(S \cup {Least({}, R)})] :
               /\ Sorted(S, R) = list[Cardinality(S)]
               /\ list[0] = <<>>
               /\ \A n \in 1..Cardinality(S) : list[n] = Grown(list[n - 1], S, R)
<1> DEFINE N == Cardinality(S)
           A == Seq(S \cup {Least({}, R)})
           More(l) == Grown(l, S, R)
           Chain == CHOOSE Chain : Chain = [n \in 0..N |-> IF n = 0 THEN <<>> ELSE More(Chain[n - 1])]
           step == [p \in A \X (1..N) |-> More(p[1])]
<1>1. N \in Nat /\ <<>> \in A
  BY FS_CardinalityType
<1>2. Sorted(S, R) = Chain[N]
  BY DEF Sorted, Grown
<1>3. \A l \in A : More(l) \in A
  <2> TAKE l \in A
  <2> DEFINE rest == S \ {l[i] : i \in DOMAIN l}
  <2>1. Least(rest, R) \in S \cup {Least({}, R)}
    <3>1. CASE rest # {}
      <4>1. rest \in SUBSET S
        OBVIOUS
      <4> HIDE DEF rest
      <4>2. Least(rest, R) \in rest
        BY <3>1, <4>1 DEF Least, Grounded
      <4> QED
        BY <4>1, <4>2
    <3>2. CASE rest = {}
      <4> HIDE DEF rest
      <4> QED
        BY <3>2
    <3> QED
      BY <3>1, <3>2
  <2> HIDE DEF rest
  <2>2. l \in Seq(S \cup {Least({}, R)})
    OBVIOUS
  <2>3. Append(l, Least(rest, R)) \in Seq(S \cup {Least({}, R)})
    BY <2>1, <2>2, AppendProperties, Zenon
  <2> QED
    BY <2>3 DEF rest, Grown
<1>4. step \in [A \X (1..N) -> A]
  BY <1>3
<1>5. \A k \in 1..N : \A v \in A : step[<<v, k>>] = More(v)
  OBVIOUS
<1> HIDE DEF step, N, More, A
<1>6. PICK f \in [0..N -> A] : Obeys(f, N, <<>>, step)
  BY <1>1, <1>4, RecursionExists
<1>7. ASSUME NEW k \in 0..N PROVE f[k] = IF k = 0 THEN <<>> ELSE More(f[k - 1])
  <2>1. f[k] = IF k = 0 THEN <<>> ELSE step[<<f[k - 1], k>>]
    BY <1>6 DEF Obeys
  <2>2. k # 0 => k \in 1..N /\ f[k - 1] \in A
    BY <1>1, <1>6
  <2> QED
    BY <1>5, <2>1, <2>2
<1>8. f = [k \in 0..N |-> IF k = 0 THEN <<>> ELSE More(f[k - 1])]
  <2>1. f = [k \in 0..N |-> f[k]]
    BY <1>6
  <2> QED
    BY <1>7, <2>1, Zenon
<1>9. Chain = [k \in 0..N |-> IF k = 0 THEN <<>> ELSE More(Chain[k - 1])]
  BY <1>8, Zenon
<1> HIDE DEF Chain
<1>10. \A k \in 0..N : Chain[k] = IF k = 0 THEN <<>> ELSE More(Chain[k - 1])
  BY <1>9, Zenon
<1>11. 0 \in 0..N /\ \A k \in 1..N : k \in 0..N /\ k # 0
  BY <1>1
<1>12. Chain[0] = <<>> /\ \A k \in 1..N : Chain[k] = More(Chain[k - 1])
  BY <1>10, <1>11, Zenon
<1> DEFINE T == {k \in 0..N : Chain[k] \in A}
<1>13. 0 \in T
  BY <1>1, <1>11, <1>12
<1>14. \A k \in 1..N : k - 1 \in T => k \in T
  BY <1>3, <1>11, <1>12
<1>15. 0..N \subseteq T
  <2> HIDE DEF T
  <2> QED
    BY <1>1, <1>13, <1>14, UpTo
<1>16. Chain \in [0..N -> A]
  <2>1. Chain = [k \in 0..N |-> Chain[k]]
    BY <1>9
  <2> QED
    BY <1>15, <2>1
<1> QED
  BY <1>2, <1>12, <1>16, Zenon DEF N, A, More

(* One more element, that none of the rest is before.                      *)
LEMMA OrderedMore ==
    ASSUME NEW S, NEW R, NEW n \in Nat, NEW l, Ordered(l, n, S, R),
           NEW x \in S, \A i \in 1..n : l[i] # x,
           \A y \in S : (\A i \in 1..n : l[i] # y) => <<y, x>> \notin R
    PROVE  Ordered(Append(l, x), n + 1, S, R)
<1> DEFINE m == Append(l, x)
<1>1. l \in Seq(S) /\ Len(l) = n
  BY DEF Ordered
<1>2. m \in Seq(S) /\ Len(m) = n + 1 /\ m[n + 1] = x /\ \A i \in 1..n : m[i] = l[i]
  BY <1>1, AppendProperties
<1> HIDE DEF m
<1>3. \A i \in 1..(n + 1) : i = n + 1 \/ i \in 1..n
  OBVIOUS
<1>4. ASSUME NEW i \in 1..(n + 1), NEW j \in 1..(n + 1), i < j
      PROVE  m[i] # m[j] /\ <<m[j], m[i]>> \notin R
  <2>1. i \in 1..n
    BY <1>4
  <2>2. CASE j = n + 1
    BY <1>2, <2>1, <2>2 DEF Ordered
  <2>3. CASE j \in 1..n
    BY <1>2, <1>4, <2>1, <2>3 DEF Ordered
  <2> QED
    BY <1>3, <2>2, <2>3
<1>5. ASSUME NEW i \in 1..(n + 1), NEW y \in S, \A j \in 1..(n + 1) : m[j] # y
      PROVE  <<y, m[i]>> \notin R
  <2>1. \A j \in 1..n : j \in 1..(n + 1) /\ l[j] # y
    BY <1>2, <1>5
  <2>2. CASE i = n + 1
    BY <1>2, <2>1, <2>2
  <2>3. CASE i \in 1..n
    BY <1>2, <2>1, <2>3 DEF Ordered
  <2> QED
    BY <1>3, <2>2, <2>3
<1>6. Ordered(m, n + 1, S, R)
  BY <1>2, <1>4, <1>5 DEF Ordered
<1> QED
  BY <1>6 DEF m

(* All elements of a finite set, each once and none behind one it is       *)
(* before.                                                                 *)
LEMMA SortedLists ==
    ASSUME NEW S, IsFiniteSet(S), NEW R, Grounded(S, R)
    PROVE  /\ Cardinality(S) \in Nat
           /\ Ordered(Sorted(S, R), Cardinality(S), S, R)
           /\ \A x \in S : \E i \in 1..Cardinality(S) : Sorted(S, R)[i] = x
<1> DEFINE N == Cardinality(S)
<1>1. N \in Nat
  BY FS_CardinalityType
<1>2. PICK list \in [0..N -> Seq(S \cup {Least({}, R)})] :
          /\ Sorted(S, R) = list[N]
          /\ list[0] = <<>>
          /\ \A n \in 1..N : list[n] = Grown(list[n - 1], S, R)
  BY SortedObeys, Zenon
<1> DEFINE T == {k \in 0..N : Ordered(list[k], k, S, R)}
<1>3. 0 \in T
  <2>1. Ordered(<<>>, 0, S, R)
    BY DEF Ordered
  <2> QED
    BY <1>1, <1>2, <2>1
<1>4. ASSUME NEW n \in 1..N, n - 1 \in T PROVE n \in T
  <2> DEFINE l == list[n - 1]
             E == {l[i] : i \in DOMAIN l}
             x == Least(S \ E, R)
  <2>1. n - 1 \in Nat /\ Ordered(l, n - 1, S, R) /\ list[n] = Append(l, x) /\ n - 1 < N
    <3>1. n - 1 \in Nat /\ n - 1 < N
      BY <1>1
    <3>2. Ordered(l, n - 1, S, R)
      BY <1>4
    <3>3. list[n] = Append(l, x)
      BY <1>2 DEF Grown
    <3> QED
      BY <3>1, <3>2, <3>3
  <2> HIDE DEF l
  <2>2. l \in Seq(S) /\ DOMAIN l = 1..(n - 1)
    BY <2>1 DEF Ordered
  <2>3. S \ E # {}
    <3>1. IsFiniteSet(1..(n - 1)) /\ Cardinality(1..(n - 1)) = n - 1
      BY <2>1, FS_Interval
    <3>2. l \in Surjection(1..(n - 1), E)
      BY <2>2 DEF Surjection
    <3> HIDE DEF E
    <3>3. IsFiniteSet(E) /\ Cardinality(E) <= n - 1
      BY <3>1, <3>2, FS_Surjection
    <3>4. ASSUME S \subseteq E PROVE FALSE
      <4>1. N <= Cardinality(E) /\ Cardinality(E) \in Nat
        BY <3>3, <3>4, FS_Subset, FS_CardinalityType
      <4> QED
        BY <1>1, <2>1, <3>3, <4>1
    <3> QED
      BY <3>4
  <2>4. x \in S \ E /\ \A y \in S \ E : <<y, x>> \notin R
    <3>1. S \ E \in SUBSET S
      OBVIOUS
    <3> HIDE DEF E
    <3>2. \E z \in S \ E : \A y \in S \ E : <<y, z>> \notin R
      BY <2>3, <3>1, Zenon DEF Grounded
    <3> QED
      BY <3>2, Zenon DEF Least
  <2>5. /\ x \in S /\ \A i \in 1..(n - 1) : l[i] # x
        /\ \A y \in S : (\A i \in 1..(n - 1) : l[i] # y) => <<y, x>> \notin R
    BY <2>2, <2>4
  <2> HIDE DEF x
  <2>6. Ordered(Append(l, x), (n - 1) + 1, S, R)
    BY <2>1, <2>5, OrderedMore
  <2>7. (n - 1) + 1 = n /\ n \in 0..N
    BY <1>1
  <2> QED
    BY <2>1, <2>6, <2>7
<1>5. 0..N \subseteq T
  <2> HIDE DEF T, N
  <2> QED
    BY <1>1, <1>3, <1>4, UpTo
<1>6. Ordered(Sorted(S, R), N, S, R)
  BY <1>1, <1>2, <1>5
<1> DEFINE l == Sorted(S, R)
<1>7. l \in Seq(S) /\ Len(l) = N
  BY <1>6 DEF Ordered
<1>8. l \in Injection(1..N, S)
  <2>1. \A i, j \in 1..N : i < j => l[i] # l[j]
    BY <1>6 DEF Ordered
  <2> HIDE DEF l
  <2>2. \A i, j \in 1..N : l[i] = l[j] => i = j
    <3> TAKE i \in 1..N, j \in 1..N
    <3>1. i < j \/ j < i \/ i = j
      BY <1>1
    <3> QED
      BY <2>1, <3>1
  <2>3. l \in [1..N -> S]
    BY <1>7
  <2> QED
    BY <2>2, <2>3 DEF Injection, IsInjective
<1>9. l \in Surjection(1..N, S)
  <2>1. IsFiniteSet(1..N) /\ Cardinality(1..N) = N
    BY <1>1, FS_Interval
  <2> HIDE DEF l
  <2> QED
    BY <1>1, <1>8, <2>1, FS_Injection
<1>10. \A x \in S : \E i \in 1..N : l[i] = x
  <2> HIDE DEF l
  <2> QED
    BY <1>9 DEF Surjection
<1> QED
  BY <1>1, <1>6, <1>10
(* A lexicographic order of two numbers has a least element in every set.  *)
LEMMA Lexicographic ==
    ASSUME NEW S, NEW a \in [S -> Nat], NEW b \in [S -> Nat], NEW R,
           \A x, y \in S : <<x, y>> \in R => a[x] < a[y] \/ (a[x] = a[y] /\ b[x] < b[y])
    PROVE  Grounded(S, R)
<1> SUFFICES ASSUME NEW T \in SUBSET S, T # {}
             PROVE  \E x \in T : \A y \in T : <<y, x>> \notin R
  BY DEF Grounded
<1> DEFINE As == {a[x] : x \in T}
<1>1. As \in SUBSET Nat /\ As # {}
  OBVIOUS
<1>2. PICK m \in As : \A k \in As : m <= k
  <2> HIDE DEF As
  <2> QED
    BY <1>1, LeastNumber
<1> DEFINE Bs == {b[x] : x \in {y \in T : a[y] = m}}
<1>3. Bs \in SUBSET Nat /\ Bs # {}
  BY <1>2
<1>4. PICK n \in Bs : \A k \in Bs : n <= k
  <2> HIDE DEF Bs
  <2> QED
    BY <1>3, LeastNumber
<1>5. PICK x \in T : a[x] = m /\ b[x] = n
  BY <1>4
<1>6. ASSUME NEW y \in T, <<y, x>> \in R PROVE FALSE
  <2>1. m <= a[y] /\ a[y] \in Nat /\ m \in Nat /\ b[y] \in Nat /\ n \in Nat
    BY <1>1, <1>2, <1>3, <1>4
  <2>2. a[y] < m \/ (a[y] = m /\ b[y] < n)
    BY <1>5, <1>6
  <2>3. a[y] = m => n <= b[y]
    BY <1>4
  <2> QED
    BY <2>1, <2>2, <2>3
<1> QED
  BY <1>6

(* A list of all elements of a finite set, each once.                      *)
Listing(list, S) ==
    /\ list \in Seq(S) /\ Len(list) = Cardinality(S) /\ Cardinality(S) \in Nat
    /\ \A x \in S : \E i \in 1..Cardinality(S) : list[i] = x

(* The elements of a finite set, listed in such an order.                  *)
LEMMA SortedByTwo ==
    ASSUME NEW S, IsFiniteSet(S), NEW a \in [S -> Nat], NEW b \in [S -> Nat], NEW R,
           \A x, y \in S : <<x, y>> \in R => a[x] < a[y] \/ (a[x] = a[y] /\ b[x] < b[y])
    PROVE  Listing(Sorted(S, R), S)
<1>1. Grounded(S, R)
  BY Lexicographic
<1>2. Ordered(Sorted(S, R), Cardinality(S), S, R)
  BY <1>1, SortedLists
<1>3. Sorted(S, R) \in Seq(S) /\ Len(Sorted(S, R)) = Cardinality(S)
  BY <1>2 DEF Ordered
<1>4. Cardinality(S) \in Nat /\ \A x \in S : \E i \in 1..Cardinality(S) : Sorted(S, R)[i] = x
  BY <1>1, SortedLists
<1> QED
  BY <1>3, <1>4, Zenon DEF Listing
=============================================================================
