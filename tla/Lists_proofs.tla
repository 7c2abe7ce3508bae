---------------------------- MODULE Lists_proofs ----------------------------
(***************************************************************************)
(* Lemmas about lists.  The recursive functions of Lists are the unique    *)
(* solutions of their equations, which follows from the least element that *)
(* every set of natural numbers has; a predicate to prove by induction is  *)
(* given as the set of numbers that have it, a step as a function.         *)
(***************************************************************************)
EXTENDS Lists, WellFoundedInduction, SequenceTheorems, TLAPS

\* What division by a positive number gives.
LEMMA Division ==
  ASSUME NEW n \in Nat, NEW m \in Nat, m > 0
  PROVE  /\ n \div m \in Nat /\ n % m \in Nat /\ n % m < m
         /\ n = ((n \div m) * m) + (n % m)
OBVIOUS

-----------------------------------------------------------------------------
(* Induction and recursion up to a bound                                   *)

\* The order of the natural numbers as a relation.
LEMMA NatOrder == OpToRel(<, Nat) = {ss \in Nat \X Nat : ss[1] < ss[2]}
BY Zenon DEF OpToRel

\* Every set of natural numbers has a least element.
LEMMA LeastElement ==
  ASSUME NEW T \in SUBSET Nat, T # {}
  PROVE  \E x \in T : \A y \in T : x <= y
<1>1. PICK x \in T : \A y \in T : ~(<<y, x>> \in OpToRel(<, Nat))
  BY NatLessThanWellFounded, WFMin
<1>2. \A y \in T : ~(y < x)
  BY <1>1, NatOrder
<1> QED BY <1>2

\* A set with 0 and, with each number, the next one has all numbers to the bound.
LEMMA Induction ==
  ASSUME NEW n \in Nat, NEW T, 0 \in T, \A k \in 1..n : k - 1 \in T => k \in T
  PROVE  0..n \subseteq T
<1> DEFINE Bad == {k \in 0..n : k \notin T}
<1>1. SUFFICES ASSUME Bad # {} PROVE FALSE
  OBVIOUS
<1>2. PICK m \in Bad : \A y \in Bad : m <= y
  <2>1. Bad \in SUBSET Nat
    OBVIOUS
  <2> HIDE DEF Bad
  <2> QED BY <1>1, <2>1, LeastElement
<1>3. m \in 1..n /\ m - 1 \in 0..n
  BY SMT
<1>4. m - 1 \in T
  BY <1>2, <1>3
<1> QED BY <1>3, <1>4

\* Every set of numbers below a bound has a greatest element.
LEMMA GreatestElement ==
  ASSUME NEW n \in Nat, NEW T \in SUBSET (0..n), T # {}
  PROVE  \E x \in T : \A y \in T : y <= x
<1> DEFINE D == {d \in 0..n : n - d \in T}
<1>1. D \in SUBSET Nat
  OBVIOUS
<1>2. D # {}
  <2>1. PICK x \in T : TRUE
    OBVIOUS
  <2>2. n - x \in 0..n /\ n - (n - x) = x
    OBVIOUS
  <2> QED BY <2>1, <2>2
<1>3. PICK d \in D : \A e \in D : d <= e
  <2> HIDE DEF D
  <2> QED BY <1>1, <1>2, LeastElement
<1>4. ASSUME NEW y \in T PROVE y <= n - d
  <2>0. y \in 0..n /\ d \in 0..n
    OBVIOUS
  <2>1. n - y \in 0..n /\ n - (n - y) = y
    OBVIOUS
  <2>2. n - y \in D
    BY <2>1
  <2>3. d <= n - y
    BY <1>3, <2>2, Zenon
  <2> HIDE DEF D
  <2> QED BY <2>0, <2>3
<1> QED BY <1>4

Extends(f, g, m, w) == f[m] = w /\ \A k \in 0..(m - 1) : f[k] = g[k]
Follows(f, n, v, Step) == f[0] = v /\ \A k \in 1..n : f[k] = Step[k][f[k - 1]]

\* One more argument for a function.
LEMMA ExtendFunction ==
  ASSUME NEW V, NEW m \in Nat, m # 0, NEW g \in [0..(m - 1) -> V], NEW w \in V
  PROVE  \E f \in [0..m -> V] : Extends(f, g, m, w)
<1> DEFINE f == [k \in 0..m |-> IF k = m THEN w ELSE g[k]]
<1>1. f \in [0..m -> V]
  <2>1. \A k \in 0..m : k # m => k \in 0..(m - 1)
    OBVIOUS
  <2> QED BY <2>1
<1>2. f[m] = w
  OBVIOUS
<1>3. \A k \in 0..(m - 1) : k \in 0..m /\ k # m
  OBVIOUS
<1>4. \A k \in 0..(m - 1) : f[k] = g[k]
  BY <1>3
<1> QED BY <1>1, <1>2, <1>4 DEF Extends

\* A function may be defined by its first value and a step from each to the next.
LEMMA Recursion ==
  ASSUME NEW n \in Nat, NEW V, NEW v \in V, NEW Step \in [1..n -> [V -> V]]
  PROVE  \E f \in [0..n -> V] : Follows(f, n, v, Step)
<1> DEFINE Some(m) == \E f \in [0..m -> V] : Follows(f, m, v, Step)
           T == {m \in 0..n : Some(m)}
<1>1. Some(0)
  <2> DEFINE f == [k \in 0..0 |-> v]
  <2>1. f \in [0..0 -> V] /\ Follows(f, 0, v, Step)
    BY DEF Follows
  <2> HIDE DEF f
  <2> QED BY <2>1
<1>2. ASSUME NEW m \in 1..n, Some(m - 1) PROVE Some(m)
  <2>1. PICK g \in [0..(m - 1) -> V] : Follows(g, m - 1, v, Step)
    BY <1>2
  <2>2. /\ m - 1 \in 0..(m - 1) /\ m \in 0..n /\ 0 \in 0..(m - 1)
        /\ \A k \in 1..(m - 1) : k \in 0..(m - 1) /\ k - 1 \in 0..(m - 1)
        /\ \A k \in 1..m : k = m \/ k \in 1..(m - 1)
    OBVIOUS
  <2>3. m \in Nat
    OBVIOUS
  <2>4. m # 0
    OBVIOUS
  <2>5. PICK w \in V : w = Step[m][g[m - 1]]
    BY <2>2
  <2>6. PICK f \in [0..m -> V] : Extends(f, g, m, w)
    BY <2>3, <2>4, ExtendFunction, Zenon
  <2>7. Follows(f, m, v, Step)
    BY <2>1, <2>2, <2>5, <2>6 DEF Follows, Extends
  <2> QED BY <2>7
<1> HIDE DEF Some
<1>3. 0 \in T
  BY <1>1
<1>4. \A m \in 1..n : m - 1 \in T => m \in T
  BY <1>2
<1> HIDE DEF T
<1>5. 0..n \subseteq T
  BY <1>3, <1>4, Induction
<1>6. Some(n)
  BY <1>5 DEF T
<1> QED BY <1>6 DEF Some

-----------------------------------------------------------------------------
(* Sums                                                                    *)

Sums(f, list) == f[0] = 0 /\ \A k \in 1..Len(list) : f[k] = f[k - 1] + list[k]

\* The partial sums that Total speaks of exist.
LEMMA TotalSums ==
  ASSUME NEW list \in Seq(Nat)
  PROVE  \E f \in [0..Len(list) -> Nat] : Sums(f, list) /\ Total(list) = f[Len(list)]
<1> DEFINE Sum(f) == f = [k \in 0..Len(list) |-> IF k = 0 THEN 0 ELSE f[k - 1] + list[k]]
           sum == CHOOSE f : Sum(f)
<1>1. PICK n \in Nat : n = Len(list)
  OBVIOUS
<1> DEFINE Step == [k \in 1..n |-> [x \in Nat |-> x + list[k]]]
<1>2. Step \in [1..n -> [Nat -> Nat]]
  <2>1. \A k \in 1..n : list[k] \in Nat
    BY <1>1
  <2>2. \A k \in 1..n : [x \in Nat |-> x + list[k]] \in [Nat -> Nat]
    BY <2>1
  <2> QED BY <2>2, Zenon
<1>3. PICK f \in [0..n -> Nat] : Follows(f, n, 0, Step)
  <2> HIDE DEF Step
  <2>1. 0 \in Nat
    OBVIOUS
  <2> QED BY <1>2, <2>1, Recursion, Zenon
<1>4. \A k \in 1..n : f[k - 1] \in Nat
  <2>1. \A k \in 1..n : k - 1 \in 0..n
    OBVIOUS
  <2> QED BY <2>1
<1>5. \A k \in 1..n : f[k] = f[k - 1] + list[k]
  BY <1>3, <1>4 DEF Follows
<1>6. \A k \in 0..n : f[k] = IF k = 0 THEN 0 ELSE f[k - 1] + list[k]
  BY <1>3, <1>5 DEF Follows
<1>7. Sum(f)
  BY <1>1, <1>6
<1>8. Sum(sum)
  <2> HIDE DEF Sum
  <2> QED BY <1>7, Zenon
<1>9. Total(list) = sum[Len(list)]
  BY Zenon DEF Total
<1>10. DOMAIN sum = 0..n /\ \A k \in 0..n : sum[k] = IF k = 0 THEN 0 ELSE sum[k - 1] + list[k]
  <2> HIDE DEF sum
  <2> QED BY <1>1, <1>8
<1> HIDE DEF sum
<1>11. \A k \in 0..n : sum[k] \in Nat
  <2> DEFINE T == {k \in 0..n : sum[k] \in Nat}
  <2>1. 0 \in T
    BY <1>10
  <2>2. \A k \in 1..n : k - 1 \in T => k \in T
    BY <1>1, <1>10
  <2> HIDE DEF T
  <2>3. 0..n \subseteq T
    BY <2>1, <2>2, Induction
  <2> QED BY <2>3 DEF T
<1>12. sum \in [0..n -> Nat]
  <2>1. sum = [k \in 0..n |-> sum[k]]
    BY <1>1, <1>8
  <2> QED BY <1>11, <2>1
<1>13. Sums(sum, list)
  BY <1>1, <1>10 DEF Sums
<1> QED BY <1>1, <1>9, <1>12, <1>13

\* Whatever sums up a list ends with its total.
LEMMA TotalIs ==
  ASSUME NEW list \in Seq(Nat), NEW f \in [0..Len(list) -> Nat], Sums(f, list)
  PROVE  Total(list) = f[Len(list)]
<1>1. PICK g \in [0..Len(list) -> Nat] : Sums(g, list) /\ Total(list) = g[Len(list)]
  BY TotalSums
<1>2. PICK n \in Nat : n = Len(list)
  OBVIOUS
<1> DEFINE T == {k \in 0..n : f[k] = g[k]}
<1>3. 0 \in T
  BY <1>1, <1>2 DEF Sums
<1>4. \A k \in 1..n : k - 1 \in T => k \in T
  BY <1>1, <1>2 DEF Sums
<1>5. 0..n \subseteq T
  <2> HIDE DEF T
  <2> QED BY <1>3, <1>4, Induction
<1>6. n \in 0..n
  OBVIOUS
<1> QED BY <1>1, <1>2, <1>5, <1>6

\* The sum of nothing, of one number, and of two lists.
LEMMA TotalEmpty == Total(<<>>) = 0
<1> DEFINE f == [k \in 0..0 |-> 0]
<1>1. <<>> \in Seq(Nat) /\ Len(<<>>) = 0 /\ f \in [0..Len(<<>>) -> Nat]
  OBVIOUS
<1>2. Sums(f, <<>>)
  BY DEF Sums
<1>3. f[0] = 0
  OBVIOUS
<1> HIDE DEF f
<1> QED BY <1>1, <1>2, <1>3, TotalIs

LEMMA TotalOne == ASSUME NEW x \in Nat PROVE Total(<<x>>) = x
<1> DEFINE f == [k \in 0..1 |-> IF k = 0 THEN 0 ELSE x]
<1>0. <<x>> \in Seq(Nat)
  OBVIOUS
<1>1. PICK list \in Seq(Nat) : list = <<x>>
  BY <1>0, Zenon
<1>2. Len(list) = 1 /\ list[1] = x
  BY <1>1
<1>3. f \in [0..Len(list) -> Nat] /\ Sums(f, list) /\ f[1] = x
  BY <1>2 DEF Sums
<1> HIDE DEF f
<1>4. Total(list) = f[Len(list)]
  BY <1>3, TotalIs
<1> QED BY <1>1, <1>2, <1>3, <1>4

LEMMA TotalNat == ASSUME NEW list \in Seq(Nat) PROVE Total(list) \in Nat
BY TotalSums

LEMMA TotalConcat ==
  ASSUME NEW a \in Seq(Nat), NEW b \in Seq(Nat)
  PROVE  Total(a \o b) = Total(a) + Total(b)
<1>1. PICK m \in Nat, n \in Nat : m = Len(a) /\ n = Len(b)
  OBVIOUS
<1>2. PICK f \in [0..m -> Nat] : Sums(f, a) /\ Total(a) = f[m]
  BY <1>1, TotalSums
<1>3. PICK g \in [0..n -> Nat] : Sums(g, b) /\ Total(b) = g[n]
  BY <1>1, TotalSums
<1>4. PICK list \in Seq(Nat) : list = a \o b
  BY ConcatProperties, Zenon
<1>5. /\ Len(list) = m + n
      /\ \A k \in 1..m : list[k] = a[k]
      /\ \A k \in (m + 1)..(m + n) : list[k] = b[k - m]
  BY <1>1, <1>4
<1> DEFINE h == [k \in 0..(m + n) |-> IF k <= m THEN f[k] ELSE f[m] + g[k - m]]
<1>6. h \in [0..(m + n) -> Nat]
  <2>1. \A k \in 0..(m + n) : k <= m => k \in 0..m
    OBVIOUS
  <2>2. \A k \in 0..(m + n) : ~(k <= m) => k - m \in 0..n
    OBVIOUS
  <2>3. f[m] \in Nat
    OBVIOUS
  <2>4. \A k \in 0..(m + n) : (IF k <= m THEN f[k] ELSE f[m] + g[k - m]) \in Nat
    BY <2>1, <2>2, <2>3
  <2> QED BY <2>4
<1>7. \A k \in 0..(m + n) : h[k] = IF k <= m THEN f[k] ELSE f[m] + g[k - m]
  OBVIOUS
<1>8. g[0] = 0 /\ f[0] = 0 /\ f[m] \in Nat
  BY <1>2, <1>3 DEF Sums
<1>9. h[m + n] = f[m] + g[n]
  <2>1. CASE n = 0
    BY <1>3, <1>7, <1>8, <2>1
  <2>2. CASE n # 0
    BY <1>7, <1>8, <2>2
  <2> QED BY <2>1, <2>2
<1> HIDE DEF h
<1>10. ASSUME NEW k \in 1..(m + n) PROVE h[k] = h[k - 1] + list[k]
  <2>1. CASE k <= m
    <3>1. k \in 1..m /\ k \in 0..(m + n) /\ k - 1 \in 0..(m + n) /\ k - 1 <= m
      BY <2>1
    <3> QED BY <1>1, <1>2, <1>5, <1>7, <2>1, <3>1 DEF Sums
  <2>2. CASE k > m
    <3>1. PICK j \in 1..n : j = k - m
      BY <2>2
    <3>2. PICK i \in 0..n : i = j - 1
      BY <3>1
    <3>3. g[j] = g[i] + b[j]
      <4>1. g[j] = g[j - 1] + b[j]
        BY <1>1, <1>3 DEF Sums
      <4> QED BY <3>2, <4>1
    <3>7. b[j] \in Nat /\ g[i] \in Nat
      <4>1. j \in 1..Len(b)
        BY <1>1
      <4>2. b[j] \in Nat
        BY <4>1, ElementOfSeq, Zenon
      <4>3. g[i] \in Nat
        BY Zenon
      <4> QED BY <4>2, <4>3
    <3>4. h[k] = f[m] + g[j] /\ list[k] = b[j]
      <4>1. k \in (m + 1)..(m + n) /\ k \in 0..(m + n) /\ ~(k <= m)
        BY <2>2
      <4>2. h[k] = f[m] + g[k - m] /\ list[k] = b[k - m]
        BY <1>5, <1>7, <4>1, Zenon
      <4> QED BY <3>1, <4>2, Zenon
    <3>5. h[k - 1] = f[m] + g[i]
      <4>1. k - 1 \in 0..(m + n) /\ (k - 1) - m = i /\ (k - 1 <= m => i = 0 /\ k - 1 = m)
        BY <2>2, <3>1, <3>2
      <4>2. CASE k - 1 <= m
        BY <1>7, <1>8, <4>1, <4>2
      <4>3. CASE ~(k - 1 <= m)
        BY <1>7, <4>1, <4>3
      <4> QED BY <4>2, <4>3
    <3>6. f[m] + g[j] = (f[m] + g[i]) + b[j]
      <4>1. PICK x \in Nat, y \in Nat, z \in Nat : x = f[m] /\ y = g[i] /\ z = b[j]
        BY <1>8, <3>7, Zenon
      <4>2. x + (y + z) = (x + y) + z
        OBVIOUS
      <4> QED BY <3>3, <4>1, <4>2, Zenon
    <3> QED BY <3>4, <3>5, <3>6
  <2> QED BY <2>1, <2>2
<1>11. Sums(h, list)
  <2>1. h[0] = 0
    BY <1>7, <1>8
  <2> QED BY <1>5, <1>10, <2>1 DEF Sums
<1>12. Total(list) = h[m + n]
  BY <1>5, <1>6, <1>11, TotalIs
<1> QED BY <1>2, <1>3, <1>4, <1>9, <1>12
-----------------------------------------------------------------------------
(* Selections                                                              *)

Distinct(list) == \A i, j \in 1..Len(list) : list[i] = list[j] => i = j

\* What has been selected from the first n entries.
SelectedFrom(sel, list, n, S) ==
  /\ \A x : (\E j \in 1..Len(sel) : sel[j] = x) <=> x \in S /\ \E i \in 1..n : list[i] = x
  /\ Len(sel) <= n
  /\ Distinct(list) => Distinct(sel)

\* The next entry is appended or skipped.
LEMMA SelectOne ==
  ASSUME NEW X, NEW list \in Seq(X), NEW S, NEW k \in 1..Len(list), NEW s \in Seq(X),
         SelectedFrom(s, list, k - 1, S), list[k] \in S
  PROVE  Append(s, list[k]) \in Seq(X) /\ SelectedFrom(Append(s, list[k]), list, k, S)
<1>1. PICK x \in X : x = list[k]
  OBVIOUS
<1>2. PICK m \in Nat : m = Len(s)
  OBVIOUS
<1>3. Append(s, x) \in Seq(X)
  OBVIOUS
<1>4. PICK r \in Seq(X) : r = Append(s, x)
  BY <1>3, Zenon
<1>5. /\ Len(r) = m + 1 /\ r[m + 1] = x
      /\ \A j \in 1..m : r[j] = s[j]
  BY <1>2, <1>4
<1>6. /\ \A j \in 1..(m + 1) : j = m + 1 \/ j \in 1..m
      /\ \A j \in 1..m : j \in 1..(m + 1)
      /\ m + 1 \in 1..(m + 1)
  OBVIOUS
<1>7. /\ \A i \in 1..k : i = k \/ i \in 1..(k - 1)
      /\ \A i \in 1..(k - 1) : i \in 1..k /\ i \in 1..Len(list) /\ i # k
      /\ k \in 1..k
  OBVIOUS
<1>8. \A y : (\E j \in 1..m : s[j] = y) <=> y \in S /\ \E i \in 1..(k - 1) : list[i] = y
  BY <1>2 DEF SelectedFrom
<1>9. \A y : (\E j \in 1..(m + 1) : r[j] = y) <=> y = x \/ \E j \in 1..m : s[j] = y
  BY <1>5, <1>6
<1>10. \A y : (\E i \in 1..k : list[i] = y) <=> y = x \/ \E i \in 1..(k - 1) : list[i] = y
  BY <1>1, <1>7
<1>11. \A y : (\E j \in 1..(m + 1) : r[j] = y) <=> y \in S /\ \E i \in 1..k : list[i] = y
  BY <1>1, <1>8, <1>9, <1>10, Zenon
<1>12. m + 1 <= k
  BY <1>2 DEF SelectedFrom
<1>13. ASSUME Distinct(list) PROVE Distinct(r)
  <2>1. \A i \in 1..(k - 1) : list[i] # x
    BY <1>1, <1>7, <1>13 DEF Distinct
  <2>2. \A j \in 1..m : s[j] # x
    BY <1>8, <2>1
  <2>3. \A i, j \in 1..m : s[i] = s[j] => i = j
    BY <1>2, <1>13 DEF SelectedFrom, Distinct
  <2> QED BY <1>5, <1>6, <2>2, <2>3 DEF Distinct
<1>14. SelectedFrom(r, list, k, S)
  BY <1>5, <1>11, <1>12, <1>13, Zenon DEF SelectedFrom
<1> QED BY <1>1, <1>4, <1>14

LEMMA SelectNone ==
  ASSUME NEW X, NEW list \in Seq(X), NEW S, NEW k \in 1..Len(list), NEW s \in Seq(X),
         SelectedFrom(s, list, k - 1, S), list[k] \notin S
  PROVE  SelectedFrom(s, list, k, S)
<1>1. /\ \A i \in 1..k : i = k \/ i \in 1..(k - 1)
      /\ \A i \in 1..(k - 1) : i \in 1..k
  OBVIOUS
<1>2. \A y \in S : (\E i \in 1..k : list[i] = y) <=> \E i \in 1..(k - 1) : list[i] = y
  BY <1>1
<1>3. Len(s) <= k
  <2>1. Len(s) \in Nat /\ k \in Nat
    OBVIOUS
  <2> QED BY <2>1 DEF SelectedFrom
<1> QED BY <1>2, <1>3, Zenon DEF SelectedFrom

\* A selection is a list of just those entries, no longer than the list, and
\* without repetition if the list is.
LEMMA SelectedProperties ==
  ASSUME NEW X, NEW list \in Seq(X), NEW S
  PROVE  Selected(list, S) \in Seq(X) /\ SelectedFrom(Selected(list, S), list, Len(list), S)
<1> DEFINE V == Seq(X)
           Next(k, v) == IF list[k] \in S THEN Append(v, list[k]) ELSE v
           Sel(f) == f = [k \in 0..Len(list) |-> IF k = 0 THEN <<>> ELSE Next(k, f[k - 1])]
           sel == CHOOSE f : Sel(f)
<1>1. PICK n \in Nat : n = Len(list)
  OBVIOUS
<1> DEFINE Step == [k \in 1..n |-> [v \in V |-> Next(k, v)]]
<1>2. \A k \in 1..n : list[k] \in X
  BY <1>1
<1>3. Step \in [1..n -> [V -> V]]
  <2>1. \A k \in 1..n, v \in V : Next(k, v) \in V
    BY <1>2
  <2> HIDE DEF V, Next
  <2>2. \A k \in 1..n : [v \in V |-> Next(k, v)] \in [V -> V]
    BY <2>1
  <2> QED BY <2>2, Zenon
<1>4. PICK f \in [0..n -> V] : Follows(f, n, <<>>, Step)
  <2>1. <<>> \in V
    OBVIOUS
  <2> HIDE DEF Step, V
  <2> QED BY <1>3, <2>1, Recursion, Zenon
<1>5. Selected(list, S) = sel[Len(list)]
  BY Zenon DEF Selected
<1>6. \A k \in 1..n, v \in V : Step[k][v] = Next(k, v)
  <2> HIDE DEF V, Next
  <2> QED OBVIOUS
<1> HIDE DEF V, Next, Step
<1>7. \A k \in 1..n : f[k - 1] \in V
  <2>1. \A k \in 1..n : k - 1 \in 0..n
    OBVIOUS
  <2> QED BY <2>1
<1>8. \A k \in 1..n : f[k] = Next(k, f[k - 1])
  BY <1>4, <1>6, <1>7 DEF Follows
<1>9. Sel(f)
  <2>1. \A k \in 0..n : f[k] = IF k = 0 THEN <<>> ELSE Next(k, f[k - 1])
    BY <1>4, <1>8 DEF Follows
  <2> QED BY <1>1, <2>1
<1>10. Sel(sel)
  <2> HIDE DEF Sel
  <2> QED BY <1>9, Zenon
<1> HIDE DEF sel
<1>11. sel[0] = <<>> /\ \A k \in 1..n : sel[k] = Next(k, sel[k - 1])
  BY <1>1, <1>10
<1> DEFINE Good(v, k) == v \in Seq(X) /\ SelectedFrom(v, list, k, S)
           T == {k \in 0..n : Good(sel[k], k)}
<1>12. 0 \in T
  <2>1. Good(<<>>, 0)
    BY DEF SelectedFrom, Distinct
  <2> HIDE DEF Good
  <2> QED BY <1>11, <2>1
<1>13. ASSUME NEW k \in 1..n, k - 1 \in T PROVE k \in T
  <2>1. PICK v \in Seq(X) : v = sel[k - 1] /\ SelectedFrom(v, list, k - 1, S)
    BY <1>13
  <2>2. k \in 0..n /\ k \in 1..Len(list)
    BY <1>1
  <2>3. Good(Next(k, v), k)
    <3>1. CASE list[k] \notin S
      BY <2>1, <2>2, <3>1, SelectNone DEF Next
    <3>2. CASE list[k] \in S
      BY <2>1, <2>2, <3>2, SelectOne DEF Next
    <3> QED BY <3>1, <3>2
  <2> HIDE DEF Good
  <2> QED BY <1>11, <2>1, <2>2, <2>3
<1> HIDE DEF T
<1>14. 0..n \subseteq T
  BY <1>12, <1>13, Induction
<1>15. n \in T
  <2>1. n \in 0..n
    OBVIOUS
  <2> QED BY <1>14, <2>1
<1> QED BY <1>1, <1>5, <1>15 DEF T

\* Whatever is computed like a selection is the selection.
LEMMA SelectedIs ==
  ASSUME NEW list, NEW n \in Nat, n = Len(list), NEW S, NEW f, f[0] = <<>>,
         \A k \in 1..n : f[k] = IF list[k] \in S THEN Append(f[k - 1], list[k]) ELSE f[k - 1]
  PROVE  Selected(list, S) = f[n]
<1> DEFINE Follow(g, k) == IF k = 0 THEN <<>>
                         ELSE IF list[k] \in S THEN Append(g[k - 1], list[k]) ELSE g[k - 1]
           Sel(g) == g = [k \in 0..Len(list) |-> Follow(g, k)]
           sel == CHOOSE g : Sel(g)
           h == [k \in 0..n |-> f[k]]
<1>1. Selected(list, S) = sel[Len(list)]
  BY Zenon DEF Selected
<1>2. Sel(sel)
  <2>1. \A k \in 1..n : k - 1 \in 0..n /\ k # 0
    OBVIOUS
  <2>2. \A k \in 0..n : h[k] = f[k]
    OBVIOUS
  <2>3. \A k \in 0..n : f[k] = Follow(h, k)
    BY <2>1, <2>2
  <2>4. Sel(h)
    BY <2>3, Zenon
  <2> HIDE DEF Sel
  <2> QED BY <2>4, Zenon
<1> HIDE DEF sel
<1>3. \A k \in 0..n : sel[k] = Follow(sel, k)
  BY <1>2, Zenon
<1> DEFINE T == {k \in 0..n : f[k] = sel[k]}
<1>4. 0 \in T
  BY <1>3
<1>5. \A k \in 1..n : k - 1 \in T => k \in T
  BY <1>3
<1>6. 0..n \subseteq T
  <2> HIDE DEF T
  <2> QED BY <1>4, <1>5, Induction
<1>7. n \in 0..n
  OBVIOUS
<1> QED BY <1>1, <1>6, <1>7

\* A list without the entry at one place.
Without(list, p) == [i \in 1..Len(list) - 1 |-> IF i < p THEN list[i] ELSE list[i + 1]]

\* It is one entry shorter.
LEMMA WithoutIsList ==
  ASSUME NEW X, NEW list \in Seq(X), NEW p \in 1..Len(list)
  PROVE  /\ Without(list, p) \in Seq(X) /\ Len(Without(list, p)) = Len(list) - 1
         /\ Len(list) \in Nat \ {0}
         /\ \A i \in 1..Len(list) - 1 : Without(list, p)[i] = IF i < p THEN list[i] ELSE list[i + 1]
<1>1. PICK n \in Nat : n = Len(list) - 1 /\ n + 1 = Len(list)
  OBVIOUS
<1>2. Without(list, p) \in [1..n -> X]
  BY <1>1 DEF Without
<1>3. Without(list, p) \in Seq(X)
  BY <1>2, SeqDef
<1>4. Len(Without(list, p)) \in Nat /\ DOMAIN Without(list, p) = 1..Len(Without(list, p))
  BY <1>3, LenProperties
<1>5. Len(Without(list, p)) = n
  BY <1>2, <1>4
<1> QED BY <1>1, <1>3, <1>5 DEF Without

\* Selecting all but one of distinct entries leaves that one out.
LEMMA SelectWithout ==
  ASSUME NEW X, NEW list \in Seq(X), Distinct(list), NEW p \in 1..Len(list)
  PROVE  Selected(list, X \ {list[p]}) = Without(list, p)
<1>1. PICK n \in Nat : n = Len(list)
  OBVIOUS
<1> DEFINE S == X \ {list[p]}
           m(k) == IF k < p THEN k ELSE k - 1
           cut(k) == [i \in 1..m(k) |-> IF i < p THEN list[i] ELSE list[i + 1]]
           f == [k \in 0..n |-> cut(k)]
<1>2. \A k \in 0..n : m(k) \in Nat /\ cut(k) \in Seq(X) /\ Len(cut(k)) = m(k)
  <2> TAKE k \in 0..n
  <2>1. m(k) \in 0..n /\ (k < p => m(k) = k) /\ (~(k < p) => m(k) = k - 1)
    BY <1>1
  <2>2. PICK l \in Nat : l = m(k)
    BY <2>1
  <2>3. \A i \in 1..l : (IF i < p THEN list[i] ELSE list[i + 1]) \in X
    <3> TAKE i \in 1..l
    <3>1. i < p => i \in 1..n
      BY <1>1
    <3>2. ~(i < p) => i + 1 \in 1..n
      BY <1>1, <2>1, <2>2
    <3> QED BY <1>1, <3>1, <3>2
  <2>4. cut(k) \in [1..l -> X]
    BY <2>2, <2>3
  <2> HIDE DEF cut, m
  <2>5. cut(k) \in Seq(X)
    BY <2>4, SeqDef
  <2>6. Len(cut(k)) \in Nat /\ DOMAIN cut(k) = 1..Len(cut(k))
    BY <2>5, LenProperties
  <2>7. Len(cut(k)) = l
    BY <2>4, <2>6
  <2> QED BY <2>2, <2>5, <2>7
<1>3. \A k \in 1..n : list[k] \in S <=> k # p
  BY <1>1 DEF Distinct
<1>4. cut(0) = <<>>
  <2>1. m(0) = 0
    BY <1>1
  <2>2. cut(0) \in Seq(X) /\ Len(cut(0)) = 0
    BY <1>2, <2>1
  <2> HIDE DEF cut
  <2> QED BY <2>2
<1>5. ASSUME NEW k \in 1..n
      PROVE  cut(k) = IF list[k] \in S THEN Append(cut(k - 1), list[k]) ELSE cut(k - 1)
  <2>1. CASE k = p
    <3>1. m(k) = m(k - 1)
      BY <2>1, <1>1
    <3>2. cut(k) = cut(k - 1)
      BY <3>1, Zenon
    <3>3. list[k] \notin S
      BY <1>3, <2>1
    <3> HIDE DEF cut, S
    <3> QED BY <3>2, <3>3
  <2>2. CASE k # p
    <3>1. m(k) = m(k - 1) + 1 /\ m(k - 1) \in Nat
      BY <2>2, <1>1
    <3>2. PICK l \in Nat : l = m(k - 1) /\ l + 1 = m(k)
      BY <3>1
    <3>3. PICK g \in Seq(X) : g = cut(k - 1) /\ Len(g) = l
      <4>1. k - 1 \in 0..n
        BY <1>1
      <4> HIDE DEF cut, m
      <4> QED BY <4>1, <3>2, <1>2
    <3>4. PICK h \in Seq(X) : h = cut(k) /\ Len(h) = l + 1
      <4>1. k \in 0..n
        BY <1>1
      <4> HIDE DEF cut, m
      <4> QED BY <4>1, <3>2, <1>2
    <3>5. \A i \in 1..l : h[i] = g[i]
      BY <3>2, <3>3, <3>4
    <3>6. h[l + 1] = list[k]
      <4>1. h[l + 1] = IF l + 1 < p THEN list[l + 1] ELSE list[l + 2]
        BY <3>2, <3>4
      <4>2. k < p => l + 1 = k
        BY <3>2, <2>2, <1>1
      <4>3. ~(k < p) => l + 2 = k /\ ~(l + 1 < p)
        BY <3>2, <2>2, <1>1
      <4> QED BY <4>1, <4>2, <4>3
    <3>7. PICK x \in X : x = list[k]
      BY <1>1
    <3> HIDE DEF cut, m
    <3>8. h = Append(g, x)
      BY <3>3, <3>4, <3>5, <3>6, <3>7
    <3>9. list[k] \in S
      BY <1>3, <2>2
    <3> QED BY <3>3, <3>4, <3>7, <3>8, <3>9
  <2> QED BY <2>1, <2>2
<1>6. /\ f[0] = <<>>
      /\ \A k \in 1..n : f[k] = IF list[k] \in S THEN Append(f[k - 1], list[k]) ELSE f[k - 1]
  <2>1. \A k \in 1..n : k - 1 \in 0..n /\ k \in 0..n
    OBVIOUS
  <2> HIDE DEF cut, S
  <2>2. \A k \in 0..n : f[k] = cut(k)
    OBVIOUS
  <2> HIDE DEF f
  <2>3. 0 \in 0..n
    OBVIOUS
  <2>4. f[0] = <<>>
    BY <1>4, <2>2, <2>3, Zenon
  <2>5. ASSUME NEW k \in 1..n
        PROVE  f[k] = IF list[k] \in S THEN Append(f[k - 1], list[k]) ELSE f[k - 1]
    <3>1. f[k] = cut(k) /\ f[k - 1] = cut(k - 1)
      BY <2>1, <2>2, Zenon
    <3> QED BY <1>5, <3>1, Zenon
  <2> QED BY <2>4, <2>5
<1>7. Selected(list, S) = f[n]
  <2> HIDE DEF f, S
  <2> QED BY <1>1, <1>6, SelectedIs
<1>8. f[n] = cut(n) /\ m(n) = n - 1
  BY <1>1
<1>9. cut(n) = Without(list, p)
  BY <1>1, <1>8, Zenon DEF Without
<1> QED BY <1>7, <1>8, <1>9, Zenon
=============================================================================
