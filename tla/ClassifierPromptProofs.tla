----------------------- MODULE ClassifierPromptProofs -----------------------
(***************************************************************************)
(* Proofs about ClassifierChain and PromptContext, the two components that *)
(* filter, rank and cut lists, for any number of callers, texts, raw       *)
(* answers of the model, requests, memories and retrievals.                *)
(*                                                                         *)
(* ClassifierChain: every result stays with the text and the caller it was *)
(* made for, whatever deadlines, late answers, restarts of the service and *)
(* expiries of the cache interleave, and the strongest label wins.         *)
(* PromptContext: the prompt shows the latest turns whatever happened to   *)
(* their pushes, leaves out a memory only for better ones, and keeps to    *)
(* its budgets.                                                            *)
(***************************************************************************)
EXTENDS ClassifierChain, PromptContext, FiniteSetTheorems, SequenceTheorems, TLAPS

----------------------------------------------------------------------------
(* Numbers, orders and lists.                                              *)

(* The smaller and the greater of two integers. *)
LEMMA MinOfTwo ==
  ASSUME NEW a \in Int, NEW b \in Int
  PROVE  Min({a, b}) = IF a <= b THEN a ELSE b
BY DEF Min

LEMMA MaxOfTwo ==
  ASSUME NEW a \in Int, NEW b \in Int
  PROVE  Max({a, b}) = IF a >= b THEN a ELSE b
BY DEF Max

(* Numbers have a least one. *)
LEMMA LeastExists ==
  ASSUME NEW A, A \subseteq Nat, A # {}
  PROVE  Min(A) \in A /\ \A k \in A : Min(A) <= k
<1>1. PICK m \in A : \A k \in A : <<k, m>> \notin OpToRel(<, Nat)
      BY NatLessThanWellFounded, WFMin
<1>2. \A k \in A : k \in Nat /\ ~(k < m)
      BY <1>1, Zenon DEF OpToRel
<1>3. m \in A /\ \A k \in A : m <= k
      BY <1>2
<1> QED
    BY <1>3 DEF Min

(* A part of a finite set. *)
LEMMA PartOfFinite ==
  ASSUME NEW A, NEW B, A \subseteq B, IsFiniteSet(B)
  PROVE  IsFiniteSet(A) /\ Cardinality(A) \in Nat /\ Cardinality(A) <= Cardinality(B)
<1>1. A \in SUBSET B
      OBVIOUS
<1>2. IsFiniteSet(A) /\ Cardinality(A) <= Cardinality(B)
      BY <1>1, FS_Subset
<1> QED
    BY <1>2, FS_CardinalityType

(* R orders the elements of S strictly and totally. *)
IsOrder(R, S) ==
  /\ \A x, y \in S : <<x, y>> \in R => <<y, x>> \notin R
  /\ \A x, y \in S : x # y => <<x, y>> \in R \/ <<y, x>> \in R
  /\ \A x, y, z \in S : <<x, y>> \in R /\ <<y, z>> \in R => <<x, z>> \in R

(* InOrder lists each element once, in order: no two elements have equally *)
(* many before them, and with as many places as elements none stays free.  *)
LEMMA InOrderLists ==
  ASSUME NEW S, IsFiniteSet(S), NEW R, IsOrder(R, S)
  PROVE  /\ Cardinality(S) \in Nat
         /\ InOrder(S, R) \in [1..Cardinality(S) -> S]
         /\ \A x \in S : \E i \in 1..Cardinality(S) : InOrder(S, R)[i] = x
         /\ \A i, j \in 1..Cardinality(S) : i < j => <<InOrder(S, R)[i], InOrder(S, R)[j]>> \in R
<1> DEFINE n == Cardinality(S)
           Below(x) == {y \in S : <<y, x>> \in R}
           rank == [x \in S |-> Cardinality(Below(x))]
<1>1. n \in Nat
      BY FS_CardinalityType
<1>2. ASSUME NEW x \in S
      PROVE  IsFiniteSet(Below(x)) /\ Cardinality(Below(x)) \in Nat /\ Cardinality(Below(x)) <= n - 1
  <2>1. IsFiniteSet(S \ {x}) /\ Cardinality(S \ {x}) = n - 1
        BY FS_RemoveElement
  <2>2. Below(x) \subseteq S \ {x}
        BY DEF IsOrder
  <2> HIDE DEF Below
  <2> QED
      BY <2>1, <2>2, PartOfFinite
<1>3. ASSUME NEW x \in S, NEW y \in S, <<x, y>> \in R
      PROVE  Cardinality(Below(x)) < Cardinality(Below(y))
  <2>1. IsFiniteSet(Below(y) \ {x}) /\ Cardinality(Below(y) \ {x}) = Cardinality(Below(y)) - 1
    <3>1. x \in Below(y)
          BY <1>3
    <3> QED
        BY <1>2, <3>1, FS_RemoveElement
  <2>2. Below(x) \subseteq Below(y) \ {x}
        BY <1>3 DEF IsOrder
  <2> HIDE DEF Below
  <2>3. Cardinality(Below(x)) <= Cardinality(Below(y)) - 1
        BY <2>1, <2>2, PartOfFinite
  <2>4. Cardinality(Below(x)) \in Nat /\ Cardinality(Below(y)) \in Nat
        BY <1>2
  <2> QED
      BY <2>3, <2>4
<1> HIDE DEF Below
<1>4. rank \in [S -> 0..(n - 1)]
      BY <1>1, <1>2
<1>5. ASSUME NEW x \in S, NEW y \in S, rank[x] = rank[y] PROVE x = y
  <2>1. Cardinality(Below(x)) = Cardinality(Below(y)) /\ Cardinality(Below(x)) \in Nat
        BY <1>2, <1>5
  <2>2. <<x, y>> \notin R /\ <<y, x>> \notin R
        BY <1>3, <2>1
  <2> QED
      BY <2>2 DEF IsOrder
<1>6. rank \in Injection(S, 0..(n - 1))
      BY <1>4, <1>5 DEF Injection, IsInjective
<1>7. IsFiniteSet(0..(n - 1)) /\ Cardinality(0..(n - 1)) = n
  <2>1. 0 \in Int /\ n - 1 \in Int
        BY <1>1
  <2>2. /\ IsFiniteSet(0..(n - 1))
        /\ Cardinality(0..(n - 1)) = IF 0 > n - 1 THEN 0 ELSE (n - 1) - 0 + 1
        BY <2>1, FS_Interval
  <2> QED
      BY <1>1, <2>2
<1>8. rank \in Surjection(S, 0..(n - 1))
      BY <1>6, <1>7, FS_Injection
<1>9. InOrder(S, R) = [i \in 1..n |-> CHOOSE x \in S : Cardinality(Below(x)) = i - 1]
      BY DEF InOrder, Below
<1>10. ASSUME NEW i \in 1..n
       PROVE  InOrder(S, R)[i] \in S /\ Cardinality(Below(InOrder(S, R)[i])) = i - 1
  <2>1. i - 1 \in 0..(n - 1)
        BY <1>1
  <2>2. \E x \in S : Cardinality(Below(x)) = i - 1
        BY <1>8, <2>1 DEF Surjection
  <2>3. InOrder(S, R)[i] = CHOOSE x \in S : Cardinality(Below(x)) = i - 1
        BY <1>9
  <2> HIDE DEF rank
  <2> QED
      BY <2>2, <2>3
<1>11. ASSUME NEW x \in S PROVE \E i \in 1..n : InOrder(S, R)[i] = x
  <2>1. Cardinality(Below(x)) + 1 \in 1..n
        BY <1>1, <1>2
  <2>2. Cardinality(Below(InOrder(S, R)[Cardinality(Below(x)) + 1])) = Cardinality(Below(x))
        BY <1>2, <1>10, <2>1
  <2>3. InOrder(S, R)[Cardinality(Below(x)) + 1] \in S
        BY <1>10, <2>1
  <2>4. InOrder(S, R)[Cardinality(Below(x)) + 1] = x
        BY <1>5, <2>2, <2>3
  <2> QED
      BY <2>1, <2>4
<1>12. ASSUME NEW i \in 1..n, NEW j \in 1..n, i < j
       PROVE  <<InOrder(S, R)[i], InOrder(S, R)[j]>> \in R
  <2> DEFINE x == InOrder(S, R)[i]
             y == InOrder(S, R)[j]
  <2>1. /\ x \in S /\ y \in S
        /\ Cardinality(Below(x)) = i - 1 /\ Cardinality(Below(y)) = j - 1
        BY <1>10
  <2>2. x # y /\ ~(Cardinality(Below(y)) < Cardinality(Below(x)))
        BY <1>1, <1>12, <2>1
  <2> HIDE DEF x, y
  <2>3. <<x, y>> \in R
        BY <1>3, <2>1, <2>2 DEF IsOrder
  <2> QED
      BY <2>3 DEF x, y
<1>13. InOrder(S, R) \in [1..n -> S]
       BY <1>9, <1>10
<1> QED
    BY <1>1, <1>10, <1>11, <1>12, <1>13

(* The places of a sequence in their order. *)
LEMMA AmongLists ==
  ASSUME NEW T, NEW s \in Seq(T), NEW S
  PROVE  \E n \in Nat : \E at \in [1..n -> 1..Len(s)] :
           /\ Among(s, S) = [i \in 1..n |-> s[at[i]]]
           /\ \A i, j \in 1..n : i < j => at[i] < at[j]
           /\ \A i \in 1..n : s[at[i]] \in S
           /\ \A k \in 1..Len(s) : s[k] \in S => \E i \in 1..n : at[i] = k
<1> DEFINE places == {i \in DOMAIN s : s[i] \in S}
           before == {p \in places \X places : p[1] < p[2]}
           at == InOrder(places, before)
<1>1. Len(s) \in Nat /\ DOMAIN s = 1..Len(s)
      OBVIOUS
<1>2. IsFiniteSet(places)
  <2>1. IsFiniteSet(1..Len(s))
        BY <1>1, FS_Interval
  <2> QED
      BY <1>1, <2>1, FS_Subset
<1>3. places \subseteq 1..Len(s)
      BY <1>1
<1>4. IsOrder(before, places)
  <2>1. \A x, y \in places : <<x, y>> \in before <=> x < y
        OBVIOUS
  <2>2. \A x \in places : x \in Int
        BY <1>1, <1>3
  <2> HIDE DEF before, places
  <2> QED
      BY <2>1, <2>2 DEF IsOrder
<1>5. /\ Cardinality(places) \in Nat
      /\ at \in [1..Cardinality(places) -> places]
      /\ \A x \in places : \E i \in 1..Cardinality(places) : at[i] = x
      /\ \A i, j \in 1..Cardinality(places) : i < j => <<at[i], at[j]>> \in before
  <2> HIDE DEF before, places
  <2> QED
      BY <1>2, <1>4, InOrderLists
<1>6. Among(s, S) = [i \in 1..Cardinality(places) |-> s[at[i]]]
      BY DEF Among
<1> HIDE DEF at
<1>7. \A i, j \in 1..Cardinality(places) : i < j => at[i] < at[j]
      BY <1>5
<1>8. at \in [1..Cardinality(places) -> 1..Len(s)]
      BY <1>3, <1>5
<1>9. \A i \in 1..Cardinality(places) : s[at[i]] \in S
      BY <1>5
<1>10. \A k \in 1..Len(s) : s[k] \in S => \E i \in 1..Cardinality(places) : at[i] = k
      BY <1>1, <1>5
<1> QED
    BY <1>5, <1>6, <1>7, <1>8, <1>9, <1>10

(* A finite set of numbers has a greatest: the first in descending order. *)
LEMMA GreatestExists ==
  ASSUME NEW A, A \subseteq Nat, A # {}, IsFiniteSet(A)
  PROVE  \E m \in A : \A k \in A : k <= m
<1> DEFINE R == {p \in A \X A : p[1] > p[2]}
           list == InOrder(A, R)
<1>1. \A x, y \in A : (<<x, y>> \in R) <=> (x > y)
      OBVIOUS
<1>2. \A x \in A : x \in Nat
      OBVIOUS
<1> HIDE DEF R
<1>3. IsOrder(R, A)
      BY <1>1, <1>2 DEF IsOrder
<1>4. /\ Cardinality(A) \in Nat
      /\ list \in [1..Cardinality(A) -> A]
      /\ \A x \in A : \E i \in 1..Cardinality(A) : list[i] = x
      /\ \A i, j \in 1..Cardinality(A) : i < j => <<list[i], list[j]>> \in R
      BY <1>3, InOrderLists
<1> HIDE DEF list
<1>5. 1 \in 1..Cardinality(A)
  <2>1. PICK i \in 1..Cardinality(A) : TRUE
        BY <1>4
  <2> QED
      BY <1>4, <2>1
<1>6. ASSUME NEW k \in A PROVE k <= list[1]
  <2>1. PICK i \in 1..Cardinality(A) : list[i] = k
        BY <1>4
  <2>2. CASE i = 1
    <3>1. k \in Nat /\ list[1] = k
          BY <1>2, <2>1, <2>2
    <3> QED
        BY <3>1
  <2>3. CASE 1 < i
    <3>1. <<list[1], k>> \in R /\ list[1] \in A
          BY <1>4, <1>5, <2>1, <2>3
    <3>2. list[1] > k
          BY <1>1, <3>1
    <3>3. list[1] \in Nat /\ k \in Nat
          BY <1>2, <3>1
    <3> QED
        BY <3>2, <3>3
  <2>4. i = 1 \/ 1 < i
        BY <1>4
  <2> QED
      BY <2>2, <2>3, <2>4
<1> QED
    BY <1>4, <1>5, <1>6

(* A list has at most as many elements as places. *)
LEMMA ElementsOfList ==
  ASSUME NEW T, NEW s \in Seq(T)
  PROVE  /\ ToSet(s) \subseteq T /\ IsFiniteSet(ToSet(s))
         /\ Cardinality(ToSet(s)) \in Nat /\ Cardinality(ToSet(s)) <= Len(s)
<1>1. Len(s) \in Nat /\ DOMAIN s = 1..Len(s)
      OBVIOUS
<1>2. IsFiniteSet(1..Len(s)) /\ Cardinality(1..Len(s)) = Len(s)
  <2>1. 1 \in Int /\ Len(s) \in Int
        BY <1>1
  <2>2. /\ IsFiniteSet(1..Len(s))
        /\ Cardinality(1..Len(s)) = IF 1 > Len(s) THEN 0 ELSE Len(s) - 1 + 1
        BY <2>1, FS_Interval
  <2> QED
      BY <1>1, <2>2
<1>3. s \in Surjection(1..Len(s), ToSet(s))
      BY <1>1 DEF Surjection, ToSet
<1>4. IsFiniteSet(ToSet(s)) /\ Cardinality(ToSet(s)) <= Len(s)
      BY <1>2, <1>3, FS_Surjection
<1>5. ToSet(s) \subseteq T
      BY DEF ToSet
<1> QED
    BY <1>4, <1>5, FS_CardinalityType

----------------------------------------------------------------------------
(* Sums.                                                                   *)

(* Induction: a set of numbers with 0 and all successors has them all. *)
LEMMA AllNumbers ==
  ASSUME NEW A, A \subseteq Nat, 0 \in A, \A n \in A : n + 1 \in A
  PROVE  A = Nat
<1> DEFINE Bad == Nat \ A
<1> SUFFICES ASSUME Bad # {} PROVE FALSE
    OBVIOUS
<1>1. Bad \subseteq Nat
      OBVIOUS
<1>2. PICK m \in Bad : \A k \in Bad : <<k, m>> \notin OpToRel(<, Nat)
  <2> HIDE DEF Bad
  <2> QED
      BY <1>1, NatLessThanWellFounded, WFMin
<1>3. m \in Nat /\ m \notin A /\ \A k \in Nat : k < m => k \in A
      BY <1>2, Zenon DEF OpToRel
<1>4. m # 0 /\ m - 1 \in Nat /\ m - 1 < m /\ (m - 1) + 1 = m
      BY <1>3
<1> QED
    BY <1>3, <1>4

(* The community modules sum over a set by taking away one element after   *)
(* the other.                                                              *)
Pick(s) == CHOOSE x \in s : TRUE
IsSum(g, f, D) == g = [s \in D |-> IF s = {} THEN 0 ELSE f[Pick(s)] + g[s \ {Pick(s)}]]

(* Taking one element away leaves one less. *)
LEMMA OneLess ==
  ASSUME NEW s, IsFiniteSet(s), NEW n \in Nat, Cardinality(s) = n + 1
  PROVE  Pick(s) \in s /\ s # {} /\ Cardinality(s \ {Pick(s)}) = n
<1>1. s # {}
  <2>1. Cardinality({}) = 0 /\ n + 1 # 0
        BY FS_EmptySet
  <2> QED
      BY <2>1
<1>2. Pick(s) \in s
      BY <1>1 DEF Pick
<1>3. Cardinality(s \ {Pick(s)}) = Cardinality(s) - 1
      BY <1>2, FS_RemoveElement
<1> QED
    BY <1>1, <1>2, <1>3

(* Such a function exists: for the sets of at most n + 1 elements it is    *)
(* made from the one for those of at most n.                               *)
LEMMA SumUnrolls ==
  ASSUME NEW S, IsFiniteSet(S), NEW f
  PROVE  \E g : IsSum(g, f, SUBSET S) /\ SumFunctionOnSet(f, S) = g[S]
<1> DEFINE Upto(n) == {s \in SUBSET S : Cardinality(s) <= n}
           Good == {n \in Nat : \E g : IsSum(g, f, Upto(n))}
<1>1. \A s \in SUBSET S : IsFiniteSet(s) /\ Cardinality(s) \in Nat /\ Cardinality(s) <= Cardinality(S)
      BY PartOfFinite
<1>2. ASSUME NEW s \in SUBSET S, s # {}
      PROVE  /\ Pick(s) \in s /\ s \ {Pick(s)} \in SUBSET S
             /\ Cardinality(s \ {Pick(s)}) = Cardinality(s) - 1
      BY <1>1, <1>2, FS_RemoveElement DEF Pick
<1>3. 0 \in Good
  <2> DEFINE g == [s \in Upto(0) |-> 0]
  <2>1. \A s \in Upto(0) : s = {}
        BY <1>1, FS_EmptySet
  <2>2. IsSum(g, f, Upto(0))
        BY <2>1 DEF IsSum
  <2> QED
      BY <2>2
<1>4. ASSUME NEW n \in Good PROVE n + 1 \in Good
  <2>1. PICK g : IsSum(g, f, Upto(n))
        BY <1>4
  <2>2. n \in Nat
        BY <1>4
  <2> DEFINE h == [s \in Upto(n + 1) |-> IF s = {} THEN 0 ELSE f[Pick(s)] + g[s \ {Pick(s)}]]
  <2>3. \A s \in Upto(n) : g[s] = IF s = {} THEN 0 ELSE f[Pick(s)] + g[s \ {Pick(s)}]
    <3> HIDE DEF Upto
    <3> QED
        BY <2>1 DEF IsSum
  <2>4. \A s \in Upto(n) : s \in Upto(n + 1)
        BY <1>1, <2>2
  <2>5. \A s \in Upto(n) : h[s] = g[s]
    <3> HIDE DEF Upto
    <3> QED
        BY <2>3, <2>4
  <2>6. \A s \in Upto(n + 1) : s # {} => s \ {Pick(s)} \in Upto(n)
        BY <1>1, <1>2, <2>2
  <2>7. \A s \in Upto(n + 1) : h[s] = IF s = {} THEN 0 ELSE f[Pick(s)] + h[s \ {Pick(s)}]
    <3> HIDE DEF Upto
    <3> QED
        BY <2>5, <2>6
  <2>8. h = [s \in Upto(n + 1) |-> h[s]]
        OBVIOUS
  <2>9. IsSum(h, f, Upto(n + 1))
    <3> HIDE DEF Upto, h
    <3> QED
        BY <2>7, <2>8 DEF IsSum
  <2>10. \E x : IsSum(x, f, Upto(n + 1))
    <3> HIDE DEF Upto, h
    <3> QED
        BY <2>9
  <2> HIDE DEF Upto
  <2> QED
      BY <2>2, <2>10
<1>5. Good = Nat
  <2>1. Good \subseteq Nat
        OBVIOUS
  <2> HIDE DEF Good
  <2> QED
      BY <1>3, <1>4, <2>1, AllNumbers
<1>6. Cardinality(S) \in Nat
      BY FS_CardinalityType
<1>7. Upto(Cardinality(S)) = SUBSET S
      BY <1>1
<1>8. \E g : IsSum(g, f, SUBSET S)
  <2>1. Cardinality(S) \in Good
        BY <1>5, <1>6
  <2>2. \E g : IsSum(g, f, Upto(Cardinality(S)))
    <3> HIDE DEF Upto
    <3> QED
        BY <2>1
  <2> QED
      BY <1>7, <2>2
<1> DEFINE g == CHOOSE iter : IsSum(iter, f, SUBSET S)
<1>9. IsSum(g, f, SUBSET S)
      BY <1>8
<1>10. SumFunctionOnSet(f, S) = g[S]
      BY DEF SumFunctionOnSet, FoldFunctionOnSet, MapThenFoldSet, IsSum, Pick
<1> QED
    BY <1>9, <1>10

(* What is so of an empty sum, and stays so with each summand, is so of a  *)
(* sum: K relates the number of summands to the sum.                       *)
LEMMA SumInduction ==
  ASSUME NEW S, IsFiniteSet(S), NEW f, NEW K, <<0, 0>> \in K,
         \A x \in S, n \in Nat : \A v : <<n, v>> \in K => <<n + 1, f[x] + v>> \in K
  PROVE  <<Cardinality(S), SumFunctionOnSet(f, S)>> \in K
<1>1. PICK g : IsSum(g, f, SUBSET S) /\ SumFunctionOnSet(f, S) = g[S]
      BY SumUnrolls
<1> DEFINE Good == {n \in Nat : \A s \in SUBSET S : Cardinality(s) = n => <<n, g[s]>> \in K}
<1>2. \A s \in SUBSET S : IsFiniteSet(s)
      BY PartOfFinite
<1>3. \A s \in SUBSET S : g[s] = IF s = {} THEN 0 ELSE f[Pick(s)] + g[s \ {Pick(s)}]
      BY <1>1 DEF IsSum
<1>4. 0 \in Good
  <2>1. \A s \in SUBSET S : Cardinality(s) = 0 => s = {}
        BY <1>2, FS_EmptySet
  <2>2. g[{}] = 0
        BY <1>3
  <2>3. \A s \in SUBSET S : Cardinality(s) = 0 => <<0, g[s]>> \in K
        BY <2>1, <2>2
  <2> QED
      BY <2>3
<1>5. ASSUME NEW n \in Good PROVE n + 1 \in Good
  <2>1. n \in Nat /\ n + 1 \in Nat
        BY <1>5
  <2>2. ASSUME NEW s \in SUBSET S, Cardinality(s) = n + 1 PROVE <<n + 1, g[s]>> \in K
    <3>1. Pick(s) \in s /\ s # {} /\ Cardinality(s \ {Pick(s)}) = n
          BY <1>2, <2>1, <2>2, OneLess
    <3>2. <<n, g[s \ {Pick(s)}]>> \in K
          BY <1>5, <3>1
    <3>3. g[s] = f[Pick(s)] + g[s \ {Pick(s)}] /\ Pick(s) \in S
          BY <1>3, <3>1
    <3> QED
        BY <2>1, <3>2, <3>3
  <2> QED
      BY <2>1, <2>2
<1>6. Good = Nat
  <2>1. Good \subseteq Nat
        OBVIOUS
  <2> HIDE DEF Good
  <2> QED
      BY <1>4, <1>5, <2>1, AllNumbers
<1>7. Cardinality(S) \in Good
      BY <1>6, FS_CardinalityType
<1>8. <<Cardinality(S), g[S]>> \in K
      BY <1>7
<1> QED
    BY <1>1, <1>8

(* A sum of integers is one, and numbers of at most b add up to at most b  *)
(* for each.                                                               *)
LEMMA SumOfIntegers ==
  ASSUME NEW S, IsFiniteSet(S), NEW f, \A x \in S : f[x] \in Int
  PROVE  SumFunctionOnSet(f, S) \in Int
<1> DEFINE K == Nat \X Int
<1>1. <<0, 0>> \in K
      OBVIOUS
<1>2. \A x \in S, n \in Nat : \A v : <<n, v>> \in K => <<n + 1, f[x] + v>> \in K
      OBVIOUS
<1>3. <<Cardinality(S), SumFunctionOnSet(f, S)>> \in K
  <2> HIDE DEF K
  <2> QED
      BY <1>1, <1>2, SumInduction
<1> QED
    BY <1>3

LEMMA SumIsBounded ==
  ASSUME NEW S, IsFiniteSet(S), NEW f, NEW b \in Nat, \A x \in S : f[x] \in Int /\ f[x] <= b
  PROVE  SumFunctionOnSet(f, S) \in Int /\ SumFunctionOnSet(f, S) <= Cardinality(S) * b
<1> DEFINE K == {p \in Nat \X Int : p[2] <= p[1] * b}
<1>1. <<0, 0>> \in K
      OBVIOUS
<1>2. ASSUME NEW x \in S, NEW n \in Nat, NEW v, <<n, v>> \in K PROVE <<n + 1, f[x] + v>> \in K
  <2>1. v \in Int /\ v <= n * b /\ f[x] \in Int /\ f[x] <= b
        BY <1>2
  <2>2. n * b \in Nat /\ (n + 1) * b = n * b + b
        OBVIOUS
  <2>3. f[x] + v \in Int /\ f[x] + v <= (n + 1) * b
        BY <2>1, <2>2
  <2> QED
      BY <2>3
<1>3. <<Cardinality(S), SumFunctionOnSet(f, S)>> \in K
  <2> HIDE DEF K
  <2> QED
      BY <1>1, <1>2, SumInduction
<1> QED
    BY <1>3

----------------------------------------------------------------------------
(* ClassifierChain: the inductive invariant.                               *)

Requested == [client : Callers \cup {Nobody}, text : Texts]
Works == [client : Callers \cup {Nobody}, text : Texts, reply : Replies]

(* The variables that are not Booleans, typed. *)
Typed ==
  /\ mode \in Modes \cup {"degraded"}
  /\ backlog \in Seq(Requested)
  /\ work \in Works \cup {Nothing}
  /\ cache \in [Texts -> Results \cup {Nothing}]
  /\ pc \in [Callers -> Steps \cup {"idle", "returned"}]
  /\ text \in [Callers -> Texts \cup {NoText}]
  /\ result \in [Callers -> Results \cup {Nothing, Failure}]

(* A caller on its way has a text. *)
HasText == \A c \in Callers : pc[c] \in Steps => text[c] \in Texts

(* A service without a classifier works on nothing. *)
WorkNeedsModel == work # Nothing => mode \in Modes

(* Whoever the service still means to answer is waiting for the answer to  *)
(* this very text, and for no other one.                                   *)
Waits(e) == e.client # Nobody => pc[e.client] = "await" /\ text[e.client] = e.text

Awaited ==
  /\ \A i \in DOMAIN backlog : Waits(backlog[i])
  /\ work # Nothing => Waits(work)
  /\ \A i, j \in DOMAIN backlog :
       i # j /\ backlog[i].client = backlog[j].client => backlog[i].client = Nobody
  /\ work # Nothing =>
       \A i \in DOMAIN backlog : backlog[i].client = work.client => work.client = Nobody

(* Where a result comes from. *)
FromService(r, t) == r \in Results /\ r.by = "service" /\ r.of = t

CacheIsFromService == \A t \in Texts : cache[t] # Nothing => FromService(cache[t], t)

(* What a caller was told is for its own text. *)
Told(c) ==
  /\ pc[c] = "set" => FromService(result[c], text[c])
  /\ pc[c] = "returned" =>
       \/ FromService(result[c], text[c])
       \/ fallbackOn /\ result[c] = NeutralFor(text[c]) /\ text[c] \in Texts
       \/ ~fallbackOn /\ result[c] = Failure

ToldOwn == \A c \in Callers : Told(c)

(* The bound on the requests at the service counts those on their way. *)
LoadBound == Load <= MaxBacklog

(* The inductive invariant. *)
IInv == /\ Typed
        /\ cacheOn \in BOOLEAN /\ fallbackOn \in BOOLEAN
        /\ HasText
        /\ WorkNeedsModel
        /\ Awaited
        /\ CacheIsFromService
        /\ ToldOwn
        /\ LoadBound

-----------------------------------------------------------------------------
(* Results.                                                                *)

(* A classification is a result of the service for its text. *)
LEMMA ServiceResult ==
  ASSUME NEW m \in Modes, NEW t \in Texts, NEW r \in Replies
  PROVE  FromService(Classify[m][t][r], t)
<1>1. Classify[m][t][r] = Classified(t, ScoresFor(m, t, r))
      BY DEF Classify
<1>2. Classify[m][t][r] \in Results
      BY DEF Results
<1> QED
    BY <1>1, <1>2 DEF FromService, Classified

(* The neutral result is none of the service's. *)
LEMMA NeutralResult ==
  ASSUME NEW t \in Texts
  PROVE  /\ NeutralFor(t) \in Results
         /\ NeutralFor(t).by = "fallback"
         /\ NeutralFor(t).of = t
  BY DEF Results, NeutralFor

(* A result is neither an error nor nothing. *)
LEMMA ResultsAreAnswers ==
  ASSUME NEW r \in Results
  PROVE  r # Nothing /\ r # Failure
<1>1. r.kind = "result"
  <2>1. CASE \E t \in Texts : r = NeutralFor(t)
        BY <2>1 DEF NeutralFor
  <2>2. CASE \E m \in Modes, t \in Texts, a \in Replies : r = Classify[m][t][a]
    <3>1. PICK m \in Modes, t \in Texts, a \in Replies : r = Classify[m][t][a]
          BY <2>2
    <3>2. r = Classified(t, ScoresFor(m, t, a))
          BY <3>1 DEF Classify
    <3> QED
        BY <3>2 DEF Classified
  <2> QED
      BY <2>1, <2>2 DEF Results
<1> QED
    BY <1>1 DEF Nothing, Failure

-----------------------------------------------------------------------------
(* What callers are told.                                                  *)

CallersOK ==
  /\ pc \in [Callers -> Steps \cup {"idle", "returned"}]
  /\ text \in [Callers -> Texts \cup {NoText}]
  /\ result \in [Callers -> Results \cup {Nothing, Failure}]

(* The part of the invariant that is about callers. *)
CallerInv == CallersOK /\ HasText /\ ToldOwn

(* A step of one caller that leaves the others, and its text, alone. *)
LEMMA OneCaller ==
  ASSUME CallerInv, NEW c \in Callers, text[c] \in Texts,
         NEW l \in Steps \cup {"idle", "returned"}, Goto(c, l),
         NEW v \in Results \cup {Nothing, Failure}, result' = [result EXCEPT ![c] = v],
         UNCHANGED <<text, fallbackOn>>,
         l = "set" => FromService(v, text[c]),
         l = "returned" => \/ FromService(v, text[c])
                           \/ fallbackOn /\ v = NeutralFor(text[c])
                           \/ ~fallbackOn /\ v = Failure
  PROVE  CallerInv'
<1> USE DEF CallerInv, CallersOK, Goto
<1>1. CallersOK' /\ HasText'
      BY DEF HasText
<1>2. ASSUME NEW d \in Callers PROVE Told(d)'
  <2>1. CASE d # c
    <3>1. pc'[d] = pc[d] /\ result'[d] = result[d] /\ text' = text /\ fallbackOn' = fallbackOn
          BY <2>1
    <3>2. Told(d)
          BY DEF ToldOwn
    <3> QED
        BY <3>1, <3>2 DEF Told
  <2>2. CASE d = c
    <3>1. pc'[d] = l /\ result'[d] = v /\ text' = text /\ fallbackOn' = fallbackOn
          BY <2>2
    <3> QED
        BY <2>2, <3>1 DEF Told
  <2> QED
      BY <2>1, <2>2
<1> QED
    BY <1>1, <1>2 DEF ToldOwn

(* FallbackClient answers an error with the neutral result of the text. *)
LEMMA ReturnStep ==
  ASSUME CallerInv, NEW c \in Callers, text[c] \in Texts, fallbackOn \in BOOLEAN,
         NEW r, r = Failure \/ FromService(r, text[c]), Return(c, r),
         UNCHANGED <<text, fallbackOn>>
  PROVE  CallerInv'
<1> DEFINE v == IF r = Failure /\ fallbackOn THEN NeutralFor(text[c]) ELSE r
<1>1. v \in Results \cup {Nothing, Failure}
      BY NeutralResult DEF FromService
<1>2. \/ FromService(v, text[c])
      \/ fallbackOn /\ v = NeutralFor(text[c])
      \/ ~fallbackOn /\ v = Failure
      OBVIOUS
<1>3. Goto(c, "returned") /\ result' = [result EXCEPT ![c] = v]
      BY DEF Return
<1>4. /\ "returned" \in Steps \cup {"idle", "returned"}
      /\ "returned" = "set" => FromService(v, text[c])
      OBVIOUS
<1> HIDE DEF v
<1> QED
    BY <1>1, <1>2, <1>3, <1>4, OneCaller, Zenon

(* Deliver gives a waiting caller an answer to its text. *)
LEMMA DeliverStep ==
  ASSUME CallerInv, fallbackOn \in BOOLEAN, UNCHANGED <<text, fallbackOn>>,
         NEW c \in Callers \cup {Nobody}, NEW r, Deliver(c, r),
         c # Nobody => /\ text[c] \in Texts
                       /\ r = Failure \/ FromService(r, text[c])
  PROVE  CallerInv'
<1>1. CASE c = Nobody
      BY <1>1 DEF Deliver, CallerInv, CallersOK, HasText, ToldOwn, Told
<1>2. CASE c # Nobody /\ Return(c, r)
      BY <1>2, ReturnStep
<1>3. CASE c # Nobody /\ r # Failure /\ Goto(c, "set") /\ result' = [result EXCEPT ![c] = r]
  <2>1. FromService(r, text[c]) /\ r \in Results
        BY <1>3 DEF FromService
  <2>2. "set" \in Steps
        BY DEF Steps
  <2> QED
      BY <1>3, <2>1, <2>2, OneCaller
<1> QED
    BY <1>1, <1>2, <1>3 DEF Deliver

(* Every step keeps what callers were told true. *)
LEMMA CallersStep ==
  ASSUME IInv, [Next]_vars
  PROVE  CallerInv'
<1> USE ChainAssumption
<1>1. CallerInv /\ fallbackOn \in BOOLEAN
      BY DEF IInv, CallerInv, CallersOK, Typed
<1>2. UNCHANGED fallbackOn
      BY Zenon DEF Next, Call, Caller, CacheGet, Send, GiveUp, CacheSet, Leave, Refuse, Finish,
         FinishWithError, Begin, Expire, Restart, vars, config
<1>3. \A c \in Callers : pc[c] \in Steps => text[c] \in Texts
      BY DEF IInv, HasText
<1>4. ASSUME NEW c \in Callers, NEW t \in Texts, Call(c, t) PROVE CallerInv'
  <2>1. CallersOK' /\ HasText'
        BY <1>1, <1>4 DEF Call, Goto, CallerInv, CallersOK, HasText, Steps
  <2>2. ASSUME NEW d \in Callers PROVE Told(d)'
        BY <1>1, <1>2, <1>4 DEF Call, Goto, CallerInv, CallersOK, ToldOwn, Told
  <2> QED
      BY <2>1, <2>2 DEF CallerInv, ToldOwn
<1>5. ASSUME NEW c \in Callers, CacheGet(c) PROVE CallerInv'
  <2>1. text[c] \in Texts /\ text' = text
        BY <1>3, <1>5 DEF CacheGet, Steps
  <2>2. CASE cache[text[c]] # Nothing /\ Return(c, cache[text[c]])
        BY <1>1, <1>2, <2>1, <2>2, ReturnStep DEF IInv, CacheIsFromService
  <2>3. CASE Goto(c, "send") /\ UNCHANGED result
    <3>1. result' = [result EXCEPT ![c] = result[c]] /\ result[c] \in Results \cup {Nothing, Failure}
          BY <1>1, <2>3 DEF CallerInv, CallersOK
    <3>2. /\ "send" \in Steps \cup {"idle", "returned"}
          /\ "send" # "set" /\ "send" # "returned"
          BY DEF Steps
    <3> QED
        BY <1>1, <1>2, <2>1, <2>3, <3>1, <3>2, OneCaller, Zenon
  <2> QED
      BY <1>5, <2>2, <2>3 DEF CacheGet
<1>6. ASSUME NEW c \in Callers, Send(c) PROVE CallerInv'
  <2>1. text[c] \in Texts /\ text' = text
        BY <1>3, <1>6 DEF Send, Steps
  <2>2. CASE Return(c, Failure)
        BY <1>1, <1>2, <2>1, <2>2, ReturnStep
  <2>3. CASE Goto(c, "await") /\ UNCHANGED result
    <3>1. result' = [result EXCEPT ![c] = result[c]] /\ result[c] \in Results \cup {Nothing, Failure}
          BY <1>1, <2>3 DEF CallerInv, CallersOK
    <3>2. /\ "await" \in Steps \cup {"idle", "returned"}
          /\ "await" # "set" /\ "await" # "returned"
          BY DEF Steps
    <3> QED
        BY <1>1, <1>2, <2>1, <2>3, <3>1, <3>2, OneCaller, Zenon
  <2> QED
      BY <1>6, <2>2, <2>3 DEF Send
<1>7. ASSUME NEW c \in Callers, GiveUp(c) PROVE CallerInv'
      BY <1>1, <1>2, <1>3, <1>7, ReturnStep DEF GiveUp, Steps
<1>8. ASSUME NEW c \in Callers, CacheSet(c) PROVE CallerInv'
  <2>1. FromService(result[c], text[c])
        BY <1>8 DEF CacheSet, IInv, ToldOwn, Told
  <2> QED
      BY <1>1, <1>2, <1>3, <1>8, <2>1, ReturnStep DEF CacheSet, Steps
<1>9. ASSUME NEW c \in Callers, Leave(c) PROVE CallerInv'
  <2>1. CallersOK' /\ HasText'
        BY <1>1, <1>9 DEF Leave, Goto, CallerInv, CallersOK, HasText, Steps
  <2>2. ASSUME NEW d \in Callers PROVE Told(d)'
        BY <1>1, <1>2, <1>9 DEF Leave, Goto, CallerInv, CallersOK, ToldOwn, Told
  <2> QED
      BY <2>1, <2>2 DEF CallerInv, ToldOwn
<1>10. CASE Refuse
  <2>1. 1 \in DOMAIN backlog /\ Head(backlog) = backlog[1] /\ backlog[1] \in Requested
        BY <1>10 DEF Refuse, IInv, Typed
  <2> DEFINE e == backlog[1]
  <2>2. e.client \in Callers \cup {Nobody} /\ (e.client # Nobody => text[e.client] \in Texts)
        BY <1>3, <2>1 DEF IInv, Awaited, Waits, Requested, Steps
  <2> QED
      BY <1>1, <1>2, <1>10, <2>1, <2>2, DeliverStep DEF Refuse
<1>11. CASE Finish \/ FinishWithError
  <2>1. work \in Works /\ work # Nothing /\ Waits(work) /\ mode \in Modes
        BY <1>11 DEF Finish, FinishWithError, IInv, Typed, Awaited, WorkNeedsModel
  <2>2. /\ work.client \in Callers \cup {Nobody} /\ work.text \in Texts /\ work.reply \in Replies
        /\ work.client # Nobody => text[work.client] = work.text
        BY <2>1 DEF Works, Waits
  <2>3. FromService(Classify[mode][work.text][work.reply], work.text)
        BY <2>1, <2>2, ServiceResult
  <2>4. CASE Finish
        BY <1>1, <1>2, <2>2, <2>3, <2>4, DeliverStep DEF Finish
  <2>5. CASE FinishWithError
        BY <1>1, <1>2, <2>2, <2>5, DeliverStep DEF FinishWithError
  <2> QED
      BY <1>11, <2>4, <2>5
<1>12. ASSUME NEW m \in Modes \cup {"degraded"}, Restart(m) PROVE CallerInv'
  <2>1. \A c \in Callers : pc[c] = "await" => NeutralFor(text[c]) \in Results
        BY <1>3, NeutralResult DEF Steps
  <2>2. CallersOK' /\ HasText'
        BY <1>1, <1>12, <2>1 DEF Restart, CallerInv, CallersOK, HasText, Steps
  <2>3. ASSUME NEW d \in Callers PROVE Told(d)'
    <3>1. CASE pc[d] = "await"
      <4>1. /\ pc'[d] = "returned" /\ text' = text
            /\ result'[d] = IF fallbackOn THEN NeutralFor(text[d]) ELSE Failure
            BY <1>12, <3>1 DEF Restart
      <4> QED
          BY <1>1, <1>2, <1>3, <3>1, <4>1 DEF Told, Steps
    <3>2. CASE pc[d] # "await"
      <4>1. pc'[d] = pc[d] /\ text' = text /\ result'[d] = result[d]
            BY <1>12, <3>2 DEF Restart
      <4> QED
          BY <1>1, <1>2, <4>1 DEF Told, CallerInv, ToldOwn
    <3> QED
        BY <3>1, <3>2
  <2> QED
      BY <2>2, <2>3 DEF CallerInv, ToldOwn
<1>13. ASSUME UNCHANGED <<pc, text, result>> PROVE CallerInv'
      BY <1>1, <1>2, <1>13 DEF CallerInv, CallersOK, HasText, ToldOwn, Told
<1>14. \/ UNCHANGED <<pc, text, result>>
       \/ \E c \in Callers, t \in Texts : Call(c, t)
       \/ \E c \in Callers : CacheGet(c) \/ Send(c) \/ GiveUp(c) \/ CacheSet(c) \/ Leave(c)
       \/ Refuse \/ Finish \/ FinishWithError
       \/ \E m \in Modes \cup {"degraded"} : Restart(m)
      BY Zenon DEF Next, Caller, Begin, Expire, vars
<1> QED
    BY <1>4, <1>5, <1>6, <1>7, <1>8, <1>9, <1>10, <1>11, <1>12, <1>13, <1>14

-----------------------------------------------------------------------------
(* What the service works on.                                              *)

(* The part of the invariant that is about the service. *)
ServiceOK == /\ backlog \in Seq(Requested)
             /\ work \in Works \cup {Nothing}

(* A request names its client and its text. *)
LEMMA EntryClient ==
  ASSUME ServiceOK, NEW i \in DOMAIN backlog
  PROVE  /\ backlog[i] \in Requested
         /\ backlog[i].client \in Callers \cup {Nobody}
         /\ backlog[i].text \in Texts
<1>1. backlog[i] \in Requested
      BY DEF ServiceOK
<1> QED
    BY <1>1 DEF Requested

(* A step that leaves the service alone and moves no caller that waits. *)
LEMMA ServiceFrame ==
  ASSUME ServiceOK, Awaited, UNCHANGED <<backlog, work>>,
         \A d \in Callers : pc[d] = "await" => pc'[d] = "await" /\ text'[d] = text[d]
  PROVE  ServiceOK' /\ Awaited'
<1>1. backlog' = backlog /\ work' = work
      OBVIOUS
<1>2. \A i \in DOMAIN backlog : backlog[i].client \in Callers \cup {Nobody}
      BY EntryClient
<1>3. work # Nothing => work.client \in Callers \cup {Nobody}
      BY DEF ServiceOK, Works
<1>4. \A i \in DOMAIN backlog' : Waits(backlog[i])'
      BY <1>1, <1>2 DEF Awaited, Waits
<1>5. work' # Nothing => Waits(work)'
      BY <1>1, <1>3 DEF Awaited, Waits
<1> QED
    BY <1>1, <1>4, <1>5 DEF ServiceOK, Awaited

(* An answer moves only the caller it is for. *)
LEMMA DeliverMoves ==
  ASSUME CallersOK, NEW c \in Callers \cup {Nobody}, NEW r, Deliver(c, r)
  PROVE  \A d \in Callers : d # c => pc'[d] = pc[d]
  BY DEF Deliver, Return, Goto, CallersOK

(* The oldest request leaves the backlog. *)
LEMMA TailStep ==
  ASSUME ServiceOK, Awaited, backlog # <<>>, backlog' = Tail(backlog), UNCHANGED text,
         \A d \in Callers : d # backlog[1].client => pc'[d] = pc[d]
  PROVE  /\ backlog' \in Seq(Requested)
         /\ \A i \in DOMAIN backlog' : Waits(backlog[i])' /\ i + 1 \in DOMAIN backlog
                                       /\ backlog'[i] = backlog[i + 1]
         /\ \A i, j \in DOMAIN backlog' :
              i # j /\ backlog'[i].client = backlog'[j].client => backlog'[i].client = Nobody
<1>1. /\ backlog' \in Seq(Requested)
      /\ \A i \in DOMAIN backlog' : i \in Nat /\ i # 0 /\ i + 1 \in DOMAIN backlog
                                    /\ backlog'[i] = backlog[i + 1]
      /\ 1 \in DOMAIN backlog
      BY DEF ServiceOK
<1>2. ASSUME NEW i \in DOMAIN backlog' PROVE Waits(backlog[i])'
  <2>1. i + 1 \in DOMAIN backlog /\ i + 1 # 1 /\ backlog'[i] = backlog[i + 1]
        BY <1>1, <1>2
  <2>2. backlog[i + 1].client \in Callers \cup {Nobody}
        BY <2>1, EntryClient
  <2>3. backlog[i + 1].client = backlog[1].client => backlog[i + 1].client = Nobody
        BY <1>1, <2>1 DEF Awaited
  <2>4. Waits(backlog[i + 1])
        BY <2>1 DEF Awaited
  <2> QED
      BY <2>1, <2>2, <2>3, <2>4 DEF Waits
<1>3. ASSUME NEW i \in DOMAIN backlog', NEW j \in DOMAIN backlog', i # j,
             backlog'[i].client = backlog'[j].client
      PROVE  backlog'[i].client = Nobody
  <2>1. i + 1 # j + 1
        BY <1>1, <1>3
  <2> QED
      BY <1>1, <1>3, <2>1 DEF Awaited
<1> QED
    BY <1>1, <1>2, <1>3

(* A caller that gives up is forgotten by every request. *)
LEMMA ForgetOne ==
  ASSUME NEW c \in Callers, NEW e \in Requested \cup Works
  PROVE  /\ Forget(e, {c}).text = e.text
         /\ Forget(e, {c}).client = IF e.client = c THEN Nobody ELSE e.client
         /\ e \in Requested => Forget(e, {c}) \in Requested
         /\ e \in Works => Forget(e, {c}) \in Works
  BY DEF Forget, Requested, Works

(* Every step keeps the service's requests apart, and each with a caller   *)
(* that waits for it or with none.                                         *)
LEMMA ServiceStep ==
  ASSUME IInv, [Next]_vars
  PROVE  ServiceOK' /\ Awaited'
<1>1. ServiceOK /\ Awaited /\ CallersOK
      BY DEF IInv, Typed, ServiceOK, CallersOK
<1>2. ASSUME NEW c \in Callers, NEW t \in Texts, Call(c, t) PROVE ServiceOK' /\ Awaited'
  <2>1. \A d \in Callers : pc[d] = "await" => pc'[d] = "await" /\ text'[d] = text[d]
        BY <1>1, <1>2 DEF Call, Goto, CallersOK
  <2> QED
      BY <1>1, <1>2, <2>1, ServiceFrame DEF Call
<1>3. ASSUME NEW c \in Callers, CacheGet(c) \/ CacheSet(c) \/ Leave(c)
      PROVE  ServiceOK' /\ Awaited'
  <2>1. \A d \in Callers : pc[d] = "await" => pc'[d] = "await" /\ text'[d] = text[d]
        BY <1>1, <1>3 DEF CacheGet, CacheSet, Leave, Return, Goto, CallersOK
  <2>2. UNCHANGED <<backlog, work>>
        BY <1>3 DEF CacheGet, CacheSet, Leave
  <2> QED
      BY <1>1, <2>1, <2>2, ServiceFrame
<1>4. ASSUME NEW c \in Callers, Send(c) PROVE ServiceOK' /\ Awaited'
  <2>1. pc[c] = "send" /\ text[c] \in Texts /\ text' = text /\ work' = work
        BY <1>4 DEF Send, IInv, HasText, Steps
  <2>2. \A d \in Callers : pc[d] = "await" => pc'[d] = "await" /\ text'[d] = text[d]
        BY <1>1, <1>4 DEF Send, Return, Goto, CallersOK
  <2>3. CASE UNCHANGED backlog
        BY <1>1, <2>1, <2>2, <2>3, ServiceFrame
  <2>4. CASE backlog' = Append(backlog, [client |-> c, text |-> text[c]]) /\ Goto(c, "await")
    <3> DEFINE e == [client |-> c, text |-> text[c]]
    <3>1. e \in Requested /\ e.client = c /\ e.text = text[c]
          BY <2>1 DEF Requested
    <3>2. /\ backlog' \in Seq(Requested)
          /\ DOMAIN backlog' = DOMAIN backlog \cup {Len(backlog) + 1}
          /\ \A i \in DOMAIN backlog : backlog'[i] = backlog[i] /\ i # Len(backlog) + 1
          /\ backlog'[Len(backlog) + 1] = e
          BY <1>1, <2>4, <3>1 DEF ServiceOK
    <3> HIDE DEF e
    <3>3. pc'[c] = "await" /\ text'[c] = text[c]
          BY <1>1, <2>1, <2>4 DEF Goto, CallersOK
    <3>4. ASSUME NEW i \in DOMAIN backlog
          PROVE  /\ backlog[i].client = c => c = Nobody
                 /\ Waits(backlog[i])'
      <4>1. Waits(backlog[i]) /\ backlog[i].client \in Callers \cup {Nobody}
            BY <1>1, EntryClient DEF Awaited
      <4> QED
          BY <2>1, <2>2, <3>2, <4>1 DEF Waits
    <3>5. work # Nothing => Waits(work)' /\ (work.client = c => c = Nobody)
      <4>1. work # Nothing => Waits(work) /\ work.client \in Callers \cup {Nobody}
            BY <1>1 DEF Awaited, ServiceOK, Works
      <4> QED
          BY <2>1, <2>2, <4>1 DEF Waits
    <3>6. ASSUME NEW i \in DOMAIN backlog' PROVE Waits(backlog[i])'
      <4>1. CASE i \in DOMAIN backlog
            BY <3>4, <4>1
      <4>2. CASE i = Len(backlog) + 1
        <5>1. backlog'[i].client = c /\ backlog'[i].text = text[c]
              BY <3>1, <3>2, <4>2
        <5> QED
            BY <3>3, <5>1 DEF Waits
      <4> QED
          BY <3>2, <4>1, <4>2
    <3>7. \A i, j \in DOMAIN backlog' :
            i # j /\ backlog'[i].client = backlog'[j].client => backlog'[i].client = Nobody
          BY <1>1, <3>1, <3>2, <3>4 DEF Awaited
    <3>8. work' # Nothing =>
            \A i \in DOMAIN backlog' : backlog'[i].client = work'.client => work'.client = Nobody
          BY <1>1, <2>1, <3>1, <3>2, <3>5 DEF Awaited
    <3> QED
        BY <1>1, <2>1, <3>2, <3>5, <3>6, <3>7, <3>8 DEF Awaited, ServiceOK
  <2> QED
      BY <1>4, <2>3, <2>4 DEF Send
<1>5. CASE Refuse
  <2>1. backlog # <<>> /\ Head(backlog) = backlog[1] /\ 1 \in DOMAIN backlog
        BY <1>1, <1>5 DEF Refuse, ServiceOK
  <2>2. backlog[1].client \in Callers \cup {Nobody}
        BY <1>1, <2>1, EntryClient
  <2>3. \A d \in Callers : d # backlog[1].client => pc'[d] = pc[d]
        BY <1>1, <1>5, <2>1, <2>2, DeliverMoves DEF Refuse
  <2>4. work = Nothing /\ work' = Nothing
        BY <1>5 DEF Refuse
  <2>5. backlog' = Tail(backlog) /\ text' = text
        BY <1>5 DEF Refuse
  <2>6. /\ backlog' \in Seq(Requested)
        /\ \A i \in DOMAIN backlog' : Waits(backlog[i])'
        /\ \A i, j \in DOMAIN backlog' :
             i # j /\ backlog'[i].client = backlog'[j].client => backlog'[i].client = Nobody
        BY <1>1, <2>1, <2>3, <2>5, TailStep
  <2> QED
      BY <2>4, <2>6 DEF Awaited, ServiceOK
<1>6. ASSUME NEW reply \in Replies, Begin(reply) PROVE ServiceOK' /\ Awaited'
  <2>1. backlog # <<>> /\ Head(backlog) = backlog[1] /\ 1 \in DOMAIN backlog
        BY <1>1, <1>6 DEF Begin, ServiceOK
  <2>2. backlog[1].client \in Callers \cup {Nobody} /\ backlog[1].text \in Texts
        BY <1>1, <2>1, EntryClient
  <2>3. /\ work' = [client |-> backlog[1].client, text |-> backlog[1].text, reply |-> reply]
        /\ backlog' = Tail(backlog) /\ text' = text /\ pc' = pc
        BY <1>6, <2>1 DEF Begin
  <2>4. /\ work' \in Works /\ work'.client = backlog[1].client /\ work'.text = backlog[1].text
        BY <2>2, <2>3 DEF Works
  <2>5. Waits(work)'
    <3>1. Waits(backlog[1])
          BY <1>1, <2>1 DEF Awaited
    <3> QED
        BY <2>3, <2>4, <3>1 DEF Waits
  <2>6. /\ backlog' \in Seq(Requested)
        /\ \A i \in DOMAIN backlog' : Waits(backlog[i])' /\ i + 1 \in DOMAIN backlog
                                      /\ backlog'[i] = backlog[i + 1]
        /\ \A i, j \in DOMAIN backlog' :
             i # j /\ backlog'[i].client = backlog'[j].client => backlog'[i].client = Nobody
        BY <1>1, <2>1, <2>3, TailStep
  <2>7. ASSUME NEW i \in DOMAIN backlog', backlog'[i].client = work'.client
        PROVE  work'.client = Nobody
    <3>1. i + 1 \in DOMAIN backlog /\ i + 1 # 1 /\ backlog'[i] = backlog[i + 1]
          BY <2>6, <2>7
    <3> QED
        BY <1>1, <2>1, <2>4, <2>7, <3>1 DEF Awaited
  <2> QED
      BY <2>4, <2>5, <2>6, <2>7 DEF Awaited, ServiceOK
<1>7. CASE Finish \/ FinishWithError
  <2>1. /\ work # Nothing /\ work' = Nothing /\ backlog' = backlog /\ text' = text
        /\ \E r : Deliver(work.client, r)
        BY <1>7 DEF Finish, FinishWithError
  <2>2. work.client \in Callers \cup {Nobody}
        BY <1>1, <2>1 DEF ServiceOK, Works
  <2>3. \A d \in Callers : d # work.client => pc'[d] = pc[d]
        BY <1>1, <2>1, <2>2, DeliverMoves
  <2>4. ASSUME NEW i \in DOMAIN backlog PROVE Waits(backlog[i])'
    <3>1. Waits(backlog[i]) /\ backlog[i].client \in Callers \cup {Nobody}
          BY <1>1, EntryClient DEF Awaited
    <3>2. backlog[i].client = work.client => backlog[i].client = Nobody
          BY <1>1, <2>1 DEF Awaited
    <3> QED
        BY <2>1, <2>3, <3>1, <3>2 DEF Waits
  <2> QED
      BY <1>1, <2>1, <2>4 DEF Awaited, ServiceOK
<1>8. ASSUME NEW c \in Callers, GiveUp(c) PROVE ServiceOK' /\ Awaited'
  <2>1. /\ text' = text
        /\ \A d \in Callers : d # c => pc'[d] = pc[d]
        BY <1>1, <1>8 DEF GiveUp, Return, Goto, CallersOK
  <2>2. /\ backlog' \in Seq(Requested) /\ DOMAIN backlog' = DOMAIN backlog
        /\ \A i \in DOMAIN backlog : /\ backlog'[i].text = backlog[i].text
                                     /\ backlog'[i].client = IF backlog[i].client = c THEN Nobody
                                                             ELSE backlog[i].client
    <3>1. backlog' = [i \in DOMAIN backlog |-> Forget(backlog[i], {c})]
          BY <1>8 DEF GiveUp
    <3>2. \A i \in DOMAIN backlog :
            /\ Forget(backlog[i], {c}) \in Requested
            /\ Forget(backlog[i], {c}).text = backlog[i].text
            /\ Forget(backlog[i], {c}).client = IF backlog[i].client = c THEN Nobody
                                                ELSE backlog[i].client
          BY <1>1, EntryClient, ForgetOne
    <3>3. DOMAIN backlog = 1..Len(backlog) /\ Len(backlog) \in Nat
          BY <1>1 DEF ServiceOK
    <3>4. DOMAIN backlog' = DOMAIN backlog
          BY <3>1
    <3>5. \A i \in DOMAIN backlog : backlog'[i] = Forget(backlog[i], {c})
          BY <3>1
    <3>6. backlog' \in [1..Len(backlog) -> Requested]
          BY <3>1, <3>2, <3>3
    <3>7. backlog' \in Seq(Requested)
          BY <3>3, <3>6
    <3> QED
        BY <3>2, <3>4, <3>5, <3>7
  <2>3. /\ work = Nothing => work' = Nothing
        /\ work # Nothing =>
             /\ work' \in Works /\ work'.text = work.text
             /\ work'.client = IF work.client = c THEN Nobody ELSE work.client
    <3>1. work' = IF work = Nothing THEN Nothing ELSE Forget(work, {c})
          BY <1>8 DEF GiveUp
    <3>2. work # Nothing => work \in Works
          BY <1>1 DEF ServiceOK
    <3> QED
        BY <3>1, <3>2, ForgetOne
  <2>4. ASSUME NEW i \in DOMAIN backlog PROVE Waits(backlog[i])'
    <3>1. Waits(backlog[i]) /\ backlog[i].client \in Callers \cup {Nobody}
          BY <1>1, EntryClient DEF Awaited
    <3> QED
        BY <2>1, <2>2, <3>1 DEF Waits
  <2>5. work' # Nothing => Waits(work)'
    <3>1. work # Nothing => Waits(work) /\ work.client \in Callers \cup {Nobody}
          BY <1>1 DEF Awaited, ServiceOK, Works
    <3> QED
        BY <2>1, <2>3, <3>1 DEF Waits
  <2>6. \A i, j \in DOMAIN backlog' :
          i # j /\ backlog'[i].client = backlog'[j].client => backlog'[i].client = Nobody
        BY <1>1, <2>2 DEF Awaited
  <2>7. work' # Nothing =>
          \A i \in DOMAIN backlog' : backlog'[i].client = work'.client => work'.client = Nobody
        BY <1>1, <2>2, <2>3 DEF Awaited
  <2> QED
      BY <2>2, <2>3, <2>4, <2>5, <2>6, <2>7 DEF Awaited, ServiceOK
<1>9. ASSUME NEW m \in Modes \cup {"degraded"}, Restart(m) PROVE ServiceOK' /\ Awaited'
      BY <1>9 DEF Restart, Awaited, ServiceOK
<1>10. ASSUME UNCHANGED <<pc, text, backlog, work>> PROVE ServiceOK' /\ Awaited'
      BY <1>1, <1>10, ServiceFrame
<1>11. \/ UNCHANGED <<pc, text, backlog, work>>
       \/ \E c \in Callers, t \in Texts : Call(c, t)
       \/ \E c \in Callers : \/ CacheGet(c) \/ CacheSet(c) \/ Leave(c)
                             \/ Send(c) \/ GiveUp(c)
       \/ Refuse \/ Finish \/ FinishWithError
       \/ \E reply \in Replies : Begin(reply)
       \/ \E m \in Modes \cup {"degraded"} : Restart(m)
      BY Zenon DEF Next, Caller, Expire, vars
<1> QED
    BY <1>2, <1>3, <1>4, <1>5, <1>6, <1>7, <1>8, <1>9, <1>10, <1>11

-----------------------------------------------------------------------------
(* The bound on the requests at the service.                               *)

OnTheWay == {c \in Callers : pc[c] \in {"get", "send"}}

(* The callers on their way are counted. *)
LEMMA OnTheWayFinite ==
  /\ IsFiniteSet(OnTheWay) /\ Cardinality(OnTheWay) \in Nat
  /\ IsFiniteSet(OnTheWay') /\ Cardinality(OnTheWay') \in Nat
<1>1. IsFiniteSet(OnTheWay) /\ IsFiniteSet(OnTheWay')
  <2>1. OnTheWay \subseteq Callers /\ OnTheWay' \subseteq Callers
        BY DEF OnTheWay
  <2> QED
      BY <2>1, ChainAssumption, FS_Subset
<1> QED
    BY <1>1, FS_CardinalityType

(* A step after which no more callers are on their way, and no more        *)
(* requests wait.                                                          *)
LEMMA LoadFalls ==
  ASSUME LoadBound, backlog \in Seq(Requested), backlog' \in Seq(Requested),
         Len(backlog') <= Len(backlog), OnTheWay' \subseteq OnTheWay
  PROVE  LoadBound'
<1>1. Cardinality(OnTheWay') <= Cardinality(OnTheWay)
      BY OnTheWayFinite, FS_Subset
<1>2. Load = Len(backlog) + Cardinality(OnTheWay)
      BY DEF Load, OnTheWay
<1>3. Load' = Len(backlog') + Cardinality(OnTheWay')
      BY DEF Load, OnTheWay
<1>4. Len(backlog) \in Nat /\ Len(backlog') \in Nat
      OBVIOUS
<1> QED
    BY <1>1, <1>2, <1>3, <1>4, OnTheWayFinite, ChainAssumption DEF LoadBound

(* Every step keeps the load within its bound. *)
LEMMA LoadStep ==
  ASSUME IInv, [Next]_vars
  PROVE  LoadBound'
<1>1. LoadBound /\ CallersOK /\ ServiceOK /\ backlog \in Seq(Requested) /\ backlog' \in Seq(Requested)
      BY ServiceStep DEF IInv, Typed, CallersOK, ServiceOK
<1>2. Load = Len(backlog) + Cardinality(OnTheWay) /\ Load' = Len(backlog') + Cardinality(OnTheWay')
      BY DEF Load, OnTheWay
<1>3. Len(backlog) \in Nat /\ Len(backlog') \in Nat
      BY <1>1
<1>4. ASSUME NEW c \in Callers, NEW t \in Texts, Call(c, t) PROVE LoadBound'
  <2>1. c \notin OnTheWay /\ OnTheWay' = OnTheWay \cup {c}
        BY <1>1, <1>4 DEF Call, Goto, CallersOK, OnTheWay
  <2>2. Cardinality(OnTheWay') = Cardinality(OnTheWay) + 1
        BY <2>1, OnTheWayFinite, FS_AddElement
  <2>3. Load < MaxBacklog /\ backlog' = backlog
        BY <1>4 DEF Call
  <2> QED
      BY <1>2, <1>3, <2>2, <2>3, OnTheWayFinite, ChainAssumption DEF LoadBound
<1>5. ASSUME NEW c \in Callers, Send(c) PROVE LoadBound'
  <2>1. CASE UNCHANGED backlog
    <3>1. OnTheWay' \subseteq OnTheWay
          BY <1>1, <1>5 DEF Send, Return, Goto, CallersOK, OnTheWay
    <3>2. Len(backlog') <= Len(backlog)
          BY <1>3, <2>1
    <3> QED
        BY <1>1, <3>1, <3>2, LoadFalls
  <2>2. CASE backlog' = Append(backlog, [client |-> c, text |-> text[c]]) /\ Goto(c, "await")
    <3>1. c \in OnTheWay /\ OnTheWay' = OnTheWay \ {c}
          BY <1>1, <1>5, <2>2 DEF Send, Goto, CallersOK, OnTheWay
    <3>2. Cardinality(OnTheWay') = Cardinality(OnTheWay) - 1
          BY <3>1, OnTheWayFinite, FS_RemoveElement
    <3>3. [client |-> c, text |-> text[c]] \in Requested
          BY <1>5 DEF Send, IInv, HasText, Steps, Requested
    <3>4. Len(backlog') = Len(backlog) + 1
          BY <1>1, <2>2, <3>3
    <3> QED
        BY <1>1, <1>2, <1>3, <3>2, <3>4, OnTheWayFinite, ChainAssumption DEF LoadBound
  <2> QED
      BY <1>5, <2>1, <2>2 DEF Send
<1>6. ASSUME NEW c \in Callers, CacheGet(c) \/ CacheSet(c) \/ Leave(c) PROVE LoadBound'
  <2>1. OnTheWay' \subseteq OnTheWay
        BY <1>1, <1>6 DEF CacheGet, CacheSet, Leave, Return, Goto, CallersOK, OnTheWay
  <2>2. backlog' = backlog
        BY <1>6 DEF CacheGet, CacheSet, Leave
  <2> QED
      BY <1>1, <1>3, <2>1, <2>2, LoadFalls
<1>7. ASSUME NEW c \in Callers, GiveUp(c) PROVE LoadBound'
  <2>1. OnTheWay' \subseteq OnTheWay
        BY <1>1, <1>7 DEF GiveUp, Return, Goto, CallersOK, OnTheWay
  <2>2. backlog' = [i \in 1..Len(backlog) |-> Forget(backlog[i], {c})]
        BY <1>1, <1>7 DEF GiveUp
  <2>3. Len(backlog') = Len(backlog)
        BY <1>3, <2>2
  <2> QED
      BY <1>1, <1>3, <2>1, <2>3, LoadFalls
<1>8. CASE Refuse \/ (\E reply \in Replies : Begin(reply))
  <2>1. backlog # <<>> /\ backlog' = Tail(backlog)
        BY <1>8 DEF Refuse, Begin
  <2>2. Len(backlog') <= Len(backlog)
        BY <1>1, <2>1
  <2>3. OnTheWay' \subseteq OnTheWay
    <3>1. CASE Refuse
      <4>1. backlog[1] = Head(backlog) /\ backlog[1].client \in Callers \cup {Nobody}
            BY <1>1, <2>1, EntryClient
      <4> QED
          BY <1>1, <3>1, <4>1 DEF Refuse, Deliver, Return, Goto, CallersOK, OnTheWay
    <3>2. CASE \E reply \in Replies : Begin(reply)
          BY <3>2 DEF Begin, OnTheWay
    <3> QED
        BY <1>8, <3>1, <3>2
  <2> QED
      BY <1>1, <2>2, <2>3, LoadFalls
<1>9. CASE Finish \/ FinishWithError
  <2>1. /\ work # Nothing /\ backlog' = backlog
        /\ \E r : Deliver(work.client, r)
        BY <1>9 DEF Finish, FinishWithError
  <2>2. work.client \in Callers \cup {Nobody}
        BY <1>1, <2>1 DEF ServiceOK, Works
  <2>3. OnTheWay' \subseteq OnTheWay
        BY <1>1, <2>1, <2>2 DEF Deliver, Return, Goto, CallersOK, OnTheWay
  <2> QED
      BY <1>1, <1>3, <2>1, <2>3, LoadFalls
<1>10. ASSUME NEW m \in Modes \cup {"degraded"}, Restart(m) PROVE LoadBound'
  <2>1. OnTheWay' \subseteq OnTheWay
        BY <1>10 DEF Restart, OnTheWay
  <2>2. Len(backlog') <= Len(backlog)
        BY <1>3, <1>10 DEF Restart
  <2> QED
      BY <1>1, <2>1, <2>2, LoadFalls
<1>11. ASSUME UNCHANGED <<pc, backlog>> PROVE LoadBound'
      BY <1>1, <1>11 DEF LoadBound, Load
<1>12. \/ UNCHANGED <<pc, backlog>>
       \/ \E c \in Callers, t \in Texts : Call(c, t)
       \/ \E c \in Callers : \/ CacheGet(c) \/ CacheSet(c) \/ Leave(c)
                             \/ Send(c) \/ GiveUp(c)
       \/ Refuse \/ Finish \/ FinishWithError
       \/ \E reply \in Replies : Begin(reply)
       \/ \E m \in Modes \cup {"degraded"} : Restart(m)
      BY Zenon DEF Next, Caller, Expire, vars
<1> QED
    BY <1>4, <1>5, <1>6, <1>7, <1>8, <1>9, <1>10, <1>11, <1>12

-----------------------------------------------------------------------------
(* The cache.                                                              *)

(* Only CacheSet writes, and what it writes is the service's answer to the *)
(* text it is written under.                                               *)
LEMMA CacheStep ==
  ASSUME IInv, [Next]_vars
  PROVE  cache' \in [Texts -> Results \cup {Nothing}] /\ CacheIsFromService'
<1>1. cache \in [Texts -> Results \cup {Nothing}] /\ CacheIsFromService
      BY DEF IInv, Typed
<1>2. CASE UNCHANGED cache
      BY <1>1, <1>2 DEF CacheIsFromService
<1>3. ASSUME NEW c \in Callers, CacheSet(c), cache' = [cache EXCEPT ![text[c]] = result[c]]
      PROVE  cache' \in [Texts -> Results \cup {Nothing}] /\ CacheIsFromService'
  <2>1. FromService(result[c], text[c]) /\ text[c] \in Texts /\ result[c] \in Results
        BY <1>3 DEF CacheSet, IInv, ToldOwn, Told, HasText, Steps, FromService
  <2>2. cache' \in [Texts -> Results \cup {Nothing}]
        BY <1>1, <1>3, <2>1
  <2>3. \A t \in Texts : cache'[t] = IF t = text[c] THEN result[c] ELSE cache[t]
        BY <1>1, <1>3, <2>1
  <2> QED
      BY <1>1, <2>1, <2>2, <2>3 DEF CacheIsFromService
<1>4. ASSUME NEW t \in Texts, Expire(t)
      PROVE  cache' \in [Texts -> Results \cup {Nothing}] /\ CacheIsFromService'
  <2>1. cache' \in [Texts -> Results \cup {Nothing}]
        BY <1>1, <1>4 DEF Expire
  <2>2. \A u \in Texts : cache'[u] = IF u = t THEN Nothing ELSE cache[u]
        BY <1>1, <1>4 DEF Expire
  <2> QED
      BY <1>1, <2>1, <2>2 DEF CacheIsFromService
<1>5. \/ UNCHANGED cache
      \/ \E c \in Callers : CacheSet(c) /\ cache' = [cache EXCEPT ![text[c]] = result[c]]
      \/ \E t \in Texts : Expire(t)
      BY Zenon DEF Next, Call, Caller, CacheGet, Send, GiveUp, CacheSet, Leave, Refuse, Finish,
         FinishWithError, Begin, Restart, vars
<1> QED
    BY <1>2, <1>3, <1>4, <1>5

-----------------------------------------------------------------------------
(* The invariant.                                                          *)

LEMMA InitIInv == Init => IInv
<1> SUFFICES ASSUME Init PROVE IInv
    OBVIOUS
<1> USE ChainAssumption
<1>1. Typed
      BY DEF Init, Typed
<1>2. cacheOn \in BOOLEAN /\ fallbackOn \in BOOLEAN
      BY DEF Init
<1>3. HasText /\ WorkNeedsModel /\ Awaited /\ CacheIsFromService /\ ToldOwn
      BY DEF Init, HasText, WorkNeedsModel, Awaited, CacheIsFromService, ToldOwn, Told, Steps
<1>4. LoadBound
  <2>1. {c \in Callers : pc[c] \in {"get", "send"}} = {}
        BY DEF Init
  <2>2. Cardinality({}) = 0 /\ Len(backlog) = 0
        BY FS_EmptySet DEF Init
  <2>3. Load = Len(backlog) + Cardinality({})
        BY <2>1, Zenon DEF Load
  <2> QED
      BY <2>2, <2>3 DEF LoadBound
<1> QED
    BY <1>1, <1>2, <1>3, <1>4 DEF IInv

LEMMA IInvStep == IInv /\ [Next]_vars => IInv'
<1> SUFFICES ASSUME IInv, [Next]_vars PROVE IInv'
    OBVIOUS
<1>1. CallerInv' /\ ServiceOK' /\ Awaited' /\ LoadBound' /\ CacheIsFromService'
      /\ cache' \in [Texts -> Results \cup {Nothing}]
      BY CallersStep, ServiceStep, LoadStep, CacheStep
<1>2. UNCHANGED <<cacheOn, fallbackOn>>
      BY Zenon DEF Next, Call, Caller, CacheGet, Send, GiveUp, CacheSet, Leave, Refuse, Finish,
         FinishWithError, Begin, Expire, Restart, vars, config
<1>3. cacheOn \in BOOLEAN /\ fallbackOn \in BOOLEAN
      BY DEF IInv
<1>4. mode' \in Modes \cup {"degraded"} /\ WorkNeedsModel'
  <2>1. mode \in Modes \cup {"degraded"} /\ WorkNeedsModel
        BY DEF IInv, Typed
  <2>2. \/ mode' = mode /\ (work' = work \/ work' = Nothing)
        \/ mode' = mode /\ mode # "degraded"
        \/ work' = Nothing /\ mode' \in Modes \cup {"degraded"}
    <3>1. CASE \E c \in Callers : GiveUp(c)
          BY <2>1, <3>1 DEF GiveUp, WorkNeedsModel, Modes
    <3>2. CASE \E m \in Modes \cup {"degraded"} : Restart(m)
          BY <3>2 DEF Restart
    <3>3. CASE ~(\E c \in Callers : GiveUp(c)) /\ ~(\E m \in Modes \cup {"degraded"} : Restart(m))
          BY <3>3, Zenon DEF Next, Call, Caller, CacheGet, Send, CacheSet, Leave, Refuse, Finish,
             FinishWithError, Begin, Expire, vars
    <3> QED
        BY <3>1, <3>2, <3>3
  <2> QED
      BY <2>1, <2>2 DEF WorkNeedsModel
<1>5. Typed'
      BY <1>1, <1>4 DEF Typed, CallerInv, CallersOK, ServiceOK
<1>6. cacheOn' \in BOOLEAN /\ fallbackOn' \in BOOLEAN
      BY <1>2, <1>3, Zenon
<1> QED
    BY <1>1, <1>4, <1>5, <1>6, Zenon DEF IInv, CallerInv

LEMMA Invariance == Spec => []IInv
  BY InitIInv, IInvStep, PTL DEF Spec

-----------------------------------------------------------------------------
(* The variables of the chain keep their types, the service never holds    *)
(* more requests than the bound allows, and a caller that stepPerceive has *)
(* returned to has been told something.                                    *)
THEOREM TypeCorrect == Spec => []TypeOK
<1>1. IInv => TypeOK
  <2> SUFFICES ASSUME IInv PROVE TypeOK
      OBVIOUS
  <2>1. Len(backlog) <= MaxBacklog
    <3>1. Len(backlog) \in Nat /\ Load <= MaxBacklog
          BY DEF IInv, Typed, LoadBound
    <3>2. Load = Len(backlog) + Cardinality(OnTheWay)
          BY DEF Load, OnTheWay
    <3> QED
        BY <3>1, <3>2, OnTheWayFinite, ChainAssumption
  <2>2. ASSUME NEW c \in Callers, pc[c] = "returned" PROVE result[c] # Nothing
    <3>1. Told(c)
          BY DEF IInv, ToldOwn
    <3>2. \/ result[c] \in Results
          \/ result[c] = Failure
          BY <2>2, <3>1, NeutralResult DEF Told, FromService
    <3>3. Failure # Nothing
      <4>1. Failure.kind = "error" /\ Nothing.kind = "nothing"
            BY DEF Failure, Nothing
      <4> QED
          BY <4>1
    <3> QED
        BY <3>2, <3>3, ResultsAreAnswers
  <2>3. cacheOn \in BOOLEAN /\ fallbackOn \in BOOLEAN
        BY DEF IInv
  <2>4. Typed
        BY DEF IInv
  <2> QED
      BY <2>1, <2>2, <2>3, <2>4, Zenon DEF TypeOK, Typed, Requested, Works
<1> QED
    BY <1>1, Invariance, PTL

(* A result stays with the text and the caller it was made for: the cache  *)
(* holds only the service's answers, each under its own text, and a caller *)
(* of stepPerceive gets such an answer to its own text, or the neutral     *)
(* result when the fallback is on, or an error when it is off; for any     *)
(* callers, texts, model answers, restarts and deadlines.                  *)
THEOREM SourcesKept == Spec => []AnswersKeepTheirSource
<1>1. IInv => AnswersKeepTheirSource
  <2> SUFFICES ASSUME IInv PROVE AnswersKeepTheirSource
      OBVIOUS
  <2>1. ASSUME NEW t \in Texts, cache[t] # Nothing
        PROVE  cache[t].by = "service" /\ cache[t].of = t
        BY <2>1 DEF IInv, CacheIsFromService, FromService
  <2>2. ASSUME NEW c \in Callers, pc[c] = "returned"
        PROVE  IF result[c] = Failure THEN ~fallbackOn
               ELSE /\ result[c].of = text[c]
                    /\ result[c].by = "fallback" => fallbackOn
    <3>1. Told(c)
          BY DEF IInv, ToldOwn
    <3>2. CASE FromService(result[c], text[c])
      <4>1. result[c] # Failure /\ result[c].by = "service" /\ result[c].of = text[c]
            BY <3>2, ResultsAreAnswers DEF FromService
      <4> QED
          BY <4>1
    <3>3. CASE fallbackOn /\ result[c] = NeutralFor(text[c]) /\ text[c] \in Texts
      <4>1. result[c] # Failure /\ result[c].of = text[c]
            BY <3>3, NeutralResult, ResultsAreAnswers
      <4> QED
          BY <3>3, <4>1
    <3>4. CASE ~fallbackOn /\ result[c] = Failure
          BY <3>4
    <3> QED
        BY <2>2, <3>1, <3>2, <3>3, <3>4 DEF Told
  <2> QED
      BY <2>1, <2>2 DEF AnswersKeepTheirSource
<1> QED
    BY <1>1, Invariance, PTL

----------------------------------------------------------------------------
(* ClassifierChain: which label wins.                                      *)

(* Known labels with a score, as _combine_weighted_labels gets them. *)
Scored == [label : KnownLabels, score : Nat \ {0}]

(* Filtering leaves known labels with positive scores. *)
LEMMA UsableAreScored ==
  ASSUME NEW T, NEW items \in Seq(T)
  PROVE  Usable(items) \in Seq(Scored)
<1>1. PICK n \in Nat : \E at \in [1..n -> 1..Len(items)] :
           /\ Among(items, Scored) = [i \in 1..n |-> items[at[i]]]
           /\ \A i \in 1..n : items[at[i]] \in Scored
      BY AmongLists
<1>2. PICK at \in [1..n -> 1..Len(items)] :
           /\ Among(items, Scored) = [i \in 1..n |-> items[at[i]]]
           /\ \A i \in 1..n : items[at[i]] \in Scored
      BY <1>1
<1>3. Among(items, Scored) \in [1..n -> Scored]
      BY <1>2
<1>4. Usable(items) = Among(items, Scored)
      BY DEF Usable, Scored
<1> QED
    BY <1>3, <1>4

(* Cutting to top_k keeps the first element of a list that has one. *)
LEMMA TopOfList ==
  ASSUME NEW T, NEW s \in Seq(T)
  PROVE  /\ TopOf(s) \in Seq(T) /\ Len(TopOf(s)) <= Len(s)
         /\ DOMAIN TopOf(s) = 1..Len(TopOf(s))
         /\ \A i \in DOMAIN TopOf(s) : i \in DOMAIN s /\ TopOf(s)[i] = s[i]
         /\ Len(s) > 0 => 1 \in DOMAIN TopOf(s)
<1> DEFINE k == IF Len(s) < TopK THEN Len(s) ELSE TopK
<1>1. Len(s) \in Nat /\ TopK \in Nat \ {0}
      BY ChainAssumption
<1>2. k \in 0..Len(s) /\ (Len(s) > 0 => k > 0)
      BY <1>1
<1>3. TopOf(s) = SubSeq(s, 1, k)
      BY DEF TopOf
<1> HIDE DEF k
<1> QED
    BY <1>2, <1>3

(* The labels of a list. *)
LabelsOf(items) == {s.label : s \in ToSet(items)}

(* A label of a list has a place in it. *)
LEMMA LabelIsMentioned ==
  ASSUME NEW items \in Seq(Scored), NEW l \in LabelsOf(items)
  PROVE  \E i \in DOMAIN items : items[i].label = l
BY DEF LabelsOf, ToSet

(* An element of a list is its label with its score. *)
LEMMA ScoredAgain ==
  ASSUME NEW items \in Seq(Scored), NEW i \in DOMAIN items
  PROVE  /\ items[i] = Score(items[i].label, items[i].score)
         /\ items[i].score \in Nat /\ items[i].label \in LabelsOf(items)
<1>1. items[i] \in Scored
      OBVIOUS
<1>2. items[i] = Score(items[i].label, items[i].score) /\ items[i].score \in Nat
      BY <1>1 DEF Scored, Score
<1> QED
    BY <1>2 DEF LabelsOf, ToSet

(* The best score of a label is one it has. *)
LEMMA BestIsGreatest ==
  ASSUME NEW items \in Seq(Scored), NEW l \in LabelsOf(items)
  PROVE  /\ Best(items, l) \in Nat
         /\ \E i \in DOMAIN items : items[i] = Score(l, Best(items, l))
         /\ \A i \in DOMAIN items : items[i].label = l => items[i].score <= Best(items, l)
<1> DEFINE places == {i \in DOMAIN items : items[i].label = l}
           scores == {items[i].score : i \in places}
           P(n) == /\ Score(l, n) \in ToSet(items)
                   /\ \A i \in DOMAIN items : items[i].label = l => items[i].score <= n
<1>1. scores \subseteq Nat /\ scores # {}
      BY LabelIsMentioned, ScoredAgain
<1>2. IsFiniteSet(scores)
  <2>1. IsFiniteSet(1..Len(items)) /\ DOMAIN items = 1..Len(items)
        BY FS_Interval
  <2>2. IsFiniteSet(places)
        BY <2>1, FS_Subset
  <2> DEFINE f == [i \in places |-> items[i].score]
  <2>3. f \in Surjection(places, scores)
        BY DEF Surjection
  <2> HIDE DEF places, scores, f
  <2> QED
      BY <2>2, <2>3, FS_Surjection
<1>3. PICK m \in scores : \A k \in scores : k <= m
  <2> HIDE DEF scores
  <2> QED
      BY <1>1, <1>2, GreatestExists
<1>4. PICK i \in places : m = items[i].score
      OBVIOUS
<1>5. Score(l, m) \in ToSet(items)
      BY <1>4, ScoredAgain DEF ToSet
<1>6. P(m) /\ m \in {items[j].score : j \in DOMAIN items}
      BY <1>3, <1>4, <1>5
<1>7. Best(items, l) = CHOOSE n \in {items[j].score : j \in DOMAIN items} : P(n)
      BY DEF Best
<1> HIDE DEF P
<1>8. P(Best(items, l)) /\ Best(items, l) \in {items[j].score : j \in DOMAIN items}
      BY <1>6, <1>7
<1> USE DEF P
<1>9. Best(items, l) \in Nat
      BY <1>8, ScoredAgain
<1>10. \E j \in DOMAIN items : items[j] = Score(l, Best(items, l))
      BY <1>8 DEF ToSet
<1> QED
    BY <1>8, <1>9, <1>10

(* The first places of a label, and of a label with its best score. *)
LEMMA FirstPlaces ==
  ASSUME NEW items \in Seq(Scored), NEW l \in LabelsOf(items)
  PROVE  /\ FirstMention(items, l) \in DOMAIN items
         /\ items[FirstMention(items, l)].label = l
         /\ FirstBest(items, l) \in DOMAIN items
         /\ items[FirstBest(items, l)] = Score(l, Best(items, l))
         /\ \A j \in 1..(FirstBest(items, l) - 1) : items[j] # Score(l, Best(items, l))
<1>1. ASSUME NEW A, A \subseteq DOMAIN items, A # {}
      PROVE  \E i \in DOMAIN items : i \in A /\ \A j \in 1..(i-1) : j \notin A
  <2>1. DOMAIN items \subseteq Nat
        OBVIOUS
  <2>2. A \subseteq Nat
        BY <1>1, <2>1
  <2>3. PICK m \in A : \A k \in A : m <= k
        BY <1>1, <2>2, LeastExists
  <2>4. m \in Nat /\ \A j \in 1..(m-1) : j \notin A
        BY <2>2, <2>3
  <2> QED
      BY <1>1, <2>4
<1>2. /\ FirstMention(items, l) \in DOMAIN items
      /\ items[FirstMention(items, l)].label = l
  <2> DEFINE A == {i \in DOMAIN items : items[i].label = l}
  <2>1. A \subseteq DOMAIN items /\ A # {}
        BY LabelIsMentioned
  <2>2. PICK i \in DOMAIN items : i \in A /\ \A j \in 1..(i-1) : j \notin A
    <3> HIDE DEF A
    <3> QED
        BY <1>1, <2>1
  <2>3. DOMAIN items = 1..Len(items) /\ Len(items) \in Nat
        OBVIOUS
  <2>4. items[i].label = l /\ \A j \in 1..(i-1) : items[j].label # l
    <3>1. \A j \in 1..(i-1) : j \in DOMAIN items
          BY <2>3
    <3> QED
        BY <2>2, <3>1
  <2> QED
      BY <2>4 DEF FirstMention
<1>3. /\ FirstBest(items, l) \in DOMAIN items
      /\ items[FirstBest(items, l)] = Score(l, Best(items, l))
      /\ \A j \in 1..(FirstBest(items, l) - 1) : items[j] # Score(l, Best(items, l))
  <2> DEFINE b == Score(l, Best(items, l))
             A == {i \in DOMAIN items : items[i] = b}
  <2>1. A \subseteq DOMAIN items /\ A # {}
        BY BestIsGreatest
  <2>2. PICK i \in DOMAIN items : i \in A /\ \A j \in 1..(i-1) : j \notin A
    <3> HIDE DEF A
    <3> QED
        BY <1>1, <2>1
  <2>3. DOMAIN items = 1..Len(items) /\ Len(items) \in Nat
        OBVIOUS
  <2>4. items[i] = b /\ \A j \in 1..(i-1) : items[j] # b
    <3>1. \A j \in 1..(i-1) : j \in DOMAIN items
          BY <2>3
    <3> QED
        BY <2>2, <3>1
  <2>5. FirstBest(items, l) = CHOOSE k \in DOMAIN items : items[k] = b /\ \A j \in 1..(k-1) : items[j] # b
        BY DEF FirstBest
  <2> HIDE DEF b
  <2>6. /\ FirstBest(items, l) \in DOMAIN items
        /\ items[FirstBest(items, l)] = b
        /\ \A j \in 1..(FirstBest(items, l) - 1) : items[j] # b
        BY <2>4, <2>5
  <2> QED
      BY <2>6 DEF b
<1> QED
    BY <1>2, <1>3

(* l is stronger than the other labels. *)
IsStrongest(items, place, l) ==
  \A s \in ToSet(items) :
    \/ s.label = l
    \/ Best(items, s.label) < Best(items, l)
    \/ Best(items, s.label) = Best(items, l) /\ place[l] < place[s.label]

(* No two labels are. *)
LEMMA StrongestIsOne ==
  ASSUME NEW items \in Seq(Scored), NEW place, \A l \in LabelsOf(items) : place[l] \in Nat,
         NEW l \in LabelsOf(items), IsStrongest(items, place, l)
  PROVE  Strongest(items, place) = l
<1>1. Strongest(items, place) = CHOOSE k \in LabelsOf(items) : IsStrongest(items, place, k)
      BY DEF Strongest, LabelsOf, IsStrongest
<1> DEFINE k == Strongest(items, place)
<1>2. k \in LabelsOf(items) /\ IsStrongest(items, place, k)
      BY <1>1
<1> HIDE DEF k
<1>3. SUFFICES ASSUME k # l PROVE FALSE
      BY DEF k
<1>4. PICK s \in ToSet(items) : s.label = k
      BY <1>2 DEF LabelsOf
<1>5. PICK t \in ToSet(items) : t.label = l
      BY DEF LabelsOf
<1>6. \/ Best(items, k) < Best(items, l)
      \/ Best(items, k) = Best(items, l) /\ place[l] < place[k]
      BY <1>3, <1>4 DEF IsStrongest
<1>7. \/ Best(items, l) < Best(items, k)
      \/ Best(items, l) = Best(items, k) /\ place[k] < place[l]
      BY <1>2, <1>3, <1>5 DEF IsStrongest
<1>8. Best(items, l) \in Nat /\ Best(items, k) \in Nat /\ place[l] \in Nat /\ place[k] \in Nat
      BY <1>2, BestIsGreatest
<1> QED
    BY <1>6, <1>7, <1>8

(* max takes the first of the greatest scores. *)
LEMMA CombinedIsStrongest ==
  ASSUME NEW items \in Seq(Scored), items # <<>>, NEW place,
         \A l \in LabelsOf(items) : place[l] = FirstBest(items, l)
  PROVE  CombinedLabel(items) = Strongest(items, place)
<1> DEFINE scores == {items[i].score : i \in DOMAIN items}
           Top(i) == /\ \A j \in DOMAIN items : items[j].score <= items[i].score
                     /\ \A j \in 1..(i-1) : items[j].score < items[i].score
           c == CHOOSE i \in DOMAIN items : Top(i)
           l == items[c].label
<1>1. DOMAIN items = 1..Len(items) /\ Len(items) \in Nat /\ 1 \in DOMAIN items
      OBVIOUS
<1>2. \A i \in DOMAIN items : items[i].score \in Nat
      BY ScoredAgain
<1>3. scores \subseteq Nat /\ scores # {}
      BY <1>1, <1>2
<1>4. IsFiniteSet(scores)
  <2>1. IsFiniteSet(1..Len(items))
        BY <1>1, FS_Interval
  <2> DEFINE f == [i \in 1..Len(items) |-> items[i].score]
  <2>2. f \in Surjection(1..Len(items), scores)
        BY <1>1 DEF Surjection
  <2> HIDE DEF scores, f
  <2> QED
      BY <2>1, <2>2, FS_Surjection
<1>5. PICK m \in scores : \A k \in scores : k <= m
  <2> HIDE DEF scores
  <2> QED
      BY <1>3, <1>4, GreatestExists
<1>6. \E i \in DOMAIN items : Top(i)
  <2> DEFINE A == {i \in DOMAIN items : items[i].score = m}
  <2>1. A \subseteq Nat /\ A # {}
        BY <1>1
  <2>2. PICK i \in A : \A k \in A : i <= k
    <3> HIDE DEF A
    <3> QED
        BY <2>1, LeastExists
  <2>3. i \in DOMAIN items /\ items[i].score = m /\ i \in Nat
        BY <2>1
  <2>4. ASSUME NEW j \in 1..(i-1) PROVE items[j].score < items[i].score
    <3>1. j \in DOMAIN items /\ ~(i <= j)
          BY <1>1, <2>3
    <3>2. items[j].score # m /\ items[j].score <= m
          BY <1>5, <2>2, <3>1
    <3> QED
        BY <1>2, <2>3, <3>1, <3>2
  <2> QED
      BY <1>5, <2>3, <2>4
<1>7. c \in DOMAIN items /\ Top(c)
  <2> HIDE DEF Top
  <2> QED
      BY <1>6
<1>8. CombinedLabel(items) = l
      BY DEF CombinedLabel
<1> HIDE DEF c, scores
<1>9. l \in LabelsOf(items) /\ items[c] = Score(l, items[c].score)
      BY <1>7, ScoredAgain
<1>10. ASSUME NEW k \in LabelsOf(items)
       PROVE  /\ FirstBest(items, k) \in DOMAIN items
              /\ items[FirstBest(items, k)].label = k
              /\ items[FirstBest(items, k)].score = Best(items, k)
              /\ Best(items, k) \in Nat /\ Best(items, k) <= items[c].score
              /\ Best(items, k) = items[c].score => c <= FirstBest(items, k)
  <2> DEFINE f == FirstBest(items, k)
  <2>1. f \in DOMAIN items /\ items[f] = Score(k, Best(items, k))
        BY FirstPlaces
  <2>2. items[f].label = k /\ items[f].score = Best(items, k)
        BY <2>1 DEF Score
  <2>3. items[f].score <= items[c].score /\ items[f].score \in Nat
        BY <1>2, <1>7, <2>1
  <2>4. ASSUME items[f].score = items[c].score PROVE c <= f
    <3>1. f \notin 1..(c-1)
          BY <1>2, <1>7, <2>1, <2>4
    <3> HIDE DEF f
    <3> QED
        BY <1>1, <1>7, <2>1, <3>1
  <2> HIDE DEF f
  <2>5. /\ f \in DOMAIN items /\ items[f].label = k /\ items[f].score = Best(items, k)
        /\ Best(items, k) \in Nat /\ Best(items, k) <= items[c].score
        /\ Best(items, k) = items[c].score => c <= f
        BY <2>1, <2>2, <2>3, <2>4
  <2> QED
      BY <2>5 DEF f
<1>11. Best(items, l) = items[c].score
  <2>1. items[c].score <= Best(items, l)
        BY <1>7, <1>9, BestIsGreatest
  <2> QED
      BY <1>2, <1>7, <1>9, <1>10, <2>1
<1>12. FirstBest(items, l) = c
  <2>1. c <= FirstBest(items, l) /\ FirstBest(items, l) \in DOMAIN items
        BY <1>9, <1>10, <1>11
  <2>2. c \notin 1..(FirstBest(items, l) - 1)
        BY <1>9, <1>11, FirstPlaces
  <2> HIDE DEF l
  <2> QED
      BY <1>1, <1>7, <2>1, <2>2
<1>13. ASSUME NEW k \in LabelsOf(items), k # l
       PROVE  \/ Best(items, k) < Best(items, l)
              \/ Best(items, k) = Best(items, l) /\ place[l] < place[k]
  <2>1. Best(items, k) \in Nat /\ Best(items, k) <= Best(items, l) /\ Best(items, l) \in Nat
        BY <1>9, <1>10, <1>11
  <2>2. ASSUME Best(items, k) = Best(items, l) PROVE place[l] < place[k]
    <3>1. c <= FirstBest(items, k) /\ FirstBest(items, k) # c /\ FirstBest(items, k) \in DOMAIN items
          BY <1>10, <1>11, <1>13, <2>2
    <3>2. c < FirstBest(items, k)
          BY <1>1, <1>7, <3>1
    <3> QED
        BY <1>9, <1>12, <3>2
  <2> QED
      BY <2>1, <2>2
<1> HIDE DEF l
<1>14. IsStrongest(items, place, l)
  <2>1. \A s \in ToSet(items) : s.label \in LabelsOf(items)
        BY DEF LabelsOf
  <2> QED
      BY <1>13, <2>1 DEF IsStrongest
<1>15. \A k \in LabelsOf(items) : place[k] \in Nat
       BY <1>1, <1>10
<1> QED
    BY <1>8, <1>9, <1>14, <1>15, StrongestIsOne

(* _weighted_scores_from_payload puts the strongest label first. *)
LEMMA WeightedIsStrongest ==
  ASSUME NEW T, NEW items \in Seq(T), Usable(items) # <<>>, NEW place,
         \A l \in LabelsOf(Usable(items)) : place[l] = FirstMention(Usable(items), l)
  PROVE  CombinedLabel(TopOf(WeightedScores(items))) = Strongest(Usable(items), place)
<1> DEFINE named == Usable(items)
           X == {Score(s.label, Best(named, s.label)) : s \in ToSet(named)}
           R == {p \in X \X X :
                   \/ p[1].score > p[2].score
                   \/ /\ p[1].score = p[2].score
                      /\ FirstMention(named, p[1].label) < FirstMention(named, p[2].label)}
           list == InOrder(X, R)
           n == Cardinality(X)
<1>1. named \in Seq(Scored) /\ named # <<>>
      BY UsableAreScored
<1>2. WeightedScores(items) = list
      BY DEF WeightedScores, ByStrength
<1> HIDE DEF named
<1>3. DOMAIN named = 1..Len(named) /\ Len(named) \in Nat /\ 1 \in DOMAIN named
      BY <1>1
<1>4. /\ \A s \in ToSet(named) : s.label \in LabelsOf(named) /\ Score(s.label, Best(named, s.label)) \in X
      /\ \A x \in X : /\ x.label \in LabelsOf(named) /\ x.score = Best(named, x.label)
                      /\ x = Score(x.label, Best(named, x.label))
      BY DEF LabelsOf, Score
<1>5. IsFiniteSet(X) /\ X # {}
  <2>1. IsFiniteSet(1..Len(named))
        BY <1>3, FS_Interval
  <2> DEFINE f == [i \in 1..Len(named) |-> Score(named[i].label, Best(named, named[i].label))]
  <2>2. f \in Surjection(1..Len(named), X)
        BY <1>3 DEF Surjection, ToSet
  <2>3. named[1] \in ToSet(named)
        BY <1>3 DEF ToSet
  <2>4. X # {}
        BY <1>4, <2>3
  <2> HIDE DEF X, f
  <2> QED
      BY <2>1, <2>2, <2>4, FS_Surjection
<1>6. \A x, y \in X : (<<x, y>> \in R) <=> \/ x.score > y.score
                                           \/ /\ x.score = y.score
                                              /\ FirstMention(named, x.label) < FirstMention(named, y.label)
      OBVIOUS
<1>7. \A x \in X : /\ x.score \in Nat /\ FirstMention(named, x.label) \in Nat
                   /\ named[FirstMention(named, x.label)].label = x.label
      BY <1>1, <1>3, <1>4, BestIsGreatest, FirstPlaces
<1> HIDE DEF X, R
<1>8. \A x, y \in X : x # y => FirstMention(named, x.label) # FirstMention(named, y.label)
      BY <1>4, <1>7
<1>9. IsOrder(R, X)
  <2> DEFINE sc == [x \in X |-> x.score]
             fm == [x \in X |-> FirstMention(named, x.label)]
  <2>1. /\ \A x, y \in X : (<<x, y>> \in R) <=> \/ sc[x] > sc[y]
                                                \/ sc[x] = sc[y] /\ fm[x] < fm[y]
        /\ \A x \in X : sc[x] \in Nat /\ fm[x] \in Nat
        /\ \A x, y \in X : x # y => fm[x] # fm[y]
        BY <1>6, <1>7, <1>8
  <2> HIDE DEF sc, fm
  <2>2. \A x, y \in X : <<x, y>> \in R => <<y, x>> \notin R
        BY <2>1
  <2>3. \A x, y \in X : x # y => <<x, y>> \in R \/ <<y, x>> \in R
        BY <2>1
  <2>4. \A x, y, z \in X : <<x, y>> \in R /\ <<y, z>> \in R => <<x, z>> \in R
        BY <2>1
  <2> QED
      BY <2>2, <2>3, <2>4 DEF IsOrder
<1>10. /\ n \in Nat
       /\ list \in [1..n -> X]
       /\ \A x \in X : \E i \in 1..n : list[i] = x
       /\ \A i, j \in 1..n : i < j => <<list[i], list[j]>> \in R
       BY <1>5, <1>9, InOrderLists
<1> HIDE DEF list, n
<1>11. 1 \in 1..n
  <2>1. PICK i \in 1..n : TRUE
        BY <1>5, <1>10
  <2> QED
      BY <1>10, <2>1
<1> DEFINE l == list[1].label
           top == TopOf(list)
<1>12. list \in Seq(X) /\ Len(list) = n /\ DOMAIN list = 1..n
       BY <1>10
<1>13. /\ top \in Seq(X) /\ 1 \in DOMAIN top /\ DOMAIN top = 1..Len(top)
       /\ \A i \in DOMAIN top : i \in 1..n /\ top[i] = list[i]
  <2>1. Len(list) > 0
        BY <1>10, <1>11, <1>12
  <2> QED
      BY <1>12, <2>1, TopOfList
<1> HIDE DEF top
<1>14. \A i \in 1..n : list[i] \in X /\ list[i].score \in Nat /\ list[i].score <= list[1].score
  <2> SUFFICES ASSUME NEW i \in 1..n
               PROVE  list[i] \in X /\ list[i].score \in Nat /\ list[i].score <= list[1].score
      OBVIOUS
  <2>1. list[i] \in X /\ list[1] \in X /\ list[i].score \in Nat /\ list[1].score \in Nat
        BY <1>7, <1>10, <1>11
  <2>2. ASSUME 1 < i PROVE list[i].score <= list[1].score
    <3>1. <<list[1], list[i]>> \in R
          BY <1>10, <1>11, <2>2
    <3>2. list[1].score > list[i].score \/ list[1].score = list[i].score
          BY <1>6, <2>1, <3>1
    <3> QED
        BY <2>1, <3>2
  <2>3. i = 1 \/ 1 < i
        BY <1>10
  <2> QED
      BY <2>1, <2>2, <2>3
<1>15. CombinedLabel(top) = l
  <2> DEFINE Top(i) == /\ \A j \in DOMAIN top : top[j].score <= top[i].score
                       /\ \A j \in 1..(i-1) : top[j].score < top[i].score
  <2>1. CombinedLabel(top) = top[CHOOSE i \in DOMAIN top : Top(i)].label
        BY <1>13 DEF CombinedLabel
  <2>2. Top(1)
    <3>1. 1..(1-1) = {}
          OBVIOUS
    <3> QED
        BY <1>13, <1>14, <3>1
  <2>3. ASSUME NEW i \in DOMAIN top, Top(i) PROVE i = 1
    <3>1. i \in Nat /\ i >= 1
          BY <1>10, <1>13
    <3>2. ~(1 \in 1..(i-1))
          BY <1>13, <1>14, <2>3
    <3> QED
        BY <3>1, <3>2
  <2> HIDE DEF Top
  <2>4. (CHOOSE i \in DOMAIN top : Top(i)) = 1
        BY <1>13, <2>2, <2>3
  <2> QED
      BY <1>13, <2>1, <2>4
<1>16. list[1] \in X /\ l \in LabelsOf(named) /\ list[1].score = Best(named, l)
       BY <1>4, <1>10, <1>11
<1>17. IsStrongest(named, place, l)
  <2> SUFFICES ASSUME NEW s \in ToSet(named), s.label # l
               PROVE  \/ Best(named, s.label) < Best(named, l)
                      \/ Best(named, s.label) = Best(named, l) /\ place[l] < place[s.label]
      BY DEF IsStrongest
  <2> DEFINE x == Score(s.label, Best(named, s.label))
  <2>1. x \in X /\ s.label \in LabelsOf(named)
        BY <1>4
  <2>2. x.label = s.label /\ x.score = Best(named, s.label)
        BY DEF Score
  <2> HIDE DEF x
  <2>3. PICK i \in 1..n : list[i] = x
        BY <1>10, <2>1
  <2>4. i # 1
        BY <2>2, <2>3
  <2>5. <<list[1], x>> \in R
    <3>1. 1 < i
          BY <1>10, <2>4
    <3> QED
        BY <1>10, <1>11, <2>3, <3>1
  <2>6. \/ list[1].score > x.score
        \/ /\ list[1].score = x.score
           /\ FirstMention(named, l) < FirstMention(named, s.label)
        BY <1>6, <1>16, <2>1, <2>2, <2>5
  <2>7. place[l] = FirstMention(named, l) /\ place[s.label] = FirstMention(named, s.label)
        BY <1>16, <2>1 DEF named
  <2>8. list[1].score \in Nat /\ x.score \in Nat
        BY <1>7, <1>16, <2>1
  <2> QED
      BY <1>16, <2>2, <2>6, <2>7, <2>8
<1>18. \A k \in LabelsOf(named) : place[k] \in Nat
  <2>1. \A k \in LabelsOf(named) : place[k] = FirstMention(named, k)
        BY DEF named
  <2>2. \A k \in LabelsOf(named) : FirstMention(named, k) \in DOMAIN named
        BY <1>1, FirstPlaces
  <2>3. DOMAIN named \subseteq Nat
        BY <1>3
  <2> QED
      BY <2>1, <2>2, <2>3
<1> HIDE DEF l
<1>19. Strongest(named, place) = l
       BY <1>1, <1>16, <1>17, <1>18, StrongestIsOne
<1> QED
    BY <1>2, <1>15, <1>19 DEF named, top

(* StrongestLabelWins for every list of labels and scores a model may      *)
(* answer with and every CLASSIFIER_TOP_K: what _weighted_scores_from_     *)
(* payload removes, sorts and cuts, and what _classification_from_         *)
(* transformers_output filters, leaves _combine_weighted_labels with the   *)
(* strongest label.                                                        *)
THEOREM StrongestWins == Spec => []StrongestLabelWins
<1>1. IInv => StrongestLabelWins
  <2> SUFFICES ASSUME IInv, work # Nothing, mode # "heuristic" PROVE StrongestLabelWins
      BY DEF StrongestLabelWins
  <2> DEFINE reply == work.reply
  <2>1. reply \in Replies /\ work.text \in Texts /\ mode \in Modes
        BY DEF IInv, Typed, Works, WorkNeedsModel
  <2>2. mode = "transformers" \/ mode = "ollama"
        BY <2>1 DEF Modes
  <2>3. reply.items \in Seq([label : STRING, score : Nat])
        BY <2>1, ChainAssumption
  <2>4. Classify[mode][work.text][reply].label = CombinedLabel(ScoresFor(mode, work.text, reply))
        BY <2>1 DEF Classify, Classified
  <2>5. CASE mode = "transformers"
    <3> DEFINE named == Usable(TopOf(reply.items))
               place == [l \in LabelsOf(named) |-> FirstBest(named, l)]
    <3>1. named \in Seq(Scored)
          BY <2>3, TopOfList, UsableAreScored
    <3>2. ScoresFor(mode, work.text, reply) = named
          BY <2>5 DEF ScoresFor
    <3>3. named # <<>> => CombinedLabel(named) = Strongest(named, place)
      <4> HIDE DEF named
      <4> QED
          BY <3>1, CombinedIsStrongest
    <3> QED
        BY <2>4, <2>5, <3>2, <3>3 DEF StrongestLabelWins, LabelsOf
  <2>6. CASE mode = "ollama"
    <3> DEFINE named == Usable(reply.items)
               place == [l \in LabelsOf(named) |-> FirstMention(named, l)]
    <3>1. named # <<>> => ScoresFor(mode, work.text, reply) = TopOf(WeightedScores(reply.items))
          BY <2>6 DEF ScoresFor
    <3>2. named # <<>> => CombinedLabel(TopOf(WeightedScores(reply.items))) = Strongest(named, place)
          BY <2>3, WeightedIsStrongest
    <3> QED
        BY <2>4, <2>6, <3>1, <3>2 DEF StrongestLabelWins, LabelsOf
  <2> QED
      BY <2>2, <2>5, <2>6
<1> QED
    BY <1>1, Invariance, PTL

----------------------------------------------------------------------------
(* PromptContext: the working-memory window.                               *)

(* The variables, typed; prompts apart. *)
WindowTyped ==
  /\ window \subseteq Entries /\ IsFiniteSet(window) /\ Cardinality(window) <= MaxEntries
  /\ executed \subseteq Entries /\ late \subseteq Entries
  /\ stage \in [Requests -> {"idle", "prompted", "user", "assistant", "done"}]
  /\ tries \in [Requests -> 0..Attempts]
  /\ stamp \in [Requests -> 0..MaxStamp]

(* A request has its time stamp from the start of its post-processing on,  *)
(* and all its entries, wherever they are, were made with this stamp.      *)
StampedOnce ==
  /\ \A r \in Requests : stage[r] \in {"idle", "prompted"} => stamp[r] = 0
  /\ \A r \in Requests : stage[r] \in Roles => stamp[r] > 0
  /\ \A e \in executed \cup late :
       /\ stamp[e.turn] > 0
       /\ e.at = stamp[e.turn] + (IF e.role = "assistant" THEN 1 ELSE 0)

(* What was pushed is in the window, or left it for entries that are not   *)
(* older.                                                                  *)
WindowIsLatest ==
  /\ window \subseteq executed
  /\ \A e \in executed \ window :
       /\ Cardinality(window) = MaxEntries
       /\ \A f \in window : f.at >= e.at

WindowInv == WindowTyped /\ StampedOnce /\ WindowIsLatest

(* The script of a push, of an old entry or a new one, keeps the window    *)
(* the latest of what was pushed: what it trims is not younger than what   *)
(* stays.                                                                  *)
LEMMA PushKeepsWindow ==
  ASSUME WindowTyped, WindowIsLatest, NEW e \in Entries, PushScript(e)
  PROVE  /\ window' \subseteq Entries /\ IsFiniteSet(window') /\ Cardinality(window') <= MaxEntries
         /\ executed' \subseteq Entries
         /\ WindowIsLatest'
<1> DEFINE all == window \cup {e}
<1>1. /\ window' \subseteq all /\ Cardinality(window') = Min({MaxEntries, Cardinality(all)})
      /\ \A x \in all \ window', f \in window' : ~Before(f, x)
      BY DEF PushScript, Trim
<1>2. /\ IsFiniteSet(all) /\ Cardinality(all) \in Nat
      /\ Cardinality(window) \in Nat /\ Cardinality(all) >= Cardinality(window)
      /\ e \notin window => Cardinality(all) = Cardinality(window) + 1
  <2>1. IsFiniteSet(window)
        BY DEF WindowTyped
  <2>2. /\ IsFiniteSet(all)
        /\ Cardinality(all) = IF e \in window THEN Cardinality(window) ELSE Cardinality(window) + 1
        BY <2>1, FS_AddElement
  <2>3. Cardinality(window) \in Nat
        BY <2>1, FS_CardinalityType
  <2> QED
      BY <2>2, <2>3
<1>3. MaxEntries \in Nat
      BY PromptAssumption
<1>4. Cardinality(window') = IF MaxEntries <= Cardinality(all) THEN MaxEntries ELSE Cardinality(all)
  <2>1. MaxEntries \in Int /\ Cardinality(all) \in Int
        BY <1>2, <1>3
  <2> QED
      BY <1>1, <2>1, MinOfTwo
<1>5. IsFiniteSet(window') /\ Cardinality(window') <= MaxEntries
      BY <1>1, <1>2, <1>3, <1>4, FS_Subset
<1>6. all \subseteq Entries /\ window' \subseteq Entries
      BY <1>1 DEF WindowTyped
<1>7. executed' = executed \cup {e} /\ executed' \subseteq Entries
      BY DEF PushScript, WindowTyped
<1>8. window' \subseteq executed'
      BY <1>1, <1>7 DEF WindowIsLatest
<1>9. ASSUME NEW x \in all \ window'
      PROVE  Cardinality(window') = MaxEntries /\ \A f \in window' : f.at >= x.at
  <2>1. window' # all
        BY <1>9
  <2>2. Cardinality(window') # Cardinality(all)
        BY <1>1, <1>2, <2>1, FS_Subset
  <2>3. Cardinality(window') = MaxEntries
        BY <1>2, <1>3, <1>4, <2>2
  <2>4. ASSUME NEW f \in window' PROVE f.at >= x.at
    <3>1. ~Before(f, x)
          BY <1>1, <1>9
    <3>2. f.at \in Int /\ x.at \in Int
          BY <1>6, <1>9, PromptAssumption DEF Entries
    <3> QED
        BY <3>1, <3>2 DEF Before
  <2> QED
      BY <2>3, <2>4
<1>10. ASSUME NEW x \in executed \ window, x # e
       PROVE  Cardinality(window') = MaxEntries /\ \A f \in window' : f.at >= x.at
  <2>1. Cardinality(window) = MaxEntries /\ \A f \in window : f.at >= x.at
        BY <1>10 DEF WindowIsLatest
  <2>2. Cardinality(window') = MaxEntries
        BY <1>2, <1>3, <1>4, <2>1
  <2>3. CASE e \in window' /\ e \notin window
    <3>1. Cardinality(all) = MaxEntries + 1
          BY <1>2, <2>1, <2>3
    <3>2. PICK g \in all : g \notin window'
          BY <1>1, <1>3, <2>2, <3>1
    <3>3. g \in window
          BY <2>3, <3>2
    <3>4. e.at >= g.at /\ g.at >= x.at
          BY <1>9, <2>1, <2>3, <3>2, <3>3
    <3>5. e.at \in Int /\ g.at \in Int /\ x.at \in Int
          BY <1>6, <3>2, PromptAssumption DEF Entries, WindowTyped
    <3> QED
        BY <1>1, <2>1, <2>2, <3>4, <3>5
  <2>4. CASE e \notin window' \/ e \in window
        BY <1>1, <2>1, <2>2, <2>4
  <2> QED
      BY <2>3, <2>4
<1>11. ASSUME NEW x \in executed' \ window'
       PROVE  Cardinality(window') = MaxEntries /\ \A f \in window' : f.at >= x.at
       BY <1>7, <1>9, <1>10, <1>11
<1> QED
    BY <1>5, <1>6, <1>7, <1>8, <1>11 DEF WindowIsLatest

(* The entry of a push is made with the stamp of its turn. *)
LEMMA EntryIsStamped ==
  ASSUME WindowTyped, StampedOnce, NEW r \in Requests, stage[r] \in Roles
  PROVE  /\ EntryOf(r) \in Entries
         /\ EntryOf(r).turn = r /\ EntryOf(r).role = stage[r]
         /\ EntryOf(r).at = stamp[r] + (IF stage[r] = "assistant" THEN 1 ELSE 0)
<1>1. stamp[r] \in 0..MaxStamp /\ stamp[r] > 0 /\ MaxStamp \in Nat
      BY PromptAssumption DEF WindowTyped, StampedOnce
<1>2. stamp[r] \in 1..MaxStamp + 1 /\ stamp[r] + 1 \in 1..MaxStamp + 1 /\ stamp[r] + 0 = stamp[r]
      BY <1>1
<1> QED
    BY <1>2 DEF EntryOf, Entries, Roles

LEMMA InitWindowInv == PromptInit => WindowInv
<1> SUFFICES ASSUME PromptInit PROVE WindowInv
    OBVIOUS
<1>1. WindowTyped
      BY PromptAssumption, FS_EmptySet DEF PromptInit, WindowTyped
<1>2. StampedOnce
      BY DEF PromptInit, StampedOnce, Roles
<1>3. WindowIsLatest
      BY DEF PromptInit, WindowIsLatest
<1> QED
    BY <1>1, <1>2, <1>3 DEF WindowInv

(* The steps that push nothing. *)
LEMMA QuietStep ==
  ASSUME WindowInv, NEW r \in Requests,
         Ask(r) \/ Fail(r) \/ StartPostProcess(r) \/ PushTimesOut(r) \/ PushGivenUp(r) \/ Crash(r)
  PROVE  WindowInv'
<1> USE DEF WindowInv
<1>1. window' = window /\ executed' = executed
      BY DEF Ask, Fail, StartPostProcess, PushTimesOut, PushGivenUp, Crash
<1>2. WindowIsLatest'
      BY <1>1 DEF WindowIsLatest
<1>3. /\ window' \subseteq Entries /\ IsFiniteSet(window') /\ Cardinality(window') <= MaxEntries
      /\ executed' \subseteq Entries
      BY <1>1 DEF WindowTyped
<1>4. ASSUME stamp' = stamp, tries' \in [Requests -> 0..Attempts],
             NEW new \in {"idle", "prompted", "user", "assistant", "done"},
             stage' = [stage EXCEPT ![r] = new],
             late' \subseteq Entries,
             new \in {"idle", "prompted"} => stamp[r] = 0,
             new \in Roles => stamp[r] > 0,
             \A e \in late' \ late : e.turn = r /\ stamp[r] > 0 /\
               e.at = stamp[r] + (IF e.role = "assistant" THEN 1 ELSE 0)
      PROVE  WindowInv'
  <2>1. WindowTyped'
        BY <1>3, <1>4 DEF WindowTyped
  <2>2. StampedOnce'
        BY <1>1, <1>4 DEF WindowTyped, StampedOnce
  <2> QED
      BY <1>2, <2>1, <2>2
<1>5. CASE Ask(r)
      BY <1>4, <1>5 DEF Ask, WindowTyped, StampedOnce, Roles
<1>6. CASE Fail(r)
      BY <1>4, <1>6 DEF Fail, WindowTyped, StampedOnce, Roles
<1>7. CASE Crash(r)
      BY <1>4, <1>7 DEF Crash, WindowTyped, StampedOnce, Roles
<1>8. CASE PushGivenUp(r)
  <2>1. Attempts \in 0..Attempts
        BY PromptAssumption
  <2>2. tries' \in [Requests -> 0..Attempts]
        BY <1>8, <2>1 DEF PushGivenUp, NextPush, WindowTyped
  <2>3. CASE stage[r] = "user"
        BY <1>4, <1>8, <2>2, <2>3 DEF PushGivenUp, NextPush, WindowTyped, StampedOnce, Roles
  <2>4. CASE stage[r] = "assistant"
        BY <1>4, <1>8, <2>2, <2>4 DEF PushGivenUp, NextPush, WindowTyped, StampedOnce, Roles
  <2> QED
      BY <1>8, <2>3, <2>4 DEF PushGivenUp, Roles
<1>9. CASE PushTimesOut(r)
  <2>1. stage[r] \in Roles /\ tries[r] > 0
        BY <1>9 DEF PushTimesOut, Pushing
  <2>2. tries[r] - 1 \in 0..Attempts
        BY <2>1, PromptAssumption DEF WindowTyped
  <2>3. tries' \in [Requests -> 0..Attempts]
        BY <1>9, <2>2 DEF PushTimesOut, WindowTyped
  <2>4. late' = late \cup {EntryOf(r)}
        BY <1>9 DEF PushTimesOut
  <2>5. /\ EntryOf(r) \in Entries /\ EntryOf(r).turn = r /\ EntryOf(r).role = stage[r]
        /\ EntryOf(r).at = stamp[r] + (IF stage[r] = "assistant" THEN 1 ELSE 0)
        /\ stamp[r] > 0
        BY <2>1, EntryIsStamped DEF StampedOnce
  <2>6. late' \subseteq Entries
        BY <2>4, <2>5 DEF WindowTyped
  <2>7. \A e \in late' \ late : e = EntryOf(r)
        BY <2>4
  <2>8. stage' = [stage EXCEPT ![r] = stage[r]] /\ stamp' = stamp
        BY <1>9 DEF PushTimesOut, WindowTyped
  <2>9. stage[r] \in {"user", "assistant"}
        BY <2>1 DEF Roles
  <2> QED
      BY <1>4, <2>1, <2>3, <2>5, <2>6, <2>7, <2>8, <2>9
<1>10. CASE StartPostProcess(r)
  <2>1. PICK now \in 1..MaxStamp : stamp' = [stamp EXCEPT ![r] = now]
        BY <1>10 DEF StartPostProcess
  <2>2. now \in 0..MaxStamp /\ now > 0
        BY PromptAssumption
  <2>3. /\ stage[r] = "prompted" /\ stage' = [stage EXCEPT ![r] = "user"]
        /\ late' = late /\ tries' = tries
        BY <1>10 DEF StartPostProcess
  <2>4. WindowTyped'
        BY <1>3, <2>1, <2>2, <2>3 DEF WindowTyped
  <2>5. stamp[r] = 0
        BY <2>3 DEF StampedOnce
  <2>6. \A e \in executed \cup late : e.turn \in Requests /\ e.turn # r
        BY <2>5 DEF WindowTyped, StampedOnce, Entries
  <2>7. \A e \in executed \cup late : stamp'[e.turn] = stamp[e.turn]
        BY <2>1, <2>6 DEF WindowTyped
  <2>8. \A s \in Requests : s # r => stamp'[s] = stamp[s] /\ stage'[s] = stage[s]
        BY <2>1, <2>3 DEF WindowTyped
  <2>9. stamp'[r] = now /\ stage'[r] = "user"
        BY <2>1, <2>3 DEF WindowTyped
  <2>10. StampedOnce'
        BY <1>1, <2>2, <2>3, <2>7, <2>8, <2>9 DEF StampedOnce
  <2> QED
      BY <1>2, <2>4, <2>10
<1> QED
    BY <1>5, <1>6, <1>7, <1>8, <1>9, <1>10

(* A push, whoever executes it, of an entry that was made with its stamp. *)
LEMMA PushStep ==
  ASSUME WindowInv, NEW e \in Entries, PushScript(e),
         stamp[e.turn] > 0, e.at = stamp[e.turn] + (IF e.role = "assistant" THEN 1 ELSE 0),
         stamp' = stamp, late' \subseteq late, tries' \in [Requests -> 0..Attempts],
         stage' \in [Requests -> {"idle", "prompted", "user", "assistant", "done"}],
         \A r \in Requests : stage'[r] # stage[r] =>
           stage[r] \in Roles /\ stage'[r] \notin {"idle", "prompted"}
  PROVE  WindowInv'
<1> USE DEF WindowInv
<1>1. /\ window' \subseteq Entries /\ IsFiniteSet(window') /\ Cardinality(window') <= MaxEntries
      /\ executed' \subseteq Entries
      /\ WindowIsLatest'
      BY PushKeepsWindow
<1>2. WindowTyped'
      BY <1>1 DEF WindowTyped
<1>3. executed' = executed \cup {e}
      BY DEF PushScript
<1>4. \A r \in Requests : stage'[r] \in {"idle", "prompted"} => stamp[r] = 0
      BY DEF StampedOnce
<1>5. \A r \in Requests : stage'[r] \in Roles => stamp[r] > 0
      BY DEF StampedOnce
<1>6. StampedOnce'
      BY <1>3, <1>4, <1>5 DEF StampedOnce
<1> QED
    BY <1>1, <1>2, <1>6

LEMMA NextWindowInv == WindowInv /\ [PromptNext]_promptVars => WindowInv'
<1> SUFFICES ASSUME WindowInv, [PromptNext]_promptVars PROVE WindowInv'
    OBVIOUS
<1>1. CASE UNCHANGED promptVars
      BY <1>1 DEF promptVars, WindowInv, WindowTyped, StampedOnce, WindowIsLatest
<1>2. ASSUME NEW r \in Requests, Push(r) \/ PushReplyLost(r) PROVE WindowInv'
  <2>1. /\ stage[r] \in Roles /\ tries[r] > 0 /\ PushScript(EntryOf(r))
        /\ late' = late /\ stamp' = stamp
        BY <1>2 DEF Push, PushReplyLost, Pushing
  <2>2. /\ EntryOf(r) \in Entries /\ EntryOf(r).turn = r /\ EntryOf(r).role = stage[r]
        /\ EntryOf(r).at = stamp[r] + (IF stage[r] = "assistant" THEN 1 ELSE 0)
        /\ stamp[r] > 0
        BY <2>1, EntryIsStamped DEF StampedOnce, WindowInv
  <2>3. tries[r] - 1 \in 0..Attempts /\ Attempts \in 0..Attempts
        BY <2>1, PromptAssumption DEF WindowInv, WindowTyped
  <2>4. tries' \in [Requests -> 0..Attempts]
        BY <1>2, <2>3 DEF Push, PushReplyLost, NextPush, WindowInv, WindowTyped
  <2>5. stage' \in [Requests -> {"idle", "prompted", "user", "assistant", "done"}]
        BY <1>2 DEF Push, PushReplyLost, NextPush, WindowInv, WindowTyped
  <2>6. \A s \in Requests : stage'[s] # stage[s] =>
          stage[s] \in Roles /\ stage'[s] \notin {"idle", "prompted"}
        BY <1>2, <2>1 DEF Push, PushReplyLost, NextPush, WindowInv, WindowTyped
  <2> QED
      BY <2>1, <2>2, <2>4, <2>5, <2>6, PushStep
<1>3. CASE LatePush
  <2>1. PICK e \in late : PushScript(e) /\ late' = late \ {e} /\ UNCHANGED <<stage, tries, stamp, prompt>>
        BY <1>3 DEF LatePush
  <2>2. /\ e \in Entries /\ stamp[e.turn] > 0
        /\ e.at = stamp[e.turn] + (IF e.role = "assistant" THEN 1 ELSE 0)
        BY DEF WindowInv, WindowTyped, StampedOnce
  <2>3. /\ tries' \in [Requests -> 0..Attempts] /\ late' \subseteq late
        /\ stage' \in [Requests -> {"idle", "prompted", "user", "assistant", "done"}]
        BY <2>1 DEF WindowInv, WindowTyped
  <2> QED
      BY <2>1, <2>2, <2>3, PushStep
<1>4. CASE ExpireWindow
      BY <1>4, PromptAssumption, FS_EmptySet
      DEF ExpireWindow, WindowInv, WindowTyped, StampedOnce, WindowIsLatest
<1> QED
    BY <1>1, <1>2, <1>3, <1>4, QuietStep DEF PromptNext

(* What RecentTurns gives, of a window that is the latest of what was      *)
(* pushed.                                                                 *)
LEMMA RecentAreLatest ==
  ASSUME WindowInv, NEW budget \in Nat, NEW turns \in RecentTurns(window, budget)
  PROVE  /\ Len(turns) <= budget
         /\ \A i, j \in DOMAIN turns : i < j =>
              /\ turns[i].at <= turns[j].at
              /\ <<turns[i].turn, turns[i].role>> # <<turns[j].turn, turns[j].role>>
         /\ \A e \in executed \ ToSet(turns) :
              /\ Len(turns) = Min({budget, MaxEntries})
              /\ \A f \in ToSet(turns) : f.at >= e.at
<1> USE DEF WindowInv
<1> DEFINE n == Min({budget, Cardinality(window)})
<1>1. /\ turns \in [1..n -> window] /\ IsInjective(turns)
      /\ \A i, j \in DOMAIN turns : i < j => turns[i].at <= turns[j].at
      /\ \A e \in window : e \in Range(turns) \/ (\A i \in DOMAIN turns : e.at <= turns[i].at)
      BY DEF RecentTurns
<1>2. IsFiniteSet(window) /\ Cardinality(window) \in Nat /\ Cardinality(window) <= MaxEntries
      BY FS_CardinalityType DEF WindowTyped
<1>3. MaxEntries \in Nat /\ MaxEntries \in Int /\ budget \in Int /\ Cardinality(window) \in Int
      BY <1>2, PromptAssumption
<1>4. n = IF budget <= Cardinality(window) THEN budget ELSE Cardinality(window)
      BY <1>3, MinOfTwo
<1>5. n \in Nat /\ n <= budget
      BY <1>2, <1>4
<1> HIDE DEF n
<1>6. Len(turns) = n /\ DOMAIN turns = 1..n
      BY <1>1, <1>5
<1>7. ASSUME NEW i \in DOMAIN turns, NEW j \in DOMAIN turns, i < j
      PROVE  <<turns[i].turn, turns[i].role>> # <<turns[j].turn, turns[j].role>>
  <2>1. turns[i] \in window /\ turns[j] \in window /\ turns[i] # turns[j]
        BY <1>1, <1>5, <1>6, <1>7 DEF IsInjective
  <2>2. turns[i] \in Entries /\ turns[j] \in Entries
        BY <2>1 DEF WindowTyped
  <2>3. SUFFICES ASSUME turns[i].turn = turns[j].turn, turns[i].role = turns[j].role PROVE FALSE
        OBVIOUS
  <2>4. turns[i].at = turns[j].at
        BY <2>1, <2>3 DEF StampedOnce, WindowIsLatest
  <2> QED
      BY <2>1, <2>2, <2>3, <2>4 DEF Entries
<1>8. ToSet(turns) \subseteq window
      BY <1>1, <1>5 DEF ToSet
<1>9. ASSUME NEW e \in executed \ ToSet(turns)
      PROVE  Len(turns) = Min({budget, MaxEntries}) /\ \A f \in ToSet(turns) : f.at >= e.at
  <2>1. CASE e \in window
    <3>1. turns \in [1..n -> window \ {e}]
          BY <1>1, <1>5, <1>9 DEF ToSet
    <3>2. turns \in Injection(1..n, window \ {e})
          BY <1>1, <3>1 DEF Injection
    <3>3. IsFiniteSet(window \ {e}) /\ Cardinality(window \ {e}) = Cardinality(window) - 1
          BY <1>2, <2>1, FS_RemoveElement
    <3>4. Cardinality(1..n) <= Cardinality(window) - 1
          BY <3>2, <3>3, FS_Injection
    <3>5. Cardinality(1..n) = n
      <4>1. 1 \in Int /\ n \in Int
            BY <1>5
      <4>2. Cardinality(1..n) = IF 1 > n THEN 0 ELSE n - 1 + 1
            BY <4>1, FS_Interval
      <4> QED
          BY <1>5, <4>2
    <3>6. n = budget /\ budget <= MaxEntries
          BY <1>2, <1>3, <1>4, <3>4, <3>5
    <3>7. Min({budget, MaxEntries}) = budget
          BY <1>3, <3>6, MinOfTwo
    <3>8. e.at \in Int /\ \A f \in window : f.at \in Int
          BY <2>1, PromptAssumption DEF WindowTyped, Entries
    <3>9. e \notin Range(turns)
          BY <1>9 DEF Range, ToSet
    <3>10. \A i \in DOMAIN turns : e.at <= turns[i].at
          BY <1>1, <2>1, <3>9
    <3> QED
        BY <1>6, <1>8, <3>6, <3>7, <3>8, <3>10 DEF ToSet
  <2>2. CASE e \notin window
    <3>1. Cardinality(window) = MaxEntries /\ \A f \in window : f.at >= e.at
          BY <1>9, <2>2 DEF WindowIsLatest
    <3> QED
        BY <1>6, <1>8, <3>1 DEF n
  <2> QED
      BY <2>1, <2>2
<1> QED
    BY <1>1, <1>5, <1>6, <1>7, <1>9

(* Only Ask makes a prompt. *)
LEMMA OnlyAskPrompts ==
  ASSUME WindowInv, [PromptNext]_promptVars, NEW r \in Requests,
         stage[r] # "prompted", stage'[r] = "prompted"
  PROVE  Ask(r)
<1>1. stage' # stage
      OBVIOUS
<1>2. ASSUME NEW s \in Requests, NEW new, stage' = [stage EXCEPT ![s] = new]
      PROVE  s = r /\ new = "prompted"
      BY <1>2 DEF WindowInv, WindowTyped
<1>3. PICK s \in Requests :
        Ask(s) \/ Fail(s) \/ StartPostProcess(s) \/ Push(s) \/ PushGivenUp(s) \/ Crash(s)
      BY <1>1 DEF PromptNext, promptVars, PushReplyLost, PushTimesOut, LatePush, ExpireWindow
<1>4. ~Fail(s)
      BY <1>2 DEF Fail
<1>5. ~StartPostProcess(s)
      BY <1>2 DEF StartPostProcess
<1>6. ~Push(s) /\ ~PushGivenUp(s)
      BY <1>2 DEF Push, PushGivenUp, NextPush
<1>7. ~Crash(s)
      BY <1>2 DEF Crash
<1>8. Ask(s)
      BY <1>3, <1>4, <1>5, <1>6, <1>7
<1> QED
    BY <1>2, <1>8 DEF Ask

(* A request that is at its prompt, and no other one, has one, which was   *)
(* made of what its retrieval met and of at most three turns.              *)
MadeFor(r) ==
  \E q \in Retrievals[r] : \E turns : Len(turns) <= 3 /\ prompt[r] = PromptFor(q, turns)

PromptsAreMade ==
  /\ prompt = [r \in Requests |-> prompt[r]]
  /\ \A r \in Requests : IF stage[r] = "prompted" THEN MadeFor(r) ELSE prompt[r] = NoPrompt

PromptInv == WindowInv /\ PromptsAreMade

LEMMA InitPromptInv == PromptInit => PromptInv
<1>1. PromptInit => PromptsAreMade
      BY DEF PromptInit, PromptsAreMade
<1> QED
    BY <1>1, InitWindowInv DEF PromptInv

(* What Ask does. *)
LEMMA AskMakes ==
  ASSUME PromptInv, NEW r \in Requests, Ask(r)
  PROVE  \E q \in Retrievals[r] :
           \E turns \in RecentTurns(window, WorkingMemoryBudget(q.intensity)) :
             /\ prompt' = [prompt EXCEPT ![r] = PromptFor(q, turns)]
             /\ prompt'[r] = PromptFor(q, turns)
             /\ WorkingMemoryBudget(q.intensity) \in {2, 3}
             /\ Len(turns) <= 3
<1>1. PICK q \in Retrievals[r] :
        \E turns \in RecentTurns(window, WorkingMemoryBudget(q.intensity)) :
          prompt' = [prompt EXCEPT ![r] = PromptFor(q, turns)]
      BY DEF Ask
<1>2. PICK turns \in RecentTurns(window, WorkingMemoryBudget(q.intensity)) :
        prompt' = [prompt EXCEPT ![r] = PromptFor(q, turns)]
      BY <1>1
<1>3. prompt'[r] = PromptFor(q, turns)
      BY <1>2 DEF PromptInv, PromptsAreMade
<1>4. WorkingMemoryBudget(q.intensity) \in {2, 3}
      BY DEF WorkingMemoryBudget
<1>5. WorkingMemoryBudget(q.intensity) \in Nat
      BY <1>4
<1>6. Len(turns) <= WorkingMemoryBudget(q.intensity)
      BY <1>2, <1>5, RecentAreLatest DEF PromptInv
<1>7. Len(turns) <= 3
  <2>1. PICK n \in Nat : turns \in [1..n -> window]
    <3>1. Cardinality(window) \in Nat
          BY FS_CardinalityType DEF PromptInv, WindowInv, WindowTyped
    <3>2. Min({WorkingMemoryBudget(q.intensity), Cardinality(window)}) \in Nat
          BY <1>5, <3>1, MinOfTwo
    <3> QED
        BY <1>2, <3>2 DEF RecentTurns
  <2>2. Len(turns) \in Nat
        BY <2>1
  <2> QED
      BY <1>4, <1>6, <2>2
<1> QED
    BY <1>2, <1>3, <1>4, <1>7

LEMMA NextPromptInv == PromptInv /\ [PromptNext]_promptVars => PromptInv'
<1> SUFFICES ASSUME PromptInv, [PromptNext]_promptVars PROVE PromptInv'
    OBVIOUS
<1>1. WindowInv'
      BY NextWindowInv DEF PromptInv
<1>2. ASSUME prompt' = prompt, stage' = stage PROVE PromptsAreMade'
      BY <1>2 DEF PromptInv, PromptsAreMade, MadeFor
<1>3. ASSUME NEW r \in Requests, NEW new, stage' = [stage EXCEPT ![r] = new],
             NEW p, prompt' = [prompt EXCEPT ![r] = p],
             IF new = "prompted"
             THEN \E q \in Retrievals[r] : \E turns : Len(turns) <= 3 /\ p = PromptFor(q, turns)
             ELSE p = NoPrompt
      PROVE  PromptsAreMade'
  <2>1. stage'[r] = new /\ prompt'[r] = p
        BY <1>3 DEF PromptInv, PromptsAreMade, WindowInv, WindowTyped
  <2>2. \A s \in Requests \ {r} : stage'[s] = stage[s] /\ prompt'[s] = prompt[s]
        BY <1>3 DEF PromptInv, PromptsAreMade, WindowInv, WindowTyped
  <2>3. \A s \in Requests \ {r} : MadeFor(s) => MadeFor(s)'
        BY <2>2 DEF MadeFor
  <2>4. new = "prompted" => MadeFor(r)'
        BY <1>3, <2>1 DEF MadeFor
  <2>5. prompt' = [s \in Requests |-> prompt'[s]]
        BY <1>3 DEF PromptInv, PromptsAreMade
  <2> QED
      BY <1>3, <2>1, <2>2, <2>3, <2>4, <2>5 DEF PromptInv, PromptsAreMade
<1>4. ASSUME NEW r \in Requests, Ask(r) PROVE PromptsAreMade'
  <2>1. PICK q \in Retrievals[r] :
          \E turns \in RecentTurns(window, WorkingMemoryBudget(q.intensity)) :
             /\ prompt' = [prompt EXCEPT ![r] = PromptFor(q, turns)]
             /\ Len(turns) <= 3
        BY <1>4, AskMakes
  <2>2. PICK turns : /\ prompt' = [prompt EXCEPT ![r] = PromptFor(q, turns)]
                     /\ Len(turns) <= 3
        BY <2>1
  <2>3. stage' = [stage EXCEPT ![r] = "prompted"]
        BY <1>4 DEF Ask
  <2> QED
      BY <1>3, <2>2, <2>3
<1>5. ASSUME NEW r \in Requests, Fail(r) \/ StartPostProcess(r) PROVE PromptsAreMade'
  <2>1. PICK new \in {"user", "done"} : stage' = [stage EXCEPT ![r] = new]
        BY <1>5 DEF Fail, StartPostProcess
  <2>2. prompt' = [prompt EXCEPT ![r] = NoPrompt] /\ new # "prompted"
        BY <1>5 DEF Fail, StartPostProcess
  <2> QED
      BY <1>3, <2>1, <2>2
<1>6. ASSUME NEW r \in Requests, Push(r) \/ PushGivenUp(r) \/ Crash(r) PROVE PromptsAreMade'
  <2>1. stage[r] \in Roles /\ prompt' = prompt
        BY <1>6 DEF Push, Pushing, PushGivenUp, Crash
  <2>2. stage[r] # "prompted" /\ prompt[r] = NoPrompt
        BY <2>1 DEF Roles, PromptInv, PromptsAreMade
  <2>3. prompt' = [prompt EXCEPT ![r] = NoPrompt]
        BY <2>1, <2>2 DEF PromptInv, PromptsAreMade
  <2>4. PICK new \in {"assistant", "done"} : stage' = [stage EXCEPT ![r] = new]
        BY <1>6 DEF Push, PushGivenUp, Crash, NextPush
  <2>5. new # "prompted"
        OBVIOUS
  <2> QED
      BY <1>3, <2>3, <2>4, <2>5
<1>7. PromptsAreMade'
      BY <1>2, <1>4, <1>5, <1>6
      DEF PromptNext, promptVars, PushReplyLost, PushTimesOut, LatePush, ExpireWindow
<1> QED
    BY <1>1, <1>7 DEF PromptInv

LEMMA PromptInvariance == PromptSpec => []PromptInv
BY InitPromptInv, NextPromptInv, PTL DEF PromptSpec

(* LatestTurnsAreShown for every number of interactions and attempts and   *)
(* every size of the window: the script of PushWorkingMemory trims the     *)
(* oldest entries only, whatever it is repeated or delayed by, and         *)
(* normalizeWorkingMemoryForPrompt shows the latest of what is left.       *)
THEOREM TurnsAreLatest == PromptSpec => LatestTurnsAreShown
<1> DEFINE Shown == \A r \in Requests : stage[r] = "idle" /\ stage'[r] = "prompted" =>
       LET turns == prompt'[r].turns
           shown == ToSet(turns)
       IN /\ \A i, j \in DOMAIN turns : i < j =>
               /\ turns[i].at <= turns[j].at
               /\ <<turns[i].turn, turns[i].role>> # <<turns[j].turn, turns[j].role>>
          /\ \A e \in executed \ shown :
               /\ Len(turns) = Min({WorkingMemoryBudget(prompt'[r].intensity), MaxEntries})
               /\ \A f \in shown : f.at >= e.at
<1>1. PromptInv /\ [PromptNext]_promptVars => [Shown]_promptVars
  <2> SUFFICES ASSUME PromptInv, [PromptNext]_promptVars, NEW r \in Requests,
                      stage[r] = "idle", stage'[r] = "prompted"
               PROVE  LET turns == prompt'[r].turns
                          shown == ToSet(turns)
                      IN /\ \A i, j \in DOMAIN turns : i < j =>
                              /\ turns[i].at <= turns[j].at
                              /\ <<turns[i].turn, turns[i].role>> # <<turns[j].turn, turns[j].role>>
                         /\ \A e \in executed \ shown :
                              /\ Len(turns) = Min({WorkingMemoryBudget(prompt'[r].intensity), MaxEntries})
                              /\ \A f \in shown : f.at >= e.at
      OBVIOUS
  <2>1. Ask(r)
        BY OnlyAskPrompts DEF PromptInv
  <2>2. PICK q \in Retrievals[r] :
          \E turns \in RecentTurns(window, WorkingMemoryBudget(q.intensity)) :
            /\ prompt'[r] = PromptFor(q, turns)
            /\ WorkingMemoryBudget(q.intensity) \in {2, 3}
        BY <2>1, AskMakes
  <2>3. PICK turns \in RecentTurns(window, WorkingMemoryBudget(q.intensity)) :
          prompt'[r] = PromptFor(q, turns)
        BY <2>2
  <2>4. prompt'[r].turns = turns /\ prompt'[r].intensity = q.intensity
        BY <2>3 DEF PromptFor
  <2>5. WorkingMemoryBudget(q.intensity) \in Nat
        BY <2>2
  <2> QED
      BY <2>3, <2>4, <2>5, RecentAreLatest DEF PromptInv
<1> QED
    BY <1>1, PromptInvariance, PTL DEF PromptSpec, LatestTurnsAreShown

----------------------------------------------------------------------------
(* PromptContext: the memories chosen.                                     *)

(* The candidates of a retrieval. *)
Candidates(q) ==
  Rerank(MergeResults(Decayed(q.semantic, q.decays), Decayed(q.emotional, q.decays)), q.context)

(* applyDecayToHits keeps the hits and leaves numbers. *)
LEMMA DecayedIsScored ==
  ASSUME NEW hits, \A m \in DOMAIN hits : hits[m] \in SearchHits, NEW decays
  PROVE  /\ DOMAIN Decayed(hits, decays) = DOMAIN hits
         /\ \A m \in DOMAIN hits :
              Decayed(hits, decays)[m].score \in Int /\ Decayed(hits, decays)[m].cognitive \in Int
<1>1. DOMAIN Decayed(hits, decays) = DOMAIN hits
      BY DEF Decayed
<1>2. ASSUME NEW m \in DOMAIN hits
      PROVE  Decayed(hits, decays)[m].score \in Int /\ Decayed(hits, decays)[m].cognitive \in Int
  <2>1. hits[m].score \in Int /\ hits[m].cognitive \in Int /\ hits[m].level \in 1..3
    <3>1. UnitScores \subseteq Int
          BY DEF UnitScores
    <3>2. hits[m].score \in Int /\ hits[m].cognitive \in UnitScores /\ hits[m].level \in 1..3
          BY DEF SearchHits
    <3> QED
        BY <3>1, <3>2
  <2>2. DecayPercent[hits[m].level] \in Int
        BY <2>1 DEF DecayPercent
  <2>3. (hits[m].score * DecayPercent[hits[m].level]) \div 100 \in Int
    <3>1. hits[m].score * DecayPercent[hits[m].level] \in Int
          BY <2>1, <2>2
    <3> QED
        BY <3>1
  <2>4. [hits[m] EXCEPT !.score = (@ * DecayPercent[hits[m].level]) \div 100].score \in Int
        BY <2>1, <2>3 DEF SearchHits
  <2>5. [hits[m] EXCEPT !.score = (@ * DecayPercent[hits[m].level]) \div 100].cognitive \in Int
        BY <2>1 DEF SearchHits
  <2> QED
      BY <2>1, <2>4, <2>5 DEF Decayed
<1> QED
    BY <1>1, <1>2

(* mergeResults has every memory of either search, with numbers for        *)
(* scores.                                                                 *)
LEMMA MergedIsScored ==
  ASSUME NEW sem, NEW emo,
         \A m \in DOMAIN sem : sem[m].score \in Int /\ sem[m].cognitive \in Int,
         \A m \in DOMAIN emo : emo[m].score \in Int
  PROVE  /\ DOMAIN MergeResults(sem, emo) = DOMAIN sem \cup DOMAIN emo
         /\ \A m \in DOMAIN sem \cup DOMAIN emo :
              LET c == MergeResults(sem, emo)[m]
              IN /\ c.semantic \in Int /\ c.emotional \in Int /\ c.cognitive \in Int
                 /\ c = [semantic |-> c.semantic, emotional |-> c.emotional, cognitive |-> c.cognitive,
                         level |-> c.level, permanent |-> c.permanent]
<1>1. DOMAIN MergeResults(sem, emo) = DOMAIN sem \cup DOMAIN emo
      BY DEF MergeResults
<1>2. ASSUME NEW m \in DOMAIN sem \cup DOMAIN emo, NEW c, c = MergeResults(sem, emo)[m]
      PROVE  /\ c.semantic \in Int /\ c.emotional \in Int /\ c.cognitive \in Int
             /\ c = [semantic |-> c.semantic, emotional |-> c.emotional, cognitive |-> c.cognitive,
                     level |-> c.level, permanent |-> c.permanent]
  <2> DEFINE x == IF m \in DOMAIN sem THEN sem[m].score ELSE 0
             y == IF m \in DOMAIN emo THEN emo[m].score ELSE 0
             z == IF m \in DOMAIN sem THEN sem[m].cognitive ELSE 0
  <2>1. x \in Int /\ y \in Int /\ z \in Int
        OBVIOUS
  <2>2. PICK l, p : c = [semantic |-> x, emotional |-> y, cognitive |-> z, level |-> l, permanent |-> p]
        BY <1>2, Zenon DEF MergeResults
  <2> HIDE DEF x, y, z
  <2> QED
      BY <2>1, <2>2
<1> QED
    BY <1>1, <1>2

(* What the context adds to a score is a number. *)
LEMMA BonusIsInteger ==
  ASSUME NEW m, NEW context, IsFiniteSet(DOMAIN context.goals),
         \A g \in DOMAIN context.goals : context.goals[g] \in Int
  PROVE  Bonus(m, context) \in Int
<1> DEFINE matched == {g \in DOMAIN context.goals : GoalMatches(g, m)}
           total == SumFunctionOnSet(context.goals, matched)
<1>1. IsFiniteSet(matched)
      BY FS_Subset
<1>2. \A g \in matched : context.goals[g] \in Int
      OBVIOUS
<1>3. total \in Int
  <2> HIDE DEF matched
  <2> QED
      BY <1>1, <1>2, SumOfIntegers
<1>4. \A condition : \A amount \in Int : When(condition, amount) \in Int
      BY DEF When
<1> DEFINE technical == "technical" \in Traits[m]
           a == When(context.pressure /\ "short" \in Traits[m], 1500)
           b == When(context.expertise = "beginner" /\ technical, 1800)
           c == When(context.expertise = "advanced" /\ technical, 1000)
           d == When(context.phase = "problem_diagnosis" /\ "problem" \in Traits[m], 1200)
           e == When(context.phase = "resolution" /\ "closing" \in Traits[m], 800)
<1>5. a \in Int /\ b \in Int /\ c \in Int /\ d \in Int /\ e \in Int
      BY DEF When
<1>6. Bonus(m, context) = a - b + c + d + e + 8 * total
      BY DEF Bonus
<1> HIDE DEF a, b, c, d, e, total
<1> QED
    BY <1>3, <1>5, <1>6

(* So is a score after clampUnit. *)
LEMMA ClampedIsInteger ==
  ASSUME NEW x \in Int
  PROVE  ClampUnit(x) \in Int
<1>1. Min({10000, x}) \in Int
      BY MinOfTwo
<1>2. Max({0, Min({10000, x})}) \in Int
  <2> HIDE DEF Min
  <2>1. ASSUME NEW y \in Int PROVE Max({0, y}) \in Int
        BY MaxOfTwo
  <2> QED
      BY <1>1, <2>1
<1> QED
    BY <1>2 DEF ClampUnit

(* The memories that a search found, each with a score. *)
LEMMA CandidatesAreScored ==
  ASSUME NEW r \in Requests, NEW q \in Retrievals[r]
  PROVE  /\ DOMAIN Candidates(q) = DOMAIN q.semantic \cup DOMAIN q.emotional
         /\ \A m \in DOMAIN Candidates(q) : FinalScore(Candidates(q)[m], q.weights) \in Int
<1> DEFINE sem == Decayed(q.semantic, q.decays)
           emo == Decayed(q.emotional, q.decays)
           merged == MergeResults(sem, emo)
<1>1. /\ DOMAIN sem = DOMAIN q.semantic
      /\ \A m \in DOMAIN sem : sem[m].score \in Int /\ sem[m].cognitive \in Int
      BY PromptAssumption, DecayedIsScored
<1>2. /\ DOMAIN emo = DOMAIN q.emotional
      /\ \A m \in DOMAIN emo : emo[m].score \in Int
      BY PromptAssumption, DecayedIsScored
<1> HIDE DEF sem, emo
<1>3. /\ DOMAIN merged = DOMAIN sem \cup DOMAIN emo
      /\ \A m \in DOMAIN merged :
              LET c == merged[m]
              IN /\ c.semantic \in Int /\ c.emotional \in Int /\ c.cognitive \in Int
                 /\ c = [semantic |-> c.semantic, emotional |-> c.emotional, cognitive |-> c.cognitive,
                         level |-> c.level, permanent |-> c.permanent]
      BY <1>1, <1>2, MergedIsScored
<1>4. Candidates(q) = Rerank(merged, q.context)
      BY DEF Candidates, sem, emo
<1> HIDE DEF merged
<1>5. ASSUME NEW m \in DOMAIN merged
      PROVE  FinalScore(Candidates(q)[m], q.weights) \in Int
  <2> DEFINE new == ClampUnit(merged[m].cognitive + Bonus(m, q.context))
             c == Candidates(q)[m]
  <2>1. new \in Int
    <3>1. Bonus(m, q.context) \in Int
          BY PromptAssumption, BonusIsInteger
    <3>2. merged[m].cognitive \in Int
          BY <1>3
    <3>3. merged[m].cognitive + Bonus(m, q.context) \in Int
          BY <3>1, <3>2
    <3> QED
        BY <3>3, ClampedIsInteger
  <2>2. c = [merged[m] EXCEPT !.cognitive = new]
        BY <1>4 DEF Rerank
  <2> HIDE DEF new
  <2>3. c.semantic \in Int /\ c.emotional \in Int /\ c.cognitive \in Int
        BY <1>3, <2>1, <2>2
  <2>4. /\ q.weights.alpha \in Int /\ q.weights.beta \in Int /\ q.weights.gamma \in Int
        /\ q.weights.boost \in Int
        BY PromptAssumption
  <2>5. Max({0, q.weights.boost}) \in Int
        BY <2>4, MaxOfTwo
  <2> HIDE DEF c
  <2>6. When(c.permanent, Max({0, q.weights.boost})) \in Int
        BY <2>5 DEF When
  <2> DEFINE x == q.weights.alpha * c.semantic
             y == q.weights.beta * c.emotional
             z == q.weights.gamma * c.cognitive
             b == 100 + When(c.permanent, Max({0, q.weights.boost}))
  <2>7. x \in Int /\ y \in Int /\ z \in Int /\ b \in Int
        BY <2>3, <2>4, <2>6
  <2>8. FinalScore(c, q.weights) = (x + y + z) * b
        BY DEF FinalScore, Contributions
  <2> HIDE DEF x, y, z, b
  <2>9. (x + y + z) * b \in Int
        BY <2>7
  <2> QED
      BY <2>8, <2>9 DEF c
<1> QED
    BY <1>1, <1>2, <1>3, <1>4, <1>5 DEF Rerank

(* fuse_and_rank loses no memory and lists none twice. *)
LEMMA RankedOnce ==
  ASSUME NEW r \in Requests, NEW q \in Retrievals[r]
  PROVE  LET ranked == FuseAndRank(Candidates(q), q.weights, q.order)
         IN /\ ranked \in Seq(Memories) /\ IsInjective(ranked)
            /\ ToSet(ranked) = DOMAIN Candidates(q)
<1> DEFINE found == DOMAIN Candidates(q)
           score == [m \in found |-> FinalScore(Candidates(q)[m], q.weights)]
           place == [m \in found |-> CHOOSE i \in DOMAIN q.order : q.order[i] = m]
           R == {p \in found \X found :
                       \/ score[p[1]] > score[p[2]]
                       \/ score[p[1]] = score[p[2]] /\ place[p[1]] < place[p[2]]}
           ranked == InOrder(found, R)
<1>1. FuseAndRank(Candidates(q), q.weights, q.order) = ranked
      BY DEF FuseAndRank
<1>2. found \subseteq Memories
      BY CandidatesAreScored, PromptAssumption
<1>3. q.order \in Seq(Memories) /\ ToSet(q.order) = Memories
      BY PromptAssumption
<1>4. IsFiniteSet(found)
  <2>1. IsFiniteSet(1..Len(q.order)) /\ DOMAIN q.order = 1..Len(q.order)
        BY <1>3, FS_Interval
  <2>2. q.order \in Surjection(1..Len(q.order), Memories)
        BY <1>3, <2>1 DEF Surjection, ToSet
  <2>3. IsFiniteSet(Memories)
        BY <2>1, <2>2, FS_Surjection
  <2> QED
      BY <1>2, <2>3, FS_Subset
<1>5. \A m \in found : score[m] \in Int
      BY CandidatesAreScored
<1>6. \A m \in found : place[m] \in Nat /\ q.order[place[m]] = m
  <2>1. \A m \in found : \E i \in DOMAIN q.order : q.order[i] = m
        BY <1>2, <1>3 DEF ToSet
  <2>2. \A m \in found : place[m] \in DOMAIN q.order /\ q.order[place[m]] = m
        BY <2>1
  <2>3. DOMAIN q.order \subseteq Nat
        BY <1>3
  <2> HIDE DEF place, found
  <2> QED
      BY <2>2, <2>3
<1>7. IsOrder(R, found)
  <2>1. \A x, y \in found : <<x, y>> \in R <=> \/ score[x] > score[y]
                                               \/ score[x] = score[y] /\ place[x] < place[y]
        OBVIOUS
  <2> HIDE DEF R, found, score, place
  <2> QED
      BY <1>5, <1>6, <2>1 DEF IsOrder
<1>8. /\ Cardinality(found) \in Nat
      /\ ranked \in [1..Cardinality(found) -> found]
      /\ \A x \in found : \E i \in 1..Cardinality(found) : ranked[i] = x
      /\ \A i, j \in 1..Cardinality(found) : i < j => <<ranked[i], ranked[j]>> \in R
  <2> HIDE DEF R, found
  <2> QED
      BY <1>4, <1>7, InOrderLists
<1>9. ASSUME NEW i \in 1..Cardinality(found), NEW j \in 1..Cardinality(found), ranked[i] = ranked[j]
      PROVE  i = j
  <2>1. \A x \in found : <<x, x>> \notin R
        BY <1>7 DEF IsOrder
  <2> HIDE DEF R, found, ranked
  <2>2. ~(i < j) /\ ~(j < i)
        BY <1>8, <1>9, <2>1
  <2> QED
      BY <1>8, <2>2
<1> HIDE DEF ranked, found, R
<1>10. ranked \in Seq(Memories) /\ DOMAIN ranked = 1..Cardinality(found)
       BY <1>2, <1>8
<1>11. IsInjective(ranked)
       BY <1>9, <1>10 DEF IsInjective
<1>12. ToSet(ranked) = found
       BY <1>8, <1>10 DEF ToSet
<1> QED
    BY <1>1, <1>10, <1>11, <1>12 DEF found

(* n comes before m in a list. *)
Above(ranked, n, m) ==
  \E i, j \in DOMAIN ranked : i < j /\ ranked[i] = n /\ ranked[j] = m

(* The memories of a list that are in S, of a list without repetitions. *)
LEMMA AmongOnce ==
  ASSUME NEW T, NEW s \in Seq(T), IsInjective(s), NEW S, S \subseteq ToSet(s)
  PROVE  /\ Among(s, S) \in Seq(S) /\ IsInjective(Among(s, S)) /\ ToSet(Among(s, S)) = S
         /\ \A i, j \in DOMAIN Among(s, S) : i < j => Above(s, Among(s, S)[i], Among(s, S)[j])
<1> DEFINE a == Among(s, S)
<1>1. PICK n \in Nat : \E at \in [1..n -> 1..Len(s)] :
           /\ a = [i \in 1..n |-> s[at[i]]]
           /\ \A i, j \in 1..n : i < j => at[i] < at[j]
           /\ \A i \in 1..n : s[at[i]] \in S
           /\ \A k \in 1..Len(s) : s[k] \in S => \E i \in 1..n : at[i] = k
      BY AmongLists
<1>2. PICK at \in [1..n -> 1..Len(s)] :
           /\ a = [i \in 1..n |-> s[at[i]]]
           /\ \A i, j \in 1..n : i < j => at[i] < at[j]
           /\ \A i \in 1..n : s[at[i]] \in S
           /\ \A k \in 1..Len(s) : s[k] \in S => \E i \in 1..n : at[i] = k
      BY <1>1
<1> HIDE DEF a
<1>3. DOMAIN s = 1..Len(s) /\ Len(s) \in Nat
      OBVIOUS
<1>4. a \in [1..n -> S]
      BY <1>2
<1>5. a \in Seq(S) /\ DOMAIN a = 1..n
      BY <1>4
<1>6. ASSUME NEW i \in 1..n, NEW j \in 1..n, a[i] = a[j] PROVE i = j
  <2>1. s[at[i]] = s[at[j]]
        BY <1>2, <1>6
  <2>2. at[i] \in DOMAIN s /\ at[j] \in DOMAIN s
        BY <1>3
  <2>3. at[i] = at[j]
        BY <2>1, <2>2 DEF IsInjective
  <2>4. at[i] \in Int /\ ~(i < j) /\ ~(j < i)
        BY <1>2, <1>3, <2>3
  <2> QED
      BY <2>4
<1>7. ASSUME NEW x \in S PROVE \E i \in 1..n : a[i] = x
  <2>1. PICK k \in DOMAIN s : s[k] = x
        BY DEF ToSet
  <2>2. PICK i \in 1..n : at[i] = k
        BY <1>2, <1>3, <2>1
  <2> QED
      BY <1>2, <2>1, <2>2
<1>8. ASSUME NEW i \in 1..n, NEW j \in 1..n, i < j PROVE Above(s, a[i], a[j])
  <2>1. at[i] \in DOMAIN s /\ at[j] \in DOMAIN s /\ at[i] < at[j]
        BY <1>2, <1>3, <1>8
  <2>2. a[i] = s[at[i]] /\ a[j] = s[at[j]]
        BY <1>2
  <2> QED
      BY <2>1, <2>2 DEF Above
<1>9. IsInjective(a)
      BY <1>5, <1>6 DEF IsInjective
<1>10. ToSet(a) = S
      BY <1>4, <1>5, <1>7 DEF ToSet
<1> QED
    BY <1>5, <1>8, <1>9, <1>10 DEF a

(* The first elements of a list, and what is behind the first k. *)
LEMMA FirstElements ==
  ASSUME NEW T, NEW s \in Seq(T), NEW n \in Nat
  PROVE  /\ FirstOf(s, n) \in Seq(T)
         /\ Len(FirstOf(s, n)) = IF n <= Len(s) THEN n ELSE Len(s)
         /\ DOMAIN FirstOf(s, n) = 1..Len(FirstOf(s, n))
         /\ \A i \in DOMAIN FirstOf(s, n) : i \in DOMAIN s /\ FirstOf(s, n)[i] = s[i]
<1> DEFINE k == Min({n, Len(s)})
<1>1. k = IF n <= Len(s) THEN n ELSE Len(s)
      BY MinOfTwo
<1>2. FirstOf(s, n) = SubSeq(s, 1, k)
      BY DEF FirstOf
<1>3. k \in 0..Len(s)
      BY <1>1
<1> HIDE DEF k
<1> QED
    BY <1>1, <1>2, <1>3

LEMMA ElementsBehind ==
  ASSUME NEW T, NEW s \in Seq(T), NEW k \in 0..Len(s)
  PROVE  LET left == SubSeq(s, k + 1, Len(s))
         IN /\ left \in Seq(T) /\ Len(left) = Len(s) - k
            /\ \A i \in DOMAIN left : k + i \in DOMAIN s /\ left[i] = s[k + i]
OBVIOUS

(* Two lists without common elements, one behind the other. *)
LEMMA JoinedOnce ==
  ASSUME NEW T, NEW s \in Seq(T), NEW t \in Seq(T), IsInjective(s), IsInjective(t),
         ToSet(s) \cap ToSet(t) = {}
  PROVE  /\ s \o t \in Seq(T) /\ IsInjective(s \o t) /\ ToSet(s \o t) = ToSet(s) \cup ToSet(t)
         /\ Len(s \o t) = Len(s) + Len(t)
<1> DEFINE c == s \o t
<1>1. c \in Seq(T) /\ Len(c) = Len(s) + Len(t) /\ DOMAIN c = 1..Len(s) + Len(t)
      OBVIOUS
<1>2. \A i \in 1..Len(s) : c[i] = s[i] /\ s[i] \in ToSet(s)
      BY DEF ToSet
<1>3. \A i \in 1..Len(t) : c[Len(s) + i] = t[i] /\ t[i] \in ToSet(t)
      BY DEF ToSet
<1>4. ASSUME NEW i \in DOMAIN c
      PROVE  \/ i \in DOMAIN s /\ c[i] = s[i] /\ c[i] \in ToSet(s)
             \/ i - Len(s) \in DOMAIN t /\ c[i] = t[i - Len(s)] /\ c[i] \in ToSet(t)
  <2>1. CASE i <= Len(s)
        BY <1>1, <1>2, <2>1
  <2>2. CASE ~(i <= Len(s))
    <3>1. i - Len(s) \in 1..Len(t) /\ i = Len(s) + (i - Len(s))
          BY <1>1, <2>2
    <3> QED
        BY <1>3, <3>1
  <2> QED
      BY <2>1, <2>2
<1>5. IsInjective(c)
  <2> SUFFICES ASSUME NEW i \in DOMAIN c, NEW j \in DOMAIN c, c[i] = c[j] PROVE i = j
      BY DEF IsInjective
  <2>1. i \in Int /\ j \in Int /\ Len(s) \in Int
        BY <1>1
  <2> HIDE DEF c
  <2>2. CASE i \in DOMAIN s /\ c[i] = s[i] /\ c[i] \in ToSet(s)
        BY <1>4, <2>2 DEF IsInjective
  <2>3. CASE i - Len(s) \in DOMAIN t /\ c[i] = t[i - Len(s)] /\ c[i] \in ToSet(t)
    <3>1. j - Len(s) \in DOMAIN t /\ c[j] = t[j - Len(s)]
          BY <1>4, <2>3
    <3>2. i - Len(s) = j - Len(s)
          BY <2>3, <3>1 DEF IsInjective
    <3> QED
        BY <2>1, <3>2
  <2> QED
      BY <1>4, <2>2, <2>3
<1>6. ToSet(c) = ToSet(s) \cup ToSet(t)
  <2>1. ToSet(c) \subseteq ToSet(s) \cup ToSet(t)
        BY <1>4 DEF ToSet
  <2>2. ASSUME NEW x \in ToSet(s) PROVE x \in ToSet(c)
    <3>1. PICK i \in 1..Len(s) : x = s[i]
          BY DEF ToSet
    <3>2. i \in DOMAIN c /\ c[i] = x
          BY <1>1, <1>2, <3>1
    <3> QED
        BY <3>2 DEF ToSet
  <2>3. ASSUME NEW x \in ToSet(t) PROVE x \in ToSet(c)
    <3>1. PICK i \in 1..Len(t) : x = t[i]
          BY DEF ToSet
    <3>2. Len(s) + i \in DOMAIN c /\ c[Len(s) + i] = x
          BY <1>1, <1>3, <3>1
    <3> QED
        BY <3>2 DEF ToSet
  <2> QED
      BY <2>1, <2>2, <2>3
<1> QED
    BY <1>1, <1>5, <1>6

(* The first elements of a list without repetitions: an element that is    *)
(* not among them is behind all of them, and then there are n of them.     *)
LEMMA FirstOnce ==
  ASSUME NEW T, NEW s \in Seq(T), IsInjective(s), NEW n \in Nat
  PROVE  /\ FirstOf(s, n) \in Seq(T) /\ IsInjective(FirstOf(s, n))
         /\ Len(FirstOf(s, n)) <= n /\ Len(FirstOf(s, n)) <= Len(s)
         /\ ToSet(FirstOf(s, n)) \subseteq ToSet(s)
         /\ \A i \in DOMAIN s : s[i] \notin ToSet(FirstOf(s, n)) =>
              /\ Len(FirstOf(s, n)) = n
              /\ \A x \in ToSet(FirstOf(s, n)) : Above(s, x, s[i])
<1> DEFINE f == FirstOf(s, n)
<1>1. /\ f \in Seq(T) /\ Len(f) = IF n <= Len(s) THEN n ELSE Len(s)
      /\ DOMAIN f = 1..Len(f)
      /\ \A i \in DOMAIN f : i \in DOMAIN s /\ f[i] = s[i]
      BY FirstElements
<1> HIDE DEF f
<1>2. Len(s) \in Nat /\ DOMAIN s = 1..Len(s) /\ Len(f) \in Nat
      BY <1>1
<1>3. Len(f) <= n /\ Len(f) <= Len(s)
      BY <1>1, <1>2
<1>4. IsInjective(f)
      BY <1>1 DEF IsInjective
<1>5. ToSet(f) \subseteq ToSet(s)
      BY <1>1 DEF ToSet
<1>6. ASSUME NEW i \in DOMAIN s, s[i] \notin ToSet(f)
      PROVE  Len(f) = n /\ \A x \in ToSet(f) : Above(s, x, s[i])
  <2>1. i \notin DOMAIN f
        BY <1>1, <1>6 DEF ToSet
  <2>2. Len(f) < i
        BY <1>1, <1>2, <2>1
  <2>3. Len(f) = n
    <3>1. i \in Nat /\ i <= Len(s)
          BY <1>2
    <3>2. Len(f) # Len(s)
          BY <1>2, <2>2, <3>1
    <3> QED
        BY <1>1, <3>2
  <2>4. ASSUME NEW x \in ToSet(f) PROVE Above(s, x, s[i])
    <3>1. PICK j \in DOMAIN f : x = f[j]
          BY DEF ToSet
    <3>2. j \in DOMAIN s /\ s[j] = x /\ j < i
          BY <1>1, <1>2, <2>2, <3>1
    <3> QED
        BY <3>2 DEF Above
  <2> QED
      BY <2>3, <2>4
<1> QED
    BY <1>1, <1>3, <1>4, <1>5, <1>6 DEF f

(* What is above in a part of a list is above in the list. *)
LEMMA AboveInList ==
  ASSUME NEW T, NEW s \in Seq(T), IsInjective(s), NEW S, S \subseteq ToSet(s),
         NEW x, NEW y, Above(Among(s, S), x, y)
  PROVE  Above(s, x, y)
<1>1. PICK i, j \in DOMAIN Among(s, S) : i < j /\ Among(s, S)[i] = x /\ Among(s, S)[j] = y
      BY DEF Above
<1> QED
    BY <1>1, AmongOnce

(* splitRankedMemories, of a list without repetitions: no part outgrows    *)
(* its budget, nothing is in two places, and what is left out finds all    *)
(* four places taken, those of its own part by better ones.                *)
LEMMA SplitIsFair ==
  ASSUME NEW T, NEW ranked \in Seq(T), IsInjective(ranked),
         NEW leans, NEW intensity
  PROVE  LET chosen == SplitRankedMemories(ranked, leans, intensity)
             all == chosen.semantic \o chosen.resonant
         IN /\ chosen.semantic \in Seq(T) /\ Len(chosen.semantic) <= SemanticBudget(intensity)
            /\ chosen.resonant \in Seq(T) /\ Len(chosen.resonant) <= ResonantBudget(intensity)
            /\ IsInjective(all) /\ ToSet(all) \subseteq ToSet(ranked)
            /\ \A m \in ToSet(ranked) \ ToSet(all) :
                 /\ Len(all) = 4
                 /\ \A n \in ToSet(IF leans[m] THEN chosen.resonant ELSE chosen.semantic) :
                      Above(ranked, n, m)
<1> DEFINE all == ToSet(ranked)
           toContent == {m \in all : ~leans[m]}
           toEmotion == {m \in all : leans[m]}
           S == SemanticBudget(intensity)
           R == ResonantBudget(intensity)
           semantic == FirstOf(Among(ranked, toContent), S)
           resonant == FirstOf(Among(ranked, toEmotion), R)
           others == all \ (ToSet(semantic) \cup ToSet(resonant))
           fallback == Among(ranked, others)
           filled == FirstOf(fallback, S - Len(semantic))
           left == SubSeq(fallback, Len(filled) + 1, Len(fallback))
           extra == FirstOf(left, R - Len(resonant))
<1>1. SplitRankedMemories(ranked, leans, intensity)
        = [semantic |-> semantic \o filled, resonant |-> resonant \o extra]
      BY DEF SplitRankedMemories
<1>2. S \in 1..2 /\ R \in 2..3 /\ S + R = 4
      BY DEF SemanticBudget, ResonantBudget
<1>3. /\ toContent \subseteq all /\ toEmotion \subseteq all /\ toContent \cap toEmotion = {}
      /\ \A m \in all : m \in (IF leans[m] THEN toEmotion ELSE toContent)
      OBVIOUS
<1> HIDE DEF toContent, toEmotion, S, R
<1>4. /\ semantic \in Seq(toContent) /\ IsInjective(semantic) /\ Len(semantic) <= S
      /\ ToSet(semantic) \subseteq toContent
      /\ \A m \in toContent \ ToSet(semantic) :
           Len(semantic) = S /\ \A n \in ToSet(semantic) : Above(ranked, n, m)
  <2> DEFINE a == Among(ranked, toContent)
  <2>1. a \in Seq(toContent) /\ IsInjective(a) /\ ToSet(a) = toContent
        BY <1>3, AmongOnce
  <2>2. S \in Nat
        BY <1>2
  <2> HIDE DEF a
  <2>3. /\ FirstOf(a, S) \in Seq(toContent) /\ IsInjective(FirstOf(a, S)) /\ Len(FirstOf(a, S)) <= S
        /\ ToSet(FirstOf(a, S)) \subseteq ToSet(a)
        /\ \A i \in DOMAIN a : a[i] \notin ToSet(FirstOf(a, S)) =>
              /\ Len(FirstOf(a, S)) = S
              /\ \A x \in ToSet(FirstOf(a, S)) : Above(a, x, a[i])
        BY <2>1, <2>2, FirstOnce
  <2>4. ASSUME NEW m \in toContent \ ToSet(FirstOf(a, S))
        PROVE  Len(FirstOf(a, S)) = S /\ \A n \in ToSet(FirstOf(a, S)) : Above(ranked, n, m)
    <3>1. PICK i \in DOMAIN a : a[i] = m
          BY <2>1 DEF ToSet
    <3>2. Len(FirstOf(a, S)) = S /\ \A n \in ToSet(FirstOf(a, S)) : Above(a, n, m)
          BY <2>3, <3>1
    <3> QED
        BY <1>3, <3>2, AboveInList DEF a
  <2>5. semantic = FirstOf(a, S)
        BY DEF a
  <2> QED
      BY <2>1, <2>3, <2>4, <2>5
<1>5. /\ resonant \in Seq(toEmotion) /\ IsInjective(resonant) /\ Len(resonant) <= R
      /\ ToSet(resonant) \subseteq toEmotion
      /\ \A m \in toEmotion \ ToSet(resonant) :
           Len(resonant) = R /\ \A n \in ToSet(resonant) : Above(ranked, n, m)
  <2> DEFINE a == Among(ranked, toEmotion)
  <2>1. a \in Seq(toEmotion) /\ IsInjective(a) /\ ToSet(a) = toEmotion
        BY <1>3, AmongOnce
  <2>2. R \in Nat
        BY <1>2
  <2> HIDE DEF a
  <2>3. /\ FirstOf(a, R) \in Seq(toEmotion) /\ IsInjective(FirstOf(a, R)) /\ Len(FirstOf(a, R)) <= R
        /\ ToSet(FirstOf(a, R)) \subseteq ToSet(a)
        /\ \A i \in DOMAIN a : a[i] \notin ToSet(FirstOf(a, R)) =>
              /\ Len(FirstOf(a, R)) = R
              /\ \A x \in ToSet(FirstOf(a, R)) : Above(a, x, a[i])
        BY <2>1, <2>2, FirstOnce
  <2>4. ASSUME NEW m \in toEmotion \ ToSet(FirstOf(a, R))
        PROVE  Len(FirstOf(a, R)) = R /\ \A n \in ToSet(FirstOf(a, R)) : Above(ranked, n, m)
    <3>1. PICK i \in DOMAIN a : a[i] = m
          BY <2>1 DEF ToSet
    <3>2. Len(FirstOf(a, R)) = R /\ \A n \in ToSet(FirstOf(a, R)) : Above(a, n, m)
          BY <2>3, <3>1
    <3> QED
        BY <1>3, <3>2, AboveInList DEF a
  <2>5. resonant = FirstOf(a, R)
        BY DEF a
  <2> QED
      BY <2>1, <2>3, <2>4, <2>5
<1> HIDE DEF semantic, resonant
<1>6. /\ Len(semantic) \in Nat /\ Len(resonant) \in Nat
      /\ S - Len(semantic) \in Nat /\ R - Len(resonant) \in Nat
      BY <1>2, <1>4, <1>5
<1>7. fallback \in Seq(others) /\ IsInjective(fallback) /\ ToSet(fallback) = others
  <2>1. others \subseteq ToSet(ranked)
        OBVIOUS
  <2> HIDE DEF others
  <2> QED
      BY <2>1, AmongOnce
<1>8. others \subseteq all /\ others \cap ToSet(semantic) = {} /\ others \cap ToSet(resonant) = {}
      OBVIOUS
<1> DEFINE s == S - Len(semantic)
           t == R - Len(resonant)
<1>9. s \in Nat /\ t \in Nat
      BY <1>6
<1>10. \A m \in all \ (ToSet(semantic) \cup ToSet(resonant)) : m \in others
      OBVIOUS
<1> HIDE DEF others, fallback, s, t, all
<1>11. /\ filled \in Seq(others) /\ IsInjective(filled) /\ Len(filled) <= s
       /\ Len(filled) <= Len(fallback) /\ ToSet(filled) \subseteq others
       /\ \A i \in DOMAIN fallback : fallback[i] \notin ToSet(filled) => Len(filled) = s
       /\ \A i \in DOMAIN filled : i \in DOMAIN fallback /\ filled[i] = fallback[i]
       /\ DOMAIN filled = 1..Len(filled)
       BY <1>7, <1>9, FirstOnce, FirstElements DEF s
<1> HIDE DEF filled
<1>12. Len(filled) \in 0..Len(fallback) /\ Len(fallback) \in Nat /\ DOMAIN fallback = 1..Len(fallback)
       BY <1>7, <1>11
<1>13. /\ left \in Seq(others) /\ Len(left) = Len(fallback) - Len(filled)
       /\ DOMAIN left = 1..Len(left)
       /\ \A i \in DOMAIN left : Len(filled) + i \in DOMAIN fallback /\ left[i] = fallback[Len(filled) + i]
  <2>1. /\ left \in Seq(others) /\ Len(left) = Len(fallback) - Len(filled)
        /\ \A i \in DOMAIN left : Len(filled) + i \in DOMAIN fallback /\ left[i] = fallback[Len(filled) + i]
        BY <1>7, <1>12, ElementsBehind
  <2> QED
      BY <2>1
<1> HIDE DEF left
<1>14. IsInjective(left)
       BY <1>7, <1>12, <1>13 DEF IsInjective
<1>15. \A i \in DOMAIN left : left[i] \notin ToSet(filled)
  <2> SUFFICES ASSUME NEW i \in DOMAIN left, NEW j \in DOMAIN filled, left[i] = filled[j] PROVE FALSE
      BY DEF ToSet
  <2>1. fallback[Len(filled) + i] = fallback[j]
        BY <1>11, <1>13
  <2>2. Len(filled) + i = j
        BY <1>7, <1>11, <1>13, <2>1 DEF IsInjective
  <2>3. i > 0 /\ i \in Int /\ j \in Int /\ j <= Len(filled) /\ Len(filled) \in Int
        BY <1>11, <1>12, <1>13
  <2> QED
      BY <2>2, <2>3
<1>16. \A m \in others \ ToSet(filled) : m \in ToSet(left)
  <2> SUFFICES ASSUME NEW m \in others \ ToSet(filled) PROVE m \in ToSet(left)
      OBVIOUS
  <2>1. PICK i \in DOMAIN fallback : fallback[i] = m
        BY <1>7 DEF ToSet
  <2>2. i \notin DOMAIN filled
        BY <1>11, <2>1 DEF ToSet
  <2>3. i - Len(filled) \in DOMAIN left /\ Len(filled) + (i - Len(filled)) = i
        BY <1>11, <1>12, <1>13, <2>2
  <2> QED
      BY <1>13, <2>1, <2>3 DEF ToSet
<1>17. /\ extra \in Seq(others) /\ IsInjective(extra) /\ Len(extra) <= t
       /\ ToSet(extra) \subseteq ToSet(left)
       /\ \A i \in DOMAIN left : left[i] \notin ToSet(extra) => Len(extra) = t
  <2>1. extra = FirstOf(left, t)
        BY DEF t
  <2> HIDE DEF extra
  <2> QED
      BY <1>9, <1>13, <1>14, <2>1, FirstOnce
<1> HIDE DEF extra
<1>18. ToSet(left) \subseteq others /\ ToSet(left) \cap ToSet(filled) = {}
       BY <1>13, <1>15 DEF ToSet
<1> DEFINE first == semantic \o filled
           second == resonant \o extra
           shown == first \o second
<1>19. toContent \subseteq T /\ toEmotion \subseteq T /\ others \subseteq T
       BY <1>3, <1>8 DEF all, ToSet
<1>20. semantic \in Seq(T) /\ filled \in Seq(T) /\ resonant \in Seq(T) /\ extra \in Seq(T)
       BY <1>4, <1>5, <1>11, <1>17, <1>19
<1>21. /\ first \in Seq(T) /\ IsInjective(first) /\ ToSet(first) = ToSet(semantic) \cup ToSet(filled)
       /\ Len(first) = Len(semantic) + Len(filled)
  <2>1. ToSet(semantic) \cap ToSet(filled) = {}
        BY <1>8, <1>11
  <2> QED
      BY <1>4, <1>11, <1>20, <2>1, JoinedOnce
<1>22. /\ second \in Seq(T) /\ IsInjective(second) /\ ToSet(second) = ToSet(resonant) \cup ToSet(extra)
       /\ Len(second) = Len(resonant) + Len(extra)
  <2>1. ToSet(resonant) \cap ToSet(extra) = {}
        BY <1>8, <1>17, <1>18
  <2> QED
      BY <1>5, <1>17, <1>20, <2>1, JoinedOnce
<1> HIDE DEF first, second
<1>23. /\ IsInjective(shown) /\ ToSet(shown) = ToSet(first) \cup ToSet(second)
       /\ Len(shown) = Len(first) + Len(second)
  <2>1. ToSet(first) \cap ToSet(second) = {}
        BY <1>3, <1>4, <1>5, <1>8, <1>11, <1>17, <1>18, <1>21, <1>22
  <2> QED
      BY <1>21, <1>22, <2>1, JoinedOnce
<1>24. ToSet(shown) \subseteq all
       BY <1>3, <1>4, <1>5, <1>8, <1>11, <1>17, <1>18, <1>21, <1>22, <1>23
<1>25. Len(first) <= S /\ Len(second) <= R
       BY <1>2, <1>6, <1>11, <1>17, <1>20, <1>21, <1>22 DEF s, t
<1>26. ASSUME NEW m \in all \ ToSet(shown)
       PROVE  /\ Len(shown) = 4
              /\ \A n \in ToSet(IF leans[m] THEN second ELSE first) : Above(ranked, n, m)
  <2>1. m \in all /\ m \notin ToSet(semantic) /\ m \notin ToSet(resonant) /\ m \notin ToSet(filled)
        /\ m \notin ToSet(extra)
        BY <1>21, <1>22, <1>23
  <2>2. m \in others /\ m \in ToSet(left)
        BY <1>10, <1>16, <2>1
  <2>3. Len(filled) = s
    <3>1. PICK i \in DOMAIN fallback : fallback[i] = m
          BY <1>7, <2>2 DEF ToSet
    <3> QED
        BY <1>11, <2>1, <3>1
  <2>4. Len(extra) = t
    <3>1. PICK i \in DOMAIN left : left[i] = m
          BY <2>2 DEF ToSet
    <3> QED
        BY <1>17, <2>1, <3>1
  <2>5. Len(shown) = 4
        BY <1>2, <1>6, <1>21, <1>22, <1>23, <2>3, <2>4 DEF s, t
  <2>6. CASE leans[m]
    <3>1. m \in toEmotion
          BY <1>3, <2>1, <2>6
    <3>2. Len(resonant) = R /\ \A n \in ToSet(resonant) : Above(ranked, n, m)
          BY <1>5, <2>1, <3>1
    <3>3. ToSet(extra) = {}
      <4>1. Len(extra) = 0
            BY <1>2, <2>4, <3>2 DEF t
      <4> QED
          BY <1>20, <4>1 DEF ToSet
    <3> QED
        BY <1>22, <2>5, <2>6, <3>2, <3>3
  <2>7. CASE ~leans[m]
    <3>1. m \in toContent
          BY <1>3, <2>1, <2>7
    <3>2. Len(semantic) = S /\ \A n \in ToSet(semantic) : Above(ranked, n, m)
          BY <1>4, <2>1, <3>1
    <3>3. ToSet(filled) = {}
      <4>1. Len(filled) = 0
            BY <1>2, <2>3, <3>2 DEF s
      <4> QED
          BY <1>20, <4>1 DEF ToSet
    <3> QED
        BY <1>21, <2>5, <2>7, <3>2, <3>3
  <2> QED
      BY <2>6, <2>7
<1>27. /\ SplitRankedMemories(ranked, leans, intensity).semantic = first
       /\ SplitRankedMemories(ranked, leans, intensity).resonant = second
       BY <1>1 DEF first, second
<1> QED
    BY <1>21, <1>22, <1>23, <1>24, <1>25, <1>26, <1>27 DEF all, S, R

(* findEmotionDirective names a region. *)
LEMMA DirectiveIsNamed ==
  ASSUME NEW emotion
  PROVE  \E i \in DOMAIN EmotionRegions : FindEmotionDirective(emotion) = EmotionRegions[i].name
<1> DEFINE distance == [i \in DOMAIN EmotionRegions |-> DistanceSquared(emotion, EmotionRegions[i].center)]
           reaching == {i \in DOMAIN EmotionRegions : distance[i] <= Square(EmotionRegions[i].radius)}
           best == {i \in reaching : \A j \in reaching : distance[i] <= distance[j]}
           k == IF best = {} THEN Len(EmotionRegions) ELSE Min(best)
<1>1. DOMAIN EmotionRegions = 1..7 /\ Len(EmotionRegions) = 7
      BY DEF EmotionRegions
<1>2. best \subseteq DOMAIN EmotionRegions
      OBVIOUS
<1>3. best \subseteq Nat
      BY <1>1, <1>2
<1>4. FindEmotionDirective(emotion) = EmotionRegions[k].name
      BY DEF FindEmotionDirective
<1> HIDE DEF best
<1>5. k \in DOMAIN EmotionRegions
      BY <1>1, <1>2, <1>3, LeastExists
<1> QED
    BY <1>4, <1>5

(* The memories of a section that has at least 64 characters for each of   *)
(* them share what it has.                                                 *)
LEMMA SectionFits ==
  ASSUME NEW part \in Seq(Memories), NEW tokens \in Nat,
         Len(part) <= 3, 64 * Len(part) <= 4 * tokens, tokens >= 48
  PROVE  SumFunctionOnSet([m \in ToSet(part) |-> ShownLength(Length[m], tokens, Len(part), 64)],
                          ToSet(part)) <= ApproxChars(tokens)
<1> DEFINE n == Len(part)
           chars == 4 * tokens
           each == chars \div Max({n, 1})
           share == Max({each, 64})
           shown == [m \in ToSet(part) |-> ShownLength(Length[m], tokens, n, 64)]
           total == SumFunctionOnSet(shown, ToSet(part))
<1>1. n \in Nat /\ n <= 3 /\ chars \in Nat /\ 64 * n <= chars /\ 64 <= chars
      OBVIOUS
<1>2. ApproxChars(tokens) = chars
      BY <1>1, MaxOfTwo DEF ApproxChars
<1> HIDE DEF chars, n
<1>3. Max({n, 1}) = (IF n >= 1 THEN n ELSE 1)
      BY <1>1, MaxOfTwo
<1>4. each \in Nat /\ n * each <= chars
      BY <1>1, <1>3
<1> HIDE DEF each
<1>5. share = IF each >= 64 THEN each ELSE 64
      BY <1>4, MaxOfTwo
<1> HIDE DEF share
<1>6. share \in Nat /\ n * share <= chars
      BY <1>1, <1>4, <1>5
<1>7. \A m \in ToSet(part) : shown[m] \in Int /\ shown[m] <= share
  <2> SUFFICES ASSUME NEW m \in ToSet(part) PROVE shown[m] \in Int /\ shown[m] <= share
      OBVIOUS
  <2>1. Length[m] \in Nat
        BY ElementsOfList, PromptAssumption
  <2>2. shown[m] = Min({Length[m], share})
        BY <1>2 DEF ShownLength, ShortenText, share, each
  <2> QED
      BY <1>6, <2>1, <2>2, MinOfTwo
<1>8. /\ IsFiniteSet(ToSet(part)) /\ Cardinality(ToSet(part)) \in Nat
      /\ Cardinality(ToSet(part)) <= n
      BY ElementsOfList DEF n
<1> HIDE DEF shown
<1>9. total \in Int /\ total <= Cardinality(ToSet(part)) * share
      BY <1>6, <1>7, <1>8, SumIsBounded
<1>10. Cardinality(ToSet(part)) * share <= n * share
      BY <1>1, <1>6, <1>8
<1> HIDE DEF total
<1>11. total <= chars
      BY <1>1, <1>6, <1>8, <1>9, <1>10
<1> QED
    BY <1>2, <1>11 DEF total, shown, n

(* The minima of calculatePromptBudget hold for every token limit. *)
LEMMA BudgetsAreLargeEnough ==
  ASSUME NEW tokens \in Int, NEW intensity
  PROVE  LET budget == CalculatePromptBudget(tokens, intensity)
         IN /\ budget.context \in Nat /\ budget.context >= 64
            /\ budget.memory \in Nat /\ budget.memory >= 48
<1> DEFINE limit == IF tokens <= 0 THEN 256 ELSE tokens
           intense == intensity > 70
           a == (limit * (IF intense THEN 26 ELSE 32)) \div 100
           b == (limit * (IF intense THEN 28 ELSE 18)) \div 100
<1>1. limit \in Int
      OBVIOUS
<1>2. /\ CalculatePromptBudget(tokens, intensity).context = Max({64, a})
      /\ CalculatePromptBudget(tokens, intensity).memory = Max({48, b})
      BY DEF CalculatePromptBudget
<1> HIDE DEF limit, intense
<1>3. a \in Int /\ b \in Int
      BY <1>1
<1> HIDE DEF a, b
<1>4. Max({64, a}) = (IF 64 >= a THEN 64 ELSE a) /\ Max({48, b}) = (IF 48 >= b THEN 48 ELSE b)
      BY <1>3, MaxOfTwo
<1> QED
    BY <1>2, <1>3, <1>4

(* What holds of every prompt that buildPromptPackage makes. *)
SoundPrompt(p) ==
  LET all == p.chosen.semantic \o p.chosen.resonant
  IN /\ \E i \in DOMAIN EmotionRegions : p.directive = EmotionRegions[i].name
     /\ p.chosen.semantic \in Seq(Memories) /\ Len(p.chosen.semantic) <= 2
     /\ p.chosen.resonant \in Seq(Memories) /\ Len(p.chosen.resonant) <= 3
     /\ p.budget.context \in Nat /\ p.budget.context >= 64
     /\ p.budget.memory \in Nat /\ p.budget.memory >= 48
     /\ IsInjective(all) /\ ToSet(all) \subseteq ToSet(p.ranked)
     /\ DOMAIN p.leans = ToSet(p.ranked)
     /\ \A m \in ToSet(p.ranked) \ ToSet(all) :
          /\ Len(all) = 4
          /\ \A n \in ToSet(IF p.leans[m] THEN p.chosen.resonant ELSE p.chosen.semantic) :
               Above(p.ranked, n, m)

(* All of it follows from the lemmas about ranking, split and budgets. *)
LEMMA PromptIsSound ==
  ASSUME NEW r \in Requests, NEW q \in Retrievals[r], NEW turns
  PROVE  SoundPrompt(PromptFor(q, turns)) /\ PromptFor(q, turns).turns = turns
<1> DEFINE p == PromptFor(q, turns)
<1> DEFINE ranked == FuseAndRank(Candidates(q), q.weights, q.order)
           leans == [m \in DOMAIN Candidates(q) |-> LeansToEmotion(Candidates(q)[m], q.weights)]
           chosen == SplitRankedMemories(ranked, leans, q.intensity)
           budget == CalculatePromptBudget(q.tokens, q.intensity)
           all == chosen.semantic \o chosen.resonant
<1>1. /\ p.ranked = ranked /\ p.leans = leans /\ p.chosen = chosen /\ p.turns = turns
      /\ p.budget = budget /\ p.directive = FindEmotionDirective(q.emotion)
      BY DEF PromptFor, Candidates
<1> HIDE DEF p
<1>2. ranked \in Seq(Memories) /\ IsInjective(ranked) /\ ToSet(ranked) = DOMAIN leans
      BY RankedOnce
<1> HIDE DEF ranked, leans
<1>3. /\ chosen.semantic \in Seq(Memories) /\ Len(chosen.semantic) <= SemanticBudget(q.intensity)
      /\ chosen.resonant \in Seq(Memories) /\ Len(chosen.resonant) <= ResonantBudget(q.intensity)
      /\ IsInjective(all) /\ ToSet(all) \subseteq ToSet(ranked)
      /\ \A m \in ToSet(ranked) \ ToSet(all) :
           /\ Len(all) = 4
           /\ \A n \in ToSet(IF leans[m] THEN chosen.resonant ELSE chosen.semantic) :
                Above(ranked, n, m)
      BY <1>2, SplitIsFair
<1> HIDE DEF chosen
<1>4. Len(chosen.semantic) <= 2 /\ Len(chosen.resonant) <= 3
  <2>1. SemanticBudget(q.intensity) \in 1..2 /\ ResonantBudget(q.intensity) \in 2..3
        BY DEF SemanticBudget, ResonantBudget
  <2>2. Len(chosen.semantic) \in Nat /\ Len(chosen.resonant) \in Nat
        BY <1>3
  <2> QED
      BY <1>3, <2>1, <2>2
<1>5. /\ budget.context \in Nat /\ budget.context >= 64
      /\ budget.memory \in Nat /\ budget.memory >= 48
      BY BudgetsAreLargeEnough, PromptAssumption
<1> HIDE DEF budget
<1>6. \E i \in DOMAIN EmotionRegions : p.directive = EmotionRegions[i].name
      BY <1>1, DirectiveIsNamed
<1> QED
    BY <1>1, <1>2, <1>3, <1>4, <1>5, <1>6 DEF SoundPrompt, p

(* So every prompt that a request has is sound. *)
LEMMA PromptsAreSound ==
  ASSUME PromptInv, NEW r \in Requests, stage[r] = "prompted"
  PROVE  SoundPrompt(prompt[r]) /\ Len(prompt[r].turns) <= 3
<1>1. PICK q \in Retrievals[r] : \E turns : Len(turns) <= 3 /\ prompt[r] = PromptFor(q, turns)
      BY DEF PromptInv, PromptsAreMade, MadeFor
<1>2. PICK turns : Len(turns) <= 3 /\ prompt[r] = PromptFor(q, turns)
      BY <1>1
<1>3. SoundPrompt(PromptFor(q, turns)) /\ PromptFor(q, turns).turns = turns
      BY PromptIsSound
<1> QED
    BY <1>2, <1>3

(* PromptTypeOK for every number of interactions, memories and attempts,   *)
(* every size of the window and every retrieval: the script of             *)
(* PushWorkingMemory keeps the window within its bound, splitRankedMemories *)
(* and normalizeWorkingMemoryForPrompt keep to their numbers, and          *)
(* findEmotionDirective always names a directive.                          *)
THEOREM PromptTypeCorrect == PromptSpec => []PromptTypeOK
<1>1. PromptInv => PromptTypeOK
  <2> SUFFICES ASSUME PromptInv PROVE PromptTypeOK
      OBVIOUS
  <2>1. ASSUME NEW r \in Requests, stage[r] = "prompted"
        PROVE  /\ Len(prompt[r].chosen.semantic) <= 2 /\ Len(prompt[r].chosen.resonant) <= 3
               /\ Len(prompt[r].turns) <= 3
               /\ \E i \in DOMAIN EmotionRegions : prompt[r].directive = EmotionRegions[i].name
        BY <2>1, PromptsAreSound DEF SoundPrompt
  <2> QED
      BY <2>1 DEF PromptTypeOK, PromptInv, WindowInv, WindowTyped, PromptsAreMade
<1> QED
    BY <1>1, PromptInvariance, PTL

(* LeftOutOnlyByBetter for every set of memories and every retrieval:      *)
(* mergeResults and fuse_and_rank list every memory found once, and        *)
(* splitRankedMemories leaves one out only when all places are taken.      *)
THEOREM NothingBetterIsLeftOut == PromptSpec => []LeftOutOnlyByBetter
<1>1. PromptInv => LeftOutOnlyByBetter
  <2> SUFFICES ASSUME PromptInv PROVE LeftOutOnlyByBetter
      OBVIOUS
  <2>1. \A r \in Requests : stage[r] = "prompted" => SoundPrompt(prompt[r])
        BY PromptsAreSound
  <2> QED
      BY <2>1, Zenon DEF LeftOutOnlyByBetter, SoundPrompt, Above
<1> QED
    BY <1>1, PromptInvariance, PTL

(* MemoriesFitTheirBudget for every set of memories, every length of their *)
(* contents and every LLM_MAX_TOKENS: the shares that buildUserPrompt      *)
(* gives the memories of a section add up to no more than the section has. *)
THEOREM MemoriesFit == PromptSpec => []MemoriesFitTheirBudget
<1>1. PromptInv => MemoriesFitTheirBudget
  <2> SUFFICES ASSUME PromptInv, NEW r \in Requests, stage[r] = "prompted"
               PROVE  LET p == prompt[r]
                          used(part, tokens) ==
                            SumFunctionOnSet([m \in ToSet(part) |-> ShownLength(Length[m], tokens, Len(part), 64)],
                                             ToSet(part))
                      IN /\ used(p.chosen.semantic, p.budget.context) <= ApproxChars(p.budget.context)
                         /\ used(p.chosen.resonant, p.budget.memory) <= ApproxChars(p.budget.memory)
      BY DEF MemoriesFitTheirBudget
  <2> DEFINE p == prompt[r]
  <2>1. /\ p.chosen.semantic \in Seq(Memories) /\ Len(p.chosen.semantic) <= 2
        /\ p.chosen.resonant \in Seq(Memories) /\ Len(p.chosen.resonant) <= 3
        /\ p.budget.context \in Nat /\ p.budget.context >= 64
        /\ p.budget.memory \in Nat /\ p.budget.memory >= 48
        BY PromptsAreSound DEF SoundPrompt
  <2> DEFINE a == p.chosen.semantic
             b == p.chosen.resonant
             c == p.budget.context
             d == p.budget.memory
  <2>2. a \in Seq(Memories) /\ c \in Nat /\ Len(a) <= 3 /\ 64 * Len(a) <= 4 * c /\ c >= 48
    <3> HIDE DEF a, c
    <3>1. a \in Seq(Memories) /\ Len(a) <= 2 /\ c \in Nat /\ c >= 64
          BY <2>1 DEF a, c
    <3> QED
        BY <3>1
  <2>3. b \in Seq(Memories) /\ d \in Nat /\ Len(b) <= 3 /\ 64 * Len(b) <= 4 * d /\ d >= 48
    <3> HIDE DEF b, d
    <3>1. b \in Seq(Memories) /\ Len(b) <= 3 /\ d \in Nat /\ d >= 48
          BY <2>1 DEF b, d
    <3> QED
        BY <3>1
  <2>4. SumFunctionOnSet([m \in ToSet(a) |-> ShownLength(Length[m], c, Len(a), 64)], ToSet(a))
          <= ApproxChars(c)
    <3> HIDE DEF a, c
    <3> QED
        BY <2>2, SectionFits
  <2>5. SumFunctionOnSet([m \in ToSet(b) |-> ShownLength(Length[m], d, Len(b), 64)], ToSet(b))
          <= ApproxChars(d)
    <3> HIDE DEF b, d
    <3> QED
        BY <2>3, SectionFits
  <2> QED
      BY <2>4, <2>5
<1> QED
    BY <1>1, PromptInvariance, PTL

=============================================================================
