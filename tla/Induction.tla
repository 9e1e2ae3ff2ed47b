----------------------------- MODULE Induction -----------------------------
(***************************************************************************)
(* Induction over the naturals, stated with sets in place of predicates:   *)
(* the set is that of the numbers for which something is to be shown.      *)
(* What it gives the other proofs: powers of two, and sums.                *)
(***************************************************************************)
EXTENDS Integers, FiniteSets, Functions, WellFoundedInduction, FiniteSetTheorems,
        FunctionTheorems, TLAPS

\* A set of naturals that is not empty has a least element.
LEMMA LeastNatural ==
  ASSUME NEW S \in SUBSET Nat, S # {}
  PROVE  \E n \in S : \A k \in S : n <= k
<1> DEFINE Less == {pair \in Nat \X Nat : pair[1] < pair[2]}
<1>1. IsWellFoundedOn(Less, Nat)
  BY NatLessThanWellFounded DEF OpToRel
<1> HIDE DEF Less
<1>2. PICK n \in S : \A k \in S : <<k, n>> \notin Less
  BY <1>1, WFMin
<1>3. \A k \in S : n \in Nat /\ k \in Nat /\ ~(k < n)
  BY <1>2 DEF Less
<1>4. \A k \in S : n <= k
  BY <1>3
<1> QED
  BY <1>4

\* A set with 0, and with n + 1 for each n in it, has every natural.
LEMMA SetInduction ==
  ASSUME NEW S, 0 \in S, \A n \in Nat : n \in S => n + 1 \in S
  PROVE  \A n \in Nat : n \in S
<1> SUFFICES ASSUME NEW m \in Nat, m \notin S PROVE FALSE
  OBVIOUS
<1>1. PICK n \in Nat \ S : \A k \in Nat \ S : n <= k
  BY LeastNatural
<1>2. n # 0 /\ n - 1 \in Nat
  BY <1>1
<1>3. n - 1 \in S
  BY <1>1, <1>2
<1> QED
  BY <1>1, <1>2, <1>3

\* The powers of two, from the number of subsets of a set.
LEMMA PowerOfTwo ==
  /\ 2 ^ 0 = 1
  /\ \A n \in Nat : 2 ^ n \in Nat \ {0} /\ 2 ^ (n + 1) = 2 * 2 ^ n
<1>1. ASSUME NEW n \in Nat
      PROVE  2 ^ n \in Nat /\ 2 ^ n = Cardinality(SUBSET (1..n)) /\ IsFiniteSet(SUBSET (1..n))
  <2>1. IsFiniteSet(1..n) /\ Cardinality(1..n) = n
    BY FS_Interval
  <2> QED
    BY <2>1, FS_SUBSET, FS_CardinalityType
<1>2. ASSUME NEW n \in Nat PROVE 2 ^ (n + 1) = 2 * 2 ^ n
  <2> DEFINE Old == SUBSET (1..n)
             New == {T \cup {n + 1} : T \in Old}
             add == [T \in Old |-> T \cup {n + 1}]
  <2>1. SUBSET (1..n + 1) = Old \cup New
    <3>1. ASSUME NEW T \in SUBSET (1..n + 1) PROVE T \in Old \cup New
      <4>1. CASE n + 1 \in T
        <5>1. T \ {n + 1} \in Old /\ T = (T \ {n + 1}) \cup {n + 1}
          BY <4>1
        <5> QED
          BY <5>1
      <4>2. CASE n + 1 \notin T
        BY <4>2
      <4> QED
        BY <4>1, <4>2
    <3>2. ASSUME NEW T \in Old PROVE T \in SUBSET (1..n + 1) /\ T \cup {n + 1} \in SUBSET (1..n + 1)
      OBVIOUS
    <3>3. \A T \in New : T \in SUBSET (1..n + 1)
      BY <3>2
    <3>4. \A T : T \in SUBSET (1..n + 1) <=> T \in Old \cup New
      BY <3>1, <3>2, <3>3
    <3> HIDE DEF Old, New
    <3> QED
      BY <3>4
  <2>2. \A T \in Old : n + 1 \notin T
    OBVIOUS
  <2>3. IsFiniteSet(New) /\ Cardinality(New) = Cardinality(Old)
    <3>1. add \in [Old -> New] /\ \A t \in New : \E s \in Old : add[s] = t
      OBVIOUS
    <3>2. \A a, b \in Old : add[a] = add[b] => a = b
      <4>1. \A a \in Old : a = add[a] \ {n + 1}
        BY <2>2
      <4> QED
        BY <4>1
    <3> HIDE DEF Old, New, add
    <3>3. ExistsBijection(Old, New)
      BY <3>1, <3>2, Fun_IsInj, Fun_IsSurj DEF ExistsBijection, Bijection
    <3> QED
      BY <3>3, <1>1, FS_Bijection DEF Old
  <2>4. Old \cap New = {}
    BY <2>2
  <2> HIDE DEF New
  <2>5. Cardinality(Old \cup New) = Cardinality(Old) + Cardinality(New)
    <3>1. Cardinality(Old \cap New) = 0
      BY <2>4, FS_EmptySet
    <3>2. IsFiniteSet(Old) /\ Cardinality(Old) \in Nat
      BY <1>1
    <3> HIDE DEF Old
    <3> QED
      BY <3>1, <3>2, <2>3, FS_Union
  <2>6. 2 ^ (n + 1) = Cardinality(Old \cup New)
    BY <1>1, <2>1
  <2>7. Cardinality(Old) = 2 ^ n /\ 2 ^ n \in Nat
    BY <1>1
  <2> HIDE DEF Old
  <2> QED
    BY <2>3, <2>5, <2>6, <2>7
<1>3. 2 ^ 0 = 1
  <2>1. 1..0 = {} /\ SUBSET {} = {{}}
    OBVIOUS
  <2> QED
    BY <1>1, <2>1, FS_Singleton
<1>4. \A n \in Nat : n \in {k \in Nat : 2 ^ k # 0}
  <2> DEFINE S == {k \in Nat : 2 ^ k # 0}
  <2>1. 0 \in S
    BY <1>3
  <2>2. \A n \in Nat : n \in S => n + 1 \in S
    BY <1>1, <1>2
  <2> HIDE DEF S
  <2>3. \A n \in Nat : n \in S
    BY <2>1, <2>2, SetInduction
  <2> QED BY <2>3 DEF S
<1> QED
  BY <1>1, <1>2, <1>3, <1>4

\* Two divisions in a row.
LEMMA HalveQuotient ==
  ASSUME NEW i \in Nat, NEW p \in Nat \ {0}
  PROVE  i \div (2 * p) = (i \div p) \div 2
  OBVIOUS

-----------------------------------------------------------------------------
(***************************************************************************)
(* Sums over finite sets (SumFunction of the community module Functions).  *)
(***************************************************************************)

\* The element that a sum over a set takes first.
AnElement(T) == CHOOSE x \in T : TRUE

\* Table sum has the sum of b over each subset of S: an element is taken out, and
\* added to the sum of the rest.
IsSum(sum, b, S) ==
  /\ sum[{}] = 0
  /\ \A T \in SUBSET S : T # {} => sum[T] = b[AnElement(T)] + sum[T \ {AnElement(T)}]

\* What a sum over a finite set is.
LEMMA SumDef ==
  ASSUME NEW S, IsFiniteSet(S), NEW b \in [S -> Int]
  PROVE  \E sum : SumFunction(b) = sum[S] /\ IsSum(sum, b, S)
<1> DEFINE small(n) == {T \in SUBSET S : Cardinality(T) <= n}
           Is(f, n) == f = [T \in small(n) |-> IF T = {} THEN 0 ELSE b[AnElement(T)] + f[T \ {AnElement(T)}]]
           N == {n \in Nat : \E f : Is(f, n)}
<1>1. \A T \in SUBSET S : IsFiniteSet(T) /\ Cardinality(T) \in Nat /\ Cardinality(T) <= Cardinality(S)
  BY FS_Subset, FS_CardinalityType
<1>2. \A T \in SUBSET S : T # {} => AnElement(T) \in T
  BY DEF AnElement
<1>3. \A T \in SUBSET S : T # {} => Cardinality(T) > 0 /\ Cardinality(T \ {AnElement(T)}) = Cardinality(T) - 1
  <2> SUFFICES ASSUME NEW T \in SUBSET S, T # {}
               PROVE  Cardinality(T) > 0 /\ Cardinality(T \ {AnElement(T)}) = Cardinality(T) - 1
    OBVIOUS
  <2>1. Cardinality(T) # 0
    BY <1>1, FS_EmptySet
  <2>2. Cardinality(T \ {AnElement(T)}) = Cardinality(T) - 1
    BY <1>1, <1>2, FS_RemoveElement
  <2> QED
    BY <1>1, <2>1, <2>2
<1>4. 0 \in N
  <2> DEFINE f == [T \in small(0) |-> 0]
  <2>1. \A T \in small(0) : T = {}
    BY <1>1, FS_EmptySet
  <2>2. Is(f, 0)
    BY <2>1
  <2> HIDE DEF Is
  <2> QED
    BY <2>2
<1>5. ASSUME NEW n \in Nat, n \in N
      PROVE  n + 1 \in N
  <2>1. PICK f : Is(f, n)
    BY <1>5
  <2> DEFINE value(T) == IF T = {} THEN 0 ELSE b[AnElement(T)] + f[T \ {AnElement(T)}]
             g == [T \in small(n + 1) |-> value(T)]
  <2>2. \A T \in small(n + 1) : T # {} => T \ {AnElement(T)} \in small(n)
    BY <1>1, <1>3
  <2>3. \A T \in small(n) : T \in small(n + 1) /\ g[T] = f[T]
    <3>1. \A T \in small(n) : T \in small(n + 1)
      BY <1>1
    <3>2. \A T \in small(n) : f[T] = value(T)
      <4> HIDE DEF small
      <4> QED
        BY <2>1
    <3> HIDE DEF small, value
    <3> QED
      BY <3>1, <3>2
  <2>4. Is(g, n + 1)
    <3>1. \A T \in small(n + 1) :
            value(T) = IF T = {} THEN 0 ELSE b[AnElement(T)] + g[T \ {AnElement(T)}]
      BY <2>2, <2>3
    <3> HIDE DEF value, small
    <3>2. \A T \in small(n + 1) : g[T] = IF T = {} THEN 0 ELSE b[AnElement(T)] + g[T \ {AnElement(T)}]
      BY <3>1
    <3> QED
      BY <3>2
  <2> HIDE DEF Is, g
  <2> QED
    BY <2>4
<1>6. \E f : Is(f, Cardinality(S))
  <2> HIDE DEF Is
  <2>1. \A n \in Nat : n \in N
    <3> HIDE DEF N
    <3> QED
      BY <1>4, <1>5, SetInduction
  <2> QED
    BY <1>1, <2>1
<1>7. small(Cardinality(S)) = SUBSET S
  BY <1>1
<1>8. \E f : f = [T \in SUBSET S |-> IF T = {} THEN 0 ELSE b[AnElement(T)] + f[T \ {AnElement(T)}]]
  <2> HIDE DEF small
  <2> QED
    BY <1>6, <1>7
<1> DEFINE sum == CHOOSE f : f = [T \in SUBSET S |-> IF T = {} THEN 0 ELSE b[AnElement(T)] + f[T \ {AnElement(T)}]]
<1>9. sum = [T \in SUBSET S |-> IF T = {} THEN 0 ELSE b[AnElement(T)] + sum[T \ {AnElement(T)}]]
  BY <1>8
<1>10. SumFunction(b) = sum[S]
  BY DEF SumFunction, SumFunctionOnSet, FoldFunctionOnSet, MapThenFoldSet, AnElement
<1> HIDE DEF sum
<1>11. /\ sum[{}] = 0
       /\ \A T \in SUBSET S : T # {} => sum[T] = b[AnElement(T)] + sum[T \ {AnElement(T)}]
  BY <1>9
<1> QED
  BY <1>10, <1>11 DEF IsSum

\* A sum grows with one of its terms, by as much.
LEMMA SumGrows ==
  ASSUME NEW S, IsFiniteSet(S), NEW b \in [S -> Int], NEW u \in S, NEW d \in Int
  PROVE  /\ SumFunction(b) \in Int
         /\ SumFunction([b EXCEPT ![u] = @ + d]) = SumFunction(b) + d
<1> DEFINE c == [b EXCEPT ![u] = @ + d]
<1>1. c \in [S -> Int] /\ \A x \in S : c[x] = IF x = u THEN b[x] + d ELSE b[x]
  OBVIOUS
<1>2. PICK sum : SumFunction(b) = sum[S] /\ IsSum(sum, b, S)
  BY SumDef
<1> HIDE DEF c
<1>3. PICK new : SumFunction(c) = new[S] /\ IsSum(new, c, S)
  BY <1>1, SumDef
<1>4. \A T \in SUBSET S : T # {} => AnElement(T) \in T
  BY DEF AnElement
<1> DEFINE Moved(T) == sum[T] \in Int /\ new[T] = sum[T] + (IF u \in T THEN d ELSE 0)
           N == {n \in Nat : \A T \in SUBSET S : IsFiniteSet(T) /\ Cardinality(T) = n => Moved(T)}
<1>5. 0 \in N
  <2>1. Moved({})
    BY <1>2, <1>3 DEF IsSum
  <2> HIDE DEF Moved
  <2> QED
    BY <2>1, FS_EmptySet
<1>6. ASSUME NEW n \in Nat, n \in N
      PROVE  n + 1 \in N
  <2> SUFFICES ASSUME NEW T \in SUBSET S, IsFiniteSet(T), Cardinality(T) = n + 1
               PROVE  Moved(T)
    OBVIOUS
  <2>1. T # {}
    BY FS_EmptySet
  <2>2. PICK x \in T : x = AnElement(T)
    BY <1>4, <2>1
  <2>3. IsFiniteSet(T \ {x}) /\ Cardinality(T \ {x}) = n
    <3>1. IsFiniteSet(T \ {x}) /\ Cardinality(T \ {x}) = Cardinality(T) - 1
      BY FS_RemoveElement
    <3> QED
      BY <3>1
  <2>4. Moved(T \ {x})
    BY <1>6, <2>3
  <2>5. sum[T] = b[x] + sum[T \ {x}] /\ new[T] = c[x] + new[T \ {x}]
    BY <1>2, <1>3, <2>1, <2>2 DEF IsSum
  <2>6. b[x] \in Int /\ c[x] = IF x = u THEN b[x] + d ELSE b[x]
    BY <1>1
  <2> QED
    BY <2>4, <2>5, <2>6
<1>7. \A n \in Nat : n \in N
  <2> HIDE DEF N
  <2> QED
    BY <1>5, <1>6, SetInduction
<1>8. Moved(S)
  BY <1>7, FS_CardinalityType
<1> QED
  BY <1>2, <1>3, <1>8 DEF c

\* A sum of integers is one.
LEMMA SumType ==
  ASSUME NEW S, IsFiniteSet(S), NEW b \in [S -> Int]
  PROVE  SumFunction(b) \in Int
<1>1. CASE S = {}
  <2>1. PICK sum : SumFunction(b) = sum[S] /\ IsSum(sum, b, S)
    BY SumDef
  <2> QED
    BY <1>1, <2>1 DEF IsSum
<1>2. CASE S # {}
  BY <1>2, SumGrows
<1> QED
  BY <1>1, <1>2

\* The sum of equal terms.
LEMMA SumConstant ==
  ASSUME NEW S, IsFiniteSet(S), NEW a \in Int
  PROVE  SumFunction([x \in S |-> a]) = Cardinality(S) * a
<1> DEFINE b == [x \in S |-> a]
<1>1. b \in [S -> Int] /\ \A x \in S : b[x] = a
  OBVIOUS
<1> HIDE DEF b
<1>2. PICK sum : SumFunction(b) = sum[S] /\ IsSum(sum, b, S)
  BY <1>1, SumDef
<1>3. \A T \in SUBSET S : T # {} => AnElement(T) \in T
  BY DEF AnElement
<1> DEFINE Times(T) == sum[T] = Cardinality(T) * a
           N == {n \in Nat : \A T \in SUBSET S : IsFiniteSet(T) /\ Cardinality(T) = n => Times(T)}
<1>4. 0 \in N
  <2>1. Times({})
    BY <1>2, FS_EmptySet DEF IsSum
  <2> HIDE DEF Times
  <2> QED
    BY <2>1, FS_EmptySet
<1>5. ASSUME NEW n \in Nat, n \in N
      PROVE  n + 1 \in N
  <2> SUFFICES ASSUME NEW T \in SUBSET S, IsFiniteSet(T), Cardinality(T) = n + 1
               PROVE  Times(T)
    OBVIOUS
  <2>1. T # {}
    BY FS_EmptySet
  <2>2. PICK x \in T : x = AnElement(T)
    BY <1>3, <2>1
  <2>3. IsFiniteSet(T \ {x}) /\ Cardinality(T \ {x}) = n
    <3>1. IsFiniteSet(T \ {x}) /\ Cardinality(T \ {x}) = Cardinality(T) - 1
      BY FS_RemoveElement
    <3> QED
      BY <3>1
  <2>4. sum[T \ {x}] = n * a
    BY <1>5, <2>3
  <2>5. sum[T] = a + sum[T \ {x}]
    BY <1>1, <1>2, <2>1, <2>2 DEF IsSum
  <2>6. n * a \in Int /\ (n + 1) * a = a + n * a
    OBVIOUS
  <2> QED
    BY <2>4, <2>5, <2>6
<1>6. \A n \in Nat : n \in N
  <2> HIDE DEF N
  <2> QED
    BY <1>4, <1>5, SetInduction
<1>7. Times(S)
  BY <1>6, FS_CardinalityType
<1> QED
  BY <1>2, <1>7 DEF b
=============================================================================
