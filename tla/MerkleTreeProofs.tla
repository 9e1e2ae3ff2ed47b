-------------------------- MODULE MerkleTreeProofs --------------------------
(***************************************************************************)
(* Proofs about MerkleTree, ServedPath and ProofService, for trees of any  *)
(* depth and windows of any size: the incremental insertion computes the   *)
(* roots of the whole tree, a root determines the leaves, and a path is    *)
(* accepted exactly as long as its root is kept.                           *)
(***************************************************************************)
EXTENDS ProofService, Induction, SequenceTheorems

-----------------------------------------------------------------------------
(***************************************************************************)
(* What the recursive definitions define, level by level.                  *)
(***************************************************************************)

\* The empty subtrees.
LEMMA ZerosDef ==
  /\ zeros[0] = ZeroLeaf
  /\ \A l \in Levels : zeros[l + 1] = Hash(zeros[l], zeros[l])
<1> DEFINE Is(f, n) ==
             f = [l \in 0..n |-> IF l = 0 THEN ZeroLeaf ELSE Hash(f[l - 1], f[l - 1])]
           S == {n \in Nat : \E f : Is(f, n)}
<1>1. 0 \in S
  <2>1. Is([l \in 0..0 |-> ZeroLeaf], 0)
    OBVIOUS
  <2> QED
    BY <2>1
<1>2. ASSUME NEW n \in Nat, n \in S PROVE n + 1 \in S
  <2>1. PICK f : Is(f, n)
    BY <1>2
  <2> DEFINE g == [l \in 0..n + 1 |-> IF l <= n THEN f[l] ELSE Hash(f[n], f[n])]
  <2>2. Is(g, n + 1)
    BY <2>1
  <2> HIDE DEF g, Is
  <2> QED
    BY <2>2
<1>3. \E f : Is(f, Depth)
  <2> HIDE DEF Is
  <2>1. \A n \in Nat : n \in S
    <3> HIDE DEF S
    <3> QED
      BY <1>1, <1>2, SetInduction
  <2> QED
    BY <2>1, SizesAssumption
<1>4. Is(zeros, Depth)
  BY <1>3 DEF zeros
<1>5. \A l \in 0..Depth : zeros[l] = IF l = 0 THEN ZeroLeaf ELSE Hash(zeros[l - 1], zeros[l - 1])
  BY <1>4
<1>6. \A l \in Levels : l + 1 \in 0..Depth /\ l + 1 # 0 /\ (l + 1) - 1 = l
  BY SizesAssumption DEF Levels
<1> HIDE DEF Is, S
<1> QED
  BY <1>5, <1>6, SizesAssumption

\* The tree over a sequence of leaves.
LEMMA TreeDef ==
  ASSUME NEW s
  PROVE  /\ \A i \in Nat : Node(s, 0, i) = IF i < Len(s) THEN s[i + 1] ELSE ZeroLeaf
         /\ \A l \in Levels, i \in Nat :
              Node(s, l + 1, i) = Hash(Node(s, l, 2 * i), Node(s, l, 2 * i + 1))
<1> DEFINE leaf == [i \in Nat |-> IF i < Len(s) THEN s[i + 1] ELSE ZeroLeaf]
           above(row) == [i \in Nat |-> Hash(row[2 * i], row[2 * i + 1])]
           Is(f, n) == f = [l \in 0..n |-> IF l = 0 THEN leaf ELSE above(f[l - 1])]
           S == {n \in Nat : \E f : Is(f, n)}
<1> HIDE DEF leaf, above
<1>1. 0 \in S
  <2>1. Is([l \in 0..0 |-> leaf], 0)
    OBVIOUS
  <2> QED
    BY <2>1
<1>2. ASSUME NEW n \in Nat, n \in S PROVE n + 1 \in S
  <2>1. PICK f : Is(f, n)
    BY <1>2
  <2> DEFINE g == [l \in 0..n + 1 |-> IF l <= n THEN f[l] ELSE above(f[n])]
  <2>2. Is(g, n + 1)
    BY <2>1
  <2> HIDE DEF g, Is
  <2> QED
    BY <2>2
<1>3. \E f : Is(f, Depth)
  <2> HIDE DEF Is
  <2>1. \A n \in Nat : n \in S
    <3> HIDE DEF S
    <3> QED
      BY <1>1, <1>2, SetInduction
  <2> QED
    BY <2>1, SizesAssumption
<1>4. Is(Tree(s), Depth)
  BY <1>3 DEF Tree, leaf, above
<1>5. \A l \in 0..Depth : Tree(s)[l] = IF l = 0 THEN leaf ELSE above(Tree(s)[l - 1])
  BY <1>4
<1>6. \A l \in Levels : l + 1 \in 0..Depth /\ l + 1 # 0 /\ (l + 1) - 1 = l
  BY SizesAssumption DEF Levels
<1> HIDE DEF Is, S
<1>7. Tree(s)[0] = leaf /\ \A l \in Levels : Tree(s)[l + 1] = above(Tree(s)[l])
  BY <1>5, <1>6, SizesAssumption
<1> QED
  BY <1>7 DEF leaf, above, Node

\* The climb of insert.
LEMMA ClimbDef ==
  ASSUME NEW leaf
  PROVE  /\ Climb(leaf)[0] = [hash |-> leaf, index |-> commitment_count, filled |-> filled_subtrees]
         /\ \A l \in Levels : LET prev == Climb(leaf)[l] IN
              Climb(leaf)[l + 1] =
                [hash |-> IF prev.index % 2 = 0 THEN Hash(prev.hash, zeros[l])
                          ELSE Hash(prev.filled[l], prev.hash),
                 index |-> prev.index \div 2,
                 filled |-> IF prev.index % 2 = 0 THEN [prev.filled EXCEPT ![l] = prev.hash]
                            ELSE prev.filled]
<1> DEFINE first == [hash |-> leaf, index |-> commitment_count, filled |-> filled_subtrees]
           above(prev, l) == 
             [hash |-> IF prev.index % 2 = 0 THEN Hash(prev.hash, zeros[l - 1])
                       ELSE Hash(prev.filled[l - 1], prev.hash),
              index |-> prev.index \div 2,
              filled |-> IF prev.index % 2 = 0 THEN [prev.filled EXCEPT ![l - 1] = prev.hash]
                         ELSE prev.filled]
           Is(f, n) == f = [l \in 0..n |-> IF l = 0 THEN first ELSE above(f[l - 1], l)]
           S == {n \in Nat : \E f : Is(f, n)}
<1> HIDE DEF first, above
<1>1. 0 \in S
  <2>1. Is([l \in 0..0 |-> first], 0)
    OBVIOUS
  <2> QED
    BY <2>1
<1>2. ASSUME NEW n \in Nat, n \in S PROVE n + 1 \in S
  <2>1. PICK f : Is(f, n)
    BY <1>2
  <2> DEFINE g == [l \in 0..n + 1 |-> IF l <= n THEN f[l] ELSE above(f[n], l)]
  <2>2. Is(g, n + 1)
    BY <2>1
  <2> HIDE DEF g, Is
  <2> QED
    BY <2>2
<1>3. \E f : Is(f, Depth)
  <2> HIDE DEF Is
  <2>1. \A n \in Nat : n \in S
    <3> HIDE DEF S
    <3> QED
      BY <1>1, <1>2, SetInduction
  <2> QED
    BY <2>1, SizesAssumption
<1>4. Is(Climb(leaf), Depth)
  BY <1>3 DEF Climb, first, above
<1>5. \A l \in 0..Depth : Climb(leaf)[l] = IF l = 0 THEN first ELSE above(Climb(leaf)[l - 1], l)
  BY <1>4
<1>6. \A l \in Levels : l + 1 \in 0..Depth /\ l + 1 # 0 /\ (l + 1) - 1 = l
  BY SizesAssumption DEF Levels
<1> HIDE DEF Is, S
<1>7. Climb(leaf)[0] = first /\ \A l \in Levels : Climb(leaf)[l + 1] = above(Climb(leaf)[l], l + 1)
  BY <1>5, <1>6, SizesAssumption
<1> QED
  BY <1>6, <1>7 DEF first, above

\* The walk of the circuit along a path.
LEMMA WalkDef ==
  ASSUME NEW leaf, NEW path, NEW is_left
  PROVE  /\ Walk(leaf, path, is_left)[0] = leaf
         /\ \A l \in Levels : Walk(leaf, path, is_left)[l + 1] =
              IF is_left[l] THEN Hash(Walk(leaf, path, is_left)[l], path[l])
              ELSE Hash(path[l], Walk(leaf, path, is_left)[l])
<1> DEFINE first == leaf
           above(prev, l) == 
             IF is_left[l - 1] THEN Hash(prev, path[l - 1]) ELSE Hash(path[l - 1], prev)
           Is(f, n) == f = [l \in 0..n |-> IF l = 0 THEN first ELSE above(f[l - 1], l)]
           S == {n \in Nat : \E f : Is(f, n)}
<1> HIDE DEF first, above
<1>1. 0 \in S
  <2>1. Is([l \in 0..0 |-> first], 0)
    OBVIOUS
  <2> QED
    BY <2>1
<1>2. ASSUME NEW n \in Nat, n \in S PROVE n + 1 \in S
  <2>1. PICK f : Is(f, n)
    BY <1>2
  <2> DEFINE g == [l \in 0..n + 1 |-> IF l <= n THEN f[l] ELSE above(f[n], l)]
  <2>2. Is(g, n + 1)
    BY <2>1
  <2> HIDE DEF g, Is
  <2> QED
    BY <2>2
<1>3. \E f : Is(f, Depth)
  <2> HIDE DEF Is
  <2>1. \A n \in Nat : n \in S
    <3> HIDE DEF S
    <3> QED
      BY <1>1, <1>2, SetInduction
  <2> QED
    BY <2>1, SizesAssumption
<1>4. Is(Walk(leaf, path, is_left), Depth)
  BY <1>3 DEF Walk, first, above
<1>5. \A l \in 0..Depth : Walk(leaf, path, is_left)[l] = IF l = 0 THEN first ELSE above(Walk(leaf, path, is_left)[l - 1], l)
  BY <1>4
<1>6. \A l \in Levels : l + 1 \in 0..Depth /\ l + 1 # 0 /\ (l + 1) - 1 = l
  BY SizesAssumption DEF Levels
<1> HIDE DEF Is, S
<1>7. Walk(leaf, path, is_left)[0] = first /\ \A l \in Levels : Walk(leaf, path, is_left)[l + 1] = above(Walk(leaf, path, is_left)[l], l + 1)
  BY <1>5, <1>6, SizesAssumption
<1> QED
  BY <1>6, <1>7 DEF first, above

-----------------------------------------------------------------------------
(***************************************************************************)
(* Indices, and the leaves below a node.                                   *)
(***************************************************************************)

\* The ancestors of leaf i, level by level: leaf i is below each of them.
LEMMA AncestorDef ==
  ASSUME NEW i \in Nat
  PROVE  /\ Ancestor(i, 0) = i
         /\ \A l \in Nat :
              /\ Ancestor(i, l) \in Nat
              /\ Ancestor(i, l + 1) = Ancestor(i, l) \div 2
              /\ Ancestor(i, l) * 2 ^ l <= i /\ i < (Ancestor(i, l) + 1) * 2 ^ l
<1>1. Ancestor(i, 0) = i
  BY PowerOfTwo DEF Ancestor
<1>2. ASSUME NEW l \in Nat
      PROVE  /\ Ancestor(i, l) \in Nat
             /\ Ancestor(i, l + 1) = Ancestor(i, l) \div 2
             /\ Ancestor(i, l) * 2 ^ l <= i /\ i < (Ancestor(i, l) + 1) * 2 ^ l
  <2> DEFINE p == 2 ^ l
  <2>1. p \in Nat \ {0} /\ 2 ^ (l + 1) = 2 * p
    BY PowerOfTwo
  <2> HIDE DEF p
  <2>2. i \div p \in Nat /\ (i \div p) * p <= i /\ i < ((i \div p) + 1) * p
    BY <2>1
  <2>3. i \div (2 * p) = (i \div p) \div 2
    BY <2>1, HalveQuotient
  <2> QED
    BY <2>1, <2>2, <2>3 DEF p, Ancestor
<1> QED
  BY <1>1, <1>2

\* The root is the ancestor of every leaf.
LEMMA AncestorTop ==
  ASSUME NEW i \in Nat, i < 2 ^ Depth
  PROVE  Ancestor(i, Depth) = 0
<1> DEFINE p == 2 ^ Depth
           a == Ancestor(i, Depth)
<1>1. p \in Nat \ {0} /\ a \in Nat /\ a * p <= i /\ i < p
  BY AncestorDef, PowerOfTwo, SizesAssumption
<1> HIDE DEF p, a
<1>2. a >= 1 => a * p >= p
  BY <1>1
<1> QED
  BY <1>1, <1>2 DEF a

\* Beyond the last leaf there are empty subtrees.
LEMMA NodeZero ==
  ASSUME NEW s, Len(s) \in Nat, NEW l \in 0..Depth, NEW i \in Nat, Len(s) <= i * 2 ^ l
  PROVE  Node(s, l, i) = zeros[l]
<1> DEFINE Beyond(k) == k <= Depth =>
             \A j \in Nat : Len(s) <= j * 2 ^ k => Node(s, k, j) = zeros[k]
           S == {k \in Nat : Beyond(k)}
<1>1. 0 \in S
  BY TreeDef, ZerosDef, PowerOfTwo
<1>2. ASSUME NEW k \in Nat, k \in S PROVE k + 1 \in S
  <2> SUFFICES ASSUME k + 1 <= Depth, NEW j \in Nat, Len(s) <= j * 2 ^ (k + 1)
               PROVE  Node(s, k + 1, j) = zeros[k + 1]
    OBVIOUS
  <2>1. k \in Levels
    BY SizesAssumption DEF Levels
  <2>2. Len(s) <= (2 * j) * 2 ^ k /\ Len(s) <= (2 * j + 1) * 2 ^ k
    <3> DEFINE p == 2 ^ k
    <3>1. p \in Nat /\ 2 ^ (k + 1) = 2 * p
      BY PowerOfTwo
    <3> HIDE DEF p
    <3> QED
      BY <3>1 DEF p
  <2>3. Node(s, k, 2 * j) = zeros[k] /\ Node(s, k, 2 * j + 1) = zeros[k]
    BY <1>2, <2>1, <2>2, SizesAssumption DEF Levels
  <2> QED
    BY <2>1, <2>3, TreeDef, ZerosDef
<1>3. \A k \in Nat : k \in S
  <2> HIDE DEF S
  <2> QED
    BY <1>1, <1>2, SetInduction
<1> QED
  BY <1>3

\* The leaves at positions from a up to b are the same.
SameLeaves(s, t, a, b) == \A j \in Nat : a <= j /\ j < b => Node(s, 0, j) = Node(t, 0, j)

\* A node determines the leaves below it, and they determine the node.
LEMMA NodeDetermines ==
  ASSUME NEW s, NEW t, NEW l \in 0..Depth, NEW i \in Nat
  PROVE  Node(s, l, i) = Node(t, l, i) <=> SameLeaves(s, t, i * 2 ^ l, (i + 1) * 2 ^ l)
<1> DEFINE Good(k) == k <= Depth => \A j \in Nat :
             Node(s, k, j) = Node(t, k, j) <=> SameLeaves(s, t, j * 2 ^ k, (j + 1) * 2 ^ k)
           S == {k \in Nat : Good(k)}
<1>1. 0 \in S
  <2>1. \A j, k \in Nat : j <= k /\ k < j + 1 <=> k = j
    OBVIOUS
  <2> QED
    BY <2>1, PowerOfTwo DEF SameLeaves
<1>2. ASSUME NEW k \in Nat, k \in S PROVE k + 1 \in S
  <2> SUFFICES ASSUME k + 1 <= Depth, NEW j \in Nat
               PROVE  Node(s, k + 1, j) = Node(t, k + 1, j)
                        <=> SameLeaves(s, t, j * 2 ^ (k + 1), (j + 1) * 2 ^ (k + 1))
    OBVIOUS
  <2> DEFINE p == 2 ^ k
  <2>1. k \in Levels
    BY SizesAssumption DEF Levels
  <2>2. Node(s, k + 1, j) = Node(t, k + 1, j)
          <=> Node(s, k, 2 * j) = Node(t, k, 2 * j) /\ Node(s, k, 2 * j + 1) = Node(t, k, 2 * j + 1)
    <3>1. \A a, b, c, d : Hash(a, b) = Hash(c, d) <=> a = c /\ b = d
      BY DEF Hash
    <3>2. /\ Node(s, k + 1, j) = Hash(Node(s, k, 2 * j), Node(s, k, 2 * j + 1))
          /\ Node(t, k + 1, j) = Hash(Node(t, k, 2 * j), Node(t, k, 2 * j + 1))
      BY <2>1, TreeDef
    <3> QED
      BY <3>1, <3>2
  <2>3. /\ Node(s, k, 2 * j) = Node(t, k, 2 * j)
             <=> SameLeaves(s, t, (2 * j) * p, (2 * j + 1) * p)
        /\ Node(s, k, 2 * j + 1) = Node(t, k, 2 * j + 1)
             <=> SameLeaves(s, t, (2 * j + 1) * p, (2 * j + 2) * p)
    BY <1>2, SizesAssumption
  <2>4. p \in Nat /\ 2 ^ (k + 1) = 2 * p
    BY PowerOfTwo
  <2> HIDE DEF p
  <2>5. /\ j * 2 ^ (k + 1) = (2 * j) * p /\ (j + 1) * 2 ^ (k + 1) = (2 * j + 2) * p
        /\ (2 * j + 1) * p \in Nat
        /\ (2 * j) * p <= (2 * j + 1) * p /\ (2 * j + 1) * p <= (2 * j + 2) * p
    BY <2>4
  <2>6. \A a, b, c \in Nat : a <= b /\ b <= c =>
          (SameLeaves(s, t, a, b) /\ SameLeaves(s, t, b, c) <=> SameLeaves(s, t, a, c))
    BY DEF SameLeaves
  <2>7. (2 * j) * p \in Nat /\ (2 * j + 2) * p \in Nat
    BY <2>4
  <2> QED
    BY <2>2, <2>3, <2>5, <2>6, <2>7
<1>3. \A k \in Nat : k \in S
  <2> HIDE DEF S
  <2> QED
    BY <1>1, <1>2, SetInduction
<1> QED
  BY <1>3

\* Sequences of leaves have one root when they fill the tree alike, and only then.
LEMMA RootDetermines ==
  ASSUME NEW s, NEW t
  PROVE  TreeRoot(s) = TreeRoot(t) <=> SameTree(s, t)
<1>1. 2 ^ Depth \in Nat /\ Depth \in 0..Depth
  BY PowerOfTwo, SizesAssumption
<1>2. TreeRoot(s) = TreeRoot(t) <=> SameLeaves(s, t, 0, 2 ^ Depth)
  <2>1. 0 * 2 ^ Depth = 0 /\ (0 + 1) * 2 ^ Depth = 2 ^ Depth
    BY <1>1
  <2>2. Node(s, Depth, 0) = Node(t, Depth, 0)
          <=> SameLeaves(s, t, 0 * 2 ^ Depth, (0 + 1) * 2 ^ Depth)
    <3>1. 0 \in Nat
      OBVIOUS
    <3> QED
      BY <1>1, <3>1, NodeDetermines, Zenon
  <2>3. SameLeaves(s, t, 0 * 2 ^ Depth, (0 + 1) * 2 ^ Depth) <=> SameLeaves(s, t, 0, 2 ^ Depth)
    BY <2>1, Zenon
  <2> QED
    BY <2>2, <2>3, Zenon DEF TreeRoot
<1>3. \A i \in Nat : Node(s, 0, i) = Leaf(s, i) /\ Node(t, 0, i) = Leaf(t, i)
  BY TreeDef DEF Leaf
<1>4. \A i : i \in 0..2 ^ Depth - 1 <=> i \in Nat /\ 0 <= i /\ i < 2 ^ Depth
  BY <1>1
<1> QED
  BY <1>2, <1>3, <1>4 DEF SameLeaves, SameTree

-----------------------------------------------------------------------------
(***************************************************************************)
(* The insertion computes the tree.                                        *)
(***************************************************************************)

\* Appending a leaf does not reach the nodes that are full.
LEMMA FullNodes ==
  ASSUME NEW s \in Seq(Commitments), NEW leaf, NEW l \in Levels, NEW i \in Nat,
         (i + 1) * 2 ^ l <= Len(s)
  PROVE  Node(Append(s, leaf), l, i) = Node(s, l, i)
<1> DEFINE t == Append(s, leaf)
<1>1. \A j \in Nat : j < Len(s) => j < Len(t) /\ t[j + 1] = s[j + 1]
  OBVIOUS
<1> HIDE DEF t
<1>2. \A j \in Nat : j < Len(s) => Node(t, 0, j) = Node(s, 0, j)
  BY <1>1, TreeDef
<1>3. SameLeaves(t, s, i * 2 ^ l, (i + 1) * 2 ^ l)
  <2>1. (i + 1) * 2 ^ l \in Nat
    BY PowerOfTwo, SizesAssumption DEF Levels
  <2> QED
    BY <1>2, <2>1 DEF SameLeaves
<1> QED
  BY <1>3, NodeDetermines, SizesAssumption DEF Levels, t

\* The ancestor of the next leaf is the same or the next one.
LEMMA AncestorNext ==
  ASSUME NEW i \in Nat, NEW l \in Nat
  PROVE  Ancestor(i + 1, l) \in {Ancestor(i, l), Ancestor(i, l) + 1}
<1> DEFINE p == 2 ^ l
           a == Ancestor(i, l)
           b == Ancestor(i + 1, l)
<1>1. /\ p \in Nat \ {0} /\ a \in Nat /\ b \in Nat
      /\ a * p <= i /\ i < (a + 1) * p /\ b * p <= i + 1 /\ i + 1 < (b + 1) * p
  <2>1. i + 1 \in Nat
    OBVIOUS
  <2>2. a \in Nat /\ a * p <= i /\ i < (a + 1) * p
    BY AncestorDef
  <2>3. b \in Nat /\ b * p <= i + 1 /\ i + 1 < (b + 1) * p
    BY <2>1, AncestorDef
  <2> QED
    BY <2>2, <2>3, PowerOfTwo
<1> HIDE DEF p, a, b
<1>2. \A x, y \in Nat : x <= y => x * p <= y * p
  BY <1>1
<1>3. ~(b < a)
  <2> SUFFICES ASSUME b < a PROVE FALSE
    OBVIOUS
  <2>1. b + 1 <= a
    BY <1>1
  <2>2. (b + 1) * p <= a * p
    BY <1>1, <1>2, <2>1
  <2> QED
    BY <1>1, <2>2
<1>4. ~(b > a + 1)
  <2> SUFFICES ASSUME b > a + 1 PROVE FALSE
    OBVIOUS
  <2>1. a + 2 <= b
    BY <1>1
  <2>2. (a + 2) * p <= b * p
    BY <1>1, <1>2, <2>1
  <2>3. (a + 2) * p = (a + 1) * p + p
    BY <1>1
  <2> QED
    BY <1>1, <2>2, <2>3
<1>5. b = a \/ b = a + 1
  BY <1>1, <1>3, <1>4
<1> QED
  BY <1>5 DEF a, b

\* The cache has the left sibling of every right child on the way of the next
\* leaf.
LeftSiblings ==
  \A l \in Levels : Ancestor(commitment_count, l) % 2 = 1 =>
    filled_subtrees[l] = Node(inserted, l, Ancestor(commitment_count, l) - 1)

\* The loop of insert climbs the tree that has the new leaf, and caches the
\* left children on the way.
LEMMA ClimbsTree ==
  ASSUME TypeOK, LeftSiblings, NEW leaf \in Commitments, NEW l \in 0..Depth
  PROVE  LET at == Climb(leaf)[l] IN
           /\ at.index = Ancestor(commitment_count, l)
           /\ at.hash = Node(Append(inserted, leaf), l, Ancestor(commitment_count, l))
           /\ DOMAIN at.filled = Levels
           /\ \A k \in Levels :
                at.filled[k] = IF k < l /\ Ancestor(commitment_count, k) % 2 = 0
                               THEN Node(Append(inserted, leaf), k, Ancestor(commitment_count, k))
                               ELSE filled_subtrees[k]
<1> DEFINE c == commitment_count
           t == Append(inserted, leaf)
           Good(n) == LET at == Climb(leaf)[n] IN
             /\ at.index = Ancestor(c, n)
             /\ at.hash = Node(t, n, Ancestor(c, n))
             /\ DOMAIN at.filled = Levels
             /\ \A k \in Levels : at.filled[k] = IF k < n /\ Ancestor(c, k) % 2 = 0
                                                 THEN Node(t, k, Ancestor(c, k))
                                                 ELSE filled_subtrees[k]
           S == {n \in Nat : n <= Depth => Good(n)}
<1>1. /\ c \in Nat /\ inserted \in Seq(Commitments) /\ Len(inserted) = c
      /\ DOMAIN filled_subtrees = Levels
  BY PowerOfTwo, SizesAssumption DEF TypeOK
<1>2. t \in Seq(Commitments) /\ Len(t) = c + 1 /\ t[c + 1] = leaf
  BY <1>1
<1> HIDE DEF t, c
<1>3. 0 \in S
  <2>1. Node(t, 0, c) = leaf
    BY <1>1, <1>2, TreeDef
  <2>2. Climb(leaf)[0] = [hash |-> leaf, index |-> c, filled |-> filled_subtrees]
    BY ClimbDef DEF c
  <2>3. Ancestor(c, 0) = c
    BY <1>1, AncestorDef
  <2>4. \A k \in Levels : ~(k < 0)
    BY DEF Levels
  <2> QED
    BY <1>1, <2>1, <2>2, <2>3, <2>4
<1>4. ASSUME NEW n \in Nat, n \in S PROVE n + 1 \in S
  <2> SUFFICES ASSUME n + 1 <= Depth PROVE Good(n + 1)
    OBVIOUS
  <2> DEFINE a == Ancestor(c, n)
             prev == Climb(leaf)[n]
             next == Climb(leaf)[n + 1]
  <2>1. n \in Levels /\ n \in 0..Depth
    BY SizesAssumption DEF Levels
  <2>2. Good(n)
    BY <1>4, <2>1
  <2>3. a \in Nat /\ Ancestor(c, n + 1) = a \div 2 /\ a * 2 ^ n <= c /\ c < (a + 1) * 2 ^ n
    BY <1>1, AncestorDef
  <2>4. next = [hash |-> IF a % 2 = 0 THEN Hash(prev.hash, zeros[n]) ELSE Hash(prev.filled[n], prev.hash),
                index |-> a \div 2,
                filled |-> IF a % 2 = 0 THEN [prev.filled EXCEPT ![n] = prev.hash] ELSE prev.filled]
    <3>1. prev.index = a
      BY <2>2
    <3>2. next = [hash |-> IF prev.index % 2 = 0 THEN Hash(prev.hash, zeros[n])
                           ELSE Hash(prev.filled[n], prev.hash),
                  index |-> prev.index \div 2,
                  filled |-> IF prev.index % 2 = 0 THEN [prev.filled EXCEPT ![n] = prev.hash]
                             ELSE prev.filled]
      BY <2>1, ClimbDef
    <3> HIDE DEF prev, next, a
    <3> QED
      BY <3>1, <3>2
  <2>5. prev.hash = Node(t, n, a)
    BY <2>2
  <2>6. Node(t, n + 1, a \div 2) = Hash(Node(t, n, 2 * (a \div 2)), Node(t, n, 2 * (a \div 2) + 1))
    <3>1. a \div 2 \in Nat
      BY <2>3
    <3> QED
      BY <2>1, <3>1, TreeDef
  <2>7. a % 2 \in {0, 1} /\ a = 2 * (a \div 2) + (a % 2)
    <3> HIDE DEF a
    <3> QED
      BY <2>3
  <2>8. \A k \in Levels : k < n + 1 <=> k < n \/ k = n
    BY <2>1 DEF Levels
  <2>9. CASE a % 2 = 0
    <3>1. Node(t, n, a + 1) = zeros[n]
      <4>1. c + 1 <= (a + 1) * 2 ^ n
        <5>1. 2 ^ n \in Nat
          BY PowerOfTwo
        <5> HIDE DEF a
        <5> QED
          BY <1>1, <2>3, <5>1
      <4>2. a + 1 \in Nat /\ Len(t) <= (a + 1) * 2 ^ n /\ Len(t) \in Nat
        BY <1>1, <1>2, <2>3, <4>1
      <4> HIDE DEF a
      <4> QED
        BY <2>1, <4>2, NodeZero
    <3>2. next.hash = Node(t, n + 1, a \div 2)
      <4>1. 2 * (a \div 2) = a
        BY <2>3, <2>7, <2>9
      <4> QED
        BY <2>4, <2>5, <2>6, <2>9, <3>1, <4>1
    <3>3. next.filled = [prev.filled EXCEPT ![n] = Node(t, n, a)]
      BY <2>4, <2>5, <2>9
    <3>4. DOMAIN next.filled = Levels
      BY <2>2, <3>3
    <3>5. ASSUME NEW k \in Levels
          PROVE  next.filled[k] = IF k < n + 1 /\ Ancestor(c, k) % 2 = 0
                                  THEN Node(t, k, Ancestor(c, k)) ELSE filled_subtrees[k]
      <4>1. CASE k = n
        BY <2>1, <2>2, <2>8, <2>9, <3>3, <4>1
      <4>2. CASE k # n
        <5>1. next.filled[k] = prev.filled[k]
          BY <2>2, <3>3, <4>2
        <5> QED
          BY <2>2, <2>8, <4>2, <5>1
      <4> QED
        BY <4>1, <4>2
    <3> QED
      BY <2>3, <2>4, <3>2, <3>4, <3>5
  <2>10. CASE a % 2 = 1
    <3>1. a - 1 \in Nat /\ 2 * (a \div 2) = a - 1
      <4> HIDE DEF a
      <4> QED
        BY <2>3, <2>7, <2>10
    <3>2. Node(t, n, a - 1) = Node(inserted, n, a - 1)
      <4>1. ((a - 1) + 1) * 2 ^ n <= Len(inserted)
        BY <1>1, <2>3
      <4> HIDE DEF a
      <4> QED
        BY <1>1, <2>1, <3>1, <4>1, FullNodes DEF t
    <3>3. prev.filled[n] = Node(t, n, a - 1)
      <4>1. filled_subtrees[n] = Node(inserted, n, a - 1)
        BY <2>1, <2>10 DEF LeftSiblings, c
      <4>2. prev.filled[n] = filled_subtrees[n]
        BY <2>1, <2>2
      <4> QED
        BY <3>2, <4>1, <4>2
    <3>4. next.hash = Node(t, n + 1, a \div 2)
      <4>1. (a - 1) + 1 = a
        BY <2>3
      <4> QED
        BY <2>4, <2>5, <2>6, <2>10, <3>1, <3>3, <4>1
    <3>5. next.filled = prev.filled
      BY <2>4, <2>10
    <3>6. ASSUME NEW k \in Levels
          PROVE  next.filled[k] = IF k < n + 1 /\ Ancestor(c, k) % 2 = 0
                                  THEN Node(t, k, Ancestor(c, k)) ELSE filled_subtrees[k]
      BY <2>2, <2>8, <2>10, <3>5
    <3> QED
      BY <2>2, <2>3, <2>4, <3>4, <3>5, <3>6
  <2> QED
    BY <2>7, <2>9, <2>10
<1>5. \A n \in Nat : n \in S
  <2> HIDE DEF S
  <2> QED
    BY <1>3, <1>4, SetInduction
<1> QED
  BY <1>5 DEF c, t

-----------------------------------------------------------------------------
(***************************************************************************)
(* The invariant of the tree.                                              *)
(***************************************************************************)

\* A slot of the window is unused, or was written at most RootHistorySize
\* insertions ago, or has the root of the empty tree.
SlotsWritten ==
  \A j \in Slots :
    \/ roots[j] = ZeroRoot
    \/ \E d \in 1..RootHistorySize : d <= commitment_count /\ Back(d) = j
    \/ commitment_count = 0 /\ j = root_cursor

TreeInv == TypeOK /\ LeftSiblings /\ WindowHoldsTreeRoots /\ SlotsWritten

LEMMA InitTreeInv == Init => TreeInv
<1> SUFFICES ASSUME Init PROVE TreeInv
  OBVIOUS
<1>1. commitment_count = 0 /\ inserted = << >>
  BY DEF Init
<1>2. TypeOK
  BY <1>1, PowerOfTwo, SizesAssumption DEF Init, TypeOK, Levels, Slots
<1>3. LeftSiblings
  <2>1. \A l \in Levels : Ancestor(0, l) = 0
    <3>1. \A l \in Levels : 2 ^ l \in Nat \ {0}
      BY PowerOfTwo, SizesAssumption DEF Levels
    <3> QED
      BY <3>1 DEF Ancestor
  <2> QED
    BY <1>1, <2>1 DEF LeftSiblings
<1>4. WindowHoldsTreeRoots
  BY <1>1, SizesAssumption DEF WindowHoldsTreeRoots
<1>5. SlotsWritten
  BY <1>1 DEF Init, SlotsWritten
<1> QED
  BY <1>2, <1>3, <1>4, <1>5 DEF TreeInv

\* What an insertion does to the state.
LEMMA InsertEffect ==
  ASSUME TreeInv, NEW leaf \in Commitments, insert(leaf)
  PROVE  /\ commitment_count \in Nat /\ inserted \in Seq(Commitments)
         /\ Len(inserted) = commitment_count
         /\ commitment_count' = commitment_count + 1 /\ commitment_count' <= 2 ^ Depth
         /\ inserted' = Append(inserted, leaf)
         /\ roots' = [roots EXCEPT ![root_cursor] = TreeRoot(inserted')]
         /\ root_cursor' = IF root_cursor + 1 = RootHistorySize THEN 0 ELSE root_cursor + 1
         /\ DOMAIN filled_subtrees' = Levels
         /\ \A l \in Levels :
              filled_subtrees'[l] = IF Ancestor(commitment_count, l) % 2 = 0
                                    THEN Node(inserted', l, Ancestor(commitment_count, l))
                                    ELSE filled_subtrees[l]
<1>1. /\ commitment_count \in Nat /\ commitment_count < 2 ^ Depth /\ 2 ^ Depth \in Nat
      /\ inserted \in Seq(Commitments) /\ Len(inserted) = commitment_count
  BY PowerOfTwo, SizesAssumption DEF TreeInv, TypeOK, insert
<1>2. commitment_count' = commitment_count + 1 /\ inserted' = Append(inserted, leaf)
  BY DEF insert
<1>3. Ancestor(commitment_count, Depth) = 0
  BY <1>1, AncestorTop
<1> DEFINE top == Climb(leaf)[Depth]
<1>4. /\ top.hash = Node(inserted', Depth, Ancestor(commitment_count, Depth))
      /\ DOMAIN top.filled = Levels
      /\ \A l \in Levels :
           top.filled[l] = IF l < Depth /\ Ancestor(commitment_count, l) % 2 = 0
                           THEN Node(inserted', l, Ancestor(commitment_count, l))
                           ELSE filled_subtrees[l]
  <2>1. Depth \in 0..Depth
    BY SizesAssumption
  <2> QED
    BY <1>2, <2>1, ClimbsTree DEF TreeInv
<1>5. filled_subtrees' = top.filled /\ roots' = [roots EXCEPT ![root_cursor] = top.hash]
  BY DEF insert
<1>6. root_cursor' = IF root_cursor + 1 = RootHistorySize THEN 0 ELSE root_cursor + 1
  <2>1. root_cursor \in 0..RootHistorySize - 1 /\ root_cursor' = (root_cursor + 1) % RootHistorySize
    BY DEF TreeInv, TypeOK, Slots, insert
  <2> HIDE DEF top
  <2>2. CASE root_cursor + 1 = RootHistorySize
    BY <2>1, <2>2, SizesAssumption
  <2>3. CASE root_cursor + 1 < RootHistorySize
    BY <2>1, <2>3, SizesAssumption
  <2> QED
    BY <2>1, <2>2, <2>3, SizesAssumption
<1>7. \A l \in Levels : l < Depth
  BY SizesAssumption DEF Levels
<1> HIDE DEF top
<1>8. roots' = [roots EXCEPT ![root_cursor] = TreeRoot(inserted')]
  BY <1>3, <1>4, <1>5 DEF TreeRoot
<1>9. /\ DOMAIN filled_subtrees' = Levels
      /\ \A l \in Levels :
           filled_subtrees'[l] = IF Ancestor(commitment_count, l) % 2 = 0
                                 THEN Node(inserted', l, Ancestor(commitment_count, l))
                                 ELSE filled_subtrees[l]
  BY <1>4, <1>5, <1>7
<1>10. commitment_count' <= 2 ^ Depth
  BY <1>1, <1>2
<1> QED
  BY <1>1, <1>2, <1>6, <1>8, <1>9, <1>10

LEMMA InsertTypeOK ==
  ASSUME TreeInv, NEW leaf \in Commitments, insert(leaf)
  PROVE  TypeOK'
<1>1. /\ commitment_count' \in 0..2 ^ Depth
      /\ inserted' \in Seq(Commitments) /\ Len(inserted') = commitment_count'
  <2>1. 2 ^ Depth \in Nat
    BY PowerOfTwo, SizesAssumption
  <2>2. /\ commitment_count \in Nat /\ inserted \in Seq(Commitments)
        /\ Len(inserted) = commitment_count
        /\ commitment_count' = commitment_count + 1 /\ commitment_count' <= 2 ^ Depth
        /\ inserted' = Append(inserted, leaf)
    BY InsertEffect
  <2> QED
    BY <2>1, <2>2
<1>2. root_cursor' \in Slots
  BY InsertEffect, SizesAssumption DEF TreeInv, TypeOK, Slots
<1>3. DOMAIN roots' = Slots /\ DOMAIN filled_subtrees' = Levels
  BY InsertEffect DEF TreeInv, TypeOK
<1> QED
  BY <1>1, <1>2, <1>3 DEF TypeOK, Slots, Levels

\* The next leaf is on the right of what was cached, or of what has just been.
LEMMA InsertLeftSiblings ==
  ASSUME TreeInv, NEW leaf \in Commitments, insert(leaf)
  PROVE  LeftSiblings'
<1> SUFFICES ASSUME NEW l \in Levels, Ancestor(commitment_count', l) % 2 = 1
             PROVE  filled_subtrees'[l] = Node(inserted', l, Ancestor(commitment_count', l) - 1)
  BY DEF LeftSiblings, Levels, Ancestor, Node, Tree, Hash
<1> DEFINE a == Ancestor(commitment_count, l)
<1>1. /\ commitment_count \in Nat /\ inserted \in Seq(Commitments)
      /\ Len(inserted) = commitment_count /\ commitment_count' = commitment_count + 1
      /\ inserted' = Append(inserted, leaf)
      /\ filled_subtrees'[l] = IF a % 2 = 0 THEN Node(inserted', l, a) ELSE filled_subtrees[l]
  BY InsertEffect
<1>2. l \in Nat
  BY SizesAssumption DEF Levels
<1>3. a \in Nat /\ a * 2 ^ l <= commitment_count
  BY <1>1, <1>2, AncestorDef
<1>4. Ancestor(commitment_count', l) \in {a, a + 1}
  BY <1>1, <1>2, AncestorNext
<1>5. CASE Ancestor(commitment_count', l) = a
  <2>1. a % 2 = 1
    BY <1>5
  <2>2. filled_subtrees'[l] = Node(inserted, l, a - 1)
    BY <1>1, <2>1 DEF TreeInv, LeftSiblings
  <2>3. a - 1 \in Nat /\ ((a - 1) + 1) * 2 ^ l <= Len(inserted)
    <3> HIDE DEF a
    <3>1. a # 0
      BY <2>1
    <3>2. (a - 1) + 1 = a
      BY <1>3
    <3> QED
      BY <1>1, <1>3, <3>1, <3>2
  <2>4. Node(inserted', l, a - 1) = Node(inserted, l, a - 1)
    <3> HIDE DEF a
    <3> QED
      BY <1>1, <2>3, FullNodes
  <2> QED
    BY <1>5, <2>2, <2>4
<1>6. CASE Ancestor(commitment_count', l) = a + 1
  <2> HIDE DEF a
  <2>1. a % 2 = 0 /\ (a + 1) - 1 = a
    BY <1>3, <1>6
  <2> QED
    BY <1>1, <1>6, <2>1
<1> QED
  BY <1>4, <1>5, <1>6

\* Appending a leaf leaves the earlier prefixes alone.
LEMMA AppendPrefixes ==
  ASSUME NEW s \in Seq(Commitments), NEW leaf \in Commitments
  PROVE  /\ \A k \in 0..Len(s) : SubSeq(Append(s, leaf), 1, k) = SubSeq(s, 1, k)
         /\ SubSeq(Append(s, leaf), 1, Len(s) + 1) = Append(s, leaf)
<1>1. Append(s, leaf) \in Seq(Commitments) /\ Len(Append(s, leaf)) = Len(s) + 1
  OBVIOUS
<1>2. \A k \in 0..Len(s) : SubSeq(Append(s, leaf), 1, k) = SubSeq(s, 1, k)
  OBVIOUS
<1>3. SubSeq(Append(s, leaf), 1, Len(s) + 1) = Append(s, leaf)
  BY <1>1, SubSeqFull
<1> QED
  BY <1>2, <1>3

\* The ring: what was written d insertions ago was written one more ago after
\* an insertion, and the last one is in the slot of the cursor.
LEMMA BackMoves ==
  ASSUME root_cursor \in Slots,
         root_cursor' = IF root_cursor + 1 = RootHistorySize THEN 0 ELSE root_cursor + 1
  PROVE  /\ \A d \in 1..RootHistorySize : Back(d) \in Slots
         /\ \A d \in 2..RootHistorySize : Back(d)' = Back(d - 1) /\ Back(d - 1) # root_cursor
         /\ Back(1)' = root_cursor
         /\ Back(RootHistorySize) = root_cursor
<1> DEFINE c == root_cursor
           H == RootHistorySize
<1>1. c \in 0..H - 1 /\ H \in Nat \ {0} /\ root_cursor' = IF c + 1 = H THEN 0 ELSE c + 1
  BY SizesAssumption DEF Slots
<1>2. \A d \in Nat : /\ Back(d) = IF d <= c THEN c - d ELSE c + H - d
                     /\ Back(d)' = IF d <= root_cursor' THEN root_cursor' - d
                                   ELSE root_cursor' + H - d
  BY DEF Back
<1> HIDE DEF c, H
<1>3. \A d \in 1..H : Back(d) \in 0..H - 1
  BY <1>1, <1>2
<1>4. ASSUME NEW d \in 2..H PROVE Back(d)' = Back(d - 1) /\ Back(d - 1) # c
  <2>1. /\ Back(d)' = IF d <= root_cursor' THEN root_cursor' - d ELSE root_cursor' + H - d
        /\ Back(d - 1) = IF d - 1 <= c THEN c - (d - 1) ELSE c + H - (d - 1)
    BY <1>2
  <2>2. CASE c + 1 = H
    BY <1>1, <2>1, <2>2
  <2>3. CASE c + 1 # H
    <3>1. root_cursor' = c + 1
      BY <1>1, <2>3
    <3> QED
      BY <1>1, <2>1, <3>1
  <2> QED
    BY <2>2, <2>3
<1>5. Back(1)' = c
  <2>1. CASE c + 1 = H
    BY <1>1, <1>2, <2>1
  <2>2. CASE c + 1 # H
    BY <1>1, <1>2, <2>2
  <2> QED
    BY <2>1, <2>2
<1>6. Back(H) = c
  BY <1>1, <1>2
<1> QED
  BY <1>3, <1>4, <1>5, <1>6 DEF c, H, Slots

LEMMA InsertWindow ==
  ASSUME TreeInv, NEW leaf \in Commitments, insert(leaf)
  PROVE  WindowHoldsTreeRoots'
<1>1. /\ commitment_count \in Nat /\ inserted \in Seq(Commitments)
      /\ Len(inserted) = commitment_count /\ commitment_count' = commitment_count + 1
      /\ inserted' = Append(inserted, leaf)
      /\ roots' = [roots EXCEPT ![root_cursor] = TreeRoot(inserted')]
      /\ root_cursor' = IF root_cursor + 1 = RootHistorySize THEN 0 ELSE root_cursor + 1
      /\ root_cursor \in Slots /\ DOMAIN roots = Slots
  BY InsertEffect DEF TreeInv, TypeOK
<1>2. /\ \A d \in 1..RootHistorySize : Back(d) \in Slots
      /\ \A d \in 2..RootHistorySize : Back(d)' = Back(d - 1) /\ Back(d - 1) # root_cursor
      /\ Back(1)' = root_cursor
  BY <1>1, BackMoves
<1> SUFFICES ASSUME NEW d \in 1..RootHistorySize, d <= commitment_count'
             PROVE  roots'[Back(d)'] = TreeRoot(SubSeq(inserted', 1, commitment_count' + 1 - d))
  BY DEF WindowHoldsTreeRoots, TreeRoot, Node, Tree, Hash
<1>3. CASE d = 1
  <2>1. SubSeq(inserted', 1, commitment_count' + 1 - d) = inserted'
    <3>1. commitment_count' + 1 - d = Len(inserted) + 1
      BY <1>1, <1>3
    <3> QED
      BY <1>1, <3>1, AppendPrefixes
  <2> QED
    BY <1>1, <1>2, <1>3, <2>1
<1>4. CASE d # 1
  <2>1. d \in 2..RootHistorySize /\ d - 1 \in 1..RootHistorySize /\ d - 1 <= commitment_count
    BY <1>1, <1>4, SizesAssumption
  <2>2. roots'[Back(d)'] = roots[Back(d - 1)]
    BY <1>1, <1>2, <2>1
  <2>3. roots[Back(d - 1)] = TreeRoot(SubSeq(inserted, 1, commitment_count + 1 - (d - 1)))
    BY <2>1 DEF TreeInv, WindowHoldsTreeRoots
  <2>4. /\ commitment_count + 1 - (d - 1) = commitment_count' + 1 - d
        /\ commitment_count' + 1 - d \in 0..Len(inserted)
    BY <1>1, <2>1, SizesAssumption
  <2>5. SubSeq(inserted', 1, commitment_count' + 1 - d) = SubSeq(inserted, 1, commitment_count' + 1 - d)
    BY <1>1, <2>4, AppendPrefixes
  <2> QED
    BY <2>2, <2>3, <2>4, <2>5
<1> QED
  BY <1>3, <1>4

LEMMA InsertSlotsWritten ==
  ASSUME TreeInv, NEW leaf \in Commitments, insert(leaf)
  PROVE  SlotsWritten'
<1>1. /\ commitment_count \in Nat /\ commitment_count' = commitment_count + 1
      /\ roots' = [roots EXCEPT ![root_cursor] = TreeRoot(inserted')]
      /\ root_cursor' = IF root_cursor + 1 = RootHistorySize THEN 0 ELSE root_cursor + 1
      /\ root_cursor \in Slots /\ DOMAIN roots = Slots
  BY InsertEffect DEF TreeInv, TypeOK
<1>2. /\ \A d \in 2..RootHistorySize : Back(d)' = Back(d - 1)
      /\ Back(1)' = root_cursor /\ Back(RootHistorySize) = root_cursor
  BY <1>1, BackMoves
<1> SUFFICES ASSUME NEW j \in Slots
             PROVE  \/ roots'[j] = ZeroRoot
                    \/ \E d \in 1..RootHistorySize : d <= commitment_count' /\ Back(d)' = j
  BY DEF SlotsWritten, Slots
<1>3. CASE j = root_cursor
  BY <1>1, <1>2, <1>3, SizesAssumption
<1>4. CASE j # root_cursor
  <2>1. roots'[j] = roots[j]
    BY <1>1, <1>4
  <2>2. CASE roots[j] = ZeroRoot
    BY <2>1, <2>2
  <2>3. CASE \E d \in 1..RootHistorySize : d <= commitment_count /\ Back(d) = j
    <3>1. PICK d \in 1..RootHistorySize : d <= commitment_count /\ Back(d) = j
      BY <2>3
    <3>2. d # RootHistorySize
      BY <1>2, <1>4, <3>1
    <3>3. /\ d + 1 \in 2..RootHistorySize /\ d + 1 \in 1..RootHistorySize /\ (d + 1) - 1 = d
          /\ d + 1 <= commitment_count'
      BY <1>1, <3>1, <3>2, SizesAssumption
    <3> QED
      BY <1>2, <3>1, <3>3
  <2> QED
    BY <1>4, <2>2, <2>3 DEF TreeInv, SlotsWritten
<1> QED
  BY <1>3, <1>4

-----------------------------------------------------------------------------
(***************************************************************************)
(* The tree and its window, in every state.                                *)
(***************************************************************************)

LEMMA NextTreeInv == TreeInv /\ [Next]_vars => TreeInv'
<1> SUFFICES ASSUME TreeInv, [Next]_vars PROVE TreeInv'
  OBVIOUS
<1>1. CASE Next
  <2>1. PICK leaf \in Commitments : insert(leaf)
    BY <1>1 DEF Next
  <2> QED
    BY <2>1, InsertTypeOK, InsertLeftSiblings, InsertWindow, InsertSlotsWritten DEF TreeInv
<1>2. CASE UNCHANGED vars
  <2>1. TypeOK'
    BY <1>2 DEF TreeInv, TypeOK, vars, Slots, Levels
  <2>2. LeftSiblings'
    BY <1>2 DEF TreeInv, LeftSiblings, vars, Levels, Ancestor, Node, Tree, Hash
  <2>3. WindowHoldsTreeRoots'
    <3> SUFFICES ASSUME NEW d \in 1..RootHistorySize, d <= commitment_count'
                 PROVE  roots'[Back(d)'] = TreeRoot(SubSeq(inserted', 1, commitment_count' + 1 - d))
      BY DEF WindowHoldsTreeRoots, TreeRoot, Node, Tree, Hash
    <3>1. Back(d)' = Back(d)
      BY <1>2 DEF vars, Back
    <3> QED
      BY <1>2, <3>1 DEF TreeInv, WindowHoldsTreeRoots, vars
  <2>4. SlotsWritten'
    BY <1>2 DEF TreeInv, SlotsWritten, vars, Back, Slots
  <2> QED
    BY <2>1, <2>2, <2>3, <2>4 DEF TreeInv
<1> QED
  BY <1>1, <1>2

LEMMA TreeInvariance == Spec => []TreeInv
<1> QED
  BY InitTreeInv, NextTreeInv, PTL DEF Spec

\* merkle::insert keeps its counters in range and its cursor inside the window.
THEOREM TreeTypeCorrect == Spec => []TypeOK
<1>1. TreeInv => TypeOK
  BY DEF TreeInv
<1> QED
  BY <1>1, TreeInvariance, PTL

\* For every depth and window size, what merkle::insert pushes on the window is
\* the root of the whole tree, and it stays there for RootHistorySize insertions.
THEOREM WindowCorrect == Spec => []WindowHoldsTreeRoots
<1>1. TreeInv => WindowHoldsTreeRoots
  BY DEF TreeInv
<1> QED
  BY <1>1, TreeInvariance, PTL

\* Sequences of leaves.
LEMMA SequencesUpToType ==
  ASSUME NEW n \in Nat
  PROVE  \A s : s \in SequencesUpTo(n) <=> s \in Seq(Commitments) /\ Len(s) <= n
<1>1. ASSUME NEW s \in SequencesUpTo(n) PROVE s \in Seq(Commitments) /\ Len(s) <= n
  <2>1. PICK k \in 0..n : s \in [1..k -> Commitments]
    BY DEF SequencesUpTo
  <2>2. k \in Nat /\ k <= n
    BY <2>1
  <2> QED
    BY <2>1, <2>2
<1>2. ASSUME NEW s \in Seq(Commitments), Len(s) <= n PROVE s \in SequencesUpTo(n)
  <2>1. Len(s) \in 0..n /\ s \in [1..Len(s) -> Commitments]
    BY <1>2
  <2> QED
    BY <2>1 DEF SequencesUpTo
<1> QED
  BY <1>1, <1>2

\* A prefix of the leaves, and what the newest slot holds.
LEMMA Prefixes ==
  ASSUME TreeInv
  PROVE  /\ \A k \in 0..commitment_count :
              /\ SubSeq(inserted, 1, k) \in Seq(Commitments) /\ Len(SubSeq(inserted, 1, k)) = k
              /\ k <= 2 ^ Depth /\ \A i \in 1..k : SubSeq(inserted, 1, k)[i] = inserted[i]
         /\ SubSeq(inserted, 1, commitment_count) = inserted
         /\ commitment_count \in Nat /\ 2 ^ Depth \in Nat
<1>1. /\ commitment_count \in Nat /\ 2 ^ Depth \in Nat /\ commitment_count <= 2 ^ Depth
      /\ inserted \in Seq(Commitments) /\ Len(inserted) = commitment_count
  BY PowerOfTwo, SizesAssumption DEF TreeInv, TypeOK
<1> QED
  BY <1>1, SubSeqFull

\* A root in the window commits to the leaves of a moment it still remembers.
LEMMA WindowRoots ==
  ASSUME TreeInv, NEW j \in Slots,
         NEW s \in Seq(Commitments), Len(s) <= 2 ^ Depth, roots[j] = TreeRoot(s),
         commitment_count > 0
  PROVE  \E n \in 1..commitment_count :
           commitment_count - n < RootHistorySize /\ SameTree(SubSeq(inserted, 1, n), s)
<1>1. roots[j] # ZeroRoot
  BY PowerOfTwo, SizesAssumption, SequencesUpToType, ZeroRootAssumption
<1>2. PICK d \in 1..RootHistorySize : d <= commitment_count /\ Back(d) = j
  BY <1>1 DEF TreeInv, SlotsWritten
<1> DEFINE n == commitment_count + 1 - d
<1>3. roots[j] = TreeRoot(SubSeq(inserted, 1, n))
  BY <1>2 DEF TreeInv, WindowHoldsTreeRoots
<1>4. n \in 1..commitment_count /\ commitment_count - n < RootHistorySize
  BY <1>2, Prefixes, SizesAssumption
<1> HIDE DEF n
<1>5. SameTree(SubSeq(inserted, 1, n), s)
  BY <1>3, RootDetermines
<1> QED
  BY <1>4, <1>5

\* And each moment it still remembers has its root in the window.
LEMMA RememberedRoots ==
  ASSUME TreeInv, NEW n \in 1..commitment_count, commitment_count - n < RootHistorySize
  PROVE  \E j \in Slots : roots[j] = TreeRoot(SubSeq(inserted, 1, n))
<1> DEFINE d == commitment_count + 1 - n
<1>1. d \in 1..RootHistorySize /\ d <= commitment_count /\ commitment_count + 1 - d = n
  BY Prefixes, SizesAssumption
<1>2. roots[Back(d)] = TreeRoot(SubSeq(inserted, 1, n))
  BY <1>1 DEF TreeInv, WindowHoldsTreeRoots
<1>3. Back(d) \in Slots
  BY <1>1, SizesAssumption DEF TreeInv, TypeOK, Back, Slots
<1> QED
  BY <1>2, <1>3

\* The newest root of the program's tree commits to the tree that the deposits
\* fill: a sequence of leaves has this root exactly if it fills it alike.
THEOREM RootIsBinding == Spec => []RootDeterminesLeaves
<1>1. TreeInv => RootDeterminesLeaves
  <2> SUFFICES ASSUME TreeInv, commitment_count > 0, NEW s \in SequencesUpTo(2 ^ Depth)
               PROVE  TreeRoot(s) = roots[Back(1)] <=> SameTree(s, inserted)
    BY DEF RootDeterminesLeaves
  <2>1. /\ commitment_count + 1 - 1 = commitment_count
        /\ 1 \in 1..RootHistorySize /\ 1 <= commitment_count
    BY Prefixes, SizesAssumption
  <2>2. roots[Back(1)] = TreeRoot(inserted)
    BY <2>1, Prefixes DEF TreeInv, WindowHoldsTreeRoots
  <2> QED
    BY <2>2, RootDetermines
<1> QED
  BY <1>1, TreeInvariance, PTL

-----------------------------------------------------------------------------
(***************************************************************************)
(* Paths and the circuit.                                                  *)
(***************************************************************************)

\* The sibling of the ancestor of leaf i at level l.
Sibling(i, l) == IF IsLeft(i, l) THEN Ancestor(i, l) + 1 ELSE Ancestor(i, l) - 1

\* It is a node beside which leaf i is not, and the parent has both.
LEMMA SiblingDef ==
  ASSUME NEW i \in Nat, NEW l \in Levels
  PROVE  /\ Sibling(i, l) \in Nat
         /\ ~(Sibling(i, l) * 2 ^ l <= i /\ i < (Sibling(i, l) + 1) * 2 ^ l)
         /\ Ancestor(i, l + 1) \in Nat
         /\ 2 * Ancestor(i, l + 1) = IF IsLeft(i, l) THEN Ancestor(i, l) ELSE Sibling(i, l)
         /\ 2 * Ancestor(i, l + 1) + 1 = IF IsLeft(i, l) THEN Sibling(i, l) ELSE Ancestor(i, l)
<1> DEFINE p == 2 ^ l
           a == Ancestor(i, l)
           b == Sibling(i, l)
<1>1. l \in Nat
  BY SizesAssumption DEF Levels
<1>2. /\ p \in Nat \ {0} /\ a \in Nat /\ a * p <= i /\ i < (a + 1) * p
      /\ Ancestor(i, l + 1) = a \div 2
  BY <1>1, AncestorDef, PowerOfTwo
<1>3. b = IF a % 2 = 0 THEN a + 1 ELSE a - 1
  BY DEF Sibling, IsLeft
<1>4. IsLeft(i, l) <=> a % 2 = 0
  BY DEF IsLeft
<1> HIDE DEF p, a, b
<1>5. b \in Nat /\ a \div 2 \in Nat
  BY <1>2, <1>3
<1>6. /\ 2 * (a \div 2) = IF a % 2 = 0 THEN a ELSE b
      /\ 2 * (a \div 2) + 1 = IF a % 2 = 0 THEN b ELSE a
  BY <1>2, <1>3
<1>7. ~(b * p <= i /\ i < (b + 1) * p)
  <2>1. CASE b = a + 1
    BY <1>2, <2>1
  <2>2. CASE b = a - 1
    <3>1. b + 1 = a
      BY <1>2, <2>2
    <3> QED
      BY <1>2, <3>1
  <2> QED
    BY <1>3, <2>1, <2>2
<1> QED
  BY <1>2, <1>4, <1>5, <1>6, <1>7 DEF p, a, b

\* Walking the path of leaf i in the tree over s from another value of that leaf
\* ends at the root of the tree that has this value.
LEMMA WalkClimbs ==
  ASSUME NEW s \in Seq(Commitments), NEW i \in 0..Len(s) - 1, NEW note \in Commitments,
         Len(s) <= 2 ^ Depth
  PROVE  Walk(note, MerklePath(s, i), [l \in Levels |-> IsLeft(i, l)])[Depth]
           = TreeRoot([s EXCEPT ![i + 1] = note])
<1> DEFINE t == [s EXCEPT ![i + 1] = note]
           path == MerklePath(s, i)
           is_left == [l \in Levels |-> IsLeft(i, l)]
           S == {n \in Nat : n <= Depth => Walk(note, path, is_left)[n] = Node(t, n, Ancestor(i, n))}
<1>1. /\ t \in Seq(Commitments) /\ Len(t) = Len(s) /\ t[i + 1] = note
      /\ i \in Nat /\ i < Len(s) /\ Len(s) \in Nat
      /\ \A j \in Nat : j < Len(s) /\ j # i => t[j + 1] = s[j + 1]
  OBVIOUS
<1>2. \A l \in Levels : path[l] = Node(s, l, Sibling(i, l)) /\ is_left[l] = IsLeft(i, l)
  BY DEF MerklePath, Sibling
<1> HIDE DEF t, path, is_left
<1>3. \A l \in Levels : path[l] = Node(t, l, Sibling(i, l))
  <2> TAKE l \in Levels
  <2>1. \A j \in Nat : j # i => Node(t, 0, j) = Node(s, 0, j)
    BY <1>1, TreeDef
  <2>2. SameLeaves(t, s, Sibling(i, l) * 2 ^ l, (Sibling(i, l) + 1) * 2 ^ l)
    BY <1>1, <2>1, SiblingDef DEF SameLeaves
  <2>3. l \in 0..Depth
    BY SizesAssumption DEF Levels
  <2>4. Sibling(i, l) \in Nat
    BY <1>1, SiblingDef
  <2> QED
    BY <1>2, <2>2, <2>3, <2>4, NodeDetermines
<1>4. 0 \in S
  BY <1>1, WalkDef, AncestorDef, TreeDef
<1>5. ASSUME NEW n \in Nat, n \in S PROVE n + 1 \in S
  <2> SUFFICES ASSUME n + 1 <= Depth
               PROVE  Walk(note, path, is_left)[n + 1] = Node(t, n + 1, Ancestor(i, n + 1))
    OBVIOUS
  <2>1. n \in Levels
    BY SizesAssumption DEF Levels
  <2>2. Walk(note, path, is_left)[n] = Node(t, n, Ancestor(i, n))
    BY <1>5, <2>1, SizesAssumption DEF Levels
  <2>3. Node(t, n + 1, Ancestor(i, n + 1))
          = Hash(Node(t, n, 2 * Ancestor(i, n + 1)), Node(t, n, 2 * Ancestor(i, n + 1) + 1))
    BY <1>1, <2>1, SiblingDef, TreeDef
  <2>4. Walk(note, path, is_left)[n + 1] =
          IF IsLeft(i, n) THEN Hash(Node(t, n, Ancestor(i, n)), Node(t, n, Sibling(i, n)))
          ELSE Hash(Node(t, n, Sibling(i, n)), Node(t, n, Ancestor(i, n)))
    BY <1>2, <1>3, <2>1, <2>2, WalkDef
  <2>5. /\ 2 * Ancestor(i, n + 1) = IF IsLeft(i, n) THEN Ancestor(i, n) ELSE Sibling(i, n)
        /\ 2 * Ancestor(i, n + 1) + 1 = IF IsLeft(i, n) THEN Sibling(i, n) ELSE Ancestor(i, n)
    BY <1>1, <2>1, SiblingDef
  <2> QED
    BY <2>3, <2>4, <2>5
<1>6. \A n \in Nat : n \in S
  <2> HIDE DEF S
  <2> QED
    BY <1>4, <1>5, SetInduction
<1>7. Ancestor(i, Depth) = 0
  BY <1>1, AncestorTop, PowerOfTwo, SizesAssumption
<1> QED
  <2>1. Walk(note, path, is_left)[Depth] = Node(t, Depth, Ancestor(i, Depth))
    BY <1>6, SizesAssumption
  <2> QED
    BY <1>7, <2>1 DEF t, path, is_left, TreeRoot

\* The path of leaf i ends at the root.
LEMMA PathVerifies ==
  ASSUME NEW s \in Seq(Commitments), NEW i \in 0..Len(s) - 1, Len(s) <= 2 ^ Depth
  PROVE  Walk(s[i + 1], MerklePath(s, i), [l \in Levels |-> IsLeft(i, l)])[Depth] = TreeRoot(s)
<1>1. s[i + 1] \in Commitments /\ [s EXCEPT ![i + 1] = s[i + 1]] = s
  OBVIOUS
<1> HIDE DEF Walk
<1> QED
  BY <1>1, WalkClimbs

\* Whatever is inserted later, the circuit accepts the path that was handed out
\* for a leaf exactly as long as the root of that moment, or of another one that
\* has the same because only zeros were deposited in between, is in the window.
THEOREM PathsExpireWithRoots == Spec => []StalePathsVerify
<1>1. TreeInv => StalePathsVerify
  <2> SUFFICES ASSUME TreeInv, NEW k \in 1..commitment_count, NEW i \in 0..k - 1
               PROVE  LET then == SubSeq(inserted, 1, k)
                          accepted == \E j \in Slots :
                            CircuitAccepts(roots[j], inserted[i + 1], MerklePath(then, i),
                                           [l \in Levels |-> IsLeft(i, l)])
                      IN accepted <=> \E n \in 1..commitment_count :
                                        /\ commitment_count - n < RootHistorySize
                                        /\ SameTree(SubSeq(inserted, 1, n), then)
    BY DEF StalePathsVerify
  <2> DEFINE then == SubSeq(inserted, 1, k)
             remembered == \E n \in 1..commitment_count :
                             /\ commitment_count - n < RootHistorySize
                             /\ SameTree(SubSeq(inserted, 1, n), then)
  <2>1. commitment_count \in Nat /\ k \in Nat /\ k <= commitment_count /\ commitment_count > 0
    BY Prefixes
  <2>2. k \in 0..commitment_count
    BY <2>1
  <2>3. then \in Seq(Commitments) /\ Len(then) = k /\ k <= 2 ^ Depth /\ then[i + 1] = inserted[i + 1]
    BY <2>1, <2>2, Prefixes
  <2>4. Walk(inserted[i + 1], MerklePath(then, i), [l \in Levels |-> IsLeft(i, l)])[Depth] = TreeRoot(then)
    BY <2>3, PathVerifies
  <2> SUFFICES (\E j \in Slots : roots[j] = TreeRoot(then)) <=> remembered
    BY <2>4 DEF CircuitAccepts
  <2>5. ASSUME NEW j \in Slots, roots[j] = TreeRoot(then) PROVE remembered
    <3> HIDE DEF then
    <3> QED
      BY <2>1, <2>3, <2>5, WindowRoots
  <2>6. ASSUME remembered PROVE \E j \in Slots : roots[j] = TreeRoot(then)
    <3>1. PICK n \in 1..commitment_count :
            commitment_count - n < RootHistorySize /\ SameTree(SubSeq(inserted, 1, n), then)
      BY <2>6
    <3>2. TreeRoot(SubSeq(inserted, 1, n)) = TreeRoot(then)
      BY <3>1, RootDetermines
    <3> QED
      BY <3>1, <3>2, RememberedRoots
  <2> QED
    BY <2>5, <2>6
<1> QED
  BY <1>1, TreeInvariance, PTL

-----------------------------------------------------------------------------
(***************************************************************************)
(* The path that the backend serves.                                       *)
(***************************************************************************)

\* Beside the rows of the backend, the tree of the program is what it is alone.
THEOREM PathImplementsTree == PathSpec => Spec
<1>1. PathInit => Init
  BY DEF PathInit
<1>2. [PathNext]_<<vars, commitments>> => [Next]_vars
  BY DEF PathNext, Register
<1> QED
  BY <1>1, <1>2, PTL DEF PathSpec, Spec

\* The cache, row by row.
LEMMA FilledDef ==
  ASSUME NEW rows, Len(rows) \in Nat
  PROVE  /\ Filled(rows)[0] = [l \in Levels |-> ZeroLeaf]
         /\ \A j \in 1..Len(rows) :
              LET before == Filled(rows)[j - 1]
                  current == Replayed(before, rows[j], j - 1)
              IN Filled(rows)[j] =
                   [l \in Levels |-> IF IsLeft(j - 1, l) THEN current[l] ELSE before[l]]
<1> DEFINE first == [l \in Levels |-> ZeroLeaf]
           after(before, j) ==
             LET current == Replayed(before, rows[j], j - 1)
             IN [l \in Levels |-> IF IsLeft(j - 1, l) THEN current[l] ELSE before[l]]
           Is(f, n) == f = [j \in 0..n |-> IF j = 0 THEN first ELSE after(f[j - 1], j)]
           S == {n \in Nat : \E f : Is(f, n)}
<1> HIDE DEF first, after
<1>1. 0 \in S
  <2>1. Is([j \in 0..0 |-> first], 0)
    OBVIOUS
  <2> QED
    BY <2>1
<1>2. ASSUME NEW n \in Nat, n \in S PROVE n + 1 \in S
  <2>1. PICK f : Is(f, n)
    BY <1>2
  <2> DEFINE g == [j \in 0..n + 1 |-> IF j <= n THEN f[j] ELSE after(f[n], j)]
  <2>2. Is(g, n + 1)
    BY <2>1
  <2> HIDE DEF g, Is
  <2> QED
    BY <2>2
<1>3. \E f : Is(f, Len(rows))
  <2> HIDE DEF Is
  <2>1. \A n \in Nat : n \in S
    <3> HIDE DEF S
    <3> QED
      BY <1>1, <1>2, SetInduction
  <2> QED
    BY <2>1
<1>4. Is(Filled(rows), Len(rows))
  BY <1>3 DEF Filled, first, after
<1>5. \A j \in 0..Len(rows) :
        Filled(rows)[j] = IF j = 0 THEN first ELSE after(Filled(rows)[j - 1], j)
  BY <1>4
<1>6. Filled(rows)[0] = first /\ \A j \in 1..Len(rows) : Filled(rows)[j] = after(Filled(rows)[j - 1], j)
  BY <1>5
<1> QED
  BY <1>6 DEF first, after

\* Rows that come later do not change the cache before them.
LEMMA FilledStable ==
  ASSUME NEW rows, NEW more, Len(rows) \in Nat, Len(more) \in Nat, Len(rows) <= Len(more),
         \A j \in 1..Len(rows) : more[j] = rows[j]
  PROVE  \A j \in 0..Len(rows) : Filled(more)[j] = Filled(rows)[j]
<1> DEFINE S == {n \in Nat : n <= Len(rows) => Filled(more)[n] = Filled(rows)[n]}
<1>1. 0 \in S
  BY FilledDef
<1>2. ASSUME NEW n \in Nat, n \in S PROVE n + 1 \in S
  <2> SUFFICES ASSUME n + 1 <= Len(rows) PROVE Filled(more)[n + 1] = Filled(rows)[n + 1]
    OBVIOUS
  <2>1. n + 1 \in 1..Len(rows) /\ n + 1 \in 1..Len(more) /\ (n + 1) - 1 = n
    OBVIOUS
  <2>2. Filled(more)[n] = Filled(rows)[n]
    BY <1>2
  <2> DEFINE current(r) == Replayed(Filled(r)[n], r[n + 1], n)
             next(r) == [l \in Levels |-> IF IsLeft(n, l) THEN current(r)[l] ELSE Filled(r)[n][l]]
  <2>3. current(more) = current(rows)
    BY <2>1, <2>2
  <2>4. next(more) = next(rows)
    <3> HIDE DEF current
    <3> QED
      BY <2>2, <2>3
  <2>5. Filled(more)[n + 1] = next(more)
    BY <2>1, FilledDef
  <2>6. Filled(rows)[n + 1] = next(rows)
    BY <2>1, FilledDef
  <2> QED
    BY <2>4, <2>5, <2>6
<1>3. \A n \in Nat : n \in S
  <2> HIDE DEF S
  <2> QED
    BY <1>1, <1>2, SetInduction
<1> QED
  BY <1>3

\* The rows are a sequence.
RowsAreLeaves == commitments \in Seq(Commitments)

LEMMA RowsInvariance == PathSpec => [](TypeOK /\ RowsAreLeaves)
<1>1. PathInit => RowsAreLeaves
  BY DEF PathInit, RowsAreLeaves
<1>2. TypeOK /\ RowsAreLeaves /\ [PathNext]_<<vars, commitments>> => RowsAreLeaves'
  <2> SUFFICES ASSUME TypeOK, RowsAreLeaves, [PathNext]_<<vars, commitments>> PROVE RowsAreLeaves'
    OBVIOUS
  <2>1. CASE Register
    <3>1. inserted[Len(commitments) + 1] \in Commitments
      BY <2>1 DEF Register, TypeOK, RowsAreLeaves
    <3> QED
      BY <2>1, <3>1 DEF Register, RowsAreLeaves
  <2>2. CASE UNCHANGED commitments
    BY <2>2 DEF RowsAreLeaves
  <2> QED
    BY <2>1, <2>2 DEF PathNext
<1> QED
  BY <1>1, <1>2, PathImplementsTree, TreeTypeCorrect, PTL DEF PathSpec

\* Whatever is registered and whatever lands, the path that the backend serves
\* for a leaf that has a row stays the same.
THEOREM ServedPathsStay == PathSpec => ServedStable
<1>1. RowsAreLeaves /\ [PathNext]_<<vars, commitments>>
        => [\A i \in 0..Len(commitments) - 1 :
              get_merkle_path(i)' = get_merkle_path(i)]_<<vars, commitments>>
  <2> SUFFICES ASSUME RowsAreLeaves, [PathNext]_<<vars, commitments>>,
                      NEW i \in 0..Len(commitments) - 1
               PROVE  get_merkle_path(i)' = get_merkle_path(i)
    OBVIOUS
  <2>1. /\ Len(commitments) \in Nat /\ Len(commitments') \in Nat
        /\ Len(commitments) <= Len(commitments')
        /\ \A j \in 1..Len(commitments) : commitments'[j] = commitments[j]
    BY DEF RowsAreLeaves, PathNext, Register, vars
  <2>2. Filled(commitments')[i] = Filled(commitments)[i]
    BY <2>1, FilledStable
  <2>3. i < Len(commitments) /\ i < Len(commitments')
    BY <2>1
  <2> DEFINE path(rows) ==
        [siblings |-> [l \in Levels |->
           IF i < Len(rows) /\ IsLeft(i, l) THEN Filled(rows)[i][l] ELSE ZeroLeaf],
         is_left |-> [l \in Levels |-> IsLeft(i, l)]]
  <2>4. path(commitments') = path(commitments)
    BY <2>2, <2>3
  <2>5. get_merkle_path(i)' = path(commitments') /\ get_merkle_path(i) = path(commitments)
    BY DEF get_merkle_path, IsLeft, Ancestor, Levels, Filled, Replayed, Hash
  <2> QED
    BY <2>4, <2>5
<1> QED
  BY <1>1, RowsInvariance, PTL DEF PathSpec, ServedStable

-----------------------------------------------------------------------------
(***************************************************************************)
(* The proof service.                                                      *)
(***************************************************************************)

\* With a Poseidon library the service walks a path as the circuit does.
LEMMA RootFromPath ==
  ASSUME NEW env, env.backend # "fallback", NEW leaf, NEW path, NEW is_left
  PROVE  merkle_root_from_path(env, leaf, path, is_left) = Walk(leaf, path, is_left)[Depth]
<1> DEFINE h(left, right) == hash(env, left, right)
           Is(f) == f = [l \in 0..Depth |->
             IF l = 0 THEN leaf
             ELSE IF is_left[l - 1] THEN h(f[l - 1], path[l - 1])
             ELSE h(path[l - 1], f[l - 1])]
           current == CHOOSE f : Is(f)
<1>1. merkle_root_from_path(env, leaf, path, is_left) = current[Depth]
  BY DEF merkle_root_from_path
<1>2. \A left, right : h(left, right) = Hash(left, right)
  BY DEF hash
<1> HIDE DEF h
<1>3. \E f : Is(f)
  <2> DEFINE w == Walk(leaf, path, is_left)
             g == [l \in 0..Depth |-> w[l]]
  <2>1. ASSUME NEW l \in 0..Depth, l # 0
        PROVE  /\ w[l] = IF is_left[l - 1] THEN h(w[l - 1], path[l - 1]) ELSE h(path[l - 1], w[l - 1])
               /\ g[l - 1] = w[l - 1]
    <3>1. l - 1 \in Levels /\ (l - 1) + 1 = l /\ l - 1 \in 0..Depth
      BY <2>1, SizesAssumption DEF Levels
    <3> QED
      BY <1>2, <3>1, WalkDef
  <2>2. w[0] = leaf
    BY WalkDef
  <2> HIDE DEF w
  <2>3. Is(g)
    BY <2>1, <2>2
  <2> QED
    BY <2>3
<1>4. Is(current)
  <2> HIDE DEF Is
  <2> QED
    BY <1>3
<1> HIDE DEF current
<1>5. current[0] = leaf
  BY <1>4, SizesAssumption
<1>6. ASSUME NEW n \in Levels
      PROVE  current[n + 1] = IF is_left[n] THEN Hash(current[n], path[n]) ELSE Hash(path[n], current[n])
  <2>1. n + 1 \in 0..Depth /\ n + 1 # 0 /\ (n + 1) - 1 = n
    BY SizesAssumption DEF Levels
  <2> QED
    BY <1>2, <1>4, <2>1
<1> DEFINE S == {n \in Nat : n <= Depth => current[n] = Walk(leaf, path, is_left)[n]}
<1>7. 0 \in S
  BY <1>5, WalkDef
<1>8. ASSUME NEW n \in Nat, n \in S PROVE n + 1 \in S
  <2>1. n + 1 <= Depth => n \in Levels /\ current[n] = Walk(leaf, path, is_left)[n]
    BY <1>8, SizesAssumption DEF Levels
  <2> QED
    BY <1>6, <2>1, WalkDef
<1>9. \A n \in Nat : n \in S
  <2> HIDE DEF S
  <2> QED
    BY <1>7, <1>8, SetInduction
<1> QED
  BY <1>1, <1>9, SizesAssumption

\* A request asks for one payload, if its keys can be read.
LEMMA RespondDef ==
  ASSUME NEW env, NEW note, NEW i, NEW form \in Forms, NEW asked
  PROVE  LET payload == [note |-> note, leaf_index |-> i, path |-> MerklePath(inserted, i),
                         is_left |-> [l \in Levels |-> IsLeft(i, l)],
                         recipient |-> asked.recipient, relayer |-> asked.relayer,
                         amount |-> asked.amount, fee_bps |-> asked.fee_bps]
         IN \A response : response \in respond(env, Request(note, i, form, asked))
              <=> form # "other" /\ response \in generate_withdraw_proof(env, payload)
<1> DEFINE path == MerklePath(inserted, i)
           is_left == [l \in Levels |-> IsLeft(i, l)]
           payload == [note |-> note, leaf_index |-> i, path |-> path, is_left |-> is_left,
                       recipient |-> asked.recipient, relayer |-> asked.relayer,
                       amount |-> asked.amount, fee_bps |-> asked.fee_bps]
           request == Request(note, i, form, asked)
           with(a, b) == [request EXCEPT !.recipient = a, !.relayer = b]
<1> HIDE DEF path, is_left
<1>1. with(asked.recipient, asked.relayer) = payload
  <2>1. request = [note |-> note, leaf_index |-> i, path |-> path, is_left |-> is_left,
                   recipient |-> [form |-> form, pubkey |-> asked.recipient],
                   relayer |-> [form |-> "base58", pubkey |-> asked.relayer],
                   amount |-> asked.amount, fee_bps |-> asked.fee_bps]
    BY DEF Request, path, is_left
  <2> HIDE DEF request
  <2>2. DOMAIN request = {"note", "leaf_index", "path", "is_left", "recipient", "relayer", "amount", "fee_bps"}
    BY <2>1
  <2>3. with(asked.recipient, asked.relayer) =
          [f \in DOMAIN request |-> IF f = "relayer" THEN asked.relayer
                                    ELSE IF f = "recipient" THEN asked.recipient ELSE request[f]]
    BY <2>2
  <2>4. payload =
          [f \in DOMAIN request |-> IF f = "relayer" THEN asked.relayer
                                    ELSE IF f = "recipient" THEN asked.recipient ELSE request[f]]
    BY <2>1, <2>2
  <2> QED
    BY <2>3, <2>4
<1>2. /\ _hex_to_pubkey_bytes(request.recipient) = IF form = "other" THEN {} ELSE {asked.recipient}
      /\ _hex_to_pubkey_bytes(request.relayer) = {asked.relayer}
  BY DEF Request, _hex_to_pubkey_bytes
<1>3. respond(env, request) =
        UNION {generate_withdraw_proof(env, with(a, b)) :
                 a \in _hex_to_pubkey_bytes(request.recipient),
                 b \in _hex_to_pubkey_bytes(request.relayer)}
  BY DEF respond
<1> HIDE DEF request, with, payload
<1>4. \A response : response \in respond(env, request)
        <=> form # "other" /\ response \in generate_withdraw_proof(env, payload)
  BY <1>1, <1>2, <1>3
<1> QED
  BY <1>4 DEF request, payload, path, is_left

\* A reduced key is below the modulus.
LEMMA KeysReduced ==
  ASSUME NEW key \in Pubkeys
  PROVE  _bytes_to_field(key) \in Nat /\ _bytes_to_field(key) < FieldModulus
<1>1. key \in Nat /\ FieldModulus \in Nat \ {0}
  BY KeysAssumption
<1> QED
  BY <1>1 DEF _bytes_to_field

\* The responses of a payload pay a withdrawal of its amount and rate on a root
\* if they are proofs, made with a Poseidon library, of a note in its tree, and
\* the withdrawal has the keys of the payload, reduced.
LEMMA PayingResponses ==
  ASSUME NEW env \in Environments, NEW payload, NEW w \in Terms,
         payload.recipient \in Pubkeys, payload.relayer \in Pubkeys,
         payload.amount = w.amount, payload.fee_bps = w.fee_bps,
         NEW root, root = Walk(payload.note, payload.path, payload.is_left)[Depth]
  PROVE  (\E response \in generate_withdraw_proof(env, payload) : Pays(response, w))
         <=> /\ env.backend # "fallback" /\ ~env.stub_mode /\ env.toolchain /\ env.circuit_dir
             /\ KeysMatch(payload, w)
             /\ \E j \in Slots : roots[j] = root
<1> DEFINE leaf == commitment(env, payload.note)
           inputs == PublicInputs(merkle_root_from_path(env, leaf, payload.path, payload.is_left),
                                  hash(env, payload.note, payload.leaf_index),
                                  _bytes_to_field(payload.recipient),
                                  _bytes_to_field(payload.relayer), payload)
           taken == PublicInputs(inputs[1], inputs[2],
                                 pubkey_to_field(w.recipient), pubkey_to_field(w.relayer), w)
           proofs == _produce_proof_bytes(env, payload, inputs)
           real == ~env.stub_mode /\ env.toolchain /\ env.circuit_dir
<1>1. generate_withdraw_proof(env, payload) = {[public_inputs |-> inputs, proof |-> proof] : proof \in proofs}
  BY DEF generate_withdraw_proof
<1>2. /\ inputs[1] = merkle_root_from_path(env, leaf, payload.path, payload.is_left)
      /\ inputs[2] = hash(env, payload.note, payload.leaf_index)
      /\ inputs # << >>
  BY DEF PublicInputs
<1>3. /\ inputs = taken <=> KeysMatch(payload, w)
      /\ KeysMatch(payload, w) => taken[3] < FieldModulus /\ taken[5] < FieldModulus
  <2>1. /\ inputs[3] = _bytes_to_field(payload.recipient) /\ inputs[5] = _bytes_to_field(payload.relayer)
        /\ taken[3] = w.recipient /\ taken[5] = w.relayer
    BY DEF PublicInputs, pubkey_to_field
  <2>2. KeysMatch(payload, w) <=> inputs[3] = taken[3] /\ inputs[5] = taken[5]
    BY <2>1 DEF KeysMatch, _bytes_to_field
  <2>3. inputs[3] = taken[3] /\ inputs[5] = taken[5] => inputs = taken
    BY DEF PublicInputs
  <2>4. inputs[3] < FieldModulus /\ inputs[5] < FieldModulus
    BY <2>1, KeysReduced
  <2> HIDE DEF inputs, taken
  <2> QED
    BY <2>2, <2>3, <2>4
<1> HIDE DEF inputs
<1>4. \A proof : Pays([public_inputs |-> inputs, proof |-> proof], w)
        <=> (\E j \in Slots : roots[j] = inputs[1]) /\ verify_withdraw_proof(proof, taken)
  BY DEF Pays
<1>5. taken # << >> /\ taken[1] = inputs[1]
  BY DEF PublicInputs
<1> HIDE DEF taken
<1>6. \A proof \in proofs : proof.of = taken => real /\ proof \in _run_toolchain(payload, inputs)
  BY <1>5 DEF _produce_proof_bytes
<1>7. ASSUME NEW response \in generate_withdraw_proof(env, payload), Pays(response, w)
      PROVE  /\ env.backend # "fallback" /\ real
             /\ KeysMatch(payload, w)
             /\ \E j \in Slots : roots[j] = root
  <2>1. PICK proof \in proofs : response = [public_inputs |-> inputs, proof |-> proof]
    BY <1>1, <1>7
  <2>2. (\E j \in Slots : roots[j] = inputs[1]) /\ proof.of = taken
    BY <1>4, <1>7, <2>1 DEF verify_withdraw_proof
  <2>3. real /\ proof \in _run_toolchain(payload, inputs)
    BY <1>6, <2>2
  <2>4. /\ CircuitAccepts(inputs[1], payload.note, payload.path, payload.is_left)
        /\ inputs[2] = Hash(payload.note, payload.leaf_index)
        /\ proof.of = inputs
    BY <2>3 DEF _run_toolchain
  <2>5. env.backend # "fallback"
    <3>1. \A a, b, c, d, e : <<a, b, c>> # <<d, e>>
      <4>1. \A a, b, c, d, e : Len(<<a, b, c>>) = 3 /\ Len(<<d, e>>) = 2
        OBVIOUS
      <4> QED
        BY <4>1
    <3> QED
      BY <1>2, <2>4, <3>1 DEF hash, Hash
  <2>6. inputs[1] = root
    BY <2>4 DEF CircuitAccepts
  <2>7. KeysMatch(payload, w)
    BY <1>3, <2>2, <2>4
  <2> QED
    BY <2>2, <2>3, <2>5, <2>6, <2>7
<1>8. ASSUME env.backend # "fallback", real, KeysMatch(payload, w), \E j \in Slots : roots[j] = root
      PROVE  \E response \in generate_withdraw_proof(env, payload) : Pays(response, w)
  <2>1. leaf = payload.note
    BY <1>8 DEF commitment
  <2>2. inputs[1] = root
    BY <1>2, <1>8, <2>1, RootFromPath
  <2>3. inputs[2] = Hash(payload.note, payload.leaf_index)
    BY <1>2, <1>8 DEF hash
  <2> DEFINE proof == [of |-> inputs, bytes |-> PROOF_BYTE_LEN]
  <2>4. proof \in _run_toolchain(payload, inputs)
    BY <2>2, <2>3 DEF _run_toolchain, CircuitAccepts
  <2>5. proof \in proofs
    BY <1>8, <2>4 DEF _produce_proof_bytes
  <2>6. verify_withdraw_proof(proof, taken)
    BY <1>3, <1>8 DEF verify_withdraw_proof
  <2> HIDE DEF proof, proofs
  <2>7. Pays([public_inputs |-> inputs, proof |-> proof], w)
    BY <1>4, <1>8, <2>2, <2>6
  <2> QED
    BY <1>1, <2>5, <2>7
<1> QED
  BY <1>7, <1>8

\* For every tree, every position, every note that can be opened and all keys:
\* the proof service makes a proof that the program pays a withdrawal on for the
\* note of the leaf, and for no other, exactly where it has a Poseidon library
\* and the tools and the withdrawal goes to the keys of the request, reduced.
THEOREM ServiceProofsPay == Spec => []ProofsPay
<1>1. TreeInv => ProofsPay
  <2> SUFFICES ASSUME TreeInv, commitment_count > 0, NEW env \in Environments,
                      NEW i \in 0..commitment_count - 1, NEW note \in Notes, NEW form \in Forms,
                      NEW asked \in Terms, NEW w \in Terms
               PROVE  (\E response \in respond(env, Request(note, i, form, asked)) : Pays(response, w))
                      <=> /\ note = inserted[i + 1] /\ form # "other" /\ KeysMatch(asked, w)
                          /\ env.backend # "fallback" /\ ~env.stub_mode /\ env.toolchain /\ env.circuit_dir
    BY DEF ProofsPay
  <2> DEFINE path == MerklePath(inserted, i)
             is_left == [l \in Levels |-> IsLeft(i, l)]
             payload == [note |-> note, leaf_index |-> i, path |-> path, is_left |-> is_left,
                         recipient |-> asked.recipient, relayer |-> asked.relayer,
                         amount |-> asked.amount, fee_bps |-> asked.fee_bps]
             root == Walk(note, path, is_left)[Depth]
             tree == [inserted EXCEPT ![i + 1] = note]
  <2>1. \A response : response \in respond(env, Request(note, i, form, asked))
          <=> form # "other" /\ response \in generate_withdraw_proof(env, payload)
    BY RespondDef
  <2>2. (\E response \in generate_withdraw_proof(env, payload) : Pays(response, w))
        <=> /\ env.backend # "fallback" /\ ~env.stub_mode /\ env.toolchain /\ env.circuit_dir
            /\ KeysMatch(asked, w)
            /\ \E j \in Slots : roots[j] = root
    <3>1. /\ payload.recipient = asked.recipient /\ payload.relayer = asked.relayer
          /\ payload.amount = asked.amount /\ payload.fee_bps = asked.fee_bps
          /\ root = Walk(payload.note, payload.path, payload.is_left)[Depth]
      OBVIOUS
    <3> HIDE DEF payload, root
    <3>2. /\ asked.recipient \in Pubkeys /\ asked.relayer \in Pubkeys
          /\ asked.amount = w.amount /\ asked.fee_bps = w.fee_bps
      BY DEF Terms
    <3>3. KeysMatch(payload, w) <=> KeysMatch(asked, w)
      BY <3>1 DEF KeysMatch
    <3> QED
      BY <3>1, <3>2, <3>3, PayingResponses
  <2>3. /\ inserted \in Seq(Commitments) /\ Len(inserted) = commitment_count
        /\ commitment_count \in Nat /\ commitment_count <= 2 ^ Depth
        /\ note \in Commitments /\ note # ZeroLeaf
    BY Prefixes DEF TreeInv, TypeOK, Notes
  <2>4. root = TreeRoot(tree)
    BY <2>3, WalkClimbs
  <2>5. /\ tree \in Seq(Commitments) /\ Len(tree) = commitment_count /\ tree[i + 1] = note
        /\ i \in Nat /\ i + 1 \in 1..commitment_count
    BY <2>3
  <2>6. (\E j \in Slots : roots[j] = root) <=> note = inserted[i + 1]
    <3>1. ASSUME NEW j \in Slots, roots[j] = root PROVE note = inserted[i + 1]
      <4> HIDE DEF root, tree
      <4>1. PICK n \in 1..commitment_count : SameTree(SubSeq(inserted, 1, n), tree)
        BY <2>3, <2>4, <2>5, <3>1, WindowRoots
      <4>2. i \in 0..2 ^ Depth - 1
        BY <2>3, <2>5, Prefixes
      <4>3. Leaf(SubSeq(inserted, 1, n), i) = note
        BY <2>5, <4>1, <4>2 DEF SameTree, Leaf
      <4>4. Len(SubSeq(inserted, 1, n)) = n /\ \A k \in 1..n : SubSeq(inserted, 1, n)[k] = inserted[k]
        BY <2>3, Prefixes
      <4> QED
        BY <2>3, <2>5, <4>3, <4>4 DEF Leaf
    <3>2. ASSUME note = inserted[i + 1] PROVE \E j \in Slots : roots[j] = root
      <4>1. tree = SubSeq(inserted, 1, commitment_count)
        BY <2>3, <3>2, Prefixes
      <4>2. commitment_count \in 1..commitment_count /\ commitment_count - commitment_count < RootHistorySize
        BY <2>3, SizesAssumption
      <4> QED
        BY <2>4, <4>1, <4>2, RememberedRoots
    <3> QED
      BY <3>1, <3>2
  <2> HIDE DEF payload, root
  <2> QED
    BY <2>1, <2>2, <2>6
<1> QED
  BY <1>1, TreeInvariance, PTL
=============================================================================
