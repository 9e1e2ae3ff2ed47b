----------------------------- MODULE MerkleTree -----------------------------
(***************************************************************************)
(* The incremental Merkle tree of the program (merkle.rs), its window of   *)
(* recent roots (state.rs) and the path check of the withdrawal circuit    *)
(* (main.nr).  Poseidon is taken to be free of collisions: the hash of two *)
(* nodes is the pair of them.                                              *)
(*                                                                         *)
(* Pool names a root by the sequence of leaves it commits to.  The         *)
(* properties of this module are what makes that right.                    *)
(***************************************************************************)
EXTENDS Integers, Sequences

CONSTANTS
  Depth,            \* MERKLE_TREE_DEPTH
  RootHistorySize,  \* ROOT_HISTORY_SIZE
  Commitments,      \* values of a deposit: any bytes, all zeros too
  ZeroLeaf,         \* the value of a leaf that was not inserted, all zeros
  ZeroRoot          \* an unused slot of the window

ASSUME SizesAssumption == Depth \in Nat \ {0} /\ RootHistorySize \in Nat \ {0}

VARIABLES
  commitment_count,  \* MerkleTreeState.commitment_count
  filled_subtrees,   \* MerkleTreeState.filled_subtrees
  roots,             \* MerkleTreeState.roots
  root_cursor,       \* MerkleTreeState.root_cursor
  inserted           \* history: the leaves inserted so far

vars == <<commitment_count, filled_subtrees, roots, root_cursor, inserted>>

Levels == 0..Depth - 1
Slots == 0..RootHistorySize - 1

\* Mutant: a hash of unordered pairs.
HashUnordered(left, right) == {left, right}

Hash(left, right) == <<left, right>>

\* zero_values: zeros[l] is the root of an empty subtree with l levels.
zeros[l \in 0..Depth] == IF l = 0 THEN ZeroLeaf ELSE Hash(zeros[l - 1], zeros[l - 1])
empty_root == zeros[Depth]

\* Mutant: right children are cached too, over the left siblings.
ClimbCachingAll(leaf) ==
  LET after[l \in 0..Depth] ==
        IF l = 0
        THEN [hash |-> leaf, index |-> commitment_count, filled |-> filled_subtrees]
        ELSE LET prev == after[l - 1]
             IN [hash |-> IF prev.index % 2 = 0 THEN Hash(prev.hash, zeros[l - 1])
                          ELSE Hash(prev.filled[l - 1], prev.hash),
                 index |-> prev.index \div 2,
                 filled |-> [prev.filled EXCEPT ![l - 1] = prev.hash]]
  IN after

\* The loop of insert: after l levels, the node above the new leaf, its index
\* at that level, and the cache of left siblings.
Climb(leaf) ==
  LET after[l \in 0..Depth] ==
        IF l = 0
        THEN [hash |-> leaf, index |-> commitment_count, filled |-> filled_subtrees]
        ELSE LET prev == after[l - 1]
                 even == prev.index % 2 = 0
             IN [hash |-> IF even THEN Hash(prev.hash, zeros[l - 1])
                          ELSE Hash(prev.filled[l - 1], prev.hash),
                 index |-> prev.index \div 2,
                 filled |-> IF even THEN [prev.filled EXCEPT ![l - 1] = prev.hash]
                            ELSE prev.filled]
  IN after

Init ==
  /\ commitment_count = 0
  /\ filled_subtrees = [l \in Levels |-> zeros[l]]
  /\ roots = [j \in Slots |-> IF j = 0 THEN empty_root ELSE ZeroRoot]
  /\ root_cursor = 0
  /\ inserted = << >>

\* Mutant: the cursor stays where it is.
InsertInPlace(leaf) ==
  /\ commitment_count < 2 ^ Depth
  /\ LET top == Climb(leaf)[Depth] IN
       /\ filled_subtrees' = top.filled
       /\ roots' = [roots EXCEPT ![root_cursor] = top.hash]
  /\ commitment_count' = commitment_count + 1
  /\ inserted' = Append(inserted, leaf)
  /\ UNCHANGED root_cursor

\* Mutant: the cursor is not wrapped.
InsertUnwrapped(leaf) ==
  /\ commitment_count < 2 ^ Depth
  /\ LET top == Climb(leaf)[Depth] IN
       /\ filled_subtrees' = top.filled
       /\ roots' = [roots EXCEPT ![root_cursor] = top.hash]
  /\ root_cursor' = root_cursor + 1
  /\ commitment_count' = commitment_count + 1
  /\ inserted' = Append(inserted, leaf)

\* merkle::insert: climb to the new root and push it on the window.
insert(leaf) ==
  /\ commitment_count < 2 ^ Depth
  /\ LET top == Climb(leaf)[Depth] IN
       /\ filled_subtrees' = top.filled
       /\ roots' = [roots EXCEPT ![root_cursor] = top.hash]
  /\ root_cursor' = (root_cursor + 1) % RootHistorySize
  /\ commitment_count' = commitment_count + 1
  /\ inserted' = Append(inserted, leaf)

Next == \E leaf \in Commitments : insert(leaf)

Spec == Init /\ [][Next]_vars

-----------------------------------------------------------------------------
(***************************************************************************)
(* The reference: the whole tree over a sequence of leaves.                *)
(***************************************************************************)

\* The levels of the tree over leaves s, as wide as one cares to look: level 0
\* are the leaves, and the empty subtrees beyond them go on for ever.
Tree(s) ==
  LET level[l \in 0..Depth] ==
        IF l = 0 THEN [i \in Nat |-> IF i < Len(s) THEN s[i + 1] ELSE ZeroLeaf]
        ELSE [i \in Nat |-> Hash(level[l - 1][2 * i], level[l - 1][2 * i + 1])]
  IN level

Node(s, l, i) == Tree(s)[l][i]

TreeRoot(s) == Node(s, Depth, 0)

\* The witness the owner of leaf i feeds the circuit: the siblings on the way
\* up, and at each level whether the current node is the left child.
Ancestor(i, l) == i \div (2 ^ l)
IsLeft(i, l) == Ancestor(i, l) % 2 = 0
MerklePath(s, i) ==
  [l \in Levels |-> Node(s, l, IF IsLeft(i, l) THEN Ancestor(i, l) + 1 ELSE Ancestor(i, l) - 1)]

\* main.nr, step 3: walk the path and compare with the public root.
Walk(commitment, path, is_left) ==
  LET current[l \in 0..Depth] ==
        IF l = 0 THEN commitment
        ELSE IF is_left[l - 1] THEN Hash(current[l - 1], path[l - 1])
        ELSE Hash(path[l - 1], current[l - 1])
  IN current

CircuitAccepts(root, commitment, path, is_left) == Walk(commitment, path, is_left)[Depth] = root

-----------------------------------------------------------------------------

\* The counters stay in range.
TypeOK ==
  /\ commitment_count \in 0..2 ^ Depth
  /\ root_cursor \in Slots
  /\ DOMAIN filled_subtrees = Levels
  /\ DOMAIN roots = Slots
  /\ inserted \in Seq(Commitments) /\ Len(inserted) = commitment_count

\* The slot written d insertions ago.
Back(d) == IF d <= root_cursor THEN root_cursor - d ELSE root_cursor + RootHistorySize - d

\* Every root in the window is the root of the full tree over the leaves that
\* were there when it was pushed, newest first.
WindowHoldsTreeRoots ==
  \A d \in 1..RootHistorySize : d <= commitment_count =>
    roots[Back(d)] = TreeRoot(SubSeq(inserted, 1, commitment_count + 1 - d))

SequencesUpTo(n) == UNION {[1..k -> Commitments] : k \in 0..n}

\* An unused slot, all zeros, is no root: no preimage of it is known.
ASSUME ZeroRootAssumption == \A s \in SequencesUpTo(2 ^ Depth) : TreeRoot(s) # ZeroRoot

\* The leaf at a position, and whether two sequences of leaves fill the tree
\* alike: a deposit of zeros cannot be told from a leaf that was not inserted.
Leaf(s, i) == IF i < Len(s) THEN s[i + 1] ELSE ZeroLeaf
SameTree(s, t) == \A i \in 0..2 ^ Depth - 1 : Leaf(s, i) = Leaf(t, i)

\* The newest root determines the leaves: the sequences that have it fill the
\* tree as the deposits do, and no other has it.
RootDeterminesLeaves ==
  commitment_count > 0 =>
    \A s \in SequencesUpTo(2 ^ Depth) : TreeRoot(s) = roots[Back(1)] <=> SameTree(s, inserted)

\* A path handed out earlier verifies for as long as its root is in the window:
\* later insertions do not invalidate it, falling out of the window does.  Its
\* root is that of every moment when the tree was filled alike: of one, unless
\* zeros were deposited.
StalePathsVerify ==
  \A k \in 1..commitment_count : \A i \in 0..k - 1 :
    LET then == SubSeq(inserted, 1, k)
        accepted == \E j \in Slots :
          CircuitAccepts(roots[j], inserted[i + 1], MerklePath(then, i),
                         [l \in Levels |-> IsLeft(i, l)])
    IN accepted <=> \E n \in 1..commitment_count :
                      /\ commitment_count - n < RootHistorySize
                      /\ SameTree(SubSeq(inserted, 1, n), then)
=============================================================================
