----------------------------- MODULE ServedPath -----------------------------
(***************************************************************************)
(* The witness that the backend serves to a wallet: get_merkle_path of     *)
(* routers/anonymity.py, beside the tree of MerkleTree.  It replays the    *)
(* rows of db.commitments up to the leaf that is asked for.  Rows are      *)
(* registered some time after their deposits landed, here in the same      *)
(* order; DepositRegistry shows that their indices have no gaps.           *)
(***************************************************************************)
EXTENDS MerkleTree

VARIABLE commitments  \* db.commitments, in the order of merkle_index

PathInit == Init /\ commitments = << >>

Register ==
  /\ Len(commitments) < Len(inserted)
  /\ commitments' = Append(commitments, inserted[Len(commitments) + 1])
  /\ UNCHANGED vars

PathNext == Register \/ (Next /\ UNCHANGED commitments)

PathSpec == PathInit /\ [][PathNext]_<<vars, commitments>>

-----------------------------------------------------------------------------

\* The node above leaf idx at each level while it is replayed onto a cache.  In
\* place of an empty subtree there is the zero leaf, at every level.
Replayed(filled, leaf, idx) ==
  LET current[l \in 0..Depth] ==
        IF l = 0 THEN leaf
        ELSE IF IsLeft(idx, l - 1) THEN Hash(current[l - 1], ZeroLeaf)
        ELSE Hash(filled[l - 1], current[l - 1])
  IN current

\* The cache `filled` after each number of rows.
Filled(rows) ==
  LET filled[j \in 0..Len(rows)] ==
        IF j = 0 THEN [l \in Levels |-> ZeroLeaf]
        ELSE LET current == Replayed(filled[j - 1], rows[j], j - 1)
             IN [l \in Levels |-> IF IsLeft(j - 1, l) THEN current[l] ELSE filled[j - 1][l]]
  IN filled

\* Mutant: all rows are replayed, not only those up to the leaf.
MerklePathLatest(i) ==
  [siblings |-> [l \in Levels |->
     IF i < Len(commitments) /\ IsLeft(i, l) THEN Filled(commitments)[Len(commitments)][l] ELSE ZeroLeaf],
   is_left |-> [l \in Levels |-> IsLeft(i, l)]]

\* The answer for leaf i: on the left the cache before the leaf is replayed, on
\* the right a zero.  While there are no rows at all it is the path of zeros.
get_merkle_path(i) ==
  [siblings |-> [l \in Levels |->
     IF i < Len(commitments) /\ IsLeft(i, l) THEN Filled(commitments)[i][l] ELSE ZeroLeaf],
   is_left |-> [l \in Levels |-> IsLeft(i, l)]]

-----------------------------------------------------------------------------

\* The path of a leaf that has a row never changes: rows registered later, and
\* deposits that land later, do not reach into it.
ServedStable ==
  [][\A i \in 0..Len(commitments) - 1 :
       get_merkle_path(i)' = get_merkle_path(i)]_<<vars, commitments>>

\* The comment of get_merkle_path: "The sibling we record is the one the
\* on-chain verifier expects: zero if the leaf is on the left, the cached
\* filled subtree if it is on the right."
SiblingsAsCommented ==
  \A i \in 0..Len(commitments) - 1 : \A l \in Levels :
    get_merkle_path(i).siblings[l] = IF IsLeft(i, l) THEN ZeroLeaf ELSE Filled(commitments)[i][l]
=============================================================================
