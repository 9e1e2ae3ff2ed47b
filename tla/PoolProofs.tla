----------------------------- MODULE PoolProofs -----------------------------
(***************************************************************************)
(* Proofs about Pool, for every set of mints and users, every denomination *)
(* and fee, every tree capacity and every size of the root window.         *)
(***************************************************************************)
EXTENDS Pool, Induction, SequenceTheorems

-----------------------------------------------------------------------------
(***************************************************************************)
(* The arithmetic of split_payout and of the ring buffer.                  *)
(***************************************************************************)

\* split_payout: the two parts are natural numbers that add up to the amount,
\* and the relayer's part is at most a tenth of it (MAX_RELAYER_FEE_BPS).
THEOREM SplitPayout ==
  ASSUME NEW amount \in Nat, NEW fee \in 0..MAX_RELAYER_FEE_BPS
  PROVE  /\ relayer_cut(amount, fee) \in Nat
         /\ recipient_amount(amount, fee) \in Nat
         /\ recipient_amount(amount, fee) + relayer_cut(amount, fee) = amount
         /\ 10 * relayer_cut(amount, fee) <= amount
<1> DEFINE product == amount * fee
<1>1. fee \in Nat /\ fee <= 1000
  BY DEF MAX_RELAYER_FEE_BPS
<1>2. product \in Nat /\ product <= 1000 * amount
  BY <1>1
<1>3. ASSUME NEW x \in Nat, x <= 1000 * amount
      PROVE  x \div 10000 \in Nat /\ 10 * (x \div 10000) <= amount
  BY <1>3
<1>4. relayer_cut(amount, fee) = product \div 10000
  BY DEF relayer_cut
<1>5. relayer_cut(amount, fee) \in Nat /\ 10 * relayer_cut(amount, fee) <= amount
  BY <1>2, <1>3, <1>4
<1> QED
  BY <1>5 DEF recipient_amount

\* The cursor of the ring buffer moves to the next slot and wraps around.
LEMMA NextCursor ==
  ASSUME NEW H \in Nat \ {0}, NEW c \in 0..H - 1
  PROVE  (c + 1) % H = IF c + 1 = H THEN 0 ELSE c + 1
<1>1. CASE c + 1 = H
  BY <1>1
<1>2. CASE c + 1 < H
  BY <1>2
<1> QED
  BY <1>1, <1>2

-----------------------------------------------------------------------------
(***************************************************************************)
(* Sequences of commitments.                                               *)
(***************************************************************************)

\* Appending a leaf adds it at the end and leaves the earlier prefixes alone.
LEMMA AppendLeaf ==
  ASSUME NEW s \in Root, NEW n \in Notes
  PROVE  /\ Append(s, n) \in Root
         /\ Len(Append(s, n)) = Len(s) + 1
         /\ \A i \in 1..Len(s) : Append(s, n)[i] = s[i]
         /\ \A k \in 0..Len(s) : SubSeq(Append(s, n), 1, k) = SubSeq(s, 1, k)
         /\ SubSeq(Append(s, n), 1, Len(s) + 1) = Append(s, n)
<1>1. /\ Append(s, n) \in Root
      /\ Len(Append(s, n)) = Len(s) + 1
      /\ \A i \in 1..Len(s) : Append(s, n)[i] = s[i]
  BY DEF Root
<1>2. \A k \in 0..Len(s) : SubSeq(Append(s, n), 1, k) = SubSeq(s, 1, k)
  BY <1>1 DEF Root
<1>3. SubSeq(Append(s, n), 1, Len(s) + 1) = Append(s, n)
  BY <1>1, SubSeqFull DEF Root
<1> QED
  BY <1>1, <1>2, <1>3

-----------------------------------------------------------------------------
(***************************************************************************)
(* Type correctness.                                                       *)
(***************************************************************************)

LEMMA InitTypeOK == Init => TypeOK
<1> USE SizesAssumption DEF Slots
<1> SUFFICES ASSUME Init PROVE TypeOK
  OBVIOUS
<1>1. leaves \in [Mints -> Root] /\ \A m \in Mints : Len(leaves[m]) = commitment_count[m]
  BY DEF Init, Root
<1> QED
  BY <1>1 DEF Init, TypeOK, MAX_RELAYER_FEE_BPS

\* Each instruction preserves the types.
LEMMA InitializeTypeOK ==
  ASSUME TypeOK, NEW m \in Mints, NEW u \in Authorities,
         NEW amount \in Denominations, NEW fee \in FeeRates,
         Initialize(u, m, amount, fee)
  PROVE  TypeOK'
<1> USE SizesAssumption DEF TypeOK, Initialize, tree, funds, spent
<1>1. fee \in 0..MAX_RELAYER_FEE_BPS /\ amount \in Nat
  BY DEF MAX_RELAYER_FEE_BPS
<1>2. [j \in Slots |-> IF j = 0 THEN << >> ELSE ZeroRoot] \in [Slots -> Root \cup {ZeroRoot}]
  BY DEF Root
<1>3. (/\ roots \in [Mints -> [Slots -> Root \cup {ZeroRoot}]]
       /\ authority \in [Mints -> Authorities \cup {NoAuthority}]
       /\ denomination \in [Mints -> Nat]
       /\ relayer_fee_bps \in [Mints -> 0..MAX_RELAYER_FEE_BPS])'
  BY <1>1, <1>2
<1> QED
  BY <1>3

LEMMA DepositTypeOK ==
  ASSUME TypeOK, NEW m \in Mints, NEW u \in Wallets, NEW n \in Notes, Deposit(u, m, n)
  PROVE  TypeOK'
<1> USE SizesAssumption DEF TypeOK, Users
<1>1. /\ leaves' = [leaves EXCEPT ![m] = Append(@, n)]
      /\ roots' = [roots EXCEPT ![m][root_cursor[m]] = Append(leaves[m], n)]
      /\ root_cursor' = [root_cursor EXCEPT ![m] = (@ + 1) % RootHistorySize]
      /\ commitment_count' = [commitment_count EXCEPT ![m] = @ + 1]
      /\ commitment_count[m] < Capacity
      /\ balance' = [balance EXCEPT ![m][u] = @ - denomination[m]]
      /\ balance[m][u] >= denomination[m]
      /\ vault' = [vault EXCEPT ![m] = @ + denomination[m]]
      /\ UNCHANGED <<config, spent, proofs>>
  BY DEF Deposit, Insert
<1>2. Append(leaves[m], n) \in Root /\ Len(Append(leaves[m], n)) = commitment_count[m] + 1
  BY AppendLeaf
<1>3. root_cursor'[m] \in Slots
  <2>1. root_cursor[m] \in 0..RootHistorySize - 1
    BY DEF Slots
  <2>2. (root_cursor[m] + 1) % RootHistorySize \in 0..RootHistorySize - 1
    BY <2>1, NextCursor
  <2>3. root_cursor'[m] = (root_cursor[m] + 1) % RootHistorySize
    BY <1>1
  <2> QED
    BY <2>2, <2>3 DEF Slots
<1>4. (root_cursor \in [Mints -> Slots])'
  BY <1>1, <1>3
<1>5. (/\ leaves \in [Mints -> Root]
       /\ \A k \in Mints : Len(leaves[k]) = commitment_count[k]
       /\ commitment_count \in [Mints -> 0..Capacity])'
  BY <1>1, <1>2
<1>6. (roots \in [Mints -> [Slots -> Root \cup {ZeroRoot}]])'
  BY <1>1, <1>2
<1>7. (vault \in [Mints -> Nat])'
  BY <1>1
<1>8. balance[m][u] - denomination[m] \in Nat
  BY <1>1
<1>9. (balance \in [Mints -> [Users -> Nat]])'
  BY <1>1, <1>8
<1> QED
  BY <1>1, <1>4, <1>5, <1>6, <1>7, <1>9 DEF config, spent

LEMMA ProveTypeOK ==
  ASSUME TypeOK, NEW m \in Mints, NEW i \in 0..Capacity - 1, NEW leaf_index \in LeafIndices,
         NEW recipient \in Wallets, NEW relayer \in Relayers,
         Prove(m, i, leaf_index, recipient, relayer)
  PROVE  TypeOK'
<1> USE SizesAssumption DEF TypeOK
<1>1. i + 1 \in 1..Len(leaves[m]) /\ leaves[m][i + 1] \in Notes
  BY DEF Root, Prove
<1>2. Hash(leaves[m][i + 1], leaf_index) \in NullifierHash
  BY <1>1 DEF Hash, NullifierHash, Notes
<1>3. RootAfter(m, commitment_count[m]) \in Root
  BY DEF RootAfter, Root
<1>4. denomination[m] \in Nat /\ relayer_fee_bps[m] \in Nat
  <2>1. 0..MAX_RELAYER_FEE_BPS \subseteq Nat
    BY DEF MAX_RELAYER_FEE_BPS
  <2> QED
    BY <2>1
<1>5. proofs' \subseteq Proof
  BY <1>2, <1>3, <1>4, SizesAssumption DEF Proof, Prove
<1> QED
  BY <1>5 DEF Prove, config, tree, funds, spent

LEMMA WithdrawTypeOK ==
  ASSUME TypeOK, NEW m \in Mints, NEW p \in proofs, Withdraw(m, p)
  PROVE  TypeOK'
<1> USE DEF TypeOK
<1> DEFINE cut == relayer_cut(p.amount, p.fee_bps)
           rest == recipient_amount(p.amount, p.fee_bps)
<1>1. /\ p.nullifier_hash \in NullifierHash
      /\ p.recipient \in Users
      /\ p.relayer \in Users
      /\ PayoutOf(p) \in Payout
  BY DEF Proof, Users, PayoutOf, Payout
<1>2. /\ p.amount = denomination[m] /\ p.fee_bps = relayer_fee_bps[m]
      /\ vault[m] >= p.amount
      /\ nullifiers' = nullifiers \cup {p.nullifier_hash}
      /\ payouts' = [payouts EXCEPT ![m] = @ \cup {PayoutOf(p)}]
      /\ vault' = [vault EXCEPT ![m] = @ - p.amount]
      /\ balance' = [balance EXCEPT ![m] = Credit(Credit(@, p.recipient, rest), p.relayer, cut)]
      /\ UNCHANGED <<config, tree, proofs>>
  BY DEF Withdraw, VerifyAndRecord
<1>3. cut \in Nat /\ rest \in Nat
  BY <1>2, SplitPayout
<1>4. Credit(Credit(balance[m], p.recipient, rest), p.relayer, cut) \in [Users -> Nat]
  <2> HIDE DEF cut, rest
  <2>1. \A b \in [Users -> Nat], u \in Users, a \in Nat : Credit(b, u, a) \in [Users -> Nat]
    BY DEF Credit
  <2> QED
    BY <1>1, <1>3, <2>1
<1>5. (balance \in [Mints -> [Users -> Nat]])'
  BY <1>2, <1>4
<1>6. (vault \in [Mints -> Nat])'
  BY <1>2
<1> QED
  BY <1>1, <1>2, <1>5, <1>6 DEF config, tree

LEMMA AdminTypeOK ==
  ASSUME TypeOK, NEW m \in Mints, NEW u \in Authorities, NEW v \in Authorities,
         Pause(u, m) \/ Unpause(u, m) \/ RotateAuthority(u, m, v)
  PROVE  TypeOK'
BY DEF TypeOK, Pause, Unpause, RotateAuthority, tree, funds, spent

\* Every state of the program is well typed; in particular no balance becomes
\* negative, the tree never overflows and the cursor never leaves the buffer.
THEOREM TypeCorrect == Spec => []TypeOK
<1>1. TypeOK /\ [Next]_vars => TypeOK'
  <2> SUFFICES ASSUME TypeOK, [Next]_vars PROVE TypeOK'
    OBVIOUS
  <2>1. CASE UNCHANGED vars
    BY <2>1 DEF TypeOK, vars, config, tree, funds, spent
  <2>2. ASSUME NEW m \in Mints, NEW u \in Authorities,
               NEW amount \in Denominations, NEW fee \in FeeRates,
               Initialize(u, m, amount, fee)
        PROVE  TypeOK'
    BY <2>2, InitializeTypeOK
  <2>3. ASSUME NEW m \in Mints, NEW u \in Wallets, NEW n \in Notes, Deposit(u, m, n)
        PROVE  TypeOK'
    BY <2>3, DepositTypeOK
  <2>4. ASSUME NEW m \in Mints, NEW i \in 0..Capacity - 1, NEW leaf_index \in LeafIndices,
               NEW recipient \in Wallets, NEW relayer \in Relayers,
               Prove(m, i, leaf_index, recipient, relayer)
        PROVE  TypeOK'
    BY <2>4, ProveTypeOK
  <2>5. ASSUME NEW m \in Mints, NEW p \in proofs, Withdraw(m, p)
        PROVE  TypeOK'
    BY <2>5, WithdrawTypeOK
  <2>6. ASSUME NEW m \in Mints, NEW u \in Authorities, NEW v \in Authorities,
               Pause(u, m) \/ Unpause(u, m) \/ RotateAuthority(u, m, v)
        PROVE  TypeOK'
    BY <2>6, AdminTypeOK
  <2> QED
    BY <2>1, <2>2, <2>3, <2>4, <2>5, <2>6 DEF Next
<1> QED
  BY InitTypeOK, <1>1, PTL DEF Spec

-----------------------------------------------------------------------------
(***************************************************************************)
(* The root window.                                                        *)
(***************************************************************************)

\* Going back 1, 2, ..., RootHistorySize slots from the cursor visits every
\* slot of the ring buffer, and distinct distances reach distinct slots.
LEMMA BackSlots ==
  ASSUME TypeOK, NEW m \in Mints
  PROVE  /\ \A d \in 1..RootHistorySize : Back(m, d) \in Slots
         /\ \A j \in Slots : \E d \in 1..RootHistorySize : Back(m, d) = j
         /\ \A d, e \in 1..RootHistorySize : Back(m, d) = Back(m, e) => d = e
<1> USE SizesAssumption DEF Slots, Back
<1>1. root_cursor[m] \in Slots
  BY DEF TypeOK
<1>2. \A d \in 1..RootHistorySize : Back(m, d) \in Slots
  BY <1>1
<1>3. ASSUME NEW j \in Slots
      PROVE  \E d \in 1..RootHistorySize : Back(m, d) = j
  <2>1. CASE j < root_cursor[m]
    <3>1. root_cursor[m] - j \in 1..RootHistorySize /\ Back(m, root_cursor[m] - j) = j
      BY <1>1, <2>1
    <3> QED
      BY <3>1
  <2>2. CASE j >= root_cursor[m]
    <3> DEFINE e == root_cursor[m] + RootHistorySize - j
    <3>1. e \in 1..RootHistorySize /\ Back(m, e) = j
      BY <1>1, <2>2
    <3> QED
      BY <3>1
  <2> QED
    BY <1>1, <2>1, <2>2
<1>4. \A d, e \in 1..RootHistorySize : Back(m, d) = Back(m, e) => d = e
  BY <1>1
<1> QED
  BY <1>2, <1>3, <1>4

\* A root of a pool with k leaves is a sequence of k commitments of the tree.
LEMMA RootAfterType ==
  ASSUME TypeOK, NEW m \in Mints, NEW k \in 0..commitment_count[m]
  PROVE  /\ RootAfter(m, k) \in Root
         /\ RootAfter(m, k) # ZeroRoot
         /\ Len(RootAfter(m, k)) = k
         /\ \A i \in 1..k : RootAfter(m, k)[i] = leaves[m][i]
<1>1. leaves[m] \in Seq(Notes) /\ Len(leaves[m]) = commitment_count[m] /\ k \in Nat
  BY SizesAssumption DEF TypeOK, Root
<1>2. /\ RootAfter(m, k) \in Seq(Notes)
      /\ Len(RootAfter(m, k)) = k
      /\ \A i \in 1..k : RootAfter(m, k)[i] = leaves[m][i]
  BY <1>1 DEF RootAfter
<1> QED
  BY <1>2, ZeroRootAssumption DEF Root, Notes

\* A root the pool knows is the root of some prefix of its leaves.
LEMMA KnownRootIsPrefix ==
  ASSUME TypeOK, RootWindow, NEW m \in initialized, NEW r \in Root, root_is_known(m, r)
  PROVE  \E k \in 0..commitment_count[m] : r = RootAfter(m, k)
<1>1. m \in Mints /\ commitment_count[m] \in Nat
  BY SizesAssumption DEF TypeOK
<1>2. PICK d \in 1..RootHistorySize : roots[m][Back(m, d)] = r
  BY <1>1, BackSlots DEF root_is_known
<1>3. CASE d <= commitment_count[m]
  <2>1. commitment_count[m] + 1 - d \in 0..commitment_count[m]
    BY <1>1, <1>3, SizesAssumption
  <2> QED
    BY <1>2, <1>3, <2>1 DEF RootWindow
<1>4. CASE ~(d <= commitment_count[m])
  <2>1. r = << >>
    BY <1>2, <1>4 DEF RootWindow, root_is_known
  <2>2. RootAfter(m, 0) = << >>
    BY <1>1, RootAfterType, EmptySeq DEF Root
  <2> QED
    BY <1>1, <2>1, <2>2
<1> QED
  BY <1>3, <1>4

\* A pool with a deposit knows the root of all its leaves.
LEMMA NewestRootKnown ==
  ASSUME TypeOK, RootWindow, NEW m \in initialized, commitment_count[m] > 0
  PROVE  root_is_known(m, RootAfter(m, commitment_count[m]))
<1>1. m \in Mints /\ commitment_count[m] \in Nat
  BY SizesAssumption DEF TypeOK
<1>2. 1 \in 1..RootHistorySize /\ 1 <= commitment_count[m]
  BY <1>1, SizesAssumption
<1>3. roots[m][Back(m, 1)] = RootAfter(m, commitment_count[m] + 1 - 1)
  BY <1>2 DEF RootWindow
<1>4. Back(m, 1) \in Slots
  BY <1>1, <1>2, BackSlots
<1>5. RootAfter(m, commitment_count[m]) # ZeroRoot
  BY <1>1, RootAfterType
<1> QED
  BY <1>1, <1>3, <1>4, <1>5 DEF root_is_known

\* What a deposit does to the leaves and the ring of its pool.
LEMMA InsertEffect ==
  ASSUME TypeOK, NEW m \in Mints, NEW n \in Notes, Insert(m, n)
  PROVE  /\ commitment_count'[m] = commitment_count[m] + 1
         /\ \A k \in 0..commitment_count[m] : RootAfter(m, k)' = RootAfter(m, k)
         /\ SubSeq(leaves'[m], 1, commitment_count[m] + 1) = Append(leaves[m], n)
         /\ \A i \in 1..commitment_count[m] : leaves'[m][i] = leaves[m][i]
         /\ roots'[m] = [roots[m] EXCEPT ![root_cursor[m]] = Append(leaves[m], n)]
         /\ root_cursor'[m] = IF root_cursor[m] + 1 = RootHistorySize
                              THEN 0 ELSE root_cursor[m] + 1
         /\ \A k \in Mints \ {m} :
              /\ commitment_count'[k] = commitment_count[k]
              /\ leaves'[k] = leaves[k]
              /\ roots'[k] = roots[k]
              /\ root_cursor'[k] = root_cursor[k]
<1>1. leaves[m] \in Root /\ Len(leaves[m]) = commitment_count[m]
  BY DEF TypeOK
<1>2. leaves'[m] = Append(leaves[m], n)
  BY DEF Insert, TypeOK
<1>3. /\ \A k \in 0..commitment_count[m] : RootAfter(m, k)' = RootAfter(m, k)
      /\ SubSeq(leaves'[m], 1, commitment_count[m] + 1) = Append(leaves[m], n)
      /\ \A i \in 1..commitment_count[m] : leaves'[m][i] = leaves[m][i]
  <2>1. /\ \A i \in 1..Len(leaves[m]) : Append(leaves[m], n)[i] = leaves[m][i]
        /\ \A k \in 0..Len(leaves[m]) :
             SubSeq(Append(leaves[m], n), 1, k) = SubSeq(leaves[m], 1, k)
        /\ SubSeq(Append(leaves[m], n), 1, Len(leaves[m]) + 1) = Append(leaves[m], n)
    BY <1>1, AppendLeaf
  <2>2. \A k \in 0..Len(leaves[m]) : RootAfter(m, k)' = RootAfter(m, k)
    BY <1>2, <2>1 DEF RootAfter
  <2>3. SubSeq(leaves'[m], 1, Len(leaves[m]) + 1) = Append(leaves[m], n)
    BY <1>2, <2>1
  <2>4. \A i \in 1..Len(leaves[m]) : leaves'[m][i] = leaves[m][i]
    BY <1>2, <2>1
  <2> QED
    BY <1>1, <2>2, <2>3, <2>4
<1>4. root_cursor'[m] = (root_cursor[m] + 1) % RootHistorySize
  BY DEF Insert, TypeOK
<1>5. root_cursor'[m] = IF root_cursor[m] + 1 = RootHistorySize THEN 0 ELSE root_cursor[m] + 1
  <2>1. root_cursor[m] \in 0..RootHistorySize - 1
    BY DEF TypeOK, Slots
  <2> QED
    BY <1>4, <2>1, NextCursor, SizesAssumption
<1> QED
  BY <1>3, <1>5 DEF Insert, TypeOK

LEMMA InsertRootWindow ==
  ASSUME TypeOK, RootWindow, NEW m \in Mints, NEW n \in Notes,
         m \in initialized, Insert(m, n), UNCHANGED initialized
  PROVE  RootWindow'
<1> USE SizesAssumption
<1>1. /\ commitment_count[m] \in Nat
      /\ root_cursor[m] \in Slots
      /\ roots[m] \in [Slots -> Root \cup {ZeroRoot}]
  BY DEF TypeOK
<1>8. /\ commitment_count'[m] = commitment_count[m] + 1
      /\ \A k \in 0..commitment_count[m] : RootAfter(m, k)' = RootAfter(m, k)
      /\ SubSeq(leaves'[m], 1, commitment_count[m] + 1) = Append(leaves[m], n)
      /\ roots'[m] = [roots[m] EXCEPT ![root_cursor[m]] = Append(leaves[m], n)]
  BY InsertEffect
<1>9. root_cursor'[m] = IF root_cursor[m] + 1 = RootHistorySize THEN 0 ELSE root_cursor[m] + 1
  BY InsertEffect
<1>2. \A d \in 2..RootHistorySize : Back(m, d)' = Back(m, d - 1)
  <2> DEFINE c == root_cursor[m]
  <2>1. c \in 0..RootHistorySize - 1 /\ RootHistorySize \in Nat \ {0}
    BY <1>1 DEF Slots, SizesAssumption
  <2> TAKE d \in 2..RootHistorySize
  <2>2. Back(m, d)' = IF d <= root_cursor'[m] THEN root_cursor'[m] - d
                      ELSE root_cursor'[m] + RootHistorySize - d
    BY DEF Back
  <2>3. Back(m, d - 1) = IF d - 1 <= c THEN c - (d - 1) ELSE c + RootHistorySize - (d - 1)
    BY DEF Back
  <2> HIDE DEF c
  <2>4. CASE c + 1 = RootHistorySize
    <3>1. root_cursor'[m] = 0
      BY <1>9, <2>4 DEF c
    <3>2. /\ Back(m, d)' = RootHistorySize - d
          /\ Back(m, d - 1) = c - (d - 1)
      BY <2>1, <2>2, <2>3, <2>4, <3>1
    <3> QED
      BY <2>1, <2>4, <3>2
  <2>5. CASE c + 1 # RootHistorySize
    <3>1. root_cursor'[m] = c + 1
      BY <1>9, <2>5 DEF c
    <3>2. CASE d <= c + 1
      <4>1. Back(m, d)' = c + 1 - d /\ Back(m, d - 1) = c - (d - 1)
        BY <2>1, <2>2, <2>3, <3>1, <3>2
      <4> QED
        BY <2>1, <4>1
    <3>3. CASE ~(d <= c + 1)
      <4>1. /\ Back(m, d)' = c + 1 + RootHistorySize - d
            /\ Back(m, d - 1) = c + RootHistorySize - (d - 1)
        BY <2>1, <2>2, <2>3, <3>1, <3>3
      <4> QED
        BY <2>1, <4>1
    <3> QED
      BY <3>2, <3>3
  <2> QED
    BY <2>4, <2>5
<1>3. Back(m, 1)' = root_cursor[m]
  <2>1. root_cursor[m] \in 0..RootHistorySize - 1 /\ RootHistorySize \in Nat \ {0}
    BY <1>1 DEF Slots, SizesAssumption
  <2>2. Back(m, 1)' = IF 1 <= root_cursor'[m] THEN root_cursor'[m] - 1
                      ELSE root_cursor'[m] + RootHistorySize - 1
    BY DEF Back
  <2>3. CASE root_cursor[m] + 1 = RootHistorySize
    BY <1>9, <2>1, <2>2, <2>3
  <2>4. CASE root_cursor[m] + 1 # RootHistorySize
    BY <1>9, <2>1, <2>2, <2>4
  <2> QED
    BY <2>3, <2>4
<1>4. Back(m, RootHistorySize) = root_cursor[m]
  BY <1>1 DEF Back, Slots
<1>5. \A d \in 2..RootHistorySize : Back(m, d - 1) \in Slots \ {root_cursor[m]}
  <2> TAKE d \in 2..RootHistorySize
  <2>1. d - 1 \in 1..RootHistorySize /\ RootHistorySize \in 1..RootHistorySize
        /\ d - 1 # RootHistorySize
    OBVIOUS
  <2>2. Back(m, d - 1) \in Slots /\ Back(m, d - 1) # Back(m, RootHistorySize)
    BY <2>1, BackSlots
  <2> QED
    BY <1>4, <2>2
<1>6. ASSUME NEW d \in 1..RootHistorySize
      PROVE  (roots[m][Back(m, d)] =
                IF d <= commitment_count[m] THEN RootAfter(m, commitment_count[m] + 1 - d)
                ELSE IF commitment_count[m] = 0 /\ d = RootHistorySize THEN << >>
                ELSE ZeroRoot)'
  <2>1. CASE d = 1
    <3>1. roots'[m][root_cursor[m]] = Append(leaves[m], n)
      BY <1>1, <1>8
    <3>2. SubSeq(leaves'[m], 1, commitment_count[m] + 1) = Append(leaves[m], n)
      BY <1>8
    <3>3. commitment_count'[m] = commitment_count[m] + 1
      BY <1>8
    <3>4. commitment_count'[m] + 1 - 1 = commitment_count[m] + 1 /\ 1 <= commitment_count'[m]
      BY <1>1, <3>3
    <3> QED
      BY <1>3, <2>1, <3>1, <3>2, <3>4 DEF RootAfter
  <2>2. CASE d # 1
    <3>1. d \in 2..RootHistorySize /\ d - 1 \in 1..RootHistorySize
      BY <2>2
    <3>2. roots'[m][Back(m, d)'] = roots[m][Back(m, d - 1)]
      BY <1>1, <1>2, <1>5, <3>1, <1>8
    <3>3. roots[m][Back(m, d - 1)] =
            IF d - 1 <= commitment_count[m]
            THEN RootAfter(m, commitment_count[m] + 1 - (d - 1))
            ELSE IF commitment_count[m] = 0 /\ d - 1 = RootHistorySize THEN << >>
            ELSE ZeroRoot
      BY <3>1 DEF RootWindow
    <3>4. commitment_count'[m] = commitment_count[m] + 1
      BY <1>8
    <3>5. CASE d <= commitment_count[m] + 1
      <4>1. commitment_count[m] + 2 - d \in 0..commitment_count[m]
        BY <1>1, <3>1, <3>5
      <4>2. SubSeq(leaves'[m], 1, commitment_count[m] + 2 - d) = RootAfter(m, commitment_count[m] + 2 - d)
        BY <4>1, <1>8 DEF RootAfter
      <4>3. commitment_count[m] + 1 - (d - 1) = commitment_count[m] + 2 - d
        BY <1>1
      <4>4. (commitment_count[m] + 1) + 1 - d = commitment_count[m] + 2 - d
        BY <1>1
      <4>5. roots'[m][Back(m, d)'] = SubSeq(leaves'[m], 1, commitment_count[m] + 2 - d)
        BY <1>1, <3>2, <3>3, <3>5, <4>2, <4>3
      <4> QED
        BY <3>4, <3>5, <4>4, <4>5 DEF RootAfter
    <3>6. CASE ~(d <= commitment_count[m] + 1)
      BY <1>1, <3>1, <3>2, <3>3, <3>4, <3>6
    <3> QED
      BY <3>5, <3>6
  <2> QED
    BY <2>1, <2>2
<1>7. ASSUME NEW k \in initialized, k # m, NEW d \in 1..RootHistorySize
      PROVE  (roots[k][Back(k, d)] =
                IF d <= commitment_count[k] THEN RootAfter(k, commitment_count[k] + 1 - d)
                ELSE IF commitment_count[k] = 0 /\ d = RootHistorySize THEN << >>
                ELSE ZeroRoot)'
  <2>1. k \in Mints \ {m}
    BY <1>7 DEF TypeOK
  <2>2. /\ commitment_count'[k] = commitment_count[k]
        /\ leaves'[k] = leaves[k]
        /\ roots'[k] = roots[k]
        /\ root_cursor'[k] = root_cursor[k]
    BY <2>1, InsertEffect
  <2> QED
    BY <2>2 DEF RootWindow, Back, RootAfter
<1> QED
  BY <1>6, <1>7 DEF RootWindow

-----------------------------------------------------------------------------
(***************************************************************************)
(* The inductive invariant.                                                *)
(***************************************************************************)

LEMMA InitInv == Init => Inv
<1> SUFFICES ASSUME Init PROVE Inv
  OBVIOUS
<1>1. TypeOK
  BY InitTypeOK
<1>2. ClosedPoolsEmpty /\ RootWindow /\ ProofsSound /\ PayoutsProved
  BY FS_EmptySet DEF Init, ClosedPoolsEmpty, RootWindow, ProofsSound, PayoutsProved
<1>3. Solvency
  BY FS_EmptySet DEF Init, Solvency
<1> QED
  BY <1>1, <1>2, <1>3 DEF Inv

LEMMA InitializeInv ==
  ASSUME Inv, NEW m \in Mints, NEW u \in Authorities,
         NEW amount \in Denominations, NEW fee \in FeeRates,
         Initialize(u, m, amount, fee)
  PROVE  Inv'
<1>1. TypeOK'
  BY InitializeTypeOK DEF Inv
<1>2. /\ m \notin initialized /\ initialized' = initialized \cup {m}
      /\ roots' = [roots EXCEPT ![m] = [j \in Slots |-> IF j = 0 THEN << >> ELSE ZeroRoot]]
      /\ denomination' = [denomination EXCEPT ![m] = amount]
      /\ UNCHANGED <<commitment_count, root_cursor, leaves, vault, nullifiers, payouts, proofs>>
  BY DEF Initialize, funds, spent
<1>3. commitment_count[m] = 0 /\ root_cursor[m] = 0 /\ vault[m] = 0 /\ payouts[m] = {}
  BY <1>2 DEF Inv, ClosedPoolsEmpty
<1>4. (ClosedPoolsEmpty /\ ProofsSound /\ PayoutsProved)'
  BY <1>2 DEF Inv, ClosedPoolsEmpty, ProofsSound, PayoutsProved
<1>5. RootWindow'
  <2>1. ASSUME NEW d \in 1..RootHistorySize
        PROVE  roots'[m][Back(m, d)] = IF d = RootHistorySize THEN << >> ELSE ZeroRoot
    <3>1. Back(m, d) = RootHistorySize - d /\ RootHistorySize - d \in Slots
      BY <1>3, SizesAssumption DEF Back, Slots
    <3>2. roots'[m] = [j \in Slots |-> IF j = 0 THEN << >> ELSE ZeroRoot]
      BY <1>2 DEF Inv, TypeOK
    <3>3. RootHistorySize - d = 0 <=> d = RootHistorySize
      BY SizesAssumption
    <3> QED
      BY <3>1, <3>2, <3>3
  <2>2. \A k \in initialized : k # m /\ roots'[k] = roots[k]
    BY <1>2 DEF Inv, TypeOK
  <2> QED
    BY <1>2, <1>3, <2>1, <2>2 DEF Inv, RootWindow, Back, RootAfter
<1>6. Solvency'
  <2>1. ASSUME NEW k \in Mints, k # m
        PROVE  denomination'[k] = denomination[k]
    BY <1>2, <2>1 DEF Inv, TypeOK
  <2>2. vault[m] = amount * (commitment_count[m] - Cardinality(payouts[m]))
    BY <1>3, FS_EmptySet, SizesAssumption
  <2>3. denomination'[m] = amount
    BY <1>2 DEF Inv, TypeOK
  <2> QED
    BY <1>2, <2>1, <2>2, <2>3 DEF Inv, Solvency
<1> QED
  BY <1>1, <1>4, <1>5, <1>6 DEF Inv

LEMMA Distribute ==
  ASSUME NEW d \in Nat, NEW x \in Int
  PROVE  d * (x + 1) = d * x + d /\ d * (x - 1) = d * x - d
OBVIOUS

\* The payouts of a pool are finitely many, and counted.
LEMMA PayoutsCounted ==
  ASSUME Inv, NEW k \in Mints
  PROVE  /\ IsFiniteSet(payouts[k])
         /\ Cardinality(payouts[k]) \in Nat
         /\ vault[k] = denomination[k] * (commitment_count[k] - Cardinality(payouts[k]))
<1>1. IsFiniteSet(payouts[k])
  BY DEF Inv, PayoutsProved
<1>2. vault[k] = denomination[k] * (commitment_count[k] - Cardinality(payouts[k]))
  BY DEF Inv, Solvency
<1> QED
  BY <1>1, <1>2, FS_CardinalityType

LEMMA DepositInv ==
  ASSUME Inv, NEW m \in Mints, NEW u \in Wallets, NEW n \in Notes, Deposit(u, m, n)
  PROVE  Inv'
<1>1. TypeOK'
  BY DepositTypeOK DEF Inv
<1>2. /\ m \in initialized
      /\ Insert(m, n)
      /\ vault' = [vault EXCEPT ![m] = @ + denomination[m]]
      /\ UNCHANGED <<initialized, denomination, nullifiers, payouts, proofs>>
  BY DEF Deposit, config, spent
<1>3. RootWindow'
  BY <1>2, InsertRootWindow DEF Inv
<1>4. /\ commitment_count'[m] = commitment_count[m] + 1
      /\ \A i \in 1..commitment_count[m] : leaves'[m][i] = leaves[m][i]
      /\ \A k \in Mints \ {m} :
           /\ commitment_count'[k] = commitment_count[k]
           /\ leaves'[k] = leaves[k]
           /\ root_cursor'[k] = root_cursor[k]
  BY <1>2, InsertEffect DEF Inv
<1>5. commitment_count \in [Mints -> Nat] /\ denomination \in [Mints -> Nat]
  BY SizesAssumption DEF Inv, TypeOK
<1>6. vault'[m] = vault[m] + denomination[m] /\ \A k \in Mints \ {m} : vault'[k] = vault[k]
  BY <1>2 DEF Inv, TypeOK
<1>7. ClosedPoolsEmpty' /\ ProofsSound'
  BY <1>2, <1>4, <1>6 DEF Inv, ClosedPoolsEmpty, ProofsSound
<1>8. PayoutsProved'
  <2>1. ASSUME NEW k \in Mints, NEW a \in payouts[k]
        PROVE  /\ a.deposit < commitment_count'[k]
               /\ leaves'[k][a.deposit + 1] = leaves[k][a.deposit + 1]
    <3>1. a.deposit \in Nat
      BY DEF Inv, TypeOK, Payout
    <3>2. a.deposit < commitment_count[k]
      BY DEF Inv, PayoutsProved
    <3>3. a.deposit + 1 \in 1..commitment_count[k]
      BY <1>5, <3>1, <3>2
    <3> QED
      BY <1>4, <1>5, <3>1, <3>2, <3>3
  <2>2. ASSUME NEW k \in Mints, NEW a \in payouts[k]
        PROVE  \E p \in proofs : a = PayoutOf(p) /\ p.root[p.leaf + 1] = leaves'[k][p.leaf + 1]
    <3>1. PICK p \in proofs : a = PayoutOf(p) /\ p.root[p.leaf + 1] = leaves[k][p.leaf + 1]
      BY DEF Inv, PayoutsProved
    <3>2. p.leaf = a.deposit
      BY <3>1 DEF PayoutOf
    <3> QED
      BY <2>1, <3>1, <3>2
  <2> QED
    BY <1>2, <2>1, <2>2 DEF Inv, PayoutsProved
<1>9. Solvency'
  <2>1. /\ Cardinality(payouts[m]) \in Nat
        /\ vault[m] = denomination[m] * (commitment_count[m] - Cardinality(payouts[m]))
    BY PayoutsCounted
  <2>2. denomination[m] * (commitment_count[m] - Cardinality(payouts[m])) + denomination[m]
          = denomination[m] * (commitment_count'[m] - Cardinality(payouts[m]))
    BY <1>4, <1>5, <2>1, Distribute
  <2>3. vault'[m] = denomination[m] * (commitment_count'[m] - Cardinality(payouts[m]))
    BY <1>6, <2>1, <2>2
  <2> QED
    BY <1>2, <1>4, <1>6, <2>3 DEF Inv, Solvency
<1> QED
  BY <1>1, <1>3, <1>7, <1>8, <1>9 DEF Inv

LEMMA ProveInv ==
  ASSUME Inv, NEW m \in Mints, NEW i \in 0..Capacity - 1, NEW leaf_index \in LeafIndices,
         NEW recipient \in Wallets, NEW relayer \in Relayers,
         Prove(m, i, leaf_index, recipient, relayer)
  PROVE  Inv'
<1>1. TypeOK'
  BY ProveTypeOK DEF Inv
<1>2. i < commitment_count[m] /\ UNCHANGED <<config, tree, funds, spent>>
  BY DEF Prove
<1>3. (ClosedPoolsEmpty /\ RootWindow /\ Solvency)'
  BY <1>2 DEF Inv, ClosedPoolsEmpty, RootWindow, Solvency, Back, RootAfter,
              config, tree, funds, spent
<1>4. PayoutsProved'
  <2>1. proofs \subseteq proofs'
    BY DEF Prove
  <2> QED
    BY <1>2, <2>1 DEF Inv, PayoutsProved, tree, spent
<1>5. ProofsSound'
  <2> DEFINE r == RootAfter(m, commitment_count[m])
  <2>1. commitment_count[m] \in Nat /\ i \in Nat
    BY SizesAssumption DEF Inv, TypeOK
  <2>2. i + 1 \in 1..commitment_count[m]
    BY <1>2, <2>1
  <2>3. Len(r) = commitment_count[m] /\ r[i + 1] = leaves[m][i + 1]
    BY <2>1, <2>2, RootAfterType DEF Inv
  <2>4. ASSUME NEW p \in proofs', p \notin proofs
        PROVE  p.root = r /\ p.leaf = i /\ p.nullifier_hash = Hash(leaves[m][i + 1], leaf_index)
    BY <2>4 DEF Prove
  <2>5. Hash(leaves[m][i + 1], leaf_index).nullifier = leaves[m][i + 1].nullifier
    BY DEF Hash
  <2> QED
    BY <1>2, <2>3, <2>4, <2>5 DEF Inv, ProofsSound
<1> QED
  BY <1>1, <1>3, <1>4, <1>5 DEF Inv

\* The heart of the matter: a proof that passes the checks is about a note of this
\* pool, and nothing was paid out against its ticket, by this pool or another.
LEMMA WithdrawFresh ==
  ASSUME Inv, NEW m \in Mints, NEW p \in proofs, Withdraw(m, p)
  PROVE  /\ p.leaf \in 0..commitment_count[m] - 1
         /\ p.root[p.leaf + 1] = leaves[m][p.leaf + 1]
         /\ p.nullifier_hash.nullifier = leaves[m][p.leaf + 1].nullifier
         /\ \A k \in Mints : \A a \in payouts[k] : a.ticket # p.nullifier_hash
<1> DEFINE i == p.leaf
<1>1. /\ m \in initialized
      /\ p.nullifier_hash \notin nullifiers
      /\ root_is_known(m, p.root)
  BY DEF Withdraw, VerifyAndRecord
<1>2. p.root \in Root /\ i \in Nat
  BY DEF Inv, TypeOK, Proof
<1>3. i < Len(p.root) /\ p.root[i + 1].nullifier = p.nullifier_hash.nullifier
  BY DEF Inv, ProofsSound
<1>4. commitment_count[m] \in Nat
  BY SizesAssumption DEF Inv, TypeOK
<1>5. PICK k \in 0..commitment_count[m] : p.root = RootAfter(m, k)
  BY <1>1, <1>2, KnownRootIsPrefix DEF Inv
<1>6. Len(p.root) = k /\ \A j \in 1..k : p.root[j] = leaves[m][j]
  BY <1>5, RootAfterType DEF Inv
<1>7. i + 1 \in 1..k /\ i \in 0..commitment_count[m] - 1
  BY <1>2, <1>3, <1>4, <1>6
<1>8. \A q \in Mints : \A a \in payouts[q] : a.ticket # p.nullifier_hash
  BY <1>1 DEF Inv, PayoutsProved
<1> QED
  BY <1>3, <1>6, <1>7, <1>8

LEMMA WithdrawInv ==
  ASSUME Inv, NEW m \in Mints, NEW p \in proofs, Withdraw(m, p)
  PROVE  Inv'
<1> DEFINE a == PayoutOf(p)
<1>1. TypeOK'
  BY WithdrawTypeOK DEF Inv
<1>2. /\ p.leaf \in 0..commitment_count[m] - 1
      /\ p.root[p.leaf + 1] = leaves[m][p.leaf + 1]
      /\ p.nullifier_hash.nullifier = leaves[m][p.leaf + 1].nullifier
      /\ \A k \in Mints : \A b \in payouts[k] : b.ticket # p.nullifier_hash
  BY WithdrawFresh
<1>3. /\ m \in initialized
      /\ p.amount = denomination[m]
      /\ nullifiers' = nullifiers \cup {p.nullifier_hash}
      /\ payouts' = [payouts EXCEPT ![m] = @ \cup {a}]
      /\ vault' = [vault EXCEPT ![m] = @ - p.amount]
      /\ UNCHANGED <<config, tree, proofs>>
  BY DEF Withdraw, VerifyAndRecord
<1>4. /\ payouts'[m] = payouts[m] \cup {a}
      /\ vault'[m] = vault[m] - denomination[m]
      /\ \A k \in Mints \ {m} : payouts'[k] = payouts[k] /\ vault'[k] = vault[k]
  BY <1>3 DEF Inv, TypeOK
<1>5. commitment_count \in [Mints -> Nat] /\ denomination \in [Mints -> Nat]
  BY SizesAssumption DEF Inv, TypeOK
<1>6. (ClosedPoolsEmpty /\ RootWindow /\ ProofsSound)'
  <2>1. UNCHANGED <<initialized, commitment_count, root_cursor, roots, leaves, proofs>>
    BY <1>3 DEF config, tree
  <2>2. \A k \in Mints \ initialized : payouts'[k] = payouts[k] /\ vault'[k] = vault[k]
    BY <1>3, <1>4
  <2>3. ClosedPoolsEmpty'
    BY <2>1, <2>2 DEF Inv, ClosedPoolsEmpty
  <2>4. RootWindow'
    BY <2>1 DEF Inv, RootWindow, Back, RootAfter
  <2>5. ProofsSound'
    BY <2>1 DEF Inv, ProofsSound
  <2> QED
    BY <2>3, <2>4, <2>5
<1>7. a.deposit = p.leaf /\ a.ticket = p.nullifier_hash
  BY DEF PayoutOf
<1> HIDE DEF a
<1>8. PayoutsProved'
  <2>1. a.deposit < commitment_count[m] /\ p \in proofs
    BY <1>2, <1>5, <1>7
  <2>2. ASSUME NEW k \in Mints
        PROVE  IsFiniteSet(payouts'[k])
    <3>1. IsFiniteSet(payouts[m]) /\ IsFiniteSet(payouts[k])
      BY PayoutsCounted
    <3>2. IsFiniteSet(payouts[m] \cup {a})
      BY <3>1, FS_AddElement, Zenon
    <3> QED
      BY <1>4, <3>1, <3>2
  <2>3. ASSUME NEW k \in Mints, NEW b \in payouts'[k]
        PROVE  /\ b.deposit < commitment_count[k]
               /\ b.ticket.nullifier = leaves[k][b.deposit + 1].nullifier
               /\ b.ticket \in nullifiers'
               /\ \E q \in proofs : b = PayoutOf(q) /\ q.root[q.leaf + 1] = leaves[k][q.leaf + 1]
    <3>1. CASE b \in payouts[k]
      BY <1>3, <3>1 DEF Inv, PayoutsProved
    <3>2. CASE k = m /\ b = a
      BY <1>2, <1>3, <1>7, <2>1, <3>2 DEF a
    <3> QED
      BY <1>4, <3>1, <3>2
  <2> QED
    BY <1>3, <2>2, <2>3 DEF PayoutsProved, tree
<1>9. Solvency'
  <2>1. /\ IsFiniteSet(payouts[m])
        /\ Cardinality(payouts[m]) \in Nat
        /\ vault[m] = denomination[m] * (commitment_count[m] - Cardinality(payouts[m]))
    BY PayoutsCounted
  <2>2. Cardinality(payouts'[m]) = Cardinality(payouts[m]) + 1
    <3>1. a \notin payouts[m]
      BY <1>2, <1>7
    <3>2. /\ IsFiniteSet(payouts[m] \cup {a})
          /\ a \in payouts[m] \/ Cardinality(payouts[m] \cup {a}) = Cardinality(payouts[m]) + 1
      BY <2>1, FS_AddElement, Zenon
    <3> QED
      BY <1>4, <3>1, <3>2
  <2>3. denomination[m] * (commitment_count[m] - Cardinality(payouts[m])) - denomination[m]
          = denomination[m] * (commitment_count[m] - Cardinality(payouts'[m]))
    <3> DEFINE x == commitment_count[m] - Cardinality(payouts[m])
    <3>1. x \in Int /\ commitment_count[m] - Cardinality(payouts'[m]) = x - 1
      BY <1>5, <2>1, <2>2
    <3>2. denomination[m] \in Nat
      BY <1>5
    <3> HIDE DEF x
    <3>3. denomination[m] * (x - 1) = denomination[m] * x - denomination[m]
      BY <3>1, <3>2, Distribute
    <3> QED
      BY <3>1, <3>3 DEF x
  <2>4. vault'[m] = denomination[m] * (commitment_count[m] - Cardinality(payouts'[m]))
    BY <1>4, <2>1, <2>3
  <2>5. ASSUME NEW j \in Mints, NEW k \in Mints, NEW b \in payouts'[j], NEW c \in payouts'[k],
               b.ticket = c.ticket
        PROVE  j = k /\ b = c
    <3>1. \A n \in Mints : \A d \in payouts'[n] : d \in payouts[n] \/ (n = m /\ d = a)
      BY <1>4
    <3>2. CASE b \in payouts[j] /\ c \in payouts[k]
      BY <2>5, <3>2 DEF Inv, Solvency
    <3>3. CASE b \in payouts[j] /\ c = a
      BY <1>2, <1>7, <2>5, <3>3
    <3>4. CASE b = a /\ c \in payouts[k]
      BY <1>2, <1>7, <2>5, <3>4
    <3> QED
      BY <3>1, <3>2, <3>3, <3>4
  <2>6. \A k \in Mints : vault'[k] = denomination[k] * (commitment_count[k] - Cardinality(payouts'[k]))
    BY <1>4, <2>4 DEF Inv, Solvency
  <2>7. UNCHANGED <<denomination, commitment_count>>
    BY <1>3 DEF config, tree
  <2> QED
    BY <2>5, <2>6, <2>7 DEF Solvency
<1> QED
  BY <1>1, <1>6, <1>8, <1>9 DEF Inv

LEMMA AdminInv ==
  ASSUME Inv, NEW m \in Mints, NEW u \in Authorities, NEW v \in Authorities,
         Pause(u, m) \/ Unpause(u, m) \/ RotateAuthority(u, m, v)
  PROVE  Inv'
<1>1. TypeOK'
  BY AdminTypeOK DEF Inv
<1>2. UNCHANGED <<initialized, denomination, tree, funds, spent, proofs>>
  BY DEF Pause, Unpause, RotateAuthority
<1>3. (ClosedPoolsEmpty /\ RootWindow /\ ProofsSound /\ PayoutsProved /\ Solvency)'
  BY <1>2 DEF Inv, ClosedPoolsEmpty, RootWindow, ProofsSound, PayoutsProved, Solvency,
              Back, RootAfter, tree, funds, spent
<1> QED
  BY <1>1, <1>3 DEF Inv

\* Inv holds in every state.
THEOREM Invariance == Spec => []Inv
<1>1. Inv /\ [Next]_vars => Inv'
  <2> SUFFICES ASSUME Inv, [Next]_vars PROVE Inv'
    OBVIOUS
  <2>1. CASE UNCHANGED vars
    BY <2>1 DEF Inv, TypeOK, ClosedPoolsEmpty, RootWindow, ProofsSound, PayoutsProved, Solvency,
                Back, RootAfter, vars, config, tree, funds, spent
  <2>2. ASSUME NEW m \in Mints, NEW u \in Authorities,
               NEW amount \in Denominations, NEW fee \in FeeRates,
               Initialize(u, m, amount, fee)
        PROVE  Inv'
    BY <2>2, InitializeInv
  <2>3. ASSUME NEW m \in Mints, NEW u \in Wallets, NEW n \in Notes, Deposit(u, m, n)
        PROVE  Inv'
    BY <2>3, DepositInv
  <2>4. ASSUME NEW m \in Mints, NEW i \in 0..Capacity - 1, NEW leaf_index \in LeafIndices,
               NEW recipient \in Wallets, NEW relayer \in Relayers,
               Prove(m, i, leaf_index, recipient, relayer)
        PROVE  Inv'
    BY <2>4, ProveInv
  <2>5. ASSUME NEW m \in Mints, NEW p \in proofs, Withdraw(m, p)
        PROVE  Inv'
    BY <2>5, WithdrawInv
  <2>6. ASSUME NEW m \in Mints, NEW u \in Authorities, NEW v \in Authorities,
               Pause(u, m) \/ Unpause(u, m) \/ RotateAuthority(u, m, v)
        PROVE  Inv'
    BY <2>6, AdminInv
  <2> QED
    BY <2>1, <2>2, <2>3, <2>4, <2>5, <2>6 DEF Next
<1> QED
  BY InitInv, <1>1, PTL DEF Spec

\* The ring buffer always holds exactly the roots of the last deposits.
THEOREM RootWindowHolds == Spec => []RootWindow
<1>1. Inv => RootWindow
  BY DEF Inv
<1> QED
  BY <1>1, Invariance, PTL

\* Whatever leaf_index provers choose, the vault holds what was paid in and not
\* paid out, and no nullifier hash is paid for twice.
THEOREM SolvencyHolds == Spec => []Solvency
<1>1. Inv => Solvency
  BY DEF Inv
<1> QED
  BY <1>1, Invariance, PTL

-----------------------------------------------------------------------------
(***************************************************************************)
(* The pool implements the escrow.                                         *)
(***************************************************************************)

\* Every step of the pool is a step of the escrow or leaves it alone.
LEMMA StepImplementsEscrow ==
  ASSUME Inv, [Next]_vars
  PROVE  [E!Next]_E!vars
<1> USE DEF E!vars
<1>1. CASE UNCHANGED vars
  BY <1>1 DEF vars, config, tree, funds, spent
<1>2. ASSUME NEW m \in Mints, NEW u \in Authorities,
             NEW amount \in Denominations, NEW fee \in FeeRates,
             Initialize(u, m, amount, fee)
      PROVE  E!Next
  <2>1. E!Open(m, amount)
    BY <1>2 DEF Initialize, E!Open, funds, spent
  <2> QED
    BY <2>1 DEF E!Next
<1>3. ASSUME NEW m \in Mints, NEW u \in Wallets, NEW n \in Notes, Deposit(u, m, n)
      PROVE  E!Next
  <2>1. E!Deposit(m)
    BY <1>3 DEF Deposit, Insert, E!Deposit, config, spent
  <2> QED
    BY <2>1 DEF E!Next
<1>4. ASSUME NEW m \in Mints, NEW i \in 0..Capacity - 1, NEW leaf_index \in LeafIndices,
             NEW recipient \in Wallets, NEW relayer \in Relayers,
             Prove(m, i, leaf_index, recipient, relayer)
      PROVE  UNCHANGED E!vars
  BY <1>4 DEF Prove, config, tree, funds, spent
<1>5. ASSUME NEW m \in Mints, NEW p \in proofs, Withdraw(m, p)
      PROVE  E!Next
  <2>1. p.leaf \in 0..commitment_count[m] - 1 /\ E!Good(p.nullifier_hash)
    BY <1>5, WithdrawFresh DEF E!Good
  <2>2. E!Redeem(m, p.leaf, p.nullifier_hash)
    BY <1>5, <2>1 DEF Withdraw, VerifyAndRecord, PayoutOf, E!Redeem, config, tree
  <2>3. p.nullifier_hash \in NullifierHash
    BY DEF Inv, TypeOK, Proof
  <2> QED
    BY <2>1, <2>2, <2>3 DEF E!Next
<1>6. ASSUME NEW m \in Mints, NEW u \in Authorities, NEW v \in Authorities,
             Pause(u, m) \/ Unpause(u, m) \/ RotateAuthority(u, m, v)
      PROVE  UNCHANGED E!vars
  BY <1>6 DEF Pause, Unpause, RotateAuthority, tree, funds, spent
<1> QED
  BY <1>1, <1>2, <1>3, <1>4, <1>5, <1>6 DEF Next

\* Whatever is proved and submitted in whatever order, the pool behaves as an
\* escrow that pays for deposits it has, each ticket once.
THEOREM Implementation == Spec => ImplementsEscrow
<1>1. Init => E!Init
  BY DEF Init, E!Init
<1>2. Inv /\ [Next]_vars => [E!Next]_E!vars
  BY StepImplementsEscrow
<1> QED
  BY <1>1, <1>2, Invariance, PTL DEF Spec, ImplementsEscrow, E!Spec

-----------------------------------------------------------------------------
(***************************************************************************)
(* What can lock a note.                                                   *)
(***************************************************************************)

\* Recording a ticket and paying for it are one step, and neither is taken back.
LEMMA SpentRedeemedStep ==
  ASSUME Inv, SpentRedeemed, [Next]_vars
  PROVE  SpentRedeemed'
<1>1. ASSUME UNCHANGED <<nullifiers, payouts>>, initialized \subseteq initialized'
      PROVE  SpentRedeemed'
  BY <1>1 DEF SpentRedeemed
<1>2. ASSUME NEW m \in Mints, NEW p \in proofs, Withdraw(m, p)
      PROVE  SpentRedeemed'
  <2>1. /\ m \in initialized
        /\ nullifiers' = nullifiers \cup {p.nullifier_hash}
        /\ payouts' = [payouts EXCEPT ![m] = @ \cup {PayoutOf(p)}]
        /\ UNCHANGED initialized
    BY <1>2 DEF Withdraw, VerifyAndRecord, config
  <2>2. PayoutOf(p) \in payouts'[m] /\ \A k \in Mints : payouts[k] \subseteq payouts'[k]
    BY <2>1 DEF Inv, TypeOK
  <2>3. PayoutOf(p).ticket = p.nullifier_hash
    BY DEF PayoutOf
  <2>4. initialized \subseteq Mints
    BY DEF Inv, TypeOK
  <2> QED
    BY <2>1, <2>2, <2>3, <2>4 DEF SpentRedeemed
<1>3. ASSUME NEW m \in Mints, NEW u \in Authorities,
             NEW amount \in Denominations, NEW fee \in FeeRates,
             Initialize(u, m, amount, fee)
      PROVE  SpentRedeemed'
  BY <1>1, <1>3 DEF Initialize, spent
<1>4. ASSUME NEW m \in Mints, NEW u \in Wallets, NEW n \in Notes, Deposit(u, m, n)
      PROVE  SpentRedeemed'
  BY <1>1, <1>4 DEF Deposit, config, spent
<1>5. ASSUME NEW m \in Mints, NEW i \in 0..Capacity - 1, NEW leaf_index \in LeafIndices,
             NEW recipient \in Wallets, NEW relayer \in Relayers,
             Prove(m, i, leaf_index, recipient, relayer)
      PROVE  SpentRedeemed'
  BY <1>1, <1>5 DEF Prove, config, spent
<1>6. ASSUME NEW m \in Mints, NEW u \in Authorities, NEW v \in Authorities,
             Pause(u, m) \/ Unpause(u, m) \/ RotateAuthority(u, m, v)
      PROVE  SpentRedeemed'
  BY <1>1, <1>6 DEF Pause, Unpause, RotateAuthority, spent
<1>7. CASE UNCHANGED vars
  BY <1>1, <1>7 DEF vars, config, spent
<1> QED
  BY <1>2, <1>3, <1>4, <1>5, <1>6, <1>7 DEF Next

\* Pigeonhole: while no deposit was paid twice, a pool that owes a note can pay it.
LEMMA VaultCovers ==
  ASSUME Inv, NEW m \in Mints, NEW i \in Unredeemed(m), ~PaidTwice(m)
  PROVE  vault[m] >= denomination[m]
<1> DEFINE others == (0..commitment_count[m] - 1) \ {i}
           f == [a \in payouts[m] |-> a.deposit]
<1>1. /\ commitment_count[m] \in Nat /\ denomination[m] \in Nat
      /\ i \in 0..commitment_count[m] - 1
      /\ \A a \in payouts[m] : a.deposit # i
  BY SizesAssumption DEF Inv, TypeOK, Unredeemed, Redeemed
<1>2. /\ IsFiniteSet(payouts[m])
      /\ Cardinality(payouts[m]) \in Nat
      /\ vault[m] = denomination[m] * (commitment_count[m] - Cardinality(payouts[m]))
  BY PayoutsCounted
<1>3. /\ IsFiniteSet(others)
      /\ Cardinality(others) = commitment_count[m] - 1
  <2>1. commitment_count[m] - 1 \in Int /\ ~(0 > commitment_count[m] - 1)
    BY <1>1
  <2>2. (commitment_count[m] - 1) - 0 + 1 = commitment_count[m]
    BY <1>1
  <2>3. /\ IsFiniteSet(0..commitment_count[m] - 1)
        /\ Cardinality(0..commitment_count[m] - 1) = commitment_count[m]
    BY <2>1, <2>2, FS_Interval
  <2> QED
    BY <1>1, <2>3, FS_RemoveElement
<1>4. \A a \in payouts[m] : a.deposit \in others
  <2> TAKE a \in payouts[m]
  <2>1. a.deposit \in Nat /\ a.deposit < commitment_count[m]
    BY DEF Inv, TypeOK, Payout, PayoutsProved
  <2> QED
    BY <1>1, <2>1
<1> HIDE DEF others
<1>5. f \in [payouts[m] -> others] /\ \A a, b \in payouts[m] : f[a] = f[b] => a = b
  BY <1>4 DEF PaidTwice
<1> HIDE DEF f
<1>6. Cardinality(payouts[m]) <= Cardinality(others)
  <2>1. f \in Injection(payouts[m], others)
    BY <1>5, Fun_IsInj
  <2> QED
    BY <1>3, <2>1, FS_Injection
<1>7. commitment_count[m] - Cardinality(payouts[m]) \in Nat \ {0}
  BY <1>1, <1>2, <1>3, <1>6
<1>8. \A d \in Nat, x \in Nat \ {0} : d * x >= d
  OBVIOUS
<1> QED
  BY <1>1, <1>2, <1>7, <1>8

\* A note that was not paid out has a root to prove it against.  If its ticket is
\* recorded, then for another note.
LEMMA UnredeemedPayable ==
  ASSUME Inv, SpentRedeemed
  PROVE  LockedOnlyByTwin
<1> SUFFICES ASSUME NEW m \in initialized, m # NativeMint, NEW i \in Unredeemed(m),
                    ~PaidTwice(m)
             PROVE  CanRedeem(m, i) \/ TicketUsed(m, i)
  BY DEF LockedOnlyByTwin
<1>1. m \in Mints /\ commitment_count[m] \in Nat
  BY SizesAssumption DEF Inv, TypeOK
<1>2. i \in 0..commitment_count[m] - 1 /\ \A a \in payouts[m] : a.deposit # i
  BY DEF Unredeemed, Redeemed
<1>3. root_is_known(m, RootAfter(m, commitment_count[m]))
  BY <1>1, <1>2, NewestRootKnown DEF Inv
<1>4. vault[m] >= denomination[m]
  BY <1>1, VaultCovers
<1>5. CASE NullifierHashAt(m, i) \in nullifiers
  BY <1>2, <1>5 DEF SpentRedeemed, TicketUsed
<1>6. CASE NullifierHashAt(m, i) \notin nullifiers
  BY <1>3, <1>4, <1>6 DEF CanRedeem, VaultDebitable
<1> QED
  BY <1>5, <1>6

\* However long the history of deposits, payouts and stale proofs, and whatever
\* provers give for leaf_index, a note of a token pool can be paid out unless its
\* ticket went to another note or some note of its pool was paid twice.
THEOREM LockedOnlyByTwinHolds == Spec => []LockedOnlyByTwin
<1>1. Init => SpentRedeemed
  BY DEF Init, SpentRedeemed
<1>2. Inv /\ SpentRedeemed /\ [Next]_vars => SpentRedeemed'
  BY SpentRedeemedStep
<1>3. Spec => []SpentRedeemed
  BY <1>1, <1>2, Invariance, PTL DEF Spec
<1>4. Inv /\ SpentRedeemed => LockedOnlyByTwin
  BY UnredeemedPayable
<1> QED
  BY <1>3, <1>4, Invariance, PTL

\* Where provers named positions, the ticket of a payout tells its note.
LEMMA TicketTells ==
  ASSUME Inv, PositionsNamed, NEW m \in Mints, NEW a \in payouts[m]
  PROVE  a.ticket = NullifierHashAt(m, a.deposit) /\ a.ticket.leaf_index = a.deposit
<1>1. PICK p \in proofs : a = PayoutOf(p) /\ p.root[p.leaf + 1] = leaves[m][p.leaf + 1]
  BY DEF Inv, PayoutsProved
<1>2. p.nullifier_hash = Hash(p.root[p.leaf + 1], p.leaf)
  BY DEF PositionsNamed, NamesPosition
<1>3. a.deposit = p.leaf /\ a.ticket = p.nullifier_hash
  BY <1>1 DEF PayoutOf
<1>4. a.ticket = Hash(leaves[m][a.deposit + 1], a.deposit)
  BY <1>1, <1>2, <1>3
<1> QED
  BY <1>4 DEF NullifierHashAt, Hash

\* Where there is one pool, and every prover so far named the position of the leaf,
\* no note was paid twice and none is locked.
THEOREM NotesRedeemableHolds ==
  ASSUME \A m, n \in Mints : m = n
  PROVE  Spec => []NotesRedeemable
<1>1. ASSUME Inv, LockedOnlyByTwin PROVE NotesRedeemable
  <2> SUFFICES ASSUME PositionsNamed
               PROVE  /\ PaidOnce
                      /\ \A m \in initialized \ {NativeMint} : \A i \in Unredeemed(m) : CanRedeem(m, i)
    BY DEF NotesRedeemable
  <2>1. PaidOnce
    <3> SUFFICES ASSUME NEW m \in Mints, NEW a \in payouts[m], NEW b \in payouts[m],
                        a.deposit = b.deposit
                 PROVE  a = b
      BY DEF PaidOnce
    <3>1. a.ticket = b.ticket
      BY <1>1, TicketTells
    <3> QED
      BY <1>1, <3>1 DEF Inv, Solvency
  <2>2. ASSUME NEW m \in initialized \ {NativeMint}, NEW i \in Unredeemed(m)
        PROVE  CanRedeem(m, i)
    <3>1. m \in Mints /\ initialized \subseteq Mints
      BY <1>1 DEF Inv, TypeOK
    <3>2. ~PaidTwice(m)
      BY <2>1, <3>1 DEF PaidOnce, PaidTwice
    <3>3. ~TicketUsed(m, i)
      <4> SUFFICES ASSUME NEW k \in initialized, NEW a \in payouts[k],
                          a.ticket = NullifierHashAt(m, i), k # m \/ a.deposit # i
                   PROVE  FALSE
        BY DEF TicketUsed
      <4>1. k \in Mints /\ k = m
        BY <3>1
      <4>2. a.ticket.leaf_index = a.deposit
        BY <1>1, <4>1, TicketTells
      <4>3. a.ticket.leaf_index = i
        BY DEF NullifierHashAt, Hash
      <4> QED
        BY <4>1, <4>2, <4>3
    <3> QED
      BY <1>1, <3>2, <3>3 DEF LockedOnlyByTwin
  <2> QED
    BY <2>1, <2>2
<1> QED
  BY <1>1, Invariance, LockedOnlyByTwinHolds, PTL

-----------------------------------------------------------------------------
(***************************************************************************)
(* How long a proof is good for.                                           *)
(***************************************************************************)

\* The root of the first k deposits is in the window while fewer than
\* RootHistorySize deposits came after them.
LEMMA PrefixKnown ==
  ASSUME TypeOK, RootWindow, NEW m \in initialized, NEW k \in 1..commitment_count[m]
  PROVE  root_is_known(m, RootAfter(m, k)) <=> commitment_count[m] - k < RootHistorySize
<1> DEFINE d == commitment_count[m] + 1 - k
<1>1. m \in Mints /\ commitment_count[m] \in Nat /\ k \in 0..commitment_count[m]
  BY SizesAssumption DEF TypeOK
<1>2. RootAfter(m, k) # ZeroRoot /\ RootAfter(m, k) \in Root /\ Len(RootAfter(m, k)) = k
  BY <1>1, RootAfterType
<1>3. ASSUME commitment_count[m] - k < RootHistorySize
      PROVE  root_is_known(m, RootAfter(m, k))
  <2>1. d \in 1..RootHistorySize /\ d <= commitment_count[m] /\ commitment_count[m] + 1 - d = k
    BY <1>1, <1>3, SizesAssumption
  <2>2. roots[m][Back(m, d)] = RootAfter(m, k)
    BY <2>1 DEF RootWindow
  <2>3. Back(m, d) \in Slots
    BY <1>1, <2>1, BackSlots
  <2> QED
    BY <1>2, <2>2, <2>3 DEF root_is_known
<1>4. ASSUME root_is_known(m, RootAfter(m, k))
      PROVE  commitment_count[m] - k < RootHistorySize
  <2>1. PICK e \in 1..RootHistorySize : roots[m][Back(m, e)] = RootAfter(m, k)
    BY <1>1, <1>4, BackSlots DEF root_is_known
  <2>2. RootAfter(m, k) # << >>
    BY <1>2, EmptySeq
  <2>3. e <= commitment_count[m] /\ RootAfter(m, k) = RootAfter(m, commitment_count[m] + 1 - e)
    BY <1>2, <2>1, <2>2 DEF RootWindow
  <2>4. commitment_count[m] + 1 - e \in 0..commitment_count[m]
    BY <1>1, <2>3, SizesAssumption
  <2>5. k = commitment_count[m] + 1 - e
    BY <1>1, <1>2, <2>3, <2>4, RootAfterType
  <2> QED
    BY <1>1, <2>3, <2>5, SizesAssumption
<1> QED
  BY <1>3, <1>4

\* A proof is accepted until RootHistorySize more deposits are made, and never
\* afterwards, for any size of the window and any order of deposits.
THEOREM ProofLifetimeHolds == Spec => []ProofLifetime
<1>1. ASSUME Inv PROVE ProofLifetime
  <2> SUFFICES ASSUME NEW m \in initialized, NEW p \in proofs,
                      Len(p.root) <= commitment_count[m],
                      p.root = RootAfter(m, Len(p.root))
               PROVE  root_is_known(m, p.root) <=> commitment_count[m] - Len(p.root) < RootHistorySize
    BY DEF ProofLifetime
  <2>1. p.root \in Root /\ p.leaf \in Nat /\ p.leaf < Len(p.root)
    BY <1>1 DEF Inv, TypeOK, ProofsSound, Proof
  <2>2. Len(p.root) \in Nat /\ commitment_count[m] \in Nat
    BY <1>1, <2>1, SizesAssumption DEF Inv, TypeOK, Root
  <2>3. Len(p.root) \in 1..commitment_count[m]
    BY <2>1, <2>2
  <2> QED
    BY <1>1, <2>3, PrefixKnown DEF Inv
<1> QED
  BY <1>1, Invariance, PTL

-----------------------------------------------------------------------------
(***************************************************************************)
(* What a step never does.                                                 *)
(***************************************************************************)

\* A step of the tree only appends to it.
LEMMA LeavesGrow ==
  ASSUME Inv, NEW m \in Mints, NEW n \in Notes, Insert(m, n), NEW k \in Mints
  PROVE  /\ commitment_count[k] <= commitment_count'[k]
         /\ SubSeq(leaves'[k], 1, commitment_count[k]) = leaves[k]
<1>1. /\ commitment_count \in [Mints -> Nat]
      /\ leaves \in [Mints -> Seq(Notes)]
      /\ Len(leaves[k]) = commitment_count[k]
  BY SizesAssumption DEF Inv, TypeOK, Root
<1>2. /\ leaves' = [leaves EXCEPT ![m] = Append(@, n)]
      /\ commitment_count' = [commitment_count EXCEPT ![m] = @ + 1]
  BY DEF Insert
<1>3. \A s \in Seq(Notes) : SubSeq(s, 1, Len(s)) = s /\ SubSeq(Append(s, n), 1, Len(s)) = s
  OBVIOUS
<1>4. CASE k = m
  BY <1>1, <1>2, <1>3, <1>4
<1>5. CASE k # m
  BY <1>1, <1>2, <1>3, <1>5
<1> QED
  BY <1>4, <1>5

\* The terms of a depositor survive every instruction, those on other pools
\* and of the admin included.
THEOREM TermsFixedHolds == Spec => TermsFixed
<1> DEFINE Fixed ==
  \A m \in initialized :
    /\ m \in initialized'
    /\ denomination'[m] = denomination[m]
    /\ relayer_fee_bps'[m] = relayer_fee_bps[m]
    /\ commitment_count[m] <= commitment_count'[m]
    /\ SubSeq(leaves'[m], 1, commitment_count[m]) = leaves[m]
    /\ nullifiers \subseteq nullifiers'
<1>1. ASSUME Inv, Next PROVE Fixed
  <2>1. /\ initialized \subseteq Mints
        /\ denomination \in [Mints -> Nat]
        /\ relayer_fee_bps \in [Mints -> 0..MAX_RELAYER_FEE_BPS]
        /\ commitment_count \in [Mints -> Nat]
        /\ leaves \in [Mints -> Seq(Notes)]
        /\ \A m \in Mints : Len(leaves[m]) = commitment_count[m]
    BY <1>1, SizesAssumption DEF Inv, TypeOK, Root
  <2>2. \A m \in Mints : SubSeq(leaves[m], 1, commitment_count[m]) = leaves[m]
    <3>1. \A s \in Seq(Notes) : SubSeq(s, 1, Len(s)) = s
      OBVIOUS
    <3> QED
      BY <2>1, <3>1
  <2>3. ASSUME NEW k \in Mints, NEW u \in Authorities,
               NEW amount \in Denominations, NEW fee \in FeeRates,
               Initialize(u, k, amount, fee)
        PROVE  Fixed
    BY <2>1, <2>2, <2>3 DEF Initialize, spent
  <2>4. ASSUME NEW k \in Mints, NEW u \in Wallets, NEW n \in Notes, Deposit(u, k, n)
        PROVE  Fixed
    <3>1. Insert(k, n) /\ UNCHANGED <<initialized, denomination, relayer_fee_bps, nullifiers>>
      BY <2>4 DEF Deposit, config, spent
    <3> QED
      BY <1>1, <2>1, <3>1, LeavesGrow
  <2>5. ASSUME NEW k \in Mints, NEW p \in proofs, Withdraw(k, p)
        PROVE  Fixed
    BY <2>1, <2>2, <2>5 DEF Withdraw, config, tree
  <2>6. ASSUME NEW k \in Mints, NEW i \in 0..Capacity - 1, NEW leaf_index \in LeafIndices,
               NEW recipient \in Wallets, NEW relayer \in Relayers,
               Prove(k, i, leaf_index, recipient, relayer)
        PROVE  Fixed
    BY <2>1, <2>2, <2>6 DEF Prove, config, tree, spent
  <2>7. ASSUME NEW k \in Mints, NEW u \in Authorities, NEW v \in Authorities,
               Pause(u, k) \/ Unpause(u, k) \/ RotateAuthority(u, k, v)
        PROVE  Fixed
    BY <2>1, <2>2, <2>7 DEF Pause, Unpause, RotateAuthority, tree, spent
  <2> QED
    BY <1>1, <2>3, <2>4, <2>5, <2>6, <2>7 DEF Next
<1>2. Inv /\ [Next]_vars => [Fixed]_vars
  BY <1>1
<1> QED
  BY <1>2, Invariance, PTL DEF Spec, TermsFixed

\* Once paused, no instruction moves money or leaves of the pool, whatever
\* happens in the other pools.
THEOREM PauseFreezesFundsHolds == Spec => PauseFreezesFunds
<1> DEFINE Frozen ==
  \A m \in Mints : paused[m] =>
    /\ vault'[m] = vault[m]
    /\ balance'[m] = balance[m]
    /\ leaves'[m] = leaves[m]
<1>1. ASSUME TypeOK, Next PROVE Frozen
  <2>1. /\ vault \in [Mints -> Nat]
        /\ balance \in [Mints -> [Users -> Nat]]
        /\ leaves \in [Mints -> Root]
    BY <1>1 DEF TypeOK
  <2>2. ASSUME NEW k \in Mints, NEW u \in Wallets, NEW n \in Notes, Deposit(u, k, n)
        PROVE  Frozen
    BY <2>1, <2>2 DEF Deposit, Insert
  <2>3. ASSUME NEW k \in Mints, NEW p \in proofs, Withdraw(k, p)
        PROVE  Frozen
    BY <2>1, <2>3 DEF Withdraw, VerifyAndRecord, tree
  <2>4. ASSUME NEW k \in Mints, NEW u \in Authorities,
               NEW amount \in Denominations, NEW fee \in FeeRates,
               Initialize(u, k, amount, fee)
        PROVE  Frozen
    BY <2>4 DEF Initialize, funds
  <2>5. ASSUME NEW k \in Mints, NEW i \in 0..Capacity - 1, NEW leaf_index \in LeafIndices,
               NEW recipient \in Wallets, NEW relayer \in Relayers,
               Prove(k, i, leaf_index, recipient, relayer)
        PROVE  Frozen
    BY <2>5 DEF Prove, tree, funds
  <2>6. ASSUME NEW k \in Mints, NEW u \in Authorities, NEW v \in Authorities,
               Pause(u, k) \/ Unpause(u, k) \/ RotateAuthority(u, k, v)
        PROVE  Frozen
    BY <2>6 DEF Pause, Unpause, RotateAuthority, tree, funds
  <2> QED
    BY <1>1, <2>2, <2>3, <2>4, <2>5, <2>6 DEF Next
<1>2. TypeOK /\ [Next]_vars => [Frozen]_vars
  BY <1>1
<1> QED
  BY <1>2, TypeCorrect, PTL DEF Spec, PauseFreezesFunds

-----------------------------------------------------------------------------
(***************************************************************************)
(* Conservation of value, over any finite number of wallets.               *)
(***************************************************************************)

\* What a credit adds to the sum of the balances.
LEMMA CreditSum ==
  ASSUME IsFiniteSet(Users), NEW b \in [Users -> Int], NEW u \in Users, NEW d \in Int
  PROVE  /\ Credit(b, u, d) \in [Users -> Int]
         /\ SumFunction(Credit(b, u, d)) = SumFunction(b) + d
<1>1. Credit(b, u, d) \in [Users -> Int]
  BY DEF Credit
<1>2. SumFunction([b EXCEPT ![u] = @ + d]) = SumFunction(b) + d
  BY SumGrows
<1> QED
  BY <1>1, <1>2 DEF Credit

\* The sum of the balances is a number.
LEMMA FundsSum ==
  ASSUME IsFiniteSet(Users), TypeOK, NEW k \in Mints
  PROVE  balance[k] \in [Users -> Int] /\ SumFunction(balance[k]) \in Int /\ vault[k] \in Nat
<1>1. balance[k] \in [Users -> Int] /\ vault[k] \in Nat
  BY DEF TypeOK
<1> QED
  BY <1>1, SumType

\* A deposit moves one denomination from the depositor to the vault.
LEMMA DepositHoldings ==
  ASSUME IsFiniteSet(Users), TypeOK, NEW k \in Mints,
         NEW m \in Mints, NEW u \in Wallets, NEW n \in Notes, Deposit(u, m, n)
  PROVE  Holdings(k)' = Holdings(k)
<1>1. /\ balance' = [balance EXCEPT ![m][u] = @ - denomination[m]]
      /\ vault' = [vault EXCEPT ![m] = @ + denomination[m]]
  BY DEF Deposit
<1>2. /\ denomination[m] \in Nat /\ u \in Users
      /\ balance \in [Mints -> [Users -> Nat]] /\ vault \in [Mints -> Nat]
  BY DEF TypeOK, Users
<1>3. CASE k = m
  <2>1. balance'[m] = Credit(balance[m], u, -denomination[m])
    <3>1. balance'[m] = [balance[m] EXCEPT ![u] = @ - denomination[m]]
      BY <1>1, <1>2
    <3>2. balance[m][u] - denomination[m] = balance[m][u] + (-denomination[m])
      BY <1>2
    <3> QED
      BY <3>1, <3>2 DEF Credit
  <2>2. SumFunction(balance'[m]) = SumFunction(balance[m]) + (-denomination[m])
    <3>1. balance[m] \in [Users -> Int] /\ u \in Users /\ -denomination[m] \in Int
      BY <1>2, FundsSum
    <3> QED
      BY <2>1, <3>1, CreditSum
  <2>3. vault'[m] = vault[m] + denomination[m]
    BY <1>1, <1>2
  <2> QED
    BY <1>2, <1>3, <2>2, <2>3, FundsSum DEF Holdings
<1>4. CASE k # m
  BY <1>1, <1>2, <1>4 DEF Holdings
<1> QED
  BY <1>3, <1>4

\* A withdrawal moves one denomination from the vault to recipient and relayer,
\* who may be one account.
LEMMA WithdrawHoldings ==
  ASSUME IsFiniteSet(Users), TypeOK, NEW k \in Mints,
         NEW m \in Mints, NEW p \in proofs, Withdraw(m, p)
  PROVE  Holdings(k)' = Holdings(k)
<1> DEFINE cut == relayer_cut(p.amount, p.fee_bps)
           rest == recipient_amount(p.amount, p.fee_bps)
           paid == Credit(balance[m], p.recipient, rest)
<1>1. /\ p.amount = denomination[m] /\ p.fee_bps = relayer_fee_bps[m]
      /\ vault' = [vault EXCEPT ![m] = @ - p.amount]
      /\ balance' = [balance EXCEPT ![m] = Credit(Credit(@, p.recipient, rest), p.relayer, cut)]
  BY DEF Withdraw, VerifyAndRecord
<1>2. p.recipient \in Users /\ p.relayer \in Users
  BY DEF TypeOK, Proof, Users
<1>3. cut \in Nat /\ rest \in Nat /\ rest + cut = p.amount /\ p.amount \in Nat
  BY <1>1, SplitPayout DEF TypeOK
<1>4. balance \in [Mints -> [Users -> Nat]] /\ vault \in [Mints -> Nat]
  BY DEF TypeOK
<1> HIDE DEF cut, rest
<1>5. CASE k = m
  <2>1. paid \in [Users -> Int] /\ SumFunction(paid) = SumFunction(balance[m]) + rest
    <3>1. balance[m] \in [Users -> Int] /\ rest \in Int
      BY <1>3, FundsSum
    <3> QED
      BY <1>2, <3>1, CreditSum
  <2>2. balance'[m] = Credit(paid, p.relayer, cut) /\ vault'[m] = vault[m] - p.amount
    BY <1>1, <1>4
  <2> HIDE DEF paid
  <2>3. SumFunction(balance'[m]) = SumFunction(paid) + cut
    BY <1>2, <1>3, <2>1, <2>2, CreditSum
  <2> QED
    BY <1>3, <1>5, <2>1, <2>2, <2>3, FundsSum DEF Holdings
<1>6. CASE k # m
  BY <1>1, <1>4, <1>6 DEF Holdings
<1> QED
  BY <1>5, <1>6

\* No sequence of instructions creates or destroys money, however the cut of the
\* relayer is rounded and whoever submits.  Accounts are finitely many.
THEOREM ValueConservedHolds ==
  ASSUME IsFiniteSet(Users)
  PROVE  Spec => []ValueConserved
<1>1. Init => ValueConserved
  <2> SUFFICES ASSUME Init, NEW k \in Mints
               PROVE  Holdings(k) = Cardinality(Users) * InitialFunds
    BY DEF ValueConserved
  <2>1. SumFunction([u \in Users |-> InitialFunds]) = Cardinality(Users) * InitialFunds
    <3>1. InitialFunds \in Int
      BY SizesAssumption
    <3> QED
      BY <3>1, SumConstant
  <2>2. balance[k] = [u \in Users |-> InitialFunds] /\ vault[k] = 0
    BY DEF Init
  <2>3. Cardinality(Users) * InitialFunds \in Int
    BY FS_CardinalityType, SizesAssumption
  <2> QED
    BY <2>1, <2>2, <2>3 DEF Holdings
<1>2. TypeOK /\ ValueConserved /\ [Next]_vars => ValueConserved'
  <2> SUFFICES ASSUME TypeOK, ValueConserved, [Next]_vars, NEW k \in Mints
               PROVE  Holdings(k)' = Holdings(k)
    BY DEF ValueConserved
  <2>1. CASE UNCHANGED funds
    BY <2>1 DEF funds, Holdings
  <2>2. ASSUME NEW m \in Mints, NEW u \in Wallets, NEW n \in Notes, Deposit(u, m, n)
        PROVE  Holdings(k)' = Holdings(k)
    BY <2>2, DepositHoldings
  <2>3. ASSUME NEW m \in Mints, NEW p \in proofs, Withdraw(m, p)
        PROVE  Holdings(k)' = Holdings(k)
    BY <2>3, WithdrawHoldings
  <2>4. ASSUME NEW m \in Mints, NEW u \in Authorities, NEW v \in Authorities,
               \/ \E amount \in Denominations, fee \in FeeRates : Initialize(u, m, amount, fee)
               \/ Pause(u, m) \/ Unpause(u, m) \/ RotateAuthority(u, m, v)
        PROVE  UNCHANGED funds
    BY <2>4 DEF Initialize, Pause, Unpause, RotateAuthority
  <2>5. ASSUME NEW m \in Mints, NEW i \in 0..Capacity - 1, NEW leaf_index \in LeafIndices,
               NEW recipient \in Wallets, NEW relayer \in Relayers,
               Prove(m, i, leaf_index, recipient, relayer)
        PROVE  UNCHANGED funds
    BY <2>5 DEF Prove
  <2> QED
    BY <2>1, <2>2, <2>3, <2>4, <2>5 DEF Next, vars
<1> QED
  BY <1>1, <1>2, TypeCorrect, PTL DEF Spec
=============================================================================
