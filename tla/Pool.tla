-------------------------------- MODULE Pool --------------------------------
(***************************************************************************)
(* The BagsVault on-chain program (programs/bagsvault/src): one shielded   *)
(* pool per token mint, a rolling window of Merkle roots, nullifiers that  *)
(* mark spent notes, and the vaults that hold the deposits.                *)
(*                                                                         *)
(* A Solana transaction is atomic: an instruction that returns an error    *)
(* changes nothing.  An instruction is therefore one action, whose guard   *)
(* is every check that its accounts struct and its handler make.           *)
(*                                                                         *)
(* A Merkle root is named here by the sequence of commitments it commits   *)
(* to.  Module MerkleTree is about the tree itself: it shows that the      *)
(* incremental insertion computes a root that is a function of that        *)
(* sequence and of nothing else.  A deposit of zeros, which cannot be told *)
(* from an empty leaf, is left out, and so are recipients and relayers     *)
(* whose keys are not below the field modulus: no proof is good for them   *)
(* (module ProofService).                                                  *)
(***************************************************************************)
EXTENDS Integers, Sequences, FiniteSets, Functions

CONSTANTS
  Mints,            \* token mints that may get a pool
  NativeMint,       \* the System Program ID, which stands for native SOL
  Authorities,      \* keys that open pools and hold the admin role
  Wallets,          \* depositors and recipients
  Relayers,         \* keys that submit withdrawals; they may be wallets too
  NoAuthority,      \* the zeroed key of an account that does not exist yet
  Nullifiers,       \* the nullifier values wallets draw
  Secrets,          \* the secrets wallets draw
  Denominations,    \* deposit sizes passed to initialize
  FeeRates,         \* relayer fees, in basis points, passed to initialize
  RootHistorySize,  \* ROOT_HISTORY_SIZE, 10 in the program
  Capacity,         \* 2^MERKLE_TREE_DEPTH, 2^20 in the program
  InitialFunds,     \* what a wallet owns of each mint at the start
  LeafIndices,      \* bound: the field elements a prover gives for leaf_index
  MaxLiveProofs,    \* bound: how many usable proofs of one note exist at once
  MaxForeignProofs, \* bound: how many proofs name a position of another leaf
  ZeroRoot          \* 32 zero bytes: an unused slot of the root window

\* The sizes of the program's arrays and what initialize takes.
ASSUME SizesAssumption ==
  /\ RootHistorySize \in Nat \ {0}
  /\ Capacity \in Nat
  /\ LeafIndices \subseteq Nat
  /\ InitialFunds \in Nat
  /\ Denominations \subseteq Nat
  /\ FeeRates \subseteq Nat

\* A cleared slot is not the root of any tree.
ASSUME ZeroRootAssumption ==
  ZeroRoot \notin Seq([nullifier : Nullifiers, secret : Secrets])

VARIABLES
  initialized,       \* the mints whose MerkleTreeState account exists
  authority,         \* MerkleTreeState.authority
  denomination,      \* MerkleTreeState.denomination
  relayer_fee_bps,   \* MerkleTreeState.relayer_fee_bps
  commitment_count,  \* MerkleTreeState.commitment_count
  root_cursor,       \* MerkleTreeState.root_cursor
  paused,            \* MerkleTreeState.paused
  roots,             \* MerkleTreeState.roots
  leaves,            \* the commitments the tree was built from
  nullifiers,        \* the nullifier hashes whose PDA exists, for all pools
  vault,             \* what each pool's vault holds
  balance,           \* what each wallet holds of each mint
  proofs,            \* proofs made so far: each may be submitted at any time
  payouts            \* history: the payouts of each pool, by deposit and ticket

config == <<initialized, authority, denomination, relayer_fee_bps, paused>>
tree == <<commitment_count, root_cursor, roots, leaves>>
funds == <<vault, balance>>
spent == <<nullifiers, payouts>>
vars == <<config, tree, funds, spent, proofs>>

Users == Wallets \cup Relayers

MAX_RELAYER_FEE_BPS == 1000
Slots == 0..RootHistorySize - 1

\* A note is what its owner keeps; hash3(nullifier, secret, amount) is its
\* commitment, so notes of one pool and their commitments are one to one.
Notes == [nullifier : Nullifiers, secret : Secrets]
Root == Seq(Notes)
NullifierHash == [nullifier : Nullifiers, leaf_index : LeafIndices]

\* A proof: the public inputs of the withdrawal circuit, and of the private
\* ones the leaf it is about, which the program never sees.
Proof ==
  [root : Root, nullifier_hash : NullifierHash, recipient : Wallets,
   amount : Nat, relayer : Relayers, fee_bps : Nat, leaf : Nat]

\* A payout: the leaf it was for, and the nullifier hash it used up.
Payout == [deposit : Nat, ticket : NullifierHash]

RootAfter(m, k) == SubSeq(leaves[m], 1, k)

\* Mutant: the nullifier hash leaves the leaf index out.
HashUnindexed(n, leaf_index) == [nullifier |-> n.nullifier, leaf_index |-> 0]

\* hash2(nullifier, leaf_index) of a note.
Hash(n, leaf_index) == [nullifier |-> n.nullifier, leaf_index |-> leaf_index]

\* What it is when the prover names the position of the leaf, counted from 0.
NullifierHashAt(m, i) == Hash(leaves[m][i + 1], i)

\* Mutant: the last slot of the window is not looked at.
RootIsKnownShort(m, r) == r # ZeroRoot /\ \E j \in 0..RootHistorySize - 2 : roots[m][j] = r

root_is_known(m, r) == r # ZeroRoot /\ \E j \in Slots : roots[m][j] = r

-----------------------------------------------------------------------------

Init ==
  /\ initialized = {}
  /\ authority = [m \in Mints |-> NoAuthority]
  /\ denomination = [m \in Mints |-> 0]
  /\ relayer_fee_bps = [m \in Mints |-> 0]
  /\ commitment_count = [m \in Mints |-> 0]
  /\ root_cursor = [m \in Mints |-> 0]
  /\ paused = [m \in Mints |-> FALSE]
  /\ roots = [m \in Mints |-> [j \in Slots |-> ZeroRoot]]
  /\ leaves = [m \in Mints |-> << >>]
  /\ nullifiers = {}
  /\ vault = [m \in Mints |-> 0]
  /\ balance = [m \in Mints |-> [u \in Users |-> InitialFunds]]
  /\ proofs = {}
  /\ payouts = [m \in Mints |-> {}]

\* Mutant: init_if_needed, which writes the state of an open pool again.
InitializeAgain(u, m, amount, fee) ==
  /\ fee <= MAX_RELAYER_FEE_BPS
  /\ initialized' = initialized \cup {m}
  /\ authority' = [authority EXCEPT ![m] = u]
  /\ denomination' = [denomination EXCEPT ![m] = amount]
  /\ relayer_fee_bps' = [relayer_fee_bps EXCEPT ![m] = fee]
  /\ roots' = [roots EXCEPT ![m] = [j \in Slots |-> IF j = 0 THEN << >> ELSE ZeroRoot]]
  /\ commitment_count' = [commitment_count EXCEPT ![m] = 0]
  /\ root_cursor' = [root_cursor EXCEPT ![m] = 0]
  /\ leaves' = [leaves EXCEPT ![m] = << >>]
  /\ UNCHANGED <<paused, funds, spent, proofs>>

\* Anyone may open the pool of a mint, once: the account is created here.
Initialize(u, m, amount, fee) ==
  /\ m \notin initialized
  /\ fee <= MAX_RELAYER_FEE_BPS
  /\ initialized' = initialized \cup {m}
  /\ authority' = [authority EXCEPT ![m] = u]
  /\ denomination' = [denomination EXCEPT ![m] = amount]
  /\ relayer_fee_bps' = [relayer_fee_bps EXCEPT ![m] = fee]
  /\ roots' = [roots EXCEPT ![m] = [j \in Slots |-> IF j = 0 THEN << >> ELSE ZeroRoot]]
  /\ UNCHANGED <<commitment_count, root_cursor, paused, leaves, funds, spent, proofs>>

\* Mutant: the cursor is not wrapped.
InsertUnwrapped(m, commitment) ==
  /\ commitment_count[m] < Capacity
  /\ leaves' = [leaves EXCEPT ![m] = Append(@, commitment)]
  /\ roots' = [roots EXCEPT ![m][root_cursor[m]] = Append(leaves[m], commitment)]
  /\ root_cursor' = [root_cursor EXCEPT ![m] = @ + 1]
  /\ commitment_count' = [commitment_count EXCEPT ![m] = @ + 1]

\* Mutant: the cursor is advanced before the root is written.
InsertAhead(m, commitment) ==
  LET next == (root_cursor[m] + 1) % RootHistorySize IN
    /\ commitment_count[m] < Capacity
    /\ leaves' = [leaves EXCEPT ![m] = Append(@, commitment)]
    /\ roots' = [roots EXCEPT ![m][next] = Append(leaves[m], commitment)]
    /\ root_cursor' = [root_cursor EXCEPT ![m] = next]
    /\ commitment_count' = [commitment_count EXCEPT ![m] = @ + 1]

\* merkle::insert: append the commitment, push the new root on the window.
Insert(m, commitment) ==
  /\ commitment_count[m] < Capacity
  /\ leaves' = [leaves EXCEPT ![m] = Append(@, commitment)]
  /\ roots' = [roots EXCEPT ![m][root_cursor[m]] = Append(leaves[m], commitment)]
  /\ root_cursor' = [root_cursor EXCEPT ![m] = (@ + 1) % RootHistorySize]
  /\ commitment_count' = [commitment_count EXCEPT ![m] = @ + 1]

\* deposit and deposit_spl: take the denomination, then insert.
Deposit(u, m, n) ==
  /\ m \in initialized
  /\ ~paused[m]
  /\ balance[m][u] >= denomination[m]
  /\ balance' = [balance EXCEPT ![m][u] = @ - denomination[m]]
  /\ vault' = [vault EXCEPT ![m] = @ + denomination[m]]
  /\ Insert(m, n)
  /\ UNCHANGED <<config, spent, proofs>>

-----------------------------------------------------------------------------

\* A proof that names the position of its leaf, and the usable ones of a note of
\* pool m: those against a root it knows.
NamesPosition(p) == p.nullifier_hash = Hash(p.root[p.leaf + 1], p.leaf)
ForeignProofs == {p \in proofs : ~NamesPosition(p)}
LiveProofs(m, i) ==
  {p \in proofs \ ForeignProofs : p.leaf = i /\ root_is_known(m, p.root)}

\* The owner of the i-th leaf proves it against the newest root.  The path and
\* its sides lead from leaf i to the root; leaf_index is a private input of its
\* own that no constraint relates to them, so the prover may give any value.
\* Assumed: only the owner knows the note, and only what is proved verifies.
Prove(m, i, leaf_index, recipient, relayer) ==
  LET h == Hash(leaves[m][i + 1], leaf_index) IN
    /\ m \in initialized
    /\ i < commitment_count[m]
    /\ IF h = NullifierHashAt(m, i) THEN Cardinality(LiveProofs(m, i)) < MaxLiveProofs
                                    ELSE Cardinality(ForeignProofs) < MaxForeignProofs
    /\ proofs' = proofs \cup
         {[root |-> RootAfter(m, commitment_count[m]), nullifier_hash |-> h,
           recipient |-> recipient, amount |-> denomination[m], relayer |-> relayer,
           fee_bps |-> relayer_fee_bps[m], leaf |-> i]}
    /\ UNCHANGED <<config, tree, funds, spent>>

relayer_cut(amount, fee) == (amount * fee) \div 10000

\* Mutant: the recipient's share is rounded down on its own.
RecipientShare(amount, fee) == (amount * (10000 - fee)) \div 10000

recipient_amount(amount, fee) == amount - relayer_cut(amount, fee)

\* Mutant: the nullifier PDA is opened with init_if_needed.
VerifySpent(m, p) ==
  /\ m \in initialized
  /\ ~paused[m]
  /\ root_is_known(m, p.root)
  /\ p.amount = denomination[m]
  /\ p.fee_bps = relayer_fee_bps[m]

\* Mutant: a withdrawal does not look at paused.
VerifyPaused(m, p) ==
  /\ m \in initialized
  /\ p.nullifier_hash \notin nullifiers
  /\ root_is_known(m, p.root)
  /\ p.amount = denomination[m]
  /\ p.fee_bps = relayer_fee_bps[m]

\* The checks of the accounts struct and of verify_and_record.
VerifyAndRecord(m, p) ==
  /\ m \in initialized
  /\ ~paused[m]
  /\ p.nullifier_hash \notin nullifiers
  /\ root_is_known(m, p.root)
  /\ p.amount = denomination[m]
  /\ p.fee_bps = relayer_fee_bps[m]

\* withdraw debits the vault's lamports itself, which the runtime allows only
\* for an account the program owns; the native vault is a bare address that
\* DepositSol funds with a system transfer, so the System Program owns it.
\* withdraw_spl makes the token program pay, signing as the vault PDA.
VaultDebitable(m) == m # NativeMint

Credit(b, u, amount) == [b EXCEPT ![u] = @ + amount]

PayoutOf(p) == [deposit |-> p.leaf, ticket |-> p.nullifier_hash]

\* Mutant: the vault pays the relayer on top of the denomination.
WithdrawFeeOnTop(m, p) ==
  LET cut == relayer_cut(p.amount, p.fee_bps) IN
    /\ VerifyAndRecord(m, p)
    /\ VaultDebitable(m)
    /\ vault[m] >= p.amount + cut
    /\ nullifiers' = nullifiers \cup {p.nullifier_hash}
    /\ payouts' = [payouts EXCEPT ![m] = @ \cup {PayoutOf(p)}]
    /\ vault' = [vault EXCEPT ![m] = @ - p.amount - cut]
    /\ balance' = [balance EXCEPT ![m] =
         Credit(Credit(@, p.recipient, p.amount), p.relayer, cut)]
    /\ UNCHANGED <<config, tree, proofs>>

\* Mutant: only the newest nullifier is kept.
WithdrawForgetting(m, p) ==
  /\ VerifyAndRecord(m, p)
  /\ VaultDebitable(m)
  /\ vault[m] >= p.amount
  /\ nullifiers' = {p.nullifier_hash}
  /\ payouts' = [payouts EXCEPT ![m] = @ \cup {PayoutOf(p)}]
  /\ vault' = [vault EXCEPT ![m] = @ - p.amount]
  /\ balance' = [balance EXCEPT ![m] =
       Credit(Credit(@, p.recipient, recipient_amount(p.amount, p.fee_bps)),
              p.relayer, relayer_cut(p.amount, p.fee_bps))]
  /\ UNCHANGED <<config, tree, proofs>>

\* withdraw and withdraw_spl: record the nullifier, pay recipient and relayer.
Withdraw(m, p) ==
  /\ VerifyAndRecord(m, p)
  /\ VaultDebitable(m)
  /\ vault[m] >= p.amount
  /\ nullifiers' = nullifiers \cup {p.nullifier_hash}
  /\ payouts' = [payouts EXCEPT ![m] = @ \cup {PayoutOf(p)}]
  /\ vault' = [vault EXCEPT ![m] = @ - p.amount]
  /\ balance' = [balance EXCEPT ![m] =
       Credit(Credit(@, p.recipient, recipient_amount(p.amount, p.fee_bps)),
              p.relayer, relayer_cut(p.amount, p.fee_bps))]
  /\ UNCHANGED <<config, tree, proofs>>

-----------------------------------------------------------------------------

\* The accounts struct AdminAction: only the pool's authority gets through.
AdminAction(u, m) == m \in initialized /\ u = authority[m]

Pause(u, m) ==
  /\ AdminAction(u, m)
  /\ paused' = [paused EXCEPT ![m] = TRUE]
  /\ UNCHANGED <<initialized, authority, denomination, relayer_fee_bps,
                 tree, funds, spent, proofs>>

Unpause(u, m) ==
  /\ AdminAction(u, m)
  /\ paused' = [paused EXCEPT ![m] = FALSE]
  /\ UNCHANGED <<initialized, authority, denomination, relayer_fee_bps,
                 tree, funds, spent, proofs>>

RotateAuthority(u, m, new_authority) ==
  /\ AdminAction(u, m)
  /\ authority' = [authority EXCEPT ![m] = new_authority]
  /\ UNCHANGED <<initialized, denomination, relayer_fee_bps, paused,
                 tree, funds, spent, proofs>>

Next ==
  \E m \in Mints :
    \/ \E u \in Authorities, amount \in Denominations, fee \in FeeRates :
         Initialize(u, m, amount, fee)
    \/ \E u \in Wallets, n \in Notes : Deposit(u, m, n)
    \/ \E i \in 0..Capacity - 1, leaf_index \in LeafIndices,
          recipient \in Wallets, relayer \in Relayers :
         Prove(m, i, leaf_index, recipient, relayer)
    \/ \E p \in proofs : Withdraw(m, p)
    \/ \E u \in Authorities : Pause(u, m) \/ Unpause(u, m)
    \/ \E u, v \in Authorities : RotateAuthority(u, m, v)

Spec == Init /\ [][Next]_vars

-----------------------------------------------------------------------------
(***************************************************************************)
(* Properties.                                                             *)
(***************************************************************************)

\* Every variable has its type.  A leaf has an index below the capacity, and
\* there are as many leaves as the on-chain counter says.
TypeOK ==
  /\ initialized \subseteq Mints
  /\ authority \in [Mints -> Authorities \cup {NoAuthority}]
  /\ denomination \in [Mints -> Nat]
  /\ relayer_fee_bps \in [Mints -> 0..MAX_RELAYER_FEE_BPS]
  /\ commitment_count \in [Mints -> 0..Capacity]
  /\ root_cursor \in [Mints -> Slots]
  /\ paused \in [Mints -> BOOLEAN]
  /\ roots \in [Mints -> [Slots -> Root \cup {ZeroRoot}]]
  /\ leaves \in [Mints -> Root]
  /\ \A m \in Mints : Len(leaves[m]) = commitment_count[m]
  /\ nullifiers \subseteq NullifierHash
  /\ vault \in [Mints -> Nat]
  /\ balance \in [Mints -> [Users -> Nat]]
  /\ proofs \subseteq Proof
  /\ payouts \in [Mints -> SUBSET Payout]

\* The slot written d insertions ago.
Back(m, d) ==
  IF d <= root_cursor[m] THEN root_cursor[m] - d
                         ELSE root_cursor[m] + RootHistorySize - d

\* The ring buffer holds the roots of the last RootHistorySize deposits, each
\* in the slot its age gives, and nothing else: going back from the cursor one
\* meets every recent root in order, then only slots that were never written.
\* (The one exception is the empty root, which initialize writes to slot 0 and
\* the first deposit overwrites.)
RootWindow ==
  \A m \in initialized : \A d \in 1..RootHistorySize :
    roots[m][Back(m, d)] =
      IF d <= commitment_count[m] THEN RootAfter(m, commitment_count[m] + 1 - d)
      ELSE IF commitment_count[m] = 0 /\ d = RootHistorySize THEN << >>
      ELSE ZeroRoot

\* A pool pays one price for each payout and keeps the rest: nothing is paid that
\* was not deposited, no fee is taken from the deposits of others, and over all
\* pools a nullifier hash is paid for once.
Solvency ==
  \A m \in Mints :
    /\ vault[m] = denomination[m] * (commitment_count[m] - Cardinality(payouts[m]))
    /\ \A a \in payouts[m], k \in Mints : \A b \in payouts[k] :
         a.ticket = b.ticket => m = k /\ a = b

\* A deposit is paid out once: what main.nr's description of leaf_index, the
\* position of the commitment in the tree, would give.
PaidOnce ==
  \A m \in Mints : \A a, b \in payouts[m] : a.deposit = b.deposit => a = b

\* What all wallets and the vault hold of a mint.
Holdings(m) == vault[m] + SumFunction(balance[m])

\* A pool creates and destroys nothing: the rounding of the relayer cut is paid
\* by somebody, and a payout to a recipient who is the relayer is complete.
ValueConserved ==
  \A m \in Mints : Holdings(m) = Cardinality(Users) * InitialFunds

\* A note can be paid out to an owner who names its position: that nullifier PDA
\* does not exist, the newest root is in the window to prove against, and the
\* vault can pay.
CanRedeem(m, i) ==
  /\ NullifierHashAt(m, i) \notin nullifiers
  /\ root_is_known(m, RootAfter(m, commitment_count[m]))
  /\ VaultDebitable(m)
  /\ vault[m] >= denomination[m]

Redeemed(m) == {a.deposit : a \in payouts[m]}
Unredeemed(m) == 0..commitment_count[m] - 1 \ Redeemed(m)

\* Every proof made so far names the position of its leaf.
PositionsNamed ==
  \A p \in proofs : NamesPosition(p)

\* As long as every prover names the position of the leaf, no note of a lone
\* token pool is ever locked and none is paid twice.
NotesRedeemable ==
  PositionsNamed =>
    /\ PaidOnce
    /\ \A m \in initialized \ {NativeMint} : \A i \in Unredeemed(m) : CanRedeem(m, i)

\* A payout that used up the ticket of a note, but was for another: one of another
\* pool, or one whose prover named a foreign position.
TicketUsed(m, i) ==
  \E k \in initialized : \E a \in payouts[k] :
    a.ticket = NullifierHashAt(m, i) /\ (k # m \/ a.deposit # i)

PaidTwice(m) == \E a, b \in payouts[m] : a.deposit = b.deposit /\ a # b

\* Pools share the namespace of nullifiers, and provers choose leaf_index.  Whatever
\* they do, a note of a token pool is locked only by a note that was paid out with
\* its ticket, so one of the same nullifier value, or while some other note of its
\* pool has been paid more than once.
LockedOnlyByTwin ==
  \A m \in initialized \ {NativeMint} : \A i \in Unredeemed(m) :
    CanRedeem(m, i) \/ TicketUsed(m, i) \/ PaidTwice(m)

\* No note of the SOL pool is ever locked: what the comments of withdraw.rs promise.
NativeNotesRedeemable ==
  \A m \in initialized \cap {NativeMint} : \A i \in Unredeemed(m) : CanRedeem(m, i)

\* A proof against the root of the first k deposits of a pool is usable until
\* RootHistorySize more deposits have been made, and never after that.
ProofLifetime ==
  \A m \in initialized, p \in proofs :
    Len(p.root) <= commitment_count[m] /\ p.root = RootAfter(m, Len(p.root)) =>
      (root_is_known(m, p.root) <=> commitment_count[m] - Len(p.root) < RootHistorySize)

\* A depositor's terms do not change under a note: denomination and relayer fee
\* are what initialize set, the tree only grows, a spent nullifier stays spent.
TermsFixed ==
  [][\A m \in initialized :
       /\ m \in initialized'
       /\ denomination'[m] = denomination[m]
       /\ relayer_fee_bps'[m] = relayer_fee_bps[m]
       /\ commitment_count[m] <= commitment_count'[m]
       /\ SubSeq(leaves'[m], 1, commitment_count[m]) = leaves[m]
       /\ nullifiers \subseteq nullifiers']_vars

\* Nothing enters or leaves a paused pool.
PauseFreezesFunds ==
  [][\A m \in Mints : paused[m] =>
       /\ vault'[m] = vault[m]
       /\ balance'[m] = balance[m]
       /\ leaves'[m] = leaves[m]]_vars

\* The pool implements the escrow: whatever proofs are submitted, in whatever
\* order, a payout is for a deposit of that pool and uses up a ticket.
E == INSTANCE Escrow WITH
       Pools <- Mints, Prices <- Denominations, Tickets <- NullifierHash,
       open <- initialized, price <- denomination,
       deposited <- commitment_count, redeemed <- payouts, custody <- vault
ImplementsEscrow == E!Spec

-----------------------------------------------------------------------------
(***************************************************************************)
(* The inductive invariant behind Solvency.                                *)
(***************************************************************************)

\* A mint without a pool has neither deposits nor payouts.
ClosedPoolsEmpty ==
  \A m \in Mints \ initialized :
    /\ commitment_count[m] = 0
    /\ root_cursor[m] = 0
    /\ leaves[m] = << >>
    /\ vault[m] = 0
    /\ payouts[m] = {}

\* A proof is about a note in the tree it names: the verifier is sound.
ProofsSound ==
  \A p \in proofs :
    /\ p.leaf < Len(p.root)
    /\ p.root[p.leaf + 1].nullifier = p.nullifier_hash.nullifier

\* A payout is for a leaf of its pool, with the nullifier of that leaf; it was
\* proved, and its ticket is recorded.
PayoutsProved ==
  \A m \in Mints :
    /\ IsFiniteSet(payouts[m])
    /\ \A a \in payouts[m] :
         /\ a.deposit < commitment_count[m]
         /\ a.ticket.nullifier = leaves[m][a.deposit + 1].nullifier
         /\ a.ticket \in nullifiers
         /\ \E p \in proofs : a = PayoutOf(p) /\ p.root[p.leaf + 1] = leaves[m][p.leaf + 1]

\* A ticket is recorded only when something is paid out for it.
SpentRedeemed ==
  \A h \in nullifiers : \E m \in initialized : \E a \in payouts[m] : a.ticket = h

Inv ==
  /\ TypeOK
  /\ ClosedPoolsEmpty
  /\ RootWindow
  /\ ProofsSound
  /\ PayoutsProved
  /\ Solvency

-----------------------------------------------------------------------------

\* Owners who name the position of their leaf make a new proof when the one they
\* have is stale, and submit it again until the pool takes it.
RedeemLeaf(m, i) ==
  \E p \in proofs :
    /\ i < commitment_count[m]
    /\ p.leaf = i
    /\ p.nullifier_hash = NullifierHashAt(m, i)
    /\ Withdraw(m, p)

ProveLeaf(m, i) ==
  \E recipient \in Wallets, relayer \in Relayers : Prove(m, i, i, recipient, relayer)

FairSpec ==
  /\ Spec
  /\ \A m \in Mints, i \in 0..Capacity - 1 :
       WF_vars(ProveLeaf(m, i)) /\ SF_vars(RedeemLeaf(m, i))

\* In the end every token pool is paused, or each of its notes was paid out, unless
\* its ticket went to another note or a note of its pool was paid more than once:
\* however many deposits make proofs stale on the way, and however often the pool
\* is paused and resumed.  (A tree is full after Capacity deposits.)
Settled(m) ==
  \A i \in Unredeemed(m) : TicketUsed(m, i) \/ PaidTwice(m)

EventuallyRedeemed ==
  <>[](\A m \in Mints \ {NativeMint} : paused[m] \/ Settled(m))
=============================================================================
