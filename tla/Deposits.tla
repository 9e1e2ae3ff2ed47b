------------------------------ MODULE Deposits ------------------------------
(***************************************************************************)
(* The deposit side of the backend: the calls of DepositRegistry and the   *)
(* polling task, which all sync the root cache of MerkleIndexer.  A call   *)
(* runs sync_now inside register, after it has inserted its row.           *)
(*                                                                         *)
(* A transaction that lands deposits into the pool whose account is        *)
(* indexed, once, or it does something else: a transfer, or a deposit into *)
(* the pool of another mint.  register takes any.                          *)
(***************************************************************************)
EXTENDS DepositRegistry, Sequences

CONSTANTS Worker,         \* the polling task of indexer_worker.py
          MaxDeposits,    \* bound: the deposits the indexed pool takes
          AuthorityBytes

\* The polling task is no call, and no count is what the decoder misreads.
ASSUME DepositsAssumption ==
  /\ Worker \notin Calls
  /\ MaxDeposits \in Nat
  /\ AuthorityBytes \notin 0..MaxDeposits

VARIABLES deposits,          \* the indexed pool's, in the order of their leaves
          commitment_count, layout, sync, account, merkle_roots,
          synced             \* history: the calls whose sync_now succeeded

I == INSTANCE MerkleIndexer WITH Syncers <- Calls \cup {Worker}

cache == <<commitment_count, layout, sync, account, merkle_roots>>
depositsVars == <<vars, deposits, cache, synced>>

DepositsInit ==
  /\ Init /\ I!Init
  /\ deposits = << >> /\ synced = {}

\* A transaction lands that deposits into the indexed pool.
LandDeposit(tx) ==
  /\ Land(tx) /\ I!Deposit
  /\ deposits' = Append(deposits, tx)
  /\ UNCHANGED synced

\* A transaction lands that does not.
LandOther(tx) == Land(tx) /\ UNCHANGED <<deposits, cache, synced>>

\* sync_now of the polling task.
Poll ==
  /\ UNCHANGED <<vars, deposits, synced>>
  /\ \/ I!SyncNow(Worker) \/ I!Fetch(Worker) \/ I!NoRoot(Worker)
     \/ I!Record(Worker) \/ I!SyncFails(Worker)

\* Mutant: a sync that fails makes register raise.
SyncOfRaising(c) ==
  /\ pc[c] = "sync" /\ UNCHANGED deposits
  /\ \/ UNCHANGED <<vars, synced>> /\ (I!SyncNow(c) \/ I!Fetch(c))
     \/ SyncReturns(c) /\ I!Record(c) /\ synced' = synced \cup {c}
     \/ SyncReturns(c) /\ I!NoRoot(c) /\ UNCHANGED synced
     \/ /\ GoTo(c, "error")
        /\ I!SyncFails(c)
        /\ UNCHANGED <<landed, arguments, merkle_index, commitments, synced>>

\* sync_now of a call, which is at its last await: register returns with it.
SyncOf(c) ==
  /\ pc[c] = "sync" /\ UNCHANGED deposits
  /\ \/ (I!SyncNow(c) \/ I!Fetch(c)) /\ UNCHANGED <<vars, synced>>
     \/ SyncReturns(c) /\ I!Record(c) /\ synced' = synced \cup {c}
     \/ SyncReturns(c) /\ (I!NoRoot(c) \/ I!SyncFails(c)) /\ UNCHANGED synced

DepositsNext ==
  \/ \E tx \in TxSignatures : LandDeposit(tx) \/ LandOther(tx)
  \/ \E c \in Calls : Step(c) /\ UNCHANGED <<deposits, cache, synced>>
  \/ \E c \in Calls : SyncOf(c)
  \/ Poll

DepositsSpec == DepositsInit /\ [][DepositsNext]_depositsVars

-----------------------------------------------------------------------------

\* Every variable has its type, and the account counts the pool's deposits.
TypeOK ==
  /\ RegistryTypeOK
  /\ I!TypeOK
  /\ deposits \in Seq(landed)
  /\ commitment_count = Len(deposits)
  /\ synced \subseteq Calls

\* A call that names a deposit of the indexed pool, and whose sync succeeded,
\* leaves in the cache what the account said when it counted that deposit.
RegisteredIsIndexed ==
  \A c \in synced, j \in DOMAIN deposits :
    tx_signature[c] = deposits[j] =>
      \E i \in DOMAIN merkle_roots, count \in j..commitment_count :
        merkle_roots[i] = I!decode_state(count)

\* The cache lists what was decoded from states of the account, each value once.
RootsRead == I!RootsRead

\* Syncing the cache does not disturb the registry: whatever DepositRegistry
\* guarantees on its own it guarantees here.
RegistryHolds == Spec
=============================================================================
