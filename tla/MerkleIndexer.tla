--------------------------- MODULE MerkleIndexer ---------------------------
(***************************************************************************)
(* The cache of Merkle roots of the backend (services/merkle_indexer.py)   *)
(* and the background task that fills it (services/indexer_worker.py).     *)
(*                                                                         *)
(* A root is named by the number of deposits it commits to.  The account   *)
(* the indexer is set to read has one of two layouts: the one that its     *)
(* decoder documents, or that of this repository's MerkleTreeState, where  *)
(* the decoder takes other bytes for a root.  Every caller of sync_now     *)
(* reads the account over RPC and then writes what it read to              *)
(* db.merkle_roots: callers may overlap between the two.  Stamping a       *)
(* record with indexed_at and inserting it is one step here, and the       *)
(* collection is the sequence of its roots in the order of indexed_at.     *)
(***************************************************************************)
EXTENDS Naturals, Sequences, SequencesExt

CONSTANTS
  Syncers,         \* the tasks that call sync_now
  MaxDeposits,     \* bound: the deposits the pool takes
  AuthorityBytes   \* what the decoder takes for a root in MerkleTreeState: no count

ASSUME LayoutAssumption ==
  /\ MaxDeposits \in Nat
  /\ AuthorityBytes \notin 0..MaxDeposits

VARIABLES
  commitment_count,  \* of the account, on chain
  layout,            \* of the account: "documented" or "program"
  sync,              \* where a caller's sync_now stands
  account,           \* what its get_account_info returned
  merkle_roots       \* db.merkle_roots, oldest indexed_at first

pool == <<commitment_count, layout>>
vars == <<pool, sync, account, merkle_roots>>

Root == 0..MaxDeposits \cup {AuthorityBytes}

\* _decode_state: 32 bytes at offset 13.  In MerkleTreeState the authority and
\* the token mint are there; its IDL has no field that _state_from_decoded_dict
\* takes for a root, so the decoder falls back to this one.
decode_state(count) == IF layout = "documented" THEN count ELSE AuthorityBytes

Init ==
  /\ commitment_count = 0
  /\ layout \in {"documented", "program"}
  /\ sync = [s \in Syncers |-> "idle"]
  /\ account = [s \in Syncers |-> 0]
  /\ merkle_roots = << >>

Deposit ==
  /\ commitment_count < MaxDeposits
  /\ commitment_count' = commitment_count + 1
  /\ UNCHANGED <<layout, sync, account, merkle_roots>>

\* sync_now up to the await on get_account_info.
SyncNow(s) ==
  /\ sync[s] = "idle"
  /\ sync' = [sync EXCEPT ![s] = "fetch"]
  /\ UNCHANGED <<pool, account, merkle_roots>>

\* The node answers with the account as it is.
Fetch(s) ==
  /\ sync[s] = "fetch"
  /\ account' = [account EXCEPT ![s] = commitment_count]
  /\ sync' = [sync EXCEPT ![s] = "record"]
  /\ UNCHANGED <<pool, merkle_roots>>

\* Mutant: an indexed root is stamped again.
RecordAgain(s) ==
  LET root == decode_state(account[s]) IN
    /\ sync[s] = "record"
    /\ merkle_roots' = Append(merkle_roots, root)
    /\ sync' = [sync EXCEPT ![s] = "idle"]
    /\ UNCHANGED <<pool, account>>

\* Mutant: the record is one leaf ahead of the account.
RecordNext(s) ==
  LET root == decode_state(account[s] + 1) IN
    /\ sync[s] = "record"
    /\ merkle_roots' = IF root \in Range(merkle_roots) THEN merkle_roots
                       ELSE Append(merkle_roots, root)
    /\ sync' = [sync EXCEPT ![s] = "idle"]
    /\ UNCHANGED <<pool, account>>

\* Mutant: only the first root is ever recorded.
RecordOnce(s) ==
  /\ sync[s] = "record"
  /\ merkle_roots' = IF merkle_roots # << >> THEN merkle_roots
                     ELSE << decode_state(account[s]) >>
  /\ sync' = [sync EXCEPT ![s] = "idle"]
  /\ UNCHANGED <<pool, account>>

\* _record_from_account: insert the root unless it is there; the index on root
\* is unique, and a root that is there keeps its indexed_at.
Record(s) ==
  LET root == decode_state(account[s]) IN
    /\ sync[s] = "record"
    /\ merkle_roots' = IF root \in Range(merkle_roots) THEN merkle_roots
                       ELSE Append(merkle_roots, root)
    /\ sync' = [sync EXCEPT ![s] = "idle"]
    /\ UNCHANGED <<pool, account>>

\* sync_now returns None, which is no error: the program id is not set, there is
\* no account yet, or its data cannot be decoded.  What was read is no root.
NoRoot(s) ==
  /\ sync[s] = "fetch"
  /\ account' = [account EXCEPT ![s] = 0]
  /\ sync' = [sync EXCEPT ![s] = "idle"]
  /\ UNCHANGED <<pool, merkle_roots>>

\* An RPC error or a database error: the caller logs it and goes on.
SyncFails(s) ==
  /\ sync[s] # "idle"
  /\ sync' = [sync EXCEPT ![s] = "idle"]
  /\ UNCHANGED <<pool, account, merkle_roots>>

Next ==
  \/ Deposit
  \/ \E s \in Syncers : SyncNow(s) \/ Fetch(s) \/ NoRoot(s) \/ Record(s) \/ SyncFails(s)

Spec == Init /\ [][Next]_vars

-----------------------------------------------------------------------------
(***************************************************************************)
(* Properties.                                                             *)
(***************************************************************************)

\* Every variable has its type.
TypeOK ==
  /\ commitment_count \in 0..MaxDeposits
  /\ layout \in {"documented", "program"}
  /\ sync \in [Syncers -> {"idle", "fetch", "record"}]
  /\ account \in [Syncers -> 0..MaxDeposits]
  /\ merkle_roots \in Seq(Root)

\* The cache lists what was decoded from states that the account has had, none
\* ahead of the chain, and each value once.
RootsRead ==
  /\ \A i \in DOMAIN merkle_roots :
       \E count \in 0..commitment_count : merkle_roots[i] = decode_state(count)
  /\ \A i, j \in DOMAIN merkle_roots : merkle_roots[i] = merkle_roots[j] => i = j

\* merkle_indexer.py: "Best-effort cache of recent BagsVault Merkle-tree roots,
\* populated by reading the program's on-chain state account."  All it lists are
\* roots of the pool.
RootsReal == \A i \in DOMAIN merkle_roots : merkle_roots[i] \in 0..commitment_count

\* get_recent_roots: "Return the ``limit`` most recent roots, newest first."
NewestFirst ==
  \A i, j \in DOMAIN merkle_roots : i < j => merkle_roots[i] < merkle_roots[j]

\* When the pool goes quiet, get_current_root comes to be what its account says
\* then, and stays so.
CurrentRoot == merkle_roots # << >> /\ Last(merkle_roots) = decode_state(commitment_count)
EventuallyCurrent == <>[]CurrentRoot
=============================================================================
