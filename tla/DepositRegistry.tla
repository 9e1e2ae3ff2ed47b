-------------------------- MODULE DepositRegistry --------------------------
(***************************************************************************)
(* DepositService.register (services/deposit_service.py): the deposits a   *)
(* client reports to the backend, and the commitments collection that the  *)
(* anonymity-set views read.  An action is what a call does between two    *)
(* awaits, so that calls interleave at every database or RPC round trip.   *)
(***************************************************************************)
EXTENDS Naturals, FiniteSets

CONSTANTS
  Calls,         \* POST /deposits calls, resubmissions included
  Commitments,   \* the commitments they name
  TxSignatures   \* the signatures they name

VARIABLES
  landed,        \* the transactions that landed without an error
  pc,            \* where a call stands: the await it is at, or its answer
  commitment,    \* register's arguments
  tx_signature,
  merkle_index,  \* the index a call has allocated, then the one it returns
  commitments    \* db.commitments

arguments == <<commitment, tx_signature>>
vars == <<landed, pc, arguments, merkle_index, commitments>>

Row == [commitment : Commitments, tx_signature : TxSignatures, merkle_index : Nat]

Running == {"find", "get_transaction", "count", "insert", "find_again", "sync"}
Answers == {"registered", "cached", "conflict", "error", "duplicate_key"}

Init ==
  /\ landed = {}
  /\ pc = [c \in Calls |-> "idle"]
  /\ commitment \in [Calls -> Commitments]
  /\ tx_signature \in [Calls -> TxSignatures]
  /\ merkle_index = [c \in Calls |-> 0]
  /\ commitments = {}

\* A transaction lands: any one, not only a deposit.
Land(tx) ==
  /\ tx \notin landed
  /\ landed' = landed \cup {tx}
  /\ UNCHANGED <<pc, arguments, merkle_index, commitments>>

GoTo(c, state) == pc' = [pc EXCEPT ![c] = state]

Receive(c) ==
  /\ pc[c] = "idle"
  /\ GoTo(c, "find")
  /\ UNCHANGED <<landed, arguments, merkle_index, commitments>>

Recorded(c) == {row \in commitments : row.commitment = commitment[c]}

\* Answer with a row of the call's commitment: the same deposit, or another.
AnswerFrom(c, row) ==
  IF row.tx_signature = tx_signature[c]
  THEN GoTo(c, "cached") /\ merkle_index' = [merkle_index EXCEPT ![c] = row.merkle_index]
  ELSE GoTo(c, "conflict") /\ UNCHANGED merkle_index

\* 1. Idempotency check.
Find(c) ==
  /\ pc[c] = "find"
  /\ \/ \E row \in Recorded(c) : AnswerFrom(c, row)
     \/ Recorded(c) = {} /\ GoTo(c, "get_transaction") /\ UNCHANGED merkle_index
  /\ UNCHANGED <<landed, arguments, commitments>>

\* Mutant: a transaction that the node does not know will do.
GetAnyTransaction(c) ==
  /\ pc[c] = "get_transaction"
  /\ GoTo(c, "count")
  /\ UNCHANGED <<landed, arguments, merkle_index, commitments>>

\* 2. On-chain confirmation: only a transaction that landed gets through, but
\* nothing looks at what it did.
GetTransaction(c) ==
  /\ pc[c] = "get_transaction"
  /\ tx_signature[c] \in landed
  /\ GoTo(c, "count")
  /\ UNCHANGED <<landed, arguments, merkle_index, commitments>>

\* 3. Allocate the index.
Count(c) ==
  /\ pc[c] = "count"
  /\ merkle_index' = [merkle_index EXCEPT ![c] = Cardinality(commitments)]
  /\ GoTo(c, "insert")
  /\ UNCHANGED <<landed, arguments, commitments>>

\* Mutant: merkle_index has no unique index.
CommitmentUnique(row) == \A other \in commitments : other.commitment # row.commitment

\* The unique indexes of db.commitments.
Unique(row) ==
  \A other \in commitments :
    other.commitment # row.commitment /\ other.merkle_index # row.merkle_index

Insert(c) ==
  LET row == [commitment |-> commitment[c], tx_signature |-> tx_signature[c],
              merkle_index |-> merkle_index[c]] IN
    /\ pc[c] = "insert"
    /\ IF Unique(row)
       THEN commitments' = commitments \cup {row} /\ GoTo(c, "sync")
       ELSE UNCHANGED commitments /\ GoTo(c, "find_again")
    /\ UNCHANGED <<landed, arguments, merkle_index>>

\* Mutant: whatever row is there is taken for the caller's.
FindAgainUnchecked(c) ==
  /\ pc[c] = "find_again"
  /\ IF Recorded(c) = {} THEN GoTo(c, "duplicate_key") ELSE GoTo(c, "cached")
  /\ UNCHANGED <<landed, arguments, merkle_index, commitments>>

\* The race: somebody inserted between the check and the insert.
FindAgain(c) ==
  /\ pc[c] = "find_again"
  /\ \/ \E row \in Recorded(c) : AnswerFrom(c, row)
     \/ Recorded(c) = {} /\ GoTo(c, "duplicate_key") /\ UNCHANGED merkle_index
  /\ UNCHANGED <<landed, arguments, commitments>>

\* 4. Kick the indexer: whether it fails or not, the call then returns.
SyncReturns(c) ==
  /\ pc[c] = "sync"
  /\ GoTo(c, "registered")
  /\ UNCHANGED <<landed, arguments, merkle_index, commitments>>

\* Any of the awaits before that may raise, a refused transaction included.
Raise(c) ==
  /\ pc[c] \in Running \ {"sync"}
  /\ GoTo(c, "error")
  /\ UNCHANGED <<landed, arguments, merkle_index, commitments>>

Step(c) ==
  \/ Receive(c) \/ Find(c) \/ GetTransaction(c) \/ Count(c) \/ Insert(c)
  \/ FindAgain(c) \/ Raise(c)

Next ==
  \/ \E tx \in TxSignatures : Land(tx)
  \/ \E c \in Calls : Step(c) \/ SyncReturns(c)

Spec == Init /\ [][Next]_vars

-----------------------------------------------------------------------------
(***************************************************************************)
(* Properties.                                                             *)
(***************************************************************************)

\* Every variable has its type.
RegistryTypeOK ==
  /\ landed \subseteq TxSignatures
  /\ pc \in [Calls -> {"idle"} \cup Running \cup Answers]
  /\ commitment \in [Calls -> Commitments]
  /\ tx_signature \in [Calls -> TxSignatures]
  /\ merkle_index \in [Calls -> Nat]
  /\ commitments \subseteq Row

\* However calls race, the rows are numbered 0, 1, 2, ... without a gap or a
\* repetition, and no commitment has two.
IndicesDense ==
  /\ {row.merkle_index : row \in commitments} = 0..Cardinality(commitments) - 1
  /\ \A row, other \in commitments : row.commitment = other.commitment => row = other

\* A row names a transaction that landed.
RowsLanded == \A row \in commitments : row.tx_signature \in landed

\* A call that succeeds returns the row of its own deposit, with its index; one
\* that gets a conflict named another transaction than the row of its commitment.
AnswersFromRows ==
  \A c \in Calls :
    /\ pc[c] \in {"sync", "registered", "cached"} =>
         [commitment |-> commitment[c], tx_signature |-> tx_signature[c],
          merkle_index |-> merkle_index[c]] \in commitments
    /\ pc[c] = "conflict" =>
         \E row \in Recorded(c) : row.tx_signature # tx_signature[c]

\* deposit_service.py, on the race of two inserts: "Re-fetch and either return
\* the cached row (matching sig) or raise ConflictError (mismatched sig)."
RaceAnswered == \A c \in Calls : pc[c] # "duplicate_key"
=============================================================================
