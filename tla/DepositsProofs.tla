--------------------------- MODULE DepositsProofs ---------------------------
(***************************************************************************)
(* Proofs about DepositRegistry, for any number of calls that name any     *)
(* commitments and transactions, and about Deposits: the registry and the  *)
(* cache of roots keep each their own promises when calls and the polling  *)
(* task run together, and a call whose sync succeeds finds its own deposit *)
(* in the cache.                                                           *)
(***************************************************************************)
EXTENDS Deposits, FiniteSetTheorems, TLAPS

-----------------------------------------------------------------------------
(***************************************************************************)
(* The registry on its own.                                                *)
(***************************************************************************)

\* What the steps of a call hand on to each other: a transaction that was found
\* on chain, and a count of rows that may be out of date but was never too high.
CallsSound ==
  \A c \in Calls :
    /\ pc[c] \in {"count", "insert"} => tx_signature[c] \in landed
    /\ pc[c] = "insert" => merkle_index[c] <= Cardinality(commitments)

RegistryInv ==
  /\ RegistryTypeOK
  /\ IsFiniteSet(commitments)
  /\ IndicesDense
  /\ RowsLanded
  /\ AnswersFromRows
  /\ CallsSound

-----------------------------------------------------------------------------

LEMMA InitInv == Init => RegistryInv
<1> SUFFICES ASSUME Init PROVE RegistryInv
  OBVIOUS
<1>1. IsFiniteSet(commitments) /\ Cardinality(commitments) = 0
  BY FS_EmptySet DEF Init
<1>2. RegistryTypeOK
  BY DEF Init, RegistryTypeOK
<1>3. IndicesDense /\ RowsLanded
  <2>1. 0..Cardinality(commitments) - 1 = {}
    BY <1>1
  <2>2. {row.merkle_index : row \in commitments} = {}
    BY DEF Init
  <2> QED
    BY <2>1, <2>2 DEF Init, IndicesDense, RowsLanded
<1>4. AnswersFromRows /\ CallsSound
  BY DEF Init, AnswersFromRows, CallsSound
<1> QED
  BY <1>1, <1>2, <1>3, <1>4 DEF RegistryInv

LEMMA LandInv ==
  ASSUME RegistryInv, NEW tx \in TxSignatures, Land(tx)
  PROVE  RegistryInv'
<1>1. /\ landed' = landed \cup {tx}
      /\ UNCHANGED <<pc, commitment, tx_signature, merkle_index, commitments>>
  BY DEF Land, arguments
<1>2. RegistryTypeOK'
  BY <1>1 DEF RegistryInv, RegistryTypeOK
<1>3. (IsFiniteSet(commitments) /\ IndicesDense /\ AnswersFromRows)'
  BY <1>1 DEF RegistryInv, IndicesDense, AnswersFromRows, Recorded
<1>4. RowsLanded' /\ CallsSound'
  BY <1>1 DEF RegistryInv, RowsLanded, CallsSound
<1> QED
  BY <1>2, <1>3, <1>4 DEF RegistryInv

\* A step of one call that writes no row: the others do not notice, and what is
\* left to show is about the call itself.
LEMMA QuietInv ==
  ASSUME RegistryInv, NEW c \in Calls,
         NEW state \in {"idle"} \cup Running \cup Answers, GoTo(c, state),
         UNCHANGED <<landed, arguments, commitments>>,
         merkle_index' \in [Calls -> Nat],
         \A d \in Calls \ {c} : merkle_index'[d] = merkle_index[d],
         state \in {"count", "insert"} => tx_signature[c] \in landed,
         state = "insert" => merkle_index'[c] <= Cardinality(commitments),
         state \in {"sync", "registered", "cached"} =>
           [commitment |-> commitment[c], tx_signature |-> tx_signature[c],
            merkle_index |-> merkle_index'[c]] \in commitments,
         state = "conflict" => \E row \in Recorded(c) : row.tx_signature # tx_signature[c]
  PROVE  RegistryInv'
<1>1. UNCHANGED <<landed, commitment, tx_signature, commitments>>
  BY DEF arguments
<1>2. pc \in [Calls -> {"idle"} \cup Running \cup Answers]
  BY DEF RegistryInv, RegistryTypeOK
<1>3. pc'[c] = state /\ \A d \in Calls \ {c} : pc'[d] = pc[d]
  BY <1>2 DEF GoTo
<1>4. RegistryTypeOK'
  BY <1>1, <1>2 DEF RegistryInv, RegistryTypeOK, GoTo
<1>5. (IsFiniteSet(commitments) /\ IndicesDense /\ RowsLanded)'
  BY <1>1 DEF RegistryInv, IndicesDense, RowsLanded
<1>6. AnswersFromRows'
  BY <1>1, <1>3 DEF RegistryInv, AnswersFromRows, Recorded
<1>7. CallsSound'
  BY <1>1, <1>3 DEF RegistryInv, CallsSound
<1> QED
  BY <1>4, <1>5, <1>6, <1>7 DEF RegistryInv

\* Answering from a row gives the row's own index, or names another transaction.
LEMMA AnswerFromInv ==
  ASSUME RegistryInv, NEW c \in Calls, NEW row \in Recorded(c), AnswerFrom(c, row),
         UNCHANGED <<landed, arguments, commitments>>
  PROVE  RegistryInv'
<1>1. merkle_index \in [Calls -> Nat] /\ row \in Row /\ row.commitment = commitment[c]
      /\ row \in commitments
  BY DEF RegistryInv, RegistryTypeOK, Recorded
<1>2. CASE row.tx_signature = tx_signature[c]
  <2>1. GoTo(c, "cached") /\ merkle_index' = [merkle_index EXCEPT ![c] = row.merkle_index]
    BY <1>2 DEF AnswerFrom
  <2>2. row = [commitment |-> commitment[c], tx_signature |-> tx_signature[c],
               merkle_index |-> merkle_index'[c]]
    BY <1>1, <1>2, <2>1 DEF Row
  <2>3. /\ merkle_index' \in [Calls -> Nat]
        /\ \A d \in Calls \ {c} : merkle_index'[d] = merkle_index[d]
    BY <1>1, <2>1 DEF Row
  <2>4. "cached" \in {"idle"} \cup Running \cup Answers
    BY DEF Answers
  <2> QED
    BY <1>1, <2>1, <2>2, <2>3, <2>4, QuietInv
<1>3. CASE row.tx_signature # tx_signature[c]
  <2>1. GoTo(c, "conflict") /\ UNCHANGED merkle_index
    BY <1>3 DEF AnswerFrom
  <2>2. "conflict" \in {"idle"} \cup Running \cup Answers
    BY DEF Answers
  <2> QED
    BY <1>1, <1>3, <2>1, <2>2, QuietInv
<1> QED
  BY <1>2, <1>3

\* The row that is inserted gets the next index, however old the count is that
\* its index came from: an index below it is taken, and one above it was never
\* counted.
LEMMA InsertInv ==
  ASSUME RegistryInv, NEW c \in Calls, Insert(c)
  PROVE  RegistryInv'
<1> DEFINE row == [commitment |-> commitment[c], tx_signature |-> tx_signature[c],
                   merkle_index |-> merkle_index[c]]
           n == Cardinality(commitments)
<1>1. /\ commitment \in [Calls -> Commitments] /\ tx_signature \in [Calls -> TxSignatures]
      /\ merkle_index \in [Calls -> Nat] /\ commitments \subseteq Row
      /\ pc \in [Calls -> {"idle"} \cup Running \cup Answers]
  BY DEF RegistryInv, RegistryTypeOK
<1>2. /\ pc[c] = "insert"
      /\ UNCHANGED <<landed, commitment, tx_signature, merkle_index>>
  BY DEF Insert, arguments
<1>3. row \in Row /\ tx_signature[c] \in landed /\ merkle_index[c] <= n
  BY <1>1, <1>2 DEF Row, RegistryInv, CallsSound
<1>4. IsFiniteSet(commitments) /\ n \in Nat
  BY FS_CardinalityType DEF RegistryInv
<1>5. CASE Unique(row)
  <2>1. commitments' = commitments \cup {row} /\ GoTo(c, "sync")
    BY <1>5 DEF Insert
  <2>2. pc'[c] = "sync" /\ \A d \in Calls \ {c} : pc'[d] = pc[d]
    BY <1>1, <2>1 DEF GoTo
  <2>3. merkle_index[c] = n
    <3>1. merkle_index[c] \notin 0..n - 1
      BY <1>5 DEF Unique, RegistryInv, IndicesDense
    <3> QED
      BY <1>1, <1>3, <1>4, <3>1
  <2>4. row \notin commitments
    BY <1>5 DEF Unique
  <2>5. IsFiniteSet(commitments') /\ Cardinality(commitments') = n + 1
    BY <1>4, <2>1, <2>4, FS_AddElement
  <2>6. RegistryTypeOK'
    <3>1. "sync" \in {"idle"} \cup Running \cup Answers
      BY DEF Running
    <3> QED
      BY <1>1, <1>2, <1>3, <2>1, <3>1 DEF RegistryInv, RegistryTypeOK, GoTo
  <2>7. IndicesDense'
    <3>1. {r.merkle_index : r \in commitments} = 0..n - 1
      BY DEF RegistryInv, IndicesDense
    <3>2. {r.merkle_index : r \in commitments'} = {r.merkle_index : r \in commitments} \cup {n}
      <4>1. row.merkle_index = n
        BY <2>3
      <4> HIDE DEF row
      <4> QED
        BY <2>1, <4>1
    <3>3. (0..n - 1) \cup {n} = 0..(n + 1) - 1
      BY <1>4
    <3>4. \A r, other \in commitments' : r.commitment = other.commitment => r = other
      BY <1>5, <2>1 DEF Unique, RegistryInv, IndicesDense
    <3> QED
      BY <2>5, <3>1, <3>2, <3>3, <3>4 DEF IndicesDense
  <2>8. RowsLanded'
    BY <1>2, <1>3, <2>1 DEF RegistryInv, RowsLanded
  <2>9. AnswersFromRows'
    BY <1>2, <2>1, <2>2 DEF RegistryInv, AnswersFromRows, Recorded
  <2>10. CallsSound'
    <3>1. \A d \in Calls : merkle_index[d] <= n => merkle_index[d] <= n + 1
      BY <1>1, <1>4
    <3> QED
      BY <1>2, <2>2, <2>5, <3>1 DEF RegistryInv, CallsSound
  <2> QED
    BY <2>5, <2>6, <2>7, <2>8, <2>9, <2>10 DEF RegistryInv
<1>6. CASE ~Unique(row)
  <2>1. GoTo(c, "find_again") /\ UNCHANGED <<landed, arguments, merkle_index, commitments>>
    BY <1>6 DEF Insert
  <2>2. "find_again" \in {"idle"} \cup Running \cup Answers
    BY DEF Running
  <2> QED
    BY <1>1, <2>1, <2>2, QuietInv
<1> QED
  BY <1>5, <1>6

-----------------------------------------------------------------------------

\* One step per await of register.
LEMMA StepInv ==
  ASSUME RegistryInv, NEW c \in Calls, Step(c) \/ SyncReturns(c)
  PROVE  RegistryInv'
<1>1. /\ merkle_index \in [Calls -> Nat]
      /\ Cardinality(commitments) \in Nat
  BY FS_CardinalityType DEF RegistryInv, RegistryTypeOK
<1>2. Running \cup Answers = {"find", "get_transaction", "count", "insert", "find_again",
        "sync", "registered", "cached", "conflict", "error", "duplicate_key"}
  BY DEF Running, Answers
<1>3. CASE Receive(c)
  BY <1>1, <1>2, <1>3, QuietInv DEF Receive
<1>4. CASE Find(c)
  <2>1. CASE \E row \in Recorded(c) : AnswerFrom(c, row)
    BY <1>4, <2>1, AnswerFromInv DEF Find
  <2>2. CASE Recorded(c) = {} /\ GoTo(c, "get_transaction") /\ UNCHANGED merkle_index
    BY <1>1, <1>2, <1>4, <2>2, QuietInv DEF Find
  <2> QED
    BY <1>4, <2>1, <2>2 DEF Find
<1>5. CASE GetTransaction(c)
  BY <1>1, <1>2, <1>5, QuietInv DEF GetTransaction
<1>6. CASE Count(c)
  <2>1. /\ merkle_index' = [merkle_index EXCEPT ![c] = Cardinality(commitments)]
        /\ GoTo(c, "insert")
        /\ UNCHANGED <<landed, arguments, commitments>>
        /\ tx_signature[c] \in landed
    BY <1>6 DEF Count, RegistryInv, CallsSound
  <2>2. /\ merkle_index' \in [Calls -> Nat]
        /\ merkle_index'[c] <= Cardinality(commitments)
        /\ \A d \in Calls \ {c} : merkle_index'[d] = merkle_index[d]
    BY <1>1, <2>1
  <2> QED
    BY <1>2, <2>1, <2>2, QuietInv
<1>7. CASE Insert(c)
  BY <1>7, InsertInv
<1>8. CASE FindAgain(c)
  <2>1. CASE \E row \in Recorded(c) : AnswerFrom(c, row)
    BY <1>8, <2>1, AnswerFromInv DEF FindAgain
  <2>2. CASE Recorded(c) = {} /\ GoTo(c, "duplicate_key") /\ UNCHANGED merkle_index
    BY <1>1, <1>2, <1>8, <2>2, QuietInv DEF FindAgain
  <2> QED
    BY <1>8, <2>1, <2>2 DEF FindAgain
<1>9. CASE SyncReturns(c)
  <2>1. [commitment |-> commitment[c], tx_signature |-> tx_signature[c],
         merkle_index |-> merkle_index[c]] \in commitments
    BY <1>9 DEF SyncReturns, RegistryInv, AnswersFromRows
  <2> QED
    BY <1>1, <1>2, <1>9, <2>1, QuietInv DEF SyncReturns
<1>10. CASE Raise(c)
  BY <1>1, <1>2, <1>10, QuietInv DEF Raise
<1> QED
  BY <1>3, <1>4, <1>5, <1>6, <1>7, <1>8, <1>9, <1>10 DEF Step

\* The inductive invariant of the registry holds in every state.
THEOREM Invariance == Spec => []RegistryInv
<1>1. RegistryInv /\ [Next]_vars => RegistryInv'
  <2> SUFFICES ASSUME RegistryInv, [Next]_vars PROVE RegistryInv'
    OBVIOUS
  <2>1. CASE UNCHANGED vars
    BY <2>1 DEF RegistryInv, RegistryTypeOK, IndicesDense, RowsLanded, AnswersFromRows,
                CallsSound, Recorded, vars, arguments
  <2> QED
    BY <2>1, LandInv, StepInv DEF Next
<1> QED
  BY InitInv, <1>1, PTL DEF Spec

\* Rows are numbered densely, one per commitment, however many calls race
\* between the count and the insert of each other.
THEOREM IndicesDenseHolds == Spec => []IndicesDense
<1>1. RegistryInv => IndicesDense
  BY DEF RegistryInv
<1> QED
  BY <1>1, Invariance, PTL

\* Every row is about a deposit that landed.
THEOREM RowsLandedHolds == Spec => []RowsLanded
<1>1. RegistryInv => RowsLanded
  BY DEF RegistryInv
<1> QED
  BY <1>1, Invariance, PTL

\* A call that succeeds returns the row of its own deposit, and a conflict is one.
THEOREM AnswersFromRowsHolds == Spec => []AnswersFromRows
<1>1. RegistryInv => AnswersFromRows
  BY DEF RegistryInv
<1> QED
  BY <1>1, Invariance, PTL

-----------------------------------------------------------------------------
(***************************************************************************)
(* Calls and the polling task together.                                    *)
(***************************************************************************)

Syncing == Calls \cup {Worker}

Cached == INSTANCE IndexerProofs WITH Syncers <- Calls \cup {Worker}

-----------------------------------------------------------------------------

\* Each step of the composition is a step of the registry, or none.
LEMMA StepOfRegistry ==
  ASSUME [DepositsNext]_depositsVars
  PROVE  [Next]_vars
<1>1. ASSUME NEW c \in Calls, SyncOf(c) PROVE [Next]_vars
  BY <1>1 DEF SyncOf, Next
<1>2. CASE Poll
  BY <1>2 DEF Poll
<1> QED
  BY <1>1, <1>2 DEF DepositsNext, Next, LandDeposit, LandOther, depositsVars

\* Each step of the composition is a step of the indexer, or none.
LEMMA StepOfIndexer ==
  ASSUME [DepositsNext]_depositsVars
  PROVE  [I!Next]_I!vars
<1>1. ASSUME NEW c \in Calls, SyncOf(c) PROVE I!Next
  BY <1>1 DEF SyncOf, I!Next
<1>2. CASE Poll
  BY <1>2 DEF Poll, I!Next
<1> QED
  BY <1>1, <1>2 DEF DepositsNext, I!Next, I!vars, I!pool, LandDeposit, LandOther, depositsVars, cache

\* Whatever the cache and the polling task do, the registry does what it does
\* on its own.
THEOREM ImplementsRegistry == DepositsSpec => RegistryHolds
<1>1. DepositsInit => Init
  BY DEF DepositsInit
<1> QED
  BY <1>1, StepOfRegistry, PTL DEF DepositsSpec, RegistryHolds, Spec

\* Whatever the calls do, the cache is filled as the indexer fills it.
THEOREM ImplementsIndexer == DepositsSpec => I!Spec
<1>1. DepositsInit => I!Init
  BY DEF DepositsInit
<1> QED
  BY <1>1, StepOfIndexer, PTL DEF DepositsSpec, I!Spec

\* The same, of the copy of the indexer that its proofs are about.
LEMMA CachedSpec == DepositsSpec => Cached!Spec
<1>1. I!Init => Cached!Init
  BY DEF I!Init, Cached!Init
<1>2. [I!Next]_I!vars => [Cached!Next]_Cached!vars
  BY DEF I!Next, I!vars, I!pool, I!Deposit, I!SyncNow, I!Fetch, I!NoRoot, I!Record, I!SyncFails,
         I!decode_state, I!Range,
         Cached!Next, Cached!vars, Cached!pool, Cached!Deposit, Cached!SyncNow, Cached!Fetch,
         Cached!NoRoot, Cached!Record, Cached!SyncFails, Cached!decode_state, Cached!Range
<1> QED
  BY <1>1, <1>2, ImplementsIndexer, PTL DEF I!Spec, Cached!Spec

\* Calls and the polling task together put only what they decoded from states of
\* the account in the cache, each value once.
THEOREM RootsReadHolds == DepositsSpec => []RootsRead
<1>1. Cached!Spec => []Cached!RootsRead
  BY Cached!RootsReadHolds, DepositsAssumption DEF Cached!LayoutAssumption
<1>2. Cached!RootsRead => RootsRead
  BY DEF Cached!RootsRead, I!RootsRead, RootsRead, Cached!decode_state, I!decode_state
<1> QED
  BY <1>1, <1>2, CachedSpec, PTL

-----------------------------------------------------------------------------
(***************************************************************************)
(* A call finds its own deposit in the cache.                              *)
(***************************************************************************)

\* The account counts the deposits that landed.
DepositsCounted ==
  /\ deposits \in Seq(landed)
  /\ commitment_count = Len(deposits)
  /\ synced \subseteq Calls

\* A call syncs after its transaction was found on chain: if that is a deposit of
\* the pool, the account that the call reads counts it.
SyncsOwn ==
  /\ \A c \in Calls : sync[c] = "record" =>
       /\ tx_signature[c] \in landed
       /\ \A j \in DOMAIN deposits : tx_signature[c] = deposits[j] => j <= account[c]
  /\ \A c \in synced : tx_signature[c] \in landed

\* What the registry and the indexer keep on their own.
PartsInv == RegistryInv /\ Cached!IndexerInv

Own == DepositsCounted /\ SyncsOwn /\ RegisteredIsIndexed

\* The types that the steps below need.
LEMMA PartsTypes ==
  ASSUME PartsInv
  PROVE  /\ commitment_count \in Nat
         /\ sync \in [Syncing -> {"idle", "fetch", "record"}]
         /\ account \in [Syncing -> Nat]
         /\ \A s \in Syncing : account[s] <= commitment_count
BY DepositsAssumption DEF PartsInv, Syncing, Cached!IndexerInv, Cached!TypeOK, Cached!AccountsPast

\* A value that is in the cache stays there, and a recorded one is in it.
LEMMA RecordKeeps ==
  ASSUME PartsInv, NEW s \in Syncing, I!Record(s)
  PROVE  /\ \A i \in DOMAIN merkle_roots :
              i \in DOMAIN merkle_roots' /\ merkle_roots'[i] = merkle_roots[i]
         /\ \E i \in DOMAIN merkle_roots' : merkle_roots'[i] = I!decode_state(account[s])
<1> DEFINE root == Cached!decode_state(account[s])
<1>1. Cached!TypeOK /\ s \in Calls \cup {Worker}
  BY DEF PartsInv, Cached!IndexerInv, Syncing
<1>2. Cached!Record(s)
  BY DEF I!Record, Cached!Record, I!pool, Cached!pool, I!decode_state, Cached!decode_state,
         I!Range, Cached!Range
<1>3. root = I!decode_state(account[s])
  BY DEF I!decode_state, Cached!decode_state
<1>4. Cached!LayoutAssumption
  BY DepositsAssumption DEF Cached!LayoutAssumption
<1>5. \/ UNCHANGED merkle_roots /\ root \in Cached!Range(merkle_roots)
      \/ /\ DOMAIN merkle_roots' = 1..Len(merkle_roots) + 1
         /\ merkle_roots'[Len(merkle_roots) + 1] = root
         /\ \A i \in DOMAIN merkle_roots : merkle_roots'[i] = merkle_roots[i]
  BY <1>1, <1>2, <1>4, Cached!RecordEffect
<1>6. DOMAIN merkle_roots = 1..Len(merkle_roots) /\ Len(merkle_roots) \in Nat
  BY <1>1 DEF Cached!TypeOK
<1> HIDE DEF root
<1> QED
  BY <1>3, <1>5, <1>6 DEF Cached!Range

\* A step that neither adds a deposit nor forgets a root, and after which each
\* call is about to record only what it was before.
LEMMA QuietSync ==
  ASSUME Own,
         UNCHANGED <<landed, deposits, commitment_count, layout, tx_signature, synced>>,
         \A c \in Calls : sync'[c] = "record" => sync[c] = "record" /\ account'[c] = account[c],
         \A i \in DOMAIN merkle_roots :
           i \in DOMAIN merkle_roots' /\ merkle_roots'[i] = merkle_roots[i]
  PROVE  Own'
<1>1. DepositsCounted'
  BY DEF Own, DepositsCounted
<1>2. SyncsOwn'
  BY DEF Own, SyncsOwn
<1>3. RegisteredIsIndexed'
  BY DEF Own, RegisteredIsIndexed, I!decode_state
<1> QED
  BY <1>1, <1>2, <1>3 DEF Own

\* A deposit that lands is none that a call has found on chain before, and it
\* leaves the places of the earlier ones alone.
LEMMA LandSync ==
  ASSUME PartsInv, Own, NEW tx \in TxSignatures, LandDeposit(tx)
  PROVE  Own'
<1>1. /\ tx \notin landed /\ landed' = landed \cup {tx}
      /\ deposits' = Append(deposits, tx) /\ deposits \in Seq(landed)
      /\ commitment_count' = commitment_count + 1 /\ commitment_count = Len(deposits)
      /\ UNCHANGED <<layout, tx_signature, sync, account, merkle_roots, synced>>
  BY DEF LandDeposit, Land, I!Deposit, arguments, Own, DepositsCounted
<1>2. /\ Len(deposits) \in Nat /\ Len(deposits') = Len(deposits) + 1
      /\ DOMAIN deposits = 1..Len(deposits) /\ DOMAIN deposits' = 1..Len(deposits) + 1
      /\ \A j \in DOMAIN deposits : deposits'[j] = deposits[j]
      /\ deposits'[Len(deposits) + 1] = tx
  BY <1>1
<1>3. DepositsCounted'
  BY <1>1, <1>2 DEF Own, DepositsCounted
<1>4. \A c, j : j \in DOMAIN deposits' /\ tx_signature[c] = deposits'[j] /\ tx_signature[c] \in landed
        => j \in DOMAIN deposits /\ tx_signature[c] = deposits[j]
  BY <1>1, <1>2
<1>5. SyncsOwn'
  BY <1>1, <1>4 DEF Own, SyncsOwn
<1>6. RegisteredIsIndexed'
  <2>1. \A j \in DOMAIN deposits : \A count \in j..commitment_count :
          /\ count \in j..commitment_count'
          /\ I!decode_state(count)' = I!decode_state(count)
    BY <1>1, <1>2 DEF I!decode_state
  <2>2. \A c \in synced : tx_signature[c] \in landed
    BY DEF Own, SyncsOwn
  <2> QED
    BY <1>1, <1>4, <2>1, <2>2 DEF Own, RegisteredIsIndexed
<1> QED
  BY <1>3, <1>5, <1>6 DEF Own

\* The sync of a call: what it reads counts its own deposit, and what it
\* records is what it has read.
LEMMA SyncOfSync ==
  ASSUME PartsInv, Own, NEW c \in Calls, SyncOf(c)
  PROVE  Own'
<1>1. /\ pc[c] = "sync" /\ c \in Syncing
      /\ UNCHANGED <<landed, deposits, commitment_count, layout, tx_signature>>
  BY DEF SyncOf, SyncReturns, vars, arguments, Syncing, I!pool,
         I!SyncNow, I!Fetch, I!NoRoot, I!Record, I!SyncFails
<1>2. /\ sync \in [Syncing -> {"idle", "fetch", "record"}]
      /\ account \in [Syncing -> Nat]
      /\ \A d \in Calls : d \in Syncing
  BY PartsTypes DEF Syncing
<1>3. tx_signature[c] \in landed
  BY <1>1 DEF PartsInv, RegistryInv, AnswersFromRows, RowsLanded
<1>4. CASE (I!SyncNow(c) \/ I!NoRoot(c) \/ I!SyncFails(c)) /\ UNCHANGED synced
  <2>1. /\ UNCHANGED merkle_roots
        /\ \A d \in Calls : sync'[d] = "record" => sync[d] = "record" /\ account'[d] = account[d]
    BY <1>2, <1>4 DEF I!SyncNow, I!NoRoot, I!SyncFails
  <2> QED
    BY <1>1, <1>4, <2>1, QuietSync
<1>5. CASE I!Fetch(c) /\ UNCHANGED synced
  <2>1. /\ account'[c] = Len(deposits) /\ UNCHANGED merkle_roots
        /\ \A d \in Calls \ {c} : sync'[d] = sync[d] /\ account'[d] = account[d]
    BY <1>1, <1>2, <1>5 DEF I!Fetch, Own, DepositsCounted
  <2>2. \A j \in DOMAIN deposits : j <= Len(deposits)
    BY DEF Own, DepositsCounted
  <2>3. SyncsOwn'
    BY <1>1, <1>3, <1>5, <2>1, <2>2 DEF Own, SyncsOwn
  <2>4. DepositsCounted' /\ RegisteredIsIndexed'
    BY <1>1, <1>5, <2>1 DEF Own, DepositsCounted, RegisteredIsIndexed, I!decode_state
  <2> QED
    BY <2>3, <2>4 DEF Own
<1>6. CASE I!Record(c) /\ synced' = synced \cup {c}
  <2>1. /\ \A i \in DOMAIN merkle_roots :
              i \in DOMAIN merkle_roots' /\ merkle_roots'[i] = merkle_roots[i]
        /\ \E i \in DOMAIN merkle_roots' : merkle_roots'[i] = I!decode_state(account[c])
    BY <1>1, <1>6, RecordKeeps
  <2>2. /\ sync[c] = "record" /\ UNCHANGED account
        /\ \A d \in Calls : sync'[d] = "record" => sync[d] = "record"
    BY <1>1, <1>2, <1>6 DEF I!Record
  <2>3. SyncsOwn' /\ DepositsCounted'
    BY <1>1, <1>3, <1>6, <2>2 DEF Own, SyncsOwn, DepositsCounted
  <2>4. \A j \in DOMAIN deposits :
          tx_signature[c] = deposits[j] => account[c] \in j..commitment_count
    <3>1. DOMAIN deposits \subseteq Nat
      BY DEF Own, DepositsCounted
    <3> QED
      BY <1>1, <1>2, <2>2, <3>1, PartsTypes DEF Own, SyncsOwn
  <2>5. RegisteredIsIndexed'
    BY <1>1, <1>6, <2>1, <2>4 DEF Own, RegisteredIsIndexed, I!decode_state
  <2> QED
    BY <2>3, <2>5 DEF Own
<1> QED
  BY <1>4, <1>5, <1>6 DEF SyncOf

\* A poll syncs on behalf of no call.
LEMMA PollSync ==
  ASSUME PartsInv, Own, Poll
  PROVE  Own'
<1>1. UNCHANGED <<landed, deposits, tx_signature, synced>> /\ Worker \in Syncing
  BY DEF Poll, vars, arguments, Syncing
<1>2. /\ sync \in [Syncing -> {"idle", "fetch", "record"}]
      /\ account \in [Syncing -> Nat]
      /\ \A c \in Calls : c \in Syncing /\ c # Worker
  BY DepositsAssumption, PartsTypes DEF Syncing
<1>3. \A c \in Calls : sync'[c] = sync[c] /\ account'[c] = account[c]
  BY <1>2 DEF Poll, I!SyncNow, I!Fetch, I!NoRoot, I!Record, I!SyncFails
<1>4. \A i \in DOMAIN merkle_roots :
        i \in DOMAIN merkle_roots' /\ merkle_roots'[i] = merkle_roots[i]
  BY <1>1, RecordKeeps DEF Poll, I!SyncNow, I!Fetch, I!NoRoot, I!SyncFails
<1>5. UNCHANGED <<commitment_count, layout>>
  BY DEF Poll, I!pool, I!SyncNow, I!Fetch, I!NoRoot, I!Record, I!SyncFails
<1> QED
  BY <1>1, <1>3, <1>4, <1>5, QuietSync

\* Every step of the composition.
LEMMA OwnStep ==
  ASSUME PartsInv, Own, [DepositsNext]_depositsVars
  PROVE  Own'
<1>1. ASSUME NEW tx \in TxSignatures, LandOther(tx) PROVE Own'
  <2>1. /\ landed \subseteq landed'
        /\ UNCHANGED <<deposits, commitment_count, layout, sync, account, merkle_roots,
                       tx_signature, synced>>
    BY <1>1 DEF LandOther, Land, arguments, cache
  <2>2. DepositsCounted'
    BY <2>1 DEF Own, DepositsCounted
  <2>3. SyncsOwn' /\ RegisteredIsIndexed'
    BY <2>1 DEF Own, SyncsOwn, RegisteredIsIndexed, I!decode_state
  <2> QED
    BY <2>2, <2>3 DEF Own
<1>2. ASSUME NEW c \in Calls, Step(c), UNCHANGED <<deposits, cache, synced>> PROVE Own'
  <2>1. UNCHANGED <<landed, tx_signature>>
    BY <1>2 DEF Step, Receive, Find, GetTransaction, Count, Insert, FindAgain, Raise, arguments
  <2> QED
    BY <1>2, <2>1, QuietSync DEF cache
<1>3. CASE UNCHANGED depositsVars
  BY <1>3, QuietSync DEF depositsVars, vars, arguments, cache
<1> QED
  BY <1>1, <1>2, <1>3, LandSync, SyncOfSync, PollSync DEF DepositsNext

\* The registry's invariant, the indexer's, and what ties them together.
LEMMA OwnHolds == DepositsSpec => [](PartsInv /\ Own)
<1>1. Spec => []RegistryInv
  BY Invariance
<1>2. DepositsSpec => Spec
  BY ImplementsRegistry DEF RegistryHolds
<1>3. Cached!Spec => []Cached!IndexerInv
  BY Cached!Invariance, DepositsAssumption DEF Cached!LayoutAssumption
<1>4. PartsInv <=> RegistryInv /\ Cached!IndexerInv
  BY DEF PartsInv
<1>5. DepositsInit => Own
  BY DEF DepositsInit, Init, I!Init, Own, DepositsCounted, SyncsOwn, RegisteredIsIndexed
<1>6. PartsInv /\ Own /\ [DepositsNext]_depositsVars => Own'
  BY OwnStep
<1>7. DepositsSpec => []PartsInv
  BY <1>1, <1>2, <1>3, <1>4, CachedSpec, PTL
<1> QED
  BY <1>5, <1>6, <1>7, PTL DEF DepositsSpec

\* Whatever calls and polls overlap with it, a call that names a deposit of the
\* indexed pool, and whose sync succeeds, leaves in the cache what the account
\* said with that deposit counted, and it stays there.
THEOREM RegisteredIsIndexedHolds == DepositsSpec => []RegisteredIsIndexed
<1>1. Own => RegisteredIsIndexed
  BY DEF Own
<1> QED
  BY <1>1, OwnHolds, PTL

-----------------------------------------------------------------------------

\* However calls, polls and transactions interleave, every variable of the
\* registry and of the cache has its type, and the account counts the deposits.
THEOREM DepositsTypeCorrect == DepositsSpec => []TypeOK
<1>1. PartsInv /\ Own => TypeOK
  BY DEF PartsInv, RegistryInv, Own, DepositsCounted, TypeOK, Cached!IndexerInv,
         Cached!TypeOK, I!TypeOK, Cached!Root, I!Root
<1> QED
  BY <1>1, OwnHolds, PTL
=============================================================================
