---------------------------- MODULE IndexerProofs ----------------------------
(***************************************************************************)
(* Proofs about MerkleIndexer, for any number of tasks that sync the cache *)
(* and any number of deposits, whichever layout the account has: what a    *)
(* root in the cache is depends on it, and the statements are of what was  *)
(* decoded.                                                                *)
(***************************************************************************)
EXTENDS MerkleIndexer, TLAPS

\* The account as a caller has read it may be out of date, but it was the
\* pool's at some time.
AccountsPast == \A s \in Syncers : account[s] <= commitment_count

IndexerInv == TypeOK /\ AccountsPast /\ RootsRead

\* Where one task syncs, no cached root is newer than the account it is about
\* to record.
CacheBehind ==
  layout = "documented" =>
    \A s \in Syncers : sync[s] = "record" =>
      \A i \in DOMAIN merkle_roots : merkle_roots[i] <= account[s]

-----------------------------------------------------------------------------

\* What is decoded is a root or what the decoder misreads.
LEMMA Decoded ==
  ASSUME TypeOK, NEW count \in 0..MaxDeposits
  PROVE  decode_state(count) \in Root
BY DEF TypeOK, Root, decode_state

\* Recording a root appends it or leaves the cache alone.
LEMMA RecordEffect ==
  ASSUME TypeOK, NEW s \in Syncers, Record(s)
  PROVE  LET root == decode_state(account[s]) IN
           \/ UNCHANGED merkle_roots /\ root \in Range(merkle_roots)
           \/ /\ root \notin Range(merkle_roots)
              /\ merkle_roots' = Append(merkle_roots, root)
              /\ DOMAIN merkle_roots' = 1..Len(merkle_roots) + 1
              /\ merkle_roots'[Len(merkle_roots) + 1] = root
              /\ \A i \in DOMAIN merkle_roots :
                   merkle_roots'[i] = merkle_roots[i] /\ merkle_roots[i] # root
<1> DEFINE root == decode_state(account[s])
<1>1. merkle_roots \in Seq(Root) /\ root \in Root
  BY Decoded DEF TypeOK
<1> HIDE DEF root
<1>2. merkle_roots' = IF root \in Range(merkle_roots) THEN merkle_roots
                      ELSE Append(merkle_roots, root)
  BY DEF Record, root
<1>3. CASE root \in Range(merkle_roots)
  BY <1>2, <1>3 DEF root
<1>4. CASE root \notin Range(merkle_roots)
  <2>1. merkle_roots' = Append(merkle_roots, root)
    BY <1>2, <1>4
  <2>2. \A i \in DOMAIN merkle_roots : merkle_roots[i] # root
    BY <1>4 DEF Range
  <2>3. /\ DOMAIN merkle_roots' = 1..Len(merkle_roots) + 1
        /\ merkle_roots'[Len(merkle_roots) + 1] = root
        /\ \A i \in DOMAIN merkle_roots : merkle_roots'[i] = merkle_roots[i]
    BY <1>1, <2>1
  <2> QED
    BY <1>4, <2>1, <2>2, <2>3 DEF root
<1> QED
  BY <1>3, <1>4

\* Every variable keeps its type, whatever layout the account has.
THEOREM TypeCorrect == Spec => []TypeOK
<1> USE LayoutAssumption
<1>1. Init => TypeOK
  BY DEF Init, TypeOK
<1>2. ASSUME TypeOK, [Next]_vars PROVE TypeOK'
  <2>1. CASE Deposit
    BY <1>2, <2>1 DEF TypeOK, Deposit
  <2>2. ASSUME NEW s \in Syncers, SyncNow(s) \/ Fetch(s) \/ NoRoot(s) \/ SyncFails(s)
        PROVE  TypeOK'
    BY <1>2, <2>2 DEF TypeOK, pool, SyncNow, Fetch, NoRoot, SyncFails
  <2>3. ASSUME NEW s \in Syncers, Record(s)
        PROVE  TypeOK'
    <3>1. decode_state(account[s]) \in Root
      BY <1>2, Decoded DEF TypeOK
    <3> QED
      BY <1>2, <2>3, <3>1 DEF TypeOK, pool, Record
  <2>4. CASE UNCHANGED vars
    BY <1>2, <2>4 DEF TypeOK, vars, pool
  <2> QED
    BY <1>2, <2>1, <2>2, <2>3, <2>4 DEF Next
<1> QED
  BY <1>1, <1>2, PTL DEF Spec

\* What is read is a state the account had, and so is what is written, for any
\* callers.
LEMMA RootsReadStep ==
  ASSUME IndexerInv, Next
  PROVE  AccountsPast' /\ RootsRead'
<1> USE LayoutAssumption
<1>1. /\ commitment_count \in 0..MaxDeposits
      /\ account \in [Syncers -> 0..MaxDeposits]
  BY DEF IndexerInv, TypeOK
<1>2. UNCHANGED layout
  BY DEF Next, pool, Deposit, SyncNow, Fetch, NoRoot, Record, SyncFails
<1>3. \A count : decode_state(count)' = decode_state(count)
  BY <1>2 DEF decode_state
<1>4. ASSUME UNCHANGED merkle_roots, commitment_count <= commitment_count',
             commitment_count' \in Nat
      PROVE  RootsRead'
  BY <1>1, <1>3, <1>4 DEF IndexerInv, RootsRead
<1>5. CASE Deposit
  BY <1>1, <1>4, <1>5 DEF IndexerInv, Deposit, AccountsPast
<1>6. ASSUME NEW s \in Syncers, SyncNow(s) \/ Fetch(s) \/ NoRoot(s) \/ SyncFails(s)
      PROVE  AccountsPast' /\ RootsRead'
  <2>1. AccountsPast'
    BY <1>1, <1>6 DEF IndexerInv, pool, SyncNow, Fetch, NoRoot, SyncFails, AccountsPast
  <2> QED
    BY <1>1, <1>4, <1>6, <2>1 DEF pool, SyncNow, Fetch, NoRoot, SyncFails
<1>7. ASSUME NEW s \in Syncers, Record(s)
      PROVE  AccountsPast' /\ RootsRead'
  <2>1. UNCHANGED <<commitment_count, account>>
    BY <1>7 DEF Record, pool
  <2>2. account[s] \in 0..commitment_count /\ merkle_roots \in Seq(Root)
    BY <1>1 DEF IndexerInv, AccountsPast, TypeOK
  <2>3. RootsRead'
    <3>1. CASE UNCHANGED merkle_roots
      BY <1>1, <1>4, <2>1, <3>1
    <3>2. CASE /\ DOMAIN merkle_roots' = 1..Len(merkle_roots) + 1
               /\ merkle_roots'[Len(merkle_roots) + 1] = decode_state(account[s])
               /\ \A i \in DOMAIN merkle_roots :
                    /\ merkle_roots'[i] = merkle_roots[i]
                    /\ merkle_roots[i] # decode_state(account[s])
      <4>1. \A i \in DOMAIN merkle_roots' :
              \E count \in 0..commitment_count : merkle_roots'[i] = decode_state(count)
        <5>1. TAKE i \in DOMAIN merkle_roots'
        <5>2. CASE i \in DOMAIN merkle_roots
          BY <3>2, <5>2 DEF IndexerInv, RootsRead
        <5>3. CASE i \notin DOMAIN merkle_roots
          <6>1. i = Len(merkle_roots) + 1
            BY <2>2, <3>2, <5>3
          <6> QED
            BY <2>2, <3>2, <6>1
        <5> QED
          BY <5>2, <5>3
      <4>2. \A i, j \in DOMAIN merkle_roots' : merkle_roots'[i] = merkle_roots'[j] => i = j
        BY <2>2, <3>2 DEF IndexerInv, RootsRead
      <4> QED
        BY <1>3, <2>1, <4>1, <4>2 DEF RootsRead
    <3> QED
      BY <1>7, <3>1, <3>2, RecordEffect DEF IndexerInv
  <2> QED
    BY <2>1, <2>3 DEF IndexerInv, AccountsPast
<1> QED
  BY <1>5, <1>6, <1>7 DEF Next

\* The inductive invariant of the cache holds in every state.
THEOREM Invariance == Spec => []IndexerInv
<1>1. Init => AccountsPast /\ RootsRead
  BY LayoutAssumption DEF Init, AccountsPast, RootsRead
<1>2. ASSUME IndexerInv, [Next]_vars PROVE AccountsPast' /\ RootsRead'
  <2>1. CASE UNCHANGED vars
    BY <1>2, <2>1 DEF IndexerInv, AccountsPast, RootsRead, decode_state, vars, pool
  <2> QED
    BY <1>2, <2>1, RootsReadStep
<1>3. IndexerInv <=> TypeOK /\ AccountsPast /\ RootsRead
  BY DEF IndexerInv
<1> QED
  BY <1>1, <1>2, <1>3, TypeCorrect, PTL DEF Spec

\* However many callers read and write in whatever order, the cache lists only
\* what was decoded from states the account has had, each value once.
THEOREM RootsReadHolds == Spec => []RootsRead
<1>1. IndexerInv => RootsRead
  BY DEF IndexerInv
<1> QED
  BY <1>1, Invariance, PTL

\* With the documented layout these are counts of the past; with the program's own they are
\* all the same bytes, so that the cache has one entry at most.
LEMMA CacheOf ==
  ASSUME IndexerInv
  PROVE  /\ merkle_roots \in Seq(Root) /\ Len(merkle_roots) \in Nat
         /\ layout = "documented" =>
              \A i \in DOMAIN merkle_roots : merkle_roots[i] \in 0..commitment_count
         /\ layout # "documented" => /\ Len(merkle_roots) <= 1
                                    /\ \A i \in DOMAIN merkle_roots :
                                         merkle_roots[i] = AuthorityBytes
<1>1. merkle_roots \in Seq(Root) /\ commitment_count \in Nat
  BY LayoutAssumption DEF IndexerInv, TypeOK
<1>2. ASSUME layout = "documented"
      PROVE  \A i \in DOMAIN merkle_roots : merkle_roots[i] \in 0..commitment_count
  BY <1>1, <1>2 DEF IndexerInv, RootsRead, decode_state
<1>3. ASSUME layout # "documented"
      PROVE  /\ Len(merkle_roots) <= 1
             /\ \A i \in DOMAIN merkle_roots : merkle_roots[i] = AuthorityBytes
  <2>1. \A i \in DOMAIN merkle_roots : merkle_roots[i] = AuthorityBytes
    BY <1>3 DEF IndexerInv, RootsRead, decode_state
  <2>2. \A i, j \in 1..Len(merkle_roots) : i = j
    BY <1>1, <2>1 DEF IndexerInv, RootsRead
  <2> QED
    BY <1>1, <2>1, <2>2
<1> QED
  BY <1>1, <1>2, <1>3

\* What one task records is no older than what it recorded before, and is the
\* last root then.
LEMMA RecordOrder ==
  ASSUME IndexerInv, CacheBehind, NewestFirst,
         NEW s \in Syncers, \A t \in Syncers : t = s, Record(s)
  PROVE  /\ CacheBehind' /\ NewestFirst'
         /\ merkle_roots' # << >> /\ Last(merkle_roots') = decode_state(account[s])
<1> DEFINE root == decode_state(account[s])
<1>1. /\ UNCHANGED <<layout, account>> /\ account[s] \in Nat /\ merkle_roots \in Seq(Root)
      /\ sync[s] = "record" /\ Len(merkle_roots) \in Nat
  BY LayoutAssumption DEF Record, pool, IndexerInv, TypeOK
<1>2. CacheBehind'
  BY <1>1 DEF CacheBehind, Record, IndexerInv, TypeOK
<1>3. CASE UNCHANGED merkle_roots /\ root \in Range(merkle_roots)
  <2>1. PICK i \in DOMAIN merkle_roots : merkle_roots[i] = root
    BY <1>3 DEF Range
  <2>2. i = Len(merkle_roots)
    <3>1. CASE layout = "documented"
      <4>1. SUFFICES ASSUME i < Len(merkle_roots) PROVE FALSE
        BY <1>1, <2>1
      <4>2. merkle_roots[i] < merkle_roots[Len(merkle_roots)]
        BY <1>1, <2>1, <4>1 DEF NewestFirst
      <4>3. merkle_roots[Len(merkle_roots)] <= account[s] /\ merkle_roots[i] = account[s]
        BY <1>1, <2>1, <3>1, <4>1 DEF CacheBehind, decode_state
      <4>4. merkle_roots[Len(merkle_roots)] \in Nat
        BY <1>1, <2>1, <3>1, <4>1, CacheOf
      <4> QED
        BY <1>1, <4>2, <4>3, <4>4
    <3>2. CASE layout # "documented"
      BY <1>1, <2>1, <3>2, CacheOf
    <3> QED
      BY <3>1, <3>2
  <2>3. NewestFirst'
    BY <1>3 DEF NewestFirst
  <2> QED
    BY <1>1, <1>2, <1>3, <2>1, <2>2, <2>3 DEF Last
<1>4. CASE /\ merkle_roots' = Append(merkle_roots, root)
           /\ DOMAIN merkle_roots' = 1..Len(merkle_roots) + 1
           /\ merkle_roots'[Len(merkle_roots) + 1] = root
           /\ \A i \in DOMAIN merkle_roots :
                merkle_roots'[i] = merkle_roots[i] /\ merkle_roots[i] # root
  <2>1. NewestFirst'
    <3>1. CASE layout = "documented"
      <4>1. \A i \in DOMAIN merkle_roots : merkle_roots[i] < root
        BY <1>1, <1>4, <3>1, CacheOf DEF CacheBehind, decode_state
      <4> HIDE DEF root
      <4> QED
        BY <1>1, <1>4, <4>1 DEF NewestFirst
    <3>2. CASE layout # "documented"
      <4>1. Len(merkle_roots) = 0
        <5>1. root = AuthorityBytes
          BY <3>2 DEF decode_state
        <5>2. SUFFICES ASSUME Len(merkle_roots) # 0 PROVE FALSE
          OBVIOUS
        <5>3. 1 \in DOMAIN merkle_roots
          BY <1>1, <5>2
        <5> QED
          BY <1>4, <3>2, <5>1, <5>3, CacheOf
      <4>2. \A i, j \in DOMAIN merkle_roots' : ~(i < j)
        BY <1>4, <4>1
      <4> QED
        BY <4>2 DEF NewestFirst
    <3> QED
      BY <3>1, <3>2
  <2>2. Len(merkle_roots') = Len(merkle_roots) + 1 /\ merkle_roots' # << >>
    BY <1>1, <1>4
  <2> QED
    BY <1>2, <1>4, <2>1, <2>2 DEF Last
<1> QED
  BY <1>3, <1>4, RecordEffect DEF IndexerInv

\* With one task the order of the writes is the order of the reads, so that
\* the roots are recorded in the order the pool had them: newest first, read
\* from the end.
THEOREM NewestFirstHolds ==
  ASSUME \A s, t \in Syncers : s = t
  PROVE  Spec => []NewestFirst
<1>1. Init => CacheBehind /\ NewestFirst
  BY DEF Init, CacheBehind, NewestFirst
<1>2. ASSUME IndexerInv, CacheBehind, NewestFirst, [Next]_vars
      PROVE  CacheBehind' /\ NewestFirst'
  <2>1. /\ commitment_count \in Nat
        /\ account \in [Syncers -> Nat]
        /\ sync \in [Syncers -> {"idle", "fetch", "record"}]
    BY <1>2, LayoutAssumption DEF IndexerInv, TypeOK
  <2>2. ASSUME NEW s \in Syncers, SyncNow(s) \/ Fetch(s) \/ NoRoot(s) \/ SyncFails(s)
        PROVE  CacheBehind' /\ NewestFirst'
    <3>1. /\ UNCHANGED <<layout, merkle_roots>> /\ \A t \in Syncers : t = s
          /\ sync'[s] = "record" => account'[s] = commitment_count
      BY <2>1, <2>2 DEF pool, SyncNow, Fetch, NoRoot, SyncFails
    <3>2. layout = "documented" =>
            \A i \in DOMAIN merkle_roots : merkle_roots[i] <= commitment_count
      BY <1>2, <2>1, CacheOf
    <3> QED
      BY <1>2, <3>1, <3>2 DEF CacheBehind, NewestFirst
  <2>3. ASSUME NEW s \in Syncers, Record(s)
        PROVE  CacheBehind' /\ NewestFirst'
    BY <1>2, <2>3, RecordOrder
  <2>4. CASE Deposit \/ UNCHANGED vars
    BY <1>2, <2>4 DEF Deposit, vars, pool, CacheBehind, NewestFirst
  <2> QED
    BY <1>2, <2>2, <2>3, <2>4 DEF Next
<1> QED
  BY <1>1, <1>2, Invariance, PTL DEF Spec
=============================================================================
