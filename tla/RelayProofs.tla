---------------------------- MODULE RelayProofs ----------------------------
(***************************************************************************)
(* Proofs about Relay: its answers and its rows are true for any number of *)
(* requests, nullifiers, attempts and blocks, with or without simulation.  *)
(***************************************************************************)
EXTENDS Relay, FiniteSetTheorems, FunctionTheorems, TLAPS

\* The invariant holds when the backend starts with an empty collection.
LEMMA InitInv == Init => Inv
<1> SUFFICES ASSUME Init PROVE Inv
  OBVIOUS
<1> USE DEF Init
<1>1. TypeOK
  BY RetryAssumption, ChainAssumption DEF TypeOK, Row
<1>2. RowsPaid /\ AnswersTrue /\ WaitsForOwn /\ PaidOnce
  BY DEF RowsPaid, AnswersTrue, WaitsForOwn, PaidOnce
<1>3. AttemptsLeft
  BY RetryAssumption DEF AttemptsLeft
<1> QED
  BY <1>1, <1>2, <1>3 DEF Inv

\* A step that leaves requests, rows and the chain alone, and moves one request
\* to a state that promises nothing new, keeps the invariant.
LEMMA MoveInv ==
  ASSUME Inv, NEW r \in Requests, NEW state \in {"lost"} \cup Running \cup Answers,
         GoTo(r, state), UNCHANGED <<request, rows, chain>>,
         state = "submitted" => signature[r] \in paid /\ signature[r] = Payload(r),
         state = "conflict" => nullifier32(nullifier_hash[r]) \in Spent,
         state \in {"confirm", "persist"} => signature[r] = Payload(r),
         state = "persist" => signature[r] \in paid,
         state \notin {"confirm", "persist", "lost"} \cup Answers => attempt[r] < MaxAttempts
  PROVE  Inv'
<1> USE DEF Inv, GoTo, request, chain
<1>1. TypeOK'
  BY DEF TypeOK
<1>2. RowsPaid'
  BY DEF RowsPaid
<1>3. \A q \in Requests : pc'[q] = IF q = r THEN state ELSE pc[q]
  BY DEF TypeOK
<1>4. AnswersTrue'
  BY <1>3 DEF AnswersTrue, Payload, Spent
<1>5. WaitsForOwn'
  BY <1>3 DEF WaitsForOwn, Payload
<1>6. AttemptsLeft' /\ PaidOnce'
  BY <1>3 DEF AttemptsLeft, PaidOnce
<1> QED
  BY <1>1, <1>2, <1>4, <1>5, <1>6

\* What the coroutine of one request does keeps the invariant.
LEMMA StepInv ==
  ASSUME Inv, NEW r \in Requests, Step(r)
  PROVE  Inv'
<1> USE DEF Running, Answers
<1>0. TypeOK /\ pc[r] \in Running \cup Answers \cup {"idle", "lost"}
  BY DEF Inv, TypeOK
<1>1. CASE FindRow(r)
  <2>1. pc[r] = "find_row" /\ UNCHANGED <<request, rows, chain>> /\ attempt[r] < MaxAttempts
    BY <1>1 DEF FindRow, Inv, AttemptsLeft
  <2>2. CASE GoTo(r, "conflict") /\ \E row \in rows : row.nullifier_hash = nullifier_hash[r]
    <3>1. nullifier32(nullifier_hash[r]) \in Spent
      BY <2>2 DEF Inv, RowsPaid, Spent
    <3> QED
      BY <2>1, <2>2, <3>1, MoveInv, Zenon
  <2>3. CASE GoTo(r, "pick_relayer")
    BY <2>1, <2>3, MoveInv
  <2>4. CASE GoTo(r, "error")
    BY <2>1, <2>4, MoveInv
  <2> QED
    BY <1>1, <2>2, <2>3, <2>4 DEF FindRow
<1>2. CASE PickRelayer(r)
  <2>1. attempt[r] < MaxAttempts /\ UNCHANGED <<request, rows, chain>>
    BY <1>2 DEF PickRelayer, Inv, AttemptsLeft
  <2>2. PICK next \in {"get_blockhash", "error"} : GoTo(r, next)
    BY <1>2 DEF PickRelayer
  <2> QED
    BY <2>1, <2>2, MoveInv
<1>3. CASE GetBlockhash(r)
  <2> USE <1>3 DEF GetBlockhash, GoTo, chain, Inv
  <2>1. TypeOK'
    BY DEF TypeOK
  <2>2. RowsPaid' /\ PaidOnce'
    BY DEF RowsPaid, PaidOnce
  <2>3. \A q \in Requests \ {r} : pc'[q] = pc[q] /\ blockhash'[q] = blockhash[q]
    BY DEF TypeOK
  <2>4. pc'[r] \in {"simulate", "broadcast", "error"}
    BY DEF TypeOK
  <2>5. AnswersTrue' /\ WaitsForOwn'
    BY <2>3, <2>4 DEF AnswersTrue, WaitsForOwn, Payload, Spent
  <2>6. AttemptsLeft'
    BY <2>3, <2>4 DEF AttemptsLeft
  <2> QED
    BY <2>1, <2>2, <2>5, <2>6
<1>4. CASE Simulate(r)
  <2>1. attempt[r] < MaxAttempts /\ UNCHANGED <<request, rows, chain>>
    BY <1>4 DEF Simulate, Inv, AttemptsLeft
  <2>2. GoTo(r, "broadcast") \/ GoTo(r, "error")
    BY <1>4 DEF Simulate
  <2> QED
    BY <2>1, <2>2, MoveInv
<1>5. CASE Broadcast(r)
  <2> USE <1>5 DEF Broadcast, GoTo, Inv
  <2>1. pc[r] = "broadcast" /\ attempt[r] \in 0..MaxAttempts /\ attempt[r] < MaxAttempts
    BY DEF AttemptsLeft, TypeOK
  <2>2. Payload(r) \in Signature
    BY DEF Payload, Signature, TypeOK, NullifierHash, nullifier32
  <2>3. attempt' \in [Requests -> 0..MaxAttempts]
    BY <2>1, RetryAssumption DEF TypeOK
  <2>4. /\ mempool' \subseteq Signature
        /\ signature' \in [Requests -> Signature \cup {NoSignature}]
        /\ pc' \in [Requests -> {"idle", "lost"} \cup Running \cup Answers]
    BY <2>2 DEF Accepted, Retryable, Fatal, MayHaveArrived, TypeOK
  <2>5. TypeOK'
    BY <2>3, <2>4 DEF TypeOK
  <2>6. RowsPaid' /\ PaidOnce'
    BY DEF RowsPaid, PaidOnce
  <2>7. \A q \in Requests \ {r} :
          /\ pc'[q] = pc[q]
          /\ signature'[q] = signature[q]
          /\ attempt'[q] = attempt[q]
    BY DEF Accepted, Retryable, Fatal, MayHaveArrived, TypeOK
  <2>8. /\ pc'[r] \in {"confirm", "refresh", "error"}
        /\ pc'[r] = "confirm" => signature'[r] = Payload(r)
        /\ pc'[r] = "refresh" => attempt'[r] < MaxAttempts
    BY DEF Accepted, Retryable, Fatal, TypeOK
  <2>9. AnswersTrue' /\ WaitsForOwn'
    BY <2>7, <2>8 DEF AnswersTrue, WaitsForOwn, Payload, Spent
  <2>10. AttemptsLeft'
    BY <2>7, <2>8 DEF AttemptsLeft
  <2> QED
    BY <2>5, <2>6, <2>9, <2>10
<1>6. CASE Refresh(r)
  <2> USE <1>6 DEF Refresh, GoTo, chain, Inv
  <2>1. TypeOK'
    BY DEF TypeOK
  <2>2. RowsPaid' /\ PaidOnce'
    BY DEF RowsPaid, PaidOnce
  <2>3. \A q \in Requests \ {r} : pc'[q] = pc[q] /\ blockhash'[q] = blockhash[q]
    BY DEF TypeOK
  <2>4. pc'[r] = "broadcast"
    BY DEF TypeOK
  <2>5. AnswersTrue' /\ WaitsForOwn'
    BY <2>3, <2>4 DEF AnswersTrue, WaitsForOwn, Payload, Spent
  <2>6. AttemptsLeft'
    BY <2>3, <2>4 DEF AttemptsLeft
  <2> QED
    BY <2>1, <2>2, <2>5, <2>6
<1>7. CASE Confirm(r)
  <2>1. signature[r] = Payload(r) /\ UNCHANGED <<request, rows, chain>>
    BY <1>7 DEF Confirm, Inv, WaitsForOwn
  <2>2. CASE signature[r] \in paid /\ GoTo(r, "persist")
    BY <2>1, <2>2, MoveInv
  <2>3. CASE GoTo(r, "error")
    BY <2>1, <2>3, MoveInv
  <2> QED
    BY <1>7, <2>2, <2>3 DEF Confirm
<1>8. CASE Persist(r)
  <2> USE DEF Inv
  <2> DEFINE new == [nullifier_hash |-> nullifier_hash[r], tx_signature |-> signature[r],
                     writer |-> r]
  <2>1. signature[r] = Payload(r) /\ signature[r] \in paid /\ GoTo(r, "submitted")
        /\ UNCHANGED <<request, chain>>
    BY <1>8 DEF Persist, WaitsForOwn
  <2>2. /\ new \in Row
        /\ new.tx_signature \in paid
        /\ new.tx_signature.nullifier = nullifier32(new.nullifier_hash)
    BY <2>1 DEF Row, TypeOK, Payload
  <2>3. \/ UNCHANGED rows
        \/ /\ rows' = rows \cup {new}
           /\ \A row \in rows : row.nullifier_hash # new.nullifier_hash
    BY <1>8 DEF Persist
  <2>4. RowsPaid' /\ PaidOnce'
    <3>1. UNCHANGED paid
      BY <2>1 DEF chain
    <3>2. \A row \in rows : nullifier32(row.nullifier_hash) = nullifier32(new.nullifier_hash)
            => row.tx_signature = new.tx_signature
      BY <2>2 DEF RowsPaid, PaidOnce
    <3> HIDE DEF new
    <3> QED
      BY <2>2, <2>3, <3>1, <3>2 DEF RowsPaid, PaidOnce
  <2>5. TypeOK'
    BY <2>1, <2>2, <2>3 DEF TypeOK, GoTo, request, chain
  <2>6. \A q \in Requests : pc'[q] = IF q = r THEN "submitted" ELSE pc[q]
    BY <2>1 DEF GoTo, TypeOK
  <2>7. AnswersTrue' /\ WaitsForOwn'
    BY <2>1, <2>6 DEF AnswersTrue, WaitsForOwn, Payload, Spent, request, chain
  <2>8. AttemptsLeft'
    BY <2>1, <2>6 DEF AttemptsLeft, request
  <2> QED
    BY <2>4, <2>5, <2>7, <2>8
<1> QED
  BY <1>1, <1>2, <1>3, <1>4, <1>5, <1>6, <1>7, <1>8 DEF Step

\* So does what the cluster does, of which requests see only that the set of
\* paid transactions grows.
LEMMA ChainInv ==
  ASSUME Inv, UNCHANGED <<pc, request, rows>>, paid \subseteq paid', TypeOK', PaidOnce'
  PROVE  Inv'
<1> USE DEF Inv, request
<1>1. RowsPaid'
  BY DEF RowsPaid
<1>2. Spent \subseteq Spent'
  BY DEF Spent
<1>3. AnswersTrue' /\ WaitsForOwn'
  BY <1>2 DEF AnswersTrue, WaitsForOwn, Payload
<1>4. AttemptsLeft'
  BY DEF AttemptsLeft
<1> QED
  BY <1>1, <1>3, <1>4

\* Every step keeps the invariant.
LEMMA NextInv == Inv /\ [Next]_vars => Inv'
<1> SUFFICES ASSUME Inv, [Next]_vars PROVE Inv'
  OBVIOUS
<1>1. ASSUME NEW r \in Requests, Receive(r) PROVE Inv'
  BY <1>1, MoveInv DEF Receive, Inv, AttemptsLeft, Running, Answers
<1>2. ASSUME NEW r \in Requests, Step(r) PROVE Inv'
  BY <1>2, StepInv
<1>3. CASE Crash
  <2> USE <1>3 DEF Crash, Inv, request, chain
  <2>1. TypeOK' /\ RowsPaid' /\ PaidOnce'
    BY DEF TypeOK, RowsPaid, PaidOnce
  <2>2. \A q \in Requests : pc'[q] \in {pc[q], "lost"}
    OBVIOUS
  <2>3. AnswersTrue' /\ WaitsForOwn'
    BY <2>2 DEF AnswersTrue, WaitsForOwn, Payload, Spent
  <2>4. AttemptsLeft'
    BY <2>2 DEF AttemptsLeft
  <2> QED
    BY <2>1, <2>3, <2>4
<1>4. ASSUME NEW s \in mempool, Land(s) PROVE Inv'
  <2>1. TypeOK'
    BY <1>4 DEF Land, Inv, TypeOK, request
  <2>2. paid \subseteq paid' /\ UNCHANGED <<pc, request, rows>>
    BY <1>4 DEF Land
  <2>3. PaidOnce'
    BY <1>4 DEF Land, Inv, PaidOnce, Spent
  <2> QED
    BY <2>1, <2>2, <2>3, ChainInv
<1>5. ASSUME NEW s \in mempool, Drop(s) PROVE Inv'
  BY <1>5, ChainInv DEF Drop, Inv, TypeOK, PaidOnce, request
<1>6. CASE NewBlock
  <2>1. TypeOK'
    BY <1>6, ChainAssumption DEF NewBlock, Inv, TypeOK, request
  <2> QED
    BY <1>6, <2>1, ChainInv DEF NewBlock, Inv, PaidOnce
<1>7. CASE UNCHANGED vars
  BY <1>7, ChainInv DEF vars, chain, request, Inv, TypeOK, PaidOnce
<1> QED
  BY <1>1, <1>2, <1>3, <1>4, <1>5, <1>6, <1>7 DEF Next

\* Inv is an invariant of the relay.
THEOREM Invariance == Spec => []Inv
<1> QED
  BY InitInv, NextInv, PTL DEF Spec

\* The withdrawals collection lists only withdrawals that happened: each row the
\* transaction that paid, no string twice, and the rows of one nullifier, which
\* differ in how it was written, with the same transaction.
THEOREM RowsPaidHolds == Spec => []RowsPaid
<1>1. Inv => RowsPaid
  BY DEF Inv
<1> QED
  BY <1>1, Invariance, PTL

\* A caller that gets "submitted" was paid by the transaction it is given; a
\* caller that gets 409 holds a nullifier that is spent.
THEOREM AnswersTrueHolds == Spec => []AnswersTrue
<1>1. Inv => AnswersTrue
  BY DEF Inv
<1> QED
  BY <1>1, Invariance, PTL

-----------------------------------------------------------------------------
(***************************************************************************)
(* What the relayer pays.                                                  *)
(***************************************************************************)

\* The transactions the cluster has seen and not dropped, the broadcasts that
\* have been made, and the requests that made them.
Sent == mempool \cup Landed
Broadcasts == {b \in Requests \X (1..MaxAttempts) : b[2] <= attempt[b[1]]}
Senders == {r \in Requests : attempt[r] > 0}

\* Every transaction has a broadcast of its own, by a request for its nullifier.
OwnBroadcast(f, sent, nullifiers) ==
  /\ \A s \in sent : nullifier32(nullifiers[f[s][1]]) = s.nullifier
  /\ \A s, t \in sent : f[s] = f[t] => s = t

FeesInv ==
  /\ IsFiniteSet(Senders)
  /\ \E f \in [Sent -> Broadcasts] : OwnBroadcast(f, Sent, nullifier_hash)

\* A step in which nobody broadcasts and no transaction appears.
LEMMA QuietFees ==
  ASSUME FeesInv, UNCHANGED <<nullifier_hash, attempt>>, Sent' \subseteq Sent
  PROVE  FeesInv'
<1>1. IsFiniteSet(Senders)'
  BY DEF FeesInv, Senders
<1>2. PICK f \in [Sent -> Broadcasts] : OwnBroadcast(f, Sent, nullifier_hash)
  BY DEF FeesInv
<1> DEFINE g == [s \in Sent' |-> f[s]]
<1>3. g \in [Sent' -> Broadcasts']
  BY <1>2 DEF Broadcasts
<1>4. OwnBroadcast(g, Sent', nullifier_hash')
  <2>1. \A s \in Sent' : g[s] = f[s] /\ s \in Sent
    OBVIOUS
  <2> HIDE DEF g
  <2> QED
    BY <1>2, <2>1 DEF OwnBroadcast
<1> HIDE DEF g
<1> QED
  BY <1>1, <1>3, <1>4 DEF FeesInv

\* A broadcast is one more, and what it sends is at most one transaction more.
LEMMA BroadcastFees ==
  ASSUME Inv, FeesInv, NEW r \in Requests, Broadcast(r)
  PROVE  FeesInv'
<1> DEFINE b == <<r, attempt[r] + 1>>
<1>1. attempt \in [Requests -> 0..MaxAttempts] /\ attempt[r] + 1 \in 1..MaxAttempts
  BY RetryAssumption DEF Broadcast, Inv, TypeOK, AttemptsLeft, Running, Answers
<1>2. /\ attempt' = [attempt EXCEPT ![r] = attempt[r] + 1]
      /\ UNCHANGED <<nullifier_hash, paid, failed>>
      /\ mempool' \in {mempool, mempool \cup {Payload(r)}}
  BY DEF Broadcast, Accepted, Retryable, Fatal, MayHaveArrived
<1>3. Senders' = Senders \cup {r}
  BY <1>1, <1>2 DEF Senders
<1>4. IsFiniteSet(Senders)'
  BY <1>3, FS_AddElement DEF FeesInv
<1>5. b \in Broadcasts' /\ b \notin Broadcasts /\ Broadcasts \subseteq Broadcasts'
  BY <1>1, <1>2, RetryAssumption DEF Broadcasts
<1>6. PICK f \in [Sent -> Broadcasts] : OwnBroadcast(f, Sent, nullifier_hash)
  BY DEF FeesInv
<1> DEFINE g == [s \in Sent' |-> IF s \in Sent THEN f[s] ELSE b]
<1>7. \A s \in Sent' : s \in Sent \/ s = Payload(r)
  BY <1>2 DEF Sent, Landed
<1>8. g \in [Sent' -> Broadcasts']
  BY <1>5, <1>6
<1>9. OwnBroadcast(g, Sent', nullifier_hash')
  <2>1. b[1] = r /\ nullifier32(nullifier_hash[r]) = Payload(r).nullifier
    BY DEF Payload
  <2>2. \A s \in Sent' : g[s] = IF s \in Sent THEN f[s] ELSE b
    OBVIOUS
  <2>3. \A s \in Sent : f[s] # b
    BY <1>5, <1>6
  <2> HIDE DEF g, b
  <2>4. \A s \in Sent' : nullifier32(nullifier_hash'[g[s][1]]) = s.nullifier
    BY <1>2, <1>6, <1>7, <2>1, <2>2 DEF OwnBroadcast
  <2>5. \A s, t \in Sent' : g[s] = g[t] => s = t
    BY <1>6, <1>7, <2>2, <2>3 DEF OwnBroadcast
  <2> QED
    BY <2>4, <2>5 DEF OwnBroadcast
<1> HIDE DEF g
<1> QED
  BY <1>2, <1>4, <1>8, <1>9 DEF FeesInv

\* However often requests retry with one payload or sign another, the relayer
\* pays for at most MaxAttempts transactions of each, and at most one
\* transaction per nullifier earns its cut.
THEOREM FeesBoundedHolds == Spec => []FeesBounded
<1>1. Init => FeesInv
  <2> SUFFICES ASSUME Init PROVE FeesInv
    OBVIOUS
  <2>1. Senders = {} /\ Sent = {}
    BY DEF Init, Senders, Sent, Landed
  <2>2. [s \in Sent |-> s] \in [Sent -> Broadcasts] /\ OwnBroadcast([s \in Sent |-> s], Sent, nullifier_hash)
    BY <2>1 DEF OwnBroadcast
  <2> QED
    BY <2>1, <2>2, FS_EmptySet DEF FeesInv, Init
<1>2. Inv /\ FeesInv /\ [Next]_vars => FeesInv'
  <2> SUFFICES ASSUME Inv, FeesInv, [Next]_vars PROVE FeesInv'
    OBVIOUS
  <2>1. ASSUME UNCHANGED <<nullifier_hash, attempt>>, Sent' \subseteq Sent PROVE FeesInv'
    BY <2>1, QuietFees
  <2>2. ASSUME NEW r \in Requests, Receive(r) \/ Step(r) PROVE FeesInv'
    <3>1. CASE Broadcast(r)
      BY <3>1, BroadcastFees
    <3>2. CASE ~Broadcast(r)
      BY <2>1, <2>2, <3>2
         DEF Receive, Step, FindRow, PickRelayer, GetBlockhash, Simulate, Refresh, Confirm,
             Persist, Sent, Landed, request, chain
    <3> QED
      BY <3>1, <3>2
  <2>3. ASSUME NEW s \in mempool, Land(s) \/ Drop(s) PROVE FeesInv'
    BY <2>1, <2>3 DEF Land, Drop, Sent, Landed, request
  <2>4. CASE Crash \/ NewBlock \/ UNCHANGED vars
    BY <2>1, <2>4 DEF Crash, NewBlock, vars, Sent, Landed, request, chain
  <2> QED
    BY <2>2, <2>3, <2>4 DEF Next
<1>3. Inv /\ FeesInv => FeesBounded
  <2> SUFFICES ASSUME Inv, FeesInv, NEW n \in Nullifiers
               PROVE  LET senders == {r \in Requests : nullifier32(nullifier_hash[r]) = n /\ attempt[r] > 0} IN
                        /\ Cardinality({s \in Landed : s.nullifier = n})
                             <= MaxAttempts * Cardinality(senders)
                        /\ Cardinality({s \in paid : s.nullifier = n}) <= 1
    BY DEF FeesBounded
  <2> DEFINE senders == {r \in Requests : nullifier32(nullifier_hash[r]) = n /\ attempt[r] > 0}
             landed == {s \in Landed : s.nullifier = n}
             earning == {s \in paid : s.nullifier = n}
             places == senders \X (1..MaxAttempts)
  <2>1. IsFiniteSet(places) /\ Cardinality(places) = MaxAttempts * Cardinality(senders)
    <3>1. IsFiniteSet(senders) /\ Cardinality(senders) \in Nat
      <4>1. senders \subseteq Senders
        BY DEF Senders
      <4> HIDE DEF senders
      <4> QED
        BY <4>1, FS_Subset, FS_CardinalityType DEF FeesInv
    <3>2. IsFiniteSet(1..MaxAttempts) /\ Cardinality(1..MaxAttempts) = MaxAttempts
      BY FS_Interval, RetryAssumption
    <3> HIDE DEF senders
    <3>3. IsFiniteSet(places) /\ Cardinality(places) = Cardinality(senders) * MaxAttempts
      BY <3>1, <3>2, FS_Product
    <3> QED
      BY <3>1, <3>3, RetryAssumption
  <2>2. PICK f \in [Sent -> Broadcasts] : OwnBroadcast(f, Sent, nullifier_hash)
    BY DEF FeesInv
  <2>3. \A s \in landed : s \in Sent /\ f[s] \in places
    <3> TAKE s \in landed
    <3>1. s \in Sent /\ s.nullifier = n
      BY DEF Sent
    <3>2. f[s] \in Broadcasts /\ nullifier32(nullifier_hash[f[s][1]]) = n
      BY <2>2, <3>1 DEF OwnBroadcast
    <3>3. f[s] \in Requests \X (1..MaxAttempts) /\ f[s][2] <= attempt[f[s][1]]
      BY <3>2 DEF Broadcasts
    <3>4. attempt[f[s][1]] \in Nat
      BY <3>3, RetryAssumption DEF Inv, TypeOK
    <3> QED
      BY <3>1, <3>2, <3>3, <3>4, RetryAssumption
  <2>4. Cardinality(landed) <= Cardinality(places)
    <3> DEFINE g == [s \in landed |-> f[s]]
    <3> HIDE DEF landed, places
    <3>1. g \in [landed -> places] /\ \A s, t \in landed : g[s] = g[t] => s = t
      BY <2>2, <2>3 DEF OwnBroadcast
    <3> HIDE DEF g
    <3>2. g \in Injection(landed, places)
      BY <3>1, Fun_IsInj
    <3>3. IsFiniteSet(places)
      BY <2>1
    <3> QED
      BY <3>2, <3>3, FS_Injection
  <2>5. Cardinality(earning) <= 1
    <3>1. CASE earning = {}
      BY <3>1, FS_EmptySet
    <3>2. CASE earning # {}
      <4>1. PICK s : earning = {s}
        BY <3>2 DEF Inv, PaidOnce
      <4> HIDE DEF earning
      <4> QED
        BY <4>1, FS_Singleton
    <3> QED
      BY <3>1, <3>2
  <2> QED
    BY <2>1, <2>4, <2>5
<1> QED
  BY <1>1, <1>2, <1>3, Invariance, PTL DEF Spec
=============================================================================
