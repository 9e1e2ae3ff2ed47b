----------------------------- MODULE ApiProofs -----------------------------
(***************************************************************************)
(* Proofs about Api, for any number of requests, keys, wallets and mints,  *)
(* and commitments of any width.                                           *)
(***************************************************************************)
EXTENDS Api, Induction

Settled == {"store", "answered", "lost"}

\* A scan that is about to be written has a verdict; one that was written is
\* that of a handler that is done.
ScansDone ==
  /\ \A r \in Requests : pc[r] \in {"upsert", "insert"} => outcome[r] \in Verdicts
  /\ \A i \in DOMAIN risk_scans : pc[risk_scans[i]] \in Settled

\* A request that has arrived asks something; it waits for the store of a key it
\* has, and for the registry only to register.
CallsKnown ==
  \A r \in Requests :
    /\ pc[r] # "idle" => call[r] \in Calls
    /\ pc[r] \in {"lookup", "store"} => key(r) \in Keys
    /\ pc[r] \in {"insert_token", "link"} => route(r) = "register"

-----------------------------------------------------------------------------

\* What a response does to the request, whatever the result.
LEMMA Responding ==
  ASSUME ApiTypeOK, NEW r \in Requests, NEW result \in Outcomes,
         Respond(r, result) \/ (Raise(r) /\ result = "error")
  PROVE  /\ pc' \in [Requests -> {"idle", "answered", "lost"} \cup Running]
         /\ outcome' \in [Requests -> Outcomes]
         /\ answer' \in [Requests -> Requests \cup {NoResponse}]
         /\ pc'[r] \in {"store", "answered"} /\ outcome'[r] = result
         /\ answer'[r] \in {r, answer[r]}
         /\ \A q \in Requests \ {r} :
              pc'[q] = pc[q] /\ outcome'[q] = outcome[q] /\ answer'[q] = answer[q]
<1>1. /\ outcome' = [outcome EXCEPT ![r] = result]
      /\ \E state \in {"answered", "store"} : pc' = [pc EXCEPT ![r] = state]
      /\ answer' = answer \/ answer' = [answer EXCEPT ![r] = r]
  BY DEF Respond, Raise, GoTo
<1> QED
  BY <1>1 DEF ApiTypeOK, Running, InHandler

\* A step of a request that ends in a response, and leaves the scans alone.
LEMMA RespondingTypes ==
  ASSUME ApiTypeOK, ScansDone, NEW r \in Requests, NEW result \in Outcomes,
         Respond(r, result) \/ (Raise(r) /\ result = "error"),
         pc[r] \notin Settled,
         UNCHANGED <<call, before, stored, scans, life>>,
         tokens' \in [Mints -> Requests \cup {NoResponse}],
         creators' \in [Wallets -> SUBSET Mints]
  PROVE  ApiTypeOK' /\ ScansDone'
<1>1. /\ pc' \in [Requests -> {"idle", "answered", "lost"} \cup Running]
      /\ outcome' \in [Requests -> Outcomes]
      /\ answer' \in [Requests -> Requests \cup {NoResponse}]
      /\ pc'[r] \in {"store", "answered"}
      /\ \A q \in Requests \ {r} : pc'[q] = pc[q] /\ outcome'[q] = outcome[q]
  BY Responding
<1>2. \A i \in DOMAIN risk_scans : risk_scans[i] \in Requests \ {r}
  BY DEF ApiTypeOK, ScansDone
<1>3. UNCHANGED <<risk_scans, scanned>>
  BY DEF scans
<1>4. \A i \in DOMAIN risk_scans' : outcome'[risk_scans'[i]] \in Verdicts
  BY <1>1, <1>2, <1>3 DEF ApiTypeOK
<1>5. ScansDone'
  BY <1>1, <1>2, <1>3 DEF ScansDone, Settled
<1> QED
  BY <1>1, <1>3, <1>4, <1>5 DEF ApiTypeOK

\* A step of a request that goes on to the next await of its handler.
LEMMA GoingOnTypes ==
  ASSUME ApiTypeOK, ScansDone, NEW r \in Requests,
         NEW state \in {"handle", "lookup", "upstream", "insert", "insert_token", "link"},
         GoTo(r, state), pc[r] \notin Settled,
         state = "insert" => pc[r] = "upsert",
         UNCHANGED <<outcome, answer, stored, scans, life>>,
         call' \in [Requests -> Calls \cup {NoCall}],
         before' \in [Requests -> SUBSET Requests],
         tokens' \in [Mints -> Requests \cup {NoResponse}],
         creators' \in [Wallets -> SUBSET Mints]
  PROVE  ApiTypeOK' /\ ScansDone'
<1>1. /\ pc' \in [Requests -> {"idle", "answered", "lost"} \cup Running]
      /\ pc'[r] = state /\ \A q \in Requests \ {r} : pc'[q] = pc[q]
  BY DEF GoTo, ApiTypeOK, Running, InHandler
<1>2. \A i \in DOMAIN risk_scans : risk_scans[i] \in Requests \ {r}
  BY DEF ApiTypeOK, ScansDone
<1>3. UNCHANGED <<risk_scans, scanned>>
  BY DEF scans
<1>4. ScansDone'
  BY <1>1, <1>2, <1>3 DEF ScansDone, Settled
<1> QED
  BY <1>1, <1>3, <1>4 DEF ApiTypeOK

LEMMA VerdictOfRange ==
  ASSUME NEW raw \in RangeReplies
  PROVE  from_range_response(raw) \in Verdicts
BY DEF RangeReplies, from_range_response, _verdict_from_score, Verdicts

\* The step that writes a scan.
LEMMA ScanWritten ==
  ASSUME ApiTypeOK, ScansDone, NEW r \in Requests, pc[r] \in {"upsert", "insert"},
         Respond(r, outcome[r]), risk_scans' \in Seq(Requests),
         \A i \in DOMAIN risk_scans' : risk_scans'[i] = r \/
           (i \in DOMAIN risk_scans /\ risk_scans'[i] = risk_scans[i]),
         UNCHANGED <<call, before, stored, scanned, registry, life>>
  PROVE  ApiTypeOK' /\ ScansDone'
<1>1. outcome[r] \in Verdicts /\ outcome[r] \in Outcomes
  BY DEF ScansDone, ApiTypeOK
<1>2. /\ pc' \in [Requests -> {"idle", "answered", "lost"} \cup Running]
      /\ outcome' \in [Requests -> Outcomes]
      /\ answer' \in [Requests -> Requests \cup {NoResponse}]
      /\ pc'[r] \in {"store", "answered"} /\ outcome'[r] = outcome[r]
      /\ \A q \in Requests \ {r} : pc'[q] = pc[q] /\ outcome'[q] = outcome[q]
  BY <1>1, Responding
<1>3. \A i \in DOMAIN risk_scans :
        risk_scans[i] \in Requests /\ outcome[risk_scans[i]] \in Verdicts /\ pc[risk_scans[i]] \in Settled
  BY DEF ApiTypeOK, ScansDone
<1>4. \A i \in DOMAIN risk_scans' :
        outcome'[risk_scans'[i]] \in Verdicts /\ pc'[risk_scans'[i]] \in Settled
  BY <1>1, <1>2, <1>3 DEF Settled
<1>5. ScansDone'
  BY <1>1, <1>2, <1>4 DEF ScansDone
<1>6. UNCHANGED <<tokens, creators>>
  BY DEF registry
<1> QED
  BY <1>2, <1>4, <1>5, <1>6 DEF ApiTypeOK

\* The first await of a request, its lookup and its checks.
LEMMA ArrivalTypes ==
  ASSUME ApiTypeOK, ScansDone, CallsKnown, NEW r \in Requests,
         Receive(r) \/ Lookup(r) \/ Handle(r)
  PROVE  ApiTypeOK' /\ ScansDone'
<1>1. CASE Receive(r)
  <2>1. PICK c \in Calls : /\ call' = [call EXCEPT ![r] = c]
                           /\ GoTo(r, IF c.key = NoKey THEN "handle" ELSE "lookup")
    BY <1>1 DEF Receive
  <2>2. /\ call' \in [Requests -> Calls \cup {NoCall}]
        /\ before' \in [Requests -> SUBSET Requests]
        /\ tokens' \in [Mints -> Requests \cup {NoResponse}]
        /\ creators' \in [Wallets -> SUBSET Mints]
    BY <1>1, <2>1 DEF Receive, ApiTypeOK, registry
  <2> DEFINE state == IF c.key = NoKey THEN "handle" ELSE "lookup"
  <2>3. state \in {"handle", "lookup"} /\ pc[r] \notin Settled
    BY <1>1 DEF Receive, Settled
  <2> HIDE DEF state
  <2> QED
    BY <1>1, <2>1, <2>2, <2>3, GoingOnTypes DEF Receive, state
<1>2. CASE Lookup(r)
  <2>1. CASE GoTo(r, "handle") /\ UNCHANGED answer
    BY <1>2, <2>1, GoingOnTypes DEF Lookup, Settled, ApiTypeOK, registry
  <2>2. CASE GoTo(r, "answered") /\ answer' \in {answer, [answer EXCEPT ![r] = stored[key(r)]]}
                                /\ (answer' # answer => key(r) \in Keys)
    <3>1. answer' \in [Requests -> Requests \cup {NoResponse}]
      BY <2>2 DEF ApiTypeOK
    <3>2. /\ pc' \in [Requests -> {"idle", "answered", "lost"} \cup Running]
          /\ pc'[r] = "answered" /\ \A q \in Requests \ {r} : pc'[q] = pc[q]
      BY <2>2 DEF GoTo, ApiTypeOK
    <3>3. UNCHANGED <<call, outcome, before, stored, risk_scans, scanned, tokens, creators, life>>
      BY <1>2 DEF Lookup, scans, registry
    <3>4. ScansDone'
      BY <3>2, <3>3 DEF ScansDone, Settled, ApiTypeOK
    <3> QED
      BY <3>1, <3>2, <3>3, <3>4 DEF ApiTypeOK
  <2>3. stored[key(r)] # NoResponse /\ GoTo(r, "answered") => key(r) \in Keys
    BY <1>2 DEF Lookup, CallsKnown
  <2> QED
    BY <1>2, <2>1, <2>2, <2>3 DEF Lookup
<1>3. CASE Handle(r)
  <2>1. CASE GoTo(r, "upstream") /\ UNCHANGED <<outcome, answer>>
    BY <1>3, <2>1, GoingOnTypes DEF Handle, Settled, ApiTypeOK, registry
  <2>2. CASE Respond(r, "refused")
    BY <1>3, <2>2, RespondingTypes DEF Handle, Settled, ApiTypeOK, registry, Outcomes
  <2> QED
    BY <1>3, <2>1, <2>2 DEF Handle
<1> QED
  BY <1>1, <1>2, <1>3

\* The upstream API answers.
LEMMA UpstreamTypes ==
  ASSUME ApiTypeOK, ScansDone, NEW r \in Requests,
         AskBags(r) \/ AskNode(r) \/ AskRange(r) \/ FindToken(r)
  PROVE  ApiTypeOK' /\ ScansDone'
<1>1. pc[r] = "upstream" /\ pc[r] \notin Settled
  BY DEF AskBags, AskNode, AskRange, FindToken, Settled
<1>2. ASSUME NEW result \in Outcomes, Respond(r, result) \/ (Raise(r) /\ result = "error"),
             UNCHANGED <<call, before, stored, scans, registry, life>>
      PROVE  ApiTypeOK' /\ ScansDone'
  BY <1>1, <1>2, RespondingTypes DEF ApiTypeOK, registry
<1>3. {"error", "built", "submitted", "registered", "refused"} \subseteq Outcomes
  BY DEF Outcomes, Built
<1>4. CASE AskBags(r)
  <2>1. \E result \in {"built", "error"} : Respond(r, result)
    BY <1>4 DEF AskBags
  <2> QED
    BY <1>2, <1>3, <1>4, <2>1 DEF AskBags
<1>5. CASE AskNode(r)
  <2>1. \E result \in {"built", "submitted", "error"} : Respond(r, result)
    BY <1>5 DEF AskNode
  <2> QED
    BY <1>2, <1>3, <1>5, <2>1 DEF AskNode
<1>6. CASE FindToken(r)
  <2>1. CASE GoTo(r, "insert_token") /\ UNCHANGED <<outcome, answer>>
    BY <1>1, <1>6, <2>1, GoingOnTypes DEF FindToken, ApiTypeOK, registry
  <2>2. CASE (\E result \in {"registered", "refused"} : Respond(r, result)) \/ Raise(r)
    BY <1>2, <1>3, <1>6, <2>2 DEF FindToken
  <2> QED
    BY <1>6, <2>1, <2>2 DEF FindToken
<1>7. CASE AskRange(r)
  <2>1. CASE Respond(r, "error") /\ UNCHANGED scanned
    BY <1>2, <1>3, <1>7, <2>1 DEF AskRange, scans
  <2>2. CASE \E raw \in RangeReplies :
               /\ outcome' = [outcome EXCEPT ![r] = from_range_response(raw)]
               /\ scanned' = Append(scanned, r) /\ GoTo(r, "upsert") /\ UNCHANGED answer
    <3>1. PICK verdict \in Verdicts : outcome' = [outcome EXCEPT ![r] = verdict]
      BY <2>2, VerdictOfRange
    <3>2. /\ outcome' \in [Requests -> Outcomes] /\ outcome'[r] \in Verdicts
          /\ \A q \in Requests \ {r} : outcome'[q] = outcome[q]
      BY <3>1 DEF ApiTypeOK, Outcomes
    <3>3. /\ pc' \in [Requests -> {"idle", "answered", "lost"} \cup Running]
          /\ pc'[r] = "upsert" /\ \A q \in Requests \ {r} : pc'[q] = pc[q]
      BY <2>2 DEF GoTo, ApiTypeOK, Running, InHandler
    <3>4. scanned' \in Seq(Requests)
      BY <2>2 DEF ApiTypeOK
    <3>5. UNCHANGED <<call, answer, before, stored, risk_scans, tokens, creators, life>>
      BY <1>7, <2>2 DEF AskRange, registry
    <3>6. \A i \in DOMAIN risk_scans : risk_scans[i] \in Requests \ {r}
      BY <1>1 DEF ApiTypeOK, ScansDone
    <3>7. ScansDone'
      BY <3>2, <3>3, <3>5, <3>6 DEF ScansDone
    <3>8. \A i \in DOMAIN risk_scans' : outcome'[risk_scans'[i]] \in Verdicts
      BY <3>2, <3>5, <3>6 DEF ApiTypeOK
    <3> QED
      BY <3>2, <3>3, <3>4, <3>5, <3>7, <3>8 DEF ApiTypeOK
  <2> QED
    BY <1>7, <2>1, <2>2 DEF AskRange
<1> QED
  BY <1>4, <1>5, <1>6, <1>7

\* The database is written: a scan, a token, a profile, a response.
LEMMA WriteTypes ==
  ASSUME ApiTypeOK, ScansDone, CallsKnown, NEW r \in Requests,
         Upsert(r) \/ Insert(r) \/ InsertToken(r) \/ LinkCreator(r) \/ Store(r)
  PROVE  ApiTypeOK' /\ ScansDone'
<1>1. CASE Upsert(r)
  <2>1. CASE RowsOf(body(r).wallet) # {}
             /\ risk_scans' = [risk_scans EXCEPT ![FirstRow(body(r).wallet)] = r]
             /\ Respond(r, outcome[r])
    <3>1. risk_scans' \in Seq(Requests) /\ DOMAIN risk_scans' = DOMAIN risk_scans
      <4>1. risk_scans \in [1..Len(risk_scans) -> Requests] /\ Len(risk_scans) \in Nat
        BY DEF ApiTypeOK
      <4>2. risk_scans' \in [1..Len(risk_scans) -> Requests]
        BY <2>1, <4>1
      <4> QED
        BY <4>1, <4>2
    <3>2. \A i \in DOMAIN risk_scans : risk_scans'[i] = r \/ risk_scans'[i] = risk_scans[i]
      BY <2>1 DEF ApiTypeOK
    <3> QED
      BY <1>1, <2>1, <3>1, <3>2, ScanWritten DEF Upsert
  <2>2. CASE GoTo(r, "insert") /\ UNCHANGED <<outcome, answer, risk_scans>>
    BY <1>1, <2>2, GoingOnTypes DEF Upsert, ApiTypeOK, Settled, scans, registry
  <2>3. CASE Raise(r) /\ UNCHANGED risk_scans
    BY <1>1, <2>3, RespondingTypes DEF Upsert, ApiTypeOK, Settled, scans, registry, Outcomes
  <2> QED
    BY <1>1, <2>1, <2>2, <2>3 DEF Upsert
<1>2. CASE Insert(r)
  <2>1. risk_scans' \in Seq(Requests)
    BY <1>2 DEF Insert, ApiTypeOK
  <2>2. \A i \in DOMAIN risk_scans' :
          risk_scans'[i] = r \/ (i \in DOMAIN risk_scans /\ risk_scans'[i] = risk_scans[i])
    BY <1>2 DEF Insert, ApiTypeOK
  <2> QED
    BY <1>2, <2>1, <2>2, ScanWritten DEF Insert
<1>3. CASE InsertToken(r)
  <2>1. /\ tokens' \in [Mints -> Requests \cup {NoResponse}] /\ UNCHANGED creators
        /\ pc[r] \notin Settled /\ "error" \in Outcomes
    BY <1>3 DEF InsertToken, ApiTypeOK, Settled, registry, Outcomes
  <2>2. CASE GoTo(r, "link") /\ UNCHANGED <<outcome, answer>>
    BY <1>3, <2>1, <2>2, GoingOnTypes DEF InsertToken, ApiTypeOK
  <2>3. CASE Raise(r)
    BY <1>3, <2>1, <2>3, RespondingTypes DEF InsertToken, ApiTypeOK
  <2> QED
    BY <1>3, <2>2, <2>3 DEF InsertToken
<1>4. CASE LinkCreator(r)
  <2>1. pc[r] \notin Settled /\ "registered" \in Outcomes
    BY <1>4 DEF LinkCreator, Settled, Outcomes
  <2>2. creators' \in [Wallets -> SUBSET Mints]
    <3>1. call[r] \in Calls /\ route(r) = "register"
      BY <1>4 DEF LinkCreator, CallsKnown
    <3>2. TokenOf(r) \in Mints
      BY <3>1, CallsAssumption DEF TokenOf, body, route
    <3>3. creators' = creators \/
            creators' = [creators EXCEPT ![body(r).wallet] = creators[body(r).wallet] \cup {TokenOf(r)}]
      BY <1>4 DEF LinkCreator
    <3>4. creators \in [Wallets -> SUBSET Mints]
      BY DEF ApiTypeOK
    <3> QED
      BY <3>2, <3>3, <3>4
  <2> QED
    BY <1>4, <2>1, <2>2, RespondingTypes DEF LinkCreator, ApiTypeOK
<1>5. CASE Store(r)
  <2>1. /\ pc' \in [Requests -> {"idle", "answered", "lost"} \cup Running]
        /\ pc[r] = "store" /\ pc'[r] = "answered" /\ \A q \in Requests \ {r} : pc'[q] = pc[q]
    BY <1>5 DEF Store, GoTo, ApiTypeOK
  <2>2. /\ stored' \in [Keys -> Requests \cup {NoResponse}]
        /\ answer' \in [Requests -> Requests \cup {NoResponse}]
    <3>1. /\ stored' = stored \/ stored' = [stored EXCEPT ![key(r)] = IF @ = NoResponse THEN r ELSE @]
          /\ answer' = answer \/ answer' = [answer EXCEPT ![r] = r]
      BY <1>5 DEF Store
    <3>2. /\ stored \in [Keys -> Requests \cup {NoResponse}]
          /\ answer \in [Requests -> Requests \cup {NoResponse}]
      BY DEF ApiTypeOK
    <3>3. stored' \in [Keys -> Requests \cup {NoResponse}]
      BY <3>1, <3>2
    <3>4. answer' \in [Requests -> Requests \cup {NoResponse}]
      BY <3>1, <3>2
    <3> QED
      BY <3>3, <3>4
  <2>3. UNCHANGED <<call, outcome, before, risk_scans, scanned, tokens, creators, life>>
    BY <1>5 DEF Store, scans, registry
  <2>4. ScansDone'
    BY <2>1, <2>3 DEF ScansDone, Settled, ApiTypeOK
  <2> QED
    BY <2>1, <2>2, <2>3, <2>4 DEF ApiTypeOK
<1> QED
  BY <1>1, <1>2, <1>3, <1>4, <1>5

\* Records expire, and the backend is killed.
LEMMA ExpiryTypes ==
  ASSUME ApiTypeOK, ScansDone, (\E k \in Keys : KeyExpires(k)) \/ ScanExpires \/ Crash
  PROVE  ApiTypeOK' /\ ScansDone'
<1> USE ExpiriesAssumption
<1>1. CASE Crash
  <2>1. /\ pc' \in [Requests -> {"idle", "answered", "lost"} \cup Running]
        /\ \A r \in Requests : pc'[r] \in {pc[r], "lost"}
    BY <1>1 DEF Crash, ApiTypeOK
  <2>2. UNCHANGED <<call, outcome, answer, before, stored, risk_scans, scanned, tokens, creators, life>>
    BY <1>1 DEF Crash, scans, registry
  <2>3. ScansDone'
    BY <2>1, <2>2 DEF ScansDone, Settled, ApiTypeOK
  <2> QED
    BY <2>1, <2>2, <2>3 DEF ApiTypeOK
<1>2. ASSUME NEW k \in Keys, KeyExpires(k)
      PROVE  ApiTypeOK' /\ ScansDone'
  <2>1. /\ stored' \in [Keys -> Requests \cup {NoResponse}]
        /\ life' \in [Keys \cup {"scans"} -> 0..MaxExpiries]
    BY <1>2 DEF KeyExpires, ApiTypeOK
  <2>2. UNCHANGED <<pc, call, outcome, answer, before, risk_scans, scanned, tokens, creators>>
    BY <1>2 DEF KeyExpires, requests, scans, registry
  <2> QED
    BY <2>1, <2>2 DEF ApiTypeOK, ScansDone
<1>3. CASE ScanExpires
  <2>1. PICK i \in DOMAIN risk_scans : risk_scans' = RemoveAt(risk_scans, i)
    BY <1>3 DEF ScanExpires
  <2>2. /\ risk_scans' \in Seq(Requests)
        /\ \A j \in DOMAIN risk_scans' : \E l \in DOMAIN risk_scans : risk_scans'[j] = risk_scans[l]
    <3>1. risk_scans' = SubSeq(risk_scans, 1, i - 1) \o SubSeq(risk_scans, i + 1, Len(risk_scans))
      BY <2>1 DEF RemoveAt
    <3>2. risk_scans \in Seq(Requests) /\ i \in 1..Len(risk_scans)
      BY DEF ApiTypeOK
    <3> DEFINE front == SubSeq(risk_scans, 1, i - 1)
               rest == SubSeq(risk_scans, i + 1, Len(risk_scans))
    <3>3. i \in Nat \ {0} /\ Len(risk_scans) \in Nat
      BY <3>2
    <3>4. /\ front \in Seq(Requests) /\ Len(front) = i - 1
          /\ \A j \in 1..i - 1 : front[j] = risk_scans[j]
      <4>1. \A j \in 1..i - 1 : risk_scans[j] \in Requests
        BY <3>2, <3>3
      <4> QED
        BY <3>3, <4>1, SMT
    <3>5. /\ rest \in Seq(Requests) /\ Len(rest) = Len(risk_scans) - i
          /\ \A j \in 1..Len(risk_scans) - i : rest[j] = risk_scans[i + j]
      <4>1. \A j \in i + 1..Len(risk_scans) : risk_scans[j] \in Requests
        BY <3>2, <3>3
      <4> QED
        BY <3>2, <3>3, <4>1, SMT
    <3>6. /\ front \in Seq(Requests) /\ rest \in Seq(Requests)
          /\ \A j \in 1..Len(front) : front[j] = risk_scans[j] /\ j \in 1..Len(risk_scans)
          /\ \A j \in 1..Len(rest) : rest[j] = risk_scans[i + j] /\ i + j \in 1..Len(risk_scans)
      <4> HIDE DEF front, rest
      <4> QED
        BY <3>2, <3>3, <3>4, <3>5
    <3> HIDE DEF front, rest
    <3>7. Len(front) \in Nat /\ Len(rest) \in Nat
      BY <3>6
    <3>8. /\ front \o rest \in Seq(Requests)
          /\ DOMAIN (front \o rest) = 1..Len(front) + Len(rest)
          /\ \A j \in 1..Len(front) + Len(rest) :
               (front \o rest)[j] = IF j <= Len(front) THEN front[j] ELSE rest[j - Len(front)]
      BY <3>6, <3>7
    <3>9. ASSUME NEW j \in 1..Len(front) + Len(rest)
          PROVE  \E l \in 1..Len(risk_scans) : (front \o rest)[j] = risk_scans[l]
      <4>1. CASE j <= Len(front)
        BY <3>6, <3>7, <3>8, <4>1
      <4>2. CASE j > Len(front)
        <5>1. j - Len(front) \in 1..Len(rest) /\ (front \o rest)[j] = rest[j - Len(front)]
          BY <3>7, <3>8, <4>2
        <5> QED
          BY <3>6, <5>1
      <4> QED
        BY <3>7, <4>1, <4>2
    <3>10. risk_scans' = front \o rest
      BY <3>1 DEF front, rest
    <3>11. DOMAIN risk_scans = 1..Len(risk_scans)
      BY <3>2
    <3> QED
      BY <3>8, <3>9, <3>10, <3>11
  <2>3. life' \in [Keys \cup {"scans"} -> 0..MaxExpiries]
    BY <1>3 DEF ScanExpires, ApiTypeOK
  <2>4. UNCHANGED <<pc, call, outcome, answer, before, stored, scanned, tokens, creators>>
    BY <1>3 DEF ScanExpires, requests, registry
  <2> QED
    BY <2>2, <2>3, <2>4 DEF ApiTypeOK, ScansDone
<1> QED
  BY <1>1, <1>2, <1>3

\* What a request asks does not change once it has arrived.
LEMMA CallsStay ==
  ASSUME ApiTypeOK, [Next]_vars, NEW r \in Requests, pc[r] # "idle"
  PROVE  call'[r] = call[r] /\ pc'[r] # "idle"
<1>1. ASSUME NEW q \in Requests, Receive(q) PROVE call'[r] = call[r] /\ pc'[r] # "idle"
  BY <1>1 DEF Receive, GoTo, ApiTypeOK
<1>2. ASSUME NEW q \in Requests, Lookup(q) \/ Handle(q) \/ AskBags(q) \/ AskNode(q) \/ AskRange(q)
                                 \/ Upsert(q) \/ Insert(q) \/ FindToken(q) \/ InsertToken(q)
                                 \/ LinkCreator(q) \/ Store(q)
      PROVE  call' = call /\ \E state \in {"answered", "store"} \cup Running :
                               pc' = [pc EXCEPT ![q] = state]
  BY <1>2 DEF Lookup, Handle, AskBags, AskNode, AskRange, Upsert, Insert, FindToken, InsertToken,
              LinkCreator, Store, Respond, Raise, GoTo, Running, InHandler
<1>3. ASSUME NEW q \in Requests, Step(q) PROVE call'[r] = call[r] /\ pc'[r] # "idle"
  BY <1>1, <1>2, <1>3 DEF Step, ApiTypeOK, Running, InHandler
<1>4. CASE (\E k \in Keys : KeyExpires(k)) \/ ScanExpires \/ UNCHANGED vars
  BY <1>4 DEF KeyExpires, ScanExpires, vars, requests
<1>5. CASE Crash
  BY <1>5 DEF Crash, ApiTypeOK
<1> QED
  BY <1>3, <1>4, <1>5 DEF Next

LEMMA CallsKnownStep ==
  ASSUME ApiTypeOK, CallsKnown, [Next]_vars
  PROVE  CallsKnown'
<1> USE DEF key, route
<1>1. ASSUME NEW q \in Requests, call' = call, pc[q] # "idle",
             \E state \in {"handle", "upstream", "upsert", "insert", "answered", "store",
                          "insert_token", "link"} :
               /\ pc' = [pc EXCEPT ![q] = state]
               /\ state = "store" => key(q) # NoKey
               /\ state = "insert_token" => route(q) = "register"
               /\ state = "link" => pc[q] = "insert_token"
      PROVE  CallsKnown'
  <2>1. call[q] \in Calls /\ key(q) \in Keys \cup {NoKey}
    BY <1>1, CallsAssumption DEF CallsKnown
  <2>2. \A r \in Requests \ {q} : pc'[r] = pc[r]
    BY <1>1 DEF ApiTypeOK
  <2>3. /\ pc'[q] \notin {"idle", "lookup"} /\ (pc'[q] = "store" => key(q) # NoKey)
        /\ pc'[q] \in {"insert_token", "link"} => route(q) = "register"
    BY <1>1 DEF ApiTypeOK, CallsKnown
  <2> QED
    BY <1>1, <2>1, <2>2, <2>3 DEF CallsKnown
<1>2. ASSUME NEW q \in Requests, Receive(q) PROVE CallsKnown'
  <2>1. PICK c \in Calls : /\ call' = [call EXCEPT ![q] = c]
                           /\ pc' = [pc EXCEPT ![q] = IF c.key = NoKey THEN "handle" ELSE "lookup"]
    BY <1>2 DEF Receive, GoTo
  <2>2. \A r \in Requests \ {q} : pc'[r] = pc[r] /\ call'[r] = call[r]
    BY <2>1 DEF ApiTypeOK
  <2>3. call'[q] = c /\ pc'[q] = IF c.key = NoKey THEN "handle" ELSE "lookup"
    BY <2>1 DEF ApiTypeOK
  <2> QED
    BY <2>2, <2>3, CallsAssumption DEF CallsKnown
<1>3. ASSUME NEW q \in Requests,
             \/ Lookup(q) \/ Handle(q) \/ AskBags(q) \/ AskNode(q) \/ AskRange(q) \/ Upsert(q)
             \/ Insert(q) \/ FindToken(q) \/ InsertToken(q) \/ LinkCreator(q) \/ Store(q)
      PROVE  CallsKnown'
  <2>1. call' = call /\ pc[q] # "idle"
    BY <1>3 DEF Lookup, Handle, AskBags, AskNode, AskRange, Upsert, Insert, FindToken, InsertToken,
                LinkCreator, Store
  <2>2. \E state \in {"handle", "upstream", "upsert", "insert", "answered", "store",
                      "insert_token", "link"} :
          /\ pc' = [pc EXCEPT ![q] = state]
          /\ state = "store" => key(q) # NoKey
          /\ state = "insert_token" => route(q) = "register"
          /\ state = "link" => pc[q] = "insert_token"
    BY <1>3 DEF Lookup, Handle, AskBags, AskNode, AskRange, Upsert, Insert, FindToken, InsertToken,
                LinkCreator, Store, Respond, Raise, GoTo
  <2> QED
    BY <1>1, <2>1, <2>2
<1>4. CASE (\E k \in Keys : KeyExpires(k)) \/ ScanExpires \/ UNCHANGED vars
  BY <1>4 DEF KeyExpires, ScanExpires, vars, requests, CallsKnown
<1>5. CASE Crash
  <2>1. UNCHANGED call /\ \A r \in Requests : pc'[r] \in {pc[r], "lost"}
    BY <1>5 DEF Crash
  <2>2. ASSUME NEW r \in Requests, pc'[r] = pc[r] \/ pc'[r] = "lost", pc[r] # "idle" \/ pc'[r] = pc[r],
               call' = call
        PROVE  /\ pc'[r] # "idle" => call'[r] \in Calls
               /\ pc'[r] \in {"lookup", "store"} => key(r)' \in Keys
               /\ pc'[r] \in {"insert_token", "link"} => route(r)' = "register"
    BY <2>2 DEF CallsKnown
  <2>3. \A r \in Requests : pc[r] # "idle" \/ pc'[r] = pc[r]
    BY <1>5 DEF Crash, Running, InHandler
  <2> QED
    BY <2>1, <2>2, <2>3 DEF CallsKnown
<1> QED
  BY <1>2, <1>3, <1>4, <1>5 DEF Next, Step

\* Every variable keeps its type, and a row of risk_scans holds a verdict.
THEOREM ApiTypeCorrect == Spec => [](ApiTypeOK /\ CallsKnown /\ ScansDone)
<1>1. Init => ApiTypeOK /\ CallsKnown /\ ScansDone
  <2> SUFFICES ASSUME Init PROVE ApiTypeOK /\ CallsKnown /\ ScansDone
    OBVIOUS
  <2>1. CallsKnown /\ ScansDone
    BY DEF Init, CallsKnown, ScansDone
  <2>2. ApiTypeOK
    BY ExpiriesAssumption DEF Init, ApiTypeOK, Outcomes
  <2> QED
    BY <2>1, <2>2
<1>2. ApiTypeOK /\ CallsKnown /\ ScansDone /\ [Next]_vars => (ApiTypeOK /\ CallsKnown /\ ScansDone)'
  <2> SUFFICES ASSUME ApiTypeOK, CallsKnown, ScansDone, [Next]_vars
               PROVE  ApiTypeOK' /\ ScansDone'
    BY CallsKnownStep
  <2>1. CASE UNCHANGED vars
    BY <2>1 DEF vars, requests, scans, registry, ApiTypeOK, ScansDone
  <2>2. ASSUME NEW r \in Requests, Step(r) PROVE ApiTypeOK' /\ ScansDone'
    BY <2>2, ArrivalTypes, UpstreamTypes, WriteTypes DEF Step
  <2> QED
    BY <2>1, <2>2, ExpiryTypes DEF Next
<1> QED
  BY <1>1, <1>2, PTL DEF Spec

ApiInv == ApiTypeOK /\ CallsKnown /\ ScansDone

-----------------------------------------------------------------------------
(***************************************************************************)
(* The registry of tokens.                                                 *)
(***************************************************************************)

Owned(m, w) == tokens[m] # NoResponse /\ body(tokens[m]).wallet = w

\* A row is that of a request that has arrived; a request that links a mint, or
\* is told that it is registered, finds its own wallet in the row.
RegistryInv ==
  /\ \A m \in Mints : tokens[m] # NoResponse => pc[tokens[m]] # "idle"
  /\ \A r \in Requests : pc[r] = "idle" => outcome[r] = "none"
  /\ \A r \in Requests : pc[r] = "link" \/ outcome[r] = "registered" =>
       route(r) = "register" /\ Owned(TokenOf(r), body(r).wallet)
  /\ \A w \in Wallets : \A m \in creators[w] : Owned(m, w)

\* The unique index: a mint that is registered keeps its row.
LEMMA TokensStay ==
  ASSUME ApiInv, [Next]_vars, NEW m \in Mints, tokens[m] # NoResponse
  PROVE  tokens'[m] = tokens[m]
<1>1. ASSUME NEW q \in Requests, InsertToken(q) PROVE tokens'[m] = tokens[m]
  BY <1>1 DEF InsertToken, ApiInv, ApiTypeOK
<1>2. ASSUME NEW q \in Requests,
             \/ Receive(q) \/ Lookup(q) \/ Handle(q) \/ AskBags(q) \/ AskNode(q) \/ AskRange(q)
             \/ Upsert(q) \/ Insert(q) \/ FindToken(q) \/ LinkCreator(q) \/ Store(q)
      PROVE  tokens' = tokens
  BY <1>2 DEF Receive, Lookup, Handle, AskBags, AskNode, AskRange, Upsert, Insert, FindToken,
              LinkCreator, Store, registry
<1>3. CASE (\E k \in Keys : KeyExpires(k)) \/ ScanExpires \/ Crash \/ UNCHANGED vars
  BY <1>3 DEF KeyExpires, ScanExpires, Crash, vars, registry
<1> QED
  BY <1>1, <1>2, <1>3 DEF Next, Step

LEMMA OwnedStays ==
  ASSUME ApiInv, RegistryInv, [Next]_vars, NEW m \in Mints, NEW w, Owned(m, w)
  PROVE  Owned(m, w)'
<1>1. tokens'[m] = tokens[m] /\ tokens[m] # NoResponse
  BY TokensStay DEF Owned
<1>2. tokens[m] \in Requests /\ pc[tokens[m]] # "idle"
  BY <1>1 DEF ApiInv, ApiTypeOK, RegistryInv
<1>3. call'[tokens[m]] = call[tokens[m]]
  BY <1>2, CallsStay DEF ApiInv
<1> QED
  BY <1>1, <1>3 DEF Owned, body

\* The steps that tell a request of its registration, or let it link a mint.
LEMMA RegisterStep ==
  ASSUME ApiInv, RegistryInv, NEW q \in Requests, FindToken(q) \/ InsertToken(q) \/ LinkCreator(q)
  PROVE  /\ call' = call /\ pc[q] # "idle" /\ route(q) = "register" /\ TokenOf(q) \in Mints
         /\ \A r \in Requests \ {q} : pc'[r] = pc[r] /\ outcome'[r] = outcome[r]
         /\ pc'[q] # "idle"
         /\ pc'[q] = "link" \/ outcome'[q] = "registered" =>
              Owned(TokenOf(q), body(q).wallet) \/ tokens'[TokenOf(q)] = q
         /\ \A m \in Mints : tokens'[m] \in {tokens[m], q}
         /\ \A w \in Wallets : creators'[w] \subseteq creators[w] \cup
               (IF Owned(TokenOf(q), body(q).wallet) /\ w = body(q).wallet THEN {TokenOf(q)} ELSE {})
<1>1. call' = call /\ pc[q] \in {"upstream", "insert_token", "link"} /\ route(q) = "register"
  BY DEF FindToken, InsertToken, LinkCreator, ApiInv, CallsKnown
<1>2. TokenOf(q) \in Mints /\ call[q] \in Calls
  <2>1. call[q] \in Calls
    BY <1>1 DEF ApiInv, CallsKnown
  <2> QED
    BY <1>1, <2>1, CallsAssumption DEF TokenOf, body, route
<1>3. outcome[q] # "registered" \/ Owned(TokenOf(q), body(q).wallet)
  BY DEF RegistryInv
<1>4. {"registered", "refused", "error"} \subseteq Outcomes /\ ApiTypeOK
  BY DEF Outcomes, ApiInv
<1>5. CASE FindToken(q)
  <2>1. UNCHANGED <<tokens, creators>>
    BY <1>5 DEF FindToken, registry
  <2>2. CASE GoTo(q, "insert_token") /\ UNCHANGED <<outcome, answer>>
    BY <1>1, <1>2, <1>3, <2>1, <2>2 DEF GoTo, ApiInv, ApiTypeOK
  <2>3. CASE Respond(q, "registered") /\ Owned(TokenOf(q), body(q).wallet)
    BY <1>1, <1>2, <1>4, <2>1, <2>3, Responding
  <2>4. CASE Respond(q, "refused") \/ Raise(q)
    BY <1>1, <1>2, <1>4, <2>1, <2>4, Responding
  <2> QED
    BY <1>5, <2>2, <2>3, <2>4 DEF FindToken, Owned
<1>6. CASE InsertToken(q)
  <2>1. creators' = creators /\ \A m \in Mints : tokens'[m] \in {tokens[m], q}
    BY <1>4, <1>6 DEF InsertToken, ApiTypeOK
  <2>2. CASE GoTo(q, "link") /\ UNCHANGED <<outcome, answer>> /\ tokens' = [tokens EXCEPT ![TokenOf(q)] = q]
    BY <1>1, <1>2, <2>1, <2>2 DEF GoTo, ApiInv, ApiTypeOK
  <2>3. CASE Raise(q)
    BY <1>1, <1>2, <1>4, <2>1, <2>3, Responding
  <2> QED
    BY <1>6, <2>2, <2>3 DEF InsertToken
<1>7. CASE LinkCreator(q)
  <2>1. Owned(TokenOf(q), body(q).wallet) /\ tokens' = tokens
    BY <1>7 DEF LinkCreator, RegistryInv
  <2>2. \A w \in Wallets : creators'[w] \subseteq creators[w] \cup
          (IF w = body(q).wallet THEN {TokenOf(q)} ELSE {})
    <3>1. creators' = creators \/
            creators' = [creators EXCEPT ![body(q).wallet] = creators[body(q).wallet] \cup {TokenOf(q)}]
      BY <1>7 DEF LinkCreator
    <3> QED
      BY <1>4, <3>1 DEF ApiTypeOK
  <2> QED
    BY <1>1, <1>2, <1>4, <1>7, <2>1, <2>2, Responding DEF LinkCreator
<1> QED
  BY <1>5, <1>6, <1>7

\* The other steps tell no request of a registration.
LEMMA OtherStep ==
  ASSUME ApiInv, [Next]_vars,
         \A q \in Requests : ~(FindToken(q) \/ InsertToken(q) \/ LinkCreator(q))
  PROVE  /\ UNCHANGED <<tokens, creators>>
         /\ \A r \in Requests :
              /\ pc'[r] = "link" => pc[r] = "link"
              /\ outcome'[r] = "registered" => outcome[r] = "registered"
              /\ pc'[r] = "idle" => pc[r] = "idle" /\ outcome'[r] = outcome[r]
<1>1. ApiTypeOK
  BY DEF ApiInv
<1>2. ASSUME NEW q \in Requests, UNCHANGED outcome,
             \E state \in {"handle", "lookup", "upstream", "upsert", "insert", "answered"} :
               pc' = [pc EXCEPT ![q] = state]
      PROVE  \A r \in Requests :
               /\ pc'[r] = "link" => pc[r] = "link"
               /\ outcome'[r] = "registered" => outcome[r] = "registered"
               /\ pc'[r] = "idle" => pc[r] = "idle" /\ outcome'[r] = outcome[r]
  BY <1>1, <1>2 DEF ApiTypeOK
<1>3. ASSUME NEW q \in Requests, NEW result \in Outcomes \ {"registered"},
             \/ Respond(q, result)
             \/ Raise(q) /\ result = "error"
             \/ outcome' = [outcome EXCEPT ![q] = result] /\ GoTo(q, "upsert")
      PROVE  \A r \in Requests :
               /\ pc'[r] = "link" => pc[r] = "link"
               /\ outcome'[r] = "registered" => outcome[r] = "registered"
               /\ pc'[r] = "idle" => pc[r] = "idle" /\ outcome'[r] = outcome[r]
  <2>1. CASE Respond(q, result) \/ (Raise(q) /\ result = "error")
    BY <1>1, <1>3, <2>1, Responding
  <2>2. CASE outcome' = [outcome EXCEPT ![q] = result] /\ GoTo(q, "upsert")
    BY <1>1, <1>3, <2>2 DEF GoTo, ApiTypeOK
  <2> QED
    BY <1>3, <2>1, <2>2
<1>4. {"refused", "error", "built", "submitted"} \cup Verdicts \subseteq Outcomes \ {"registered"}
  BY DEF Outcomes, Built, Verdicts
<1>5. ASSUME NEW q \in Requests,
             \/ Receive(q) \/ Lookup(q) \/ Handle(q) \/ AskBags(q) \/ AskNode(q) \/ AskRange(q)
             \/ Upsert(q) \/ Insert(q) \/ Store(q)
      PROVE  UNCHANGED <<tokens, creators>>
  BY <1>5 DEF Receive, Lookup, Handle, AskBags, AskNode, AskRange, Upsert, Insert, Store, registry
<1>6. ASSUME NEW q \in Requests, Receive(q) \/ Lookup(q) \/ Store(q)
      PROVE  UNCHANGED outcome /\ \E state \in {"handle", "lookup", "answered"} :
                                    pc' = [pc EXCEPT ![q] = state]
  BY <1>6 DEF Receive, Lookup, Store, GoTo
<1>7. ASSUME NEW q \in Requests, Handle(q) \/ AskBags(q) \/ AskNode(q)
      PROVE  \/ UNCHANGED outcome /\ pc' = [pc EXCEPT ![q] = "upstream"]
             \/ \E result \in {"refused", "error", "built", "submitted"} : Respond(q, result)
  BY <1>7 DEF Handle, AskBags, AskNode, GoTo
<1>8. ASSUME NEW q \in Requests, AskRange(q)
      PROVE  \E result \in Verdicts \cup {"error"} :
               Respond(q, result) \/ (outcome' = [outcome EXCEPT ![q] = result] /\ GoTo(q, "upsert"))
  BY <1>8, VerdictOfRange DEF AskRange
<1>9. ASSUME NEW q \in Requests, Upsert(q) \/ Insert(q)
      PROVE  \/ UNCHANGED outcome /\ pc' = [pc EXCEPT ![q] = "insert"]
             \/ \E result \in Verdicts : Respond(q, result)
             \/ Raise(q)
  <2>1. outcome[q] \in Verdicts
    BY <1>9 DEF Upsert, Insert, ApiInv, ScansDone
  <2> QED
    BY <1>9, <2>1 DEF Upsert, Insert, GoTo
<1>10. CASE (\E k \in Keys : KeyExpires(k)) \/ ScanExpires \/ UNCHANGED vars
  BY <1>10 DEF KeyExpires, ScanExpires, vars, requests, registry
<1>11. CASE Crash
  BY <1>11 DEF Crash, registry
<1> QED
  BY <1>2, <1>3, <1>4, <1>5, <1>6, <1>7, <1>8, <1>9, <1>10, <1>11 DEF Next, Step

LEMMA RegistryStep ==
  ASSUME ApiInv, RegistryInv, [Next]_vars
  PROVE  RegistryInv'
<1>1. \A m \in Mints : \A w : Owned(m, w) => Owned(m, w)'
  BY OwnedStays
<1>2. \A r \in Requests : pc[r] # "idle" => call'[r] = call[r] /\ pc'[r] # "idle"
  BY CallsStay DEF ApiInv
<1>3. \A r \in Requests : route(r) = "register" /\ call[r] \in Calls => TokenOf(r) \in Mints
  BY CallsAssumption DEF TokenOf, body, route
<1>4. \A r \in Requests : pc[r] = "link" \/ outcome[r] = "registered" =>
        /\ pc[r] # "idle" /\ TokenOf(r) \in Mints /\ route(r) = "register"
        /\ Owned(TokenOf(r), body(r).wallet)
  BY <1>3 DEF RegistryInv, ApiInv, CallsKnown
<1>5. ASSUME NEW r \in Requests, pc[r] = "link" \/ outcome[r] = "registered"
      PROVE  route(r)' = "register" /\ Owned(TokenOf(r), body(r).wallet)'
  <2>1. call'[r] = call[r] /\ TokenOf(r) \in Mints
    BY <1>2, <1>4, <1>5
  <2>2. Owned(TokenOf(r), body(r).wallet)
    BY <1>4, <1>5
  <2> QED
    BY <1>1, <1>4, <1>5, <2>1, <2>2 DEF route, TokenOf, body, Owned
<1>6. \A w \in Wallets : creators[w] \subseteq Mints
  BY DEF ApiInv, ApiTypeOK
<1>7. CASE \A q \in Requests : ~(FindToken(q) \/ InsertToken(q) \/ LinkCreator(q))
  <2>1. UNCHANGED <<tokens, creators>>
    BY <1>7, OtherStep
  <2>2. \A m \in Mints : tokens'[m] # NoResponse => pc'[tokens'[m]] # "idle"
    BY <1>2, <2>1 DEF RegistryInv, ApiInv, ApiTypeOK
  <2>3. \A w \in Wallets : \A m \in creators'[w] : Owned(m, w)'
    BY <1>1, <1>6, <2>1 DEF RegistryInv
  <2>4. \A r \in Requests : pc'[r] = "idle" => outcome'[r] = "none"
    BY <1>7, OtherStep DEF RegistryInv
  <2>5. \A r \in Requests : pc'[r] = "link" \/ outcome'[r] = "registered" =>
          route(r)' = "register" /\ Owned(TokenOf(r), body(r).wallet)'
    BY <1>5, <1>7, OtherStep
  <2> QED
    BY <2>2, <2>3, <2>4, <2>5 DEF RegistryInv
<1>8. ASSUME NEW q \in Requests, FindToken(q) \/ InsertToken(q) \/ LinkCreator(q)
      PROVE  RegistryInv'
  <2>1. /\ call' = call /\ pc[q] # "idle" /\ route(q) = "register" /\ TokenOf(q) \in Mints
        /\ \A r \in Requests \ {q} : pc'[r] = pc[r] /\ outcome'[r] = outcome[r]
        /\ pc'[q] # "idle"
        /\ pc'[q] = "link" \/ outcome'[q] = "registered" =>
             Owned(TokenOf(q), body(q).wallet) \/ tokens'[TokenOf(q)] = q
        /\ \A m \in Mints : tokens'[m] \in {tokens[m], q}
        /\ \A w \in Wallets : creators'[w] \subseteq creators[w] \cup
              (IF Owned(TokenOf(q), body(q).wallet) /\ w = body(q).wallet THEN {TokenOf(q)} ELSE {})
    BY <1>8, RegisterStep
  <2>2. \A m \in Mints : tokens'[m] # NoResponse => pc'[tokens'[m]] # "idle"
    <3> SUFFICES ASSUME NEW m \in Mints, tokens'[m] # NoResponse PROVE pc'[tokens'[m]] # "idle"
      OBVIOUS
    <3>1. CASE tokens'[m] = q
      BY <2>1, <3>1
    <3>2. CASE tokens'[m] = tokens[m]
      <4>1. tokens[m] \in Requests /\ pc[tokens[m]] # "idle"
        BY <3>2 DEF RegistryInv, ApiInv, ApiTypeOK
      <4> QED
        BY <1>2, <3>2, <4>1
    <3> QED
      BY <2>1, <3>1, <3>2
  <2>3. \A r \in Requests : pc'[r] = "idle" => outcome'[r] = "none"
    BY <2>1 DEF RegistryInv
  <2>4. \A w \in Wallets : \A m \in creators'[w] : Owned(m, w)'
    BY <1>1, <1>6, <2>1 DEF RegistryInv
  <2>5. q # NoResponse
    BY ResponseAssumption
  <2>6. pc'[q] = "link" \/ outcome'[q] = "registered" =>
          route(q)' = "register" /\ Owned(TokenOf(q), body(q).wallet)'
    <3>1. route(q)' = route(q) /\ TokenOf(q)' = TokenOf(q) /\ body(q)' = body(q)
      BY <2>1 DEF route, TokenOf, body
    <3>2. CASE Owned(TokenOf(q), body(q).wallet)
      BY <1>1, <2>1, <3>1, <3>2 DEF Owned
    <3>3. CASE tokens'[TokenOf(q)] = q
      BY <2>1, <2>5, <3>1, <3>3 DEF Owned
    <3> QED
      BY <2>1, <3>2, <3>3
  <2>7. \A r \in Requests \ {q} : pc'[r] = "link" \/ outcome'[r] = "registered" =>
          route(r)' = "register" /\ Owned(TokenOf(r), body(r).wallet)'
    BY <1>5, <2>1
  <2> QED
    BY <2>2, <2>3, <2>4, <2>6, <2>7 DEF RegistryInv
<1> QED
  BY <1>7, <1>8

\* Whoever is told that a mint is registered is the creator in its row, and no
\* profile lists a mint of another, for any number of registrations.
THEOREM RegisteredToOneHolds == Spec => []RegisteredToOne
<1>1. Init => RegistryInv
  BY DEF Init, RegistryInv
<1>2. ApiInv /\ RegistryInv /\ [Next]_vars => RegistryInv'
  BY RegistryStep
<1>3. RegistryInv => RegisteredToOne
  BY DEF RegistryInv, RegisteredToOne, Owned
<1>4. ApiInv <=> ApiTypeOK /\ CallsKnown /\ ScansDone
  BY DEF ApiInv
<1> QED
  BY <1>1, <1>2, <1>3, <1>4, ApiTypeCorrect, PTL DEF Spec

-----------------------------------------------------------------------------
(***************************************************************************)
(* The instructions.                                                       *)
(***************************************************************************)

\* The vault is the second account of every deposit the backend builds, and its
\* key tells pools apart.
LEMMA VaultTells ==
  ASSUME NEW mint, NEW m, NEW w, NEW args, m # mint
  PROVE  /\ ~AcceptsDeposit(_build_deposit_ix(w, mint, args), m)
         /\ ~AcceptsDeposit(build_deposit_ix(mint, w, args), m)
<1>1. <<"vault", mint>> # <<"vault", m>>
  OBVIOUS
<1>2. ASSUME NEW given, given[2] = Meta(<<"vault", mint>>, FALSE, TRUE)
      PROVE  ~Fits(given, DepositSol(m))
  <2>1. DepositSol(m)[2] = Mut({<<"vault", m>>}) /\ 2 \in DOMAIN DepositSol(m)
    BY DEF DepositSol, VaultPda
  <2>2. given[2].key = <<"vault", mint>> /\ Mut({<<"vault", m>>}).keys = {<<"vault", m>>}
    BY <1>2 DEF Meta, Mut
  <2>3. Fits(given, DepositSol(m)) => given[2].key \in DepositSol(m)[2].keys
    BY <2>1, Zenon DEF Fits
  <2> QED
    BY <1>1, <2>1, <2>2, <2>3
<1>3. /\ _build_deposit_ix(w, mint, args).accounts[2] = Meta(<<"vault", mint>>, FALSE, TRUE)
      /\ build_deposit_ix(mint, w, args).accounts[2] = Meta(<<"vault", mint>>, FALSE, TRUE)
  BY DEF _build_deposit_ix, build_deposit_ix, _derive_pdas
<1> QED
  BY <1>2, <1>3 DEF AcceptsDeposit

\* The two kinds of instructions are not taken for each other, and a withdrawal
\* is short of accounts for every pool.
LEMMA KindTells ==
  ASSUME NEW mint, NEW m, NEW w, NEW recipient, NEW hash, NEW args
  PROVE  /\ ~AcceptsWithdraw(_build_deposit_ix(w, mint, args), m, recipient, hash)
         /\ ~AcceptsWithdraw(build_deposit_ix(mint, w, args), m, recipient, hash)
         /\ ~AcceptsDeposit(_build_withdraw_ix(mint, recipient, w, hash), m)
         /\ ~AcceptsDeposit(_build_withdraw_spl_ix(mint, recipient, w, hash), m)
         /\ ~AcceptsWithdraw(_build_withdraw_ix(mint, recipient, w, hash), m, recipient, hash)
         /\ ~AcceptsWithdraw(_build_withdraw_spl_ix(mint, recipient, w, hash), m, recipient, hash)
<1>1. /\ _build_deposit_ix(w, mint, args).sighash = "deposit"
      /\ build_deposit_ix(mint, w, args).sighash = "deposit"
      /\ _build_withdraw_ix(mint, recipient, w, hash).sighash = "withdraw"
      /\ _build_withdraw_spl_ix(mint, recipient, w, hash).sighash = "withdraw_spl"
  BY DEF _build_deposit_ix, build_deposit_ix, _build_withdraw_ix, _build_withdraw_spl_ix
<1>2. /\ Len(_build_withdraw_ix(mint, recipient, w, hash).accounts) = 6
      /\ Len(_build_withdraw_spl_ix(mint, recipient, w, hash).accounts) = 9
  BY DEF _build_withdraw_ix, _build_withdraw_spl_ix
<1>3. Len(Withdraw(m, recipient, hash)) = 7 /\ Len(WithdrawSpl(m, recipient, hash)) = 11
  BY DEF Withdraw, WithdrawSpl
<1> QED
  BY <1>1, <1>2, <1>3 DEF AcceptsDeposit, AcceptsWithdraw, Fits

\* The conversions give as many bytes as the program reads.
LEMMA HexWidth ==
  ASSUME NEW bytes \in Seq(Nat)
  PROVE  /\ Len(_hex_to_bytes32(bytes)) = Width
         /\ _hex_to_bytes32_strict(bytes) = Invalid \/ Len(_hex_to_bytes32_strict(bytes)) = Width
<1> USE WidthAssumption
<1>1. CASE Len(bytes) > Width
  BY <1>1 DEF _hex_to_bytes32, _hex_to_bytes32_strict
<1>2. CASE Len(bytes) <= Width
  <2> DEFINE front == [i \in 1..(Width - Len(bytes)) |-> 0]
  <2>1. front \in Seq(Nat) /\ Len(front) = Width - Len(bytes)
    BY <1>2
  <2> HIDE DEF front
  <2>2. Len(front \o bytes) = Width
    BY <1>2, <2>1
  <2> QED
    BY <1>2, <2>2 DEF _hex_to_bytes32, _hex_to_bytes32_strict, Padded, front
<1> QED
  BY <1>1, <1>2

\* The account at one place is the one declared.
Matches(given, declared) ==
  /\ given.key \in declared.keys
  /\ declared.signer => given.signer
  /\ declared.mut => given.writable

LEMMA Matching ==
  ASSUME NEW key_, NEW keys_, key_ \in keys_
  PROVE  /\ Matches(Meta(key_, TRUE, TRUE), [keys |-> keys_, signer |-> TRUE, mut |-> TRUE])
         /\ Matches(Meta(key_, FALSE, TRUE), Mut(keys_))
         /\ Matches(Meta(key_, FALSE, FALSE), Account(keys_))
BY DEF Matches, Meta, Mut, Account

LEMMA FourFit ==
  ASSUME NEW a1, NEW a2, NEW a3, NEW a4, NEW b1, NEW b2, NEW b3, NEW b4,
         Matches(a1, b1), Matches(a2, b2), Matches(a3, b3), Matches(a4, b4)
  PROVE  Fits(<<a1, a2, a3, a4>>, <<b1, b2, b3, b4>>)
<1>1. \A i \in 1..4 : Matches(<<a1, a2, a3, a4>>[i], <<b1, b2, b3, b4>>[i])
  <2> SUFFICES ASSUME NEW i \in 1..4 PROVE Matches(<<a1, a2, a3, a4>>[i], <<b1, b2, b3, b4>>[i])
    OBVIOUS
  <2>1. i = 1 \/ i = 2 \/ i = 3 \/ i = 4
    OBVIOUS
  <2> QED
    BY <2>1
<1>2. DOMAIN <<b1, b2, b3, b4>> = 1..4 /\ Len(<<a1, a2, a3, a4>>) >= Len(<<b1, b2, b3, b4>>)
  OBVIOUS
<1> QED
  BY <1>1, <1>2, Zenon DEF Fits, Matches

\* The pool of SOL takes the deposit that is built for it.
LEMMA SolFits ==
  ASSUME NEW w \in Wallets, NEW args, Len(args) = Width
  PROVE  /\ AcceptsDeposit(_build_deposit_ix(w, SystemProgram, args), SystemProgram)
         /\ AcceptsDeposit(build_deposit_ix(SystemProgram, w, args), SystemProgram)
<1> DEFINE vault == VaultPda(SystemProgram)
           tree == TreeStatePda(SystemProgram)
<1>1. /\ Matches(Meta(Wallet(w), TRUE, TRUE), Payer)
      /\ Matches(Meta(vault, FALSE, TRUE), Mut({vault}))
      /\ Matches(Meta(tree, FALSE, TRUE), Mut({tree}))
      /\ Matches(Meta(SYSTEM_PROGRAM_ID, FALSE, FALSE), Account({SYSTEM_PROGRAM_ID}))
  <2>1. Wallet(w) \in Signers /\ Payer = [keys |-> Signers, signer |-> TRUE, mut |-> TRUE]
    BY DEF Signers, Payer
  <2> QED
    BY <2>1, Matching
<1>2. _derive_pdas(SystemProgram).vault = vault /\ _derive_pdas(SystemProgram).tree_state = tree
  BY DEF _derive_pdas, VaultPda, TreeStatePda
<1> HIDE DEF vault, tree
<1> DEFINE deposit == << Meta(Wallet(w), TRUE, TRUE), Meta(vault, FALSE, TRUE),
                         Meta(tree, FALSE, TRUE), Meta(SYSTEM_PROGRAM_ID, FALSE, FALSE) >>
<1>3. DepositSol(SystemProgram) = << Payer, Mut({vault}), Mut({tree}), Account({SYSTEM_PROGRAM_ID}) >>
  BY DEF DepositSol, vault, tree
<1>4. Fits(deposit, DepositSol(SystemProgram))
  BY <1>1, <1>3, FourFit, Zenon
<1>5. /\ _build_deposit_ix(w, SystemProgram, args) = [sighash |-> "deposit", args |-> args, accounts |-> deposit]
      /\ build_deposit_ix(SystemProgram, w, args) = [sighash |-> "deposit", args |-> args, accounts |-> deposit]
  BY <1>2 DEF _build_deposit_ix, build_deposit_ix
<1> HIDE DEF deposit
<1> QED
  BY <1>4, <1>5 DEF AcceptsDeposit

DepositRoutes == {"build", "swap-to-deposit", "claim-to-deposit"}

\* The routes whose requests are checked for mint and commitment.
BuilderRoutes == DepositRoutes \cup {"relay"}

\* A request that is past its checks had a mint and a commitment, and only the
\* routes of the builders, of fees and of quotes build anything.
BuiltInv ==
  \A r \in Requests :
    /\ pc[r] = "upstream" => Valid(r)
    /\ outcome[r] \in Built => Valid(r) /\ route(r) \in BuilderRoutes \cup {"claim-fees", "swap-quote"}
    /\ pc[r] = "idle" => outcome[r] = "none"

LEMMA BuiltStep ==
  ASSUME ApiInv, BuiltInv, [Next]_vars
  PROVE  BuiltInv'
<1>1. ApiTypeOK /\ "none" \notin Built
  BY DEF ApiInv, Built
<1>2. ASSUME NEW r \in Requests, pc[r] # "idle"
      PROVE  Valid(r)' = Valid(r) /\ route(r)' = route(r) /\ pc'[r] # "idle"
  <2>1. call'[r] = call[r] /\ pc'[r] # "idle"
    BY <1>2, CallsStay DEF ApiInv
  <2> QED
    BY <2>1 DEF Valid, MintOf, CommitmentOf, route, body
<1>3. SUFFICES ASSUME NEW r \in Requests
               PROVE  /\ pc'[r] = "upstream" => pc[r] # "idle" /\ Valid(r)
                      /\ outcome'[r] \in Built => outcome[r] \in Built \/
                           /\ pc[r] = "upstream"
                           /\ route(r) \in BuilderRoutes \cup {"claim-fees", "swap-quote"}
                      /\ pc'[r] = "idle" => pc[r] = "idle" /\ outcome'[r] = outcome[r]
  BY <1>1, <1>2, <1>3 DEF BuiltInv
<1> DEFINE Kept == /\ pc'[r] = "upstream" => pc[r] # "idle" /\ Valid(r)
                   /\ outcome'[r] \in Built => outcome[r] \in Built \/
                        /\ pc[r] = "upstream"
                        /\ route(r) \in BuilderRoutes \cup {"claim-fees", "swap-quote"}
                   /\ pc'[r] = "idle" => pc[r] = "idle" /\ outcome'[r] = outcome[r]
<1>4. CASE UNCHANGED <<pc, outcome>>
  BY <1>1, <1>4 DEF BuiltInv
<1>5. ASSUME NEW q \in Requests, UNCHANGED outcome,
             \E state \in {"handle", "lookup", "insert", "insert_token", "link", "answered"} :
               pc' = [pc EXCEPT ![q] = state]
      PROVE  Kept
  BY <1>1, <1>5 DEF ApiTypeOK, BuiltInv
<1>6. ASSUME NEW q \in Requests, NEW result \in Outcomes,
             \/ Respond(q, result)
             \/ Raise(q) /\ result = "error"
             \/ outcome' = [outcome EXCEPT ![q] = result] /\ GoTo(q, "upsert"),
             result \in Built =>
               pc[q] = "upstream" /\ route(q) \in BuilderRoutes \cup {"claim-fees", "swap-quote"}
      PROVE  Kept
  <2>1. /\ pc'[q] \in {"store", "answered", "upsert"} /\ outcome'[q] = result
        /\ \A p \in Requests \ {q} : pc'[p] = pc[p] /\ outcome'[p] = outcome[p]
    <3>1. CASE Respond(q, result) \/ (Raise(q) /\ result = "error")
      BY <1>1, <3>1, Responding
    <3>2. CASE outcome' = [outcome EXCEPT ![q] = result] /\ GoTo(q, "upsert")
      BY <1>1, <3>2 DEF GoTo, ApiTypeOK
    <3> QED
      BY <1>6, <3>1, <3>2
  <2> QED
    BY <1>1, <1>6, <2>1 DEF BuiltInv
<1>7. /\ {"refused", "error", "built", "submitted", "registered"} \cup Verdicts \subseteq Outcomes
      /\ Built = {"built", "submitted"} /\ Verdicts \cap Built = {}
  BY DEF Outcomes, Built, Verdicts
<1>8. ASSUME NEW q \in Requests, Receive(q) \/ Lookup(q) \/ Store(q)
      PROVE  Kept
  <2>1. UNCHANGED outcome /\ \E state \in {"handle", "lookup", "answered"} :
                                pc' = [pc EXCEPT ![q] = state]
    BY <1>8 DEF Receive, Lookup, Store, GoTo
  <2> QED
    BY <1>5, <2>1
<1>9. ASSUME NEW q \in Requests, Handle(q)
      PROVE  Kept
  <2>1. CASE Respond(q, "refused")
    BY <1>6, <1>7, <2>1
  <2>2. CASE Valid(q) /\ GoTo(q, "upstream") /\ UNCHANGED outcome
    BY <1>1, <1>9, <2>2 DEF Handle, GoTo, ApiTypeOK, BuiltInv
  <2> QED
    BY <1>9, <2>1, <2>2 DEF Handle
<1>10. ASSUME NEW q \in Requests, AskBags(q) \/ AskNode(q)
       PROVE  Kept
  <2>1. pc[q] = "upstream" /\ route(q) \in BuilderRoutes \cup {"claim-fees", "swap-quote"}
    BY <1>10 DEF AskBags, AskNode, BagsRoutes, BuilderRoutes, DepositRoutes
  <2>2. \E result \in {"error", "built", "submitted"} : Respond(q, result)
    BY <1>10 DEF AskBags, AskNode
  <2> QED
    BY <1>6, <1>7, <2>1, <2>2
<1>11. ASSUME NEW q \in Requests, AskRange(q)
       PROVE  Kept
  <2>1. \E result \in Verdicts \cup {"error"} :
          Respond(q, result) \/ (outcome' = [outcome EXCEPT ![q] = result] /\ GoTo(q, "upsert"))
    BY <1>11, VerdictOfRange DEF AskRange
  <2> QED
    BY <1>6, <1>7, <2>1
<1>12. ASSUME NEW q \in Requests, Upsert(q) \/ Insert(q)
       PROVE  Kept
  <2>1. outcome[q] \in Verdicts
    BY <1>12 DEF Upsert, Insert, ApiInv, ScansDone
  <2>2. \/ UNCHANGED outcome /\ pc' = [pc EXCEPT ![q] = "insert"]
        \/ Respond(q, outcome[q]) \/ Raise(q)
    BY <1>12 DEF Upsert, Insert, GoTo
  <2> QED
    BY <1>5, <1>6, <1>7, <2>1, <2>2
<1>13. ASSUME NEW q \in Requests, FindToken(q) \/ InsertToken(q) \/ LinkCreator(q)
       PROVE  Kept
  <2>1. \/ \E state \in {"insert_token", "link"} : UNCHANGED outcome /\ pc' = [pc EXCEPT ![q] = state]
        \/ \E result \in {"registered", "refused"} : Respond(q, result)
        \/ Raise(q)
    BY <1>13 DEF FindToken, InsertToken, LinkCreator, GoTo
  <2> QED
    BY <1>5, <1>6, <1>7, <2>1
<1>14. CASE (\E k \in Keys : KeyExpires(k)) \/ ScanExpires \/ UNCHANGED vars
  BY <1>4, <1>14 DEF KeyExpires, ScanExpires, vars, requests
<1>15. CASE Crash
  BY <1>15 DEF Crash, BuiltInv
<1> QED
  BY <1>8, <1>9, <1>10, <1>11, <1>12, <1>13, <1>14, <1>15 DEF Next, Step

\* What is built for a checked request: a deposit for its own pool only, and for
\* that of SOL if it is for SOL; a withdrawal for none.
LEMMA BuiltForOwn ==
  ASSUME NEW r \in Requests, call[r] \in Calls, route(r) \in BuilderRoutes, Valid(r), NEW m \in Mints
  PROVE  /\ m # MintOf(r) \/ route(r) = "relay" => ~Accepted(r, m)
         /\ m = MintOf(r) /\ m = SystemProgram /\ route(r) # "relay" => Accepted(r, m)
<1>1. CommitmentOf(r) # Invalid /\ body(r).wallet \in Wallets /\ body(r).commitment \in Seq(Nat)
  BY CallsAssumption DEF Valid, BuilderRoutes, DepositRoutes, route, body
<1>2. Len(CommitmentOf(r)) = Width
  BY <1>1, HexWidth DEF CommitmentOf
<1>3. CASE route(r) = "relay"
  <2>1. \/ Instruction(r) = _build_withdraw_ix(MintOf(r), body(r).wallet, RelayerWallet, CommitmentOf(r))
        \/ Instruction(r) = _build_withdraw_spl_ix(MintOf(r), body(r).wallet, RelayerWallet, CommitmentOf(r))
    BY <1>3 DEF Instruction, _build_withdraw_ix_for_pool
  <2> QED
    BY <1>3, <2>1, KindTells DEF Accepted
<1>4. CASE route(r) = "build"
  <2>1. Instruction(r) = _build_deposit_ix(body(r).wallet, MintOf(r), CommitmentOf(r))
    BY <1>4 DEF Instruction
  <2>2. ~AcceptsWithdraw(Instruction(r), m, body(r).wallet, CommitmentOf(r))
    BY <2>1, KindTells
  <2>3. Accepted(r, m) <=> AcceptsDeposit(Instruction(r), m)
    BY <1>4, <2>2 DEF Accepted
  <2>4. m # MintOf(r) => ~AcceptsDeposit(Instruction(r), m)
    BY <2>1, VaultTells
  <2>5. m = MintOf(r) /\ m = SystemProgram => AcceptsDeposit(Instruction(r), m)
    BY <1>1, <1>2, <2>1, SolFits
  <2> QED
    BY <1>4, <2>3, <2>4, <2>5
<1>5. CASE route(r) \in {"swap-to-deposit", "claim-to-deposit"}
  <2>1. Instruction(r) = build_deposit_ix(MintOf(r), body(r).wallet, CommitmentOf(r))
    BY <1>5 DEF Instruction
  <2>2. ~AcceptsWithdraw(Instruction(r), m, body(r).wallet, CommitmentOf(r))
    BY <2>1, KindTells
  <2>3. Accepted(r, m) <=> AcceptsDeposit(Instruction(r), m)
    BY <1>5, <2>2 DEF Accepted
  <2>4. m # MintOf(r) => ~AcceptsDeposit(Instruction(r), m)
    BY <2>1, VaultTells
  <2>5. m = MintOf(r) /\ m = SystemProgram => AcceptsDeposit(Instruction(r), m)
    BY <1>1, <1>2, <2>1, SolFits
  <2> QED
    BY <1>5, <2>3, <2>4, <2>5
<1> QED
  BY <1>3, <1>4, <1>5 DEF BuilderRoutes, DepositRoutes

\* No deposit the backend builds is taken by another pool than that of its
\* request, and one for SOL is taken; no withdrawal is taken by any pool: for
\* every mint, wallet and commitment.
THEOREM BuiltForOwnPoolHolds == Spec => []BuiltForOwnPool
<1>1. Init => BuiltInv
  BY DEF Init, BuiltInv, Built
<1>2. ApiInv /\ BuiltInv /\ [Next]_vars => BuiltInv'
  BY BuiltStep
<1>3. ApiInv /\ BuiltInv => BuiltForOwnPool
  <2> SUFFICES ASSUME ApiInv, BuiltInv, NEW r \in Requests, outcome[r] \in Built,
                      route(r) \notin {"claim-fees", "swap-quote"}, NEW m \in Mints
               PROVE  /\ m # MintOf(r) \/ route(r) = "relay" => ~Accepted(r, m)
                      /\ m = MintOf(r) /\ m = SystemProgram /\ route(r) # "relay" => Accepted(r, m)
    BY DEF BuiltForOwnPool
  <2>1. Valid(r) /\ route(r) \in BuilderRoutes /\ pc[r] # "idle"
    BY DEF BuiltInv, Built
  <2>2. call[r] \in Calls
    BY <2>1 DEF ApiInv, CallsKnown
  <2> QED
    BY <2>1, <2>2, BuiltForOwn
<1>4. ApiInv <=> ApiTypeOK /\ CallsKnown /\ ScansDone
  BY DEF ApiInv
<1> QED
  BY <1>1, <1>2, <1>3, <1>4, ApiTypeCorrect, PTL DEF Spec

-----------------------------------------------------------------------------
(***************************************************************************)
(* The middleware: what the step of a request does to its answer and to    *)
(* the record of its key.                                                  *)
(***************************************************************************)

\* Only a request that is answered has an answer; it, and what a key has a record
\* of, is the response of a request that was answered.
AnswersInv ==
  /\ \A r \in Requests : answer[r] # NoResponse =>
       pc[r] = "answered" /\ pc[answer[r]] = "answered" /\ body(answer[r]) = body(r)
  /\ \A k \in Keys : stored[k] # NoResponse => pc[stored[k]] = "answered"

\* The ways a request goes on.
Arrives(r) == /\ pc[r] = "idle" /\ pc'[r] \in {"handle", "lookup"}
              /\ pc'[r] = "handle" => key(r)' = NoKey
              /\ before'[r] = {q \in Requests : Answered(q)}
              /\ UNCHANGED <<answer, stored>>
Enters(r) == /\ pc[r] = "lookup" /\ stored[key(r)] = NoResponse
             /\ pc'[r] = "handle"
             /\ UNCHANGED <<answer, stored>>
Replayed(r) == /\ pc[r] = "lookup" /\ key(r) \in Keys
               /\ stored[key(r)] # NoResponse /\ body(stored[key(r)]) = body(r)
               /\ pc'[r] = "answered" /\ answer'[r] = stored[key(r)]
               /\ UNCHANGED stored
Fails(r) == pc[r] # "idle" /\ pc'[r] = "answered" /\ UNCHANGED <<answer, stored>>
RunsOn(r) == pc[r] \in InHandler /\ pc'[r] \in InHandler /\ UNCHANGED <<answer, stored>>
Unkeyed(r) == /\ pc[r] \in InHandler /\ key(r) = NoKey
              /\ pc'[r] = "answered" /\ answer'[r] = r
              /\ UNCHANGED stored
Stores(r) == /\ pc[r] = "store" /\ key(r) \in Keys
             /\ pc'[r] = "answered" /\ answer'[r] = r
             /\ stored' = [stored EXCEPT ![key(r)] = IF @ = NoResponse THEN r ELSE @]

\* A step of a request changes no other, and none that was answered.
LEMMA RequestStep ==
  ASSUME ApiInv, NEW r \in Requests, Step(r)
  PROVE  /\ life' = life /\ pc[r] # "answered" /\ pc'[r] # "idle"
         /\ \A q \in Requests \ {r} :
              pc'[q] = pc[q] /\ call'[q] = call[q] /\ answer'[q] = answer[q] /\ before'[q] = before[q]
         /\ pc[r] # "idle" => call' = call /\ before' = before
         /\ \/ Arrives(r) \/ Enters(r) \/ Replayed(r) \/ Fails(r)
            \/ RunsOn(r) \/ Unkeyed(r) \/ Stores(r)
<1> USE DEF ApiInv
<1>1. /\ pc \in [Requests -> {"idle", "answered", "lost"} \cup Running]
      /\ call \in [Requests -> Calls \cup {NoCall}]
      /\ answer \in [Requests -> Requests \cup {NoResponse}]
      /\ before \in [Requests -> SUBSET Requests]
  BY DEF ApiTypeOK
<1>2. ASSUME pc[r] \in InHandler \ {"store"}, UNCHANGED <<life, call, before, stored>>,
             \/ \E result : Respond(r, result)
             \/ Raise(r)
             \/ /\ UNCHANGED answer
                /\ \E state \in InHandler : GoTo(r, state)
      PROVE  /\ life' = life /\ pc[r] # "answered" /\ pc'[r] # "idle"
             /\ \A q \in Requests \ {r} : pc'[q] = pc[q] /\ answer'[q] = answer[q]
             /\ Fails(r) \/ RunsOn(r) \/ Unkeyed(r)
  BY <1>1, <1>2 DEF Respond, Raise, GoTo, InHandler, Fails, RunsOn, Unkeyed
<1>3. CASE Receive(r)
  <2>1. PICK c \in Calls : /\ call' = [call EXCEPT ![r] = c]
                           /\ GoTo(r, IF c.key = NoKey THEN "handle" ELSE "lookup")
    BY <1>3 DEF Receive
  <2>2. key(r)' = c.key
    BY <1>1, <2>1 DEF key
  <2>3. pc[r] = "idle" /\ pc' = [pc EXCEPT ![r] = IF c.key = NoKey THEN "handle" ELSE "lookup"]
    BY <1>3, <2>1 DEF Receive, GoTo
  <2>4. /\ before' = [before EXCEPT ![r] = {q \in Requests : Answered(q)}]
        /\ UNCHANGED <<answer, stored, life>>
    BY <1>3 DEF Receive
  <2> QED
    BY <1>1, <2>1, <2>2, <2>3, <2>4 DEF Arrives
<1>4. CASE Lookup(r)
  <2>1. pc[r] = "lookup" /\ key(r) \in Keys /\ UNCHANGED <<call, before, stored, life>>
    BY <1>4 DEF Lookup, CallsKnown
  <2>2. CASE stored[key(r)] = NoResponse /\ GoTo(r, "handle") /\ UNCHANGED answer
    BY <1>1, <2>1, <2>2 DEF GoTo, Enters
  <2>3. CASE /\ stored[key(r)] # NoResponse /\ body(stored[key(r)]) = body(r)
             /\ GoTo(r, "answered")
             /\ answer' = [answer EXCEPT ![r] = stored[key(r)]]
    BY <1>1, <2>1, <2>3 DEF GoTo, Replayed
  <2>4. CASE GoTo(r, "answered") /\ UNCHANGED answer
    BY <1>1, <2>1, <2>4 DEF GoTo, Fails
  <2> QED
    BY <1>4, <2>2, <2>3, <2>4 DEF Lookup
<1>5. CASE Store(r)
  <2>1. /\ pc[r] = "store" /\ key(r) \in Keys /\ UNCHANGED <<call, before, life>>
        /\ pc' = [pc EXCEPT ![r] = "answered"]
    BY <1>5 DEF Store, CallsKnown, GoTo
  <2>2. \/ /\ stored' = [stored EXCEPT ![key(r)] = IF @ = NoResponse THEN r ELSE @]
           /\ answer' = [answer EXCEPT ![r] = r]
        \/ UNCHANGED <<stored, answer>>
    BY <1>5 DEF Store
  <2> QED
    BY <1>1, <2>1, <2>2 DEF Stores, Fails
<1>6. CASE Handle(r) \/ AskBags(r) \/ AskNode(r) \/ AskRange(r) \/ Upsert(r) \/ Insert(r)
           \/ FindToken(r) \/ InsertToken(r) \/ LinkCreator(r)
  <2>1. pc[r] \in InHandler \ {"store"} /\ UNCHANGED <<life, call, before, stored>>
    BY <1>6 DEF Handle, AskBags, AskNode, AskRange, Upsert, Insert, FindToken, InsertToken,
                LinkCreator, InHandler
  <2>2. \/ \E result : Respond(r, result)
        \/ Raise(r)
        \/ UNCHANGED answer /\ \E state \in InHandler : GoTo(r, state)
    <3>1. {"upstream", "upsert", "insert", "insert_token", "link"} \subseteq InHandler
      BY DEF InHandler
    <3> QED
      BY <1>6, <3>1 DEF Handle, AskBags, AskNode, AskRange, Upsert, Insert, FindToken, InsertToken,
                        LinkCreator
  <2>3. pc[r] # "idle"
    BY <2>1 DEF InHandler
  <2> QED
    BY <1>2, <2>1, <2>2, <2>3
<1> QED
  BY <1>3, <1>4, <1>5, <1>6 DEF Step

\* The steps that no request takes.
LEMMA QuietStep ==
  ASSUME ApiInv, [Next]_vars, ~ \E r \in Requests : Step(r)
  PROVE  /\ UNCHANGED <<call, answer, before>>
         /\ \A r \in Requests : \/ pc'[r] = pc[r]
                                \/ pc[r] \in Running /\ pc'[r] = "lost"
         /\ \/ UNCHANGED stored /\ \A k \in Keys : life'[k] \in {life[k], life[k] + 1}
            \/ \E k \in Keys : /\ stored' = [stored EXCEPT ![k] = NoResponse]
                               /\ life' = [life EXCEPT ![k] = @ + 1]
<1>1. CASE UNCHANGED vars
  BY <1>1 DEF vars, requests
<1>2. CASE \E k \in Keys : KeyExpires(k)
  BY <1>2 DEF KeyExpires, requests
<1>3. CASE ScanExpires
  <2>1. life' = [life EXCEPT !["scans"] = @ + 1] /\ life \in [Keys \cup {"scans"} -> 0..MaxExpiries]
    BY <1>3 DEF ScanExpires, ApiInv, ApiTypeOK
  <2> QED
    BY <1>3, <2>1 DEF ScanExpires, requests
<1>4. CASE Crash
  BY <1>4 DEF Crash
<1> QED
  BY <1>1, <1>2, <1>3, <1>4 DEF Next

LEMMA AnswersStep ==
  ASSUME ApiInv, AnswersInv, [Next]_vars
  PROVE  /\ AnswersInv'
         /\ \A r \in Requests : pc[r] = "answered" => pc'[r] = "answered" /\ answer'[r] = answer[r]
<1>1. ASSUME NEW r \in Requests, pc[r] = "answered"
      PROVE  pc'[r] = "answered" /\ call'[r] = call[r] /\ answer'[r] = answer[r]
  <2>1. call'[r] = call[r]
    BY <1>1, CallsStay DEF ApiInv
  <2>2. CASE \E q \in Requests : Step(q)
    BY <1>1, <2>1, <2>2, RequestStep
  <2>3. CASE ~ \E q \in Requests : Step(q)
    BY <1>1, <2>1, <2>3, QuietStep DEF Running, InHandler
  <2> QED
    BY <2>2, <2>3
<1>2. /\ answer \in [Requests -> Requests \cup {NoResponse}]
      /\ stored \in [Keys -> Requests \cup {NoResponse}]
  BY DEF ApiInv, ApiTypeOK
<1>3. ASSUME NEW r \in Requests, answer[r] # NoResponse
      PROVE  /\ pc'[r] = "answered" /\ answer'[r] = answer[r]
             /\ pc'[answer[r]] = "answered" /\ call'[answer[r]].body = call'[r].body
  <2>1. /\ pc[r] = "answered" /\ pc[answer[r]] = "answered" /\ body(answer[r]) = body(r)
        /\ answer[r] \in Requests
    BY <1>2, <1>3 DEF AnswersInv
  <2> QED
    BY <1>1, <2>1 DEF body
<1>4. ASSUME NEW k \in Keys, stored[k] # NoResponse
      PROVE  pc'[stored[k]] = "answered"
  BY <1>1, <1>2, <1>4 DEF AnswersInv
<1>5. ASSUME NEW r \in Requests, Step(r)
      PROVE  AnswersInv'
  <2>1. /\ \A q \in Requests \ {r} : answer'[q] = answer[q]
        /\ pc[r] # "answered" /\ answer[r] = NoResponse
        /\ pc[r] # "idle" => call' = call
    BY <1>5, RequestStep DEF AnswersInv
  <2>2. \A q \in Requests \ {r} : answer'[q] # NoResponse =>
          pc'[q] = "answered" /\ pc'[answer'[q]] = "answered" /\ call'[answer'[q]].body = call'[q].body
    BY <1>3, <2>1
  <2>3. \/ answer'[r] = NoResponse
        \/ /\ pc'[r] = "answered" /\ pc'[answer'[r]] = "answered"
           /\ call'[answer'[r]].body = call'[r].body
    <3>1. CASE Replayed(r)
      <4>1. call' = call /\ pc[r] = "lookup"
        BY <2>1, <3>1 DEF Replayed
      <4> QED
        BY <1>4, <3>1, <4>1 DEF Replayed, body
    <3>2. CASE ~Replayed(r)
      BY <1>5, <2>1, <3>2, RequestStep DEF Arrives, Enters, Fails, RunsOn, Unkeyed, Stores
    <3> QED
      BY <3>1, <3>2
  <2>4. ASSUME NEW k \in Keys, stored'[k] # NoResponse
        PROVE  pc'[stored'[k]] = "answered"
    <3>1. stored'[k] = stored[k] \/ (stored'[k] = r /\ pc'[r] = "answered")
      BY <1>2, <1>5, RequestStep DEF Arrives, Enters, Fails, RunsOn, Unkeyed, Stores, Replayed
    <3> QED
      BY <1>4, <2>4, <3>1
  <2> QED
    BY <2>2, <2>3, <2>4 DEF AnswersInv, body
<1>6. CASE ~ \E r \in Requests : Step(r)
  <2>1. UNCHANGED <<call, answer>> /\ \A k \in Keys : stored'[k] \in {stored[k], NoResponse}
    BY <1>2, <1>6, QuietStep
  <2>2. \A k \in Keys : stored'[k] # NoResponse => pc'[stored'[k]] = "answered"
    BY <1>4, <2>1
  <2>3. \A r \in Requests : answer'[r] # NoResponse =>
          pc'[r] = "answered" /\ pc'[answer'[r]] = "answered" /\ call'[answer'[r]].body = call'[r].body
    BY <1>3, <2>1
  <2> QED
    BY <1>1, <2>2, <2>3 DEF AnswersInv, body
<1> QED
  BY <1>1, <1>5, <1>6

LEMMA AnswersHold == Spec => [](ApiInv /\ AnswersInv)
<1>1. Init => AnswersInv
  BY DEF Init, AnswersInv
<1>2. ApiInv /\ AnswersInv /\ [Next]_vars => AnswersInv'
  BY AnswersStep
<1>3. ApiInv <=> ApiTypeOK /\ CallsKnown /\ ScansDone
  BY DEF ApiInv
<1> QED
  BY <1>1, <1>2, <1>3, ApiTypeCorrect, PTL DEF Spec

\* What is part of a small set is small.
LEMMA PartSmall ==
  ASSUME NEW S, IsFiniteSet(S), NEW n \in Nat, Cardinality(S) <= n, NEW T \in SUBSET S
  PROVE  IsFiniteSet(T) /\ Cardinality(T) <= n
BY FS_Subset, FS_CardinalityType

LEMMA OneMoreSmall ==
  ASSUME NEW S, IsFiniteSet(S), NEW n \in Nat, Cardinality(S) <= n, NEW x, NEW T \in SUBSET (S \cup {x})
  PROVE  IsFiniteSet(T) /\ Cardinality(T) <= n + 1
<1>1. Cardinality(S) \in Nat
  BY FS_CardinalityType
<1>2. IsFiniteSet(S \cup {x}) /\ Cardinality(S \cup {x}) \in {Cardinality(S), Cardinality(S) + 1}
  BY FS_AddElement
<1>3. n + 1 \in Nat /\ Cardinality(S \cup {x}) <= n + 1
  BY <1>1, <1>2
<1> QED
  BY <1>2, <1>3, PartSmall

\* One if the key has a record.
Recorded(k) == IF stored[k] = NoResponse THEN 0 ELSE 1

\* A key has been given as many responses as it had records.
ReplaysInv ==
  \A k \in Keys : IsFiniteSet(Replays(k)) /\ Cardinality(Replays(k)) <= life[k] + Recorded(k)

LEMMA LifeGrows ==
  ASSUME ApiInv, [Next]_vars, NEW k \in Keys
  PROVE  /\ life[k] \in Nat /\ life'[k] \in Nat /\ life'[k] >= life[k]
         /\ Recorded(k) \in {0, 1} /\ Recorded(k)' \in {0, 1}
         /\ life'[k] + Recorded(k)' >= life[k] + Recorded(k)
<1>1. /\ life \in [Keys \cup {"scans"} -> 0..MaxExpiries] /\ MaxExpiries \in Nat
      /\ stored \in [Keys -> Requests \cup {NoResponse}]
      /\ Recorded(k) \in {0, 1} /\ Recorded(k)' \in {0, 1}
  BY ExpiriesAssumption DEF ApiInv, ApiTypeOK, Recorded
<1>2. CASE \E r \in Requests : Step(r)
  <2>1. PICK r \in Requests : Step(r)
    BY <1>2
  <2>2. life' = life /\ (stored[k] # NoResponse => stored'[k] # NoResponse)
    BY <1>1, <2>1, RequestStep
       DEF Arrives, Enters, Fails, RunsOn, Unkeyed, Stores, Replayed
  <2> QED
    BY <1>1, <2>2 DEF Recorded
<1>3. CASE ~ \E r \in Requests : Step(r)
  <2>1. CASE UNCHANGED stored /\ \A l \in Keys : life'[l] \in {life[l], life[l] + 1}
    BY <1>1, <2>1 DEF Recorded
  <2>2. ASSUME NEW l \in Keys, stored' = [stored EXCEPT ![l] = NoResponse],
               life' = [life EXCEPT ![l] = @ + 1]
        PROVE  life'[k] >= life[k] /\ life'[k] \in Nat /\ life'[k] + Recorded(k)' >= life[k] + Recorded(k)
    BY <1>1, <2>2 DEF Recorded
  <2> QED
    BY <1>1, <1>3, <2>1, <2>2, QuietStep
<1> QED
  BY <1>2, <1>3

LEMMA ReplaysStep ==
  ASSUME ApiInv, AnswersInv, ReplaysInv, [Next]_vars
  PROVE  ReplaysInv'
<1> SUFFICES ASSUME NEW k \in Keys
             PROVE  /\ IsFiniteSet(Replays(k)')
                    /\ Cardinality(Replays(k)') <= life'[k] + Recorded(k)'
  BY DEF ReplaysInv
<1> DEFINE Sent == {q \in Requests : pc[q] = "answered" /\ key(q) = k
                                     /\ answer[q] \notin {q, NoResponse}}
<1>1. /\ IsFiniteSet(Replays(k)) /\ Cardinality(Replays(k)) <= life[k] + Recorded(k)
      /\ life[k] + Recorded(k) \in Nat /\ life'[k] + Recorded(k)' \in Nat
      /\ life'[k] + Recorded(k)' >= life[k] + Recorded(k)
  BY LifeGrows DEF ReplaysInv
<1>2. ASSUME Replays(k)' \subseteq Replays(k)
      PROVE  IsFiniteSet(Replays(k)') /\ Cardinality(Replays(k)') <= life'[k] + Recorded(k)'
  <2>1. Cardinality(Replays(k)) <= life'[k] + Recorded(k)'
    BY <1>1, FS_CardinalityType
  <2> QED
    BY <1>1, <1>2, <2>1, PartSmall
<1>3. /\ answer \in [Requests -> Requests \cup {NoResponse}]
      /\ stored \in [Keys -> Requests \cup {NoResponse}]
  BY DEF ApiInv, ApiTypeOK
<1>4. /\ \A x \in Replays(k)' : \/ \E q \in Sent' : x = answer'[q]
                                \/ x = stored'[k] /\ x # NoResponse
      /\ \A q \in Sent : answer[q] \in Replays(k)
      /\ stored[k] # NoResponse => stored[k] \in Replays(k)
  BY DEF Replays
<1> HIDE DEF Sent
<1>5. \A q \in Sent' : q \in Requests /\ pc'[q] = "answered" /\ key(q)' = k /\ answer'[q] \notin {q, NoResponse}
  BY DEF Sent
<1>6. ASSUME NEW q \in Requests, pc[q] = "answered", call'[q] = call[q], answer'[q] = answer[q], q \in Sent'
      PROVE  answer'[q] \in Replays(k)
  <2>1. q \in Sent
    BY <1>5, <1>6 DEF Sent, key
  <2> QED
    BY <1>4, <1>6, <2>1
<1>7. ASSUME NEW r \in Requests, Step(r)
      PROVE  IsFiniteSet(Replays(k)') /\ Cardinality(Replays(k)') <= life'[k] + Recorded(k)'
  <2>1. /\ pc[r] # "answered" /\ answer[r] = NoResponse
        /\ \A q \in Requests \ {r} : pc'[q] = pc[q] /\ call'[q] = call[q] /\ answer'[q] = answer[q]
        /\ pc[r] # "idle" => call' = call
    BY <1>7, RequestStep DEF AnswersInv
  <2>2. ASSUME NEW q \in Sent', q # r
        PROVE  answer'[q] \in Replays(k)
    BY <1>5, <1>6, <2>1, <2>2
  <2>3. ASSUME r \in Sent'
        PROVE  answer'[r] \in Replays(k)
    <3>1. Replayed(r)
      BY <1>3, <1>5, <1>7, <2>1, <2>3, RequestStep
         DEF Arrives, Enters, Fails, RunsOn, Unkeyed, Stores, Replayed
    <3>2. key(r) = k
      BY <1>5, <2>1, <2>3, <3>1 DEF Replayed, key
    <3> QED
      BY <1>4, <3>1, <3>2 DEF Replayed
  <2>4. CASE Stores(r) /\ key(r) = k /\ stored[k] = NoResponse
    <3>1. stored'[k] = r /\ Recorded(k)' = 1 /\ Recorded(k) = 0 /\ life' = life
      BY <1>3, <1>7, <2>4, RequestStep, ResponseAssumption DEF Stores, Recorded
    <3>2. Replays(k)' \subseteq Replays(k) \cup {r}
      BY <1>4, <2>2, <2>3, <3>1
    <3>3. IsFiniteSet(Replays(k)') /\ Cardinality(Replays(k)') <= (life[k] + Recorded(k)) + 1
      <4> DEFINE bound == life[k] + Recorded(k)
      <4> HIDE DEF bound
      <4>1. /\ IsFiniteSet(Replays(k)) /\ Cardinality(Replays(k)) <= bound /\ bound \in Nat
        BY <1>1 DEF bound
      <4>2. IsFiniteSet(Replays(k)') /\ Cardinality(Replays(k)') <= bound + 1
        BY <3>2, <4>1, OneMoreSmall
      <4> QED
        BY <4>2 DEF bound
    <3>4. life[k] \in Nat
      BY LifeGrows
    <3>5. (life[k] + Recorded(k)) + 1 = life'[k] + Recorded(k)'
      BY <3>1, <3>4
    <3> QED
      BY <3>3, <3>5
  <2>5. CASE ~(Stores(r) /\ key(r) = k /\ stored[k] = NoResponse)
    <3>1. stored'[k] = stored[k]
      BY <1>3, <1>7, <2>5, RequestStep DEF Arrives, Enters, Fails, RunsOn, Unkeyed, Stores, Replayed
    <3> QED
      BY <1>2, <1>4, <2>2, <2>3, <3>1
  <2> QED
    BY <2>4, <2>5
<1>8. CASE ~ \E r \in Requests : Step(r)
  <2>1. /\ UNCHANGED <<call, answer>> /\ stored'[k] \in {stored[k], NoResponse}
        /\ \A q \in Requests : pc'[q] = "answered" => pc[q] = "answered"
    BY <1>3, <1>8, QuietStep
  <2>2. Replays(k)' \subseteq Replays(k)
    BY <1>4, <1>5, <1>6, <2>1
  <2> QED
    BY <1>2, <2>2
<1> QED
  BY <1>7, <1>8

\* A key has one response in the life of its record, one to the same body.
THEOREM ReplaysAgreeHolds == Spec => []ReplaysAgree
<1>1. Init => ReplaysInv
  <2> SUFFICES ASSUME Init, NEW k \in Keys
               PROVE  /\ IsFiniteSet(Replays(k))
                      /\ Cardinality(Replays(k)) <= life[k] + Recorded(k)
    BY DEF ReplaysInv
  <2>1. Replays(k) = {} /\ life[k] = 0 /\ Recorded(k) = 0
    BY DEF Init, Replays, Recorded
  <2> QED
    BY <2>1, FS_EmptySet
<1>2. ApiInv /\ AnswersInv /\ ReplaysInv /\ [Next]_vars => ReplaysInv'
  BY ReplaysStep
<1>3. ApiInv /\ AnswersInv /\ ReplaysInv => ReplaysAgree
  <2> SUFFICES ASSUME ApiInv, AnswersInv, ReplaysInv, NEW k \in Keys
               PROVE  Cardinality(Replays(k)) <= 1 + life[k]
    BY DEF ReplaysAgree, AnswersInv
  <2>1. life[k] \in Nat /\ Recorded(k) \in {0, 1}
    BY ExpiriesAssumption DEF ApiInv, ApiTypeOK, Recorded
  <2>2. Cardinality(Replays(k)) \in Nat /\ Cardinality(Replays(k)) <= life[k] + Recorded(k)
    BY FS_CardinalityType DEF ReplaysInv
  <2> QED
    BY <2>1, <2>2
<1> QED
  BY <1>1, <1>2, <1>3, AnswersHold, PTL DEF Spec

\* Requests of which each was answered before the other came, or the other
\* before it.
Chain(R) == \A q, r \in R : q = r \/ q \in before[r] \/ r \in before[q]

\* Requests of the key whose own response they were sent.
Done(k) == {r \in Requests : answer[r] = r /\ key(r) = k}

\* What a request found answered when it came is answered; one after another, no
\* more requests were sent their own response than the key had records, and one
\* more may run.
OverlapInv ==
  /\ \A r \in Requests : \A q \in before[r] : pc[q] = "answered"
  /\ \A k \in Keys : \A R \in SUBSET Done(k) : Chain(R) =>
       IsFiniteSet(R) /\ Cardinality(R) <= life[k] + Recorded(k)
  /\ \A k \in Keys : \A R \in SUBSET Ran(k) : Chain(R) =>
       IsFiniteSet(R) /\ Cardinality(R) <= life[k] + 1

LEMMA BeforeStep ==
  ASSUME ApiInv, AnswersInv, OverlapInv, [Next]_vars, NEW r \in Requests, NEW q \in before'[r]
  PROVE  pc'[q] = "answered"
<1>1. before \in [Requests -> SUBSET Requests]
  BY DEF ApiInv, ApiTypeOK
<1>2. \A p \in Requests : pc[p] = "answered" => pc'[p] = "answered"
  BY AnswersStep
<1>3. q \in before[r] => pc'[q] = "answered"
  BY <1>1, <1>2 DEF OverlapInv
<1>4. CASE \E p \in Requests : Step(p)
  <2>1. PICK p \in Requests : Step(p)
    BY <1>4
  <2>2. CASE p # r \/ pc[r] # "idle"
    BY <1>3, <2>1, <2>2, RequestStep
  <2>3. CASE p = r /\ pc[r] = "idle"
    <3>1. Arrives(r)
      BY <2>1, <2>3, RequestStep
         DEF Enters, Replayed, Fails, RunsOn, Unkeyed, Stores, InHandler
    <3> QED
      BY <1>2, <3>1 DEF Arrives, Answered
  <2> QED
    BY <2>2, <2>3
<1>5. CASE ~ \E p \in Requests : Step(p)
  BY <1>3, <1>5, QuietStep
<1> QED
  BY <1>4, <1>5

\* A chain of requests that had arrived was one before.
LEMMA ChainsStay ==
  ASSUME ApiInv, [Next]_vars, NEW R \in SUBSET Requests, \A r \in R : pc[r] # "idle", Chain(R)'
  PROVE  Chain(R)
<1>1. ASSUME NEW r \in R
      PROVE  before'[r] = before[r]
  <2>1. CASE \E p \in Requests : Step(p)
    BY <2>1, RequestStep
  <2>2. CASE ~ \E p \in Requests : Step(p)
    BY <2>2, QuietStep
  <2> QED
    BY <2>1, <2>2
<1> QED
  BY <1>1 DEF Chain

\* A request that enters its handler adds itself, and one that stores its
\* response is done.
LEMMA RanStep ==
  ASSUME ApiInv, AnswersInv, [Next]_vars, NEW k \in Keys, NEW q \in Ran(k)'
  PROVE  /\ q \in Requests /\ key(q) = k /\ pc'[q] # "idle"
         /\ q \in Ran(k) \/ (Step(q) /\ Enters(q) /\ q \notin Done(k)')
<1>1. q \in Requests /\ key(q)' = k /\ (pc'[q] \in InHandler \/ answer'[q] = q)
  BY DEF Ran
<1>2. pc[q] # "idle" => key(q) = k
  BY <1>1, CallsStay DEF key, ApiInv
<1>3. q # NoResponse /\ k # NoKey
  BY <1>1, ResponseAssumption, KeysAssumption
<1>4. pc[q] = "idle" => answer[q] = NoResponse
  BY <1>1 DEF AnswersInv
<1>5. ASSUME NEW p \in Requests, Step(p), p # q
      PROVE  pc[q] # "idle" /\ pc'[q] # "idle" /\ q \in Ran(k)
  <2>1. pc'[q] = pc[q] /\ answer'[q] = answer[q]
    BY <1>1, <1>5, RequestStep
  <2>2. pc[q] # "idle"
    BY <1>1, <1>3, <1>4, <2>1 DEF InHandler
  <2> QED
    BY <1>1, <1>2, <2>1, <2>2 DEF Ran
<1>6. CASE Step(q)
  <2>1. /\ Arrives(q) \/ Enters(q) \/ Replayed(q) \/ Fails(q) \/ RunsOn(q) \/ Unkeyed(q) \/ Stores(q)
        /\ pc'[q] # "idle" /\ pc[q] # "answered" /\ answer[q] = NoResponse
    BY <1>1, <1>6, RequestStep DEF AnswersInv
  <2>2. ~Arrives(q) /\ ~Fails(q) /\ ~Unkeyed(q) /\ pc[q] # "idle"
    BY <1>1, <1>2, <1>3, <2>1
       DEF Arrives, Enters, Replayed, Fails, RunsOn, Unkeyed, Stores, InHandler
  <2>3. ~Replayed(q)
    BY <1>1, <2>1 DEF Replayed, AnswersInv, InHandler
  <2>4. CASE RunsOn(q) \/ Stores(q)
    <3>1. pc[q] \in InHandler
      BY <2>4 DEF RunsOn, Stores, InHandler
    <3> QED
      BY <1>1, <1>2, <2>1, <2>2, <3>1 DEF Ran
  <2>5. CASE Enters(q)
    BY <1>1, <1>2, <1>3, <1>6, <2>1, <2>2, <2>5 DEF Enters, Done
  <2> QED
    BY <2>1, <2>2, <2>3, <2>4, <2>5
<1>7. CASE ~ \E p \in Requests : Step(p)
  <2>1. answer'[q] = answer[q] /\ (pc'[q] = pc[q] \/ (pc'[q] = "lost" /\ pc[q] # "idle"))
    BY <1>1, <1>7, QuietStep DEF Running, InHandler
  <2>2. pc[q] # "idle" /\ pc'[q] # "idle"
    BY <1>1, <1>3, <1>4, <2>1 DEF InHandler
  <2> QED
    BY <1>1, <1>2, <2>1, <2>2 DEF Ran, InHandler
<1> QED
  BY <1>1, <1>2, <1>5, <1>6, <1>7

LEMMA DoneRan ==
  ASSUME NEW k
  PROVE  Done(k) \subseteq Ran(k) /\ Ran(k) \subseteq Requests
BY DEF Done, Ran

\* The chains of done requests: a response that is stored is one more, and so is
\* one that lost the race for the record, among those that ran.
LEMMA DoneChains ==
  ASSUME ApiInv, AnswersInv, OverlapInv, [Next]_vars,
         NEW k \in Keys, NEW R \in SUBSET Done(k)', Chain(R)'
  PROVE  IsFiniteSet(R) /\ Cardinality(R) <= life'[k] + Recorded(k)'
<1> DEFINE bound == life'[k] + Recorded(k)'
<1>1. /\ bound \in Nat /\ life[k] \in Nat /\ life[k] + Recorded(k) \in Nat
      /\ bound >= life[k] + Recorded(k)
  BY LifeGrows
<1>2. R \subseteq Ran(k)' /\ R \subseteq Requests
  BY DEF Done, Ran
<1>3. R \subseteq Ran(k) /\ \A r \in R : pc[r] # "idle"
  <2> SUFFICES ASSUME NEW r \in R PROVE r \in Ran(k) /\ pc[r] # "idle"
    OBVIOUS
  <2>1. r \in Ran(k)
    BY <1>2, RanStep
  <2> QED
    BY <2>1, ResponseAssumption DEF Ran, InHandler, AnswersInv
<1>4. Chain(R)
  BY <1>2, <1>3, ChainsStay
<1>5. CASE R \subseteq Done(k)
  <2>1. IsFiniteSet(R) /\ Cardinality(R) <= life[k] + Recorded(k)
    BY <1>4, <1>5 DEF OverlapInv
  <2>2. Cardinality(R) \in Nat
    BY <2>1, FS_CardinalityType
  <2> QED
    BY <1>1, <2>1, <2>2
<1>6. CASE ~(R \subseteq Done(k))
  <2>1. PICK r \in R : r \notin Done(k)
    BY <1>6
  <2>2. r \in Requests /\ key(r) = k /\ answer'[r] = r /\ answer[r] # r /\ pc[r] # "idle"
    BY <1>2, <1>3, <2>1, RanStep DEF Done
  <2>3. Step(r) /\ Stores(r)
    <3>1. Step(r)
      <4>1. CASE \E p \in Requests : Step(p)
        BY <2>2, <4>1, RequestStep
      <4>2. CASE ~ \E p \in Requests : Step(p)
        BY <2>2, <4>2, QuietStep
      <4> QED
        BY <4>1, <4>2
    <3>2. ~Replayed(r)
      BY <2>2 DEF Replayed, AnswersInv
    <3> QED
      BY <2>2, <3>1, <3>2, RequestStep, KeysAssumption
         DEF Arrives, Enters, Fails, RunsOn, Unkeyed
  <2>4. Recorded(k)' = 1 /\ life' = life
    <3>1. stored'[k] # NoResponse
      BY <2>2, <2>3, ResponseAssumption DEF Stores, ApiInv, ApiTypeOK
    <3> QED
      BY <2>2, <2>3, <3>1, RequestStep DEF Recorded
  <2> QED
    BY <1>3, <1>4, <2>4 DEF OverlapInv
<1> QED
  BY <1>5, <1>6

\* The chains of requests that ran: the others of the one that enters its handler
\* are done, and the key has no record.
LEMMA RanChains ==
  ASSUME ApiInv, AnswersInv, OverlapInv, [Next]_vars,
         NEW k \in Keys, NEW R \in SUBSET Ran(k)', Chain(R)'
  PROVE  IsFiniteSet(R) /\ Cardinality(R) <= life'[k] + 1
<1>1. life'[k] \in Nat /\ life[k] \in Nat /\ life'[k] >= life[k]
  BY LifeGrows
<1>2. R \subseteq Requests
  BY DEF Ran
<1>3. \A r \in R : pc[r] # "idle"
  <2> SUFFICES ASSUME NEW r \in R PROVE pc[r] # "idle"
    OBVIOUS
  <2>1. r \in Ran(k) \/ Enters(r)
    BY RanStep
  <2> QED
    BY <1>2, <2>1, ResponseAssumption DEF Ran, InHandler, AnswersInv, Enters
<1>4. Chain(R)
  BY <1>2, <1>3, ChainsStay
<1>5. CASE R \subseteq Ran(k)
  <2>1. IsFiniteSet(R) /\ Cardinality(R) <= life[k] + 1
    BY <1>4, <1>5 DEF OverlapInv
  <2>2. Cardinality(R) \in Nat
    BY <2>1, FS_CardinalityType
  <2> QED
    BY <1>1, <2>1, <2>2
<1>6. CASE ~(R \subseteq Ran(k))
  <2>1. PICK r \in R : r \notin Ran(k)
    BY <1>6
  <2>2. r \in Requests /\ key(r) = k /\ Step(r) /\ Enters(r)
    BY <2>1, RanStep
  <2>3. ASSUME NEW q \in R \ {r}
        PROVE  q \in Done(k)
    <3>1. q \in before[r] \/ r \in before[q]
      BY <1>4, <2>1, <2>3 DEF Chain
    <3>2. pc[q] = "answered"
      BY <1>2, <2>2, <3>1, <2>3 DEF OverlapInv, Enters
    <3>3. q \in Ran(k)
      BY <2>3, <3>2, RanStep DEF Enters
    <3> QED
      BY <3>2, <3>3 DEF Ran, Done, InHandler
  <2>4. Chain(R \ {r})
    BY <1>4 DEF Chain
  <2>5. IsFiniteSet(R \ {r}) /\ Cardinality(R \ {r}) <= life[k]
    <3>1. Recorded(k) = 0
      BY <2>2 DEF Enters, Recorded
    <3>2. IsFiniteSet(R \ {r}) /\ Cardinality(R \ {r}) <= life[k] + Recorded(k)
      BY <2>3, <2>4 DEF OverlapInv
    <3> QED
      BY <1>1, <3>1, <3>2
  <2>6. life' = life
    BY <2>2, RequestStep
  <2>7. R \in SUBSET ((R \ {r}) \cup {r})
    OBVIOUS
  <2> QED
    BY <1>1, <2>5, <2>6, <2>7, OneMoreSmall
<1> QED
  BY <1>5, <1>6

LEMMA OverlapHolds == Spec => [](ApiInv /\ AnswersInv /\ OverlapInv)
<1>1. Init => OverlapInv
  <2> SUFFICES ASSUME Init PROVE OverlapInv
    OBVIOUS
  <2>1. ASSUME NEW k \in Keys
        PROVE  Done(k) = {} /\ Ran(k) = {} /\ life[k] = 0 /\ Recorded(k) = 0
    BY <2>1, ResponseAssumption DEF Init, Done, Ran, Recorded, InHandler
  <2>2. \A r \in Requests : before[r] = {}
    BY DEF Init
  <2> QED
    BY <2>1, <2>2, FS_EmptySet DEF OverlapInv
<1>2. ApiInv /\ AnswersInv /\ OverlapInv /\ [Next]_vars => OverlapInv'
  <2> SUFFICES ASSUME ApiInv, AnswersInv, OverlapInv, [Next]_vars
               PROVE  OverlapInv'
    OBVIOUS
  <2> QED
    BY BeforeStep, DoneChains, RanChains DEF OverlapInv
<1> QED
  BY <1>1, <1>2, AnswersHold, PTL DEF Spec

\* No handler runs under a key for a request that came after another was sent its
\* response, unless the record expired.
THEOREM RunsOverlapHolds == Spec => []RunsOverlap
<1>1. ApiInv /\ OverlapInv => RunsOverlap
  <2> SUFFICES ASSUME ApiInv, OverlapInv, NEW k \in Keys, NEW R \in SUBSET Ran(k),
                      \A q, r \in R : q = r \/ q \in before[r] \/ r \in before[q]
               PROVE  Cardinality(R) <= 1 + life[k]
    BY DEF RunsOverlap
  <2>1. life[k] \in Nat
    BY ExpiriesAssumption DEF ApiInv, ApiTypeOK
  <2>2. IsFiniteSet(R) /\ Cardinality(R) <= life[k] + 1
    BY DEF OverlapInv, Chain
  <2> QED
    BY <2>1, <2>2, FS_CardinalityType
<1> QED
  BY <1>1, OverlapHolds, PTL

-----------------------------------------------------------------------------
(***************************************************************************)
(* The cache of scans.  A row is first if no row of its address precedes   *)
(* it; that is the one that is read and updated.                           *)
(***************************************************************************)

First(a, i) == i \in RowsOf(a) /\ \A j \in RowsOf(a) : i <= j

Early == {"idle", "lookup", "handle", "upstream"}

\* A scan that was written, and may be sent to its client.
Written(r) == pc[r] \in {"store", "answered"} /\ outcome[r] \in Verdicts

\* A request is stamped once, before its scan is written.
StampsInv ==
  /\ \A r \in Requests : pc[r] \in Early =>
       outcome[r] \notin Verdicts /\ \A j \in DOMAIN scanned : scanned[j] # r
  /\ \A r \in Requests : pc[r] \in {"upsert", "insert"} => \E j \in DOMAIN scanned : scanned[j] = r
  /\ \A i \in DOMAIN risk_scans : \E j \in DOMAIN scanned : scanned[j] = risk_scans[i]
  /\ \A i, j \in DOMAIN scanned : scanned[i] = scanned[j] => i = j

\* The ways a request passes the cache.
Passes(r) == /\ UNCHANGED <<risk_scans, scanned>>
             /\ Written(r)' => Written(r)
             /\ pc'[r] # "upsert"
             /\ pc'[r] = "insert" => pc[r] = "upsert" /\ RowsOf(body(r).wallet) = {}
             /\ pc'[r] \in Early => pc[r] \in Early /\ outcome'[r] = outcome[r]
Stamps(r) == /\ pc[r] = "upstream" /\ pc'[r] = "upsert"
             /\ scanned' = Append(scanned, r) /\ UNCHANGED risk_scans
Updates(r) == /\ pc[r] = "upsert" /\ pc'[r] \in {"store", "answered"}
              /\ \E i \in DOMAIN risk_scans : /\ First(body(r).wallet, i)
                                             /\ risk_scans' = [risk_scans EXCEPT ![i] = r]
              /\ UNCHANGED scanned
Inserts(r) == /\ pc[r] = "insert" /\ pc'[r] \in {"store", "answered"}
              /\ risk_scans' = Append(risk_scans, r)
              /\ UNCHANGED scanned

LEMMA FirstRowFirst ==
  ASSUME ApiInv, NEW a, RowsOf(a) # {}
  PROVE  First(a, FirstRow(a)) /\ FirstRow(a) \in DOMAIN risk_scans
<1>1. RowsOf(a) \in SUBSET Nat /\ RowsOf(a) \subseteq DOMAIN risk_scans
  BY DEF RowsOf, ApiInv, ApiTypeOK
<1>2. \E i \in RowsOf(a) : \A j \in RowsOf(a) : i <= j
  BY <1>1, LeastNatural
<1> QED
  BY <1>1, <1>2 DEF First, FirstRow

\* There is one first row.
LEMMA FirstRowOnly ==
  ASSUME ApiInv, NEW a, NEW i, First(a, i)
  PROVE  FirstRow(a) = i
<1>1. RowsOf(a) # {} /\ RowsOf(a) \in SUBSET Nat
  BY DEF First, RowsOf, ApiInv, ApiTypeOK
<1>2. First(a, FirstRow(a))
  BY <1>1, FirstRowFirst
<1> QED
  BY <1>1, <1>2 DEF First

LEMMA ScanStep ==
  ASSUME ApiInv, StampsInv, NEW r \in Requests, Step(r)
  PROVE  /\ \A q \in Requests \ {r} : outcome'[q] = outcome[q]
         /\ Passes(r) \/ Stamps(r) \/ Updates(r) \/ Inserts(r)
<1>1. ApiTypeOK /\ {"none", "refused", "error", "registered", "built", "submitted"} \cap Verdicts = {}
  BY DEF ApiInv, Verdicts
<1>2. /\ pc \in [Requests -> {"idle", "answered", "lost"} \cup Running]
      /\ outcome \in [Requests -> Outcomes]
      /\ {"refused", "error", "registered", "built", "submitted"} \subseteq Outcomes
      /\ Verdicts \subseteq Outcomes
  BY <1>1 DEF ApiTypeOK, Outcomes, Built
<1>3. ASSUME UNCHANGED <<risk_scans, scanned>>,
             \/ \E result \in {"refused", "error", "registered", "built", "submitted"} : Respond(r, result)
             \/ Raise(r)
      PROVE  (\A q \in Requests \ {r} : outcome'[q] = outcome[q]) /\ Passes(r)
  <2>1. \E result \in {"refused", "error", "registered", "built", "submitted"} :
          /\ pc'[r] \in {"store", "answered"} /\ outcome'[r] = result
          /\ \A q \in Requests \ {r} : outcome'[q] = outcome[q]
    BY <1>1, <1>2, <1>3, Responding
  <2> QED
    BY <1>1, <1>3, <2>1 DEF Passes, Written, Early
<1>4. ASSUME UNCHANGED <<outcome, risk_scans, scanned>>,
             \E state \in {"lookup", "handle", "upstream", "answered", "insert_token", "link"} :
               /\ pc' = [pc EXCEPT ![r] = state]
               /\ state \in Early => pc[r] \in Early
               /\ state = "answered" => pc[r] \in Early \cup {"store"}
      PROVE  Passes(r)
  BY <1>2, <1>4 DEF Passes, Written, Early, StampsInv
<1>5. CASE Receive(r) \/ Lookup(r) \/ Store(r)
  <2>1. UNCHANGED <<outcome, risk_scans, scanned>>
    BY <1>5 DEF Receive, Lookup, Store, scans
  <2>2. \E state \in {"lookup", "handle", "upstream", "answered", "insert_token", "link"} :
               /\ pc' = [pc EXCEPT ![r] = state]
               /\ state \in Early => pc[r] \in Early
               /\ state = "answered" => pc[r] \in Early \cup {"store"}
    BY <1>5 DEF Receive, Lookup, Store, GoTo, Early
  <2> QED
    BY <1>4, <2>1, <2>2
<1>6. CASE Handle(r)
  <2>1. UNCHANGED <<risk_scans, scanned>>
    BY <1>6 DEF Handle, scans
  <2>2. CASE GoTo(r, "upstream") /\ UNCHANGED <<outcome, answer>>
    BY <1>4, <1>6, <2>1, <2>2 DEF Handle, GoTo, Early
  <2> QED
    BY <1>3, <1>6, <2>1, <2>2 DEF Handle
<1>7. CASE AskBags(r) \/ AskNode(r)
  <2>1. UNCHANGED <<risk_scans, scanned>>
    BY <1>7 DEF AskBags, AskNode, scans
  <2>2. \E result \in {"built", "error", "submitted"} : Respond(r, result)
    BY <1>7 DEF AskBags, AskNode
  <2> QED
    BY <1>3, <2>1, <2>2
<1>8. CASE AskRange(r)
  <2>1. CASE Respond(r, "error") /\ UNCHANGED scanned
    BY <1>3, <1>8, <2>1 DEF AskRange
  <2>2. CASE \E raw \in RangeReplies :
               /\ outcome' = [outcome EXCEPT ![r] = from_range_response(raw)]
               /\ scanned' = Append(scanned, r) /\ GoTo(r, "upsert") /\ UNCHANGED answer
    BY <1>2, <1>8, <2>2 DEF AskRange, GoTo, Stamps
  <2> QED
    BY <1>8, <2>1, <2>2 DEF AskRange
<1>9. CASE Upsert(r)
  <2>1. pc[r] = "upsert" /\ UNCHANGED scanned /\ outcome[r] \in Outcomes
    BY <1>2, <1>9 DEF Upsert
  <2>2. CASE /\ RowsOf(body(r).wallet) # {}
             /\ risk_scans' = [risk_scans EXCEPT ![FirstRow(body(r).wallet)] = r]
             /\ Respond(r, outcome[r])
    BY <1>1, <2>1, <2>2, Responding, FirstRowFirst DEF Updates
  <2>3. CASE /\ RowsOf(body(r).wallet) = {} /\ GoTo(r, "insert")
             /\ UNCHANGED <<outcome, answer, risk_scans>>
    BY <1>2, <2>1, <2>3 DEF GoTo, Passes, Written, Early
  <2>4. CASE Raise(r) /\ UNCHANGED risk_scans
    BY <1>3, <2>1, <2>4
  <2> QED
    BY <1>9, <2>2, <2>3, <2>4 DEF Upsert
<1>10. CASE Insert(r)
  <2>1. outcome[r] \in Outcomes
    BY <1>2
  <2> QED
    BY <1>1, <1>10, <2>1, Responding DEF Insert, Inserts
<1>11. CASE FindToken(r) \/ InsertToken(r) \/ LinkCreator(r)
  <2>1. UNCHANGED <<risk_scans, scanned>>
    BY <1>11 DEF FindToken, InsertToken, LinkCreator, scans
  <2>2. \/ \E result \in {"registered", "refused"} : Respond(r, result)
        \/ Raise(r)
        \/ /\ UNCHANGED outcome
           /\ \E state \in {"insert_token", "link"} : pc' = [pc EXCEPT ![r] = state]
    BY <1>11 DEF FindToken, InsertToken, LinkCreator, GoTo
  <2>3. CASE (\E result \in {"registered", "refused"} : Respond(r, result)) \/ Raise(r)
    BY <1>3, <2>1, <2>3
  <2>4. CASE /\ UNCHANGED outcome
             /\ \E state \in {"insert_token", "link"} : pc' = [pc EXCEPT ![r] = state]
    BY <1>4, <2>1, <2>4 DEF Early
  <2> QED
    BY <2>2, <2>3, <2>4
<1> QED
  BY <1>5, <1>6, <1>7, <1>8, <1>9, <1>10, <1>11 DEF Step

\* What is left of a sequence without one of its elements.
LEMMA RemovedAt ==
  ASSUME NEW S, NEW s \in Seq(S), NEW i \in DOMAIN s
  PROVE  /\ DOMAIN RemoveAt(s, i) = 1..Len(s) - 1
         /\ \A j \in 1..Len(s) - 1 : RemoveAt(s, i)[j] = s[IF j < i THEN j ELSE j + 1]
<1> DEFINE front == SubSeq(s, 1, i - 1)
           rest == SubSeq(s, i + 1, Len(s))
<1>1. RemoveAt(s, i) = front \o rest
  BY DEF RemoveAt
<1>2. i \in Nat \ {0} /\ Len(s) \in Nat /\ i <= Len(s)
  OBVIOUS
<1>3. \A j \in 1..Len(s) : s[j] \in S
  OBVIOUS
<1>4. front \in Seq(S) /\ Len(front) = i - 1 /\ \A j \in 1..i - 1 : front[j] = s[j]
  <2>1. \A j \in 1..i - 1 : s[j] \in S
    BY <1>2, <1>3
  <2> QED
    BY <1>2, <2>1, SMT
<1>5. rest \in Seq(S) /\ Len(rest) = Len(s) - i /\ \A j \in 1..Len(s) - i : rest[j] = s[i + j]
  <2>1. \A j \in i + 1..Len(s) : s[j] \in S
    BY <1>2, <1>3
  <2> QED
    BY <1>2, <2>1, SMT
<1> HIDE DEF front, rest
<1>6. /\ DOMAIN (front \o rest) = 1..Len(front) + Len(rest)
      /\ \A j \in 1..Len(front) + Len(rest) :
           (front \o rest)[j] = IF j <= Len(front) THEN front[j] ELSE rest[j - Len(front)]
  BY <1>4, <1>5
<1>7. ASSUME NEW j \in 1..Len(s) - 1
      PROVE  (front \o rest)[j] = s[IF j < i THEN j ELSE j + 1]
  <2>1. CASE j < i
    <3>1. Len(front) = i - 1 /\ Len(rest) = Len(s) - i
      BY <1>4, <1>5
    <3>2. j \in 1..i - 1 /\ j \in 1..Len(front) + Len(rest) /\ j <= Len(front)
      <4>1. ASSUME NEW n \in Nat, NEW f, NEW r, i <= n, j \in 1..n - 1, f = i - 1, r = n - i
            PROVE  j \in 1..i - 1 /\ j \in 1..f + r /\ j <= f
        BY <1>2, <2>1, <4>1, SMT
      <4> QED
        BY <1>2, <3>1, <4>1, Zenon
    <3>3. (front \o rest)[j] = IF j <= Len(front) THEN front[j] ELSE rest[j - Len(front)]
      BY <1>6, <3>2, Zenon
    <3>4. front[j] = s[j]
      BY <1>4, <3>2, Zenon
    <3> QED
      BY <2>1, <3>2, <3>3, <3>4, Zenon
  <2>2. CASE j >= i
    <3> DEFINE k == j - Len(front)
    <3>1. Len(front) = i - 1 /\ Len(rest) = Len(s) - i
      BY <1>4, <1>5
    <3>2. /\ k \in 1..Len(s) - i /\ i + k = j + 1
          /\ j \in 1..Len(front) + Len(rest) /\ ~(j <= Len(front))
      <4>1. ASSUME NEW n \in Nat, NEW f, NEW r, i <= n, j \in 1..n - 1, f = i - 1, r = n - i
            PROVE  /\ j - f \in 1..n - i /\ i + (j - f) = j + 1
                   /\ j \in 1..f + r /\ ~(j <= f)
        BY <1>2, <2>2, <4>1, SMT
      <4> QED
        BY <1>2, <3>1, <4>1, Zenon
    <3>3. (front \o rest)[j] = rest[k]
      <4>1. (front \o rest)[j] = IF j <= Len(front) THEN front[j] ELSE rest[j - Len(front)]
        BY <1>6, <3>2, Zenon
      <4> QED
        BY <3>2, <4>1, Zenon
    <3>4. rest[k] = s[j + 1]
      <4> HIDE DEF k
      <4> QED
        BY <1>5, <3>2
    <3> QED
      BY <1>2, <2>2, <3>3, <3>4
  <2>3. j < i \/ j >= i
    BY <1>2
  <2> QED
    BY <2>1, <2>2, <2>3, Zenon
<1>8. DOMAIN (front \o rest) = 1..Len(s) - 1
  <2>1. Len(front) + Len(rest) = Len(s) - 1
    <3>1. Len(front) = i - 1 /\ Len(rest) = Len(s) - i
      BY <1>4, <1>5, Zenon
    <3> QED
      BY <1>2, <3>1
  <2> QED
    BY <1>6, <2>1, Zenon
<1> QED
  BY <1>1, <1>7, <1>8, Zenon

\* The row that expires is the oldest; the others move up.
Expires(i) ==
  /\ i \in DOMAIN risk_scans /\ life'["scans"] = life["scans"] + 1
  /\ \A j \in DOMAIN risk_scans \ {i} : Older(risk_scans[i], risk_scans[j])
  /\ DOMAIN risk_scans' = 1..Len(risk_scans) - 1
  /\ \A j \in DOMAIN risk_scans' : risk_scans'[j] = risk_scans[IF j < i THEN j ELSE j + 1]

LEMMA ScanQuietStep ==
  ASSUME ApiInv, [Next]_vars, ~ \E r \in Requests : Step(r)
  PROVE  /\ UNCHANGED <<scanned, outcome>>
         /\ life["scans"] \in Nat /\ life'["scans"] \in Nat /\ life'["scans"] >= life["scans"]
         /\ UNCHANGED risk_scans \/ \E i \in DOMAIN risk_scans : Expires(i)
<1>1. /\ life \in [Keys \cup {"scans"} -> 0..MaxExpiries] /\ MaxExpiries \in Nat
      /\ risk_scans \in Seq(Requests)
  BY ExpiriesAssumption DEF ApiInv, ApiTypeOK
<1>2. CASE UNCHANGED vars \/ Crash
  BY <1>1, <1>2 DEF vars, requests, scans, Crash
<1>3. CASE \E k \in Keys : KeyExpires(k)
  BY <1>1, <1>3 DEF KeyExpires, requests, scans
<1>4. CASE ScanExpires
  <2>1. /\ UNCHANGED <<scanned, outcome>> /\ life' = [life EXCEPT !["scans"] = @ + 1]
        /\ \E i \in DOMAIN risk_scans :
             /\ \A j \in DOMAIN risk_scans \ {i} : Older(risk_scans[i], risk_scans[j])
             /\ risk_scans' = RemoveAt(risk_scans, i)
    BY <1>4 DEF ScanExpires, requests
  <2>2. life'["scans"] = life["scans"] + 1
    BY <1>1, <2>1
  <2>3. \E i \in DOMAIN risk_scans : Expires(i)
    BY <1>1, <2>1, <2>2, RemovedAt DEF Expires
  <2> QED
    BY <1>1, <2>1, <2>2, <2>3
<1> QED
  BY <1>2, <1>3, <1>4 DEF Next

\* Any step of the cache.
LEMMA CacheStep ==
  ASSUME ApiInv, StampsInv, [Next]_vars
  PROVE  /\ scanned' = scanned \/ \E r \in Requests : scanned' = Append(scanned, r)
         /\ life["scans"] \in Nat /\ life'["scans"] \in Nat /\ life'["scans"] >= life["scans"]
<1>1. life["scans"] \in Nat
  BY ExpiriesAssumption DEF ApiInv, ApiTypeOK
<1>2. CASE \E r \in Requests : Step(r)
  BY <1>1, <1>2, ScanStep, RequestStep DEF Passes, Stamps, Updates, Inserts
<1>3. CASE ~ \E r \in Requests : Step(r)
  BY <1>3, ScanQuietStep
<1> QED
  BY <1>1, <1>2, <1>3

LEMMA OlderStays ==
  ASSUME ApiInv, StampsInv, [Next]_vars, NEW s, NEW t, Older(s, t)
  PROVE  Older(s, t)'
<1>1. scanned \in Seq(Requests)
  BY DEF ApiInv, ApiTypeOK
<1>2. PICK i \in DOMAIN scanned, j \in DOMAIN scanned : i < j /\ scanned[i] = s /\ scanned[j] = t
  BY DEF Older
<1>3. /\ i \in DOMAIN scanned' /\ j \in DOMAIN scanned'
      /\ scanned'[i] = scanned[i] /\ scanned'[j] = scanned[j]
  BY <1>1, CacheStep
<1> QED
  BY <1>2, <1>3 DEF Older

\* What a request asks, and found answered, stays when it has arrived.
LEMMA BodyStays ==
  ASSUME ApiInv, [Next]_vars, NEW r \in Requests, pc[r] # "idle"
  PROVE  pc'[r] # "idle" /\ call'[r] = call[r] /\ before'[r] = before[r]
<1>1. call'[r] = call[r] /\ pc'[r] # "idle"
  BY CallsStay DEF ApiInv
<1>2. CASE \E p \in Requests : Step(p)
  BY <1>1, <1>2, RequestStep
<1>3. CASE ~ \E p \in Requests : Step(p)
  BY <1>1, <1>3, QuietStep
<1> QED
  BY <1>2, <1>3

LEMMA StampsStep ==
  ASSUME ApiInv, StampsInv, [Next]_vars
  PROVE  StampsInv'
<1>1. /\ scanned \in Seq(Requests) /\ risk_scans \in Seq(Requests)
      /\ pc \in [Requests -> {"idle", "answered", "lost"} \cup Running]
  BY DEF ApiInv, ApiTypeOK
<1>2. ASSUME NEW r \in Requests, Step(r), Passes(r) \/ Updates(r) \/ Inserts(r)
      PROVE  StampsInv'
  <2>1. /\ \A q \in Requests \ {r} : pc'[q] = pc[q] /\ outcome'[q] = outcome[q]
        /\ UNCHANGED scanned
    BY <1>2, RequestStep, ScanStep DEF Passes, Updates, Inserts
  <2>2. /\ pc'[r] \in Early => pc[r] \in Early /\ outcome'[r] = outcome[r]
        /\ pc'[r] \in {"upsert", "insert"} => pc[r] = "upsert"
    BY <1>2 DEF Passes, Updates, Inserts, Early
  <2>3. ASSUME NEW i \in DOMAIN risk_scans'
        PROVE  \E j \in DOMAIN scanned : scanned[j] = risk_scans'[i]
    <3>1. CASE Passes(r)
      BY <3>1 DEF Passes, StampsInv
    <3>2. CASE Updates(r)
      BY <1>1, <3>2 DEF Updates, StampsInv
    <3>3. CASE Inserts(r)
      BY <1>1, <3>3 DEF Inserts, StampsInv
    <3> QED
      BY <1>2, <3>1, <3>2, <3>3
  <2> QED
    BY <2>1, <2>2, <2>3 DEF StampsInv
<1>3. ASSUME NEW r \in Requests, Step(r), Stamps(r)
      PROVE  StampsInv'
  <2>1. /\ \A q \in Requests \ {r} : pc'[q] = pc[q] /\ outcome'[q] = outcome[q]
        /\ pc[r] = "upstream" /\ pc'[r] = "upsert" /\ scanned' = Append(scanned, r)
        /\ UNCHANGED risk_scans
    BY <1>3, RequestStep, ScanStep DEF Stamps
  <2>2. /\ DOMAIN scanned' = 1..Len(scanned) + 1 /\ scanned'[Len(scanned) + 1] = r
        /\ DOMAIN scanned = 1..Len(scanned) /\ Len(scanned) \in Nat
        /\ \A j \in DOMAIN scanned : j \in DOMAIN scanned' /\ scanned'[j] = scanned[j]
    BY <1>1, <2>1
  <2>3. \A j \in DOMAIN scanned : scanned[j] # r
    BY <2>1 DEF StampsInv, Early
  <2>4. \A q \in Requests : pc'[q] \in Early =>
          outcome'[q] \notin Verdicts /\ \A j \in DOMAIN scanned' : scanned'[j] # q
    BY <2>1, <2>2 DEF StampsInv, Early
  <2>5. \A q \in Requests : pc'[q] \in {"upsert", "insert"} => \E j \in DOMAIN scanned' : scanned'[j] = q
    BY <2>1, <2>2 DEF StampsInv
  <2>6. \A i \in DOMAIN risk_scans' : \E j \in DOMAIN scanned' : scanned'[j] = risk_scans'[i]
    BY <2>1, <2>2 DEF StampsInv
  <2>7. \A i, j \in DOMAIN scanned' : scanned'[i] = scanned'[j] => i = j
    BY <2>1, <2>2, <2>3 DEF StampsInv
  <2> QED
    BY <2>4, <2>5, <2>6, <2>7 DEF StampsInv
<1>4. CASE ~ \E r \in Requests : Step(r)
  <2>1. /\ UNCHANGED <<scanned, outcome>>
        /\ \A r \in Requests : pc'[r] = pc[r] \/ pc'[r] = "lost"
    BY <1>4, ScanQuietStep, QuietStep
  <2>2. \A i \in DOMAIN risk_scans' : \E j \in DOMAIN risk_scans : risk_scans'[i] = risk_scans[j]
    <3>1. ASSUME NEW i \in DOMAIN risk_scans, Expires(i), NEW j \in DOMAIN risk_scans'
          PROVE  (IF j < i THEN j ELSE j + 1) \in DOMAIN risk_scans
      BY <1>1, <3>1 DEF Expires
    <3> QED
      BY <1>4, <3>1, ScanQuietStep DEF Expires
  <2> QED
    BY <2>1, <2>2 DEF StampsInv, Early
<1> QED
  BY <1>2, <1>3, <1>4, ScanStep

\* Rows are of requests that have arrived.
LEMMA RowsKnown ==
  ASSUME ApiInv, NEW i \in DOMAIN risk_scans
  PROVE  risk_scans[i] \in Requests /\ pc[risk_scans[i]] \in Settled /\ pc[risk_scans[i]] # "idle"
BY DEF ApiInv, ApiTypeOK, ScansDone, Settled

\* A row that a step leaves where it was, or moves, is of the same address.
LEMMA RowMoves ==
  ASSUME ApiInv, [Next]_vars, NEW a, NEW i \in DOMAIN risk_scans', NEW j \in DOMAIN risk_scans,
         risk_scans'[i] = risk_scans[j]
  PROVE  i \in RowsOf(a)' <=> j \in RowsOf(a)
<1>1. call'[risk_scans[j]] = call[risk_scans[j]]
  BY RowsKnown, BodyStays
<1>2. i \in RowsOf(a)' <=> call'[risk_scans'[i]].body.wallet = a
  BY DEF RowsOf, body
<1> QED
  BY <1>1, <1>2 DEF RowsOf, body

LEMMA WriterRow ==
  ASSUME ApiInv, [Next]_vars, NEW r \in Requests, pc[r] # "idle",
         NEW a, NEW i \in DOMAIN risk_scans', risk_scans'[i] = r
  PROVE  i \in RowsOf(a)' <=> body(r).wallet = a
<1>1. call'[r] = call[r]
  BY BodyStays
<1>2. i \in RowsOf(a)' <=> call'[risk_scans'[i]].body.wallet = a
  BY DEF RowsOf, body
<1> QED
  BY <1>1, <1>2 DEF body

\* Where a row comes from.
LEMMA RowAfter ==
  ASSUME ApiInv, StampsInv, [Next]_vars, NEW a, NEW i \in RowsOf(a)'
  PROVE  \/ \E p \in Requests : pc[p] \in {"upsert", "insert"} /\ risk_scans'[i] = p
         \/ \E j \in RowsOf(a) : risk_scans'[i] = risk_scans[j]
<1>1. risk_scans \in Seq(Requests) /\ i \in DOMAIN risk_scans'
  BY DEF ApiInv, ApiTypeOK, RowsOf
<1>2. ASSUME NEW j \in DOMAIN risk_scans, risk_scans'[i] = risk_scans[j]
      PROVE  \E l \in RowsOf(a) : risk_scans'[i] = risk_scans[l]
  BY <1>1, <1>2, RowMoves
<1>3. \/ \E p \in Requests : pc[p] \in {"upsert", "insert"} /\ risk_scans'[i] = p
      \/ \E j \in DOMAIN risk_scans : risk_scans'[i] = risk_scans[j]
  <2>1. ASSUME NEW p \in Requests, Passes(p) \/ Stamps(p) \/ Updates(p) \/ Inserts(p)
        PROVE  \/ pc[p] \in {"upsert", "insert"} /\ risk_scans'[i] = p
               \/ \E j \in DOMAIN risk_scans : risk_scans'[i] = risk_scans[j]
    BY <1>1, <2>1 DEF Passes, Stamps, Updates, Inserts
  <2>2. ASSUME NEW e \in DOMAIN risk_scans, Expires(e)
        PROVE  \E j \in DOMAIN risk_scans : risk_scans'[i] = risk_scans[j]
    BY <1>1, <2>2 DEF Expires
  <2> QED
    BY <1>1, <2>1, <2>2, ScanStep, ScanQuietStep
<1> QED
  BY <1>2, <1>3

\* Where the first row comes from: a scan takes it, or the older first row expires.
LEMMA FirstAfter ==
  ASSUME ApiInv, StampsInv, [Next]_vars, NEW a, NEW i, First(a, i)'
  PROVE  \/ \E p \in Requests : pc[p] \in {"upsert", "insert"} /\ risk_scans'[i] = p
         \/ \E j : First(a, j) /\ risk_scans'[i] = risk_scans[j]
         \/ /\ life'["scans"] > 0
            /\ \E e, j \in RowsOf(a) : /\ First(a, e)
                                       /\ Older(risk_scans[e], risk_scans[j])
                                       /\ risk_scans'[i] = risk_scans[j]
<1> DEFINE Goal == \/ \E p \in Requests : pc[p] \in {"upsert", "insert"} /\ risk_scans'[i] = p
                   \/ \E j : First(a, j) /\ risk_scans'[i] = risk_scans[j]
                   \/ /\ life'["scans"] > 0
                      /\ \E e, j \in RowsOf(a) : /\ First(a, e)
                                                 /\ Older(risk_scans[e], risk_scans[j])
                                                 /\ risk_scans'[i] = risk_scans[j]
<1>1. /\ risk_scans \in Seq(Requests) /\ Len(risk_scans) \in Nat
      /\ DOMAIN risk_scans = 1..Len(risk_scans)
  BY DEF ApiInv, ApiTypeOK
<1>2. i \in RowsOf(a)' /\ i \in DOMAIN risk_scans' /\ \A j \in RowsOf(a)' : i <= j
  BY DEF First, RowsOf
<1>3. RowsOf(a) \subseteq DOMAIN risk_scans
  BY DEF RowsOf
<1>4. ASSUME NEW p \in Requests, Step(p), Passes(p) \/ Stamps(p) \/ Updates(p) \/ Inserts(p)
      PROVE  Goal
  <2>1. CASE pc[p] \in {"upsert", "insert"} /\ risk_scans'[i] = p
    BY <2>1
  <2>2. CASE ~(pc[p] \in {"upsert", "insert"} /\ risk_scans'[i] = p)
    <3>1. /\ i \in DOMAIN risk_scans /\ risk_scans'[i] = risk_scans[i]
          /\ \A j \in DOMAIN risk_scans : j \in DOMAIN risk_scans' /\ risk_scans'[j] \in {risk_scans[j], p}
      BY <1>1, <1>2, <1>4, <2>2 DEF Passes, Stamps, Updates, Inserts
    <3>2. i \in RowsOf(a)
      BY <1>2, <3>1, RowMoves
    <3>3. ASSUME NEW j \in RowsOf(a)
          PROVE  j \in RowsOf(a)'
      <4>1. j \in DOMAIN risk_scans /\ j \in DOMAIN risk_scans'
        BY <1>3, <3>1
      <4>2. CASE risk_scans'[j] = risk_scans[j]
        BY <4>1, <4>2, RowMoves
      <4>3. CASE risk_scans'[j] # risk_scans[j]
        <5>1. Updates(p) /\ risk_scans'[j] = p
          BY <1>1, <1>4, <4>1, <4>3 DEF Passes, Stamps, Inserts, Updates
        <5>2. pc[p] # "idle" /\ body(p).wallet = a
          <6>1. PICK f \in DOMAIN risk_scans :
                  First(body(p).wallet, f) /\ risk_scans' = [risk_scans EXCEPT ![f] = p]
            BY <5>1 DEF Updates
          <6>2. j = f
            BY <1>1, <4>1, <4>3, <6>1
          <6> QED
            BY <5>1, <6>1, <6>2 DEF First, RowsOf, Updates
        <5> QED
          BY <4>1, <5>1, <5>2, WriterRow
      <4> QED
        BY <4>2, <4>3
    <3>4. First(a, i)
      BY <1>2, <3>2, <3>3 DEF First
    <3> QED
      BY <3>1, <3>4
  <2> QED
    BY <2>1, <2>2
<1>5. ASSUME NEW e \in DOMAIN risk_scans, Expires(e), life["scans"] \in Nat
      PROVE  Goal
  <2> DEFINE old(j) == IF j < e THEN j ELSE j + 1
  <2>1. /\ DOMAIN risk_scans' = 1..Len(risk_scans) - 1
        /\ \A j \in DOMAIN risk_scans' : risk_scans'[j] = risk_scans[old(j)]
    BY <1>5 DEF Expires
  <2>2. /\ \A j \in DOMAIN risk_scans' : old(j) \in DOMAIN risk_scans \ {e}
        /\ \A j \in DOMAIN risk_scans \ {e} : \E l \in DOMAIN risk_scans' : j = old(l)
        /\ \A j, l \in DOMAIN risk_scans' : j <= l => old(j) <= old(l)
    <3>1. \A j \in DOMAIN risk_scans' : old(j) \in DOMAIN risk_scans \ {e}
      BY <1>1, <2>1
    <3>2. ASSUME NEW j \in DOMAIN risk_scans \ {e}
          PROVE  \E l \in DOMAIN risk_scans' : j = old(l)
      <4>1. CASE j < e
        BY <1>1, <2>1, <4>1
      <4>2. CASE j > e
        <5>1. j - 1 \in DOMAIN risk_scans' /\ old(j - 1) = j
          BY <1>1, <2>1, <4>2
        <5> QED
          BY <5>1
      <4> QED
        BY <1>1, <4>1, <4>2
    <3>3. \A j, l \in DOMAIN risk_scans' : j <= l => old(j) <= old(l)
      BY <1>1, <2>1
    <3> QED
      BY <3>1, <3>2, <3>3
  <2> HIDE DEF old
  <2>3. old(i) \in RowsOf(a) /\ risk_scans'[i] = risk_scans[old(i)] /\ old(i) # e
    BY <1>2, <2>1, <2>2, RowMoves
  <2>4. ASSUME NEW j \in RowsOf(a), j # e
        PROVE  old(i) <= j
    <3>1. PICK l \in DOMAIN risk_scans' : j = old(l)
      BY <1>3, <2>2, <2>4
    <3>2. l \in RowsOf(a)'
      BY <1>3, <2>1, <3>1, RowMoves
    <3> QED
      BY <1>2, <2>2, <3>1, <3>2
  <2>5. CASE e \in RowsOf(a) /\ e < old(i)
    <3>1. First(a, e)
      BY <1>1, <1>3, <2>3, <2>4, <2>5 DEF First
    <3>2. Older(risk_scans[e], risk_scans[old(i)]) /\ life'["scans"] > 0
      BY <1>3, <1>5, <2>3 DEF Expires
    <3> QED
      BY <2>3, <2>5, <3>1, <3>2
  <2>6. CASE ~(e \in RowsOf(a) /\ e < old(i))
    <3>1. First(a, old(i))
      BY <1>1, <1>3, <2>3, <2>4, <2>6 DEF First
    <3> QED
      BY <2>3, <3>1
  <2> QED
    BY <2>5, <2>6
<1>6. ASSUME UNCHANGED risk_scans
      PROVE  Goal
  <2>1. \A j \in DOMAIN risk_scans : j \in RowsOf(a)' <=> j \in RowsOf(a)
    BY <1>6, RowMoves
  <2>2. First(a, i)
    BY <1>2, <1>3, <1>6, <2>1 DEF First
  <2> QED
    BY <1>6, <2>2
<1> QED
  BY <1>4, <1>5, <1>6, ScanStep, ScanQuietStep

\* A request that is about to insert a row found none of its address; the rows
\* that others have inserted since were not answered when it came.  And so is the
\* first row, once a request has written, unless it was overtaken.
CacheInv ==
  /\ \A r \in Requests : pc[r] = "insert" =>
       \A i \in RowsOf(body(r).wallet) : risk_scans[i] \notin before[r]
  /\ \A r \in Requests : Written(r) =>
       \A i : First(body(r).wallet, i) =>
         risk_scans[i] \notin before[r] \/ Overtaken(r, risk_scans[i])

\* Who is about to write was not answered, then or now.
LEMMA WriterNotBefore ==
  ASSUME ApiInv, OverlapInv, [Next]_vars, NEW r \in Requests, pc[r] # "idle",
         NEW p \in Requests, pc[p] \in {"upsert", "insert"}
  PROVE  p \notin before'[r]
<1>1. before'[r] = before[r]
  BY BodyStays
<1>2. \A q \in before[r] : pc[q] = "answered"
  BY DEF OverlapInv
<1> QED
  BY <1>1, <1>2

LEMMA OvertakenStays ==
  ASSUME ApiInv, StampsInv, [Next]_vars, NEW r \in Requests, pc[r] # "idle",
         NEW t \in Requests, pc[t] # "idle", Overtaken(r, t)
  PROVE  Overtaken(r, t)'
<1>1. PICK s \in Requests \ before[r] : Older(s, t) /\ body(s).wallet = body(t).wallet
  BY DEF Overtaken
<1>2. Older(s, t)'
  BY <1>1, OlderStays
<1>3. pc[s] # "idle"
  BY <1>1 DEF Older, StampsInv, Early
<1>4. before'[r] = before[r] /\ call'[s] = call[s] /\ call'[t] = call[t]
  BY <1>3, BodyStays
<1>5. life'["scans"] > 0
  BY CacheStep DEF Overtaken
<1> QED
  BY <1>1, <1>2, <1>4, <1>5 DEF Overtaken, body

LEMMA OlderTransitive ==
  ASSUME ApiInv, StampsInv, NEW s, NEW t, NEW u, Older(s, t), Older(t, u)
  PROVE  Older(s, u)
<1>1. DOMAIN scanned \subseteq Nat
  BY DEF ApiInv, ApiTypeOK
<1>2. PICK i \in DOMAIN scanned, j \in DOMAIN scanned : i < j /\ scanned[i] = s /\ scanned[j] = t
  BY DEF Older
<1>3. PICK k \in DOMAIN scanned, l \in DOMAIN scanned : k < l /\ scanned[k] = t /\ scanned[l] = u
  BY DEF Older
<1>4. j = k
  BY <1>2, <1>3 DEF StampsInv
<1>5. i < l
  BY <1>1, <1>2, <1>3, <1>4
<1> QED
  BY <1>2, <1>3, <1>5 DEF Older

LEMMA InsertingStep ==
  ASSUME ApiInv, StampsInv, OverlapInv, CacheInv, [Next]_vars,
         NEW r \in Requests, pc'[r] = "insert", NEW a, a = body(r).wallet, NEW i \in RowsOf(a)'
  PROVE  risk_scans'[i] \notin before'[r]
<1>1. pc[r] # "idle" /\ (pc[r] = "insert" \/ RowsOf(a) = {})
  <2>1. CASE \E p \in Requests : Step(p)
    <3>1. PICK p \in Requests : Step(p)
      BY <2>1
    <3>2. CASE p # r
      BY <3>1, <3>2, RequestStep
    <3>3. CASE p = r
      BY <3>1, <3>3, ScanStep DEF Passes, Stamps, Updates, Inserts
    <3> QED
      BY <3>2, <3>3
  <2>2. CASE ~ \E p \in Requests : Step(p)
    BY <2>2, QuietStep
  <2> QED
    BY <2>1, <2>2
<1>2. before'[r] = before[r]
  BY <1>1, BodyStays
<1>3. ASSUME NEW j \in RowsOf(a), risk_scans'[i] = risk_scans[j]
      PROVE  risk_scans'[i] \notin before'[r]
  BY <1>1, <1>2, <1>3 DEF CacheInv
<1> QED
  BY <1>1, <1>3, RowAfter, WriterNotBefore

\* A request that writes leaves its own scan in the first row, or finds one that
\* was not answered when it came.
LEMMA WritingStep ==
  ASSUME ApiInv, StampsInv, OverlapInv, CacheInv, [Next]_vars,
         NEW r \in Requests, Step(r), Updates(r) \/ Inserts(r),
         NEW a, a = body(r).wallet, NEW i, First(a, i)'
  PROVE  risk_scans'[i] \notin before'[r]
<1>1. /\ pc[r] \in {"upsert", "insert"} /\ pc[r] # "idle" /\ i \in RowsOf(a)'
      /\ risk_scans \in Seq(Requests)
  BY DEF Updates, Inserts, First, ApiInv, ApiTypeOK
<1>2. before'[r] = before[r] /\ r \notin before'[r]
  BY <1>1, BodyStays, WriterNotBefore
<1>3. CASE Inserts(r)
  <2>1. ASSUME NEW j \in RowsOf(a), risk_scans'[i] = risk_scans[j]
        PROVE  risk_scans'[i] \notin before'[r]
    BY <1>2, <1>3, <2>1 DEF CacheInv, Inserts
  <2> QED
    BY <1>1, <2>1, RowAfter, WriterNotBefore
<1>4. CASE Updates(r)
  <2>1. PICK f \in DOMAIN risk_scans : First(a, f) /\ risk_scans' = [risk_scans EXCEPT ![f] = r]
    BY <1>4 DEF Updates
  <2>2. f \in DOMAIN risk_scans' /\ risk_scans'[f] = r
    BY <1>1, <2>1
  <2>3. f \in RowsOf(a)'
    BY <1>1, <2>2, WriterRow
  <2>4. i \in DOMAIN risk_scans /\ i <= f
    BY <1>1, <2>1, <2>3 DEF First, RowsOf
  <2>5. CASE i # f
    <3>1. risk_scans'[i] = risk_scans[i] /\ i \in DOMAIN risk_scans'
      BY <1>1, <2>1, <2>4, <2>5
    <3>2. i \in RowsOf(a)
      BY <1>1, <2>4, <3>1, RowMoves
    <3>3. f <= i
      BY <2>1, <3>2 DEF First
    <3> QED
      BY <1>1, <2>4, <2>5, <3>3
  <2> QED
    BY <1>2, <2>2, <2>5
<1> QED
  BY <1>3, <1>4

LEMMA CachedStep ==
  ASSUME ApiInv, StampsInv, OverlapInv, CacheInv, [Next]_vars,
         NEW r \in Requests, Written(r)', NEW a, a = body(r).wallet, NEW i, First(a, i)'
  PROVE  risk_scans'[i] \notin before'[r] \/ Overtaken(r, risk_scans[i])'
<1> DEFINE Fresh(t) == t \notin before'[r] \/ Overtaken(r, t)'
<1>1. pc[r] # "idle" /\ (Written(r) \/ (Step(r) /\ (Updates(r) \/ Inserts(r))))
  <2>1. CASE \E p \in Requests : Step(p)
    <3>1. PICK p \in Requests : Step(p)
      BY <2>1
    <3>2. CASE p # r
      BY <3>1, <3>2, RequestStep, ScanStep DEF Written
    <3>3. CASE p = r
      <4>1. Passes(r) \/ Stamps(r) \/ Updates(r) \/ Inserts(r)
        BY <3>1, <3>3, ScanStep
      <4> QED
        BY <3>1, <3>3, <4>1 DEF Passes, Stamps, Updates, Inserts, Written
    <3> QED
      BY <3>2, <3>3
  <2>2. CASE ~ \E p \in Requests : Step(p)
    BY <2>2, QuietStep, ScanQuietStep DEF Written
  <2> QED
    BY <2>1, <2>2
<1>2. before'[r] = before[r]
  BY <1>1, BodyStays
<1>3. CASE Step(r) /\ (Updates(r) \/ Inserts(r))
  BY <1>3, WritingStep
<1>4. CASE Written(r)
  <2>1. ASSUME NEW j, First(a, j)
        PROVE  /\ j \in DOMAIN risk_scans /\ risk_scans[j] \in Requests /\ pc[risk_scans[j]] # "idle"
               /\ body(risk_scans[j]).wallet = a
               /\ risk_scans[j] \notin before[r] \/ Overtaken(r, risk_scans[j])
    <3>1. j \in DOMAIN risk_scans /\ body(risk_scans[j]).wallet = a
      BY <2>1 DEF First, RowsOf
    <3> QED
      BY <1>4, <2>1, <3>1, RowsKnown DEF CacheInv
  <2>2. ASSUME NEW t \in Requests, pc[t] # "idle", t \notin before[r] \/ Overtaken(r, t)
        PROVE  Fresh(t)
    BY <1>1, <1>2, <2>2, OvertakenStays
  <2>3. CASE \E p \in Requests : pc[p] \in {"upsert", "insert"} /\ risk_scans'[i] = p
    BY <1>1, <2>3, WriterNotBefore
  <2>4. CASE \E j : First(a, j) /\ risk_scans'[i] = risk_scans[j]
    <3>1. PICK j : First(a, j) /\ risk_scans'[i] = risk_scans[j]
      BY <2>4
    <3>2. PICK t \in Requests : t = risk_scans[j] /\ Fresh(t)
      <4> HIDE DEF Fresh
      <4> QED
        BY <2>1, <2>2, <3>1
    <3> QED
      BY <3>1, <3>2
  <2>5. CASE /\ life'["scans"] > 0
             /\ \E e, j \in RowsOf(a) : /\ First(a, e)
                                        /\ Older(risk_scans[e], risk_scans[j])
                                        /\ risk_scans'[i] = risk_scans[j]
    <3>1. PICK e \in RowsOf(a), j \in RowsOf(a) : /\ First(a, e)
                                                  /\ Older(risk_scans[e], risk_scans[j])
                                                  /\ risk_scans'[i] = risk_scans[j]
      BY <2>5
    <3>2. PICK s \in Requests \ before[r] : Older(s, risk_scans[j]) /\ body(s).wallet = a
      BY <2>1, <3>1, OlderTransitive DEF Overtaken
    <3>3. pc[s] # "idle" /\ pc[risk_scans[j]] # "idle" /\ risk_scans[j] \in Requests
          /\ body(risk_scans[j]).wallet = a
      BY <3>1, <3>2, RowsKnown DEF Older, StampsInv, Early, RowsOf
    <3>4. PICK t \in Requests : t = risk_scans[j]
      BY <3>3
    <3>5. Older(s, t)' /\ call'[s] = call[s] /\ call'[t] = call[t]
      BY <3>2, <3>3, <3>4, OlderStays, BodyStays
    <3>6. Overtaken(r, t)'
      BY <1>2, <2>5, <3>2, <3>3, <3>4, <3>5 DEF Overtaken, body
    <3> QED
      BY <3>1, <3>4, <3>6
  <2> QED
    BY <2>3, <2>4, <2>5, FirstAfter
<1> QED
  BY <1>1, <1>3, <1>4

LEMMA CacheHolds == Spec => [](ApiInv /\ StampsInv /\ CacheInv)
<1>1. Init => StampsInv /\ CacheInv
  BY DEF Init, StampsInv, CacheInv, Written, Verdicts, RowsOf, Early
<1>2. ApiInv /\ StampsInv /\ [Next]_vars => StampsInv'
  BY StampsStep
<1>3. ApiInv /\ StampsInv /\ OverlapInv /\ CacheInv /\ [Next]_vars => CacheInv'
  <2> SUFFICES ASSUME ApiInv, StampsInv, OverlapInv, CacheInv, [Next]_vars, NEW r \in Requests
               PROVE  /\ pc'[r] = "insert" => \A i \in RowsOf(body(r).wallet)' :
                           risk_scans'[i] \notin before'[r]
                      /\ Written(r)' => \A i : First(body(r).wallet, i)' =>
                           risk_scans'[i] \notin before'[r] \/ Overtaken(r, risk_scans[i])'
    BY DEF CacheInv
  <2>1. CASE pc[r] = "idle"
    <3>1. pc'[r] \notin {"insert", "store", "answered"}
      <4>1. CASE Step(r)
        BY <2>1, <4>1, RequestStep
           DEF Arrives, Enters, Replayed, Fails, RunsOn, Unkeyed, Stores, InHandler
      <4>2. CASE \E p \in Requests \ {r} : Step(p)
        BY <2>1, <4>2, RequestStep
      <4>3. CASE ~ \E p \in Requests : Step(p)
        BY <2>1, <4>3, QuietStep DEF Running, InHandler
      <4> QED
        BY <4>1, <4>2, <4>3
    <3> QED
      BY <3>1 DEF Written
  <2>2. CASE pc[r] # "idle"
    <3>1. PICK a : a = body(r).wallet
      OBVIOUS
    <3>2. body(r).wallet' = a
      BY <2>2, <3>1, BodyStays DEF body
    <3>3. /\ RowsOf(body(r).wallet)' = RowsOf(a)'
          /\ \A i : First(body(r).wallet, i)' = First(a, i)'
      BY <3>2 DEF First, RowsOf
    <3> QED
      BY <3>1, <3>3, InsertingStep, CachedStep
  <2> QED
    BY <2>1, <2>2
<1> QED
  BY <1>1, <1>2, <1>3, OverlapHolds, PTL DEF Spec

\* The scan that is served was not superseded, unless an older one that was late
\* took its place and expired.
THEOREM CachedNotSupersededHolds == Spec => []CachedNotSuperseded
<1>1. ApiInv /\ AnswersInv /\ CacheInv => CachedNotSuperseded
  <2> SUFFICES ASSUME ApiInv, AnswersInv, CacheInv, NEW i \in DOMAIN risk_scans, NEW r \in Requests,
                      answer[r] = r, outcome[r] \in Verdicts,
                      NEW a, a = body(risk_scans[i]).wallet, body(r).wallet = a
               PROVE  Cached(a) \notin before[r] \/ Overtaken(r, Cached(a))
    BY DEF CachedNotSuperseded
  <2>1. Written(r)
    BY ResponseAssumption DEF AnswersInv, Written
  <2>2. RowsOf(a) # {}
    BY DEF RowsOf
  <2>3. First(a, FirstRow(a))
    BY <2>2, FirstRowFirst
  <2> QED
    BY <2>1, <2>3 DEF CacheInv, Cached
<1> QED
  BY <1>1, AnswersHold, CacheHolds, PTL
=============================================================================
