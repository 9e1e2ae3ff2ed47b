-------------------------------- MODULE Api --------------------------------
(***************************************************************************)
(* POST requests to the backend that keep little state of their own: the   *)
(* Idempotency-Key middleware they pass through, where it is installed,    *)
(* wallet authentication, the services behind the routes with the upstream *)
(* APIs they ask, the cache of risk scans and the registry of tokens.      *)
(*                                                                         *)
(* An action is what a request does between two awaits.  A response is     *)
(* named by the request whose handler made it.                             *)
(***************************************************************************)
EXTENDS Instructions, FiniteSets, SequencesExt

CONSTANTS
  Requests,        \* POST requests
  Keys,            \* values of the Idempotency-Key header
  NoKey,           \* a request without one, or a build without the middleware
  Calls,           \* what requests ask: [route, key, body]
  NoCall,          \* a request that was not received yet
  NoResponse,      \* an error that no handler made, and the lack of a record
  RelayerWallet,   \* the key the backend signs with
  MaxExpiries      \* bound: records of a key, and scans, that expire

ASSUME KeysAssumption == NoKey \notin Keys
ASSUME ResponseAssumption == NoResponse \notin Requests /\ NoCall \notin Calls
ASSUME ExpiriesAssumption == MaxExpiries \in Nat
ASSUME RelayerAssumption == RelayerWallet \in Wallets

\* A wallet in a request is one, after the conversions no property is about; a
\* commitment is a string of bytes of any length.
ASSUME CallsAssumption ==
  \A c \in Calls :
    /\ c.key \in Keys \cup {NoKey} /\ c.body.wallet \in Wallets
    /\ c.route = "register" => c.body.token \in Mints
    /\ c.route \in {"relay", "build", "swap-to-deposit", "claim-to-deposit"} =>
         /\ c.body.token \in Mints \cup {"SOL", "VAULT"}
         /\ c.body.commitment \in Seq(Nat)

VARIABLES
  pc,              \* the await a request is at
  call,            \* what it asks
  outcome,         \* what its handler came to
  answer,          \* whose response it was sent
  stored,          \* db.idempotency_keys: whose response a key has
  risk_scans,      \* db.risk_scans: whose scan of its address a row has
  tokens,          \* db.tokens: whose registration the row of a mint is
  creators,        \* db.creators: the mints a wallet is linked to
  scanned,         \* history: scans in the order of their scanned_at
  before,          \* history: requests that were answered before this one came
  life             \* history: records of a key, and scans, that expired

requests == <<pc, call, outcome, answer, before>>
scans == <<risk_scans, scanned>>
registry == <<tokens, creators>>
vars == <<requests, stored, scans, registry, life>>

Verdicts == {"APPROVE", "REVIEW", "BLOCK"}
Built == {"built", "submitted"}
Outcomes == {"none", "refused", "error", "registered"} \cup Verdicts \cup Built

\* Where the handler runs.
InHandler == {"handle", "upstream", "upsert", "insert", "insert_token", "link", "store"}
Running == {"lookup"} \cup InHandler

route(r) == call[r].route
key(r) == call[r].key
body(r) == call[r].body

Init ==
  /\ pc = [r \in Requests |-> "idle"]
  /\ call = [r \in Requests |-> NoCall]
  /\ outcome = [r \in Requests |-> "none"]
  /\ answer = [r \in Requests |-> NoResponse]
  /\ stored = [k \in Keys |-> NoResponse]
  /\ risk_scans = << >>
  /\ tokens = [m \in Mints |-> NoResponse]
  /\ creators = [w \in Wallets |-> {}]
  /\ scanned = << >>
  /\ before = [r \in Requests |-> {}]
  /\ life = [k \in Keys \cup {"scans"} |-> 0]

GoTo(r, state) == pc' = [pc EXCEPT ![r] = state]

Answered(q) == pc[q] = "answered"

\* A request arrives, at a time when others were answered.
Receive(r) ==
  /\ pc[r] = "idle"
  /\ \E c \in Calls : /\ call' = [call EXCEPT ![r] = c]
                      /\ GoTo(r, IF c.key = NoKey THEN "handle" ELSE "lookup")
  /\ before' = [before EXCEPT ![r] = {q \in Requests : Answered(q)}]
  /\ UNCHANGED <<outcome, answer, stored, scans, registry, life>>

\* dispatch up to call_next.  A key that was used with another body raises
\* ConflictError where no exception handler sees it, and the client gets a 500,
\* as it does when the database is down.
Lookup(r) ==
  LET response == stored[key(r)] IN
    /\ pc[r] = "lookup"
    /\ \/ response = NoResponse /\ GoTo(r, "handle") /\ UNCHANGED answer
       \/ /\ response # NoResponse /\ body(response) = body(r)
          /\ GoTo(r, "answered")
          /\ answer' = [answer EXCEPT ![r] = response]
       \/ /\ GoTo(r, "answered")
          /\ UNCHANGED answer
    /\ UNCHANGED <<call, outcome, before, stored, scans, registry, life>>

-----------------------------------------------------------------------------
(* The handlers. *)

\* The handler is done; its response goes through dispatch, or to the client.
Respond(r, result) ==
  /\ outcome' = [outcome EXCEPT ![r] = result]
  /\ IF key(r) = NoKey
       THEN GoTo(r, "answered") /\ answer' = [answer EXCEPT ![r] = r]
       ELSE GoTo(r, "store") /\ UNCHANGED answer

\* It raises what no exception handler knows, as when the database is down: a
\* 500, which nobody stores.
Raise(r) ==
  /\ outcome' = [outcome EXCEPT ![r] = "error"]
  /\ GoTo(r, "answered")
  /\ UNCHANGED answer

\* The headers of a request: who it names, who the message names, who signed
\* it, and when it was issued.
Headers == [address : Wallets, message_address : Wallets \cup {NoKey},
            signer : Wallets, issued : {"expired", "fresh", "future"}]
verify_signature(h) == h.signer = h.address
require_wallet(h) ==
  IF /\ h.message_address \in {h.address, NoKey}
     /\ h.issued = "fresh" /\ verify_signature(h)
  THEN h.address ELSE Invalid

\* A quote is given to any wallet, the rest to the wallet in the body.
BagsRoutes == {"claim-fees", "swap-quote", "swap-to-deposit", "claim-to-deposit"}
WalletRoutes == BagsRoutes \cup {"register"}
Permitted(r) ==
  route(r) \in WalletRoutes =>
    \E h \in Headers :
      require_wallet(h) \in (IF route(r) = "swap-quote" THEN Wallets ELSE {body(r).wallet})

\* The mint and the commitment of a request as its route reads them.
MintOf(r) ==
  CASE route(r) = "relay" -> _resolve_token_mint(body(r).token)
    [] route(r) = "build" -> _resolve_deposit_mint(body(r).token)
    [] OTHER              -> _decode_pubkey(body(r).token)

CommitmentOf(r) ==
  IF route(r) \in {"build", "relay"} THEN _hex_to_bytes32(body(r).commitment)
  ELSE _hex_to_bytes32_strict(body(r).commitment)

Valid(r) == route(r) \notin {"scan", "claim-fees", "swap-quote", "register"} =>
              MintOf(r) # Invalid /\ CommitmentOf(r) # Invalid

\* The dependencies and checks before the first await; any request may come
\* with headers that are refused, or to a backend that lacks a setting.
Handle(r) ==
  /\ pc[r] = "handle"
  /\ \/ Permitted(r) /\ Valid(r) /\ GoTo(r, "upstream") /\ UNCHANGED <<outcome, answer>>
     \/ Respond(r, "refused")
  /\ UNCHANGED <<call, before, stored, scans, registry, life>>

\* Where the unsigned transactions of a Bags response may be.
BagsReplies == {"unreachable", "http_error", "not_json", "scalar", "empty",
                "list", "transaction", "transactions", "data.transaction", "other"}
bags_request(reply) ==
  CASE reply \in {"unreachable", "http_error", "not_json", "scalar"} -> "raises"
    [] reply = "list" -> "data"
    [] OTHER -> reply
_extract_swap_tx_b64(raw) == raw \in {"transaction", "transactions", "data.transaction"}
_extract_unsigned_txs(raw) == raw \in {"transaction", "transactions"}

\* What a service makes of a response; fees are claimed without transactions, too.
claim_fees(raw) == TRUE
swap_quote(raw) == TRUE
build_swap_chain(raw) == _extract_swap_tx_b64(raw)
build_claim_chain(raw) == _extract_unsigned_txs(raw)

\* Responses of Range: a score, in percent or from 0 to 1, and a verdict or none.
\* A score of one percent is taken for one hundred.
RangeReplies == [score : {0, 1, 15, 20, 49, 50, 100}, verdict : Verdicts \cup {"none"}]
_coerce_score(raw) == IF raw <= 1 THEN raw * 100 ELSE raw
_verdict_from_score(score) ==
  CASE score < 20 -> "APPROVE" [] score \in 20..49 -> "REVIEW" [] OTHER -> "BLOCK"

\* Mutant: a response without a verdict keeps none.
FromRangeUnscored(raw) == raw.verdict

\* RiskScanResult.from_range_response
from_range_response(raw) ==
  IF raw.verdict \in Verdicts THEN raw.verdict
  ELSE _verdict_from_score(_coerce_score(raw.score))

\* The answer of the upstream API decides; scans are stamped when it comes.
AskBags(r) ==
  /\ pc[r] = "upstream" /\ route(r) \in BagsRoutes
  /\ \E reply \in BagsReplies :
       LET raw == bags_request(reply)
           found == CASE route(r) = "claim-fees"       -> claim_fees(raw)
                      [] route(r) = "swap-quote"       -> swap_quote(raw)
                      [] route(r) = "swap-to-deposit"  -> build_swap_chain(raw)
                      [] route(r) = "claim-to-deposit" -> build_claim_chain(raw)
       IN Respond(r, IF raw # "raises" /\ found THEN "built" ELSE "error")
  /\ UNCHANGED <<call, before, stored, scans, registry, life>>

\* Results of getLatestBlockhash, and the ones a transaction can be built with.
NodeReplies == {"raises", "no_dict", "no_value", "no_blockhash", "malformed", "blockhash"}
get_recent_blockhash(reply) ==
  IF reply \in {"malformed", "blockhash"} THEN reply ELSE "raises"

\* The RPC node: a blockhash for a transaction to sign, or what relay came to.
AskNode(r) ==
  /\ pc[r] = "upstream"
  /\ \/ /\ route(r) = "build"
        /\ \E reply \in NodeReplies :
             Respond(r, IF get_recent_blockhash(reply) = "blockhash" THEN "built" ELSE "error")
     \/ /\ route(r) = "relay"
        /\ \E result \in {"submitted", "error"} : Respond(r, result)
  /\ UNCHANGED <<call, before, stored, scans, registry, life>>

AskRange(r) ==
  /\ pc[r] = "upstream" /\ route(r) = "scan"
  /\ \/ \E raw \in RangeReplies :
          /\ outcome' = [outcome EXCEPT ![r] = from_range_response(raw)]
          /\ scanned' = Append(scanned, r)
          /\ GoTo(r, "upsert")
          /\ UNCHANGED answer
     \/ Respond(r, "error") /\ UNCHANGED scanned
  /\ UNCHANGED <<call, before, stored, risk_scans, registry, life>>

-----------------------------------------------------------------------------
(* The cache of risk scans. *)

RowsOf(address) == {i \in DOMAIN risk_scans : body(risk_scans[i]).wallet = address}
FirstRow(address) == CHOOSE i \in RowsOf(address) : \A j \in RowsOf(address) : i <= j

\* get_cached
Cached(address) == risk_scans[FirstRow(address)]

\* Mutant: every scan is a row of its own.
InsertScan(r) ==
  /\ pc[r] = "upsert"
  /\ GoTo(r, "insert")
  /\ UNCHANGED <<call, outcome, answer, before, stored, scans, registry, life>>

\* update_one with upsert: the server updates the first row of the address, or
\* finds none.
Upsert(r) ==
  /\ pc[r] = "upsert"
  /\ \/ /\ RowsOf(body(r).wallet) # {}
        /\ risk_scans' = [risk_scans EXCEPT ![FirstRow(body(r).wallet)] = r]
        /\ Respond(r, outcome[r])
     \/ /\ RowsOf(body(r).wallet) = {}
        /\ GoTo(r, "insert")
        /\ UNCHANGED <<outcome, answer, risk_scans>>
     \/ Raise(r) /\ UNCHANGED risk_scans
  /\ UNCHANGED <<call, before, stored, scanned, registry, life>>

\* The insert of the upsert.  The index on address is not unique.
Insert(r) ==
  /\ pc[r] = "insert"
  /\ risk_scans' = Append(risk_scans, r)
  /\ Respond(r, outcome[r])
  /\ UNCHANGED <<call, before, stored, scanned, registry, life>>

\* The order of scanned_at.
Older(s, t) == \E i, j \in DOMAIN scanned : i < j /\ scanned[i] = s /\ scanned[j] = t

\* The TTL index on scanned_at removes the oldest scan, in 30 days.
ScanExpires ==
  /\ life["scans"] < MaxExpiries
  /\ \E i \in DOMAIN risk_scans :
       /\ pc[risk_scans[i]] \notin Running
       /\ \A j \in DOMAIN risk_scans \ {i} : Older(risk_scans[i], risk_scans[j])
       /\ risk_scans' = RemoveAt(risk_scans, i)
  /\ life' = [life EXCEPT !["scans"] = @ + 1]
  /\ UNCHANGED <<requests, stored, scanned, registry>>

-----------------------------------------------------------------------------
(* The registry of project tokens. *)

TokenOf(r) == body(r).token

\* register up to the insert.
FindToken(r) ==
  /\ pc[r] = "upstream" /\ route(r) = "register"
  /\ \/ /\ tokens[TokenOf(r)] = NoResponse
        /\ GoTo(r, "insert_token")
        /\ UNCHANGED <<outcome, answer>>
     \/ /\ tokens[TokenOf(r)] # NoResponse
        /\ Respond(r, IF body(tokens[TokenOf(r)]).wallet = body(r).wallet
                      THEN "registered" ELSE "refused")
     \/ Raise(r)
  /\ UNCHANGED <<call, before, stored, scans, registry, life>>

\* Mutant: the index on mint is not unique; the row found is the last.
InsertAnyToken(r) ==
  /\ pc[r] = "insert_token"
  /\ \/ /\ tokens' = [tokens EXCEPT ![TokenOf(r)] = r]
        /\ GoTo(r, "link")
        /\ UNCHANGED <<outcome, answer>>
     \/ Raise(r) /\ UNCHANGED tokens
  /\ UNCHANGED <<call, before, stored, scans, creators, life>>

\* insert_one: the index on mint is unique.  The DuplicateKeyError of a lost
\* race reaches the client as a 500.
InsertToken(r) ==
  /\ pc[r] = "insert_token"
  /\ \/ /\ tokens[TokenOf(r)] = NoResponse
        /\ tokens' = [tokens EXCEPT ![TokenOf(r)] = r]
        /\ GoTo(r, "link")
        /\ UNCHANGED <<outcome, answer>>
     \/ Raise(r) /\ UNCHANGED tokens
  /\ UNCHANGED <<call, before, stored, scans, creators, life>>

\* The link to the profile of the creator, if it succeeds.
LinkCreator(r) ==
  /\ pc[r] = "link"
  /\ creators' \in {creators, [creators EXCEPT ![body(r).wallet] = @ \cup {TokenOf(r)}]}
  /\ Respond(r, "registered")
  /\ UNCHANGED <<call, before, stored, scans, tokens, life>>

-----------------------------------------------------------------------------
(* The rest of dispatch, and the life of the records. *)

\* Mutant: the last response replaces the stored one.
StoreLast(r) ==
  /\ pc[r] = "store"
  /\ stored' = [stored EXCEPT ![key(r)] = r]
  /\ answer' = [answer EXCEPT ![r] = r]
  /\ GoTo(r, "answered")
  /\ UNCHANGED <<call, outcome, before, scans, registry, life>>

\* Mutant: a response that cannot be stored is sent all the same.
StoreOrNot(r) ==
  /\ pc[r] = "store"
  /\ \/ stored' = [stored EXCEPT ![key(r)] = IF @ = NoResponse THEN r ELSE @]
     \/ UNCHANGED stored
  /\ answer' = [answer EXCEPT ![r] = r]
  /\ GoTo(r, "answered")
  /\ UNCHANGED <<call, outcome, before, scans, registry, life>>

\* insert_one: the index on key is unique.  A request that lost the race is sent
\* the response of its own handler, and one whose insert fails gets a 500.
Store(r) ==
  /\ pc[r] = "store"
  /\ \/ /\ stored' = [stored EXCEPT ![key(r)] = IF @ = NoResponse THEN r ELSE @]
        /\ answer' = [answer EXCEPT ![r] = r]
     \/ UNCHANGED <<stored, answer>>
  /\ GoTo(r, "answered")
  /\ UNCHANGED <<call, outcome, before, scans, registry, life>>

\* The TTL index removes a record after 24 hours, which no handler takes.
KeyExpires(k) ==
  /\ stored[k] # NoResponse /\ life[k] < MaxExpiries
  /\ \A r \in Requests : pc[r] \in Running => key(r) # k
  /\ stored' = [stored EXCEPT ![k] = NoResponse]
  /\ life' = [life EXCEPT ![k] = @ + 1]
  /\ UNCHANGED <<requests, scans, registry>>

Crash ==
  /\ \E r \in Requests : pc[r] \in Running
  /\ pc' = [r \in Requests |-> IF pc[r] \in Running THEN "lost" ELSE pc[r]]
  /\ UNCHANGED <<call, outcome, answer, before, stored, scans, registry, life>>

Step(r) == Receive(r) \/ Lookup(r) \/ Handle(r) \/ AskBags(r) \/ AskNode(r)
           \/ AskRange(r) \/ Upsert(r) \/ Insert(r)
           \/ FindToken(r) \/ InsertToken(r) \/ LinkCreator(r) \/ Store(r)

Next == \/ \E r \in Requests : Step(r)
        \/ \E k \in Keys : KeyExpires(k)
        \/ ScanExpires \/ Crash

Spec == Init /\ [][Next]_vars

-----------------------------------------------------------------------------
(* Every variable keeps its type; a row of risk_scans holds a verdict. *)
ApiTypeOK ==
  /\ pc \in [Requests -> {"idle", "answered", "lost"} \cup Running]
  /\ call \in [Requests -> Calls \cup {NoCall}]
  /\ outcome \in [Requests -> Outcomes]
  /\ answer \in [Requests -> Requests \cup {NoResponse}]
  /\ stored \in [Keys -> Requests \cup {NoResponse}]
  /\ risk_scans \in Seq(Requests) /\ scanned \in Seq(Requests)
  /\ \A i \in DOMAIN risk_scans : outcome[risk_scans[i]] \in Verdicts
  /\ tokens \in [Mints -> Requests \cup {NoResponse}]
  /\ creators \in [Wallets -> SUBSET Mints]
  /\ before \in [Requests -> SUBSET Requests]
  /\ life \in [Keys \cup {"scans"} -> 0..MaxExpiries]

\* Whose responses requests of the key were sent in place of their own, and
\* would be sent now.
Replays(k) ==
  {answer[r] : r \in {q \in Requests : pc[q] = "answered" /\ key(q) = k
                                       /\ answer[q] \notin {q, NoResponse}}}
    \cup ({stored[k]} \ {NoResponse})

(* In the life of its record a key has one response, whichever of the        *)
(* requests that raced for it are replayed to, and it is one to the same     *)
(* body (idempotency.py, dispatch).                                          *)
ReplaysAgree ==
  /\ \A k \in Keys : Cardinality(Replays(k)) <= 1 + life[k]
  /\ \A r \in Requests : answer[r] # NoResponse => body(answer[r]) = body(r)

\* Requests of the key whose handler runs, or made the response they were sent.
Ran(k) == {r \in Requests : /\ pc[r] \in InHandler \/ answer[r] = r
                            /\ key(r) = k}

(* Runs of the handlers under one key overlap: a request that comes after    *)
(* one of them was answered runs none, unless the record expired (dispatch). *)
RunsOverlap ==
  \A k \in Keys : \A R \in SUBSET Ran(k) :
    (\A q, r \in R : q = r \/ q \in before[r] \/ r \in before[q])
      => Cardinality(R) <= 1 + life[k]

\* An older scan of the address, which r did not find answered, may have
\* replaced a newer one and expired.
Overtaken(r, scan) ==
  /\ life["scans"] > 0
  /\ \E s \in Requests \ before[r] : Older(s, scan) /\ body(s).wallet = body(scan).wallet

(* What GET /compliance/scan/{address} returns was not superseded: no other  *)
(* scan of the address came after that one was answered, and completed, even *)
(* though two first scans may leave two rows; unless a scan that was late to *)
(* be written has taken the first row, and expired before the one in the     *)
(* second (ComplianceService.scan).                                          *)
CachedNotSuperseded ==
  \A i \in DOMAIN risk_scans : \A r \in Requests :
    LET address == body(risk_scans[i]).wallet IN
      /\ answer[r] = r /\ outcome[r] \in Verdicts
      /\ body(r).wallet = address
      => Cached(address) \notin before[r] \/ Overtaken(r, Cached(address))

(* Whoever is told that a mint is registered is the creator in its row, and  *)
(* a profile lists no mint of another, whichever registrations raced for it  *)
(* (TokenService.register).                                                  *)
RegisteredToOne ==
  /\ \A r \in Requests : outcome[r] = "registered" =>
       /\ tokens[TokenOf(r)] # NoResponse
       /\ body(tokens[TokenOf(r)]).wallet = body(r).wallet
  /\ \A w \in Wallets : \A m \in creators[w] : body(tokens[m]).wallet = w

Instruction(r) ==
  CASE route(r) = "relay" ->
         _build_withdraw_ix_for_pool(MintOf(r), body(r).wallet, RelayerWallet, CommitmentOf(r))
    [] route(r) = "build" -> _build_deposit_ix(body(r).wallet, MintOf(r), CommitmentOf(r))
    [] OTHER -> build_deposit_ix(MintOf(r), body(r).wallet, CommitmentOf(r))
Accepted(r, m) ==
  \/ AcceptsDeposit(Instruction(r), m)
  \/ AcceptsWithdraw(Instruction(r), m, body(r).wallet, CommitmentOf(r))

(* A deposit the backend builds is taken by no pool but the one of the       *)
(* request's mint, and by that one if it is the pool of SOL.  A withdrawal   *)
(* is taken by no pool, its own included: neither builder gives the place of *)
(* verifier_program a key (the builders, and the accounts of deposit,        *)
(* withdraw and withdraw_spl).                                               *)
BuiltForOwnPool ==
  \A r \in Requests :
    outcome[r] \in Built /\ route(r) \notin {"claim-fees", "swap-quote"} =>
      \A m \in Mints :
        /\ m # MintOf(r) \/ route(r) = "relay" => ~Accepted(r, m)
        /\ m = MintOf(r) /\ m = SystemProgram /\ route(r) # "relay" => Accepted(r, m)
=============================================================================
