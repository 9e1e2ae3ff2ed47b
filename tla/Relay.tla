------------------------------- MODULE Relay -------------------------------
(***************************************************************************)
(* The relay pipeline of the backend: WithdrawalService.relay and the      *)
(* TxExecutor it drives (simulate, broadcast with retry, confirm), the     *)
(* withdrawals collection in MongoDB, and as much of the Solana cluster as *)
(* they see.                                                               *)
(*                                                                         *)
(* Every request runs in a coroutine and with an executor of its own.      *)
(* An action is what one of them does between two awaits, so that requests *)
(* interleave at every database or RPC round trip.  Module Pool shows that *)
(* the program pays a nullifier once; that is all this module takes of it. *)
(***************************************************************************)
EXTENDS Naturals, FiniteSets

CONSTANTS
  Requests,            \* POST /withdrawals/relay calls, resubmissions included
  Nullifiers,          \* the nullifier hashes they name, as the program gets them
  Spellings,           \* the ways to write one in hex
  NoSignature,         \* a request the RPC node has not given a signature yet
  MaxAttempts,         \* settings.tx_retry_max_attempts
  SimulationRequired,  \* settings.tx_simulation_required
  Window,              \* how many blocks a blockhash stays valid
  MaxTip               \* bound: the height the chain reaches

ASSUME RetryAssumption == MaxAttempts \in Nat \ {0}
ASSUME ChainAssumption == Window \in Nat /\ MaxTip \in Nat

VARIABLES
  pc,              \* where a request stands: the await it is at, or its answer
  nullifier_hash,  \* payload.public_inputs.nullifier_hash, a string
  blockhash,       \* the blockhash the current payload is signed with
  attempt,         \* the broadcasts a request has made
  signature,       \* what send_transaction returned
  rows,            \* db.withdrawals
  tip,             \* the newest block
  mempool,         \* transactions the cluster has received
  paid,            \* transactions that landed and paid the recipient
  failed           \* transactions that landed with an error, for a fee

request == <<nullifier_hash, blockhash, attempt, signature>>
chain == <<tip, mempool, paid, failed>>
vars == <<pc, request, rows, chain>>

\* A nullifier hash in a request: the 32 bytes it stands for and how it is
\* written, with or without 0x, in capitals or not, with more zeros in front.
NullifierHash == [nullifier : Nullifiers, spelling : Spellings]

\* _hex_to_bytes, padded and cut to 32 bytes: what the instruction carries.
nullifier32(hash) == hash.nullifier

\* All a request's payloads differ in is the blockhash: the relayer signs the
\* same message with the same key, so equal blockhashes give equal signatures.
Signature == [nullifier : Nullifiers, blockhash : 0..MaxTip]
Payload(r) == [nullifier |-> nullifier32(nullifier_hash[r]), blockhash |-> blockhash[r]]

\* A document of db.withdrawals, under the string of the request; writer stands
\* for what makes it one of its own.
Row == [nullifier_hash : NullifierHash, tx_signature : Signature, writer : Requests]

Landed == paid \cup failed
Spent == {s.nullifier : s \in paid}
Expired(s) == s.blockhash + Window < tip

Running == {"find_row", "pick_relayer", "get_blockhash", "simulate",
            "broadcast", "refresh", "confirm", "persist"}
Answers == {"submitted", "conflict", "error"}

GoTo(r, state) == pc' = [pc EXCEPT ![r] = state]

-----------------------------------------------------------------------------

Init ==
  /\ pc = [r \in Requests |-> "idle"]
  /\ nullifier_hash \in [Requests -> NullifierHash]
  /\ blockhash = [r \in Requests |-> 0]
  /\ attempt = [r \in Requests |-> 0]
  /\ signature = [r \in Requests |-> NoSignature]
  /\ rows = {}
  /\ tip = 0
  /\ mempool = {}
  /\ paid = {}
  /\ failed = {}

Receive(r) ==
  /\ pc[r] = "idle"
  /\ GoTo(r, "find_row")
  /\ UNCHANGED <<request, rows, chain>>

\* Step 2 of relay: the double-spend guard, which looks for the string, or a
\* database that is down.
FindRow(r) ==
  /\ pc[r] = "find_row"
  /\ \/ /\ \E row \in rows : row.nullifier_hash = nullifier_hash[r]
        /\ GoTo(r, "conflict")
     \/ /\ \A row \in rows : row.nullifier_hash # nullifier_hash[r]
        /\ GoTo(r, "pick_relayer")
     \/ GoTo(r, "error")
  /\ UNCHANGED <<request, rows, chain>>

\* The configuration guards, pick_best, and steps 3 and 4: any can refuse.
PickRelayer(r) ==
  /\ pc[r] = "pick_relayer"
  /\ \E next \in {"get_blockhash", "error"} : GoTo(r, next)
  /\ UNCHANGED <<request, rows, chain>>

\* TxExecutor.send up to the signed payload.
GetBlockhash(r) ==
  /\ pc[r] = "get_blockhash"
  /\ \/ /\ blockhash' = [blockhash EXCEPT ![r] = tip]
        /\ GoTo(r, IF SimulationRequired THEN "simulate" ELSE "broadcast")
     \/ /\ GoTo(r, "error")
        /\ UNCHANGED blockhash
  /\ UNCHANGED <<nullifier_hash, attempt, signature, rows, chain>>

\* A simulation that reports an error, or that fails, ends the request.
Simulate(r) ==
  /\ pc[r] = "simulate"
  /\ \/ /\ nullifier32(nullifier_hash[r]) \notin Spent
        /\ ~Expired(Payload(r))
        /\ GoTo(r, "broadcast")
     \/ GoTo(r, "error")
  /\ UNCHANGED <<request, rows, chain>>

-----------------------------------------------------------------------------

\* One turn of _broadcast_with_retry.  The call may fail although the node has
\* passed the transaction on: HTTP 429, 502, 503 and 504 are then retried, any
\* other failure, a lost connection included, is fatal.
Accepted(r) ==
  /\ signature' = [signature EXCEPT ![r] = Payload(r)]
  /\ mempool' = mempool \cup {Payload(r)}
  /\ GoTo(r, "confirm")

MayHaveArrived(r) ==
  /\ mempool' \in {mempool, mempool \cup {Payload(r)}}
  /\ UNCHANGED signature

\* Mutant: one attempt too many.
RetryableOnceMore(r) ==
  /\ MayHaveArrived(r)
  /\ GoTo(r, IF attempt[r] < MaxAttempts THEN "refresh" ELSE "error")

Retryable(r) ==
  /\ MayHaveArrived(r)
  /\ GoTo(r, IF attempt[r] + 1 < MaxAttempts THEN "refresh" ELSE "error")

Fatal(r) ==
  /\ MayHaveArrived(r)
  /\ GoTo(r, "error")

Broadcast(r) ==
  /\ pc[r] = "broadcast"
  /\ attempt' = [attempt EXCEPT ![r] = @ + 1]
  /\ Accepted(r) \/ Retryable(r) \/ Fatal(r)
  /\ UNCHANGED <<nullifier_hash, blockhash, rows, tip, paid, failed>>

\* Between two attempts: sign again with a new blockhash, or, when that fails,
\* send the old payload once more.
Refresh(r) ==
  /\ pc[r] = "refresh"
  /\ blockhash' \in {blockhash, [blockhash EXCEPT ![r] = tip]}
  /\ GoTo(r, "broadcast")
  /\ UNCHANGED <<nullifier_hash, attempt, signature, rows, chain>>

\* Mutant: any status counts, whether the transaction failed or not.
ConfirmAnyStatus(r) ==
  /\ pc[r] = "confirm"
  /\ \/ signature[r] \in Landed /\ GoTo(r, "persist")
     \/ GoTo(r, "error")
  /\ UNCHANGED <<request, rows, chain>>

\* Mutant: a broadcast transaction is taken to have landed.
ConfirmUnseen(r) ==
  /\ pc[r] = "confirm"
  /\ GoTo(r, "persist")
  /\ UNCHANGED <<request, rows, chain>>

\* Mutant: the poll loop has no deadline.
ConfirmForever(r) ==
  /\ pc[r] = "confirm"
  /\ \/ signature[r] \in paid /\ GoTo(r, "persist")
     \/ signature[r] \in failed /\ GoTo(r, "error")
  /\ UNCHANGED <<request, rows, chain>>

\* _await_confirmation: poll until the transaction has landed.  An on-chain
\* error, a poll that fails, and the timeout all end the request.
Confirm(r) ==
  /\ pc[r] = "confirm"
  /\ \/ signature[r] \in paid /\ GoTo(r, "persist")
     \/ GoTo(r, "error")
  /\ UNCHANGED <<request, rows, chain>>

\* Mutant: the collection has no unique index.
PersistAgain(r) ==
  /\ pc[r] = "persist"
  /\ rows' = rows \cup
       {[nullifier_hash |-> nullifier_hash[r], tx_signature |-> signature[r],
         writer |-> r]}
  /\ GoTo(r, "submitted")
  /\ UNCHANGED <<request, chain>>

\* Step 7: insert the row.  The index on nullifier_hash is unique, string by
\* string; a duplicate and a failed write are logged, and the signature is returned anyway.
Persist(r) ==
  /\ pc[r] = "persist"
  /\ \/ /\ \A row \in rows : row.nullifier_hash # nullifier_hash[r]
        /\ rows' = rows \cup
             {[nullifier_hash |-> nullifier_hash[r], tx_signature |-> signature[r],
               writer |-> r]}
     \/ UNCHANGED rows
  /\ GoTo(r, "submitted")
  /\ UNCHANGED <<request, chain>>

\* The backend is killed: what its coroutines were doing is gone.
Crash ==
  /\ \E r \in Requests : pc[r] \in Running
  /\ pc' = [r \in Requests |-> IF pc[r] \in Running THEN "lost" ELSE pc[r]]
  /\ UNCHANGED <<request, rows, chain>>

-----------------------------------------------------------------------------

\* A transaction lands while its blockhash is valid, and once.  withdraw fails
\* when the PDA of the nullifier exists, and may fail anyway: the pool is paused,
\* the root has left the window.
Land(s) ==
  /\ s \in mempool \ Landed
  /\ ~Expired(s)
  /\ mempool' = mempool \ {s}
  /\ \/ /\ s.nullifier \notin Spent
        /\ paid' = paid \cup {s} /\ UNCHANGED failed
     \/ failed' = failed \cup {s} /\ UNCHANGED paid
  /\ UNCHANGED <<pc, request, rows, tip>>

Drop(s) ==
  /\ mempool' = mempool \ {s}
  /\ UNCHANGED <<pc, request, rows, tip, paid, failed>>

NewBlock ==
  /\ tip < MaxTip
  /\ tip' = tip + 1
  /\ UNCHANGED <<pc, request, rows, mempool, paid, failed>>

Step(r) ==
  \/ FindRow(r) \/ PickRelayer(r) \/ GetBlockhash(r) \/ Simulate(r)
  \/ Broadcast(r) \/ Refresh(r) \/ Confirm(r) \/ Persist(r)

Next ==
  \/ \E r \in Requests : Receive(r) \/ Step(r)
  \/ Crash
  \/ \E s \in mempool : Land(s) \/ Drop(s)
  \/ NewBlock

Spec == Init /\ [][Next]_vars

\* The event loop runs every coroutine, every RPC and database call returns or
\* times out, and the poll loop has a deadline.
FairSpec == Spec /\ \A r \in Requests : WF_vars(Step(r))

-----------------------------------------------------------------------------
(***************************************************************************)
(* Properties.                                                             *)
(***************************************************************************)

\* Every variable has its type; no request sends more than MaxAttempts times.
TypeOK ==
  /\ pc \in [Requests -> {"idle", "lost"} \cup Running \cup Answers]
  /\ nullifier_hash \in [Requests -> NullifierHash]
  /\ blockhash \in [Requests -> 0..MaxTip]
  /\ attempt \in [Requests -> 0..MaxAttempts]
  /\ signature \in [Requests -> Signature \cup {NoSignature}]
  /\ rows \subseteq Row
  /\ tip \in 0..MaxTip
  /\ mempool \subseteq Signature
  /\ paid \subseteq Signature
  /\ failed \subseteq Signature

\* The withdrawals collection never lists a withdrawal that did not happen:
\* whatever requests race for a nullifier, however often each signs and sends
\* again, a row names the transaction that paid it.  No string has two rows, and
\* the rows of one nullifier, one for each way it was written, all name the one
\* transaction.
RowsPaid ==
  /\ \A row \in rows :
       /\ row.tx_signature \in paid
       /\ row.tx_signature.nullifier = nullifier32(row.nullifier_hash)
  /\ \A row, other \in rows :
       /\ row.nullifier_hash = other.nullifier_hash => row = other
       /\ nullifier32(row.nullifier_hash) = nullifier32(other.nullifier_hash)
            => row.tx_signature = other.tx_signature

\* What a caller is told is true: "submitted" comes with the signature of the
\* transaction that paid, and a caller is told that its nullifier is spent only
\* if it is.
AnswersTrue ==
  \A r \in Requests :
    /\ pc[r] = "submitted" => signature[r] \in paid /\ signature[r] = Payload(r)
    /\ pc[r] = "conflict" => nullifier32(nullifier_hash[r]) \in Spent

\* What makes an answer true: a request waits for the transaction it sent last,
\* and writes a row only when that transaction has paid.
WaitsForOwn ==
  \A r \in Requests :
    /\ pc[r] \in {"confirm", "persist"} => signature[r] = Payload(r)
    /\ pc[r] = "persist" => signature[r] \in paid

\* A request that is about to send, or to sign again, has an attempt left.
AttemptsLeft ==
  \A r \in Requests :
    pc[r] \notin {"confirm", "persist", "lost"} \cup Answers => attempt[r] < MaxAttempts

\* The program pays a nullifier once.
PaidOnce == \A s, t \in paid : s.nullifier = t.nullifier => s = t

Inv == TypeOK /\ RowsPaid /\ AnswersTrue /\ WaitsForOwn /\ AttemptsLeft /\ PaidOnce

\* The relayer pays for at most MaxAttempts transactions of each request that
\* got to broadcasting, of which at most one per nullifier earns its cut.
FeesBounded ==
  \A n \in Nullifiers :
    LET senders == {r \in Requests : nullifier32(nullifier_hash[r]) = n /\ attempt[r] > 0} IN
      /\ Cardinality({s \in Landed : s.nullifier = n}) <= MaxAttempts * Cardinality(senders)
      /\ Cardinality({s \in paid : s.nullifier = n}) <= 1

\* Every request is answered, unless the backend is killed under it.
EveryRequestAnswered ==
  \A r \in Requests : pc[r] \in Running ~> pc[r] \in Answers \cup {"lost"}
=============================================================================
