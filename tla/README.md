# BagsVault: TLA+ models, model checks and proofs

BagsVault is a shielded pool on Solana: a wallet deposits a fixed amount of a
token together with a commitment, and later withdraws the same amount to any
address with a zero-knowledge proof that it knows one of the commitments. This
directory models the program, the circuit's path check and the backend that
relays withdrawals and registers deposits; TLC checks the models on small
instances and TLAPS proves the main theorems for every instance.

Paths in this file are relative to `src/`. The on-chain program is
`programs/bagsvault/src`, the backend `backend/app`, the circuit
`circuits/bagsvault_withdraw`.

## 1. The system

| Part | State it keeps | Operations | Interacts with |
|---|---|---|---|
| On-chain program | one `MerkleTreeState` per mint, one PDA per spent nullifier, vaults | `initialize`, `deposit_sol/spl`, `withdraw(_sol/_spl)`, `pause`, `unpause`, `rotate_authority`, `register_fee_share` | called by wallets and relayers; calls the token and system programs |
| Incremental Merkle tree (`merkle.rs`) | `filled_subtrees`, `roots`, `root_cursor`, `commitment_count` | `insert`, `root_is_known` | inside the program; its roots are public inputs of the circuit |
| Withdrawal circuit (`main.nr`) | none | proves a path from a commitment to a root | wallet proves, program verifies |
| Relay pipeline (`withdrawal_service.py`, `tx_executor.py`, `solana_rpc.py`) | `db.withdrawals` | `POST /withdrawals/relay` | MongoDB, Solana RPC, relayer key |
| Relayer registry (`relayer_service.py`) | `db.relayers` | upsert, list, stats, `pick_best` | asked by the relay |
| Deposit registry (`deposit_service.py`) | `db.commitments` | `POST /deposits`, listings | RPC, MongoDB; calls the indexer |
| Merkle indexer and worker (`merkle_indexer.py`, `indexer_worker.py`, `solana_ws.py`) | `db.merkle_roots`, worker status, one socket | `sync_now`, start and stop, polling loop, WebSocket loop | RPC, MongoDB |
| Anonymity views (`routers/anonymity.py`) | none | merkle path, current root, anonymity set | reads both caches |
| Proof service (`zk_proof_service.py`, `routers/proofs.py`) | none | commitment of a note, withdrawal proof | runs `nargo` and `bb` |
| Idempotency middleware (`middleware/idempotency.py`) | `db.idempotency_keys` | replay of stored responses | wraps every handler, but `main.py` does not install it |
| Compliance (`compliance_service.py`) | `db.risk_scans` | scan of an address, cached scan, statistics | Range API |
| Tokens (`token_service.py`) | `db.tokens`, `db.creators` | registration, listings | MongoDB |
| Deposit, swap and claim builders, Bags client | none | unsigned transactions, quotes, fee claims | RPC, Bags API |
| Wallet auth, rate limit | a bucket per client | signed headers; the limit is not installed | wraps handlers |
| Scripts, frontend | none of the above | one-off setup; UI with mocked data | |

What is hard in it:

* **Long sequences of transactions in any order.** Deposits move the root
  window under proofs made earlier; a note may have several proofs in flight;
  the admin may pause between any two; pools share the nullifier namespace.
* **Retries over an unreliable RPC node.** A broadcast that reports a failure
  may have reached the cluster. A retry is signed with a new blockhash and is
  then another transaction for the same nullifier.
* **Coroutines that interleave at every await.** Two relays of one nullifier,
  two registrations of one commitment, two syncs of the root cache: each reads,
  waits and then writes. Two requests with one idempotency key, two first scans
  of an address, two registrations of a mint do the same.
* **A stream that may break.** Notifications are lost with the connection, and
  nothing reads the account when it is made again.
* **Two languages, one layout.** The backend lists accounts, arguments and
  public inputs by position; the program and the circuit read them by position.
  It keys its rows by strings where the program has bytes, and reads an account
  whose layout it has from a comment.
* **What the circuit leaves open.** The program records nullifier hashes; which
  ones a note has is decided by constraints in a third language.
* **Partial failure.** A payout that is confirmed while the row cannot be
  written, a sync that fails inside `register`, a crash between broadcast and
  persist.

What makes the parts correct:

* *Program*: one price leaves the vault per nullifier hash, and each is good
  once over all pools; while provers name the position of their leaf, every
  deposit is paid out at most once and none is locked in; a root is accepted
  for exactly `ROOT_HISTORY_SIZE` deposits; terms do not change; a paused pool
  does not move.
* *Tree*: the root computed from the cache is the root of the whole tree; a
  path verifies for its leaf and no other value, as long as its root is in the
  window; a root determines the leaves, but for zeros at the end.
* *Relay*: the collection and the answers tell the truth; fees are bounded;
  each request is answered.
* *Deposit registry*: rows are numbered densely and name transactions that
  landed; answers match rows.
* *Indexer*: the cache lists what the decoder made of states the account had,
  newest first, and the newest is that of the present state once the pool goes
  quiet; its status tells the truth. That these are roots of the pool holds for
  the layout the decoder documents, which is not the program's.
* *Proof service*: a proof pays for the note it is made for and no other, and to
  the keys asked for where these are field elements.
* *Requests*: a key has one response; no scan that was superseded is served; a
  mint has one creator; a deposit that is built is for the pool asked for.

## 2. The modules

| Module | Models | State and actions |
|---|---|---|
| `Escrow` | what a pool promises, with no tree, proof or nullifier | `Open`, `Deposit`, `Redeem` |
| `Pool` | the program's instructions, and wallets that draw notes and make proofs | one variable per field of `MerkleTreeState`, a function of the mint; one action per instruction |
| `MCPool` | instances of `Pool` | symmetry |
| `MerkleTree` | `merkle.rs`, the root window, the loop of `main.nr` | `insert`, against a reference tree |
| `ServedPath` | the witness `get_merkle_path` serves, beside `MerkleTree` | `Register` adds a row to `db.commitments` |
| `Relay` | `relay`, `TxExecutor`, `db.withdrawals`, the cluster as they see it | one action per await of a request; `Land`, `Drop`, `NewBlock`, `Crash` |
| `DepositRegistry` | `DepositService.register`, `db.commitments` | one action per await of a call |
| `MerkleIndexer` | `sync_now`, `db.merkle_roots` | one action per await of a sync, any number of callers |
| `RootStream` | the worker over the life of the process: polling loop, or WebSocket loop with its client | one action per await of either loop; `Change`, `Disconnect`, `Start`, `Stop` |
| `Deposits` | the composition: calls of the registry run `sync_now`, beside the worker | joint actions |
| `ProofService` | the proof service, over `ServedPath` | none of its own: its responses are an operator of the request and the environment |
| `Instructions` | the instructions the backend builds, and the accounts and arguments the program takes | operators |
| `Api` | POST requests: idempotency, wallet auth, the handlers and what they ask upstream, risk scans, the token registry | one action per await of a request; `KeyExpires`, `ScanExpires`, `Crash` |
| `MCApi` | the requests for an instance of `Api` | symmetry |
| `PoolProofs`, `MerkleTreeProofs`, `RelayProofs`, `DepositsProofs`, `IndexerProofs`, `RootStreamProofs`, `ApiProofs` | theorems about `Pool`; `MerkleTree`, `ServedPath` and `ProofService`; `Relay`; `DepositRegistry` and `Deposits`; `MerkleIndexer`; `RootStream`; `Api` with `Instructions` | |
| `Induction` | lemmas on naturals, powers of two and sums over finite sets that the proofs share | |

### Pool

A Solana transaction is atomic, so an instruction is one action whose guard is
the conjunction of its account constraints and the checks of its handler.
`VerifyAndRecord` is the prelude shared by both withdrawals; `Withdraw` covers
`handler` and `handler_spl`, `Deposit` covers `handler_sol` and `handler_spl`:
they differ in who may move the vault's money, which is `VaultDebitable`.
`withdraw` decreases the vault's lamports itself, which the runtime permits only
to the account's owner. The native vault is a bare PDA address that
`deposit_sol` funds by a system transfer, so the System Program owns it.

`Prove(m, i, leaf_index, ...)` is the owner of leaf `i` making a proof. The path
and its sides lead from leaf `i` to the root; `leaf_index` is a private input of
its own, which goes into the nullifier hash and which no constraint of `main.nr`
relates to the path. The prover may give any value of `LeafIndices`, so one leaf
has as many nullifier hashes (`Hash`). A proof is its public inputs and, unseen by
the program, the leaf it is about. `NamesPosition` tells the proofs whose
`leaf_index` is the position of the leaf. The properties say what is left of the
promise: `Solvency` and `Escrow` count by nullifier hash, not by note;
`NotesRedeemable` (each note is paid once and none is locked) has `PositionsNamed`
as its hypothesis; `LockedOnlyByTwin` and `EventuallyRedeemed` have none and name
the histories in which a note can be locked: its nullifier hash was used up by a
payout for another note (`TicketUsed`), or some note of its pool was paid more
than once (`PaidTwice`), which empties the vault.

`proofs` is the set of proofs made so far: any of them may be submitted at any
time, by the relayer it names, any number of times, which covers reordering,
duplication and loss of transactions. `payouts` and `leaves` are history
variables: the program keeps only the nullifier PDAs and the tree.

Data abstraction: a root is the sequence of commitments it commits to (justified
by `MerkleTree`; a commitment of all zeros, which the program accepts and which
cannot be told from an empty leaf, is left out here and only here), a commitment
is the note it hides, a nullifier hash is the pair that is hashed. Assumed, not
modelled: the in-program verifier takes exactly what the circuit proves, and only
the owner knows a note; Poseidon does not collide; recipients and relayers have
keys below the field modulus, as the verifier takes no others (`ProofService`);
amounts stay far from 2^64; rent is paid.

### MerkleTree

`Climb` is the loop of `insert`, as a function of the number of levels done;
`zeros` and `empty_root` are the loops of `zero_values` and `empty_root`, `Walk`
and `CircuitAccepts` step 3 of `main.nr`. The hash of two nodes is the pair of
them. `Tree` is the reference: all levels of the whole tree, computed from the
leaves. The zero leaf is among `Commitments`, as `deposit` refuses no bytes: two
sequences that differ in zeros at the end fill the tree alike (`SameTree`).

### ServedPath

The endpoint replays the rows of `db.commitments` onto its own cache of left
siblings and answers with the siblings and sides of one leaf. Rows are registered
after their deposits land, in the same order and without gaps. The replay puts
the zero leaf where `merkle.rs` has the empty subtree of the level. A leaf
without a row is answered with 404, except while there are no rows at all.

### ProofService

A note is named by its Poseidon commitment, a proof by the public inputs it is
for. `Environments` are the hash library that was found, stub mode, and whether
the tools and the circuit are there; `respond` is the set of responses a request
may get, `Pays` what the program does with one: the root must be in its window
and the public inputs it computes itself those of the proof. A key is a number.
The service reduces it by the field modulus (`_bytes_to_field`), the program hands
its bytes to the verifier as they are (`pubkey_to_field`), and the verifier refuses
an input that is not below the modulus (`groth16-solana` 0.0.3, external). So a
proof asked for such a key pays nobody but the owner of the reduced one; most
32-byte keys are not below the modulus. `Pubkeys` has one key of each kind, equal
when reduced. No note is known whose commitment is zero (`Notes`).

### Relay

Each HTTP request has its own `WithdrawalService` and `TxExecutor`
(`routers/withdrawals.py:27-33`), so requests share only the database and the
chain. A payload differs from another of the same nullifier in its blockhash
only, and signing is deterministic: equal blockhashes give equal signatures,
and the cluster processes a signature once. `Broadcast` may deliver the payload
whatever the caller is told. `_classify_rpc_error` sees the text of the
exception: HTTP 429, 502, 503 and 504 are retried; lost connections and JSON-RPC
error envelopes, whose text carries no detail, are fatal. A confirmation may
time out at any moment, also for a transaction that has landed (a node that
lags, a status below the target commitment). A transaction that is processed
may fail although the nullifier is unspent: the pool may be paused by then, or
the root evicted. The update of `last_seen` of the relayer and the logging are
left out.

The guard and the unique index of `db.withdrawals` compare the string of the
request; the instruction carries its bytes (`nullifier32`: `_hex_to_bytes`, padded
and cut). A nullifier can be written with or without `0x`, in capitals, with zeros
in front: `Spellings`. Two spellings pass the guard, and the rows of both may name
the one payout, when two requests sent the same transaction; `RowsPaid` says no
more than that.

The module starts from a transaction the program can take. The account list of
`_build_withdraw_ix` is not that (see Builders in section 3): with it every
transaction fails on chain, a case among those the module has (`Land` into
`failed`). Its properties are about the pipeline, and hold for both.

### DepositRegistry, MerkleIndexer, Deposits

`landed` is the set of transactions that landed, which is all that `register`
asks of one: `get_transaction` finds it without an error
(`deposit_service.py:94-107`). What it did is not looked at. In `Deposits` a
transaction that lands is a deposit into the pool whose account is indexed
(`LandDeposit`) or something else, a transfer or a deposit into the pool of another
mint (`LandOther`); either can be registered, under any commitment. A transaction
makes at most one deposit of the indexed pool. Rows are never deleted. The node
that finds a transaction and the node that gives the account are at one height.

`sync_now` reads the account in one step and writes in another; when the program
id is not set, the account is not there or its data cannot be decoded it returns
`None`, which its callers take for a success (`NoRoot`). Stamping `indexed_at` and
inserting are one step, so that the collection is a sequence. The variable `layout`
is that of the account: `documented`, which the decoder's comments describe and its
tests build, or `program`, that of `MerkleTreeState` (`state.rs:20-48`). Of the
first `decode_state` makes the root, of the second bytes of the authority and of the
token mint, the same after every deposit. Every property and theorem but `RootsReal`
is about both; `RootsReal`, that what is cached are roots, is what `MCIndexerLayout`
refutes. Read the others accordingly: in the layout of the program the cache is
in order and current in the sense that it has one entry, and that entry is no root.

### RootStream

`mode` is chosen once: `main.py` starts the polling loop only, `run_with_ws` is
there for an operator who wants it. A message of the node is the number of
deposits of the account it carries; the answer to the subscription comes first
and carries none. `missed` is a history variable: nothing told of the pool's
last change, or what told of it was lost. What the model makes visible: the
account is not read when a connection is made, so a change that came before is
cached with the next change only; a database error ends the streaming loop for
good, while a failed tick of the polling loop is retried; a `sync_now` that
finds no account counts as a success; and `is_running` is false in the streaming
mode, whose task `start` never made.

### Instructions, Api

A key is the tuple of what it is derived from. `_build_deposit_ix` and its
siblings return accounts in the builder's order, `DepositSol`, `Withdraw` and
`WithdrawSpl` are the accounts Anchor reads, in its order; `AcceptsDeposit` and
`AcceptsWithdraw` say whether the pool of a mint would take the instruction.
An optional account has its place in the list: Anchor 0.29, which `Cargo.toml`
builds without `allow-missing-optionals`, stops with `AccountNotEnoughKeys` when
the list ends before it (`VerifierProgram`, `Fits`).
The hex conversions differ: two builders cut a long value, two refuse it.

A request is `Receive`d as any of `Calls`, with or without a key; with `NoKey`
only, the model is the backend as `main.py` builds it. Upstream APIs give any of
the replies the services tell apart (`BagsReplies`, `NodeReplies`,
`RangeReplies`). A response is named by the request whose handler made it.
MongoDB executes one operation at a time: the upsert of a scan is a search and
an insert, because the index on `address` is not unique; the inserts of keys and
tokens meet unique indexes. Records expire only when no handler that made them
runs, as 24 hours and 30 days are longer than any of them takes. A reply of
MongoDB that is lost after the operation took effect is left out.

## 3. The runs

Runs with violations are disagreements between the code and its own comments:
see the findings in `PROJECT.json`. `CHECK_DEADLOCK FALSE` is set where the
bounded system really stops: a full tree, all requests answered.

| Run | Question | Result |
|---|---|---|
| `MCPool` | one token pool, three deposits, reused nullifier values, proofs with the right `leaf_index` and with another, a relayer who is also a wallet, admin actions at any time: window, solvency, redeemability, conservation, fixed terms, pause, refinement of `Escrow`, and the inductive invariant | holds, 845 891 states |
| `MCPoolShared` | two token pools that share the nullifier namespace and get equal nullifiers, provers who choose `leaf_index`: what can lock a note, and that every other note is paid out although deposits make proofs stale | holds, the latter under fairness, 201 345 states |
| `MCPoolPosition` | is a deposit paid out once | violated: another `leaf_index` gives the same leaf a fresh nullifier hash |
| `MCPoolNative` | can a SOL note be redeemed | violated: the program does not own the vault it debits |
| `MCMerkleTree` | depth 3, all eight leaves, window of 3, so that it wraps twice: roots, stale paths, deposits of zeros among them: that a root determines the leaves, as far as zeros allow; that a served path never changes; that the proof service makes a proof that pays for the note of a leaf and no other, to keys below the modulus, exactly in the environments that can | holds, 4 097 states |
| `MCMerklePath` | are the siblings the backend serves those its comment describes | violated: zero and cached sibling are swapped |
| `MCRelay` | two requests for one nullifier or two, in one spelling or two, two attempts each, three blockhashes: rows, answers, fees, and that every request is answered | holds, the last under fairness, 1 851 040 states |
| `MCDeposits` | two calls, two commitments, two transactions that deposit into the indexed pool or do not, the worker, both layouts: rows, answers, cache | holds, 920 656 states |
| `MCDepositsRace` | is a lost race always answered from a row | violated: two different commitments race for one `merkle_index` |
| `MCRootStream` | the worker in either mode, an account in either layout, three deposits, two starts, six drops: order of the cache, status, and that the cache catches up, polling always, streaming unless nothing told of the last change or an error lost it | holds, the last two under fairness, 17 428 states |
| `MCIndexerLayout` | are cached roots roots of the pool | violated: of the program's own layout it decodes bytes of the authority |
| `MCApi` | three requests to any route, one idempotency key, upstreams that give every kind of reply, crashes and expiring records: one response per key, runs of a key overlap, scans served, registrations, instructions | holds, 2 597 171 states |

Other differences between code and comments were met on the way and are not
runs of their own.

* Program. `main.nr:46-48` says that `leaf_index` keeps a nullifier unique;
  beside what `MCPoolPosition` shows, pools share the PDA namespace, so two notes
  with equal nullifiers at equal indices of two pools have one PDA, and paying one
  locks the other, also when every prover is honest. `LockedOnlyByTwin` names both
  cases.
* Verifier. `verifier.rs:80-84` leaves it to the prover to clear the bits of a key
  above the modulus; the program then hands the verifier the bytes with these bits.
  A withdrawal to most keys, or by most relayers, is refused. `ProofsPay` has it.
* Relay. The double-spend guard "backed by the unique index"
  (`withdrawal_service.py:5-6`) compares strings, so that another spelling of a
  nullifier passes it; the program then stops the second payout. The signature is
  "still returned" after a failure past the broadcast (20-23): on a timeout and on
  an error on chain in the details of the error (`tx_executor.py:434-454`), and not
  when polling the status fails.
* Registry. `merkle_index` is the order of registration and not "Sequential
  index in the Merkle tree" (`models/commitment.py:25`): deposits that are
  registered in another order than they landed get another index than their
  leaf's.
* Indexer. When a call and the worker sync at the same time, the one that read
  first may write last; its older root then has the later `indexed_at`, and
  `get_recent_roots`, "newest first" (`merkle_indexer.py:373`), has it in front
  until the next deposit. `NewestFirst` is therefore a property of a single
  syncer.
* Builders. `withdraw.rs:181-186` says that omitting `verifier_program` preserves
  the default; Anchor 0.29 stops at the missing place, and neither builder has it.
  `_build_withdraw_spl_ix` leaves out `relayer_token_account` too, although it says
  that its order matches `WithdrawSpl` (`withdrawal_service.py:305-306`). The program
  refuses every withdrawal the backend builds. The swap and claim services build
  `deposit`, which is the alias of `deposit_sol`, for any mint; the program refuses
  it for every pool but that of SOL. `BuiltForOwnPool` is stated accordingly:
  acceptance is claimed for deposits of SOL only, and refusal of all withdrawals.
* Scripts. `initialize_pool.py` encodes a denomination and no `relayer_fee_bps`,
  which `initialize` reads after it. `build_vk.py:76` has 5 public inputs, "mirrors
  verifier_vk::NUM_PUBLIC_INPUTS", which is 6.
* Proof service. The SHA-256 fallback is used whenever no Poseidon library is
  installed, and not only in stub mode (`zk_proof_service.py:155-159`);
  `requirements.txt` lists none. A note with such a commitment can be deposited
  and never withdrawn. `ProofsPay` has this case in its environments.
* Idempotency. Of two requests that race for a key, each gets the response of its
  own handler, so the handler does run again (`idempotency.py:3-9`); method and
  path are stored and not compared (25-26); `ConflictError` is raised outside the
  exception handlers and becomes a 500; error responses are replayed too, for 24
  hours, as are transactions whose blockhash is long dead. `ReplaysAgree` and
  `RunsOverlap` say what is left of the promise. The record is written last: when
  that fails, or the process dies before, a retry runs the handler again, and
  `RunsOverlap` does not count such runs.
* Compliance. A score of one percent counts as one hundred (`_coerce_score`), and
  two first scans of an address leave two rows, both counted by the statistics.
  `CachedNotSuperseded` says that the reads are right all the same, with one
  exception, which takes four scans: two that race insert a row each; a third,
  made later, replaces the first row; a fourth, made before the scan of the second
  row but written last, replaces that again; and being the oldest it is the next
  to expire. What is
  served then is the second row, which the third scan superseded. The
  disjunct `Overtaken` names exactly this history. The run has three requests and
  cannot reach it; the proof for any number of requests needs it.
* Tokens. `register` is called idempotent (`token_service.py:58`), and the loser
  of a race for a mint gets a raw `DuplicateKeyError`, a 500. `RegisteredToOne`
  says that nobody is told something wrong; that the creator's profile lists the
  mint is not certain, as the link is a second write.
* Relayers. `upsert` promises to keep `id` and `registered_at`
  (`relayer_service.py:66-68`); two that race keep those of the second, and each
  overwrites `last_seen`. The seeding script runs one after the other.

Why the bounds are enough. A window of 2 with 3 deposits (3 with 8 in
`MerkleTree`) wraps and evicts; one size more repeats the same arithmetic, which
is proved for every size. `MaxLiveProofs` counts the proofs of a note that name
its position and have a root the pool knows: one at a time, but a new one whenever a
deposit has evicted its root, and the old one stays submittable. `MaxForeignProofs`
adds one proof of any leaf with another `leaf_index`, in any state: one is what it
takes to pay a note twice, to use up the nullifier hash of another and to empty a
vault. The proofs are for any number of both. Denomination 15 with 999 basis points
makes the fee round down (1.4985) and with 1001 tests the cap. Two wallets, one of
them the relayer, cover the aliasing of recipient and relayer. Two requests or calls
suffice for every race between two coroutines, on one nullifier or on two; two
attempts give one retry, of each kind; two spellings are equal or not. Three
blockhashes, each valid for one block more, let an attempt expire and a retry
succeed, and two requests share a transaction or not. Two transactions are two
deposits, one and another, or none.
In `MCApi`, three requests are two that race and one that comes after, which is
what replays, superseded scans and registrations need; one expiry of a key and of
a scan lets a handler run again; two bytes for a commitment give a short, an
exact and a long value. In `MCRootStream`, six drops take the backoff through its
cap, and two starts are a shutdown with one restart.

Fairness. `MCPoolShared`: weak fairness of proving (a wallet whose proof is stale
makes a new one) and strong fairness of submitting, because pauses and evictions
disable it again and again; that a pool is not paused for good is a hypothesis
of the property. `MCRelay`: weak fairness of a request's next step, as the
event loop runs every coroutine, every client call has a timeout and the poll
loop a deadline; a crash counts as an end. `MCRootStream`: the operator starts the process again, the event
loop runs the task, a connection can be made once drops are used up, the polling
loop never ends (`_tick` swallows every exception), and RPC and database do not
fail on every try for ever (strong fairness of the successful outcomes of a tick;
none is assumed of the streaming loop, which an error ends).

## 4. The proofs

All proofs are for arbitrary constants, under the named assumptions of the
modules: the window has at least one slot, denominations and fees are naturals,
the unused slot is no root (`SizesAssumption`, `ZeroRootAssumption`);
`MaxAttempts` is positive and the chain's bounds are naturals
(`RetryAssumption`, `ChainAssumption`); the bounds of the worker and of the
records that expire are naturals (`StreamAssumption`, `ExpiriesAssumption`); a
commitment has at least one byte, its bytes as the wallet sends them are naturals
and the requests ask what the routes read (`WidthAssumption`, `CallsAssumption`);
the relayer's wallet is a wallet (`RelayerAssumption`). The tree has at least one
level, its window one slot, and no tree has the zero root, which is that no preimage
of it is known (`SizesAssumption`, `ZeroRootAssumption` of `MerkleTree`); keys are
numbers and the field modulus is positive (`KeysAssumption`). What the decoder takes
for a root in the layout of the program is no count (`LayoutAssumption`,
`DepositsAssumption`); neither layout is assumed.

`Induction`: the installed provers cannot use the library's induction rules, which
take a predicate. The rule is stated with a set instead (`SetInduction`, from the
well-foundedness of the naturals), and that is what the proofs about data go
through: that a recursive function is defined at every level (`ZerosDef`,
`TreeDef`, `ClimbDef`, `WalkDef`, `FilledDef`), what it computes, and what a sum
over a finite set is (`SumDef`) and how it grows with one of its terms
(`SumGrows`).

`PoolProofs`:

* `TypeCorrect`: `Spec => []TypeOK`.
* `Invariance`: `Spec => []Inv`. `Solvency` and `RootWindow` are not inductive.
  That a payout is new to its pool, so that the count of payouts grows with the
  money that leaves, needs that the nullifier hash of every payout is recorded; that
  it is about a leaf the pool has needs that proofs are about the leaf they name
  (`ProofsSound`) and that an accepted root is a prefix of the pool's own leaves,
  which comes from `RootWindow` (`KnownRootIsPrefix`). `PayoutsProved` says this of
  the payouts that were made. A pool is opened with nothing in it:
  `ClosedPoolsEmpty`. `InsertRootWindow` is the arithmetic of the ring: one
  insertion shifts the age of every slot by one and evicts the oldest.
* `RootWindowHolds`, `SolvencyHolds`: the two properties.
* `LockedOnlyByTwinHolds`: a note of a token pool that was not paid out can be,
  unless its nullifier hash was used up by a payout for another note or a note of the
  pool was paid more than once. No assumption on provers. On top of `Inv` it needs
  `SpentRedeemed` (a nullifier hash is recorded only together with a payout), that
  the newest root is in the window (`NewestRootKnown`), and that a pool in which
  every note was paid at most once holds a price for each that was not
  (`VaultCovers`, an injection of payouts into leaves).
* `NotesRedeemableHolds`: with one pool, and while every proof names the position of
  its leaf, a nullifier hash tells the leaf (`TicketTells`), so that no note is paid
  twice and none is locked.
* `ProofLifetimeHolds`: from `RootWindow`, in both directions (`PrefixKnown`).
* `TermsFixedHolds`, `PauseFreezesFundsHolds`: action properties, one step per
  instruction.
* `Implementation`: `Spec => ImplementsEscrow`. With `Inv`, each step of the
  program is a step of `Escrow` or leaves its variables alone; `WithdrawFresh`
  shows that a withdrawal is for a leaf that was made, with a nullifier hash that
  no payout has used.
* `ValueConservedHolds`: what wallets and vault hold together never changes, for any
  finite set of wallets. A deposit and a withdrawal change one or two terms of the
  sum (`CreditSum`), by amounts that `SplitPayout` adds up.
* `SplitPayout`: recipient and relayer shares are naturals that add up to the
  amount, and the relayer's is at most a tenth.

`MerkleTreeProofs`, for trees of any depth and windows of any size:

* `TreeInv` is the inductive invariant. The roots alone say nothing about the next
  insertion; `LeftSiblings` says what the cache holds: at each level the left
  sibling of the next leaf's path wherever that path goes right. `ClimbsTree` is
  the heart: after `l` levels the loop holds the node of the whole tree above the
  new leaf, because the leaves to its right are empty (`FullNodes`, `NodeZero`)
  and those to its left are under a cached sibling. `SlotsWritten` tells the slots
  that were never written.
* `TreeTypeCorrect`, `WindowCorrect`: the type and `WindowHoldsTreeRoots`.
* `RootIsBinding`: two sequences of leaves have one root exactly if they fill the
  tree alike (`NodeDetermines`, from the top down), zeros included. Without
  zeros the sequences are then equal, which is what lets `Pool` name a root by its
  leaves.
* `PathsExpireWithRoots`: the walk of the circuit along the path of a leaf meets the
  nodes above it (`WalkClimbs`), so it ends in the root of that moment, which the
  window has or has not by `WindowCorrect` and `RootIsBinding`.
* `PathImplementsTree`, `ServedPathsStay`: registering rows leaves the tree alone,
  and a row that is appended changes no sibling to the left of an earlier leaf
  (`FilledStable`).
* `ServiceProofsPay`: a walk that ends in the newest root starts at the leaf
  (`RootFromPath`), so that only the note of the leaf is paid for; and of the keys
  of a withdrawal the verifier takes those that are field elements and equal to the
  reduced ones of the request (`KeysReduced`).

`RelayProofs`:

* `Invariance`, with `RowsPaidHolds` and `AnswersTrueHolds`: for any number of
  requests, attempts, blocks and spellings, with or without simulation, each row and
  each answer is true. The strengthening is `WaitsForOwn` (a request waits for the
  transaction it sent last, and writes only when that one has paid) and
  `AttemptsLeft` (needed for the type of `attempt`).
* `FeesBoundedHolds`: counting needs an injection. `FeesInv` says that every
  transaction was broadcast by a request for its nullifier, in an attempt of which
  it is the only one. That no two that paid have one nullifier is in `Inv`.

`DepositsProofs`, about `DepositRegistry` alone:

* `Invariance`, with `IndicesDenseHolds`, `RowsLandedHolds` and
  `AnswersFromRowsHolds`: for any number of calls and deposits the rows are
  numbered 0, 1, 2, ..., name transactions that landed, and the answers match
  them. The strengthening is `CallsSound`: a count that a call has read is never
  above the number of rows, however stale, so that inserting with it either
  appends or meets the unique index; and a transaction that was found stays found.

`IndexerProofs`, for any number of callers unless it says otherwise:

* `TypeCorrect`. Like all of these, for both layouts of the account.
* `RootsReadHolds`: every cached value was decoded from a state the account has had.
  The strengthening is `AccountsPast`: an account that was read may be out of date
  but was the pool's at some time.
* `NewestFirstHolds`, for a single caller: no cached root is newer than the account
  it read last (`CacheBehind`). With two callers it is false (section 3).

`DepositsProofs`, about the composition (the worker is not a call,
`DepositsAssumption`):

* `ImplementsRegistry`, `ImplementsIndexer`: a step of the composition is a step of
  either part or leaves it alone; so the theorems of the parts hold in it, among
  them `RootsReadHolds`.
* `RegisteredIsIndexedHolds`: on top of the invariants of the parts it needs
  `DepositsCounted` (the account counts the deposits into its pool, whatever else
  lands) and `SyncsOwn`: an account read by a call that names one of these deposits
  counts it.
* `DepositsTypeCorrect`: from the invariants of the parts.

`RootStreamProofs`, for any number of deposits, drops and restarts:

* `StreamTypeCorrect`, in either mode and with both layouts.
* `StreamInvariance`, with `HealthyMeansRecordedHolds` and `StreamNewestFirst`, in
  either mode and with both layouts. The strengthening is `InboxAhead`: notifications in
  flight are in the order of the changes and none is older than the account that
  was taken last. So the cache stays behind what was read (`CacheBehind`), over any
  number of connections, and a tick that succeeds has recorded what it read, or
  there was nothing to read. `PollingHasNoSocket` keeps the two loops apart.

`ApiProofs`, for any number of requests, keys and wallets:

* `ApiTypeCorrect`, with `CallsKnown` (a request that has arrived asks something
  and does not change its mind) and `ScansDone` (a scan is written with its
  verdict, by a handler that then is done; so the record of a request that has
  settled may expire).
* `RegisteredToOneHolds`: the strengthening is `RegistryInv`. A mint keeps the row
  it got first (`TokensStay`), and a request that links it, or that is told it is
  registered, has found its own wallet in that row (`Owned`). It holds whatever
  races and crashes lie between the search, the insert and the link.
* `BuiltForOwnPoolHolds`: `BuiltInv` says that what is built was checked. The rest
  is about the instructions alone: the vault in second place tells the pools apart
  (`VaultTells`), discriminator and number of accounts tell the instructions apart
  and show a withdrawal short of the accounts the program declares (`KindTells`), and
  the accounts of a deposit and the width of its argument fit the ones declared for
  SOL (`SolFits`).
* `ReplaysAgreeHolds`: `AnswersInv` says that what a request was sent, or a key has
  a record of, is the response to the same body of a request that was answered;
  `ReplaysInv` counts: the responses a key was given are at most its expired
  records and the present one.
* `RunsOverlapHolds`: `OverlapInv` counts along chains of requests of which each
  came after the one before was answered. Whoever starts a run found no
  record, so every earlier member's record has expired.
* `CachedNotSupersededHolds`: `StampsInv` orders the scans by the time they were
  stamped, which is before they are written. `CacheInv` says that a request
  about to insert found no row, so the rows that came since are of requests
  that overlap with it; and that the first row of an address, once a request has
  written, is of a scan that overlaps with it or is newer, unless it was
  overtaken. The proof follows the first row through each step (`FirstAfter`). The
  first form of the property, without `Overtaken`, resisted this step, and TLC then
  found the history above.

Only model-checked: everything under fairness (`EventuallyRedeemed`,
`EveryRequestAnswered`, `PollingCatchesUp`, `StreamingCatchesUp`), which needs
`ENABLED`. Every invariant and every action property of the passing runs is a
theorem.

## 5. Plan

Done: everything in section 2. What could come next, in this order:

1. `Backend`: relay and deposits over one chain that implements `Pool`, so that a
   row of `db.withdrawals` is a payout of `Pool`, with the lag between `Pool`'s
   window and the paths `ServedPath` serves.
2. Relayers: `upsert`, ranking and statistics, and what `pick_best` promises about
   the node that then signs and its fee.
3. The anonymity set, which is computed from rows and not from the pool.

## 6. Not modelled

* `register_fee_share` and the Sunspot route: calls to other programs, no state of
  this one; the encodings of the verifier and the verifying key.
* The rate limit, which is not installed; the statistics, listings and
  leaderboards, which only read; logging and wording.
* The serialization of transactions and the base58 and hex alphabets: keys and
  values that can or cannot be read stand for them.
* The tools behind the proof service, the Bags, Range and Solana nodes: external,
  modelled by the replies the code tells apart.
* Operator scripts, run by hand once; the frontend, whose protocol is mocked.
