----------------------------- MODULE RootStream -----------------------------
(***************************************************************************)
(* The background task that fills the cache of roots, in either of its     *)
(* modes, over the life of the process: IndexerWorker polls, or follows    *)
(* the notifications that SolanaWsClient streams from the node.            *)
(*                                                                         *)
(* A notification is named by the number of deposits of the account it     *)
(* carries.  The node tells of changes after the subscription only, and    *)
(* what is in flight when the connection drops may be lost.                *)
(***************************************************************************)
EXTENDS MerkleIndexer

CONSTANTS
  worker,            \* the task, the only one that syncs here
  Confirmation,      \* the answer to account_subscribe, which has no account
  MaxDrops,          \* bound: connections that drop
  MaxStarts          \* bound: starts of the process

ASSUME StreamAssumption ==
  /\ Syncers = {worker} /\ {MaxDrops, MaxStarts} \subseteq Nat
  /\ Confirmation \notin 0..MaxDeposits

RECONNECT_INITIAL_BACKOFF == 1
RECONNECT_MAX_BACKOFF == 30

VARIABLES
  mode,              \* "polling" or "ws": which loop the process runs
  task,              \* "none", "live", or "ended" by an exception
  last_sync_at,      \* whether there was a successful sync
  last_sync_error,   \* whether the last one failed
  link,              \* "down" before a connect, "open", "closing", "backoff"
  backoff,           \* seconds the loop sleeps before it connects again
  inbox,             \* messages of this connection not yet taken
  missed,            \* history: the pool's last change was not told, or what
                     \* told of it was lost before it was recorded
  drops, starts      \* bounds

worker_state == <<mode, task, last_sync_at, last_sync_error>>
socket == <<link, backoff, inbox>>
streamVars == <<vars, worker_state, socket, missed, drops, starts>>

StreamInit ==
  /\ Init
  /\ mode \in {"polling", "ws"}
  /\ task = "none" /\ last_sync_at = FALSE /\ last_sync_error = FALSE
  /\ link = "down" /\ backoff = RECONNECT_INITIAL_BACKOFF /\ inbox = << >>
  /\ missed = TRUE /\ drops = 0 /\ starts = 0

Latest(messages) == \E i \in DOMAIN messages : messages[i] = commitment_count
InHand == sync[worker] = "record" /\ account[worker] = commitment_count

\* Only the polling loop is the task that start() keeps.
is_running == mode = "polling" /\ task = "live"

\* What the worker tells of itself; no route shows it yet.
status_snapshot ==
  [running |-> is_running, last_sync_at |-> last_sync_at, last_sync_error |-> last_sync_error]

\* The pool changes; a subscription that is in effect is told.
Change ==
  /\ Deposit
  /\ inbox' = IF link = "open" THEN Append(inbox, commitment_count') ELSE inbox
  /\ missed' = (link # "open")
  /\ UNCHANGED <<worker_state, link, backoff, drops, starts>>

\* The lifespan handler builds a worker and starts it.
Start ==
  /\ task = "none" /\ starts < MaxStarts
  /\ task' = "live" /\ starts' = starts + 1
  /\ last_sync_at' = FALSE /\ last_sync_error' = FALSE
  /\ link' = "down" /\ backoff' = RECONNECT_INITIAL_BACKOFF /\ inbox' = << >>
  /\ UNCHANGED <<vars, mode, missed, drops>>

\* It is cancelled on shutdown, at whichever await it stands.
Stop ==
  /\ task # "none" /\ starts < MaxStarts
  /\ task' = "none"
  /\ sync' = [sync EXCEPT ![worker] = "idle"]
  /\ missed' = (missed \/ Latest(inbox) \/ InHand)
  /\ inbox' = << >> /\ link' = "down"
  /\ UNCHANGED <<pool, account, merkle_roots, mode,
                 last_sync_at, last_sync_error, backoff, drops, starts>>

-----------------------------------------------------------------------------
(* Polling. *)

Quiet == UNCHANGED <<socket, missed, drops, starts>>

PollSync ==
  /\ is_running /\ (SyncNow(worker) \/ Fetch(worker))
  /\ UNCHANGED worker_state /\ Quiet

\* _tick after sync_now returned: a record, or None.
TickSucceeds ==
  /\ is_running
  /\ Record(worker) \/ NoRoot(worker)
  /\ last_sync_at' = TRUE /\ last_sync_error' = FALSE
  /\ UNCHANGED <<mode, task>> /\ Quiet

\* Mutant: the error of a failed tick is not kept.
TickFailsSilently == is_running /\ SyncFails(worker) /\ UNCHANGED worker_state /\ Quiet

\* Mutant: a failed tick ends the loop.
TickFailsForGood ==
  /\ is_running /\ SyncFails(worker)
  /\ last_sync_error' = TRUE /\ task' = "ended"
  /\ UNCHANGED <<mode, last_sync_at>> /\ Quiet

\* _tick after sync_now raised; the loop goes on.
TickFails ==
  /\ is_running /\ SyncFails(worker)
  /\ last_sync_error' = TRUE
  /\ UNCHANGED <<mode, task, last_sync_at>> /\ Quiet

-----------------------------------------------------------------------------
(* Streaming. *)

Streaming == mode = "ws" /\ task = "live"
Listening == Streaming /\ sync[worker] = "idle"

\* connect and account_subscribe; nothing reads the account at this point.
Connect ==
  /\ Listening /\ link = "down"
  /\ link' = "open" /\ inbox' = << Confirmation >>
  /\ UNCHANGED <<vars, worker_state, backoff, missed, drops, starts>>

\* The connection drops or the node closes it, with what is in flight.
Disconnect ==
  /\ link = "open" /\ drops < MaxDrops
  /\ \E arrived \in 0..Len(inbox) :
       /\ inbox' = SubSeq(inbox, 1, arrived)
       /\ missed' = (missed \/ Latest(SubSeq(inbox, arrived + 1, Len(inbox))))
  /\ link' = "closing" /\ drops' = drops + 1
  /\ UNCHANGED <<vars, worker_state, backoff, starts>>

ConnectFails ==
  /\ Listening /\ link = "down" /\ drops < MaxDrops
  /\ link' = "backoff" /\ drops' = drops + 1
  /\ UNCHANGED <<vars, worker_state, backoff, inbox, missed, starts>>

\* The loop sees the end of the stream once it has taken what arrived.
Closed ==
  /\ Listening /\ link = "closing" /\ inbox = << >>
  /\ link' = "backoff"
  /\ UNCHANGED <<vars, worker_state, backoff, inbox, missed, drops, starts>>

\* Mutant: the sleep doubles without a cap.
BackoffUncapped ==
  /\ Listening /\ link = "backoff"
  /\ link' = "down"
  /\ backoff' = backoff * 2
  /\ UNCHANGED <<vars, worker_state, inbox, missed, drops, starts>>

\* Mutant: the loop ends with the stream.
BackoffForever == Listening /\ link = "backoff" /\ UNCHANGED streamVars

\* asyncio.sleep(backoff), and twice as long the next time.
Backoff ==
  /\ Listening /\ link = "backoff"
  /\ link' = "down"
  /\ backoff' = IF 2 * backoff < RECONNECT_MAX_BACKOFF THEN 2 * backoff
                                                       ELSE RECONNECT_MAX_BACKOFF
  /\ UNCHANGED <<vars, worker_state, inbox, missed, drops, starts>>

\* _extract_account_from_notification
HasAccount(message) == message # Confirmation

\* Mutant: two notifications that arrive together are taken for one.
TakeTwo ==
  /\ Listening /\ inbox # << >>
  /\ backoff' = RECONNECT_INITIAL_BACKOFF
  /\ inbox' = IF Len(inbox) = 1 THEN << >> ELSE Tail(Tail(inbox))
  /\ IF HasAccount(Head(inbox))
       THEN /\ account' = [account EXCEPT ![worker] = Head(inbox)]
            /\ sync' = [sync EXCEPT ![worker] = "record"]
       ELSE UNCHANGED <<sync, account>>
  /\ UNCHANGED <<pool, merkle_roots, worker_state, link, missed, drops, starts>>

\* One item of the stream.  Any item resets the backoff; one without an account
\* is skipped; the others go to _record_from_account.
Take ==
  /\ Listening /\ inbox # << >>
  /\ backoff' = RECONNECT_INITIAL_BACKOFF
  /\ inbox' = Tail(inbox)
  /\ IF HasAccount(Head(inbox))
       THEN /\ account' = [account EXCEPT ![worker] = Head(inbox)]
            /\ sync' = [sync EXCEPT ![worker] = "record"]
       ELSE UNCHANGED <<sync, account>>
  /\ UNCHANGED <<pool, merkle_roots, worker_state, link, missed, drops, starts>>

\* The body of the async for: the record was yielded.
StreamRecord ==
  /\ Streaming /\ Record(worker)
  /\ last_sync_at' = TRUE /\ last_sync_error' = FALSE
  /\ UNCHANGED <<mode, task>> /\ Quiet

\* A database error ends the async for, and closes the connection; only a
\* restart of the process makes another.
StreamFails ==
  /\ Streaming /\ sync[worker] = "record" /\ SyncFails(worker)
  /\ last_sync_error' = TRUE /\ task' = "ended"
  /\ missed' = (missed \/ Latest(inbox) \/ InHand)
  /\ inbox' = << >> /\ link' = "down"
  /\ UNCHANGED <<mode, last_sync_at, backoff, drops, starts>>

StreamNext ==
  \/ Change \/ Start \/ Stop
  \/ PollSync \/ TickSucceeds \/ TickFails
  \/ Connect \/ ConnectFails \/ Disconnect \/ Closed \/ Backoff
  \/ Take \/ StreamRecord \/ StreamFails

StreamSpec == StreamInit /\ [][StreamNext]_streamVars

\* The event loop runs the task; the operator starts the process again; the RPC
\* node and the database do not fail on every try for ever.
StreamFairSpec ==
  /\ StreamSpec
  /\ WF_streamVars(Start) /\ WF_streamVars(PollSync)
  /\ SF_streamVars(is_running /\ Fetch(worker) /\ UNCHANGED worker_state /\ Quiet)
  /\ SF_streamVars(TickSucceeds /\ Record(worker))
  /\ WF_streamVars(Connect) /\ WF_streamVars(Closed) /\ WF_streamVars(Backoff)
  /\ WF_streamVars(Take) /\ WF_streamVars(StreamRecord)

-----------------------------------------------------------------------------
(***************************************************************************)
(* Properties.                                                             *)
(***************************************************************************)

\* Every variable has its type; the sleep is one of those of the doubling.
StreamTypeOK ==
  /\ TypeOK
  /\ mode \in {"polling", "ws"} /\ task \in {"none", "live", "ended"}
  /\ {last_sync_at, last_sync_error} \subseteq BOOLEAN
  /\ link \in {"down", "open", "closing", "backoff"}
  /\ backoff \in {1, 2, 4, 8, 16, 30}
  /\ inbox \in Seq(0..MaxDeposits \cup {Confirmation})
  /\ missed \in BOOLEAN /\ drops \in 0..MaxDrops /\ starts \in 0..MaxStarts

\* indexer_worker.py:19: last_sync_at and last_sync_error serve an "Indexer
\* healthy" badge.  A polling worker that has synced and reports no error has
\* recorded the root it read last, or its last read gave none, whatever failed
\* in between.
HealthyMeansRecorded ==
  /\ status_snapshot = [running |-> TRUE, last_sync_at |-> TRUE, last_sync_error |-> FALSE]
  /\ sync[worker] # "record"
  =>
    \/ account[worker] = 0
    \/ merkle_roots # << >> /\ Last(merkle_roots) = decode_state(account[worker])

\* Polling, the cache comes to have the pool's root in front and keeps it,
\* through failed ticks and restarts.
PollingCatchesUp == mode = "polling" => EventuallyCurrent

\* Streaming, a lost connection is always made again, and the cache catches up
\* too, unless nothing told of the pool's last change or a database error or a
\* shutdown lost it: a connection that drops costs nothing else.
StreamingCatchesUp ==
  mode = "ws" => /\ []<>(link = "open" \/ task # "live")
                 /\ <>[](CurrentRoot \/ missed)
=============================================================================
