-------------------------- MODULE RootStreamProofs --------------------------
(***************************************************************************)
(* Proofs about RootStream, for any number of deposits, dropped            *)
(* connections and restarts, whichever layout the account has: in either   *)
(* mode the cache stays in order, and what a polling worker tells of       *)
(* itself is true.                                                         *)
(***************************************************************************)
EXTENDS RootStream, IndexerProofs

Messages == 0..MaxDeposits \cup {Confirmation}

\* Polling, there is no socket.
PollingHasNoSocket == mode = "polling" => link = "down" /\ inbox = << >>

\* The messages in flight are ordered, and none is older than the account that
\* was taken last.
InboxAhead ==
  /\ \A i \in DOMAIN inbox : inbox[i] # Confirmation =>
       account[worker] <= inbox[i] /\ inbox[i] <= commitment_count
  /\ \A i, j \in DOMAIN inbox :
       i < j /\ inbox[i] # Confirmation /\ inbox[j] # Confirmation => inbox[i] <= inbox[j]

\* Nor is any older than the cache.
CacheBehindInbox ==
  layout = "documented" =>
    \A i \in DOMAIN inbox, j \in DOMAIN merkle_roots :
      inbox[i] # Confirmation => merkle_roots[j] <= inbox[i]

StreamInv ==
  /\ StreamTypeOK /\ PollingHasNoSocket /\ InboxAhead /\ CacheBehindInbox
  /\ AccountsPast /\ RootsRead /\ CacheBehind /\ NewestFirst
  /\ HealthyMeansRecorded

-----------------------------------------------------------------------------

\* What the indexer's own steps and the deposits do to the types.
LEMMA IndexerStepTypes ==
  ASSUME TypeOK,
         \/ Deposit \/ Record(worker) \/ SyncFails(worker)
         \/ SyncNow(worker) \/ Fetch(worker) \/ NoRoot(worker)
  PROVE  TypeOK'
<1> USE LayoutAssumption, StreamAssumption
<1>1. CASE Record(worker)
  <2>1. decode_state(account[worker]) \in Root
    BY Decoded DEF TypeOK
  <2> QED
    BY <1>1, <2>1 DEF TypeOK, pool, Record
<1> QED
  BY <1>1 DEF TypeOK, pool, Deposit, SyncFails, SyncNow, Fetch, NoRoot

\* Every variable keeps its type, in either mode and whatever layout the
\* account has; the sleep stays one of six.
THEOREM StreamTypeCorrect == StreamSpec => []StreamTypeOK
<1> USE LayoutAssumption, StreamAssumption
<1>1. StreamInit => StreamTypeOK
  <2> SUFFICES ASSUME StreamInit PROVE StreamTypeOK
    OBVIOUS
  <2>1. TypeOK
    BY DEF StreamInit, Init, TypeOK
  <2>2. {last_sync_at, last_sync_error} \subseteq BOOLEAN /\ missed \in BOOLEAN
    BY DEF StreamInit
  <2>3. /\ mode \in {"polling", "ws"} /\ task = "none" /\ link = "down"
        /\ backoff = 1 /\ drops = 0 /\ starts = 0
        /\ inbox \in Seq(0..MaxDeposits \cup {Confirmation})
    BY DEF StreamInit, RECONNECT_INITIAL_BACKOFF
  <2> QED
    BY <2>1, <2>2, <2>3 DEF StreamTypeOK
<1>2. ASSUME StreamTypeOK, [StreamNext]_streamVars PROVE StreamTypeOK'
  <2> USE <1>2
  <2>1. TypeOK /\ inbox \in Seq(Messages)
    BY DEF StreamTypeOK, Messages
  <2>2. CASE Change
    <3>1. TypeOK'
      BY <2>1, <2>2, IndexerStepTypes DEF Change
    <3>2. inbox' \in Seq(Messages)
      BY <2>1, <2>2, <3>1 DEF Change, Messages, TypeOK
    <3> QED
      BY <2>2, <3>1, <3>2 DEF Change, StreamTypeOK, Messages, worker_state
  <2>3. CASE Start \/ Stop
    <3>1. TypeOK'
      BY <2>1, <2>3 DEF Start, Stop, TypeOK, vars, pool
    <3>2. inbox' = << >> /\ link' = "down" /\ UNCHANGED <<mode, drops>>
      BY <2>3 DEF Start, Stop
    <3>3. /\ task' \in {"none", "live"} /\ starts' \in 0..MaxStarts
          /\ backoff' \in {1, 2, 4, 8, 16, 30}
      BY <2>3 DEF Start, Stop, StreamTypeOK, RECONNECT_INITIAL_BACKOFF
    <3>4. {missed', last_sync_at', last_sync_error'} \subseteq BOOLEAN
      BY <2>3 DEF Start, Stop, StreamTypeOK, Latest, InHand
    <3> QED
      BY <3>1, <3>2, <3>3, <3>4 DEF StreamTypeOK
  <2>4. CASE PollSync \/ TickSucceeds \/ TickFails \/ StreamRecord
    <3>1. TypeOK'
      BY <2>1, <2>4, IndexerStepTypes DEF PollSync, TickSucceeds, TickFails, StreamRecord
    <3> QED
      BY <2>4, <3>1
      DEF PollSync, TickSucceeds, TickFails, StreamRecord, Quiet, socket, worker_state, StreamTypeOK
  <2>5. CASE StreamFails
    <3>1. TypeOK'
      BY <2>1, <2>5, IndexerStepTypes DEF StreamFails
    <3> QED
      BY <2>5, <3>1 DEF StreamFails, StreamTypeOK
  <2>6. CASE Connect \/ ConnectFails \/ Closed \/ Backoff
    <3>1. TypeOK'
      BY <2>1, <2>6 DEF Connect, ConnectFails, Closed, Backoff, TypeOK, vars, pool
    <3>2. inbox' \in Seq(Messages)
      <4>1. inbox' = << Confirmation >> \/ UNCHANGED inbox
        BY <2>6 DEF Connect, ConnectFails, Closed, Backoff
      <4>2. << Confirmation >> \in Seq(Messages)
        BY DEF Messages
      <4> QED
        BY <2>1, <4>1, <4>2
    <3>3. backoff' \in {1, 2, 4, 8, 16, 30}
      <4>1. backoff \in {1, 2, 4, 8, 16, 30}
        BY DEF StreamTypeOK
      <4>2. \/ backoff' \in {backoff, 30}
            \/ backoff' = 2 * backoff /\ 2 * backoff < 30
        BY <2>6, <4>1 DEF Connect, ConnectFails, Closed, Backoff, RECONNECT_MAX_BACKOFF
      <4> QED
        BY <4>1, <4>2
    <3>4. link' \in {"down", "open", "backoff"} /\ UNCHANGED <<worker_state, missed, starts>>
      BY <2>6 DEF Connect, ConnectFails, Closed, Backoff
    <3>5. drops' \in 0..MaxDrops
      BY <2>6 DEF Connect, ConnectFails, Closed, Backoff, StreamTypeOK
    <3> QED
      BY <3>1, <3>2, <3>3, <3>4, <3>5 DEF StreamTypeOK, Messages, worker_state
  <2>7. CASE Disconnect
    <3>1. TypeOK'
      BY <2>1, <2>7 DEF Disconnect, TypeOK, vars, pool
    <3>2. inbox' \in Seq(Messages)
      BY <2>1, <2>7 DEF Disconnect
    <3> QED
      BY <2>7, <3>1, <3>2 DEF Disconnect, StreamTypeOK, Messages, worker_state, Latest
  <2>8. CASE Take
    <3>1. inbox' \in Seq(Messages) /\ (HasAccount(Head(inbox)) => Head(inbox) \in 0..MaxDeposits)
      BY <2>1, <2>8 DEF Take, HasAccount, Messages
    <3>2. TypeOK'
      BY <2>1, <2>8, <3>1 DEF Take, TypeOK, pool
    <3> QED
      BY <2>8, <3>1, <3>2 DEF Take, StreamTypeOK, Messages, worker_state, RECONNECT_INITIAL_BACKOFF
  <2>9. CASE UNCHANGED streamVars
    BY <2>9 DEF streamVars, vars, pool, worker_state, socket, StreamTypeOK, TypeOK
  <2> QED
    BY <2>2, <2>3, <2>4, <2>5, <2>6, <2>7, <2>8, <2>9 DEF StreamNext
<1> QED
  BY <1>1, <1>2, PTL DEF StreamSpec

-----------------------------------------------------------------------------
(***************************************************************************)
(* The invariant behind the order of the cache and the status.             *)
(***************************************************************************)

Cache == AccountsPast /\ RootsRead /\ CacheBehind /\ NewestFirst
Ahead == InboxAhead /\ CacheBehindInbox

\* What StreamInv says of the cache and of what is read.
LEMMA StreamTypes ==
  ASSUME StreamInv
  PROVE  /\ IndexerInv /\ commitment_count \in Nat /\ account \in [Syncers -> Nat]
         /\ worker \in Syncers /\ (\A s \in Syncers : s = worker)
         /\ account[worker] <= commitment_count
         /\ sync \in [Syncers -> {"idle", "fetch", "record"}]
         /\ inbox \in Seq(Messages)
         /\ \A i \in DOMAIN inbox : inbox[i] # Confirmation => inbox[i] \in Nat
BY LayoutAssumption, StreamAssumption
DEF StreamInv, StreamTypeOK, IndexerInv, TypeOK, Messages, AccountsPast

\* Steps that leave the chain, the account and the cache alone, and of the
\* messages in flight at most take some off, or start with a confirmation.
LEMMA QuietStep ==
  ASSUME StreamInv, UNCHANGED <<pool, account, merkle_roots>>,
         sync'[worker] = "record" => sync[worker] = "record",
         \/ inbox' \in {inbox, << >>, << Confirmation >>}
         \/ \E n \in 0..Len(inbox) : inbox' = SubSeq(inbox, 1, n)
  PROVE  Cache' /\ Ahead'
<1>1. Cache'
  BY StreamTypes
  DEF StreamInv, Cache, AccountsPast, RootsRead, decode_state, CacheBehind, NewestFirst, pool
<1>2. /\ \A i \in DOMAIN inbox' : inbox'[i] # Confirmation => i \in DOMAIN inbox /\ inbox'[i] = inbox[i]
      /\ DOMAIN inbox' \subseteq Nat
  BY StreamTypes
<1> QED
  BY <1>1, <1>2 DEF StreamInv, Ahead, InboxAhead, CacheBehindInbox, pool

\* A deposit: what the node tells of it is newer than all it told before.
LEMMA ChangeStep ==
  ASSUME StreamInv, Change
  PROVE  Cache' /\ Ahead'
<1>1. /\ commitment_count \in Nat /\ account \in [Syncers -> Nat]
      /\ inbox \in Seq(Messages) /\ commitment_count' = commitment_count + 1
      /\ account[worker] \in Nat /\ account[worker] <= commitment_count
      /\ UNCHANGED <<layout, sync, account, merkle_roots>>
  BY StreamTypes DEF Change, Deposit
<1>2. Cache'
  <2>1. AccountsPast'
    BY <1>1, StreamTypes DEF AccountsPast
  <2>2. RootsRead'
    <3>1. \A count \in 0..commitment_count :
            count \in 0..commitment_count' /\ decode_state(count)' = decode_state(count)
      BY <1>1 DEF decode_state
    <3> QED
      BY <1>1, <3>1 DEF StreamInv, RootsRead
  <2> QED
    BY <1>1, <2>1, <2>2 DEF StreamInv, Cache, CacheBehind, NewestFirst
<1>3. \A i \in DOMAIN inbox : inbox[i] # Confirmation =>
        inbox[i] \in Nat /\ account[worker] <= inbox[i] /\ inbox[i] <= commitment_count
  BY StreamTypes DEF StreamInv, InboxAhead
<1>4. CASE UNCHANGED inbox
  BY <1>1, <1>2, <1>3, <1>4 DEF StreamInv, Ahead, InboxAhead, CacheBehindInbox
<1>5. CASE inbox' = Append(inbox, commitment_count')
  <2>1. /\ DOMAIN inbox' = 1..Len(inbox) + 1
        /\ inbox'[Len(inbox) + 1] = commitment_count + 1
        /\ \A i \in DOMAIN inbox : inbox'[i] = inbox[i]
    BY <1>1, <1>5
  <2>2. \A i \in DOMAIN inbox' : inbox'[i] # Confirmation =>
          account'[worker] <= inbox'[i] /\ inbox'[i] <= commitment_count'
    BY <1>1, <1>3, <2>1
  <2>3. \A i, j \in DOMAIN inbox' :
          i < j /\ inbox'[i] # Confirmation /\ inbox'[j] # Confirmation => inbox'[i] <= inbox'[j]
    BY <1>1, <1>3, <2>1 DEF StreamInv, InboxAhead
  <2>4. CacheBehindInbox'
    <3>1. layout = "documented" =>
            \A j \in DOMAIN merkle_roots : merkle_roots[j] <= commitment_count + 1
      BY <1>1, StreamTypes, CacheOf
    <3> QED
      BY <1>1, <2>1, <3>1 DEF StreamInv, CacheBehindInbox
  <2> QED
    BY <1>2, <2>2, <2>3, <2>4 DEF Ahead, InboxAhead
<1> QED
  BY <1>4, <1>5 DEF Change

\* A polling worker reads the account, or finds no root.
LEMMA FetchStep ==
  ASSUME StreamInv, is_running, Fetch(worker) \/ NoRoot(worker), Quiet
  PROVE  Cache' /\ Ahead'
<1>1. inbox' = << >> /\ UNCHANGED <<layout, commitment_count, merkle_roots>>
  BY DEF is_running, StreamInv, PollingHasNoSocket, Quiet, socket, Fetch, NoRoot, pool
<1>2. /\ account'[worker] \in {0, commitment_count}
      /\ sync'[worker] = "record" => account'[worker] = commitment_count
  BY StreamTypes DEF Fetch, NoRoot
<1>3. AccountsPast'
  BY <1>1, <1>2, StreamTypes DEF AccountsPast
<1>4. CacheBehind'
  BY <1>1, <1>2, StreamTypes, CacheOf DEF CacheBehind
<1>5. RootsRead' /\ NewestFirst'
  BY <1>1 DEF StreamInv, RootsRead, decode_state, NewestFirst
<1> QED
  BY <1>1, <1>3, <1>4, <1>5 DEF Cache, Ahead, InboxAhead, CacheBehindInbox

\* The account moves forward, as it is taken off the stream in the order of the
\* messages.
LEMMA TakeStep ==
  ASSUME StreamInv, Take
  PROVE  Cache' /\ Ahead'
<1>1. /\ commitment_count \in Nat /\ account \in [Syncers -> Nat] /\ worker \in Syncers
      /\ UNCHANGED <<layout, commitment_count, merkle_roots>>
  BY StreamTypes DEF Take, pool
<1>2. /\ inbox # << >> /\ inbox' = Tail(inbox) /\ DOMAIN inbox' = 1..Len(inbox) - 1
      /\ Len(inbox) \in Nat \ {0} /\ Head(inbox) = inbox[1] /\ 1 \in DOMAIN inbox
      /\ \A i \in DOMAIN inbox' : inbox'[i] = inbox[i + 1] /\ i + 1 \in DOMAIN inbox
  BY StreamTypes DEF Take
<1>3. \A i \in DOMAIN inbox : inbox[i] # Confirmation =>
        inbox[i] \in Nat /\ account[worker] <= inbox[i] /\ inbox[i] <= commitment_count
  BY StreamTypes DEF StreamInv, InboxAhead
<1>4. \/ UNCHANGED <<account, sync>>
      \/ inbox[1] # Confirmation /\ account'[worker] = inbox[1]
  <2>1. \/ UNCHANGED <<account, sync>>
        \/ /\ Head(inbox) # Confirmation
           /\ account' = [account EXCEPT ![worker] = Head(inbox)]
    BY DEF Take, HasAccount
  <2> QED
    BY <1>1, <1>2, <2>1
<1>5. account'[worker] <= commitment_count
  BY <1>1, <1>2, <1>3, <1>4, StreamTypes
<1>6. AccountsPast'
  BY <1>1, <1>5, StreamTypes DEF AccountsPast
<1>7. CacheBehind'
  BY <1>1, <1>2, <1>4, StreamTypes DEF CacheBehind, StreamInv, CacheBehindInbox
<1>8. RootsRead' /\ NewestFirst'
  BY <1>1 DEF StreamInv, RootsRead, decode_state, NewestFirst
<1>9. \A i \in DOMAIN inbox' : inbox'[i] # Confirmation =>
        account'[worker] <= inbox'[i] /\ inbox'[i] <= commitment_count'
  BY <1>1, <1>2, <1>3, <1>4 DEF StreamInv, InboxAhead
<1>10. \A i, j \in DOMAIN inbox' :
         i < j /\ inbox'[i] # Confirmation /\ inbox'[j] # Confirmation => inbox'[i] <= inbox'[j]
  BY <1>1, <1>2 DEF StreamInv, InboxAhead
<1>11. CacheBehindInbox'
  BY <1>1, <1>2 DEF StreamInv, CacheBehindInbox
<1> QED
  BY <1>6, <1>7, <1>8, <1>9, <1>10, <1>11 DEF Cache, Ahead, InboxAhead

\* A record, by either loop.
LEMMA RecordStep ==
  ASSUME StreamInv, Record(worker), UNCHANGED inbox
  PROVE  /\ Cache' /\ Ahead'
         /\ merkle_roots' # << >> /\ Last(merkle_roots') = decode_state(account[worker])
         /\ UNCHANGED <<layout, account>>
<1>1. IndexerInv /\ Next /\ UNCHANGED <<layout, commitment_count, account>>
  BY StreamTypes DEF Next, Record, pool
<1>2. AccountsPast' /\ RootsRead'
  BY <1>1, RootsReadStep
<1>3. /\ CacheBehind' /\ NewestFirst'
      /\ merkle_roots' # << >> /\ Last(merkle_roots') = decode_state(account[worker])
  BY <1>1, RecordOrder, StreamTypes DEF StreamInv
<1>4. InboxAhead'
  BY <1>1 DEF StreamInv, InboxAhead
<1>5. CacheBehindInbox'
  <2>1. \A j \in DOMAIN merkle_roots' :
          \/ j \in DOMAIN merkle_roots /\ merkle_roots'[j] = merkle_roots[j]
          \/ merkle_roots'[j] = decode_state(account[worker])
    <3>1. CASE UNCHANGED merkle_roots
      BY <3>1
    <3>2. CASE /\ DOMAIN merkle_roots' = 1..Len(merkle_roots) + 1
               /\ merkle_roots'[Len(merkle_roots) + 1] = decode_state(account[worker])
               /\ \A i \in DOMAIN merkle_roots : merkle_roots'[i] = merkle_roots[i]
      BY <1>1, <3>2, CacheOf
    <3> QED
      BY <1>1, <3>1, <3>2, RecordEffect, StreamTypes DEF IndexerInv
  <2>2. layout = "documented" => decode_state(account[worker]) = account[worker]
    BY DEF decode_state
  <2> QED
    BY <1>1, <2>1, <2>2 DEF StreamInv, InboxAhead, CacheBehindInbox
<1> QED
  BY <1>1, <1>2, <1>3, <1>4, <1>5 DEF Cache, Ahead

\* Every step keeps the cache and the messages in order.
LEMMA OrderStep ==
  ASSUME StreamInv, [StreamNext]_streamVars
  PROVE  Cache' /\ Ahead'
<1>1. CASE Start \/ Stop \/ StreamFails \/ UNCHANGED streamVars
  <2>1. sync'[worker] = "record" => sync[worker] = "record"
    BY <1>1, StreamTypes DEF Start, Stop, StreamFails, SyncFails, streamVars, vars
  <2> QED
    BY <1>1, <2>1, QuietStep DEF Start, Stop, StreamFails, SyncFails, streamVars, socket, vars
<1>2. CASE Connect \/ ConnectFails \/ Closed \/ Backoff
  BY <1>2, QuietStep DEF Connect, ConnectFails, Closed, Backoff, vars
<1>3. CASE Disconnect
  BY <1>3, QuietStep DEF Disconnect, vars
<1>4. CASE TickFails \/ (PollSync /\ SyncNow(worker))
  <2>1. sync'[worker] = "record" => sync[worker] = "record"
    BY <1>4, StreamTypes DEF TickFails, PollSync, SyncFails, SyncNow
  <2> QED
    BY <1>4, <2>1, QuietStep DEF TickFails, PollSync, SyncFails, SyncNow, Quiet, socket
<1>5. CASE (TickSucceeds /\ Record(worker)) \/ StreamRecord
  BY <1>5, RecordStep DEF TickSucceeds, StreamRecord, Quiet, socket
<1>6. CASE (TickSucceeds /\ NoRoot(worker)) \/ (PollSync /\ Fetch(worker))
  BY <1>6, FetchStep DEF PollSync, TickSucceeds
<1>7. CASE Take
  BY <1>7, TakeStep
<1>8. CASE Change
  BY <1>8, ChangeStep
<1> QED
  BY <1>1, <1>2, <1>3, <1>4, <1>5, <1>6, <1>7, <1>8 DEF StreamNext, PollSync, TickSucceeds

\* The socket belongs to the streaming loop.
LEMMA SocketStep ==
  ASSUME StreamInv, [StreamNext]_streamVars
  PROVE  PollingHasNoSocket'
<1>1. CASE Connect \/ ConnectFails \/ Closed \/ Backoff \/ Take \/ StreamRecord \/ StreamFails
  BY <1>1 DEF Connect, ConnectFails, Closed, Backoff, Take, StreamRecord, StreamFails, Listening,
              Streaming, worker_state, PollingHasNoSocket
<1>2. CASE Start \/ Stop \/ Change \/ Disconnect
  BY <1>2 DEF Start, Stop, Change, Disconnect, worker_state, StreamInv, PollingHasNoSocket
<1>3. CASE PollSync \/ TickSucceeds \/ TickFails \/ UNCHANGED streamVars
  BY <1>3 DEF PollSync, TickSucceeds, TickFails, Quiet, socket, worker_state, streamVars,
              StreamInv, PollingHasNoSocket
<1> QED
  BY <1>1, <1>2, <1>3 DEF StreamNext

\* A sync that fails leaves its error in the status, and the next one that
\* clears it has recorded what it read.
LEMMA HealthStep ==
  ASSUME StreamInv, [StreamNext]_streamVars
  PROVE  HealthyMeansRecorded'
<1> USE DEF HealthyMeansRecorded, status_snapshot, is_running
<1>1. CASE Start \/ Stop
  BY <1>1 DEF Start, Stop
<1>2. CASE Connect \/ ConnectFails \/ Closed \/ Backoff \/ Take \/ StreamRecord \/ StreamFails
  BY <1>2 DEF Connect, ConnectFails, Closed, Backoff, Take, StreamRecord, StreamFails, Listening,
              Streaming, worker_state
<1>3. CASE Change \/ Disconnect \/ UNCHANGED streamVars
  BY <1>3 DEF Change, Deposit, Disconnect, worker_state, vars, pool, streamVars, StreamInv, decode_state
<1>4. CASE TickFails
  BY <1>4 DEF TickFails
<1>5. CASE PollSync
  <2>1. CASE SyncNow(worker)
    BY <1>5, <2>1 DEF PollSync, SyncNow, worker_state, pool, StreamInv, StreamTypeOK, TypeOK, decode_state
  <2>2. CASE Fetch(worker)
    <3>1. sync'[worker] = "record"
      BY <2>2, StreamAssumption DEF Fetch, StreamInv, StreamTypeOK, TypeOK
    <3> QED
      BY <3>1
  <2> QED
    BY <1>5, <2>1, <2>2 DEF PollSync
<1>6. CASE TickSucceeds
  <2>1. CASE Record(worker)
    BY <1>6, <2>1, RecordStep DEF TickSucceeds, Quiet, socket, decode_state
  <2>2. CASE NoRoot(worker)
    <3>1. account'[worker] = 0
      BY <2>2, StreamTypes DEF NoRoot
    <3> QED
      BY <3>1
  <2> QED
    BY <1>6, <2>1, <2>2 DEF TickSucceeds
<1> QED
  BY <1>1, <1>2, <1>3, <1>4, <1>5, <1>6 DEF StreamNext

\* The inductive invariant of the worker holds in every state.
THEOREM StreamInvariance == StreamSpec => []StreamInv
<1>1. StreamInit => PollingHasNoSocket /\ Ahead /\ Cache /\ HealthyMeansRecorded
  <2>1. StreamInit => PollingHasNoSocket /\ Ahead /\ HealthyMeansRecorded
    BY DEF StreamInit, PollingHasNoSocket, Ahead, InboxAhead, CacheBehindInbox,
           HealthyMeansRecorded, status_snapshot, is_running
  <2>2. StreamInit => Cache
    BY LayoutAssumption
    DEF StreamInit, Init, Cache, AccountsPast, RootsRead, CacheBehind, NewestFirst
  <2> QED
    BY <2>1, <2>2
<1>2. StreamInv /\ [StreamNext]_streamVars
        => (PollingHasNoSocket /\ Ahead /\ Cache /\ HealthyMeansRecorded)'
  BY OrderStep, SocketStep, HealthStep
<1>3. StreamInv <=> StreamTypeOK /\ PollingHasNoSocket /\ Ahead /\ Cache /\ HealthyMeansRecorded
  BY DEF StreamInv, Cache, Ahead
<1> QED
  BY <1>1, <1>2, <1>3, StreamTypeCorrect, PTL DEF StreamSpec

\* Whatever is dropped, cancelled or started again, a polling worker that has
\* synced and shows no error has recorded the root it read last, if it read one.
THEOREM HealthyMeansRecordedHolds == StreamSpec => []HealthyMeansRecorded
<1>1. StreamInv => HealthyMeansRecorded
  BY DEF StreamInv
<1> QED
  BY <1>1, StreamInvariance, PTL

\* The cache is in the order of the pool in either mode: notifications are
\* taken in the order of the changes, over any number of connections.
THEOREM StreamNewestFirst == StreamSpec => []NewestFirst
<1>1. StreamInv => NewestFirst
  BY DEF StreamInv
<1> QED
  BY <1>1, StreamInvariance, PTL
=============================================================================
