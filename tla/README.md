# DistriStore in TLA+

This directory specifies the back end of DistriStore (`src/backend`), a
peer-to-peer file store: a file is cut into chunks, stored on the node that
receives it, sent to other nodes, and fetched from whichever node has it. The
specifications are checked by TLC on small instances, and the results that
matter most are proved by TLAPS for every instance.

File and line references are to `src/`; a line without a file belongs to the
file the module is about.

## 1. The system

Everything on a node runs on one asyncio event loop, so two coroutines
interleave at their awaits only; the exceptions are the threads started with
`asyncio.to_thread` (eviction, database writes, file writes) and the process
pool of the crypto workers. Nothing of the in-memory state survives the process:
what does is the storage directory (chunk files, `.resume` records, the SQLite
database with manifests and peers).

| component | state it keeps | operations | talks to |
|---|---|---|---|
| Download manager `api/download_manager.py` | `_downloads`, `_tasks`, `_cancel_events` by file hash; `.resume` files | start, pause, resume, clear, the worker and its merge, recovery at start-up | transfer routes call it; it loads chunks through the routes' loader, which uses the local store and the peers |
| Sliding-window sender `strategies/sliding_window.py` | the window (`_unacked`), `_acked`, `_send_idx`, `_done` | `send_all`, the acknowledgment listener, the sweep | one `PeerConnection`; the engine runs it once per file and peer |
| Connection manager `network/connection.py` | `connections` by peer id, the TCP server | dial, accept, handshake, send, broadcast, stop | the connector loop of `node/node.py`, the replication engines, the chat |
| Node `node/node.py` | its tasks | start, connector loop, message routing, stop | all of the network side |
| Peer registry `node/state.py` with `storage/db.py` | `_peers` under an asyncio lock; table `peers` | add, remove, list alive, load at start-up | discovery and handshakes add; the heartbeat removes |
| Discovery `network/discovery.py` | none | signed HELLO broadcast and its receipt | the peer registry |
| Heartbeat `advanced/heartbeat.py` | `_pending_pings` | ping all, check time-outs, handle a pong | connection table, peer registry |
| Replication `strategies/replication.py`, self-healing `advanced/self_healing.py`, routing `dht/` | `RoutingTable._table`: chunk to holders | choose targets, send, assign; find under-replicated chunks and send them on | connection table, peer registry, local store |
| Local store `storage/local_store.py`, garbage collector `advanced/garbage_collector.py` | chunk files; table `manifests` | save, load, evict the oldest | everything above |
| Transfer routes `api/routes.py` | none of their own | upload, download, preview, files, manifest, chunk | local store, peers over HTTP, replication |
| Swarm chat `api/routes.py` | WebSocket clients, seen message ids | connect, broadcast, receive from a peer and flood | connection manager |
| File engine `file_engine/` | a process pool | chunk, Merkle root and proof, encrypt, pipeline, merge | routes, download manager |
| SDK client `framework/client.py` | none | upload, download, swarmed download | the HTTP routes |

### What is hard in it

* **Awaits between a look-up and its use.** `pause_download` looks a task up,
  waits up to three seconds, and then acts on whatever is registered
  (download_manager.py:264-276). Self-healing works on a copy of the routing
  table across many awaits (self_healing.py:55-115). The end of one connection
  removes the table entry of another (connection.py:150).
* **Several coroutines on one object.** Two download workers on one state object;
  `send_all`, listener and sweep on one window; a listener and a message loop on
  one connection.
* **Crashes.** A download is recovered from a record written every few chunks and
  from chunk files that another thread deletes; a chunk file may be torn.
* **Things that must end.** A pause request, a download, a transfer, a dial: each
  waits on something another coroutine or another node must do.
* **Failures that are swallowed.** A failed save of a record, a failed send, a
  `receive` that turns every exception into "no message".

### What makes each component correct

* *Download manager*: the missing and completed chunks split the file; nothing is
  claimed that was not stored; a download shown as completed misses nothing; one
  shown as downloading is being served; a crash costs fewer chunks than a flush
  interval; pauses return and downloads end.
* *Sliding window*: never more than the window in flight; no chunk sent is
  forgotten; a chunk is counted only when the peer has it; a transfer ends.
* *Connection manager*: the table names connections whose handshake is over; what
  is sent over a dialled connection is read; dials end; lost accepted connections
  leave the table.
* *Peer registry and heartbeat*: the database follows the table; the newest
  announcement wins and is always listed; a peer that answers stays, and a pong
  never brings a removed one back.
* *Replication and healing*: a recorded holder is one to whose address the chunk
  was written; no more copies are made than needed; an under-replicated chunk that
  can be healed is.
* *Chat*: a message is shown once on every node that can be reached; a flood ends.
* *Local store*: eviction frees enough and no more, but for what changes in the
  directory meanwhile; a served file is the original.
* *File engine*: a proof made for a leaf verifies against the root, and only for
  that leaf; chunking followed by merging is the identity.

## 2. The plan

The modules, in the order of importance, all written:

1. `DownloadManager` - the part with the most shared mutable state and the only
   one that recovers from crashes.
2. `SlidingWindow` against the abstract `ReliableTransfer`.
3. `ConnectionManager` - every node of a swarm and the connections between them.
4. `FileSharing` - uploads, downloads and previews across the stores of a swarm,
   with the algorithms of `Chunker` that make an upload's chunks and tree.
5. `PeerRegistry` - the peer table, the lock it holds across database writes,
   discovery, handshakes and the heartbeat.
6. `Healing` over `StorageQuota` - the routing table, written by uploads and by
   repairs, and the chunk files under it with the garbage collector.
7. `SwarmChat` - the clients, the set of seen ids and the flood.

Every invariant and action property that a passing run checks is also a theorem
(section 6). What is left to TLC is liveness.

## 3. The modules

Each component has its module, a `_proofs` module with its theorems, and an `MC`
module that TLC starts from. A definition that exists only to be compared with
its neighbour, the form a slip in the code would take (`FlushesLate` beside
`Flushes`), is announced as such in the comment above it and used by nobody.

Common to all: asyncio runs a coroutine until its next await. A handler that does
not suspend is one action. Where the process may die inside such a stretch, or a
thread deletes a file meanwhile, the stretch is several actions.

### DownloadManager (api/download_manager.py, one file hash)

* *State.* `registered` and `current` are the entries in `_downloads` and
  `_tasks`; `state` the `DownloadState` objects, `worker` the worker coroutines,
  `pauser` the suspended pause requests, each with an identity of its own,
  because a request keeps the object and the task it looked up while others
  replace the entries. `loop` is who holds the event loop. On disk: `resume` (the
  record), `store` and `torn` (chunk files), `manifest`.
* *Actions.* `StartFresh`, `StartAgain`, `Resume`, `PauseAtOnce`, `PauseWait`,
  `PauseTimeout`, `PauseFinish`, `ClearCompleted` are the request handlers.
  `Begin`, `TakeChunk`, `FetchOk`, `ChunkError`, `MarkChunk`, `StopAtChunk`,
  `Cancelled` are the chunk loop, `BeginMerge`, `MergeLoad`, `MergeDone`,
  `MergeError`, `DeleteResume` the merge. `Evict` is the garbage collector's
  thread, `RouteStores` a save by another route, `CrashAndRecover` the death of
  the process and `_recover_resume_files`.
* *Abstractions.* Chunk content is whole or torn; the loop goes by index in the
  code (353) and in any order here; names, speed and sizes are left out;
  other files have other entries. A save may fail (`FaultyDisk`); the failure is
  swallowed as in the code. A graceful shutdown is a crash that comes after a save.

### SlidingWindow and ReliableTransfer (strategies/sliding_window.py)

* *State.* `main`, `sendIdx`, `unacked`, `retries`, `acked`, `done` are the
  sender's fields and the position of `send_all`; `listening` and `sweep` the two
  background coroutines; `wire` and `acks` the two directions of the connection as
  sequences; `shared` says that `_handle_client` reads the connection too;
  `stored` and `ignored` belong to the peer, which is external.
* *Actions.* `Start`, `Drained`, `DrainFails`, `Return` are `send_all` between its
  awaits, `ReceiveAck` and `ReceiveNothing` the listener, `SweepCollects` and
  `SweepVisits` the sweep, which works on chunks it collected before its awaits,
  `NextTransfer` the engine's next file on the same connection.
* `ReliableTransfer` is what a caller of `send_all` may expect: what is confirmed
  was delivered, and a transfer that ends is complete unless the peer cannot be
  heard. `SlidingWindow` implements it under the mapping in `Transfer`.
* *Bounds.* `Transfers`, `MaxRetries`, `Ignores` cap the counters.

### ConnectionManager (network/connection.py, the loop of node/node.py)

* *State.* `table[n][m]` is the entry for peer m in the `connections` of node n;
  `conn[c]` one TCP connection with the coroutine at its dialling end
  (`connect_to_peer`) and at its accepting end (`_handle_client`).
* *Actions.* `StartDial` is the connector loop or a replication; `Open`,
  `Refused`, `ReadAck`, `NoAck` the dialling end; `ReadAuth`, `Reject`,
  `ReadHello`, `Answered`, `End` the accepting end; `BeginStop`, `CloseListed`,
  `FinishStop` the stop of a node with its suspensions; `Restart` a crash and a
  new start; `Cut` a loss that TCP reports to both ends.
* *Abstractions.* Messages of an established connection are left to
  `SlidingWindow`. A host that vanishes without a word is not modelled (there is
  no keep-alive in the code that would notice). Peers send HANDSHAKE right after
  AUTH, as `connect_to_peer` does, and share the swarm key.

### FileSharing (api/routes.py, storage/, replication)

* *State.* `manifest` the nodes whose database has the manifest of the file,
  `store[n]` and `torn[n]` the chunk files of each node, `req` the requests.
* *Actions.* An upload is `StartUpload`, `SaveUploaded` for each chunk,
  `SaveManifest` after the last, then for each chunk `Resave`, which writes it a
  second time, and `SendsReturn`, the dials and writes to peers. A download or preview is `StartFetch`; `FindHere`, or
  `ListForManifest` and `FetchManifest`; for each chunk `LoadHere`, or
  `ListForChunk`, `GetChunk` and `CacheChunk`; then `Finish`. `Skip` passes over a
  peer, `NotFound` is the 404. `GetChunk` and `CacheChunk` are two steps: what a
  peer answered may be old when it is saved. `Evict` and `EvictedUnderRead` are
  the eviction thread, `Crash` tears at most the file being written. On a node of
  `NoSpace` a write may raise and leave a part of the chunk, or none of it
  (`SaveFails`): that ends an upload (`UploadFails`), makes a fetch ask the next
  peer (`CacheFails`), or ends a download in its merge.
* *Abstractions.* Writes of manifests succeed: a write of the database is a
  transaction, and one that fails does what a failed write of a chunk does, without
  a torn file. One file, uploaded in one form: without a password, or fetched with
  the right one (an encrypted upload of the same file has other chunks). A peer that the registry does not list is one that refuses, so the lists
  themselves are not kept. A file has at least one chunk. The merge fails on a
  torn chunk because the hash of the result differs or it cannot be decompressed;
  that it does is what the hash and the compression format promise.

### Chunker (file_engine/chunker.py)

The chunk size by file size, the reading of a file in chunks, and the Merkle
root, proof and verification, as operators that keep the code's names. A loop of
the code is a function of the number of its rounds: `Levels` are the levels of
the tree, `Positions` the place of a chunk in each of them, `Walk` the hashes that
a verification computes. `sha256_hash` is a pair of its arguments: a function
without collisions. TLC evaluates four facts about them before `fs_swarm` and
`fs_served` (`MCFileSharing`): the iterated root is the root of the tree defined
recursively (`MerkleRoots`), a proof verifies for its own leaf and for no other
hash (`MerkleProofs`), lists of one length with the same root are equal
(`MerkleRootsDiffer`), and the chunks read are the file, all full but the last
(`Reading`). The last three are theorems for lists of any length (section 6).

### PeerRegistry (node/state.py, storage/db.py, network/discovery.py, advanced/heartbeat.py)

* *State.* `table` is `_peers`, `rows` the table of the database; `ready` the
  tasks made for `add_peer` that have not begun, `queue` the calls at the
  asyncio lock in the order in which it will be granted, `held` that the first of
  them awaits its write, `writes` the upserts in threads; `linked`, `pending`,
  `beat` and `todo` belong to the heartbeat. `heard`, `unsaved` and `answered` are
  history.
* *Actions.* `Hello` and `Handshake` make a task, `Begin` starts it; `GrantAdd`,
  `GrantUpdate`, `GrantGet`, `GrantList`, `GrantRemove` are the calls that get the
  lock, `Written` the end of a write, good or bad; `BeatList`, `Ping`, `Round`,
  `AskRemove`, `RemovedAll` the heartbeat loop, `Pong` the start of `handle_pong`;
  `Unlink` the end of a connection; `Restart` the death of the process and
  `load_peers_from_db`.
* *Abstractions.* An entry is an address and whether a score was reported.
  `handle_pong` hands the object that it got from `get_peer` back to `add_peer`:
  it is the table's own until a removal takes it out (`Detached`). Time is counted
  in rounds of the heartbeat. `get_alive_peers` only reads.

### StorageQuota and Healing (storage/, strategies/replication.py, advanced/, dht/routing.py)

* *State.* `files` are the chunk files, least recently accessed first; `other` the
  bytes of the files that count and are no chunks (database, resume records, merged
  downloads); `evictor` the eviction thread with its list and the size it has just
  read. `table` is `RoutingTable._table`, `alive` what `get_alive_peers` would
  return, `upload` the uploads under way, `healer` the round of the
  `SelfHealingManager` with the list it was made from. History: `since` is what
  happened in the directory since the check of the quota (chunks saved, bytes by
  which the other files grew, bytes that went without being counted as freed), and
  `sent` holds, for each write of a chunk, the peer wanted and the peer reached.
* *Actions.* An upload is `StartUpload`, `NoPeers` or `Resave`, `Select`,
  `UploadSend` for each target, `Assign`. A round is `BeginRound`, then for each
  chunk `PassOver` or `PickTargets`, `HealSend` for each target and `Reassign`,
  then `EndRound`; `RoundFails` is the exception that ends it when a chunk is
  deleted between `exists` and `read_bytes` (local_store.py:44-47). `CheckQuota`,
  `ListChunks`, `StatNext`, `UnlinkNext`, `EvictEnd` are the monitor and its
  thread. `OthersChange` is any other file that appears, grows or goes, at any time;
  `RouteSaves` and `RouteLoads` are other routes, `Appear` and `Lapse` the peers.
* *Abstractions.* A file of an upload is one chunk: the chunks of one file are
  handled one after the other and share nothing. `Uploaded` are the chunks of files
  uploaded at this node, the others are fetched. Distances are given, distinct
  numbers. A holder is recorded when a write to its socket returns, as in the
  code; what the peer does with it is another matter (section 5). `connect_to_peer`
  takes whatever id is acknowledged (connection.py:183): a peer of `Renamed` may
  have started again with a new id while its old one is still listed, and a write
  that wants it reaches any peer (`Answering`). `BeginRound` is an action of its own
  where the code has no await, which gives uploads more room than they have.
* *Sizes.* Measuring the directory is one step. A measurement that fails because
  a file went meanwhile is a look that finds nothing. A chunk that is saved is
  saved whole in the end; failed writes are in `FileSharing`. While it is being
  written its size may be anything up to the full one: the thread may read it so
  for every chunk saved since the check (`SizesSeen`), which is more than the code
  allows, since the write may have ended.

### SwarmChat (api/routes.py, node/node.py, network/connection.py)

* *State.* `chan` the messages on each link, `seen`, `active` the set of ids and
  the list of clients of each node, `client` the browser behind a WebSocket,
  `flow` the coroutines that carry a message through a node, with their position
  in the list. `taken`, `dropped`, `shown` are history.
* *Actions.* `Join`, `Leave`, `Disconnect`, `Post` are the clients; `Receive` and
  `Ignore` the arrival of a message over a link; `Show`, `BeginFlood`, `Send`,
  `NoPeers` the way of a message through a node.
* *Abstractions.* A link is a dialled connection: what is written to an accepted
  one is read by nobody (section 5). An id is a number; two posts never get the
  same (uuid4). Links do not change during a run.

## 4. The runs

| run | instance | what it shows |
|---|---|---|
| `dm_pause` | 2 chunks, 2 objects, 2 tasks, 1 pause request, chunk 0 evictable, saves may fail | `ChunksPartitioned`, `StoredBeforeClaimed`, `CompletedMissesNothing`, `DownloadingIsServed` (and `TypeOK`) hold with two workers on one object, a stale pause, clears, evictions, failed saves and crashes |
| `dm_nopause` | 3 chunks, flush every 2, no pause request | `WorkersAreManaged`, `FlushBound`, `RecordAdvances`: what a pause breaks holds without one |
| `dm_progress` | 1 chunk, all evictable, 1 pause request, fairness | `PauseReturns`, `DownloadEnds` |
| `sw_window` | 3 chunks, window 2, 1 retry, 1 transfer, breakable, shared or not | `WindowBound`, `SentIsTracked` (and `TypeOK`), and that `SlidingWindow` implements `ReliableTransfer` (`ImplementsTransfer`) |
| `sw_completes` | 2 chunks, window 2, 2 transfers, the peer may ignore 2 copies, fairness | `EndsOrGivesUp` |
| `sw_never_slides` | more chunks than the window, fairness | `EverythingIsSent` is violated: see findings |
| `cm_tables` | 2 nodes, 2 connections, fairness | `ListedIsGreeted`, `DialledIsHeard` (and `TypeOK`), `DialEnds`, `AcceptedIsPruned` |
| `fs_swarm` | 3 nodes, 2 chunks, 2 requests; a and b upload, b crashes, c evicts, b and c may run out of space, a is steady | `LossNeedsATornWrite`, and the facts about `Chunker` |
| `fs_served` | the same with 1 request, c alone may run out of space, fairness | `ProvidedIsServed`, `RequestEnds` |
| `pr_peers` | 1 peer at 2 addresses, time-out of 2 rounds, 2 calls at once, 1 restart, fairness | `RowsFollow`, `NewestWins`, `PongFindsItsPeer` (and `TypeOK`), `AnsweringStays`, `HeardIsListed` |
| `he_holders` | 2 chunks of 2 bytes and 1 with a quota of 10, other files of 8 or 10 bytes that change, 2 uploads of one chunk, 2 peers, one of them steady, the other renamed, factor 2, fairness | `RecordedWasSent`, `NoMoreThanNeeded` (and `TypeOK`), `EvictsNoMore`, `QuotaRestored`, `HealedEventually` |
| `sc_chat` | 3 nodes with two paths or a circle, 2 clients, 2 messages, sets of 1 id, some links lossy, fairness | `ShownOnce`, `AudienceServed` (and `TypeOK`), `Spreads`, `FloodEnds` |

### Why the bounds are enough

* *dm.* Two objects and two tasks are the least with which an entry is replaced
  under somebody who still holds the old one; a third would be alike. One pause
  request is enough for a stale one, since it can wait across a resume. Two chunks
  with a flush interval of two give a chunk that is fetched and not recorded;
  three in the run about flushes give a flush in the middle. The theorems remove
  the bounds for all properties of `dm_pause` and `dm_nopause`.
* *sw.* Three chunks and a window of two have a chunk that does not fit; one retry
  has a retransmission and a give-up; two transfers have a late acknowledgment.
* *cm.* Two connections between two nodes give both crossing dials and a double
  dial, the cases in which one connection touches the entry of another.
* *fs.* Three nodes: the one asked, one that failed before it, and the one that
  evicts. Two requests are the least for one to overwrite what another saved; the
  liveness run has one, since a request waits on no other.
* *pr.* Peers share nothing but the lock, and the order in which it is granted is
  that of the calls, so one peer whose calls queue behind each other meets every
  case. Two rounds are the least for which a time-out is longer than a round, as
  in the code (15 and 5 seconds). The safety properties are proved for any number
  of peers, calls, restarts and rounds.
* *he.* Two uploads of one chunk and a round are the least three writers that
  overwrite each other's entries. With other files of 8 bytes one chunk fits the
  quota and both do not; with 10 nine tenths cannot be reached. `MaxDrift` lets the
  other files grow once during an eviction and shrink as often as they grew. Sizes
  of two units and one have chunks seen empty and half written. One of two peers is steady, so that repairs succeed and fail. That the
  cases happen was seen by dropping parts of the properties: without `since.gone`
  in `EvictsNoMore`, or when a recorded peer must have been reached itself, TLC
  finds violations. The safety properties are proved without these bounds.
* *sc.* Two messages and a set of one id have an id forgotten, the new one
  included; two paths have a message twice, the circle has it back. `ShownOnce` and
  `AudienceServed` are proved for any links, clients, messages and limit of the set.

Symmetry is used in safety runs only, over sets that are only quantified over.

Deadlock is checked, except in the sliding-window runs, where a connection ends
with its last transfer, and in `sc_chat`, where everything is quiet once all is
said and the clients have left.

### Fairness

* A coroutine that can go on is resumed by the event loop: weak fairness of each
  worker, sender, listener, dial, handler and request.
* `DownloadEnds` assumes that requests to peers end (`PeersAnswer`): httpx has a
  time-out of 30 seconds. `PauseReturns` does not assume it. The calls of
  `FileSharing` to the API of peers have time-outs of 10 and 30 seconds. The dials
  and writes of an upload's replication have none (connection.py:38,177), so
  `SendsReturn` has no fairness: `RequestEnds` allows an upload to wait there.
* `sw_completes`: a chunk that stays unacknowledged is found by the sweep, for
  each chunk of its own (`SF` on `SweepCollects(i)`: acknowledgments of others may
  come and go between), and the peer reads what it is sent.
* `pr_peers`: tasks are started, a released lock goes to the next call, a database
  write comes back, with or without an error. The heartbeat need not run.
* `he_holders`: uploads, rounds and evictions go on, and the monitor and the
  healer look again and again, as their loops do. For uploads and rounds this
  assumes that dials and writes return; nothing in the code limits them, and a
  healer that waits for one heals nothing. Peers of `Steady`, once there,
  stay and take what is sent; `HealedEventually` says which of them must be near
  enough to be asked.
* `sc_chat`: the coroutine of a client and that of a link go on.
* Nothing is assumed about crashes, evictions, requests, losses or failures: they
  may happen at any time, for ever, or never.

## 5. Findings

A run whose property states a line of the repository and which TLC violates by
what the code does:

* `sw_never_slides` - "As ACKs arrive, the window slides forward to send the next
  chunk." (sliding_window.py:10). `_handle_ack` breaks out of its loop before it
  sends (181) and `send_all` only waits: a file larger than the window stops after
  what fitted while the sends lasted.

Met while modelling, without a run of their own:

* `pause_download` pops the entries by file hash after its wait
  (download_manager.py:276). If a resume came meanwhile, the new task is popped,
  and its worker runs where no pause reaches it; a further resume then starts a
  second worker. (`dm_nopause` with one pause request violates
  `WorkersAreManaged`.)
* Only the index of an acknowledgment is compared (sliding_window.py:156): the
  second one of a retransmitted chunk counts for the same index of the next file
  on the connection.
* The end of one of two connections with a peer pops the entry of the other
  (connection.py:150), which is served but can no longer be sent to.
* A failed chunk saves the record before the status becomes `error`
  (download_manager.py:402). After `clear_completed` the record says
  `downloading`, and start and resume answer "already active" until a restart.
* A resume of a download whose chunk was evicted merges, fails, and does so again
  at every retry. A pause that wakes late turns `completed` into `paused`.
* A sender whose chunk runs out of retries waits for ever; over an inbound
  connection it returns at once, because the message loop reads the answers.
* The entry of a lost outbound connection stays in the table: nobody reads it.
* Received chunks are saved unseen. A torn copy is handed on like a whole one,
  replaces a whole one that was saved while it travelled, and makes every later
  download of the node fail. A write that fails on a full disk leaves a torn chunk
  as a crash does (local_store.py:36). Replication writes the chunks of an upload a
  second time, so that either can damage a chunk that was whole;
  `LossNeedsATornWrite` says that this is the only way to lose one, as long as
  uploading nodes are within quota.
* The dial and the writes of `replicate_chunks` have no limit, and nobody reads an
  accepted connection at its dialling end: a large chunk written to one may block in
  `drain`, and the upload is never answered, though its file is shown
  (connection.py:38,177; replication.py:112,118).
* A torn chunk raises `ZstdError`, not the `ValueError` of routes.py:262, and the
  temporary file of the merge stays.
* A ping that is not answered is replaced by the next one, five seconds later
  (heartbeat.py:64), and so never gets fifteen seconds old: a silent peer is
  removed only when its connection has gone too. A removed peer keeps its row
  (state.py:135) and is back after a restart.
* A chat message is written to every connection of the table, but only the
  accepting end of a connection is read: the chat passes dialled connections in
  one direction. A client that leaves the list during a broadcast makes it skip
  the next client (routes.py:64). A client that a broadcast removed makes
  `disconnect` raise ValueError in routes.py:638, at the end of its handler. At
  the limit, `set.pop` may forget the id just added (routes.py:620): a message
  then passes a node again.
* `_select_targets` puts the K closest peers first and cuts at K, so that the
  scores of the selector never matter (replication.py:78). Healing asks the same
  nearest candidate in every round, even one that refuses; `HealedEventually` is
  stated for chunks whose nearest peers take them. A node counts itself as holder
  of a chunk that its collector has evicted.
* `get_storage_size` counts every file in the directory (local_store.py:87): where
  the others exceed nine tenths of the quota every chunk goes, which
  `QuotaRestored` admits.
* The bytes to free are fixed before the eviction, and temporary files of downloads
  count (routes.py:258,273): one that goes meanwhile makes the thread delete chunks
  below nine tenths of the quota, one that appears makes it stop above. The size of
  a file is read before it is deleted (local_store.py:115): a chunk that is being
  written over counts for less than it is, and more goes. `EvictsNoMore` and
  `QuotaRestored` bound both by what changed.
* An eviction between `exists` and `read_bytes` raises in `load_chunk` and ends the
  whole healing round; chunks after it wait for the next one.
* `connect_to_peer` does not compare the id in the acknowledgment with the peer it
  wanted (connection.py:183). A node that started again with a new id gets a chunk
  under its old id, which stays in the routing table until the peer lapses
  (replication.py:59, self_healing.py:107). `download_swarmed` of the SDK fetches all chunks, drops them and
  downloads the file from the first node.
* A receiver of STORE_CHUNK only logs it (node.py:41): no replica is ever stored,
  though the upload route reports them. `SlidingWindowReplicationEngine`,
  `HeartbeatMonitor` and `SelfHealingManager` are not started by the node.

## 6. The proofs

All theorems hold for every value of the constants that satisfies the named
assumptions (sizes positive, null values distinct, subsets where they are used);
the few that assume more say so. The bounds on counters that a module names are
constants too: a theorem holds with any bound.

* `DownloadManager_proofs`. `TypeCorrect` needs `References` beside `TypeOK`: a
  live worker and a waiting pause have an object. `Partition`, `Stored` and
  `Complete` rest on `ProgressInv`. `CompletedMissesNothing` alone is not
  inductive: a worker merges when it has walked its private copy of the missing
  set, so one needs that every chunk still missing is ahead of every worker in its
  loop (`WalksTheMissing`), which holds with two workers since chunks only leave
  the missing set. `Served` rests on `ServiceInv`: whoever told a worker to stop
  still waits for it on the object the worker has (`StopIsAwaited`,
  `AwaitsItsObject`), and nothing runs between the last save and the removal of
  the record (`UnlinksCompleted`).

  Three theorems are about a node where nobody pauses (`Pauser = {}`). `Managed`
  rests on `OnlyWorker`: the worker that runs is the registered one and its
  download says `downloading` until it completes, so that `StartAgain`, `Resume`
  and `ClearCompleted`, which look at the status, never replace its entry.
  `Flushed` and `Advances` assume as well that saves succeed (`~FaultyDisk`) and
  rest on `SaveInv`: the record never claims more than the download, as much once
  its worker has ended (`RecordFollows`), and what it lacks was counted since the
  last flush (`LagCounted`). Both assumptions are needed: TLC violates `FlushBound`
  and `RecordAdvances` with one pause request, which can wake late and save an old
  object, or with one failed save.
* `SlidingWindow_proofs`. `TypeCorrect`, `Bounded` (window bound, from
  `BoundInv`: a send is only begun with room, and acknowledgments only make more),
  `Tracked` (from `TrackInv`: what travels was sent) and `Refinement` (from
  `PromiseInv`: every acknowledgment under way is of a stored chunk, and an end is
  reached for the right reason). The last two are about a connection that carries
  one transfer, which is where they hold: a late acknowledgment breaks them in the
  second.
* `ConnectionManager_proofs`. `TypeCorrect`, `GreetedOnly`, `Heard` from
  `TableInv`: what the two ends, the acknowledgment and the stream of one
  connection say of each other (`EndsAgree`). `LocalStep` reduces a step of one
  connection to that connection.
* `FileSharing_proofs`. `TypeCorrect` from `TypeInv` (a request asks for, and
  replicates, chunks of the file). `NothingLost` from `KeeperInv`: before the file
  is shown no chunk travels and uploads have stored what they saved; from then on
  the node that showed it first is a keeper, that is, it has all chunks, therefore
  never asks for one, therefore never saves an answer over them, and its files are
  torn by its own crash or failed write only. `RequestStep` carries this over a step of any
  request; the upload that becomes keeper has a lemma of its own.
* `PeerRegistry_proofs`. `TypeCorrect` and `DatabaseFollows` from `Inv`: an update
  that is to use the table's own object finds one (`OwnIsListed`), and a write runs
  under the lock, alone, and writes what the table says (`LockInv`); only then is
  the table what the row will be. `AnsweringKept` adds `LoopCalls`, that the
  heartbeat has at most the one call at the lock it waits for, and `Silence`, that
  a ping is never older than the latest pong and that nobody in the list of peers
  to remove can still answer. `PongsFind` rests on `PongInv`. `handle_pong` waits
  for the lock twice, and the argument is about the order of the queue: a peer
  whose first call waits was pinged in this round at the earliest
  (`GetWhilePinging`, `GetBehindList`, `OneRound`), so it is not among those that
  expire (`NoGetOfExpired`), and its second call is granted before any removal
  (`UpdateBeforeRemove`); therefore the object it hands back is the table's own
  (`OwnObjects`). `Newest` needs this, since an object that a removal took out
  would bring an old address back, and `NewestInv`: the last call of a peer at the
  lock, or the last task if one has not begun, carries what was heard last
  (`LastQueued`, `LastReady`).
* `Healing_proofs`. `TypeCorrect` (of the bookkeeping), `HoldersWereSent` from
  `SentInv` (for whom uploads and rounds have noted, the chunk was written to the
  node at that address, too; whether it still is that peer depends on `Renamed`) and `CopiesBounded`
  from `CopiesInv` (what they have noted and what they have left does not exceed
  the factor; a round notes this node). The second needs `ClosestBound`: at most k
  peers are among the k closest, since their ranks are different numbers below k.
  The other half is about the files. `WellTyped`, `NoNeedlessEviction`
  (`EvictsNoMore`) and `EvictionsSuffice` (`QuotaRestored`) rest on `QuotaInv`: what
  is in use, what an eviction has freed and what went uncounted make up for its
  target (`FreedIsGone`); while no chunk is saved, the first two exceed it by no more
  than the other files grew (`FreedIsAll`). A chunk is stored once (`FilesOnce`), the
  list of an eviction names stored chunks, all of them as long as none is saved
  (`ListIsStored`), and a file about to go was not seen larger than it is
  (`SeenFits`). Nothing is assumed about the other files but that their bytes are a
  natural number, which changes in any step. `Used` is a sum over the stored chunks; that it
  exists, is unique, and what one chunk more or less makes of it is shown by
  induction on the number of chunks (`SumExists`, `SumUnique`, `TotalStep`,
  `TotalWithout`). Every step of the node is then one of the steps that the files
  know (`SaveStep`, `LoadStep`, `OthersStep`, `CheckStep`, `ListStep`, `StatStep`,
  `UnlinkStep`, `EndStep`) or
  leaves them alone.
* `SwarmChat_proofs`. `TypeCorrect` and the rest need `WithoutProperties`: the list
  after some were taken off it takes from every place of the old one at most once,
  puts nobody at a later place, and is the old one when nobody was on it to take.
  `Once` rests on `PassInv`: what a node let through it knows or has forgotten
  (`Entered`), a message it knows has one coroutine (`OneCarrier`), a client is
  listed once (`ListedOnce`), and those a broadcast has still to reach were not
  shown its message (`ShownAfter`, `NotYetShown`). `Audience` rests on `Serving`:
  whoever was listed when a broadcast began has been served, or is still ahead of
  its position, unless somebody left the list.
* `Chunker_proofs`. `ReaderReadsWhole`: for every size the chunks read are the
  file. `MerkleProofsSeparate`: the proof of a chunk verifies for its hash and for
  no other one. Going up, the walk meets at each level the hash at the position of
  the chunk (`WalksUp`, by `OneRound`), and each step of it is injective
  (`ClimbInjective`). `MerkleRootsSeparate`: a root fits one list of a given length.
  Lists of one length have trees of one shape (`SameShape`), and a level determines
  the one below it (`NextLevelInjective`). The theorem is about lists of the same
  length because the code duplicates an odd last hash: the list with the duplicate
  written out has the same root.

The library's induction theorems take an operator as a parameter, which the
provers cannot instantiate. Where a proof goes by induction (over the chunks of a
sum, the levels of a tree, the places of a list), the property is made a set
instead: the n for which it fails have a least element (`Least`, from `WFMin` and
`NatLessThanWellFounded`), which is not zero and whose predecessor does not fail.

The leaves are checked by Z3, Zenon and, for the temporal steps, LS4.

### Only model-checked

* The liveness properties (`PauseReturns`, `DownloadEnds`, `EndsOrGivesUp`,
  `DialEnds`, `AcceptedIsPruned`, `ProvidedIsServed`, `RequestEnds`,
  `HeardIsListed`, `HealedEventually`, `Spreads`, `FloodEnds`): liveness under
  fairness is out of the prover's reach.
* `MerkleRoots`, that the iterated root is the root of the tree defined top-down
  with a RECURSIVE operator: the provers cannot use such a definition.

## 7. Not modelled

* Encryption, configuration, logging, the wire format and the front end: no
  protocol state, or out of a model checker's reach.
* Clocks: a time-out is a step that may be taken while the thing waited for has
  not happened; the heartbeat counts rounds.
* The floating-point scores of the peer selector, which affect nothing.
* `pipeline_chunk_and_store`, `dht/lookup.py` and the SDK client: called by no
  part of the node. The client keeps no state of its own between calls.
* `replicate_file` of the sliding-window engine as a whole: its saves, its dials
  and its transfers are modelled, each in its module, and not composed.
* Start-up, the status and file-list routes: straight-line code, or code that
  only reads.
