# DWBase in TLA+

A TLA+ development of DWBase (the Rust workspace under `src/`): modules that
model its components, TLC runs over small instances, and theorems checked by
TLAPS. The storage engine, the ids given out over it and the operations of the
engine are modelled with their threads, crashes and failures; so are
replication, streams, membership, the gatekeeper, the node's handlers, the
commands that work on directories and processes, and the component's
configuration.

## The system

DWBase is a memory store. A node keeps immutable *atoms* in *worlds*, answers
questions about them, publishes new ones to streams, and replicates them to
peers.

| component | state | operations | hard behaviour | what makes it correct |
|---|---|---|---|---|
| sled storage, `dwbase-storage-sled` | bodies, log frames and id index in one sled tree; what of it is persisted; keys at rest | `append_atoms`, `delete_atoms`, `open` (`repair_logs`, `rebuild_index`), `get_by_ids`, `scan` | no lock across the writes of a call; crashes that keep a prefix; truncating repair; key rotation | an acknowledged atom stays readable and in the replay; the log records append order; repair ends with a sound log; a lost key loses no atom |
| engine, `dwbase-engine` | `id_gen`, reflex, conflict and vector indexes, suspicions | `remember`, `ask`, `ingest_remote_atoms`, `gc_once`, `manage_world`, `observe` | an await in `remember` and `ask`; check-then-act in ingest and gc; an error after the atom is stored | a delivery repeats and loses nothing; answers are sound and not empty without reason; gc keeps what is linked |
| replication, `dwbase-swarm-nats` | subscriptions (also on disk), replay guard, inbox, backoff | `announce`, `poll_inbox`, `replicate_new_atom`, `send_direct`, `request` | lost, duplicated and reordered messages, expiry, bounded buffers, restarts | a batch is taken at most once per window; a drop is counted; only subscribed and permitted worlds travel; a live subscriber is listed |
| world events | per-world buffers | `publish_atom`, `flush_all` | publishing outside the lock, failing publishes | every event is in one place; a buffer holds the newest |
| presence and membership, `dwbase-swarm` | last-seen times, failures, backoff | `upsert`, `mark_failure`, `expire` | timing of heartbeats against expiry | a live peer is listed, a dead one goes; the wait after failures is exact |
| local stream, `dwbase-stream-local` | a queue per subscriber | `publish`, `subscribe`, `poll`, `stop` | subscribe and replay racing publish | a subscriber gets each match once, and misses none |
| gatekeeper, `dwbase-security` | token buckets | `check_remember`, `check_ask` | the clock is read before the lock | no more calls than bucket and rate account for |
| vector index, `dwbase-vector-hnsw` | vectors by world | `upsert`, `search`, `rebuild` | empty after a restart; one dimension per world | an answer has atoms of its world only |
| devnet and backup, `dwbase-cli` | state file, processes, data directory, staging | `deploy_devnet`, `stop_devnet`, `create_snapshot`, `restore_snapshot` | a failure between two steps on the file system | a restore loses no data; no node is forgotten |
| node API, `dwbase-node` | `AppState.worlds` | the handlers of `remember`, `worlds/manage`, `worlds/policy`, `worlds`, `replay` | the list follows the engine's call under a lock of its own | the list shows what is there |
| Greentic component, `component-dwbase` | the configuration its host keeps | `configure`, `apply_answers` | modes in any order | once set up it stays complete; the ingress fits the URL |
| WIT host and guest, metrics, embedder, packs, CLI glue | none of their own | conversions around the above | none | not modelled |

A node's HTTP handler calls the engine; the engine calls the gatekeeper, the
embedder, the vector index, storage, its own indexes and the stream, in that
order. `gc_once` is for a background loop and `ingest_remote_atoms` for the
batches replication brings, although the node does not call them yet; nor does
it start `Replicator`, presence or membership, which are libraries with tests.
The handlers run on several threads and share one `SledStorage`, which is why
its interleavings come first.

## Modules

| module | models |
|---|---|
| `SledStore` | the storage engine with its callers' threads, sled's persistence, crashes and damage |
| `AtomLog` | what a caller relies on: a log per world that loses what it was told to delete, and in a crash an unacknowledged end (abstract) |
| `SledLog` | what callers must promise for it, and the refinement mapping from `SledStore` to `AtomLog` |
| `StoreKeys` | encryption at rest over the openings of a store, and what its reads answer |
| `EngineIds` | the engine's `id_gen` over `SledStore`, with restarts |
| `Engine` | the engine's operations and in-memory indexes over an abstract store |
| `Recall` | `ask` and its ranking, with the reflex, conflict and vector indexes that `remember` feeds |
| `Suspicion` | which calls of `remember` are quarantined |
| `Replicator` | selective replication between nodes over NATS |
| `DeltaSync` | Bloom offers and their replies over `request` and `respond` |
| `Membership`, `Presence` | the peers a node knows; heartbeats |
| `WorldEvents` | batches of events per world |
| `LocalStream`, `Node` | subscribers inside a process; the handlers that publish to them |
| `Gatekeeper` | capabilities and token buckets |
| `Backup`, `Devnet` | snapshots and restores; local networks of nodes |
| `ComponentConfig` | the configuration of the Greentic component |
| `MCSledStore`, `MCEngineIds`, `MCEngine`, `MCReplicator`, `MCParts` | values of the constants for TLC |
| `SledStore_proofs`, `SledLog_proofs` | theorems about the store; its refinement of `AtomLog`, and what the ids of `EngineIds` do for it |
| `Engine_proofs`, `Replicator_proofs` | theorems about these modules |
| `Node_proofs` | theorems about `Gatekeeper`, `Node` with `LocalStream`, `Suspicion` and `Recall`: what a node does with a request |
| `Swarm_proofs` | theorems about `DeltaSync`, `Membership`, `Presence` and `WorldEvents` |
| `Commands_proofs` | theorems about `Backup`, `Devnet`, `ComponentConfig` and `StoreKeys` |
| `Parts_proofs` | the composition of the run `parts` keeps the specification, and the types, of each component |

Time that only serves to be compared (expiry, backoff, windows) is kept as the
age of an instant, up to the age at which nothing changes any more, so that most
clocks need no bound.

### `SledStore`

`atoms`, `log` and `index` are the three key families of the tree, each a set
of records with one record per key (`PutAtom`, `PutFrame`, `PutEntry`).
`disk` is what would be found after a crash. An append is five kinds of step:
`BeginAppend` (the read of the last key in `next_seq`), then for each atom of
the batch `WriteBody`, `WriteFrame`, `WriteIndex`, and `FinishAppend` (the
flush and `Ok`); `Refuse` is the early return on a foreign world. A delete is
`BeginDelete`, one `StripAtom` per id, one `RemoveFrame` per frame met by the
scan, and `FinishDelete`. Opening is `Open` (the list of worlds),
`RepairWorld` and `Truncate` for each, and `RebuildIndex`. `job[t]` holds the
locals of the call that thread `t` is in. `Persist` and `Crash` are sled, as
the code uses it: writes reach the disk in order, so that the disk is always
some earlier state of the tree, and a flush brings it up to date. `Damage`
makes a frame undecodable while the process is down, which is what the repair
is written for.

`sent`, `acked`, `dropped` and `before` are history: what was handed to append,
what append answered `Ok` for, what was handed to `delete_atoms`, and for each
id what had been acknowledged when its append began.

What is abstracted: an encoded atom is a member of `Bytes` and its checksum is
that member, so CRC collisions and decoding failures of bodies are out, and
encryption is `StoreKeys`' subject; `Segment[w]` is a world's name up to its
first `/`, which is all that `world_from_key` keeps of it; names that contain
`/log/` or `/atoms/`, whose keys run into those of other worlds, are out; an
index entry has no sequence number, since no code reads it; the two removals of
`StripAtom` are one step and so is `RebuildIndex`, for the reasons given at
each; I/O errors of sled are out.

Two constants state what callers and configuration promise. `FreshIds`: no id
is appended twice. The storage engine does not check it, the engine above does
not keep it across restarts (`EngineIds`), and most properties need it.
`FlushOnWrite` is `SledConfig.flush_on_write`, true in a node.

### `AtomLog` and `SledLog`

`AtomLog` has six actions: an atom enters above everything in its world's log, an
append is acknowledged once its atoms are in the log, a deletion is asked for
(`Delete`) and done (`Remove`), a crash takes away at most an unacknowledged end
and may bring back what was deleted, and the store opens again unchanged. Its
`Promise` is what a caller concludes in every state. `SledLog` maps the replay of
the sled store (the frames in order, those without a body skipped) to it.

`CarefulSpec` is `SledStore` for callers that keep two promises.
`OneAppendPerWorld`: no two appends to a world at a time, since `append_atoms`
locks nothing. `Settled`: the process does not die between the two halves of a
delete on disk, its body gone and its frame not. `store_seq_race` and `store_gc`
show what happens without the one and the other. Whoever deletes nothing keeps
the second by itself. Any number of threads may append to different worlds,
delete anywhere, die in an append, in a recovery, or after a delete.

### `EngineIds`

`remember` takes `atom-<n>` from `id_gen` and reaches `storage.append`. A
restart is a crash of the store, its reopening, and a new engine whose `id_gen`
is 1. Timestamps and payloads make two atoms differ in their bytes.

### `Engine`

`store` is the logs of the worlds, `reflex` the atoms in the buckets of
`ReflexIndex`, `conflicts` the atoms `ConflictIndex` has registered, in order;
`idGen` and `clock` are what `new_id` and `now_timestamp` read. `job[t]` is the
call thread `t` is in: `rest` begins with the atom in hand, `victims` and `seen`
are what `gc_once` keeps between its scan and its delete. `left` counts the calls
of each kind that a behaviour still has.

`remember`, `ingest_remote_atoms` and `manage_world` end in the same four steps,
`StoreAtom`, `InsertReflex`, `Register` and `Publish`; `RefuseTimestamp` is the
error between the first two. Before them come `BeginRemember` (up to the await
on the embedder, with whatever labels the caller gives, those of a status
included), `LookUp` (the check for a stored id) and `BeginManage` with
`Stamp` (the read of the status, then the new `world_meta` atom). `BeginGc`,
`Scan` and `Evict` are `gc_once`, whose delete may fail half way; `Abandon` is
every other error, and a caller that drops the future; `Finish` is `Ok`;
`Restart` builds a new engine over the same storage, whose ids begin at 1 again,
so that a new atom may replace the body of a stored one (`Overwritten`).
`Answer` is what `ask` finds without a filter.

Storage is an abstract log here, one step per append, scan and delete:
`SledStore` is about what is behind those steps, and its violations (lost
frames, truncated logs) are out of this module. `published`, `fed`, `accepted`,
`evicted` and `acts` are history, and so are two records of what the code does
not guard against: `shared`, the ids that were given out although storage held
them or that two calls stored after both had looked them up in vain; and `mixed`,
the worlds in which such an id was stored over, or another call than
`manage_world` wrote a status. What else is abstracted:

- Time is one counter that every reading moves on, so that days of retention and
  seconds of recency are the same unit; timestamps before 1970 are out.
- An atom has at most one policy label. `PolicyWorlds[w]` lists the worlds whose
  policy atoms rule `w`: itself, `policy:<w>`, the policy world of the tenant. As
  in the code a later one wins, so a tenant's policy overrides a world's own.
- Whether `remember` finds an atom suspicious is left open (`Suspicion` has it);
  the world it goes to then is `Quarantine[w]`.
- The vector index and the ranking are `Recall`'s; `index_state`, which changes
  when the embedder's version does, is out.

Deliveries may run at once and ids come again; no promise of the callers is
assumed. `AtMostOnce` says what is true nonetheless: whatever repeats in storage,
in the conflict index or on the stream was evicted, or has a `shared` id.
`IngestIdempotent` is what the comment on `ingest_remote_atoms` promises, and is
violated. So far only the engine's tests call `gc_once`, and nothing under `src/`
calls `ingest_remote_atoms`; both are public operations of an engine that a node
shares between its threads.

### `StoreKeys`

A body (`bodies`) is the atom and its `seal`: nothing, or the key id and the key
it was sealed with. `open_store` may take another provider and another key id,
and runs the repair; `append_atoms` fails when the id has no key that fits, and
`confirmed` are the places of those that answered `Ok`. The reads are
operators that answer places or an error: `Walk` is the loop of `scan` and of
`list_ids_in_window`, which give up at the first body that does not open;
`get_by_ids` and `stats` are different in that. `SledStore` has the threads and
crashes, this module has neither.

### `Recall` and `Suspicion`

`frames` is what each place of the logs holds. `remember` is `BeginRemember` (to
the embedder and back), `UpsertVector`, `Store`, `Insert`, `Register`, each of
which others may see; `ask` is `AskQuestion` (reflex), `Scan`, `Search`,
`Fetch`, `Gather` (what is to be sorted) and `Answer`. The comparator reads the
conflict index for every comparison, so the sort lies between the last two: if a
`Register` changed the scores of what is sorted in between (`Standing`), any
order may come out, and if not, the order is the one by those scores (`calm`).
`GiveUp` is an error, or a caller that drops the future, at any await. The
search may answer any of the points of the world, since which are nearest is
numeric; a filter that names a kind, label or flag finds none, because `upsert`
stores default metadata. A world's first vector fixes the length that later ones
must have. `Evict` is gc, which deletes from storage alone. `ProcessDies`
empties the indexes and starts `idGen` over, so that two atoms may share an id.
`reissued` is the history of the ids that came again, an atom made once more
exactly as before included, and the properties except those ids.

`Suspicion` has the two moments of a call as steps apart: `ReadClock`, and
`record_suspicion` under the lock. `SecondPasses` is the clock.

### `Replicator`

`intents` and `mail` are what is on its way, `rx` the transport's receive buffer,
`inbox` the replicator's. `Announce` and `Hear` are the announcement and its
handler; the file is written by a step of its own, `Persist`, for each of the two
who may have changed the table. `replicate_new_atom` is `BeginReplicate` (prune),
`Collect`, one `SendOne` for each peer, `EndReplicate`. `PollOne` is one round of
`poll_inbox`. `Receive` may leave the message to come again, `Lose` drops it,
`SendGarbled` puts one there that does not decode, `Crash` may tear the file, and
`Start` reads what is left of it, perhaps with other patterns of its own.
`seen` is the replay guard; `took`, `handed` and `heard` are history.

### `DeltaSync`

`request` publishes an offer and waits; `Subscribe` is the task that
`NatsBus::subscribe` leaves the subscription to, which may come after the
offer is on its way, or after the reply. `respond`, `Receive`, `Take` and
`Timeout` are the rest; `Fault` loses and repeats, `Learn` is the peer getting
an atom it lacked. The bits of an id are given,
so that a false positive is a choice of constants (id 4 in the run). Who calls
`request` and `respond` is taken from the tests, as nothing else does.

### `Membership`, `Presence`, `WorldEvents`, `Gatekeeper`

`Membership` is owned by one task: each call is a step. `Presence` has time with
its promptness: a due hello goes out before the next tick and arrives within
`Latency`; a node publishes from its start on and hears once its subscription
stands (`subscribe_hello`), which may be after the first hellos, or never; and
`TtlAssumption` says for which ttls nodes can hear each other at all. In
`WorldEvents` a thread takes a batch out under the lock and publishes it in a
step of its own. In `Gatekeeper` a call reads the clock in one step and charges
the bucket in another; `back` counts the seconds that a call with an older
instant set `last_refill` back, which are refilled twice.

### `LocalStream` and `Node`

`LocalStream` is the state and the calls of the stream engine, under one lock
each; `Node` extends it with the handlers: `Remember`, `SetPolicy`, `Manage` with
`Stamp`, then `StoreAtom`, `PublishStored`, and `UpdateList` under the lock of
`AppState.worlds`. `Replay` is a subscriber that asks for the past once it has
subscribed. `Segment` is as in `SledStore`. `acked`, `settled` and `crossed` are
history: the ids whose call answered `Ok`; for each world what callers of this
process were told, until a call begins that may undo it; and the calls that such
a call crossed, of which nothing is promised. Ids go on counting over a restart
here, other than in the code: what an id that comes again does to stored atoms is
`Engine`'s and `EngineIds`' matter, and what `Node` says it says within one
process.

### `Backup`, `Devnet`, `ComponentConfig`

`Backup` is the sequence of file operations of a restore (`Unpack`, `LookAt`,
`RemoveData`, `Rename`), any of which may be the last (`Die`); `owed` is what
the directory should come to hold, which changes when the operator forces a
restore of a whole archive. `Devnet` has several commands at once over one state
file: `Spawn` and `Push` are apart, since a node runs before its pid is tracked;
`Deploy` reads the state file and `PruneState` writes it back without the dead,
and any write may fail, or be cut short and leave a file that does not parse
(`CutShort`). `loose` collects the nodes of which nothing can be expected to
know: those of a killed deploy, of a file that was torn or that another command
replaced, of a failed kill. `ComponentConfig` is one action: a host calls
`configure` and keeps what it gets.

## Runs

| run | instance | result |
|---|---|---|
| `store_threads` | 2 worlds (one with `/`), 3 ids, 2 threads, 1 deletable id, 1 crash, 1 damaged frame, 3 sequence numbers | `TypeOK`, `AckedReadable`, `ReplayOrder`, `FramesBacked`, `Repaired` hold (about 4 million states up to symmetry) |
| `store_log` | `CarefulSpec`: 1 world, 3 ids of which 1 deletable, batches of up to 2, 2 threads, 2 crashes, no damage | `AckedReplayed` and `ImplementsAtomLog` hold (448 025 states) |
| `store_seq_race` | 1 world, 2 ids, 2 threads, no fault at all | `IntactReplayed` violated |
| `store_gc` | 1 world, 2 ids, 1 thread, 1 crash | `IntactReplayed` violated |
| `store_slash_world` | 1 world with `/`, 1 id, 1 crash | `AckedReadableAnywhere` violated |
| `engine_ids` | 1 world, ids 1 and 2, 3 bodies, 2 crashes | `IntactReplayed` violated |
| `engine_calls` | a world and its policy world, 2 threads, 1 restart, window 2, and one of: 2 remembers (superseding a peer's atom, setting a policy, or writing a status with a timestamp that does not parse), a batch of 3 and a gc; 1 remember, the batch twice and a gc; 3 calls of `manage_world`; one of each but ingest | `TypeOK`, `AskFindsRecent`, `AtMostOnce`, `AcceptedStored`, `LastActionHolds`, `SeenLinksKept` hold (about 1.1 million states) |
| `engine_gc` | 3 worlds, 2 threads, no restart | `LinkedNeverDeleted` violated |
| `engine_peers` | 1 world, 1 thread, a peer that numbers from 1 too | `AcceptedWhole` violated |
| `engine_twice` | 1 world, 2 threads, a batch of 1 delivered twice | `IngestIdempotent` violated |
| `replication` | 2 nodes, one of which announces either of two patterns, 2 atoms of which one may not be sent, expiry 1, 2 places in the inbox, 1 fault, fairness | `FileAgrees`, `InboxAccounts`, `SentToSubscribers`, `TakenOnce`, `SubscriberListed`, `BufferDrained` hold |
| `parts` | 12 components, one after the other | `PartsTypeOK` and 20 properties hold (2.1 million states) |

The bounds are chosen so that each hazard fits twice where twice matters: two
threads are enough for one frame to replace another and for a delete to
interleave with an append; three ids let one atom be deleted or overwritten
while another is acknowledged before and a third after; one crash with a damaged
frame covers a repair that truncates, two crashes a repair that is itself
interrupted. The two-crash case is checked without damage in `store_log`, and so
are batches of two. What neither reaches, a batch of which half is there after a
crash and a truncation of damage that is itself interrupted, is left to the
theorems below, which hold for any number of crashes, damaged frames and atoms
in a batch. In `engine_calls` the batch has an old atom, one whose timestamp
does not parse and one that links to the first and is newer by more than the
retention: its delivery fails half way, the second completes it, and gc has a
victim that is linked to. Three calls of `manage_world` are two that race and
one after them. `replication` has two batches of which both may be delivered,
two places in the inbox and one in the replay guard, so that a repeated message
finds the guard forgetful and the inbox full of two different batches, in either
order. Symmetry permutes threads and the ids that are not deletable; no liveness
property is checked under it. Deadlock is not checked: with bounded sequence
numbers and faults an instance ends.

### The run `parts`

`MCParts` extends 12 modules that share no state, so that the run checks their
properties under the names the theorems use. A behaviour chooses a `part` at the
start and takes steps of that one alone, so the states are those of 12 separate
runs:

| part | instance | properties |
|---|---|---|
| membership | 2 peers, 1 advert, expiry 2, base 1, exponent at most 1, 3 failures | `BackoffExact`: a failed peer is eligible again after exactly the doubled wait. `ExpiresSilent`: only the silent expire, and all of them |
| presence | 2 nodes with ttl 4 and 6, latency 1, late or missing subscriptions, 1 death, 1 lost hello | `RunningListed`, `DeadNotListed` |
| events | 2 worlds, 2 threads, batches of 2, 4 events, 1 failure | `EachEventOnce`: in one buffer, hand, batch, or counted as failed. `BufferNewest` |
| gate | 2 threads, 1 worker, rates 1.5 and 0.5 a second, 3 seconds | `AdmittedAccounted` |
| backup | 2 contents, 2 deaths, 2 writes | `NothingLost` |
| devnet | 2 commands, 2 nodes each, 4 pids, 1 kill, 1 failure, torn files | `NoOrphans` |
| config | every combination of answers for 6 keys, 3 modes | `CompleteOnceSetUp`, `IngressFresh` |
| node | 2 threads, a world with policies, one with `/`, their quarantine worlds, 2 atoms, 2 calls of manage, 1 restart, 1 subscriber | `NothingMissed`, `ListedWorlds` |
| recall | 1 writer, 1 asker, 3 worlds, 2 atoms of which one supersedes the other, vectors of two lengths, 1 eviction or restart | `AnswerSound`, `EmptyMeansNone`, `CurrentFirst` |
| suspicion | 2 threads, 1 worker, limit 2, 4 calls, 3 ticks | `SpamCaught` |
| keys | 2 worlds, 2 key ids, 2 keys, one too short, one missing, 2 bodies, 3 openings | `RotationReads`, `KeysLoseNothing` |
| delta | 2 threads, 2 requests, 4 ids with a false positive among them, 1 fault | `OwnReply` |

Twice is again what matters: two calls in the reverse order of their instants,
two flushes, two deploys, two requests of which one is late, a second restore
after a first that died, a third opening after a rotation. Rates of 1.5 and 0.5
a second are the two sides of a token. The atoms of `recall` are those a
quarantine, a supersession and a vector of another length need.

### Fairness

The safety runs assume none: neither store nor engine promises progress of its
own, and a call runs as long as its thread does. `replication` checks
`FairSpec`: time passes (`Tick`); messages that the broker does not lose are
delivered to the handler (`HearFrom`, for each node and announcer other than
it); the writer of the file ends (`Persist`); and the host calls `announce` and
`poll_inbox` again and again. The last is not the library's doing, which has no
thread for it: it is how its tests and its callers must use it, and without it
no subscriber could stay listed. `HearFrom` is weak: an announcement may be
lost, as often as `MaxFaults` allows, and only so often; a bus that loses for
ever lists nobody. Deliveries of atoms, sends and starts are not assumed fair.

### What the violations say

- **`engine_ids`.** `id_gen` starts at 1 in every process
  (`dwbase-engine/src/lib.rs:530`). After a restart `remember` stores a new atom
  under the id of an old one. The old frame now fails its checksum, and the
  second restart cuts the log from it, with every intact atom behind it.
- **`store_seq_race`.** `next_seq` is read without a lock
  (`dwbase-storage-sled/src/lib.rs:410`). Of two concurrent appends to a world
  one frame replaces the other; both answered `Ok`, both can be read by id, one
  is never replayed.
- **`store_gc`.** `delete_atoms` removes bodies before frames and does not
  flush. A crash in between leaves a frame that repair takes for damage, and
  the truncation takes sound frames with it.
- **`store_slash_world`.** Worlds such as `tenant:demo/chat` (the example of
  `docs/cli.md:57`) are listed by their first part only. After a restart the
  rebuilt index does not hold their atoms and the fallback of `get_by_ids`
  looks in the wrong world; repair and gc never visit them.
- **`engine_gc`.** `gc_once` collects the referenced ids from a scan and deletes
  afterwards (`dwbase-engine/src/lib.rs:1061`). An atom stored in between may
  link to a victim. `SeenLinksKept` is what remains true.
- **`engine_peers`.** `ingest_remote_atoms` skips an atom whose id it has, and
  every node gives out `atom-1`, `atom-2` and so on. A node with atoms of its own
  skips those of its peer and answers `Ok`. `AcceptedStored` is what remains
  true: something is stored under every id of the batch.
- **`engine_twice`.** The look-up of an id and the append are steps apart
  (`dwbase-engine/src/lib.rs:1035` and `:1045`), so two deliveries of one batch at
  the same time store, register and publish its atoms twice, which the comment at
  `:1030` excludes. `AtMostOnce` is what remains true.

`AckedReadable` is therefore stated for names without `/`, and `AckedReplayed`
is checked, and proved, for callers that append to a world one at a time and
do not die in the middle of a delete; `engine_ids` is why ids must be fresh.
In the same way `LastActionHolds` leaves out worlds in which a caller or a peer
wrote a status atom by itself: `remember` takes any labels, and a clock that is
ahead would decide the status (see below). `ListedWorlds` promises what a caller
was told, until another call on that world that may undo it begins, and nothing
of two calls that cross and undo each other: the lock of the list is taken after
the engine's call, so an archive and a resume may reach the two in different
orders, and a world with `/` may be missing from the list while it is active.

### What the models show beside their properties

No text of the repository contradicts what follows, or none that a run could
decide, so it is no finding:

- **engine.** After a restart the first atom in the reflex index of a world
  hides every older one from `ask`; an atom delivered again after gc evicted it
  comes back; a `world_meta` atom from a peer whose clock is ahead decides the
  status until time has caught up; one atom dated ahead makes gc expire the
  others, as it takes the newest timestamp for the present. The conflict index is
  empty after a restart, so that what was superseded ranks as before, and
  confirmations may lift a superseded atom over its successor.
- **`ask`.** The flags of a filter exclude in the reflex index and are required by
  the scan; `until` and `limit` are not looked at by the reflex index; the limit
  0 of a scan lets one atom through; a filtered vector search never finds
  anything. An index is always ready, and `max_index_rebuild_lag_ms` is always
  `None`.
- **suspicion.** A payload that contains "nan", as in "finance", counts as
  impossible, and the caller is not told that its atom went to quarantine.
- **delta sync.** A false positive of the Bloom filter comes again with every
  retry, since the hash keys are constants; each request leaves a subscription.
- **world events.** An event that nothing follows stays in its buffer until
  `flush_all` is called; no timer does.
- **devnet and backup.** A Ctrl-C between the start of a node and its tracking,
  two deploys at once, and a failed kill leave nodes nobody knows of. A forced
  restore of an archive without data costs the directory its own. The soak
  driver's `corrupt_tail` opens the directory its own engine holds locked.
- **component.** An `update` before any setup enables a component without its
  required keys; `ingress_enabled`, which a remove sets to false, is never set
  back.
- **node.** `ListedWorlds` cannot be had for every world with atoms: a name with
  `/` enters the list by the calls of this process only, and a restart forgets
  them. Worlds with plain names are listed again from storage after a restart,
  while `docs/cli.md:10` describes the list as "Worlds remembered since the node
  started (kept in-memory)".
- **presence and replication.** Two nodes whose ttls do not satisfy
  `TtlAssumption` lose each other between heartbeats. `send_direct` answers `Ok`
  when the limiter or the backoff drops a message, and nobody sends it again.

## Proofs

`SledStore_proofs` proves, for all values of the constants that satisfy the
two assumptions of `SledStore`:

- `TypeCorrect`: `Spec => []TypeOK`. Inductive with `HasWork`: a thread in the
  loop of `append_atoms` has an atom left.
- `RepairCorrect`: `Spec => []Repaired`. `RepairInv` adds that no thread runs
  while the store is opening, and that an invalid frame of a listed world is
  doomed or in a world still to be scanned. It needs no assumption on ids.
- `AckedReadableCorrect`, from `FreshIds` and `FlushOnWrite`. `SentInv`: an id
  names one atom for ever and every copy of an atom, in the tree, on disk or in
  a thread's locals, was sent. `StripsDropped`: what a delete still removes is in
  `dropped`. `BodyInv`: what was written stays in the tree unless dropped, and
  what is acknowledged is on disk too, which is what survives a crash. The
  fallback of `get_by_ids` then does the rest, whatever the index holds.
- `FramesBackedCorrect`, from `FreshIds`. `FrameInv` states the property of the
  tree and of the disk, and that a closed store has nothing that is not on disk;
  a crash moves the disk's half to the tree.
- `ReplayOrderCorrect`, from `FreshIds`. `ClaimInv`: the ids of a running append
  are its own and not acknowledged, and `before[i]` holds acknowledged ids only,
  so no frame being written can be one that something else must follow.
  `OrderInv`: the order holds in the tree and on disk, and a running append
  writes above every frame of its world that was acknowledged before it began,
  although other threads may write, and reuse, any number in between.

`Engine_proofs` proves, for all values of the constants that satisfy the
assumptions of `Engine`, which ask nothing of the callers:

- `TypeCorrect`: `Spec => []TypeOK`. `HasWork`: a thread that stores, indexes or
  publishes has an atom in hand, and one in `manage_world` an entry in `acts`.
- `AskFindsRecentCorrect`. `IndexInv`: an indexed atom that is no longer in the
  index is older, by more than the window, than some atom that was indexed. That
  one may be gone as well, so the argument is over `fed`, not over `reflex`.
- `AcceptedStoredCorrect`. `IngestInv`: an atom of a batch in delivery is still
  ahead, or stored, or evicted; so is the atom in hand once it has been stored.
- `SeenLinksKeptCorrect`. `GcInv`: no atom of the scan links to a victim.
- `AtMostOnceCorrect`. `HandInv`: calls other than ingest have one atom in hand
  or none. `OnceInv`, of ids neither evicted nor `shared` (`Exempt`): what is
  stored has one entry, what is registered or published is so once and is stored
  or was (`Once`); the atom in hand is not yet where it goes next (`Ahead`); two
  threads have the same id in hand only while neither has stored it (`Apart`),
  and the first that stores it makes it shared.
- `LastActionHoldsCorrect`, of the worlds that are not `mixed` (`Clear`).
  `ClearInv`: ids there are unique and no victim of gc is a status atom;
  `Chosen`: victims are ids the world has or had. `ActInv`: a running call
  belongs to one thread. `StampInv`: every status atom has a timestamp of its
  own, taken under this clock. `WinnerInv`: the call that ended last, among
  those none began after, has written the newest status of its world, or found
  it there; whoever may still write has a later timestamp, or has yet to read
  the status.

`SledLog_proofs` is about `CarefulSpec` under `SoundStore`: fresh ids,
`FlushOnWrite`, and no stored frame damaged. Threads, worlds, batches, deletes
and crashes are as many as one likes. It uses the invariants of `SledStore_proofs`
(`StoreInv`) and adds `LogInv`. Of the tree and of the disk: a frame is of an atom
that was sent, alone at its position and alone for its id (`FromSent`, `Keyed`);
what was persisted and not given up is still in the tree, and frames not yet
persisted stand above the others (`DiskKept`); an acknowledged atom has its frame
in both, or was given up (`AckedFramed`). Of each thread: it writes above every
frame of its world (`OnTop`), and each atom of its batch that is done has a frame,
the others none (`JobFramed`, `Unframed`); what a delete still has to remove was
given up (`DeletesDropped`). Of recovery: with a settled disk every frame is
valid, so that nothing is truncated (`Whole`). TLC checked `LogInv` with two
worlds and two deletable ids before it was proved.

- `AckedReplayedCorrect`: an acknowledged atom that nobody deleted stays in the
  replay over any number of crashes, also in the middle of a repair.
- `SledImplementsAtomLog`: initial states map to initial states, and each step of
  `SledStore` is a step of `AtomLog` under the mapping or leaves it unchanged.
  `WriteFrame` is the abstract append, `FinishAppend` the acknowledgement,
  `BeginDelete` asks and `StripAtom` and `RemoveFrame` remove; a crash is the
  abstract crash, because of `DiskKept` and `AckedFramed`.
- `AtomLogPromise`: what implements `AtomLog` has its `Promise` in every state.
  The abstract specification proves it by itself, without a look at the store.
- `KeepersAreCareful`, `OneWriterReplayed`: where nothing is deleted, `Settled`
  is not an assumption: a behaviour of the plain `Spec` whose appends to a world
  come one at a time is one of `CarefulSpec`, and so is every behaviour with one
  thread.

Its last part discharges the assumption on ids as far as the engine earns it.
`EngineIdsFresh` is about `EngineIds` with any value of `FreshIds`, false as in
its run included: as long as the process does not die (`OneLife`) its steps are
those of the store with `FreshIds` true, since `id_gen` lies above every id that
was sent. `EngineOrder` and `EngineReadable` are `ReplayOrder` and
`AckedReadable` for the engine's own appends, from the theorems about the store.
With a restart the step fails, as `engine_ids` shows.

`Replicator_proofs` (its assumptions on the constants are `ASSUME`d in
`Replicator`):

- `TypeCorrect`, and `FileAgreesCorrect`. `FileAgrees` is inductive with the
  types: whoever changes the table is in `unsaved` until the file holds a table at
  least as new, aging keeps both sides alike, and a crash or a torn file is made
  good by the `Load` of the next start.
- `SentToSubscribersCorrect`. `HeardInv`: what is live in the table, in the file
  or in the copy that a sender took has been announced, which a restart with an
  old file does not change.
- `TakenOnceCorrect`. `GuardInv`: the guard is sorted by age and holds, for each
  batch taken, the record of it, unless `MaxIds` later ones of that peer have
  displaced it or the window is over. Whatever is taken again is one of these.
- `InboxAccountsCorrect`. The property is inductive with the types: each batch
  accepted is in the inbox, was handed over, or was dropped and counted.

The other proof modules hold for every value of the constants that satisfies the
module's assumption about them (`BackupAssumption` and so on), which the
theorem names as its hypothesis:

- `Swarm_proofs`, `EachEventOnceCorrect`. `PlacesInv`: every accepted event is
  buffered or out, what is out is in one hand or was published or failed, and no
  place of a hand or of the bus holds what another does.
- `Swarm_proofs`, `BufferNewestCorrect` and `EventsTypeCorrect`. `BufferedOwn`:
  a buffer holds accepted events of its world. `OutAccepted`: so is all that was
  taken out. A new event has the largest number, and what is taken is taken
  whole.
- `Swarm_proofs`, `OwnReplyCorrect` and `DeltaTypeCorrect`. `Numbered`: the r-th
  request has the r-th subject. `SentFits`: what is on its way is the filter of
  its offer. `MailFits`, `BufferFits`, `ReturnedFits`: every reply, in the mail,
  received or returned, is one its request could have got; offers never change
  and the peer's ids only grow.
- `Swarm_proofs`, `BackoffExactCorrect`, `ExpiresSilentCorrect` and
  `MemberTypeCorrect`. `MemberInv`:
  what the struct keeps of a known peer is the age of its last sign of life, its
  failures in a row, and what is left of the wait since the last of them. That
  the powers of two grow is a fact about a recursive function; it is proved by
  the least exponent that would break it (`SomeLeast`).
- `Swarm_proofs`, `PresenceTypeCorrect`, `RunningListedCorrect` and
  `DeadNotListedCorrect`. `PresenceInv`: an entry has its peer's ttl (`OwnTtl`),
  what is known of a dead node is as old as its death but for the latency
  (`DiedLately`), and of a running node that lost no hello a hello of the last
  round is in the table of whoever listens or on its way, also of the round before
  while this one's is on its way (`LastRound`, `RoundBefore`); who has only just
  subscribed has no such claim yet (`SubscribeStep`). Only `RunningListed` needs
  `TtlAssumption`: nodes whose ttls do not fit still forget the dead.
- `Node_proofs`, `AdmittedAccountedCorrect`. For each bucket, calls let through
  and tokens left are within the capacity and what the rate adds up to the
  instant it was last charged, the seconds `back` included: inductive with the
  types and `Untouched`, nothing being counted for a bucket nobody asked for.
  `GateTypeCorrect` says besides that a bucket never holds more than its capacity.
- `Node_proofs`, `NodeTypeCorrect`, `NothingMissedCorrect` and
  `ListedWorldsCorrect`, by one invariant, `NodeInv`. `HoldersApart`: two calls
  hold different atoms, stored from the append on and not before. `LinesSound`:
  what a subscriber was sent is stored, each atom once, and nothing that is yet
  to be published. `Covered`: what a subscriber that replayed lacks is about to
  be published. For the list, `ListInv`: a call that nothing crossed runs beside
  none that may undo it (`UncrossedAlone`), and its atom is the latest of its
  world that could undo it (`AtomsSay`, `StampsLatest`); so what is settled is
  the status in storage and in the list, and nothing that may undo it runs
  (`SettledStands`).
- `Node_proofs`, `SuspicionTypeCorrect` and `SpamCaughtCorrect`. `LastKept`: what
  is kept of a worker is the end of all that was recorded, and each instant
  before it was older than the window at a later call, whatever the order in
  which threads took the lock.
- `Node_proofs`, `RecallTypeCorrect`, `AnswerSoundCorrect`,
  `EmptyMeansNoneCorrect` and `CurrentFirstCorrect`. `MintedOnce`: atoms that
  share an id have a reissued one. `Remembering`: an atom in hand is not
  acknowledged and nobody else's, so storage never gains an atom that an ask
  which found none ought to have found (`NothingOwed`); it may lose them to gc.
  `Looking` and `HasAnswer` follow an ask through its steps. `RecallInv` was
  checked by TLC with two writers and two mishaps before it was proved. For
  `CurrentFirst`, `RankInv`: the conflict index has the targets of all atoms
  that this process answered (`KnownLinks`) and nothing that no atom says
  (`LinksMinted`); an ask knows only registered atoms (`SortsKnow`); with scores
  that stood still under the sort the order is theirs (`AnswersOrdered`, and
  lemma `SupersededIsBelow`).
- `Commands_proofs`, `NothingLostCorrect`. `BackupInv`: the data owed are in
  place or in the archive; from `LookAt` on, staging holds what the archive
  does; once a restore may remove, what is owed is in the archive. It says more
  than `NothingLost`, whose third place is needed by no behaviour.
- `Commands_proofs`, `NoOrphansCorrect`. `AllKnown` is the property node by node;
  `TrackedBeforeSave`: a deploy with an untracked pid has not all its nodes yet,
  so what it saves is everything it spawned. `NothingElse`: only a deploy that
  spawns has nodes it might lose.
- `Commands_proofs`, `CompleteOnceSetUpCorrect` and `IngressFreshCorrect`.
  `Complete`: the required keys are there with values a setup would take;
  merging replaces a required key by a validated answer or keeps it. The
  ingress is computed from the very map it is put into, and what is put in after
  it are keys it does not depend on; only a remove changes its sources later,
  and that disables.
- `Commands_proofs`, `KeysTypeCorrect`, `RotationReadsCorrect` and
  `KeysLoseNothingCorrect`. `KeysInv`: what is confirmed is a place of the
  sequence of bodies. The rest is about the reads: a walk over bodies that all
  open answers everything, whatever id the store was opened with.

- `Parts_proofs`, `PartsApart` and `PartsTypeCorrect`. A step of the composition
  is, for each of the twelve components, a step of its own or none; so what is
  proved of a component's specification holds of the specification the run `parts`
  checks, its types among it.

Every invariant and action property of a passing run is thus stated by a theorem.
Only model-checked are the liveness properties `SubscriberListed` and
`BufferDrained`, which are out of the prover's reach, and what the violating runs
show. Of compositions the theorems have `EngineIds` over `SledStore` and the parts
side by side; `Engine` rests on an abstract store, `Replicator` on atoms that
are given. No RECURSIVE operator occurs; the
one recursive function is `Factor` in `Membership`.

## Faulty variants

For each property of a passing run there is a variant of one definition, as a
plausible bug would have it, under which TLC finds the property violated: a
sequence number too low (`LastSeq`, `FirstFreeSeq`), a doubled wait one failure
early (`DelayShifted`), a table that ignores a peer it has (`InsertNew`), a
buffer that is copied where it should be taken (`TakenCopies`), one reply subject
for all requests (`SubjectOfNode`), and so on. Each stands before the definition
it varies, marked as faulty; no action uses them.

## Not modelled

- The CLI's commands around `Backup` and `Devnet`, the soak driver, metrics, the
  dummy embedder, the pack runner, benches, core types, and the WIT host and
  guest: conversions, printing and data without a state that an interleaving or
  a fault could spoil.
- `index_state` and its file: the version of an embedder never changes while a
  node runs, so no rebuild is ever due; `SummaryCatalog`, which only tests fill;
  `observe`, one publish. This is what keeps the engine "partly".
- The nearest-neighbour search and the hash functions of the Bloom filter, which
  are numeric: what they may answer is left open.
- The UDP transport of `dwbase-swarm` and the rest of its loop, whose received
  envelope nothing reads.
- A snapshot of a directory a node is writing to: what tar reads of a live sled
  file is sled's affair.
- The wait for sled's file lock, which is wall-clock time.

## Left to do

The composition of `Engine` with the store as `AtomLog` promises it, so that
`AtMostOnce` and the crashes of storage meet in one model, and two engines with
`Replicator` between them once a node ingests what it polls.
