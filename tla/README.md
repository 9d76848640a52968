# A TLA+ model of the es broker

`es` is an event log with topics, partitions and consumer groups: one broker
process keeps every partition as a directory of segment files, and a partition
may be replicated by Raft.  This directory holds TLA+ models of the parts whose
correctness depends on the order in which things happen: threads that share a
lock, messages that are lost or late, files that are replaced one after the
other while the power may fail.  TLC checks them on small instances and TLAPS
proves some of the results for all instances.

Paths are relative to `crates/es-broker/src/` unless they start elsewhere.

## 1. The system and its parts

| Part | Code | State | What is hard about it | Module |
|---|---|---|---|---|
| append path and group commit | `partition.rs`, `storage/segment.rs` | two mutexes, write sequence, `latest`, `synced`, `unsynced`, `poisoned` | a segment rolls while another thread is inside `sync_upto`; a failed fsync | `GroupCommit`, `DurableLog` |
| segments: rolls, reads, retention, compaction, recovery | `partition.rs`, `retention.rs`, `compaction.rs`, `storage/recover.rs`, `tiered_storage.rs` | the segment snapshot, the files, the marker, cold copies | four actors on one snapshot; a crash inside a swap; lock-free readers | `Segments` |
| Raft core | `raft/state.rs`, `raft/node.rs`, `raft/messages.rs` | term, vote, log, snapshot, commit index, followers' indices | lost and reordered messages, crashes inside a persist | `Raft` |
| Raft files | `raft/log.rs` | hard state, log file, snapshot file | a crash at any step of a persist; torn and unsynced writes | `RaftStore` |
| Raft transport | `raft/transport.rs` | queues, sessions, registered groups, inbound slots | reconnection, registration races, connections that vanish | `Transport` |
| replicated partition | `raft_partition.rs` | waiters, assigned offsets, the apply loop, the partition behind it | offsets assigned before Raft decides; replay after power loss | `ReplicatedPartition` |
| snapshot transfer | `raft/node.rs`, `raft_partition.rs`, `partition.rs` | the leader's cursor, chunks in flight, what is synced | late answers, restarts and retention in the middle of a transfer | `SnapshotTransfer` |
| idempotent producers | `producers.rs`, `dataplane.rs` | windows per partition, journal, rotated journal, snapshot | retries beside the original, journal compaction, expiry, crashes | `Producers` |
| group coordinator | `coord.rs`, `http/coord.rs` | members, assignment, generation | sequences of rebalances; lost answers; restarts | `Coordinator` |
| topics | `topic.rs`, `broker.rs`, `partition_handle.rs` | directories, `topic.json`, the map of topics, the hub | requests under one name that overlap; a crash between two renames | `Topics` |
| committed group offsets | `groups.rs`, `http/groups.rs`, `http/consume.rs`, `lib.rs` | offsets and owners in memory, a file per group | commits beside a flush; the last flush of a shutdown | `GroupStore` |
| API keys | `auth.rs`, `http/admin_keys.rs`, `binary/server.rs` | keys, their file, the revocation epoch | the older picture written last; connections that outlive their key | `KeyStore` |
| quotas | `auth.rs`, `dataplane.rs` | two token buckets of a key | debt, the cap, reads let in together | `Quota` |
| schema registry | `schema.rs` | schemas, subjects, `schemas.json` | a failed write is taken back while readers look on | `SchemaStore` |
| binary server | `binary/server.rs`, `binary/codec.rs` | connections, tasks, chains per topic, byte budget | order of answers, memory held while waiting for more, a stop in the middle | `BinaryServer` |
| pipelined client | `binary/pipelined.rs` | pending calls, the reader task | answers, failures and shutdown racing a new call | `PipelinedClient` |
| dump and restore | `crates/es-tools/src/` | an archive; staging and aside directories | a broker that goes on writing; a kill between two renames | `Dump`, `Restore` |

How they interact.  A produce request arrives at `BinaryServer` (or over HTTP), is
charged to a `Quota`, passes `Producers` (is this record new?) and then appends to a
partition of one of the `Topics`: directly (`GroupCommit`) or through Raft
(`ReplicatedPartition` over `Raft`, whose files are `RaftStore` and whose messages
`Transport` carries).  Both write `Segments`, which retention and compaction rewrite
behind the readers' backs.  A replica that has fallen behind what a leader's log still
holds is caught up by `SnapshotTransfer`.  `Coordinator` tells consumers which
partitions to read, and `GroupStore` where they were.

The modules cut the system where one part relies on another only through a promise.

- `ReplicatedPartition` has its own, abstract Raft: elections move a log between
  majorities in one step, with the guarantees checked in `Raft`.
- `Raft` takes a snapshot as a log prefix that arrives whole (`SnapshotTransfer` is
  how), takes what was persisted as being there after a restart (`RaftStore`), and
  lets messages be lost, late and reordered but not doubled (`Transport`).
- `Segments` leaves out which bytes an fsync covers, which is `GroupCommit`'s subject.
- `Dump` takes the steps of the running broker from `Segments`, `GroupStore` and
  `Producers`.

`AdminStores` composes the keys, schemas, quotas and restores, `MCClusters` puts Raft
clusters of different sizes side by side, and `MCStores`, `MCNode` and `MCProgress` compose parts that share no variables: the stores of a broker, the parts
around its partitions, and what must eventually happen.
An interleaving of parts without common state shows nothing that one part alone does
not show, so a behaviour of the last four takes the steps of one part, the `focus`
chosen in `Init`, and every property of the composition names the focus it is about.

## 2. Modules

### GroupCommit, DurableLog

Threads run `append_batch` (`LockAppender`, the write, its publication, the
counter), then `sync_upto`: each load, store and mutex operation that another thread
can tell apart is a step.  `writes[q]` is the segment of the q-th `commit_batch`.
`durable` is what a crash would leave, so a crash needs no action.  Failures: a write
that is cut back, one whose cut-back fails (the segment is `torn`, the partition
fenced), a failing roll, a failing fsync, after which the kernel may have dropped
the pages (`lost`) although the next fsync of the file succeeds.  `Replicated`
chooses between `Durability::Policy` and the replicas' `Deferred` with `sync_all`.

`DurableLog` is what producers are promised: a write is acknowledged only when its
whole prefix is durable, and nothing durable is taken back.

### Segments

One writer, one reader, the reaper and the compactor on one partition.  `segs` is
the `ArcSwap` snapshot; a segment carries its records because a reader's file
handles outlive a rename or an unlink; `disk`, `tmp`, `marker` and `cold` are files.
The appender mutex (`Unlocked`) is held from `Roll` to `Publish` and from
`WriteMarker` to `RemoveMarker`.  A read is its three loads (`next_offset`,
`start_offset`, the snapshot); the answer is the operators `Found` and `NextToRead`
on what was loaded.  Time is a nondeterministic cutoff on offsets, since records are
stamped in order.  `Crash` applies any of the directory changes that were not synced
and runs the whole of `recover_partition`.  Deletions that fail unnoticed, of a
compaction's victims and of reaped segments, leave their files.

### Raft

Handlers are functions from a node's state and a message to a state and an outbox,
as in `raft/state.rs`; `raft/node.rs` persists before it sends, so an action ends
with term, vote, log and snapshot on disk.  With `TornWrites` a crash may also hit
between the steps of one persist: the hard state, the truncation, the append, the
snapshot, the cut of the log.  `log` keeps the compacted prefix as history below
`base`; no handler reads it.  `torn` notes the servers that crashed between saving a
received snapshot and cutting the log: behind the snapshot they keep a log that need not
fit it (section 5), so their logs are compared from the snapshot on.

### RaftStore

`persist` op by op, as `raft/state.rs` records them: the hard state by an atomic
replacement, truncation and append in place, one sync at the end, the compaction as a
new file under the old name.  `contents` is the set of what the log file may hold after
a crash: every content since the last sync, the last append cut anywhere.  `load` drops
a torn entry by its checksum, so a content is a sequence of whole entries (`Restored`
is what `load` makes of it).  The old single-file format is migrated by `Load`.
Assumed of the file system: a `set_len` reaches the disk before what is written after it.

### Transport

One direction between two brokers: the queue of a peer, the dial loop with its
handshake, sealed frames numbered per session, the listener with its limit on
connections, routing by group name, and the registration of a group by incarnations of
one topic (`loops`).  A connection is closed, reset with what was under way, or vanishes
without a sign.  Keys and tags are taken to do what they are for: a frame opens in its
own session and at its turn only.

### ReplicatedPartition

`append_batch` of `raft_partition.rs` in its steps: read the next assignable offset
under `propose_lock`, propose, wait for the apply loop's verdict.  The apply loop
stores records with the offsets their entries carry and judges waiters by index and
term.  Snapshots sync the partition before the log is dropped; a power loss takes the
unsynced records back and replays the log.  What a commit hands to the apply loop is
written with `Ascending` (module `SetOrder`): the new records' indices in order.
A commit asks that the replicas it counts are still in the leader's term.  In the code a
leader may count an answer after its sender has moved on; the entry was then on a
majority when the answers were sent, which is a commit at that moment whose application
comes later.

### SnapshotTransfer

A leader probes a receiver, remembers a cursor, sends chunks, and is answered with
the receiver's end; the receiver skips what it has, appends, and at the last chunk
advances, syncs and installs.  Messages are lost and late; the receiver or the sender
restarts; retention deletes at the sender; the caught-up node becomes the sender to a
third one.  A chunk that cannot be written or synced fences the receiver's partition,
which then refuses every chunk until its broker restarts.

### Producers

One producer id, two requests at a time, which may be retries of each other.
`Admit`, `Check` under the slot's lock, one concurrent write per partition,
`RecordAll`, `Journal`, `Answer`; beside them the flusher rotates the journal, copies
the slots, replaces the snapshot and removes the rotated journal.  What goes wrong is
counted by kind in `mishaps`, and properties say which kinds they survive.

### Coordinator

One group.  `Assigned` is the two passes of `recompute_assignment`; every join with
a new subscription, leave and eviction runs it.  A join checks its topics before it
waits for the claim and the lock of the group: `checked` holds what such a check may
have seen by the time the lock is there.  The coordinator never sees what
members believe, so one arbitrary member, `watched`, is enough to compare a
member's view with the coordinator's.

### Topics

Requests (`Tasks`) create, delete and update topics step by step and overlap, under one
name too.  What exists under a name after a deletion is another incarnation; the
directory, `topic.json`, `raft/<name>`, the broker's map and the hub's entry each
remember whose they are.  A system call fails, a client goes away (its handler is
dropped at an `await`), or the broker crashes between any two steps; `Crash` includes
the sweep and the opening at boot.  `disturbed` notes for a name which of the known
weak spots (section 5) a behaviour has met, and the properties say what survives them.

### GroupStore

Handlers of commits, resets and group reads in the steps their map accesses and
`await`s leave visible; the flusher takes the dirty set, copies, writes, and puts back
what it could not write; `Shutdown`, draining and the last flush are those of
`BrokerHandle::shutdown`.  Consumers are external: they ask for what follows the committed offset,
process it and commit what they were given, each at any time later.

### KeyStore, Quota, SchemaStore

`KeyStore`: administrators change the map and then write the whole of it under
`persist_lock`; a connection authenticates, reads the epoch, and looks at its key again
when the epoch has moved.  `Quota`: `Bucket` with time in units of one byte's credit;
`seen` measures from an arbitrary instant.  `SchemaStore`: one registration at a time,
its write and undo, lookups without the lock, and `check_compatibility` over schemas
reduced to what it looks at, compared with what documents they accept (`Accepts`).

### BinaryServer, PipelinedClient

`BinaryServer`: the accept loop with its two limits, handshake, read loop (length,
memory, body, permit), one task per request, the chain of produces per topic, the
channel to the writer, and the budget as a fair semaphore with its queue.  Connections fail,
idle, are revoked, or are cut by the broker's stop.  `PipelinedClient`: calls enter the
table, write, wait, give up; the reader hands out answers, ends on a frame it cannot read
(`BadFrame`), cancellation or a closed connection, and fails what is in the table.

### Dump, Restore

`Dump`: the listing, the manifest and the copies in their order, beside a broker that
appends, rolls, deletes, compacts, commits and flushes its registry, or is down after a
crash at any of these steps.  A file is the set of offsets it speaks of.  A dump that
fails leaves nothing that can be restored, or a short archive.  `Restore`:
staging directory, extraction, the two renames; several restores, brokers started in
between, a kill at any step.  `held` is what the data directory has held.

## 3. Runs

`tlc -config <run>.cfg <module>`; every run ends within five minutes.

| Run | Module | Instance | Shows |
|---|---|---|---|
| `GroupCommit_policy` | `MCGroupCommit` | 2 producers, the flusher, 3 writes, 1 roll, `flush_every_records` 2, fair | refinement of `DurableLog`; every record reaches the disk (`EventuallyDurableUntilRoll`) |
| `GroupCommit_replica` | `MCGroupCommit` | a replica: deferred appends beside `sync_all`, 2 writes, every failure | `SealedDurable`, what recovery relies on |
| `Segments_lifecycle` | `Segments` | 3 records (a key, its tombstone, no key), 2 compactions, cold storage, 1 crash, failed swap or failed deletion | order of segments, offsets not reused, nothing lost, nothing returns, readers neither skip below the watermark nor stick, offload before delete |
| `Raft_snapshots` | `MCRaft` | 3 servers, 2 elections, logs up to 3, 1 crash also inside a persist, snapshots, 1 message in flight | `ElectionSafety`, `LogsAgree` (log matching, match indices proven), `StateMachineSafety` |
| `Raft_clusters` | `MCClusters` | 3 servers with 4 elections, the leaders' own entries, 1 message in flight; 3 servers with 2 messages in flight, 1 crash and snapshots, in one term with logs up to 2 and over two terms with logs of 1; 5 servers split into two and three, 1 crash, 1 message in flight | `CommittedStays`: on a majority, and with every new leader; `ClustersAgree`: `LogsAgree` and `StateMachineSafety` where messages overtake each other and where a snapshot meets a conflicting log |
| `ReplicatedPartition_replicas` | `MCReplicatedPartition` | 3 replicas, 2 writes, 2 elections, snapshots, 1 power loss | `StoreIsLogImage`, `AckedSurvives`, `VerdictsAreTrue` |
| `ReplicatedPartition_stale_base` | `MCReplicatedPartition` | 3 replicas, 2 writes, 2 elections | **violated**: `AckedOffsetIsOwn` |
| `Producers_faults` | `MCProducers` | 2 requests, 1 partition of up to 2 records, 2 sequences, a window of 2, any 2 mishaps of 6 kinds | `AtMostOnceUndisturbed`, `RetriesAnswered`, `AckedNotRewritten` |
| `Producers_partial` | `MCProducers` | 2 partitions, one failing write | **violated**: `AtMostOnce` |
| `MCStores_stores` | `MCStores` | 1 name with 2 incarnations, 2 requests; 2 groups and keys; 2 administrators, 2 key ids, 1 connection; 3 schema ids; 2 readers; a dump of 2 records beside 3 steps of the broker; 4 restores or broker starts with 2 pids | `TopicsSurvive`, `TopicsServedWhole`, `NothingForgotten`, `AtLeastOnce`, `KeysAnswered`, `SchemasServed`, `WithinRate`, `BackupsHold` |
| `MCNode_parts` | `MCNode` | logs of 4 entries in 2 terms; 2 producers with every failure; a chain of 3 nodes, 4 offsets; 3 messages over 3 sessions; 2 connections from 1 or 2 addresses with room for one each, 2 requests; 3 members, 2 topics | `RaftFilesSurvive`, `AckedDurableUnlessFenced`, `InstalledIsBacked`, `DeliverySound`, `RegistrationStays`, `LimitsExact`, `AnswersInOrder`, `AssignmentSound`, `Sticky` |
| `MCProgress_liveness` | `MCProgress` | smaller instances of five parts, fair | `EventuallySaved`, `FirstTransferFinishes`, `Reconnects`, `EveryRequestAnswered`, `CallsEnd` |

Why the bounds suffice for what they are meant to show:

- Group commit: the races are between one thread inside `sync_upto`, one that
  rolls and writes, and the flusher; a third write lets one follow the roll.
- Segments: two sealed segments and an active one are what a merge needs; the
  second compaction meets the output, or the leftovers, of the first.
- Raft: three servers are the smallest with a minority; a third and fourth
  election let an entry of an earlier term be counted and overwritten (the classic
  hazard behind `raft/state.rs:774`); the leader's own no-op entries suffice for it.
  With one message in flight messages are lost or wait, but none overtakes another,
  so late and reordered requests and answers are the two instances with two in flight,
  which have shorter logs.  On three servers a log that conflicts with a snapshot is on
  one server only, as the snapshot's is on the other two, and what a crash inside the
  install leaves of it has nothing to be compared with.  Five servers are needed, and from
  the start they are out of TLC's reach: the instance begins when two of them hold a log of the first term
  and three have elected another leader, a state computed by the handlers themselves
  (`InitSplit`), and allows no further election.
- Raft files: four entries leave room to append, truncate in the middle, append
  again and compact; two terms make an overwritten entry another one.
- Transport: three sessions and a frame number modulo 4 make late frames meet a newer
  session with the same number; two loops are a topic and the one created after it.
- Snapshot transfer: chunks of one record make every position of the cursor
  a state; the chain of three makes a caught-up node a sender.
- Producers: a window of two and two sequences put every sequence at its edge.
- Coordinator: two kinds of subscription and three members for four
  partitions make the fair share and the subscription disagree.
- Topics: a topic, its deletion and its successor are two incarnations; two requests
  overlap in every order, and the fault or crash may hit either.
- Groups: two groups under a limit of one reach the limit; the instance with one
  group has commits out of order, resets and a flush between them.
- Server: two requests on two connections compete for a budget of three, which one
  gzip request and its inflated copy nearly exhaust.  With one connection per address the
  second is refused when it has the address of the first; the limit of the
  process is not reached.
- Dump: two records in two segments, and three steps of the broker between any two
  copies.  Restore: two processes overlap; four runs let one reuse the id of a killed one.

Symmetry is used in safety runs only, over producers, servers (of the five, over the two
followers of the new leader), replicas, writes and
requests, none of which the specifications order.

A deadlock is an error in the group-commit, segments and stores runs.  The
others may stop where their bounds on elections, messages or restarts are used up.

Fairness: that a task goes on with what it can do.

- `GroupCommit`: each thread goes on with what it started and the flusher's timer fires
  (`WF` of `Progress(t)`): appends run on blocking threads, mutexes are held across I/O
  only, and the flusher is an interval task.  It does not assume that anyone appends.
- `SnapshotTransfer`: heartbeats are sent and messages which are not lost are handled:
  the node loop selects over its ticker and its inbox without starving either.
- `GroupStore`: the flusher's interval and handlers that have begun.
- `Transport`: the tasks of the dial loop, the reads and the end of a connection that
  was closed, and the time limit of the handshake; not that a vanished connection is ever noticed.
- `BinaryServer`: the semaphore is fair (tokio queues its waiters), the tasks run, the
  writer writes or fails, a body that was announced arrives or its reading fails
  (it is under a time limit).
- `PipelinedClient`: the reader task, callers that have begun, and a server that answers
  or closes.

Faults are bounded in number everywhere, but may hit at any time.

## 4. Proofs

`tlapm <module>.tla` for each of the proof modules; each EXTENDS the component it is about.

**`GroupCommitProofs`**, from `GroupCommitAssumption` (distinct threads,
`FlushEvery > 0`) alone, for any set of producers and any number of writes and rolls:

- `TypeCorrect`: `Spec => []TypeOK`;
- `AckedAreDurable`: on an unreplicated partition, `Spec => []AckedDurableUnlessFenced`;
- `SealedAreDurable`: on every partition, `Spec => []SealedDurable`;
- `Refinement`: without I/O failures `Spec` implements `DurableLog!Spec`.

`AckedDurableUnlessFenced` is not inductive: that an fsync of one file makes a whole
prefix durable depends on where the earlier writes are.  The invariant `Inv` adds that
segments are filled in order, that every segment behind the active one is durable, that
every mark a thread carries names a write and the segment of that write, and that
a thread fsyncs the file its own write went to or one that covers it.  Lemma
`PrefixHardened` is the heart: an fsync of a sound mark's segment hardens everything
up to the mark.  On a replica `RequestsOK` is false (`sync_all` before the first
write asks for write 1, section 5), which is why `AckedAreDurable` excludes it.

**`RaftProofs`**, from `RaftAssumption` (a finite set of servers):

- `OneLeaderPerTerm`: `Spec => []ElectionSafety`, for every size of cluster and
  without the bounds.

A node keeps its vote for its current term only and a leader forgets its voters, so no
state predicate over `node` alone is inductive.  `Inv` says that *some* record
of votes, one per node and term, explains the state: it agrees with the current votes,
covers the granted answers in flight and the votes candidates counted, and gives each
leader a majority.  Each step extends the record (`NodeStep`); two majorities
intersect (`Majorities`), hence one leader.

**`ReplicatedPartitionProofs`**, on `PartitionQueueProofs` and `PartitionRaftProofs`, from
`ReplicatedPartitionAssumption` (finitely many replicas and writes, `Noop` is no write, the
bounds are numbers) alone, so for every size of group and any number of writes, elections,
snapshots, power losses and replays:

- `PartitionIsLogImage`: `Spec => []StoreIsLogImage`;
- `AcknowledgedSurvives`: `Spec => []AckedSurvives`;
- `TrueVerdicts`: `Spec => []VerdictsAreTrue`.

All three rest on one inductive invariant, `IInv` of `PartitionInvariant` (`Inductive`).
None of them is inductive: they speak of partitions and verdicts, and these depend on what Raft
will never take back.  The invariant has a layer for each part, and each layer's step
lemma uses the layers below it:

- `Types`, `Written`, `Counted`: an entry is at the index and has the offset its call
  was told, and no offset is above the number of calls (`TypesStep`, `WrittenStep`,
  `CountedStep`; a state outside `Offsets` is so ruled out);
- `RaftInv`: terms rise along a log, a term has one leader, logs match, and what a replica has
  committed is the beginning of something *chosen*.  `Chosen(P)` says that a majority has
  the prefix `P` and so has whoever holds an entry of a later term.  It is stable under every
  step, the install of a snapshot included (`ChosenElect`, `ChosenTakes`, `ChosenAdopts`),
  and of two chosen prefixes one begins with the other (`ChosenComparable`);
- `QueueInv`: the apply queue holds committed records, in order and not yet applied; a
  committed record is below the partition's end or queued, and one behind the snapshot is
  synced;
- `StoreChosen`: a partition is empty, or the image of a chosen prefix that decides
  all its offsets.  A record is stored or skipped as that prefix says because
  everything committed before it is below the partition's end (`BeforeHead`, `StoreApply`);
- `CallInv`: an acknowledged write is in something chosen; under one leader the offsets of a log
  go up, for `propose_lock` covers both the read of the next offset and the proposal
  (`OffsetsStep`); and before there is a snapshot a write given up as replaced has lost its
  index to a chosen entry (`ReplacedStep`).

What the argument needs of finite sets (cardinalities, majorities that meet, a greatest member,
an enumeration in ascending order) is gathered in `Ground` and proved last
(`GroundHolds`), with induction over the naturals stated for sets.

**`AdminStoresProofs`**, from `AdminStoresAssumption` (bounds are numbers, the readers are
finitely many, `NoKey` is no administrator, schemas are well formed), for any number of administrators, keys,
connections, subjects, schemas, readers, restores, failing writes and crashes, all four
parts running together (`AdminSpec`):

- `KeysAreAnswered`: `AdminSpec => []KeysAnswered`.  The life of a key is an order (not
  there, on, off), and the invariant is that file, the picture an administrator is about to
  write, and memory follow each other in it (`OneWriter`): a writer never takes the file
  back because it took its picture under the lock it writes under.  For the connections the
  invariant looks at the requests that have moved the epoch and not yet answered
  (`Announcing`).
- `SchemasAreServed`: `AdminSpec => []SchemasServed`.  All ids, in memory and in the file,
  are below the next one, and what is being registered has a newer id than anything
  answered: a write that fails takes back its own id only.  `Serving` says which version a
  subject is served by while a registration may still be undone, `Checked` that the last
  schema let in was compared with the version it follows.
- `QuotasKeepTheRate`: `AdminSpec => []WithinRate`.  What was let in and what the bucket
  holds now are together within the quota, and the bucket is in debt by at most one
  answer for each reader that is not under way (`Spent`).
- `RestoresLoseNothing`: `AdminSpec => []RestoresKeep`.  The directories aside are only ever
  taken where there is nothing (`Renames`), and a process that has come to its renames
  has unpacked everything.

**`TransportProofs`**:

- `RegistrationsStay`: `Spec => []RegistrationStays`;
- `DeliveredAtMostOnce`: when nothing is sent again on purpose, `Spec => []DeliverySound`,
  for queues, windows, frame numbers and sessions of any number.  The invariant orders
  what is delivered, under way and queued (`Chained`), and numbers what is under way from
  the number the receiver expects (`Numbered`); that the numbers wrap around does
  not matter to the order, since a frame opens in its own session only.

**`GroupStoreProofs`**, when there is a group at all, for any number of groups, keys,
partitions, records, failing writes, stops and crashes:

- `ChangesReachTheDisk`: `Spec => []NothingForgotten`.  The invariant (`Followed`) is that
  a copy the flusher holds is what memory holds or the group is `Announced`, that is
  dirty, about to be marked, or inserted by a request that is about to claim it; and the
  same of a file that no copy is about to replace.  What a handler changes it announces
  (`HandlerAnnounces`), so a change after the copy is taken by the next flush.
- `CommittedIsProcessed`: `Spec => []AtLeastOnce`.  The offset in memory may come back from
  a file, a file from a copy and any of them from a request, so the invariant
  (`Backed`) says of all four that everything before the offset was processed.

Only model-checked: everything else.  The liveness properties are beyond the proof
system's reach.  `ReplicatedPartitionProofs` proves log matching and the safety of what is
committed of the abstract Raft it runs on; of `Raft` itself, with its messages, retries and
files, `LogsAgree`, `CommittedStays` and `StateMachineSafety` are not proved: they need an
invariant over all messages in flight that is as long as the module.  The segments, the topics,
the producers and the coordinator have recursive or data-heavy state whose invariants are
checked only.

## 5. Where code and text disagree

Two runs show violations and are listed as findings in `PROJECT.json`:

- **`ReplicatedPartition_stale_base`** (`raft_partition.rs:488`).  A node reads the
  next offset, then receives another leader's entries and is elected, then proposes
  with the stale offset.  Two committed entries carry one offset; every replica
  skips the second and its caller is told it was stored.
- **`Producers_partial`** (`dataplane.rs:224`).  One partition's write fails, the
  request fails before anything is recorded, and a retry writes the records of the
  other partitions again.

TLC finds the following as well, with the constants given (others as in
the module's run).  The properties that are run are stated so as to exclude exactly these.

| Code | Property, instance | What happens | Text it disagrees with |
|---|---|---|---|
| `partition.rs:334` | `AckedDurable`; unreplicated, `FlushEvery` 1, `SyncFaults` | a caller that waited behind a failed fsync repeats it on the same handle and is acknowledged, although the kernel may have dropped the pages | `partition.rs:346` "nothing written since the last good fsync can be trusted" |
| `partition.rs:194` | `FencedIsReadOnly`; the same | an append that passed the check before it waited for the mutex writes to a fenced partition | `partition.rs:95` "Every later append is refused" |
| `partition.rs:368` | `AckedDurable`; `GroupCommit_replica` | `sync_all` before any write asks for sequence 1; a first write into a rolled segment is then taken for synced | `raft_partition.rs:661` "the partition is synced before the log behind it may be dropped" |
| `partition.rs:344` | `EventuallyDurable`; `GroupCommit_policy` | the counter is zeroed for records of a newer segment than the one fsynced; the flusher skips them until the next write | `partition.rs:355` "does not keep acknowledged records in the page cache indefinitely" |
| `partition.rs:423` | `NoSkip`; `Segments_lifecycle` | between a reader's load of the watermark and of the snapshot the segment below is deleted or compacted and the next one filled and rolled: the reader is sent to the base of the newest one, past records it never saw | `partition.rs:424` "The next segment's base_offset is the next reachable offset" |
| `retention.rs:132` | `ReapedIsCold`; `Segments_lifecycle` | a compaction merges newer segments under a base that was copied to cold storage before; the drop by base deletes them uncopied (and before they expire) | `retention.rs:38` "only those whose copy succeeded" |
| `partition.rs:487`, `retention.rs:88` | `KeysDoNotReturn` without `~uneven`; `Segments_lifecycle` | a failed copy, a failed deletion or a crash in the grace period leaves an older segment whose keys' newer records are gone: old values are the newest again | `partition.rs:485` "the next boot will retry deletion" |
| `compaction.rs:250` | `SegmentsInOrder` and `RecordsKept` without `SwapsWhole`; `MaxFailures` 2 | a swap that fails leaves its marker; a later compaction's unfinished output is renamed into place by the next recovery.  A victim whose deletion failed (`compaction.rs:252`, `storage/recover.rs:194`) is without a marker, and the next recovery takes it for a segment | `storage/recover.rs:164` "if the temp files are still there they are whole" |
| `raft/node.rs:493` | `TermsNeverDecrease`, `Raft_snapshots`; `LogMatching` with `torn` empty, five servers of `Raft_clusters` | after a crash between saving a snapshot and cutting the log, a conflicting suffix survives behind the snapshot: two logs may agree on an entry and not on what is before it.  What follows the snapshots, match indices and the state machines agree all the same | `raft/log.rs:238` "the whole log is discarded" |
| `raft_partition.rs:644` | `ReplacedNeverApplied` without its premise; three writes, `MaxRestarts` 0 | an entry that reaches a former leader inside a snapshot is judged replaced although it is stored | `raft_partition.rs:642` "it will never be applied" |
| `raft_partition.rs:295` | `InstalledIsComplete`; `PowerLoss` TRUE | a receiver loses unsynced chunks, the leader goes on at its cursor, and the snapshot is installed over a hole | `raft/node.rs:428` "only acknowledged once the state behind it is really there" |
| `partition.rs:373` | `TransferFinishes`; as in `MCProgress_liveness` | `advance_to` is forgotten by a restart; as leader the node never reaches the end of its snapshot and sends empty chunks | `raft/messages.rs:104` "resent the snapshot forever", named as fixed |
| `producers.rs:477` | `AckedNotRewritten` with two crashes; two partitions, `MaxSeq`, `MaxBatch` and `Window` 1, `MaxLog` 9, `Faults` {"crash"} | a journal rotated over one that an earlier flush left behind loses acknowledged sequences | `producers.rs:468` "once the snapshot is durable the rotated journal is redundant" |
| `producers.rs:273` | `WindowRemembered` after a crash | replaying a line that the snapshot already has pushes another sequence out of the window | `producers.rs:14` "The last WINDOW sequences per partition are remembered" |
| `producers.rs:448` | `ExpiresOnlyIdle`; `Producers_faults` | the slot is removed after its lock was dropped; a request served in between is forgotten | `producers.rs:20` "Producers idle for PRODUCER_EXPIRY are forgotten" |
| `coord.rs:377` | `Covered`; as in `MCNode_parts` | the fair share counts members that did not ask for a topic; partitions of that topic are left to nobody | `coord.rs:4` "assigns the union of those topics' partitions across the members" |
| `coord.rs:398` | `EvenShare`; one topic, `MaxPartitions` 4 | members keep up to the rounded-up share, and a newcomer may get nothing | `www/app/views/docs/api.html.slv:296` "every member ends up with an even share" |
| `coord.rs:357` | `NothingChanged` without `restarts = 0` | generations restart at 0, so an old number may match by chance | `www/app/views/docs/api.html.slv:291` "Nothing changed." |
| `schema.rs:60` | `LatestIsServed` without `reloaded` | entries are loaded in the order of a hash map; the last of a subject, not the newest, becomes its latest version | `schema.rs:33` "Subject → latest version id" |
| `schema.rs:183` | `OldDataAccepted` without its premise | types of fields are not compared | `schema.rs:182` "Property types in new must be compatible (no narrowing)" |
| `lib.rs:65` | `StopSavesEarlier` for all answered changes | the last flush runs when the broker is told to stop; commits answered while requests are drained are not written | `www/app/views/docs/api.html.slv:270` "Commits are written to disk once a second and at shutdown" |
| `raft/log.rs:272` | `PersistedSurvives` without its exception | the directory entry of a new log file is not synced; the file may be gone after a crash | `raft/log.rs:272` "Every op must be durable when `persist` returns" |
| `binary/server.rs:269` | `RevocationReaches` without `straddled` | the epoch is read after the key was looked up; a revocation in between is not noticed until the next one | `binary/server.rs`, the re-check by epoch |
| `binary/server.rs:416` | `AnsweredBeforeClose` without `cancelled` | a stop of the broker ends the writers; answers of requests in progress are dropped | the comment there, "Let requests already in progress finish and their responses go out" |
| `crates/es-tools/src/dump.rs:284` | `RegistryWhole` without its premise | the broker rotates and removes the journal after `producers.json` was copied: sequences of that time are in neither | the comment there, "both are needed to restore it exactly" |

What the models show besides, without a text that says otherwise; the properties name each as an exception:

- Topics.  A crash, or a creation of the same name, between the two renames of a deletion
  leaves a Raft directory that the next topic of the name starts from; a creation whose
  attaching to Raft fails leaves `raft/<name>` and node loops that run; an update that began before a
  deletion may write `topic.json` of the topic created after it; two updates that cross
  may leave partitions with the older `segment_bytes`; a client that goes away during a
  deletion leaves the directory on disk without a topic in memory.
- Committed offsets stay when a topic is deleted and apply to the next topic of the name.
- `raft/node.rs` saves a snapshot before the term it belongs to; nothing reads it first.
- Binary server.  A gzip request holds the memory of its frame while it waits for that of its
  inflated payload (`binary/server.rs:501`): when such requests hold all of the
  budget none goes on (`Stuck`).  A read loop that waits for the budget
  (`binary/server.rs:311`) does not notice the stop.
- Transport.  Connections that vanish without a sign keep their slots of the listener
  (`Exhausted`).  Frames carry a group's name, so a late one of a deleted topic reaches the topic created after it.
- Pipelined client.  A call that enters the table after the reader has failed what was in it
  (`binary/pipelined.rs:85`, `:225`) ends when its write fails, or at `shutdown`.  A
  payload that cannot be compressed leaves its entry in the table (`:88`).
- Dump.  A roll after the listing leaves committed offsets or sequences ahead of the
  archived log; a compaction in between may leave records out or twice, as does a dump of a
  broker that crashed inside a swap, since marker and temporary files are not copied.  An
  error in the middle (`dump.rs:147`) drops the archive's writers, which close it: what is
  left is a short archive that `restore` accepts with a warning (`restore.rs:236`).
- Restore.  Between its two renames there is no data directory; a broker
  started then begins an empty one, and the restore then fails and leaves the staging
  directory, the old data staying aside.

## 6. What is left out

- Data: record bytes, keys (a small set), timestamps (order only), file formats,
  index files, HTTP and JSON.  Damaged files and what recovery does with them.
- In `Raft`: membership changes, leader stickiness and the election timer (a timeout may
  always happen), the implausible-term filter.  Elections succeeding eventually
  is not stated: it rests on timing.
- In `ReplicatedPartition`: batches of several records, legacy entries, an apply loop
  that has stopped after a failed write (`raft_partition.rs:574`).
- In `Quota`: the rounding of floating-point credit.
- In `Producers`: the API key that owns a producer, revocation, limits on the number of
  producers.  In `Coordinator`: API keys and limits.
- In `Segments`: batches of several records, listing and fetching of cold segments.
- In `Dump` and `Restore`: sizes and the limit on them, checks of single paths, file
  modes, `--verify`.
- Memory ordering: the code's atomics are acquire/release pairs or stronger where a
  reader depends on them; steps are interleaved.

Not modelled at all, because they keep no state across calls: the encodings of
records, indexes and wire messages (`storage/record.rs`, `storage/index.rs`,
`es-protocol`), which their own tests decode again; the HTTP handlers, which decode,
call the parts above and encode; the one-request binary client; the command line, whose
retries are part of the environment of `Producers`; option parsing, metrics and health.
