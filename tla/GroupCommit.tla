----------------------------- MODULE GroupCommit -----------------------------
(***************************************************************************)
(* The append path of one partition: append_batch, commit_batch, roll,     *)
(* sync_upto, sync_pending and sync_all of partition.rs, with the segment  *)
(* appender of storage/segment.rs.                                         *)
(*                                                                         *)
(* Producers append under the `appender` mutex and then share fsyncs       *)
(* through the `synced` mutex ("group commit").  The two mutexes are       *)
(* independent: a segment may be rolled, and further batches written,      *)
(* while another thread is anywhere inside sync_upto.                      *)
(*                                                                         *)
(* A write is one successful commit_batch.  `writes[q]` is the segment     *)
(* (its file handle) that the q-th write went to; the bytes of a record    *)
(* play no role here.  A crash is not an action: `durable` is what the     *)
(* disk would hold after one, so what a crash may destroy is a state       *)
(* predicate.                                                              *)
(***************************************************************************)
EXTENDS Integers, Sequences, FiniteSets

CONSTANTS
    Producers,      \* threads calling append_batch (and, on a replica, sync_all)
    Flusher,        \* the interval flusher, calling sync_pending
    NoThread,       \* owner of a free mutex
    Replicated,     \* TRUE: Durability::Deferred and sync_all; FALSE: Policy
    FlushEvery,     \* flush_every_records
    WriteFaults,    \* can write_batch fail without being rolled back?
    SyncFaults,     \* can fsync fail?
    MaxWrites,      \* bound: no append starts once this many writes exist
    MaxRolls        \* bound: on the number of rolls

ASSUME GroupCommitAssumption ==
    /\ Flusher \notin Producers
    /\ NoThread \notin Producers \cup {Flusher}
    /\ Replicated \in BOOLEAN
    /\ WriteFaults \in BOOLEAN
    /\ SyncFaults \in BOOLEAN
    /\ FlushEvery \in Nat \ {0}
    /\ MaxWrites \in Nat
    /\ MaxRolls \in Nat

Threads == Producers \cup {Flusher}

VARIABLES
    writes,     \* segment of each write, in write_seq order
    active,     \* the appender's segment; segment 0 is the recovered one
    latest,     \* the published WriteMark: newest write and its handle
    unsynced,   \* records appended since the last fsync
    synced,     \* highest write_seq known to be on disk
    poisoned,   \* the partition is fenced
    appender,   \* owner of the `appender` mutex
    syncer,     \* owner of the `synced` mutex
    pc,         \* where each thread is
    want,       \* the mark a thread passes to sync_upto
    goal,       \* the mark it decided to fsync, holding the `synced` mutex
    durable,    \* writes that a crash cannot destroy
    torn,       \* segments holding torn bytes that were not cut back
    lost,       \* writes no fsync can save: pages dropped, or behind a tear
    acked       \* highest write promised durable to a caller

vars == <<writes, active, latest, unsynced, synced, poisoned, appender,
          syncer, pc, want, goal, durable, torn, lost, acked>>

appendVars == <<writes, active, latest, torn, appender>>
syncVars   == <<synced, syncer, goal>>
diskVars   == <<durable, lost, acked>>

Marks == [seq : Nat, log : Nat]

Larger(a, b) == IF a >= b THEN a ELSE b

In(seg) == {q \in 1..Len(writes) : writes[q] = seg}

(***************************************************************************)
(* pc: "idle"; "lock" waits for the appender mutex; "write", "publish",    *)
(* "count" and "batch" hold it; "decide" has dropped it; "mark" is inside  *)
(* sync_all; "sync" waits for the synced mutex; "zero" and "fsync" hold    *)
(* it.                                                                     *)
(***************************************************************************)
PCs == {"idle", "lock", "write", "publish", "count", "batch", "decide",
        "mark", "sync", "zero", "fsync"}

HoldsAppender == {"write", "publish", "count", "batch"}

Init ==
    /\ writes = << >>
    /\ active = 0
    /\ latest = [seq |-> 0, log |-> 0]
    /\ unsynced = 0
    /\ synced = 0
    /\ poisoned = FALSE
    /\ appender = NoThread
    /\ syncer = NoThread
    /\ pc = [t \in Threads |-> "idle"]
    /\ want = [t \in Threads |-> [seq |-> 0, log |-> 0]]
    /\ goal = [t \in Threads |-> [seq |-> 0, log |-> 0]]
    /\ durable = {}
    /\ torn = {}
    /\ lost = {}
    /\ acked = 0

Goto(t, l) == pc' = [pc EXCEPT ![t] = l]

-----------------------------------------------------------------------------
(* append_batch, up to the release of the appender mutex *)

\* The fence is read before the mutex is taken.
BeginAppend(t) ==
    /\ t \in Producers
    /\ pc[t] = "idle"
    /\ Len(writes) < MaxWrites
    /\ ~poisoned
    /\ Goto(t, "lock")
    /\ UNCHANGED <<appendVars, syncVars, diskVars, unsynced, poisoned, want>>

LockAppender(t) ==
    /\ pc[t] = "lock"
    /\ appender = NoThread
    /\ appender' = t
    /\ Goto(t, "write")
    /\ UNCHANGED <<writes, active, latest, torn, syncVars, diskVars, unsynced,
                   poisoned, want>>

\* commit_batch: the bytes reach the page cache of the active segment.
WriteBatch(t) ==
    /\ pc[t] = "write"
    /\ writes' = Append(writes, active)
    /\ lost' = IF active \in torn THEN lost \cup {Len(writes) + 1} ELSE lost
    /\ Goto(t, "publish")
    /\ UNCHANGED <<active, latest, torn, appender, syncVars, durable, acked,
                   unsynced, poisoned, want>>

\* commit_batch: write_seq.fetch_add and latest.store.
PublishBatch(t) ==
    /\ pc[t] = "publish"
    /\ latest' = [seq |-> Len(writes), log |-> active]
    /\ Goto(t, "count")
    /\ UNCHANGED <<writes, active, torn, appender, syncVars, diskVars, unsynced,
                   poisoned, want>>

\* commit_batch: unsynced.fetch_add, the last thing it does.
CountBatch(t) ==
    /\ pc[t] = "count"
    /\ unsynced' = unsynced + 1
    /\ Goto(t, "batch")
    /\ UNCHANGED <<appendVars, syncVars, diskVars, poisoned, want>>

\* write_batch failed.  The cut back to the old length succeeded, or it did
\* not and the partition is fenced.  Either way the append returns Err and
\* drops the mutex.
WriteFails(t) ==
    /\ pc[t] = "write"
    /\ \/ UNCHANGED <<torn, poisoned>>
       \/ /\ WriteFaults
          /\ torn' = torn \cup {active}
          /\ poisoned' = TRUE
    /\ appender' = NoThread
    /\ Goto(t, "idle")
    /\ UNCHANGED <<writes, active, latest, syncVars, diskVars, unsynced, want>>

\* The next record does not fit.  A roll needs a non-empty segment; the
\* recovered segment 0 may hold records written before this process.
MustRoll(t) ==
    /\ pc[t] \in {"write", "batch"}
    /\ active < MaxRolls
    /\ active = 0 \/ In(active) # {}

\* Mutant: the segment is sealed without being fsynced.
Roll_Unsynced(t) ==
    /\ MustRoll(t)
    /\ active' = active + 1
    /\ Goto(t, "write")
    /\ UNCHANGED <<writes, latest, torn, appender, syncVars, durable, lost, acked,
                   unsynced, poisoned, want>>

\* roll: fsync the segment being sealed, then start the next one.  `synced`
\* is left alone.
Roll(t) ==
    /\ MustRoll(t)
    /\ durable' = durable \cup (In(active) \ lost)
    /\ active' = active + 1
    /\ Goto(t, "write")
    /\ UNCHANGED <<writes, latest, torn, appender, syncVars, lost, acked,
                   unsynced, poisoned, want>>

\* The fsync of the sealed segment fails (the kernel may drop its dirty pages)
\* or the new files cannot be created, which fences nothing.
RollFails(t) ==
    /\ MustRoll(t)
    /\ \/ UNCHANGED <<lost, poisoned>>
       \/ /\ SyncFaults
          /\ poisoned' = TRUE
          /\ lost' \in {lost, lost \cup (In(active) \ durable)}
    /\ appender' = NoThread
    /\ Goto(t, "idle")
    /\ UNCHANGED <<writes, active, latest, torn, syncVars, durable, acked,
                   unsynced, want>>

\* The batch is complete: clone the newest mark and drop the mutex.
EndBatch(t) ==
    /\ pc[t] = "batch"
    /\ want' = [want EXCEPT ![t] = latest]
    /\ appender' = NoThread
    /\ Goto(t, "decide")
    /\ UNCHANGED <<writes, active, latest, torn, syncVars, diskVars, unsynced,
                   poisoned>>

\* The durability policy.  At threshold 1 every Ok promises durability.
MustSync == ~Replicated /\ (FlushEvery = 1 \/ unsynced >= FlushEvery)

OkPromises == ~Replicated /\ FlushEvery = 1

Decide(t) ==
    /\ pc[t] = "decide"
    /\ IF MustSync
       THEN Goto(t, "sync") /\ UNCHANGED acked
       ELSE /\ Goto(t, "idle")
            /\ acked' = IF OkPromises THEN Larger(acked, want[t].seq) ELSE acked
    /\ UNCHANGED <<appendVars, syncVars, durable, lost, unsynced, poisoned, want>>

-----------------------------------------------------------------------------
(* sync_pending, sync_all and sync_upto *)

\* Mutant: the interval flusher applies the records threshold too.
SyncPending_Threshold(t) ==
    /\ t = Flusher
    /\ pc[t] = "idle"
    /\ unsynced >= FlushEvery
    /\ Goto(t, "mark")
    /\ UNCHANGED <<appendVars, syncVars, diskVars, unsynced, poisoned, want>>

SyncPending(t) ==
    /\ t = Flusher
    /\ pc[t] = "idle"
    /\ unsynced # 0
    /\ Goto(t, "mark")
    /\ UNCHANGED <<appendVars, syncVars, diskVars, unsynced, poisoned, want>>

\* A replica's apply loop before a snapshot, or the end of a snapshot transfer.
CallSyncAll(t) ==
    /\ Replicated
    /\ t \in Producers
    /\ pc[t] = "idle"
    /\ Goto(t, "mark")
    /\ UNCHANGED <<appendVars, syncVars, diskVars, unsynced, poisoned, want>>

SyncAll(t) ==
    /\ pc[t] = "mark"
    /\ want' = [want EXCEPT ![t] = latest]
    /\ Goto(t, "sync")
    /\ UNCHANGED <<appendVars, syncVars, diskVars, unsynced, poisoned>>

\* The `seq` argument of sync_upto: sync_all passes mark.seq.max(1).
SeqArg(t) == Larger(want[t].seq, 1)

\* Somebody else's fsync already covered this write: return Ok.
SyncCovered(t) ==
    /\ pc[t] = "sync"
    /\ syncer = NoThread
    /\ synced >= SeqArg(t)
    /\ acked' = Larger(acked, want[t].seq)
    /\ Goto(t, "idle")
    /\ UNCHANGED <<appendVars, syncVars, durable, lost, unsynced, poisoned, want>>

\* Mutant: count the newest write as covered though its segment is another.
LockSynced_NewestSeq(t) ==
    /\ pc[t] = "sync"
    /\ syncer = NoThread
    /\ synced < SeqArg(t)
    /\ syncer' = t
    /\ goal' = [goal EXCEPT ![t] = [seq |-> latest.seq, log |-> want[t].log]]
    /\ Goto(t, "zero")
    /\ UNCHANGED <<appendVars, synced, diskVars, unsynced, poisoned, want>>

\* Take the mutex and choose what to fsync: the newest mark if it is still on
\* the caller's handle, else the caller's own.
LockSynced(t) ==
    /\ pc[t] = "sync"
    /\ syncer = NoThread
    /\ synced < SeqArg(t)
    /\ syncer' = t
    /\ goal' = [goal EXCEPT ![t] =
                   IF latest.log = want[t].log
                   THEN latest
                   ELSE [seq |-> SeqArg(t), log |-> want[t].log]]
    /\ Goto(t, "zero")
    /\ UNCHANGED <<appendVars, synced, diskVars, unsynced, poisoned, want>>

ZeroUnsynced(t) ==
    /\ pc[t] = "zero"
    /\ unsynced' = 0
    /\ Goto(t, "fsync")
    /\ UNCHANGED <<appendVars, syncVars, diskVars, poisoned, want>>

\* The fsync covers what reached the file before it; the mutex is dropped and
\* the caller gets Ok.
Fsync(t) ==
    /\ pc[t] = "fsync"
    /\ durable' = durable \cup (In(goal[t].log) \ lost)
    /\ synced' = Larger(synced, goal[t].seq)
    /\ acked' = Larger(acked, want[t].seq)
    /\ syncer' = NoThread
    /\ Goto(t, "idle")
    /\ UNCHANGED <<appendVars, goal, lost, unsynced, poisoned, want>>

\* The fsync fails: the kernel may drop the dirty pages, and a later fsync of
\* the same file will report success.  The partition is fenced and the caller
\* gets Err.
FsyncFails(t) ==
    /\ SyncFaults
    /\ pc[t] = "fsync"
    /\ poisoned' = TRUE
    /\ lost' \in {lost, lost \cup (In(goal[t].log) \ durable)}
    /\ syncer' = NoThread
    /\ Goto(t, "idle")
    /\ UNCHANGED <<appendVars, synced, goal, durable, acked, unsynced, want>>

-----------------------------------------------------------------------------
\* Every caller has returned and the bounds allow no further append.
Quiescent ==
    /\ \A t \in Threads : pc[t] = "idle"
    /\ Len(writes) >= MaxWrites \/ poisoned

Stop == Quiescent /\ UNCHANGED vars

Step(t) ==
    \/ BeginAppend(t)
    \/ LockAppender(t)
    \/ WriteBatch(t)
    \/ PublishBatch(t)
    \/ CountBatch(t)
    \/ WriteFails(t)
    \/ Roll(t)
    \/ RollFails(t)
    \/ EndBatch(t)
    \/ Decide(t)
    \/ SyncPending(t)
    \/ CallSyncAll(t)
    \/ SyncAll(t)
    \/ SyncCovered(t)
    \/ LockSynced(t)
    \/ ZeroUnsynced(t)
    \/ Fsync(t)
    \/ FsyncFails(t)

Next == \/ \E t \in Threads : Step(t)
        \/ Stop

Spec == Init /\ [][Next]_vars

\* A blocking thread that is inside a call keeps running, and the interval
\* flusher keeps ticking; whether a producer starts another append, and
\* whether I/O fails, is up to the environment.  `synced` and `appender` are
\* held for finitely many steps, so weak fairness of every thread is enough.
Progress(t) ==
    \/ LockAppender(t) \/ WriteBatch(t) \/ PublishBatch(t) \/ CountBatch(t)
    \/ Roll(t) \/ EndBatch(t) \/ Decide(t) \/ SyncPending(t) \/ SyncAll(t)
    \/ SyncCovered(t) \/ LockSynced(t) \/ ZeroUnsynced(t) \/ Fsync(t)

FairSpec == Spec /\ \A t \in Threads : WF_vars(Progress(t))

-----------------------------------------------------------------------------
(* Properties *)

TypeOK ==
    /\ writes \in Seq(Nat)
    /\ active \in Nat
    /\ latest \in Marks
    /\ unsynced \in Nat
    /\ synced \in Nat
    /\ poisoned \in BOOLEAN
    /\ appender \in Threads \cup {NoThread}
    /\ syncer \in Threads \cup {NoThread}
    /\ pc \in [Threads -> PCs]
    /\ want \in [Threads -> Marks]
    /\ goal \in [Threads -> Marks]
    /\ durable \subseteq 1..Len(writes)
    /\ torn \subseteq Nat
    /\ lost \subseteq 1..Len(writes)
    /\ acked \in Nat

\* Every write up to one whose caller was promised durability is on disk, so
\* recovery, which stops at the first missing record, gets past it.
AckedDurable == 1..acked \subseteq durable

\* The same, as long as no I/O failure has fenced the partition.
AckedDurableUnlessFenced == ~poisoned => AckedDurable

\* Every segment but the active one is on disk in full: what recovery relies
\* on when it trusts a sealed segment's index instead of scanning its records.
SealedDurable ==
    ~poisoned => \A q \in 1..Len(writes) : writes[q] < active => q \in durable

\* "Every later append is refused until a restart re-runs recovery": nothing
\* is written to a fenced partition.
FencedIsReadOnly == [][poisoned => UNCHANGED writes]_vars

\* The group commit implements the abstract log: no interleaving of appends,
\* rolls and shared fsyncs acknowledges a write ahead of its prefix or takes a
\* durable write back.
Log == INSTANCE DurableLog WITH written <- Len(writes)

ImplementsDurableLog == Log!Spec

\* The interval flusher sees to it that no record stays in the page cache
\* forever, whatever flush_every_records is.
EventuallyDurable ==
    \A q \in 1..MaxWrites : q <= Len(writes) ~> q \in durable

\* The same until the first roll.
EventuallyDurableUntilRoll ==
    \A q \in 1..MaxWrites : q <= Len(writes) ~> q \in durable \/ active > 0
=============================================================================
