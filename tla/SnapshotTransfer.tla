-------------------------- MODULE SnapshotTransfer --------------------------
(***************************************************************************)
(* Catching a replica up by a snapshot: raft/node.rs (send_snapshot and    *)
(* the install path), raft_partition.rs (PartitionTransfer).               *)
(*                                                                         *)
(* A snapshot of a replicated partition is an end offset; the records      *)
(* below it travel in chunks, one per message, and the sender keeps the    *)
(* position the receiver last reported.  The first message is a probe.     *)
(*                                                                         *)
(* Node n sends to node n + 1.  Once it is caught up, a node may become    *)
(* the leader and catch up the next one, the previous leader being down.   *)
(* A record is its offset: Raft gives every offset one record.             *)
(***************************************************************************)
EXTENDS Integers, FiniteSets, FiniteSetsExt

CONSTANTS
    Nodes,          \* length of the chain of nodes
    Chunk,          \* records in a chunk (SNAPSHOT_CHUNK_BYTES)
    Retention,      \* the topic has a retention policy
    PowerLoss,      \* a restart may lose records that were not synced
    MaxOffset,      \* bound: records
    MaxSnapshots,   \* bound: snapshots of the first leader
    MaxRestarts,    \* bound: restarts
    MaxLosses,      \* bound: lost messages, and chunks that cannot be applied
    MaxInFlight     \* bound: messages in flight

VARIABLES
    sender,     \* the leader; node sender + 1 is being caught up
    part,       \* records a node holds
    next,       \* next_offset
    synced,     \* records below this offset survive a power loss
    snap,       \* the snapshot a node's log starts after: index and end offset
    cursor,     \* snapshot_cursor of the receiver; -1: none
    match,      \* match_index of the receiver, in snapshots
    msgs,       \* messages in flight
    fenced,     \* nodes whose partition is fenced after an I/O failure
    restarts, losses

vars == <<sender, part, next, synced, snap, cursor, match, msgs, fenced, restarts, losses>>

receiver == sender + 1

Offset == 0..MaxOffset

Message ==
    [type : {"probe"}, index : Nat]
        \cup [type : {"chunk"}, index : Nat, end : Offset, data : SUBSET Offset, done : BOOLEAN]
        \cup [type : {"resp"}, next : Offset, installed : Nat]

Init ==
    /\ sender = 1
    /\ part = [n \in 1..Nodes |-> {}]
    /\ next = [n \in 1..Nodes |-> 0]
    /\ synced = [n \in 1..Nodes |-> 0]
    /\ snap = [n \in 1..Nodes |-> [index |-> 0, end |-> 0]]
    /\ cursor = -1
    /\ match = 0
    /\ msgs = {}
    /\ fenced = {}
    /\ restarts = 0
    /\ losses = 0

-----------------------------------------------------------------------------
(* The leader's partition *)

CaughtUp == match = snap[sender].index

\* The leader commits and applies an entry; entries past the snapshot carry offsets
\* past its end.  The first leader has the rest of the cluster for a majority; a
\* later one needs the node it is catching up.
Apply ==
    LET o == Max({next[sender], snap[sender].end}) IN
    /\ sender = 1 \/ CaughtUp
    /\ sender \notin fenced /\ o < MaxOffset
    /\ part' = [part EXCEPT ![sender] = @ \cup {o}]
    /\ next' = [next EXCEPT ![sender] = o + 1]
    /\ UNCHANGED <<sender, synced, snap, cursor, match, msgs, fenced, restarts, losses>>

\* The partition is synced, then the log is dropped behind what it holds.
TakeSnapshot ==
    /\ sender = 1
    /\ next[sender] > snap[sender].end
    /\ snap[sender].index < MaxSnapshots
    /\ synced' = [synced EXCEPT ![sender] = next[sender]]
    /\ snap' = [snap EXCEPT ![sender] = [index |-> @.index + 1, end |-> next[sender]]]
    /\ UNCHANGED <<sender, part, next, cursor, match, msgs, fenced, restarts, losses>>

\* Retention drops sealed segments; the active one, with the newest record, stays.
Retain(o) ==
    /\ Retention
    /\ o \in part[sender] /\ o # Min(part[sender])
    /\ part' = [part EXCEPT ![sender] = {p \in @ : p >= o}]
    /\ UNCHANGED <<sender, next, synced, snap, cursor, match, msgs, fenced, restarts, losses>>

-----------------------------------------------------------------------------
(* The transfer *)

\* The first records of a node from an offset on and below end, and where the
\* reading stopped: at a full chunk, at end, or at the node's own last record.
ReadChunk(n, from, end) ==
    LET all  == {o \in part[n] : from <= o /\ o < end}
        data == {o \in all : Cardinality({p \in all : p < o}) < Chunk}
    IN  [data |-> data,
         stop |-> IF Cardinality(data) = Chunk THEN Max(data) + 1
                  ELSE Max({from, Min({end, next[n]})})]

\* Mutant: the leader remembers what it sent, not what arrived.
SendSnapshot_Sent(c, pending) ==
    IF c = -1
    THEN /\ msgs' = pending \cup {[type |-> "probe", index |-> snap[sender].index]}
         /\ cursor' = c
    ELSE LET end == snap[sender].end
             r   == ReadChunk(sender, c, end)
         IN  /\ msgs' = pending \cup {[type |-> "chunk", index |-> snap[sender].index,
                                       end |-> end, data |-> r.data, done |-> r.stop >= end]}
             /\ cursor' = r.stop

\* A probe, or the chunk at the cursor.
SendSnapshot(c, pending) ==
    LET end == snap[sender].end
        r   == ReadChunk(sender, c, end)
        m   == IF c = -1 THEN [type |-> "probe", index |-> snap[sender].index]
               ELSE [type |-> "chunk", index |-> snap[sender].index, end |-> end,
                     data |-> r.data, done |-> r.stop >= end]
    IN  /\ msgs' = pending \cup {m}
        /\ cursor' = c

Heartbeat ==
    /\ ~CaughtUp
    /\ Cardinality(msgs) < MaxInFlight
    /\ SendSnapshot(cursor, msgs)
    /\ UNCHANGED <<sender, part, next, synced, snap, match, fenced, restarts, losses>>

Resp(installed) == [type |-> "resp", next |-> next'[receiver], installed |-> installed]

OnProbe(m) ==
    /\ m.type = "probe"
    /\ UNCHANGED <<part, next, synced, snap>>
    /\ msgs' = (msgs \ {m}) \cup {Resp(0)}
    /\ UNCHANGED <<sender, cursor, match, fenced, restarts, losses>>

\* Mutant: the partition is not synced before the snapshot is installed.
OnChunk_Unsynced(m) ==
    LET fresh == {o \in m.data : o >= next[receiver]}
        last  == Max({next[receiver]} \cup {o + 1 : o \in fresh}) IN
    /\ m.type = "chunk" /\ receiver \notin fenced
    /\ part' = [part EXCEPT ![receiver] = @ \cup fresh]
    /\ next' = [next EXCEPT ![receiver] = IF m.done THEN Max({last, m.end}) ELSE last]
    /\ snap' = [snap EXCEPT ![receiver] =
                  IF m.done /\ m.index > @.index
                  THEN [index |-> m.index, end |-> next'[receiver]] ELSE @]
    /\ msgs' = (msgs \ {m}) \cup {Resp(IF m.done THEN snap'[receiver].index ELSE 0)}
    /\ UNCHANGED <<sender, cursor, match, synced, fenced, restarts, losses>>

\* Records below the receiver's end are skipped.  The last chunk moves the end to
\* that of the snapshot, syncs the partition, and only then is the snapshot
\* installed.
OnChunk(m) ==
    LET fresh == {o \in m.data : o >= next[receiver]}
        last  == Max({next[receiver]} \cup {o + 1 : o \in fresh}) IN
    /\ m.type = "chunk" /\ receiver \notin fenced
    /\ part' = [part EXCEPT ![receiver] = @ \cup fresh]
    /\ next' = [next EXCEPT ![receiver] = IF m.done THEN Max({last, m.end}) ELSE last]
    /\ synced' = [synced EXCEPT ![receiver] = IF m.done THEN next'[receiver] ELSE @]
    /\ snap' = [snap EXCEPT ![receiver] =
                  IF m.done /\ m.index > @.index
                  THEN [index |-> m.index, end |-> next'[receiver]] ELSE @]
    /\ msgs' = (msgs \ {m}) \cup {Resp(IF m.done THEN snap'[receiver].index ELSE 0)}
    /\ UNCHANGED <<sender, cursor, match, fenced, restarts, losses>>

\* A write fails behind some of the records, or the fsync behind all of them: what was
\* written stays, and the partition is fenced.  The leader ignores an answer without
\* success, and sends the chunk again.
OnChunkFails(m, kept) ==
    LET fresh == {o \in m.data : o >= next[receiver]}
        last  == Max({next[receiver]} \cup {o + 1 : o \in kept}) IN
    /\ m.type = "chunk" /\ receiver \notin fenced /\ losses < MaxLosses
    /\ kept \subseteq fresh /\ \A o \in fresh \ kept, p \in kept : p < o
    /\ kept # fresh \/ m.done
    /\ part' = [part EXCEPT ![receiver] = @ \cup kept]
    /\ next' = [next EXCEPT ![receiver] = IF kept = fresh THEN Max({last, m.end}) ELSE last]
    /\ fenced' = fenced \cup {receiver}
    /\ msgs' = msgs \ {m}
    /\ losses' = losses + 1
    /\ UNCHANGED <<sender, synced, snap, cursor, match, restarts>>

\* A fenced partition takes no chunk until its broker restarts.
OnChunkRefused(m) ==
    /\ m.type = "chunk" /\ receiver \in fenced
    /\ msgs' = msgs \ {m}
    /\ UNCHANGED <<sender, part, next, synced, snap, cursor, match, fenced, restarts, losses>>

\* Mutant: the leader never learns that the snapshot is installed.
OnResp_NeverDone(m) ==
    /\ m.type = "resp"
    /\ SendSnapshot(m.next, msgs \ {m})
    /\ UNCHANGED <<sender, part, next, synced, snap, match, fenced, restarts, losses>>

\* The receiver is done, or the next chunk goes out from where it is.
OnResp(m) ==
    /\ m.type = "resp"
    /\ IF m.installed > 0
       THEN /\ match' = Max({match, m.installed})
            /\ IF match' < snap[sender].index
               THEN SendSnapshot(-1, msgs \ {m})
               ELSE cursor' = -1 /\ msgs' = msgs \ {m}
       ELSE /\ UNCHANGED match
            /\ SendSnapshot(m.next, msgs \ {m})
    /\ UNCHANGED <<sender, part, next, synced, snap, fenced, restarts, losses>>

Lose(m) ==
    /\ losses < MaxLosses
    /\ msgs' = msgs \ {m}
    /\ losses' = losses + 1
    /\ UNCHANGED <<sender, part, next, synced, snap, cursor, match, fenced, restarts>>

-----------------------------------------------------------------------------
(* Restarts and a new leader *)

\* Recovery takes the end from the records it finds.  A leader that restarts is
\* elected again: its cursor is gone, and replication finds the receiver's position.
Restart(n, kept) ==
    /\ restarts < MaxRestarts
    /\ n \in {sender, receiver}
    /\ ~PowerLoss => kept = part[n]
    /\ \A o \in part[n] \ kept : o >= synced[n] /\ \A p \in kept : p < o
    /\ part' = [part EXCEPT ![n] = kept]
    /\ next' = [next EXCEPT ![n] = Max({0} \cup {o + 1 : o \in kept})]
    /\ cursor' = IF n = sender THEN -1 ELSE cursor
    /\ match' = IF n = sender THEN snap[receiver].index ELSE match
    /\ msgs' = IF n = sender THEN {} ELSE msgs
    /\ fenced' = fenced \ {n}
    /\ restarts' = restarts + 1
    /\ UNCHANGED <<sender, synced, snap, losses>>

\* The receiver has all the log there is and is elected; the old leader is down, and
\* the next node is needed for a majority (it replaces a failed disk, or two nodes of
\* five are down).
HandOver ==
    /\ receiver < Nodes
    /\ CaughtUp /\ match > 0
    /\ sender' = receiver
    /\ cursor' = -1 /\ match' = 0 /\ msgs' = {}
    /\ UNCHANGED <<part, next, synced, snap, fenced, restarts, losses>>

Next ==
    \/ Apply \/ TakeSnapshot \/ Heartbeat \/ HandOver
    \/ \E o \in Offset : Retain(o)
    \/ \E m \in msgs : OnProbe(m) \/ OnChunk(m) \/ OnChunkRefused(m) \/ OnResp(m) \/ Lose(m)
    \/ \E m \in msgs : \E kept \in SUBSET Offset : OnChunkFails(m, kept)
    \/ \E n \in 1..Nodes : \E kept \in SUBSET part[n] : Restart(n, kept)

Spec == Init /\ [][Next]_vars

\* Heartbeats recur, and neither direction of the connection stalls.
Fairness ==
    /\ WF_vars(Heartbeat)
    /\ WF_vars(\E m \in msgs : OnProbe(m) \/ OnChunk(m) \/ OnChunkRefused(m))
    /\ WF_vars(\E m \in msgs : OnResp(m))

FairSpec == Spec /\ Fairness

-----------------------------------------------------------------------------
(* Properties *)

TypeOK ==
    /\ sender \in 1..(Nodes - 1) /\ cursor \in Offset \cup {-1}
    /\ msgs \subseteq Message /\ Cardinality(msgs) <= MaxInFlight
    /\ \A n \in 1..Nodes : part[n] \subseteq 0..(next[n] - 1) /\ next[n] \in Offset

\* A node whose log starts after a snapshot has every record below its end that
\* the leader still has: "a `done` chunk is only acknowledged once the state behind
\* it is really there" (raft/node.rs), and the log could not bring it back.
InstalledIsComplete ==
    snap[receiver].index > 0 =>
       \A o \in part[sender] : o < snap[receiver].end => o \in part[receiver]

\* The records a node's log was dropped behind are on its disk.
InstalledIsDurable ==
    \A n \in 1..Nodes : \A o \in part[n] : o < snap[n].end => o < synced[n]

\* Every transfer finishes: the leader does not send chunks forever.
TransferFinishes == []<>CaughtUp

\* The same for a leader that holds its records from its own log.  (One that was
\* caught up itself may have an end past its last record, which a restart forgets:
\* it then never reaches the end of its snapshot.  A receiver whose partition is
\* fenced waits for its restart.)
FirstTransferFinishes == []<>(CaughtUp \/ sender > 1 \/ receiver \in fenced)
=============================================================================
