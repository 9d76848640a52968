------------------------------- MODULE MCNode -------------------------------
(***************************************************************************)
(* The parts of a running broker around its partitions and the Raft core:  *)
(* the store of the Raft log, the append path of a partition, the transfer *)
(* of a snapshot, the transport to a peer, the connections of clients and  *)
(* the members of a consumer group.  Seen from one of them the others are  *)
(* its environment, so a behaviour of the composition takes the steps of   *)
(* one of them, focus.                                                     *)
(***************************************************************************)
EXTENDS Transport

CONSTANTS
    MaxIndex, MaxTerm,
    Producers, Flusher, NoThread, FlushEvery, MaxWrites, MaxRolls,
    Nodes, Chunk, Retention, PowerLoss, MaxOffset, MaxSnapshots, MaxRestarts, MaxLosses, MaxInFlight,
    Conns, Addrs, MaxConnections, MaxPerIp, MaxInflight, OutCapacity, Budget, Sizes, Inflated,
    BinTopics, Ops, MaxReads,
    Members, GroupTopics, Subscriptions, MaxPartitions, MaxEvents, MaxGenerations

ASSUME SnapshotTransferAssumption ==
    /\ Nodes \in Nat \ {0, 1} /\ Chunk \in Nat \ {0} /\ MaxInFlight \in Nat \ {0}
    /\ Retention \in BOOLEAN /\ PowerLoss \in BOOLEAN
    /\ {MaxOffset, MaxSnapshots, MaxRestarts, MaxLosses} \subseteq Nat

ASSUME CoordinatorAssumption ==
    /\ Members \in Nat \ {0} /\ GroupTopics \in Nat \ {0}
    /\ Subscriptions \subseteq SUBSET (1..GroupTopics) \ {{}}
    /\ MaxPartitions \in Nat \ {0} /\ MaxEvents \in Nat /\ MaxGenerations \in Nat

VARIABLES
    focus,
    hard, file, exists, named, contents, dirty, snapshot, node, storePc, ops, saving, before,
    writes, active, latest, unsynced, synced, poisoned, appender, syncer, pc, want, goal, durable,
    torn, lost, acked,
    sender, part, next, syncedTo, snap, cursor, match, msgs, fenced, restarts, losses,
    conn, addr, perIp, gzip, step, reading, tasks, chain, waiters, free, out, writer, cancelled,
    stopping, plain, answered,
    partitions, checked, members, assignment, generation, stale, watched, view, changes,
    memberRestarts

storeVars == <<hard, file, exists, named, contents, dirty, snapshot, node, storePc, ops, saving,
               before>>
appendVars == <<writes, active, latest, unsynced, synced, poisoned, appender, syncer, pc, want,
                goal, durable, torn, lost, acked>>
transferVars == <<sender, part, next, syncedTo, snap, cursor, match, msgs, fenced, restarts, losses>>
transportVars == vars
serverVars == <<conn, addr, perIp, gzip, step, reading, tasks, chain, waiters, free, out, writer,
                cancelled, stopping, plain, answered>>

membersVars == <<partitions, checked, members, assignment, generation, stale, watched, view, changes,
                 memberRestarts>>

nodeVars == <<focus, storeVars, appendVars, transferVars, transportVars, serverVars, membersVars>>

L == INSTANCE RaftStore WITH pc <- storePc
P == INSTANCE GroupCommit WITH Replicated <- FALSE, WriteFaults <- TRUE, SyncFaults <- TRUE
X == INSTANCE SnapshotTransfer WITH synced <- syncedTo
B == INSTANCE BinaryServer
M == INSTANCE Coordinator WITH Topics <- GroupTopics, restarts <- memberRestarts

\* Addresses are interchangeable: the one of the first connection is fixed.
SomeAddr == CHOOSE a \in Addrs : TRUE

NodeInit ==
    /\ focus \in {"store", "append", "transfer", "transport", "server", "members"}
    /\ L!Init /\ P!Init /\ X!Init /\ Init /\ B!Init /\ M!Init
    /\ focus = "store" \/ hard.term = 0
    /\ \A c \in Conns : addr[c] = SomeAddr \/ (focus = "server" /\ c > 1)
    /\ focus = "members" \/ (watched = 1 /\ \A t \in 1..GroupTopics : partitions[t] = 0)

StoreStep ==
    /\ focus = "store" /\ L!Next
    /\ UNCHANGED <<focus, appendVars, transferVars, transportVars, serverVars, membersVars>>

AppendStep ==
    /\ focus = "append" /\ P!Next
    /\ UNCHANGED <<focus, storeVars, transferVars, transportVars, serverVars, membersVars>>

TransferStep ==
    /\ focus = "transfer" /\ X!Next
    /\ UNCHANGED <<focus, storeVars, appendVars, transportVars, serverVars, membersVars>>

TransportStep ==
    /\ focus = "transport" /\ Next
    /\ UNCHANGED <<focus, storeVars, appendVars, transferVars, serverVars, membersVars>>

ServerStep ==
    /\ focus = "server" /\ B!Next
    /\ UNCHANGED <<focus, storeVars, appendVars, transferVars, transportVars, membersVars>>

MembersStep ==
    /\ focus = "members" /\ M!Next
    /\ UNCHANGED <<focus, storeVars, appendVars, transferVars, transportVars, serverVars>>

NodeNext == StoreStep \/ AppendStep \/ TransferStep \/ TransportStep \/ ServerStep
            \/ MembersStep

NodeSpec == NodeInit /\ [][NodeNext]_nodeVars

-----------------------------------------------------------------------------
(* Properties *)

\* Raft files: whatever a crash leaves, at any step of a persist, a restart accepts it and
\* finds the old log or the new one, all that was persisted, and no entry of a term above
\* the hard state (raft/log.rs, persist, load; raft/node.rs, take_snapshot).
RaftFilesSurvive ==
    focus = "store" =>
      /\ L!TypeOK /\ L!RestartSucceeds /\ L!PersistedSurvives
      /\ L!OldOrNew /\ L!TermCoversLog

\* Append path: whatever write, roll or fsync fails, what was acknowledged is on disk until
\* the partition is fenced (partition.rs, append_batch, sync_upto).
AckedDurableUnlessFenced == focus = "append" => P!TypeOK /\ P!AckedDurableUnlessFenced

\* Transfer: a node whose log starts after a snapshot has the records it covers, on disk
\* (raft/node.rs, on_message; raft_partition.rs, apply_chunk).
InstalledIsBacked ==
    focus = "transfer" => X!TypeOK /\ X!InstalledIsComplete /\ X!InstalledIsDurable

\* Server: connections of an address and bytes of the budget are counted exactly
\* (binary/server.rs, IpSlot, process).
LimitsExact == focus = "server" => B!TypeOK /\ B!PerIpExact /\ B!BudgetExact

\* Server: produces to a topic run in the order they were read, and all answers are
\* written before the writer ends (binary/server.rs, serve, writer_loop).
AnswersInOrder == focus = "server" => B!ProduceOrder /\ B!AnsweredBeforeClose

\* Members: through every sequence of rebalances no partition has two readers, no member
\* more than its share, members of one subscription read every partition, and a member
\* whose generation is current knows what it reads (coord.rs, recompute_assignment).
AssignmentSound ==
    focus = "members" =>
      /\ M!TypeOK /\ M!OneReader /\ M!Balanced
      /\ M!CoveredWhenAlike /\ M!NothingChanged

\* Members: a rebalance leaves a member what it may keep (coord.rs, recompute_assignment).
Sticky == M!Sticky
=============================================================================
