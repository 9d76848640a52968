------------------------- MODULE ReplicatedPartition -------------------------
(***************************************************************************)
(* A partition behind a Raft group: raft_partition.rs.                     *)
(*                                                                         *)
(* append_batch reads the next free offset, proposes one entry that        *)
(* carries it, and waits for the apply loop to come across that entry.     *)
(* Between these steps the node may lose and win elections, restart, or    *)
(* be caught up by a snapshot.                                             *)
(*                                                                         *)
(* Consensus is taken at the level the module Raft establishes: a leader   *)
(* per term, elected by a majority none of which has a more up-to-date     *)
(* log; one exchange makes a follower's log the leader's; an entry of the  *)
(* current term on a majority is committed with everything before it.  The *)
(* transfer of a snapshot is one step here and the subject of the module   *)
(* SnapshotTransfer.                                                       *)
(*                                                                         *)
(* A write is one record, so an entry takes one offset.                    *)
(***************************************************************************)
EXTENDS Integers, Sequences, FiniteSets, FiniteSetsExt, SetOrder

CONSTANTS
    Replica,        \* the nodes of the group
    Write,          \* one append_batch call each, and the record it carries
    Noop,           \* the payload of an election's entry
    Nothing,        \* no record; no replica
    Snapshots,      \* snapshot_after_applies > 0
    MaxElections,   \* bound: elections
    MaxRestarts     \* bound: power losses

ASSUME ReplicatedPartitionAssumption ==
    /\ IsFiniteSet(Replica) /\ IsFiniteSet(Write)
    /\ Noop \notin Write /\ Nothing \notin Write /\ Nothing \notin Replica
    /\ Snapshots \in BOOLEAN
    /\ MaxElections \in Nat /\ MaxRestarts \in Nat

VARIABLES
    \* Raft, per replica
    term, leads, log,
    commit,     \* commit index
    base,       \* index of the snapshot
    \* the partition, per replica
    queue,      \* committed entries handed to the apply loop: <<index, entry>>
    applied,    \* index of the last entry the loop applied
    part,       \* offset -> record
    next,       \* next_offset
    synced,     \* records below this offset survive a power loss
    \* append_batch, per write
    pc, at, offset, index,
    elections, restarts

raft   == <<term, leads, log, commit, base>>
store  == <<queue, applied, part, next, synced>>
calls  == <<pc, at, offset, index>>
bounds == <<elections, restarts>>
vars   == <<raft, store, calls, bounds>>

Offsets == 0..Cardinality(Write)

Majority == {Q \in SUBSET Replica : 2 * Cardinality(Q) > Cardinality(Replica)}

Init ==
    /\ term = [r \in Replica |-> 0]
    /\ leads = [r \in Replica |-> FALSE]
    /\ log = [r \in Replica |-> << >>]
    /\ commit = [r \in Replica |-> 0]
    /\ base = [r \in Replica |-> 0]
    /\ queue = [r \in Replica |-> << >>]
    /\ applied = [r \in Replica |-> 0]
    /\ part = [r \in Replica |-> [o \in Offsets |-> Nothing]]
    /\ next = [r \in Replica |-> 0]
    /\ synced = [r \in Replica |-> 0]
    /\ pc = [w \in Write |-> "idle"]
    /\ at = [w \in Write |-> Nothing]
    /\ offset = [w \in Write |-> 0]
    /\ index = [w \in Write |-> 0]
    /\ elections = 0
    /\ restarts = 0

-----------------------------------------------------------------------------
(* Raft *)

LastTerm(l) == IF l = << >> THEN 0 ELSE l[Len(l)].term

UpToDate(l, m) ==
    \/ LastTerm(l) > LastTerm(m)
    \/ LastTerm(l) = LastTerm(m) /\ Len(l) >= Len(m)

\* Entries a commit index moved to k hands to the apply loop; no-ops are not.
Handed(r, l, k) ==
    LET new == {i \in (commit[r] + 1)..k : l[i].write # Noop}
    IN  [n \in 1..Cardinality(new) |-> <<Ascending(new)[n], l[Ascending(new)[n]]>>]

Elect(r, Q) ==
    /\ ~leads[r]
    /\ elections < MaxElections
    /\ r \in Q
    /\ \A q \in Q : UpToDate(log[r], log[q])
    /\ LET t == Max({term[q] : q \in Replica}) + 1
       IN  /\ term' = [q \in Replica |-> IF q \in Q THEN t ELSE term[q]]
           /\ log' = [log EXCEPT ![r] = Append(@, [term |-> t, write |-> Noop, base |-> 0])]
    /\ leads' = [q \in Replica |-> q = r \/ (leads[q] /\ q \notin Q)]
    /\ elections' = elections + 1
    /\ UNCHANGED <<commit, base, store, calls, restarts>>

\* The follower's log reaches the leader's snapshot, or passes it.
Reaches(l, f) ==
    base[l] > base[f] => /\ base[l] <= Len(log[f])
                         /\ log[f][base[l]].term = log[l][base[l]].term

Replicate(l, f) ==
    /\ l # f /\ leads[l] /\ term[f] <= term[l]
    /\ Reaches(l, f)
    /\ term' = [term EXCEPT ![f] = term[l]]
    /\ leads' = [leads EXCEPT ![f] = FALSE]
    /\ log' = [log EXCEPT ![f] = log[l]]
    /\ LET k == Max({commit[f], commit[l]})
       IN  /\ commit' = [commit EXCEPT ![f] = k]
           /\ queue' = [queue EXCEPT ![f] = @ \o Handed(f, log[l], k)]
    /\ UNCHANGED <<base, applied, part, next, synced, calls, bounds>>

Commit(l, k) ==
    /\ leads[l]
    /\ k > commit[l]
    /\ log[l][k].term = term[l]
    /\ \E Q \in Majority : \A q \in Q : /\ term[q] = term[l]
                                        /\ Len(log[q]) >= k
                                        /\ log[q][k] = log[l][k]
    /\ commit' = [commit EXCEPT ![l] = k]
    /\ queue' = [queue EXCEPT ![l] = @ \o Handed(l, log[l], k)]
    /\ UNCHANGED <<term, leads, log, base, applied, part, next, synced, calls, bounds>>

\* A snapshot and the records it stands for, in place of the entries it covers.
\* The apply loop never sees those entries.
Install(l, f) ==
    /\ l # f /\ leads[l] /\ term[f] <= term[l]
    /\ ~Reaches(l, f)
    /\ term' = [term EXCEPT ![f] = term[l]]
    /\ leads' = [leads EXCEPT ![f] = FALSE]
    /\ log' = [log EXCEPT ![f] = SubSeq(log[l], 1, base[l])]
    /\ commit' = [commit EXCEPT ![f] = Max({@, base[l]})]
    /\ base' = [base EXCEPT ![f] = base[l]]
    /\ part' = [part EXCEPT ![f] = [o \in Offsets |->
                  IF o >= next[f] /\ o < synced[l] THEN part[l][o] ELSE @[o]]]
    /\ next' = [next EXCEPT ![f] = Max({@, synced[l]})]
    /\ synced' = [synced EXCEPT ![f] = next'[f]]
    /\ UNCHANGED <<queue, applied, calls, bounds>>

-----------------------------------------------------------------------------
(* append_batch *)

Data(r) == {i \in (base[r] + 1)..Len(log[r]) : log[r][i].write # Noop}

\* Mutant: the log is not looked at.
NextAssignable_EndOffset(r) == next[r]

\* Past every record in the partition and every record the log will produce.
NextAssignable(r) ==
    IF Data(r) = {} THEN next[r]
    ELSE Max({next[r], log[r][Max(Data(r))].base + 1})

\* Register the waiter, take the propose lock, read the offset.
Begin(w, r) ==
    /\ pc[w] = "idle"
    /\ \A v \in Write : ~(at[v] = r /\ pc[v] = "based")
    /\ pc' = [pc EXCEPT ![w] = "based"]
    /\ at' = [at EXCEPT ![w] = r]
    /\ offset' = [offset EXCEPT ![w] = NextAssignable(r)]
    /\ UNCHANGED <<raft, store, index, bounds>>

\* The node loop takes the proposal: if the node leads by then, the entry goes
\* into its log, and the lock is released either way.
Propose(w) ==
    LET r == at[w] IN
    /\ pc[w] = "based"
    /\ IF leads[r]
       THEN /\ log' = [log EXCEPT ![r] =
                         Append(@, [term |-> term[r], write |-> w, base |-> offset[w]])]
            /\ index' = [index EXCEPT ![w] = Len(log[r]) + 1]
            /\ pc' = [pc EXCEPT ![w] = "accepted"]
       ELSE /\ pc' = [pc EXCEPT ![w] = "not leader"]
            /\ UNCHANGED <<log, index>>
    /\ UNCHANGED <<term, leads, commit, base, store, at, offset, bounds>>

\* The waiter learns the index its proposal was given.
NoteIndex(w) ==
    /\ pc[w] = "accepted"
    /\ pc' = [pc EXCEPT ![w] = "waiting"]
    /\ UNCHANGED <<raft, store, at, offset, index, bounds>>

CommitTimeout(w) ==
    /\ pc[w] = "waiting"
    /\ pc' = [pc EXCEPT ![w] = "timeout"]
    /\ UNCHANGED <<raft, store, at, offset, index, bounds>>

-----------------------------------------------------------------------------
(* The apply loop *)

\* Mutant: the waiter of the next index is given up too.
Answered_OffByOne(r, i, e) ==
    [w \in Write |->
       IF at[w] # r THEN pc[w]
       ELSE IF w = e.write /\ pc[w] \in {"accepted", "waiting"} THEN "ok"
       ELSE IF pc[w] = "waiting" /\ index[w] <= i + 1 THEN "replaced"
       ELSE pc[w]]

\* The waiter of entry e, and those whose index an applied entry reached.
Answered(r, i, e) ==
    [w \in Write |->
       IF at[w] # r THEN pc[w]
       ELSE IF w = e.write /\ pc[w] \in {"accepted", "waiting"} THEN "ok"
       ELSE IF pc[w] = "waiting" /\ index[w] <= i THEN "replaced"
       ELSE pc[w]]

\* Mutant: a replayed record is stored again, at the end.
Apply_Replays(r) ==
    /\ queue[r] # << >>
    /\ LET i == Head(queue[r])[1]
           e == Head(queue[r])[2]
           o == Max({e.base, next[r]})
       IN  /\ o \in Offsets
           /\ part' = [part EXCEPT ![r][o] = e.write]
           /\ next' = [next EXCEPT ![r] = o + 1]
           /\ pc' = Answered(r, i, e)
           /\ applied' = [applied EXCEPT ![r] = i]
    /\ queue' = [queue EXCEPT ![r] = Tail(@)]
    /\ UNCHANGED <<raft, synced, at, offset, index, bounds>>

\* Store the record under its own offset unless that offset is taken.
Apply(r) ==
    /\ queue[r] # << >>
    /\ LET i == Head(queue[r])[1]
           e == Head(queue[r])[2]
       IN  /\ IF e.base >= next[r]
              THEN /\ part' = [part EXCEPT ![r][e.base] = e.write]
                   /\ next' = [next EXCEPT ![r] = e.base + 1]
              ELSE UNCHANGED <<part, next>>
           /\ pc' = Answered(r, i, e)
           /\ applied' = [applied EXCEPT ![r] = i]
    /\ queue' = [queue EXCEPT ![r] = Tail(@)]
    /\ UNCHANGED <<raft, synced, at, offset, index, bounds>>

\* Mutant: the log is dropped before the partition is synced.
Snapshot_Unsynced(r) ==
    /\ Snapshots
    /\ applied[r] > base[r]
    /\ base' = [base EXCEPT ![r] = applied[r]]
    /\ UNCHANGED <<term, leads, log, commit, queue, applied, part, next, synced, calls, bounds>>

\* Sync the partition, then let Raft drop the log behind it.
Snapshot(r) ==
    /\ Snapshots
    /\ applied[r] > base[r]
    /\ synced' = [synced EXCEPT ![r] = next[r]]
    /\ base' = [base EXCEPT ![r] = applied[r]]
    /\ UNCHANGED <<term, leads, log, commit, queue, applied, part, next, calls, bounds>>

\* Power loss and restart: records applied since the last sync may be gone, Raft
\* applies them again; nobody waits any more.
Restart(r, end) ==
    /\ restarts < MaxRestarts
    /\ end \in synced[r]..next[r]
    /\ leads' = [leads EXCEPT ![r] = FALSE]
    /\ commit' = [commit EXCEPT ![r] = base[r]]
    /\ queue' = [queue EXCEPT ![r] = << >>]
    /\ applied' = [applied EXCEPT ![r] = base[r]]
    /\ part' = [part EXCEPT ![r] = [o \in Offsets |-> IF o < end THEN @[o] ELSE Nothing]]
    /\ next' = [next EXCEPT ![r] = end]
    /\ pc' = [w \in Write |-> IF at[w] = r /\ pc[w] \in {"based", "accepted", "waiting"}
                              THEN "gone" ELSE pc[w]]
    /\ restarts' = restarts + 1
    /\ UNCHANGED <<term, log, base, synced, at, offset, index, elections>>

Next ==
    \/ \E r \in Replica, Q \in Majority : Elect(r, Q)
    \/ \E l, f \in Replica : Replicate(l, f) \/ Install(l, f)
    \/ \E l \in Replica : \E k \in 1..Len(log[l]) : Commit(l, k)
    \/ \E w \in Write : (\E r \in Replica : Begin(w, r)) \/ Propose(w)
                        \/ NoteIndex(w) \/ CommitTimeout(w)
    \/ \E r \in Replica : Apply(r) \/ Snapshot(r)
    \/ \E r \in Replica : \E end \in Offsets : Restart(r, end)

Spec == Init /\ [][Next]_vars

-----------------------------------------------------------------------------
(* Properties *)

Entry == [term : Nat, write : Write \cup {Noop}, base : Offsets]

TypeOK ==
    /\ term \in [Replica -> Nat] /\ leads \in [Replica -> BOOLEAN]
    /\ log \in [Replica -> Seq(Entry)]
    /\ queue \in [Replica -> Seq(Nat \X Entry)]
    /\ part \in [Replica -> [Offsets -> Write \cup {Nothing}]]
    /\ \A r \in Replica : /\ base[r] <= commit[r] /\ commit[r] <= Len(log[r])
                          /\ synced[r] <= next[r] /\ next[r] \in Offsets

\* The record a sequence of entries leaves under offset o: that of the first entry
\* given o, unless an entry given more came before it.
Image(l, o) ==
    LET hits == {i \in 1..Len(l) :
                   /\ l[i].write # Noop /\ l[i].base = o
                   /\ \A j \in 1..(i - 1) : l[j].write # Noop => l[j].base < o}
    IN  IF hits = {} THEN Nothing ELSE l[Min(hits)].write

\* A replica's partition is what the logs of a majority say, record by record and
\* with the same gaps, through power losses, replays and snapshots (a snapshot may
\* carry records past the log it comes with: records outlive an apply that is
\* replayed).  Replicas so never hold different records under one offset.
StoreIsLogImage ==
    \A r \in Replica : \E Q \in Majority : \A q \in Q, o \in Offsets :
       part[r][o] = IF o < next[r] THEN Image(log[q], o) ELSE Nothing

\* An acknowledged write is in the logs of a majority, and where the log was
\* dropped behind a snapshot the partition is synced past it: no power loss and
\* no election loses it.
AckedSurvives ==
    \A w \in Write : pc[w] = "ok" =>
       \E Q \in Majority : \A q \in Q : \E i \in 1..Len(log[q]) :
          /\ log[q][i].write = w
          /\ i > base[q] \/ offset[w] < synced[q]

\* No replica holds another record under the offset an acknowledged write was
\* told: offsets "must not be handed out twice" (next_assignable_offset).
AckedOffsetIsOwn ==
    \A w \in Write, r \in Replica :
       pc[w] = "ok" => part[r][offset[w]] \in {w, Nothing}

\* The same while there has been one leader, through its power loss and replay.
OwnOffsetUnderOneLeader == elections <= 1 => AckedOffsetIsOwn

\* A write its caller was told "was not applied" is in no partition: it lost its
\* place in the log for good.  (Not so once snapshots are taken: an entry that
\* reaches a former leader inside one is never seen by its apply loop.)
ReplacedNeverApplied ==
    (\A r \in Replica : base[r] = 0) =>
       \A w \in Write, r \in Replica, o \in Offsets :
          pc[w] = "replaced" => part[r][o] # w

\* What append_batch tells its caller is so: the offset is the write's own, and a write
\* reported as replaced is stored nowhere, as far as the two properties above go.
VerdictsAreTrue == TypeOK /\ OwnOffsetUnderOneLeader /\ ReplacedNeverApplied
=============================================================================
