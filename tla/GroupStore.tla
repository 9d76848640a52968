----------------------------- MODULE GroupStore -----------------------------
(***************************************************************************)
(* Committed offsets of consumer groups: groups.rs, the handlers of        *)
(* http/groups.rs, http/consume.rs and http/admin_producers.rs that use    *)
(* it, and the part of BrokerHandle::shutdown that ends it.                *)
(*                                                                         *)
(* A group belongs to the key that first used it.  Commits change memory   *)
(* and mark the group dirty; a background task writes dirty groups once a  *)
(* second and once more when the broker is told to stop.                   *)
(*                                                                         *)
(* A consumer of a group (external) asks for the records after the         *)
(* committed offset, processes them and commits the offset it was given.   *)
(***************************************************************************)
EXTENDS Integers, FiniteSets, FiniteSetsExt

CONSTANTS
    Groups,
    Keys,               \* API keys; each has one request under way
    NoOwner, NoSlot,    \* model values
    Admins,             \* the keys with an admin grant
    Slots,              \* pairs of a topic and a partition
    MaxGroups,          \* MAX_GROUPS
    MaxEntries,         \* MAX_ENTRIES_PER_GROUP
    MaxEnd,             \* bound: records of a partition
    MaxChanges,         \* bound: no request starts after this many changes
    GroupEvents         \* bound: stops, crashes, failed writes, recreated topics

VARIABLES
    mem,        \* entries: group -> entry
    disk,       \* the group files
    dirty,
    req,        \* key -> its request
    flush,      \* the background task
    life,       \* "up", "draining" after the signal, "stopped" after an orderly stop
    end,        \* slot -> end offset of the partition
    events,
    processed,  \* history: group -> slot -> offsets that a consumer has processed
    recreated,  \* history: slots whose topic was deleted and created again
    signalled   \* history: group -> changes answered before the signal to stop

vars == <<mem, disk, dirty, req, flush, life, end, events, processed, recreated, signalled>>

None == -1      \* no offset is committed

\* No entry, or no file.  changes is a history counter.
Unknown == [exists |-> FALSE, owner |-> NoOwner, offsets |-> [s \in Slots |-> None],
            changes |-> 0]

\* GroupEntry::default
Unowned == [Unknown EXCEPT !.exists = TRUE]

\* A group file of before groups had owners: parse_group_file reads its offsets.
Legacy(s) == [Unowned EXCEPT !.offsets[s] = 0]

NoGroup == CHOOSE g \in Groups : TRUE

Idle  == [pc |-> "idle", group |-> NoGroup, slot |-> NoSlot, offset |-> 0]
Sleep == [pc |-> "sleep", taken |-> {}, todo |-> {}, left |-> {},
          copy |-> [g \in Groups |-> Unknown], final |-> FALSE]

NoFiles == [g \in Groups |-> Unknown]

Init ==
    /\ disk \in {NoFiles} \cup {[NoFiles EXCEPT ![NoGroup] = Legacy(s)] : s \in Slots}
    /\ mem = disk
    /\ dirty = {}
    /\ req = [k \in Keys |-> Idle]
    /\ flush = Sleep
    /\ life = "up"
    /\ end = [s \in Slots |-> 0]
    /\ events = 0
    /\ processed = [g \in Groups |-> [s \in Slots |-> {}]]
    /\ recreated = {}
    /\ signalled = [g \in Groups |-> 0]

\* Bound: all groups together, as what is in memory counts them.
MoreChanges == MapThenSumSet(LAMBDA g : mem[g].changes, Groups) < MaxChanges

Known == {g \in Groups : mem[g].exists}

Tracked(g) == {s \in Slots : mem[g].offsets[s] # None}

-----------------------------------------------------------------------------
(* Keys *)

May(k, entry) == entry.owner \in {NoOwner, k} \/ k \in Admins

\* Mutant: a group without a commit starts at the end of the partition.
From_End(g, s) == IF mem[g].offsets[s] # None THEN mem[g].offsets[s] ELSE end[s]

\* fetch, or the partition's start offset
From(g, s) == IF mem[g].offsets[s] # None THEN mem[g].offsets[s] ELSE 0

\* group_consume: check_access and fetch
Consume(k, g, s) ==
    /\ life = "up" /\ req[k] = Idle
    /\ May(k, mem[g])
    /\ req' = [req EXCEPT ![k] =
                 [pc |-> "read", group |-> g, slot |-> s, offset |-> From(g, s)]]
    /\ UNCHANGED <<mem, disk, dirty, flush, life, end, events, processed, recreated, signalled>>

\* dataplane::consume, and the consumer that processes what it got and commits.
Read(k) ==
    /\ req[k].pc = "read" /\ MoreChanges
    /\ LET g == req[k].group
           s == req[k].slot
           from == req[k].offset
       IN \E next \in (from + 1)..end[s] :
            /\ processed' = [processed EXCEPT ![g][s] = @ \cup from..(next - 1)]
            /\ req' = [req EXCEPT ![k].pc = "lookup", ![k].offset = next]
    /\ UNCHANGED <<mem, disk, dirty, flush, life, end, events, recreated, signalled>>

\* There is nothing to read, or the consumer goes away before it processes it.
ReadNothing(k) ==
    /\ req[k].pc = "read"
    /\ req' = [req EXCEPT ![k] = Idle]
    /\ UNCHANGED <<mem, disk, dirty, flush, life, end, events, processed, recreated, signalled>>

\* The join of the coordinator: it claims the group and commits nothing.
Join(k, g) ==
    /\ life = "up" /\ req[k] = Idle
    /\ MoreChanges
    /\ req' = [req EXCEPT ![k] = [Idle EXCEPT !.pc = "lookup", !.group = g]]
    /\ UNCHANGED <<mem, disk, dirty, flush, life, end, events, processed, recreated, signalled>>

\* authorize_or_claim: the slot, or the limit for a group that has none
Lookup(k) ==
    /\ req[k].pc = "lookup"
    /\ req' = [req EXCEPT ![k] =
                 IF @.group \in Known THEN [@ EXCEPT !.pc = "claim"]
                 ELSE IF Cardinality(Known) >= MaxGroups THEN Idle
                 ELSE [@ EXCEPT !.pc = "insert"]]
    /\ UNCHANGED <<mem, disk, dirty, flush, life, end, events, processed, recreated, signalled>>

\* entry().or_insert_with(...): another request may have been faster.
Insert(k) ==
    /\ req[k].pc = "insert"
    /\ mem' = [mem EXCEPT ![req[k].group].exists = TRUE]
    /\ req' = [req EXCEPT ![k].pc = "claim"]
    /\ UNCHANGED <<disk, dirty, flush, life, end, events, processed, recreated, signalled>>

Claimed(k) == [req EXCEPT ![k] = IF @.slot # NoSlot THEN [@ EXCEPT !.pc = "apply"] ELSE Idle]

\* Mutant: a claim does not look for an owner.
Claim_Steals(k) ==
    /\ req[k].pc = "claim"
    /\ mem' = [mem EXCEPT ![req[k].group].owner = k]
    /\ dirty' = dirty \cup {req[k].group}
    /\ req' = Claimed(k)
    /\ UNCHANGED <<disk, flush, life, end, events, processed, recreated, signalled>>

\* authorize_or_claim under the slot's lock.  The claim is marked dirty before the
\* lock is released.
Claim(k) ==
    /\ req[k].pc = "claim"
    /\ LET g == req[k].group
       IN \/ /\ mem[g].owner = NoOwner
             /\ mem' = [mem EXCEPT ![g].owner = k, ![g].changes = @ + 1]
             /\ dirty' = dirty \cup {g}
             /\ req' = Claimed(k)
          \/ /\ mem[g].owner # NoOwner
             /\ req' = IF May(k, mem[g]) THEN Claimed(k) ELSE [req EXCEPT ![k] = Idle]
             /\ UNCHANGED <<mem, dirty>>
    /\ UNCHANGED <<disk, flush, life, end, events, processed, recreated, signalled>>

\* commit: the offset is stored under the slot's lock, or the group has too many
Apply(k) ==
    /\ req[k].pc = "apply"
    /\ LET g == req[k].group
           s == req[k].slot
       IN IF mem[g].offsets[s] = None /\ Cardinality(Tracked(g)) >= MaxEntries
          THEN req' = [req EXCEPT ![k] = Idle] /\ UNCHANGED mem
          ELSE /\ mem' = [mem EXCEPT ![g].offsets[s] = req[k].offset, ![g].changes = @ + 1]
               /\ req' = [req EXCEPT ![k].pc = "mark"]
    /\ UNCHANGED <<disk, dirty, flush, life, end, events, processed, recreated, signalled>>

\* reset, for one group and partition of reset_offsets; the start offset is 0.  The
\* guard of the temporary is held until the statement ends, not while it is marked.
Reset(k, g, s) ==
    /\ life = "up" /\ req[k] = Idle /\ k \in Admins
    /\ s \in Tracked(g)
    /\ MoreChanges
    /\ mem' = [mem EXCEPT ![g].offsets[s] = 0, ![g].changes = @ + 1]
    /\ req' = [req EXCEPT ![k] = [Idle EXCEPT !.pc = "mark", !.group = g]]
    /\ UNCHANGED <<disk, dirty, flush, life, end, events, processed, recreated, signalled>>

\* mark_dirty, after the lock was dropped; the request is answered
Mark(k) ==
    /\ req[k].pc = "mark"
    /\ dirty' = dirty \cup {req[k].group}
    /\ req' = [req EXCEPT ![k] = Idle]
    /\ UNCHANGED <<mem, disk, flush, life, end, events, processed, recreated, signalled>>

-----------------------------------------------------------------------------
(* flush and spawn_flusher *)

\* Mutant: the signal ends the task, with no last flush.
FlushStart_Ends ==
    /\ life # "stopped" /\ flush = Sleep
    /\ dirty # {} \/ life = "draining"
    /\ flush' = IF life = "draining" THEN [Sleep EXCEPT !.pc = "done"]
                ELSE [Sleep EXCEPT !.pc = "copy", !.taken = dirty, !.todo = dirty]
    /\ dirty' = IF life = "draining" THEN dirty ELSE {}
    /\ UNCHANGED <<mem, disk, req, life, end, events, processed, recreated, signalled>>

\* The dirty set is taken.  After the signal this is the last flush.
FlushStart ==
    /\ life # "stopped" /\ flush = Sleep
    /\ dirty # {} \/ life = "draining"
    /\ flush' = IF dirty = {} THEN [Sleep EXCEPT !.pc = "done"]
                ELSE [Sleep EXCEPT !.pc = "copy", !.taken = dirty, !.todo = dirty,
                                   !.final = (life = "draining")]
    /\ dirty' = {}
    /\ UNCHANGED <<mem, disk, req, life, end, events, processed, recreated, signalled>>

FlushDone == IF flush.final THEN [Sleep EXCEPT !.pc = "done"] ELSE Sleep

\* One group is copied under its lock; the last one is followed by the writes.
FlushCopy(g) ==
    /\ flush.pc = "copy" /\ g \in flush.todo
    /\ flush' = [flush EXCEPT !.pc = IF flush.todo = {g} THEN "write" ELSE @,
                              !.todo = @ \ {g}, !.left = @ \cup {g}, !.copy[g] = mem[g]]
    /\ UNCHANGED <<mem, disk, dirty, req, life, end, events, processed, recreated, signalled>>

\* write_atomic of one copy
FlushWrite(g) ==
    /\ flush.pc = "write" /\ g \in flush.left
    /\ disk' = [disk EXCEPT ![g] = flush.copy[g]]
    /\ flush' = IF flush.left = {g} THEN FlushDone
                ELSE [flush EXCEPT !.left = @ \ {g}, !.copy[g] = Unknown]
    /\ UNCHANGED <<mem, dirty, req, life, end, events, processed, recreated, signalled>>

\* Mutant: a failed flush is not tried again.
FlushFails_Forgets(g) ==
    /\ flush.pc = "write" /\ g \in flush.left /\ events < GroupEvents
    /\ flush' = FlushDone
    /\ events' = events + 1
    /\ UNCHANGED <<mem, disk, dirty, req, life, end, processed, recreated, signalled>>

\* write_atomic fails, before its rename or after it.  Everything taken is dirty again.
FlushFails(g) ==
    /\ flush.pc = "write" /\ g \in flush.left /\ events < GroupEvents
    /\ disk' \in {disk, [disk EXCEPT ![g] = flush.copy[g]]}
    /\ dirty' = dirty \cup flush.taken
    /\ flush' = IF flush.final THEN [Sleep EXCEPT !.pc = "failed"] ELSE Sleep
    /\ events' = events + 1
    /\ UNCHANGED <<mem, req, life, end, processed, recreated, signalled>>

-----------------------------------------------------------------------------
(* The broker's life, and its topics *)

\* BrokerHandle::shutdown: the token of the flusher is cancelled while handlers run on.
Shutdown ==
    /\ life = "up" /\ events < GroupEvents
    /\ life' = "draining"
    /\ events' = events + 1
    /\ signalled' = [g \in Groups |->
                       IF \E k \in Keys : req[k].group = g /\ req[k].pc = "mark"
                       THEN 0 ELSE mem[g].changes]
    /\ UNCHANGED <<mem, disk, dirty, req, flush, end, processed, recreated>>

\* shutdown_background has joined the flusher.  Handlers that outlive the timeout of
\* the drain end with the process.
Stop ==
    /\ life = "draining" /\ flush.pc \in {"done", "failed"}
    /\ life' = "stopped"
    /\ UNCHANGED <<mem, disk, dirty, req, flush, end, events, processed, recreated, signalled>>

\* GroupStore::open
Open ==
    /\ mem' = disk
    /\ dirty' = {}
    /\ req' = [k \in Keys |-> Idle]
    /\ flush' = Sleep
    /\ life' = "up"
    /\ signalled' = [g \in Groups |-> 0]

Restart ==
    /\ life = "stopped"
    /\ Open
    /\ UNCHANGED <<disk, end, events, processed, recreated>>

Crash ==
    /\ life # "stopped" /\ events < GroupEvents
    /\ Open
    /\ events' = events + 1
    /\ UNCHANGED <<disk, end, processed, recreated>>

Produce(s) ==
    /\ life = "up" /\ end[s] < MaxEnd
    /\ end' = [end EXCEPT ![s] = @ + 1]
    /\ UNCHANGED <<mem, disk, dirty, req, flush, life, events, processed, recreated, signalled>>

\* delete_topic and create_topic of the same name: committed offsets are kept.
Recreate(s) ==
    /\ life = "up" /\ events < GroupEvents /\ end[s] > 0
    /\ end' = [end EXCEPT ![s] = 0]
    /\ processed' = [g \in Groups |-> [processed[g] EXCEPT ![s] = {}]]
    /\ recreated' = recreated \cup {s}
    /\ events' = events + 1
    /\ UNCHANGED <<mem, disk, dirty, req, flush, life, signalled>>

Flusher ==
    \/ FlushStart
    \/ \E g \in Groups : FlushCopy(g) \/ FlushWrite(g) \/ FlushFails(g)

Handler(k) ==
    \/ Read(k) \/ ReadNothing(k) \/ Lookup(k) \/ Insert(k) \/ Claim(k) \/ Apply(k) \/ Mark(k)

Next ==
    \/ \E k \in Keys, g \in Groups :
         \/ Join(k, g)
         \/ \E s \in Slots : Consume(k, g, s) \/ Reset(k, g, s)
    \/ \E k \in Keys : Handler(k)
    \/ Flusher
    \/ \E s \in Slots : Produce(s) \/ Recreate(s)
    \/ Shutdown \/ Stop \/ Restart \/ Crash

\* The runtime runs every task that is ready.
Fairness == WF_vars(Flusher) /\ \A k \in Keys : WF_vars(Handler(k))

Spec == Init /\ [][Next]_vars /\ Fairness

-----------------------------------------------------------------------------
(* Properties *)

Entry ==
    [exists : BOOLEAN, owner : Keys \cup {NoOwner}, offsets : [Slots -> Int], changes : Nat]

\* Types: entries, files and copies have one shape; the flusher holds what it took.
TypeOK ==
    /\ mem \in [Groups -> Entry] /\ disk \in [Groups -> Entry]
    /\ dirty \subseteq Groups
    /\ req \in [Keys -> [pc : {"idle", "read", "lookup", "insert", "claim", "apply", "mark"},
                            group : Groups,
                            slot : Slots \cup {NoSlot}, offset : Int]]
    /\ flush \in [pc : {"sleep", "copy", "write", "done", "failed"}, taken : SUBSET Groups,
                  todo : SUBSET Groups, left : SUBSET Groups, copy : [Groups -> Entry],
                  final : BOOLEAN]
    /\ life \in {"up", "draining", "stopped"}

\* g will be written again, or a request that changed it has not marked it yet.
Pending(g) ==
    \/ g \in dirty
    \/ g \in flush.todo
    \/ g \in flush.left /\ flush.copy[g] = mem[g]
    \/ \E k \in Keys : req[k].group = g /\ req[k].pc \in {"claim", "mark"}

\* No change is forgotten: a group whose file differs from memory is on its way to the
\* disk, whatever commits fall between the taking of the dirty set, the copy and the
\* write, and whichever write of a flush fails.  groups.rs, flush.
NothingForgotten ==
    \A g \in Groups : mem[g] # disk[g] => Pending(g)

\* Between its claim and its answer a commit is never overtaken by another owner: the
\* group a request writes to belongs to its key.  groups.rs, authorize_or_claim.
OwnerWrites ==
    \A k \in Keys :
       req[k].pc \in {"apply", "mark"} =>
         mem[req[k].group].owner = k \/ k \in Admins

\* At least once: a group's committed offset never passes a record that none of its
\* consumers has processed, across commits out of order, resets, crashes that lose the
\* last commits, and restarts.  It does once the topic was deleted and created again:
\* the offsets stay behind.  http/consume.rs, group_consume.
AtLeastOnce ==
    \A g \in Groups, s \in Slots \ recreated :
       \A o \in 0..(mem[g].offsets[s] - 1) : o \in processed[g][s]

\* An orderly stop saves every change answered before the signal, unless the last flush
\* failed.  Changes answered later can miss the last flush.  lib.rs, shutdown.
StopSavesEarlier ==
    life = "stopped" /\ flush.pc = "done" => \A g \in Groups : disk[g].changes >= signalled[g]

\* Nothing is left to be written, or the broker is stopping.
Saved == life # "up" \/ mem = disk
=============================================================================
