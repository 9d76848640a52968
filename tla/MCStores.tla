------------------------------ MODULE MCStores ------------------------------
(***************************************************************************)
(* What a broker keeps beside its partitions: topics, committed offsets,   *)
(* API keys, schemas, quotas; and backups.  Their code shares no state, so *)
(* a behaviour of the composition takes the steps of one of them, focus.   *)
(* Groups are looked at twice: several groups (focus groups), and commits  *)
(* to one group of a longer partition (focus commits).                     *)
(***************************************************************************)
EXTENDS AdminStores

CONSTANTS
    Names, NoName, Tasks, MaxTopics, MaxUpdates, TopicFaults,
    Groups, Keys, NoOwner, NoSlot, Admins, Slots, MaxGroups, MaxEntries, MaxEnd, MaxChanges,
    GroupEvents, OneGroup, LongEnd,
    MaxRecords, MaxMeanwhile

VARIABLES
    focus,
    topics, hub, dir, raftDir, leftovers, topic, running, task, count, answered, deleted, disturbed,
    mem, disk, dirty, req, flush, life, end, events, processed, recreated, signalled,
    log, victims, written, meta, accepted, flushing, dump, archive, before, during, meanwhile

\* Schemas that differ in what check_compatibility looks at, and in a type.
FourSchemas ==
    LET schema(r, t, p) == [required |-> r, typed |-> t, props |-> p]
        x == CHOOSE f \in Fields : TRUE
        str == CHOOSE t \in Types : TRUE
        num == CHOOSE t \in Types : t # str
        None == [f \in Fields |-> Absent]
    IN {schema({x}, TRUE, [None EXCEPT ![x] = str]),
        schema(Fields, TRUE, [f \in Fields |-> IF f = x THEN str ELSE num]),
        schema({}, TRUE, [f \in Fields |-> str]),
        schema({x}, FALSE, None)}

topicsVars == <<topics, hub, dir, raftDir, leftovers, topic, running, task, count, answered,
                deleted, disturbed>>
groupsVars == <<mem, disk, dirty, req, flush, life, end, events, processed, recreated, signalled>>
dumpVars == <<log, victims, written, meta, accepted, flushing, dump, archive, before, during,
              meanwhile>>

vars == <<focus, topicsVars, groupsVars, keysVars, schemasVars, quotasVars, dumpVars, restoreVars>>

T == INSTANCE Topics
G == INSTANCE GroupStore
C == INSTANCE GroupStore WITH Groups <- OneGroup, MaxEnd <- LongEnd
D == INSTANCE Dump

Init ==
    /\ focus \in {"topics", "groups", "commits", "keys", "schemas", "quotas",
                 "dump", "restore"}
    /\ T!Init /\ AdminInit /\ D!Init
    /\ IF focus = "commits" THEN C!Init
       ELSE G!Init /\ (focus = "groups" \/ disk = G!NoFiles)
    /\ focus = "restore" \/ data = R!Missing

TopicsStep ==
    /\ focus = "topics" /\ T!Next
    /\ UNCHANGED <<focus, groupsVars, keysVars, schemasVars, quotasVars, dumpVars, restoreVars>>

GroupsStep ==
    /\ \/ focus = "groups" /\ G!Next
       \/ focus = "commits" /\ C!Next
    /\ UNCHANGED <<focus, topicsVars, keysVars, schemasVars, quotasVars, dumpVars, restoreVars>>

KeysStep ==
    /\ focus = "keys" /\ K!Next
    /\ UNCHANGED <<focus, topicsVars, groupsVars, schemasVars, quotasVars, dumpVars, restoreVars>>

SchemasStep ==
    /\ focus = "schemas" /\ S!Next
    /\ UNCHANGED <<focus, topicsVars, groupsVars, keysVars, quotasVars, dumpVars, restoreVars>>

QuotasStep ==
    /\ focus = "quotas" /\ Q!Next
    /\ UNCHANGED <<focus, topicsVars, groupsVars, keysVars, schemasVars, dumpVars, restoreVars>>

DumpStep ==
    /\ focus = "dump" /\ D!Next
    /\ UNCHANGED <<focus, topicsVars, groupsVars, keysVars, schemasVars, quotasVars, restoreVars>>

RestoreStep ==
    /\ focus = "restore" /\ R!Next
    /\ UNCHANGED <<focus, topicsVars, groupsVars, keysVars, schemasVars, quotasVars, dumpVars>>

Next ==
    \/ TopicsStep \/ GroupsStep \/ KeysStep \/ SchemasStep \/ QuotasStep
    \/ DumpStep \/ RestoreStep

Spec == Init /\ [][Next]_vars

-----------------------------------------------------------------------------
(* Properties *)

\* Topics: after a crash at any step a boot finds the topics whose creation was answered,
\* none whose deletion was, and can open all it finds (topic.rs, create; broker.rs,
\* delete_topic).
TopicsSurvive ==
    focus = "topics" => T!CreatedSurvives /\ T!DeletedStaysDeleted /\ T!BootOpensAll

\* Topics: what is served is on disk and registered, has a Raft state of its own and the
\* configuration published last, though requests under its name overlap (broker.rs,
\* create_topic, delete_topic; topic.rs, update_config).
TopicsServedWhole ==
    focus = "topics" => T!TypeOK /\ T!OwnRaftState /\ T!ServedIsWhole /\ T!ServedAsConfigured

\* Groups: no change is forgotten on its way to the disk, and an orderly stop saves what was
\* answered before the signal (groups.rs, flush; lib.rs, shutdown).
NothingForgotten ==
    /\ focus = "groups" => G!TypeOK /\ G!NothingForgotten /\ G!StopSavesEarlier
    /\ focus = "commits" => C!TypeOK /\ C!NothingForgotten /\ C!StopSavesEarlier

\* Groups: no committed offset passes an unprocessed record, and only the owner of a group
\* moves it (http/consume.rs, group_consume; groups.rs, authorize_or_claim).
AtLeastOnce ==
    /\ focus = "groups" => G!AtLeastOnce /\ G!OwnerWrites
    /\ focus = "commits" => C!AtLeastOnce /\ C!OwnerWrites

\* Backups: the archive of a running or crashed broker has no gap and nothing that is ahead
\* of its log, and a restore loses nothing the directory held (es-tools, dump.rs, restore.rs).
BackupsHold ==
    /\ focus = "dump" => D!TypeOK /\ D!NoGaps /\ D!MetadataBehind /\ D!RegistryWhole
    /\ RestoresKeep
=============================================================================
