------------------------------- MODULE Topics -------------------------------
(***************************************************************************)
(* Topics of a broker: create_topic, delete_topic, update_topic_config and *)
(* open of broker.rs, with Topic of topic.rs and the renames they rest on. *)
(*                                                                         *)
(* A topic is a directory topics/<name> with its topic.json, a directory   *)
(* raft/<name> if it is replicated, an entry in the broker's map and one   *)
(* in the hub of the Raft transport.  All four are keyed by the name; what *)
(* is created under a name after a deletion is another incarnation.        *)
(***************************************************************************)
EXTENDS Integers, FiniteSets, Functions

CONSTANTS
    Names,
    NoName,         \* model value
    Tasks,          \* requests that run at the same time
    MaxTopics,      \* bound: incarnations, of all names
    MaxUpdates,     \* bound: configuration updates
    TopicFaults     \* bound: failed system calls and clients that go away

Inc == 1..MaxTopics

VARIABLES
    topics,         \* the broker's map: name -> incarnation, 0: none
    hub,            \* registered Raft groups: name -> incarnation, 0: none
    dir,            \* topics/<name>
    raftDir,        \* raft/<name>: the incarnation whose state it holds, 0: none
    leftovers,      \* ~creating- and ~deleting- directories, by incarnation
    topic,          \* what the process holds of an incarnation
    running,        \* incarnations whose Raft node loops run
    task,
    count,          \* incarnations and updates so far, faults
    answered,       \* history: incarnations whose creation was answered
    deleted,        \* history: incarnations whose deletion was answered
    disturbed       \* history: what happened under a name that its topics do not get over

vars == <<topics, hub, dir, raftDir, leftovers, topic, running, task, count, answered, deleted,
          disturbed>>

NoDir  == [inc |-> 0, meta |-> 0, config |-> 0]     \* meta: whose topic.json, 0: none
Idle   == [pc |-> "idle", name |-> NoName, inc |-> 0, update |-> 0]
Unborn == [name |-> NoName, raft |-> FALSE, config |-> 0, segmentBytes |-> 0, loaded |-> 0]

Init ==
    /\ topics = [n \in Names |-> 0] /\ hub = topics /\ raftDir = topics
    /\ dir = [n \in Names |-> NoDir]
    /\ leftovers = {}
    /\ topic = [i \in Inc |-> Unborn]
    /\ running = {}
    /\ task = [t \in Tasks |-> Idle]
    /\ count = [topics |-> 0, updates |-> 0, faults |-> 0]
    /\ answered = {} /\ deleted = {} /\ disturbed = {}

Ends(t) == task' = [task EXCEPT ![t] = Idle]

Goto(t, pc) == task' = [task EXCEPT ![t].pc = pc]

Fault == count.faults < TopicFaults /\ count' = [count EXCEPT !.faults = @ + 1]

(***************************************************************************)
(* "kept": a directory outlived the request that made or deleted it.       *)
(* "half": a crash or a creation fell between the two renames of a         *)
(* deletion.  "stale": topic.json was written by an update of an earlier   *)
(* topic, or by one that was refused.                                      *)
(* "crossed": two updates applied their settings in another order than     *)
(* they were written.                                                      *)
(***************************************************************************)
Causes == {"kept", "half", "stale", "crossed"}

Disturb(n, cause) == disturbed' = disturbed \cup {<<n, cause>>}

DisturbIf(cond, n, cause) == IF cond THEN Disturb(n, cause) ELSE UNCHANGED disturbed

\* A deletion is under way whose topics/<name> is gone and whose raft/<name> is not.
HalfDeleted(n) ==
    \E t \in Tasks : task[t].name = n /\ task[t].pc \in {"topicsRemove", "raftDir"}

-----------------------------------------------------------------------------
(* create_topic *)

\* The name is free in the map and on disk; the directory is built under ~creating-.
Create(t, n, raft) ==
    /\ task[t] = Idle /\ count.topics < MaxTopics
    /\ topics[n] = 0 /\ dir[n] = NoDir
    /\ LET i == count.topics + 1
       IN /\ count' = [count EXCEPT !.topics = i]
          /\ topic' = [topic EXCEPT ![i] = [Unborn EXCEPT !.name = n, !.raft = raft]]
          /\ leftovers' = leftovers \cup {i}
          /\ task' = [task EXCEPT ![t] = [Idle EXCEPT !.pc = "stage", !.name = n, !.inc = i]]
    /\ UNCHANGED <<topics, hub, dir, raftDir, running, answered, deleted, disturbed>>

\* Mutant: the directory is made in place and filled afterwards.
Place_Early(t) ==
    /\ task[t].pc = "stage"
    /\ dir' = [dir EXCEPT ![task[t].name] = [NoDir EXCEPT !.inc = task[t].inc]]
    /\ leftovers' = leftovers \ {task[t].inc}
    /\ Goto(t, "open")
    /\ UNCHANGED <<topics, hub, raftDir, topic, running, count, answered, deleted, disturbed>>

\* Mutant: when the name was taken, what was made is removed by its final name.
Place_CleansUp(t) ==
    /\ task[t].pc = "stage"
    /\ leftovers' = leftovers \ {task[t].inc}
    /\ IF dir[task[t].name] = NoDir
       THEN /\ dir' = [dir EXCEPT ![task[t].name] =
                         [inc |-> task[t].inc, meta |-> task[t].inc, config |-> 0]]
            /\ Goto(t, "open")
       ELSE /\ dir' = [dir EXCEPT ![task[t].name] = NoDir]
            /\ Ends(t)
    /\ UNCHANGED <<topics, hub, raftDir, topic, running, count, answered, deleted, disturbed>>

\* Staged directory, rename and fsync of the parent.  A directory that came to be in the
\* meantime is not empty: exists() or the rename refuses.
Place(t) ==
    /\ task[t].pc = "stage"
    /\ leftovers' = leftovers \ {task[t].inc}
    /\ IF dir[task[t].name] = NoDir
       THEN /\ dir' = [dir EXCEPT ![task[t].name] =
                         [inc |-> task[t].inc, meta |-> task[t].inc, config |-> 0]]
            /\ DisturbIf(HalfDeleted(task[t].name), task[t].name, "half")
            /\ Goto(t, "open")
       ELSE Ends(t) /\ UNCHANGED <<dir, disturbed>>
    /\ UNCHANGED <<topics, hub, raftDir, topic, running, count, answered, deleted>>

\* PartitionHandle::open of a replicated partition: the state in raft/<name> is loaded
\* whoever left it, and the node loop started.
Opened(tp) == [tp EXCEPT !.loaded = IF tp.raft THEN raftDir[tp.name] ELSE 0]

\* The directory cannot be built or renamed: the staging directory is removed.
StageFails(t) ==
    /\ task[t].pc = "stage" /\ Fault
    /\ leftovers' = leftovers \ {task[t].inc}
    /\ Ends(t)
    /\ UNCHANGED <<topics, hub, dir, raftDir, topic, running, answered, deleted, disturbed>>

OpenPartitions(t) ==
    /\ task[t].pc = "open"
    /\ LET i == task[t].inc
           n == task[t].name
       IN /\ topic' = [topic EXCEPT ![i] = Opened(topic[i])]
          /\ raftDir' = IF topic[i].raft THEN [raftDir EXCEPT ![n] = i] ELSE raftDir
          /\ running' = IF topic[i].raft THEN running \cup {i} ELSE running
    /\ Goto(t, "attach")
    /\ UNCHANGED <<topics, hub, dir, leftovers, count, answered, deleted, disturbed>>

\* The rename cannot be synced, or a partition not be opened: the directory stays, the topic is not served.
OpenFails(t) ==
    /\ task[t].pc = "open" /\ Fault
    /\ Disturb(task[t].name, "kept")
    /\ Ends(t)
    /\ UNCHANGED <<topics, hub, dir, raftDir, leftovers, topic, running, answered, deleted>>

\* Mutant: topics join the transport when the broker starts, and only then.
Attach_AtStart(t) ==
    /\ task[t].pc = "attach"
    /\ Goto(t, "insert")
    /\ UNCHANGED <<topics, hub, dir, raftDir, leftovers, topic, running, count, answered, deleted,
                   disturbed>>

\* attach_raft: RaftHub::register refuses a name that is taken.
Attach(t) ==
    /\ task[t].pc = "attach"
    /\ topic[task[t].inc].raft => hub[task[t].name] = 0
    /\ hub' = IF topic[task[t].inc].raft THEN [hub EXCEPT ![task[t].name] = task[t].inc] ELSE hub
    /\ Goto(t, "insert")
    /\ UNCHANGED <<topics, dir, raftDir, leftovers, topic, running, count, answered, deleted,
                   disturbed>>

\* It fails: the registrations under the name are dropped and the directory is removed,
\* file by file.  raft/<name> and the node loops are left.
AttachFails(t) ==
    /\ task[t].pc = "attach" /\ topic[task[t].inc].raft
    /\ Fault
    /\ hub' = [hub EXCEPT ![task[t].name] = 0]
    /\ dir' = [dir EXCEPT ![task[t].name].meta = 0]
    /\ Disturb(task[t].name, "kept")
    /\ Goto(t, "undo")
    /\ UNCHANGED <<topics, raftDir, leftovers, topic, running, answered, deleted>>

Undo(t) ==
    /\ task[t].pc = "undo"
    /\ dir' = [dir EXCEPT ![task[t].name] = NoDir]
    /\ Ends(t)
    /\ UNCHANGED <<topics, hub, raftDir, leftovers, topic, running, count, answered, deleted,
                   disturbed>>

Insert(t) ==
    /\ task[t].pc = "insert"
    /\ topics' = [topics EXCEPT ![task[t].name] = task[t].inc]
    /\ answered' = answered \cup {task[t].inc}
    /\ Ends(t)
    /\ UNCHANGED <<hub, dir, raftDir, leftovers, topic, running, count, deleted, disturbed>>

-----------------------------------------------------------------------------
(* delete_topic *)

\* The topic leaves the map and the hub.
Delete(t, n) ==
    /\ task[t] = Idle /\ topics[n] # 0
    /\ topics' = [topics EXCEPT ![n] = 0]
    /\ hub' = IF topic[topics[n]].raft THEN [hub EXCEPT ![n] = 0] ELSE hub
    /\ task' = [task EXCEPT ![t] = [Idle EXCEPT !.pc = "shutdown", !.name = n, !.inc = topics[n]]]
    /\ UNCHANGED <<dir, raftDir, leftovers, topic, running, count, answered, deleted, disturbed>>

\* Mutant: the node loops are not waited for.
ShutdownNodes_Skipped(t) ==
    /\ task[t].pc = "shutdown"
    /\ Goto(t, "topicsDir")
    /\ UNCHANGED <<topics, hub, dir, raftDir, leftovers, topic, running, count, answered, deleted,
                   disturbed>>

\* p.shutdown().await of every partition
ShutdownNodes(t) ==
    /\ task[t].pc = "shutdown"
    /\ running' = running \ {task[t].inc}
    /\ Goto(t, "topicsDir")
    /\ UNCHANGED <<topics, hub, dir, raftDir, leftovers, topic, count, answered, deleted,
                   disturbed>>

\* The client closes its connection and the handler is dropped where it awaits: the
\* loops are cancelled, the directories stay.
DeleteDropped(t) ==
    /\ task[t].pc = "shutdown" /\ topic[task[t].inc].raft /\ Fault
    /\ running' = running \ {task[t].inc}
    /\ Disturb(task[t].name, "kept")
    /\ Ends(t)
    /\ UNCHANGED <<topics, hub, dir, raftDir, leftovers, topic, answered, deleted>>

\* Mutant: only the Raft state is removed.
RenameTopicsDir_Kept(t) ==
    /\ task[t].pc = "topicsDir"
    /\ Goto(t, "raftDir")
    /\ UNCHANGED <<topics, hub, dir, raftDir, leftovers, topic, running, count, answered, deleted,
                   disturbed>>

\* topics/<name> is renamed to ~deleting-.
RenameTopicsDir(t) ==
    /\ task[t].pc = "topicsDir"
    /\ dir' = [dir EXCEPT ![task[t].name] = NoDir]
    /\ leftovers' = leftovers \cup {task[t].inc}
    /\ Goto(t, "topicsRemove")
    /\ UNCHANGED <<topics, hub, raftDir, topic, running, count, answered, deleted, disturbed>>

\* The rename fails: it is logged, and the deletion goes on and is answered.
RenameFails(t) ==
    /\ task[t].pc = "topicsDir" /\ Fault
    /\ Disturb(task[t].name, "kept")
    /\ Goto(t, "raftDir")
    /\ UNCHANGED <<topics, hub, dir, raftDir, leftovers, topic, running, answered, deleted>>

RemoveTopicsDir(t) ==
    /\ task[t].pc = "topicsRemove"
    /\ leftovers' = leftovers \ {task[t].inc}
    /\ Goto(t, "raftDir")
    /\ UNCHANGED <<topics, hub, dir, raftDir, topic, running, count, answered, deleted, disturbed>>

\* raft/<name> is renamed and removed, if there is one, whoever's it is by now; the
\* deletion is answered.
RenameRaftDir(t) ==
    /\ task[t].pc = "raftDir"
    /\ raftDir' = [raftDir EXCEPT ![task[t].name] = 0]
    /\ deleted' = deleted \cup {task[t].inc}
    /\ Ends(t)
    /\ UNCHANGED <<topics, hub, dir, leftovers, topic, running, count, answered, disturbed>>

\* The rename fails, which is logged.
RenameRaftFails(t) ==
    /\ task[t].pc = "raftDir" /\ raftDir[task[t].name] # 0 /\ Fault
    /\ deleted' = deleted \cup {task[t].inc}
    /\ Disturb(task[t].name, "half")
    /\ Ends(t)
    /\ UNCHANGED <<topics, hub, dir, raftDir, leftovers, topic, running, answered>>

-----------------------------------------------------------------------------
(* update_topic_config *)

\* The topic is looked up.
Update(t, n) ==
    /\ task[t] = Idle /\ topics[n] # 0 /\ count.updates < MaxUpdates
    /\ count' = [count EXCEPT !.updates = @ + 1]
    /\ task' = [task EXCEPT ![t] = [pc |-> "write", name |-> n, inc |-> topics[n],
                                    update |-> count.updates + 1]]
    /\ UNCHANGED <<topics, hub, dir, raftDir, leftovers, topic, running, answered, deleted,
                   disturbed>>

\* Mutant: the configuration is published and not written.
WriteConfig_Unsaved(t) ==
    /\ task[t].pc = "write"
    /\ topic' = [topic EXCEPT ![task[t].inc].config = task[t].update]
    /\ Goto(t, "apply")
    /\ UNCHANGED <<topics, hub, dir, raftDir, leftovers, running, count, answered, deleted,
                   disturbed>>

\* update_config under the topic's lock: topic.json is replaced, if there is a directory
\* of the name, and the configuration published.
WriteConfig(t) ==
    /\ task[t].pc = "write"
    /\ LET n == task[t].name
           i == task[t].inc
       IN /\ IF dir[n] = NoDir
             THEN Ends(t) /\ UNCHANGED <<dir, topic>>
             ELSE /\ dir' = [dir EXCEPT ![n].meta = i, ![n].config = task[t].update]
                  /\ topic' = [topic EXCEPT ![i].config = task[t].update]
                  /\ Goto(t, "apply")
          /\ DisturbIf(dir[n].inc \notin {0, i}, n, "stale")
    /\ UNCHANGED <<topics, hub, raftDir, leftovers, running, count, answered, deleted>>

\* topic.json cannot be replaced, or its directory not be synced afterwards: the update
\* is refused, in the second case with the new file in place.
WriteConfigFails(t) ==
    /\ task[t].pc = "write" /\ dir[task[t].name] # NoDir /\ Fault
    /\ \/ UNCHANGED <<dir, disturbed>>
       \/ /\ dir' = [dir EXCEPT ![task[t].name].meta = task[t].inc,
                                ![task[t].name].config = task[t].update]
          /\ Disturb(task[t].name, "stale")
    /\ Ends(t)
    /\ UNCHANGED <<topics, hub, raftDir, leftovers, topic, running, answered, deleted>>

\* set_segment_bytes of the partitions, after the lock was dropped.
ApplyConfig(t) ==
    /\ task[t].pc = "apply"
    /\ topic' = [topic EXCEPT ![task[t].inc].segmentBytes = task[t].update]
    /\ DisturbIf(task[t].update # topic[task[t].inc].config, task[t].name, "crossed")
    /\ Ends(t)
    /\ UNCHANGED <<topics, hub, dir, raftDir, leftovers, running, count, answered, deleted>>

-----------------------------------------------------------------------------
(* Broker::open, after a crash *)

\* Leftovers are swept; directories with a topic.json are opened as it says, the others
\* left alone.
Restart ==
    /\ leftovers' = {}
    /\ topics' = [n \in Names |-> IF dir[n].meta # 0 THEN dir[n].inc ELSE 0]
    /\ topic' = [i \in Inc |->
         LET n == topic[i].name
         IN IF i \in Range(topics')
            THEN Opened([topic[i] EXCEPT !.raft = topic[dir[n].meta].raft, !.config = dir[n].config,
                                         !.segmentBytes = dir[n].config])
            ELSE topic[i]]
    /\ running' = {i \in Range(topics') \cap Inc : topic'[i].raft}
    /\ hub' = [n \in Names |-> IF topics'[n] \in running' THEN topics'[n] ELSE 0]
    /\ raftDir' = [n \in Names |-> IF topics'[n] \in running' THEN topics'[n] ELSE raftDir[n]]
    /\ task' = [t \in Tasks |-> Idle]
    /\ disturbed' = disturbed \cup {<<n, "half">> : n \in {m \in Names : HalfDeleted(m)}}
    /\ UNCHANGED <<dir, count, answered, deleted>>

Step(t) ==
    \/ Place(t) \/ StageFails(t) \/ OpenPartitions(t) \/ OpenFails(t) \/ Attach(t) \/ AttachFails(t) \/ Undo(t)
    \/ Insert(t) \/ ShutdownNodes(t) \/ DeleteDropped(t) \/ RenameTopicsDir(t) \/ RenameFails(t)
    \/ RemoveTopicsDir(t) \/ RenameRaftDir(t) \/ RenameRaftFails(t)
    \/ WriteConfig(t) \/ WriteConfigFails(t) \/ ApplyConfig(t)

Next ==
    \/ \E t \in Tasks, n \in Names :
         Delete(t, n) \/ Update(t, n) \/ \E raft \in BOOLEAN : Create(t, n, raft)
    \/ \E t \in Tasks : Step(t)
    \/ Restart

Spec == Init /\ [][Next]_vars

-----------------------------------------------------------------------------
(* Properties *)

Without(n, causes) == \A cause \in causes : <<n, cause>> \notin disturbed

Quiet(n) == \A t \in Tasks : task[t].name # n

\* Types; leftovers are never taken for topics.
TypeOK ==
    /\ topics \in [Names -> 0..MaxTopics] /\ hub \in [Names -> 0..MaxTopics]
    /\ raftDir \in [Names -> 0..MaxTopics]
    /\ dir \in [Names -> [inc : 0..MaxTopics, meta : 0..MaxTopics, config : 0..MaxUpdates]]
    /\ running \subseteq Inc /\ leftovers \subseteq Inc
    /\ disturbed \subseteq Names \X Causes
    /\ \A n \in Names : dir[n].inc # 0 => dir[n].inc \notin leftovers

\* A creation that was answered is on disk until its deletion, wherever the broker
\* crashes and whatever else is asked for under the name.  topic.rs, create.
CreatedSurvives ==
    \A i \in answered :
       \/ dir[topic[i].name].inc = i
       \/ i \in deleted
       \/ <<topic[i].name, "half">> \in disturbed
       \/ \E t \in Tasks : task[t].inc = i /\ task[t].pc \in {"topicsRemove", "raftDir"}

\* A deleted topic does not come back: once its deletion was answered it is neither
\* served nor on disk, also after a crash, unless its directory could not be renamed.
\* broker.rs, delete_topic.
DeletedStaysDeleted ==
    \A n \in Names : dir[n].inc \in deleted \/ topics[n] \in deleted => ~Without(n, {"kept"})

\* Every boot can open what it finds: a directory that is there has its topic.json, at
\* every point where the broker can crash.  topic.rs, create; broker.rs, delete_topic.
BootOpensAll ==
    \A n \in Names : dir[n].inc # 0 /\ dir[n].meta = 0 => ~Without(n, {"kept"})

\* A topic starts from its own Raft state: what an earlier topic of the name left in
\* raft/<name> is gone by then, and one node loop at most writes there.  Not so when a
\* crash or a creation falls between the two renames of a deletion.  broker.rs,
\* delete_topic.
OwnRaftState ==
    \A n \in Names : Without(n, {"half", "kept"}) =>
       /\ topics[n] # 0 => topic[topics[n]].loaded \in {0, topics[n]}
       /\ Cardinality({i \in running : topic[i].name = n}) <= 1

\* What is served is on disk and, if it is replicated, registered with the hub.
\* broker.rs, create_topic, delete_topic.
ServedIsWhole ==
    \A n \in Names : topics[n] # 0 =>
       LET i == topics[n]
       IN /\ dir[n].inc = i
          /\ topic[i].raft /\ Without(n, {"half"}) => hub[n] = i /\ raftDir[n] = i /\ i \in running

\* When no request is under way, what is served is described by its own topic.json, with
\* the configuration published last, and its partitions follow it.  Not so when an update
\* that began before a deletion ends after it, and the partitions not when two updates
\* cross.  broker.rs, update_topic_config; topic.rs, update_config.
ServedAsConfigured ==
    \A n \in Names : Quiet(n) /\ topics[n] # 0 =>
       LET i == topics[n]
       IN /\ Without(n, {"stale"}) => dir[n].meta = i /\ dir[n].config = topic[i].config
          /\ Without(n, {"crossed"}) => topic[i].segmentBytes = topic[i].config
=============================================================================
