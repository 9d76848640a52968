-------------------------------- MODULE Raft --------------------------------
(***************************************************************************)
(* The consensus core of a replicated partition: raft/state.rs (the pure   *)
(* state machine), raft/log.rs (the log and its store) and the driver of   *)
(* raft/node.rs, which persists what a handler changed before it sends     *)
(* what the handler said.                                                  *)
(*                                                                         *)
(* `node[i]` is a RaftState.  As in the code, a handler is a function from *)
(* a state and a message to a state and the messages to send; an action    *)
(* applies one to a node.  Term, vote, log and snapshot are on disk when   *)
(* the action ends, so a restart keeps exactly these.                      *)
(*                                                                         *)
(* `log` is the whole history of the node's log and `base` the length of   *)
(* its compacted prefix: entries at or below `base` are gone from the      *)
(* code's log and are here what the snapshot stands for.  No handler reads *)
(* an entry below `base`.                                                  *)
(*                                                                         *)
(* The network holds up to MaxInFlight messages and delivers them in any   *)
(* order.  When there are more, it loses some, any of them; a message that *)
(* is never delivered is a lost one too.  The transport (raft/transport.rs)*)
(* drops what its queues cannot hold and what a broken connection still    *)
(* had queued, and never repeats a message.                                *)
(*                                                                         *)
(* Membership is fixed, the leader hint (routing of clients) is left out,  *)
(* and so are the implausible-term filter and the election timer: a        *)
(* timeout may always happen.                                              *)
(***************************************************************************)
EXTENDS Integers, Sequences, FiniteSets, FiniteSetsExt, SequencesExt

CONSTANTS
    Server,         \* the members
    None,           \* no vote
    Value,          \* commands that may be proposed
    Noop,           \* the entry a new leader appends
    MaxAppend,      \* MAX_APPEND_ENTRIES
    TornWrites,     \* can a crash hit between the steps of one persist?
    MaxInFlight,    \* bound: messages in flight; the rest is lost
    MaxElections,   \* bound: on the number of elections started
    MaxLog,         \* bound: nothing is proposed on a log this long
    MaxRestarts     \* bound: on the number of restarts

ASSUME RaftAssumption ==
    /\ IsFiniteSet(Server)
    /\ None \notin Server
    /\ MaxAppend \in Nat \ {0}
    /\ TornWrites \in BOOLEAN
    /\ MaxInFlight \in Nat
    /\ MaxElections \in Nat
    /\ MaxLog \in Nat
    /\ MaxRestarts \in Nat

VARIABLES
    node,       \* each server's RaftState
    msgs,       \* messages in flight
    committed,  \* history: the longest prefix any node ever knew committed
    elections,  \* elections started so far
    restarts,   \* restarts so far
    torn        \* history: servers that crashed inside the install of a snapshot

vars == <<node, msgs, committed, elections, restarts, torn>>

Peers(i) == Server \ {i}

\* ceil(peers / 2) + 1
Quorum == Cardinality(Server) \div 2 + 1

-----------------------------------------------------------------------------
(* The log *)

LastIndex(s) == Len(s.log)

LastTerm(s) == IF s.log = << >> THEN 0 ELSE s.log[Len(s.log)].term

\* -1 stands for None: compacted away, or past the end.
TermAt(s, k) ==
    CASE k = 0                            -> 0
      [] k # 0 /\ k \in s.base..Len(s.log) -> s.log[k].term
      [] OTHER                            -> -1

\* The positions of `es` that a log does not already hold when they are placed
\* at `start`.  What the snapshot covers is committed, hence identical.
Missing(s, start, es) ==
    {k \in 1..Len(es) : /\ start + k - 1 > s.base
                        /\ TermAt(s, start + k - 1) # es[k].term}

\* append_at refuses to cut committed entries.
Refuses(s, start, es) ==
    LET new == Missing(s, start, es)
        cut == start + Min(new) - 1
    IN  /\ new # {}
        /\ cut <= LastIndex(s)
        /\ cut <= s.commit

\* Mutant: what follows the place is dropped whether it conflicts or not.
AppendAt_CutsBehind(s, start, es) ==
    IF start <= s.base THEN s.log ELSE SubSeq(s.log, 1, start - 1) \o es

\* Keep what agrees, drop the conflicting suffix, append the rest.
AppendAt(s, start, es) ==
    LET new == Missing(s, start, es)
        cut == start + Min(new) - 1
    IN  IF new = {} THEN s.log
        ELSE SubSeq(s.log, 1, cut - 1) \o SubSeq(es, Min(new), Len(es))

-----------------------------------------------------------------------------
(* Messages *)

RequestVote(i, s, to) ==
    [type |-> "RequestVote", term |-> s.term, src |-> i, dst |-> to,
     lastIndex |-> LastIndex(s), lastTerm |-> LastTerm(s)]

RequestVoteResp(i, s, to, granted) ==
    [type |-> "RequestVoteResp", term |-> s.term, src |-> i, dst |-> to,
     granted |-> granted]

AppendEntries(i, s, to) ==
    LET prev == s.next[to] - 1
        upto == Min({Len(s.log), prev + MaxAppend})
    IN  [type |-> "AppendEntries", term |-> s.term, src |-> i, dst |-> to,
         prevIndex |-> prev,
         prevTerm |-> IF TermAt(s, prev) = -1 THEN 0 ELSE TermAt(s, prev),
         entries |-> SubSeq(s.log, prev + 1, upto),
         commit |-> s.commit]

AppendEntriesResp(i, s, to, success, match) ==
    [type |-> "AppendEntriesResp", term |-> s.term, src |-> i, dst |-> to,
     success |-> success, match |-> match]

\* The snapshot stands for the log prefix it was taken from.
InstallSnapshot(i, s, to) ==
    [type |-> "InstallSnapshot", term |-> s.term, src |-> i, dst |-> to,
     prefix |-> SubSeq(s.log, 1, s.base)]

InstallSnapshotResp(i, s, to, success, installed) ==
    [type |-> "InstallSnapshotResp", term |-> s.term, src |-> i, dst |-> to,
     success |-> success, installed |-> installed]

ReplicateTo(i, s, to) ==
    IF s.next[to] <= s.base THEN InstallSnapshot(i, s, to)
                            ELSE AppendEntries(i, s, to)

Heartbeats(i, s) == {ReplicateTo(i, s, j) : j \in Peers(i)}

\* A handler's result: the new state and what to send.
Result(s, out) == [state |-> s, out |-> out]

-----------------------------------------------------------------------------
(* Transitions of one state *)

NoMatch == [j \in Server |-> 0]
NoNext  == [j \in Server |-> 1]

StepDownTo(s, t) ==
    [s EXCEPT !.term = t, !.vote = None, !.role = "Follower", !.votes = {},
              !.match = NoMatch, !.next = NoNext]

\* Mutant: one position too far in the sorted indices.
Replicated_OffByOne(i, s) ==
    Max({k \in 0..LastIndex(s) :
           Cardinality({i} \cup {j \in Peers(i) : s.match[j] >= k}) >= Quorum - 1})

\* The highest index a majority holds, counting the node's own log.
Replicated(i, s) ==
    Max({k \in 0..LastIndex(s) :
           Cardinality({i} \cup {j \in Peers(i) : s.match[j] >= k}) >= Quorum})

\* Mutant: an entry of an earlier term is committed by counting too.
RecomputeCommit_AnyTerm(i, s) ==
    [s EXCEPT !.commit = Max({@, Replicated(i, s)})]

\* Only an entry of the current term is committed by counting.
RecomputeCommit(i, s) ==
    LET k == Replicated(i, s)
    IN  IF k > s.commit /\ TermAt(s, k) = s.term
        THEN [s EXCEPT !.commit = k] ELSE s

AppendLocal(s, v) ==
    [s EXCEPT !.log = Append(s.log, [term |-> s.term, value |-> v])]

BecomeLeader(i, s) ==
    LET a == AppendLocal(s, Noop)
    IN  RecomputeCommit(i, [a EXCEPT !.role = "Leader", !.votes = {},
                                     !.match = NoMatch,
                                     !.next = [j \in Server |-> LastIndex(a) + 1]])

StartElection(i, s) ==
    LET c == [s EXCEPT !.term = s.term + 1, !.role = "Candidate", !.vote = i,
                       !.votes = {i}]
    IN  IF Peers(i) = {} THEN Result(BecomeLeader(i, c), {})
        ELSE Result(c, {RequestVote(i, c, j) : j \in Peers(i)})

-----------------------------------------------------------------------------
(* Message handlers, entered with s.term >= m.term *)

UpToDate(s, m) ==
    \/ m.lastTerm > LastTerm(s)
    \/ m.lastTerm = LastTerm(s) /\ m.lastIndex >= LastIndex(s)

HandleRequestVote(i, s, m) ==
    LET grant == /\ m.term = s.term
                 /\ UpToDate(s, m)
                 /\ s.vote \in {None, m.src}
    IN  Result(IF grant THEN [s EXCEPT !.vote = m.src] ELSE s,
               {RequestVoteResp(i, s, m.src, grant)})

HandleRequestVoteResp(i, s, m) ==
    LET c == [s EXCEPT !.votes = @ \cup {m.src}]
        l == BecomeLeader(i, c)
    IN  IF s.role # "Candidate" \/ m.term # s.term \/ ~m.granted
        THEN Result(s, {})
        ELSE IF Cardinality(c.votes) >= Quorum
             THEN Result(l, Heartbeats(i, l))
             ELSE Result(c, {})

\* Mutant: the previous entry must be there, of whatever term.
Consistent_AnyTerm(s, m) ==
    \/ m.prevIndex < s.base
    \/ TermAt(s, m.prevIndex) # -1

Consistent(s, m) ==
    \/ m.prevIndex = 0
    \/ m.prevIndex < s.base
    \/ TermAt(s, m.prevIndex) = m.prevTerm

\* A success reports what this message proves and nothing more; a failure
\* reports the last index as a hint.
HandleAppendEntries(i, s, m) ==
    LET f    == [s EXCEPT !.role = "Follower"]
        last == m.prevIndex + Len(m.entries)
        ok   == Consistent(s, m) /\ ~Refuses(s, m.prevIndex + 1, m.entries)
        a    == [f EXCEPT !.log = AppendAt(s, m.prevIndex + 1, m.entries),
                          !.commit = Max({@, Min({m.commit, last})})]
    IN  IF m.term < s.term
        THEN Result(s, {AppendEntriesResp(i, s, m.src, FALSE, 0)})
        ELSE IF ok
             THEN Result(a, {AppendEntriesResp(i, a, m.src, TRUE, last)})
             ELSE Result(f, {AppendEntriesResp(i, f, m.src, FALSE, LastIndex(f))})

\* Mutant: the hint of a refusal is taken for a match.
HandleAppendEntriesResp_HintAsMatch(i, s, m) ==
    LET mi == Max({s.match[m.src], Min({m.match, LastIndex(s)})})
        up == RecomputeCommit(i, [s EXCEPT !.match[m.src] = mi,
                                           !.next[m.src] = mi + 1])
    IN  IF s.role # "Leader" \/ m.term # s.term
        THEN Result(s, {})
        ELSE Result(up, IF mi < LastIndex(s)
                        THEN {ReplicateTo(i, up, m.src)} ELSE {})

HandleAppendEntriesResp(i, s, m) ==
    LET mi   == Max({s.match[m.src], Min({m.match, LastIndex(s)})})
        up   == RecomputeCommit(i, [s EXCEPT !.match[m.src] = mi,
                                             !.next[m.src] = mi + 1])
        back == [s EXCEPT !.next[m.src] = Max({1, Min({@ - 1, m.match + 1})})]
    IN  IF s.role # "Leader" \/ m.term # s.term
        THEN Result(s, {})
        ELSE IF m.success
             THEN Result(up, IF mi < LastIndex(s)
                             THEN {ReplicateTo(i, up, m.src)} ELSE {})
             ELSE Result(back, {ReplicateTo(i, back, m.src)})

\* Mutant: the suffix is kept, whatever it follows.
InstalledLog_KeepsSuffix(s, prefix) ==
    IF Len(prefix) <= s.base THEN s.log
    ELSE prefix \o SubSeq(s.log, Len(prefix) + 1, Len(s.log))

\* Log::install_snapshot keeps the suffix only behind a matching entry.
InstalledLog(s, prefix) ==
    LET k == Len(prefix)
    IN  IF k <= s.base THEN s.log
        ELSE IF TermAt(s, k) = prefix[k].term
             THEN prefix \o SubSeq(s.log, k + 1, Len(s.log))
             ELSE prefix

HandleInstallSnapshot(i, s, m) ==
    LET k == Len(m.prefix)
        a == [s EXCEPT !.role = "Follower",
                       !.log = InstalledLog(s, m.prefix),
                       !.base = Max({@, k}),
                       !.commit = Max({@, k})]
    IN  IF m.term < s.term
        THEN Result(s, {InstallSnapshotResp(i, s, m.src, FALSE, 0)})
        ELSE Result(a, {InstallSnapshotResp(i, a, m.src, TRUE, a.base)})

HandleInstallSnapshotResp(i, s, m) ==
    LET mi == Max({s.match[m.src], Min({m.installed, LastIndex(s)})})
        a  == RecomputeCommit(i, [s EXCEPT !.match[m.src] = mi,
                                           !.next[m.src] = mi + 1])
    IN  IF s.role # "Leader" \/ m.term # s.term \/ ~m.success
        THEN Result(s, {})
        ELSE Result(a, IF mi < LastIndex(s) \/ s.base > mi
                       THEN {ReplicateTo(i, a, m.src)} ELSE {})

-----------------------------------------------------------------------------
(* Actions *)

Fresh == [role |-> "Follower", term |-> 0, vote |-> None, votes |-> {},
          log |-> << >>, base |-> 0, commit |-> 0,
          match |-> NoMatch, next |-> NoNext]

Init ==
    /\ node = [i \in Server |-> Fresh]
    /\ msgs = {}
    /\ committed = << >>
    /\ elections = 0
    /\ restarts = 0
    /\ torn = {}

Known(s) == SubSeq(s.log, 1, s.commit)

\* The driver takes the messages `got`, persists the new state, then sends.
Become(i, r, got) ==
    LET all == (msgs \ got) \cup r.out
    IN
    /\ node' = [node EXCEPT ![i] = r.state]
    /\ msgs' \in SUBSET all
    /\ Cardinality(msgs') = Min({MaxInFlight, Cardinality(all)})
    /\ committed' = IF Len(Known(r.state)) > Len(committed)
                    THEN Known(r.state) ELSE committed

OnElectionTimeout(i) ==
    /\ node[i].role # "Leader"
    /\ elections < MaxElections
    /\ Become(i, StartElection(i, node[i]), {})
    /\ elections' = elections + 1
    /\ UNCHANGED <<restarts, torn>>

OnHeartbeatTick(i) ==
    /\ node[i].role = "Leader"
    /\ Become(i, Result(node[i], Heartbeats(i, node[i])), {})
    /\ UNCHANGED <<elections, restarts, torn>>

Propose(i, v) ==
    /\ node[i].role = "Leader"
    /\ LastIndex(node[i]) < MaxLog
    /\ LET s == RecomputeCommit(i, AppendLocal(node[i], v))
       IN  Become(i, Result(s, Heartbeats(i, s)), {})
    /\ UNCHANGED <<elections, restarts, torn>>

\* take_snapshot of an applied command, and the compaction it allows.
TakeSnapshot(i, through) ==
    /\ through \in (node[i].base + 1)..node[i].commit
    /\ node[i].log[through].value # Noop
    /\ Become(i, Result([node[i] EXCEPT !.base = through], {}), {})
    /\ UNCHANGED <<elections, restarts, torn>>

\* on_message_with_progress: a newer term makes a follower first.
Adopt(i, m) ==
    IF m.term > node[i].term THEN StepDownTo(node[i], m.term) ELSE node[i]

OnRequestVote(i, m) ==
    /\ m.type = "RequestVote" /\ m.dst = i
    /\ Become(i, HandleRequestVote(i, Adopt(i, m), m), {m})
    /\ UNCHANGED <<elections, restarts, torn>>

OnRequestVoteResp(i, m) ==
    /\ m.type = "RequestVoteResp" /\ m.dst = i
    /\ Become(i, HandleRequestVoteResp(i, Adopt(i, m), m), {m})
    /\ UNCHANGED <<elections, restarts, torn>>

OnAppendEntries(i, m) ==
    /\ m.type = "AppendEntries" /\ m.dst = i
    /\ Become(i, HandleAppendEntries(i, Adopt(i, m), m), {m})
    /\ UNCHANGED <<elections, restarts, torn>>

OnAppendEntriesResp(i, m) ==
    /\ m.type = "AppendEntriesResp" /\ m.dst = i
    /\ Become(i, HandleAppendEntriesResp(i, Adopt(i, m), m), {m})
    /\ UNCHANGED <<elections, restarts, torn>>

OnInstallSnapshot(i, m) ==
    /\ m.type = "InstallSnapshot" /\ m.dst = i
    /\ Become(i, HandleInstallSnapshot(i, Adopt(i, m), m), {m})
    /\ UNCHANGED <<elections, restarts, torn>>

OnInstallSnapshotResp(i, m) ==
    /\ m.type = "InstallSnapshotResp" /\ m.dst = i
    /\ Become(i, HandleInstallSnapshotResp(i, Adopt(i, m), m), {m})
    /\ UNCHANGED <<elections, restarts, torn>>

-----------------------------------------------------------------------------
(* Crashes *)

\* Mutant: the vote does not survive.
Restored_LosesVote(s) ==
    [s EXCEPT !.role = "Follower", !.vote = None, !.votes = {}, !.commit = s.base,
              !.match = NoMatch, !.next = NoNext]

\* restore: the snapshot's index is all a restarted node knows committed.
Restored(s) ==
    [s EXCEPT !.role = "Follower", !.votes = {}, !.commit = s.base,
              !.match = NoMatch, !.next = NoNext]

Restart(i) ==
    /\ restarts < MaxRestarts
    /\ Become(i, Result(Restored(node[i]), {}), {})
    /\ restarts' = restarts + 1
    /\ UNCHANGED <<elections, torn>>

\* The store writes the hard state, cuts the log and appends to it one after
\* the other, and fsyncs at the end: a crash leaves the cut and some of the
\* new entries.  Nothing was answered.
TornAppendEntries(i, m, n) ==
    /\ TornWrites /\ restarts < MaxRestarts
    /\ m.type = "AppendEntries" /\ m.dst = i
    /\ LET s    == Adopt(i, m)
           gone == Missing(s, m.prevIndex + 1, m.entries)
           new  == AppendAt(s, m.prevIndex + 1, m.entries)
       IN  /\ m.term = s.term
           /\ Consistent(s, m)
           /\ gone # {}
           /\ ~Refuses(s, m.prevIndex + 1, m.entries)
           /\ n \in (m.prevIndex + Min(gone) - 1)..(Len(new) - 1)
           /\ Become(i, Result(Restored([s EXCEPT !.log = SubSeq(new, 1, n)]), {}), {m})
    /\ restarts' = restarts + 1
    /\ UNCHANGED <<elections, torn>>

\* A received snapshot is saved before the log and the hard state are touched:
\* a crash in between restores the snapshot under the old log and term, and
\* restore keeps whatever follows the snapshot's index.
TornInstallSnapshot(i, m) ==
    /\ TornWrites /\ restarts < MaxRestarts
    /\ m.type = "InstallSnapshot" /\ m.dst = i
    /\ m.term >= node[i].term
    /\ LET s == node[i]
           k == Len(m.prefix)
       IN  /\ k > s.base
           /\ Become(i, Result(Restored(
                [s EXCEPT !.log = m.prefix \o SubSeq(s.log, k + 1, Len(s.log)),
                          !.base = k]), {}), {m})
    /\ restarts' = restarts + 1
    /\ torn' = torn \cup {i}
    /\ UNCHANGED elections

-----------------------------------------------------------------------------
Next ==
    \/ \E i \in Server :
          \/ OnElectionTimeout(i)
          \/ OnHeartbeatTick(i)
          \/ \E v \in Value : Propose(i, v)
          \/ \E k \in 1..Len(node[i].log) : TakeSnapshot(i, k)
          \/ Restart(i)
    \/ \E i \in Server, m \in msgs :
          \/ OnRequestVote(i, m)
          \/ OnRequestVoteResp(i, m)
          \/ OnAppendEntries(i, m)
          \/ OnAppendEntriesResp(i, m)
          \/ OnInstallSnapshot(i, m)
          \/ OnInstallSnapshotResp(i, m)
          \/ \E n \in 0..Len(node[i].log) + MaxAppend : TornAppendEntries(i, m, n)
          \/ TornInstallSnapshot(i, m)

Spec == Init /\ [][Next]_vars

-----------------------------------------------------------------------------
(* Properties *)

Entry == [term : Nat, value : Value \cup {Noop}]

NodeState ==
    [role : {"Follower", "Candidate", "Leader"}, term : Nat,
     vote : Server \cup {None}, votes : SUBSET Server, log : Seq(Entry),
     base : Nat, commit : Nat, match : [Server -> Nat], next : [Server -> Nat]]

TypeOK ==
    /\ node \in [Server -> NodeState]
    /\ \A i \in Server : /\ node[i].base <= node[i].commit
                         /\ node[i].commit <= Len(node[i].log)
    /\ committed \in Seq(Entry)
    /\ elections \in Nat
    /\ restarts \in Nat

\* At most one leader is elected in a term, through crashes and lost, delayed
\* and reordered messages: votes are on disk before they are sent.
ElectionSafety ==
    \A i, j \in Server :
       /\ node[i].role = "Leader"
       /\ node[j].role = "Leader"
       /\ node[i].term = node[j].term
       => i = j

\* The first entry from which the logs of a set of servers can be compared.  A
\* crash inside an install leaves the old log behind a snapshot that need not fit
\* it (raft/node.rs): of such a server only what follows the snapshot counts.
Comparable(is) == IF is \cap torn = {} THEN 1 ELSE Max({node[i].base : i \in is}) + 1

\* Two logs that agree on the term of an entry agree up to that entry, from the
\* beginning or, after a crash inside an install, from the snapshots on.
LogMatching ==
    \A i, j \in Server :
       \A k \in 1..Min({Len(node[i].log), Len(node[j].log)}) :
          node[i].log[k].term = node[j].log[k].term
             => SubSeq(node[i].log, Comparable({i, j}), k)
                  = SubSeq(node[j].log, Comparable({i, j}), k)

\* What a node takes for committed is what every other node took, or will
\* take, for committed: state machines never apply different entries.
StateMachineSafety ==
    \A i \in Server : IsPrefix(Known(node[i]), committed)

\* Everything committed is on the disks of a majority, so no crash of a
\* minority, and no election, loses it.
CommittedOnMajority ==
    Cardinality({i \in Server : IsPrefix(committed, node[i].log)}) >= Quorum

\* The newest leader has every committed entry.
LeaderCompleteness ==
    \A i \in Server :
       /\ node[i].role = "Leader"
       /\ \A j \in Server : node[j].term <= node[i].term
       => IsPrefix(committed, node[i].log)

\* What is committed stays: on a majority of disks and with every new leader.
CommittedStays == CommittedOnMajority /\ LeaderCompleteness

\* What a leader believes a follower holds, the follower holds: an
\* acknowledgement claims only what the message proved.  A follower that crashed
\* inside the install of a later leader's snapshot holds what follows it.
MatchIsProven ==
    \A i, j \in Server :
       /\ node[i].role = "Leader"
       /\ node[j].term = node[i].term
       => LET from == IF j \in torn THEN node[j].base + 1 ELSE 1
          IN  IsPrefix(SubSeq(node[i].log, from, node[i].match[j]),
                       SubSeq(node[j].log, from, Len(node[j].log)))

\* Logs agree as far as their terms and the leader's match_index say.
LogsAgree == TypeOK /\ LogMatching /\ MatchIsProven

\* What follows an entry is of its term or of a newer one.  Log::install_snapshot
\* discards the entries behind one that does not match the snapshot, since they
\* "may conflict with the leader's history".
TermsNeverDecrease ==
    \A i \in Server :
       \A k \in 2..Len(node[i].log) : node[i].log[k - 1].term <= node[i].log[k].term
=============================================================================
