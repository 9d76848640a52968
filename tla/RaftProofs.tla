----------------------------- MODULE RaftProofs -----------------------------
(***************************************************************************)
(* At most one leader per term, for clusters of every size and without the *)
(* bounds of the model-checked instances.                                  *)
(*                                                                         *)
(* A node keeps its vote for its own term only, and a leader forgets who   *)
(* elected it, so no state holds enough to tell two leaders of an old term *)
(* apart.  The invariant therefore says that SOME record of all votes ever *)
(* cast, one per node and term, explains the state: the granted answers in *)
(* flight, the votes candidates have counted, and the majorities behind    *)
(* the leaders.  A step adds to the record and never changes it.           *)
(***************************************************************************)
EXTENDS Raft, FiniteSetTheorems, TLAPS

Fields == {"role", "term", "vote", "votes", "log", "base", "commit", "match", "next"}

\* What of a node's state elections depend on.
Voter(s) ==
    /\ DOMAIN s = Fields
    /\ s.role \in {"Follower", "Candidate", "Leader"}
    /\ s.term \in Nat
    /\ s.vote \in Server \cup {None}
    /\ s.votes \in SUBSET Server

VotersOK ==
    /\ DOMAIN node = Server
    /\ node = [i \in Server |-> node[i]]
    /\ \A i \in Server : Voter(node[i])

MsgsOK == \A m \in msgs : m.src \in Server /\ m.dst \in Server /\ m.term \in Nat

Granted(m) == m.type = "RequestVoteResp" /\ m.granted

Record == [Server -> [Nat -> Server \cup {None}]]

Supporters(H, t, c) == {v \in Server : H[v][t] = c}

\* The record knows each node's vote, and nothing of terms it has not reached.
Current(H) ==
    \A v \in Server :
       /\ H[v][node[v].term] = node[v].vote
       /\ \A t \in Nat : t > node[v].term => H[v][t] = None

AnswersCast(H) ==
    \A m \in msgs : Granted(m) => H[m.src][m.term] = m.dst

CandidatesCounted(H) ==
    \A i \in Server : node[i].role = "Candidate" =>
       node[i].votes \subseteq Supporters(H, node[i].term, i)

LeadersElected(H) ==
    \A i \in Server : node[i].role = "Leader" =>
       Cardinality(Supporters(H, node[i].term, i)) >= Quorum

Explains(H) ==
    /\ Current(H)
    /\ AnswersCast(H)
    /\ CandidatesCounted(H)
    /\ LeadersElected(H)

Inv == VotersOK /\ MsgsOK /\ \E H \in Record : Explains(H)

-----------------------------------------------------------------------------
(* What a handler may do to the state `s` of node i *)

\* A vote is cast once per term, and terms only grow.
BallotStep(s, t) ==
    \/ t.term > s.term
    \/ t.term = s.term /\ s.vote \in {None, t.vote}

\* Term and vote stay; the node stays what it is or follows.
Quiet(s, t) ==
    /\ Voter(t)
    /\ t.term = s.term
    /\ t.vote = s.vote
    /\ t.role = "Follower" \/ (t.role = s.role /\ t.votes = s.votes)

\* What a node sends when it grants nothing.
Mail(i, out) ==
    \A m \in out : /\ m.src = i /\ m.dst \in Server /\ m.term \in Nat
                   /\ ~Granted(m)

\* Two majorities of the servers share one.
LEMMA Majorities ==
    ASSUME NEW A \in SUBSET Server, NEW B \in SUBSET Server,
           Cardinality(A) >= Quorum, Cardinality(B) >= Quorum
    PROVE  A \cap B # {}
  <1>1. IsFiniteSet(Server) /\ Cardinality(Server) \in Nat
    BY RaftAssumption, FS_CardinalityType
  <1>2. Cardinality(A) \in Nat /\ Cardinality(B) \in Nat
    BY <1>1, FS_Subset, FS_CardinalityType
  <1>3. Cardinality(A) + Cardinality(B) > Cardinality(Server)
    BY <1>1, <1>2 DEF Quorum
  <1> QED BY <1>1, <1>3, FS_MajoritiesIntersect

\* At most one leader in a term follows from a record of the votes.
LEMMA InvSafe == Inv => ElectionSafety
  <1> SUFFICES ASSUME Inv, NEW i \in Server, NEW j \in Server,
                      node[i].role = "Leader", node[j].role = "Leader",
                      node[i].term = node[j].term
               PROVE  i = j
    BY DEF ElectionSafety
  <1>1. PICK H \in Record : Explains(H)
    BY DEF Inv
  <1> DEFINE A == Supporters(H, node[i].term, i)
             B == Supporters(H, node[i].term, j)
  <1>2. Cardinality(A) >= Quorum /\ Cardinality(B) >= Quorum
    BY <1>1 DEF Explains, LeadersElected
  <1>3. A \in SUBSET Server /\ B \in SUBSET Server
    BY DEF Supporters
  <1>4. PICK v \in Server : v \in A /\ v \in B
    BY SMTT(30), <1>2, <1>3, Majorities
  <1> QED BY <1>4 DEF Supporters

-----------------------------------------------------------------------------
(* One node takes a step *)

\* Server v backs node i in the term of its new state t.
Backed(i, t, v) ==
    \/ v = i /\ t.vote = i
    \/ /\ node[i].role = "Candidate"
       /\ node[i].term = t.term
       /\ v \in node[i].votes
    \/ \E m \in msgs : /\ Granted(m)
                       /\ m.src = v /\ m.dst = i /\ m.term = t.term

Cast(i, t, m) ==
    /\ m.src = i /\ m.dst \in Server /\ m.term \in Nat
    /\ Granted(m) => m.term = t.term /\ m.dst = t.vote

\* Why a new state t of node i may be a candidate or a leader.
RoleEarned(i, t) ==
    /\ t.role = "Candidate" => \A v \in t.votes : Backed(i, t, v)
    /\ t.role = "Leader" =>
          \/ node[i].role = "Leader" /\ node[i].term = t.term
          \/ \E W \in SUBSET Server : /\ Cardinality(W) >= Quorum
                                      /\ \A v \in W : Backed(i, t, v)

\* A step of one node that casts its vote at most once, and counts only votes
\* that were cast, extends the record.
LEMMA NodeStep ==
    ASSUME Inv, NEW i \in Server, NEW t, Voter(t), BallotStep(node[i], t),
           node' = [node EXCEPT ![i] = t],
           \A m \in msgs' : m \in msgs \/ Cast(i, t, m),
           RoleEarned(i, t)
    PROVE  Inv'
  <1>1. PICK H \in Record : Explains(H)
    BY DEF Inv
  <1> DEFINE G == [H EXCEPT ![i] = [H[i] EXCEPT ![t.term] = t.vote]]
  <1>2. /\ Voter(node[i])
        /\ \A j \in Server : node'[j] = IF j = i THEN t ELSE node[j]
    BY DEF Inv, VotersOK
  <1>3. VotersOK'
    BY <1>2 DEF Inv, VotersOK
  <1>4. G \in Record
    BY DEF Record, Voter
  <1>5. \A v \in Server, u \in Nat :
           G[v][u] = IF v = i /\ u = t.term THEN t.vote ELSE H[v][u]
    BY DEF Record, Voter
  <1>6. Current(H)
    BY <1>1 DEF Explains
  <1>7. \A v \in Server, u \in Nat, c \in Server : H[v][u] = c => G[v][u] = c
    <2> SUFFICES ASSUME NEW c \in Server, H[i][t.term] = c PROVE t.vote = c
      BY <1>5
    <2> QED BY SMTT(30), <1>2, <1>6, RaftAssumption DEF Current, BallotStep, Voter
  <1>8. \A v \in Server : Backed(i, t, v) => G[v][t.term] = i
    <2> SUFFICES ASSUME NEW v \in Server, Backed(i, t, v) PROVE G[v][t.term] = i
      OBVIOUS
    <2>1. t.term \in Nat
      BY DEF Voter
    <2>2. CASE v = i /\ t.vote = i
      BY SMTT(30), <2>1, <2>2, <1>5
    <2>3. CASE node[i].role = "Candidate" /\ node[i].term = t.term /\ v \in node[i].votes
      <3>1. H[v][t.term] = i
        BY SMTT(30), <2>3, <1>1 DEF Explains, CandidatesCounted, Supporters
      <3> QED BY SMTT(30), <3>1, <2>1, <1>7
    <2>4. CASE \E m \in msgs : /\ Granted(m)
                              /\ m.src = v /\ m.dst = i /\ m.term = t.term
      <3>1. H[v][t.term] = i
        BY SMTT(30), <2>4, <1>1 DEF Explains, AnswersCast
      <3> QED BY <3>1, <2>1, <1>7
    <2> QED BY SMTT(30), <2>2, <2>3, <2>4 DEF Backed
  <1>9. Current(G)'
    <2> SUFFICES ASSUME NEW v \in Server
                 PROVE  /\ G[v][node'[v].term] = node'[v].vote
                        /\ \A u \in Nat : u > node'[v].term => G[v][u] = None
      BY DEF Current
    <2>1. CASE v = i
      BY SMTT(30), <2>1, <1>2, <1>5, <1>6 DEF Current, BallotStep, Voter
    <2>2. CASE v # i
      <3>1. Voter(node[v])
        BY DEF Inv, VotersOK
      <3> QED BY SMTT(30), <3>1, <2>2, <1>2, <1>5, <1>6 DEF Current, Voter
    <2> QED BY <2>1, <2>2
  <1>10. AnswersCast(G)'
    <2> SUFFICES ASSUME NEW m \in msgs', Granted(m)
                 PROVE  G[m.src][m.term] = m.dst
      BY DEF AnswersCast, Granted
    <2>1. CASE m \in msgs
      BY SMTT(30), <2>1, <1>1, <1>7 DEF Explains, AnswersCast, Inv, MsgsOK
    <2>2. CASE Cast(i, t, m)
      BY SMTT(30), <2>2, <1>5 DEF Cast, Voter
    <2> QED BY SMTT(30), <2>1, <2>2
  <1>11. CandidatesCounted(G)'
    <2> SUFFICES ASSUME NEW j \in Server, node'[j].role = "Candidate",
                        NEW v \in node'[j].votes
                 PROVE  v \in Server /\ G[v][node'[j].term] = j
      BY DEF CandidatesCounted, Supporters
    <2>1. CASE j = i
      BY SMTT(30), <2>1, <1>2, <1>8 DEF RoleEarned, Voter
    <2>2. CASE j # i
      <3>1. Voter(node[j])
        BY DEF Inv, VotersOK
      <3>2. v \in Server /\ H[v][node[j].term] = j
        BY SMTT(30), <2>2, <1>1, <1>2 DEF Explains, CandidatesCounted, Supporters
      <3> QED BY SMTT(30), <3>1, <3>2, <2>2, <1>2, <1>7 DEF Voter
    <2> QED BY SMTT(30), <2>1, <2>2
  <1>12. LeadersElected(G)'
    <2> SUFFICES ASSUME NEW j \in Server, node'[j].role = "Leader"
                 PROVE  Cardinality(Supporters(G, node'[j].term, j)) >= Quorum
      BY Zenon DEF LeadersElected, Quorum
    <2>1. \A W \in SUBSET Server :
             (\A v \in W : G[v][node'[j].term] = j) /\ Cardinality(W) >= Quorum
             => Cardinality(Supporters(G, node'[j].term, j)) >= Quorum
      <3> SUFFICES ASSUME NEW W \in SUBSET Server,
                          \A v \in W : G[v][node'[j].term] = j,
                          Cardinality(W) >= Quorum
                   PROVE  Cardinality(Supporters(G, node'[j].term, j)) >= Quorum
        BY Zenon
      <3> DEFINE S == Supporters(G, node'[j].term, j)
      <3>1. S \in SUBSET Server /\ W \in SUBSET S
        BY DEF Supporters
      <3>2. IsFiniteSet(S)
        BY Zenon, <3>1, RaftAssumption, FS_Subset
      <3>3. Cardinality(W) <= Cardinality(S)
        BY Zenon, <3>1, <3>2, FS_Subset
      <3>4. Cardinality(W) \in Nat /\ Cardinality(S) \in Nat /\ Quorum \in Int
        BY SMTT(30), <3>1, <3>2, FS_Subset, FS_CardinalityType, RaftAssumption DEF Quorum
      <3> QED BY <3>3, <3>4
    <2>2. CASE j = i /\ ~(node[i].role = "Leader" /\ node[i].term = t.term)
      <3>1. PICK W \in SUBSET Server : /\ Cardinality(W) >= Quorum
                                       /\ \A v \in W : Backed(i, t, v)
        BY SMTT(30), <2>2, <1>2 DEF RoleEarned
      <3>2. \A v \in W : G[v][node'[j].term] = j
        BY SMTT(30), <3>1, <2>2, <1>2, <1>8
      <3> QED BY Zenon, <3>1, <3>2, <2>1
    <2>3. CASE node[j].role = "Leader" /\ node[j].term = node'[j].term
      <3> DEFINE W == Supporters(H, node[j].term, j)
      <3>1. Voter(node[j])
        BY DEF Inv, VotersOK
      <3>2. W \in SUBSET Server /\ Cardinality(W) >= Quorum
        BY SMTT(30), <2>3, <1>1 DEF Explains, LeadersElected, Supporters
      <3>3. \A v \in W : G[v][node'[j].term] = j
        BY SMTT(30), <3>1, <2>3, <1>7 DEF Supporters, Voter
      <3> QED BY Zenon, <3>2, <3>3, <2>1
    <2> QED BY SMTT(30), <2>2, <2>3, <1>2
  <1>13. MsgsOK'
    BY DEF Inv, MsgsOK, Cast
  <1> QED BY SMTT(30), <1>3, <1>4, <1>13, <1>9, <1>10, <1>11, <1>12 DEF Inv, Explains

-----------------------------------------------------------------------------
(* The state a handler starts from, and the ones that leave votes alone *)

\* A newer term leaves the node a follower without a vote.
LEMMA Adopted ==
    ASSUME Inv, NEW i \in Server, NEW m \in msgs
    PROVE  /\ Voter(Adopt(i, m))
           /\ m.src \in Server /\ m.dst \in Server /\ m.term \in Nat
           /\ Adopt(i, m).term >= m.term
           /\ \/ Adopt(i, m) = node[i]
              \/ /\ Adopt(i, m).term > node[i].term
                 /\ Adopt(i, m).vote = None
                 /\ Adopt(i, m).role = "Follower"
  <1>1. Voter(node[i]) /\ m.src \in Server /\ m.dst \in Server /\ m.term \in Nat
    BY DEF Inv, VotersOK, MsgsOK
  <1>2. CASE m.term > node[i].term
    <2>1. Adopt(i, m) = StepDownTo(node[i], m.term)
      BY <1>2 DEF Adopt
    <2>2. /\ Voter(StepDownTo(node[i], m.term))
          /\ StepDownTo(node[i], m.term).term = m.term
          /\ StepDownTo(node[i], m.term).vote = None
          /\ StepDownTo(node[i], m.term).role = "Follower"
      BY <1>1 DEF StepDownTo, Voter, Fields
    <2> QED BY SMTT(30), <1>1, <1>2, <2>1, <2>2
  <1>3. CASE ~(m.term > node[i].term)
    BY <1>1, <1>3 DEF Adopt, Voter
  <1> QED BY <1>2, <1>3

\* A quiet handler, run on the node's state or on the state adopted for a
\* message, keeps the record.
LEMMA QuietStep ==
    ASSUME Inv, NEW i \in Server, NEW got, NEW r, NEW s,
           Voter(s),
           \/ s = node[i]
           \/ s.term > node[i].term /\ s.role = "Follower",
           Quiet(s, r.state), Mail(i, r.out), Become(i, r, got)
    PROVE  Inv'
  <1> DEFINE t == r.state
  <1>1. node' = [node EXCEPT ![i] = t]
    BY DEF Become
  <1>2. \A m \in msgs' : m \in msgs \/ Cast(i, t, m)
    BY DEF Become, Mail, Cast
  <1>3. Voter(t) /\ BallotStep(node[i], t)
    BY DEF Quiet, BallotStep
  <1>4. RoleEarned(i, t)
    BY DEF Quiet, RoleEarned, Backed
  <1> HIDE DEF t
  <1> QED BY Zenon, <1>1, <1>2, <1>3, <1>4, NodeStep

\* Advancing the commit index touches nothing else.
LEMMA Recomputed ==
    ASSUME NEW i \in Server, NEW s, Voter(s)
    PROVE  /\ Voter(RecomputeCommit(i, s))
           /\ RecomputeCommit(i, s).role = s.role
           /\ RecomputeCommit(i, s).term = s.term
           /\ RecomputeCommit(i, s).vote = s.vote
           /\ RecomputeCommit(i, s).votes = s.votes
  BY DEF RecomputeCommit, Voter, Fields

\* A restart keeps term and vote.
LEMMA Restoring ==
    ASSUME NEW s, Voter(s)
    PROVE  Quiet(s, Restored(s))
  BY DEF Restored, Quiet, Voter, Fields

\* Replication grants nothing.
LEMMA Replicating ==
    ASSUME NEW i \in Server, NEW s, Voter(s), NEW j \in Server
    PROVE  Mail(i, {ReplicateTo(i, s, j)})
  BY DEF Mail, ReplicateTo, InstallSnapshot, AppendEntries, Granted, Voter

\* A round of heartbeats sends nothing but appends and snapshots.
LEMMA HeartbeatsMail ==
    ASSUME NEW i \in Server, NEW s, Voter(s)
    PROVE  Mail(i, Heartbeats(i, s))
  <1> SUFFICES ASSUME NEW j \in Server PROVE Mail(i, {ReplicateTo(i, s, j)})
    BY SMTT(30) DEF Heartbeats, Peers, Mail
  <1> QED BY Replicating

\* The handlers of replication leave term, vote and role to become_follower, and grant nothing.
LEMMA AppendEntriesQuiet ==
    ASSUME NEW i \in Server, NEW s, Voter(s), NEW m, m.src \in Server
    PROVE  /\ Quiet(s, HandleAppendEntries(i, s, m).state)
           /\ Mail(i, HandleAppendEntries(i, s, m).out)
  <1> DEFINE f == [s EXCEPT !.role = "Follower"]
             a(l, c) == [f EXCEPT !.log = l, !.commit = c]
  <1>1. Quiet(s, s) /\ Quiet(s, f) /\ \A l, c : Quiet(s, a(l, c))
    BY DEF Quiet, Voter, Fields
  <1>2. \A x, b, k : Voter(x) => Mail(i, {AppendEntriesResp(i, x, m.src, b, k)})
    BY DEF Mail, AppendEntriesResp, Granted, Voter
  <1> QED BY ZenonT(30), <1>1, <1>2 DEF HandleAppendEntries, Result, Quiet

\* The same of the answer to an append.
LEMMA AppendEntriesRespQuiet ==
    ASSUME NEW i \in Server, NEW s, Voter(s), NEW m, m.src \in Server
    PROVE  /\ Quiet(s, HandleAppendEntriesResp(i, s, m).state)
           /\ Mail(i, HandleAppendEntriesResp(i, s, m).out)
  <1> DEFINE mi   == Max({s.match[m.src], Min({m.match, LastIndex(s)})})
             ack  == [s EXCEPT !.match[m.src] = mi, !.next[m.src] = mi + 1]
             back == [s EXCEPT !.next[m.src] = Max({1, Min({@ - 1, m.match + 1})})]
             up   == RecomputeCommit(i, ack)
  <1>1. Quiet(s, s) /\ Quiet(s, ack) /\ Quiet(s, back) /\ Voter(ack)
    BY DEF Quiet, Voter, Fields
  <1>2. Quiet(s, up)
    <2> HIDE DEF ack
    <2> QED BY SMTT(30), <1>1, Recomputed DEF Quiet
  <1>3. Mail(i, {ReplicateTo(i, up, m.src)}) /\ Mail(i, {ReplicateTo(i, back, m.src)})
    <2> HIDE DEF up, back
    <2> QED BY SMTT(30), <1>1, <1>2, Replicating DEF Quiet
  <1>4. Mail(i, {})
    BY DEF Mail
  <1>5. HandleAppendEntriesResp(i, s, m) \in
          {Result(s, {}), Result(up, {}), Result(up, {ReplicateTo(i, up, m.src)}),
           Result(back, {ReplicateTo(i, back, m.src)})}
    BY DEF HandleAppendEntriesResp
  <1> HIDE DEF up, back
  <1> QED BY SMTT(30), <1>1, <1>2, <1>3, <1>4, <1>5 DEF Result

\* The same of a snapshot.
LEMMA InstallSnapshotQuiet ==
    ASSUME NEW i \in Server, NEW s, Voter(s), NEW m, m.src \in Server
    PROVE  /\ Quiet(s, HandleInstallSnapshot(i, s, m).state)
           /\ Mail(i, HandleInstallSnapshot(i, s, m).out)
  <1> DEFINE a == [s EXCEPT !.role = "Follower",
                            !.log = InstalledLog(s, m.prefix),
                            !.base = Max({@, Len(m.prefix)}),
                            !.commit = Max({@, Len(m.prefix)})]
  <1>1. Quiet(s, s) /\ Quiet(s, a) /\ Voter(a)
    BY DEF Quiet, Voter, Fields
  <1>2. /\ Mail(i, {InstallSnapshotResp(i, s, m.src, FALSE, 0)})
        /\ Mail(i, {InstallSnapshotResp(i, a, m.src, TRUE, a.base)})
    <2> HIDE DEF a
    <2> QED BY <1>1 DEF Mail, InstallSnapshotResp, Granted, Voter
  <1>3. CASE m.term < s.term
    <2>1. HandleInstallSnapshot(i, s, m)
            = Result(s, {InstallSnapshotResp(i, s, m.src, FALSE, 0)})
      BY <1>3 DEF HandleInstallSnapshot
    <2> QED BY SMTT(30), <1>1, <1>2, <2>1 DEF Result
  <1>4. CASE ~(m.term < s.term)
    <2>1. HandleInstallSnapshot(i, s, m)
            = Result(a, {InstallSnapshotResp(i, a, m.src, TRUE, a.base)})
      BY <1>4 DEF HandleInstallSnapshot
    <2> HIDE DEF a
    <2> QED BY SMTT(30), <1>1, <1>2, <2>1 DEF Result
  <1> QED BY <1>3, <1>4

\* The same of the answer to a snapshot.
LEMMA InstallSnapshotRespQuiet ==
    ASSUME NEW i \in Server, NEW s, Voter(s), NEW m, m.src \in Server
    PROVE  /\ Quiet(s, HandleInstallSnapshotResp(i, s, m).state)
           /\ Mail(i, HandleInstallSnapshotResp(i, s, m).out)
  <1> DEFINE mi  == Max({s.match[m.src], Min({m.installed, LastIndex(s)})})
             ack == [s EXCEPT !.match[m.src] = mi, !.next[m.src] = mi + 1]
             up  == RecomputeCommit(i, ack)
  <1>1. Quiet(s, s) /\ Quiet(s, ack) /\ Voter(ack)
    BY DEF Quiet, Voter, Fields
  <1>2. Quiet(s, up)
    <2> HIDE DEF ack
    <2> QED BY SMTT(30), <1>1, Recomputed DEF Quiet
  <1>3. Mail(i, {ReplicateTo(i, up, m.src)}) /\ Mail(i, {})
    <2> HIDE DEF up
    <2> QED BY SMTT(30), <1>2, Replicating DEF Quiet, Mail
  <1>4. HandleInstallSnapshotResp(i, s, m) \in
          {Result(s, {}), Result(up, {}), Result(up, {ReplicateTo(i, up, m.src)})}
    BY DEF HandleInstallSnapshotResp
  <1> HIDE DEF up
  <1> QED BY SMTT(30), <1>1, <1>2, <1>3, <1>4 DEF Result

-----------------------------------------------------------------------------
(* Elections *)

\* A new leader keeps term and vote.
LEMMA Leading ==
    ASSUME NEW i \in Server, NEW s, Voter(s)
    PROVE  /\ Voter(BecomeLeader(i, s))
           /\ BecomeLeader(i, s).role = "Leader"
           /\ BecomeLeader(i, s).term = s.term
           /\ BecomeLeader(i, s).vote = s.vote
  <1> DEFINE a == AppendLocal(s, Noop)
             l == [a EXCEPT !.role = "Leader", !.votes = {}, !.match = NoMatch,
                            !.next = [j \in Server |-> LastIndex(a) + 1]]
  <1>1. /\ Voter(a) /\ a.term = s.term /\ a.vote = s.vote
    BY DEF AppendLocal, Voter, Fields
  <1>2. Voter(l) /\ l.role = "Leader" /\ l.term = s.term /\ l.vote = s.vote
    <2> HIDE DEF a
    <2> QED BY <1>1 DEF Voter, Fields
  <1>3. BecomeLeader(i, s) = RecomputeCommit(i, l)
    BY DEF BecomeLeader
  <1> HIDE DEF l
  <1> QED BY SMTT(30), <1>2, <1>3, Recomputed

\* An election starts with the node's own vote, in a term of its own.
LEMMA ElectionStep ==
    ASSUME Inv, NEW i \in Server, Become(i, StartElection(i, node[i]), {})
    PROVE  Inv'
  <1> DEFINE c == [node[i] EXCEPT !.term = node[i].term + 1, !.role = "Candidate",
                                  !.vote = i, !.votes = {i}]
             l == BecomeLeader(i, c)
             rs == {RequestVote(i, c, j) : j \in Peers(i)}
  <1>1. Voter(node[i])
    BY DEF Inv, VotersOK
  <1>2. /\ Voter(c) /\ c.term = node[i].term + 1 /\ c.vote = i /\ c.votes = {i}
        /\ c.role = "Candidate"
    BY <1>1 DEF Voter, Fields
  <1>3. CASE Peers(i) = {}
    <2>1. StartElection(i, node[i]) = Result(l, {})
      BY <1>3 DEF StartElection
    <2>2. Voter(l) /\ l.role = "Leader" /\ l.term = node[i].term + 1 /\ l.vote = i
      <3> HIDE DEF c
      <3> QED BY <1>2, Leading
    <2> HIDE DEF l
    <2>3. /\ node' = [node EXCEPT ![i] = l]
          /\ \A m \in msgs' : m \in msgs
      BY <2>1 DEF Become, Result
    <2>4. BallotStep(node[i], l)
      BY <1>1, <2>2 DEF BallotStep, Voter
    <2>5. Cardinality({i}) >= Quorum
      <3>1. Server = {i}
        BY <1>3 DEF Peers
      <3>2. Cardinality({i}) = 1 /\ Cardinality(Server) = 1
        BY Zenon, <3>1, FS_Singleton
      <3>3. Quorum = 1
        BY <3>2 DEF Quorum
      <3> QED BY <3>2, <3>3
    <2>6. RoleEarned(i, l)
      BY <2>2, <2>5 DEF RoleEarned, Backed
    <2> QED BY ZenonT(30), <2>2, <2>3, <2>4, <2>6, NodeStep
  <1>4. CASE Peers(i) # {}
    <2>1. StartElection(i, node[i]) = Result(c, rs)
      BY <1>4 DEF StartElection
    <2>2. \A m \in rs : Cast(i, c, m)
      <3> HIDE DEF c
      <3> QED BY <1>2 DEF Cast, RequestVote, Granted, Peers, Voter
    <2> HIDE DEF c
    <2>3. /\ node' = [node EXCEPT ![i] = c]
          /\ \A m \in msgs' : m \in msgs \/ m \in rs
      BY <2>1 DEF Become, Result
    <2>4. BallotStep(node[i], c)
      BY <1>1, <1>2 DEF BallotStep, Voter
    <2>5. RoleEarned(i, c)
      BY <1>2 DEF RoleEarned, Backed
    <2> QED BY Zenon, <1>2, <2>2, <2>3, <2>4, <2>5, NodeStep
  <1> QED BY <1>3, <1>4

\* A vote is granted to one candidate per term.
LEMMA VoteStep ==
    ASSUME Inv, NEW i \in Server, NEW m \in msgs,
           Become(i, HandleRequestVote(i, Adopt(i, m), m), {m})
    PROVE  Inv'
  <1> DEFINE s == Adopt(i, m)
             v == [s EXCEPT !.vote = m.src]
             grant == /\ m.term = s.term
                      /\ UpToDate(s, m)
                      /\ s.vote \in {None, m.src}
             t == IF grant THEN v ELSE s
             answer == RequestVoteResp(i, s, m.src, grant)
  <1>1. /\ Voter(s) /\ m.src \in Server /\ Voter(node[i])
        /\ \/ s = node[i]
           \/ s.term > node[i].term /\ s.vote = None /\ s.role = "Follower"
    BY Adopted DEF Inv, VotersOK
  <1>2. HandleRequestVote(i, s, m) = Result(t, {answer})
    BY DEF HandleRequestVote
  <1> HIDE DEF s
  <1>3. /\ Voter(v) /\ v.term = s.term /\ v.vote = m.src /\ v.role = s.role
        /\ v.votes = s.votes
    BY SMTT(30), <1>1 DEF Voter, Fields
  <1>4. /\ answer.src = i /\ answer.dst = m.src /\ answer.term = s.term
        /\ Granted(answer) => grant
    BY DEF RequestVoteResp, Granted
  <1> HIDE DEF v, answer, grant
  <1>5. /\ node' = [node EXCEPT ![i] = t]
        /\ \A x \in msgs' : x \in msgs \/ x = answer
    BY <1>2 DEF Become, Result, s
  <1>6. Voter(t) /\ t.term = s.term /\ t.role = s.role /\ t.votes = s.votes
    BY SMTT(30), <1>1, <1>3
  <1>7. Cast(i, t, answer)
    BY SMTT(30), <1>1, <1>3, <1>4 DEF Cast, Voter
  <1>8. s.vote \in {None, t.vote}
    BY SMTT(30), <1>3 DEF grant
  <1> HIDE DEF t
  <1>9. BallotStep(node[i], t)
    BY SMTT(30), <1>1, <1>6, <1>8 DEF BallotStep, Voter
  <1>10. RoleEarned(i, t)
    BY SMTT(30), <1>1, <1>6 DEF RoleEarned, Backed
  <1> QED BY ZenonT(30), <1>5, <1>6, <1>7, <1>9, <1>10, NodeStep

\* A candidate counts granted answers, and leads once a majority granted.
LEMMA CountStep ==
    ASSUME Inv, NEW i \in Server, NEW m \in msgs,
           m.type = "RequestVoteResp", m.dst = i,
           Become(i, HandleRequestVoteResp(i, Adopt(i, m), m), {m})
    PROVE  Inv'
  <1> DEFINE s == Adopt(i, m)
             c == [s EXCEPT !.votes = @ \cup {m.src}]
             l == BecomeLeader(i, c)
             r == HandleRequestVoteResp(i, s, m)
  <1>1. /\ Voter(s) /\ m.src \in Server
        /\ \/ s = node[i]
           \/ s.term > node[i].term /\ s.role = "Follower"
    BY SMTT(30), Adopted
  <1>2. CASE s.role # "Candidate" \/ m.term # s.term \/ ~m.granted
    <2>1. r = Result(s, {})
      BY <1>2 DEF HandleRequestVoteResp
    <2> HIDE DEF s
    <2>2. Quiet(s, r.state) /\ Mail(i, r.out)
      BY SMTT(30), <2>1, <1>1 DEF Result, Quiet, Mail
    <2> HIDE DEF r
    <2> QED BY SMTT(30), <2>2, <1>1, QuietStep DEF r, s
  <1>3. CASE ~(s.role # "Candidate" \/ m.term # s.term \/ ~m.granted)
    <2>1. s = node[i] /\ s.role = "Candidate" /\ m.term = s.term /\ m.granted
      BY SMTT(30), <1>1, <1>3
    <2>2. r = IF Cardinality(c.votes) >= Quorum
              THEN Result(l, Heartbeats(i, l)) ELSE Result(c, {})
      BY <1>3 DEF HandleRequestVoteResp
    <2>3. Become(i, r, {m})
      OBVIOUS
    <2> HIDE DEF s, r
    <2>4. /\ Voter(c) /\ c.term = s.term /\ c.vote = s.vote
          /\ c.votes = s.votes \cup {m.src} /\ c.role = s.role
      BY <1>1 DEF Voter, Fields
    <2> HIDE DEF c
    <2>5. Voter(l) /\ l.role = "Leader" /\ l.term = s.term /\ l.vote = s.vote
      BY SMTT(30), <2>4, Leading
    <2> HIDE DEF l
    <2>6. \A t, v : t.term = s.term /\ v \in c.votes => Backed(i, t, v)
      BY SMTT(30), <2>1, <2>4 DEF Backed, Granted
    <2>7. c.votes \in SUBSET Server
      BY <2>4 DEF Voter
    <2>8. CASE Cardinality(c.votes) >= Quorum
      <3>1. RoleEarned(i, l)
        BY SMTT(30), <2>5, <2>6, <2>7, <2>8 DEF RoleEarned
      <3>2. /\ node' = [node EXCEPT ![i] = l]
            /\ \A x \in msgs' : x \in msgs \/ x \in Heartbeats(i, l)
        BY Zenon, <2>2, <2>3, <2>8 DEF Become, Result
      <3>3. \A x \in Heartbeats(i, l) : Cast(i, l, x)
        BY SMTT(30), <2>5, HeartbeatsMail DEF Mail, Cast
      <3>4. BallotStep(node[i], l)
        BY SMTT(30), <2>1, <2>5 DEF BallotStep
      <3> QED BY ZenonT(30), <2>5, <3>1, <3>2, <3>3, <3>4, NodeStep
    <2>9. CASE ~(Cardinality(c.votes) >= Quorum)
      <3>1. RoleEarned(i, c)
        BY SMTT(30), <2>1, <2>4, <2>6 DEF RoleEarned
      <3>2. /\ node' = [node EXCEPT ![i] = c]
            /\ \A x \in msgs' : x \in msgs
        BY ZenonT(30), <2>2, <2>3, <2>9 DEF Become, Result
      <3>3. BallotStep(node[i], c)
        BY SMTT(30), <2>1, <2>4 DEF BallotStep
      <3> QED BY ZenonT(30), <2>4, <3>1, <3>2, <3>3, NodeStep
    <2> QED BY SMTT(30), <2>8, <2>9
  <1> QED BY SMTT(30), <1>2, <1>3

-----------------------------------------------------------------------------
\* Servers that start without votes have a record of them.
LEMMA InitInv == Init => Inv
  <1> SUFFICES ASSUME Init PROVE Inv
    OBVIOUS
  <1>1. VotersOK
    BY DEF Init, VotersOK, Voter, Fresh, Fields
  <1>2. MsgsOK
    BY DEF Init, MsgsOK
  <1> DEFINE H == [v \in Server |-> [t \in Nat |-> None]]
  <1>3. H \in Record
    BY DEF Record
  <1>4. Explains(H)
    BY DEF Init, Fresh, Explains, Current, AnswersCast, CandidatesCounted, LeadersElected
  <1> QED BY SMTT(30), <1>1, <1>2, <1>3, <1>4 DEF Inv

\* Every action keeps the record of votes.
LEMMA NextInv == Inv /\ [Next]_vars => Inv'
  <1> SUFFICES ASSUME Inv, [Next]_vars PROVE Inv'
    OBVIOUS
  <1>1. \A i \in Server : Voter(node[i])
    BY DEF Inv, VotersOK
  <1>2. ASSUME NEW i \in Server, OnElectionTimeout(i) PROVE Inv'
    BY SMTT(30), <1>2, ElectionStep DEF OnElectionTimeout
  <1>3. ASSUME NEW i \in Server, OnHeartbeatTick(i) PROVE Inv'
    <2> DEFINE r == Result(node[i], Heartbeats(i, node[i]))
    <2>1. Quiet(node[i], r.state) /\ Mail(i, r.out)
      BY SMTT(30), <1>1, HeartbeatsMail DEF Result, Quiet
    <2>2. Become(i, r, {})
      BY SMTT(30), <1>3 DEF OnHeartbeatTick
    <2> HIDE DEF r
    <2> QED BY SMTT(30), <1>1, <2>1, <2>2, QuietStep
  <1>4. ASSUME NEW i \in Server, NEW v \in Value, Propose(i, v) PROVE Inv'
    <2> DEFINE a == AppendLocal(node[i], v)
               s == RecomputeCommit(i, a)
               r == Result(s, Heartbeats(i, s))
    <2>1. Quiet(node[i], a)
      BY SMTT(30), <1>1 DEF AppendLocal, Quiet, Voter, Fields
    <2>2. Become(i, r, {})
      BY SMTT(30), <1>4 DEF Propose
    <2> HIDE DEF a
    <2>3. Quiet(node[i], s)
      BY SMTT(30), <2>1, Recomputed DEF Quiet
    <2> HIDE DEF s
    <2>4. Quiet(node[i], r.state) /\ Mail(i, r.out)
      BY SMTT(30), <2>3, HeartbeatsMail DEF Result, Quiet
    <2> HIDE DEF r
    <2> QED BY SMTT(30), <1>1, <2>2, <2>4, QuietStep
  <1>5. ASSUME NEW i \in Server, NEW k \in 1..Len(node[i].log), TakeSnapshot(i, k)
        PROVE  Inv'
    <2> DEFINE r == Result([node[i] EXCEPT !.base = k], {})
    <2>1. Quiet(node[i], r.state) /\ Mail(i, r.out)
      BY <1>1 DEF Result, Quiet, Mail, Voter, Fields
    <2>2. Become(i, r, {})
      BY SMTT(30), <1>5 DEF TakeSnapshot
    <2> HIDE DEF r
    <2> QED BY SMTT(30), <1>1, <2>1, <2>2, QuietStep
  <1>6. ASSUME NEW i \in Server, Restart(i) PROVE Inv'
    <2> DEFINE r == Result(Restored(node[i]), {})
    <2>1. Quiet(node[i], r.state) /\ Mail(i, r.out)
      BY SMTT(30), <1>1, Restoring DEF Result, Mail
    <2>2. Become(i, r, {})
      BY <1>6 DEF Restart
    <2> HIDE DEF r
    <2> QED BY <1>1, <2>1, <2>2, QuietStep
  <1>7. ASSUME NEW i \in Server, NEW m \in msgs, OnRequestVote(i, m) PROVE Inv'
    BY SMTT(30), <1>7, VoteStep DEF OnRequestVote
  <1>8. ASSUME NEW i \in Server, NEW m \in msgs, OnRequestVoteResp(i, m) PROVE Inv'
    BY SMTT(30), <1>8, CountStep DEF OnRequestVoteResp
  <1>9. ASSUME NEW i \in Server, NEW m \in msgs, OnAppendEntries(i, m) PROVE Inv'
    BY SMTT(30), <1>9, Adopted, AppendEntriesQuiet, QuietStep DEF OnAppendEntries
  <1>10. ASSUME NEW i \in Server, NEW m \in msgs, OnAppendEntriesResp(i, m) PROVE Inv'
    BY SMTT(30), <1>10, Adopted, AppendEntriesRespQuiet, QuietStep DEF OnAppendEntriesResp
  <1>11. ASSUME NEW i \in Server, NEW m \in msgs, OnInstallSnapshot(i, m) PROVE Inv'
    BY SMTT(30), <1>11, Adopted, InstallSnapshotQuiet, QuietStep DEF OnInstallSnapshot
  <1>12. ASSUME NEW i \in Server, NEW m \in msgs, OnInstallSnapshotResp(i, m) PROVE Inv'
    BY SMTT(30), <1>12, Adopted, InstallSnapshotRespQuiet, QuietStep DEF OnInstallSnapshotResp
  <1>13. ASSUME NEW i \in Server, NEW m \in msgs, NEW n, TornAppendEntries(i, m, n)
         PROVE  Inv'
    <2> DEFINE s == Adopt(i, m)
               new == AppendAt(s, m.prevIndex + 1, m.entries)
               r == Result(Restored([s EXCEPT !.log = SubSeq(new, 1, n)]), {})
    <2>1. Voter(s) /\ (s = node[i] \/ (s.term > node[i].term /\ s.role = "Follower"))
      BY Adopted
    <2>2. Become(i, r, {m})
      BY <1>13 DEF TornAppendEntries
    <2> HIDE DEF s, new
    <2>3. Quiet(s, r.state) /\ Mail(i, r.out)
      BY Zenon, <2>1 DEF Result, Restored, Quiet, Mail, Voter, Fields
    <2> HIDE DEF r
    <2> QED BY SMTT(30), <2>1, <2>2, <2>3, QuietStep
  <1>14. ASSUME NEW i \in Server, NEW m \in msgs, TornInstallSnapshot(i, m) PROVE Inv'
    <2> DEFINE s == node[i]
               k == Len(m.prefix)
               w == [s EXCEPT !.log = m.prefix \o SubSeq(s.log, k + 1, Len(s.log)),
                              !.base = k]
               r == Result(Restored(w), {})
    <2>1. Become(i, r, {m})
      BY <1>14 DEF TornInstallSnapshot
    <2>2. Voter(w) /\ w.term = s.term /\ w.vote = s.vote /\ w.role = s.role /\ w.votes = s.votes
      BY SMTT(30), <1>1 DEF Voter, Fields
    <2> HIDE DEF w
    <2>3. Quiet(s, r.state) /\ Mail(i, r.out)
      BY SMTT(30), <2>2, Restoring DEF Result, Mail, Quiet
    <2> HIDE DEF r
    <2> QED BY SMTT(30), <1>1, <2>1, <2>3, QuietStep
  <1>15. CASE UNCHANGED vars
    BY <1>15 DEF vars, Inv, VotersOK, MsgsOK, Explains, Current, AnswersCast,
                 CandidatesCounted, LeadersElected
  <1> QED BY SMTT(30), <1>2, <1>3, <1>4, <1>5, <1>6, <1>7, <1>8, <1>9, <1>10, <1>11, <1>12,
             <1>13, <1>14, <1>15 DEF Next

\* No two nodes lead in the same term: for clusters of every size, any number
\* of elections, restarts and torn writes, and messages lost, delayed and
\* reordered at will.
THEOREM OneLeaderPerTerm == Spec => []ElectionSafety
  <1>1. Spec => []Inv
    BY InitInv, NextInv, PTL DEF Spec
  <1> QED BY <1>1, InvSafe, PTL
=============================================================================
