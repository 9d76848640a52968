------------------------- MODULE PartitionInvariant -------------------------
(***************************************************************************)
(* The invariant of ReplicatedPartition that is inductive, in layers:      *)
(* types, Raft, the apply queue, the partition, the calls.                 *)
(***************************************************************************)
EXTENDS ReplicatedPartition

-----------------------------------------------------------------------------
(* Finite sets *)

\* The function a lists the members of S, a set of numbers, in ascending order.
Enumerates(a, S) ==
    /\ a \in [1..Cardinality(S) -> S]
    /\ \A i, j \in 1..Cardinality(S) : i < j => a[i] < a[j]
    /\ \A x \in S : \E i \in 1..Cardinality(S) : a[i] = x

\* What the steps below need of finite sets.  It holds of all constants that meet
\* ReplicatedPartitionAssumption (the lemma GroundHolds of PartitionRaftProofs).
Ground ==
    /\ \A S \in SUBSET Write :
          /\ Cardinality(S) \in Nat /\ Cardinality(S) <= Cardinality(Write)
          /\ \A w \in Write \ S : Cardinality(S \cup {w}) = Cardinality(S) + 1
    /\ \A Q, R \in Majority : \E q \in Replica : q \in Q /\ q \in R
    /\ Replica # {} => Replica \in Majority
    /\ \A f \in [Replica -> Nat] :
          Replica # {} => LET T == {f[q] : q \in Replica}
                          IN  Max(T) \in T /\ \A x \in T : x <= Max(T)
    /\ \A a, b \in Nat : \A S \in SUBSET (a..b) :
          /\ Cardinality(S) \in Nat /\ Enumerates(Ascending(S), S)
          /\ S # {} => Max(S) \in S /\ \A x \in S : x <= Max(S)

\* What append_batch may be doing, or have answered.
States == {"idle", "based", "accepted", "waiting", "ok", "replaced", "timeout",
           "not leader", "gone"}

-----------------------------------------------------------------------------
(* Types, and the count of offsets given out *)

\* The types of all variables.
Types ==
    /\ term \in [Replica -> Nat] /\ leads \in [Replica -> BOOLEAN]
    /\ log \in [Replica -> Seq(Entry)]
    /\ commit \in [Replica -> Nat] /\ base \in [Replica -> Nat]
    /\ queue \in [Replica -> Seq(Nat \X Entry)]
    /\ applied \in [Replica -> Nat]
    /\ part \in [Replica -> [Offsets -> Write \cup {Nothing}]]
    /\ next \in [Replica -> Offsets] /\ synced \in [Replica -> Offsets]
    /\ pc \in [Write -> States]
    /\ at \in [Write -> Replica \cup {Nothing}]
    /\ offset \in [Write -> Offsets] /\ index \in [Write -> Nat]
    /\ elections \in Nat /\ restarts \in Nat

\* The calls that have been given an offset.
Begun == {w \in Write : pc[w] # "idle"}

\* Entry e at index i of a log is that of a call, or an election's.
IsProposal(i, e) ==
    e.write # Noop => /\ e.base = offset[e.write] /\ i = index[e.write]
                      /\ pc[e.write] \notin {"idle", "based"}

\* An entry is where its call was told, and carries the offset the call read.
Written ==
    /\ \A r \in Replica : \A i \in 1..Len(log[r]) : IsProposal(i, log[r][i])
    /\ \A r \in Replica : \A n \in 1..Len(queue[r]) :
          IsProposal(queue[r][n][1], queue[r][n][2])

\* Offsets are given out one by one: none is above the number of calls.
Counted ==
    /\ \A w \in Write : pc[w] # "idle" => /\ offset[w] < Cardinality(Begun)
                                          /\ at[w] \in Replica
    /\ \A r \in Replica : next[r] <= Cardinality(Begun) /\ synced[r] <= next[r]

-----------------------------------------------------------------------------
(* Raft *)

\* The term of entry i of the log of r.
Term(r, i) == log[r][i].term

\* Terms rise along a log and do not pass the term of its replica.
Terms ==
    \A r \in Replica :
       /\ \A i \in 1..Len(log[r]) : 0 < Term(r, i) /\ Term(r, i) <= term[r]
       /\ \A i, j \in 1..Len(log[r]) : i <= j => Term(r, i) <= Term(r, j)

\* A leader has written in its term.
LeaderLog ==
    \A r \in Replica : leads[r] => Len(log[r]) > 0 /\ Term(r, Len(log[r])) = term[r]

\* A term has one leader.
OneLeader ==
    \A r, s \in Replica : leads[r] /\ leads[s] /\ term[r] = term[s] => r = s

\* A leader has the longest run of entries of its term.
OwnTerm ==
    \A r, q \in Replica : leads[r] =>
       \A i \in 1..Len(log[q]) : Term(q, i) = term[r] => i <= Len(log[r])

\* A log with an entry of a term has all the entries of that term before it, and
\* all that was before those.
Matching ==
    \A p, q \in Replica : \A i \in 1..Len(log[p]), j \in 1..Len(log[q]) :
       i <= j /\ Term(p, i) = Term(q, j) => \A h \in 1..i : log[p][h] = log[q][h]

\* A majority took part in the election behind an entry.
Backed ==
    \A q \in Replica : \A i \in 1..Len(log[q]) :
       \E Q \in Majority : \A p \in Q : Term(q, i) <= term[p]

\* The sequences of entries that logs begin with.
Prefix == Seq(Entry)

\* Log l begins with P.
Holds(l, P) == Len(P) <= Len(l) /\ \A i \in 1..Len(P) : l[i] = P[i]

\* P is what every later leader's log begins with: a majority has it, and whoever
\* has an entry of a later term has it.
Chosen(P) ==
    /\ P # << >>
    /\ \E Q \in Majority : \A q \in Q : Holds(log[q], P)
    /\ \A q \in Replica :
          (\E i \in 1..Len(log[q]) : Term(q, i) > P[Len(P)].term) => Holds(log[q], P)

\* The first k entries of r's log are those of P, and r's term is not before P's.
Follows(r, k, P) ==
    /\ k <= Len(P) /\ k <= Len(log[r])
    /\ P[Len(P)].term <= term[r]
    /\ \A i \in 1..k : log[r][i] = P[i]

\* What a replica has committed is the beginning of something chosen.
CommitChosen ==
    \A r \in Replica :
       commit[r] = 0 \/ \E P \in Prefix : Chosen(P) /\ Follows(r, commit[r], P)

\* Neither snapshot nor apply loop is past the commit index, nor that past the log.
Indices ==
    \A r \in Replica : /\ base[r] <= commit[r] /\ applied[r] <= commit[r]
                       /\ commit[r] <= Len(log[r])

\* What Raft keeps of logs and terms.
RaftCore == Terms /\ LeaderLog /\ OneLeader /\ OwnTerm /\ Matching /\ Backed

\* What Raft keeps of all its state.
RaftInv == RaftCore /\ CommitChosen /\ Indices

-----------------------------------------------------------------------------
(* The apply queue *)

\* Entry i of the log of r carries a record.
IsData(r, i) == log[r][i].write # Noop

\* Entry i waits for the apply loop of r.
Queued(r, i) == \E n \in 1..Len(queue[r]) : queue[r][n][1] = i

\* The queue is the log's, in order, past what is applied and committed.
InOrder(r) ==
    /\ \A n \in 1..Len(queue[r]) :
          /\ queue[r][n][1] > applied[r] /\ queue[r][n][1] <= commit[r]
          /\ queue[r][n][2] = log[r][queue[r][n][1]] /\ IsData(r, queue[r][n][1])
    /\ \A m, n \in 1..Len(queue[r]) : m < n => queue[r][m][1] < queue[r][n][1]

\* A committed record is in the partition's past or waits in the queue; one behind
\* the snapshot is in the synced past; one past both snapshot and apply loop waits.
Handled(r) ==
    \A i \in 1..commit[r] : IsData(r, i) =>
       /\ log[r][i].base < next[r] \/ Queued(r, i)
       /\ i <= base[r] => log[r][i].base < synced[r]
       /\ i > base[r] /\ i > applied[r] => Queued(r, i)

\* Both of all replicas.
QueueInOrder == \A r \in Replica : InOrder(r)
CommittedIsHandled == \A r \in Replica : Handled(r)

\* What the apply loop relies on.
QueueInv == QueueInOrder /\ CommittedIsHandled

-----------------------------------------------------------------------------
(* The partition *)

\* P decides every offset below n.
Covers(P, n) == \E i \in 1..Len(P) : P[i].write # Noop /\ n <= P[i].base + 1

\* The partition of r is what applying P gives, up to the end of the partition.
IsImage(r, P) ==
    \A o \in Offsets : part[r][o] = IF o < next[r] THEN Image(P, o) ELSE Nothing

\* A partition is empty or the image of something chosen that decides all its offsets.
StoreChosen ==
    \A r \in Replica :
       \/ next[r] = 0 /\ \A o \in Offsets : part[r][o] = Nothing
       \/ \E P \in Prefix : Chosen(P) /\ Covers(P, next[r]) /\ IsImage(r, P)

-----------------------------------------------------------------------------
(* Calls *)

\* The record of call w is in P.
Has(P, w) == \E i \in 1..Len(P) : P[i].write = w

\* A record acknowledged to its caller is in something chosen.
OkChosen ==
    \A w \in Write : pc[w] = "ok" => \E P \in Prefix : Chosen(P) /\ Has(P, w)

\* The offsets of the log of r go up.
Rises(r) ==
    \A i, j \in 1..Len(log[r]) :
       i < j /\ IsData(r, i) /\ IsData(r, j) => log[r][i].base < log[r][j].base

\* The offset call w is about to propose is past all those in the log.
Ahead(w, r) ==
    pc[w] = "based" /\ at[w] = r /\ leads[r] =>
       \A i \in 1..Len(log[r]) : IsData(r, i) => log[r][i].base < offset[w]

\* A node has one proposal at a time between its offset and the log.
OneBased ==
    \A v, w \in Write : pc[v] = "based" /\ pc[w] = "based" /\ at[v] = at[w] => v = w

\* Without an election there is no entry.
NoLogYet == elections = 0 => \A r \in Replica : log[r] = << >>

\* Under one leader the offsets of a log go up.
OneLeaderOffsets ==
    /\ OneBased /\ NoLogYet
    /\ elections <= 1 => \A r \in Replica : Rises(r) /\ \A w \in Write : Ahead(w, r)

\* Call w waits for its entry to be applied.
Waits(w) == pc[w] \in {"accepted", "waiting"}

\* A call's entry is not applied behind its back.
Unapplied(w, r) ==
    Waits(w) /\ index[w] \in 1..applied[r] => log[r][index[w]].write # w

\* Another entry is chosen in the place of w's.
Overtaken(w) ==
    \E P \in Prefix : Chosen(P) /\ index[w] \in 1..Len(P) /\ P[index[w]].write # w

\* A call is given up when its place in the log is another's.
ReplacedLost ==
    \A w \in Write : \A r \in Replica : at[w] = r /\ base[r] = 0 =>
       /\ Waits(w) => index[w] > 0
       /\ Unapplied(w, r)
       /\ pc[w] = "replaced" => Overtaken(w)

\* What append_batch tells its callers is so.
CallInv == OkChosen /\ OneLeaderOffsets /\ ReplacedLost

\* The inductive invariant.
IInv == Types /\ Written /\ Counted /\ RaftInv /\ QueueInv /\ StoreChosen /\ CallInv
=============================================================================
