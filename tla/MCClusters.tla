----------------------------- MODULE MCClusters -----------------------------
(***************************************************************************)
(* Raft on clusters that differ in size and in what may go wrong.  A       *)
(* behaviour is one of one cluster, focus:                                 *)
(*                                                                         *)
(*   "elections"  four elections, one after the other or overlapping;      *)
(*   "late"       one leader, two messages under way, so that requests and *)
(*                answers overtake each other; snapshots, a crash;         *)
(*   "reordered"  the same over two terms, with the leaders' own entries;  *)
(*   "split"      five servers of which two hold the log of a leader that  *)
(*                the other three have left behind; a crash.               *)
(***************************************************************************)
EXTENDS Integers, Sequences, FiniteSets, TLC

CONSTANTS
    Trio,               \* three servers
    OldLeader,          \* of five: a leader that three have left behind,
    OldFollower,        \*          the one that has its log,
    NewLeader,          \*          the leader of the three,
    NewFollowers,       \*          and the other two of them
    None, Command, Noop

Five == {OldLeader, OldFollower, NewLeader} \cup NewFollowers

VARIABLES focus, node, msgs, committed, elections, restarts, torn

raftVars == <<node, msgs, committed, elections, restarts, torn>>

Elections == INSTANCE Raft WITH
    Server <- Trio, Value <- {Command}, MaxAppend <- 1, TornWrites <- FALSE,
    MaxInFlight <- 1, MaxElections <- 4, MaxLog <- 0, MaxRestarts <- 0

Late == INSTANCE Raft WITH
    Server <- Trio, Value <- {Command}, MaxAppend <- 1, TornWrites <- TRUE,
    MaxInFlight <- 2, MaxElections <- 1, MaxLog <- 2, MaxRestarts <- 1

Reordered == INSTANCE Raft WITH
    Server <- Trio, Value <- {Command}, MaxAppend <- 1, TornWrites <- TRUE,
    MaxInFlight <- 2, MaxElections <- 2, MaxLog <- 1, MaxRestarts <- 1

Split == INSTANCE Raft WITH
    Server <- Five, Value <- {Command}, MaxAppend <- 3, TornWrites <- TRUE,
    MaxInFlight <- 1, MaxElections <- 2, MaxLog <- 2, MaxRestarts <- 1

-----------------------------------------------------------------------------
(* The five servers after two elections, by the handlers themselves *)

\* The one answer of a handler.
Answer(r) == CHOOSE a \in r.out : TRUE

Adopted(s, t) == IF t > s.term THEN Split!StepDownTo(s, t) ELSE s

\* Server i is elected by two others.
Elect(ns, i, v, w) ==
    LET c       == Split!StartElection(i, ns[i]).state
        Vote(j) == Split!HandleRequestVote(j, Adopted(ns[j], c.term), Split!RequestVote(i, c, j))
        Count(s, j) == Split!HandleRequestVoteResp(i, s, Answer(Vote(j))).state
    IN  [ns EXCEPT ![v] = Vote(v).state, ![w] = Vote(w).state, ![i] = Count(Count(c, v), w)]

Proposed(ns, i) ==
    [ns EXCEPT ![i] = Split!RecomputeCommit(i, Split!AppendLocal(@, Command))]

\* One request of leader i to j and its answer.
Round(ns, i, j) ==
    LET m == Split!ReplicateTo(i, ns[i], j)
        r == Split!HandleAppendEntries(j, Adopted(ns[j], m.term), m)
    IN  [ns EXCEPT ![j] = r.state,
                   ![i] = Split!HandleAppendEntriesResp(i, @, Answer(r)).state]

\* A first request is refused and leads the leader back to where the logs agree.
CatchUp(ns, i, j) == Round(Round(ns, i, j), i, j)

InitSplit ==
    LET v  == CHOOSE r \in NewFollowers : TRUE
        w  == CHOOSE r \in NewFollowers \ {v} : TRUE
        n0 == [i \in Five |-> Split!Fresh]
        n1 == CatchUp(Proposed(Proposed(Elect(n0, OldLeader, OldFollower, NewLeader),
                                        OldLeader), OldLeader), OldLeader, OldFollower)
        n2 == Proposed(Elect(n1, NewLeader, v, w), NewLeader)
        n3 == CatchUp(CatchUp(n2, NewLeader, v), NewLeader, w)
    IN  /\ node = n3
        /\ msgs = {} /\ restarts = 0 /\ torn = {}
        /\ elections = 2
        /\ committed = Split!Known(n3[NewLeader])

-----------------------------------------------------------------------------
Init ==
    \/ focus = "elections" /\ Elections!Init
    \/ focus = "late" /\ Late!Init
    \/ focus = "reordered" /\ Reordered!Init
    \/ focus = "split" /\ InitSplit

Next ==
    /\ \/ focus = "elections" /\ Elections!Next
       \/ focus = "late" /\ Late!Next
       \/ focus = "reordered" /\ Reordered!Next
       \/ focus = "split" /\ Split!Next
    /\ UNCHANGED focus

Spec == Init /\ [][Next]_<<focus, raftVars>>

Symmetry == Permutations(Trio) \cup Permutations(NewFollowers)

-----------------------------------------------------------------------------
(* Properties *)

\* What is committed stays on the disks of a majority and with every new leader, through
\* four elections, and while a server crashes inside the install of a snapshot
\* (raft/state.rs, recompute_commit_index; raft/node.rs, on_message).
CommittedStays ==
    /\ focus = "elections" => Elections!CommittedStays
    /\ focus = "split" => Split!CommittedStays

\* When requests and answers overtake each other, logs still match, leaders count only what
\* followers hold and state machines apply the same entries; so they do on five servers of
\* which two hold a log that conflicts with the snapshot they are sent, also after a crash
\* in the middle of its install (raft/state.rs, handle_append_entries and its answer;
\* raft/log.rs, append_at, install_snapshot; raft/node.rs, on_message).
ClustersAgree ==
    /\ focus = "late" => Late!LogsAgree /\ Late!StateMachineSafety
    /\ focus = "reordered" =>
          Reordered!LogsAgree /\ Reordered!StateMachineSafety /\ Reordered!ElectionSafety
    /\ focus = "split" => Split!LogsAgree /\ Split!StateMachineSafety
=============================================================================
