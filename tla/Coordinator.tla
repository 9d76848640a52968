----------------------------- MODULE Coordinator -----------------------------
(***************************************************************************)
(* The consumer-group coordinator, coord.rs: who is in a group, and which  *)
(* partitions each member reads.                                           *)
(*                                                                         *)
(* A member joins with its subscription, sends heartbeats, may leave, and  *)
(* is evicted when its heartbeats stop.  Every change of the membership    *)
(* starts a new generation with a new assignment, which keeps what it can  *)
(* of the old one.  A member acts on the assignment it was last told.      *)
(*                                                                         *)
(* Members, topics and partitions are numbers in the order of their names. *)
(***************************************************************************)
EXTENDS Integers, Sequences, FiniteSets, FiniteSetsExt, SequencesExt

CONSTANTS
    Members,        \* member ids 1..Members
    Topics,         \* topics 1..Topics
    Subscriptions,  \* the sets of topics a member may ask for
    MaxPartitions,  \* bound: partitions of a topic
    MaxEvents,      \* bound: topics deleted or created, and restarts of the broker
    MaxGenerations  \* bound: no member joins beyond this generation

Member == 1..Members
Topic  == 1..Topics

VARIABLES
    partitions,     \* topic -> number of partitions, 0: there is no such topic
    members,        \* member -> subscription, of those in the group
    assignment,     \* member -> partitions
    generation,
    checked,        \* subscriptions whose topics all existed at some moment since the start
    stale,          \* members whose last heartbeat is older than member_timeout
    watched,        \* one member, any: the coordinator never sees what members believe
    view,           \* what watched was last told: generation and partitions
    changes, restarts

vars == <<partitions, checked, members, assignment, generation, stale, watched, view, changes,
          restarts>>

NoView == [generation |-> 0, parts |-> {}]

AllExist(ts) == \A t \in ts : partitions[t] > 0

Init ==
    /\ partitions \in [Topic -> {0, MaxPartitions}]
    /\ checked = {ts \in Subscriptions : AllExist(ts)}
    /\ members = << >>
    /\ assignment = << >>
    /\ generation = 0
    /\ stale = {}
    /\ watched \in Member /\ view = NoView
    /\ changes = 0 /\ restarts = 0

-----------------------------------------------------------------------------
(* recompute_assignment *)

Before(a, b) == a[1] < b[1] \/ (a[1] = b[1] /\ a[2] < b[2])

\* A set of partitions in that order.
Sorted(tps) ==
    SelectSeq([k \in 1..(Topics * MaxPartitions) |->
                 <<1 + (k - 1) \div MaxPartitions, (k - 1) % MaxPartitions>>],
              LAMBDA tp : tp \in tps)

\* The partitions some member of ms wants.
AllPartitions(ms) ==
    {tp \in Topic \X (0..(MaxPartitions - 1)) :
       tp[2] < partitions[tp[1]] /\ \E m \in DOMAIN ms : tp[1] \in ms[m]}

\* Mutant: the fair share is rounded down.
TargetMax_Floor(ms) == Cardinality(AllPartitions(ms)) \div Cardinality(DOMAIN ms)

\* ceil(total / members)
TargetMax(ms) ==
    (Cardinality(AllPartitions(ms)) + Cardinality(DOMAIN ms) - 1) \div Cardinality(DOMAIN ms)

\* Mutant: the fair share is not a limit on what is kept.
Kept_Uncapped(ms, m) ==
    IF m \in DOMAIN assignment
    THEN {tp \in assignment[m] \cap AllPartitions(ms) : tp[1] \in ms[m]} ELSE {}

\* Mutant: every rebalance starts from nothing.
Kept_Nothing(ms, m) == {}

\* What member m keeps: the first of its partitions that still exist and that it
\* still wants, up to its fair share.
Kept(ms, m) ==
    LET valid == IF m \in DOMAIN assignment
                 THEN {tp \in assignment[m] \cap AllPartitions(ms) : tp[1] \in ms[m]} ELSE {}
        share == TargetMax(ms)
    IN  {tp \in valid : Cardinality({o \in valid : Before(o, tp)}) < share}

\* One orphan goes to the least-loaded member that wants it and has room.
Give(ms, a, tp, share) ==
    LET room == {m \in DOMAIN ms : tp[1] \in ms[m] /\ Cardinality(a[m]) < share}
        best == {m \in room : \A o \in room : Cardinality(a[m]) <= Cardinality(a[o])}
    IN  IF room = {} THEN a ELSE [a EXCEPT ![Min(best)] = @ \cup {tp}]

\* Mutant: only what the first member kept counts as taken.
Assigned_FirstOnly(ms) ==
    LET kept    == [m \in DOMAIN ms |-> Kept(ms, m)]
        orphans == AllPartitions(ms) \ UNION {kept[m] : m \in {o \in DOMAIN ms : o = Min(DOMAIN ms)}}
    IN  FoldLeft(LAMBDA a, tp : Give(ms, a, tp, TargetMax(ms)), kept, Sorted(orphans))

Assigned(ms) ==
    LET kept    == [m \in DOMAIN ms |-> Kept(ms, m)]
        orphans == AllPartitions(ms) \ UNION {kept[m] : m \in DOMAIN ms}
        share   == TargetMax(ms)
    IN  FoldLeft(LAMBDA a, tp : Give(ms, a, tp, share), kept, Sorted(orphans))

\* Mutant: a generation in which nothing moved keeps its number.
Rebalance_SameGeneration(ms) ==
    /\ members' = ms
    /\ assignment' = Assigned(ms)
    /\ generation' = IF DOMAIN ms \subseteq DOMAIN members THEN generation ELSE generation + 1

Rebalance(ms) ==
    /\ members' = ms
    /\ assignment' = Assigned(ms)
    /\ generation' = generation + 1

-----------------------------------------------------------------------------
(* Operations *)

\* The answer of join and of assignment arrives or is lost.
Tell(m) ==
    view' \in {view} \cup {[generation |-> generation', parts |-> assignment'[o]] :
                            o \in {m} \cap {watched}}

\* A join checks its topics and then waits for the claim of the group and for the
\* group's lock: by the time it has the lock a topic may be gone again.
Join(m, ts) ==
    /\ generation < MaxGenerations
    /\ ts \in checked
    /\ IF m \in DOMAIN members /\ members[m] = ts
       THEN UNCHANGED <<members, assignment, generation>>
       ELSE Rebalance([o \in DOMAIN members \cup {m} |-> IF o = m THEN ts ELSE members[o]])
    /\ stale' = stale \ {m}
    /\ Tell(m)
    /\ UNCHANGED <<watched, partitions, checked, changes, restarts>>

\* Unknown: the member forgets its assignment and joins again.  Another generation:
\* it asks for its assignment.
Heartbeat(m) ==
    /\ stale' = stale \ {m}
    /\ view' = IF m = watched /\ m \notin DOMAIN members THEN NoView ELSE view
    /\ UNCHANGED <<watched, partitions, checked, members, assignment, generation, changes, restarts>>

FetchAssignment ==
    /\ watched \in DOMAIN members
    /\ view.generation # generation
    /\ UNCHANGED <<watched, partitions, checked, members, assignment, generation, stale, changes,
                   restarts>>
    /\ Tell(watched)

Without(gone) == [m \in DOMAIN members \ gone |-> members[m]]

Leave(m) ==
    /\ m \in DOMAIN members
    /\ Rebalance(Without({m}))
    /\ stale' = stale \ {m}
    /\ view' = IF m = watched THEN NoView ELSE view
    /\ UNCHANGED <<watched, partitions, checked, changes, restarts>>

\* member_timeout passes without a heartbeat.
Timeout(m) ==
    /\ m \in DOMAIN members /\ m \notin stale
    /\ stale' = stale \cup {m}
    /\ UNCHANGED <<watched, partitions, checked, members, assignment, generation, view, changes,
                   restarts>>

ExpireStale ==
    /\ stale # {}
    /\ Rebalance(Without(stale))
    /\ stale' = {}
    /\ UNCHANGED <<watched, partitions, checked, view, changes, restarts>>

\* Topics come and go without the coordinator being told.
ChangeTopic(t, n) ==
    /\ changes + restarts < MaxEvents
    /\ (partitions[t] = 0) # (n = 0)
    /\ partitions' = [partitions EXCEPT ![t] = n]
    /\ checked' = checked \cup {ts \in Subscriptions : AllExist(ts)'}
    /\ changes' = changes + 1
    /\ UNCHANGED <<watched, members, assignment, generation, stale, view, restarts>>

\* The broker restarts: the groups are only in memory.
Restart ==
    /\ changes + restarts < MaxEvents
    /\ members' = << >> /\ assignment' = << >>
    /\ generation' = 0
    /\ stale' = {}
    /\ checked' = {ts \in Subscriptions : AllExist(ts)}
    /\ restarts' = restarts + 1
    /\ UNCHANGED <<watched, partitions, view, changes>>

Next ==
    \/ \E m \in Member, ts \in Subscriptions : Join(m, ts)
    \/ \E m \in Member : Heartbeat(m) \/ Leave(m) \/ Timeout(m)
    \/ FetchAssignment \/ ExpireStale \/ Restart
    \/ \E t \in Topic, n \in 0..MaxPartitions : ChangeTopic(t, n)

Spec == Init /\ [][Next]_vars

-----------------------------------------------------------------------------
(* Properties *)

TypeOK ==
    /\ DOMAIN members \subseteq Member /\ checked \subseteq Subscriptions
    /\ \A m \in DOMAIN members : members[m] \in Subscriptions
    /\ DOMAIN assignment = DOMAIN members
    /\ \A m \in DOMAIN assignment :
          assignment[m] \subseteq Topic \X (0..(MaxPartitions - 1))
    /\ stale \subseteq DOMAIN members

\* No partition is handed to two members, and none to a member that did not ask
\* for its topic, through every sequence of rebalances.
OneReader ==
    \A m \in DOMAIN members :
       /\ \A tp \in assignment[m] : tp[1] \in members[m]
       /\ \A o \in DOMAIN members \ {m} : assignment[m] \cap assignment[o] = {}

\* A heartbeat answered ok means "Nothing changed": the member knows its
\* assignment, whichever answers were lost, until the broker restarts and counts
\* generations from the start.
NothingChanged ==
    restarts = 0 /\ watched \in DOMAIN members /\ view.generation = generation
      => view.parts = assignment[watched]

\* "The result is balanced (no member has more than ceil(N/M))", as long as the
\* topics are what they were at the rebalance.
Balanced ==
    changes = 0 => \A m \in DOMAIN members : Cardinality(assignment[m]) <= TargetMax(members)

\* "The coordinator assigns the union of those topics' partitions across the
\* members": every partition of a subscribed topic has a reader.
Covered ==
    changes = 0 => AllPartitions(members) = UNION {assignment[m] : m \in DOMAIN members}

\* The same while all members of the group have asked for the same topics.
CoveredWhenAlike ==
    (\A m, o \in DOMAIN members : members[m] = members[o]) => Covered

\* "Every member ends up with an even share": of members with one subscription
\* none has two partitions more than another.
EvenShare ==
    changes = 0 =>
      \A m, o \in DOMAIN members :
         members[m] = members[o] => Cardinality(assignment[m]) <= Cardinality(assignment[o]) + 1

\* "Members keep what they had unless they were over-allocated or unsubscribed".
Sticky ==
    [][generation' # generation =>
         \A m \in DOMAIN members \cap DOMAIN members' :
            LET valid == {tp \in assignment[m] :
                            tp \in AllPartitions(members') /\ tp[1] \in members'[m]}
            IN  Cardinality(valid) <= TargetMax(members') => valid \subseteq assignment'[m]]_vars
=============================================================================
