------------------------------ MODULE Restore ------------------------------
(***************************************************************************)
(* es-tools restore: an archive is unpacked beside the data directory,     *)
(* what is there is moved aside, and the new directory takes its place.    *)
(* Other restores may run at the same time, a broker may be started, and   *)
(* the tool may be killed at any step and run again.                       *)
(*                                                                         *)
(* A directory is what it holds.  A rename onto a directory that is not    *)
(* empty fails.                                                            *)
(***************************************************************************)
EXTENDS Integers, Functions

CONSTANTS
    Pids,       \* process ids; one is used again once its process has ended
    MaxRuns,    \* bound: restores started, and brokers started on an empty directory
    MaxClock    \* bound: seconds

VARIABLES
    data,       \* the data directory
    staging,    \* pid -> .<dir>.restore-<pid>
    aside,      \* second -> <dir>.pre-restore-<second>
    proc,       \* pid -> the restore
    clock, runs,
    held        \* history: what the data directory has held

vars == <<data, staging, aside, proc, clock, runs, held>>

Missing  == [kind |-> "missing", run |-> 0]
EmptyDir == [kind |-> "empty", run |-> 0]
Tree(kind, run) == [kind |-> kind, run |-> run]

HasContent(dir) == dir.kind \notin {"missing", "empty"}

NoProc == [pc |-> "idle", content |-> FALSE]

Init ==
    /\ data \in {Missing, EmptyDir, Tree("broker", 0)}
    /\ staging = [p \in Pids |-> Missing]
    /\ aside = [t \in 0..MaxClock |-> Missing]
    /\ proc = [p \in Pids |-> NoProc]
    /\ clock = 0 /\ runs = 0
    /\ held = IF HasContent(data) THEN {data} ELSE {}

Ends(p) == proc' = [proc EXCEPT ![p] = NoProc]

Become(dir) == data' = dir /\ held' = IF HasContent(dir) THEN held \cup {dir} ELSE held

-----------------------------------------------------------------------------
(* restore *)

\* A directory with content needs --force.  The archive is opened first; leftovers of an
\* earlier process of this id are removed.
Start(p, force) ==
    /\ proc[p] = NoProc /\ runs < MaxRuns
    /\ HasContent(data) => force
    /\ runs' = runs + 1
    /\ staging' = [staging EXCEPT ![p] = Tree("partial", runs + 1)]
    /\ proc' = [proc EXCEPT ![p] = [pc |-> "extract", content |-> HasContent(data)]]
    /\ UNCHANGED <<data, aside, clock, held>>

\* extract
Extract(p) ==
    /\ proc[p].pc = "extract"
    /\ staging' = [staging EXCEPT ![p].kind = "backup"]
    /\ proc' = [proc EXCEPT ![p].pc = "aside"]
    /\ UNCHANGED <<data, aside, clock, runs, held>>

\* Mutant: an archive that cannot be read to its end is taken for a short one.
ExtractFails_GoesOn(p) ==
    /\ proc[p].pc = "extract"
    /\ proc' = [proc EXCEPT ![p].pc = "aside"]
    /\ UNCHANGED <<data, staging, aside, clock, runs, held>>

\* The archive is refused, cut short or cannot be unpacked.  That the staging directory
\* cannot be removed is not noticed.
ExtractFails(p) ==
    /\ proc[p].pc = "extract"
    /\ staging' \in {staging, [staging EXCEPT ![p] = Missing]}
    /\ Ends(p)
    /\ UNCHANGED <<data, aside, clock, runs, held>>

\* rename(from, to) succeeds
Renames(from, to) == from # Missing /\ ~HasContent(to)

\* Mutant: a directory of the same name is removed first.
MoveAside_Replaces(p) ==
    /\ proc[p].pc = "aside"
    /\ IF proc[p].content
       THEN /\ aside' = [aside EXCEPT ![clock] = data]
            /\ Become(Missing)
       ELSE UNCHANGED <<data, held, aside>>
    /\ proc' = [proc EXCEPT ![p].pc = "in"]
    /\ UNCHANGED <<staging, clock, runs>>

\* Whether there was content was decided at the start.  A directory that was empty is
\* removed, if it still is.
MoveAside(p) ==
    /\ proc[p].pc = "aside"
    /\ IF proc[p].content
       THEN IF Renames(data, aside[clock])
            THEN /\ aside' = [aside EXCEPT ![clock] = data]
                 /\ Become(Missing)
                 /\ proc' = [proc EXCEPT ![p].pc = "in"]
            ELSE Ends(p) /\ UNCHANGED <<data, held, aside>>
       ELSE /\ Become(IF HasContent(data) THEN data ELSE Missing)
            /\ proc' = [proc EXCEPT ![p].pc = "in"]
            /\ UNCHANGED aside
    /\ UNCHANGED <<staging, clock, runs>>

\* The staging directory takes its place, or stays where it is.
MoveIn(p) ==
    /\ proc[p].pc = "in"
    /\ IF Renames(staging[p], data)
       THEN Become(staging[p]) /\ staging' = [staging EXCEPT ![p] = Missing]
       ELSE UNCHANGED <<data, held, staging>>
    /\ Ends(p)
    /\ UNCHANGED <<aside, clock, runs>>

Kill(p) ==
    /\ proc[p] # NoProc
    /\ Ends(p)
    /\ UNCHANGED <<data, staging, aside, clock, runs, held>>

-----------------------------------------------------------------------------
(* Its surroundings *)

\* A broker creates what it does not find.
BrokerStarts ==
    /\ ~HasContent(data) /\ runs < MaxRuns
    /\ runs' = runs + 1
    /\ Become(Tree("broker", runs + 1))
    /\ UNCHANGED <<staging, aside, proc, clock>>

Tick ==
    /\ clock < MaxClock
    /\ clock' = clock + 1
    /\ UNCHANGED <<data, staging, aside, proc, runs, held>>

NothingToDo == (\A p \in Pids : proc[p] = NoProc) /\ UNCHANGED vars

Next ==
    \/ \E p \in Pids :
         \/ \E force \in BOOLEAN : Start(p, force)
         \/ Extract(p) \/ ExtractFails(p) \/ MoveAside(p) \/ MoveIn(p) \/ Kill(p)
    \/ BrokerStarts \/ Tick \/ NothingToDo

Spec == Init /\ [][Next]_vars

-----------------------------------------------------------------------------
(* Properties *)

\* Types: a staging directory is missing, partial or whole.
TypeOK ==
    /\ data.kind \in {"missing", "empty", "partial", "broker", "backup"}
    /\ \A p \in Pids : /\ staging[p].kind \in {"missing", "partial", "backup"}
                       /\ proc[p].pc \in {"idle", "extract", "aside", "in"}

\* Nothing is lost: whatever the data directory held at any time is still there or under
\* the name it was moved to, though restores overlap, are killed between the two renames,
\* or meet a broker that was started in between.  restore.rs, restore: "never deleted".
OldDataKept == \A dir \in held : dir = data \/ dir \in Range(aside)

\* The data directory never holds a part of an archive.  restore.rs, restore.
NeverPartial == \A dir \in held : dir.kind # "partial"
=============================================================================
