----------------------------- MODULE RaftStore -----------------------------
(***************************************************************************)
(* What a Raft node keeps on disk: FileStore of raft/log.rs, driven by the *)
(* operations the state machine records (raft/state.rs) and by the node    *)
(* loop that persists them before it sends anything (raft/node.rs).        *)
(*                                                                         *)
(* The hard state and the snapshot are replaced atomically.  The log file  *)
(* is appended to and cut in place and synced at the end of persist; until *)
(* then a crash leaves any of the contents it had since the last sync, the *)
(* last append torn anywhere.  load drops a torn entry, so a content is a  *)
(* sequence of whole entries.  Cuts reach the disk before what is written  *)
(* after them.                                                             *)
(***************************************************************************)
EXTENDS Integers, Sequences, SequencesExt, FiniteSets

CONSTANTS
    MaxIndex,       \* bound: log index
    MaxTerm         \* bound: term

Term == 1..MaxTerm

VARIABLES
    hard,       \* the hard-state file: term and whether a vote was cast in it; legacy: the
                \* entries an old store kept there
    file,       \* <stem>.log, as the process sees it
    exists,     \* there is a log file
    named,      \* its directory entry was synced
    contents,   \* what the disk may hold of it
    dirty,      \* log_dirty of persist
    snapshot,   \* <stem>.snapshot.json: last index and term, 0: none
    node,       \* the state machine: term, vote, base of the log and the log
    pc,         \* "idle", "save" the snapshot, "persist", "down", "migrate", "failed"
    ops,        \* operations still to persist
    saving,     \* the snapshot to save
    before      \* history: the log when persist began

vars == <<hard, file, exists, named, contents, dirty, snapshot, node, pc, ops, saving, before>>

Entry(i, t) == [index |-> i, term |-> t]

NoSnapshot == [index |-> 0, term |-> 0]

Old == <<Entry(1, 1), Entry(2, 1)>>

Init ==
    /\ hard \in {[term |-> 0, vote |-> FALSE, legacy |-> << >>],
                 [term |-> 1, vote |-> TRUE, legacy |-> Old]}
    /\ file = << >> /\ exists = FALSE /\ named = FALSE /\ contents = {<< >>} /\ dirty = FALSE
    /\ snapshot = NoSnapshot /\ saving = NoSnapshot
    /\ node = [term |-> 0, vote |-> FALSE, base |-> NoSnapshot, log |-> << >>]
    /\ pc = "down" /\ ops = << >>
    /\ before = << >>

-----------------------------------------------------------------------------
(* The state machine records operations *)

LastIndex == node.base.index + Len(node.log)

TermAt(i) ==
    IF i = node.base.index THEN node.base.term
    ELSE IF i \in (node.base.index + 1)..LastIndex THEN node.log[i - node.base.index].term
    ELSE 0

Hard(t, v)     == [op |-> "hard", term |-> t, vote |-> v]
AppendOp(es)   == [op |-> "append", entries |-> es]
TruncateOp(i)  == [op |-> "truncate", from |-> i]
CompactOp(i)   == [op |-> "compact", through |-> i]

\* apply_and_persist, with what restore left pending
Persist(new, recorded) ==
    /\ node' = new
    /\ ops' = ops \o recorded
    /\ pc' = "persist"
    /\ before' = node.log
    /\ UNCHANGED <<hard, file, exists, named, contents, dirty, snapshot, saving>>

\* A vote, or a new term.
Vote(t, v) ==
    /\ pc = "idle" /\ t \in Term
    /\ t > node.term \/ (t = node.term /\ v /\ ~node.vote)
    /\ Persist([node EXCEPT !.term = t, !.vote = v], <<Hard(t, v)>>)

\* handle_propose of a leader
Propose ==
    /\ pc = "idle" /\ node.term > 0 /\ LastIndex < MaxIndex
    /\ LET e == Entry(LastIndex + 1, node.term)
       IN Persist([node EXCEPT !.log = Append(@, e)], <<AppendOp(<<e>>)>>)

HardIfNewer(t) == IF t > node.term THEN <<Hard(t, FALSE)>> ELSE << >>

\* Mutant: the term is persisted after the entries.
Recorded_TermLast(t, i, es) == <<TruncateOp(i), AppendOp(es)>> \o HardIfNewer(t)

Recorded(t, i, es) == HardIfNewer(t) \o <<TruncateOp(i), AppendOp(es)>>

\* handle_append_entries whose first change is at index i: the log is cut there.
Replicate(t, i, terms) ==
    /\ pc = "idle" /\ t >= node.term
    /\ i \in (node.base.index + 1)..(LastIndex + 1) /\ i + Len(terms) - 1 <= MaxIndex
    /\ \A k \in 1..Len(terms) :
         /\ terms[k] <= t
         /\ terms[k] >= (IF k = 1 THEN TermAt(i - 1) ELSE terms[k - 1])
    /\ i > LastIndex \/ terms[1] # TermAt(i)
    /\ LET es == [k \in 1..Len(terms) |-> Entry(i + k - 1, terms[k])]
       IN Persist([node EXCEPT !.term = t, !.vote = IF t > node.term THEN FALSE ELSE @,
                               !.log = SubSeq(@, 1, i - 1 - node.base.index) \o es],
                  Recorded(t, i, es))

\* The snapshot is saved first.
SaveThenPersist(new, snap, recorded) ==
    /\ node' = new
    /\ ops' = ops \o recorded
    /\ saving' = snap
    /\ pc' = "save"
    /\ before' = node.log
    /\ UNCHANGED <<hard, file, exists, named, contents, dirty, snapshot>>

After(log, i) == SelectSeq(log, LAMBDA e : e.index > i)

\* take_snapshot
TakeSnapshot(i) ==
    /\ pc = "idle" /\ i \in (node.base.index + 1)..LastIndex
    /\ LET snap == [index |-> i, term |-> TermAt(i)]
       IN SaveThenPersist([node EXCEPT !.base = snap, !.log = After(@, i)], snap, <<CompactOp(i)>>)

\* handle_install_snapshot, done: what follows the entry is kept if the log has it.
Install(t, i, u) ==
    /\ pc = "idle" /\ t >= node.term /\ u <= t
    /\ i \in (node.base.index + 1)..MaxIndex
    /\ LET snap == [index |-> i, term |-> u]
           kept == i <= LastIndex /\ TermAt(i) = u
       IN SaveThenPersist(
            [node EXCEPT !.term = t, !.vote = IF t > node.term THEN FALSE ELSE @, !.base = snap,
                         !.log = IF kept THEN After(@, i) ELSE << >>],
            snap,
            HardIfNewer(t) \o <<IF kept THEN CompactOp(i) ELSE TruncateOp(0)>>)

-----------------------------------------------------------------------------
(* FileStore *)

\* Mutant: a snapshot that could not be saved is passed over.
SaveSnapshot_Skipped ==
    /\ pc = "save"
    /\ pc' = "persist"
    /\ UNCHANGED <<hard, file, exists, named, contents, dirty, snapshot, node, ops, saving, before>>

\* save_snapshot.  write_atomic syncs the directory, and so the name of the log file.
SaveSnapshot ==
    /\ pc = "save"
    /\ snapshot' = saving
    /\ named' = exists
    /\ pc' = "persist"
    /\ UNCHANGED <<hard, file, exists, contents, dirty, node, ops, saving, before>>

Op == Head(ops)

Done == ops' = Tail(ops) /\ UNCHANGED <<snapshot, node, pc, saving, before>>

WriteHard ==
    /\ pc = "persist" /\ ops # << >> /\ Op.op = "hard"
    /\ hard' = [term |-> Op.term, vote |-> Op.vote, legacy |-> << >>]
    /\ named' = exists
    /\ Done
    /\ UNCHANGED <<file, exists, contents, dirty>>

\* write_all: a crash may keep any part of it.
AppendEntries ==
    /\ pc = "persist" /\ ops # << >> /\ Op.op = "append"
    /\ LET new == file \o Op.entries
       IN /\ file' = new
          /\ contents' = contents \cup {SubSeq(new, 1, n) : n \in Len(file)..Len(new)}
    /\ exists' = TRUE
    /\ dirty' = TRUE
    /\ Done
    /\ UNCHANGED <<hard, named>>

\* Mutant: partition_point with <=.
Kept_OffByOne(from) == SelectSeq(file, LAMBDA e : e.index <= from)

Kept(from) == SelectSeq(file, LAMBDA e : e.index < from)

\* set_len, if there is something to cut
TruncateFrom ==
    /\ pc = "persist" /\ ops # << >> /\ Op.op = "truncate"
    /\ file' = Kept(Op.from)
    /\ contents' = contents \cup {file'}
    /\ dirty' = (dirty \/ file' # file)
    /\ Done
    /\ UNCHANGED <<hard, exists, named>>

\* Mutant: the file is rewritten in place.
Rewritten_InPlace(new) == {SubSeq(new, 1, n) : n \in 0..Len(new)}

\* rewrite_log: the file is replaced by write_atomic.
Rewritten(new) == {new}

\* Entries that the compaction covers are dropped; without one there is nothing to do.
CompactThrough ==
    /\ pc = "persist" /\ ops # << >> /\ Op.op = "compact"
    /\ IF file = << >> \/ Head(file).index > Op.through
       THEN UNCHANGED <<file, contents, dirty, named>>
       ELSE /\ file' = After(file, Op.through)
            /\ contents' = Rewritten(file')
            /\ dirty' = FALSE
            /\ named' = TRUE
    /\ Done
    /\ UNCHANGED <<hard, exists>>

\* Mutant: there is no sync at the end.
Sync_Missing ==
    /\ pc = "persist" /\ ops = << >>
    /\ dirty' = FALSE
    /\ pc' = "idle"
    /\ UNCHANGED <<hard, file, exists, named, contents, snapshot, node, ops, saving, before>>

\* The log is synced if it was changed, and persist returns.
Sync ==
    /\ pc = "persist" /\ ops = << >>
    /\ contents' = IF dirty THEN {file} ELSE contents
    /\ dirty' = FALSE
    /\ pc' = "idle"
    /\ UNCHANGED <<hard, file, exists, named, snapshot, node, ops, saving, before>>

\* A write or a sync fails: persist returns the error and the node loop ends.
Fails ==
    /\ pc \in {"save", "persist"}
    /\ pc' = "failed"
    /\ UNCHANGED <<hard, file, exists, named, contents, dirty, snapshot, node, ops, saving, before>>

-----------------------------------------------------------------------------
(* Crash, load and restore *)

\* What can be found after a crash.  A file whose name was not synced may be gone.
Found == IF named \/ ~exists THEN contents ELSE contents \cup {<< >>}

Crash ==
    /\ pc # "down"
    /\ \E c \in Found :
         /\ file' = c /\ contents' = {c}
         /\ exists' = (exists /\ (named \/ c # << >>))
    /\ named' = exists'
    /\ pc' = "down" /\ ops' = << >> /\ dirty' = FALSE /\ saving' = NoSnapshot
    /\ UNCHANGED <<hard, snapshot, node, before>>

\* load of a store of one file: its entries are moved to the log file, then dropped from
\* the hard state.
Migrate ==
    /\ pc = "down" /\ hard.legacy # << >> /\ ~exists
    /\ file' = hard.legacy /\ contents' = {hard.legacy}
    /\ exists' = TRUE /\ named' = TRUE
    /\ pc' = "migrate"
    /\ UNCHANGED <<hard, dirty, snapshot, node, ops, saving, before>>

MigrateHard ==
    /\ pc = "migrate"
    /\ hard' = [hard EXCEPT !.legacy = << >>]
    /\ pc' = "down"
    /\ UNCHANGED <<file, exists, named, contents, dirty, snapshot, node, ops, saving, before>>

\* The log and the hard state as load returns them, laid over the snapshot by restore.
Restored(log) == After(log, snapshot.index)

\* load finds a gap, or restore finds that entries are missing.
Refused(log) ==
    \/ \E k \in 1..(Len(log) - 1) : log[k + 1].index # log[k].index + 1
    \/ Restored(log) # << >> /\ Head(Restored(log)).index # snapshot.index + 1

\* What the snapshot covers is compacted with the next persist.
Load ==
    /\ pc = "down" /\ (hard.legacy = << >> \/ exists) /\ ~Refused(file)
    /\ node' = [term |-> hard.term, vote |-> hard.vote, base |-> snapshot, log |-> Restored(file)]
    /\ ops' = IF file # << >> /\ Head(file).index <= snapshot.index
              THEN <<CompactOp(snapshot.index)>> ELSE << >>
    /\ before' = Restored(file)
    /\ pc' = "idle"
    /\ UNCHANGED <<hard, file, exists, named, contents, dirty, snapshot, saving>>

Next ==
    \/ \E t \in Term :
         \/ \E v \in BOOLEAN : Vote(t, v)
         \/ \E i \in 1..MaxIndex :
              \/ \E n \in 1..2 : \E terms \in [1..n -> Term] : Replicate(t, i, terms)
              \/ \E u \in Term : Install(t, i, u)
    \/ Propose
    \/ \E i \in 1..MaxIndex : TakeSnapshot(i)
    \/ SaveSnapshot \/ WriteHard \/ AppendEntries \/ TruncateFrom \/ CompactThrough \/ Sync \/ Fails
    \/ Crash \/ Migrate \/ MigrateHard \/ Load

Spec == Init /\ [][Next]_vars

-----------------------------------------------------------------------------
(* Properties *)

\* Types; what the process sees of the file is one of the contents the disk may hold.
TypeOK ==
    /\ hard.term \in 0..MaxTerm /\ hard.vote \in BOOLEAN
    /\ \A c \in contents \cup {file, node.log} :
         \A k \in 1..Len(c) : c[k] \in [index : 1..MaxIndex, term : Term]
    /\ pc \in {"idle", "save", "persist", "down", "migrate", "failed"}
    /\ file \in contents

\* "Every op must be durable when `persist` returns": whatever a crash leaves then, the
\* node restarts with the term, the vote and the log it had, except that the first log
\* file may be gone before its name was synced.  raft/log.rs, persist.
PersistedSurvives ==
    pc = "idle" =>
      /\ hard.term = node.term /\ hard.vote = node.vote
      /\ node.base = snapshot
      /\ \A c \in contents : Restored(c) = node.log

\* At no point does a crash leave files that a restart refuses: the log has no gap and
\* begins where the snapshot ends or before.  raft/node.rs, take_snapshot; raft/log.rs.
RestartSucceeds == \A c \in Found : ~Refused(c)

\* A crash in the middle of persist leaves the old log, or all that was not changed of it
\* and a part of what was added; never a mixture.  raft/log.rs, persist.
OldOrNew ==
    pc \in {"save", "persist", "failed"} =>
      LET old == After(before, snapshot.index)
      IN \A c \in contents :
           \/ Restored(c) = old
           \/ /\ IsPrefix(Restored(c), node.log)
              /\ IsPrefix(LongestCommonPrefix({old, node.log}), Restored(c))

\* The hard state is never behind the log: no restart finds an entry of a term that its
\* hard state does not know.  A snapshot may be of one: it is saved before the term.
\* raft/state.rs, handle_append_entries.
TermCoversLog ==
    \A c \in contents : \A k \in 1..Len(c) : c[k].term <= hard.term
=============================================================================
