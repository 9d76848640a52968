-------------------------------- MODULE Dump --------------------------------
(***************************************************************************)
(* es-tools dump: a backup of a data directory, taken while a broker runs  *)
(* on it or after it stopped or crashed at any step.  Files are listed,    *)
(* then copied one after the other, metadata before segments.              *)
(*                                                                         *)
(* The broker is the environment: one partition, one group file and the    *)
(* files of the producer registry, changed as Segments, GroupStore and     *)
(* Producers say.  A file is the set of offsets it speaks of: the records  *)
(* of a segment, the offsets a group has behind it, the accepted sequences *)
(* of the registry (the record with offset o was accepted as sequence o).  *)
(* topic.json, schemas.json and api_keys.json are copied in the same way   *)
(* and do not speak of other files; sizes and indexes are left out.        *)
(***************************************************************************)
EXTENDS Integers, Sequences, FiniteSets, SequencesExt

CONSTANTS
    Absent,         \* a file that is not there; a model value
    MaxRecords,     \* bound: records written
    MaxMeanwhile    \* bound: steps of the broker during the dump

VARIABLES
    log,        \* the .log files in the order of their bases; the last one is active
    victims,    \* bases of the segments a compaction has folded but not yet removed
    written,    \* number of records written
    meta,       \* the other files, by name
    accepted,   \* sequences the registry holds in memory
    flushing,   \* ProducerRegistry::flush: "no", "rotated", "written"
    dump,       \* the tool: its step, and what it has yet to copy
    archive,    \* what it has copied
    before,     \* history: what the files said when the dump began
    during,     \* history: what the broker did during the dump
    meanwhile   \* number of steps it took

broker == <<log, victims, written, meta, accepted, flushing>>
vars == <<broker, dump, archive, before, during, meanwhile>>

Registry == <<"producers.json", "producers.journal.old", "producers.journal">>

Metadata == {"group"} \cup Range(Registry)

Records(logs) == UNION {l.offs : l \in logs}

Said(m, names) == UNION {m[f] : f \in {n \in names : m[n] # Absent}}

\* What dump copies: one of the metadata files, or the segment with a base.
File(name)    == [name |-> name, base |-> 0]
Segment(base) == [name |-> "segment", base |-> base]

IsMetadata(f) == f.name \in Metadata
IsSegment(f)  == f.name = "segment"

Present(names) == [i \in DOMAIN SelectSeq(names, LAMBDA f : meta[f] # Absent) |->
                     File(SelectSeq(names, LAMBDA f : meta[f] # Absent)[i])]

NoFiles == [f \in Metadata |-> Absent]

Nothing == [logs |-> {}, meta |-> NoFiles]

Init ==
    /\ log = <<[base |-> 0, offs |-> {}]>> /\ victims = {}
    /\ written = 0
    /\ meta = NoFiles /\ accepted = {} /\ flushing = "no"
    /\ dump = [pc |-> "idle", queue |-> << >>, verify |-> FALSE]
    /\ archive = Nothing /\ before = [log |-> {}, registry |-> {}] /\ during = {}
    /\ meanwhile = 0

Dumping == dump.pc \in {"listed", "copy"}

Happens(event) == during' = IF Dumping THEN during \cup {event} ELSE during

-----------------------------------------------------------------------------
(* The broker.  A compaction holds the appender's lock while it swaps.     *)

AppendRecord ==
    /\ written < MaxRecords /\ victims = {}
    /\ log' = [log EXCEPT ![Len(log)].offs = @ \cup {written}]
    /\ written' = written + 1
    /\ UNCHANGED <<victims, meta, accepted, flushing, dump, archive, before, during>>

RollSegment ==
    /\ Last(log).offs # {} /\ victims = {}
    /\ log' = Append(log, [base |-> written, offs |-> {}])
    /\ Happens("roll")
    /\ UNCHANGED <<victims, written, meta, accepted, flushing, dump, archive, before>>

Retain ==
    /\ Len(log) > 1 /\ victims = {}
    /\ log' = Tail(log)
    /\ UNCHANGED <<victims, written, meta, accepted, flushing, dump, archive, before, during>>

\* The compacted output takes the place of the first sealed segment ...
Compact(out) ==
    LET sealed == Front(log)
    IN  /\ Len(log) > 1 /\ victims = {}
        /\ out # Records(Range(sealed))
        /\ log' = [log EXCEPT ![1].offs = out]
        /\ victims' = {sealed[i].base : i \in 2..Len(sealed)}
        /\ Happens("compaction")
        /\ UNCHANGED <<written, meta, accepted, flushing, dump, archive, before>>

\* ... and the others are removed.
RemoveVictim(b) ==
    /\ b \in victims
    /\ log' = SelectSeq(log, LAMBDA l : l.base # b)
    /\ victims' = victims \ {b}
    /\ UNCHANGED <<written, meta, accepted, flushing, dump, archive, before, during>>

\* A group's file is written after a commit of offset n.
Commit(n) ==
    /\ n > Cardinality(Said(meta, {"group"}))
    /\ meta' = [meta EXCEPT !["group"] = 0..(n - 1)]
    /\ UNCHANGED <<log, victims, written, accepted, flushing, dump, archive, before, during>>

\* The next sequence of the producer is journalled once its record was appended.
Accept ==
    /\ Cardinality(accepted) < written
    /\ accepted' = accepted \cup {Cardinality(accepted)}
    /\ meta' = [meta EXCEPT !["producers.journal"] =
                  (IF @ = Absent THEN {} ELSE @) \cup {Cardinality(accepted)}]
    /\ UNCHANGED <<log, victims, written, flushing, dump, archive, before, during>>

\* flush of the registry: the journal is rotated, the snapshot written, the journal removed.
Flush ==
    /\ CASE flushing = "no" ->
              /\ Said(meta, {"producers.json"}) # accepted
              /\ meta["producers.journal"] # Absent
              /\ meta' = [meta EXCEPT !["producers.journal.old"] = meta["producers.journal"],
                                      !["producers.journal"] = Absent]
              /\ flushing' = "rotated"
         [] flushing = "rotated" ->
              /\ meta' = [meta EXCEPT !["producers.json"] = accepted]
              /\ flushing' = "written"
         [] flushing = "written" ->
              /\ meta' = [meta EXCEPT !["producers.journal.old"] = Absent]
              /\ flushing' = "no"
    /\ Happens("flush")
    /\ UNCHANGED <<log, victims, written, accepted, dump, archive, before>>

-----------------------------------------------------------------------------
(* dump *)

\* discover_files, the directories: topics, partitions and groups.  verify is --verify.
ListDirectories(verify) ==
    /\ dump.pc = "idle"
    /\ dump' = [pc |-> "listed", verify |-> verify,
                queue |-> Present(<<"group">>) \o [i \in DOMAIN log |-> Segment(log[i].base)]]
    /\ before' = [log |-> Records(Range(log)), registry |-> Said(meta, Range(Registry))]
    /\ during' = IF victims # {} THEN {"compaction"} ELSE {}
    /\ UNCHANGED <<broker, archive>>

\* Mutant: the journal that a flush has put aside is not looked for.
RegistryFiles_LiveOnly == Present(<<"producers.json", "producers.journal">>)

\* discover_files: the files of the registry that exist.
RegistryFiles == Present(Registry)

\* Mutant: segments first.
CopyOrder_SegmentsFirst(queue) ==
    SelectSeq(queue, IsSegment) \o SelectSeq(queue, IsMetadata) \o RegistryFiles

\* Metadata first, then the segments by base.
CopyOrder(queue) ==
    SelectSeq(queue, IsMetadata) \o RegistryFiles \o SelectSeq(queue, IsSegment)

\* The registry is looked for, and the manifest is written.
WriteManifest ==
    /\ dump.pc = "listed"
    /\ dump' = [dump EXCEPT !.pc = "copy", !.queue = CopyOrder(dump.queue)]
    /\ UNCHANGED <<broker, archive, before, during>>

\* Mutant: nothing is copied after a file that has disappeared.
AfterMissing_Stops == [dump EXCEPT !.queue = << >>]

\* add_file_to_tar skips a file that has disappeared; verify_segment does not.
AfterMissing ==
    IF dump.verify /\ IsSegment(Head(dump.queue)) THEN [dump EXCEPT !.pc = "failed"]
    ELSE [dump EXCEPT !.queue = Tail(@)]

\* add_file_to_tar: the file as it is when it is opened.  A file that is replaced
\* meanwhile is read to its end; one that grows, to the length it had.
CopyFile ==
    /\ dump.pc = "copy" /\ dump.queue # << >>
    /\ LET f == Head(dump.queue)
           there == {l \in Range(log) : Segment(l.base) = f}
       IN IF IsMetadata(f)
          THEN /\ archive' = [archive EXCEPT !.meta[f.name] = meta[f.name]]
               /\ dump' = IF meta[f.name] = Absent THEN AfterMissing ELSE [dump EXCEPT !.queue = Tail(@)]
          ELSE /\ archive' = [archive EXCEPT !.logs = @ \cup there]
               /\ dump' = IF there = {} THEN AfterMissing ELSE [dump EXCEPT !.queue = Tail(@)]
    /\ UNCHANGED <<broker, before, during>>

\* The archive is complete.
Finish ==
    /\ dump.pc = "copy" /\ dump.queue = << >>
    /\ dump' = [dump EXCEPT !.pc = "done"]
    /\ UNCHANGED <<broker, archive, before, during>>

\* After an error the archive is closed all the same, as a short one that restore accepts
\* with a warning.  It cannot be restored when the error cuts a file, or the tool is killed.
DumpFails ==
    /\ Dumping
    /\ dump' = [dump EXCEPT !.pc = "failed", !.queue = << >>]
    /\ archive' \in {archive, Nothing}
    /\ UNCHANGED <<broker, before, during>>

\* What the broker does after the dump is left out.
Broker ==
    /\ dump.pc = "idle" \/ (Dumping /\ meanwhile < MaxMeanwhile)
    /\ meanwhile' = IF Dumping THEN meanwhile + 1 ELSE 0
    /\ \/ AppendRecord \/ RollSegment \/ Retain \/ Accept \/ Flush
       \/ \E out \in SUBSET Records(Range(Front(log))) : Compact(out)
       \/ \E b \in victims : RemoveVictim(b)
       \/ \E n \in 1..written : Commit(n)

Tool ==
    /\ (\E verify \in BOOLEAN : ListDirectories(verify)) \/ WriteManifest \/ CopyFile \/ Finish \/ DumpFails
    /\ UNCHANGED meanwhile

Ended == dump.pc \in {"done", "failed"} /\ UNCHANGED vars

Next == Broker \/ Tool \/ Ended

Spec == Init /\ [][Next]_vars

-----------------------------------------------------------------------------
(* Properties *)

\* Types, and the files of a partition in the order of their bases.
TypeOK ==
    /\ \A i \in 1..(Len(log) - 1) : log[i].base < log[i + 1].base
    /\ written \in 0..MaxRecords
    /\ meta \in [Metadata -> (SUBSET Nat) \cup {Absent}]
    /\ flushing \in {"no", "rotated", "written"}
    /\ dump.pc \in {"idle", "listed", "copy", "done", "failed"}

Archived == Records(archive.logs)

\* What retention or a compaction has dropped.
Removed == (0..(written - 1)) \ Records(Range(log))

\* The archive has the records there were when the dump began, and no gap before a record
\* written later, but for what retention has dropped: though the broker appends, rolls and
\* deletes while segments are copied.  The short archive of a dump that failed has no gap
\* either.  A compaction during the dump can take a segment away after the one it was
\* folded into was copied.  dump.rs, dump.
NoGaps ==
    "compaction" \notin during =>
      /\ dump.pc = "done" => before.log \subseteq Archived \cup Removed
      /\ \A o \in Archived : 0..(o - 1) \subseteq Archived \cup Removed
      /\ \A l, m \in archive.logs : l # m => l.offs \cap m.offs = {}

\* No committed offset and no accepted sequence in the archive is ahead of the archived
\* log, which is why metadata is copied first.  It can be when the broker rolls after the
\* segments were listed.  dump.rs, dump.
MetadataBehind ==
    dump.pc = "done" /\ during \cap {"roll", "compaction"} = {} =>
      Said(archive.meta, Metadata) \subseteq Archived \cup Removed

\* The archive has every sequence that was in the registry's files when the dump began,
\* also those of a flush that was interrupted, unless one runs during the dump.  dump.rs,
\* discover_files: "both are needed to restore it exactly".
RegistryWhole ==
    dump.pc = "done" /\ "flush" \notin during =>
      before.registry \subseteq Said(archive.meta, Range(Registry))
=============================================================================
