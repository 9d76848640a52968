------------------------------- MODULE Segments -------------------------------
(***************************************************************************)
(* The segments of one partition: appends that roll to a new segment,      *)
(* reads, retention with its copy to cold storage and its delayed unlink,  *)
(* compaction with its marker, and recovery after a crash at any step.     *)
(* partition.rs, retention.rs, compaction.rs, storage/recover.rs and       *)
(* storage/segment.rs.                                                     *)
(*                                                                         *)
(* A segment is its base offset and the set of offsets of its records; a   *)
(* file is named by the base offset.  A segment in memory keeps its own    *)
(* file handle, so its records are part of its value.  A batch is one      *)
(* record; whether it fits in the active segment is left open.  Time is    *)
(* left open too, but records are stamped in the order of their offsets.   *)
(* That a record is on disk once it is acknowledged is GroupCommit's       *)
(* subject: here a crash loses directory changes that were not yet synced. *)
(***************************************************************************)
EXTENDS Integers, Sequences, FiniteSets, FiniteSetsExt, SequencesExt

CONSTANTS
    Keys,           \* record keys
    NoKey,          \* the key of a record without one
    Tiered,         \* whether cold storage is configured
    MaxOffset,      \* bound: records written
    MaxCompactions, \* bound: compactions started
    MaxFailures     \* bound: crashes, and failures of a swap

ASSUME SegmentsAssumption ==
    /\ NoKey \notin Keys /\ Tiered \in BOOLEAN
    /\ MaxOffset \in Nat /\ MaxCompactions \in Nat /\ MaxFailures \in Nat

VARIABLES
    wrote,          \* every record ever written, in the order of offsets 0, 1, ...
    segs,           \* Partition::segments, oldest first; the last is active
    nextOffset, startOffset,
    append,         \* the append that holds the appender mutex: "idle", "rolled", "written"
    read,           \* the reader: its target and what it has loaded
    reaper, compactor,
    disk, tmp, cold,\* base -> offsets: log files, compaction outputs, copies in cold storage
    marker,         \* compaction.marker: at most one [base, victims]
    reaped,         \* history: offsets retention has taken out of the partition
    uneven,         \* history: whether retention removed a segment and an older one stayed or came back
    compactions, crashes, faults

memory  == <<segs, nextOffset, startOffset, append>>
files   == <<disk, tmp, marker>>
counts  == <<uneven, compactions, crashes, faults>>
vars    == <<wrote, memory, read, reaper, compactor, files, cold, reaped, counts>>

Record(o)   == wrote[o + 1]
Offsets(ss) == UNION {ss[i].offs : i \in DOMAIN ss}
Bases(ss)   == {ss[i].base : i \in DOMAIN ss}
Sealed      == Front(segs)
Active      == Last(segs)
Without(f, gone) == [b \in DOMAIN f \ gone |-> f[b]]
Put(f, b, offs)  == [c \in DOMAIN f \cup {b} |-> IF c = b THEN offs ELSE f[c]]

NoRead     == [pc |-> "idle", target |-> 0, hwm |-> 0, start |-> 0]
NoReap     == [pc |-> "idle", victims |-> {}, copied |-> {}]
NoCompact  == [pc |-> "idle", sealed |-> << >>, out |-> {}]

Init ==
    /\ wrote = << >>
    /\ segs = <<[base |-> 0, offs |-> {}]>>
    /\ nextOffset = 0 /\ startOffset = 0 /\ append = "idle"
    /\ read = NoRead /\ reaper = NoReap /\ compactor = NoCompact
    /\ disk = [b \in {0} |-> {}] /\ tmp = << >> /\ marker = {} /\ cold = << >>
    /\ reaped = {} /\ uneven = FALSE
    /\ compactions = 0 /\ crashes = 0 /\ faults = 0

\* The appender mutex: held by an append, or by a compaction that swaps.
Unlocked == append = "idle" /\ compactor.pc \notin {"swap", "unmark"}

-----------------------------------------------------------------------------
(* append_batch, roll and commit_batch *)

Roll ==
    /\ Unlocked /\ Len(wrote) < MaxOffset
    /\ Active.offs # {}
    /\ segs' = Append(segs, [base |-> nextOffset, offs |-> {}])
    /\ disk' = Put(disk, nextOffset, {})
    /\ append' = "rolled"
    /\ UNCHANGED <<wrote, nextOffset, startOffset, read, reaper, compactor, tmp, marker, cold, reaped, counts>>

\* The bytes go to the file and the new size is published, in this order.
WriteBatch(r) ==
    /\ append = "rolled" \/ (Unlocked /\ Len(wrote) < MaxOffset)
    /\ wrote' = Append(wrote, r)
    /\ segs' = [segs EXCEPT ![Len(segs)].offs = @ \cup {nextOffset}]
    /\ disk' = [disk EXCEPT ![Active.base] = @ \cup {nextOffset}]
    /\ append' = "written"
    /\ UNCHANGED <<nextOffset, startOffset, read, reaper, compactor, tmp, marker, cold, reaped, counts>>

\* The high watermark comes last.
Publish ==
    /\ append = "written"
    /\ nextOffset' = nextOffset + 1
    /\ append' = "idle"
    /\ UNCHANGED <<wrote, segs, startOffset, read, reaper, compactor, files, cold, reaped, counts>>

-----------------------------------------------------------------------------
(* read_records_raw *)

LoadWatermark(target) ==
    /\ read.pc = "idle" /\ target < nextOffset
    /\ read' = [NoRead EXCEPT !.pc = "hwm", !.target = target, !.hwm = nextOffset]
    /\ UNCHANGED <<wrote, memory, reaper, compactor, files, cold, reaped, counts>>

LoadStart ==
    /\ read.pc = "hwm"
    /\ read' = [read EXCEPT !.pc = "start", !.start = startOffset]
    /\ UNCHANGED <<wrote, memory, reaper, compactor, files, cold, reaped, counts>>

\* Mutant: the first segment that begins behind the target.
SegmentFor_After(ss, target) ==
    Min({Len(ss)} \cup {i \in DOMAIN ss : ss[i].base > target})

\* The last segment whose base is at or below the target.
SegmentFor(ss, target) ==
    Max({1} \cup {i \in DOMAIN ss : ss[i].base <= target})

\* What read_from gives of segment i.
Hits(ss, i, target, hwm) == {o \in ss[i].offs : target <= o /\ o < hwm}

\* The first segment with something to return.
Found(ss, target, hwm) ==
    {i \in SegmentFor(ss, target)..Len(ss) :
       /\ Hits(ss, i, target, hwm) # {}
       /\ \A j \in SegmentFor(ss, target)..(i - 1) : Hits(ss, j, target, hwm) = {}}

\* Mutant: at the end of a gap the reader is left where it was.
NextToRead_Stays(ss, target, hwm) ==
    IF Found(ss, target, hwm) # {}
    THEN Max(UNION {Hits(ss, i, target, hwm) : i \in Found(ss, target, hwm)}) + 1
    ELSE Max({target} \cup {ss[i].base : i \in (SegmentFor(ss, target) + 1)..Len(ss)})

\* Where the reader is told to go on when nothing limits the answer.
NextToRead(ss, target, hwm) ==
    IF Found(ss, target, hwm) # {}
    THEN Max(UNION {Hits(ss, i, target, hwm) : i \in Found(ss, target, hwm)}) + 1
    ELSE Max({target, hwm} \cup {ss[i].base : i \in (SegmentFor(ss, target) + 1)..Len(ss)})

ReadSegments ==
    /\ read.pc = "start"
    /\ read' = NoRead
    /\ UNCHANGED <<wrote, memory, reaper, compactor, files, cold, reaped, counts>>

-----------------------------------------------------------------------------
(* Retention: plan_victims, offload_victims, unlink_plan, drop_sealed_segments *)

\* Sealed segments with nothing younger than the cutoff, and the oldest n for their size.
PlanVictims(cutoff, n) ==
    LET victims == {Sealed[i].base : i \in {j \in DOMAIN Sealed :
                       j <= n \/ (Sealed[j].offs # {} /\ Max(Sealed[j].offs) < cutoff)}}
    IN  /\ reaper.pc = "idle"
        /\ victims # {}
        /\ reaper' = [pc |-> "planned", victims |-> victims, copied |-> {}]
        /\ UNCHANGED <<wrote, memory, read, compactor, files, cold, reaped, counts>>

Offload(b) ==
    /\ Tiered /\ reaper.pc = "planned"
    /\ b \in reaper.victims \ reaper.copied /\ b \in DOMAIN disk
    /\ cold' = Put(cold, b, disk[b])
    /\ reaper' = [reaper EXCEPT !.copied = @ \cup {b}]
    /\ UNCHANGED <<wrote, memory, read, compactor, files, reaped, counts>>

\* Mutant: a failed copy falls through to the deletion.
OffloadFails_Deletes(b) ==
    /\ Tiered /\ reaper.pc = "planned"
    /\ b \in reaper.victims \ reaper.copied
    /\ reaper' = [reaper EXCEPT !.copied = @ \cup {b}]
    /\ UNCHANGED <<wrote, memory, read, compactor, files, cold, reaped, counts>>

OffloadFails(b) ==
    /\ Tiered /\ reaper.pc = "planned"
    /\ b \in reaper.victims \ reaper.copied
    /\ reaper' = [reaper EXCEPT !.victims = @ \ {b}]
    /\ UNCHANGED <<wrote, memory, read, compactor, files, cold, reaped, counts>>

UnlinkPlan ==
    LET dropped == {b \in reaper.victims \cap Bases(segs) : b < Active.base}
        kept    == SelectSeq(segs, LAMBDA s : s.base \notin dropped)
    IN  /\ reaper.pc = "planned" /\ (Tiered => reaper.copied = reaper.victims)
        /\ Unlocked
        /\ segs' = kept
        /\ startOffset' = IF dropped = {} THEN startOffset ELSE Head(kept).base
        /\ reaped' = reaped \cup UNION {segs[i].offs : i \in {j \in DOMAIN segs : segs[j].base \in dropped}}
        /\ reaper' = IF dropped = {} THEN NoReap ELSE [NoReap EXCEPT !.pc = "grace", !.victims = dropped]
        /\ uneven' = (uneven \/ \E i \in DOMAIN kept : \E b \in dropped : kept[i].base < b)
        /\ UNCHANGED <<wrote, nextOffset, append, read, compactor, files, cold, compactions, crashes, faults>>

\* After the grace period.  A deletion that fails is not noticed, and a shutdown
\* gives the deletions up.
Unlink ==
    /\ reaper.pc = "grace"
    /\ \E stay \in {{}, reaper.victims} :
         /\ disk' = Without(disk, reaper.victims \ stay)
         /\ uneven' = (uneven \/ stay # {})
    /\ reaper' = NoReap
    /\ UNCHANGED <<wrote, memory, read, compactor, tmp, marker, cold, reaped, compactions, crashes, faults>>

-----------------------------------------------------------------------------
(* Compaction: compact_partition *)

SameKey(o, p) == Record(o).key # NoKey /\ Record(o).key = Record(p).key

\* Mutant: of each key the oldest record survives.
Survivors_Oldest(offs, cutoff) ==
    {o \in offs : /\ \A p \in offs : SameKey(o, p) => p >= o
                  /\ ~(Record(o).tombstone /\ o < cutoff)}

\* The newest record of each key, unless it is a tombstone stamped before the
\* cutoff, and the records without a key.
Survivors(offs, cutoff) ==
    {o \in offs : /\ \A p \in offs : SameKey(o, p) => p <= o
                  /\ ~(Record(o).tombstone /\ o < cutoff)}

Lowest == Head(compactor.sealed).base

\* Both passes over the segments start; the output file is created or truncated.
BeginCompaction(cutoff) ==
    LET out == Survivors(Offsets(Sealed), cutoff)
    IN  /\ compactor.pc = "idle" /\ compactions < MaxCompactions
        /\ out # Offsets(Sealed)
        /\ compactor' = [pc |-> "copy", sealed |-> Sealed, out |-> out]
        /\ tmp' = Put(tmp, Head(Sealed).base, {})
        /\ compactions' = compactions + 1
        /\ UNCHANGED <<wrote, memory, read, reaper, disk, marker, cold, reaped, uneven, crashes, faults>>

WriteSurvivors ==
    /\ compactor.pc = "copy"
    /\ tmp' = [tmp EXCEPT ![Lowest] = compactor.out]
    /\ compactor' = [compactor EXCEPT !.pc = "copied"]
    /\ UNCHANGED <<wrote, memory, read, reaper, disk, marker, cold, reaped, counts>>

\* The copy fails, or the sealed segments are not the ones that were copied.
AbortCompaction ==
    /\ \/ compactor.pc = "copy"
       \/ compactor.pc = "copied" /\ Unlocked /\ Sealed # compactor.sealed
    /\ tmp' = Without(tmp, {Lowest})
    /\ compactor' = NoCompact
    /\ UNCHANGED <<wrote, memory, read, reaper, disk, marker, cold, reaped, counts>>

Victims == Bases(compactor.sealed) \ {Lowest}

WriteMarker ==
    /\ compactor.pc = "copied" /\ Unlocked
    /\ Sealed = compactor.sealed
    /\ marker' = {[base |-> Lowest, victims |-> Victims]}
    /\ compactor' = [compactor EXCEPT !.pc = "swap"]
    /\ UNCHANGED <<wrote, memory, read, reaper, disk, tmp, cold, reaped, counts>>

\* The renames, the deletions, the directory's fsync and the new snapshot.  That a
\* victim cannot be deleted is not noticed.
Swap(stay) ==
    /\ compactor.pc = "swap"
    /\ stay \subseteq Victims
    /\ stay # {} => crashes + faults < MaxFailures
    /\ faults' = IF stay = {} THEN faults ELSE faults + 1
    /\ disk' = Without(Put(disk, Lowest, tmp[Lowest]), Victims \ stay)
    /\ tmp' = Without(tmp, {Lowest})
    /\ segs' = <<[base |-> Lowest, offs |-> compactor.out], Active>>
    /\ compactor' = [compactor EXCEPT !.pc = "unmark"]
    /\ UNCHANGED <<wrote, nextOffset, startOffset, append, read, reaper, marker, cold, reaped, uneven,
                   compactions, crashes>>

RemoveMarker ==
    /\ compactor.pc = "unmark"
    /\ marker' = {}
    /\ compactor' = NoCompact
    /\ UNCHANGED <<wrote, memory, read, reaper, disk, tmp, cold, reaped, counts>>

\* The marker cannot be written: its output stays for the next recovery to sweep.
MarkerFails ==
    /\ compactor.pc = "copied" /\ Unlocked /\ Sealed = compactor.sealed
    /\ crashes + faults < MaxFailures
    /\ compactor' = NoCompact
    /\ faults' = faults + 1
    /\ UNCHANGED <<wrote, memory, read, reaper, files, cold, reaped, uneven, compactions, crashes>>

\* A rename fails, or the directory's fsync or the opening of the compacted segment
\* after them, or the marker cannot be removed.  The snapshot stays as it is.
SwapFails(renamed, removed) ==
    /\ compactor.pc \in {"swap", "unmark"} /\ crashes + faults < MaxFailures
    /\ removed => renamed
    /\ compactor' = NoCompact
    /\ IF compactor.pc = "swap" /\ renamed
       THEN /\ disk' = Without(Put(disk, Lowest, tmp[Lowest]), IF removed THEN Victims ELSE {})
            /\ tmp' = Without(tmp, {Lowest})
       ELSE UNCHANGED <<disk, tmp>>
    /\ faults' = faults + 1
    /\ UNCHANGED <<wrote, memory, read, reaper, marker, cold, reaped, uneven, compactions, crashes>>

-----------------------------------------------------------------------------
(* recover_partition *)

\* Mutant: recovery leaves the segments folded into the compacted one.
FinishCompaction_KeepsVictims(d, t, stay) ==
    IF marker = {} THEN d
    ELSE LET m == CHOOSE m \in marker : TRUE
         IN  IF m.base \in DOMAIN t THEN Put(d, m.base, t[m.base]) ELSE d

\* Mutant: recovery takes the rename for done and leaves the output to the sweep.
FinishCompaction_NoRename(d, t, stay) ==
    IF marker = {} THEN d
    ELSE Without(d, (CHOOSE m \in marker : TRUE).victims \ stay)

\* finish_compaction; stay are victims that cannot be deleted, which is not noticed.
FinishCompaction(d, t, stay) ==
    IF marker = {} THEN d
    ELSE LET m == CHOOSE m \in marker : TRUE
         IN  Without(IF m.base \in DOMAIN t THEN Put(d, m.base, t[m.base]) ELSE d,
                     m.victims \ stay)

\* Mutant: the offset of the last record is taken for the next one.
Scanned_Last(b, offs) == IF offs = {} THEN b ELSE Max(offs)

\* The next offset after a scan of one segment.
Scanned(b, offs) == IF offs = {} THEN b ELSE Max(offs) + 1

Recover(d) ==
    LET found == IF DOMAIN d = {} THEN [b \in {0} |-> {}] ELSE d
        bases == SetToSortSeq(DOMAIN found, LAMBDA b, c : b < c)
    IN  /\ segs' = [i \in DOMAIN bases |-> [base |-> bases[i], offs |-> found[bases[i]]]]
        /\ nextOffset' = Max({Scanned(b, found[b]) : b \in DOMAIN found})
        /\ startOffset' = Head(bases)
        /\ disk' = found /\ tmp' = << >> /\ marker' = {}

\* Of the directory changes that were under way any may have reached the disk.
Crash ==
    /\ crashes + faults < MaxFailures
    /\ \E unlinked \in SUBSET (IF reaper.pc = "grace" THEN reaper.victims ELSE {}),
          renamed \in (IF compactor.pc = "swap" THEN BOOLEAN ELSE {FALSE}),
          removed \in SUBSET (IF compactor.pc = "swap" THEN Victims ELSE {}),
          stay \in SUBSET UNION {m.victims : m \in marker} :
         LET d == Without(IF renamed THEN Put(disk, Lowest, tmp[Lowest]) ELSE disk, unlinked \cup removed)
             t == IF renamed THEN Without(tmp, {Lowest}) ELSE tmp
         IN  /\ faults' = IF stay = {} THEN faults ELSE faults + 1
             /\ Recover(FinishCompaction(d, t, stay))
    /\ append' = "idle" /\ read' = NoRead /\ reaper' = NoReap /\ compactor' = NoCompact
    /\ uneven' = (uneven \/ reaper.pc = "grace")
    /\ crashes' = crashes + 1
    /\ UNCHANGED <<wrote, cold, reaped, compactions>>

Records == [key : Keys, tombstone : BOOLEAN] \cup [key : {NoKey}, tombstone : {FALSE}]

Next ==
    \/ Roll \/ Publish
    \/ \E r \in Records : WriteBatch(r)
    \/ \E target \in 0..MaxOffset : LoadWatermark(target)
    \/ LoadStart \/ ReadSegments
    \/ \E cutoff \in 0..MaxOffset, n \in 0..Len(Sealed) : PlanVictims(cutoff, n)
    \/ \E b \in 0..MaxOffset : Offload(b) \/ OffloadFails(b)
    \/ UnlinkPlan \/ Unlink
    \/ \E cutoff \in 0..MaxOffset : BeginCompaction(cutoff)
    \/ WriteSurvivors \/ AbortCompaction \/ WriteMarker \/ RemoveMarker
    \/ \E stay \in SUBSET Bases(compactor.sealed) : Swap(stay)
    \/ MarkerFails
    \/ \E renamed, removed \in BOOLEAN : SwapFails(renamed, removed)
    \/ Crash

Spec == Init /\ [][Next]_vars

-----------------------------------------------------------------------------
(* Properties *)

TypeOK ==
    /\ wrote \in Seq(Records)
    /\ append \in {"idle", "rolled", "written"}
    /\ Bases(segs) \subseteq 0..MaxOffset /\ Active.base \in DOMAIN disk
    /\ startOffset = Head(segs).base
    /\ Cardinality(marker) <= 1

\* No crash and no failure of a compaction behind its marker in one behaviour:
\* nothing removes the marker of a swap that failed, until the next recovery acts on it,
\* nor a file that its deletion left, until the next recovery takes it for a segment.
SwapsWhole == faults = 0 \/ crashes = 0

\* A reader finds a record by the base offsets alone: segments are in order and do
\* not overlap, after recovery from a crash at any step of a compaction too.
SegmentsInOrder ==
    SwapsWhole =>
      \A i \in DOMAIN segs : \A o \in segs[i].offs :
         segs[i].base <= o /\ \A j \in DOMAIN segs : i < j => o < segs[j].base

\* No offset is given out twice: after every recovery, and whatever retention and
\* compaction have removed, the next offset is behind everything ever written.
OffsetsNotReused == append # "written" => nextOffset = Len(wrote)

\* Offsets alone find records: segments are in order and no offset is given out twice.
OffsetsInOrder == TypeOK /\ SegmentsInOrder /\ OffsetsNotReused

\* "A record it could not read is a record it would destroy": a record is gone
\* only because retention took it, a newer record has its key, or it is a
\* tombstone.  Rolls, retention, compaction and crashes at any step lose nothing
\* else.
RecordsKept ==
    SwapsWhole =>
      \A o \in 0..(nextOffset - 1) \ Offsets(segs) :
         \/ o \in reaped
         \/ Record(o).tombstone
         \/ \E p \in 0..(Len(wrote) - 1) : p > o /\ SameKey(o, p)

\* Whoever reads the partition from its start sees the last state of a key or
\* nothing of it: a value whose deletion or replacement was removed does not come
\* back, unless retention itself has kept an older segment than one it removed (its
\* copy or its deletion failed) or a crash before the unlink has brought one back.
KeysDoNotReturn ==
    ~uneven /\ SwapsWhole =>
      \A o \in Offsets(segs) : \A p \in 0..(Len(wrote) - 1) :
         SameKey(o, p) /\ p > o => \E q \in Offsets(segs) : SameKey(o, q) /\ q >= p

\* A reader is not led past a record below the watermark it loaded, whatever
\* rolled, was deleted or was compacted between its three loads.
NoSkipBelowWatermark ==
    read.pc = "start" /\ SwapsWhole =>
      LET target == Max({read.target, read.start})
      IN  \A o \in Offsets(segs) :
            read.target <= o /\ o < read.hwm /\ o < NextToRead(segs, target, read.hwm)
              => \E i \in Found(segs, target, read.hwm) : o \in Hits(segs, i, target, read.hwm)

\* "The next segment's base_offset is the next reachable offset": a reader is not
\* led past any record of the partition.
NoSkip ==
    read.pc = "start" =>
      LET target == Max({read.target, read.start})
      IN  \A o \in Offsets(segs) :
            read.target <= o /\ o < NextToRead(segs, target, read.hwm)
              => \E i \in Found(segs, target, read.hwm) : o \in Hits(segs, i, target, read.hwm)

\* "Report it so a re-poll moves forward": a read below the watermark always
\* moves the reader on, over compacted and deleted ranges too.
ReadsMoveOn ==
    read.pc = "start" =>
      NextToRead(segs, Max({read.target, read.start}), read.hwm) > read.target

\* A reader sees every record below its watermark: it neither skips one nor sticks.
ReadsAreComplete == NoSkipBelowWatermark /\ ReadsMoveOn

\* "Only those whose copy succeeded" are deleted: with cold storage, and until a
\* compaction, all that retention takes is in a copy.
OffloadedFirst ==
    Tiered /\ compactions = 0 => reaped \subseteq UNION {cold[b] : b \in DOMAIN cold}

\* What leaves the partition is replaced, deleted by its writer, or was to be deleted by
\* retention and copied first.
NothingLost == RecordsKept /\ OffloadedFirst

\* The same whether or not segments are compacted.
ReapedIsCold == Tiered => reaped \subseteq UNION {cold[b] : b \in DOMAIN cold}
=============================================================================
