------------------------------ MODULE Producers ------------------------------
(***************************************************************************)
(* Idempotent produce: producers.rs and the produce path of dataplane.rs.  *)
(*                                                                         *)
(* One producer id writes numbered records to partitions and resends what  *)
(* was not acknowledged, possibly in other batches and while the first     *)
(* request is still on its way.  The broker keeps the last sequences per   *)
(* partition in a slot (locked for a whole request), journals what it      *)
(* accepted before it answers, and now and then compacts the journal into  *)
(* a snapshot: rotate the journal, read the slot, replace the snapshot,    *)
(* delete the rotated journal.                                             *)
(*                                                                         *)
(* A record is its sequence number; an append that returned is durable     *)
(* (the module GroupCommit).                                               *)
(***************************************************************************)
EXTENDS Integers, Sequences, FiniteSets, FiniteSetsExt, SequencesExt

CONSTANTS
    Request,        \* requests that can be under way at a time
    Partition,
    Window,         \* sequences remembered (WINDOW)
    Faults,         \* what may go wrong
    None,
    MaxSeq,         \* bound: records per partition
    MaxBatch,       \* bound: records per request and partition
    MaxLog,         \* bound: records in a partition when a request is sent
    MaxMishaps      \* bound: how often something goes wrong

\* A write, a journal write or a compaction fails, a client hangs up, a producer is
\* idle too long, the broker crashes.
Kinds == {"append", "journal", "flush", "abort", "idle", "crash"}

ASSUME ProducersAssumption ==
    /\ Faults \subseteq Kinds
    /\ None \notin Request
    /\ Window \in Nat \ {0} /\ MaxBatch \in Nat \ {0}
    /\ MaxSeq \in Nat /\ MaxLog \in Nat /\ MaxMishaps \in Nat

VARIABLES
    \* the client
    acked,      \* last acknowledged sequence
    answers,    \* <<partition, sequence, offset>> of every answered record
    \* requests
    pc,
    batch,      \* partition -> first and last sequence; 0: none
    fresh,      \* partition -> sequences to write
    known,      \* <<partition, sequence, offset>> of the duplicates among the batch
    got,        \* partition -> offset of the first of them; 0: not written yet
    slotOf,     \* the slot a request holds or waits for
    \* the registry
    slot,       \* the slot of the producer id; 0: none
    win,        \* slot -> partition -> window
    lock,       \* slot -> request or None
    idle,       \* slot -> last used longer ago than PRODUCER_EXPIRY
    expiring,   \* expire() is about to remove the producer
    \* files
    log,        \* partition -> records
    journal, old, snapshot,
    flush, copy,
    dirty,      \* there is something to flush
    mishaps     \* history: what went wrong, how often

client   == <<acked, answers>>
requests == <<pc, batch, fresh, known, got, slotOf>>
registry == <<slot, win, lock, idle, expiring>>
files    == <<journal, old, snapshot>>
flusher  == <<flush, copy, dirty>>
vars     == <<client, requests, registry, log, files, flusher, mishaps>>

Empty    == [last |-> 0, offset |-> 0, recent |-> << >>]
NoWindow == [p \in Partition |-> Empty]
NoBatch  == [p \in Partition |-> <<1, 0>>]
Slots    == 1..3

Init ==
    /\ acked = [p \in Partition |-> 0]
    /\ answers = {}
    /\ pc = [r \in Request |-> "idle"]
    /\ batch = [r \in Request |-> NoBatch]
    /\ fresh = [r \in Request |-> [p \in Partition |-> << >>]]
    /\ known = [r \in Request |-> {}]
    /\ got = [r \in Request |-> [p \in Partition |-> 0]]
    /\ slotOf = [r \in Request |-> 0]
    /\ slot = 0
    /\ win = [g \in Slots |-> NoWindow]
    /\ lock = [g \in Slots |-> None]
    /\ idle = [g \in Slots |-> FALSE]
    /\ expiring = FALSE
    /\ log = [p \in Partition |-> << >>]
    /\ journal = << >> /\ old = << >> /\ snapshot = NoWindow
    /\ flush = "no" /\ copy = NoWindow /\ dirty = FALSE
    /\ mishaps = [k \in Kinds |-> 0]

-----------------------------------------------------------------------------
GoesWrong(k) ==
    /\ k \in Faults
    /\ SumFunction(mishaps) < MaxMishaps
    /\ mishaps' = [mishaps EXCEPT ![k] = @ + 1]

-----------------------------------------------------------------------------
(* The window of a partition *)

Known(w, s) == s = w.last \/ \E i \in 1..Len(w.recent) : w.recent[i][1] = s

\* Mutant: one sequence less is kept.
Record_OffByOne(w, s, o) ==
    LET recent == Append(w.recent, <<s, o>>)
    IN  [last   |-> Max({w.last, s}),
         offset |-> IF s > w.last THEN o ELSE w.offset,
         recent |-> IF Len(recent) >= Window THEN Tail(recent) ELSE recent]

Record(w, s, o) ==
    LET recent == Append(w.recent, <<s, o>>)
    IN  [last   |-> Max({w.last, s}),
         offset |-> IF s > w.last THEN o ELSE w.offset,
         recent |-> IF Len(recent) > Window THEN Tail(recent) ELSE recent]

\* A window nothing was recorded in accepts any sequence.
New(w) == w.recent = << >>

\* A gap, or a sequence below the window.
Refuses(w, b) ==
    /\ ~New(w)
    /\ \E s \in b[1]..b[2] : \/ s <= w.last /\ ~Known(w, s)
                             \/ s = b[1] /\ s > w.last + 1

\* Mutant: the newest sequence is accepted again.
Accepts_Newest(w, b) ==
    SelectSeq([i \in 1..(b[2] - b[1] + 1) |-> b[1] + i - 1],
              LAMBDA s : New(w) \/ s >= w.last)

Accepts(w, b) ==
    SelectSeq([i \in 1..(b[2] - b[1] + 1) |-> b[1] + i - 1],
              LAMBDA s : New(w) \/ s > w.last)

PrevOffset(w, s) ==
    LET hits == {i \in 1..Len(w.recent) : w.recent[i][1] = s}
    IN  IF hits = {} THEN w.offset ELSE w.recent[Min(hits)][2]

Duplicates(w, b) ==
    UNION {{<<p, s, PrevOffset(w[p], s)>> :
              s \in {t \in b[p][1]..b[p][2] : ~New(w[p]) /\ t <= w[p].last}} : p \in Partition}

-----------------------------------------------------------------------------
(* A request *)

\* The request is over.
End(r) ==
    /\ pc' = [pc EXCEPT ![r] = "idle"]
    /\ batch' = [batch EXCEPT ![r] = NoBatch]
    /\ fresh' = [fresh EXCEPT ![r] = [p \in Partition |-> << >>]]
    /\ known' = [known EXCEPT ![r] = {}]
    /\ got' = [got EXCEPT ![r] = [p \in Partition |-> 0]]
    /\ slotOf' = [slotOf EXCEPT ![r] = 0]

\* The client sends what follows its last acknowledged record, or sends it again.
Send(r, ps, n) ==
    /\ pc[r] = "idle"
    /\ \A p \in ps : acked[p] + n <= MaxSeq /\ Len(log[p]) < MaxLog
    /\ pc' = [pc EXCEPT ![r] = "sent"]
    /\ batch' = [batch EXCEPT ![r] = [p \in Partition |->
                   IF p \in ps THEN <<acked[p] + 1, acked[p] + n>> ELSE <<1, 0>>]]
    /\ UNCHANGED <<client, fresh, known, got, slotOf, registry, log, files, flusher, mishaps>>

\* admit finds the slot or makes one, then waits for its lock.
Admit(r) ==
    /\ pc[r] = "sent"
    /\ \E g \in Slots :
         /\ IF slot = 0 THEN \A q \in Request : slotOf[q] # g ELSE g = slot
         /\ slot' = g
         /\ slotOf' = [slotOf EXCEPT ![r] = g]
         /\ win' = IF slot = 0 THEN [win EXCEPT ![g] = NoWindow] ELSE win
         /\ idle' = IF slot = 0 THEN [idle EXCEPT ![g] = FALSE] ELSE idle
    /\ pc' = [pc EXCEPT ![r] = "admitted"]
    /\ UNCHANGED <<client, batch, fresh, known, got, lock, expiring, log, files, flusher, mishaps>>

\* Under the lock every record is decided before any is written.
Check(r) ==
    LET g == slotOf[r] IN
    /\ pc[r] = "admitted" /\ lock[g] = None
    /\ idle' = [idle EXCEPT ![g] = FALSE]
    /\ IF \E p \in Partition : Refuses(win[g][p], batch[r][p])
       THEN End(r) /\ UNCHANGED lock
       ELSE /\ pc' = [pc EXCEPT ![r] = "writing"]
            /\ lock' = [lock EXCEPT ![g] = r]
            /\ fresh' = [fresh EXCEPT ![r] = [p \in Partition |-> Accepts(win[g][p], batch[r][p])]]
            /\ known' = [known EXCEPT ![r] = Duplicates(win[g], batch[r])]
            /\ UNCHANGED <<batch, got, slotOf>>
    /\ UNCHANGED <<client, slot, win, expiring, log, files, flusher, mishaps>>

Unwritten(r) == {p \in Partition : fresh[r][p] # << >> /\ got[r][p] = 0}

\* Partitions are written concurrently, on threads that outlive the request.
Write(r, p) ==
    /\ pc[r] \in {"writing", "failed"}
    /\ p \in Unwritten(r)
    /\ log' = [log EXCEPT ![p] = @ \o fresh[r][p]]
    /\ got' = [got EXCEPT ![r][p] = Len(log[p]) + 1]
    /\ UNCHANGED <<client, pc, batch, fresh, known, slotOf, registry, files, flusher, mishaps>>

\* One failed write fails the request and drops the others' answers.
WriteFails(r, p) ==
    /\ GoesWrong("append")
    /\ pc[r] = "writing"
    /\ p \in Unwritten(r)
    /\ fresh' = [fresh EXCEPT ![r][p] = << >>]
    /\ pc' = [pc EXCEPT ![r] = "failed"]
    /\ lock' = [lock EXCEPT ![slotOf[r]] = None]
    /\ UNCHANGED <<client, batch, known, got, slotOf, slot, win, idle, expiring, log, files, flusher>>

\* Mutant: every record of a batch is given the offset of the first.
Recorded_FirstOffset(w, ss, o) == FoldLeftDomain(LAMBDA acc, i : Record(acc, ss[i], o), w, ss)

Recorded(w, ss, o) == FoldLeftDomain(LAMBDA acc, i : Record(acc, ss[i], o + i - 1), w, ss)

\* All written: the offsets go into the window, and the journal task is started.
RecordAll(r) ==
    LET g == slotOf[r] IN
    /\ pc[r] = "writing"
    /\ Unwritten(r) = {}
    /\ win' = [win EXCEPT ![g] = [p \in Partition |-> Recorded(@[p], fresh[r][p], got[r][p])]]
    /\ pc' = [pc EXCEPT ![r] = "journaling"]
    /\ UNCHANGED <<client, batch, fresh, known, got, slotOf, slot, lock, idle, expiring, log, files, flusher, mishaps>>

Lines(r) ==
    LET of(p) == [i \in 1..Len(fresh[r][p]) |-> <<p, fresh[r][p][i], got[r][p] + i - 1>>]
    IN  FlattenSeq([i \in 1..Cardinality(Partition) |-> of(SetToSeq(Partition)[i])])

Journal(r) ==
    /\ pc[r] \in {"journaling", "aborted"}
    /\ journal' = journal \o Lines(r)
    /\ dirty' = (dirty \/ Lines(r) # << >>)
    /\ pc' = [pc EXCEPT ![r] = IF @ = "aborted" THEN "failed" ELSE "journaled"]
    /\ UNCHANGED <<client, batch, fresh, known, got, slotOf, registry, log, old, snapshot, flush, copy, mishaps>>

JournalFails(r) ==
    /\ GoesWrong("journal")
    /\ pc[r] = "journaling"
    /\ pc' = [pc EXCEPT ![r] = "failed"]
    /\ lock' = [lock EXCEPT ![slotOf[r]] = None]
    /\ UNCHANGED <<client, batch, fresh, known, got, slotOf, slot, win, idle, expiring, log, files, flusher>>

Answer(r) ==
    /\ pc[r] = "journaled"
    /\ acked' = [p \in Partition |-> Max({acked[p], batch[r][p][2]})]
    /\ answers' = answers \cup known[r] \cup Range(Lines(r))
    /\ lock' = [lock EXCEPT ![slotOf[r]] = None]
    /\ End(r)
    /\ UNCHANGED <<slot, win, idle, expiring, log, files, flusher, mishaps>>

\* The client hangs up: the request is dropped where it waits, what runs on other
\* threads goes on.
Abort(r) ==
    /\ GoesWrong("abort")
    /\ pc[r] \in {"admitted", "writing", "journaling"}
    /\ pc' = [pc EXCEPT ![r] = IF @ = "journaling" THEN "aborted" ELSE "failed"]
    /\ fresh' = IF pc[r] = "admitted" THEN [fresh EXCEPT ![r] = [p \in Partition |-> << >>]] ELSE fresh
    /\ lock' = [g \in Slots |-> IF lock[g] = r THEN None ELSE lock[g]]
    /\ UNCHANGED <<client, batch, known, got, slotOf, slot, win, idle, expiring, log, files, flusher>>

\* Nothing of a failed request runs any more.
Forget(r) ==
    /\ pc[r] = "failed" /\ Unwritten(r) = {}
    /\ End(r)
    /\ UNCHANGED <<client, registry, log, files, flusher, mishaps>>

-----------------------------------------------------------------------------
(* Compaction of the journal, and expiry *)

\* The live journal, if there is one, takes the place of the rotated one.
Rotate ==
    /\ flush = "no" /\ dirty
    /\ IF journal # << >>
       THEN old' = journal /\ journal' = << >>
       ELSE UNCHANGED <<old, journal>>
    /\ dirty' = FALSE
    /\ flush' = "rotated"
    /\ UNCHANGED <<client, requests, registry, log, snapshot, copy, mishaps>>

Copy ==
    /\ flush = "rotated"
    /\ slot # 0 => lock[slot] = None
    /\ copy' = IF slot = 0 THEN NoWindow ELSE win[slot]
    /\ flush' = "copied"
    /\ UNCHANGED <<client, requests, registry, log, files, dirty, mishaps>>

ReplaceSnapshot ==
    /\ flush = "copied"
    /\ snapshot' = copy
    /\ flush' = "replaced"
    /\ UNCHANGED <<client, requests, registry, log, journal, old, copy, dirty, mishaps>>

ReplaceFails ==
    /\ GoesWrong("flush")
    /\ flush = "copied"
    /\ flush' = "no"
    /\ UNCHANGED <<client, requests, registry, log, files, copy, dirty>>

RemoveOld ==
    /\ flush = "replaced"
    /\ old' = << >>
    /\ flush' = "no" /\ copy' = NoWindow
    /\ UNCHANGED <<client, requests, registry, log, journal, snapshot, dirty, mishaps>>

\* Time passes: the producer was last used longer ago than PRODUCER_EXPIRY.
Idle ==
    /\ GoesWrong("idle")
    /\ slot # 0 /\ ~idle[slot]
    /\ \A r \in Request : pc[r] \in {"idle", "sent"}
    /\ idle' = [idle EXCEPT ![slot] = TRUE]
    /\ UNCHANGED <<client, requests, slot, win, lock, expiring, log, files, flusher>>

\* expire() looks at the slot under its lock ...
ExpireCheck ==
    /\ ~expiring
    /\ slot # 0 /\ lock[slot] = None /\ idle[slot]
    /\ expiring' = TRUE
    /\ UNCHANGED <<client, requests, slot, win, lock, idle, log, files, flusher, mishaps>>

\* ... and removes the producer after it has let go of it.
ExpireRemove ==
    /\ expiring
    /\ slot' = 0
    /\ dirty' = (dirty \/ slot # 0)
    /\ expiring' = FALSE
    /\ UNCHANGED <<client, requests, win, lock, idle, log, files, flush, copy, mishaps>>

-----------------------------------------------------------------------------
(* Crash and restart *)

Replayed(w, lines) == FoldLeft(LAMBDA acc, l : [acc EXCEPT ![l[1]] = Record(@, l[2], l[3])], w, lines)

\* Mutant: the rotated journal is not replayed.
Crash_IgnoresOld ==
    /\ GoesWrong("crash")
    /\ LET w == Replayed(snapshot, journal)
       IN  /\ slot' = IF w = NoWindow THEN 0 ELSE 1
           /\ win' = [g \in Slots |-> IF g = 1 THEN w ELSE NoWindow]
    /\ lock' = [g \in Slots |-> None]
    /\ idle' = [g \in Slots |-> FALSE] /\ expiring' = FALSE
    /\ pc' = [r \in Request |-> IF pc[r] = "sent" THEN "sent" ELSE "idle"]
    /\ fresh' = [r \in Request |-> [p \in Partition |-> << >>]]
    /\ known' = [r \in Request |-> {}]
    /\ got' = [r \in Request |-> [p \in Partition |-> 0]]
    /\ slotOf' = [r \in Request |-> 0]
    /\ flush' = "no" /\ copy' = NoWindow
    /\ dirty' = (old \o journal # << >>)
    /\ UNCHANGED <<client, batch, log, files>>

\* Requests that have not reached the broker yet may still do so.
\* open reads the snapshot and replays the rotated journal, then the live one.
Crash ==
    /\ GoesWrong("crash")
    /\ LET w == Replayed(snapshot, old \o journal)
       IN  /\ slot' = IF w = NoWindow THEN 0 ELSE 1
           /\ win' = [g \in Slots |-> IF g = 1 THEN w ELSE NoWindow]
    /\ lock' = [g \in Slots |-> None]
    /\ idle' = [g \in Slots |-> FALSE] /\ expiring' = FALSE
    /\ pc' = [r \in Request |-> IF pc[r] = "sent" THEN "sent" ELSE "idle"]
    /\ fresh' = [r \in Request |-> [p \in Partition |-> << >>]]
    /\ known' = [r \in Request |-> {}]
    /\ got' = [r \in Request |-> [p \in Partition |-> 0]]
    /\ slotOf' = [r \in Request |-> 0]
    /\ flush' = "no" /\ copy' = NoWindow
    /\ dirty' = (old \o journal # << >>)
    /\ UNCHANGED <<client, batch, log, files>>

Next ==
    \/ \E r \in Request, ps \in SUBSET Partition \ {{}}, n \in 1..MaxBatch : Send(r, ps, n)
    \/ \E r \in Request : \/ Admit(r) \/ Check(r) \/ RecordAll(r)
                          \/ Journal(r) \/ JournalFails(r) \/ Answer(r)
                          \/ Abort(r) \/ Forget(r)
    \/ \E r \in Request, p \in Partition : Write(r, p) \/ WriteFails(r, p)
    \/ Rotate \/ Copy \/ ReplaceSnapshot \/ ReplaceFails \/ RemoveOld
    \/ Idle \/ ExpireCheck \/ ExpireRemove
    \/ Crash

Spec == Init /\ [][Next]_vars

-----------------------------------------------------------------------------
(* Properties *)

Copies(p, s) == Cardinality({i \in 1..Len(log[p]) : log[p][i] = s})

TypeOK ==
    /\ pc \in [Request -> {"idle", "sent", "admitted", "writing", "journaling",
                           "journaled", "aborted", "failed"}]
    /\ slot \in Slots \cup {0}
    /\ \A r \in Request : pc[r] \in {"writing", "journaling", "journaled"} => lock[slotOf[r]] = r
    /\ \A g \in Slots, p \in Partition : Len(win[g][p].recent) <= Window

\* Each record is "written at most once per (topic, partition)" (producers.rs),
\* however often and in whatever batches it is sent again.
AtMostOnce == \A p \in Partition, s \in 1..MaxSeq : Copies(p, s) <= 1

\* Nothing went wrong but what ks names.
Only(ks) == \A k \in Kinds \ ks : mishaps[k] = 0

\* The same while no write or journal write fails, no client hangs up, no producer
\* expires and the broker is up, compactions failing or not.
AtMostOnceUndisturbed == Only({"flush"}) => AtMostOnce

\* A record that was acknowledged is never written again: what the answer rests on
\* is in the journal or the snapshot whatever flush and crash come next,
\* as long as nothing but one crash goes wrong (a retry of what a failed journal write
\* left out of the journal is answered and not journaled either).
AckedNotRewritten ==
    [][Only({"crash"})' /\ mishaps'["crash"] <= 1 =>
       \A p \in Partition, s \in 1..MaxSeq : s <= acked[p] => Copies(p, s)' = Copies(p, s)]_vars

\* An answer, first or repeated, gives the offset of a record with that sequence.
AnswersAreTrue ==
    \A a \in answers : a[3] \in 1..Len(log[a[1]]) /\ log[a[1]][a[3]] = a[2]

\* "The last WINDOW sequences per partition are remembered": none of the
\* acknowledged ones among them is refused as too old, until a restart (replaying
\* a line the snapshot has pushes another out) or an expiry.
WindowRemembered ==
    slot # 0 /\ Only({"append", "journal", "flush", "abort"}) => \A p \in Partition, s \in 1..MaxSeq :
       LET w == win[slot][p]
       IN  s <= acked[p] /\ s > w.last - Window => Known(w, s)

\* A retry inside the window is known, and answered with an offset that holds its record.
RetriesAnswered == TypeOK /\ AnswersAreTrue /\ WindowRemembered

\* Only "producers idle for PRODUCER_EXPIRY are forgotten".
ExpiresOnlyIdle == [][ExpireRemove => slot = 0 \/ idle[slot]]_vars
=============================================================================
