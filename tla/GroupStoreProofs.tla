-------------------------- MODULE GroupStoreProofs --------------------------
(***************************************************************************)
(* For any number of groups, keys, partitions, commits, resets, failing    *)
(* writes, stops and crashes: no change of a group is forgotten on its way *)
(* to the disk, and no committed offset passes an unprocessed record.      *)
(***************************************************************************)
EXTENDS GroupStore, TLAPS

AnyReq == [pc : {"idle", "read", "lookup", "insert", "claim", "apply", "mark"},
           group : Groups, slot : Slots \cup {NoSlot}, offset : Int]

AnyFlush == [pc : {"sleep", "copy", "write", "done", "failed"}, taken : SUBSET Groups,
             todo : SUBSET Groups, left : SUBSET Groups, copy : [Groups -> Entry],
             final : BOOLEAN]

StoreTypes ==
    /\ mem \in [Groups -> Entry] /\ disk \in [Groups -> Entry]
    /\ dirty \subseteq Groups
    /\ req \in [Keys -> AnyReq]
    /\ flush \in AnyFlush
    /\ end \in [Slots -> Int]
    /\ \A k \in Keys : req[k].pc \in {"read", "apply"} => req[k].slot \in Slots

\* The values that steps build.
LEMMA Values ==
    ASSUME Groups # {}
    PROVE  /\ Unknown \in Entry /\ NoGroup \in Groups
           /\ Idle \in AnyReq /\ Idle.pc = "idle"
           /\ Sleep \in AnyFlush
           /\ Sleep.pc = "sleep" /\ Sleep.todo = {} /\ Sleep.left = {} /\ Sleep.taken = {}
           /\ Sleep.copy = [g \in Groups |-> Unknown]
           /\ \A s \in Slots : Legacy(s) \in Entry
<1>1. NoGroup \in Groups
  BY DEF NoGroup
<1>2. Unknown \in Entry
  BY DEF Unknown, Entry, None
<1>3. ASSUME NEW s \in Slots PROVE Legacy(s) \in Entry
  <2>1. Unowned \in Entry
    BY Zenon, <1>2 DEF Unowned, Entry
  <2>2. Legacy(s) = [Unowned EXCEPT !.offsets = [Unowned.offsets EXCEPT ![s] = 0]]
    BY DEF Legacy
  <2> QED
    BY <2>1, <2>2 DEF Entry
<1>4. Idle \in AnyReq /\ Idle.pc = "idle"
  BY <1>1 DEF Idle, AnyReq
<1>5. Sleep \in AnyFlush
  BY <1>2 DEF Sleep, AnyFlush
<1>6. /\ Sleep.pc = "sleep" /\ Sleep.todo = {} /\ Sleep.left = {} /\ Sleep.taken = {}
      /\ Sleep.copy = [g \in Groups |-> Unknown]
  BY DEF Sleep
<1> QED
  BY <1>1, <1>2, <1>3, <1>4, <1>5, <1>6

-----------------------------------------------------------------------------
(* Types *)

HandlerSteps ==
    \/ \E k \in Keys, g \in Groups :
         Join(k, g) \/ \E s \in Slots : Consume(k, g, s) \/ Reset(k, g, s)
    \/ \E k \in Keys : Handler(k)

\* A request takes its next step.
LEMMA RequestTypes ==
    ASSUME Groups # {}, StoreTypes, HandlerSteps
    PROVE  /\ req' \in [Keys -> AnyReq]
           /\ \A k \in Keys : req'[k].pc \in {"read", "apply"} => req'[k].slot \in Slots
<1> DEFINE Goal == /\ req' \in [Keys -> AnyReq]
                   /\ \A k \in Keys : req'[k].pc \in {"read", "apply"} => req'[k].slot \in Slots
<1>0. ASSUME NEW k \in Keys, NEW r \in AnyReq, req' = [req EXCEPT ![k] = r],
             r.pc \in {"read", "apply"} => r.slot \in Slots
      PROVE  Goal
  BY <1>0 DEF StoreTypes
<1> HIDE DEF Goal
<1>1. ASSUME NEW k \in Keys, NEW g \in Groups, Join(k, g) PROVE Goal
  <2> DEFINE r == [Idle EXCEPT !.pc = "lookup", !.group = g]
  <2>1. r \in AnyReq /\ r.pc = "lookup"
    BY Zenon, Values DEF AnyReq
  <2> QED
    BY Zenon, <1>0, <1>1, <2>1 DEF Join
<1>2. ASSUME NEW k \in Keys, NEW g \in Groups, NEW s \in Slots, Consume(k, g, s) PROVE Goal
  <2> DEFINE r == [pc |-> "read", group |-> g, slot |-> s, offset |-> From(g, s)]
  <2>1. From(g, s) \in Int
    BY DEF From, StoreTypes, Entry
  <2>2. r \in AnyReq /\ r.slot \in Slots
    BY <2>1 DEF AnyReq
  <2> QED
    BY Zenon, <1>0, <1>2, <2>2 DEF Consume
<1>3. ASSUME NEW k \in Keys, NEW g \in Groups, NEW s \in Slots, Reset(k, g, s) PROVE Goal
  <2> DEFINE r == [Idle EXCEPT !.pc = "mark", !.group = g]
  <2>1. r \in AnyReq /\ r.pc = "mark"
    BY Zenon, Values DEF AnyReq
  <2> QED
    BY Zenon, <1>0, <1>3, <2>1 DEF Reset
<1>4. ASSUME NEW k \in Keys, req' = [req EXCEPT ![k] = Idle] PROVE Goal
  BY Zenon, <1>0, <1>4, Values
<1>5. ASSUME NEW k \in Keys, NEW pc \in {"claim", "insert", "mark"},
             req' = [req EXCEPT ![k] = [req[k] EXCEPT !.pc = pc]]
      PROVE  Goal
  <2>1. [req[k] EXCEPT !.pc = pc] \in AnyReq /\ [req[k] EXCEPT !.pc = pc].pc = pc
    BY DEF StoreTypes, AnyReq
  <2> QED
    BY Zenon, <1>0, <1>5, <2>1
<1>6. ASSUME NEW k \in Keys, Read(k) PROVE Goal
  <2> DEFINE from == req[k].offset
  <2>1. from \in Int /\ end[req[k].slot] \in Int
    BY <1>6 DEF Read, StoreTypes, AnyReq
  <2>2. PICK next \in (from + 1)..end[req[k].slot] :
               req' = [req EXCEPT ![k] = [req[k] EXCEPT !.pc = "lookup", !.offset = next]]
    BY <1>6, Zenon DEF Read
  <2>3. /\ [req[k] EXCEPT !.pc = "lookup", !.offset = next] \in AnyReq
        /\ [req[k] EXCEPT !.pc = "lookup", !.offset = next].pc = "lookup"
    <3>1. next \in Int /\ req[k] \in AnyReq
      BY <2>1, <2>2 DEF StoreTypes
    <3> HIDE DEF from
    <3> QED
      BY Zenon, <3>1 DEF AnyReq
  <2> QED
    BY Zenon, <1>0, <2>2, <2>3
<1>7. ASSUME NEW k \in Keys, req' = Claimed(k) PROVE Goal
  <2>1. CASE req[k].slot # NoSlot
    <3>1. /\ [req[k] EXCEPT !.pc = "apply"] \in AnyReq
          /\ [req[k] EXCEPT !.pc = "apply"].slot \in Slots
      BY <2>1 DEF StoreTypes, AnyReq
    <3> QED
      BY Zenon, <1>0, <1>7, <2>1, <3>1 DEF Claimed
  <2>2. CASE req[k].slot = NoSlot
    BY Zenon, <1>4, <1>7, <2>2 DEF Claimed
  <2> QED
    BY <2>1, <2>2
<1>8. ASSUME NEW k \in Keys, Handler(k) PROVE Goal
  <2>1. CASE ReadNothing(k)
    BY Zenon, <1>4, <2>1 DEF ReadNothing
  <2>2. CASE Lookup(k)
    <3>1. \/ req' = [req EXCEPT ![k] = Idle]
          \/ req' = [req EXCEPT ![k] = [req[k] EXCEPT !.pc = "claim"]]
          \/ req' = [req EXCEPT ![k] = [req[k] EXCEPT !.pc = "insert"]]
      <4>1. CASE req[k].group \in Known
        BY <2>2, <4>1 DEF Lookup
      <4>2. CASE req[k].group \notin Known /\ Cardinality(Known) >= MaxGroups
        BY <2>2, <4>2 DEF Lookup
      <4>3. CASE req[k].group \notin Known /\ ~(Cardinality(Known) >= MaxGroups)
        BY <2>2, <4>3 DEF Lookup
      <4> QED
        BY <4>1, <4>2, <4>3
    <3> QED
      BY <1>4, <1>5, <3>1
  <2>3. CASE Insert(k)
    BY <1>5, <2>3, Zenon DEF Insert
  <2>4. CASE Claim(k)
    BY <1>4, <1>7, <2>4 DEF Claim
  <2>5. CASE Apply(k)
    BY <1>4, <1>5, <2>5 DEF Apply
  <2>6. CASE Mark(k)
    BY Zenon, <1>4, <2>6 DEF Mark
  <2> QED
    BY <1>6, <1>8, <2>1, <2>2, <2>3, <2>4, <2>5, <2>6 DEF Handler
<1> QED
  BY <1>1, <1>2, <1>3, <1>8 DEF HandlerSteps, Goal

\* An entry after an insertion, a claim and a commit.
LEMMA Entries ==
    ASSUME NEW e \in Entry
    PROVE  /\ [e EXCEPT !.exists = TRUE] \in Entry
           /\ \A k \in Keys : [e EXCEPT !.owner = k, !.changes = e.changes + 1] \in Entry
           /\ \A s \in Slots, o \in Int :
                [e EXCEPT !.offsets[s] = o, !.changes = e.changes + 1] \in Entry
<1>1. [e EXCEPT !.exists = TRUE] \in Entry
  BY Zenon DEF Entry
<1>2. e.changes + 1 \in Nat
  BY DEF Entry
<1>3. ASSUME NEW k \in Keys PROVE [e EXCEPT !.owner = k, !.changes = e.changes + 1] \in Entry
  BY Zenon, <1>2 DEF Entry
<1>4. ASSUME NEW s \in Slots, NEW o \in Int
      PROVE  [e EXCEPT !.offsets[s] = o, !.changes = e.changes + 1] \in Entry
  <2>1. [e.offsets EXCEPT ![s] = o] \in [Slots -> Int]
    BY DEF Entry
  <2>2. [e EXCEPT !.offsets[s] = o, !.changes = e.changes + 1]
          = [e EXCEPT !.offsets = [e.offsets EXCEPT ![s] = o], !.changes = e.changes + 1]
    BY DEF Entry
  <2> QED
    BY Zenon, <1>2, <2>1, <2>2 DEF Entry
<1> QED
  BY <1>1, <1>3, <1>4, Zenon

\* Commits, claims and resets keep the shape of an entry.
LEMMA EntryTypes ==
    ASSUME StoreTypes, HandlerSteps
    PROVE  mem' \in [Groups -> Entry] /\ dirty' \subseteq Groups
<1> DEFINE Goal == mem' \in [Groups -> Entry] /\ dirty' \subseteq Groups
<1>1. ASSUME NEW g \in Groups, NEW e \in Entry, mem' = [mem EXCEPT ![g] = e],
             dirty' \subseteq dirty \cup {g}
      PROVE  Goal
  BY <1>1 DEF StoreTypes
<1>2. ASSUME NEW k \in Keys, UNCHANGED mem, dirty' \subseteq dirty \cup {req[k].group} PROVE Goal
  BY <1>2 DEF StoreTypes, AnyReq
<1>3. /\ mem \in [Groups -> Entry]
      /\ \A k \in Keys : /\ req[k].group \in Groups /\ req[k].offset \in Int
                         /\ req[k].pc = "apply" => req[k].slot \in Slots
  BY DEF StoreTypes, AnyReq
<1> HIDE DEF Goal
<1>4. ASSUME NEW k \in Keys, NEW g \in Groups, NEW s \in Slots, Reset(k, g, s) PROVE Goal
  <2> DEFINE e == [mem[g] EXCEPT !.offsets[s] = 0, !.changes = mem[g].changes + 1]
  <2>1. e \in Entry
    <3>1. mem[g] \in Entry /\ 0 \in Int
      BY <1>3
    <3> QED
      BY <3>1, Entries, Zenon
  <2>2. mem' = [mem EXCEPT ![g] = e] /\ dirty' = dirty
    BY <1>3, <1>4 DEF Reset, Entry
  <2> HIDE DEF e
  <2> QED
    BY Zenon, <1>1, <2>1, <2>2
<1>5. ASSUME NEW k \in Keys, Insert(k) PROVE Goal
  <2> DEFINE g == req[k].group
             e == [mem[g] EXCEPT !.exists = TRUE]
  <2>1. g \in Groups /\ e \in Entry
    BY <1>3, Entries, Zenon
  <2>2. mem' = [mem EXCEPT ![g] = e] /\ dirty' = dirty
    BY <1>5 DEF Insert
  <2> HIDE DEF e, g
  <2> QED
    BY Zenon, <1>1, <2>1, <2>2
<1>6. ASSUME NEW k \in Keys, Claim(k), mem[req[k].group].owner = NoOwner PROVE Goal
  <2> DEFINE g == req[k].group
             e == [mem[g] EXCEPT !.owner = k, !.changes = mem[g].changes + 1]
  <2>1. g \in Groups /\ e \in Entry
    BY <1>3, Entries, Zenon
  <2>2. mem' = [mem EXCEPT ![g] = e] /\ dirty' = dirty \cup {g}
    BY <1>3, <1>6 DEF Claim, Entry
  <2> HIDE DEF e, g
  <2> QED
    BY Zenon, <1>1, <2>1, <2>2
<1>7. ASSUME NEW k \in Keys, Apply(k), mem' # mem PROVE Goal
  <2> DEFINE g == req[k].group
             s == req[k].slot
             e == [mem[g] EXCEPT !.offsets[s] = req[k].offset, !.changes = mem[g].changes + 1]
  <2>1. g \in Groups /\ s \in Slots
    BY <1>3, <1>7 DEF Apply
  <2>2. e \in Entry
    BY <1>3, <2>1, Entries, Zenon
  <2>3. mem' = [mem EXCEPT ![g] = e] /\ dirty' = dirty
    BY <1>3, <1>7, <2>1 DEF Apply, Entry
  <2> HIDE DEF e, g
  <2> QED
    BY Zenon, <1>1, <2>1, <2>2, <2>3
<1>8. ASSUME NEW k \in Keys,
             \/ Read(k) \/ ReadNothing(k) \/ Lookup(k) \/ Mark(k)
             \/ Claim(k) /\ mem[req[k].group].owner # NoOwner
             \/ Apply(k) /\ mem' = mem
             \/ \E g \in Groups : Join(k, g) \/ \E s \in Slots : Consume(k, g, s)
      PROVE  Goal
  BY <1>2, <1>8, Zenon DEF Read, ReadNothing, Lookup, Mark, Claim, Apply, Join, Consume
<1> QED
  BY <1>4, <1>5, <1>6, <1>7, <1>8 DEF HandlerSteps, Handler, Goal

\* The flusher after a copy, and after a write.
LEMMA Flushes ==
    ASSUME NEW f \in AnyFlush, NEW g \in Groups, NEW e \in Entry, NEW pc \in {"copy", "write"}
    PROVE  /\ [f EXCEPT !.pc = pc, !.todo = f.todo \ {g}, !.left = f.left \cup {g},
                        !.copy[g] = e] \in AnyFlush
           /\ [f EXCEPT !.left = f.left \ {g}, !.copy[g] = e] \in AnyFlush
<1> DEFINE c == [f.copy EXCEPT ![g] = e]
<1>1. c \in [Groups -> Entry]
  BY DEF AnyFlush
<1>2. /\ [f EXCEPT !.pc = pc, !.todo = f.todo \ {g}, !.left = f.left \cup {g}, !.copy[g] = e]
           = [f EXCEPT !.pc = pc, !.todo = f.todo \ {g}, !.left = f.left \cup {g}, !.copy = c]
      /\ [f EXCEPT !.left = f.left \ {g}, !.copy[g] = e]
           = [f EXCEPT !.left = f.left \ {g}, !.copy = c]
  BY DEF AnyFlush
<1> HIDE DEF c
<1>3. [f EXCEPT !.pc = pc, !.todo = f.todo \ {g}, !.left = f.left \cup {g}, !.copy = c]
        \in AnyFlush
  BY Zenon, <1>1 DEF AnyFlush
<1>4. [f EXCEPT !.left = f.left \ {g}, !.copy = c] \in AnyFlush
  BY Zenon, <1>1 DEF AnyFlush
<1> QED
  BY <1>2, <1>3, <1>4

\* The flusher at its start and at its end.
LEMMA FlushEnds ==
    ASSUME Groups # {}
    PROVE  /\ \A pc \in {"done", "failed"} : [Sleep EXCEPT !.pc = pc] \in AnyFlush
           /\ \A d \in SUBSET Groups, b \in BOOLEAN :
                [Sleep EXCEPT !.pc = "copy", !.taken = d, !.todo = d, !.final = b] \in AnyFlush
<1>1. Sleep \in AnyFlush
  BY Values
<1>2. ASSUME NEW pc \in {"done", "failed"} PROVE [Sleep EXCEPT !.pc = pc] \in AnyFlush
  BY <1>1 DEF AnyFlush
<1>3. ASSUME NEW d \in SUBSET Groups, NEW b \in BOOLEAN
      PROVE  [Sleep EXCEPT !.pc = "copy", !.taken = d, !.todo = d, !.final = b] \in AnyFlush
  BY Zenon, <1>1 DEF AnyFlush
<1> QED
  BY <1>2, <1>3, Zenon

\* A flush keeps the shape of what it takes, copies and writes.
LEMMA FlushTypes ==
    ASSUME Groups # {}, StoreTypes, Flusher
    PROVE  flush' \in AnyFlush /\ disk' \in [Groups -> Entry] /\ dirty' \subseteq Groups
<1>0. flush \in AnyFlush /\ mem \in [Groups -> Entry] /\ disk \in [Groups -> Entry]
      /\ flush.copy \in [Groups -> Entry] /\ dirty \in SUBSET Groups
      /\ flush.taken \subseteq Groups
  BY DEF StoreTypes, AnyFlush
<1>1. CASE FlushStart
  <2>1. CASE dirty = {}
    BY <1>0, <1>1, <2>1, FlushEnds, Values, Zenon DEF FlushStart
  <2>2. CASE dirty # {}
    <3>1. (life = "draining") \in BOOLEAN
      OBVIOUS
    <3> QED
      BY <1>0, <1>1, <2>2, <3>1, FlushEnds, Values, Zenon DEF FlushStart
  <2> QED
    BY <2>1, <2>2
<1>2. ASSUME NEW g \in Groups, FlushCopy(g)
      PROVE  flush' \in AnyFlush /\ UNCHANGED <<disk, dirty>>
  <2>1. PICK pc \in {"copy", "write"} :
          flush' = [flush EXCEPT !.pc = pc, !.todo = flush.todo \ {g},
                                 !.left = flush.left \cup {g}, !.copy[g] = mem[g]]
    BY Zenon, <1>2 DEF FlushCopy
  <2>2. mem[g] \in Entry
    BY <1>0
  <2> QED
    <3>1. flush' \in AnyFlush
      BY <1>0, <2>1, <2>2, Flushes, Zenon
    <3> QED
      BY <1>2, <3>1 DEF FlushCopy
<1>3. FlushDone \in AnyFlush
  BY FlushEnds, Values, Zenon DEF FlushDone
<1>4. ASSUME NEW g \in Groups, FlushWrite(g)
      PROVE  flush' \in AnyFlush /\ disk' \in [Groups -> Entry] /\ dirty' = dirty
  <2>1. flush' \in {FlushDone, [flush EXCEPT !.left = flush.left \ {g}, !.copy[g] = Unknown]}
    BY <1>4 DEF FlushWrite
  <2>2. disk' = [disk EXCEPT ![g] = flush.copy[g]] /\ dirty' = dirty
    BY <1>4 DEF FlushWrite
  <2>3. flush' \in AnyFlush
    <3>1. [flush EXCEPT !.left = flush.left \ {g}, !.copy[g] = Unknown] \in AnyFlush
      BY <1>0, Flushes, Values, Zenon
    <3> QED
      BY <1>3, <2>1, <3>1
  <2> QED
    BY <1>0, <2>2, <2>3
<1>5. ASSUME NEW g \in Groups, FlushFails(g)
      PROVE  flush' \in AnyFlush /\ disk' \in [Groups -> Entry] /\ dirty' \subseteq Groups
  <2>1. flush' \in {Sleep, [Sleep EXCEPT !.pc = "failed"]}
    BY <1>5 DEF FlushFails
  <2>2. flush' \in AnyFlush
    BY <2>1, FlushEnds, Values, Zenon
  <2>3. disk' \in {disk, [disk EXCEPT ![g] = flush.copy[g]]} /\ dirty' = dirty \cup flush.taken
    BY <1>5 DEF FlushFails
  <2> QED
    BY <1>0, <2>2, <2>3
<1> QED
  BY <1>0, <1>1, <1>2, <1>4, <1>5 DEF Flusher

\* An empty store is well typed.
LEMMA TypesInit ==
    ASSUME Groups # {}, Init
    PROVE  StoreTypes
<1>1. NoFiles \in [Groups -> Entry]
  BY Values DEF NoFiles
<1>2. disk \in [Groups -> Entry]
  BY <1>1, Values DEF Init
<1>3. req \in [Keys -> AnyReq] /\ \A k \in Keys : req[k].pc = "idle"
  BY Values DEF Init
<1>4. end \in [Slots -> Int]
  BY DEF Init
<1> QED
  BY <1>2, <1>3, <1>4, Values DEF Init, StoreTypes

\* Every step keeps the types.
LEMMA TypesStep ==
    ASSUME Groups # {}, StoreTypes, [Next]_vars
    PROVE  StoreTypes'
<1>1. CASE HandlerSteps
  <2>1. UNCHANGED <<disk, flush, end>>
    BY <1>1, Zenon DEF HandlerSteps, Join, Consume, Reset, Handler, Read, ReadNothing, Lookup,
                Insert, Claim, Apply, Mark
  <2> QED
    BY <1>1, <2>1, RequestTypes, EntryTypes DEF StoreTypes
<1>2. CASE Flusher
  <2>1. UNCHANGED <<mem, req, end>>
    BY <1>2, Zenon DEF Flusher, FlushStart, FlushCopy, FlushWrite, FlushFails
  <2> QED
    BY <1>2, <2>1, FlushTypes DEF StoreTypes
<1>3. ASSUME NEW s \in Slots, Produce(s) \/ Recreate(s) PROVE StoreTypes'
  <2>1. end' \in [Slots -> Int]
    BY <1>3 DEF Produce, Recreate, StoreTypes
  <2>2. UNCHANGED <<mem, disk, dirty, req, flush>>
    BY <1>3 DEF Produce, Recreate
  <2> QED
    BY <2>1, <2>2 DEF StoreTypes
<1>4. CASE Shutdown \/ Stop \/ UNCHANGED vars
  BY <1>4 DEF Shutdown, Stop, vars, StoreTypes
<1>5. CASE Restart \/ Crash
  <2>1. UNCHANGED <<disk, end>> /\ Open
    BY <1>5 DEF Restart, Crash
  <2>2. req' \in [Keys -> AnyReq] /\ \A k \in Keys : req'[k].pc = "idle"
    BY <2>1, Values DEF Open
  <2> QED
    BY <2>1, <2>2, Values DEF Open, StoreTypes
<1> QED
  BY <1>1, <1>2, <1>3, <1>4, <1>5 DEF Next, HandlerSteps

-----------------------------------------------------------------------------
(* Nothing is forgotten *)

\* A flush to come will take g: it is dirty, a change waits for its mark, or the entry
\* was inserted by a request that has yet to claim it.
Announced(g) ==
    \/ g \in dirty
    \/ \E k \in Keys : /\ req[k].group = g
                       /\ \/ req[k].pc = "mark"
                          \/ req[k].pc = "claim" /\ mem[g].owner = NoOwner

\* Only an entry that exists has an owner.
Fresh(e) == ~e.exists => e.owner = NoOwner

\* So it is in memory, in the files and in the copies; a request that waits for its claim
\* has an entry to claim.
OwnersExist ==
    /\ \A g \in Groups : Fresh(mem[g]) /\ Fresh(disk[g]) /\ Fresh(flush.copy[g])
    /\ \A k \in Keys : req[k].pc = "claim" => mem[req[k].group].exists

\* A copy that waits for its write is up to date or will be taken again; so is a file.
Followed ==
    /\ flush.todo \subseteq flush.taken /\ flush.left \subseteq flush.taken
    /\ flush.pc # "copy" => flush.todo = {}
    /\ flush.pc \notin {"copy", "write"} => flush.left = {}
    /\ \A g \in Groups :
         /\ g \in flush.left => flush.copy[g] = mem[g] \/ Announced(g)
         /\ g \notin flush.left => mem[g] = disk[g] \/ g \in flush.todo \/ Announced(g)

\* What a handler's step changes in memory is announced, and stays so.
LEMMA HandlerAnnounces ==
    ASSUME StoreTypes, OwnersExist, HandlerSteps, NEW h \in Groups
    PROVE  /\ Announced(h) => Announced(h)'
           /\ mem'[h] # mem[h] => Announced(h)'
           /\ Fresh(mem'[h])
           /\ mem[h].exists => mem'[h].exists
<1>0. /\ mem \in [Groups -> Entry] /\ req \in [Keys -> AnyReq]
      /\ \A g \in Groups : Fresh(mem[g])
      /\ \A k \in Keys : req[k].group \in Groups
      /\ \A g \in Groups : DOMAIN mem[g] = DOMAIN mem[h]
  BY DEF StoreTypes, OwnersExist, Entry, AnyReq
<1> DEFINE Goal == /\ Announced(h) => Announced(h)'
                   /\ mem'[h] # mem[h] => Announced(h)'
                   /\ Fresh(mem'[h])
                   /\ mem[h].exists => mem'[h].exists
\* The step of one request, that was not waiting for a mark or a claim
<1>1. ASSUME NEW k \in Keys, req[k].pc \notin {"mark", "claim"}, UNCHANGED <<mem, dirty>>,
             NEW r, req' = [req EXCEPT ![k] = r]
      PROVE  Goal
  BY <1>0, <1>1 DEF Announced
\* A request changes an entry and goes on to mark it
<1>10. ASSUME NEW k \in Keys, NEW g \in Groups, req[k].pc \notin {"mark", "claim"},
              mem'[h].exists = mem[h].exists, mem'[h].owner = mem[h].owner,
              h # g => mem'[h] = mem[h], req'[k].pc = "mark", req'[k].group = g,
              dirty' = dirty, \A j \in Keys \ {k} : req'[j] = req[j]
       PROVE  Goal
  <2>1. ASSUME Announced(h) PROVE Announced(h)'
    <3>1. CASE h \in dirty
      BY <1>10, <3>1 DEF Announced
    <3>2. CASE h \notin dirty
      <4>1. PICK j \in Keys :
              /\ req[j].group = h
              /\ req[j].pc = "mark" \/ (req[j].pc = "claim" /\ mem[h].owner = NoOwner)
        BY <2>1, <3>2 DEF Announced
      <4>2. req'[j] = req[j]
        BY <1>10, <4>1
      <4> QED
        BY <1>10, <4>1, <4>2 DEF Announced
    <3> QED
      BY <3>1, <3>2
  <2>2. ASSUME mem'[h] # mem[h] PROVE Announced(h)'
    <3>1. h = g
      BY <1>10, <2>2
    <3>2. req'[k].group = h /\ req'[k].pc = "mark"
      BY <1>10, <3>1
    <3> QED
      BY <3>2 DEF Announced
  <2> QED
    BY <1>0, <1>10, <2>1, <2>2 DEF Fresh
<1> HIDE DEF Goal
<1>2. ASSUME NEW k \in Keys, NEW g \in Groups, Join(k, g) PROVE Goal
  BY Zenon, <1>1, <1>2, Values DEF Join
<1>3. ASSUME NEW k \in Keys, NEW g \in Groups, NEW s \in Slots, Consume(k, g, s) PROVE Goal
  BY Zenon, <1>1, <1>3, Values DEF Consume
<1>4. ASSUME NEW k \in Keys, Read(k) \/ ReadNothing(k) \/ Lookup(k) PROVE Goal
  <2>1. UNCHANGED <<mem, dirty>> /\ req[k].pc \notin {"mark", "claim"}
    BY <1>4 DEF Read, ReadNothing, Lookup
  <2>2. \E r : req' = [req EXCEPT ![k] = r]
    BY Zenon, <1>4 DEF Read, ReadNothing, Lookup
  <2> QED
    BY <1>1, <2>1, <2>2, Zenon
<1>5. ASSUME NEW k \in Keys, NEW g \in Groups, NEW s \in Slots, Reset(k, g, s) PROVE Goal
  <2>1. mem' = [mem EXCEPT ![g] = [mem[g] EXCEPT !.offsets[s] = 0, !.changes = @ + 1]]
    BY <1>0, <1>5 DEF Reset, Entry
  <2>2. mem'[h].exists = mem[h].exists /\ mem'[h].owner = mem[h].owner /\ (h # g => mem'[h] = mem[h])
    BY <1>0, <2>1 DEF Entry
  <2>3. req'[k].pc = "mark" /\ req'[k].group = g /\ dirty' = dirty
        /\ \A j \in Keys \ {k} : req'[j] = req[j]
    BY <1>0, <1>5 DEF Reset, Idle
  <2>4. req[k].pc = "idle"
    BY <1>5 DEF Reset, Idle
  <2> QED
    BY <1>10, <2>2, <2>3, <2>4
<1>6. ASSUME NEW k \in Keys, Insert(k) PROVE Goal
  <2> DEFINE g == req[k].group
  <2>1. mem' = [mem EXCEPT ![g] = [mem[g] EXCEPT !.exists = TRUE]] /\ g \in Groups
    BY <1>0, <1>6 DEF Insert
  <2>2. mem'[h].owner = mem[h].owner /\ (h # g => mem'[h] = mem[h]) /\ mem'[g].exists
    BY <1>0, <2>1 DEF Entry
  <2>3. mem[g].exists => mem'[g] = mem[g]
    BY <1>0, <2>1, Zenon DEF Entry
  <2>4. req'[k].pc = "claim" /\ req'[k].group = g /\ dirty' = dirty /\ req[k].pc = "insert"
        /\ \A j \in Keys \ {k} : req'[j] = req[j]
    BY <1>0, <1>6 DEF Insert, AnyReq
  <2> HIDE DEF g
  <2> QED
    BY <1>0, <2>1, <2>2, <2>3, <2>4 DEF Goal, Announced, Fresh
<1>7. ASSUME NEW k \in Keys, Claim(k) PROVE Goal
  <2> DEFINE g == req[k].group
  <2>0. g \in Groups /\ req[k].pc = "claim" /\ mem[g].exists
    BY <1>0, <1>7 DEF Claim, OwnersExist
  <2>1. \A j \in Keys \ {k} : req'[j] = req[j]
    BY <1>0, <1>7 DEF Claim, Claimed
  <2>2. CASE mem[g].owner = NoOwner
    <3>1. mem' = [mem EXCEPT ![g] = [mem[g] EXCEPT !.owner = k, !.changes = @ + 1]]
          /\ dirty' = dirty \cup {g}
      BY Zenon, <1>7, <2>2 DEF Claim
    <3>2. (h # g => mem'[h] = mem[h]) /\ mem'[g].exists
      BY <1>0, <2>0, <3>1 DEF Entry
    <3> HIDE DEF g
    <3>3. req[k].group = g
      BY DEF g
    <3> QED
      BY <1>0, <2>0, <2>1, <3>1, <3>2, <3>3 DEF Goal, Announced, Fresh
  <2>3. CASE mem[g].owner # NoOwner
    <3>1. UNCHANGED <<mem, dirty>>
      BY <1>7, <2>3 DEF Claim
    <3> QED
      BY <1>0, <2>0, <2>1, <2>3, <3>1 DEF Goal, Announced, Fresh
  <2> QED
    BY <2>2, <2>3
<1>8. ASSUME NEW k \in Keys, Apply(k) PROVE Goal
  <2> DEFINE g == req[k].group
             s == req[k].slot
  <2>0. g \in Groups /\ s \in Slots /\ req[k].pc = "apply" /\ dirty' = dirty
    BY <1>0, <1>8 DEF Apply, StoreTypes
  <2>1. CASE mem[g].offsets[s] = None /\ Cardinality(Tracked(g)) >= MaxEntries
    <3>1. req' = [req EXCEPT ![k] = Idle] /\ UNCHANGED mem
      BY <1>8, <2>1 DEF Apply
    <3> QED
      BY Zenon, <1>1, <2>0, <3>1
  <2>2. CASE ~(mem[g].offsets[s] = None /\ Cardinality(Tracked(g)) >= MaxEntries)
    <3>1. mem' = [mem EXCEPT ![g] = [mem[g] EXCEPT !.offsets[s] = req[k].offset,
                                                   !.changes = @ + 1]]
          /\ req' = [req EXCEPT ![k].pc = "mark"]
      BY <1>0, <1>8, <2>0, <2>2 DEF Apply, Entry
    <3>2. mem'[h].exists = mem[h].exists /\ mem'[h].owner = mem[h].owner
          /\ (h # g => mem'[h] = mem[h])
      BY <1>0, <2>0, <3>1 DEF Entry
    <3>3. req'[k].pc = "mark" /\ req'[k].group = g /\ \A j \in Keys \ {k} : req'[j] = req[j]
      BY <1>0, <3>1 DEF AnyReq
    <3> HIDE DEF g
    <3> QED
      BY <1>10, <2>0, <3>2, <3>3
  <2> QED
    BY <2>1, <2>2
<1>9. ASSUME NEW k \in Keys, Mark(k) PROVE Goal
  <2>1. mem' = mem /\ dirty' = dirty \cup {req[k].group} /\ \A j \in Keys \ {k} : req'[j] = req[j]
    BY <1>0, <1>9 DEF Mark
  <2> QED
    BY <1>0, <2>1 DEF Goal, Announced, Fresh
<1> QED
  BY <1>2, <1>3, <1>4, <1>5, <1>6, <1>7, <1>8, <1>9 DEF HandlerSteps, Handler, Goal

\* A request that waits for its claim found or inserted its entry.
LEMMA ClaimsExist ==
    ASSUME StoreTypes, OwnersExist, HandlerSteps, NEW k \in Keys, req'[k].pc = "claim"
    PROVE  mem'[req'[k].group].exists
<1>0. /\ mem \in [Groups -> Entry] /\ req \in [Keys -> AnyReq]
      /\ \A j \in Keys : req[j].group \in Groups
      /\ \A g \in Groups : mem[g].exists => mem'[g].exists
  BY HandlerAnnounces DEF StoreTypes, AnyReq
<1>1. CASE req'[k] = req[k]
  BY <1>0, <1>1 DEF OwnersExist
<1>2. CASE req'[k] # req[k]
  <2>1. ASSUME NEW j \in Keys, NEW g \in Groups,
               Join(j, g) \/ \E s \in Slots : Consume(j, g, s) \/ Reset(j, g, s)
        PROVE  FALSE
    <3>1. req'[j].pc \in {"lookup", "read", "mark"} /\ \A i \in Keys \ {j} : req'[i] = req[i]
      <4>1. CASE Join(j, g)
        BY <1>0, <4>1 DEF Join, Idle
      <4>2. CASE \E s \in Slots : Consume(j, g, s)
        BY <1>0, <4>2 DEF Consume
      <4>3. CASE \E s \in Slots : Reset(j, g, s)
        BY <1>0, <4>3 DEF Reset, Idle
      <4> QED
        BY <2>1, <4>1, <4>2, <4>3
    <3> QED
      BY <1>0, <1>2, <3>1
  <2>2. ASSUME NEW j \in Keys, Read(j) \/ ReadNothing(j) \/ Claim(j) \/ Apply(j) \/ Mark(j)
        PROVE  FALSE
    <3>1. /\ req'[j].pc \in {"lookup", "idle", "apply", "mark"}
          /\ \A i \in Keys \ {j} : req'[i] = req[i]
      <4>1. CASE Read(j)
        BY <1>0, <4>1 DEF Read, AnyReq
      <4>2. CASE Claim(j)
        BY <1>0, <4>2 DEF Claim, Claimed, Idle, AnyReq
      <4>3. CASE ReadNothing(j) \/ Apply(j) \/ Mark(j)
        BY <1>0, <4>3 DEF ReadNothing, Apply, Mark, Idle, AnyReq
      <4> QED
        BY <2>2, <4>1, <4>2, <4>3
    <3> QED
      BY <1>0, <1>2, <3>1
  <2>3. ASSUME NEW j \in Keys, Lookup(j) PROVE mem'[req'[k].group].exists
    <3>1. j = k
      BY <1>0, <1>2, <2>3 DEF Lookup
    <3>2. CASE req[k].group \in Known
      BY <1>0, <2>3, <3>1, <3>2 DEF Lookup, Known, AnyReq
    <3>3. CASE req[k].group \notin Known
      BY <1>0, <2>3, <3>1, <3>3 DEF Lookup, Idle, AnyReq
    <3> QED
      BY <3>2, <3>3
  <2>4. ASSUME NEW j \in Keys, Insert(j) PROVE mem'[req'[k].group].exists
    <3>1. j = k
      BY <1>0, <1>2, <2>4 DEF Insert
    <3> QED
      BY <1>0, <2>4, <3>1 DEF Insert, AnyReq, Entry
  <2> QED
    BY <2>1, <2>2, <2>3, <2>4 DEF HandlerSteps, Handler
<1> QED
  BY <1>1, <1>2

\* The steps of handlers keep the flusher's copies and the files followed.
LEMMA FollowedHandler ==
    ASSUME StoreTypes, OwnersExist, Followed, HandlerSteps
    PROVE  OwnersExist' /\ Followed'
<1>1. UNCHANGED <<disk, flush>>
  BY Zenon DEF HandlerSteps, Join, Consume, Reset, Handler, Read, ReadNothing, Lookup,
         Insert, Claim, Apply, Mark
<1>2. OwnersExist'
  BY <1>1, HandlerAnnounces, ClaimsExist DEF OwnersExist
<1>3. ASSUME NEW g \in Groups
      PROVE  /\ g \in flush.left => flush.copy[g] = mem'[g] \/ Announced(g)'
             /\ g \notin flush.left => mem'[g] = disk[g] \/ g \in flush.todo \/ Announced(g)'
  BY HandlerAnnounces DEF Followed
<1> QED
  BY <1>1, <1>2, <1>3 DEF Followed

\* The steps of a flush do so.
LEMMA FollowedFlusher ==
    ASSUME Groups # {}, StoreTypes, OwnersExist, Followed, Flusher
    PROVE  OwnersExist' /\ Followed'
<1>0. /\ disk \in [Groups -> Entry] /\ flush \in AnyFlush /\ flush.copy \in [Groups -> Entry]
      /\ flush.left \subseteq Groups /\ flush.todo \subseteq Groups /\ dirty \subseteq Groups
      /\ Fresh(Unknown)
  BY DEF StoreTypes, AnyFlush, Fresh, Unknown
<1>1. UNCHANGED <<mem, req>>
  BY Zenon DEF Flusher, FlushStart, FlushCopy, FlushWrite, FlushFails
\* A group that stays dirty stays announced
<1>2. \A g \in Groups : Announced(g) /\ (g \in dirty => g \in dirty') => Announced(g)'
  BY <1>1 DEF Announced
\* A flush that is over
<1>3. ASSUME NEW pc \in {"done", "failed"}, flush' = [Sleep EXCEPT !.pc = pc]
      PROVE  /\ flush'.todo = {} /\ flush'.left = {} /\ flush'.taken = {}
             /\ \A g \in Groups : flush'.copy[g] = Unknown
  BY <1>3 DEF Sleep
<1>4. ASSUME flush' = Sleep
      PROVE  /\ flush'.todo = {} /\ flush'.left = {} /\ flush'.taken = {}
             /\ \A g \in Groups : flush'.copy[g] = Unknown
  BY <1>4 DEF Sleep
<1>5. CASE FlushStart
  <2>1. flush.left = {} /\ flush.todo = {} /\ disk' = disk /\ dirty' = {}
    BY <1>5, Values DEF FlushStart
  <2>2. CASE dirty = {}
    <3>1. flush' = [Sleep EXCEPT !.pc = "done"]
      BY <1>5, <2>2 DEF FlushStart
    <3> QED
      BY <1>0, <1>1, <1>2, <1>3, <2>1, <2>2, <3>1 DEF OwnersExist, Followed
  <2>3. CASE dirty # {}
    <3>1. /\ flush'.todo = dirty /\ flush'.left = {} /\ flush'.taken = dirty
          /\ flush'.pc = "copy" /\ \A g \in Groups : flush'.copy[g] = Unknown
      BY <1>5, <2>3 DEF FlushStart, Sleep
    <3>2. OwnersExist'
      BY <1>0, <1>1, <2>1, <3>1 DEF OwnersExist
    <3>3. ASSUME NEW g \in Groups PROVE mem[g] = disk[g] \/ g \in dirty \/ Announced(g)'
      BY <1>2, <2>1 DEF Followed, Announced
    <3> QED
      BY <1>1, <2>1, <3>1, <3>2, <3>3 DEF Followed
  <2> QED
    BY <2>2, <2>3
<1>6. ASSUME NEW g \in Groups, FlushCopy(g) PROVE OwnersExist' /\ Followed'
  <2>1. /\ flush'.todo = flush.todo \ {g} /\ flush'.left = flush.left \cup {g}
        /\ flush'.taken = flush.taken
        /\ flush'.copy = [flush.copy EXCEPT ![g] = mem[g]]
        /\ flush.pc = "copy" /\ g \in flush.todo
        /\ flush'.pc = IF flush.todo = {g} THEN "write" ELSE "copy"
    BY <1>0, <1>6 DEF FlushCopy, AnyFlush
  <2>2. disk' = disk /\ dirty' = dirty
    BY <1>6 DEF FlushCopy
  <2>3. flush'.copy[g] = mem[g] /\ \A h \in Groups \ {g} : flush'.copy[h] = flush.copy[h]
    BY <1>0, <2>1
  <2>4. OwnersExist'
    BY <1>1, <2>2, <2>3 DEF OwnersExist
  <2>5. /\ flush'.todo \subseteq flush'.taken /\ flush'.left \subseteq flush'.taken
        /\ flush'.pc # "copy" => flush'.todo = {}
        /\ flush'.pc \in {"copy", "write"}
    BY <2>1 DEF Followed
  <2>6. ASSUME NEW h \in Groups
        PROVE  /\ h \in flush'.left => flush'.copy[h] = mem[h] \/ Announced(h)'
               /\ h \notin flush'.left => mem[h] = disk[h] \/ h \in flush'.todo \/ Announced(h)'
    BY <1>2, <2>1, <2>2, <2>3 DEF Followed
  <2> QED
    BY <1>1, <2>2, <2>4, <2>5, <2>6 DEF Followed
<1>7. ASSUME NEW g \in Groups, FlushWrite(g) PROVE OwnersExist' /\ Followed'
  <2>1. /\ disk' = [disk EXCEPT ![g] = flush.copy[g]] /\ dirty' = dirty
        /\ g \in flush.left /\ flush.pc = "write" /\ flush.todo = {}
    BY <1>7 DEF FlushWrite, Followed
  <2>2. disk'[g] = flush.copy[g] /\ \A h \in Groups \ {g} : disk'[h] = disk[h]
    BY <1>0, <2>1
  <2>3. ASSUME NEW h \in Groups, h \notin flush.left \/ h = g
        PROVE  mem[h] = disk'[h] \/ Announced(h)'
    BY <1>2, <2>1, <2>2, <2>3 DEF Followed
  <2>4. CASE flush.left = {g}
    <3>1. flush' = FlushDone
      BY <1>7, <2>4 DEF FlushWrite
    <3>2. /\ flush'.todo = {} /\ flush'.left = {} /\ flush'.taken = {}
          /\ \A h \in Groups : flush'.copy[h] = Unknown
      BY <1>3, <1>4, <3>1 DEF FlushDone
    <3>3. OwnersExist'
      BY <1>0, <1>1, <2>2, <3>2 DEF OwnersExist
    <3> QED
      BY <1>1, <2>3, <2>4, <3>2, <3>3 DEF Followed
  <2>5. CASE flush.left # {g}
    <3>1. /\ flush'.todo = {} /\ flush'.left = flush.left \ {g} /\ flush'.taken = flush.taken
          /\ flush'.pc = "write" /\ flush'.copy = [flush.copy EXCEPT ![g] = Unknown]
      BY <1>0, <1>7, <2>1, <2>5 DEF FlushWrite, AnyFlush
    <3>2. flush'.copy[g] = Unknown /\ \A h \in Groups \ {g} : flush'.copy[h] = flush.copy[h]
      BY <1>0, <3>1
    <3>3. OwnersExist'
      BY <1>0, <1>1, <2>2, <3>2 DEF OwnersExist
    <3>4. ASSUME NEW h \in Groups, h \in flush'.left
          PROVE  flush'.copy[h] = mem[h] \/ Announced(h)'
      BY <1>2, <2>1, <3>1, <3>2, <3>4 DEF Followed
    <3>5. flush'.left \subseteq flush'.taken
      BY <3>1 DEF Followed
    <3> QED
      BY <1>1, <2>3, <3>1, <3>3, <3>4, <3>5 DEF Followed
  <2> QED
    BY <2>4, <2>5
<1>8. ASSUME NEW g \in Groups, FlushFails(g) PROVE OwnersExist' /\ Followed'
  <2>1. /\ disk' \in {disk, [disk EXCEPT ![g] = flush.copy[g]]}
        /\ dirty' = dirty \cup flush.taken
        /\ g \in flush.left /\ flush.pc = "write" /\ flush.todo = {}
    BY <1>8 DEF FlushFails, Followed
  <2>2. disk'[g] \in {disk[g], flush.copy[g]} /\ \A h \in Groups \ {g} : disk'[h] = disk[h]
    BY <1>0, <2>1
  <2>3. /\ flush'.todo = {} /\ flush'.left = {} /\ flush'.taken = {}
        /\ \A h \in Groups : flush'.copy[h] = Unknown
    <3>1. flush' = Sleep \/ flush' = [Sleep EXCEPT !.pc = "failed"]
      BY <1>8 DEF FlushFails
    <3> QED
      BY <1>3, <1>4, <3>1
  <2>4. OwnersExist'
    BY <1>0, <1>1, <2>2, <2>3 DEF OwnersExist
  <2>5. ASSUME NEW h \in Groups PROVE mem[h] = disk'[h] \/ Announced(h)'
    <3>1. CASE h \in flush.taken
      BY <2>1, <3>1 DEF Announced
    <3>2. CASE h \notin flush.taken
      BY <1>2, <2>1, <2>2, <3>2 DEF Followed
    <3> QED
      BY <3>1, <3>2
  <2> QED
    BY <1>1, <2>3, <2>4, <2>5 DEF Followed
<1> QED
  BY <1>5, <1>6, <1>7, <1>8 DEF Flusher

\* An empty store has nothing to follow.
LEMMA FollowedInit ==
    ASSUME Groups # {}, Init
    PROVE  OwnersExist /\ Followed
<1>1. /\ mem = disk /\ \A k \in Keys : req[k].pc = "idle"
      /\ flush.todo = {} /\ flush.left = {} /\ flush.taken = {}
      /\ \A g \in Groups : flush.copy[g] = Unknown
  BY Values DEF Init
<1>2. Fresh(Unknown) /\ \A s \in Slots : Fresh(Legacy(s))
  BY DEF Fresh, Unknown, Legacy, Unowned
<1>3. ASSUME NEW g \in Groups PROVE Fresh(disk[g])
  <2>1. CASE disk = NoFiles
    BY <1>2, <2>1 DEF NoFiles
  <2>2. ASSUME NEW s \in Slots, disk = [NoFiles EXCEPT ![NoGroup] = Legacy(s)]
        PROVE  Fresh(disk[g])
    BY <1>2, <2>2 DEF NoFiles
  <2> QED
    BY <2>1, <2>2 DEF Init
<1> QED
  BY <1>1, <1>2, <1>3 DEF OwnersExist, Followed

\* Every step keeps them followed.
LEMMA FollowedStep ==
    ASSUME Groups # {}, StoreTypes, OwnersExist, Followed, [Next]_vars
    PROVE  OwnersExist' /\ Followed'
<1>1. CASE HandlerSteps
  BY <1>1, FollowedHandler
<1>2. CASE Flusher
  BY <1>2, FollowedFlusher
<1>3. CASE Shutdown \/ Stop \/ UNCHANGED vars \/ \E s \in Slots : Produce(s) \/ Recreate(s)
  <2>1. UNCHANGED <<mem, disk, dirty, req, flush>>
    BY <1>3 DEF Shutdown, Stop, vars, Produce, Recreate
  <2> QED
    BY <2>1 DEF OwnersExist, Followed, Announced
<1>4. CASE Restart \/ Crash
  <2>1. /\ mem' = disk /\ disk' = disk /\ \A k \in Keys : req'[k].pc = "idle"
        /\ flush'.todo = {} /\ flush'.left = {} /\ flush'.taken = {}
        /\ \A g \in Groups : flush'.copy[g] = Unknown
    BY <1>4, Values DEF Restart, Crash, Open
  <2>2. Fresh(Unknown)
    BY DEF Fresh, Unknown
  <2> QED
    BY <2>1, <2>2 DEF OwnersExist, Followed
<1> QED
  BY <1>1, <1>2, <1>3, <1>4 DEF Next, HandlerSteps

\* No change of a group is forgotten, for any number of groups and requests and any
\* order of commits, claims, flushes, failing writes, stops and crashes: a group whose
\* file differs from memory is dirty, about to be marked, or held by the flush that is
\* under way.  groups.rs, mark_dirty and flush.
THEOREM ChangesReachTheDisk ==
    ASSUME Groups # {}
    PROVE  Spec => []NothingForgotten
<1>1. Init => StoreTypes /\ OwnersExist /\ Followed
  BY TypesInit, FollowedInit
<1>2. StoreTypes /\ OwnersExist /\ Followed /\ [Next]_vars => (StoreTypes /\ OwnersExist /\ Followed)'
  BY TypesStep, FollowedStep
<1>3. StoreTypes /\ OwnersExist /\ Followed => NothingForgotten
  BY DEF Followed, NothingForgotten, Pending, Announced
<1> QED
  BY <1>1, <1>2, <1>3, PTL DEF Spec

-----------------------------------------------------------------------------
(* At least once *)

\* Everything before offset o is among the records p.
Behind(p, o) == \A i \in 0..(o - 1) : i \in p

\* What it is for an offset to have nothing unprocessed before it.
LEMMA BehindFacts ==
    /\ \A p : Behind(p, 0) /\ Behind(p, None)
    /\ \A p, q : \A o \in Int : p \subseteq q /\ Behind(p, o) => Behind(q, o)
    /\ \A p : \A from, next \in Int :
         Behind(p, from) => Behind(p \cup from..(next - 1), next)
BY DEF Behind, None

\* A request that carries an offset.
Carrying == {"read", "lookup", "insert", "claim", "apply"}

\* Not only what memory holds is behind what was processed, but what the files, the
\* flusher's copies and the requests hold, any of which may become what memory holds.
Backed ==
    /\ processed \in [Groups -> [Slots -> SUBSET Int]]
    /\ \A g \in Groups, s \in Slots \ recreated :
         /\ Behind(processed[g][s], mem[g].offsets[s])
         /\ Behind(processed[g][s], disk[g].offsets[s])
         /\ Behind(processed[g][s], flush.copy[g].offsets[s])
    /\ \A k \in Keys :
         req[k].pc \in Carrying /\ req[k].slot \in Slots \ recreated =>
           Behind(processed[req[k].group][req[k].slot], req[k].offset)

\* Only the deletion of a topic takes a record back.
LEMMA ProcessedGrows ==
    ASSUME StoreTypes, Backed, [Next]_vars
    PROVE  /\ processed' \in [Groups -> [Slots -> SUBSET Int]]
           /\ recreated \subseteq recreated'
           /\ \A g \in Groups, s \in Slots \ recreated' : processed[g][s] \subseteq processed'[g][s]
<1>0. processed \in [Groups -> [Slots -> SUBSET Int]]
  BY DEF Backed
<1>1. ASSUME NEW k \in Keys, Read(k)
      PROVE  /\ processed' \in [Groups -> [Slots -> SUBSET Int]] /\ recreated' = recreated
             /\ \A g \in Groups, s \in Slots : processed[g][s] \subseteq processed'[g][s]
  <2> DEFINE h == req[k].group
             t == req[k].slot
             from == req[k].offset
  <2>1. h \in Groups /\ t \in Slots /\ from \in Int /\ end[t] \in Int /\ recreated' = recreated
    BY <1>1 DEF Read, StoreTypes, AnyReq
  <2>2. PICK next \in (from + 1)..end[t] :
          processed' = [processed EXCEPT ![h] =
                          [processed[h] EXCEPT ![t] = processed[h][t] \cup from..(next - 1)]]
    BY Zenon, <1>1 DEF Read
  <2>3. from..(next - 1) \subseteq Int
    OBVIOUS
  <2> HIDE DEF h, t, from
  <2>4. processed[h][t] \cup from..(next - 1) \in SUBSET Int
    BY <1>0, <2>1, <2>3
  <2>5. [processed[h] EXCEPT ![t] = processed[h][t] \cup from..(next - 1)]
          \in [Slots -> SUBSET Int]
    BY <1>0, <2>1, <2>4
  <2> QED
    BY <1>0, <2>1, <2>2, <2>5
<1>2. ASSUME NEW s \in Slots, Recreate(s)
      PROVE  /\ processed' \in [Groups -> [Slots -> SUBSET Int]] /\ recreated' = recreated \cup {s}
             /\ \A g \in Groups, t \in Slots \ {s} : processed[g][t] = processed'[g][t]
  <2>1. processed' = [g \in Groups |-> [processed[g] EXCEPT ![s] = {}]]
    BY <1>2 DEF Recreate
  <2>2. \A g \in Groups : [processed[g] EXCEPT ![s] = {}] \in [Slots -> SUBSET Int]
    BY <1>0
  <2> QED
    BY <1>0, <1>2, <2>1, <2>2 DEF Recreate
<1>3. \/ UNCHANGED <<processed, recreated>>
      \/ \E k \in Keys : Read(k)
      \/ \E s \in Slots : Recreate(s)
  BY ZenonT(30) DEF Next, Join, Consume, Reset, Handler, ReadNothing, Lookup, Insert, Claim,
         Apply, Mark, Flusher, FlushStart, FlushCopy, FlushWrite, FlushFails, Produce,
         Shutdown, Stop, Restart, Crash, vars
<1> QED
  BY <1>0, <1>1, <1>2, <1>3

\* A handler leaves an offset, resets it, or stores the one its request carries.
LEMMA OffsetsStep ==
    ASSUME StoreTypes, HandlerSteps, NEW h \in Groups, NEW t \in Slots
    PROVE  \/ mem'[h].offsets[t] \in {mem[h].offsets[t], 0}
           \/ \E k \in Keys : /\ req[k].pc = "apply" /\ req[k].group = h /\ req[k].slot = t
                              /\ mem'[h].offsets[t] = req[k].offset
<1> DEFINE Goal == \/ mem'[h].offsets[t] \in {mem[h].offsets[t], 0}
                   \/ \E k \in Keys : /\ req[k].pc = "apply" /\ req[k].group = h
                                      /\ req[k].slot = t
                                      /\ mem'[h].offsets[t] = req[k].offset
<1>0. /\ mem \in [Groups -> Entry]
      /\ \A k \in Keys : req[k].group \in Groups
      /\ \A k \in Keys : req[k].pc = "apply" => req[k].slot \in Slots
  BY DEF StoreTypes, AnyReq
<1>1. ASSUME NEW k \in Keys, NEW g \in Groups, NEW s \in Slots, Reset(k, g, s) PROVE Goal
  <2>1. mem' = [mem EXCEPT ![g] = [mem[g] EXCEPT !.offsets[s] = 0, !.changes = @ + 1]]
    BY <1>0, <1>1 DEF Reset, Entry
  <2>2. mem'[h].offsets[t] \in {mem[h].offsets[t], 0}
    BY <1>0, <2>1 DEF Entry
  <2> QED
    BY <2>2
<1>2. ASSUME NEW k \in Keys, Apply(k) PROVE Goal
  <2>1. CASE mem' = mem
    BY <2>1
  <2>2. CASE mem' # mem
    <3> DEFINE g == req[k].group
               s == req[k].slot
    <3>1. mem' = [mem EXCEPT ![g] = [mem[g] EXCEPT !.offsets[s] = req[k].offset,
                                                   !.changes = @ + 1]]
          /\ g \in Groups /\ s \in Slots /\ req[k].pc = "apply"
      BY <1>0, <1>2, <2>2 DEF Apply, Entry
    <3>2. mem'[h].offsets[t] = IF h = g /\ t = s THEN req[k].offset ELSE mem[h].offsets[t]
      BY <1>0, <3>1 DEF Entry
    <3> QED
      BY <3>1, <3>2
  <2> QED
    BY <2>1, <2>2
<1>3. ASSUME NEW k \in Keys, Insert(k) \/ Claim(k) PROVE mem'[h].offsets = mem[h].offsets
  <2>1. CASE Insert(k)
    BY <1>0, <2>1 DEF Insert, Entry
  <2>2. CASE Claim(k)
    BY <1>0, <2>2 DEF Claim, Entry
  <2> QED
    BY <1>3, <2>1, <2>2
<1>4. ASSUME NEW k \in Keys,
             \/ Read(k) \/ ReadNothing(k) \/ Lookup(k) \/ Mark(k)
             \/ \E g \in Groups : Join(k, g) \/ \E s \in Slots : Consume(k, g, s)
      PROVE  mem' = mem
  BY <1>4, ZenonT(30) DEF Read, ReadNothing, Lookup, Mark, Join, Consume
<1> QED
  BY <1>1, <1>2, <1>3, <1>4 DEF HandlerSteps, Handler

\* A request carries on what it carried, starts from nothing or from what is committed,
\* or reads.
LEMMA CarriedStep ==
    ASSUME StoreTypes, HandlerSteps, NEW k \in Keys, req'[k].pc \in Carrying
    PROVE  \/ /\ req[k].pc \in Carrying /\ req'[k].group = req[k].group
              /\ req'[k].slot = req[k].slot /\ req'[k].offset = req[k].offset
           \/ req'[k].offset = 0
           \/ /\ req'[k].group \in Groups /\ req'[k].slot \in Slots
              /\ req'[k].offset = mem[req'[k].group].offsets[req'[k].slot]
           \/ Read(k)
<1> DEFINE Same == /\ req[k].pc \in Carrying /\ req'[k].group = req[k].group
                   /\ req'[k].slot = req[k].slot /\ req'[k].offset = req[k].offset
<1>0. req \in [Keys -> AnyReq]
  BY DEF StoreTypes
<1>1. ASSUME NEW j \in Keys, NEW g \in Groups, Join(j, g) PROVE Same \/ req'[k].offset = 0
  BY <1>0, <1>1 DEF Join, Idle
<1>2. ASSUME NEW j \in Keys, NEW g \in Groups, NEW s \in Slots, Consume(j, g, s)
      PROVE  \/ Same \/ req'[k].offset = 0
             \/ /\ req'[k].group \in Groups /\ req'[k].slot \in Slots
                /\ req'[k].offset = mem[req'[k].group].offsets[req'[k].slot]
  <2>1. CASE j = k
    BY <1>0, <1>2, <2>1 DEF Consume, From
  <2>2. CASE j # k
    BY <1>0, <1>2, <2>2 DEF Consume
  <2> QED
    BY <2>1, <2>2
<1>3. ASSUME NEW j \in Keys, NEW g \in Groups, NEW s \in Slots, Reset(j, g, s) PROVE Same
  <2>1. req'[j].pc = "mark" /\ \A i \in Keys \ {j} : req'[i] = req[i]
    BY <1>0, <1>3 DEF Reset, Idle
  <2> QED
    BY <2>1 DEF Carrying
<1>4. ASSUME NEW j \in Keys, Read(j) PROVE Same \/ Read(k)
  BY <1>0, <1>4, Zenon DEF Read
<1>5. ASSUME NEW j \in Keys, req' = [req EXCEPT ![j] = Idle] PROVE Same
  BY <1>0, <1>5 DEF Idle, Carrying
<1>6. ASSUME NEW j \in Keys, NEW pc, req' = [req EXCEPT ![j] = [req[j] EXCEPT !.pc = pc]],
             req[j].pc \in Carrying
      PROVE  Same
  <2>1. /\ req'[j].group = req[j].group /\ req'[j].slot = req[j].slot
        /\ req'[j].offset = req[j].offset /\ \A i \in Keys \ {j} : req'[i] = req[i]
    BY <1>0, <1>6 DEF AnyReq
  <2> QED
    BY <1>6, <2>1
<1> HIDE DEF Same
<1>7. ASSUME NEW j \in Keys, ReadNothing(j) \/ Mark(j) PROVE Same
  BY <1>5, <1>7 DEF ReadNothing, Mark
<1>8. ASSUME NEW j \in Keys, Lookup(j) PROVE Same
  <2>1. req[j].pc \in Carrying
    BY <1>8 DEF Lookup, Carrying
  <2>2. CASE req[j].group \in Known
    BY Zenon, <1>6, <1>8, <2>1, <2>2 DEF Lookup
  <2>3. CASE req[j].group \notin Known /\ Cardinality(Known) >= MaxGroups
    BY Zenon, <1>5, <1>8, <2>3 DEF Lookup
  <2>4. CASE req[j].group \notin Known /\ ~(Cardinality(Known) >= MaxGroups)
    BY <1>6, <1>8, <2>1, <2>4, Zenon DEF Lookup
  <2> QED
    BY <2>2, <2>3, <2>4
<1>9. ASSUME NEW j \in Keys, Insert(j) \/ Apply(j) PROVE Same
  <2>1. req[j].pc \in Carrying
    BY <1>9 DEF Insert, Apply, Carrying
  <2>2. CASE Insert(j)
    BY Zenon, <1>6, <2>1, <2>2 DEF Insert
  <2>3. CASE Apply(j)
    BY <1>5, <1>6, <2>1, <2>3 DEF Apply
  <2> QED
    BY SMTT(30), <1>9, <2>2, <2>3
<1>10. ASSUME NEW j \in Keys, Claim(j) PROVE Same
  <2>1. req[j].pc \in Carrying
    BY <1>10 DEF Claim, Carrying
  <2>2. req' = Claimed(j) \/ req' = [req EXCEPT ![j] = Idle]
    BY <1>10 DEF Claim
  <2>3. CASE req' = Claimed(j) /\ req[j].slot # NoSlot
    BY Zenon, <1>6, <2>1, <2>3 DEF Claimed
  <2>4. CASE req' = Claimed(j) /\ req[j].slot = NoSlot
    BY Zenon, <1>5, <2>4 DEF Claimed
  <2> QED
    BY <1>5, <2>2, <2>3, <2>4
<1> QED
  BY <1>1, <1>2, <1>3, <1>4, <1>7, <1>8, <1>9, <1>10 DEF HandlerSteps, Handler, Same

\* The steps of handlers keep every offset backed.
LEMMA BackedHandler ==
    ASSUME Groups # {}, StoreTypes, Backed, HandlerSteps, StoreTypes'
    PROVE  Backed'
<1>1. /\ processed' \in [Groups -> [Slots -> SUBSET Int]]
      /\ \A g \in Groups, s \in Slots \ recreated : processed[g][s] \subseteq processed'[g][s]
      /\ UNCHANGED <<disk, flush, recreated>>
  <2>1. UNCHANGED <<disk, flush, recreated>>
    BY ZenonT(30) DEF HandlerSteps, Join, Consume, Reset, Handler, Read, ReadNothing, Lookup, Insert,
           Claim, Apply, Mark
  <2>2. Next
    BY DEF Next, HandlerSteps
  <2> QED
    BY <2>1, <2>2, ProcessedGrows
<1>2. /\ \A g \in Groups, s \in Slots : /\ mem[g].offsets[s] \in Int
                                        /\ disk[g].offsets[s] \in Int
                                        /\ flush.copy[g].offsets[s] \in Int
      /\ \A k \in Keys : req[k].group \in Groups /\ req[k].offset \in Int
      /\ \A k \in Keys : req'[k].group \in Groups /\ req'[k].offset \in Int
  BY DEF StoreTypes, AnyFlush, AnyReq, Entry
<1>3. ASSUME NEW g \in Groups, NEW s \in Slots \ recreated
      PROVE  /\ Behind(processed'[g][s], mem'[g].offsets[s])
             /\ Behind(processed'[g][s], disk[g].offsets[s])
             /\ Behind(processed'[g][s], flush.copy[g].offsets[s])
  <2>1. \A o \in Int : Behind(processed[g][s], o) => Behind(processed'[g][s], o)
    BY <1>1, BehindFacts
  <2>2. /\ Behind(processed[g][s], mem[g].offsets[s])
        /\ Behind(processed[g][s], disk[g].offsets[s])
        /\ Behind(processed[g][s], flush.copy[g].offsets[s])
    BY DEF Backed
  <2>3. Behind(processed'[g][s], mem'[g].offsets[s])
    <3>1. CASE mem'[g].offsets[s] \in {mem[g].offsets[s], 0}
      BY <1>2, <2>1, <2>2, <3>1, BehindFacts
    <3>2. ASSUME NEW k \in Keys, req[k].pc = "apply", req[k].group = g, req[k].slot = s,
                 mem'[g].offsets[s] = req[k].offset
          PROVE  Behind(processed'[g][s], mem'[g].offsets[s])
      <4>1. Behind(processed[g][s], req[k].offset)
        BY SMTT(30), <3>2 DEF Backed, Carrying
      <4> QED
        BY <1>2, <2>1, <3>2, <4>1
    <3> QED
      BY <3>1, <3>2, OffsetsStep
  <2> QED
    BY <1>2, <2>1, <2>2, <2>3
<1>4. ASSUME NEW k \in Keys, req'[k].pc \in Carrying, req'[k].slot \in Slots \ recreated
      PROVE  Behind(processed'[req'[k].group][req'[k].slot], req'[k].offset)
  <2> DEFINE g == req'[k].group
             s == req'[k].slot
  <2>0. g \in Groups /\ s \in Slots \ recreated
    BY <1>2, <1>4
  <2>1. \A o \in Int : Behind(processed[g][s], o) => Behind(processed'[g][s], o)
    BY <1>1, <2>0, BehindFacts
  <2>2. CASE /\ req[k].pc \in Carrying /\ g = req[k].group
             /\ s = req[k].slot /\ req'[k].offset = req[k].offset
    <3>1. Behind(processed[g][s], req[k].offset)
      BY <2>0, <2>2 DEF Backed
    <3> QED
      BY <1>2, <2>1, <2>2, <3>1
  <2>3. CASE req'[k].offset = 0
    BY SMTT(30), <2>3, BehindFacts
  <2>4. CASE req'[k].offset = mem[g].offsets[s]
    <3>1. Behind(processed[g][s], mem[g].offsets[s])
      BY <2>0 DEF Backed
    <3> QED
      BY <1>2, <2>0, <2>1, <2>4, <3>1
  <2>5. CASE Read(k)
    <3> DEFINE from == req[k].offset
    <3>1. req[k].pc = "read" /\ req \in [Keys -> AnyReq]
      BY <2>5 DEF Read, StoreTypes
    <3>2. PICK next \in (from + 1)..end[req[k].slot] :
            /\ processed' = [processed EXCEPT ![req[k].group] =
                 [processed[req[k].group] EXCEPT ![req[k].slot] =
                    processed[req[k].group][req[k].slot] \cup from..(next - 1)]]
            /\ req' = [req EXCEPT ![k] = [req[k] EXCEPT !.pc = "lookup", !.offset = next]]
      BY <2>5, Zenon DEF Read
    <3>3. g = req[k].group /\ s = req[k].slot /\ req'[k].offset = next
      BY <3>1, <3>2 DEF AnyReq
    <3>4. processed'[g][s] = processed[g][s] \cup from..(next - 1)
      BY <2>0, <3>2, <3>3 DEF Backed
    <3>5. Behind(processed[g][s], from)
      BY <2>0, <3>1, <3>3 DEF Backed, Carrying
    <3>6. from \in Int /\ next \in Int
      BY <1>2, <3>3
    <3> QED
      BY <3>3, <3>4, <3>5, <3>6, BehindFacts
  <2> QED
    BY <1>4, <2>2, <2>3, <2>4, <2>5, CarriedStep
<1> QED
  BY <1>1, <1>3, <1>4 DEF Backed

\* A copy is what memory held, and a file is what a copy held.
LEMMA FlusherCopies ==
    ASSUME Groups # {}, StoreTypes, Flusher, NEW h \in Groups
    PROVE  /\ disk'[h] \in {disk[h], flush.copy[h]}
           /\ flush'.copy[h] \in {flush.copy[h], mem[h], Unknown}
<1>0. /\ disk \in [Groups -> Entry] /\ flush \in AnyFlush /\ flush.copy \in [Groups -> Entry]
  BY DEF StoreTypes, AnyFlush
<1>1. ASSUME NEW pc \in {"done", "failed"}, flush' = [Sleep EXCEPT !.pc = pc]
      PROVE  flush'.copy[h] = Unknown
  BY <1>1 DEF Sleep
<1>2. ASSUME flush' = Sleep PROVE flush'.copy[h] = Unknown
  BY <1>2, Values
<1>3. CASE FlushStart
  <2>1. flush'.copy[h] = Unknown
    <3>1. CASE dirty = {}
      BY <1>1, <1>3, <3>1 DEF FlushStart
    <3>2. CASE dirty # {}
      BY <1>3, <3>2 DEF FlushStart, Sleep
    <3> QED
      BY <3>1, <3>2
  <2> QED
    BY <1>3, <2>1 DEF FlushStart
<1>4. ASSUME NEW g \in Groups, FlushCopy(g)
      PROVE  disk' = disk /\ flush'.copy[h] \in {flush.copy[h], mem[h]}
  <2>1. flush'.copy = [flush.copy EXCEPT ![g] = mem[g]]
    BY <1>0, <1>4 DEF FlushCopy, AnyFlush
  <2> QED
    BY <1>0, <1>4, <2>1 DEF FlushCopy
<1>5. ASSUME NEW g \in Groups, FlushWrite(g)
      PROVE  disk'[h] \in {disk[h], flush.copy[h]} /\ flush'.copy[h] \in {flush.copy[h], Unknown}
  <2>1. CASE flush.left = {g}
    BY <1>0, <1>1, <1>2, <1>5, <2>1 DEF FlushWrite, FlushDone
  <2>2. CASE flush.left # {g}
    <3>1. flush'.copy = [flush.copy EXCEPT ![g] = Unknown]
      BY <1>0, <1>5, <2>2 DEF FlushWrite, AnyFlush
    <3> QED
      BY <1>0, <1>5, <3>1 DEF FlushWrite
  <2> QED
    BY <2>1, <2>2
<1>6. ASSUME NEW g \in Groups, FlushFails(g)
      PROVE  disk'[h] \in {disk[h], flush.copy[h]} /\ flush'.copy[h] = Unknown
  BY <1>0, <1>1, <1>2, <1>6 DEF FlushFails
<1> QED
  BY <1>3, <1>4, <1>5, <1>6 DEF Flusher

\* Every step keeps every offset backed.
LEMMA BackedStep ==
    ASSUME Groups # {}, StoreTypes, Backed, [Next]_vars, StoreTypes'
    PROVE  Backed'
<1>0. \A p : \A s \in Slots : Behind(p, Unknown.offsets[s])
  BY BehindFacts DEF Unknown
<1>1. CASE HandlerSteps
  BY <1>1, BackedHandler
<1>2. CASE Flusher
  <2>1. UNCHANGED <<mem, req, processed, recreated>>
    BY <1>2, ZenonT(30) DEF Flusher, FlushStart, FlushCopy, FlushWrite, FlushFails
  <2>2. ASSUME NEW g \in Groups, NEW s \in Slots \ recreated
        PROVE  /\ Behind(processed[g][s], mem[g].offsets[s])
               /\ Behind(processed[g][s], disk'[g].offsets[s])
               /\ Behind(processed[g][s], flush'.copy[g].offsets[s])
    BY <1>0, <1>2, FlusherCopies, Zenon DEF Backed
  <2> QED
    BY <2>1, <2>2 DEF Backed
<1>3. CASE Shutdown \/ Stop \/ UNCHANGED vars \/ \E s \in Slots : Produce(s)
  <2>1. UNCHANGED <<mem, disk, req, flush, processed, recreated>>
    BY <1>3 DEF Shutdown, Stop, vars, Produce
  <2> QED
    BY <2>1 DEF Backed
<1>4. ASSUME NEW t \in Slots, Recreate(t) PROVE Backed'
  <2>1. UNCHANGED <<mem, disk, req, flush>> /\ recreated' = recreated \cup {t}
    BY <1>4 DEF Recreate
  <2>2. \A g \in Groups, s \in Slots \ recreated' : processed'[g][s] = processed[g][s]
    BY <1>4 DEF Recreate, Backed
  <2>3. processed' \in [Groups -> [Slots -> SUBSET Int]]
    BY ProcessedGrows
  <2>4. \A k \in Keys : req[k].group \in Groups
    BY DEF StoreTypes, AnyReq
  <2> QED
    BY <2>1, <2>2, <2>3, <2>4 DEF Backed
<1>5. CASE Restart \/ Crash
  <2>1. /\ mem' = disk /\ disk' = disk /\ UNCHANGED <<processed, recreated>>
        /\ \A k \in Keys : req'[k].pc = "idle"
        /\ \A g \in Groups : flush'.copy[g] = Unknown
    BY <1>5, Values DEF Restart, Crash, Open
  <2> QED
    BY Zenon, <1>0, <2>1 DEF Backed, Carrying
<1> QED
  BY <1>1, <1>2, <1>3, <1>4, <1>5 DEF Next, HandlerSteps

\* No offset is committed at first.
LEMMA BackedInit ==
    ASSUME Groups # {}, Init
    PROVE  Backed
<1>1. /\ mem = disk /\ recreated = {} /\ \A k \in Keys : req[k].pc = "idle"
      /\ \A g \in Groups : flush.copy[g] = Unknown
      /\ processed \in [Groups -> [Slots -> SUBSET Int]]
  BY Values DEF Init
<1>2. \A s \in Slots : Unknown.offsets[s] = None
  BY DEF Unknown
<1>3. ASSUME NEW g \in Groups, NEW s \in Slots PROVE disk[g].offsets[s] \in {None, 0}
  <2>1. CASE disk = NoFiles
    BY <1>2, <2>1 DEF NoFiles
  <2>2. ASSUME NEW t \in Slots, disk = [NoFiles EXCEPT ![NoGroup] = Legacy(t)]
        PROVE  disk[g].offsets[s] \in {None, 0}
    <3>1. Legacy(t).offsets[s] \in {None, 0}
      BY DEF Legacy, Unowned, Unknown
    <3> QED
      BY <1>2, <2>2, <3>1 DEF NoFiles
  <2> QED
    BY <2>1, <2>2 DEF Init
<1> QED
  BY <1>1, <1>2, <1>3, BehindFacts DEF Backed, Carrying

\* Every record before a committed offset was processed by a consumer of the group, for
\* any number of groups, keys, partitions and records, whatever commits arrive out of
\* order, whichever writes fail and wherever the broker crashes, as long as the topic is
\* not deleted and created again.  http/consume.rs, group_consume and commit.
THEOREM CommittedIsProcessed ==
    ASSUME Groups # {}
    PROVE  Spec => []AtLeastOnce
<1>1. Init => StoreTypes /\ Backed
  BY TypesInit, BackedInit
<1>2. StoreTypes /\ Backed /\ [Next]_vars => (StoreTypes /\ Backed)'
  BY TypesStep, BackedStep
<1>3. StoreTypes /\ Backed => AtLeastOnce
  BY DEF Backed, Behind, AtLeastOnce
<1> QED
  BY <1>1, <1>2, <1>3, PTL DEF Spec
=============================================================================
