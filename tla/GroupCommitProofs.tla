-------------------------- MODULE GroupCommitProofs --------------------------
(***************************************************************************)
(* For every number of producers, every flush_every_records and any number *)
(* of writes and rolls: a partition that is not replicated acknowledges    *)
(* only durable prefixes until an I/O failure fences it, and implements    *)
(* DurableLog when there is no such failure.  Sealed segments are durable  *)
(* on every partition.                                                     *)
(***************************************************************************)
EXTENDS GroupCommit, TLAPS

\* A mark names an existing write and the segment that write went to.
MarkOK(m) ==
    /\ m.seq \in 1..Len(writes)
    /\ writes[m.seq] = m.log

\* The appender mutex is held exactly by the thread inside its critical section.
AppenderMutex ==
    \A t \in Threads : pc[t] \in HoldsAppender <=> appender = t

\* Writes fill one segment after the other and never run ahead of the appender.
SegmentsInOrder ==
    /\ \A p, q \in 1..Len(writes) : p <= q => writes[p] <= writes[q]
    /\ \A q \in 1..Len(writes) : writes[q] <= active

\* The published mark is sound, and a batch about to be published is the last.
LatestOK ==
    /\ latest.seq # 0 => MarkOK(latest)
    /\ unsynced # 0 => latest.seq # 0
    /\ \A t \in Threads :
          /\ pc[t] = "publish" => /\ Len(writes) # 0
                                  /\ writes[Len(writes)] = active
          /\ pc[t] \in {"count", "batch", "decide", "mark", "sync"} => latest.seq # 0

\* What a thread inside sync_upto was asked for and decided to fsync.
RequestsOK ==
    \A t \in Threads :
       /\ pc[t] \in {"decide", "sync", "zero", "fsync"} => MarkOK(want[t])
       /\ pc[t] \in {"zero", "fsync"} => /\ MarkOK(goal[t])
                                         /\ goal[t].log = want[t].log

\* What the disk holds as long as nothing has failed.
DiskOK ==
    ~poisoned => /\ lost = {}
                 /\ torn = {}
                 /\ \A q \in 1..Len(writes) : writes[q] < active => q \in durable
                 /\ 1..synced \subseteq durable
                 /\ 1..acked \subseteq durable

NoFaultNoFence == ~WriteFaults /\ ~SyncFaults => ~poisoned

Inv ==
    /\ TypeOK
    /\ AppenderMutex
    /\ SegmentsInOrder
    /\ LatestOK
    /\ RequestsOK
    /\ DiskOK
    /\ NoFaultNoFence

-----------------------------------------------------------------------------
(* Type correctness *)

\* Numbering one more write.
LEMMA OneMore ==
    ASSUME NEW n \in Nat, NEW S \in SUBSET (1..n)
    PROVE  /\ S \subseteq 1..(n + 1)
           /\ S \cup {n + 1} \subseteq 1..(n + 1)
OBVIOUS

\* The initial state, as Partition::open leaves it, is well typed.
LEMMA TypeInit == Init => TypeOK
<1> USE DEF TypeOK, Threads, Marks, PCs
<1> SUFFICES ASSUME Init PROVE TypeOK
  BY Zenon
<1>1. writes \in Seq(Nat) /\ Len(writes) = 0
  BY DEF Init
<1>2. latest \in Marks
  BY DEF Init
<1>3. want \in [Threads -> Marks] /\ goal \in [Threads -> Marks]
  BY DEF Init
<1>4. pc \in [Threads -> PCs]
  BY DEF Init
<1> QED
  BY Zenon, <1>1, <1>2, <1>3, <1>4 DEF Init

\* Every step keeps the state well typed.
LEMMA TypeStep == TypeOK /\ [Next]_vars => TypeOK'
<1> USE DEF TypeOK, Threads, Marks, PCs
<1> SUFFICES ASSUME TypeOK, [Next]_vars PROVE TypeOK'
  BY Zenon
<1>1. ASSUME NEW t \in Threads, Step(t) PROVE TypeOK'
  <2> USE DEF Goto, appendVars, syncVars, diskVars, In, Larger, SeqArg, MustRoll
  <2>1. CASE BeginAppend(t)
    BY Zenon, <2>1 DEF BeginAppend
  <2>2. CASE LockAppender(t)
    BY <2>2 DEF LockAppender
  <2>3. CASE WriteBatch(t)
    <3>1. /\ writes' \in Seq(Nat)
          /\ Len(writes') = Len(writes) + 1
      BY <2>3 DEF WriteBatch
    <3>2. durable' \subseteq 1..Len(writes')
      BY <2>3, <3>1 DEF WriteBatch
    <3>3. lost' \subseteq 1..Len(writes')
      <4>1. Len(writes) \in Nat /\ lost \in SUBSET (1..Len(writes))
        BY SMTT(30)
      <4>2. /\ lost \subseteq 1..Len(writes')
            /\ lost \cup {Len(writes) + 1} \subseteq 1..Len(writes')
        BY Zenon, <3>1, <4>1, OneMore
      <4> QED
        BY Zenon, <2>3, <4>2 DEF WriteBatch
    <3>4. pc' \in [Threads -> PCs]
      BY <2>3 DEF WriteBatch
    <3> QED
      BY Zenon, <2>3, <3>1, <3>2, <3>3, <3>4 DEF WriteBatch
  <2>4. CASE PublishBatch(t)
    <3>1. latest' \in Marks
      BY <2>4 DEF PublishBatch
    <3>2. pc' \in [Threads -> PCs]
      BY <2>4 DEF PublishBatch
    <3> QED
      BY Zenon, <2>4, <3>1, <3>2 DEF PublishBatch
  <2>5. CASE CountBatch(t)
    <3>1. unsynced' \in Nat
      BY <2>5 DEF CountBatch
    <3>2. pc' \in [Threads -> PCs]
      BY <2>5 DEF CountBatch
    <3> QED
      BY Zenon, <2>5, <3>1, <3>2 DEF CountBatch
  <2>6. CASE WriteFails(t)
    BY Zenon, <2>6 DEF WriteFails
  <2>7. CASE Roll(t)
    <3>1. active' \in Nat
      BY <2>7 DEF Roll
    <3>2. durable' \subseteq 1..Len(writes')
      BY Zenon, <2>7 DEF Roll
    <3>3. pc' \in [Threads -> PCs]
      BY <2>7 DEF Roll
    <3> QED
      BY Zenon, <2>7, <3>1, <3>2, <3>3 DEF Roll
  <2>8. CASE RollFails(t)
    BY Zenon, <2>8 DEF RollFails
  <2>9. CASE EndBatch(t)
    BY Zenon, <2>9 DEF EndBatch
  <2>10. CASE Decide(t)
    BY Zenon, <2>10 DEF Decide
  <2>11. CASE SyncPending(t)
    BY Zenon, <2>11 DEF SyncPending
  <2>12. CASE CallSyncAll(t)
    BY Zenon, <2>12 DEF CallSyncAll
  <2>13. CASE SyncAll(t)
    BY Zenon, <2>13 DEF SyncAll
  <2>14. CASE SyncCovered(t)
    BY Zenon, <2>14 DEF SyncCovered
  <2>15. CASE LockSynced(t)
    BY SMTT(30), <2>15 DEF LockSynced
  <2>16. CASE ZeroUnsynced(t)
    BY Zenon, <2>16 DEF ZeroUnsynced
  <2>17. CASE Fsync(t)
    BY Zenon, <2>17 DEF Fsync
  <2>18. CASE FsyncFails(t)
    BY Zenon, <2>18 DEF FsyncFails
  <2> QED
    BY Zenon, <1>1, <2>1, <2>2, <2>3, <2>4, <2>5, <2>6, <2>7, <2>8, <2>9, <2>10, <2>11, <2>12, <2>13, <2>14, <2>15, <2>16, <2>17, <2>18 DEF Step
<1>2. CASE UNCHANGED vars
  BY Zenon, <1>2 DEF vars
<1> QED
  BY Zenon, <1>1, <1>2 DEF Next, Stop

\* Every state the append path and the group commit can reach is well typed.
THEOREM TypeCorrect == Spec => []TypeOK
  BY TypeInit, TypeStep, PTL DEF Spec

-----------------------------------------------------------------------------
(* The inductive invariant *)

\* An fsync of a mark's segment makes the whole prefix up to the mark durable:
\* earlier writes are in the same segment or in one that a roll has synced.
LEMMA PrefixHardened ==
    ASSUME TypeOK, SegmentsInOrder, DiskOK, ~poisoned, NEW m, MarkOK(m)
    PROVE  1..m.seq \subseteq durable \cup (In(m.log) \ lost)
<1> SUFFICES ASSUME NEW q \in 1..m.seq
             PROVE  q \in durable \cup In(m.log)
  BY DEF DiskOK
<1>1. q \in 1..Len(writes) /\ writes[q] <= m.log /\ m.log <= active
  BY DEF MarkOK, SegmentsInOrder, TypeOK
<1>2. CASE writes[q] = m.log
  BY <1>1, <1>2 DEF In
<1>3. CASE writes[q] # m.log
  <2>1. writes[q] \in Nat /\ active \in Nat /\ m.log \in Nat
    BY <1>1 DEF TypeOK, MarkOK
  <2> QED
    BY <1>1, <1>3, <2>1 DEF DiskOK
<1> QED
  BY <1>2, <1>3

\* Init establishes the invariant.
LEMMA InvInit == Init => Inv
<1> SUFFICES ASSUME Init PROVE Inv
  OBVIOUS
<1>1. NoThread \notin Threads
  BY GroupCommitAssumption DEF Threads
<1>2. AppenderMutex
  BY <1>1 DEF Init, AppenderMutex, HoldsAppender
<1>3. SegmentsInOrder /\ DiskOK
  BY DEF Init, SegmentsInOrder, DiskOK
<1>4. LatestOK /\ RequestsOK
  BY DEF Init, LatestOK, RequestsOK
<1> QED
  BY TypeInit, <1>2, <1>3, <1>4 DEF Init, Inv, NoFaultNoFence

\* Every step of a thread preserves it, on a partition that is not replicated.
LEMMA InvStep ==
    ASSUME ~Replicated, Inv, TypeOK', NEW t \in Threads, Step(t)
    PROVE  Inv'
<1> USE DEF Goto, appendVars, syncVars, diskVars
<1>0. NoThread \notin Threads
  BY GroupCommitAssumption DEF Threads
<1>1. CASE BeginAppend(t)
  <2> USE <1>1 DEF BeginAppend
  <2>1. AppenderMutex'
    BY DEF Inv, TypeOK, AppenderMutex, HoldsAppender
  <2>2. SegmentsInOrder'
    BY DEF Inv, TypeOK, SegmentsInOrder
  <2>3. LatestOK'
    BY DEF Inv, TypeOK, LatestOK, MarkOK
  <2>4. RequestsOK'
    BY DEF Inv, TypeOK, RequestsOK, MarkOK
  <2>5. DiskOK'
    BY DEF Inv, TypeOK, DiskOK
  <2>6. NoFaultNoFence'
    BY DEF Inv, TypeOK, NoFaultNoFence
  <2> QED
    BY <2>1, <2>2, <2>3, <2>4, <2>5, <2>6 DEF Inv
<1>2. CASE LockAppender(t)
  <2> USE <1>2 DEF LockAppender
  <2>1. AppenderMutex'
    BY <1>0 DEF Inv, TypeOK, AppenderMutex, HoldsAppender
  <2>2. SegmentsInOrder'
    BY DEF Inv, TypeOK, SegmentsInOrder
  <2>3. LatestOK'
    BY DEF Inv, TypeOK, LatestOK, MarkOK
  <2>4. RequestsOK'
    BY DEF Inv, TypeOK, RequestsOK, MarkOK
  <2>5. DiskOK'
    BY DEF Inv, TypeOK, DiskOK
  <2>6. NoFaultNoFence'
    BY DEF Inv, TypeOK, NoFaultNoFence
  <2> QED
    BY <2>1, <2>2, <2>3, <2>4, <2>5, <2>6 DEF Inv
<1>3. CASE WriteBatch(t)
  <2> USE <1>3 DEF WriteBatch
  <2>1. AppenderMutex'
    BY DEF Inv, TypeOK, AppenderMutex, HoldsAppender
  <2>2. SegmentsInOrder'
    BY SMTT(30) DEF Inv, TypeOK, SegmentsInOrder
  <2>3. LatestOK'
    BY DEF Inv, TypeOK, LatestOK, MarkOK
  <2>4. RequestsOK'
    BY DEF Inv, TypeOK, RequestsOK, MarkOK
  <2>5. DiskOK'
    BY DEF Inv, TypeOK, DiskOK
  <2>6. NoFaultNoFence'
    BY DEF Inv, TypeOK, NoFaultNoFence
  <2> QED
    BY <2>1, <2>2, <2>3, <2>4, <2>5, <2>6 DEF Inv
<1>4. CASE PublishBatch(t)
  <2> USE <1>4 DEF PublishBatch
  <2>1. AppenderMutex'
    BY DEF Inv, TypeOK, AppenderMutex, HoldsAppender
  <2>2. SegmentsInOrder'
    BY DEF Inv, TypeOK, SegmentsInOrder
  <2>3. LatestOK'
    BY DEF Inv, TypeOK, LatestOK, MarkOK
  <2>4. RequestsOK'
    BY DEF Inv, TypeOK, RequestsOK, MarkOK
  <2>5. DiskOK'
    BY DEF Inv, TypeOK, DiskOK
  <2>6. NoFaultNoFence'
    BY DEF Inv, TypeOK, NoFaultNoFence
  <2> QED
    BY <2>1, <2>2, <2>3, <2>4, <2>5, <2>6 DEF Inv
<1>5. CASE CountBatch(t)
  <2> USE <1>5 DEF CountBatch
  <2>1. AppenderMutex'
    BY DEF Inv, TypeOK, AppenderMutex, HoldsAppender
  <2>2. SegmentsInOrder'
    BY DEF Inv, TypeOK, SegmentsInOrder
  <2>3. LatestOK'
    BY DEF Inv, TypeOK, LatestOK, MarkOK
  <2>4. RequestsOK'
    BY DEF Inv, TypeOK, RequestsOK, MarkOK
  <2>5. DiskOK'
    BY DEF Inv, TypeOK, DiskOK
  <2>6. NoFaultNoFence'
    BY DEF Inv, TypeOK, NoFaultNoFence
  <2> QED
    BY <2>1, <2>2, <2>3, <2>4, <2>5, <2>6 DEF Inv
<1>6. CASE WriteFails(t)
  <2> USE <1>6 DEF WriteFails
  <2>1. AppenderMutex'
    BY <1>0 DEF Inv, TypeOK, AppenderMutex, HoldsAppender
  <2>2. SegmentsInOrder'
    BY DEF Inv, TypeOK, SegmentsInOrder
  <2>3. LatestOK'
    BY DEF Inv, TypeOK, LatestOK, MarkOK
  <2>4. RequestsOK'
    BY DEF Inv, TypeOK, RequestsOK, MarkOK
  <2>5. DiskOK'
    BY DEF Inv, TypeOK, DiskOK
  <2>6. NoFaultNoFence'
    BY DEF Inv, TypeOK, NoFaultNoFence
  <2> QED
    BY <2>1, <2>2, <2>3, <2>4, <2>5, <2>6 DEF Inv
<1>7. CASE Roll(t)
  <2> USE <1>7 DEF Roll
  <2>1. AppenderMutex'
    BY DEF Inv, TypeOK, AppenderMutex, HoldsAppender, MustRoll
  <2>2. SegmentsInOrder'
    BY DEF Inv, TypeOK, SegmentsInOrder
  <2>3. LatestOK'
    BY DEF Inv, TypeOK, LatestOK, MarkOK, MustRoll, AppenderMutex,
           HoldsAppender
  <2>4. RequestsOK'
    BY DEF Inv, TypeOK, RequestsOK, MarkOK
  <2>5. DiskOK'
    BY DEF Inv, TypeOK, DiskOK, In, SegmentsInOrder
  <2>6. NoFaultNoFence'
    BY DEF Inv, TypeOK, NoFaultNoFence
  <2> QED
    BY <2>1, <2>2, <2>3, <2>4, <2>5, <2>6 DEF Inv
<1>8. CASE RollFails(t)
  <2> USE <1>8 DEF RollFails
  <2>1. AppenderMutex'
    BY <1>0 DEF Inv, TypeOK, AppenderMutex, HoldsAppender, MustRoll
  <2>2. SegmentsInOrder'
    BY DEF Inv, TypeOK, SegmentsInOrder
  <2>3. LatestOK'
    BY DEF Inv, TypeOK, LatestOK, MarkOK
  <2>4. RequestsOK'
    BY DEF Inv, TypeOK, RequestsOK, MarkOK
  <2>5. DiskOK'
    BY DEF Inv, TypeOK, DiskOK
  <2>6. NoFaultNoFence'
    BY DEF Inv, TypeOK, NoFaultNoFence
  <2> QED
    BY <2>1, <2>2, <2>3, <2>4, <2>5, <2>6 DEF Inv
<1>9. CASE EndBatch(t)
  <2> USE <1>9 DEF EndBatch
  <2>1. AppenderMutex'
    BY <1>0 DEF Inv, TypeOK, AppenderMutex, HoldsAppender
  <2>2. SegmentsInOrder'
    BY DEF Inv, TypeOK, SegmentsInOrder
  <2>3. LatestOK'
    BY DEF Inv, TypeOK, LatestOK, MarkOK
  <2>4. RequestsOK'
    BY DEF Inv, TypeOK, RequestsOK, MarkOK, LatestOK
  <2>5. DiskOK'
    BY DEF Inv, TypeOK, DiskOK
  <2>6. NoFaultNoFence'
    BY DEF Inv, TypeOK, NoFaultNoFence
  <2> QED
    BY <2>1, <2>2, <2>3, <2>4, <2>5, <2>6 DEF Inv
<1>10. CASE Decide(t)
  <2> USE <1>10 DEF Decide
  <2>1. AppenderMutex'
    BY DEF Inv, TypeOK, AppenderMutex, HoldsAppender
  <2>2. SegmentsInOrder'
    BY DEF Inv, TypeOK, SegmentsInOrder
  <2>3. LatestOK'
    BY DEF Inv, TypeOK, LatestOK, MarkOK
  <2>4. RequestsOK'
    BY DEF Inv, TypeOK, RequestsOK, MarkOK
  <2>5. DiskOK'
    BY DEF Inv, DiskOK, MustSync, OkPromises
  <2>6. NoFaultNoFence'
    BY DEF Inv, TypeOK, NoFaultNoFence
  <2> QED
    BY <2>1, <2>2, <2>3, <2>4, <2>5, <2>6 DEF Inv
<1>11. CASE SyncPending(t)
  <2> USE <1>11 DEF SyncPending
  <2>1. AppenderMutex'
    BY DEF Inv, TypeOK, AppenderMutex, HoldsAppender
  <2>2. SegmentsInOrder'
    BY DEF Inv, TypeOK, SegmentsInOrder
  <2>3. LatestOK'
    BY DEF Inv, TypeOK, LatestOK, MarkOK
  <2>4. RequestsOK'
    BY DEF Inv, TypeOK, RequestsOK, MarkOK
  <2>5. DiskOK'
    BY DEF Inv, TypeOK, DiskOK
  <2>6. NoFaultNoFence'
    BY DEF Inv, TypeOK, NoFaultNoFence
  <2> QED
    BY <2>1, <2>2, <2>3, <2>4, <2>5, <2>6 DEF Inv
<1>12. CASE CallSyncAll(t)
  <2> USE <1>12 DEF CallSyncAll
  <2>1. AppenderMutex'
    BY DEF Inv, TypeOK, AppenderMutex, HoldsAppender
  <2>2. SegmentsInOrder'
    BY DEF Inv, TypeOK, SegmentsInOrder
  <2>3. LatestOK'
    BY DEF Inv, TypeOK, LatestOK, MarkOK
  <2>4. RequestsOK'
    BY DEF Inv, TypeOK, RequestsOK, MarkOK
  <2>5. DiskOK'
    BY DEF Inv, TypeOK, DiskOK
  <2>6. NoFaultNoFence'
    BY DEF Inv, TypeOK, NoFaultNoFence
  <2> QED
    BY <2>1, <2>2, <2>3, <2>4, <2>5, <2>6 DEF Inv
<1>13. CASE SyncAll(t)
  <2> USE <1>13 DEF SyncAll
  <2>1. AppenderMutex'
    BY DEF Inv, TypeOK, AppenderMutex, HoldsAppender
  <2>2. SegmentsInOrder'
    BY DEF Inv, TypeOK, SegmentsInOrder
  <2>3. LatestOK'
    BY DEF Inv, TypeOK, LatestOK, MarkOK
  <2>4. RequestsOK'
    BY DEF Inv, TypeOK, RequestsOK, MarkOK, LatestOK
  <2>5. DiskOK'
    BY DEF Inv, TypeOK, DiskOK
  <2>6. NoFaultNoFence'
    BY DEF Inv, TypeOK, NoFaultNoFence
  <2> QED
    BY <2>1, <2>2, <2>3, <2>4, <2>5, <2>6 DEF Inv
<1>14. CASE SyncCovered(t)
  <2> USE <1>14 DEF SyncCovered
  <2>1. AppenderMutex'
    BY DEF Inv, TypeOK, AppenderMutex, HoldsAppender
  <2>2. SegmentsInOrder'
    BY DEF Inv, TypeOK, SegmentsInOrder
  <2>3. LatestOK'
    BY DEF Inv, TypeOK, LatestOK, MarkOK
  <2>4. RequestsOK'
    BY DEF Inv, TypeOK, RequestsOK, MarkOK
  <2>5. DiskOK'
    BY DEF Inv, TypeOK, DiskOK, SeqArg, Larger, RequestsOK, MarkOK
  <2>6. NoFaultNoFence'
    BY DEF Inv, TypeOK, NoFaultNoFence
  <2> QED
    BY <2>1, <2>2, <2>3, <2>4, <2>5, <2>6 DEF Inv
<1>15. CASE LockSynced(t)
  <2> USE <1>15 DEF LockSynced
  <2>1. AppenderMutex'
    BY DEF Inv, TypeOK, AppenderMutex, HoldsAppender
  <2>2. SegmentsInOrder'
    BY DEF Inv, TypeOK, SegmentsInOrder
  <2>3. LatestOK'
    BY DEF Inv, TypeOK, LatestOK, MarkOK
  <2>4. RequestsOK'
    <3>1. MarkOK(want[t]) /\ SeqArg(t) = want[t].seq
      BY DEF Inv, RequestsOK, MarkOK, SeqArg, Larger, TypeOK
    <3>2. latest.log = want[t].log => MarkOK(latest)
      BY <3>1 DEF Inv, LatestOK, TypeOK
    <3>3. MarkOK(goal'[t]) /\ goal'[t].log = want[t].log
      BY <3>1, <3>2 DEF Inv, TypeOK, MarkOK
    <3> QED
      BY SMTT(30), <3>1, <3>3 DEF Inv, TypeOK, RequestsOK, MarkOK
  <2>5. DiskOK'
    BY DEF Inv, TypeOK, DiskOK
  <2>6. NoFaultNoFence'
    BY DEF Inv, TypeOK, NoFaultNoFence
  <2> QED
    BY <2>1, <2>2, <2>3, <2>4, <2>5, <2>6 DEF Inv
<1>16. CASE ZeroUnsynced(t)
  <2> USE <1>16 DEF ZeroUnsynced
  <2>1. AppenderMutex'
    BY DEF Inv, TypeOK, AppenderMutex, HoldsAppender
  <2>2. SegmentsInOrder'
    BY DEF Inv, TypeOK, SegmentsInOrder
  <2>3. LatestOK'
    BY DEF Inv, TypeOK, LatestOK, MarkOK
  <2>4. RequestsOK'
    BY DEF Inv, TypeOK, RequestsOK, MarkOK
  <2>5. DiskOK'
    BY DEF Inv, TypeOK, DiskOK
  <2>6. NoFaultNoFence'
    BY SMTT(30) DEF Inv, TypeOK, NoFaultNoFence
  <2> QED
    BY <2>1, <2>2, <2>3, <2>4, <2>5, <2>6 DEF Inv
<1>17. CASE Fsync(t)
  <2> USE <1>17 DEF Fsync
  <2>1. AppenderMutex'
    BY DEF Inv, TypeOK, AppenderMutex, HoldsAppender
  <2>2. SegmentsInOrder'
    BY DEF Inv, TypeOK, SegmentsInOrder
  <2>3. LatestOK'
    BY DEF Inv, TypeOK, LatestOK, MarkOK
  <2>4. RequestsOK'
    BY SMTT(30) DEF Inv, TypeOK, RequestsOK, MarkOK
  <2>5. DiskOK'
    <3> SUFFICES ASSUME ~poisoned PROVE DiskOK'
      BY DEF DiskOK
    <3>1. MarkOK(want[t]) /\ MarkOK(goal[t]) /\ goal[t].log = want[t].log
      BY DEF Inv, RequestsOK
    <3>2. 1..want[t].seq \subseteq durable' /\ 1..goal[t].seq \subseteq durable'
      BY <3>1, PrefixHardened DEF Inv
    <3> QED
      BY SMTT(30), <3>2 DEF Inv, DiskOK, Larger
  <2>6. NoFaultNoFence'
    BY DEF Inv, TypeOK, NoFaultNoFence
  <2> QED
    BY <2>1, <2>2, <2>3, <2>4, <2>5, <2>6 DEF Inv
<1>18. CASE FsyncFails(t)
  <2> USE <1>18 DEF FsyncFails
  <2>1. AppenderMutex'
    BY DEF Inv, TypeOK, AppenderMutex, HoldsAppender
  <2>2. SegmentsInOrder'
    BY DEF Inv, TypeOK, SegmentsInOrder
  <2>3. LatestOK'
    BY DEF Inv, TypeOK, LatestOK, MarkOK
  <2>4. RequestsOK'
    BY DEF Inv, TypeOK, RequestsOK, MarkOK
  <2>5. DiskOK'
    BY DEF Inv, TypeOK, DiskOK
  <2>6. NoFaultNoFence'
    BY DEF Inv, TypeOK, NoFaultNoFence
  <2> QED
    BY <2>1, <2>2, <2>3, <2>4, <2>5, <2>6 DEF Inv
<1> QED
  BY <1>1, <1>2, <1>3, <1>4, <1>5, <1>6, <1>7, <1>8, <1>9, <1>10, <1>11, <1>12, <1>13, <1>14, <1>15, <1>16, <1>17, <1>18 DEF Step

\* The invariant holds in every reachable state of a partition that is not
\* replicated.
THEOREM Invariance == ASSUME ~Replicated PROVE Spec => []Inv
<1>1. Inv /\ [Next]_vars => Inv'
  <2> SUFFICES ASSUME Inv, [Next]_vars PROVE Inv'
    OBVIOUS
  <2>1. TypeOK'
    BY TypeStep DEF Inv
  <2>2. ASSUME NEW t \in Threads, Step(t) PROVE Inv'
    BY <2>1, <2>2, InvStep
  <2>3. CASE UNCHANGED vars
    BY <2>3 DEF vars, Inv, TypeOK, AppenderMutex, SegmentsInOrder, LatestOK,
                RequestsOK, DiskOK, NoFaultNoFence, MarkOK
  <2> QED
    BY <2>2, <2>3 DEF Next, Stop
<1> QED
  BY InvInit, <1>1, PTL DEF Spec

\* Group commit acknowledges a write only when the write and everything before
\* it are on disk, until an I/O failure fences the partition.
THEOREM AckedAreDurable ==
    ASSUME ~Replicated PROVE Spec => []AckedDurableUnlessFenced
<1>1. Inv => AckedDurableUnlessFenced
  BY DEF Inv, DiskOK, AckedDurableUnlessFenced, AckedDurable
<1> QED
  BY Invariance, <1>1, PTL

\* Without I/O failures the append path implements the abstract durable log:
\* rolls and shared fsyncs are invisible to producers.
THEOREM Refinement ==
    ASSUME ~Replicated, ~WriteFaults, ~SyncFaults
    PROVE  Spec => ImplementsDurableLog
<1>1. Init => Log!Init
  BY DEF Init, Log!Init
<1>2. Inv /\ Inv' /\ [Next]_vars => [Log!Next]_(Log!dvars)
  <2> SUFFICES ASSUME Inv, Inv', [Next]_vars PROVE [Log!Next]_(Log!dvars)
    OBVIOUS
  <2> USE DEF Log!Next, Log!dvars
  <2>1. /\ ~poisoned /\ ~poisoned'
        /\ 1..acked \subseteq durable /\ 1..acked' \subseteq durable'
        /\ acked \in Nat /\ acked' \in Nat
        /\ durable' \subseteq 1..Len(writes')
    BY DEF Inv, NoFaultNoFence, DiskOK, TypeOK
  <2>2. ASSUME NEW t \in Threads, WriteBatch(t) PROVE Log!Write
    BY <2>2 DEF WriteBatch, Log!Write, Inv, TypeOK
  <2>3. ASSUME UNCHANGED writes, durable \subseteq durable', acked' >= acked
        PROVE  Log!HardenAndAck
    BY <2>1, <2>3 DEF Log!HardenAndAck
  <2>4. ASSUME NEW t \in Threads, Step(t), ~WriteBatch(t)
        PROVE  UNCHANGED writes /\ durable \subseteq durable' /\ acked' >= acked
    <3>1. CASE SyncCovered(t)
      BY <2>1, <3>1 DEF SyncCovered, appendVars, Larger, Inv, TypeOK, Marks
    <3>2. CASE Fsync(t)
      BY <2>1, <3>2 DEF Fsync, appendVars, Larger, Inv, TypeOK, Marks
    <3>3. CASE Roll(t)
      BY <2>1, <3>3 DEF Roll
    <3>4. CASE ~SyncCovered(t) /\ ~Fsync(t) /\ ~Roll(t)
      <4>1. UNCHANGED <<writes, durable, acked>>
        BY ZenonT(30), <2>4, <3>4 DEF Step, BeginAppend, LockAppender, PublishBatch,
           CountBatch, WriteFails, RollFails, EndBatch, Decide, SyncPending,
           CallSyncAll, SyncAll, LockSynced, ZeroUnsynced, FsyncFails,
           appendVars, diskVars, MustSync, OkPromises
      <4> QED
        BY SMTT(30), <2>1, <4>1
    <3> QED
      BY <3>1, <3>2, <3>3, <3>4
  <2>5. CASE UNCHANGED vars
    BY <2>5 DEF vars
  <2> QED
    BY <2>2, <2>3, <2>4, <2>5 DEF Next, Stop
<1> QED
  BY Invariance, <1>1, <1>2, PTL DEF Spec, ImplementsDurableLog, Log!Spec
-----------------------------------------------------------------------------
(* Sealed segments, on a replica too *)

SealedInv ==
    /\ TypeOK
    /\ SegmentsInOrder
    /\ ~poisoned => lost = {} /\ torn = {}
    /\ SealedDurable

\* A roll syncs all of the segment it seals and no later write goes back to it.
LEMMA SealedStep ==
    ASSUME SealedInv, TypeOK', NEW t \in Threads, Step(t)
    PROVE  SealedInv'
<1> USE DEF SealedInv, SealedDurable, Goto, appendVars, syncVars, diskVars
<1>1. CASE WriteBatch(t)
  <2>1. /\ Len(writes') = Len(writes) + 1
        /\ \A q \in 1..Len(writes) : writes'[q] = writes[q]
        /\ writes'[Len(writes) + 1] = active
    <3>1. writes \in Seq(Nat) /\ active \in Nat
      BY DEF TypeOK
    <3>2. writes' = Append(writes, active)
      BY <1>1 DEF WriteBatch
    <3> QED
      BY <3>1, <3>2
  <2>2. SegmentsInOrder'
    <3> DEFINE n == Len(writes)
    <3>1. n \in Nat /\ active \in Nat /\ \A q \in 1..n : writes[q] \in Nat
      BY DEF TypeOK
    <3>2. active' = active
      BY <1>1 DEF WriteBatch
    <3>3. /\ \A p, q \in 1..n : p <= q => writes[p] <= writes[q]
          /\ \A q \in 1..n : writes[q] <= active
      BY DEF SegmentsInOrder
    <3>4. Len(writes') = n + 1 /\ (\A q \in 1..n : writes'[q] = writes[q]) /\ writes'[n + 1] = active
      BY <2>1
    <3> HIDE DEF n
    <3>5. \A q \in 1..(n + 1) : q \in 1..n \/ q = n + 1
      BY <3>1
    <3>6. ASSUME NEW p \in 1..(n + 1), NEW q \in 1..(n + 1), p <= q
          PROVE  writes'[p] <= writes'[q]
      BY <3>1, <3>3, <3>4, <3>5, <3>6
    <3>7. ASSUME NEW q \in 1..(n + 1) PROVE writes'[q] <= active'
      BY <3>1, <3>2, <3>3, <3>4, <3>5, <3>7
    <3> QED
      BY <3>4, <3>6, <3>7, Zenon DEF SegmentsInOrder
  <2>3. SealedDurable'
    BY <1>1, <2>1 DEF WriteBatch, TypeOK
  <2> QED
    BY <1>1, <2>2, <2>3 DEF WriteBatch
<1>2. CASE Roll(t)
  <2>0. /\ writes' = writes /\ active' = active + 1 /\ active \in Nat
        /\ \A q \in 1..Len(writes) : writes[q] \in Nat
    BY <1>2 DEF Roll, TypeOK
  <2>1. SegmentsInOrder'
    BY <2>0 DEF SegmentsInOrder
  <2>2. ~poisoned => In(active) \subseteq durable' /\ durable \subseteq durable'
    BY <1>2 DEF Roll
  <2>3. ASSUME ~poisoned, NEW q \in 1..Len(writes), writes[q] < active + 1
        PROVE  q \in durable'
    <3>1. writes[q] \in Nat /\ active \in Nat
      BY DEF TypeOK
    <3>2. writes[q] < active \/ writes[q] = active
      BY <2>3, <3>1
    <3> QED
      BY <2>2, <2>3, <3>2 DEF In
  <2> QED
    BY <1>2, <2>1, <2>3 DEF Roll
<1>3. CASE Fsync(t)
  BY Zenon, <1>3 DEF Fsync, TypeOK, SegmentsInOrder
<1>4. CASE WriteFails(t) \/ RollFails(t) \/ FsyncFails(t)
  BY Zenon, <1>4 DEF WriteFails, RollFails, FsyncFails, TypeOK, SegmentsInOrder
<1>5. CASE /\ ~WriteBatch(t) /\ ~Roll(t) /\ ~Fsync(t)
           /\ ~WriteFails(t) /\ ~RollFails(t) /\ ~FsyncFails(t)
  <2>1. UNCHANGED <<writes, active, durable, torn, lost, poisoned>>
    BY ZenonT(30), <1>5 DEF Step, BeginAppend, LockAppender, PublishBatch, CountBatch, EndBatch,
       Decide, SyncPending, CallSyncAll, SyncAll, SyncCovered, LockSynced, ZeroUnsynced
  <2> QED
    BY SMTT(30), <2>1 DEF SegmentsInOrder
<1> QED
  BY <1>1, <1>2, <1>3, <1>4, <1>5

\* Recovery may trust every segment but the last: also with deferred fsyncs a sealed
\* segment is on disk in full, until an I/O failure fences the partition.
THEOREM SealedAreDurable == Spec => []SealedDurable
<1>1. Init => SealedInv
  BY TypeInit DEF Init, SealedInv, SealedDurable, SegmentsInOrder
<1>2. SealedInv /\ [Next]_vars => SealedInv'
  <2> SUFFICES ASSUME SealedInv, [Next]_vars PROVE SealedInv'
    OBVIOUS
  <2>1. TypeOK'
    BY TypeStep DEF SealedInv
  <2>2. ASSUME NEW t \in Threads, Step(t) PROVE SealedInv'
    BY <2>1, <2>2, SealedStep
  <2>3. CASE UNCHANGED vars
    BY <2>1, <2>3 DEF vars, SealedInv, SealedDurable, SegmentsInOrder
  <2> QED
    BY <2>2, <2>3 DEF Next, Stop
<1>3. SealedInv => SealedDurable
  BY DEF SealedInv
<1> QED
  BY <1>1, <1>2, <1>3, PTL DEF Spec
=============================================================================
