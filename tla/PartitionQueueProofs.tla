------------------------ MODULE PartitionQueueProofs ------------------------
(***************************************************************************)
(* Between the log and the partition: types, calls and the apply queue.    *)
(***************************************************************************)
EXTENDS PartitionRaftProofs

-----------------------------------------------------------------------------
(* Calls: their entries and their offsets *)

\* What is handed to the apply loop: the records newly committed, in order, all of them.
LEMMA HandedFacts ==
    ASSUME Ground, Types, NEW r \in Replica, NEW l \in Seq(Entry), NEW k \in Nat,
           k <= Len(l) \/ k <= commit[r]
    PROVE  /\ Handed(r, l, k) \in Seq(Nat \X Entry)
           /\ \A n \in 1..Len(Handed(r, l, k)) :
                 LET i == Handed(r, l, k)[n][1]
                 IN  /\ i \in (commit[r] + 1)..k /\ i \in 1..Len(l)
                     /\ Handed(r, l, k)[n][2] = l[i] /\ l[i].write # Noop
           /\ \A m, n \in 1..Len(Handed(r, l, k)) :
                 m < n => Handed(r, l, k)[m][1] < Handed(r, l, k)[n][1]
           /\ \A i \in (commit[r] + 1)..k : l[i].write # Noop =>
                 \E n \in 1..Len(Handed(r, l, k)) : Handed(r, l, k)[n][1] = i
<1> DEFINE new == {i \in (commit[r] + 1)..k : l[i].write # Noop}
           a == Ascending(new)
           c == Cardinality(new)
           h == Handed(r, l, k)
<1>1. commit[r] \in Nat /\ Len(l) \in Nat
  BY DEF Types
<1>2. commit[r] + 1 \in Nat /\ new \in SUBSET ((commit[r] + 1)..k)
  BY <1>1
<1>3. h = [n \in 1..c |-> <<a[n], l[a[n]]>>]
  BY Zenon DEF Handed
<1>4. \A i \in new : i \in (commit[r] + 1)..k /\ i \in 1..Len(l) /\ l[i].write # Noop
                     /\ l[i] \in Entry /\ i \in Nat
  BY <1>1
<1>5. \A i \in (commit[r] + 1)..k : l[i].write # Noop => i \in new
  BY Zenon
<1> HIDE DEF new
<1>6. /\ c \in Nat /\ a \in [1..c -> new]
      /\ \A i, j \in 1..c : i < j => a[i] < a[j]
      /\ \A x \in new : \E i \in 1..c : a[i] = x
  <2>1. c \in Nat /\ Enumerates(a, new)
    <3>1. \A x, y \in Nat : \A S \in SUBSET (x..y) :
             Cardinality(S) \in Nat /\ Enumerates(Ascending(S), S)
      BY Zenon DEF Ground
    <3> QED
      BY <1>2, <3>1, Zenon
  <2> QED
    BY <2>1, Zenon DEF Enumerates
<1> HIDE DEF a, c, h
<1>7. ASSUME NEW n \in 1..c
      PROVE  h[n][1] = a[n] /\ h[n][2] = l[a[n]] /\ a[n] \in new /\ h[n] \in Nat \X Entry
  BY <1>3, <1>4, <1>6, Zenon
<1>8. h \in Seq(Nat \X Entry) /\ Len(h) = c
  BY SMTT(30), <1>3, <1>6, <1>7
<1>9. \A n \in 1..Len(h) : LET i == h[n][1]
                           IN  /\ i \in (commit[r] + 1)..k /\ i \in 1..Len(l)
                               /\ h[n][2] = l[i] /\ l[i].write # Noop
  BY <1>4, <1>7, <1>8, Zenon
<1>10. \A m, n \in 1..Len(h) : m < n => h[m][1] < h[n][1]
  BY <1>6, <1>7, <1>8, Zenon
<1>11. ASSUME NEW i \in (commit[r] + 1)..k, l[i].write # Noop
       PROVE  \E n \in 1..Len(h) : h[n][1] = i
  <2>1. i \in new
    BY <1>5, <1>11, Zenon
  <2>2. PICK n \in 1..c : a[n] = i
    BY <1>6, <2>1, Zenon
  <2> QED
    BY <1>7, <1>8, <2>2, Zenon
<1> QED
  BY <1>8, <1>9, <1>10, <1>11, Zenon DEF h

\* No more calls have begun than there are.
LEMMA BegunFacts ==
    ASSUME Ground
    PROVE  /\ Cardinality(Begun) \in Nat /\ Cardinality(Begun) <= Cardinality(Write)
           /\ Cardinality(Write) \in Nat
<1>1. Begun \in SUBSET Write
  BY Zenon DEF Begun
<1> QED
  BY <1>1, Zenon DEF Ground

\* What a step leaves of the calls: one that began keeps its node and its offset, and one
\* whose entry was proposed its index.
CallsKept ==
    \A w \in Write :
       /\ pc[w] # "idle" => pc'[w] # "idle" /\ offset'[w] = offset[w] /\ at'[w] = at[w]
       /\ pc[w] \notin {"idle", "based"} => /\ pc'[w] \notin {"idle", "based"}
                                            /\ index'[w] = index[w]

\* The apply loop changes only calls that wait, at its own node, for their entry.
LEMMA AnsweredKept ==
    ASSUME NEW r, NEW i, NEW e, NEW w \in Write
    PROVE  /\ Answered(r, i, e)[w] \in {pc[w], "ok", "replaced"}
           /\ pc[w] \notin {"accepted", "waiting"} => Answered(r, i, e)[w] = pc[w]
           /\ at[w] # r => Answered(r, i, e)[w] = pc[w]
BY Zenon DEF Answered

\* Every step keeps the node, the offset and the index of a call.
LEMMA CallsStep ==
    ASSUME Types, Next
    PROVE  CallsKept
<1> USE DEF Types
<1>1. ASSUME UNCHANGED calls PROVE CallsKept
  BY <1>1, Zenon DEF CallsKept, calls
<1>2. ASSUME NEW r \in Replica, NEW Q \in Majority, Elect(r, Q) PROVE CallsKept
  BY <1>1, <1>2, Zenon DEF Elect
<1>3. ASSUME NEW l \in Replica, NEW f \in Replica, Replicate(l, f) PROVE CallsKept
  BY <1>1, <1>3, Zenon DEF Replicate
<1>4. ASSUME NEW l \in Replica, NEW f \in Replica, Install(l, f) PROVE CallsKept
  BY <1>1, <1>4, Zenon DEF Install
<1>5. ASSUME NEW l \in Replica, NEW k \in 1..Len(log[l]), Commit(l, k) PROVE CallsKept
  BY <1>1, <1>5, Zenon DEF Commit
<1>6. ASSUME NEW w \in Write, NEW r \in Replica, Begin(w, r) PROVE CallsKept
  BY <1>6, Zenon DEF Begin, CallsKept
<1>7. ASSUME NEW w \in Write, Propose(w) PROVE CallsKept
  <2>1. pc[w] = "based" /\ UNCHANGED <<at, offset>>
    BY <1>7, Zenon DEF Propose
  <2>2. \/ pc' = [pc EXCEPT ![w] = "accepted"] /\ \E x : index' = [index EXCEPT ![w] = x]
        \/ pc' = [pc EXCEPT ![w] = "not leader"] /\ index' = index
    BY <1>7, Zenon DEF Propose
  <2> QED
    BY <2>1, <2>2, Zenon DEF CallsKept
<1>8. ASSUME NEW w \in Write, NoteIndex(w) PROVE CallsKept
  BY <1>8, Zenon DEF NoteIndex, CallsKept
<1>9. ASSUME NEW w \in Write, CommitTimeout(w) PROVE CallsKept
  BY <1>9, Zenon DEF CommitTimeout, CallsKept
<1>10. ASSUME NEW r \in Replica, Apply(r) PROVE CallsKept
  <2>1. UNCHANGED <<at, offset, index>>
    BY <1>10, Zenon DEF Apply
  <2>2. PICK i, e : pc' = Answered(r, i, e)
    BY <1>10, Zenon DEF Apply
  <2> QED
    BY <2>1, <2>2, AnsweredKept, Zenon DEF CallsKept
<1>11. ASSUME NEW r \in Replica, Snapshot(r) PROVE CallsKept
  BY <1>1, <1>11, Zenon DEF Snapshot
<1>12. ASSUME NEW r \in Replica, NEW end \in Offsets, Restart(r, end) PROVE CallsKept
  BY <1>12, Zenon DEF Restart, CallsKept
<1> QED
  BY <1>2, <1>3, <1>4, <1>5, <1>6, <1>7, <1>8, <1>9, <1>10, <1>11, <1>12, Zenon DEF Next

\* next_assignable_offset is the partition's end, or past the last record in the log;
\* no offset it gives is above the number of calls begun.
LEMMA NextAssignableFacts ==
    ASSUME Ground, Types, Written, Counted, RaftInv, NEW r \in Replica
    PROVE  /\ NextAssignable(r) \in Nat /\ NextAssignable(r) <= Cardinality(Begun)
           /\ next[r] <= NextAssignable(r)
           /\ \/ Data(r) = {} /\ NextAssignable(r) = next[r]
              \/ \E m \in Data(r) : /\ \A i \in Data(r) : i <= m
                                    /\ log[r][m].base < NextAssignable(r)
<1>1. next[r] \in Nat /\ base[r] \in Nat /\ Len(log[r]) \in Nat
  BY OffsetsFacts DEF Types
<1>2. next[r] <= Cardinality(Begun) /\ Cardinality(Begun) \in Nat
  BY BegunFacts, Zenon DEF Counted
<1>3. CASE Data(r) = {}
  BY <1>1, <1>2, <1>3 DEF NextAssignable
<1>4. CASE Data(r) # {}
  <2>1. Data(r) \in SUBSET (1..Len(log[r]))
    BY <1>1 DEF Data
  <2> DEFINE m == Max(Data(r))
             b == log[r][m].base
  <2>3. m \in Data(r) /\ \A i \in Data(r) : i <= m
    BY <1>1, <1>4, <2>1, Zenon DEF Ground
  <2>4. NextAssignable(r) = Max({next[r], b + 1})
    BY <1>4, Zenon DEF NextAssignable
  <2> HIDE DEF m
  <2>5. log[r][m] \in Entry /\ log[r][m].write # Noop /\ IsProposal(m, log[r][m])
    BY <2>1, <2>3, EntryFacts, Zenon DEF Written, Data
  <2>6. log[r][m].write \in Write
    BY <2>5, Zenon DEF Entry
  <2>7. b < Cardinality(Begun) /\ b \in Nat
    BY <2>5, <2>6, OffsetsFacts, Zenon DEF Counted, IsProposal, Entry
  <2> HIDE DEF b
  <2>8. NextAssignable(r) = IF next[r] >= b + 1 THEN next[r] ELSE b + 1
    BY <1>1, <2>4, <2>7, MaxOfTwo
  <2>9. NextAssignable(r) \in Nat /\ NextAssignable(r) <= Cardinality(Begun)
        /\ next[r] <= NextAssignable(r) /\ b < NextAssignable(r)
    BY <1>1, <1>2, <2>7, <2>8
  <2> QED
    BY <2>3, <2>9, Zenon DEF b
<1> QED
  BY <1>3, <1>4, Zenon

\* Every step keeps the types: no offset is outside Offsets.
LEMMA TypesStep ==
    ASSUME Ground, Types, Written, Counted, RaftInv, QueueInOrder, Next
    PROVE  Types'
<1>0. /\ 0 \in Offsets /\ Cardinality(Write) \in Nat
      /\ \A r \in Replica : /\ commit[r] \in Nat /\ base[r] \in Nat /\ term[r] \in Nat
                            /\ next[r] \in Nat /\ synced[r] \in Nat /\ applied[r] \in Nat
                            /\ commit[r] <= Len(log[r]) /\ base[r] <= commit[r]
                            /\ log[r] \in Seq(Entry) /\ Len(log[r]) \in Nat
  <2>1. 0 \in Offsets /\ Cardinality(Write) \in Nat
    BY BegunFacts, OffsetsFacts, Zenon
  <2>2. ASSUME NEW r \in Replica PROVE next[r] \in Nat /\ synced[r] \in Nat
    <3>1. next[r] \in Offsets /\ synced[r] \in Offsets
      BY Zenon DEF Types
    <3> QED
      BY <3>1, OffsetsFacts, Zenon
  <2>3. \A r \in Replica : commit[r] <= Len(log[r]) /\ base[r] <= commit[r]
    BY Zenon DEF RaftInv, Indices
  <2>4. ASSUME NEW r \in Replica
        PROVE  /\ commit[r] \in Nat /\ base[r] \in Nat /\ term[r] \in Nat /\ applied[r] \in Nat
               /\ log[r] \in Seq(Entry) /\ Len(log[r]) \in Nat
    BY DEF Types
  <2> QED
    BY <2>1, <2>2, <2>3, <2>4, Zenon
<1>1. ASSUME NEW r \in Replica, NEW Q \in Majority, Elect(r, Q) PROVE Types'
  <2> DEFINE t == Max({term[q] : q \in Replica}) + 1
  <2>1. t \in Nat
    <3> DEFINE x == Max({term[s] : s \in Replica})
    <3>1. x \in Nat
      BY NewTerm, Zenon
    <3> HIDE DEF x
    <3>2. x + 1 \in Nat
      BY <3>1
    <3> QED
      BY <3>2, Zenon DEF x
  <2>2. /\ term' = [q \in Replica |-> IF q \in Q THEN t ELSE term[q]]
        /\ log' = [log EXCEPT ![r] = Append(@, [term |-> t, write |-> Noop, base |-> 0])]
        /\ leads' = [q \in Replica |-> q = r \/ (leads[q] /\ q \notin Q)]
        /\ elections' = elections + 1
        /\ UNCHANGED <<commit, base, store, calls, restarts>>
    BY <1>1, Zenon DEF Elect
  <2> HIDE DEF t
  <2>3. [term |-> t, write |-> Noop, base |-> 0] \in Entry
    BY <1>0, <2>1, Zenon DEF Entry
  <2>4. leads' \in [Replica -> BOOLEAN]
    BY <2>2, Zenon
  <2>5. term' \in [Replica -> Nat]
    BY <1>0, <2>1, <2>2, Zenon
  <2>6. log' \in [Replica -> Seq(Entry)]
    BY <2>2, <2>3 DEF Types
  <2> QED
    <3>1. /\ term' \in [Replica -> Nat] /\ leads' \in [Replica -> BOOLEAN]
          /\ log' \in [Replica -> Seq(Entry)] /\ elections' \in Nat
      BY <2>2, <2>4, <2>5, <2>6, SMTT(30) DEF Types
    <3>2. /\ commit' = commit /\ base' = base /\ queue' = queue /\ applied' = applied
          /\ part' = part /\ next' = next /\ synced' = synced /\ pc' = pc /\ at' = at
          /\ offset' = offset /\ index' = index /\ restarts' = restarts
      BY <2>2, Zenon DEF store, calls
    <3> QED
      BY <3>1, <3>2, Zenon DEF Types
<1>2. ASSUME NEW l \in Replica, NEW f \in Replica, Replicate(l, f) PROVE Types'
  <2> DEFINE k == Max({commit[f], commit[l]})
  <2>1. k \in Nat /\ (k <= Len(log[l]) \/ k <= commit[f])
    <3>1. k = IF commit[f] >= commit[l] THEN commit[f] ELSE commit[l]
      <4>1. commit[f] \in Int /\ commit[l] \in Int
        BY <1>0
      <4> QED
        BY <4>1, MaxOfTwo, Zenon
    <3> HIDE DEF k
    <3> QED
      BY <1>0, <3>1
  <2>2. /\ term' = [term EXCEPT ![f] = term[l]]
        /\ leads' = [leads EXCEPT ![f] = FALSE]
        /\ log' = [log EXCEPT ![f] = log[l]]
        /\ commit' = [commit EXCEPT ![f] = k]
        /\ queue' = [queue EXCEPT ![f] = @ \o Handed(f, log[l], k)]
        /\ UNCHANGED <<base, applied, part, next, synced, calls, bounds>>
    BY <1>2, Zenon DEF Replicate
  <2>3. Handed(f, log[l], k) \in Seq(Nat \X Entry)
    BY <1>0, <2>1, HandedFacts, Zenon
  <2> HIDE DEF k
  <2>4. queue' \in [Replica -> Seq(Nat \X Entry)]
    BY Zenon, <2>2, <2>3, ConcatFacts DEF Types
  <2> QED
    BY <1>0, <2>1, <2>2, <2>4, Zenon DEF Types, calls, bounds
<1>3. ASSUME NEW l \in Replica, NEW f \in Replica, Install(l, f) PROVE Types'
  <2>1. /\ term' = [term EXCEPT ![f] = term[l]]
        /\ leads' = [leads EXCEPT ![f] = FALSE]
        /\ log' = [log EXCEPT ![f] = SubSeq(log[l], 1, base[l])]
        /\ commit' = [commit EXCEPT ![f] = Max({@, base[l]})]
        /\ base' = [base EXCEPT ![f] = base[l]]
        /\ part' = [part EXCEPT ![f] = [o \in Offsets |->
                      IF o >= next[f] /\ o < synced[l] THEN part[l][o] ELSE @[o]]]
        /\ next' = [next EXCEPT ![f] = Max({@, synced[l]})]
        /\ synced' = [synced EXCEPT ![f] = next'[f]]
        /\ UNCHANGED <<queue, applied, calls, bounds>>
    BY <1>3, Zenon DEF Install
  <2>2. Max({commit[f], base[l]}) \in Nat
    <3>1. commit[f] \in Nat /\ base[l] \in Nat
      BY <1>0, Zenon
    <3> QED
      BY <3>1, MaxOfTwo
  <2>3. Max({next[f], synced[l]}) \in {next[f], synced[l]}
    <3>1. next[f] \in Int /\ synced[l] \in Int
      BY <1>0
    <3> QED
      BY <3>1, MaxOfTwo, Zenon
  <2>4. next[f] \in Offsets /\ synced[l] \in Offsets
    BY Zenon DEF Types
  <2>5. next' \in [Replica -> Offsets] /\ synced' \in [Replica -> Offsets]
    BY <2>1, <2>3, <2>4, Zenon DEF Types
  <2>6. SubSeq(log[l], 1, base[l]) \in Seq(Entry)
    <3>1. base[l] \in 0..Len(log[l]) /\ log[l] \in Seq(Entry)
      BY <1>0
    <3> QED
      BY <3>1, PrefixFacts, Zenon
  <2>7. part' \in [Replica -> [Offsets -> Write \cup {Nothing}]]
    BY SMTT(30), <2>1 DEF Types
  <2>8. /\ term' \in [Replica -> Nat] /\ leads' \in [Replica -> BOOLEAN]
        /\ commit' \in [Replica -> Nat] /\ base' \in [Replica -> Nat]
    BY Zenon, <1>0, <2>1, <2>2 DEF Types
  <2>9. log' \in [Replica -> Seq(Entry)]
    BY <2>1, <2>6, Zenon DEF Types
  <2> QED
    BY <2>1, <2>5, <2>7, <2>8, <2>9, Zenon DEF Types, calls, bounds
<1>4. ASSUME NEW l \in Replica, NEW k \in 1..Len(log[l]), Commit(l, k) PROVE Types'
  <2>1. /\ commit' = [commit EXCEPT ![l] = k]
        /\ queue' = [queue EXCEPT ![l] = @ \o Handed(l, log[l], k)]
        /\ UNCHANGED <<term, leads, log, base, applied, part, next, synced, calls, bounds>>
    BY <1>4, Zenon DEF Commit
  <2>2. k \in Nat /\ k <= Len(log[l]) /\ log[l] \in Seq(Entry)
    BY <1>0
  <2>3. Handed(l, log[l], k) \in Seq(Nat \X Entry)
    BY <2>2, HandedFacts, Zenon
  <2>4. queue' \in [Replica -> Seq(Nat \X Entry)]
    BY <2>1, <2>3, ConcatFacts, Zenon DEF Types
  <2> QED
    BY <2>1, <2>2, <2>4, Zenon DEF Types, calls, bounds
<1>5. ASSUME NEW w \in Write, NEW r \in Replica, Begin(w, r) PROVE Types'
  <2>1. NextAssignable(r) \in Offsets
    BY NextAssignableFacts, BegunFacts, OffsetsFacts
  <2>2. /\ pc' = [pc EXCEPT ![w] = "based"]
        /\ at' = [at EXCEPT ![w] = r]
        /\ offset' = [offset EXCEPT ![w] = NextAssignable(r)]
        /\ UNCHANGED <<raft, store, index, bounds>>
    BY <1>5, Zenon DEF Begin
  <2> QED
    BY <2>1, <2>2, Zenon DEF Types, raft, store, bounds, States
<1>6. ASSUME NEW w \in Write, Propose(w) PROVE Types'
  <2>1. pc[w] = "based" /\ UNCHANGED <<term, leads, commit, base, store, at, offset, bounds>>
    BY <1>6, Zenon DEF Propose
  <2>2. at[w] \in Replica
    BY <2>1, Zenon DEF Counted
  <2>3. CASE leads[at[w]]
    <3> DEFINE e == [term |-> term[at[w]], write |-> w, base |-> offset[w]]
    <3>1. /\ log' = [log EXCEPT ![at[w]] = Append(@, e)]
          /\ index' = [index EXCEPT ![w] = Len(log[at[w]]) + 1]
          /\ pc' = [pc EXCEPT ![w] = "accepted"]
      BY <1>6, <2>3, Zenon DEF Propose
    <3>2. e \in Entry
      BY <1>0, <2>2, Zenon DEF Types, Entry
    <3> HIDE DEF e
    <3>3. log' \in [Replica -> Seq(Entry)]
      BY <2>2, <3>1, <3>2 DEF Types
    <3>4. index' \in [Write -> Nat]
      BY <1>0, <2>2, <3>1 DEF Types
    <3> QED
      BY <2>1, <3>1, <3>3, <3>4, Zenon DEF Types, store, bounds, States
  <2>4. CASE ~leads[at[w]]
    BY <1>6, <2>1, <2>4, Zenon DEF Propose, Types, store, bounds, States
  <2> QED
    BY <2>3, <2>4, Zenon
<1>7. ASSUME NEW w \in Write, NoteIndex(w) \/ CommitTimeout(w) PROVE Types'
  BY <1>7, Zenon DEF NoteIndex, CommitTimeout, Types, raft, store, bounds, States
<1>8. ASSUME NEW r \in Replica, Apply(r) PROVE Types'
  <2> DEFINE i == Head(queue[r])[1]
             e == Head(queue[r])[2]
  <2>1. /\ queue[r] # << >>
        /\ \/ /\ e.base >= next[r]
              /\ part' = [part EXCEPT ![r][e.base] = e.write]
              /\ next' = [next EXCEPT ![r] = e.base + 1]
           \/ UNCHANGED <<part, next>>
        /\ pc' = Answered(r, i, e)
        /\ applied' = [applied EXCEPT ![r] = i]
        /\ queue' = [queue EXCEPT ![r] = Tail(@)]
        /\ UNCHANGED <<raft, synced, at, offset, index, bounds>>
    BY <1>8, Zenon DEF Apply
  <2>2. queue[r] \in Seq(Nat \X Entry) /\ 1 \in 1..Len(queue[r]) /\ Head(queue[r]) = queue[r][1]
    BY <2>1 DEF Types
  <2>3. i \in Nat /\ e \in Entry
    BY <2>2
  <2>4. e.write # Noop /\ IsProposal(i, e)
    BY <2>2 DEF QueueInOrder, InOrder, IsData, Written
  <2> HIDE DEF i, e
  <2>5. e.write \in Write /\ e.base \in Nat /\ e.base \in Offsets
    BY <2>3, <2>4, OffsetsFacts, Zenon DEF Entry
  <2>6. e.base + 1 \in Offsets
    <3>1. e.base < Cardinality(Begun)
      BY <2>4, <2>5, Zenon DEF Counted, IsProposal
    <3> QED
      BY <2>5, <3>1, BegunFacts, OffsetsFacts
  <2>7. part' \in [Replica -> [Offsets -> Write \cup {Nothing}]] /\ next' \in [Replica -> Offsets]
    <3>0. /\ part \in [Replica -> [Offsets -> Write \cup {Nothing}]]
          /\ next \in [Replica -> Offsets]
      BY Zenon DEF Types
    <3>1. CASE UNCHANGED <<part, next>>
      BY <3>0, <3>1, Zenon
    <3>2. CASE /\ part' = [part EXCEPT ![r][e.base] = e.write]
               /\ next' = [next EXCEPT ![r] = e.base + 1]
      BY <2>5, <2>6, <3>0, <3>2, Zenon
    <3> QED
      BY <2>1, <3>1, <3>2, Zenon
  <2>8. pc' \in [Write -> States]
    <3>1. DOMAIN Answered(r, i, e) = Write /\ Answered(r, i, e) = [w \in Write |-> Answered(r, i, e)[w]]
      BY Zenon DEF Answered
    <3>2. ASSUME NEW w \in Write PROVE Answered(r, i, e)[w] \in States
      <4>1. Answered(r, i, e)[w] \in {pc[w], "ok", "replaced"}
        BY AnsweredKept, Zenon
      <4>2. pc[w] \in States
        BY Zenon DEF Types
      <4> QED
        BY <4>1, <4>2, Zenon DEF States
    <3> QED
      BY <2>1, <3>1, <3>2, Zenon
  <2>9. queue' \in [Replica -> Seq(Nat \X Entry)]
    BY <2>1, <2>2, TailFacts, Zenon DEF Types
  <2> QED
    BY Zenon, <2>1, <2>3, <2>7, <2>8, <2>9 DEF Types, raft, bounds
<1>9. ASSUME NEW r \in Replica, Snapshot(r) PROVE Types'
  BY <1>9, Zenon DEF Snapshot, Types, calls, bounds
<1>10. ASSUME NEW r \in Replica, NEW end \in Offsets, Restart(r, end) PROVE Types'
  <2>1. /\ leads' = [leads EXCEPT ![r] = FALSE]
        /\ commit' = [commit EXCEPT ![r] = base[r]]
        /\ queue' = [queue EXCEPT ![r] = << >>]
        /\ applied' = [applied EXCEPT ![r] = base[r]]
        /\ part' = [part EXCEPT ![r] = [o \in Offsets |-> IF o < end THEN @[o] ELSE Nothing]]
        /\ next' = [next EXCEPT ![r] = end]
        /\ pc' = [w \in Write |-> IF at[w] = r /\ pc[w] \in {"based", "accepted", "waiting"}
                                  THEN "gone" ELSE pc[w]]
        /\ restarts' = restarts + 1
        /\ UNCHANGED <<term, log, base, synced, at, offset, index, elections>>
    BY <1>10, Zenon DEF Restart
  <2>2. pc' \in [Write -> States]
    BY <2>1, Zenon DEF Types, States
  <2>3. part' \in [Replica -> [Offsets -> Write \cup {Nothing}]]
    BY <2>1, Zenon DEF Types
  <2> QED
    BY SMTT(30), <2>1, <2>2, <2>3 DEF Types
<1> QED
  BY <1>1, <1>2, <1>3, <1>4, <1>5, <1>6, <1>7, <1>8, <1>9, <1>10, Zenon DEF Next

\* An entry that is a call's stays that call's.
LEMMA ProposalKept ==
    ASSUME Types, CallsKept, NEW i, NEW e \in Entry, IsProposal(i, e)
    PROVE  IsProposal(i, e)'
<1>1. e.write # Noop => e.write \in Write
  BY Zenon DEF Entry
<1> QED
  BY <1>1, Zenon DEF IsProposal, CallsKept
\* Entries that a step hands over come from a log; those that it adds are an election's or
\* the proposer's.
OldLog(r) ==
    \A i \in 1..Len(log'[r]) :
       \/ log'[r][i].write = Noop
       \/ \E q \in Replica : i \in 1..Len(log[q]) /\ log'[r][i] = log[q][i]
       \/ IsProposal(i, log[r][i])'

\* Everything in the queue of r was in it, or in some log.
OldQueue(r) ==
    \A n \in 1..Len(queue'[r]) :
       \/ \E m \in 1..Len(queue[r]) : queue'[r][n] = queue[r][m]
       \/ \E q \in Replica : \E i \in 1..Len(log[q]) :
             queue'[r][n][1] = i /\ queue'[r][n][2] = log[q][i]

\* Entries copied from logs and queues are those of calls as before.
LEMMA WrittenFrom ==
    ASSUME Types, Types', Written, CallsKept, \A r \in Replica : OldLog(r) /\ OldQueue(r)
    PROVE  Written'
<1>1. ASSUME NEW q \in Replica, NEW i \in 1..Len(log[q]), NEW e, e = log[q][i]
      PROVE  IsProposal(i, e)'
  <2>1. e \in Entry /\ IsProposal(i, e)
    BY <1>1, EntryFacts, Zenon DEF Written
  <2> QED
    BY <2>1, ProposalKept, Zenon
<1>2. ASSUME NEW r \in Replica, NEW i \in 1..Len(log'[r])
      PROVE  IsProposal(i, log[r][i])'
  <2>1. PICK e : e = log'[r][i]
    BY Zenon
  <2>2. CASE e.write = Noop
    BY <2>1, <2>2, Zenon DEF IsProposal
  <2>3. CASE \E q \in Replica : i \in 1..Len(log[q]) /\ e = log[q][i]
    <3>1. IsProposal(i, e)'
      BY <1>1, <2>3, Zenon
    <3> QED
      BY <2>1, <3>1, Zenon DEF IsProposal
  <2> QED
    BY <2>1, <2>2, <2>3, Zenon DEF OldLog
<1>3. ASSUME NEW r \in Replica, NEW n \in 1..Len(queue'[r])
      PROVE  IsProposal(queue[r][n][1], queue[r][n][2])'
  <2>1. PICK i, e : i = queue'[r][n][1] /\ e = queue'[r][n][2]
    BY Zenon
  <2>2. IsProposal(i, e)'
    <3>1. CASE \E m \in 1..Len(queue[r]) : queue'[r][n] = queue[r][m]
      <4>1. PICK m \in 1..Len(queue[r]) : queue'[r][n] = queue[r][m]
        BY <3>1, Zenon
      <4>2. i = queue[r][m][1] /\ e = queue[r][m][2]
        BY <2>1, <4>1, Zenon
      <4>3. e \in Entry
        <5>1. queue[r] \in Seq(Nat \X Entry)
          BY Zenon DEF Types
        <5>2. queue[r][m] \in Nat \X Entry
          BY <5>1
        <5> QED
          BY <4>2, <5>2, Zenon
      <4>4. IsProposal(i, e)
        BY <4>2, Zenon DEF Written
      <4> QED
        BY <4>3, <4>4, ProposalKept, Zenon
    <3>2. CASE \E q \in Replica : \E j \in 1..Len(log[q]) :
                  queue'[r][n][1] = j /\ queue'[r][n][2] = log[q][j]
      BY <1>1, <2>1, <3>2, Zenon
    <3> QED
      BY <3>1, <3>2, Zenon DEF OldQueue
  <2> QED
    BY <2>1, <2>2, Zenon DEF IsProposal
<1> QED
  BY <1>2, <1>3, Zenon DEF Written

\* A log and a queue that do not change bring nothing new.
LEMMA OldUnchanged ==
    ASSUME Types, NEW r \in Replica
    PROVE  /\ log'[r] = log[r] => OldLog(r)
           /\ queue'[r] = queue[r] => OldQueue(r)
BY Zenon DEF OldLog, OldQueue

\* An appended entry is an election's, or the one its call proposed.
LEMMA OldAppend ==
    ASSUME Types, NEW r \in Replica, NEW e \in Entry, log'[r] = Append(log[r], e),
           e.write = Noop \/ IsProposal(Len(log[r]), log[r][Len(log[r])])'
    PROVE  OldLog(r)
<1> DEFINE m == Len(log[r])
<1>1. /\ Len(log'[r]) = m + 1 /\ m \in Nat /\ log'[r][m + 1] = e
      /\ \A i \in 1..m : log'[r][i] = log[r][i]
  BY EntryFacts, AppendFacts
<1>2. ASSUME NEW i \in 1..Len(log'[r])
      PROVE  \/ log'[r][i].write = Noop
             \/ \E q \in Replica : i \in 1..Len(log[q]) /\ log'[r][i] = log[q][i]
             \/ IsProposal(i, log[r][i])'
  <2>1. CASE i \in 1..m
    BY <1>1, <2>1, Zenon
  <2>2. CASE i = m + 1
    BY <1>1, <2>2, Zenon
  <2> QED
    BY <1>1, <2>1, <2>2
<1> QED
  BY <1>2, Zenon DEF OldLog

\* r is handed what l's log has up to k.
HandsOver(r, l, k) ==
    /\ k <= Len(log[l]) \/ k <= commit[r]
    /\ queue'[r] = queue[r] \o Handed(r, log[l], k)

\* h is what r is handed.
HandedIs(r, l, k, h) ==
    /\ Len(queue[r]) \in Nat /\ Len(h) \in Nat
    /\ Len(queue'[r]) = Len(queue[r]) + Len(h)
    /\ \A n \in 1..Len(queue[r]) : queue'[r][n] = queue[r][n]
    /\ \A n \in 1..Len(h) : queue'[r][Len(queue[r]) + n] = h[n]
    /\ \A n \in 1..Len(h) : /\ h[n][1] \in (commit[r] + 1)..k
                            /\ h[n][1] \in 1..Len(log[l])
                            /\ h[n][2] = log[l][h[n][1]]
                            /\ log[l][h[n][1]].write # Noop
    /\ \A m, n \in 1..Len(h) : m < n => h[m][1] < h[n][1]
    /\ \A i \in (commit[r] + 1)..k : log[l][i].write # Noop =>
          \E n \in 1..Len(h) : h[n][1] = i

\* The queue after a commit is the queue before it, and then the records newly committed.
LEMMA HandedQueue ==
    ASSUME Ground, Types, NEW r \in Replica, NEW l \in Replica, NEW k \in Nat, HandsOver(r, l, k)
    PROVE  \E h \in Seq(Nat \X Entry) : HandedIs(r, l, k, h)
<1>1. log[l] \in Seq(Entry) /\ queue[r] \in Seq(Nat \X Entry)
  BY Zenon DEF Types
<1>2. PICK h : h = Handed(r, log[l], k)
  BY Zenon
<1>3. k <= Len(log[l]) \/ k <= commit[r]
  BY Zenon DEF HandsOver
<1>4. /\ h \in Seq(Nat \X Entry)
      /\ \A n \in 1..Len(h) : /\ h[n][1] \in (commit[r] + 1)..k
                              /\ h[n][1] \in 1..Len(log[l])
                              /\ h[n][2] = log[l][h[n][1]]
                              /\ log[l][h[n][1]].write # Noop
      /\ \A m, n \in 1..Len(h) : m < n => h[m][1] < h[n][1]
      /\ \A i \in (commit[r] + 1)..k : log[l][i].write # Noop =>
            \E n \in 1..Len(h) : h[n][1] = i
  BY <1>1, <1>2, <1>3, HandedFacts, ZenonT(30)
<1> DEFINE s == queue[r]
<1>5. Len(s) \in Nat /\ Len(h) \in Nat
  BY <1>1, <1>4
<1>6. queue'[r] = s \o h
  BY <1>2, Zenon DEF HandsOver
<1>7. s \in Seq(Nat \X Entry)
  BY <1>1, Zenon
<1> HIDE DEF s
<1>8. /\ Len(s \o h) = Len(s) + Len(h)
      /\ \A i \in 1..Len(s) + Len(h) : (s \o h)[i] = IF i <= Len(s) THEN s[i] ELSE h[i - Len(s)]
  BY <1>4, <1>7, ConcatFacts
<1>9. ASSUME NEW n \in 1..Len(s) PROVE (s \o h)[n] = s[n]
  BY <1>5, <1>8
<1>10. ASSUME NEW n \in 1..Len(h) PROVE (s \o h)[Len(s) + n] = h[n]
  <2>1. /\ Len(s) + n \in 1..Len(s) + Len(h) /\ ~(Len(s) + n <= Len(s))
        /\ (Len(s) + n) - Len(s) = n
    BY <1>5
  <2> QED
    BY <1>8, <2>1, Zenon
<1>11. /\ Len(queue[r]) \in Nat
       /\ Len(queue'[r]) = Len(queue[r]) + Len(h)
       /\ \A n \in 1..Len(queue[r]) : queue'[r][n] = queue[r][n]
       /\ \A n \in 1..Len(h) : queue'[r][Len(queue[r]) + n] = h[n]
  BY <1>5, <1>6, <1>8, <1>9, <1>10, Zenon DEF s
<1> h \in Seq(Nat \X Entry)
  BY <1>4, Zenon
<1> WITNESS h \in Seq(Nat \X Entry)
<1> QED
  BY <1>4, <1>5, <1>11, Zenon DEF HandedIs

\* What a commit puts in the queue comes from a log.
LEMMA OldHanded ==
    ASSUME Ground, Types, NEW r \in Replica, NEW l \in Replica, NEW k \in Nat, HandsOver(r, l, k)
    PROVE  OldQueue(r)
<1> DEFINE m == Len(queue[r])
<1>0. PICK h \in Seq(Nat \X Entry) : HandedIs(r, l, k, h)
  BY HandedQueue, Zenon
<1>1.    /\ m \in Nat /\ Len(h) \in Nat /\ Len(queue'[r]) = m + Len(h)
         /\ \A n \in 1..m : queue'[r][n] = queue[r][n]
         /\ \A n \in 1..Len(h) : queue'[r][m + n] = h[n]
         /\ \A n \in 1..Len(h) : h[n][1] \in 1..Len(log[l]) /\ h[n][2] = log[l][h[n][1]]
  BY <1>0, Zenon DEF HandedIs
<1>2. ASSUME NEW n \in 1..Len(queue'[r])
      PROVE  \/ \E j \in 1..m : queue'[r][n] = queue[r][j]
             \/ \E q \in Replica : \E i \in 1..Len(log[q]) :
                   queue'[r][n][1] = i /\ queue'[r][n][2] = log[q][i]
  <2>1. CASE n \in 1..m
    BY <1>1, <2>1, Zenon
  <2>2. CASE ~(n \in 1..m)
    <3>1. n - m \in 1..Len(h) /\ m + (n - m) = n
      <4>1. m \in Nat /\ Len(h) \in Nat /\ Len(queue'[r]) = m + Len(h)
        BY <1>1, Zenon
      <4> QED
        BY <2>2, <4>1
    <3>3. queue'[r][m + (n - m)] = h[n - m]
      BY <1>1, <3>1, Zenon
    <3>2. queue'[r][n] = h[n - m]
      BY <3>1, <3>3, Zenon
    <3>4. h[n - m][1] \in 1..Len(log[l]) /\ h[n - m][2] = log[l][h[n - m][1]]
      BY <1>1, <3>1, Zenon
    <3> QED
      BY <3>2, <3>4, Zenon
  <2> QED
    BY <2>1, <2>2, Zenon
<1> QED
  BY <1>2, Zenon DEF OldQueue

\* Catch-up hands over what the leader has committed and the follower had not.
LEMMA HandsOverReplicate ==
    ASSUME Types, RaftInv, NEW l \in Replica, NEW f \in Replica, Replicate(l, f)
    PROVE  /\ commit'[f] \in Nat /\ HandsOver(f, l, commit'[f])
           /\ commit'[f] = IF commit[f] >= commit[l] THEN commit[f] ELSE commit[l]
           /\ \A q \in Replica \ {f} : queue'[q] = queue[q] /\ commit'[q] = commit[q]
<1> DEFINE k == Max({commit[f], commit[l]})
<1>1. commit[f] \in Nat /\ commit[l] \in Nat /\ commit[l] <= Len(log[l]) /\ Len(log[l]) \in Nat
  BY DEF Types, RaftInv, Indices
<1>2. k = IF commit[f] >= commit[l] THEN commit[f] ELSE commit[l]
  BY <1>1, MaxOfTwo
<1>3. /\ commit' = [commit EXCEPT ![f] = k]
      /\ queue' = [queue EXCEPT ![f] = @ \o Handed(f, log[l], k)]
  BY Zenon DEF Replicate
<1> HIDE DEF k
<1>4. commit'[f] = k /\ queue'[f] = queue[f] \o Handed(f, log[l], k)
  BY Zenon, <1>3 DEF Types
<1>5. \A q \in Replica \ {f} : queue'[q] = queue[q] /\ commit'[q] = commit[q]
  BY <1>3, Zenon DEF Types
<1>6. k \in Nat /\ (k <= Len(log[l]) \/ k <= commit[f])
  BY <1>1, <1>2
<1> QED
  BY <1>2, <1>4, <1>5, <1>6, Zenon DEF HandsOver

\* A commit hands over what the leader had not committed yet.
LEMMA HandsOverCommit ==
    ASSUME Types, NEW l \in Replica, NEW k \in 1..Len(log[l]), Commit(l, k)
    PROVE  /\ k \in Nat /\ HandsOver(l, l, k) /\ commit'[l] = k /\ k > commit[l]
           /\ \A q \in Replica \ {l} : queue'[q] = queue[q] /\ commit'[q] = commit[q]
<1>1. /\ commit' = [commit EXCEPT ![l] = k]
      /\ queue' = [queue EXCEPT ![l] = @ \o Handed(l, log[l], k)] /\ k > commit[l]
  BY Zenon DEF Commit
<1>2. k \in Nat /\ k <= Len(log[l])
  BY EntryFacts
<1>3. commit'[l] = k /\ queue'[l] = queue[l] \o Handed(l, log[l], k)
  BY <1>1, Zenon DEF Types
<1>4. \A q \in Replica \ {l} : queue'[q] = queue[q] /\ commit'[q] = commit[q]
  BY <1>1, Zenon DEF Types
<1> QED
  BY <1>1, <1>2, <1>3, <1>4, Zenon DEF HandsOver

\* Every step keeps every entry at the index and the offset its call was told.
LEMMA WrittenStep ==
    ASSUME Ground, Types, Types', Written, Counted, RaftInv, Next
    PROVE  Written'
<1> USE CallsStep
<1>1. ASSUME NEW r \in Replica, NEW Q \in Majority, Elect(r, Q) PROVE Written'
  <2> DEFINE e == [term |-> Max({term[q] : q \in Replica}) + 1, write |-> Noop, base |-> 0]
  <2>1. log' = [log EXCEPT ![r] = Append(@, e)] /\ queue' = queue
    BY <1>1, Zenon DEF Elect, store
  <2>2. log'[r] = Append(log[r], e) /\ \A q \in Replica \ {r} : log'[q] = log[q]
    BY <2>1, Zenon DEF Types
  <2>3. e.write = Noop
    BY Zenon
  <2> HIDE DEF e
  <2>4. e \in Entry
    <3>1. log[r] \in Seq(Entry) /\ log'[r] \in Seq(Entry)
      BY Zenon DEF Types
    <3>2. Append(log[r], e)[Len(log[r]) + 1] = e /\ Len(Append(log[r], e)) = Len(log[r]) + 1
      BY <3>1
    <3> QED
      BY <2>2, <3>1, <3>2
  <2> QED
    BY <2>1, <2>2, <2>3, <2>4, OldAppend, OldUnchanged, WrittenFrom, Zenon
<1>2. ASSUME NEW l \in Replica, NEW f \in Replica, Replicate(l, f) PROVE Written'
  <2>1. commit'[f] \in Nat /\ HandsOver(f, l, commit'[f])
        /\ \A q \in Replica \ {f} : queue'[q] = queue[q]
    BY <1>2, HandsOverReplicate, Zenon
  <2>2. PICK k \in Nat : HandsOver(f, l, k)
    BY <2>1, Zenon
  <2>3. log' = [log EXCEPT ![f] = log[l]]
    BY <1>2, Zenon DEF Replicate
  <2>4. log'[f] = log[l] /\ \A q \in Replica \ {f} : log'[q] = log[q]
    BY <2>3, Zenon DEF Types
  <2>5. OldLog(f)
    BY <2>4, Zenon DEF OldLog
  <2> QED
    BY <2>1, <2>2, <2>4, <2>5, OldHanded, OldUnchanged, WrittenFrom, Zenon
<1>3. ASSUME NEW l \in Replica, NEW f \in Replica, Install(l, f) PROVE Written'
  <2>1. /\ Len(log'[f]) = base[l] /\ \A i \in 1..base[l] : log'[f][i] = log[l][i]
        /\ base[l] \in Nat /\ Len(log[l]) \in Nat /\ base[l] <= Len(log[l])
    <3>1. base[l] \in Nat /\ commit[l] \in Nat /\ Len(log[l]) \in Nat
      BY DEF Types
    <3>2. base[l] <= commit[l] /\ commit[l] <= Len(log[l])
      BY Zenon DEF RaftInv, Indices
    <3>3. Len(log'[f]) = base[l] /\ \A i \in 1..base[l] : log'[f][i] = log[l][i]
      BY <1>3, RaftInstall, Zenon
    <3> QED
      BY <3>1, <3>2, <3>3
  <2>2. log' = [log EXCEPT ![f] = SubSeq(log[l], 1, base[l])] /\ queue' = queue
    BY <1>3, Zenon DEF Install
  <2>3. \A q \in Replica \ {f} : log'[q] = log[q]
    BY <2>2, Zenon DEF Types
  <2>4. OldLog(f)
    BY <2>1 DEF OldLog
  <2> QED
    BY <2>2, <2>3, <2>4, OldUnchanged, WrittenFrom, Zenon
<1>4. ASSUME NEW l \in Replica, NEW k \in 1..Len(log[l]), Commit(l, k) PROVE Written'
  <2>1. k \in Nat /\ HandsOver(l, l, k) /\ \A q \in Replica \ {l} : queue'[q] = queue[q]
    BY <1>4, HandsOverCommit, Zenon
  <2>2. log' = log
    BY <1>4, Zenon DEF Commit
  <2> QED
    BY <2>1, <2>2, OldHanded, OldUnchanged, WrittenFrom, Zenon
<1>5. ASSUME NEW w \in Write, NEW r \in Replica, Begin(w, r) PROVE Written'
  BY <1>5, OldUnchanged, WrittenFrom, Zenon DEF Begin, raft, store
<1>6. ASSUME NEW w \in Write, Propose(w) PROVE Written'
  <2>1. pc[w] = "based" /\ queue' = queue /\ offset' = offset
    BY <1>6, Zenon DEF Propose, store
  <2>2. PICK r \in Replica : r = at[w]
    BY <2>1, Zenon DEF Counted
  <2>3. CASE leads[r]
    <3> DEFINE e == [term |-> term[r], write |-> w, base |-> offset[w]]
    <3>1. /\ log' = [log EXCEPT ![r] = Append(@, e)]
          /\ index' = [index EXCEPT ![w] = Len(log[r]) + 1]
          /\ pc' = [pc EXCEPT ![w] = "accepted"]
      BY <1>6, <2>2, <2>3, Zenon DEF Propose
    <3>2. /\ log'[r] = Append(log[r], e) /\ \A q \in Replica \ {r} : log'[q] = log[q]
          /\ index'[w] = Len(log[r]) + 1 /\ pc'[w] = "accepted"
      BY <2>2, <3>1, Zenon DEF Types
    <3>3. e \in Entry /\ e.write = w /\ e.base = offset[w]
      BY <2>2, Zenon DEF Types, Entry
    <3> HIDE DEF e
    <3>4. log[r] \in Seq(Entry) /\ r \in Replica
      BY <2>2, Zenon DEF Types
    <3>5. Len(log'[r]) = Len(log[r]) + 1 /\ log'[r][Len(log[r]) + 1] = e
      BY <3>2, <3>3, <3>4, AppendFacts
    <3>6. IsProposal(Len(log[r]), log[r][Len(log[r])])'
      <4>1. log'[r][Len(log'[r])] = e
        BY <3>5, Zenon
      <4> QED
        BY <2>1, <3>2, <3>3, <3>5, <4>1, Zenon DEF IsProposal
    <3>7. OldLog(r)
      BY <3>2, <3>3, <3>4, <3>6, OldAppend, Zenon
    <3> QED
      BY <2>1, <3>2, <3>7, OldUnchanged, WrittenFrom, Zenon
  <2>4. CASE ~leads[r]
    <3>1. log' = log
      BY <1>6, <2>2, <2>4, Zenon DEF Propose
    <3> QED
      BY <2>1, <3>1, OldUnchanged, WrittenFrom, Zenon
  <2> QED
    BY <2>3, <2>4, Zenon
<1>7. ASSUME NEW w \in Write, NoteIndex(w) \/ CommitTimeout(w) PROVE Written'
  BY <1>7, OldUnchanged, WrittenFrom, Zenon DEF NoteIndex, CommitTimeout, raft, store
<1>8. ASSUME NEW r \in Replica, Apply(r) PROVE Written'
  <2>1. queue[r] # << >> /\ queue' = [queue EXCEPT ![r] = Tail(@)] /\ log' = log
    BY <1>8, Zenon DEF Apply, raft
  <2>2. queue[r] \in Seq(Nat \X Entry) /\ queue'[r] = Tail(queue[r])
        /\ \A q \in Replica \ {r} : queue'[q] = queue[q]
    BY <2>1, Zenon DEF Types
  <2>3. /\ Len(queue'[r]) = Len(queue[r]) - 1 /\ Len(queue[r]) \in Nat
        /\ \A n \in 1..Len(queue'[r]) : queue'[r][n] = queue[r][n + 1]
    <3> DEFINE s == queue[r]
    <3>1. s \in Seq(Nat \X Entry) /\ s # << >> /\ queue'[r] = Tail(s)
      BY <2>1, <2>2, Zenon
    <3> HIDE DEF s
    <3>2. Len(Tail(s)) = Len(s) - 1 /\ \A n \in 1..Len(Tail(s)) : Tail(s)[n] = s[n + 1]
      BY <3>1, TailFacts, Zenon
    <3>3. Len(s) \in Nat
      BY <3>1
    <3> QED
      BY <3>1, <3>2, <3>3, Zenon DEF s
  <2>4. OldQueue(r)
    BY <2>3 DEF OldQueue
  <2> QED
    BY <2>1, <2>2, <2>4, OldUnchanged, WrittenFrom, Zenon
<1>9. ASSUME NEW r \in Replica, Snapshot(r) PROVE Written'
  BY <1>9, OldUnchanged, WrittenFrom, Zenon DEF Snapshot
<1>10. ASSUME NEW r \in Replica, NEW end \in Offsets, Restart(r, end) PROVE Written'
  <2>1. queue' = [queue EXCEPT ![r] = << >>] /\ log' = log
    BY <1>10, Zenon DEF Restart
  <2>2. queue'[r] = << >> /\ \A q \in Replica \ {r} : queue'[q] = queue[q]
    BY <2>1, Zenon DEF Types
  <2>3. OldQueue(r)
    BY <2>2 DEF OldQueue
  <2> QED
    BY <2>1, <2>2, <2>3, OldUnchanged, WrittenFrom, Zenon
<1> QED
  BY <1>1, <1>2, <1>3, <1>4, <1>5, <1>6, <1>7, <1>8, <1>9, <1>10, Zenon DEF Next

\* A step after which no more calls have begun, and no offset has gone up.
LEMMA CountedKept ==
    ASSUME Ground, Types, Types', Counted, CallsKept,
           \A r \in Replica : /\ next'[r] <= next[r] \/ next'[r] <= Cardinality(Begun)
                              /\ synced'[r] <= next'[r],
           \A w \in Write : pc[w] = "idle" => pc'[w] = "idle"
    PROVE  Counted'
<1>1. Begun' = Begun
  BY Zenon DEF Begun, CallsKept
<1>2. \A r \in Replica : next[r] \in Nat /\ next'[r] \in Nat
  <2>1. \A r \in Replica : next[r] \in Offsets /\ next'[r] \in Offsets
    BY Zenon DEF Types
  <2> QED
    BY <2>1, OffsetsFacts, Zenon
<1>3. ASSUME NEW w \in Write, pc'[w] # "idle"
      PROVE  offset'[w] < Cardinality(Begun) /\ at'[w] \in Replica
  <2>1. pc[w] # "idle"
    BY <1>3, Zenon
  <2> QED
    BY <2>1, Zenon DEF Counted, CallsKept
<1>4. ASSUME NEW r \in Replica PROVE next'[r] <= Cardinality(Begun)
  BY <1>2, BegunFacts DEF Counted
<1> QED
  BY <1>1, <1>3, <1>4, Zenon DEF Counted

\* Every step keeps the offsets below the number of calls begun.
LEMMA CountedStep ==
    ASSUME Ground, Types, Types', Written, Counted, RaftInv, QueueInOrder, Next
    PROVE  Counted'
<1> USE CallsStep
<1>0. \A r \in Replica : /\ next[r] \in Nat /\ synced[r] \in Nat /\ next[r] <= next[r]
                         /\ synced[r] <= next[r] /\ next[r] <= Cardinality(Begun)
  <2>1. \A r \in Replica : next[r] \in Offsets /\ synced[r] \in Offsets
    BY Zenon DEF Types
  <2> QED
    BY <2>1, OffsetsFacts DEF Counted
<1>1. ASSUME UNCHANGED <<next, synced, pc>> PROVE Counted'
  BY <1>0, <1>1, CountedKept, Zenon
<1>2. ASSUME NEW r \in Replica, NEW Q \in Majority, Elect(r, Q) PROVE Counted'
  BY <1>1, <1>2, Zenon DEF Elect, store, calls
<1>3. ASSUME NEW l \in Replica, NEW f \in Replica, Replicate(l, f) PROVE Counted'
  BY <1>1, <1>3, Zenon DEF Replicate, calls
<1>4. ASSUME NEW l \in Replica, NEW f \in Replica, Install(l, f) PROVE Counted'
  <2>1. /\ next' = [next EXCEPT ![f] = Max({@, synced[l]})]
        /\ synced' = [synced EXCEPT ![f] = next'[f]] /\ pc' = pc
    BY <1>4, Zenon DEF Install, calls
  <2>2. Max({next[f], synced[l]}) = IF next[f] >= synced[l] THEN next[f] ELSE synced[l]
    <3>1. next[f] \in Int /\ synced[l] \in Int
      BY <1>0
    <3> QED
      BY <3>1, MaxOfTwo, Zenon
  <2>3. next'[f] = IF next[f] >= synced[l] THEN next[f] ELSE synced[l]
    BY <2>1, <2>2, Zenon DEF Types
  <2>4. /\ synced'[f] = next'[f]
        /\ \A r \in Replica \ {f} : next'[r] = next[r] /\ synced'[r] = synced[r]
    BY <2>1, ZenonT(30) DEF Types
  <2>5. ASSUME NEW r \in Replica
        PROVE  /\ next'[r] <= next[r] \/ next'[r] <= Cardinality(Begun)
               /\ synced'[r] <= next'[r]
    <3>1. CASE r = f
      BY SMTT(30), <1>0, <2>3, <2>4, <3>1, BegunFacts
    <3>2. CASE r # f
      BY <1>0, <2>4, <3>2, Zenon
    <3> QED
      BY <3>1, <3>2, Zenon
  <2> QED
    BY <2>1, <2>5, CountedKept, Zenon
<1>5. ASSUME NEW l \in Replica, NEW k \in 1..Len(log[l]), Commit(l, k) PROVE Counted'
  BY <1>1, <1>5, Zenon DEF Commit, calls
<1>6. ASSUME NEW w \in Write, NEW r \in Replica, Begin(w, r) PROVE Counted'
  <2>1. /\ pc[w] = "idle" /\ pc' = [pc EXCEPT ![w] = "based"] /\ at' = [at EXCEPT ![w] = r]
        /\ offset' = [offset EXCEPT ![w] = NextAssignable(r)] /\ UNCHANGED <<next, synced>>
    BY <1>6, Zenon DEF Begin, store
  <2>2. Begun' = Begun \cup {w} /\ w \notin Begun
    <3>1. \A v \in Write : pc'[v] = IF v = w THEN "based" ELSE pc[v]
      BY <2>1, Zenon DEF Types
    <3> QED
      BY <2>1, <3>1 DEF Begun
  <2>3. Cardinality(Begun') = Cardinality(Begun) + 1
    <3>1. Begun \in SUBSET Write
      BY Zenon DEF Begun
    <3> QED
      BY <2>2, <3>1, Zenon DEF Ground
  <2>4. NextAssignable(r) \in Nat /\ NextAssignable(r) <= Cardinality(Begun)
    BY NextAssignableFacts, Zenon
  <2>5. Cardinality(Begun) \in Nat
    BY BegunFacts, Zenon
  <2>6. ASSUME NEW v \in Write, pc'[v] # "idle"
        PROVE  offset'[v] < Cardinality(Begun') /\ at'[v] \in Replica
    <3>1. CASE v = w
      BY SMTT(30), <2>1, <2>3, <2>4, <2>5, <3>1 DEF Types
    <3>2. CASE v # w
      <4>1. pc[v] # "idle" /\ offset'[v] = offset[v] /\ at'[v] = at[v]
        BY <2>1, <2>6, <3>2, Zenon DEF Types
      <4>2. offset[v] \in Nat
        <5>1. offset[v] \in Offsets
          BY Zenon DEF Types
        <5> QED
          BY <5>1, OffsetsFacts, Zenon
      <4> QED
        BY SMTT(30), <2>3, <2>5, <4>1, <4>2 DEF Counted
    <3> QED
      BY <3>1, <3>2, Zenon
  <2>7. \A q \in Replica : next'[q] <= Cardinality(Begun') /\ synced'[q] <= next'[q]
    BY <1>0, <2>1, <2>3, <2>5
  <2> QED
    BY <2>6, <2>7, Zenon DEF Counted
<1>7. ASSUME NEW w \in Write, Propose(w) PROVE Counted'
  <2>1. pc[w] = "based" /\ UNCHANGED <<next, synced>>
    BY <1>7, Zenon DEF Propose, store
  <2>2. pc' = [pc EXCEPT ![w] = "accepted"] \/ pc' = [pc EXCEPT ![w] = "not leader"]
    BY <1>7, Zenon DEF Propose
  <2>3. \A v \in Write : pc[v] = "idle" => pc'[v] = "idle"
    BY <2>1, <2>2, Zenon DEF Types
  <2> QED
    BY <1>0, <2>1, <2>3, CountedKept, Zenon
<1>8. ASSUME NEW w \in Write, NoteIndex(w) \/ CommitTimeout(w) PROVE Counted'
  <2>1. UNCHANGED <<next, synced>>
    BY <1>8, Zenon DEF NoteIndex, CommitTimeout, store
  <2>2. \A v \in Write : pc[v] = "idle" => pc'[v] = "idle"
    BY <1>8, Zenon DEF Types, NoteIndex, CommitTimeout
  <2> QED
    BY <1>0, <2>1, <2>2, CountedKept, Zenon
<1>9. ASSUME NEW r \in Replica, Apply(r) PROVE Counted'
  <2> DEFINE i == Head(queue[r])[1]
             e == Head(queue[r])[2]
  <2>1. /\ queue[r] # << >> /\ pc' = Answered(r, i, e) /\ synced' = synced
        /\ \/ e.base >= next[r] /\ next' = [next EXCEPT ![r] = e.base + 1]
           \/ next' = next
    BY <1>9, Zenon DEF Apply
  <2>2. queue[r] \in Seq(Nat \X Entry) /\ 1 \in 1..Len(queue[r]) /\ Head(queue[r]) = queue[r][1]
    <3>1. queue[r] \in Seq(Nat \X Entry)
      BY Zenon DEF Types
    <3>2. queue[r] # << >>
      BY <2>1, Zenon
    <3> QED
      BY <3>1, <3>2
  <2>3. e \in Entry
    BY SMTT(30), <2>2
  <2>4. e.write # Noop /\ IsProposal(i, e)
    BY <2>2 DEF QueueInOrder, InOrder, IsData, Written
  <2> HIDE DEF i, e
  <2>5. e.write \in Write /\ e.base \in Nat
    BY <2>3, <2>4, OffsetsFacts, Zenon DEF Entry
  <2>6. e.base < Cardinality(Begun)
    BY <2>4, <2>5, Zenon DEF Counted, IsProposal
  <2>7. \A v \in Write : pc[v] = "idle" => pc'[v] = "idle"
    BY <2>1, AnsweredKept, Zenon
  <2>8. ASSUME NEW q \in Replica
        PROVE  /\ next'[q] <= next[q] \/ next'[q] <= Cardinality(Begun)
               /\ synced'[q] <= next'[q]
    <3>1. CASE next' = next
      BY <1>0, <2>1, <3>1, Zenon
    <3>2. CASE e.base >= next[r] /\ next' = [next EXCEPT ![r] = e.base + 1]
      <4>1. q = r => next'[q] = e.base + 1
        BY <3>2, Zenon DEF Types
      <4>2. q # r => next'[q] = next[q]
        BY <3>2, Zenon DEF Types
      <4> QED
        BY SMTT(30), <1>0, <2>1, <2>5, <2>6, <3>2, <4>1, <4>2, BegunFacts
    <3> QED
      BY <2>1, <3>1, <3>2, Zenon
  <2> QED
    BY <2>7, <2>8, CountedKept, Zenon
<1>10. ASSUME NEW r \in Replica, Snapshot(r) PROVE Counted'
  <2>1. synced' = [synced EXCEPT ![r] = next[r]] /\ next' = next /\ pc' = pc
    BY <1>10, Zenon DEF Snapshot, calls
  <2>2. \A q \in Replica : synced'[q] <= next'[q]
    BY <1>0, <2>1, Zenon DEF Types
  <2> QED
    BY <1>0, <2>1, <2>2, CountedKept, Zenon
<1>11. ASSUME NEW r \in Replica, NEW end \in Offsets, Restart(r, end) PROVE Counted'
  <2>1. /\ synced' = synced /\ next' = [next EXCEPT ![r] = end] /\ end \in synced[r]..next[r]
        /\ pc' = [w \in Write |-> IF at[w] = r /\ pc[w] \in {"based", "accepted", "waiting"}
                                  THEN "gone" ELSE pc[w]]
    BY <1>11, Zenon DEF Restart
  <2>2. \A v \in Write : pc[v] = "idle" => pc'[v] = "idle"
    BY <2>1, Zenon
  <2>3. \A q \in Replica : next'[q] <= next[q] /\ synced'[q] <= next'[q]
    BY <1>0, <2>1 DEF Types
  <2> QED
    BY <2>2, <2>3, CountedKept, Zenon
<1> QED
  BY <1>2, <1>3, <1>4, <1>5, <1>6, <1>7, <1>8, <1>9, <1>10, <1>11, Zenon DEF Next

\* The head of the queue is a committed record, not yet applied.
LEMMA HeadFacts ==
    ASSUME Ground, Types, QueueInOrder, NEW r \in Replica, queue[r] # << >>
    PROVE  LET i == Head(queue[r])[1]
               e == Head(queue[r])[2]
           IN  /\ i \in Nat /\ i > applied[r] /\ i <= commit[r] /\ e = log[r][i]
               /\ e.write # Noop /\ e \in Entry /\ e.write \in Write /\ e.base \in Nat
               /\ e.base \in Offsets
<1>1. queue[r] \in Seq(Nat \X Entry)
  BY Zenon DEF Types
<1>2. 1 \in 1..Len(queue[r]) /\ Head(queue[r]) = queue[r][1] /\ queue[r][1] \in Nat \X Entry
  BY <1>1
<1> DEFINE i == queue[r][1][1]
           e == queue[r][1][2]
<1>3. i \in Nat /\ e \in Entry
  BY <1>2, Zenon
<1>4. i > applied[r] /\ i <= commit[r] /\ e = log[r][i] /\ e.write # Noop
  BY <1>2, Zenon DEF QueueInOrder, InOrder, IsData
<1> HIDE DEF i, e
<1>5. e.write \in Write /\ e.base \in Offsets
  BY <1>3, <1>4, Zenon DEF Entry
<1>6. e.base \in Nat
  BY <1>5, OffsetsFacts, Zenon
<1> QED
  BY <1>2, <1>3, <1>4, <1>5, <1>6, Zenon DEF i, e

\* Every step keeps the Raft invariant, and every committed entry stays.
LEMMA RaftStep ==
    ASSUME Ground, Types, Types', Counted, RaftInv, QueueInOrder, Next
    PROVE  RaftInv' /\ Stays
<1>0. \A r \in Replica : /\ commit[r] \in Nat /\ base[r] \in Nat /\ applied[r] \in Nat
                         /\ base[r] <= commit[r] /\ applied[r] <= commit[r]
  BY Zenon DEF Types, RaftInv, Indices
<1>1. ASSUME NEW r \in Replica, NEW Q \in Majority, Elect(r, Q) PROVE RaftInv' /\ Stays
  BY <1>1, RaftElect, Zenon
<1>2. ASSUME NEW l \in Replica, NEW f \in Replica, Replicate(l, f) PROVE RaftInv' /\ Stays
  BY <1>2, RaftReplicate, Zenon
<1>3. ASSUME NEW l \in Replica, NEW f \in Replica, Install(l, f) PROVE RaftInv' /\ Stays
  BY <1>3, RaftInstall, Zenon
<1>4. ASSUME NEW l \in Replica, NEW k \in 1..Len(log[l]), Commit(l, k) PROVE RaftInv' /\ Stays
  BY <1>4, RaftCommit, Zenon
<1>5. ASSUME UNCHANGED <<raft, applied>> PROVE RaftInv' /\ Stays
  <2>1. UNCHANGED <<log, term, leads, commit, base, applied>>
    BY <1>5, Zenon DEF raft
  <2>2. \A r \in Replica : /\ base'[r] <= commit'[r] /\ applied'[r] <= commit'[r]
                           /\ commit'[r] <= commit[r]
    BY <1>0, <2>1
  <2> QED
    BY <2>1, <2>2, RaftQuiet, Zenon
<1>6. ASSUME NEW w \in Write, NEW r \in Replica, Begin(w, r) PROVE RaftInv' /\ Stays
  BY <1>5, <1>6, Zenon DEF Begin, store
<1>7. ASSUME NEW w \in Write, Propose(w) PROVE RaftInv' /\ Stays
  <2>1. pc[w] = "based" /\ UNCHANGED <<term, leads, commit, base, applied>>
    BY <1>7, Zenon DEF Propose, store
  <2>2. PICK r \in Replica : r = at[w]
    BY <2>1, Zenon DEF Counted
  <2>3. CASE leads[r]
    <3> DEFINE e == [term |-> term[r], write |-> w, base |-> offset[w]]
    <3>1. log' = [log EXCEPT ![r] = Append(@, e)]
      BY <1>7, <2>2, <2>3, Zenon DEF Propose
    <3>2. e \in Entry /\ e.term = term[r]
      BY <2>2, Zenon DEF Types, Entry
    <3> HIDE DEF e
    <3>3. Takes(r, e)
      BY <2>1, <2>3, <3>1, <3>2, Zenon DEF Takes
    <3> QED
      BY <2>1, <3>2, <3>3, RaftTakes, Zenon
  <2>4. CASE ~leads[r]
    BY <1>5, <1>7, <2>1, <2>2, <2>4, Zenon DEF Propose, raft
  <2> QED
    BY <2>3, <2>4, Zenon
<1>8. ASSUME NEW w \in Write, NoteIndex(w) \/ CommitTimeout(w) PROVE RaftInv' /\ Stays
  BY <1>5, <1>8, Zenon DEF NoteIndex, CommitTimeout, store
<1>9. ASSUME NEW r \in Replica, Apply(r) PROVE RaftInv' /\ Stays
  <2>1. /\ queue[r] # << >> /\ applied' = [applied EXCEPT ![r] = Head(queue[r])[1]]
        /\ UNCHANGED <<log, term, leads, commit, base>>
    BY <1>9, Zenon DEF Apply, raft
  <2>2. Head(queue[r])[1] \in Nat /\ Head(queue[r])[1] <= commit[r]
    BY <2>1, HeadFacts, Zenon
  <2>3. \A q \in Replica : /\ base'[q] <= commit'[q] /\ applied'[q] <= commit'[q]
                           /\ commit'[q] <= commit[q]
    <3> DEFINE i == Head(queue[r])[1]
    <3> HIDE DEF i
    <3>1. applied'[r] = i /\ \A q \in Replica \ {r} : applied'[q] = applied[q]
      BY <2>1, Zenon DEF Types, i
    <3>2. i \in Nat /\ i <= commit[r]
      BY <2>2, Zenon DEF i
    <3>3. commit' = commit /\ base' = base
      BY <2>1, Zenon
    <3>4. ASSUME NEW q \in Replica
          PROVE  /\ base'[q] <= commit'[q] /\ applied'[q] <= commit'[q]
                 /\ commit'[q] <= commit[q]
      BY <1>0, <3>1, <3>2, <3>3
    <3> QED
      BY <3>4, Zenon
  <2> QED
    BY <2>1, <2>3, RaftQuiet, Zenon
<1>10. ASSUME NEW r \in Replica, Snapshot(r) PROVE RaftInv' /\ Stays
  <2>1. base' = [base EXCEPT ![r] = applied[r]] /\ UNCHANGED <<log, term, leads, commit, applied>>
    BY <1>10, Zenon DEF Snapshot
  <2>2. \A q \in Replica : /\ base'[q] <= commit'[q] /\ applied'[q] <= commit'[q]
                           /\ commit'[q] <= commit[q]
    BY SMTT(30), <1>0, <2>1 DEF Types
  <2> QED
    BY <2>1, <2>2, RaftQuiet, Zenon
<1>11. ASSUME NEW r \in Replica, NEW end \in Offsets, Restart(r, end) PROVE RaftInv' /\ Stays
  <2>1. /\ leads' = [leads EXCEPT ![r] = FALSE] /\ commit' = [commit EXCEPT ![r] = base[r]]
        /\ applied' = [applied EXCEPT ![r] = base[r]] /\ UNCHANGED <<log, term, base>>
    BY <1>11, Zenon DEF Restart
  <2>2. \A q \in Replica : /\ base'[q] <= commit'[q] /\ applied'[q] <= commit'[q]
                           /\ commit'[q] <= commit[q]
    BY SMTT(30), <1>0, <2>1 DEF Types
  <2>3. \A q \in Replica : leads'[q] => leads[q]
    BY <2>1, Zenon DEF Types
  <2> QED
    BY <2>1, <2>2, <2>3, RaftQuiet, Zenon
<1> QED
  BY <1>1, <1>2, <1>3, <1>4, <1>6, <1>7, <1>8, <1>9, <1>10, <1>11, ZenonT(30) DEF Next

-----------------------------------------------------------------------------
(* The apply queue *)

\* The types of what the queue of r is compared with.
LEMMA QueueFacts ==
    ASSUME Ground, Types, NEW r \in Replica
    PROVE  /\ commit[r] \in Nat /\ base[r] \in Nat /\ applied[r] \in Nat
           /\ next[r] \in Nat /\ synced[r] \in Nat
           /\ Len(queue[r]) \in Nat /\ \A n \in 1..Len(queue[r]) : queue[r][n][1] \in Nat
<1>1. next[r] \in Offsets /\ synced[r] \in Offsets
  BY Zenon DEF Types
<1>2. next[r] \in Nat /\ synced[r] \in Nat
  BY <1>1, OffsetsFacts, Zenon
<1> QED
  BY SMTT(30), <1>2 DEF Types

\* A committed index is one of the log.
LEMMA CommittedBase ==
    ASSUME Ground, Types, RaftInv, NEW r \in Replica, NEW i \in 1..commit[r]
    PROVE  i \in 1..Len(log[r]) /\ log[r][i].base \in Nat /\ i \in Nat
<1>1. i \in 1..Len(log[r]) /\ i \in Nat
  BY QueueFacts, EntryFacts DEF RaftInv, Indices
<1>2. log[r][i].base \in Offsets
  BY <1>1, EntryFacts, Zenon DEF Entry
<1> QED
  BY <1>1, <1>2, OffsetsFacts, Zenon

\* A replica that takes no part in a step.
LEMMA QueueKept ==
    ASSUME Ground, Types, RaftInv, Stays, NEW r \in Replica, InOrder(r), Handled(r),
           /\ queue'[r] = queue[r] /\ applied'[r] = applied[r] /\ commit'[r] = commit[r]
           /\ base'[r] = base[r] /\ next'[r] = next[r] /\ synced'[r] = synced[r]
    PROVE  InOrder(r)' /\ Handled(r)'
<1>1. \A i \in 1..commit[r] : log'[r][i] = log[r][i]
  BY Zenon DEF Stays
<1>2. \A n \in 1..Len(queue[r]) : queue[r][n][1] \in 1..commit[r]
  BY QueueFacts DEF InOrder
<1>3. InOrder(r)'
  BY <1>1, <1>2, Zenon DEF InOrder, IsData
<1>4. Handled(r)'
  <2>1. \A i \in 1..commit[r] : /\ IsData(r, i)' <=> IsData(r, i)
                                /\ Queued(r, i)' <=> Queued(r, i)
                                /\ log'[r][i].base = log[r][i].base
    BY <1>1, Zenon DEF IsData, Queued
  <2> QED
    BY <2>1, Zenon DEF Handled
<1> QED
  BY <1>3, <1>4, Zenon

\* What lies past the end c of what is done lies past anything done.
LEMMA PastEnd ==
    ASSUME NEW c \in Nat, NEW k \in Nat, NEW a \in Nat, a <= c, NEW x \in (c + 1)..k
    PROVE  x > a /\ x <= k
OBVIOUS

\* A commit or a catch-up puts the new records at the end of the queue.
LEMMA QueueHanded ==
    ASSUME Ground, Types, Types', RaftInv, Stays, NEW r \in Replica, NEW l \in Replica, NEW k \in Nat,
           InOrder(r), Handled(r), HandsOver(r, l, k),
           /\ commit'[r] = k /\ commit[r] <= k /\ \A i \in (commit[r] + 1)..k : log'[r][i] = log[l][i]
           /\ applied'[r] = applied[r] /\ base'[r] = base[r] /\ next'[r] = next[r]
           /\ synced'[r] = synced[r]
    PROVE  InOrder(r)' /\ Handled(r)'
<1> DEFINE m == Len(queue[r])
<1>0. PICK h \in Seq(Nat \X Entry) : HandedIs(r, l, k, h)
  BY HandedQueue, Zenon
<1>1.    /\ m \in Nat /\ Len(h) \in Nat /\ Len(queue'[r]) = m + Len(h)
         /\ \A n \in 1..m : queue'[r][n] = queue[r][n]
         /\ \A n \in 1..Len(h) : queue'[r][m + n] = h[n]
         /\ \A n \in 1..Len(h) : /\ h[n][1] \in (commit[r] + 1)..k
                                 /\ h[n][2] = log[l][h[n][1]]
                                 /\ log[l][h[n][1]].write # Noop
         /\ \A i, j \in 1..Len(h) : i < j => h[i][1] < h[j][1]
         /\ \A i \in (commit[r] + 1)..k : log[l][i].write # Noop =>
               \E n \in 1..Len(h) : h[n][1] = i
  BY <1>0, Zenon DEF HandedIs
<1>2. /\ commit[r] \in Nat /\ applied[r] \in Nat /\ base[r] \in Nat
      /\ applied[r] <= commit[r] /\ base[r] <= commit[r]
  BY Zenon DEF Types, RaftInv, Indices
<1>3. \A i \in 1..commit[r] : log'[r][i] = log[r][i]
  BY Zenon DEF Stays
<1>4. ASSUME NEW n \in 1..m
      PROVE  /\ queue'[r][n] = queue[r][n] /\ queue[r][n][1] \in 1..commit[r]
             /\ queue[r][n][1] > applied[r] /\ queue[r][n][2] = log'[r][queue[r][n][1]]
             /\ log'[r][queue[r][n][1]].write # Noop
  <2> DEFINE x == queue[r][n][1]
  <2>1. x > applied[r] /\ x <= commit[r] /\ queue[r][n][2] = log[r][x] /\ log[r][x].write # Noop
    BY Zenon DEF InOrder, IsData
  <2>2. x \in Nat
    BY QueueFacts, Zenon
  <2>3. queue'[r][n] = queue[r][n]
    BY <1>1, Zenon
  <2> HIDE DEF x
  <2>4. x \in 1..commit[r] /\ log'[r][x] = log[r][x]
    BY <1>2, <1>3, <2>1, <2>2
  <2> QED
    BY <2>1, <2>3, <2>4, Zenon DEF x
<1>5. ASSUME NEW n \in 1..Len(queue'[r]), ~(n <= m)
      PROVE  /\ n - m \in 1..Len(h) /\ queue'[r][n] = h[n - m]
             /\ h[n - m][1] \in (commit[r] + 1)..k
             /\ h[n - m][2] = log'[r][h[n - m][1]]
             /\ log'[r][h[n - m][1]].write # Noop
  <2>1. n - m \in 1..Len(h) /\ m + (n - m) = n
    BY <1>1, <1>5
  <2>2. queue'[r][m + (n - m)] = h[n - m]
    BY <1>1, <2>1, Zenon
  <2>3. h[n - m][1] \in (commit[r] + 1)..k /\ h[n - m][2] = log[l][h[n - m][1]]
        /\ log[l][h[n - m][1]].write # Noop
    BY <1>1, <2>1, Zenon
  <2>4. log'[r][h[n - m][1]] = log[l][h[n - m][1]]
    BY <2>3, Zenon
  <2> QED
    BY <2>1, <2>2, <2>3, <2>4, Zenon
<1>6. InOrder(r)'
  <2>1. ASSUME NEW n \in 1..Len(queue'[r])
        PROVE  /\ queue'[r][n][1] > applied[r] /\ queue'[r][n][1] <= k
               /\ queue'[r][n][2] = log'[r][queue'[r][n][1]]
               /\ log'[r][queue'[r][n][1]].write # Noop
    <3>1. CASE n <= m
      <4>1. n \in 1..m
        BY <1>1, <3>1
      <4> DEFINE x == queue[r][n]
      <4>2. queue'[r][n] = x /\ x[1] \in 1..commit[r] /\ x[1] > applied[r] /\ x[2] = log'[r][x[1]]
            /\ log'[r][x[1]].write # Noop
        BY <1>4, <4>1, Zenon
      <4> HIDE DEF x
      <4> QED
        BY SMTT(30), <1>2, <4>2
    <3>2. CASE ~(n <= m)
      <4> DEFINE x == h[n - m]
      <4>1. queue'[r][n] = x /\ x[1] \in (commit[r] + 1)..k /\ x[2] = log'[r][x[1]]
            /\ log'[r][x[1]].write # Noop
        BY <1>5, <3>2, Zenon
      <4> HIDE DEF x
      <4>2. x[1] > applied[r] /\ x[1] <= k
        BY <1>2, <4>1, PastEnd, Zenon
      <4> QED
        BY <4>1, <4>2, Zenon
    <3> QED
      BY <3>1, <3>2, Zenon
  <2>2. ASSUME NEW i \in 1..Len(queue'[r]), NEW j \in 1..Len(queue'[r]), i < j
        PROVE  queue'[r][i][1] < queue'[r][j][1]
    <3>1. CASE j <= m
      <4>1. i \in 1..m /\ j \in 1..m
        BY <1>1, <2>2, <3>1
      <4>2. queue[r][i][1] < queue[r][j][1]
        BY <2>2, <4>1, Zenon DEF InOrder
      <4> QED
        BY <1>4, <4>1, <4>2, ZenonT(30)
    <3>2. CASE i <= m /\ ~(j <= m)
      <4> DEFINE x == h[j - m]
      <4>1. i \in 1..m
        BY <1>1, <3>2
      <4>2. queue'[r][i] = queue[r][i] /\ queue[r][i][1] \in 1..commit[r]
        BY <1>4, <4>1, Zenon
      <4>3. queue'[r][j] = x /\ x[1] \in (commit[r] + 1)..k
        BY <1>5, <3>2, Zenon
      <4> HIDE DEF x
      <4>4. \A a \in 1..commit[r] : \A b \in (commit[r] + 1)..k : a < b
        BY <1>2
      <4> QED
        BY <4>2, <4>3, <4>4, Zenon
    <3>3. CASE ~(i <= m)
      <4>1. i - m \in 1..Len(h) /\ queue'[r][i] = h[i - m]
        BY <1>5, <3>3, Zenon
      <4>2. ~(j <= m)
        BY <1>1, <2>2, <3>3
      <4>3. j - m \in 1..Len(h) /\ queue'[r][j] = h[j - m] /\ i - m < j - m
        <5>1. j - m \in 1..Len(h) /\ queue'[r][j] = h[j - m]
          BY <1>5, <4>2, Zenon
        <5>2. i - m < j - m
          BY <1>1, <2>2
        <5> QED
          BY <5>1, <5>2, Zenon
      <4>4. h[i - m][1] < h[j - m][1]
        BY <1>1, <4>1, <4>3, Zenon
      <4> QED
        BY <4>1, <4>3, <4>4, Zenon
    <3>4. \/ j <= m
          \/ i <= m /\ ~(j <= m)
          \/ ~(i <= m)
      OBVIOUS
    <3> QED
      BY <3>1, <3>2, <3>3, <3>4, Zenon
  <2> QED
    BY <2>1, <2>2, Zenon DEF InOrder, IsData
<1>7. Handled(r)'
  <2>1. ASSUME NEW i \in 1..k, log'[r][i].write # Noop
        PROVE  /\ log'[r][i].base < next[r] \/ Queued(r, i)'
               /\ i <= base[r] => log'[r][i].base < synced[r]
               /\ i > base[r] /\ i > applied[r] => Queued(r, i)'
    <3>1. CASE i \in 1..commit[r]
      <4>1. Queued(r, i) => Queued(r, i)'
        <5>1. ASSUME NEW n \in 1..m, queue[r][n][1] = i
              PROVE  n \in 1..Len(queue'[r]) /\ queue'[r][n][1] = i
          <6>1. n \in 1..Len(queue'[r])
            BY <1>1
          <6> QED
            BY <1>4, <5>1, <6>1, ZenonT(30)
        <5> QED
          BY <5>1, Zenon DEF Queued
      <4> QED
        BY Zenon, <1>3, <2>1, <3>1, <4>1 DEF Handled, IsData
    <3>2. CASE i \in (commit[r] + 1)..k
      <4>1. log[l][i].write # Noop
        BY <2>1, <3>2, Zenon
      <4>2. PICK n \in 1..Len(h) : h[n][1] = i
        BY <1>1, <3>2, <4>1, Zenon
      <4>3. m + n \in 1..Len(queue'[r]) /\ queue'[r][m + n] = h[n]
        BY <1>1
      <4>4. Queued(r, i)'
        BY <4>2, <4>3, Zenon DEF Queued
      <4> QED
        BY <1>2, <3>2, <4>4
    <3> QED
      BY <1>2, <3>1, <3>2
  <2> QED
    BY <2>1, Zenon DEF Handled, IsData
<1> QED
  BY <1>6, <1>7, Zenon

\* A snapshot's records are synced by the one who sent it and by the one who installs it.
LEMMA QueueInstall ==
    ASSUME Ground, Types, Types', RaftInv, RaftInv', Stays, NEW l \in Replica, NEW f \in Replica,
           InOrder(f), Handled(l), Install(l, f)
    PROVE  InOrder(f)' /\ Handled(f)'
<1>1. /\ queue' = queue /\ applied' = applied /\ base' = [base EXCEPT ![f] = base[l]]
      /\ next' = [next EXCEPT ![f] = Max({@, synced[l]})]
      /\ synced' = [synced EXCEPT ![f] = next'[f]]
  BY Zenon DEF Install
<1>2. /\ commit'[f] = base[l] /\ \A i \in 1..base[l] : log'[f][i] = log[l][i]
  BY RaftInstall, Zenon
<1>3. base'[f] = base[l] /\ synced'[f] = next'[f] /\ next'[f] = Max({next[f], synced[l]})
  BY <1>1, Zenon DEF Types
<1>4. commit[f] < base[l]
  BY InstallBeyond, Zenon
<1>5. base[l] <= commit[l] /\ next[f] \in Nat /\ synced[l] \in Nat /\ base[l] \in Nat /\ commit[l] \in Nat
      /\ commit[f] \in Nat
  BY QueueFacts, Zenon DEF RaftInv, Indices
<1>6. synced[l] <= next'[f] /\ next'[f] \in Nat
  <2>1. next[f] \in Int /\ synced[l] \in Int
    BY <1>5
  <2> QED
    BY SMTT(30), <1>3, <1>5, <2>1, MaxOfTwo
<1>7. InOrder(f)'
  <2>1. ASSUME NEW n \in 1..Len(queue[f])
        PROVE  /\ queue[f][n][1] > applied[f] /\ queue[f][n][1] <= base[l]
               /\ queue[f][n][2] = log'[f][queue[f][n][1]]
               /\ log'[f][queue[f][n][1]].write # Noop
    <3>1. PICK i : i = queue[f][n][1]
      BY Zenon
    <3>2. i > applied[f] /\ i <= commit[f] /\ queue[f][n][2] = log[f][i] /\ log[f][i].write # Noop
      BY <3>1, Zenon DEF InOrder, IsData
    <3>3. i \in Nat /\ applied[f] \in Nat
      BY <3>1, QueueFacts, Zenon
    <3>4. i \in 1..commit[f] /\ i <= base[l]
      BY <1>4, <1>5, <3>2, <3>3
    <3>5. log'[f][i] = log[f][i]
      BY <3>4, Zenon DEF Stays
    <3> QED
      BY <3>1, <3>2, <3>4, <3>5, Zenon
  <2> QED
    BY <1>1, <1>2, <2>1, Zenon DEF InOrder, IsData
<1>8. Handled(f)'
  <2>1. ASSUME NEW i \in 1..base[l], log[l][i].write # Noop
        PROVE  log[l][i].base < next'[f]
    <3>1. i \in 1..commit[l] /\ i <= base[l]
      BY <1>5
    <3>2. log[l][i].base < synced[l]
      BY <2>1, <3>1, Zenon DEF Handled, IsData
    <3>3. log[l][i].base \in Nat
      BY <3>1, CommittedBase, Zenon
    <3> QED
      BY SMTT(30), <1>5, <1>6, <3>2, <3>3
  <2>2. \A i \in 1..base[l] : i <= base[l] /\ ~(i > base[l])
    BY <1>5
  <2> QED
    BY <1>2, <1>3, <2>1, <2>2, Zenon DEF Handled, IsData
<1> QED
  BY <1>7, <1>8, Zenon

\* The head of the queue leaves it for the partition.
LEMMA QueueApply ==
    ASSUME Ground, Types, Types', RaftInv, QueueInOrder, NEW r \in Replica, Handled(r), Apply(r)
    PROVE  InOrder(r)' /\ Handled(r)'
<1>1. PICK i, e : i = Head(queue[r])[1] /\ e = Head(queue[r])[2]
  BY Zenon
<1>2. queue[r] # << >> /\ queue'[r] = Tail(queue[r]) /\ applied'[r] = i
  BY <1>1, Zenon DEF Apply, Types
<1>3. UNCHANGED <<log, commit, base, synced>>
  BY Zenon DEF Apply, raft
<1>4. i \in Nat /\ i > applied[r] /\ i <= commit[r] /\ e = log[r][i] /\ e.base \in Nat
  BY <1>1, <1>2, HeadFacts, Zenon
<1>5. next[r] \in Nat /\ next'[r] \in Nat /\ next[r] <= next'[r] /\ e.base < next'[r]
  <2>1. next[r] \in Nat /\ next'[r] \in Nat
    <3>1. next[r] \in Offsets /\ next'[r] \in Offsets
      BY Zenon DEF Types
    <3> QED
      BY <3>1, OffsetsFacts, Zenon
  <2>2. CASE e.base >= next[r]
    <3>1. next' = [next EXCEPT ![r] = e.base + 1]
      BY <1>1, <2>2, Zenon DEF Apply
    <3>2. next'[r] = e.base + 1
      BY <3>1, Zenon DEF Types
    <3> QED
      BY <1>4, <2>1, <2>2, <3>2
  <2>3. CASE ~(e.base >= next[r])
    <3>1. next' = next
      BY <1>1, <2>3, Zenon DEF Apply
    <3> QED
      BY SMTT(30), <1>4, <2>1, <2>3, <3>1
  <2> QED
    BY <2>2, <2>3, Zenon
<1>6. PICK m \in Nat : /\ Len(queue[r]) = m + 1 /\ Len(queue'[r]) = m /\ queue[r][1][1] = i
                       /\ \A n \in 1..m : queue'[r][n] = queue[r][n + 1]
  <2>1. queue[r] \in Seq(Nat \X Entry)
    BY Zenon DEF Types
  <2>2. PICK q \in Seq(Nat \X Entry) : q = queue[r]
    BY <2>1, Zenon
  <2>3. q # << >> /\ Head(q)[1] = i /\ queue'[r] = Tail(q)
    BY <1>1, <1>2, <2>2, Zenon
  <2>4. /\ Len(q) \in Nat \ {0} /\ Len(Tail(q)) = Len(q) - 1 /\ Head(q) = q[1]
        /\ \A n \in 1..(Len(q) - 1) : Tail(q)[n] = q[n + 1]
    BY <2>3
  <2>5. Len(q) - 1 \in Nat /\ Len(q) = (Len(q) - 1) + 1
    BY <2>4
  <2> QED
    BY <2>2, <2>3, <2>4, <2>5, Zenon
<1>7. InOrder(r)
  BY Zenon DEF QueueInOrder
<1>8. \A n \in 1..m : n + 1 \in 1..Len(queue[r]) /\ 1 \in 1..Len(queue[r]) /\ 1 < n + 1
  BY <1>6
<1>9. InOrder(r)'
  <2>1. ASSUME NEW n \in 1..m
        PROVE  /\ queue'[r][n][1] > i /\ queue'[r][n][1] <= commit[r]
               /\ queue'[r][n][2] = log[r][queue'[r][n][1]] /\ log[r][queue'[r][n][1]].write # Noop
    BY <1>6, <1>7, <1>8, ZenonT(30) DEF InOrder, IsData
  <2>2. ASSUME NEW h \in 1..m, NEW n \in 1..m, h < n
        PROVE  queue'[r][h][1] < queue'[r][n][1]
    <3>1. h + 1 < n + 1 /\ h + 1 \in 1..Len(queue[r]) /\ n + 1 \in 1..Len(queue[r])
      BY <1>6, <2>2
    <3> QED
      BY <1>6, <1>7, <3>1, Zenon DEF InOrder
  <2> QED
    BY <1>2, <1>3, <1>6, <2>1, <2>2, Zenon DEF InOrder, IsData
<1>10. Handled(r)'
  <2>1. ASSUME NEW j \in 1..commit[r], Queued(r, j), j # i
        PROVE  Queued(r, j)'
    <3>1. PICK n \in 1..Len(queue[r]) : queue[r][n][1] = j
      BY <2>1, Zenon DEF Queued
    <3>2. n # 1 /\ n \in Nat
      BY SMTT(30), <1>6, <2>1, <3>1
    <3>3. n - 1 \in 1..m /\ (n - 1) + 1 = n
      BY <1>6, <3>2
    <3>4. queue'[r][n - 1][1] = j /\ n - 1 \in 1..Len(queue'[r])
      BY <1>6, <3>1, <3>3, Zenon
    <3> QED
      BY <3>4, Zenon DEF Queued
  <2>2. ASSUME NEW j \in 1..commit[r], log[r][j].write # Noop
        PROVE  /\ log[r][j].base < next'[r] \/ Queued(r, j)'
               /\ j <= base[r] => log[r][j].base < synced[r]
               /\ j > base[r] /\ j > i => Queued(r, j)'
    <3>1. /\ log[r][j].base < next[r] \/ Queued(r, j)
          /\ j <= base[r] => log[r][j].base < synced[r]
          /\ j > base[r] /\ j > applied[r] => Queued(r, j)
      BY <2>2, Zenon DEF Handled, IsData
    <3>2. log[r][j].base \in Nat /\ j \in Nat
      BY CommittedBase, Zenon
    <3>3. CASE j = i
      BY SMTT(30), <1>4, <1>5, <3>1, <3>2, <3>3
    <3>4. CASE j # i
      <4>1. applied[r] \in Nat
        BY QueueFacts, Zenon
      <4> QED
        BY SMTT(30), <1>4, <1>5, <2>1, <3>1, <3>2, <3>4, <4>1
    <3> QED
      BY <3>3, <3>4, Zenon
  <2> QED
    BY <1>2, <1>3, <2>2, Zenon DEF Handled, IsData
<1> QED
  BY <1>9, <1>10, Zenon

\* What a snapshot lets Raft drop has been applied, and the sync before it covers it.
LEMMA QueueSnapshot ==
    ASSUME Ground, Types, RaftInv, NEW r \in Replica, InOrder(r), Handled(r), Snapshot(r)
    PROVE  InOrder(r)' /\ Handled(r)'
<1>1. /\ applied[r] > base[r] /\ synced'[r] = next[r] /\ base'[r] = applied[r]
      /\ UNCHANGED <<log, commit, queue, applied, next>>
  BY Zenon DEF Snapshot, Types
<1>2. InOrder(r)'
  BY <1>1, Zenon DEF InOrder, IsData
<1>3. ASSUME NEW j \in 1..commit[r], log[r][j].write # Noop
      PROVE  /\ log[r][j].base < next[r] \/ Queued(r, j)
             /\ j <= applied[r] => log[r][j].base < next[r]
             /\ j > applied[r] => Queued(r, j)
  <2>1. /\ log[r][j].base < next[r] \/ Queued(r, j)
        /\ j > base[r] /\ j > applied[r] => Queued(r, j)
    BY <1>3, Zenon DEF Handled, IsData
  <2>2. j \in Nat /\ applied[r] \in Nat /\ base[r] \in Nat
    BY CommittedBase, QueueFacts, Zenon
  <2>3. Queued(r, j) => j > applied[r]
    BY Zenon DEF Queued, InOrder
  <2> QED
    BY SMTT(30), <1>1, <2>1, <2>2, <2>3
<1>4. Handled(r)'
  BY <1>1, <1>3, Zenon DEF Handled, IsData, Queued
<1> QED
  BY <1>2, <1>4, Zenon

\* After a power loss the log past the snapshot is to be applied again.
LEMMA QueueRestart ==
    ASSUME Ground, Types, RaftInv, NEW r \in Replica, Handled(r), NEW end \in Offsets, Restart(r, end)
    PROVE  InOrder(r)' /\ Handled(r)'
<1>1. /\ end \in synced[r]..next[r] /\ queue'[r] = << >> /\ commit'[r] = base[r]
      /\ applied'[r] = base[r] /\ next'[r] = end /\ UNCHANGED <<log, base, synced>>
  BY Zenon DEF Restart, Types
<1>2. InOrder(r)'
  BY <1>1 DEF InOrder
<1>3. base[r] <= commit[r] /\ base[r] \in Nat /\ commit[r] \in Nat
  BY QueueFacts, Zenon DEF RaftInv, Indices
<1>4. ASSUME NEW j \in 1..base[r], log[r][j].write # Noop
      PROVE  log[r][j].base < synced[r] /\ log[r][j].base < end /\ ~(j > base[r])
  <2>1. j \in 1..commit[r] /\ j <= base[r]
    BY <1>3
  <2>2. log[r][j].base < synced[r]
    BY <1>4, <2>1, Zenon DEF Handled, IsData
  <2>3. log[r][j].base \in Nat /\ synced[r] \in Nat /\ end \in Int /\ synced[r] <= end
    BY SMTT(30), <1>1, <2>1, CommittedBase, QueueFacts
  <2> QED
    BY SMTT(30), <1>3, <2>2, <2>3
<1>5. Handled(r)'
  BY <1>1, <1>4, Zenon DEF Handled, IsData
<1> QED
  BY <1>2, <1>5, Zenon

\* Every step keeps the queue in order, and every committed record applied or queued.
LEMMA QueueStep ==
    ASSUME Ground, Types, Types', RaftInv, RaftInv', Stays, Counted, QueueInv, Next
    PROVE  QueueInv'
<1> USE DEF QueueInv
<1>0. \A r \in Replica : InOrder(r) /\ Handled(r)
  BY Zenon DEF QueueInOrder, CommittedIsHandled
<1>1. ASSUME NEW r \in Replica, InOrder(r)' /\ Handled(r)',
             \A q \in Replica \ {r} :
                /\ queue'[q] = queue[q] /\ applied'[q] = applied[q] /\ commit'[q] = commit[q]
                /\ base'[q] = base[q] /\ next'[q] = next[q] /\ synced'[q] = synced[q]
      PROVE  QueueInv'
  <2>1. ASSUME NEW q \in Replica PROVE InOrder(q)' /\ Handled(q)'
    <3>1. CASE q = r
      BY <1>1, <3>1, Zenon
    <3>2. CASE q # r
      BY <1>0, <1>1, <3>2, QueueKept, Zenon
    <3> QED
      BY <3>1, <3>2, Zenon
  <2> QED
    BY <2>1, Zenon DEF QueueInOrder, CommittedIsHandled
<1>2. ASSUME UNCHANGED <<queue, applied, commit, base, next, synced>> PROVE QueueInv'
  <2>1. ASSUME NEW q \in Replica PROVE InOrder(q)' /\ Handled(q)'
    BY <1>0, <1>2, QueueKept, Zenon
  <2> QED
    BY <2>1, Zenon DEF QueueInOrder, CommittedIsHandled
<1>3. ASSUME NEW r \in Replica, NEW Q \in Majority, Elect(r, Q) PROVE QueueInv'
  BY <1>2, <1>3, Zenon DEF Elect, store
<1>4. ASSUME NEW l \in Replica, NEW f \in Replica, Replicate(l, f) PROVE QueueInv'
  <2>1. /\ commit'[f] \in Nat /\ HandsOver(f, l, commit'[f])
        /\ commit'[f] = IF commit[f] >= commit[l] THEN commit[f] ELSE commit[l]
        /\ \A q \in Replica \ {f} : queue'[q] = queue[q] /\ commit'[q] = commit[q]
    BY <1>4, HandsOverReplicate, Zenon
  <2>2. UNCHANGED <<applied, base, next, synced>> /\ log'[f] = log[l]
    BY <1>4, Zenon DEF Replicate, Types
  <2>3. commit[f] \in Nat /\ commit[l] \in Nat
    BY QueueFacts, Zenon
  <2>4. PICK k \in Nat : k = commit'[f]
    BY <2>1, Zenon
  <2>5. commit[f] <= k /\ HandsOver(f, l, k)
    BY <2>1, <2>3, <2>4
  <2>6. InOrder(f)' /\ Handled(f)'
    BY <1>0, <2>2, <2>4, <2>5, QueueHanded, Zenon
  <2> QED
    BY <1>1, <2>1, <2>2, <2>6, Zenon
<1>5. ASSUME NEW l \in Replica, NEW f \in Replica, Install(l, f) PROVE QueueInv'
  <2>1. InOrder(f)' /\ Handled(f)'
    BY <1>0, <1>5, QueueInstall, ZenonT(30)
  <2>2. \A q \in Replica \ {f} :
           /\ queue'[q] = queue[q] /\ applied'[q] = applied[q] /\ commit'[q] = commit[q]
           /\ base'[q] = base[q] /\ next'[q] = next[q] /\ synced'[q] = synced[q]
    BY <1>5 DEF Install, Types
  <2> QED
    BY <1>1, <2>1, <2>2, Zenon
<1>6. ASSUME NEW l \in Replica, NEW k \in 1..Len(log[l]), Commit(l, k) PROVE QueueInv'
  <2>1. /\ k \in Nat /\ HandsOver(l, l, k) /\ commit'[l] = k /\ k > commit[l]
        /\ \A q \in Replica \ {l} : queue'[q] = queue[q] /\ commit'[q] = commit[q]
    BY <1>6, HandsOverCommit, Zenon
  <2>2. UNCHANGED <<applied, base, next, synced, log>>
    BY <1>6, Zenon DEF Commit
  <2>3. commit[l] <= k
    <3>1. commit[l] \in Nat /\ k \in Nat /\ k > commit[l]
      BY <2>1, QueueFacts, Zenon
    <3> QED
      BY <3>1
  <2>4. InOrder(l)' /\ Handled(l)'
    BY <1>0, <2>1, <2>2, <2>3, QueueHanded, Zenon
  <2> QED
    BY <1>1, <2>1, <2>2, <2>4, Zenon
<1>7. ASSUME NEW w \in Write, \/ \E r \in Replica : Begin(w, r)
                              \/ Propose(w) \/ NoteIndex(w) \/ CommitTimeout(w)
      PROVE  QueueInv'
  <2>1. UNCHANGED <<queue, applied, commit, base, next, synced>>
    BY <1>7, Zenon DEF Begin, Propose, NoteIndex, CommitTimeout, store, raft
  <2> QED
    BY <1>2, <2>1, Zenon
<1>8. ASSUME NEW r \in Replica, Apply(r) PROVE QueueInv'
  <2>1. InOrder(r)' /\ Handled(r)'
    BY <1>0, <1>8, QueueApply, Zenon
  <2>2. \A q \in Replica \ {r} : next'[q] = next[q]
    <3>1. next' = next \/ next' = [next EXCEPT ![r] = Head(queue[r])[2].base + 1]
      BY <1>8, Zenon DEF Apply
    <3> QED
      BY <3>1, Zenon DEF Types
  <2>3. \A q \in Replica \ {r} :
           /\ queue'[q] = queue[q] /\ applied'[q] = applied[q] /\ commit'[q] = commit[q]
           /\ base'[q] = base[q] /\ synced'[q] = synced[q]
    BY <1>8, Zenon DEF Apply, Types, raft
  <2> QED
    BY <1>1, <2>1, <2>2, <2>3, Zenon
<1>9. ASSUME NEW r \in Replica, Snapshot(r) PROVE QueueInv'
  <2>1. InOrder(r)' /\ Handled(r)'
    BY <1>0, <1>9, QueueSnapshot, Zenon
  <2>2. \A q \in Replica \ {r} :
           /\ queue'[q] = queue[q] /\ applied'[q] = applied[q] /\ commit'[q] = commit[q]
           /\ base'[q] = base[q] /\ next'[q] = next[q] /\ synced'[q] = synced[q]
    BY <1>9, Zenon DEF Snapshot, Types
  <2> QED
    BY <1>1, <2>1, <2>2, Zenon
<1>10. ASSUME NEW r \in Replica, NEW end \in Offsets, Restart(r, end) PROVE QueueInv'
  <2>1. InOrder(r)' /\ Handled(r)'
    BY <1>0, <1>10, QueueRestart, ZenonT(30)
  <2>2. \A q \in Replica \ {r} :
           /\ queue'[q] = queue[q] /\ applied'[q] = applied[q] /\ commit'[q] = commit[q]
           /\ base'[q] = base[q] /\ next'[q] = next[q] /\ synced'[q] = synced[q]
    BY <1>10 DEF Restart, Types
  <2> QED
    BY <1>1, <2>1, <2>2, Zenon
<1> QED
  BY <1>3, <1>4, <1>5, <1>6, <1>7, <1>8, <1>9, <1>10, ZenonT(30) DEF Next
=============================================================================
