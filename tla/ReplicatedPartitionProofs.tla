--------------------- MODULE ReplicatedPartitionProofs ----------------------
(***************************************************************************)
(* The partition as the image of a log, what append_batch tells its        *)
(* callers, and the three invariants of ReplicatedPartition for every      *)
(* number of replicas, writes, elections and restarts.                     *)
(***************************************************************************)
EXTENDS PartitionQueueProofs

-----------------------------------------------------------------------------
(* The partition as the image of a log *)

\* Entry i of log l is the first given at least offset o, and is given o.
Hit(l, o, i) == /\ l[i].write # Noop /\ l[i].base = o
                /\ \A j \in 1..(i - 1) : l[j].write # Noop => l[j].base < o

\* The types of an entry of any log.
LEMMA BaseFacts ==
    ASSUME Ground, NEW l \in Seq(Entry), NEW i \in 1..Len(l)
    PROVE  l[i] \in Entry /\ l[i].base \in Offsets /\ l[i].base \in Nat
<1>1. l[i] \in Entry
  OBVIOUS
<1>2. l[i].base \in Offsets
  BY <1>1, Zenon DEF Entry
<1> QED
  BY <1>1, <1>2, OffsetsFacts, Zenon

\* The image at an offset is the record of the one entry that hits it.
LEMMA ImageIs ==
    ASSUME Ground, NEW l \in Seq(Entry), NEW o \in Nat, NEW i \in 1..Len(l), Hit(l, o, i)
    PROVE  Image(l, o) = l[i].write
<1> DEFINE hits == {j \in 1..Len(l) : Hit(l, o, j)}
<1>1. \A j \in 1..Len(l) : l[j].base \in Nat
  BY BaseFacts, Zenon
<1>2. ASSUME NEW j \in hits PROVE j = i
  <2>1. j \in 1..Len(l) /\ Hit(l, o, j) /\ Len(l) \in Nat
    OBVIOUS
  <2>2. l[j].base = o /\ l[i].base = o /\ l[j].write # Noop /\ l[i].write # Noop
    BY <2>1, Zenon DEF Hit
  <2>3. ~(j < i)
    <3>1. j < i => j \in 1..(i - 1)
      BY <2>1
    <3> QED
      BY <2>2, <3>1 DEF Hit
  <2>4. ~(i < j)
    <3>1. i < j => i \in 1..(j - 1)
      BY <2>1
    <3> QED
      BY <2>1, <2>2, <3>1 DEF Hit
  <2> QED
    BY <2>1, <2>3, <2>4
<1>3. hits = {i}
  BY <1>2, Zenon
<1>4. i \in Nat
  OBVIOUS
<1>5. Min({i}) = i
  <2>1. \E x \in {i} : \A y \in {i} : x <= y
    BY <1>4
  <2> QED
    BY <2>1, Zenon DEF Min
<1>6. Image(l, o) = IF hits = {} THEN Nothing ELSE l[Min(hits)].write
  BY Zenon DEF Image, Hit
<1> HIDE DEF hits
<1> QED
  BY <1>3, <1>5, <1>6, Zenon

\* An offset no entry hits is a hole.
LEMMA ImageNone ==
    ASSUME NEW l, NEW o, \A i \in 1..Len(l) : ~Hit(l, o, i)
    PROVE  Image(l, o) = Nothing
<1> DEFINE hits == {j \in 1..Len(l) : Hit(l, o, j)}
<1>1. hits = {}
  BY Zenon
<1>2. Image(l, o) = IF hits = {} THEN Nothing ELSE l[Min(hits)].write
  BY Zenon DEF Image, Hit
<1> QED
  BY <1>1, <1>2, Zenon

\* Entries past one given at least o do not matter to the image at o.
LEMMA ImageExtend ==
    ASSUME Ground, NEW l \in Seq(Entry), NEW P \in Seq(Entry), Holds(l, P), NEW o \in Nat,
           Covers(P, o + 1)
    PROVE  Image(l, o) = Image(P, o)
<1>1. PICK c \in 1..Len(P) : P[c].write # Noop /\ o + 1 <= P[c].base + 1
  BY Zenon DEF Covers
<1>2. /\ Len(P) \in Nat /\ Len(l) \in Nat /\ Len(P) <= Len(l)
      /\ \A i \in 1..Len(P) : l[i] = P[i] /\ i \in 1..Len(l)
  BY DEF Holds
<1>3. P[c].base \in Nat
  BY BaseFacts, Zenon
<1>4. ASSUME NEW i \in 1..Len(P) PROVE Hit(P, o, i) <=> Hit(l, o, i)
  <2>1. \A j \in 1..(i - 1) : j \in 1..Len(P)
    BY <1>2
  <2> QED
    BY <1>2, <2>1, Zenon DEF Hit
<1>5. ASSUME NEW i \in 1..Len(l), Hit(l, o, i) PROVE i \in 1..Len(P)
  <2>1. ~(c < i)
    <3>1. c < i => c \in 1..(i - 1)
      BY <1>2
    <3>2. c < i => l[c].base < o
      BY <1>1, <1>2, <1>5, <3>1, Zenon DEF Hit
    <3>3. ~(l[c].base < o)
      BY <1>1, <1>2, <1>3
    <3> QED
      BY <3>2, <3>3, Zenon
  <2> QED
    BY <1>2, <2>1
<1>6. CASE \E i \in 1..Len(P) : Hit(P, o, i)
  <2>1. PICK i \in 1..Len(P) : Hit(P, o, i)
    BY <1>6, Zenon
  <2>2. Hit(l, o, i) /\ i \in 1..Len(l) /\ l[i] = P[i]
    BY <1>2, <1>4, <2>1, Zenon
  <2>3. Image(P, o) = P[i].write
    BY <2>1, ImageIs, Zenon
  <2>4. Image(l, o) = l[i].write
    BY <2>2, ImageIs, Zenon
  <2> QED
    BY <2>2, <2>3, <2>4, Zenon
<1>7. CASE \A i \in 1..Len(P) : ~Hit(P, o, i)
  BY <1>4, <1>5, <1>7, ImageNone, Zenon
<1> QED
  BY <1>6, <1>7, Zenon

\* Two chosen prefixes agree on an offset both decide.
LEMMA ImagesAgree ==
    ASSUME Ground, Types, NEW P \in Prefix, NEW R \in Prefix, Chosen(P), Chosen(R), NEW o \in Nat,
           Covers(P, o + 1), Covers(R, o + 1)
    PROVE  Image(P, o) = Image(R, o)
<1>1. P \in Seq(Entry) /\ R \in Seq(Entry) /\ Len(P) \in Nat /\ Len(R) \in Nat
  BY DEF Prefix
<1>2. /\ Len(P) <= Len(R) => Holds(R, P)
      /\ Len(R) <= Len(P) => Holds(P, R)
  BY ChosenComparable, Zenon
<1>3. CASE Len(P) <= Len(R)
  BY <1>1, <1>2, <1>3, ImageExtend, Zenon
<1>4. CASE Len(R) <= Len(P)
  BY <1>1, <1>2, <1>4, ImageExtend, Zenon
<1> QED
  BY <1>1, <1>3, <1>4

\* A log that decides the offsets below n decides those below m <= n.
LEMMA CoversLess ==
    ASSUME Ground, NEW P \in Prefix, NEW n \in Nat, NEW m \in Nat, m <= n, Covers(P, n)
    PROVE  Covers(P, m)
<1>1. PICK i \in 1..Len(P) : P[i].write # Noop /\ n <= P[i].base + 1
  BY Zenon DEF Covers
<1>2. P[i].base \in Nat
  BY BaseFacts, Zenon DEF Prefix
<1>3. m <= P[i].base + 1
  BY <1>1, <1>2
<1> QED
  BY <1>1, <1>3, Zenon DEF Covers

\* The chosen prefix behind a replica's commit index, at one of its indices.
LEMMA CommittedPrefix ==
    ASSUME Ground, Types, RaftInv, NEW r \in Replica, NEW i \in 1..commit[r]
    PROVE  \E P \in Prefix : /\ Chosen(P) /\ P \in Seq(Entry) /\ Len(P) \in Nat
                             /\ commit[r] <= Len(P) /\ \A j \in 1..commit[r] : P[j] = log[r][j]
<1>1. commit[r] \in Nat /\ commit[r] # 0
  BY QueueFacts
<1>2. PICK P \in Prefix : Chosen(P) /\ Follows(r, commit[r], P)
  BY <1>1, Zenon DEF RaftInv, CommitChosen
<1>3. P \in Seq(Entry) /\ Len(P) \in Nat
  BY DEF Prefix
<1> QED
  BY <1>2, <1>3, Zenon DEF Follows

\* Nothing before the head of the queue is queued.
LEMMA HeadFirst ==
    ASSUME Ground, Types, QueueInOrder, NEW r \in Replica, queue[r] # << >>,
           NEW j \in Nat, j < Head(queue[r])[1]
    PROVE  ~Queued(r, j)
<1>1. InOrder(r)
  BY Zenon DEF QueueInOrder
<1>2. queue[r] \in Seq(Nat \X Entry)
  BY Zenon DEF Types
<1>3. Head(queue[r]) = queue[r][1] /\ 1 \in 1..Len(queue[r]) /\ Len(queue[r]) \in Nat
  BY SMTT(30), <1>2
<1>4. \A n \in 1..Len(queue[r]) : queue[r][1][1] <= queue[r][n][1]
  <2>1. ASSUME NEW n \in 1..Len(queue[r]) PROVE queue[r][1][1] <= queue[r][n][1]
    <3>1. n = 1 \/ 1 < n
      BY <1>3
    <3>2. queue[r][1][1] \in Nat /\ queue[r][n][1] \in Nat
      BY <1>3, QueueFacts, Zenon
    <3>3. 1 < n => queue[r][1][1] < queue[r][n][1]
      BY <1>1, <1>3, Zenon DEF InOrder
    <3> QED
      BY <3>1, <3>2, <3>3
  <2> QED
    BY <2>1, Zenon
<1>5. ASSUME NEW n \in 1..Len(queue[r]), queue[r][n][1] = j PROVE FALSE
  <2>1. queue[r][1][1] \in Nat /\ queue[r][1][1] <= j /\ j < queue[r][1][1]
    BY <1>3, <1>4, <1>5, QueueFacts, Zenon
  <2> QED
    BY <2>1
<1> QED
  BY <1>5, Zenon DEF Queued

\* Committed records before the head of the queue are below the partition's end.
LEMMA BeforeHead ==
    ASSUME Ground, Types, RaftInv, QueueInv, NEW r \in Replica, queue[r] # << >>,
           NEW j \in 1..commit[r], j < Head(queue[r])[1], log[r][j].write # Noop
    PROVE  log[r][j].base < next[r]
<1>1. ~Queued(r, j)
  BY HeadFirst, QueueFacts DEF QueueInv
<1> QED
  BY <1>1, Zenon DEF QueueInv, CommittedIsHandled, Handled, IsData

\* The partition of r is empty, or the image of a chosen prefix.
StoreAt(r) ==
    \/ next[r] = 0 /\ \A o \in Offsets : part[r][o] = Nothing
    \/ \E P \in Prefix : Chosen(P) /\ Covers(P, next[r]) /\ IsImage(r, P)

\* A partition that does not change stays the image of what it is.
LEMMA StoreKept ==
    ASSUME Stays, NEW r \in Replica, StoreAt(r), part'[r] = part[r], next'[r] = next[r]
    PROVE  StoreAt(r)'
<1>1. CASE next[r] = 0 /\ \A o \in Offsets : part[r][o] = Nothing
  BY <1>1, Zenon DEF StoreAt
<1>2. ASSUME NEW P \in Prefix, Chosen(P), Covers(P, next[r]), IsImage(r, P)
      PROVE  Chosen(P)' /\ Covers(P, next[r])' /\ IsImage(r, P)'
  BY <1>2, Zenon DEF Stays, Covers, IsImage
<1> QED
  BY <1>1, <1>2, Zenon DEF StoreAt

\* A record goes where the chosen log has it, and the offsets it skips are skipped there.
LEMMA StoreApply ==
    ASSUME Ground, Types, Types', RaftInv, QueueInv, Stays, NEW r \in Replica, StoreAt(r), Apply(r)
    PROVE  StoreAt(r)'
<1>1. PICK i, e : i = Head(queue[r])[1] /\ e = Head(queue[r])[2]
  BY Zenon
<1>2. queue[r] # << >>
  BY Zenon DEF Apply
<1>3. /\ i \in Nat /\ i > applied[r] /\ i <= commit[r] /\ e = log[r][i] /\ e.write # Noop
      /\ e.base \in Nat /\ e.base \in Offsets
  BY <1>1, <1>2, HeadFacts, Zenon DEF QueueInv
<1>4. applied[r] \in Nat /\ commit[r] \in Nat /\ next[r] \in Nat
  BY QueueFacts, Zenon
<1>5. i \in 1..commit[r]
  BY <1>3, <1>4
<1>6. CASE ~(e.base >= next[r])
  <2>1. part'[r] = part[r] /\ next'[r] = next[r]
    BY <1>1, <1>6, Zenon DEF Apply
  <2> QED
    BY <2>1, StoreKept, Zenon
<1>7. CASE e.base >= next[r]
  <2>1. /\ part' = [part EXCEPT ![r][e.base] = e.write]
        /\ next' = [next EXCEPT ![r] = e.base + 1]
    BY <1>1, <1>7, Zenon DEF Apply
  <2>2. next'[r] = e.base + 1
    BY <2>1, ZenonT(30) DEF Types
  <2>3. \A o \in Offsets : part'[r][o] = IF o = e.base THEN e.write ELSE part[r][o]
    BY <2>1 DEF Types
  <2>4. PICK P \in Prefix : /\ Chosen(P) /\ P \in Seq(Entry) /\ Len(P) \in Nat
                            /\ commit[r] <= Len(P) /\ \A j \in 1..commit[r] : P[j] = log[r][j]
    BY <1>5, CommittedPrefix, Zenon
  <2>5. i \in 1..Len(P) /\ P[i] = e
    BY SMTT(30), <1>3, <1>4, <1>5, <2>4
  <2>6. ASSUME NEW n \in Nat, n <= e.base + 1 PROVE Covers(P, n)
    BY <1>3, <2>5, <2>6, Zenon DEF Covers
  <2>7. ASSUME NEW j \in 1..Len(P), j < i, P[j].write # Noop
        PROVE  P[j].base < next[r] /\ P[j].base \in Nat
    <3>1. j \in 1..commit[r]
      BY SMTT(30), <1>3, <1>4, <2>7
    <3>2. P[j] = log[r][j]
      BY <2>4, <3>1, Zenon
    <3> QED
      BY <1>1, <1>2, <2>4, <2>7, <3>1, <3>2, BeforeHead, BaseFacts, ZenonT(30)
  <2>8. Image(P, e.base) = e.write
    <3>1. ASSUME NEW j \in 1..(i - 1), P[j].write # Noop PROVE P[j].base < e.base
      <4>1. j \in 1..Len(P) /\ j < i
        BY <2>4, <2>5
      <4> QED
        BY SMTT(30), <1>3, <1>4, <1>7, <2>7, <3>1, <4>1
    <3>2. Hit(P, e.base, i)
      BY <1>3, <2>5, <3>1, Zenon DEF Hit
    <3> QED
      BY <1>3, <2>4, <2>5, <3>2, ImageIs, ZenonT(30)
  <2>9. ASSUME NEW o \in Nat, o < e.base, o >= next[r] PROVE Image(P, o) = Nothing
    <3>1. ASSUME NEW j \in 1..Len(P), Hit(P, o, j) PROVE FALSE
      <4>1. j < i \/ j = i \/ j > i
        BY <2>4, <2>5
      <4>2. P[j].write # Noop /\ P[j].base = o
        BY <3>1, Zenon DEF Hit
      <4>3. CASE j < i
        BY SMTT(30), <1>4, <2>7, <2>9, <4>2, <4>3
      <4>4. CASE j = i
        BY SMTT(30), <1>3, <2>5, <2>9, <4>2, <4>4
      <4>5. CASE j > i
        <5>1. i \in 1..(j - 1)
          BY SMTT(30), <2>4, <2>5, <4>5
        <5>2. P[i].base < o
          BY <1>3, <2>5, <3>1, <5>1, Zenon DEF Hit
        <5> QED
          BY SMTT(30), <1>3, <2>5, <2>9, <5>2
      <4> QED
        BY <4>1, <4>3, <4>4, <4>5, Zenon
    <3> QED
      BY <3>1, ImageNone, Zenon
  <2>10. ASSUME NEW o \in Offsets, o >= next[r] PROVE part[r][o] = Nothing
    <3>1. o \in Nat
      BY OffsetsFacts, Zenon
    <3>2. ~(o < next[r])
      BY SMTT(30), <1>4, <2>10, <3>1
    <3> QED
      BY <3>2, Zenon DEF StoreAt, IsImage
  <2>11. ASSUME NEW o \in Offsets, o < next[r] PROVE part[r][o] = Image(P, o)
    <3>1. o \in Nat
      BY OffsetsFacts, Zenon
    <3>2. next[r] # 0
      BY <2>11, <3>1
    <3>3. PICK R \in Prefix : Chosen(R) /\ Covers(R, next[r]) /\ IsImage(r, R)
      BY <3>2, Zenon DEF StoreAt
    <3>4. o + 1 \in Nat /\ o + 1 <= next[r] /\ o + 1 <= e.base + 1
      BY SMTT(30), <1>3, <1>4, <1>7, <2>11, <3>1
    <3>5. Covers(R, o + 1) /\ Covers(P, o + 1)
      BY <1>4, <2>6, <3>3, <3>4, CoversLess, Zenon
    <3>6. Image(P, o) = Image(R, o)
      BY <2>4, <3>1, <3>3, <3>5, ImagesAgree, Zenon
    <3> QED
      BY <2>11, <3>3, <3>6, Zenon DEF IsImage
  <2>12. ASSUME NEW o \in Offsets
         PROVE  part'[r][o] = IF o < next'[r] THEN Image(P, o) ELSE Nothing
    <3>1. o \in Nat
      BY OffsetsFacts, Zenon
    <3>2. CASE o = e.base
      <4>1. o < next'[r]
        BY SMTT(30), <2>2, <3>1, <3>2
      <4> QED
        BY <2>3, <2>8, <3>2, <4>1, Zenon
    <3>3. CASE o < e.base
      <4>1. o < next'[r] /\ o # e.base
        BY SMTT(30), <1>3, <2>2, <3>1, <3>3
      <4>2. part'[r][o] = part[r][o]
        BY <2>3, <4>1, Zenon
      <4>3. o < next[r] \/ o >= next[r]
        BY <1>4, <3>1
      <4> QED
        BY <2>9, <2>10, <2>11, <3>1, <3>3, <4>1, <4>2, <4>3, ZenonT(30)
    <3>4. CASE o > e.base
      <4>1. ~(o < next'[r]) /\ o # e.base /\ o >= next[r]
        BY SMTT(30), <1>3, <1>4, <1>7, <2>2, <3>1, <3>4
      <4> QED
        BY <2>3, <2>10, <4>1, Zenon
    <3> QED
      BY SMTT(30), <1>3, <3>1, <3>2, <3>3, <3>4
  <2>13. IsImage(r, P)'
    BY <2>12, Zenon DEF IsImage
  <2>14. Covers(P, next[r])'
    <3>1. next'[r] \in Nat /\ next'[r] <= e.base + 1
      BY <1>3, <2>2
    <3>2. Covers(P, next'[r])
      BY <2>6, <3>1, Zenon
    <3> QED
      BY <3>2, Zenon DEF Covers
  <2>15. Chosen(P)'
    BY <2>4, Zenon DEF Stays
  <2> QED
    BY <2>13, <2>14, <2>15, Zenon DEF StoreAt
<1> QED
  BY <1>6, <1>7, Zenon

\* The records that come with a snapshot are those the chosen log gives their offsets.
LEMMA StoreInstall ==
    ASSUME Ground, Types, Types', Counted, Stays, NEW l \in Replica, NEW f \in Replica,
           StoreAt(l), StoreAt(f), Install(l, f)
    PROVE  StoreAt(f)'
<1>1. /\ part' = [part EXCEPT ![f] = [o \in Offsets |->
                    IF o >= next[f] /\ o < synced[l] THEN part[l][o] ELSE @[o]]]
      /\ next' = [next EXCEPT ![f] = Max({@, synced[l]})]
  BY Zenon DEF Install
<1>2. next[f] \in Nat /\ synced[l] \in Nat /\ next[l] \in Nat /\ synced[l] <= next[l]
  BY QueueFacts, Zenon DEF Counted
<1>3. next'[f] = IF next[f] >= synced[l] THEN next[f] ELSE synced[l]
  <2>1. next[f] \in Int /\ synced[l] \in Int
    BY <1>2
  <2>2. next'[f] = Max({next[f], synced[l]})
    BY <1>1, ZenonT(30) DEF Types
  <2> QED
    BY <2>1, <2>2, MaxOfTwo, Zenon
<1>4. \A o \in Offsets : part'[f][o] = IF o >= next[f] /\ o < synced[l] THEN part[l][o]
                                       ELSE part[f][o]
  BY <1>1, Zenon DEF Types
<1>5. \A o \in Offsets : o \in Nat
  BY OffsetsFacts, Zenon
<1>6. CASE next[f] >= synced[l]
  <2>1. next'[f] = next[f]
    BY <1>3, <1>6, Zenon
  <2>2. \A o \in Offsets : part'[f][o] = part[f][o]
    BY SMTT(30), <1>2, <1>4, <1>5, <1>6
  <2>3. part'[f] = part[f]
    <3>1. part[f] \in [Offsets -> Write \cup {Nothing}] /\ part'[f] \in [Offsets -> Write \cup {Nothing}]
      BY Zenon DEF Types
    <3> QED
      BY SMTT(30), <2>2, <3>1
  <2> QED
    BY <2>1, <2>3, StoreKept, Zenon
<1>7. CASE ~(next[f] >= synced[l])
  <2>1. next'[f] = synced[l] /\ next[f] < synced[l] /\ next[l] # 0
    BY <1>2, <1>3, <1>7
  <2>2. PICK P \in Prefix : Chosen(P) /\ Covers(P, next[l]) /\ IsImage(l, P)
    BY <2>1, Zenon DEF StoreAt
  <2>3. ASSUME NEW o \in Offsets, o < next[f] PROVE part[f][o] = Image(P, o)
    <3>1. next[f] # 0 /\ o \in Nat
      BY <1>2, <1>5, <2>3
    <3>2. PICK R \in Prefix : Chosen(R) /\ Covers(R, next[f]) /\ IsImage(f, R)
      BY <3>1, Zenon DEF StoreAt
    <3>3. o + 1 \in Nat /\ o + 1 <= next[f] /\ o + 1 <= next[l]
      BY SMTT(30), <1>2, <2>1, <2>3, <3>1
    <3>4. Covers(R, o + 1) /\ Covers(P, o + 1)
      BY <1>2, <2>2, <3>2, <3>3, CoversLess, Zenon
    <3>5. Image(P, o) = Image(R, o)
      BY <2>2, <3>1, <3>2, <3>4, ImagesAgree, Zenon
    <3> QED
      BY <2>3, <3>2, <3>5, Zenon DEF IsImage
  <2>4. ASSUME NEW o \in Offsets, o < synced[l] PROVE part[l][o] = Image(P, o)
    <3>1. o < next[l]
      BY <1>2, <1>5, <2>4
    <3> QED
      BY <2>2, <3>1, Zenon DEF IsImage
  <2>5. ASSUME NEW o \in Offsets, ~(o < next[f]) PROVE part[f][o] = Nothing
    BY <2>5, Zenon DEF StoreAt, IsImage
  <2>6. ASSUME NEW o \in Offsets
        PROVE  part'[f][o] = IF o < next'[f] THEN Image(P, o) ELSE Nothing
    <3>1. CASE o < next[f]
      <4>1. o < next'[f] /\ ~(o >= next[f])
        BY SMTT(30), <1>2, <1>5, <2>1, <3>1
      <4> QED
        BY <1>4, <2>3, <3>1, <4>1, Zenon
    <3>2. CASE o >= next[f] /\ o < synced[l]
      BY <1>4, <2>1, <2>4, <3>2, Zenon
    <3>3. CASE ~(o < next[f]) /\ ~(o < synced[l])
      BY <1>4, <2>1, <2>5, <3>3, Zenon
    <3> QED
      BY SMTT(30), <1>2, <1>5, <3>1, <3>2, <3>3
  <2>7. IsImage(f, P)'
    BY <2>6, Zenon DEF IsImage
  <2>8. Covers(P, next[f])'
    <3>1. Covers(P, synced[l])
      BY <1>2, <2>2, CoversLess, Zenon
    <3> QED
      BY <2>1, <3>1, Zenon DEF Covers
  <2>9. Chosen(P)'
    BY <2>2, Zenon DEF Stays
  <2> QED
    BY <2>7, <2>8, <2>9, Zenon DEF StoreAt
<1> QED
  BY <1>6, <1>7, Zenon

\* A power loss takes records off the end.
LEMMA StoreRestart ==
    ASSUME Ground, Types, Stays, NEW r \in Replica, StoreAt(r), NEW end \in Offsets, Restart(r, end)
    PROVE  StoreAt(r)'
<1>1. /\ end \in synced[r]..next[r] /\ next' = [next EXCEPT ![r] = end]
      /\ part' = [part EXCEPT ![r] = [o \in Offsets |-> IF o < end THEN @[o] ELSE Nothing]]
  BY Zenon DEF Restart
<1>2. next'[r] = end /\ \A o \in Offsets : part'[r][o] = IF o < end THEN part[r][o] ELSE Nothing
  BY <1>1, Zenon DEF Types
<1>3. end \in Nat /\ next[r] \in Nat /\ synced[r] \in Nat /\ end <= next[r] /\ \A o \in Offsets : o \in Nat
  BY <1>1, OffsetsFacts, QueueFacts
<1>4. CASE next[r] = 0 /\ \A o \in Offsets : part[r][o] = Nothing
  <2>1. next'[r] = 0 /\ \A o \in Offsets : part'[r][o] = Nothing
    BY SMTT(30), <1>2, <1>3, <1>4
  <2> QED
    BY <2>1, Zenon DEF StoreAt
<1>5. ASSUME NEW P \in Prefix, Chosen(P), Covers(P, next[r]), IsImage(r, P)
      PROVE  StoreAt(r)'
  <2>1. ASSUME NEW o \in Offsets
        PROVE  part'[r][o] = IF o < next'[r] THEN Image(P, o) ELSE Nothing
    <3>1. CASE o < end
      <4>0. o \in Nat
        BY <1>3, Zenon
      <4>1. o < next[r]
        BY SMTT(30), <1>3, <3>1, <4>0
      <4>2. part[r][o] = Image(P, o)
        BY <1>5, <4>1, Zenon DEF IsImage
      <4> QED
        BY <1>2, <3>1, <4>2, Zenon
    <3>2. CASE ~(o < end)
      BY <1>2, <3>2, Zenon
    <3> QED
      BY <3>1, <3>2, Zenon
  <2>2. IsImage(r, P)'
    BY <2>1, Zenon DEF IsImage
  <2>3. Covers(P, next[r])'
    <3>1. Covers(P, end)
      BY <1>3, <1>5, CoversLess, Zenon
    <3> QED
      BY <1>2, <3>1, Zenon DEF Covers
  <2>4. Chosen(P)'
    BY <1>5, Zenon DEF Stays
  <2> QED
    BY <2>2, <2>3, <2>4, Zenon DEF StoreAt
<1> QED
  BY <1>4, <1>5, Zenon DEF StoreAt

\* Every step keeps every partition the image of something chosen.
LEMMA StoreStep ==
    ASSUME Ground, Types, Types', Counted, RaftInv, QueueInv, Stays, StoreChosen, Next
    PROVE  StoreChosen'
<1>0. \A r \in Replica : StoreAt(r)
  BY Zenon DEF StoreChosen, StoreAt
<1>1. ASSUME NEW r \in Replica, StoreAt(r)',
             \A q \in Replica \ {r} : part'[q] = part[q] /\ next'[q] = next[q]
      PROVE  StoreChosen'
  <2>1. ASSUME NEW q \in Replica PROVE StoreAt(q)'
    BY <1>0, <1>1, StoreKept, Zenon
  <2> QED
    BY <2>1, Zenon DEF StoreChosen, StoreAt
<1>2. ASSUME UNCHANGED <<part, next>> PROVE StoreChosen'
  <2>1. ASSUME NEW q \in Replica PROVE StoreAt(q)'
    BY <1>0, <1>2, StoreKept, Zenon
  <2> QED
    BY <2>1, Zenon DEF StoreChosen, StoreAt
<1>3. ASSUME NEW r \in Replica, NEW Q \in Majority, Elect(r, Q) PROVE StoreChosen'
  BY <1>2, <1>3, Zenon DEF Elect, store
<1>4. ASSUME NEW l \in Replica, NEW f \in Replica, Replicate(l, f) PROVE StoreChosen'
  BY <1>2, <1>4, Zenon DEF Replicate
<1>5. ASSUME NEW l \in Replica, NEW f \in Replica, Install(l, f) PROVE StoreChosen'
  <2>1. StoreAt(f)'
    BY <1>0, <1>5, StoreInstall, ZenonT(30)
  <2>2. \A q \in Replica \ {f} : part'[q] = part[q] /\ next'[q] = next[q]
    BY SMTT(30), <1>5 DEF Install, Types
  <2> QED
    BY <1>1, <2>1, <2>2, Zenon
<1>6. ASSUME NEW l \in Replica, NEW k \in 1..Len(log[l]), Commit(l, k) PROVE StoreChosen'
  BY <1>2, <1>6, Zenon DEF Commit
<1>7. ASSUME NEW w \in Write, \/ \E r \in Replica : Begin(w, r)
                              \/ Propose(w) \/ NoteIndex(w) \/ CommitTimeout(w)
      PROVE  StoreChosen'
  <2>1. UNCHANGED <<part, next>>
    BY <1>7, Zenon DEF Begin, Propose, NoteIndex, CommitTimeout, store
  <2> QED
    BY <1>2, <2>1, Zenon
<1>8. ASSUME NEW r \in Replica, Apply(r) PROVE StoreChosen'
  <2>1. StoreAt(r)'
    BY <1>0, <1>8, StoreApply, Zenon
  <2>2. \A q \in Replica \ {r} : next'[q] = next[q]
    <3>1. next' = next \/ next' = [next EXCEPT ![r] = Head(queue[r])[2].base + 1]
      BY <1>8, Zenon DEF Apply
    <3> QED
      BY <3>1, Zenon DEF Types
  <2>3. \A q \in Replica \ {r} : part'[q] = part[q]
    <3>1. PICK o, v : part' = part \/ part' = [part EXCEPT ![r][o] = v]
      BY <1>8, Zenon DEF Apply
    <3> QED
      BY <3>1, Zenon DEF Types
  <2> QED
    BY <1>1, <2>1, <2>2, <2>3, Zenon
<1>9. ASSUME NEW r \in Replica, Snapshot(r) PROVE StoreChosen'
  BY <1>2, <1>9, ZenonT(30) DEF Snapshot
<1>10. ASSUME NEW r \in Replica, NEW end \in Offsets, Restart(r, end) PROVE StoreChosen'
  <2>1. StoreAt(r)'
    BY <1>0, <1>10, StoreRestart, Zenon
  <2>2. \A q \in Replica \ {r} : part'[q] = part[q] /\ next'[q] = next[q]
    BY SMTT(30), <1>10 DEF Restart, Types
  <2> QED
    BY <1>1, <2>1, <2>2, Zenon
<1> QED
  BY <1>3, <1>4, <1>5, <1>6, <1>7, <1>8, <1>9, <1>10, ZenonT(30) DEF Next

-----------------------------------------------------------------------------
(* Calls *)

\* A call the apply loop answers is at its node; "ok" is for the entry's own call,
\* "replaced" for one that waits at an index already passed.
LEMMA AnsweredNew ==
    ASSUME NEW r, NEW i, NEW e, NEW w \in Write, Answered(r, i, e)[w] # pc[w]
    PROVE  /\ at[w] = r
           /\ Answered(r, i, e)[w] = "ok" => w = e.write
           /\ Answered(r, i, e)[w] = "replaced" =>
                 pc[w] = "waiting" /\ index[w] <= i /\ w # e.write
           /\ Answered(r, i, e)[w] \in {"ok", "replaced"}
BY Zenon DEF Answered

\* No step but an apply answers "ok" or "replaced", and no step but Begin and Propose
\* lets a call wait for its proposal or for its entry.
LEMMA Verdicts ==
    ASSUME Types, Next, NEW w \in Write
    PROVE  /\ pc'[w] \in {"ok", "replaced"} /\ pc'[w] # pc[w] => \E r \in Replica : Apply(r)
           /\ pc'[w] = "based" /\ pc[w] # "based" => \E r \in Replica : Begin(w, r)
           /\ pc'[w] = "accepted" /\ pc[w] # "accepted" => Propose(w)
           /\ pc'[w] = "waiting" => pc[w] \in {"accepted", "waiting"}
<1> DEFINE Goal == /\ pc'[w] \in {"ok", "replaced"} /\ pc'[w] # pc[w] => \E r \in Replica : Apply(r)
                   /\ pc'[w] = "based" /\ pc[w] # "based" => \E r \in Replica : Begin(w, r)
                   /\ pc'[w] = "accepted" /\ pc[w] # "accepted" => Propose(w)
                   /\ pc'[w] = "waiting" => pc[w] \in {"accepted", "waiting"}
<1> SUFFICES Goal
  BY Zenon
<1>0. pc \in [Write -> States]
  BY Zenon DEF Types
<1>1. ASSUME pc' = pc PROVE Goal
  BY <1>1, Zenon
<1>2. ASSUME NEW r \in Replica, NEW Q \in Majority, Elect(r, Q) PROVE Goal
  BY <1>1, <1>2, Zenon DEF Elect, calls
<1>3. ASSUME NEW l \in Replica, NEW f \in Replica, Replicate(l, f) \/ Install(l, f) PROVE Goal
  <2>1. pc' = pc
    BY <1>3, Zenon DEF Replicate, Install, calls
  <2> QED
    BY <1>1, <2>1, Zenon
<1>4. ASSUME NEW l \in Replica, NEW k \in 1..Len(log[l]), Commit(l, k) PROVE Goal
  BY <1>1, <1>4, Zenon DEF Commit, calls
<1>5. ASSUME NEW v \in Write, NEW r \in Replica, Begin(v, r) PROVE Goal
  <2>1. pc' = [pc EXCEPT ![v] = "based"]
    BY <1>5, Zenon DEF Begin
  <2>2. pc'[w] = IF w = v THEN "based" ELSE pc[w]
    BY <1>0, <2>1, Zenon
  <2> QED
    BY <1>5, <2>2, Zenon
<1>6. ASSUME NEW v \in Write, Propose(v) PROVE Goal
  <2>1. pc' = [pc EXCEPT ![v] = "accepted"] \/ pc' = [pc EXCEPT ![v] = "not leader"]
    BY <1>6, Zenon DEF Propose
  <2>2. w # v => pc'[w] = pc[w]
    BY <1>0, <2>1, Zenon
  <2>3. w = v => pc'[w] \in {"accepted", "not leader"}
    BY <1>0, <2>1, Zenon
  <2> QED
    BY <1>6, <2>2, <2>3, Zenon
<1>7. ASSUME NEW v \in Write, NoteIndex(v) \/ CommitTimeout(v) PROVE Goal
  <2>1. \/ pc[v] = "accepted" /\ pc' = [pc EXCEPT ![v] = "waiting"]
        \/ pc[v] = "waiting" /\ pc' = [pc EXCEPT ![v] = "timeout"]
    BY <1>7, Zenon DEF NoteIndex, CommitTimeout
  <2>2. w # v => pc'[w] = pc[w]
    BY <1>0, <2>1, Zenon
  <2>3. w = v => \/ pc'[w] = "timeout"
                 \/ pc'[w] = "waiting" /\ pc[w] = "accepted"
    BY <1>0, <2>1, Zenon
  <2> QED
    BY <2>2, <2>3, Zenon
<1>8. ASSUME NEW r \in Replica, Apply(r) PROVE Goal
  <2>1. PICK i, e : pc' = Answered(r, i, e)
    BY <1>8, Zenon DEF Apply
  <2>2. pc'[w] \in {pc[w], "ok", "replaced"}
    BY <2>1, AnsweredKept, Zenon
  <2> QED
    BY <1>8, <2>2, Zenon
<1>9. ASSUME NEW r \in Replica, Snapshot(r) PROVE Goal
  BY <1>1, <1>9, Zenon DEF Snapshot, calls
<1>10. ASSUME NEW r \in Replica, NEW end \in Offsets, Restart(r, end) PROVE Goal
  <2>1. pc'[w] = pc[w] \/ pc'[w] = "gone"
    BY <1>10, Zenon DEF Restart
  <2> QED
    BY <2>1, Zenon
<1> HIDE DEF Goal
<1> QED
  BY <1>2, <1>3, <1>4, <1>5, <1>6, <1>7, <1>8, <1>9, <1>10, ZenonT(30) DEF Next

\* Every step keeps a record acknowledged to its caller in something chosen.
LEMMA OkStep ==
    ASSUME Ground, Types, RaftInv, QueueInv, Stays, OkChosen, Next
    PROVE  OkChosen'
<1> SUFFICES ASSUME NEW w \in Write, pc'[w] = "ok"
             PROVE  \E P \in Prefix : Chosen(P)' /\ Has(P, w)
  BY Zenon DEF OkChosen, Has
<1>1. CASE pc[w] = "ok"
  BY <1>1, Zenon DEF OkChosen, Stays
<1>2. CASE pc[w] # "ok"
  <2>1. PICK r \in Replica : Apply(r)
    BY <1>2, Verdicts, Zenon
  <2>2. PICK i, e : i = Head(queue[r])[1] /\ e = Head(queue[r])[2]
    BY Zenon
  <2>3. queue[r] # << >> /\ pc' = Answered(r, i, e)
    BY <2>1, <2>2, Zenon DEF Apply
  <2>4. i \in Nat /\ i > applied[r] /\ i <= commit[r] /\ e = log[r][i]
    BY <2>2, <2>3, HeadFacts, Zenon DEF QueueInv
  <2>5. i \in 1..commit[r]
    BY SMTT(30), <2>4, QueueFacts
  <2>6. w = e.write
    BY SMTT(30), <1>2, <2>3, AnsweredNew
  <2>7. PICK P \in Prefix : /\ Chosen(P) /\ Len(P) \in Nat /\ commit[r] <= Len(P)
                            /\ \A j \in 1..commit[r] : P[j] = log[r][j]
    BY <2>5, CommittedPrefix, Zenon
  <2>8. i \in 1..Len(P) /\ P[i].write = w
    BY SMTT(30), <2>4, <2>5, <2>6, <2>7, QueueFacts
  <2> QED
    BY <2>7, <2>8, Zenon DEF Has, Stays
<1> QED
  BY <1>1, <1>2, Zenon

\* The proposal lock: a node has one call between its offset and its proposal.
LEMMA OneBasedStep ==
    ASSUME Types, OneBased, Next
    PROVE  OneBased'
<1> SUFFICES ASSUME NEW v \in Write, NEW w \in Write, pc'[v] = "based", pc'[w] = "based",
                    at'[v] = at'[w], v # w
             PROVE  FALSE
  BY Zenon DEF OneBased
<1>1. ASSUME NEW x \in Write, pc[x] = "based" PROVE at'[x] = at[x]
  BY <1>1, CallsStep, Zenon DEF CallsKept
<1>2. ASSUME NEW x \in Write, NEW y \in Write, x # y, pc'[x] = "based", pc'[y] = "based",
             at'[x] = at'[y], pc[x] # "based"
      PROVE  FALSE
  <2>1. PICK r \in Replica : Begin(x, r)
    BY <1>2, Verdicts, Zenon
  <2>2. /\ \A z \in Write : ~(at[z] = r /\ pc[z] = "based")
        /\ pc' = [pc EXCEPT ![x] = "based"] /\ at' = [at EXCEPT ![x] = r]
    BY <2>1, Zenon DEF Begin
  <2>3. pc'[y] = pc[y] /\ at'[y] = at[y] /\ at'[x] = r
    BY <1>2, <2>2, ZenonT(30) DEF Types
  <2> QED
    BY <1>2, <2>2, <2>3, Zenon
<1>3. CASE pc[v] = "based" /\ pc[w] = "based"
  BY <1>1, <1>3, Zenon DEF OneBased
<1> QED
  BY <1>2, <1>3, Zenon

\* Nothing is led or written before the first election.
LEMMA LeaderHasLog ==
    ASSUME Types, RaftInv, NoLogYet, NEW r \in Replica, leads[r]
    PROVE  elections # 0 /\ elections \in Nat
<1>1. Len(log[r]) > 0
  BY Zenon DEF RaftInv, RaftCore, LeaderLog
<1>2. log[r] # << >>
  BY <1>1
<1> QED
  BY <1>2, ZenonT(30) DEF NoLogYet, Types

\* There is no entry before the first election.
LEMMA NoLogStep ==
    ASSUME Types, RaftInv, Counted, NoLogYet, Next
    PROVE  NoLogYet'
<1>1. ASSUME UNCHANGED <<log, elections>> PROVE NoLogYet'
  BY <1>1, Zenon DEF NoLogYet
<1>2. ASSUME NEW r \in Replica, NEW Q \in Majority, Elect(r, Q) PROVE NoLogYet'
  <2>1. elections' = elections + 1 /\ elections \in Nat
    BY <1>2, Zenon DEF Elect, Types
  <2>2. elections' # 0
    BY <2>1
  <2> QED
    BY <2>2, Zenon DEF NoLogYet
<1>3. ASSUME NEW l \in Replica, NEW f \in Replica, Replicate(l, f) \/ Install(l, f) PROVE NoLogYet'
  <2>1. leads[l] /\ elections' = elections
    BY <1>3, Zenon DEF Replicate, Install, bounds
  <2> QED
    BY <2>1, LeaderHasLog, Zenon DEF NoLogYet
<1>4. ASSUME NEW w \in Write, Propose(w) PROVE NoLogYet'
  <2>1. pc[w] = "based" /\ elections' = elections
    BY <1>4, Zenon DEF Propose, bounds
  <2>2. PICK r \in Replica : r = at[w]
    BY <2>1, Zenon DEF Counted
  <2>3. CASE leads[r]
    BY <2>1, <2>3, LeaderHasLog, Zenon DEF NoLogYet
  <2>4. CASE ~leads[r]
    BY <1>1, <1>4, <2>1, <2>2, <2>4, Zenon DEF Propose
  <2> QED
    BY <2>3, <2>4, Zenon
<1>5. ASSUME NEW l \in Replica, NEW k \in 1..Len(log[l]), Commit(l, k) PROVE NoLogYet'
  BY <1>1, <1>5, Zenon DEF Commit, bounds
<1>6. ASSUME NEW w \in Write, NEW r \in Replica, Begin(w, r) PROVE NoLogYet'
  BY <1>1, <1>6, Zenon DEF Begin, raft, bounds
<1>7. ASSUME NEW w \in Write, NoteIndex(w) \/ CommitTimeout(w) PROVE NoLogYet'
  BY <1>1, <1>7, Zenon DEF NoteIndex, CommitTimeout, raft, bounds
<1>8. ASSUME NEW r \in Replica, Apply(r) \/ Snapshot(r) PROVE NoLogYet'
  <2>1. UNCHANGED <<log, elections>>
    BY <1>8, Zenon DEF Apply, Snapshot, raft, bounds
  <2> QED
    BY <1>1, <2>1, Zenon
<1>9. ASSUME NEW r \in Replica, NEW end \in Offsets, Restart(r, end) PROVE NoLogYet'
  BY <1>1, <1>9, Zenon DEF Restart
<1> QED
  BY <1>2, <1>3, <1>4, <1>5, <1>6, <1>7, <1>8, <1>9, ZenonT(30) DEF Next

\* The log of r does not change, or is the beginning of another one.
LEMMA OffsetsKept ==
    ASSUME Types, Types', NEW r \in Replica, NEW q \in Replica, Rises(q),
           Len(log'[r]) <= Len(log[q]), \A i \in 1..Len(log'[r]) : log'[r][i] = log[q][i]
    PROVE  Rises(r)'
<1>1. Len(log'[r]) \in Nat /\ Len(log[q]) \in Nat
  <2>1. log'[r] \in Seq(Entry) /\ log[q] \in Seq(Entry)
    BY Zenon DEF Types
  <2> QED
    BY <2>1
<1>2. \A i \in 1..Len(log'[r]) : i \in 1..Len(log[q])
  BY <1>1
<1>3. ASSUME NEW i \in 1..Len(log'[r]), NEW j \in 1..Len(log'[r]), i < j,
             log'[r][i].write # Noop, log'[r][j].write # Noop
      PROVE  log'[r][i].base < log'[r][j].base
  <2>1. log'[r][i] = log[q][i] /\ log'[r][j] = log[q][j]
    BY Zenon
  <2>2. log[q][i].base < log[q][j].base
    BY <1>2, <1>3, <2>1, Zenon DEF Rises, IsData
  <2> QED
    BY <2>1, <2>2, Zenon
<1> QED
  BY <1>3, Zenon DEF Rises, IsData

\* A call that waits for its proposal stays ahead of a log that does not change.
LEMMA AheadKept ==
    ASSUME Types, NEW r \in Replica, NEW w \in Write, Ahead(w, r), CallsKept,
           log'[r] = log[r], leads'[r] => leads[r], pc'[w] = "based" => pc[w] = "based"
    PROVE  Ahead(w, r)'
<1>1. pc[w] = "based" => at'[w] = at[w] /\ offset'[w] = offset[w]
  BY Zenon DEF CallsKept
<1> QED
  BY <1>1, Zenon DEF Ahead, IsData

\* next_assignable_offset is past all that a leader under whom offsets rise has written.
LEMMA AheadOfLog ==
    ASSUME Ground, Types, Written, Counted, RaftInv, QueueInv, NEW r \in Replica, Rises(r),
           NEW i \in 1..Len(log[r]), IsData(r, i)
    PROVE  log[r][i].base < NextAssignable(r)
<1>1. /\ NextAssignable(r) \in Nat /\ next[r] <= NextAssignable(r)
      /\ \/ Data(r) = {} /\ NextAssignable(r) = next[r]
         \/ \E m \in Data(r) : /\ \A j \in Data(r) : j <= m
                               /\ log[r][m].base < NextAssignable(r)
  BY NextAssignableFacts, Zenon
<1>2. /\ base[r] \in Nat /\ commit[r] \in Nat /\ next[r] \in Nat /\ synced[r] \in Nat
      /\ base[r] <= commit[r] /\ synced[r] <= next[r] /\ Len(log[r]) \in Nat
  BY QueueFacts, EntryFacts, Zenon DEF RaftInv, Indices, Counted
<1>3. log[r][i].base \in Nat /\ i \in Nat
  BY SMTT(30), EntryFacts, BaseFacts
<1>4. CASE i <= base[r]
  <2>1. i \in 1..commit[r]
    BY SMTT(30), <1>2, <1>3, <1>4
  <2>2. log[r][i].base < synced[r]
    BY <1>4, <2>1, Zenon DEF QueueInv, CommittedIsHandled, Handled
  <2> QED
    BY SMTT(30), <1>1, <1>2, <1>3, <2>2
<1>5. CASE i > base[r]
  <2>1. i \in Data(r)
    BY SMTT(30), <1>2, <1>3, <1>5 DEF Data, IsData
  <2>2. PICK m \in Data(r) : i <= m /\ log[r][m].base < NextAssignable(r)
    BY <1>1, <2>1, Zenon
  <2>3. m \in 1..Len(log[r]) /\ IsData(r, m)
    BY <1>2 DEF Data, IsData
  <2>4. log[r][m].base \in Nat
    BY <2>3, EntryFacts, BaseFacts, ZenonT(30)
  <2>5. i = m \/ i < m
    BY SMTT(30), <1>3, <2>2, <2>3
  <2>6. i < m => log[r][i].base < log[r][m].base
    BY <2>3, Zenon DEF Rises
  <2> QED
    BY SMTT(30), <1>1, <1>3, <2>2, <2>4, <2>5, <2>6
<1> QED
  BY SMTT(30), <1>2, <1>3, <1>4, <1>5

\* Under one leader the offsets of a log go up: the proposal lock covers the read of
\* next_assignable_offset and the proposal.
LEMMA OffsetsStep ==
    ASSUME Ground, Types, Types', Written, Counted, RaftInv, QueueInv, OneLeaderOffsets, Next
    PROVE  OneLeaderOffsets'
<1> DEFINE Goal == elections' <= 1 => \A r \in Replica : Rises(r)' /\ \A w \in Write : Ahead(w, r)'
<1>0. CallsKept /\ elections \in Nat /\ \A r \in Replica : Len(log[r]) \in Nat
  BY CallsStep, EntryFacts, ZenonT(30) DEF Types
<1>1. ASSUME UNCHANGED elections,
             \A r \in Replica : log'[r] = log[r] /\ (leads'[r] => leads[r]),
             \A w \in Write : pc'[w] = "based" => pc[w] = "based"
      PROVE  Goal
  <2> SUFFICES ASSUME elections <= 1, NEW r \in Replica
               PROVE  Rises(r)' /\ \A w \in Write : Ahead(w, r)'
    BY <1>1, Zenon
  <2>1. Rises(r) /\ \A w \in Write : Ahead(w, r)
    BY Zenon DEF OneLeaderOffsets
  <2>2. Rises(r)'
    <3>1. Len(log'[r]) <= Len(log[r]) /\ \A i \in 1..Len(log'[r]) : log'[r][i] = log[r][i]
      BY <1>0, <1>1
    <3> QED
      BY <2>1, <3>1, OffsetsKept, Zenon
  <2>3. ASSUME NEW w \in Write PROVE Ahead(w, r)'
    BY <1>0, <1>1, <2>1, AheadKept, ZenonT(30)
  <2> QED
    BY <2>2, <2>3, Zenon
<1>2. ASSUME NEW r \in Replica, NEW Q \in Majority, Elect(r, Q) PROVE Goal
  <2> SUFFICES ASSUME elections' <= 1
               PROVE  \A q \in Replica : Rises(q)' /\ \A w \in Write : Ahead(w, q)'
    BY Zenon
  <2>1. elections = 0
    BY SMTT(30), <1>0, <1>2 DEF Elect
  <2>2. \A q \in Replica : log[q] = << >>
    BY <2>1, Zenon DEF OneLeaderOffsets, NoLogYet
  <2>3. PICK e : e.write = Noop /\ log' = [log EXCEPT ![r] = Append(@, e)]
    <3> DEFINE e == [term |-> Max({term[q] : q \in Replica}) + 1, write |-> Noop, base |-> 0]
    <3>1. log' = [log EXCEPT ![r] = Append(@, e)] /\ e.write = Noop
      BY <1>2, Zenon DEF Elect
    <3> QED
      BY <3>1, Zenon
  <2>4. ASSUME NEW q \in Replica, NEW i \in 1..Len(log'[q]) PROVE log'[q][i].write = Noop
    <3>1. CASE q = r
      <4>1. log'[q] = Append(<< >>, e)
        BY <2>2, <2>3, <3>1, ZenonT(30) DEF Types
      <4>2. Append(<< >>, e) = << e >>
        OBVIOUS
      <4>3. i = 1
        BY SMTT(30), <4>1, <4>2
      <4> QED
        BY SMTT(30), <2>3, <4>1, <4>2, <4>3
    <3>2. CASE q # r
      <4>1. log'[q] = << >>
        BY <2>2, <2>3, <3>2, ZenonT(30) DEF Types
      <4> QED
        BY SMTT(30), <4>1
    <3> QED
      BY <3>1, <3>2, Zenon
  <2> QED
    BY <2>4, Zenon DEF Rises, Ahead, IsData
<1>3. ASSUME NEW l \in Replica, NEW f \in Replica, Replicate(l, f) \/ Install(l, f) PROVE Goal
  <2> SUFFICES ASSUME elections' <= 1, NEW q \in Replica
               PROVE  Rises(q)' /\ \A w \in Write : Ahead(w, q)'
    BY Zenon
  <2>1. elections <= 1 /\ pc' = pc /\ leads'[f] = FALSE
        /\ \A p \in Replica \ {f} : log'[p] = log[p] /\ leads'[p] = leads[p]
    <3>1. /\ UNCHANGED elections /\ pc' = pc /\ leads' = [leads EXCEPT ![f] = FALSE]
          /\ \E p : log' = [log EXCEPT ![f] = p]
      <4>1. CASE Replicate(l, f)
        BY <4>1, Zenon DEF Replicate, bounds, calls
      <4>2. CASE Install(l, f)
        BY <4>2, Zenon DEF Install, bounds, calls
      <4> QED
        BY <1>3, <4>1, <4>2, Zenon
    <3> QED
      BY <3>1, Zenon DEF Types
  <2>2. \A p \in Replica : Rises(p) /\ \A w \in Write : Ahead(w, p)
    BY <2>1, Zenon DEF OneLeaderOffsets
  <2>3. CASE q = f
    <3>1. Len(log'[f]) <= Len(log[l]) /\ \A i \in 1..Len(log'[f]) : log'[f][i] = log[l][i]
      <4>1. CASE Replicate(l, f)
        <5>1. log'[f] = log[l]
          BY <4>1, Zenon DEF Replicate, Types
        <5> QED
          BY SMTT(30), <1>0, <5>1
      <4>2. CASE Install(l, f)
        <5>1. Len(log'[f]) = base[l] /\ \A i \in 1..base[l] : log'[f][i] = log[l][i]
          BY <4>2, RaftInstall, Zenon
        <5>2. base[l] <= Len(log[l])
          <6>1. base[l] <= commit[l] /\ commit[l] <= Len(log[l]) /\ base[l] \in Nat /\ commit[l] \in Nat
            BY QueueFacts, Zenon DEF RaftInv, Indices
          <6> QED
            BY <1>0, <6>1
        <5> QED
          BY <5>1, <5>2, Zenon
      <4> QED
        BY <1>3, <4>1, <4>2, Zenon
    <3>2. Rises(f)'
      BY <2>2, <3>1, OffsetsKept, Zenon
    <3>3. \A w \in Write : Ahead(w, f)'
      BY <2>1, Zenon DEF Ahead
    <3> QED
      BY <2>3, <3>2, <3>3, Zenon
  <2>4. CASE q # f
    <3>1. log'[q] = log[q] /\ leads'[q] = leads[q]
      BY <2>1, <2>4, Zenon
    <3>2. Rises(q)'
      <4>1. Len(log'[q]) <= Len(log[q]) /\ \A i \in 1..Len(log'[q]) : log'[q][i] = log[q][i]
        BY <1>0, <3>1
      <4> QED
        BY <2>2, <4>1, OffsetsKept, Zenon
    <3>3. ASSUME NEW w \in Write PROVE Ahead(w, q)'
      BY <1>0, <2>1, <2>2, <3>1, AheadKept, Zenon
    <3> QED
      BY <3>2, <3>3, Zenon
  <2> QED
    BY <2>3, <2>4, Zenon
<1>4. ASSUME NEW l \in Replica, NEW k \in 1..Len(log[l]), Commit(l, k) PROVE Goal
  BY <1>1, <1>4, Zenon DEF Commit, calls, bounds
<1>5. ASSUME NEW v \in Write, NEW p \in Replica, Begin(v, p) PROVE Goal
  <2> SUFFICES ASSUME elections' <= 1, NEW q \in Replica
               PROVE  Rises(q)' /\ \A w \in Write : Ahead(w, q)'
    BY Zenon
  <2>1. UNCHANGED <<log, leads, elections>>
    BY <1>5, Zenon DEF Begin, raft, bounds
  <2>2. Rises(q) /\ \A w \in Write : Ahead(w, q)
    BY <2>1, Zenon DEF OneLeaderOffsets
  <2>3. Rises(q)'
    <3>1. Len(log'[q]) <= Len(log[q]) /\ \A i \in 1..Len(log'[q]) : log'[q][i] = log[q][i]
      BY <1>0, <2>1
    <3> QED
      BY <2>2, <3>1, OffsetsKept, Zenon
  <2>4. ASSUME NEW w \in Write PROVE Ahead(w, q)'
    <3>1. CASE w = v
      <4>1. at'[w] = p /\ offset'[w] = NextAssignable(p)
        BY <1>5, <3>1, ZenonT(30) DEF Begin, Types
      <4>2. ASSUME q = p, NEW i \in 1..Len(log[q]), IsData(q, i) PROVE log[q][i].base < offset'[w]
        BY <2>2, <4>1, <4>2, AheadOfLog, Zenon
      <4> QED
        BY <2>1, <4>1, <4>2, Zenon DEF Ahead, IsData
    <3>2. CASE w # v
      <4>1. pc'[w] = pc[w]
        BY <1>5, <3>2, ZenonT(30) DEF Begin, Types
      <4> QED
        BY <1>0, <2>1, <2>2, <4>1, AheadKept, ZenonT(30)
    <3> QED
      BY <3>1, <3>2, Zenon
  <2> QED
    BY <2>3, <2>4, Zenon
<1>6. ASSUME NEW v \in Write, Propose(v) PROVE Goal
  <2>1. pc[v] = "based" /\ UNCHANGED <<leads, elections, at, offset>>
    BY <1>6, Zenon DEF Propose, bounds
  <2>2. PICK p \in Replica : p = at[v]
    BY <2>1, Zenon DEF Counted
  <2>3. \A w \in Write : pc'[w] = "based" => pc[w] = "based" /\ w # v
    <3>1. pc' = [pc EXCEPT ![v] = "accepted"] \/ pc' = [pc EXCEPT ![v] = "not leader"]
      BY <1>6, Zenon DEF Propose
    <3> QED
      BY <3>1, Zenon DEF Types
  <2>4. CASE ~leads[p]
    <3>1. log' = log
      BY <1>6, <2>2, <2>4, Zenon DEF Propose
    <3> QED
      BY <1>1, <2>1, <2>3, <3>1, Zenon
  <2>5. CASE leads[p]
    <3> SUFFICES ASSUME elections' <= 1, NEW q \in Replica
                 PROVE  Rises(q)' /\ \A w \in Write : Ahead(w, q)'
      BY Zenon
    <3>1. \A r \in Replica : Rises(r) /\ \A w \in Write : Ahead(w, r)
      BY <2>1, Zenon DEF OneLeaderOffsets
    <3>2. PICK e : /\ e = [term |-> term[p], write |-> v, base |-> offset[v]]
                   /\ log' = [log EXCEPT ![p] = Append(@, e)]
      BY <1>6, <2>2, <2>5, Zenon DEF Propose
    <3>3. CASE q = p
      <4>1. e \in Entry /\ e.base = offset[v]
        BY <2>2, <3>2, ZenonT(30) DEF Types, Entry
      <4>2. log[p] \in Seq(Entry) /\ log'[p] = Append(log[p], e)
        BY <3>2, Zenon DEF Types
      <4>3. /\ Len(log'[p]) = Len(log[p]) + 1 /\ log'[p][Len(log[p]) + 1] = e
            /\ \A i \in 1..Len(log[p]) : log'[p][i] = log[p][i]
        BY SMTT(30), <4>1, <4>2, AppendFacts
      <4>4. \A i \in 1..Len(log[p]) : IsData(p, i) => log[p][i].base < e.base
        BY <2>1, <2>2, <2>5, <3>1, <4>1, Zenon DEF Ahead
      <4>5. ASSUME NEW i \in 1..Len(log'[p]), NEW j \in 1..Len(log'[p]), i < j,
                   log'[p][i].write # Noop, log'[p][j].write # Noop
            PROVE  log'[p][i].base < log'[p][j].base
        <5>1. i \in 1..Len(log[p]) /\ (j \in 1..Len(log[p]) \/ j = Len(log[p]) + 1)
          BY <1>0, <4>3, <4>5
        <5>2. CASE j \in 1..Len(log[p])
          BY <3>1, <4>3, <4>5, <5>1, <5>2, Zenon DEF Rises, IsData
        <5>3. CASE j = Len(log[p]) + 1
          BY <4>3, <4>4, <4>5, <5>1, <5>3, Zenon DEF IsData
        <5> QED
          BY <5>1, <5>2, <5>3, Zenon
      <4>6. Rises(p)'
        BY <4>5, Zenon DEF Rises, IsData
      <4>7. ASSUME NEW w \in Write PROVE Ahead(w, p)'
        <5>1. ~(pc'[w] = "based" /\ at'[w] = p)
          BY <2>1, <2>2, <2>3, ZenonT(30) DEF OneLeaderOffsets, OneBased
        <5> QED
          BY <5>1, Zenon DEF Ahead
      <4> QED
        BY <3>3, <4>6, <4>7, Zenon
    <3>4. CASE q # p
      <4>1. log'[q] = log[q]
        BY <3>2, <3>4, ZenonT(30) DEF Types
      <4>2. Rises(q)'
        <5>1. Len(log'[q]) <= Len(log[q]) /\ \A i \in 1..Len(log'[q]) : log'[q][i] = log[q][i]
          BY <1>0, <4>1
        <5> QED
          BY <3>1, <5>1, OffsetsKept, Zenon
      <4>3. ASSUME NEW w \in Write PROVE Ahead(w, q)'
        BY <1>0, <2>1, <2>3, <3>1, <4>1, AheadKept, ZenonT(30)
      <4> QED
        BY <4>2, <4>3, Zenon
    <3> QED
      BY <3>3, <3>4, Zenon
  <2> QED
    BY <2>4, <2>5, Zenon
<1>7. ASSUME NEW w \in Write, NoteIndex(w) \/ CommitTimeout(w) PROVE Goal
  <2>1. UNCHANGED <<log, leads, elections>>
    BY <1>7, Zenon DEF NoteIndex, CommitTimeout, raft, bounds
  <2>2. \A v \in Write : pc'[v] = "based" => pc[v] = "based"
    BY <1>7, Zenon DEF NoteIndex, CommitTimeout, Types
  <2> QED
    BY <1>1, <2>1, <2>2, Zenon
<1>8. ASSUME NEW r \in Replica, Apply(r) PROVE Goal
  <2>1. UNCHANGED <<log, leads, elections>>
    BY <1>8, Zenon DEF Apply, raft, bounds
  <2>2. PICK i, e : pc' = Answered(r, i, e)
    BY <1>8, Zenon DEF Apply
  <2>3. \A v \in Write : pc'[v] = "based" => pc[v] = "based"
    BY <2>2, AnsweredKept, Zenon
  <2> QED
    BY <1>1, <2>1, <2>3, Zenon
<1>9. ASSUME NEW r \in Replica, Snapshot(r) PROVE Goal
  BY <1>1, <1>9, Zenon DEF Snapshot, calls, bounds
<1>10. ASSUME NEW r \in Replica, NEW end \in Offsets, Restart(r, end) PROVE Goal
  <2>1. UNCHANGED <<log, elections>> /\ \A q \in Replica : leads'[q] => leads[q]
    BY <1>10, Zenon DEF Restart, Types
  <2>2. \A v \in Write : pc'[v] = "based" => pc[v] = "based"
    BY <1>10, Zenon DEF Restart
  <2> QED
    BY <1>1, <2>1, <2>2, Zenon
<1>11. OneBased' /\ NoLogYet'
  BY OneBasedStep, NoLogStep, Zenon DEF OneLeaderOffsets
<1>12. Goal
  <2> HIDE DEF Goal
  <2> QED
    BY <1>2, <1>3, <1>4, <1>5, <1>6, <1>7, <1>8, <1>9, <1>10, ZenonT(30) DEF Next
<1> QED
  BY <1>11, <1>12, Zenon DEF OneLeaderOffsets

\* Only the apply loop takes the applied index forward, and a snapshot is for good.
LEMMA AppliedStep ==
    ASSUME Ground, Types, RaftInv, NEW r \in Replica, base'[r] = 0, Next
    PROVE  base[r] = 0 /\ (Apply(r) \/ applied'[r] \in {0, applied[r]})
<1> DEFINE Goal == base[r] = 0 /\ (Apply(r) \/ applied'[r] \in {0, applied[r]})
<1> SUFFICES Goal
  BY Zenon
<1>0. applied \in [Replica -> Nat] /\ base \in [Replica -> Nat] /\ \A q \in Replica : commit[q] \in Nat
  BY Zenon DEF Types
<1>1. ASSUME UNCHANGED <<applied, base>> PROVE Goal
  BY <1>1, Zenon
<1>2. ASSUME NEW q \in Replica, NEW Q \in Majority, Elect(q, Q) PROVE Goal
  BY <1>1, <1>2, Zenon DEF Elect, store
<1>3. ASSUME NEW l \in Replica, NEW f \in Replica, Replicate(l, f) PROVE Goal
  BY <1>1, <1>3, Zenon DEF Replicate
<1>4. ASSUME NEW l \in Replica, NEW f \in Replica, Install(l, f) PROVE Goal
  <2>1. applied' = applied /\ base' = [base EXCEPT ![f] = base[l]]
    BY <1>4, Zenon DEF Install
  <2>2. commit[f] < base[l]
    BY <1>4, InstallBeyond, Zenon
  <2>3. r # f
    BY <1>0, <2>1, <2>2
  <2> QED
    BY <1>0, <2>1, <2>3, Zenon
<1>5. ASSUME NEW l \in Replica, NEW k \in 1..Len(log[l]), Commit(l, k) PROVE Goal
  BY <1>1, <1>5, Zenon DEF Commit
<1>6. ASSUME NEW w \in Write, \/ \E q \in Replica : Begin(w, q)
                              \/ Propose(w) \/ NoteIndex(w) \/ CommitTimeout(w)
      PROVE  Goal
  <2>1. UNCHANGED <<applied, base>>
    BY <1>6, Zenon DEF Begin, Propose, NoteIndex, CommitTimeout, store, raft
  <2> QED
    BY <1>1, <2>1, Zenon
<1>7. ASSUME NEW q \in Replica, Apply(q) PROVE Goal
  <2>1. base' = base /\ applied' = [applied EXCEPT ![q] = Head(queue[q])[1]]
    BY <1>7, Zenon DEF Apply, raft
  <2>2. q = r \/ applied'[r] = applied[r]
    BY <1>0, <2>1, Zenon
  <2> QED
    BY <1>7, <2>1, <2>2, Zenon
<1>8. ASSUME NEW q \in Replica, Snapshot(q) PROVE Goal
  <2>1. applied[q] > base[q] /\ base' = [base EXCEPT ![q] = applied[q]] /\ applied' = applied
    BY <1>8, Zenon DEF Snapshot
  <2>2. r # q
    BY <1>0, <2>1
  <2> QED
    BY <1>0, <2>1, <2>2, Zenon
<1>9. ASSUME NEW q \in Replica, NEW end \in Offsets, Restart(q, end) PROVE Goal
  <2>1. base' = base /\ applied' = [applied EXCEPT ![q] = base[q]]
    BY <1>9, Zenon DEF Restart
  <2>2. applied'[r] = IF r = q THEN base[r] ELSE applied[r]
    BY <1>0, <2>1, Zenon
  <2> QED
    BY <2>1, <2>2, Zenon
<1> HIDE DEF Goal
<1> QED
  BY <1>2, <1>3, <1>4, <1>5, <1>6, <1>7, <1>8, <1>9, ZenonT(30) DEF Next

\* When the apply loop reaches an index, the entry of a call that waits at or before it,
\* and is not the one applied, is not in the log.
LEMMA PassedBy ==
    ASSUME Ground, Types, RaftInv, QueueInv, NEW r \in Replica, base[r] = 0, queue[r] # << >>,
           NEW w \in Write, Waits(w), Unapplied(w, r), w # Head(queue[r])[2].write,
           index[w] \in 1..Head(queue[r])[1]
    PROVE  index[w] \in 1..commit[r] /\ log[r][index[w]].write # w
<1>1. PICK i, e, x : i = Head(queue[r])[1] /\ e = Head(queue[r])[2] /\ x = index[w]
  BY Zenon
<1>2. i \in Nat /\ i > applied[r] /\ i <= commit[r] /\ e = log[r][i]
  BY <1>1, HeadFacts, Zenon DEF QueueInv
<1>3. x \in 1..i /\ x \in Nat /\ applied[r] \in Nat /\ commit[r] \in Nat
  BY <1>1, QueueFacts, Zenon DEF Types
<1>4. x \in 1..commit[r]
  BY <1>2, <1>3
<1>5. CASE x = i
  BY <1>1, <1>2, <1>4, <1>5, Zenon
<1>6. CASE x <= applied[r]
  BY SMTT(30), <1>1, <1>3, <1>4, <1>6 DEF Unapplied
<1>7. CASE x < i /\ x > applied[r]
  <2>1. ~Queued(r, x)
    BY <1>1, <1>3, <1>7, HeadFirst, Zenon DEF QueueInv
  <2>2. x > base[r]
    BY <1>3
  <2>3. ~IsData(r, x)
    BY <1>4, <1>7, <2>1, <2>2, Zenon DEF QueueInv, CommittedIsHandled, Handled
  <2>4. log[r][x].write # w
    BY <2>3, ReplicatedPartitionAssumption, Zenon DEF IsData
  <2> QED
    BY <1>1, <1>4, <2>4, Zenon
<1> QED
  BY SMTT(30), <1>2, <1>3, <1>5, <1>6, <1>7

\* Every step keeps a call given up as replaced out of what is chosen, as long as its
\* node has no snapshot.
LEMMA ReplacedStep ==
    ASSUME Ground, Types, Types', RaftInv, QueueInv, Counted, Stays, ReplacedLost, Next
    PROVE  ReplacedLost'
<1> SUFFICES ASSUME NEW w \in Write, NEW r \in Replica, at'[w] = r, base'[r] = 0
             PROVE  /\ Waits(w)' => index'[w] > 0
                    /\ Unapplied(w, r)'
                    /\ pc'[w] = "replaced" => Overtaken(w)'
  BY Zenon DEF ReplacedLost
<1>1. base[r] = 0 /\ (Apply(r) \/ applied'[r] \in {0, applied[r]})
  BY AppliedStep, Zenon
<1>2. ASSUME pc[w] \in {"accepted", "waiting", "replaced"}
      PROVE  /\ at[w] = r /\ index'[w] = index[w] /\ index[w] \in Nat /\ Unapplied(w, r)
             /\ Waits(w) => index[w] > 0
             /\ pc[w] = "replaced" => Overtaken(w)
  <2>1. at[w] = r /\ index'[w] = index[w]
    BY <1>2, CallsStep, Zenon DEF CallsKept
  <2> QED
    BY <1>1, <2>1, ZenonT(30) DEF ReplacedLost, Types
<1>3. applied[r] \in Nat /\ commit[r] \in Nat /\ applied[r] <= commit[r] /\ commit[r] <= Len(log[r])
      /\ Len(log[r]) \in Nat
  BY QueueFacts, EntryFacts, Zenon DEF RaftInv, Indices
<1>4. CASE pc'[w] = "accepted" /\ pc[w] # "accepted"
  <2>1. Propose(w) /\ pc[w] = "based"
    BY <1>4, Verdicts, Zenon DEF Propose
  <2>2. at[w] = r
    BY <2>1, Zenon DEF Propose
  <2>3. leads[r]
    <3>1. ~leads[r] => pc' = [pc EXCEPT ![w] = "not leader"]
      BY <2>1, <2>2, Zenon DEF Propose
    <3> QED
      BY <1>4, <3>1, Zenon DEF Types
  <2>4. index' = [index EXCEPT ![w] = Len(log[r]) + 1] /\ applied' = applied
    BY <2>1, <2>2, <2>3, Zenon DEF Propose, store
  <2>5. index'[w] = Len(log[r]) + 1
    BY <2>4, Zenon DEF Types
  <2>6. index'[w] > 0 /\ ~(index'[w] \in 1..applied'[r])
    BY SMTT(30), <1>3, <2>4, <2>5
  <2> QED
    BY <1>4, <2>6, Zenon DEF Unapplied
<1>5. CASE ~(pc'[w] = "accepted" /\ pc[w] # "accepted")
  <2>1. Waits(w)' => Waits(w)
    BY <1>5, Verdicts, Zenon DEF Waits
  <2>2. Waits(w)' => index'[w] > 0
    BY <1>2, <2>1, Zenon DEF Waits
  <2>3. Unapplied(w, r)'
    <3> SUFFICES ASSUME Waits(w)', index'[w] \in 1..applied'[r]
                 PROVE  log'[r][index'[w]].write # w
      BY Zenon DEF Unapplied
    <3>1. Waits(w) /\ index'[w] = index[w] /\ at[w] = r /\ Unapplied(w, r)
      BY <1>2, <2>1, Zenon DEF Waits
    <3>2. index[w] \in 1..commit[r] /\ log[r][index[w]].write # w
      <4>1. CASE Apply(r)
        <5>1. PICK i, e : i = Head(queue[r])[1] /\ e = Head(queue[r])[2]
          BY Zenon
        <5>2. queue[r] # << >> /\ pc' = Answered(r, i, e) /\ applied' = [applied EXCEPT ![r] = i]
          BY <4>1, <5>1, Zenon DEF Apply
        <5>3. applied'[r] = i
          BY <5>2, Zenon DEF Types
        <5>4. w # e.write
          BY <3>1, <5>2, Zenon DEF Answered, Waits
        <5> QED
          BY <1>1, <3>1, <5>1, <5>2, <5>3, <5>4, PassedBy, ZenonT(30)
      <4>2. CASE applied'[r] \in {0, applied[r]}
        <5>1. index[w] \in 1..applied[r]
          BY <1>3, <3>1, <4>2
        <5>2. index[w] \in 1..commit[r]
          BY <1>3, <5>1
        <5> QED
          BY <3>1, <5>1, <5>2, Zenon DEF Unapplied
      <4> QED
        BY <1>1, <4>1, <4>2, Zenon
    <3> QED
      BY <3>1, <3>2, Zenon DEF Stays
  <2>4. ASSUME pc'[w] = "replaced" PROVE Overtaken(w)'
    <3>1. CASE pc[w] = "replaced"
      <4>1. Overtaken(w) /\ index'[w] = index[w]
        BY <1>2, <3>1, Zenon
      <4>2. PICK P \in Prefix : Chosen(P) /\ index[w] \in 1..Len(P) /\ P[index[w]].write # w
        BY <4>1, Zenon DEF Overtaken
      <4>3. Chosen(P)'
        BY <4>2, Zenon DEF Stays
      <4> QED
        BY <4>1, <4>2, <4>3, Zenon DEF Overtaken
    <3>2. CASE pc[w] # "replaced"
      <4>1. PICK q \in Replica : Apply(q)
        BY <2>4, <3>2, Verdicts, Zenon
      <4>2. PICK i, e : i = Head(queue[q])[1] /\ e = Head(queue[q])[2]
        BY Zenon
      <4>3. queue[q] # << >> /\ pc' = Answered(q, i, e) /\ at' = at /\ index' = index
        BY <4>1, <4>2, Zenon DEF Apply
      <4>4. at[w] = q /\ pc[w] = "waiting" /\ index[w] <= i /\ w # e.write
        BY SMTT(30), <2>4, <3>2, <4>3, AnsweredNew
      <4>5. q = r
        BY <4>3, <4>4, Zenon
      <4>6. Waits(w) /\ Unapplied(w, r) /\ index[w] > 0 /\ index[w] \in Nat
        BY <1>2, <4>4, Zenon DEF Waits
      <4>7. i \in Nat
        BY <4>2, <4>3, HeadFacts, Zenon DEF QueueInv
      <4>8. index[w] \in 1..i
        BY <4>4, <4>6, <4>7
      <4>9. index[w] \in 1..commit[r] /\ log[r][index[w]].write # w
        BY <1>1, <4>2, <4>3, <4>4, <4>5, <4>6, <4>8, PassedBy, ZenonT(30)
      <4>10. PICK P \in Prefix : /\ Chosen(P) /\ Len(P) \in Nat /\ commit[r] <= Len(P)
                                 /\ \A j \in 1..commit[r] : P[j] = log[r][j]
        BY <4>9, CommittedPrefix, Zenon
      <4>11. index[w] \in 1..Len(P) /\ P[index[w]].write # w
        BY SMTT(30), <1>3, <4>9, <4>10
      <4>12. Chosen(P)'
        BY <4>10, Zenon DEF Stays
      <4> QED
        BY <4>3, <4>11, <4>12, Zenon DEF Overtaken
    <3> QED
      BY <3>1, <3>2, Zenon
  <2> QED
    BY <2>2, <2>3, <2>4, Zenon
<1> QED
  BY <1>4, <1>5, Zenon

-----------------------------------------------------------------------------
(* The inductive invariant *)

\* The invariant holds of a new group.
LEMMA InitIInv == ASSUME Ground PROVE Init => IInv
<1> SUFFICES ASSUME Init PROVE IInv
  BY Zenon
<1> USE DEF Init
<1>1. 0 \in Offsets /\ << >> \in Seq(Entry) /\ << >> \in Seq(Nat \X Entry)
  BY BegunFacts DEF Offsets
<1>2. Types
  BY <1>1, Zenon DEF Types, States
<1>3. \A r \in Replica : /\ log[r] = << >> /\ queue[r] = << >> /\ commit[r] = 0 /\ base[r] = 0
                         /\ applied[r] = 0 /\ next[r] = 0 /\ synced[r] = 0
  BY Zenon
<1>4. Written
  BY <1>3 DEF Written
<1>5. Counted
  BY SMTT(30), <1>3, BegunFacts DEF Counted
<1>6. RaftCore
  BY <1>3 DEF RaftCore, Terms, LeaderLog, OneLeader, OwnTerm, Matching, Backed, Term
<1>7. CommitChosen /\ Indices
  BY SMTT(30), <1>3 DEF CommitChosen, Indices
<1>8. QueueInv
  BY <1>3 DEF QueueInv, QueueInOrder, CommittedIsHandled, InOrder, Handled
<1>9. StoreChosen
  BY <1>3, Zenon DEF StoreChosen
<1>10. OkChosen
  BY Zenon DEF OkChosen
<1>11. OneLeaderOffsets
  BY <1>3 DEF OneLeaderOffsets, OneBased, NoLogYet, Rises, Ahead
<1>12. ReplacedLost
  BY Zenon DEF ReplacedLost, Unapplied, Waits
<1> QED
  BY <1>2, <1>4, <1>5, <1>6, <1>7, <1>8, <1>9, <1>10, <1>11, <1>12, ZenonT(30) DEF IInv, RaftInv, CallInv

\* Every step keeps the invariant.
LEMMA NextIInv == ASSUME Ground PROVE IInv /\ Next => IInv'
<1> SUFFICES ASSUME IInv, Next PROVE IInv'
  BY Zenon
<1>1. Types /\ Written /\ Counted /\ RaftInv /\ QueueInv /\ StoreChosen /\ QueueInOrder
      /\ OkChosen /\ OneLeaderOffsets /\ ReplacedLost
  BY Zenon DEF IInv, QueueInv, CallInv
<1>2. Types'
  BY <1>1, TypesStep, Zenon
<1>3. Written'
  BY <1>1, <1>2, WrittenStep, Zenon
<1>4. Counted'
  BY <1>1, <1>2, CountedStep, Zenon
<1>5. RaftInv' /\ Stays
  BY <1>1, <1>2, RaftStep, Zenon
<1>6. QueueInv'
  BY <1>1, <1>2, <1>5, QueueStep, Zenon
<1>7. StoreChosen'
  BY <1>1, <1>2, <1>5, StoreStep, Zenon
<1>8. OkChosen'
  BY <1>1, <1>5, OkStep, Zenon
<1>9. OneLeaderOffsets'
  BY <1>1, <1>2, OffsetsStep, Zenon
<1>10. ReplacedLost'
  BY <1>1, <1>2, <1>5, ReplacedStep, Zenon
<1> QED
  BY <1>2, <1>3, <1>4, <1>5, <1>6, <1>7, <1>8, <1>9, <1>10, ZenonT(30) DEF IInv, CallInv

\* So does a step that changes nothing.
LEMMA StutterIInv == IInv /\ UNCHANGED vars => IInv'
<1> SUFFICES ASSUME IInv, UNCHANGED vars PROVE IInv'
  BY Zenon
<1>1. /\ UNCHANGED <<term, leads, log, commit, base>> /\ UNCHANGED <<queue, applied, part, next, synced>>
      /\ UNCHANGED <<pc, at, offset, index>> /\ UNCHANGED <<elections, restarts>>
  BY Zenon DEF vars, raft, store, calls, bounds
<1> USE <1>1
<1>2. Types' /\ Written' /\ Counted'
  <2>1. Types'
    BY Zenon DEF IInv, Types
  <2>2. Written'
    BY Zenon DEF IInv, Written, IsProposal
  <2>3. Counted'
    BY Zenon DEF IInv, Counted, Begun
  <2> QED
    BY <2>1, <2>2, <2>3, Zenon
<1>3. \A P \in Prefix : Chosen(P)' <=> Chosen(P)
  BY Zenon DEF Chosen, Term
<1>4. RaftInv'
  <2>1. RaftInv
    BY Zenon DEF IInv
  <2>2. Terms' /\ LeaderLog' /\ OneLeader' /\ OwnTerm'
    BY <2>1, ZenonT(30) DEF RaftInv, RaftCore, Terms, LeaderLog, OneLeader, OwnTerm, Term
  <2>3. Matching'
    BY SMTT(30), <2>1 DEF RaftInv, RaftCore, Matching, Term
  <2>4. Backed'
    BY <2>1, Zenon DEF RaftInv, RaftCore, Backed, Term
  <2>5. Indices'
    BY <2>1, Zenon DEF RaftInv, Indices
  <2>6. CommitChosen'
    BY <1>3, <2>1, Zenon DEF RaftInv, CommitChosen, Follows
  <2> QED
    BY <2>2, <2>3, <2>4, <2>5, <2>6, ZenonT(30) DEF RaftInv, RaftCore
<1>5. QueueInv'
  <2>1. \A r \in Replica : InOrder(r) /\ Handled(r)
    BY Zenon DEF IInv, QueueInv, QueueInOrder, CommittedIsHandled
  <2>2. \A r \in Replica : InOrder(r)'
    BY <2>1, Zenon DEF InOrder, IsData
  <2>3. \A r \in Replica : Handled(r)'
    BY <2>1, ZenonT(30) DEF Handled, IsData, Queued
  <2> QED
    BY <2>2, <2>3, Zenon DEF QueueInv, QueueInOrder, CommittedIsHandled
<1>6. StoreChosen'
  BY <1>3, Zenon DEF IInv, StoreChosen, Covers, IsImage
<1>7. CallInv'
  BY <1>3, Zenon DEF IInv, CallInv, OkChosen, OneLeaderOffsets, OneBased, NoLogYet, Rises, Ahead, ReplacedLost,
              Unapplied, Waits, Overtaken, IsData, Has
<1> QED
  BY <1>2, <1>4, <1>5, <1>6, <1>7, Zenon DEF IInv

-----------------------------------------------------------------------------
(* What it gives *)

\* A log that holds a chosen prefix has its image below the offset the prefix decides.
LEMMA ImplyStore == ASSUME Ground PROVE IInv => StoreIsLogImage
<1> SUFFICES ASSUME IInv, NEW r \in Replica
             PROVE  \E Q \in Majority : \A q \in Q, o \in Offsets :
                       part[r][o] = IF o < next[r] THEN Image(log[q], o) ELSE Nothing
  BY Zenon DEF StoreIsLogImage
<1>1. Types /\ next[r] \in Nat /\ \A o \in Offsets : o \in Nat
  BY QueueFacts, OffsetsFacts, Zenon DEF IInv
<1>2. CASE next[r] = 0 /\ \A o \in Offsets : part[r][o] = Nothing
  <2>1. Replica \in Majority
    BY Zenon DEF Ground
  <2>2. \A o \in Offsets : ~(o < next[r])
    BY <1>1, <1>2
  <2> QED
    BY <1>2, <2>1, <2>2, Zenon
<1>3. ASSUME NEW P \in Prefix, Chosen(P), Covers(P, next[r]), IsImage(r, P)
      PROVE  \E Q \in Majority : \A q \in Q, o \in Offsets :
                part[r][o] = IF o < next[r] THEN Image(log[q], o) ELSE Nothing
  <2>1. PICK Q \in Majority : \A q \in Q : Holds(log[q], P)
    BY <1>3, Zenon DEF Chosen
  <2>2. ASSUME NEW q \in Q, NEW o \in Offsets
        PROVE  part[r][o] = IF o < next[r] THEN Image(log[q], o) ELSE Nothing
    <3>1. q \in Replica /\ o \in Nat
      BY <1>1, Zenon DEF Majority
    <3>2. log[q] \in Seq(Entry) /\ P \in Seq(Entry) /\ Holds(log[q], P)
      BY <1>1, <2>1, <3>1, EntryFacts, Zenon DEF Prefix
    <3>3. CASE o < next[r]
      <4>1. o + 1 \in Nat /\ o + 1 <= next[r]
        BY SMTT(30), <1>1, <3>1, <3>3
      <4>2. Covers(P, o + 1)
        BY <1>1, <1>3, <4>1, CoversLess, Zenon
      <4>3. Image(log[q], o) = Image(P, o)
        BY <3>1, <3>2, <4>2, ImageExtend, Zenon
      <4> QED
        BY <1>3, <3>3, <4>3, Zenon DEF IsImage
    <3>4. CASE ~(o < next[r])
      BY <1>3, <3>4, Zenon DEF IsImage
    <3> QED
      BY <3>3, <3>4, Zenon
  <2> QED
    BY <2>2, Zenon
<1> QED
  BY <1>2, <1>3, Zenon DEF IInv, StoreChosen

\* A record behind a snapshot is in the synced part of the partition.
LEMMA ImplyAcked == ASSUME Ground PROVE IInv => AckedSurvives
<1> SUFFICES ASSUME IInv, NEW w \in Write, pc[w] = "ok"
             PROVE  \E Q \in Majority : \A q \in Q : \E i \in 1..Len(log[q]) :
                       log[q][i].write = w /\ (i > base[q] \/ offset[w] < synced[q])
  BY Zenon DEF AckedSurvives
<1>1. PICK P \in Prefix : Chosen(P) /\ Has(P, w)
  BY Zenon DEF IInv, CallInv, OkChosen
<1>2. PICK i \in 1..Len(P) : P[i].write = w
  BY <1>1, Zenon DEF Has
<1>3. PICK Q \in Majority : \A q \in Q : Holds(log[q], P)
  BY <1>1, ZenonT(30) DEF Chosen
<1>4. ASSUME NEW q \in Q
      PROVE  \E j \in 1..Len(log[q]) : log[q][j].write = w /\ (j > base[q] \/ offset[w] < synced[q])
  <2>1. q \in Replica /\ Types /\ RaftInv /\ w # Noop
    BY ReplicatedPartitionAssumption, Zenon DEF Majority, IInv
  <2>2. i \in 1..Len(log[q]) /\ log[q][i] = P[i]
    BY SMTT(30), <1>3, <2>1, EntryFacts DEF Holds, Prefix
  <2>3. log[q][i].write = w /\ log[q][i].base = offset[w]
    BY <1>2, <2>1, <2>2, Zenon DEF IInv, Written, IsProposal
  <2>4. base[q] \in Nat /\ commit[q] \in Nat /\ base[q] <= commit[q]
    BY <2>1, QueueFacts, Zenon DEF RaftInv, Indices
  <2>5. CASE i <= base[q]
    <3>1. i \in 1..commit[q]
      BY <2>4, <2>5
    <3>2. log[q][i].base < synced[q]
      BY <2>1, <2>3, <2>5, <3>1, ZenonT(30) DEF IInv, QueueInv, CommittedIsHandled, Handled, IsData
    <3> QED
      BY <2>2, <2>3, <3>2, Zenon
  <2>6. CASE i > base[q]
    BY <2>2, <2>3, <2>6, Zenon
  <2> QED
    BY SMTT(30), <2>4, <2>5, <2>6
<1> QED
  BY <1>4, Zenon

\* What a partition holds is an entry of a chosen prefix.
LEMMA StoredIsChosen ==
    ASSUME Ground, IInv, NEW r \in Replica, NEW o \in Offsets, part[r][o] # Nothing
    PROVE  \E P \in Prefix : /\ Chosen(P)
                             /\ \E i \in 1..Len(P) : /\ P[i].write # Noop /\ P[i].base = o
                                                     /\ P[i].write = part[r][o]
<1>1. PICK P \in Prefix : Chosen(P) /\ IsImage(r, P)
  BY Zenon DEF IInv, StoreChosen
<1>2. part[r][o] = Image(P, o)
  BY <1>1, Zenon DEF IsImage
<1>3. PICK i \in 1..Len(P) : Hit(P, o, i)
  BY <1>2, ImageNone, Zenon
<1>4. P[i].write = part[r][o]
  BY <1>2, <1>3, ImageIs, OffsetsFacts, Zenon DEF Prefix
<1> QED
  BY <1>1, <1>3, <1>4, Zenon DEF Hit

\* An acknowledged record is chosen, and one given up is not; so are the partitions' records.
LEMMA ImplyVerdicts == ASSUME Ground PROVE IInv => VerdictsAreTrue
<1> SUFFICES ASSUME IInv PROVE VerdictsAreTrue
  BY Zenon
<1>0. Types /\ RaftInv /\ \A q \in Replica : log[q] \in Seq(Entry) /\ Len(log[q]) \in Nat
  BY EntryFacts, Zenon DEF IInv
<1>1. TypeOK
  <2>1. \A r \in Replica : /\ base[r] <= commit[r] /\ commit[r] <= Len(log[r])
                           /\ synced[r] <= next[r] /\ next[r] \in Offsets
    BY Zenon DEF IInv, RaftInv, Indices, Counted, Types
  <2> QED
    BY <1>0, <2>1, ZenonT(30) DEF Types, TypeOK
<1>2. OwnOffsetUnderOneLeader
  <2> SUFFICES ASSUME elections <= 1, NEW w \in Write, NEW r \in Replica, pc[w] = "ok",
                      part[r][offset[w]] # Nothing
               PROVE  part[r][offset[w]] = w
    BY Zenon DEF OwnOffsetUnderOneLeader, AckedOffsetIsOwn
  <2>1. offset[w] \in Offsets /\ w # Noop
    BY <1>0, ReplicatedPartitionAssumption, ZenonT(30) DEF Types
  <2>2. PICK R \in Prefix : /\ Chosen(R)
                            /\ \E k \in 1..Len(R) : /\ R[k].write # Noop /\ R[k].base = offset[w]
                                                    /\ R[k].write = part[r][offset[w]]
    BY <2>1, StoredIsChosen, Zenon
  <2>3. PICK k \in 1..Len(R) : /\ R[k].write # Noop /\ R[k].base = offset[w]
                               /\ R[k].write = part[r][offset[w]]
    BY <2>2, Zenon
  <2>4. PICK P \in Prefix : Chosen(P) /\ Has(P, w)
    BY Zenon DEF IInv, CallInv, OkChosen
  <2>5. PICK i \in 1..Len(P) : P[i].write = w
    BY <2>4, Zenon DEF Has
  <2>6. PICK q \in Replica : Holds(log[q], P) /\ Holds(log[q], R)
    BY <1>0, <2>2, <2>4, ChosenComparable, Zenon
  <2>7. /\ i \in 1..Len(log[q]) /\ log[q][i] = P[i] /\ k \in 1..Len(log[q]) /\ log[q][k] = R[k]
        /\ i \in Nat /\ k \in Nat
    BY SMTT(30), <1>0, <2>6 DEF Holds, Prefix
  <2>8. log[q][i].base = offset[w] /\ offset[w] \in Nat
    BY SMTT(30), <2>1, <2>5, <2>7, OffsetsFacts DEF IInv, Written, IsProposal
  <2>9. Rises(q)
    BY Zenon DEF IInv, CallInv, OneLeaderOffsets
  <2>10. ~(i < k) /\ ~(k < i)
    <3>1. IsData(q, i) /\ IsData(q, k) /\ log[q][k].base = offset[w]
      BY <2>1, <2>3, <2>5, <2>7, Zenon DEF IsData
    <3>2. i < k => offset[w] < offset[w]
      BY <2>7, <2>8, <2>9, <3>1, Zenon DEF Rises
    <3>3. k < i => offset[w] < offset[w]
      BY <2>7, <2>8, <2>9, <3>1, Zenon DEF Rises
    <3> QED
      BY SMTT(30), <2>8, <3>2, <3>3
  <2>11. i = k
    BY <2>7, <2>10
  <2> QED
    BY <2>3, <2>5, <2>7, <2>11, Zenon
<1>3. ReplacedNeverApplied
  <2> SUFFICES ASSUME \A r \in Replica : base[r] = 0,
                      NEW w \in Write, NEW r \in Replica, NEW o \in Offsets,
                      pc[w] = "replaced", part[r][o] = w
               PROVE  FALSE
    BY Zenon DEF ReplacedNeverApplied
  <2>1. part[r][o] # Nothing /\ w # Noop
    BY ReplicatedPartitionAssumption, Zenon
  <2>2. PICK R \in Prefix : Chosen(R) /\ \E k \in 1..Len(R) : R[k].write = w
    BY <2>1, StoredIsChosen, Zenon
  <2>3. PICK k \in 1..Len(R) : R[k].write = w
    BY <2>2, Zenon
  <2>4. at[w] \in Replica
    BY Zenon DEF IInv, Counted
  <2>5. PICK P \in Prefix : Chosen(P) /\ index[w] \in 1..Len(P) /\ P[index[w]].write # w
    BY <2>4, Zenon DEF IInv, CallInv, ReplacedLost, Overtaken
  <2>6. PICK q \in Replica : Holds(log[q], P) /\ Holds(log[q], R)
    BY <1>0, <2>2, <2>5, ChosenComparable, Zenon
  <2>7. k \in 1..Len(log[q]) /\ log[q][k] = R[k] /\ log[q][index[w]] = P[index[w]]
    BY SMTT(30), <1>0, <2>5, <2>6 DEF Holds, Prefix
  <2>8. k = index[w]
    BY SMTT(30), <2>1, <2>3, <2>7 DEF IInv, Written, IsProposal
  <2> QED
    BY <2>3, <2>5, <2>7, <2>8, Zenon
<1> QED
  BY <1>1, <1>2, <1>3, Zenon DEF VerdictsAreTrue

-----------------------------------------------------------------------------
(* The theorems *)

\* The strengthened invariant holds of every run of append_batch, the apply loop and Raft.
THEOREM Inductive == Spec => []IInv
<1>1. Init => IInv
  BY GroundHolds, InitIInv, Zenon
<1>2. IInv /\ [Next]_vars => IInv'
  BY GroundHolds, NextIInv, StutterIInv, Zenon
<1> QED
  BY <1>1, <1>2, PTL DEF Spec

\* A replica's partition is the image of the logs of a majority, whatever power losses,
\* replays, elections and snapshots went before: the apply loop of raft_partition.rs stores a
\* record where the log has it or not at all, and the install of a snapshot fits both.
THEOREM PartitionIsLogImage == Spec => []StoreIsLogImage
BY Inductive, GroundHolds, ImplyStore, PTL

\* A write that append_batch acknowledged is in the logs of a majority, and the partition of
\* each of them that dropped its log behind a snapshot is synced past it.
THEOREM AcknowledgedSurvives == Spec => []AckedSurvives
BY Inductive, GroundHolds, ImplyAcked, PTL

\* While there has been one leader no other record is under an acknowledged write's offset, and
\* before any snapshot a write given up as replaced is in no partition.
THEOREM TrueVerdicts == Spec => []VerdictsAreTrue
BY Inductive, GroundHolds, ImplyVerdicts, PTL
=============================================================================
