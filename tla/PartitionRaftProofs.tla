------------------------ MODULE PartitionRaftProofs -------------------------
(***************************************************************************)
(* Raft under a replicated partition: logs, elections, what is chosen.     *)
(* Finite sets of numbers: a greatest member, an enumeration in ascending  *)
(* order.  Induction over the natural numbers is stated with a set in      *)
(* place of a predicate.                                                   *)
(***************************************************************************)
EXTENDS PartitionInvariant, FiniteSetTheorems, WellFoundedInduction, TLAPS

-----------------------------------------------------------------------------
(* Numbers, majorities and sequences *)

\* Max of FiniteSetsExt on two numbers: what catch-up does to a commit index.
LEMMA MaxOfTwo ==
    ASSUME NEW a \in Int, NEW b \in Int
    PROVE  Max({a, b}) = IF a >= b THEN a ELSE b
<1>1. \E x \in {a, b} : \A y \in {a, b} : x >= y
  OBVIOUS
<1>2. Max({a, b}) \in {a, b} /\ \A y \in {a, b} : Max({a, b}) >= y
  BY <1>1, Zenon DEF Max
<1> QED
  BY <1>2

\* Two majorities have a replica in common.
LEMMA MajoritiesMeet ==
    ASSUME Ground, NEW Q \in Majority, NEW R \in Majority
    PROVE  \E q \in Replica : q \in Q /\ q \in R
BY Zenon DEF Ground

\* The offsets are those below the number of writes, and that.
LEMMA OffsetsFacts ==
    ASSUME Ground, NEW o
    PROVE  /\ o \in Offsets <=> o \in Nat /\ o <= Cardinality(Write)
           /\ 0 \in Offsets
BY DEF Ground, Offsets

\* What a log consists of after an entry is appended.
LEMMA AppendFacts ==
    ASSUME NEW S, NEW s \in Seq(S), NEW e \in S
    PROVE  /\ Append(s, e) \in Seq(S) /\ Len(s) \in Nat
           /\ Len(Append(s, e)) = Len(s) + 1
           /\ \A i \in 1..Len(s) : Append(s, e)[i] = s[i]
           /\ Append(s, e)[Len(s) + 1] = e
OBVIOUS

\* What the first k entries of a log consist of.
LEMMA PrefixFacts ==
    ASSUME NEW S, NEW s \in Seq(S), NEW k \in 0..Len(s)
    PROVE  /\ SubSeq(s, 1, k) \in Seq(S)
           /\ Len(SubSeq(s, 1, k)) = k
           /\ \A i \in 1..k : SubSeq(s, 1, k)[i] = s[i]
OBVIOUS

\* A sequence is its own longest prefix.
LEMMA FullPrefix ==
    ASSUME NEW S, NEW s \in Seq(S)
    PROVE  SubSeq(s, 1, Len(s)) = s
OBVIOUS

\* What one sequence after another, and a sequence without its head, consist of.
LEMMA ConcatFacts ==
    ASSUME NEW S, NEW s \in Seq(S), NEW t \in Seq(S)
    PROVE  /\ s \o t \in Seq(S)
           /\ Len(s \o t) = Len(s) + Len(t)
           /\ \A i \in 1..(Len(s) + Len(t)) :
                 (s \o t)[i] = IF i <= Len(s) THEN s[i] ELSE t[i - Len(s)]
OBVIOUS

\* What is left of a queue when its head is taken.
LEMMA TailFacts ==
    ASSUME NEW S, NEW s \in Seq(S), s # << >>
    PROVE  /\ Head(s) \in S /\ Tail(s) \in Seq(S) /\ Len(Tail(s)) = Len(s) - 1
           /\ \A i \in 1..Len(Tail(s)) : Tail(s)[i] = s[i + 1]
OBVIOUS

\* The types of a log and of its entries.
LEMMA EntryFacts ==
    ASSUME Types, NEW r \in Replica
    PROVE  /\ log[r] \in Seq(Entry) /\ Len(log[r]) \in Nat
           /\ \A i \in 1..Len(log[r]) : log[r][i] \in Entry
           /\ \A i \in 1..Len(log[r]) : log[r][i].term \in Nat
<1>1. log[r] \in Seq(Entry) /\ Len(log[r]) \in Nat
  BY DEF Types
<1>2. \A i \in 1..Len(log[r]) : log[r][i] \in Entry
  BY <1>1
<1> QED
  BY <1>1, <1>2, Zenon DEF Entry

-----------------------------------------------------------------------------
(* Raft: terms and logs *)

\* A step that changes no log and no term, and makes no leader.
LEMMA CoreUnchanged ==
    ASSUME Types, RaftCore, log' = log, term' = term,
           \A r \in Replica : leads'[r] => leads[r]
    PROVE  RaftCore'
BY SMTT(30) DEF RaftCore, Terms, LeaderLog, OneLeader, OwnTerm, Matching, Backed, Term

\* A follower takes a leader's log, or a part of it.
Adopts(l, f) ==
    /\ l # f /\ leads[l] /\ term[f] <= term[l]
    /\ term' = [term EXCEPT ![f] = term[l]]
    /\ leads' = [leads EXCEPT ![f] = FALSE]
    /\ \E k \in 0..Len(log[l]) : log' = [log EXCEPT ![f] = SubSeq(log[l], 1, k)]

\* A follower takes the leader's log, or a beginning of it.
LEMMA CoreAdopts ==
    ASSUME Types, RaftCore, NEW l \in Replica, NEW f \in Replica, Adopts(l, f)
    PROVE  RaftCore'
<1>1. PICK k \in 0..Len(log[l]) : log' = [log EXCEPT ![f] = SubSeq(log[l], 1, k)]
  BY Zenon DEF Adopts
<1>2. k \in Nat /\ k <= Len(log[l]) /\ Len(log[l]) \in Nat
  BY EntryFacts
<1>3. Len(log'[f]) = k /\ \A i \in 1..k : log'[f][i] = log[l][i]
  BY <1>1, EntryFacts, PrefixFacts DEF Types
<1>4. \A q \in Replica \ {f} : log'[q] = log[q] /\ term'[q] = term[q] /\ leads'[q] = leads[q]
  BY <1>1, Zenon DEF Types, Adopts
<1>5. term'[f] = term[l] /\ leads'[f] = FALSE /\ leads[l] /\ term[f] <= term[l] /\ l # f
  BY Zenon DEF Types, Adopts
<1>6. \A q \in Replica : term[q] \in Nat
  BY Zenon DEF Types
<1> DEFINE from(q) == IF q = f THEN l ELSE q
<1>7. \A q \in Replica :
         /\ from(q) \in Replica /\ Len(log'[q]) <= Len(log[from(q)])
         /\ Len(log'[q]) \in Nat /\ Len(log[from(q)]) \in Nat
         /\ \A i \in 1..Len(log'[q]) : /\ log'[q][i] = log[from(q)][i]
                                       /\ i \in 1..Len(log[from(q)])
                                       /\ log[from(q)][i].term \in Nat
         /\ term[from(q)] = term'[q] /\ term[q] <= term'[q]
         /\ leads'[q] => leads[q] /\ q # f
  BY <1>2, <1>3, <1>4, <1>5, <1>6, EntryFacts
<1> HIDE DEF from
<1>8. Terms'
  BY <1>7, ZenonT(30) DEF RaftCore, Terms, Term
<1>9. LeaderLog'
  BY <1>4, <1>7 DEF RaftCore, LeaderLog, Term
<1>10. OneLeader'
  BY <1>4, <1>7, Zenon DEF RaftCore, OneLeader
<1>11. OwnTerm'
  <2> SUFFICES ASSUME NEW r \in Replica, NEW q \in Replica, leads'[r],
                      NEW i \in 1..Len(log'[q]), log'[q][i].term = term'[r]
               PROVE  i <= Len(log'[r])
    BY Zenon DEF OwnTerm, Term
  <2>1. leads[r] /\ r # f /\ log'[r] = log[r] /\ term'[r] = term[r]
    BY <1>4, <1>7, Zenon
  <2>2. from(q) \in Replica /\ i \in 1..Len(log[from(q)]) /\ log[from(q)][i].term = term[r]
    BY <1>7, <2>1, Zenon
  <2>3. i <= Len(log[r])
    BY <2>1, <2>2, Zenon DEF RaftCore, OwnTerm, Term
  <2> QED
    BY <2>1, <2>3, Zenon
<1>12. Matching'
  <2> SUFFICES ASSUME NEW p \in Replica, NEW q \in Replica,
                      NEW i \in 1..Len(log'[p]), NEW j \in 1..Len(log'[q]),
                      i <= j, log'[p][i].term = log'[q][j].term, NEW h \in 1..i
               PROVE  log'[p][h] = log'[q][h]
    BY Zenon DEF Matching, Term
  <2>1. h \in 1..Len(log'[p]) /\ h \in 1..Len(log'[q])
    BY <1>7
  <2>2. /\ i \in 1..Len(log[from(p)]) /\ j \in 1..Len(log[from(q)])
        /\ log[from(p)][i].term = log[from(q)][j].term
    BY <1>7, Zenon
  <2>3. log[from(p)][h] = log[from(q)][h]
    BY <1>7, <2>2 DEF RaftCore, Matching, Term
  <2> QED
    BY <1>7, <2>1, <2>3, Zenon
<1>13. Backed'
  <2> SUFFICES ASSUME NEW q \in Replica, NEW i \in 1..Len(log'[q])
               PROVE  \E Q \in Majority : \A p \in Q : log'[q][i].term <= term'[p]
    BY Zenon DEF Backed, Term, Majority
  <2>1. PICK Q \in Majority : \A p \in Q : log[from(q)][i].term <= term[p]
    BY <1>7, Zenon DEF RaftCore, Backed, Term
  <2>2. \A p \in Q : p \in Replica
    BY Zenon DEF Majority
  <2>3. \A p \in Replica : term'[p] \in Nat
    BY <1>4, <1>5, <1>6, Zenon
  <2>4. log'[q][i] = log[from(q)][i] /\ log[from(q)][i].term \in Nat
    BY <1>7, Zenon
  <2>5. ASSUME NEW p \in Q PROVE log'[q][i].term <= term'[p]
    <3>1. p \in Replica /\ term[p] \in Nat /\ term'[p] \in Nat
      BY <1>6, <2>2, <2>3, Zenon
    <3>2. term[p] <= term'[p]
      BY <1>7, <3>1, Zenon
    <3>3. log'[q][i].term <= term[p] /\ log'[q][i].term \in Nat
      BY <2>1, <2>4, Zenon
    <3> QED
      BY <3>1, <3>2, <3>3
  <2> QED
    BY <2>5, Zenon
<1> QED
  BY <1>8, <1>9, <1>10, <1>11, <1>12, <1>13, Zenon DEF RaftCore

\* Log matching, at one index.
LEMMA MatchingAt ==
    ASSUME RaftCore, NEW p \in Replica, NEW q \in Replica,
           NEW i \in 1..Len(log[p]), NEW j \in 1..Len(log[q]),
           i <= j, log[p][i].term = log[q][j].term, NEW h \in 1..i
    PROVE  log[p][h] = log[q][h]
BY Zenon DEF RaftCore, Matching, Term

\* A leader takes an entry.
Takes(r, e) ==
    /\ leads[r] /\ e.term = term[r]
    /\ log' = [log EXCEPT ![r] = Append(@, e)]
    /\ UNCHANGED <<term, leads>>

\* A leader appends an entry of its own term.
LEMMA CoreTakes ==
    ASSUME Types, RaftCore, NEW r \in Replica, NEW e \in Entry, Takes(r, e)
    PROVE  RaftCore'
<1> DEFINE n == Len(log[r]) + 1
<1>1. /\ Len(log'[r]) = n /\ log'[r][n] = e /\ Len(log[r]) \in Nat
      /\ \A i \in 1..Len(log[r]) : log'[r][i] = log[r][i]
  BY AppendFacts DEF Types, Takes
<1>2. \A q \in Replica \ {r} : log'[q] = log[q]
  BY Zenon DEF Types, Takes
<1>3. leads[r] /\ e.term = term[r] /\ term' = term /\ leads' = leads
  BY Zenon DEF Takes
<1>0. \A q \in Replica : term[q] \in Nat
  BY Zenon DEF Types
<1>4. \A q \in Replica :
         /\ Len(log[q]) \in Nat /\ Len(log[q]) <= Len(log'[q])
         /\ \A i \in 1..Len(log[q]) : log'[q][i] = log[q][i] /\ log[q][i].term \in Nat
  BY <1>1, <1>2, EntryFacts
<1>5. ASSUME NEW q \in Replica, NEW i \in 1..Len(log'[q])
      PROVE  i \in 1..Len(log[q]) \/ (q = r /\ i = n /\ log'[q][i] = e)
  BY <1>1, <1>2, EntryFacts
<1>6. \A q \in Replica : \A i \in 1..Len(log[q]) : log[q][i].term = term[r] => i < n
  BY <1>1, <1>3, EntryFacts DEF RaftCore, OwnTerm, Term
<1> HIDE DEF n
<1>8. Terms'
  <2>1. \A i \in 1..Len(log[r]) : log[r][i].term <= e.term
    BY <1>0, <1>3, Zenon DEF RaftCore, Terms, Term
  <2>2. 0 < e.term /\ e.term <= term[r]
    BY <1>0, <1>1, <1>3, Len(log[r]) \in 1..Len(log[r]), Zenon DEF RaftCore, LeaderLog, Terms, Term
  <2> QED
    <3>1. ASSUME NEW q \in Replica, NEW i \in 1..Len(log'[q])
          PROVE  0 < log'[q][i].term /\ log'[q][i].term <= term[q]
      BY <1>4, <1>5, <2>2, Zenon DEF RaftCore, Terms, Term
    <3>2. ASSUME NEW q \in Replica, NEW i \in 1..Len(log'[q]), NEW j \in 1..Len(log'[q]), i <= j
          PROVE  log'[q][i].term <= log'[q][j].term
      <4>1. CASE i \in 1..Len(log[q]) /\ j \in 1..Len(log[q])
        BY Zenon, <1>4, <3>2, <4>1 DEF RaftCore, Terms, Term
      <4>2. CASE q = r /\ j = n /\ i \in 1..Len(log[q])
        BY <1>1, <2>1, <4>2, Zenon
      <4>3. CASE i = n /\ j = n
        <5>1. log'[q][i].term \in Nat
          BY <1>0, <1>3, <1>4, <1>5, Zenon
        <5> QED
          BY <4>3, <5>1
      <4> QED
        BY <1>1, <1>5, <3>2, <4>1, <4>2, <4>3
    <3> QED
      BY <1>3, <3>1, <3>2, Zenon DEF Terms, Term
<1>9. LeaderLog'
  BY <1>1, <1>2, <1>3 DEF RaftCore, LeaderLog, Term, n
<1>10. OneLeader'
  BY <1>3, Zenon DEF RaftCore, OneLeader
<1>11. OwnTerm'
  BY SMTT(30), <1>1, <1>2, <1>3, <1>4, <1>5 DEF RaftCore, OwnTerm, OneLeader, Term, n
<1>12. Matching'
  <2> SUFFICES ASSUME NEW p \in Replica, NEW q \in Replica,
                      NEW i \in 1..Len(log'[p]), NEW j \in 1..Len(log'[q]),
                      i <= j, log'[p][i].term = log'[q][j].term, NEW h \in 1..i
               PROVE  log'[p][h] = log'[q][h]
    BY Zenon DEF Matching, Term
  <2>1. CASE i \in 1..Len(log[p]) /\ j \in 1..Len(log[q])
    <3>1. log[p][h] = log[q][h]
      <4>1. log[p][i].term = log[q][j].term
        BY <1>4, <2>1, Zenon
      <4> QED
        BY <2>1, <4>1, MatchingAt, Zenon
    <3>2. h \in 1..Len(log[p]) /\ h \in 1..Len(log[q])
      BY <1>4, <2>1
    <3> QED
      BY <1>4, <3>1, <3>2, Zenon
  <2>2. CASE q = r /\ j = n /\ i \in 1..Len(log[p])
    <3>1. log[p][i].term = term[r] /\ i < n
      BY <1>1, <1>3, <1>4, <1>6, <2>2, Zenon
    <3>2. i \in 1..Len(log[r]) /\ Len(log[r]) \in 1..Len(log[r])
          /\ log[r][Len(log[r])].term = term[r] /\ i <= Len(log[r])
      BY <1>1, <1>3, <3>1 DEF RaftCore, LeaderLog, Term, n
    <3>3. log[p][h] = log[r][h]
      <4> DEFINE m == Len(log[r])
      <4>1. m \in 1..Len(log[r]) /\ i <= m /\ log[p][i].term = log[r][m].term
        BY <3>1, <3>2, Zenon
      <4> HIDE DEF m
      <4> QED
        BY <2>2, <4>1, MatchingAt, Zenon
    <3>4. h \in 1..Len(log[p]) /\ h \in 1..Len(log[r])
      BY <1>4, <2>2, <3>2
    <3> QED
      BY <1>4, <2>2, <3>3, <3>4, Zenon
  <2>3. CASE p = r /\ i = n
    <3>1. j \notin 1..Len(log[q])
      BY <1>1, <1>3, <1>4, <1>6, <2>3
    <3> QED
      BY <1>5, <2>3, <3>1, Zenon
  <2> QED
    BY <1>5, <2>1, <2>2, <2>3, Zenon
<1>13. Backed'
  <2> SUFFICES ASSUME NEW q \in Replica, NEW i \in 1..Len(log'[q])
               PROVE  \E Q \in Majority : \A p \in Q : log'[q][i].term <= term[p]
    BY <1>3, Zenon DEF Backed, Term, Majority
  <2>1. CASE i \in 1..Len(log[q])
    BY <1>4, <2>1, Zenon DEF RaftCore, Backed, Term
  <2>2. CASE q = r /\ i = n /\ log'[q][i] = e
    <3>1. Len(log[r]) \in 1..Len(log[r]) /\ log[r][Len(log[r])].term = e.term
      BY <1>1, <1>3 DEF RaftCore, LeaderLog, Term
    <3> QED
      BY <2>2, <3>1, Zenon DEF RaftCore, Backed, Term
  <2> QED
    BY <1>5, <2>1, <2>2, Zenon
<1> QED
  BY <1>8, <1>9, <1>10, <1>11, <1>12, <1>13, Zenon DEF RaftCore

\* The term of an election is above every other.
LEMMA NewTerm ==
    ASSUME Ground, Types, NEW r \in Replica
    PROVE  /\ Max({term[q] : q \in Replica}) \in Nat
           /\ \A q \in Replica : term[q] <= Max({term[p] : p \in Replica})
<1> DEFINE T == {term[q] : q \in Replica}
<1>1. term \in [Replica -> Nat] /\ T \in SUBSET Nat
  BY Zenon DEF Types
<1>2. Max(T) \in T /\ \A x \in T : x <= Max(T)
  BY <1>1, Zenon DEF Ground
<1> QED
  BY <1>1, <1>2, Zenon

\* An election: the winner is up to date with a majority, and its term is new.
LEMMA CoreElect ==
    ASSUME Ground, Types, RaftCore, NEW r \in Replica, NEW Q \in Majority, Elect(r, Q)
    PROVE  RaftCore'
<1> DEFINE n == Len(log[r]) + 1
           t == Max({term[q] : q \in Replica}) + 1
           e == [term |-> t, write |-> Noop, base |-> 0]
<1>1. t \in Nat /\ \A q \in Replica : term[q] \in Nat /\ term[q] < t
  <2> DEFINE m == Max({term[q] : q \in Replica})
  <2>1. m \in Nat /\ \A q \in Replica : term[q] <= m
    BY NewTerm, Zenon
  <2>2. \A q \in Replica : term[q] \in Nat
    BY Zenon DEF Types
  <2> HIDE DEF m
  <2>3. m + 1 \in Nat /\ \A q \in Replica : term[q] < m + 1
    BY <2>1, <2>2
  <2> QED
    BY <2>2, <2>3, Zenon DEF m
<1>2. e \in Entry /\ e.term = t
  <2>1. 0 \in Offsets
    BY OffsetsFacts, Zenon
  <2> QED
    BY <1>1, <2>1, Zenon DEF Entry
<1>3. log' = [log EXCEPT ![r] = Append(@, e)] /\ r \in Q
  BY Zenon DEF Elect
<1>4. \A q \in Replica :
         /\ q \in Q => term'[q] = t
         /\ q \notin Q => term'[q] = term[q]
         /\ leads'[q] /\ q # r => leads[q] /\ q \notin Q
  <2>1. /\ term' = [q \in Replica |-> IF q \in Q THEN t ELSE term[q]]
        /\ leads' = [q \in Replica |-> q = r \/ (leads[q] /\ q \notin Q)]
    BY Zenon DEF Elect
  <2> HIDE DEF t
  <2>2. ASSUME NEW q \in Replica, leads'[q], q # r PROVE leads[q] /\ q \notin Q
    BY <2>1, <2>2, Zenon
  <2> QED
    BY <2>1, <2>2, Zenon
<1> HIDE DEF t, e
<1>5. /\ Len(log'[r]) = n /\ log'[r][n] = e /\ Len(log[r]) \in Nat
      /\ \A i \in 1..Len(log[r]) : log'[r][i] = log[r][i]
  BY <1>2, <1>3, AppendFacts DEF Types
<1>6. \A q \in Replica \ {r} : log'[q] = log[q]
  BY <1>3, Zenon DEF Types
<1>7. \A q \in Replica :
         /\ Len(log[q]) \in Nat /\ Len(log[q]) <= Len(log'[q])
         /\ \A i \in 1..Len(log[q]) : /\ log'[q][i] = log[q][i] /\ log[q][i].term \in Nat
                                      /\ 0 < log[q][i].term
                                      /\ log[q][i].term <= term[q] /\ log[q][i].term < t
         /\ term[q] <= term'[q] /\ term'[q] \in Nat
  <2> TAKE q \in Replica
  <2>1. Len(log[q]) \in Nat /\ \A i \in 1..Len(log[q]) : log[q][i].term \in Nat
    BY EntryFacts, Zenon
  <2>2. Len(log[q]) <= Len(log'[q]) /\ \A i \in 1..Len(log[q]) : log'[q][i] = log[q][i]
    BY <1>5, <1>6, <2>1
  <2>3. \A i \in 1..Len(log[q]) : 0 < log[q][i].term /\ log[q][i].term <= term[q]
    BY Zenon DEF RaftCore, Terms, Term
  <2>4. term[q] <= term'[q] /\ term'[q] \in Nat /\ term[q] \in Nat /\ term[q] < t
    BY <1>1, <1>4
  <2>5. \A i \in 1..Len(log[q]) : log[q][i].term < t
    BY <1>1, <2>1, <2>3, <2>4
  <2> QED
    BY <2>1, <2>2, <2>3, <2>4, <2>5, Zenon
<1>8. ASSUME NEW q \in Replica, NEW i \in 1..Len(log'[q])
      PROVE  i \in 1..Len(log[q]) \/ (q = r /\ i = n /\ log'[q][i].term = t)
  <2>1. CASE q # r
    BY <1>6, <2>1, Zenon
  <2>2. CASE q = r
    <3>1. i \in 1..Len(log[r]) \/ i = n
      BY <1>5, <2>2
    <3>2. i = n => log'[r][i].term = t
      BY <1>2, <1>5, Zenon
    <3> QED
      BY <2>2, <3>1, <3>2, Zenon
  <2> QED
    BY <2>1, <2>2, Zenon
<1> HIDE DEF n
<1>9. Terms'
  <2>1. ASSUME NEW q \in Replica, NEW i \in 1..Len(log'[q])
        PROVE  0 < log'[q][i].term /\ log'[q][i].term <= term'[q] /\ log'[q][i].term \in Nat
    BY SMTT(30), <1>1, <1>3, <1>4, <1>7, <1>8
  <2>2. ASSUME NEW q \in Replica, NEW i \in 1..Len(log'[q]), NEW j \in 1..Len(log'[q]), i <= j
        PROVE  log'[q][i].term <= log'[q][j].term
    <3>1. CASE i \in 1..Len(log[q]) /\ j \in 1..Len(log[q])
      BY <1>7, <2>2, <3>1, Zenon DEF RaftCore, Terms, Term
    <3>2. CASE i \in 1..Len(log[q]) /\ log'[q][j].term = t
      <4>1. /\ log'[q][i] = log[q][i] /\ log[q][i].term \in Nat
            /\ log[q][i].term < t
        BY <1>7, <3>2, Zenon
      <4> QED
        BY <1>1, <3>2, <4>1
    <3>3. CASE i = j
      BY <2>1, <3>3
    <3> QED
      BY <1>5, <1>8, <2>2, <3>1, <3>2, <3>3 DEF n
  <2> QED
    BY <2>1, <2>2, Zenon DEF Terms, Term
<1>10. LeaderLog'
  <2>1. ASSUME NEW q \in Replica, leads'[q]
        PROVE  Len(log'[q]) > 0 /\ log'[q][Len(log'[q])].term = term'[q]
    <3>1. CASE q = r
      BY <1>2, <1>3, <1>4, <1>5, <3>1 DEF n
    <3>2. CASE q # r
      BY <1>4, <1>6, <2>1, <3>2, Zenon DEF RaftCore, LeaderLog, Term
    <3> QED
      BY <3>1, <3>2, Zenon
  <2> QED
    BY <2>1, Zenon DEF LeaderLog, Term
<1>11. OneLeader'
  <2>1. ASSUME NEW p \in Replica, NEW q \in Replica, leads'[p], leads'[q], term'[p] = term'[q]
        PROVE  p = q
    <3>1. CASE p = r
      BY <1>1, <1>3, <1>4, <2>1, <3>1
    <3>2. CASE q = r
      BY <1>1, <1>3, <1>4, <2>1, <3>2
    <3>3. CASE p # r /\ q # r
      BY <1>4, <2>1, <3>3, Zenon DEF RaftCore, OneLeader
    <3> QED
      BY <3>1, <3>2, <3>3, Zenon
  <2> QED
    BY <2>1, Zenon DEF OneLeader
<1>12. OwnTerm'
  <2>1. ASSUME NEW p \in Replica, NEW q \in Replica, leads'[p],
               NEW i \in 1..Len(log'[q]), log'[q][i].term = term'[p]
        PROVE  i <= Len(log'[p])
    <3>1. CASE p = r
      <4>1. term'[p] = t
        BY <1>3, <1>4, <3>1, Zenon
      <4>2. ASSUME i \in 1..Len(log[q]) PROVE FALSE
        <5>1. /\ log'[q][i] = log[q][i] /\ log[q][i].term \in Nat
              /\ log[q][i].term < t
          BY <1>7, <4>2, Zenon
        <5> QED
          BY <1>1, <2>1, <4>1, <5>1
      <4>3. q = r /\ i = n
        BY <1>8, <4>2, Zenon
      <4> QED
        BY <1>5, <3>1, <4>3 DEF n
    <3>2. CASE p # r
      <4>1. leads[p] /\ term'[p] = term[p] /\ log'[p] = log[p]
        BY <1>4, <1>6, <2>1, <3>2, Zenon
      <4>2. i \in 1..Len(log[q]) /\ log[q][i].term = term[p]
        BY SMTT(30), <1>1, <1>7, <1>8, <2>1, <4>1
      <4> QED
        BY <4>1, <4>2, Zenon DEF RaftCore, OwnTerm, Term
    <3> QED
      BY <3>1, <3>2, Zenon
  <2> QED
    BY <2>1, Zenon DEF OwnTerm, Term
<1>13. Matching'
  <2> SUFFICES ASSUME NEW p \in Replica, NEW q \in Replica,
                      NEW i \in 1..Len(log'[p]), NEW j \in 1..Len(log'[q]),
                      i <= j, log'[p][i].term = log'[q][j].term, NEW h \in 1..i
               PROVE  log'[p][h] = log'[q][h]
    BY Zenon DEF Matching, Term
  <2>1. CASE i \in 1..Len(log[p]) /\ j \in 1..Len(log[q])
    <3>1. log[p][i].term = log[q][j].term
      BY <1>7, <2>1, Zenon
    <3>2. log[p][h] = log[q][h]
      BY <2>1, <3>1, MatchingAt, Zenon
    <3>3. h \in 1..Len(log[p]) /\ h \in 1..Len(log[q])
      BY <1>7, <2>1
    <3> QED
      BY <1>7, <3>2, <3>3, Zenon
  <2>2. CASE p = q
    BY <2>2, Zenon
  <2>3. ASSUME NEW s \in Replica, NEW k \in 1..Len(log[s]) PROVE log'[s][k].term # t
    <3>1. log'[s][k] = log[s][k] /\ log[s][k].term \in Nat /\ log[s][k].term < t
      BY <1>7, Zenon
    <3> QED
      BY <1>1, <3>1
  <2> QED
    BY <1>8, <2>1, <2>2, <2>3
<1>14. Backed'
  <2> SUFFICES ASSUME NEW q \in Replica, NEW i \in 1..Len(log'[q])
               PROVE  \E R \in Majority : \A p \in R : log'[q][i].term <= term'[p]
    BY Zenon DEF Backed, Term, Majority
  <2>1. CASE i \in 1..Len(log[q])
    <3>1. PICK R \in Majority : \A p \in R : log[q][i].term <= term[p]
      BY <2>1, Zenon DEF RaftCore, Backed, Term
    <3>2. ASSUME NEW p \in R PROVE log'[q][i].term <= term'[p]
      <4>1. p \in Replica
        BY Zenon DEF Majority
      <4>2. log'[q][i].term \in Nat /\ log'[q][i].term <= term[p]
        BY <1>7, <2>1, <3>1, Zenon
      <4>3. term[p] \in Nat /\ term'[p] \in Nat /\ term[p] <= term'[p]
        BY <1>1, <1>7, <4>1, Zenon
      <4> QED
        BY <4>2, <4>3
    <3> QED
      BY <3>2, Zenon
  <2>2. CASE log'[q][i].term = t
    <3>1. ASSUME NEW p \in Q PROVE log'[q][i].term <= term'[p]
      <4>1. p \in Replica
        BY Zenon DEF Majority
      <4> QED
        BY <1>1, <1>4, <2>2, <4>1
    <3> QED
      BY <3>1, Zenon
  <2> QED
    BY <1>8, <2>1, <2>2, Zenon
<1> QED
  BY <1>9, <1>10, <1>11, <1>12, <1>13, <1>14, Zenon DEF RaftCore

-----------------------------------------------------------------------------
(* Raft: what is chosen *)

\* A chosen prefix has a last entry, with a term.
LEMMA ChosenFacts ==
    ASSUME Types, NEW P \in Prefix, Chosen(P)
    PROVE  /\ Len(P) \in Nat /\ Len(P) \in 1..Len(P)
           /\ \A i \in 1..Len(P) : P[i] \in Entry /\ P[i].term \in Nat
<1>1. P \in Seq(Entry) /\ P # << >>
  BY Zenon DEF Prefix, Chosen
<1>2. Len(P) \in Nat /\ Len(P) > 0 /\ \A i \in 1..Len(P) : P[i] \in Entry
  BY <1>1
<1> QED
  BY <1>2 DEF Entry

\* What is chosen under an earlier term, or the leader's, is in the leader's log.
LEMMA LeaderHolds ==
    ASSUME Ground, Types, RaftCore, NEW l \in Replica, leads[l], NEW P \in Prefix, Chosen(P),
           P[Len(P)].term <= term[l]
    PROVE  Holds(log[l], P)
<1> DEFINE n == Len(P)
           m == Len(log[l])
<1>1. n \in Nat /\ n \in 1..Len(P) /\ P[n].term \in Nat
  BY ChosenFacts, Zenon
<1>2. m \in Nat /\ m \in 1..Len(log[l]) /\ log[l][m].term = term[l] /\ term[l] \in Nat
  BY EntryFacts DEF RaftCore, LeaderLog, Term, Types
<1>3. CASE P[n].term < term[l]
  BY <1>2, <1>3, Zenon DEF Chosen, Term
<1>4. CASE P[n].term = term[l]
  <2>1. PICK Q \in Majority : \A q \in Q : Holds(log[q], P)
    BY Zenon DEF Chosen
  <2>2. PICK q \in Replica : q \in Q
    BY MajoritiesMeet, Zenon
  <2>3. n \in 1..Len(log[q]) /\ \A i \in 1..n : log[q][i] = P[i]
    BY <1>1, <2>1, <2>2, EntryFacts DEF Holds
  <2>4. log[q][n].term = term[l]
    BY <1>1, <1>4, <2>3, Zenon
  <2>5. n <= m
    BY <2>3, <2>4, Zenon DEF RaftCore, OwnTerm, Term
  <2> HIDE DEF n, m
  <2>6. \A h \in 1..n : log[q][h] = log[l][h]
    <3>1. log[q][n].term = log[l][m].term
      BY <1>2, <2>4, Zenon
    <3> QED
      BY <1>2, <2>3, <2>5, <3>1, MatchingAt, Zenon
  <2>7. \A i \in 1..n : log[l][i] = P[i]
    BY <2>3, <2>6, Zenon
  <2> QED
    BY <2>5, <2>7, Zenon DEF Holds, n, m
<1> QED
  BY <1>1, <1>2, <1>3, <1>4

\* Entries of a later term come after a chosen prefix.
LEMMA HoldsTerm ==
    ASSUME Types, RaftCore, NEW q \in Replica, NEW P \in Prefix, Chosen(P), Holds(log[q], P)
    PROVE  /\ P[Len(P)].term <= term[q]
           /\ \A i \in 1..Len(log[q]) : log[q][i].term > P[Len(P)].term => i > Len(P)
<1> DEFINE n == Len(P)
<1>1. n \in Nat /\ n \in 1..Len(P) /\ P[n].term \in Nat
  BY ChosenFacts, Zenon
<1>2. n \in 1..Len(log[q]) /\ log[q][n] = P[n] /\ Len(log[q]) \in Nat
  BY <1>1, EntryFacts DEF Holds
<1> HIDE DEF n
<1>3. P[n].term <= term[q]
  BY <1>2, Zenon DEF RaftCore, Terms, Term
<1>4. ASSUME NEW i \in 1..Len(log[q]), log[q][i].term > P[n].term, ~(i > n)
      PROVE  FALSE
  <2>1. log[q][i].term <= log[q][n].term
    BY <1>1, <1>2, <1>4 DEF RaftCore, Terms, Term
  <2>2. log[q][i].term \in Nat
    BY EntryFacts, Zenon
  <2> QED
    BY <1>1, <1>2, <1>4, <2>1, <2>2
<1> QED
  BY <1>3, <1>4, Zenon DEF n

\* Of two chosen sequences one begins with the other.
LEMMA ChosenComparable ==
    ASSUME Ground, Types, NEW P \in Prefix, NEW R \in Prefix, Chosen(P), Chosen(R)
    PROVE  \E q \in Replica : /\ Holds(log[q], P) /\ Holds(log[q], R)
                              /\ Len(P) <= Len(R) => Holds(R, P)
                              /\ Len(R) <= Len(P) => Holds(P, R)
<1>1. PICK Q \in Majority : \A q \in Q : Holds(log[q], P)
  BY Zenon DEF Chosen
<1>2. PICK S \in Majority : \A q \in S : Holds(log[q], R)
  BY Zenon DEF Chosen
<1>3. PICK q \in Replica : q \in Q /\ q \in S
  BY MajoritiesMeet, Zenon
<1>4. Len(P) \in Nat /\ Len(R) \in Nat
  BY ChosenFacts, Zenon
<1>5. Holds(log[q], P) /\ Holds(log[q], R)
  BY <1>1, <1>2, <1>3, Zenon
<1>6. Len(P) <= Len(R) => Holds(R, P)
  BY <1>4, <1>5 DEF Holds
<1>7. Len(R) <= Len(P) => Holds(P, R)
  BY <1>4, <1>5 DEF Holds
<1> QED
  BY <1>5, <1>6, <1>7, Zenon

\* An election keeps what is chosen, and the winner has it.
LEMMA ChosenElect ==
    ASSUME Ground, Types, RaftCore, NEW r \in Replica, NEW Q \in Majority, Elect(r, Q),
           NEW P \in Prefix, Chosen(P)
    PROVE  Chosen(P)' /\ Holds(log[r], P)
<1> DEFINE n == Len(P)
           e == [term |-> Max({term[q] : q \in Replica}) + 1, write |-> Noop, base |-> 0]
           m == Len(log[r])
<1>1. n \in Nat /\ n \in 1..Len(P) /\ P[n].term \in Nat
  BY ChosenFacts, Zenon
<1>2. PICK R \in Majority : \A q \in R : Holds(log[q], P)
  BY Zenon DEF Chosen
<1>3. PICK q \in Replica : q \in Q /\ q \in R
  BY MajoritiesMeet, Zenon
<1>4. UpToDate(log[r], log[q]) /\ Holds(log[q], P)
  BY <1>2, <1>3, Zenon DEF Elect
<1> DEFINE k == Len(log[q])
<1>5. /\ k \in Nat /\ m \in Nat /\ k \in 1..Len(log[q]) /\ n <= k
      /\ \A i \in 1..n : log[q][i] = P[i]
      /\ log[q] # << >> /\ log[q][k].term \in Nat
  BY <1>1, <1>4, EntryFacts DEF Holds
<1>6. P[n].term <= log[q][k].term
  <2>1. n \in 1..Len(log[q]) /\ log[q][n] = P[n]
    BY SMTT(30), <1>1, <1>5
  <2> HIDE DEF n, k
  <2> QED
    BY <1>5, <2>1, Zenon DEF RaftCore, Terms, Term
<1>7. m \in 1..Len(log[r]) /\ log[r][m].term \in Nat
      /\ \/ log[r][m].term > log[q][k].term
         \/ log[r][m].term = log[q][k].term /\ m >= k
  <2>1. log[r] # << >>
    BY <1>4, <1>5 DEF UpToDate, LastTerm
  <2>2. m \in 1..Len(log[r])
    BY <1>5, <2>1, EntryFacts
  <2>3. log[r][m].term \in Nat
    BY <2>2, EntryFacts, Zenon
  <2> QED
    BY <1>4, <1>5, <2>1, <2>2, <2>3, Zenon DEF UpToDate, LastTerm
<1> HIDE DEF n, m, k
<1>8. Holds(log[r], P)
  <2>1. CASE log[r][m].term > P[n].term
    BY <1>7, <2>1, Zenon DEF Chosen, Term, n
  <2>2. CASE log[r][m].term = P[n].term
    <3>1. log[q][k].term = log[r][m].term /\ k <= m
      BY SMTT(30), <1>1, <1>5, <1>6, <1>7, <2>2
    <3>2. \A h \in 1..k : log[q][h] = log[r][h]
      BY <1>5, <1>7, <3>1, MatchingAt, Zenon
    <3>3. k \in Nat /\ m \in Nat /\ n \in Nat
      BY <1>1, <1>5, Zenon
    <3>4. n <= m /\ \A h \in 1..n : log[r][h] = P[h]
      BY <1>5, <3>1, <3>2, <3>3
    <3> QED
      BY <3>4, Zenon DEF Holds, n, m
  <2> QED
    BY SMTT(30), <1>1, <1>5, <1>6, <1>7, <2>1, <2>2
<1>9. /\ Holds(log'[r], P)
      /\ \A s \in Replica : Holds(log[s], P) => Holds(log'[s], P)
      /\ \A s \in Replica \ {r} : log'[s] = log[s]
  <2>1. log' = [log EXCEPT ![r] = Append(@, e)] /\ e \in Entry
    <3>1. 0 \in Offsets
      BY OffsetsFacts, Zenon
    <3>2. Max({term[s] : s \in Replica}) + 1 \in Nat
      <4> DEFINE x == Max({term[s] : s \in Replica})
      <4>1. x \in Nat
        BY NewTerm, Zenon
      <4> HIDE DEF x
      <4>2. x + 1 \in Nat
        BY <4>1
      <4> QED
        BY <4>2, Zenon DEF x
    <3> QED
      BY <3>1, <3>2, Zenon DEF Elect, Entry
  <2> HIDE DEF e
  <2>2. log'[r] = Append(log[r], e) /\ \A s \in Replica \ {r} : log'[s] = log[s]
    BY <2>1, Zenon DEF Types
  <2>3. Len(Append(log[r], e)) = m + 1 /\ \A i \in 1..m : Append(log[r], e)[i] = log[r][i]
    BY <2>1, AppendFacts DEF Types, m
  <2>4. Holds(log'[r], P)
    BY <1>1, <1>5, <1>8, <2>2, <2>3 DEF Holds, n, m
  <2> QED
    BY <2>2, <2>4, Zenon
<1>10. ASSUME NEW s \in Replica, NEW i \in 1..Len(log'[s]), log'[s][i].term > P[Len(P)].term
       PROVE  Holds(log'[s], P)
  BY <1>9, <1>10, Zenon DEF Chosen, Term
<1>11. \A s \in R : Holds(log'[s], P)
  BY <1>2, <1>9, Zenon DEF Majority
<1> QED
  BY <1>8, <1>10, <1>11, Zenon DEF Chosen, Term

\* An append by a leader keeps what is chosen.
LEMMA ChosenTakes ==
    ASSUME Ground, Types, NEW r \in Replica, NEW e \in Entry, Takes(r, e), RaftCore,
           NEW P \in Prefix, Chosen(P)
    PROVE  Chosen(P)'
<1> DEFINE m == Len(log[r])
           n == Len(P)
<1>1. n \in Nat /\ P[n].term \in Nat
  BY ChosenFacts, Zenon
<1>2. /\ Len(log'[r]) = m + 1 /\ m \in Nat /\ log'[r][m + 1] = e
      /\ \A i \in 1..m : log'[r][i] = log[r][i]
  BY AppendFacts DEF Types, Takes
<1>3. \A q \in Replica \ {r} : log'[q] = log[q]
  BY Zenon DEF Types, Takes
<1>4. leads[r] /\ e.term = term[r] /\ term[r] \in Nat
  BY Zenon DEF Takes, Types
<1>5. \A q \in Replica : Holds(log[q], P) => Holds(log'[q], P)
  BY <1>1, <1>2, <1>3, SMTT(20) DEF Holds
<1>6. PICK Q \in Majority : \A q \in Q : Holds(log[q], P)
  BY Zenon DEF Chosen
<1>7. \A q \in Q : Holds(log'[q], P)
  BY <1>5, <1>6, Zenon DEF Majority
<1>8. ASSUME NEW q \in Replica, NEW i \in 1..Len(log'[q]), log'[q][i].term > P[n].term
      PROVE  Holds(log'[q], P)
  <2>1. CASE q = r /\ i = m + 1
    <3>1. P[n].term <= term[r]
      BY <1>1, <1>2, <1>4, <1>8, <2>1
    <3> QED
      BY <1>4, <1>5, <2>1, <3>1, LeaderHolds, Zenon
  <2>2. CASE i \in 1..Len(log[q])
    <3>1. log[q][i].term > P[n].term
      BY <1>2, <1>3, <1>8, <2>2, Zenon
    <3> QED
      BY <1>5, <2>2, <3>1, Zenon DEF Chosen, Term
  <2> QED
    BY <1>2, <1>3, <2>1, <2>2
<1> QED
  BY <1>7, <1>8, Zenon DEF Chosen, Term

\* A follower that takes the log of a leader keeps what is chosen.
LEMMA ChosenAdopts ==
    ASSUME Ground, Types, RaftCore, NEW l \in Replica, NEW f \in Replica, Adopts(l, f),
           NEW P \in Prefix, Chosen(P),
           Holds(log[f], P) => Len(P) <= Len(log'[f])
    PROVE  Chosen(P)'
<1> DEFINE n == Len(P)
<1>1. n \in Nat /\ P[n].term \in Nat
  BY ChosenFacts, Zenon
<1>2. PICK k \in 0..Len(log[l]) : log' = [log EXCEPT ![f] = SubSeq(log[l], 1, k)]
  BY Zenon DEF Adopts
<1>3. /\ Len(log'[f]) = k /\ k \in Nat /\ k <= Len(log[l]) /\ Len(log[l]) \in Nat
      /\ \A i \in 1..k : log'[f][i] = log[l][i]
  BY SMTT(30), <1>2, EntryFacts, PrefixFacts DEF Types
<1>4. \A q \in Replica \ {f} : log'[q] = log[q]
  BY <1>2, Zenon DEF Types
<1>5. leads[l] /\ term[f] <= term[l] /\ term[f] \in Nat /\ term[l] \in Nat
  BY Zenon DEF Adopts, Types
<1>6. ASSUME Holds(log[f], P) PROVE Holds(log'[f], P)
  <2>1. P[n].term <= term[f]
    BY <1>6, HoldsTerm, Zenon
  <2>2. Holds(log[l], P)
    BY <1>1, <1>5, <2>1, LeaderHolds
  <2> QED
    BY <1>1, <1>3, <1>6, <2>2 DEF Holds
<1>7. PICK Q \in Majority : \A q \in Q : Holds(log[q], P)
  BY Zenon DEF Chosen
<1>8. \A q \in Q : Holds(log'[q], P)
  BY <1>4, <1>6, <1>7, Zenon DEF Majority
<1>9. ASSUME NEW q \in Replica, NEW i \in 1..Len(log'[q]), log'[q][i].term > P[n].term
      PROVE  Holds(log'[q], P)
  <2>1. CASE q = f
    <3>1. i \in 1..Len(log[l]) /\ log[l][i].term > P[n].term /\ i <= k /\ i \in Nat
      BY <1>3, <1>9, <2>1
    <3>2. Holds(log[l], P)
      BY <3>1, Zenon DEF Chosen, Term
    <3>3. i > n
      BY <3>1, <3>2, HoldsTerm, Zenon
    <3> QED
      BY <1>1, <1>3, <2>1, <3>1, <3>2, <3>3 DEF Holds
  <2>2. CASE q # f
    BY <1>4, <1>9, <2>2, Zenon DEF Chosen, Term
  <2> QED
    BY <2>1, <2>2, Zenon
<1> QED
  BY <1>8, <1>9, Zenon DEF Chosen, Term

\* What a step leaves alone: what is chosen, and a replica's log up to its commit index.
Stays ==
    /\ \A P \in Prefix : Chosen(P) => Chosen(P)'
    /\ \A r \in Replica : /\ commit[r] <= Len(log'[r])
                          /\ \A i \in 1..commit[r] : log'[r][i] = log[r][i]

\* What a replica has committed is still a beginning of something chosen.
LEMMA CommitKept ==
    ASSUME Types, Types', RaftInv, Stays, NEW r \in Replica,
           commit'[r] <= commit[r], term[r] <= term'[r]
    PROVE  commit'[r] = 0 \/ \E P \in Prefix : Chosen(P)' /\ Follows(r, commit[r], P)'
<1>1. commit[r] \in Nat /\ term[r] \in Nat /\ commit'[r] \in Nat /\ term'[r] \in Nat
  BY Zenon DEF Types
<1>2. CASE commit[r] = 0
  BY <1>1, <1>2
<1>3. CASE commit[r] # 0
  <2>1. PICK P \in Prefix : Chosen(P) /\ Follows(r, commit[r], P)
    BY <1>3, Zenon DEF RaftInv, CommitChosen
  <2>2. Chosen(P)' /\ Len(P) \in Nat /\ P[Len(P)].term \in Nat
    BY <2>1, ChosenFacts, Zenon DEF Stays
  <2>3. Follows(r, commit[r], P)'
    <3>1. commit[r] <= Len(log'[r]) /\ \A i \in 1..commit[r] : log'[r][i] = log[r][i]
      BY Zenon DEF Stays
    <3>2. Len(log'[r]) \in Nat
      BY DEF Types
    <3> QED
      BY SMTT(30), <1>1, <2>1, <2>2, <3>1, <3>2 DEF Follows
  <2> QED
    BY <2>2, <2>3, Zenon
<1> QED
  BY <1>2, <1>3, Zenon

\* A step that leaves the logs and terms alone and commits nothing.
LEMMA RaftQuiet ==
    ASSUME Types, Types', RaftInv, log' = log, term' = term,
           \A r \in Replica : leads'[r] => leads[r],
           \A r \in Replica : /\ base'[r] <= commit'[r] /\ applied'[r] <= commit'[r]
                              /\ commit'[r] <= commit[r]
    PROVE  RaftInv' /\ Stays
<1>1. RaftCore'
  BY CoreUnchanged, Zenon DEF RaftInv
<1>2. \A r \in Replica : /\ Len(log[r]) \in Nat /\ commit[r] \in Nat /\ commit'[r] \in Nat
                         /\ term[r] \in Nat /\ commit[r] <= Len(log[r])
  BY DEF Types, RaftInv, Indices
<1>3. Stays
  <2>1. ASSUME NEW P \in Prefix, Chosen(P) PROVE Chosen(P)'
    BY <2>1, Zenon DEF Chosen, Term, Holds
  <2> QED
    BY <1>2, <2>1, Zenon DEF Stays
<1>4. CommitChosen'
  <2>1. ASSUME NEW r \in Replica
        PROVE  commit'[r] = 0 \/ \E P \in Prefix : Chosen(P)' /\ Follows(r, commit[r], P)'
    BY <1>2, <1>3, CommitKept
  <2> QED
    BY <2>1, Zenon DEF CommitChosen
<1>5. Indices'
  BY <1>2 DEF Indices
<1> QED
  BY <1>1, <1>3, <1>4, <1>5, Zenon DEF RaftInv

\* A step that makes logs longer or terms higher and commits nothing.
LEMMA RaftGrows ==
    ASSUME Types, Types', RaftInv, RaftCore', Stays,
           \A r \in Replica : term[r] <= term'[r],
           UNCHANGED <<commit, base, applied>>
    PROVE  RaftInv'
<1>1. CommitChosen'
  <2>1. ASSUME NEW r \in Replica
        PROVE  commit'[r] = 0 \/ \E P \in Prefix : Chosen(P)' /\ Follows(r, commit[r], P)'
    <3>1. commit'[r] <= commit[r]
      BY DEF Types
    <3> QED
      BY <3>1, CommitKept, Zenon
  <2> QED
    BY <2>1, Zenon DEF CommitChosen
<1>2. Indices'
  BY Zenon DEF RaftInv, Indices, Stays
<1> QED
  BY <1>1, <1>2, Zenon DEF RaftInv

\* An election keeps the Raft invariant, and every committed entry stays.
LEMMA RaftElect ==
    ASSUME Ground, Types, Types', RaftInv, NEW r \in Replica, NEW Q \in Majority, Elect(r, Q)
    PROVE  RaftInv' /\ Stays
<1>1. RaftCore' /\ \A P \in Prefix : Chosen(P) => Chosen(P)'
  BY CoreElect, ChosenElect, Zenon DEF RaftInv
<1>2. PICK e \in Entry : log' = [log EXCEPT ![r] = Append(@, e)]
  <2> DEFINE e == [term |-> Max({term[q] : q \in Replica}) + 1, write |-> Noop, base |-> 0]
  <2>1. log' = [log EXCEPT ![r] = Append(@, e)]
    BY Zenon DEF Elect
  <2>2. 0 \in Offsets
    BY OffsetsFacts, Zenon
  <2>3. Max({term[s] : s \in Replica}) + 1 \in Nat
    <3> DEFINE x == Max({term[s] : s \in Replica})
    <3>1. x \in Nat
      BY NewTerm, Zenon
    <3> HIDE DEF x
    <3>2. x + 1 \in Nat
      BY <3>1
    <3> QED
      BY <3>2, Zenon DEF x
  <2>4. e \in Entry
    BY <2>2, <2>3, Zenon DEF Entry
  <2> QED
    BY <2>1, <2>4, Zenon
<1>3. ASSUME NEW q \in Replica
      PROVE  commit[q] <= Len(log'[q]) /\ \A i \in 1..commit[q] : log'[q][i] = log[q][i]
  <2>1. commit[q] \in Nat /\ Len(log[q]) \in Nat /\ commit[q] <= Len(log[q])
    BY DEF Types, RaftInv, Indices
  <2>2. CASE q = r
    <3>1. log'[q] = Append(log[q], e) /\ log[q] \in Seq(Entry)
      BY <1>2, <2>2, Zenon DEF Types
    <3> QED
      BY <2>1, <3>1, AppendFacts
  <2>3. CASE q # r
    BY <1>2, <2>1, <2>3, Zenon DEF Types
  <2> QED
    BY <2>2, <2>3, Zenon
<1>4. Stays
  BY <1>1, <1>3, Zenon DEF Stays
<1>5. \A q \in Replica : term[q] <= term'[q]
  <2> DEFINE x == Max({term[s] : s \in Replica})
  <2>1. term' = [q \in Replica |-> IF q \in Q THEN x + 1 ELSE term[q]]
    BY Zenon DEF Elect
  <2>2. x \in Nat /\ \A q \in Replica : term[q] <= x
    BY NewTerm, Zenon
  <2>3. \A q \in Replica : term[q] \in Nat
    BY Zenon DEF Types
  <2> HIDE DEF x
  <2>4. ASSUME NEW q \in Replica PROVE term[q] <= term'[q]
    BY <2>1, <2>2, <2>3
  <2> QED
    BY <2>4, Zenon
<1>6. UNCHANGED <<commit, base, applied>>
  BY Zenon DEF Elect, store
<1> QED
  BY <1>1, <1>4, <1>5, <1>6, RaftGrows, Zenon

\* A proposal keeps the Raft invariant, and every committed entry stays.
LEMMA RaftTakes ==
    ASSUME Ground, Types, Types', RaftInv, NEW r \in Replica, NEW e \in Entry, Takes(r, e),
           UNCHANGED <<commit, base, applied>>
    PROVE  RaftInv' /\ Stays
<1>1. RaftCore' /\ \A P \in Prefix : Chosen(P) => Chosen(P)'
  BY CoreTakes, ChosenTakes, Zenon DEF RaftInv
<1>2. ASSUME NEW q \in Replica
      PROVE  commit[q] <= Len(log'[q]) /\ \A i \in 1..commit[q] : log'[q][i] = log[q][i]
  <2>1. commit[q] \in Nat /\ Len(log[q]) \in Nat /\ commit[q] <= Len(log[q])
    BY DEF Types, RaftInv, Indices
  <2>2. CASE q = r
    <3>1. log'[q] = Append(log[q], e) /\ log[q] \in Seq(Entry)
      BY <2>2, Zenon DEF Types, Takes
    <3> QED
      BY <2>1, <3>1, AppendFacts
  <2>3. CASE q # r
    BY <2>1, <2>3, Zenon DEF Types, Takes
  <2> QED
    BY <2>2, <2>3, Zenon
<1>3. Stays
  BY <1>1, <1>2, Zenon DEF Stays
<1>4. \A q \in Replica : term[q] <= term'[q]
  BY DEF Types, Takes
<1> QED
  BY <1>1, <1>3, <1>4, RaftGrows, Zenon

\* A catch-up keeps the Raft invariant, and every committed entry stays.
LEMMA RaftReplicate ==
    ASSUME Ground, Types, Types', RaftInv, NEW l \in Replica, NEW f \in Replica, Replicate(l, f)
    PROVE  RaftInv' /\ Stays
<1> DEFINE n == Len(log[l])
<1>1. /\ l # f /\ leads[l] /\ term[f] <= term[l]
      /\ term' = [term EXCEPT ![f] = term[l]]
      /\ log' = [log EXCEPT ![f] = log[l]]
      /\ commit' = [commit EXCEPT ![f] = Max({commit[f], commit[l]})]
      /\ UNCHANGED <<base, applied>>
  BY Zenon DEF Replicate
<1>2. \A q \in Replica : /\ commit[q] \in Nat /\ term[q] \in Nat /\ Len(log[q]) \in Nat
                         /\ base[q] \in Nat /\ applied[q] \in Nat
                         /\ base[q] <= commit[q] /\ applied[q] <= commit[q]
                         /\ commit[q] <= Len(log[q])
  BY DEF Types, RaftInv, Indices
<1>3. commit'[f] = IF commit[f] >= commit[l] THEN commit[f] ELSE commit[l]
  <2>1. Max({commit[f], commit[l]}) = IF commit[f] >= commit[l] THEN commit[f] ELSE commit[l]
    BY SMTT(30), <1>2, MaxOfTwo
  <2> QED
    BY <1>1, <2>1, Zenon DEF Types
<1>4. \A q \in Replica \ {f} : log'[q] = log[q] /\ commit'[q] = commit[q] /\ term'[q] = term[q]
  BY <1>1, Zenon DEF Types
<1>5. log'[f] = log[l] /\ term'[f] = term[l]
  BY <1>1, Zenon DEF Types
<1>6. Adopts(l, f)
  <2>1. log[l] = SubSeq(log[l], 1, n) /\ n \in 0..n
    BY <1>2, FullPrefix DEF Types
  <2> QED
    BY <1>1, <2>1, Zenon DEF Adopts, Replicate
<1>7. RaftCore'
  BY <1>6, CoreAdopts, Zenon DEF RaftInv
<1>8. ASSUME NEW P \in Prefix, Chosen(P) PROVE Chosen(P)'
  <2>1. ASSUME Holds(log[f], P) PROVE Len(P) <= Len(log'[f])
    <3>1. P[Len(P)].term <= term[f]
      BY <1>8, <2>1, HoldsTerm, Zenon DEF RaftInv
    <3>3. P[Len(P)].term \in Nat /\ term[f] \in Nat /\ term[l] \in Nat
      BY <1>2, <1>8, ChosenFacts, Zenon
    <3>2. P[Len(P)].term <= term[l]
      BY <1>1, <3>1, <3>3
    <3> QED
      BY <1>1, <1>5, <1>8, <3>2, LeaderHolds, Zenon DEF RaftInv, Holds
  <2> QED
    BY <1>6, <1>8, <2>1, ChosenAdopts, Zenon DEF RaftInv
<1>9. commit[f] <= Len(log[l]) /\ \A i \in 1..commit[f] : log[l][i] = log[f][i]
  <2>1. CASE commit[f] = 0
    BY <1>2, <2>1
  <2>2. CASE commit[f] # 0
    <3>1. PICK P \in Prefix : Chosen(P) /\ Follows(f, commit[f], P)
      BY <2>2, Zenon DEF RaftInv, CommitChosen
    <3>2. P[Len(P)].term <= term[l] /\ Len(P) \in Nat
      BY SMTT(30), <1>1, <1>2, <3>1, ChosenFacts DEF Follows
    <3>3. Holds(log[l], P)
      BY <1>1, <3>1, <3>2, LeaderHolds, Zenon DEF RaftInv
    <3> QED
      BY <1>2, <3>1, <3>2, <3>3 DEF Follows, Holds
  <2> QED
    BY <2>1, <2>2, Zenon
<1>10. Stays
  <2>1. ASSUME NEW q \in Replica
        PROVE  commit[q] <= Len(log'[q]) /\ \A i \in 1..commit[q] : log'[q][i] = log[q][i]
    BY <1>2, <1>4, <1>5, <1>9, Zenon
  <2> QED
    BY <1>8, <2>1, Zenon DEF Stays
<1>11. CommitChosen'
  <2>1. ASSUME NEW q \in Replica
        PROVE  commit'[q] = 0 \/ \E P \in Prefix : Chosen(P)' /\ Follows(q, commit[q], P)'
    <3>1. CASE commit'[q] <= commit[q]
      <4>1. term[q] <= term'[q]
        BY <1>1, <1>2, <1>4, <1>5
      <4> QED
        BY <1>10, <3>1, <4>1, CommitKept, Zenon
    <3>2. CASE q = f /\ commit'[q] = commit[l] /\ commit[l] > 0
      <4>1. PICK P \in Prefix : Chosen(P) /\ Follows(l, commit[l], P)
        BY <3>2 DEF RaftInv, CommitChosen
      <4>2. Chosen(P)' /\ Follows(q, commit[q], P)'
        BY <1>5, <1>8, <3>2, <4>1, Zenon DEF Follows
      <4> QED
        BY <4>2, Zenon
    <3> QED
      BY <1>2, <1>3, <1>4, <3>1, <3>2
  <2> QED
    BY <2>1, Zenon DEF CommitChosen
<1>12. Indices'
  <2>1. ASSUME NEW q \in Replica
        PROVE  base'[q] <= commit'[q] /\ applied'[q] <= commit'[q] /\ commit'[q] <= Len(log'[q])
    <3>1. CASE q = f
      BY <1>1, <1>2, <1>3, <1>5, <1>9, <3>1
    <3>2. CASE q # f
      BY <1>1, <1>2, <1>4, <3>2, Zenon
    <3> QED
      BY <3>1, <3>2, Zenon
  <2> QED
    BY <2>1, Zenon DEF Indices
<1> QED
  BY <1>7, <1>10, <1>11, <1>12, Zenon DEF RaftInv

\* A leader sends a snapshot to a follower whose log ends before it, or differs there:
\* nothing the follower has committed, and nothing chosen that it holds, goes so far.
LEMMA InstallBeyond ==
    ASSUME Ground, Types, RaftInv, NEW l \in Replica, NEW f \in Replica, Install(l, f)
    PROVE  /\ commit[f] < base[l]
           /\ \A P \in Prefix : Chosen(P) /\ Holds(log[f], P) => Len(P) < base[l]
           /\ \A i \in 1..commit[f] : log[l][i] = log[f][i]
<1>1. /\ leads[l] /\ term[f] <= term[l] /\ base[l] > base[f]
      /\ base[l] <= Len(log[f]) => log[f][base[l]].term # log[l][base[l]].term
  BY Zenon DEF Install, Reaches
<1>2. /\ base[l] \in Nat /\ base[f] \in Nat /\ commit[f] \in Nat /\ commit[l] \in Nat
      /\ Len(log[f]) \in Nat /\ Len(log[l]) \in Nat /\ commit[f] <= Len(log[f])
      /\ term[f] \in Nat /\ term[l] \in Nat
  BY DEF Types, RaftInv, Indices
<1>3. ASSUME NEW P \in Prefix, Chosen(P), P[Len(P)].term <= term[f], NEW k \in 1..Len(P),
             k <= Len(log[f]), \A i \in 1..k : log[f][i] = P[i]
      PROVE  k < base[l] /\ \A i \in 1..k : log[l][i] = log[f][i]
  <2>1. Len(P) \in Nat /\ P[Len(P)].term \in Nat
    BY <1>3, ChosenFacts, Zenon
  <2>2. Holds(log[l], P)
    BY <1>1, <1>2, <1>3, <2>1, LeaderHolds DEF RaftInv
  <2>3. \A i \in 1..k : log[l][i] = log[f][i]
    BY SMTT(30), <1>3, <2>1, <2>2 DEF Holds
  <2>4. ~(base[l] <= k)
    BY SMTT(30), <1>1, <1>2, <1>3, <2>3
  <2> QED
    BY <1>2, <2>3, <2>4
<1>4. ASSUME NEW P \in Prefix, Chosen(P), Holds(log[f], P)
      PROVE  Len(P) < base[l]
  <2>1. P[Len(P)].term <= term[f] /\ Len(P) \in 1..Len(P)
    BY <1>4, HoldsTerm, ChosenFacts, Zenon DEF RaftInv
  <2> QED
    BY <1>3, <1>4, <2>1, Zenon DEF Holds
<1>5. commit[f] < base[l] /\ \A i \in 1..commit[f] : log[l][i] = log[f][i]
  <2>1. CASE commit[f] = 0
    BY <1>1, <1>2, <2>1
  <2>2. CASE commit[f] # 0
    <3>1. PICK P \in Prefix : Chosen(P) /\ Follows(f, commit[f], P)
      BY <2>2, Zenon DEF RaftInv, CommitChosen
    <3>2. commit[f] \in 1..Len(P)
      BY <1>2, <2>2, <3>1, ChosenFacts DEF Follows
    <3> QED
      BY <1>2, <1>3, <3>1, <3>2, Zenon DEF Follows
  <2> QED
    BY <2>1, <2>2, Zenon
<1> QED
  BY <1>4, <1>5, Zenon

\* The install of a snapshot does so too, and ends the log where the snapshot does.
LEMMA RaftInstall ==
    ASSUME Ground, Types, Types', RaftInv, NEW l \in Replica, NEW f \in Replica, Install(l, f)
    PROVE  /\ RaftInv' /\ Stays
           /\ commit'[f] = base[l] /\ Len(log'[f]) = base[l]
           /\ \A i \in 1..base[l] : log'[f][i] = log[l][i]
<1>1. /\ l # f /\ leads[l] /\ term[f] <= term[l]
      /\ term' = [term EXCEPT ![f] = term[l]]
      /\ log' = [log EXCEPT ![f] = SubSeq(log[l], 1, base[l])]
      /\ commit' = [commit EXCEPT ![f] = Max({commit[f], base[l]})]
      /\ base' = [base EXCEPT ![f] = base[l]]
      /\ UNCHANGED applied
  BY Zenon DEF Install
<1>2. \A q \in Replica : /\ commit[q] \in Nat /\ term[q] \in Nat /\ Len(log[q]) \in Nat
                         /\ base[q] \in Nat /\ applied[q] \in Nat
                         /\ base[q] <= commit[q] /\ applied[q] <= commit[q]
                         /\ commit[q] <= Len(log[q])
  BY DEF Types, RaftInv, Indices
<1>3. /\ commit[f] < base[l]
      /\ \A P \in Prefix : Chosen(P) /\ Holds(log[f], P) => Len(P) < base[l]
      /\ \A i \in 1..commit[f] : log[l][i] = log[f][i]
  BY InstallBeyond, Zenon
<1>4. commit'[f] = base[l]
  <2>1. Max({commit[f], base[l]}) = base[l]
    BY SMTT(30), <1>2, <1>3, MaxOfTwo
  <2> QED
    BY <1>1, <2>1, Zenon DEF Types
<1>5. /\ Len(log'[f]) = base[l] /\ term'[f] = term[l] /\ base'[f] = base[l]
      /\ \A i \in 1..base[l] : log'[f][i] = log[l][i]
  <2>1. /\ log \in [Replica -> Seq(Entry)] /\ term \in [Replica -> Nat]
        /\ base \in [Replica -> Nat]
    BY Zenon DEF Types
  <2>2. base[l] \in Nat /\ Len(log[l]) \in Nat /\ base[l] <= Len(log[l])
    BY <1>2
  <2>3. log[l] \in Seq(Entry) /\ base[l] \in 0..Len(log[l])
    BY <2>1, <2>2
  <2>4. log'[f] = SubSeq(log[l], 1, base[l]) /\ term'[f] = term[l] /\ base'[f] = base[l]
    BY <1>1, <2>1, Zenon
  <2> QED
    BY <2>3, <2>4, PrefixFacts
<1>6. \A q \in Replica \ {f} :
         /\ log'[q] = log[q] /\ commit'[q] = commit[q] /\ term'[q] = term[q]
         /\ base'[q] = base[q]
  BY <1>1 DEF Types
<1>7. Adopts(l, f)
  <2>1. base[l] \in 0..Len(log[l])
    BY <1>2
  <2> QED
    BY <1>1, <2>1, Zenon DEF Adopts, Install
<1>8. RaftCore'
  BY <1>7, CoreAdopts, Zenon DEF RaftInv
<1>9. ASSUME NEW P \in Prefix, Chosen(P) PROVE Chosen(P)'
  <2>1. Holds(log[f], P) => Len(P) <= Len(log'[f])
    <3> SUFFICES ASSUME Holds(log[f], P) PROVE Len(P) <= Len(log'[f])
      BY Zenon
    <3>1. Len(P) < base[l] /\ Len(P) \in Nat /\ base[l] \in Nat /\ Len(log'[f]) = base[l]
      BY <1>2, <1>3, <1>5, <1>9, ChosenFacts, Zenon
    <3> QED
      BY <3>1
  <2> QED
    BY <1>7, <1>9, <2>1, ChosenAdopts, Zenon DEF RaftInv
<1>10. Stays
  <2>1. ASSUME NEW q \in Replica
        PROVE  commit[q] <= Len(log'[q]) /\ \A i \in 1..commit[q] : log'[q][i] = log[q][i]
    <3>1. CASE q = f
      BY <1>2, <1>3, <1>5, <3>1
    <3>2. CASE q # f
      BY <1>2, <1>6, <3>2, Zenon
    <3> QED
      BY <3>1, <3>2, Zenon
  <2> QED
    BY <1>9, <2>1, Zenon DEF Stays
<1>11. CommitChosen'
  <2>1. ASSUME NEW q \in Replica
        PROVE  commit'[q] = 0 \/ \E P \in Prefix : Chosen(P)' /\ Follows(q, commit[q], P)'
    <3>1. CASE q # f
      <4>1. term[q] <= term'[q] /\ commit'[q] <= commit[q]
        BY SMTT(30), <1>2, <1>6, <3>1
      <4> QED
        BY <1>10, <4>1, CommitKept, Zenon
    <3>2. CASE q = f
      <4>1. commit[l] # 0 /\ base[l] <= commit[l]
        BY <1>2, <1>3
      <4>2. PICK P \in Prefix : Chosen(P) /\ Follows(l, commit[l], P)
        BY <4>1, Zenon DEF RaftInv, CommitChosen
      <4>3. Len(P) \in Nat
        BY <4>2, ChosenFacts, ZenonT(30)
      <4>4. Chosen(P)' /\ Follows(q, commit[q], P)'
        BY SMTT(30), <1>2, <1>4, <1>5, <1>9, <3>2, <4>1, <4>2, <4>3 DEF Follows
      <4> QED
        BY <4>4, Zenon
    <3> QED
      BY <3>1, <3>2, Zenon
  <2> QED
    BY <2>1, Zenon DEF CommitChosen
<1>12. Indices'
  <2>1. ASSUME NEW q \in Replica
        PROVE  base'[q] <= commit'[q] /\ applied'[q] <= commit'[q] /\ commit'[q] <= Len(log'[q])
    <3>1. CASE q = f
      BY <1>1, <1>2, <1>3, <1>4, <1>5, <3>1
    <3>2. CASE q # f
      BY <1>1, <1>2, <1>6, <3>2, Zenon
    <3> QED
      BY <3>1, <3>2, Zenon
  <2> QED
    BY <2>1, Zenon DEF Indices
<1> QED
  BY <1>4, <1>5, <1>8, <1>10, <1>11, <1>12, Zenon DEF RaftInv

\* A commit does so too: an entry of the leader's term on a majority is chosen.
LEMMA RaftCommit ==
    ASSUME Ground, Types, Types', RaftInv, NEW l \in Replica, NEW k \in 1..Len(log[l]), Commit(l, k)
    PROVE  RaftInv' /\ Stays
<1>1. /\ leads[l] /\ k > commit[l] /\ log[l][k].term = term[l]
      /\ commit' = [commit EXCEPT ![l] = k]
      /\ UNCHANGED <<term, leads, log, base, applied>>
  BY Zenon DEF Commit
<1>2. \A q \in Replica : /\ commit[q] \in Nat /\ term[q] \in Nat /\ Len(log[q]) \in Nat
                         /\ base[q] \in Nat /\ applied[q] \in Nat
                         /\ base[q] <= commit[q] /\ applied[q] <= commit[q]
                         /\ commit[q] <= Len(log[q])
  BY DEF Types, RaftInv, Indices
<1>0. k \in Nat /\ k \in 1..k /\ k \in 0..Len(log[l]) /\ log[l] \in Seq(Entry)
  BY <1>2 DEF Types
<1>3. PICK P \in Prefix : Len(P) = k /\ \A i \in 1..k : P[i] = log[l][i]
  <2> DEFINE X == SubSeq(log[l], 1, k)
  <2>1. X \in Seq(Entry) /\ Len(X) = k /\ \A i \in 1..k : X[i] = log[l][i]
    BY <1>0, PrefixFacts, Zenon
  <2> HIDE DEF X
  <2> QED
    BY <2>1, Zenon DEF Prefix
<1>4. P # << >>
  BY <1>0, <1>3
<1>5. PICK Q \in Majority : \A q \in Q : /\ term[q] = term[l] /\ Len(log[q]) >= k
                                         /\ log[q][k] = log[l][k]
  BY Zenon DEF Commit
<1>6. ASSUME NEW q \in Q PROVE Holds(log[q], P)
  <2>1. q \in Replica
    BY Zenon DEF Majority
  <2>2. k \in 1..Len(log[q]) /\ k <= k /\ log[q][k].term = log[l][k].term
    BY <1>0, <1>2, <1>3, <1>5, <2>1
  <2>3. \A h \in 1..k : log[q][h] = log[l][h]
    BY <2>1, <2>2, MatchingAt, Zenon DEF RaftInv
  <2> QED
    BY <1>0, <1>3, <2>2, <2>3 DEF Holds
<1>7. ASSUME NEW q \in Replica, NEW i \in 1..Len(log[q]), log[q][i].term > P[Len(P)].term
      PROVE  FALSE
  <2>1. PICK R \in Majority : \A p \in R : log[q][i].term <= term[p]
    BY Zenon DEF RaftInv, RaftCore, Backed, Term
  <2>2. PICK p \in Replica : p \in Q /\ p \in R
    BY MajoritiesMeet, Zenon
  <2>3. log[q][i].term <= term[l] /\ P[Len(P)].term = term[l]
    BY <1>0, <1>1, <1>3, <1>5, <2>1, <2>2, Zenon
  <2>4. log[q][i].term \in Nat /\ term[l] \in Nat
    BY <1>2, EntryFacts, Zenon
  <2> QED
    BY <1>7, <2>3, <2>4
<1>8. Chosen(P)
  BY <1>4, <1>6, <1>7, Zenon DEF Chosen, Term
<1>9. RaftCore'
  BY <1>1, CoreUnchanged, Zenon DEF RaftInv
<1>10. ASSUME NEW R \in Prefix, Chosen(R) PROVE Chosen(R)'
  BY <1>1, <1>10, Zenon DEF Chosen, Term, Holds
<1>11. Stays
  BY <1>1, <1>2, <1>10, Zenon DEF Stays
<1>12. CommitChosen'
  <2>1. ASSUME NEW q \in Replica
        PROVE  commit'[q] = 0 \/ \E R \in Prefix : Chosen(R)' /\ Follows(q, commit[q], R)'
    <3>1. CASE q # l
      <4>0. commit' \in [Replica -> Nat] /\ commit \in [Replica -> Nat]
        BY Zenon DEF Types
      <4>1. term[q] <= term'[q] /\ commit'[q] <= commit[q]
        BY <1>1, <1>2, <3>1, <4>0
      <4> QED
        BY <1>11, <4>1, CommitKept, Zenon
    <3>2. CASE q = l
      <4>1. commit'[q] = k
        BY <1>1, <3>2, Zenon DEF Types
      <4>2. Follows(q, commit[q], P)'
        <5>1. P[Len(P)].term = term[l] /\ Len(P) = k
          BY <1>0, <1>1, <1>3, Zenon
        <5>2. term'[l] = term[l] /\ log'[l] = log[l] /\ term[l] \in Nat /\ Len(log[l]) \in Nat
          BY <1>1, <1>2, Zenon
        <5> QED
          BY <1>0, <1>3, <3>2, <4>1, <5>1, <5>2 DEF Follows
      <4>3. Chosen(P)'
        BY <1>8, <1>10, Zenon
      <4> QED
        BY <4>2, <4>3, Zenon
    <3> QED
      BY <3>1, <3>2, Zenon
  <2> QED
    BY <2>1, Zenon DEF CommitChosen
<1>13. Indices'
  <2>1. ASSUME NEW q \in Replica
        PROVE  base'[q] <= commit'[q] /\ applied'[q] <= commit'[q] /\ commit'[q] <= Len(log'[q])
    BY <1>0, <1>1, <1>2 DEF Types
  <2> QED
    BY <2>1, Zenon DEF Indices
<1> QED
  BY <1>9, <1>11, <1>12, <1>13, Zenon DEF RaftInv

-----------------------------------------------------------------------------
(* Finite sets of numbers *)

\* A set of natural numbers has a least member.
LEMMA LeastNat ==
    ASSUME NEW T \in SUBSET Nat, T # {}
    PROVE  \E x \in T : \A y \in T : x <= y
<1> DEFINE R == OpToRel(<, Nat)
<1>1. IsWellFoundedOn(R, Nat)
  BY NatLessThanWellFounded, Zenon
<1>2. ASSUME NEW x \in Nat, NEW y \in Nat, y < x PROVE <<y, x>> \in R
  BY <1>2, Zenon DEF OpToRel
<1> HIDE DEF R
<1>3. PICK x \in T : \A y \in T : ~ (<<y, x>> \in R)
  BY Zenon, <1>1, WFMin
<1>4. ASSUME NEW y \in T PROVE x <= y
  <2>1. ~ (<<y, x>> \in R)
    BY <1>3, Zenon
  <2>2. x \in Nat /\ y \in Nat
    BY Zenon
  <2>3. ~ (y < x)
    BY <1>2, <2>1, <2>2, Zenon
  <2> QED
    BY <2>2, <2>3
<1> QED
  BY <1>4, Zenon

\* Induction: a set that has 0, and n + 1 with every n, has all natural numbers.
LEMMA NatSetInduction ==
    ASSUME NEW A \in SUBSET Nat, 0 \in A, \A n \in A : n + 1 \in A
    PROVE  A = Nat
<1> SUFFICES ASSUME Nat \ A # {} PROVE FALSE
  BY Zenon
<1>1. PICK x \in Nat \ A : \A y \in Nat \ A : x <= y
  BY Zenon, LeastNat
<1>2. x # 0 /\ x - 1 \in Nat
  BY <1>1
<1>3. x - 1 \in A
  BY <1>1, <1>2
<1>4. (x - 1) + 1 = x
  BY <1>1
<1> QED
  BY <1>1, <1>3, <1>4, Zenon

\* A finite set of numbers has a greatest member.
LEMMA Greatest ==
    ASSUME NEW S \in SUBSET Int, IsFiniteSet(S), S # {}
    PROVE  \E m \in S : \A x \in S : x <= m
<1> DEFINE P(n) == \A T \in SUBSET Int :
                     IsFiniteSet(T) /\ T # {} /\ Cardinality(T) = n
                       => \E m \in T : \A x \in T : x <= m
           A == {n \in Nat : P(n)}
<1>1. 0 \in A
  BY FS_EmptySet, Zenon
<1>2. ASSUME NEW n \in A PROVE n + 1 \in A
  <2> SUFFICES ASSUME NEW T \in SUBSET Int, IsFiniteSet(T), T # {}, Cardinality(T) = n + 1
               PROVE  \E m \in T : \A x \in T : x <= m
    OBVIOUS
  <2>1. PICK y : y \in T
    BY Zenon
  <2>2. T \ {y} \in SUBSET Int /\ IsFiniteSet(T \ {y}) /\ Cardinality(T \ {y}) = n
    <3>1. IsFiniteSet(T \ {y}) /\ Cardinality(T \ {y}) = (n + 1) - 1
      BY <2>1, FS_RemoveElement, Zenon
    <3>2. n \in Nat
      BY Zenon
    <3>3. (n + 1) - 1 = n
      BY <3>2, SMT
    <3>4. T \ {y} \in SUBSET Int
      BY Zenon
    <3> QED
      BY <3>1, <3>3, <3>4, Zenon
  <2>3. CASE T \ {y} = {}
    BY <2>1, <2>3
  <2>4. CASE T \ {y} # {}
    <3>1. PICK m \in T \ {y} : \A x \in T \ {y} : x <= m
      BY <2>2, <2>4, Zenon
    <3>2. m \in Int /\ y \in Int
      BY <2>1, Zenon
    <3>3. CASE m <= y
      <4>1. \A x \in T : x <= y
        BY <3>1, <3>2, <3>3
      <4> QED
        BY <2>1, <4>1, Zenon
    <3>4. CASE y < m
      <4>1. \A x \in T : x <= m
        BY <3>1, <3>2, <3>4
      <4> QED
        BY <4>1, Zenon
    <3> QED
      BY <3>2, <3>3, <3>4
  <2> QED
    BY <2>3, <2>4, Zenon
<1> HIDE DEF P
<1>3. A = Nat
  BY Zenon, <1>1, <1>2, NatSetInduction
<1>4. Cardinality(S) \in Nat /\ P(Cardinality(S))
  BY <1>3, FS_CardinalityType, Zenon
<1> QED
  BY <1>4, Zenon DEF P

\* A set of numbers with a lower bound has a least member.
LEMMA LeastAbove ==
    ASSUME NEW b \in Int, NEW S \in SUBSET Int, S # {}, \A x \in S : b <= x
    PROVE  \E m \in S : \A x \in S : m <= x
<1> DEFINE T == {n \in Nat : n + b \in S}
<1>1. ASSUME NEW x \in S PROVE x - b \in T
  <2>1. x - b \in Nat /\ (x - b) + b = x
    OBVIOUS
  <2> QED
    BY <2>1, Zenon
<1>2. T # {} /\ T \in SUBSET Nat
  BY Zenon, <1>1
<1> HIDE DEF T
<1>3. PICK n \in T : \A y \in T : n <= y
  BY <1>2, LeastNat, Zenon
<1>4. n \in Nat /\ n + b \in S
  BY <1>3, Zenon DEF T
<1>5. ASSUME NEW x \in S PROVE n + b <= x
  <2>1. n <= x - b
    BY <1>1, <1>3, Zenon
  <2> QED
    BY <1>4, <2>1
<1> QED
  BY <1>4, <1>5, Zenon

\* A finite set of numbers has a least member.
LEMMA Smallest ==
    ASSUME NEW S \in SUBSET Int, IsFiniteSet(S), S # {}
    PROVE  \E m \in S : \A x \in S : m <= x
<1> DEFINE f == [x \in S |-> -x]
           T == {-x : x \in S}
<1>1. T \in SUBSET Int /\ T # {}
  <2>1. \A x \in S : -x \in Int
    OBVIOUS
  <2> QED
    BY <2>1, Zenon
<1>2. f \in Surjection(S, T)
  BY Zenon DEF Surjection
<1>3. IsFiniteSet(T)
  <2> HIDE DEF f, T
  <2> QED
    BY <1>2, FS_Surjection, Zenon
<1>4. PICK m \in T : \A x \in T : x <= m
  <2> HIDE DEF T
  <2> QED
    BY <1>1, <1>3, Greatest, Zenon
<1>5. PICK k \in S : m = -k
  BY <1>4, Zenon
<1>6. \A x \in S : -x <= -k
  BY <1>4, <1>5, Zenon
<1> QED
  BY <1>5, <1>6

\* Max and Min of FiniteSetsExt are the greatest and the least member.
LEMMA MaxOfFinite ==
    ASSUME NEW S \in SUBSET Int, IsFiniteSet(S), S # {}
    PROVE  Max(S) \in S /\ \A x \in S : x <= Max(S)
<1>1. \E m \in S : \A x \in S : m >= x
  BY Greatest, Zenon
<1> QED
  BY Zenon, <1>1 DEF Max

\* The same of Min.
LEMMA MinOfFinite ==
    ASSUME NEW S \in SUBSET Int, IsFiniteSet(S), S # {}
    PROVE  Min(S) \in S /\ \A x \in S : Min(S) <= x
<1>1. \E m \in S : \A x \in S : m <= x
  BY Smallest, Zenon
<1> QED
  BY Zenon, <1>1 DEF Min

\* Ascending lists all members of a finite set of numbers, each once, in order.
LEMMA AscendingOfFinite ==
    ASSUME NEW S \in SUBSET Int, IsFiniteSet(S)
    PROVE  /\ Cardinality(S) \in Nat
           /\ Ascending(S) \in [1..Cardinality(S) -> S]
           /\ \A i, j \in 1..Cardinality(S) : i < j => Ascending(S)[i] < Ascending(S)[j]
           /\ \A x \in S : \E i \in 1..Cardinality(S) : Ascending(S)[i] = x
<1> DEFINE Sorts(s, T) == \A i, j \in 1..Cardinality(T) : i < j => s[i] < s[j]
           P(n) == \A T \in SUBSET Int :
                     IsFiniteSet(T) /\ Cardinality(T) = n
                       => \E s \in [1..Cardinality(T) -> T] : Sorts(s, T)
           A == {n \in Nat : P(n)}
<1>1. 0 \in A
  <2> SUFFICES ASSUME NEW T \in SUBSET Int, IsFiniteSet(T), Cardinality(T) = 0
               PROVE  \E s \in [1..Cardinality(T) -> T] : Sorts(s, T)
    BY Zenon
  <2> WITNESS << >> \in [1..Cardinality(T) -> T]
  <2> QED
    OBVIOUS
<1>2. ASSUME NEW n \in A PROVE n + 1 \in A
  <2> SUFFICES ASSUME NEW T \in SUBSET Int, IsFiniteSet(T), Cardinality(T) = n + 1
               PROVE  \E s \in [1..(n + 1) -> T] :
                        \A i, j \in 1..(n + 1) : i < j => s[i] < s[j]
    OBVIOUS
  <2>1. n \in Nat /\ T # {}
    BY FS_EmptySet
  <2>2. PICK m \in T : \A x \in T : x <= m
    BY <2>1, Greatest, Zenon
  <2>3. T \ {m} \in SUBSET Int /\ IsFiniteSet(T \ {m}) /\ Cardinality(T \ {m}) = n
    <3>1. IsFiniteSet(T \ {m}) /\ Cardinality(T \ {m}) = (n + 1) - 1
      BY <2>2, FS_RemoveElement, Zenon
    <3> QED
      BY <2>1, <3>1
  <2>4. PICK s \in [1..n -> T \ {m}] : \A i, j \in 1..n : i < j => s[i] < s[j]
    BY Zenon, <2>3
  <2> DEFINE t == [i \in 1..(n + 1) |-> IF i = n + 1 THEN m ELSE s[i]]
  <2>5. t \in [1..(n + 1) -> T]
    BY <2>1, <2>2, <2>4
  <2>6. ASSUME NEW i \in 1..(n + 1), NEW j \in 1..(n + 1), i < j PROVE t[i] < t[j]
    <3>1. i \in 1..n /\ t[i] = s[i] /\ s[i] \in T \ {m}
      BY <2>1, <2>4, <2>6
    <3>2. CASE j = n + 1
      <4>1. t[j] = m /\ m \in Int /\ s[i] \in Int
        BY Zenon, <3>1, <3>2
      <4>2. s[i] <= m /\ s[i] # m
        BY Zenon, <2>2, <3>1
      <4> QED
        BY <3>1, <4>1, <4>2
    <3>3. CASE j # n + 1
      BY <2>1, <2>4, <2>6, <3>1, <3>3
    <3> QED
      BY <3>2, <3>3, Zenon
  <2> HIDE DEF t
  <2> QED
    BY <2>5, <2>6, Zenon
<1> HIDE DEF P
<1>3. A = Nat
  BY Zenon, <1>1, <1>2, NatSetInduction
<1>4. Cardinality(S) \in Nat /\ P(Cardinality(S))
  BY <1>3, FS_CardinalityType, Zenon
<1>5. \E s \in [1..Cardinality(S) -> S] : \A i, j \in 1..Cardinality(S) : i < j => s[i] < s[j]
  BY <1>4, Zenon DEF P
<1> DEFINE a == Ascending(S)
           N == 1..Cardinality(S)
<1>6. a \in [N -> S] /\ \A i, j \in N : i < j => a[i] < a[j]
  BY <1>5, Zenon DEF Ascending
<1> HIDE DEF a
<1>7. a \in Injection(N, S)
  <2>1. ASSUME NEW i \in N, NEW j \in N, a[i] = a[j] PROVE i = j
    <3>1. i \in Int /\ j \in Int
      BY <1>4
    <3>0. a[i] \in S /\ a[j] \in S
      BY <1>6, Zenon
    <3>5. a[i] \in Int /\ a[j] \in Int
      BY Zenon, <3>0
    <3>2. ~(i < j) /\ ~(j < i)
      BY <1>6, <2>1, <3>1, <3>5
    <3> QED
      BY <3>1, <3>2
  <2> HIDE DEF N
  <2> QED
    BY <1>6, <2>1, Zenon DEF Injection, IsInjective
<1>8. IsFiniteSet(N) /\ Cardinality(N) = Cardinality(S)
  BY <1>4, FS_Interval
<1> HIDE DEF N
<1>9. a \in Surjection(N, S)
  BY <1>7, <1>8, FS_Injection, Zenon
<1>10. \A x \in S : \E i \in N : a[i] = x
  BY <1>9, Zenon DEF Surjection
<1> QED
  BY <1>4, <1>6, <1>10, Zenon DEF a, N

\* The facts of finite sets that the layers were given hold of every group of replicas.
LEMMA GroundHolds == Ground
<1>1. IsFiniteSet(Replica) /\ IsFiniteSet(Write)
  BY ReplicatedPartitionAssumption, Zenon
<1>2. ASSUME NEW S \in SUBSET Write
      PROVE  /\ Cardinality(S) \in Nat /\ Cardinality(S) <= Cardinality(Write)
             /\ \A w \in Write \ S : Cardinality(S \cup {w}) = Cardinality(S) + 1
  <2>1. IsFiniteSet(S) /\ Cardinality(S) \in Nat /\ Cardinality(S) <= Cardinality(Write)
    BY <1>1, FS_Subset, FS_CardinalityType, Zenon
  <2> QED
    BY <2>1, FS_AddElement, Zenon
<1>3. ASSUME NEW Q \in Majority, NEW R \in Majority
      PROVE  \E q \in Replica : q \in Q /\ q \in R
  <2>1. IsFiniteSet(Q) /\ IsFiniteSet(R) /\ Q \subseteq Replica /\ R \subseteq Replica
    BY <1>1, FS_Subset, Zenon DEF Majority
  <2>2. Cardinality(Q) \in Nat /\ Cardinality(R) \in Nat /\ Cardinality(Replica) \in Nat
    BY <1>1, <2>1, FS_CardinalityType, Zenon
  <2>3. 2 * Cardinality(Q) > Cardinality(Replica) /\ 2 * Cardinality(R) > Cardinality(Replica)
    BY Zenon DEF Majority
  <2>4. Cardinality(Q) + Cardinality(R) > Cardinality(Replica)
    BY <2>2, <2>3
  <2>5. Q \cap R # {}
    BY <1>1, <2>1, <2>4, FS_MajoritiesIntersect, Zenon
  <2> QED
    BY <2>1, <2>5, Zenon
<1>4. Replica # {} => Replica \in Majority
  <2>1. Cardinality(Replica) \in Nat /\ (Replica # {} => Cardinality(Replica) # 0)
    BY <1>1, FS_CardinalityType, FS_EmptySet, Zenon
  <2> QED
    BY <2>1 DEF Majority
<1>5. ASSUME NEW f \in [Replica -> Nat], Replica # {}
      PROVE  LET T == {f[q] : q \in Replica} IN Max(T) \in T /\ \A x \in T : x <= Max(T)
  <2> DEFINE T == {f[q] : q \in Replica}
  <2>1. T \in SUBSET Int /\ T # {}
    BY <1>5
  <2>2. f \in Surjection(Replica, T)
    BY Zenon DEF Surjection
  <2> HIDE DEF T
  <2>3. IsFiniteSet(T)
    BY <1>1, <2>2, FS_Surjection, Zenon
  <2>4. Max(T) \in T /\ \A x \in T : x <= Max(T)
    BY <2>1, <2>3, MaxOfFinite, Zenon
  <2> QED
    BY Zenon, <2>4 DEF T
<1>6. ASSUME NEW a \in Nat, NEW b \in Nat, NEW S \in SUBSET (a..b)
      PROVE  /\ Cardinality(S) \in Nat /\ Enumerates(Ascending(S), S)
             /\ S # {} => Max(S) \in S /\ \A x \in S : x <= Max(S)
  <2>1. S \in SUBSET Int /\ a \in Int /\ b \in Int
    OBVIOUS
  <2>2. IsFiniteSet(a..b)
    BY <2>1, FS_Interval, Zenon
  <2>3. IsFiniteSet(S)
    BY Zenon, <2>2, FS_Subset
  <2>4. Cardinality(S) \in Nat /\ Enumerates(Ascending(S), S)
    BY <2>1, <2>3, AscendingOfFinite, Zenon DEF Enumerates
  <2>5. S # {} => Max(S) \in S /\ \A x \in S : x <= Max(S)
    BY <2>1, <2>3, MaxOfFinite, Zenon
  <2> QED
    BY <2>4, <2>5, Zenon
<1> QED
  BY Zenon, <1>2, <1>3, <1>4, <1>5, <1>6 DEF Ground
=============================================================================
