-------------------------- MODULE TransportProofs --------------------------
(***************************************************************************)
(* For queues, windows and frame numbers of any size and any number of     *)
(* sessions, node loops, lost connections and restarts: the registration   *)
(* of a running node loop stays, and a message is delivered once at most.  *)
(***************************************************************************)
EXTENDS Transport, TLAPS

LoopState == {"none", "running", "ended", "left"}

\* The routing table has the node loop that is registered and runs.
RoutingInv ==
    /\ loops \in [Loop -> LoopState]
    /\ attached \in Loop \cup {0} /\ group \in Loop \cup {0}
    /\ attached # 0 => group = attached /\ loops[attached] = "running"

\* Every step keeps it.
LEMMA RoutingStep ==
    ASSUME MaxLoops \in Nat, RoutingInv, [Next]_vars
    PROVE  RoutingInv'
<1> USE DEF RoutingInv, LoopState
<1>0. 0 \notin Loop
  BY DEF Loop
<1>1. CASE Restart
  BY <1>1, Zenon DEF Restart
<1>2. ASSUME NEW s \in Session, RemoveClosed(s) PROVE RoutingInv'
  BY <1>2, Zenon DEF RemoveClosed
<1>3. ASSUME NEW l \in Loop, Register(l) PROVE RoutingInv'
  BY <1>0, <1>3, Zenon DEF Register
<1>4. ASSUME NEW l \in Loop, LoopEnds(l) PROVE RoutingInv'
  BY <1>0, <1>4, Zenon DEF LoopEnds
<1>5. ASSUME NEW l \in Loop, DispatcherEnds(l) PROVE RoutingInv'
  BY <1>0, <1>5, Zenon DEF DispatcherEnds
<1>6. CASE Unregister
  BY <1>6, Zenon DEF Unregister
<1>7. CASE UNCHANGED receiverVars
  BY <1>7, Zenon DEF receiverVars
<1> QED
  BY Zenon, <1>1, <1>2, <1>3, <1>4, <1>5, <1>6, <1>7 DEF Next, vars, Send, Connect, ConnectRefused,
     Handshake, Write, Notice, Close, Reset, Vanish, Read, Eof, HandshakeTimeout

\* A group that is registered and whose node loop runs is routed to until it is
\* unregistered, whatever the dispatchers and the connections of earlier topics of the
\* name still remove.  raft/transport.rs, register, handle_inbound.
THEOREM RegistrationsStay ==
    ASSUME MaxLoops \in Nat PROVE Spec => []RegistrationStays
<1>1. Init => RoutingInv
  BY Zenon DEF Init, RoutingInv, LoopState
<1>2. RoutingInv /\ [Next]_vars => RoutingInv'
  BY RoutingStep, Zenon
<1>3. RoutingInv => RegistrationStays
  BY Zenon DEF RoutingInv, RegistrationStays
<1> QED
  BY <1>1, <1>2, <1>3, PTL DEF Spec

-----------------------------------------------------------------------------
(* Delivery: messages are different, which heartbeats sent again are not *)

Frames     == [message : Nat, seq : Nat]
Deliveries == [message : Nat, session : Session]

Types ==
    /\ sent \in Nat /\ sealed \in Nat
    /\ queue \in Seq(Nat)
    /\ wire \in [Session -> Seq(Frames)]
    /\ received \in Seq(Deliveries)
    /\ session \in Session \cup {0}
    /\ dial # "down" => session \in Session

\* Messages wait in the order they were sent.
QueueOrdered ==
    /\ \A j, k \in 1..Len(queue) : j < k => queue[j] < queue[k]
    /\ \A j \in 1..Len(queue) : queue[j] <= sent

\* The frames of a session are under way in order, and no two sessions carry one message.
WiresOrdered ==
    /\ \A s \in Session : \A j, k \in 1..Len(wire[s]) :
         j < k => wire[s][j].message < wire[s][k].message
    /\ \A s, t \in Session : s # t =>
         \A j \in 1..Len(wire[s]), k \in 1..Len(wire[t]) :
            wire[s][j].message # wire[t][k].message
    /\ \A s \in Session : \A j \in 1..Len(wire[s]) :
         /\ wire[s][j].message <= sent
         /\ \A k \in 1..Len(queue) : wire[s][j].message < queue[k]

\* What was delivered is not under way again, and comes before what is in its session.
DeliveredBefore ==
    \A j \in 1..Len(received) :
       /\ received[j].message <= sent
       /\ \A k \in 1..Len(queue) : received[j].message < queue[k]
       /\ \A s \in Session : \A k \in 1..Len(wire[s]) :
            /\ received[j].message # wire[s][k].message
            /\ received[j].session = s => received[j].message < wire[s][k].message

DeliveryInv ==
    Types /\ QueueOrdered /\ WiresOrdered /\ DeliveredBefore /\ AtMostOnceInOrder

\* What is queued or under way is kept or lost.
Keeps ==
    /\ UNCHANGED <<sent, received>>
    /\ queue' = queue \/ queue' = << >>
    /\ \A s \in Session : wire'[s] = wire[s] \/ wire'[s] = << >>

-----------------------------------------------------------------------------
(* Sequences *)

\* What Append does.
LEMMA AppendFacts ==
    ASSUME NEW S, NEW q \in Seq(S), NEW e \in S
    PROVE  /\ Append(q, e) \in Seq(S)
           /\ Len(q) \in Nat /\ Len(Append(q, e)) = Len(q) + 1
           /\ Append(q, e)[Len(q) + 1] = e
           /\ \A j \in 1..Len(q) : Append(q, e)[j] = q[j]
           /\ \A j \in 1..(Len(q) + 1) : j \in 1..Len(q) \/ j = Len(q) + 1
OBVIOUS

\* What Head and Tail do.
LEMMA TailFacts ==
    ASSUME NEW S, NEW q \in Seq(S), q # << >>
    PROVE  /\ Tail(q) \in Seq(S)
           /\ 1 \in 1..Len(q) /\ Head(q) = q[1] /\ Head(q) \in S
           /\ \A j \in 1..Len(Tail(q)) :
                j \in Nat /\ j + 1 \in 1..Len(q) /\ Tail(q)[j] = q[j + 1]
OBVIOUS

\* Elements have their types.
LEMMA Elements ==
    ASSUME Types
    PROVE  /\ \A j \in 1..Len(queue) : queue[j] \in Nat
           /\ \A s \in Session : \A j \in 1..Len(wire[s]) :
                wire[s][j] \in Frames /\ wire[s][j].message \in Nat
           /\ \A j \in 1..Len(received) : received[j].message \in Nat
<1>1. \A j \in 1..Len(queue) : queue[j] \in Nat
  BY DEF Types
<1>2. ASSUME NEW s \in Session, NEW j \in 1..Len(wire[s])
      PROVE  wire[s][j] \in Frames /\ wire[s][j].message \in Nat
  <2>1. wire[s] \in Seq(Frames)
    BY Zenon DEF Types
  <2>2. wire[s][j] \in Frames
    BY <2>1
  <2> QED
    BY <2>2, Zenon DEF Frames
<1>3. ASSUME NEW j \in 1..Len(received) PROVE received[j].message \in Nat
  <2>1. received[j] \in Deliveries
    BY DEF Types
  <2> QED
    BY <2>1, Zenon DEF Deliveries
<1> QED
  BY <1>1, <1>2, <1>3, Zenon

-----------------------------------------------------------------------------
(* The steps *)

\* A message is numbered after those before it.
LEMMA SendStep ==
    ASSUME ~Resend, DeliveryInv, Send
    PROVE  DeliveryInv'
<1>0. Types /\ QueueOrdered /\ WiresOrdered /\ DeliveredBefore /\ AtMostOnceInOrder
  BY Zenon DEF DeliveryInv
<1>1. /\ sent \in Nat /\ sent' = sent + 1
      /\ queue' = queue \/ queue' = Append(queue, sent + 1)
      /\ UNCHANGED <<wire, received, session, dial, sealed>>
  BY <1>0, Zenon DEF Send, Types
<1>2. \A j \in 1..Len(queue') :
        \/ j \in 1..Len(queue) /\ queue'[j] = queue[j]
        \/ j = Len(queue) + 1 /\ queue'[j] = sent + 1
  <2>1. queue \in Seq(Nat) /\ sent + 1 \in Nat
    BY <1>0, <1>1 DEF Types
  <2>2. CASE queue' = queue
    BY <2>2, Zenon
  <2>3. CASE queue' = Append(queue, sent + 1)
    <3>1. /\ Len(queue') = Len(queue) + 1 /\ queue'[Len(queue) + 1] = sent + 1
          /\ \A j \in 1..Len(queue) : queue'[j] = queue[j]
          /\ \A j \in 1..(Len(queue) + 1) : j \in 1..Len(queue) \/ j = Len(queue) + 1
      BY <2>1, <2>3, AppendFacts
    <3> QED
      BY <3>1, Zenon
  <2> QED
    BY <1>1, <2>2, <2>3, Zenon
<1>3. Types'
  <2>1. queue \in Seq(Nat) /\ sent' \in Nat
    BY <1>0, <1>1 DEF Types
  <2>2. queue' \in Seq(Nat)
    BY <1>1, <2>1, AppendFacts
  <2> QED
    BY <1>0, <1>1, <2>1, <2>2, Zenon DEF Types
<1>4. QueueOrdered'
  <2>1. Len(queue) \in Nat
    BY <1>0 DEF Types
  <2>2. \A j \in 1..Len(queue) : queue[j] \in Nat /\ queue[j] <= sent
    BY <1>0, Elements, Zenon DEF QueueOrdered
  <2>3. ASSUME NEW j \in 1..Len(queue'), NEW k \in 1..Len(queue'), j < k
        PROVE  queue'[j] < queue'[k]
    BY <1>0, <1>1, <1>2, <2>1, <2>2, <2>3 DEF QueueOrdered
  <2>4. ASSUME NEW j \in 1..Len(queue') PROVE queue'[j] <= sent'
    BY <1>1, <1>2, <2>2
  <2> QED
    BY <2>3, <2>4, Zenon DEF QueueOrdered
<1>5. WiresOrdered'
  <2>1. ASSUME NEW s \in Session, NEW j \in 1..Len(wire[s])
        PROVE  /\ wire[s][j].message <= sent'
               /\ \A k \in 1..Len(queue') : wire[s][j].message < queue'[k]
    <3>1. wire[s][j].message \in Nat /\ wire[s][j].message <= sent
      BY <1>0, Elements, Zenon DEF WiresOrdered
    <3>2. \A k \in 1..Len(queue) : wire[s][j].message < queue[k]
      BY <1>0, Zenon DEF WiresOrdered
    <3> QED
      BY SMTT(30), <1>1, <1>2, <3>1, <3>2
  <2> QED
    BY <1>0, <1>1, <2>1 DEF WiresOrdered
<1>6. DeliveredBefore'
  <2>1. ASSUME NEW j \in 1..Len(received)
        PROVE  /\ received[j].message <= sent'
               /\ \A k \in 1..Len(queue') : received[j].message < queue'[k]
    <3>1. received[j].message \in Nat /\ received[j].message <= sent
      BY <1>0, Elements, Zenon DEF DeliveredBefore
    <3>2. \A k \in 1..Len(queue) : received[j].message < queue[k]
      BY <1>0, Zenon DEF DeliveredBefore
    <3> QED
      BY <1>1, <1>2, <3>1, <3>2
  <2> QED
    BY <1>0, <1>1, <2>1 DEF DeliveredBefore
<1>7. AtMostOnceInOrder'
  BY <1>0, <1>1, Zenon DEF AtMostOnceInOrder
<1> QED
  BY <1>3, <1>4, <1>5, <1>6, <1>7, Zenon DEF DeliveryInv

\* A frame is taken from the queue before it is written, and not put back.
LEMMA WriteStep ==
    ASSUME SeqSpace \in Nat \ {0}, DeliveryInv, Write
    PROVE  DeliveryInv'
<1>0. Types /\ QueueOrdered /\ WiresOrdered /\ DeliveredBefore /\ AtMostOnceInOrder
  BY Zenon DEF DeliveryInv
<1>1. /\ session \in Session /\ queue \in Seq(Nat) /\ queue # << >>
      /\ sent \in Nat /\ sealed \in Nat
      /\ UNCHANGED <<sent, received, session, dial>>
      /\ queue' = Tail(queue)
      /\ wire' = wire \/ wire' = [wire EXCEPT ![session] = Append(wire[session], Frame)]
      /\ sealed' = (sealed + 1) % SeqSpace
  BY <1>0, Zenon DEF Write, Types
<1>2. /\ queue' \in Seq(Nat) /\ 1 \in 1..Len(queue)
      /\ \A j \in 1..Len(queue') :
           j \in Nat /\ j + 1 \in 1..Len(queue) /\ queue'[j] = queue[j + 1]
      /\ Head(queue) = queue[1] /\ Head(queue) \in Nat
  BY <1>1, TailFacts, Zenon
<1>3. Frame \in Frames /\ Frame.message = queue[1] /\ queue[1] \in Nat
  BY <1>1, <1>2, Zenon DEF Frame, Frames
<1>4. Types'
  <2>1. wire' \in [Session -> Seq(Frames)]
    <3>1. wire \in [Session -> Seq(Frames)] /\ wire[session] \in Seq(Frames)
      BY <1>0, <1>1, Zenon DEF Types
    <3>2. Append(wire[session], Frame) \in Seq(Frames)
      BY <1>3, <3>1, AppendFacts, Zenon
    <3> QED
      BY Zenon, <1>1, <3>1, <3>2
  <2>2. sealed' \in Nat
    BY <1>1
  <2> QED
    BY <1>0, <1>1, <1>2, <2>1, <2>2, Zenon DEF Types
<1>5. ASSUME NEW s \in Session, NEW j \in 1..Len(wire'[s])
      PROVE  \/ j \in 1..Len(wire[s]) /\ wire'[s][j] = wire[s][j]
             \/ s = session /\ j = Len(wire[s]) + 1 /\ wire'[s][j] = Frame
  <2>1. wire[s] \in Seq(Frames)
    BY <1>0, Zenon DEF Types
  <2>2. CASE wire'[s] = wire[s]
    BY <2>2, Zenon
  <2>3. CASE s = session /\ wire'[s] = Append(wire[s], Frame)
    BY <1>3, <2>1, <2>3, AppendFacts
  <2> QED
    BY <1>0, <1>1, <2>2, <2>3, Zenon DEF Types
<1>6. \A j \in 1..Len(queue') : queue[1] < queue'[j]
  BY <1>0, <1>2 DEF QueueOrdered
<1>7. QueueOrdered'
  BY <1>0, <1>1, <1>2 DEF QueueOrdered
<1>8. \A s \in Session : \A j \in 1..Len(wire[s]) : wire[s][j].message < queue[1]
  BY <1>0, <1>2, Zenon DEF WiresOrdered
<1>9. \A s \in Session : \A j \in 1..Len(wire[s]) : j \in Nat /\ j <= Len(wire[s]) /\ Len(wire[s]) \in Nat
  BY <1>0 DEF Types
<1>10. WiresOrdered'
  <2>1. ASSUME NEW s \in Session, NEW j \in 1..Len(wire'[s]), NEW k \in 1..Len(wire'[s]), j < k
        PROVE  wire'[s][j].message < wire'[s][k].message
    <3>1. CASE j \in 1..Len(wire[s]) /\ k \in 1..Len(wire[s])
      <4>1. wire'[s][j] = wire[s][j] /\ wire'[s][k] = wire[s][k]
        BY <1>5, <1>9, <3>1
      <4> QED
        BY <1>0, <2>1, <3>1, <4>1, Zenon DEF WiresOrdered
    <3>2. CASE j \in 1..Len(wire[s]) /\ k \notin 1..Len(wire[s])
      <4>1. wire'[s][j] = wire[s][j] /\ wire'[s][k] = Frame
        BY <1>5, <1>9, <3>2, Zenon
      <4> QED
        BY <1>3, <1>8, <3>2, <4>1, Zenon
    <3>3. CASE j \notin 1..Len(wire[s])
      <4>1. /\ j = Len(wire[s]) + 1 /\ Len(wire[s]) \in Nat
            /\ k \in 1..Len(wire[s]) \/ k = Len(wire[s]) + 1
        BY <1>0, <1>5, <3>3 DEF Types
      <4> QED
        BY <2>1, <4>1
    <3> QED
      BY <3>1, <3>2, <3>3, Zenon
  <2>2. ASSUME NEW s \in Session, NEW t \in Session, s # t,
               NEW j \in 1..Len(wire'[s]), NEW k \in 1..Len(wire'[t])
        PROVE  wire'[s][j].message # wire'[t][k].message
    <3>1. CASE j \in 1..Len(wire[s]) /\ wire'[s][j] = wire[s][j]
      <4>1. CASE k \in 1..Len(wire[t]) /\ wire'[t][k] = wire[t][k]
        BY <1>0, <2>2, <3>1, <4>1, Zenon DEF WiresOrdered
      <4>2. CASE wire'[t][k] = Frame
        BY <1>0, <1>3, <1>8, <3>1, <4>2, Elements
      <4> QED
        BY <1>5, <4>1, <4>2, Zenon
    <3>2. CASE s = session /\ wire'[s][j] = Frame
      <4>1. k \in 1..Len(wire[t]) /\ wire'[t][k] = wire[t][k]
        BY <1>5, <2>2, <3>2, Zenon
      <4> QED
        BY <1>0, <1>3, <1>8, <3>2, <4>1, Elements
    <3> QED
      BY <1>5, <3>1, <3>2, Zenon
  <2>3. ASSUME NEW s \in Session, NEW j \in 1..Len(wire'[s])
        PROVE  wire'[s][j].message <= sent
    BY Zenon, <1>0, <1>2, <1>3, <1>5 DEF WiresOrdered, QueueOrdered
  <2>4. ASSUME NEW s \in Session, NEW j \in 1..Len(wire'[s]), NEW k \in 1..Len(queue')
        PROVE  wire'[s][j].message < queue'[k]
    <3>1. CASE j \in 1..Len(wire[s]) /\ wire'[s][j] = wire[s][j]
      BY <1>0, <1>2, <3>1, Zenon DEF WiresOrdered
    <3>2. CASE wire'[s][j] = Frame
      BY <1>3, <1>6, <3>2, Zenon
    <3> QED
      BY <1>5, <3>1, <3>2, Zenon
  <2> QED
    BY <1>1, <2>1, <2>2, <2>3, <2>4, Zenon DEF WiresOrdered
<1>11. DeliveredBefore'
  <2>1. ASSUME NEW j \in 1..Len(received), NEW s \in Session, NEW k \in 1..Len(wire'[s])
        PROVE  /\ received[j].message # wire'[s][k].message
               /\ received[j].session = s => received[j].message < wire'[s][k].message
    <3>1. received[j].message < queue[1] /\ received[j].message \in Nat
      BY <1>0, <1>2, Elements, Zenon DEF DeliveredBefore
    <3>2. CASE k \in 1..Len(wire[s]) /\ wire'[s][k] = wire[s][k]
      BY <1>0, <3>2, Zenon DEF DeliveredBefore
    <3>3. CASE wire'[s][k] = Frame
      BY <1>3, <3>1, <3>3
    <3> QED
      BY <1>5, <3>2, <3>3, Zenon
  <2>2. ASSUME NEW j \in 1..Len(received), NEW k \in 1..Len(queue')
        PROVE  received[j].message < queue'[k]
    BY Zenon, <1>0, <1>2 DEF DeliveredBefore
  <2> QED
    BY <1>0, <1>1, <2>1, <2>2 DEF DeliveredBefore
<1>12. AtMostOnceInOrder'
  BY <1>0, <1>1, Zenon DEF AtMostOnceInOrder
<1> QED
  BY <1>4, <1>7, <1>10, <1>11, <1>12, Zenon DEF DeliveryInv

\* A frame that was read is gone from the connection.
LEMMA ReadStep ==
    ASSUME NEW s \in Session, DeliveryInv, Read(s)
    PROVE  DeliveryInv'
<1>0. Types /\ QueueOrdered /\ WiresOrdered /\ DeliveredBefore /\ AtMostOnceInOrder
  BY Zenon DEF DeliveryInv
<1> DEFINE delivery == [message |-> Head(wire[s]).message, session |-> s]
<1>1. /\ wire[s] \in Seq(Frames) /\ wire[s] # << >>
      /\ wire' = [wire EXCEPT ![s] = Tail(wire[s])] /\ wire \in [Session -> Seq(Frames)]
      /\ UNCHANGED <<sent, queue, dial, session, sealed>>
      /\ received' = received \/ received' = Append(received, delivery)
      /\ received \in Seq(Deliveries)
  BY <1>0, Zenon DEF Read, Types, senderVars
<1>2. /\ Tail(wire[s]) \in Seq(Frames) /\ 1 \in 1..Len(wire[s])
      /\ Head(wire[s]) = wire[s][1] /\ Head(wire[s]) \in Frames
      /\ \A j \in 1..Len(Tail(wire[s])) :
           j \in Nat /\ j + 1 \in 1..Len(wire[s]) /\ Tail(wire[s])[j] = wire[s][j + 1]
  BY <1>1, TailFacts, Zenon
<1>3. /\ delivery \in Deliveries /\ delivery.message = wire[s][1].message
      /\ delivery.session = s
  BY <1>2, Zenon DEF Frames, Deliveries
<1> HIDE DEF delivery
<1>4. Types'
  <2>1. received' \in Seq(Deliveries)
    <3>1. /\ received \in Seq(Deliveries)
          /\ received' = received \/ received' = Append(received, delivery)
      BY <1>1, Zenon
    <3> QED
      BY <1>3, <3>1, AppendFacts, Zenon
  <2>2. wire' \in [Session -> Seq(Frames)]
    BY <1>1, <1>2, Zenon
  <2> QED
    BY <1>0, <1>1, <2>1, <2>2, Zenon DEF Types
<1>5. \A t \in Session \ {s} : wire'[t] = wire[t]
  BY <1>1, Zenon
<1>6. wire'[s] = Tail(wire[s])
  BY <1>1, Zenon
\* Every frame still under way was there before; those of s were behind the first.
<1>7. ASSUME NEW t \in Session, NEW j \in 1..Len(wire'[t])
      PROVE  \E i \in 1..Len(wire[t]) :
                wire'[t][j] = wire[t][i] /\ (t = s => i = j + 1 /\ j \in Nat)
  <2>1. CASE t = s
    BY Zenon, <1>2, <1>6, <2>1
  <2>2. CASE t # s
    BY <1>5, <2>2, Zenon
  <2> QED
    BY <2>1, <2>2, Zenon
<1>8. QueueOrdered'
  BY <1>0, <1>1, Zenon DEF QueueOrdered
<1>9. WiresOrdered'
  <2>1. ASSUME NEW t \in Session, NEW j \in 1..Len(wire'[t]), NEW k \in 1..Len(wire'[t]), j < k
        PROVE  wire'[t][j].message < wire'[t][k].message
    <3>1. CASE t = s
      <4>1. /\ j \in Nat /\ k \in Nat /\ j + 1 \in 1..Len(wire[s]) /\ k + 1 \in 1..Len(wire[s])
            /\ wire'[t][j] = wire[s][j + 1] /\ wire'[t][k] = wire[s][k + 1]
        BY Zenon, <1>2, <1>6, <3>1
      <4> QED
        BY <1>0, <2>1, <4>1 DEF WiresOrdered
    <3>2. CASE t # s
      BY <1>0, <1>5, <2>1, <3>2, Zenon DEF WiresOrdered
    <3> QED
      BY <3>1, <3>2, Zenon
  <2>2. ASSUME NEW t \in Session, NEW u \in Session, t # u,
               NEW j \in 1..Len(wire'[t]), NEW k \in 1..Len(wire'[u])
        PROVE  wire'[t][j].message # wire'[u][k].message
    <3>1. PICK i \in 1..Len(wire[t]) : wire'[t][j] = wire[t][i]
      BY <1>7, Zenon
    <3>2. PICK l \in 1..Len(wire[u]) : wire'[u][k] = wire[u][l]
      BY <1>7, Zenon
    <3> QED
      BY <1>0, <2>2, <3>1, <3>2 DEF WiresOrdered
  <2>3. ASSUME NEW t \in Session, NEW j \in 1..Len(wire'[t])
        PROVE  /\ wire'[t][j].message <= sent
               /\ \A k \in 1..Len(queue) : wire'[t][j].message < queue[k]
    <3>1. PICK i \in 1..Len(wire[t]) : wire'[t][j] = wire[t][i]
      BY <1>7, Zenon
    <3> QED
      BY <1>0, <3>1, Zenon DEF WiresOrdered
  <2> QED
    BY Zenon, <1>1, <2>1, <2>2, <2>3 DEF WiresOrdered
\* A delivery is an earlier one or the frame just read.
<1>10. ASSUME NEW j \in 1..Len(received')
       PROVE  \/ j \in 1..Len(received) /\ received'[j] = received[j]
              \/ j = Len(received) + 1 /\ received'[j] = delivery /\ Len(received) \in Nat
  <2>1. CASE received' = received
    BY <2>1, Zenon
  <2>2. CASE received' = Append(received, delivery)
    BY <1>1, <1>3, <2>2, AppendFacts
  <2> QED
    BY <1>1, <2>1, <2>2, Zenon
<1>11. DeliveredBefore'
  <2> SUFFICES ASSUME NEW j \in 1..Len(received')
               PROVE  /\ received'[j].message <= sent
                      /\ \A k \in 1..Len(queue) : received'[j].message < queue[k]
                      /\ \A t \in Session : \A k \in 1..Len(wire'[t]) :
                           /\ received'[j].message # wire'[t][k].message
                           /\ received'[j].session = t =>
                                received'[j].message < wire'[t][k].message
    BY Zenon, <1>1 DEF DeliveredBefore
  <2>1. CASE j \in 1..Len(received) /\ received'[j] = received[j]
    <3>1. ASSUME NEW t \in Session, NEW k \in 1..Len(wire'[t])
          PROVE  /\ received[j].message # wire'[t][k].message
                 /\ received[j].session = t => received[j].message < wire'[t][k].message
      <4>1. PICK i \in 1..Len(wire[t]) : wire'[t][k] = wire[t][i]
        BY <1>7, Zenon
      <4> QED
        BY <1>0, <2>1, <4>1, Zenon DEF DeliveredBefore
    <3> QED
      BY <1>0, <2>1, <3>1, Zenon DEF DeliveredBefore
  <2>2. CASE received'[j] = delivery
    <3>1. ASSUME NEW t \in Session, NEW k \in 1..Len(wire'[t])
          PROVE  /\ delivery.message # wire'[t][k].message
                 /\ t = s => delivery.message < wire'[t][k].message
      <4>1. PICK i \in 1..Len(wire[t]) :
              wire'[t][k] = wire[t][i] /\ (t = s => i = k + 1 /\ k \in Nat)
        BY <1>7, Zenon
      <4>2. CASE t = s
        <5>1. 1 < i /\ i \in 1..Len(wire[s])
          BY <4>1, <4>2
        <5>2. wire[s][1].message < wire[s][i].message
          BY <1>0, <1>2, <5>1, Zenon DEF WiresOrdered
        <5>3. wire[s][1].message \in Nat /\ wire[s][i].message \in Nat
          BY <1>0, <1>2, <5>1, Elements, Zenon
        <5> QED
          BY <1>3, <4>1, <4>2, <5>2, <5>3
      <4>3. CASE t # s
        BY <1>0, <1>2, <1>3, <4>1, <4>3 DEF WiresOrdered
      <4> QED
        BY <4>2, <4>3, Zenon
    <3>2. /\ delivery.message <= sent
          /\ \A k \in 1..Len(queue) : delivery.message < queue[k]
      BY <1>0, <1>2, <1>3, Zenon DEF WiresOrdered
    <3> QED
      BY <1>3, <2>2, <3>1, <3>2, Zenon
  <2> QED
    BY <1>10, <2>1, <2>2, Zenon
<1>12. AtMostOnceInOrder'
  <2> SUFFICES ASSUME NEW j \in 1..Len(received'), NEW k \in 1..Len(received'), j < k
               PROVE  /\ received'[j].message # received'[k].message
                      /\ received'[j].session = received'[k].session =>
                           received'[j].message < received'[k].message
    BY Zenon DEF AtMostOnceInOrder
  <2>0. Len(received) \in Nat
    BY <1>1
  <2>1. j \in 1..Len(received) /\ received'[j] = received[j]
    BY <1>10, <2>0
  <2>2. CASE k \in 1..Len(received) /\ received'[k] = received[k]
    BY <1>0, <2>1, <2>2, Zenon DEF AtMostOnceInOrder
  <2>3. CASE received'[k] = delivery
    BY <1>0, <1>2, <1>3, <2>1, <2>3 DEF DeliveredBefore
  <2> QED
    BY <1>10, <2>2, <2>3, Zenon
<1> QED
  BY <1>4, <1>8, <1>9, <1>11, <1>12, Zenon DEF DeliveryInv

\* Losing what is queued or under way breaks nothing.
LEMMA KeepsStep ==
    ASSUME DeliveryInv, Keeps, Types'
    PROVE  DeliveryInv'
<1>0. QueueOrdered /\ WiresOrdered /\ DeliveredBefore /\ AtMostOnceInOrder
  BY Zenon DEF DeliveryInv
<1>1. /\ UNCHANGED <<sent, received>>
      /\ \A j \in 1..Len(queue') : j \in 1..Len(queue) /\ queue'[j] = queue[j]
      /\ \A s \in Session : \A j \in 1..Len(wire'[s]) :
            j \in 1..Len(wire[s]) /\ wire'[s][j] = wire[s][j]
  BY DEF Keeps
<1>2. QueueOrdered'
  BY <1>0, <1>1, Zenon DEF QueueOrdered
<1>3. WiresOrdered'
  <2>1. ASSUME NEW s \in Session, NEW j \in 1..Len(wire'[s]), NEW k \in 1..Len(wire'[s]), j < k
        PROVE  wire'[s][j].message < wire'[s][k].message
    BY <1>0, <1>1, <2>1, Zenon DEF WiresOrdered
  <2>2. ASSUME NEW s \in Session, NEW t \in Session, s # t,
               NEW j \in 1..Len(wire'[s]), NEW k \in 1..Len(wire'[t])
        PROVE  wire'[s][j].message # wire'[t][k].message
    <3>1. /\ j \in 1..Len(wire[s]) /\ wire'[s][j] = wire[s][j]
          /\ k \in 1..Len(wire[t]) /\ wire'[t][k] = wire[t][k]
      BY <1>1, Zenon
    <3>2. wire[s][j].message # wire[t][k].message
      BY <1>0, <2>2, <3>1, Zenon DEF WiresOrdered
    <3> QED
      BY <3>1, <3>2, Zenon
  <2>3. ASSUME NEW s \in Session, NEW j \in 1..Len(wire'[s])
        PROVE  /\ wire'[s][j].message <= sent'
               /\ \A k \in 1..Len(queue') : wire'[s][j].message < queue'[k]
    BY <1>0, <1>1, Zenon DEF WiresOrdered
  <2> QED
    BY <2>1, <2>2, <2>3, Zenon DEF WiresOrdered
<1>4. DeliveredBefore'
  <2>1. ASSUME NEW j \in 1..Len(received), NEW s \in Session, NEW k \in 1..Len(wire'[s])
        PROVE  /\ received[j].message # wire'[s][k].message
               /\ received[j].session = s => received[j].message < wire'[s][k].message
    BY SMTT(30), <1>0, <1>1 DEF DeliveredBefore
  <2>2. ASSUME NEW j \in 1..Len(received)
        PROVE  /\ received[j].message <= sent'
               /\ \A k \in 1..Len(queue') : received[j].message < queue'[k]
    BY <1>0, <1>1, Zenon DEF DeliveredBefore
  <2> QED
    BY <1>1, <2>1, <2>2 DEF DeliveredBefore
<1>5. AtMostOnceInOrder'
  BY <1>0, <1>1, Zenon DEF AtMostOnceInOrder
<1> QED
  BY <1>2, <1>3, <1>4, <1>5, Zenon DEF DeliveryInv

\* Every step but Send, Write and Read keeps or loses what there is.
LEMMA OtherSteps ==
    ASSUME MaxSessions \in Nat, Types, [Next]_vars, ~Send, ~Write,
           ~\E s \in Session : Read(s)
    PROVE  Keeps /\ Types'
<1> USE DEF Types, Keeps, senderVars
<1>1. CASE Connect
  BY <1>1 DEF Connect, Session
<1>2. CASE ConnectRefused \/ Handshake \/ Notice \/ Close
  <2>1. /\ UNCHANGED <<sent, session, wire, received>>
        /\ queue' = queue \/ queue' = << >>
        /\ sealed' = sealed \/ sealed' = 0
        /\ dial' = dial \/ dial' = "down" \/ dial = "hello"
    BY <1>2, Zenon DEF ConnectRefused, Handshake, Notice, Close, Hangup, Fault
  <2>2. queue' \in Seq(Nat)
    <3>1. queue \in Seq(Nat) /\ << >> \in Seq(Nat)
      OBVIOUS
    <3> QED
      BY Zenon, <2>1, <3>1
  <2>3. sealed' \in Nat
    BY <2>1
  <2>4. dial' # "down" => session' \in Session
    BY <2>1, Zenon
  <2> QED
    BY <2>1, <2>2, <2>3, <2>4, Zenon
<1>3. CASE Reset \/ Vanish
  <2>1. session # 0 /\ UNCHANGED <<senderVars, received>>
    BY <1>3, Zenon DEF Reset, Vanish
  <2>2. wire' = [wire EXCEPT ![session] = << >>]
    BY <1>3, Zenon DEF Reset, Vanish
  <2> QED
    BY <2>1, <2>2
<1>4. CASE Restart
  BY <1>4 DEF Restart, Fault
<1>5. CASE UNCHANGED <<senderVars, wire, received>>
  BY <1>5, Zenon
<1> QED
  BY <1>1, <1>2, <1>3, <1>4, <1>5, Zenon DEF Next, vars, RemoveClosed, Eof, HandshakeTimeout,
     Register, LoopEnds, DispatcherEnds, Unregister

-----------------------------------------------------------------------------
(* Numbers: the next frame of a connection opens *)

Links == {"up", "closed", "reset", "silent"}

\* The frames under way in session s follow each other, and the first one opens.
Chained(s) ==
    \A k \in 1..Len(wire[s]) :
       wire[s][k].seq = IF k = 1 THEN opened[s] ELSE (wire[s][k - 1].seq + 1) % SeqSpace

\* The number that opens after those of the frames under way in session s.
NextSeq(s) ==
    IF wire[s] = << >> THEN opened[s] ELSE (wire[s][Len(wire[s])].seq + 1) % SeqSpace

\* Nothing is under way before the handshake, and the dialer seals what opens next.
Numbered ==
    /\ dial \in {"down", "hello", "open"}
    /\ link \in [Session -> Links] /\ opened \in [Session -> Nat]
    /\ \A s \in Session : s > session => wire[s] = << >>
    /\ dial = "hello" => wire[session] = << >>
    /\ \A s \in Session : Chained(s)
    /\ dial = "open" /\ link[session] = "up" => sealed = NextSeq(session)

\* A frame is written with the number that opens next.
LEMMA NumberWrite ==
    ASSUME Types, Numbered, Write, SeqSpace \in Nat \ {0}
    PROVE  Numbered'
<1>0. /\ session \in Session /\ dial = "open" /\ dial' = dial /\ session' = session
      /\ link' = link /\ opened' = opened /\ sealed' = (sealed + 1) % SeqSpace
  BY Zenon DEF Write, Types
<1>1. CASE link[session] = "up"
  <2> DEFINE w == wire[session]
  <2>1. w \in Seq(Frames) /\ Head(queue) \in Nat /\ sealed \in Nat
    BY <1>0 DEF Types, Write
  <2>2. Frame \in Frames /\ Frame.seq = sealed
    BY <2>1, Zenon DEF Frame, Frames
  <2>3. wire' = [wire EXCEPT ![session] = Append(w, Frame)]
    BY <1>1, Zenon DEF Write
  <2>4. /\ wire'[session] = Append(w, Frame)
        /\ \A s \in Session : s # session => wire'[s] = wire[s]
    BY <1>0, <2>3, Zenon DEF Types
  <2> DEFINE v == wire'[session]
  <2>5. /\ Len(w) \in Nat /\ Len(v) = Len(w) + 1 /\ v[Len(w) + 1] = Frame
        /\ \A j \in 1..Len(w) : v[j] = w[j]
    BY <2>1, <2>2, <2>4, AppendFacts
  <2>6. sealed = NextSeq(session) /\ Chained(session)
    BY <1>0, <1>1, Zenon DEF Numbered
  <2>7. \A k \in 1..Len(v) :
           v[k].seq = IF k = 1 THEN opened[session] ELSE (v[k - 1].seq + 1) % SeqSpace
    <3> SUFFICES ASSUME NEW k \in 1..Len(v)
                 PROVE  v[k].seq = IF k = 1 THEN opened[session]
                                   ELSE (v[k - 1].seq + 1) % SeqSpace
      BY Zenon
    <3>1. CASE k \in 1..Len(w)
      <4>1. k # 1 => k - 1 \in 1..Len(w)
        BY <2>5, <3>1
      <4> QED
        BY Zenon, <2>5, <2>6, <3>1, <4>1 DEF Chained
    <3>2. CASE k = Len(w) + 1 /\ w = << >>
      BY <2>1, <2>2, <2>5, <2>6, <3>2 DEF NextSeq
    <3>3. CASE k = Len(w) + 1 /\ w # << >>
      <4>1. Len(w) \in 1..Len(w) /\ k - 1 = Len(w) /\ k # 1
        BY <2>1, <2>5, <3>3
      <4>2. v[k].seq = (w[Len(w)].seq + 1) % SeqSpace
        BY <2>2, <2>5, <2>6, <3>3, Zenon DEF NextSeq
      <4> QED
        BY <2>5, <4>1, <4>2, Zenon
    <3> QED
      BY <2>5, <3>1, <3>2, <3>3
  <2>8. sealed' = NextSeq(session)'
    <3>1. v # << >> /\ v[Len(v)].seq = sealed
      BY <2>2, <2>5
    <3> QED
      BY <1>0, <3>1, Zenon DEF NextSeq
  <2>9. ASSUME NEW s \in Session PROVE Chained(s)'
    <3>1. CASE s = session
      BY <1>0, <2>7, <3>1, Zenon DEF Chained
    <3>2. CASE s # session
      <4>1. wire'[s] = wire[s] /\ opened'[s] = opened[s] /\ Chained(s)
        BY <1>0, <2>4, <3>2, Zenon DEF Numbered
      <4> QED
        BY <4>1, Zenon DEF Chained
    <3> QED
      BY <3>1, <3>2, Zenon
  <2> QED
    BY <1>0, <2>4, <2>8, <2>9 DEF Numbered, Types, Session
<1>2. CASE link[session] # "up"
  <2>1. wire' = wire
    BY <1>2, Zenon DEF Write
  <2> QED
    BY <1>0, <1>2, <2>1 DEF Numbered, Chained
<1> QED
  BY <1>1, <1>2, Zenon

\* The frame that opened leaves the others in their turn.
LEMMA NumberRead ==
    ASSUME Types, Numbered, NEW s \in Session, Read(s), SeqSpace \in Nat \ {0}
    PROVE  Numbered'
<1> DEFINE w == wire[s]
           v == Tail(w)
<1>0. /\ session' = session /\ dial' = dial /\ link' = link /\ sealed' = sealed
      /\ wire' = [wire EXCEPT ![s] = Tail(@)]
      /\ opened' = [opened EXCEPT ![s] = (@ + 1) % SeqSpace]
      /\ w # << >> /\ Head(w).seq = opened[s]
  BY Zenon DEF Read, senderVars
<1>1. /\ wire'[s] = v /\ opened'[s] = (opened[s] + 1) % SeqSpace
      /\ \A q \in Session : q # s => wire'[q] = wire[q] /\ opened'[q] = opened[q]
  BY <1>0, Zenon DEF Types, Numbered
<1>2. w \in Seq(Frames) /\ Len(w) \in Nat /\ v \in Seq(Frames) /\ Len(v) = Len(w) - 1
      /\ Head(w) = w[1] /\ Len(w) >= 1
      /\ \A j \in 1..Len(v) : j \in Nat /\ j + 1 \in 1..Len(w) /\ v[j] = w[j + 1]
  <2>1. w \in Seq(Frames)
    BY Zenon DEF Types
  <2> QED
    BY <1>0, <2>1
<1>3. opened' \in [Session -> Nat]
  BY <1>0 DEF Numbered
<1>4. \A j \in 1..Len(w) :
         w[j].seq = IF j = 1 THEN opened[s] ELSE (w[j - 1].seq + 1) % SeqSpace
  BY Zenon DEF Numbered, Chained
<1>5. ASSUME NEW k \in 1..Len(v)
      PROVE  v[k].seq = IF k = 1 THEN opened'[s] ELSE (v[k - 1].seq + 1) % SeqSpace
  <2>1. v[k].seq = (w[k].seq + 1) % SeqSpace
    <3>1. k + 1 \in 1..Len(w) /\ k + 1 # 1 /\ (k + 1) - 1 = k /\ v[k] = w[k + 1]
      BY <1>2
    <3> QED
      BY <1>4, <3>1, Zenon
  <2>2. CASE k = 1
    BY <1>0, <1>1, <1>2, <2>1, <2>2, Zenon
  <2>3. CASE k # 1
    <3>1. k - 1 \in 1..Len(v) /\ (k - 1) + 1 = k
      BY <1>2, <2>3
    <3>2. v[k - 1] = w[k]
      BY <1>2, <3>1, Zenon
    <3> QED
      BY <2>1, <2>3, <3>2, Zenon
  <2> QED
    BY <2>2, <2>3, Zenon
<1>6. ASSUME NEW q \in Session PROVE Chained(q)'
  <2>1. CASE q = s
    BY <1>1, <1>5, <2>1, Zenon DEF Chained
  <2>2. CASE q # s
    <3>1. wire'[q] = wire[q] /\ opened'[q] = opened[q] /\ Chained(q)
      BY <1>1, <2>2, Zenon DEF Numbered
    <3> QED
      BY <3>1, Zenon DEF Chained
  <2> QED
    BY <2>1, <2>2, Zenon
<1>7. NextSeq(s)' = NextSeq(s)
  <2>1. CASE Len(w) = 1
    <3>1. v = << >> /\ w[Len(w)].seq = opened[s]
      BY <1>0, <1>2, <2>1
    <3>2. NextSeq(s)' = (opened[s] + 1) % SeqSpace
      BY <1>1, <3>1, Zenon DEF NextSeq
    <3>3. NextSeq(s) = (opened[s] + 1) % SeqSpace
      BY <1>0, <3>1, Zenon DEF NextSeq
    <3> QED
      BY <3>2, <3>3, Zenon
  <2>2. CASE Len(w) # 1
    <3>1. v # << >> /\ Len(v) \in 1..Len(v) /\ v[Len(v)] = w[Len(w)]
      <4> HIDE DEF v, w
      <4>1. Len(v) \in Nat /\ Len(v) >= 1 /\ Len(v) + 1 = Len(w)
        BY <1>2, <2>2
      <4>2. Len(v) \in 1..Len(v)
        BY <4>1
      <4>3. v[Len(v)] = w[Len(v) + 1]
        BY <1>2, <4>2, Zenon
      <4>4. v # << >>
        BY <4>1
      <4> QED
        BY <4>1, <4>2, <4>3, <4>4, Zenon
    <3>2. NextSeq(s)' = (wire'[s][Len(wire'[s])].seq + 1) % SeqSpace
      <4>1. wire'[s] # << >>
        BY <1>1, <3>1, Zenon
      <4> QED
        BY <4>1, Zenon DEF NextSeq
    <3>3. NextSeq(s) = (w[Len(w)].seq + 1) % SeqSpace
      BY <1>0, Zenon DEF NextSeq
    <3> QED
      BY <1>1, <3>1, <3>2, <3>3, Zenon
  <2> QED
    BY <2>1, <2>2, Zenon
<1>8. dial = "open" /\ link[session] = "up" => sealed = NextSeq(session)'
  <2>1. CASE session = s
    BY <1>0, <1>7, <2>1, Zenon DEF Numbered
  <2>2. CASE session # s
    BY <1>0, <1>1, <2>2, Zenon DEF Numbered, NextSeq, Types
  <2> QED
    BY <2>1, <2>2, Zenon
<1>9. /\ \A q \in Session : q > session => wire'[q] = << >>
      /\ dial = "hello" => wire'[session] = << >>
  <2>1. s > session => wire[s] = << >>
    BY Zenon DEF Numbered
  <2>2. dial = "hello" => session \in Session /\ wire[session] = << >>
    BY Zenon DEF Numbered, Types
  <2> QED
    BY <1>0, <1>1, <2>1, <2>2, Zenon DEF Numbered
<1> QED
  BY <1>0, <1>3, <1>6, <1>8, <1>9, Zenon DEF Numbered

\* The other steps begin a session with nothing under way, or lose what is.
LEMMA NumberOthers ==
    ASSUME Types, Numbered, [Next]_vars, ~Write, ~\E s \in Session : Read(s),
           MaxSessions \in Nat
    PROVE  Numbered'
<1> USE DEF Session
<1>1. CASE Connect
  <2>1. session \in Nat /\ session + 1 \in Session /\ session' = session + 1
    BY <1>1 DEF Connect, Types
  <2>2. /\ wire' = wire /\ opened' = opened /\ dial' = "hello" /\ wire[session + 1] = << >>
        /\ link' = [link EXCEPT ![session + 1] = "up"]
    BY <1>1, <2>1 DEF Connect, Numbered
  <2>3. link' \in [Session -> Links] /\ \A s \in Session : s # session + 1 => link'[s] = link[s]
    BY <2>1, <2>2, Zenon DEF Numbered, Links
  <2> QED
    BY <2>1, <2>2, <2>3 DEF Numbered, Chained, Links
<1>2. CASE Handshake
  <2>1. session \in Session /\ wire[session] = << >> /\ session' = session /\ wire' = wire
        /\ link' = link /\ dial' = "open" /\ sealed' = 0
        /\ opened' = [opened EXCEPT ![session] = 0]
    BY <1>2, Zenon DEF Handshake, Numbered, Types
  <2>2. opened' \in [Session -> Nat] /\ opened'[session] = 0
        /\ \A s \in Session : s # session => opened'[s] = opened[s]
    BY <2>1, Zenon DEF Numbered
  <2>3. sealed' = NextSeq(session)'
    BY <2>1, <2>2, Zenon DEF NextSeq
  <2>4. ASSUME NEW s \in Session PROVE Chained(s)'
    BY <2>1, <2>2 DEF Numbered, Chained
  <2> QED
    BY <2>1, <2>2, <2>3, <2>4, Zenon DEF Numbered
<1>3. CASE Notice \/ Close
  <2>1. /\ dial' = "down" /\ wire' = wire /\ opened' = opened /\ session' = session
        /\ link' \in [Session -> Links]
    BY Zenon, <1>3 DEF Notice, Close, Hangup, Numbered, Links
  <2> QED
    BY <2>1, Zenon DEF Numbered, Chained
<1>4. CASE Reset \/ Vanish
  <2>1. /\ session \in Session /\ session' = session /\ dial' = dial /\ sealed' = sealed
        /\ opened' = opened /\ wire' = [wire EXCEPT ![session] = << >>]
    BY <1>4, Zenon DEF Reset, Vanish, senderVars, Types
  <2>2. link' \in [Session -> Links] /\ link'[session] # "up"
    BY Zenon, <1>4, <2>1 DEF Reset, Vanish, Numbered, Links
  <2>3. wire'[session] = << >> /\ \A s \in Session : wire'[s] = wire[s] \/ wire'[s] = << >>
    BY <2>1, Zenon DEF Types
  <2> QED
    BY <2>1, <2>2, <2>3 DEF Numbered, Chained
<1>5. CASE Restart
  <2>1. /\ session' = session /\ dial' = dial /\ sealed' = sealed /\ opened' = opened
        /\ \A s \in Session : wire'[s] = << >> /\ link'[s] # "up"
    BY <1>5, Zenon DEF Restart, senderVars
  <2>2. link' \in [Session -> Links]
    BY <1>5, Zenon DEF Restart, Numbered, Links
  <2>3. dial # "down" => session \in Session
    BY Zenon DEF Types
  <2> QED
    BY <2>1, <2>2, <2>3 DEF Numbered, Chained
<1>6. CASE UNCHANGED <<dial, session, sealed, wire, link, opened>>
  BY <1>6, Zenon DEF Numbered, Chained, NextSeq
<1> QED
  BY <1>1, <1>2, <1>3, <1>4, <1>5, <1>6, Zenon DEF Next, vars, senderVars, Send, ConnectRefused,
     RemoveClosed, Eof, HandshakeTimeout, Register, LoopEnds, DispatcherEnds, Unregister

\* What a connection carries opens at its other end; and a message that is not sent again
\* reaches a node loop once at most, those of one session in the order they were sent,
\* however connections break and are dialled again.  raft/transport.rs, run_outbound,
\* handle_inbound and dial_loop.
THEOREM DeliveredAtMostOnce ==
    ASSUME ~Resend, SeqSpace \in Nat \ {0}, MaxSessions \in Nat, MaxLoops \in Nat
    PROVE  Spec => []DeliverySound
<1> DEFINE Inv == DeliveryInv /\ Numbered /\ RoutingInv
<1>1. Init => DeliveryInv
  <2> SUFFICES ASSUME Init PROVE DeliveryInv
    BY Zenon
  <2>1. Types
    BY DEF Init, Types
  <2>2. Len(queue) = 0 /\ Len(received) = 0 /\ \A s \in Session : Len(wire[s]) = 0
    BY Zenon DEF Init
  <2>3. 1..Len(queue) = {} /\ 1..Len(received) = {} /\ \A s \in Session : 1..Len(wire[s]) = {}
    BY <2>2
  <2> QED
    BY <2>1, <2>3, Zenon DEF DeliveryInv, QueueOrdered, WiresOrdered, DeliveredBefore,
                             AtMostOnceInOrder
<1>2. DeliveryInv /\ [Next]_vars => DeliveryInv'
  <2> SUFFICES ASSUME DeliveryInv, [Next]_vars PROVE DeliveryInv'
    BY Zenon
  <2>1. CASE Send
    BY <2>1, SendStep, Zenon
  <2>2. CASE Write
    BY <2>2, WriteStep, Zenon
  <2>3. CASE \E s \in Session : Read(s)
    BY <2>3, ReadStep, Zenon
  <2>4. CASE ~Send /\ ~Write /\ ~\E s \in Session : Read(s)
    <3>1. Keeps /\ Types'
      BY <2>4, OtherSteps, Zenon DEF DeliveryInv
    <3> QED
      BY <3>1, KeepsStep, Zenon
  <2> QED
    BY <2>1, <2>2, <2>3, <2>4, Zenon
<1>3. Init => Inv
  BY <1>1 DEF Init, Numbered, Chained, Links, RoutingInv, LoopState, Session
<1>4. ASSUME Inv, [Next]_vars PROVE Inv'
  <2>1. DeliveryInv' /\ RoutingInv'
    BY <1>2, <1>4, RoutingStep, Zenon
  <2>2. Numbered'
    BY <1>4, NumberWrite, NumberRead, NumberOthers, Zenon DEF DeliveryInv
  <2> QED
    BY <2>1, <2>2, Zenon
<1>5. Inv => DeliverySound
  <2> SUFFICES ASSUME Inv PROVE DeliverySound
    BY Zenon
  <2>1. session \in 0..MaxSessions
    BY DEF DeliveryInv, Types, Session
  <2>2. group \in 0..MaxLoops /\ attached \in 0..MaxLoops
    BY DEF RoutingInv, Loop
  <2> QED
    BY <2>1, <2>2, Zenon DEF DeliverySound, TypeOK, DeliveryInv, Numbered, Chained
<1> QED
  BY <1>3, <1>4, <1>5, PTL DEF Spec
=============================================================================
