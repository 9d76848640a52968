----------------------------- MODULE Transport -----------------------------
(***************************************************************************)
(* One direction between two brokers of a cluster, raft/transport.rs: the  *)
(* dispatcher of a group and the dial loop on one side, the listener and   *)
(* the routing table of groups on the other.                               *)
(*                                                                         *)
(* A frame carries the group's name and its number in the session.  The    *)
(* handshake gives both ends the keys of a new session; a frame of another *)
(* session, or out of its turn, does not open and ends the connection.     *)
(***************************************************************************)
EXTENDS Integers, Sequences, FiniteSets

CONSTANTS
    PeerQueue,      \* PEER_QUEUE
    Window,         \* what the buffers of a connection take
    SeqSpace,       \* the numbers of frames, 2^64
    MaxInbound,     \* MAX_INBOUND_CONNECTIONS
    MaxMessages,    \* bound: different messages
    MaxSessions,    \* bound
    MaxLoops,       \* bound: node loops of the group at the receiver
    NetFaults,      \* bound: connections lost
    Resend          \* TRUE: the last message is sent again and again, as heartbeats are

Session == 1..MaxSessions
Loop    == 1..MaxLoops

VARIABLES
    sent,       \* messages so far
    queue,      \* the dialer's queue
    dial,       \* "down", "hello", "open"
    session,    \* the dialer's last session
    sealed,     \* FrameSealer.seq
    wire,       \* session -> frames under way
    link,       \* session -> "up", "closed", "reset", "silent": gone, and only one end knows
    inbound,    \* session -> "none", "hello", "open", "ended" at the listener
    opened,     \* session -> FrameOpener.seq
    removing,   \* session -> a node loop was found gone and is yet to be removed
    group,      \* the routing table: the node loop of the group, 0: none
    loops,      \* node loop -> "none", "running", "ended", "left" by its dispatcher
    netFaults,
    received,   \* history: what node loops got
    attached,   \* history: the node loop that was registered and runs, 0: none
    heard       \* history: something got through since the last fault

senderVars   == <<sent, queue, dial, session, sealed>>
receiverVars == <<group, loops, attached>>
vars == <<senderVars, wire, link, inbound, opened, removing, receiverVars, netFaults, received,
          heard>>

Init ==
    /\ sent = 0 /\ queue = << >> /\ dial = "down" /\ session = 0 /\ sealed = 0
    /\ wire = [s \in Session |-> << >>]
    /\ link = [s \in Session |-> "closed"]
    /\ inbound = [s \in Session |-> "none"]
    /\ opened = [s \in Session |-> 0]
    /\ removing = [s \in Session |-> FALSE]
    /\ group = 0 /\ loops = [l \in Loop |-> "none"]
    /\ netFaults = 0 /\ received = << >> /\ attached = 0 /\ heard = FALSE

-----------------------------------------------------------------------------
(* The sender: dispatcher and dial_loop *)

\* enqueue: a frame that finds the queue full is dropped.
Send ==
    /\ sent < MaxMessages \/ Resend
    /\ LET m == IF sent < MaxMessages THEN sent + 1 ELSE sent
       IN /\ sent' = m
          /\ queue' = IF Len(queue) < PeerQueue THEN Append(queue, m) ELSE queue
    /\ UNCHANGED <<dial, session, sealed, wire, link, inbound, opened, removing, receiverVars,
                   netFaults, received, heard>>

InUse == {s \in Session : inbound[s] \in {"hello", "open"}}

\* connect, and accept if the listener has a slot
Connect ==
    /\ dial = "down" /\ Cardinality(InUse) < MaxInbound /\ session < MaxSessions
    /\ session' = session + 1
    /\ dial' = "hello"
    /\ link' = [link EXCEPT ![session + 1] = "up"]
    /\ inbound' = [inbound EXCEPT ![session + 1] = "hello"]
    /\ UNCHANGED <<sent, queue, sealed, wire, opened, removing, receiverVars, netFaults, received,
                   heard>>

\* There is no slot: the socket is dropped, the handshake fails, the queue is drained.
ConnectRefused ==
    /\ dial = "down" /\ Cardinality(InUse) >= MaxInbound
    /\ queue' = << >>
    /\ UNCHANGED <<sent, dial, session, sealed, wire, link, inbound, opened, removing, receiverVars,
                   netFaults, received, heard>>

\* dialer_handshake and listener_handshake
Handshake ==
    /\ dial = "hello" /\ link[session] = "up"
    /\ dial' = "open"
    /\ sealed' = 0
    /\ inbound' = [inbound EXCEPT ![session] = "open"]
    /\ opened' = [opened EXCEPT ![session] = 0]
    /\ UNCHANGED <<sent, queue, session, wire, link, removing, receiverVars, netFaults, received,
                   heard>>

Frame == [message |-> Head(queue), seq |-> sealed]

\* The connection takes another frame; a full one blocks the writer.
Writable == link[session] = "up" => Len(wire[session]) < Window

\* Mutant: a frame whose write fails, though it may have gone out, is kept for the next
\* connection.
Write_Retries ==
    /\ dial = "open" /\ queue # << >> /\ Writable
    /\ wire' = IF link[session] = "up"
               THEN [wire EXCEPT ![session] = Append(@, Frame)] ELSE wire
    /\ sealed' = (sealed + 1) % SeqSpace
    /\ \/ queue' = Tail(queue) /\ UNCHANGED <<dial, link>>
       \/ dial' = "down" /\ link' = [link EXCEPT ![session] = "closed"] /\ UNCHANGED queue
    /\ UNCHANGED <<sent, session, inbound, opened, removing, receiverVars, netFaults, received,
                   heard>>

\* run_outbound: a frame is taken from the queue, sealed and written.  A connection whose
\* other end is gone takes it too.
Write ==
    /\ dial = "open" /\ queue # << >> /\ Writable
    /\ queue' = Tail(queue)
    /\ wire' = IF link[session] = "up"
               THEN [wire EXCEPT ![session] = Append(@, Frame)] ELSE wire
    /\ sealed' = (sealed + 1) % SeqSpace
    /\ UNCHANGED <<sent, dial, session, link, inbound, opened, removing, receiverVars, netFaults,
                   received, heard>>

\* The dial loop after run_outbound: what is queued is stale and drained.
Hangup == dial' = "down" /\ queue' = << >> /\ UNCHANGED <<sent, session, sealed>>

\* The write or the handshake fails, or times out, on a connection that is gone.
Notice ==
    /\ dial # "down" /\ link[session] \in {"reset", "silent"}
    /\ Hangup
    /\ UNCHANGED <<wire, link, inbound, opened, removing, receiverVars, netFaults, received, heard>>

-----------------------------------------------------------------------------
(* The network and the peers fail *)

\* bound: a loop ends only while there is another to follow it
Spare == \E l \in Loop : loops[l] = "none"

Fault == netFaults < NetFaults /\ netFaults' = netFaults + 1 /\ heard' = FALSE

\* The dialer gives up, and the listener reads on to the end of what was written.
Close ==
    /\ dial # "down" /\ link[session] = "up" /\ Fault
    /\ link' = [link EXCEPT ![session] = "closed"]
    /\ Hangup
    /\ UNCHANGED <<wire, inbound, opened, removing, receiverVars, received>>

\* The connection is reset: the listener ends, the dialer learns of it when it writes.
Reset ==
    /\ session # 0 /\ link[session] = "up" /\ Fault
    /\ link' = [link EXCEPT ![session] = "reset"]
    /\ wire' = [wire EXCEPT ![session] = << >>]
    /\ inbound' = [inbound EXCEPT ![session] = "ended"]
    /\ UNCHANGED <<senderVars, opened, removing, receiverVars, received>>

\* Packets are no longer delivered and the listener never learns of it: it waits for the
\* next frame with no limit of time.
Vanish ==
    /\ session # 0 /\ link[session] = "up" /\ Fault
    /\ link' = [link EXCEPT ![session] = "silent"]
    /\ wire' = [wire EXCEPT ![session] = << >>]
    /\ UNCHANGED <<senderVars, inbound, opened, removing, receiverVars, received>>

\* The receiver restarts.
Restart ==
    /\ attached # 0 /\ Spare /\ Fault
    /\ link' = [s \in Session |-> IF link[s] \in {"up", "silent"} THEN "reset" ELSE link[s]]
    /\ wire' = [s \in Session |-> << >>]
    /\ inbound' = [s \in Session |-> IF inbound[s] = "none" THEN "none" ELSE "ended"]
    /\ removing' = [s \in Session |-> FALSE]
    /\ group' = 0 /\ attached' = 0
    /\ loops' = [l \in Loop |-> IF loops[l] = "none" THEN "none" ELSE "left"]
    /\ UNCHANGED <<senderVars, opened, received>>

-----------------------------------------------------------------------------
(* The receiver: handle_inbound *)

\* The next frame opens and is routed.  A group that is not registered drops it; one
\* whose node loop is gone is removed, in a step of its own.
Read(s) ==
    /\ inbound[s] = "open" /\ wire[s] # << >> /\ ~removing[s]
    /\ Head(wire[s]).seq = opened[s]
    /\ wire' = [wire EXCEPT ![s] = Tail(@)]
    /\ opened' = [opened EXCEPT ![s] = (@ + 1) % SeqSpace]
    /\ LET found == group # 0
           runs == found /\ loops[group] = "running"
       IN /\ received' = IF runs /\ ~Resend
                         THEN Append(received, [message |-> Head(wire[s]).message, session |-> s])
                         ELSE received
          /\ heard' = (heard \/ runs)
          /\ removing' = [removing EXCEPT ![s] = found /\ ~runs]
    /\ UNCHANGED <<senderVars, link, inbound, receiverVars, netFaults>>

\* remove_if(is_closed)
RemoveClosed(s) ==
    /\ removing[s]
    /\ removing' = [removing EXCEPT ![s] = FALSE]
    /\ group' = IF group # 0 /\ loops[group] # "running" THEN 0 ELSE group
    /\ UNCHANGED <<senderVars, wire, link, inbound, opened, loops, attached, netFaults, received,
                   heard>>

\* Mutant: only a handshake that ends gives its slot back.
Eof_KeepsSlot(s) ==
    /\ inbound[s] = "hello" /\ link[s] = "closed"
    /\ inbound' = [inbound EXCEPT ![s] = "ended"]
    /\ UNCHANGED <<senderVars, wire, link, opened, removing, receiverVars, netFaults, received,
                   heard>>

\* The other end has closed, in the handshake or after it: the slot is free again.
Eof(s) ==
    /\ inbound[s] \in {"hello", "open"} /\ link[s] = "closed" /\ wire[s] = << >> /\ ~removing[s]
    /\ inbound' = [inbound EXCEPT ![s] = "ended"]
    /\ UNCHANGED <<senderVars, wire, link, opened, removing, receiverVars, netFaults, received,
                   heard>>

\* listener_handshake times out.
HandshakeTimeout(s) ==
    /\ inbound[s] = "hello" /\ link[s] = "silent"
    /\ inbound' = [inbound EXCEPT ![s] = "ended"]
    /\ UNCHANGED <<senderVars, wire, link, opened, removing, receiverVars, netFaults, received,
                   heard>>

-----------------------------------------------------------------------------
(* Registration *)

\* register, by a topic that is opened or created
Register(l) ==
    /\ attached = 0 /\ group = 0 /\ loops[l] = "none"
    /\ \A k \in 1..(l - 1) : loops[k] # "none"
    /\ group' = l
    /\ loops' = [loops EXCEPT ![l] = "running"]
    /\ attached' = l
    /\ UNCHANGED <<senderVars, wire, link, inbound, opened, removing, netFaults, received, heard>>

\* delete_topic: unregister.  The node loop is stopped afterwards.
Unregister ==
    /\ attached # 0 /\ Spare
    /\ group' = 0
    /\ attached' = 0
    /\ UNCHANGED <<senderVars, wire, link, inbound, opened, removing, loops, netFaults, received,
                   heard>>

\* The loop of an unregistered group ends, or a loop fails while it is registered.
LoopEnds(l) ==
    /\ loops[l] = "running" /\ Spare
    /\ loops' = [loops EXCEPT ![l] = "ended"]
    /\ attached' = IF attached = l THEN 0 ELSE attached
    /\ UNCHANGED <<senderVars, wire, link, inbound, opened, removing, group, netFaults, received,
                   heard>>

\* Mutant: the dispatcher removes the registration by name.
DispatcherEnds_ByName(l) ==
    /\ loops[l] = "ended"
    /\ loops' = [loops EXCEPT ![l] = "left"]
    /\ group' = 0
    /\ UNCHANGED <<senderVars, wire, link, inbound, opened, removing, attached, netFaults, received,
                   heard>>

\* The dispatcher finds its node loop gone and removes its own registration.
DispatcherEnds(l) ==
    /\ loops[l] = "ended"
    /\ loops' = [loops EXCEPT ![l] = "left"]
    /\ group' = IF group = l THEN 0 ELSE group
    /\ UNCHANGED <<senderVars, wire, link, inbound, opened, removing, attached, netFaults, received,
                   heard>>

Next ==
    \/ Send \/ Connect \/ ConnectRefused \/ Handshake \/ Write \/ Notice
    \/ Close \/ Reset \/ Vanish \/ Restart
    \/ \E s \in Session : Read(s) \/ RemoveClosed(s) \/ Eof(s) \/ HandshakeTimeout(s)
    \/ \E l \in Loop : Register(l) \/ LoopEnds(l) \/ DispatcherEnds(l)
    \/ Unregister

\* Tasks that are ready run, the timeouts of the dialer run out, heartbeats are sent, and
\* a topic that is not registered is opened or created again.
Fairness ==
    /\ WF_vars(Send) /\ WF_vars(Connect) /\ WF_vars(Handshake) /\ WF_vars(Write)
    /\ WF_vars(Notice)
    /\ \A s \in Session :
         WF_vars(Read(s)) /\ WF_vars(RemoveClosed(s)) /\ WF_vars(Eof(s))
           /\ WF_vars(HandshakeTimeout(s))
    /\ \A l \in Loop : WF_vars(Register(l)) /\ WF_vars(DispatcherEnds(l))

Spec == Init /\ [][Next]_vars /\ Fairness

-----------------------------------------------------------------------------
(* Properties *)

\* Types; frames of one session are under way in the order of their numbers, and the
\* next one opens.
TypeOK ==
    /\ dial \in {"down", "hello", "open"}
    /\ session \in 0..MaxSessions
    /\ group \in 0..MaxLoops /\ attached \in 0..MaxLoops
    /\ \A s \in Session : \A k \in 1..Len(wire[s]) :
         wire[s][k].seq = IF k = 1 THEN opened[s] ELSE (wire[s][k - 1].seq + 1) % SeqSpace

\* A message is delivered once at most, and those of one session in the order they were
\* sent: across sessions a late one may come after newer ones.  raft/transport.rs,
\* run_outbound.
AtMostOnceInOrder ==
    \A j, k \in 1..Len(received) :
       j < k => /\ received[j].message # received[k].message
                /\ received[j].session = received[k].session =>
                     received[j].message < received[k].message

\* Both: what is under way opens, and is delivered once at most and in order.
\* raft/transport.rs, run_outbound, handle_inbound.
DeliverySound == TypeOK /\ AtMostOnceInOrder

\* A group that is registered and whose node loop runs is routed to, until it is
\* unregistered: neither the dispatcher nor a connection of an earlier topic of the name
\* takes the new one's registration away.  raft/transport.rs, register, handle_inbound.
RegistrationStays == attached # 0 => group = attached

\* Every slot of the listener is held by a connection that vanished: handle_inbound reads
\* on with no limit of time.
Exhausted ==
    Cardinality({s \in Session : inbound[s] = "open" /\ link[s] = "silent"}) >= MaxInbound
=============================================================================
