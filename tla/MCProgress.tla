----------------------------- MODULE MCProgress -----------------------------
(***************************************************************************)
(* What must eventually happen: offsets are saved, snapshots arrive,       *)
(* brokers reconnect, requests are answered and calls end.  Seen from one  *)
(* component the others are its environment, so a behaviour takes the      *)
(* steps of one of them, focus, under the fairness of that component.      *)
(***************************************************************************)
EXTENDS Integers, FiniteSets

CONSTANTS
    Groups, Keys, NoOwner, NoSlot, Admins, Slots, MaxGroups, MaxEntries, MaxEnd, MaxChanges,
    GroupEvents,
    Nodes, Chunk, Retention, PowerLoss, MaxOffset, MaxSnapshots, MaxRestarts, MaxLosses, MaxInFlight,
    PeerQueue, Window, SeqSpace, MaxInbound, MaxMessages, MaxSessions, MaxLoops, NetFaults,
    Conns, Addrs, MaxConnections, MaxPerIp, MaxInflight, OutCapacity, Budget, Sizes, Inflated,
    BinTopics, Ops, MaxReads,
    Calls

VARIABLES
    focus,
    mem, disk, dirty, req, flush, life, end, events, processed, recreated, signalled,
    sender, part, next, synced, snap, cursor, match, msgs, fenced, restarts, losses,
    sent, queue, dial, session, sealed, wire, link, inbound, opened, removing, group, loops,
    netFaults, received, attached, heard,
    conn, addr, perIp, gzip, step, reading, tasks, chain, waiters, free, out, writer, cancelled,
    stopping, plain, answered,
    call, pending, asked, answers, peer, reader, failing, cancel, closing, late

groupsVars == <<mem, disk, dirty, req, flush, life, end, events, processed, recreated, signalled>>
transferVars == <<sender, part, next, synced, snap, cursor, match, msgs, fenced, restarts, losses>>
transportVars == <<sent, queue, dial, session, sealed, wire, link, inbound, opened, removing, group,
                   loops, netFaults, received, attached, heard>>
serverVars == <<conn, addr, perIp, gzip, step, reading, tasks, chain, waiters, free, out, writer,
                cancelled, stopping, plain, answered>>
clientVars == <<call, pending, asked, answers, peer, reader, failing, cancel, closing, late>>

vars == <<focus, groupsVars, transferVars, transportVars, serverVars, clientVars>>

G == INSTANCE GroupStore
X == INSTANCE SnapshotTransfer
W == INSTANCE Transport WITH Resend <- TRUE
B == INSTANCE BinaryServer
C == INSTANCE PipelinedClient

Init ==
    /\ focus \in {"groups", "transfer", "transport", "server", "client"}
    /\ G!Init /\ X!Init /\ W!Init /\ B!Init /\ C!Init
    /\ focus = "groups" \/ disk = G!NoFiles

OfGroups(A) ==
    /\ focus = "groups" /\ A
    /\ UNCHANGED <<focus, transferVars, transportVars, serverVars, clientVars>>

OfTransfer(A) ==
    /\ focus = "transfer" /\ A
    /\ UNCHANGED <<focus, groupsVars, transportVars, serverVars, clientVars>>

OfTransport(A) ==
    /\ focus = "transport" /\ A
    /\ UNCHANGED <<focus, groupsVars, transferVars, serverVars, clientVars>>

OfServer(A) ==
    /\ focus = "server" /\ A
    /\ UNCHANGED <<focus, groupsVars, transferVars, transportVars, clientVars>>

OfClient(A) ==
    /\ focus = "client" /\ A
    /\ UNCHANGED <<focus, groupsVars, transferVars, transportVars, serverVars>>

Next ==
    \/ OfGroups(G!Next) \/ OfTransfer(X!Next) \/ OfTransport(W!Next)
    \/ OfServer(B!Next) \/ OfClient(C!Next)

\* The fairness of each component, for the steps of the composition.
Fairness ==
    /\ WF_vars(OfGroups(G!Flusher)) /\ \A k \in Keys : WF_vars(OfGroups(G!Handler(k)))
    /\ WF_vars(OfTransfer(X!Heartbeat))
    /\ WF_vars(OfTransfer(\E m \in msgs : X!OnProbe(m) \/ X!OnChunk(m) \/ X!OnChunkRefused(m)))
    /\ WF_vars(OfTransfer(\E m \in msgs : X!OnResp(m)))
    /\ WF_vars(OfTransport(W!Send)) /\ WF_vars(OfTransport(W!Connect))
    /\ WF_vars(OfTransport(W!Handshake)) /\ WF_vars(OfTransport(W!Write))
    /\ WF_vars(OfTransport(W!Notice))
    /\ \A s \in 1..MaxSessions :
         /\ WF_vars(OfTransport(W!Read(s))) /\ WF_vars(OfTransport(W!RemoveClosed(s)))
         /\ WF_vars(OfTransport(W!Eof(s))) /\ WF_vars(OfTransport(W!HandshakeTimeout(s)))
    /\ \A l \in 1..MaxLoops :
         WF_vars(OfTransport(W!Register(l))) /\ WF_vars(OfTransport(W!DispatcherEnds(l)))
    /\ WF_vars(OfServer(B!Grant))
    /\ \A c \in Conns :
         /\ WF_vars(OfServer(B!ReadBody(c) \/ B!ReadFails(c))) /\ WF_vars(OfServer(B!Dispatch(c)))
         /\ WF_vars(OfServer(B!SendPlain(c)))
         /\ WF_vars(OfServer(B!Write(c) \/ B!WriteFails(c) \/ B!WriterEnds(c)))
         /\ \A n \in 1..MaxReads : /\ WF_vars(OfServer(B!Begin(c, n)))
                                   /\ WF_vars(OfServer(B!Finish(c, n)))
                                   /\ WF_vars(OfServer(B!Respond(c, n)))
    /\ WF_vars(OfClient(C!ReadAnswer \/ C!BadFrame)) /\ WF_vars(OfClient(C!ReaderEnds))
    /\ \A k \in Calls : /\ WF_vars(OfClient(C!Write(k) \/ C!Abandon(k)))
                        /\ WF_vars(OfClient(C!FailOne(k)))
                        /\ WF_vars(OfClient(C!Answer(k) \/ C!PeerCloses))

Spec == Init /\ [][Next]_vars /\ Fairness

-----------------------------------------------------------------------------
(* Properties *)

\* Groups: again and again all that memory holds is on disk, while the broker runs, also when
\* writes fail (groups.rs, spawn_flusher).
EventuallySaved == []<>(focus = "groups" => G!Saved)

\* Transfer: every transfer of a leader that has its records from its own log finishes,
\* unless the receiver's partition is fenced (raft/node.rs, send_snapshot).
FirstTransferFinishes == []<>(focus = "transfer" => X!CaughtUp \/ sender > 1 \/ X!receiver \in fenced)

\* Transport: after every fault something gets through again, unless all slots of the
\* listener are held by connections that vanished (raft/transport.rs, dial_loop).
Reconnects == []<>(focus = "transport" => heard \/ W!Exhausted)

\* Server: every request that was read is answered, unless its connection failed, the
\* server stops, or the budget is held by requests that wait for more of it
\* (binary/server.rs, serve, process).
EveryRequestAnswered == []<>(focus = "server" => B!AllAnswered \/ B!Stuck)

\* Client: every call ends with an answer or an error, unless it began after the reader
\* left (binary/pipelined.rs, round_trip, reader_loop).
CallsEnd == []<>(focus = "client" => C!AllEnded)
=============================================================================
