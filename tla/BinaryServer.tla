---------------------------- MODULE BinaryServer ----------------------------
(***************************************************************************)
(* The binary protocol's server, binary/server.rs: the accept loop with    *)
(* its limits per process and per address, the read loop of a connection,  *)
(* the task of every request, the writer, and the memory budget that all   *)
(* connections share.                                                      *)
(*                                                                         *)
(* The budget is a fair semaphore: `waiters' is its queue, and the memory  *)
(* of a request is held from before its body is read until its task ends.  *)
(* A request of a connection that negotiated gzip reserves the space of    *)
(* the inflated payload from the same budget.                              *)
(***************************************************************************)
EXTENDS Integers, Sequences, FiniteSets, FiniteSetsExt

CONSTANTS
    Conns,          \* connections, in the order they arrive: a range of numbers
    Addrs,          \* addresses they come from
    MaxConnections, \* connection_budget
    MaxPerIp,       \* binary_max_connections_per_ip
    MaxInflight,    \* MAX_INFLIGHT_PER_CONN
    OutCapacity,    \* of the channel to the writer
    Budget,         \* INFLIGHT_BUDGET_KIB
    Sizes,          \* memory of a request
    Inflated,       \* memory reserved for an inflated payload, kib(max_request)
    BinTopics,
    Ops,            \* of "produce", "consume", "plain": answered by the read loop
    MaxReads        \* bound: requests of all connections

VARIABLES
    conn,       \* connection -> "new", "hello", "serving", "draining", "dropping", "closed"
    addr,       \* connection -> address
    perIp,      \* address -> count, -1: no entry
    gzip,       \* connection -> negotiated
    step,       \* read loop: "frame", "memory", "body", "permit", "send"
    reading,    \* connection -> the request being read
    tasks,      \* connection -> produce and consume requests read so far
    chain,      \* connection -> topic -> its last produce, 0: none
    waiters,    \* the budget's queue
    free,       \* the budget's permits
    out,        \* connection -> answers queued for the writer
    writer,     \* connection -> "none", "running", "ended"
    cancelled,  \* connection -> conn_cancel
    stopping,   \* the server's cancel
    plain,      \* history: answers of the read loop
    answered    \* history: tasks whose answer was written

acceptVars == <<addr, perIp, stopping>>
readVars   == <<step, reading, chain>>
writeVars  == <<out, writer, answered, plain>>
vars == <<conn, acceptVars, gzip, readVars, tasks, waiters, free, writeVars, cancelled>>

None == [op |-> "none"]

Init ==
    /\ conn = [c \in Conns |-> "new"]
    /\ addr \in [Conns -> Addrs]
    /\ perIp = [a \in Addrs |-> -1]
    /\ gzip = [c \in Conns |-> FALSE]
    /\ step = [c \in Conns |-> "frame"]
    /\ reading = [c \in Conns |-> None]
    /\ tasks = [c \in Conns |-> << >>]
    /\ chain = [c \in Conns |-> [t \in BinTopics |-> 0]]
    /\ waiters = << >>
    /\ free = Budget
    /\ out = [c \in Conns |-> << >>]
    /\ writer = [c \in Conns |-> "none"]
    /\ cancelled = [c \in Conns |-> FALSE]
    /\ stopping = FALSE
    /\ plain = [c \in Conns |-> 0]
    /\ answered = [c \in Conns |-> {}]

-----------------------------------------------------------------------------
(* serve_binary and IpSlot *)

Counted == {c \in Conns : conn[c] \in {"hello", "serving", "draining", "dropping"}}

Max0(n) == IF n < 0 THEN 0 ELSE n

Accept(c) ==
    /\ conn[c] = "new" /\ \A d \in Conns : d < c => conn[d] # "new"
    /\ ~stopping
    /\ LET n == Max0(perIp[addr[c]])
           room == Cardinality(Counted) < MaxConnections /\ n < MaxPerIp
       IN /\ conn' = [conn EXCEPT ![c] = IF room THEN "hello" ELSE "closed"]
          /\ perIp' = IF room THEN [perIp EXCEPT ![addr[c]] = n + 1] ELSE perIp
    /\ UNCHANGED <<addr, stopping, gzip, readVars, tasks, waiters, free, writeVars, cancelled>>

\* Drop for IpSlot: the count goes down, and an entry that was seen at zero is removed in
\* a step of its own.
DropSlot(c) ==
    LET n == perIp[addr[c]] - 1
    IN /\ perIp' = [perIp EXCEPT ![addr[c]] = n]
       /\ conn' = [conn EXCEPT ![c] = IF n = 0 THEN "dropping" ELSE "closed"]

\* Mutant: the entry is removed whatever it counts by now.
RemoveSlot_Always(c) ==
    /\ conn[c] = "dropping"
    /\ conn' = [conn EXCEPT ![c] = "closed"]
    /\ perIp' = [perIp EXCEPT ![addr[c]] = -1]
    /\ UNCHANGED <<addr, stopping, gzip, readVars, tasks, waiters, free, writeVars, cancelled>>

\* remove_if(c == 0)
RemoveSlot(c) ==
    /\ conn[c] = "dropping"
    /\ conn' = [conn EXCEPT ![c] = "closed"]
    /\ perIp' = [perIp EXCEPT ![addr[c]] = IF @ = 0 THEN -1 ELSE @]
    /\ UNCHANGED <<addr, stopping, gzip, readVars, tasks, waiters, free, writeVars, cancelled>>

\* The handshake is read and answered; it may fail or time out.
Handshake(c) ==
    /\ conn[c] = "hello"
    /\ conn' = [conn EXCEPT ![c] = "serving"]
    /\ gzip' \in {[gzip EXCEPT ![c] = g] : g \in BOOLEAN}
    /\ cancelled' = [cancelled EXCEPT ![c] = stopping]
    /\ writer' = [writer EXCEPT ![c] = "running"]
    /\ UNCHANGED <<acceptVars, readVars, tasks, waiters, free, out, answered, plain>>

HandshakeFails(c) ==
    /\ conn[c] = "hello"
    /\ DropSlot(c)
    /\ UNCHANGED <<addr, stopping, gzip, readVars, tasks, waiters, free, writeVars, cancelled>>

\* Every connection's token is a child of the server's.
Stop ==
    /\ ~stopping
    /\ stopping' = TRUE
    /\ cancelled' = [c \in Conns |-> cancelled[c] \/ writer[c] = "running"]
    /\ UNCHANGED <<conn, addr, perIp, gzip, readVars, tasks, waiters, free, writeVars>>

-----------------------------------------------------------------------------
(* serve: the read loop *)

Reads == MapThenSumSet(LAMBDA c : Len(tasks[c]) + plain[c] + (IF reading[c] = None THEN 0 ELSE 1),
                       Conns)

\* The length of a frame is read, and memory for it is asked for.
ReadLength(c, op, topic, size) ==
    /\ conn[c] = "serving" /\ step[c] = "frame"
    /\ Reads < MaxReads
    /\ reading' = [reading EXCEPT ![c] = [op |-> op, topic |-> topic, size |-> size]]
    /\ waiters' = Append(waiters, [conn |-> c, task |-> 0, amount |-> size])
    /\ step' = [step EXCEPT ![c] = "memory"]
    /\ UNCHANGED <<conn, acceptVars, gzip, chain, tasks, free, writeVars, cancelled>>

\* The budget serves its queue in order.
Grant ==
    /\ waiters # << >> /\ Head(waiters).amount <= free
    /\ LET w == Head(waiters)
       IN /\ free' = free - w.amount
          /\ waiters' = Tail(waiters)
          /\ IF w.task = 0
             THEN step' = [step EXCEPT ![w.conn] = "body"] /\ UNCHANGED tasks
             ELSE tasks' = [tasks EXCEPT ![w.conn][w.task].state = "running"] /\ UNCHANGED step
    /\ UNCHANGED <<conn, acceptVars, gzip, reading, chain, writeVars, cancelled>>

\* The body is read; the key is still good.
ReadBody(c) ==
    /\ conn[c] = "serving" /\ step[c] = "body"
    /\ step' = [step EXCEPT ![c] = "permit"]
    /\ UNCHANGED <<conn, acceptVars, gzip, reading, chain, tasks, waiters, free, writeVars,
                   cancelled>>

\* The key was revoked: an error is sent and the loop ends.
KeyRevoked(c) ==
    /\ conn[c] = "serving" /\ step[c] = "body"
    /\ writer[c] = "ended" \/ Len(out[c]) < OutCapacity
    /\ out' = IF writer[c] = "ended" THEN out ELSE [out EXCEPT ![c] = Append(@, 0)]
    /\ conn' = [conn EXCEPT ![c] = "draining"]
    /\ step' = [step EXCEPT ![c] = "frame"]
    /\ free' = free + reading[c].size
    /\ reading' = [reading EXCEPT ![c] = None]
    /\ UNCHANGED <<acceptVars, gzip, chain, tasks, waiters, writer, answered, plain, cancelled>>

Active(c) == {n \in DOMAIN tasks[c] : tasks[c][n].state # "done"}

\* Mutant: the request enters its topic's chain before it looks for the last one.
NewTask_Self(c) == [op |-> reading[c].op, topic |-> reading[c].topic, size |-> reading[c].size,
                    state |-> "chained",
                    prev |-> IF reading[c].op = "produce" THEN Len(tasks[c]) + 1 ELSE 0]

NewTask(c) == [op |-> reading[c].op, topic |-> reading[c].topic, size |-> reading[c].size,
               state |-> "chained",
               prev |-> IF reading[c].op = "produce" THEN chain[c][reading[c].topic] ELSE 0]

\* A permit is acquired.  A request that is refused or needs no task is answered by the
\* loop; a task takes the permit and the memory along.
Dispatch(c) ==
    /\ conn[c] = "serving" /\ step[c] = "permit" /\ Cardinality(Active(c)) < MaxInflight
    /\ IF reading[c].op = "plain"
       THEN /\ step' = [step EXCEPT ![c] = "send"]
            /\ UNCHANGED <<chain, tasks, reading>>
       ELSE /\ step' = [step EXCEPT ![c] = "frame"]
            /\ tasks' = [tasks EXCEPT ![c] = Append(@, NewTask(c))]
            /\ chain' = IF reading[c].op = "produce"
                        THEN [chain EXCEPT ![c][reading[c].topic] = Len(tasks[c]) + 1] ELSE chain
            /\ reading' = [reading EXCEPT ![c] = None]
    /\ UNCHANGED <<conn, acceptVars, gzip, waiters, free, writeVars, cancelled>>

\* out_tx.send by the loop: it waits for room, and fails once the writer has ended.
SendPlain(c) ==
    /\ conn[c] = "serving" /\ step[c] = "send"
    /\ writer[c] = "ended" \/ Len(out[c]) < OutCapacity
    /\ out' = IF writer[c] = "ended" THEN out ELSE [out EXCEPT ![c] = Append(@, 0)]
    /\ step' = [step EXCEPT ![c] = "frame"]
    /\ free' = free + reading[c].size
    /\ reading' = [reading EXCEPT ![c] = None]
    /\ plain' = [plain EXCEPT ![c] = @ + 1]
    /\ UNCHANGED <<conn, acceptVars, gzip, chain, tasks, waiters, writer, answered, cancelled>>

\* The loop ends: the other end closed, was idle for too long, or the server stops.
ReadEnds(c) ==
    /\ conn[c] = "serving" /\ step[c] = "frame"
    /\ conn' = [conn EXCEPT ![c] = "draining"]
    /\ UNCHANGED <<acceptVars, gzip, readVars, tasks, waiters, free, writeVars, cancelled>>

\* The loop ends with an error: the writer is stopped too, and a body that was being read
\* gives its memory back.
ReadFails(c) ==
    /\ conn[c] = "serving" /\ step[c] \in {"frame", "body"}
    /\ conn' = [conn EXCEPT ![c] = "draining"]
    /\ cancelled' = [cancelled EXCEPT ![c] = TRUE]
    /\ step' = [step EXCEPT ![c] = "frame"]
    /\ free' = free + (IF step[c] = "body" THEN reading[c].size ELSE 0)
    /\ reading' = [reading EXCEPT ![c] = None]
    /\ UNCHANGED <<acceptVars, gzip, chain, tasks, waiters, writeVars>>

\* The writer was waited for, for as long as WRITE_TIMEOUT: the connection's slots are free.
Close(c) ==
    /\ conn[c] = "draining"
    /\ DropSlot(c)
    /\ UNCHANGED <<addr, stopping, gzip, readVars, tasks, waiters, free, writeVars, cancelled>>

-----------------------------------------------------------------------------
(* The task of a request, and process *)

Set(c, n, state) == [tasks EXCEPT ![c][n].state = state]

\* The signal of the task before it has come.
Ready(c, n) ==
    tasks[c][n].prev # 0 => tasks[c][tasks[c][n].prev].state \in {"answering", "done"}

\* Mutant: the signal is given when the task before it begins.
Begin_Early(c, n) ==
    /\ n \in DOMAIN tasks[c] /\ tasks[c][n].state = "chained"
    /\ tasks[c][n].prev # 0 => tasks[c][tasks[c][n].prev].state # "chained"
    /\ tasks' = Set(c, n, IF gzip[c] THEN "reserving" ELSE "running")
    /\ waiters' = IF gzip[c] THEN Append(waiters, [conn |-> c, task |-> n, amount |-> Inflated])
                  ELSE waiters
    /\ UNCHANGED <<conn, acceptVars, gzip, readVars, free, writeVars, cancelled>>

Begin(c, n) ==
    /\ n \in DOMAIN tasks[c] /\ tasks[c][n].state = "chained" /\ Ready(c, n)
    /\ tasks' = Set(c, n, IF gzip[c] THEN "reserving" ELSE "running")
    /\ waiters' = IF gzip[c] THEN Append(waiters, [conn |-> c, task |-> n, amount |-> Inflated])
                  ELSE waiters
    /\ UNCHANGED <<conn, acceptVars, gzip, readVars, free, writeVars, cancelled>>

\* process returns, with a result or an error
Finish(c, n) ==
    /\ n \in DOMAIN tasks[c] /\ tasks[c][n].state = "running"
    /\ tasks' = Set(c, n, "answering")
    /\ free' = free + (IF gzip[c] THEN Inflated ELSE 0)
    /\ UNCHANGED <<conn, acceptVars, gzip, readVars, waiters, writeVars, cancelled>>

\* The answer is queued, or dropped when the writer has ended; permit and memory are free.
Respond(c, n) ==
    /\ n \in DOMAIN tasks[c] /\ tasks[c][n].state = "answering"
    /\ writer[c] = "ended" \/ Len(out[c]) < OutCapacity
    /\ out' = IF writer[c] = "ended" THEN out ELSE [out EXCEPT ![c] = Append(@, n)]
    /\ tasks' = Set(c, n, "done")
    /\ free' = free + tasks[c][n].size
    /\ UNCHANGED <<conn, acceptVars, gzip, readVars, waiters, writer, answered, plain, cancelled>>

-----------------------------------------------------------------------------
(* writer_loop *)

Write(c) ==
    /\ writer[c] = "running" /\ out[c] # << >>
    /\ out' = [out EXCEPT ![c] = Tail(@)]
    /\ answered' = IF Head(out[c]) = 0 THEN answered
                   ELSE [answered EXCEPT ![c] = @ \union {Head(out[c])}]
    /\ UNCHANGED <<conn, acceptVars, gzip, readVars, tasks, waiters, free, writer, plain, cancelled>>

\* The write fails or times out.
WriteFails(c) ==
    /\ writer[c] = "running" /\ out[c] # << >>
    /\ writer' = [writer EXCEPT ![c] = "ended"]
    /\ out' = [out EXCEPT ![c] = << >>]
    /\ cancelled' = [cancelled EXCEPT ![c] = TRUE]
    /\ UNCHANGED <<conn, acceptVars, gzip, readVars, tasks, waiters, free, answered, plain>>

\* Every sender is gone: the loop and all tasks.
Senders(c) == conn[c] = "serving" \/ Active(c) # {}

\* Mutant: the writer ends with the read loop.
WriterEnds_WithLoop(c) ==
    /\ writer[c] = "running"
    /\ cancelled[c] \/ (conn[c] # "serving" /\ out[c] = << >>)
    /\ writer' = [writer EXCEPT ![c] = "ended"]
    /\ out' = [out EXCEPT ![c] = << >>]
    /\ UNCHANGED <<conn, acceptVars, gzip, readVars, tasks, waiters, free, answered, plain,
                   cancelled>>

WriterEnds(c) ==
    /\ writer[c] = "running"
    /\ cancelled[c] \/ (~Senders(c) /\ out[c] = << >>)
    /\ writer' = [writer EXCEPT ![c] = "ended"]
    /\ out' = [out EXCEPT ![c] = << >>]
    /\ UNCHANGED <<conn, acceptVars, gzip, readVars, tasks, waiters, free, answered, plain,
                   cancelled>>

Next ==
    \/ Stop \/ Grant
    \/ \E c \in Conns :
         \/ Accept(c) \/ RemoveSlot(c) \/ Handshake(c) \/ HandshakeFails(c)
         \/ \E op \in Ops, t \in BinTopics, size \in Sizes : ReadLength(c, op, t, size)
         \/ ReadBody(c) \/ KeyRevoked(c) \/ Dispatch(c) \/ SendPlain(c)
         \/ ReadEnds(c) \/ ReadFails(c) \/ Close(c)
         \/ \E n \in 1..MaxReads : Begin(c, n) \/ Finish(c, n) \/ Respond(c, n)
         \/ Write(c) \/ WriteFails(c) \/ WriterEnds(c)

\* Tasks that are ready run, and what a request waits for outside (the partition, the
\* disk, a leader) answers or gives up.
Fairness ==
    /\ WF_vars(Grant)
    /\ \A c \in Conns :
         /\ WF_vars(ReadBody(c) \/ ReadFails(c)) /\ WF_vars(Dispatch(c)) /\ WF_vars(SendPlain(c))
         /\ WF_vars(Write(c) \/ WriteFails(c) \/ WriterEnds(c))
         /\ \A n \in 1..MaxReads : WF_vars(Begin(c, n)) /\ WF_vars(Finish(c, n))
                                     /\ WF_vars(Respond(c, n))

Spec == Init /\ [][Next]_vars /\ Fairness

-----------------------------------------------------------------------------
(* Properties *)

Memory(c) ==
    (IF step[c] \in {"body", "permit", "send"} THEN reading[c].size ELSE 0)
      + MapThenSumSet(LAMBDA n : tasks[c][n].size
                        + (IF tasks[c][n].state = "running" /\ gzip[c] THEN Inflated ELSE 0),
                      Active(c))

\* Types.
TypeOK ==
    /\ \A c \in Conns : /\ step[c] \in {"frame", "memory", "body", "permit", "send"}
                        /\ Len(out[c]) <= OutCapacity
                        /\ Cardinality(Active(c)) <= MaxInflight
    /\ free \in 0..Budget

\* Every permit of the byte budget is free or held by one request, from the length of its
\* frame to its answer, also when its connection fails in between.  binary/server.rs, serve,
\* process.
BudgetExact == free = Budget - MapThenSumSet(Memory, Conns)

\* Connections of an address are counted exactly, and no more of them are open than its
\* limit: a slot that is dropped while another is taken never hides a connection from it.
\* binary/server.rs, IpSlot, serve_binary.
PerIpExact ==
    \A a \in Addrs :
       LET open == {c \in Conns : addr[c] = a /\ conn[c] \in {"hello", "serving", "draining"}}
       IN  Max0(perIp[a]) = Cardinality(open) /\ Cardinality(open) <= MaxPerIp

\* Produces of one connection to one topic are processed one at a time, in the order they
\* were read, whatever memory each of them waits for.  binary/server.rs, serve.
ProduceOrder ==
    \A c \in Conns : \A k \in DOMAIN tasks[c] : \A j \in 1..(k - 1) :
       /\ tasks[c][j].op = "produce" /\ tasks[c][k].op = "produce"
       /\ tasks[c][j].topic = tasks[c][k].topic
       /\ tasks[c][k].state # "chained"
       => tasks[c][j].state \in {"answering", "done"}

\* The answers of all requests that were read are written before the writer ends, unless
\* the connection failed or the server stops.  binary/server.rs, serve, writer_loop.
AnsweredBeforeClose ==
    \A c \in Conns : writer[c] = "ended" /\ ~cancelled[c] => answered[c] = DOMAIN tasks[c]

\* All memory that is not free is held by requests that wait for more: nothing gives any
\* back.
Stuck ==
    /\ waiters # << >> /\ Head(waiters).amount > free
    /\ \A c \in Conns : /\ step[c] \notin {"body", "send"}
                        /\ \A n \in Active(c) : tasks[c][n].state \in {"chained", "reserving"}

\* Every request that was read is answered, or its connection failed.
AllAnswered == \A c \in Conns : cancelled[c] \/ answered[c] = DOMAIN tasks[c]
=============================================================================
