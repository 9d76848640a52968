-------------------------- MODULE PipelinedClient --------------------------
(***************************************************************************)
(* The pipelined client, binary/pipelined.rs: many calls on one            *)
(* connection, a table of pending calls, and a reader task that hands each *)
(* answer to its call.  The server answers in any order and may close.     *)
(***************************************************************************)
EXTENDS Integers, Sequences, FiniteSets

CONSTANT Calls

VARIABLES
    call,       \* call -> "new", "pending", "waiting", "answered", "failed", "dropped"
    pending,    \* the table
    asked,      \* requests the server has
    answers,    \* answers under way
    peer,       \* "up", "closed"
    reader,     \* "running", "failing", "ended"
    failing,    \* what fail_all collected
    cancel,     \* the client's token
    closing,    \* shutdown: "no", "joining", "failing", "done"
    late        \* history: calls that fail_all did not see and none after it will

vars == <<call, pending, asked, answers, peer, reader, failing, cancel, closing, late>>

Init ==
    /\ call = [k \in Calls |-> "new"]
    /\ pending = {} /\ asked = {} /\ answers = << >> /\ peer = "up"
    /\ reader = "running" /\ failing = {} /\ cancel = FALSE /\ closing = "no" /\ late = {}

\* round_trip: the call enters the table
Insert(k) ==
    /\ call[k] = "new"
    /\ call' = [call EXCEPT ![k] = "pending"]
    /\ pending' = pending \union {k}
    /\ late' = IF reader # "running" THEN late \union {k} ELSE late
    /\ UNCHANGED <<asked, answers, peer, reader, failing, cancel, closing>>

\* The frame is too large, or it cannot be written.  A payload that cannot be
\* compressed leaves its entry in the table.
Abandon(k) ==
    /\ call[k] = "pending"
    /\ call' = [call EXCEPT ![k] = "failed"]
    /\ pending' \in {pending, pending \ {k}}
    /\ UNCHANGED <<asked, answers, peer, reader, failing, cancel, closing, late>>

\* The frame is written; a connection that the other end closed may take it too.
Write(k) ==
    /\ call[k] = "pending"
    /\ call' = [call EXCEPT ![k] = "waiting"]
    /\ asked' = IF peer = "up" THEN asked \union {k} ELSE asked
    /\ UNCHANGED <<pending, answers, peer, reader, failing, cancel, closing, late>>

\* The caller no longer waits; its entry stays.
DropCall(k) ==
    /\ call[k] \in {"pending", "waiting"}
    /\ call' = [call EXCEPT ![k] = "dropped"]
    /\ UNCHANGED <<pending, asked, answers, peer, reader, failing, cancel, closing, late>>

\* The server
Answer(k) ==
    /\ k \in asked /\ peer = "up"
    /\ asked' = asked \ {k}
    /\ answers' = Append(answers, k)
    /\ UNCHANGED <<call, pending, peer, reader, failing, cancel, closing, late>>

PeerCloses ==
    /\ peer = "up"
    /\ peer' = "closed"
    /\ asked' = {}
    /\ UNCHANGED <<call, pending, answers, reader, failing, cancel, closing, late>>

\* What a call that is taken from the table gets, if its caller still waits.
Outcome(ks, outcome) ==
    [k \in Calls |-> IF k \in ks /\ call[k] \in {"pending", "waiting"} THEN outcome ELSE call[k]]

\* reader_loop: an answer is handed to its call
ReadAnswer ==
    /\ reader = "running" /\ answers # << >>
    /\ answers' = Tail(answers)
    /\ call' = Outcome({Head(answers)} \intersect pending, "answered")
    /\ pending' = pending \ {Head(answers)}
    /\ UNCHANGED <<asked, peer, reader, failing, cancel, closing, late>>

\* Mutant: the reader leaves without failing the calls that wait.
ReaderEnds_Quietly ==
    /\ reader = "running" /\ (cancel \/ (peer = "closed" /\ answers = << >>))
    /\ reader' = "failing"
    /\ failing' = {}
    /\ UNCHANGED <<call, pending, asked, answers, peer, cancel, closing, late>>

\* The connection ended, or the client is shut down: fail_all collects what is pending.
ReaderEnds ==
    /\ reader = "running" /\ (cancel \/ (peer = "closed" /\ answers = << >>))
    /\ reader' = "failing"
    /\ failing' = pending
    /\ UNCHANGED <<call, pending, asked, answers, peer, cancel, closing, late>>

\* A frame that cannot be parsed or inflated ends the reader, answers under way or not.
BadFrame ==
    /\ reader = "running" /\ answers # << >>
    /\ answers' = Tail(answers)
    /\ reader' = "failing"
    /\ failing' = pending
    /\ UNCHANGED <<call, pending, asked, peer, cancel, closing, late>>

\* fail_all fails a call it collected.
FailOne(k) ==
    /\ k \in failing
    /\ failing' = failing \ {k}
    /\ call' = Outcome({k} \intersect pending, "failed")
    /\ pending' = pending \ {k}
    /\ UNCHANGED <<asked, answers, peer, reader, cancel, closing, late>>

ReaderDone ==
    /\ reader = "failing" /\ failing = {}
    /\ reader' = "ended"
    /\ UNCHANGED <<call, pending, asked, answers, peer, failing, cancel, closing, late>>

\* shutdown: cancel, join the reader, fail_all once more
Shutdown ==
    /\ closing = "no"
    /\ cancel' = TRUE
    /\ closing' = "joining"
    /\ UNCHANGED <<call, pending, asked, answers, peer, reader, failing, late>>

Joined ==
    /\ closing = "joining" /\ reader = "ended"
    /\ closing' = "failing"
    /\ failing' = pending
    /\ late' = late \ pending
    /\ UNCHANGED <<call, pending, asked, answers, peer, reader, cancel>>

ShutdownDone ==
    /\ closing = "failing" /\ failing = {}
    /\ closing' = "done"
    /\ UNCHANGED <<call, pending, asked, answers, peer, reader, failing, cancel, late>>

Next ==
    \/ \E k \in Calls : Insert(k) \/ Abandon(k) \/ Write(k) \/ DropCall(k) \/ Answer(k) \/ FailOne(k)
    \/ PeerCloses \/ ReadAnswer \/ BadFrame \/ ReaderEnds \/ ReaderDone \/ Shutdown \/ Joined \/ ShutdownDone

\* A caller and the reader run when they can; the server answers or closes.
Fairness ==
    /\ WF_vars(ReadAnswer \/ BadFrame) /\ WF_vars(ReaderEnds)
    /\ \A k \in Calls : WF_vars(Write(k) \/ Abandon(k)) /\ WF_vars(FailOne(k))
                          /\ WF_vars(Answer(k) \/ PeerCloses)

Spec == Init /\ [][Next]_vars /\ Fairness

-----------------------------------------------------------------------------
(* Properties *)

\* Types; a call that waits is in the table, where an answer or fail_all finds it.
TypeOK ==
    /\ failing \subseteq Calls /\ late \subseteq Calls
    /\ \A k \in Calls : call[k] \in {"pending", "waiting"} => k \in pending

\* The calls that have not ended began after the reader left: only shutdown ends those.
AllEnded == \A k \in Calls : call[k] \in {"pending", "waiting"} => k \in late
=============================================================================
