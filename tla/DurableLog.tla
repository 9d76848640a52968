------------------------------ MODULE DurableLog ------------------------------
(***************************************************************************)
(* What a partition promises its producers: writes are numbered in order,  *)
(* become durable in any order, are never lost once durable, and a caller  *)
(* is told that write k is durable only when writes 1 to k all are.        *)
(***************************************************************************)
EXTENDS Integers

VARIABLES
    written,    \* number of writes
    durable,    \* the writes a crash cannot destroy
    acked       \* the highest write promised durable

dvars == <<written, durable, acked>>

Init ==
    /\ written = 0
    /\ durable = {}
    /\ acked = 0

Write ==
    /\ written' = written + 1
    /\ UNCHANGED <<durable, acked>>

\* Some writes reach the disk, and callers whose whole prefix is there may be
\* told so.
HardenAndAck ==
    /\ durable \subseteq durable'
    /\ durable' \subseteq 1..written
    /\ acked' \in Nat
    /\ acked' >= acked
    /\ 1..acked' \subseteq durable'
    /\ UNCHANGED written

Next == Write \/ HardenAndAck

Spec == Init /\ [][Next]_dvars
=============================================================================
