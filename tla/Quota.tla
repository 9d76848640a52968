-------------------------------- MODULE Quota --------------------------------
(***************************************************************************)
(* The byte quotas of one API key: Bucket of auth.rs and its use by        *)
(* dataplane.rs.  A produce takes its bytes before the write.  A consume   *)
(* is let in while the bucket is not in debt and is charged what it        *)
(* returned, so several can be let in together.                            *)
(*                                                                         *)
(* Time passes in units in which the bucket gains one byte.                *)
(***************************************************************************)
EXTENDS Integers, FiniteSets, FiniteSetsExt

CONSTANTS
    Rate,           \* bytes per second, and the size of the bucket
    DebtSeconds,    \* debt is forgiven beyond this many seconds' worth
    Readers,        \* consumes that run at the same time
    MaxFetch,       \* the largest answer to a consume
    MaxTime         \* bound

VARIABLES
    produce,        \* the produce bucket: tokens, and when they were last counted
    consume,        \* the consume bucket
    reading,        \* reader -> it was let in and not yet charged
    now,
    seen            \* history: since when, and bytes let in, returned and forgiven since

vars == <<produce, consume, reading, now, seen>>

Full == [tokens |-> Rate, last |-> 0]

Init ==
    /\ produce = Full /\ consume = Full
    /\ reading = [r \in Readers |-> FALSE]
    /\ now = 0
    /\ seen = [at |-> 0, produced |-> 0, consumed |-> 0, forgiven |-> 0]

\* Mutant: the bucket is refilled without a top.
Refill_Open(b) == [tokens |-> b.tokens + (now - b.last), last |-> now]

Refill(b) == [tokens |-> Min({b.tokens + (now - b.last), Rate}), last |-> now]

Tick ==
    /\ now < MaxTime
    /\ now' = now + 1
    /\ UNCHANGED <<produce, consume, reading, seen>>

\* A stretch of time to look at begins.
Watch ==
    /\ seen.at # now
    /\ seen' = [at |-> now, produced |-> 0, consumed |-> 0, forgiven |-> 0]
    /\ UNCHANGED <<produce, consume, reading, now>>

\* check_produce: try_take.  A refused request changes the time of the bucket only.
Produce(n) ==
    /\ LET b == Refill(produce)
       IN IF n <= Rate /\ n <= b.tokens
          THEN produce' = [b EXCEPT !.tokens = @ - n] /\ seen' = [seen EXCEPT !.produced = @ + n]
          ELSE produce' = b /\ UNCHANGED seen
    /\ UNCHANGED <<consume, reading, now>>

\* check_consume: check_credit
StartRead(r) ==
    /\ ~reading[r]
    /\ consume' = Refill(consume)
    /\ reading' = [reading EXCEPT ![r] = Refill(consume).tokens > 0]
    /\ UNCHANGED <<produce, now, seen>>

\* Mutant: what the bucket does not have is not charged.
EndRead_NoDebt(r, n) ==
    /\ reading[r]
    /\ consume' = [Refill(consume) EXCEPT !.tokens = IF n <= @ THEN @ - n ELSE @]
    /\ seen' = [seen EXCEPT !.consumed = @ + n]
    /\ reading' = [reading EXCEPT ![r] = FALSE]
    /\ UNCHANGED <<produce, now>>

\* charge_consume: charge
EndRead(r, n) ==
    /\ reading[r]
    /\ LET b == Refill(consume)
           floor == -(DebtSeconds * Rate)
       IN /\ consume' = [b EXCEPT !.tokens = Max({@ - n, floor})]
          /\ seen' = [seen EXCEPT !.consumed = @ + n,
                                  !.forgiven = @ + Max({floor - (b.tokens - n), 0})]
    /\ reading' = [reading EXCEPT ![r] = FALSE]
    /\ UNCHANGED <<produce, now>>

Next ==
    \/ Tick \/ Watch
    \/ \E n \in 1..(Rate + 1) : Produce(n)
    \/ \E r \in Readers : StartRead(r) \/ \E n \in 0..MaxFetch : EndRead(r, n)

Spec == Init /\ [][Next]_vars

-----------------------------------------------------------------------------
(* Properties *)

\* Types; a produce never runs into debt, a consume never beyond the limit.
TypeOK ==
    /\ produce.tokens \in Nat
    /\ consume.tokens \in Int /\ consume.tokens >= -(DebtSeconds * Rate)
    /\ produce.last \in 0..now /\ consume.last \in 0..now

\* Over any stretch of time produces get one second's burst and what the rate allows,
\* however long the key was idle before.  auth.rs, try_take.
ProduceWithinRate == seen.produced <= Rate + (now - seen.at)

\* Consumes go over by at most one answer each of those let in together, and by the debt
\* that was forgiven: the debt of an answer holds back the next ones.  auth.rs, charge.
ConsumeWithinRate ==
    seen.consumed <= Rate + (now - seen.at) + Cardinality(Readers) * MaxFetch + seen.forgiven
=============================================================================
