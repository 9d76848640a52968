----------------------------- MODULE AdminStores -----------------------------
(***************************************************************************)
(* What an administrator works with beside topics: API keys, schemas, the  *)
(* quotas of a key, and the restore of a backup.  Their code shares no     *)
(* state, so they take their steps in any order.                           *)
(***************************************************************************)
EXTENDS Integers, FiniteSets

CONSTANTS
    KeyIds, NoKey, KeyAdmins, Conns, MaxRevocations, KeyFaults,
    Subjects, Fields, Types, Absent, Candidates, MaxSchemas, MaxIds, SchemaFaults,
    Rate, DebtSeconds, Readers, MaxFetch, MaxTime,
    Pids, MaxRuns, MaxClock

VARIABLES
    keys, revocations, keyFile, persistLock, admin, conn, keyFaults, created, revoked, durableOff,
    schemas, subjects, nextId, schemaFile, reg, schemaFaults, acked, chain, reloaded,
    produce, consume, reading, now, seen,
    data, staging, aside, proc, clock, runs, held

keysVars == <<keys, revocations, keyFile, persistLock, admin, conn, keyFaults, created, revoked,
              durableOff>>
schemasVars == <<schemas, subjects, nextId, schemaFile, reg, schemaFaults, acked, chain, reloaded>>
quotasVars == <<produce, consume, reading, now, seen>>
restoreVars == <<data, staging, aside, proc, clock, runs, held>>

adminVars == <<keysVars, schemasVars, quotasVars, restoreVars>>

K == INSTANCE KeyStore WITH Admins <- KeyAdmins, file <- keyFile
S == INSTANCE SchemaStore WITH file <- schemaFile
Q == INSTANCE Quota
R == INSTANCE Restore

ASSUME AdminStoresAssumption ==
    /\ NoKey \notin KeyAdmins
    /\ Candidates \subseteq S!Schema /\ MaxIds \in Nat
    /\ Rate \in Nat /\ DebtSeconds \in Nat /\ MaxFetch \in Nat /\ IsFiniteSet(Readers)
    /\ MaxClock \in Nat

AdminInit == K!Init /\ S!Init /\ Q!Init /\ R!Init

AdminNext ==
    \/ K!Next /\ UNCHANGED <<schemasVars, quotasVars, restoreVars>>
    \/ S!Next /\ UNCHANGED <<keysVars, quotasVars, restoreVars>>
    \/ Q!Next /\ UNCHANGED <<keysVars, schemasVars, restoreVars>>
    \/ R!Next /\ UNCHANGED <<keysVars, schemasVars, quotasVars>>

AdminSpec == AdminInit /\ [][AdminNext]_adminVars

-----------------------------------------------------------------------------
(* Properties *)

\* Keys: what was answered is on disk (auth.rs, persist), and a revocation reaches the open
\* connections (binary/server.rs, serve).
KeysAnswered == K!TypeOK /\ K!AnsweredIsDurable /\ K!RevocationReaches

\* Schemas: an answered id names its schema for ever, a subject is served by its newest
\* version, and that accepts the data of the one before (schema.rs, register,
\* latest_version, check_compatibility).
SchemasServed == S!TypeOK /\ S!AnsweredIdsStay /\ S!LatestIsServed /\ S!OldDataAccepted

\* Quotas: over any stretch of time produces keep to the rate, and consumes but for answers
\* under way together (auth.rs, try_take, charge).
WithinRate == Q!TypeOK /\ Q!ProduceWithinRate /\ Q!ConsumeWithinRate

\* Restore: nothing the data directory has held is lost, and it never holds a part of an
\* archive (es-tools, restore.rs).
RestoresKeep == R!TypeOK /\ R!OldDataKept /\ R!NeverPartial
=============================================================================
