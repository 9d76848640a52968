------------------------------ MODULE KeyStore ------------------------------
(***************************************************************************)
(* API keys, auth.rs: keys are created and revoked in memory, then the     *)
(* whole store is written to api_keys.json.  A binary connection keeps the *)
(* key it authenticated with, and looks at it again when the number of     *)
(* revocations has moved (binary/server.rs); an HTTP request authenticates *)
(* every time (http/auth_ext.rs).                                          *)
(***************************************************************************)
EXTENDS Integers, FiniteSets

CONSTANTS
    KeyIds,
    NoKey,          \* model value
    Admins,         \* handlers of admin_keys.rs that run at the same time
    Conns,          \* binary connections
    MaxRevocations, \* bound: revocations of one life of the broker
    KeyFaults       \* bound: failed writes

VARIABLES
    keys,           \* key -> "none", "on", "off" (disabled)
    revocations,
    file,           \* api_keys.json
    persistLock,    \* the admin request that holds it, or NoKey
    admin,          \* admin request -> what it is doing
    conn,           \* connection -> its state
    keyFaults,
    created,        \* history: keys whose creation was answered
    revoked,        \* history: keys whose revocation was answered
    durableOff      \* history: keys whose revocation was answered with success

vars == <<keys, revocations, file, persistLock, admin, conn, keyFaults, created, revoked,
          durableOff>>

Idle   == [pc |-> "idle", key |-> NoKey, create |-> FALSE, snapshot |-> [k \in KeyIds |-> "none"]]
Closed == [pc |-> "closed", key |-> NoKey, epoch |-> 0, straddled |-> FALSE]

Init ==
    /\ keys = [k \in KeyIds |-> "none"]
    /\ revocations = 0
    /\ file = keys
    /\ persistLock = NoKey
    /\ admin = [a \in Admins |-> Idle]
    /\ conn = [c \in Conns |-> Closed]
    /\ keyFaults = 0
    /\ created = {} /\ revoked = {} /\ durableOff = {}

-----------------------------------------------------------------------------
(* create_key, revoke, persist *)

\* create_key.  The bootstrap key of open is created the same way.
Create(a, k) ==
    /\ admin[a].pc = "idle" /\ keys[k] = "none"
    /\ keys' = [keys EXCEPT ![k] = "on"]
    /\ admin' = [admin EXCEPT ![a] = [Idle EXCEPT !.pc = "persist", !.key = k, !.create = TRUE]]
    /\ UNCHANGED <<revocations, file, persistLock, conn, keyFaults, created, revoked, durableOff>>

Revoke(a, k) ==
    /\ admin[a].pc = "idle" /\ keys[k] # "none" /\ revocations < MaxRevocations
    /\ admin' = [admin EXCEPT ![a] = [Idle EXCEPT !.pc = "disable", !.key = k]]
    /\ UNCHANGED <<keys, revocations, file, persistLock, conn, keyFaults, created, revoked,
                   durableOff>>

\* Connections that have authenticated and not yet read the number of revocations.
Straddle(k) ==
    [c \in Conns |-> IF conn[c].pc = "authenticated" /\ conn[c].key = k
                     THEN [conn[c] EXCEPT !.straddled = TRUE] ELSE conn[c]]

\* The disabled key replaces the one that was looked up.
Disable(a) ==
    /\ admin[a].pc = "disable"
    /\ keys' = [keys EXCEPT ![admin[a].key] = "off"]
    /\ conn' = Straddle(admin[a].key)
    /\ admin' = [admin EXCEPT ![a].pc = "bump"]
    /\ UNCHANGED <<revocations, file, persistLock, keyFaults, created, revoked, durableOff>>

\* Mutant: a revocation does not tell the open connections.
Bump_Missing(a) ==
    /\ admin[a].pc = "bump"
    /\ admin' = [admin EXCEPT ![a].pc = "persist"]
    /\ UNCHANGED <<keys, revocations, file, persistLock, conn, keyFaults, created, revoked,
                   durableOff>>

Bump(a) ==
    /\ admin[a].pc = "bump"
    /\ revocations' = revocations + 1
    /\ admin' = [admin EXCEPT ![a].pc = "persist"]
    /\ UNCHANGED <<keys, file, persistLock, conn, keyFaults, created, revoked, durableOff>>

\* Mutant: the snapshot is taken without the lock.
Snapshot_Unlocked(a) ==
    /\ admin[a].pc = "persist"
    /\ admin' = [admin EXCEPT ![a].pc = "write", ![a].snapshot = keys]
    /\ UNCHANGED <<keys, revocations, persistLock, file, conn, keyFaults, created, revoked,
                   durableOff>>

\* persist takes its lock, then the snapshot.
Snapshot(a) ==
    /\ admin[a].pc = "persist" /\ persistLock = NoKey
    /\ persistLock' = a
    /\ admin' = [admin EXCEPT ![a].pc = "write", ![a].snapshot = keys]
    /\ UNCHANGED <<keys, revocations, file, conn, keyFaults, created, revoked, durableOff>>

Answered(a) ==
    /\ admin' = [admin EXCEPT ![a] = Idle]
    /\ persistLock' = NoKey
    /\ revoked' = IF admin[a].create THEN revoked ELSE revoked \cup {admin[a].key}

\* write_json_atomic, and the answer
Write(a) ==
    /\ admin[a].pc = "write"
    /\ file' = admin[a].snapshot
    /\ created' = IF admin[a].create THEN created \cup {admin[a].key} ELSE created
    /\ durableOff' = IF admin[a].create THEN durableOff ELSE durableOff \cup {admin[a].key}
    /\ Answered(a)
    /\ UNCHANGED <<keys, revocations, conn, keyFaults>>

\* The write fails, before its rename or after it: memory keeps the change.
WriteFails(a) ==
    /\ admin[a].pc = "write" /\ keyFaults < KeyFaults
    /\ file' \in {file, admin[a].snapshot}
    /\ Answered(a)
    /\ keyFaults' = keyFaults + 1
    /\ UNCHANGED <<keys, revocations, conn, created, durableOff>>

-----------------------------------------------------------------------------
(* Connections *)

\* authenticate, in the handshake.  The secret of a key is known once it was answered.
Authenticate(c, k) ==
    /\ conn[c].pc = "closed" /\ k \in created /\ keys[k] = "on"
    /\ conn' = [conn EXCEPT ![c] = [Closed EXCEPT !.pc = "authenticated", !.key = k]]
    /\ UNCHANGED <<keys, revocations, file, persistLock, admin, keyFaults, created, revoked,
                   durableOff>>

LoadEpoch(c) ==
    /\ conn[c].pc = "authenticated"
    /\ conn' = [conn EXCEPT ![c].pc = "open", ![c].epoch = revocations]
    /\ UNCHANGED <<keys, revocations, file, persistLock, admin, keyFaults, created, revoked,
                   durableOff>>

\* The read loop has a frame and finds that the epoch has moved.
Notice(c) ==
    /\ conn[c].pc = "open" /\ conn[c].epoch # revocations
    /\ conn' = [conn EXCEPT ![c].pc = "recheck", ![c].epoch = revocations]
    /\ UNCHANGED <<keys, revocations, file, persistLock, admin, keyFaults, created, revoked,
                   durableOff>>

\* get_enabled: the connection goes on or is closed.
Recheck(c) ==
    /\ conn[c].pc = "recheck"
    /\ conn' = [conn EXCEPT ![c] = IF keys[@.key] = "on" THEN [@ EXCEPT !.pc = "open", !.straddled = FALSE]
                                   ELSE Closed]
    /\ UNCHANGED <<keys, revocations, file, persistLock, admin, keyFaults, created, revoked,
                   durableOff>>

Disconnect(c) ==
    /\ conn[c].pc # "closed"
    /\ conn' = [conn EXCEPT ![c] = Closed]
    /\ UNCHANGED <<keys, revocations, file, persistLock, admin, keyFaults, created, revoked,
                   durableOff>>

-----------------------------------------------------------------------------

\* The broker stops and KeyStore::open reads the file.  A revocation that could not be
\* written is undone.
Crash ==
    /\ keys' = file
    /\ revocations' = 0
    /\ persistLock' = NoKey
    /\ admin' = [a \in Admins |-> Idle]
    /\ conn' = [c \in Conns |-> Closed]
    /\ revoked' = {k \in revoked : file[k] = "off"}
    /\ UNCHANGED <<file, keyFaults, created, durableOff>>

Next ==
    \/ \E a \in Admins, k \in KeyIds : Create(a, k) \/ Revoke(a, k)
    \/ \E a \in Admins : Disable(a) \/ Bump(a) \/ Snapshot(a) \/ Write(a) \/ WriteFails(a)
    \/ \E c \in Conns, k \in KeyIds : Authenticate(c, k)
    \/ \E c \in Conns : LoadEpoch(c) \/ Notice(c) \/ Recheck(c) \/ Disconnect(c)
    \/ Crash

Spec == Init /\ [][Next]_vars

-----------------------------------------------------------------------------
(* Properties *)

State == {"none", "on", "off"}

\* Types.
TypeOK ==
    /\ keys \in [KeyIds -> State] /\ file \in [KeyIds -> State]
    /\ revocations \in Nat
    /\ persistLock \in Admins \cup {NoKey}
    /\ \A c \in Conns : conn[c].pc \in {"closed", "authenticated", "open", "recheck"}

\* An answered creation or revocation is on disk, however the two are interleaved with
\* others: no later write brings back an older state.  auth.rs, persist.
AnsweredIsDurable ==
    /\ \A k \in created : file[k] # "none"
    /\ \A k \in durableOff : file[k] = "off"

\* A connection that takes its next frame without looking at its key again does not hold
\* a key whose revocation was answered, unless the revocation fell between the
\* connection's authentication and its first read of the epoch.  binary/server.rs, serve.
RevocationReaches ==
    \A c \in Conns :
       conn[c].pc = "open" /\ conn[c].epoch = revocations /\ ~conn[c].straddled =>
         conn[c].key \notin revoked
=============================================================================
