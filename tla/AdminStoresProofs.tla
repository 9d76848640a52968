-------------------------- MODULE AdminStoresProofs --------------------------
(***************************************************************************)
(* For any number of keys, requests, connections, subjects, schemas,       *)
(* readers, restores, failed writes and crashes, and for every rate: what  *)
(* AdminStores promises of the keys, the schemas, the quotas and restores. *)
(***************************************************************************)
EXTENDS AdminStores, FiniteSetTheorems, TLAPS

-----------------------------------------------------------------------------
(* Keys: auth.rs, binary/server.rs *)

\* Types of the requests of administrators, of connections, and of the whole.
AdminRecord ==
    [pc : {"idle", "disable", "bump", "persist", "write"}, key : KeyIds \cup {NoKey},
     create : BOOLEAN, snapshot : [KeyIds -> K!State]]

ConnRecord ==
    [pc : {"closed", "authenticated", "open", "recheck"}, key : KeyIds \cup {NoKey},
     epoch : Nat, straddled : BOOLEAN]

KeyTypes ==
    /\ keys \in [KeyIds -> K!State] /\ keyFile \in [KeyIds -> K!State]
    /\ revocations \in Nat
    /\ persistLock \in KeyAdmins \cup {NoKey}
    /\ admin \in [KeyAdmins -> AdminRecord]
    /\ conn \in [Conns -> ConnRecord]
    /\ created \subseteq KeyIds /\ revoked \subseteq KeyIds /\ durableOff \subseteq KeyIds
    /\ \A a \in KeyAdmins : admin[a].pc # "idle" => admin[a].key \in KeyIds

\* A key is created, then disabled: x is not behind y.
NotBehind(x, y) == y = "none" \/ y = x \/ x = "off"

\* persist has one writer at a time, and what it writes lies between file and memory.
OneWriter ==
    /\ \A k \in KeyIds : NotBehind(keys[k], keyFile[k])
    /\ \A a \in KeyAdmins :
         admin[a].pc = "write" =>
           /\ persistLock = a
           /\ \A k \in KeyIds : /\ NotBehind(keys[k], admin[a].snapshot[k])
                                /\ NotBehind(admin[a].snapshot[k], keyFile[k])

\* x is what a change of this kind makes of its key.
Done(create, x) == IF create THEN x # "none" ELSE x = "off"

\* A request has made its change before it persists, and its snapshot has it.
ChangesMade ==
    \A a \in KeyAdmins :
       /\ admin[a].pc \in {"disable", "bump"} => ~admin[a].create
       /\ admin[a].pc = "disable" => keys[admin[a].key] # "none"
       /\ admin[a].pc = "bump" => keys[admin[a].key] = "off"
       /\ admin[a].pc = "persist" => Done(admin[a].create, keys[admin[a].key])
       /\ admin[a].pc = "write" => Done(admin[a].create, admin[a].snapshot[admin[a].key])

DiskInv == KeyTypes /\ OneWriter /\ ChangesMade /\ K!AnsweredIsDurable

-----------------------------------------------------------------------------

\* An empty store satisfies the invariant.
LEMMA DiskInit == K!Init => DiskInv
<1> SUFFICES ASSUME K!Init PROVE DiskInv
  BY Zenon
<1>1. KeyTypes
  BY Zenon DEF K!Init, KeyTypes, K!Idle, K!Closed, AdminRecord, ConnRecord, K!State
<1>2. OneWriter /\ ChangesMade /\ K!AnsweredIsDurable
  BY Zenon DEF K!Init, OneWriter, ChangesMade, K!AnsweredIsDurable, K!Idle, NotBehind
<1> QED
  BY <1>1, <1>2, Zenon DEF DiskInv

\* Steps of the connections touch nothing else.
ConnStep ==
    \/ \E c \in Conns, k \in KeyIds : K!Authenticate(c, k)
    \/ \E c \in Conns : K!LoadEpoch(c) \/ K!Notice(c) \/ K!Recheck(c) \/ K!Disconnect(c)

\* Every step keeps the types.
LEMMA KeyTypesStep == KeyTypes /\ [K!Next]_(K!vars) => KeyTypes'
<1> SUFFICES ASSUME KeyTypes, [K!Next]_(K!vars) PROVE KeyTypes'
  BY Zenon
<1> USE DEF KeyTypes, K!State
<1>1. ASSUME NEW a \in KeyAdmins, NEW k \in KeyIds, K!Create(a, k) PROVE KeyTypes'
  BY <1>1, Zenon DEF K!Create, K!Idle, AdminRecord
<1>2. ASSUME NEW a \in KeyAdmins, NEW k \in KeyIds, K!Revoke(a, k) PROVE KeyTypes'
  BY <1>2, Zenon DEF K!Revoke, K!Idle, AdminRecord
<1>3. ASSUME NEW a \in KeyAdmins, K!Disable(a) PROVE KeyTypes'
  <2>1. conn' \in [Conns -> ConnRecord]
    BY <1>3, ZenonT(30) DEF K!Disable, K!Straddle, ConnRecord
  <2> QED
    BY SMTT(30), <1>3, <2>1 DEF K!Disable, AdminRecord
<1>4. ASSUME NEW a \in KeyAdmins, K!Bump(a) PROVE KeyTypes'
  BY <1>4 DEF K!Bump, AdminRecord
<1>5. ASSUME NEW a \in KeyAdmins, K!Snapshot(a) PROVE KeyTypes'
  <2>1. [admin[a] EXCEPT !.pc = "write", !.snapshot = keys] \in AdminRecord
    BY ZenonT(30) DEF AdminRecord
  <2>2. admin' = [admin EXCEPT ![a] = [admin[a] EXCEPT !.pc = "write", !.snapshot = keys]]
    BY <1>5, Zenon DEF K!Snapshot
  <2>3. admin'[a].key = admin[a].key /\ admin[a].pc # "idle"
    BY <1>5, <2>2 DEF K!Snapshot, AdminRecord
  <2> QED
    BY <1>5, <2>1, <2>2, <2>3, Zenon DEF K!Snapshot
<1>6. ASSUME NEW a \in KeyAdmins, K!Write(a) \/ K!WriteFails(a) PROVE KeyTypes'
  <2>0. K!Idle \in AdminRecord
    BY Zenon DEF K!Idle, AdminRecord
  <2>1. admin' \in [KeyAdmins -> AdminRecord]
    BY <1>6, <2>0, Zenon DEF K!Write, K!WriteFails, K!Answered
  <2>3. admin[a].snapshot \in [KeyIds -> K!State]
    BY Zenon DEF AdminRecord
  <2>2. /\ created' \subseteq KeyIds /\ revoked' \subseteq KeyIds
        /\ durableOff' \subseteq KeyIds
    BY <1>6, Zenon DEF K!Write, K!WriteFails, K!Answered
  <2> QED
    BY <1>6, <2>1, <2>2, <2>3 DEF K!Write, K!WriteFails, K!Answered, K!Idle
<1>7. CASE ConnStep
  <2>0. /\ K!Closed \in ConnRecord
        /\ \A k \in KeyIds : [K!Closed EXCEPT !.pc = "authenticated", !.key = k] \in ConnRecord
    BY Zenon DEF K!Closed, ConnRecord
  <2>1. conn' \in [Conns -> ConnRecord]
    <3>1. CASE \E c \in Conns, k \in KeyIds : K!Authenticate(c, k)
      BY <2>0, <3>1, Zenon DEF K!Authenticate
    <3>2. CASE \E c \in Conns : K!LoadEpoch(c) \/ K!Notice(c)
      <4>1. PICK c \in Conns : K!LoadEpoch(c) \/ K!Notice(c)
        BY <3>2, Zenon
      <4>2. \A l \in {"open", "recheck"} :
              [conn[c] EXCEPT !.pc = l, !.epoch = revocations] \in ConnRecord
        BY Zenon DEF ConnRecord
      <4>3. \E l \in {"open", "recheck"} :
              conn' = [conn EXCEPT ![c] = [conn[c] EXCEPT !.pc = l, !.epoch = revocations]]
        BY <4>1, Zenon DEF K!LoadEpoch, K!Notice
      <4> QED
        BY <4>2, <4>3, Zenon
    <3>3. CASE \E c \in Conns : K!Recheck(c)
      <4>1. PICK c \in Conns : K!Recheck(c)
        BY <3>3, Zenon
      <4>2. [conn[c] EXCEPT !.pc = "open", !.straddled = FALSE] \in ConnRecord
        BY Zenon DEF ConnRecord
      <4> QED
        BY <2>0, <4>1, <4>2, Zenon DEF K!Recheck
    <3>4. CASE \E c \in Conns : K!Disconnect(c)
      BY <2>0, <3>4, Zenon DEF K!Disconnect
    <3> QED
      BY <1>7, <3>1, <3>2, <3>3, <3>4, Zenon DEF ConnStep
  <2> QED
    BY <1>7, <2>1, Zenon DEF ConnStep, K!Authenticate, K!LoadEpoch, K!Notice, K!Recheck, K!Disconnect
<1>8. CASE K!Crash
  BY <1>8, Zenon DEF K!Crash, K!Idle, K!Closed, AdminRecord, ConnRecord
<1>9. CASE UNCHANGED K!vars
  BY <1>9, Zenon DEF K!vars
<1> QED
  BY <1>1, <1>2, <1>3, <1>4, <1>5, <1>6, <1>7, <1>8, <1>9, ZenonT(30) DEF K!Next, ConnStep

\* Every step keeps one writer, and its snapshot between file and memory.
LEMMA OneWriterStep ==
    ASSUME DiskInv, KeyTypes', [K!Next]_(K!vars)
    PROVE  OneWriter'
<1> USE DEF DiskInv, OneWriter
<1>1. ASSUME NEW a \in KeyAdmins, NEW k \in KeyIds, K!Create(a, k) PROVE OneWriter'
  BY <1>1 DEF K!Create, KeyTypes, K!State, NotBehind, K!Idle, AdminRecord
<1>2. ASSUME NEW a \in KeyAdmins, NEW k \in KeyIds, K!Revoke(a, k) PROVE OneWriter'
  BY <1>2, Zenon DEF K!Revoke, KeyTypes, K!Idle
<1>3. ASSUME NEW a \in KeyAdmins, K!Disable(a) PROVE OneWriter'
  <2>1. \A k \in KeyIds : NotBehind(keys'[k], keys[k])
    BY <1>3, Zenon DEF K!Disable, KeyTypes, NotBehind
  <2> QED
    BY <1>3, <2>1 DEF K!Disable, KeyTypes, NotBehind
<1>4. ASSUME NEW a \in KeyAdmins, K!Bump(a) PROVE OneWriter'
  BY <1>4 DEF K!Bump, KeyTypes
<1>5. ASSUME NEW a \in KeyAdmins, K!Snapshot(a) PROVE OneWriter'
  <2>1. /\ admin'[a].pc = "write" /\ admin'[a].snapshot = keys
        /\ \A b \in KeyAdmins \ {a} : admin'[b] = admin[b] /\ admin[b].pc # "write"
    BY <1>5, AdminStoresAssumption, Zenon DEF K!Snapshot, KeyTypes, AdminRecord
  <2>2. persistLock' = a /\ UNCHANGED <<keys, keyFile>>
    BY <1>5, Zenon DEF K!Snapshot
  <2> QED
    BY <2>1, <2>2 DEF NotBehind
<1>6. ASSUME NEW a \in KeyAdmins, K!Write(a) \/ K!WriteFails(a) PROVE OneWriter'
  <2>1. \A b \in KeyAdmins : admin'[b].pc # "write"
    BY <1>6 DEF K!Write, K!WriteFails, K!Answered, KeyTypes, K!Idle
  <2> QED
    BY <1>6, <2>1, Zenon DEF K!Write, K!WriteFails
<1>7. CASE ConnStep
  BY <1>7, Zenon DEF ConnStep, K!Authenticate, K!LoadEpoch, K!Notice, K!Recheck, K!Disconnect
<1>8. CASE K!Crash
  BY <1>8, Zenon DEF K!Crash, K!Idle, NotBehind
<1>9. CASE UNCHANGED K!vars
  BY <1>9, Zenon DEF K!vars
<1> QED
  BY <1>1, <1>2, <1>3, <1>4, <1>5, <1>6, <1>7, <1>8, <1>9, Zenon DEF K!Next, ConnStep

\* Every step keeps the changes of the requests under way.
LEMMA ChangesMadeStep ==
    ASSUME DiskInv, KeyTypes', [K!Next]_(K!vars)
    PROVE  ChangesMade'
<1> USE DEF DiskInv, ChangesMade, Done
<1>1. ASSUME NEW a \in KeyAdmins, NEW k \in KeyIds, K!Create(a, k) PROVE ChangesMade'
  BY <1>1, ZenonT(30) DEF K!Create, KeyTypes, K!Idle, AdminRecord
<1>2. ASSUME NEW a \in KeyAdmins, NEW k \in KeyIds, K!Revoke(a, k) PROVE ChangesMade'
  BY <1>2, Zenon DEF K!Revoke, KeyTypes, K!Idle
<1>3. ASSUME NEW a \in KeyAdmins, K!Disable(a) PROVE ChangesMade'
  BY SMTT(30), <1>3 DEF K!Disable, KeyTypes, AdminRecord
<1>4. ASSUME NEW a \in KeyAdmins, K!Bump(a) PROVE ChangesMade'
  BY <1>4 DEF K!Bump, KeyTypes, AdminRecord
<1>5. ASSUME NEW a \in KeyAdmins, K!Snapshot(a) PROVE ChangesMade'
  <2>1. /\ admin'[a].pc = "write" /\ admin'[a].snapshot = keys
        /\ admin'[a].key = admin[a].key /\ admin'[a].create = admin[a].create
        /\ \A b \in KeyAdmins \ {a} : admin'[b] = admin[b]
    BY <1>5 DEF K!Snapshot, KeyTypes, AdminRecord
  <2>2. admin[a].pc = "persist" /\ UNCHANGED keys
    BY <1>5, Zenon DEF K!Snapshot
  <2> QED
    BY SMTT(30), <2>1, <2>2
<1>6. ASSUME NEW a \in KeyAdmins, K!Write(a) \/ K!WriteFails(a) PROVE ChangesMade'
  BY <1>6 DEF K!Write, K!WriteFails, K!Answered, KeyTypes, K!Idle
<1>7. CASE ConnStep
  BY <1>7, Zenon DEF ConnStep, K!Authenticate, K!LoadEpoch, K!Notice, K!Recheck, K!Disconnect
<1>8. CASE K!Crash
  BY <1>8, Zenon DEF K!Crash, K!Idle
<1>9. CASE UNCHANGED K!vars
  BY <1>9, Zenon DEF K!vars
<1> QED
  BY <1>1, <1>2, <1>3, <1>4, <1>5, <1>6, <1>7, <1>8, <1>9, Zenon DEF K!Next, ConnStep

\* The file never goes back, and the write of a request has its change.
LEMMA AnsweredStep ==
    ASSUME DiskInv, [K!Next]_(K!vars)
    PROVE  K!AnsweredIsDurable'
<1> USE DEF DiskInv, K!AnsweredIsDurable
<1>1. ASSUME NEW a \in KeyAdmins, K!Write(a) \/ K!WriteFails(a) PROVE K!AnsweredIsDurable'
  <2>1. \A k \in KeyIds : NotBehind(keyFile'[k], keyFile[k])
    BY <1>1, Zenon DEF K!Write, K!WriteFails, OneWriter, NotBehind
  <2>2. Done(admin[a].create, admin[a].snapshot[admin[a].key]) /\ admin[a].key \in KeyIds
    BY <1>1, Zenon DEF K!Write, K!WriteFails, ChangesMade, KeyTypes
  <2>3. CASE K!Write(a)
    BY <2>1, <2>2, <2>3, Zenon DEF K!Write, Done, NotBehind, KeyTypes
  <2>4. CASE K!WriteFails(a)
    BY <2>1, <2>4, Zenon DEF K!WriteFails, NotBehind, KeyTypes
  <2> QED
    BY <1>1, <2>3, <2>4, Zenon
<1>2. CASE UNCHANGED <<keyFile, created, durableOff>>
  BY <1>2, Zenon
<1> QED
  BY <1>1, <1>2, Zenon DEF K!Next, K!Create, K!Revoke, K!Disable, K!Bump, K!Snapshot, K!Authenticate, K!LoadEpoch,
     K!Notice, K!Recheck, K!Disconnect, K!Crash, K!vars

-----------------------------------------------------------------------------
(* Revocation and the open connections *)

\* The requests that have told the connections of their revocation of k.
Announcing(k) ==
    {a \in KeyAdmins : /\ admin[a].pc \in {"persist", "write"}
                    /\ admin[a].key = k /\ ~admin[a].create}

\* A connection is behind the number of revocations once its key was revoked, unless the
\* revocation fell into its handshake; k is disabled from then on.
ConnInv ==
    /\ \A k \in revoked : keys[k] = "off"
    /\ \A c \in Conns :
         LET k == conn[c].key
         IN /\ conn[c].pc # "closed" => k \in KeyIds
            /\ conn[c].epoch <= revocations
            /\ conn[c].pc = "authenticated" /\ ~conn[c].straddled => keys[k] = "on"
            /\ /\ conn[c].pc = "open" /\ ~conn[c].straddled
               /\ k \in revoked \/ Announcing(k) # {}
               => conn[c].epoch < revocations

KeyInv == DiskInv /\ ConnInv

\* Every step keeps the connections behind what was revoked.
LEMMA ConnInvStep ==
    ASSUME KeyInv, DiskInv', [K!Next]_(K!vars)
    PROVE  ConnInv'
<1> USE DEF KeyInv, ConnInv, Announcing
<1>1. ASSUME NEW a \in KeyAdmins, NEW k \in KeyIds, K!Create(a, k) PROVE ConnInv'
  BY <1>1, Zenon DEF K!Create, DiskInv, KeyTypes, K!Idle
<1>2. ASSUME NEW a \in KeyAdmins, NEW k \in KeyIds, K!Revoke(a, k) PROVE ConnInv'
  BY SMTT(30), <1>2 DEF K!Revoke, DiskInv, KeyTypes, K!Idle
<1>3. ASSUME NEW a \in KeyAdmins, K!Disable(a) PROVE ConnInv'
  <2>1. \A c \in Conns :
          /\ conn'[c].pc = conn[c].pc /\ conn'[c].key = conn[c].key
          /\ conn'[c].epoch = conn[c].epoch
          /\ ~conn'[c].straddled => ~conn[c].straddled
          /\ conn[c].pc = "authenticated" /\ conn[c].key = admin[a].key => conn'[c].straddled
    BY <1>3 DEF K!Disable, K!Straddle, DiskInv, KeyTypes, ConnRecord
  <2>2. \A k : Announcing(k)' = Announcing(k)
    BY <1>3 DEF K!Disable, DiskInv, KeyTypes, AdminRecord
  <2> QED
    BY SMTT(30), <1>3, <2>1, <2>2 DEF K!Disable, DiskInv, KeyTypes
<1>4. ASSUME NEW a \in KeyAdmins, K!Bump(a) PROVE ConnInv'
  BY <1>4 DEF K!Bump, DiskInv, KeyTypes, ConnRecord
<1>5. ASSUME NEW a \in KeyAdmins, K!Snapshot(a) PROVE ConnInv'
  <2>1. \A b \in KeyAdmins :
          /\ admin'[b].key = admin[b].key /\ admin'[b].create = admin[b].create
          /\ admin'[b].pc \in {"persist", "write"} <=> admin[b].pc \in {"persist", "write"}
    BY <1>5 DEF K!Snapshot, DiskInv, KeyTypes, AdminRecord
  <2>2. UNCHANGED <<keys, revocations, conn, revoked>>
    BY <1>5, Zenon DEF K!Snapshot
  <2> QED
    BY SMTT(30), <2>1, <2>2
<1>6. ASSUME NEW a \in KeyAdmins, K!Write(a) \/ K!WriteFails(a) PROVE ConnInv'
  <2>1. /\ admin[a].pc = "write"
        /\ UNCHANGED <<keys, revocations, conn>>
        /\ admin'[a].pc = "idle" /\ \A b \in KeyAdmins \ {a} : admin'[b] = admin[b]
        /\ revoked' = IF admin[a].create THEN revoked ELSE revoked \cup {admin[a].key}
    BY <1>6 DEF K!Write, K!WriteFails, K!Answered, K!Idle, DiskInv, KeyTypes
  <2>2. \A k : Announcing(k)' \subseteq Announcing(k)
    BY <2>1, Zenon
  <2>3. \A k : k \in revoked' => k \in revoked \/ a \in Announcing(k)
    BY <2>1, ZenonT(30)
  <2>4. ~admin[a].create => keys[admin[a].key] = "off"
    BY <2>1 DEF DiskInv, KeyTypes, ChangesMade, Done, OneWriter, NotBehind
  <2> QED
    BY SMTT(30), <2>1, <2>2, <2>3, <2>4
<1>7. CASE ConnStep
  <2>1. UNCHANGED <<keys, revocations, admin, revoked>>
    BY <1>7, Zenon DEF ConnStep, K!Authenticate, K!LoadEpoch, K!Notice, K!Recheck, K!Disconnect
  <2>2. \A k : k \in revoked \/ Announcing(k) # {} => k \in KeyIds /\ keys[k] = "off"
    BY SMTT(30) DEF DiskInv, KeyTypes, ChangesMade, Done, OneWriter, NotBehind
  <2>3. ASSUME NEW c \in Conns, NEW k \in KeyIds, K!Authenticate(c, k) PROVE ConnInv'
    BY SMTT(30), <2>1, <2>3 DEF K!Authenticate, K!Closed, DiskInv, KeyTypes
  <2>4. ASSUME NEW c \in Conns, K!LoadEpoch(c) PROVE ConnInv'
    BY SMTT(30), <2>1, <2>2, <2>4 DEF K!LoadEpoch, DiskInv, KeyTypes, ConnRecord
  <2>5. ASSUME NEW c \in Conns, K!Notice(c) PROVE ConnInv'
    BY SMTT(30), <2>1, <2>5 DEF K!Notice, DiskInv, KeyTypes, ConnRecord
  <2>6. ASSUME NEW c \in Conns, K!Recheck(c) PROVE ConnInv'
    BY SMTT(30), <2>1, <2>2, <2>6 DEF K!Recheck, K!Closed, DiskInv, KeyTypes, ConnRecord
  <2>7. ASSUME NEW c \in Conns, K!Disconnect(c) PROVE ConnInv'
    BY <2>1, <2>7 DEF K!Disconnect, K!Closed, DiskInv, KeyTypes
  <2> QED
    BY <1>7, <2>3, <2>4, <2>5, <2>6, <2>7, ZenonT(30) DEF ConnStep
<1>8. CASE K!Crash
  BY <1>8 DEF K!Crash, K!Idle, K!Closed
<1>9. CASE UNCHANGED K!vars
  BY <1>9, Zenon DEF K!vars
<1> QED
  BY <1>1, <1>2, <1>3, <1>4, <1>5, <1>6, <1>7, <1>8, <1>9, ZenonT(30) DEF K!Next, ConnStep

\* The keys' invariant is inductive.
LEMMA KeyInvariance ==
    /\ K!Init => KeyInv
    /\ KeyInv /\ [K!Next]_(K!vars) => KeyInv'
    /\ KeyInv => KeysAnswered
<1>1. K!Init => KeyInv
  BY DiskInit DEF K!Init, KeyInv, ConnInv, K!Closed
<1>2. ASSUME KeyInv, [K!Next]_(K!vars) PROVE KeyInv'
  <2>1. KeyTypes'
    BY <1>2, KeyTypesStep, Zenon DEF KeyInv, DiskInv
  <2>2. DiskInv'
    BY <1>2, <2>1, OneWriterStep, ChangesMadeStep, AnsweredStep, Zenon DEF KeyInv, DiskInv
  <2> QED
    BY <1>2, <2>2, ConnInvStep, Zenon DEF KeyInv
<1>3. ASSUME KeyInv PROVE KeysAnswered
  <2>1. K!TypeOK
    BY <1>3, Zenon DEF KeyInv, DiskInv, KeyTypes, ConnRecord, K!TypeOK
  <2>2. K!AnsweredIsDurable
    BY <1>3, Zenon DEF KeyInv, DiskInv
  <2>3. K!RevocationReaches
    BY <1>3 DEF KeyInv, ConnInv, K!RevocationReaches, DiskInv, KeyTypes, ConnRecord
  <2> QED
    BY <2>1, <2>2, <2>3, Zenon DEF KeysAnswered
<1> QED
  BY <1>1, <1>2, <1>3, Zenon

-----------------------------------------------------------------------------
(* Schemas: schema.rs *)

\* Types of the registry.
AnyEntry == [id : 1..MaxIds, subject : Subjects, kind : {"json_schema", "avro"}, schema : Candidates]

AnyReg == [pc : {"insert", "flush", "undo"}, entry : AnyEntry, previous : 0..MaxIds]

RegistryTypes ==
    /\ schemas \subseteq AnyEntry /\ schemaFile.entries \subseteq AnyEntry
    /\ acked \subseteq AnyEntry
    /\ schemaFile = [nextId |-> schemaFile.nextId, entries |-> schemaFile.entries]
    /\ nextId \in Nat \ {0} /\ schemaFile.nextId \in Nat \ {0}
    /\ subjects \in [Subjects -> 0..MaxIds]
    /\ reg = S!NoReg \/ reg \in AnyReg

\* Every id in use is below the next one, in memory and in the file.
IdsBelow ==
    /\ \A e \in schemas : e.id < nextId
    /\ \A e \in schemaFile.entries : e.id < schemaFile.nextId
    /\ reg \in AnyReg => nextId = reg.entry.id + 1

\* What is being registered has not been answered: its id is newer.
NotYet ==
    reg \in AnyReg =>
      /\ \A e \in acked : e.id # reg.entry.id
      /\ reg.pc = "flush" => reg.entry \in schemas

RegistryInv == RegistryTypes /\ IdsBelow /\ NotYet /\ S!AnsweredIdsStay

\* No registration is under way in either sense.
LEMMA FreeOrNot == S!NoReg \notin AnyReg /\ (reg = S!NoReg => reg.pc = "free")
  BY DEF S!NoReg, AnyReg

\* Every step keeps the invariant.
LEMMA RegistryStep ==
    ASSUME RegistryInv, [S!Next]_(S!vars)
    PROVE  RegistryInv'
<1> USE DEF RegistryInv
<1>1. ASSUME NEW s \in Subjects, NEW kind \in {"json_schema", "avro"}, NEW schema \in Candidates,
             S!Check(s, kind, schema)
      PROVE  RegistryInv'
  <2> DEFINE entry == [id |-> nextId, subject |-> s, kind |-> kind, schema |-> schema]
  <2>1. entry \in AnyEntry /\ entry.id = nextId
    BY <1>1, AdminStoresAssumption DEF AnyEntry, RegistryTypes, S!Check
  <2>2. reg' \in AnyReg /\ reg'.entry = entry /\ reg'.pc = "insert"
    BY <1>1, <2>1, Zenon DEF S!Check, AnyReg, RegistryTypes
  <2>3. nextId' = nextId + 1 /\ UNCHANGED <<schemas, schemaFile, acked>>
    BY <1>1, Zenon DEF S!Check
  <2>4. subjects' \in [Subjects -> 0..MaxIds]
    BY <1>1, AdminStoresAssumption DEF S!Check, RegistryTypes
  <2>5. RegistryTypes'
    BY SMTT(30), <2>2, <2>3, <2>4 DEF RegistryTypes
  <2> HIDE DEF entry
  <2>6. IdsBelow'
    BY SMTT(30), <2>1, <2>2, <2>3 DEF IdsBelow, RegistryTypes, AnyEntry
  <2>7. S!AnsweredIdsStay'
    BY <2>1, <2>3 DEF S!AnsweredIdsStay, RegistryTypes, AnyEntry
  <2>8. NotYet'
    BY SMTT(30), <2>1, <2>2, <2>3 DEF NotYet, S!AnsweredIdsStay, RegistryTypes, AnyEntry
  <2> QED
    BY <2>5, <2>6, <2>7, <2>8, Zenon
<1>2. CASE S!Insert
  <2>1. reg \in AnyReg /\ reg.entry \in AnyEntry
    BY <1>2, FreeOrNot, Zenon DEF S!Insert, RegistryTypes, AnyReg
  <2>2. reg' \in AnyReg /\ reg'.entry = reg.entry /\ reg'.pc = "flush"
    BY <1>2, <2>1, Zenon DEF S!Insert, AnyReg
  <2>3. schemas' = schemas \cup {reg.entry} /\ UNCHANGED <<subjects, nextId, schemaFile, acked>>
    BY <1>2, Zenon DEF S!Insert
  <2>4. RegistryTypes'
    BY <2>1, <2>2, <2>3, Zenon DEF RegistryTypes
  <2>5. IdsBelow' /\ NotYet' /\ S!AnsweredIdsStay'
    BY <2>1, <2>2, <2>3 DEF IdsBelow, NotYet, S!AnsweredIdsStay, AnyEntry
  <2> QED
    BY <2>4, <2>5, Zenon
<1>3. CASE S!Flush
  <2>1. reg \in AnyReg /\ reg.entry \in AnyEntry
    BY <1>3, FreeOrNot, Zenon DEF S!Flush, RegistryTypes, AnyReg
  <2>2. /\ reg' = S!NoReg /\ acked' = acked \cup {reg.entry} /\ reg.entry \in schemas
        /\ schemaFile' = [nextId |-> nextId, entries |-> schemas]
        /\ UNCHANGED <<schemas, subjects, nextId>>
    BY <1>3, <2>1, Zenon DEF S!Flush, S!Written, NotYet
  <2>3. schemaFile'.nextId = nextId /\ schemaFile'.entries = schemas
    BY <2>2, Zenon
  <2>4. RegistryTypes'
    BY <2>1, <2>2, <2>3, Zenon DEF RegistryTypes
  <2>5. IdsBelow' /\ NotYet'
    BY <2>2, <2>3, FreeOrNot, Zenon DEF IdsBelow, NotYet
  <2>6. S!AnsweredIdsStay'
    BY <2>1, <2>2, <2>3, Zenon DEF IdsBelow, S!AnsweredIdsStay
  <2> QED
    BY <2>4, <2>5, <2>6, Zenon
<1>4. CASE S!FlushFails
  <2>1. reg \in AnyReg /\ reg.entry \in AnyEntry
    BY <1>4, FreeOrNot, Zenon DEF S!FlushFails, RegistryTypes, AnyReg
  <2>2. reg' \in AnyReg /\ reg'.entry = reg.entry /\ reg'.pc = "undo"
    BY <1>4, <2>1, Zenon DEF S!FlushFails, AnyReg
  <2>3. /\ schemas' = schemas \ {reg.entry} /\ UNCHANGED <<subjects, nextId, acked>>
        /\ schemaFile' = schemaFile \/ schemaFile' = [nextId |-> nextId, entries |-> schemas]
    BY <1>4, Zenon DEF S!FlushFails, S!Written
  <2>4. reg.entry \notin acked
    BY <2>1, Zenon DEF NotYet
  <2>5. \/ schemaFile' = schemaFile
        \/ schemaFile'.nextId = nextId /\ schemaFile'.entries = schemas
    BY <2>3
  <2>6. RegistryTypes'
    BY <2>1, <2>2, <2>3, <2>5, Zenon DEF RegistryTypes
  <2>7. IdsBelow' /\ NotYet'
    BY <2>1, <2>2, <2>3, <2>5, Zenon DEF IdsBelow, NotYet
  <2>8. S!AnsweredIdsStay'
    BY <2>3, <2>4, <2>5, Zenon DEF S!AnsweredIdsStay, IdsBelow
  <2> QED
    BY <2>6, <2>7, <2>8, Zenon
<1>5. CASE S!Undo
  <2>1. reg \in AnyReg /\ reg.entry \in AnyEntry /\ reg.previous \in 0..MaxIds
    BY <1>5, FreeOrNot, Zenon DEF S!Undo, RegistryTypes, AnyReg
  <2>2. reg' = S!NoReg /\ UNCHANGED <<schemas, nextId, schemaFile, acked>>
    BY <1>5, Zenon DEF S!Undo
  <2>3. subjects' \in [Subjects -> 0..MaxIds]
    BY <1>5, <2>1, Zenon DEF S!Undo, RegistryTypes, AnyEntry
  <2> QED
    BY <2>2, <2>3, FreeOrNot, Zenon DEF RegistryTypes, IdsBelow, NotYet, S!AnsweredIdsStay
<1>6. CASE S!Restart
  <2>1. /\ reg' = S!NoReg /\ schemas' = schemaFile.entries /\ nextId' = schemaFile.nextId
        /\ UNCHANGED <<schemaFile, acked>>
    BY <1>6, Zenon DEF S!Restart
  <2>2. subjects' \in [Subjects -> 0..MaxIds]
    BY <1>6, Zenon DEF S!Restart
  <2> QED
    BY <2>1, <2>2, FreeOrNot, Zenon DEF RegistryTypes, IdsBelow, NotYet, S!AnsweredIdsStay
<1>7. CASE UNCHANGED S!vars
  BY <1>7, Zenon DEF S!vars, RegistryTypes, IdsBelow, NotYet, S!AnsweredIdsStay
<1> QED
  BY <1>1, <1>2, <1>3, <1>4, <1>5, <1>6, <1>7, Zenon DEF S!Next

-----------------------------------------------------------------------------
(* Schemas: versions and their compatibility *)

\* An id names one entry, in memory, in the file and in the registration under way.
Unique ==
    /\ \A a, b \in schemas : a.id = b.id => a = b
    /\ \A a, b \in schemaFile.entries : a.id = b.id => a = b
    /\ reg \in AnyReg => \A e \in schemas : e.id = reg.entry.id => e = reg.entry

\* The version a subject is served by, leaving a registration under way aside.
Version(s) == IF reg # S!NoReg /\ reg.entry.subject = s THEN reg.previous ELSE subjects[s]

\* That version is there, and until a restart it is the newest one answered.
Serving ==
    /\ reg \in AnyReg => /\ subjects[reg.entry.subject] = reg.entry.id
                         /\ reg.previous < reg.entry.id
    /\ \A s \in Subjects :
         /\ Version(s) = 0 \/ \E e \in schemas : e.id = Version(s) /\ e.subject = s
         /\ s \notin reloaded =>
              /\ Version(s) = 0 \/ \E e \in acked : e.id = Version(s) /\ e.subject = s
              /\ \A e \in acked : e.subject = s => e.id <= Version(s)

\* The last entry that was checked is compatible with the version before it.
Checked ==
    \A pair \in chain : /\ pair[1].schema \in S!Schema /\ pair[2].schema \in S!Schema
                        /\ S!Compatible(pair[1].schema, pair[2].schema)

SchemaInv == RegistryInv /\ Unique /\ Serving /\ Checked

\* Types of a registration under way.
LEMMA RegFacts ==
    ASSUME RegistryInv, reg \in AnyReg
    PROVE  /\ reg # S!NoReg /\ reg.entry \in AnyEntry /\ reg.entry.subject \in Subjects
           /\ reg.entry.id \in Nat /\ reg.previous \in 0..MaxIds
           /\ nextId = reg.entry.id + 1
BY FreeOrNot DEF RegistryInv, IdsBelow, AnyReg, AnyEntry

\* What check has drawn.
LEMMA CheckFacts ==
    ASSUME RegistryInv, NEW s \in Subjects, NEW kind \in {"json_schema", "avro"},
           NEW schema \in Candidates, S!Check(s, kind, schema)
    PROVE  /\ reg = S!NoReg /\ reg' \in AnyReg /\ reg'.pc = "insert"
           /\ reg'.entry.id = nextId /\ reg'.entry.subject = s /\ reg'.entry.schema = schema
           /\ reg'.previous = subjects[s]
           /\ subjects' = [subjects EXCEPT ![s] = nextId]
           /\ chain' = chain \/ /\ subjects[s] # 0
                                /\ S!Compatible(S!Lookup(subjects[s]).schema, schema)
                                /\ chain' = {<<S!Lookup(subjects[s]), reg'.entry>>}
           /\ UNCHANGED <<schemas, schemaFile, acked, reloaded>>
<1> DEFINE entry == [id |-> nextId, subject |-> s, kind |-> kind, schema |-> schema]
<1>1. reg' = [pc |-> "insert", entry |-> entry, previous |-> subjects[s]]
  BY Zenon DEF S!Check
<1>2. entry \in AnyEntry /\ subjects[s] \in 0..MaxIds
  BY AdminStoresAssumption DEF AnyEntry, RegistryInv, RegistryTypes, S!Check
<1>3. reg' \in AnyReg
  BY <1>1, <1>2, Zenon DEF AnyReg
<1>4. chain' = chain \/ /\ subjects[s] # 0
                        /\ S!Compatible(S!Lookup(subjects[s]).schema, schema)
                        /\ chain' = {<<S!Lookup(subjects[s]), reg'.entry>>}
  BY <1>1 DEF S!Check
<1> QED
  BY SMTT(30), <1>1, <1>3, <1>4 DEF S!Check

\* Every step keeps the ids apart.
LEMMA UniqueStep ==
    ASSUME RegistryInv, Unique, [S!Next]_(S!vars)
    PROVE  Unique'
<1>1. ASSUME NEW s \in Subjects, NEW kind \in {"json_schema", "avro"}, NEW schema \in Candidates,
             S!Check(s, kind, schema)
      PROVE  Unique'
  <2>1. \A e \in schemas : e.id # nextId
    BY DEF RegistryInv, IdsBelow, RegistryTypes, AnyEntry
  <2> QED
    BY SMTT(30), <1>1, <2>1, CheckFacts DEF Unique
<1>2. CASE S!Insert
  <2>1. reg \in AnyReg
    BY <1>2, FreeOrNot, Zenon DEF S!Insert, RegistryInv, RegistryTypes
  <2>2. /\ schemas' = schemas \cup {reg.entry} /\ reg'.entry = reg.entry
        /\ UNCHANGED schemaFile
    BY <1>2, <2>1, Zenon DEF S!Insert, AnyReg
  <2> QED
    BY <2>1, <2>2, Zenon DEF Unique
<1>3. CASE S!Flush \/ S!FlushFails
  <2>1. /\ schemas' \subseteq schemas
        /\ schemaFile' = schemaFile \/ schemaFile'.entries = schemas
    BY <1>3 DEF S!Flush, S!FlushFails, S!Written
  <2>2. reg \in AnyReg /\ (reg' \in AnyReg => reg'.entry = reg.entry)
    BY <1>3, FreeOrNot, Zenon DEF S!Flush, S!FlushFails, RegistryInv, RegistryTypes, AnyReg
  <2> QED
    BY <2>1, <2>2, Zenon DEF Unique
<1>4. CASE S!Undo
  BY <1>4, FreeOrNot, Zenon DEF S!Undo, Unique
<1>5. CASE S!Restart
  BY <1>5, FreeOrNot, Zenon DEF S!Restart, Unique
<1>6. CASE UNCHANGED S!vars
  BY <1>6, Zenon DEF S!vars, Unique
<1> QED
  BY <1>1, <1>2, <1>3, <1>4, <1>5, <1>6, ZenonT(30) DEF S!Next

\* Every step serves the version it should.
LEMMA ServingStep ==
    ASSUME RegistryInv, Serving, [S!Next]_(S!vars)
    PROVE  Serving'
<1>0. \A e \in acked : e.id \in Nat /\ e.id < nextId
  BY DEF RegistryInv, S!AnsweredIdsStay, RegistryTypes, AnyEntry
<1>1. ASSUME NEW s \in Subjects, NEW kind \in {"json_schema", "avro"}, NEW schema \in Candidates,
             S!Check(s, kind, schema)
      PROVE  Serving'
  <2>1. \A x \in Subjects : Version(x)' = Version(x)
    BY <1>1, CheckFacts, FreeOrNot, Zenon DEF Version, RegistryInv, RegistryTypes
  <2>2. subjects[s] < nextId
    <3>1. subjects[s] = 0 \/ \E e \in schemas : e.id = subjects[s]
      BY <1>1, CheckFacts DEF Serving, Version
    <3> QED
      BY SMTT(30), <3>1 DEF RegistryInv, IdsBelow, RegistryTypes
  <2>3. subjects'[s] = nextId
    BY <1>1, CheckFacts, Zenon DEF RegistryInv, RegistryTypes
  <2> QED
    BY SMTT(30), <1>1, <2>1, <2>2, <2>3, CheckFacts DEF Serving
<1>2. CASE S!Insert
  <2>1. reg \in AnyReg
    BY <1>2, FreeOrNot, Zenon DEF S!Insert, RegistryInv, RegistryTypes
  <2>2. /\ schemas \subseteq schemas' /\ UNCHANGED <<subjects, acked, reloaded>>
        /\ reg'.entry = reg.entry /\ reg'.previous = reg.previous /\ reg' # S!NoReg
    BY <1>2, <2>1, Zenon DEF S!Insert, AnyReg, S!NoReg
  <2>3. \A x \in Subjects : Version(x)' = Version(x)
    BY <2>1, <2>2, RegFacts, Zenon DEF Version
  <2> QED
    BY <2>1, <2>2, <2>3, ZenonT(30) DEF Serving
<1>3. CASE S!Flush
  <2>1. reg \in AnyReg
    BY <1>3, FreeOrNot, Zenon DEF S!Flush, RegistryInv, RegistryTypes
  <2>2. /\ reg' = S!NoReg /\ acked' = acked \cup {reg.entry} /\ reg.entry \in schemas
        /\ reloaded' = reloaded \ {reg.entry.subject} /\ UNCHANGED <<schemas, subjects>>
    BY <1>3, <2>1, Zenon DEF S!Flush, RegistryInv, NotYet
  <2>3. ASSUME NEW x \in Subjects, x # reg.entry.subject PROVE Version(x)' = Version(x)
    BY <2>1, <2>2, <2>3, Zenon DEF Version
  <2>4. ASSUME NEW x \in Subjects, x = reg.entry.subject PROVE Version(x)' = reg.entry.id
    <3>1. Version(x)' = subjects[x]
      BY <2>2, Zenon DEF Version
    <3> QED
      BY <2>1, <2>4, <3>1, Zenon DEF Serving
  <2>5. \A e \in acked' : e.id <= reg.entry.id
    BY SMTT(30), <1>0, <2>1, <2>2, RegFacts
  <2>6. ASSUME NEW x \in Subjects
        PROVE  /\ Version(x)' = 0 \/ \E e \in schemas' : e.id = Version(x)' /\ e.subject = x
               /\ x \notin reloaded' =>
                    /\ Version(x)' = 0 \/ \E e \in acked' : e.id = Version(x)' /\ e.subject = x
                    /\ \A e \in acked' : e.subject = x => e.id <= Version(x)'
    <3>1. CASE x = reg.entry.subject
      BY <2>2, <2>4, <2>5, <3>1, Zenon
    <3>2. CASE x # reg.entry.subject
      BY <2>2, <2>3, <3>2, ZenonT(30) DEF Serving
    <3> QED
      BY <3>1, <3>2, Zenon
  <2> QED
    BY <2>2, <2>6, FreeOrNot, Zenon DEF Serving
<1>4. CASE S!FlushFails
  <2>1. reg \in AnyReg
    BY <1>4, FreeOrNot, Zenon DEF S!FlushFails, RegistryInv, RegistryTypes
  <2>2. /\ schemas' = schemas \ {reg.entry} /\ UNCHANGED <<subjects, acked, reloaded>>
        /\ reg'.entry = reg.entry /\ reg'.previous = reg.previous /\ reg' # S!NoReg
    BY <1>4, <2>1, Zenon DEF S!FlushFails, AnyReg, S!NoReg
  <2>3. \A x \in Subjects : Version(x)' = Version(x)
    BY <2>1, <2>2, RegFacts, Zenon DEF Version
  <2>4. \A x \in Subjects : x = reg.entry.subject => Version(x) < reg.entry.id
    BY <2>1, RegFacts, Zenon DEF Version, Serving
  <2>5. ASSUME NEW x \in Subjects, NEW e \in schemas, e.id = Version(x), e.subject = x
        PROVE  e \in schemas'
    BY SMTT(30), <2>1, <2>2, <2>4, <2>5, RegFacts
  <2> QED
    BY SMTT(30), <2>1, <2>2, <2>3, <2>5 DEF Serving
<1>5. CASE S!Undo
  <2>1. reg \in AnyReg
    BY <1>5, FreeOrNot, Zenon DEF S!Undo, RegistryInv, RegistryTypes
  <2>2. /\ reg' = S!NoReg /\ subjects' = [subjects EXCEPT ![reg.entry.subject] = reg.previous]
        /\ UNCHANGED <<schemas, acked, reloaded>>
    BY <1>5, Zenon DEF S!Undo
  <2>3. \A x \in Subjects : Version(x)' = Version(x)
    BY <2>1, <2>2, RegFacts, ZenonT(30) DEF Version, RegistryInv, RegistryTypes
  <2> QED
    BY <2>2, <2>3, FreeOrNot, Zenon DEF Serving
<1>6. CASE S!Restart
  <2>1. reg' = S!NoReg /\ schemas' = schemaFile.entries /\ reloaded' = Subjects
    BY <1>6, Zenon DEF S!Restart
  <2>2. \A x \in Subjects : Version(x)' = subjects'[x]
    BY <2>1, Zenon DEF Version
  <2>3. ASSUME NEW x \in Subjects
        PROVE  subjects'[x] = 0 \/ \E e \in schemas' : e.id = subjects'[x] /\ e.subject = x
    <3> DEFINE ids == {e.id : e \in {y \in schemaFile.entries : y.subject = x}}
    <3>1. subjects'[x] = 0 \/ subjects'[x] \in ids
      BY <1>6, Zenon DEF S!Restart
    <3> QED
      BY <2>1, <3>1, Zenon
  <2> QED
    BY SMTT(30), <2>1, <2>2, <2>3, FreeOrNot DEF Serving
<1>7. CASE UNCHANGED S!vars
  <2>1. \A x \in Subjects : Version(x)' = Version(x)
    BY <1>7, Zenon DEF S!vars, Version
  <2> QED
    BY <1>7, <2>1, ZenonT(30) DEF S!vars, Serving
<1> QED
  BY <1>1, <1>2, <1>3, <1>4, <1>5, <1>6, <1>7, ZenonT(30) DEF S!Next

\* Every step has checked the schema it lets in.
LEMMA CheckedStep ==
    ASSUME RegistryInv, Serving, Checked, [S!Next]_(S!vars)
    PROVE  Checked'
<1>1. ASSUME NEW s \in Subjects, NEW kind \in {"json_schema", "avro"}, NEW schema \in Candidates,
             S!Check(s, kind, schema)
      PROVE  Checked'
  <2>1. CASE chain' = chain
    BY <2>1, Zenon DEF Checked
  <2>2. CASE chain' # chain
    <3> DEFINE old == S!Lookup(subjects[s])
    <3>1. /\ subjects[s] # 0 /\ S!Compatible(old.schema, schema)
          /\ chain' = {<<old, reg'.entry>>} /\ reg'.entry.schema = schema
      BY <1>1, <2>2, CheckFacts, ZenonT(30)
    <3>2. \E e \in schemas : e.id = subjects[s]
      BY SMTT(30), <1>1, <3>1, CheckFacts DEF Serving, Version
    <3>3. old \in schemas
      BY <3>2, Zenon DEF S!Lookup
    <3>4. old.schema \in S!Schema /\ schema \in S!Schema
      BY <3>3, AdminStoresAssumption, Zenon DEF RegistryInv, RegistryTypes, AnyEntry
    <3> HIDE DEF old
    <3> QED
      BY <3>1, <3>4 DEF Checked
  <2> QED
    BY <2>1, <2>2, Zenon
<1>2. CASE UNCHANGED chain
  BY <1>2, Zenon DEF Checked
<1> QED
  BY <1>1, <1>2, Zenon DEF S!Next, S!vars, S!Insert, S!Flush, S!FlushFails, S!Undo, S!Restart

\* The greatest member of a set of numbers.
LEMMA GreatestId ==
    ASSUME NEW T \in SUBSET Int, NEW v \in T, \A y \in T : v >= y
    PROVE  S!Max(T) = v
<1> DEFINE m == CHOOSE x \in T : \A y \in T : x >= y
<1>1. m \in T /\ \A y \in T : m >= y
  BY Zenon
<1> HIDE DEF m
<1>2. m = v
  BY <1>1
<1> QED
  BY <1>2, Zenon DEF m, S!Max

\* A schema that is compatible accepts what the one before accepted.
LEMMA CompatibleAccepts ==
    ASSUME NEW old \in S!Schema, NEW new \in S!Schema, S!Compatible(old, new),
           \A f \in S!Declared(old) : new.props[f] = old.props[f] \/ ~new.typed,
           NEW doc \in S!Doc, S!Accepts(old, doc), old.typed,
           \A f \in Fields : doc[f] # Absent => f \in S!Declared(old)
    PROVE  S!Accepts(new, doc)
<1>1. \A f \in new.required : doc[f] # Absent
  BY Zenon DEF S!Compatible, S!Accepts
<1>2. ASSUME new.typed, NEW f \in S!Declared(new) PROVE doc[f] \in {new.props[f], Absent}
  BY <1>2, Zenon DEF S!Accepts, S!Declared
<1> QED
  BY <1>1, <1>2, Zenon DEF S!Accepts

\* The registry's invariant is inductive.
LEMMA SchemaInvariance ==
    /\ S!Init => SchemaInv
    /\ SchemaInv /\ [S!Next]_(S!vars) => SchemaInv'
    /\ SchemaInv => SchemasServed
<1>1. ASSUME S!Init PROVE SchemaInv
  <2>1. RegistryInv
    BY SMTT(30), <1>1, FreeOrNot, AdminStoresAssumption
       DEF S!Init, RegistryInv, RegistryTypes, IdsBelow, NotYet, S!AnsweredIdsStay
  <2>2. Unique /\ Checked
    BY <1>1, FreeOrNot, Zenon DEF S!Init, Unique, Checked
  <2>3. Serving
    BY <1>1, FreeOrNot, Zenon DEF S!Init, Serving, Version
  <2> QED
    BY <2>1, <2>2, <2>3, ZenonT(30) DEF SchemaInv
<1>2. SchemaInv /\ [S!Next]_(S!vars) => SchemaInv'
  BY RegistryStep, UniqueStep, ServingStep, CheckedStep, ZenonT(30) DEF SchemaInv
<1>3. ASSUME SchemaInv PROVE SchemasServed
  <2>1. S!TypeOK
    <3>1. reg.pc \in {"free", "insert", "flush", "undo"}
      BY <1>3, FreeOrNot, Zenon DEF SchemaInv, RegistryInv, RegistryTypes, AnyReg
    <3>2. AnyEntry \subseteq S!SchemaEntry
      BY AdminStoresAssumption, Zenon DEF AnyEntry, S!SchemaEntry
    <3> QED
      BY <1>3, <3>1, <3>2, Zenon DEF SchemaInv, RegistryInv, RegistryTypes, Unique, S!TypeOK
  <2>2. S!AnsweredIdsStay
    BY <1>3, Zenon DEF SchemaInv, RegistryInv
  <2>3. S!LatestIsServed
    <3> SUFFICES ASSUME NEW s \in Subjects
                 PROVE LET ids == {e.id : e \in {x \in acked : x.subject = s}}
                       IN /\ reg = S!NoReg /\ s \notin reloaded =>
                                subjects[s] = S!Max(ids \cup {0})
                          /\ \/ subjects[s] = 0
                             \/ \E e \in schemas : e.id = subjects[s] /\ e.subject = s
                             \/ reg # S!NoReg /\ reg.entry.subject = s
      BY Zenon DEF S!LatestIsServed
    <3> DEFINE ids == {e.id : e \in {x \in acked : x.subject = s}}
    <3>1. ASSUME reg = S!NoReg, s \notin reloaded PROVE subjects[s] = S!Max(ids \cup {0})
      <4>1. Version(s) = subjects[s] /\ subjects[s] \in Nat
        BY SMTT(30), <1>3, <3>1 DEF Version, SchemaInv, RegistryInv, RegistryTypes
      <4>2. /\ subjects[s] \in ids \cup {0} /\ ids \cup {0} \in SUBSET Int
            /\ \A y \in ids \cup {0} : subjects[s] >= y
        BY SMTT(30), <1>3, <3>1, <4>1 DEF SchemaInv, Serving, RegistryInv, RegistryTypes, AnyEntry
      <4> HIDE DEF ids
      <4> QED
        BY <4>2, GreatestId, ZenonT(30)
    <3>2. \/ subjects[s] = 0
          \/ \E e \in schemas : e.id = subjects[s] /\ e.subject = s
          \/ reg # S!NoReg /\ reg.entry.subject = s
      BY <1>3, Zenon DEF SchemaInv, Serving, Version
    <3> QED
      BY <3>1, <3>2, Zenon
  <2>4. S!OldDataAccepted
    BY <1>3, CompatibleAccepts, Zenon DEF SchemaInv, Checked, S!OldDataAccepted
  <2> QED
    BY <2>1, <2>2, <2>3, <2>4, ZenonT(30) DEF SchemasServed
<1> QED
  BY <1>1, <1>2, <1>3, ZenonT(30)

-----------------------------------------------------------------------------
(* Restore: es-tools, restore.rs *)

Dir    == [kind : {"missing", "empty", "partial", "broker", "backup"}, run : Nat]
Staged == [kind : {"missing", "partial", "backup"}, run : Nat]
Proc   == [pc : {"idle", "extract", "aside", "in"}, content : BOOLEAN]

RestoreTypes ==
    /\ data \in Dir /\ held \subseteq Dir
    /\ staging \in [Pids -> Staged]
    /\ aside \in [0..MaxClock -> Dir]
    /\ proc \in [Pids -> Proc]
    /\ clock \in 0..MaxClock /\ runs \in Nat

\* What was held is in place or aside, and what is in place was noted.
Kept ==
    /\ \A dir \in held : R!HasContent(dir)
    /\ R!HasContent(data) => data \in held
    /\ \A dir \in held : dir = data \/ \E t \in 0..MaxClock : aside[t] = dir

\* A restore that has come to its renames has unpacked the whole archive.
Whole ==
    /\ \A p \in Pids : proc[p].pc \in {"aside", "in"} => staging[p].kind # "partial"
    /\ \A dir \in held : dir.kind # "partial"

\* A step that keeps the data directory and what is aside.
LEMMA KeptWhere ==
    ASSUME Kept, UNCHANGED <<data, held, aside>>
    PROVE  Kept'
  BY Zenon DEF Kept, R!HasContent

\* The values that steps build.
LEMMA Values ==
    /\ Staged \subseteq Dir /\ R!Missing \in Staged
    /\ R!Missing \in Dir /\ R!EmptyDir \in Dir /\ R!NoProc \in Proc
    /\ \A n \in Nat : R!Tree("partial", n) \in Staged /\ R!Tree("broker", n) \in Dir
    /\ \A dir \in Staged : [dir EXCEPT !.kind = "backup"] \in Staged
    /\ \A q \in Proc : [q EXCEPT !.pc = "aside"] \in Proc /\ [q EXCEPT !.pc = "in"] \in Proc
    /\ \A c \in BOOLEAN : [pc |-> "extract", content |-> c] \in Proc
<1>0. Staged \subseteq Dir /\ R!Missing \in Staged
  BY Zenon DEF R!Missing, Dir, Staged
<1>1. R!Missing \in Dir /\ R!EmptyDir \in Dir /\ R!NoProc \in Proc
  BY Zenon DEF R!Missing, R!EmptyDir, R!NoProc, Dir, Proc
<1>2. \A n \in Nat : R!Tree("partial", n) \in Staged /\ R!Tree("broker", n) \in Dir
  BY Zenon DEF R!Tree, Dir, Staged
<1>3. \A dir \in Staged : [dir EXCEPT !.kind = "backup"] \in Staged
  BY Zenon DEF Staged
<1>4. \A q \in Proc : [q EXCEPT !.pc = "aside"] \in Proc /\ [q EXCEPT !.pc = "in"] \in Proc
  BY Zenon DEF Proc
<1>5. \A c \in BOOLEAN : [pc |-> "extract", content |-> c] \in Proc
  BY Zenon DEF Proc
<1> QED
  BY <1>0, <1>1, <1>2, <1>3, <1>4, <1>5, ZenonT(30)

\* Every step keeps the types.
LEMMA RestoreTypesStep ==
    ASSUME MaxClock \in Nat, RestoreTypes, [R!Next]_(R!vars)
    PROVE  RestoreTypes'
<1> USE DEF RestoreTypes
<1>1. ASSUME NEW p \in Pids, NEW force \in BOOLEAN, R!Start(p, force) PROVE RestoreTypes'
  <2>1. runs' \in Nat /\ R!Tree("partial", runs + 1) \in Staged
    BY <1>1, Values DEF R!Start
  <2>2. [pc |-> "extract", content |-> R!HasContent(data)] \in Proc
    BY Values, Zenon DEF R!HasContent
  <2> QED
    BY <1>1, <2>1, <2>2, Zenon DEF R!Start
<1>2. ASSUME NEW p \in Pids, R!Extract(p) PROVE RestoreTypes'
  <2>1. staging' = [staging EXCEPT ![p] = [staging[p] EXCEPT !.kind = "backup"]]
    BY <1>2, Zenon DEF R!Extract
  <2>2. proc' = [proc EXCEPT ![p] = [proc[p] EXCEPT !.pc = "aside"]]
    BY <1>2, Zenon DEF R!Extract
  <2>3. UNCHANGED <<data, aside, clock, runs, held>>
    BY <1>2, Zenon DEF R!Extract
  <2> QED
    BY <2>1, <2>2, <2>3, Values, Zenon
<1>3. ASSUME NEW p \in Pids, R!ExtractFails(p) PROVE RestoreTypes'
  BY <1>3, Values, Zenon DEF R!ExtractFails, R!Ends
<1>4. ASSUME NEW p \in Pids, R!MoveAside(p) PROVE RestoreTypes'
  <2>1. proc' \in [Pids -> Proc]
    <3>1. \/ proc' = [proc EXCEPT ![p] = R!NoProc]
          \/ proc' = [proc EXCEPT ![p] = [proc[p] EXCEPT !.pc = "in"]]
      BY <1>4, Zenon DEF R!MoveAside, R!Ends
    <3>2. R!NoProc \in Proc /\ [proc[p] EXCEPT !.pc = "in"] \in Proc
      BY Values, Zenon
    <3> QED
      BY <3>1, <3>2, Zenon
  <2>2. aside' \in [0..MaxClock -> Dir]
    BY <1>4, Zenon DEF R!MoveAside
  <2>3. data' \in Dir /\ held' \subseteq Dir
    BY <1>4, Values DEF R!MoveAside, R!Become
  <2> QED
    BY <1>4, <2>1, <2>2, <2>3, Zenon DEF R!MoveAside
<1>5. ASSUME NEW p \in Pids, R!MoveIn(p) PROVE RestoreTypes'
  BY <1>5, Values DEF R!MoveIn, R!Become, R!Ends
<1>6. ASSUME NEW p \in Pids, R!Kill(p) PROVE RestoreTypes'
  BY <1>6, Values, Zenon DEF R!Kill, R!Ends
<1>7. CASE R!BrokerStarts
  <2>1. runs' \in Nat /\ R!Tree("broker", runs + 1) \in Dir
    BY SMTT(30), <1>7, Values DEF R!BrokerStarts
  <2> QED
    BY <1>7, <2>1, Zenon DEF R!BrokerStarts, R!Become
<1>8. CASE R!Tick
  BY <1>8 DEF R!Tick
<1>9. CASE UNCHANGED R!vars
  BY <1>9, Zenon DEF R!vars
<1> QED
  BY <1>1, <1>2, <1>3, <1>4, <1>5, <1>6, <1>7, <1>8, <1>9, ZenonT(30) DEF R!Next, R!NothingToDo

\* Every step keeps what was held.
LEMMA KeptStep ==
    ASSUME MaxClock \in Nat, RestoreTypes, Kept, [R!Next]_(R!vars)
    PROVE  Kept'
<1>0. /\ ~R!HasContent(R!Missing)
      /\ \A kind : kind \notin {"missing", "empty"} => \A n : R!HasContent(R!Tree(kind, n))
  BY Zenon DEF R!HasContent, R!Missing, R!Tree
<1>1. ASSUME R!Become(IF R!HasContent(data) THEN data ELSE R!Missing), UNCHANGED aside PROVE Kept'
  BY <1>0, <1>1, Zenon DEF R!Become, Kept
<1>2. ASSUME R!Renames(data, aside[clock]), aside' = [aside EXCEPT ![clock] = data], R!Become(R!Missing)
      PROVE  Kept'
  <2>1. held' = held /\ data' = R!Missing
    BY <1>0, <1>2, Zenon DEF R!Become
  <2>2. ~R!HasContent(aside[clock])
    BY <1>2, Zenon DEF R!Renames
  <2>3. aside'[clock] = data /\ \A t \in 0..MaxClock : t # clock => aside'[t] = aside[t]
    BY <1>2, Zenon DEF RestoreTypes
  <2>4. ASSUME NEW dir \in held PROVE \E t \in 0..MaxClock : aside'[t] = dir
    <3>1. CASE dir = data
      BY <2>3, <3>1, Zenon DEF RestoreTypes
    <3>2. CASE \E t \in 0..MaxClock : aside[t] = dir
      BY <2>2, <2>3, <3>2, Zenon DEF Kept
    <3> QED
      BY <3>1, <3>2, Zenon DEF Kept
  <2> QED
    BY <1>0, <2>1, <2>4, Zenon DEF Kept
<1>3. ASSUME NEW p \in Pids, R!MoveAside(p) PROVE Kept'
  <2>1. CASE proc[p].content /\ R!Renames(data, aside[clock])
    BY <1>2, <1>3, <2>1, Zenon DEF R!MoveAside
  <2>2. CASE proc[p].content /\ ~R!Renames(data, aside[clock])
    BY <1>3, <2>2, KeptWhere, Zenon DEF R!MoveAside
  <2>3. CASE ~proc[p].content
    BY <1>1, <1>3, <2>3, Zenon DEF R!MoveAside
  <2> QED
    BY <2>1, <2>2, <2>3, Zenon
<1>4. ASSUME NEW p \in Pids, R!MoveIn(p) PROVE Kept'
  <2>1. CASE UNCHANGED <<data, held>>
    BY <1>4, <2>1, KeptWhere, Zenon DEF R!MoveIn
  <2>2. CASE ~R!HasContent(data) /\ R!Become(staging[p]) /\ UNCHANGED aside
    BY <2>2, Zenon DEF R!Become, Kept
  <2> QED
    BY <1>4, <2>1, <2>2, Zenon DEF R!MoveIn, R!Renames
<1>5. CASE R!BrokerStarts
  <2>1. ~R!HasContent(data) /\ R!Become(R!Tree("broker", runs + 1)) /\ UNCHANGED aside
    BY <1>5, Zenon DEF R!BrokerStarts
  <2> QED
    BY <2>1, Zenon DEF R!Become, Kept
<1>6. CASE UNCHANGED <<data, held, aside>>
  BY <1>6, KeptWhere, Zenon
<1> QED
  BY <1>3, <1>4, <1>5, <1>6, Zenon DEF R!Next, R!vars, R!Start, R!Extract, R!ExtractFails, R!Kill, R!Tick, R!NothingToDo

\* Every step keeps a part of an archive out of the data directory.
LEMMA WholeStep ==
    ASSUME MaxClock \in Nat, RestoreTypes, Kept, Whole, [R!Next]_(R!vars)
    PROVE  Whole'
<1> USE DEF Whole, RestoreTypes, Staged, Proc
<1>1. ASSUME NEW p \in Pids, NEW force \in BOOLEAN, R!Start(p, force) PROVE Whole'
  BY <1>1, Zenon DEF R!Start, R!Tree
<1>2. ASSUME NEW p \in Pids, R!Extract(p) PROVE Whole'
  BY <1>2, Zenon DEF R!Extract
<1>3. ASSUME NEW p \in Pids, R!ExtractFails(p) PROVE Whole'
  BY <1>3, Zenon DEF R!ExtractFails, R!Ends, R!NoProc, R!Missing
<1>4. ASSUME NEW p \in Pids, R!MoveAside(p) PROVE Whole'
  <2>0. ~R!HasContent(R!Missing)
    BY Zenon DEF R!HasContent, R!Missing
  <2>1. held' = held
    <3>1. CASE UNCHANGED held
      BY <3>1, Zenon
    <3>2. CASE R!Become(R!Missing)
      BY <2>0, <3>2, Zenon DEF R!Become
    <3>3. CASE R!Become(IF R!HasContent(data) THEN data ELSE R!Missing)
      BY <2>0, <3>3, Zenon DEF R!Become, Kept
    <3> QED
      BY <1>4, <3>1, <3>2, <3>3, Zenon DEF R!MoveAside
  <2>2. UNCHANGED staging /\ (\/ R!Ends(p)
                              \/ proc[p].pc = "aside" /\ proc' = [proc EXCEPT ![p].pc = "in"])
    BY <1>4, Zenon DEF R!MoveAside
  <2>3. \A q \in Pids : proc'[q].pc \in {"aside", "in"} => proc[q].pc \in {"aside", "in"}
    <3>1. CASE R!Ends(p)
      BY <3>1, Zenon DEF R!Ends, R!NoProc
    <3>2. CASE proc[p].pc = "aside" /\ proc' = [proc EXCEPT ![p].pc = "in"]
      BY <3>2, Zenon
    <3> QED
      BY <2>2, <3>1, <3>2, Zenon
  <2> QED
    BY <2>1, <2>2, <2>3, Zenon
<1>5. ASSUME NEW p \in Pids, R!MoveIn(p) PROVE Whole'
  <2>1. held' \subseteq held \cup {staging[p]} /\ staging[p].kind # "partial"
    BY <1>5, Zenon DEF R!MoveIn, R!Become
  <2>2. staging' = staging \/ staging' = [staging EXCEPT ![p] = R!Missing]
    BY <1>5, Zenon DEF R!MoveIn
  <2> QED
    BY <1>5, <2>1, <2>2, Zenon DEF R!MoveIn, R!Ends, R!NoProc, R!Missing
<1>6. ASSUME NEW p \in Pids, R!Kill(p) PROVE Whole'
  BY <1>6, Zenon DEF R!Kill, R!Ends, R!NoProc
<1>7. CASE R!BrokerStarts
  BY <1>7 DEF R!BrokerStarts, R!Become, R!Tree
<1>8. CASE UNCHANGED <<proc, staging, held>>
  BY <1>8, Zenon
<1> QED
  BY <1>1, <1>2, <1>3, <1>4, <1>5, <1>6, <1>7, <1>8, ZenonT(30) DEF R!Next, R!vars, R!Tick, R!NothingToDo

RestoreInv == RestoreTypes /\ Kept /\ Whole

\* The restores' invariant is inductive.
LEMMA RestoreInvariance ==
    /\ R!Init => RestoreInv
    /\ RestoreInv /\ [R!Next]_(R!vars) => RestoreInv'
    /\ RestoreInv => RestoresKeep
<1>0. MaxClock \in Nat
  BY AdminStoresAssumption, ZenonT(30)
<1>1. ASSUME R!Init PROVE RestoreInv
  <2>1. data \in Dir
    BY <1>1 DEF R!Init, Dir, R!Missing, R!EmptyDir, R!Tree, R!HasContent
  <2>2. RestoreTypes
    BY SMTT(30), <1>0, <1>1, <2>1, Values DEF R!Init, RestoreTypes
  <2>3. Kept
    BY <1>1, Zenon DEF R!Init, Kept
  <2>4. Whole
    BY <1>1 DEF R!Init, Whole, R!NoProc, R!Missing, R!EmptyDir, R!Tree
  <2> QED
    BY <2>2, <2>3, <2>4, Zenon DEF RestoreInv
<1>2. RestoreInv /\ [R!Next]_(R!vars) => RestoreInv'
  BY <1>0, RestoreTypesStep, KeptStep, WholeStep, Zenon DEF RestoreInv
<1>3. ASSUME RestoreInv PROVE RestoresKeep
  <2>1. R!OldDataKept /\ R!NeverPartial
    BY <1>3, Zenon DEF RestoreInv, RestoreTypes, Kept, Whole, R!OldDataKept, R!NeverPartial, R!Range
  <2>2. R!TypeOK
    BY <1>3, Zenon DEF RestoreInv, RestoreTypes, Dir, Staged, Proc, R!TypeOK
  <2> QED
    BY <2>1, <2>2, Zenon DEF RestoresKeep
<1> QED
  BY <1>1, <1>2, <1>3, Zenon

-----------------------------------------------------------------------------
(* Quotas: auth.rs *)

Bucket == [tokens : Int, last : Int]

\* What bucket b holds at time t.
Left(b, t) == Q!Min({b.tokens + (t - b.last), Rate})

\* The readers that are not let in.
Quiet == {r \in Readers : ~reading[r]}

QuotaTypes ==
    /\ produce \in Bucket /\ consume \in Bucket
    /\ reading \in [Readers -> BOOLEAN]
    /\ now \in Int
    /\ seen \in [at : Int, produced : Int, consumed : Int, forgiven : Int]

\* What was let in and what the bucket holds together are within the quota.  The consume
\* bucket is in debt by one answer for each reader that is not let in, at most.
Spent ==
    /\ seen.produced + Left(produce, now) <= Rate + (now - seen.at)
    /\ Left(produce, now) >= 0
    /\ seen.consumed - seen.forgiven + Left(consume, now) <= Rate + (now - seen.at)
    /\ Left(consume, now) >= -(Cardinality(Quiet) * MaxFetch)

\* What is assumed of the quota's constants.
QuotaConstants ==
    /\ Rate \in Nat /\ DebtSeconds \in Nat /\ MaxFetch \in Nat
    /\ IsFiniteSet(Readers)

\* Min and Max of two integers.
LEMMA MinMax ==
    ASSUME NEW a \in Int, NEW b \in Int
    PROVE  /\ Q!Min({a, b}) = IF a <= b THEN a ELSE b
           /\ Q!Max({a, b}) = IF a >= b THEN a ELSE b
<1>1. CASE a <= b
  <2>1. Q!Min({a, b}) = a
    BY <1>1 DEF Q!Min
  <2>2. Q!Max({a, b}) = b
    BY <1>1 DEF Q!Max
  <2> QED
    BY SMTT(30), <1>1, <2>1, <2>2
<1>2. CASE ~(a <= b)
  <2>1. Q!Min({a, b}) = b
    BY <1>2 DEF Q!Min
  <2>2. Q!Max({a, b}) = a
    BY SMTT(30), <1>2 DEF Q!Max
  <2> QED
    BY SMTT(30), <1>2, <2>1, <2>2
<1> QED
  BY <1>1, <1>2, Zenon

\* A bucket gains at most one byte in a unit of time and never holds more than Rate.
LEMMA LeftFacts ==
    ASSUME QuotaConstants, NEW b \in Bucket, NEW t \in Int
    PROVE  /\ Left(b, t) \in Int /\ Left(b, t) <= Rate
           /\ Left(b, t) <= Left(b, t + 1) /\ Left(b, t + 1) <= Left(b, t) + 1
           /\ \A x \in Int : x <= Rate => Left([tokens |-> x, last |-> t], t) = x
<1>1. b.tokens \in Int /\ b.last \in Int /\ Rate \in Int
  BY DEF Bucket, QuotaConstants
<1> DEFINE a == b.tokens + (t - b.last)
<1>2. a \in Int /\ a + 1 \in Int /\ b.tokens + ((t + 1) - b.last) = a + 1
  BY <1>1
<1>3. /\ Left(b, t) = IF a <= Rate THEN a ELSE Rate
      /\ Left(b, t + 1) = IF a + 1 <= Rate THEN a + 1 ELSE Rate
  BY <1>1, <1>2, MinMax, Zenon DEF Left
<1>4. ASSUME NEW x \in Int, x <= Rate PROVE Left([tokens |-> x, last |-> t], t) = x
  <2>1. x + (t - t) = x
    OBVIOUS
  <2> QED
    BY <1>1, <1>4, <2>1, MinMax, Zenon DEF Left
<1> HIDE DEF a
<1> QED
  BY SMTT(30), <1>1, <1>2, <1>3, <1>4

\* A refill counts what the bucket holds and changes nothing of it.
LEMMA RefillFacts ==
    ASSUME QuotaConstants, NEW b \in Bucket, now \in Int
    PROVE  /\ Q!Refill(b) = [tokens |-> Left(b, now), last |-> now]
           /\ Q!Refill(b) \in Bucket /\ Left(Q!Refill(b), now) = Left(b, now)
           /\ \A x \in Int : x <= Rate =>
                /\ [Q!Refill(b) EXCEPT !.tokens = x] \in Bucket
                /\ Left([Q!Refill(b) EXCEPT !.tokens = x], now) = x
<1>1. Left(b, now) \in Int /\ Left(b, now) <= Rate
  BY LeftFacts, Zenon
<1>2. Q!Refill(b) = [tokens |-> Left(b, now), last |-> now]
  BY Zenon DEF Q!Refill, Left
<1>3. Q!Refill(b) \in Bucket /\ Left(Q!Refill(b), now) = Left(b, now)
  BY SMTT(30), <1>1, <1>2, LeftFacts DEF Bucket
<1>4. ASSUME NEW x \in Int, x <= Rate
      PROVE  /\ [Q!Refill(b) EXCEPT !.tokens = x] \in Bucket
             /\ Left([Q!Refill(b) EXCEPT !.tokens = x], now) = x
  <2>1. [Q!Refill(b) EXCEPT !.tokens = x] = [tokens |-> x, last |-> now]
    BY <1>2
  <2>2. [tokens |-> x, last |-> now] \in Bucket
    BY Zenon DEF Bucket
  <2>3. Left([tokens |-> x, last |-> now], now) = x
    BY <1>4, LeftFacts, Zenon
  <2> QED
    BY <2>1, <2>2, <2>3, ZenonT(30)
<1> QED
  BY <1>2, <1>3, <1>4, Zenon

\* Readers let in and charged.
LEMMA QuietFacts ==
    ASSUME QuotaConstants, QuotaTypes
    PROVE  /\ Cardinality(Quiet) \in Nat /\ Cardinality(Quiet) <= Cardinality(Readers)
           /\ Cardinality(Readers) \in Nat
           /\ \A r \in Readers \ Quiet : Cardinality(Quiet \cup {r}) = Cardinality(Quiet) + 1
<1>1. IsFiniteSet(Quiet) /\ Cardinality(Quiet) <= Cardinality(Readers)
  BY FS_Subset, Zenon DEF Quiet, QuotaConstants
<1> QED
  BY <1>1, FS_CardinalityType, FS_AddElement, Zenon DEF QuotaConstants

\* Products of numbers, which the solvers do not find inside a larger step.
LEMMA Products ==
    ASSUME NEW c \in Nat, NEW d \in Nat, NEW m \in Nat
    PROVE  /\ c * m \in Nat /\ (c + 1) * m = c * m + m
           /\ c <= d => c * m <= d * m
<1>1. c * m \in Nat /\ (c + 1) * m = c * m + m
  BY SMT
<1>2. ASSUME c <= d PROVE c * m <= d * m
  <2>1. d - c \in Nat
    BY <1>2
  <2>2. (d - c) * m \in Nat
    BY <2>1, SMT
  <2>3. d * m = c * m + (d - c) * m
    BY <2>1, SMT
  <2>4. c * m \in Int /\ d * m \in Int
    BY SMT
  <2> HIDE <2>1
  <2> QED
    BY SMTT(30), <2>2, <2>3, <2>4
<1> QED
  BY <1>1, <1>2, Zenon

\* The members of the history, as integers.
LEMMA SeenTypes ==
    ASSUME QuotaTypes
    PROVE  /\ seen.at \in Int /\ seen.produced \in Int
           /\ seen.consumed \in Int /\ seen.forgiven \in Int
BY Zenon DEF QuotaTypes

\* A produce that is let in takes what the bucket holds.
LEMMA ProduceStep ==
    ASSUME QuotaConstants, QuotaTypes, Spent, NEW n \in 1..(Rate + 1), Q!Produce(n)
    PROVE  QuotaTypes' /\ Spent'
<1> DEFINE b == Q!Refill(produce)
           before == Left(produce, now)
<1>1. /\ produce \in Bucket /\ consume \in Bucket /\ now \in Int /\ Rate \in Nat /\ n \in Int
      /\ n > 0
  BY DEF QuotaTypes, QuotaConstants
<1>2. UNCHANGED <<consume, reading, now>> /\ Quiet' = Quiet
  BY Zenon DEF Q!Produce, Quiet
<1>3. before \in Int /\ before <= Rate
  BY <1>1, LeftFacts, Zenon
<1>4. b.tokens = before /\ b \in Bucket /\ Left(b, now) = before
  BY SMTT(30), <1>1, RefillFacts
<1>5. CASE n <= Rate /\ n <= b.tokens
  <2>1. /\ produce' = [b EXCEPT !.tokens = b.tokens - n]
        /\ seen' = [seen EXCEPT !.produced = seen.produced + n]
    BY <1>5, Zenon DEF Q!Produce
  <2>2. before - n \in Int /\ before - n <= Rate /\ before - n >= 0
    BY SMTT(30), <1>1, <1>3, <1>4, <1>5
  <2>3. produce' \in Bucket /\ Left(produce', now) = before - n
    BY <1>1, <1>4, <2>1, <2>2, RefillFacts, Zenon
  <2>4. /\ seen' \in [at : Int, produced : Int, consumed : Int, forgiven : Int]
        /\ seen'.produced = seen.produced + n /\ seen'.at = seen.at
        /\ seen'.consumed = seen.consumed /\ seen'.forgiven = seen.forgiven
    BY <1>1, <2>1 DEF QuotaTypes
  <2>5. QuotaTypes'
    BY <1>2, <2>3, <2>4, Zenon DEF QuotaTypes
  <2> HIDE DEF b, before
  <2>6. seen.produced + before <= Rate + (now - seen.at)
    BY Zenon DEF Spent, before
  <2>7. seen'.produced + Left(produce', now) <= Rate + (now - seen'.at)
    BY SMTT(30), <1>1, <1>3, <2>3, <2>4, <2>6, SeenTypes
  <2> QED
    BY <1>2, <2>2, <2>3, <2>4, <2>5, <2>7, ZenonT(30) DEF Spent
<1>6. CASE ~(n <= Rate /\ n <= b.tokens)
  <2>1. produce' = b /\ seen' = seen
    BY <1>6, Zenon DEF Q!Produce
  <2> QED
    BY <1>2, <1>4, <2>1, Zenon DEF QuotaTypes, Spent
<1> QED
  BY <1>5, <1>6, Zenon

\* A read is let in only while the bucket is not in debt.
LEMMA StartStep ==
    ASSUME QuotaConstants, QuotaTypes, Spent, NEW r \in Readers, Q!StartRead(r)
    PROVE  QuotaTypes' /\ Spent'
<1> DEFINE before == Left(consume, now)
<1>1. consume \in Bucket /\ now \in Int /\ MaxFetch \in Nat /\ reading \in [Readers -> BOOLEAN]
  BY Zenon DEF QuotaTypes, QuotaConstants
<1>2. UNCHANGED <<produce, now, seen>>
  BY Zenon DEF Q!StartRead
<1>3. /\ consume' = Q!Refill(consume) /\ consume' \in Bucket /\ Left(consume', now) = before
      /\ Q!Refill(consume).tokens = before /\ before \in Int
  BY <1>1, RefillFacts, LeftFacts DEF Q!StartRead
<1>4. reading' = [reading EXCEPT ![r] = (before > 0)]
  BY <1>3, Zenon DEF Q!StartRead
<1>5. QuotaTypes'
  <2>1. (before > 0) \in BOOLEAN
    BY <1>3
  <2>2. reading' \in [Readers -> BOOLEAN]
    BY <1>1, <1>4, <2>1, Zenon
  <2> QED
    BY <1>2, <1>3, <2>2, Zenon DEF QuotaTypes
<1>6. before >= -(Cardinality(Quiet') * MaxFetch)
  <2>1. CASE before > 0
    <3>1. Cardinality(Quiet') \in Nat
      <4>1. Quiet' \subseteq Readers
        BY Zenon DEF Quiet
      <4> QED
        BY <4>1, FS_Subset, FS_CardinalityType, Zenon DEF QuotaConstants
    <3>2. Cardinality(Quiet') * MaxFetch \in Nat
      BY <1>1, <3>1, Products, Zenon
    <3> QED
      BY SMTT(30), <1>3, <2>1, <3>2
  <2>2. CASE ~(before > 0)
    <3>1. reading' = reading
      <4>1. reading[r] = FALSE
        BY <1>1, Zenon DEF Q!StartRead
      <4> QED
        BY SMTT(30), <1>1, <1>4, <2>2, <4>1
    <3> QED
      BY <3>1, Zenon DEF Spent, Quiet
  <2> QED
    BY <2>1, <2>2, Zenon
<1> QED
  BY <1>2, <1>3, <1>5, <1>6, Zenon DEF Spent

\* An answer is charged, and the debt cut at its floor.
LEMMA EndStep ==
    ASSUME QuotaConstants, QuotaTypes, Spent, NEW r \in Readers, NEW n \in 0..MaxFetch, Q!EndRead(r, n)
    PROVE  QuotaTypes' /\ Spent'
<1> DEFINE b == Q!Refill(consume)
           before == Left(consume, now)
           floor == -(DebtSeconds * Rate)
           left == Q!Max({before - n, floor})
           forgiven == Q!Max({floor - (before - n), 0})
<1>1. /\ consume \in Bucket /\ now \in Int /\ Rate \in Nat /\ MaxFetch \in Nat
      /\ n \in Int /\ n >= 0 /\ n <= MaxFetch /\ reading \in [Readers -> BOOLEAN]
  BY DEF QuotaTypes, QuotaConstants
<1>2. before \in Int /\ before <= Rate /\ b.tokens = before
  BY SMTT(30), <1>1, LeftFacts, RefillFacts
<1>3. floor \in Int /\ floor <= 0
  BY Products DEF QuotaConstants
<1>4. /\ consume' = [b EXCEPT !.tokens = left]
      /\ seen' = [seen EXCEPT !.consumed = seen.consumed + n,
                              !.forgiven = seen.forgiven + forgiven]
      /\ reading' = [reading EXCEPT ![r] = FALSE]
      /\ UNCHANGED <<produce, now>> /\ reading[r]
  BY <1>2, Zenon DEF Q!EndRead
<1> HIDE DEF floor
<1>5. /\ left \in Int /\ forgiven \in Int /\ left <= Rate
      /\ left = before - n + forgiven /\ left >= before - n
  <2> HIDE DEF before
  <2>0. before - n \in Int /\ floor - (before - n) \in Int /\ 0 \in Int
    BY SMTT(30), <1>1, <1>2, <1>3
  <2>1. left = IF before - n >= floor THEN before - n ELSE floor
    BY <1>3, <2>0, MinMax, Zenon
  <2>2. forgiven = IF floor - (before - n) >= 0 THEN floor - (before - n) ELSE 0
    BY <2>0, MinMax, Zenon
  <2> HIDE DEF left, forgiven
  <2> QED
    BY SMTT(30), <1>1, <1>2, <1>3, <2>1, <2>2
<1> HIDE DEF left, forgiven
<1>6. consume' \in Bucket /\ Left(consume', now) = left
  BY <1>1, <1>4, <1>5, RefillFacts, Zenon
<1>7. /\ seen' \in [at : Int, produced : Int, consumed : Int, forgiven : Int]
      /\ seen'.consumed = seen.consumed + n /\ seen'.forgiven = seen.forgiven + forgiven
      /\ seen'.at = seen.at /\ seen'.produced = seen.produced
  <2>1. seen.consumed + n \in Int /\ seen.forgiven + forgiven \in Int
    BY SMTT(30), <1>1, <1>5, SeenTypes
  <2> QED
    BY <1>4, <2>1, Zenon DEF QuotaTypes
<1>8. QuotaTypes'
  BY <1>1, <1>4, <1>6, <1>7, ZenonT(30) DEF QuotaTypes
<1> HIDE DEF before
<1>9. left >= -(Cardinality(Quiet') * MaxFetch)
  <2>1. r \in Readers \ Quiet /\ Quiet' = Quiet \cup {r}
    BY <1>1, <1>4, Zenon DEF Quiet
  <2>2. Cardinality(Quiet') = Cardinality(Quiet) + 1 /\ Cardinality(Quiet) \in Nat
    BY <2>1, QuietFacts, Zenon
  <2>3. /\ Cardinality(Quiet') * MaxFetch = Cardinality(Quiet) * MaxFetch + MaxFetch
        /\ Cardinality(Quiet) * MaxFetch \in Nat
    BY <1>1, <2>2, Products, Zenon
  <2>4. before >= -(Cardinality(Quiet) * MaxFetch)
    BY Zenon DEF Spent, before
  <2> QED
    BY SMTT(30), <1>1, <1>2, <1>5, <2>3, <2>4
<1>10. seen'.consumed - seen'.forgiven + left <= Rate + (now - seen'.at)
  <2>1. seen.consumed - seen.forgiven + before <= Rate + (now - seen.at)
    BY Zenon DEF Spent, before
  <2> QED
    BY SMTT(30), <1>1, <1>2, <1>5, <1>7, <2>1, SeenTypes
<1> QED
  BY <1>4, <1>6, <1>7, <1>8, <1>9, <1>10, ZenonT(30) DEF Spent

\* Full buckets satisfy the invariant.
LEMMA QuotaInit ==
    ASSUME QuotaConstants, Q!Init
    PROVE  QuotaTypes /\ Spent
<1>1. /\ Rate \in Nat /\ MaxFetch \in Nat /\ produce = Q!Full /\ consume = Q!Full /\ now = 0
      /\ seen = [at |-> 0, produced |-> 0, consumed |-> 0, forgiven |-> 0]
  BY Zenon DEF Q!Init, QuotaConstants
<1>2. Q!Full \in Bucket /\ Left(Q!Full, 0) = Rate
  <2>1. [tokens |-> Rate, last |-> 0] \in Bucket
    BY SMTT(30), <1>1 DEF Bucket
  <2> QED
    BY SMTT(30), <1>1, <2>1, LeftFacts DEF Q!Full
<1>3. QuotaTypes
  BY <1>1, <1>2 DEF QuotaTypes, Q!Init
<1>4. Cardinality(Quiet) * MaxFetch \in Nat
  BY <1>1, <1>3, QuietFacts, Products, Zenon
<1>5. seen.at = 0 /\ seen.produced = 0 /\ seen.consumed = 0 /\ seen.forgiven = 0
  BY <1>1, Zenon
<1> QED
  BY SMTT(30), <1>1, <1>2, <1>3, <1>4, <1>5 DEF Spent

\* Every step keeps types and what was spent.
LEMMA QuotaStep ==
    ASSUME QuotaConstants, QuotaTypes, Spent, [Q!Next]_(Q!vars)
    PROVE  QuotaTypes' /\ Spent'
<1>0. /\ produce \in Bucket /\ consume \in Bucket /\ now \in Int /\ Rate \in Nat
      /\ Left(produce, now) \in Int /\ Left(produce, now) <= Rate
      /\ Left(consume, now) \in Int /\ Left(consume, now) <= Rate
  BY LeftFacts, Zenon DEF QuotaTypes, QuotaConstants
<1>1. CASE Q!Tick
  <2>1. now' = now + 1 /\ UNCHANGED <<produce, consume, reading, seen>> /\ Quiet' = Quiet
    BY <1>1, Zenon DEF Q!Tick, Quiet
  <2>2. /\ Left(produce, now + 1) \in Int /\ Left(consume, now + 1) \in Int
        /\ Left(produce, now) <= Left(produce, now + 1)
        /\ Left(produce, now + 1) <= Left(produce, now) + 1
        /\ Left(consume, now) <= Left(consume, now + 1)
        /\ Left(consume, now + 1) <= Left(consume, now) + 1
    BY SMTT(30), <1>0, LeftFacts
  <2>3. QuotaTypes'
    BY <1>0, <2>1 DEF QuotaTypes
  <2>4. Cardinality(Quiet) * MaxFetch \in Nat
    BY QuietFacts, Products, Zenon DEF QuotaConstants
  <2>5. /\ seen.produced + Left(produce, now + 1) <= Rate + ((now + 1) - seen.at)
        /\ Left(produce, now + 1) >= 0
        /\ seen.consumed - seen.forgiven + Left(consume, now + 1) <= Rate + ((now + 1) - seen.at)
        /\ Left(consume, now + 1) >= -(Cardinality(Quiet) * MaxFetch)
    BY SMTT(30), <1>0, <2>2, <2>4, SeenTypes DEF Spent
  <2>6. /\ Left(produce', now') = Left(produce, now + 1)
        /\ Left(consume', now') = Left(consume, now + 1)
    BY <2>1, Zenon
  <2>7. seen' = seen /\ Cardinality(Quiet') = Cardinality(Quiet) /\ now' = now + 1
    BY <2>1, Zenon
  <2>8. /\ seen'.produced + Left(produce', now') <= Rate + (now' - seen'.at)
        /\ Left(produce', now') >= 0
        /\ seen'.consumed - seen'.forgiven + Left(consume', now') <= Rate + (now' - seen'.at)
        /\ Left(consume', now') >= -(Cardinality(Quiet') * MaxFetch)
    BY <2>5, <2>6, <2>7, ZenonT(30)
  <2> QED
    BY <2>3, <2>8, Zenon DEF Spent
<1>2. CASE Q!Watch
  <2>1. /\ seen' = [at |-> now, produced |-> 0, consumed |-> 0, forgiven |-> 0]
        /\ UNCHANGED <<produce, consume, reading, now>> /\ Quiet' = Quiet
    BY <1>2, Zenon DEF Q!Watch, Quiet
  <2>2. QuotaTypes'
    BY <1>0, <2>1 DEF QuotaTypes
  <2>3. seen'.at = now /\ seen'.produced = 0 /\ seen'.consumed = 0 /\ seen'.forgiven = 0
    BY <2>1, Zenon
  <2> QED
    BY SMTT(30), <1>0, <2>1, <2>2, <2>3 DEF Spent
<1>3. CASE UNCHANGED Q!vars
  BY <1>3, Zenon DEF Q!vars, QuotaTypes, Spent, Quiet
<1> QED
  BY <1>1, <1>2, <1>3, ProduceStep, StartStep, EndStep, ZenonT(30) DEF Q!Next

\* The buckets' clocks are behind the time, a produce bucket is never in debt and a consume
\* bucket not beyond the limit.
Limits ==
    /\ now \in Nat /\ produce.last \in 0..now /\ consume.last \in 0..now
    /\ produce.tokens \in Nat
    /\ consume.tokens >= -(DebtSeconds * Rate)

QuotaInv == QuotaTypes /\ Spent /\ Limits

\* A refill takes nothing away.
LEMMA RefillGains ==
    ASSUME QuotaConstants, NEW b \in Bucket, now \in Nat, b.last \in 0..now,
           NEW x \in Int, x <= b.tokens, x <= Rate
    PROVE  /\ Q!Refill(b).tokens \in Int /\ Q!Refill(b).tokens >= x
           /\ Q!Refill(b).last = now
           /\ \A y : /\ [Q!Refill(b) EXCEPT !.tokens = y].tokens = y
                     /\ [Q!Refill(b) EXCEPT !.tokens = y].last = now
<1> DEFINE a == b.tokens + (now - b.last)
<1>1. b.tokens \in Int /\ a \in Int /\ a >= x /\ Rate \in Int
  BY DEF Bucket, QuotaConstants
<1>2. Left(b, now) = IF a <= Rate THEN a ELSE Rate
  BY SMTT(30), <1>1, MinMax DEF Left
<1>3. Q!Refill(b) = [tokens |-> Left(b, now), last |-> now]
  BY RefillFacts
<1> HIDE DEF a
<1>4. Left(b, now) \in Int /\ Left(b, now) >= x
  BY <1>1, <1>2, Zenon
<1> QED
  BY SMTT(30), <1>3, <1>4

\* Every step keeps them.
LEMMA LimitsStep ==
    ASSUME QuotaConstants, QuotaTypes, Limits, [Q!Next]_(Q!vars)
    PROVE  Limits'
<1> DEFINE floor == -(DebtSeconds * Rate)
<1>1. /\ floor \in Int /\ floor <= 0 /\ Rate \in Nat
      /\ produce \in Bucket /\ consume \in Bucket
  BY Products DEF QuotaConstants, QuotaTypes
<1>2. /\ now \in Nat /\ produce.last \in 0..now /\ consume.last \in 0..now
      /\ produce.tokens \in Nat /\ consume.tokens >= floor /\ consume.tokens \in Int
  BY <1>1, Zenon DEF Limits, Bucket
<1> HIDE DEF floor
<1>3. CASE Q!Tick
  BY SMTT(30), <1>2, <1>3 DEF Q!Tick, Limits, floor
<1>4. CASE UNCHANGED <<produce, consume, now>>
  BY <1>4, Zenon DEF Limits
<1>5. ASSUME NEW n \in 1..(Rate + 1), Q!Produce(n) PROVE Limits'
  <2>1. Q!Refill(produce).tokens \in Nat /\ Q!Refill(produce).last = now
    BY <1>1, <1>2, RefillGains
  <2>2. UNCHANGED <<consume, now>>
    BY <1>5, Zenon DEF Q!Produce
  <2>3. produce'.tokens \in Nat /\ produce'.last = now
    <3>1. CASE produce' = Q!Refill(produce)
      BY <2>1, <3>1, Zenon
    <3>2. CASE /\ n <= Q!Refill(produce).tokens
               /\ produce' = [Q!Refill(produce) EXCEPT !.tokens = Q!Refill(produce).tokens - n]
      <4>1. produce'.tokens = Q!Refill(produce).tokens - n /\ produce'.last = now
        BY SMTT(30), <1>1, <1>2, <3>2, RefillGains
      <4> QED
        BY SMTT(30), <2>1, <3>2, <4>1
    <3> QED
      BY <1>5, <3>1, <3>2, Zenon DEF Q!Produce
  <2> QED
    BY SMTT(30), <1>2, <2>2, <2>3 DEF Limits, floor
<1>6. ASSUME NEW r \in Readers, Q!StartRead(r) PROVE Limits'
  <2>1. consume' = Q!Refill(consume) /\ UNCHANGED <<produce, now>>
    BY <1>6, Zenon DEF Q!StartRead
  <2>2. consume'.tokens \in Int /\ consume'.tokens >= floor /\ consume'.last = now
    BY SMTT(30), <1>1, <1>2, <2>1, RefillGains
  <2> QED
    BY SMTT(30), <1>2, <2>1, <2>2 DEF Limits, floor
<1>7. ASSUME NEW r \in Readers, NEW n \in 0..MaxFetch, Q!EndRead(r, n) PROVE Limits'
  <2> DEFINE x == Q!Refill(consume).tokens - n
  <2>1. Q!Refill(consume).tokens \in Int /\ x \in Int
    BY <1>1, <1>2, RefillGains DEF QuotaConstants
  <2>2. /\ consume' = [Q!Refill(consume) EXCEPT !.tokens = Q!Max({x, floor})]
        /\ UNCHANGED <<produce, now>>
    BY <1>7, Zenon DEF Q!EndRead, floor
  <2>3. consume'.tokens = Q!Max({x, floor}) /\ consume'.last = now
    BY SMTT(30), <1>1, <1>2, <2>2, RefillGains
  <2> HIDE DEF x
  <2>4. Q!Max({x, floor}) = IF x >= floor THEN x ELSE floor
    BY <1>1, <2>1, MinMax, Zenon
  <2>5. Q!Max({x, floor}) >= floor
    BY SMTT(30), <1>1, <2>1, <2>4
  <2> QED
    BY SMTT(30), <1>2, <2>2, <2>3, <2>5 DEF Limits, floor
<1> QED
  BY <1>3, <1>4, <1>5, <1>6, <1>7, ZenonT(30) DEF Q!Next, Q!Watch, Q!vars

\* The quotas' invariant is inductive.
LEMMA QuotaInvariance ==
    /\ Q!Init => QuotaInv
    /\ QuotaInv /\ [Q!Next]_(Q!vars) => QuotaInv'
    /\ QuotaInv => WithinRate
<1>0. QuotaConstants
  BY AdminStoresAssumption, Zenon DEF QuotaConstants
<1>1. ASSUME Q!Init PROVE QuotaInv
  <2>1. produce = [tokens |-> Rate, last |-> 0] /\ consume = produce /\ now = 0
    BY <1>1, Zenon DEF Q!Init, Q!Full
  <2>2. Rate \in Nat /\ DebtSeconds * Rate \in Nat
    BY <1>0, Products, Zenon DEF QuotaConstants
  <2>3. Limits
    BY <2>1, <2>2 DEF Limits
  <2> QED
    BY <1>0, <1>1, <2>3, QuotaInit, Zenon DEF QuotaInv
<1>2. QuotaInv /\ [Q!Next]_(Q!vars) => QuotaInv'
  BY <1>0, QuotaStep, LimitsStep, ZenonT(30) DEF QuotaInv
<1>3. ASSUME QuotaInv PROVE WithinRate
  <2>0. QuotaTypes /\ Spent /\ Limits
    BY <1>3, Zenon DEF QuotaInv
  <2>1. Q!TypeOK
    BY <2>0, Zenon DEF Limits, QuotaTypes, Bucket, Q!TypeOK
  <2>2. /\ Left(consume, now) \in Int /\ now \in Int /\ Rate \in Nat
        /\ Left(produce, now) \in Int
    BY <1>0, <2>0, LeftFacts, Zenon DEF QuotaTypes, QuotaConstants
  <2>3. Q!ProduceWithinRate
    BY SMTT(30), <2>0, <2>2, SeenTypes DEF Spent, Q!ProduceWithinRate
  <2>4. /\ Cardinality(Quiet) * MaxFetch \in Nat /\ Cardinality(Readers) * MaxFetch \in Nat
        /\ Cardinality(Quiet) * MaxFetch <= Cardinality(Readers) * MaxFetch
    BY <1>0, <2>0, QuietFacts, Products, Zenon DEF QuotaConstants
  <2>5. /\ seen.consumed - seen.forgiven + Left(consume, now) <= Rate + (now - seen.at)
        /\ Left(consume, now) >= -(Cardinality(Quiet) * MaxFetch)
    BY <2>0, Zenon DEF Spent
  <2> DEFINE most == Cardinality(Readers) * MaxFetch
             quiet == Cardinality(Quiet) * MaxFetch
  <2>6. quiet \in Nat /\ most \in Nat /\ quiet <= most /\ Left(consume, now) >= -quiet
    BY <2>4, <2>5, Zenon
  <2> HIDE DEF most, quiet
  <2>7. seen.consumed <= Rate + (now - seen.at) + most + seen.forgiven
    BY SMTT(30), <2>0, <2>2, <2>5, <2>6, SeenTypes
  <2>8. Q!ConsumeWithinRate
    <3>1. Q!Cardinality(Readers) = Cardinality(Readers)
      BY Zenon DEF Q!Cardinality, Cardinality
    <3> QED
      BY <2>7, <3>1, Zenon DEF Q!ConsumeWithinRate, most
  <2> QED
    BY <2>1, <2>3, <2>8, Zenon DEF WithinRate
<1> QED
  BY <1>1, <1>2, <1>3, Zenon

-----------------------------------------------------------------------------
(* The four together *)

\* A step of the four is a step, or none, of each.
LEMMA Projections ==
    ASSUME [AdminNext]_adminVars
    PROVE  /\ [K!Next]_(K!vars) /\ [S!Next]_(S!vars)
           /\ [Q!Next]_(Q!vars) /\ [R!Next]_(R!vars)
<1>1. UNCHANGED keysVars => UNCHANGED K!vars
  BY Zenon DEF keysVars, K!vars
<1>2. UNCHANGED schemasVars => UNCHANGED S!vars
  BY Zenon DEF schemasVars, S!vars
<1>3. UNCHANGED quotasVars => UNCHANGED Q!vars
  BY Zenon DEF quotasVars, Q!vars
<1>4. UNCHANGED restoreVars => UNCHANGED R!vars
  BY Zenon DEF restoreVars, R!vars
<1> QED
  BY <1>1, <1>2, <1>3, <1>4, Zenon DEF AdminNext, adminVars

\* A change of a key that was answered is in api_keys.json, whatever other requests create,
\* revoke and write at the same time, whichever of their writes fail and wherever the broker
\* crashes; and a connection that takes its next frame without looking at its key again does
\* not hold a revoked one, unless the revocation fell between its authentication and its
\* first read of the epoch.  auth.rs, persist and revoke; binary/server.rs, serve.
THEOREM KeysAreAnswered == AdminSpec => []KeysAnswered
<1>1. AdminInit => KeyInv
  BY KeyInvariance, Zenon DEF AdminInit
<1>2. KeyInv /\ [AdminNext]_adminVars => KeyInv'
  BY KeyInvariance, Projections, Zenon
<1>3. KeyInv => KeysAnswered
  BY KeyInvariance, ZenonT(30)
<1> QED
  BY <1>1, <1>2, <1>3, PTL DEF AdminSpec

\* What a registration has answered stays: its id names the same schema in memory and on
\* disk and is not given out again, a subject is served by its newest version, and that
\* reads the data of the one before, through any number of registrations that fail or not
\* and of crashes at any step.  schema.rs, register, latest_version, check_compatibility.
THEOREM SchemasAreServed == AdminSpec => []SchemasServed
<1>1. AdminInit => SchemaInv
  BY SchemaInvariance, Zenon DEF AdminInit
<1>2. SchemaInv /\ [AdminNext]_adminVars => SchemaInv'
  BY SchemaInvariance, Projections, ZenonT(30)
<1>3. SchemaInv => SchemasServed
  BY SchemaInvariance, Zenon
<1> QED
  BY <1>1, <1>2, <1>3, PTL DEF AdminSpec

\* Over any stretch of time the produces of a key get no more than one second's burst and
\* what the rate allows, and its consumes go over that by no more than one answer for each
\* let in together and by the debt that was forgiven, for every rate and any number of
\* readers.  auth.rs, try_take, check_credit and charge.
THEOREM QuotasKeepTheRate == AdminSpec => []WithinRate
<1>1. AdminInit => QuotaInv
  BY QuotaInvariance, Zenon DEF AdminInit
<1>2. QuotaInv /\ [AdminNext]_adminVars => QuotaInv'
  BY QuotaInvariance, Projections, ZenonT(30)
<1>3. QuotaInv => WithinRate
  BY QuotaInvariance, Zenon
<1> QED
  BY <1>1, <1>2, <1>3, PTL DEF AdminSpec

\* Whatever restores overlap, fail or are killed, and whenever a broker is started in
\* between: what the data directory has held is in it or aside, and it has never held a
\* part of an archive.  restore.rs, restore.
THEOREM RestoresLoseNothing == AdminSpec => []RestoresKeep
<1>1. AdminInit => RestoreInv
  BY RestoreInvariance, Zenon DEF AdminInit
<1>2. RestoreInv /\ [AdminNext]_adminVars => RestoreInv'
  BY RestoreInvariance, Projections, Zenon
<1>3. RestoreInv => RestoresKeep
  BY RestoreInvariance, Zenon
<1> QED
  BY <1>1, <1>2, <1>3, PTL DEF AdminSpec
=============================================================================
