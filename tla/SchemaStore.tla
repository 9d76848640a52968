---------------------------- MODULE SchemaStore ----------------------------
(***************************************************************************)
(* The schema registry, schema.rs.  One registration at a time checks a    *)
(* schema against the subject's latest version, puts it in memory and      *)
(* rewrites schemas.json; if the write fails it takes the schema out       *)
(* again.  Readers use the maps without the lock.                          *)
(*                                                                         *)
(* The file lists the entries in the order a hash map yields them: any.    *)
(***************************************************************************)
EXTENDS Integers, FiniteSets, FiniteSetsExt

CONSTANTS
    Subjects, Fields, Types,
    Absent,         \* model value: no such property, no such field
    Candidates,     \* the schemas that are registered: a subset of Schema
    MaxSchemas,     \* MAX_SCHEMAS
    MaxIds,         \* bound: ids given out
    SchemaFaults    \* bound: failed writes

\* A JSON schema, as far as check_compatibility looks at it.  typed: it has "properties".
Schema == [required : SUBSET Fields, typed : BOOLEAN, props : [Fields -> Types \cup {Absent}]]

VARIABLES
    schemas,    \* id -> entry, of those in memory
    subjects,   \* subject -> the id it is served by, 0: none
    nextId,
    file,       \* schemas.json: next_id and the entries
    reg,        \* the registration that holds write_lock
    schemaFaults,
    acked,      \* history: entries whose registration was answered
    chain,      \* history: the last entry and the one it was checked against
    reloaded    \* history: subjects not registered again since the last restart

vars == <<schemas, subjects, nextId, file, reg, schemaFaults, acked, chain, reloaded>>

NoReg == [pc |-> "free"]

Init ==
    /\ schemas = {}
    /\ subjects = [s \in Subjects |-> 0]
    /\ nextId = 1
    /\ file = [nextId |-> 1, entries |-> {}]
    /\ reg = NoReg
    /\ schemaFaults = 0
    /\ acked = {} /\ chain = {} /\ reloaded = {}

Lookup(id) == CHOOSE e \in schemas : e.id = id

-----------------------------------------------------------------------------
(* register *)

Declared(schema) == {f \in Fields : schema.props[f] # Absent}

\* Mutant: a new schema may ask for more fields.
Compatible_MoreRequired(old, new) ==
    old.typed /\ new.typed => Declared(old) \subseteq Declared(new)

\* check_compatibility: property types are not looked at.
Compatible(old, new) ==
    /\ new.required \subseteq old.required
    /\ old.typed /\ new.typed => Declared(old) \subseteq Declared(new)

\* The lock is taken, the schema checked, the id drawn and the subject pointed at it.
Check(s, kind, schema) ==
    /\ reg = NoReg /\ nextId <= MaxIds
    /\ Cardinality(schemas) < MaxSchemas
    /\ kind = "json_schema" /\ subjects[s] # 0 => Compatible(Lookup(subjects[s]).schema, schema)
    /\ LET entry == [id |-> nextId, subject |-> s, kind |-> kind, schema |-> schema]
       IN /\ reg' = [pc |-> "insert", entry |-> entry, previous |-> subjects[s]]
          /\ chain' = IF kind = "json_schema" /\ subjects[s] # 0
                      THEN {<<Lookup(subjects[s]), entry>>} ELSE chain
    /\ nextId' = nextId + 1
    /\ subjects' = [subjects EXCEPT ![s] = nextId]
    /\ UNCHANGED <<schemas, file, schemaFaults, acked, reloaded>>

Insert ==
    /\ reg.pc = "insert"
    /\ schemas' = schemas \cup {reg.entry}
    /\ reg' = [reg EXCEPT !.pc = "flush"]
    /\ UNCHANGED <<subjects, nextId, file, schemaFaults, acked, chain, reloaded>>

\* Mutant: the file keeps the number of entries for the next id.
Written_Count == [nextId |-> Cardinality(schemas), entries |-> schemas]

Written == [nextId |-> nextId, entries |-> schemas]

Flush ==
    /\ reg.pc = "flush"
    /\ file' = Written
    /\ acked' = acked \cup {reg.entry}
    /\ reloaded' = reloaded \ {reg.entry.subject}
    /\ reg' = NoReg
    /\ UNCHANGED <<schemas, subjects, nextId, schemaFaults, chain>>

\* write_json_atomic fails, before its rename or after it; the schema is removed.
FlushFails ==
    /\ reg.pc = "flush" /\ schemaFaults < SchemaFaults
    /\ file' \in {file, Written}
    /\ schemas' = schemas \ {reg.entry}
    /\ reg' = [reg EXCEPT !.pc = "undo"]
    /\ schemaFaults' = schemaFaults + 1
    /\ UNCHANGED <<subjects, nextId, acked, chain, reloaded>>

\* Mutant: the subject is left pointing at the removed schema.
Undo_Half ==
    /\ reg.pc = "undo"
    /\ reg' = NoReg
    /\ UNCHANGED <<schemas, subjects, nextId, file, schemaFaults, acked, chain, reloaded>>

\* The subject goes back to its previous version.
Undo ==
    /\ reg.pc = "undo"
    /\ subjects' = [subjects EXCEPT ![reg.entry.subject] = reg.previous]
    /\ reg' = NoReg
    /\ UNCHANGED <<schemas, nextId, file, schemaFaults, acked, chain, reloaded>>

\* SchemaStore::open.  The last entry of a subject in the file is taken for the latest.
Restart ==
    /\ schemas' = file.entries
    /\ subjects' \in {f \in [Subjects -> 0..MaxIds] :
         \A s \in Subjects :
           LET ids == {e.id : e \in {x \in file.entries : x.subject = s}}
           IN IF ids = {} THEN f[s] = 0 ELSE f[s] \in ids}
    /\ nextId' = file.nextId
    /\ reg' = NoReg
    /\ reloaded' = Subjects
    /\ UNCHANGED <<file, schemaFaults, acked, chain>>

Next ==
    \/ \E s \in Subjects, kind \in {"json_schema", "avro"}, schema \in Candidates :
         Check(s, kind, schema)
    \/ Insert \/ Flush \/ FlushFails \/ Undo \/ Restart

Spec == Init /\ [][Next]_vars

-----------------------------------------------------------------------------
(* Properties *)

SchemaEntry ==
    [id : 1..MaxIds, subject : Subjects, kind : {"json_schema", "avro"}, schema : Schema]

\* Types; an id names one entry, in memory and on disk.
TypeOK ==
    /\ schemas \subseteq SchemaEntry /\ file.entries \subseteq SchemaEntry
    /\ \A a, b \in schemas : a.id = b.id => a = b
    /\ \A a, b \in file.entries : a.id = b.id => a = b
    /\ subjects \in [Subjects -> 0..MaxIds]
    /\ reg.pc \in {"free", "insert", "flush", "undo"}

\* What a registration has answered stays: its id names the same schema in memory and on
\* disk, whatever registrations fail later and wherever the broker crashes, and the id is
\* never given out again.  schema.rs, register and open.
AnsweredIdsStay ==
    /\ acked \subseteq schemas
    /\ acked \subseteq file.entries
    /\ \A e \in acked : e.id < nextId /\ e.id < file.nextId

\* Until a restart a subject is served by its newest answered version, also after failed
\* registrations; the file does not keep the order, so a restart may choose an older one.
\* A reader that follows a subject to its schema finds one, except in the middle of a
\* registration of that subject.  schema.rs, register and latest_version.
LatestIsServed ==
    \A s \in Subjects :
       LET ids == {e.id : e \in {x \in acked : x.subject = s}}
       IN /\ reg = NoReg /\ s \notin reloaded => subjects[s] = Max(ids \cup {0})
          /\ \/ subjects[s] = 0
             \/ \E e \in schemas : e.id = subjects[s] /\ e.subject = s
             \/ reg # NoReg /\ reg.entry.subject = s

Doc == [Fields -> Types \cup {Absent}]

\* Reference: a document is valid under a schema.
Accepts(schema, doc) ==
    /\ \A f \in schema.required : doc[f] # Absent
    /\ schema.typed => \A f \in Declared(schema) : doc[f] \in {schema.props[f], Absent}

\* The doc's claim for the check, "new schema must accept all data that the old schema
\* accepted", holds for documents of the fields the old schema declares, when the new
\* one gives those fields the same types: types are not compared.
\* schema.rs, check_compatibility.
OldDataAccepted ==
    \A pair \in chain :
       LET old == pair[1].schema
           new == pair[2].schema
       IN (\A f \in Declared(old) : new.props[f] = old.props[f] \/ ~new.typed) =>
            \A doc \in Doc :
               /\ Accepts(old, doc)
               /\ old.typed
               /\ \A f \in Fields : doc[f] # Absent => f \in Declared(old)
               => Accepts(new, doc)
=============================================================================
