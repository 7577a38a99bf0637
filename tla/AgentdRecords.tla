--------------------------- MODULE AgentdRecords ---------------------------
(***************************************************************************)
(* agentd: the start of the ledger, with its migrations, the full-text     *)
(* index of its events, and the incident workspaces (ledger.rs,            *)
(* api/receipts.rs, api/memory.rs).  A handler keeps the mutex of the      *)
(* ledger and has no await, so it is one step here; but its statements are *)
(* transactions of their own, and the process may end between them.        *)
(***************************************************************************)
EXTENDS HashChain, FiniteSets

CONSTANTS
    Incidents,     \* the UUIDs of incidents
    Inherited,     \* bound: events that an older agentd has left
    MaxRecords,    \* bound: events
    MaxTroubles,   \* bound: crashes, appends and reads that fail
    NoIncident     \* no incident of that id; events about none

ASSUME RecordsAssumption ==
    /\ NoIncident \notin Incidents /\ NoIncident \notin Seq(Nat)
    /\ Inherited \in Nat /\ MaxRecords \in Nat /\ MaxTroubles \in Nat

VARIABLES
    opening,       \* how far Ledger::new and main have come: closed, tables,
                   \* hashed, indexed, stamped, open
    version,       \* schema_version; 0 if the table has no row
    found,         \* the version that migrate has read; 0 if it could not
    ledger,        \* the table events
    format,        \* observer: joined if version 1 has hashed the rows, passed by if a
                   \* start took them for new ones, piped if they are
    indexed,       \* the rows that events_fts has
    incidents,     \* the step numbers of an incident, in the order of insertion
    troubles

recordVars == <<opening, version, found, ledger, format, indexed, incidents, troubles>>

Fact(kind, incident, step) == [kind |-> kind, incident |-> incident, step |-> step]
FactKinds == {"start", "memory", "incident.create", "incident.step"}
Facts == [kind: FactKinds, incident: Incidents \cup {NoIncident}, step: Nat]

-----------------------------------------------------------------------------
(* Migrations.  Version 1 hashed the columns without delimiters; versions  *)
(* 1 and 2 had no full-text index.  CURRENT_SCHEMA_VERSION is 3.           *)

\* Mutant: the stored prev_hash goes into the new hash.
RehashedOldLinks(events) ==
    [k \in DOMAIN events |->
        [events[k] EXCEPT !.hash = Hash(events[k].id, events[k].body, events[k].prev)]]

\* rehash_chain: every row again, linked to the row before it; one transaction.
\* A digest is the texts that it commits to, one of each row.
Rehashed(events) ==
    LET Text(k) == [j \in 1 .. k |-> <<events[j].id, events[j].body>>]
    IN  [k \in DOMAIN events |->
            [id |-> events[k].id, body |-> events[k].body, prev |-> Text(k - 1),
             hash |-> Hash(events[k].id, events[k].body, Text(k - 1))]]

\* What an older version has left.
Legacy(v, n) ==
    LET fact == Fact("memory", NoIncident, 0)
        Joined(k) == [j \in 1 .. k |-> <<"joined", j, fact>>]
        joined == [k \in 1 .. n |->
                      [id |-> k, body |-> fact, prev |-> Joined(k - 1), hash |-> Joined(k)]]
    IN  IF v = 1 THEN joined ELSE Rehashed(joined)

\* Tables and the trigger are created if they are not there.  A version that
\* cannot be read counts as 0, as one that is not there does.
RecordsOpen ==
    /\ opening = "closed"
    /\ \/ found' = version /\ UNCHANGED troubles
       \/ /\ troubles < MaxTroubles
          /\ troubles' = troubles + 1
          /\ found' = 0
    /\ opening' = IF found' >= 3 THEN "stamped" ELSE "tables"
    /\ UNCHANGED <<version, ledger, format, indexed, incidents>>

\* Only for version 1: version 0 is taken for a new database.
MigrateHashes ==
    /\ opening = "tables"
    /\ ledger' = IF found = 1 THEN Rehashed(ledger) ELSE ledger
    /\ format' = IF found = 1 THEN "piped"
                 ELSE IF found = 0 /\ format = "joined" THEN "passed by" ELSE format
    /\ opening' = "hashed"
    /\ UNCHANGED <<version, found, indexed, incidents, troubles>>

\* A row that is in the index already is found as before.
BackfillFts ==
    /\ opening = "hashed"
    /\ indexed' = indexed \cup DOMAIN ledger
    /\ opening' = "indexed"
    /\ UNCHANGED <<version, found, ledger, format, incidents, troubles>>

StampVersion ==
    /\ opening = "indexed"
    /\ version' = 3
    /\ opening' = "stamped"
    /\ UNCHANGED <<found, ledger, format, indexed, incidents, troubles>>

-----------------------------------------------------------------------------
(* Appending: Agentd has the steps of it and why it may fail.  The trigger *)
(* indexes the row in the same transaction.                                *)

Appended(fact) ==
    /\ ledger' = Append(ledger, NewRow(ledger, fact, LastHash(ledger)))
    /\ indexed' = indexed \cup {Len(ledger) + 1}

\* The event that tells of a statement before it: appended, not appended (the
\* error is ignored), or the process ends first.
Told(fact) ==
    \/ Appended(fact) /\ UNCHANGED <<opening, troubles>>
    \/ /\ troubles < MaxTroubles
       /\ troubles' = troubles + 1
       /\ opening' \in {opening, "closed"}
       /\ UNCHANGED <<ledger, indexed>>

\* The bound.
HasRoom == Len(ledger) < MaxRecords

\* A chain that does not verify is reported, and used all the same.
RecordsStart ==
    /\ opening = "stamped"
    /\ HasRoom
    /\ \/ Appended(Fact("start", NoIncident, 0)) /\ opening' = "open" /\ UNCHANGED troubles
       \/ /\ troubles < MaxTroubles
          /\ troubles' = troubles + 1
          /\ opening' = "open"
          /\ UNCHANGED <<ledger, indexed>>
    /\ UNCHANGED <<version, found, format, incidents>>

\* memory_ingest_handler and memory_store_handler; one that fails changes nothing.
MemoryStore ==
    /\ opening = "open"
    /\ HasRoom
    /\ Appended(Fact("memory", NoIncident, 0))
    /\ UNCHANGED <<opening, version, found, format, incidents, troubles>>

RecordsCrash ==
    /\ opening # "closed"
    /\ troubles < MaxTroubles
    /\ troubles' = troubles + 1
    /\ opening' = "closed"
    /\ UNCHANGED <<version, found, ledger, format, indexed, incidents>>

-----------------------------------------------------------------------------
(* Incident workspaces: nothing resolves or removes one.                   *)

IsIncident(i) == incidents[i] # NoIncident
StepNumber(i) == Len(incidents[i]) + 1

IncidentCreate(i) ==
    /\ opening = "open"
    /\ HasRoom
    /\ ~ IsIncident(i)
    /\ incidents' = [incidents EXCEPT ![i] = <<>>]
    /\ Told(Fact("incident.create", i, 0))
    /\ UNCHANGED <<version, found, format>>

\* Mutant: the event is appended before the row, which is not always inserted.
IncidentStepToldFirst(i) ==
    /\ opening = "open"
    /\ HasRoom
    /\ IsIncident(i)
    /\ Appended(Fact("incident.step", i, StepNumber(i)))
    /\ \/ /\ incidents' = [incidents EXCEPT ![i] = Append(@, StepNumber(i))]
          /\ UNCHANGED <<opening, troubles>>
       \/ /\ troubles < MaxTroubles
          /\ troubles' = troubles + 1
          /\ opening' = "closed"
          /\ UNCHANGED incidents
    /\ UNCHANGED <<version, found, format>>

IncidentStep(i) ==
    /\ opening = "open"
    /\ HasRoom
    /\ IsIncident(i)
    /\ incidents' = [incidents EXCEPT ![i] = Append(@, StepNumber(i))]
    /\ Told(Fact("incident.step", i, StepNumber(i)))
    /\ UNCHANGED <<version, found, format>>

-----------------------------------------------------------------------------

\* What an older version has left, with its number or, if the row is missing,
\* without one.
\* No event at all and no number: a new database.
RecordsInit ==
    /\ opening = "closed"
    /\ \E v \in {1, 2}, n \in 0 .. Inherited :
          /\ ledger = Legacy(v, n)
          /\ version \in {0, v}
          /\ format = IF v = 1 THEN "joined" ELSE "piped"
    /\ found = 0
    /\ indexed = {}
    /\ incidents = [i \in Incidents |-> NoIncident]
    /\ troubles = 0

RecordsNext ==
    \/ RecordsOpen \/ MigrateHashes \/ BackfillFts \/ StampVersion \/ RecordsStart
    \/ MemoryStore \/ RecordsCrash
    \/ \E i \in Incidents : IncidentCreate(i) \/ IncidentStep(i)

RecordsSpec == RecordsInit /\ [][RecordsNext]_recordVars

-----------------------------------------------------------------------------
(* Properties.                                                             *)

\* When the daemon serves, whatever version left the database and however often
\* the migration (migrate, rehash_chain, backfill_fts) was cut short, every event
\* is in the index of the full-text search and the chain verifies.  One case is
\* excepted: rows of version 1 whose number was missing or could not be read
\* (unwrap_or(0), ledger.rs:126) are stamped as new without being hashed again.
MigrationCompletes ==
    opening = "open" =>
        /\ Verify(ledger) \/ format = "passed by"
        /\ indexed = DOMAIN ledger

\* The events about an incident (incident_create_handler, incident_step_handler)
\* and its tables agree, over crashes and failed appends: steps are numbered
\* without gaps, an event tells of a step that is there, no step is told of
\* twice, and steps are told of in order and after the incident.
IncidentTrail ==
    \A i \in Incidents :
        LET About(kind) == {k \in DOMAIN ledger : ledger[k].body.incident = i /\ ledger[k].body.kind = kind}
        IN  IF ~ IsIncident(i) THEN About("incident.create") \cup About("incident.step") = {}
            ELSE /\ \A n \in DOMAIN incidents[i] : incidents[i][n] = n
                 /\ \A k \in About("incident.step") : ledger[k].body.step \in DOMAIN incidents[i]
                 /\ \A k, l \in About("incident.step") :
                       k < l => ledger[k].body.step < ledger[l].body.step
                 /\ \A k \in About("incident.create"), l \in About("incident.step") : k < l
=============================================================================
