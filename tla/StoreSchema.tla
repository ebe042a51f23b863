---------------------------- MODULE StoreSchema ----------------------------
(***************************************************************************)
(* The opening of the run store by several processes (store/db.py): each   *)
(* reads the version of the schema and brings it up to the one its build   *)
(* knows, a version at a time.  The script of a version is one transaction *)
(* that creates tables and numbers the schema; no table is created twice,  *)
(* so the script fails if another process has run it since the version     *)
(* was read.                                                               *)
(***************************************************************************)
EXTENDS Integers

CONSTANTS
    Procs,
    Tables,
    Latest,         \* the newest version of any build
    Migrations,     \* Migrations[v]: the tables that version v creates
    Knows           \* Knows[p]: SCHEMA_VERSION of the build that p runs

ASSUME SchemaAssumption ==
    /\ Latest \in Nat \ {0}
    /\ Migrations \in [1 .. Latest -> (SUBSET Tables) \ {{}}]
    /\ \A v, w \in 1 .. Latest : v # w => Migrations[v] \cap Migrations[w] = {}
    /\ Knows \in [Procs -> 1 .. Latest]

VARIABLES
    version,        \* PRAGMA user_version
    tables,         \* the tables in the file
    link,           \* link[p]: p's connection
    reached         \* reached[p]: the version p has read or brought about

schemaVars == <<version, tables, link, reached>>

Links == {"closed",     \* no connection
          "migrating",  \* the version that was read is an older one
          "open",
          "refused",    \* SchemaTooNewError
          "failed"}     \* any other exception of connect

SchemaInit ==
    /\ version = 0
    /\ tables = {}
    /\ link = [p \in Procs |-> "closed"]
    /\ reached = [p \in Procs |-> 0]

\* Mutant: a store that has any version is taken as it is.
MutReadVersion(p) ==
    /\ link[p] = "closed"
    /\ reached' = [reached EXCEPT ![p] = version]
    /\ link' = [link EXCEPT ![p] =
            IF version > Knows[p] THEN "refused" ELSE IF version > 0 THEN "open" ELSE "migrating"]
    /\ UNCHANGED <<version, tables>>

\* connect, up to the read of the version.
ReadVersion(p) ==
    /\ link[p] = "closed"
    /\ reached' = [reached EXCEPT ![p] = version]
    /\ link' = [link EXCEPT ![p] =
            IF version > Knows[p] THEN "refused"
            ELSE IF version = Knows[p] THEN "open"
            ELSE "migrating"]
    /\ UNCHANGED <<version, tables>>

\* Mutant: CREATE TABLE IF NOT EXISTS.
MutCanCreate(v) == TRUE

\* CREATE TABLE fails for a table that exists.
CanCreate(v) == Migrations[v] \cap tables = {}

\* The script of the next version, with its own BEGIN and COMMIT.
Migrate(p) ==
    LET next == reached[p] + 1
    IN
    /\ link[p] = "migrating"
    /\ CanCreate(next)
    /\ tables' = tables \cup Migrations[next]
    /\ version' = next
    /\ reached' = [reached EXCEPT ![p] = next]
    /\ link' = [link EXCEPT ![p] = IF next = Knows[p] THEN "open" ELSE @]

\* Mutant: the same script is tried again.
MutMigrateTwice(p) ==
    /\ link[p] = "migrating"
    /\ ~CanCreate(reached[p] + 1)
    /\ UNCHANGED schemaVars

\* The script fails at its first table and is rolled back.
MigrateTwice(p) ==
    /\ link[p] = "migrating"
    /\ ~CanCreate(reached[p] + 1)
    /\ link' = [link EXCEPT ![p] = "failed"]
    /\ UNCHANGED <<version, tables, reached>>

\* The file stays locked, or the process dies, in a script or before it; the
\* script is rolled back.
FailToOpen(p) ==
    /\ link[p] \in {"closed", "migrating"}
    /\ link' = [link EXCEPT ![p] = "failed"]
    /\ UNCHANGED <<version, tables, reached>>

\* The command ends, however it went; another may follow.
Disconnect(p) ==
    /\ link[p] \in {"open", "refused", "failed"}
    /\ link' = [link EXCEPT ![p] = "closed"]
    /\ UNCHANGED <<version, tables, reached>>

SchemaStep(p) ==
    \/ ReadVersion(p) \/ Migrate(p) \/ MigrateTwice(p) \/ FailToOpen(p) \/ Disconnect(p)

SchemaNext == \E p \in Procs : SchemaStep(p)

SchemaSpec == SchemaInit /\ [][SchemaNext]_schemaVars

(* Commands are run again after a failure, and the store is not always     *)
(* locked when one begins, nor does it always die.                         *)
SchemaFairness ==
    \A p \in Procs :
        /\ WF_schemaVars(Disconnect(p))
        /\ SF_schemaVars(ReadVersion(p))
        /\ SF_schemaVars(Migrate(p) \/ MigrateTwice(p))

FairSchemaSpec == SchemaSpec /\ SchemaFairness

-----------------------------------------------------------------------------
\* The variables have their types.
SchemaTypeOK ==
    /\ version \in 0 .. Latest
    /\ tables \subseteq Tables
    /\ link \in [Procs -> Links]
    /\ reached \in [Procs -> 0 .. Latest]

TablesOf(v) == UNION {Migrations[w] : w \in 1 .. v}

(***************************************************************************)
(* The version of the store says exactly which tables it has, whoever      *)
(* opens it at the same time and wherever they die: "a crash mid-migration *)
(* cannot leave a half-built schema marked as complete" (db.py:63), and a  *)
(* process that read an old version cannot set the version back.           *)
(***************************************************************************)
SchemaIsWhole == tables = TablesOf(version)

\* A process that has opened the store finds all the tables of its build.
OpenStoreIsUsable ==
    \A p \in Procs : link[p] = "open" => TablesOf(Knows[p]) \subseteq tables

\* The schema is only ever brought forward, a version at a time (schema.py:
\* "forward-only migrations").
ForwardOnly == [][version' \in {version, version + 1} /\ tables \subseteq tables']_schemaVars

(***************************************************************************)
(* A process that finds its migration already run fails, but whoever keeps *)
(* trying gets in, unless its build is too old for the store.              *)
(***************************************************************************)
NobodyIsLockedOut ==
    \A p \in Procs : <>(link[p] = "open" \/ version > Knows[p])
=============================================================================
