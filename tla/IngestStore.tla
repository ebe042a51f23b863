----------------------------- MODULE IngestStore -----------------------------
(***************************************************************************)
(* `flaketriage ingest` by any number of processes (ingest/pipeline.py,    *)
(* identity/reconcile.py, the writes of store/repositories.py): each       *)
(* parses the result files of one upload and stores them in a series of    *)
(* transactions, between which other processes run and after any of which  *)
(* it may die. CI repeats an ingest that failed, with the same files.      *)
(*                                                                         *)
(* An upload is one (run_id, attempt, shard). A test stands for its        *)
(* fingerprint and its row in test_identities.                             *)
(***************************************************************************)
EXTENDS AliasRules, Sequences

CONSTANTS
    Uploads,
    StartedAt,          \* StartedAt[u]: when the run of upload u started
    Tests,
    Outcomes,
    Reports,            \* what result files can hold: sequences of cases
    Distance,           \* Distance[<<old, new>>] of two tests
    CertainDistances,   \* values that configurations give alias_certain_distance
    WithDiff,           \* uploads that come with a diff
    Incomplete,         \* uploads whose files give parse warnings
    MaxWarnings,        \* bound: times the warnings of an upload are stored
    Procs

Cases == [test : Tests, outcome : Outcomes]

None == "none"

ASSUME IngestAssumption ==
    /\ None \notin Uploads
    /\ StartedAt \in [Uploads -> Nat]
    /\ Reports \subseteq Seq(Cases)
    /\ Distance \in [Tests \X Tests -> Nat]
    /\ CertainDistances \subseteq Nat
    /\ WithDiff \subseteq Uploads
    /\ Incomplete \subseteq Uploads
    /\ MaxWarnings \in Nat

VARIABLES
    report,         \* report[u]: the cases in the files of upload u
    runs,           \* uploads with a row in runs
    identities,     \* tests with a row in test_identities
    executions,     \* executions[u]: the outcome of each test executed in u
    aliases,        \* aliases[pair]: the row of a rename, or NoAlias
    diffs,          \* uploads whose diff is stored
    warnings,       \* warnings[u]: times the warnings of u are stored
    pc,             \* where each process is in `ingest`
    upload,         \* what each process ingests
    cases,          \* cases whose identity it has yet to store
    candidates,     \* renames it has yet to store: [pair, certain]
    onTime          \* history: uploads stored after all that started earlier

store == <<runs, identities, executions, aliases, diffs, warnings>>
local == <<pc, upload, cases, candidates>>
vars == <<report, store, local, onTime>>

NoAlias == [run |-> None, certain |-> FALSE]
NoExecutions == [t \in {} |-> None]

Stages == {"idle", "run", "identities", "reconcile", "aliases", "warnings", "done"}

\* The tests of some cases, and what the store keeps of the cases: one
\* execution per test, that of the first case (record_executions).
TestsOf(rows) == {rows[i].test : i \in DOMAIN rows}

FirstOf(rows, t) == CHOOSE i \in DOMAIN rows :
    /\ rows[i].test = t
    /\ \A j \in DOMAIN rows : rows[j].test = t => i <= j

Observed(rows) == [t \in TestsOf(rows) |-> rows[FirstOf(rows, t)].outcome]

\* A later case of a test replaces an earlier one.
MutStored(old, rows) ==
    [t \in DOMAIN old \cup TestsOf(rows) |->
        IF t \notin TestsOf(rows) THEN old[t]
        ELSE LET last == CHOOSE i \in DOMAIN rows : rows[i].test = t
                     /\ \A j \in DOMAIN rows : rows[j].test = t => j <= i
             IN rows[last].outcome]

\* Rows win over new cases of the same test.
Stored(old, rows) ==
    [t \in DOMAIN old \cup TestsOf(rows) |-> IF t \in DOMAIN old THEN old[t] ELSE Observed(rows)[t]]

Ran(u) == DOMAIN executions[u]

\* "Before" in the order in which uploads were stored.
MutBefore(u) == UNION {Ran(v) : v \in Uploads \ {u}}

\* A test with two shards of a run that started at once.
MutBeforeOrAt(u) ==
    UNION {Ran(v) : v \in {v \in Uploads \ {u} : StartedAt[v] <= StartedAt[u]}}

\* Tests with an execution in a run that started before u did
\* (identities_before_run).
Before(u) == UNION {Ran(v) : v \in {v \in Uploads : StartedAt[v] < StartedAt[u]}}

Init ==
    /\ report \in [Uploads -> Reports]
    /\ runs = {}
    /\ identities = {}
    /\ executions = [u \in Uploads |-> NoExecutions]
    /\ aliases = [pair \in Tests \X Tests |-> NoAlias]
    /\ diffs = {}
    /\ warnings = [u \in Uploads |-> 0]
    /\ pc = [p \in Procs |-> "idle"]
    /\ upload = [p \in Procs |-> None]
    /\ cases = [p \in Procs |-> <<>>]
    /\ candidates = [p \in Procs |-> {}]
    /\ onTime = {}

GoTo(p, stage) == pc' = [pc EXCEPT ![p] = stage]

\* The command parses the files before it opens the store.
Start(p) ==
    /\ pc[p] = "idle"
    /\ GoTo(p, "run")
    /\ \E u \in Uploads : upload' = [upload EXCEPT ![p] = u]
    /\ UNCHANGED <<report, store, cases, candidates, onTime>>

\* record_run: an upload that has a row keeps it.
RecordRun(p) ==
    /\ pc[p] = "run"
    /\ runs' = runs \cup {upload[p]}
    /\ cases' = [cases EXCEPT ![p] = report[upload[p]]]
    /\ GoTo(p, "identities")
    /\ UNCHANGED <<report, identities, executions, aliases, diffs, warnings,
                   upload, candidates, onTime>>

\* Only the first case has its identity stored.
MutUpsertIdentity(p) ==
    /\ pc[p] = "identities"
    /\ cases[p] # <<>>
    /\ identities' = identities \cup {Head(cases[p]).test}
    /\ cases' = [cases EXCEPT ![p] = <<>>]
    /\ UNCHANGED <<report, runs, executions, aliases, diffs, warnings,
                   pc, upload, candidates, onTime>>

\* upsert_identity, once per case.
UpsertIdentity(p) ==
    /\ pc[p] = "identities"
    /\ cases[p] # <<>>
    /\ identities' = identities \cup {Head(cases[p]).test}
    /\ cases' = [cases EXCEPT ![p] = Tail(@)]
    /\ UNCHANGED <<report, runs, executions, aliases, diffs, warnings,
                   pc, upload, candidates, onTime>>

\* Each row in a transaction of its own.
MutRecordExecutions(p) ==
    LET u == upload[p]
        missing == TestsOf(report[u]) \ Ran(u)
    IN
    /\ pc[p] = "identities"
    /\ cases[p] = <<>>
    /\ IF missing = {} THEN UNCHANGED executions /\ GoTo(p, "reconcile")
       ELSE /\ \E t \in missing : executions' = [executions EXCEPT
                   ![u] = [s \in Ran(u) \cup {t} |-> Observed(report[u])[s]]]
            /\ UNCHANGED pc
    /\ UNCHANGED <<report, runs, identities, aliases, diffs, warnings,
                   upload, cases, candidates, onTime>>

\* An ingest that inserts nothing has nothing left to do.
MutSkipRepeated(p) ==
    LET u == upload[p]
        Started == {v \in Uploads : StartedAt[v] < StartedAt[u]}
    IN
    /\ pc[p] = "identities"
    /\ cases[p] = <<>>
    /\ executions' = [executions EXCEPT ![u] = Stored(@, report[u])]
    /\ onTime' = IF Ran(u) = {} /\ \A v \in Started : Ran(v) = TestsOf(report[v])
                 THEN onTime \cup {u} ELSE onTime
    /\ GoTo(p, IF Ran(u) = TestsOf(report[u]) THEN "done" ELSE "reconcile")
    /\ UNCHANGED <<report, runs, identities, aliases, diffs, warnings,
                   upload, cases, candidates>>

\* record_executions: one transaction, rows that exist are kept.
RecordExecutions(p) ==
    LET u == upload[p]
        Started == {v \in Uploads : StartedAt[v] < StartedAt[u]}
    IN
    /\ pc[p] = "identities"
    /\ cases[p] = <<>>
    /\ executions' = [executions EXCEPT ![u] = Stored(@, report[u])]
    /\ onTime' = IF Ran(u) = {} /\ \A v \in Started : Ran(v) = TestsOf(report[v])
                 THEN onTime \cup {u} ELSE onTime
    /\ GoTo(p, "reconcile")
    /\ UNCHANGED <<report, runs, identities, aliases, diffs, warnings,
                   upload, cases, candidates>>

\* reconcile_renames reads what the run executed, then what ran before it;
\* nothing is found for a run without executions. The first read cannot be
\* out of date: the executions of this upload are all stored. This is where
\* the configuration of the command matters.
Reconcile(p) ==
    LET current == Ran(upload[p])
        previous == Before(upload[p])
    IN
    /\ pc[p] = "reconcile"
    /\ \E d \in CertainDistances : candidates' = [candidates EXCEPT ![p] =
           {[pair |-> pair, certain |-> Distance[pair] <= d] :
               pair \in DetectRenames(Distance, previous \ current, current \ previous)}]
    /\ GoTo(p, "aliases")
    /\ UNCHANGED <<report, store, upload, cases, onTime>>

\* The latest observation replaces the row.
MutUpgraded(alias, u, certain) == [run |-> u, certain |-> certain]

\* The row of a rename after one more observation of it: the first run that
\* showed it stays, and certainty is only ever gained (record_alias).
Upgraded(alias, u, certain) ==
    IF alias = NoAlias THEN [run |-> u, certain |-> certain]
    ELSE [alias EXCEPT !.certain = @ \/ certain]

\* record_alias for each candidate, the closest first.
RecordAlias(p) ==
    /\ pc[p] = "aliases"
    /\ \E new \in candidates[p] :
        /\ \A other \in candidates[p] : Distance[new.pair] <= Distance[other.pair]
        /\ aliases' = [aliases EXCEPT ![new.pair] = Upgraded(@, upload[p], new.certain)]
        /\ candidates' = [candidates EXCEPT ![p] = @ \ {new}]
    /\ UNCHANGED <<report, runs, identities, executions, diffs, warnings,
                   pc, upload, cases, onTime>>

\* record_diff: files that have a row keep it.
RecordDiff(p) ==
    /\ pc[p] = "aliases"
    /\ candidates[p] = {}
    /\ diffs' = diffs \cup ({upload[p]} \cap WithDiff)
    /\ GoTo(p, "warnings")
    /\ UNCHANGED <<report, runs, identities, executions, aliases, warnings,
                   upload, cases, candidates, onTime>>

\* record_warnings: a plain insert of whatever the parsers warned of.
RecordWarnings(p) ==
    LET u == upload[p] IN
    /\ pc[p] = "warnings"
    /\ u \in Incomplete => warnings[u] < MaxWarnings
    /\ warnings' = IF u \in Incomplete THEN [warnings EXCEPT ![u] = @ + 1] ELSE warnings
    /\ GoTo(p, "done")
    /\ UNCHANGED <<report, runs, identities, executions, aliases, diffs,
                   upload, cases, candidates, onTime>>

Leave(p) ==
    /\ GoTo(p, "idle")
    /\ upload' = [upload EXCEPT ![p] = None]
    /\ cases' = [cases EXCEPT ![p] = <<>>]
    /\ candidates' = [candidates EXCEPT ![p] = {}]
    /\ UNCHANGED <<report, store, onTime>>

Finish(p) == pc[p] = "done" /\ Leave(p)

\* The process dies, or finds the database busy: the transaction it is in is
\* rolled back (db.transaction) and the command ends.
Crash(p) == pc[p] \notin {"idle", "done"} /\ Leave(p)

Next ==
    \E p \in Procs :
        \/ Start(p) \/ RecordRun(p) \/ UpsertIdentity(p) \/ RecordExecutions(p)
        \/ Reconcile(p) \/ RecordAlias(p) \/ RecordDiff(p) \/ RecordWarnings(p)
        \/ Finish(p) \/ Crash(p)

Spec == Init /\ [][Next]_vars

-----------------------------------------------------------------------------
Executions == UNION {[ts -> Outcomes] : ts \in SUBSET Tests}

\* Rows refer to rows: no execution or rename of an unknown test or run.
RowsRefer ==
    /\ diffs \subseteq runs
    /\ \A u \in Uploads : Ran(u) # {} => u \in runs /\ Ran(u) \subseteq identities
    /\ \A pair \in Tests \X Tests : aliases[pair] # NoAlias =>
           Ends(pair) \subseteq identities /\ aliases[pair].run \in runs

\* The type of every variable, and RowsRefer.
TypeOK ==
    /\ report \in [Uploads -> Reports]
    /\ runs \subseteq Uploads
    /\ identities \subseteq Tests
    /\ executions \in [Uploads -> Executions]
    /\ aliases \in [Tests \X Tests -> {NoAlias} \cup [run : Uploads, certain : BOOLEAN]]
    /\ diffs \subseteq Uploads
    /\ warnings \in [Uploads -> 0 .. MaxWarnings]
    /\ pc \in [Procs -> Stages]
    /\ upload \in [Procs -> Uploads \cup {None}]
    /\ \A p \in Procs : upload[p] = None <=> pc[p] = "idle"
    /\ cases \in [Procs -> Seq(Cases)]
    /\ candidates \in [Procs -> SUBSET [pair : Tests \X Tests, certain : BOOLEAN]]
    /\ onTime \subseteq Uploads
    /\ RowsRefer

(***************************************************************************)
(* A stored rename rests on executions that are there for good: the new    *)
(* test ran in the run that showed the rename and the old one did not, the *)
(* old one ran in a run that started earlier, and the two are close        *)
(* (reconcile_renames). No stale read, crash or late upload undoes it.     *)
(***************************************************************************)
RestsOnHistory(pair, u) ==
    /\ pair[2] \in Ran(u) /\ pair[1] \notin Ran(u)
    /\ \E v \in Uploads : StartedAt[v] < StartedAt[u] /\ pair[1] \in Ran(v)
    /\ Distance[pair] <= MaxDistance

AliasesRestOnHistory ==
    \A pair \in Tests \X Tests :
        aliases[pair] # NoAlias => RestsOnHistory(pair, aliases[pair].run)

\* The renames that an upload shows, given all uploads that started earlier.
Renames(u) ==
    LET earlier == UNION {TestsOf(report[v]) : v \in
                          {v \in Uploads : StartedAt[v] < StartedAt[u]}}
        now == TestsOf(report[u])
    IN DetectRenames(Distance, earlier \ now, now \ earlier)

(***************************************************************************)
(* When everything that started before an upload was stored before it, the *)
(* renames found in it are those its files show and no others, whatever is *)
(* ingested at the same time or later, and an ingest of it that comes to   *)
(* its end has stored them all, however many died before it did.           *)
(***************************************************************************)
OnTimeRenamesAreExact ==
    \A u \in onTime :
        /\ \A pair \in Tests \X Tests : aliases[pair].run = u => pair \in Renames(u)
        /\ (\E p \in Procs : pc[p] = "done" /\ upload[p] = u) =>
               \A pair \in Renames(u) : aliases[pair] # NoAlias

\* "An existing edge is upgraded from uncertain to certain if better evidence
\* arrives, but never downgraded" (record_alias), and it stays with its run.
CertaintyIsKept ==
    [][\A pair \in Tests \X Tests : aliases[pair] # NoAlias =>
        /\ aliases'[pair].run = aliases[pair].run
        /\ aliases[pair].certain => aliases'[pair].certain]_vars

\* Ingestion implements the log of observations.
Log == INSTANCE ObservationLog WITH
    Contents <- {Observed(rows) : rows \in Reports},
    content <- [u \in Uploads |-> Observed(report[u])],
    log <- executions

ImplementsLog == Log!Spec
=============================================================================
