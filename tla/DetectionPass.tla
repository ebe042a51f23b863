---------------------------- MODULE DetectionPass ----------------------------
(***************************************************************************)
(* How a command collects the histories of the tests (detect_all, and the  *)
(* reads of the run store it makes) while other processes ingest.  A test  *)
(* that was renamed has an identity per name, linked by aliases; the       *)
(* command follows the links from each identity it was asked about, one    *)
(* query at a time and without a transaction, so that executions and links *)
(* may appear between any two of its queries.                              *)
(*                                                                         *)
(* An identity is its id, an execution its place in the table.  A history  *)
(* is the set of its executions: their order is that of (at, id).          *)
(***************************************************************************)
EXTENDS Integers, FiniteSets, Sequences

CONSTANTS
    MaxTests,       \* bound: identities
    MaxExecutions,  \* bound: executions
    MaxAliases,     \* bound: aliases
    MaxMeanwhile,   \* bound: transactions while a command runs
    MaxOpen,        \* bound: open quarantines
    Times,          \* when runs start
    Limit,          \* window_executions
    Since           \* the start of the lookback window

ASSUME PassAssumption ==
    /\ MaxTests \in Nat /\ MaxExecutions \in Nat /\ MaxAliases \in Nat /\ MaxMeanwhile \in Nat
    /\ MaxOpen \in Nat
    /\ Times \subseteq Nat /\ Since \in Nat
    /\ Limit \in Nat \ {0}

Tests == 1 .. MaxTests

VARIABLES
    identities,     \* the identities are 1 .. identities
    executions,     \* the table of executions
    aliases,        \* the aliases, as links
    uncertain,      \* those that are not certain
    quarantined,    \* the identities with an open quarantine
    command,        \* "triage", of one commit, or "policy", of all tests
    phase,          \* where the command is
    asked,          \* the identities it still has to go through
    asking,        \* the one it is at
    frontier, seen, \* the traversal it is in
    doubt,          \* it met a link that is not certain
    group,          \* the identities it found for `asking`, with doubt or not
    unread,         \* those whose executions are still to be read
    records,        \* the executions it has read
    reported,       \* the identities it is done with
    detections,     \* the histories handed to the detector
    began           \* history: what the store held when the command began

storeVars == <<identities, executions, aliases, uncertain, quarantined>>
passVars == <<command, phase, asked, asking, frontier, seen, doubt, group, unread, records, reported,
              detections, began>>
readVars == <<storeVars, passVars>>

Link == {l \in Tests \X Tests : l[1] # l[2]}
Execution == [test : Tests, at : Times]

Ids == 1 .. MaxExecutions

Store == [tests |-> 1 .. identities, rows |-> DOMAIN executions, aliases |-> aliases,
          uncertain |-> uncertain]

NoStore == [tests |-> {}, rows |-> {}, aliases |-> {}, uncertain |-> {}]

NoGroup == [tests |-> {}, doubt |-> FALSE]

PassInit ==
    /\ identities = 0 /\ executions = <<>> /\ aliases = {} /\ uncertain = {}
    /\ quarantined = {}
    /\ command = "policy" /\ phase = "idle" /\ asked = {} /\ asking = 0
    /\ frontier = {} /\ seen = {} /\ doubt = FALSE /\ group = NoGroup
    /\ unread = {} /\ records = {} /\ reported = {} /\ detections = {}
    /\ began = NoStore

-----------------------------------------------------------------------------
(* Ingests, a transaction at a time.                                       *)

UpsertIdentity ==
    /\ identities < MaxTests
    /\ identities' = identities + 1
    /\ UNCHANGED <<executions, aliases, uncertain, quarantined, passVars>>

RecordExecution ==
    /\ Len(executions) < MaxExecutions
    /\ \E t \in 1 .. identities, at \in Times :
        executions' = Append(executions, [test |-> t, at |-> at])
    /\ UNCHANGED <<identities, aliases, uncertain, quarantined, passVars>>

\* A new link, or better evidence for one.
RecordAlias ==
    /\ \E l \in Link, certain \in BOOLEAN :
        /\ l[1] <= identities /\ l[2] <= identities
        /\ aliases' = aliases \cup {l}
        /\ Cardinality(aliases') <= MaxAliases
        /\ uncertain' = IF certain THEN uncertain \ {l}
                        ELSE IF l \in aliases THEN uncertain ELSE uncertain \cup {l}
    /\ UNCHANGED <<identities, executions, quarantined, passVars>>

Meanwhile ==
    Cardinality((1 .. identities) \ began.tests) + Cardinality(DOMAIN executions \ began.rows)
    + Cardinality(aliases \ began.aliases) + Cardinality(began.uncertain \ uncertain)

Write ==
    /\ phase # "idle" => Meanwhile < MaxMeanwhile
    /\ UpsertIdentity \/ RecordExecution \/ RecordAlias

-----------------------------------------------------------------------------
(* The command.                                                            *)

\* A command reads the identities: all of them, or for triage --sha those
\* that failed at the commit.
Begin ==
    /\ phase = "idle"
    /\ \/ command' = "policy" /\ asked' = 1 .. identities
       \/ /\ command' = "triage"
          /\ asked' \in SUBSET {executions[i].test : i \in DOMAIN executions}
    /\ phase' = "next"
    /\ began' = Store
    /\ UNCHANGED <<storeVars, asking, frontier, seen, doubt, group, unread, records, reported,
                   detections>>

First(tests) == CHOOSE t \in tests : \A other \in tests : t <= other
Newest(tests) == CHOOSE t \in tests : \A other \in tests : t >= other

\* identity_group(t) begins.
Traverse(t) ==
    /\ frontier' = {t}
    /\ seen' = {t}
    /\ doubt' = FALSE

\* Mutant: only the identity that was asked for is ticked off.
MutCovered(tests) == {asking}

\* What need not be looked at again.
Covered(tests) == tests

\* The next identity, unless it was in the group of an earlier one.
NextIdentity ==
    /\ phase = "next" /\ asked # {}
    /\ LET t == First(asked) IN
        /\ asked' = asked \ {t}
        /\ IF t \in reported
           THEN UNCHANGED <<phase, asking, frontier, seen, doubt>>
           ELSE /\ asking' = t
                /\ Traverse(t)
                /\ phase' = "group"
    /\ UNCHANGED <<storeVars, command, group, unread, records, reported, detections, began>>

EndsOf(l) == {l[1], l[2]}

\* Mutant: the links from an older name to a newer one only.
MutTouching(t) == {l \in aliases : l[1] = t}

\* The links of an identity.
Touching(t) == {l \in aliases : t \in EndsOf(l)}

\* Mutant: only the last query counts.
MutDoubted(links) == links \cap uncertain # {}

\* A link that is not certain is among them, or was met before.
Doubted(links) == doubt \/ links \cap uncertain # {}

\* One query of identity_group; the order of the frontier does not matter.
Visit ==
    /\ phase \in {"group", "group again"}
    /\ \E t \in frontier :
        LET found == (UNION {EndsOf(l) : l \in Touching(t)}) \ seen IN
        /\ frontier' = (frontier \ {t}) \cup found
        /\ seen' = seen \cup found
        /\ doubt' = Doubted(Touching(t))
    /\ UNCHANGED <<storeVars, command, phase, asked, asking, group, unread, records, reported,
                   detections, began>>

\* The group is known, and executions_for_group looks for it again.
GroupFound ==
    /\ phase = "group" /\ frontier = {}
    /\ group' = [tests |-> seen, doubt |-> doubt]
    /\ reported' = reported \cup Covered(seen)
    /\ Traverse(asking)
    /\ phase' = "group again"
    /\ UNCHANGED <<storeVars, command, asked, asking, unread, records, detections, began>>

ReadBegins ==
    /\ phase = "group again" /\ frontier = {}
    /\ unread' = seen
    /\ records' = {}
    /\ phase' = "read"
    /\ UNCHANGED <<storeVars, command, asked, asking, frontier, seen, doubt, group, reported,
                   detections, began>>

Later(i, j) ==
    \/ executions[i].at > executions[j].at
    \/ executions[i].at = executions[j].at /\ i > j

\* Mutant: one too many.
MutWindow(rows) == {i \in rows : Cardinality({j \in rows : Later(j, i)}) <= Limit}

\* The newest of some executions.
Window(rows) == {i \in rows : Cardinality({j \in rows : Later(j, i)}) < Limit}

RowsOf(tests) == {i \in DOMAIN executions : executions[i].test \in tests}

\* executions_for_identity.
ReadMember ==
    /\ phase = "read" /\ unread # {}
    /\ LET t == First(unread) IN
        /\ unread' = unread \ {t}
        /\ records' = records \cup Window(RowsOf({t}))
    /\ UNCHANGED <<storeVars, command, phase, asked, asking, frontier, seen, doubt, group, reported,
                   detections, began>>

Recent(rows) == {i \in rows : executions[i].at >= Since}

\* The history goes to the detector, under the newest identity, unless the
\* lookback window leaves nothing of it.
Report ==
    /\ phase = "read" /\ unread = {}
    /\ LET window == Recent(Window(records)) IN
        detections' = detections \cup
            IF window = {} THEN {}
            ELSE {[asked |-> asking, primary |-> Newest(group.tests), group |-> group.tests,
                   doubt |-> group.doubt, window |-> window]}
    /\ phase' = "next"
    /\ asking' = 0 /\ frontier' = {} /\ seen' = {} /\ doubt' = FALSE
    /\ group' = NoGroup /\ unread' = {} /\ records' = {}
    /\ UNCHANGED <<storeVars, command, asked, reported, began>>

EndPass ==
    /\ phase = "next" /\ asked = {}
    /\ phase' = "done"
    /\ UNCHANGED <<storeVars, command, asked, asking, frontier, seen, doubt, group, unread, records,
                   reported, detections, began>>

\* The command ends. policy --apply opens a quarantine for some of the tests,
\* those that qualify, unless the identity has one, and closes some.
Apply ==
    /\ phase = "done"
    /\ \/ UNCHANGED quarantined
       \/ /\ command = "policy"
          /\ \E some \in SUBSET detections, closed \in SUBSET quarantined :
                quarantined' = (quarantined \ closed) \cup {d.primary : d \in some}
          /\ Cardinality(quarantined') <= MaxOpen
    /\ command' = "policy" /\ phase' = "idle"
    /\ reported' = {} /\ detections' = {} /\ began' = NoStore
    /\ UNCHANGED <<identities, executions, aliases, uncertain, asked, asking, frontier, seen,
                   doubt, group, unread, records>>

Pass ==
    \/ Begin \/ NextIdentity \/ Visit \/ GroupFound \/ ReadBegins \/ ReadMember \/ Report
    \/ EndPass \/ Apply

PassNext == Write \/ Pass

PassSpec == PassInit /\ [][PassNext]_readVars

-----------------------------------------------------------------------------
\* The variables have their types.
PassTypeOK ==
    /\ identities \in 0 .. MaxTests
    /\ executions \in Seq(Execution) /\ Len(executions) <= MaxExecutions
    /\ aliases \subseteq Link /\ uncertain \subseteq aliases /\ quarantined \subseteq Tests
    /\ command \in {"triage", "policy"}
    /\ phase \in {"idle", "next", "group", "group again", "read", "done"}
    /\ asked \subseteq Tests /\ asking \in Tests \cup {0}
    /\ frontier \subseteq seen /\ seen \subseteq Tests /\ doubt \in BOOLEAN
    /\ group \in [tests : SUBSET Tests, doubt : BOOLEAN]
    /\ unread \subseteq Tests /\ records \subseteq Ids
    /\ reported \subseteq Tests
    /\ detections \subseteq [asked : Tests, primary : Tests, group : SUBSET Tests,
                             doubt : BOOLEAN, window : SUBSET Ids]
    /\ began \in [tests : SUBSET Tests, rows : SUBSET Ids, aliases : SUBSET Link,
                 uncertain : SUBSET Link]

\* The identities that are the same test as t, if `links` are the renames:
\* the least set with t that no link leaves.
Closed(tests, links) == \A l \in links : EndsOf(l) \cap tests # {} => EndsOf(l) \subseteq tests

Component(t, links) ==
    {u \in Tests : \A tests \in SUBSET Tests : t \in tests /\ Closed(tests, links) => u \in tests}

(***************************************************************************)
(* However the store changes under the command, a history is that of all   *)
(* the names a test had when the command began, and of no identity that is *)
(* not one of its names by now (identity_group, "transitive closure").     *)
(***************************************************************************)
HistoriesAreWhole ==
    \A d \in detections :
        /\ Component(d.asked, began.aliases) \subseteq d.group
        /\ d.group \subseteq Component(d.asked, aliases)
        /\ \A i \in d.window : executions[i].test \in Component(d.asked, aliases)

(***************************************************************************)
(* A merge that is only inferred is "surfaced rather than applied          *)
(* silently" (ARCHITECTURE.md:133): the group of a history without doubt   *)
(* touches no link from before the command that is uncertain even now.     *)
(* A link recorded meanwhile can be followed by the second traversal only, *)
(* and is then not surfaced.                                               *)
(***************************************************************************)
DoubtIsSurfaced ==
    \A d \in detections : \A l \in began.aliases \cap uncertain :
        EndsOf(l) \cap d.group # {} => d.doubt

(***************************************************************************)
(* When the command is done and nobody has written since it began, a       *)
(* history is that of all the names of a test and no other, under the      *)
(* newest, with exactly the newest executions of all of them together,     *)
(* though they were cut per name first, and in doubt if and only if one of *)
(* its links is.                                                           *)
(***************************************************************************)
QuietPassIsExact ==
    phase = "done" /\ began = Store =>
        \A d \in detections :
            /\ d.group = Component(d.asked, aliases)
            /\ d.primary \in d.group /\ \A t \in d.group : t <= d.primary
            /\ d.doubt <=> \E l \in uncertain : EndsOf(l) \cap d.group # {}
            /\ \A i \in DOMAIN executions :
                i \in d.window
                <=> /\ executions[i].test \in d.group /\ executions[i].at >= Since
                    /\ Cardinality({j \in RowsOf(d.group) : Later(j, i)}) < Limit

(***************************************************************************)
(* A test is "reported once with its merged history rather than twice"     *)
(* (detect_all), and none is lost: names that were linked when the command *)
(* began are not in two histories, and an identity it has gone through     *)
(* that had run in the lookback window when it began is in one.            *)
(***************************************************************************)
EveryTestOnce ==
    /\ \A d, e \in detections :
        d.asked \in Component(e.asked, began.aliases) => d.asked = e.asked
    /\ phase \in {"next", "done"} =>
        \A t \in reported :
            Recent({i \in began.rows : executions[i].test = t}) # {}
                => \E d \in detections : t \in d.group

(***************************************************************************)
(* "A test can have at most one open quarantine ... `recommend it twice'   *)
(* is exactly what a retried CI job would otherwise do" (schema.py:205): a *)
(* command quarantines no test that is quarantined under another name. The *)
(* code looks at the newest identity only, so it does after a rename.      *)
(***************************************************************************)
QuarantinedUnderOneName ==
    [][\A t \in quarantined' \ quarantined :
        Component(t, aliases) \cap quarantined = {}]_readVars
=============================================================================
