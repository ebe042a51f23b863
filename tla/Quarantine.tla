----------------------------- MODULE Quarantine -----------------------------
(***************************************************************************)
(* The quarantine of flaky tests: `flaketriage policy --apply` (cli.py)    *)
(* run by several processes on one store, against the test runs that       *)
(* `ingest` adds and the classifications that `triage` stores meanwhile.   *)
(*                                                                         *)
(* A policy invocation is a sequence of reads and transactions between     *)
(* which the other processes run; each of them is one action here:         *)
(*                                                                         *)
(*   Start, DetectTest*, Expire, ReadOpen, Evaluate*, Record, List,        *)
(*   (Check, Close?)*, Report                                              *)
(*                                                                         *)
(* and it may die after any of them.  A transaction that finds the         *)
(* database busy raises and rolls back: that is the same as dying before   *)
(* it.                                                                     *)
(*                                                                         *)
(* Time is relative: a row holds the days left until its expires_at, and   *)
(* the passing of a day takes one from every row that is still open and    *)
(* from every recommendation that is not stored yet.                       *)
(***************************************************************************)
EXTENDS DetectRules

CONSTANTS
    Tests,                  \* the logical tests
    Procs,                  \* the processes that run policy --apply
    Kinds,                  \* the kinds of execution that are ingested
    Causes,                 \* the causes a classification can name
    QuarantineNum, QuarantineDen, \* policy.quarantine_flake_rate
    QuarantineMinObservations,    \* policy.quarantine_min_observations
    TtlDays,                \* policy.quarantine_ttl_days
    CleanRuns,              \* policy.dequarantine_clean_runs
    RecentLimit,            \* the limit of recent_outcomes, 50 in the code
    MaxRuns,                \* bound: executions of one test
    MaxRows                 \* bound: quarantine rows of one test

\* The ranges PolicyConfig accepts (config.py:82): every count is at least
\* one and the rate lies in [0, 1].
ASSUME QuarantineConfigAssumption ==
    /\ QuarantineDen \in Nat \ {0} /\ QuarantineNum \in 0 .. QuarantineDen
    /\ QuarantineMinObservations \in Nat \ {0}
    /\ TtlDays \in Nat \ {0}
    /\ CleanRuns \in Nat \ {0}
    /\ RecentLimit \in Nat \ {0}

ASSUME BoundsAssumption ==
    /\ MaxRuns \in Nat
    /\ MaxRows \in Nat \ {0}
    /\ "none" \notin Causes
    /\ "UNKNOWN" \in Causes
    /\ Kinds \subseteq {"pass", "rerun", "fail", "infra", "skip"}

VARIABLES
    runs,           \* runs[t]: the executions of t, oldest first
    cause,          \* cause[t]: its latest stored classification, or "none"
    pending,        \* the tests a running triage has sent to the classifier
    quarantines,    \* quarantines[t]: the rows of t, oldest first
    pc,             \* pc[p]: what p does next
    todo,           \* todo[p]: tests p has still to detect or evaluate
    found,          \* found[p][t]: what p's detection said of t
    openIds,        \* openIds[p]: tests p saw with an open row
    planned,        \* planned[p][t]: p's recommendation for t, not stored yet
    listed,         \* listed[p]: rows p has still to check for release
    closing,        \* closing[p]: the row p has decided to release
    expired,        \* expired[p]: the tests p reports as expired
    released        \* released[p]: the rows p reports as released

store == <<runs, cause, pending, quarantines>>
local == <<todo, found, openIds, planned, listed, closing, expired, released>>
vars == <<store, pc, local>>

-----------------------------------------------------------------------------
(* Executions and what the detector says of them.                          *)

Execution == [sha : Nat, kind : Kinds]

OutcomeOf(kind) ==
    CASE kind \in {"pass", "rerun"} -> "pass"
      [] kind = "fail"              -> "fail"
      [] kind = "infra"             -> "error"
      [] kind = "skip"              -> "skip"

\* The row of the i-th execution. "rerun" is a pass the runner reached by
\* re-running the test, "infra" an error that matches a platform pattern.
RowAt(history, i) ==
    [sha |-> history[i].sha, branch |-> MainBranch, attempt |-> 1, at |-> i,
     outcome |-> OutcomeOf(history[i].kind),
     infra |-> history[i].kind = "infra",
     rerun |-> history[i].kind = "rerun"]

Rows(history) ==
    [i \in 1 .. Len(history) |-> RowAt(history, Len(history) + 1 - i)]

Evidence == {"few", "steady", "unstable"}
NotFound == [verdict |-> "none", evidence |-> "few"]
Findings == [verdict : Verdicts \cup {"none"}, evidence : Evidence]

\* What policy keeps of a detection: the verdict, and on which side of the
\* two policy thresholds the observations and the rate are. A test with no
\* execution has no detection.
Finding(history) ==
    LET detection == Detect(Rows(history), FALSE)
    IN  IF history = <<>> THEN NotFound
        ELSE [verdict  |-> detection.verdict,
              evidence |->
                IF detection.observations < QuarantineMinObservations THEN "few"
                ELSE IF Above(detection.rate, QuarantineNum, QuarantineDen)
                THEN "unstable" ELSE "steady"]

\* Mutant: skipped executions count as clean.
MutRecentOutcomesKeepSkips(history) ==
    [i \in {k \in DOMAIN history : k <= RecentLimit} |->
        Rows(history)[i].outcome \in {"pass", "skip"}]

\* recent_outcomes: whether each of the newest executions passed, the newest
\* first and without the skipped ones, which the limit counts too; each under
\* its place among the executions.
RecentOutcomes(history) ==
    LET rows == Rows(history)
        recent == {i \in DOMAIN rows : i <= RecentLimit}
    IN  [i \in {k \in recent : CountsAsObservation(rows[k])} |-> Passes(rows[i])]

\* consecutive_clean_runs: how many outcomes pass before the first failure.
ConsecutiveCleanRuns(outcomes) ==
    Cardinality({i \in DOMAIN outcomes : \A k \in DOMAIN outcomes : k <= i => outcomes[k]})

\* should_release, for the executions of one test.
ShouldRelease(history) ==
    ConsecutiveCleanRuns(RecentOutcomes(history)) >= CleanRuns

-----------------------------------------------------------------------------
(* Quarantine rows and the decision to add one.                            *)

States == {"recommended", "active", "expired", "released"}
OpenStates == {"recommended", "active"}

Row == [state : States, cause : Causes, left : 0 .. TtlDays, since : Nat]

\* The days to expires_at, and how many executions were known when the row
\* was created.
NewRow(plan, since) ==
    [state |-> "recommended", cause |-> plan.cause, left |-> plan.left,
     since |-> since]

\* close: only the state changes.
Closed(row, state) == [row EXCEPT !.state = state]

IsOpen(row) == row.state \in OpenStates
HasOpen(t) == \E i \in DOMAIN quarantines[t] : IsOpen(quarantines[t][i])
RowIds == Tests \X (1 .. MaxRows)
OpenRows ==
    {id \in RowIds : /\ id[2] \in DOMAIN quarantines[id[1]]
                     /\ IsOpen(quarantines[id[1]][id[2]])}

\* Mutant: a quarantine ends the day after its TTL.
MutOverdueNever(row) == IsOpen(row) /\ row.left < 0

Overdue(row) == IsOpen(row) /\ row.left = 0

IneligibleCauses == {"REAL_REGRESSION", "INFRA_FLAKE"}
IneligibleVerdicts == {"regression", "new_failure"}

\* Mutant: a test that was never classified has no cause at all.
MutLatestCauseRaw(t) == cause[t]

\* The cause of a test that has no stored classification.
LatestCause(t) == IF cause[t] = "none" THEN "UNKNOWN" ELSE cause[t]

\* Mutant: the model's cause is not asked.
MutRecommendedWithoutCause(finding, latest, already) ==
    /\ finding.verdict = "flaky"
    /\ ~already
    /\ finding.evidence = "unstable"

\* evaluate: the conjunction that must hold before a test is recommended.
Recommended(finding, latest, already) ==
    /\ finding.verdict \notin IneligibleVerdicts
    /\ latest \notin IneligibleCauses
    /\ finding.verdict = "flaky"
    /\ ~already
    /\ finding.evidence = "unstable"

NoPlan == [cause |-> "none", left |-> 0]
Plans == [cause : Causes, left : 0 .. TtlDays] \cup {NoPlan}
Plan(latest) == [cause |-> latest, left |-> TtlDays]

-----------------------------------------------------------------------------
Steps == {"idle", "detect", "open_ids", "evaluate", "list", "check", "close"}

\* A process between two invocations keeps nothing.
Idle(p) ==
    /\ pc' = [pc EXCEPT ![p] = "idle"]
    /\ todo' = [todo EXCEPT ![p] = {}]
    /\ found' = [found EXCEPT ![p] = [t \in Tests |-> NotFound]]
    /\ openIds' = [openIds EXCEPT ![p] = {}]
    /\ planned' = [planned EXCEPT ![p] = [t \in Tests |-> NoPlan]]
    /\ listed' = [listed EXCEPT ![p] = {}]
    /\ closing' = [closing EXCEPT ![p] = {}]
    /\ expired' = [expired EXCEPT ![p] = {}]
    /\ released' = [released EXCEPT ![p] = {}]

Init ==
    /\ runs = [t \in Tests |-> <<>>]
    /\ cause = [t \in Tests |-> "none"]
    /\ pending = {}
    /\ quarantines = [t \in Tests |-> <<>>]
    /\ pc = [p \in Procs |-> "idle"]
    /\ todo = [p \in Procs |-> {}]
    /\ found = [p \in Procs |-> [t \in Tests |-> NotFound]]
    /\ openIds = [p \in Procs |-> {}]
    /\ planned = [p \in Procs |-> [t \in Tests |-> NoPlan]]
    /\ listed = [p \in Procs |-> {}]
    /\ closing = [p \in Procs |-> {}]
    /\ expired = [p \in Procs |-> {}]
    /\ released = [p \in Procs |-> {}]

-----------------------------------------------------------------------------
(* The other processes: ingest and triage, and the passing of time.        *)

\* A run executes t once more, at its newest commit again or at the next one.
Ingest(t, sha, kind) ==
    /\ Len(runs[t]) < MaxRuns
    /\ LET newest == IF runs[t] = <<>> THEN 0 ELSE Last(runs[t]).sha
       IN  sha \in {newest, newest + 1} \ {0}
    /\ runs' = [runs EXCEPT ![t] = Append(@, [sha |-> sha, kind |-> kind])]
    /\ UNCHANGED <<cause, pending, quarantines, pc, local>>

\* Triage sees a detection worth classifying and calls the model.
TriageDetect(t) ==
    /\ t \notin pending
    /\ runs[t] # <<>>
    /\ NeedsClassification(Finding(runs[t]))
    /\ pending' = pending \cup {t}
    /\ UNCHANGED <<runs, cause, quarantines, pc, local>>

\* record_metrics: the classifications of one triage, in one transaction,
\* whatever has happened to the tests since. A test the model was not asked
\* about, or that it could not answer for, gets UNKNOWN.
TriageRecord ==
    /\ pending # {}
    /\ \E answer \in [pending -> Causes] :
        cause' = [t \in Tests |-> IF t \in pending THEN answer[t] ELSE cause[t]]
    /\ pending' = {}
    /\ UNCHANGED <<runs, quarantines, pc, local>>

\* Triage dies, or finds the store busy, before record_metrics commits.
TriageCrash ==
    /\ pending # {}
    /\ pending' = {}
    /\ UNCHANGED <<runs, cause, quarantines, pc, local>>

\* A row or a recommendation one day later.
Aged(x) == [x EXCEPT !.left = IF @ > 0 THEN @ - 1 ELSE 0]

\* A day passes.
Tick ==
    /\ quarantines' =
        [t \in Tests |-> [i \in DOMAIN quarantines[t] |->
            IF IsOpen(quarantines[t][i]) THEN Aged(quarantines[t][i])
            ELSE quarantines[t][i]]]
    /\ planned' = [p \in Procs |-> [t \in Tests |-> Aged(planned[p][t])]]
    /\ UNCHANGED <<runs, cause, pending, pc, todo, found, openIds, listed,
                   closing, expired, released>>

-----------------------------------------------------------------------------
(* One invocation of `policy --apply`.                                     *)

Start(p) ==
    /\ pc[p] = "idle"
    /\ pc' = [pc EXCEPT ![p] = "detect"]
    /\ todo' = [todo EXCEPT ![p] = Tests]
    /\ UNCHANGED <<store, found, openIds, planned, listed, closing, expired,
                   released>>

\* _run_detection, one test at a time; each test's executions are read on
\* their own, so ingest may run in between.
DetectTest(p, t) ==
    /\ pc[p] = "detect"
    /\ t \in todo[p]
    /\ found' = [found EXCEPT ![p][t] = Finding(runs[t])]
    /\ todo' = [todo EXCEPT ![p] = @ \ {t}]
    /\ UNCHANGED <<store, pc, openIds, planned, listed, closing, expired, released>>

\* expire_overdue: one transaction closes every row whose TTL has passed.
Expire(p) ==
    /\ pc[p] = "detect"
    /\ todo[p] = {}
    /\ quarantines' =
        [t \in Tests |-> [i \in DOMAIN quarantines[t] |->
            IF Overdue(quarantines[t][i])
            THEN Closed(quarantines[t][i], "expired")
            ELSE quarantines[t][i]]]
    /\ expired' = [expired EXCEPT ![p] =
        {t \in Tests : \E i \in DOMAIN quarantines[t] : Overdue(quarantines[t][i])}]
    /\ pc' = [pc EXCEPT ![p] = "open_ids"]
    /\ UNCHANGED <<runs, cause, pending, todo, found, openIds, planned, listed,
                   closing, released>>

\* open_ids: the tests with an open row, read once for the whole evaluation.
\* Only the tests that were detected are evaluated.
ReadOpen(p) ==
    /\ pc[p] = "open_ids"
    /\ openIds' = [openIds EXCEPT ![p] = {t \in Tests : HasOpen(t)}]
    /\ todo' = [todo EXCEPT ![p] = {t \in Tests : found[p][t].verdict # "none"}]
    /\ pc' = [pc EXCEPT ![p] = "evaluate"]
    /\ UNCHANGED <<store, found, planned, listed, closing, expired, released>>

\* evaluate, for one test, with the classification stored at this moment.
Evaluate(p, t) ==
    /\ pc[p] = "evaluate"
    /\ t \in todo[p]
    /\ planned' = [planned EXCEPT ![p][t] =
        IF Recommended(found[p][t], LatestCause(t), t \in openIds[p])
        THEN Plan(LatestCause(t)) ELSE NoPlan]
    /\ found' = [found EXCEPT ![p][t] = NotFound]
    /\ todo' = [todo EXCEPT ![p] = @ \ {t}]
    /\ UNCHANGED <<store, pc, openIds, listed, closing, expired, released>>

\* Mutant: the partial unique index is on the rows just recommended by this
\* process, so another process's row does not conflict.
MutConflictsNever(t) == FALSE

\* The partial unique index on open rows: an insert for a test that has one
\* does nothing.
Conflicts(t) == HasOpen(t)

Inserted(p) == {t \in Tests : planned[p][t] # NoPlan /\ ~Conflicts(t)}
HasRoom(p) == \A t \in Inserted(p) : Len(quarantines[t]) < MaxRows

\* record: every recommendation in one transaction.
Record(p) ==
    /\ pc[p] = "evaluate"
    /\ todo[p] = {}
    /\ HasRoom(p)
    /\ quarantines' =
        [t \in Tests |->
            IF t \in Inserted(p)
            THEN Append(quarantines[t], NewRow(planned[p][t], Len(runs[t])))
            ELSE quarantines[t]]
    /\ planned' = [planned EXCEPT ![p] = [t \in Tests |-> NoPlan]]
    /\ openIds' = [openIds EXCEPT ![p] = {}]
    /\ pc' = [pc EXCEPT ![p] = "list"]
    /\ UNCHANGED <<runs, cause, pending, todo, found, listed, closing, expired,
                   released>>

\* The bound MaxRows is a store that is full: the transaction fails and the
\* command with it.
StoreFull(p) ==
    /\ pc[p] = "evaluate"
    /\ todo[p] = {}
    /\ ~HasRoom(p)
    /\ Idle(p)
    /\ UNCHANGED store

\* records: the open rows, read once for the whole release loop.
List(p) ==
    /\ pc[p] = "list"
    /\ listed' = [listed EXCEPT ![p] = OpenRows]
    /\ pc' = [pc EXCEPT ![p] = "check"]
    /\ UNCHANGED <<store, todo, found, openIds, planned, closing, expired, released>>

\* The clean executions of one listed row's test, read from the store.
Check(p, id) ==
    /\ pc[p] = "check"
    /\ id \in listed[p]
    /\ listed' = [listed EXCEPT ![p] = @ \ {id}]
    /\ IF ShouldRelease(runs[id[1]])
       THEN /\ closing' = [closing EXCEPT ![p] = {id}]
            /\ pc' = [pc EXCEPT ![p] = "close"]
       ELSE UNCHANGED <<closing, pc>>
    /\ UNCHANGED <<store, todo, found, openIds, planned, expired, released>>

\* Mutant: the update does not look at the row's state.
MutReleasableAny(row) == TRUE

\* Only an open row is updated.
Releasable(row) == IsOpen(row)

\* release: the row is closed if it still is open, and reported as released
\* either way.
Close(p) ==
    /\ pc[p] = "close"
    /\ \E id \in closing[p] :
        /\ quarantines' = [quarantines EXCEPT ![id[1]][id[2]] =
                            IF Releasable(@) THEN Closed(@, "released") ELSE @]
        /\ released' = [released EXCEPT ![p] = @ \cup {id}]
    /\ closing' = [closing EXCEPT ![p] = {}]
    /\ pc' = [pc EXCEPT ![p] = "check"]
    /\ UNCHANGED <<runs, cause, pending, todo, found, openIds, planned, listed,
                   expired>>

\* The report is printed and the process ends.
Report(p) ==
    /\ pc[p] = "check"
    /\ listed[p] = {}
    /\ Idle(p)
    /\ UNCHANGED store

\* The process dies: a kill, an error, or a transaction that found the
\* database busy.
Crash(p) ==
    /\ pc[p] # "idle"
    /\ Idle(p)
    /\ UNCHANGED store

-----------------------------------------------------------------------------
Policy(p) ==
    \/ Start(p)
    \/ \E t \in Tests : DetectTest(p, t) \/ Evaluate(p, t)
    \/ Expire(p)
    \/ ReadOpen(p)
    \/ Record(p)
    \/ StoreFull(p)
    \/ List(p)
    \/ \E id \in RowIds : Check(p, id)
    \/ Close(p)
    \/ Report(p)

Triage == TriageRecord \/ TriageCrash \/ \E t \in Tests : TriageDetect(t)

NextSha(t) == 0 .. Len(runs[t]) + 1

Next ==
    \/ \E t \in Tests, kind \in Kinds : \E sha \in NextSha(t) : Ingest(t, sha, kind)
    \/ Triage
    \/ Tick
    \/ \E p \in Procs : Policy(p) \/ Crash(p)

Spec == Init /\ [][Next]_vars

\* The scheduling that the operator owes the tool: days pass, policy --apply
\* is run again and again, an invocation that is not killed goes on to its
\* end, and if invocations start for ever then some of them survive their
\* detection. Nothing else has to happen: no test has to run and no triage
\* to end. (The last two are written without ENABLED: a process that is not
\* idle can always take its next step.)
Fairness ==
    /\ WF_vars(Tick)
    /\ \A p \in Procs :
        /\ SF_vars(Start(p))
        /\ <>[](pc[p] # "idle") => []<><<Policy(p)>>_vars
        /\ []<>(pc[p] = "detect") => []<><<Expire(p)>>_vars

FairSpec == Spec /\ Fairness

-----------------------------------------------------------------------------
(* Properties.                                                             *)

\* Every variable has its type.
TypeOK ==
    /\ runs \in [Tests -> Seq(Execution)]
    /\ cause \in [Tests -> Causes \cup {"none"}]
    /\ pending \subseteq Tests
    /\ quarantines \in [Tests -> Seq(Row)]
    /\ pc \in [Procs -> Steps]
    /\ todo \in [Procs -> SUBSET Tests]
    /\ found \in [Procs -> [Tests -> Findings]]
    /\ openIds \in [Procs -> SUBSET Tests]
    /\ planned \in [Procs -> [Tests -> Plans]]
    /\ listed \in [Procs -> SUBSET RowIds]
    /\ closing \in [Procs -> SUBSET RowIds]
    /\ expired \in [Procs -> SUBSET Tests]
    /\ released \in [Procs -> SUBSET RowIds]

\* A test has at most one open quarantine, however many invocations decided
\* to recommend it at the same time (schema.py:201).
AtMostOneOpen ==
    \A t \in Tests : \A i, j \in DOMAIN quarantines[t] :
        IsOpen(quarantines[t][i]) /\ IsOpen(quarantines[t][j]) => i = j

\* A quarantine that was closed stays as it was closed: a release decided
\* before another invocation expired the row does not turn it into a released
\* one (records.py:138, the guard of the update).
ClosedIsFinal ==
    [][\A t \in Tests : \A i \in DOMAIN quarantines[t] :
        ~IsOpen(quarantines[t][i]) =>
            /\ i \in DOMAIN quarantines'[t]
            /\ quarantines'[t][i] = quarantines[t][i]]_vars

\* The executions of t up to the k-th.
UpTo(t, k) == SubSeq(runs[t], 1, k)

\* A test was quarantined on evidence: at some moment before the row was
\* created the executions made it flaky and unstable over enough observations,
\* and the cause the row rests on is not one that forbids quarantine
\* (quarantine.py:10-20).
OpenedOnEvidence ==
    \A t \in Tests : \A i \in DOMAIN quarantines[t] :
        LET row == quarantines[t][i]
        IN  /\ row.cause \notin IneligibleCauses
            /\ \E k \in 1 .. row.since :
                Finding(UpTo(t, k)) = [verdict |-> "flaky", evidence |-> "unstable"]

\* A released test has passed often enough in a row at some moment, skips not
\* counted, and the TTL of an expired one has run out (adr/0004:46-49).
ClosedForAReason ==
    \A t \in Tests : \A i \in DOMAIN quarantines[t] :
        LET row == quarantines[t][i]
        IN  /\ row.state = "expired" => row.left = 0
            /\ row.state = "released" =>
                \E first, last \in 1 .. Len(runs[t]) :
                    LET Of(ks) == {n \in first .. last : runs[t][n].kind \in ks}
                    IN  /\ Cardinality(Of({"pass", "rerun"})) >= CleanRuns
                        /\ Of({"pass", "rerun", "skip"}) = first .. last

\* No quarantine outlives its TTL for ever: every row is closed in the end,
\* by any invocation of policy --apply, although invocations die and other
\* ones recommend the test anew (adr/0004:42-44).
NoGraveyard ==
    \A id \in RowIds : id \in OpenRows ~> id \notin OpenRows

\* The phases of a test's rows: the two open states are one phase.
Phase(row) == IF IsOpen(row) THEN "open" ELSE row.state
Episodes == [t \in Tests |->
                [i \in DOMAIN quarantines[t] |-> Phase(quarantines[t][i])]]

Lifecycle == INSTANCE QuarantineLifecycle WITH episodes <- Episodes

\* The store implements the lifecycle, with any number of invocations that
\* interleave, die and repeat each other's decisions.
ImplementsLifecycle == Lifecycle!Spec

=============================================================================
