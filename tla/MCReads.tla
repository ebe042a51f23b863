------------------------------- MODULE MCReads -------------------------------
(***************************************************************************)
(* Everything the tool reads, each on small instances of its own: a JUnit  *)
(* document, a patch, a table of distances between tests, the run store by *)
(* a command that detects, the metrics by stats, and a list of detections  *)
(* by the reports.                                                         *)
(***************************************************************************)
EXTENDS JUnitParser, MCDiff, MCAlias, DetectionPass, Stats, Reports

VARIABLE world

MCChildren == {[tag |-> "failure", text |-> None], [tag |-> "skipped", text |-> None],
               [tag |-> "rerun", text |-> "again"], [tag |-> "output", text |-> "own"]}

MCSuiteOutputs == {"out", "more", None}

Call(kind, cost, latency, failed) ==
    [kind |-> kind, cost |-> cost, latency |-> latency, failed |-> failed]

Result(cause, reason, hit) == [cause |-> cause, reason |-> reason, hit |-> hit]

\* A gate and an answer; a repair, and a model that says UNKNOWN without
\* abstaining; a failed call and a hit; a hit alone.
MCInvocations == {
    [calls |-> <<Call("prefilter", 1, 1, FALSE), Call("classify", 2, 2, FALSE)>>,
     classifications |-> <<Result("TIMING", "none", FALSE)>>],
    [calls |-> <<Call("classify", 2, 1, FALSE), Call("repair", 2, 1, FALSE),
                 Call("classify", 2, 3, FALSE)>>,
     classifications |-> <<Result("UNKNOWN", "invalid_json", FALSE),
                           Result("UNKNOWN", "none", FALSE)>>],
    [calls |-> <<Call("classify", 0, 1, TRUE)>>,
     classifications |-> <<Result("UNKNOWN", "api_error", FALSE), Result("TIMING", "none", TRUE)>>],
    [calls |-> <<>>, classifications |-> <<Result("TIMING", "none", TRUE)>>]}

MCInit ==
    /\ Init /\ DiffInit /\ WalkInit /\ PassInit /\ StatsInit /\ FoundInit
    /\ world \in {"results", "patch", "names", "histories", "stats", "reports"}
    /\ world # "patch" => format = CHOOSE f \in Formats : TRUE

ReadResults ==
    /\ world = "results" /\ Next
    /\ UNCHANGED <<world, diffVars, walkVars, readVars, statsVars, found>>

ReadPatch ==
    /\ world = "patch" /\ DiffNext
    /\ UNCHANGED <<world, vars, walkVars, readVars, statsVars, found>>

ReadNames ==
    /\ world = "names" /\ WalkNext
    /\ UNCHANGED <<world, vars, diffVars, readVars, statsVars, found>>

ReadHistories ==
    /\ world = "histories" /\ PassNext
    /\ UNCHANGED <<world, vars, diffVars, walkVars, statsVars, found>>

ReadStats ==
    /\ world = "stats" /\ StatsNext
    /\ UNCHANGED <<world, vars, diffVars, walkVars, readVars, found>>

ReadDetections ==
    /\ world = "reports" /\ FindAnother
    /\ UNCHANGED <<world, vars, diffVars, walkVars, readVars, statsVars>>

MCNext ==
    ReadResults \/ ReadPatch \/ ReadNames \/ ReadHistories \/ ReadStats \/ ReadDetections

MCSpec ==
    MCInit /\ [][MCNext]_<<world, vars, diffVars, walkVars, readVars, statsVars, found>>
=============================================================================
