----------------------------- MODULE MCQuarantine -----------------------------
(***************************************************************************)
(* Small instances of Quarantine, and what the repository says of policy   *)
(* --apply that the code does not meet.                                    *)
(***************************************************************************)
EXTENDS Quarantine

\* "N test(s) returned to blocking after enough clean executions"
\* (cli.py:583): what an invocation reports as released was released.
ReportedReleaseIsReal ==
    \A p \in Procs : \A id \in released[p] :
        quarantines[id[1]][id[2]].state = "released"

\* "Released is the system working -- the test earned its way back"
\* (records.py:6), and the executions that count are those since the
\* quarantine, "filtering happens there" (quarantine.py:209): a released
\* test has run cleanly while it was quarantined.
ReleaseEarnedInQuarantine ==
    [][\A t \in Tests : \A i \in DOMAIN quarantines[t] :
        IsOpen(quarantines[t][i]) /\ quarantines'[t][i].state = "released"
            => Len(runs[t]) >= quarantines[t][i].since + CleanRuns]_vars
=============================================================================
