------------------------------- MODULE MCDetect -------------------------------
(***************************************************************************)
(* Every history of at most MaxRows executions of one test, ingested one   *)
(* row at a time, and what the detector must say about it. The properties  *)
(* are stated on the raw rows, never on the windows the detector built.    *)
(***************************************************************************)
EXTENDS DetectRules

CONSTANTS
    MaxRows,    \* bound: executions in a history
    MaxOdd,     \* bound: executions that neither plainly pass nor fail
    Shas,       \* the commits that may run, revisited in any order
    Kinds,      \* the kinds of row that are ingested
    Branches,   \* the branches runs may be on
    Attempts,   \* the attempt numbers of runs
    Unrelated   \* whether the newest change can be known to be unrelated

ASSUME HistoriesAssumption ==
    /\ Shas \subseteq Nat
    /\ Kinds \subseteq {"pass", "rerun", "fail", "assertion", "error", "platform", "skip"}
    /\ Unrelated \subseteq BOOLEAN

VARIABLES
    rows,       \* the test's executions, newest first
    unrelated,  \* the newest commit's change is disjoint from the footprint
    detection   \* what the detector says of the rows

vars == <<rows, unrelated, detection>>

\* "assertion" is a failed assertion whose text happens to match a platform
\* pattern, "platform" a harness error that does, "rerun" a pass the runner
\* reached only after re-running the test.
OutcomeOf(kind) ==
    CASE kind \in {"pass", "rerun"}      -> "pass"
      [] kind \in {"fail", "assertion"}  -> "fail"
      [] kind \in {"error", "platform"}  -> "error"
      [] kind = "skip"                   -> "skip"

Row(kind, sha, branch, attempt) ==
    [sha |-> sha, branch |-> branch, attempt |-> attempt, at |-> Len(rows) + 1,
     outcome |-> OutcomeOf(kind), infra |-> kind \in {"assertion", "platform"},
     rerun |-> kind = "rerun"]

Init ==
    /\ rows = <<>>
    /\ unrelated \in Unrelated
    /\ detection = Detect(rows, unrelated)

\* Bound: on other branches than the main one only plain outcomes occur, and
\* only MaxOdd rows are of another kind or on no known branch (""), none if the
\* change may be related, when there is one signal less. New commits have ever
\* smaller numbers: the detector compares them only to break ties in time, of
\* which there are none here.
Ran == {r.sha : r \in ToSet(rows)}
Plain == {"pass", "fail"}
OddRows ==
    Cardinality({r \in ToSet(rows) : r.outcome \notin Plain \/ r.rerun \/ r.branch = ""})

Ingest(kind, sha, branch, attempt) ==
    /\ Len(rows) < MaxRows
    /\ sha \notin Ran => \A other \in Shas \ Ran : sha >= other
    /\ kind \notin Plain => branch = MainBranch
    /\ kind \notin Plain \/ branch = "" => unrelated /\ OddRows < MaxOdd
    /\ rows' = <<Row(kind, sha, branch, attempt)>> \o rows
    /\ detection' = Detect(rows', unrelated)
    /\ UNCHANGED unrelated

Next ==
    \E kind \in Kinds, sha \in Shas, branch \in Branches, attempt \in Attempts :
        Ingest(kind, sha, branch, attempt)

Spec == Init /\ [][Next]_vars

-----------------------------------------------------------------------------
(* The raw rows the detector may use, and facts about them.                *)

\* One of the newest WindowExecutions rows, of every kind, that is not the
\* platform's fault: a platform failure takes a place in the window although it
\* says nothing of the test. (Times are counted up from 1, one for each row.)
Kept == {r \in ToSet(rows) : /\ r.at > Len(rows) - WindowExecutions
                             /\ ~(r.outcome = "error" /\ r.infra)}
FirstRun(sha) == Min({r.at : r \in {x \in Kept : x.sha = sha}})
PassedAt(sha) == \E r \in Kept : r.sha = sha /\ r.outcome = "pass"
FailedAt(sha) == \E r \in Kept : r.sha = sha /\ r.outcome \in {"fail", "error"}
Disagrees(sha) == \/ PassedAt(sha) /\ FailedAt(sha)
                  \/ \E r \in Kept : r.sha = sha /\ r.rerun
Tested == {sha \in Shas : PassedAt(sha) \/ FailedAt(sha)}

-----------------------------------------------------------------------------
(* Properties.                                                             *)

\* A commit that both passed and failed, or that the runner had to re-run,
\* makes the test flaky with more than low confidence, whatever later commits
\* did (detector.py, "same-commit divergence wins outright").
DivergenceWins ==
    (\E sha \in Tested : Disagrees(sha)) =>
        detection.verdict = "flaky" /\ detection.confidence # "low"

\* A pass-to-fail transition at commit c, read off the rows: every commit from
\* c on only failed, and enough commits in a row before c only passed.
TransitionAt(c) ==
    LET from == {d \in Tested : FirstRun(d) >= FirstRun(c)}
        before == Tested \ from
        streak == {b \in before : \A d \in before :
                                    FirstRun(d) >= FirstRun(b) => PassedAt(d)}
    IN  /\ \A d \in from : FailedAt(d)
        /\ Cardinality(from) >= FailStreak
        /\ Cardinality(streak) >= PassStreak

\* The regression verdict is given exactly to the histories in which no commit
\* disagrees with itself and one commit turned a passing streak into a failing
\* one (detector.py:88, find_regression).
RegressionIsOneTransition ==
    (detection.verdict = "regression") <=>
        /\ \A sha \in Tested : ~Disagrees(sha)
        /\ \E c \in Tested : TransitionAt(c)

\* The powers of a number.
Power(base, n) ==
    LET Upto[k \in 0 .. n] == IF k = 0 THEN 1 ELSE base * Upto[k - 1]
    IN  Upto[n]

\* The weight of the k-th of n values in the average.
Weight(k, n) ==
    (IF k = 1 THEN 1 ELSE AlphaNum) * Power(AlphaDen - AlphaNum, n - k)
    * (IF k = 1 THEN 1 ELSE Power(AlphaDen, k - 2))

\* Where a commit comes among those that were tested.
Rank(sha) == Cardinality({d \in Tested : FirstRun(d) <= FirstRun(sha)})

\* The divergence rate is the weighted share of tested commits that disagree
\* with themselves, over all tested commits and not only the retried ones,
\* with the newest commit weighing alpha (rates.py:42).
DivergenceRateIsWeightedShare ==
    LET n == Cardinality(Tested)
        total == MapThenSumSet(LAMBDA sha : Weight(Rank(sha), n),
                               {sha \in Tested : Disagrees(sha)})
        rate == DivergenceRate(BuildHistory(InWindow(rows)))
    IN  n > 0 => rate.n * Power(AlphaDen, n - 1) = total * rate.d

\* The newest commit the detector keeps, and the branch of its newest row.
NewestCommit(sha) == \A r \in Kept : FirstRun(r.sha) <= FirstRun(sha)
OnBranch(sha, branch) ==
    \E r \in Kept : /\ r.sha = sha /\ r.branch = branch
                    /\ \A q \in Kept : q.sha = sha => q.at <= r.at

\* Flaky is never a guess: either some commit disagrees with itself, or the
\* observation floor is met and the rate above the threshold, or the newest
\* commit fails on a known branch other than the main one, with a change that
\* is unrelated, while the test passed on the main branch (detector.py:1-25).
FlakyIsBacked ==
    detection.verdict = "flaky" =>
        \/ \E sha \in Tested : Disagrees(sha)
        \/ /\ Cardinality({r \in Kept : r.outcome # "skip"}) >= MinObservations
           /\ detection.rate.n * RateDen > RateNum * detection.rate.d
        \/ /\ unrelated
           /\ \E sha \in Tested : /\ NewestCommit(sha) /\ FailedAt(sha)
                                  /\ ~OnBranch(sha, MainBranch) /\ ~OnBranch(sha, "")
           /\ \E sha \in Tested : PassedAt(sha) /\ OnBranch(sha, MainBranch)

\* A verdict of flaky that no commit's own outcomes support carries low
\* confidence unless some commit was observed twice (rates.py:14).
CrossCommitEvidenceIsWeak ==
    /\ detection.verdict = "flaky"
    /\ \A r, s \in Kept : r.sha = s.sha => r = s
    /\ \A sha \in Tested : ~Disagrees(sha)
    => detection.confidence = "low"

\* Nothing has left the window.
NothingEvicted == Len(rows') <= WindowExecutions

\* A skipped execution changes neither the rate nor the observation count,
\* and never hides a regression (test_detect_detector.py:137).
SkipsCarryNoEvidence ==
    [][ /\ rows' # rows
        /\ NothingEvicted
        /\ rows'[1].outcome = "skip"
        => LET old == detection
               new == detection'
           IN  /\ new.rate = old.rate
               /\ new.observations = old.observations
               /\ (new.verdict = "regression") <=> (old.verdict = "regression")
      ]_vars

\* A new commit that passes after a commit that passed never raises the rate:
\* recent behaviour dominates, so a fixed test recovers (rates.py:18).
CleanCommitNeverRaisesRate ==
    [][ /\ rows' # rows
        /\ NothingEvicted
        /\ rows # <<>>
        /\ rows'[1].outcome = "pass" /\ ~rows'[1].rerun
        /\ \A r \in ToSet(rows) : r.sha # rows'[1].sha
        /\ \E c \in Tested : /\ PassedAt(c) /\ ~Disagrees(c)
                             /\ \A d \in Tested : FirstRun(d) <= FirstRun(c)
        => LET old == detection.rate
               new == detection'.rate
           IN  new.n * old.d <= old.n * new.d
      ]_vars

=============================================================================
