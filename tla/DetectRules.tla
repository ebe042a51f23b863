----------------------------- MODULE DetectRules -----------------------------
(***************************************************************************)
(* The deterministic detector of flaketriage as pure operators: execution  *)
(* rows are grouped into one window per commit (detect/history.py), the    *)
(* windows are smoothed into a flake rate (detect/rates.py), and a fixed   *)
(* precedence of signals turns them into a verdict (detect/detector.py).   *)
(*                                                                         *)
(* A row is a record                                                       *)
(*   [sha, branch, attempt, at, outcome, infra, rerun]              *)
(* where sha and at are numbers (only their order matters), outcome is one *)
(* of Outcomes, infra says that an error text matches a configured         *)
(* platform pattern and rerun that the runner reported a flakyFailure.     *)
(* Rows always come newest first, as the store returns them.               *)
(*                                                                         *)
(* Rates are exact fractions [n, d]; the code uses floating point.         *)
(***************************************************************************)
EXTENDS Integers, Sequences, FiniteSets, SequencesExt, FiniteSetsExt

CONSTANTS
    WindowExecutions,   \* detect.window_executions
    MinObservations,    \* detect.min_observations
    AlphaNum, AlphaDen, \* detect.ewma_alpha = AlphaNum / AlphaDen
    RateNum, RateDen,   \* detect.flake_rate_threshold = RateNum / RateDen
    PassStreak,         \* detect.regression_pass_streak
    FailStreak,         \* detect.regression_fail_streak
    MainBranch          \* detect.main_branch

\* The ranges DetectConfig accepts: every count is at least one, the
\* smoothing factor is in (0, 1] and the threshold in [0, 1].
ASSUME DetectConfigAssumption ==
    /\ WindowExecutions \in Nat \ {0}
    /\ MinObservations \in Nat \ {0}
    /\ AlphaDen \in Nat \ {0} /\ AlphaNum \in 1 .. AlphaDen
    /\ RateDen \in Nat \ {0} /\ RateNum \in 0 .. RateDen
    /\ PassStreak \in Nat \ {0}
    /\ FailStreak \in Nat \ {0}

Outcomes == {"pass", "fail", "error", "skip"}
Failures == {"fail", "error"}
Verdicts == {"flaky", "regression", "new_failure", "persistent_failure", "healthy"}
Confidences == {"high", "medium", "low"}

Passes(row) == row.outcome = "pass"
Fails(row) == row.outcome \in Failures
CountsAsObservation(row) == row.outcome # "skip"

-----------------------------------------------------------------------------
(* detect/infra.py and detect/history.py: windows.                         *)

\* Only a harness-level error can be the platform's fault; a failed
\* assertion never is, whatever it says.
IsInfraFailure(row) == row.outcome = "error" /\ row.infra

\* One commit's rows, each under its place in the list of all rows. The branch
\* is that of the first one, the newest.
Window(sha, rows) ==
    [sha     |-> sha,
     rows    |-> rows,
     at      |-> Min({rows[i].at : i \in DOMAIN rows}),
     branch  |-> rows[Min(DOMAIN rows)].branch]

\* Mutant: windows ordered by commit identifier instead of by first run.
MutEarlierBySha(v, w) == v.sha < w.sha

Earlier(v, w) == v.at < w.at \/ (v.at = w.at /\ v.sha < w.sha)

\* The windows in the order their commits first ran.
Place(w, windows) == Cardinality({v \in windows : Earlier(v, w)}) + 1
InOrder(windows) ==
    [n \in 1 .. Cardinality(windows) |-> CHOOSE w \in windows : Place(w, windows) = n]

\* build_history: platform failures are dropped before anything else sees
\* them, skips stay (without being observations).
BuildHistory(rows) ==
    LET kept == {i \in DOMAIN rows : ~IsInfraFailure(rows[i])}
        Of(sha) == {i \in kept : rows[i].sha = sha}
    IN  InOrder({Window(sha, [i \in Of(sha) |-> rows[i]]) : sha \in {rows[i].sha : i \in kept}})

HasPass(w) == \E r \in Range(w.rows) : Passes(r)
HasFailure(w) == \E r \in Range(w.rows) : Fails(r)
RerunObserved(w) == \E r \in Range(w.rows) : r.rerun
Observed(w) == {i \in DOMAIN w.rows : CountsAsObservation(w.rows[i])}
WindowObservations(w) == Cardinality(Observed(w))

\* Two outcomes at one commit, seen as two rows or asserted by the runner.
Diverged(w) == (HasPass(w) /\ HasFailure(w)) \/ RerunObserved(w)

\* The outcomes differed between attempts: some attempt saw only passes, or
\* only failures, while the other outcome was seen too.
DivergedAcrossAttempts(w) ==
    LET AttemptsOf(Test(_)) == {r.attempt : r \in {x \in Range(w.rows) : Test(x)}}
    IN  /\ Diverged(w)
        /\ Cardinality(AttemptsOf(LAMBDA r : TRUE)) >= 2
        /\ AttemptsOf(Passes) # {} /\ AttemptsOf(Fails) # {}
        /\ AttemptsOf(Passes) # AttemptsOf(Fails)

Status(w) ==
    IF Diverged(w) THEN "diverged"
    ELSE IF WindowObservations(w) = 0 THEN "no_data"
    ELSE IF HasFailure(w) THEN "failed"
    ELSE "passed"

\* The sum over the windows, which have no place in common.
Observations(h) == Cardinality(UNION {Observed(w) : w \in ToSet(h)})
RetryDataAvailable(h) == \E w \in ToSet(h) : WindowObservations(w) >= 2

\* Mutant: a commit at which the test was only skipped counts as a commit.
MutMeasuredAll(h) == h

\* The windows with data: a commit at which the test was only skipped says
\* nothing about it.
Measured(h) == InOrder({w \in ToSet(h) : Status(w) # "no_data"})
Statuses(h) ==
    LET measured == Measured(h)
    IN  [i \in DOMAIN measured |-> Status(measured[i])]

LatestFails(h) == h # <<>> /\ HasFailure(Last(h))

-----------------------------------------------------------------------------
(* detect/rates.py: exponentially weighted rates as exact fractions.       *)

Fraction(n, d) == [n |-> n, d |-> d]
Above(rate, n, d) == rate.n * d > n * rate.d

\* Mutant: the weights of the new value and of the past are exchanged.
MutSmoothSwapped(past, value) ==
    Fraction((AlphaDen - AlphaNum) * value * past.d + AlphaNum * past.n,
             AlphaDen * past.d)

\* One step of the average: alpha * value + (1 - alpha) * past.
Smooth(past, value) ==
    Fraction(AlphaNum * value * past.d + (AlphaDen - AlphaNum) * past.n,
             AlphaDen * past.d)

\* The average of the values, oldest first.
Ewma(values) ==
    LET Upto[n \in 0 .. Len(values)] ==
            IF n = 0 THEN Fraction(0, 1)
            ELSE IF n = 1 THEN Fraction(values[1], 1)
            ELSE Smooth(Upto[n - 1], values[n])
    IN  Upto[Len(values)]

Indicator(b) == IF b THEN 1 ELSE 0

\* The share of commits that diverged, over every commit with data.
DivergenceRate(h) ==
    LET s == Statuses(h)
    IN  Ewma([i \in DOMAIN s |-> Indicator(s[i] = "diverged")])

\* Mutant: every commit is compared with the oldest one.
MutIntermittencyFromFirst(h) ==
    LET s == Statuses(h)
        Flip(i) == s[i + 1] # s[1] \/ s[i] = "diverged"
    IN  IF Len(s) < 2 THEN Fraction(0, 1)
        ELSE Ewma([i \in 1 .. Len(s) - 1 |-> Indicator(Flip(i))])

\* The share of consecutive commits between which the outcome changed; a
\* divergent commit is a change on both its sides.
IntermittencyRate(h) ==
    LET s == Statuses(h)
        Flip(i) == s[i + 1] # s[i] \/ s[i] = "diverged"
    IN  IF Len(s) < 2 THEN Fraction(0, 1)
        ELSE Ewma([i \in 1 .. Len(s) - 1 |-> Indicator(Flip(i))])

FlakeRate(h) ==
    IF RetryDataAvailable(h) THEN DivergenceRate(h) ELSE IntermittencyRate(h)

-----------------------------------------------------------------------------
(* detect/detector.py: signals, precedence and verdict.                    *)

\* The length of the longest suffix of s whose elements all equal e.
TrailingCount(s, e) ==
    Max({k \in 0 .. Len(s) : \A i \in Len(s) - k + 1 .. Len(s) : s[i] = e})

\* find_regression: a passing streak that turned into a failing streak at one
\* commit, in a history that never diverged; a set of at most one finding.
FindRegression(h) ==
    LET s == Statuses(h)
        failing == TrailingCount(s, "failed")
        passing == TrailingCount(SubSeq(s, 1, Len(s) - failing), "passed")
    IN  IF /\ "diverged" \notin ToSet(s)
           /\ failing >= FailStreak
           /\ passing >= PassStreak
        THEN {[pivot |-> Measured(h)[Len(s) - failing + 1].sha,
               passes |-> passing, fails |-> failing]}
        ELSE {}

\* Mutant: passing on the main branch is not required.
MutBranchIndependentAnywhere(h, unrelated) ==
    LatestFails(h) /\ Last(h).branch \notin {MainBranch, ""} /\ unrelated

\* Mutant: a run whose branch is not known counts as one on another branch.
MutBranchIndependentUnnamed(h, unrelated) ==
    /\ LatestFails(h)
    /\ Last(h).branch # MainBranch
    /\ unrelated
    /\ \E w \in ToSet(h) : w.branch = MainBranch /\ Status(w) = "passed"

\* find_branch_independent; the branch is "" when it is not known. unrelated says that the change and the test's
\* footprint are both known and have no file in common.
BranchIndependent(h, unrelated) ==
    /\ LatestFails(h)
    /\ Last(h).branch \notin {MainBranch, ""}
    /\ unrelated
    /\ \E w \in ToSet(h) : w.branch = MainBranch /\ Status(w) = "passed"

\* find_historical_instability.
HistoricalInstability(h) ==
    /\ Observations(h) >= MinObservations
    /\ Above(FlakeRate(h), RateNum, RateDen)

\* The signals that fire, in detect_for_history's order: the weak ones are
\* consulted only when no regression was found.
Signals(h, unrelated) ==
    LET diverged == {w \in ToSet(h) : Diverged(w)}
        strong == (IF diverged # {} THEN {"same_sha_divergence"} ELSE {})
                  \cup (IF \E w \in diverged : DivergedAcrossAttempts(w)
                        THEN {"cross_attempt_divergence"} ELSE {})
        weak == (IF BranchIndependent(h, unrelated)
                 THEN {"branch_independent"} ELSE {})
                \cup (IF HistoricalInstability(h)
                      THEN {"historical_instability"} ELSE {})
    IN  IF strong = {} /\ FindRegression(h) # {} THEN {} ELSE strong \cup weak

\* Mutant: the observation floor raises the confidence without any retry.
MutConfidenceByVolume(h, signals) ==
    IF "same_sha_divergence" \in signals
    THEN IF Cardinality({w \in ToSet(h) : Diverged(w)}) >= 2 THEN "high" ELSE "medium"
    ELSE IF Observations(h) >= MinObservations THEN "medium" ELSE "low"

Confidence(h, signals) ==
    IF "same_sha_divergence" \in signals
    THEN IF Cardinality({w \in ToSet(h) : Diverged(w)}) >= 2 THEN "high" ELSE "medium"
    ELSE IF /\ "historical_instability" \in signals
            /\ RetryDataAvailable(h)
            /\ Observations(h) >= 2 * MinObservations
         THEN "medium" ELSE "low"

RegressionConfidence(finding) ==
    IF finding.passes >= 2 * PassStreak /\ finding.fails >= FailStreak
    THEN "high" ELSE "medium"

\* Mutant: a passing newest commit is reported healthy before the
\* divergence of an older one is looked at.
MutDecideHealthyFirst(h, signals) ==
    IF ~LatestFails(h) THEN <<"healthy", "high">>
    ELSE IF signals # {} THEN <<"flaky", Confidence(h, signals)>>
    ELSE <<"persistent_failure", "low">>

\* _decide: the fixed precedence, as <<verdict, confidence>>.
Decide(h, signals) ==
    IF "same_sha_divergence" \in signals
    THEN <<"flaky", Confidence(h, signals)>>
    ELSE IF FindRegression(h) # {}
    THEN <<"regression", RegressionConfidence(CHOOSE f \in FindRegression(h) : TRUE)>>
    ELSE IF ~LatestFails(h)
    THEN <<"healthy", "high">>
    ELSE IF signals # {}
    THEN <<"flaky", Confidence(h, signals)>>
    ELSE IF Len(h) <= 1
    THEN <<"new_failure", "low">>
    ELSE <<"persistent_failure",
           IF Observations(h) < MinObservations THEN "low" ELSE "medium">>

\* detect_for_history.
DetectHistory(h, unrelated) ==
    LET decision == Decide(h, Signals(h, unrelated))
    IN  [verdict      |-> decision[1],
         confidence   |-> decision[2],
         rate         |-> FlakeRate(h),
         observations |-> Observations(h)]

\* Mutant: the window is cut after the platform failures are dropped.
MutInWindow(rows) ==
    LET kept == SelectSeq(rows, LAMBDA r : ~IsInfraFailure(r))
    IN  SubSeq(kept, 1, Min({Len(kept), WindowExecutions}))

\* executions_for_group: the newest rows, as many as the window holds.
InWindow(rows) ==
    SubSeq(rows, 1, Min({Len(rows), WindowExecutions}))

\* detect_all for one logical test: its rows, newest first, cut to the window.
Detect(rows, unrelated) == DetectHistory(BuildHistory(InWindow(rows)), unrelated)

NeedsClassification(detection) ==
    detection.verdict \in {"flaky", "persistent_failure"}

=============================================================================
