------------------------------- MODULE Reports -------------------------------
(***************************************************************************)
(* What the three reports say of a list of detections (report/renderers),  *)
(* and what is left out of them: the terminal hides healthy tests, the     *)
(* comment on a pull request has a limited number of rows and a headline   *)
(* that most readers read alone. The words are left out, and the count of   *)
(* uncertain merges, which no row and no headline depends on.              *)
(***************************************************************************)
EXTENDS Integers, SequencesExt

CONSTANTS
    Rates,          \* flake rates
    MaxCommentRows, \* pr_comment_max_rows
    MaxFound        \* bound: detections

ASSUME ReportsAssumption ==
    /\ Rates \subseteq Nat
    /\ MaxCommentRows \in Nat \ {0}
    /\ MaxFound \in Nat

VARIABLE found      \* the detections, in the order of detect_all

\* The most consequential verdict first.
VerdictOrder == <<"REGRESSION", "FLAKY", "PERSISTENT_FAILURE", "NEW_FAILURE", "HEALTHY">>

\* A test is a number, tests are ordered by name.
Detection == [test : 1 .. MaxFound, verdict : ToSet(VerdictOrder), rate : Rates]

Rank(verdict) == CHOOSE n \in DOMAIN VerdictOrder : VerdictOrder[n] = verdict

\* Mutant: regressions first, and the rest by flake rate whatever its verdict.
MutPrecedes(d, e) ==
    LET class(x) == IF x.verdict = "REGRESSION" THEN 0 ELSE 1
    IN  \/ class(d) < class(e)
        \/ class(d) = class(e) /\ d.rate > e.rate
        \/ class(d) = class(e) /\ d.rate = e.rate /\ d.test < e.test

\* The key of sort_for_report.
Precedes(d, e) ==
    \/ Rank(d.verdict) < Rank(e.verdict)
    \/ Rank(d.verdict) = Rank(e.verdict) /\ d.rate > e.rate
    \/ Rank(d.verdict) = Rank(e.verdict) /\ d.rate = e.rate /\ d.test < e.test

\* A set of detections of different tests in this order: a detection comes
\* after as many as precede it.
Ahead(d, detections) == Cardinality({e \in detections : Precedes(e, d)})

Sorted(detections) ==
    [n \in 1 .. Cardinality(detections) |->
        CHOOSE d \in detections : Ahead(d, detections) = n - 1]

SortForReport(detections) == Sorted(ToSet(detections))

Of(detections, verdict) == {d \in ToSet(detections) : d.verdict = verdict}

Findings(detections) == Sorted({d \in ToSet(detections) : d.verdict # "HEALTHY"})

\* Detections by verdict, and all.
Summarize(detections) ==
    [verdict \in ToSet(VerdictOrder) |-> Cardinality(Of(detections, verdict))]

RenderJson(detections) ==
    [summary |-> Summarize(detections), total |-> Len(detections),
     rows |-> SortForReport(detections)]

\* Without findings the terminal says of how many tests, otherwise the last
\* line has the counts.
RenderTerminal(detections, showHealthy) ==
    LET rows == IF showHealthy THEN SortForReport(detections) ELSE Findings(detections)
    IN  IF rows = <<>> THEN [rows |-> <<>>, clear |-> TRUE, total |-> Len(detections)]
        ELSE [rows |-> rows, clear |-> FALSE, summary |-> Summarize(detections)]

Shorter(a, b) == IF a < b THEN a ELSE b

\* The comment: how many failures it calls regressions, how many unrelated to
\* the change, and whether the latter is the first thing it says.
RenderMarkdown(detections) ==
    LET rows == Findings(detections)
        flaky == Cardinality(Of(rows, "FLAKY"))
        regressions == Cardinality(Of(rows, "REGRESSION"))
    IN  IF rows = <<>> THEN [clear |-> TRUE]
        ELSE [clear |-> FALSE,
              regressions |-> regressions,
              unrelated |-> flaky,
              absolves |-> flaky > 0 /\ regressions = 0,
              rows |-> SubSeq(rows, 1, Shorter(MaxCommentRows, Len(rows))),
              omitted |-> IF Len(rows) > MaxCommentRows THEN Len(rows) - MaxCommentRows ELSE 0]

FoundInit == found = <<>>

\* The detector finds something of another test.
FindAnother ==
    /\ Len(found) < MaxFound
    /\ \E d \in Detection :
        /\ d.test \notin {e.test : e \in ToSet(found)}
        /\ found' = Append(found, d)

FoundSpec == FoundInit /\ [][FindAnother]_found

-----------------------------------------------------------------------------
\* d is worth a reader's attention before e, or as much: it has the more
\* consequential verdict, or the same one at no lower a rate.
AsBad(d, e) ==
    \/ Rank(d.verdict) < Rank(e.verdict)
    \/ d.verdict = e.verdict /\ d.rate >= e.rate

WorstFirst(list) == \A i, j \in DOMAIN list : i < j => AsBad(list[i], list[j])

(***************************************************************************)
(* No report hides something worse than what it shows. The comment's rows  *)
(* are as many findings as fit, none left out has a more consequential     *)
(* verdict than one that is shown, nor the same one and a higher rate, and *)
(* those left out are counted; it absolves the change only if no detection *)
(* at all, shown or not, is a regression. Every finding is in the other    *)
(* reports, and every report has the worst first (sort_for_report, "most   *)
(* consequential first: by verdict class, then by flake rate").            *)
(***************************************************************************)
NothingWorseIsHidden ==
    LET comment == RenderMarkdown(found)
        failing == {d \in ToSet(found) : d.verdict # "HEALTHY"}
        worst == {d \in failing : d.verdict = "REGRESSION"}
        terminal == RenderTerminal(found, FALSE)
    IN  /\ comment.clear <=> failing = {}
        /\ failing # {} =>
            /\ comment.omitted + Len(comment.rows) = Cardinality(failing)
            /\ comment.omitted > 0 => Len(comment.rows) = MaxCommentRows
            /\ \A shown \in ToSet(comment.rows), left \in failing \ ToSet(comment.rows) :
                AsBad(shown, left)
            /\ WorstFirst(comment.rows)
            /\ comment.absolves => worst = {}
            /\ comment.regressions = Cardinality(worst)
        /\ ToSet(terminal.rows) = failing
        /\ ToSet(RenderJson(found).rows) = ToSet(found)
        /\ ToSet(RenderTerminal(found, TRUE).rows) = ToSet(found)
        /\ WorstFirst(terminal.rows)
        /\ WorstFirst(RenderJson(found).rows)
        /\ WorstFirst(RenderTerminal(found, TRUE).rows)
=============================================================================
