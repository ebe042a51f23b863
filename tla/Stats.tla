-------------------------------- MODULE Stats --------------------------------
(***************************************************************************)
(* The metrics of triage and their summary (obs/metrics.py): an invocation *)
(* of triage stores its calls and its classifications in one transaction,  *)
(* `stats` reads the tables in five queries without one, so that triage    *)
(* and ingest may store something between any two.                         *)
(***************************************************************************)
EXTENDS Integers, SequencesExt

CONSTANTS
    Invocations,    \* what triage may store: [calls, classifications]
    MaxInvocations, \* bound: invocations of triage, and runs
    MaxClock        \* bound: the time

CallRows == [kind : STRING, cost : Nat, latency : Nat, failed : BOOLEAN]
\* A result that was downgraded names no cause.
ResultRows ==
    {result \in [cause : STRING, reason : STRING, hit : BOOLEAN] :
        result.reason # "none" => result.cause = "UNKNOWN"}

ASSUME StatsAssumption ==
    /\ Invocations \subseteq [calls : Seq(CallRows), classifications : Seq(ResultRows)]
    /\ MaxInvocations \in Nat
    /\ MaxClock \in Nat

VARIABLES
    clock,
    llmCalls,       \* rows of calls [of, at, row], `of` history: the transaction
    classified,     \* rows of results [of, at, row]
    ciRuns,         \* when runs started
    query,          \* the query that stats comes to next, 0 if none is running
    cutoff,         \* the beginning of its window
    summary,        \* what it has read
    sizes           \* history: the lengths of the tables when it began

tableVars == <<clock, llmCalls, classified, ciRuns>>
statsVars == <<tableVars, query, cutoff, summary, sizes>>

NoSummary == [calls |-> 0, cost |-> 0, errors |-> 0, p50 |-> 0, p95 |-> 0,
              classifications |-> 0, abstentions |-> 0, hits |-> 0,
              byCause |-> <<>>, byReason |-> <<>>, runs |-> 0]

NoSizes == [calls |-> 0, classifications |-> 0, runs |-> 0]

StatsInit ==
    /\ clock = 0 /\ llmCalls = <<>> /\ classified = <<>> /\ ciRuns = <<>>
    /\ query = 0 /\ cutoff = 0 /\ summary = NoSummary /\ sizes = NoSizes

-----------------------------------------------------------------------------
(* What others store.                                                      *)

Stamped(rows, at, of) ==
    [i \in DOMAIN rows |-> [of |-> of, at |-> at, row |-> rows[i]]]

\* The transactions that stored something.
Transactions ==
    {llmCalls[i].of : i \in DOMAIN llmCalls} \cup {classified[i].of : i \in DOMAIN classified}

\* The times of a transaction's rows: that of its calls is taken first, then
\* that of its results. The first insert waits for the lock of another writer,
\* so what was taken before it may be earlier than rows that are stored already.
Stamps(done) ==
    {at \in (0 .. clock) \X (0 .. clock + 1) :
        /\ at[1] <= at[2]
        /\ done.calls # <<>> => at[2] >= clock}

\* record_metrics.
RecordMetrics ==
    \E done \in Invocations : \E stamps \in Stamps(done) :
        LET of == Cardinality(Transactions) + 1 IN
        /\ of <= MaxInvocations
        /\ stamps[2] <= MaxClock
        /\ llmCalls' = llmCalls \o Stamped(done.calls, stamps[1], of)
        /\ classified' = classified \o Stamped(done.classifications, stamps[2], of)
        /\ clock' = IF stamps[2] > clock THEN stamps[2] ELSE clock
        /\ UNCHANGED <<ciRuns, query, cutoff, summary, sizes>>

\* An ingest stores a run.
StoreRun ==
    /\ Len(ciRuns) < MaxInvocations
    /\ \E at \in 0 .. clock : ciRuns' = Append(ciRuns, at)
    /\ UNCHANGED <<clock, llmCalls, classified, query, cutoff, summary, sizes>>

TimePasses ==
    /\ clock < MaxClock
    /\ clock' = clock + 1
    /\ UNCHANGED <<llmCalls, classified, ciRuns, query, cutoff, summary, sizes>>

-----------------------------------------------------------------------------
(* stats.                                                                  *)

\* metrics_summary begins, with a window up to now.
Ask ==
    /\ query = 0
    /\ query' = 1
    /\ cutoff' \in 0 .. clock
    /\ summary' = NoSummary
    /\ sizes' = [calls |-> Len(llmCalls), classifications |-> Len(classified),
                 runs |-> Len(ciRuns)]
    /\ UNCHANGED tableVars

\* WHERE created_at >= cutoff.
InWindow(row) == row.at >= cutoff

\* The rows of a table that a query counts, by their places.
Counted(table) == {i \in DOMAIN table : InWindow(table[i])}

\* Rounded half to even.
Rounded(n, d) ==
    LET whole == n \div d
        twice == 2 * (n - whole * d)
    IN  whole + IF twice > d \/ (twice = d /\ whole % 2 = 1) THEN 1 ELSE 0

\* Mutant: a share of the count, not of the last place.
MutPercentile(ordered, n, d) ==
    IF ordered = <<>> THEN 0
    ELSE LET last == Len(ordered) - 1
             index == Rounded(n * Len(ordered), d)
         IN  ordered[1 + IF index < last THEN index ELSE last]

\* _percentile, of the fraction n/d.
Percentile(ordered, n, d) ==
    IF ordered = <<>> THEN 0
    ELSE LET last == Len(ordered) - 1
             index == Rounded(n * last, d)
         IN  ordered[1 + IF index < last THEN index ELSE last]

TotalCost(calls) == MapThenSumSet(LAMBDA i : llmCalls[i].row.cost, calls)

\* COUNT and GROUP BY, of the key at each place.
Tally(keys) == [k \in Range(keys) |-> Cardinality({i \in DOMAIN keys : keys[i] = k})]

\* The calls that took an answer of the model, and how long each did, in order.
Timed == {i \in Counted(llmCalls) : llmCalls[i].row.kind = "classify" /\ ~llmCalls[i].row.failed}

\* Where a call comes in order of latency.
LatencyPlace(i, calls) ==
    Cardinality({j \in calls : \/ llmCalls[j].row.latency < llmCalls[i].row.latency
                               \/ llmCalls[j].row.latency = llmCalls[i].row.latency /\ j <= i})

Latencies(calls) ==
    [n \in 1 .. Cardinality(calls) |->
        llmCalls[CHOOSE i \in calls : LatencyPlace(i, calls) = n].row.latency]

Abstained(result) == result.cause = "UNKNOWN"

\* Mutant: the classifications are read before the calls.
MutQueries == <<"classifications", "calls", "latencies", "by cause", "by reason", "runs">>

\* The queries of summarize, in order.
Queries == <<"calls", "latencies", "classifications", "by cause", "by reason", "runs">>

\* What the query that comes next adds to the summary.
Answer ==
    LET calls == Counted(llmCalls)
        rows == Counted(classified)
        result(i) == classified[i].row
        downgraded == {i \in rows : result(i).reason # "none"}
    IN CASE Queries[query] = "calls" ->
              [summary EXCEPT
                !.calls = Cardinality(calls),
                !.cost = TotalCost(calls),
                !.errors = Cardinality({i \in calls : llmCalls[i].row.failed})]
         [] Queries[query] = "latencies" ->
              [summary EXCEPT !.p50 = Percentile(Latencies(Timed), 1, 2),
                              !.p95 = Percentile(Latencies(Timed), 19, 20)]
         [] Queries[query] = "classifications" ->
              [summary EXCEPT !.classifications = Cardinality(rows),
                              !.abstentions = Cardinality({i \in rows : Abstained(result(i))}),
                              !.hits = Cardinality({i \in rows : result(i).hit})]
         [] Queries[query] = "by cause" ->
              [summary EXCEPT !.byCause = Tally([i \in rows |-> result(i).cause])]
         [] Queries[query] = "by reason" ->
              [summary EXCEPT !.byReason = Tally([i \in downgraded |-> result(i).reason])]
         [] Queries[query] = "runs" ->
              [summary EXCEPT !.runs = Cardinality({i \in DOMAIN ciRuns : ciRuns[i] >= cutoff})]

RunQuery ==
    /\ query \in DOMAIN Queries
    /\ summary' = Answer
    /\ query' = query + 1
    /\ UNCHANGED <<tableVars, cutoff, sizes>>

\* The summary is shown, and stats ends.
Show ==
    /\ query > Len(Queries)
    /\ query' = 0 /\ cutoff' = 0 /\ summary' = NoSummary /\ sizes' = NoSizes
    /\ UNCHANGED tableVars

StatsNext == RecordMetrics \/ StoreRun \/ TimePasses \/ Ask \/ RunQuery \/ Show

StatsSpec == StatsInit /\ [][StatsNext]_statsVars

-----------------------------------------------------------------------------
Shown == query > Len(Queries)

Sum(tally) == FoldFunction(LAMBDA n, sum : n + sum, 0, tally)

Quiet ==
    /\ Len(llmCalls) = sizes.calls
    /\ Len(classified) = sizes.classifications
    /\ Len(ciRuns) = sizes.runs

\* Nothing was stored across the beginning of the window.
Clear == \A i \in DOMAIN llmCalls, j \in DOMAIN classified :
    llmCalls[i].of = classified[j].of => (InWindow(llmCalls[i]) <=> InWindow(classified[j]))

\* The n first of some places: what a query counted, since rows are appended.
FirstOf(places, n) == {i \in places : Cardinality({j \in places : j <= i}) <= n}

(***************************************************************************)
(* Whatever is stored meanwhile, a summary does not count the cost of a    *)
(* call without the classifications behind which it stands, so the cost    *)
(* per classification is never overstated; and if nothing is stored        *)
(* meanwhile, nor across the beginning of the window, it is not            *)
(* understated either ("a crash cannot leave classifications recorded with *)
(* no cost attached to them", record_metrics).                             *)
(***************************************************************************)
CostHasItsAnswers ==
    Shown =>
        LET calls == FirstOf(Counted(llmCalls), summary.calls)
            rows == FirstOf(Counted(classified), summary.classifications)
        IN  /\ \A i \in calls, j \in DOMAIN classified :
                llmCalls[i].of = classified[j].of => j \in rows
            /\ Quiet /\ Clear =>
                \A i \in DOMAIN llmCalls, j \in rows :
                    llmCalls[i].of = classified[j].of => i \in calls

(***************************************************************************)
(* The tables of a summary add up: those by cause to the classifications,  *)
(* those by reason to at most the abstentions, unless something was stored *)
(* between; hits and abstentions are shares of the classifications at any  *)
(* rate, and the median latency splits the latencies in halves.            *)
(***************************************************************************)
SummaryAddsUp ==
    Shown =>
        /\ summary.hits <= summary.classifications
        /\ summary.abstentions <= summary.classifications
        /\ summary.errors <= summary.calls
        /\ summary.classifications <= Sum(summary.byCause)
        /\ summary.p50 <= summary.p95
        /\ Quiet =>
            LET latency(i) == llmCalls[i].row.latency IN
            /\ summary.classifications = Sum(summary.byCause)
            /\ Sum(summary.byReason) <= summary.abstentions
            /\ 2 * Cardinality({i \in Timed : latency(i) <= summary.p50}) >= Cardinality(Timed)
            /\ 2 * Cardinality({i \in Timed : latency(i) >= summary.p50}) >= Cardinality(Timed)
            /\ summary.runs = Cardinality({i \in DOMAIN ciRuns : ciRuns[i] >= cutoff})
=============================================================================
