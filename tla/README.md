# Formal models of flaketriage

TLA+ specifications of the flaky-test triage agent in `src/` (the Python
package `src/flaketriage`, command `flaketriage`), the TLC configurations that
check them on small instances, and the theorems about them that TLAPS checks
for every instance. Source paths below are relative to `src/src/flaketriage`
unless they begin with another directory of the repository.

Contents: [the system](#the-system), [the modules](#the-modules),
[detector](#detectrules-and-mcdetect), [quarantine](#quarantine),
[classifier](#classifier), [ingestion](#ingestion), [reads](#histories-metrics-and-reports),
[files](#the-store-and-the-cache-on-disk), [runs and bounds](#runs-and-bounds),
[fairness](#fairness), [proofs](#proofs),
[where the code and its documentation differ](#where-the-code-and-its-documentation-differ),
[not modelled](#what-is-not-modelled), [plan](#plan).

## The system

flaketriage is a command-line program. There is no daemon: every command is a
short-lived process on one SQLite store (`store/db.py`, WAL mode, short busy
timeout) and one directory of cached model answers. Concurrency comes from
several CI jobs running commands on the same store; failure comes from jobs
that are killed, or whose transaction finds the database busy.

| Part | State it keeps | Operations | Properties that make it correct |
|---|---|---|---|
| Ingest (`ingest/pipeline.py`, `store/repositories.py`) | runs, test identities, executions, aliases, diffs, parse warnings | `ingest`: a series of transactions per upload of results | a repeated or interrupted ingest leaves the store of a single one; executions are unique per run and test |
| Diff parser (`ingest/diff.py`) | the file and the hunk being read | one step per line of a patch | a patch cut anywhere lists its files; the changed lines are exactly those of the patch |
| JUnit parser (`ingest/junit.py`) | per file: the open suites and the cases in them | one step per XML event | a file cut anywhere yields its complete cases and a warning; output is given to the right case |
| Identity (`identity/`) | alias edges between fingerprints | `reconcile_renames`, groups of aliases | a rename joins two histories of one test and never two tests that both exist; ties merge nothing |
| Detector (`detect/`) | none; it reads the store in many queries | `detect_all`: the history of each test, then its verdict | a history has all names of a test and no other test's; the verdict follows a fixed precedence; no evidence, no accusation; the rate is a weighted share with an honest denominator |
| Schema (`store/db.py`, `store/schema.py`) | the version and the tables of the store | `connect`, `apply_migrations` | the version says which tables there are; an opened store has the tables its build needs |
| Classifier (`classify/classifier.py`, `schema.py`) | per invocation: budget, calls, results | `classify_many`: cap, cache, budget, gate, classify, one repair | every candidate gets exactly one answer, the spend is bounded, conditions of a run are not facts about a test |
| Response cache (`classify/cache.py`) | one file per request key | `get`, `put` | an answer is only ever served for the request it was given for; an entry is whole or can be repaired |
| Metrics (`obs/metrics.py`, `RunStore.record_metrics`) | stored calls and classifications | one transaction at the end of `triage`; five queries of `stats` | a stored cause has its cost; the summary adds up |
| Quarantine (`policy/quarantine.py`, `policy/records.py`, `cli.py` `policy`) | quarantine rows, a partial unique index on the open ones | `policy --apply`: expire, evaluate, record, release | one open quarantine per test, every quarantine ends, a closed row is final, nothing is quarantined without evidence |
| Reports (`report/`) | none | terminal, JSON and pull-request comment | nothing worse is left out than what is shown |
| Ownership (`policy/ownership.py`), config, logging | none | read-only | — |
| CI glue (`src/action.yml`, workflows) | one pull-request comment | find or create, update | one comment per pull request |

How the parts meet: `ingest` writes what the detector reads; `triage` detects,
classifies the tests that need a cause and stores the causes; `policy` detects
again, reads the latest cause of each test and writes the quarantine rows.
Nothing locks the store across those reads, so each command decides on data
that other commands may have changed since.

What is hard to test here, and where the models look:

- shards that are ingested at the same time, late or twice, by ingests that die
  between two transactions;
- a history collected by many queries while ingests add executions and names;
- two processes that open a new store, or write one key of the cache, at once;
- two `policy --apply` at once, each with its own idea of which tests are open;
- a release or an expiry decided on rows read earlier;
- a process that dies between two transactions, or between writing a cached
  answer and storing its cost;
- a classification that arrives after the test's history has moved on;
- boundaries: streaks, observation floors, window and result limits, a budget
  that is checked for two calls at once;
- something that must happen in the end (a TTL that is only a promise until
  some later process acts on it).

`PROJECT.json` lists these hazards one by one at their lines, with the property
that would catch each of them.

## The modules

| Module | What it is |
|---|---|
| `DetectRules` | the detector as pure operators on rows, with exact fractions |
| `MCDetect` | every short history, and the properties of the verdict stated on the raw rows |
| `DetectProofs` | theorems about `DetectRules` and `MCDetect` |
| `Quarantine` | `policy --apply` by any number of processes, with `ingest`, `triage`, the clock and crashes around it; extends `DetectRules`, so a quarantine rests on the real verdict of a real history |
| `QuarantineLifecycle` | the abstract specification: a test goes through episodes |
| `MCQuarantine` | documented claims about `policy` that the code does not meet |
| `QuarantineProofs` | theorems about `Quarantine` |
| `Classifier` | `classify_many` by any number of processes over a shared cache, and the recording of metrics |
| `MCClassifier` | symmetry for the instances of `Classifier` |
| `ClassifierProofs` | theorems about `Classifier` |
| `JUnitParser` | the streaming parse of one file, cut anywhere |
| `DiffParser`, `MCDiff` | the parse of a patch line by line, cut anywhere, and a documented claim about it that the code does not meet |
| `ParserProofs` | theorems about `JUnitParser` and `DiffParser` |
| `AliasRules`, `MCAlias` | the matching of renames as operators, and every small table of distances |
| `DetectionPass` | `detect_all` query by query over a store that others write, and what `policy --apply` quarantines after it |
| `PassProofs` | theorems about `DetectionPass` |
| `Stats` | the metrics of `triage` and the queries of `stats` |
| `Reports` | the three reports of a list of detections |
| `ReadsProofs` | theorems about `MCAlias`, `Stats` and `Reports` |
| `MCReads` | `JUnitParser`, `MCDiff`, `MCAlias`, `DetectionPass`, `Stats` and `Reports` as six small worlds of one run |
| `StoreSchema` | the opening and migration of a store by several processes |
| `CacheFiles` | the files behind one key of the response cache |
| `AtomicCache` | the abstract specification of that key |
| `FilesProofs` | theorems about `StoreSchema` and `CacheFiles` |
| `MCFiles` | `StoreSchema` and `CacheFiles` as two worlds of one run |
| `IngestStore` | `ingest` by any number of processes: one action per transaction, crashes, repeats, shards, late uploads; extends `AliasRules` |
| `ObservationLog` | the abstract specification of the executions: each upload observed once, as a whole |
| `IngestProofs` | theorems about `IngestStore` |
| `MCIngest` | reports and distances for the instances, and a documented claim about renames that the code does not meet |

Operators whose name begins with `Mut` are deliberate mistakes, each next to
the definition it would replace: with the mistake in place the named property
must fail. `PROJECT.json` pairs them.

### DetectRules and MCDetect

A row is one execution: commit, branch, attempt, time, outcome, whether its
error text matches a platform pattern, and whether the runner re-ran the test.
`BuildHistory` drops platform errors and groups the rest into one window per
commit (`history.py`); `Ewma`, `DivergenceRate` and `IntermittencyRate` are
`rates.py`; `FindRegression`, `BranchIndependent`, `HistoricalInstability`,
`Signals`, `Confidence` and `Decide` are `detector.py`; `InWindow` is the row
limit of `executions_for_group`.

Nothing is folded over sequences: a window holds its rows under their places in
the list of all rows (`Window`), so "the newest row of the window" is the least
place, and a list in some order is the function that puts each element after as
many as come before it (`Place`, `InOrder`), which is what a sort with a total
key computes. `Ewma` is a recursive function of the number of values. That is
what makes the rules fit to be proved about as well as evaluated.

Abstractions: rates are exact fractions where the code has floats; evidence
texts, failing shards and stack footprints are left out (the footprint analysis
is the Boolean `unrelated`); times and commits are numbers, only their order
matters. A test here is one identity; how the histories of its names come
together is `DetectionPass`.

`MCDetect` ingests one row at a time. Its properties avoid the detector's own
helpers: they speak of commits that passed, failed or disagree with themselves,
read off the newest `WindowExecutions` rows (`Kept`, which cuts by time and then
drops platform failures, independently of `InWindow`). A row whose branch is not
known has the branch `""`.

| Property | Claim |
|---|---|
| `DivergenceWins` | a commit that both passed and failed makes the test flaky, with more than low confidence, whatever came later |
| `RegressionIsOneTransition` | the regression verdict is given exactly to an undisturbed pass-to-fail transition |
| `DivergenceRateIsWeightedShare` | the fold in `ewma` equals its closed form: a weighted share of all tested commits |
| `FlakyIsBacked` | flaky always has one of three admitted kinds of evidence: a commit that disagrees with itself, enough observations and a rate above the threshold, or a failure on a known branch with an unrelated change |
| `CrossCommitEvidenceIsWeak` | evidence across commits, without any retry, has low confidence |
| `SkipsCarryNoEvidence` | a skip changes neither rate nor observations and does not hide a regression |
| `CleanCommitNeverRaisesRate` | one more clean commit after a clean commit never raises the rate |

### Quarantine

| Code | Model |
|---|---|
| executions of a test | `runs[t]`, oldest first |
| latest stored classification | `cause[t]`, `"none"` before the first |
| tests a running `triage` is waiting on | `pending` |
| rows of the `quarantines` table | `quarantines[t]`, each with state, cause, days left and the number of executions known when it was made (`since`, a history variable) |
| local variables of `policy` (`cli.py:425-502`) | `pc`, `todo`, `found`, `openIds`, `planned`, `listed`, `closing`, `expired`, `released`, per process |

One action per read or transaction of an invocation, in the order of the code:
`Start`, `DetectTest` for each test, `Expire` (`expire_overdue`), `ReadOpen`
(`open_quarantine_ids`), `Evaluate` for each test (with the cause stored at
that moment), `Record` (one transaction; an insert that the partial unique
index rejects does nothing), `List`, then `Check` and perhaps `Close` for each
listed row, and `Report`. `Crash` may follow any of them; a busy database
rolls the transaction back and ends the command, which is the same step.
Around it `Ingest` adds executions, `TriageDetect`, `TriageRecord` and
`TriageCrash` change the causes, and `Tick` lets a day pass.

Abstractions: time is the number of days left on a row, and closed rows do not
age, so no date has to be bounded; loops over tests and rows run in any order
(the code's order is one of them, and no iteration depends on an earlier one);
`RecentOutcomes` lists the outcomes by place, newest first, and
`ConsecutiveCleanRuns` counts those before the first that is not a pass;
a detection is reduced to its verdict and to the side of the policy's two
thresholds it is on; executions are on the main branch at attempt 1; a full
store (`MaxRows`) ends the command. `policy` without `--apply` writes nothing
and is not an action. The lookback cutoff of detection and renamed tests are in
`DetectionPass`; ownership is left out.

| Property | Claim |
|---|---|
| `AtMostOneOpen` | however many invocations decide to quarantine a test, one row is open |
| `ClosedIsFinal` | no step changes a closed row: a stale release does not undo an expiry |
| `OpenedOnEvidence` | every row was made for a test whose executions had been flaky and unstable, under a cause that permits it |
| `ClosedForAReason` | released means a run of passes (skips not counted) long enough; expired means the TTL ran out |
| `NoGraveyard` | every open row is closed in the end |
| `ImplementsLifecycle` | the rows refine `QuarantineLifecycle` |

### Classifier

| Code | Model |
|---|---|
| cache directory | `cache[request]`: `Missing`, `Damaged` or a result |
| calls stored by `record_metrics` | `costed`, the requests whose calls are stored |
| configuration and detections of one `triage` | `using[p]`, `seen[p]`, `candidates[p]`, chosen anew at each `Start` |
| `classify_many`'s loop | `batch[p]`, `results[p]`, `hits[p]`, and `pc[p]` for the stage of the current test |
| `ClassifyStats` | `spent[p]` (all calls), `billed[p]` and `calls[p]` (classify and repair only) |

The actions are the stages of `classify`: `Capped` (beyond
`classify.max_tests`), `Hit`, `Miss` (a damaged file is removed; the budget is
checked), `Prefilter` (the gate), `Classify`, `Repair`, `Store` (`_store` and
`ClassificationCache.put`, which a full disk may refuse), then `Record`. `Damage` is a
file truncated or edited outside the program, `Crash` the end of the process.
The budget check is the code's: the budget is used up, or what is left is less
than the mean cost of the calls so far (written without division; calls that
failed cost nothing and count in the mean, as in the code).

Abstractions: a request is the test, its evidence, the gate and the
classifier's prompt, each one value; a reply is the kind the validation makes
of it (`parse_and_validate` and `apply_guardrails` have six ways to reject a
reply as malformed, all `"garbage"` here); the client's own retries are inside
one call. A call costs a whole number up to a bound, possibly zero (a model
without a price). A cached file is written at once here; how it really is
written is `CacheFiles`. `LLM_DISABLED` returns before this code
and is not modelled. Results carry the request and the last reply as history,
so that the properties can ask where an answer came from.

| Property | Claim |
|---|---|
| `SpendBounded` | an invocation spends less than its ceiling plus one gate call and one classification |
| `AnswersAreEarned` | an answer is one the models gave to the very request it is used for, now or earlier; failures and exhausted budgets never come out of the cache; a failing gate rejects nothing |
| `BatchIsAnswered` | at the end every candidate has an answer and nothing else has |

### Ingestion

`JUnitParser` is `_parse_stream` as an event loop. `levels` is the list of cases
and the stack of open suites (`_SuiteFrame`), `inCase` is `case_depth`,
`children` the children of the open case. `StartSuite`, `EndSuite`, `Output`,
`StartCase`, `Child` and `EndCase` are the events; `EndDocument`, `ParseError`
and `Reject` are the ways a parse ends. `Read` is the loop of `_build_case`,
`Drained` the draining of open suites after a parse error. Attributes, names and
numbers are left out, and standard error, which is treated as standard output
is. `document` is history: the properties read it as a tree, without a stack.

| Property | Claim |
|---|---|
| `CompleteCasesSurvive` | wherever the file is cut, exactly the complete cases come out, in document order, with the outcome of their first failure; a parse without a warning was complete |
| `OutputIsNearest` | a case without output has that of the nearest suite that captured any, wherever in the suite it is declared, and never that of another case |

`AliasRules` is `detect_renames`. `Taken` are the tests that the rounds of
smaller distances paired or found contested, `Rivals` the pairs of a round that
compete. A distance is a number of which only the order matters; tests whose
parameters differ are farther apart than `MaxDistance`.

| Property | Claim |
|---|---|
| `AcceptedIsClosest` | the rounds implement a definition without rounds: a pair counts unless a closer one that counts shares a test, and is accepted unless an equal one does |

| Code | Model (`IngestStore`) |
|---|---|
| the files of an upload, one `(run_id, attempt, shard)` | `report[u]`, a sequence of cases; a repeated ingest has the same files |
| tables `runs`, `test_identities`, `executions`, `identity_aliases`, `diff_files`, `parse_warnings` | `runs`, `identities`, `executions[u]` (a function from tests to outcomes), `aliases[pair]`, `diffs`, `warnings[u]` |
| local variables of `ingest` and `reconcile_renames` | `pc`, `upload`, `cases`, `candidates`, per process |

`RecordRun`, `UpsertIdentity` (once per case), `RecordExecutions`, `Reconcile`
(the reads and the matching), `RecordAlias` (once per candidate, the closest
first), `RecordDiff` and `RecordWarnings` are the steps of `pipeline.ingest`, each
a transaction of its own; `Crash` may follow any. A transaction that finds the
database busy, or an identity that another process inserted after it looked,
ends the command too. The two reads of `reconcile_renames` are one step: the
first is of executions that only this upload has and that are all stored. A
test stands for its fingerprint and its identity row. `onTime` is history.

| Property | Claim |
|---|---|
| `ImplementsLog` | the executions refine `ObservationLog`: whoever ingests an upload and however often, it is observed at most once, as a whole, with the first case of each test, and is never changed |
| `AliasesRestOnHistory` | a stored rename is of two close tests, of which the new one ran in the run that showed it and the old one ran earlier and not in it |
| `OnTimeRenamesAreExact` | if all that started earlier was stored before an upload, its renames are those its files show, no more, and a completed ingest has stored all of them, whatever died before and whatever else is being ingested |
| `CertaintyIsKept` | a rename keeps its first run and is never downgraded, whatever configuration later commands run with |

`DiffParser` is `parse_unified_diff`. `current` is the `_FileAccumulator`, `hunk`
the `_HunkState`; the state of the patch that is being written (`format`,
`stage`, `due`, `at`, `written`) drives it: the actions `GitHeader`,
`ExtendedHeader`, `RenameTo`, `Binary`, `PlainFile`, `OldFile`, `NewFile`, `Hunk`
and `Body` each write the next line of a patch as git or `diff -u` would and
parse it (`ReadGitHeader`, `ReadMode`, ...), `EndOfPatch` ends it anywhere,
`NoPatch` is a patch that cannot be had. A line of a hunk's body is context,
added or removed, and may look like `--- ` or `+++ ` or begin with more of its
own signs. Quoting, prefixes and encodings are left out. A sorted list of ranges
(`SortedRanges`) puts each range after as many as come before it, and the loops
over it are recursive functions (`AddLine`, `AddRange`), so that they can be
proved about.

| Property | Claim |
|---|---|
| `FilesAreReported` | wherever a git patch is cut, each named file is reported once, in order, with its kind of change and old path; one without a name leaves a warning |
| `CleanFilesAreExact` | the changed lines of a complete file are exactly those of the patch, as maximal runs, unless a line of its own body looks like a header |

### Histories, metrics and reports

| Code (`detect_all`, `identity_group`, `executions_for_group`) | Model (`DetectionPass`) |
|---|---|
| tables `test_identities`, `executions`, `identity_aliases` and the open rows of `quarantines` | `identities`, `executions`, `aliases` with `uncertain`, `quarantined` |
| the identities to go through, `reported` | `asked`, `reported` |
| the frontier and the members of a traversal, `uncertain` | `frontier`, `seen`, `doubt`; the result is `group` |
| the executions read for each member | `unread`, `records` |
| the detections | `detections`, each with its `window` of executions |

A command is `Begin` (all identities, or for `triage --sha` those that failed at
the commit), then per identity `NextIdentity`, one `Visit` per query of
`identity_group`, `GroupFound`, the second traversal that
`executions_for_group` makes for itself, `ReadBegins`, one `ReadMember` per name,
and `Report`; then `EndPass` and `Apply`. Between any two, another process may
`UpsertIdentity`, `RecordExecution` or `RecordAlias`. `began` is history: what the
store held at `Begin`. A history is the set of its executions, their order that
of `Later`; each name is cut to `Limit` before the union is cut again, and then
to the lookback window (`Recent`).

| Property | Claim |
|---|---|
| `HistoriesAreWhole` | a history has every name the test had when the command began, and no name and no execution of anything that is not the same test by now |
| `EveryTestOnce` | no test is in two histories, and none that ran recently is lost |
| `DoubtIsSurfaced` | a merge over an inferred link from before the command says so |
| `QuietPassIsExact` | if nobody writes meanwhile a report is exactly what there is: all names, the newest as identity, the newest executions over all names, doubt if and only if a link is inferred |

A link that is recorded between the two traversals of one test is merged without
being flagged (`store/repositories.py:401`), so `DoubtIsSurfaced` speaks of the links
from before the command. The "newest" identity is the one with the largest id,
which is the most recently seen one only if uploads are stored in the order they
ran (`detect/detector.py:345`).

`Stats` has the tables `llmCalls`, `classified` and `ciRuns`; `RecordMetrics` stores an
invocation's rows in one transaction, `Ask`, `RunQuery` and `Show` are `stats`.
The time of the calls is taken before that of the classifications (`Stamps`), so
the beginning of the window can fall between those of one invocation; it is also
taken before the transaction has the database's lock, so a row can be older than
rows stored before it. Sums of tokens are left out, they are computed as those of
the cost are. A query's result is the set of
the places of the rows it counts (`Counted`), as a `WHERE` leaves it; `FirstOf` finds
again which rows an earlier count of them was about.

| Property | Claim |
|---|---|
| `CostHasItsAnswers` | a summary that counts a call's cost counts the classifications it paid for; without writes and with no invocation across the beginning of the window also the other way round |
| `SummaryAddsUp` | the tables of a summary add up to its totals, and the median splits the latencies |

`Reports` is `sort_for_report`, `summarize` and the renderers as far as what they
leave out and in which order (`Sorted` puts each detection after as many as
precede it). `NothingWorseIsHidden` says that
the comment shows the worst findings that fit (by the order of the verdicts, then
by flake rate) and counts the rest, that its headline absolves a change only if no
detection is a regression, that the other reports have all findings, and that
every report has the worst first. The count of uncertain merges in a summary is
left out: no row, limit or headline depends on it.

### The store and the cache on disk

`StoreSchema`: `link[p]` is the connection of a process, `reached[p]` the version
it read or brought about. `ReadVersion` is the read of `user_version`, `Migrate` the
script of one version (one transaction), `MigrateTwice` the script of a version
another process has run meanwhile, which fails at its first `CREATE TABLE`;
`FailToOpen` is a locked file or a death. Builds of different age (`Knows`) share
the store.

| Property | Claim |
|---|---|
| `SchemaIsWhole` | the version says exactly which tables there are, whoever migrates and dies |
| `OpenStoreIsUsable` | an opened store has the tables of the build that opened it |
| `EveryoneGetsIn` | whoever keeps trying opens the store, unless its build is too old |

`CacheFiles` is one key: `entry` and `temporary` are the contents of its two files,
`target[p]` the file a process has open, which follows a rename (POSIX). `Get`,
`Remove`, `KeepNothing`, `BeginPut`, `Write`, `Move` are `get` and `put` in system calls,
`Die` may follow any. The temporary file's name depends on the key only, so
two writers share it, and a longer answer under a shorter one leaves a torn
file.

| Property | Claim |
|---|---|
| `ImplementsAtomicCache` | readers see an atomic cache that holds an answer offered for the key, or nothing |
| `DamageTakesTwoWriters` | a process alone never leaves a damaged entry, wherever it dies |
| `DamageIsRepaired` | a damaged entry does not stay, if `triage` comes by again |

## Runs and bounds

| Run | Checks | Instance, and why it is enough |
|---|---|---|
| `detect` | the seven detector properties | every history of 5 rows over 4 commits and 2 branches, at most one of them on no known branch, or neither a plain pass nor a plain failure (none when the change may be related, which only takes a signal away); the window holds 4, so rows leave it, and a platform failure can push a row out of it; streaks of 1 and 2 and a floor of 2 observations are reached and missed, the threshold of 3/10 is a rate that occurs; commits are revisited in any order |
| `quarantine_race` | `TypeOK`, `AtMostOneOpen`, `ClosedIsFinal`, `ImplementsLifecycle`, `NoGraveyard` | two processes, one test, two executions (one commit that fails and passes makes it flaky), two rows (enough to quarantine again), a TTL of one day, fair scheduling |
| `quarantine_release` | `OpenedOnEvidence`, `ClosedForAReason` | one process, five kinds of execution, two causes of which one forbids quarantine, two clean runs needed, a `recent_outcomes` limit of two so that skips crowd outcomes out |
| `classifier` | `SpendBounded`, `BatchIsAnswered`, `AnswersAreEarned` | two kinds of instance: one process with a batch of up to three tests, a cap of two and a budget of three against calls of up to two and a gate of up to one, so that every place where the budget runs out is reached; and two processes with different gates and floors, every kind of reply and damaged files |
| `ingest` | `TypeOK`, `AliasesRestOnHistory`, `OnTimeRenamesAreExact`, `CertaintyIsKept`, `ImplementsLog` | two processes, three uploads of which two started at once, every assignment of four reports to them, four tests with two pairs close enough, two configurations; an upload is repeated any number of times |
| `reads` | the twelve properties of what is read | six worlds, one per component. Documents of up to six elements, suites two deep, four kinds of child, three kinds of suite output. Patches of two files and two hunks of three lines, in both formats, with lines that look like headers, cut anywhere. Every table of distances between three old and two new tests. Three names, two executions, two links and one write while a command runs. Two invocations of `triage` and two runs, of four kinds. Up to three detections of every verdict and two rates, two rows in the comment |
| `files` | `SchemaIsWhole`, `OpenStoreIsUsable`, `EveryoneGetsIn`, `ImplementsAtomicCache`, `DamageTakesTwoWriters`, `DamageIsRepaired` | two worlds: three openers of two builds and three versions; two writers with two answers |
| `quarantine_stale_release`, `quarantine_early_release`, `ingest_shards`, `diff_markers`, `renamed_quarantine` | one documented claim each, which the code does not meet | the smallest instance that shows it |

Bounds that are not in the code: `MaxRows` and `MaxOdd` in `MCDetect` (rows of a history, and
rows that are skipped, platform errors, re-run passes or on no known branch),
`MaxRuns` and `MaxRows` in `Quarantine`, `MaxDepth` and `MaxElements` in
`JUnitParser`, `MaxHunks` and `MaxSpan` in `DiffParser`, `MaxTests`, `MaxExecutions`,
`MaxAliases`, `MaxMeanwhile` and `MaxOpen` in `DetectionPass`, `MaxInvocations` and
`MaxClock` in `Stats`, `MaxFound` in `Reports`, `MaxWarnings` in `IngestStore` (at the
bound a repeated ingest stops before it stores its warnings again), the upper costs `GateCost` and
`CallCost`, and the finite sets. Processes and tests that share nothing but
the store interact in pairs at most, so two of them show every kind of
interleaving; and the properties of the quarantine rows, the detector, the classifier, ingestion, the histories, the
matching, the metrics' cost, the reports, the schema and the cache's files are proved for any number
(see [proofs](#proofs)), the bound on the writes under a command included. The reads and `MCDetect` stop when their
input ends or their bound is reached, so `reads`, `detect` and `diff_markers` do
not check for deadlock. The tests and processes of `Classifier` and the
processes of `IngestStore` are interchangeable, so their safety runs use
symmetry; `quarantine_race` and `files` check liveness and use none.

## Fairness

Three properties need it, `NoGraveyard`, `EveryoneGetsIn` and `DamageIsRepaired`. The code has no scheduler: a TTL takes effect when
some later `policy --apply` reaches `expire_overdue`. `Fairness` in `Quarantine`
states what the operator owes: days pass (weak fairness of `Tick`), the command
is started again and again (strong fairness of `Start`, because a process may be
busy now and then), an invocation that is not killed goes on, and if
invocations start for ever then some of them get as far as expiry. Nothing is
assumed of `ingest` or `triage`, and any invocation may be killed. The
repository's own workflow (`src/.github/workflows/self-triage.yml:106`) runs
`policy` without `--apply`, so a team has to schedule the applying command
itself; without it no quarantine ever ends.

`SchemaFairness` in `StoreSchema`: a failed command ends and is run again, and it
is not always locked out or killed just when it reads the version or runs a
script (strong fairness, because `FailToOpen` may win any single time). SQLite's
busy timeout and the retries of a CI job justify no more than that.

`CacheFairness` in `CacheFiles`: `triage` comes back to the same failure, which its
repetition in CI does, it finishes a write it has begun, and it does not die each
time it has found an entry unreadable (strong fairness of `Get` and `Remove`).

## Proofs

All theorems hold for any sets of tests, processes and kinds and for any
accepted configuration, under the named assumptions of the modules
(`DetectConfigAssumption`, `QuarantineConfigAssumption`, `BoundsAssumption`,
`ClassifierAssumption`, `InputsAssumption`, `IngestAssumption`, `PassAssumption`,
`SchemaAssumption`, `AnswersAssumption`, `HistoriesAssumption`, `AliasAssumption`,
`StatsAssumption`, `ReportsAssumption`, `JUnitAssumption`, `DiffAssumption`), which TLC evaluates in the runs of
those modules.

`QuarantineProofs`:

- `TypeCorrect`: `TypeOK`, one lemma per action that rewrites rows.
- `OneOpenQuarantine`: `AtMostOneOpen` is not inductive as it stands (two open
  rows are excluded, but not an old open row behind a closed one, after which
  an insert would make two). The invariant is `OnlyNewestOpen`: only the newest
  row of a test can be open. `RowsChange` says what a step can do to the rows
  of a test (update their states and days, or append one when none is open) and
  is used by the three theorems about rows.
- `ClosedForGood`: `ClosedIsFinal`, from `RowsChange`'s reasoning per action.
- `QuarantinedOnEvidence`: `OpenedOnEvidence`. The evidence travels:
  `EvidenceInv` is `FoundBacked` (what a process found was true of some prefix
  of the executions), `PlannedBacked` (so is what it planned) and `RowsBacked`
  (so is what it stored). `HistoryGrows` and `BackedStays` say that a prefix
  stays a prefix while executions are added.
- `AlwaysClosedForAReason`: `ClosedForAReason`. A row is closed in a later step
  than the one that decided it, and executions arrive between the two, so the
  property is not inductive: `ReasonInv` adds that whatever a process is about to
  close was earned by the executions of some moment (`ReleaseIsEarned`), and that
  what was once earned stays so while executions are added (`EarnedStays`).
  `ClosingStep` says that no step ends a row in any other way. The code counts
  backwards from the newest outcome, the property speaks of the executions in
  the order they ran; `RowsReverse` is the bridge.
- `StoreImplementsLifecycle`: `ImplementsLifecycle`. `Record` maps to `Open`,
  `Expire` and `Close` to `End`, `Tick` and the rest to stuttering;
  `OnlyNewestOpen` is what makes `Close` end a whole episode.

`ClassifierProofs`:

- `TypeCorrect`: `TypeOK` needs `Ready` to be inductive (a process that works on
  a test has one, and stores an answer it has), one lemma per action.
- `SpendIsBounded`: `SpendBounded`, from `SpendInv`: before a gate call and
  before a repair something is left of the budget; before the classification
  that follows a gate call only the gate's price can be gone too.
- `AnswersEarned` and `EveryCandidateAnswered`: `AnswersAreEarned` and
  `BatchIsAnswered`, from one invariant `AnswerInv`. Its parts depend on each
  other: the cache holds earned answers because what is stored is honest
  (`CacheEarned`, `Honest`), an answer stays honest because the current test is
  not among the hits (`Orderly`), and everyone is answered because a test leaves
  the batch only with an answer (`Covered`). `StepKinds` reduces the actions to
  six kinds of step as far as the batch goes, so that each part is proved once
  per kind. `OrderOfTests` (an order of a finite set lists each element once) is
  where the finiteness of `Tests` is used.

`IngestProofs`, for any uploads, start times, files, distances and processes:

- `Invariance`: the inductive invariant `IInv`. `TypeOK` says that rows refer to
  rows, which is not inductive without `Progress` (what is stored by the time a
  process reaches a stage). `Observations` says that of an upload either nothing
  is stored or everything, so that storing it again changes nothing
  (`StoredOnce`) and what a run did not execute it never will: that is why a
  rename found from an earlier read still holds when it is stored
  (`CandidatesRestOnHistory`, `HistoryStays`).
- `TypeCorrect`, `RenamesRestOnHistory`: parts of `IInv`.
- `StoreImplementsLog`: `RecordExecutions` maps to `Observe` or, when the upload
  is there, to a stutter; every other action to a stutter.
- `CertaintyKept`: `CertaintyIsKept`, from what `Upgraded` does to a row.
- `RenamesAreExact`: `OnTimeRenamesAreExact`, from a second invariant
  `OnTimeInv` on top of `IInv`: the history of an upload stored on time is and
  stays complete, what is found in it is what its files show
  (`CompleteHistoryIsExact`), and each such rename is stored or still a
  candidate of whoever is past the search (`NothingIsLost`).
- `FirstPosition`: a set of positions has a first one. It rests on the
  well-foundedness of the subsets of a finite set, and is what makes the stored
  outcome, that of the first case of a test, one of the file's. Of the matching
  itself the proofs use only `RenamesAreScored`.

`PassProofs`, for any identities, executions, links, limits and any number of
writes between two queries:

- `PassTyped`: `PassTypeOK`, which needs `Located` (the command is at a test it
  has met) so that the newest identity of a group exists.
- The invariant `PassInv` rests on one fact about the store, `WritesOnlyAdd`: no
  row and no link is ever taken away and no link becomes less certain. So what
  a traversal has walked stays walked: `FirstWalk` says that the links of
  every test it is done with, of those from before the command, lead to tests
  it has seen, `SecondWalk` that the second traversal follows at least the links
  there were when the first one ended (the witness is that set), which is why it
  cannot miss a member of the group. `Grouped` bounds the group from both sides,
  `Gathered` and `Histories` carry the bounds to what is read and reported.
- `HistoriesWhole`, `DoubtSurfaced`: parts of the invariant; the lower bound is
  `NamesAreLeast`, that the names of a test lie in every set no link leaves.
- `TestsOnce`: two histories cannot share a name because being a name is mutual
  (`NamesAreMutual`: the complement of a component is closed too), and none is
  lost because the latest execution of a set is always in its window
  (`LatestExists`, `RecentIsKept`, from the well-foundedness of the subsets of a
  finite set).
- `QuietPassExact`: a second invariant `Quiet` on top of it; `WritesShow` says that
  a write which changes anything leaves the store other than the command found
  it. `CutPerName` is the algorithm's point: cutting each name to its newest
  `Limit` executions before merging loses none of the newest `Limit` of all.

`DetectProofs`, for histories of any length over any commits, branches and attempts
and every configuration that `DetectConfig` accepts:

- All rest on the invariant `UpToDate`, that the rows are well-formed and newest
  first and the detection is that of these rows (a lemma, `DetectionIsCurrent`:
  it only says what `MCDetect` does). `GivenIsNewest` says which rows are in the
  window. The properties speak of
  raw rows, the detector of windows, statuses and streaks; almost all of the
  proof is the bridge between them.
- `InOrderLists`: each window is at its place, and no other is. It needs that
  `Earlier` is a total order (`EarlierIsAnOrder`), that the places are the numbers
  from one on (`PlacesFollowTime`), and that an injection between finite sets of
  one size is onto. `WindowSays` and `HistoryCounts` read rows off the windows,
  `StatusesAreRanked` says that the nth status is that of the commit before which
  n - 1 tested commits began.
- `DivergenceAlwaysWins`, `FlakyIsAlwaysBacked`, `CrossCommitEvidenceIsAlwaysWeak`:
  from `RawTerms` and `SignalsSay`, which state each signal in the terms of the
  raw rows.
- `RegressionIsAlwaysOneTransition`: `TrailingCountIs` and `StreakUpTo` say what the
  two counts from the end find, `RegressionIsTurn` that they find exactly one
  turn, `TransitionIsTurn` that a turn of the statuses is one of the commits.
- `SkipsNeverCarryEvidence`: a skip adds a window without data or a row to one,
  and neither changes a status (`SkipChangesNothing`).
- `RateNeverRisesOnClean`: a clean commit adds one status behind the others
  (`CleanCommitAddsStatus`), so one more zero is smoothed into the average
  (`EwmaAppend`), which does not raise it (`ZeroNeverRaises`). That `Ewma` has a
  value at all is `AveragesExist`, by the least length without one.
- `DivergenceRateIsAlwaysWeightedShare`: the property sums the weights of the
  commits that disagree with themselves, which is a recursion over a set; the
  detector averages a list of zeros and ones. The count of the average is a
  function of the set of ones that satisfies the same recursion: no ones count
  for nothing (`NoneWeighs`), and one more adds its weight (`OneMoreWeighs`), by the
  least length at which it would not. `AveragesAreOverPowers` has the denominator,
  `RanksAgree` ties the place of a commit in the raw rows to that of its window.
  `Power` is a recursive function because the provers know no exponents.

`ReadsProofs`:

- `AcceptedIsAlwaysClosest`, for any sets of tests and any table: `TakenByCloser`
  says that a test is out of the matching at some distance exactly if a closer
  pair that counts has it, so the pairs still live in their own round satisfy the
  property's definition (`CountingIsUnbeaten`), and nothing else does
  (`UnbeatenIsUnique`: at the least distance of a disagreement there is none).
- `CostAlwaysHasItsAnswers`, for any invocations and any number of writes between
  the queries: `Stored` says that a transaction's calls and results have its
  number and ordered stamps, `Read` how far into both tables the first and the
  third query saw. The property alone is not inductive, since a count is only a
  number; `CountedStays` and `FirstAreUpTo` turn it back into the rows it counted
  while the tables grow.
- `SummaryAlwaysAddsUp`, for the same: `Adds` says, query by query, which rows each
  field of the summary has counted, and that the fields agree exactly as long as
  no table has grown since `stats` began. A count by key adds up to the rows that
  have one (`TallyAddsUp`). For the median the latencies are listed once each, a
  later place holding no smaller one (`PlacesFollowLatency`, `LatenciesListed`), so
  the value at the rounded half has half of the calls on either side
  (`MedianSplits`, from `HalfIsRounded`, the arithmetic of `round` on halves).
- `NothingWorseIsEverHidden`, for any number of detections: `SortedLists`, by the
  same argument as `InOrderLists`, from the totality of the key of
  `sort_for_report` on different tests; `PrecedesIsAsBad` ties the key to the order
  of the verdicts and the rates that the property speaks of.

`FilesProofs`, for any processes, builds and migrations of a store:

- `SchemaStaysWhole`, `OpenStoresAreUsable` and `SchemaOnlyForward`, from
  `OpenersInv`: a process never believes in a newer version than there is, so the
  only script that does not fail is that of the next version (`MigrateIsNext`).

and for any writers and answers of a cache:

- `CacheTyped`: the type invariant of the files and of the local variables.
- `FilesImplementCache`: every whole text in a file was offered (`OfferedInv`);
  `Move` and `Write` map to `Put`, `Lose` or a stutter.
- `DamageNeedsTwo`: until two writers overlap, one alone has the temporary file
  to itself (`AloneInv`).

`ParserProofs`, for documents and patches of any size, cut anywhere:

- `CompleteCasesAlwaysSurvive`: the invariant is `ScopesInv`. The cases that wait
  in all open scopes together are the complete cases of the document so far,
  each with the outcome of its first failure, and they are `Stacked`: in order
  within a scope, and those of an outer scope before those of an inner one. That
  order is why the end of a suite (`EmittedKeeps`), which puts the cases of the
  inner scope behind those of the outer one, neither loses nor reorders any; a
  parse error is one such end after another, by the number of open suites
  (`DrainedKeeps`). `BuildCaseIs` says that reading the children one by one finds
  the first failure.
- `OutputIsAlwaysNearest`: the invariant is `NestingInv`, which adds to `ScopesInv`
  that no suite is closed that was not open (`Balanced`); that each scope but the
  first is that of an open suite, with its output so far (`Opened`); that a case
  which waits in scope `l` has the output of the innermost suite around it, of
  those from depth `l` on, that captured any, and has the suites that are still
  open further out around it (`Heard`); and that the suites from depth `l` on have
  ended (`Over`), so that no later element gives them output. A suite that ends
  gives its cases the output of the one suite by which their claim widens
  (`HearsSuite`, `EmittedHears`). How suites nest is counted over all elements
  before one; `AroundNext` and `DocumentKeeps` say how the count changes by one
  element, and that it does not change for the elements before. Once all scopes
  are in the list of cases, scope 1, no suite is left out (`NestingInvSuffices`).
- `FilesAreAlwaysReported`: the invariant is `PatchInv`. The list of changes has
  one entry for each named file before the last one (`Reported`), and what the
  parser has gathered of the last file is what its lines so far say: its name
  (`TracksName`), its kind of change and its old path (`TracksKind`). The places of
  the reports are counted, so the proof needs that the named files up to a place
  grow by one at most (`NamedNext`). The lemmas about single lines are stated for
  a line within a file (`Within`) and for the header of the next one.
- `CleanFilesAreAlwaysExact`: the invariant is `LinesInv`, on top of `PatchInv`. Of
  a last file in which nothing was misread one of three things is known
  (`TracksLines`): it has no hunk and no changed line; its last hunk has no body,
  so that its header alone says which lines it changes (`BareSide`); or the hunk
  has gathered lines of its body, and as long as lines are due its cursor is at
  the place in the file (`BodySide`). In all three, the lines that the patch has
  changed so far are those in the file's ranges with those of the hunk, which
  come behind them. `HunkStep` and `BodyStep` say that the header of a hunk and a
  line of its body keep this. They would not for a body of context only, which
  `_HunkState` cannot tell from a hunk without a body; the patches of the model
  have none, as `diff` writes none. A hunk that ends leaves its lines in the
  ranges (`CommitHolds`), which are merged when the file is reported (`LastExact`).
  That the merged ranges are the longest runs of these lines rests on the lemmas
  about sorted ranges (`SortedAlready`), about the two loops (`JoinsKeepLines`,
  `MergedLines`, `RangesHaveLines`) and about ranges that lie apart
  (`ApartLists`). The files before the last are already reported with their
  lines (`FormerExact`). A plain patch counts only if it has one file
  (`TracksPlain`).

Only model-checked are `NoGraveyard`, `EveryoneGetsIn` and `DamageIsRepaired`:
they are liveness under fairness, which the prover cannot reach. Every invariant
and every other action or temporal property of the passing runs is stated by a
theorem.

## Where the code and its documentation differ

Each has a run that shows it:

- `quarantine_stale_release`: `policy` lists a test as returned to blocking
  although another invocation had expired the row and `release` said so by
  returning `False` (`cli.py:481`).
- `quarantine_early_release`: the outcomes that release a test include those
  from before its quarantine; a test can be released by the invocation that
  quarantined it (`store/repositories.py:466`).
- `ingest_shards`: a test that runs in one shard is recorded as renamed to a new
  test in another shard of the same run, because what disappeared is decided
  per shard (`identity/reconcile.py:55`).

- `diff_markers`: inside a hunk a removed line that reads `-- ...` is taken for
  the name of a file, and a line whose text begins with its own sign is not
  counted, so that the lines after it are numbered wrongly (`ingest/diff.py:125`,
  `200`, `204`).
- `renamed_quarantine`: a test quarantined under its old name is quarantined again
  under the new one (`detect/detector.py:345`, `cli.py:468`).

Seen while modelling, without a run of their own:

- a path with a space is split wrongly by the `diff --git` line and stays wrong
  unless the file is renamed (`ingest/diff.py:28`); a plain patch of several
  files is read as one file (`:125`); a hunk that is cut after context uses its
  header's range on the new side.
- the percentile is not the nearest rank: the place is rounded half to even of
  the last place (`obs/metrics.py:381`).
- the policy asks the newest stored classification only: if `triage` later
  abstains on a test, the veto of an earlier classification (a cause that must
  not be quarantined) is gone (`store/repositories.py:481`). No document says
  otherwise, so no run expects otherwise.
- a model that answers `UNKNOWN` without abstaining is stored with the reason
  `none`, although the reason is "always recorded" (`classify/schema.py:225`, `ReasonFor`).
- `stats` may count the calls of an invocation outside its window and the
  classifications inside it, and may miss the cost of classifications stored
  between its queries, so the cost per classification can be understated
  (`obs/metrics.py:220`); it is never overstated.
- a merge over a link recorded between two traversals is not flagged
  (`store/repositories.py:401`, `src/ARCHITECTURE.md:133`).
- two processes that open a new store at once: one of them fails
  (`store/db.py:51`); it gets in when it is run again.

- the invocation that expires a quarantine, and says that the test needs "a
  decision rather than another TTL", gives it another TTL (`cli.py:457`, `580`).
- the budget is checked once for the gate's call and the classification
  (`classify/classifier.py:292`), the docstring promises one call over (`:208`);
  `SpendBounded` is what holds.
- a cached cause keeps the verdict of the confidence floor it was validated
  under (`classify/classifier.py:281`).
- after a crash between caching an answer and `record_metrics`, the next
  invocation stores the cause and no cost (`classify/classifier.py:311`).
- a repeated ingest is "a no-op" (`cli.py:162`) except for parse warnings, which
  it stores again (`store/repositories.py:509`).
- a failure without a message takes the message, type and trace of a later rerun
  in the same case (`ingest/junit.py:269`).
- `History.latest_failure` returns the oldest failing row of the newest failing
  commit, its docstring says the most recent (`detect/history.py:176-180`);
  only the evidence text depends on it.
- `executions_for_group` cuts the window before platform failures are dropped,
  so they take the place of real executions (`store/repositories.py:406`).
- a failing streak one commit short of `regression_fail_streak` falls through
  to historical instability and is called flaky (`detect/detector.py:108`,
  `src/ARCHITECTURE.md:164`).
- expiry runs before the release check, so a test that has already run cleanly
  often enough can be expired "with the test still unstable" (`cli.py:457`,
  `src/docs/adr/0004-quarantine-ttl.md:48`).

## What is not modelled

- Change footprint (`detect/footprint.py`), fingerprints and string distances
  (`identity/fingerprint.py`, `identity/similarity.py`), prompts, taxonomy, the
  wording of evidence and of reports: text. Where a decision depends on it the
  models have a Boolean (`unrelated`), a distance or a kind of reply instead.
- Ownership: lookups in CODEOWNERS and in `git blame` that decorate a
  recommendation and decide nothing.
- Pricing: a table; a call costs any value up to a bound.
- The model client's single retry without a temperature: it is inside one call.
- Configuration loading: the accepted ranges are the assumptions on the
  constants.
- The evaluation harness under `src/eval`: an offline measurement on a generated
  corpus, a quarter of the repository's lines, which nothing else calls.
- The CI action and the workflows: shell around the command line. The comment
  on a pull request is found and updated by calls to another service.
- Logging: set-up of logs that the program never reads.
- Floating point: rates are exact fractions here.

## Plan

In the order of importance; what is done is above.

1. `DetectionPass` composed with `Quarantine`, so that the release of a renamed
   test's quarantine can be stated.
2. The find-or-create of the pull-request comment under two workflows.
