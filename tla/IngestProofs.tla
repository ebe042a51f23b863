----------------------------- MODULE IngestProofs -----------------------------
(***************************************************************************)
(* What holds of ingestion for any uploads, files, tests and processes.    *)
(***************************************************************************)
EXTENDS IngestStore, FiniteSetTheorems, WellFoundedInduction, TLAPS

(***************************************************************************)
(* The inductive invariant: the types, the property to prove, and what     *)
(* each process has reached on its way through the command.                *)
(***************************************************************************)

\* Of an upload either nothing is stored or all of what its files hold.
Observations == \A u \in Uploads : executions[u] \in {NoExecutions, Observed(report[u])}

\* The stages at which the executions of the upload are stored.
Recorded == {"reconcile", "aliases", "warnings", "done"}

\* What is stored by the time a process reaches a stage.
Progress == \A p \in Procs :
    /\ pc[p] \notin {"idle", "run"} => upload[p] \in runs
    /\ pc[p] = "identities" => TestsOf(report[upload[p]]) \subseteq identities \cup TestsOf(cases[p])
    /\ pc[p] \in Recorded => executions[upload[p]] = Observed(report[upload[p]])
    /\ pc[p] # "aliases" => candidates[p] = {}

\* What a process found stays true until it stores it.
CandidatesRestOnHistory == \A p \in Procs : \A new \in candidates[p] :
    RestsOnHistory(new.pair, upload[p])

IInv ==
    /\ TypeOK
    /\ Observations
    /\ Progress
    /\ CandidatesRestOnHistory
    /\ AliasesRestOnHistory

-----------------------------------------------------------------------------
(***************************************************************************)
(* The operators: what the store keeps of the cases of an upload, and      *)
(* where the renames of a run come from.                                   *)
(***************************************************************************)

\* A set of positions in a sequence has a first one. (Subsets of a finite set
\* are well-founded: take the smallest of the sets "positions up to i".)
LEMMA FirstPosition ==
    ASSUME NEW n \in Nat, NEW S \in SUBSET (1 .. n), S # {}
    PROVE  \E i \in S : \A j \in S : i <= j
  <1> DEFINE UpTo(i) == {j \in S : j <= i}
             T == {UpTo(i) : i \in S}
  <1>1. IsFiniteSet(1 .. n)
    BY FS_Interval
  <1>2. T \subseteq SUBSET S /\ T # {}
    OBVIOUS
  <1>3. FiniteSubsetsOf(S) = SUBSET S
    <2>1. IsFiniteSet(S)
      BY <1>1, FS_Subset
    <2>2. QED
      BY <2>1, FS_FiniteSubsetsOfFinite
  <1>4. IsWellFoundedOn(StrictSubsetOrdering(S), SUBSET S)
    BY <1>3, FS_StrictSubsetOrderingWellFounded
  <1> HIDE DEF T
  <1>5. PICK x \in T : \A y \in T : ~(<<y, x>> \in StrictSubsetOrdering(S))
    BY <1>2, <1>4, WFMin
  <1>6. PICK i \in S : x = UpTo(i)
    BY <1>5 DEF T
  <1>7. ASSUME NEW j \in S, ~(i <= j) PROVE FALSE
    <2>1. UpTo(j) \in T
      BY DEF T
    <2>2. j < i /\ S \subseteq Nat
      BY <1>7
    <2>3. \A k \in S : k <= j => k <= i
      BY <2>2
    <2>4. UpTo(j) \subseteq UpTo(i)
      BY <2>3
    <2>5. i \in UpTo(i) /\ i \notin UpTo(j)
      BY <2>2
    <2>6. <<UpTo(j), x>> \in StrictSubsetOrdering(S)
      BY <1>6, <2>4, <2>5 DEF StrictSubsetOrdering
    <2>7. QED
      BY <1>5, <2>1, <2>6
  <1>8. QED
    BY <1>7

\* What the store keeps of some cases: an outcome for each of their tests.
LEMMA ObservedType ==
    ASSUME NEW rows \in Seq(Cases)
    PROVE  /\ TestsOf(rows) \subseteq Tests
           /\ Observed(rows) \in [TestsOf(rows) -> Outcomes]
           /\ DOMAIN Observed(rows) = TestsOf(rows)
  <1>1. /\ DOMAIN rows = 1 .. Len(rows) /\ Len(rows) \in Nat
        /\ \A i \in DOMAIN rows : rows[i].test \in Tests /\ rows[i].outcome \in Outcomes
    <2>1. /\ DOMAIN rows = 1 .. Len(rows) /\ Len(rows) \in Nat
          /\ \A i \in DOMAIN rows : rows[i] \in Cases
      OBVIOUS
    <2>2. QED
      BY <2>1 DEF Cases
  <1>2. TestsOf(rows) \subseteq Tests
    BY <1>1 DEF TestsOf
  <1>3. ASSUME NEW t \in TestsOf(rows) PROVE FirstOf(rows, t) \in DOMAIN rows
    <2> DEFINE S == {i \in DOMAIN rows : rows[i].test = t}
    <2>1. S \in SUBSET (1 .. Len(rows)) /\ S # {}
      BY <1>1 DEF TestsOf
    <2> HIDE DEF S
    <2>2. \E i \in S : \A j \in S : i <= j
      BY <1>1, <2>1, FirstPosition
    <2>3. \E i \in DOMAIN rows :
              /\ rows[i].test = t
              /\ \A j \in DOMAIN rows : rows[j].test = t => i <= j
      BY <2>2 DEF S
    <2>4. QED
      BY <2>3 DEF FirstOf
  <1>4. QED
    BY <1>1, <1>2, <1>3 DEF Observed

\* The tests of some cases are the test of the first and those of the rest.
LEMMA TestsOfTail ==
    ASSUME NEW rows \in Seq(Cases), rows # <<>>
    PROVE  /\ Head(rows).test \in Tests
           /\ Tail(rows) \in Seq(Cases)
           /\ TestsOf(rows) \subseteq {Head(rows).test} \cup TestsOf(Tail(rows))
  <1>1. /\ Head(rows) = rows[1] /\ Head(rows) \in Cases /\ Tail(rows) \in Seq(Cases)
        /\ Len(rows) \in Nat /\ Len(Tail(rows)) = Len(rows) - 1
        /\ DOMAIN rows = 1 .. Len(rows) /\ DOMAIN Tail(rows) = 1 .. Len(rows) - 1
    OBVIOUS
  <1>2. ASSUME NEW i \in DOMAIN rows, i # 1
        PROVE  i - 1 \in DOMAIN Tail(rows) /\ Tail(rows)[i - 1] = rows[i]
    BY <1>1, <1>2
  <1>3. QED
    BY <1>1, <1>2 DEF TestsOf, Cases

\* Storing an upload once more changes nothing, whichever of the two states
\* of Observations it finds.
LEMMA StoredOnce ==
    ASSUME NEW rows \in Seq(Cases), NEW old \in {NoExecutions, Observed(rows)}
    PROVE  Stored(old, rows) = Observed(rows)
  <1>1. DOMAIN old \cup TestsOf(rows) = TestsOf(rows) /\ DOMAIN NoExecutions = {}
    BY ObservedType DEF NoExecutions
  <1>2. \A t \in TestsOf(rows) :
            (IF t \in DOMAIN old THEN old[t] ELSE Observed(rows)[t]) = Observed(rows)[t]
    BY <1>1
  <1>3. QED
    BY <1>1, <1>2, ObservedType DEF Stored

\* A rename is of a test that disappeared to one that appeared, close to it.
LEMMA RenamesAreScored ==
    ASSUME NEW disappeared, NEW appeared,
           NEW pair \in DetectRenames(Distance, disappeared, appeared)
    PROVE  pair \in disappeared \X appeared /\ Distance[pair] <= MaxDistance
  BY DEF DetectRenames, Scored

-----------------------------------------------------------------------------
(***************************************************************************)
(* Each action preserves the invariant.                                    *)
(***************************************************************************)

\* The initial states satisfy it: nothing is stored and nobody is at work.
LEMMA InitInv == Init => IInv
  <1> SUFFICES ASSUME Init PROVE IInv
    OBVIOUS
  <1>1. NoExecutions \in Executions
    BY DEF NoExecutions, Executions
  <1>2. RowsRefer
    BY DEF Init, RowsRefer, Ran, NoExecutions
  <1>3. TypeOK
    BY <1>1, <1>2, IngestAssumption DEF Init, TypeOK, Stages
  <1>4. Observations /\ Progress /\ CandidatesRestOnHistory /\ AliasesRestOnHistory
    BY DEF Init, Observations, Progress, Recorded, CandidatesRestOnHistory, AliasesRestOnHistory
  <1>5. QED
    BY <1>3, <1>4 DEF IInv

\* The cases of an upload are a sequence of cases.
LEMMA ReportType ==
    ASSUME TypeOK, NEW u \in Uploads
    PROVE  report[u] \in Seq(Cases)
  BY IngestAssumption DEF TypeOK

\* The types of a rename that a process found.
LEMMA CandidateType ==
    ASSUME TypeOK, NEW p \in Procs, NEW new \in candidates[p]
    PROVE  /\ new \in [pair : Tests \X Tests, certain : BOOLEAN]
           /\ new.pair \in Tests \X Tests
           /\ new.certain \in BOOLEAN
  <1>1. candidates \in [Procs -> SUBSET [pair : Tests \X Tests, certain : BOOLEAN]]
    BY DEF TypeOK
  <1>2. new \in [pair : Tests \X Tests, certain : BOOLEAN]
    BY <1>1
  <1>3. QED
    BY <1>2

\* A process takes up an upload.
LEMMA StartInv ==
    ASSUME IInv, NEW p \in Procs, Start(p)
    PROVE  IInv'
  <1>1. PICK u \in Uploads : upload' = [upload EXCEPT ![p] = u]
    BY DEF Start
  <1>2. /\ pc' = [pc EXCEPT ![p] = "run"]
        /\ UNCHANGED <<report, store, cases, candidates, onTime>>
    BY DEF Start, GoTo
  <1>3. TypeOK'
    BY <1>1, <1>2, IngestAssumption DEF IInv, TypeOK, RowsRefer, Ran, Stages, store
  <1>4. Observations' /\ AliasesRestOnHistory'
    BY <1>2 DEF IInv, Observations, AliasesRestOnHistory, RestsOnHistory, Ran, store
  <1>5. candidates[p] = {}
    BY DEF IInv, Progress, Start
  <1>6. Progress'
    BY <1>1, <1>2, <1>5 DEF IInv, TypeOK, Progress, Recorded, store
  <1>7. CandidatesRestOnHistory'
    BY <1>1, <1>2, <1>5 DEF IInv, TypeOK, CandidatesRestOnHistory, RestsOnHistory, Ran, store
  <1>8. QED
    BY <1>3, <1>4, <1>6, <1>7 DEF IInv

\* It stores the run.
LEMMA RecordRunInv ==
    ASSUME IInv, NEW p \in Procs, RecordRun(p)
    PROVE  IInv'
  <1>1. /\ pc[p] = "run" /\ upload[p] \in Uploads /\ report[upload[p]] \in Seq(Cases)
        /\ runs' = runs \cup {upload[p]}
        /\ cases' = [cases EXCEPT ![p] = report[upload[p]]]
        /\ pc' = [pc EXCEPT ![p] = "identities"]
        /\ UNCHANGED <<report, identities, executions, aliases, diffs, warnings,
                       upload, candidates, onTime>>
    BY ReportType DEF IInv, TypeOK, RecordRun, GoTo
  <1>2. RowsRefer'
    BY <1>1 DEF IInv, TypeOK, RowsRefer, Ran
  <1>3. TypeOK'
    BY <1>1, <1>2 DEF IInv, TypeOK, Stages
  <1>4. Observations' /\ AliasesRestOnHistory' /\ CandidatesRestOnHistory'
    BY <1>1 DEF IInv, Observations, AliasesRestOnHistory, CandidatesRestOnHistory,
                RestsOnHistory, Ran
  <1>5. Progress'
    BY <1>1 DEF IInv, TypeOK, Progress, Recorded
  <1>6. QED
    BY <1>3, <1>4, <1>5 DEF IInv

\* It stores the identity of one case.
LEMMA UpsertIdentityInv ==
    ASSUME IInv, NEW p \in Procs, UpsertIdentity(p)
    PROVE  IInv'
  <1> DEFINE t == Head(cases[p]).test
  <1>1. /\ pc[p] = "identities" /\ cases[p] \in Seq(Cases) /\ cases[p] # <<>>
        /\ identities' = identities \cup {t}
        /\ cases' = [cases EXCEPT ![p] = Tail(cases[p])]
        /\ UNCHANGED <<report, runs, executions, aliases, diffs, warnings,
                       pc, upload, candidates, onTime>>
    BY DEF IInv, TypeOK, UpsertIdentity
  <1>2. /\ t \in Tests /\ Tail(cases[p]) \in Seq(Cases)
        /\ TestsOf(cases[p]) \subseteq {t} \cup TestsOf(Tail(cases[p]))
    BY <1>1, TestsOfTail
  <1> HIDE DEF t
  <1>3. RowsRefer'
    BY <1>1 DEF IInv, TypeOK, RowsRefer, Ran
  <1>4. TypeOK'
    BY <1>1, <1>2, <1>3 DEF IInv, TypeOK
  <1>5. Observations' /\ AliasesRestOnHistory' /\ CandidatesRestOnHistory'
    BY <1>1 DEF IInv, Observations, AliasesRestOnHistory, CandidatesRestOnHistory,
                RestsOnHistory, Ran
  <1>6. Progress'
    BY <1>1, <1>2 DEF IInv, TypeOK, Progress, Recorded
  <1>7. QED
    BY <1>4, <1>5, <1>6 DEF IInv

\* What storing executions does to the store: those of the upload are all
\* there, those of other uploads are as they were.
LEMMA RecordExecutionsStores ==
    ASSUME IInv, NEW p \in Procs, RecordExecutions(p)
    PROVE  /\ upload[p] \in Uploads
           /\ executions' = [executions EXCEPT ![upload[p]] = Observed(report[upload[p]])]
           /\ TestsOf(report[upload[p]]) \subseteq identities
           /\ \A u \in Uploads : Ran(u)' # Ran(u) =>
                  u = upload[p] /\ Ran(u) = {} /\ Ran(u)' = TestsOf(report[u])
  <1> DEFINE u == upload[p]
  <1>1. /\ u \in Uploads /\ report[u] \in Seq(Cases)
        /\ executions' = [executions EXCEPT ![u] = Stored(executions[u], report[u])]
        /\ pc[p] = "identities" /\ cases[p] = <<>>
    BY ReportType DEF IInv, TypeOK, RecordExecutions
  <1>2. executions[u] \in {NoExecutions, Observed(report[u])}
    BY <1>1 DEF IInv, Observations
  <1>3. Stored(executions[u], report[u]) = Observed(report[u])
    BY <1>1, <1>2, StoredOnce
  <1>4. TestsOf(cases[p]) = {}
    BY <1>1 DEF TestsOf
  <1>5. TestsOf(report[u]) \subseteq identities
    BY <1>1, <1>4 DEF IInv, Progress
  <1>6. executions \in [Uploads -> Executions]
    BY DEF IInv, TypeOK
  <1>7. DOMAIN NoExecutions = {} /\ DOMAIN Observed(report[u]) = TestsOf(report[u])
    BY <1>1, ObservedType DEF NoExecutions
  <1>8. QED
    BY <1>1, <1>2, <1>3, <1>5, <1>6, <1>7 DEF Ran

\* A rename that rests on history still does when more is observed: what an
\* upload ran is stored at once and does not grow.
LEMMA HistoryStays ==
    ASSUME IInv, NEW p \in Procs, RecordExecutions(p),
           NEW pair \in Tests \X Tests, NEW u \in Uploads, RestsOnHistory(pair, u)
    PROVE  RestsOnHistory(pair, u)'
  <1>1. \A v \in Uploads : Ran(v) # {} => Ran(v)' = Ran(v)
    BY RecordExecutionsStores
  <1>2. QED
    BY <1>1 DEF RestsOnHistory

\* It stores the executions of the upload.
LEMMA RecordExecutionsInv ==
    ASSUME IInv, NEW p \in Procs, RecordExecutions(p)
    PROVE  IInv'
  <1> DEFINE u == upload[p]
  <1>1. /\ pc[p] = "identities" /\ u \in Uploads /\ u \in runs /\ report[u] \in Seq(Cases)
        /\ pc' = [pc EXCEPT ![p] = "reconcile"]
        /\ UNCHANGED <<report, runs, identities, aliases, diffs, warnings,
                       upload, cases, candidates>>
    BY ReportType DEF IInv, TypeOK, Progress, RecordExecutions, GoTo
  <1>2. /\ executions' = [executions EXCEPT ![u] = Observed(report[u])]
        /\ TestsOf(report[u]) \subseteq identities
        /\ \A v \in Uploads : Ran(v)' # Ran(v) => v = u /\ Ran(v)' = TestsOf(report[v])
    BY RecordExecutionsStores
  <1>3. onTime' \subseteq Uploads
    BY <1>1 DEF IInv, TypeOK, RecordExecutions
  <1>4. Observed(report[u]) \in Executions
    BY <1>1, ObservedType DEF Executions
  <1>5. RowsRefer'
    BY <1>1, <1>2 DEF IInv, TypeOK, RowsRefer
  <1>6. TypeOK'
    BY <1>1, <1>2, <1>3, <1>4, <1>5 DEF IInv, TypeOK, Stages
  <1>7. Observations'
    BY <1>1, <1>2 DEF IInv, TypeOK, Observations
  <1>8. Progress'
    BY <1>1, <1>2 DEF IInv, TypeOK, Progress, Recorded
  <1>9. CandidatesRestOnHistory'
    <2> SUFFICES ASSUME NEW q \in Procs, NEW new \in candidates[q]
                 PROVE  RestsOnHistory(new.pair, upload[q])'
      BY <1>1 DEF CandidatesRestOnHistory
    <2>1. pc[q] = "aliases" /\ upload[q] \in Uploads
      BY DEF IInv, Progress, TypeOK
    <2>2. new.pair \in Tests \X Tests
      BY CandidateType DEF IInv
    <2>3. RestsOnHistory(new.pair, upload[q])
      BY DEF IInv, CandidatesRestOnHistory
    <2>4. \A v \in Uploads : RestsOnHistory(new.pair, v) => RestsOnHistory(new.pair, v)'
      BY <2>2, HistoryStays
    <2>5. QED
      BY <1>1, <2>1, <2>3, <2>4 DEF RestsOnHistory, Ran
  <1>10. AliasesRestOnHistory'
    <2> SUFFICES ASSUME NEW pair \in Tests \X Tests, aliases[pair] # NoAlias
                 PROVE  RestsOnHistory(pair, aliases[pair].run)'
      BY <1>1 DEF AliasesRestOnHistory
    <2>1. aliases[pair].run \in Uploads /\ RestsOnHistory(pair, aliases[pair].run)
      BY DEF IInv, TypeOK, AliasesRestOnHistory
    <2>2. \A v \in Uploads : RestsOnHistory(pair, v) => RestsOnHistory(pair, v)'
      BY HistoryStays
    <2>3. QED
      BY <1>1, <2>1, <2>2 DEF RestsOnHistory, Ran
  <1>11. QED
    BY <1>6, <1>7, <1>8, <1>9, <1>10 DEF IInv

\* It looks for renames: those it finds rest on what is stored.
LEMMA ReconcileInv ==
    ASSUME IInv, NEW p \in Procs, Reconcile(p)
    PROVE  IInv'
  <1> DEFINE u == upload[p]
             found == DetectRenames(Distance, Before(u) \ Ran(u), Ran(u) \ Before(u))
  <1>1. /\ pc[p] = "reconcile" /\ u \in Uploads
        /\ pc' = [pc EXCEPT ![p] = "aliases"]
        /\ UNCHANGED <<report, store, upload, cases, onTime>>
    BY DEF IInv, TypeOK, Reconcile, GoTo
  <1>2. PICK d \in CertainDistances :
            candidates' = [candidates EXCEPT ![p] =
                {[pair |-> pair, certain |-> Distance[pair] <= d] : pair \in found}]
    BY DEF Reconcile
  <1>3. /\ found \subseteq Before(u) \X Ran(u)
        /\ \A pair \in found : pair[1] \notin Ran(u) /\ Distance[pair] <= MaxDistance
    BY RenamesAreScored
  <1>4. \A v \in Uploads : Ran(v) \subseteq Tests
    BY DEF IInv, TypeOK, Executions, Ran
  <1>5. found \subseteq Tests \X Tests
    BY <1>1, <1>3, <1>4 DEF Before
  <1>6. \A pair \in found : RestsOnHistory(pair, u)
    BY <1>3 DEF RestsOnHistory, Before
  <1> HIDE DEF found
  <1>7. /\ candidates' \in [Procs -> SUBSET [pair : Tests \X Tests, certain : BOOLEAN]]
        /\ \A q \in Procs : q # p => candidates'[q] = candidates[q]
        /\ \A new \in candidates'[p] : new.pair \in found
    <2> DEFINE New == {[pair |-> pair, certain |-> Distance[pair] <= d] : pair \in found}
    <2>1. New \in SUBSET [pair : Tests \X Tests, certain : BOOLEAN]
      <3>1. ASSUME NEW pair \in found
            PROVE  [pair |-> pair, certain |-> Distance[pair] <= d]
                       \in [pair : Tests \X Tests, certain : BOOLEAN]
        <4>1. pair \in Tests \X Tests /\ Distance[pair] \in Nat /\ d \in Nat
          BY <1>5, IngestAssumption
        <4>2. (Distance[pair] <= d) \in BOOLEAN
          BY <4>1
        <4>3. QED
          BY <4>1, <4>2
      <3>2. QED
        BY <3>1
    <2>2. \A new \in New : new.pair \in found
      OBVIOUS
    <2> HIDE DEF New
    <2>3. candidates' = [candidates EXCEPT ![p] = New]
      BY <1>2 DEF New
    <2>4. QED
      BY <2>1, <2>2, <2>3 DEF IInv, TypeOK
  <1>8. TypeOK'
    BY <1>1, <1>7 DEF IInv, TypeOK, RowsRefer, Ran, Stages, store
  <1>9. Observations' /\ AliasesRestOnHistory'
    BY <1>1 DEF IInv, Observations, AliasesRestOnHistory, RestsOnHistory, Ran, store
  <1>10. Progress'
    BY <1>1, <1>7 DEF IInv, TypeOK, Progress, Recorded, store
  <1>11. CandidatesRestOnHistory'
    BY <1>1, <1>6, <1>7 DEF IInv, CandidatesRestOnHistory, RestsOnHistory, Ran, store
  <1>12. QED
    BY <1>8, <1>9, <1>10, <1>11 DEF IInv

\* What storing one rename does to the table of renames.
LEMMA RecordAliasStores ==
    ASSUME IInv, NEW p \in Procs, RecordAlias(p)
    PROVE  \E new \in candidates[p] :
               /\ new.pair \in Tests \X Tests /\ new.certain \in BOOLEAN
               /\ upload[p] \in Uploads
               /\ aliases' = [aliases EXCEPT
                      ![new.pair] = Upgraded(aliases[new.pair], upload[p], new.certain)]
               /\ candidates' = [candidates EXCEPT ![p] = candidates[p] \ {new}]
  <1>1. PICK new \in candidates[p] :
            /\ aliases' = [aliases EXCEPT
                   ![new.pair] = Upgraded(aliases[new.pair], upload[p], new.certain)]
            /\ candidates' = [candidates EXCEPT ![p] = candidates[p] \ {new}]
    BY DEF RecordAlias
  <1>2. new.pair \in Tests \X Tests /\ new.certain \in BOOLEAN
    BY CandidateType DEF IInv
  <1>3. upload[p] \in Uploads
    BY DEF IInv, TypeOK, RecordAlias
  <1>4. QED
    BY <1>1, <1>2, <1>3

\* The row of a rename after one more observation of it.
LEMMA UpgradedType ==
    ASSUME NEW alias \in {NoAlias} \cup [run : Uploads, certain : BOOLEAN],
           NEW u \in Uploads, NEW certain \in BOOLEAN
    PROVE  /\ Upgraded(alias, u, certain) \in [run : Uploads, certain : BOOLEAN]
           /\ Upgraded(alias, u, certain) # NoAlias
           /\ alias = NoAlias => Upgraded(alias, u, certain).run = u
           /\ alias # NoAlias =>
                  /\ Upgraded(alias, u, certain).run = alias.run
                  /\ alias.certain => Upgraded(alias, u, certain).certain
  <1>1. CASE alias = NoAlias
    BY <1>1, IngestAssumption DEF Upgraded, NoAlias
  <1>2. CASE alias # NoAlias
    <2>1. alias \in [run : Uploads, certain : BOOLEAN]
      BY <1>2
    <2>2. (alias.certain \/ certain) \in BOOLEAN
      OBVIOUS
    <2>3. Upgraded(alias, u, certain) = [alias EXCEPT !.certain = alias.certain \/ certain]
      BY <1>2 DEF Upgraded
    <2>4. /\ Upgraded(alias, u, certain) \in [run : Uploads, certain : BOOLEAN]
          /\ Upgraded(alias, u, certain).run = alias.run
          /\ Upgraded(alias, u, certain).certain = (alias.certain \/ certain)
      BY <2>1, <2>2, <2>3
    <2>5. NoAlias.run = None /\ Upgraded(alias, u, certain).run # None
      BY <2>4, IngestAssumption DEF NoAlias
    <2>6. QED
      BY <1>2, <2>4, <2>5
  <1>3. QED
    BY <1>1, <1>2

\* It stores one rename.
LEMMA RecordAliasInv ==
    ASSUME IInv, NEW p \in Procs, RecordAlias(p)
    PROVE  IInv'
  <1> DEFINE u == upload[p]
  <1>1. PICK new \in candidates[p] :
            /\ new.pair \in Tests \X Tests /\ new.certain \in BOOLEAN /\ u \in Uploads
            /\ aliases' = [aliases EXCEPT ![new.pair] = Upgraded(aliases[new.pair], u, new.certain)]
            /\ candidates' = [candidates EXCEPT ![p] = candidates[p] \ {new}]
    BY RecordAliasStores
  <1>2. /\ pc[p] = "aliases"
        /\ UNCHANGED <<report, runs, identities, executions, diffs, warnings,
                       pc, upload, cases, onTime>>
    BY DEF RecordAlias
  <1> DEFINE pair == new.pair
             row == Upgraded(aliases[pair], u, new.certain)
  <1> HIDE DEF row
  <1>3. /\ row \in [run : Uploads, certain : BOOLEAN] /\ row # NoAlias
        /\ aliases[pair] = NoAlias => row.run = u
        /\ aliases[pair] # NoAlias => row.run = aliases[pair].run
    <2>1. aliases[pair] \in {NoAlias} \cup [run : Uploads, certain : BOOLEAN]
      BY <1>1 DEF IInv, TypeOK
    <2>2. QED
      BY <1>1, <2>1, UpgradedType DEF row
  <1>4. /\ aliases' \in [Tests \X Tests -> {NoAlias} \cup [run : Uploads, certain : BOOLEAN]]
        /\ aliases'[pair] = row
        /\ \A other \in Tests \X Tests : other # pair => aliases'[other] = aliases[other]
    BY <1>1, <1>3 DEF IInv, TypeOK, row
  <1>5. /\ candidates' \in [Procs -> SUBSET [pair : Tests \X Tests, certain : BOOLEAN]]
        /\ \A q \in Procs : candidates'[q] \subseteq candidates[q]
    BY <1>1 DEF IInv, TypeOK
  <1>6. RestsOnHistory(pair, u)
    BY <1>1 DEF IInv, CandidatesRestOnHistory
  <1>7. Ends(pair) \subseteq identities /\ u \in runs
    BY <1>1, <1>2, <1>6 DEF IInv, TypeOK, RowsRefer, RestsOnHistory, Ends, Progress
  <1>8. RowsRefer'
    <2>1. \A other \in Tests \X Tests : aliases'[other] # NoAlias =>
              Ends(other) \subseteq identities /\ aliases'[other].run \in runs
      BY <1>1, <1>3, <1>4, <1>7 DEF IInv, TypeOK, RowsRefer
    <2>2. QED
      BY <1>2, <2>1 DEF IInv, TypeOK, RowsRefer, Ran
  <1>9. TypeOK'
    BY <1>2, <1>4, <1>5, <1>8 DEF IInv, TypeOK
  <1>10. Observations' /\ Progress'
    BY <1>2, <1>5 DEF IInv, Observations, Progress
  <1>11. CandidatesRestOnHistory'
    BY <1>2, <1>5 DEF IInv, CandidatesRestOnHistory, RestsOnHistory, Ran
  <1>12. AliasesRestOnHistory'
    <2>1. \A other \in Tests \X Tests : aliases'[other] # NoAlias =>
              RestsOnHistory(other, aliases'[other].run)
      BY <1>3, <1>4, <1>6 DEF IInv, AliasesRestOnHistory
    <2>2. QED
      BY <1>2, <2>1 DEF AliasesRestOnHistory, RestsOnHistory, Ran
  <1>13. QED
    BY <1>9, <1>10, <1>11, <1>12 DEF IInv

\* It stores the diff of the upload.
LEMMA RecordDiffInv ==
    ASSUME IInv, NEW p \in Procs, RecordDiff(p)
    PROVE  IInv'
  <1>1. /\ pc[p] = "aliases" /\ candidates[p] = {} /\ upload[p] \in Uploads
        /\ upload[p] \in runs
        /\ diffs' = diffs \cup ({upload[p]} \cap WithDiff)
        /\ pc' = [pc EXCEPT ![p] = "warnings"]
        /\ UNCHANGED <<report, runs, identities, executions, aliases, warnings,
                       upload, cases, candidates, onTime>>
    BY DEF IInv, TypeOK, Progress, RecordDiff, GoTo
  <1>2. TypeOK'
    BY <1>1 DEF IInv, TypeOK, RowsRefer, Ran, Stages
  <1>3. Observations' /\ CandidatesRestOnHistory' /\ AliasesRestOnHistory'
    BY <1>1 DEF IInv, Observations, CandidatesRestOnHistory, AliasesRestOnHistory,
                RestsOnHistory, Ran
  <1>4. Progress'
    BY <1>1 DEF IInv, TypeOK, Progress, Recorded
  <1>5. QED
    BY <1>2, <1>3, <1>4 DEF IInv

\* It stores the warnings of the upload.
LEMMA RecordWarningsInv ==
    ASSUME IInv, NEW p \in Procs, RecordWarnings(p)
    PROVE  IInv'
  <1>1. /\ pc[p] = "warnings" /\ upload[p] \in Uploads
        /\ pc' = [pc EXCEPT ![p] = "done"]
        /\ UNCHANGED <<report, runs, identities, executions, aliases, diffs,
                       upload, cases, candidates, onTime>>
    BY DEF IInv, TypeOK, RecordWarnings, GoTo
  <1>2. warnings' \in [Uploads -> 0 .. MaxWarnings]
    <2>1. CASE upload[p] \in Incomplete
      BY <1>1, <2>1, IngestAssumption DEF IInv, TypeOK, RecordWarnings
    <2>2. CASE upload[p] \notin Incomplete
      BY <2>2 DEF IInv, TypeOK, RecordWarnings
    <2>3. QED
      BY <2>1, <2>2
  <1>3. TypeOK'
    BY <1>1, <1>2 DEF IInv, TypeOK, RowsRefer, Ran, Stages
  <1>4. Observations' /\ CandidatesRestOnHistory' /\ AliasesRestOnHistory'
    BY <1>1 DEF IInv, Observations, CandidatesRestOnHistory, AliasesRestOnHistory,
                RestsOnHistory, Ran
  <1>5. Progress'
    BY <1>1 DEF IInv, TypeOK, Progress, Recorded
  <1>6. QED
    BY <1>3, <1>4, <1>5 DEF IInv

\* It ends, or dies.
LEMMA LeaveInv ==
    ASSUME IInv, NEW p \in Procs, Leave(p)
    PROVE  IInv'
  <1>1. /\ pc' = [pc EXCEPT ![p] = "idle"]
        /\ upload' = [upload EXCEPT ![p] = None]
        /\ cases' = [cases EXCEPT ![p] = <<>>]
        /\ candidates' = [candidates EXCEPT ![p] = {}]
        /\ UNCHANGED <<report, store, onTime>>
    BY DEF Leave, GoTo
  <1>2. TypeOK'
    <2>1. /\ pc' \in [Procs -> Stages]
          /\ upload' \in [Procs -> Uploads \cup {None}]
          /\ \A q \in Procs : upload'[q] = None <=> pc'[q] = "idle"
      BY <1>1 DEF IInv, TypeOK, Stages
    <2>2. /\ cases' \in [Procs -> Seq(Cases)]
          /\ candidates' \in [Procs -> SUBSET [pair : Tests \X Tests, certain : BOOLEAN]]
      <3>1. <<>> \in Seq(Cases)
        OBVIOUS
      <3>2. cases \in [Procs -> Seq(Cases)]
        BY DEF IInv, TypeOK
      <3>3. candidates \in [Procs -> SUBSET [pair : Tests \X Tests, certain : BOOLEAN]]
        BY DEF IInv, TypeOK
      <3>4. QED
        BY <1>1, <3>1, <3>2, <3>3
    <2>3. RowsRefer'
      BY <1>1 DEF IInv, TypeOK, RowsRefer, Ran, store
    <2>4. QED
      BY <1>1, <2>1, <2>2, <2>3 DEF IInv, TypeOK, store
  <1>3. Observations' /\ AliasesRestOnHistory'
    BY <1>1 DEF IInv, Observations, AliasesRestOnHistory, RestsOnHistory, Ran, store
  <1>4. Progress'
    BY <1>1 DEF IInv, TypeOK, Progress, Recorded, store
  <1>5. CandidatesRestOnHistory'
    BY <1>1 DEF IInv, TypeOK, CandidatesRestOnHistory, RestsOnHistory, Ran, store
  <1>6. QED
    BY <1>2, <1>3, <1>4, <1>5 DEF IInv

\* Nothing happens.
LEMMA StutterInv ==
    ASSUME IInv, UNCHANGED vars
    PROVE  IInv'
  <1>1. TypeOK'
    BY DEF IInv, TypeOK, RowsRefer, Ran, vars, store, local
  <1>2. Observations' /\ Progress'
    BY DEF IInv, Observations, Progress, vars, store, local
  <1>3. CandidatesRestOnHistory' /\ AliasesRestOnHistory'
    BY DEF IInv, CandidatesRestOnHistory, AliasesRestOnHistory, RestsOnHistory, Ran,
           vars, store, local
  <1>4. QED
    BY <1>1, <1>2, <1>3 DEF IInv

\* Every step preserves the invariant, one case per action.
LEMMA NextInv == IInv /\ [Next]_vars => IInv'
  <1> SUFFICES ASSUME IInv, [Next]_vars PROVE IInv'
    OBVIOUS
  <1>1. CASE UNCHANGED vars
    BY <1>1, StutterInv
  <1>2. ASSUME NEW p \in Procs,
               \/ Start(p) \/ RecordRun(p) \/ UpsertIdentity(p) \/ RecordExecutions(p)
               \/ Reconcile(p) \/ RecordAlias(p) \/ RecordDiff(p) \/ RecordWarnings(p)
               \/ Finish(p) \/ Crash(p)
        PROVE  IInv'
    <2>1. CASE Start(p) \/ RecordRun(p) \/ UpsertIdentity(p)
      BY <2>1, StartInv, RecordRunInv, UpsertIdentityInv
    <2>2. CASE RecordExecutions(p) \/ Reconcile(p)
      BY <2>2, RecordExecutionsInv, ReconcileInv
    <2>3. CASE RecordAlias(p) \/ RecordDiff(p) \/ RecordWarnings(p)
      BY <2>3, RecordAliasInv, RecordDiffInv, RecordWarningsInv
    <2>4. CASE Finish(p) \/ Crash(p)
      BY <2>4, LeaveInv DEF Finish, Crash
    <2>5. QED
      BY <1>2, <2>1, <2>2, <2>3, <2>4
  <1>3. QED
    BY <1>1, <1>2 DEF Next

\* The invariant holds in every state.
THEOREM Invariance == Spec => []IInv
  BY InitInv, NextInv, PTL DEF Spec

-----------------------------------------------------------------------------
(***************************************************************************)
(* What follows from the invariant.                                        *)
(***************************************************************************)

\* TypeOK in every state (store/repositories.py): with it, no execution and
\* no rename of a test or a run that has no row.
THEOREM TypeCorrect == Spec => []TypeOK
  BY Invariance, PTL DEF IInv

\* AliasesRestOnHistory in every state (reconcile_renames, record_alias): no
\* stale read, crash or late upload leaves a rename without its executions.
THEOREM RenamesRestOnHistory == Spec => []AliasesRestOnHistory
  BY Invariance, PTL DEF IInv

\* Only record_executions changes executions, and nothing changes the files.
LEMMA ExecutionsFrame ==
    ASSUME NEW p \in Procs,
           \/ Start(p) \/ RecordRun(p) \/ UpsertIdentity(p) \/ Reconcile(p)
           \/ RecordAlias(p) \/ RecordDiff(p) \/ RecordWarnings(p) \/ Finish(p) \/ Crash(p)
    PROVE  UNCHANGED <<report, executions, onTime>>
  BY DEF Start, RecordRun, UpsertIdentity, Reconcile, RecordAlias, RecordDiff, RecordWarnings,
         Finish, Crash, Leave, store

\* Storing the executions of an upload observes it, or changes nothing.
LEMMA RecordExecutionsObserves ==
    ASSUME IInv, NEW p \in Procs, RecordExecutions(p)
    PROVE  [Log!Next]_(<<[u \in Uploads |-> Observed(report[u])], executions>>)
  <1> DEFINE u == upload[p]
             content == [v \in Uploads |-> Observed(report[v])]
  <1>1. /\ u \in Uploads
        /\ executions' = [executions EXCEPT ![u] = Observed(report[u])]
    BY RecordExecutionsStores
  <1>2. content' = content
    BY DEF RecordExecutions
  <1>3. executions[u] \in {NoExecutions, Observed(report[u])}
    BY <1>1 DEF IInv, Observations
  <1>4. executions \in [Uploads -> Executions]
    BY DEF IInv, TypeOK
  <1>5. CASE executions[u] = Observed(report[u])
    BY <1>1, <1>2, <1>4, <1>5
  <1>6. CASE executions[u] = NoExecutions
    <2>1. executions[u] = Log!Nothing
      BY <1>6 DEF NoExecutions, Log!Nothing
    <2>2. executions' = [executions EXCEPT ![u] = content[u]]
      BY <1>1
    <2>3. Log!Observe(u)
      BY <1>2, <2>1, <2>2 DEF Log!Observe
    <2>4. QED
      BY <1>1, <2>3 DEF Log!Next
  <1>7. QED
    BY <1>3, <1>5, <1>6

\* Ingestion implements the log of observations (ARCHITECTURE.md:151): each
\* upload is observed at most once and as a whole, whatever ingests it again
\* and wherever an ingest dies.
THEOREM StoreImplementsLog == Spec => ImplementsLog
  <1> DEFINE content == [u \in Uploads |-> Observed(report[u])]
  <1>1. Init => Log!Init
    <2> SUFFICES ASSUME Init PROVE Log!Init
      OBVIOUS
    <2>1. content \in [Uploads -> {Observed(rows) : rows \in Reports}]
      BY DEF Init
    <2>2. executions = [u \in Uploads |-> Log!Nothing]
      BY DEF Init, NoExecutions, Log!Nothing
    <2>3. QED
      BY <2>1, <2>2 DEF Log!Init
  <1>2. IInv /\ [Next]_vars => [Log!Next]_(<<content, executions>>)
    <2> SUFFICES ASSUME IInv, [Next]_vars
                 PROVE  [Log!Next]_(<<content, executions>>)
      OBVIOUS
    <2>1. CASE UNCHANGED vars
      BY <2>1 DEF vars, store
    <2>2. ASSUME NEW p \in Procs,
                 \/ Start(p) \/ RecordRun(p) \/ UpsertIdentity(p) \/ Reconcile(p)
                 \/ RecordAlias(p) \/ RecordDiff(p) \/ RecordWarnings(p) \/ Finish(p) \/ Crash(p)
          PROVE  UNCHANGED <<content, executions>>
      BY <2>2, ExecutionsFrame
    <2>3. ASSUME NEW p \in Procs, RecordExecutions(p)
          PROVE  [Log!Next]_(<<content, executions>>)
      BY <2>3, RecordExecutionsObserves
    <2>4. QED
      BY <2>1, <2>2, <2>3 DEF Next
  <1>3. QED
    BY <1>1, <1>2, Invariance, PTL DEF Spec, ImplementsLog, Log!Spec

\* A step keeps the run and the certainty of a stored rename.
KeepsCertainty == \A pair \in Tests \X Tests : aliases[pair] # NoAlias =>
    /\ aliases'[pair].run = aliases[pair].run
    /\ aliases[pair].certain => aliases'[pair].certain

\* CertaintyIsKept (record_alias): "never downgraded", for any interleaving of
\* ingests with different configurations.
THEOREM CertaintyKept == Spec => CertaintyIsKept
  <1>1. IInv /\ [Next]_vars => [KeepsCertainty]_vars
    <2> SUFFICES ASSUME IInv, Next PROVE KeepsCertainty
      OBVIOUS
    <2>1. ASSUME NEW p \in Procs, RecordAlias(p) PROVE KeepsCertainty
      <3>1. PICK new \in candidates[p] :
                /\ new.pair \in Tests \X Tests /\ new.certain \in BOOLEAN
                /\ upload[p] \in Uploads
                /\ aliases' = [aliases EXCEPT
                       ![new.pair] = Upgraded(aliases[new.pair], upload[p], new.certain)]
        BY <2>1, RecordAliasStores
      <3> SUFFICES ASSUME NEW pair \in Tests \X Tests, aliases[pair] # NoAlias
                   PROVE  /\ aliases'[pair].run = aliases[pair].run
                          /\ aliases[pair].certain => aliases'[pair].certain
        BY DEF KeepsCertainty
      <3>2. /\ aliases \in [Tests \X Tests -> {NoAlias} \cup [run : Uploads, certain : BOOLEAN]]
            /\ aliases[pair] \in {NoAlias} \cup [run : Uploads, certain : BOOLEAN]
        BY DEF IInv, TypeOK
      <3>3. CASE pair = new.pair
        <4>1. aliases'[pair] = Upgraded(aliases[pair], upload[p], new.certain)
          BY <3>1, <3>2, <3>3
        <4>2. QED
          BY <3>1, <3>2, <4>1, UpgradedType
      <3>4. CASE pair # new.pair
        BY <3>1, <3>2, <3>4
      <3>5. QED
        BY <3>3, <3>4
    <2>2. ASSUME UNCHANGED aliases PROVE KeepsCertainty
      BY <2>2 DEF KeepsCertainty
    <2>3. ASSUME NEW p \in Procs,
                 \/ Start(p) \/ RecordRun(p) \/ UpsertIdentity(p) \/ RecordExecutions(p)
                 \/ Reconcile(p) \/ RecordDiff(p) \/ RecordWarnings(p) \/ Finish(p) \/ Crash(p)
          PROVE  UNCHANGED aliases
      BY <2>3 DEF Start, RecordRun, UpsertIdentity, RecordExecutions, Reconcile, RecordDiff,
                  RecordWarnings, Finish, Crash, Leave, store
    <2>4. QED
      BY <2>1, <2>2, <2>3 DEF Next
  <1>2. QED
    BY <1>1, Invariance, PTL DEF Spec, CertaintyIsKept, KeepsCertainty

-----------------------------------------------------------------------------
(***************************************************************************)
(* Uploads stored on time: their history is complete, and so are the       *)
(* renames found in it.                                                    *)
(***************************************************************************)

\* The executions of such an upload and of all that started earlier are there.
HistoryIsComplete == \A u \in onTime :
    /\ Ran(u) = TestsOf(report[u])
    /\ \A v \in Uploads : StartedAt[v] < StartedAt[u] => Ran(v) = TestsOf(report[v])

\* What a process found in such an upload is to be found in it.
CandidatesAreExact == \A p \in Procs : upload[p] \in onTime =>
    \A new \in candidates[p] : new.pair \in Renames(upload[p])

\* What it found is stored or still to be stored.
NothingIsLost == \A p \in Procs :
    upload[p] \in onTime /\ pc[p] \in {"aliases", "warnings", "done"} =>
        \A pair \in Renames(upload[p]) :
            aliases[pair] # NoAlias \/ \E new \in candidates[p] : new.pair = pair

AliasesAreExact == \A u \in onTime : \A pair \in Tests \X Tests :
    aliases[pair].run = u => pair \in Renames(u)

OnTimeInv ==
    /\ HistoryIsComplete
    /\ CandidatesAreExact
    /\ NothingIsLost
    /\ AliasesAreExact

\* The renames that an upload shows are a matter of the files.
LEMMA RenamesStay ==
    ASSUME UNCHANGED report
    PROVE  \A u \in Uploads : Renames(u)' = Renames(u)
  BY DEF Renames, TestsOf

\* An upload without tests shows no rename.
LEMMA NoTestsNoRenames ==
    ASSUME NEW u \in Uploads, TestsOf(report[u]) = {}
    PROVE  Renames(u) = {}
  <1>1. \A pair \in Renames(u) : pair[2] \in TestsOf(report[u])
    BY RenamesAreScored DEF Renames
  <1>2. QED
    BY <1>1

\* With a complete history, what is found is what the files show.
LEMMA CompleteHistoryIsExact ==
    ASSUME HistoryIsComplete, NEW u \in onTime
    PROVE  DetectRenames(Distance, Before(u) \ Ran(u), Ran(u) \ Before(u)) = Renames(u)
  <1> DEFINE Started == {v \in Uploads : StartedAt[v] < StartedAt[u]}
             earlier == UNION {TestsOf(report[v]) : v \in Started}
  <1>1. \A v \in Started : Ran(v) = TestsOf(report[v])
    BY DEF HistoryIsComplete
  <1>2. {Ran(v) : v \in Started} = {TestsOf(report[v]) : v \in Started}
    BY <1>1
  <1>3. Before(u) = earlier
    BY <1>2 DEF Before
  <1>4. Ran(u) = TestsOf(report[u])
    BY DEF HistoryIsComplete
  <1>5. Renames(u) = DetectRenames(Distance, earlier \ TestsOf(report[u]), TestsOf(report[u]) \ earlier)
    BY DEF Renames
  <1>6. QED
    BY <1>3, <1>4, <1>5

\* Storing executions: the upload was not there, so that nobody found
\* anything in it, and it is complete.
LEMMA RecordExecutionsOnTime ==
    ASSUME IInv, OnTimeInv, NEW p \in Procs, RecordExecutions(p)
    PROVE  OnTimeInv'
  <1> DEFINE u == upload[p]
  <1>1. /\ UNCHANGED <<report, aliases, upload, candidates>>
        /\ pc' = [pc EXCEPT ![p] = "reconcile"]
        /\ pc \in [Procs -> Stages]
    BY DEF IInv, TypeOK, RecordExecutions, GoTo
  <1>2. /\ u \in Uploads /\ report[u] \in Seq(Cases)
        /\ executions' = [executions EXCEPT ![u] = Observed(report[u])]
        /\ \A v \in Uploads : Ran(v)' # Ran(v) => v = u /\ Ran(v)' = TestsOf(report[v])
    BY RecordExecutionsStores, ReportType DEF IInv
  <1>3. /\ onTime \subseteq Uploads /\ onTime' \subseteq Uploads
        /\ \A w \in onTime' \ onTime :
               /\ w = u /\ Ran(u) = {}
               /\ \A v \in Uploads : StartedAt[v] < StartedAt[u] => Ran(v) = TestsOf(report[v])
    BY <1>2 DEF IInv, TypeOK, RecordExecutions
  <1>4. Ran(u)' = TestsOf(report[u])
    <2>1. executions \in [Uploads -> Executions]
      BY DEF IInv, TypeOK
    <2>2. executions'[u] = Observed(report[u])
      BY <1>2, <2>1
    <2>3. QED
      BY <1>1, <1>2, <2>2, ObservedType DEF Ran
  <1>5. \A v \in Uploads : Ran(v) = TestsOf(report[v]) => Ran(v)' = TestsOf(report[v])
    BY <1>2
  <1>6. \A w \in Uploads : Renames(w)' = Renames(w)
    BY <1>1, RenamesStay
  <1>7. HistoryIsComplete'
    <2> SUFFICES ASSUME NEW w \in onTime'
                 PROVE  /\ Ran(w)' = TestsOf(report[w])
                        /\ \A v \in Uploads : StartedAt[v] < StartedAt[w] =>
                               Ran(v)' = TestsOf(report[v])
      BY <1>1 DEF HistoryIsComplete, TestsOf
    <2>1. CASE w \in onTime
      BY <1>3, <1>5, <2>1 DEF OnTimeInv, HistoryIsComplete
    <2>2. CASE w \notin onTime
      <3>1. /\ w = u
            /\ \A v \in Uploads : StartedAt[v] < StartedAt[w] => Ran(v) = TestsOf(report[v])
        BY <1>3, <2>2
      <3>2. \A v \in Uploads : StartedAt[v] < StartedAt[w] => Ran(v)' = TestsOf(report[v])
        BY <1>5, <3>1
      <3>3. QED
        BY <1>1, <1>4, <3>1, <3>2 DEF Ran
    <2>3. QED
      BY <2>1, <2>2
  <1>8. ASSUME u \in onTime' \ onTime, NEW pair PROVE ~RestsOnHistory(pair, u)
    BY <1>3, <1>8 DEF RestsOnHistory
  <1>9. CandidatesAreExact'
    <2> SUFFICES ASSUME NEW q \in Procs, upload[q] \in onTime', NEW new \in candidates[q]
                 PROVE  new.pair \in Renames(upload[q])
      BY <1>1, <1>3, <1>6 DEF CandidatesAreExact
    <2>1. RestsOnHistory(new.pair, upload[q])
      BY DEF IInv, CandidatesRestOnHistory
    <2>2. upload[q] \in onTime
      BY <1>3, <1>8, <2>1
    <2>3. QED
      BY <2>2 DEF OnTimeInv, CandidatesAreExact
  <1>10. NothingIsLost'
    <2> SUFFICES ASSUME NEW q \in Procs, upload[q] \in onTime',
                        pc'[q] \in {"aliases", "warnings", "done"},
                        NEW pair \in Renames(upload[q])
                 PROVE  aliases[pair] # NoAlias \/ \E new \in candidates[q] : new.pair = pair
      BY <1>1, <1>3, <1>6 DEF NothingIsLost
    <2>1. q # p /\ pc[q] \in {"aliases", "warnings", "done"}
      BY <1>1
    <2>2. CASE upload[q] \in onTime
      BY <2>1, <2>2 DEF OnTimeInv, NothingIsLost
    <2>3. CASE upload[q] \notin onTime
      <3>1. upload[q] = u /\ Ran(u) = {}
        BY <1>3, <2>3
      <3>2. executions[u] = Observed(report[u])
        BY <2>1, <3>1 DEF IInv, Progress, Recorded
      <3>3. TestsOf(report[u]) = {}
        BY <1>2, <3>1, <3>2, ObservedType DEF Ran
      <3>4. QED
        BY <1>2, <3>1, <3>3, NoTestsNoRenames
    <2>4. QED
      BY <2>2, <2>3
  <1>11. AliasesAreExact'
    <2> SUFFICES ASSUME NEW w \in onTime', NEW pair \in Tests \X Tests, aliases[pair].run = w
                 PROVE  pair \in Renames(w)
      BY <1>1, <1>3, <1>6 DEF AliasesAreExact
    <2>1. aliases[pair] # NoAlias
      BY <1>3, IngestAssumption DEF NoAlias
    <2>2. RestsOnHistory(pair, w)
      BY <2>1 DEF IInv, AliasesRestOnHistory
    <2>3. w \in onTime
      BY <1>3, <1>8, <2>2
    <2>4. QED
      BY <2>3 DEF OnTimeInv, AliasesAreExact
  <1>12. QED
    BY <1>7, <1>9, <1>10, <1>11 DEF OnTimeInv

\* Looking for renames: what is found is exact.
LEMMA ReconcileOnTime ==
    ASSUME IInv, OnTimeInv, NEW p \in Procs, Reconcile(p)
    PROVE  OnTimeInv'
  <1> DEFINE u == upload[p]
             found == DetectRenames(Distance, Before(u) \ Ran(u), Ran(u) \ Before(u))
  <1>1. /\ UNCHANGED <<report, executions, aliases, upload, onTime>>
        /\ pc' = [pc EXCEPT ![p] = "aliases"]
        /\ onTime \subseteq Uploads
    BY DEF IInv, TypeOK, Reconcile, GoTo, store
  <1>2. PICK d \in CertainDistances :
            candidates' = [candidates EXCEPT ![p] =
                {[pair |-> pair, certain |-> Distance[pair] <= d] : pair \in found}]
    BY DEF Reconcile
  <1>3. u \in onTime => found = Renames(u)
    BY CompleteHistoryIsExact DEF OnTimeInv
  <1> HIDE DEF found
  <1>4. /\ \A new \in candidates'[p] : new.pair \in found
        /\ \A pair \in found : \E new \in candidates'[p] : new.pair = pair
        /\ \A q \in Procs : q # p => candidates'[q] = candidates[q]
    <2> DEFINE New == {[pair |-> pair, certain |-> Distance[pair] <= d] : pair \in found}
    <2>1. DOMAIN candidates = Procs
      BY DEF IInv, TypeOK
    <2>2. /\ \A new \in New : new.pair \in found
          /\ \A pair \in found : \E new \in New : new.pair = pair
      <3>1. \A new \in New : new.pair \in found
        OBVIOUS
      <3>2. ASSUME NEW pair \in found PROVE \E new \in New : new.pair = pair
        <4>1. [pair |-> pair, certain |-> Distance[pair] <= d] \in New
          OBVIOUS
        <4> HIDE DEF New
        <4>2. QED
          BY <4>1
      <3>3. QED
        BY <3>1, <3>2
    <2>3. candidates' = [candidates EXCEPT ![p] = New]
      BY <1>2
    <2> HIDE DEF New
    <2>4. candidates'[p] = New /\ \A q \in Procs : q # p => candidates'[q] = candidates[q]
      BY <2>1, <2>3
    <2>5. QED
      BY <2>2, <2>4
  <1>5. \A w \in Uploads : Renames(w)' = Renames(w)
    BY <1>1, RenamesStay
  <1>6. HistoryIsComplete' /\ AliasesAreExact'
    BY <1>1, <1>5 DEF OnTimeInv, HistoryIsComplete, AliasesAreExact, Ran, TestsOf
  <1>7. CandidatesAreExact'
    BY <1>1, <1>3, <1>4, <1>5 DEF OnTimeInv, CandidatesAreExact
  <1>8. NothingIsLost'
    <2> SUFFICES ASSUME NEW q \in Procs, upload[q] \in onTime,
                        pc'[q] \in {"aliases", "warnings", "done"},
                        NEW pair \in Renames(upload[q])
                 PROVE  aliases[pair] # NoAlias \/ \E new \in candidates'[q] : new.pair = pair
      BY <1>1, <1>5 DEF NothingIsLost
    <2>1. CASE q = p
      BY <1>3, <1>4, <2>1
    <2>2. CASE q # p
      <3>1. pc[q] \in {"aliases", "warnings", "done"}
        BY <1>1, <2>2 DEF IInv, TypeOK
      <3>2. QED
        BY <1>4, <2>2, <3>1 DEF OnTimeInv, NothingIsLost
    <2>3. QED
      BY <2>1, <2>2
  <1>9. QED
    BY <1>6, <1>7, <1>8 DEF OnTimeInv

\* Storing a rename: it is no longer a candidate, but stored.
LEMMA RecordAliasOnTime ==
    ASSUME IInv, OnTimeInv, NEW p \in Procs, RecordAlias(p)
    PROVE  OnTimeInv'
  <1> DEFINE u == upload[p]
  <1>1. PICK new \in candidates[p] :
            /\ new.pair \in Tests \X Tests /\ new.certain \in BOOLEAN /\ u \in Uploads
            /\ aliases' = [aliases EXCEPT ![new.pair] = Upgraded(aliases[new.pair], u, new.certain)]
            /\ candidates' = [candidates EXCEPT ![p] = candidates[p] \ {new}]
    BY RecordAliasStores
  <1>2. /\ UNCHANGED <<report, executions, pc, upload, onTime>>
        /\ onTime \subseteq Uploads
    BY DEF IInv, TypeOK, RecordAlias
  <1>3. aliases \in [Tests \X Tests -> {NoAlias} \cup [run : Uploads, certain : BOOLEAN]]
    BY DEF IInv, TypeOK
  <1>4. /\ aliases'[new.pair] # NoAlias
        /\ aliases'[new.pair].run \in {u, aliases[new.pair].run}
        /\ \A pair \in Tests \X Tests : pair # new.pair => aliases'[pair] = aliases[pair]
    <2>1. aliases[new.pair] \in {NoAlias} \cup [run : Uploads, certain : BOOLEAN]
      BY <1>1, <1>3
    <2>2. aliases'[new.pair] = Upgraded(aliases[new.pair], u, new.certain)
      BY <1>1, <1>3
    <2>3. QED
      BY <1>1, <1>3, <2>1, <2>2, UpgradedType
  <1>5. /\ candidates'[p] = candidates[p] \ {new}
        /\ \A q \in Procs : q # p => candidates'[q] = candidates[q]
    BY <1>1 DEF IInv, TypeOK
  <1>6. \A w \in Uploads : Renames(w)' = Renames(w)
    BY <1>2, RenamesStay
  <1>7. HistoryIsComplete'
    BY <1>2 DEF OnTimeInv, HistoryIsComplete, Ran, TestsOf
  <1>8. CandidatesAreExact'
    BY <1>2, <1>5, <1>6 DEF OnTimeInv, CandidatesAreExact
  <1>9. NothingIsLost'
    <2> SUFFICES ASSUME NEW q \in Procs, upload[q] \in onTime,
                        pc[q] \in {"aliases", "warnings", "done"},
                        NEW pair \in Renames(upload[q])
                 PROVE  aliases'[pair] # NoAlias \/ \E c \in candidates'[q] : c.pair = pair
      BY <1>2, <1>6 DEF NothingIsLost
    <2>1. aliases[pair] # NoAlias \/ \E c \in candidates[q] : c.pair = pair
      BY DEF OnTimeInv, NothingIsLost
    <2>2. CASE pair = new.pair
      BY <1>4, <2>2
    <2>3. CASE pair # new.pair
      <3>1. aliases'[pair] = aliases[pair]
        BY <1>1, <2>3
      <3>2. QED
        BY <1>5, <2>1, <2>3, <3>1
    <2>4. QED
      BY <2>2, <2>3
  <1>10. AliasesAreExact'
    <2> SUFFICES ASSUME NEW w \in onTime, NEW pair \in Tests \X Tests, aliases'[pair].run = w
                 PROVE  pair \in Renames(w)
      BY <1>2, <1>6 DEF AliasesAreExact
    <2>1. CASE aliases[pair].run = w
      BY <2>1 DEF OnTimeInv, AliasesAreExact
    <2>2. CASE aliases[pair].run # w
      <3>1. pair = new.pair /\ w = u
        BY <1>4, <2>2
      <3>2. QED
        BY <3>1 DEF OnTimeInv, CandidatesAreExact
    <2>3. QED
      BY <2>1, <2>2
  <1>11. QED
    BY <1>7, <1>8, <1>9, <1>10 DEF OnTimeInv

\* A process that comes to the warnings has no candidate left.
LEMMA RecordDiffOnTime ==
    ASSUME IInv, OnTimeInv, NEW p \in Procs, RecordDiff(p)
    PROVE  OnTimeInv'
  <1>1. /\ pc[p] = "aliases" /\ pc' = [pc EXCEPT ![p] = "warnings"]
        /\ UNCHANGED <<report, executions, aliases, upload, candidates, onTime>>
        /\ onTime \subseteq Uploads /\ pc \in [Procs -> Stages]
    BY DEF IInv, TypeOK, RecordDiff, GoTo
  <1>2. \A w \in Uploads : Renames(w)' = Renames(w)
    BY <1>1, RenamesStay
  <1>3. HistoryIsComplete' /\ AliasesAreExact' /\ CandidatesAreExact'
    BY <1>1, <1>2 DEF OnTimeInv, HistoryIsComplete, AliasesAreExact, CandidatesAreExact, Ran, TestsOf
  <1>4. NothingIsLost'
    BY <1>1, <1>2 DEF OnTimeInv, NothingIsLost
  <1>5. QED
    BY <1>3, <1>4 DEF OnTimeInv

\* Every other action leaves the history, the renames and the candidates of
\* the processes that go on as they are.
LEMMA OtherOnTime ==
    ASSUME IInv, OnTimeInv, UNCHANGED <<report, executions, aliases, onTime>>,
           \A q \in Procs :
               /\ upload'[q] \in onTime => upload'[q] = upload[q] \/ pc'[q] = "run"
               /\ candidates'[q] \in {candidates[q], {}}
               /\ pc'[q] = "run" => candidates'[q] = {}
               /\ pc'[q] \in {"aliases", "warnings", "done"} =>
                      /\ pc[q] \in {"aliases", "warnings", "done"}
                      /\ upload'[q] = upload[q] /\ candidates'[q] = candidates[q]
    PROVE  OnTimeInv'
  <1>1. onTime \subseteq Uploads
    BY DEF IInv, TypeOK
  <1>2. \A w \in Uploads : Renames(w)' = Renames(w)
    BY RenamesStay
  <1>3. HistoryIsComplete' /\ AliasesAreExact'
    BY <1>1, <1>2 DEF OnTimeInv, HistoryIsComplete, AliasesAreExact, Ran, TestsOf
  <1>4. CandidatesAreExact'
    BY <1>1, <1>2 DEF OnTimeInv, CandidatesAreExact
  <1>5. NothingIsLost'
    BY <1>1, <1>2 DEF OnTimeInv, NothingIsLost
  <1>6. QED
    BY <1>3, <1>4, <1>5 DEF OnTimeInv

\* Every step preserves the exactness of renames.
LEMMA NextOnTime == IInv /\ OnTimeInv /\ [Next]_vars => OnTimeInv'
  <1> SUFFICES ASSUME IInv, OnTimeInv, [Next]_vars PROVE OnTimeInv'
    OBVIOUS
  <1>1. /\ pc \in [Procs -> Stages] /\ upload \in [Procs -> Uploads \cup {None}]
        /\ onTime \subseteq Uploads /\ None \notin Uploads
        /\ \A q \in Procs : pc[q] # "aliases" => candidates[q] = {}
        /\ DOMAIN candidates = Procs
    BY IngestAssumption DEF IInv, TypeOK, Progress
  <1>2. CASE UNCHANGED vars
    BY <1>1, <1>2, OtherOnTime DEF vars, store, local
  <1>3. ASSUME NEW p \in Procs, Start(p) PROVE OnTimeInv'
    BY <1>1, <1>3, OtherOnTime DEF Start, GoTo, store
  <1>4. ASSUME NEW p \in Procs, RecordRun(p) \/ UpsertIdentity(p) PROVE OnTimeInv'
    BY <1>1, <1>4, OtherOnTime DEF RecordRun, UpsertIdentity, GoTo
  <1>5. ASSUME NEW p \in Procs, RecordWarnings(p) PROVE OnTimeInv'
    BY <1>1, <1>5, OtherOnTime DEF RecordWarnings, GoTo
  <1>6. ASSUME NEW p \in Procs, Finish(p) \/ Crash(p) PROVE OnTimeInv'
    BY <1>1, <1>6, OtherOnTime DEF Finish, Crash, Leave, GoTo, store
  <1>7. QED
    BY <1>2, <1>3, <1>4, <1>5, <1>6, RecordExecutionsOnTime, ReconcileOnTime,
       RecordAliasOnTime, RecordDiffOnTime DEF Next

\* OnTimeRenamesAreExact in every state (identities_before_run,
\* reconcile_renames, record_alias): when history comes in order, the renames
\* stored are those the files show, whatever ingests at the same time and
\* however many ingests died.
THEOREM RenamesAreExact == Spec => []OnTimeRenamesAreExact
  <1>1. Init => OnTimeInv
    <2> SUFFICES ASSUME Init PROVE OnTimeInv
      OBVIOUS
    <2>1. onTime = {}
      BY DEF Init
    <2>2. QED
      BY <2>1 DEF OnTimeInv, HistoryIsComplete, CandidatesAreExact, NothingIsLost, AliasesAreExact
  <1>2. IInv /\ OnTimeInv => OnTimeRenamesAreExact
    <2> SUFFICES ASSUME IInv, OnTimeInv, NEW u \in onTime
                 PROVE  /\ \A pair \in Tests \X Tests : aliases[pair].run = u => pair \in Renames(u)
                        /\ (\E p \in Procs : pc[p] = "done" /\ upload[p] = u) =>
                               \A pair \in Renames(u) : aliases[pair] # NoAlias
      BY DEF OnTimeRenamesAreExact
    <2>1. \A pair \in Tests \X Tests : aliases[pair].run = u => pair \in Renames(u)
      BY DEF OnTimeInv, AliasesAreExact
    <2>2. ASSUME NEW p \in Procs, pc[p] = "done", upload[p] = u
          PROVE  \A pair \in Renames(u) : aliases[pair] # NoAlias
      <3>1. candidates[p] = {}
        BY <2>2 DEF IInv, Progress
      <3>2. QED
        BY <2>2, <3>1 DEF OnTimeInv, NothingIsLost
    <2>3. QED
      BY <2>1, <2>2
  <1>3. QED
    BY <1>1, <1>2, NextOnTime, InitInv, NextInv, PTL DEF Spec

=============================================================================
