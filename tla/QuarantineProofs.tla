--------------------------- MODULE QuarantineProofs ---------------------------
(***************************************************************************)
(* Proofs about Quarantine for any number of tests, processes, executions  *)
(* and rows, and for every configuration the program accepts.              *)
(***************************************************************************)
EXTENDS Quarantine, FiniteSetTheorems, SequenceTheorems, WellFoundedInduction, TLAPS

-----------------------------------------------------------------------------
(* What the helpers return.                                                *)

\* The detector gives one of its five verdicts (detector.py:282).
LEMMA DecideVerdict ==
    ASSUME NEW h, NEW signals
    PROVE  Decide(h, signals)[1] \in Verdicts
  BY DEF Decide, Verdicts

\* What policy keeps of a detection has its type.
LEMMA FindingType ==
    ASSUME NEW history
    PROVE  Finding(history) \in Findings
  BY DecideVerdict DEF Finding, Findings, NotFound, Evidence, Detect, DetectHistory

\* A row one day later has the same type and differs only in its days.
LEMMA AgedRow ==
    ASSUME NEW row \in Row
    PROVE  /\ Aged(row) \in Row
           /\ Aged(row).state = row.state
           /\ Aged(row).cause = row.cause
           /\ Aged(row).since = row.since
  BY QuarantineConfigAssumption DEF Aged, Row

\* Closing a row changes only its state.
LEMMA ClosedRow ==
    ASSUME NEW row \in Row, NEW state \in States
    PROVE  /\ Closed(row, state) \in Row
           /\ Closed(row, state).state = state
           /\ Closed(row, state).cause = row.cause
           /\ Closed(row, state).since = row.since
  BY DEF Closed, Row

\* A recommendation stays one when a day passes, and no recommendation stays
\* none.
LEMMA AgedPlan ==
    ASSUME NEW plan \in Plans
    PROVE  /\ Aged(plan) \in Plans
           /\ Aged(plan).cause = plan.cause
           /\ plan = NoPlan <=> Aged(plan) = NoPlan
  <1>1. CASE plan = NoPlan
    BY <1>1 DEF Plans, NoPlan, Aged
  <1>2. CASE plan \in [cause : Causes, left : 0 .. TtlDays]
    <2>1. plan.cause # "none"
      BY <1>2, BoundsAssumption
    <2>2. /\ Aged(plan) \in [cause : Causes, left : 0 .. TtlDays]
          /\ Aged(plan).cause = plan.cause
      BY <1>2, QuarantineConfigAssumption DEF Aged
    <2>3. plan # NoPlan /\ Aged(plan) # NoPlan
      BY <2>1, <2>2 DEF NoPlan
    <2>4. QED
      BY <2>2, <2>3 DEF Plans
  <1>3. QED
    BY <1>1, <1>2 DEF Plans

-----------------------------------------------------------------------------
(* Type correctness.                                                       *)

\* The initial state has the types.
LEMMA InitType == Init => TypeOK
  BY DEF Init, TypeOK, Findings, NotFound, Evidence, Plans, Steps

\* Resetting a process keeps the types of what it resets.
LEMMA IdleType ==
    ASSUME TypeOK, NEW p \in Procs, Idle(p), UNCHANGED store
    PROVE  TypeOK'
  BY DEF TypeOK, Idle, store, Findings, NotFound, Evidence, Plans, Steps

\* A passing day keeps the types: every open row and plan loses a day.
LEMMA TickType ==
    ASSUME TypeOK, Tick
    PROVE  TypeOK'
  <1>1. quarantines' \in [Tests -> Seq(Row)]
    <2>1. ASSUME NEW t \in Tests PROVE quarantines'[t] \in Seq(Row)
      <3>1. quarantines[t] \in Seq(Row)
        BY DEF TypeOK
      <3>2. quarantines'[t] = [i \in 1 .. Len(quarantines[t]) |->
                IF IsOpen(quarantines[t][i]) THEN Aged(quarantines[t][i])
                ELSE quarantines[t][i]]
        BY <3>1 DEF Tick
      <3>3. QED
        BY <3>1, <3>2, AgedRow
    <2>2. QED
      BY <2>1 DEF Tick
  <1>2. planned' \in [Procs -> [Tests -> Plans]]
    BY AgedPlan DEF Tick, TypeOK
  <1>3. QED
    BY <1>1, <1>2 DEF Tick, TypeOK

\* Expiring keeps the types.
LEMMA ExpireType ==
    ASSUME TypeOK, NEW p \in Procs, Expire(p)
    PROVE  TypeOK'
  <1>1. quarantines' \in [Tests -> Seq(Row)]
    <2>1. ASSUME NEW t \in Tests PROVE quarantines'[t] \in Seq(Row)
      <3>1. quarantines[t] \in Seq(Row)
        BY DEF TypeOK
      <3>2. quarantines'[t] = [i \in 1 .. Len(quarantines[t]) |->
                IF Overdue(quarantines[t][i])
                THEN Closed(quarantines[t][i], "expired")
                ELSE quarantines[t][i]]
        BY <3>1 DEF Expire
      <3>3. "expired" \in States
        BY DEF States
      <3>4. QED
        BY <3>1, <3>2, <3>3, ClosedRow
    <2>2. QED
      BY <2>1 DEF Expire
  <1>2. QED
    BY <1>1 DEF Expire, TypeOK, Steps

\* Storing recommendations keeps the types: what is stored is a full row.
LEMMA RecordType ==
    ASSUME TypeOK, NEW p \in Procs, Record(p)
    PROVE  TypeOK'
  <1>1. quarantines' \in [Tests -> Seq(Row)]
    <2>1. ASSUME NEW t \in Inserted(p)
          PROVE  NewRow(planned[p][t], Len(runs[t])) \in Row
      <3>1. /\ t \in Tests
            /\ planned[p][t] \in [cause : Causes, left : 0 .. TtlDays]
        BY DEF Inserted, TypeOK, Plans
      <3>2. Len(runs[t]) \in Nat
        BY <3>1 DEF TypeOK
      <3>3. QED
        BY <3>1, <3>2 DEF NewRow, Row, States
    <2>2. QED
      BY <2>1 DEF Record, TypeOK
  <1>2. QED
    BY <1>1 DEF Record, TypeOK, Plans, Steps

\* Releasing keeps the types, even for a row that does not exist.
LEMMA CloseType ==
    ASSUME TypeOK, NEW p \in Procs, Close(p)
    PROVE  TypeOK'
  <1> PICK id \in closing[p] :
        /\ quarantines' = [quarantines EXCEPT ![id[1]][id[2]] =
                            IF Releasable(@) THEN Closed(@, "released") ELSE @]
        /\ released' = [released EXCEPT ![p] = @ \cup {id}]
    BY DEF Close
  <1>1. id \in RowIds
    BY DEF TypeOK
  <1>2. quarantines' \in [Tests -> Seq(Row)]
    <2>1. /\ id[1] \in Tests
          /\ quarantines[id[1]] \in Seq(Row)
      BY <1>1 DEF RowIds, TypeOK
    <2> DEFINE row == quarantines[id[1]][id[2]]
               new == IF Releasable(row) THEN Closed(row, "released") ELSE row
    <2>2. /\ quarantines' = [quarantines EXCEPT ![id[1]] = [@ EXCEPT ![id[2]] = new]]
          /\ "released" \in States
      BY DEF States
    <2>3. id[2] \in DOMAIN quarantines[id[1]] => new \in Row
      BY <2>1, <2>2, ClosedRow
    <2> HIDE DEF new
    <2>4. [quarantines[id[1]] EXCEPT ![id[2]] = new] \in Seq(Row)
      <3>1. CASE id[2] \in DOMAIN quarantines[id[1]]
        <4>1. id[2] \in 1 .. Len(quarantines[id[1]]) /\ new \in Row
          BY <2>1, <2>3, <3>1
        <4>2. QED
          BY <2>1, <4>1, ExceptSeq
      <3>2. CASE id[2] \notin DOMAIN quarantines[id[1]]
        <4>1. quarantines[id[1]] \in [1 .. Len(quarantines[id[1]]) -> Row]
          BY <2>1
        <4>2. [quarantines[id[1]] EXCEPT ![id[2]] = new] = quarantines[id[1]]
          BY <3>2, <4>1
        <4>3. QED
          BY <2>1, <4>2
      <3>3. QED
        BY <3>1, <3>2
    <2>5. QED
      BY <2>1, <2>2, <2>4 DEF TypeOK
  <1>3. QED
    BY <1>1, <1>2 DEF Close, TypeOK, Steps

\* The steps that change no quarantine row.
LEMMA OtherStepsType ==
    ASSUME TypeOK,
           \/ \E t \in Tests, kind \in Kinds : \E sha \in NextSha(t) : Ingest(t, sha, kind)
           \/ Triage
           \/ \E p \in Procs :
                \/ Start(p) \/ ReadOpen(p) \/ List(p)
                \/ \E t \in Tests : DetectTest(p, t) \/ Evaluate(p, t)
                \/ \E id \in RowIds : Check(p, id)
    PROVE  TypeOK'
  <1>1. ASSUME NEW t \in Tests, NEW kind \in Kinds, NEW sha \in NextSha(t),
               Ingest(t, sha, kind)
        PROVE  TypeOK'
    <2>1. [sha |-> sha, kind |-> kind] \in Execution
      BY DEF Execution, NextSha, TypeOK
    <2>2. runs' \in [Tests -> Seq(Execution)]
      BY <1>1, <2>1 DEF Ingest, TypeOK
    <2>3. QED
      BY <1>1, <2>2 DEF Ingest, TypeOK, local
  <1>2. CASE Triage
    BY <1>2 DEF Triage, TriageRecord, TriageCrash, TriageDetect, TypeOK, local
  <1>3. ASSUME NEW p \in Procs, Start(p) \/ ReadOpen(p) \/ List(p)
        PROVE  TypeOK'
    <2>1. CASE Start(p)
      BY <2>1 DEF Start, TypeOK, store, Steps
    <2>2. CASE ReadOpen(p)
      BY <2>2 DEF ReadOpen, TypeOK, store, Steps
    <2>3. CASE List(p)
      BY <2>3 DEF List, OpenRows, TypeOK, store, Steps
    <2>4. QED
      BY <1>3, <2>1, <2>2, <2>3
  <1>4. ASSUME NEW p \in Procs, NEW t \in Tests, DetectTest(p, t)
        PROVE  TypeOK'
    BY <1>4, FindingType DEF DetectTest, TypeOK, store
  <1>5. ASSUME NEW p \in Procs, NEW t \in Tests, Evaluate(p, t)
        PROVE  TypeOK'
    <2>1. Plan(LatestCause(t)) \in Plans
      BY BoundsAssumption, QuarantineConfigAssumption
         DEF Plan, LatestCause, Plans, TypeOK
    <2>2. NoPlan \in Plans /\ NotFound \in Findings
      BY DEF Plans, Findings, NotFound, Evidence
    <2>3. QED
      BY <1>5, <2>1, <2>2 DEF Evaluate, TypeOK, store
  <1>6. ASSUME NEW p \in Procs, NEW id \in RowIds, Check(p, id)
        PROVE  TypeOK'
    <2>1. /\ listed' = [listed EXCEPT ![p] = @ \ {id}]
          /\ UNCHANGED <<runs, cause, pending, quarantines, todo, found,
                         openIds, planned, expired, released>>
      BY <1>6 DEF Check, store
    <2>2. \/ closing' = [closing EXCEPT ![p] = {id}] /\ pc' = [pc EXCEPT ![p] = "close"]
          \/ closing' = closing /\ pc' = pc
      BY <1>6 DEF Check
    <2>3. closing' \in [Procs -> SUBSET RowIds] /\ pc' \in [Procs -> Steps]
      <3>1. {id} \in SUBSET RowIds
        OBVIOUS
      <3>2. CASE closing' = closing /\ pc' = pc
        BY <3>2 DEF TypeOK
      <3>3. CASE closing' = [closing EXCEPT ![p] = {id}] /\ pc' = [pc EXCEPT ![p] = "close"]
        BY <3>1, <3>3 DEF TypeOK, Steps
      <3>4. QED
        BY <2>2, <3>2, <3>3
    <2>4. listed' \in [Procs -> SUBSET RowIds]
      BY <2>1 DEF TypeOK
    <2>5. QED
      BY <2>1, <2>3, <2>4 DEF TypeOK
  <1>7. QED
    BY <1>1, <1>2, <1>3, <1>4, <1>5, <1>6

\* Every step keeps the types.
LEMMA NextType ==
    ASSUME TypeOK, [Next]_vars
    PROVE  TypeOK'
  <1>1. CASE UNCHANGED vars
    BY <1>1 DEF vars, store, local, TypeOK
  <1>2. ASSUME NEW p \in Procs, StoreFull(p) \/ Report(p) \/ Crash(p)
        PROVE  TypeOK'
    BY <1>2, IdleType DEF StoreFull, Report, Crash
  <1>3. QED
    BY <1>1, <1>2, TickType, ExpireType, RecordType, CloseType, OtherStepsType
       DEF Next, Policy

\* Every variable keeps its type in every behaviour, for any configuration.
THEOREM TypeCorrect == Spec => []TypeOK
  BY InitType, NextType, PTL DEF Spec

-----------------------------------------------------------------------------
(* How a step changes the rows of one test.                                *)

\* Each row of t is kept or, if it was open, aged or closed.
Updated(t) ==
    /\ Len(quarantines'[t]) = Len(quarantines[t])
    /\ \A i \in 1 .. Len(quarantines[t]) :
        \/ quarantines'[t][i] = quarantines[t][i]
        \/ /\ IsOpen(quarantines[t][i])
           /\ \/ quarantines'[t][i] = Aged(quarantines[t][i])
              \/ quarantines'[t][i] = Closed(quarantines[t][i], "expired")
              \/ quarantines'[t][i] = Closed(quarantines[t][i], "released")

\* A process adds its recommendation to a test without an open row.
Added(t) ==
    \E p \in Procs :
        /\ Record(p)
        /\ planned[p][t] # NoPlan
        /\ ~HasOpen(t)
        /\ quarantines'[t] = Append(quarantines[t],
                                     NewRow(planned[p][t], Len(runs[t])))

\* Every step updates the rows of a test or adds one to a test without an open one.
LEMMA RowsChange ==
    ASSUME TypeOK, [Next]_vars, NEW t \in Tests
    PROVE  Updated(t) \/ Added(t)
  <1>1. quarantines[t] \in Seq(Row)
    BY DEF TypeOK
  <1>2. CASE quarantines' = quarantines
    BY <1>2 DEF Updated
  <1>3. CASE Tick
    <2>1. quarantines'[t] = [i \in 1 .. Len(quarantines[t]) |->
                IF IsOpen(quarantines[t][i]) THEN Aged(quarantines[t][i])
                ELSE quarantines[t][i]]
      BY <1>1, <1>3 DEF Tick
    <2>2. QED
      BY <1>1, <2>1 DEF Updated
  <1>4. ASSUME NEW p \in Procs, Expire(p)
        PROVE  Updated(t)
    <2>1. quarantines'[t] = [i \in 1 .. Len(quarantines[t]) |->
                IF Overdue(quarantines[t][i])
                THEN Closed(quarantines[t][i], "expired")
                ELSE quarantines[t][i]]
      BY <1>1, <1>4 DEF Expire
    <2>2. QED
      BY <1>1, <2>1 DEF Updated, Overdue
  <1>5. ASSUME NEW p \in Procs, Record(p)
        PROVE  Updated(t) \/ Added(t)
    BY <1>1, <1>5 DEF Record, Inserted, Conflicts, Updated, Added
  <1>6. ASSUME NEW p \in Procs, Close(p)
        PROVE  Updated(t)
    <2> PICK id \in closing[p] :
            quarantines' = [quarantines EXCEPT ![id[1]][id[2]] =
                            IF Releasable(@) THEN Closed(@, "released") ELSE @]
      BY <1>6 DEF Close
    <2> DEFINE row == quarantines[t][id[2]]
               new == IF Releasable(row) THEN Closed(row, "released") ELSE row
    <2>1. CASE t = id[1]
      <3>1. quarantines'[t] = [quarantines[t] EXCEPT ![id[2]] = new]
        BY <2>1 DEF TypeOK
      <3>2. quarantines[t] \in [1 .. Len(quarantines[t]) -> Row]
        BY <1>1
      <3>3. quarantines'[t] \in Seq(Row)
        BY <1>6, CloseType DEF TypeOK
      <3>4. DOMAIN quarantines'[t] = 1 .. Len(quarantines[t])
        BY <3>1, <3>2
      <3>5. Len(quarantines'[t]) = Len(quarantines[t])
        BY <1>1, <3>3, <3>4
      <3>6. ASSUME NEW i \in 1 .. Len(quarantines[t])
            PROVE  quarantines'[t][i] = IF i = id[2] THEN new ELSE quarantines[t][i]
        BY <3>1, <3>2
      <3>7. QED
        BY <3>5, <3>6 DEF Updated, Releasable
    <2>2. CASE t # id[1]
      BY <2>2 DEF Updated, TypeOK
    <2>3. QED
      BY <2>1, <2>2
  <1>7. QED
    BY <1>2, <1>3, <1>4, <1>5, <1>6
       DEF Next, Policy, Triage, vars, store, Ingest, TriageDetect, TriageRecord,
           TriageCrash, Start, DetectTest, ReadOpen, Evaluate, StoreFull, List,
           Check, Report, Crash

-----------------------------------------------------------------------------
(* At most one open quarantine.                                            *)

\* Only the newest row of a test can be open. This is what is inductive: a
\* row is added only when none is open, and closed rows never reopen.
OnlyNewestOpen ==
    \A t \in Tests : \A i \in DOMAIN quarantines[t] :
        IsOpen(quarantines[t][i]) => i = Len(quarantines[t])

\* Every step keeps the invariant.
LEMMA OnlyNewestOpenStep ==
    ASSUME TypeOK, OnlyNewestOpen, [Next]_vars
    PROVE  OnlyNewestOpen'
  <1> SUFFICES ASSUME NEW t \in Tests, NEW i \in DOMAIN quarantines'[t],
                      IsOpen(quarantines'[t][i])
               PROVE  i = Len(quarantines'[t])
    BY DEF OnlyNewestOpen, IsOpen
  <1>1. /\ quarantines[t] \in Seq(Row)
        /\ quarantines'[t] \in Seq(Row)
    BY NextType DEF TypeOK
  <1>2. CASE Updated(t)
    <2>1. i \in DOMAIN quarantines[t]
      BY <1>1, <1>2 DEF Updated
    <2>2. IsOpen(quarantines[t][i])
      BY <1>1, <1>2, <2>1 DEF Updated
    <2>3. QED
      BY <1>2, <2>1, <2>2 DEF Updated, OnlyNewestOpen
  <1>3. CASE Added(t)
    <2>1. PICK new : quarantines'[t] = Append(quarantines[t], new)
      BY <1>3 DEF Added
    <2>2. ~HasOpen(t)
      BY <1>3 DEF Added
    <2>3. CASE i \in DOMAIN quarantines[t]
      BY <1>1, <2>1, <2>2, <2>3 DEF HasOpen
    <2>4. CASE i \notin DOMAIN quarantines[t]
      BY <1>1, <2>1, <2>4
    <2>5. QED
      BY <2>3, <2>4
  <1>4. QED
    BY <1>2, <1>3, RowsChange

\* A test never has two open quarantines, for any number of processes.
THEOREM OneOpenQuarantine == Spec => []AtMostOneOpen
  <1>1. Init => OnlyNewestOpen
    BY DEF Init, OnlyNewestOpen
  <1>2. TypeOK /\ OnlyNewestOpen /\ [Next]_vars => OnlyNewestOpen'
    BY OnlyNewestOpenStep
  <1>3. OnlyNewestOpen => AtMostOneOpen
    BY DEF OnlyNewestOpen, AtMostOneOpen
  <1>4. QED
    BY <1>1, <1>2, <1>3, TypeCorrect, PTL DEF Spec

\* A closed quarantine is never changed again, for any number of processes.
THEOREM ClosedForGood == Spec => ClosedIsFinal
  <1> DEFINE Final(t, i) ==
        ~IsOpen(quarantines[t][i]) =>
            /\ i \in DOMAIN quarantines'[t]
            /\ quarantines'[t][i] = quarantines[t][i]
  <1>1. ASSUME TypeOK, [Next]_vars, NEW t \in Tests, NEW i \in DOMAIN quarantines[t]
        PROVE  Final(t, i)
    <2>1. /\ quarantines[t] \in Seq(Row)
          /\ quarantines'[t] \in Seq(Row)
      BY <1>1, NextType DEF TypeOK
    <2>2. CASE Updated(t)
      BY <2>1, <2>2 DEF Updated
    <2>3. CASE Added(t)
      <3>1. PICK new : quarantines'[t] = Append(quarantines[t], new)
        BY <2>3 DEF Added
      <3>2. QED
        BY <2>1, <3>1
    <2>4. QED
      BY <1>1, <2>2, <2>3, RowsChange
  <1>2. TypeOK /\ [Next]_vars =>
            [\A t \in Tests : \A i \in DOMAIN quarantines[t] : Final(t, i)]_vars
    BY <1>1
  <1>3. QED
    BY <1>2, TypeCorrect, PTL DEF Spec, ClosedIsFinal

-----------------------------------------------------------------------------
(* Every quarantine rests on evidence.                                     *)

Unstable == [verdict |-> "flaky", evidence |-> "unstable"]

\* Some prefix of at most n of these executions was flaky and unstable.
Backed(history, n) == \E k \in 1 .. n : Finding(SubSeq(history, 1, k)) = Unstable

FoundBacked ==
    \A p \in Procs, t \in Tests :
        found[p][t] = Unstable => Backed(runs[t], Len(runs[t]))

PlannedBacked ==
    \A p \in Procs, t \in Tests :
        planned[p][t] # NoPlan =>
            /\ planned[p][t].cause \notin IneligibleCauses
            /\ Backed(runs[t], Len(runs[t]))

RowBacked(t, i) ==
    /\ quarantines[t][i].cause \notin IneligibleCauses
    /\ quarantines[t][i].since \in 0 .. Len(runs[t])
    /\ Backed(runs[t], quarantines[t][i].since)

RowsBacked == \A t \in Tests : \A i \in DOMAIN quarantines[t] : RowBacked(t, i)

\* The evidence travels with the decision: from what a process found to what
\* it planned to the row it stored, while executions keep being added.
EvidenceInv == FoundBacked /\ PlannedBacked /\ RowsBacked

\* Executions are only ever added.
LEMMA HistoryGrows ==
    ASSUME TypeOK, [Next]_vars, NEW t \in Tests
    PROVE  /\ runs[t] \in Seq(Execution) /\ runs'[t] \in Seq(Execution)
           /\ runs'[t] = runs[t] \/ \E x : runs'[t] = Append(runs[t], x)
  <1>1. runs[t] \in Seq(Execution) /\ runs'[t] \in Seq(Execution)
    BY NextType DEF TypeOK
  <1>2. ASSUME NEW u \in Tests, NEW kind \in Kinds, NEW sha \in NextSha(u),
               Ingest(u, sha, kind)
        PROVE  runs'[t] = runs[t] \/ \E x : runs'[t] = Append(runs[t], x)
    BY <1>2 DEF Ingest, TypeOK
  <1>3. QED
    BY <1>1, <1>2
       DEF Next, Policy, Triage, vars, store, TriageDetect, TriageRecord,
           TriageCrash, Tick, Start, DetectTest, Expire, ReadOpen, Evaluate,
           Record, StoreFull, List, Check, Close, Report, Crash

\* What a prefix showed it shows for good.
LEMMA BackedStays ==
    ASSUME TypeOK, [Next]_vars, NEW t \in Tests,
           NEW n \in 0 .. Len(runs[t]), Backed(runs[t], n)
    PROVE  /\ n \in 0 .. Len(runs'[t])
           /\ Backed(runs'[t], n)
           /\ Backed(runs'[t], Len(runs'[t]))
  <1> PICK k \in 1 .. n : Finding(SubSeq(runs[t], 1, k)) = Unstable
    BY DEF Backed
  <1>1. /\ runs[t] \in Seq(Execution) /\ runs'[t] \in Seq(Execution)
        /\ runs'[t] = runs[t] \/ \E x : runs'[t] = Append(runs[t], x)
    BY HistoryGrows
  <1>2. Len(runs[t]) <= Len(runs'[t])
    BY <1>1
  <1>3. SubSeq(runs'[t], 1, k) = SubSeq(runs[t], 1, k)
    <2>1. CASE runs'[t] = runs[t]
      BY <2>1
    <2>2. ASSUME NEW x, runs'[t] = Append(runs[t], x)
          PROVE  SubSeq(runs'[t], 1, k) = SubSeq(runs[t], 1, k)
      BY <1>1, <2>2
    <2>3. QED
      BY <1>1, <2>1, <2>2
  <1>4. k \in 1 .. Len(runs'[t]) /\ n \in 0 .. Len(runs'[t])
    BY <1>1, <1>2
  <1>5. QED
    BY <1>3, <1>4 DEF Backed

\* What a process found stays backed by the executions, which only grow.
LEMMA FoundBackedStep ==
    ASSUME TypeOK, EvidenceInv, [Next]_vars
    PROVE  FoundBacked'
  <1> SUFFICES ASSUME NEW p \in Procs, NEW t \in Tests, found'[p][t] = Unstable
               PROVE  Backed(runs'[t], Len(runs'[t]))
    BY DEF FoundBacked
  <1>1. Len(runs[t]) \in 0 .. Len(runs[t])
    BY DEF TypeOK
  <1>2. CASE found'[p][t] = found[p][t]
    <2>1. Backed(runs[t], Len(runs[t]))
      BY <1>2 DEF EvidenceInv, FoundBacked
    <2>2. QED
      BY <1>1, <2>1, BackedStays
  <1>3. NotFound # Unstable
    BY DEF NotFound, Unstable
  <1>4. ASSUME NEW q \in Procs, NEW u \in Tests, DetectTest(q, u)
        PROVE  found'[p][t] = found[p][t] \/ (u = t /\ found'[p][t] = Finding(runs[t]))
    BY <1>4 DEF DetectTest, TypeOK
  <1>5. CASE runs' = runs /\ found'[p][t] = Finding(runs[t])
    <2>1. runs[t] \in Seq(Execution) /\ runs[t] # <<>>
      BY <1>3, <1>5 DEF Finding, TypeOK
    <2>2. SubSeq(runs[t], 1, Len(runs[t])) = runs[t] /\ Len(runs[t]) \in 1 .. Len(runs[t])
      BY <2>1
    <2>3. Backed(runs[t], Len(runs[t]))
      BY <1>5, <2>2 DEF Backed
    <2>4. QED
      BY <1>1, <2>3, BackedStays
  <1>6. ASSUME NEW q \in Procs, NEW u \in Tests, Evaluate(q, u)
        PROVE  found'[p][t] = found[p][t]
    BY <1>3, <1>6 DEF Evaluate, TypeOK
  <1>7. ASSUME NEW q \in Procs, Idle(q)
        PROVE  found'[p][t] = found[p][t]
    BY <1>3, <1>7 DEF Idle, TypeOK
  <1>8. QED
    BY <1>2, <1>4, <1>5, <1>6, <1>7
       DEF Next, Policy, Triage, vars, store, local, Ingest, TriageDetect,
           TriageRecord, TriageCrash, Tick, Start, DetectTest, Expire, ReadOpen,
           Record, StoreFull, List, Check, Close, Report, Crash

\* A recommendation is made only from a finding that is backed.
LEMMA PlannedBackedStep ==
    ASSUME TypeOK, EvidenceInv, [Next]_vars
    PROVE  PlannedBacked'
  <1> SUFFICES ASSUME NEW p \in Procs, NEW t \in Tests, planned'[p][t] # NoPlan
               PROVE  /\ planned'[p][t].cause \notin IneligibleCauses
                      /\ Backed(runs'[t], Len(runs'[t]))
    BY DEF PlannedBacked
  <1>1. Len(runs[t]) \in 0 .. Len(runs[t])
    BY DEF TypeOK
  <1>2. CASE /\ planned[p][t] # NoPlan
             /\ planned'[p][t].cause = planned[p][t].cause
    <2>1. /\ planned[p][t].cause \notin IneligibleCauses
          /\ Backed(runs[t], Len(runs[t]))
      BY <1>2 DEF EvidenceInv, PlannedBacked
    <2>2. QED
      BY <1>1, <1>2, <2>1, BackedStays
  <1>3. CASE Tick
    <2>1. planned'[p][t] = Aged(planned[p][t]) /\ planned[p][t] \in Plans
      BY <1>3 DEF Tick, TypeOK
    <2>2. QED
      BY <1>2, <2>1, AgedPlan
  <1>4. ASSUME NEW q \in Procs, NEW u \in Tests, Evaluate(q, u)
        PROVE  \/ planned'[p][t] = planned[p][t]
               \/ /\ planned'[p][t].cause \notin IneligibleCauses
                  /\ found[p][t] = Unstable
    <2>1. CASE q = p /\ u = t
      <3>1. planned'[p][t] = IF Recommended(found[p][t], LatestCause(t), t \in openIds[p])
                             THEN Plan(LatestCause(t)) ELSE NoPlan
        BY <1>4, <2>1 DEF Evaluate, TypeOK
      <3>2. Recommended(found[p][t], LatestCause(t), t \in openIds[p])
        BY <3>1
      <3>3. found[p][t] \in Findings
        BY DEF TypeOK
      <3>4. found[p][t] = Unstable
        BY <3>2, <3>3 DEF Recommended, Findings, Unstable
      <3>5. planned'[p][t].cause = LatestCause(t)
        BY <3>1, <3>2 DEF Plan
      <3>6. QED
        BY <3>2, <3>4, <3>5 DEF Recommended
    <2>2. CASE q # p \/ u # t
      BY <1>4, <2>2 DEF Evaluate, TypeOK
    <2>3. QED
      BY <2>1, <2>2
  <1>5. CASE /\ planned'[p][t].cause \notin IneligibleCauses
             /\ found[p][t] = Unstable
    <2>1. Backed(runs[t], Len(runs[t]))
      BY <1>5 DEF EvidenceInv, FoundBacked
    <2>2. QED
      BY <1>1, <1>5, <2>1, BackedStays
  <1>6. ASSUME NEW q \in Procs, Idle(q) \/ Record(q)
        PROVE  planned'[p][t] = planned[p][t]
    <2>1. planned' = [planned EXCEPT ![q] = [u \in Tests |-> NoPlan]]
      BY <1>6 DEF Idle, Record
    <2>2. QED
      BY <2>1 DEF TypeOK
  <1>7. CASE planned'[p][t] = planned[p][t]
    BY <1>2, <1>7
  <1>8. QED
    BY <1>3, <1>4, <1>5, <1>6, <1>7
       DEF Next, Policy, Triage, vars, store, local, Ingest, TriageDetect,
           TriageRecord, TriageCrash, Start, DetectTest, Expire, ReadOpen,
           StoreFull, List, Check, Close, Report, Crash

\* A row is created only from a recommendation, and keeps its cause.
LEMMA RowsBackedStep ==
    ASSUME TypeOK, EvidenceInv, [Next]_vars
    PROVE  RowsBacked'
  <1> SUFFICES ASSUME NEW t \in Tests, NEW i \in DOMAIN quarantines'[t]
               PROVE  RowBacked(t, i)'
    BY DEF RowsBacked
  <1>1. Len(runs[t]) \in 0 .. Len(runs[t])
    BY DEF TypeOK
  <1>2. quarantines[t] \in Seq(Row) /\ quarantines'[t] \in Seq(Row)
    BY NextType DEF TypeOK
  <1>3. ASSUME NEW cse, cse \notin IneligibleCauses,
               NEW n \in 0 .. Len(runs[t]), Backed(runs[t], n),
               quarantines'[t][i].cause = cse, quarantines'[t][i].since = n
        PROVE  RowBacked(t, i)'
    BY <1>3, BackedStays DEF RowBacked
  <1>4. ASSUME NEW j \in DOMAIN quarantines[t],
               quarantines'[t][i].cause = quarantines[t][j].cause,
               quarantines'[t][i].since = quarantines[t][j].since
        PROVE  RowBacked(t, i)'
    BY <1>3, <1>4 DEF EvidenceInv, RowsBacked, RowBacked
  <1>5. CASE Updated(t)
    <2>1. i \in DOMAIN quarantines[t] /\ quarantines[t][i] \in Row
      BY <1>2, <1>5 DEF Updated
    <2>2. "expired" \in States /\ "released" \in States
      BY DEF States
    <2>3. \/ quarantines'[t][i] = quarantines[t][i]
          \/ quarantines'[t][i] = Aged(quarantines[t][i])
          \/ quarantines'[t][i] = Closed(quarantines[t][i], "expired")
          \/ quarantines'[t][i] = Closed(quarantines[t][i], "released")
      BY <1>2, <1>5, <2>1 DEF Updated
    <2>4. /\ quarantines'[t][i].cause = quarantines[t][i].cause
          /\ quarantines'[t][i].since = quarantines[t][i].since
      BY <2>1, <2>2, <2>3, AgedRow, ClosedRow
    <2>5. QED
      BY <1>4, <2>1, <2>4
  <1>6. CASE Added(t)
    <2> PICK p \in Procs :
            /\ planned[p][t] # NoPlan
            /\ quarantines'[t] = Append(quarantines[t],
                                         NewRow(planned[p][t], Len(runs[t])))
      BY <1>6 DEF Added
    <2>1. CASE i \in DOMAIN quarantines[t]
      BY <1>2, <1>4, <2>1
    <2>2. CASE i \notin DOMAIN quarantines[t]
      <3>1. quarantines'[t][i] = NewRow(planned[p][t], Len(runs[t]))
        BY <1>2, <2>2
      <3>2. /\ quarantines'[t][i].cause = planned[p][t].cause
            /\ quarantines'[t][i].since = Len(runs[t])
        BY <3>1 DEF NewRow
      <3>3. /\ planned[p][t].cause \notin IneligibleCauses
            /\ Backed(runs[t], Len(runs[t]))
        BY DEF EvidenceInv, PlannedBacked
      <3>4. QED
        BY <1>1, <1>3, <3>2, <3>3
    <2>3. QED
      BY <2>1, <2>2
  <1>7. QED
    BY <1>5, <1>6, RowsChange

\* No test is quarantined unless its own executions had made it flaky and
\* unstable before, whatever the model answered and however the processes
\* interleave; and a cause that forbids quarantine never carries one.
THEOREM QuarantinedOnEvidence == Spec => []OpenedOnEvidence
  <1>1. Init => EvidenceInv
    BY DEF Init, EvidenceInv, FoundBacked, PlannedBacked, RowsBacked, NotFound,
           Unstable
  <1>2. TypeOK /\ EvidenceInv /\ [Next]_vars => EvidenceInv'
    BY FoundBackedStep, PlannedBackedStep, RowsBackedStep DEF EvidenceInv
  <1>3. EvidenceInv => OpenedOnEvidence
    BY DEF EvidenceInv, RowsBacked, RowBacked, Backed, Unstable, UpTo, OpenedOnEvidence
  <1>4. QED
    BY <1>1, <1>2, <1>3, TypeCorrect, PTL DEF Spec

-----------------------------------------------------------------------------
(* The store implements the lifecycle.                                     *)

\* The phases of one test's rows.
PhasesOf(rows) == [i \in DOMAIN rows |-> Phase(rows[i])]

\* The episodes of a test are the phases of its rows, before and after a step.
LEMMA EpisodesOf ==
    ASSUME NEW t \in Tests
    PROVE  /\ Episodes[t] = PhasesOf(quarantines[t])
           /\ Episodes'[t] = PhasesOf(quarantines'[t])
  BY DEF Episodes, PhasesOf

\* There is one phase for each row.
LEMMA PhasesOfRows ==
    ASSUME NEW rows
    PROVE  /\ DOMAIN PhasesOf(rows) = DOMAIN rows
           /\ \A i \in DOMAIN rows : PhasesOf(rows)[i] = Phase(rows[i])
  BY DEF PhasesOf

\* What each kind of step does to the phases of a test that has it.
LEMMA PhaseOfAged ==
    ASSUME NEW row \in Row
    PROVE  Phase(Aged(row)) = Phase(row)
  BY AgedRow DEF Phase, IsOpen

\* A closed row is in the phase it was closed in.
LEMMA PhaseOfClosed ==
    ASSUME NEW row \in Row, NEW state \in {"expired", "released"}
    PROVE  Phase(Closed(row, state)) = state
  BY ClosedRow DEF Phase, IsOpen, OpenStates, States

\* The open phase is the one of the open rows.
LEMMA PhaseOpen ==
    ASSUME NEW row \in Row
    PROVE  Phase(row) = "open" <=> IsOpen(row)
  BY DEF Phase, IsOpen, OpenStates, Row, States

\* Storing recommendations opens an episode for every test it adds a row to.
LEMMA RecordOpens ==
    ASSUME TypeOK, NEW p \in Procs, Record(p)
    PROVE  Lifecycle!Open(Inserted(p))
  <1>1. ASSUME NEW t \in Inserted(p)
        PROVE  Lifecycle!AllEnded(t)
    <2>1. t \in Tests /\ ~HasOpen(t) /\ quarantines[t] \in Seq(Row)
      BY DEF Inserted, Conflicts, TypeOK
    <2>2. ASSUME NEW i \in DOMAIN Episodes[t]
          PROVE  Episodes[t][i] # "open"
      <3>1. i \in DOMAIN quarantines[t] /\ Episodes[t][i] = Phase(quarantines[t][i])
        BY <2>1, EpisodesOf, PhasesOfRows
      <3>2. ~IsOpen(quarantines[t][i]) /\ quarantines[t][i] \in Row
        BY <2>1, <3>1 DEF HasOpen
      <3>3. QED
        BY <3>1, <3>2, PhaseOpen
    <2>3. QED
      BY <2>2 DEF Lifecycle!AllEnded
  <1>2. ASSUME NEW t \in Tests
        PROVE  Episodes'[t] = IF t \in Inserted(p) THEN Append(Episodes[t], "open")
                              ELSE Episodes[t]
    <2> DEFINE new == NewRow(planned[p][t], Len(runs[t]))
    <2>1. quarantines'[t] = IF t \in Inserted(p) THEN Append(quarantines[t], new)
                            ELSE quarantines[t]
      BY DEF Record
    <2>2. quarantines[t] \in Seq(Row)
      BY DEF TypeOK
    <2>3. Phase(new) = "open"
      BY DEF NewRow, Phase, IsOpen, OpenStates
    <2>4. PhasesOf(Append(quarantines[t], new)) = Append(PhasesOf(quarantines[t]), "open")
      <3> HIDE DEF new
      <3>1. PhasesOf(quarantines[t]) =
                [i \in 1 .. Len(quarantines[t]) |-> Phase(quarantines[t][i])]
        BY <2>2 DEF PhasesOf
      <3>2. PhasesOf(Append(quarantines[t], new)) =
                [i \in 1 .. Len(quarantines[t]) + 1 |->
                    IF i = Len(quarantines[t]) + 1 THEN "open"
                    ELSE Phase(quarantines[t][i])]
        BY <2>2, <2>3 DEF PhasesOf
      <3>3. Append(PhasesOf(quarantines[t]), "open") =
                [i \in 1 .. Len(quarantines[t]) + 1 |->
                    IF i = Len(quarantines[t]) + 1 THEN "open"
                    ELSE Phase(quarantines[t][i])]
        BY <2>2, <3>1
      <3>4. QED
        BY <3>2, <3>3
    <2>5. QED
      BY <2>1, <2>4, EpisodesOf
  <1>3. Episodes' = [t \in Tests |-> IF t \in Inserted(p)
                                     THEN Append(Episodes[t], "open") ELSE Episodes[t]]
    BY <1>2 DEF Episodes
  <1>4. QED
    BY <1>1, <1>3 DEF Lifecycle!Open

\* Only the newest row of a test can be overdue, so an abstract step that
\* ends whatever is open in the tests with an overdue row ends that row.
LEMMA ExpireEnds ==
    ASSUME TypeOK, OnlyNewestOpen, NEW p \in Procs, Expire(p)
    PROVE  \E ts \in SUBSET Tests : Lifecycle!End(ts, "expired")
  <1> DEFINE ts == {t \in Tests :
                        \E i \in DOMAIN quarantines[t] : Overdue(quarantines[t][i])}
  <1>1. ASSUME NEW t \in Tests
        PROVE  Episodes'[t] = [i \in DOMAIN Episodes[t] |->
                    IF t \in ts /\ Episodes[t][i] = "open" THEN "expired"
                    ELSE Episodes[t][i]]
    <2>1. quarantines[t] \in Seq(Row)
      BY DEF TypeOK
    <2>2. quarantines'[t] = [i \in DOMAIN quarantines[t] |->
                IF Overdue(quarantines[t][i])
                THEN Closed(quarantines[t][i], "expired")
                ELSE quarantines[t][i]]
      BY DEF Expire
    <2>3. ASSUME NEW i \in DOMAIN quarantines[t]
          PROVE  Phase(quarantines'[t][i]) =
                    IF t \in ts /\ Phase(quarantines[t][i]) = "open" THEN "expired"
                    ELSE Phase(quarantines[t][i])
      <3>1. quarantines[t][i] \in Row
        BY <2>1
      <3>2. CASE Overdue(quarantines[t][i])
        BY <2>2, <3>1, <3>2, PhaseOpen, PhaseOfClosed DEF Overdue
      <3>3. CASE ~Overdue(quarantines[t][i])
        <4>1. quarantines'[t][i] = quarantines[t][i]
          BY <2>2, <3>3
        <4>2. ~(t \in ts /\ IsOpen(quarantines[t][i]))
          BY <3>3 DEF OnlyNewestOpen, Overdue
        <4>3. QED
          BY <3>1, <4>1, <4>2, PhaseOpen
      <3>4. QED
        BY <3>2, <3>3
    <2>4. DOMAIN quarantines'[t] = DOMAIN quarantines[t]
      BY <2>2
    <2> HIDE DEF ts
    <2>5. PhasesOf(quarantines'[t]) =
            [i \in DOMAIN quarantines[t] |-> Phase(quarantines'[t][i])]
      BY <2>4 DEF PhasesOf
    <2>6. [i \in DOMAIN PhasesOf(quarantines[t]) |->
                IF t \in ts /\ PhasesOf(quarantines[t])[i] = "open" THEN "expired"
                ELSE PhasesOf(quarantines[t])[i]]
          = [i \in DOMAIN quarantines[t] |-> Phase(quarantines'[t][i])]
      BY <2>3, PhasesOfRows
    <2>7. QED
      BY <2>5, <2>6, EpisodesOf
  <1>2. Episodes' = [t \in Tests |-> [i \in DOMAIN Episodes[t] |->
                    IF t \in ts /\ Episodes[t][i] = "open" THEN "expired"
                    ELSE Episodes[t][i]]]
    BY <1>1 DEF Episodes
  <1>3. Lifecycle!End(ts, "expired")
    BY <1>2 DEF Lifecycle!End
  <1>4. QED
    BY <1>3

\* A release ends the episode of one test, or none if the row was closed meanwhile.
LEMMA CloseEnds ==
    ASSUME TypeOK, OnlyNewestOpen, NEW p \in Procs, Close(p)
    PROVE  \E ts \in SUBSET Tests : Lifecycle!End(ts, "released")
  <1> PICK id \in closing[p] :
            quarantines' = [quarantines EXCEPT ![id[1]][id[2]] =
                            IF Releasable(@) THEN Closed(@, "released") ELSE @]
    BY DEF Close
  <1> DEFINE ts == {t \in Tests : t = id[1] /\ id[2] \in DOMAIN quarantines[t]
                                  /\ IsOpen(quarantines[t][id[2]])}
  <1>1. ASSUME NEW t \in Tests
        PROVE  Episodes'[t] = [i \in DOMAIN Episodes[t] |->
                    IF t \in ts /\ Episodes[t][i] = "open" THEN "released"
                    ELSE Episodes[t][i]]
    <2>1. quarantines[t] \in [1 .. Len(quarantines[t]) -> Row]
          /\ quarantines[t] \in Seq(Row)
      BY DEF TypeOK
    <2>2. /\ DOMAIN quarantines'[t] = DOMAIN quarantines[t]
          /\ \A i \in DOMAIN quarantines[t] :
                quarantines'[t][i] =
                    IF t = id[1] /\ i = id[2] /\ IsOpen(quarantines[t][i])
                    THEN Closed(quarantines[t][i], "released")
                    ELSE quarantines[t][i]
      BY <2>1 DEF TypeOK, Releasable
    <2>3. ASSUME NEW i \in DOMAIN quarantines[t]
          PROVE  Phase(quarantines'[t][i]) =
                    IF t \in ts /\ Phase(quarantines[t][i]) = "open" THEN "released"
                    ELSE Phase(quarantines[t][i])
      <3>1. quarantines[t][i] \in Row
        BY <2>1
      <3>2. CASE t = id[1] /\ i = id[2] /\ IsOpen(quarantines[t][i])
        BY <2>2, <3>1, <3>2, PhaseOpen, PhaseOfClosed
      <3>3. CASE ~(t = id[1] /\ i = id[2] /\ IsOpen(quarantines[t][i]))
        <4>1. quarantines'[t][i] = quarantines[t][i]
          BY <2>2, <3>3
        <4>2. ~(t \in ts /\ IsOpen(quarantines[t][i]))
          BY <3>3 DEF OnlyNewestOpen
        <4>3. QED
          BY <3>1, <4>1, <4>2, PhaseOpen
      <3>4. QED
        BY <3>2, <3>3
    <2> HIDE DEF ts
    <2>4. PhasesOf(quarantines'[t]) =
            [i \in DOMAIN quarantines[t] |-> Phase(quarantines'[t][i])]
      BY <2>2 DEF PhasesOf
    <2>5. [i \in DOMAIN PhasesOf(quarantines[t]) |->
                IF t \in ts /\ PhasesOf(quarantines[t])[i] = "open" THEN "released"
                ELSE PhasesOf(quarantines[t])[i]]
          = [i \in DOMAIN quarantines[t] |-> Phase(quarantines'[t][i])]
      BY <2>3, PhasesOfRows
    <2>6. QED
      BY <2>4, <2>5, EpisodesOf
  <1>2. Episodes' = [t \in Tests |-> [i \in DOMAIN Episodes[t] |->
                    IF t \in ts /\ Episodes[t][i] = "open" THEN "released"
                    ELSE Episodes[t][i]]]
    BY <1>1 DEF Episodes
  <1>3. Lifecycle!End(ts, "released")
    BY <1>2 DEF Lifecycle!End
  <1>4. QED
    BY <1>3

\* A day that passes ends nothing.
LEMMA TickStutters ==
    ASSUME TypeOK, Tick
    PROVE  Episodes' = Episodes
  <1>1. ASSUME NEW t \in Tests
        PROVE  Episodes'[t] = Episodes[t]
    <2>1. quarantines[t] \in Seq(Row)
      BY DEF TypeOK
    <2>2. quarantines'[t] = [i \in DOMAIN quarantines[t] |->
                IF IsOpen(quarantines[t][i]) THEN Aged(quarantines[t][i])
                ELSE quarantines[t][i]]
      BY DEF Tick
    <2>3. \A i \in DOMAIN quarantines[t] :
                Phase(quarantines'[t][i]) = Phase(quarantines[t][i])
      BY <2>1, <2>2, PhaseOfAged
    <2>4. DOMAIN quarantines'[t] = DOMAIN quarantines[t]
      BY <2>2
    <2>5. PhasesOf(quarantines'[t]) = PhasesOf(quarantines[t])
      BY <2>3, <2>4 DEF PhasesOf
    <2>6. QED
      BY <2>5, EpisodesOf
  <1>2. QED
    BY <1>1 DEF Episodes

\* Whatever interleaves, the stored rows go through the lifecycle of
\* QuarantineLifecycle: every step is an abstract step or changes no episode.
THEOREM StoreImplementsLifecycle == Spec => ImplementsLifecycle
  <1>1. Init => Lifecycle!Init
    BY DEF Init, Lifecycle!Init, Episodes
  <1>2. TypeOK /\ OnlyNewestOpen /\ [Next]_vars => [Lifecycle!Next]_Episodes
    <2> SUFFICES ASSUME TypeOK, OnlyNewestOpen, [Next]_vars
                 PROVE  [Lifecycle!Next]_Episodes
      OBVIOUS
    <2>1. CASE quarantines' = quarantines
      BY <2>1 DEF Episodes
    <2>2. CASE Tick
      BY <2>2, TickStutters
    <2>3. ASSUME NEW p \in Procs, Record(p)
          PROVE  Lifecycle!Next
      <3>1. Inserted(p) \in SUBSET Tests
        BY DEF Inserted
      <3>2. QED
        BY <2>3, <3>1, RecordOpens DEF Lifecycle!Next
    <2>4. ASSUME NEW p \in Procs, Expire(p) \/ Close(p)
          PROVE  Lifecycle!Next
      BY <2>4, ExpireEnds, CloseEnds DEF Lifecycle!Next
    <2>5. QED
      BY <2>1, <2>2, <2>3, <2>4
         DEF Next, Policy, Triage, vars, store, Ingest, TriageDetect,
             TriageRecord, TriageCrash, Start, DetectTest, ReadOpen, Evaluate,
             StoreFull, List, Check, Report, Crash
  <1>3. Init => OnlyNewestOpen
    BY DEF Init, OnlyNewestOpen
  <1>4. TypeOK /\ OnlyNewestOpen /\ [Next]_vars => OnlyNewestOpen'
    BY OnlyNewestOpenStep
  <1>5. QED
    BY <1>1, <1>2, <1>3, <1>4, TypeCorrect, PTL
       DEF Spec, ImplementsLifecycle, Lifecycle!Spec

-----------------------------------------------------------------------------
(* Quarantines are closed for a reason.                                    *)

\* Some block of consecutive executions had enough passes, and nothing that
\* failed.
CleanBlock(history, first, last) ==
    LET Of(ks) == {n \in first .. last : history[n].kind \in ks}
    IN  /\ Cardinality(Of({"pass", "rerun"})) >= CleanRuns
        /\ Of({"pass", "rerun", "skip"}) = first .. last

Earned(history) ==
    \E first, last \in 1 .. Len(history) : CleanBlock(history, first, last)

\* A bounded set of numbers has a greatest one.
LEMMA GreatestOf ==
    ASSUME NEW limit \in Nat, NEW S \in SUBSET (0 .. limit), S # {}
    PROVE  \E m \in S : \A n \in S : n <= m
  <1> DEFINE Room == {limit - n : n \in S}
  <1>1. Room \in SUBSET Nat /\ Room # {}
    OBVIOUS
  <1>2. PICK least \in Room : \A n \in Room : <<n, least>> \notin OpToRel(<, Nat)
    <2> HIDE DEF Room
    <2>1. QED
      BY <1>1, NatLessThanWellFounded, WFMin
  <1>3. PICK m \in S : least = limit - m
    BY <1>2
  <1>4. ASSUME NEW n \in S
        PROVE  n <= m
    <2>1. ~(limit - n < limit - m)
      BY <1>1, <1>2, <1>3 DEF OpToRel
    <2>2. QED
      BY <2>1
  <1>5. QED
    BY <1>4

\* The rows are the executions in reverse.
LEMMA RowsReverse ==
    ASSUME NEW history \in Seq(Execution)
    PROVE  /\ DOMAIN Rows(history) = 1 .. Len(history) /\ Len(history) \in Nat
           /\ \A i \in 1 .. Len(history) :
                /\ Len(history) + 1 - i \in 1 .. Len(history)
                /\ Rows(history)[i].outcome = OutcomeOf(history[Len(history) + 1 - i].kind)
                /\ history[Len(history) + 1 - i].kind \in Kinds
  <1>1. Len(history) \in Nat
    OBVIOUS
  <1>2. ASSUME NEW i \in 1 .. Len(history)
        PROVE  /\ Len(history) + 1 - i \in 1 .. Len(history)
               /\ history[Len(history) + 1 - i].kind \in Kinds
    <2>1. Len(history) + 1 - i \in 1 .. Len(history)
      BY <1>1
    <2>2. history[Len(history) + 1 - i] \in Execution
      BY <2>1
    <2>3. QED
      BY <2>1, <2>2 DEF Execution
  <1>3. QED
    BY <1>1, <1>2 DEF Rows, RowAt

\* A release is due only to a test that has passed often enough in a row.
LEMMA ReleaseIsEarned ==
    ASSUME NEW history \in Seq(Execution), ShouldRelease(history)
    PROVE  Earned(history)
  <1> DEFINE rows == Rows(history)
             size == Len(history)
             recent == {i \in DOMAIN rows : i <= RecentLimit}
             counted == {k \in recent : CountsAsObservation(rows[k])}
             outcomes == RecentOutcomes(history)
             clean == {i \in DOMAIN outcomes : \A k \in DOMAIN outcomes : k <= i => outcomes[k]}
  <1>1. /\ DOMAIN rows = 1 .. size /\ size \in Nat
        /\ \A i \in 1 .. size : /\ size + 1 - i \in 1 .. size
                                /\ rows[i].outcome = OutcomeOf(history[size + 1 - i].kind)
                                /\ history[size + 1 - i].kind \in Kinds
    BY RowsReverse
  <1>2. outcomes = [i \in counted |-> Passes(rows[i])]
    BY DEF RecentOutcomes
  <1>3. Cardinality(clean) >= CleanRuns
    BY DEF ShouldRelease, ConsecutiveCleanRuns
  <1>4. \A i \in 1 .. size :
           /\ rows[i].outcome = "pass" => history[size + 1 - i].kind \in {"pass", "rerun"}
           /\ rows[i].outcome = "skip" => history[size + 1 - i].kind = "skip"
    <2>1. ASSUME NEW kind \in Kinds
          PROVE  /\ OutcomeOf(kind) = "pass" => kind \in {"pass", "rerun"}
                 /\ OutcomeOf(kind) = "skip" => kind = "skip"
      BY BoundsAssumption DEF OutcomeOf
    <2>2. QED
      BY <1>1, <2>1
  <1> HIDE DEF rows, size
  <1>5. \A i \in counted : i \in 1 .. size /\ i <= RecentLimit /\ rows[i].outcome # "skip"
    BY <1>1 DEF CountsAsObservation
  <1>6. \A i \in 1 .. size : i <= RecentLimit /\ i \notin counted => rows[i].outcome = "skip"
    BY <1>1 DEF CountsAsObservation
  <1>7. \A i \in counted : outcomes[i] => rows[i].outcome = "pass"
    BY <1>2 DEF Passes
  <1>8. DOMAIN outcomes = counted
    BY <1>2
  <1> HIDE DEF counted, outcomes
  <1>9. \A i \in clean : i \in counted /\ \A k \in counted : k <= i => rows[k].outcome = "pass"
    BY <1>7, <1>8
  <1>10. clean \in SUBSET (0 .. size)
    BY <1>1, <1>5, <1>9
  <1> HIDE DEF clean
  <1>11. clean # {}
    <2>1. CleanRuns \in Nat /\ CleanRuns # 0
      BY QuarantineConfigAssumption
    <2>2. SUFFICES ASSUME clean = {}
                   PROVE  FALSE
      OBVIOUS
    <2>3. Cardinality(clean) = 0
      BY <2>2, FS_EmptySet
    <2>4. QED
      BY <1>3, <2>1, <2>3
  <1>12. PICK m \in clean : \A n \in clean : n <= m
    BY <1>1, <1>10, <1>11, GreatestOf
  <1> DEFINE first == size + 1 - m
  <1>13. m \in 1 .. size /\ m <= RecentLimit /\ first \in 1 .. size
    BY <1>1, <1>5, <1>9, <1>12
  <1>14. ASSUME NEW n \in first .. size
         PROVE  history[n].kind \in {"pass", "rerun", "skip"}
    <2> DEFINE i == size + 1 - n
    <2>1. i \in 1 .. m /\ i \in 1 .. size /\ size + 1 - i = n /\ i <= m
      BY <1>1, <1>13
    <2> HIDE DEF i
    <2>2. i <= RecentLimit
      BY <1>13, <2>1, QuarantineConfigAssumption
    <2>3. rows[i].outcome = "pass" \/ rows[i].outcome = "skip"
      BY <1>6, <1>9, <1>12, <2>1, <2>2
    <2>4. QED
      BY <1>4, <2>1, <2>3
  <1>15. ASSUME NEW i \in clean
         PROVE  size + 1 - i \in first .. size /\ history[size + 1 - i].kind \in {"pass", "rerun"}
    <2>1. i \in 1 .. size /\ i <= m /\ rows[i].outcome = "pass"
      BY <1>5, <1>9, <1>12
    <2>2. QED
      BY <1>1, <1>4, <1>13, <2>1
  <1> DEFINE passed == {n \in first .. size : history[n].kind \in {"pass", "rerun"}}
             place == [i \in clean |-> size + 1 - i]
  <1>16. place \in Injection(clean, passed)
    <2>1. place \in [clean -> passed]
      BY <1>15
    <2>2. \A i, j \in clean : place[i] = place[j] => i = j
      BY <1>1, <1>10
    <2>3. QED
      BY <2>1, <2>2 DEF Injection, IsInjective
  <1>17. IsFiniteSet(clean) /\ IsFiniteSet(passed)
    <2>1. IsFiniteSet(0 .. size)
      BY <1>1, FS_Interval
    <2>2. passed \in SUBSET (0 .. size)
      BY <1>1, <1>13
    <2> HIDE DEF passed
    <2>3. QED
      BY <1>10, <2>1, <2>2, FS_Subset
  <1> HIDE DEF passed, place
  <1>18. Cardinality(clean) <= Cardinality(passed)
    BY <1>16, <1>17, FS_Injection
  <1>19. Cardinality(passed) >= CleanRuns
    BY <1>3, <1>17, <1>18, FS_CardinalityType, QuarantineConfigAssumption
  <1>20. CleanBlock(history, first, size)
    BY <1>14, <1>19 DEF CleanBlock, passed
  <1>21. size \in 1 .. size
    BY <1>1, <1>13
  <1> HIDE DEF first
  <1>22. QED
    BY <1>13, <1>20, <1>21 DEF Earned, size

\* What was earned stays earned: executions are only added.
LEMMA EarnedStays ==
    ASSUME TypeOK, [Next]_vars, NEW t \in Tests, Earned(runs[t])
    PROVE  Earned(runs'[t])
  <1>1. runs[t] \in Seq(Execution) /\ runs'[t] \in Seq(Execution)
    BY HistoryGrows
  <1>2. CASE runs'[t] = runs[t]
    BY <1>2
  <1>3. ASSUME NEW x, runs'[t] = Append(runs[t], x)
        PROVE  Earned(runs'[t])
    <2> DEFINE old == runs[t]
               new == runs'[t]
    <2>1. /\ Len(old) \in Nat /\ Len(new) = Len(old) + 1
          /\ \A n \in 1 .. Len(old) : new[n] = old[n]
      BY <1>1, <1>3
    <2>2. PICK first \in 1 .. Len(old), last \in 1 .. Len(old) : CleanBlock(old, first, last)
      BY DEF Earned
    <2> HIDE DEF old, new
    <2>3. \A n \in first .. last : new[n] = old[n]
      BY <2>1, <2>2
    <2>4. \A ks : {n \in first .. last : new[n].kind \in ks} = {n \in first .. last : old[n].kind \in ks}
      BY <2>3
    <2>5. CleanBlock(new, first, last)
      BY <2>2, <2>4 DEF CleanBlock
    <2>6. first \in 1 .. Len(new) /\ last \in 1 .. Len(new)
      BY <2>1, <2>2
    <2>7. QED
      BY <2>5, <2>6 DEF Earned, new
  <1>4. QED
    BY <1>2, <1>3, HistoryGrows

\* A row is closed by an invocation of Expire when no day is left, or by one
\* of Close that had decided to release it.
LEMMA RowEnds ==
    ASSUME TypeOK, [Next]_vars, NEW t \in Tests, NEW i \in DOMAIN quarantines'[t]
    PROVE  \/ i \in DOMAIN quarantines[t] /\ quarantines'[t][i] = quarantines[t][i]
           \/ quarantines'[t][i].state \in OpenStates
           \/ quarantines'[t][i].state = "expired" /\ quarantines'[t][i].left = 0
           \/ /\ quarantines'[t][i].state = "released"
              /\ \E p \in Procs : \E id \in closing[p] : id[1] = t
  <1>1. quarantines[t] \in Seq(Row) /\ quarantines'[t] \in Seq(Row)
    BY NextType DEF TypeOK
  <1>2. CASE quarantines' = quarantines
    BY <1>2
  <1>3. CASE Tick
    <2>1. quarantines'[t] = [k \in DOMAIN quarantines[t] |->
                IF IsOpen(quarantines[t][k]) THEN Aged(quarantines[t][k])
                ELSE quarantines[t][k]]
      BY <1>3 DEF Tick
    <2>2. i \in DOMAIN quarantines[t] /\ quarantines[t][i] \in Row
      BY <1>1, <2>1
    <2>3. QED
      BY <2>1, <2>2, AgedRow DEF IsOpen
  <1>4. ASSUME NEW p \in Procs, Expire(p)
        PROVE  \/ i \in DOMAIN quarantines[t] /\ quarantines'[t][i] = quarantines[t][i]
               \/ quarantines'[t][i].state = "expired" /\ quarantines'[t][i].left = 0
    <2>1. quarantines'[t] = [k \in DOMAIN quarantines[t] |->
                IF Overdue(quarantines[t][k]) THEN Closed(quarantines[t][k], "expired")
                ELSE quarantines[t][k]]
      BY <1>4 DEF Expire
    <2>2. i \in DOMAIN quarantines[t] /\ quarantines[t][i] \in Row
      BY <1>1, <2>1
    <2>3. CASE ~Overdue(quarantines[t][i])
      BY <2>1, <2>2, <2>3
    <2>4. CASE Overdue(quarantines[t][i])
      BY <2>1, <2>2, <2>4 DEF Overdue, Closed, Row
    <2>5. QED
      BY <2>3, <2>4
  <1>5. ASSUME NEW p \in Procs, Record(p)
        PROVE  \/ i \in DOMAIN quarantines[t] /\ quarantines'[t][i] = quarantines[t][i]
               \/ quarantines'[t][i].state \in OpenStates
    <2> DEFINE new == NewRow(planned[p][t], Len(runs[t]))
    <2>1. new.state \in OpenStates
      BY DEF NewRow, OpenStates
    <2>2. quarantines'[t] = quarantines[t] \/ quarantines'[t] = Append(quarantines[t], new)
      BY <1>5 DEF Record
    <2> HIDE DEF new
    <2>3. CASE quarantines'[t] = Append(quarantines[t], new)
      <3>1. \/ i \in DOMAIN quarantines[t] /\ quarantines'[t][i] = quarantines[t][i]
            \/ quarantines'[t][i] = new
        BY <1>1, <2>3
      <3>2. QED
        BY <2>1, <3>1
    <2>4. QED
      BY <2>2, <2>3
  <1>6. ASSUME NEW p \in Procs, Close(p)
        PROVE  \/ i \in DOMAIN quarantines[t] /\ quarantines'[t][i] = quarantines[t][i]
               \/ /\ quarantines'[t][i].state = "released"
                  /\ \E id \in closing[p] : id[1] = t
    <2>1. PICK id \in closing[p] :
            quarantines' = [quarantines EXCEPT ![id[1]][id[2]] =
                            IF Releasable(@) THEN Closed(@, "released") ELSE @]
      BY <1>6 DEF Close
    <2>2. quarantines[t] \in [1 .. Len(quarantines[t]) -> Row]
      BY <1>1
    <2>3. /\ DOMAIN quarantines'[t] = DOMAIN quarantines[t]
          /\ \A k \in DOMAIN quarantines[t] :
                quarantines'[t][k] =
                    IF t = id[1] /\ k = id[2] /\ IsOpen(quarantines[t][k])
                    THEN Closed(quarantines[t][k], "released")
                    ELSE quarantines[t][k]
      BY <2>1, <2>2 DEF TypeOK, Releasable
    <2>4. Closed(quarantines[t][i], "released").state = "released"
      BY <2>2, <2>3, ClosedRow DEF States
    <2>5. QED
      BY <2>3, <2>4
  <1>7. QED
    BY <1>2, <1>3, <1>4, <1>5, <1>6
       DEF Next, Policy, Triage, vars, store, Ingest, TriageDetect, TriageRecord,
           TriageCrash, Start, DetectTest, ReadOpen, Evaluate, StoreFull, List,
           Check, Report, Crash

\* The reason travels with the decision: what a process has decided to release
\* has earned it, however long ago that was, and so has every released row.
ReasonInv ==
    /\ \A p \in Procs : \A id \in closing[p] : Earned(runs[id[1]])
    /\ \A t \in Tests : \A i \in DOMAIN quarantines[t] :
        /\ quarantines[t][i].state = "expired" => quarantines[t][i].left = 0
        /\ quarantines[t][i].state = "released" => Earned(runs[t])

\* Only a due release is decided.
LEMMA ClosingStep ==
    ASSUME TypeOK, [Next]_vars, NEW p \in Procs, NEW id \in closing'[p]
    PROVE  /\ id[1] \in Tests
           /\ id \in closing[p] \/ ShouldRelease(runs[id[1]])
  <1>1. id[1] \in Tests
    BY NextType DEF TypeOK, RowIds
  <1>2. CASE closing' = closing
    BY <1>1, <1>2
  <1>3. ASSUME NEW q \in Procs, closing' = [closing EXCEPT ![q] = {}]
        PROVE  id \in closing[p]
    BY <1>3 DEF TypeOK
  <1>4. ASSUME NEW q \in Procs, NEW id2 \in RowIds, Check(q, id2)
        PROVE  id \in closing[p] \/ ShouldRelease(runs[id[1]])
    <2>1. CASE ShouldRelease(runs[id2[1]])
      <3>1. closing' = [closing EXCEPT ![q] = {id2}]
        BY <1>4, <2>1 DEF Check
      <3>2. id \in closing[p] \/ id = id2
        BY <3>1 DEF TypeOK
      <3>3. QED
        BY <2>1, <3>2
    <2>2. CASE ~ShouldRelease(runs[id2[1]])
      BY <1>4, <2>2 DEF Check
    <2>3. QED
      BY <2>1, <2>2
  <1>5. QED
    BY <1>1, <1>2, <1>3, <1>4
       DEF Next, Policy, Triage, vars, local, Ingest, TriageDetect, TriageRecord,
           TriageCrash, Tick, Start, DetectTest, Expire, ReadOpen, Evaluate,
           Record, StoreFull, List, Close, Report, Crash, Idle

\* Every step keeps the reasons.
LEMMA ReasonStep ==
    ASSUME TypeOK, ReasonInv, [Next]_vars
    PROVE  ReasonInv'
  <1>1. \A t \in Tests : Earned(runs[t]) => Earned(runs'[t])
    BY EarnedStays
  <1>2. \A t \in Tests : runs[t] \in Seq(Execution)
    BY DEF TypeOK
  <1>3. ASSUME NEW p \in Procs, NEW id \in closing'[p]
        PROVE  Earned(runs'[id[1]])
    <2>1. id[1] \in Tests /\ (id \in closing[p] \/ ShouldRelease(runs[id[1]]))
      BY <1>3, ClosingStep
    <2>2. Earned(runs[id[1]])
      BY <1>2, <2>1, ReleaseIsEarned DEF ReasonInv
    <2>3. QED
      BY <1>1, <2>1, <2>2
  <1>4. ASSUME NEW t \in Tests, NEW i \in DOMAIN quarantines'[t]
        PROVE  /\ quarantines'[t][i].state = "expired" => quarantines'[t][i].left = 0
               /\ quarantines'[t][i].state = "released" => Earned(runs'[t])
    <2>1. CASE i \in DOMAIN quarantines[t] /\ quarantines'[t][i] = quarantines[t][i]
      BY <1>1, <2>1 DEF ReasonInv
    <2>2. CASE quarantines'[t][i].state \in OpenStates
      BY <2>2 DEF OpenStates
    <2>3. CASE quarantines'[t][i].state = "expired" /\ quarantines'[t][i].left = 0
      BY <2>3
    <2>4. CASE /\ quarantines'[t][i].state = "released"
               /\ \E p \in Procs : \E id \in closing[p] : id[1] = t
      BY <1>1, <2>4 DEF ReasonInv
    <2>5. QED
      BY <2>1, <2>2, <2>3, <2>4, RowEnds
  <1>5. QED
    BY <1>3, <1>4 DEF ReasonInv

\* For any number of processes and executions, a test is only released after
\* a block of executions that was clean and long enough, and a quarantine only
\* expires when its TTL has run out (adr/0004:46-49).
THEOREM AlwaysClosedForAReason == Spec => []ClosedForAReason
  <1>1. Init => ReasonInv
    BY DEF Init, ReasonInv
  <1>2. TypeOK /\ ReasonInv /\ [Next]_vars => ReasonInv'
    BY ReasonStep
  <1>3. ReasonInv => ClosedForAReason
    BY DEF ReasonInv, Earned, CleanBlock, ClosedForAReason
  <1>4. QED
    BY <1>1, <1>2, <1>3, TypeCorrect, PTL DEF Spec
=============================================================================
