----------------------------- MODULE PassProofs -----------------------------
(***************************************************************************)
(* How histories are collected, for any tests, executions and links and    *)
(* any number of writes between two queries of a command. Links are only   *)
(* ever added, so what a traversal has walked stays walked: the invariant  *)
(* bounds the group of a test from below by the links there were when the  *)
(* command began, and from above by those there are now.                   *)
(***************************************************************************)
EXTENDS DetectionPass, FiniteSetTheorems, WellFoundedInduction, TLAPS

-----------------------------------------------------------------------------
(* The first and the last of a set of tests.                               *)

\* A set of tests has a least element: among the sets of the tests below
\* each, one contains none of the others.
LEMMA FirstExists ==
    ASSUME NEW T \in SUBSET Tests, T # {}
    PROVE  \E t \in T : \A u \in T : t <= u
  <1> DEFINE Below(t) == {k \in T : k < t}
             Sets == {Below(t) : t \in T}
  <1>1. IsFiniteSet(Tests) /\ Tests \subseteq Nat
    BY PassAssumption, FS_Interval DEF Tests
  <1>2. IsFiniteSet(T)
    BY <1>1, FS_Subset
  <1>3. IsWellFoundedOn(StrictSubsetOrdering(T), FiniteSubsetsOf(T))
    BY FS_StrictSubsetOrderingWellFounded
  <1>4. Sets \subseteq FiniteSubsetsOf(T) /\ Sets # {}
    <2>1. \A t \in T : Below(t) \in SUBSET T
      OBVIOUS
    <2>2. FiniteSubsetsOf(T) = SUBSET T
      BY <1>2, FS_FiniteSubsetsOfFinite
    <2>3. Sets \subseteq SUBSET T
      BY <2>1
    <2>4. PICK t \in T : TRUE
      OBVIOUS
    <2>5. Below(t) \in Sets
      OBVIOUS
    <2>6. QED
      BY <2>2, <2>3, <2>5
  <1> HIDE DEF Sets, Below
  <1>5. PICK low \in Sets : \A other \in Sets : <<other, low>> \notin StrictSubsetOrdering(T)
    BY <1>3, <1>4, WFMin
  <1>6. PICK t \in T : low = Below(t)
    BY DEF Sets
  <1>7. ASSUME NEW u \in T, u < t PROVE FALSE
    <2>1. T \subseteq Nat
      BY <1>1
    <2>2. u \in Nat /\ t \in Nat
      BY <2>1, <1>6, <1>7
    <2>3. ASSUME NEW k \in Below(u) PROVE k \in Below(t)
      <3>1. k \in T /\ k < u /\ k \in Nat
        BY <2>1 DEF Below
      <3>2. QED
        BY <1>7, <2>2, <3>1 DEF Below
    <2>4. u \in Below(t)
      BY <1>7 DEF Below
    <2>5. u \notin Below(u)
      BY <2>2 DEF Below
    <2>6. Below(u) \subseteq T /\ Below(t) \subseteq T
      BY DEF Below
    <2>7. <<Below(u), Below(t)>> \in StrictSubsetOrdering(T)
      BY <2>3, <2>4, <2>5, <2>6 DEF StrictSubsetOrdering
    <2>8. Below(u) \in Sets
      BY DEF Sets
    <2>9. QED
      BY <1>5, <1>6, <2>7, <2>8
  <1>8. QED
    BY <1>1, <1>7

\* The query takes the least test (ORDER BY id).
LEMMA FirstIsLeast ==
    ASSUME NEW T \in SUBSET Tests, T # {}
    PROVE  First(T) \in T /\ \A u \in T : First(T) <= u
  BY FirstExists DEF First

\* A group has a newest identity (max).
LEMMA NewestIsGreatest ==
    ASSUME NEW T \in SUBSET Tests, T # {}
    PROVE  Newest(T) \in T /\ \A u \in T : Newest(T) >= u
  <1> DEFINE Mirror == {u \in Tests : MaxTests + 1 - u \in T}
  <1>1. Tests \subseteq Nat /\ MaxTests \in Nat
    BY PassAssumption DEF Tests
  <1>2. \A u \in T : MaxTests + 1 - u \in Mirror
    BY <1>1 DEF Tests
  <1>3. Mirror # {} /\ Mirror \subseteq Tests
    BY <1>2
  <1>4. PICK least \in Mirror : \A u \in Mirror : least <= u
    BY <1>3, FirstExists
  <1>5. \A u \in T : MaxTests + 1 - least >= u
    BY <1>1, <1>2, <1>4
  <1>6. \E t \in T : \A u \in T : t >= u
    BY <1>4, <1>5
  <1>7. QED
    BY <1>6 DEF Newest

-----------------------------------------------------------------------------
(* The names of a test.                                                    *)

\* A test is one of its names.
LEMMA OwnName ==
    ASSUME NEW t \in Tests, NEW links
    PROVE  t \in Component(t, links) /\ Component(t, links) \subseteq Tests
  BY DEF Component

\* No link leaves the names of a test.
LEMMA NamesAreClosed ==
    ASSUME NEW t \in Tests, NEW links \in SUBSET Link
    PROVE  Closed(Component(t, links), links)
  <1> SUFFICES ASSUME NEW l \in links, EndsOf(l) \cap Component(t, links) # {},
                      NEW u \in EndsOf(l), NEW S \in SUBSET Tests, t \in S, Closed(S, links)
               PROVE  u \in Tests /\ u \in S
    <2>1. ASSUME NEW l \in links, EndsOf(l) \cap Component(t, links) # {}
          PROVE  EndsOf(l) \subseteq Component(t, links)
      <3>1. EndsOf(l) \subseteq Tests
        BY DEF Link, EndsOf
      <3>2. QED
        BY <2>1, <3>1 DEF Component
    <2>2. QED
      BY <2>1 DEF Closed
  <1>1. EndsOf(l) \subseteq Tests
    BY DEF Link, EndsOf
  <1>2. PICK v \in EndsOf(l) : v \in Component(t, links)
    OBVIOUS
  <1>3. v \in S
    BY <1>2 DEF Component
  <1>4. QED
    BY <1>1, <1>3 DEF Closed

\* The names of a test lie in every set that has it and that no link leaves.
LEMMA NamesAreLeast ==
    ASSUME NEW t, NEW links, NEW S \in SUBSET Tests, t \in S, Closed(S, links)
    PROVE  Component(t, links) \subseteq S
  BY DEF Component

\* With more links a test has more names.
LEMMA NamesGrow ==
    ASSUME NEW t, NEW links, NEW more, links \subseteq more
    PROVE  Component(t, links) \subseteq Component(t, more)
  BY DEF Component, Closed

\* A link from a name leads to a name.
LEMMA LinkedNames ==
    ASSUME NEW t \in Tests, NEW links \in SUBSET Link, NEW l \in links,
           EndsOf(l) \cap Component(t, links) # {}
    PROVE  EndsOf(l) \subseteq Component(t, links)
  BY NamesAreClosed DEF Closed

\* If u is a name of t then t is a name of u: the tests that are no names of
\* u are not left by any link either.
LEMMA NamesAreMutual ==
    ASSUME NEW t \in Tests, NEW links \in SUBSET Link, NEW u \in Component(t, links)
    PROVE  t \in Component(u, links)
  <1>1. u \in Tests
    BY DEF Component
  <1> DEFINE Rest == Tests \ Component(u, links)
  <1>2. Closed(Rest, links)
    <2> SUFFICES ASSUME NEW l \in links, EndsOf(l) \cap Rest # {}, ~(EndsOf(l) \subseteq Rest)
                 PROVE  FALSE
      BY DEF Closed
    <2>1. EndsOf(l) \subseteq Tests
      BY DEF Link, EndsOf
    <2>2. EndsOf(l) \cap Component(u, links) # {}
      BY <2>1
    <2>3. EndsOf(l) \subseteq Component(u, links)
      BY <1>1, <2>2, LinkedNames
    <2>4. QED
      BY <2>3
  <1>3. CASE t \in Rest
    <2>1. u \in Rest
      BY <1>2, <1>3, NamesAreLeast
    <2>2. QED
      BY <1>1, <2>1, OwnName
  <1>4. QED
    BY <1>3

-----------------------------------------------------------------------------
(* Types.                                                                  *)

\* The newest and the recent of some executions are among them.
LEMMA WindowsAreRows ==
    ASSUME NEW rows
    PROVE  /\ Window(rows) \subseteq rows
           /\ Recent(rows) \subseteq rows
  BY DEF Window, Recent

\* PassTypeOK in parts, each about variables that change together.
StoreTyped ==
    /\ identities \in 0 .. MaxTests
    /\ aliases \subseteq Link /\ uncertain \subseteq aliases /\ quarantined \subseteq Tests

TableTyped == executions \in Seq(Execution) /\ Len(executions) <= MaxExecutions

PlaceTyped ==
    /\ command \in {"triage", "policy"}
    /\ phase \in {"idle", "next", "group", "group again", "read", "done"}
    /\ asking \in Tests \cup {0}
    /\ doubt \in BOOLEAN

SetsTyped ==
    /\ asked \subseteq Tests
    /\ frontier \subseteq seen /\ seen \subseteq Tests
    /\ unread \subseteq Tests /\ reported \subseteq Tests /\ records \subseteq Ids

GroupTyped == group \in [tests : SUBSET Tests, doubt : BOOLEAN]

DetectionsTyped ==
    detections \subseteq [asked : Tests, primary : Tests, group : SUBSET Tests,
                          doubt : BOOLEAN, window : SUBSET Ids]

BeganTyped ==
    began \in [tests : SUBSET Tests, rows : SUBSET Ids, aliases : SUBSET Link,
               uncertain : SUBSET Link]

\* The parts are the whole.
LEMMA TypesInParts ==
    PassTypeOK <=> /\ StoreTyped /\ TableTyped /\ PlaceTyped /\ SetsTyped
                   /\ GroupTyped /\ DetectionsTyped /\ BeganTyped
  BY DEF PassTypeOK, StoreTyped, TableTyped, PlaceTyped, SetsTyped, GroupTyped, DetectionsTyped,
         BeganTyped

\* Identities and executions are numbered from 1, within their bounds.
LEMMA Numbered ==
    ASSUME PassTypeOK
    PROVE  /\ 1 .. identities \subseteq Tests
           /\ DOMAIN executions \subseteq Ids
           /\ \A i \in DOMAIN executions : executions[i].test \in Tests
           /\ Len(executions) \in Nat /\ DOMAIN executions = 1 .. Len(executions)
  <1>1. TableTyped /\ StoreTyped
    BY TypesInParts
  <1>2. identities \in 0 .. MaxTests /\ MaxTests \in Nat /\ MaxExecutions \in Nat
    BY <1>1, PassAssumption DEF StoreTyped
  <1>3. 1 .. identities \subseteq Tests
    BY <1>2 DEF Tests
  <1>4. Len(executions) \in Nat /\ DOMAIN executions = 1 .. Len(executions)
    BY <1>1 DEF TableTyped
  <1>5. DOMAIN executions \subseteq Ids
    BY <1>1, <1>2, <1>4 DEF TableTyped, Ids
  <1>6. ASSUME NEW i \in DOMAIN executions PROVE executions[i].test \in Tests
    <2>1. executions[i] \in Execution
      BY <1>1 DEF TableTyped
    <2>2. QED
      BY <2>1 DEF Execution
  <1>7. QED
    BY <1>3, <1>4, <1>5, <1>6

\* The executions have places in the table.
LEMMA RowsHaveIds ==
    ASSUME PassTypeOK, NEW tests
    PROVE  RowsOf(tests) \subseteq Ids
  BY Numbered DEF RowsOf

\* A query keeps the types.
LEMMA VisitTyped ==
    ASSUME PassTypeOK, Visit
    PROVE  PlaceTyped' /\ SetsTyped'
  <1>1. StoreTyped /\ PlaceTyped /\ SetsTyped
    BY TypesInParts
  <1>2. PICK t \in frontier :
          LET found == (UNION {EndsOf(l) : l \in Touching(t)}) \ seen IN
          /\ frontier' = (frontier \ {t}) \cup found
          /\ seen' = seen \cup found
          /\ doubt' = Doubted(Touching(t))
    BY DEF Visit
  <1>3. \A l \in Touching(t) : EndsOf(l) \subseteq Tests
    BY <1>1 DEF Touching, EndsOf, Link, StoreTyped
  <1>4. UNION {EndsOf(l) : l \in Touching(t)} \subseteq Tests
    BY <1>3
  <1>5. frontier' \subseteq seen' /\ seen' \subseteq Tests
    BY <1>1, <1>2, <1>4 DEF SetsTyped
  <1>6. doubt' \in BOOLEAN
    BY <1>1, <1>2 DEF Doubted, PlaceTyped
  <1>7. UNCHANGED <<command, phase, asked, asking, unread, reported, records>>
    BY DEF Visit
  <1>8. SetsTyped'
    BY <1>1, <1>5, <1>7 DEF SetsTyped
  <1>9. QED
    BY <1>1, <1>6, <1>7, <1>8 DEF PlaceTyped

\* A report keeps the types.
LEMMA ReportTyped ==
    ASSUME PassTypeOK, Report, asking \in Tests, group.tests # {}
    PROVE  DetectionsTyped'
  <1>1. GroupTyped /\ SetsTyped /\ DetectionsTyped
    BY TypesInParts
  <1>2. group.tests \in SUBSET Tests /\ group.doubt \in BOOLEAN
    BY <1>1 DEF GroupTyped
  <1>3. Newest(group.tests) \in Tests
    BY <1>2, NewestIsGreatest
  <1>4. Recent(Window(records)) \in SUBSET Ids
    <2>1. records \subseteq Ids
      BY <1>1 DEF SetsTyped
    <2>2. QED
      BY <2>1, WindowsAreRows
  <1> DEFINE found == [asked |-> asking, primary |-> Newest(group.tests), group |-> group.tests,
                       doubt |-> group.doubt, window |-> Recent(Window(records))]
             kind == [asked : Tests, primary : Tests, group : SUBSET Tests,
                      doubt : BOOLEAN, window : SUBSET Ids]
  <1>5. found \in kind
    BY <1>2, <1>3, <1>4
  <1>6. detections' = detections \/ detections' = detections \cup {found}
    BY DEF Report
  <1> HIDE DEF found
  <1>7. detections \subseteq kind
    BY <1>1 DEF DetectionsTyped
  <1>8. detections' \subseteq kind
    BY <1>5, <1>6, <1>7
  <1>9. QED
    BY <1>8 DEF DetectionsTyped

\* A command at a test has met the test itself.
Located ==
    /\ phase \in {"group", "group again"} => asking \in Tests /\ asking \in seen
    /\ phase \in {"group again", "read"} => asking \in Tests /\ asking \in group.tests
    /\ phase \notin {"group again", "read"} => group.tests = {}

\* Every step keeps the types.
LEMMA StepTyped ==
    ASSUME PassTypeOK, Located, [PassNext]_readVars
    PROVE  PassTypeOK'
  <1>1. /\ StoreTyped /\ TableTyped /\ PlaceTyped /\ SetsTyped
        /\ GroupTyped /\ DetectionsTyped /\ BeganTyped
    BY TypesInParts
  <1> DEFINE Goal == /\ StoreTyped' /\ TableTyped' /\ PlaceTyped' /\ SetsTyped'
                     /\ GroupTyped' /\ DetectionsTyped' /\ BeganTyped'
  <1> SUFFICES Goal
    BY DEF PassTypeOK, StoreTyped, TableTyped, PlaceTyped, SetsTyped, GroupTyped,
           DetectionsTyped, BeganTyped
  <1>a. UNCHANGED passVars => PlaceTyped' /\ SetsTyped' /\ GroupTyped' /\ DetectionsTyped' /\ BeganTyped'
    BY <1>1 DEF passVars, PlaceTyped, SetsTyped, GroupTyped, DetectionsTyped, BeganTyped
  <1>b. UNCHANGED storeVars => StoreTyped' /\ TableTyped'
    BY <1>1 DEF storeVars, StoreTyped, TableTyped
  <1>c. UNCHANGED group => GroupTyped'
    BY <1>1 DEF GroupTyped
  <1>d. UNCHANGED detections => DetectionsTyped'
    BY <1>1 DEF DetectionsTyped
  <1>e. UNCHANGED began => BeganTyped'
    BY <1>1 DEF BeganTyped
  <1>f. UNCHANGED executions => TableTyped'
    BY <1>1 DEF TableTyped
  <1>2. CASE UpsertIdentity
    <2>1. StoreTyped'
      BY <1>1, <1>2, PassAssumption DEF UpsertIdentity, StoreTyped
    <2>2. QED
      BY <1>2, <2>1, <1>a, <1>f DEF UpsertIdentity
  <1>3. CASE RecordExecution
    <2>1. PICK t \in 1 .. identities, at \in Times :
            executions' = Append(executions, [test |-> t, at |-> at])
      BY <1>3 DEF RecordExecution
    <2>2. t \in Tests
      BY Numbered
    <2> DEFINE row == [test |-> t, at |-> at]
    <2>3. row \in Execution
      BY <2>2 DEF Execution
    <2> HIDE DEF row
    <2>4. executions \in Seq(Execution) /\ executions' = Append(executions, row)
      BY <1>1, <2>1 DEF TableTyped, row
    <2>5. executions' \in Seq(Execution) /\ Len(executions') = Len(executions) + 1
      BY <2>3, <2>4
    <2>6. Len(executions) \in Nat /\ MaxExecutions \in Nat /\ Len(executions) < MaxExecutions
      BY <1>3, Numbered, PassAssumption DEF RecordExecution
    <2>7. TableTyped'
      BY <2>5, <2>6 DEF TableTyped
    <2>8. UNCHANGED <<identities, aliases, uncertain, quarantined, passVars>>
      BY <1>3 DEF RecordExecution
    <2>9. StoreTyped'
      BY <1>1, <2>8 DEF StoreTyped
    <2>10. QED
      BY <2>7, <2>8, <2>9, <1>a
  <1>4. CASE RecordAlias
    <2>1. PICK l \in Link, certain \in BOOLEAN :
            /\ aliases' = aliases \cup {l}
            /\ uncertain' = IF certain THEN uncertain \ {l}
                            ELSE IF l \in aliases THEN uncertain ELSE uncertain \cup {l}
      BY <1>4 DEF RecordAlias
    <2>2. UNCHANGED <<identities, executions, quarantined, passVars>>
      BY <1>4 DEF RecordAlias
    <2>3. StoreTyped'
      BY <1>1, <2>1, <2>2 DEF StoreTyped
    <2>4. QED
      BY <2>2, <2>3, <1>a, <1>f
  <1>5. CASE Begin
    <2>1. asked' \subseteq Tests
      BY <1>5, Numbered DEF Begin
    <2>2. UNCHANGED <<asking, frontier, seen, doubt, group, unread, records, reported, detections>>
      BY <1>5 DEF Begin
    <2>3. SetsTyped'
      BY <1>1, <2>1, <2>2 DEF SetsTyped
    <2>4. PlaceTyped'
      BY <1>1, <1>5, <2>2 DEF Begin, PlaceTyped
    <2>5. BeganTyped'
      <3>1. 1 .. identities \in SUBSET Tests /\ DOMAIN executions \in SUBSET Ids
        BY Numbered
      <3>2. aliases \in SUBSET Link /\ uncertain \in SUBSET Link
        BY <1>1 DEF StoreTyped
      <3>3. began' = [tests |-> 1 .. identities, rows |-> DOMAIN executions, aliases |-> aliases,
                      uncertain |-> uncertain]
        BY <1>5 DEF Begin, Store
      <3>4. QED
        BY <3>1, <3>2, <3>3 DEF BeganTyped
    <2>6. UNCHANGED storeVars
      BY <1>5 DEF Begin
    <2>7. QED
      BY <1>b, <1>c, <1>d, <2>2, <2>3, <2>4, <2>5, <2>6
  <1>6. CASE NextIdentity
    <2>1. asked \in SUBSET Tests /\ asked # {}
      BY <1>1, <1>6 DEF NextIdentity, SetsTyped
    <2>2. First(asked) \in Tests
      BY <2>1, FirstIsLeast
    <2>3. PlaceTyped' /\ SetsTyped'
      BY <1>1, <1>6, <2>1, <2>2 DEF NextIdentity, Traverse, PlaceTyped, SetsTyped
    <2>4. UNCHANGED <<storeVars, group, detections, began>>
      BY <1>6 DEF NextIdentity
    <2>5. QED
      BY <2>3, <2>4, <1>b, <1>c, <1>d, <1>e
  <1>7. CASE Visit
    <2>1. UNCHANGED <<storeVars, group, detections, began>>
      BY <1>7 DEF Visit
    <2>2. QED
      BY <1>7, <2>1, <1>b, <1>c, <1>d, <1>e, VisitTyped
  <1>8. CASE GroupFound
    <2>1. UNCHANGED <<storeVars, command, asked, asking, unread, records, detections, began>>
      BY <1>8 DEF GroupFound
    <2>2. seen \in SUBSET Tests /\ doubt \in BOOLEAN /\ asking \in Tests
      BY <1>1, <1>8 DEF SetsTyped, PlaceTyped, GroupFound, Located
    <2>3. GroupTyped'
      <3>1. group' = [tests |-> seen, doubt |-> doubt]
        BY <1>8 DEF GroupFound
      <3>2. QED
        BY <2>2, <3>1 DEF GroupTyped
    <2>4. PlaceTyped' /\ SetsTyped'
      BY <1>1, <1>8, <2>1, <2>2 DEF GroupFound, Covered, Traverse, PlaceTyped, SetsTyped
    <2>5. QED
      BY <2>1, <2>3, <2>4, <1>b, <1>d, <1>e
  <1>9. CASE ReadBegins
    <2>1. PlaceTyped' /\ SetsTyped'
      BY <1>1, <1>9 DEF ReadBegins, PlaceTyped, SetsTyped
    <2>2. UNCHANGED <<storeVars, group, detections, began>>
      BY <1>9 DEF ReadBegins
    <2>3. QED
      BY <2>1, <2>2, <1>b, <1>c, <1>d, <1>e
  <1>10. CASE ReadMember
    <2>1. PICK t : records' = records \cup Window(RowsOf({t})) /\ unread' = unread \ {t}
      BY <1>10 DEF ReadMember
    <2>2. Window(RowsOf({t})) \subseteq Ids
      BY RowsHaveIds, WindowsAreRows
    <2>3. UNCHANGED <<storeVars, command, phase, asked, asking, frontier, seen, doubt, group,
                      reported, detections, began>>
      BY <1>10 DEF ReadMember
    <2>4. PlaceTyped' /\ SetsTyped'
      BY <1>1, <2>1, <2>2, <2>3 DEF PlaceTyped, SetsTyped
    <2>5. QED
      BY <2>3, <2>4, <1>b, <1>c, <1>d, <1>e
  <1>11. CASE Report
    <2>1. asking \in Tests /\ group.tests # {}
      BY <1>11 DEF Report, Located
    <2>2. DetectionsTyped'
      BY <1>11, <2>1, ReportTyped
    <2>3. UNCHANGED <<storeVars, command, asked, reported, began>>
      BY <1>11 DEF Report
    <2>4. GroupTyped'
      <3>1. group' = [tests |-> {}, doubt |-> FALSE]
        BY <1>11 DEF Report, NoGroup
      <3>2. QED
        BY <3>1 DEF GroupTyped
    <2>5. /\ phase' = "next" /\ asking' = 0 /\ frontier' = {} /\ seen' = {} /\ doubt' = FALSE
          /\ unread' = {} /\ records' = {}
      BY <1>11 DEF Report
    <2>6. PlaceTyped' /\ SetsTyped'
      BY <1>1, <2>3, <2>5 DEF PlaceTyped, SetsTyped
    <2>7. QED
      BY <2>2, <2>3, <2>4, <2>6, <1>b, <1>e
  <1>12. CASE EndPass
    <2>1. PlaceTyped' /\ SetsTyped'
      BY <1>1, <1>12 DEF EndPass, PlaceTyped, SetsTyped
    <2>2. UNCHANGED <<storeVars, group, detections, began>>
      BY <1>12 DEF EndPass
    <2>3. QED
      BY <2>1, <2>2, <1>b, <1>c, <1>d, <1>e
  <1>13. CASE Apply
    <2>1. UNCHANGED <<identities, executions, aliases, uncertain, asked, asking, frontier, seen,
                      doubt, group, unread, records>>
      BY <1>13 DEF Apply
    <2>2. command' = "policy" /\ phase' = "idle" /\ reported' = {} /\ detections' = {}
          /\ began' = NoStore
      BY <1>13 DEF Apply
    <2>3. PlaceTyped' /\ SetsTyped'
      BY <1>1, <2>1, <2>2 DEF PlaceTyped, SetsTyped
    <2>4. DetectionsTyped' /\ BeganTyped'
      BY <2>2 DEF DetectionsTyped, BeganTyped, NoStore
    <2>5. quarantined' \subseteq Tests
      <3>1. \A d \in detections : d.primary \in Tests
        BY <1>1 DEF DetectionsTyped
      <3>2. CASE UNCHANGED quarantined
        BY <1>1, <3>2 DEF StoreTyped
      <3>3. CASE \E some \in SUBSET detections, closed \in SUBSET quarantined :
                    quarantined' = (quarantined \ closed) \cup {d.primary : d \in some}
        BY <1>1, <3>1, <3>3 DEF StoreTyped
      <3>4. QED
        BY <1>13, <3>2, <3>3 DEF Apply
    <2>6. StoreTyped'
      BY <1>1, <2>1, <2>5 DEF StoreTyped
    <2>7. QED
      BY <2>1, <2>3, <2>4, <2>6, <1>c, <1>f
  <1>14. CASE UNCHANGED readVars
    BY <1>14, <1>a, <1>b DEF readVars
  <1>15. QED
    BY <1>2, <1>3, <1>4, <1>5, <1>6, <1>7, <1>8, <1>9, <1>10, <1>11, <1>12, <1>13, <1>14
    DEF PassNext, Write, Pass

\* Every step leaves a command where it was or at a test it has met.
LEMMA StepLocated ==
    ASSUME PassTypeOK, Located, [PassNext]_readVars
    PROVE  Located'
  <1>1. GroupTyped /\ SetsTyped
    BY TypesInParts
  <1>2. CASE Write \/ UNCHANGED readVars
    <2>1. UNCHANGED passVars
      BY <1>2 DEF Write, UpsertIdentity, RecordExecution, RecordAlias, readVars
    <2>2. QED
      BY <2>1 DEF passVars, Located
  <1>3. CASE Begin \/ EndPass \/ Apply
    BY <1>3 DEF Begin, EndPass, Apply, Located
  <1>4. CASE NextIdentity
    <2>1. asked \in SUBSET Tests /\ asked # {}
      BY <1>1, <1>4 DEF NextIdentity, SetsTyped
    <2>2. First(asked) \in Tests
      BY <2>1, FirstIsLeast
    <2>3. QED
      BY <1>4, <2>2 DEF NextIdentity, Traverse, Located
  <1>5. CASE Visit
    <2>1. seen \subseteq seen' /\ UNCHANGED <<phase, asking, group>>
      BY <1>5 DEF Visit
    <2>2. QED
      BY <2>1 DEF Located
  <1>6. CASE GroupFound
    <2>1. group'.tests = seen /\ phase' = "group again" /\ asking' = asking /\ seen' = {asking}
      BY <1>6 DEF GroupFound, Traverse
    <2>2. QED
      BY <1>6, <2>1 DEF GroupFound, Located
  <1>7. CASE ReadBegins \/ ReadMember
    BY <1>7 DEF ReadBegins, ReadMember, Located
  <1>8. CASE Report
    BY <1>8 DEF Report, NoGroup, Located
  <1>9. QED
    BY <1>2, <1>3, <1>4, <1>5, <1>6, <1>7, <1>8 DEF PassNext, Pass

-----------------------------------------------------------------------------
(* What a write leaves alone.                                              *)

\* A write leaves the command where it is, takes no row and no link away,
\* and makes no link uncertain that was there.
LEMMA WritesOnlyAdd ==
    ASSUME PassTypeOK, Write
    PROVE  /\ UNCHANGED passVars
           /\ identities <= identities' /\ aliases \subseteq aliases'
           /\ \A i \in DOMAIN executions :
                i \in DOMAIN executions' /\ executions'[i] = executions[i]
           /\ uncertain' \cap aliases \subseteq uncertain
           /\ \/ identities < identities'
              \/ DOMAIN executions' # DOMAIN executions
              \/ identities' = identities /\ executions' = executions
  <1>1. StoreTyped /\ TableTyped /\ identities \in Int
    BY TypesInParts DEF StoreTyped
  <1>2. CASE UpsertIdentity
    BY <1>1, <1>2 DEF UpsertIdentity
  <1>3. CASE RecordExecution
    <2>1. PICK t \in 1 .. identities, at \in Times :
            executions' = Append(executions, [test |-> t, at |-> at])
      BY <1>3 DEF RecordExecution
    <2> DEFINE row == [test |-> t, at |-> at]
    <2>2. t \in Tests
      BY Numbered
    <2>3. row \in Execution /\ executions \in Seq(Execution)
      BY <1>1, <2>2 DEF Execution, TableTyped
    <2>4. executions' = Append(executions, row)
      BY <2>1
    <2> HIDE DEF row
    <2>5. /\ DOMAIN executions' = 1 .. Len(executions) + 1
          /\ DOMAIN executions = 1 .. Len(executions) /\ Len(executions) \in Nat
          /\ \A i \in 1 .. Len(executions) : executions'[i] = executions[i]
      BY <2>3, <2>4
    <2>6. Len(executions) + 1 \in DOMAIN executions' /\ Len(executions) + 1 \notin DOMAIN executions
      BY <2>5
    <2>7. \A i \in DOMAIN executions : i \in DOMAIN executions' /\ executions'[i] = executions[i]
      BY <2>5
    <2>8. UNCHANGED <<identities, aliases, uncertain, quarantined, passVars>>
      BY <1>3 DEF RecordExecution
    <2>9. DOMAIN executions' # DOMAIN executions
      BY <2>6
    <2>10. QED
      BY <1>1, <2>7, <2>8, <2>9
  <1>4. CASE RecordAlias
    <2>1. PICK l \in Link, certain \in BOOLEAN :
            /\ aliases' = aliases \cup {l}
            /\ uncertain' = IF certain THEN uncertain \ {l}
                            ELSE IF l \in aliases THEN uncertain ELSE uncertain \cup {l}
      BY <1>4 DEF RecordAlias
    <2>2. UNCHANGED <<identities, executions, quarantined, passVars>>
      BY <1>4 DEF RecordAlias
    <2>3. QED
      BY <1>1, <2>1, <2>2
  <1>5. QED
    BY <1>2, <1>3, <1>4 DEF Write

-----------------------------------------------------------------------------
(* The invariant.                                                          *)

\* The links that a traversal has followed: those from a test it is done with.
Followed(links) == \A l \in links : EndsOf(l) \cap (seen \ frontier) # {} => EndsOf(l) \subseteq seen

\* A test ran in the lookback window, before the command began.
Ran(t) == Recent({i \in began.rows : executions[i].test = t}) # {}

\* What the command began with is still there.
BeganBefore ==
    /\ began.tests \subseteq 1 .. identities
    /\ began.rows \subseteq DOMAIN executions
    /\ began.aliases \subseteq aliases
    /\ uncertain \cap began.aliases \subseteq began.uncertain
    /\ phase = "idle" => detections = {} /\ reported = {}

\* A traversal meets names of the test only.
Walks == phase \in {"group", "group again"} => seen \subseteq Component(asking, aliases)

\* The first traversal is of a test that is in no history, and follows every
\* link from before the command.
FirstWalk ==
    phase = "group" =>
        /\ asking \notin reported
        /\ Followed(began.aliases)
        /\ \A l \in began.aliases \cap uncertain : EndsOf(l) \cap (seen \ frontier) # {} => doubt

\* The second one will meet whatever the first one did: it follows at least
\* the links there were when that ended.
SecondWalk ==
    phase = "group again" =>
        \E links \in SUBSET aliases :
            Followed(links) /\ group.tests \subseteq Component(asking, links)

\* The group lies between the names of the test when the command began and
\* its names now, apart from the other histories.
Grouped ==
    phase \in {"group again", "read"} =>
        /\ group.tests \subseteq Component(asking, aliases)
        /\ Closed(group.tests, began.aliases)
        /\ group.tests \subseteq reported
        /\ \A d \in detections : asking \notin d.group
        /\ \A l \in began.aliases \cap uncertain : EndsOf(l) \cap group.tests # {} => group.doubt

\* The executions that were read are of names of the test, and are recent if
\* one of the names ran recently.
Gathered ==
    phase = "read" =>
        /\ group.tests \subseteq seen /\ seen \subseteq Component(asking, aliases)
        /\ unread \subseteq seen
        /\ \A i \in records : i \in DOMAIN executions /\ executions[i].test \in Component(asking, aliases)
        /\ \A t \in seen \ unread : Ran(t) => Recent(records) # {}

\* The same of the histories that were handed to the detector.
Histories ==
    \A d \in detections :
        /\ d.asked \in d.group /\ d.group \subseteq reported
        /\ Closed(d.group, began.aliases)
        /\ d.group \subseteq Component(d.asked, aliases)
        /\ \A i \in d.window :
              i \in DOMAIN executions /\ executions[i].test \in Component(d.asked, aliases)
        /\ \A l \in began.aliases \cap uncertain : EndsOf(l) \cap d.group # {} => d.doubt

\* No two histories are of one test.
Apart ==
    \A d, e \in detections :
        d.asked \in Component(e.asked, began.aliases) => d.asked = e.asked

\* Every test the command is done with has its history.
NoneLost ==
    \A t \in reported \ group.tests : Ran(t) => \E d \in detections : t \in d.group

PassInv ==
    /\ PassTypeOK /\ Located
    /\ BeganBefore /\ Walks /\ FirstWalk /\ SecondWalk /\ Grouped /\ Gathered
    /\ Histories /\ Apart /\ NoneLost

\* The facts about the types that the proofs use.
LEMMA Typed ==
    ASSUME PassTypeOK
    PROVE  /\ aliases \in SUBSET Link /\ began.aliases \in SUBSET Link
           /\ seen \in SUBSET Tests /\ frontier \subseteq seen /\ asked \in SUBSET Tests
           /\ group.tests \in SUBSET Tests
           /\ \A d \in detections : d.asked \in Tests /\ d.group \in SUBSET Tests
  <1>1. StoreTyped /\ SetsTyped /\ GroupTyped /\ DetectionsTyped /\ BeganTyped
    BY TypesInParts
  <1>2. aliases \in SUBSET Link /\ seen \in SUBSET Tests /\ frontier \subseteq seen
        /\ asked \in SUBSET Tests
    BY <1>1 DEF StoreTyped, SetsTyped
  <1>3. began.aliases \in SUBSET Link
    BY <1>1 DEF BeganTyped
  <1>4. group.tests \in SUBSET Tests
    BY <1>1 DEF GroupTyped
  <1>5. \A d \in detections : d.asked \in Tests /\ d.group \in SUBSET Tests
    BY <1>1 DEF DetectionsTyped
  <1>6. QED
    BY <1>2, <1>3, <1>4, <1>5

\* A write breaks none of it.
LEMMA WriteKeeps ==
    ASSUME PassInv, Write
    PROVE  BeganBefore' /\ Walks' /\ FirstWalk' /\ SecondWalk' /\ Grouped' /\ Gathered'
           /\ Histories' /\ Apart' /\ NoneLost'
  <1>1. /\ UNCHANGED passVars
        /\ identities <= identities' /\ aliases \subseteq aliases'
        /\ \A i \in DOMAIN executions :
             i \in DOMAIN executions' /\ executions'[i] = executions[i]
        /\ uncertain' \cap aliases \subseteq uncertain
    BY WritesOnlyAdd DEF PassInv
  <1>2. UNCHANGED <<phase, asking, frontier, seen, doubt, group, unread, records, reported,
                    detections, began>>
    BY <1>1 DEF passVars
  <1>3. \A t : Component(t, aliases) \subseteq Component(t, aliases')
    BY <1>1, NamesGrow
  <1>4. began.rows \subseteq DOMAIN executions /\ began.aliases \subseteq aliases
    BY DEF PassInv, BeganBefore
  <1>5. uncertain' \cap began.aliases \subseteq uncertain \cap began.aliases
    BY <1>1, <1>4
  <1>6. \A t : Ran(t)' <=> Ran(t)
    BY <1>1, <1>2, <1>4 DEF Ran, Recent
  <1>7. BeganBefore'
    <2>1. identities \in Int /\ identities' \in Int
      <3>1. StoreTyped
        BY TypesInParts DEF PassInv
      <3>2. QED
        BY <3>1, <1>1 DEF StoreTyped, Write, UpsertIdentity, RecordExecution, RecordAlias
    <2>2. 1 .. identities \subseteq 1 .. identities'
      BY <1>1, <2>1
    <2>3. QED
      BY <1>1, <1>2, <1>5, <2>2 DEF PassInv, BeganBefore
  <1>8. Walks'
    BY <1>2, <1>3 DEF PassInv, Walks
  <1>9. FirstWalk'
    BY <1>2, <1>5 DEF PassInv, FirstWalk, Followed
  <1>10. SecondWalk'
    BY <1>1, <1>2 DEF PassInv, SecondWalk, Followed
  <1>11. Grouped'
    BY <1>2, <1>3, <1>5 DEF PassInv, Grouped
  <1>12. Gathered'
    <2>1. Gathered
      BY DEF PassInv
    <2>2. CASE phase = "read"
      <3>1. \A i \in records : i \in DOMAIN executions' /\ executions'[i] = executions[i]
        BY <1>1, <2>1, <2>2 DEF Gathered
      <3>2. Recent(records)' = Recent(records)
        BY <1>2, <3>1 DEF Recent
      <3>3. QED
        BY <1>2, <1>3, <1>6, <2>1, <3>1, <3>2 DEF Gathered
    <2>3. QED
      BY <1>2, <2>2 DEF Gathered
  <1>13. Histories'
    BY <1>1, <1>2, <1>3, <1>5 DEF PassInv, Histories
  <1>14. Apart' /\ NoneLost'
    BY <1>2, <1>6 DEF PassInv, Apart, NoneLost
  <1>15. QED
    BY <1>7, <1>8, <1>9, <1>10, <1>11, <1>12, <1>13, <1>14

-----------------------------------------------------------------------------
(* The latest of some executions.                                          *)

\* Executions are ordered by when they ran, and then by their place.
LEMMA LaterIsAnOrder ==
    ASSUME PassTypeOK, NEW i \in DOMAIN executions, NEW j \in DOMAIN executions,
           NEW k \in DOMAIN executions
    PROVE  /\ ~Later(i, i)
           /\ Later(i, j) /\ Later(j, k) => Later(i, k)
           /\ ~Later(j, i) => executions[i].at >= executions[j].at
           /\ i = j \/ Later(i, j) \/ Later(j, i)
           /\ executions[i].at \in Nat
  <1>1. TableTyped /\ Times \subseteq Nat
    BY TypesInParts, PassAssumption
  <1>2. executions[i] \in Execution /\ executions[j] \in Execution /\ executions[k] \in Execution
    BY <1>1 DEF TableTyped
  <1>3. executions[i].at \in Nat /\ executions[j].at \in Nat /\ executions[k].at \in Nat
    BY <1>1, <1>2 DEF Execution
  <1>4. i \in Nat /\ j \in Nat /\ k \in Nat
    BY Numbered
  <1>5. QED
    BY <1>3, <1>4 DEF Later

\* There is a latest one among some executions.
LEMMA LatestExists ==
    ASSUME PassTypeOK, NEW rows \in SUBSET DOMAIN executions, rows # {}
    PROVE  \E i \in rows : \A j \in rows : ~Later(j, i)
  <1> DEFINE Ahead(i) == {j \in rows : Later(j, i)}
             Sets == {Ahead(i) : i \in rows}
  <1>1. IsFiniteSet(rows)
    <2>1. DOMAIN executions = 1 .. Len(executions) /\ Len(executions) \in Nat
      BY Numbered
    <2>2. IsFiniteSet(DOMAIN executions)
      BY <2>1, FS_Interval
    <2>3. QED
      BY <2>2, FS_Subset
  <1>2. IsWellFoundedOn(StrictSubsetOrdering(rows), FiniteSubsetsOf(rows))
    BY FS_StrictSubsetOrderingWellFounded
  <1>3. Sets \subseteq FiniteSubsetsOf(rows) /\ Sets # {}
    <2>1. \A i \in rows : Ahead(i) \in SUBSET rows
      OBVIOUS
    <2>2. FiniteSubsetsOf(rows) = SUBSET rows
      BY <1>1, FS_FiniteSubsetsOfFinite
    <2>3. Sets \subseteq SUBSET rows
      BY <2>1
    <2>4. PICK i \in rows : TRUE
      OBVIOUS
    <2>5. Ahead(i) \in Sets
      OBVIOUS
    <2>6. QED
      BY <2>2, <2>3, <2>5
  <1> HIDE DEF Sets, Ahead
  <1>4. PICK few \in Sets : \A other \in Sets : <<other, few>> \notin StrictSubsetOrdering(rows)
    BY <1>2, <1>3, WFMin
  <1>5. PICK i \in rows : few = Ahead(i)
    BY DEF Sets
  <1>6. ASSUME NEW j \in rows, Later(j, i) PROVE FALSE
    <2>1. \A k \in Ahead(j) : k \in Ahead(i)
      BY <1>6, LaterIsAnOrder DEF Ahead
    <2>2. j \in Ahead(i) /\ j \notin Ahead(j)
      BY <1>6, LaterIsAnOrder DEF Ahead
    <2>3. Ahead(i) \subseteq rows /\ Ahead(j) \subseteq rows
      BY DEF Ahead
    <2>4. <<Ahead(j), Ahead(i)>> \in StrictSubsetOrdering(rows)
      BY <2>1, <2>2, <2>3 DEF StrictSubsetOrdering
    <2>5. Ahead(j) \in Sets
      BY DEF Sets
    <2>6. QED
      BY <1>4, <1>5, <2>4, <2>5
  <1>7. QED
    BY <1>6

\* If some of the executions are recent, so are some of the newest.
LEMMA RecentIsKept ==
    ASSUME PassTypeOK, NEW rows \in SUBSET DOMAIN executions, Recent(rows) # {}
    PROVE  Recent(Window(rows)) # {}
  <1>1. PICK i \in rows : executions[i].at >= Since
    BY DEF Recent
  <1>2. PICK latest \in rows : \A j \in rows : ~Later(j, latest)
    BY LatestExists
  <1>3. executions[latest].at >= executions[i].at
    BY <1>2, LaterIsAnOrder
  <1>4. executions[latest].at >= Since
    <2>1. executions[latest].at \in Nat /\ executions[i].at \in Nat /\ Since \in Nat
      BY LaterIsAnOrder, PassAssumption
    <2>2. QED
      BY <1>1, <1>3, <2>1
  <1>5. latest \in Window(rows)
    <2>1. {j \in rows : Later(j, latest)} = {}
      BY <1>2
    <2>2. Cardinality({j \in rows : Later(j, latest)}) = 0
      BY <2>1, FS_EmptySet
    <2>3. 0 < Limit
      BY PassAssumption
    <2>4. QED
      BY <2>2, <2>3 DEF Window
  <1>6. QED
    BY <1>4, <1>5 DEF Recent

-----------------------------------------------------------------------------
(* The steps of the command.                                               *)

\* A query follows the links of one test.
LEMMA VisitFollows ==
    ASSUME PassInv, Visit
    PROVE  \E t \in frontier :
             /\ seen \subseteq seen' /\ \A l \in Touching(t) : EndsOf(l) \subseteq seen'
             /\ \A x \in seen' : x \in seen \/ \E l \in Touching(t) : x \in EndsOf(l)
             /\ seen' \ frontier' \subseteq (seen \ frontier) \cup {t}
             /\ doubt' = Doubted(Touching(t))
             /\ \A links \in SUBSET aliases : Followed(links) => Followed(links)'
  <1>1. PICK t \in frontier :
          LET found == (UNION {EndsOf(l) : l \in Touching(t)}) \ seen IN
          /\ frontier' = (frontier \ {t}) \cup found
          /\ seen' = seen \cup found
          /\ doubt' = Doubted(Touching(t))
    BY DEF Visit
  <1>2. /\ seen \subseteq seen' /\ \A l \in Touching(t) : EndsOf(l) \subseteq seen'
        /\ \A x \in seen' : x \in seen \/ \E l \in Touching(t) : x \in EndsOf(l)
    BY <1>1
  <1>3. seen' \ frontier' \subseteq (seen \ frontier) \cup {t}
    BY <1>1
  <1>4. ASSUME NEW links \in SUBSET aliases, Followed(links) PROVE Followed(links)'
    <2> SUFFICES ASSUME NEW l \in links, EndsOf(l) \cap (seen' \ frontier') # {}
                 PROVE  EndsOf(l) \subseteq seen'
      BY DEF Followed
    <2>1. CASE t \in EndsOf(l)
      <3>1. l \in Touching(t)
        BY <2>1 DEF Touching
      <3>2. QED
        BY <1>2, <3>1
    <2>2. CASE t \notin EndsOf(l)
      <3>1. EndsOf(l) \cap (seen \ frontier) # {}
        BY <1>3, <2>2
      <3>2. QED
        BY <1>2, <1>4, <3>1 DEF Followed
    <2>3. QED
      BY <2>1, <2>2
  <1>5. QED
    BY <1>1, <1>2, <1>3, <1>4

\* Each query extends the traversal by names of the test.
LEMMA VisitKeeps ==
    ASSUME PassInv, Visit
    PROVE  Walks' /\ FirstWalk' /\ SecondWalk'
  <1>1. PICK t \in frontier :
             /\ seen \subseteq seen' /\ \A l \in Touching(t) : EndsOf(l) \subseteq seen'
             /\ \A x \in seen' : x \in seen \/ \E l \in Touching(t) : x \in EndsOf(l)
             /\ seen' \ frontier' \subseteq (seen \ frontier) \cup {t}
             /\ doubt' = Doubted(Touching(t))
             /\ \A links \in SUBSET aliases : Followed(links) => Followed(links)'
    BY VisitFollows
  <1>2. UNCHANGED <<aliases, uncertain, phase, asking, group, reported, began>>
    BY DEF Visit, storeVars
  <1>3. phase \in {"group", "group again"} /\ asking \in Tests
    BY DEF Visit, PassInv, Located
  <1>4. frontier \subseteq seen /\ aliases \in SUBSET Link /\ began.aliases \subseteq aliases
    BY Typed DEF PassInv, BeganBefore
  <1>5. Walks'
    <2>1. seen \subseteq Component(asking, aliases)
      BY <1>3 DEF PassInv, Walks
    <2>2. ASSUME NEW l \in Touching(t) PROVE EndsOf(l) \subseteq Component(asking, aliases)
      <3>1. l \in aliases /\ t \in EndsOf(l) /\ t \in Component(asking, aliases)
        BY <1>4, <2>1 DEF Touching
      <3>2. QED
        BY <1>3, <1>4, <3>1, LinkedNames
    <2>3. seen' \subseteq Component(asking, aliases)
      BY <1>1, <2>1, <2>2
    <2>4. QED
      BY <1>2, <2>3 DEF Walks
  <1>6. FirstWalk'
    <2>1. CASE phase = "group"
      <3>1. FirstWalk
        BY DEF PassInv
      <3>2. Followed(began.aliases)'
        <4>1. Followed(began.aliases)
          BY <2>1, <3>1 DEF FirstWalk
        <4>2. QED
          BY <1>1, <1>2, <1>4, <4>1 DEF Followed
      <3>3. ASSUME NEW l \in began.aliases \cap uncertain, EndsOf(l) \cap (seen' \ frontier') # {}
            PROVE  doubt'
        <4>1. CASE t \in EndsOf(l)
          <5>1. l \in Touching(t)
            BY <1>4, <4>1 DEF Touching
          <5>2. QED
            BY <1>1, <5>1 DEF Doubted
        <4>2. CASE t \notin EndsOf(l)
          <5>1. EndsOf(l) \cap (seen \ frontier) # {}
            BY <1>1, <3>3, <4>2
          <5>2. doubt
            BY <2>1, <3>1, <5>1 DEF FirstWalk
          <5>3. QED
            BY <1>1, <5>2 DEF Doubted
        <4>3. QED
          BY <4>1, <4>2
      <3>4. QED
        BY <1>2, <2>1, <3>1, <3>2, <3>3 DEF FirstWalk
    <2>2. QED
      BY <1>2, <2>1 DEF FirstWalk
  <1>7. SecondWalk'
    <2>1. CASE phase = "group again"
      <3>1. PICK links \in SUBSET aliases :
              Followed(links) /\ group.tests \subseteq Component(asking, links)
        BY <2>1 DEF PassInv, SecondWalk
      <3>2. Followed(links)'
        BY <1>1, <3>1
      <3>3. QED
        BY <1>2, <3>1, <3>2 DEF SecondWalk, Followed
    <2>2. QED
      BY <1>2, <2>1 DEF SecondWalk
  <1>8. QED
    BY <1>5, <1>6, <1>7

\* When the first traversal ends its group is closed under the links there
\* were, and apart from the other histories.
LEMMA GroupFoundKeeps ==
    ASSUME PassInv, GroupFound
    PROVE  Walks' /\ SecondWalk' /\ Grouped' /\ Histories' /\ NoneLost'
  <1>1. UNCHANGED <<identities, executions, aliases, uncertain, asking, detections, began>>
    BY DEF GroupFound, storeVars
  <1>2. /\ phase = "group" /\ frontier = {} /\ phase' = "group again"
        /\ group' = [tests |-> seen, doubt |-> doubt]
        /\ reported' = reported \cup seen
        /\ frontier' = {asking} /\ seen' = {asking}
    BY DEF GroupFound, Covered, Traverse
  <1>3. group'.tests = seen /\ group'.doubt = doubt
    BY <1>2
  <1>4. asking \in Tests /\ asking \in seen /\ group.tests = {}
    BY <1>2 DEF PassInv, Located
  <1>5. seen \subseteq Component(asking, aliases)
    BY <1>2 DEF PassInv, Walks
  <1>6. Walks'
    <2>1. asking \in Component(asking, aliases)
      BY <1>4, OwnName
    <2>2. QED
      BY <1>1, <1>2, <2>1 DEF Walks
  <1>7. SecondWalk'
    <2>1. Followed(aliases)'
      BY <1>2 DEF Followed
    <2>2. Followed(aliases)' /\ group'.tests \subseteq Component(asking', aliases)
      BY <1>1, <1>3, <1>5, <2>1
    <2>3. QED
      BY <1>1, <2>2 DEF SecondWalk, Followed
  <1>8. Grouped'
    <2>1. seen \ frontier = seen
      BY <1>2
    <2>2. FirstWalk /\ Histories
      BY DEF PassInv
    <2>3. Closed(seen, began.aliases)
      BY <1>2, <2>1, <2>2 DEF FirstWalk, Followed, Closed
    <2>4. \A d \in detections : asking \notin d.group
      BY <1>2, <2>2 DEF FirstWalk, Histories
    <2>5. \A l \in began.aliases \cap uncertain : EndsOf(l) \cap seen # {} => doubt
      BY <1>2, <2>1, <2>2 DEF FirstWalk
    <2>6. QED
      BY <1>1, <1>2, <1>3, <1>5, <2>3, <2>4, <2>5 DEF Grouped
  <1>9. Histories'
    <2>1. Histories
      BY DEF PassInv
    <2>2. QED
      BY <1>1, <1>2, <2>1 DEF Histories
  <1>10. NoneLost'
    <2>1. \A t : Ran(t)' <=> Ran(t)
      BY <1>1 DEF Ran, Recent
    <2>2. reported' \ group'.tests \subseteq reported \ group.tests
      BY <1>2, <1>3, <1>4
    <2>3. NoneLost
      BY DEF PassInv
    <2>4. QED
      BY <1>1, <2>1, <2>2, <2>3 DEF NoneLost
  <1>11. QED
    BY <1>6, <1>7, <1>8, <1>9, <1>10

\* When the second traversal ends it has met all of the group.
LEMMA ReadBeginsKeeps ==
    ASSUME PassInv, ReadBegins
    PROVE  Grouped' /\ Gathered'
  <1>1. UNCHANGED <<identities, executions, aliases, uncertain, asking, seen, group, reported,
                    detections, began>>
    BY DEF ReadBegins, storeVars
  <1>2. phase = "group again" /\ frontier = {} /\ phase' = "read" /\ unread' = seen /\ records' = {}
    BY DEF ReadBegins
  <1>3. PICK links \in SUBSET aliases :
          Followed(links) /\ group.tests \subseteq Component(asking, links)
    BY <1>2 DEF PassInv, SecondWalk
  <1>4. asking \in seen /\ seen \in SUBSET Tests
    BY <1>2, Typed DEF PassInv, Located
  <1>5. seen \ frontier = seen
    BY <1>2
  <1>6. Closed(seen, links)
    BY <1>3, <1>5 DEF Followed, Closed
  <1>7. group.tests \subseteq seen
    BY <1>3, <1>4, <1>6, NamesAreLeast
  <1>8. Gathered'
    <2>1. seen \subseteq Component(asking, aliases)
      BY <1>2 DEF PassInv, Walks
    <2>2. QED
      BY <1>1, <1>2, <1>7, <2>1 DEF Gathered
  <1>9. Grouped'
    BY <1>1, <1>2 DEF PassInv, Grouped
  <1>10. QED
    BY <1>8, <1>9

\* Reading the executions of a name, its recent ones are not missed.
LEMMA ReadMemberKeeps ==
    ASSUME PassInv, ReadMember
    PROVE  Gathered'
  <1>1. UNCHANGED <<identities, executions, aliases, uncertain, phase, asking, seen, group, began>>
    BY DEF ReadMember, storeVars
  <1>2. phase = "read" /\ unread # {}
    BY DEF ReadMember
  <1>3. /\ unread' = unread \ {First(unread)}
        /\ records' = records \cup Window(RowsOf({First(unread)}))
    BY DEF ReadMember
  <1>4. Gathered /\ PassTypeOK
    BY DEF PassInv
  <1>5. unread \subseteq seen /\ unread \in SUBSET Tests
    BY <1>2, <1>4, Typed DEF Gathered
  <1>6. PICK t : t = First(unread) /\ t \in unread
    BY <1>2, <1>5, FirstIsLeast
  <1>7. ASSUME NEW i \in Window(RowsOf({t}))
        PROVE  i \in DOMAIN executions /\ executions[i].test \in Component(asking, aliases)
    <2>1. i \in RowsOf({t})
      BY WindowsAreRows
    <2>2. t \in Component(asking, aliases)
      BY <1>2, <1>4, <1>5, <1>6 DEF Gathered
    <2>3. QED
      BY <2>1, <2>2 DEF RowsOf
  <1>8. ASSUME NEW u \in seen \ unread', Ran(u)
        PROVE  Recent(records') # {}
    <2>1. CASE u = t
      <3>1. PICK i \in began.rows : executions[i].test = t /\ executions[i].at >= Since
        BY <1>8, <2>1 DEF Ran, Recent
      <3>2. i \in RowsOf({t})
        BY <3>1 DEF RowsOf, PassInv, BeganBefore
      <3>3. RowsOf({t}) \in SUBSET DOMAIN executions /\ Recent(RowsOf({t})) # {}
        BY <3>1, <3>2 DEF RowsOf, Recent
      <3>4. Recent(Window(RowsOf({t}))) # {}
        BY <1>4, <3>3, RecentIsKept
      <3>5. QED
        BY <1>3, <1>6, <3>4 DEF Recent
    <2>2. CASE u # t
      <3>1. u \in seen \ unread
        BY <1>3, <1>6, <1>8, <2>2
      <3>2. Recent(records) # {}
        BY <1>2, <1>4, <1>8, <3>1 DEF Gathered
      <3>3. QED
        BY <1>3, <3>2 DEF Recent
    <2>3. QED
      BY <2>1, <2>2
  <1>9. \A u : Ran(u)' <=> Ran(u)
    BY <1>1 DEF Ran, Recent
  <1>10. Recent(records)' = Recent(records')
    BY <1>1 DEF Recent
  <1>11. \A i \in records' :
            i \in DOMAIN executions /\ executions[i].test \in Component(asking, aliases)
    BY <1>2, <1>3, <1>4, <1>6, <1>7 DEF Gathered
  <1>12. group.tests \subseteq seen /\ seen \subseteq Component(asking, aliases)
    BY <1>2, <1>4 DEF Gathered
  <1>13. unread' \subseteq seen
    BY <1>3, <1>5
  <1>14. QED
    BY <1>1, <1>8, <1>9, <1>10, <1>11, <1>12, <1>13 DEF Gathered

\* A history is added that is of no test another one is of.
LEMMA ReportKeeps ==
    ASSUME PassInv, Report
    PROVE  Histories' /\ Apart' /\ NoneLost'
  <1> DEFINE window == Recent(Window(records))
             found == [asked |-> asking, primary |-> Newest(group.tests), group |-> group.tests,
                       doubt |-> group.doubt, window |-> window]
  <1>1. UNCHANGED <<identities, executions, aliases, uncertain, reported, began>>
    BY DEF Report, storeVars
  <1>2. phase = "read" /\ unread = {} /\ group'.tests = {}
    BY DEF Report, NoGroup
  <1>3. detections' = detections \cup IF window = {} THEN {} ELSE {found}
    BY DEF Report
  <1>4. /\ found.asked = asking /\ found.group = group.tests /\ found.doubt = group.doubt
        /\ found.window = window
    OBVIOUS
  <1> HIDE DEF found
  <1>5. window \subseteq records
    BY WindowsAreRows
  <1> HIDE DEF window
  <1>6. \A d \in detections' : d \in detections \/ (d = found /\ window # {})
    BY <1>3
  <1>7. asking \in Tests /\ asking \in group.tests
    BY <1>2 DEF PassInv, Located
  <1>8. Grouped /\ Gathered /\ Histories /\ Apart /\ NoneLost
    BY DEF PassInv
  <1>9. Histories'
    <2>1. ASSUME NEW d \in detections'
          PROVE  /\ d.asked \in d.group /\ d.group \subseteq reported
                 /\ Closed(d.group, began.aliases)
                 /\ d.group \subseteq Component(d.asked, aliases)
                 /\ \A i \in d.window :
                       i \in DOMAIN executions /\ executions[i].test \in Component(d.asked, aliases)
                 /\ \A l \in began.aliases \cap uncertain : EndsOf(l) \cap d.group # {} => d.doubt
      <3>1. CASE d \in detections
        BY <1>8, <3>1 DEF Histories
      <3>2. CASE d = found
        <4>1. \A i \in window :
                 i \in DOMAIN executions /\ executions[i].test \in Component(asking, aliases)
          BY <1>2, <1>5, <1>8 DEF Gathered
        <4>2. QED
          BY <1>2, <1>4, <1>7, <1>8, <3>2, <4>1 DEF Grouped
      <3>3. QED
        BY <1>6, <3>1, <3>2
    <2>2. QED
      BY <1>1, <2>1 DEF Histories
  <1>10. Apart'
    <2>1. began.aliases \in SUBSET Link
      BY Typed DEF PassInv
    <2>2. ASSUME NEW d \in detections
          PROVE  /\ d.asked \in Tests
                 /\ asking \notin Component(d.asked, began.aliases)
                 /\ d.asked \notin Component(asking, began.aliases)
      <3>1. d.asked \in Tests /\ d.group \in SUBSET Tests
        BY Typed DEF PassInv
      <3>2. d.asked \in d.group /\ Closed(d.group, began.aliases) /\ asking \notin d.group
        BY <1>2, <1>8 DEF Histories, Grouped
      <3>3. Component(d.asked, began.aliases) \subseteq d.group
        BY <3>1, <3>2, NamesAreLeast
      <3>4. asking \notin Component(d.asked, began.aliases)
        BY <3>2, <3>3
      <3>5. d.asked \notin Component(asking, began.aliases)
        BY <1>7, <2>1, <3>4, NamesAreMutual
      <3>6. QED
        BY <3>1, <3>4, <3>5
    <2>3. ASSUME NEW d \in detections', NEW e \in detections',
                 d.asked \in Component(e.asked, began.aliases)
          PROVE  d.asked = e.asked
      <3>1. CASE d \in detections /\ e \in detections
        BY <1>8, <2>3, <3>1 DEF Apart
      <3>2. CASE d = found /\ e \in detections
        BY <1>4, <2>2, <2>3, <3>2
      <3>3. CASE d \in detections /\ e = found
        BY <1>4, <2>2, <2>3, <3>3
      <3>4. CASE d = found /\ e = found
        BY <3>4
      <3>5. QED
        BY <1>6, <3>1, <3>2, <3>3, <3>4
    <2>4. QED
      BY <1>1, <2>3 DEF Apart
  <1>11. NoneLost'
    <2>1. ASSUME NEW t \in reported, Ran(t)
          PROVE  \E d \in detections' : t \in d.group
      <3>1. CASE t \in group.tests
        <4>1. Recent(records) # {}
          <5>1. t \in seen \ unread
            BY <1>2, <1>8, <3>1 DEF Gathered
          <5>2. QED
            BY <1>2, <1>8, <2>1, <5>1 DEF Gathered
        <4>2. records \in SUBSET DOMAIN executions
          BY <1>2, <1>8 DEF Gathered
        <4>3. window # {}
          BY <4>1, <4>2, RecentIsKept DEF window, PassInv
        <4>4. found \in detections'
          BY <1>3, <4>3
        <4>5. QED
          BY <1>4, <3>1, <4>4
      <3>2. CASE t \notin group.tests
        BY <1>3, <1>8, <2>1, <3>2 DEF NoneLost
      <3>3. QED
        BY <3>1, <3>2
    <2>2. \A t : Ran(t)' <=> Ran(t)
      BY <1>1 DEF Ran, Recent
    <2>3. QED
      BY <1>1, <2>1, <2>2 DEF NoneLost
  <1>12. QED
    BY <1>9, <1>10, <1>11

\* PassInv is inductive.
LEMMA PassInvInductive ==
    ASSUME PassInv, [PassNext]_readVars
    PROVE  PassInv'
  <1>1. PassTypeOK' /\ Located'
    BY StepTyped, StepLocated DEF PassInv
  <1> DEFINE Parts == /\ BeganBefore' /\ Walks' /\ FirstWalk' /\ SecondWalk' /\ Grouped'
                      /\ Gathered' /\ Histories' /\ Apart' /\ NoneLost'
  <1> SUFFICES Parts
    BY <1>1 DEF PassInv
  <1>2. /\ BeganBefore /\ Walks /\ FirstWalk /\ SecondWalk /\ Grouped /\ Gathered
        /\ Histories /\ Apart /\ NoneLost
    BY DEF PassInv
  <1>3. CASE Write
    BY <1>3, WriteKeeps
  <1>4. CASE UNCHANGED readVars
    BY <1>2, <1>4
    DEF readVars, storeVars, passVars, BeganBefore, Walks, FirstWalk, SecondWalk, Grouped,
        Gathered, Histories, Apart, NoneLost, Followed, Ran, Recent
  <1>5. ASSUME UNCHANGED <<identities, executions, aliases, uncertain, began>>
        PROVE  /\ \A t : Ran(t)' <=> Ran(t)
               /\ (phase' # "idle" => BeganBefore')
               /\ (UNCHANGED <<detections, reported>> => Histories')
               /\ (UNCHANGED detections => Apart')
               /\ (UNCHANGED <<detections, reported, group>> => NoneLost')
    <2>1. \A t : Ran(t)' <=> Ran(t)
      BY <1>5 DEF Ran, Recent
    <2>2. phase' # "idle" => BeganBefore'
      BY <1>2, <1>5 DEF BeganBefore
    <2>3. UNCHANGED <<detections, reported>> => Histories'
      BY <1>2, <1>5 DEF Histories
    <2>4. UNCHANGED detections => Apart'
      BY <1>2, <1>5 DEF Apart
    <2>5. UNCHANGED <<detections, reported, group>> => NoneLost'
      BY <1>2, <1>5, <2>1 DEF NoneLost
    <2>6. QED
      BY <2>1, <2>2, <2>3, <2>4, <2>5
  <1>6. CASE Begin
    <2>1. UNCHANGED <<identities, executions, aliases, uncertain, detections, reported>>
      BY <1>6 DEF Begin, storeVars
    <2>2. phase' = "next" /\ detections = {} /\ reported = {}
      BY <1>2, <1>6 DEF Begin, BeganBefore
    <2>3. BeganBefore'
      <3>1. began' = [tests |-> 1 .. identities, rows |-> DOMAIN executions, aliases |-> aliases,
                      uncertain |-> uncertain]
        BY <1>6 DEF Begin, Store
      <3>2. QED
        BY <2>1, <2>2, <3>1 DEF BeganBefore
    <2>4. Histories' /\ Apart' /\ NoneLost'
      BY <2>1, <2>2 DEF Histories, Apart, NoneLost
    <2>5. Walks' /\ FirstWalk' /\ SecondWalk' /\ Grouped' /\ Gathered'
      BY <2>2 DEF Walks, FirstWalk, SecondWalk, Grouped, Gathered
    <2>6. QED
      BY <2>3, <2>4, <2>5
  <1>7. CASE NextIdentity
    <2>1. UNCHANGED <<identities, executions, aliases, uncertain, began, detections, reported,
                      group>>
      BY <1>7 DEF NextIdentity, storeVars
    <2>2. asked \in SUBSET Tests /\ asked # {} /\ phase = "next"
      BY <1>7, Typed DEF NextIdentity, PassInv
    <2>3. PICK t \in Tests : t = First(asked)
      BY <2>2, FirstIsLeast
    <2>4. CASE t \in reported
      <3>1. phase' = "next"
        BY <1>7, <2>2, <2>3, <2>4 DEF NextIdentity
      <3>2. Walks' /\ FirstWalk' /\ SecondWalk' /\ Grouped' /\ Gathered'
        BY <3>1 DEF Walks, FirstWalk, SecondWalk, Grouped, Gathered
      <3>3. QED
        BY <1>5, <2>1, <3>1, <3>2
    <2>5. CASE t \notin reported
      <3>1. phase' = "group" /\ asking' = t /\ frontier' = {t} /\ seen' = {t}
        BY <1>7, <2>3, <2>5 DEF NextIdentity, Traverse
      <3>2. Walks'
        <4>1. t \in Component(t, aliases)
          BY OwnName
        <4>2. QED
          BY <2>1, <3>1, <4>1 DEF Walks
      <3>3. FirstWalk'
        BY <2>1, <2>5, <3>1 DEF FirstWalk, Followed
      <3>4. SecondWalk' /\ Grouped' /\ Gathered'
        BY <3>1 DEF SecondWalk, Grouped, Gathered
      <3>5. QED
        BY <1>5, <2>1, <3>1, <3>2, <3>3, <3>4
    <2>6. QED
      BY <2>4, <2>5
  <1>8. CASE Visit
    <2>1. UNCHANGED <<identities, executions, aliases, uncertain, began, detections, reported,
                      group, phase, asking>>
      BY <1>8 DEF Visit, storeVars
    <2>2. phase \in {"group", "group again"}
      BY <1>8 DEF Visit
    <2>3. Grouped'
      BY <1>2, <2>1 DEF Grouped
    <2>4. Gathered'
      BY <2>1, <2>2 DEF Gathered
    <2>5. QED
      BY <1>5, <1>8, <2>1, <2>2, <2>3, <2>4, VisitKeeps
  <1>9. CASE GroupFound
    <2>1. UNCHANGED <<identities, executions, aliases, uncertain, began, detections>>
      BY <1>9 DEF GroupFound, storeVars
    <2>2. phase' = "group again"
      BY <1>9 DEF GroupFound
    <2>3. FirstWalk' /\ Gathered'
      BY <2>2 DEF FirstWalk, Gathered
    <2>4. QED
      BY <1>5, <1>9, <2>1, <2>2, <2>3, GroupFoundKeeps
  <1>10. CASE ReadBegins
    <2>1. UNCHANGED <<identities, executions, aliases, uncertain, began, detections, reported, group>>
      BY <1>10 DEF ReadBegins, storeVars
    <2>2. phase' = "read"
      BY <1>10 DEF ReadBegins
    <2>3. Walks' /\ FirstWalk' /\ SecondWalk'
      BY <2>2 DEF Walks, FirstWalk, SecondWalk
    <2>4. QED
      BY <1>5, <1>10, <2>1, <2>2, <2>3, ReadBeginsKeeps
  <1>11. CASE ReadMember
    <2>1. UNCHANGED <<identities, executions, aliases, uncertain, began, detections, reported,
                      group, asking>>
      BY <1>11 DEF ReadMember, storeVars
    <2>2. phase = "read" /\ phase' = "read"
      BY <1>11 DEF ReadMember
    <2>3. Walks' /\ FirstWalk' /\ SecondWalk'
      BY <2>2 DEF Walks, FirstWalk, SecondWalk
    <2>4. Grouped'
      BY <1>2, <2>1, <2>2 DEF Grouped
    <2>5. QED
      BY <1>5, <1>11, <2>1, <2>2, <2>3, <2>4, ReadMemberKeeps
  <1>12. CASE Report
    <2>1. UNCHANGED <<identities, executions, aliases, uncertain, began>>
      BY <1>12 DEF Report, storeVars
    <2>2. phase' = "next"
      BY <1>12 DEF Report
    <2>3. Walks' /\ FirstWalk' /\ SecondWalk' /\ Grouped' /\ Gathered'
      BY <2>2 DEF Walks, FirstWalk, SecondWalk, Grouped, Gathered
    <2>4. QED
      BY <1>5, <1>12, <2>1, <2>2, <2>3, ReportKeeps
  <1>13. CASE EndPass
    <2>1. UNCHANGED <<identities, executions, aliases, uncertain, began, detections, reported, group>>
      BY <1>13 DEF EndPass, storeVars
    <2>2. phase' = "done"
      BY <1>13 DEF EndPass
    <2>3. Walks' /\ FirstWalk' /\ SecondWalk' /\ Grouped' /\ Gathered'
      BY <2>2 DEF Walks, FirstWalk, SecondWalk, Grouped, Gathered
    <2>4. QED
      BY <1>5, <2>1, <2>2, <2>3
  <1>14. CASE Apply
    <2>1. phase' = "idle" /\ detections' = {} /\ reported' = {} /\ began' = NoStore
      BY <1>14 DEF Apply
    <2>2. BeganBefore'
      BY <2>1 DEF BeganBefore, NoStore
    <2>3. Histories' /\ Apart' /\ NoneLost'
      BY <2>1 DEF Histories, Apart, NoneLost
    <2>4. Walks' /\ FirstWalk' /\ SecondWalk' /\ Grouped' /\ Gathered'
      BY <2>1 DEF Walks, FirstWalk, SecondWalk, Grouped, Gathered
    <2>5. QED
      BY <2>2, <2>3, <2>4
  <1>15. QED
    BY <1>3, <1>4, <1>6, <1>7, <1>8, <1>9, <1>10, <1>11, <1>12, <1>13, <1>14 DEF PassNext, Pass

\* PassInv holds throughout.
LEMMA PassInvHolds == PassSpec => []PassInv
  <1>1. PassInit => PassInv
    <2>1. PassInit => PassTypeOK /\ Located
      <3>1. PassInit => StoreTyped /\ TableTyped
        BY PassAssumption DEF PassInit, StoreTyped, TableTyped
      <3>2. PassInit => PlaceTyped /\ SetsTyped
        BY DEF PassInit, PlaceTyped, SetsTyped
      <3>3. PassInit => GroupTyped /\ DetectionsTyped /\ BeganTyped
        BY DEF PassInit, GroupTyped, DetectionsTyped, BeganTyped, NoGroup, NoStore
      <3>4. PassInit => Located
        BY DEF PassInit, Located, NoGroup
      <3>5. QED
        BY <3>1, <3>2, <3>3, <3>4, TypesInParts
    <2>2. PassInit => BeganBefore
      BY DEF PassInit, BeganBefore, NoStore
    <2>3. PassInit => Walks /\ FirstWalk /\ SecondWalk /\ Grouped /\ Gathered
      BY DEF PassInit, Walks, FirstWalk, SecondWalk, Grouped, Gathered
    <2>4. PassInit => Histories /\ Apart /\ NoneLost
      BY DEF PassInit, Histories, Apart, NoneLost
    <2>5. QED
      BY <2>1, <2>2, <2>3, <2>4 DEF PassInv
  <1>2. PassInv /\ [PassNext]_readVars => PassInv'
    BY PassInvInductive
  <1>3. QED
    BY <1>1, <1>2, PTL DEF PassSpec

-----------------------------------------------------------------------------
(* What a command promises of the histories it collects.                   *)

\* The variables have their types, whatever the bounds.
THEOREM PassTyped == PassSpec => []PassTypeOK
  <1>1. PassInv => PassTypeOK
    BY DEF PassInv
  <1>2. QED
    BY <1>1, PassInvHolds, PTL

\* A history has all the names a test had when the command began, and none
\* that is not one of its names by now, however many writes come between the
\* queries (identity_group).
THEOREM HistoriesWhole == PassSpec => []HistoriesAreWhole
  <1>1. PassInv => HistoriesAreWhole
    <2> SUFFICES ASSUME PassInv, NEW d \in detections
                 PROVE  /\ Component(d.asked, began.aliases) \subseteq d.group
                        /\ d.group \subseteq Component(d.asked, aliases)
                        /\ \A i \in d.window : executions[i].test \in Component(d.asked, aliases)
      BY DEF HistoriesAreWhole
    <2>1. Histories
      BY DEF PassInv
    <2>2. d.group \in SUBSET Tests
      BY Typed DEF PassInv
    <2>3. d.asked \in d.group /\ Closed(d.group, began.aliases)
      BY <2>1 DEF Histories
    <2>4. Component(d.asked, began.aliases) \subseteq d.group
      BY <2>2, <2>3, NamesAreLeast
    <2>5. QED
      BY <2>1, <2>4 DEF Histories
  <1>2. QED
    BY <1>1, PassInvHolds, PTL

\* A merge over an inferred link from before the command is flagged as
\* uncertain in the history (ARCHITECTURE.md:133, merged_uncertain).
THEOREM DoubtSurfaced == PassSpec => []DoubtIsSurfaced
  <1>1. PassInv => DoubtIsSurfaced
    BY DEF PassInv, Histories, DoubtIsSurfaced
  <1>2. QED
    BY <1>1, PassInvHolds, PTL

\* No test is in two histories, and none that ran recently is lost
\* (detect_all, "once with its merged history rather than twice").
THEOREM TestsOnce == PassSpec => []EveryTestOnce
  <1>1. PassInv => EveryTestOnce
    <2> SUFFICES ASSUME PassInv PROVE EveryTestOnce
      OBVIOUS
    <2>1. phase \in {"next", "done"} => group.tests = {}
      BY DEF PassInv, Located
    <2>2. Apart /\ NoneLost
      BY DEF PassInv
    <2>3. phase \in {"next", "done"} =>
            \A t \in reported :
                Recent({i \in began.rows : executions[i].test = t}) # {}
                    => \E d \in detections : t \in d.group
      BY <2>1, <2>2 DEF NoneLost, Ran
    <2>4. QED
      BY <2>2, <2>3 DEF EveryTestOnce, Apart
  <1>2. QED
    BY <1>1, PassInvHolds, PTL

-----------------------------------------------------------------------------
(* A command that nobody writes under.                                     *)

\* The newest executions of several names are the newest of what is left
\* when each name is cut to its own newest first: the latest execution that
\* such a cut drops has Limit later ones of its name, which are not dropped.
LEMMA CutPerName ==
    ASSUME PassTypeOK, NEW names, NEW read \in SUBSET DOMAIN executions,
           \A i \in DOMAIN executions :
              i \in read <=> /\ executions[i].test \in names
                             /\ i \in Window(RowsOf({executions[i].test})),
           NEW i \in DOMAIN executions
    PROVE  i \in Window(read)
           <=> /\ executions[i].test \in names
               /\ Cardinality({j \in RowsOf(names) : Later(j, i)}) < Limit
  <1> DEFINE Ahead(rows, k) == {j \in rows : Later(j, k)}
             name == executions[i].test
  <1>1. \A rows \in SUBSET DOMAIN executions : \A k :
           /\ Ahead(rows, k) \subseteq DOMAIN executions
           /\ IsFiniteSet(Ahead(rows, k)) /\ Cardinality(Ahead(rows, k)) \in Nat
    <2>1. DOMAIN executions = 1 .. Len(executions) /\ Len(executions) \in Nat
      BY Numbered
    <2>2. IsFiniteSet(DOMAIN executions)
      BY <2>1, FS_Interval
    <2>3. \A rows \in SUBSET DOMAIN executions : \A k : Ahead(rows, k) \subseteq DOMAIN executions
      OBVIOUS
    <2> HIDE DEF Ahead
    <2>4. QED
      BY <2>2, <2>3, FS_Subset, FS_CardinalityType
  <1>2. Limit \in Nat
    BY PassAssumption
  <1>3. \A tests : RowsOf(tests) \in SUBSET DOMAIN executions
    BY DEF RowsOf
  <1>4. \A rows : i \in Window(rows) <=> i \in rows /\ Cardinality(Ahead(rows, i)) < Limit
    BY DEF Window
  <1>5. ASSUME name \in names, Cardinality(Ahead(RowsOf(names), i)) < Limit
        PROVE  i \in Window(read)
    <2>1. Ahead(RowsOf({name}), i) \subseteq Ahead(RowsOf(names), i)
      BY <1>5 DEF RowsOf
    <2>2. Ahead(read, i) \subseteq Ahead(RowsOf(names), i)
      BY DEF RowsOf
    <2> HIDE DEF Ahead, name
    <2>3. /\ Cardinality(Ahead(RowsOf({name}), i)) <= Cardinality(Ahead(RowsOf(names), i))
          /\ Cardinality(Ahead(read, i)) <= Cardinality(Ahead(RowsOf(names), i))
      BY <1>1, <1>3, <2>1, <2>2, FS_Subset
    <2>a. /\ Cardinality(Ahead(RowsOf({name}), i)) \in Nat
          /\ Cardinality(Ahead(RowsOf(names), i)) \in Nat
          /\ Cardinality(Ahead(read, i)) \in Nat
      BY <1>1, <1>3
    <2>4. /\ Cardinality(Ahead(RowsOf({name}), i)) < Limit
          /\ Cardinality(Ahead(read, i)) < Limit
      BY <1>2, <1>5, <2>3, <2>a
    <2>5. i \in RowsOf({name})
      BY DEF RowsOf, name
    <2>6. i \in read
      BY <1>4, <1>5, <2>4, <2>5 DEF name
    <2>7. QED
      BY <1>4, <2>4, <2>6
  <1>6. ASSUME i \in Window(read)
        PROVE  name \in names /\ Cardinality(Ahead(RowsOf(names), i)) < Limit
    <2>1. i \in read /\ Cardinality(Ahead(read, i)) < Limit
      BY <1>4, <1>6
    <2>2. name \in names
      BY <2>1
    <2>3. Ahead(RowsOf(names), i) \subseteq read
      <3> DEFINE dropped == Ahead(RowsOf(names), i) \ read
      <3> SUFFICES ASSUME dropped # {} PROVE FALSE
        OBVIOUS
      <3>1. dropped \in SUBSET DOMAIN executions
        BY <1>3
      <3>2. PICK j \in dropped : \A k \in dropped : ~Later(k, j)
        BY <3>1, LatestExists
      <3> DEFINE other == executions[j].test
      <3>3. /\ j \in DOMAIN executions /\ other \in names /\ Later(j, i) /\ j \notin read
            /\ j \in RowsOf({other})
        BY <3>1, <3>2 DEF RowsOf
      <3>4. ~(Cardinality(Ahead(RowsOf({other}), j)) < Limit)
        BY <3>3 DEF Window
      <3>5. ASSUME NEW k \in Ahead(RowsOf({other}), j) PROVE k \in Ahead(read, i)
        <4>1. k \in DOMAIN executions /\ executions[k].test \in names /\ Later(k, j)
          BY <3>3, <3>5 DEF RowsOf
        <4>2. Later(k, i)
          BY <3>3, <4>1, LaterIsAnOrder
        <4>3. k \in Ahead(RowsOf(names), i)
          BY <4>1, <4>2 DEF RowsOf
        <4>4. k \in read
          BY <3>2, <4>1, <4>3
        <4>5. QED
          BY <4>2, <4>4
      <3>6. Ahead(RowsOf({other}), j) \subseteq Ahead(read, i)
        BY <3>5
      <3> HIDE DEF Ahead, other
      <3>7. Cardinality(Ahead(RowsOf({other}), j)) <= Cardinality(Ahead(read, i))
        BY <1>1, <3>6, FS_Subset
      <3>8. Cardinality(Ahead(RowsOf({other}), j)) \in Nat /\ Cardinality(Ahead(read, i)) \in Nat
        BY <1>1, <1>3
      <3>9. QED
        BY <1>2, <2>1, <3>4, <3>7, <3>8
    <2>4. Ahead(RowsOf(names), i) \subseteq Ahead(read, i)
      BY <2>3
    <2> HIDE DEF Ahead, name
    <2>5. Cardinality(Ahead(RowsOf(names), i)) <= Cardinality(Ahead(read, i))
      BY <1>1, <2>4, FS_Subset
    <2>6. Cardinality(Ahead(RowsOf(names), i)) \in Nat /\ Cardinality(Ahead(read, i)) \in Nat
      BY <1>1, <1>3
    <2>7. QED
      BY <1>2, <2>1, <2>2, <2>5, <2>6
  <1>7. QED
    BY <1>5, <1>6

\* The executions of some names that are newer than one.
Newer(names, i) == {j \in RowsOf(names) : Later(j, i)}

\* What holds of a command while the store is as it was when it began: it
\* doubts for a reason, and it has read the newest executions of each name.
Quiet ==
    began = Store =>
        /\ phase = "group" /\ doubt => \E l \in uncertain : EndsOf(l) \cap seen # {}
        /\ phase \in {"group again", "read"} /\ group.doubt =>
              \E l \in uncertain : EndsOf(l) \cap group.tests # {}
        /\ phase = "read" =>
              \A i \in DOMAIN executions :
                 i \in records <=> /\ executions[i].test \in seen \ unread
                                   /\ i \in Window(RowsOf({executions[i].test}))
        /\ \A d \in detections :
              /\ d.primary \in d.group /\ \A t \in d.group : t <= d.primary
              /\ d.doubt => \E l \in uncertain : EndsOf(l) \cap d.group # {}
              /\ \A i \in DOMAIN executions :
                    i \in d.window
                    <=> /\ executions[i].test \in d.group /\ executions[i].at >= Since
                        /\ Cardinality(Newer(d.group, i)) < Limit

\* A write that changes the store leaves it other than it was when the
\* command began.
LEMMA WritesShow ==
    ASSUME PassInv, Write, began' = Store'
    PROVE  UNCHANGED <<identities, executions, aliases, uncertain>>
  <1>1. began = [tests |-> 1 .. identities', rows |-> DOMAIN executions', aliases |-> aliases',
                 uncertain |-> uncertain']
    BY WritesOnlyAdd DEF PassInv, passVars, Store
  <1>2. /\ began.tests = 1 .. identities' /\ began.rows = DOMAIN executions'
        /\ began.aliases = aliases' /\ began.uncertain = uncertain'
    BY <1>1
  <1>3. /\ began.tests \subseteq 1 .. identities /\ began.rows \subseteq DOMAIN executions
        /\ began.aliases \subseteq aliases /\ uncertain \cap began.aliases \subseteq began.uncertain
    BY DEF PassInv, BeganBefore
  <1>4. identities \in Int /\ identities >= 0 /\ uncertain \subseteq aliases
    <2>1. StoreTyped
      BY TypesInParts DEF PassInv
    <2>2. QED
      BY <2>1, PassAssumption DEF StoreTyped
  <1>5. CASE UpsertIdentity
    <2>1. identities' = identities + 1
      BY <1>5 DEF UpsertIdentity
    <2>2. identities' \in 1 .. identities' /\ identities' \notin 1 .. identities
      BY <1>4, <2>1
    <2>3. QED
      BY <1>2, <1>3, <2>2
  <1>6. CASE RecordExecution
    <2>1. identities' = identities
      BY <1>6 DEF RecordExecution
    <2>2. DOMAIN executions' = DOMAIN executions
      BY <1>2, <1>3, WritesOnlyAdd DEF PassInv
    <2>3. executions' = executions
      BY <1>4, <2>1, <2>2, WritesOnlyAdd DEF PassInv
    <2>4. QED
      BY <1>6, <2>3 DEF RecordExecution
  <1>7. CASE RecordAlias
    <2>1. PICK l \in Link, certain \in BOOLEAN :
            /\ aliases' = aliases \cup {l}
            /\ uncertain' = IF certain THEN uncertain \ {l}
                            ELSE IF l \in aliases THEN uncertain ELSE uncertain \cup {l}
      BY <1>7 DEF RecordAlias
    <2>2. UNCHANGED <<identities, executions>>
      BY <1>7 DEF RecordAlias
    <2>3. aliases' = aliases
      BY <1>2, <1>3, <2>1
    <2>4. l \in aliases
      BY <2>1, <2>3
    <2>5. l \in uncertain => l \in uncertain'
      BY <1>2, <1>3, <2>3, <2>4
    <2>6. uncertain' = uncertain
      BY <2>1, <2>4, <2>5
    <2>7. QED
      BY <2>2, <2>3, <2>6
  <1>8. QED
    BY <1>5, <1>6, <1>7 DEF Write

\* A quiet command reports exactly what there is.
LEMMA ReportQuiet ==
    ASSUME PassInv, Quiet, Report, began = Store, NEW d \in detections' \ detections
    PROVE  /\ d.primary \in d.group /\ \A t \in d.group : t <= d.primary
           /\ d.doubt => \E l \in uncertain : EndsOf(l) \cap d.group # {}
           /\ \A i \in DOMAIN executions :
                 i \in d.window
                 <=> /\ executions[i].test \in d.group /\ executions[i].at >= Since
                     /\ Cardinality(Newer(d.group, i)) < Limit
  <1> DEFINE found == [asked |-> asking, primary |-> Newest(group.tests), group |-> group.tests,
                       doubt |-> group.doubt, window |-> Recent(Window(records))]
  <1>1. d = found
    BY DEF Report
  <1>2. /\ d.primary = Newest(group.tests) /\ d.group = group.tests /\ d.doubt = group.doubt
        /\ d.window = Recent(Window(records))
    BY <1>1
  <1> HIDE DEF found
  <1>3. phase = "read" /\ unread = {}
    BY DEF Report
  <1>4. asking \in Tests /\ asking \in group.tests /\ group.tests \in SUBSET Tests
    BY <1>3, Typed DEF PassInv, Located
  <1>5. Newest(group.tests) \in group.tests /\ \A t \in group.tests : t <= Newest(group.tests)
    <2>1. Newest(group.tests) \in group.tests
          /\ \A t \in group.tests : Newest(group.tests) >= t
      BY <1>4, NewestIsGreatest
    <2>2. Tests \subseteq Nat
      BY PassAssumption DEF Tests
    <2>3. \A t \in group.tests : t \in Nat
      BY <1>4, <2>2
    <2>4. QED
      BY <2>1, <2>3
  <1>6. seen = group.tests
    <2>1. group.tests \subseteq seen /\ seen \subseteq Component(asking, aliases)
      BY <1>3 DEF PassInv, Gathered
    <2>2. Closed(group.tests, aliases)
      BY <1>3 DEF PassInv, Grouped, Store
    <2>3. Component(asking, aliases) \subseteq group.tests
      BY <1>4, <2>2, NamesAreLeast
    <2>4. QED
      BY <2>1, <2>3
  <1>7. records \in SUBSET DOMAIN executions
    BY <1>3 DEF PassInv, Gathered
  <1>8. \A i \in DOMAIN executions :
           i \in records <=> /\ executions[i].test \in group.tests
                             /\ i \in Window(RowsOf({executions[i].test}))
    BY <1>3, <1>6 DEF Quiet
  <1>9. \A i \in DOMAIN executions :
           i \in Window(records)
           <=> /\ executions[i].test \in group.tests
               /\ Cardinality(Newer(group.tests, i)) < Limit
    BY <1>7, <1>8, CutPerName DEF PassInv, Newer
  <1>10. \A i \in DOMAIN executions :
            i \in d.window
            <=> /\ executions[i].test \in d.group /\ executions[i].at >= Since
                /\ Cardinality(Newer(d.group, i)) < Limit
    BY <1>2, <1>9 DEF Recent
  <1>11. group.doubt => \E l \in uncertain : EndsOf(l) \cap group.tests # {}
    BY <1>3 DEF Quiet
  <1>12. QED
    BY <1>2, <1>5, <1>10, <1>11

\* Quiet is inductive.
LEMMA QuietKept ==
    ASSUME PassInv, Quiet, [PassNext]_readVars
    PROVE  Quiet'
  <1> SUFFICES ASSUME (began = Store)' PROVE Quiet'
    BY DEF Quiet
  <1>1. ASSUME UNCHANGED <<identities, executions, aliases, uncertain, began>>
        PROVE  began = Store
    BY <1>1 DEF Store
  <1>2. ASSUME UNCHANGED <<identities, executions, aliases, uncertain, passVars>>
        PROVE  Quiet'
    <2>1. UNCHANGED <<began, phase, doubt, seen, group, records, unread, detections>>
      BY <1>2 DEF passVars
    <2>2. began = Store
      BY <1>1, <1>2, <2>1
    <2>3. \A tests : RowsOf(tests)' = RowsOf(tests) /\ Window(RowsOf(tests))' = Window(RowsOf(tests))
      BY <1>2 DEF RowsOf, Window, Later
    <2>4. \A names, i : Newer(names, i)' = Newer(names, i)
      BY <1>2 DEF Newer, RowsOf, Later
    <2>5. QED
      BY <1>2, <2>1, <2>2, <2>3, <2>4 DEF Quiet
  <1>3. CASE Write
    <2>1. UNCHANGED <<identities, executions, aliases, uncertain>>
      BY <1>3, WritesShow
    <2>2. UNCHANGED passVars
      BY <1>3, WritesOnlyAdd DEF PassInv
    <2>3. QED
      BY <1>2, <2>1, <2>2
  <1>4. CASE UNCHANGED readVars
    BY <1>2, <1>4 DEF readVars, storeVars
  <1>5. CASE Begin
    <2>1. phase' = "next" /\ detections' = {}
      BY <1>5 DEF Begin, PassInv, BeganBefore
    <2>2. QED
      BY <2>1 DEF Quiet
  <1>6. CASE Apply
    <2>1. phase' = "idle" /\ detections' = {}
      BY <1>6 DEF Apply
    <2>2. QED
      BY <2>1 DEF Quiet
  <1> DEFINE Reason(tests) == \E l \in uncertain : EndsOf(l) \cap tests # {}
             Exact(d) == /\ d.primary \in d.group /\ \A t \in d.group : t <= d.primary
                         /\ d.doubt => Reason(d.group)
                         /\ \A i \in DOMAIN executions :
                               i \in d.window
                               <=> /\ executions[i].test \in d.group /\ executions[i].at >= Since
                                   /\ Cardinality(Newer(d.group, i)) < Limit
             Read(i) == /\ executions[i].test \in seen' \ unread'
                        /\ i \in Window(RowsOf({executions[i].test}))
  <1>7. ASSUME UNCHANGED <<identities, executions, aliases, uncertain, began>>,
               phase' = "group" /\ doubt' => Reason(seen'),
               phase' \in {"group again", "read"} /\ group'.doubt => Reason(group'.tests),
               phase' = "read" => \A i \in DOMAIN executions : i \in records' <=> Read(i),
               \A d \in detections' : Exact(d)
        PROVE  Quiet'
    <2>1. \A tests : RowsOf(tests)' = RowsOf(tests) /\ Window(RowsOf(tests))' = Window(RowsOf(tests))
      BY <1>7 DEF RowsOf, Window, Later
    <2>2. \A names, i : Newer(names, i)' = Newer(names, i)
      BY <1>7 DEF Newer, RowsOf, Later
    <2>3. QED
      BY <1>7, <2>1, <2>2 DEF Quiet
  <1>8. began = Store =>
          /\ phase = "group" /\ doubt => Reason(seen)
          /\ phase \in {"group again", "read"} /\ group.doubt => Reason(group.tests)
          /\ \A d \in detections : Exact(d)
    BY DEF Quiet
  <1>9. ASSUME began = Store, NEW d \in detections' \ detections, Report PROVE Exact(d)
    BY <1>9, ReportQuiet
  <1> HIDE DEF Reason, Exact, Read
  <1>10. CASE NextIdentity
    <2>1. UNCHANGED <<identities, executions, aliases, uncertain, began, detections, doubt>>
          \/ (UNCHANGED <<identities, executions, aliases, uncertain, began, detections>> /\ doubt' = FALSE)
      BY <1>10 DEF NextIdentity, Traverse, storeVars
    <2>2. phase' = "next" \/ (phase' = "group" /\ doubt' = FALSE)
      BY <1>10 DEF NextIdentity, Traverse
    <2>3. began = Store
      BY <1>1, <2>1
    <2>4. QED
      BY <1>7, <1>8, <2>1, <2>2, <2>3
  <1>11. CASE Visit
    <2>1. UNCHANGED <<identities, executions, aliases, uncertain, began, detections, phase, group>>
      BY <1>11 DEF Visit, storeVars
    <2>2. began = Store /\ phase \in {"group", "group again"}
      BY <1>1, <1>11, <2>1 DEF Visit
    <2>3. ASSUME phase = "group", doubt' PROVE Reason(seen')
      <3>1. PICK t \in frontier :
             /\ seen \subseteq seen' /\ \A l \in Touching(t) : EndsOf(l) \subseteq seen'
             /\ doubt' = Doubted(Touching(t))
        BY <1>11, VisitFollows
      <3>2. CASE doubt
        <4>1. \E l \in uncertain : EndsOf(l) \cap seen # {}
          BY <1>8, <2>2, <2>3, <3>2 DEF Reason
        <4>2. QED
          BY <3>1, <4>1 DEF Reason
      <3>3. CASE ~doubt
        <4>1. PICK l \in Touching(t) : l \in uncertain
          BY <2>3, <3>1, <3>3 DEF Doubted
        <4>2. t \in EndsOf(l) /\ EndsOf(l) \subseteq seen'
          BY <3>1, <4>1 DEF Touching
        <4>3. QED
          BY <4>1, <4>2 DEF Reason
      <3>4. QED
        BY <3>2, <3>3
    <2>4. QED
      BY <1>7, <1>8, <2>1, <2>2, <2>3
  <1>12. CASE GroupFound
    <2>1. UNCHANGED <<identities, executions, aliases, uncertain, began, detections>>
      BY <1>12 DEF GroupFound, storeVars
    <2>2. /\ phase = "group" /\ phase' = "group again"
          /\ group' = [tests |-> seen, doubt |-> doubt]
      BY <1>12 DEF GroupFound
    <2>3. began = Store /\ group'.tests = seen /\ group'.doubt = doubt
      BY <1>1, <2>1, <2>2
    <2>4. QED
      BY <1>7, <1>8, <2>1, <2>2, <2>3
  <1>13. CASE ReadBegins
    <2>1. UNCHANGED <<identities, executions, aliases, uncertain, began, detections, group>>
      BY <1>13 DEF ReadBegins, storeVars
    <2>2. /\ phase = "group again" /\ phase' = "read" /\ unread' = seen /\ seen' = seen
          /\ records' = {}
      BY <1>13 DEF ReadBegins
    <2>3. began = Store
      BY <1>1, <2>1
    <2>4. \A i \in DOMAIN executions : i \in records' <=> Read(i)
      BY <2>2 DEF Read
    <2>5. QED
      BY <1>7, <1>8, <2>1, <2>2, <2>3, <2>4
  <1>14. CASE ReadMember
    <2>1. UNCHANGED <<identities, executions, aliases, uncertain, began, detections, group, seen,
                      phase>>
      BY <1>14 DEF ReadMember, storeVars
    <2>2. phase = "read" /\ began = Store /\ unread # {}
      BY <1>1, <1>14, <2>1 DEF ReadMember
    <2>3. unread \in SUBSET Tests /\ unread \subseteq seen
      BY <2>2, Typed DEF PassInv, Gathered
    <2>4. PICK t \in unread : t = First(unread)
      BY <2>2, <2>3, FirstIsLeast
    <2>5. unread' = unread \ {t} /\ records' = records \cup Window(RowsOf({t}))
      BY <1>14, <2>4 DEF ReadMember
    <2>6. ASSUME NEW i \in DOMAIN executions PROVE i \in records' <=> Read(i)
      <3>1. i \in records <=> /\ executions[i].test \in seen \ unread
                              /\ i \in Window(RowsOf({executions[i].test}))
        BY <2>2 DEF Quiet
      <3>2. i \in Window(RowsOf({t})) => executions[i].test = t
        BY WindowsAreRows DEF RowsOf
      <3>3. CASE executions[i].test = t
        BY <2>1, <2>3, <2>5, <3>1, <3>3 DEF Read
      <3>4. CASE executions[i].test # t
        BY <2>1, <2>5, <3>1, <3>2, <3>4 DEF Read
      <3>5. QED
        BY <3>3, <3>4
    <2>7. QED
      BY <1>7, <1>8, <2>1, <2>2, <2>6
  <1>15. CASE Report
    <2>1. UNCHANGED <<identities, executions, aliases, uncertain, began>>
      BY <1>15 DEF Report, storeVars
    <2>2. phase' = "next" /\ began = Store
      BY <1>1, <1>15, <2>1 DEF Report
    <2>3. \A d \in detections' : Exact(d)
      BY <1>8, <1>9, <1>15, <2>2
    <2>4. QED
      BY <1>7, <2>1, <2>2, <2>3
  <1>16. CASE EndPass
    <2>1. UNCHANGED <<identities, executions, aliases, uncertain, began, detections>>
      BY <1>16 DEF EndPass, storeVars
    <2>2. phase' = "done" /\ began = Store
      BY <1>1, <1>16, <2>1 DEF EndPass
    <2>3. QED
      BY <1>7, <1>8, <2>1, <2>2
  <1>17. QED
    BY <1>3, <1>4, <1>5, <1>6, <1>10, <1>11, <1>12, <1>13, <1>14, <1>15, <1>16 DEF PassNext, Pass

\* A command under which nobody writes reports exactly what there is: all
\* names of each test, the newest as its identity, its newest executions
\* over all of them and its doubt (detect_all, executions_for_group).
THEOREM QuietPassExact == PassSpec => []QuietPassIsExact
  <1>1. PassInit => Quiet
    BY DEF PassInit, Quiet
  <1>2. PassInv /\ Quiet /\ [PassNext]_readVars => Quiet'
    BY QuietKept
  <1>3. PassInv /\ Quiet => QuietPassIsExact
    <2> SUFFICES ASSUME PassInv, Quiet, began = Store, NEW d \in detections
                 PROVE  /\ d.group = Component(d.asked, aliases)
                        /\ d.primary \in d.group /\ \A t \in d.group : t <= d.primary
                        /\ d.doubt <=> \E l \in uncertain : EndsOf(l) \cap d.group # {}
                        /\ \A i \in DOMAIN executions :
                            i \in d.window
                            <=> /\ executions[i].test \in d.group /\ executions[i].at >= Since
                                /\ Cardinality({j \in RowsOf(d.group) : Later(j, i)}) < Limit
      BY DEF QuietPassIsExact
    <2>1. Histories /\ uncertain \subseteq aliases
      BY TypesInParts DEF PassInv, StoreTyped
    <2>2. began.aliases = aliases
      BY DEF Store
    <2>3. d.group \in SUBSET Tests
      BY Typed DEF PassInv
    <2>4. d.group = Component(d.asked, aliases)
      <3>1. d.asked \in d.group /\ Closed(d.group, aliases)
            /\ d.group \subseteq Component(d.asked, aliases)
        BY <2>1, <2>2 DEF Histories
      <3>2. QED
        BY <2>3, <3>1, NamesAreLeast
    <2>5. (\E l \in uncertain : EndsOf(l) \cap d.group # {}) => d.doubt
      BY <2>1, <2>2 DEF Histories
    <2>6. d.doubt => \E l \in uncertain : EndsOf(l) \cap d.group # {}
      BY DEF Quiet
    <2>7. d.doubt \in BOOLEAN
      BY TypesInParts DEF PassInv, DetectionsTyped
    <2>8. d.primary \in d.group /\ \A t \in d.group : t <= d.primary
      BY DEF Quiet
    <2>9. \A i \in DOMAIN executions :
             i \in d.window
             <=> /\ executions[i].test \in d.group /\ executions[i].at >= Since
                 /\ Cardinality({j \in RowsOf(d.group) : Later(j, i)}) < Limit
      BY DEF Quiet, Newer
    <2>10. QED
      BY <2>4, <2>5, <2>6, <2>7, <2>8, <2>9
  <1>4. QED
    BY <1>1, <1>2, <1>3, PassInvHolds, PTL DEF PassSpec
=============================================================================
