----------------------------- MODULE ReadsProofs ------------------------------
(***************************************************************************)
(* Proofs about what the tool reads of tests, metrics and detections: the  *)
(* matching of renamed tests for every set of tests and every table of     *)
(* distances, the cost and the totals that a summary of the metrics shows  *)
(* for every interleaving of its queries with triage, and what the reports *)
(* show of every list of detections.                                       *)
(***************************************************************************)
EXTENDS MCAlias, Stats, Reports,
        FiniteSetTheorems, FunctionTheorems, SequenceTheorems, WellFoundedInduction, TLAPS

-----------------------------------------------------------------------------
(* Numbers.                                                                *)

\* The least of a set of numbers is one of them, below none of the others.
LEMMA LeastIs ==
    ASSUME NEW S \in SUBSET Nat, S # {}
    PROVE  Min(S) \in S /\ \A n \in S : Min(S) <= n
  <1>1. PICK m \in S : \A n \in S : <<n, m>> \notin OpToRel(<, Nat)
    BY NatLessThanWellFounded, WFMin
  <1>2. \A n \in S : m <= n
    <2>1. \A n \in S : ~(n < m)
      BY <1>1 DEF OpToRel
    <2>2. QED
      BY <2>1
  <1>3. QED
    BY <1>2 DEF Min

-----------------------------------------------------------------------------
(* Renames: the rounds, one distance at a time.                            *)

\* f holds the tests that the rounds before each distance took out of the
\* matching, for the distances up to k.
Rounds(table, scored, k, f) ==
    f = [d \in 0 .. k |->
            IF d = 0 THEN {}
            ELSE f[d - 1] \cup Settled(Live(Group(table, scored, d - 1), f[d - 1]))]

\* There are such rounds, since each is computed from the one before.
LEMMA RoundsExist ==
    ASSUME NEW table, NEW scored, NEW k \in Nat
    PROVE  \E f : Rounds(table, scored, k, f)
  <1> DEFINE Missing == {m \in Nat : ~\E f : Rounds(table, scored, m, f)}
  <1> SUFFICES Missing = {}
    OBVIOUS
  <1> SUFFICES ASSUME Missing # {}
               PROVE  FALSE
    OBVIOUS
  <1> DEFINE least == Min(Missing)
  <1>1. Missing \in SUBSET Nat
    OBVIOUS
  <1>2. least \in Missing /\ \A m \in Missing : least <= m
    <2> HIDE DEF Missing
    <2>1. QED
      BY <1>1, LeastIs
  <1>3. least \in Nat /\ ~\E f : Rounds(table, scored, least, f)
    BY <1>2
  <1> HIDE DEF least
  <1>4. CASE least = 0
    <2> DEFINE f == [d \in 0 .. 0 |-> {}]
    <2>1. Rounds(table, scored, 0, f)
      BY DEF Rounds
    <2>2. QED
      BY <1>3, <1>4, <2>1
  <1>5. CASE least # 0
    <2>1. least - 1 \in Nat /\ ~(least <= least - 1)
      BY <1>3, <1>5
    <2>2. least - 1 \notin Missing
      BY <1>2, <2>1
    <2>3. PICK g : Rounds(table, scored, least - 1, g)
      BY <2>1, <2>2
    <2> DEFINE Step(d, before) == before \cup Settled(Live(Group(table, scored, d), before))
               f == [d \in 0 .. least |-> IF d < least THEN g[d]
                                          ELSE Step(least - 1, g[least - 1])]
               F == [d \in 0 .. least |-> IF d = 0 THEN {} ELSE Step(d - 1, f[d - 1])]
    <2>4. ASSUME NEW d \in 0 .. least
          PROVE  f[d] = F[d]
      <3>1. CASE d = least
        <4>1. d - 1 \in 0 .. least /\ d - 1 < least
          BY <1>3, <1>5, <3>1
        <4>2. f[d - 1] = g[least - 1]
          BY <3>1, <4>1
        <4>3. f[d] = Step(least - 1, g[least - 1])
          BY <1>3, <3>1
        <4>4. QED
          BY <1>5, <3>1, <4>2, <4>3
      <3>2. CASE d # least
        <4>1. d < least /\ d \in 0 .. least - 1 /\ f[d] = g[d]
          BY <1>3, <3>2
        <4>2. g[d] = IF d = 0 THEN {} ELSE Step(d - 1, g[d - 1])
          BY <2>3, <4>1, Zenon DEF Rounds
        <4>3. d # 0 => f[d - 1] = g[d - 1]
          BY <1>3, <4>1
        <4>4. QED
          BY <4>1, <4>2, <4>3
      <3>3. QED
        BY <3>1, <3>2
    <2>5. f = F
      <3>1. f = [d \in 0 .. least |-> f[d]] /\ F = [d \in 0 .. least |-> F[d]]
        OBVIOUS
      <3> HIDE DEF f, F
      <3>2. QED
        BY <2>4, <3>1
    <2>6. Rounds(table, scored, least, f)
      BY <2>5 DEF Rounds
    <2>7. QED
      BY <1>3, <2>6
  <1>6. QED
    BY <1>4, <1>5

\* What Taken is: nothing before the first round, and after each round what
\* it paired or found contested as well.
LEMMA TakenIs ==
    ASSUME NEW table, NEW scored
    PROVE  /\ Taken(table, scored)[0] = {}
           /\ \A d \in 1 .. MaxDistance :
                Taken(table, scored)[d] = Taken(table, scored)[d - 1] \cup
                    Touched(Live(Group(table, scored, d - 1), Taken(table, scored)[d - 1]))
  <1> DEFINE Before[d \in 0 .. MaxDistance] ==
                IF d = 0 THEN {}
                ELSE Before[d - 1] \cup Settled(Live(Group(table, scored, d - 1), Before[d - 1]))
  <1>1. MaxDistance \in Nat
    BY AliasAssumption
  <1>2. Taken(table, scored) = Before
    BY DEF Taken
  <1>3. \E f : Rounds(table, scored, MaxDistance, f)
    BY <1>1, RoundsExist
  <1>4. Rounds(table, scored, MaxDistance, Before)
    BY <1>3 DEF Rounds
  <1> HIDE DEF Before
  <1>5. ASSUME NEW d \in 0 .. MaxDistance
        PROVE  Before[d] = IF d = 0 THEN {} ELSE
                   Before[d - 1] \cup Settled(Live(Group(table, scored, d - 1), Before[d - 1]))
    BY <1>4, Zenon DEF Rounds
  <1>6. Before[0] = {}
    <2>1. 0 \in 0 .. MaxDistance
      BY <1>1
    <2>2. QED
      BY <1>5, <2>1, Zenon
  <1>7. ASSUME NEW d \in 1 .. MaxDistance
        PROVE  Before[d] = Before[d - 1] \cup Touched(Live(Group(table, scored, d - 1), Before[d - 1]))
    <2>1. d \in 0 .. MaxDistance /\ d # 0
      BY <1>1
    <2>2. QED
      BY <1>5, <2>1 DEF Settled
  <1>8. QED
    BY <1>2, <1>6, <1>7

\* The pairs that still compete when their distance comes.
Counting(table, scored) ==
    {pair \in scored :
        pair \in Live(Group(table, scored, table[pair]), Taken(table, scored)[table[pair]])}

\* A test is taken exactly if a pair of a smaller distance that counts has it.
LEMMA TakenByCloser ==
    ASSUME NEW table, NEW scored,
           \A pair \in scored : table[pair] \in 0 .. MaxDistance
    PROVE  \A d \in 0 .. MaxDistance : \A test :
             test \in Taken(table, scored)[d] <=>
               \E pair \in Counting(table, scored) : table[pair] < d /\ test \in Ends(pair)
  <1> DEFINE taken == Taken(table, scored)
             counting == Counting(table, scored)
             By(d, test) == \E pair \in counting : table[pair] < d /\ test \in Ends(pair)
             Wrong == {d \in 0 .. MaxDistance : ~\A test : test \in taken[d] <=> By(d, test)}
  <1> SUFFICES ASSUME Wrong # {}
               PROVE  FALSE
    OBVIOUS
  <1> DEFINE least == Min(Wrong)
  <1>1. least \in Wrong /\ \A d \in Wrong : least <= d
    <2>1. Wrong \in SUBSET Nat
      BY AliasAssumption
    <2> HIDE DEF Wrong
    <2>2. QED
      BY <2>1, LeastIs
  <1>2. least \in 0 .. MaxDistance /\ ~\A test : test \in taken[least] <=> By(least, test)
    BY <1>1
  <1> HIDE DEF least
  <1>3. \A pair \in counting : pair \in scored /\ table[pair] \in 0 .. MaxDistance
    BY DEF Counting
  <1>4. least # 0
    <2>1. taken[0] = {}
      BY TakenIs
    <2>2. \A test : ~By(0, test)
      BY <1>3
    <2>3. QED
      BY <1>2, <2>1, <2>2
  <1> DEFINE previous == least - 1
             round == Live(Group(table, scored, previous), taken[previous])
  <1>5. previous \in 0 .. MaxDistance /\ ~(least <= previous) /\ least \in 1 .. MaxDistance
    BY <1>2, <1>4, AliasAssumption
  <1>6. \A test : test \in taken[previous] <=> By(previous, test)
    BY <1>1, <1>5
  <1>7. taken[least] = taken[previous] \cup Touched(round)
    BY <1>5, TakenIs
  <1>8. \A pair : pair \in round <=> pair \in counting /\ table[pair] = previous
    BY DEF Counting, Live, Group
  <1> HIDE DEF taken, counting, round
  <1>9. \A test : test \in Touched(round) <=>
                  \E pair \in counting : table[pair] = previous /\ test \in Ends(pair)
    BY <1>8 DEF Touched
  <1>10. \A pair \in counting : table[pair] < least <=> table[pair] < previous \/ table[pair] = previous
    BY <1>3, <1>5
  <1>11. \A test : test \in taken[least] <=> By(least, test)
    BY <1>6, <1>7, <1>9, <1>10
  <1>12. QED
    BY <1>2, <1>11

\* What AcceptedIsClosest says of the pairs that count.
Unbeaten(table, scored, pairs) ==
    \A pair \in scored : pair \in pairs <=>
        ~\E other \in pairs : Shared(pair, other) /\ table[other] < table[pair]

\* The pairs that count in the rounds are such pairs.
LEMMA CountingIsUnbeaten ==
    ASSUME NEW table, NEW scored,
           \A pair \in scored : table[pair] \in 0 .. MaxDistance
    PROVE  Unbeaten(table, scored, Counting(table, scored))
  <1> DEFINE counting == Counting(table, scored)
  <1>1. ASSUME NEW pair \in scored
        PROVE  pair \in counting <=>
                 ~\E other \in counting : Shared(pair, other) /\ table[other] < table[pair]
    <2>1. pair \in counting <=> Ends(pair) \cap Taken(table, scored)[table[pair]] = {}
      BY DEF Counting, Live, Group
    <2>2. \A test : test \in Taken(table, scored)[table[pair]] <=>
            \E other \in counting : table[other] < table[pair] /\ test \in Ends(other)
      BY TakenByCloser
    <2>3. \A other \in counting : table[other] < table[pair] => pair # other
      BY DEF Counting
    <2> HIDE DEF counting
    <2>4. QED
      BY <2>1, <2>2, <2>3 DEF Shared
  <1>2. QED
    BY <1>1 DEF Unbeaten

\* And there are no others: whether a pair counts depends on closer ones.
LEMMA UnbeatenIsUnique ==
    ASSUME NEW table, NEW scored,
           \A pair \in scored : table[pair] \in 0 .. MaxDistance,
           NEW pairs \in SUBSET scored, Unbeaten(table, scored, pairs),
           NEW others \in SUBSET scored, Unbeaten(table, scored, others)
    PROVE  pairs = others
  <1> DEFINE Differ(pair) == ~(pair \in pairs <=> pair \in others)
             Far == {d \in 0 .. MaxDistance : \E pair \in scored : table[pair] = d /\ Differ(pair)}
  <1> SUFFICES ASSUME pairs # others
               PROVE  FALSE
    OBVIOUS
  <1>1. Far # {} /\ Far \in SUBSET Nat
    BY AliasAssumption
  <1> DEFINE least == Min(Far)
  <1>2. least \in Far /\ \A d \in Far : least <= d
    <2> HIDE DEF Far
    <2>1. QED
      BY <1>1, LeastIs
  <1>3. PICK pair \in scored : table[pair] = least /\ Differ(pair)
    BY <1>2
  <1>4. \A other \in scored : table[other] < table[pair] => ~Differ(other)
    <2>1. ASSUME NEW other \in scored, table[other] < table[pair], Differ(other)
          PROVE  FALSE
      <3>1. table[other] \in Far
        BY <2>1
      <3>2. least <= table[other]
        BY <1>2, <3>1
      <3> HIDE DEF least
      <3>3. QED
        BY <1>3, <2>1, <3>2
    <2>2. QED
      BY <2>1
  <1>5. (\E other \in pairs : Shared(pair, other) /\ table[other] < table[pair]) <=>
        (\E other \in others : Shared(pair, other) /\ table[other] < table[pair])
    BY <1>4
  <1>6. QED
    BY <1>3, <1>5 DEF Unbeaten

\* So the matching of the rounds is the one AcceptedIsClosest describes.
LEMMA MatchingIsClosest ==
    ASSUME distance \in [Disappeared \X Appeared -> Distances],
           accepted = DetectRenames(distance, Disappeared, Appeared)
    PROVE  AcceptedIsClosest
  <1> DEFINE counting == Counting(distance, Close)
             chosen == CHOOSE pairs \in SUBSET Close : \A pair \in Close :
                         pair \in pairs <=> ~\E other \in pairs :
                           Shared(pair, other) /\ distance[other] < distance[pair]
             Round(d) == Live(Group(distance, Close, d), Taken(distance, Close)[d])
  <1>1. \A pair \in Close : distance[pair] \in 0 .. MaxDistance
    BY AliasAssumption DEF Close, Scored, Distances
  <1>2. counting \in SUBSET Close /\ Unbeaten(distance, Close, counting)
    BY <1>1, CountingIsUnbeaten DEF Counting
  <1>3. chosen = CHOOSE pairs \in SUBSET Close : Unbeaten(distance, Close, pairs)
    BY DEF Unbeaten
  <1>4. chosen \in SUBSET Close /\ Unbeaten(distance, Close, chosen)
    BY <1>2, <1>3
  <1>5. chosen = counting
    BY <1>1, <1>2, <1>4, UnbeatenIsUnique
  <1>6. accepted = {pair \in Close : pair \in Round(distance[pair]) \ Rivals(Round(distance[pair]))}
    BY DEF DetectRenames, Close
  <1>7. \A d : \A pair : pair \in Round(d) <=> pair \in counting /\ distance[pair] = d
    BY DEF Counting, Live, Group
  <1>8. \A pair \in counting : pair \in Rivals(Round(distance[pair])) <=>
          \E other \in counting : Shared(pair, other) /\ distance[other] = distance[pair]
    <2> HIDE DEF counting, Round
    <2>1. QED
      BY <1>7 DEF Rivals, Shared
  <1>9. accepted = {pair \in counting : ~\E other \in counting :
                      Shared(pair, other) /\ distance[other] = distance[pair]}
    <2> HIDE DEF counting, Round
    <2>1. QED
      BY <1>2, <1>6, <1>7, <1>8
  <1> HIDE DEF counting
  <1>10. QED
    BY <1>5, <1>9 DEF AcceptedIsClosest

Matched ==
    /\ distance \in [Disappeared \X Appeared -> Distances]
    /\ accepted = DetectRenames(distance, Disappeared, Appeared)

\* With no two tests close to each other nothing is merged.
LEMMA WalkStarts == WalkInit => Matched
  <1> SUFFICES ASSUME WalkInit
               PROVE  Matched
    OBVIOUS
  <1>1. distance \in [Disappeared \X Appeared -> Distances]
    BY AliasAssumption DEF WalkInit, Distances
  <1>2. Scored(distance, Disappeared, Appeared) = {}
    BY AliasAssumption DEF WalkInit, Scored
  <1>3. DetectRenames(distance, Disappeared, Appeared) = {}
    BY <1>2 DEF DetectRenames
  <1>4. QED
    BY <1>1, <1>3 DEF WalkInit, Matched

(***************************************************************************)
(* On every table of distances between any tests, finite many or not, the  *)
(* rounds of detect_renames accept exactly the pairs that no closer pair   *)
(* and no equally close one contests: the rounds depend on each other only *)
(* through the tests that they take, so the pairs still live in their own  *)
(* round are the unique set that the claim's definition without rounds     *)
(* picks.                                                                  *)
(***************************************************************************)
THEOREM AcceptedIsAlwaysClosest == WalkSpec => []AcceptedIsClosest
  <1>1. WalkInit => Matched
    BY WalkStarts
  <1>2. Matched /\ [WalkNext]_walkVars => Matched'
    BY DEF Matched, WalkNext, Rename, walkVars
  <1>3. Matched => AcceptedIsClosest
    BY MatchingIsClosest DEF Matched
  <1>4. QED
    BY <1>1, <1>2, <1>3, PTL DEF WalkSpec

-----------------------------------------------------------------------------
(* Reports: the order of a set of detections.                              *)

\* Detections of different tests.
Reportable(detections) ==
    /\ IsFiniteSet(detections)
    /\ detections \subseteq Detection
    /\ \A d, e \in detections : d.test = e.test => d = e

\* A function on the first n numbers is a sequence of length n.
LEMMA ListLength ==
    ASSUME NEW S, NEW n \in Nat, NEW f \in [1 .. n -> S]
    PROVE  f \in Seq(S) /\ Len(f) = n
  <1>1. f \in Seq(S)
    BY SeqDef
  <1>2. Len(f) \in Nat /\ DOMAIN f = 1 .. Len(f) /\ DOMAIN f = 1 .. n
    BY <1>1, LenProperties
  <1>3. QED
    BY <1>1, <1>2

\* Every verdict has its rank, and the first is that of a regression.
LEMMA RankIs ==
    ASSUME NEW verdict \in ToSet(VerdictOrder)
    PROVE  /\ Rank(verdict) \in 1 .. 5
           /\ VerdictOrder[Rank(verdict)] = verdict
           /\ Rank(verdict) = 1 <=> verdict = "REGRESSION"
  <1>1. DOMAIN VerdictOrder = 1 .. 5
    BY DEF VerdictOrder
  <1>2. \E n \in DOMAIN VerdictOrder : VerdictOrder[n] = verdict
    BY DEF ToSet
  <1>3. Rank(verdict) \in DOMAIN VerdictOrder /\ VerdictOrder[Rank(verdict)] = verdict
    BY <1>2 DEF Rank
  <1>4. \A n \in 1 .. 5 : VerdictOrder[n] = "REGRESSION" <=> n = 1
    BY DEF VerdictOrder
  <1>5. QED
    BY <1>1, <1>3, <1>4

\* The key of sort_for_report orders detections of different tests totally.
LEMMA PrecedesIsAnOrder ==
    ASSUME NEW detections, Reportable(detections),
           NEW c \in detections, NEW d \in detections, NEW e \in detections
    PROVE  /\ ~Precedes(d, d)
           /\ c # d => Precedes(c, d) \/ Precedes(d, c)
           /\ Precedes(c, d) /\ Precedes(d, e) => Precedes(c, e)
  <1>1. \A x \in detections : /\ x.verdict \in ToSet(VerdictOrder)
                              /\ x.rate \in Nat /\ x.test \in Nat
    <2>1. SUFFICES ASSUME NEW x \in detections
                   PROVE  x.verdict \in ToSet(VerdictOrder) /\ x.rate \in Nat /\ x.test \in Nat
      OBVIOUS
    <2>2. x \in [test : 1 .. MaxFound, verdict : ToSet(VerdictOrder), rate : Rates]
      BY DEF Reportable, Detection
    <2>3. /\ x.verdict \in ToSet(VerdictOrder)
          /\ x.rate \in Rates /\ x.test \in 1 .. MaxFound
      BY <2>2
    <2>4. x.rate \in Nat
      BY <2>3, ReportsAssumption
    <2>5. x.test \in Nat
      BY <2>3, ReportsAssumption
    <2>6. QED
      BY <2>3, <2>4, <2>5
  <1>2. \A x \in detections : Rank(x.verdict) \in Nat
    BY <1>1, RankIs
  <1>3. QED
    BY <1>1, <1>2 DEF Reportable, Precedes

\* A detection that precedes another has fewer ahead of it.
LEMMA AheadFollowsOrder ==
    ASSUME NEW detections, Reportable(detections), NEW d \in detections, NEW e \in detections
    PROVE  /\ Cardinality(detections) \in Nat
           /\ Ahead(d, detections) \in 0 .. Cardinality(detections) - 1
           /\ Precedes(d, e) <=> Ahead(d, detections) < Ahead(e, detections)
  <1> DEFINE Before(x) == {y \in detections : Precedes(y, x)}
  <1>1. IsFiniteSet(detections)
    BY DEF Reportable
  <1>2. \A x \in detections : Before(x) \in SUBSET detections /\ x \notin Before(x)
    BY PrecedesIsAnOrder
  <1>3. \A x \in detections : /\ IsFiniteSet(Before(x)) /\ Cardinality(Before(x)) \in Nat
                              /\ Cardinality(Before(x)) <= Cardinality(detections)
                              /\ Cardinality(Before(x)) # Cardinality(detections)
    <2> HIDE DEF Before
    <2>1. QED
      BY <1>1, <1>2, FS_Subset, FS_CardinalityType
  <1>4. ASSUME NEW x \in detections, NEW y \in detections, Precedes(x, y)
        PROVE  Cardinality(Before(x)) < Cardinality(Before(y))
    <2>1. Before(x) \in SUBSET Before(y)
      BY <1>4, PrecedesIsAnOrder
    <2>2. x \in Before(y) /\ x \notin Before(x)
      BY <1>2, <1>4
    <2> HIDE DEF Before
    <2>3. /\ Cardinality(Before(x)) <= Cardinality(Before(y))
          /\ Cardinality(Before(x)) # Cardinality(Before(y))
      BY <1>3, <2>1, <2>2, FS_Subset
    <2>4. QED
      BY <1>3, <2>3
  <1>5. \A x \in detections : Ahead(x, detections) = Cardinality(Before(x))
    BY DEF Ahead
  <1>6. Cardinality(detections) \in Nat
    BY <1>1, FS_CardinalityType
  <1> HIDE DEF Before
  <1>7. Ahead(d, detections) \in 0 .. Cardinality(detections) - 1
    BY <1>3, <1>5, <1>6
  <1>8. Precedes(d, e) => Ahead(d, detections) < Ahead(e, detections)
    BY <1>4, <1>5
  <1>9. Ahead(d, detections) < Ahead(e, detections) => Precedes(d, e)
    <2>1. CASE d = e
      BY <1>3, <1>5, <2>1
    <2>2. CASE Precedes(e, d)
      <3>1. Cardinality(Before(e)) < Cardinality(Before(d))
        BY <1>4, <2>2
      <3>2. QED
        BY <1>3, <1>5, <3>1
    <2>3. QED
      BY <2>1, <2>2, PrecedesIsAnOrder
  <1>10. QED
    BY <1>6, <1>7, <1>8, <1>9

\* Sorted lists every detection once, none after one that it precedes.
LEMMA SortedLists ==
    ASSUME NEW detections, Reportable(detections)
    PROVE  /\ Cardinality(detections) \in Nat
           /\ Sorted(detections) \in Seq(detections)
           /\ Len(Sorted(detections)) = Cardinality(detections)
           /\ \A d \in detections : \E n \in 1 .. Cardinality(detections) :
                Sorted(detections)[n] = d
           /\ \A m, n \in 1 .. Cardinality(detections) :
                m < n => Precedes(Sorted(detections)[m], Sorted(detections)[n])
  <1> DEFINE size == Cardinality(detections)
             f == [d \in detections |-> Ahead(d, detections) + 1]
  <1>1. IsFiniteSet(detections)
    BY DEF Reportable
  <1>2. size \in Nat
    BY <1>1, FS_CardinalityType
  <1>3. \A d \in detections : Ahead(d, detections) \in 0 .. size - 1
    BY AheadFollowsOrder
  <1>4. f \in [detections -> 1 .. size]
    BY <1>2, <1>3
  <1>5. \A d, e \in detections : f[d] = f[e] => d = e
    <2>1. SUFFICES ASSUME NEW d \in detections, NEW e \in detections, d # e
                   PROVE  Ahead(d, detections) + 1 # Ahead(e, detections) + 1
      OBVIOUS
    <2>2. Precedes(d, e) \/ Precedes(e, d)
      BY <2>1, PrecedesIsAnOrder
    <2>3. /\ \/ Ahead(d, detections) < Ahead(e, detections)
             \/ Ahead(e, detections) < Ahead(d, detections)
          /\ Ahead(d, detections) \in 0 .. size - 1 /\ Ahead(e, detections) \in 0 .. size - 1
      BY <2>2, AheadFollowsOrder
    <2>4. QED
      BY <1>2, <2>3
  <1>6. f \in Injection(detections, 1 .. size)
    BY <1>4, <1>5, Fun_IsInj
  <1>7. IsFiniteSet(1 .. size) /\ Cardinality(1 .. size) = size
    BY <1>2, FS_Interval
  <1>8. f \in Surjection(detections, 1 .. size)
    BY <1>1, <1>6, <1>7, FS_Injection
  <1>9. \A n \in 1 .. size : \E d \in detections : f[d] = n
    BY <1>8 DEF Surjection
  <1>10. \A n \in 1 .. size : \E d \in detections : Ahead(d, detections) = n - 1
    BY <1>2, <1>3, <1>9
  <1>11. \A n \in 1 .. size : /\ Sorted(detections)[n] \in detections
                              /\ Ahead(Sorted(detections)[n], detections) = n - 1
    BY <1>10 DEF Sorted
  <1>12. Sorted(detections) \in [1 .. size -> detections]
    BY <1>11 DEF Sorted
  <1>13. Sorted(detections) \in Seq(detections) /\ Len(Sorted(detections)) = size
    BY <1>2, <1>12, ListLength
  <1>14. ASSUME NEW d \in detections
         PROVE  \E n \in 1 .. size : Sorted(detections)[n] = d
    <2> DEFINE n == Ahead(d, detections) + 1
    <2>1. n \in 1 .. size /\ n - 1 = Ahead(d, detections)
      BY <1>2, <1>3
    <2>2. /\ Sorted(detections)[n] \in detections
          /\ Ahead(Sorted(detections)[n], detections) = Ahead(d, detections)
      BY <1>11, <2>1
    <2> HIDE DEF n
    <2>3. Sorted(detections)[n] = d
      BY <1>5, <2>2
    <2>4. QED
      BY <2>1, <2>3
  <1>15. ASSUME NEW m \in 1 .. size, NEW n \in 1 .. size, m < n
         PROVE  Precedes(Sorted(detections)[m], Sorted(detections)[n])
    <2>1. Ahead(Sorted(detections)[m], detections) < Ahead(Sorted(detections)[n], detections)
      BY <1>2, <1>11, <1>15
    <2>2. QED
      BY <1>11, <2>1, AheadFollowsOrder
  <1>16. QED
    BY <1>2, <1>13, <1>14, <1>15

\* A list has the elements of its places.
LEMMA ListHas ==
    ASSUME NEW S, NEW list \in Seq(S), NEW x
    PROVE  /\ x \in ToSet(list) <=> \E n \in 1 .. Len(list) : list[n] = x
           /\ list = <<>> <=> Len(list) = 0
  <1>1. DOMAIN list = 1 .. Len(list) /\ Len(list) \in Nat
    BY LenProperties
  <1>2. QED
    BY <1>1, EmptySeq DEF ToSet

-----------------------------------------------------------------------------
(* Reports: what they show of the detections.                              *)

\* What the detector found: detections, of one test each.
FoundDetections ==
    /\ found \in Seq(Detection)
    /\ \A m, n \in DOMAIN found : found[m].test = found[n].test => m = n

\* The detector never finds two things of one test.
LEMMA FoundStays == FoundDetections /\ [FindAnother]_found => FoundDetections'
  <1> SUFFICES ASSUME FoundDetections, [FindAnother]_found
               PROVE  FoundDetections'
    OBVIOUS
  <1>1. CASE UNCHANGED found
    BY <1>1 DEF FoundDetections
  <1>2. CASE FindAnother
    <2>1. PICK d \in Detection : /\ d.test \notin {e.test : e \in ToSet(found)}
                                 /\ found' = Append(found, d)
      BY <1>2 DEF FindAnother
    <2>2. found \in Seq(Detection) /\ Len(found) \in Nat /\ DOMAIN found = 1 .. Len(found)
      BY LenProperties DEF FoundDetections
    <2>3. \A n \in DOMAIN found : d.test # found[n].test
      BY <2>1 DEF ToSet
    <2>4. /\ found' \in Seq(Detection)
          /\ DOMAIN found' = 1 .. Len(found) + 1
          /\ found'[Len(found) + 1] = d
          /\ \A n \in 1 .. Len(found) : found'[n] = found[n]
      <3>1. /\ Append(found, d) \in Seq(Detection)
            /\ Len(Append(found, d)) = Len(found) + 1
            /\ \A n \in 1 .. Len(found) : Append(found, d)[n] = found[n]
            /\ Append(found, d)[Len(found) + 1] = d
        BY <2>2, AppendProperties
      <3>2. DOMAIN Append(found, d) = 1 .. Len(found) + 1
        BY <3>1, LenProperties
      <3>3. QED
        BY <2>1, <3>1, <3>2
    <2>5. ASSUME NEW m \in DOMAIN found', NEW n \in DOMAIN found',
                 found'[m].test = found'[n].test
          PROVE  m = n
      <3>1. (m \in 1 .. Len(found) \/ m = Len(found) + 1) /\ (n \in 1 .. Len(found) \/ n = Len(found) + 1)
        BY <2>2, <2>4
      <3>2. QED
        BY <2>2, <2>3, <2>4, <2>5, <3>1 DEF FoundDetections
    <2>6. QED
      BY <2>4, <2>5 DEF FoundDetections
  <1>3. QED
    BY <1>1, <1>2

\* The places of a list map onto its elements.
LEMMA ListIsFinite ==
    ASSUME NEW S, NEW list \in Seq(S)
    PROVE  IsFiniteSet(ToSet(list)) /\ ToSet(list) \subseteq S
  <1>1. DOMAIN list = 1 .. Len(list) /\ Len(list) \in Nat /\ list \in [1 .. Len(list) -> S]
    BY LenProperties
  <1>2. IsFiniteSet(1 .. Len(list))
    BY <1>1, FS_Interval
  <1>3. list \in [1 .. Len(list) -> ToSet(list)]
    BY <1>1 DEF ToSet
  <1>4. \A x \in ToSet(list) : \E n \in 1 .. Len(list) : list[n] = x
    BY <1>1 DEF ToSet
  <1>5. list \in Surjection(1 .. Len(list), ToSet(list))
    BY <1>3, <1>4, Fun_IsSurj
  <1>6. IsFiniteSet(ToSet(list))
    BY <1>2, <1>5, FS_Surjection
  <1>7. QED
    BY <1>1, <1>6 DEF ToSet

\* Any part of what was found can be sorted.
LEMMA FoundIsReportable ==
    ASSUME FoundDetections, NEW part \in SUBSET ToSet(found)
    PROVE  Reportable(part)
  <1>1. found \in Seq(Detection)
    BY DEF FoundDetections
  <1>2. IsFiniteSet(ToSet(found)) /\ ToSet(found) \subseteq Detection
    BY <1>1, ListIsFinite
  <1>3. IsFiniteSet(part)
    BY <1>2, FS_Subset
  <1>4. \A d, e \in ToSet(found) : d.test = e.test => d = e
    BY DEF FoundDetections, ToSet
  <1>5. QED
    BY <1>2, <1>3, <1>4 DEF Reportable

\* A sorted list has the elements of its set.
LEMMA SortedHas ==
    ASSUME NEW detections, Reportable(detections)
    PROVE  ToSet(Sorted(detections)) = detections
  <1>1. Sorted(detections) \in Seq(detections)
    BY SortedLists
  <1>2. \A d : d \in ToSet(Sorted(detections)) <=>
               \E n \in 1 .. Len(Sorted(detections)) : Sorted(detections)[n] = d
    BY <1>1, ListHas
  <1>3. \A n \in 1 .. Len(Sorted(detections)) : Sorted(detections)[n] \in detections
    BY <1>1, LenProperties
  <1>4. QED
    BY <1>2, <1>3, SortedLists

\* A list in the order of the key.
Ordered(list) == \A m, n \in DOMAIN list : m < n => Precedes(list[m], list[n])

LEMMA SortedIsOrdered ==
    ASSUME NEW detections, Reportable(detections)
    PROVE  Ordered(Sorted(detections))
  <1>1. DOMAIN Sorted(detections) = 1 .. Cardinality(detections)
    BY DEF Sorted
  <1>2. QED
    BY <1>1, SortedLists DEF Ordered

\* What the comment shows when there is something to show.
LEMMA CommentSays ==
    ASSUME FoundDetections, NEW failing, NEW worst,
           failing = {d \in ToSet(found) : d.verdict # "HEALTHY"}, failing # {},
           worst = {d \in failing : d.verdict = "REGRESSION"}
    PROVE  LET comment == RenderMarkdown(found) IN
           /\ ~comment.clear
           /\ comment.omitted + Len(comment.rows) = Cardinality(failing)
           /\ comment.omitted > 0 => Len(comment.rows) = MaxCommentRows
           /\ \A shown \in ToSet(comment.rows), left \in failing \ ToSet(comment.rows) :
                shown \in failing /\ Precedes(shown, left)
           /\ ToSet(comment.rows) \subseteq failing
           /\ Ordered(comment.rows)
           /\ comment.regressions = Cardinality(worst)
           /\ comment.absolves => Cardinality(worst) = 0
  <1> DEFINE rows == Findings(found)
             limit == Shorter(MaxCommentRows, Len(rows))
             comment == RenderMarkdown(found)
             size == Cardinality(failing)
  <1>1. Reportable(failing)
    BY FoundIsReportable
  <1>2. rows = Sorted(failing)
    BY DEF Findings
  <1>3. /\ size \in Nat /\ rows \in Seq(failing) /\ Len(rows) = size
        /\ \A d \in failing : \E n \in 1 .. size : rows[n] = d
        /\ \A m, n \in 1 .. size : m < n => Precedes(rows[m], rows[n])
    <2> HIDE DEF rows
    <2>1. QED
      BY <1>1, <1>2, SortedLists
  <1>4. ToSet(rows) = failing
    BY <1>1, <1>2, SortedHas
  <1>5. size # 0
    BY <1>3
  <1>6. rows # <<>>
    BY <1>3, <1>5, ListHas
  <1>7. Of(rows, "REGRESSION") = worst
    BY <1>4 DEF Of
  <1>8. /\ comment.clear = FALSE
        /\ comment.rows = SubSeq(rows, 1, limit)
        /\ comment.omitted = IF Len(rows) > MaxCommentRows THEN Len(rows) - MaxCommentRows ELSE 0
        /\ comment.regressions = Cardinality(worst)
        /\ comment.absolves => Cardinality(worst) = 0
    <2> HIDE DEF rows, limit
    <2>1. comment = [clear |-> FALSE,
              regressions |-> Cardinality(Of(rows, "REGRESSION")),
              unrelated |-> Cardinality(Of(rows, "FLAKY")),
              absolves |-> Cardinality(Of(rows, "FLAKY")) > 0 /\ Cardinality(Of(rows, "REGRESSION")) = 0,
              rows |-> SubSeq(rows, 1, limit),
              omitted |-> IF Len(rows) > MaxCommentRows THEN Len(rows) - MaxCommentRows ELSE 0]
      BY <1>6 DEF RenderMarkdown, rows, limit
    <2> HIDE DEF comment
    <2>2. QED
      BY <1>7, <2>1
  <1>9. limit \in 1 .. size /\ limit = IF size > MaxCommentRows THEN MaxCommentRows ELSE size
    BY <1>3, <1>5, ReportsAssumption DEF Shorter
  <1> HIDE DEF rows, limit, comment
  <1>10. /\ comment.rows \in Seq(failing) /\ Len(comment.rows) = limit
         /\ \A n \in 1 .. limit : comment.rows[n] = rows[n]
    <2>1. /\ SubSeq(rows, 1, limit) \in Seq(failing)
          /\ Len(SubSeq(rows, 1, limit)) = limit
          /\ \A n \in 1 .. limit : SubSeq(rows, 1, limit)[n] = rows[n]
      <3>1. /\ limit \in Int /\ 1 <= limit /\ limit - 1 + 1 = limit
            /\ \A n \in 1 .. limit : n \in 1 .. size /\ 1 + n - 1 = n
        <4>1. size \in Nat /\ limit \in 1 .. size
          BY <1>3, <1>9
        <4> HIDE DEF size
        <4>2. QED
          BY <4>1
      <3>2. \A n \in 1 .. limit : rows[n] \in failing
        BY <1>3, <3>1, LenProperties
      <3>3. /\ SubSeq(rows, 1, limit) \in Seq(failing)
            /\ Len(SubSeq(rows, 1, limit)) = IF 1 <= limit THEN limit - 1 + 1 ELSE 0
            /\ \A n \in 1 .. limit - 1 + 1 : SubSeq(rows, 1, limit)[n] = rows[1 + n - 1]
        BY <3>1, <3>2, SubSeqProperties
      <3>4. QED
        BY <3>1, <3>3
    <2>2. QED
      BY <1>8, <2>1
  <1>11. \A d : d \in ToSet(comment.rows) <=> \E n \in 1 .. limit : rows[n] = d
    <2>1. \A d : d \in ToSet(comment.rows) <=> \E n \in 1 .. limit : comment.rows[n] = d
      BY <1>10, ListHas
    <2>2. QED
      BY <1>10, <2>1
  <1>12. ASSUME NEW shown \in ToSet(comment.rows), NEW left \in failing \ ToSet(comment.rows)
         PROVE  shown \in failing /\ Precedes(shown, left)
    <2>1. PICK m \in 1 .. limit : rows[m] = shown
      BY <1>11
    <2>2. PICK n \in 1 .. size : rows[n] = left
      BY <1>3
    <2>3. n \notin 1 .. limit
      BY <1>11, <2>2
    <2>4. m \in 1 .. size /\ m < n
      BY <1>3, <1>9, <2>3
    <2>5. rows[m] \in failing
      BY <1>3, <2>4, LenProperties
    <2>6. QED
      BY <1>3, <2>1, <2>2, <2>4, <2>5
  <1>13. comment.omitted + Len(comment.rows) = size
    BY <1>3, <1>8, <1>9, <1>10, ReportsAssumption
  <1>14. comment.omitted > 0 => Len(comment.rows) = MaxCommentRows
    BY <1>3, <1>8, <1>9, <1>10
  <1>15. ToSet(comment.rows) \subseteq failing /\ Ordered(comment.rows)
    <2>1. DOMAIN comment.rows = 1 .. limit /\ limit \in 1 .. size /\ size \in Nat
      BY <1>3, <1>9, <1>10, LenProperties
    <2>2. Ordered(comment.rows)
      <3>1. \A n \in 1 .. limit : n \in 1 .. size /\ comment.rows[n] = rows[n]
        <4>1. limit \in 1 .. size /\ size \in Nat
          BY <2>1
        <4> HIDE DEF size
        <4>2. \A n \in 1 .. limit : n \in 1 .. size
          BY <4>1
        <4>3. QED
          BY <1>10, <4>2
      <3>2. ASSUME NEW m \in 1 .. limit, NEW n \in 1 .. limit, m < n
            PROVE  Precedes(comment.rows[m], comment.rows[n])
        <4>1. Precedes(rows[m], rows[n])
          BY <1>3, <3>1, <3>2
        <4>2. QED
          BY <3>1, <4>1
      <3>3. QED
        BY <2>1, <3>2 DEF Ordered
    <2>3. \A n \in 1 .. limit : comment.rows[n] \in failing
      BY <1>10, <2>1, LenProperties
    <2>4. QED
      BY <2>1, <2>2, <2>3 DEF ToSet
  <1>16. QED
    BY <1>8, <1>12, <1>13, <1>14, <1>15 DEF comment

\* The terminal and the JSON have all of their rows.
LEMMA OthersSay ==
    ASSUME FoundDetections, NEW failing,
           failing = {d \in ToSet(found) : d.verdict # "HEALTHY"}
    PROVE  /\ ToSet(RenderTerminal(found, FALSE).rows) = failing
           /\ ToSet(RenderJson(found).rows) = ToSet(found)
           /\ ToSet(RenderTerminal(found, TRUE).rows) = ToSet(found)
           /\ Ordered(RenderTerminal(found, FALSE).rows)
           /\ Ordered(RenderJson(found).rows)
           /\ Ordered(RenderTerminal(found, TRUE).rows)
  <1>1. ToSet(Findings(found)) = failing /\ Ordered(Findings(found))
    BY FoundIsReportable, SortedHas, SortedIsOrdered DEF Findings
  <1>2. ToSet(SortForReport(found)) = ToSet(found) /\ Ordered(SortForReport(found))
    BY FoundIsReportable, SortedHas, SortedIsOrdered DEF SortForReport
  <1>3. RenderTerminal(found, FALSE).rows = Findings(found)
    BY DEF RenderTerminal
  <1>4. RenderTerminal(found, TRUE).rows = SortForReport(found)
    BY DEF RenderTerminal
  <1>5. RenderJson(found).rows = SortForReport(found)
    BY DEF RenderJson
  <1>6. QED
    BY <1>1, <1>2, <1>3, <1>4, <1>5

\* An order by the key has the worst first.
LEMMA PrecedesIsAsBad ==
    ASSUME FoundDetections, NEW d \in ToSet(found), NEW e \in ToSet(found), Precedes(d, e)
    PROVE  AsBad(d, e)
  <1>1. ASSUME NEW x \in ToSet(found)
        PROVE  x.verdict \in ToSet(VerdictOrder) /\ x.rate \in Nat
    BY FoundIsReportable, ReportsAssumption DEF Reportable, Detection
  <1>2. \A x \in ToSet(found) : /\ Rank(x.verdict) \in 1 .. 5
                               /\ VerdictOrder[Rank(x.verdict)] = x.verdict
    BY <1>1, RankIs
  <1>3. QED
    BY <1>1, <1>2 DEF Precedes, AsBad

LEMMA OrderedIsWorstFirst ==
    ASSUME FoundDetections, NEW list, ToSet(list) \subseteq ToSet(found), Ordered(list)
    PROVE  WorstFirst(list)
  <1>1. \A n \in DOMAIN list : list[n] \in ToSet(found)
    BY DEF ToSet
  <1>2. QED
    BY <1>1, PrecedesIsAsBad DEF Ordered, WorstFirst

\* An order by verdict first shows the worst.
LEMMA NothingWorseNow == FoundDetections => NothingWorseIsHidden
  <1> SUFFICES ASSUME FoundDetections
               PROVE  NothingWorseIsHidden
    OBVIOUS
  <1> DEFINE comment == RenderMarkdown(found)
             failing == {d \in ToSet(found) : d.verdict # "HEALTHY"}
             worst == {d \in failing : d.verdict = "REGRESSION"}
             others == /\ ToSet(RenderTerminal(found, FALSE).rows) = failing
                       /\ ToSet(RenderJson(found).rows) = ToSet(found)
                       /\ ToSet(RenderTerminal(found, TRUE).rows) = ToSet(found)
                       /\ WorstFirst(RenderTerminal(found, FALSE).rows)
                       /\ WorstFirst(RenderJson(found).rows)
                       /\ WorstFirst(RenderTerminal(found, TRUE).rows)
  <1>1. Reportable(failing)
    BY FoundIsReportable
  <1>2. others
    <2>1. /\ ToSet(RenderTerminal(found, FALSE).rows) = failing
          /\ ToSet(RenderJson(found).rows) = ToSet(found)
          /\ ToSet(RenderTerminal(found, TRUE).rows) = ToSet(found)
          /\ Ordered(RenderTerminal(found, FALSE).rows)
          /\ Ordered(RenderJson(found).rows)
          /\ Ordered(RenderTerminal(found, TRUE).rows)
      BY OthersSay
    <2>2. failing \subseteq ToSet(found)
      OBVIOUS
    <2> HIDE DEF failing
    <2>3. WorstFirst(RenderTerminal(found, FALSE).rows)
      BY <2>1, <2>2, OrderedIsWorstFirst
    <2>4. WorstFirst(RenderJson(found).rows)
      BY <2>1, OrderedIsWorstFirst
    <2>5. WorstFirst(RenderTerminal(found, TRUE).rows)
      BY <2>1, OrderedIsWorstFirst
    <2>6. QED
      BY <2>1, <2>3, <2>4, <2>5
  <1>3. CASE failing = {}
    <2>1. Cardinality(failing) = 0
      BY <1>3, FS_EmptySet
    <2>2. Findings(found) = Sorted(failing)
      BY DEF Findings
    <2>3. Findings(found) = <<>>
      <3> HIDE DEF failing
      <3>1. Sorted(failing) \in Seq(failing) /\ Len(Sorted(failing)) = 0
        BY <1>1, <2>1, SortedLists
      <3>2. QED
        BY <2>2, <3>1, ListHas
    <2>4. comment.clear
      BY <2>3 DEF RenderMarkdown
    <2> HIDE DEF comment
    <2>5. QED
      BY <1>2, <1>3, <2>4, Zenon DEF NothingWorseIsHidden, comment
  <1>4. CASE failing # {}
    <2>1. /\ ~comment.clear
          /\ comment.omitted + Len(comment.rows) = Cardinality(failing)
          /\ comment.omitted > 0 => Len(comment.rows) = MaxCommentRows
          /\ \A shown \in ToSet(comment.rows), left \in failing \ ToSet(comment.rows) :
               shown \in failing /\ Precedes(shown, left)
          /\ ToSet(comment.rows) \subseteq failing
          /\ Ordered(comment.rows)
          /\ comment.regressions = Cardinality(worst)
          /\ comment.absolves => Cardinality(worst) = 0
      BY <1>4, CommentSays
    <2>2. Cardinality(worst) = 0 => worst = {}
      <3>1. IsFiniteSet(worst)
        BY <1>1, FS_Subset DEF Reportable
      <3> HIDE DEF worst
      <3>2. QED
        BY <3>1, FS_EmptySet
    <2>3. failing \subseteq ToSet(found)
      OBVIOUS
    <2>4. \A shown \in ToSet(comment.rows), left \in failing \ ToSet(comment.rows) :
            AsBad(shown, left)
      <3> HIDE DEF comment, failing, worst
      <3>1. QED
        BY <2>1, <2>3, PrecedesIsAsBad
    <2>5. WorstFirst(comment.rows)
      <3> HIDE DEF comment, failing, worst
      <3>1. QED
        BY <2>1, <2>3, OrderedIsWorstFirst
    <2>6. QED
      BY <1>2, <1>4, <2>1, <2>2, <2>4, <2>5, Zenon DEF NothingWorseIsHidden
  <1>5. QED
    BY <1>3, <1>4

(***************************************************************************)
(* Of any number of detections, with any flake rates and any limit of      *)
(* rows, no report hides something worse than what it shows: the order of  *)
(* sort_for_report is total on detections of different tests, so the rows  *)
(* that fit are those that precede all others, and none of them has a less *)
(* consequential verdict, or the same at a lower rate, than one after it.  *)
(***************************************************************************)
THEOREM NothingWorseIsEverHidden == FoundSpec => []NothingWorseIsHidden
  <1>1. FoundInit => FoundDetections
    BY EmptySeq DEF FoundInit, FoundDetections
  <1>2. QED
    BY <1>1, FoundStays, NothingWorseNow, PTL DEF FoundSpec

-----------------------------------------------------------------------------
(* Metrics: tables that only grow.                                         *)

TableOf(S) == Seq([of : Nat, at : Nat, row : S])

\* What a transaction adds to a table: rows after the others, of one stamp.
Grown(table, longer, of, at) ==
    /\ Len(table) <= Len(longer)
    /\ \A i \in 1 .. Len(table) : longer[i] = table[i]
    /\ \A i \in 1 .. Len(longer) : i > Len(table) => longer[i].of = of /\ longer[i].at = at

\* Rows are stamped and appended.
LEMMA StampedGrows ==
    ASSUME NEW S, NEW table \in TableOf(S), NEW rows \in Seq(S), NEW of \in Nat, NEW at \in Nat
    PROVE  /\ table \o Stamped(rows, at, of) \in TableOf(S)
           /\ Grown(table, table \o Stamped(rows, at, of), of, at)
  <1> DEFINE R == [of : Nat, at : Nat, row : S]
             new == Stamped(rows, at, of)
  <1>1. /\ table \in Seq(R) /\ Len(table) \in Nat /\ Len(rows) \in Nat
        /\ DOMAIN rows = 1 .. Len(rows) /\ rows \in [1 .. Len(rows) -> S]
    BY LenProperties DEF TableOf
  <1>2. /\ new \in [1 .. Len(rows) -> R]
        /\ \A i \in 1 .. Len(rows) : new[i].of = of /\ new[i].at = at
    BY <1>1 DEF Stamped
  <1>3. new \in Seq(R) /\ Len(new) = Len(rows)
    <2> HIDE DEF R, new
    <2>1. QED
      BY <1>1, <1>2, ListLength
  <1> HIDE DEF R, new
  <1>4. /\ table \o new \in Seq(R)
        /\ Len(table \o new) = Len(table) + Len(new)
        /\ \A i \in 1 .. Len(table) + Len(new) :
             (table \o new)[i] = IF i <= Len(table) THEN table[i] ELSE new[i - Len(table)]
    BY <1>1, <1>3, ConcatProperties
  <1>5. ASSUME NEW i \in 1 .. Len(table)
        PROVE  (table \o new)[i] = table[i]
    BY <1>1, <1>3, <1>4
  <1>6. ASSUME NEW i \in 1 .. Len(table \o new), i > Len(table)
        PROVE  (table \o new)[i].of = of /\ (table \o new)[i].at = at
    <2>1. i - Len(table) \in 1 .. Len(rows) /\ ~(i <= Len(table))
      BY <1>1, <1>3, <1>4, <1>6
    <2>2. (table \o new)[i] = new[i - Len(table)]
      BY <1>1, <1>3, <1>4, <2>1
    <2>3. QED
      BY <1>2, <2>1, <2>2
  <1>7. Len(table) <= Len(table \o new)
    BY <1>1, <1>3, <1>4
  <1>8. QED
    BY <1>4, <1>5, <1>6, <1>7 DEF Grown, TableOf, R, new

\* The places up to m.
UpTo(places, m) == {i \in places : i <= m}

\* The first of some places, as many as there are up to m, are those up to m.
LEMMA FirstAreUpTo ==
    ASSUME NEW n \in Nat, NEW places \in SUBSET (1 .. n), NEW m \in Nat
    PROVE  FirstOf(places, Cardinality(UpTo(places, m))) = UpTo(places, m)
  <1> DEFINE Before(i) == {j \in places : j <= i}
             upto == UpTo(places, m)
  <1>1. IsFiniteSet(places) /\ \A i \in places : i \in Nat
    <2>1. IsFiniteSet(1 .. n)
      BY FS_Interval
    <2>2. IsFiniteSet(places)
      BY <2>1, FS_Subset
    <2>3. \A i \in places : i \in 1 .. n
      OBVIOUS
    <2>4. QED
      BY <2>2, <2>3
  <1>2. upto \in SUBSET places /\ \A i \in places : Before(i) \in SUBSET places
    BY DEF UpTo
  <1>3. /\ IsFiniteSet(upto) /\ Cardinality(upto) \in Nat
        /\ \A i \in places : IsFiniteSet(Before(i)) /\ Cardinality(Before(i)) \in Nat
    <2> HIDE DEF Before, upto
    <2>1. QED
      BY <1>1, <1>2, FS_Subset, FS_CardinalityType
  <1>4. ASSUME NEW i \in places, i <= m
        PROVE  Cardinality(Before(i)) <= Cardinality(upto)
    <2>1. Before(i) \in SUBSET upto
      <3>1. \A j \in places : j <= i => j <= m
        BY <1>1, <1>4
      <3>2. QED
        BY <3>1 DEF UpTo
    <2> HIDE DEF Before, upto
    <2>2. QED
      BY <1>3, <2>1, FS_Subset
  <1>5. ASSUME NEW i \in places, ~(i <= m)
        PROVE  ~(Cardinality(Before(i)) <= Cardinality(upto))
    <2>1. upto \in SUBSET Before(i) /\ i \in Before(i) /\ i \notin upto
      <3>1. i <= i /\ \A j \in places : j <= m => j <= i
        BY <1>1, <1>5
      <3>2. QED
        BY <1>5, <3>1 DEF UpTo
    <2> HIDE DEF Before, upto
    <2>2. /\ Cardinality(upto) <= Cardinality(Before(i))
          /\ Cardinality(upto) # Cardinality(Before(i))
      BY <1>3, <2>1, FS_Subset
    <2>3. QED
      BY <1>3, <2>2
  <1>6. FirstOf(places, Cardinality(upto)) = {i \in places : Cardinality(Before(i)) <= Cardinality(upto)}
    BY DEF FirstOf
  <1>7. {i \in places : Cardinality(Before(i)) <= Cardinality(upto)} = {i \in places : i <= m}
    <2> HIDE DEF Before, upto
    <2>1. QED
      BY <1>4, <1>5
  <1>8. QED
    BY <1>6, <1>7 DEF UpTo

\* What was counted of the first m rows does not change when a table grows.
LEMMA CountedStays ==
    ASSUME NEW S, NEW table \in TableOf(S), NEW longer \in TableOf(S),
           NEW of, NEW at, Grown(table, longer, of, at), NEW m \in 0 .. Len(table)
    PROVE  UpTo(Counted(longer), m) = UpTo(Counted(table), m)
  <1>1. /\ Len(table) \in Nat /\ Len(longer) \in Nat
        /\ DOMAIN table = 1 .. Len(table) /\ DOMAIN longer = 1 .. Len(longer)
    BY LenProperties DEF TableOf
  <1>2. \A i \in 1 .. m : i \in DOMAIN table /\ i \in DOMAIN longer /\ longer[i] = table[i]
    BY <1>1 DEF Grown
  <1>3. \A i : i \in UpTo(Counted(longer), m) <=> i \in 1 .. m /\ InWindow(longer[i])
    BY <1>1, <1>2 DEF UpTo, Counted
  <1>4. \A i : i \in UpTo(Counted(table), m) <=> i \in 1 .. m /\ InWindow(table[i])
    BY <1>1, <1>2 DEF UpTo, Counted
  <1>5. QED
    BY <1>2, <1>3, <1>4

-----------------------------------------------------------------------------
(* Metrics: what is stored, and what stats has read of it.                 *)

\* A transaction's rows have its number, and its calls are stamped first.
Stored ==
    /\ clock \in Nat
    /\ llmCalls \in TableOf(CallRows)
    /\ classified \in TableOf(ResultRows)
    /\ \E n \in Nat : Transactions = 1 .. n
    /\ \A i \in DOMAIN llmCalls, j \in DOMAIN classified :
         llmCalls[i].of = classified[j].of => llmCalls[i].at <= classified[j].at

\* After its first query stats has counted the calls among the first m, of
\* transactions whose results are among the first k; after the third, the
\* results among the first l, which are no fewer.
Read ==
    /\ query \in 0 .. 7
    /\ cutoff \in Nat
    /\ DOMAIN summary = DOMAIN NoSummary
    /\ query > 0 => sizes.calls \in 0 .. Len(llmCalls)
    /\ query > 1 =>
         \E m \in 0 .. Len(llmCalls), k \in 0 .. Len(classified) :
           /\ sizes.calls <= m
           /\ summary.calls = Cardinality(UpTo(Counted(llmCalls), m))
           /\ \A i \in 1 .. m, j \in DOMAIN classified : llmCalls[i].of = classified[j].of => j <= k
           /\ query > 3 => \E l \in k .. Len(classified) :
                summary.classifications = Cardinality(UpTo(Counted(classified), l))

\* Both tables begin at one and end at their length.
LEMMA TableEnds ==
    ASSUME Stored
    PROVE  /\ Len(llmCalls) \in Nat /\ DOMAIN llmCalls = 1 .. Len(llmCalls)
           /\ Len(classified) \in Nat /\ DOMAIN classified = 1 .. Len(classified)
           /\ \A i \in DOMAIN llmCalls : llmCalls[i].of \in Nat /\ llmCalls[i].at \in Nat
           /\ \A j \in DOMAIN classified : classified[j].of \in Nat /\ classified[j].at \in Nat
  <1>1. llmCalls \in Seq([of : Nat, at : Nat, row : CallRows])
    BY DEF Stored, TableOf
  <1>2. classified \in Seq([of : Nat, at : Nat, row : ResultRows])
    BY DEF Stored, TableOf
  <1>3. /\ Len(llmCalls) \in Nat /\ DOMAIN llmCalls = 1 .. Len(llmCalls)
        /\ \A i \in DOMAIN llmCalls : llmCalls[i] \in [of : Nat, at : Nat, row : CallRows]
    BY <1>1, LenProperties
  <1>4. /\ Len(classified) \in Nat /\ DOMAIN classified = 1 .. Len(classified)
        /\ \A j \in DOMAIN classified : classified[j] \in [of : Nat, at : Nat, row : ResultRows]
    BY <1>2, LenProperties
  <1>5. QED
    BY <1>3, <1>4

\* The count of a whole table.
LEMMA CountedUpToEnd ==
    ASSUME Stored
    PROVE  /\ Counted(llmCalls) = UpTo(Counted(llmCalls), Len(llmCalls))
           /\ Counted(classified) = UpTo(Counted(classified), Len(classified))
           /\ Counted(llmCalls) \in SUBSET (1 .. Len(llmCalls))
           /\ Counted(classified) \in SUBSET (1 .. Len(classified))
  BY TableEnds DEF Counted, UpTo

\* What a query adds to the counts of calls and results.
LEMMA AnswerSays ==
    ASSUME query \in 1 .. 6, DOMAIN summary = DOMAIN NoSummary
    PROVE  /\ DOMAIN Answer = DOMAIN NoSummary
           /\ Answer.calls = IF query = 1 THEN Cardinality(Counted(llmCalls)) ELSE summary.calls
           /\ Answer.classifications =
                IF query = 3 THEN Cardinality(Counted(classified)) ELSE summary.classifications
  <1>1. /\ "calls" \in DOMAIN summary /\ "cost" \in DOMAIN summary /\ "errors" \in DOMAIN summary
        /\ "classifications" \in DOMAIN summary
    BY DEF NoSummary
  <1>2. CASE query = 1
    <2>1. Queries[query] = "calls"
      BY <1>2 DEF Queries
    <2>2. \E x, y : Answer = [summary EXCEPT !.calls = Cardinality(Counted(llmCalls)), !.cost = x, !.errors = y]
      BY <2>1, Zenon DEF Answer
    <2> HIDE DEF Answer
    <2>3. QED
      BY <1>1, <1>2, <2>2
  <1>3. CASE query = 2
    <2>1. Queries[query] = "latencies"
      BY <1>3 DEF Queries
    <2>2. \E x, y : Answer = [summary EXCEPT !.p50 = x, !.p95 = y]
      BY <2>1, Zenon DEF Answer
    <2> HIDE DEF Answer
    <2>3. QED
      BY <1>1, <1>3, <2>2
  <1>4. CASE query = 3
    <2>1. Queries[query] = "classifications"
      BY <1>4 DEF Queries
    <2>2. \E x, y : Answer = [summary EXCEPT !.classifications = Cardinality(Counted(classified)), !.abstentions = x, !.hits = y]
      BY <2>1, Zenon DEF Answer
    <2> HIDE DEF Answer
    <2>3. QED
      BY <1>1, <1>4, <2>2
  <1>5. CASE query = 4
    <2>1. Queries[query] = "by cause"
      BY <1>5 DEF Queries
    <2>2. \E x : Answer = [summary EXCEPT !.byCause = x]
      BY <2>1, Zenon DEF Answer
    <2> HIDE DEF Answer
    <2>3. QED
      BY <1>1, <1>5, <2>2
  <1>6. CASE query = 5
    <2>1. Queries[query] = "by reason"
      BY <1>6 DEF Queries
    <2>2. \E x : Answer = [summary EXCEPT !.byReason = x]
      BY <2>1, Zenon DEF Answer
    <2> HIDE DEF Answer
    <2>3. QED
      BY <1>1, <1>6, <2>2
  <1>7. CASE query = 6
    <2>1. Queries[query] = "runs"
      BY <1>7 DEF Queries
    <2>2. \E x : Answer = [summary EXCEPT !.runs = x]
      BY <2>1, Zenon DEF Answer
    <2> HIDE DEF Answer
    <2>3. QED
      BY <1>1, <1>7, <2>2
  <1>8. QED
    BY <1>2, <1>3, <1>4, <1>5, <1>6, <1>7

\* A transaction has a number of its own and adds to both tables at once.
LEMMA RecordedGrows ==
    ASSUME Stored, RecordMetrics
    PROVE  \E n \in Nat, first \in Nat, then \in Nat :
             /\ Transactions = 1 .. n
             /\ \A i \in DOMAIN llmCalls : llmCalls[i].of # n + 1
             /\ \A j \in DOMAIN classified : classified[j].of # n + 1
             /\ first <= then /\ clock' \in Nat
             /\ llmCalls' \in TableOf(CallRows) /\ Grown(llmCalls, llmCalls', n + 1, first)
             /\ classified' \in TableOf(ResultRows) /\ Grown(classified, classified', n + 1, then)
             /\ Transactions' = Transactions \/ Transactions' = Transactions \cup {n + 1}
             /\ UNCHANGED <<ciRuns, query, cutoff, summary, sizes>>
  <1>1. PICK done \in Invocations, stamps \in (0 .. clock) \X (0 .. clock + 1) :
          LET of == Cardinality(Transactions) + 1 IN
          /\ stamps[1] <= stamps[2]
          /\ llmCalls' = llmCalls \o Stamped(done.calls, stamps[1], of)
          /\ classified' = classified \o Stamped(done.classifications, stamps[2], of)
          /\ clock' = IF stamps[2] > clock THEN stamps[2] ELSE clock
          /\ UNCHANGED <<ciRuns, query, cutoff, summary, sizes>>
    BY DEF RecordMetrics, Stamps
  <1> DEFINE of == Cardinality(Transactions) + 1
  <1>2. PICK n \in Nat : Transactions = 1 .. n
    BY DEF Stored
  <1>3. of = n + 1 /\ of \in Nat
    <2>1. Cardinality(1 .. n) = n
      BY FS_Interval
    <2>2. QED
      BY <1>2, <2>1
  <1>4. stamps[1] \in Nat /\ stamps[2] \in Nat /\ stamps[1] <= stamps[2]
    BY <1>1 DEF Stored
  <1>5. done.calls \in Seq(CallRows) /\ done.classifications \in Seq(ResultRows)
    <2>1. done \in [calls : Seq(CallRows), classifications : Seq(ResultRows)]
      BY StatsAssumption
    <2>2. QED
      BY <2>1
  <1>6. /\ \A i \in DOMAIN llmCalls : llmCalls[i].of \in 1 .. n
        /\ \A j \in DOMAIN classified : classified[j].of \in 1 .. n
    BY <1>2 DEF Transactions
  <1> HIDE DEF of
  <1>7. /\ llmCalls' \in TableOf(CallRows) /\ Grown(llmCalls, llmCalls', of, stamps[1])
    <2>1. llmCalls' = llmCalls \o Stamped(done.calls, stamps[1], of)
      BY <1>1 DEF of
    <2>2. QED
      BY <1>2, <1>3, <1>4, <1>5, <2>1, StampedGrows DEF Stored
  <1>8. /\ classified' \in TableOf(ResultRows) /\ Grown(classified, classified', of, stamps[2])
    <2>1. classified' = classified \o Stamped(done.classifications, stamps[2], of)
      BY <1>1 DEF of
    <2>2. QED
      BY <1>2, <1>3, <1>4, <1>5, <2>1, StampedGrows DEF Stored
  <1>9. Transactions' = Transactions \/ Transactions' = Transactions \cup {of}
    <2>1. /\ DOMAIN llmCalls = 1 .. Len(llmCalls) /\ Len(llmCalls) \in Nat
          /\ DOMAIN classified = 1 .. Len(classified) /\ Len(classified) \in Nat
      BY TableEnds
    <2>2. /\ DOMAIN llmCalls' = 1 .. Len(llmCalls') /\ Len(llmCalls') \in Nat
          /\ DOMAIN classified' = 1 .. Len(classified') /\ Len(classified') \in Nat
      BY <1>7, <1>8, LenProperties DEF TableOf
    <2>3. \A i \in DOMAIN llmCalls : i \in DOMAIN llmCalls' /\ llmCalls'[i] = llmCalls[i]
      BY <1>7, <2>1, <2>2 DEF Grown
    <2>4. \A i \in DOMAIN classified : i \in DOMAIN classified' /\ classified'[i] = classified[i]
      BY <1>8, <2>1, <2>2 DEF Grown
    <2>5. \A i \in DOMAIN llmCalls' : i \in DOMAIN llmCalls \/ llmCalls'[i].of = of
      BY <1>7, <2>1, <2>2 DEF Grown
    <2>6. \A i \in DOMAIN classified' : i \in DOMAIN classified \/ classified'[i].of = of
      BY <1>8, <2>1, <2>2 DEF Grown
    <2>7. \A x : x \in Transactions' <=> \/ \E i \in DOMAIN llmCalls' : llmCalls'[i].of = x
                                         \/ \E i \in DOMAIN classified' : classified'[i].of = x
      BY DEF Transactions
    <2>8. \A x : x \in Transactions <=> \/ \E i \in DOMAIN llmCalls : llmCalls[i].of = x
                                        \/ \E i \in DOMAIN classified : classified[i].of = x
      BY DEF Transactions
    <2>9. \A x \in Transactions : x \in Transactions'
      BY <2>3, <2>4, <2>7, <2>8
    <2>10. \A x \in Transactions' : x \in Transactions \/ x = of
      BY <2>3, <2>4, <2>5, <2>6, <2>7, <2>8
    <2>11. QED
      BY <2>9, <2>10
  <1>10. n + 1 \notin 1 .. n
    OBVIOUS
  <1>11. /\ \A i \in DOMAIN llmCalls : llmCalls[i].of # n + 1
         /\ \A j \in DOMAIN classified : classified[j].of # n + 1
    BY <1>6, <1>10
  <1>12. clock' \in Nat /\ UNCHANGED <<ciRuns, query, cutoff, summary, sizes>>
    BY <1>1, <1>4 DEF Stored
  <1>13. /\ Grown(llmCalls, llmCalls', n + 1, stamps[1])
         /\ Grown(classified, classified', n + 1, stamps[2])
         /\ Transactions' = Transactions \/ Transactions' = Transactions \cup {n + 1}
    BY <1>3, <1>7, <1>8, <1>9
  <1>14. QED
    BY <1>2, <1>4, <1>7, <1>8, <1>11, <1>12, <1>13, Zenon

\* Storing keeps every transaction whole.
LEMMA StoredStays == Stored /\ [StatsNext]_statsVars => Stored'
  <1> SUFFICES ASSUME Stored, [StatsNext]_statsVars
               PROVE  Stored'
    OBVIOUS
  <1>1. CASE RecordMetrics
    <2>1. PICK n \in Nat, first \in Nat, then \in Nat :
             /\ Transactions = 1 .. n
             /\ \A i \in DOMAIN llmCalls : llmCalls[i].of # n + 1
             /\ \A j \in DOMAIN classified : classified[j].of # n + 1
             /\ first <= then /\ clock' \in Nat
             /\ llmCalls' \in TableOf(CallRows) /\ Grown(llmCalls, llmCalls', n + 1, first)
             /\ classified' \in TableOf(ResultRows) /\ Grown(classified, classified', n + 1, then)
             /\ Transactions' = Transactions \/ Transactions' = Transactions \cup {n + 1}
      BY <1>1, RecordedGrows
    <2>2. \E k \in Nat : Transactions' = 1 .. k
      <3>1. (1 .. n) \cup {n + 1} = 1 .. n + 1
        OBVIOUS
      <3>2. n + 1 \in Nat
        OBVIOUS
      <3>3. Transactions' = 1 .. n \/ Transactions' = 1 .. n + 1
        BY <2>1, <3>1
      <3>4. QED
        BY <3>2, <3>3
    <2>3. /\ DOMAIN llmCalls = 1 .. Len(llmCalls) /\ Len(llmCalls) \in Nat
          /\ DOMAIN classified = 1 .. Len(classified) /\ Len(classified) \in Nat
      BY TableEnds
    <2>4. /\ DOMAIN llmCalls' = 1 .. Len(llmCalls') /\ Len(llmCalls') \in Nat
          /\ DOMAIN classified' = 1 .. Len(classified') /\ Len(classified') \in Nat
      BY <2>1, LenProperties DEF TableOf
    <2>5. \A i \in DOMAIN llmCalls' :
            \/ i \in DOMAIN llmCalls /\ llmCalls'[i] = llmCalls[i]
            \/ llmCalls'[i].of = n + 1 /\ llmCalls'[i].at = first
      BY <2>1, <2>3, <2>4 DEF Grown
    <2>6. \A j \in DOMAIN classified' :
            \/ j \in DOMAIN classified /\ classified'[j] = classified[j]
            \/ classified'[j].of = n + 1 /\ classified'[j].at = then
      BY <2>1, <2>3, <2>4 DEF Grown
    <2>7. ASSUME NEW i \in DOMAIN llmCalls', NEW j \in DOMAIN classified',
                 llmCalls'[i].of = classified'[j].of
          PROVE  llmCalls'[i].at <= classified'[j].at
      BY <2>1, <2>5, <2>6, <2>7 DEF Stored
    <2>8. QED
      BY <2>1, <2>2, <2>7 DEF Stored
  <1>2. CASE UNCHANGED <<llmCalls, classified>> /\ clock' \in Nat
    BY <1>2 DEF Stored, Transactions
  <1>3. CASE StoreRun
    BY <1>2, <1>3 DEF StoreRun, Stored
  <1>4. CASE TimePasses
    BY <1>2, <1>4 DEF TimePasses, Stored
  <1>5. CASE Ask \/ RunQuery \/ Show \/ UNCHANGED statsVars
    BY <1>2, <1>5 DEF Ask, RunQuery, Show, statsVars, tableVars, Stored
  <1>6. QED
    BY <1>1, <1>3, <1>4, <1>5 DEF StatsNext

\* What stats has read stays so while others store, and each query keeps it.
LEMMA ReadStays == Stored /\ Read /\ [StatsNext]_statsVars => Read'
  <1> SUFFICES ASSUME Stored, Read, [StatsNext]_statsVars
               PROVE  Read'
    OBVIOUS
  <1>1. Stored'
    BY StoredStays
  <1>2. CASE RecordMetrics
    <2>1. PICK n \in Nat, first \in Nat, then \in Nat :
             /\ \A i \in DOMAIN llmCalls : llmCalls[i].of # n + 1
             /\ \A j \in DOMAIN classified : classified[j].of # n + 1
             /\ llmCalls' \in TableOf(CallRows) /\ Grown(llmCalls, llmCalls', n + 1, first)
             /\ classified' \in TableOf(ResultRows) /\ Grown(classified, classified', n + 1, then)
             /\ UNCHANGED <<ciRuns, query, cutoff, summary, sizes>>
      BY <1>2, RecordedGrows
    <2>2. /\ DOMAIN llmCalls = 1 .. Len(llmCalls) /\ Len(llmCalls) \in Nat
          /\ DOMAIN classified = 1 .. Len(classified) /\ Len(classified) \in Nat
      BY TableEnds
    <2>3. /\ DOMAIN llmCalls' = 1 .. Len(llmCalls') /\ Len(llmCalls') \in Nat
          /\ DOMAIN classified' = 1 .. Len(classified') /\ Len(classified') \in Nat
      BY <2>1, LenProperties DEF TableOf
    <2>4. Len(llmCalls) <= Len(llmCalls') /\ Len(classified) <= Len(classified')
      BY <2>1 DEF Grown
    <2>5. \A m \in 0 .. Len(llmCalls) : UpTo(Counted(llmCalls), m)' = UpTo(Counted(llmCalls), m)
      <3>1. \A m \in 0 .. Len(llmCalls) : UpTo(Counted(llmCalls'), m) = UpTo(Counted(llmCalls), m)
        BY <2>1, CountedStays DEF Stored
      <3>2. \A m : UpTo(Counted(llmCalls), m)' = UpTo(Counted(llmCalls'), m)
        BY <2>1 DEF UpTo, Counted, InWindow
      <3>3. QED
        BY <3>1, <3>2
    <2>6. \A l \in 0 .. Len(classified) : UpTo(Counted(classified), l)' = UpTo(Counted(classified), l)
      <3>1. \A l \in 0 .. Len(classified) : UpTo(Counted(classified'), l) = UpTo(Counted(classified), l)
        BY <2>1, CountedStays DEF Stored
      <3>2. \A l : UpTo(Counted(classified), l)' = UpTo(Counted(classified'), l)
        BY <2>1 DEF UpTo, Counted, InWindow
      <3>3. QED
        BY <3>1, <3>2
    <2>7. ASSUME query > 1
          PROVE  \E m \in 0 .. Len(llmCalls'), k \in 0 .. Len(classified') :
                   /\ sizes.calls <= m
                   /\ summary.calls = Cardinality(UpTo(Counted(llmCalls), m)')
                   /\ \A i \in 1 .. m, j \in DOMAIN classified' :
                        llmCalls'[i].of = classified'[j].of => j <= k
                   /\ query > 3 => \E l \in k .. Len(classified') :
                        summary.classifications = Cardinality(UpTo(Counted(classified), l)')
      <3>1. PICK m \in 0 .. Len(llmCalls), k \in 0 .. Len(classified) :
               /\ sizes.calls <= m
               /\ summary.calls = Cardinality(UpTo(Counted(llmCalls), m))
               /\ \A i \in 1 .. m, j \in DOMAIN classified : llmCalls[i].of = classified[j].of => j <= k
               /\ query > 3 => \E l \in k .. Len(classified) :
                    summary.classifications = Cardinality(UpTo(Counted(classified), l))
        BY <2>7 DEF Read
      <3>2. m \in 0 .. Len(llmCalls') /\ k \in 0 .. Len(classified')
        BY <2>2, <2>3, <2>4
      <3>3. ASSUME NEW i \in 1 .. m, NEW j \in DOMAIN classified',
                   llmCalls'[i].of = classified'[j].of
            PROVE  j <= k
        <4>1. i \in DOMAIN llmCalls /\ llmCalls'[i] = llmCalls[i]
          BY <2>1, <2>2 DEF Grown
        <4>2. CASE j \in DOMAIN classified
          BY <2>1, <2>2, <3>1, <3>3, <4>1, <4>2 DEF Grown
        <4>3. CASE j \notin DOMAIN classified
          <5>1. classified'[j].of = n + 1
            BY <2>1, <2>2, <2>3, <4>3 DEF Grown
          <5>2. QED
            BY <2>1, <3>3, <4>1, <5>1
        <4>4. QED
          BY <4>2, <4>3
      <3>4. query > 3 => \E l \in k .. Len(classified') :
                summary.classifications = Cardinality(UpTo(Counted(classified), l)')
        <4>1. SUFFICES ASSUME query > 3
                       PROVE  \E l \in k .. Len(classified') :
                                summary.classifications = Cardinality(UpTo(Counted(classified), l)')
          OBVIOUS
        <4>2. PICK l \in k .. Len(classified) :
                summary.classifications = Cardinality(UpTo(Counted(classified), l))
          BY <3>1, <4>1
        <4>3. l \in 0 .. Len(classified) /\ l \in k .. Len(classified')
          BY <2>2, <2>3, <2>4
        <4>4. QED
          BY <2>6, <4>2, <4>3
      <3>5. summary.calls = Cardinality(UpTo(Counted(llmCalls), m)')
        BY <2>5, <3>1
      <3>6. QED
        BY <3>1, <3>2, <3>3, <3>4, <3>5
    <2>8. query > 0 => sizes.calls \in 0 .. Len(llmCalls')
      BY <2>2, <2>3, <2>4 DEF Read
    <2>9. /\ query' = query /\ cutoff' = cutoff /\ summary' = summary /\ sizes' = sizes
      BY <2>1
    <2>10. QED
      BY <2>7, <2>8, <2>9 DEF Read
  <1>3. CASE StoreRun \/ TimePasses \/ UNCHANGED statsVars
    <2>1. /\ llmCalls' = llmCalls /\ classified' = classified /\ query' = query
          /\ cutoff' = cutoff /\ summary' = summary /\ sizes' = sizes
      BY <1>3 DEF StoreRun, TimePasses, statsVars, tableVars
    <2>2. /\ Counted(llmCalls)' = Counted(llmCalls) /\ Counted(classified)' = Counted(classified)
      BY <2>1 DEF Counted, InWindow
    <2>3. /\ \A m : UpTo(Counted(llmCalls), m)' = UpTo(Counted(llmCalls), m)
          /\ \A m : UpTo(Counted(classified), m)' = UpTo(Counted(classified), m)
      BY <2>2 DEF UpTo
    <2>4. QED
      BY <2>1, <2>3 DEF Read
  <1>4. CASE Ask
    <2>1. Len(llmCalls) \in Nat
      BY TableEnds
    <2>2. /\ query' = 1 /\ cutoff' \in 0 .. clock /\ summary' = NoSummary
          /\ sizes'.calls = Len(llmCalls) /\ llmCalls' = llmCalls
      BY <1>4 DEF Ask, tableVars
    <2>3. cutoff' \in Nat
      BY <2>2 DEF Stored
    <2>4. QED
      BY <2>1, <2>2, <2>3 DEF Read, NoSummary
  <1>5. CASE Show
    <2>1. /\ query' = 0 /\ cutoff' = 0 /\ summary' = NoSummary
      BY <1>5 DEF Show
    <2>2. QED
      BY <2>1 DEF Read
  <1>6. CASE RunQuery
    <2>1. /\ query \in 1 .. 6 /\ query' = query + 1 /\ summary' = Answer
          /\ UNCHANGED <<llmCalls, classified, cutoff, sizes>>
      <3>1. DOMAIN Queries = 1 .. 6
        BY DEF Queries
      <3>2. QED
        BY <1>6, <3>1 DEF RunQuery, tableVars
    <2>2. /\ DOMAIN Answer = DOMAIN NoSummary
          /\ Answer.calls = IF query = 1 THEN Cardinality(Counted(llmCalls)) ELSE summary.calls
          /\ Answer.classifications =
               IF query = 3 THEN Cardinality(Counted(classified)) ELSE summary.classifications
      BY <2>1, AnswerSays DEF Read
    <2>3. /\ Len(llmCalls) \in Nat /\ Len(classified) \in Nat
          /\ DOMAIN classified = 1 .. Len(classified)
      BY TableEnds
    <2>4. \A m : /\ UpTo(Counted(llmCalls), m)' = UpTo(Counted(llmCalls), m)
                 /\ UpTo(Counted(classified), m)' = UpTo(Counted(classified), m)
      BY <2>1 DEF UpTo, Counted, InWindow
    <2>5. \E m \in 0 .. Len(llmCalls), k \in 0 .. Len(classified) :
             /\ sizes.calls <= m
             /\ Answer.calls = Cardinality(UpTo(Counted(llmCalls), m))
             /\ \A i \in 1 .. m, j \in DOMAIN classified : llmCalls[i].of = classified[j].of => j <= k
             /\ query + 1 > 3 => \E l \in k .. Len(classified) :
                  Answer.classifications = Cardinality(UpTo(Counted(classified), l))
      <3>1. CASE query = 1
        <4>1. Answer.calls = Cardinality(UpTo(Counted(llmCalls), Len(llmCalls)))
          BY <2>2, <3>1, CountedUpToEnd
        <4>2. sizes.calls <= Len(llmCalls)
          BY <2>3, <3>1 DEF Read
        <4>3. /\ Len(llmCalls) \in 0 .. Len(llmCalls) /\ Len(classified) \in 0 .. Len(classified)
              /\ \A j \in DOMAIN classified : j <= Len(classified)
          BY <2>3
        <4>4. ~(query + 1 > 3)
          BY <3>1
        <4>5. QED
          BY <4>1, <4>2, <4>3, <4>4, Zenon
      <3>2. CASE query # 1
        <4>1. query > 1
          BY <2>1, <3>2
        <4>2. PICK m \in 0 .. Len(llmCalls), k \in 0 .. Len(classified) :
               /\ sizes.calls <= m
               /\ summary.calls = Cardinality(UpTo(Counted(llmCalls), m))
               /\ \A i \in 1 .. m, j \in DOMAIN classified : llmCalls[i].of = classified[j].of => j <= k
               /\ query > 3 => \E l \in k .. Len(classified) :
                    summary.classifications = Cardinality(UpTo(Counted(classified), l))
          BY <4>1 DEF Read
        <4>3. CASE query = 3
          <5>1. Answer.classifications = Cardinality(UpTo(Counted(classified), Len(classified)))
            BY <2>2, <4>3, CountedUpToEnd
          <5>2. Len(classified) \in k .. Len(classified)
            BY <2>3
          <5>3. QED
            BY <2>2, <4>1, <4>2, <5>1, <5>2
        <4>4. CASE query # 3
          <5>1. query + 1 > 3 => query > 3
            BY <2>1, <4>4
          <5>2. Answer.calls = summary.calls /\ Answer.classifications = summary.classifications
            BY <2>2, <3>2, <4>4
          <5>3. QED
            BY <4>2, <5>1, <5>2
        <4>5. QED
          BY <4>3, <4>4
      <3>3. QED
        BY <3>1, <3>2
    <2>6. query' \in 0 .. 7 /\ query' > 1 /\ query > 0
      BY <2>1
    <2>7. sizes.calls \in 0 .. Len(llmCalls)
      BY <2>6 DEF Read
    <2> HIDE DEF Answer
    <2>8. /\ query' = query + 1 /\ summary' = Answer /\ llmCalls' = llmCalls
          /\ classified' = classified /\ cutoff' = cutoff /\ sizes' = sizes
      BY <2>1
    <2>9. \E m \in 0 .. Len(llmCalls'), k \in 0 .. Len(classified') :
             /\ sizes'.calls <= m
             /\ summary'.calls = Cardinality(UpTo(Counted(llmCalls), m)')
             /\ \A i \in 1 .. m, j \in DOMAIN classified' :
                  llmCalls'[i].of = classified'[j].of => j <= k
             /\ query' > 3 => \E l \in k .. Len(classified') :
                  summary'.classifications = Cardinality(UpTo(Counted(classified), l)')
      <3>1. PICK m \in 0 .. Len(llmCalls), k \in 0 .. Len(classified) :
             /\ sizes.calls <= m
             /\ Answer.calls = Cardinality(UpTo(Counted(llmCalls), m))
             /\ \A i \in 1 .. m, j \in DOMAIN classified : llmCalls[i].of = classified[j].of => j <= k
             /\ query + 1 > 3 => \E l \in k .. Len(classified) :
                  Answer.classifications = Cardinality(UpTo(Counted(classified), l))
        BY <2>5
      <3>2. m \in 0 .. Len(llmCalls') /\ k \in 0 .. Len(classified')
        BY <2>8
      <3>3. sizes'.calls <= m /\ summary'.calls = Cardinality(UpTo(Counted(llmCalls), m)')
        BY <2>4, <2>8, <3>1
      <3>4. \A i \in 1 .. m, j \in DOMAIN classified' :
                  llmCalls'[i].of = classified'[j].of => j <= k
        BY <2>8, <3>1
      <3>5. query' > 3 => \E l \in k .. Len(classified') :
                  summary'.classifications = Cardinality(UpTo(Counted(classified), l)')
        BY <2>4, <2>8, <3>1
      <3>6. QED
        BY <3>2, <3>3, <3>4, <3>5, Zenon
    <2>10. /\ query' > 0 => sizes'.calls \in 0 .. Len(llmCalls')
           /\ DOMAIN summary' = DOMAIN NoSummary /\ cutoff' \in Nat
      BY <2>2, <2>7, <2>8 DEF Read
    <2>11. QED
      BY <2>6, <2>9, <2>10 DEF Read
  <1>7. QED
    BY <1>2, <1>3, <1>4, <1>5, <1>6 DEF StatsNext

\* A summary that is shown has read whole transactions.
LEMMA CostHasItsAnswersNow == Stored /\ Read => CostHasItsAnswers
  <1> SUFFICES ASSUME Stored, Read, Shown
               PROVE  /\ \A i \in FirstOf(Counted(llmCalls), summary.calls), j \in DOMAIN classified :
                           llmCalls[i].of = classified[j].of =>
                             j \in FirstOf(Counted(classified), summary.classifications)
                      /\ Quiet /\ Clear =>
                           \A i \in DOMAIN llmCalls,
                              j \in FirstOf(Counted(classified), summary.classifications) :
                                llmCalls[i].of = classified[j].of =>
                                  i \in FirstOf(Counted(llmCalls), summary.calls)
    BY DEF CostHasItsAnswers
  <1>1. query > 3 /\ query > 1
    BY DEF Shown, Queries, Read
  <1>2. PICK m \in 0 .. Len(llmCalls), k \in 0 .. Len(classified) :
               /\ sizes.calls <= m
               /\ summary.calls = Cardinality(UpTo(Counted(llmCalls), m))
               /\ \A i \in 1 .. m, j \in DOMAIN classified : llmCalls[i].of = classified[j].of => j <= k
               /\ query > 3 => \E l \in k .. Len(classified) :
                    summary.classifications = Cardinality(UpTo(Counted(classified), l))
    BY <1>1 DEF Read
  <1>3. PICK l \in k .. Len(classified) :
          summary.classifications = Cardinality(UpTo(Counted(classified), l))
    BY <1>1, <1>2
  <1>4. /\ Len(llmCalls) \in Nat /\ DOMAIN llmCalls = 1 .. Len(llmCalls)
        /\ Len(classified) \in Nat /\ DOMAIN classified = 1 .. Len(classified)
        /\ \A i \in DOMAIN llmCalls : llmCalls[i].at \in Nat
        /\ \A j \in DOMAIN classified : classified[j].at \in Nat
    BY TableEnds
  <1>5. FirstOf(Counted(llmCalls), summary.calls) = UpTo(Counted(llmCalls), m)
    <2>1. m \in Nat
      BY <1>4
    <2>2. QED
      BY <1>2, <1>4, <2>1, CountedUpToEnd, FirstAreUpTo
  <1>6. FirstOf(Counted(classified), summary.classifications) = UpTo(Counted(classified), l)
    <2>1. l \in Nat
      BY <1>4
    <2>2. QED
      BY <1>3, <1>4, <2>1, CountedUpToEnd, FirstAreUpTo
  <1>7. ASSUME NEW i \in UpTo(Counted(llmCalls), m), NEW j \in DOMAIN classified,
               llmCalls[i].of = classified[j].of
        PROVE  j \in UpTo(Counted(classified), l)
    <2>1. i \in DOMAIN llmCalls /\ i \in 1 .. m /\ llmCalls[i].at >= cutoff
      BY <1>4 DEF UpTo, Counted, InWindow
    <2>2. j <= k /\ llmCalls[i].at <= classified[j].at
      BY <1>2, <1>7, <2>1 DEF Stored
    <2>3. j <= l
      BY <1>4, <2>2
    <2>4. cutoff \in Nat /\ llmCalls[i].at \in Nat /\ classified[j].at \in Nat
      BY <1>4, <2>1 DEF Read
    <2>5. classified[j].at >= cutoff
      BY <2>1, <2>2, <2>4
    <2>6. QED
      BY <2>3, <2>5 DEF UpTo, Counted, InWindow
  <1>8. ASSUME Quiet, Clear, NEW i \in DOMAIN llmCalls, NEW j \in UpTo(Counted(classified), l),
               llmCalls[i].of = classified[j].of
        PROVE  i \in UpTo(Counted(llmCalls), m)
    <2>1. m = Len(llmCalls)
      BY <1>2, <1>4, <1>8 DEF Quiet
    <2>2. j \in DOMAIN classified /\ InWindow(classified[j])
      BY DEF UpTo, Counted
    <2>3. InWindow(llmCalls[i])
      BY <1>8, <2>2 DEF Clear
    <2>4. QED
      BY <1>4, <2>1, <2>3 DEF UpTo, Counted
  <1>9. QED
    BY <1>5, <1>6, <1>7, <1>8

\* Nothing is stored at first, and nothing read.
LEMMA MetricsBegin == StatsInit => Stored /\ Read
  <1> SUFFICES ASSUME StatsInit
               PROVE  Stored /\ Read
    OBVIOUS
  <1>1. /\ llmCalls = <<>> /\ classified = <<>> /\ clock = 0 /\ query = 0 /\ cutoff = 0
        /\ summary = NoSummary
    BY DEF StatsInit
  <1>2. Transactions = {} /\ {} = 1 .. 0
    BY <1>1 DEF Transactions
  <1>3. llmCalls \in TableOf(CallRows) /\ classified \in TableOf(ResultRows)
    BY <1>1, EmptySeq DEF TableOf
  <1>4. QED
    BY <1>1, <1>2, <1>3 DEF Stored, Read

(***************************************************************************)
(* Whatever triage and ingest store between the queries of stats, in any   *)
(* number and with any stamps that its transactions can have, a summary    *)
(* shows no cost without the answers it bought. It is not enough that a    *)
(* transaction is one step: the results of the calls that were counted     *)
(* must be in the table, and in the window, when the results are counted,  *)
(* so the invariant keeps how far into both tables the first query saw.    *)
(***************************************************************************)
THEOREM CostAlwaysHasItsAnswers == StatsSpec => []CostHasItsAnswers
  <1>1. StatsInit => Stored /\ Read
    BY MetricsBegin
  <1>2. Stored /\ Read /\ [StatsNext]_statsVars => (Stored /\ Read)'
    BY StoredStays, ReadStays
  <1>3. QED
    BY <1>1, <1>2, CostHasItsAnswersNow, PTL DEF StatsSpec

-----------------------------------------------------------------------------
(* Metrics: the latencies in order, and the tables that are counted.       *)

\* The calls up to one in order of latency.
NoLater(i, calls) ==
    {j \in calls : \/ llmCalls[j].row.latency < llmCalls[i].row.latency
                   \/ llmCalls[j].row.latency = llmCalls[i].row.latency /\ j <= i}

\* A call's place is the number of calls up to it, so each has one of its own
\* and a call at a later place took no less time.
LEMMA PlacesFollowLatency ==
    ASSUME NEW calls \in SUBSET Nat, IsFiniteSet(calls),
           \A i \in calls : llmCalls[i].row.latency \in Nat,
           NEW i \in calls, NEW j \in calls
    PROVE  /\ LatencyPlace(i, calls) = Cardinality(NoLater(i, calls))
           /\ LatencyPlace(i, calls) \in 1 .. Cardinality(calls)
           /\ i # j => LatencyPlace(i, calls) # LatencyPlace(j, calls)
           /\ LatencyPlace(i, calls) <= LatencyPlace(j, calls) =>
                llmCalls[i].row.latency <= llmCalls[j].row.latency
  <1>1. \A k \in calls : /\ NoLater(k, calls) \in SUBSET calls
                         /\ k \in NoLater(k, calls)
    BY DEF NoLater
  <1>2. Cardinality(calls) \in Nat
    BY FS_CardinalityType
  <1>3. \A k \in calls : /\ IsFiniteSet(NoLater(k, calls))
                         /\ Cardinality(NoLater(k, calls)) \in 1 .. Cardinality(calls)
    <2> SUFFICES ASSUME NEW k \in calls
                 PROVE  /\ IsFiniteSet(NoLater(k, calls))
                        /\ Cardinality(NoLater(k, calls)) \in 1 .. Cardinality(calls)
      OBVIOUS
    <2>1. /\ IsFiniteSet(NoLater(k, calls)) /\ Cardinality(NoLater(k, calls)) \in Nat
          /\ Cardinality(NoLater(k, calls)) <= Cardinality(calls)
      BY <1>1, FS_Subset, FS_CardinalityType
    <2>2. Cardinality(NoLater(k, calls)) # 0
      BY <1>1, <2>1, FS_EmptySet
    <2>3. QED
      BY <1>2, <2>1, <2>2
  <1>4. ASSUME NEW k \in calls, NEW l \in calls, k # l, k \in NoLater(l, calls)
        PROVE  Cardinality(NoLater(k, calls)) < Cardinality(NoLater(l, calls))
    <2>1. NoLater(k, calls) \in SUBSET NoLater(l, calls) /\ l \notin NoLater(k, calls)
      <3> DEFINE took(c) == llmCalls[c].row.latency
      <3>1. \A c \in calls : took(c) \in Nat /\ c \in Nat
        OBVIOUS
      <3>2. \A c : c \in NoLater(l, calls) <=>
              c \in calls /\ (took(c) < took(l) \/ (took(c) = took(l) /\ c <= l))
        BY DEF NoLater
      <3>3. \A c : c \in NoLater(k, calls) <=>
              c \in calls /\ (took(c) < took(k) \/ (took(c) = took(k) /\ c <= k))
        BY DEF NoLater
      <3> HIDE DEF took
      <3>4. took(k) < took(l) \/ (took(k) = took(l) /\ k < l)
        BY <1>4, <3>1, <3>2
      <3>5. l \notin NoLater(k, calls)
        BY <3>1, <3>3, <3>4
      <3>6. ASSUME NEW c \in NoLater(k, calls)
            PROVE  c \in NoLater(l, calls)
        <4>1. c \in calls /\ (took(c) < took(k) \/ (took(c) = took(k) /\ c <= k))
          BY <3>3
        <4>2. /\ took(c) \in Nat /\ took(k) \in Nat /\ took(l) \in Nat
              /\ c \in Nat /\ k \in Nat /\ l \in Nat
          BY <3>1, <4>1
        <4>3. took(c) < took(l) \/ (took(c) = took(l) /\ c <= l)
          BY <3>4, <4>1, <4>2
        <4>4. QED
          BY <3>2, <4>1, <4>3
      <3>7. QED
        BY <3>5, <3>6
    <2>2. l \in NoLater(l, calls)
      BY <1>1
    <2>3. /\ Cardinality(NoLater(k, calls)) <= Cardinality(NoLater(l, calls))
          /\ Cardinality(NoLater(k, calls)) # Cardinality(NoLater(l, calls))
      BY <1>3, <2>1, <2>2, FS_Subset
    <2>4. QED
      BY <1>2, <1>3, <2>3
  <1>5. i # j => i \in NoLater(j, calls) \/ j \in NoLater(i, calls)
    BY DEF NoLater
  <1>6. \A k \in calls : LatencyPlace(k, calls) = Cardinality(NoLater(k, calls))
    BY DEF LatencyPlace, NoLater
  <1>7. i # j => LatencyPlace(i, calls) # LatencyPlace(j, calls)
    BY <1>2, <1>3, <1>4, <1>5, <1>6
  <1>8. ASSUME LatencyPlace(i, calls) <= LatencyPlace(j, calls)
        PROVE  llmCalls[i].row.latency <= llmCalls[j].row.latency
    <2>1. CASE i = j
      BY <2>1
    <2>2. CASE i # j
      <3>1. j \notin NoLater(i, calls)
        BY <1>2, <1>3, <1>4, <1>6, <1>8, <2>2
      <3>2. i \in NoLater(j, calls)
        BY <1>5, <2>2, <3>1
      <3>3. QED
        BY <3>2 DEF NoLater
    <2>3. QED
      BY <2>1, <2>2
  <1>9. QED
    BY <1>3, <1>6, <1>7, <1>8

\* The latencies are listed once each, one for every call.
LEMMA LatenciesListed ==
    ASSUME NEW calls \in SUBSET Nat, IsFiniteSet(calls),
           \A i \in calls : llmCalls[i].row.latency \in Nat
    PROVE  /\ Cardinality(calls) \in Nat
           /\ Latencies(calls) \in Seq(Nat)
           /\ Len(Latencies(calls)) = Cardinality(calls)
           /\ \A n \in 1 .. Cardinality(calls) :
                \E i \in calls : /\ LatencyPlace(i, calls) = n
                                 /\ Latencies(calls)[n] = llmCalls[i].row.latency
  <1> DEFINE size == Cardinality(calls)
             f == [i \in calls |-> LatencyPlace(i, calls)]
  <1>1. size \in Nat
    BY FS_CardinalityType
  <1>2. f \in [calls -> 1 .. size]
    BY PlacesFollowLatency
  <1>3. \A i, j \in calls : f[i] = f[j] => i = j
    BY PlacesFollowLatency
  <1>4. f \in Injection(calls, 1 .. size)
    BY <1>2, <1>3, Fun_IsInj
  <1>5. IsFiniteSet(1 .. size) /\ Cardinality(1 .. size) = size
    BY <1>1, FS_Interval
  <1>6. f \in Surjection(calls, 1 .. size)
    BY <1>4, <1>5, FS_Injection
  <1>7. \A n \in 1 .. size : \E i \in calls : f[i] = n
    BY <1>6 DEF Surjection
  <1>8. \A n \in 1 .. size : \E i \in calls : LatencyPlace(i, calls) = n
    BY <1>7
  <1>9. \A n \in 1 .. size :
          \E i \in calls : /\ LatencyPlace(i, calls) = n
                           /\ Latencies(calls)[n] = llmCalls[i].row.latency
    BY <1>8 DEF Latencies
  <1>10. /\ DOMAIN Latencies(calls) = 1 .. size
         /\ Latencies(calls) = [n \in 1 .. size |-> Latencies(calls)[n]]
    BY DEF Latencies
  <1>11. Latencies(calls) \in [1 .. size -> Nat]
    BY <1>9, <1>10
  <1>12. Latencies(calls) \in Seq(Nat) /\ Len(Latencies(calls)) = size
    <2> HIDE DEF Latencies
    <2>1. QED
      BY <1>1, <1>11
  <1>13. QED
    BY <1>1, <1>9, <1>12

\* Half of a number, rounded, is one of its halves; 19 of its twentieths are
\* no less.
LEMMA HalfIsRounded ==
    ASSUME NEW n \in Nat
    PROVE  /\ Rounded(1 * n, 2) \in 0 .. n
           /\ 2 * Rounded(1 * n, 2) \in n - 1 .. n + 1
           /\ Rounded(19 * n, 20) \in Nat
           /\ Rounded(1 * n, 2) <= Rounded(19 * n, 20)
  <1>1. /\ Rounded(1 * n, 2) \in Nat
        /\ 2 * Rounded(1 * n, 2) \in n - 1 .. n + 1
    BY DEF Rounded
  <1>2. n = 1 => Rounded(1 * n, 2) = 0
    BY DEF Rounded
  <1>3. Rounded(1 * n, 2) <= n
    BY <1>1, <1>2
  <1>4. Rounded(19 * n, 20) \in Nat /\ 40 * Rounded(19 * n, 20) >= 38 * n - 20
    <2> DEFINE m == 19 * n
               whole == m \div 20
               twice == 2 * (m - whole * 20)
    <2>1. m \in Nat /\ whole \in Nat /\ 20 * whole <= m /\ m < 20 * whole + 20
      OBVIOUS
    <2>2. Rounded(m, 20) = whole + IF twice > 20 \/ (twice = 20 /\ whole % 2 = 1) THEN 1 ELSE 0
      BY DEF Rounded
    <2>3. Rounded(m, 20) \in Nat
      BY <2>1, <2>2
    <2>4. CASE twice > 20
      BY <2>1, <2>2, <2>4
    <2>5. CASE ~(twice > 20)
      BY <2>1, <2>2, <2>5
    <2>6. QED
      BY <2>3, <2>4, <2>5
  <1>5. n = 2 => Rounded(19 * n, 20) = 2
    BY DEF Rounded
  <1>6. Rounded(1 * n, 2) <= Rounded(19 * n, 20)
    <2>1. CASE n <= 1
      BY <1>1, <1>2, <1>4, <2>1
    <2>2. CASE n = 2
      BY <1>3, <1>5, <2>2
    <2>3. CASE n >= 3
      BY <1>1, <1>4, <2>3
    <2>4. QED
      BY <2>1, <2>2, <2>3
  <1>7. QED
    BY <1>1, <1>3, <1>4, <1>6

\* The median splits the calls in halves, and the 95th percentile is no less.
LEMMA MedianSplits ==
    ASSUME NEW calls \in SUBSET Nat, IsFiniteSet(calls),
           \A i \in calls : llmCalls[i].row.latency \in Nat
    PROVE  LET median == Percentile(Latencies(calls), 1, 2)
               late == Percentile(Latencies(calls), 19, 20)
           IN  /\ median \in Nat /\ late \in Nat
               /\ median <= late
               /\ 2 * Cardinality({i \in calls : llmCalls[i].row.latency <= median})
                    >= Cardinality(calls)
               /\ 2 * Cardinality({i \in calls : llmCalls[i].row.latency >= median})
                    >= Cardinality(calls)
  <1> DEFINE size == Cardinality(calls)
             ordered == Latencies(calls)
             median == Percentile(ordered, 1, 2)
             late == Percentile(ordered, 19, 20)
             took(i) == llmCalls[i].row.latency
             below == {i \in calls : took(i) <= median}
             above == {i \in calls : took(i) >= median}
             half == Rounded(1 * (size - 1), 2)
             most == Rounded(19 * (size - 1), 20)
  <1>1. /\ size \in Nat /\ ordered \in Seq(Nat) /\ Len(ordered) = size
        /\ \A n \in 1 .. size :
             \E i \in calls : LatencyPlace(i, calls) = n /\ ordered[n] = took(i)
    BY LatenciesListed
  <1>2. /\ IsFiniteSet(below) /\ Cardinality(below) \in Nat
        /\ IsFiniteSet(above) /\ Cardinality(above) \in Nat
    <2>1. below \in SUBSET calls /\ above \in SUBSET calls
      OBVIOUS
    <2> HIDE DEF below, above
    <2>2. QED
      BY <2>1, FS_Subset, FS_CardinalityType
  <1>3. CASE size = 0
    <2>1. ordered = <<>>
      BY <1>1, <1>3, EmptySeq
    <2>2. median = 0 /\ late = 0
      BY <2>1 DEF Percentile
    <2> HIDE DEF median, late, below, above, size
    <2>3. median <= late /\ 2 * Cardinality(below) >= size /\ 2 * Cardinality(above) >= size
      BY <1>2, <1>3, <2>2
    <2>4. QED
      BY <2>2, <2>3 DEF median, late, below, above, size
  <1>4. CASE size # 0
    <2>1. ordered # <<>>
      <3>1. Len(<<>>) = 0
        BY EmptySeq
      <3>2. QED
        BY <1>1, <1>4, <3>1
    <2>2. size - 1 \in Nat
      BY <1>1, <1>4
    <2>3. /\ half \in 0 .. size - 1 /\ 2 * half \in size - 2 .. size
          /\ most \in Nat /\ half <= most
      <3>1. \A n \in Nat : /\ Rounded(1 * n, 2) \in 0 .. n
                           /\ 2 * Rounded(1 * n, 2) \in n - 1 .. n + 1
                           /\ Rounded(19 * n, 20) \in Nat
                           /\ Rounded(1 * n, 2) <= Rounded(19 * n, 20)
        BY HalfIsRounded
      <3> DEFINE m == size - 1
      <3>2. m \in Nat /\ m - 1 = size - 2 /\ m + 1 = size
        BY <1>1, <2>2
      <3> HIDE DEF m
      <3>3. /\ Rounded(1 * m, 2) \in 0 .. m /\ 2 * Rounded(1 * m, 2) \in m - 1 .. m + 1
            /\ Rounded(19 * m, 20) \in Nat /\ Rounded(1 * m, 2) <= Rounded(19 * m, 20)
        BY <3>1, <3>2
      <3>4. QED
        BY <3>2, <3>3 DEF m
    <2>4. /\ median = ordered[1 + IF half < size - 1 THEN half ELSE size - 1]
          /\ late = ordered[1 + IF most < size - 1 THEN most ELSE size - 1]
      BY <1>1, <2>1 DEF Percentile
    <2> DEFINE last == IF most < size - 1 THEN most ELSE size - 1
    <2> HIDE DEF size, half, most, ordered
    <2>5. /\ 1 + half \in 1 .. size /\ 1 + last \in 1 .. size /\ 1 + half <= 1 + last
          /\ 1 + half = 1 + IF half < size - 1 THEN half ELSE size - 1
      BY <1>1, <2>2, <2>3
    <2>6. median = ordered[1 + half] /\ late = ordered[1 + last]
      BY <2>4, <2>5
    <2>7. PICK i \in calls : LatencyPlace(i, calls) = 1 + half /\ ordered[1 + half] = took(i)
      BY <1>1, <2>5
    <2>8. PICK j \in calls : LatencyPlace(j, calls) = 1 + last /\ ordered[1 + last] = took(j)
      BY <1>1, <2>5
    <2>9. median = took(i) /\ late = took(j) /\ median \in Nat /\ late \in Nat
      BY <2>6, <2>7, <2>8
    <2>10. median <= late
      <3>1. LatencyPlace(i, calls) <= LatencyPlace(j, calls)
        BY <2>5, <2>7, <2>8
      <3>2. took(i) <= took(j)
        BY <3>1, PlacesFollowLatency
      <3>3. QED
        BY <2>9, <3>2
    <2> HIDE DEF median, late
    <2>11. 2 * Cardinality(below) >= size
      <3>1. NoLater(i, calls) \in SUBSET below
        BY <2>9 DEF NoLater
      <3>2. Cardinality(NoLater(i, calls)) = 1 + half
        BY <2>7, PlacesFollowLatency
      <3>3. Cardinality(NoLater(i, calls)) <= Cardinality(below)
        <4> HIDE DEF below
        <4>1. QED
          BY <1>2, <3>1, FS_Subset
      <3> HIDE DEF below
      <3>4. QED
        BY <1>1, <1>2, <2>3, <3>2, <3>3
    <2>12. 2 * Cardinality(above) >= size
      <3> DEFINE rest == calls \ (NoLater(i, calls) \ {i})
      <3>1. rest \in SUBSET above
        <4> SUFFICES ASSUME NEW k \in rest
                     PROVE  k \in above
          OBVIOUS
        <4>1. k \in calls /\ (k = i \/ k \notin NoLater(i, calls))
          OBVIOUS
        <4>2. took(k) \in Nat /\ took(i) \in Nat
          BY <4>1
        <4>3. k \notin NoLater(i, calls) => ~(took(k) < took(i))
          BY <4>1 DEF NoLater
        <4> HIDE DEF took
        <4>4. took(k) >= took(i)
          BY <4>1, <4>2, <4>3
        <4>5. QED
          BY <2>9, <4>1, <4>4 DEF took
      <3>2. NoLater(i, calls) \in SUBSET calls /\ i \in NoLater(i, calls)
        BY DEF NoLater
      <3>3. IsFiniteSet(NoLater(i, calls)) /\ Cardinality(NoLater(i, calls)) = 1 + half
        BY <2>7, <3>2, PlacesFollowLatency, FS_Subset
      <3>4. Cardinality(NoLater(i, calls) \ {i}) = half
        <4>1. Cardinality(NoLater(i, calls) \ {i}) = (1 + half) - 1
          <5> DEFINE upto == NoLater(i, calls)
          <5>1. i \in upto /\ IsFiniteSet(upto) /\ Cardinality(upto) = 1 + half
            BY <3>2, <3>3
          <5> HIDE DEF upto
          <5>2. Cardinality(upto \ {i}) = Cardinality(upto) - 1
            BY <5>1, FS_RemoveElement
          <5>3. QED
            BY <5>1, <5>2 DEF upto
        <4>2. QED
          BY <2>3, <4>1
      <3>5. calls \cap (NoLater(i, calls) \ {i}) = NoLater(i, calls) \ {i}
        BY <3>2
      <3>6. Cardinality(rest) = size - half
        <4> DEFINE ahead == NoLater(i, calls) \ {i}
        <4> HIDE DEF ahead
        <4>1. Cardinality(calls \ ahead) = Cardinality(calls) - Cardinality(calls \cap ahead)
          BY FS_Difference
        <4>2. QED
          BY <3>4, <3>5, <4>1 DEF size, ahead
      <3>7. Cardinality(rest) <= Cardinality(above)
        <4> HIDE DEF above, rest
        <4>1. QED
          BY <1>2, <3>1, FS_Subset
      <3> HIDE DEF above, rest
      <3>8. QED
        BY <1>1, <1>2, <2>3, <3>6, <3>7
    <2>13. QED
      BY <2>9, <2>10, <2>11, <2>12 DEF median, late, size, ordered
  <1>5. QED
    BY <1>3, <1>4

\* The rows counted under each of some keys.
Under(keys, kinds) == {i \in DOMAIN keys : keys[i] \in kinds}

\* A count by key adds up to the rows that have one.
LEMMA TallyAddsUp ==
    ASSUME NEW keys, IsFiniteSet(DOMAIN keys)
    PROVE  Sum(Tally(keys)) = Cardinality(DOMAIN keys)
  <1> DEFINE tally == Tally(keys)
             kinds == Range(keys)
             Adds(f) == f = [s \in SUBSET kinds |->
                               IF s = {} THEN 0
                               ELSE LET x == CHOOSE x \in s : TRUE IN tally[x] + f[s \ {x}]]
             count == [s \in SUBSET kinds |-> Cardinality(Under(keys, s))]
             iter == CHOOSE f : Adds(f)
  <1>1. DOMAIN tally = kinds /\ \A k \in kinds : tally[k] = Cardinality(Under(keys, {k}))
    <2>1. \A k : Under(keys, {k}) = {i \in DOMAIN keys : keys[i] = k}
      BY DEF Under
    <2>2. QED
      BY <2>1 DEF Tally
  <1>2. \A s : IsFiniteSet(Under(keys, s)) /\ Cardinality(Under(keys, s)) \in Nat
    <2>1. \A s : Under(keys, s) \in SUBSET DOMAIN keys
      BY DEF Under
    <2>2. QED
      BY <2>1, FS_Subset, FS_CardinalityType
  <1>3. ASSUME NEW s \in SUBSET kinds, NEW x \in s
        PROVE  Cardinality(Under(keys, s)) = tally[x] + Cardinality(Under(keys, s \ {x}))
    <2>1. Under(keys, s) = Under(keys, {x}) \cup Under(keys, s \ {x})
      BY DEF Under
    <2>2. Under(keys, {x}) \cap Under(keys, s \ {x}) = {}
      BY DEF Under
    <2> DEFINE one == Under(keys, {x})
               others == Under(keys, s \ {x})
    <2>3. /\ IsFiniteSet(one) /\ IsFiniteSet(others) /\ Cardinality(one \cap others) = 0
          /\ Cardinality(one) \in Nat /\ Cardinality(others) \in Nat
      BY <1>2, <2>2, FS_EmptySet
    <2>4. tally[x] = Cardinality(one)
      BY <1>1
    <2> HIDE DEF one, others, tally, kinds
    <2>5. Cardinality(one \cup others) =
            Cardinality(one) + Cardinality(others) - Cardinality(one \cap others)
      BY <2>3, FS_Union
    <2>6. Cardinality(one \cup others) = tally[x] + Cardinality(others)
      BY <2>3, <2>4, <2>5
    <2>7. QED
      BY <2>1, <2>6 DEF one, others
  <1>4. Under(keys, {}) = {} /\ Under(keys, kinds) = DOMAIN keys
    BY DEF Under, Range
  <1>5. Adds(count)
    <2> HIDE DEF tally, kinds
    <2>1. ASSUME NEW s \in SUBSET kinds
          PROVE  count[s] = IF s = {} THEN 0
                            ELSE LET x == CHOOSE x \in s : TRUE IN tally[x] + count[s \ {x}]
      <3>1. CASE s = {}
        BY <1>4, <3>1, FS_EmptySet
      <3>2. CASE s # {}
        <4> DEFINE x == CHOOSE x \in s : TRUE
        <4>1. x \in s
          BY <3>2
        <4> HIDE DEF x
        <4>2. s \ {x} \in SUBSET kinds
          OBVIOUS
        <4>3. count[s] = tally[x] + count[s \ {x}]
          BY <1>3, <4>1, <4>2
        <4>4. QED
          BY <3>2, <4>3 DEF x
      <3>3. QED
        BY <3>1, <3>2
    <2>2. QED
      BY <2>1
  <1>6. Adds(iter)
    BY <1>5
  <1>7. Sum(tally) = iter[kinds]
    BY <1>1, Zenon DEF Sum, FoldFunction, FoldFunctionOnSet, MapThenFoldSet
  <1>8. IsFiniteSet(kinds)
    <2> DEFINE g == [i \in DOMAIN keys |-> keys[i]]
    <2>1. g \in Surjection(DOMAIN keys, kinds)
      BY DEF Surjection, Range
    <2> HIDE DEF kinds, g
    <2>2. QED
      BY <2>1, FS_Surjection
  <1>9. \A s \in SUBSET kinds : iter[s] = IF s = {} THEN 0
                                  ELSE LET x == CHOOSE x \in s : TRUE IN tally[x] + iter[s \ {x}]
    <2> HIDE DEF tally, kinds, iter
    <2>1. iter = [s \in SUBSET kinds |-> IF s = {} THEN 0
                    ELSE LET x == CHOOSE x \in s : TRUE IN tally[x] + iter[s \ {x}]]
      BY <1>6 DEF Adds
    <2>2. QED
      BY <2>1, Zenon
  <1>10. \A s \in SUBSET kinds : iter[s] = count[s]
    <2> HIDE DEF tally, kinds, iter
    <2> DEFINE wrong == {s \in SUBSET kinds : iter[s] # count[s]}
               sizesOfWrong == {Cardinality(s) : s \in wrong}
    <2>1. SUFFICES ASSUME wrong # {} PROVE FALSE
      OBVIOUS
    <2>2. \A s \in SUBSET kinds : IsFiniteSet(s) /\ Cardinality(s) \in Nat
      BY <1>8, FS_Subset, FS_CardinalityType
    <2>3. sizesOfWrong \in SUBSET Nat /\ sizesOfWrong # {}
      BY <2>1, <2>2
    <2>4. PICK s \in wrong : \A t \in wrong : Cardinality(s) <= Cardinality(t)
      <3>1. Min(sizesOfWrong) \in sizesOfWrong /\ \A n \in sizesOfWrong : Min(sizesOfWrong) <= n
        BY <2>3, LeastIs
      <3>2. QED
        BY <3>1
    <2>5. s \in SUBSET kinds /\ iter[s] # count[s]
      OBVIOUS
    <2>6. s # {}
      BY <1>4, <1>9, <2>5, FS_EmptySet
    <2> DEFINE x == CHOOSE x \in s : TRUE
               t == s \ {x}
    <2>7. x \in s
      BY <2>6
    <2>8. iter[s] = tally[x] + iter[t]
      BY <1>9, <2>5, <2>6
    <2> HIDE DEF x
    <2>9. t \in SUBSET kinds /\ Cardinality(t) = Cardinality(s) - 1
      BY <2>2, <2>5, <2>7, FS_RemoveElement
    <2>10. iter[t] = count[t]
      <3>1. ~(Cardinality(s) <= Cardinality(t))
        BY <2>2, <2>5, <2>9
      <3>2. QED
        BY <2>4, <2>9, <3>1
    <2>11. count[s] = tally[x] + count[t]
      BY <1>3, <2>5, <2>7, <2>9
    <2>12. QED
      BY <2>5, <2>8, <2>10, <2>11
  <1>11. Cardinality(Under(keys, kinds)) = Cardinality(DOMAIN keys)
    BY <1>4
  <1>12. iter[kinds] = Cardinality(Under(keys, kinds))
    <2> HIDE DEF tally, iter
    <2>1. kinds \in SUBSET kinds /\ count[kinds] = Cardinality(Under(keys, kinds))
      OBVIOUS
    <2>2. QED
      BY <1>10, <2>1
  <1>13. QED
    BY <1>7, <1>11, <1>12

\* What the queries count.
Failed == {i \in Counted(llmCalls) : llmCalls[i].row.failed}
Abstainers == {i \in Counted(classified) : Abstained(classified[i].row)}
Hits == {i \in Counted(classified) : classified[i].row.hit}
Downgraded == {i \in Counted(classified) : classified[i].row.reason # "none"}
RunsCounted == {i \in DOMAIN ciRuns : ciRuns[i] >= cutoff}

\* A time that splits the calls that were timed in halves.
Splits(time) ==
    /\ 2 * Cardinality({i \in Timed : llmCalls[i].row.latency <= time}) >= Cardinality(Timed)
    /\ 2 * Cardinality({i \in Timed : llmCalls[i].row.latency >= time}) >= Cardinality(Timed)

\* What stats has read adds up so far, and exactly if a table has not grown
\* since it began.
Adds ==
    /\ ciRuns \in Seq(Nat)
    /\ query > 0 =>
         /\ sizes.classifications \in 0 .. Len(classified)
         /\ sizes.runs \in 0 .. Len(ciRuns)
    /\ query > 1 => summary.errors <= summary.calls
    /\ query > 2 =>
         /\ summary.p50 <= summary.p95
         /\ Len(llmCalls) = sizes.calls => Splits(summary.p50)
    /\ query > 3 =>
         /\ summary.hits <= summary.classifications
         /\ summary.abstentions <= summary.classifications
         /\ summary.classifications \in 0 .. Cardinality(Counted(classified))
         /\ Len(classified) = sizes.classifications =>
              /\ summary.classifications = Cardinality(Counted(classified))
              /\ summary.abstentions = Cardinality(Abstainers)
    /\ query > 4 =>
         /\ summary.classifications <= Sum(summary.byCause)
         /\ Len(classified) = sizes.classifications =>
              summary.classifications = Sum(summary.byCause)
    /\ query > 5 /\ Len(classified) = sizes.classifications =>
         Sum(summary.byReason) <= summary.abstentions
    /\ query > 6 /\ Len(ciRuns) = sizes.runs =>
         summary.runs = Cardinality(RunsCounted)

\* What is counted is finite.
LEMMA CountsAreFinite ==
    ASSUME Stored
    PROVE  /\ IsFiniteSet(Counted(llmCalls)) /\ Cardinality(Counted(llmCalls)) \in Nat
           /\ IsFiniteSet(Counted(classified)) /\ Cardinality(Counted(classified)) \in Nat
           /\ Cardinality(Failed) \in Nat /\ Cardinality(Failed) <= Cardinality(Counted(llmCalls))
           /\ Cardinality(Hits) \in Nat /\ Cardinality(Hits) <= Cardinality(Counted(classified))
           /\ Cardinality(Abstainers) \in Nat
           /\ Cardinality(Abstainers) <= Cardinality(Counted(classified))
           /\ IsFiniteSet(Downgraded) /\ Cardinality(Downgraded) \in Nat
           /\ Cardinality(Downgraded) <= Cardinality(Abstainers)
           /\ Timed \in SUBSET Nat /\ IsFiniteSet(Timed)
           /\ \A i \in Timed : llmCalls[i].row.latency \in Nat
  <1>1. /\ Counted(llmCalls) \in SUBSET (1 .. Len(llmCalls))
        /\ Counted(classified) \in SUBSET (1 .. Len(classified))
    BY CountedUpToEnd
  <1>2. /\ Len(llmCalls) \in Nat /\ Len(classified) \in Nat
    BY TableEnds
  <1>3. IsFiniteSet(1 .. Len(llmCalls)) /\ IsFiniteSet(1 .. Len(classified))
    BY <1>2, FS_Interval
  <1>4. /\ IsFiniteSet(Counted(llmCalls)) /\ Cardinality(Counted(llmCalls)) \in Nat
        /\ IsFiniteSet(Counted(classified)) /\ Cardinality(Counted(classified)) \in Nat
    BY <1>1, <1>3, FS_Subset, FS_CardinalityType
  <1>5. /\ Failed \in SUBSET Counted(llmCalls) /\ Timed \in SUBSET Counted(llmCalls)
        /\ Hits \in SUBSET Counted(classified) /\ Abstainers \in SUBSET Counted(classified)
    BY DEF Failed, Hits, Abstainers, Timed
  <1>6. Downgraded \in SUBSET Abstainers
    <2> SUFFICES ASSUME NEW j \in Downgraded
                 PROVE  j \in Abstainers
      OBVIOUS
    <2>1. j \in Counted(classified) /\ j \in DOMAIN classified /\ classified[j].row.reason # "none"
      BY DEF Downgraded, Counted
    <2>2. classified[j] \in [of : Nat, at : Nat, row : ResultRows]
      <3>1. classified \in Seq([of : Nat, at : Nat, row : ResultRows])
        BY DEF Stored, TableOf
      <3>2. QED
        BY <2>1, <3>1, LenProperties
    <2>3. classified[j].row \in ResultRows
      BY <2>2
    <2>4. classified[j].row.cause = "UNKNOWN"
      BY <2>1, <2>3 DEF ResultRows
    <2>5. QED
      BY <2>1, <2>4 DEF Abstainers, Abstained
  <1>7. /\ Cardinality(Failed) \in Nat /\ Cardinality(Failed) <= Cardinality(Counted(llmCalls))
        /\ Cardinality(Hits) \in Nat /\ Cardinality(Hits) <= Cardinality(Counted(classified))
        /\ IsFiniteSet(Abstainers) /\ Cardinality(Abstainers) \in Nat
        /\ Cardinality(Abstainers) <= Cardinality(Counted(classified))
        /\ IsFiniteSet(Timed)
    BY <1>4, <1>5, FS_Subset, FS_CardinalityType
  <1>8. /\ IsFiniteSet(Downgraded) /\ Cardinality(Downgraded) \in Nat
        /\ Cardinality(Downgraded) <= Cardinality(Abstainers)
    BY <1>6, <1>7, FS_Subset, FS_CardinalityType
  <1>9. ASSUME NEW i \in Timed
        PROVE  i \in Nat /\ llmCalls[i].row.latency \in Nat
    <2>1. i \in DOMAIN llmCalls /\ i \in 1 .. Len(llmCalls)
      BY <1>1, <1>5 DEF Counted
    <2>2. llmCalls[i] \in [of : Nat, at : Nat, row : CallRows]
      <3>1. llmCalls \in Seq([of : Nat, at : Nat, row : CallRows])
        BY DEF Stored, TableOf
      <3>2. QED
        BY <2>1, <3>1, LenProperties
    <2>3. llmCalls[i].row \in CallRows
      BY <2>2
    <2>4. QED
      BY <1>2, <2>1, <2>3 DEF CallRows
  <1>10. QED
    BY <1>4, <1>7, <1>8, <1>9

\* The fields that a query keeps.
Same(others) == \A field \in others : Answer[field] = summary[field]

\* What each query adds to the summary, and what it keeps.
LEMMA AnswerAdds ==
    ASSUME query \in 1 .. 6, DOMAIN summary = DOMAIN NoSummary
    PROVE  /\ query = 1 => /\ Answer.calls = Cardinality(Counted(llmCalls))
                           /\ Answer.errors = Cardinality(Failed)
           /\ query = 2 => /\ Answer.p50 = Percentile(Latencies(Timed), 1, 2)
                           /\ Answer.p95 = Percentile(Latencies(Timed), 19, 20)
                           /\ Same(DOMAIN summary \ {"p50", "p95"})
           /\ query = 3 => /\ Answer.classifications = Cardinality(Counted(classified))
                           /\ Answer.abstentions = Cardinality(Abstainers)
                           /\ Answer.hits = Cardinality(Hits)
                           /\ Same(DOMAIN summary \ {"classifications", "abstentions", "hits"})
           /\ query = 4 => /\ Answer.byCause =
                                Tally([i \in Counted(classified) |-> classified[i].row.cause])
                           /\ Same(DOMAIN summary \ {"byCause"})
           /\ query = 5 => /\ Answer.byReason =
                                Tally([i \in Downgraded |-> classified[i].row.reason])
                           /\ Same(DOMAIN summary \ {"byReason"})
           /\ query = 6 => /\ Answer.runs = Cardinality(RunsCounted)
                           /\ Same(DOMAIN summary \ {"runs"})
  <1>1. DOMAIN summary = {"calls", "cost", "errors", "p50", "p95", "classifications",
                          "abstentions", "hits", "byCause", "byReason", "runs"}
    BY DEF NoSummary
  <1>2. CASE query = 1
    <2>1. Queries[query] = "calls"
      BY <1>2 DEF Queries
    <2>2. Answer = [summary EXCEPT !.calls = Cardinality(Counted(llmCalls)),
                      !.cost = TotalCost(Counted(llmCalls)), !.errors = Cardinality(Failed)]
      BY <2>1, Zenon DEF Answer, Failed
    <2> HIDE DEF Answer
    <2>3. QED
      BY <1>1, <1>2, <2>2
  <1>3. CASE query = 2
    <2>1. Queries[query] = "latencies"
      BY <1>3 DEF Queries
    <2>2. Answer = [summary EXCEPT !.p50 = Percentile(Latencies(Timed), 1, 2),
                                   !.p95 = Percentile(Latencies(Timed), 19, 20)]
      BY <2>1, Zenon DEF Answer
    <2> HIDE DEF Answer
    <2>3. /\ Answer.p50 = Percentile(Latencies(Timed), 1, 2)
          /\ Answer.p95 = Percentile(Latencies(Timed), 19, 20)
      BY <1>1, <2>2
    <2>4. ASSUME NEW field \in DOMAIN summary \ {"p50", "p95"}
          PROVE  Answer[field] = summary[field]
      BY <2>2
    <2>5. QED
      BY <1>3, <2>3, <2>4 DEF Same
  <1>4. CASE query = 3
    <2>1. Queries[query] = "classifications"
      BY <1>4 DEF Queries
    <2>2. Answer = [summary EXCEPT !.classifications = Cardinality(Counted(classified)),
                      !.abstentions = Cardinality(Abstainers), !.hits = Cardinality(Hits)]
      BY <2>1, Zenon DEF Answer, Abstainers, Hits
    <2> HIDE DEF Answer
    <2>3. /\ Answer.classifications = Cardinality(Counted(classified))
          /\ Answer.abstentions = Cardinality(Abstainers)
          /\ Answer.hits = Cardinality(Hits)
      BY <1>1, <2>2
    <2>4. ASSUME NEW field \in DOMAIN summary \ {"classifications", "abstentions", "hits"}
          PROVE  Answer[field] = summary[field]
      BY <2>2
    <2>5. QED
      BY <1>4, <2>3, <2>4 DEF Same
  <1>5. CASE query = 4
    <2>1. Queries[query] = "by cause"
      BY <1>5 DEF Queries
    <2>2. Answer = [summary EXCEPT !.byCause =
                      Tally([i \in Counted(classified) |-> classified[i].row.cause])]
      BY <2>1, Zenon DEF Answer
    <2> HIDE DEF Answer
    <2>3. QED
      BY <1>1, <1>5, <2>2 DEF Same
  <1>6. CASE query = 5
    <2>1. Queries[query] = "by reason"
      BY <1>6 DEF Queries
    <2>2. Answer = [summary EXCEPT !.byReason =
                      Tally([i \in Downgraded |-> classified[i].row.reason])]
      BY <2>1, Zenon DEF Answer, Downgraded
    <2> HIDE DEF Answer
    <2>3. QED
      BY <1>1, <1>6, <2>2 DEF Same
  <1>7. CASE query = 6
    <2>1. Queries[query] = "runs"
      BY <1>7 DEF Queries
    <2>2. Answer = [summary EXCEPT !.runs = Cardinality(RunsCounted)]
      BY <2>1, Zenon DEF Answer, RunsCounted
    <2> HIDE DEF Answer
    <2>3. QED
      BY <1>1, <1>7, <2>2 DEF Same
  <1>8. QED
    BY <1>2, <1>3, <1>4, <1>5, <1>6, <1>7
\* A sum over a table is over its rows.
LEMMA SumsOfTables ==
    ASSUME Stored
    PROVE  /\ Sum(Tally([i \in Counted(classified) |-> classified[i].row.cause])) =
                Cardinality(Counted(classified))
           /\ Sum(Tally([i \in Downgraded |-> classified[i].row.reason])) =
                Cardinality(Downgraded)
  <1> DEFINE causes == [i \in Counted(classified) |-> classified[i].row.cause]
             reasons == [i \in Downgraded |-> classified[i].row.reason]
  <1>1. /\ DOMAIN causes = Counted(classified) /\ IsFiniteSet(DOMAIN causes)
        /\ DOMAIN reasons = Downgraded /\ IsFiniteSet(DOMAIN reasons)
    BY CountsAreFinite
  <1> HIDE DEF causes, reasons
  <1>2. /\ Sum(Tally(causes)) = Cardinality(DOMAIN causes)
        /\ Sum(Tally(reasons)) = Cardinality(DOMAIN reasons)
    BY <1>1, TallyAddsUp
  <1>3. QED
    BY <1>1, <1>2 DEF causes, reasons

\* Each query adds up what it reads.
LEMMA QueryAdds ==
    ASSUME Stored, Read, Adds, RunQuery
    PROVE  Adds'
  <1>1. /\ query \in 1 .. 6 /\ query' = query + 1 /\ summary' = Answer
        /\ UNCHANGED <<llmCalls, classified, ciRuns, cutoff, sizes>>
    <2>1. DOMAIN Queries = 1 .. 6
      BY DEF Queries
    <2>2. QED
      BY <2>1 DEF RunQuery, tableVars
  <1>2. DOMAIN summary = DOMAIN NoSummary
    BY DEF Read
  <1> HIDE DEF Answer
  <1>3. /\ \A time : Splits(time)' = Splits(time)
        /\ Cardinality(Counted(classified))' = Cardinality(Counted(classified))
        /\ Cardinality(Abstainers)' = Cardinality(Abstainers)
        /\ Cardinality(RunsCounted)' = Cardinality(RunsCounted)
    BY <1>1 DEF Splits, Timed, Abstainers, RunsCounted, Counted, InWindow
  <1>4. DOMAIN summary = {"calls", "cost", "errors", "p50", "p95", "classifications",
                          "abstentions", "hits", "byCause", "byReason", "runs"}
    BY <1>2 DEF NoSummary
  <1>5. /\ query = 1 => /\ Answer.calls = Cardinality(Counted(llmCalls))
                        /\ Answer.errors = Cardinality(Failed)
        /\ query > 1 => Answer.errors = summary.errors /\ Answer.calls = summary.calls
    <2>1. query > 1 => query = 2 \/ query = 3 \/ query = 4 \/ query = 5 \/ query = 6
      BY <1>1
    <2>2. QED
      BY <1>1, <1>2, <1>4, <2>1, AnswerAdds DEF Same
  <1>6. /\ query = 2 => /\ Answer.p50 = Percentile(Latencies(Timed), 1, 2)
                        /\ Answer.p95 = Percentile(Latencies(Timed), 19, 20)
        /\ query > 2 => Answer.p50 = summary.p50 /\ Answer.p95 = summary.p95
    <2>1. query > 2 => query = 3 \/ query = 4 \/ query = 5 \/ query = 6
      BY <1>1
    <2>2. QED
      BY <1>1, <1>2, <1>4, <2>1, AnswerAdds DEF Same
  <1>7. /\ query = 3 => /\ Answer.classifications = Cardinality(Counted(classified))
                        /\ Answer.abstentions = Cardinality(Abstainers)
                        /\ Answer.hits = Cardinality(Hits)
        /\ query > 3 => /\ Answer.classifications = summary.classifications
                        /\ Answer.abstentions = summary.abstentions
                        /\ Answer.hits = summary.hits
    <2>1. query > 3 => query = 4 \/ query = 5 \/ query = 6
      BY <1>1
    <2>2. QED
      BY <1>1, <1>2, <1>4, <2>1, AnswerAdds DEF Same
  <1>8. /\ query = 4 => Sum(Answer.byCause) = Cardinality(Counted(classified))
        /\ query > 4 => Answer.byCause = summary.byCause
        /\ query = 5 => Sum(Answer.byReason) = Cardinality(Downgraded)
        /\ query > 5 => Answer.byReason = summary.byReason
        /\ query = 6 => Answer.runs = Cardinality(RunsCounted)
    <2>1. query > 4 => query = 5 \/ query = 6
      BY <1>1
    <2>2. query > 5 => query = 6
      BY <1>1
    <2>3. query = 4 => Sum(Answer.byCause) = Cardinality(Counted(classified))
      BY <1>1, <1>2, AnswerAdds, SumsOfTables
    <2>4. query = 5 => Sum(Answer.byReason) = Cardinality(Downgraded)
      BY <1>1, <1>2, AnswerAdds, SumsOfTables
    <2>5. query = 6 => /\ Answer.runs = Cardinality(RunsCounted)
                       /\ Answer.byReason = summary.byReason
                       /\ Answer.byCause = summary.byCause
      BY <1>1, <1>2, <1>4, AnswerAdds DEF Same
    <2>6. query = 5 => Answer.byCause = summary.byCause
      BY <1>1, <1>2, <1>4, AnswerAdds DEF Same
    <2>7. QED
      BY <2>1, <2>2, <2>3, <2>4, <2>5, <2>6
  <1>9. query > 0 => /\ sizes.classifications \in 0 .. Len(classified)
                     /\ sizes.runs \in 0 .. Len(ciRuns)
    BY DEF Adds
  <1>10. Answer.errors <= Answer.calls
    BY <1>1, <1>5, CountsAreFinite DEF Adds
  <1>11. query > 1 => /\ Answer.p50 <= Answer.p95
                      /\ Len(llmCalls) = sizes.calls => Splits(Answer.p50)
    <2>1. query = 2 => Answer.p50 <= Answer.p95 /\ Splits(Answer.p50)
      BY <1>6, CountsAreFinite, MedianSplits DEF Splits
    <2>2. QED
      BY <1>1, <1>6, <2>1 DEF Adds
  <1>12. query > 2 =>
           /\ Answer.hits <= Answer.classifications
           /\ Answer.abstentions <= Answer.classifications
           /\ Answer.classifications \in 0 .. Cardinality(Counted(classified))
           /\ Len(classified) = sizes.classifications =>
                /\ Answer.classifications = Cardinality(Counted(classified))
                /\ Answer.abstentions = Cardinality(Abstainers)
    <2>1. CASE query = 3
      BY <1>7, <2>1, CountsAreFinite
    <2>2. CASE query > 3
      BY <1>7, <2>2 DEF Adds
    <2>3. QED
      BY <1>1, <2>1, <2>2
  <1>13. query > 3 =>
           /\ Answer.classifications <= Sum(Answer.byCause)
           /\ Len(classified) = sizes.classifications =>
                Answer.classifications = Sum(Answer.byCause)
    <2>1. CASE query = 4
      <3>1. /\ Answer.classifications = summary.classifications
            /\ Sum(Answer.byCause) = Cardinality(Counted(classified))
        BY <1>7, <1>8, <2>1
      <3>2. QED
        BY <2>1, <3>1, CountsAreFinite DEF Adds
    <2>2. CASE query > 4
      BY <1>7, <1>8, <2>2 DEF Adds
    <2>3. QED
      BY <1>1, <2>1, <2>2
  <1>14. query > 4 => (Len(classified) = sizes.classifications =>
                         Sum(Answer.byReason) <= Answer.abstentions)
    <2>1. CASE query = 5
      <3>1. /\ Answer.abstentions = summary.abstentions
            /\ Sum(Answer.byReason) = Cardinality(Downgraded)
        BY <1>7, <1>8, <2>1
      <3>2. QED
        BY <2>1, <3>1, CountsAreFinite DEF Adds
    <2>2. CASE query > 5
      <3>1. query > 3 /\ query > 5
        BY <1>1, <2>2
      <3>2. /\ Answer.abstentions = summary.abstentions
            /\ Answer.byReason = summary.byReason
        BY <1>7, <1>8, <3>1
      <3>3. Len(classified) = sizes.classifications => Sum(summary.byReason) <= summary.abstentions
        BY <3>1 DEF Adds
      <3>4. QED
        BY <3>2, <3>3
    <2>3. QED
      BY <1>1, <2>1, <2>2
  <1>15. query > 5 => (Len(ciRuns) = sizes.runs => Answer.runs = Cardinality(RunsCounted))
    BY <1>1, <1>8
  <1>16. /\ query > 0
         /\ (query' > 2) <=> (query > 1)
         /\ (query' > 3) <=> (query > 2)
         /\ (query' > 4) <=> (query > 3)
         /\ (query' > 5) <=> (query > 4)
         /\ (query' > 6) <=> (query > 5)
    BY <1>1
  <1>17. QED
    <2>1. query' > 0 =>
            /\ sizes'.classifications \in 0 .. Len(classified')
            /\ sizes'.runs \in 0 .. Len(ciRuns')
      BY <1>1, <1>9, <1>16
    <2>2. query' > 1 => summary'.errors <= summary'.calls
      BY <1>1, <1>10
    <2>3. query' > 2 =>
            /\ summary'.p50 <= summary'.p95
            /\ Len(llmCalls') = sizes'.calls => Splits(summary.p50)'
      <3>1. Splits(summary.p50)' <=> Splits(Answer.p50)
        BY <1>1 DEF Splits, Timed, Counted, InWindow
      <3>2. QED
        BY <1>1, <1>11, <1>16, <3>1
    <2>4. query' > 3 =>
         /\ summary'.hits <= summary'.classifications
         /\ summary'.abstentions <= summary'.classifications
         /\ summary'.classifications \in 0 .. Cardinality(Counted(classified))'
         /\ Len(classified') = sizes'.classifications =>
              /\ summary'.classifications = Cardinality(Counted(classified))'
              /\ summary'.abstentions = Cardinality(Abstainers)'
      BY <1>1, <1>3, <1>12, <1>16
    <2>5. query' > 4 =>
         /\ summary'.classifications <= Sum(summary'.byCause)
         /\ Len(classified') = sizes'.classifications =>
              summary'.classifications = Sum(summary'.byCause)
      BY <1>1, <1>13, <1>16
    <2>6. query' > 5 =>
            (Len(classified') = sizes'.classifications =>
               Sum(summary'.byReason) <= summary'.abstentions)
      BY <1>1, <1>14, <1>16
    <2>7. query' > 6 => (Len(ciRuns') = sizes'.runs => summary'.runs = Cardinality(RunsCounted)')
      BY <1>1, <1>3, <1>15, <1>16
    <2>8. ciRuns' \in Seq(Nat)
      BY <1>1 DEF Adds
    <2>9. QED
      BY <2>1, <2>2, <2>3, <2>4, <2>5, <2>6, <2>7, <2>8, Zenon DEF Adds

\* A table that a transaction has not made longer is as it was.
LEMMA NotGrownIsSame ==
    ASSUME NEW S, NEW table \in TableOf(S), NEW longer \in TableOf(S),
           NEW of, NEW at, Grown(table, longer, of, at), Len(longer) <= Len(table)
    PROVE  longer = table
  <1>1. /\ Len(table) \in Nat /\ Len(longer) \in Nat
        /\ table = [i \in 1 .. Len(table) |-> table[i]]
        /\ longer = [i \in 1 .. Len(longer) |-> longer[i]]
    BY LenProperties DEF TableOf
  <1>2. Len(longer) = Len(table) /\ \A i \in 1 .. Len(table) : longer[i] = table[i]
    <2>1. /\ Len(table) <= Len(longer)
          /\ \A i \in 1 .. Len(table) : longer[i] = table[i]
      <3>1. DOMAIN table = 1 .. Len(table)
        BY LenProperties DEF TableOf
      <3>2. QED
        BY <3>1 DEF Grown
    <2>2. Len(table) \in Nat /\ Len(longer) \in Nat
      BY <1>1
    <2>3. Len(longer) = Len(table)
      BY <2>1, <2>2
    <2>4. QED
      BY <2>1, <2>3
  <1>3. QED
    BY <1>1, <1>2

\* What is counted of a table does not shrink.
LEMMA CountGrows ==
    ASSUME NEW S, NEW table \in TableOf(S), NEW longer \in TableOf(S),
           NEW of, NEW at, Grown(table, longer, of, at)
    PROVE  /\ Cardinality(Counted(table)) \in Nat /\ Cardinality(Counted(longer)) \in Nat
           /\ Cardinality(Counted(table)) <= Cardinality(Counted(longer))
  <1>1. /\ Len(table) \in Nat /\ DOMAIN table = 1 .. Len(table)
        /\ Len(longer) \in Nat /\ DOMAIN longer = 1 .. Len(longer)
    BY LenProperties DEF TableOf
  <1>2. \A i \in DOMAIN table : i \in DOMAIN longer /\ longer[i] = table[i]
    BY <1>1 DEF Grown
  <1>3. Counted(table) \in SUBSET Counted(longer) /\ Counted(longer) \in SUBSET (1 .. Len(longer))
    BY <1>1, <1>2 DEF Counted
  <1>4. IsFiniteSet(Counted(longer)) /\ Cardinality(Counted(longer)) \in Nat
    <2>1. IsFiniteSet(1 .. Len(longer))
      BY <1>1, FS_Interval
    <2>2. QED
      BY <1>3, <2>1, FS_Subset, FS_CardinalityType
  <1>5. QED
    BY <1>3, <1>4, FS_Subset, FS_CardinalityType

\* What others store leaves what stats has read as it was.
LEMMA AddsStays == Stored /\ Read /\ Adds /\ [StatsNext]_statsVars => Adds'
  <1> SUFFICES ASSUME Stored, Read, Adds, [StatsNext]_statsVars
               PROVE  Adds'
    OBVIOUS
  <1>1. CASE RecordMetrics
    <2>1. PICK n \in Nat, first \in Nat, then \in Nat :
             /\ llmCalls' \in TableOf(CallRows) /\ Grown(llmCalls, llmCalls', n + 1, first)
             /\ classified' \in TableOf(ResultRows) /\ Grown(classified, classified', n + 1, then)
             /\ UNCHANGED <<ciRuns, query, cutoff, summary, sizes>>
      BY <1>1, RecordedGrows
    <2>2. llmCalls \in TableOf(CallRows) /\ classified \in TableOf(ResultRows)
      BY DEF Stored
    <2>3. /\ Len(llmCalls) \in Nat /\ Len(classified) \in Nat
          /\ Len(llmCalls') \in Nat /\ Len(classified') \in Nat
          /\ Len(llmCalls) <= Len(llmCalls') /\ Len(classified) <= Len(classified')
      BY <2>1, <2>2, LenProperties DEF TableOf, Grown
    <2>4. query > 0 => /\ sizes.calls \in 0 .. Len(llmCalls)
                       /\ sizes.classifications \in 0 .. Len(classified)
                       /\ sizes.runs \in 0 .. Len(ciRuns)
      BY DEF Read, Adds
    <2>5. query \in 0 .. 7
      BY DEF Read
    <2>6. ASSUME query > 0, Len(llmCalls') = sizes.calls
          PROVE  llmCalls' = llmCalls
      BY <2>1, <2>2, <2>3, <2>4, <2>6, NotGrownIsSame
    <2>7. ASSUME query > 0, Len(classified') = sizes.classifications
          PROVE  classified' = classified
      BY <2>1, <2>2, <2>3, <2>4, <2>7, NotGrownIsSame
    <2>8. /\ Cardinality(Counted(classified)) \in Nat
          /\ Cardinality(Counted(classified))' \in Nat
          /\ Cardinality(Counted(classified)) <= Cardinality(Counted(classified))'
      <3>1. Counted(classified)' = Counted(classified')
        BY <2>1 DEF Counted, InWindow
      <3>2. QED
        BY <2>1, <2>2, <3>1, CountGrows
    <2>9. query' > 0 =>
            /\ sizes'.classifications \in 0 .. Len(classified')
            /\ sizes'.runs \in 0 .. Len(ciRuns')
      BY <2>1, <2>3, <2>4
    <2>10. query' > 1 => summary'.errors <= summary'.calls
      BY <2>1 DEF Adds
    <2>11. query' > 2 =>
            /\ summary'.p50 <= summary'.p95
            /\ Len(llmCalls') = sizes'.calls => Splits(summary.p50)'
      <3>1. ASSUME query > 2, Len(llmCalls') = sizes.calls
            PROVE  Splits(summary.p50)'
        <4>1. llmCalls' = llmCalls
          BY <2>5, <2>6, <3>1
        <4>2. Splits(summary.p50)
          BY <3>1, <4>1 DEF Adds
        <4>3. QED
          BY <2>1, <4>1, <4>2 DEF Splits, Timed, Counted, InWindow
      <3>2. QED
        BY <2>1, <3>1 DEF Adds
    <2>12. query' > 3 =>
         /\ summary'.hits <= summary'.classifications
         /\ summary'.abstentions <= summary'.classifications
         /\ summary'.classifications \in 0 .. Cardinality(Counted(classified))'
         /\ Len(classified') = sizes'.classifications =>
              /\ summary'.classifications = Cardinality(Counted(classified))'
              /\ summary'.abstentions = Cardinality(Abstainers)'
      <3>1. ASSUME query > 3, Len(classified') = sizes.classifications
            PROVE  /\ summary.classifications = Cardinality(Counted(classified))'
                   /\ summary.abstentions = Cardinality(Abstainers)'
        <4>1. classified' = classified
          BY <2>5, <2>7, <3>1
        <4>2. /\ summary.classifications = Cardinality(Counted(classified))
              /\ summary.abstentions = Cardinality(Abstainers)
          BY <3>1, <4>1 DEF Adds
        <4>3. QED
          BY <2>1, <4>1, <4>2 DEF Abstainers, Counted, InWindow
      <3>2. QED
        BY <2>1, <2>8, <3>1 DEF Adds
    <2>13. query' > 4 =>
         /\ summary'.classifications <= Sum(summary'.byCause)
         /\ Len(classified') = sizes'.classifications =>
              summary'.classifications = Sum(summary'.byCause)
      <3>1. query > 4 /\ Len(classified') = sizes.classifications => classified' = classified
        BY <2>5, <2>7
      <3>2. QED
        BY <2>1, <3>1 DEF Adds
    <2>14. query' > 5 =>
            (Len(classified') = sizes'.classifications =>
               Sum(summary'.byReason) <= summary'.abstentions)
      <3>1. query > 5 /\ Len(classified') = sizes.classifications => classified' = classified
        BY <2>5, <2>7
      <3>2. QED
        BY <2>1, <3>1 DEF Adds
    <2>15. query' > 6 => (Len(ciRuns') = sizes'.runs => summary'.runs = Cardinality(RunsCounted)')
      BY <2>1 DEF Adds, RunsCounted
    <2>16. ciRuns' \in Seq(Nat)
      BY <2>1 DEF Adds
    <2>17. QED
      BY <2>9, <2>10, <2>11, <2>12, <2>13, <2>14, <2>15, <2>16, Zenon DEF Adds
  <1>2. CASE StoreRun
    <2>1. PICK at \in 0 .. clock : ciRuns' = Append(ciRuns, at)
      BY <1>2 DEF StoreRun
    <2>2. /\ llmCalls' = llmCalls /\ classified' = classified /\ query' = query
          /\ cutoff' = cutoff /\ summary' = summary /\ sizes' = sizes
      BY <1>2 DEF StoreRun
    <2>3. UNCHANGED <<Counted(classified), Abstainers>> /\ Splits(summary.p50)' = Splits(summary.p50)
      BY <2>2 DEF Splits, Timed, Counted, Abstainers, InWindow
    <2>4. /\ ciRuns' \in Seq(Nat) /\ Len(ciRuns) \in Nat
          /\ Len(ciRuns') = Len(ciRuns) + 1
      <3>1. ciRuns \in Seq(Nat) /\ at \in Nat
        BY DEF Adds, Stored
      <3>2. QED
        BY <2>1, <3>1, AppendProperties, LenProperties
    <2>5. query > 0 => /\ sizes.runs \in 0 .. Len(ciRuns') /\ Len(ciRuns') # sizes.runs
      BY <2>4 DEF Adds
    <2>6. QED
      BY <2>2, <2>3, <2>4, <2>5 DEF Adds, Read
  <1>3. CASE TimePasses \/ UNCHANGED statsVars
    <2>1. /\ llmCalls' = llmCalls /\ classified' = classified /\ ciRuns' = ciRuns
          /\ query' = query /\ cutoff' = cutoff /\ summary' = summary /\ sizes' = sizes
      BY <1>3 DEF TimePasses, statsVars, tableVars
    <2>2. /\ UNCHANGED <<Counted(classified), Abstainers, RunsCounted>>
          /\ Splits(summary.p50)' = Splits(summary.p50)
      BY <2>1 DEF Splits, Timed, Counted, Abstainers, RunsCounted, InWindow
    <2>3. QED
      BY <2>1, <2>2 DEF Adds
  <1>4. CASE Ask
    <2>1. /\ query' = 1 /\ sizes'.classifications = Len(classified')
          /\ sizes'.runs = Len(ciRuns')
      BY <1>4 DEF Ask, tableVars
    <2>2. Len(classified') \in Nat /\ Len(ciRuns') \in Nat
      <3>1. UNCHANGED <<classified, ciRuns>>
        BY <1>4 DEF Ask, tableVars
      <3>2. QED
        BY <3>1, TableEnds, LenProperties DEF Adds
    <2>3. ciRuns' \in Seq(Nat)
      BY <1>4 DEF Ask, tableVars, Adds
    <2>4. QED
      BY <2>1, <2>2, <2>3 DEF Adds
  <1>5. CASE RunQuery
    BY <1>5, QueryAdds
  <1>6. CASE Show
    BY <1>6 DEF Show, tableVars, Adds
  <1>7. QED
    BY <1>1, <1>2, <1>3, <1>4, <1>5, <1>6 DEF StatsNext

\* A summary that is shown adds up.
LEMMA SummaryAddsUpNow == Read /\ Adds => SummaryAddsUp
  <1> SUFFICES ASSUME Read, Adds, Shown
               PROVE  SummaryAddsUp
    BY DEF SummaryAddsUp
  <1>1. query = 7
    BY DEF Shown, Queries, Read
  <1>2. QED
    BY <1>1 DEF Adds, SummaryAddsUp, Quiet, Splits, RunsCounted

(***************************************************************************)
(* Whatever is stored between the queries of stats, a summary adds up: by  *)
(* cause to no fewer than the classifications it shows, its shares within  *)
(* them, the median no later than the 95th percentile; and if nothing was  *)
(* stored, exactly, with the median between two halves of the latencies.   *)
(* The invariant carries what each query has counted, since a query that   *)
(* follows may count more.                                                 *)
(***************************************************************************)
THEOREM SummaryAlwaysAddsUp == StatsSpec => []SummaryAddsUp
  <1>1. StatsInit => Stored /\ Read /\ Adds
    <2> SUFFICES ASSUME StatsInit
                 PROVE  Stored /\ Read /\ Adds
      OBVIOUS
    <2>1. Stored /\ Read
      BY MetricsBegin
    <2>2. Adds
      BY EmptySeq DEF StatsInit, Adds
    <2>3. QED
      BY <2>1, <2>2
  <1>2. Stored /\ Read /\ Adds /\ [StatsNext]_statsVars => (Stored /\ Read /\ Adds)'
    BY StoredStays, ReadStays, AddsStays
  <1>3. QED
    BY <1>1, <1>2, SummaryAddsUpNow, PTL DEF StatsSpec

=============================================================================
