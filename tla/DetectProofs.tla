----------------------------- MODULE DetectProofs -----------------------------
(***************************************************************************)
(* Proofs about the detector on histories of any length, with any commits, *)
(* branches and attempts and every configuration the program accepts: what *)
(* the windows and the order that detect/history.py builds say of the raw  *)
(* rows, and from it the properties of the verdict.                        *)
(***************************************************************************)
EXTENDS MCDetect, FiniteSetTheorems, FunctionTheorems, SequenceTheorems, WellFoundedInduction, TLAPS

-----------------------------------------------------------------------------
(* The least and the greatest of a set of numbers.                         *)

\* The least of a set of numbers is one of them, below none of the others.
LEMMA LeastIs ==
    ASSUME NEW S \in SUBSET Nat, S # {}
    PROVE  Min(S) \in S /\ \A n \in S : Min(S) <= n
  <1>1. PICK m \in S : \A n \in S : <<n, m>> \notin OpToRel(<, Nat)
    BY NatLessThanWellFounded, WFMin
  <1>2. \A n \in S : m <= n
    <2>1. \A n \in S : ~(n < m)
      BY <1>1 DEF OpToRel
    <2>2. QED
      BY <2>1
  <1>3. QED
    BY <1>2 DEF Min

\* The greatest of a bounded set of numbers is one of them, above all others.
LEMMA GreatestIs ==
    ASSUME NEW S \in SUBSET Nat, S # {}, NEW limit \in Nat, \A n \in S : n <= limit
    PROVE  Max(S) \in S /\ \A n \in S : Max(S) >= n
  <1> DEFINE Room == {limit - n : n \in S}
  <1>1. Room \in SUBSET Nat /\ Room # {}
    OBVIOUS
  <1>2. Min(Room) \in Room /\ \A n \in Room : Min(Room) <= n
    BY <1>1, LeastIs
  <1> HIDE DEF Room
  <1>3. PICK m \in S : Min(Room) = limit - m
    BY <1>2 DEF Room
  <1>4. \A n \in S : limit - m <= limit - n
    BY <1>2, <1>3 DEF Room
  <1>5. \A n \in S : m >= n
    BY <1>4
  <1>6. QED
    BY <1>5 DEF Max

\* What executions_for_group returns: the rows up to the window's size.
LEMMA SmallerOfTwo ==
    ASSUME NEW a \in Nat, NEW b \in Nat
    PROVE  Min({a, b}) = IF a <= b THEN a ELSE b
  BY LeastIs, {a, b} # {}, {a, b} \in SUBSET Nat

-----------------------------------------------------------------------------
(* A set of windows in the order their commits first ran.                  *)

\* The windows of a history: one for each commit.
Orderly(windows) ==
    /\ IsFiniteSet(windows)
    /\ \A w \in windows : w.at \in Nat /\ w.sha \in Nat
    /\ \A v, w \in windows : v.sha = w.sha => v = w

\* Windows are totally ordered: commits that began at the same time are told
\* apart by their identifiers.
LEMMA EarlierIsAnOrder ==
    ASSUME NEW windows, Orderly(windows), NEW u \in windows, NEW v \in windows, NEW w \in windows
    PROVE  /\ ~Earlier(w, w)
           /\ v # w => Earlier(v, w) \/ Earlier(w, v)
           /\ Earlier(u, v) /\ Earlier(v, w) => Earlier(u, w)
  BY DEF Orderly, Earlier

\* A window's place is the number of windows up to it, so earlier windows
\* have smaller places.
LEMMA PlacesFollowTime ==
    ASSUME NEW windows, Orderly(windows), NEW v \in windows, NEW w \in windows
    PROVE  /\ Cardinality(windows) \in Nat
           /\ Place(w, windows) \in 1 .. Cardinality(windows)
           /\ Earlier(v, w) <=> Place(v, windows) < Place(w, windows)
  <1> DEFINE Before(x) == {y \in windows : Earlier(y, x)}
  <1>1. IsFiniteSet(windows)
    BY DEF Orderly
  <1>2. \A x \in windows : /\ Before(x) \in SUBSET windows
                           /\ x \notin Before(x)
    BY EarlierIsAnOrder
  <1>3. \A x \in windows : /\ IsFiniteSet(Before(x)) /\ Cardinality(Before(x)) \in Nat
                           /\ Cardinality(Before(x)) <= Cardinality(windows)
                           /\ Cardinality(Before(x)) # Cardinality(windows)
    <2> HIDE DEF Before
    <2>1. QED
      BY <1>1, <1>2, FS_Subset, FS_CardinalityType
  <1>4. ASSUME NEW x \in windows, NEW y \in windows, Earlier(x, y)
        PROVE  Cardinality(Before(x)) < Cardinality(Before(y))
    <2>1. Before(x) \in SUBSET Before(y)
      BY <1>4, EarlierIsAnOrder
    <2>2. x \in Before(y) /\ x \notin Before(x)
      BY <1>2, <1>4
    <2> HIDE DEF Before
    <2>3. /\ Cardinality(Before(x)) <= Cardinality(Before(y))
          /\ Cardinality(Before(x)) # Cardinality(Before(y))
      BY <1>3, <2>1, <2>2, FS_Subset
    <2>4. QED
      BY <1>3, <2>3
  <1>5. \A x \in windows : Place(x, windows) = Cardinality(Before(x)) + 1
    BY DEF Place
  <1>6. Cardinality(windows) \in Nat
    BY <1>1, FS_CardinalityType
  <1> HIDE DEF Before
  <1>7. Place(w, windows) \in 1 .. Cardinality(windows)
    BY <1>3, <1>5, <1>6
  <1>8. Earlier(v, w) => Place(v, windows) < Place(w, windows)
    BY <1>3, <1>4, <1>5
  <1>9. Place(v, windows) < Place(w, windows) => Earlier(v, w)
    <2>1. CASE v = w
      BY <1>3, <1>5, <2>1
    <2>2. CASE Earlier(w, v)
      <3>1. Cardinality(Before(w)) < Cardinality(Before(v))
        BY <1>4, <2>2
      <3>2. QED
        BY <1>3, <1>5, <3>1
    <2>3. QED
      BY <2>1, <2>2, EarlierIsAnOrder
  <1>10. QED
    BY <1>6, <1>7, <1>8, <1>9

\* InOrder lists every window once, each at its place.
LEMMA InOrderLists ==
    ASSUME NEW windows, Orderly(windows)
    PROVE  /\ Cardinality(windows) \in Nat
           /\ InOrder(windows) \in [1 .. Cardinality(windows) -> windows]
           /\ \A w \in windows : /\ Place(w, windows) \in 1 .. Cardinality(windows)
                                 /\ InOrder(windows)[Place(w, windows)] = w
           /\ \A n \in 1 .. Cardinality(windows) : Place(InOrder(windows)[n], windows) = n
  <1> DEFINE size == Cardinality(windows)
             f == [w \in windows |-> Place(w, windows)]
  <1>1. IsFiniteSet(windows)
    BY DEF Orderly
  <1>2. size \in Nat
    BY <1>1, FS_CardinalityType
  <1>3. f \in [windows -> 1 .. size]
    BY PlacesFollowTime
  <1>4. \A v, w \in windows : f[v] = f[w] => v = w
    <2>1. SUFFICES ASSUME NEW v \in windows, NEW w \in windows, v # w
                   PROVE  Place(v, windows) # Place(w, windows)
      OBVIOUS
    <2>2. Earlier(v, w) \/ Earlier(w, v)
      BY <2>1, EarlierIsAnOrder
    <2>3. /\ Place(v, windows) < Place(w, windows) \/ Place(w, windows) < Place(v, windows)
          /\ Place(v, windows) \in 1 .. size /\ Place(w, windows) \in 1 .. size
      BY <2>2, PlacesFollowTime
    <2>4. QED
      BY <1>2, <2>3
  <1>5. f \in Injection(windows, 1 .. size)
    BY <1>3, <1>4, Fun_IsInj
  <1>6. IsFiniteSet(1 .. size) /\ Cardinality(1 .. size) = size
    BY <1>2, FS_Interval
  <1>7. f \in Surjection(windows, 1 .. size)
    BY <1>1, <1>5, <1>6, FS_Injection
  <1>8. \A n \in 1 .. size : \E w \in windows : f[w] = n
    BY <1>7 DEF Surjection
  <1>9. \A n \in 1 .. size : \E w \in windows : Place(w, windows) = n
    BY <1>8
  <1>10. \A n \in 1 .. size : /\ InOrder(windows)[n] \in windows
                              /\ Place(InOrder(windows)[n], windows) = n
    BY <1>9 DEF InOrder
  <1>11. InOrder(windows) \in [1 .. size -> windows]
    BY <1>10 DEF InOrder
  <1>12. ASSUME NEW w \in windows
         PROVE  Place(w, windows) \in 1 .. size /\ InOrder(windows)[Place(w, windows)] = w
    <2>1. Place(w, windows) \in 1 .. size
      BY PlacesFollowTime
    <2>2. /\ InOrder(windows)[Place(w, windows)] \in windows
          /\ f[InOrder(windows)[Place(w, windows)]] = f[w]
      BY <1>10, <2>1
    <2>3. QED
      BY <1>4, <2>1, <2>2
  <1>13. QED
    BY <1>2, <1>10, <1>11, <1>12

-----------------------------------------------------------------------------
(* What the windows say of the rows.                                       *)

Executions ==
    [sha : Nat, branch : Branches, attempt : Attempts, at : Nat, outcome : Outcomes,
     infra : BOOLEAN, rerun : BOOLEAN]

\* Rows newest first, no two at one time; a re-run test has passed.
NewestFirst(list) ==
    /\ list \in Seq(Executions)
    /\ \A i, j \in DOMAIN list : i < j => list[i].at > list[j].at
    /\ \A i \in DOMAIN list : list[i].rerun => list[i].outcome = "pass"

\* The rows that are not the platform's fault, and their commits.
PlacesKept(list) == {i \in DOMAIN list : ~IsInfraFailure(list[i])}
RowsKept(list) == {list[i] : i \in PlacesKept(list)}
CommitsOf(list) == {list[i].sha : i \in PlacesKept(list)}
AtCommit(list, sha) == {r \in RowsKept(list) : r.sha = sha}

PlacesAt(list, sha) == {i \in PlacesKept(list) : list[i].sha = sha}
WindowAt(list, sha) == Window(sha, [i \in PlacesAt(list, sha) |-> list[i]])
WindowsOf(list) == {WindowAt(list, sha) : sha \in CommitsOf(list)}

\* A history is the windows of its commits in order.
LEMMA HistoryIsWindows ==
    ASSUME NEW list
    PROVE  BuildHistory(list) = InOrder(WindowsOf(list))
  BY Zenon DEF BuildHistory, WindowsOf, WindowAt, CommitsOf, PlacesAt, PlacesKept

\* The places of a list are finitely many numbers from one.
LEMMA PlacesAreNumbers ==
    ASSUME NEW list, NewestFirst(list)
    PROVE  /\ DOMAIN list = 1 .. Len(list) /\ Len(list) \in Nat
           /\ PlacesKept(list) \in SUBSET Nat /\ IsFiniteSet(PlacesKept(list))
           /\ PlacesKept(list) \subseteq DOMAIN list
           /\ \A i \in DOMAIN list : list[i] \in Executions
           /\ \A i, j \in DOMAIN list : list[i] = list[j] => i = j
           /\ \A i, j \in DOMAIN list : list[i].at <= list[j].at => j <= i
  <1>1. DOMAIN list = 1 .. Len(list) /\ Len(list) \in Nat
    BY DEF NewestFirst
  <1>2. PlacesKept(list) \in SUBSET DOMAIN list
    BY DEF PlacesKept
  <1>3. IsFiniteSet(PlacesKept(list))
    <2>1. IsFiniteSet(DOMAIN list)
      BY <1>1, FS_Interval
    <2>2. QED
      BY <1>2, <2>1, FS_Subset
  <1>4. \A i \in DOMAIN list : list[i] \in Executions
    BY DEF NewestFirst
  <1>5. \A i \in DOMAIN list : list[i].at \in Nat
    BY <1>4 DEF Executions
  <1>6. \A i, j \in DOMAIN list : list[i].at <= list[j].at => j <= i
    BY <1>1, <1>5 DEF NewestFirst
  <1>7. \A i, j \in DOMAIN list : list[i] = list[j] => i = j
    BY <1>1, <1>5, <1>6
  <1>8. QED
    BY <1>1, <1>2, <1>3, <1>4, <1>6, <1>7

\* One commit's window is what the rows say of the commit: when it first ran,
\* and the branch of its newest row.
LEMMA WindowSays ==
    ASSUME NEW list, NewestFirst(list), NEW sha \in CommitsOf(list)
    PROVE  LET w == WindowAt(list, sha)
               here == AtCommit(list, sha)
           IN  /\ w.sha = sha /\ sha \in Nat
               /\ w.rows = [i \in PlacesAt(list, sha) |-> list[i]]
               /\ Range(w.rows) = here /\ here # {}
               /\ w.at = Min({r.at : r \in here})
               /\ \E r \in here : w.at = r.at
               /\ \A r \in here : w.at <= r.at
               /\ \E r \in here : r.branch = w.branch /\ \A q \in here : q.at <= r.at
  <1> DEFINE w == WindowAt(list, sha)
             here == AtCommit(list, sha)
             at == PlacesAt(list, sha)
             own == [i \in at |-> list[i]]
  <1>1. w = [sha |-> sha, rows |-> own, at |-> Min({own[i].at : i \in DOMAIN own}),
             branch |-> own[Min(DOMAIN own)].branch]
    BY DEF WindowAt, Window
  <1>2. DOMAIN own = at /\ \A i \in at : own[i] = list[i]
    OBVIOUS
  <1>3. at \in SUBSET Nat /\ at # {} /\ at \subseteq DOMAIN list
    BY PlacesAreNumbers DEF CommitsOf, PlacesAt
  <1>4. sha \in Nat
    <2>1. PICK i \in PlacesKept(list) : sha = list[i].sha
      BY DEF CommitsOf
    <2>2. QED
      BY <2>1, PlacesAreNumbers DEF Executions
  <1>5. here = {list[i] : i \in at}
    BY DEF AtCommit, RowsKept, PlacesAt
  <1>6. Range(own) = here
    BY <1>2, <1>5 DEF Range
  <1>7. {own[i].at : i \in DOMAIN own} = {r.at : r \in here}
    BY <1>2, <1>5
  <1>8. here # {} /\ {r.at : r \in here} \in SUBSET Nat /\ {r.at : r \in here} # {}
    <2>1. \A i \in at : list[i].at \in Nat
      BY <1>3, PlacesAreNumbers DEF Executions
    <2>2. QED
      BY <1>3, <1>5, <2>1
  <1> DEFINE times == {r.at : r \in here}
  <1>9. Min(times) \in times /\ \A n \in times : Min(times) <= n
    <2> HIDE DEF times
    <2>1. QED
      BY <1>8, LeastIs DEF times
  <1>10. Min(at) \in at /\ \A i \in at : Min(at) <= i
    <2> HIDE DEF at
    <2>1. QED
      BY <1>3, LeastIs
  <1>11. list[Min(at)] \in here /\ \A q \in here : q.at <= list[Min(at)].at
    <2>1. ASSUME NEW i \in at
          PROVE  list[i].at <= list[Min(at)].at
      <3>1. Min(at) <= i /\ i \in DOMAIN list /\ Min(at) \in DOMAIN list
        BY <1>3, <1>10
      <3>2. list[i].at \in Nat /\ list[Min(at)].at \in Nat
        BY <3>1, PlacesAreNumbers DEF Executions
      <3>3. i \in Nat /\ Min(at) \in Nat
        BY <1>3, <1>10
      <3>4. QED
        BY <3>1, <3>2, <3>3 DEF NewestFirst
    <2>2. QED
      BY <1>5, <1>10, <2>1
  <1> HIDE DEF at, here, own
  <1>12. w.branch = list[Min(at)].branch
    BY <1>1, <1>2, <1>10
  <1>13. w.at = Min(times) /\ w.sha = sha /\ w.rows = own
    BY <1>1, <1>7
  <1>14. (\E r \in here : w.at = r.at) /\ \A r \in here : w.at <= r.at
    BY <1>9, <1>13
  <1>15. \E r \in here : r.branch = w.branch /\ \A q \in here : q.at <= r.at
    BY <1>11, <1>12
  <1>16. QED
    BY <1>4, <1>6, <1>8, <1>13, <1>14, <1>15 DEF own, at, here

\* There is one window for each commit, and they are finitely many.
LEMMA WindowsAreOrderly ==
    ASSUME NEW list, NewestFirst(list)
    PROVE  /\ Orderly(WindowsOf(list))
           /\ IsFiniteSet(CommitsOf(list)) /\ CommitsOf(list) \subseteq Nat
           /\ \A w \in WindowsOf(list) : w.sha \in CommitsOf(list) /\ w = WindowAt(list, w.sha)
           /\ \A sha \in CommitsOf(list) :
                  WindowAt(list, sha) \in WindowsOf(list) /\ WindowAt(list, sha).sha = sha
  <1> DEFINE f == [i \in PlacesKept(list) |-> list[i].sha]
             g == [sha \in CommitsOf(list) |-> WindowAt(list, sha)]
  <1>1. f \in Surjection(PlacesKept(list), CommitsOf(list))
    BY DEF Surjection, CommitsOf
  <1>2. IsFiniteSet(CommitsOf(list))
    <2> HIDE DEF f
    <2>1. QED
      BY <1>1, PlacesAreNumbers, FS_Surjection
  <1>3. g \in Surjection(CommitsOf(list), WindowsOf(list))
    BY DEF Surjection, WindowsOf
  <1>4. IsFiniteSet(WindowsOf(list))
    <2> HIDE DEF g
    <2>1. QED
      BY <1>2, <1>3, FS_Surjection
  <1>5. ASSUME NEW sha \in CommitsOf(list)
        PROVE  /\ WindowAt(list, sha).sha = sha /\ sha \in Nat
               /\ WindowAt(list, sha).at \in Nat
    <2>1. \A r \in AtCommit(list, sha) : r.at \in Nat
      BY PlacesAreNumbers DEF AtCommit, RowsKept, Executions
    <2>2. WindowAt(list, sha).sha = sha /\ sha \in Nat
      BY WindowSays
    <2>3. PICK r \in AtCommit(list, sha) : WindowAt(list, sha).at = r.at
      BY WindowSays
    <2>4. QED
      BY <2>1, <2>2, <2>3
  <1>6. \A w \in WindowsOf(list) : w.sha \in CommitsOf(list) /\ w = WindowAt(list, w.sha)
    BY <1>5 DEF WindowsOf
  <1>7. \A w \in WindowsOf(list) : w.at \in Nat /\ w.sha \in Nat
    BY <1>5, <1>6
  <1>8. \A v, w \in WindowsOf(list) : v.sha = w.sha => v = w
    BY <1>6
  <1>9. \A sha \in CommitsOf(list) :
           WindowAt(list, sha) \in WindowsOf(list) /\ WindowAt(list, sha).sha = sha
    BY <1>5 DEF WindowsOf
  <1>10. QED
    BY <1>2, <1>4, <1>5, <1>6, <1>7, <1>8, <1>9 DEF Orderly

\* The history has each window once, and the last is the latest.
LEMMA HistoryShape ==
    ASSUME NEW list, NewestFirst(list)
    PROVE  LET h == BuildHistory(list)
           IN  /\ Len(h) = Cardinality(WindowsOf(list)) /\ Len(h) \in Nat
               /\ h \in [1 .. Len(h) -> WindowsOf(list)]
               /\ ToSet(h) = WindowsOf(list)
               /\ \A w \in WindowsOf(list) : Place(w, WindowsOf(list)) \in 1 .. Len(h)
               /\ h # <<>> => /\ Last(h) \in WindowsOf(list)
                              /\ \A w \in WindowsOf(list) : w.at <= Last(h).at
  <1> DEFINE windows == WindowsOf(list)
             h == BuildHistory(list)
             size == Cardinality(windows)
  <1>1. Orderly(windows)
    BY WindowsAreOrderly
  <1>2. h = InOrder(windows)
    BY HistoryIsWindows
  <1> HIDE DEF h, windows
  <1>3. /\ size \in Nat /\ h \in [1 .. size -> windows]
        /\ \A w \in windows : Place(w, windows) \in 1 .. size /\ h[Place(w, windows)] = w
        /\ \A n \in 1 .. size : Place(h[n], windows) = n
    BY <1>1, <1>2, InOrderLists
  <1>4. h \in Seq(windows)
    BY <1>3, SeqDef
  <1>5. Len(h) = size
    <2>1. DOMAIN h = 1 .. size /\ DOMAIN h = 1 .. Len(h) /\ Len(h) \in Nat
      BY <1>3, <1>4, LenProperties
    <2>2. QED
      BY <1>3, <2>1
  <1>6. ToSet(h) = windows
    <2>1. \A w \in windows : \E n \in DOMAIN h : h[n] = w
      BY <1>3
    <2>2. \A n \in DOMAIN h : h[n] \in windows
      BY <1>3
    <2>3. QED
      BY <2>1, <2>2 DEF ToSet
  <1>7. ASSUME h # <<>>, NEW w \in windows
        PROVE  Last(h) \in windows /\ w.at <= Last(h).at
    <2>1. Len(h) \in 1 .. size
      BY <1>3, <1>4, <1>5, <1>7, EmptySeq
    <2>2. Last(h) \in windows /\ Place(Last(h), windows) = size
      BY <1>3, <1>5, <2>1 DEF Last
    <2>3. ~Earlier(Last(h), w)
      BY <1>1, <1>3, <2>2, PlacesFollowTime
    <2>4. Last(h).at \in Nat /\ w.at \in Nat
      BY <1>1, <1>7, <2>2 DEF Orderly
    <2>5. QED
      BY <2>2, <2>3, <2>4 DEF Earlier
  <1>8. h # <<>> => Last(h) \in windows
    <2>1. h # <<>> => Len(h) \in 1 .. size
      BY <1>3, <1>4, <1>5, EmptySeq
    <2>2. QED
      BY <1>3, <2>1 DEF Last
  <1>9. QED
    BY <1>3, <1>5, <1>6, <1>7, <1>8 DEF h, windows

\* The rows with an outcome are counted by the windows, each once.
LEMMA WindowCounts ==
    ASSUME NEW list, NewestFirst(list), NEW sha \in CommitsOf(list)
    PROVE  LET w == WindowAt(list, sha)
               seen == {r \in AtCommit(list, sha) : r.outcome # "skip"}
           IN  /\ Observed(w) = {i \in PlacesAt(list, sha) : list[i].outcome # "skip"}
               /\ WindowObservations(w) \in Nat
               /\ WindowObservations(w) = 0 <=> seen = {}
               /\ WindowObservations(w) >= 2 <=> \E r, s \in seen : r # s
  <1> DEFINE w == WindowAt(list, sha)
             seen == {r \in AtCommit(list, sha) : r.outcome # "skip"}
             places == {i \in PlacesAt(list, sha) : list[i].outcome # "skip"}
  <1>1. w.rows = [i \in PlacesAt(list, sha) |-> list[i]]
    BY WindowSays
  <1> HIDE DEF w
  <1>2. Observed(w) = places
    BY <1>1 DEF Observed, CountsAsObservation
  <1>3. seen = {list[i] : i \in places}
    BY DEF AtCommit, RowsKept, PlacesAt
  <1>4. /\ IsFiniteSet(places) /\ Cardinality(places) \in Nat
        /\ \A i, j \in places : list[i] = list[j] => i = j
    <2>1. places \in SUBSET PlacesKept(list)
      BY DEF PlacesAt
    <2>2. IsFiniteSet(places)
      BY <2>1, PlacesAreNumbers, FS_Subset
    <2>3. Cardinality(places) \in Nat
      BY <2>2, FS_CardinalityType
    <2>4. QED
      BY <2>1, <2>2, <2>3, PlacesAreNumbers
  <1> HIDE DEF places, seen
  <1>5. WindowObservations(w) = Cardinality(places)
    BY <1>2 DEF WindowObservations
  <1>6. Cardinality(places) = 0 <=> seen = {}
    BY <1>3, <1>4, FS_EmptySet
  <1>7. Cardinality(places) >= 2 <=> \E i, j \in places : i # j
    <2>1. Cardinality(places) = 0 <=> places = {}
      BY <1>4, FS_EmptySet
    <2>2. Cardinality(places) = 1 <=> \E i : places = {i}
      BY <1>4, FS_Singleton
    <2>3. (\E i, j \in places : i # j) <=> places # {} /\ ~\E i : places = {i}
      <3>1. ASSUME places # {}, ~\E i : places = {i}
            PROVE  \E i, j \in places : i # j
        <4>1. PICK i \in places : TRUE
          BY <3>1
        <4>2. places # {i}
          BY <3>1
        <4>3. QED
          BY <4>1, <4>2
      <3>2. QED
        BY <3>1
    <2>4. QED
      BY <1>4, <2>1, <2>2, <2>3
  <1>8. (\E i, j \in places : i # j) <=> \E r, s \in seen : r # s
    BY <1>3, <1>4
  <1>9. QED
    BY <1>2, <1>4, <1>5, <1>6, <1>7, <1>8 DEF w, places, seen

\* The observations of a history are its rows with an outcome.
LEMMA HistoryCounts ==
    ASSUME NEW list, NewestFirst(list)
    PROVE  LET seen == {r \in RowsKept(list) : r.outcome # "skip"}
           IN  /\ Observations(BuildHistory(list)) = Cardinality(seen)
               /\ IsFiniteSet(seen)
  <1> DEFINE seen == {r \in RowsKept(list) : r.outcome # "skip"}
             places == {i \in PlacesKept(list) : list[i].outcome # "skip"}
             f == [i \in places |-> list[i]]
             h == BuildHistory(list)
  <1>1. ToSet(h) = {WindowAt(list, sha) : sha \in CommitsOf(list)}
    BY HistoryShape DEF WindowsOf
  <1> HIDE DEF h
  <1>2. UNION {Observed(w) : w \in ToSet(h)}
            = UNION {Observed(WindowAt(list, sha)) : sha \in CommitsOf(list)}
    BY <1>1
  <1>3. \A sha \in CommitsOf(list) :
           Observed(WindowAt(list, sha)) = {i \in PlacesAt(list, sha) : list[i].outcome # "skip"}
    BY WindowCounts
  <1>4. UNION {Observed(WindowAt(list, sha)) : sha \in CommitsOf(list)} = places
    BY <1>3 DEF CommitsOf, PlacesAt
  <1>5. Observations(h) = Cardinality(places)
    BY <1>2, <1>4 DEF Observations
  <1>6. IsFiniteSet(places)
    BY PlacesAreNumbers, FS_Subset
  <1>7. f \in Bijection(places, seen)
    <2>1. f \in [places -> seen]
      BY DEF RowsKept
    <2>2. \A i, j \in places : f[i] = f[j] => i = j
      BY PlacesAreNumbers
    <2>3. \A r \in seen : \E i \in places : f[i] = r
      BY DEF RowsKept
    <2>4. QED
      BY <2>1, <2>2, <2>3 DEF Bijection, Injection, Surjection, IsInjective
  <1> HIDE DEF f, places, seen
  <1>8. ExistsBijection(places, seen)
    BY <1>7 DEF ExistsBijection
  <1>9. QED
    BY <1>5, <1>6, <1>8, FS_Bijection DEF h, seen

\* What a window reports is in the rows of its commit.
LEMMA WindowReports ==
    ASSUME NEW list, NewestFirst(list), NEW sha \in CommitsOf(list)
    PROVE  LET w == WindowAt(list, sha)
               here == AtCommit(list, sha)
           IN  /\ HasPass(w) <=> \E r \in here : r.outcome = "pass"
               /\ HasFailure(w) <=> \E r \in here : r.outcome \in Failures
               /\ RerunObserved(w) <=> \E r \in here : r.rerun
               /\ HasPass(w) \/ HasFailure(w) <=> WindowObservations(w) # 0
               /\ Diverged(w) => WindowObservations(w) # 0
  <1> DEFINE w == WindowAt(list, sha)
             here == AtCommit(list, sha)
  <1>1. Range(w.rows) = here
    BY WindowSays
  <1>2. WindowObservations(w) = 0 <=> {r \in here : r.outcome # "skip"} = {}
    BY WindowCounts
  <1>3. \A r \in here : r.outcome \in Outcomes /\ (r.rerun => r.outcome = "pass")
    BY PlacesAreNumbers DEF AtCommit, RowsKept, Executions, NewestFirst
  <1> HIDE DEF w, here
  <1>4. /\ HasPass(w) <=> \E r \in here : r.outcome = "pass"
        /\ HasFailure(w) <=> \E r \in here : r.outcome \in Failures
        /\ RerunObserved(w) <=> \E r \in here : r.rerun
    BY <1>1 DEF HasPass, HasFailure, RerunObserved, Passes, Fails
  <1>5. HasPass(w) \/ HasFailure(w) <=> WindowObservations(w) # 0
    BY <1>2, <1>3, <1>4 DEF Outcomes, Failures
  <1>6. Diverged(w) => WindowObservations(w) # 0
    BY <1>3, <1>4, <1>5 DEF Diverged
  <1>7. QED
    BY <1>4, <1>5, <1>6 DEF w, here

-----------------------------------------------------------------------------
(* The states of MCDetect.                                                 *)

\* The rows are numbered from the oldest on, and what the detector says is
\* up to date.
UpToDate ==
    /\ rows \in Seq(Executions)
    /\ \A i \in DOMAIN rows : /\ rows[i].at = Len(rows) + 1 - i
                              /\ rows[i].sha \in Shas
                              /\ rows[i].rerun => rows[i].outcome = "pass"
    /\ unrelated \in BOOLEAN
    /\ detection = Detect(rows, unrelated)

\* Nothing is detected of a test without rows.
LEMMA UpToDateInit == Init => UpToDate
  BY HistoriesAssumption DEF Init, UpToDate

\* A new row is the newest.
LEMMA UpToDateNext == UpToDate /\ [Next]_vars => UpToDate'
  <1> SUFFICES ASSUME UpToDate, [Next]_vars
               PROVE  UpToDate'
    OBVIOUS
  <1>1. CASE UNCHANGED vars
    BY <1>1 DEF UpToDate, vars, Detect, DetectHistory
  <1>2. ASSUME NEW kind \in Kinds, NEW sha \in Shas, NEW branch \in Branches,
               NEW attempt \in Attempts, Ingest(kind, sha, branch, attempt)
        PROVE  UpToDate'
    <2> DEFINE row == Row(kind, sha, branch, attempt)
    <2>1. rows \in Seq(Executions) /\ Len(rows) \in Nat /\ DOMAIN rows = 1 .. Len(rows)
      BY DEF UpToDate
    <2>2. /\ row \in Executions /\ row.at = Len(rows) + 1 /\ row.sha \in Shas
          /\ row.rerun => row.outcome = "pass"
      <3>1. OutcomeOf(kind) \in Outcomes /\ (kind = "rerun" => OutcomeOf(kind) = "pass")
        BY HistoriesAssumption DEF OutcomeOf, Outcomes
      <3>2. sha \in Nat /\ Len(rows) + 1 \in Nat
        BY <2>1, HistoriesAssumption
      <3>3. (kind \in {"assertion", "platform"}) \in BOOLEAN /\ (kind = "rerun") \in BOOLEAN
        OBVIOUS
      <3>4. QED
        BY <3>1, <3>2, <3>3 DEF Row, Executions
    <2> HIDE DEF row
    <2>3. rows' = <<row>> \o rows
      BY <1>2 DEF Ingest, row
    <2>4. /\ rows' \in Seq(Executions) /\ Len(rows') = Len(rows) + 1
          /\ DOMAIN rows' = 1 .. Len(rows) + 1
          /\ rows'[1] = row /\ \A i \in 2 .. Len(rows) + 1 : rows'[i] = rows[i - 1]
      <3>1. <<row>> \in Seq(Executions) /\ Len(<<row>>) = 1 /\ <<row>>[1] = row
        BY <2>2
      <3>2. /\ rows' \in Seq(Executions) /\ Len(rows') = Len(rows) + 1
            /\ \A i \in 1 .. 1 + Len(rows) :
                  rows'[i] = IF i <= 1 THEN <<row>>[i] ELSE rows[i - 1]
        BY <2>1, <2>3, <3>1, ConcatProperties
      <3>3. QED
        BY <2>1, <3>1, <3>2
    <2>5. \A i \in DOMAIN rows' : /\ rows'[i].at = Len(rows') + 1 - i
                                  /\ rows'[i].sha \in Shas
                                  /\ rows'[i].rerun => rows'[i].outcome = "pass"
      <3>1. SUFFICES ASSUME NEW i \in 1 .. Len(rows) + 1
                     PROVE  /\ rows'[i].at = Len(rows) + 2 - i
                            /\ rows'[i].sha \in Shas
                            /\ rows'[i].rerun => rows'[i].outcome = "pass"
        BY <2>1, <2>4
      <3>2. CASE i = 1
        BY <2>1, <2>2, <2>4, <3>2
      <3>3. CASE i # 1
        <4>1. i \in 2 .. Len(rows) + 1 /\ i - 1 \in DOMAIN rows
          BY <2>1, <3>3
        <4>2. /\ rows[i - 1].at = Len(rows) + 1 - (i - 1)
              /\ rows[i - 1].sha \in Shas
              /\ rows[i - 1].rerun => rows[i - 1].outcome = "pass"
          BY <4>1 DEF UpToDate
        <4>3. rows'[i] = rows[i - 1]
          BY <2>4, <4>1
        <4>4. Len(rows) + 1 - (i - 1) = Len(rows) + 2 - i
          BY <2>1
        <4>5. QED
          BY <4>2, <4>3, <4>4
      <3>4. QED
        BY <3>2, <3>3
    <2>6. unrelated' = unrelated /\ detection' = Detect(rows', unrelated')
      BY <1>2 DEF Ingest
    <2>7. QED
      BY <2>4, <2>5, <2>6 DEF UpToDate
  <1>3. QED
    BY <1>1, <1>2 DEF Next

\* What the detector says is always up to date.
LEMMA DetectionIsCurrent == Spec => []UpToDate
  BY UpToDateInit, UpToDateNext, PTL DEF Spec

\* The rows that the detector is given.
Given == InWindow(rows)

\* What detection reads of a list are its newest rows.
LEMMA GivenIsNewest ==
    ASSUME UpToDate
    PROVE  /\ NewestFirst(Given) /\ NewestFirst(rows)
           /\ Len(rows) <= WindowExecutions => Given = rows
           /\ \A i \in DOMAIN Given : Given[i].sha \in Shas
           /\ \A i \in DOMAIN Given : i \in DOMAIN rows /\ Given[i] = rows[i]
           /\ \A i \in DOMAIN rows :
                i \in DOMAIN Given <=> rows[i].at > Len(rows) - WindowExecutions
  <1> DEFINE size == IF Len(rows) <= WindowExecutions THEN Len(rows) ELSE WindowExecutions
  <1>1. /\ rows \in Seq(Executions) /\ Len(rows) \in Nat /\ DOMAIN rows = 1 .. Len(rows)
        /\ WindowExecutions \in Nat
    BY DetectConfigAssumption DEF UpToDate
  <1>2. Given = SubSeq(rows, 1, size)
    BY <1>1, SmallerOfTwo DEF Given, InWindow
  <1>3. size \in 0 .. Len(rows) /\ \A i \in 1 .. size : rows[i] \in Executions
    BY <1>1
  <1> HIDE DEF size
  <1>4. /\ Given \in Seq(Executions) /\ DOMAIN Given = 1 .. size
        /\ \A i \in 1 .. size : Given[i] = rows[i]
    <2>1. /\ Given \in Seq(Executions) /\ Len(Given) = IF 1 <= size THEN size - 1 + 1 ELSE 0
          /\ \A i \in 1 .. size - 1 + 1 : Given[i] = rows[1 + i - 1]
      BY <1>2, <1>3, SubSeqProperties
    <2>2. size - 1 + 1 = size /\ \A i \in 1 .. size : 1 + i - 1 = i
      BY <1>3, <1>1
    <2>3. Len(Given) = size
      BY <1>1, <1>3, <2>1
    <2>4. QED
      BY <2>1, <2>2, <2>3
  <1>5. NewestFirst(rows)
    <2>1. \A i \in DOMAIN rows : rows[i].at = Len(rows) + 1 - i
      BY DEF UpToDate
    <2>2. \A i, j \in DOMAIN rows : i < j => rows[i].at > rows[j].at
      BY <1>1, <2>1
    <2>3. QED
      BY <1>1, <2>2 DEF NewestFirst, UpToDate
  <1>6. \A i \in DOMAIN Given : i \in DOMAIN rows /\ Given[i] = rows[i]
    BY <1>1, <1>3, <1>4
  <1>7. NewestFirst(Given)
    BY <1>4, <1>5, <1>6 DEF NewestFirst
  <1>8. Len(rows) <= WindowExecutions => Given = rows
    <2>1. Len(rows) <= WindowExecutions => size = Len(rows)
      BY DEF size
    <2>2. QED
      BY <1>1, <1>2, <2>1, SubSeqFull
  <1>9. \A i \in DOMAIN rows : i \in DOMAIN Given <=> rows[i].at > Len(rows) - WindowExecutions
    <2>1. \A i \in DOMAIN rows : rows[i].at = Len(rows) + 1 - i
      BY DEF UpToDate
    <2>2. \A i \in 1 .. Len(rows) : i \in 1 .. size <=> Len(rows) + 1 - i > Len(rows) - WindowExecutions
      BY <1>1 DEF size
    <2>3. QED
      BY <1>1, <1>4, <2>1, <2>2
  <1>10. QED
    BY <1>5, <1>6, <1>7, <1>8, <1>9 DEF UpToDate

\* The history of the state, and the window of a commit in it.
Past == BuildHistory(Given)
Of(sha) == WindowAt(Given, sha)

\* The terms in which the properties are stated are what the windows report.
LEMMA RawTerms ==
    ASSUME UpToDate
    PROVE  /\ Kept = RowsKept(Given)
           /\ \A sha \in CommitsOf(Given) :
                 /\ sha \in Shas
                 /\ FirstRun(sha) = Of(sha).at
                 /\ PassedAt(sha) <=> HasPass(Of(sha))
                 /\ FailedAt(sha) <=> HasFailure(Of(sha))
                 /\ Disagrees(sha) <=> Diverged(Of(sha))
           /\ Tested = {sha \in CommitsOf(Given) : Status(Of(sha)) # "no_data"}
           /\ \A sha \in Tested : WindowObservations(Of(sha)) # 0
           /\ \A sha \in CommitsOf(Given) : Diverged(Of(sha)) => sha \in Tested
           /\ \A r \in Kept : r.sha \in CommitsOf(Given)
  <1>1. Kept = RowsKept(Given)
    <2>1. \A r : r \in ToSet(rows) <=> \E i \in DOMAIN rows : rows[i] = r
      BY DEF ToSet
    <2>2. \A r : r \in Kept <=> \E i \in DOMAIN Given : Given[i] = r /\ ~IsInfraFailure(r)
      BY <2>1, GivenIsNewest DEF Kept, IsInfraFailure
    <2>3. \A r : r \in RowsKept(Given) <=> \E i \in DOMAIN Given : Given[i] = r /\ ~IsInfraFailure(r)
      BY DEF RowsKept, PlacesKept
    <2>4. QED
      BY <2>2, <2>3
  <1>2. NewestFirst(Given)
    BY GivenIsNewest
  <1>3. \A sha : {r \in Kept : r.sha = sha} = AtCommit(Given, sha)
    BY <1>1 DEF AtCommit
  <1>4. \A r \in Kept : r.sha \in CommitsOf(Given)
    BY <1>1 DEF RowsKept, CommitsOf
  <1>5. ASSUME NEW sha \in CommitsOf(Given)
        PROVE  /\ sha \in Shas
               /\ FirstRun(sha) = Of(sha).at
               /\ PassedAt(sha) <=> HasPass(Of(sha))
               /\ FailedAt(sha) <=> HasFailure(Of(sha))
               /\ Disagrees(sha) <=> Diverged(Of(sha))
    <2>1. sha \in Shas
      BY GivenIsNewest DEF CommitsOf, PlacesKept
    <2>2. FirstRun(sha) = Of(sha).at
      <3>1. {x \in Kept : x.sha = sha} = AtCommit(Given, sha)
        BY <1>3
      <3>2. Of(sha).at = Min({r.at : r \in AtCommit(Given, sha)})
        BY <1>2, WindowSays DEF Of
      <3>3. QED
        BY <3>1, <3>2, Zenon DEF FirstRun
    <2>3. /\ HasPass(Of(sha)) <=> \E r \in AtCommit(Given, sha) : r.outcome = "pass"
          /\ HasFailure(Of(sha)) <=> \E r \in AtCommit(Given, sha) : r.outcome \in Failures
          /\ RerunObserved(Of(sha)) <=> \E r \in AtCommit(Given, sha) : r.rerun
      BY <1>2, WindowReports DEF Of
    <2>4. PassedAt(sha) <=> HasPass(Of(sha))
      BY <1>3, <2>3 DEF PassedAt
    <2>5. FailedAt(sha) <=> HasFailure(Of(sha))
      BY <1>3, <2>3 DEF FailedAt, Failures
    <2>6. Disagrees(sha) <=> Diverged(Of(sha))
      BY <1>3, <2>3, <2>4, <2>5 DEF Disagrees, Diverged
    <2>7. QED
      BY <2>1, <2>2, <2>4, <2>5, <2>6
  <1>6. \A sha \in CommitsOf(Given) :
           /\ HasPass(Of(sha)) \/ HasFailure(Of(sha)) <=> WindowObservations(Of(sha)) # 0
           /\ Diverged(Of(sha)) => WindowObservations(Of(sha)) # 0
    BY <1>2, WindowReports DEF Of
  <1>7. \A sha \in Shas : PassedAt(sha) \/ FailedAt(sha) => sha \in CommitsOf(Given)
    BY <1>4 DEF PassedAt, FailedAt
  <1>8. Tested = {sha \in CommitsOf(Given) : WindowObservations(Of(sha)) # 0}
    BY <1>5, <1>6, <1>7 DEF Tested
  <1>9. \A sha \in CommitsOf(Given) :
           Status(Of(sha)) # "no_data" <=> WindowObservations(Of(sha)) # 0
    BY <1>6 DEF Status
  <1>10. QED
    BY <1>1, <1>4, <1>5, <1>6, <1>8, <1>9

-----------------------------------------------------------------------------
(* When the test is called flaky.                                          *)

\* Which signals fire.
LEMMA SignalsSay ==
    ASSUME NEW h, NEW known
    PROVE  LET signals == Signals(h, known)
           IN  /\ "same_sha_divergence" \in signals <=> \E w \in ToSet(h) : Diverged(w)
               /\ "historical_instability" \in signals => HistoricalInstability(h)
               /\ signals # {} => \/ \E w \in ToSet(h) : Diverged(w)
                                  \/ BranchIndependent(h, known)
                                  \/ HistoricalInstability(h)
  <1> DEFINE diverged == {w \in ToSet(h) : Diverged(w)}
             strong == (IF diverged # {} THEN {"same_sha_divergence"} ELSE {})
                       \cup (IF \E w \in diverged : DivergedAcrossAttempts(w)
                             THEN {"cross_attempt_divergence"} ELSE {})
             weak == (IF BranchIndependent(h, known) THEN {"branch_independent"} ELSE {})
                     \cup (IF HistoricalInstability(h) THEN {"historical_instability"} ELSE {})
  <1>1. Signals(h, known) = IF strong = {} /\ FindRegression(h) # {} THEN {} ELSE strong \cup weak
    BY DEF Signals
  <1>2. /\ "same_sha_divergence" \in strong <=> diverged # {}
        /\ "historical_instability" \notin strong
        /\ strong # {} => diverged # {}
    OBVIOUS
  <1>3. /\ "same_sha_divergence" \notin weak
        /\ "historical_instability" \in weak <=> HistoricalInstability(h)
        /\ weak # {} => BranchIndependent(h, known) \/ HistoricalInstability(h)
    OBVIOUS
  <1>4. diverged # {} <=> \E w \in ToSet(h) : Diverged(w)
    OBVIOUS
  <1> HIDE DEF diverged, strong, weak
  <1>5. QED
    BY <1>1, <1>2, <1>3, <1>4

\* What the precedence makes of them.
LEMMA DecideSays ==
    ASSUME NEW h, NEW signals
    PROVE  LET decision == Decide(h, signals)
           IN  /\ "same_sha_divergence" \in signals => decision[1] = "flaky"
               /\ decision[1] = "flaky" =>
                    /\ decision[2] = Confidence(h, signals)
                    /\ \/ "same_sha_divergence" \in signals
                       \/ signals # {} /\ LatestFails(h)
               /\ decision[1] = "regression" <=>
                    "same_sha_divergence" \notin signals /\ FindRegression(h) # {}
  BY DEF Decide

\* The detection that is stored is the one of the rows that were read.
LEMMA DetectionSays ==
    ASSUME UpToDate
    PROVE  LET decision == Decide(Past, Signals(Past, unrelated))
           IN  /\ detection.verdict = decision[1] /\ detection.confidence = decision[2]
               /\ detection.rate = FlakeRate(Past)
               /\ detection.observations = Observations(Past)
  BY DEF UpToDate, Detect, DetectHistory, Past, Given

\* The commits that disagree with themselves are those whose windows do.
LEMMA DivergenceIsRaw ==
    ASSUME UpToDate
    PROVE  /\ (\E w \in ToSet(Past) : Diverged(w)) <=> \E sha \in Tested : Disagrees(sha)
           /\ \A w \in ToSet(Past) : w.sha \in CommitsOf(Given) /\ w = Of(w.sha)
           /\ \A sha \in CommitsOf(Given) : Of(sha) \in ToSet(Past)
  <1>1. NewestFirst(Given)
    BY GivenIsNewest
  <1>2. ToSet(Past) = WindowsOf(Given)
    BY <1>1, HistoryShape DEF Past
  <1>3. \A w \in ToSet(Past) : w.sha \in CommitsOf(Given) /\ w = Of(w.sha)
    BY <1>1, <1>2, WindowsAreOrderly DEF Of
  <1>4. \A sha \in CommitsOf(Given) : Of(sha) \in ToSet(Past)
    BY <1>2 DEF WindowsOf, Of
  <1>5. \A sha \in Tested : sha \in CommitsOf(Given)
    BY RawTerms
  <1>6. \A sha \in CommitsOf(Given) : Disagrees(sha) <=> Diverged(Of(sha))
    BY RawTerms
  <1>7. \A sha \in CommitsOf(Given) : Diverged(Of(sha)) => sha \in Tested
    BY RawTerms
  <1>8. QED
    BY <1>3, <1>4, <1>5, <1>6, <1>7

\* Rows that disagree at a commit make its window divergent, which decides.
LEMMA DivergenceWinsNow == UpToDate => DivergenceWins
  <1> SUFFICES ASSUME UpToDate, \E sha \in Tested : Disagrees(sha)
               PROVE  detection.verdict = "flaky" /\ detection.confidence # "low"
    BY DEF DivergenceWins
  <1> DEFINE signals == Signals(Past, unrelated)
  <1>1. "same_sha_divergence" \in signals
    BY DivergenceIsRaw, SignalsSay
  <1> HIDE DEF signals
  <1>2. Decide(Past, signals)[1] = "flaky" /\ Decide(Past, signals)[2] = Confidence(Past, signals)
    BY <1>1, DecideSays
  <1>3. Confidence(Past, signals) # "low"
    BY <1>1 DEF Confidence
  <1>4. QED
    BY <1>2, <1>3, DetectionSays DEF signals

\* In every history, a commit that both passed and failed, or that was
\* re-run, makes the test flaky with more than low confidence: nothing that
\* happens at other commits outweighs it (detector.py, "same-commit divergence
\* wins outright").
THEOREM DivergenceAlwaysWins == Spec => []DivergenceWins
  BY DetectionIsCurrent, DivergenceWinsNow, PTL

\* The newest window is the newest commit's, and its branch that of the
\* commit's newest row.
LEMMA NewestIsRaw ==
    ASSUME UpToDate, Past # <<>>
    PROVE  /\ Last(Past).sha \in CommitsOf(Given) /\ Last(Past) = Of(Last(Past).sha)
           /\ NewestCommit(Last(Past).sha)
           /\ \A w \in ToSet(Past) : OnBranch(w.sha, w.branch)
           /\ \A w \in ToSet(Past) : \A branch : OnBranch(w.sha, branch) => branch = w.branch
  <1>1. NewestFirst(Given)
    BY GivenIsNewest
  <1>2. Last(Past) \in WindowsOf(Given) /\ \A w \in WindowsOf(Given) : w.at <= Last(Past).at
    BY <1>1, HistoryShape DEF Past
  <1>3. Last(Past).sha \in CommitsOf(Given) /\ Last(Past) = Of(Last(Past).sha)
    BY <1>1, <1>2, WindowsAreOrderly DEF Of
  <1>4. \A sha \in CommitsOf(Given) : FirstRun(sha) = Of(sha).at /\ Of(sha) \in WindowsOf(Given)
    BY RawTerms DEF WindowsOf, Of
  <1>5. \A r \in Kept : r.sha \in CommitsOf(Given)
    BY RawTerms
  <1>6. NewestCommit(Last(Past).sha)
    BY <1>2, <1>3, <1>4, <1>5 DEF NewestCommit
  <1>7. Kept = RowsKept(Given)
    BY RawTerms
  <1>8. ASSUME NEW w \in ToSet(Past)
        PROVE  /\ OnBranch(w.sha, w.branch)
               /\ \A branch : OnBranch(w.sha, branch) => branch = w.branch
    <2>1. w.sha \in CommitsOf(Given) /\ w = Of(w.sha)
      BY DivergenceIsRaw
    <2>2. PICK r \in AtCommit(Given, w.sha) :
              r.branch = w.branch /\ \A q \in AtCommit(Given, w.sha) : q.at <= r.at
      <3>1. LET v == WindowAt(Given, w.sha)
            IN  \E r \in AtCommit(Given, w.sha) :
                    r.branch = v.branch /\ \A q \in AtCommit(Given, w.sha) : q.at <= r.at
        BY <1>1, <2>1, WindowSays
      <3>2. QED
        BY <2>1, <3>1 DEF Of
    <2>3. AtCommit(Given, w.sha) = {r1 \in Kept : r1.sha = w.sha}
      BY <1>7 DEF AtCommit
    <2>4. OnBranch(w.sha, w.branch)
      BY <2>2, <2>3 DEF OnBranch
    <2>5. ASSUME NEW branch, OnBranch(w.sha, branch)
          PROVE  branch = w.branch
      <3>1. PICK s \in Kept : s.sha = w.sha /\ s.branch = branch
                              /\ \A q \in Kept : q.sha = w.sha => q.at <= s.at
        BY <2>5 DEF OnBranch
      <3>2. r.at <= s.at /\ s.at <= r.at
        BY <2>2, <2>3, <3>1
      <3>3. r \in Kept /\ s \in Kept
        BY <2>3, <3>1
      <3>4. PICK i \in DOMAIN Given, j \in DOMAIN Given : r = Given[i] /\ s = Given[j]
        BY <1>7, <3>3 DEF RowsKept, PlacesKept
      <3>5. i = j
        <4>1. i <= j /\ j <= i /\ i \in Nat /\ j \in Nat
          BY <1>1, <3>2, <3>4, PlacesAreNumbers
        <4>2. QED
          BY <4>1
      <3>6. QED
        BY <2>2, <3>1, <3>4, <3>5
    <2>6. QED
      BY <2>4, <2>5
  <1>9. QED
    BY <1>3, <1>6, <1>8

\* FLAKY needs a signal, and each signal has its rows.
LEMMA FlakyIsBackedNow == UpToDate => FlakyIsBacked
  <1> SUFFICES ASSUME UpToDate, detection.verdict = "flaky"
               PROVE  \/ \E sha \in Tested : Disagrees(sha)
                      \/ /\ Cardinality({r \in Kept : r.outcome # "skip"}) >= MinObservations
                         /\ detection.rate.n * RateDen > RateNum * detection.rate.d
                      \/ /\ unrelated
                         /\ \E sha \in Tested : /\ NewestCommit(sha) /\ FailedAt(sha)
                                                /\ ~OnBranch(sha, MainBranch) /\ ~OnBranch(sha, "")
                         /\ \E sha \in Tested : PassedAt(sha) /\ OnBranch(sha, MainBranch)
    BY DEF FlakyIsBacked
  <1>1. \/ \E w \in ToSet(Past) : Diverged(w)
        \/ BranchIndependent(Past, unrelated)
        \/ HistoricalInstability(Past)
    BY DetectionSays, DecideSays, SignalsSay
  <1>2. CASE \E w \in ToSet(Past) : Diverged(w)
    BY <1>2, DivergenceIsRaw
  <1>3. CASE HistoricalInstability(Past)
    <2>1. Observations(Past) = Cardinality({r \in RowsKept(Given) : r.outcome # "skip"})
      BY GivenIsNewest, HistoryCounts DEF Past
    <2>2. Kept = RowsKept(Given)
      BY RawTerms
    <2>3. detection.rate = FlakeRate(Past)
      BY DetectionSays
    <2>4. QED
      BY <1>3, <2>1, <2>2, <2>3 DEF HistoricalInstability, Above
  <1>4. CASE BranchIndependent(Past, unrelated)
    <2>1. Past # <<>> /\ HasFailure(Last(Past)) /\ Last(Past).branch \notin {MainBranch, ""} /\ unrelated
      BY <1>4 DEF BranchIndependent, LatestFails
    <2>2. PICK w \in ToSet(Past) : w.branch = MainBranch /\ Status(w) = "passed"
      BY <1>4 DEF BranchIndependent
    <2>3. /\ \A sha \in CommitsOf(Given) : Of(sha) \in ToSet(Past)
          /\ w.sha \in CommitsOf(Given) /\ w = Of(w.sha)
      BY DivergenceIsRaw
    <2>4. PassedAt(w.sha) /\ OnBranch(w.sha, MainBranch) /\ w.sha \in Tested
      <3>1. Status(w) # "no_data" /\ HasPass(w)
        <4>1. WindowObservations(w) # 0 /\ ~HasFailure(w)
          BY <2>2 DEF Status
        <4>2. HasPass(w) \/ HasFailure(w) <=> WindowObservations(w) # 0
          BY <2>3, GivenIsNewest, WindowReports DEF Of
        <4>3. QED
          BY <2>2, <4>1, <4>2
      <3>2. OnBranch(w.sha, MainBranch)
        BY <2>1, <2>2, NewestIsRaw
      <3>3. QED
        BY <2>3, <3>1, <3>2, RawTerms
    <2> DEFINE newest == Last(Past).sha
    <2>5. newest \in CommitsOf(Given) /\ Last(Past) = Of(newest) /\ NewestCommit(newest)
      BY <2>1, NewestIsRaw
    <2>6. ~OnBranch(newest, MainBranch) /\ ~OnBranch(newest, "")
      BY <2>1, <2>3, <2>5, NewestIsRaw
    <2>7. FailedAt(newest) /\ newest \in Shas
      BY <2>1, <2>5, RawTerms
    <2>8. newest \in Tested
      BY <2>7 DEF Tested
    <2>9. QED
      BY <2>1, <2>4, <2>5, <2>6, <2>7, <2>8
  <1>5. QED
    BY <1>1, <1>2, <1>3, <1>4

\* In every history, a test is only called flaky on evidence: a commit that
\* disagrees with itself, enough observations and a rate above the threshold, or
\* a failure on a known branch whose change has nothing to do with a test that
\* passes on the main branch.
THEOREM FlakyIsAlwaysBacked == Spec => []FlakyIsBacked
  BY DetectionIsCurrent, FlakyIsBackedNow, PTL

\* Only a divergent window makes the confidence high.
LEMMA CrossCommitEvidenceIsWeakNow == UpToDate => CrossCommitEvidenceIsWeak
  <1> SUFFICES ASSUME UpToDate, detection.verdict = "flaky",
                      \A r, s \in Kept : r.sha = s.sha => r = s,
                      \A sha \in Tested : ~Disagrees(sha)
               PROVE  detection.confidence = "low"
    BY DEF CrossCommitEvidenceIsWeak
  <1> DEFINE signals == Signals(Past, unrelated)
  <1>1. "same_sha_divergence" \notin signals
    BY DivergenceIsRaw, SignalsSay
  <1>2. ~RetryDataAvailable(Past)
    <2>1. ASSUME NEW w \in ToSet(Past), WindowObservations(w) >= 2
          PROVE  FALSE
      <3>1. w.sha \in CommitsOf(Given) /\ w = WindowAt(Given, w.sha)
        BY DivergenceIsRaw DEF Of
      <3>2. \E r, s \in {x \in AtCommit(Given, w.sha) : x.outcome # "skip"} : r # s
        <4>1. WindowObservations(WindowAt(Given, w.sha)) >= 2
          BY <2>1, <3>1
        <4>2. QED
          BY <3>1, <4>1, GivenIsNewest, WindowCounts
      <3>3. QED
        BY <3>2, RawTerms DEF AtCommit
    <2>2. QED
      BY <2>1 DEF RetryDataAvailable
  <1> HIDE DEF signals
  <1>3. detection.confidence = Confidence(Past, signals)
    BY DetectionSays, DecideSays DEF signals
  <1>4. QED
    BY <1>1, <1>2, <1>3 DEF Confidence

\* In every history, evidence that only compares commits with each other
\* gives low confidence unless some commit ran twice (rates.py:14).
THEOREM CrossCommitEvidenceIsAlwaysWeak == Spec => []CrossCommitEvidenceIsWeak
  BY DetectionIsCurrent, CrossCommitEvidenceIsWeakNow, PTL

-----------------------------------------------------------------------------
(* The outcomes of the commits in the order they first ran.                *)

TestedIn(list) == {sha \in CommitsOf(list) : \E r \in AtCommit(list, sha) : r.outcome # "skip"}
FirstIn(list, sha) == WindowAt(list, sha).at
StatusIn(list, sha) == Status(WindowAt(list, sha))
RankIn(list, sha) ==
    Cardinality({d \in TestedIn(list) : FirstIn(list, d) < FirstIn(list, sha)}) + 1

\* A set has as many elements as its image under an injection.
LEMMA SameSize ==
    ASSUME NEW S, IsFiniteSet(S), NEW f, DOMAIN f = S,
           \A x, y \in S : f[x] = f[y] => x = y
    PROVE  /\ IsFiniteSet({f[x] : x \in S})
           /\ Cardinality({f[x] : x \in S}) = Cardinality(S)
  <1> DEFINE T == {f[x] : x \in S}
             g == [x \in S |-> f[x]]
  <1>1. g \in Bijection(S, T)
    <2>1. g \in [S -> T]
      OBVIOUS
    <2>2. \A x, y \in S : g[x] = g[y] => x = y
      OBVIOUS
    <2>3. \A t \in T : \E x \in S : g[x] = t
      OBVIOUS
    <2>4. QED
      BY <2>1, <2>2, <2>3 DEF Bijection, Injection, Surjection, IsInjective
  <1> HIDE DEF g, T
  <1>2. ExistsBijection(S, T)
    BY <1>1 DEF ExistsBijection
  <1>3. QED
    BY <1>2, FS_Bijection DEF T

\* No two commits first ran at one time.
LEMMA FirstRunsDiffer ==
    ASSUME NEW list, NewestFirst(list)
    PROVE  /\ \A sha \in CommitsOf(list) : FirstIn(list, sha) \in Nat
           /\ \A c, d \in CommitsOf(list) : FirstIn(list, c) = FirstIn(list, d) => c = d
           /\ \A sha \in CommitsOf(list) : \E r \in RowsKept(list) : FirstIn(list, sha) = r.at
  <1>1. ASSUME NEW sha \in CommitsOf(list)
        PROVE  \E i \in PlacesAt(list, sha) : FirstIn(list, sha) = list[i].at
    <2>1. \E r \in AtCommit(list, sha) : FirstIn(list, sha) = r.at
      BY WindowSays DEF FirstIn
    <2>2. QED
      BY <2>1 DEF AtCommit, RowsKept, PlacesAt
  <1>2. \A i \in PlacesKept(list) : list[i].at \in Nat
    BY PlacesAreNumbers DEF Executions
  <1>3. \A sha \in CommitsOf(list) : FirstIn(list, sha) \in Nat
    BY <1>1, <1>2 DEF PlacesAt
  <1>4. ASSUME NEW c \in CommitsOf(list), NEW d \in CommitsOf(list),
               FirstIn(list, c) = FirstIn(list, d)
        PROVE  c = d
    <2>1. PICK i \in PlacesAt(list, c), j \in PlacesAt(list, d) : list[i].at = list[j].at
      BY <1>1, <1>4
    <2>2. /\ i \in DOMAIN list /\ j \in DOMAIN list /\ i \in Nat /\ j \in Nat
          /\ list[i].at \in Nat
      BY <1>2, PlacesAreNumbers DEF PlacesAt
    <2>3. i <= j /\ j <= i
      BY <2>1, <2>2, PlacesAreNumbers
    <2>4. i = j
      BY <2>2, <2>3
    <2>5. QED
      BY <2>4 DEF PlacesAt
  <1>5. \A sha \in CommitsOf(list) : \E r \in RowsKept(list) : FirstIn(list, sha) = r.at
    BY <1>1 DEF PlacesAt, RowsKept
  <1>6. QED
    BY <1>3, <1>4, <1>5

\* The statuses are those of the tested commits, each at its commit's rank.
LEMMA StatusesAreRanked ==
    ASSUME NEW list, NewestFirst(list)
    PROVE  LET tested == TestedIn(list)
               s == Statuses(BuildHistory(list))
               size == Cardinality(tested)
           IN  /\ IsFiniteSet(tested) /\ size \in Nat
               /\ DOMAIN s = 1 .. size /\ Len(s) = size
               /\ s \in Seq({"diverged", "failed", "passed"})
               /\ \A sha \in tested : /\ RankIn(list, sha) \in 1 .. size
                                      /\ s[RankIn(list, sha)] = StatusIn(list, sha)
               /\ \A n \in 1 .. size : \E sha \in tested : RankIn(list, sha) = n
               /\ \A c, d \in tested :
                      FirstIn(list, c) < FirstIn(list, d) <=> RankIn(list, c) < RankIn(list, d)
  <1> DEFINE tested == TestedIn(list)
             h == BuildHistory(list)
             s == Statuses(h)
             size == Cardinality(tested)
             f == [sha \in tested |-> WindowAt(list, sha)]
             W == {f[sha] : sha \in tested}
  <1>1. IsFiniteSet(tested) /\ tested \subseteq CommitsOf(list) /\ tested \subseteq Nat
    <2>1. tested \in SUBSET CommitsOf(list)
      BY DEF TestedIn
    <2>2. IsFiniteSet(CommitsOf(list)) /\ CommitsOf(list) \subseteq Nat
      BY WindowsAreOrderly
    <2>3. QED
      BY <2>1, <2>2, FS_Subset
  <1>2. size \in Nat
    BY <1>1, FS_CardinalityType
  <1>3. \A sha \in CommitsOf(list) : StatusIn(list, sha) # "no_data" <=> sha \in tested
    <2>1. SUFFICES ASSUME NEW sha \in CommitsOf(list)
                   PROVE  StatusIn(list, sha) # "no_data" <=> sha \in tested
      OBVIOUS
    <2>2. /\ WindowObservations(WindowAt(list, sha)) = 0 <=> sha \notin tested
          /\ Diverged(WindowAt(list, sha)) => WindowObservations(WindowAt(list, sha)) # 0
      BY WindowCounts, WindowReports DEF TestedIn
    <2>3. QED
      BY <2>2 DEF StatusIn, Status
  <1>4. {w \in ToSet(h) : Status(w) # "no_data"} = W
    <2>1. ToSet(h) = {WindowAt(list, sha) : sha \in CommitsOf(list)}
      BY HistoryShape DEF WindowsOf
    <2>2. QED
      BY <1>1, <1>3, <2>1 DEF StatusIn
  <1>5. \A c, d \in tested : f[c] = f[d] => c = d
    BY <1>1, WindowsAreOrderly
  <1>6. Orderly(W)
    <2>1. W \in SUBSET WindowsOf(list)
      BY <1>1 DEF WindowsOf
    <2> HIDE DEF f, W
    <2>2. QED
      BY <2>1, WindowsAreOrderly, FS_Subset DEF Orderly
  <1>7. Cardinality(W) = size
    <2> DEFINE all == tested
    <2>1. IsFiniteSet(all) /\ DOMAIN f = all
      BY <1>1
    <2> HIDE DEF f
    <2>2. QED
      BY <1>5, <2>1, SameSize
  <1>8. \A c, d \in tested : Earlier(f[c], f[d]) <=> FirstIn(list, c) < FirstIn(list, d)
    <2>1. SUFFICES ASSUME NEW c \in tested, NEW d \in tested
                   PROVE  Earlier(f[c], f[d]) <=> FirstIn(list, c) < FirstIn(list, d)
      OBVIOUS
    <2>2. /\ f[c].at = FirstIn(list, c) /\ f[d].at = FirstIn(list, d)
          /\ f[c].sha = c /\ f[d].sha = d /\ c \in Nat
      BY <1>1, WindowsAreOrderly DEF FirstIn
    <2>3. FirstIn(list, c) \in Nat /\ (FirstIn(list, c) = FirstIn(list, d) => c = d)
      BY <1>1, FirstRunsDiffer
    <2>4. ~(c < c)
      BY <2>2
    <2> HIDE DEF f
    <2>5. QED
      BY <2>2, <2>3, <2>4 DEF Earlier
  <1>9. ASSUME NEW sha \in tested
        PROVE  Place(f[sha], W) = RankIn(list, sha)
    <2> DEFINE older == {d \in tested : FirstIn(list, d) < FirstIn(list, sha)}
               g == [d \in older |-> f[d]]
    <2>1. {v \in W : Earlier(v, f[sha])} = {g[d] : d \in older}
      BY <1>8
    <2>2. IsFiniteSet(older) /\ DOMAIN g = older
      BY <1>1, FS_Subset
    <2>3. \A c, d \in older : g[c] = g[d] => c = d
      BY <1>5
    <2>4. RankIn(list, sha) = Cardinality(older) + 1
      BY DEF RankIn
    <2> HIDE DEF g, older
    <2>5. Cardinality({g[d] : d \in older}) = Cardinality(older)
      BY <2>2, <2>3, SameSize
    <2>6. QED
      BY <2>1, <2>4, <2>5 DEF Place
  <1>10. Measured(h) = InOrder(W)
    BY <1>4 DEF Measured
  <1>11. \A w \in W : \E sha \in tested : w = f[sha]
    OBVIOUS
  <1>12. \A sha \in tested : f[sha] \in W /\ Status(f[sha]) = StatusIn(list, sha)
    BY DEF StatusIn
  <1> HIDE DEF f, W, h, tested
  <1>13. /\ InOrder(W) \in [1 .. size -> W]
         /\ \A w \in W : Place(w, W) \in 1 .. size /\ InOrder(W)[Place(w, W)] = w
         /\ \A n \in 1 .. size : Place(InOrder(W)[n], W) = n
    BY <1>6, <1>7, InOrderLists
  <1>14. s = [n \in 1 .. size |-> Status(InOrder(W)[n])]
    BY <1>10, <1>13 DEF Statuses
  <1>15. \A sha \in tested : /\ RankIn(list, sha) \in 1 .. size
                             /\ s[RankIn(list, sha)] = StatusIn(list, sha)
    BY <1>9, <1>12, <1>13, <1>14
  <1>16. ASSUME NEW n \in 1 .. size
         PROVE  \E sha \in tested : RankIn(list, sha) = n
    <2>1. InOrder(W)[n] \in W /\ Place(InOrder(W)[n], W) = n
      BY <1>13
    <2>2. PICK sha \in tested : InOrder(W)[n] = f[sha]
      BY <1>11, <2>1
    <2>3. QED
      BY <1>9, <2>1, <2>2
  <1>17. \A c, d \in tested :
            FirstIn(list, c) < FirstIn(list, d) <=> RankIn(list, c) < RankIn(list, d)
    <2>1. SUFFICES ASSUME NEW c \in tested, NEW d \in tested
                   PROVE  FirstIn(list, c) < FirstIn(list, d) <=> RankIn(list, c) < RankIn(list, d)
      OBVIOUS
    <2>2. Earlier(f[c], f[d]) <=> Place(f[c], W) < Place(f[d], W)
      BY <1>6, <1>12, PlacesFollowTime
    <2>3. QED
      BY <1>8, <1>9, <2>2
  <1>18. \A sha \in tested : StatusIn(list, sha) \in {"diverged", "failed", "passed"}
    BY <1>1, <1>3 DEF StatusIn, Status
  <1>19. \A n \in 1 .. size : s[n] \in {"diverged", "failed", "passed"}
    BY <1>15, <1>16, <1>18
  <1>20. DOMAIN s = 1 .. size
    BY <1>14
  <1> HIDE DEF s
  <1>21. s \in [1 .. size -> {"diverged", "failed", "passed"}]
    <2>1. s = [n \in 1 .. size |-> s[n]]
      BY <1>14
    <2>2. QED
      BY <1>19, <2>1
  <1>22. s \in Seq({"diverged", "failed", "passed"}) /\ Len(s) = size
    <2>1. s \in Seq({"diverged", "failed", "passed"})
      BY <1>2, <1>21, SeqDef
    <2>2. Len(s) \in Nat /\ DOMAIN s = 1 .. Len(s)
      BY <2>1, LenProperties
    <2>3. QED
      BY <1>2, <1>20, <2>1, <2>2
  <1>23. QED
    BY <1>1, <1>2, <1>15, <1>16, <1>17, <1>20, <1>22 DEF s, h, tested
-----------------------------------------------------------------------------
(* When the test is called a regression.                                   *)

\* The trailing count is the length of the longest suffix of one outcome.
LEMMA TrailingCountIs ==
    ASSUME NEW S, NEW s \in Seq(S), NEW e
    PROVE  LET k == TrailingCount(s, e)
           IN  /\ k \in 0 .. Len(s)
               /\ \A i \in Len(s) - k + 1 .. Len(s) : s[i] = e
               /\ \A m \in 0 .. Len(s) :
                     (\A i \in Len(s) - m + 1 .. Len(s) : s[i] = e) => m <= k
  <1> DEFINE K == {k \in 0 .. Len(s) : \A i \in Len(s) - k + 1 .. Len(s) : s[i] = e}
  <1>1. Len(s) \in Nat
    OBVIOUS
  <1>2. 0 \in K
    BY <1>1
  <1>3. K \in SUBSET Nat /\ \A k \in K : k <= Len(s)
    BY <1>1
  <1>4. TrailingCount(s, e) = Max(K)
    BY DEF TrailingCount
  <1>5. Max(K) \in K /\ \A k \in K : Max(K) >= k
    <2> HIDE DEF K
    <2>1. QED
      BY <1>1, <1>2, <1>3, GreatestIs
  <1>6. QED
    BY <1>3, <1>4, <1>5

\* It counts the places from which on there is only that outcome.
LEMMA StreakUpTo ==
    ASSUME NEW S, NEW s \in Seq(S), NEW m \in 0 .. Len(s), NEW e
    PROVE  TrailingCount(SubSeq(s, 1, m), e)
               = Cardinality({i \in 1 .. m : \A j \in i .. m : s[j] = e})
  <1> DEFINE t == SubSeq(s, 1, m)
             k == TrailingCount(t, e)
             streak == {i \in 1 .. m : \A j \in i .. m : s[j] = e}
  <1>1. m \in Nat /\ Len(s) \in Nat /\ m <= Len(s)
    OBVIOUS
  <1>2. t \in Seq(S) /\ Len(t) = m /\ \A i \in 1 .. m : t[i] = s[i]
    <2>1. \A i \in 1 .. m : s[i] \in S
      BY <1>1
    <2>2. /\ t \in Seq(S) /\ Len(t) = IF 1 <= m THEN m - 1 + 1 ELSE 0
          /\ \A i \in 1 .. m - 1 + 1 : t[i] = s[1 + i - 1]
      BY <1>1, <2>1, SubSeqProperties
    <2>3. m - 1 + 1 = m /\ \A i \in 1 .. m : 1 + i - 1 = i
      BY <1>1
    <2> HIDE DEF t
    <2>4. Len(t) = m
      BY <1>1, <2>2
    <2>5. QED
      BY <2>2, <2>3, <2>4
  <1> HIDE DEF t
  <1>3. /\ k \in 0 .. m
        /\ \A i \in m - k + 1 .. m : t[i] = e
        /\ \A n \in 0 .. m : (\A i \in m - n + 1 .. m : t[i] = e) => n <= k
    BY <1>2, TrailingCountIs
  <1> HIDE DEF k
  <1>4. streak = m - k + 1 .. m
    <2>1. ASSUME NEW i \in m - k + 1 .. m
          PROVE  i \in streak
      BY <1>1, <1>2, <1>3
    <2>2. ASSUME NEW i \in streak
          PROVE  i \in m - k + 1 .. m
      <3>1. /\ i \in 1 .. m /\ m - i + 1 \in 0 .. m /\ m - (m - i + 1) + 1 = i
            /\ \A j \in i .. m : t[j] = e
        BY <1>1, <1>2
      <3>2. m - i + 1 <= k
        BY <1>3, <3>1
      <3>3. QED
        BY <1>1, <1>3, <3>1, <3>2
    <2>3. QED
      BY <1>1, <1>3, <2>1, <2>2
  <1>5. Cardinality(m - k + 1 .. m) = k
    BY <1>1, <1>3, FS_Interval
  <1>6. QED
    BY <1>4, <1>5 DEF k, t

\* A passing streak that turned into a failing one: some place from which on
\* everything failed, after a streak of passes that ends just before it.
TurnsAt(s, k) ==
    /\ \A i \in k .. Len(s) : s[i] = "failed"
    /\ Len(s) - k + 1 >= FailStreak
    /\ Cardinality({i \in 1 .. k - 1 : \A j \in i .. k - 1 : s[j] = "passed"}) >= PassStreak

\* find_regression finds such a place whenever there is one, and only then.
LEMMA RegressionIsTurn ==
    ASSUME NEW S, NEW h, Statuses(h) \in Seq(S)
    PROVE  FindRegression(h) # {} <=> /\ "diverged" \notin ToSet(Statuses(h))
                                      /\ \E k \in 1 .. Len(Statuses(h)) : TurnsAt(Statuses(h), k)
  <1> DEFINE s == Statuses(h)
             failing == TrailingCount(s, "failed")
             passing == TrailingCount(SubSeq(s, 1, Len(s) - failing), "passed")
             size == Len(s)
  <1>1. FindRegression(h) # {} <=> /\ "diverged" \notin ToSet(s)
                                   /\ failing >= FailStreak /\ passing >= PassStreak
    BY DEF FindRegression
  <1>2. s \in Seq(S) /\ size \in Nat
    OBVIOUS
  <1> HIDE DEF s
  <1>3. /\ failing \in 0 .. size
        /\ \A i \in size - failing + 1 .. size : s[i] = "failed"
        /\ \A m \in 0 .. size : (\A i \in size - m + 1 .. size : s[i] = "failed") => m <= failing
    BY <1>2, TrailingCountIs
  <1>4. passing = Cardinality({i \in 1 .. size - failing :
                                  \A j \in i .. size - failing : s[j] = "passed"})
    <2>1. size - failing \in 0 .. size
      BY <1>2, <1>3
    <2> HIDE DEF failing
    <2>2. QED
      BY <1>2, <2>1, StreakUpTo
  <1>5. FailStreak \in Nat /\ FailStreak >= 1 /\ PassStreak \in Nat /\ PassStreak >= 1
    BY DetectConfigAssumption
  <1> HIDE DEF failing, passing, size
  <1>6. ASSUME failing >= FailStreak, passing >= PassStreak
        PROVE  \E k \in 1 .. size : TurnsAt(s, k)
    <2> DEFINE k == size - failing + 1
    <2>1. k \in 1 .. size /\ size - k + 1 = failing /\ k - 1 = size - failing
      BY <1>2, <1>3, <1>5, <1>6
    <2>2. \A i \in k .. size : s[i] = "failed"
      BY <1>3
    <2> HIDE DEF k
    <2>3. TurnsAt(s, k)
      BY <1>4, <1>6, <2>1, <2>2 DEF TurnsAt, size
    <2>4. QED
      BY <2>1, <2>3
  <1>7. ASSUME NEW k \in 1 .. size, TurnsAt(s, k)
        PROVE  failing >= FailStreak /\ passing >= PassStreak
    <2> DEFINE streak == {i \in 1 .. k - 1 : \A j \in i .. k - 1 : s[j] = "passed"}
    <2>1. /\ \A i \in k .. size : s[i] = "failed"
          /\ size - k + 1 >= FailStreak
          /\ Cardinality(streak) >= PassStreak
      BY <1>7 DEF TurnsAt, size
    <2>2. size - k + 1 \in 0 .. size /\ size - (size - k + 1) + 1 = k
      BY <1>2
    <2>3. size - k + 1 <= failing
      BY <1>3, <2>1, <2>2
    <2>4. streak # {}
      <3> HIDE DEF streak
      <3>1. SUFFICES ASSUME streak = {}
                     PROVE  FALSE
        OBVIOUS
      <3>2. Cardinality(streak) = 0
        BY <3>1, FS_EmptySet
      <3>3. QED
        BY <1>5, <2>1, <3>2
    <2>5. k - 1 \in 1 .. size /\ s[k - 1] = "passed"
      <3>1. PICK i \in 1 .. k - 1 : \A j \in i .. k - 1 : s[j] = "passed"
        BY <2>4
      <3>2. QED
        BY <1>2, <3>1
    <2>6. ~(size - k + 1 < failing)
      <3>1. SUFFICES ASSUME size - k + 1 < failing
                     PROVE  FALSE
        OBVIOUS
      <3>2. k - 1 \in size - failing + 1 .. size
        BY <1>2, <1>3, <2>5, <3>1
      <3>3. QED
        BY <1>3, <2>5, <3>2
    <2>7. failing = size - k + 1 /\ size - failing = k - 1
      BY <1>2, <1>3, <2>3, <2>6
    <2>8. QED
      BY <1>4, <2>1, <2>7
  <1>8. QED
    BY <1>1, <1>6, <1>7 DEF s, size

\* The commits of the properties in terms of the rows the detector is given.
LEMMA TestedIsIn ==
    ASSUME UpToDate
    PROVE  /\ Tested = TestedIn(Given)
           /\ \A sha \in Tested : /\ sha \in CommitsOf(Given)
                                  /\ FirstRun(sha) = FirstIn(Given, sha)
                                  /\ FirstRun(sha) \in Nat
                                  /\ StatusIn(Given, sha) = "diverged" <=> Disagrees(sha)
                                  /\ ~Disagrees(sha) =>
                                        /\ StatusIn(Given, sha) = "failed" <=> FailedAt(sha)
                                        /\ StatusIn(Given, sha) = "passed" <=> PassedAt(sha)
  <1>1. NewestFirst(Given)
    BY GivenIsNewest
  <1>2. \A sha \in CommitsOf(Given) :
           WindowObservations(Of(sha)) = 0 <=> ~\E r \in AtCommit(Given, sha) : r.outcome # "skip"
    BY <1>1, WindowCounts DEF Of
  <1>3. \A sha \in CommitsOf(Given) :
           /\ Diverged(Of(sha)) => WindowObservations(Of(sha)) # 0
           /\ HasPass(Of(sha)) \/ HasFailure(Of(sha)) <=> WindowObservations(Of(sha)) # 0
    BY <1>1, WindowReports DEF Of
  <1>4. \A sha \in CommitsOf(Given) :
           Status(Of(sha)) # "no_data" <=> WindowObservations(Of(sha)) # 0
    BY <1>3 DEF Status
  <1>5. Tested = TestedIn(Given)
    BY <1>2, <1>4, RawTerms DEF TestedIn
  <1>6. ASSUME NEW sha \in Tested
        PROVE  /\ sha \in CommitsOf(Given)
               /\ FirstRun(sha) = FirstIn(Given, sha)
               /\ FirstRun(sha) \in Nat
               /\ StatusIn(Given, sha) = "diverged" <=> Disagrees(sha)
               /\ ~Disagrees(sha) => /\ StatusIn(Given, sha) = "failed" <=> FailedAt(sha)
                                     /\ StatusIn(Given, sha) = "passed" <=> PassedAt(sha)
    <2>1. sha \in CommitsOf(Given) /\ WindowObservations(Of(sha)) # 0
      BY RawTerms
    <2>2. FirstRun(sha) = FirstIn(Given, sha) /\ FirstRun(sha) \in Nat
      BY <1>1, <2>1, RawTerms, FirstRunsDiffer DEF FirstIn, Of
    <2>3. StatusIn(Given, sha) = Status(Of(sha))
      BY DEF StatusIn, Of
    <2>4. /\ PassedAt(sha) <=> HasPass(Of(sha))
          /\ FailedAt(sha) <=> HasFailure(Of(sha))
          /\ Disagrees(sha) <=> Diverged(Of(sha))
      BY <2>1, RawTerms
    <2>5. HasPass(Of(sha)) \/ HasFailure(Of(sha))
      BY <1>3, <2>1
    <2>6. HasPass(Of(sha)) /\ HasFailure(Of(sha)) => Diverged(Of(sha))
      BY DEF Diverged
    <2>7. QED
      BY <2>1, <2>2, <2>3, <2>4, <2>5, <2>6 DEF Status
  <1>7. QED
    BY <1>5, <1>6

\* A transition of the raw rows is a turn of the statuses at the commit's rank.
LEMMA TransitionIsTurn ==
    ASSUME UpToDate, \A sha \in Tested : ~Disagrees(sha), NEW c \in Tested
    PROVE  TransitionAt(c) <=> TurnsAt(Statuses(Past), RankIn(Given, c))
  <1> DEFINE s == Statuses(Past)
             size == Len(s)
             k == RankIn(Given, c)
             rank == [d \in Tested |-> RankIn(Given, d)]
             from == {d \in Tested : FirstRun(d) >= FirstRun(c)}
             before == Tested \ from
             streak == {b \in before : \A d \in before :
                                          FirstRun(d) >= FirstRun(b) => PassedAt(d)}
  <1>1. NewestFirst(Given) /\ Past = BuildHistory(Given)
    BY GivenIsNewest DEF Past
  <1>2. Tested = TestedIn(Given)
    BY TestedIsIn
  <1>3. /\ IsFiniteSet(Tested) /\ size \in Nat /\ DOMAIN s = 1 .. size
        /\ \A d \in Tested : rank[d] \in 1 .. size /\ s[rank[d]] = StatusIn(Given, d)
        /\ \A n \in 1 .. size : \E d \in Tested : rank[d] = n
        /\ \A d, e \in Tested : FirstIn(Given, d) < FirstIn(Given, e) <=> rank[d] < rank[e]
    BY <1>1, <1>2, StatusesAreRanked
  <1>4. \A d, e \in Tested : FirstRun(d) >= FirstRun(e) <=> rank[d] >= rank[e]
    BY <1>3, TestedIsIn
  <1>5. \A d, e \in Tested : rank[d] = rank[e] => d = e
    <2>1. \A d, e \in Tested : FirstIn(Given, d) = FirstIn(Given, e) => d = e
      BY <1>1, TestedIsIn, FirstRunsDiffer
    <2>2. \A d \in Tested : FirstIn(Given, d) \in Nat
      BY TestedIsIn
    <2>3. QED
      BY <1>3, <2>1, <2>2
  <1>6. \A d \in Tested : /\ s[rank[d]] = "failed" <=> FailedAt(d)
                          /\ s[rank[d]] = "passed" <=> PassedAt(d)
    BY <1>3, TestedIsIn
  <1>7. k \in 1 .. size /\ k = rank[c]
    BY <1>3
  <1>8. /\ \A d \in Tested : d \in from <=> rank[d] \in k .. size
        /\ \A d \in Tested : d \in before <=> rank[d] \in 1 .. k - 1
    BY <1>3, <1>4, <1>7
  <1>9. from \in SUBSET Tested /\ streak \in SUBSET Tested /\ before \in SUBSET Tested
    OBVIOUS
  <1>10. DOMAIN rank = Tested
    OBVIOUS
  <1>11. TransitionAt(c) <=> /\ \A d \in from : FailedAt(d)
                             /\ Cardinality(from) >= FailStreak
                             /\ Cardinality(streak) >= PassStreak
    BY DEF TransitionAt
  <1>12. \A b \in Tested : b \in streak <=>
            b \in before /\ \A d \in before : FirstRun(d) >= FirstRun(b) => PassedAt(d)
    OBVIOUS
  <1> HIDE DEF s, size, k, rank, from, before, streak
  <1>13. (\A d \in from : FailedAt(d)) <=> \A i \in k .. size : s[i] = "failed"
    <2>1. ASSUME \A d \in from : FailedAt(d), NEW i \in k .. size
          PROVE  s[i] = "failed"
      <3>1. i \in 1 .. size
        BY <1>3, <1>7
      <3>2. PICK d \in Tested : rank[d] = i
        BY <1>3, <3>1
      <3>3. QED
        BY <1>6, <1>8, <2>1, <3>2
    <2>2. ASSUME \A i \in k .. size : s[i] = "failed", NEW d \in from
          PROVE  FailedAt(d)
      BY <1>6, <1>8, <1>9, <2>2
    <2>3. QED
      BY <2>1, <2>2
  <1>14. Cardinality(from) = size - k + 1
    <2> DEFINE f == [d \in from |-> rank[d]]
    <2>1. DOMAIN f = from /\ IsFiniteSet(from) /\ \A d, e \in from : f[d] = f[e] => d = e
      BY <1>3, <1>5, <1>9, FS_Subset
    <2>2. {f[d] : d \in from} = k .. size
      <3>1. \A i \in k .. size : \E d \in from : rank[d] = i
        <4>1. \A i \in k .. size : i \in 1 .. size
          BY <1>3, <1>7
        <4>2. QED
          BY <1>3, <1>8, <4>1
      <3>2. \A d \in from : rank[d] \in k .. size
        BY <1>8, <1>9
      <3>3. QED
        BY <3>1, <3>2
    <2> HIDE DEF f
    <2>3. Cardinality({f[d] : d \in from}) = Cardinality(from)
      BY <2>1, SameSize
    <2>4. Cardinality(k .. size) = size - k + 1
      BY <1>3, <1>7, FS_Interval
    <2>5. QED
      BY <2>2, <2>3, <2>4
  <1>15. Cardinality(streak)
             = Cardinality({i \in 1 .. k - 1 : \A j \in i .. k - 1 : s[j] = "passed"})
    <2> DEFINE f == [d \in streak |-> rank[d]]
               places == {i \in 1 .. k - 1 : \A j \in i .. k - 1 : s[j] = "passed"}
    <2>1. DOMAIN f = streak /\ IsFiniteSet(streak) /\ \A d, e \in streak : f[d] = f[e] => d = e
      BY <1>3, <1>5, <1>9, FS_Subset
    <2>2. ASSUME NEW b \in streak
          PROVE  rank[b] \in places
      <3>1. b \in Tested /\ rank[b] \in 1 .. k - 1
        BY <1>8, <1>9, <1>12
      <3>2. ASSUME NEW j \in rank[b] .. k - 1
            PROVE  s[j] = "passed"
        <4>1. j \in 1 .. k - 1 /\ j \in 1 .. size /\ j >= rank[b]
          BY <1>3, <1>7, <3>1
        <4>2. PICK d \in Tested : rank[d] = j
          BY <1>3, <4>1
        <4>3. d \in before /\ FirstRun(d) >= FirstRun(b)
          BY <1>4, <1>8, <3>1, <4>1, <4>2
        <4>4. QED
          BY <1>6, <1>12, <3>1, <4>2, <4>3
      <3>3. QED
        BY <3>1, <3>2
    <2>3. ASSUME NEW i \in places
          PROVE  \E b \in streak : rank[b] = i
      <3>1. i \in 1 .. k - 1 /\ i \in 1 .. size /\ \A j \in i .. k - 1 : s[j] = "passed"
        BY <1>3, <1>7
      <3>2. PICK b \in Tested : rank[b] = i
        BY <1>3, <3>1
      <3>3. ASSUME NEW d \in before, FirstRun(d) >= FirstRun(b)
            PROVE  PassedAt(d)
        <4>1. d \in Tested /\ rank[d] \in 1 .. k - 1 /\ rank[d] >= i
          BY <1>4, <1>8, <1>9, <3>2, <3>3
        <4>2. rank[d] \in i .. k - 1
          BY <3>1, <4>1
        <4>3. QED
          BY <1>6, <3>1, <4>1, <4>2
      <3>4. b \in streak
        BY <1>8, <1>12, <3>1, <3>2, <3>3
      <3>5. QED
        BY <3>2, <3>4
    <2>4. {f[d] : d \in streak} = places
      <3> HIDE DEF places
      <3>1. QED
        BY <2>2, <2>3
    <2> HIDE DEF f, places
    <2>5. Cardinality(streak) = Cardinality(places)
      BY <2>1, <2>4, SameSize
    <2>6. QED
      BY <2>5 DEF places
  <1>16. QED
    BY <1>11, <1>13, <1>14, <1>15 DEF TurnsAt, s, k, size

\* A regression is a single turn of the statuses, which the rows show.
LEMMA RegressionIsOneTransitionNow == UpToDate => RegressionIsOneTransition
  <1> SUFFICES ASSUME UpToDate
               PROVE  (detection.verdict = "regression") <=>
                          /\ \A sha \in Tested : ~Disagrees(sha)
                          /\ \E c \in Tested : TransitionAt(c)
    BY DEF RegressionIsOneTransition
  <1> DEFINE s == Statuses(Past)
  <1>1. NewestFirst(Given) /\ Past = BuildHistory(Given)
    BY GivenIsNewest DEF Past
  <1>2. Tested = TestedIn(Given)
    BY TestedIsIn
  <1>3. /\ s \in Seq({"diverged", "failed", "passed"}) /\ DOMAIN s = 1 .. Len(s)
        /\ \A d \in Tested : /\ RankIn(Given, d) \in 1 .. Len(s)
                             /\ s[RankIn(Given, d)] = StatusIn(Given, d)
        /\ \A n \in 1 .. Len(s) : \E d \in Tested : RankIn(Given, d) = n
    BY <1>1, <1>2, StatusesAreRanked
  <1>4. FindRegression(Past) # {} <=> /\ "diverged" \notin ToSet(s)
                                      /\ \E k \in 1 .. Len(s) : TurnsAt(s, k)
    BY <1>3, RegressionIsTurn
  <1>5. detection.verdict = "regression" <=> /\ ~\E w \in ToSet(Past) : Diverged(w)
                                             /\ FindRegression(Past) # {}
    BY DetectionSays, DecideSays, SignalsSay
  <1>6. (\E w \in ToSet(Past) : Diverged(w)) <=> \E sha \in Tested : Disagrees(sha)
    BY DivergenceIsRaw
  <1> HIDE DEF s
  <1>7. "diverged" \notin ToSet(s) <=> \A sha \in Tested : ~Disagrees(sha)
    <2>1. "diverged" \in ToSet(s) <=> \E n \in 1 .. Len(s) : s[n] = "diverged"
      BY <1>3 DEF ToSet
    <2>2. (\E n \in 1 .. Len(s) : s[n] = "diverged") <=>
              \E d \in Tested : StatusIn(Given, d) = "diverged"
      BY <1>3
    <2>3. QED
      BY <2>1, <2>2, TestedIsIn
  <1>8. ASSUME \A sha \in Tested : ~Disagrees(sha)
        PROVE  (\E k \in 1 .. Len(s) : TurnsAt(s, k)) <=> \E c \in Tested : TransitionAt(c)
    <2>1. \A c \in Tested : TransitionAt(c) <=> TurnsAt(s, RankIn(Given, c))
      BY <1>8, TransitionIsTurn DEF s
    <2>2. QED
      BY <1>3, <2>1
  <1>9. QED
    BY <1>4, <1>5, <1>6, <1>7, <1>8

\* In every history, the regression verdict is given exactly when no commit
\* disagrees with itself and one commit turned a passing streak into a failing
\* one (detector.py:88, find_regression), whatever the streaks configured.
THEOREM RegressionIsAlwaysOneTransition == Spec => []RegressionIsOneTransition
  BY DetectionIsCurrent, RegressionIsOneTransitionNow, PTL

-----------------------------------------------------------------------------
(* What one more execution changes.                                        *)

\* longer is list with one newer row.
OneNewer(list, row, longer) ==
    /\ NewestFirst(list) /\ NewestFirst(longer)
    /\ Len(longer) = Len(list) + 1
    /\ longer[1] = row
    /\ \A i \in 1 .. Len(list) : longer[i + 1] = list[i]

\* A row that is not the platform's fault joins the rows kept, as the latest.
LEMMA NewRow ==
    ASSUME NEW list, NEW row, NEW longer, OneNewer(list, row, longer), ~IsInfraFailure(row)
    PROVE  /\ RowsKept(longer) = RowsKept(list) \cup {row}
           /\ CommitsOf(longer) = CommitsOf(list) \cup {row.sha}
           /\ row \in Executions /\ (row.rerun => row.outcome = "pass")
           /\ \A r \in RowsKept(list) : r.at \in Nat /\ r.at < row.at
  <1>1. /\ DOMAIN list = 1 .. Len(list) /\ Len(list) \in Nat
        /\ DOMAIN longer = 1 .. Len(list) + 1
    BY PlacesAreNumbers DEF OneNewer
  <1>2. /\ \A i \in DOMAIN list : i + 1 \in DOMAIN longer /\ longer[i + 1] = list[i]
        /\ \A j \in DOMAIN longer : j = 1 \/ (j - 1 \in DOMAIN list /\ longer[j] = list[j - 1])
        /\ 1 \in DOMAIN longer /\ longer[1] = row
    <2>1. \A j \in 2 .. Len(list) + 1 : j - 1 \in 1 .. Len(list) /\ (j - 1) + 1 = j
      BY <1>1
    <2>2. \A j \in 2 .. Len(list) + 1 : longer[j] = list[j - 1]
      BY <2>1 DEF OneNewer
    <2>3. QED
      BY <1>1, <2>1, <2>2 DEF OneNewer
  <1>3. PlacesKept(longer) = {1} \cup {i + 1 : i \in PlacesKept(list)}
    <2>1. ASSUME NEW j \in PlacesKept(longer), j # 1
          PROVE  \E i \in PlacesKept(list) : j = i + 1
      <3>1. j - 1 \in PlacesKept(list)
        BY <1>2, <2>1 DEF PlacesKept
      <3>2. j \in Nat
        BY <1>1, <2>1 DEF PlacesKept
      <3>3. j = (j - 1) + 1
        BY <3>2
      <3>4. QED
        BY <3>1, <3>3
    <2>2. 1 \in PlacesKept(longer) /\ \A i \in PlacesKept(list) : i + 1 \in PlacesKept(longer)
      BY <1>2 DEF PlacesKept
    <2>3. QED
      BY <2>1, <2>2
  <1>4. \A i \in PlacesKept(list) : longer[i + 1] = list[i]
    BY <1>2 DEF PlacesKept
  <1>5. RowsKept(longer) = RowsKept(list) \cup {row}
    BY <1>2, <1>3, <1>4 DEF RowsKept
  <1>6. CommitsOf(longer) = CommitsOf(list) \cup {row.sha}
    BY <1>2, <1>3, <1>4 DEF CommitsOf
  <1>7. row \in Executions /\ (row.rerun => row.outcome = "pass")
    BY <1>2 DEF OneNewer, NewestFirst
  <1>8. ASSUME NEW i \in PlacesKept(list)
        PROVE  list[i].at \in Nat /\ list[i].at < row.at
    <2>1. i \in 1 .. Len(list) /\ i + 1 \in DOMAIN longer /\ 1 < i + 1 /\ longer[i + 1] = list[i]
      BY <1>1, <1>2 DEF PlacesKept
    <2>2. longer[1].at > longer[i + 1].at
      BY <1>2, <2>1 DEF OneNewer, NewestFirst
    <2>3. list[i].at \in Nat /\ row.at \in Nat
      BY <1>7, PlacesAreNumbers DEF OneNewer, Executions, PlacesKept
    <2>4. QED
      BY <1>2, <2>1, <2>2, <2>3
  <1>9. QED
    BY <1>5, <1>6, <1>7, <1>8 DEF RowsKept

\* A commit's window says the same of it as before, unless the new row is an
\* outcome of that commit.
LEMMA OldCommit ==
    ASSUME NEW list, NEW row, NEW longer, OneNewer(list, row, longer), ~IsInfraFailure(row),
           NEW sha \in CommitsOf(list), row.outcome = "skip" \/ row.sha # sha
    PROVE  LET v == WindowAt(list, sha)
               w == WindowAt(longer, sha)
           IN  /\ FirstIn(longer, sha) = FirstIn(list, sha)
               /\ StatusIn(longer, sha) = StatusIn(list, sha)
               /\ Diverged(w) <=> Diverged(v)
               /\ WindowObservations(w) >= 2 <=> WindowObservations(v) >= 2
               /\ sha \in TestedIn(longer) <=> sha \in TestedIn(list)
  <1> DEFINE v == WindowAt(list, sha)
             w == WindowAt(longer, sha)
             old == AtCommit(list, sha)
             new == AtCommit(longer, sha)
  <1>1. /\ RowsKept(longer) = RowsKept(list) \cup {row}
        /\ sha \in CommitsOf(longer)
        /\ row.rerun => row.outcome = "pass"
        /\ \A r \in RowsKept(list) : r.at \in Nat /\ r.at < row.at
        /\ row.at \in Nat
    BY NewRow DEF Executions
  <1>2. old \subseteq new /\ \A r \in new : r \in old \/ (r = row /\ row.outcome = "skip")
    BY <1>1 DEF AtCommit
  <1>3. NewestFirst(list) /\ NewestFirst(longer)
    BY DEF OneNewer
  <1>4. FirstIn(longer, sha) = FirstIn(list, sha)
    <2>1. /\ old # {}
          /\ \E r \in old : v.at = r.at
          /\ \A r \in old : v.at <= r.at
      BY <1>3, WindowSays
    <2>2. /\ \E r \in new : w.at = r.at
          /\ \A r \in new : w.at <= r.at
      BY <1>1, <1>3, WindowSays
    <2>3. \A r \in old : r.at \in Nat /\ r.at < row.at
      BY <1>1 DEF AtCommit
    <2> HIDE DEF v, w, old, new
    <2>4. v.at = w.at
      <3>1. PICK r \in old : v.at = r.at
        BY <2>1
      <3>2. PICK q \in new : w.at = q.at
        BY <2>2
      <3>3. q \in old
        <4>1. w.at <= r.at /\ r.at < row.at /\ r.at \in Nat
          BY <1>2, <2>2, <2>3, <3>1
        <4>2. q # row
          BY <1>1, <3>2, <4>1
        <4>3. QED
          BY <1>2, <3>2, <4>2
      <3>4. v.at <= w.at /\ w.at <= v.at /\ v.at \in Nat /\ w.at \in Nat
        BY <1>2, <2>1, <2>2, <2>3, <3>1, <3>2, <3>3
      <3>5. QED
        BY <3>4
    <2>5. QED
      BY <2>4 DEF FirstIn, v, w
  <1>5. {r \in new : r.outcome # "skip"} = {r \in old : r.outcome # "skip"}
    BY <1>2
  <1>6. /\ WindowObservations(w) = 0 <=> WindowObservations(v) = 0
        /\ WindowObservations(w) >= 2 <=> WindowObservations(v) >= 2
    <2>1. /\ WindowObservations(v) = 0 <=> {r \in old : r.outcome # "skip"} = {}
          /\ WindowObservations(v) >= 2 <=> \E r, s \in {x \in old : x.outcome # "skip"} : r # s
      BY <1>3, WindowCounts
    <2>2. /\ WindowObservations(w) = 0 <=> {r \in new : r.outcome # "skip"} = {}
          /\ WindowObservations(w) >= 2 <=> \E r, s \in {x \in new : x.outcome # "skip"} : r # s
      BY <1>1, <1>3, WindowCounts
    <2> HIDE DEF v, w, old, new
    <2>3. QED
      BY <1>5, <2>1, <2>2
  <1>7. /\ HasPass(w) <=> HasPass(v)
        /\ HasFailure(w) <=> HasFailure(v)
        /\ RerunObserved(w) <=> RerunObserved(v)
    <2>1. /\ HasPass(v) <=> \E r \in old : r.outcome = "pass"
          /\ HasFailure(v) <=> \E r \in old : r.outcome \in Failures
          /\ RerunObserved(v) <=> \E r \in old : r.rerun
      BY <1>3, WindowReports
    <2>2. /\ HasPass(w) <=> \E r \in new : r.outcome = "pass"
          /\ HasFailure(w) <=> \E r \in new : r.outcome \in Failures
          /\ RerunObserved(w) <=> \E r \in new : r.rerun
      BY <1>1, <1>3, WindowReports
    <2> HIDE DEF v, w, old, new
    <2>3. QED
      BY <1>1, <1>2, <2>1, <2>2 DEF Failures
  <1>8. sha \in TestedIn(longer) <=> sha \in TestedIn(list)
    BY <1>1, <1>5 DEF TestedIn
  <1> HIDE DEF v, w
  <1>9. Diverged(w) <=> Diverged(v)
    BY <1>7 DEF Diverged
  <1>10. Status(w) = Status(v)
    BY <1>6, <1>7, <1>9 DEF Status
  <1>11. QED
    BY <1>4, <1>6, <1>8, <1>9, <1>10 DEF StatusIn, v, w

\* What the detector derives from the windows of a list of rows.
LEMMA WindowsSay ==
    ASSUME NEW list, NewestFirst(list)
    PROVE  LET h == BuildHistory(list)
           IN  /\ (\E w \in ToSet(h) : Diverged(w)) <=>
                      \E sha \in CommitsOf(list) : Diverged(WindowAt(list, sha))
               /\ RetryDataAvailable(h) <=>
                      \E sha \in CommitsOf(list) : WindowObservations(WindowAt(list, sha)) >= 2
  <1>1. ToSet(BuildHistory(list)) = {WindowAt(list, sha) : sha \in CommitsOf(list)}
    BY HistoryShape DEF WindowsOf
  <1>2. QED
    BY <1>1 DEF RetryDataAvailable

\* A commit of which there is only one row has no retry to show, and neither
\* has one that was only skipped.
LEMMA NewCommit ==
    ASSUME NEW list, NEW row, NEW longer, OneNewer(list, row, longer), ~IsInfraFailure(row),
           row.sha \notin CommitsOf(list)
    PROVE  LET w == WindowAt(longer, row.sha)
           IN  /\ FirstIn(longer, row.sha) = row.at
               /\ WindowObservations(w) = 0 <=> row.outcome = "skip"
               /\ ~(WindowObservations(w) >= 2)
               /\ Diverged(w) <=> row.rerun
               /\ row.sha \in TestedIn(longer) <=> row.outcome # "skip"
               /\ row.outcome = "pass" /\ ~row.rerun => StatusIn(longer, row.sha) = "passed"
  <1> DEFINE w == WindowAt(longer, row.sha)
             here == AtCommit(longer, row.sha)
  <1>1. /\ RowsKept(longer) = RowsKept(list) \cup {row}
        /\ row.sha \in CommitsOf(longer)
    BY NewRow
  <1>2. \A r \in RowsKept(list) : r.sha # row.sha
    BY DEF RowsKept, CommitsOf
  <1>3. here = {row}
    BY <1>1, <1>2 DEF AtCommit
  <1>4. NewestFirst(longer)
    BY DEF OneNewer
  <1>5. \E r \in here : w.at = r.at
    BY <1>1, <1>4, WindowSays
  <1>6. /\ WindowObservations(w) = 0 <=> {r \in here : r.outcome # "skip"} = {}
        /\ WindowObservations(w) >= 2 <=> \E r, s \in {x \in here : x.outcome # "skip"} : r # s
    BY <1>1, <1>4, WindowCounts
  <1>7. /\ HasPass(w) <=> \E r \in here : r.outcome = "pass"
        /\ HasFailure(w) <=> \E r \in here : r.outcome \in Failures
        /\ RerunObserved(w) <=> \E r \in here : r.rerun
    BY <1>1, <1>4, WindowReports
  <1>8. row.sha \in TestedIn(longer) <=> row.outcome # "skip"
    BY <1>1, <1>3 DEF TestedIn
  <1> HIDE DEF w, here
  <1>9. Diverged(w) <=> row.rerun
    BY <1>3, <1>7 DEF Diverged, Failures
  <1>10. WindowObservations(w) = 0 <=> row.outcome = "skip"
    BY <1>3, <1>6
  <1>11. row.outcome = "pass" /\ ~row.rerun => Status(w) = "passed"
    BY <1>3, <1>7, <1>9, <1>10 DEF Status, Failures
  <1>12. ~(WindowObservations(w) >= 2) /\ w.at = row.at
    BY <1>3, <1>5, <1>6
  <1>13. QED
    BY <1>8, <1>9, <1>10, <1>11, <1>12 DEF FirstIn, StatusIn, w

\* A skipped execution leaves everything the verdict is made of as it was.
LEMMA SkipChangesNothing ==
    ASSUME NEW list, NEW row, NEW longer, OneNewer(list, row, longer), row.outcome = "skip"
    PROVE  LET h == BuildHistory(list)
               g == BuildHistory(longer)
           IN  /\ Statuses(g) = Statuses(h)
               /\ RetryDataAvailable(g) <=> RetryDataAvailable(h)
               /\ Observations(g) = Observations(h)
               /\ (\E w \in ToSet(g) : Diverged(w)) <=> \E w \in ToSet(h) : Diverged(w)
  <1> DEFINE h == BuildHistory(list)
             g == BuildHistory(longer)
             size == Cardinality(TestedIn(list))
  <1>1. ~IsInfraFailure(row)
    BY DEF IsInfraFailure
  <1>2. /\ RowsKept(longer) = RowsKept(list) \cup {row}
        /\ CommitsOf(longer) = CommitsOf(list) \cup {row.sha}
        /\ ~row.rerun
    BY <1>1, NewRow
  <1>3. NewestFirst(list) /\ NewestFirst(longer)
    BY DEF OneNewer
  <1>4. \A sha \in CommitsOf(list) :
           /\ FirstIn(longer, sha) = FirstIn(list, sha)
           /\ StatusIn(longer, sha) = StatusIn(list, sha)
           /\ Diverged(WindowAt(longer, sha)) <=> Diverged(WindowAt(list, sha))
           /\ WindowObservations(WindowAt(longer, sha)) >= 2 <=>
                  WindowObservations(WindowAt(list, sha)) >= 2
           /\ sha \in TestedIn(longer) <=> sha \in TestedIn(list)
    BY <1>1, OldCommit
  <1>5. row.sha \notin CommitsOf(list) =>
           /\ ~(WindowObservations(WindowAt(longer, row.sha)) >= 2)
           /\ ~Diverged(WindowAt(longer, row.sha))
           /\ row.sha \notin TestedIn(longer)
    BY <1>1, <1>2, NewCommit
  <1>6. TestedIn(longer) = TestedIn(list)
    <2>1. TestedIn(longer) \subseteq CommitsOf(longer) /\ TestedIn(list) \subseteq CommitsOf(list)
      BY DEF TestedIn
    <2>2. QED
      BY <1>2, <1>4, <1>5, <2>1
  <1>7. \A sha \in TestedIn(list) : /\ sha \in CommitsOf(list)
                                    /\ FirstIn(longer, sha) = FirstIn(list, sha)
                                    /\ StatusIn(longer, sha) = StatusIn(list, sha)
    BY <1>4 DEF TestedIn
  <1>8. \A sha \in TestedIn(list) : RankIn(longer, sha) = RankIn(list, sha)
    <2>1. SUFFICES ASSUME NEW sha \in TestedIn(list)
                   PROVE  RankIn(longer, sha) = RankIn(list, sha)
      OBVIOUS
    <2>2. {d \in TestedIn(longer) : FirstIn(longer, d) < FirstIn(longer, sha)}
              = {d \in TestedIn(list) : FirstIn(list, d) < FirstIn(list, sha)}
      BY <1>6, <1>7
    <2>3. QED
      BY <2>2 DEF RankIn
  <1>9. Statuses(g) = Statuses(h)
    <2> DEFINE s == Statuses(h)
               t == Statuses(g)
    <2>1. /\ s \in Seq({"diverged", "failed", "passed"}) /\ DOMAIN s = 1 .. size
          /\ \A sha \in TestedIn(list) : s[RankIn(list, sha)] = StatusIn(list, sha)
          /\ \A n \in 1 .. size : \E sha \in TestedIn(list) : RankIn(list, sha) = n
      BY <1>3, StatusesAreRanked
    <2>2. /\ t \in Seq({"diverged", "failed", "passed"}) /\ DOMAIN t = 1 .. size
          /\ \A sha \in TestedIn(list) : t[RankIn(longer, sha)] = StatusIn(longer, sha)
      BY <1>3, <1>6, StatusesAreRanked
    <2> HIDE DEF s, t, size
    <2>3. \A n \in 1 .. size : s[n] = t[n]
      BY <1>7, <1>8, <2>1, <2>2
    <2>4. s = [n \in 1 .. size |-> s[n]] /\ t = [n \in 1 .. size |-> t[n]]
      BY <2>1, <2>2
    <2>5. s = t
      BY <2>3, <2>4
    <2>6. QED
      BY <2>5 DEF s, t
  <1>10. RetryDataAvailable(g) <=> RetryDataAvailable(h)
    BY <1>2, <1>3, <1>4, <1>5, WindowsSay
  <1>11. (\E w \in ToSet(g) : Diverged(w)) <=> \E w \in ToSet(h) : Diverged(w)
    BY <1>2, <1>3, <1>4, <1>5, WindowsSay
  <1>12. Observations(g) = Observations(h)
    <2>1. {r \in RowsKept(longer) : r.outcome # "skip"} = {r \in RowsKept(list) : r.outcome # "skip"}
      BY <1>2
    <2>2. QED
      BY <1>3, <2>1, HistoryCounts
  <1>13. QED
    BY <1>9, <1>10, <1>11, <1>12

\* What the detector says of any list of rows.
LEMMA DetectSays ==
    ASSUME NEW list, NEW known, InWindow(list) = list
    PROVE  LET h == BuildHistory(list)
               d == Detect(list, known)
           IN  /\ d.rate = FlakeRate(h)
               /\ d.observations = Observations(h)
               /\ d.verdict = "regression" <=> /\ ~\E w \in ToSet(h) : Diverged(w)
                                               /\ FindRegression(h) # {}
  <1> DEFINE h == BuildHistory(list)
             decision == Decide(h, Signals(h, known))
  <1>1. /\ Detect(list, known).rate = FlakeRate(h)
        /\ Detect(list, known).observations = Observations(h)
        /\ Detect(list, known).verdict = decision[1]
    BY DEF Detect, DetectHistory
  <1>2. decision[1] = "regression" <=>
            "same_sha_divergence" \notin Signals(h, known) /\ FindRegression(h) # {}
    BY DecideSays
  <1>3. "same_sha_divergence" \in Signals(h, known) <=> \E w \in ToSet(h) : Diverged(w)
    BY SignalsSay
  <1>4. QED
    BY <1>1, <1>2, <1>3

\* The rows of a state in terms of the lists that the lemmas are about.
Lists ==
    /\ rows \in Seq(Executions) /\ Len(rows) \in Nat
    /\ NewestFirst(rows)
    /\ Len(rows) <= WindowExecutions => InWindow(rows) = rows
    /\ detection = Detect(rows, unrelated)

\* Rows that are up to date can be listed, and so can their newest.
LEMMA ListsNow == UpToDate => Lists
  <1> SUFFICES ASSUME UpToDate
               PROVE  Lists
    OBVIOUS
  <1>1. rows \in Seq(Executions) /\ detection = Detect(rows, unrelated)
    BY DEF UpToDate
  <1>2. Len(rows) \in Nat
    BY <1>1
  <1>3. NewestFirst(rows) /\ (Len(rows) <= WindowExecutions => Given = rows)
    BY GivenIsNewest
  <1>4. QED
    BY <1>1, <1>2, <1>3 DEF Given, Lists

\* So can those of the next state.
LEMMA ListsNext == UpToDate' => Lists'
  BY ListsNow, PTL

\* A step that pushes no row out of the window adds one row to the lists.
LEMMA StepAddsOneRow ==
    ASSUME UpToDate, UpToDate', Next, NothingEvicted
    PROVE  /\ OneNewer(rows, rows'[1], rows')
           /\ InWindow(rows) = rows /\ InWindow(rows') = rows'
           /\ unrelated' = unrelated
           /\ detection = Detect(rows, unrelated) /\ detection' = Detect(rows', unrelated)
  <1>1. PICK kind \in Kinds, sha \in Shas, branch \in Branches, attempt \in Attempts :
            Ingest(kind, sha, branch, attempt)
    BY DEF Next
  <1> DEFINE row == Row(kind, sha, branch, attempt)
  <1>2. rows' = <<row>> \o rows /\ unrelated' = unrelated
    BY <1>1 DEF Ingest
  <1>3. rows \in Seq(Executions) /\ Len(rows) \in Nat /\ NewestFirst(rows)
    BY ListsNow DEF Lists
  <1> HIDE DEF row
  <1>4. /\ Len(rows') = Len(rows) + 1 /\ rows'[1] = row
        /\ \A i \in 1 .. Len(rows) : rows'[i + 1] = rows[i]
    <2>1. <<row>> \in Seq({row} \cup Executions) /\ Len(<<row>>) = 1 /\ <<row>>[1] = row
      OBVIOUS
    <2>2. rows \in Seq({row} \cup Executions)
      BY <1>3
    <2>3. /\ Len(rows') = 1 + Len(rows)
          /\ \A i \in 1 .. 1 + Len(rows) : rows'[i] = IF i <= 1 THEN <<row>>[i] ELSE rows[i - 1]
      BY <1>2, <2>1, <2>2, ConcatProperties
    <2>4. \A i \in 1 .. Len(rows) : /\ i + 1 \in 1 .. 1 + Len(rows) /\ ~(i + 1 <= 1)
                                    /\ (i + 1) - 1 = i
      BY <1>3
    <2>5. QED
      BY <1>3, <2>1, <2>3, <2>4
  <1>5. Len(rows') <= WindowExecutions /\ Len(rows) <= WindowExecutions
    BY <1>3, <1>4, DetectConfigAssumption DEF NothingEvicted
  <1>6. QED
    BY <1>2, <1>3, <1>4, <1>5, ListsNow, ListsNext DEF Lists, OneNewer

\* In every history, a skipped execution changes neither rate nor count of
\* observations and neither hides nor makes a regression
\* (test_detect_detector.py:137), as long as it pushes no row out of the window.
THEOREM SkipsNeverCarryEvidence == Spec => SkipsCarryNoEvidence
  <1> DEFINE SkipStep ==
        /\ rows' # rows
        /\ NothingEvicted
        /\ rows'[1].outcome = "skip"
        => LET old == detection
               new == detection'
           IN  /\ new.rate = old.rate
               /\ new.observations = old.observations
               /\ (new.verdict = "regression") <=> (old.verdict = "regression")
  <1>1. UpToDate /\ UpToDate' /\ [Next]_vars => [SkipStep]_vars
    <2> SUFFICES ASSUME UpToDate, UpToDate', Next, rows' # rows, NothingEvicted,
                        rows'[1].outcome = "skip"
                 PROVE  /\ detection'.rate = detection.rate
                        /\ detection'.observations = detection.observations
                        /\ (detection'.verdict = "regression") <=> (detection.verdict = "regression")
      OBVIOUS
    <2> DEFINE h == BuildHistory(rows)
               g == BuildHistory(rows')
    <2>1. /\ OneNewer(rows, rows'[1], rows')
          /\ InWindow(rows) = rows /\ InWindow(rows') = rows'
          /\ detection = Detect(rows, unrelated) /\ detection' = Detect(rows', unrelated)
      BY StepAddsOneRow
    <2>2. /\ Statuses(g) = Statuses(h)
          /\ RetryDataAvailable(g) <=> RetryDataAvailable(h)
          /\ Observations(g) = Observations(h)
          /\ (\E w \in ToSet(g) : Diverged(w)) <=> \E w \in ToSet(h) : Diverged(w)
      BY <2>1, SkipChangesNothing
    <2>3. /\ detection.rate = FlakeRate(h)
          /\ detection.observations = Observations(h)
          /\ detection.verdict = "regression" <=> /\ ~\E w \in ToSet(h) : Diverged(w)
                                                  /\ FindRegression(h) # {}
      BY <2>1, DetectSays
    <2>4. /\ detection'.rate = FlakeRate(g)
          /\ detection'.observations = Observations(g)
          /\ detection'.verdict = "regression" <=> /\ ~\E w \in ToSet(g) : Diverged(w)
                                                   /\ FindRegression(g) # {}
      BY <2>1, DetectSays
    <2> HIDE DEF h, g
    <2>5. FlakeRate(g) = FlakeRate(h)
      BY <2>2 DEF FlakeRate, DivergenceRate, IntermittencyRate
    <2>6. FindRegression(g) # {} <=> FindRegression(h) # {}
      BY <2>2 DEF FindRegression
    <2>7. QED
      BY <2>2, <2>3, <2>4, <2>5, <2>6
  <1>2. QED
    BY <1>1, DetectionIsCurrent, PTL DEF Spec, SkipsCarryNoEvidence

-----------------------------------------------------------------------------
(* The weighted average, one value at a time.                              *)

\* f holds the averages of the first n values, for n up to k.
Averages(values, k, f) ==
    f = [n \in 0 .. k |-> IF n = 0 THEN Fraction(0, 1)
                          ELSE IF n = 1 THEN Fraction(values[1], 1)
                          ELSE Smooth(f[n - 1], values[n])]

\* A function on the first n numbers is a sequence of length n.
LEMMA ListLength ==
    ASSUME NEW S, NEW n \in Nat, NEW f \in [1 .. n -> S]
    PROVE  f \in Seq(S) /\ Len(f) = n
  <1>1. f \in Seq(S)
    BY SeqDef
  <1>2. Len(f) \in Nat /\ DOMAIN f = 1 .. Len(f) /\ DOMAIN f = 1 .. n
    BY <1>1, LenProperties
  <1>3. QED
    BY <1>1, <1>2

\* There are such averages, since each is computed from the one before.
LEMMA AveragesExist ==
    ASSUME NEW values, NEW k \in Nat
    PROVE  \E f : Averages(values, k, f)
  <1> DEFINE Missing == {m \in Nat : ~\E f : Averages(values, m, f)}
  <1> SUFFICES Missing = {}
    OBVIOUS
  <1> SUFFICES ASSUME Missing # {}
               PROVE  FALSE
    OBVIOUS
  <1> DEFINE least == Min(Missing)
  <1>1. Missing \in SUBSET Nat
    OBVIOUS
  <1>2. least \in Missing /\ \A m \in Missing : least <= m
    <2> HIDE DEF Missing
    <2>1. QED
      BY <1>1, LeastIs
  <1>3. least \in Nat /\ ~\E f : Averages(values, least, f)
    BY <1>2
  <1> HIDE DEF least
  <1>4. CASE least = 0
    <2> DEFINE f == [n \in 0 .. 0 |-> Fraction(0, 1)]
    <2>1. Averages(values, 0, f)
      BY DEF Averages
    <2>2. QED
      BY <1>3, <1>4, <2>1
  <1>5. CASE least # 0
    <2>1. least - 1 \in Nat /\ ~(least <= least - 1)
      BY <1>3, <1>5
    <2>2. least - 1 \notin Missing
      BY <1>2, <2>1
    <2>3. PICK g : Averages(values, least - 1, g)
      BY <2>1, <2>2
    <2> DEFINE last == IF least = 1 THEN Fraction(values[1], 1)
                       ELSE Smooth(g[least - 1], values[least])
               f == [n \in 0 .. least |-> IF n < least THEN g[n] ELSE last]
               F == [n \in 0 .. least |-> IF n = 0 THEN Fraction(0, 1)
                                          ELSE IF n = 1 THEN Fraction(values[1], 1)
                                          ELSE Smooth(f[n - 1], values[n])]
    <2>4. ASSUME NEW n \in 0 .. least
          PROVE  f[n] = F[n]
      <3>1. CASE n = least
        <4>1. n # 1 => n - 1 \in 0 .. least /\ n - 1 < least
          BY <1>3, <1>5, <3>1
        <4>2. n # 1 => f[n - 1] = g[least - 1]
          BY <3>1, <4>1
        <4>3. f[n] = last
          BY <1>3, <3>1
        <4>4. QED
          BY <1>5, <3>1, <4>2, <4>3
      <3>2. CASE n # least
        <4>1. n < least /\ n \in 0 .. least - 1 /\ f[n] = g[n]
          BY <1>3, <3>2
        <4>2. g[n] = IF n = 0 THEN Fraction(0, 1)
                     ELSE IF n = 1 THEN Fraction(values[1], 1)
                     ELSE Smooth(g[n - 1], values[n])
          BY <2>3, <4>1, Zenon DEF Averages
        <4>3. n # 0 => f[n - 1] = g[n - 1]
          BY <1>3, <4>1
        <4>4. QED
          BY <4>1, <4>2, <4>3
      <3>3. QED
        BY <3>1, <3>2
    <2>5. f = F
      <3>1. DOMAIN f = 0 .. least /\ DOMAIN F = 0 .. least
        OBVIOUS
      <3>2. f = [n \in 0 .. least |-> f[n]] /\ F = [n \in 0 .. least |-> F[n]]
        OBVIOUS
      <3> HIDE DEF f, F
      <3>3. QED
        BY <2>4, <3>2
    <2>6. Averages(values, least, f)
      BY <2>5 DEF Averages
    <2>7. QED
      BY <1>3, <2>6
  <1>6. QED
    BY <1>4, <1>5

Agree(values, longer, k) == \A i \in 1 .. k : longer[i] = values[i]

\* The averages of the first values do not depend on the later ones.
LEMMA AveragesAgree ==
    ASSUME NEW values, NEW longer, NEW k \in Nat, NEW m \in Nat, k <= m,
           Agree(values, longer, k),
           NEW f, Averages(values, k, f), NEW g, Averages(longer, m, g)
    PROVE  \A n \in 0 .. k : f[n] = g[n]
  <1> DEFINE Bad == {n \in 0 .. k : f[n] # g[n]}
  <1> SUFFICES ASSUME Bad # {}
               PROVE  FALSE
    OBVIOUS
  <1> DEFINE least == Min(Bad)
  <1>1. least \in Bad /\ \A n \in Bad : least <= n
    <2>1. Bad \in SUBSET Nat
      OBVIOUS
    <2> HIDE DEF Bad
    <2>2. QED
      BY <2>1, LeastIs
  <1>2. least \in 0 .. k /\ f[least] # g[least]
    BY <1>1
  <1> HIDE DEF least
  <1>3. f[least] = IF least = 0 THEN Fraction(0, 1)
                   ELSE IF least = 1 THEN Fraction(values[1], 1)
                   ELSE Smooth(f[least - 1], values[least])
    BY <1>2, Zenon DEF Averages
  <1>4. g[least] = IF least = 0 THEN Fraction(0, 1)
                   ELSE IF least = 1 THEN Fraction(longer[1], 1)
                   ELSE Smooth(g[least - 1], longer[least])
    <2>1. least \in 0 .. m
      BY <1>2
    <2>2. QED
      BY <2>1, Zenon DEF Averages
  <1>5. least # 0 /\ least \in 1 .. k /\ longer[least] = values[least]
    BY <1>2, <1>3, <1>4 DEF Agree
  <1>6. least # 1
    BY <1>2, <1>3, <1>4, <1>5
  <1>7. least - 1 \in 0 .. k /\ ~(least <= least - 1)
    BY <1>2, <1>5
  <1>8. f[least - 1] = g[least - 1]
    BY <1>1, <1>7
  <1>9. QED
    BY <1>2, <1>3, <1>4, <1>5, <1>6, <1>8

\* Ewma is the last of the averages.
LEMMA EwmaIsAverage ==
    ASSUME NEW values, Len(values) \in Nat
    PROVE  \E f : Averages(values, Len(values), f) /\ Ewma(values) = f[Len(values)]
  <1> DEFINE Upto[n \in 0 .. Len(values)] ==
                IF n = 0 THEN Fraction(0, 1)
                ELSE IF n = 1 THEN Fraction(values[1], 1)
                ELSE Smooth(Upto[n - 1], values[n])
  <1>1. Ewma(values) = Upto[Len(values)]
    BY DEF Ewma
  <1>2. \E f : Averages(values, Len(values), f)
    BY AveragesExist
  <1>3. Averages(values, Len(values), Upto)
    BY <1>2 DEF Averages
  <1>4. QED
    BY <1>1, <1>3

\* One more value is smoothed into the average of those before it.
LEMMA EwmaAppend ==
    ASSUME NEW values, NEW longer, Len(values) \in Nat, Len(longer) = Len(values) + 1,
           Agree(values, longer, Len(values))
    PROVE  /\ Len(values) = 0 => Ewma(longer) = Fraction(longer[1], 1)
           /\ Len(values) # 0 => Ewma(longer) = Smooth(Ewma(values), longer[Len(longer)])
  <1> DEFINE k == Len(values)
             m == Len(longer)
  <1>1. k \in Nat /\ m \in Nat /\ m = k + 1 /\ Agree(values, longer, k)
    OBVIOUS
  <1>2. PICK f : Averages(values, k, f) /\ Ewma(values) = f[k]
    BY <1>1, EwmaIsAverage
  <1>3. PICK g : Averages(longer, m, g) /\ Ewma(longer) = g[m]
    BY <1>1, EwmaIsAverage
  <1> HIDE DEF k, m
  <1>4. k <= m /\ k \in 0 .. k /\ m \in 0 .. m
    BY <1>1
  <1>5. f[k] = g[k]
    <2>1. \A n \in 0 .. k : f[n] = g[n]
      BY <1>1, <1>2, <1>3, <1>4, AveragesAgree
    <2>2. QED
      BY <1>4, <2>1
  <1>6. g[m] = IF m = 0 THEN Fraction(0, 1)
               ELSE IF m = 1 THEN Fraction(longer[1], 1)
               ELSE Smooth(g[m - 1], longer[m])
    BY <1>3, <1>4, Zenon DEF Averages
  <1>7. m - 1 = k /\ m # 0 /\ (m = 1 <=> k = 0)
    BY <1>1
  <1>8. QED
    BY <1>2, <1>3, <1>5, <1>6, <1>7 DEF k, m

\* Products of natural numbers are natural, and positive if both factors are.
LEMMA ProductsOfNats ==
    ASSUME NEW a \in Nat, NEW b \in Nat
    PROVE  /\ a * b \in Nat
           /\ a # 0 /\ b # 0 => a * b # 0
  OBVIOUS

\* A rate is a fraction of natural numbers.
LEMMA EwmaIsRate ==
    ASSUME NEW values, Len(values) \in Nat, \A i \in 1 .. Len(values) : values[i] \in {0, 1}
    PROVE  Ewma(values).n \in Nat /\ Ewma(values).d \in Nat \ {0}
  <1> DEFINE k == Len(values)
  <1>1. PICK f : Averages(values, k, f) /\ Ewma(values) = f[k]
    BY EwmaIsAverage
  <1> DEFINE Good(x) == x.n \in Nat /\ x.d \in Nat \ {0}
             Bad == {n \in 0 .. k : ~Good(f[n])}
             least == Min(Bad)
  <1>2. k \in Nat
    OBVIOUS
  <1>3. Bad = {}
    <2> SUFFICES ASSUME Bad # {}
                 PROVE  FALSE
      OBVIOUS
    <2>1. least \in Bad /\ \A n \in Bad : least <= n
      <3>1. Bad \in SUBSET Nat
        OBVIOUS
      <3> HIDE DEF Bad
      <3>2. QED
        BY <3>1, LeastIs
    <2>2. least \in 0 .. k /\ ~Good(f[least])
      BY <2>1
    <2> HIDE DEF least
    <2>3. f[least] = IF least = 0 THEN Fraction(0, 1)
                     ELSE IF least = 1 THEN Fraction(values[1], 1)
                     ELSE Smooth(f[least - 1], values[least])
      BY <1>1, <2>2, Zenon DEF Averages
    <2>4. CASE least = 0
      BY <2>2, <2>3, <2>4 DEF Fraction
    <2>5. CASE least = 1
      <3>1. values[1] \in {0, 1} /\ f[least] = Fraction(values[1], 1)
        BY <2>2, <2>3, <2>5
      <3>2. QED
        BY <2>2, <3>1 DEF Fraction
    <2>6. CASE least \notin {0, 1}
      <3>1. least - 1 \in 0 .. k /\ ~(least <= least - 1) /\ least \in 1 .. k
        BY <1>2, <2>2, <2>6
      <3>2. Good(f[least - 1])
        BY <2>1, <3>1
      <3>3. f[least] = Smooth(f[least - 1], values[least]) /\ values[least] \in Nat
        BY <2>3, <2>6, <3>1
      <3> DEFINE past == f[least - 1]
                 v == values[least]
      <3>4. past.n \in Nat /\ past.d \in Nat /\ past.d # 0 /\ v \in Nat
        BY <3>2, <3>3
      <3>5. /\ f[least].n = AlphaNum * v * past.d + (AlphaDen - AlphaNum) * past.n
            /\ f[least].d = AlphaDen * past.d
        BY <3>3 DEF Smooth, Fraction
      <3> HIDE DEF past, v
      <3>6. AlphaNum \in Nat /\ AlphaDen - AlphaNum \in Nat /\ AlphaDen \in Nat /\ AlphaDen # 0
        BY DetectConfigAssumption
      <3>7. AlphaNum * v \in Nat /\ (AlphaDen - AlphaNum) * past.n \in Nat
        BY <3>4, <3>6, ProductsOfNats
      <3>8. AlphaNum * v * past.d \in Nat
        BY <3>4, <3>7, ProductsOfNats
      <3>9. AlphaDen * past.d \in Nat /\ AlphaDen * past.d # 0
        BY <3>4, <3>6, ProductsOfNats
      <3>10. Good(f[least])
        BY <3>5, <3>7, <3>8, <3>9
      <3>11. QED
        BY <2>2, <3>10
    <2>7. QED
      BY <2>4, <2>5, <2>6
  <1>4. k \in 0 .. k
    BY <1>2
  <1>5. QED
    BY <1>1, <1>3, <1>4

\* Smoothing a zero into a rate never raises it.
LEMMA ZeroNeverRaises ==
    ASSUME NEW rate, rate.n \in Nat, rate.d \in Nat \ {0}
    PROVE  LET new == Smooth(rate, 0)
           IN  new.n * rate.d <= rate.n * new.d
  <1> DEFINE n == rate.n
             d == rate.d
             keep == AlphaDen - AlphaNum
  <1>1. AlphaNum \in Nat /\ AlphaDen \in Nat /\ keep \in Nat /\ keep <= AlphaDen
    BY DetectConfigAssumption
  <1>2. n \in Nat /\ d \in Nat
    OBVIOUS
  <1>3. Smooth(rate, 0).n = AlphaNum * 0 * d + keep * n /\ Smooth(rate, 0).d = AlphaDen * d
    BY DEF Smooth, Fraction
  <1> HIDE DEF n, d, keep
  <1>4. AlphaNum * 0 * d = 0
    BY <1>1, <1>2
  <1>5. keep * n \in Nat
    BY <1>1, <1>2, ProductsOfNats
  <1>6. Smooth(rate, 0).n = keep * n
    BY <1>3, <1>4, <1>5
  <1>7. (keep * n) * d = keep * (n * d) /\ n * (AlphaDen * d) = AlphaDen * (n * d)
    BY <1>1, <1>2
  <1>8. \A x \in Nat : keep * x <= AlphaDen * x
    BY <1>1
  <1>9. n * d \in Nat
    BY <1>2, ProductsOfNats
  <1>10. QED
    BY <1>3, <1>6, <1>7, <1>8, <1>9 DEF n, d

-----------------------------------------------------------------------------
(* A fixed test recovers.                                                  *)

\* The first execution of a new commit, a plain pass, adds one last status.
LEMMA CleanCommitAddsStatus ==
    ASSUME NEW list, NEW row, NEW longer, OneNewer(list, row, longer),
           row.outcome = "pass", ~row.rerun, row.sha \notin CommitsOf(list)
    PROVE  LET h == BuildHistory(list)
               g == BuildHistory(longer)
               s == Statuses(h)
               t == Statuses(g)
           IN  /\ RetryDataAvailable(g) <=> RetryDataAvailable(h)
               /\ Len(s) \in Nat /\ DOMAIN s = 1 .. Len(s)
               /\ DOMAIN t = 1 .. Len(s) + 1 /\ Len(t) = Len(s) + 1
               /\ \A n \in 1 .. Len(s) : t[n] = s[n]
               /\ t[Len(s) + 1] = "passed"
  <1> DEFINE h == BuildHistory(list)
             g == BuildHistory(longer)
             s == Statuses(h)
             t == Statuses(g)
             size == Cardinality(TestedIn(list))
  <1>1. ~IsInfraFailure(row)
    BY DEF IsInfraFailure
  <1>2. /\ RowsKept(longer) = RowsKept(list) \cup {row}
        /\ CommitsOf(longer) = CommitsOf(list) \cup {row.sha}
        /\ row.at \in Nat
        /\ \A r \in RowsKept(list) : r.at \in Nat /\ r.at < row.at
    BY <1>1, NewRow DEF Executions
  <1>3. NewestFirst(list) /\ NewestFirst(longer)
    BY DEF OneNewer
  <1>4. \A sha \in CommitsOf(list) :
           /\ FirstIn(longer, sha) = FirstIn(list, sha)
           /\ StatusIn(longer, sha) = StatusIn(list, sha)
           /\ WindowObservations(WindowAt(longer, sha)) >= 2 <=>
                  WindowObservations(WindowAt(list, sha)) >= 2
           /\ sha \in TestedIn(longer) <=> sha \in TestedIn(list)
    BY <1>1, OldCommit
  <1>5. /\ ~(WindowObservations(WindowAt(longer, row.sha)) >= 2)
        /\ row.sha \in TestedIn(longer)
        /\ FirstIn(longer, row.sha) = row.at
        /\ StatusIn(longer, row.sha) = "passed"
    BY <1>1, NewCommit
  <1>6. RetryDataAvailable(g) <=> RetryDataAvailable(h)
    BY <1>2, <1>3, <1>4, <1>5, WindowsSay
  <1>7. TestedIn(longer) = TestedIn(list) \cup {row.sha} /\ row.sha \notin TestedIn(list)
    <2>1. TestedIn(longer) \subseteq CommitsOf(longer) /\ TestedIn(list) \subseteq CommitsOf(list)
      BY DEF TestedIn
    <2>2. QED
      BY <1>2, <1>4, <1>5, <2>1
  <1>8. \A sha \in TestedIn(list) : /\ FirstIn(longer, sha) = FirstIn(list, sha)
                                    /\ StatusIn(longer, sha) = StatusIn(list, sha)
                                    /\ FirstIn(list, sha) \in Nat
                                    /\ FirstIn(list, sha) < row.at
    <2>1. SUFFICES ASSUME NEW sha \in TestedIn(list)
                   PROVE  FirstIn(list, sha) \in Nat /\ FirstIn(list, sha) < row.at
      BY <1>4 DEF TestedIn
    <2>2. sha \in CommitsOf(list)
      BY DEF TestedIn
    <2>3. PICK r \in RowsKept(list) : FirstIn(list, sha) = r.at
      BY <1>3, <2>2, FirstRunsDiffer
    <2>4. QED
      BY <1>2, <2>3
  <1>9. ASSUME NEW sha \in TestedIn(list)
        PROVE  RankIn(longer, sha) = RankIn(list, sha)
    <2>1. {d \in TestedIn(longer) : FirstIn(longer, d) < FirstIn(longer, sha)}
              = {d \in TestedIn(list) : FirstIn(list, d) < FirstIn(list, sha)}
      <3>1. ~(FirstIn(longer, row.sha) < FirstIn(longer, sha))
        BY <1>2, <1>5, <1>8
      <3>2. QED
        BY <1>7, <1>8, <3>1
    <2>2. QED
      BY <2>1 DEF RankIn
  <1>10. /\ IsFiniteSet(TestedIn(list)) /\ size \in Nat
         /\ DOMAIN s = 1 .. size /\ Len(s) = size
         /\ \A sha \in TestedIn(list) : s[RankIn(list, sha)] = StatusIn(list, sha)
         /\ \A n \in 1 .. size : \E sha \in TestedIn(list) : RankIn(list, sha) = n
    BY <1>3, StatusesAreRanked
  <1>11. Cardinality(TestedIn(longer)) = size + 1
    <2> DEFINE old == TestedIn(list)
               new == row.sha
    <2>1. IsFiniteSet(old) /\ new \notin old /\ TestedIn(longer) = old \cup {new}
      BY <1>7, <1>10
    <2> HIDE DEF old, new
    <2>2. Cardinality(old \cup {new}) = Cardinality(old) + 1
      BY <2>1, FS_AddElement
    <2>3. QED
      BY <2>1, <2>2 DEF old
  <1>12. RankIn(longer, row.sha) = size + 1
    <2>1. {d \in TestedIn(longer) : FirstIn(longer, d) < FirstIn(longer, row.sha)} = TestedIn(list)
      <3>1. ~(FirstIn(longer, row.sha) < FirstIn(longer, row.sha))
        BY <1>2, <1>5
      <3>2. QED
        BY <1>5, <1>7, <1>8, <3>1
    <2>2. QED
      BY <2>1 DEF RankIn
  <1>13. /\ DOMAIN t = 1 .. size + 1 /\ Len(t) = size + 1
         /\ \A sha \in TestedIn(longer) : t[RankIn(longer, sha)] = StatusIn(longer, sha)
    BY <1>3, <1>11, StatusesAreRanked
  <1> HIDE DEF s, t, size
  <1>14. \A n \in 1 .. size : t[n] = s[n]
    <2>1. SUFFICES ASSUME NEW n \in 1 .. size
                   PROVE  t[n] = s[n]
      OBVIOUS
    <2>2. PICK sha \in TestedIn(list) : RankIn(list, sha) = n
      BY <1>10
    <2>3. QED
      BY <1>7, <1>8, <1>9, <1>10, <1>13, <2>2
  <1>15. t[size + 1] = "passed"
    BY <1>5, <1>12, <1>13
  <1>16. QED
    BY <1>6, <1>10, <1>13, <1>14, <1>15 DEF s, t

\* A history with one more passed status, after a passed one, has no higher rate.
LEMMA RatesFall ==
    ASSUME NEW h, NEW g,
           RetryDataAvailable(g) <=> RetryDataAvailable(h),
           Len(Statuses(h)) \in Nat \ {0}, DOMAIN Statuses(h) = 1 .. Len(Statuses(h)),
           DOMAIN Statuses(g) = 1 .. Len(Statuses(h)) + 1,
           Len(Statuses(g)) = Len(Statuses(h)) + 1,
           \A n \in 1 .. Len(Statuses(h)) : Statuses(g)[n] = Statuses(h)[n],
           Statuses(g)[Len(Statuses(h)) + 1] = "passed",
           Statuses(h)[Len(Statuses(h))] = "passed"
    PROVE  FlakeRate(g).n * FlakeRate(h).d <= FlakeRate(h).n * FlakeRate(g).d
  <1> DEFINE s == Statuses(h)
             t == Statuses(g)
             size == Len(s)
  <1>1. /\ size \in Nat \ {0} /\ DOMAIN s = 1 .. size
        /\ DOMAIN t = 1 .. size + 1 /\ Len(t) = size + 1
        /\ \A n \in 1 .. size : t[n] = s[n]
        /\ t[size + 1] = "passed" /\ s[size] = "passed"
    OBVIOUS
  <1>2. \A b : Indicator(b) \in {0, 1}
    BY DEF Indicator
  <1>3. Indicator(FALSE) = 0
    BY DEF Indicator
  <1> HIDE DEF s, t, size
  <1>4. CASE RetryDataAvailable(h)
    <2> DEFINE u == [i \in DOMAIN s |-> Indicator(s[i] = "diverged")]
               v == [i \in DOMAIN t |-> Indicator(t[i] = "diverged")]
    <2>1. FlakeRate(h) = Ewma(u) /\ FlakeRate(g) = Ewma(v)
      BY <1>4 DEF FlakeRate, DivergenceRate, s, t
    <2>2. u \in [1 .. size -> {0, 1}] /\ v \in [1 .. size + 1 -> {0, 1}]
      BY <1>1, <1>2
    <2>3. \A i \in 1 .. size : v[i] = u[i]
      BY <1>1
    <2>4. v[size + 1] = 0
      <3>1. size + 1 \in 1 .. size + 1
        BY <1>1
      <3>2. t[size + 1] # "diverged"
        BY <1>1
      <3>3. QED
        BY <1>1, <1>3, <3>1, <3>2
    <2> HIDE DEF u, v
    <2>5. Len(u) = size /\ Len(v) = size + 1
      BY <1>1, <2>2, ListLength
    <2>6. Ewma(v) = Smooth(Ewma(u), 0)
      BY <1>1, <2>3, <2>4, <2>5, EwmaAppend DEF Agree
    <2>7. Ewma(u).n \in Nat /\ Ewma(u).d \in Nat \ {0}
      BY <1>1, <2>2, <2>5, EwmaIsRate
    <2>8. QED
      BY <2>1, <2>6, <2>7, ZeroNeverRaises
  <1>5. CASE ~RetryDataAvailable(h)
    <2> DEFINE u == [i \in 1 .. size - 1 |-> Indicator(s[i + 1] # s[i] \/ s[i] = "diverged")]
               v == [i \in 1 .. size |-> Indicator(t[i + 1] # t[i] \/ t[i] = "diverged")]
    <2>1. size + 1 - 1 = size /\ ~(size + 1 < 2) /\ size - 1 \in Nat
      BY <1>1
    <2>2. FlakeRate(h) = IF size < 2 THEN Fraction(0, 1) ELSE Ewma(u)
      BY <1>5 DEF FlakeRate, IntermittencyRate, s, size
    <2>3. FlakeRate(g) = Ewma(v)
      <3>1. FlakeRate(g) = IntermittencyRate(g)
        BY <1>5 DEF FlakeRate
      <3>2. Len(t) - 1 = size /\ ~(Len(t) < 2)
        BY <1>1, <2>1
      <3>3. IntermittencyRate(g) = IF Len(t) < 2 THEN Fraction(0, 1)
                ELSE Ewma([i \in 1 .. Len(t) - 1 |->
                              Indicator(t[i + 1] # t[i] \/ t[i] = "diverged")])
        BY DEF IntermittencyRate, t
      <3>4. QED
        BY <3>1, <3>2, <3>3
    <2>4. u \in [1 .. size - 1 -> {0, 1}] /\ v \in [1 .. size -> {0, 1}]
      BY <1>2
    <2>5. \A i \in 1 .. size - 1 : v[i] = u[i]
      <3>1. \A i \in 1 .. size - 1 : i \in 1 .. size /\ i + 1 \in 1 .. size
        BY <1>1
      <3>2. QED
        BY <1>1, <3>1
    <2>6. v[size] = 0
      <3>1. size \in 1 .. size
        BY <1>1
      <3>2. t[size] = "passed" /\ t[size + 1] = "passed"
        BY <1>1, <3>1
      <3>3. QED
        BY <1>3, <3>1, <3>2
    <2> HIDE DEF u, v
    <2>7. Len(u) = size - 1 /\ Len(v) = size
      BY <1>1, <2>1, <2>4, ListLength
    <2>8. CASE size < 2
      <3>1. size = 1
        BY <1>1, <2>8
      <3>2. Ewma(v) = Fraction(v[1], 1)
        <4>1. Len(u) \in Nat /\ Len(v) = Len(u) + 1 /\ Agree(u, v, Len(u)) /\ Len(u) = 0
          BY <2>5, <2>7, <3>1 DEF Agree
        <4>2. QED
          BY <4>1, EwmaAppend
      <3>3. FlakeRate(g) = Fraction(0, 1) /\ FlakeRate(h) = Fraction(0, 1)
        BY <2>2, <2>3, <2>6, <2>8, <3>1, <3>2
      <3>4. QED
        BY <3>3 DEF Fraction
    <2>9. CASE ~(size < 2)
      <3>1. Len(u) \in Nat /\ Len(u) # 0 /\ Len(v) = Len(u) + 1
        BY <1>1, <2>7, <2>9
      <3>2. Ewma(v) = Smooth(Ewma(u), 0)
        BY <2>5, <2>6, <2>7, <3>1, EwmaAppend DEF Agree
      <3>3. Ewma(u).n \in Nat /\ Ewma(u).d \in Nat \ {0}
        BY <2>4, <2>7, <3>1, EwmaIsRate
      <3>4. QED
        BY <2>2, <2>3, <2>9, <3>2, <3>3, ZeroNeverRaises
    <2>10. QED
      BY <2>8, <2>9
  <1>6. QED
    BY <1>4, <1>5

\* The newest tested commit is the last of the statuses.
LEMMA NewestStatus ==
    ASSUME UpToDate, Given = rows, NEW c \in Tested, PassedAt(c), ~Disagrees(c),
           \A d \in Tested : FirstRun(d) <= FirstRun(c)
    PROVE  LET s == Statuses(BuildHistory(rows))
           IN  Len(s) # 0 /\ s[Len(s)] = "passed"
  <1> DEFINE s == Statuses(BuildHistory(rows))
             size == Len(s)
  <1>1. NewestFirst(rows) /\ Tested = TestedIn(rows)
    BY GivenIsNewest, TestedIsIn
  <1>2. /\ size \in Nat
        /\ \A d \in Tested : RankIn(rows, d) \in 1 .. size /\ s[RankIn(rows, d)] = StatusIn(rows, d)
        /\ \A n \in 1 .. size : \E d \in Tested : RankIn(rows, d) = n
        /\ \A d, e \in Tested : FirstIn(rows, d) < FirstIn(rows, e) <=> RankIn(rows, d) < RankIn(rows, e)
    BY <1>1, StatusesAreRanked
  <1>3. \A d \in Tested : FirstRun(d) = FirstIn(rows, d) /\ FirstIn(rows, d) \in Nat
    BY TestedIsIn
  <1>4. StatusIn(rows, c) = "passed"
    BY TestedIsIn
  <1> HIDE DEF s, size
  <1>5. size \in 1 .. size
    BY <1>2
  <1>6. PICK d \in Tested : RankIn(rows, d) = size
    BY <1>2, <1>5
  <1>7. ~(RankIn(rows, c) < RankIn(rows, d))
    BY <1>2, <1>3
  <1>8. RankIn(rows, c) = size
    BY <1>2, <1>6, <1>7
  <1>9. QED
    BY <1>2, <1>4, <1>5, <1>8 DEF s, size

\* In every history and with every smoothing factor, a new commit that passes
\* after a commit that passed never raises the rate (rates.py:18), as long as
\* it pushes no row out of the window.
THEOREM RateNeverRisesOnClean == Spec => CleanCommitNeverRaisesRate
  <1> DEFINE CleanStep ==
        /\ rows' # rows
        /\ NothingEvicted
        /\ rows # <<>>
        /\ rows'[1].outcome = "pass" /\ ~rows'[1].rerun
        /\ \A r \in ToSet(rows) : r.sha # rows'[1].sha
        /\ \E c \in Tested : /\ PassedAt(c) /\ ~Disagrees(c)
                             /\ \A d \in Tested : FirstRun(d) <= FirstRun(c)
        => LET old == detection.rate
               new == detection'.rate
           IN  new.n * old.d <= old.n * new.d
  <1>1. UpToDate /\ UpToDate' /\ [Next]_vars => [CleanStep]_vars
    <2> SUFFICES ASSUME UpToDate, UpToDate', Next, rows' # rows, NothingEvicted,
                        rows'[1].outcome = "pass", ~rows'[1].rerun,
                        \A r \in ToSet(rows) : r.sha # rows'[1].sha,
                        \E c \in Tested : /\ PassedAt(c) /\ ~Disagrees(c)
                                          /\ \A d \in Tested : FirstRun(d) <= FirstRun(c)
                 PROVE  detection'.rate.n * detection.rate.d <= detection.rate.n * detection'.rate.d
      OBVIOUS
    <2> DEFINE h == BuildHistory(rows)
               g == BuildHistory(rows')
    <2>1. /\ OneNewer(rows, rows'[1], rows')
          /\ InWindow(rows) = rows /\ InWindow(rows') = rows'
          /\ detection = Detect(rows, unrelated) /\ detection' = Detect(rows', unrelated)
      BY StepAddsOneRow
    <2>2. rows'[1].sha \notin CommitsOf(rows)
      BY DEF CommitsOf, PlacesKept, ToSet
    <2>3. /\ RetryDataAvailable(g) <=> RetryDataAvailable(h)
          /\ Len(Statuses(h)) \in Nat /\ DOMAIN Statuses(h) = 1 .. Len(Statuses(h))
          /\ DOMAIN Statuses(g) = 1 .. Len(Statuses(h)) + 1
          /\ Len(Statuses(g)) = Len(Statuses(h)) + 1
          /\ \A n \in 1 .. Len(Statuses(h)) : Statuses(g)[n] = Statuses(h)[n]
          /\ Statuses(g)[Len(Statuses(h)) + 1] = "passed"
      BY <2>1, <2>2, CleanCommitAddsStatus
    <2>4. Len(Statuses(h)) # 0 /\ Statuses(h)[Len(Statuses(h))] = "passed"
      BY <2>1, NewestStatus DEF Given
    <2>5. detection.rate = FlakeRate(h) /\ detection'.rate = FlakeRate(g)
      BY <2>1, DetectSays
    <2> HIDE DEF h, g
    <2>6. FlakeRate(g).n * FlakeRate(h).d <= FlakeRate(h).n * FlakeRate(g).d
      BY <2>3, <2>4, RatesFall
    <2>7. QED
      BY <2>5, <2>6
  <1>2. QED
    BY <1>1, DetectionIsCurrent, PTL DEF Spec, CleanCommitNeverRaisesRate

-----------------------------------------------------------------------------
(* Powers, and the weight of one value.                                    *)

\* f holds the powers of a number up to the k-th.
Powers(base, k, f) == f = [n \in 0 .. k |-> IF n = 0 THEN 1 ELSE base * f[n - 1]]

\* There are such powers.
LEMMA PowersExist ==
    ASSUME NEW base, NEW k \in Nat
    PROVE  \E f : Powers(base, k, f)
  <1> DEFINE Missing == {m \in Nat : ~\E f : Powers(base, m, f)}
             least == Min(Missing)
  <1> SUFFICES ASSUME Missing # {}
               PROVE  FALSE
    OBVIOUS
  <1>1. least \in Missing /\ \A m \in Missing : least <= m
    <2>1. Missing \in SUBSET Nat
      OBVIOUS
    <2> HIDE DEF Missing
    <2>2. QED
      BY <2>1, LeastIs
  <1>2. least \in Nat /\ ~\E f : Powers(base, least, f)
    BY <1>1
  <1> HIDE DEF least
  <1>3. CASE least = 0
    <2>1. Powers(base, 0, [n \in 0 .. 0 |-> 1])
      BY DEF Powers
    <2>2. QED
      BY <1>2, <1>3, <2>1
  <1>4. CASE least # 0
    <2>1. least - 1 \in Nat /\ ~(least <= least - 1)
      BY <1>2, <1>4
    <2>2. PICK g : Powers(base, least - 1, g)
      BY <1>1, <2>1
    <2> DEFINE f == [n \in 0 .. least |-> IF n < least THEN g[n] ELSE base * g[least - 1]]
               F == [n \in 0 .. least |-> IF n = 0 THEN 1 ELSE base * f[n - 1]]
    <2>3. ASSUME NEW n \in 0 .. least
          PROVE  f[n] = F[n]
      <3>1. CASE n = least
        <4>1. n # 0 /\ n - 1 \in 0 .. least /\ n - 1 < least
          BY <1>2, <1>4, <3>1
        <4>2. f[n - 1] = g[least - 1]
          BY <3>1, <4>1
        <4>3. f[n] = base * g[least - 1]
          BY <1>2, <3>1
        <4>4. QED
          BY <4>1, <4>2, <4>3
      <3>2. CASE n # least
        <4>1. n < least /\ n \in 0 .. least - 1 /\ f[n] = g[n]
          BY <1>2, <3>2
        <4>2. g[n] = IF n = 0 THEN 1 ELSE base * g[n - 1]
          BY <2>2, <4>1, Zenon DEF Powers
        <4>3. n # 0 => f[n - 1] = g[n - 1]
          BY <1>2, <4>1
        <4>4. QED
          BY <4>1, <4>2, <4>3
      <3>3. QED
        BY <3>1, <3>2
    <2>4. f = F
      <3>1. f = [n \in 0 .. least |-> f[n]] /\ F = [n \in 0 .. least |-> F[n]]
        OBVIOUS
      <3> HIDE DEF f, F
      <3>2. QED
        BY <2>3, <3>1
    <2>5. Powers(base, least, f)
      BY <2>4 DEF Powers
    <2>6. QED
      BY <1>2, <2>5
  <1>5. QED
    BY <1>3, <1>4

\* A longer list of powers begins as the shorter one.
LEMMA PowersAgree ==
    ASSUME NEW base, NEW k \in Nat, NEW m \in Nat, k <= m,
           NEW f, Powers(base, k, f), NEW g, Powers(base, m, g)
    PROVE  \A n \in 0 .. k : f[n] = g[n]
  <1> DEFINE Bad == {n \in 0 .. k : f[n] # g[n]}
             least == Min(Bad)
  <1> SUFFICES ASSUME Bad # {}
               PROVE  FALSE
    OBVIOUS
  <1>1. least \in Bad /\ \A n \in Bad : least <= n
    <2>1. Bad \in SUBSET Nat
      OBVIOUS
    <2> HIDE DEF Bad
    <2>2. QED
      BY <2>1, LeastIs
  <1>2. least \in 0 .. k /\ least \in 0 .. m /\ f[least] # g[least]
    BY <1>1
  <1> HIDE DEF least
  <1>3. /\ f[least] = IF least = 0 THEN 1 ELSE base * f[least - 1]
        /\ g[least] = IF least = 0 THEN 1 ELSE base * g[least - 1]
    BY <1>2, Zenon DEF Powers
  <1>4. least # 0 /\ least - 1 \in 0 .. k /\ ~(least <= least - 1)
    BY <1>2, <1>3
  <1>5. f[least - 1] = g[least - 1]
    BY <1>1, <1>4
  <1>6. QED
    BY <1>2, <1>3, <1>4, <1>5

\* A power is the last of any list of powers that reaches it.
LEMMA PowerIsLast ==
    ASSUME NEW base, NEW k \in Nat
    PROVE  \E f : Powers(base, k, f) /\ Power(base, k) = f[k]
  <1> DEFINE Upto[n \in 0 .. k] == IF n = 0 THEN 1 ELSE base * Upto[n - 1]
  <1>1. Power(base, k) = Upto[k]
    BY DEF Power
  <1>2. Powers(base, k, Upto)
    BY PowersExist DEF Powers
  <1>3. QED
    BY <1>1, <1>2

\* Each power is the base times the one before.
LEMMA PowerIs ==
    ASSUME NEW base, NEW k \in Nat
    PROVE  Power(base, 0) = 1 /\ Power(base, k + 1) = base * Power(base, k)
  <1>1. PICK f : Powers(base, 0, f) /\ Power(base, 0) = f[0]
    BY PowerIsLast
  <1>2. PICK g : Powers(base, k, g) /\ Power(base, k) = g[k]
    BY PowerIsLast
  <1>3. PICK h : Powers(base, k + 1, h) /\ Power(base, k + 1) = h[k + 1]
    BY PowerIsLast
  <1>4. f[0] = 1
    BY <1>1 DEF Powers
  <1>5. h[k + 1] = base * h[k]
    <2>1. k + 1 \in 0 .. k + 1 /\ k + 1 # 0 /\ (k + 1) - 1 = k
      OBVIOUS
    <2>2. h[k + 1] = IF k + 1 = 0 THEN 1 ELSE base * h[(k + 1) - 1]
      BY <1>3, <2>1, Zenon DEF Powers
    <2>3. QED
      BY <2>1, <2>2
  <1>6. h[k] = g[k]
    <2> DEFINE m == k + 1
    <2>1. k <= m /\ m \in Nat /\ k \in 0 .. k
      OBVIOUS
    <2>2. Powers(base, k, g) /\ Powers(base, m, h)
      BY <1>2, <1>3
    <2> HIDE DEF m
    <2>3. \A n \in 0 .. k : g[n] = h[n]
      BY <2>1, <2>2, PowersAgree
    <2>4. QED
      BY <2>1, <2>3
  <1>7. QED
    BY <1>1, <1>2, <1>3, <1>4, <1>5, <1>6

\* Powers of a natural number are natural.
LEMMA PowersAreNatural ==
    ASSUME NEW base \in Nat, NEW k \in Nat
    PROVE  Power(base, k) \in Nat
  <1> DEFINE Bad == {n \in Nat : Power(base, n) \notin Nat}
             least == Min(Bad)
  <1> SUFFICES ASSUME Bad # {}
               PROVE  FALSE
    OBVIOUS
  <1>1. least \in Bad /\ \A n \in Bad : least <= n
    <2>1. Bad \in SUBSET Nat
      OBVIOUS
    <2> HIDE DEF Bad
    <2>2. QED
      BY <2>1, LeastIs
  <1>2. least \in Nat /\ Power(base, least) \notin Nat
    BY <1>1
  <1> HIDE DEF least
  <1>3. least # 0
    BY <1>2, PowerIs
  <1>4. least - 1 \in Nat /\ ~(least <= least - 1) /\ (least - 1) + 1 = least
    BY <1>2, <1>3
  <1>5. Power(base, least - 1) \in Nat
    BY <1>1, <1>4
  <1>6. Power(base, least) = base * Power(base, least - 1)
    BY <1>4, PowerIs
  <1>7. QED
    BY <1>2, <1>5, <1>6, ProductsOfNats

\* The parameters of the average as natural numbers.
LEMMA AlphaIs ==
    /\ AlphaNum \in Nat /\ AlphaDen \in Nat /\ AlphaDen # 0
    /\ AlphaDen - AlphaNum \in Nat
  BY DetectConfigAssumption

\* A value weighs what it is smoothed in with when it is the newest, and less
\* by the same factor with every value that follows.
LEMMA WeightIs ==
    ASSUME NEW r \in Nat \ {0}, NEW k \in Nat, r <= k
    PROVE  /\ Weight(r, k) \in Nat
           /\ Weight(r, r) = IF r = 1 THEN 1 ELSE AlphaNum * Power(AlphaDen, r - 2)
           /\ Weight(r, k + 1) = (AlphaDen - AlphaNum) * Weight(r, k)
  <1> DEFINE keep == AlphaDen - AlphaNum
             a == IF r = 1 THEN 1 ELSE AlphaNum
             c == IF r = 1 THEN 1 ELSE Power(AlphaDen, r - 2)
  <1>1. keep \in Nat /\ a \in Nat
    BY AlphaIs
  <1>2. c \in Nat
    <2>1. r # 1 => r - 2 \in Nat
      OBVIOUS
    <2>2. QED
      BY <2>1, AlphaIs, PowersAreNatural
  <1>3. \A n : Weight(r, n) = a * Power(keep, n - r) * c
    BY DEF Weight
  <1>4. k - r \in Nat /\ (k + 1) - r = (k - r) + 1 /\ r - r = 0
    OBVIOUS
  <1>5. /\ Power(keep, k - r) \in Nat
        /\ Power(keep, (k - r) + 1) = keep * Power(keep, k - r)
        /\ Power(keep, 0) = 1
    BY <1>1, <1>4, PowerIs, PowersAreNatural
  <1>6. Weight(r, r) = IF r = 1 THEN 1 ELSE AlphaNum * Power(AlphaDen, r - 2)
    <2>1. Weight(r, r) = a * 1 * c
      BY <1>3, <1>4, <1>5
    <2> HIDE DEF a, c
    <2>2. Weight(r, r) = a * c
      BY <1>1, <1>2, <2>1
    <2>3. QED
      <3>1. CASE r = 1
        BY <2>2, <3>1 DEF a, c
      <3>2. CASE r # 1
        BY <2>2, <3>2 DEF a, c
      <3>3. QED
        BY <3>1, <3>2
  <1> HIDE DEF a, c, keep
  <1> DEFINE p == Power(keep, k - r)
  <1>7. Weight(r, k) = a * p * c /\ Weight(r, k + 1) = a * (keep * p) * c
    BY <1>3, <1>4, <1>5
  <1>8. p \in Nat
    BY <1>5
  <1> HIDE DEF p
  <1>9. a * p * c \in Nat
    BY <1>1, <1>2, <1>8, ProductsOfNats
  <1>10. a * (keep * p) * c = keep * (a * p * c)
    BY <1>1, <1>2, <1>8
  <1>11. QED
    BY <1>6, <1>7, <1>9, <1>10 DEF keep

\* The averages of values that are zero or one, over powers of one number.
LEMMA AveragesAreOverPowers ==
    ASSUME NEW k \in Nat, NEW values, \A i \in 1 .. k : values[i] \in {0, 1},
           NEW f, Averages(values, k, f)
    PROVE  \A n \in 1 .. k : f[n].n \in Nat /\ f[n].d = Power(AlphaDen, n - 1)
  <1> DEFINE Good(n) == f[n].n \in Nat /\ f[n].d = Power(AlphaDen, n - 1)
             Bad == {n \in 1 .. k : ~Good(n)}
             least == Min(Bad)
  <1> SUFFICES ASSUME Bad # {}
               PROVE  FALSE
    OBVIOUS
  <1>1. least \in Bad /\ \A n \in Bad : least <= n
    <2>1. Bad \in SUBSET Nat
      OBVIOUS
    <2> HIDE DEF Bad
    <2>2. QED
      BY <2>1, LeastIs
  <1>2. least \in 1 .. k /\ least \in 0 .. k /\ ~Good(least)
    BY <1>1
  <1> HIDE DEF least
  <1>3. f[least] = IF least = 0 THEN Fraction(0, 1)
                   ELSE IF least = 1 THEN Fraction(values[1], 1)
                   ELSE Smooth(f[least - 1], values[least])
    BY <1>2, Zenon DEF Averages
  <1>4. CASE least = 1
    <2>1. f[least] = Fraction(values[1], 1) /\ values[1] \in {0, 1}
      BY <1>2, <1>3, <1>4
    <2>2. Power(AlphaDen, 0) = 1
      BY PowerIs
    <2>3. QED
      BY <1>2, <1>4, <2>1, <2>2 DEF Fraction
  <1>5. CASE least # 1
    <2> DEFINE past == f[least - 1]
               v == values[least]
               keep == AlphaDen - AlphaNum
    <2>1. least - 1 \in 1 .. k /\ ~(least <= least - 1) /\ v \in {0, 1}
      BY <1>2, <1>5
    <2>2. Good(least - 1)
      BY <1>1, <2>1
    <2>3. least - 2 \in Nat /\ (least - 1) - 1 = least - 2 /\ (least - 2) + 1 = least - 1
      BY <1>2, <1>5
    <2>4. past.n \in Nat /\ past.d = Power(AlphaDen, least - 2) /\ past.d \in Nat
      BY <2>2, <2>3, AlphaIs, PowersAreNatural
    <2>5. f[least] = Smooth(past, v)
      BY <1>2, <1>3, <1>5
    <2>6. /\ f[least].n = AlphaNum * v * past.d + keep * past.n
          /\ f[least].d = AlphaDen * past.d
      BY <2>5 DEF Smooth, Fraction
    <2>7. Power(AlphaDen, least - 1) = AlphaDen * past.d
      BY <2>3, <2>4, PowerIs
    <2> HIDE DEF past, v, keep
    <2>8. v \in Nat /\ keep \in Nat
      BY <2>1, AlphaIs DEF keep
    <2>9. AlphaNum * v * past.d \in Nat /\ keep * past.n \in Nat
      BY <2>4, <2>8, AlphaIs, ProductsOfNats
    <2>10. QED
      BY <1>2, <2>6, <2>7, <2>9
  <1>6. QED
    BY <1>4, <1>5

\* Making one value one adds its weight to the average.
LEMMA OneMoreWeighs ==
    ASSUME NEW k \in Nat, NEW more, NEW less, NEW r \in 1 .. k,
           \A i \in 1 .. k : more[i] \in {0, 1} /\ less[i] \in {0, 1},
           more[r] = 1, less[r] = 0, \A i \in 1 .. k : i # r => more[i] = less[i],
           NEW f, Averages(more, k, f), NEW g, Averages(less, k, g)
    PROVE  f[k].n = g[k].n + Weight(r, k)
  <1> DEFINE Good(n) == f[n].n = g[n].n + IF r <= n THEN Weight(r, n) ELSE 0
             Bad == {n \in 1 .. k : ~Good(n)}
             least == Min(Bad)
  <1>1. Bad = {}
    <2> SUFFICES ASSUME Bad # {}
                 PROVE  FALSE
      OBVIOUS
    <2>1. least \in Bad /\ \A n \in Bad : least <= n
      <3>1. Bad \in SUBSET Nat
        OBVIOUS
      <3> HIDE DEF Bad
      <3>2. QED
        BY <3>1, LeastIs
    <2>2. least \in 1 .. k /\ least \in 0 .. k /\ ~Good(least)
      BY <2>1
    <2> HIDE DEF least
    <2>3. /\ f[least] = IF least = 0 THEN Fraction(0, 1)
                        ELSE IF least = 1 THEN Fraction(more[1], 1)
                        ELSE Smooth(f[least - 1], more[least])
          /\ g[least] = IF least = 0 THEN Fraction(0, 1)
                        ELSE IF least = 1 THEN Fraction(less[1], 1)
                        ELSE Smooth(g[least - 1], less[least])
      BY <2>2, Zenon DEF Averages
    <2>4. \A n \in 1 .. k : /\ f[n].n \in Nat /\ f[n].d = Power(AlphaDen, n - 1)
                            /\ g[n].n \in Nat /\ g[n].d = Power(AlphaDen, n - 1)
      BY AveragesAreOverPowers
    <2>5. CASE least = 1
      <3>1. f[least].n = more[1] /\ g[least].n = less[1]
        BY <2>3, <2>5 DEF Fraction
      <3>2. CASE r = 1
        <4>1. Weight(r, 1) = 1
          BY <3>2, WeightIs
        <4>2. QED
          BY <2>2, <2>5, <3>1, <3>2, <4>1
      <3>3. CASE r # 1
        <4>1. more[1] = less[1] /\ ~(r <= 1) /\ less[1] \in {0, 1}
          BY <2>2, <2>5, <3>3
        <4>2. QED
          BY <2>2, <2>5, <3>1, <4>1
      <3>4. QED
        BY <3>2, <3>3
    <2>6. CASE least # 1
      <3> DEFINE past == f[least - 1]
                 other == g[least - 1]
                 d == Power(AlphaDen, least - 2)
                 keep == AlphaDen - AlphaNum
                 u == more[least]
                 v == less[least]
      <3>1. least - 1 \in 1 .. k /\ ~(least <= least - 1) /\ (least - 1) - 1 = least - 2
        BY <2>2, <2>6
      <3>2. Good(least - 1)
        BY <2>1, <3>1
      <3>3. /\ past.n \in Nat /\ other.n \in Nat /\ past.d = d /\ other.d = d
        BY <2>4, <3>1
      <3>4. d \in Nat /\ keep \in Nat /\ AlphaNum \in Nat
        <4>1. least - 2 \in Nat
          BY <2>2, <2>6
        <4>2. QED
          BY <4>1, AlphaIs, PowersAreNatural
      <3>5. /\ f[least].n = AlphaNum * u * d + keep * past.n
            /\ g[least].n = AlphaNum * v * d + keep * other.n
        <4>1. f[least] = Smooth(past, u) /\ g[least] = Smooth(other, v)
          BY <2>2, <2>3, <2>6
        <4>2. QED
          BY <3>3, <4>1 DEF Smooth, Fraction
      <3>6. u \in {0, 1} /\ v \in {0, 1} /\ (least # r => u = v) /\ (least = r => u = 1 /\ v = 0)
        BY <2>2
      <3> HIDE DEF past, other, d, keep, u, v
      <3>7. CASE least = r
        <4>1. past.n = other.n
          BY <3>2, <3>3, <3>7 DEF past, other
        <4>2. Weight(r, least) = AlphaNum * d
          <5>1. r # 1 /\ r \in Nat \ {0} /\ r <= r
            BY <2>6, <3>7
          <5>2. Weight(r, r) = AlphaNum * Power(AlphaDen, r - 2)
            BY <5>1, WeightIs
          <5>3. QED
            BY <3>7, <5>2 DEF d
        <4>3. AlphaNum * 1 * d = AlphaNum * d /\ AlphaNum * 0 * d = 0 /\ AlphaNum * d \in Nat
          BY <3>4, ProductsOfNats
        <4>4. f[least].n = AlphaNum * d + keep * other.n /\ g[least].n = 0 + keep * other.n
          BY <3>5, <3>6, <3>7, <4>1, <4>3
        <4>5. keep * other.n \in Nat
          BY <3>3, <3>4, ProductsOfNats
        <4>6. f[least].n = g[least].n + Weight(r, least)
          BY <4>2, <4>3, <4>4, <4>5
        <4>7. r <= least
          BY <2>2, <3>7
        <4>8. QED
          BY <2>2, <4>6, <4>7
      <3>8. CASE least # r /\ r <= least
        <4> DEFINE w == Weight(r, least - 1)
        <4>1. r <= least - 1 /\ r \in Nat \ {0} /\ least - 1 \in Nat /\ (least - 1) + 1 = least
          BY <2>2, <3>1, <3>8
        <4>2. w \in Nat /\ Weight(r, least) = keep * w
          BY <4>1, WeightIs DEF keep
        <4>3. past.n = other.n + w
          BY <3>2, <4>1 DEF past, other
        <4> HIDE DEF w
        <4>4. keep * past.n = keep * other.n + keep * w
          BY <3>3, <3>4, <4>2, <4>3
        <4>5. keep * other.n \in Nat /\ keep * w \in Nat /\ AlphaNum * v * d \in Nat
          BY <3>3, <3>4, <3>6, <4>2, ProductsOfNats
        <4>6. f[least].n = AlphaNum * v * d + keep * past.n
          BY <3>5, <3>6, <3>8
        <4>7. f[least].n = g[least].n + keep * w
          BY <3>5, <4>4, <4>5, <4>6
        <4>8. QED
          BY <2>2, <3>8, <4>2, <4>7
      <3>9. CASE ~(r <= least)
        <4>1. ~(r <= least - 1) /\ least # r
          BY <2>2, <3>9
        <4>2. past.n = other.n
          BY <3>2, <3>3, <4>1 DEF past, other
        <4>3. f[least].n = g[least].n
          BY <3>5, <3>6, <4>1, <4>2
        <4>4. g[least].n \in Nat
          BY <2>2, <2>4
        <4>5. QED
          BY <2>2, <3>9, <4>3, <4>4
      <3>10. QED
        BY <3>7, <3>8, <3>9
    <2>7. QED
      BY <2>5, <2>6
  <1>2. k \in 1 .. k /\ r <= k
    OBVIOUS
  <1>3. QED
    BY <1>1, <1>2

\* Nothing weighs nothing.
LEMMA NoneWeighs ==
    ASSUME NEW k \in Nat \ {0}, NEW values, \A i \in 1 .. k : values[i] = 0,
           NEW f, Averages(values, k, f)
    PROVE  f[k].n = 0
  <1> DEFINE Bad == {n \in 1 .. k : f[n].n # 0}
             least == Min(Bad)
  <1>1. Bad = {}
    <2> SUFFICES ASSUME Bad # {}
                 PROVE  FALSE
      OBVIOUS
    <2>1. least \in Bad /\ \A n \in Bad : least <= n
      <3>1. Bad \in SUBSET Nat
        OBVIOUS
      <3> HIDE DEF Bad
      <3>2. QED
        BY <3>1, LeastIs
    <2>2. least \in 1 .. k /\ least \in 0 .. k /\ f[least].n # 0
      BY <2>1
    <2> HIDE DEF least
    <2>3. f[least] = IF least = 0 THEN Fraction(0, 1)
                     ELSE IF least = 1 THEN Fraction(values[1], 1)
                     ELSE Smooth(f[least - 1], values[least])
      BY <2>2, Zenon DEF Averages
    <2>4. least # 1
      BY <2>2, <2>3 DEF Fraction
    <2>5. least - 1 \in 1 .. k /\ ~(least <= least - 1) /\ values[least] = 0
      BY <2>2, <2>4
    <2> DEFINE past == f[least - 1]
    <2>6. past.n = 0
      BY <2>1, <2>5
    <2>7. past.d \in Nat
      <3>1. \A n \in 1 .. k : f[n].d = Power(AlphaDen, n - 1)
        BY AveragesAreOverPowers
      <3>2. (least - 1) - 1 \in Nat
        BY <2>5
      <3>3. QED
        BY <2>5, <3>1, <3>2, AlphaIs, PowersAreNatural
    <2>8. f[least].n = AlphaNum * 0 * past.d + (AlphaDen - AlphaNum) * 0
      BY <2>2, <2>3, <2>4, <2>5, <2>6 DEF Smooth, Fraction
    <2> HIDE DEF past
    <2>9. QED
      BY <2>2, <2>7, <2>8, AlphaIs
  <1>2. QED
    BY <1>1

\* A tested commit's rank, whether or not it counts itself.
LEMMA RanksAgree ==
    ASSUME UpToDate, NEW c \in Tested
    PROVE  Rank(c) = RankIn(Given, c)
  <1> DEFINE before == {d \in Tested : FirstRun(d) < FirstRun(c)}
  <1>1. NewestFirst(Given) /\ Tested = TestedIn(Given) /\ IsFiniteSet(Tested)
    BY GivenIsNewest, TestedIsIn, StatusesAreRanked
  <1>2. \A d \in Tested : /\ FirstRun(d) \in Nat /\ FirstRun(d) = FirstIn(Given, d)
                          /\ FirstRun(d) = FirstRun(c) => d = c
    BY <1>1, TestedIsIn, FirstRunsDiffer
  <1>3. {d \in Tested : FirstRun(d) <= FirstRun(c)} = before \cup {c}
    <2>1. ASSUME NEW d \in Tested
          PROVE  FirstRun(d) <= FirstRun(c) <=> FirstRun(d) < FirstRun(c) \/ d = c
      <3>1. /\ FirstRun(d) \in Nat /\ FirstRun(c) \in Nat
            /\ FirstRun(d) = FirstRun(c) => d = c
        BY <1>2
      <3>2. QED
        BY <3>1
    <2>2. QED
      BY <2>1
  <1>4. before = {d \in TestedIn(Given) : FirstIn(Given, d) < FirstIn(Given, c)}
    BY <1>1, <1>2
  <1>5. c \notin before
    BY <1>2
  <1>6. IsFiniteSet(before)
    <2>1. before \in SUBSET Tested
      OBVIOUS
    <2> HIDE DEF before
    <2>2. QED
      BY <1>1, <2>1, FS_Subset
  <1> HIDE DEF before
  <1>7. Cardinality(before \cup {c}) = Cardinality(before) + 1
    BY <1>5, <1>6, FS_AddElement
  <1>8. QED
    BY <1>3, <1>4, <1>7 DEF Rank, RankIn

\* The commits of a set, marked at their ranks.
Marks(commits, n) == [i \in 1 .. n |-> Indicator(\E c \in commits : Rank(c) = i)]

\* The divergence rate is what the commits that disagree weigh together.
LEMMA DivergenceRateIsWeightedShareNow == UpToDate => DivergenceRateIsWeightedShare
  <1> SUFFICES ASSUME UpToDate, Cardinality(Tested) > 0
               PROVE  DivergenceRate(Past).n * Power(AlphaDen, Cardinality(Tested) - 1)
                        = MapThenSumSet(LAMBDA sha : Weight(Rank(sha), Cardinality(Tested)),
                                        {sha \in Tested : Disagrees(sha)})
                          * DivergenceRate(Past).d
    BY DEF DivergenceRateIsWeightedShare, Past, Given
  <1> DEFINE n == Cardinality(Tested)
             torn == {sha \in Tested : Disagrees(sha)}
             s == Statuses(Past)
             total == MapThenSumSet(LAMBDA sha : Weight(Rank(sha), n), torn)
             count == [t \in SUBSET torn |-> Ewma(Marks(t, n)).n]
             Adds(f) == f = [t \in SUBSET torn |->
                               IF t = {} THEN 0
                               ELSE LET x == CHOOSE x \in t : TRUE
                                    IN  Weight(Rank(x), n) + f[t \ {x}]]
             iter == CHOOSE f : Adds(f)
  <1>1. NewestFirst(Given) /\ Past = BuildHistory(Given) /\ Tested = TestedIn(Given)
    BY GivenIsNewest, TestedIsIn DEF Past
  <1>2. /\ IsFiniteSet(Tested) /\ n \in Nat /\ DOMAIN s = 1 .. n
        /\ \A c \in Tested : RankIn(Given, c) \in 1 .. n /\ s[RankIn(Given, c)] = StatusIn(Given, c)
        /\ \A i \in 1 .. n : \E c \in Tested : RankIn(Given, c) = i
        /\ \A c, d \in Tested :
              FirstIn(Given, c) < FirstIn(Given, d) <=> RankIn(Given, c) < RankIn(Given, d)
    BY <1>1, StatusesAreRanked
  <1>3. /\ \A c \in Tested : Rank(c) \in 1 .. n /\ (s[Rank(c)] = "diverged" <=> Disagrees(c))
        /\ \A i \in 1 .. n : \E c \in Tested : Rank(c) = i
    BY <1>2, RanksAgree, TestedIsIn
  <1>4. \A c, d \in Tested : Rank(c) = Rank(d) => c = d
    <2>1. SUFFICES ASSUME NEW c \in Tested, NEW d \in Tested, Rank(c) = Rank(d)
                   PROVE  c = d
      OBVIOUS
    <2>2. ~(RankIn(Given, c) < RankIn(Given, d)) /\ ~(RankIn(Given, d) < RankIn(Given, c))
      BY <1>2, <2>1, RanksAgree
    <2>3. FirstIn(Given, c) \in Nat /\ FirstIn(Given, d) \in Nat
      BY TestedIsIn
    <2>4. FirstIn(Given, c) = FirstIn(Given, d)
      BY <1>2, <2>2, <2>3
    <2>5. QED
      BY <1>1, <2>4, TestedIsIn, FirstRunsDiffer
  <1> HIDE DEF n, s
  <1>5. n \in Nat \ {0}
    BY <1>2 DEF n
  <1>6. \A t : /\ Len(Marks(t, n)) = n
               /\ \A i \in 1 .. n : /\ Marks(t, n)[i] \in {0, 1}
                                    /\ Marks(t, n)[i] = 1 <=> \E c \in t : Rank(c) = i
    <2> SUFFICES ASSUME NEW t
                 PROVE  /\ Len(Marks(t, n)) = n
                        /\ \A i \in 1 .. n : /\ Marks(t, n)[i] \in {0, 1}
                                             /\ Marks(t, n)[i] = 1 <=> \E c \in t : Rank(c) = i
      OBVIOUS
    <2>1. /\ Marks(t, n) \in [1 .. n -> {0, 1}]
          /\ \A i \in 1 .. n : Marks(t, n)[i] = 1 <=> \E c \in t : Rank(c) = i
      BY DEF Marks, Indicator
    <2>2. Len(Marks(t, n)) = n
      BY <1>5, <2>1, ListLength
    <2>3. QED
      BY <2>1, <2>2
  <1>7. \A t : \E f : Averages(Marks(t, n), n, f) /\ Ewma(Marks(t, n)) = f[n]
    <2> SUFFICES ASSUME NEW t
                 PROVE  \E f : Averages(Marks(t, n), n, f) /\ Ewma(Marks(t, n)) = f[n]
      OBVIOUS
    <2>1. Len(Marks(t, n)) = n /\ Len(Marks(t, n)) \in Nat
      BY <1>5, <1>6
    <2>2. QED
      BY <2>1, EwmaIsAverage
  <1>8. ASSUME NEW t \in SUBSET Tested, NEW x \in t
        PROVE  Ewma(Marks(t, n)).n = Weight(Rank(x), n) + Ewma(Marks(t \ {x}, n)).n
    <2> DEFINE more == Marks(t, n)
               less == Marks(t \ {x}, n)
               r == Rank(x)
    <2>1. x \in Tested /\ r \in 1 .. n
      BY <1>3
    <2>2. \A i \in 1 .. n : more[i] \in {0, 1} /\ less[i] \in {0, 1}
      BY <1>6
    <2>3. more[r] = 1
      BY <1>6, <2>1
    <2>4. less[r] = 0
      <3>1. ~\E c \in t \ {x} : Rank(c) = r
        BY <1>4, <2>1
      <3>2. less[r] # 1
        BY <1>6, <2>1, <3>1
      <3>3. QED
        BY <2>1, <2>2, <3>2
    <2>5. ASSUME NEW i \in 1 .. n, i # r
          PROVE  more[i] = less[i]
      <3>1. (\E c \in t : Rank(c) = i) <=> (\E c \in t \ {x} : Rank(c) = i)
        BY <2>5
      <3>2. more[i] = 1 <=> less[i] = 1
        BY <1>6, <3>1
      <3>3. QED
        BY <2>2, <3>2
    <2>6. PICK f : Averages(more, n, f) /\ Ewma(more) = f[n]
      BY <1>7
    <2>7. PICK g : Averages(less, n, g) /\ Ewma(less) = g[n]
      BY <1>7
    <2> HIDE DEF more, less, r
    <2>8. f[n].n = g[n].n + Weight(r, n)
      BY <1>5, <2>1, <2>2, <2>3, <2>4, <2>5, <2>6, <2>7, OneMoreWeighs
    <2>9. g[n].n \in Nat
      <3>1. \A k \in 1 .. n : g[k].n \in Nat
        BY <1>5, <2>2, <2>7, AveragesAreOverPowers
      <3>2. QED
        BY <1>5, <3>1
    <2>10. Weight(r, n) \in Nat
      BY <1>5, <2>1, WeightIs
    <2>11. QED
      BY <2>6, <2>7, <2>8, <2>9, <2>10 DEF more, less, r
  <1>9. Ewma(Marks({}, n)).n = 0
    <2>1. PICK f : Averages(Marks({}, n), n, f) /\ Ewma(Marks({}, n)) = f[n]
      BY <1>7
    <2>2. \A i \in 1 .. n : Marks({}, n)[i] = 0
      BY DEF Marks, Indicator
    <2>3. QED
      BY <1>5, <2>1, <2>2, NoneWeighs
  <1>10. torn \in SUBSET Tested /\ IsFiniteSet(torn)
    <2>1. torn \in SUBSET Tested
      OBVIOUS
    <2> HIDE DEF torn
    <2>2. QED
      BY <1>2, <2>1, FS_Subset
  <1> HIDE DEF torn
  <1>11. Adds(count)
    <2>1. ASSUME NEW t \in SUBSET torn
          PROVE  count[t] = IF t = {} THEN 0
                            ELSE LET x == CHOOSE x \in t : TRUE
                                 IN  Weight(Rank(x), n) + count[t \ {x}]
      <3>1. CASE t = {}
        BY <1>9, <3>1
      <3>2. CASE t # {}
        <4> DEFINE x == CHOOSE x \in t : TRUE
        <4>1. x \in t
          BY <3>2
        <4> HIDE DEF x
        <4>2. t \in SUBSET Tested /\ t \ {x} \in SUBSET torn
          BY <1>10
        <4>3. count[t] = Weight(Rank(x), n) + count[t \ {x}]
          BY <1>8, <4>1, <4>2
        <4>4. QED
          BY <3>2, <4>3 DEF x
      <3>3. QED
        BY <3>1, <3>2
    <2>2. QED
      BY <2>1
  <1>12. Adds(iter)
    BY <1>11
  <1>13. total = iter[torn]
    BY Zenon DEF MapThenSumSet, MapThenFoldSet
  <1>14. \A t \in SUBSET torn : iter[t] = IF t = {} THEN 0
                                         ELSE LET x == CHOOSE x \in t : TRUE
                                              IN  Weight(Rank(x), n) + iter[t \ {x}]
    <2> HIDE DEF iter
    <2>1. iter = [t \in SUBSET torn |-> IF t = {} THEN 0
                    ELSE LET x == CHOOSE x \in t : TRUE IN Weight(Rank(x), n) + iter[t \ {x}]]
      BY <1>12 DEF Adds
    <2>2. QED
      BY <2>1, Zenon
  <1>15. \A t \in SUBSET torn : iter[t] = count[t]
    <2> HIDE DEF iter
    <2> DEFINE wrong == {t \in SUBSET torn : iter[t] # count[t]}
               sizesOfWrong == {Cardinality(t) : t \in wrong}
    <2>1. SUFFICES ASSUME wrong # {} PROVE FALSE
      OBVIOUS
    <2>2. \A t \in SUBSET torn : IsFiniteSet(t) /\ Cardinality(t) \in Nat
      BY <1>10, FS_Subset, FS_CardinalityType
    <2>3. sizesOfWrong \in SUBSET Nat /\ sizesOfWrong # {}
      BY <2>1, <2>2
    <2>4. PICK t \in wrong : \A u \in wrong : Cardinality(t) <= Cardinality(u)
      <3>1. Min(sizesOfWrong) \in sizesOfWrong /\ \A m \in sizesOfWrong : Min(sizesOfWrong) <= m
        BY <2>3, LeastIs
      <3>2. QED
        BY <3>1
    <2>5. t \in SUBSET torn /\ iter[t] # count[t]
      OBVIOUS
    <2>6. t # {}
      BY <1>9, <1>14, <2>5
    <2> DEFINE x == CHOOSE x \in t : TRUE
               u == t \ {x}
    <2>7. x \in t
      BY <2>6
    <2>8. iter[t] = Weight(Rank(x), n) + iter[u]
      BY <1>14, <2>5, <2>6
    <2> HIDE DEF x
    <2>9. u \in SUBSET torn /\ Cardinality(u) = Cardinality(t) - 1
      BY <2>2, <2>5, <2>7, FS_RemoveElement
    <2>10. iter[u] = count[u]
      <3>1. ~(Cardinality(t) <= Cardinality(u))
        BY <2>2, <2>5, <2>9
      <3>2. QED
        BY <2>4, <2>9, <3>1
    <2>11. count[t] = Weight(Rank(x), n) + count[u]
      <3>1. t \in SUBSET Tested
        BY <1>10, <2>5
      <3>2. QED
        BY <1>8, <2>5, <2>7, <2>9, <3>1
    <2>12. QED
      BY <2>5, <2>8, <2>10, <2>11
  <1>16. total = Ewma(Marks(torn, n)).n
    <2> HIDE DEF iter, total
    <2>1. torn \in SUBSET torn /\ count[torn] = Ewma(Marks(torn, n)).n
      OBVIOUS
    <2>2. QED
      BY <1>13, <1>15, <2>1
  <1>17. DivergenceRate(Past) = Ewma(Marks(torn, n))
    <2>1. ASSUME NEW i \in 1 .. n
          PROVE  s[i] = "diverged" <=> \E c \in torn : Rank(c) = i
      BY <1>3, <1>4 DEF torn
    <2>2. [i \in DOMAIN s |-> Indicator(s[i] = "diverged")] = Marks(torn, n)
      <3>1. DOMAIN s = 1 .. n
        BY <1>2 DEF n, s
      <3>2. QED
        BY <2>1, <3>1 DEF Marks, Indicator
    <2>3. QED
      BY <2>2 DEF DivergenceRate, s
  <1>18. /\ Ewma(Marks(torn, n)).n \in Nat
         /\ Ewma(Marks(torn, n)).d = Power(AlphaDen, n - 1)
    <2>1. PICK f : Averages(Marks(torn, n), n, f) /\ Ewma(Marks(torn, n)) = f[n]
      BY <1>7
    <2>2. \A k \in 1 .. n : f[k].n \in Nat /\ f[k].d = Power(AlphaDen, k - 1)
      BY <1>5, <1>6, <2>1, AveragesAreOverPowers
    <2>3. QED
      BY <1>5, <2>1, <2>2
  <1>19. DivergenceRate(Past).n * Power(AlphaDen, n - 1) = total * DivergenceRate(Past).d
    BY <1>16, <1>17, <1>18
  <1>20. QED
    BY <1>19 DEF n, torn

(***************************************************************************)
(* For any smoothing factor and any history, the divergence rate is what   *)
(* the commits that disagree with themselves weigh, each by its rank among *)
(* all that were tested: neither the folding order nor how the rows were   *)
(* grouped shows in it.                                                    *)
(***************************************************************************)
THEOREM DivergenceRateIsAlwaysWeightedShare == Spec => []DivergenceRateIsWeightedShare
  BY DetectionIsCurrent, DivergenceRateIsWeightedShareNow, PTL

=============================================================================
