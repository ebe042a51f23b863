----------------------------- MODULE FilesProofs -----------------------------
(***************************************************************************)
(* Proofs about the two things processes share on disk.                    *)
(*                                                                         *)
(* The schema of the run store, for any processes, builds and migrations.  *)
(* The invariant that makes it whole says where a process that opens the   *)
(* store can be: it never believes in a newer version than there is, so    *)
(* the only script that does not fail is that of the next version.         *)
(*                                                                         *)
(* The files of the response cache, for any number of writers and any      *)
(* answers: they implement an atomic cache, because every whole text in    *)
(* them was offered by a writer, and damage takes two writers, because one *)
(* alone has the temporary file to itself.                                 *)
(***************************************************************************)
EXTENDS StoreSchema, CacheFiles, TLAPS

-----------------------------------------------------------------------------
(* The schema of the run store.                                            *)

\* Who is where while the schema is brought up.
OpenersInv ==
    \A p \in Procs :
        /\ reached[p] <= version
        /\ link[p] = "migrating" => reached[p] < Knows[p]
        /\ link[p] = "open" => Knows[p] <= version

SchemaInv == SchemaTypeOK /\ SchemaIsWhole /\ OpenersInv

-----------------------------------------------------------------------------
(* The tables of a version.                                                *)

\* A version keeps the tables of the versions before it.
LEMMA TablesGrow ==
    ASSUME NEW v \in Nat, NEW w \in Nat, v <= w
    PROVE  TablesOf(v) \subseteq TablesOf(w)
<1>1. 1 .. v \subseteq 1 .. w
  OBVIOUS
<1> QED
  BY <1>1 DEF TablesOf

\* The next version has the tables of its own script as well.
LEMMA NextTables ==
    ASSUME NEW v \in Nat
    PROVE  TablesOf(v + 1) = TablesOf(v) \cup Migrations[v + 1]
<1>1. 1 .. v + 1 = (1 .. v) \cup {v + 1}
  OBVIOUS
<1> QED
  BY <1>1 DEF TablesOf

\* A script runs only on a store of an older version.
LEMMA ScriptIsNew ==
    ASSUME NEW v \in Nat, NEW next \in 1 .. Latest,
           Migrations[next] \cap TablesOf(v) = {}
    PROVE  v < next
<1>1. Latest \in Nat
  BY SchemaAssumption
<1> SUFFICES ASSUME next <= v PROVE FALSE
  BY <1>1
<1>2. next \in 1 .. v
  BY <1>1
<1>3. Migrations[next] \subseteq TablesOf(v)
  BY <1>2 DEF TablesOf
<1>4. Migrations[next] # {}
  BY SchemaAssumption
<1> QED
  BY <1>3, <1>4

-----------------------------------------------------------------------------
(* The invariant.                                                          *)

\* No table exists and no process has a connection at first.
LEMMA SchemaInvAtFirst == SchemaInit => SchemaInv
<1> SUFFICES ASSUME SchemaInit PROVE SchemaInv
  OBVIOUS
<1>0. Latest \in Nat
  BY SchemaAssumption
<1>1. SchemaTypeOK
  BY <1>0 DEF SchemaInit, SchemaTypeOK, Links
<1>2. SchemaIsWhole
  BY DEF SchemaInit, SchemaIsWhole, TablesOf
<1>3. ASSUME NEW p \in Procs PROVE reached[p] = 0 /\ version = 0 /\ link[p] = "closed"
  BY DEF SchemaInit
<1>4. ASSUME NEW p \in Procs
      PROVE  /\ reached[p] <= version
             /\ link[p] = "migrating" => reached[p] < Knows[p]
             /\ link[p] = "open" => Knows[p] <= version
  <2>1. "closed" # "migrating" /\ "closed" # "open" /\ 0 <= 0
    OBVIOUS
  <2> QED
    BY <1>3, <2>1
<1>5. OpenersInv
  BY <1>4 DEF OpenersInv
<1> QED
  BY <1>1, <1>2, <1>5 DEF SchemaInv

\* A script that does not fail brings the store from its version to the next.
LEMMA MigrateIsNext ==
    ASSUME SchemaInv, NEW p \in Procs, Migrate(p)
    PROVE  /\ reached[p] = version
           /\ version' = version + 1 /\ version' \in 0 .. Latest
           /\ version' <= Knows[p]
           /\ tables' = TablesOf(version')
           /\ tables' \subseteq Tables
<1>1. /\ Latest \in Nat /\ Knows[p] \in 1 .. Latest /\ version \in 0 .. Latest
      /\ reached[p] \in 0 .. Latest
  BY SchemaAssumption DEF SchemaInv, SchemaTypeOK
<1>2. reached[p] <= version /\ reached[p] < Knows[p]
  BY DEF SchemaInv, OpenersInv, Migrate
<1>3. reached[p] + 1 \in 1 .. Latest
  BY <1>1, <1>2
<1>4. Migrations[reached[p] + 1] \cap TablesOf(version) = {}
  BY DEF Migrate, CanCreate, SchemaInv, SchemaIsWhole
<1>5. version < reached[p] + 1
  BY <1>1, <1>3, <1>4, ScriptIsNew
<1>6. reached[p] = version
  BY <1>1, <1>2, <1>5
<1>7. version' = version + 1 /\ tables' = tables \cup Migrations[version + 1]
  BY <1>6 DEF Migrate
<1>8. tables' = TablesOf(version')
  BY <1>1, <1>7, NextTables DEF SchemaInv, SchemaIsWhole
<1>9. Migrations[version + 1] \subseteq Tables
  BY <1>3, <1>6, SchemaAssumption
<1> QED
  BY <1>1, <1>2, <1>6, <1>7, <1>8, <1>9 DEF SchemaInv, SchemaTypeOK

\* Every step of an opener keeps the invariant.
LEMMA SchemaInvIsKept == SchemaInv /\ [SchemaNext]_schemaVars => SchemaInv'
<1> SUFFICES ASSUME SchemaInv, [SchemaNext]_schemaVars PROVE SchemaInv'
  OBVIOUS
<1> USE SchemaAssumption DEF SchemaInv
<1>0. /\ Latest \in Nat /\ Knows \in [Procs -> 1 .. Latest] /\ version \in 0 .. Latest
      /\ link \in [Procs -> Links] /\ reached \in [Procs -> 0 .. Latest] /\ tables \subseteq Tables
  BY DEF SchemaTypeOK
<1>1. ASSUME NEW p \in Procs, ReadVersion(p) PROVE SchemaInv'
  <2>1. SchemaTypeOK'
    BY <1>0, <1>1 DEF ReadVersion, SchemaTypeOK, Links
  <2>2. SchemaIsWhole'
    BY <1>1 DEF ReadVersion, SchemaIsWhole
  <2>3. OpenersInv'
    BY <1>0, <1>1 DEF ReadVersion, OpenersInv, Links
  <2> QED
    BY <2>1, <2>2, <2>3
<1>2. ASSUME NEW p \in Procs, Migrate(p) PROVE SchemaInv'
  <2>1. /\ reached[p] = version /\ version' = version + 1 /\ version' \in 0 .. Latest
        /\ version' <= Knows[p] /\ tables' = TablesOf(version') /\ tables' \subseteq Tables
    BY <1>2, MigrateIsNext
  <2>2. /\ reached' = [reached EXCEPT ![p] = version']
        /\ link' = [link EXCEPT ![p] = IF version' = Knows[p] THEN "open" ELSE @]
    BY <1>2 DEF Migrate
  <2>3. SchemaTypeOK'
    BY <1>0, <2>1, <2>2 DEF SchemaTypeOK, Links
  <2>4. SchemaIsWhole'
    BY <2>1 DEF SchemaIsWhole, TablesOf
  <2>5. ASSUME NEW q \in Procs
        PROVE  /\ reached'[q] <= version'
               /\ link'[q] = "migrating" => reached'[q] < Knows[q]
               /\ link'[q] = "open" => Knows[q] <= version'
    <3>1. /\ reached[q] <= version /\ reached[q] \in 0 .. Latest /\ Knows[q] \in 1 .. Latest
          /\ link[q] = "migrating" => reached[q] < Knows[q]
          /\ link[q] = "open" => Knows[q] <= version
      BY <1>0 DEF OpenersInv
    <3>2. CASE q = p
      <4>1. reached'[p] = version'
        BY <1>0, <2>2
      <4>2. link'[p] = IF version' = Knows[p] THEN "open" ELSE link[p]
        BY <1>0, <2>2
      <4>3. link[p] = "migrating"
        BY <1>2 DEF Migrate
      <4> QED
        BY <1>0, <2>1, <3>1, <3>2, <4>1, <4>2, <4>3
    <3>3. CASE q # p
      <4>1. reached'[q] = reached[q] /\ link'[q] = link[q]
        BY <1>0, <2>2, <3>3
      <4> QED
        BY <1>0, <2>1, <3>1, <4>1
    <3> QED
      BY <3>2, <3>3
  <2>6. OpenersInv'
    BY <2>5 DEF OpenersInv
  <2> QED
    BY <2>3, <2>4, <2>6
<1>3. ASSUME NEW p \in Procs, MigrateTwice(p) \/ FailToOpen(p) \/ Disconnect(p) PROVE SchemaInv'
  <2>1. UNCHANGED <<version, tables, reached>>
    BY <1>3 DEF MigrateTwice, FailToOpen, Disconnect
  <2>2. PICK end \in {"failed", "closed"} : link' = [link EXCEPT ![p] = end]
    BY <1>3 DEF MigrateTwice, FailToOpen, Disconnect
  <2>3. SchemaTypeOK'
    BY <1>0, <2>1, <2>2 DEF SchemaTypeOK, Links
  <2>4. SchemaIsWhole'
    BY <2>1 DEF SchemaIsWhole
  <2>5. OpenersInv'
    BY <1>0, <2>1, <2>2 DEF OpenersInv
  <2> QED
    BY <2>3, <2>4, <2>5
<1>4. CASE UNCHANGED schemaVars
  BY <1>4 DEF schemaVars, SchemaTypeOK, SchemaIsWhole, OpenersInv
<1> QED
  BY <1>1, <1>2, <1>3, <1>4 DEF SchemaNext, SchemaStep

\* The invariant holds for ever.
LEMMA SchemaInvAlways == SchemaSpec => []SchemaInv
<1> QED
  BY SchemaInvAtFirst, SchemaInvIsKept, PTL DEF SchemaSpec

-----------------------------------------------------------------------------
(* What follows from it.                                                   *)

\* The version of the store says exactly which tables it has, whoever opens
\* it at the same time and wherever they die (apply_migrations).
THEOREM SchemaStaysWhole == SchemaSpec => []SchemaIsWhole
<1>1. SchemaInv => SchemaIsWhole
  BY DEF SchemaInv
<1> QED
  BY <1>1, SchemaInvAlways, PTL

\* Whoever has opened the store finds all the tables of its build (connect).
THEOREM OpenStoresAreUsable == SchemaSpec => []OpenStoreIsUsable
<1>1. SchemaInv => OpenStoreIsUsable
  <2> SUFFICES ASSUME SchemaInv, NEW p \in Procs, link[p] = "open"
               PROVE  TablesOf(Knows[p]) \subseteq tables
    BY DEF OpenStoreIsUsable
  <2>1. Knows[p] \in Nat /\ version \in Nat
    BY SchemaAssumption DEF SchemaInv, SchemaTypeOK
  <2>2. Knows[p] <= version
    BY DEF SchemaInv, OpenersInv
  <2> QED
    BY <2>1, <2>2, TablesGrow DEF SchemaInv, SchemaIsWhole
<1> QED
  BY <1>1, SchemaInvAlways, PTL

\* The schema is brought forward a version at a time and no table is ever
\* dropped, also by a process that read an old version (apply_migrations).
THEOREM SchemaOnlyForward == SchemaSpec => ForwardOnly
<1>1. SchemaInv /\ [SchemaNext]_schemaVars
        => [version' \in {version, version + 1} /\ tables \subseteq tables']_schemaVars
  <2> SUFFICES ASSUME SchemaInv, SchemaNext
               PROVE  version' \in {version, version + 1} /\ tables \subseteq tables'
    OBVIOUS
  <2>1. PICK p \in Procs : SchemaStep(p)
    BY DEF SchemaNext
  <2>2. CASE Migrate(p)
    BY <2>2, MigrateIsNext DEF Migrate
  <2>3. CASE ReadVersion(p) \/ MigrateTwice(p) \/ FailToOpen(p) \/ Disconnect(p)
    BY <2>3 DEF ReadVersion, MigrateTwice, FailToOpen, Disconnect
  <2> QED
    BY <2>1, <2>2, <2>3 DEF SchemaStep
<1> QED
  BY <1>1, SchemaInvAlways, PTL DEF SchemaSpec, ForwardOnly

-----------------------------------------------------------------------------
(* The files of the response cache.                                        *)

\* What the files hold when they hold an answer.
OfferedInv ==
    /\ entry \in offered \cup {Absent, Empty, Torn}
    /\ temporary \in offered \cup {Absent, Empty, Torn}
    /\ \A p \in Storing : mine[p] \in offered

CacheInv == CacheTypeOK /\ OfferedInv

\* What is true until two writers store at the same time.
AloneInv ==
    ~overlapped =>
        /\ ~EntryDamaged
        /\ \A p, q \in Storing : p = q
        /\ \A p \in Writers :
            /\ doing[p] = "writing" => target[p] = "temporary" /\ temporary = Empty
            /\ doing[p] = "moving" => temporary \in Answers
            /\ doing[p] # "writing" => target[p] = Nothing

\* The five marks of a file and the answers are all different.
LEMMA Marks ==
    /\ Absent # Empty /\ Absent # Torn /\ Empty # Torn
    /\ \A a \in Answers : a # Absent /\ a # Empty /\ a # Torn
  BY AnswersAssumption DEF Absent, Empty, Torn

-----------------------------------------------------------------------------
(* The types.                                                              *)

\* The variables have their types at first.
LEMMA TypedAtFirst == CacheInit => CacheTypeOK
  BY DEF CacheInit, CacheTypeOK, Contents

\* What a file may hold after a write.
LEMMA OverIsOwn ==
    ASSUME NEW old, NEW a, NEW new \in Over(old, a)
    PROVE  new = a \/ (new = Torn /\ old # Empty)
  BY DEF Over

\* Removing or replacing the entry leaves the types of the open files.
LEMMA UnlinkedTyped ==
    ASSUME CacheTypeOK
    PROVE  /\ Unlinked(target) \in [Writers -> {Nothing, "temporary", "entry", "unnamed"}]
           /\ \A p \in Writers : Unlinked(target)[p] =
                IF target[p] = "entry" THEN "unnamed" ELSE target[p]
  BY DEF CacheTypeOK, Unlinked

\* Every step keeps the types.
LEMMA TypedIsKept == CacheTypeOK /\ [CacheNext]_cacheVars => CacheTypeOK'
  <1> SUFFICES ASSUME CacheTypeOK, [CacheNext]_cacheVars PROVE CacheTypeOK'
    OBVIOUS
  <1> USE DEF CacheTypeOK
  <1>1. ASSUME NEW p \in Writers, Get(p) PROVE CacheTypeOK'
    BY <1>1 DEF Get, Readable, Contents
  <1>2. ASSUME NEW p \in Writers, Remove(p) PROVE CacheTypeOK'
    <2>1. target' \in [Writers -> {Nothing, "temporary", "entry", "unnamed"}]
      BY <1>2, UnlinkedTyped DEF Remove
    <2>2. QED
      BY <1>2, <2>1 DEF Remove
  <1>3. ASSUME NEW p \in Writers, KeepNothing(p) PROVE CacheTypeOK'
    BY <1>3 DEF KeepNothing
  <1>4. ASSUME NEW p \in Writers, BeginPut(p) PROVE CacheTypeOK'
    BY <1>4 DEF BeginPut, Open, Contents
  <1>5. ASSUME NEW p \in Writers, Write(p) PROVE CacheTypeOK'
    <2>1. mine[p] \in Answers \cup {Absent}
      OBVIOUS
    <2>2. Over(temporary, mine[p]) \subseteq Contents \cup {Absent}
      BY <2>1 DEF Over, Contents
    <2>3. Over(entry, mine[p]) \subseteq Contents \cup {Absent}
      BY <2>1 DEF Over, Contents
    <2>4. QED
      BY <1>5, <2>2, <2>3 DEF Write
  <1>6. ASSUME NEW p \in Writers, Move(p) PROVE CacheTypeOK'
    <2>1. CASE temporary = Absent
      BY <1>6, <2>1 DEF Move
    <2>2. CASE temporary # Absent
      <3>1. target' \in [Writers -> {Nothing, "temporary", "entry", "unnamed"}]
        BY <1>6, <2>2, UnlinkedTyped DEF Move
      <3>2. entry' = temporary /\ temporary' = Absent
        BY <1>6, <2>2 DEF Move
      <3>3. QED
        BY <1>6, <3>1, <3>2 DEF Move
    <2>3. QED
      BY <2>1, <2>2
  <1>7. ASSUME NEW p \in Writers, Die(p) PROVE CacheTypeOK'
    BY <1>7 DEF Die
  <1>8. CASE UNCHANGED cacheVars
    BY <1>8 DEF cacheVars
  <1>9. QED
    BY <1>1, <1>2, <1>3, <1>4, <1>5, <1>6, <1>7, <1>8 DEF CacheNext, CacheStep

\* The variables have their types for ever.
THEOREM CacheTyped == CacheSpec => []CacheTypeOK
  BY TypedAtFirst, TypedIsKept, PTL DEF CacheSpec

-----------------------------------------------------------------------------
(* The answers in the files were offered.                                  *)

\* Every step keeps the invariant.
LEMMA OfferedIsKept == CacheInv /\ [CacheNext]_cacheVars => OfferedInv'
  <1> SUFFICES ASSUME CacheInv, [CacheNext]_cacheVars PROVE OfferedInv'
    OBVIOUS
  <1> USE DEF CacheInv, CacheTypeOK, OfferedInv, Storing
  <1>1. ASSUME NEW p \in Writers, Get(p) \/ Remove(p) \/ KeepNothing(p) \/ Die(p)
        PROVE  OfferedInv'
    <2>1. /\ entry' \in {entry, Absent} /\ temporary' = temporary /\ offered' = offered
          /\ mine' = mine
      BY <1>1 DEF Get, Remove, KeepNothing, Die
    <2>2. Storing' \subseteq Storing
      BY <1>1 DEF Get, Remove, KeepNothing, Die
    <2>3. QED
      BY <2>1, <2>2
  <1>2. ASSUME NEW p \in Writers, BeginPut(p) PROVE OfferedInv'
    <2>1. PICK a \in Answers : /\ Open(p, a) /\ mine' = [mine EXCEPT ![p] = a]
                               /\ offered' = offered \cup {a}
      BY <1>2 DEF BeginPut
    <2>2. Storing' \subseteq Storing \cup {p}
      BY <1>2 DEF BeginPut
    <2>3. \A q \in Storing' : mine'[q] \in offered'
      BY <2>1, <2>2
    <2>4. QED
      BY <2>1, <2>3 DEF Open
  <1>3. ASSUME NEW p \in Writers, Write(p) PROVE OfferedInv'
    <2>1. mine[p] \in offered
      BY <1>3 DEF Write
    <2>2. Storing' = Storing /\ mine' = mine /\ offered' = offered
      BY <1>3 DEF Write
    <2>3. entry' \in Over(entry, mine[p]) \cup {entry}
          /\ temporary' \in Over(temporary, mine[p]) \cup {temporary}
      BY <1>3 DEF Write
    <2>4. QED
      BY <2>1, <2>2, <2>3 DEF Over
  <1>4. ASSUME NEW p \in Writers, Move(p) PROVE OfferedInv'
    <2>1. entry' \in {entry, temporary} /\ temporary' \in {temporary, Absent}
          /\ offered' = offered /\ mine' = mine
      BY <1>4 DEF Move
    <2>2. Storing' \subseteq Storing
      BY <1>4 DEF Move
    <2>3. QED
      BY <2>1, <2>2
  <1>5. CASE UNCHANGED cacheVars
    BY <1>5 DEF cacheVars
  <1>6. QED
    BY <1>1, <1>2, <1>3, <1>4, <1>5 DEF CacheNext, CacheStep

\* The invariant holds for ever.
LEMMA CacheInvAlways == CacheSpec => []CacheInv
  <1>1. CacheInit => CacheInv
    BY TypedAtFirst DEF CacheInv, OfferedInv, CacheInit, Storing
  <1>2. CacheInv /\ [CacheNext]_cacheVars => CacheInv'
    BY TypedIsKept, OfferedIsKept DEF CacheInv
  <1>3. QED
    BY <1>1, <1>2, PTL DEF CacheSpec

-----------------------------------------------------------------------------
(* The files implement an atomic cache.                                    *)

\* The entry as the atomic cache has it.
AtomicEntry == IF EntryDamaged THEN Absent ELSE entry

\* However the entry changes, the atomic cache puts an answer, loses one or
\* does nothing.
LEMMA EntryChanges ==
    ASSUME CacheInv, UNCHANGED <<got, offered>>, entry' \in offered \cup {Absent, Empty, Torn}
    PROVE  [Atomic!Next]_(<<AtomicEntry, offered, got>>)
  <1>1. AtomicEntry' \in offered \cup {Absent}
    BY DEF AtomicEntry, EntryDamaged
  <1>2. CASE AtomicEntry' \in offered
    <2>1. Atomic!Put
      BY <1>2 DEF Atomic!Put, AtomicEntry
    <2>2. QED
      BY <2>1 DEF Atomic!Next
  <1>3. CASE AtomicEntry' = Absent
    <2>1. Atomic!Lose
      BY <1>3 DEF Atomic!Lose, AtomicEntry
    <2>2. QED
      BY <2>1 DEF Atomic!Next
  <1>4. QED
    BY <1>1, <1>2, <1>3

\* A hit is a hit.
LEMMA GetHits ==
    ASSUME CacheInv, NEW p \in Writers, Get(p)
    PROVE  [Atomic!Next]_(<<AtomicEntry, offered, got>>)
  <1>1. CASE Readable(entry)
    <2>1. AtomicEntry = entry /\ AtomicEntry # Absent /\ AtomicEntry' = AtomicEntry
      BY <1>1, Marks DEF Get, AtomicEntry, EntryDamaged, Readable
    <2>2. got' = [got EXCEPT ![p] = AtomicEntry] /\ offered' = offered
      BY <1>1, <2>1 DEF Get
    <2>3. Atomic!Hit
      BY <2>1, <2>2 DEF Atomic!Hit, AtomicEntry
    <2>4. QED
      BY <2>3 DEF Atomic!Next
  <1>2. CASE ~Readable(entry)
    BY <1>2 DEF Get, AtomicEntry, EntryDamaged
  <1>3. QED
    BY <1>1, <1>2

\* Beginning to write offers an answer and leaves the entry alone.
LEMMA PutOffers ==
    ASSUME NEW p \in Writers, BeginPut(p)
    PROVE  [Atomic!Next]_(<<AtomicEntry, offered, got>>)
  <1>1. PICK a \in Answers : Open(p, a) /\ offered' = offered \cup {a}
    BY DEF BeginPut
  <1>2. UNCHANGED <<AtomicEntry, got>>
    BY <1>1 DEF BeginPut, Open, AtomicEntry, EntryDamaged
  <1>3. Atomic!Offer
    BY <1>1, <1>2 DEF Atomic!Offer, AtomicEntry
  <1>4. QED
    BY <1>3 DEF Atomic!Next

\* Whatever writers, removals and deaths do to the files, readers see an
\* atomic cache that holds an answer offered for the key, or nothing (get,
\* put).
THEOREM FilesImplementCache == CacheSpec => ImplementsAtomicCache
  <1>1. CacheInit => Atomic!Init
    BY Marks DEF CacheInit, Atomic!Init, EntryDamaged
  <1>2. CacheInv /\ CacheInv' /\ [CacheNext]_cacheVars
            => [Atomic!Next]_(<<AtomicEntry, offered, got>>)
    <2> SUFFICES ASSUME CacheInv, CacheInv', [CacheNext]_cacheVars
                 PROVE  [Atomic!Next]_(<<AtomicEntry, offered, got>>)
      OBVIOUS
    <2>1. ASSUME NEW p \in Writers, Get(p) PROVE [Atomic!Next]_(<<AtomicEntry, offered, got>>)
      BY <2>1, GetHits
    <2>2. ASSUME NEW p \in Writers, BeginPut(p)
          PROVE  [Atomic!Next]_(<<AtomicEntry, offered, got>>)
      BY <2>2, PutOffers
    <2>3. ASSUME NEW p \in Writers,
                 Remove(p) \/ KeepNothing(p) \/ Write(p) \/ Move(p) \/ Die(p)
          PROVE  [Atomic!Next]_(<<AtomicEntry, offered, got>>)
      <3>1. UNCHANGED <<got, offered>>
        BY <2>3 DEF Remove, KeepNothing, Write, Move, Die
      <3>2. entry' \in offered \cup {Absent, Empty, Torn}
        BY <3>1 DEF CacheInv, OfferedInv
      <3>3. QED
        BY <3>1, <3>2, EntryChanges
    <2>4. CASE UNCHANGED cacheVars
      BY <2>4 DEF cacheVars, AtomicEntry, EntryDamaged
    <2>5. QED
      BY <2>1, <2>2, <2>3, <2>4 DEF CacheNext, CacheStep
  <1>3. [][Atomic!Next]_(<<AtomicEntry, offered, got>>)
            => [][Atomic!Next]_(<<IF EntryDamaged THEN Absent ELSE entry, offered, got>>)
    BY DEF AtomicEntry
  <1>4. QED
    BY <1>1, <1>2, <1>3, CacheInvAlways, PTL DEF CacheSpec, ImplementsAtomicCache, Atomic!Spec, Atomic!vars

-----------------------------------------------------------------------------
(* A writer alone.                                                         *)

\* Every step keeps what is true until two writers overlap.
LEMMA AloneIsKept == CacheInv /\ AloneInv /\ [CacheNext]_cacheVars => AloneInv'
  <1> SUFFICES ASSUME CacheInv, AloneInv, [CacheNext]_cacheVars, ~overlapped' PROVE AloneInv'
    BY DEF AloneInv
  <1>0. /\ doing \in [Writers -> {"idle", "unreadable", "missed", "writing", "moving"}]
        /\ target \in [Writers -> {Nothing, "temporary", "entry", "unnamed"}]
        /\ mine \in [Writers -> Answers \cup {Absent}]
        /\ overlapped \in BOOLEAN
        /\ \A p \in Storing : mine[p] \in Answers
    BY Marks DEF CacheInv, CacheTypeOK, OfferedInv
  <1>1. ~overlapped
    BY <1>0 DEF CacheNext, CacheStep, Get, Remove, KeepNothing, BeginPut, Write, Move, Die, cacheVars
  <1>2. /\ ~EntryDamaged
        /\ \A p, q \in Storing : p = q
        /\ \A p \in Writers :
            /\ doing[p] = "writing" => target[p] = "temporary" /\ temporary = Empty
            /\ doing[p] = "moving" => temporary \in Answers
            /\ doing[p] # "writing" => target[p] = Nothing
    BY <1>1 DEF AloneInv
  <1> USE <1>0, <1>2, Marks DEF EntryDamaged, Storing, Nothing
  <1>3. ASSUME NEW p \in Writers, Get(p) \/ KeepNothing(p) \/ Die(p) PROVE AloneInv'
    <2>1. UNCHANGED <<entry, temporary>>
      BY <1>3 DEF Get, KeepNothing, Die
    <2>2. PICK next \in {"idle", "missed", "unreadable"} :
             doing' \in {doing, [doing EXCEPT ![p] = next]}
      BY <1>3 DEF Get, KeepNothing, Die
    <2>3. \A q \in Writers : doing'[q] # "writing" => target'[q] = Nothing
      BY <1>3 DEF Get, KeepNothing, Die
    <2>4. \A q \in Writers : doing'[q] \in {"writing", "moving"} =>
             doing'[q] = doing[q] /\ target'[q] = target[q]
      BY <1>3, <2>2 DEF Get, KeepNothing, Die
    <2>5. QED
      BY <2>1, <2>3, <2>4 DEF AloneInv
  <1>4. ASSUME NEW p \in Writers, Remove(p) PROVE AloneInv'
    <2>1. /\ entry' = Absent /\ temporary' = temporary /\ target' = Unlinked(target)
          /\ doing' = [doing EXCEPT ![p] = "missed"]
      BY <1>4 DEF Remove
    <2>2. \A q \in Writers : target'[q] = target[q]
      BY <2>1 DEF Unlinked
    <2>3. QED
      BY <1>4, <2>1, <2>2 DEF AloneInv, Remove
  <1>5. ASSUME NEW p \in Writers, BeginPut(p) PROVE AloneInv'
    <2>1. /\ temporary' = Empty /\ target' = [target EXCEPT ![p] = "temporary"]
          /\ entry' = entry /\ doing' = [doing EXCEPT ![p] = "writing"]
      BY <1>5 DEF BeginPut, Open
    <2>2. Storing = {}
      BY <1>5 DEF BeginPut
    <2>3. QED
      BY <2>1, <2>2 DEF AloneInv
  <1>6. ASSUME NEW p \in Writers, Write(p) PROVE AloneInv'
    <2>1. doing[p] = "writing" /\ target[p] = "temporary" /\ temporary = Empty /\ p \in Storing
      BY <1>6 DEF Write
    <2>2. /\ temporary' = mine[p] /\ entry' = entry
          /\ target' = [target EXCEPT ![p] = Nothing]
          /\ doing' = [doing EXCEPT ![p] = "moving"]
      BY <1>6, <2>1 DEF Write, Over
    <2>3. \A q \in Writers : doing[q] \in {"writing", "moving"} => q = p
      BY <2>1
    <2>4. \A q \in Writers : q # p => doing'[q] = doing[q] /\ target'[q] = target[q]
      BY <2>2
    <2>5. doing'[p] = "moving" /\ target'[p] = Nothing /\ temporary' \in Answers
      BY <2>1, <2>2
    <2>6. QED
      BY <2>2, <2>3, <2>4, <2>5 DEF AloneInv
  <1>7. ASSUME NEW p \in Writers, Move(p) PROVE AloneInv'
    <2>1. doing[p] = "moving" /\ temporary \in Answers /\ p \in Storing
      BY <1>7 DEF Move
    <2>2. /\ entry' = temporary /\ doing' = [doing EXCEPT ![p] = "idle"]
          /\ target' = [q \in Writers |->
                IF target[q] = "temporary" THEN "entry" ELSE Unlinked(target)[q]]
      BY <1>7, <2>1 DEF Move
    <2>3. \A q \in Writers : doing[q] \in {"writing", "moving"} => q = p
      BY <2>1
    <2>4. \A q \in Writers : target[q] = Nothing
      BY <2>1, <2>3
    <2>5. \A q \in Writers : target'[q] = Nothing /\ doing'[q] \notin {"writing", "moving"}
      BY <2>2, <2>3, <2>4 DEF Unlinked
    <2>6. QED
      BY <2>1, <2>2, <2>5 DEF AloneInv
  <1>8. CASE UNCHANGED cacheVars
    BY <1>8 DEF cacheVars, AloneInv
  <1>9. QED
    BY <1>3, <1>4, <1>5, <1>6, <1>7, <1>8 DEF CacheNext, CacheStep

\* A process alone never leaves a damaged entry, wherever it dies: it takes
\* two that store an answer to the same key at the same time (put).
THEOREM DamageNeedsTwo == CacheSpec => []DamageTakesTwoWriters
  <1>1. CacheInit => AloneInv
    BY Marks DEF CacheInit, AloneInv, EntryDamaged, Storing
  <1>2. AloneInv => DamageTakesTwoWriters
    BY DEF AloneInv, DamageTakesTwoWriters
  <1>3. QED
    BY <1>1, <1>2, AloneIsKept, CacheInvAlways, PTL DEF CacheSpec
=============================================================================
