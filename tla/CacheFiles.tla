----------------------------- MODULE CacheFiles -----------------------------
(***************************************************************************)
(* The files behind one key of the response cache (classify/cache.py), as  *)
(* several processes use them.  A process that misses writes its answer to *)
(* a temporary file whose name depends on the key alone, so that it shares *)
(* it with any other, and moves it over the entry.  An open file follows   *)
(* the move: a process may be writing to what has become the entry, or to  *)
(* a file that has lost its name.  A file is moved although it is open     *)
(* elsewhere, as POSIX has it.                                             *)
(***************************************************************************)
EXTENDS FiniteSets

CONSTANTS
    Writers,
    Answers         \* what the processes may have to store, as text

VARIABLES
    entry,          \* the file <key>.json
    temporary,      \* the file <key>.tmp
    doing,          \* doing[p]: where p is in get and put
    target,         \* target[p]: the file p has open for writing
    mine,           \* mine[p]: the answer p stores
    got,            \* history: p's last hit
    offered,        \* history: the answers there were to store
    overlapped      \* history: two processes were storing at the same time

cacheVars == <<entry, temporary, doing, target, mine, got, offered, overlapped>>

Absent == "absent"
Empty == "empty"
Torn == "torn"      \* an answer with the end of a longer one after it

ASSUME AnswersAssumption == Answers \cap {Absent, Empty, Torn} = {}

Contents == Answers \cup {Empty, Torn}

Nothing == "nothing"

CacheInit ==
    /\ entry = Absent /\ temporary = Absent
    /\ doing = [p \in Writers |-> "idle"]
    /\ target = [p \in Writers |-> Nothing]
    /\ mine = [p \in Writers |-> Absent]
    /\ got = [p \in Writers |-> Absent]
    /\ offered = {} /\ overlapped = FALSE

-----------------------------------------------------------------------------
\* A mutant of Readable: whatever is there is taken.
MutReadable(file) == file # Absent

\* The text is JSON and has the fields of a classification.
Readable(file) == file \in Answers

\* get: a hit, a miss, or an entry that cannot be read.
Get(p) ==
    /\ doing[p] = "idle"
    /\ IF Readable(entry)
       THEN got' = [got EXCEPT ![p] = entry] /\ UNCHANGED doing
       ELSE /\ doing' = [doing EXCEPT ![p] = IF entry = Absent THEN "missed" ELSE "unreadable"]
            /\ UNCHANGED got
    /\ UNCHANGED <<entry, temporary, target, mine, offered, overlapped>>

\* The open files when the entry is no longer what it was.
Unlinked(open) == [p \in Writers |-> IF open[p] = "entry" THEN "unnamed" ELSE open[p]]

\* A mutant of Remove: an entry that cannot be read is only a miss.
MutRemove(p) ==
    /\ doing[p] = "unreadable"
    /\ doing' = [doing EXCEPT ![p] = "missed"]
    /\ UNCHANGED <<entry, temporary, target, mine, got, offered, overlapped>>

\* get: what could not be read is removed, by then perhaps another file.
Remove(p) ==
    /\ doing[p] = "unreadable"
    /\ entry' = Absent
    /\ target' = Unlinked(target)
    /\ doing' = [doing EXCEPT ![p] = "missed"]
    /\ UNCHANGED <<temporary, mine, got, offered, overlapped>>

\* The answer says nothing of the evidence, or the file cannot be opened.
KeepNothing(p) ==
    /\ doing[p] = "missed"
    /\ doing' = [doing EXCEPT ![p] = "idle"]
    /\ UNCHANGED <<entry, temporary, target, mine, got, offered, overlapped>>

Storing == {p \in Writers : doing[p] \in {"writing", "moving"}}

\* A mutant of Open: the entry is written in place.
MutOpen(p, a) ==
    /\ entry' = Empty
    /\ target' = [target EXCEPT ![p] = "entry"]
    /\ UNCHANGED temporary

\* The temporary file is created or truncated.
Open(p, a) ==
    /\ temporary' = Empty
    /\ target' = [target EXCEPT ![p] = "temporary"]
    /\ UNCHANGED entry

\* put begins.
BeginPut(p) ==
    /\ doing[p] = "missed"
    /\ \E a \in Answers :
        /\ Open(p, a)
        /\ mine' = [mine EXCEPT ![p] = a]
        /\ offered' = offered \cup {a}
    /\ doing' = [doing EXCEPT ![p] = "writing"]
    /\ overlapped' = (overlapped \/ Storing # {})
    /\ UNCHANGED got

\* What a file may hold after a is written over its first bytes.
Over(old, a) == IF old \in {Empty, a} THEN {a} ELSE {a, Torn}

\* put: the text is written and the file closed.
Write(p) ==
    /\ doing[p] = "writing"
    /\ IF target[p] = "temporary"
       THEN temporary' \in Over(temporary, mine[p]) /\ UNCHANGED entry
       ELSE IF target[p] = "entry"
       THEN entry' \in Over(entry, mine[p]) /\ UNCHANGED temporary
       ELSE UNCHANGED <<entry, temporary>>
    /\ target' = [target EXCEPT ![p] = Nothing]
    /\ doing' = [doing EXCEPT ![p] = "moving"]
    /\ UNCHANGED <<mine, got, offered, overlapped>>

\* put: the temporary file is moved over the entry, if nobody else has moved
\* it before.
Move(p) ==
    /\ doing[p] = "moving"
    /\ IF temporary = Absent
       THEN UNCHANGED <<entry, temporary, target>>
       ELSE /\ entry' = temporary
            /\ temporary' = Absent
            /\ target' = [q \in Writers |->
                    IF target[q] = "temporary" THEN "entry" ELSE Unlinked(target)[q]]
    /\ doing' = [doing EXCEPT ![p] = "idle"]
    /\ UNCHANGED <<mine, got, offered, overlapped>>

\* The process dies.
Die(p) ==
    /\ doing[p] # "idle"
    /\ doing' = [doing EXCEPT ![p] = "idle"]
    /\ target' = [target EXCEPT ![p] = Nothing]
    /\ UNCHANGED <<entry, temporary, mine, got, offered, overlapped>>

CacheStep(p) ==
    \/ Get(p) \/ Remove(p) \/ KeepNothing(p) \/ BeginPut(p) \/ Write(p) \/ Move(p) \/ Die(p)

CacheNext == \E p \in Writers : CacheStep(p)

CacheSpec == CacheInit /\ [][CacheNext]_cacheVars

(* Triage is run again and again on the same failure, and does not die     *)
(* each time it has found that the entry cannot be read.                   *)
CacheFairness ==
    \A p \in Writers :
        /\ WF_cacheVars(KeepNothing(p) \/ BeginPut(p))
        /\ WF_cacheVars(Write(p)) /\ WF_cacheVars(Move(p))
        /\ SF_cacheVars(Get(p)) /\ SF_cacheVars(Remove(p))

FairCacheSpec == CacheSpec /\ CacheFairness

-----------------------------------------------------------------------------
\* The variables have their types.
CacheTypeOK ==
    /\ entry \in Contents \cup {Absent} /\ temporary \in Contents \cup {Absent}
    /\ doing \in [Writers -> {"idle", "unreadable", "missed", "writing", "moving"}]
    /\ target \in [Writers -> {Nothing, "temporary", "entry", "unnamed"}]
    /\ mine \in [Writers -> Answers \cup {Absent}]
    /\ got \in [Writers -> Answers \cup {Absent}]
    /\ offered \subseteq Answers
    /\ overlapped \in BOOLEAN

EntryDamaged == entry \in {Empty, Torn}

(***************************************************************************)
(* A process alone never leaves a damaged entry, wherever it dies: it      *)
(* takes two that store an answer to the same key at the same time (put:   *)
(* "a crash mid-write cannot leave a truncated entry").                    *)
(***************************************************************************)
DamageTakesTwoWriters == EntryDamaged => overlapped

\* The entry as an atomic cache sees it: what cannot be read is not there.
Atomic == INSTANCE AtomicCache WITH
    Readers <- Writers, stored <- IF EntryDamaged THEN Absent ELSE entry

(***************************************************************************)
(* Whatever writers, removals and deaths do to the files, readers see an   *)
(* atomic cache that holds an answer offered for the key, or nothing.      *)
(***************************************************************************)
ImplementsAtomicCache == Atomic!Spec

\* A damaged entry does not stay: "removing it keeps one bad write from
\* poisoning every future run" (cache.py:78).
DamageIsRepaired == EntryDamaged ~> ~EntryDamaged
=============================================================================
