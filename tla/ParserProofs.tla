---------------------------- MODULE ParserProofs ----------------------------
(***************************************************************************)
(* Proofs about the two parsers of files that others write, for documents  *)
(* and patches of any size, cut anywhere: no complete test case is lost    *)
(* from a JUnit file, none has output that is not its own or that of the   *)
(* nearest suite; no file that a git patch names is lost from a diff, and  *)
(* the changed lines of a file in which nothing is misread are exactly     *)
(* those that the patch changes.                                           *)
(***************************************************************************)
EXTENDS JUnitParser, DiffParser, FiniteSetTheorems, SequenceTheorems,
        WellFoundedInduction, TLAPS

\* A sequence, of whatever.
IsList(s) == \E S : s \in Seq(S)

-----------------------------------------------------------------------------
(* Lists and places.                                                       *)

\* A list with one more element.
LEMMA Appended ==
    ASSUME NEW s, NEW x, IsList(s)
    PROVE  /\ IsList(Append(s, x)) /\ Len(Append(s, x)) = Len(s) + 1
           /\ DOMAIN Append(s, x) = 1 .. Len(s) + 1
           /\ Append(s, x)[Len(s) + 1] = x /\ Last(Append(s, x)) = x
           /\ \A i \in 1 .. Len(s) : Append(s, x)[i] = s[i]
           /\ Len(s) \in Nat /\ DOMAIN s = 1 .. Len(s)
  <1>1. PICK S : s \in Seq(S)
    BY DEF IsList
  <1> DEFINE T == S \cup {x}
  <1>2. s \in Seq(T) /\ x \in T
    BY <1>1
  <1>3. Append(s, x) \in Seq(T)
    BY <1>2, AppendProperties
  <1>4. IsList(Append(s, x))
    BY <1>3 DEF IsList
  <1>5. /\ Len(Append(s, x)) = Len(s) + 1 /\ Append(s, x)[Len(s) + 1] = x
        /\ \A i \in 1 .. Len(s) : Append(s, x)[i] = s[i]
    BY <1>2, AppendProperties
  <1>6. /\ Len(s) \in Nat /\ DOMAIN s = 1 .. Len(s)
        /\ DOMAIN Append(s, x) = 1 .. Len(Append(s, x))
    BY <1>2, <1>3, LenProperties
  <1>7. Last(Append(s, x)) = x
    BY <1>5 DEF Last
  <1>8. QED
    BY <1>4, <1>5, <1>6, <1>7

\* A place before the last.
LEMMA NotLast ==
    ASSUME NEW k \in Nat, NEW n \in 1 .. k - 1
    PROVE  n \in 1 .. k /\ n # k /\ k \in 1 .. k
  OBVIOUS

\* The named files up to a place, and one more.
LEMMA NamedNext ==
    ASSUME NEW n \in Nat
    PROVE  /\ NamedUpTo(0) = {} /\ IsFiniteSet(NamedUpTo(n)) /\ Cardinality(NamedUpTo(n)) \in Nat
           /\ Cardinality(NamedUpTo(0)) = 0
           /\ Cardinality(NamedUpTo(n + 1)) =
                Cardinality(NamedUpTo(n)) + IF written[n + 1].named THEN 1 ELSE 0
           /\ NamedUpTo(n + 1) = NamedUpTo(n) \cup IF written[n + 1].named THEN {n + 1} ELSE {}
  <1>1. NamedUpTo(0) = {}
    BY DEF NamedUpTo
  <1>2. IsFiniteSet(NamedUpTo(n))
    <2>1. NamedUpTo(n) \subseteq 1 .. n /\ IsFiniteSet(1 .. n)
      BY FS_Interval DEF NamedUpTo
    <2>2. QED
      BY <2>1, FS_Subset
  <1>3. Cardinality(NamedUpTo(n)) \in Nat
    BY <1>2, FS_CardinalityType
  <1>4. NamedUpTo(n + 1) = NamedUpTo(n) \cup IF written[n + 1].named THEN {n + 1} ELSE {}
    BY DEF NamedUpTo
  <1>5. n + 1 \notin NamedUpTo(n)
    BY DEF NamedUpTo
  <1>6. Cardinality(NamedUpTo(n) \cup {n + 1}) = Cardinality(NamedUpTo(n)) + 1
    BY <1>2, <1>5, FS_AddElement
  <1>7. Cardinality(NamedUpTo(n + 1)) =
                Cardinality(NamedUpTo(n)) + IF written[n + 1].named THEN 1 ELSE 0
    BY <1>3, <1>4, <1>6
  <1>8. Cardinality({}) = 0
    BY FS_EmptySet
  <1>9. QED
    BY <1>1, <1>2, <1>3, <1>4, <1>7, <1>8

\* A named file is reported between the first change and the last.
LEMMA PlaceIn ==
    ASSUME NEW k \in Nat, NEW n \in NamedUpTo(k)
    PROVE  Cardinality(NamedUpTo(n)) \in 1 .. Cardinality(NamedUpTo(k))
  <1>1. n \in 1 .. k
    BY DEF NamedUpTo
  <1>2. NamedUpTo(n) \subseteq NamedUpTo(k) /\ n \in NamedUpTo(n)
    BY <1>1 DEF NamedUpTo
  <1>3. IsFiniteSet(NamedUpTo(k)) /\ IsFiniteSet(NamedUpTo(n))
    BY <1>1, NamedNext
  <1>4. Cardinality(NamedUpTo(n)) <= Cardinality(NamedUpTo(k))
    BY <1>2, <1>3, FS_Subset
  <1>5. Cardinality({n}) <= Cardinality(NamedUpTo(n))
    BY <1>2, <1>3, FS_Subset
  <1>6. Cardinality({n}) = 1
    BY FS_Singleton
  <1>7. Cardinality(NamedUpTo(n)) \in Nat /\ Cardinality(NamedUpTo(k)) \in Nat
    BY <1>1, NamedNext
  <1>8. QED
    BY <1>4, <1>5, <1>6, <1>7

-----------------------------------------------------------------------------
(* The patch, and what the parser knows of its last file.                  *)

Paths == Range(Names)

\* What the patch is, as far as the proofs need it.
PatchTyped ==
    /\ written \in Seq([path : Paths, old : Paths \cup {OldName}, type : ChangeTypes,
                        binary : BOOLEAN, named : BOOLEAN, legible : BOOLEAN,
                        added : SUBSET Int, removed : SUBSET Int, clean : BOOLEAN])
    /\ \A n \in DOMAIN written :
          written[n].old = IF written[n].type = "renamed" THEN OldName ELSE written[n].path
    /\ stage \in {"start", "header", "renaming", "extended", "old", "name", "hunk"}
    /\ stage = "start" <=> written = <<>>
    /\ due \in [old : Nat, new : Nat, changed : BOOLEAN]
    /\ at \in [old : Int, new : Int]
    /\ format \in Formats /\ outcome \in {"reading", "parsed", "failed"}
    /\ IsList(changes) /\ DOMAIN current = DOMAIN NoFile

\* The name of the last file, in a git patch.
TracksName ==
    /\ current.path = NoPath <=> ~File.named
    /\ File.legible => File.named
    /\ stage \in {"name", "hunk"} /\ ~File.binary => File.named
    /\ File.type # "renamed" /\ File.legible /\ Spelled(File) =>
          current.path = File.path /\ current.old = File.path
    /\ File.type # "renamed" /\ ~File.legible =>
          /\ current.path \in {NoPath, File.path}
          /\ current.old =
               IF stage \in {"old", "name", "hunk"} /\ File.type # "added" /\ ~File.binary
               THEN File.path ELSE NoPath
    /\ File.type = "renamed" /\ stage # "header" => current.old = OldName
    /\ File.type = "renamed" /\ stage \notin {"header", "renaming"} => current.path = File.path

\* Its kind of change.
TracksKind ==
    /\ current.type = IF stage = "header" THEN "modified" ELSE File.type
    /\ current.binary = IF stage = "name" THEN File.binary ELSE FALSE
    /\ stage \in {"old", "hunk"} => ~File.binary
    /\ stage = "renaming" => File.type = "renamed"
    /\ File.type = "added" => due.old = 0

\* The files before it are reported, and those without a name leave a warning.
Reported ==
    /\ Len(changes) = Cardinality(NamedUpTo(Len(written) - 1))
    /\ \A n \in NamedUpTo(Len(written) - 1) :
          Spelled(written[n]) => Describes(ChangeOf(n), written[n])

Warned == \A n \in DOMAIN written : ~written[n].legible => diffWarnings # {}

PatchInv ==
    /\ PatchTyped
    /\ outcome = "reading" /\ written = <<>> => changes = <<>> /\ current = NoFile /\ due.old = 0
    /\ outcome = "reading" /\ written # <<>> /\ format = "git" =>
          TracksName /\ TracksKind /\ Reported
    /\ format = "git" => Warned /\ \A n \in DOMAIN written : written[n].legible => written[n].named
    /\ FilesAreReported

\* The files of a patch.
FileRecords == [path : Paths, old : Paths \cup {OldName}, type : ChangeTypes,
                binary : BOOLEAN, named : BOOLEAN, legible : BOOLEAN,
                added : SUBSET Int, removed : SUBSET Int, clean : BOOLEAN]

\* Its last file, of which the parser is to say the right thing.
LEMMA LastFile ==
    ASSUME PatchTyped, written # <<>>
    PROVE  /\ Len(written) \in Nat \ {0} /\ DOMAIN written = 1 .. Len(written)
           /\ File = written[Len(written)] /\ File \in FileRecords
           /\ File.old = IF File.type = "renamed" THEN OldName ELSE File.path
           /\ IsList(written) /\ written \in Seq(FileRecords)
  <1>1. written \in Seq(FileRecords) /\ IsList(written)
    BY DEF PatchTyped, FileRecords, IsList
  <1>2. Len(written) \in Nat \ {0} /\ DOMAIN written = 1 .. Len(written)
    BY <1>1, LenProperties, EmptySeq
  <1>3. File = written[Len(written)] /\ Len(written) \in DOMAIN written
    BY <1>2 DEF File, Last
  <1>4. File \in FileRecords
    BY <1>1, <1>2, <1>3, ElementOfSeq
  <1>5. File.old = IF File.type = "renamed" THEN OldName ELSE File.path
    BY <1>3 DEF PatchTyped
  <1>6. QED
    BY <1>1, <1>2, <1>3, <1>4, <1>5

\* A line within a file.
Within == ExtendedHeader \/ RenameTo \/ Binary \/ OldFile \/ NewFile \/ Hunk \/ Body

\* What a line within a file may change of what the patch says.
Same(file, other) ==
    /\ other.path = file.path /\ other.old = file.old /\ other.type = file.type
    /\ other.binary = file.binary /\ other.legible = file.legible

\* A changed last file leaves the others.
LEMMA LastChanged ==
    ASSUME PatchTyped, written # <<>>, NEW file \in FileRecords,
           written' = [written EXCEPT ![Len(written)] = file], Same(File, file)
    PROVE  /\ written' \in Seq(FileRecords) /\ Len(written') = Len(written) /\ written' # <<>>
           /\ DOMAIN written' = DOMAIN written /\ File' = file
           /\ \A n \in 1 .. Len(written) - 1 : written'[n] = written[n]
           /\ \A n \in DOMAIN written : Same(written[n], written'[n])
  <1>1. /\ Len(written) \in Nat \ {0} /\ DOMAIN written = 1 .. Len(written)
        /\ written \in Seq(FileRecords) /\ File = written[Len(written)]
    BY LastFile
  <1>2. written' \in Seq(FileRecords) /\ Len(written') = Len(written)
    BY <1>1, ExceptSeq
  <1>3. written' # <<>> /\ DOMAIN written' = DOMAIN written
    BY <1>1, <1>2, LenProperties, EmptySeq
  <1>4. /\ written'[Len(written)] = file
        /\ \A n \in DOMAIN written : n # Len(written) => written'[n] = written[n]
    BY <1>1
  <1>5. File' = file
    BY <1>2, <1>4 DEF File, Last
  <1>6. \A n \in 1 .. Len(written) - 1 : written'[n] = written[n]
    <2>1. Len(written) \in Nat /\ DOMAIN written = 1 .. Len(written)
      BY <1>1
    <2>2. ASSUME NEW n \in 1 .. Len(written) - 1
          PROVE  written'[n] = written[n]
      <3>1. n \in 1 .. Len(written) /\ n # Len(written)
        BY <2>1, NotLast
      <3>2. QED
        BY <1>4, <2>1, <3>1
    <2>3. QED
      BY <2>2
  <1>7. \A n \in DOMAIN written : Same(written[n], written'[n])
    BY <1>1, <1>4 DEF Same
  <1>8. QED
    BY <1>2, <1>3, <1>5, <1>6, <1>7

\* Every line within a file changes at most what is known of that file.
LEMMA FileStep ==
    ASSUME PatchTyped, Within
    PROVE  /\ written # <<>>
           /\ \E file \in FileRecords :
                /\ written' = [written EXCEPT ![Len(written)] = file] /\ Same(File, file)
                /\ file.named <=> File.named \/ stage \in {"renaming", "old"}
  <1>1. written # <<>> /\ stage # "start"
    <2>1. stage \in {"header", "renaming", "extended", "old", "name", "hunk"}
      <3>1. CASE ExtendedHeader \/ RenameTo \/ Binary \/ OldFile
        BY <3>1 DEF ExtendedHeader, RenameTo, Binary, OldFile
      <3>2. CASE NewFile
        BY <3>2 DEF NewFile
      <3>3. CASE Hunk
        BY <3>3 DEF Hunk, HunkOf
      <3>4. CASE Body
        BY <3>4 DEF Body, BodyLine
      <3>5. QED
        BY <3>1, <3>2, <3>3, <3>4 DEF Within
    <2>2. QED
      BY <2>1 DEF PatchTyped
  <1>2. /\ Len(written) \in DOMAIN written /\ File = written[Len(written)] /\ File \in FileRecords
        /\ written \in Seq(FileRecords) /\ DOMAIN written = 1 .. Len(written)
    BY <1>1, LastFile
  <1> SUFFICES \E file \in FileRecords :
                 /\ written' = [written EXCEPT ![Len(written)] = file] /\ Same(File, file)
                 /\ file.named <=> File.named \/ stage \in {"renaming", "old"}
    BY <1>1
  <1> DEFINE Becomes(file) ==
               /\ written' = [written EXCEPT ![Len(written)] = file] /\ Same(File, file)
               /\ file.named <=> File.named \/ stage \in {"renaming", "old"}
  <1>3. CASE ExtendedHeader \/ Binary \/ OldFile
    <2>1. written' = written /\ stage \notin {"renaming", "old"}
      BY <1>3 DEF ExtendedHeader, Binary, OldFile
    <2>2. written' = [written EXCEPT ![Len(written)] = File]
      BY <1>2, <2>1
    <2>3. Becomes(File)
      BY <2>1, <2>2 DEF Same
    <2>4. QED
      BY <1>2, <2>3
  <1>4. CASE RenameTo \/ NewFile
    <2> DEFINE file == [File EXCEPT !.named = TRUE]
    <2>1. written' = Naming /\ stage \in {"renaming", "old"}
      BY <1>4 DEF RenameTo, NewFile
    <2>2. written' = [written EXCEPT ![Len(written)] = file]
      BY <1>2, <2>1 DEF Naming
    <2>3. file \in FileRecords /\ file.named /\ Same(File, file)
      BY <1>2 DEF FileRecords, Same
    <2>4. Becomes(file)
      BY <2>1, <2>2, <2>3
    <2>5. QED
      BY <2>3, <2>4
  <1>5. CASE Hunk
    <2>1. PICK skip \in {0, 1}, oc \in 0 .. MaxSpan, nc \in 0 .. MaxSpan, bare \in BOOLEAN :
             HunkOf(skip, oc, nc, bare)
      BY <1>5 DEF Hunk
    <2> DEFINE added == (at.new + skip) .. (at.new + skip) + nc - 1
               removed == (at.old + skip) .. (at.old + skip) + oc - 1
    <2>2. /\ stage \in {"name", "hunk"}
          /\ written' = IF ~bare THEN written
                  ELSE [written EXCEPT ![Len(written)].added = @ \cup added,
                                       ![Len(written)].removed = @ \cup removed]
      BY <2>1 DEF HunkOf
    <2>3. CASE ~bare
      <3>1. Becomes(File)
        BY <1>2, <2>2, <2>3 DEF Same
      <3>2. QED
        BY <1>2, <3>1
    <2>4. CASE bare
      <3> DEFINE file ==
            [File EXCEPT !.added = @ \cup added, !.removed = @ \cup removed]
      <3>1. written' = [written EXCEPT ![Len(written)] = file]
        BY <1>2, <2>2, <2>4 DEF FileRecords
      <3>2. /\ at.new + skip \in Int /\ at.old + skip \in Int /\ nc \in Int /\ oc \in Int
        BY DiffAssumption DEF PatchTyped
      <3>3. added \in SUBSET Int /\ removed \in SUBSET Int
        BY <3>2
      <3>4. file \in FileRecords /\ Same(File, file) /\ file.named = File.named
        BY <1>2, <3>3 DEF FileRecords, Same
      <3>5. Becomes(file)
        BY <2>2, <3>1, <3>4
      <3>6. QED
        BY <3>4, <3>5
    <2>5. QED
      BY <2>3, <2>4
  <1>6. CASE Body
    <2>1. PICK sign \in {"plus", "minus", "space"}, look \in Looks : BodyLine(sign, look)
      BY <1>6 DEF Body
    <2>2. /\ stage = "hunk"
          /\ written' = [written EXCEPT
               ![Len(written)].added = IF sign = "plus" THEN @ \cup {at.new} ELSE @,
               ![Len(written)].removed = IF sign = "minus" THEN @ \cup {at.old} ELSE @,
               ![Len(written)].clean = @ /\ look = "text"]
      BY <2>1 DEF BodyLine
    <2> DEFINE added == IF sign = "plus" THEN File.added \cup {at.new} ELSE File.added
               removed == IF sign = "minus" THEN File.removed \cup {at.old} ELSE File.removed
               clean == File.clean /\ look = "text"
               file == [File EXCEPT !.added = added, !.removed = removed, !.clean = clean]
    <2>3. written' = [written EXCEPT ![Len(written)] = file]
      BY <1>2, <2>2 DEF FileRecords
    <2>4. added \in SUBSET Int /\ removed \in SUBSET Int /\ clean \in BOOLEAN
      <3>1. at.new \in Int /\ at.old \in Int
        BY DEF PatchTyped
      <3>2. File.added \in SUBSET Int /\ File.removed \in SUBSET Int
        BY <1>2 DEF FileRecords
      <3>3. QED
        BY <3>1, <3>2
    <2>5. file \in FileRecords /\ Same(File, file) /\ file.named = File.named
      <3> HIDE DEF added, removed, clean
      <3>1. QED
        BY <1>2, <2>4 DEF FileRecords, Same
    <2>6. Becomes(file)
      BY <2>2, <2>3, <2>5
    <2>7. QED
      BY <2>5, <2>6
  <1>7. QED
    BY <1>3, <1>4, <1>5, <1>6 DEF Within

\* Within a file no change is reported and no warning left.
LEMMA WithinQuiet ==
    ASSUME Within
    PROVE  /\ changes' = changes /\ diffWarnings' = diffWarnings /\ format' = format
           /\ outcome = "reading" /\ outcome' = "reading"
           /\ stage' \in {"renaming", "extended", "old", "name", "hunk"}
           /\ DOMAIN current' = DOMAIN current
  <1>1. CASE ExtendedHeader
    BY <1>1 DEF ExtendedHeader, Line, ReadMode, ReadRenameFrom
  <1>2. CASE RenameTo
    BY <1>2 DEF RenameTo, Line, ReadRenameTo
  <1>3. CASE Binary
    BY <1>3 DEF Binary, Line, ReadBinary
  <1>4. CASE OldFile
    BY <1>4 DEF OldFile, Line, ReadOldFile
  <1>5. CASE NewFile
    BY <1>5 DEF NewFile, Line, ReadNewFile
  <1>6. CASE Hunk
    <2>1. PICK skip \in {0, 1}, oc \in 0 .. MaxSpan, nc \in 0 .. MaxSpan, bare \in BOOLEAN :
             HunkOf(skip, oc, nc, bare)
      BY <1>6 DEF Hunk
    <2>2. current' = Commit(current, hunk) /\ UNCHANGED <<changes, diffWarnings, outcome>>
      BY <2>1 DEF HunkOf, ReadHunkHeader
    <2>3. DOMAIN Commit(current, hunk) = DOMAIN current
      BY DEF Commit
    <2>4. outcome = "reading" /\ stage' = "hunk" /\ format' = format
      BY <2>1 DEF HunkOf, Line
    <2>5. QED
      BY <2>2, <2>3, <2>4
  <1>7. CASE Body
    <2>1. PICK sign \in {"plus", "minus", "space"}, look \in Looks : BodyLine(sign, look)
      BY <1>7 DEF Body
    <2>2. outcome = "reading" /\ stage' = "hunk" /\ format' = format /\ ReadBody(sign, look)
      BY <2>1 DEF BodyLine, Line
    <2>3. /\ UNCHANGED <<changes, diffWarnings, outcome>>
          /\ DOMAIN current' = DOMAIN current
      BY <2>2 DEF ReadBody, ReadOldFile, ReadNewFile
    <2>4. QED
      BY <2>2, <2>3
  <1>8. QED
    BY <1>1, <1>2, <1>3, <1>4, <1>5, <1>6, <1>7 DEF Within

\* The lines still to come are counted.
LEMMA WithinCounts ==
    ASSUME PatchTyped, Within
    PROVE  /\ due' \in [old : Nat, new : Nat, changed : BOOLEAN] /\ at' \in [old : Int, new : Int]
           /\ File.type = "added" /\ due.old = 0 => due'.old = 0
  <1>1. CASE ExtendedHeader \/ RenameTo \/ Binary \/ OldFile \/ NewFile
    <2>1. due' = due /\ at' = at
      BY <1>1 DEF ExtendedHeader, RenameTo, Binary, OldFile, NewFile
    <2>2. QED
      BY <2>1 DEF PatchTyped
  <1>2. CASE Hunk
    <2>1. PICK skip \in {0, 1}, oc \in 0 .. MaxSpan, nc \in 0 .. MaxSpan, bare \in BOOLEAN :
             HunkOf(skip, oc, nc, bare)
      BY <1>2 DEF Hunk
    <2>2. /\ due' = IF bare THEN due ELSE [old |-> oc, new |-> nc, changed |-> FALSE]
          /\ at' = IF bare THEN [old |-> at.old + skip + oc, new |-> at.new + skip + nc]
                   ELSE [old |-> at.old + skip, new |-> at.new + skip]
          /\ File.type = "added" => oc = 0
      BY <2>1 DEF HunkOf
    <2>3. /\ oc \in Nat /\ nc \in Nat /\ at.old + skip \in Int /\ at.new + skip \in Int
          /\ at.old + skip + oc \in Int /\ at.new + skip + nc \in Int
      BY DiffAssumption DEF PatchTyped
    <2>4. CASE bare
      BY <2>2, <2>3, <2>4 DEF PatchTyped
    <2>5. CASE ~bare
      BY <2>2, <2>3, <2>5
    <2>6. QED
      BY <2>4, <2>5
  <1>3. CASE Body
    <2>1. PICK sign \in {"plus", "minus", "space"}, look \in Looks : BodyLine(sign, look)
      BY <1>3 DEF Body
    <2> DEFINE o == IF sign = "plus" THEN 0 ELSE 1
               n == IF sign = "minus" THEN 0 ELSE 1
    <2>2. /\ sign # "plus" => due.old > 0
          /\ sign # "minus" => due.new > 0
          /\ due' = [old |-> due.old - o, new |-> due.new - n,
                     changed |-> due.changed \/ sign # "space"]
          /\ at' = [old |-> at.old + o, new |-> at.new + n]
      BY <2>1 DEF BodyLine
    <2>3. /\ due.old \in Nat /\ due.new \in Nat /\ due.changed \in BOOLEAN
          /\ at.old \in Int /\ at.new \in Int
      BY DEF PatchTyped
    <2>4. /\ o \in {0, 1} /\ (o = 1 => due.old > 0)
          /\ n \in {0, 1} /\ (n = 1 => due.new > 0)
      BY <2>2
    <2> HIDE DEF o, n
    <2>5. /\ due.old - o \in Nat /\ due.new - n \in Nat
          /\ (due.old = 0 => due.old - o = 0)
      BY <2>3, <2>4
    <2>6. at.old + o \in Int /\ at.new + n \in Int
      BY <2>3, <2>4
    <2>7. (due.changed \/ sign # "space") \in BOOLEAN
      OBVIOUS
    <2>8. QED
      BY <2>2, <2>5, <2>6, <2>7
  <1>4. QED
    BY <1>1, <1>2, <1>3 DEF Within

LEMMA WithinTyped == PatchTyped /\ Within => PatchTyped'
  <1> SUFFICES ASSUME PatchTyped, Within PROVE PatchTyped'
    OBVIOUS
  <1>1. written # <<>>
    BY FileStep
  <1>2. PICK file \in FileRecords :
          written' = [written EXCEPT ![Len(written)] = file] /\ Same(File, file)
    BY FileStep
  <1>3. /\ written' \in Seq(FileRecords) /\ written' # <<>> /\ DOMAIN written' = DOMAIN written
        /\ \A n \in DOMAIN written : Same(written[n], written'[n])
    BY <1>1, <1>2, LastChanged
  <1>4. \A n \in DOMAIN written' :
          written'[n].old = IF written'[n].type = "renamed" THEN OldName ELSE written'[n].path
    BY <1>3 DEF PatchTyped, Same
  <1>5. /\ changes' = changes /\ format' = format /\ outcome' = "reading"
        /\ stage' \in {"renaming", "extended", "old", "name", "hunk"}
        /\ DOMAIN current' = DOMAIN NoFile
    BY WithinQuiet DEF PatchTyped
  <1>6. due' \in [old : Nat, new : Nat, changed : BOOLEAN] /\ at' \in [old : Int, new : Int]
    BY WithinCounts
  <1>7. QED
    BY <1>3, <1>4, <1>5, <1>6 DEF PatchTyped, FileRecords

\* What the parser knows of the last file stays true within it.
LEMMA WithinTracks ==
    ASSUME PatchTyped, PatchTyped', Within, TracksName, TracksKind
    PROVE  TracksName' /\ TracksKind'
  <1> DEFINE file == File'
  <1>1. PICK f \in FileRecords :
          /\ written' = [written EXCEPT ![Len(written)] = f] /\ Same(File, f)
          /\ f.named <=> File.named \/ stage \in {"renaming", "old"}
    BY FileStep
  <1>2. written # <<>>
    BY FileStep
  <1>3. File' = f
    BY <1>1, <1>2, LastChanged
  <1>4. /\ Same(File, File') /\ (File'.named <=> File.named \/ stage \in {"renaming", "old"})
        /\ (Spelled(File') <=> Spelled(File))
    BY <1>1, <1>3 DEF Same, Spelled
  <1>5. /\ File.binary \in BOOLEAN /\ File.path # NoPath /\ OldName # NoPath /\ Rest # NoPath
        /\ File.old = IF File.type = "renamed" THEN OldName ELSE File.path
    BY <1>2, LastFile, DiffAssumption DEF FileRecords, Paths
  <1>6. DOMAIN current = DOMAIN NoFile
    BY DEF PatchTyped
  <1>7. {"path", "old", "type", "binary", "newRanges", "oldRanges"} = DOMAIN NoFile
    BY DEF NoFile
  <1>8. File.type = "added" /\ due.old = 0 => due'.old = 0
    BY WithinCounts
  <1> DEFINE Now(next, path, old, type, binary) ==
        /\ stage' = next /\ current'.path = path /\ current'.old = old
        /\ current'.type = type /\ current'.binary = binary
  <1>9. CASE ExtendedHeader
    <2>1. CASE /\ File.type \in {"added", "deleted"}
               /\ Line("extended") /\ ReadMode(File.type)
      <3>1. /\ stage = "header"
            /\ Now("extended", current.path, current.old, File.type, current.binary)
        BY <1>6, <1>7, <1>9, <2>1 DEF ExtendedHeader, Line, ReadMode
      <3>2. QED
        BY <1>4, <1>5, <1>8, <2>1, <3>1 DEF TracksName, TracksKind, Same
    <2>2. CASE File.type = "renamed" /\ Line("renaming") /\ ReadRenameFrom(File.old)
      <3>1. /\ stage = "header"
            /\ Now("renaming", current.path, OldName, "renamed", current.binary)
        BY <1>5, <1>6, <1>7, <1>9, <2>2 DEF ExtendedHeader, Line, ReadRenameFrom
      <3>2. QED
        BY <1>4, <1>5, <1>8, <2>2, <3>1 DEF TracksName, TracksKind, Same
    <2>3. QED
      BY <1>9, <2>1, <2>2 DEF ExtendedHeader
  <1>10. CASE RenameTo
    <2>1. /\ stage = "renaming"
          /\ Now("extended", File.path, current.old, "renamed", current.binary)
      BY <1>6, <1>7, <1>10 DEF RenameTo, Line, ReadRenameTo
    <2>2. QED
      BY <1>4, <1>5, <1>8, <2>1 DEF TracksName, TracksKind, Same
  <1>11. CASE Binary
    <2>1. /\ stage \in {"header", "extended"} /\ (stage = "header" => File.type = "modified")
          /\ File.binary
          /\ Now("name", current.path, current.old, current.type, TRUE)
      BY <1>6, <1>7, <1>11 DEF Binary, Line, ReadBinary
    <2>2. QED
      BY <1>4, <1>5, <1>8, <2>1 DEF TracksName, TracksKind, Same
  <1>12. CASE OldFile
    <2>1. /\ stage \in {"header", "extended"} /\ (stage = "header" => File.type = "modified")
          /\ ~File.binary
          /\ Now("old", current.path,
                 IF File.type = "added" \/ current.old # NoPath THEN current.old ELSE File.old,
                 IF File.type = "added" THEN "added" ELSE current.type, current.binary)
      BY <1>5, <1>6, <1>7, <1>12 DEF OldFile, Line, ReadOldFile
    <2>2. QED
      BY <1>4, <1>5, <1>8, <2>1 DEF TracksName, TracksKind, Same
  <1>13. CASE NewFile
    <2>1. /\ stage = "old"
          /\ Now("name",
                 IF current.path # NoPath THEN current.path
                 ELSE IF File.type = "deleted" THEN current.old ELSE File.path,
                 current.old, IF File.type = "deleted" THEN "deleted" ELSE current.type,
                 current.binary)
      BY <1>5, <1>6, <1>7, <1>13 DEF NewFile, Line, ReadNewFile
    <2>2. QED
      BY <1>4, <1>5, <1>8, <2>1 DEF TracksName, TracksKind, Same
  <1>14. CASE Hunk
    <2>1. PICK skip \in {0, 1}, oc \in 0 .. MaxSpan, nc \in 0 .. MaxSpan, bare \in BOOLEAN :
             HunkOf(skip, oc, nc, bare)
      BY <1>14 DEF Hunk
    <2>2. stage \in {"name", "hunk"} /\ ~File.binary /\ stage' = "hunk"
          /\ current' = Commit(current, hunk)
      BY <2>1 DEF HunkOf, Line, ReadHunkHeader
    <2>3. Now("hunk", current.path, current.old, current.type, current.binary)
      BY <1>6, <1>7, <2>2 DEF Commit
    <2>4. current.binary = FALSE
      BY <1>5, <2>2 DEF TracksKind
    <2>5. QED
      BY <1>4, <1>5, <1>8, <2>2, <2>3, <2>4 DEF TracksName, TracksKind, Same
  <1>15. CASE Body
    <2>1. PICK sign \in {"plus", "minus", "space"}, look \in Looks : BodyLine(sign, look)
      BY <1>15 DEF Body
    <2>2. /\ stage = "hunk" /\ stage' = "hunk" /\ ReadBody(sign, look)
          /\ (sign # "plus" => due.old > 0)
      BY <2>1 DEF BodyLine, Line
    <2>3. current.path # NoPath
      BY <2>2 DEF TracksName, TracksKind
    <2>4. Now("hunk", current.path,
              IF look = "header" /\ sign = "minus" /\ current.old = NoPath THEN Rest ELSE current.old,
              current.type, current.binary)
      BY <1>5, <1>6, <1>7, <2>2, <2>3 DEF ReadBody, ReadOldFile, ReadNewFile
    <2>5. sign = "minus" => File.type # "added"
      BY <2>2 DEF TracksKind
    <2>6. TracksName'
      BY <1>4, <1>5, <2>2, <2>3, <2>4, <2>5 DEF TracksName, TracksKind, Same
    <2>7. QED
      BY <1>4, <1>8, <2>2, <2>4, <2>6 DEF TracksKind, Same
  <1>16. QED
    BY <1>9, <1>10, <1>11, <1>12, <1>13, <1>14, <1>15 DEF Within

\* A line within a file leaves what is reported of the others.
LEMMA WithinReported ==
    ASSUME PatchTyped, Within
    PROVE  /\ Reported => Reported'
           /\ Warned => Warned'
           /\ (\A n \in DOMAIN written : written[n].legible => written[n].named) =>
                 \A n \in DOMAIN written' : written'[n].legible => written'[n].named
  <1>1. written # <<>>
    BY FileStep
  <1>2. PICK f \in FileRecords :
          /\ written' = [written EXCEPT ![Len(written)] = f] /\ Same(File, f)
          /\ (f.named <=> File.named \/ stage \in {"renaming", "old"})
    BY FileStep
  <1>3. /\ Len(written) \in Nat \ {0} /\ DOMAIN written = 1 .. Len(written)
        /\ File = written[Len(written)]
    BY <1>1, LastFile
  <1>4. /\ Len(written') = Len(written) /\ DOMAIN written' = DOMAIN written
        /\ \A n \in 1 .. Len(written) - 1 : written'[n] = written[n]
        /\ \A n \in DOMAIN written : Same(written[n], written'[n])
    BY <1>1, <1>2, LastChanged
  <1>5. changes' = changes /\ diffWarnings' = diffWarnings
    BY WithinQuiet
  <1>6. \A n \in DOMAIN written : written[n].named => written'[n].named
    BY <1>2, <1>3
  <1>7. ASSUME NEW n \in 0 .. Len(written) - 1
        PROVE  NamedUpTo(n)' = NamedUpTo(n)
    <2>1. 1 .. n \subseteq 1 .. Len(written) - 1
      BY <1>3
    <2>2. QED
      BY <1>4, <2>1 DEF NamedUpTo
  <1>8. ASSUME Reported
        PROVE  Reported'
    <2>1. NamedUpTo(Len(written) - 1)' = NamedUpTo(Len(written) - 1)
      BY <1>3, <1>4, <1>7
    <2>2. Len(changes') = Cardinality(NamedUpTo(Len(written) - 1)')
      BY <1>5, <1>8, <2>1 DEF Reported
    <2>3. ASSUME NEW n \in NamedUpTo(Len(written) - 1), Spelled(written'[n])
          PROVE  Describes(ChangeOf(n)', written'[n])
      <3>1. n \in 1 .. Len(written) - 1 /\ n \in 0 .. Len(written) - 1
        BY DEF NamedUpTo
      <3>2. written'[n] = written[n] /\ ChangeOf(n)' = ChangeOf(n)
        BY <1>4, <1>5, <1>7, <3>1 DEF ChangeOf
      <3>3. QED
        BY <1>8, <2>3, <3>2 DEF Reported
    <2>4. QED
      BY <1>4, <2>1, <2>2, <2>3 DEF Reported
  <1>9. ASSUME Warned
        PROVE  Warned'
    BY <1>4, <1>5, <1>9 DEF Warned, Same
  <1>10. ASSUME \A n \in DOMAIN written : written[n].legible => written[n].named
         PROVE  \A n \in DOMAIN written' : written'[n].legible => written'[n].named
    BY <1>4, <1>6, <1>10 DEF Same
  <1>11. QED
    BY <1>8, <1>9, <1>10

-----------------------------------------------------------------------------
(* The ends of files.                                                      *)

\* The changes, with the current file if it has a name.
LEMMA Flushed ==
    ASSUME IsList(changes), DOMAIN current = DOMAIN NoFile,
           NEW all, all = changes \o Finish(current, hunk)
    PROVE  /\ IsList(all) /\ Len(changes) \in Nat
           /\ \A i \in 1 .. Len(changes) : all[i] = changes[i]
           /\ current.path = NoPath => Len(all) = Len(changes)
           /\ current.path # NoPath =>
                 /\ Len(all) = Len(changes) + 1
                 /\ all[Len(all)].path = current.path
                 /\ all[Len(all)].type = current.type
                 /\ all[Len(all)].binary = current.binary
                 /\ all[Len(all)].old =
                      IF current.old = current.path THEN NoPath ELSE current.old
  <1> DEFINE read == Commit(current, hunk)
             change == [read EXCEPT !.old = IF @ = read.path THEN NoPath ELSE @,
                                    !.newRanges = MergeRanges(@), !.oldRanges = MergeRanges(@)]
  <1>1. {"path", "old", "type", "binary", "newRanges", "oldRanges"} = DOMAIN current
    BY DEF NoFile
  <1>2. /\ read.path = current.path /\ read.old = current.old /\ read.type = current.type
        /\ read.binary = current.binary /\ DOMAIN read = DOMAIN current
    BY <1>1 DEF Commit
  <1> HIDE DEF read
  <1>3. /\ change.path = current.path /\ change.type = current.type
        /\ change.binary = current.binary
        /\ change.old = IF current.old = current.path THEN NoPath ELSE current.old
    BY <1>1, <1>2
  <1>4. Finish(current, hunk) = IF current.path = NoPath THEN <<>> ELSE <<change>>
    BY <1>2 DEF Finish, read
  <1> HIDE DEF change
  <1>5. PICK S : changes \in Seq(S)
    BY DEF IsList
  <1>6. Len(changes) \in Nat
    BY <1>5, LenProperties
  <1>7. CASE current.path = NoPath
    <2>1. all = changes
      BY <1>4, <1>5, <1>7, ConcatEmptySeq
    <2>2. QED
      BY <1>6, <1>7, <2>1
  <1>8. CASE current.path # NoPath
    <2> DEFINE T == S \cup {change}
    <2>1. changes \in Seq(T) /\ <<change>> \in Seq(T)
      BY <1>5
    <2>2. /\ all \in Seq(T) /\ Len(all) = Len(changes) + 1
          /\ \A i \in 1 .. Len(changes) + 1 :
               all[i] = IF i <= Len(changes) THEN changes[i] ELSE <<change>>[i - Len(changes)]
      <3>1. Len(<<change>>) = 1
        OBVIOUS
      <3>2. QED
        BY <1>4, <1>8, <2>1, <3>1, ConcatProperties
    <2>3. /\ \A i \in 1 .. Len(changes) : all[i] = changes[i]
          /\ all[Len(changes) + 1] = change
      BY <1>6, <2>2
    <2>4. IsList(all)
      BY <2>2 DEF IsList
    <2>5. QED
      BY <1>3, <1>6, <1>8, <2>2, <2>3, <2>4
  <1>9. QED
    BY <1>7, <1>8

\* With the current file flushed, all named files are reported.
LEMMA LastReported ==
    ASSUME PatchTyped, TracksName, TracksKind, Reported, written # <<>>,
           NEW all, all = changes \o Finish(current, hunk)
    PROVE  /\ IsList(all) /\ Len(all) = Cardinality(NamedUpTo(Len(written)))
           /\ \A n \in NamedUpTo(Len(written)) :
                (n < Len(written) \/ Whole) /\ Spelled(written[n]) =>
                    Describes(all[Cardinality(NamedUpTo(n))], written[n])
  <1> DEFINE L == Len(written)
  <1>1. /\ L \in Nat \ {0} /\ L - 1 \in Nat /\ L - 1 + 1 = L /\ DOMAIN written = 1 .. L
        /\ File = written[L] /\ File \in FileRecords
        /\ File.old = IF File.type = "renamed" THEN OldName ELSE File.path
    BY LastFile
  <1>2. /\ Cardinality(NamedUpTo(L - 1)) \in Nat
        /\ Cardinality(NamedUpTo(L)) =
             Cardinality(NamedUpTo(L - 1)) + IF written[L].named THEN 1 ELSE 0
        /\ NamedUpTo(L) = NamedUpTo(L - 1) \cup IF written[L].named THEN {L} ELSE {}
    BY <1>1, NamedNext
  <1>3. /\ IsList(all) /\ Len(changes) \in Nat
        /\ \A i \in 1 .. Len(changes) : all[i] = changes[i]
        /\ current.path = NoPath => Len(all) = Len(changes)
        /\ current.path # NoPath =>
              /\ Len(all) = Len(changes) + 1
              /\ all[Len(all)].path = current.path
              /\ all[Len(all)].type = current.type
              /\ all[Len(all)].binary = current.binary
              /\ all[Len(all)].old = IF current.old = current.path THEN NoPath ELSE current.old
    BY Flushed DEF PatchTyped
  <1>4. Len(changes) = Cardinality(NamedUpTo(L - 1))
    BY DEF Reported
  <1>5. current.path # NoPath <=> written[L].named
    BY <1>1 DEF TracksName
  <1>6. Len(all) = Cardinality(NamedUpTo(L))
    BY <1>2, <1>3, <1>4, <1>5
  <1>7. ASSUME NEW n \in NamedUpTo(L), (n < L \/ Whole) /\ Spelled(written[n])
        PROVE  Describes(all[Cardinality(NamedUpTo(n))], written[n])
    <2>1. CASE n \in NamedUpTo(L - 1)
      <3>1. Cardinality(NamedUpTo(n)) \in 1 .. Len(changes)
        BY <1>1, <1>4, <2>1, PlaceIn
      <3>2. all[Cardinality(NamedUpTo(n))] = ChangeOf(n)
        BY <1>3, <3>1 DEF ChangeOf
      <3>3. QED
        BY <1>7, <2>1, <3>2 DEF Reported
    <2>2. CASE n \notin NamedUpTo(L - 1)
      <3>1. n = L /\ written[L].named
        BY <1>2, <2>2
      <3>2. Whole /\ Spelled(File) /\ File.named
        BY <1>1, <1>7, <3>1
      <3>3. /\ File.path # NoPath /\ OldName # NoPath /\ File.path # OldName
            /\ File.binary \in BOOLEAN
        BY <1>1, DiffAssumption DEF FileRecords, Paths
      <3> DEFINE change == all[Len(all)]
      <3>4. /\ change.path = current.path /\ change.type = current.type
            /\ change.binary = current.binary
            /\ change.old = IF current.old = current.path THEN NoPath ELSE current.old
        BY <1>3, <1>5, <3>1
      <3>5. \/ stage \in {"name", "hunk"}
            \/ (stage = "extended" \/ (stage = "header" /\ File.type = "modified")) /\ ~File.binary
        BY <3>2 DEF Whole
      <3>6. change.type = File.type /\ change.binary = File.binary
        BY <3>3, <3>4, <3>5 DEF TracksKind
      <3>7. /\ current.path = File.path
            /\ IF File.type = "renamed" THEN current.old = OldName
               ELSE current.old \in {NoPath, File.path}
        <4>1. CASE File.type = "renamed"
          BY <3>5, <4>1 DEF TracksName
        <4>2. CASE File.type # "renamed" /\ File.legible
          BY <3>2, <4>2 DEF TracksName
        <4>3. CASE File.type # "renamed" /\ ~File.legible
          BY <3>2, <4>3 DEF TracksName
        <4>4. QED
          BY <4>1, <4>2, <4>3
      <3>8. Describes(change, File)
        BY <1>1, <3>3, <3>4, <3>6, <3>7 DEF Describes
      <3>9. QED
        BY <1>1, <1>6, <3>1, <3>8
    <2>3. QED
      BY <2>1, <2>2
  <1>8. QED
    BY <1>3, <1>6, <1>7

\* A new file: those before it are the files there were.
LEMMA FileAdded ==
    ASSUME PatchTyped, NEW file \in FileRecords, written' = Append(written, file)
    PROVE  /\ written' \in Seq(FileRecords) /\ Len(written') = Len(written) + 1 /\ written' # <<>>
           /\ Len(written) \in Nat /\ DOMAIN written' = 1 .. Len(written) + 1 /\ File' = file
           /\ DOMAIN written = 1 .. Len(written)
           /\ \A n \in 1 .. Len(written) : written'[n] = written[n]
           /\ \A n \in 0 .. Len(written) : NamedUpTo(n)' = NamedUpTo(n)
  <1>1. written \in Seq(FileRecords)
    BY DEF PatchTyped, FileRecords
  <1>2. /\ written' \in Seq(FileRecords) /\ Len(written') = Len(written) + 1 /\ written' # <<>>
        /\ \A n \in 1 .. Len(written) : written'[n] = written[n]
        /\ written'[Len(written) + 1] = file
    BY <1>1, AppendProperties
  <1>3. /\ Len(written) \in Nat /\ DOMAIN written = 1 .. Len(written)
        /\ DOMAIN written' = 1 .. Len(written) + 1
    BY <1>1, <1>2, LenProperties
  <1>4. File' = file
    BY <1>2 DEF File, Last
  <1>5. ASSUME NEW n \in 0 .. Len(written)
        PROVE  NamedUpTo(n)' = NamedUpTo(n)
    <2>1. 1 .. n \subseteq 1 .. Len(written)
      BY <1>3
    <2>2. QED
      BY <1>2, <2>1 DEF NamedUpTo
  <1>6. QED
    BY <1>2, <1>3, <1>4, <1>5

\* The files of a patch as it is read.
PatchStart == changes = <<>> /\ current = NoFile /\ due.old = 0
NamedIfLegible == \A n \in DOMAIN written : written[n].legible => written[n].named

\* All of them are reported when they are flushed.
LEMMA FlushedReports ==
    ASSUME PatchTyped, NEW all, all = changes \o Finish(current, hunk),
           written = <<>> => PatchStart,
           written # <<>> => TracksName /\ TracksKind /\ Reported
    PROVE  /\ IsList(all) /\ Len(all) = Cardinality(NamedUpTo(Len(written)))
           /\ \A n \in NamedUpTo(Len(written)) :
                (n < Len(written) \/ Whole) /\ Spelled(written[n]) =>
                    Describes(all[Cardinality(NamedUpTo(n))], written[n])
  <1>1. CASE written = <<>>
    <2>1. IsList(changes) /\ DOMAIN current = DOMAIN NoFile /\ current.path = NoPath
      BY <1>1 DEF PatchTyped, PatchStart, NoFile
    <2>2. IsList(all) /\ Len(all) = Len(changes)
      BY <2>1, Flushed
    <2>3. Len(written) = 0 /\ Len(changes) = 0
      BY <1>1 DEF PatchStart
    <2>4. NamedUpTo(0) = {} /\ Cardinality(NamedUpTo(0)) = 0
      BY NamedNext
    <2>5. QED
      BY <2>2, <2>3, <2>4
  <1>2. CASE written # <<>>
    BY <1>2, LastReported
  <1>3. QED
    BY <1>1, <1>2

\* A header begins a file, all others of which are complete.
LEMMA HeaderKeeps == PatchInv /\ GitHeader => PatchInv'
  <1> SUFFICES ASSUME PatchInv, GitHeader PROVE PatchInv'
    OBVIOUS
  <1>1. PICK type \in ChangeTypes, binary \in BOOLEAN, legible \in BOOLEAN :
          HeaderOf(type, binary, legible)
    BY DEF GitHeader
  <1> DEFINE path == Names[Len(written) + 1]
             former == IF type = "renamed" THEN OldName ELSE path
             file == [path |-> path, old |-> former, type |-> type, binary |-> binary,
                      named |-> legible, legible |-> legible, added |-> {}, removed |-> {},
                      clean |-> TRUE]
  <1>2. /\ format = "git" /\ Len(written) < Len(Names) /\ outcome = "reading"
        /\ stage' = "header" /\ (stage # "start" => Whole) /\ written' = Append(written, file)
        /\ at' = [old |-> 1, new |-> 1] /\ UNCHANGED <<format, due, hunks>>
        /\ IF legible THEN ReadGitHeader(former, path) ELSE ReadBadHeader
    BY <1>1 DEF HeaderOf, NextFile, Line
  <1>3. /\ PatchTyped /\ Warned /\ NamedIfLegible
        /\ written = <<>> => PatchStart
        /\ written # <<>> => TracksName /\ TracksKind /\ Reported
    BY <1>2 DEF PatchInv, PatchStart, NamedIfLegible
  <1>4. Len(written) \in Nat
    BY <1>3, LenProperties DEF PatchTyped
  <1>5. path \in Paths /\ path # NoPath /\ OldName # NoPath /\ Rest # NoPath
    <2>1. Names \in Seq(Paths) /\ Len(Names) \in Nat
      BY DiffAssumption, LenProperties DEF Paths
    <2>2. Len(written) + 1 \in 1 .. Len(Names)
      BY <1>2, <1>4, <2>1
    <2>3. path \in Paths
      BY <2>1, <2>2, ElementOfSeq
    <2>4. QED
      BY <2>3, DiffAssumption DEF Paths
  <1>6. file \in FileRecords
    BY <1>5 DEF FileRecords
  <1> HIDE DEF path
  <1>7. /\ written' \in Seq(FileRecords) /\ Len(written') = Len(written) + 1 /\ written' # <<>>
        /\ DOMAIN written' = 1 .. Len(written) + 1 /\ File' = file
        /\ DOMAIN written = 1 .. Len(written)
        /\ \A n \in 1 .. Len(written) : written'[n] = written[n]
        /\ \A n \in 0 .. Len(written) : NamedUpTo(n)' = NamedUpTo(n)
    BY <1>2, <1>3, <1>6, FileAdded
  <1>8. /\ outcome' = outcome
        /\ changes' = changes \o Finish(current, hunk)
        /\ current' = IF legible THEN HeaderFile(former, path) ELSE NoFile
        /\ diffWarnings' = IF legible THEN diffWarnings ELSE diffWarnings \cup {"bad_diff_header"}
    BY <1>2 DEF ReadGitHeader, ReadBadHeader
  <1>9. /\ IsList(changes') /\ Len(changes') = Cardinality(NamedUpTo(Len(written)))
        /\ \A n \in NamedUpTo(Len(written)) :
             (n < Len(written) \/ Whole) /\ Spelled(written[n]) =>
                 Describes(changes'[Cardinality(NamedUpTo(n))], written[n])
    BY <1>3, <1>8, FlushedReports
  <1>10. /\ DOMAIN current' = DOMAIN NoFile /\ current'.type = "modified" /\ current'.binary = FALSE
    BY <1>8 DEF HeaderFile, NoFile
  <1>11. written'[Len(written) + 1] = file
    BY <1>4, <1>7 DEF File, Last
  <1>12. PatchTyped'
    <2>1. \A n \in DOMAIN written' :
            written'[n].old = IF written'[n].type = "renamed" THEN OldName ELSE written'[n].path
      <3>1. ASSUME NEW n \in 1 .. Len(written)
            PROVE  written'[n].old =
                     IF written'[n].type = "renamed" THEN OldName ELSE written'[n].path
        BY <1>3, <1>7 DEF PatchTyped
      <3>2. file.old = IF file.type = "renamed" THEN OldName ELSE file.path
        OBVIOUS
      <3>3. \A n \in DOMAIN written' : n \in 1 .. Len(written) \/ n = Len(written) + 1
        BY <1>4, <1>7
      <3>4. QED
        BY <1>11, <3>1, <3>2, <3>3
    <2>2. at' \in [old : Int, new : Int] /\ due' \in [old : Nat, new : Nat, changed : BOOLEAN]
      BY <1>2, <1>3 DEF PatchTyped
    <2>3. QED
      BY <1>2, <1>3, <1>7, <1>8, <1>9, <1>10, <2>1, <2>2 DEF PatchTyped, FileRecords
  <1>13. Reported'
    <2>1. Len(written') - 1 = Len(written)
      BY <1>4, <1>7
    <2>2. NamedUpTo(Len(written) - 1)' = NamedUpTo(Len(written))
      <3>1. NamedUpTo(Len(written) - 1)' = {n \in 1 .. Len(written) : written'[n].named}
        BY <2>1 DEF NamedUpTo
      <3>2. \A n \in 1 .. Len(written) : written'[n].named = written[n].named
        BY <1>7
      <3>3. QED
        BY <3>1, <3>2 DEF NamedUpTo
    <2>3. ASSUME NEW n \in NamedUpTo(Len(written)), Spelled(written'[n])
          PROVE  Describes(ChangeOf(n)', written'[n])
      <3>1. n \in 1 .. Len(written) /\ n \in 0 .. Len(written)
        BY DEF NamedUpTo
      <3>2. written'[n] = written[n] /\ ChangeOf(n)' = changes'[Cardinality(NamedUpTo(n))]
        BY <1>7, <3>1 DEF ChangeOf
      <3>3. written # <<>>
        BY <1>4, <3>1
      <3>4. Whole
        BY <1>2, <1>3, <3>3 DEF PatchTyped
      <3>5. QED
        BY <1>9, <2>3, <3>2, <3>4
    <2>4. QED
      BY <1>7, <1>9, <2>1, <2>2, <2>3 DEF Reported
  <1>14. due.old = 0
    <2>1. CASE written = <<>>
      BY <1>3, <2>1 DEF PatchStart
    <2>2. CASE written # <<>>
      BY <1>2, <1>3, <2>2 DEF PatchTyped, Whole
    <2>3. QED
      BY <2>1, <2>2
  <1>15. TracksKind'
    BY <1>2, <1>7, <1>10, <1>14 DEF TracksKind
  <1>16. TracksName'
    <2>1. /\ File'.named = legible /\ File'.legible = legible /\ File'.type = type
          /\ File'.path = path /\ File'.old = former /\ stage' = "header"
      BY <1>2, <1>7
    <2>2. CASE legible
      <3>1. current'.path \in {path, Rest}
        BY <1>8, <2>2 DEF HeaderFile, NoFile
      <3>2. type # "renamed" /\ Spelled(File') => current'.path = path /\ current'.old = path
        BY <1>8, <2>1, <2>2 DEF HeaderFile, NoFile, Spelled
      <3>3. QED
        BY <1>5, <2>1, <2>2, <3>1, <3>2 DEF TracksName
    <2>3. CASE ~legible
      <3>1. current'.path = NoPath /\ current'.old = NoPath
        BY <1>8, <2>3 DEF NoFile
      <3>2. QED
        BY <2>1, <2>3, <3>1 DEF TracksName
    <2>4. QED
      BY <2>2, <2>3
  <1>17. Warned' /\ NamedIfLegible'
    <2>1. \A n \in DOMAIN written' : n \in 1 .. Len(written) \/ n = Len(written) + 1
      BY <1>4, <1>7
    <2>2. file.legible = legible /\ file.named = legible
      OBVIOUS
    <2>3. (~legible => diffWarnings' # {}) /\ (diffWarnings # {} => diffWarnings' # {})
      BY <1>8
    <2>4. QED
      BY <1>3, <1>7, <1>11, <2>1, <2>2, <2>3 DEF Warned, NamedIfLegible
  <1>18. FilesAreReported'
    BY <1>2, <1>8 DEF FilesAreReported, Parsed
  <1>19. QED
    BY <1>7, <1>12, <1>13, <1>15, <1>16, <1>17, <1>18 DEF PatchInv, NamedIfLegible

\* A plain patch has files as well, of which only the types matter here.
LEMMA PlainKeeps == PatchInv /\ PlainFile => PatchInv'
  <1> SUFFICES ASSUME PatchInv, PlainFile PROVE PatchInv'
    OBVIOUS
  <1>1. PICK type \in ChangeTypes \ {"renamed"} : PlainFileOf(type)
    BY DEF PlainFile
  <1> DEFINE path == Names[Len(written) + 1]
             file == [path |-> path, old |-> path, type |-> type, binary |-> FALSE,
                      named |-> FALSE, legible |-> FALSE, added |-> {}, removed |-> {},
                      clean |-> TRUE]
  <1>2. /\ format = "plain" /\ Len(written) < Len(Names) /\ outcome = "reading"
        /\ stage' = "old" /\ written' = Append(written, file)
        /\ at' = [old |-> 1, new |-> 1] /\ UNCHANGED <<format, due, hunks>>
        /\ ReadOldFile(IF type = "added" THEN NoPath ELSE path)
    BY <1>1 DEF PlainFileOf, NextFile, Line
  <1>3. PatchTyped
    BY DEF PatchInv
  <1>4. Len(written) \in Nat
    BY <1>3, LenProperties DEF PatchTyped
  <1>5. path \in Paths
    <2>1. Names \in Seq(Paths) /\ Len(Names) \in Nat
      BY DiffAssumption, LenProperties DEF Paths
    <2>2. Len(written) + 1 \in 1 .. Len(Names)
      BY <1>2, <1>4, <2>1
    <2>3. QED
      BY <2>1, <2>2, ElementOfSeq
  <1>6. file \in FileRecords
    BY <1>5 DEF FileRecords
  <1>7. /\ written' \in Seq(FileRecords) /\ Len(written') = Len(written) + 1 /\ written' # <<>>
        /\ DOMAIN written' = 1 .. Len(written) + 1 /\ File' = file
        /\ DOMAIN written = 1 .. Len(written)
        /\ \A n \in 1 .. Len(written) : written'[n] = written[n]
    BY <1>2, <1>3, <1>6, FileAdded
  <1>8. /\ changes' = changes /\ outcome' = "reading" /\ DOMAIN current' = DOMAIN current
    BY <1>2 DEF ReadOldFile
  <1>9. written'[Len(written) + 1] = file
    BY <1>4, <1>7 DEF File, Last
  <1>10. \A n \in DOMAIN written' :
            written'[n].old = IF written'[n].type = "renamed" THEN OldName ELSE written'[n].path
    <2>1. ASSUME NEW n \in 1 .. Len(written)
          PROVE  written'[n].old =
                   IF written'[n].type = "renamed" THEN OldName ELSE written'[n].path
      BY <1>3, <1>7 DEF PatchTyped
    <2>2. file.old = IF file.type = "renamed" THEN OldName ELSE file.path
      OBVIOUS
    <2>3. \A n \in DOMAIN written' : n \in 1 .. Len(written) \/ n = Len(written) + 1
      BY <1>4, <1>7
    <2>4. QED
      BY <1>9, <2>1, <2>2, <2>3
  <1>11. PatchTyped'
    <2>1. at' \in [old : Int, new : Int] /\ due' \in [old : Nat, new : Nat, changed : BOOLEAN]
      BY <1>2, <1>3 DEF PatchTyped
    <2>2. QED
      BY <1>2, <1>3, <1>7, <1>8, <1>10, <2>1 DEF PatchTyped, FileRecords
  <1>12. format' = "plain"
    BY <1>2
  <1>13. QED
    BY <1>7, <1>11, <1>12 DEF PatchInv, FilesAreReported

\* When the patch ends the last file is flushed.
LEMMA EndKeeps == PatchInv /\ EndOfPatch => PatchInv'
  <1> SUFFICES ASSUME PatchInv, EndOfPatch PROVE PatchInv'
    OBVIOUS
  <1>1. /\ outcome = "reading" /\ outcome' = "parsed"
        /\ changes' = changes \o Finish(current, hunk)
        /\ diffWarnings \subseteq diffWarnings'
        /\ current' = current /\ hunk' = hunk /\ format' = format /\ stage' = stage
        /\ due' = due /\ at' = at /\ written' = written
    BY DEF EndOfPatch, patchVars
  <1>2. PatchTyped
    BY DEF PatchInv
  <1>3. IsList(changes')
    BY <1>1, <1>2, Flushed DEF PatchTyped
  <1>4. PatchTyped'
    BY <1>1, <1>2, <1>3 DEF PatchTyped
  <1>5. CASE format # "git"
    BY <1>1, <1>4, <1>5 DEF PatchInv, FilesAreReported
  <1>6. CASE format = "git"
    <2>1. /\ Warned /\ NamedIfLegible
          /\ written = <<>> => PatchStart
          /\ written # <<>> => TracksName /\ TracksKind /\ Reported
      BY <1>1, <1>6 DEF PatchInv, PatchStart, NamedIfLegible
    <2>2. /\ Len(changes') = Cardinality(NamedUpTo(Len(written)))
          /\ \A n \in NamedUpTo(Len(written)) :
               (n < Len(written) \/ Whole) /\ Spelled(written[n]) =>
                   Describes(changes'[Cardinality(NamedUpTo(n))], written[n])
      BY <1>1, <1>2, <2>1, FlushedReports
    <2>3. \A n : NamedUpTo(n)' = NamedUpTo(n)
      BY <1>1 DEF NamedUpTo
    <2>4. NamedUpTo(Len(written))' = NamedUpTo(Len(written))
      BY <1>1 DEF NamedUpTo
    <2>5. Whole' = Whole
      BY <1>1 DEF Whole, File
    <2>6. \A n \in NamedUpTo(Len(written)) :
             Complete(n)' /\ Spelled(written'[n]) => Describes(ChangeOf(n)', written'[n])
      <3>1. \A n : Complete(n)' => n < Len(written) \/ Whole
        BY <1>1, <2>5 DEF Complete
      <3>2. \A n : ChangeOf(n)' = changes'[Cardinality(NamedUpTo(n))]
        BY <2>3 DEF ChangeOf
      <3>3. QED
        BY <1>1, <2>2, <3>1, <3>2
    <2>7. (\E n \in DOMAIN written : ~written[n].named) => diffWarnings' # {}
      BY <1>1, <2>1 DEF Warned, NamedIfLegible
    <2>8. FilesAreReported'
      BY <1>1, <2>2, <2>4, <2>6, <2>7 DEF FilesAreReported
    <2>9. Warned' /\ NamedIfLegible'
      BY <1>1, <2>1 DEF Warned, NamedIfLegible
    <2>10. QED
      BY <1>1, <1>4, <2>8, <2>9 DEF PatchInv, NamedIfLegible
  <1>7. QED
    BY <1>5, <1>6

LEMMA PatchInvAtFirst == DiffInit => PatchInv
  <1> SUFFICES ASSUME DiffInit PROVE PatchInv
    OBVIOUS
  <1>1. /\ written = <<>> /\ changes = <<>> /\ current = NoFile /\ outcome = "reading"
        /\ stage = "start" /\ due = [old |-> 0, new |-> 0, changed |-> FALSE]
        /\ at = [old |-> 1, new |-> 1] /\ format \in Formats
    BY DEF DiffInit
  <1>2. IsList(<<>>)
    <2>1. <<>> \in Seq({})
      BY EmptySeq
    <2>2. QED
      BY <2>1 DEF IsList
  <1>3. written \in Seq(FileRecords) /\ DOMAIN written = {}
    BY <1>1, EmptySeq
  <1>4. PatchTyped
    BY <1>1, <1>2, <1>3 DEF PatchTyped, FileRecords
  <1>5. QED
    BY <1>1, <1>3, <1>4 DEF PatchInv, FilesAreReported, Parsed, Warned

LEMMA PatchInvIsKept == PatchInv /\ [DiffNext]_diffVars => PatchInv'
  <1> SUFFICES ASSUME PatchInv, [DiffNext]_diffVars PROVE PatchInv'
    OBVIOUS
  <1>1. CASE GitHeader
    BY <1>1, HeaderKeeps
  <1>2. CASE PlainFile
    BY <1>2, PlainKeeps
  <1>3. CASE EndOfPatch
    BY <1>3, EndKeeps
  <1>4. CASE Within
    <2>1. /\ PatchTyped /\ written # <<>> /\ format' = format
          /\ outcome = "reading" /\ outcome' = "reading"
      BY <1>4, FileStep, WithinQuiet DEF PatchInv
    <2>2. PatchTyped'
      BY <1>4, <2>1, WithinTyped
    <2>3. written' # <<>>
      <3>1. stage' # "start"
        BY <1>4, WithinQuiet
      <3>2. QED
        BY <2>2, <3>1 DEF PatchTyped
    <2>4. format = "git" => TracksName' /\ TracksKind' /\ Reported' /\ Warned' /\ NamedIfLegible'
      <3>1. SUFFICES ASSUME format = "git"
                     PROVE  TracksName' /\ TracksKind' /\ Reported' /\ Warned' /\ NamedIfLegible'
        OBVIOUS
      <3>2. TracksName /\ TracksKind /\ Reported /\ Warned /\ NamedIfLegible
        BY <2>1, <3>1 DEF PatchInv, NamedIfLegible
      <3>3. TracksName' /\ TracksKind'
        BY <1>4, <2>1, <2>2, <3>2, WithinTracks
      <3>4. Reported' /\ Warned' /\ NamedIfLegible'
        BY <1>4, <2>1, <3>2, WithinReported DEF NamedIfLegible
      <3>5. QED
        BY <3>3, <3>4
    <2>5. FilesAreReported'
      BY <2>1 DEF FilesAreReported, Parsed
    <2>6. QED
      BY <2>1, <2>2, <2>3, <2>4, <2>5 DEF PatchInv, NamedIfLegible
  <1>5. CASE NoPatch
    <2>1. /\ outcome = "reading" /\ stage = "start" /\ outcome' = "failed"
          /\ changes' = changes /\ current' = current /\ hunk' = hunk /\ format' = format
          /\ stage' = stage /\ due' = due /\ at' = at /\ written' = written
      BY <1>5 DEF NoPatch, patchVars
    <2>2. PatchTyped /\ written = <<>>
      BY <2>1 DEF PatchInv, PatchTyped
    <2>3. PatchTyped'
      BY <2>1, <2>2 DEF PatchTyped
    <2>4. DOMAIN written' = {}
      BY <2>1, <2>2
    <2>5. QED
      BY <2>1, <2>3, <2>4 DEF PatchInv, FilesAreReported, Parsed, Warned
  <1>6. CASE UNCHANGED diffVars
    <2>1. /\ changes' = changes /\ current' = current /\ hunk' = hunk /\ format' = format
          /\ diffWarnings' = diffWarnings /\ outcome' = outcome
          /\ stage' = stage /\ due' = due /\ at' = at /\ written' = written /\ hunks' = hunks
      BY <1>6 DEF diffVars, parserVars, patchVars
    <2>2. PatchTyped' = PatchTyped /\ TracksName' = TracksName /\ TracksKind' = TracksKind
      BY <2>1 DEF PatchTyped, TracksName, TracksKind, File
    <2>3. Reported' = Reported /\ Warned' = Warned /\ FilesAreReported' = FilesAreReported
      BY <2>1 DEF Reported, Warned, FilesAreReported, NamedUpTo, ChangeOf, Parsed, Complete, Whole, File
    <2>4. QED
      BY <2>1, <2>2, <2>3 DEF PatchInv
  <1>7. QED
    BY <1>1, <1>2, <1>3, <1>4, <1>5, <1>6 DEF DiffNext, Within

(***************************************************************************)
(* Wherever a git patch of any files is cut, each named file is reported   *)
(* once, in order, the complete ones as they are, and a file without a     *)
(* name leaves a warning (parse_unified_diff).                             *)
(***************************************************************************)
THEOREM FilesAreAlwaysReported == DiffSpec => []FilesAreReported
  <1>1. PatchInv => FilesAreReported
    BY DEF PatchInv
  <1>2. QED
    BY <1>1, PatchInvAtFirst, PatchInvIsKept, PTL DEF DiffSpec

-----------------------------------------------------------------------------
(* The scopes of a document, and the cases that wait in them.              *)

CaseFields == {"outcome", "rerun", "detail", "out", "at"}

\* Each scope has its cases in the order of the document, and those of an
\* outer scope come before those of an inner one.
Stacked(stack) ==
    /\ IsList(stack) /\ Len(stack) > 0
    /\ \A l \in 1 .. Len(stack) :
          /\ DOMAIN stack[l] = {"out", "cases"} /\ IsList(stack[l].cases)
          /\ \A m \in DOMAIN stack[l].cases :
                DOMAIN stack[l].cases[m] = CaseFields /\ stack[l].cases[m].at \in Nat
          /\ \A m, n \in DOMAIN stack[l].cases :
                m < n => stack[l].cases[m].at < stack[l].cases[n].at
    /\ \A k, l \in 1 .. Len(stack) : k < l =>
          \A m \in DOMAIN stack[k].cases, n \in DOMAIN stack[l].cases :
             stack[k].cases[m].at < stack[l].cases[n].at

\* The cases in a scope, and in all: their places and their outcomes.
HeldIn(scope) == {<<scope.cases[m].at, scope.cases[m].outcome>> : m \in DOMAIN scope.cases}

Held(stack) == UNION {HeldIn(stack[l]) : l \in 1 .. Len(stack)}

\* The cases of the document so far.
CasesRead == {<<i, OutcomeAt(i)>> : i \in Before(Len(document), "case")}

ScopesInv ==
    /\ Stacked(levels) /\ Held(levels) = CasesRead
    /\ IsList(document) /\ IsList(children)
    /\ status = "parsed" => Len(levels) = 1 /\ warning \in {"no_testcases", None}
                            /\ (warning = None => Cases # <<>>)
    /\ status = "truncated" => Len(levels) = 1 /\ warning = "malformed_xml"
    /\ status = "rejected" => document = <<>> /\ warning \in Rejections
    /\ status \in {"reading", "parsed", "truncated", "rejected"}

\* A list has a length, and one element of it can be replaced.
LEMMA Replaced ==
    ASSUME NEW s, IsList(s)
    PROVE  /\ Len(s) \in Nat /\ DOMAIN s = 1 .. Len(s)
           /\ \A i \in 1 .. Len(s) : \A x :
                /\ IsList([s EXCEPT ![i] = x]) /\ Len([s EXCEPT ![i] = x]) = Len(s)
                /\ [s EXCEPT ![i] = x][i] = x
                /\ \A j \in 1 .. Len(s) : j # i => [s EXCEPT ![i] = x][j] = s[j]
  <1>1. PICK S : s \in Seq(S)
    BY DEF IsList
  <1>2. Len(s) \in Nat /\ DOMAIN s = 1 .. Len(s)
    BY <1>1, LenProperties
  <1>3. ASSUME NEW i \in 1 .. Len(s), NEW x
        PROVE  /\ IsList([s EXCEPT ![i] = x]) /\ Len([s EXCEPT ![i] = x]) = Len(s)
               /\ [s EXCEPT ![i] = x][i] = x
               /\ \A j \in 1 .. Len(s) : j # i => [s EXCEPT ![i] = x][j] = s[j]
    <2> DEFINE T == S \cup {x}
    <2>1. s \in Seq(T) /\ x \in T
      BY <1>1
    <2>2. [s EXCEPT ![i] = x] \in Seq(T) /\ Len([s EXCEPT ![i] = x]) = Len(s)
      BY <2>1, ExceptSeq
    <2>3. IsList([s EXCEPT ![i] = x])
      BY <2>2 DEF IsList
    <2>4. \A j \in 1 .. Len(s) : [s EXCEPT ![i] = x][j] = IF j = i THEN x ELSE s[j]
      BY <2>1, ExceptSeq
    <2>5. QED
      BY <2>2, <2>3, <2>4
  <1>4. QED
    BY <1>2, <1>3

\* All but the last.
LEMMA FrontIs ==
    ASSUME NEW s, IsList(s), Len(s) > 0
    PROVE  /\ IsList(Front(s)) /\ Len(Front(s)) = Len(s) - 1
           /\ \A i \in 1 .. Len(s) - 1 : Front(s)[i] = s[i]
  <1>1. PICK S : s \in Seq(S)
    BY DEF IsList
  <1>2. Len(s) \in Nat /\ DOMAIN s = 1 .. Len(s)
    BY <1>1, LenProperties
  <1>3. \A i \in 1 .. Len(s) - 1 : s[i] \in S
    BY <1>1, <1>2, ElementOfSeq, NotLast
  <1>4. /\ SubSeq(s, 1, Len(s) - 1) \in Seq(S)
        /\ Len(SubSeq(s, 1, Len(s) - 1)) = IF 1 <= Len(s) - 1 THEN Len(s) - 1 - 1 + 1 ELSE 0
        /\ \A i \in 1 .. Len(s) - 1 - 1 + 1 : SubSeq(s, 1, Len(s) - 1)[i] = s[1 + i - 1]
    <2>1. 1 \in Int /\ Len(s) - 1 \in Int
      BY <1>2
    <2>2. QED
      BY <1>3, <2>1, SubSeqProperties
  <1>5. \A i \in 1 .. Len(s) - 1 : i \in 1 .. Len(s) - 1 - 1 + 1 /\ 1 + i - 1 = i
    BY <1>2
  <1>6. \A i \in 1 .. Len(s) - 1 : SubSeq(s, 1, Len(s) - 1)[i] = s[i]
    BY <1>4, <1>5
  <1>7. Len(SubSeq(s, 1, Len(s) - 1)) = Len(s) - 1
    BY <1>2, <1>4
  <1>8. QED
    BY <1>4, <1>6, <1>7 DEF Front, IsList

\* Two lists after one another.
LEMMA Joined ==
    ASSUME NEW s, NEW t, IsList(s), IsList(t)
    PROVE  /\ IsList(s \o t) /\ Len(s \o t) = Len(s) + Len(t)
           /\ \A i \in 1 .. Len(s) : (s \o t)[i] = s[i]
           /\ \A i \in 1 .. Len(t) : (s \o t)[Len(s) + i] = t[i]
           /\ \A i \in 1 .. Len(s) + Len(t) :
                i \in 1 .. Len(s) \/ \E j \in 1 .. Len(t) : i = Len(s) + j
  <1>1. PICK S : s \in Seq(S)
    BY DEF IsList
  <1>2. PICK T : t \in Seq(T)
    BY DEF IsList
  <1> DEFINE U == S \cup T
  <1>3. s \in Seq(U) /\ t \in Seq(U)
    BY <1>1, <1>2
  <1>4. Len(s) \in Nat /\ Len(t) \in Nat
    BY <1>1, <1>2, LenProperties
  <1>5. /\ s \o t \in Seq(U) /\ Len(s \o t) = Len(s) + Len(t)
        /\ \A i \in 1 .. Len(s) + Len(t) :
             (s \o t)[i] = IF i <= Len(s) THEN s[i] ELSE t[i - Len(s)]
    BY <1>3, ConcatProperties
  <1>6. IsList(s \o t)
    BY <1>5 DEF IsList
  <1>7. \A i \in 1 .. Len(s) : (s \o t)[i] = s[i]
    BY <1>4, <1>5
  <1>8. ASSUME NEW i \in 1 .. Len(t)
        PROVE  (s \o t)[Len(s) + i] = t[i]
    <2>1. Len(s) + i \in 1 .. Len(s) + Len(t) /\ ~(Len(s) + i <= Len(s))
          /\ Len(s) + i - Len(s) = i
      BY <1>4
    <2>2. QED
      BY <1>5, <2>1
  <1>9. ASSUME NEW i \in 1 .. Len(s) + Len(t), i \notin 1 .. Len(s)
        PROVE  \E j \in 1 .. Len(t) : i = Len(s) + j
    <2>1. i - Len(s) \in 1 .. Len(t) /\ i = Len(s) + (i - Len(s))
      BY <1>4, <1>9
    <2>2. QED
      BY <2>1
  <1>10. QED
    BY <1>5, <1>6, <1>7, <1>8, <1>9

\* The end of a suite puts its cases behind those of the scope around it.
IsEmitted(after, stack, n, own, former, merged) ==
    /\ IsList(after) /\ Len(after) = n - 1
    /\ \A l \in 1 .. n - 1 : l # n - 1 => after[l] = stack[l]
    /\ DOMAIN after[n - 1] = {"out", "cases"} /\ after[n - 1].out = stack[n - 1].out
    /\ Len(own) \in Nat /\ DOMAIN own = 1 .. Len(own)
    /\ Len(former) \in Nat /\ DOMAIN former = 1 .. Len(former)
    /\ IsList(merged) /\ DOMAIN merged = 1 .. Len(former) + Len(own)
    /\ \A i \in 1 .. Len(former) : merged[i] = former[i]
    /\ \A i \in 1 .. Len(own) : merged[Len(former) + i] = WithSuiteOutput(own[i], stack[n])
    /\ \A i \in 1 .. Len(former) + Len(own) :
          i \in 1 .. Len(former) \/ \E j \in 1 .. Len(own) : i = Len(former) + j

\* All other scopes stay as they are.
LEMMA EmittedIs ==
    ASSUME NEW stack, Stacked(stack), Len(stack) > 1
    PROVE  IsEmitted(Emitted(stack), stack, Len(stack), stack[Len(stack)].cases,
                     stack[Len(stack) - 1].cases, Emitted(stack)[Len(stack) - 1].cases)
  <1> DEFINE n == Len(stack)
             own == stack[n].cases
             former == stack[n - 1].cases
             resolved == [i \in DOMAIN own |-> WithSuiteOutput(own[i], stack[n])]
             joined == former \o resolved
             outer == [stack[n - 1] EXCEPT !.cases = joined]
             stack2 == [Front(stack) EXCEPT ![n - 1] = outer]
  <1>1. /\ n \in Nat /\ n - 1 \in 1 .. n - 1 /\ n - 1 \in 1 .. n /\ n \in 1 .. n /\ n - 1 < n
        /\ n - 1 > 0
    <2>1. n \in Nat
      BY Replaced DEF Stacked
    <2>2. QED
      BY <2>1
  <1>2. /\ IsList(Front(stack)) /\ Len(Front(stack)) = n - 1
        /\ \A i \in 1 .. n - 1 : Front(stack)[i] = stack[i]
    BY FrontIs DEF Stacked
  <1>3. Emitted(stack) = stack2
    BY <1>1, <1>2 DEF Emitted
  <1>4. /\ IsList(stack2) /\ Len(stack2) = n - 1 /\ stack2[n - 1] = outer
        /\ \A l \in 1 .. n - 1 : l # n - 1 => stack2[l] = stack[l]
    <2> HIDE DEF outer
    <2>1. /\ IsList(stack2) /\ Len(stack2) = Len(Front(stack)) /\ stack2[n - 1] = outer
          /\ \A l \in 1 .. Len(Front(stack)) : l # n - 1 => stack2[l] = Front(stack)[l]
      BY <1>1, <1>2, Replaced
    <2>2. QED
      BY <1>2, <2>1
  <1>5. /\ IsList(own) /\ IsList(former)
        /\ DOMAIN own = 1 .. Len(own) /\ DOMAIN former = 1 .. Len(former)
        /\ Len(own) \in Nat /\ Len(former) \in Nat
        /\ DOMAIN stack[n - 1] = {"out", "cases"}
    <2>1. IsList(own) /\ IsList(former) /\ DOMAIN stack[n - 1] = {"out", "cases"}
      BY <1>1 DEF Stacked
    <2>2. QED
      BY <2>1, Replaced
  <1>6. DOMAIN outer = {"out", "cases"} /\ outer.cases = joined /\ outer.out = stack[n - 1].out
    BY <1>5
  <1>7. /\ IsList(resolved) /\ Len(resolved) = Len(own)
        /\ \A i \in 1 .. Len(own) : resolved[i] = WithSuiteOutput(own[i], stack[n])
    <2> DEFINE T == {WithSuiteOutput(own[i], stack[n]) : i \in 1 .. Len(own)}
    <2>1. resolved \in Seq(T) /\ Len(resolved) = Len(own)
      BY <1>5
    <2>2. \A i \in 1 .. Len(own) : resolved[i] = WithSuiteOutput(own[i], stack[n])
      BY <1>5
    <2>3. QED
      BY <2>1, <2>2 DEF IsList
  <1> HIDE DEF resolved
  <1>8. /\ IsList(joined) /\ Len(joined) = Len(former) + Len(own)
        /\ \A i \in 1 .. Len(former) : joined[i] = former[i]
        /\ \A i \in 1 .. Len(own) : joined[Len(former) + i] = resolved[i]
        /\ \A i \in 1 .. Len(former) + Len(own) :
             i \in 1 .. Len(former) \/ \E j \in 1 .. Len(own) : i = Len(former) + j
    <2> HIDE DEF own, former
    <2>1. /\ IsList(joined) /\ Len(joined) = Len(former) + Len(resolved)
          /\ \A i \in 1 .. Len(former) : joined[i] = former[i]
          /\ \A i \in 1 .. Len(resolved) : joined[Len(former) + i] = resolved[i]
          /\ \A i \in 1 .. Len(former) + Len(resolved) :
               i \in 1 .. Len(former) \/ \E j \in 1 .. Len(resolved) : i = Len(former) + j
      BY <1>5, <1>7, Joined
    <2> HIDE DEF joined
    <2>2. QED
      BY <1>7, <2>1
  <1>9. DOMAIN joined = 1 .. Len(former) + Len(own)
    BY <1>8, Replaced
  <1>10. stack2[n - 1].cases = joined
    <2> HIDE DEF stack2, outer, joined
    <2>1. QED
      BY <1>4, <1>6
  <1> HIDE DEF stack2, outer, joined, own, former
  <1>11. IsEmitted(stack2, stack, n, own, former, joined)
    BY <1>1, <1>4, <1>5, <1>6, <1>7, <1>8, <1>9 DEF IsEmitted
  <1>12. QED
    BY <1>3, <1>10, <1>11 DEF n, own, former

\* It loses and reorders none.
LEMMA EmittedKeeps ==
    ASSUME NEW stack, Stacked(stack), Len(stack) > 1
    PROVE  /\ Stacked(Emitted(stack)) /\ Len(Emitted(stack)) = Len(stack) - 1
           /\ Held(Emitted(stack)) = Held(stack)
  <1> DEFINE n == Len(stack)
             own == stack[n].cases
             former == stack[n - 1].cases
             stack2 == Emitted(stack)
             outer == stack2[n - 1]
             merged == outer.cases
  <1>1. /\ n \in Nat /\ n - 1 \in 1 .. n - 1 /\ n - 1 \in 1 .. n /\ n \in 1 .. n /\ n - 1 < n
        /\ n - 1 > 0
    <2>1. n \in Nat
      BY Replaced DEF Stacked
    <2>2. QED
      BY <2>1
  <1>2. IsEmitted(stack2, stack, n, own, former, merged)
    BY EmittedIs
  <1> HIDE DEF stack2, own, former, merged
  <1>3. /\ IsList(stack2) /\ Len(stack2) = n - 1 /\ stack2[n - 1] = outer
        /\ \A l \in 1 .. n - 1 : l # n - 1 => stack2[l] = stack[l]
    BY <1>2 DEF IsEmitted, outer
  <1>4. /\ DOMAIN own = 1 .. Len(own) /\ DOMAIN former = 1 .. Len(former)
        /\ Len(own) \in Nat /\ Len(former) \in Nat
    BY <1>2 DEF IsEmitted
  <1>5. DOMAIN outer = {"out", "cases"} /\ outer.cases = merged
    BY <1>2 DEF IsEmitted, outer, merged
  <1>6. /\ IsList(merged)
        /\ \A i \in 1 .. Len(former) : merged[i] = former[i]
        /\ \A i \in 1 .. Len(own) : merged[Len(former) + i] = WithSuiteOutput(own[i], stack[n])
        /\ \A i \in 1 .. Len(former) + Len(own) :
             i \in 1 .. Len(former) \/ \E j \in 1 .. Len(own) : i = Len(former) + j
        /\ DOMAIN merged = 1 .. Len(former) + Len(own)
    BY <1>2 DEF IsEmitted
  <1>7. \A i \in 1 .. Len(own) : LET case == WithSuiteOutput(own[i], stack[n]) IN
           DOMAIN case = CaseFields /\ case.at = own[i].at /\ case.outcome = own[i].outcome
    <2>1. \A i \in 1 .. Len(own) : DOMAIN own[i] = CaseFields
      BY <1>1, <1>4 DEF Stacked, own
    <2>2. QED
      BY <2>1 DEF WithSuiteOutput, CaseFields
  <1> HIDE DEF merged, outer, stack2, own, former
  \* Its cases, old and new.
  <1>8. ASSUME NEW i \in DOMAIN merged
         PROVE  /\ DOMAIN merged[i] = CaseFields /\ merged[i].at \in Nat
                /\ \/ i \in DOMAIN former /\ merged[i] = former[i]
                   \/ \E j \in DOMAIN own : /\ i = Len(former) + j /\ merged[i].at = own[j].at
                                            /\ merged[i].outcome = own[j].outcome
    <2>1. /\ \A j \in DOMAIN former : DOMAIN former[j] = CaseFields /\ former[j].at \in Nat
          /\ \A j \in DOMAIN own : own[j].at \in Nat
      BY <1>1 DEF Stacked, own, former
    <2>2. CASE i \in 1 .. Len(former)
      BY <1>4, <1>6, <2>1, <2>2
    <2>3. CASE i \notin 1 .. Len(former)
      <3>1. PICK j \in 1 .. Len(own) : i = Len(former) + j
        BY <1>6, <2>3
      <3>2. merged[i] = WithSuiteOutput(own[j], stack[n])
        BY <1>6, <3>1
      <3>3. QED
        BY <1>4, <1>7, <2>1, <3>1, <3>2
    <2>4. QED
      BY <2>2, <2>3
  <1>9. ASSUME NEW i \in DOMAIN merged, NEW j \in DOMAIN merged, i < j
         PROVE  merged[i].at < merged[j].at
    <2>1. /\ \A k, m \in DOMAIN former : k < m => former[k].at < former[m].at
          /\ \A k, m \in DOMAIN own : k < m => own[k].at < own[m].at
          /\ \A k \in DOMAIN former, m \in DOMAIN own : former[k].at < own[m].at
      BY <1>1 DEF Stacked, own, former
    <2>2. CASE j \in DOMAIN former
      <3>1. i \in DOMAIN former
        BY <1>4, <1>6, <1>9, <2>2
      <3>2. merged[i] = former[i] /\ merged[j] = former[j]
        BY <1>4, <1>6, <2>2, <3>1
      <3>3. QED
        BY <1>9, <2>1, <2>2, <3>1, <3>2
    <2>3. CASE j \notin DOMAIN former
      <3>1. PICK m \in DOMAIN own : j = Len(former) + m /\ merged[j].at = own[m].at
        BY <1>8, <2>3
      <3>2. CASE i \in DOMAIN former
        BY <1>4, <1>6, <2>1, <3>1, <3>2
      <3>3. CASE i \notin DOMAIN former
        <4>1. PICK k \in DOMAIN own : i = Len(former) + k /\ merged[i].at = own[k].at
          BY <1>8, <3>3
        <4>2. k < m
          BY <1>4, <1>9, <3>1, <4>1
        <4>3. QED
          BY <2>1, <3>1, <4>1, <4>2
      <3>4. QED
        BY <3>2, <3>3
    <2>4. QED
      BY <2>2, <2>3
  <1>10. Stacked(stack2)
    <2>1. ASSUME NEW l \in 1 .. n - 1
          PROVE  /\ DOMAIN stack2[l] = {"out", "cases"} /\ IsList(stack2[l].cases)
                 /\ \A m \in DOMAIN stack2[l].cases :
                      DOMAIN stack2[l].cases[m] = CaseFields /\ stack2[l].cases[m].at \in Nat
                 /\ \A i, m \in DOMAIN stack2[l].cases :
                      i < m => stack2[l].cases[i].at < stack2[l].cases[m].at
      <3>1. CASE l = n - 1
        BY <1>3, <1>5, <1>6, <1>8, <1>9, <3>1
      <3>2. CASE l # n - 1
        <4>1. stack2[l] = stack[l] /\ l \in 1 .. n
          BY <1>1, <1>3, <3>2
        <4>2. QED
          BY <4>1 DEF Stacked
      <3>3. QED
        BY <3>1, <3>2
    <2>2. ASSUME NEW k \in 1 .. n - 1, NEW l \in 1 .. n - 1, k < l,
                 NEW i \in DOMAIN stack2[k].cases, NEW m \in DOMAIN stack2[l].cases
          PROVE  stack2[k].cases[i].at < stack2[l].cases[m].at
      <3>1. stack2[k] = stack[k] /\ k \in 1 .. n /\ k < n /\ k # n - 1
        BY <1>1, <1>3, <2>2
      <3>2. CASE l # n - 1
        <4>1. stack2[l] = stack[l] /\ l \in 1 .. n
          BY <1>1, <1>3, <3>2
        <4>2. QED
          BY <2>2, <3>1, <4>1 DEF Stacked
      <3>3. CASE l = n - 1
        <4>1. m \in DOMAIN merged /\ stack2[l].cases = merged
          BY <1>3, <1>5, <2>2, <3>3
        <4>2. /\ \A j \in DOMAIN former : stack[k].cases[i].at < former[j].at
              /\ \A j \in DOMAIN own : stack[k].cases[i].at < own[j].at
          BY <1>1, <2>2, <3>1, <3>3 DEF Stacked, own, former
        <4>3. QED
          BY <1>8, <3>1, <4>1, <4>2
      <3>4. QED
        BY <3>2, <3>3
    <2>3. QED
      BY <1>1, <1>3, <2>1, <2>2 DEF Stacked
  <1>11. HeldIn(outer) = HeldIn(stack[n - 1]) \cup HeldIn(stack[n])
    <2>1. /\ HeldIn(stack[n - 1]) = {<<former[m].at, former[m].outcome>> : m \in DOMAIN former}
          /\ HeldIn(stack[n]) = {<<own[m].at, own[m].outcome>> : m \in DOMAIN own}
          /\ HeldIn(outer) = {<<merged[m].at, merged[m].outcome>> : m \in DOMAIN merged}
      BY <1>5 DEF HeldIn, own, former
    <2>2. \A i \in DOMAIN former : i \in DOMAIN merged /\ merged[i] = former[i]
      BY <1>4, <1>6
    <2>3. ASSUME NEW j \in DOMAIN own
          PROVE  /\ Len(former) + j \in DOMAIN merged
                 /\ merged[Len(former) + j].at = own[j].at
                 /\ merged[Len(former) + j].outcome = own[j].outcome
      <3>1. j \in 1 .. Len(own) /\ Len(former) + j \in 1 .. Len(former) + Len(own)
        BY <1>4
      <3>2. merged[Len(former) + j] = WithSuiteOutput(own[j], stack[n])
        BY <1>6, <3>1
      <3>3. QED
        BY <1>7, <1>6, <3>1, <3>2
    <2>4. QED
      BY <1>8, <2>1, <2>2, <2>3
  <1>12. Held(stack2) = Held(stack)
    <2>1. Held(stack2) = UNION {HeldIn(stack2[l]) : l \in 1 .. n - 1}
      BY <1>3 DEF Held
    <2>2. \A l \in 1 .. n - 1 :
             stack2[l] = IF l = n - 1 THEN outer ELSE stack[l]
      BY <1>3
    <2>3. \A l \in 1 .. n : l \in 1 .. n - 1 \/ l = n
      BY <1>1
    <2>4. ASSUME NEW p \in Held(stack2)
          PROVE  p \in Held(stack)
      <3>1. PICK l \in 1 .. n - 1 : p \in HeldIn(stack2[l])
        BY <2>1
      <3>2. l \in 1 .. n
        BY <1>1
      <3>3. \/ p \in HeldIn(stack[l])
            \/ p \in HeldIn(stack[n - 1]) \/ p \in HeldIn(stack[n])
        BY <1>11, <2>2, <3>1
      <3>4. QED
        BY <1>1, <3>2, <3>3 DEF Held
    <2>5. ASSUME NEW p \in Held(stack)
          PROVE  p \in Held(stack2)
      <3>1. PICK l \in 1 .. n : p \in HeldIn(stack[l])
        BY DEF Held
      <3>2. CASE l \in {n - 1, n}
        <4>1. p \in HeldIn(stack2[n - 1])
          BY <1>3, <1>11, <3>1, <3>2
        <4>2. QED
          BY <1>1, <2>1, <4>1
      <3>3. CASE l \notin {n - 1, n}
        <4>1. l \in 1 .. n - 1 /\ stack2[l] = stack[l]
          BY <1>3, <2>3, <3>3
        <4>2. QED
          BY <2>1, <3>1, <4>1
      <3>4. QED
        BY <3>2, <3>3
    <2>6. QED
      BY <2>4, <2>5
  <1>13. QED
    BY <1>3, <1>10, <1>12 DEF stack2

\* The least of a set of numbers is one of them, below none of the others.
LEMMA LeastIs ==
    ASSUME NEW S \in SUBSET Nat, S # {}
    PROVE  Min(S) \in S /\ \A n \in S : Min(S) <= n
  <1>1. PICK m \in S : \A n \in S : <<n, m>> \notin OpToRel(<, Nat)
    BY NatLessThanWellFounded, WFMin
  <1>2. \A n \in S : m <= n
    <2>1. \A n \in S : ~(n < m)
      BY <1>1 DEF OpToRel
    <2>2. QED
      BY <2>1
  <1>3. QED
    BY <1>2 DEF Min

\* The greatest of the numbers in a set up to k is one of them.
LEMMA GreatestIs ==
    ASSUME NEW k \in Nat, NEW S \in SUBSET (1 .. k), S # {}
    PROVE  /\ Max(S) \in S /\ \A n \in S : n <= Max(S)
           /\ \A m \in S : (\A n \in S : n <= m) => Max(S) = m
  <1> DEFINE T == {k - n : n \in S}
  <1>0. \A n \in S : n \in 1 .. k /\ n \in Nat
    OBVIOUS
  <1>1. T \in SUBSET Nat /\ T # {}
    <2>1. \A n \in S : k - n \in Nat
      BY <1>0
    <2>2. QED
      BY <2>1
  <1>2. Min(T) \in T /\ \A n \in T : Min(T) <= n
    <2> HIDE DEF T
    <2>1. QED
      BY <1>1, LeastIs
  <1>3. PICK x \in S : Min(T) = k - x
    BY <1>2
  <1>4. ASSUME NEW n \in S
        PROVE  n <= x
    <2>1. k - x <= k - n
      BY <1>2, <1>3
    <2>2. QED
      BY <2>1
  <1>5. Max(S) \in S /\ \A n \in S : Max(S) >= n
    <2>1. \E y \in S : \A n \in S : y >= n
      BY <1>4
    <2>2. QED
      BY <2>1 DEF Max
  <1>6. ASSUME NEW m \in S, \A n \in S : n <= m
        PROVE  Max(S) = m
    <2>1. m <= Max(S) /\ Max(S) <= m
      BY <1>5, <1>6
    <2>2. Max(S) \in Nat /\ m \in Nat
      BY <1>0, <1>5
    <2>3. QED
      BY <2>1, <2>2
  <1>7. \A n \in S : n <= Max(S)
    <2>1. Max(S) \in Nat
      BY <1>0, <1>5
    <2>2. QED
      BY <1>0, <1>5, <2>1
  <1>8. QED
    BY <1>5, <1>6, <1>7

\* The stacks after the ends of up to k suites.
Ends(stack, k, f) ==
    f = [d \in 0 .. k |-> IF d = 0 THEN stack ELSE Emitted(f[d - 1])]

\* There are such stacks, since each is computed from the one before.
LEMMA EndsExist ==
    ASSUME NEW stack, NEW k \in Nat
    PROVE  \E f : Ends(stack, k, f)
  <1> DEFINE Missing == {m \in Nat : ~\E f : Ends(stack, m, f)}
  <1> SUFFICES Missing = {}
    OBVIOUS
  <1> SUFFICES ASSUME Missing # {}
               PROVE  FALSE
    OBVIOUS
  <1> DEFINE least == Min(Missing)
  <1>1. Missing \in SUBSET Nat
    OBVIOUS
  <1>2. least \in Missing /\ \A m \in Missing : least <= m
    <2> HIDE DEF Missing
    <2>1. QED
      BY <1>1, LeastIs
  <1>3. least \in Nat /\ ~\E f : Ends(stack, least, f)
    BY <1>2
  <1> HIDE DEF least
  <1>4. CASE least = 0
    <2> DEFINE f == [d \in 0 .. 0 |-> stack]
    <2>1. Ends(stack, 0, f)
      BY DEF Ends
    <2>2. QED
      BY <1>3, <1>4, <2>1
  <1>5. CASE least # 0
    <2>1. least - 1 \in Nat /\ ~(least <= least - 1)
      BY <1>3, <1>5
    <2>2. PICK g : Ends(stack, least - 1, g)
      BY <1>2, <2>1
    <2> DEFINE f == [d \in 0 .. least |->
                        IF d < least THEN g[d] ELSE Emitted(g[least - 1])]
               F == [d \in 0 .. least |-> IF d = 0 THEN stack ELSE Emitted(f[d - 1])]
    <2>3. ASSUME NEW d \in 0 .. least
          PROVE  f[d] = F[d]
      <3>1. CASE d = least
        <4>1. d - 1 \in 0 .. least /\ d - 1 < least
          BY <1>3, <1>5, <3>1
        <4>2. f[d - 1] = g[least - 1]
          BY <3>1, <4>1
        <4>3. f[d] = Emitted(g[least - 1])
          BY <1>3, <3>1
        <4>4. F[d] = Emitted(f[d - 1])
          BY <1>5, <3>1
        <4>5. QED
          BY <3>1, <4>2, <4>3, <4>4
      <3>2. CASE d # least
        <4>1. d < least /\ d \in 0 .. least - 1 /\ f[d] = g[d]
          BY <1>3, <3>2
        <4>2. g[d] = IF d = 0 THEN stack ELSE Emitted(g[d - 1])
          BY <2>2, <4>1, Zenon DEF Ends
        <4>3. d # 0 => f[d - 1] = g[d - 1]
          BY <1>3, <4>1
        <4>4. QED
          BY <4>1, <4>2, <4>3
      <3>3. QED
        BY <3>1, <3>2
    <2>4. f = F
      <3>1. f = [d \in 0 .. least |-> f[d]] /\ F = [d \in 0 .. least |-> F[d]]
        OBVIOUS
      <3> HIDE DEF f, F
      <3>2. QED
        BY <2>3, <3>1
    <2>5. Ends(stack, least, f)
      BY <2>4 DEF Ends
    <2>6. QED
      BY <1>3, <2>5
  <1>6. QED
    BY <1>4, <1>5

-----------------------------------------------------------------------------
(* A case, read off its children.                                          *)

\* A case before its children are read.
Bare(place) == [outcome |-> "pass", rerun |-> FALSE, detail |-> Absent, out |-> None, at |-> place]

\* The case after up to k of its children.
Readings(parts, place, k, f) ==
    f = [d \in 0 .. k |-> IF d = 0 THEN Bare(place) ELSE Read(f[d - 1], parts[d])]

\* There are such readings, since each is computed from the one before.
LEMMA ReadingsExist ==
    ASSUME NEW parts, NEW place, NEW k \in Nat
    PROVE  \E f : Readings(parts, place, k, f)
  <1> DEFINE Missing == {m \in Nat : ~\E f : Readings(parts, place, m, f)}
  <1> SUFFICES Missing = {}
    OBVIOUS
  <1> SUFFICES ASSUME Missing # {}
               PROVE  FALSE
    OBVIOUS
  <1> DEFINE least == Min(Missing)
  <1>1. Missing \in SUBSET Nat
    OBVIOUS
  <1>2. least \in Missing /\ \A m \in Missing : least <= m
    <2> HIDE DEF Missing
    <2>1. QED
      BY <1>1, LeastIs
  <1>3. least \in Nat /\ ~\E f : Readings(parts, place, least, f)
    BY <1>2
  <1> HIDE DEF least
  <1>4. CASE least = 0
    <2> DEFINE f == [d \in 0 .. 0 |-> Bare(place)]
    <2>1. Readings(parts, place, 0, f)
      BY DEF Readings
    <2>2. QED
      BY <1>3, <1>4, <2>1
  <1>5. CASE least # 0
    <2>1. least - 1 \in Nat /\ ~(least <= least - 1)
      BY <1>3, <1>5
    <2>2. PICK g : Readings(parts, place, least - 1, g)
      BY <1>2, <2>1
    <2> DEFINE f == [d \in 0 .. least |->
                        IF d < least THEN g[d] ELSE Read(g[least - 1], parts[least])]
               F == [d \in 0 .. least |-> IF d = 0 THEN Bare(place) ELSE Read(f[d - 1], parts[d])]
    <2>3. ASSUME NEW d \in 0 .. least
          PROVE  f[d] = F[d]
      <3>1. CASE d = least
        <4>1. d - 1 \in 0 .. least /\ d - 1 < least
          BY <1>3, <1>5, <3>1
        <4>2. f[d - 1] = g[least - 1]
          BY <3>1, <4>1
        <4>3. f[d] = Read(g[least - 1], parts[least])
          BY <1>3, <3>1
        <4>4. F[d] = Read(f[d - 1], parts[d])
          BY <1>5, <3>1
        <4>5. QED
          BY <3>1, <4>2, <4>3, <4>4
      <3>2. CASE d # least
        <4>1. d < least /\ d \in 0 .. least - 1 /\ f[d] = g[d]
          BY <1>3, <3>2
        <4>2. g[d] = IF d = 0 THEN Bare(place) ELSE Read(g[d - 1], parts[d])
          BY <2>2, <4>1, Zenon DEF Readings
        <4>3. d # 0 => f[d - 1] = g[d - 1]
          BY <1>3, <4>1
        <4>4. QED
          BY <4>1, <4>2, <4>3
      <3>3. QED
        BY <3>1, <3>2
    <2>4. f = F
      <3>1. f = [d \in 0 .. least |-> f[d]] /\ F = [d \in 0 .. least |-> F[d]]
        OBVIOUS
      <3> HIDE DEF f, F
      <3>2. QED
        BY <2>3, <3>1
    <2>5. Readings(parts, place, least, f)
      BY <2>4 DEF Readings
    <2>6. QED
      BY <1>3, <2>5
  <1>6. QED
    BY <1>4, <1>5

\* The outcome of some children: that of the first that fails.
Failing(parts, k) == {i \in 1 .. k : parts[i].tag \in DOMAIN FailureTags}

OutcomeOf(parts, k) ==
    IF Failing(parts, k) = {} THEN "pass" ELSE FailureTags[parts[Min(Failing(parts, k))].tag]

\* One more child decides only if none before it has.
LEMMA OutcomeNext ==
    ASSUME NEW parts, NEW k \in Nat
    PROVE  /\ OutcomeOf(parts, 0) = "pass"
           /\ OutcomeOf(parts, k) = "pass" <=> Failing(parts, k) = {}
           /\ OutcomeOf(parts, k + 1) =
                IF Failing(parts, k) = {} /\ parts[k + 1].tag \in DOMAIN FailureTags
                THEN FailureTags[parts[k + 1].tag] ELSE OutcomeOf(parts, k)
  <1> DEFINE before == Failing(parts, k)
             after == Failing(parts, k + 1)
  <1>1. OutcomeOf(parts, 0) = "pass"
    <2>1. Failing(parts, 0) = {}
      BY DEF Failing
    <2>2. QED
      BY <2>1 DEF OutcomeOf
  <1>2. before \in SUBSET Nat /\ after \in SUBSET Nat
    BY DEF Failing
  <1>3. after = before \cup IF parts[k + 1].tag \in DOMAIN FailureTags THEN {k + 1} ELSE {}
    BY DEF Failing
  <1>4. \A i \in before : i <= k /\ parts[i].tag \in DOMAIN FailureTags
    BY DEF Failing
  <1>5. \A tag \in DOMAIN FailureTags : FailureTags[tag] # "pass"
    BY DEF FailureTags
  <1>6. before # {} => Min(before) \in before /\ \A i \in before : Min(before) <= i
    BY <1>2, LeastIs
  <1>7. after # {} => Min(after) \in after /\ \A i \in after : Min(after) <= i
    BY <1>2, LeastIs
  <1> HIDE DEF before, after
  <1>8. before # {} => Min(after) = Min(before)
    BY <1>2, <1>3, <1>4, <1>6, <1>7
  <1>9. before = {} /\ parts[k + 1].tag \in DOMAIN FailureTags => Min(after) = k + 1
    BY <1>3, <1>7
  <1>10. OutcomeOf(parts, k) = IF before = {} THEN "pass" ELSE FailureTags[parts[Min(before)].tag]
    BY DEF OutcomeOf, before
  <1>11. OutcomeOf(parts, k + 1) = IF after = {} THEN "pass" ELSE FailureTags[parts[Min(after)].tag]
    BY DEF OutcomeOf, after
  <1>12. OutcomeOf(parts, k) = "pass" <=> before = {}
    BY <1>4, <1>5, <1>6, <1>10
  <1>13. OutcomeOf(parts, k + 1) =
            IF before = {} /\ parts[k + 1].tag \in DOMAIN FailureTags
            THEN FailureTags[parts[k + 1].tag] ELSE OutcomeOf(parts, k)
    <2>1. CASE before = {} /\ parts[k + 1].tag \in DOMAIN FailureTags
      BY <1>3, <1>9, <1>11, <2>1
    <2>2. CASE before = {} /\ parts[k + 1].tag \notin DOMAIN FailureTags
      BY <1>3, <1>10, <1>11, <2>2
    <2>3. CASE before # {}
      BY <1>3, <1>8, <1>10, <1>11, <2>3
    <2>4. QED
      BY <2>1, <2>2, <2>3
  <1>14. QED
    BY <1>1, <1>12, <1>13 DEF before

\* The output of some children: the last there is.
Outputs(parts, k) == {i \in 1 .. k : parts[i].tag = "output"}

OwnOf(parts, k) == IF Outputs(parts, k) = {} THEN None ELSE parts[Max(Outputs(parts, k))].text

\* Output takes the place of the output before it.
LEMMA OwnNext ==
    ASSUME NEW parts, NEW k \in Nat
    PROVE  /\ OwnOf(parts, 0) = None
           /\ OwnOf(parts, k + 1) =
                IF parts[k + 1].tag = "output" THEN parts[k + 1].text ELSE OwnOf(parts, k)
  <1>1. OwnOf(parts, 0) = None
    <2>1. Outputs(parts, 0) = {}
      BY DEF Outputs
    <2>2. QED
      BY <2>1 DEF OwnOf
  <1>2. CASE parts[k + 1].tag = "output"
    <2>1. /\ Outputs(parts, k + 1) \in SUBSET (1 .. k + 1) /\ k + 1 \in Outputs(parts, k + 1)
          /\ k + 1 \in Nat /\ \A i \in Outputs(parts, k + 1) : i <= k + 1
      BY <1>2 DEF Outputs
    <2>2. Max(Outputs(parts, k + 1)) = k + 1
      BY <2>1, GreatestIs
    <2>3. QED
      BY <1>1, <1>2, <2>1, <2>2 DEF OwnOf
  <1>3. CASE parts[k + 1].tag # "output"
    <2>1. Outputs(parts, k + 1) = Outputs(parts, k)
      BY <1>3 DEF Outputs
    <2>2. QED
      BY <1>1, <1>3, <2>1 DEF OwnOf
  <1>4. QED
    BY <1>2, <1>3

\* What is built of a case is its place, and the outcome and the output of
\* its children.
LEMMA BuildCaseIs ==
    ASSUME NEW place, IsList(children)
    PROVE  /\ DOMAIN BuildCase(place) = CaseFields /\ BuildCase(place).at = place
           /\ BuildCase(place).outcome = OutcomeOf(children, Len(children))
           /\ BuildCase(place).out = OwnOf(children, Len(children))
  <1> DEFINE last == Len(children)
             Built[d \in 0 .. last] ==
                IF d = 0
                THEN [outcome |-> "pass", rerun |-> FALSE, detail |-> Absent, out |-> None, at |-> place]
                ELSE Read(Built[d - 1], children[d])
  <1>1. last \in Nat /\ last \in 0 .. last
    BY Replaced
  <1>2. BuildCase(place) = Built[last]
    BY DEF BuildCase
  <1>3. \E f : Readings(children, place, last, f)
    BY <1>1, ReadingsExist
  <1>4. Readings(children, place, last, Built)
    BY <1>3 DEF Readings, Bare
  <1> HIDE DEF Built
  <1>5. ASSUME NEW d \in 0 .. last
        PROVE  Built[d] = IF d = 0 THEN Bare(place) ELSE Read(Built[d - 1], children[d])
    BY <1>4, Zenon DEF Readings
  <1> DEFINE Right(case, d) ==
                /\ DOMAIN case = CaseFields /\ case.at = place
                /\ case.outcome = OutcomeOf(children, d) /\ case.out = OwnOf(children, d)
             Wrong == {d \in 0 .. last : ~Right(Built[d], d)}
  <1>6. Wrong = {}
    <2> SUFFICES ASSUME Wrong # {}
                 PROVE  FALSE
      OBVIOUS
    <2> DEFINE least == Min(Wrong)
    <2>1. Wrong \in SUBSET Nat
      BY <1>1
    <2>2. least \in Wrong /\ \A d \in Wrong : least <= d
      <3> HIDE DEF Wrong
      <3>1. QED
        BY <2>1, LeastIs
    <2>3. least \in 0 .. last /\ ~Right(Built[least], least)
      BY <2>2
    <2> HIDE DEF least
    <2>4. CASE least = 0
      <3>1. Built[least] = Bare(place)
        BY <1>5, <2>3, <2>4
      <3>2. OutcomeOf(children, 0) = "pass" /\ OwnOf(children, 0) = None
        BY OutcomeNext, OwnNext
      <3>3. QED
        BY <2>3, <2>4, <3>1, <3>2 DEF Bare, CaseFields
    <2>5. CASE least # 0
      <3> DEFINE k == least - 1
                 case == Built[k]
                 child == children[least]
      <3>1. k \in Nat /\ k \in 0 .. last /\ ~(least <= k) /\ k + 1 = least
        BY <1>1, <2>3, <2>5
      <3>2. Right(case, k)
        BY <2>2, <3>1
      <3>3. Built[least] = Read(case, child)
        BY <1>5, <2>3, <2>5
      <3> HIDE DEF k, case, child
      <3>4. /\ OutcomeOf(children, k) = "pass" <=> Failing(children, k) = {}
            /\ OutcomeOf(children, least) =
                 IF Failing(children, k) = {} /\ child.tag \in DOMAIN FailureTags
                 THEN FailureTags[child.tag] ELSE OutcomeOf(children, k)
        BY <3>1, OutcomeNext DEF child
      <3>5. DOMAIN FailureTags = {"failure", "error", "skipped"}
        BY DEF FailureTags
      <3>6. OwnOf(children, least) = IF child.tag = "output" THEN child.text ELSE OwnOf(children, k)
        BY <3>1, OwnNext DEF child
      <3>7. Right(Read(case, child), least)
        <4>1. CASE child.tag \in DOMAIN FailureTags /\ case.outcome = "pass"
          <5>1. Read(case, child) =
                  [case EXCEPT !.outcome = FailureTags[child.tag], !.detail = child]
            BY <3>5, <4>1 DEF Read
          <5>2. OwnOf(children, least) = OwnOf(children, k)
            BY <3>5, <3>6, <4>1
          <5>3. QED
            BY <3>2, <3>4, <4>1, <5>1, <5>2 DEF CaseFields
        <4>2. CASE ~(child.tag \in DOMAIN FailureTags /\ case.outcome = "pass")
          <5>1. \/ Read(case, child) = case
                \/ Read(case, child) =
                     [case EXCEPT !.rerun = TRUE, !.detail = IF @.text = None THEN child ELSE @]
                \/ Read(case, child) = [case EXCEPT !.out = child.text]
            BY <3>5, <4>2 DEF Read
          <5>2. /\ DOMAIN Read(case, child) = CaseFields /\ Read(case, child).at = place
                /\ Read(case, child).outcome = case.outcome
            BY <3>2, <5>1 DEF CaseFields
          <5>3. OutcomeOf(children, least) = OutcomeOf(children, k)
            BY <3>2, <3>4, <4>2
          <5>4. Read(case, child).out = IF child.tag = "output" THEN child.text ELSE case.out
            BY <3>2, <3>5, <4>2 DEF Read, CaseFields
          <5>5. QED
            BY <3>2, <3>6, <5>2, <5>3, <5>4
        <4>3. QED
          BY <4>1, <4>2
      <3>8. QED
        BY <2>3, <3>3, <3>7
    <2>6. QED
      BY <2>4, <2>5
  <1>7. Right(Built[last], last)
    BY <1>1, <1>6
  <1>8. QED
    BY <1>2, <1>7

-----------------------------------------------------------------------------
(* The document as it is read.                                             *)

\* One more element.
LEMMA DocumentGrows ==
    ASSUME IsList(document), NEW kind, NEW text, NEW parts, IsList(parts),
           Element(kind, text, parts)
    PROVE  /\ IsList(document') /\ Len(document) \in Nat
           /\ CasesRead' = CasesRead \cup
                IF kind = "case" THEN {<<Len(document) + 1, OutcomeOf(parts, Len(parts))>>} ELSE {}
  <1> DEFINE element == [kind |-> kind, text |-> text, children |-> parts]
             k == Len(document)
  <1>1. /\ document' = Append(document, element)
        /\ IsList(document') /\ Len(document') = k + 1 /\ document'[k + 1] = element
        /\ \A i \in 1 .. k : document'[i] = document[i]
        /\ k \in Nat
    <2>1. document' = Append(document, element)
      BY DEF Element
    <2> HIDE DEF element
    <2>2. QED
      BY <2>1, Appended
  <1>2. \A i \in 1 .. k + 1 : i \in 1 .. k \/ i = k + 1
    BY <1>1
  <1>3. k + 1 \in 1 .. k + 1 /\ \A i \in 1 .. k : i \in 1 .. k + 1
    BY <1>1
  <1>4. \A i \in 1 .. k : OutcomeAt(i)' = OutcomeAt(i)
    BY <1>1 DEF OutcomeAt
  <1>5. ASSUME NEW i \in 1 .. k + 1, i = k + 1
        PROVE  OutcomeAt(i)' = OutcomeOf(parts, Len(parts))
    <2>1. DOMAIN parts = 1 .. Len(parts)
      BY Replaced
    <2>2. document'[i].children = parts
      BY <1>1, <1>5
    <2>3. {n \in DOMAIN parts : parts[n].tag \in DOMAIN FailureTags} = Failing(parts, Len(parts))
      BY <2>1 DEF Failing
    <2>4. QED
      BY <2>2, <2>3 DEF OutcomeAt, OutcomeOf
  <1>6. CasesRead' = {<<i, OutcomeAt(i)'>> : i \in {j \in 1 .. k + 1 : document'[j].kind = "case"}}
    BY <1>1 DEF CasesRead, Before
  <1>7. CasesRead = {<<i, OutcomeAt(i)>> : i \in {j \in 1 .. k : document[j].kind = "case"}}
    BY DEF CasesRead, Before
  <1>8. document'[k + 1].kind = kind
    BY <1>1
  <1> DEFINE new == <<k + 1, OutcomeOf(parts, Len(parts))>>
  <1>9. ASSUME NEW p \in CasesRead'
        PROVE  p \in CasesRead \/ (kind = "case" /\ p = new)
    <2>1. PICK i \in 1 .. k + 1 : document'[i].kind = "case" /\ p = <<i, OutcomeAt(i)'>>
      BY <1>6
    <2>2. CASE i \in 1 .. k
      BY <1>1, <1>4, <1>7, <2>1, <2>2
    <2>3. CASE i = k + 1
      BY <1>5, <1>8, <2>1, <2>3
    <2>4. QED
      BY <1>2, <2>2, <2>3
  <1>10. ASSUME NEW p \in CasesRead
         PROVE  p \in CasesRead'
    <2>1. PICK i \in 1 .. k : document[i].kind = "case" /\ p = <<i, OutcomeAt(i)>>
      BY <1>7
    <2>2. /\ i \in 1 .. k + 1 /\ document'[i].kind = "case" /\ p = <<i, OutcomeAt(i)'>>
      BY <1>1, <1>3, <1>4, <2>1
    <2>3. QED
      BY <1>6, <2>2
  <1>11. ASSUME kind = "case"
         PROVE  new \in CasesRead'
    <2>1. PICK i \in 1 .. k + 1 : i = k + 1
      BY <1>3
    <2>2. document'[i].kind = "case" /\ new = <<i, OutcomeAt(i)'>>
      BY <1>5, <1>8, <1>11, <2>1
    <2>3. QED
      BY <1>6, <2>2
  <1>12. QED
    BY <1>1, <1>9, <1>10, <1>11

\* The places of the cases held are in the document.
LEMMA PlacesHeld ==
    ASSUME ScopesInv, NEW l \in 1 .. Len(levels), NEW m \in DOMAIN levels[l].cases
    PROVE  /\ levels[l].cases[m].at \in Before(Len(document), "case")
           /\ levels[l].cases[m].at \in 1 .. Len(document)
           /\ levels[l].cases[m].outcome = OutcomeAt(levels[l].cases[m].at)
  <1> DEFINE case == levels[l].cases[m]
  <1>1. <<case.at, case.outcome>> \in Held(levels)
    BY DEF Held, HeldIn
  <1>2. <<case.at, case.outcome>> \in CasesRead
    BY <1>1 DEF ScopesInv
  <1>3. PICK i \in Before(Len(document), "case") : <<case.at, case.outcome>> = <<i, OutcomeAt(i)>>
    BY <1>2 DEF CasesRead
  <1>4. case.at = i /\ case.outcome = OutcomeAt(i)
    BY <1>3
  <1>5. i \in 1 .. Len(document)
    BY DEF Before
  <1>6. QED
    BY <1>3, <1>4, <1>5

\* Output changes no case.
LEMMA OutputKeeps ==
    ASSUME Stacked(levels), NEW text
    PROVE  /\ Stacked(AfterOutput(text)) /\ Held(AfterOutput(text)) = Held(levels)
           /\ Len(AfterOutput(text)) = Len(levels)
  <1> DEFINE n == Len(levels)
             scope == [levels[n] EXCEPT !.out = text]
             after == [levels EXCEPT ![n] = scope]
  <1>1. CASE AfterOutput(text) = levels
    BY <1>1
  <1>2. CASE AfterOutput(text) # levels
    <2>1. IsList(levels) /\ n \in Nat /\ n \in 1 .. n /\ DOMAIN levels = 1 .. n
      <3>1. IsList(levels) /\ n > 0
        BY DEF Stacked
      <3>2. n \in Nat /\ DOMAIN levels = 1 .. n
        BY <3>1, Replaced
      <3>3. QED
        BY <3>1, <3>2
    <2>2. AfterOutput(text) = after
      BY <1>2, <2>1 DEF AfterOutput
    <2>3. DOMAIN scope = {"out", "cases"} /\ scope.cases = levels[n].cases
      BY <2>1 DEF Stacked
    <2> HIDE DEF scope
    <2>4. /\ IsList(after) /\ Len(after) = n
          /\ \A l \in 1 .. n : after[l] = IF l = n THEN scope ELSE levels[l]
      BY <2>1, Replaced
    <2> HIDE DEF after
    <2>5. \A l \in 1 .. n :
            DOMAIN after[l] = {"out", "cases"} /\ after[l].cases = levels[l].cases
      BY <2>3, <2>4 DEF Stacked
    <2>6. Stacked(after)
      BY <2>4, <2>5 DEF Stacked
    <2>7. \A l \in 1 .. n : HeldIn(after[l]) = HeldIn(levels[l])
      BY <2>5 DEF HeldIn
    <2>8. Held(after) = Held(levels)
      BY <2>4, <2>7 DEF Held
    <2>9. QED
      BY <2>2, <2>4, <2>6, <2>8
  <1>3. QED
    BY <1>1, <1>2

\* A suite begins without cases.
LEMMA SuiteAdded ==
    ASSUME Stacked(levels)
    PROVE  Stacked(Append(levels, Level)) /\ Held(Append(levels, Level)) = Held(levels)
  <1> DEFINE n == Len(levels)
             more == Append(levels, Level)
  <1>1. /\ IsList(more) /\ Len(more) = n + 1 /\ more[n + 1] = Level /\ n \in Nat
        /\ \A l \in 1 .. n : more[l] = levels[l]
    BY Appended DEF Stacked
  <1>2. DOMAIN Level = {"out", "cases"} /\ Level.cases = <<>> /\ DOMAIN <<>> = {}
    BY DEF Level
  <1>3. IsList(<<>>)
    <2>1. <<>> \in Seq({})
      BY EmptySeq
    <2>2. QED
      BY <2>1 DEF IsList
  <1> HIDE DEF more
  <1>4. /\ \A l \in 1 .. n + 1 : l \in 1 .. n \/ l = n + 1
        /\ \A l \in 1 .. n : l \in 1 .. n + 1
        /\ \A k \in 1 .. n + 1, l \in 1 .. n : k < l => k \in 1 .. n
        /\ n + 1 \in 1 .. n + 1 /\ n + 1 > 0
    BY <1>1
  <1>5. ASSUME NEW l \in 1 .. n + 1
        PROVE  /\ DOMAIN more[l] = {"out", "cases"} /\ IsList(more[l].cases)
               /\ \A m \in DOMAIN more[l].cases :
                     DOMAIN more[l].cases[m] = CaseFields /\ more[l].cases[m].at \in Nat
               /\ \A i, m \in DOMAIN more[l].cases :
                     i < m => more[l].cases[i].at < more[l].cases[m].at
    <2>1. CASE l \in 1 .. n
      BY <1>1, <2>1 DEF Stacked
    <2>2. CASE l = n + 1
      BY <1>1, <1>2, <1>3, <2>2
    <2>3. QED
      BY <1>4, <2>1, <2>2
  <1>6. ASSUME NEW k \in 1 .. n + 1, NEW l \in 1 .. n + 1, k < l,
               NEW i \in DOMAIN more[k].cases, NEW m \in DOMAIN more[l].cases
        PROVE  more[k].cases[i].at < more[l].cases[m].at
    <2>1. l \in 1 .. n
      BY <1>1, <1>2, <1>4, <1>6
    <2>2. k \in 1 .. n
      BY <1>4, <1>6, <2>1
    <2>3. QED
      BY <1>1, <1>6, <2>1, <2>2 DEF Stacked
  <1>7. Stacked(more)
    BY <1>1, <1>4, <1>5, <1>6 DEF Stacked
  <1>8. HeldIn(more[n + 1]) = {} /\ \A l \in 1 .. n : HeldIn(more[l]) = HeldIn(levels[l])
    BY <1>1, <1>2 DEF HeldIn
  <1>9. ASSUME NEW p
        PROVE  p \in Held(more) <=> p \in Held(levels)
    <2>1. p \in Held(more) <=> \E l \in 1 .. n + 1 : p \in HeldIn(more[l])
      BY <1>1 DEF Held
    <2>2. p \in Held(levels) <=> \E l \in 1 .. n : p \in HeldIn(levels[l])
      BY DEF Held
    <2>3. QED
      BY <1>4, <1>8, <2>1, <2>2
  <1>10. QED
    BY <1>7, <1>9 DEF more

\* A case ends in the innermost scope, after all cases there are.
LEMMA CaseAdded ==
    ASSUME Stacked(levels), NEW case, DOMAIN case = CaseFields, case.at \in Nat,
           \A l \in 1 .. Len(levels) : \A m \in DOMAIN levels[l].cases :
              levels[l].cases[m].at < case.at,
           NEW after, after = [levels EXCEPT ![Len(levels)].cases = Append(@, case)]
    PROVE  /\ Stacked(after) /\ Held(after) = Held(levels) \cup {<<case.at, case.outcome>>}
           /\ Len(after) = Len(levels)
  <1> DEFINE n == Len(levels)
             own == levels[n].cases
             longer == Append(own, case)
             scope == [levels[n] EXCEPT !.cases = longer]
  <1>1. n \in Nat /\ n \in 1 .. n /\ n > 0 /\ IsList(levels) /\ DOMAIN levels = 1 .. n
    <2>1. IsList(levels) /\ n > 0
      BY DEF Stacked
    <2>2. n \in Nat /\ DOMAIN levels = 1 .. n
      BY <2>1, Replaced
    <2>3. QED
      BY <2>1, <2>2
  <1>2. IsList(own) /\ DOMAIN levels[n] = {"out", "cases"}
    BY <1>1 DEF Stacked
  <1>3. /\ IsList(longer) /\ DOMAIN longer = 1 .. Len(own) + 1
        /\ longer[Len(own) + 1] = case /\ \A m \in 1 .. Len(own) : longer[m] = own[m]
        /\ Len(own) \in Nat /\ DOMAIN own = 1 .. Len(own)
    BY <1>2, Appended
  <1> HIDE DEF longer
  <1>4. DOMAIN scope = {"out", "cases"} /\ scope.cases = longer
    BY <1>2
  <1>5. after = [levels EXCEPT ![n] = scope]
    BY <1>1 DEF longer
  <1> HIDE DEF scope
  <1>6. /\ IsList(after) /\ Len(after) = n
        /\ \A l \in 1 .. n : after[l] = IF l = n THEN scope ELSE levels[l]
    <2> DEFINE stack == [levels EXCEPT ![n] = scope]
    <2>1. /\ IsList(stack) /\ Len(stack) = n /\ stack[n] = scope
          /\ \A l \in 1 .. n : l # n => stack[l] = levels[l]
      BY <1>1, Replaced
    <2>2. after = stack
      BY <1>5
    <2> HIDE DEF stack
    <2>3. QED
      BY <2>1, <2>2
  <1>7. /\ \A m \in 1 .. Len(own) + 1 : m \in 1 .. Len(own) \/ m = Len(own) + 1
        /\ \A m \in 1 .. Len(own) : m \in 1 .. Len(own) + 1
        /\ \A k \in 1 .. Len(own) + 1, m \in 1 .. Len(own) : k < m => k \in 1 .. Len(own)
        /\ \A k \in 1 .. Len(own) + 1 : k < Len(own) + 1 => k \in 1 .. Len(own)
        /\ Len(own) + 1 \in 1 .. Len(own) + 1
    BY <1>3
  <1>8. /\ \A m \in DOMAIN own :
              DOMAIN own[m] = CaseFields /\ own[m].at \in Nat /\ own[m].at < case.at
        /\ \A k, m \in DOMAIN own : k < m => own[k].at < own[m].at
    BY <1>1 DEF Stacked
  <1> HIDE DEF own
  <1>9. \A m \in DOMAIN longer : DOMAIN longer[m] = CaseFields /\ longer[m].at \in Nat
    BY <1>3, <1>7, <1>8
  <1>10. ASSUME NEW k \in DOMAIN longer, NEW m \in DOMAIN longer, k < m
         PROVE  longer[k].at < longer[m].at
    <2>1. CASE m \in 1 .. Len(own)
      <3>1. k \in 1 .. Len(own)
        BY <1>3, <1>7, <1>10, <2>1
      <3>2. QED
        BY <1>3, <1>8, <1>10, <2>1, <3>1
    <2>2. CASE m = Len(own) + 1
      <3>1. k \in 1 .. Len(own)
        BY <1>3, <1>7, <1>10, <2>2
      <3>2. QED
        BY <1>3, <1>8, <2>2, <3>1
    <2>3. QED
      BY <1>3, <1>7, <2>1, <2>2
  <1>11. ASSUME NEW l \in 1 .. n
         PROVE  /\ DOMAIN after[l] = {"out", "cases"} /\ IsList(after[l].cases)
                /\ \A m \in DOMAIN after[l].cases :
                      DOMAIN after[l].cases[m] = CaseFields /\ after[l].cases[m].at \in Nat
                /\ \A k, m \in DOMAIN after[l].cases :
                      k < m => after[l].cases[k].at < after[l].cases[m].at
    <2>1. CASE l = n
      <3>1. DOMAIN after[l] = {"out", "cases"} /\ after[l].cases = longer
        BY <1>4, <1>6, <2>1
      <3>2. QED
        BY <1>3, <1>9, <1>10, <3>1
    <2>2. CASE l # n
      <3>1. after[l] = levels[l]
        BY <1>6, <2>2
      <3>2. QED
        BY <3>1 DEF Stacked
    <2>3. QED
      BY <2>1, <2>2
  <1>12. ASSUME NEW k \in 1 .. n, NEW l \in 1 .. n, k < l,
                NEW i \in DOMAIN after[k].cases, NEW m \in DOMAIN after[l].cases
         PROVE  after[k].cases[i].at < after[l].cases[m].at
    <2>1. k # n /\ after[k] = levels[k]
      BY <1>1, <1>6, <1>12
    <2>2. CASE l # n
      BY <1>6, <1>12, <2>1, <2>2 DEF Stacked
    <2>3. CASE l = n
      <3>1. after[l].cases = longer
        BY <1>4, <1>6, <2>3
      <3>2. \A j \in DOMAIN own : levels[k].cases[i].at < own[j].at
        BY <1>12, <2>1, <2>3 DEF Stacked, own
      <3>3. levels[k].cases[i].at < case.at
        BY <1>12, <2>1
      <3>4. QED
        BY <1>3, <1>7, <1>12, <2>1, <3>1, <3>2, <3>3
    <2>4. QED
      BY <2>2, <2>3
  <1>13. Stacked(after)
    BY <1>1, <1>6, <1>11, <1>12 DEF Stacked
  <1> DEFINE new == <<case.at, case.outcome>>
  <1>14. HeldIn(scope) = HeldIn(levels[n]) \cup {new}
    <2>1. /\ HeldIn(scope) = {<<longer[m].at, longer[m].outcome>> : m \in 1 .. Len(own) + 1}
          /\ HeldIn(levels[n]) = {<<own[m].at, own[m].outcome>> : m \in 1 .. Len(own)}
      BY <1>3, <1>4 DEF HeldIn, own
    <2>2. QED
      BY <1>3, <1>7, <2>1
  <1>15. ASSUME NEW p
         PROVE  p \in Held(after) <=> p \in Held(levels) \/ p = new
    <2>1. p \in Held(after) <=> \E l \in 1 .. n : p \in HeldIn(after[l])
      BY <1>6 DEF Held
    <2>2. p \in Held(levels) <=> \E l \in 1 .. n : p \in HeldIn(levels[l])
      BY DEF Held
    <2> HIDE DEF new
    <2>3. after[n] = scope /\ \A l \in 1 .. n : l # n => after[l] = levels[l]
      BY <1>1, <1>6
    <2>4. \A l \in 1 .. n : l # n => (p \in HeldIn(after[l]) <=> p \in HeldIn(levels[l]))
      BY <2>3
    <2>5. p \in HeldIn(after[n]) <=> p \in HeldIn(levels[n]) \/ p = new
      BY <1>14, <2>3
    <2>6. QED
      BY <1>1, <2>1, <2>2, <2>4, <2>5
  <1>16. QED
    BY <1>6, <1>13, <1>15

-----------------------------------------------------------------------------
(* The output of suites, and the cases it is for.                          *)

\* The suites that are open after the document so far.
Open == Around(Len(document) + 1)

\* The output of a case once the suites from depth d on around it have ended.
OutputFrom(i, d) ==
    LET speaking == {j \in Around(i) : Depth(j) >= d /\ OutputOf(j) # None}
    IN IF OwnOutput(i) # None THEN OwnOutput(i)
       ELSE IF speaking = {} THEN None ELSE OutputOf(Max(speaking))

\* The cases in a scope have the output of the suites within it, and its
\* own suite and those around that are around them.
Heard(stack) ==
    \A l \in 1 .. Len(stack) : \A m \in DOMAIN stack[l].cases :
        /\ stack[l].cases[m].at \in 1 .. Len(document)
        /\ stack[l].cases[m].out = OutputFrom(stack[l].cases[m].at, l)
        /\ \A j \in Open : Depth(j) < l => j \in Around(stack[l].cases[m].at)

\* Each scope but the list of cases is that of an open suite, with its output.
Opened(stack) ==
    \A d \in 1 .. Len(stack) - 1 : \E j \in Open : Depth(j) = d /\ stack[d + 1].out = OutputOf(j)

\* The suites within its scope that are around a case have ended.
Over(stack) ==
    \A l \in 1 .. Len(stack) : \A m \in DOMAIN stack[l].cases :
        \A j \in Around(stack[l].cases[m].at) : Depth(j) >= l => j \notin Open

\* The elements of a kind up to a place, and one more.
LEMMA BeforeNext ==
    ASSUME NEW k \in Nat, NEW kind
    PROVE  /\ Cardinality(Before(k, kind)) \in Nat /\ Cardinality(Before(0, kind)) = 0
           /\ Cardinality(Before(k + 1, kind)) =
                Cardinality(Before(k, kind)) + IF document[k + 1].kind = kind THEN 1 ELSE 0
  <1>1. Before(0, kind) = {}
    BY DEF Before
  <1>2. IsFiniteSet(Before(k, kind)) /\ k + 1 \notin Before(k, kind)
    <2>1. IsFiniteSet(1 .. k) /\ Before(k, kind) \subseteq 1 .. k
      BY FS_Interval DEF Before
    <2>2. QED
      BY <2>1, FS_Subset
  <1>3. Before(k + 1, kind) =
          IF document[k + 1].kind = kind THEN Before(k, kind) \cup {k + 1} ELSE Before(k, kind)
    BY DEF Before
  <1>4. Cardinality(Before(k, kind)) \in Nat /\ Cardinality({}) = 0
    BY <1>2, FS_CardinalityType, FS_EmptySet
  <1>5. Cardinality(Before(k, kind) \cup {k + 1}) = Cardinality(Before(k, kind)) + 1
    BY <1>2, FS_AddElement
  <1>6. QED
    BY <1>1, <1>3, <1>4, <1>5

\* How many suites are open changes where one begins or ends.
CountedTo(k) ==
    /\ Depth(0) = 0 /\ Depth(k) \in Int
    /\ document[k + 1].kind = "open" => Depth(k + 1) = Depth(k) + 1
    /\ document[k + 1].kind = "close" => Depth(k + 1) = Depth(k) - 1
    /\ document[k + 1].kind \notin {"open", "close"} => Depth(k + 1) = Depth(k)

\* It is the number of those that began less those that ended.
LEMMA DepthNext ==
    ASSUME NEW k \in Nat
    PROVE  CountedTo(k)
  <1> DEFINE opens(n) == Cardinality(Before(n, "open"))
             closes(n) == Cardinality(Before(n, "close"))
  <1>1. /\ opens(k) \in Nat /\ opens(0) = 0
        /\ opens(k + 1) = opens(k) + IF document[k + 1].kind = "open" THEN 1 ELSE 0
    BY BeforeNext
  <1>2. /\ closes(k) \in Nat /\ closes(0) = 0
        /\ closes(k + 1) = closes(k) + IF document[k + 1].kind = "close" THEN 1 ELSE 0
    BY BeforeNext
  <1>3. /\ Depth(0) = opens(0) - closes(0) /\ Depth(k) = opens(k) - closes(k)
        /\ Depth(k + 1) = opens(k + 1) - closes(k + 1)
    BY DEF Depth
  <1> HIDE DEF opens, closes
  <1>4. QED
    BY <1>1, <1>2, <1>3 DEF CountedTo

\* The suites around an element begin before it, and no end of one lies
\* between; each is one deeper than there were suites before it.
LEMMA AroundIs ==
    ASSUME NEW i \in Nat \ {0}, NEW j \in Around(i)
    PROVE  /\ j \in 1 .. i - 1 /\ document[j].kind = "open" /\ Depth(j) \in Int
           /\ \A k \in j .. i - 1 : Depth(k) >= Depth(j)
           /\ Depth(j) = Depth(j - 1) + 1
  <1>1. j \in 1 .. i - 1 /\ document[j].kind = "open" /\ \A k \in j .. i - 1 : Depth(k) >= Depth(j)
    BY DEF Around, Before
  <1>2. j - 1 \in Nat /\ j \in Nat /\ j - 1 + 1 = j
    BY <1>1
  <1>3. Depth(j) = Depth(j - 1) + 1 /\ Depth(j) \in Int
    BY <1>1, <1>2, DepthNext DEF CountedTo
  <1>4. QED
    BY <1>1, <1>3

\* An inner suite is deeper than one around it.
LEMMA InnerIsDeeper ==
    ASSUME NEW i \in Nat \ {0}, NEW j \in Around(i), NEW m \in Around(i), j < m
    PROVE  Depth(j) < Depth(m)
  <1>1. j \in 1 .. i - 1 /\ m \in 1 .. i - 1 /\ \A k \in j .. i - 1 : Depth(k) >= Depth(j)
    BY AroundIs
  <1>2. m - 1 \in j .. i - 1
    BY <1>1
  <1>3. Depth(m - 1) >= Depth(j) /\ Depth(m) = Depth(m - 1) + 1
    BY <1>1, <1>2, AroundIs
  <1>4. Depth(m - 1) \in Int /\ Depth(j) \in Int
    <2>1. m - 1 \in Nat /\ j \in Nat
      BY <1>1
    <2>2. QED
      BY <2>1, DepthNext DEF CountedTo
  <1>5. QED
    BY <1>3, <1>4

\* The suites around the next element.
NestedAt(i) ==
    /\ document[i].kind = "open" => Around(i + 1) = Around(i) \cup {i}
    /\ document[i].kind = "close" => Around(i + 1) = {j \in Around(i) : Depth(j) < Depth(i - 1)}
    /\ document[i].kind \notin {"open", "close"} => Around(i + 1) = Around(i)

\* One that ends there is around it no more.
LEMMA AroundNext ==
    ASSUME NEW i \in Nat \ {0}
    PROVE  NestedAt(i)
  <1>1. /\ i - 1 \in Nat /\ i - 1 + 1 = i /\ i + 1 \in Nat \ {0} /\ i + 1 - 1 = i
        /\ i \in 1 .. i /\ i \in Nat
    OBVIOUS
  <1>2. /\ Depth(i - 1) \in Int /\ Depth(i) \in Int
        /\ document[i].kind = "open" => Depth(i) = Depth(i - 1) + 1
        /\ document[i].kind = "close" => Depth(i) = Depth(i - 1) - 1
        /\ document[i].kind \notin {"open", "close"} => Depth(i) = Depth(i - 1)
    BY <1>1, DepthNext DEF CountedTo
  <1>3. ASSUME NEW j \in Around(i + 1), j # i
        PROVE  j \in Around(i) /\ Depth(j) <= Depth(i)
    <2>1. j \in 1 .. i /\ document[j].kind = "open" /\ \A k \in j .. i : Depth(k) >= Depth(j)
      BY <1>1 DEF Around, Before
    <2>2. j \in 1 .. i - 1 /\ i \in j .. i /\ \A k \in j .. i - 1 : k \in j .. i
      BY <1>1, <1>3, <2>1
    <2>3. Depth(j) \in Int
      <3>1. j \in Nat
        BY <2>1
      <3>2. QED
        BY <3>1, DepthNext DEF CountedTo
    <2>4. QED
      BY <1>2, <2>1, <2>2, <2>3 DEF Around, Before
  <1>4. ASSUME NEW j \in Around(i), Depth(j) <= Depth(i)
        PROVE  j \in Around(i + 1)
    <2>1. /\ j \in 1 .. i - 1 /\ document[j].kind = "open" /\ Depth(j) \in Int
          /\ \A k \in j .. i - 1 : Depth(k) >= Depth(j)
      BY AroundIs
    <2>2. j \in 1 .. i /\ \A k \in j .. i : k \in j .. i - 1 \/ k = i
      BY <2>1
    <2>3. \A k \in j .. i : Depth(k) >= Depth(j)
      BY <1>2, <1>4, <2>1, <2>2
    <2>4. QED
      BY <1>1, <2>1, <2>2, <2>3 DEF Around, Before
  <1>5. i \in Around(i + 1) <=> document[i].kind = "open"
    <2>1. \A k \in i .. i : k = i
      OBVIOUS
    <2>2. QED
      BY <1>1, <1>2, <2>1 DEF Around, Before
  <1>6. ASSUME NEW j \in Around(i)
        PROVE  j # i /\ Depth(j) <= Depth(i - 1) /\ Depth(j) \in Int
    <2>1. /\ j \in 1 .. i - 1 /\ Depth(j) \in Int
          /\ \A k \in j .. i - 1 : Depth(k) >= Depth(j)
      BY AroundIs
    <2>2. i - 1 \in j .. i - 1 /\ j # i
      BY <2>1
    <2>3. Depth(i - 1) >= Depth(j)
      BY <2>1, <2>2
    <2>4. QED
      BY <1>2, <2>1, <2>2, <2>3
  <1>7. CASE document[i].kind = "open"
    <2>1. \A j \in Around(i) : Depth(j) <= Depth(i)
      BY <1>2, <1>6, <1>7
    <2>2. QED
      BY <1>3, <1>4, <1>5, <1>7, <2>1 DEF NestedAt
  <1>8. CASE document[i].kind = "close"
    <2>1. \A j \in Around(i) : Depth(j) <= Depth(i) <=> Depth(j) < Depth(i - 1)
      BY <1>2, <1>6, <1>8
    <2>2. QED
      BY <1>3, <1>4, <1>5, <1>6, <1>8, <2>1 DEF NestedAt
  <1>9. CASE document[i].kind \notin {"open", "close"}
    <2>1. \A j \in Around(i) : Depth(j) <= Depth(i)
      BY <1>2, <1>6, <1>9
    <2>2. QED
      BY <1>3, <1>4, <1>5, <1>9, <2>1 DEF NestedAt
  <1>10. QED
    BY <1>7, <1>8, <1>9

\* So it is now and in the next state.
NestingCounts == \A i \in Nat : CountedTo(i) /\ NestedAt(i + 1)

LEMMA NestingCountsNow == NestingCounts
  <1>1. \A i \in Nat : i + 1 \in Nat \ {0}
    OBVIOUS
  <1>2. QED
    BY <1>1, DepthNext, AroundNext DEF NestingCounts

\* The document of the next state is a document too.
LEMMA NestingCountsNext == NestingCounts'
  BY NestingCountsNow, PTL

\* The elements there are stay what they are, and where they are.
LEMMA DocumentKeeps ==
    ASSUME IsList(document), NEW n, n = Len(document),
           NEW kind, NEW text, NEW parts, Element(kind, text, parts)
    PROVE  /\ n \in Nat /\ Len(document') = n + 1
           /\ document'[n + 1] = [kind |-> kind, text |-> text, children |-> parts]
           /\ \A i \in 1 .. n : document'[i] = document[i] /\ OwnOutput(i)' = OwnOutput(i)
           /\ \A k \in 0 .. n : Depth(k)' = Depth(k)
           /\ \A i \in 1 .. n + 1 : Around(i)' = Around(i)
  <1> DEFINE element == [kind |-> kind, text |-> text, children |-> parts]
  <1>1. /\ n \in Nat /\ Len(document') = n + 1 /\ document'[n + 1] = element
        /\ \A i \in 1 .. n : document'[i] = document[i]
    <2>1. document' = Append(document, element)
      BY DEF Element
    <2> HIDE DEF element
    <2>2. QED
      BY <2>1, Appended
  <1>2. \A i \in 1 .. n : OwnOutput(i)' = OwnOutput(i)
    BY <1>1 DEF OwnOutput
  <1>3. ASSUME NEW k \in 0 .. n, NEW sort
        PROVE  Before(k, sort)' = Before(k, sort)
    <2>1. \A i \in 1 .. k : i \in 1 .. n
      BY <1>1
    <2>2. QED
      BY <1>1, <2>1 DEF Before
  <1>4. \A k \in 0 .. n : Depth(k)' = Depth(k)
    BY <1>3 DEF Depth
  <1>5. ASSUME NEW i \in 1 .. n + 1
        PROVE  Around(i)' = Around(i)
    <2>1. /\ i - 1 \in 0 .. n /\ \A j \in 1 .. i - 1 : j \in 0 .. n
          /\ \A j \in 1 .. i - 1 : \A k \in j .. i - 1 : k \in 0 .. n
      BY <1>1
    <2>2. Before(i - 1, "open")' = Before(i - 1, "open")
      BY <1>3, <2>1
    <2>3. \A j \in Before(i - 1, "open") : j \in 1 .. i - 1
      BY DEF Before
    <2>4. \A j \in Before(i - 1, "open") :
            /\ Depth(j)' = Depth(j) /\ \A k \in j .. i - 1 : Depth(k)' = Depth(k)
      BY <1>4, <2>1, <2>3
    <2>5. /\ Around(i)' = {j \in Before(i - 1, "open")' : \A k \in j .. i - 1 : Depth(k)' >= Depth(j)'}
          /\ Around(i) = {j \in Before(i - 1, "open") : \A k \in j .. i - 1 : Depth(k) >= Depth(j)}
      BY DEF Around
    <2>6. QED
      BY <2>2, <2>4, <2>5
  <1>6. QED
    BY <1>1, <1>2, <1>4, <1>5

\* What a suite captured directly.
Captured(j) == {i \in Before(Len(document), "output") : j \in Around(i) /\ Depth(i) = Depth(j)}

\* It captures more only if it is the innermost one.
LEMMA CapturedNext ==
    ASSUME IsList(document), NEW n, n = Len(document),
           NEW kind, NEW text, NEW parts, Element(kind, text, parts), NEW j \in 1 .. n
    PROVE  /\ Captured(j)' = Captured(j) \cup
                IF kind = "output" /\ j \in Around(n + 1) /\ Depth(j) = Depth(n) THEN {n + 1} ELSE {}
           /\ Captured(j) \subseteq 1 .. n
  <1>1. /\ n \in Nat /\ Len(document') = n + 1
        /\ document'[n + 1] = [kind |-> kind, text |-> text, children |-> parts]
        /\ \A i \in 1 .. n : document'[i] = document[i]
        /\ \A k \in 0 .. n : Depth(k)' = Depth(k)
        /\ \A i \in 1 .. n + 1 : Around(i)' = Around(i)
    BY DocumentKeeps
  <1>2. Captured(j) = {i \in 1 .. n :
           document[i].kind = "output" /\ j \in Around(i) /\ Depth(i) = Depth(j)}
    BY DEF Captured, Before
  <1>3. Captured(j)' = {i \in 1 .. n + 1 :
           document'[i].kind = "output" /\ j \in Around(i)' /\ Depth(i)' = Depth(j)'}
    BY <1>1 DEF Captured, Before
  <1>4. /\ \A i \in 1 .. n : i \in 1 .. n + 1 /\ i \in 0 .. n
        /\ n \in 0 .. n /\ n + 1 \in 1 .. n + 1
        /\ \A i \in 1 .. n + 1 : i \in 1 .. n \/ i = n + 1
    BY <1>1
  <1>5. \A m : m = n + 1 => (document'[m].kind = "output" => Depth(m)' = Depth(n))
    <2>1. CountedTo(n)'
      BY <1>1, NestingCountsNext DEF NestingCounts
    <2>2. Depth(n)' = Depth(n)
      BY <1>1, <1>4
    <2>3. QED
      BY <1>1, <2>1, <2>2 DEF CountedTo
  <1>6. \A i \in 1 .. n : i \in Captured(j)' <=> i \in Captured(j)
    BY <1>1, <1>2, <1>3, <1>4
  <1>7. \A m \in 1 .. n + 1 : m = n + 1 =>
          (m \in Captured(j)' <=> kind = "output" /\ j \in Around(n + 1) /\ Depth(j) = Depth(n))
    BY <1>1, <1>3, <1>4, <1>5
  <1>8. Captured(j)' \subseteq 1 .. n + 1 /\ Captured(j) \subseteq 1 .. n
    BY <1>2, <1>3
  <1>9. QED
    BY <1>4, <1>6, <1>7, <1>8

\* Only its own output changes that of a suite; the last one counts.
LEMMA OutputNext ==
    ASSUME IsList(document), NEW n, n = Len(document),
           NEW kind, NEW text, NEW parts, Element(kind, text, parts), NEW j \in 1 .. n
    PROVE  OutputOf(j)' =
             IF kind = "output" /\ j \in Around(n + 1) /\ Depth(j) = Depth(n) THEN text
             ELSE OutputOf(j)
  <1>1. /\ n \in Nat /\ document'[n + 1] = [kind |-> kind, text |-> text, children |-> parts]
        /\ \A i \in 1 .. n : document'[i] = document[i]
    BY DocumentKeeps
  <1>2. /\ OutputOf(j) = IF Captured(j) = {} THEN None ELSE document[Max(Captured(j))].text
        /\ OutputOf(j)' = IF Captured(j)' = {} THEN None ELSE document'[Max(Captured(j)')].text
    BY DEF OutputOf, Captured
  <1>3. Captured(j) \subseteq 1 .. n
    BY CapturedNext
  <1>4. CASE kind = "output" /\ j \in Around(n + 1) /\ Depth(j) = Depth(n)
    <2>1. Captured(j)' = Captured(j) \cup {n + 1}
      BY <1>4, CapturedNext
    <2>2. /\ Captured(j)' \in SUBSET (1 .. n + 1) /\ Captured(j)' # {} /\ n + 1 \in Nat
          /\ n + 1 \in Captured(j)' /\ \A i \in Captured(j)' : i <= n + 1
      BY <1>1, <1>3, <2>1
    <2>3. Max(Captured(j)') = n + 1
      BY <2>2, GreatestIs
    <2>4. QED
      BY <1>1, <1>2, <1>4, <2>2, <2>3
  <1>5. CASE ~(kind = "output" /\ j \in Around(n + 1) /\ Depth(j) = Depth(n))
    <2>1. Captured(j)' = Captured(j)
      <3>1. Captured(j)' = Captured(j) \cup
              IF kind = "output" /\ j \in Around(n + 1) /\ Depth(j) = Depth(n) THEN {n + 1} ELSE {}
        BY CapturedNext
      <3>2. QED
        BY <1>5, <3>1
    <2>2. Captured(j) # {} => Max(Captured(j)) \in 1 .. n
      BY <1>1, <1>3, GreatestIs
    <2>3. QED
      BY <1>1, <1>2, <1>5, <2>1, <2>2
  <1>6. QED
    BY <1>4, <1>5

\* What a case has heard stays, if the suites that have ended stay silent.
LEMMA HearingKeeps ==
    ASSUME IsList(document), NEW n, n = Len(document),
           NEW kind, NEW text, NEW parts, Element(kind, text, parts), NEW i \in 1 .. n, NEW d,
           \A j \in Around(i) : Depth(j) >= d => OutputOf(j)' = OutputOf(j)
    PROVE  OutputFrom(i, d)' = OutputFrom(i, d)
  <1> DEFINE speaking == {j \in Around(i) : Depth(j) >= d /\ OutputOf(j) # None}
  <1>1. n \in Nat /\ OwnOutput(i)' = OwnOutput(i) /\ Around(i)' = Around(i)
    <2>1. n \in Nat
      BY DocumentKeeps
    <2>2. i \in 1 .. n + 1
      BY <2>1
    <2>3. QED
      BY <2>1, <2>2, DocumentKeeps
  <1>2. \A j \in Around(i) : j \in 0 .. n /\ j \in 1 .. i - 1
    <2>1. i \in Nat \ {0}
      BY <1>1
    <2>2. \A j \in Around(i) : j \in 1 .. i - 1
      BY <2>1, AroundIs
    <2>3. QED
      BY <1>1, <2>2
  <1>3. \A j \in Around(i) : Depth(j)' = Depth(j)
    BY <1>2, DocumentKeeps
  <1>4. speaking' = {j \in Around(i)' : Depth(j)' >= d /\ OutputOf(j)' # None}
    OBVIOUS
  <1>5. speaking' = speaking
    BY <1>1, <1>3, <1>4
  <1>6. speaking # {} => Max(speaking) \in speaking
    <2>1. i - 1 \in Nat /\ speaking \in SUBSET (1 .. i - 1)
      BY <1>1, <1>2
    <2> HIDE DEF speaking
    <2>2. QED
      BY <2>1, GreatestIs
  <1>7. speaking # {} => OutputOf(Max(speaking))' = OutputOf(Max(speaking))
    BY <1>5, <1>6
  <1>8. QED
    BY <1>1, <1>5, <1>7 DEF OutputFrom

\* The open suites are around what comes next, and none is deeper than that.
LEMMA OpenIs ==
    ASSUME IsList(document), NEW j \in Open
    PROVE  /\ Len(document) \in Nat /\ j \in 1 .. Len(document)
           /\ Depth(j) \in Int /\ Depth(Len(document)) \in Int
           /\ Depth(j) <= Depth(Len(document)) /\ Depth(j) = Depth(j - 1) + 1
  <1> DEFINE n == Len(document)
  <1>1. n \in Nat /\ n + 1 \in Nat \ {0} /\ n + 1 - 1 = n
    <2>1. n \in Nat
      BY Replaced
    <2>2. QED
      BY <2>1
  <1>2. j \in Around(n + 1)
    BY DEF Open
  <1> HIDE DEF n
  <1>3. /\ j \in 1 .. n /\ Depth(j) \in Int /\ \A k \in j .. n : Depth(k) >= Depth(j)
        /\ Depth(j) = Depth(j - 1) + 1
    BY <1>1, <1>2, AroundIs
  <1>4. n \in j .. n /\ Depth(n) \in Int
    BY <1>1, <1>3, DepthNext DEF CountedTo
  <1>5. Depth(j) <= Depth(n)
    BY <1>3, <1>4
  <1>6. QED
    BY <1>1, <1>3, <1>4, <1>5 DEF n

\* When the suite at depth d around a case ends, the case has its output
\* unless it has some from within.
LEMMA HearsSuite ==
    ASSUME NEW i \in Nat \ {0}, NEW d \in Int, NEW j \in Around(i), Depth(j) = d
    PROVE  OutputFrom(i, d) =
             IF OutputFrom(i, d + 1) = None THEN OutputOf(j) ELSE OutputFrom(i, d + 1)
  <1> DEFINE inner == {m \in Around(i) : Depth(m) >= d + 1 /\ OutputOf(m) # None}
             all == {m \in Around(i) : Depth(m) >= d /\ OutputOf(m) # None}
  <1>1. \A m \in Around(i) : m \in 1 .. i - 1 /\ Depth(m) \in Int
    BY AroundIs
  <1>2. i - 1 \in Nat /\ j \in 1 .. i - 1
    BY <1>1
  <1>3. ASSUME NEW m \in Around(i), Depth(m) >= d
        PROVE  m = j \/ (j < m /\ Depth(m) >= d + 1)
    <2>1. CASE m < j
      <3>1. Depth(m) < d
        BY <2>1, InnerIsDeeper
      <3>2. QED
        BY <1>1, <1>3, <3>1
    <2>2. CASE j < m
      <3>1. d < Depth(m)
        BY <2>2, InnerIsDeeper
      <3>2. QED
        BY <1>1, <2>2, <3>1
    <2>3. QED
      BY <1>1, <2>1, <2>2
  <1>4. all = inner \cup IF OutputOf(j) = None THEN {} ELSE {j}
    <2>1. \A m \in Around(i) : Depth(m) >= d + 1 => Depth(m) >= d
      BY <1>1
    <2>2. d >= d
      OBVIOUS
    <2>3. \A m \in all : m \in inner \/ (m = j /\ OutputOf(j) # None)
      BY <1>3
    <2>4. \A m \in inner : m \in all
      BY <2>1
    <2>5. OutputOf(j) # None => j \in all
      BY <2>2
    <2>6. QED
      BY <2>3, <2>4, <2>5
  <1>5. inner \in SUBSET (1 .. i - 1) /\ all \in SUBSET (1 .. i - 1)
    BY <1>1
  <1>6. \A m \in inner : OutputOf(m) # None /\ j < m
    <2>1. \A m \in inner : Depth(m) # d /\ Depth(m) >= d
      BY <1>1
    <2>2. QED
      BY <1>3, <2>1
  <1>7. /\ OutputFrom(i, d + 1) = IF OwnOutput(i) # None THEN OwnOutput(i)
             ELSE IF inner = {} THEN None ELSE OutputOf(Max(inner))
        /\ OutputFrom(i, d) = IF OwnOutput(i) # None THEN OwnOutput(i)
             ELSE IF all = {} THEN None ELSE OutputOf(Max(all))
    BY DEF OutputFrom
  <1> HIDE DEF inner, all
  <1>8. CASE inner = {}
    <2>1. all = IF OutputOf(j) = None THEN {} ELSE {j}
      BY <1>4, <1>8
    <2>2. all # {} => Max(all) = j /\ OutputOf(j) # None
      BY <1>2, <1>5, <2>1, GreatestIs
    <2>3. all = {} => OutputOf(j) = None
      BY <2>1
    <2>4. QED
      BY <1>7, <1>8, <2>2, <2>3
  <1>9. CASE inner # {}
    <2>1. Max(inner) \in inner /\ \A m \in inner : m <= Max(inner)
      BY <1>2, <1>5, <1>9, GreatestIs
    <2>2. Max(inner) \in all /\ \A m \in all : m <= Max(inner)
      <3> DEFINE last == Max(inner)
      <3>1. last \in inner /\ \A m \in inner : m <= last
        BY <2>1
      <3> HIDE DEF last
      <3>2. j < last /\ last \in 1 .. i - 1
        BY <1>5, <1>6, <3>1
      <3>3. j <= last
        BY <1>2, <3>2
      <3>4. last \in all /\ \A m \in all : m <= last
        BY <1>4, <3>1, <3>3
      <3>5. QED
        BY <3>4 DEF last
    <2>3. Max(all) = Max(inner)
      <3>1. all # {}
        BY <2>2
      <3>2. QED
        BY <1>2, <1>5, <2>2, <3>1, GreatestIs
    <2>4. OutputOf(Max(inner)) # None /\ all # {}
      BY <1>6, <2>1, <2>2
    <2>5. QED
      BY <1>7, <1>9, <2>3, <2>4
  <1>10. QED
    BY <1>8, <1>9

\* Where the cases of a scope come from when a suite within has ended.
LEMMA EmittedFrom ==
    ASSUME NEW stack, Stacked(stack), Len(stack) > 1, NEW l \in 1 .. Len(stack) - 1
    PROVE  /\ Emitted(stack)[l].out = stack[l].out
           /\ \A m \in DOMAIN Emitted(stack)[l].cases :
                \/ \E p \in DOMAIN stack[l].cases : Emitted(stack)[l].cases[m] = stack[l].cases[p]
                \/ /\ l = Len(stack) - 1
                   /\ \E p \in DOMAIN stack[Len(stack)].cases : Emitted(stack)[l].cases[m] =
                         WithSuiteOutput(stack[Len(stack)].cases[p], stack[Len(stack)])
  <1> DEFINE n == Len(stack)
             own == stack[n].cases
             former == stack[n - 1].cases
             after == Emitted(stack)
             merged == after[n - 1].cases
  <1>1. IsEmitted(after, stack, n, own, former, merged)
    BY EmittedIs
  <1> HIDE DEF after
  <1>2. CASE l # n - 1
    <2>1. after[l] = stack[l]
      BY <1>1, <1>2 DEF IsEmitted
    <2>2. QED
      BY <1>2, <2>1 DEF after
  <1>3. CASE l = n - 1
    <2> HIDE DEF own, former, merged
    <2>1. /\ after[n - 1].out = stack[n - 1].out
          /\ DOMAIN own = 1 .. Len(own) /\ DOMAIN former = 1 .. Len(former)
          /\ DOMAIN merged = 1 .. Len(former) + Len(own)
          /\ \A i \in 1 .. Len(former) : merged[i] = former[i]
          /\ \A i \in 1 .. Len(own) : merged[Len(former) + i] = WithSuiteOutput(own[i], stack[n])
          /\ \A i \in 1 .. Len(former) + Len(own) :
                i \in 1 .. Len(former) \/ \E j \in 1 .. Len(own) : i = Len(former) + j
      BY <1>1 DEF IsEmitted
    <2>2. \A m \in DOMAIN merged :
             \/ \E p \in DOMAIN former : merged[m] = former[p]
             \/ \E p \in DOMAIN own : merged[m] = WithSuiteOutput(own[p], stack[n])
      <3> SUFFICES ASSUME NEW m \in DOMAIN merged
                   PROVE  \/ \E p \in DOMAIN former : merged[m] = former[p]
                          \/ \E p \in DOMAIN own : merged[m] = WithSuiteOutput(own[p], stack[n])
        OBVIOUS
      <3>1. CASE m \in 1 .. Len(former)
        BY <2>1, <3>1
      <3>2. CASE m \notin 1 .. Len(former)
        <4>1. PICK p \in 1 .. Len(own) : m = Len(former) + p
          BY <2>1, <3>2
        <4>2. p \in DOMAIN own /\ merged[m] = WithSuiteOutput(own[p], stack[n])
          BY <2>1, <4>1
        <4>3. QED
          BY <4>2
      <3>3. QED
        BY <3>1, <3>2
    <2>3. QED
      BY <1>3, <2>1, <2>2 DEF own, former, merged, after
  <1>4. QED
    BY <1>2, <1>3

\* The end of a suite gives its output to the cases in it that need it.
LEMMA EmittedHears ==
    ASSUME IsList(document), NEW stack, Stacked(stack), Len(stack) > 1, Heard(stack), Opened(stack)
    PROVE  Heard(Emitted(stack)) /\ Opened(Emitted(stack))
  <1> DEFINE n == Len(stack)
             after == Emitted(stack)
  <1>1. /\ n \in Nat /\ n - 1 \in 1 .. n - 1 /\ n \in 1 .. n /\ n - 1 + 1 = n /\ n - 1 \in Int
        /\ \A l \in 1 .. n - 1 : l \in 1 .. n
        /\ \A d \in 1 .. n - 1 - 1 : d \in 1 .. n - 1 /\ d + 1 \in 1 .. n - 1
    <2>1. n \in Nat
      BY Replaced DEF Stacked
    <2>2. QED
      BY <2>1
  <1>2. Len(after) = n - 1
    BY EmittedKeeps
  <1>3. \A l \in 1 .. n - 1 : after[l].out = stack[l].out
    BY EmittedFrom
  <1>4. Opened(after)
    BY <1>1, <1>2, <1>3 DEF Opened
  <1>5. ASSUME NEW l \in 1 .. n - 1, NEW m \in DOMAIN after[l].cases
        PROVE  /\ after[l].cases[m].at \in 1 .. Len(document)
               /\ after[l].cases[m].out = OutputFrom(after[l].cases[m].at, l)
               /\ \A j \in Open : Depth(j) < l => j \in Around(after[l].cases[m].at)
    <2> DEFINE case == after[l].cases[m]
    <2>1. CASE \E p \in DOMAIN stack[l].cases : case = stack[l].cases[p]
      <3>1. PICK p \in DOMAIN stack[l].cases : case = stack[l].cases[p]
        BY <2>1
      <3>2. l \in 1 .. n
        BY <1>1
      <3> HIDE DEF case
      <3>3. /\ case.at \in 1 .. Len(document) /\ case.out = OutputFrom(case.at, l)
            /\ \A j \in Open : Depth(j) < l => j \in Around(case.at)
        BY <3>1, <3>2 DEF Heard
      <3>4. QED
        BY <3>3 DEF case
    <2>2. CASE l = n - 1 /\ \E p \in DOMAIN stack[n].cases :
                  case = WithSuiteOutput(stack[n].cases[p], stack[n])
      <3>1. PICK p \in DOMAIN stack[n].cases : case = WithSuiteOutput(stack[n].cases[p], stack[n])
        BY <2>2
      <3> DEFINE old == stack[n].cases[p]
      <3>2. DOMAIN old = CaseFields
        BY <1>1 DEF Stacked
      <3>3. /\ old.at \in 1 .. Len(document) /\ old.out = OutputFrom(old.at, n)
            /\ \A j \in Open : Depth(j) < n => j \in Around(old.at)
        BY <1>1 DEF Heard
      <3> HIDE DEF old, case
      <3>4. case = WithSuiteOutput(old, stack[n])
        BY <3>1 DEF old
      <3>5. /\ case.at = old.at
            /\ case.out = IF old.out = None THEN stack[n].out ELSE old.out
        BY <3>2, <3>4 DEF WithSuiteOutput, CaseFields
      <3>6. PICK j \in Open : Depth(j) = n - 1 /\ stack[n].out = OutputOf(j)
        BY <1>1 DEF Opened
      <3>7. \A k \in Open : Depth(k) \in Int
        BY OpenIs
      <3>8. old.at \in Nat \ {0} /\ j \in Around(old.at)
        BY <1>1, <3>3, <3>6
      <3>9. OutputFrom(old.at, n - 1) =
              IF OutputFrom(old.at, n) = None THEN OutputOf(j) ELSE OutputFrom(old.at, n)
        <4>1. OutputFrom(old.at, n - 1) =
                IF OutputFrom(old.at, n - 1 + 1) = None THEN OutputOf(j)
                ELSE OutputFrom(old.at, n - 1 + 1)
          BY <1>1, <3>6, <3>8, HearsSuite
        <4>2. QED
          BY <1>1, <4>1
      <3>10. case.out = OutputFrom(case.at, n - 1)
        BY <3>3, <3>5, <3>6, <3>9
      <3>11. \A k \in Open : Depth(k) < n - 1 => k \in Around(case.at)
        BY <1>1, <3>3, <3>5, <3>7
      <3>12. QED
        BY <2>2, <3>3, <3>5, <3>10, <3>11 DEF case
    <2>3. QED
      BY <2>1, <2>2, EmittedFrom
  <1>6. Heard(after)
    BY <1>2, <1>5 DEF Heard
  <1>7. QED
    BY <1>4, <1>6

\* When all suites end, all cases are in the list.
LEMMA DrainedKeeps ==
    ASSUME IsList(document), NEW stack, Stacked(stack)
    PROVE  /\ Stacked(Drained(stack)) /\ Len(Drained(stack)) = 1 /\ Held(Drained(stack)) = Held(stack)
           /\ Heard(stack) /\ Opened(stack) => Heard(Drained(stack))
  <1> DEFINE last == Len(stack) - 1
             After[d \in 0 .. last] == IF d = 0 THEN stack ELSE Emitted(After[d - 1])
  <1>1. Len(stack) \in Nat /\ last \in Nat /\ last \in 0 .. last /\ Len(stack) - last = 1
    <2>1. Len(stack) \in Nat /\ Len(stack) > 0
      BY Replaced DEF Stacked
    <2>2. QED
      BY <2>1
  <1>2. Drained(stack) = After[last]
    BY DEF Drained
  <1>3. \E f : Ends(stack, last, f)
    BY <1>1, EndsExist
  <1>4. Ends(stack, last, After)
    BY <1>3 DEF Ends
  <1> HIDE DEF After
  <1>5. ASSUME NEW d \in 0 .. last
        PROVE  After[d] = IF d = 0 THEN stack ELSE Emitted(After[d - 1])
    BY <1>4, Zenon DEF Ends
  <1> DEFINE Right(s, d) ==
                /\ Stacked(s) /\ Len(s) = Len(stack) - d /\ Held(s) = Held(stack)
                /\ Heard(stack) /\ Opened(stack) => Heard(s) /\ Opened(s)
             Wrong == {d \in 0 .. last : ~Right(After[d], d)}
  <1>6. Wrong = {}
    <2> SUFFICES ASSUME Wrong # {}
                 PROVE  FALSE
      OBVIOUS
    <2> DEFINE least == Min(Wrong)
    <2>1. Wrong \in SUBSET Nat
      BY <1>1
    <2>2. least \in Wrong /\ \A d \in Wrong : least <= d
      <3> HIDE DEF Wrong
      <3>1. QED
        BY <2>1, LeastIs
    <2>3. least \in 0 .. last /\ ~Right(After[least], least)
      BY <2>2
    <2> HIDE DEF least
    <2>4. CASE least = 0
      <3>1. After[least] = stack /\ Len(stack) = Len(stack) - 0
        BY <1>1, <1>5, <2>3, <2>4
      <3>2. QED
        BY <2>3, <2>4, <3>1
    <2>5. CASE least # 0
      <3>1. /\ least - 1 \in 0 .. last /\ ~(least <= least - 1)
            /\ Len(stack) - (least - 1) > 1
            /\ Len(stack) - (least - 1) - 1 = Len(stack) - least
        BY <1>1, <2>3, <2>5
      <3>2. Right(After[least - 1], least - 1)
        BY <2>2, <3>1
      <3>3. After[least] = Emitted(After[least - 1])
        BY <1>5, <2>3, <2>5
      <3>4. Right(After[least], least)
        BY <3>1, <3>2, <3>3, EmittedKeeps, EmittedHears
      <3>5. QED
        BY <2>3, <3>4
    <2>6. QED
      BY <2>4, <2>5
  <1>7. Right(After[last], last)
    BY <1>1, <1>6
  <1>8. QED
    BY <1>1, <1>2, <1>7

\* What is open after one more element.
LEMMA OpenNext ==
    ASSUME IsList(document), NEW n, n = Len(document),
           NEW kind, NEW text, NEW parts, Element(kind, text, parts)
    PROVE  /\ n \in Nat /\ Len(document') = n + 1 /\ Open = Around(n + 1)
           /\ \A j \in Open : j \in 1 .. n /\ Depth(j)' = Depth(j)
           /\ kind = "open" => Open' = Open \cup {n + 1} /\ Depth(n + 1)' = Depth(n) + 1
           /\ kind = "close" =>
                Open' = {j \in Open : Depth(j) < Depth(n)} /\ Depth(n + 1)' = Depth(n) - 1
           /\ kind \notin {"open", "close"} => Open' = Open /\ Depth(n + 1)' = Depth(n)
           /\ Depth(n) \in Int
  <1>1. /\ n \in Nat /\ Len(document') = n + 1
        /\ document'[n + 1] = [kind |-> kind, text |-> text, children |-> parts]
        /\ \A k \in 0 .. n : Depth(k)' = Depth(k)
        /\ \A i \in 1 .. n + 1 : Around(i)' = Around(i)
    BY DocumentKeeps
  <1>2. document'[n + 1].kind = kind
    BY <1>1
  <1>3. CountedTo(n)' /\ NestedAt(n + 1)'
    BY <1>1, NestingCountsNext DEF NestingCounts
  <1>4. Depth(n)' = Depth(n) /\ Around(n + 1)' = Around(n + 1) /\ Depth(n) \in Int
    <2>1. n \in 0 .. n /\ n + 1 \in 1 .. n + 1
      BY <1>1
    <2>2. QED
      BY <1>1, <2>1, DepthNext DEF CountedTo
  <1>5. /\ kind = "open" => Depth(n + 1)' = Depth(n) + 1
        /\ kind = "close" => Depth(n + 1)' = Depth(n) - 1
        /\ kind \notin {"open", "close"} => Depth(n + 1)' = Depth(n)
    BY <1>2, <1>3, <1>4 DEF CountedTo
  <1>6. Open = Around(n + 1) /\ \A m : m = n + 1 => Open' = Around(m + 1)'
    BY <1>1 DEF Open
  <1>7. \A j \in Open : j \in 1 .. n /\ Depth(j)' = Depth(j)
    <2>1. \A j \in Open : j \in 1 .. n
      BY OpenIs
    <2>2. QED
      BY <1>1, <2>1
  <1>8. n + 1 - 1 = n
    BY <1>1
  <1>9. PICK m : m = n + 1
    OBVIOUS
  <1>10. /\ kind = "open" => Open' = Open \cup {n + 1}
         /\ kind \notin {"open", "close"} => Open' = Open
    BY <1>2, <1>3, <1>4, <1>6, <1>9 DEF NestedAt
  <1>11. kind = "close" => Open' = {j \in Open : Depth(j) < Depth(n)}
    <2>1. kind = "close" => Around(m + 1)' = {j \in Around(m)' : Depth(j)' < Depth(m - 1)'}
      BY <1>2, <1>3, <1>9 DEF NestedAt
    <2>2. Depth(m - 1)' = Depth(n) /\ Around(m)' = Open
      BY <1>4, <1>6, <1>8, <1>9
    <2>3. QED
      BY <1>6, <1>7, <1>9, <2>1, <2>2
  <1>12. QED
    BY <1>1, <1>4, <1>5, <1>6, <1>7, <1>10, <1>11

\* The cases there are stay settled.
LEMMA HeardKeeps ==
    ASSUME IsList(document), NEW n, n = Len(document),
           NEW kind, NEW text, NEW parts, Element(kind, text, parts),
           NEW stack, Heard(stack), Len(stack) \in Nat,
           kind = "output" => Over(stack), kind = "open" => Len(stack) <= Depth(n) + 1
    PROVE  Heard(stack)' /\ (Over(stack) => Over(stack)')
  <1>1. /\ n \in Nat /\ Len(document') = n + 1 /\ Open = Around(n + 1) /\ Depth(n) \in Int
        /\ \A j \in Open : j \in 1 .. n /\ Depth(j)' = Depth(j)
        /\ Open' \subseteq Open \cup {n + 1}
        /\ n + 1 \in Open' => kind = "open" /\ Depth(n + 1)' = Depth(n) + 1
    <2>1. \A j \in Open : j # n + 1
      BY OpenNext
    <2>2. QED
      BY <2>1, OpenNext
  <1>2. ASSUME NEW l \in 1 .. Len(stack), NEW m \in DOMAIN stack[l].cases
        PROVE  /\ stack[l].cases[m].at \in 1 .. n + 1
               /\ stack[l].cases[m].out = OutputFrom(stack[l].cases[m].at, l)'
               /\ \A j \in Open' : Depth(j)' < l => j \in Around(stack[l].cases[m].at)'
               /\ Over(stack) =>
                    \A j \in Around(stack[l].cases[m].at)' : Depth(j)' >= l => j \notin Open'
    <2> DEFINE i == stack[l].cases[m].at
    <2>1. /\ i \in 1 .. n /\ stack[l].cases[m].out = OutputFrom(i, l)
          /\ \A j \in Open : Depth(j) < l => j \in Around(i)
      BY DEF Heard
    <2>2. Over(stack) => \A j \in Around(i) : Depth(j) >= l => j \notin Open
      BY DEF Over
    <2> HIDE DEF i
    <2>3. i \in 1 .. n + 1 /\ Around(i)' = Around(i)
      <3>1. i \in 1 .. n + 1
        BY <1>1, <2>1
      <3>2. QED
        BY <3>1, DocumentKeeps
    <2>4. \A j \in Around(i) : j \in 1 .. n /\ Depth(j)' = Depth(j) /\ j # n + 1
      <3>1. i \in Nat \ {0}
        BY <1>1, <2>1
      <3>2. \A j \in Around(i) : j \in 1 .. i - 1
        BY <3>1, AroundIs
      <3>3. \A j \in Around(i) : j \in 1 .. n /\ j \in 0 .. n /\ j # n + 1
        BY <1>1, <2>1, <3>2
      <3>4. QED
        BY <3>3, DocumentKeeps
    <2>5. \A j \in Around(i) : Depth(j) >= l => OutputOf(j)' = OutputOf(j)
      <3>1. \A j \in Around(i) : Depth(j) >= l =>
              ~(kind = "output" /\ j \in Around(n + 1) /\ Depth(j) = Depth(n))
        BY <1>1, <2>2
      <3>2. QED
        BY <2>4, <3>1, OutputNext
    <2>6. OutputFrom(i, l)' = OutputFrom(i, l)
      BY <2>1, <2>5, HearingKeeps
    <2>7. ASSUME NEW j \in Open', Depth(j)' < l
          PROVE  j \in Around(i)
      <3>1. j # n + 1
        <4>1. l <= Len(stack) /\ l \in Nat
          OBVIOUS
        <4>2. CASE j = n + 1
          <5>1. kind = "open" /\ Depth(j)' = Depth(n) + 1
            BY <1>1, <4>2
          <5>2. QED
            BY <1>1, <2>7, <4>1, <5>1
        <4>3. QED
          BY <4>2
      <3>2. j \in Open /\ Depth(j)' = Depth(j)
        BY <1>1, <3>1
      <3>3. QED
        BY <2>1, <2>7, <3>2
    <2>8. Over(stack) => \A j \in Around(i) : Depth(j)' >= l => j \notin Open'
      BY <1>1, <2>2, <2>4
    <2>9. QED
      BY <2>1, <2>3, <2>6, <2>7, <2>8 DEF i
  <1>3. Heard(stack)'
    BY <1>1, <1>2 DEF Heard
  <1>4. Over(stack) => Over(stack)'
    BY <1>2 DEF Over
  <1>5. QED
    BY <1>3, <1>4

\* Open suites keep their output, but for their own.
LEMMA OpenedKeeps ==
    ASSUME IsList(document), NEW n, n = Len(document),
           NEW kind, NEW text, NEW parts, Element(kind, text, parts),
           NEW stack, Opened(stack), Len(stack) \in Nat,
           kind # "output", kind = "close" => Len(stack) <= Depth(n)
    PROVE  Opened(stack)'
  <1>1. ASSUME NEW d \in 1 .. Len(stack) - 1
        PROVE  \E j \in Open' : Depth(j)' = d /\ stack[d + 1].out = OutputOf(j)'
    <2>1. PICK j \in Open : Depth(j) = d /\ stack[d + 1].out = OutputOf(j)
      BY DEF Opened
    <2>2. j \in 1 .. n /\ Depth(j)' = Depth(j) /\ Depth(n) \in Int
      BY OpenNext
    <2>3. OutputOf(j)' = OutputOf(j)
      BY <2>2, OutputNext
    <2>4. j \in Open'
      <3>1. kind = "close" => d < Depth(n)
        BY <2>2
      <3>2. QED
        BY <2>1, <3>1, OpenNext
    <2>5. QED
      BY <2>1, <2>2, <2>3, <2>4
  <1>2. QED
    BY <1>1 DEF Opened

\* A suite that has just begun has no output.
LEMMA NewIsSilent ==
    ASSUME IsList(document), NEW n, n = Len(document),
           NEW kind, NEW text, NEW parts, Element(kind, text, parts), NEW m, m = n + 1
    PROVE  OutputOf(m)' = None
  <1>1. n \in Nat /\ Len(document') = n + 1 /\ \A i \in 1 .. n + 1 : Around(i)' = Around(i)
    BY DocumentKeeps
  <1>2. \A i \in 1 .. n + 1 : m \notin Around(i)
    <2>1. \A i \in 1 .. n + 1 : i \in Nat \ {0} /\ m \notin 1 .. i - 1
      BY <1>1
    <2>2. QED
      BY <2>1, AroundIs
  <1>3. Captured(m)' = {}
    BY <1>1, <1>2 DEF Captured, Before
  <1>4. QED
    BY <1>3 DEF OutputOf, Captured

-----------------------------------------------------------------------------
(* The cases of a document survive.                                        *)

\* Nothing that is read yet is nothing in the list of cases.
LEMMA ScopesInvAtFirst == Init => ScopesInv
  <1> SUFFICES ASSUME Init PROVE ScopesInv
    OBVIOUS
  <1>1. levels = <<Level>> /\ children = <<>> /\ document = <<>> /\ status = "reading"
    BY DEF Init
  <1>2. IsList(<<>>) /\ DOMAIN <<>> = {} /\ Len(<<>>) = 0
    <2>1. <<>> \in Seq({})
      BY EmptySeq
    <2>2. QED
      BY <2>1 DEF IsList
  <1>3. /\ IsList(levels) /\ Len(levels) = 1 /\ levels[1] = Level
        /\ DOMAIN Level = {"out", "cases"} /\ Level.cases = <<>>
    <2>1. <<Level>> \in Seq({Level}) /\ Len(<<Level>>) = 1 /\ <<Level>>[1] = Level
      <3> HIDE DEF Level
      <3>1. QED
        OBVIOUS
    <2>2. DOMAIN Level = {"out", "cases"} /\ Level.cases = <<>>
      BY DEF Level
    <2>3. QED
      BY <1>1, <2>1, <2>2 DEF IsList
  <1>4. \A l \in 1 .. 1 : l = 1
    OBVIOUS
  <1>5. Stacked(levels)
    BY <1>2, <1>3, <1>4 DEF Stacked
  <1>6. HeldIn(levels[1]) = {}
    BY <1>2, <1>3 DEF HeldIn
  <1>7. Held(levels) = {}
    BY <1>3, <1>4, <1>6 DEF Held
  <1>8. CasesRead = {}
    BY <1>1, <1>2 DEF CasesRead, Before
  <1>9. QED
    BY <1>1, <1>2, <1>5, <1>7, <1>8 DEF ScopesInv

\* Elements of suites move, add and lose no case.
LEMMA SuitesKeep ==
    ASSUME ScopesInv, StartSuite \/ EndSuite \/ Output
    PROVE  ScopesInv'
  <1>1. /\ Stacked(levels) /\ Held(levels) = CasesRead /\ IsList(document) /\ IsList(children)
        /\ IsList(<<>>)
    <2>1. <<>> \in Seq({})
      BY EmptySeq
    <2>2. QED
      BY <2>1 DEF ScopesInv, IsList
  <1>2. status = "reading" /\ status' = status /\ children' = children
    BY DEF StartSuite, EndSuite, Output, Reading
  <1>3. \E kind, text : kind # "case" /\ Element(kind, text, <<>>)
    <2>1. CASE StartSuite
      BY <2>1 DEF StartSuite
    <2>2. CASE EndSuite
      BY <2>2 DEF EndSuite
    <2>3. CASE Output
      BY <2>3 DEF Output
    <2>4. QED
      BY <2>1, <2>2, <2>3
  <1>4. IsList(document') /\ CasesRead' = CasesRead
    <2>1. PICK kind, text : kind # "case" /\ Element(kind, text, <<>>)
      BY <1>3
    <2>2. /\ IsList(document')
          /\ CasesRead' = CasesRead \cup
               IF kind = "case" THEN {<<Len(document) + 1, OutcomeOf(<<>>, Len(<<>>))>>} ELSE {}
      BY <1>1, <2>1, DocumentGrows
    <2>3. QED
      BY <2>1, <2>2
  <1>5. Stacked(levels') /\ Held(levels') = Held(levels)
    <2>1. CASE StartSuite
      BY <1>1, <2>1, SuiteAdded DEF StartSuite
    <2>2. CASE EndSuite
      BY <1>1, <2>2, EmittedKeeps DEF EndSuite
    <2>3. CASE Output
      BY <1>1, <2>3, OutputKeeps DEF Output
    <2>4. QED
      BY <2>1, <2>2, <2>3
  <1>6. QED
    BY <1>1, <1>2, <1>4, <1>5 DEF ScopesInv

\* A case is added when it ends, with the outcome of its children.
LEMMA CasesKeep ==
    ASSUME ScopesInv, StartCase \/ Child \/ EndCase
    PROVE  ScopesInv'
  <1>1. /\ Stacked(levels) /\ Held(levels) = CasesRead /\ IsList(document) /\ IsList(children)
        /\ IsList(<<>>)
    <2>1. <<>> \in Seq({})
      BY EmptySeq
    <2>2. QED
      BY <2>1 DEF ScopesInv, IsList
  <1>2. status = "reading" /\ status' = status
    BY DEF StartCase, Child, EndCase, Reading
  <1>3. CASE StartCase
    <2>1. levels' = levels /\ children' = children /\ document' = document
      BY <1>3 DEF StartCase
    <2>2. CasesRead' = CasesRead
      BY <2>1 DEF CasesRead, Before, OutcomeAt
    <2>3. QED
      BY <1>1, <1>2, <2>1, <2>2 DEF ScopesInv
  <1>4. CASE Child
    <2>1. PICK child \in Children :
            /\ children' = Append(children, child)
            /\ levels' = IF child.tag = "output" THEN AfterOutput(child.text) ELSE levels
      BY <1>4 DEF Child
    <2>2. document' = document
      BY <1>4 DEF Child
    <2>3. CasesRead' = CasesRead
      BY <2>2 DEF CasesRead, Before, OutcomeAt
    <2>4. IsList(children')
      BY <1>1, <2>1, Appended
    <2>5. Stacked(levels') /\ Held(levels') = Held(levels)
      BY <1>1, <2>1, OutputKeeps
    <2>6. QED
      BY <1>1, <1>2, <2>2, <2>3, <2>4, <2>5 DEF ScopesInv
  <1>5. CASE EndCase
    <2> DEFINE place == Len(document) + 1
               case == BuildCase(place)
               after == [levels EXCEPT ![Len(levels)].cases = Append(@, case)]
    <2>1. levels' = after /\ Element("case", None, children) /\ children' = <<>>
      BY <1>5 DEF EndCase
    <2>2. /\ IsList(document') /\ Len(document) \in Nat
          /\ CasesRead' = CasesRead \cup {<<place, OutcomeOf(children, Len(children))>>}
      BY <1>1, <2>1, DocumentGrows
    <2>3. /\ DOMAIN case = CaseFields /\ case.at = place
          /\ case.outcome = OutcomeOf(children, Len(children))
      BY <1>1, BuildCaseIs
    <2> HIDE DEF case
    <2>4. ASSUME NEW l \in 1 .. Len(levels), NEW m \in DOMAIN levels[l].cases
          PROVE  levels[l].cases[m].at < case.at
      <3>1. levels[l].cases[m].at \in 1 .. Len(document)
        BY PlacesHeld
      <3>2. QED
        BY <2>2, <2>3, <3>1
    <2>5. case.at \in Nat
      BY <2>2, <2>3
    <2>6. Stacked(after) /\ Held(after) = Held(levels) \cup {<<case.at, case.outcome>>}
      <3> HIDE DEF after
      <3>1. after = [levels EXCEPT ![Len(levels)].cases = Append(@, case)]
        BY DEF after
      <3>2. QED
        BY <1>1, <2>3, <2>4, <2>5, <3>1, CaseAdded
    <2> HIDE DEF after
    <2>7. Held(levels') = CasesRead'
      BY <1>1, <2>1, <2>2, <2>3, <2>6
    <2>8. QED
      BY <1>1, <1>2, <2>1, <2>2, <2>6, <2>7 DEF ScopesInv
  <1>6. QED
    BY <1>3, <1>4, <1>5

\* However the parse ends, all scopes have gone into the list of cases.
LEMMA EndsKeep ==
    ASSUME ScopesInv, EndDocument \/ ParseError \/ Reject \/ UNCHANGED vars
    PROVE  ScopesInv'
  <1>1. Stacked(levels) /\ Held(levels) = CasesRead /\ IsList(document) /\ IsList(children)
    BY DEF ScopesInv
  <1>2. document' = document /\ children' = children
    BY DEF EndDocument, ParseError, Reject, vars
  <1>3. CasesRead' = CasesRead
    BY <1>2 DEF CasesRead, Before, OutcomeAt
  <1>4. CASE EndDocument
    <2>1. /\ levels' = levels /\ Len(levels) = 1 /\ status' = "parsed"
          /\ warning' = IF levels[1].cases = <<>> THEN "no_testcases" ELSE None
      BY <1>4 DEF EndDocument
    <2>2. warning' = None => levels[1].cases # <<>>
      BY <2>1, JUnitAssumption
    <2>3. QED
      BY <1>1, <1>2, <1>3, <2>1, <2>2 DEF ScopesInv, Cases
  <1>5. CASE ParseError
    <2>1. levels' = Drained(levels) /\ status' = "truncated" /\ warning' = "malformed_xml"
      BY <1>5 DEF ParseError
    <2>2. Stacked(levels') /\ Len(levels') = 1 /\ Held(levels') = Held(levels)
      BY <1>1, <2>1, DrainedKeeps
    <2>3. QED
      BY <1>1, <1>2, <1>3, <2>1, <2>2 DEF ScopesInv
  <1>6. CASE Reject
    <2>1. levels' = levels /\ document = <<>> /\ status' = "rejected" /\ warning' \in Rejections
      BY <1>6 DEF Reject
    <2>2. QED
      BY <1>1, <1>2, <1>3, <2>1 DEF ScopesInv
  <1>7. CASE UNCHANGED vars
    <2>1. levels' = levels /\ status' = status /\ warning' = warning
      BY <1>7 DEF vars
    <2>2. QED
      BY <1>1, <1>2, <1>3, <2>1 DEF ScopesInv, Cases
  <1>8. QED
    BY <1>4, <1>5, <1>6, <1>7

\* What the list of cases is when the parse has ended.
LEMMA ScopesInvSuffices == ScopesInv => CompleteCasesSurvive
  <1> SUFFICES ASSUME ScopesInv, Ended PROVE CompleteCasesSurvive
    BY DEF CompleteCasesSurvive
  <1>1. 1 \in 1 .. Len(levels)
    <2>1. IsList(levels) /\ Len(levels) > 0
      BY DEF ScopesInv, Stacked
    <2>2. Len(levels) \in Nat
      BY <2>1, Replaced
    <2>3. QED
      BY <2>1, <2>2
  <1>2. ASSUME NEW n \in DOMAIN Cases
        PROVE  /\ Cases[n].at \in Before(Len(document), "case")
               /\ Cases[n].at \in 1 .. Len(document)
               /\ Cases[n].outcome = OutcomeAt(Cases[n].at)
    BY <1>1, PlacesHeld DEF Cases
  <1>3. \A m, n \in DOMAIN Cases : m < n => Cases[m].at < Cases[n].at
    BY <1>1 DEF ScopesInv, Stacked, Cases
  <1>4. ASSUME NEW i \in Before(Len(document), "case")
        PROVE  \E n \in DOMAIN Cases : Cases[n].at = i
    <2>1. <<i, OutcomeAt(i)>> \in Held(levels)
      BY DEF ScopesInv, CasesRead
    <2>2. PICK l \in 1 .. Len(levels) : <<i, OutcomeAt(i)>> \in HeldIn(levels[l])
      BY <2>1 DEF Held
    <2>3. PICK m \in DOMAIN levels[l].cases :
             <<i, OutcomeAt(i)>> = <<levels[l].cases[m].at, levels[l].cases[m].outcome>>
      BY <2>2 DEF HeldIn
    <2>4. document # <<>>
      BY DEF Before
    <2>5. Len(levels) = 1
      BY <2>4 DEF ScopesInv, Ended
    <2>6. l = 1 /\ levels[l].cases[m].at = i
      BY <2>3, <2>5
    <2>7. QED
      BY <2>6 DEF Cases
  <1>5. {Cases[n].at : n \in DOMAIN Cases} = Before(Len(document), "case")
    BY <1>2, <1>4
  <1>6. warning = None => status = "parsed" /\ Cases # <<>>
    BY JUnitAssumption DEF ScopesInv, Ended
  <1>7. QED
    BY <1>2, <1>3, <1>5, <1>6 DEF CompleteCasesSurvive

(***************************************************************************)
(* Wherever a JUnit file of any nesting is cut, its complete cases are     *)
(* delivered once each, in order, with the outcome of their first failure, *)
(* and a result that may be incomplete has a warning (_parse_stream).      *)
(***************************************************************************)
THEOREM CompleteCasesAlwaysSurvive == Spec => []CompleteCasesSurvive
  <1>1. ASSUME ScopesInv, [Next]_vars
        PROVE  ScopesInv'
    BY <1>1, SuitesKeep, CasesKeep, EndsKeep DEF Next
  <1>2. QED
    BY <1>1, ScopesInvAtFirst, ScopesInvSuffices, PTL DEF Spec

-----------------------------------------------------------------------------
(* The output of a case is that of the nearest suite.                      *)

\* No suite is closed that was not open.
Balanced == \A k \in 0 .. Len(document) : Depth(k) >= 0

\* One more element keeps it so if there is a suite that it can end.
LEMMA BalancedKeeps ==
    ASSUME IsList(document), NEW n, n = Len(document),
           NEW kind, NEW text, NEW parts, Element(kind, text, parts),
           Balanced, kind = "close" => Depth(n) > 0
    PROVE  Balanced'
  <1>1. /\ n \in Nat /\ Len(document') = n + 1 /\ Depth(n) \in Int
        /\ Depth(n + 1)' \in {Depth(n) + 1, Depth(n) - 1, Depth(n)}
        /\ Depth(n + 1)' = Depth(n) - 1 => kind = "close"
    BY OpenNext
  <1>2. \A k \in 0 .. n : Depth(k)' = Depth(k)
    BY DocumentKeeps
  <1>3. n \in 0 .. n /\ \A k \in 0 .. n + 1 : k \in 0 .. n \/ k = n + 1
    BY <1>1
  <1>4. Depth(n) >= 0 /\ \A k \in 0 .. n : Depth(k)' >= 0
    BY <1>2, <1>3 DEF Balanced
  <1>5. \A k \in 0 .. n + 1 : Depth(k)' >= 0
    BY <1>1, <1>3, <1>4
  <1>6. QED
    BY <1>1, <1>5 DEF Balanced

\* What is known of a reader that goes on.
Reads ==
    /\ Depth(Len(document)) = Len(levels) - 1
    /\ Opened(levels) /\ Over(levels)

\* A suite begins.
LEMMA StartSuiteNests ==
    ASSUME ScopesInv, Balanced, Heard(levels), Reads, StartSuite
    PROVE  Balanced' /\ Heard(levels)' /\ Reads'
  <1>1. IsList(document) /\ IsList(levels) /\ Len(levels) > 0
    BY DEF ScopesInv, Stacked
  <1>2. PICK n, stack : n = Len(document) /\ stack = levels
    OBVIOUS
  <1>3. Element("open", None, <<>>) /\ levels' = Append(stack, Level)
    BY <1>2 DEF StartSuite
  <1>4. /\ n \in Nat /\ Len(document') = n + 1 /\ Open' = Open \cup {n + 1}
        /\ Depth(n + 1)' = Depth(n) + 1 /\ Depth(n) \in Int
    BY <1>1, <1>2, <1>3, OpenNext
  <1>5. /\ Len(stack) \in Nat /\ Len(levels') = Len(stack) + 1
        /\ levels'[Len(stack) + 1] = Level /\ \A l \in 1 .. Len(stack) : levels'[l] = stack[l]
    BY <1>1, <1>2, <1>3, Appended
  <1>6. Heard(stack) /\ Over(stack) /\ Opened(stack) /\ Depth(n) = Len(stack) - 1
    BY <1>2 DEF Reads
  <1>7. Heard(stack)' /\ Over(stack)' /\ Opened(stack)'
    <2>1. Heard(stack)' /\ (Over(stack) => Over(stack)')
      BY <1>1, <1>2, <1>3, <1>5, <1>6, HeardKeeps
    <2>2. Opened(stack)'
      BY <1>1, <1>2, <1>3, <1>5, <1>6, OpenedKeeps
    <2>3. QED
      BY <1>6, <2>1, <2>2
  <1>8. Balanced'
    BY <1>1, <1>2, <1>3, BalancedKeeps
  <1>9. /\ Level.out = None /\ DOMAIN Level.cases = {}
        /\ \A l \in 1 .. Len(stack) + 1 : l \in 1 .. Len(stack) \/ l = Len(stack) + 1
    BY <1>5 DEF Level
  <1>10. Heard(levels)' /\ Over(levels)'
    <2>1. \A l \in 1 .. Len(levels') : \A m \in DOMAIN levels'[l].cases :
            l \in 1 .. Len(stack) /\ levels'[l] = stack[l]
      BY <1>5, <1>9
    <2>2. Heard(levels)'
      BY <1>7, <2>1 DEF Heard
    <2>3. Over(levels)'
      BY <1>7, <2>1 DEF Over
    <2>4. QED
      BY <2>2, <2>3
  <1>11. Opened(levels)'
    <2>1. ASSUME NEW d \in 1 .. Len(stack)
          PROVE  \E j \in Open' : Depth(j)' = d /\ levels'[d + 1].out = OutputOf(j)'
      <3>1. CASE d = Len(stack)
        <4>1. PICK j : j = n + 1
          OBVIOUS
        <4>2. OutputOf(j)' = None
          BY <1>1, <1>2, <1>3, <4>1, NewIsSilent
        <4>3. j \in Open' /\ Depth(j)' = d
          BY <1>4, <1>5, <1>6, <3>1, <4>1
        <4>4. levels'[d + 1].out = None
          BY <1>5, <1>9, <3>1
        <4>5. QED
          BY <4>2, <4>3, <4>4
      <3>2. CASE d # Len(stack)
        <4>1. d \in 1 .. Len(stack) - 1 /\ d + 1 \in 1 .. Len(stack)
          BY <1>5, <3>2
        <4>2. PICK j \in Open' : Depth(j)' = d /\ stack[d + 1].out = OutputOf(j)'
          BY <1>7, <4>1 DEF Opened
        <4>3. levels'[d + 1] = stack[d + 1]
          BY <1>5, <4>1
        <4>4. QED
          BY <4>2, <4>3
      <3>3. QED
        BY <3>1, <3>2
    <2>2. \A d \in 1 .. Len(levels') - 1 : d \in 1 .. Len(stack)
      BY <1>5
    <2>3. QED
      BY <2>1, <2>2 DEF Opened
  <1>12. Depth(Len(document))' = Len(levels') - 1
    BY <1>4, <1>5, <1>6
  <1>13. QED
    BY <1>8, <1>10, <1>11, <1>12 DEF Reads

\* A suite ends.
LEMMA EndSuiteNests ==
    ASSUME ScopesInv, Balanced, Heard(levels), Reads, EndSuite
    PROVE  Balanced' /\ Heard(levels)' /\ Reads'
  <1>1. IsList(document) /\ Stacked(levels) /\ Len(levels) > 1 /\ Len(levels) \in Nat
    <2>1. IsList(document) /\ Stacked(levels) /\ Len(levels) > 1
      BY DEF ScopesInv, EndSuite
    <2>2. QED
      BY <2>1, Replaced DEF Stacked
  <1>2. PICK n, old, stack : n = Len(document) /\ old = levels /\ stack = Emitted(levels)
    OBVIOUS
  <1>3. Element("close", None, <<>>) /\ levels' = stack
    BY <1>2 DEF EndSuite
  <1>4. /\ n \in Nat /\ Len(document') = n + 1 /\ Open' = {j \in Open : Depth(j) < Depth(n)}
        /\ Depth(n + 1)' = Depth(n) - 1 /\ Depth(n) \in Int
        /\ \A j \in Open : Depth(j)' = Depth(j)
    BY <1>1, <1>2, <1>3, OpenNext
  <1>5. /\ Heard(stack) /\ Opened(stack) /\ Len(stack) = Len(old) - 1
        /\ Depth(n) = Len(old) - 1 /\ Over(old)
    <2>1. Heard(stack) /\ Opened(stack)
      BY <1>1, <1>2, EmittedHears DEF Reads
    <2>2. Len(stack) = Len(old) - 1
      BY <1>1, <1>2, EmittedKeeps
    <2>3. QED
      BY <1>2, <2>1, <2>2 DEF Reads
  <1>6. Len(stack) \in Nat /\ Len(old) \in Nat /\ Len(stack) <= Depth(n) /\ Depth(n) > 0
    BY <1>1, <1>2, <1>5
  <1>7. Heard(stack)'
    BY <1>1, <1>2, <1>3, <1>5, <1>6, HeardKeeps
  <1>8. Opened(stack)'
    BY <1>1, <1>2, <1>3, <1>5, <1>6, OpenedKeeps
  <1>9. Balanced'
    BY <1>1, <1>2, <1>3, <1>6, BalancedKeeps
  <1>10. ASSUME NEW l \in 1 .. Len(stack), NEW m \in DOMAIN stack[l].cases,
                NEW j \in Around(stack[l].cases[m].at)', Depth(j)' >= l, j \in Open'
         PROVE  FALSE
    <2> DEFINE case == stack[l].cases[m]
    <2>1. j \in Open /\ Depth(j) < Depth(n) /\ Depth(j)' = Depth(j) /\ Depth(j) \in Int
      BY <1>1, <1>4, <1>10, OpenIs
    <2>2. case.at \in 1 .. n
      BY <1>2, <1>5 DEF Heard
    <2>3. j \in Around(case.at)
      <3>1. PICK i : i = case.at
        OBVIOUS
      <3>2. i \in 1 .. n + 1 /\ j \in Around(i)'
        BY <1>4, <1>10, <2>2, <3>1
      <3>3. Around(i)' = Around(i)
        BY <1>1, <1>2, <1>3, <3>2, DocumentKeeps
      <3>4. QED
        BY <3>1, <3>2, <3>3
    <2>4. CASE \E p \in DOMAIN old[l].cases : case = old[l].cases[p]
      <3>1. l \in 1 .. Len(old)
        BY <1>5, <1>6
      <3>2. Depth(j) >= l
        BY <1>10, <2>1
      <3>3. QED
        BY <1>5, <2>1, <2>3, <2>4, <3>1, <3>2 DEF Over
    <2>5. CASE l = Len(old) - 1
      BY <1>5, <1>6, <1>10, <2>1, <2>5
    <2>6. QED
      <3>1. \/ \E p \in DOMAIN old[l].cases : case = old[l].cases[p]
            \/ l = Len(old) - 1
        BY <1>1, <1>2, <1>5, EmittedFrom
      <3>2. QED
        BY <2>4, <2>5, <3>1
  <1>11. Over(stack)'
    BY <1>10 DEF Over
  <1>12. Heard(levels)' /\ Opened(levels)' /\ Over(levels)'
    BY <1>3, <1>7, <1>8, <1>11 DEF Heard, Opened, Over
  <1>13. Depth(Len(document))' = Len(levels') - 1
    BY <1>3, <1>4, <1>5, <1>6
  <1>14. QED
    BY <1>9, <1>12, <1>13 DEF Reads

\* What output of a suite changes.
LEMMA AfterOutputIs ==
    ASSUME Stacked(levels), NEW text, ~inCase
    PROVE  /\ Len(levels) \in Nat /\ Len(AfterOutput(text)) = Len(levels)
           /\ \A l \in 1 .. Len(levels) :
                /\ AfterOutput(text)[l].cases = levels[l].cases
                /\ AfterOutput(text)[l].out =
                     IF l = Len(levels) /\ l > 1 THEN text ELSE levels[l].out
  <1> DEFINE n == Len(levels)
             scope == [levels[n] EXCEPT !.out = text]
             after == [levels EXCEPT ![n] = scope]
  <1>1. IsList(levels) /\ n \in Nat /\ n \in 1 .. n /\ DOMAIN levels = 1 .. n
    <2>1. IsList(levels) /\ n > 0
      BY DEF Stacked
    <2>2. n \in Nat /\ DOMAIN levels = 1 .. n
      BY <2>1, Replaced
    <2>3. QED
      BY <2>1, <2>2
  <1>2. DOMAIN levels[n] = {"out", "cases"}
    BY <1>1 DEF Stacked
  <1>3. scope.cases = levels[n].cases /\ scope.out = text
    BY <1>2
  <1>4. AfterOutput(text) = IF n > 1 THEN after ELSE levels
    BY <1>1 DEF AfterOutput
  <1> HIDE DEF scope
  <1>5. /\ Len(after) = n /\ after[n] = scope
        /\ \A l \in 1 .. n : l # n => after[l] = levels[l]
    BY <1>1, Replaced
  <1> HIDE DEF after
  <1>6. QED
    BY <1>1, <1>3, <1>4, <1>5

\* A suite captures output.
LEMMA OutputNests ==
    ASSUME ScopesInv, Balanced, Heard(levels), Reads, Output
    PROVE  Balanced' /\ Heard(levels)' /\ Reads'
  <1>1. PICK n, stack, text :
           /\ n = Len(document) /\ stack = levels
           /\ levels' = AfterOutput(text) /\ Element("output", text, <<>>)
    BY DEF Output
  <1>2. IsList(document) /\ Stacked(levels) /\ ~inCase
    BY DEF ScopesInv, Output
  <1>3. /\ Len(stack) \in Nat /\ Len(levels') = Len(stack)
        /\ \A l \in 1 .. Len(stack) :
             /\ levels'[l].cases = stack[l].cases
             /\ levels'[l].out = IF l = Len(stack) /\ l > 1 THEN text ELSE stack[l].out
    BY <1>1, <1>2, AfterOutputIs
  <1>4. /\ n \in Nat /\ Len(document') = n + 1 /\ Open = Around(n + 1) /\ Open' = Open
        /\ \A j \in Open : j \in 1 .. n /\ Depth(j)' = Depth(j)
        /\ Depth(n + 1)' = Depth(n)
    BY <1>1, <1>2, OpenNext
  <1>5. Heard(stack) /\ Over(stack) /\ Opened(stack) /\ Depth(n) = Len(stack) - 1
    BY <1>1 DEF Reads
  <1>6. Heard(stack)' /\ Over(stack)'
    BY <1>1, <1>2, <1>3, <1>5, HeardKeeps
  <1>7. Heard(levels)' /\ Over(levels)'
    BY <1>3, <1>6 DEF Heard, Over
  <1>8. Balanced'
    BY <1>1, <1>2, BalancedKeeps
  <1>9. ASSUME NEW d \in 1 .. Len(stack) - 1
        PROVE  \E j \in Open' : Depth(j)' = d /\ levels'[d + 1].out = OutputOf(j)'
    <2>1. PICK j \in Open : Depth(j) = d /\ stack[d + 1].out = OutputOf(j)
      BY <1>5 DEF Opened
    <2>2. j \in 1 .. n /\ j \in Around(n + 1) /\ j \in Open' /\ Depth(j)' = d
      BY <1>4, <2>1
    <2>3. OutputOf(j)' = IF d = Depth(n) THEN text ELSE OutputOf(j)
      <3>1. OutputOf(j)' =
              IF "output" = "output" /\ j \in Around(n + 1) /\ Depth(j) = Depth(n) THEN text
              ELSE OutputOf(j)
        BY <1>1, <1>2, <2>2, OutputNext
      <3>2. QED
        BY <2>1, <2>2, <3>1
    <2>4. d + 1 \in 1 .. Len(stack) /\ (d = Depth(n) <=> d + 1 = Len(stack)) /\ d + 1 > 1
      BY <1>3, <1>5
    <2>5. levels'[d + 1].out = IF d = Depth(n) THEN text ELSE stack[d + 1].out
      BY <1>3, <2>4
    <2>6. QED
      BY <2>1, <2>2, <2>3, <2>5
  <1>10. Opened(levels)'
    BY <1>3, <1>9 DEF Opened
  <1>11. Depth(Len(document))' = Len(levels') - 1
    BY <1>3, <1>4, <1>5
  <1>12. QED
    BY <1>7, <1>8, <1>10, <1>11 DEF Reads

\* The innermost scope gets one more case.
WithCase(stack, case) == [stack EXCEPT ![Len(stack)].cases = Append(@, case)]

\* That is all that changes.
LEMMA ScopeGets ==
    ASSUME NEW stack, Stacked(stack), NEW case,
           NEW after, after = WithCase(stack, case)
    PROVE  /\ Len(stack) \in Nat /\ Len(stack) > 0 /\ Len(after) = Len(stack)
           /\ \A l \in 1 .. Len(stack) :
                /\ after[l].out = stack[l].out
                /\ \A m \in DOMAIN after[l].cases :
                      \/ m \in DOMAIN stack[l].cases /\ after[l].cases[m] = stack[l].cases[m]
                      \/ l = Len(stack) /\ after[l].cases[m] = case
  <1> DEFINE n == Len(stack)
             own == stack[n].cases
             longer == Append(own, case)
             scope == [stack[n] EXCEPT !.cases = longer]
  <1>1. IsList(stack) /\ n \in Nat /\ n > 0 /\ n \in 1 .. n /\ DOMAIN stack = 1 .. n
    <2>1. IsList(stack) /\ n > 0
      BY DEF Stacked
    <2>2. n \in Nat /\ DOMAIN stack = 1 .. n
      BY <2>1, Replaced
    <2>3. QED
      BY <2>1, <2>2
  <1>2. DOMAIN stack[n] = {"out", "cases"} /\ IsList(own)
    BY <1>1 DEF Stacked
  <1>3. /\ DOMAIN longer = 1 .. Len(own) + 1 /\ DOMAIN own = 1 .. Len(own) /\ Len(own) \in Nat
        /\ longer[Len(own) + 1] = case /\ \A m \in 1 .. Len(own) : longer[m] = own[m]
    BY <1>2, Appended
  <1> HIDE DEF longer
  <1>4. scope.cases = longer /\ scope.out = stack[n].out
    BY <1>2
  <1>5. after = [stack EXCEPT ![n] = scope]
    BY <1>1 DEF longer, WithCase
  <1> HIDE DEF scope
  <1>6. /\ Len(after) = n /\ after[n] = scope
        /\ \A l \in 1 .. n : l # n => after[l] = stack[l]
    <2> DEFINE other == [stack EXCEPT ![n] = scope]
    <2>1. /\ Len(other) = n /\ other[n] = scope
          /\ \A l \in 1 .. n : l # n => other[l] = stack[l]
      BY <1>1, Replaced
    <2>2. after = other
      BY <1>5
    <2> HIDE DEF other
    <2>3. QED
      BY <2>1, <2>2
  <1>7. \A m \in DOMAIN longer :
          \/ m \in DOMAIN own /\ longer[m] = own[m]
          \/ longer[m] = case
    BY <1>3
  <1>8. QED
    BY <1>1, <1>4, <1>6, <1>7

\* A case ends. It has its own output, or none yet: no suite within its own
\* is around it.
LEMMA EndCaseNests ==
    ASSUME ScopesInv, Balanced, Heard(levels), Reads, EndCase
    PROVE  Balanced' /\ Heard(levels)' /\ Reads'
  <1>1. PICK n, stack, parts, place, case, after :
           /\ n = Len(document) /\ stack = levels /\ parts = children /\ place = n + 1
           /\ case = BuildCase(place) /\ after = levels'
    OBVIOUS
  <1>2. IsList(document) /\ Stacked(stack) /\ IsList(parts)
    BY <1>1 DEF ScopesInv
  <1>3. /\ Element("case", None, parts)
        /\ after = WithCase(stack, case)
    BY <1>1 DEF EndCase, WithCase
  <1>4. /\ Len(stack) \in Nat /\ Len(stack) > 0 /\ Len(after) = Len(stack)
        /\ \A l \in 1 .. Len(stack) :
             /\ after[l].out = stack[l].out
             /\ \A m \in DOMAIN after[l].cases :
                   \/ m \in DOMAIN stack[l].cases /\ after[l].cases[m] = stack[l].cases[m]
                   \/ l = Len(stack) /\ after[l].cases[m] = case
    BY <1>2, <1>3, ScopeGets
  <1>5. case.at = place /\ case.out = OwnOf(parts, Len(parts))
    BY <1>1, <1>2, BuildCaseIs
  <1>6. /\ n \in Nat /\ Len(document') = n + 1 /\ Open = Around(n + 1) /\ Open' = Open
        /\ \A j \in Open : j \in 1 .. n /\ Depth(j)' = Depth(j)
        /\ Depth(n + 1)' = Depth(n)
    <2>1. n = Len(document) /\ IsList(document) /\ Element("case", None, parts)
      BY <1>1, <1>2, <1>3
    <2>2. QED
      BY <2>1, OpenNext
  <1>7. Heard(stack) /\ Over(stack) /\ Opened(stack) /\ Depth(n) = Len(stack) - 1
    BY <1>1 DEF Reads
  <1>8. Heard(stack)' /\ Over(stack)'
    BY <1>1, <1>2, <1>3, <1>4, <1>7, HeardKeeps
  <1>9. Opened(stack)'
    BY <1>1, <1>2, <1>3, <1>4, <1>7, OpenedKeeps
  <1>10. Balanced'
    BY <1>1, <1>2, <1>3, BalancedKeeps
  <1>11. place \in 1 .. n + 1 /\ Around(place)' = Open
    <2>1. place \in 1 .. n + 1
      BY <1>1, <1>6
    <2>2. Around(place)' = Around(place)
      BY <1>1, <1>2, <1>3, <2>1, DocumentKeeps
    <2>3. QED
      BY <1>1, <1>6, <2>1, <2>2
  <1>12. \A j \in Open : ~(Depth(j)' >= Len(stack))
    <2>1. \A j \in Open : Depth(j) \in Int /\ Depth(j) <= Depth(n)
      BY <1>1, <1>2, OpenIs
    <2>2. QED
      BY <1>4, <1>6, <1>7, <2>1
  <1>13. OwnOutput(place)' = case.out
    <2>1. document'[place].children = parts
      <3>1. document'[n + 1] = [kind |-> "case", text |-> None, children |-> parts]
        BY <1>1, <1>2, <1>3, DocumentKeeps
      <3>2. QED
        BY <1>1, <3>1
    <2>2. DOMAIN parts = 1 .. Len(parts)
      BY <1>2, Replaced
    <2>3. OwnOutput(place)' =
            LET own == {k \in DOMAIN parts : parts[k].tag = "output"}
            IN IF own = {} THEN None ELSE parts[Max(own)].text
      BY <2>1 DEF OwnOutput
    <2>4. QED
      BY <1>5, <2>2, <2>3 DEF OwnOf, Outputs
  <1>14. case.out = OutputFrom(place, Len(stack))'
    <2>1. {j \in Around(place)' : Depth(j)' >= Len(stack) /\ OutputOf(j)' # None} = {}
      BY <1>11, <1>12
    <2>2. OutputFrom(place, Len(stack))' =
            IF OwnOutput(place)' # None THEN OwnOutput(place)' ELSE None
      BY <2>1 DEF OutputFrom
    <2>3. QED
      BY <1>13, <2>2
  <1>15. Heard(after)'
    <2>1. ASSUME NEW l \in 1 .. Len(stack), NEW m \in DOMAIN after[l].cases
          PROVE  /\ after[l].cases[m].at \in 1 .. Len(document')
                 /\ after[l].cases[m].out = OutputFrom(after[l].cases[m].at, l)'
                 /\ \A j \in Open' : Depth(j)' < l => j \in Around(after[l].cases[m].at)'
      <3>1. CASE m \in DOMAIN stack[l].cases /\ after[l].cases[m] = stack[l].cases[m]
        BY <1>8, <3>1 DEF Heard
      <3>2. CASE l = Len(stack) /\ after[l].cases[m] = case
        <4>1. after[l].cases[m].at = place /\ after[l].cases[m].out = case.out
          BY <1>5, <3>2
        <4>2. QED
          BY <1>6, <1>11, <1>14, <3>2, <4>1
      <3>3. QED
        BY <1>4, <3>1, <3>2
    <2>2. QED
      BY <1>4, <2>1 DEF Heard
  <1>16. Over(after)'
    <2>1. ASSUME NEW l \in 1 .. Len(stack), NEW m \in DOMAIN after[l].cases
          PROVE  \A j \in Around(after[l].cases[m].at)' : Depth(j)' >= l => j \notin Open'
      <3>1. CASE m \in DOMAIN stack[l].cases /\ after[l].cases[m] = stack[l].cases[m]
        BY <1>8, <3>1 DEF Over
      <3>2. CASE l = Len(stack) /\ after[l].cases[m] = case
        <4>1. after[l].cases[m].at = place
          BY <1>5, <3>2
        <4>2. QED
          BY <1>6, <1>11, <1>12, <3>2, <4>1
      <3>3. QED
        BY <1>4, <3>1, <3>2
    <2>2. QED
      BY <1>4, <2>1 DEF Over
  <1>17. Opened(after)'
    <2>1. \A d \in 1 .. Len(stack) - 1 : d + 1 \in 1 .. Len(stack)
      BY <1>4
    <2>2. QED
      BY <1>4, <1>9, <2>1 DEF Opened
  <1>18. Depth(Len(document))' = Len(levels') - 1
    BY <1>1, <1>4, <1>6, <1>7
  <1>19. Heard(levels)' /\ Over(levels)' /\ Opened(levels)'
    BY <1>1, <1>15, <1>16, <1>17 DEF Heard, Over, Opened
  <1>20. QED
    BY <1>10, <1>18, <1>19 DEF Reads

\* What is known of the document and of what was read of it.
NestingInv ==
    /\ ScopesInv /\ Balanced /\ Heard(levels)
    /\ status = "reading" => Reads

\* It stays known of a document that stays.
LEMMA DocumentStays ==
    ASSUME document' = document, NEW stack
    PROVE  /\ Balanced' <=> Balanced
           /\ Heard(stack)' <=> Heard(stack)
           /\ Over(stack)' <=> Over(stack)
           /\ Opened(stack)' <=> Opened(stack)
           /\ Depth(Len(document))' = Depth(Len(document))
  <1>1. \A k, kind : Before(k, kind)' = Before(k, kind)
    BY DEF Before
  <1>2. \A k : Depth(k)' = Depth(k)
    BY <1>1 DEF Depth
  <1>3. \A i : Around(i)' = Around(i)
    BY <1>1, <1>2 DEF Around
  <1>4. \A i : OwnOutput(i)' = OwnOutput(i)
    BY DEF OwnOutput
  <1>5. PICK n : n = Len(document) /\ n = Len(document')
    OBVIOUS
  <1>6. \A j : Captured(j)' = Captured(j)
    BY <1>1, <1>2, <1>3, <1>5 DEF Captured
  <1>7. \A j : OutputOf(j)' = OutputOf(j)
    BY <1>6 DEF OutputOf, Captured
  <1>8. \A i, d : OutputFrom(i, d)' = OutputFrom(i, d)
    BY <1>2, <1>3, <1>4, <1>7 DEF OutputFrom
  <1>9. Open' = Open
    <2>1. Open = Around(n + 1) /\ Open' = Around(n + 1)'
      BY <1>5 DEF Open
    <2>2. QED
      BY <1>3, <2>1
  <1>10. Balanced' <=> Balanced
    BY <1>2 DEF Balanced
  <1>11. Heard(stack)' <=> Heard(stack)
    BY <1>2, <1>3, <1>8, <1>9 DEF Heard
  <1>12. Over(stack)' <=> Over(stack)
    BY <1>2, <1>3, <1>9 DEF Over
  <1>13. Opened(stack)' <=> Opened(stack)
    BY <1>2, <1>7, <1>9 DEF Opened
  <1>14. Depth(Len(document))' = Depth(Len(document))
    BY <1>2, <1>5
  <1>15. QED
    BY <1>10, <1>11, <1>12, <1>13, <1>14

\* The elements of the document, and the end of a case.
LEMMA ElementsNest ==
    ASSUME NestingInv, StartSuite \/ EndSuite \/ Output \/ EndCase
    PROVE  NestingInv'
  <1>1. ScopesInv /\ Balanced /\ Heard(levels) /\ status = "reading"
    BY DEF NestingInv, StartSuite, EndSuite, Output, EndCase, Reading
  <1>2. Reads
    BY <1>1 DEF NestingInv
  <1>3. ScopesInv'
    BY <1>1, SuitesKeep, CasesKeep
  <1>4. Balanced' /\ Heard(levels)' /\ Reads'
    BY <1>1, <1>2, StartSuiteNests, EndSuiteNests, OutputNests, EndCaseNests
  <1>5. QED
    BY <1>3, <1>4 DEF NestingInv

\* What a case begins with, and output in it, change no scope.
LEMMA WithinCaseNests ==
    ASSUME NestingInv, StartCase \/ Child \/ UNCHANGED vars
    PROVE  NestingInv'
  <1>1. ScopesInv'
    BY CasesKeep, EndsKeep DEF NestingInv
  <1>2. document' = document /\ status' = status
    BY DEF StartCase, Child, vars
  <1>3. levels' = levels
    <2>1. CASE Child
      <3>1. PICK child \in Children :
              levels' = IF child.tag = "output" THEN AfterOutput(child.text) ELSE levels
        BY <2>1 DEF Child
      <3>2. inCase
        BY <2>1 DEF Child
      <3>3. QED
        BY <3>1, <3>2 DEF AfterOutput
    <2>2. CASE StartCase \/ UNCHANGED vars
      BY <2>2 DEF StartCase, vars
    <2>3. QED
      BY <2>1, <2>2
  <1>4. PICK stack : stack = levels /\ stack = levels'
    BY <1>3
  <1>5. Balanced' /\ Heard(levels)'
    <2>1. Balanced /\ Heard(stack)
      BY <1>4 DEF NestingInv
    <2>2. Balanced' /\ Heard(stack)'
      BY <1>2, <2>1, DocumentStays
    <2>3. QED
      BY <1>4, <2>2 DEF Heard
  <1>6. ASSUME status' = "reading"
        PROVE  Reads'
    <2>1. Opened(stack) /\ Over(stack) /\ Depth(Len(document)) = Len(stack) - 1
      BY <1>2, <1>4, <1>6 DEF NestingInv, Reads
    <2>2. Opened(stack)' /\ Over(stack)' /\ Depth(Len(document))' = Len(stack) - 1
      BY <1>2, <2>1, DocumentStays
    <2>3. QED
      BY <1>4, <2>2 DEF Reads, Opened, Over
  <1>7. QED
    BY <1>1, <1>5, <1>6 DEF NestingInv

\* However the parse ends, the suites that were open give their output.
LEMMA EndsNest ==
    ASSUME NestingInv, EndDocument \/ ParseError \/ Reject
    PROVE  NestingInv'
  <1>1. ScopesInv' /\ IsList(document) /\ Stacked(levels) /\ Balanced /\ Heard(levels)
    BY EndsKeep DEF NestingInv, ScopesInv
  <1>2. document' = document /\ status = "reading" /\ status' # "reading"
    BY DEF EndDocument, ParseError, Reject
  <1>3. Opened(levels)
    BY <1>2 DEF NestingInv, Reads
  <1>4. PICK after : after = levels' /\ after \in {levels, Drained(levels)}
    BY DEF EndDocument, ParseError, Reject
  <1>5. Heard(after)
    BY <1>1, <1>3, <1>4, DrainedKeeps
  <1>6. Balanced' /\ Heard(after)'
    BY <1>1, <1>2, <1>5, DocumentStays
  <1>7. Heard(levels)'
    BY <1>4, <1>6 DEF Heard
  <1>8. QED
    BY <1>1, <1>2, <1>6, <1>7 DEF NestingInv

\* No suite is open before the first.
LEMMA NestingInvAtFirst == Init => NestingInv
  <1> SUFFICES ASSUME Init PROVE NestingInv
    OBVIOUS
  <1>1. ScopesInv
    BY ScopesInvAtFirst
  <1>2. levels = <<Level>> /\ document = <<>> /\ Level.cases = <<>>
    BY DEF Init, Level
  <1>3. /\ Len(levels) = 1 /\ levels[1].cases = <<>> /\ DOMAIN levels[1].cases = {}
        /\ Len(document) = 0
    <2> HIDE DEF Level
    <2>1. QED
      BY <1>2
  <1>4. Depth(0) = 0
    BY DepthNext DEF CountedTo
  <1>5. Balanced
    <2>1. \A k \in 0 .. 0 : k = 0
      OBVIOUS
    <2>2. QED
      BY <1>3, <1>4, <2>1 DEF Balanced
  <1>6. \A l \in 1 .. 1 : l = 1
    OBVIOUS
  <1>7. Heard(levels) /\ Over(levels)
    BY <1>3, <1>6 DEF Heard, Over
  <1>8. Opened(levels)
    <2>1. 1 .. 1 - 1 = {}
      OBVIOUS
    <2>2. QED
      BY <1>3, <2>1 DEF Opened
  <1>9. QED
    BY <1>1, <1>3, <1>4, <1>5, <1>7, <1>8 DEF NestingInv, Reads

\* All suites around a case are within the list of cases.
LEMMA NestingInvSuffices == NestingInv => OutputIsNearest
  <1> SUFFICES ASSUME NestingInv, NEW n \in DOMAIN Cases, NEW i, i = Cases[n].at
               PROVE  Cases[n].out =
                        LET speaking == {j \in Around(i) : OutputOf(j) # None}
                        IN IF OwnOutput(i) # None THEN OwnOutput(i)
                           ELSE IF speaking = {} THEN None ELSE OutputOf(Max(speaking))
    BY DEF OutputIsNearest
  <1>1. 1 \in 1 .. Len(levels)
    <2>1. IsList(levels) /\ Len(levels) > 0
      BY DEF NestingInv, ScopesInv, Stacked
    <2>2. Len(levels) \in Nat
      BY <2>1, Replaced
    <2>3. QED
      BY <2>1, <2>2
  <1>2. i \in 1 .. Len(document) /\ Cases[n].out = OutputFrom(i, 1)
    BY <1>1 DEF NestingInv, Heard, Cases
  <1>3. ASSUME NEW j \in Around(i)
        PROVE  Depth(j) >= 1
    <2>1. Len(document) \in Nat
      BY Replaced DEF NestingInv, ScopesInv
    <2>2. i \in Nat \ {0}
      BY <1>2
    <2>3. j \in 1 .. i - 1 /\ Depth(j) = Depth(j - 1) + 1 /\ Depth(j) \in Int
      BY <2>2, AroundIs
    <2>4. j - 1 \in 0 .. Len(document)
      BY <1>2, <2>1, <2>3
    <2>5. Depth(j - 1) >= 0
      BY <2>4 DEF NestingInv, Balanced
    <2>6. Depth(j - 1) \in Int
      BY <2>4, DepthNext DEF CountedTo
    <2>7. QED
      BY <2>3, <2>5, <2>6
  <1>4. {j \in Around(i) : Depth(j) >= 1 /\ OutputOf(j) # None}
           = {j \in Around(i) : OutputOf(j) # None}
    BY <1>3
  <1>5. QED
    BY <1>2, <1>4 DEF OutputFrom

(***************************************************************************)
(* Wherever a JUnit file of any nesting is cut, a case without output of   *)
(* its own has that of the nearest suite around it that captured any, also *)
(* when that was declared after it (_with_suite_output).                   *)
(***************************************************************************)
THEOREM OutputIsAlwaysNearest == Spec => []OutputIsNearest
  <1>1. ASSUME NestingInv, [Next]_vars
        PROVE  NestingInv'
    BY <1>1, ElementsNest, WithinCaseNests, EndsNest DEF Next
  <1>2. QED
    BY <1>1, NestingInvAtFirst, NestingInvSuffices, PTL DEF Spec

-----------------------------------------------------------------------------
(* Ranges of lines.                                                        *)

RangeRecords == [start : Nat, end : Nat]

\* Ranges in order, with at least some lines between any two.
Apart(ranges, gap) ==
    /\ ranges \in Seq(RangeRecords)
    /\ \A i \in 1 .. Len(ranges) : ranges[i].start <= ranges[i].end
    /\ \A i, j \in 1 .. Len(ranges) : i < j => ranges[i].end + gap < ranges[j].start

\* The lines in them.
LinesOf(ranges) == UNION {ranges[i].start .. ranges[i].end : i \in 1 .. Len(ranges)}

\* The ends of ranges are line numbers.
LEMMA EndsAreLines ==
    ASSUME NEW ranges \in Seq(RangeRecords)
    PROVE  /\ Len(ranges) \in Nat /\ DOMAIN ranges = 1 .. Len(ranges)
           /\ \A i \in 1 .. Len(ranges) :
                /\ ranges[i] \in RangeRecords /\ ranges[i].start \in Nat /\ ranges[i].end \in Nat
                /\ ranges[i] = LineRange(ranges[i].start, ranges[i].end)
  <1>1. Len(ranges) \in Nat /\ DOMAIN ranges = 1 .. Len(ranges)
    BY LenProperties
  <1>2. ASSUME NEW i \in 1 .. Len(ranges)
        PROVE  /\ ranges[i] \in RangeRecords /\ ranges[i].start \in Nat /\ ranges[i].end \in Nat
               /\ ranges[i] = LineRange(ranges[i].start, ranges[i].end)
    <2>1. ranges[i] \in RangeRecords
      BY <1>1, ElementOfSeq
    <2>2. QED
      BY <2>1 DEF RangeRecords, LineRange
  <1>3. QED
    BY <1>1, <1>2

\* Ranges that are in order stay as they are when they are sorted.
LEMMA SortedAlready ==
    ASSUME NEW ranges \in Seq(RangeRecords),
           \A i, j \in 1 .. Len(ranges) : i < j => ranges[i].start < ranges[j].start
    PROVE  SortedRanges(ranges) = ranges
  <1> DEFINE n == Len(ranges)
  <1>1. /\ n \in Nat /\ DOMAIN ranges = 1 .. n /\ ranges = [i \in 1 .. n |-> ranges[i]]
        /\ \A i \in 1 .. n : ranges[i].start \in Nat /\ ranges[i].end \in Nat
    BY EndsAreLines, LenProperties
  <1>2. ASSUME NEW i \in 1 .. n
        PROVE  RangePlace(ranges, i) = i
    <2> DEFINE ahead == {j \in 1 .. n : \/ StartsFirst(ranges[j], ranges[i])
                                        \/ ranges[j] = ranges[i] /\ j < i}
    <2>1. ASSUME NEW j \in 1 .. n
          PROVE  j \in ahead <=> j < i
      <3>1. /\ ranges[i].start \in Nat /\ ranges[i].end \in Nat
            /\ ranges[j].start \in Nat /\ ranges[j].end \in Nat /\ i \in Nat /\ j \in Nat
        BY <1>1
      <3>2. CASE j < i
        BY <3>1, <3>2 DEF StartsFirst
      <3>3. CASE j = i
        BY <3>1, <3>3 DEF StartsFirst
      <3>4. CASE i < j
        <4>1. ranges[i].start < ranges[j].start
          BY <3>4
        <4>2. ~StartsFirst(ranges[j], ranges[i])
          BY <3>1, <4>1 DEF StartsFirst
        <4>3. QED
          BY <3>1, <3>4, <4>2
      <3>5. QED
        BY <3>1, <3>2, <3>3, <3>4
    <2>2. ahead = 1 .. i - 1
      <3>1. ahead \subseteq 1 .. n /\ 1 .. i - 1 \subseteq 1 .. n
        BY <1>1
      <3>2. \A j \in 1 .. n : j < i <=> j \in 1 .. i - 1
        BY <1>1
      <3> HIDE DEF ahead, n
      <3>3. QED
        BY <2>1, <3>1, <3>2
    <2>3. Cardinality(1 .. i - 1) = i - 1
      <3>1. 1 \in Int /\ i - 1 \in Int /\ i \in Nat
        BY <1>1
      <3>2. Cardinality(1 .. i - 1) = IF 1 > i - 1 THEN 0 ELSE i - 1 - 1 + 1
        BY <3>1, FS_Interval
      <3>3. QED
        BY <3>1, <3>2
    <2>4. RangePlace(ranges, i) = 1 + Cardinality(ahead)
      BY <1>1 DEF RangePlace
    <2>5. 1 + (i - 1) = i
      BY <1>1
    <2>6. QED
      BY <2>2, <2>3, <2>4, <2>5
  <1>3. \A k \in 1 .. n : (CHOOSE i \in 1 .. n : RangePlace(ranges, i) = k) = k
    BY <1>2
  <1>4. SortedRanges(ranges) = [k \in 1 .. n |-> ranges[k]]
    BY <1>1, <1>3 DEF SortedRanges
  <1>5. QED
    BY <1>1, <1>4

\* No range reaches the lines around another, so each is a longest run.
LEMMA ApartLists ==
    ASSUME NEW ranges, Apart(ranges, 1)
    PROVE  Lists(ranges, LinesOf(ranges))
  <1> DEFINE n == Len(ranges)
             lines == LinesOf(ranges)
  <1>1. /\ n \in Nat /\ DOMAIN ranges = 1 .. n
        /\ \A i \in 1 .. n : /\ ranges[i].start \in Nat /\ ranges[i].end \in Nat
                             /\ ranges[i].start <= ranges[i].end
                             /\ ranges[i] = LineRange(ranges[i].start, ranges[i].end)
        /\ \A i, j \in 1 .. n : i < j => ranges[i].end + 1 < ranges[j].start
    BY EndsAreLines DEF Apart
  <1>2. \A m : m \in lines <=> \E i \in 1 .. n : m \in ranges[i].start .. ranges[i].end
    BY DEF LinesOf
  <1>3. lines \subseteq Nat
    BY <1>1, <1>2
  <1> HIDE DEF lines
  <1>4. ASSUME NEW i \in 1 .. n
        PROVE  /\ ranges[i].start .. ranges[i].end \subseteq lines
               /\ ranges[i].start \in lines /\ ranges[i].end \in lines
               /\ ranges[i].start - 1 \notin lines /\ ranges[i].end + 1 \notin lines
    <2>1. ranges[i].start .. ranges[i].end \subseteq lines
      BY <1>2
    <2>2. /\ ranges[i].start \in ranges[i].start .. ranges[i].end
          /\ ranges[i].end \in ranges[i].start .. ranges[i].end
      BY <1>1
    <2>3. ASSUME NEW j \in 1 .. n
          PROVE  /\ ranges[i].start - 1 \notin ranges[j].start .. ranges[j].end
                 /\ ranges[i].end + 1 \notin ranges[j].start .. ranges[j].end
      <3>1. i < j \/ i = j \/ j < i
        BY <1>1
      <3>2. QED
        BY <1>1, <3>1
    <2>4. QED
      BY <1>2, <2>1, <2>2, <2>3
  <1>5. \A i \in 1 .. n : ranges[i] \in Runs(lines)
    <2> SUFFICES ASSUME NEW i \in 1 .. n
                 PROVE  ranges[i] \in Runs(lines)
      OBVIOUS
    <2>1. ranges[i] \in {LineRange(a, b) : a, b \in lines}
      BY <1>1, <1>4
    <2>2. QED
      BY <1>1, <1>4, <2>1 DEF Runs
  <1>6. ASSUME NEW r \in Runs(lines)
        PROVE  \E i \in 1 .. n : ranges[i] = r
    <2>1. PICK a \in lines, b \in lines : r = LineRange(a, b)
      BY DEF Runs
    <2>2. /\ r.start = a /\ r.end = b /\ a \in Nat /\ b \in Nat
          /\ a .. b \subseteq lines /\ a <= b /\ a - 1 \notin lines /\ b + 1 \notin lines
      BY <1>3, <2>1 DEF Runs, LineRange
    <2>3. PICK i \in 1 .. n : a \in ranges[i].start .. ranges[i].end
      BY <1>2, <2>1
    <2> DEFINE s == ranges[i].start
               e == ranges[i].end
    <2>4. s \in Nat /\ e \in Nat /\ s <= a /\ a <= e
      BY <1>1, <2>2, <2>3
    <2>5. s .. e \subseteq lines /\ e + 1 \notin lines
      BY <1>4
    <2> HIDE DEF s, e
    <2>6. s = a
      <3>1. CASE s <= a - 1
        <4>1. a - 1 \in s .. e
          BY <2>2, <2>4, <3>1
        <4>2. QED
          BY <2>2, <2>5, <4>1
      <3>2. QED
        BY <2>2, <2>4, <3>1
    <2>7. e = b
      <3>1. CASE b + 1 <= e
        <4>1. b + 1 \in s .. e
          BY <2>2, <2>4, <3>1
        <4>2. QED
          BY <2>2, <2>5, <4>1
      <3>2. CASE e + 1 <= b
        <4>1. e + 1 \in a .. b
          BY <2>2, <2>4, <3>2
        <4>2. QED
          BY <2>2, <2>5, <4>1
      <3>3. QED
        BY <2>2, <2>4, <3>1, <3>2
    <2>8. QED
      BY <1>1, <2>1, <2>6, <2>7 DEF s, e
  <1>7. ToSet(ranges) = Runs(lines)
    <2>1. ToSet(ranges) = {ranges[i] : i \in 1 .. n}
      BY <1>1 DEF ToSet
    <2>2. QED
      BY <1>5, <1>6, <2>1
  <1>8. \A i \in 1 .. n - 1 : ranges[i].end < ranges[i + 1].start
    <2> SUFFICES ASSUME NEW i \in 1 .. n - 1
                 PROVE  ranges[i].end < ranges[i + 1].start
      OBVIOUS
    <2>1. i \in 1 .. n /\ i + 1 \in 1 .. n /\ i < i + 1
      BY <1>1
    <2>2. ranges[i].end + 1 < ranges[i + 1].start /\ ranges[i].end \in Nat
          /\ ranges[i + 1].start \in Nat
      BY <1>1, <2>1
    <2>3. QED
      BY <2>2
  <1>9. QED
    BY <1>7, <1>8 DEF Lists, lines, n

\* A range joins the last of the ranges before it, or is added behind them,
\* when runs are found and when ranges are merged.
Join(merging, ranges, r) == IF merging THEN AddRange(ranges, r) ELSE AddLine(ranges, r)

\* A range behind others is joined without losing a line, and the ranges lie
\* apart as before.
LEMMA RangeJoins ==
    ASSUME NEW merging, NEW ranges, Apart(ranges, 1),
           NEW r \in RangeRecords, r.start <= r.end,
           \A i \in 1 .. Len(ranges) : ranges[i].end < r.start
    PROVE  /\ Apart(Join(merging, ranges, r), 1)
           /\ LinesOf(Join(merging, ranges, r)) = LinesOf(ranges) \cup r.start .. r.end
           /\ \A i \in 1 .. Len(Join(merging, ranges, r)) : Join(merging, ranges, r)[i].end <= r.end
  <1> DEFINE n == Len(ranges)
             all == Join(merging, ranges, r)
  <1>1. /\ ranges \in Seq(RangeRecords) /\ n \in Nat /\ DOMAIN ranges = 1 .. n
        /\ \A i \in 1 .. n : /\ ranges[i] \in RangeRecords
                             /\ ranges[i].start \in Nat /\ ranges[i].end \in Nat
                             /\ ranges[i].start <= ranges[i].end
        /\ \A i, j \in 1 .. n : i < j => ranges[i].end + 1 < ranges[j].start
    BY EndsAreLines DEF Apart
  <1>2. r.start \in Nat /\ r.end \in Nat
    BY DEF RangeRecords
  <1>3. n > 0 <=> ranges # <<>>
    BY <1>1, EmptySeq
  <1> DEFINE last == [ranges[n] EXCEPT !.end = r.end]
  <1> HIDE DEF n
  <1>4. CASE n > 0 /\ r.start = ranges[n].end + 1
    <2>1. /\ n \in 1 .. n /\ Last(ranges) = ranges[n] /\ ranges[n].end < r.end
          /\ r.start <= ranges[n].end + 1
      BY <1>1, <1>2, <1>4 DEF Last, n
    <2>2. all = [ranges EXCEPT ![n] = last]
      <3>1. AddLine(ranges, r) = [ranges EXCEPT ![n].end = r.end]
        BY <1>3, <1>4, <2>1 DEF AddLine, n
      <3>2. AddRange(ranges, r) = [ranges EXCEPT ![n].end = r.end]
        BY <1>3, <1>4, <2>1 DEF AddRange, n
      <3>3. QED
        BY <3>1, <3>2 DEF Join
    <2>3. last \in RangeRecords /\ last.start = ranges[n].start /\ last.end = r.end
      BY <1>1, <1>2, <2>1 DEF RangeRecords
    <2> HIDE DEF last, all
    <2>4. /\ all \in Seq(RangeRecords) /\ Len(all) = n /\ all[n] = last
          /\ \A i \in 1 .. n : i # n => all[i] = ranges[i]
      BY <1>1, <2>1, <2>2, <2>3, ExceptSeq DEF n
    <2>5. \A i \in 1 .. n : /\ all[i].start = ranges[i].start
                            /\ all[i].end = IF i = n THEN r.end ELSE ranges[i].end
      BY <2>3, <2>4
    <2>6. ASSUME NEW i \in 1 .. n, NEW j \in 1 .. n, i < j
          PROVE  all[i].end + 1 < all[j].start
      <3>1. i # n
        BY <1>1, <2>6
      <3>2. QED
        BY <1>1, <2>5, <2>6, <3>1
    <2>7. \A i \in 1 .. n : all[i].start <= all[i].end
      <3>1. \A i \in 1 .. n : i # n => all[i].start <= all[i].end
        BY <1>1, <2>5
      <3>2. ranges[n].start <= ranges[n].end /\ ranges[n].start \in Nat /\ ranges[n].end \in Nat
        BY <1>1, <2>1
      <3>3. ranges[n].start <= r.end
        BY <1>2, <2>1, <3>2
      <3>4. QED
        BY <2>5, <3>1, <3>3
    <2>8. Apart(all, 1)
      BY <2>4, <2>6, <2>7 DEF Apart
    <2>9. \A i \in 1 .. n : all[i].end <= r.end
      <3>1. \A i \in 1 .. n : ranges[i].end <= r.end
        <4>1. \A i \in 1 .. n : ranges[i].end < r.start
          BY DEF n
        <4>2. QED
          BY <1>1, <1>2, <4>1
      <3>2. r.end <= r.end
        BY <1>2
      <3>3. QED
        BY <2>5, <3>1, <3>2
    <2>10. LinesOf(all) = LinesOf(ranges) \cup r.start .. r.end
      <3>1. all[n].start .. all[n].end = ranges[n].start .. ranges[n].end \cup r.start .. r.end
        <4>1. /\ ranges[n].start \in Nat /\ ranges[n].end \in Nat
              /\ ranges[n].start <= ranges[n].end
          BY <1>1, <2>1
        <4>2. ranges[n].start .. r.end =
                ranges[n].start .. ranges[n].end \cup (ranges[n].end + 1) .. r.end
          BY <1>2, <2>1, <4>1
        <4>3. QED
          BY <1>4, <2>1, <2>5, <4>2
      <3>2. \A i \in 1 .. n : i # n => all[i].start .. all[i].end = ranges[i].start .. ranges[i].end
        BY <2>5
      <3>3. \A m : m \in LinesOf(all) <=> \E i \in 1 .. n : m \in all[i].start .. all[i].end
        BY <2>4 DEF LinesOf
      <3>4. \A m : m \in LinesOf(ranges) <=>
                     \E i \in 1 .. n : m \in ranges[i].start .. ranges[i].end
        BY DEF LinesOf, n
      <3>5. ASSUME NEW m
            PROVE  m \in LinesOf(all) <=> m \in LinesOf(ranges) \cup r.start .. r.end
        <4>1. CASE m \in LinesOf(all)
          <5>1. PICK i \in 1 .. n : m \in all[i].start .. all[i].end
            BY <3>3, <4>1
          <5>2. CASE i = n
            BY <2>1, <3>1, <3>4, <4>1, <5>1, <5>2
          <5>3. CASE i # n
            BY <3>2, <3>4, <4>1, <5>1, <5>3
          <5>4. QED
            BY <5>2, <5>3
        <4>2. CASE m \in LinesOf(ranges)
          <5>1. PICK i \in 1 .. n : m \in ranges[i].start .. ranges[i].end
            BY <3>4, <4>2
          <5>2. QED
            BY <3>1, <3>2, <3>3, <5>1, <4>2
        <4>3. CASE m \in r.start .. r.end
          BY <2>1, <3>1, <3>3, <4>3
        <4>4. QED
          BY <4>1, <4>2, <4>3
      <3>6. QED
        BY <3>5
    <2>11. QED
      BY <2>4, <2>8, <2>9, <2>10 DEF all
  <1>5. CASE ~(n > 0 /\ r.start = ranges[n].end + 1)
    <2>1. n > 0 => /\ Last(ranges) = ranges[n] /\ ranges[n].end + 1 < r.start
                   /\ ranges[n].end \in Nat
      <3>1. n > 0 => n \in 1 .. n
        BY <1>1
      <3>2. QED
        BY <1>1, <1>2, <1>5, <3>1 DEF Last, n
    <2>2. all = Append(ranges, r)
      <3>1. AddLine(ranges, r) = Append(ranges, r)
        BY <1>1, <1>3, <1>5, <2>1 DEF AddLine
      <3>2. ~(n > 0 /\ r.start <= Last(ranges).end + 1)
        BY <1>2, <2>1
      <3>3. AddRange(ranges, r) = Append(ranges, r)
        BY <1>1, <1>3, <3>2 DEF AddRange
      <3>4. QED
        BY <3>1, <3>3 DEF Join
    <2> HIDE DEF all
    <2>3. /\ all \in Seq(RangeRecords) /\ Len(all) = n + 1 /\ all[n + 1] = r
          /\ \A i \in 1 .. n : all[i] = ranges[i]
      BY <1>1, <2>2, AppendProperties DEF n
    <2>4. \A i \in 1 .. n + 1 : i \in 1 .. n \/ i = n + 1
      BY <1>1
    <2>5. ASSUME NEW i \in 1 .. n
          PROVE  ranges[i].end + 1 < r.start
      <3>1. n > 0 /\ n \in 1 .. n /\ (i < n \/ i = n)
        BY <1>1
      <3>2. i < n => ranges[i].end + 1 < ranges[n].start /\ ranges[n].start <= ranges[n].end
        BY <1>1, <3>1
      <3>3. QED
        BY <1>1, <1>2, <2>1, <3>1, <3>2
    <2>6. ASSUME NEW i \in 1 .. n + 1, NEW j \in 1 .. n + 1, i < j
          PROVE  all[i].end + 1 < all[j].start
      <3>1. i \in 1 .. n
        BY <1>1, <2>6
      <3>2. j \in 1 .. n => all[i].end + 1 < all[j].start
        BY <1>1, <2>3, <2>6, <3>1
      <3>3. QED
        BY <2>3, <2>4, <2>5, <3>1, <3>2
    <2>7. \A i \in 1 .. n + 1 : all[i].start <= all[i].end
      BY <1>1, <2>3, <2>4
    <2>8. Apart(all, 1)
      BY <2>3, <2>6, <2>7 DEF Apart
    <2>9. \A i \in 1 .. n + 1 : all[i].end <= r.end
      <3>1. \A i \in 1 .. n : ranges[i].end <= r.end
        BY <1>1, <1>2, <2>5
      <3>2. r.end <= r.end
        BY <1>2
      <3>3. QED
        BY <2>3, <2>4, <3>1, <3>2
    <2>10. LinesOf(all) = LinesOf(ranges) \cup r.start .. r.end
      <3>1. n + 1 \in 1 .. n + 1 /\ \A i \in 1 .. n : i \in 1 .. n + 1
        BY <1>1
      <3>2. \A m : m \in LinesOf(all) <=> \E i \in 1 .. n + 1 : m \in all[i].start .. all[i].end
        BY <2>3 DEF LinesOf
      <3>3. \A m : m \in LinesOf(ranges) <=>
                     \E i \in 1 .. n : m \in ranges[i].start .. ranges[i].end
        BY DEF LinesOf, n
      <3>4. \A m : m \in LinesOf(all) <=> m \in LinesOf(ranges) \/ m \in r.start .. r.end
        BY <2>3, <2>4, <3>1, <3>2, <3>3
      <3>5. QED
        BY <3>4
    <2>11. QED
      BY <2>3, <2>8, <2>9, <2>10 DEF all
  <1>6. QED
    BY <1>4, <1>5

\* Ranges behind others follow them in one list.
LEMMA RangesFollow ==
    ASSUME NEW former, Apart(former, 0), NEW later, Apart(later, 0),
           \A m \in LinesOf(former), k \in LinesOf(later) : m < k
    PROVE  /\ Apart(former \o later, 0)
           /\ LinesOf(former \o later) = LinesOf(former) \cup LinesOf(later)
  <1> DEFINE a == Len(former)
             b == Len(later)
             all == former \o later
  <1>1. /\ former \in Seq(RangeRecords) /\ later \in Seq(RangeRecords)
        /\ a \in Nat /\ b \in Nat
        /\ \A i \in 1 .. a : /\ former[i].start \in Nat /\ former[i].end \in Nat
                             /\ former[i].start <= former[i].end
        /\ \A i \in 1 .. b : /\ later[i].start \in Nat /\ later[i].end \in Nat
                             /\ later[i].start <= later[i].end
        /\ \A i, j \in 1 .. a : i < j => former[i].end + 0 < former[j].start
        /\ \A i, j \in 1 .. b : i < j => later[i].end + 0 < later[j].start
    BY EndsAreLines DEF Apart
  <1>2. /\ all \in Seq(RangeRecords) /\ Len(all) = a + b
        /\ \A i \in 1 .. a + b : all[i] = IF i <= a THEN former[i] ELSE later[i - a]
    BY <1>1, ConcatProperties
  <1>3. /\ \A m : m \in LinesOf(former) <=> \E i \in 1 .. a : m \in former[i].start .. former[i].end
        /\ \A m : m \in LinesOf(later) <=> \E i \in 1 .. b : m \in later[i].start .. later[i].end
        /\ \A m : m \in LinesOf(all) <=> \E i \in 1 .. a + b : m \in all[i].start .. all[i].end
    BY <1>2 DEF LinesOf
  <1> HIDE DEF all
  <1>4. /\ \A i \in 1 .. a : i \in 1 .. a + b /\ all[i] = former[i]
        /\ \A i \in 1 .. b : a + i \in 1 .. a + b /\ all[a + i] = later[i]
        /\ \A i \in 1 .. a + b : i \in 1 .. a \/ (i - a \in 1 .. b /\ all[i] = later[i - a])
    <2>1. \A i \in 1 .. a : i \in 1 .. a + b /\ i <= a
      BY <1>1
    <2>2. \A i \in 1 .. b : a + i \in 1 .. a + b /\ ~(a + i <= a) /\ a + i - a = i
      BY <1>1
    <2>3. \A i \in 1 .. a + b : i \in 1 .. a \/ (i - a \in 1 .. b /\ ~(i <= a))
      BY <1>1
    <2>4. QED
      BY <1>2, <2>1, <2>2, <2>3
  <1>5. \A i \in 1 .. a, j \in 1 .. b : former[i].end < later[j].start
    <2> SUFFICES ASSUME NEW i \in 1 .. a, NEW j \in 1 .. b
                 PROVE  former[i].end < later[j].start
      OBVIOUS
    <2>1. /\ former[i].end \in former[i].start .. former[i].end
          /\ later[j].start \in later[j].start .. later[j].end
      BY <1>1
    <2>2. QED
      BY <1>3, <2>1
  <1>6. ASSUME NEW i \in 1 .. a + b, NEW j \in 1 .. a + b, i < j
        PROVE  all[i].end + 0 < all[j].start
    <2>1. CASE j \in 1 .. a
      <3>1. i \in 1 .. a
        BY <1>1, <1>6, <2>1
      <3>2. QED
        BY <1>1, <1>4, <1>6, <2>1, <3>1
    <2>2. CASE j \notin 1 .. a /\ i \in 1 .. a
      <3>1. j - a \in 1 .. b /\ all[j] = later[j - a] /\ all[i] = former[i]
        BY <1>4, <2>2
      <3>2. former[i].end < later[j - a].start /\ former[i].end \in Nat
        BY <1>1, <1>5, <2>2, <3>1
      <3>3. QED
        BY <3>1, <3>2
    <2>3. CASE j \notin 1 .. a /\ i \notin 1 .. a
      <3>1. /\ j - a \in 1 .. b /\ all[j] = later[j - a]
            /\ i - a \in 1 .. b /\ all[i] = later[i - a]
        BY <1>4, <2>3
      <3>2. i - a < j - a
        BY <1>1, <1>6
      <3>3. QED
        BY <1>1, <3>1, <3>2
    <2>4. QED
      BY <2>1, <2>2, <2>3
  <1>7. \A i \in 1 .. a + b : all[i].start <= all[i].end
    BY <1>1, <1>4
  <1>8. Apart(all, 0)
    BY <1>2, <1>6, <1>7 DEF Apart
  <1>9. \A m : m \in LinesOf(all) <=> m \in LinesOf(former) \/ m \in LinesOf(later)
    <2> SUFFICES ASSUME NEW m
                 PROVE  m \in LinesOf(all) <=> m \in LinesOf(former) \/ m \in LinesOf(later)
      OBVIOUS
    <2>1. ASSUME m \in LinesOf(all)
          PROVE  m \in LinesOf(former) \/ m \in LinesOf(later)
      <3>1. PICK i \in 1 .. a + b : m \in all[i].start .. all[i].end
        BY <1>3, <2>1
      <3>2. CASE i \in 1 .. a
        BY <1>3, <1>4, <3>1, <3>2
      <3>3. CASE i - a \in 1 .. b /\ all[i] = later[i - a]
        BY <1>3, <3>1, <3>3
      <3>4. QED
        BY <1>4, <3>2, <3>3
    <2>2. ASSUME m \in LinesOf(former)
          PROVE  m \in LinesOf(all)
      BY <1>3, <1>4, <2>2
    <2>3. ASSUME m \in LinesOf(later)
          PROVE  m \in LinesOf(all)
      <3>1. PICK i \in 1 .. b : m \in later[i].start .. later[i].end
        BY <1>3, <2>3
      <3>2. m \in all[a + i].start .. all[a + i].end /\ a + i \in 1 .. a + b
        BY <1>4, <3>1
      <3>3. QED
        BY <1>3, <3>2
    <2>4. QED
      BY <2>1, <2>2, <2>3
  <1>10. QED
    BY <1>8, <1>9 DEF all

\* The ranges of a list joined one after the other, each as it is merged or as
\* lines become runs.
Joins(merging, list, k, f) ==
    f = [n \in 0 .. k |-> IF n = 0 THEN <<>> ELSE Join(merging, f[n - 1], list[n])]

\* There are such joined lists, since each is computed from the one before.
LEMMA JoinsExist ==
    ASSUME NEW merging, NEW list, NEW k \in Nat
    PROVE  \E f : Joins(merging, list, k, f)
  <1> DEFINE Missing == {m \in Nat : ~\E f : Joins(merging, list, m, f)}
  <1> SUFFICES Missing = {}
    OBVIOUS
  <1> SUFFICES ASSUME Missing # {}
               PROVE  FALSE
    OBVIOUS
  <1> DEFINE least == Min(Missing)
  <1>1. Missing \in SUBSET Nat
    OBVIOUS
  <1>2. least \in Missing /\ \A m \in Missing : least <= m
    <2> HIDE DEF Missing
    <2>1. QED
      BY <1>1, LeastIs
  <1>3. least \in Nat /\ ~\E f : Joins(merging, list, least, f)
    BY <1>2
  <1> HIDE DEF least
  <1>4. CASE least = 0
    <2> DEFINE f == [n \in 0 .. 0 |-> <<>>]
    <2>1. Joins(merging, list, 0, f)
      BY DEF Joins
    <2>2. QED
      BY <1>3, <1>4, <2>1
  <1>5. CASE least # 0
    <2>1. least - 1 \in Nat /\ ~(least <= least - 1)
      BY <1>3, <1>5
    <2>2. PICK g : Joins(merging, list, least - 1, g)
      BY <1>2, <2>1
    <2> DEFINE f == [n \in 0 .. least |->
                        IF n < least THEN g[n] ELSE Join(merging, g[least - 1], list[least])]
               F == [n \in 0 .. least |-> IF n = 0 THEN <<>> ELSE Join(merging, f[n - 1], list[n])]
    <2>3. ASSUME NEW n \in 0 .. least
          PROVE  f[n] = F[n]
      <3>1. CASE n = least
        <4>1. n - 1 \in 0 .. least /\ n - 1 < least
          BY <1>3, <1>5, <3>1
        <4>2. f[n - 1] = g[least - 1]
          BY <3>1, <4>1
        <4>3. f[n] = Join(merging, g[least - 1], list[least])
          BY <1>3, <3>1
        <4>4. F[n] = Join(merging, f[n - 1], list[n])
          BY <1>5, <3>1
        <4>5. QED
          BY <3>1, <4>2, <4>3, <4>4
      <3>2. CASE n # least
        <4>1. n < least /\ n \in 0 .. least - 1 /\ f[n] = g[n]
          BY <1>3, <3>2
        <4>2. g[n] = IF n = 0 THEN <<>> ELSE Join(merging, g[n - 1], list[n])
          BY <2>2, <4>1, Zenon DEF Joins
        <4>3. n # 0 => f[n - 1] = g[n - 1]
          BY <1>3, <4>1
        <4>4. QED
          BY <4>1, <4>2, <4>3
      <3>3. QED
        BY <3>1, <3>2
    <2>4. f = F
      <3>1. f = [n \in 0 .. least |-> f[n]] /\ F = [n \in 0 .. least |-> F[n]]
        OBVIOUS
      <3> HIDE DEF f, F
      <3>2. QED
        BY <2>3, <3>1
    <2>5. Joins(merging, list, least, f)
      BY <2>4 DEF Joins
    <2>6. QED
      BY <1>3, <2>5
  <1>6. QED
    BY <1>4, <1>5

\* Joining ranges in order keeps their lines, as ranges that lie apart.
LEMMA JoinsKeepLines ==
    ASSUME NEW merging, NEW list, Apart(list, 0), NEW f, Joins(merging, list, Len(list), f)
    PROVE  Apart(f[Len(list)], 1) /\ LinesOf(f[Len(list)]) = LinesOf(list)
  <1> DEFINE k == Len(list)
             Covered(n) == UNION {list[i].start .. list[i].end : i \in 1 .. n}
             Good(n) == /\ Apart(f[n], 1) /\ LinesOf(f[n]) = Covered(n)
                        /\ \A i \in 1 .. Len(f[n]) : n # 0 /\ f[n][i].end <= list[n].end
             Bad == {n \in 0 .. k : ~Good(n)}
             least == Min(Bad)
  <1>1. /\ k \in Nat /\ list \in Seq(RangeRecords)
        /\ \A i \in 1 .. k : /\ list[i] \in RangeRecords
                             /\ list[i].start \in Nat /\ list[i].end \in Nat
                             /\ list[i].start <= list[i].end
        /\ \A i, j \in 1 .. k : i < j => list[i].end + 0 < list[j].start
    BY EndsAreLines DEF Apart
  <1>2. /\ f[0] = <<>>
        /\ \A n \in 1 .. k : f[n] = Join(merging, f[n - 1], list[n])
    <2>1. \A n \in 0 .. k : f[n] = IF n = 0 THEN <<>> ELSE Join(merging, f[n - 1], list[n])
      BY Zenon DEF Joins
    <2>2. 0 \in 0 .. k /\ \A n \in 1 .. k : n \in 0 .. k /\ n # 0
      BY <1>1
    <2>3. QED
      BY <2>1, <2>2
  <1>3. Good(0)
    <2>1. <<>> \in Seq(RangeRecords) /\ Len(<<>>) = 0
      BY EmptySeq
    <2>2. Apart(<<>>, 1) /\ LinesOf(<<>>) = {}
      BY <2>1 DEF Apart, LinesOf
    <2>3. Covered(0) = {}
      OBVIOUS
    <2>4. QED
      BY <1>2, <2>1, <2>2, <2>3
  <1>4. ASSUME NEW n \in 1 .. k, Good(n - 1)
        PROVE  Good(n)
    <2>1. /\ n \in Nat /\ list[n] \in RangeRecords /\ list[n].start <= list[n].end
          /\ list[n].start \in Nat /\ list[n].end \in Nat
      BY <1>1
    <2>2. \A i \in 1 .. Len(f[n - 1]) : f[n - 1][i].end < list[n].start
      <3> SUFFICES ASSUME NEW i \in 1 .. Len(f[n - 1])
                   PROVE  f[n - 1][i].end < list[n].start
        OBVIOUS
      <3>1. n - 1 \in 1 .. k /\ n - 1 < n /\ f[n - 1][i].end <= list[n - 1].end
        BY <1>1, <1>4
      <3>2. f[n - 1][i].end \in Nat
        BY <1>4, EndsAreLines DEF Apart
      <3>3. list[n - 1].end < list[n].start /\ list[n - 1].end \in Nat
        BY <1>1, <3>1
      <3>4. QED
        BY <2>1, <3>1, <3>2, <3>3
    <2>3. f[n] = Join(merging, f[n - 1], list[n])
      BY <1>2
    <2>4. /\ Apart(f[n], 1) /\ LinesOf(f[n]) = LinesOf(f[n - 1]) \cup list[n].start .. list[n].end
          /\ \A i \in 1 .. Len(f[n]) : f[n][i].end <= list[n].end
      <3> DEFINE former == f[n - 1]
                 r == list[n]
      <3>1. Apart(former, 1)
        BY <1>4
      <3>2. /\ r \in RangeRecords /\ r.start <= r.end
            /\ \A i \in 1 .. Len(former) : former[i].end < r.start
        BY <2>1, <2>2
      <3>3. f[n] = Join(merging, former, r)
        BY <2>3
      <3> HIDE DEF former, r
      <3>4. /\ Apart(f[n], 1) /\ LinesOf(f[n]) = LinesOf(former) \cup r.start .. r.end
            /\ \A i \in 1 .. Len(f[n]) : f[n][i].end <= r.end
        BY <3>1, <3>2, <3>3, RangeJoins
      <3>5. QED
        BY <3>4 DEF former, r
    <2>5. Covered(n) = Covered(n - 1) \cup list[n].start .. list[n].end
      <3>1. 1 .. n = 1 .. n - 1 \cup {n}
        BY <2>1
      <3>2. QED
        BY <3>1
    <2>6. n # 0
      OBVIOUS
    <2>7. QED
      BY <1>4, <2>4, <2>5, <2>6
  <1> HIDE DEF Good
  <1>5. Bad = {}
    <2> SUFFICES ASSUME Bad # {}
                 PROVE  FALSE
      OBVIOUS
    <2>1. Bad \in SUBSET Nat
      BY <1>1
    <2>2. least \in Bad /\ \A n \in Bad : least <= n
      <3> HIDE DEF Bad
      <3>1. QED
        BY <2>1, LeastIs
    <2> HIDE DEF least
    <2>3. least \in 0 .. k /\ ~Good(least) /\ least # 0
      BY <1>3, <2>2
    <2>4. least \in 1 .. k /\ least - 1 \in 0 .. k /\ ~(least <= least - 1)
      BY <1>1, <2>3
    <2>5. Good(least - 1)
      BY <2>2, <2>4
    <2>6. QED
      BY <1>4, <2>3, <2>4, <2>5
  <1>6. Good(k)
    BY <1>1, <1>5
  <1>7. QED
    BY <1>6 DEF Good, LinesOf

\* Merged ranges hold the lines of all of them, as the longest runs.
LEMMA MergedLines ==
    ASSUME NEW ranges, Apart(ranges, 0)
    PROVE  Apart(MergeRanges(ranges), 1) /\ LinesOf(MergeRanges(ranges)) = LinesOf(ranges)
  <1> DEFINE Upto == CHOOSE f : f = [k \in 0 .. Len(ranges) |->
                         IF k = 0 THEN <<>> ELSE AddRange(f[k - 1], ranges[k])]
  <1>1. SortedRanges(ranges) = ranges
    <2>1. /\ ranges \in Seq(RangeRecords)
          /\ \A i \in 1 .. Len(ranges) : ranges[i].start \in Nat /\ ranges[i].end \in Nat
      BY EndsAreLines DEF Apart
    <2>2. \A i, j \in 1 .. Len(ranges) : i < j => ranges[i].start < ranges[j].start
      BY <2>1 DEF Apart
    <2>3. QED
      BY <2>1, <2>2, SortedAlready
  <1>2. MergeRanges(ranges) = Upto[Len(ranges)]
    BY <1>1 DEF MergeRanges
  <1>3. \A f : Joins(TRUE, ranges, Len(ranges), f) <=>
                  f = [k \in 0 .. Len(ranges) |->
                         IF k = 0 THEN <<>> ELSE AddRange(f[k - 1], ranges[k])]
    BY DEF Joins, Join
  <1>4. Len(ranges) \in Nat
    BY LenProperties DEF Apart
  <1>5. \E f : Joins(TRUE, ranges, Len(ranges), f)
    BY <1>4, JoinsExist
  <1>6. Upto = [k \in 0 .. Len(ranges) |-> IF k = 0 THEN <<>> ELSE AddRange(Upto[k - 1], ranges[k])]
    BY <1>3, <1>5
  <1> HIDE DEF Upto
  <1>7. Joins(TRUE, ranges, Len(ranges), Upto)
    BY <1>3, <1>6
  <1>8. QED
    BY <1>2, <1>7, JoinsKeepLines

\* The ranges of some lines in order hold exactly these, as the longest runs.
LEMMA RangesHaveLines ==
    ASSUME NEW numbers \in Seq(Nat),
           \A i, j \in 1 .. Len(numbers) : i < j => numbers[i] < numbers[j]
    PROVE  Apart(RangesFromLines(numbers), 1) /\ LinesOf(RangesFromLines(numbers)) = Range(numbers)
  <1> DEFINE n == Len(numbers)
             lines == [i \in DOMAIN numbers |-> LineRange(numbers[i], numbers[i])]
             Added(list) == CHOOSE f : f = [k \in 0 .. Len(list) |->
                                IF k = 0 THEN <<>> ELSE AddLine(f[k - 1], list[k])]
             Upto == Added(lines)
  <1>1. n \in Nat /\ DOMAIN numbers = 1 .. n /\ \A i \in 1 .. n : numbers[i] \in Nat
    BY LenProperties, ElementOfSeq
  <1>2. /\ lines \in Seq(RangeRecords) /\ Len(lines) = n
        /\ \A i \in 1 .. n : lines[i].start = numbers[i] /\ lines[i].end = numbers[i]
    <2>1. lines \in [1 .. n -> RangeRecords]
      BY <1>1 DEF LineRange, RangeRecords
    <2>2. lines \in Seq(RangeRecords) /\ Len(lines) = n
      <3> HIDE DEF lines, n
      <3>1. QED
        BY <1>1, <2>1, SeqDef, LenProperties
    <2>3. QED
      BY <1>1, <2>2 DEF LineRange
  <1>3. RangesFromLines(numbers) = Added(SortedRanges(lines))[Len(SortedRanges(lines))]
    BY DEF RangesFromLines
  <1> HIDE DEF lines
  <1>4. Apart(lines, 0)
    BY <1>1, <1>2 DEF Apart
  <1>5. SortedRanges(lines) = lines
    BY <1>2, SortedAlready
  <1>6. RangesFromLines(numbers) = Upto[Len(lines)]
    BY <1>3, <1>5
  <1>7. \A f : Joins(FALSE, lines, Len(lines), f) <=>
                  f = [k \in 0 .. Len(lines) |->
                         IF k = 0 THEN <<>> ELSE AddLine(f[k - 1], lines[k])]
    BY DEF Joins, Join
  <1>8. \E f : Joins(FALSE, lines, Len(lines), f)
    BY <1>1, <1>2, JoinsExist
  <1>9. Upto = [k \in 0 .. Len(lines) |-> IF k = 0 THEN <<>> ELSE AddLine(Upto[k - 1], lines[k])]
    BY <1>7, <1>8
  <1> HIDE DEF Upto, Added
  <1>10. Joins(FALSE, lines, Len(lines), Upto)
    BY <1>7, <1>9
  <1>11. LinesOf(lines) = Range(numbers)
    <2>1. Range(numbers) = {numbers[i] : i \in 1 .. n}
      BY <1>1 DEF Range
    <2>2. \A i \in 1 .. n : lines[i].start .. lines[i].end = {numbers[i]}
      BY <1>1, <1>2
    <2>3. LinesOf(lines) = UNION {lines[i].start .. lines[i].end : i \in 1 .. n}
      BY <1>2 DEF LinesOf
    <2>4. QED
      BY <2>1, <2>2, <2>3
  <1>12. QED
    BY <1>4, <1>6, <1>10, <1>11, JoinsKeepLines

-----------------------------------------------------------------------------
(* What the parser knows of one side of a file: the lines in its ranges,   *)
(* those of the hunk, and the set of lines that the patch has changed.     *)

\* All of them are in ranges, before the next line.
Holds(ranges, next, set) ==
    /\ Apart(ranges, 0)
    /\ set = LinesOf(ranges)
    /\ \A m \in set : m < next

\* A hunk without a body: its header counts its lines.
BareSide(ranges, first, count, next, set) ==
    /\ Apart(ranges, 0)
    /\ set = LinesOf(ranges) \cup IF count = 0 THEN {} ELSE first .. first + count - 1
    /\ \A m \in LinesOf(ranges) : m < next
    /\ count # 0 => /\ first + count = next
                    /\ \A m \in LinesOf(ranges) : m < first

\* A hunk with a body: the lines read so far, and the place in the file as
\* long as lines are still to come.
BodySide(ranges, lines, cursor, next, left, set) ==
    /\ Apart(ranges, 0)
    /\ set = LinesOf(ranges) \cup Range(lines)
    /\ \A m \in set : m < next
    /\ \A i, j \in 1 .. Len(lines) : i < j => lines[i] < lines[j]
    /\ \A m \in LinesOf(ranges), i \in 1 .. Len(lines) : m < lines[i]
    /\ left # 0 => cursor = next

\* What a hunk without a body adds to the ranges.
WholeSide(first, count) == IF count = 0 THEN <<>> ELSE <<LineRange(first, first + count - 1)>>

\* Ranges that lie apart by some distance lie apart by any smaller one.
LEMMA ApartWeaker ==
    ASSUME NEW ranges, Apart(ranges, 1)
    PROVE  Apart(ranges, 0)
  <1>1. ASSUME NEW i \in 1 .. Len(ranges), NEW j \in 1 .. Len(ranges), i < j
        PROVE  ranges[i].end + 0 < ranges[j].start
    <2>1. ranges[i].end + 1 < ranges[j].start /\ ranges[i].end \in Nat /\ ranges[j].start \in Nat
      BY <1>1, EndsAreLines DEF Apart
    <2>2. QED
      BY <2>1
  <1>2. QED
    BY <1>1 DEF Apart

\* Lines in ranges that lie apart are numbers.
LEMMA LinesAreNumbers ==
    ASSUME NEW ranges, Apart(ranges, 0)
    PROVE  LinesOf(ranges) \subseteq Nat
  <1>1. \A i \in 1 .. Len(ranges) : ranges[i].start .. ranges[i].end \subseteq Nat
    <2>1. \A i \in 1 .. Len(ranges) : ranges[i].start \in Nat /\ ranges[i].end \in Nat
      BY EndsAreLines DEF Apart
    <2>2. QED
      BY <2>1
  <1>2. QED
    BY <1>1 DEF LinesOf

\* A hunk without a body leaves all lines in ranges.
LEMMA BareCommits ==
    ASSUME NEW first \in Nat, NEW count \in Nat, NEW next \in Nat, NEW ranges, NEW set,
           BareSide(ranges, first, count, next, set)
    PROVE  Holds(ranges \o WholeSide(first, count), next, set)
  <1>1. Apart(ranges, 0) /\ ranges \in Seq(RangeRecords) /\ \A m \in LinesOf(ranges) : m < next
    BY DEF BareSide, Apart
  <1>2. CASE count = 0
    <2>1. ranges \o WholeSide(first, count) = ranges
      BY <1>1, <1>2, ConcatEmptySeq DEF WholeSide
    <2>2. set = LinesOf(ranges)
      BY <1>2 DEF BareSide
    <2>3. QED
      BY <1>1, <2>1, <2>2 DEF Holds
  <1>3. CASE count # 0
    <2> DEFINE last == first + count - 1
               more == <<LineRange(first, last)>>
    <2>1. /\ last \in Nat /\ first <= last /\ last < next
          /\ set = LinesOf(ranges) \cup first .. last
          /\ \A m \in LinesOf(ranges) : m < first
      BY <1>3 DEF BareSide
    <2>2. WholeSide(first, count) = more
      BY <1>3 DEF WholeSide
    <2> HIDE DEF last
    <2>3. /\ more \in Seq(RangeRecords) /\ Len(more) = 1
          /\ more[1].start = first /\ more[1].end = last
      BY <2>1 DEF LineRange, RangeRecords
    <2> HIDE DEF more
    <2>4. \A i \in 1 .. Len(more) : i = 1
      BY <2>3
    <2>5. Apart(more, 0)
      BY <2>1, <2>3, <2>4 DEF Apart
    <2>6. LinesOf(more) = first .. last
      <3>1. 1 .. Len(more) = {1}
        BY <2>3
      <3>2. QED
        BY <2>3, <3>1 DEF LinesOf
    <2>7. \A m \in LinesOf(ranges), k \in LinesOf(more) : m < k
      <3>1. LinesOf(ranges) \subseteq Nat
        BY <1>1, LinesAreNumbers
      <3>2. QED
        BY <2>1, <2>6, <3>1
    <2>8. /\ Apart(ranges \o more, 0)
          /\ LinesOf(ranges \o more) = LinesOf(ranges) \cup LinesOf(more)
      BY <1>1, <2>5, <2>7, RangesFollow
    <2>9. \A m \in first .. last : m < next
      BY <2>1
    <2>10. QED
      BY <1>1, <2>1, <2>2, <2>6, <2>8, <2>9 DEF Holds
  <1>4. QED
    BY <1>2, <1>3

\* So does a hunk with one.
LEMMA BodyCommits ==
    ASSUME NEW lines \in Seq(Nat), NEW cursor, NEW next, NEW left, NEW ranges, NEW set,
           BodySide(ranges, lines, cursor, next, left, set)
    PROVE  Holds(ranges \o RangesFromLines(lines), next, set)
  <1> DEFINE more == RangesFromLines(lines)
  <1>1. Apart(more, 1) /\ LinesOf(more) = Range(lines)
    BY RangesHaveLines DEF BodySide
  <1>2. Apart(more, 0)
    BY <1>1, ApartWeaker
  <1>3. /\ Apart(ranges, 0) /\ set = LinesOf(ranges) \cup Range(lines) /\ \A m \in set : m < next
        /\ \A m \in LinesOf(ranges), i \in 1 .. Len(lines) : m < lines[i]
    BY DEF BodySide
  <1>4. DOMAIN lines = 1 .. Len(lines)
    BY LenProperties
  <1> HIDE DEF more
  <1>5. \A m \in LinesOf(ranges), k \in LinesOf(more) : m < k
    BY <1>1, <1>3, <1>4 DEF Range
  <1>6. /\ Apart(ranges \o more, 0)
        /\ LinesOf(ranges \o more) = LinesOf(ranges) \cup LinesOf(more)
    BY <1>2, <1>3, <1>5, RangesFollow
  <1>7. QED
    BY <1>1, <1>3, <1>6 DEF Holds, more

\* The number in the header of a hunk that begins at a line.
Heading(line, count) == AtLeast(IF count = 0 THEN line - 1 ELSE line, 1)

\* It is that line, if the hunk has any.
LEMMA HeadingIs ==
    ASSUME NEW line \in Nat \ {0}, NEW count \in Nat
    PROVE  Heading(line, count) \in Nat /\ (count # 0 => Heading(line, count) = line)
  BY DEF Heading, AtLeast

\* A hunk without a body begins where all lines are in ranges.
LEMMA BareBegins ==
    ASSUME NEW ranges, NEW next \in Nat \ {0}, NEW set, Holds(ranges, next, set),
           NEW skip \in Nat, NEW count \in Nat
    PROVE  BareSide(ranges, Heading(next + skip, count), count, next + skip + count,
                    set \cup (next + skip) .. (next + skip) + count - 1)
  <1> DEFINE line == next + skip
             first == Heading(line, count)
  <1>1. line \in Nat \ {0} /\ next <= line /\ line + count \in Nat /\ line <= line + count
    OBVIOUS
  <1>2. first \in Nat /\ (count # 0 => first = line)
    BY <1>1, HeadingIs
  <1> HIDE DEF line, first
  <1>3. Apart(ranges, 0) /\ set = LinesOf(ranges) /\ \A m \in LinesOf(ranges) : m < next
    BY DEF Holds
  <1>4. LinesOf(ranges) \subseteq Nat
    BY <1>3, LinesAreNumbers
  <1>5. \A m \in LinesOf(ranges) : m < line /\ m < line + count
    BY <1>1, <1>3, <1>4
  <1>6. line .. line + count - 1 = IF count = 0 THEN {} ELSE first .. first + count - 1
    <2>1. CASE count = 0
      BY <1>1, <2>1
    <2>2. CASE count # 0
      BY <1>2, <2>2
    <2>3. QED
      BY <2>1, <2>2
  <1>7. BareSide(ranges, first, count, line + count, set \cup line .. line + count - 1)
    BY <1>2, <1>3, <1>5, <1>6 DEF BareSide
  <1>8. QED
    BY <1>7 DEF line, first

\* So does one with a body, of which no line was read.
LEMMA BodyBegins ==
    ASSUME NEW ranges, NEW next \in Nat \ {0}, NEW set, Holds(ranges, next, set),
           NEW skip \in Nat, NEW count \in Nat
    PROVE  BodySide(ranges, <<>>, Heading(next + skip, count), next + skip, count, set)
  <1>1. next + skip \in Nat \ {0} /\ next <= next + skip
    OBVIOUS
  <1>2. count # 0 => Heading(next + skip, count) = next + skip
    BY <1>1, HeadingIs
  <1>3. Apart(ranges, 0) /\ set = LinesOf(ranges) /\ \A m \in LinesOf(ranges) : m < next
    BY DEF Holds
  <1>4. LinesOf(ranges) \subseteq Nat
    BY <1>3, LinesAreNumbers
  <1>5. \A m \in set : m < next + skip
    BY <1>1, <1>3, <1>4
  <1>6. Range(<<>>) = {} /\ Len(<<>>) = 0
    BY DEF Range
  <1>7. QED
    BY <1>2, <1>3, <1>5, <1>6 DEF BodySide

\* A line that is changed is one of the lines of the hunk.
LEMMA BodyAdds ==
    ASSUME NEW ranges, NEW lines \in Seq(Nat), NEW cursor, NEW next \in Nat, NEW left \in Nat,
           NEW set, BodySide(ranges, lines, cursor, next, left, set), left > 0
    PROVE  BodySide(ranges, Append(lines, cursor), cursor + 1, next + 1, left - 1, set \cup {next})
  <1> DEFINE n == Len(lines)
             all == Append(lines, cursor)
  <1>1. /\ Apart(ranges, 0) /\ set = LinesOf(ranges) \cup Range(lines)
        /\ \A m \in set : m < next
        /\ \A i, j \in 1 .. n : i < j => lines[i] < lines[j]
        /\ \A m \in LinesOf(ranges), i \in 1 .. n : m < lines[i]
        /\ cursor = next
    BY DEF BodySide
  <1>2. n \in Nat /\ DOMAIN lines = 1 .. n /\ \A i \in 1 .. n : lines[i] \in Nat
    BY LenProperties, ElementOfSeq
  <1>3. /\ all \in Seq(Nat) /\ Len(all) = n + 1 /\ all[n + 1] = next
        /\ \A i \in 1 .. n : all[i] = lines[i]
    BY <1>1, AppendProperties
  <1>4. DOMAIN all = 1 .. n + 1
    BY <1>3, LenProperties
  <1> HIDE DEF all, n
  <1>5. \A i \in 1 .. n + 1 : i \in 1 .. n \/ i = n + 1
    BY <1>2
  <1>6. \A i \in 1 .. n : i \in 1 .. n + 1 /\ lines[i] \in Range(lines)
    BY <1>2 DEF Range
  <1>7. Range(all) = Range(lines) \cup {next}
    <2>1. n + 1 \in 1 .. n + 1
      BY <1>2
    <2>2. Range(all) = {all[i] : i \in 1 .. n + 1} /\ Range(lines) = {lines[i] : i \in 1 .. n}
      BY <1>2, <1>4 DEF Range
    <2>3. QED
      BY <1>3, <1>5, <1>6, <2>1, <2>2
  <1>8. LinesOf(ranges) \subseteq Nat /\ set \subseteq Nat
    <2>1. LinesOf(ranges) \subseteq Nat
      BY <1>1, LinesAreNumbers
    <2>2. Range(lines) \subseteq Nat
      BY <1>2 DEF Range
    <2>3. QED
      BY <1>1, <2>1, <2>2
  <1>9. \A m \in set \cup {next} : m < next + 1
    BY <1>1, <1>8
  <1>10. ASSUME NEW i \in 1 .. n + 1, NEW j \in 1 .. n + 1, i < j
         PROVE  all[i] < all[j]
    <2>1. i \in 1 .. n
      BY <1>2, <1>10
    <2>2. CASE j \in 1 .. n
      BY <1>1, <1>3, <1>10, <2>1, <2>2
    <2>3. CASE j = n + 1
      <3>1. lines[i] \in set
        BY <1>1, <1>6, <2>1
      <3>2. QED
        BY <1>1, <1>3, <2>1, <2>3, <3>1
    <2>4. QED
      BY <1>5, <2>2, <2>3
  <1>11. \A m \in LinesOf(ranges), i \in 1 .. n + 1 : m < all[i]
    BY <1>1, <1>3, <1>5
  <1>12. cursor + 1 = next + 1
    BY <1>1
  <1>13. BodySide(ranges, all, cursor + 1, next + 1, left - 1, set \cup {next})
    BY <1>1, <1>3, <1>7, <1>9, <1>10, <1>11, <1>12 DEF BodySide
  <1>14. QED
    BY <1>13 DEF all

\* A line of context only moves both places on.
LEMMA BodyPasses ==
    ASSUME NEW ranges, NEW lines \in Seq(Nat), NEW cursor, NEW next \in Nat, NEW left \in Nat,
           NEW set, BodySide(ranges, lines, cursor, next, left, set), left > 0
    PROVE  BodySide(ranges, lines, cursor + 1, next + 1, left - 1, set)
  <1>1. /\ cursor = next /\ Apart(ranges, 0) /\ set = LinesOf(ranges) \cup Range(lines)
        /\ \A m \in set : m < next
    BY DEF BodySide
  <1>2. set \subseteq Nat
    <2>1. LinesOf(ranges) \subseteq Nat
      BY <1>1, LinesAreNumbers
    <2>2. Range(lines) \subseteq Nat
      BY LenProperties, ElementOfSeq DEF Range
    <2>3. QED
      BY <1>1, <2>1, <2>2
  <1>3. \A m \in set : m < next + 1
    BY <1>1, <1>2
  <1>4. QED
    BY <1>1, <1>3 DEF BodySide

\* The hunk being read, and the places in the file.
HunkRecords == [none : {FALSE}, oldCursor : Nat, newCursor : Nat, oldCount : Nat, newCount : Nat,
                added : Seq(Nat), removed : Seq(Nat), seenBody : BOOLEAN]

LinesTyped ==
    /\ hunk # NoHunk => hunk \in HunkRecords
    /\ at \in [old : Nat \ {0}, new : Nat \ {0}]

\* No body was read of the last hunk, and none is still to come.
Bodiless == ~hunk.seenBody /\ due.old = 0 /\ due.new = 0

\* What the parser knows of the lines of the last file.
TracksLines ==
    IF hunk = NoHunk
    THEN /\ current.newRanges = <<>> /\ current.oldRanges = <<>>
         /\ File.added = {} /\ File.removed = {}
    ELSE IF Bodiless
    THEN /\ BareSide(current.newRanges, hunk.newCursor, hunk.newCount, at.new, File.added)
         /\ BareSide(current.oldRanges, hunk.oldCursor, hunk.oldCount, at.old, File.removed)
    ELSE /\ due.changed = hunk.seenBody
         /\ BodySide(current.newRanges, hunk.added, hunk.newCursor, at.new, due.new, File.added)
         /\ BodySide(current.oldRanges, hunk.removed, hunk.oldCursor, at.old, due.old, File.removed)

\* A plain patch of one file names it before its hunks.
TracksPlain ==
    /\ changes = <<>> /\ stage \in {"old", "name", "hunk"}
    /\ stage = "old" => ~File.named /\ (File.type # "added" => current.old # NoPath)
    /\ stage # "old" => current.path # NoPath

\* The files before the last are reported with their lines.
FormerExact ==
    \A n \in NamedUpTo(Len(written) - 1) :
        written[n].clean => LinesRead(ChangeOf(n), written[n])

\* A git patch, or a plain one of one file.
OneByOne == format = "git" \/ Len(written) = 1

LinesInv ==
    /\ outcome = "reading" /\ written = <<>> => hunk = NoHunk
    /\ outcome = "reading" /\ written # <<>> /\ OneByOne =>
          /\ LinesTyped /\ (hunk # NoHunk <=> stage = "hunk")
          /\ File.clean => TracksLines
          /\ format = "git" => FormerExact
          /\ format # "git" => TracksPlain
    /\ CleanFilesAreExact

\* What a hunk that ends leaves in the current file.
LEMMA Committed ==
    ASSUME DOMAIN current = DOMAIN NoFile, hunk # NoHunk
    PROVE  /\ Commit(current, hunk).newRanges =
                current.newRanges \o IF hunk.seenBody THEN RangesFromLines(hunk.added)
                                     ELSE WholeSide(hunk.newCursor, hunk.newCount)
           /\ Commit(current, hunk).oldRanges =
                current.oldRanges \o IF hunk.seenBody THEN RangesFromLines(hunk.removed)
                                     ELSE WholeSide(hunk.oldCursor, hunk.oldCount)
  <1>1. {"newRanges", "oldRanges"} \subseteq DOMAIN current
    BY DEF NoFile
  <1>2. QED
    BY <1>1 DEF Commit, WholeSide

\* When all lines of the file were read, its ranges hold them.
LEMMA CommitHolds ==
    ASSUME DOMAIN current = DOMAIN NoFile, LinesTyped, TracksLines, due.old = 0, due.new = 0
    PROVE  /\ Holds(Commit(current, hunk).newRanges, at.new, File.added)
           /\ Holds(Commit(current, hunk).oldRanges, at.old, File.removed)
  <1>1. at.new \in Nat /\ at.old \in Nat
    BY DEF LinesTyped
  <1>2. CASE hunk = NoHunk
    <2>1. /\ Commit(current, hunk) = current
          /\ current.newRanges = <<>> /\ current.oldRanges = <<>>
          /\ File.added = {} /\ File.removed = {}
      BY <1>2 DEF Commit, TracksLines
    <2>2. <<>> \in Seq(RangeRecords) /\ Len(<<>>) = 0
      BY EmptySeq
    <2>3. Apart(<<>>, 0) /\ LinesOf(<<>>) = {}
      BY <2>2 DEF Apart, LinesOf
    <2>4. QED
      BY <2>1, <2>3 DEF Holds
  <1>3. CASE hunk # NoHunk /\ ~hunk.seenBody
    <2>1. /\ Commit(current, hunk).newRanges =
                current.newRanges \o WholeSide(hunk.newCursor, hunk.newCount)
          /\ Commit(current, hunk).oldRanges =
                current.oldRanges \o WholeSide(hunk.oldCursor, hunk.oldCount)
      BY <1>3, Committed
    <2>2. /\ hunk.newCursor \in Nat /\ hunk.newCount \in Nat
          /\ hunk.oldCursor \in Nat /\ hunk.oldCount \in Nat
      BY <1>3 DEF LinesTyped, HunkRecords
    <2>3. /\ BareSide(current.newRanges, hunk.newCursor, hunk.newCount, at.new, File.added)
          /\ BareSide(current.oldRanges, hunk.oldCursor, hunk.oldCount, at.old, File.removed)
      BY <1>3 DEF TracksLines, Bodiless
    <2>4. QED
      BY <1>1, <2>1, <2>2, <2>3, BareCommits
  <1>4. CASE hunk # NoHunk /\ hunk.seenBody
    <2>1. /\ Commit(current, hunk).newRanges = current.newRanges \o RangesFromLines(hunk.added)
          /\ Commit(current, hunk).oldRanges = current.oldRanges \o RangesFromLines(hunk.removed)
      BY <1>4, Committed
    <2>2. hunk.added \in Seq(Nat) /\ hunk.removed \in Seq(Nat)
      BY <1>4 DEF LinesTyped, HunkRecords
    <2>3. /\ BodySide(current.newRanges, hunk.added, hunk.newCursor, at.new, due.new, File.added)
          /\ BodySide(current.oldRanges, hunk.removed, hunk.oldCursor, at.old, due.old, File.removed)
      BY <1>4 DEF TracksLines, Bodiless
    <2>4. QED
      BY <2>1, <2>2, <2>3, BodyCommits
  <1>5. QED
    BY <1>2, <1>3, <1>4

\* Merged ranges that hold the lines of a set list its longest runs.
LEMMA MergedLists ==
    ASSUME NEW ranges, NEW next, NEW set, Holds(ranges, next, set)
    PROVE  Lists(MergeRanges(ranges), set)
  <1>1. Apart(MergeRanges(ranges), 1) /\ LinesOf(MergeRanges(ranges)) = set
    BY MergedLines DEF Holds
  <1>2. QED
    BY <1>1, ApartLists

\* A file whose lines were all read is reported with them, behind the others.
LEMMA LastExact ==
    ASSUME IsList(changes), DOMAIN current = DOMAIN NoFile, LinesTyped, TracksLines,
           due.old = 0, due.new = 0, current.path # NoPath,
           NEW all, all = changes \o Finish(current, hunk)
    PROVE  LinesRead(all[Len(changes) + 1], File)
  <1> DEFINE read == Commit(current, hunk)
             change == [read EXCEPT !.old = IF @ = read.path THEN NoPath ELSE @,
                                    !.newRanges = MergeRanges(@), !.oldRanges = MergeRanges(@)]
  <1>1. {"path", "old", "newRanges", "oldRanges"} \subseteq DOMAIN current
    BY DEF NoFile
  <1>2. read.path = current.path /\ DOMAIN read = DOMAIN current
    BY <1>1 DEF Commit
  <1>3. Holds(read.newRanges, at.new, File.added) /\ Holds(read.oldRanges, at.old, File.removed)
    BY CommitHolds
  <1>4. Finish(current, hunk) = <<change>>
    BY <1>2 DEF Finish
  <1> HIDE DEF read
  <1>5. /\ change.newRanges = MergeRanges(read.newRanges)
        /\ change.oldRanges = MergeRanges(read.oldRanges)
    BY <1>1, <1>2
  <1> HIDE DEF change
  <1>6. LinesRead(change, File)
    BY <1>3, <1>5, MergedLists DEF LinesRead
  <1>7. all[Len(changes) + 1] = change
    <2>1. PICK S : changes \in Seq(S)
      BY DEF IsList
    <2> DEFINE T == S \cup {change}
    <2>2. changes \in Seq(T) /\ <<change>> \in Seq(T) /\ Len(<<change>>) = 1
      BY <2>1
    <2>3. Len(changes) \in Nat /\ Len(changes) + 1 \in 1 .. Len(changes) + 1
      BY <2>2, LenProperties
    <2>4. all[Len(changes) + 1] = <<change>>[Len(changes) + 1 - Len(changes)]
      BY <1>4, <2>2, <2>3, ConcatProperties
    <2>5. Len(changes) + 1 - Len(changes) = 1
      BY <2>3
    <2>6. QED
      BY <2>4, <2>5
  <1>8. QED
    BY <1>6, <1>7

\* When the last file of a git patch is flushed all are reported with their
\* lines.
LEMMA FlushedExact ==
    ASSUME PatchTyped, TracksName, TracksKind, Reported, written # <<>>, LinesTyped,
           File.clean => TracksLines, FormerExact,
           NEW all, all = changes \o Finish(current, hunk)
    PROVE  \A n \in NamedUpTo(Len(written)) :
              (n < Len(written) \/ Whole) /\ written[n].clean =>
                  LinesRead(all[Cardinality(NamedUpTo(n))], written[n])
  <1> DEFINE L == Len(written)
  <1>1. L \in Nat \ {0} /\ L - 1 \in Nat /\ L - 1 + 1 = L /\ File = written[L]
    BY LastFile
  <1>2. /\ Cardinality(NamedUpTo(L - 1)) \in Nat
        /\ Cardinality(NamedUpTo(L)) =
             Cardinality(NamedUpTo(L - 1)) + IF written[L].named THEN 1 ELSE 0
        /\ NamedUpTo(L) = NamedUpTo(L - 1) \cup IF written[L].named THEN {L} ELSE {}
    BY <1>1, NamedNext
  <1>3. /\ IsList(changes) /\ DOMAIN current = DOMAIN NoFile
        /\ \A i \in 1 .. Len(changes) : all[i] = changes[i]
    BY Flushed DEF PatchTyped
  <1>4. Len(changes) = Cardinality(NamedUpTo(L - 1))
    BY DEF Reported
  <1>5. ASSUME NEW n \in NamedUpTo(L), n < L \/ Whole, written[n].clean
        PROVE  LinesRead(all[Cardinality(NamedUpTo(n))], written[n])
    <2>1. CASE n \in NamedUpTo(L - 1)
      <3>1. Cardinality(NamedUpTo(n)) \in 1 .. Len(changes)
        BY <1>1, <1>4, <2>1, PlaceIn
      <3>2. all[Cardinality(NamedUpTo(n))] = ChangeOf(n)
        BY <1>3, <3>1 DEF ChangeOf
      <3>3. QED
        BY <1>5, <2>1, <3>2 DEF FormerExact
    <2>2. CASE n \notin NamedUpTo(L - 1)
      <3>1. n = L /\ written[L].named
        BY <1>2, <2>2
      <3>2. Whole
        BY <1>1, <1>5, <3>1
      <3>3. due.old = 0 /\ due.new = 0
        BY <3>2 DEF Whole
      <3>4. current.path # NoPath /\ File.clean
        BY <1>1, <1>5, <3>1 DEF TracksName
      <3>5. LinesRead(all[Len(changes) + 1], File)
        BY <1>3, <3>3, <3>4, LastExact
      <3>6. Cardinality(NamedUpTo(n)) = Len(changes) + 1
        BY <1>2, <1>4, <3>1
      <3>7. QED
        BY <1>1, <3>1, <3>5, <3>6
    <2>3. QED
      BY <2>1, <2>2
  <1>6. QED
    BY <1>5

\* The header of a hunk: what is still in the hunk before it belongs to the
\* file, and the next one begins.
LEMMA HunkStep ==
    ASSUME PatchTyped, LinesTyped, written # <<>>, File.clean => TracksLines, Hunk
    PROVE  /\ LinesTyped' /\ hunk' # NoHunk /\ stage' = "hunk"
           /\ File'.clean => TracksLines'
  <1>1. PICK skip \in {0, 1}, oc \in 0 .. MaxSpan, nc \in 0 .. MaxSpan, bare \in BOOLEAN :
           HunkOf(skip, oc, nc, bare)
    BY DEF Hunk
  <1> DEFINE o == at.old + skip
             n == at.new + skip
             more == n .. n + nc - 1
             gone == o .. o + oc - 1
             next == [none |-> FALSE, oldCursor |-> Heading(o, oc), newCursor |-> Heading(n, nc),
                      oldCount |-> oc, newCount |-> nc, added |-> <<>>, removed |-> <<>>,
                      seenBody |-> FALSE]
  <1>2. /\ Whole /\ oc + nc \in 1 .. MaxSpan /\ stage' = "hunk"
        /\ current' = Commit(current, hunk) /\ hunk' = next
        /\ due' = IF bare THEN due ELSE [old |-> oc, new |-> nc, changed |-> FALSE]
        /\ at' = IF bare THEN [old |-> o + oc, new |-> n + nc] ELSE [old |-> o, new |-> n]
        /\ written' = IF ~bare THEN written
                      ELSE [written EXCEPT ![Len(written)].added = @ \cup more,
                                           ![Len(written)].removed = @ \cup gone]
    BY <1>1 DEF HunkOf, ReadHunkHeader, Heading, Line
  <1>3. /\ at.new \in Nat \ {0} /\ at.old \in Nat \ {0}
        /\ skip \in Nat /\ oc \in Nat /\ nc \in Nat /\ MaxSpan \in Nat
    BY DiffAssumption DEF LinesTyped
  <1>4. /\ o \in Nat \ {0} /\ n \in Nat \ {0} /\ o + oc \in Nat \ {0} /\ n + nc \in Nat \ {0}
        /\ ~(oc = 0 /\ nc = 0)
    <2>1. o \in Nat \ {0} /\ n \in Nat \ {0} /\ o + oc \in Nat \ {0} /\ n + nc \in Nat \ {0}
      <3>1. o \in Nat \ {0}
        BY <1>3
      <3>2. n \in Nat \ {0}
        BY <1>3
      <3> HIDE DEF o, n
      <3>3. o + oc \in Nat \ {0} /\ n + nc \in Nat \ {0}
        BY <1>3, <3>1, <3>2
      <3>4. QED
        BY <3>1, <3>2, <3>3
    <2>2. oc + nc \in 1 .. MaxSpan
      BY <1>2
    <2>3. ~(oc = 0 /\ nc = 0)
      BY <1>3, <2>2
    <2>4. QED
      BY <2>1, <2>3
  <1>5. Heading(o, oc) \in Nat /\ Heading(n, nc) \in Nat
    <2> HIDE DEF o, n
    <2>1. QED
      BY <1>3, <1>4, HeadingIs
  <1>6. next \in HunkRecords /\ next # NoHunk
    <2>1. <<>> \in Seq(Nat)
      BY EmptySeq
    <2>2. next \in HunkRecords
      BY <1>3, <1>5, <2>1 DEF HunkRecords
    <2>3. next.none = FALSE /\ NoHunk.none = TRUE
      BY DEF NoHunk
    <2>4. QED
      BY <2>2, <2>3
  <1>7. LinesTyped'
    <2>1. at' \in [old : Nat \ {0}, new : Nat \ {0}]
      BY <1>2, <1>4
    <2>2. QED
      BY <1>2, <1>6, <2>1 DEF LinesTyped
  <1>8. /\ File'.clean = File.clean
        /\ File'.added = IF bare THEN File.added \cup more ELSE File.added
        /\ File'.removed = IF bare THEN File.removed \cup gone ELSE File.removed
    <2> DEFINE file == IF bare THEN [File EXCEPT !.added = @ \cup more, !.removed = @ \cup gone]
                       ELSE File
    <2>1. /\ Len(written) \in DOMAIN written /\ File = written[Len(written)]
          /\ File \in FileRecords /\ written \in Seq(FileRecords)
      BY LastFile
    <2>2. more \in SUBSET Int /\ gone \in SUBSET Int
      BY <1>3, <1>4
    <2> HIDE DEF more, gone
    <2>3. written' = [written EXCEPT ![Len(written)] = file]
      <3>1. written' = IF ~bare THEN written
                       ELSE [written EXCEPT ![Len(written)].added = @ \cup more,
                                            ![Len(written)].removed = @ \cup gone]
        BY <1>2
      <3>2. CASE ~bare
        BY <2>1, <3>1, <3>2
      <3>3. CASE bare
        BY <2>1, <3>1, <3>3 DEF FileRecords
      <3>4. QED
        BY <3>2, <3>3
    <2>4. file \in FileRecords /\ Same(File, file)
      BY <2>1, <2>2 DEF FileRecords, Same
    <2>5. File' = file
      BY <2>3, <2>4, LastChanged
    <2>6. QED
      BY <2>1, <2>5 DEF FileRecords
  <1>9. ASSUME File'.clean
        PROVE  TracksLines'
    <2>1. TracksLines /\ due.old = 0 /\ due.new = 0
      BY <1>2, <1>8, <1>9 DEF Whole
    <2>2. /\ Holds(current'.newRanges, at.new, File.added)
          /\ Holds(current'.oldRanges, at.old, File.removed)
      BY <1>2, <2>1, CommitHolds DEF PatchTyped
    <2>3. hunk' # NoHunk /\ hunk'.seenBody = FALSE
      BY <1>2, <1>6
    <2>4. CASE bare
      <3>1. /\ BareSide(current'.newRanges, Heading(n, nc), nc, n + nc, File.added \cup more)
            /\ BareSide(current'.oldRanges, Heading(o, oc), oc, o + oc, File.removed \cup gone)
        BY <1>3, <2>2, BareBegins
      <3>2. at'.new = n + nc /\ at'.old = o + oc /\ due'.old = 0 /\ due'.new = 0
        BY <1>2, <2>1, <2>4
      <3>3. /\ hunk'.newCursor = Heading(n, nc) /\ hunk'.newCount = nc
            /\ hunk'.oldCursor = Heading(o, oc) /\ hunk'.oldCount = oc
        BY <1>2
      <3>4. File'.added = File.added \cup more /\ File'.removed = File.removed \cup gone
        BY <1>8, <2>4
      <3> HIDE DEF n, o, more, gone, next
      <3>5. QED
        BY <2>3, <3>1, <3>2, <3>3, <3>4 DEF TracksLines, Bodiless
    <2>5. CASE ~bare
      <3>1. /\ BodySide(current'.newRanges, <<>>, Heading(n, nc), n, nc, File.added)
            /\ BodySide(current'.oldRanges, <<>>, Heading(o, oc), o, oc, File.removed)
        BY <1>3, <2>2, BodyBegins
      <3>2. /\ at'.new = n /\ at'.old = o
            /\ due'.old = oc /\ due'.new = nc /\ due'.changed = FALSE
        BY <1>2, <2>5
      <3>3. /\ hunk'.newCursor = Heading(n, nc) /\ hunk'.added = <<>>
            /\ hunk'.oldCursor = Heading(o, oc) /\ hunk'.removed = <<>>
        BY <1>2
      <3>4. File'.added = File.added /\ File'.removed = File.removed
        BY <1>8, <2>5
      <3> HIDE DEF n, o, more, gone, next
      <3>5. QED
        BY <1>4, <2>3, <3>1, <3>2, <3>3, <3>4 DEF TracksLines, Bodiless
    <2>6. QED
      BY <2>4, <2>5
  <1>10. QED
    BY <1>2, <1>6, <1>7, <1>9

\* A line within a hunk moves the places of its sides on.
LEMMA ConsumedIs ==
    ASSUME hunk \in HunkRecords, NEW sign \in {"plus", "minus", "space"}
    PROVE  LET h == Consumed(hunk, sign) IN
           /\ h \in HunkRecords
           /\ h.seenBody = (hunk.seenBody \/ sign # "space")
           /\ h.newCursor = IF sign = "minus" THEN hunk.newCursor ELSE hunk.newCursor + 1
           /\ h.oldCursor = IF sign = "plus" THEN hunk.oldCursor ELSE hunk.oldCursor + 1
           /\ h.added = IF sign = "plus" THEN Append(hunk.added, hunk.newCursor) ELSE hunk.added
           /\ h.removed = IF sign = "minus" THEN Append(hunk.removed, hunk.oldCursor)
                          ELSE hunk.removed
  <1>1. /\ hunk.newCursor \in Nat /\ hunk.oldCursor \in Nat
        /\ hunk.added \in Seq(Nat) /\ hunk.removed \in Seq(Nat) /\ hunk.seenBody \in BOOLEAN
    BY DEF HunkRecords
  <1>2. /\ Append(hunk.added, hunk.newCursor) \in Seq(Nat)
        /\ Append(hunk.removed, hunk.oldCursor) \in Seq(Nat)
        /\ hunk.newCursor + 1 \in Nat /\ hunk.oldCursor + 1 \in Nat
    BY <1>1, AppendProperties
  <1> DEFINE more == Append(hunk.added, hunk.newCursor)
             gone == Append(hunk.removed, hunk.oldCursor)
  <1> HIDE DEF more, gone
  <1>3. CASE sign = "plus"
    <2>1. Consumed(hunk, sign) =
            [hunk EXCEPT !.seenBody = TRUE, !.newCursor = @ + 1, !.added = more]
      BY <1>3 DEF Consumed, HunkRecords, more
    <2>2. more \in Seq(Nat)
      BY <1>2 DEF more
    <2>3. QED
      BY <1>2, <1>3, <2>1, <2>2 DEF HunkRecords, more
  <1>4. CASE sign = "minus"
    <2>1. Consumed(hunk, sign) =
            [hunk EXCEPT !.seenBody = TRUE, !.oldCursor = @ + 1, !.removed = gone]
      BY <1>4 DEF Consumed, HunkRecords, gone
    <2>2. gone \in Seq(Nat)
      BY <1>2 DEF gone
    <2>3. QED
      BY <1>2, <1>4, <2>1, <2>2 DEF HunkRecords, gone
  <1>5. CASE sign = "space"
    <2>1. Consumed(hunk, sign) = [hunk EXCEPT !.newCursor = @ + 1, !.oldCursor = @ + 1]
      BY <1>5 DEF Consumed
    <2>2. QED
      BY <1>1, <1>2, <1>5, <2>1 DEF HunkRecords
  <1>6. QED
    BY <1>3, <1>4, <1>5
\* A line of the body of a hunk.
LEMMA BodyStep ==
    ASSUME PatchTyped, LinesTyped, written # <<>>, hunk # NoHunk <=> stage = "hunk",
           File.clean => TracksLines, Body
    PROVE  /\ LinesTyped' /\ hunk' # NoHunk /\ stage' = "hunk"
           /\ File'.clean => TracksLines'
  <1>1. PICK sign \in {"plus", "minus", "space"}, look \in Looks : BodyLine(sign, look)
    BY DEF Body
  <1> DEFINE o == IF sign = "plus" THEN 0 ELSE 1
             n == IF sign = "minus" THEN 0 ELSE 1
             added == IF sign = "plus" THEN File.added \cup {at.new} ELSE File.added
             removed == IF sign = "minus" THEN File.removed \cup {at.old} ELSE File.removed
             clean == File.clean /\ look = "text"
             file == [File EXCEPT !.added = added, !.removed = removed, !.clean = clean]
  <1>2. /\ ~Whole /\ stage = "hunk" /\ stage' = "hunk" /\ ReadBody(sign, look)
        /\ sign # "plus" => due.old > 0
        /\ sign # "minus" => due.new > 0
        /\ sign = "space" => due.changed \/ due.old + due.new > 2
        /\ due' = [old |-> due.old - o, new |-> due.new - n,
                   changed |-> due.changed \/ sign # "space"]
        /\ at' = [old |-> at.old + o, new |-> at.new + n]
        /\ written' = [written EXCEPT
              ![Len(written)].added = IF sign = "plus" THEN @ \cup {at.new} ELSE @,
              ![Len(written)].removed = IF sign = "minus" THEN @ \cup {at.old} ELSE @,
              ![Len(written)].clean = @ /\ look = "text"]
    BY <1>1 DEF BodyLine, Line
  <1>3. /\ hunk \in HunkRecords /\ hunk # NoHunk
        /\ at.old \in Nat \ {0} /\ at.new \in Nat \ {0}
    BY <1>2 DEF LinesTyped
  <1>4. due.old \in Nat /\ due.new \in Nat /\ due.changed \in BOOLEAN
    BY DEF PatchTyped
  <1>5. hunk' \in HunkRecords
    <2>1. hunk' = hunk \/ hunk' = Consumed(hunk, sign)
      BY <1>2, <1>3 DEF ReadBody, ReadOldFile, ReadNewFile
    <2>2. QED
      BY <1>3, <2>1, ConsumedIs
  <1>6. hunk' # NoHunk
    <2>1. hunk'.none = FALSE /\ NoHunk.none = TRUE
      BY <1>5 DEF HunkRecords, NoHunk
    <2>2. QED
      BY <2>1
  <1>7. LinesTyped'
    <2>1. at' \in [old : Nat \ {0}, new : Nat \ {0}]
      <3>1. o \in {0, 1} /\ n \in {0, 1}
        OBVIOUS
      <3> HIDE DEF o, n
      <3>2. at.old + o \in Nat \ {0} /\ at.new + n \in Nat \ {0}
        BY <1>3, <3>1
      <3>3. QED
        BY <1>2, <3>2
    <2>2. QED
      BY <1>5, <2>1 DEF LinesTyped
  <1>8. File'.clean = clean /\ File'.added = added /\ File'.removed = removed
    <2>1. /\ Len(written) \in DOMAIN written /\ File = written[Len(written)]
          /\ File \in FileRecords /\ written \in Seq(FileRecords)
      BY LastFile
    <2>2. written' = [written EXCEPT ![Len(written)] = file]
      BY <1>2, <2>1 DEF FileRecords
    <2>3. added \in SUBSET Int /\ removed \in SUBSET Int /\ clean \in BOOLEAN
      <3>1. File.added \in SUBSET Int /\ File.removed \in SUBSET Int
        BY <2>1 DEF FileRecords
      <3>2. QED
        BY <1>3, <3>1
    <2> HIDE DEF added, removed, clean
    <2>4. file \in FileRecords /\ Same(File, file)
      BY <2>1, <2>3 DEF FileRecords, Same
    <2>5. File' = file
      BY <2>2, <2>4, LastChanged
    <2>6. QED
      BY <2>1, <2>5 DEF FileRecords
  <1>9. ASSUME File'.clean
        PROVE  TracksLines'
    <2>1. File.clean /\ look = "text" /\ TracksLines
      BY <1>8, <1>9
    <2>2. ~(due.old = 0 /\ due.new = 0)
      BY <1>2 DEF Whole
    <2>3. /\ due.changed = hunk.seenBody
          /\ BodySide(current.newRanges, hunk.added, hunk.newCursor, at.new, due.new, File.added)
          /\ BodySide(current.oldRanges, hunk.removed, hunk.oldCursor, at.old, due.old,
                      File.removed)
      BY <1>3, <2>1, <2>2 DEF TracksLines, Bodiless
    <2>4. hunk' = Consumed(hunk, sign) /\ current' = current
      BY <1>2, <1>3, <2>1 DEF ReadBody
    <2>5. /\ hunk'.seenBody = (hunk.seenBody \/ sign # "space")
          /\ hunk'.newCursor = IF sign = "minus" THEN hunk.newCursor ELSE hunk.newCursor + 1
          /\ hunk'.oldCursor = IF sign = "plus" THEN hunk.oldCursor ELSE hunk.oldCursor + 1
          /\ hunk'.added = IF sign = "plus" THEN Append(hunk.added, hunk.newCursor)
                           ELSE hunk.added
          /\ hunk'.removed = IF sign = "minus" THEN Append(hunk.removed, hunk.oldCursor)
                             ELSE hunk.removed
      BY <1>3, <2>4, ConsumedIs
    <2>6. /\ due'.changed = (due.changed \/ sign # "space")
          /\ due'.new = IF sign = "minus" THEN due.new ELSE due.new - 1
          /\ due'.old = IF sign = "plus" THEN due.old ELSE due.old - 1
          /\ at'.new = IF sign = "minus" THEN at.new ELSE at.new + 1
          /\ at'.old = IF sign = "plus" THEN at.old ELSE at.old + 1
      BY <1>2, <1>3, <1>4
    <2>7. due'.changed = hunk'.seenBody
      BY <2>3, <2>5, <2>6
    <2>8. ~(~hunk'.seenBody /\ due'.old = 0 /\ due'.new = 0)
      <3>1. CASE sign # "space"
        BY <2>5, <3>1
      <3>2. CASE sign = "space"
        <4>1. due.changed \/ due.old + due.new > 2
          BY <1>2, <3>2
        <4>2. due'.new = due.new - 1 /\ due'.old = due.old - 1
          BY <2>6, <3>2
        <4>3. CASE due.changed
          BY <2>3, <2>5, <4>3
        <4>4. CASE due.old + due.new > 2
          BY <1>4, <4>2, <4>4
        <4>5. QED
          BY <4>1, <4>3, <4>4
      <3>3. QED
        BY <3>1, <3>2
    <2>9. BodySide(current.newRanges, hunk'.added, hunk'.newCursor, at'.new, due'.new, File'.added)
      <3>1. hunk.added \in Seq(Nat) /\ at.new \in Nat
        BY <1>3 DEF HunkRecords
      <3>2. CASE sign = "plus"
        <4>1. due.new > 0
          BY <1>2, <3>2
        <4>2. BodySide(current.newRanges, Append(hunk.added, hunk.newCursor), hunk.newCursor + 1,
                       at.new + 1, due.new - 1, File.added \cup {at.new})
          BY <1>4, <2>3, <3>1, <4>1, BodyAdds
        <4>3. QED
          BY <1>8, <2>5, <2>6, <3>2, <4>2
      <3>3. CASE sign = "space"
        <4>1. due.new > 0
          BY <1>2, <3>3
        <4>2. BodySide(current.newRanges, hunk.added, hunk.newCursor + 1, at.new + 1, due.new - 1,
                       File.added)
          BY <1>4, <2>3, <3>1, <4>1, BodyPasses
        <4>3. QED
          BY <1>8, <2>5, <2>6, <3>3, <4>2
      <3>4. CASE sign = "minus"
        BY <1>8, <2>3, <2>5, <2>6, <3>4
      <3>5. QED
        BY <3>2, <3>3, <3>4
    <2>10. BodySide(current.oldRanges, hunk'.removed, hunk'.oldCursor, at'.old, due'.old,
                    File'.removed)
      <3>1. hunk.removed \in Seq(Nat) /\ at.old \in Nat
        BY <1>3 DEF HunkRecords
      <3>2. CASE sign = "minus"
        <4>1. due.old > 0
          BY <1>2, <3>2
        <4>2. BodySide(current.oldRanges, Append(hunk.removed, hunk.oldCursor), hunk.oldCursor + 1,
                       at.old + 1, due.old - 1, File.removed \cup {at.old})
          BY <1>4, <2>3, <3>1, <4>1, BodyAdds
        <4>3. QED
          BY <1>8, <2>5, <2>6, <3>2, <4>2
      <3>3. CASE sign = "space"
        <4>1. due.old > 0
          BY <1>2, <3>3
        <4>2. BodySide(current.oldRanges, hunk.removed, hunk.oldCursor + 1, at.old + 1,
                       due.old - 1, File.removed)
          BY <1>4, <2>3, <3>1, <4>1, BodyPasses
        <4>3. QED
          BY <1>8, <2>5, <2>6, <3>3, <4>2
      <3>4. CASE sign = "plus"
        BY <1>8, <2>3, <2>5, <2>6, <3>4
      <3>5. QED
        BY <3>2, <3>3, <3>4
    <2> HIDE DEF o, n, added, removed, clean, file
    <2>11. QED
      BY <1>6, <2>4, <2>7, <2>8, <2>9, <2>10 DEF TracksLines, Bodiless
  <1>10. QED
    BY <1>2, <1>6, <1>7, <1>9

\* The other lines within a file leave its lines alone.
LEMMA OtherLines ==
    ASSUME PatchTyped, ExtendedHeader \/ RenameTo \/ Binary \/ OldFile \/ NewFile
    PROVE  /\ stage # "hunk" /\ stage' # "hunk" /\ UNCHANGED <<hunk, due, at>>
           /\ current'.newRanges = current.newRanges /\ current'.oldRanges = current.oldRanges
           /\ File'.added = File.added /\ File'.removed = File.removed /\ File'.clean = File.clean
  <1>1. {"newRanges", "oldRanges", "path", "old", "type", "binary"} \subseteq DOMAIN current
    BY DEF PatchTyped, NoFile
  <1>2. /\ stage # "hunk" /\ stage' # "hunk" /\ UNCHANGED <<hunk, due, at>>
        /\ written' \in {written, Naming}
        /\ current'.newRanges = current.newRanges /\ current'.oldRanges = current.oldRanges
    <2>1. CASE ExtendedHeader
      BY <1>1, <2>1 DEF ExtendedHeader, Line, ReadMode, ReadRenameFrom
    <2>2. CASE RenameTo
      BY <1>1, <2>2 DEF RenameTo, Line, ReadRenameTo
    <2>3. CASE Binary
      BY <1>1, <2>3 DEF Binary, Line, ReadBinary
    <2>4. CASE OldFile
      BY <1>1, <2>4 DEF OldFile, Line, ReadOldFile
    <2>5. CASE NewFile
      BY <1>1, <2>5 DEF NewFile, Line, ReadNewFile
    <2>6. QED
      BY <2>1, <2>2, <2>3, <2>4, <2>5
  <1>3. written # <<>>
    BY FileStep DEF Within
  <1>4. CASE written' = written
    BY <1>2, <1>4 DEF File
  <1>5. CASE written' = Naming
    <2> DEFINE file == [File EXCEPT !.named = TRUE]
    <2>1. /\ Len(written) \in DOMAIN written /\ File = written[Len(written)]
          /\ File \in FileRecords /\ written \in Seq(FileRecords)
      BY <1>3, LastFile
    <2>2. written' = [written EXCEPT ![Len(written)] = file]
      BY <1>5, <2>1 DEF Naming
    <2>3. file \in FileRecords /\ Same(File, file)
      BY <2>1 DEF FileRecords, Same
    <2>4. File' = file
      BY <1>3, <2>2, <2>3, LastChanged
    <2>5. QED
      BY <1>2, <2>1, <2>4 DEF FileRecords
  <1>6. QED
    BY <1>2, <1>4, <1>5

\* What the parser knows of the lines of the last file stays true within it.
LEMMA WithinTracksLines ==
    ASSUME PatchTyped, Within, LinesTyped, hunk # NoHunk <=> stage = "hunk",
           File.clean => TracksLines
    PROVE  /\ LinesTyped' /\ (hunk' # NoHunk <=> stage' = "hunk")
           /\ File'.clean => TracksLines'
  <1>1. written # <<>>
    BY FileStep
  <1>2. CASE ExtendedHeader \/ RenameTo \/ Binary \/ OldFile \/ NewFile
    <2>1. /\ stage # "hunk" /\ stage' # "hunk" /\ UNCHANGED <<hunk, due, at>>
          /\ current'.newRanges = current.newRanges /\ current'.oldRanges = current.oldRanges
          /\ File'.added = File.added /\ File'.removed = File.removed /\ File'.clean = File.clean
      BY <1>2, OtherLines
    <2>2. hunk = NoHunk /\ hunk' = NoHunk
      BY <2>1
    <2>3. LinesTyped'
      BY <2>1 DEF LinesTyped
    <2>4. QED
      BY <2>1, <2>2, <2>3 DEF TracksLines
  <1>3. CASE Hunk
    BY <1>1, <1>3, HunkStep
  <1>4. CASE Body
    BY <1>1, <1>4, BodyStep
  <1>5. QED
    BY <1>2, <1>3, <1>4 DEF Within

\* And so does what is reported of the others.
LEMMA WithinFormerExact ==
    ASSUME PatchTyped, Within, FormerExact
    PROVE  FormerExact'
  <1>1. written # <<>>
    BY FileStep
  <1>2. PICK f \in FileRecords :
          written' = [written EXCEPT ![Len(written)] = f] /\ Same(File, f)
    BY FileStep
  <1>3. Len(written) \in Nat \ {0}
    BY <1>1, LastFile
  <1>4. /\ Len(written') = Len(written)
        /\ \A n \in 1 .. Len(written) - 1 : written'[n] = written[n]
    BY <1>1, <1>2, LastChanged
  <1>5. changes' = changes
    BY WithinQuiet
  <1>6. ASSUME NEW n \in 0 .. Len(written) - 1
        PROVE  NamedUpTo(n)' = NamedUpTo(n)
    <2>1. 1 .. n \subseteq 1 .. Len(written) - 1
      BY <1>3
    <2>2. QED
      BY <1>4, <2>1 DEF NamedUpTo
  <1>7. NamedUpTo(Len(written) - 1)' = NamedUpTo(Len(written) - 1)
    BY <1>3, <1>4, <1>6
  <1>8. ASSUME NEW n \in NamedUpTo(Len(written) - 1), written'[n].clean
        PROVE  LinesRead(ChangeOf(n)', written'[n])
    <2>1. n \in 1 .. Len(written) - 1 /\ n \in 0 .. Len(written) - 1
      BY DEF NamedUpTo
    <2>2. written'[n] = written[n] /\ ChangeOf(n)' = ChangeOf(n)
      BY <1>4, <1>5, <1>6, <2>1 DEF ChangeOf
    <2>3. QED
      BY <1>8, <2>2 DEF FormerExact
  <1>9. QED
    BY <1>7, <1>8 DEF FormerExact

\* A plain patch names a file with the lines before its hunks.
LEMMA WithinTracksPlain ==
    ASSUME PatchTyped, Within, TracksPlain
    PROVE  TracksPlain'
  <1>1. PICK f \in FileRecords :
          /\ written' = [written EXCEPT ![Len(written)] = f] /\ Same(File, f)
          /\ f.named <=> File.named \/ stage \in {"renaming", "old"}
    BY FileStep
  <1>2. written # <<>>
    BY FileStep
  <1>3. File' = f /\ File.path # NoPath /\ Rest # NoPath
    BY <1>1, <1>2, LastChanged, LastFile, DiffAssumption DEF FileRecords, Paths
  <1>4. {"newRanges", "oldRanges", "path", "old", "type", "binary"} \subseteq DOMAIN current
    BY DEF PatchTyped, NoFile
  <1>5. changes' = <<>> /\ stage \in {"old", "name", "hunk"}
    BY WithinQuiet DEF TracksPlain
  <1>6. stage' \in {"name", "hunk"} /\ current'.path # NoPath
    <2>1. CASE ExtendedHeader \/ RenameTo \/ Binary \/ OldFile
      BY <1>5, <2>1 DEF ExtendedHeader, RenameTo, Binary, OldFile
    <2>2. CASE NewFile
      <3>1. /\ stage = "old" /\ stage' = "name"
            /\ ReadNewFile(IF File.type = "deleted" THEN NoPath ELSE File.path)
        BY <2>2 DEF NewFile, Line
      <3>2. File.type = "deleted" => current.old # NoPath
        BY <3>1 DEF TracksPlain
      <3>3. QED
        BY <1>3, <1>4, <3>1, <3>2 DEF ReadNewFile
    <2>3. CASE Hunk
      <3>1. PICK skip \in {0, 1}, oc \in 0 .. MaxSpan, nc \in 0 .. MaxSpan, bare \in BOOLEAN :
               HunkOf(skip, oc, nc, bare)
        BY <2>3 DEF Hunk
      <3>2. stage # "old" /\ stage' = "hunk" /\ current' = Commit(current, hunk)
        BY <3>1 DEF HunkOf, Line, ReadHunkHeader
      <3>3. current'.path = current.path
        BY <1>4, <3>2 DEF Commit
      <3>4. QED
        BY <3>2, <3>3 DEF TracksPlain
    <2>4. CASE Body
      <3>1. PICK sign \in {"plus", "minus", "space"}, look \in Looks : BodyLine(sign, look)
        BY <2>4 DEF Body
      <3>2. stage # "old" /\ stage' = "hunk" /\ ReadBody(sign, look)
        BY <3>1 DEF BodyLine, Line
      <3>3. current.path # NoPath
        BY <3>2 DEF TracksPlain
      <3>4. current'.path = current.path
        BY <1>3, <1>4, <3>2, <3>3 DEF ReadBody, ReadOldFile, ReadNewFile
      <3>5. QED
        BY <3>2, <3>3, <3>4
    <2>5. QED
      BY <2>1, <2>2, <2>3, <2>4 DEF Within
  <1>7. QED
    BY <1>5, <1>6 DEF TracksPlain

-----------------------------------------------------------------------------
(* The lines of all files.                                                 *)

LEMMA WithinKeepsLines == PatchInv /\ LinesInv /\ Within => LinesInv'
  <1> SUFFICES ASSUME PatchInv, LinesInv, Within PROVE LinesInv'
    OBVIOUS
  <1>1. PatchTyped /\ outcome = "reading" /\ outcome' = "reading" /\ format' = format
    BY WithinQuiet DEF PatchInv
  <1>2. PICK f \in FileRecords :
          /\ written # <<>>
          /\ written' = [written EXCEPT ![Len(written)] = f] /\ Same(File, f)
    BY <1>1, FileStep
  <1>3. written' # <<>> /\ Len(written') = Len(written)
    BY <1>1, <1>2, LastChanged
  <1>4. OneByOne' <=> OneByOne
    BY <1>1, <1>3 DEF OneByOne
  <1>5. CleanFilesAreExact'
    BY <1>1 DEF CleanFilesAreExact, Parsed
  <1>6. CASE OneByOne
    <2>1. /\ LinesTyped /\ (hunk # NoHunk <=> stage = "hunk")
          /\ File.clean => TracksLines
          /\ format = "git" => FormerExact
          /\ format # "git" => TracksPlain
      BY <1>1, <1>2, <1>6 DEF LinesInv
    <2>2. /\ LinesTyped' /\ (hunk' # NoHunk <=> stage' = "hunk")
          /\ File'.clean => TracksLines'
      BY <1>1, <2>1, WithinTracksLines
    <2>3. format = "git" => FormerExact'
      BY <1>1, <2>1, WithinFormerExact
    <2>4. format # "git" => TracksPlain'
      BY <1>1, <2>1, WithinTracksPlain
    <2>5. QED
      BY <1>1, <1>3, <1>5, <2>2, <2>3, <2>4 DEF LinesInv
  <1>7. CASE ~OneByOne
    BY <1>3, <1>4, <1>5, <1>7 DEF LinesInv
  <1>8. QED
    BY <1>6, <1>7

\* A header begins a file without changed lines.
LEMMA HeaderKeepsLines == PatchInv /\ LinesInv /\ GitHeader => LinesInv'
  <1> SUFFICES ASSUME PatchInv, LinesInv, GitHeader PROVE LinesInv'
    OBVIOUS
  <1>1. PICK type \in ChangeTypes, binary \in BOOLEAN, legible \in BOOLEAN :
          HeaderOf(type, binary, legible)
    BY DEF GitHeader
  <1> DEFINE path == Names[Len(written) + 1]
             former == IF type = "renamed" THEN OldName ELSE path
             file == [path |-> path, old |-> former, type |-> type, binary |-> binary,
                      named |-> legible, legible |-> legible, added |-> {}, removed |-> {},
                      clean |-> TRUE]
  <1>2. /\ format = "git" /\ format' = format /\ outcome = "reading" /\ outcome' = outcome
        /\ stage' = "header" /\ (stage # "start" => Whole) /\ written' = Append(written, file)
        /\ at' = [old |-> 1, new |-> 1] /\ Len(written) < Len(Names)
        /\ hunk' = NoHunk /\ changes' = changes \o Finish(current, hunk)
        /\ current' \in {HeaderFile(former, path), NoFile}
    BY <1>1 DEF HeaderOf, NextFile, Line, ReadGitHeader, ReadBadHeader
  <1>3. PatchTyped /\ Len(written) \in Nat
    BY LenProperties DEF PatchInv, PatchTyped
  <1>4. path \in Paths
    <2>1. Names \in Seq(Paths) /\ Len(Names) \in Nat
      BY DiffAssumption, LenProperties DEF Paths
    <2>2. Len(written) + 1 \in 1 .. Len(Names)
      BY <1>2, <1>3, <2>1
    <2>3. QED
      BY <2>1, <2>2, ElementOfSeq
  <1>5. file \in FileRecords
    BY <1>4 DEF FileRecords
  <1> HIDE DEF path
  <1>6. /\ Len(written') = Len(written) + 1 /\ written' # <<>> /\ File' = file
        /\ \A n \in 1 .. Len(written) : written'[n] = written[n]
        /\ \A n \in 0 .. Len(written) : NamedUpTo(n)' = NamedUpTo(n)
    BY <1>2, <1>3, <1>5, FileAdded
  <1>7. LinesTyped'
    BY <1>2 DEF LinesTyped
  <1>8. TracksLines'
    <2>1. current'.newRanges = <<>> /\ current'.oldRanges = <<>>
      <3>1. NoFile.newRanges = <<>> /\ NoFile.oldRanges = <<>>
        BY DEF NoFile
      <3>2. /\ HeaderFile(former, path).newRanges = <<>>
            /\ HeaderFile(former, path).oldRanges = <<>>
        BY DEF HeaderFile, NoFile
      <3>3. QED
        BY <1>2, <3>1, <3>2
    <2>2. File'.added = {} /\ File'.removed = {}
      BY <1>6
    <2>3. QED
      BY <1>2, <2>1, <2>2 DEF TracksLines
  <1>9. ASSUME NEW n \in NamedUpTo(Len(written)), written[n].clean
        PROVE  LinesRead(changes'[Cardinality(NamedUpTo(n))], written[n])
    <2>1. n \in 1 .. Len(written) /\ written # <<>>
      BY <1>3 DEF NamedUpTo
    <2>2. TracksName /\ TracksKind /\ Reported
      BY <1>2, <2>1 DEF PatchInv
    <2>3. LinesTyped /\ (File.clean => TracksLines) /\ FormerExact
      BY <1>2, <2>1 DEF LinesInv, OneByOne
    <2>4. Whole
      BY <1>2, <1>3, <2>1 DEF PatchTyped
    <2>5. QED
      BY <1>2, <1>3, <1>9, <2>1, <2>2, <2>3, <2>4, FlushedExact
  <1>10. FormerExact'
    <2>1. Len(written') - 1 = Len(written) /\ Len(written) \in 0 .. Len(written)
      BY <1>3, <1>6
    <2>2. NamedUpTo(Len(written) - 1)' = NamedUpTo(Len(written))
      <3>1. NamedUpTo(Len(written) - 1)' = {n \in 1 .. Len(written) : written'[n].named}
        BY <2>1 DEF NamedUpTo
      <3>2. \A n \in 1 .. Len(written) : written'[n].named = written[n].named
        BY <1>6
      <3>3. QED
        BY <3>1, <3>2 DEF NamedUpTo
    <2>3. ASSUME NEW n \in NamedUpTo(Len(written)), written'[n].clean
          PROVE  LinesRead(ChangeOf(n)', written'[n])
      <3>1. n \in 1 .. Len(written) /\ n \in 0 .. Len(written)
        BY DEF NamedUpTo
      <3>2. written'[n] = written[n] /\ ChangeOf(n)' = changes'[Cardinality(NamedUpTo(n))]
        BY <1>6, <3>1 DEF ChangeOf
      <3>3. QED
        BY <1>9, <2>3, <3>2
    <2>4. QED
      BY <2>2, <2>3 DEF FormerExact
  <1>11. CleanFilesAreExact'
    BY <1>2 DEF CleanFilesAreExact, Parsed
  <1>12. QED
    BY <1>2, <1>6, <1>7, <1>8, <1>10, <1>11 DEF LinesInv

\* So do the first lines of a plain patch; after the next file's nothing is
\* said of it any more.
LEMMA PlainKeepsLines == PatchInv /\ LinesInv /\ PlainFile => LinesInv'
  <1> SUFFICES ASSUME PatchInv, LinesInv, PlainFile PROVE LinesInv'
    OBVIOUS
  <1>1. PICK type \in ChangeTypes \ {"renamed"} : PlainFileOf(type)
    BY DEF PlainFile
  <1> DEFINE path == Names[Len(written) + 1]
             file == [path |-> path, old |-> path, type |-> type, binary |-> FALSE,
                      named |-> FALSE, legible |-> FALSE, added |-> {}, removed |-> {},
                      clean |-> TRUE]
  <1>2. /\ format = "plain" /\ format' = format /\ outcome = "reading" /\ stage' = "old"
        /\ written' = Append(written, file) /\ at' = [old |-> 1, new |-> 1]
        /\ Len(written) < Len(Names)
        /\ ReadOldFile(IF type = "added" THEN NoPath ELSE path)
    BY <1>1 DEF PlainFileOf, NextFile, Line
  <1>3. PatchTyped /\ Len(written) \in Nat
    BY LenProperties DEF PatchInv, PatchTyped
  <1>4. path \in Paths /\ path # NoPath
    <2>1. Names \in Seq(Paths) /\ Len(Names) \in Nat
      BY DiffAssumption, LenProperties DEF Paths
    <2>2. Len(written) + 1 \in 1 .. Len(Names)
      BY <1>2, <1>3, <2>1
    <2>3. path \in Paths
      BY <2>1, <2>2, ElementOfSeq
    <2>4. QED
      BY <2>3, DiffAssumption DEF Paths
  <1>5. file \in FileRecords
    BY <1>4 DEF FileRecords
  <1> HIDE DEF path
  <1>6. Len(written') = Len(written) + 1 /\ written' # <<>> /\ File' = file
    BY <1>2, <1>3, <1>5, FileAdded
  <1>7. outcome' = "reading" /\ hunk' = hunk /\ changes' = changes
    BY <1>2 DEF ReadOldFile
  <1>8. CleanFilesAreExact'
    BY <1>7 DEF CleanFilesAreExact, Parsed
  <1>9. CASE written = <<>>
    <2>1. hunk = NoHunk /\ changes = <<>> /\ current = NoFile
      BY <1>2, <1>9 DEF PatchInv, LinesInv
    <2>2. LinesTyped'
      BY <1>2, <1>7, <2>1 DEF LinesTyped
    <2>3. /\ current'.newRanges = <<>> /\ current'.oldRanges = <<>>
          /\ type # "added" => current'.old # NoPath
      BY <1>2, <1>4, <2>1 DEF ReadOldFile, NoFile
    <2>4. /\ File'.added = {} /\ File'.removed = {} /\ File'.named = FALSE /\ File'.type = type
      BY <1>6
    <2>5. TracksLines'
      BY <1>7, <2>1, <2>3, <2>4 DEF TracksLines
    <2>6. TracksPlain'
      BY <1>2, <1>7, <2>1, <2>3, <2>4 DEF TracksPlain
    <2>7. QED
      BY <1>2, <1>6, <1>7, <1>8, <2>1, <2>2, <2>5, <2>6 DEF LinesInv
  <1>10. CASE written # <<>>
    <2>1. Len(written) # 0
      BY <1>3, <1>10, EmptySeq DEF PatchTyped
    <2>2. ~OneByOne'
      BY <1>2, <1>3, <1>6, <2>1 DEF OneByOne
    <2>3. QED
      BY <1>6, <1>8, <2>2 DEF LinesInv
  <1>11. QED
    BY <1>9, <1>10

\* When the patch ends the last file is reported with its lines, if they were
\* all read.
LEMMA EndKeepsLines == PatchInv /\ LinesInv /\ EndOfPatch => LinesInv'
  <1> SUFFICES ASSUME PatchInv, LinesInv, EndOfPatch PROVE LinesInv'
    OBVIOUS
  <1>1. /\ outcome = "reading" /\ outcome' = "parsed"
        /\ changes' = changes \o Finish(current, hunk)
        /\ format' = format /\ stage' = stage /\ due' = due /\ written' = written
    BY DEF EndOfPatch, patchVars
  <1>2. PatchTyped /\ Len(written) \in Nat /\ IsList(changes) /\ DOMAIN current = DOMAIN NoFile
    BY LenProperties DEF PatchInv, PatchTyped
  <1>3. /\ \A n : NamedUpTo(n)' = NamedUpTo(n)
        /\ Whole' = Whole
    BY <1>1 DEF NamedUpTo, Whole, File
  <1>4. /\ \A n : Complete(n)' => n < Len(written) \/ Whole
        /\ \A n : ChangeOf(n)' = changes'[Cardinality(NamedUpTo(n))]
    BY <1>1, <1>3 DEF Complete, ChangeOf
  <1>5. ASSUME OneByOne, NEW n \in NamedUpTo(Len(written)), n < Len(written) \/ Whole,
               written[n].clean
        PROVE  LinesRead(changes'[Cardinality(NamedUpTo(n))], written[n])
    <2>1. n \in 1 .. Len(written) /\ written[n].named
      BY DEF NamedUpTo
    <2>2. written # <<>>
      BY <1>2, <2>1
    <2>3. /\ LinesTyped /\ (File.clean => TracksLines)
          /\ format = "git" => FormerExact
          /\ format # "git" => TracksPlain
      BY <1>1, <1>5, <2>2 DEF LinesInv
    <2>4. CASE format = "git"
      <3>1. TracksName /\ TracksKind /\ Reported
        BY <1>1, <2>2, <2>4 DEF PatchInv
      <3>2. QED
        BY <1>1, <1>2, <1>5, <2>2, <2>3, <2>4, <3>1, FlushedExact
    <2>5. CASE format # "git"
      <3>1. Len(written) = 1 /\ n = 1
        BY <1>5, <2>1, <2>5 DEF OneByOne
      <3>2. File = written[n]
        BY <3>1 DEF File, Last
      <3>3. Whole
        BY <1>5, <3>1
      <3>4. changes = <<>> /\ current.path # NoPath
        BY <2>1, <2>3, <2>5, <3>2 DEF TracksPlain
      <3>5. LinesRead(changes'[Len(changes) + 1], File)
        BY <1>1, <1>2, <1>5, <2>3, <3>2, <3>3, <3>4, LastExact DEF Whole
      <3>6. Cardinality(NamedUpTo(1)) = 1
        <4>1. /\ Cardinality(NamedUpTo(0)) = 0
              /\ Cardinality(NamedUpTo(0 + 1)) =
                   Cardinality(NamedUpTo(0)) + IF written[0 + 1].named THEN 1 ELSE 0
          BY NamedNext
        <4>2. QED
          BY <2>1, <3>1, <4>1
      <3>7. Len(changes) = 0
        BY <3>4, EmptySeq
      <3>8. QED
        BY <3>1, <3>2, <3>5, <3>6, <3>7
    <2>6. QED
      BY <2>4, <2>5
  <1>6. CleanFilesAreExact'
    <2>1. ASSUME OneByOne, NEW n \in NamedUpTo(Len(written)), Complete(n)', written[n].clean
          PROVE  LinesRead(ChangeOf(n)', written[n])
      BY <1>4, <1>5, <2>1
    <2>2. NamedUpTo(Len(written))' = NamedUpTo(Len(written))
      BY <1>1 DEF NamedUpTo
    <2>3. QED
      BY <1>1, <2>1, <2>2 DEF CleanFilesAreExact, OneByOne
  <1>7. QED
    BY <1>1, <1>6 DEF LinesInv

LEMMA LinesInvAtFirst == DiffInit => LinesInv
  BY DEF DiffInit, LinesInv, CleanFilesAreExact, Parsed

LEMMA LinesInvIsKept == PatchInv /\ LinesInv /\ [DiffNext]_diffVars => LinesInv'
  <1> SUFFICES ASSUME PatchInv, LinesInv, [DiffNext]_diffVars PROVE LinesInv'
    OBVIOUS
  <1>1. CASE GitHeader
    BY <1>1, HeaderKeepsLines
  <1>2. CASE PlainFile
    BY <1>2, PlainKeepsLines
  <1>3. CASE EndOfPatch
    BY <1>3, EndKeepsLines
  <1>4. CASE Within
    BY <1>4, WithinKeepsLines
  <1>5. CASE NoPatch
    <2>1. outcome' = "failed"
      BY <1>5 DEF NoPatch
    <2>2. QED
      BY <2>1 DEF LinesInv, CleanFilesAreExact, Parsed
  <1>6. CASE UNCHANGED diffVars
    <2>1. /\ changes' = changes /\ current' = current /\ hunk' = hunk /\ format' = format
          /\ outcome' = outcome /\ stage' = stage /\ due' = due /\ at' = at
          /\ written' = written
      BY <1>6 DEF diffVars, parserVars, patchVars
    <2>2. /\ LinesTyped' = LinesTyped /\ TracksLines' = TracksLines /\ TracksPlain' = TracksPlain
          /\ OneByOne' = OneByOne
      BY <2>1 DEF LinesTyped, TracksLines, Bodiless, TracksPlain, OneByOne, File
    <2>3. FormerExact' = FormerExact /\ CleanFilesAreExact' = CleanFilesAreExact
      BY <2>1 DEF FormerExact, CleanFilesAreExact, NamedUpTo, ChangeOf, Parsed, Complete, Whole,
                  File
    <2>4. File' = File
      BY <2>1 DEF File
    <2>5. QED
      BY <2>1, <2>2, <2>3, <2>4 DEF LinesInv
  <1>7. QED
    BY <1>1, <1>2, <1>3, <1>4, <1>5, <1>6 DEF DiffNext, Within

(***************************************************************************)
(* Whatever a git patch, or a plain one of one file, holds and wherever it *)
(* is cut, the changed lines reported of a complete file in which nothing  *)
(* is misread are exactly those that the patch adds and removes in it, as  *)
(* the longest runs, in order (_HunkState, _FileAccumulator.finish).       *)
(***************************************************************************)
THEOREM CleanFilesAreAlwaysExact == DiffSpec => []CleanFilesAreExact
  <1>1. DiffInit => PatchInv /\ LinesInv
    BY PatchInvAtFirst, LinesInvAtFirst
  <1>2. PatchInv /\ LinesInv /\ [DiffNext]_diffVars => (PatchInv /\ LinesInv)'
    BY PatchInvIsKept, LinesInvIsKept
  <1>3. LinesInv => CleanFilesAreExact
    BY DEF LinesInv
  <1>4. QED
    BY <1>1, <1>2, <1>3, PTL DEF DiffSpec

=============================================================================
