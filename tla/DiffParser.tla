----------------------------- MODULE DiffParser -----------------------------
(***************************************************************************)
(* The parse of one patch (ingest/diff.py), a line at a time.  The patch   *)
(* is written as git writes it, or as plain `diff -u` does without the     *)
(* "diff --git" lines, with or without the bodies of its hunks, and may    *)
(* stop anywhere.  `written` keeps what it says of each file, the parser's *)
(* answer is compared with that.                                           *)
(*                                                                         *)
(* A line of a body has a sign and a look: the text of a "header" line     *)
(* begins with its own sign twice and a space, so that the line begins     *)
(* with "--- " or "+++ ", that of a "marks" line with the sign twice and   *)
(* anything else.                                                          *)
(***************************************************************************)
EXTENDS Integers, SequencesExt

CONSTANTS
    Names,          \* the paths of the files, in order
    OldName,        \* the path of a renamed file before
    Spaced,         \* paths with a space in them
    Formats,        \* of patches: "git", "plain"
    Looks,          \* of the lines of a body: "text", "header", "marks"
    NoPath,
    MaxHunks,       \* bound: hunks of the patch
    MaxSpan         \* bound: lines of a hunk, on both sides

VARIABLES
    changes,        \* the files found so far
    current,        \* the file being read
    hunk,           \* the hunk being read, NoHunk between hunks
    diffWarnings,
    outcome,        \* "reading", "parsed" or "failed"
    format, stage,  \* the patch: its format, the kind of its last line,
    due, at,        \* lines of the hunk still to come, next line on a side,
    written,        \* what it says of its files
    hunks           \* and how many it has

parserVars == <<changes, current, hunk, diffWarnings, outcome>>
patchVars == <<format, stage, due, at, written, hunks>>
diffVars == <<parserVars, patchVars>>

\* What is taken for a path when a line is not what it looks like.
Word == "first_word"
Rest == "rest_of_line"

\* No path is another's old name, or empty.
ASSUME DiffAssumption ==
    /\ Names \in Seq(Range(Names)) /\ {OldName, NoPath} \cap Range(Names) = {}
    /\ NoPath \notin {OldName, Word, Rest}
    /\ MaxHunks \in Nat /\ MaxSpan \in Nat

ChangeTypes == {"added", "modified", "deleted", "renamed"}

NoFile == [path |-> NoPath, old |-> NoPath, type |-> "modified", binary |-> FALSE,
           newRanges |-> <<>>, oldRanges |-> <<>>]

NoHunk == [none |-> TRUE]

LineRange(from, to) == [start |-> from, end |-> to]

-----------------------------------------------------------------------------
(* Ranges of lines.                                                        *)

\* Python sorts tuples by their first components, then by their second.
StartsFirst(r, s) == r.start < s.start \/ (r.start = s.start /\ r.end < s.end)

\* Ranges are sorted, those that are equal as they come.
RangePlace(ranges, i) ==
    1 + Cardinality({j \in DOMAIN ranges : \/ StartsFirst(ranges[j], ranges[i])
                                           \/ ranges[j] = ranges[i] /\ j < i})

SortedRanges(ranges) ==
    [k \in DOMAIN ranges |-> ranges[CHOOSE i \in DOMAIN ranges : RangePlace(ranges, i) = k]]

\* Runs of consecutive lines become one range.
AddLine(ranges, line) ==
    IF ranges # <<>> /\ line.start = Last(ranges).end + 1
    THEN [ranges EXCEPT ![Len(ranges)].end = line.end]
    ELSE Append(ranges, line)

RangesFromLines(numbers) ==
    LET lines == SortedRanges([i \in DOMAIN numbers |-> LineRange(numbers[i], numbers[i])])
        Upto[k \in 0 .. Len(lines)] ==
            IF k = 0 THEN <<>> ELSE AddLine(Upto[k - 1], lines[k])
    IN  Upto[Len(lines)]

\* Ranges that touch or overlap become one.
AddRange(merged, r) ==
    IF merged # <<>> /\ r.start <= Last(merged).end + 1
    THEN [merged EXCEPT ![Len(merged)].end = IF @ < r.end THEN r.end ELSE @]
    ELSE Append(merged, r)

MergeRanges(ranges) ==
    LET sorted == SortedRanges(ranges)
        Upto[k \in 0 .. Len(sorted)] ==
            IF k = 0 THEN <<>> ELSE AddRange(Upto[k - 1], sorted[k])
    IN  Upto[Len(sorted)]

-----------------------------------------------------------------------------
(* The parser's handling of the lines, as functions of its state.          *)

\* A hunk ends: its lines, or all its header announces if it had no body,
\* belong to the current file (_HunkState.commit).
Commit(file, h) ==
    LET whole(first, count) == IF count = 0 THEN <<>> ELSE <<LineRange(first, first + count - 1)>>
    IN  IF h = NoHunk THEN file
        ELSE [file EXCEPT
            !.newRanges = @ \o IF h.seenBody THEN RangesFromLines(h.added)
                               ELSE whole(h.newCursor, h.newCount),
            !.oldRanges = @ \o IF h.seenBody THEN RangesFromLines(h.removed)
                               ELSE whole(h.oldCursor, h.oldCount)]

\* The current file is complete (flush, _FileAccumulator.finish); a file
\* without a path is not reported.
Finish(file, h) ==
    LET read == Commit(file, h)
    IN  IF read.path = NoPath THEN <<>>
        ELSE <<[read EXCEPT !.old = IF @ = read.path THEN NoPath ELSE @,
                            !.newRanges = MergeRanges(@), !.oldRanges = MergeRanges(@)]>>

\* "diff --git old new" is split at its first space.
HeaderFile(old, new) ==
    IF {old, new} \cap Spaced = {} THEN [NoFile EXCEPT !.path = new, !.old = old]
    ELSE [NoFile EXCEPT !.path = Rest, !.old = Word]

ReadGitHeader(old, new) ==
    /\ changes' = changes \o Finish(current, hunk)
    /\ current' = HeaderFile(old, new)
    /\ hunk' = NoHunk
    /\ UNCHANGED <<diffWarnings, outcome>>

ReadBadHeader ==
    /\ changes' = changes \o Finish(current, hunk)
    /\ current' = NoFile
    /\ hunk' = NoHunk
    /\ diffWarnings' = diffWarnings \cup {"bad_diff_header"}
    /\ UNCHANGED outcome

ReadMode(type) ==
    /\ current' = [current EXCEPT !.type = type]
    /\ UNCHANGED <<changes, hunk, diffWarnings, outcome>>

ReadBinary ==
    /\ current' = [current EXCEPT !.binary = TRUE]
    /\ UNCHANGED <<changes, hunk, diffWarnings, outcome>>

ReadRenameFrom(path) ==
    /\ current' = [current EXCEPT !.type = "renamed", !.old = path]
    /\ UNCHANGED <<changes, hunk, diffWarnings, outcome>>

ReadRenameTo(path) ==
    /\ current' = [current EXCEPT !.type = "renamed", !.path = path]
    /\ UNCHANGED <<changes, hunk, diffWarnings, outcome>>

\* "--- path"; NoPath stands for /dev/null.
ReadOldFile(path) ==
    /\ current' = IF path = NoPath THEN [current EXCEPT !.type = "added"]
                  ELSE [current EXCEPT !.old = IF @ = NoPath THEN path ELSE @]
    /\ UNCHANGED <<changes, hunk, diffWarnings, outcome>>

\* A deleted file has no name when only "+++ " gives it one.
MutReadNewFile(path) ==
    /\ current' = IF path = NoPath THEN [current EXCEPT !.type = "deleted"]
                  ELSE [current EXCEPT !.path = path]
    /\ UNCHANGED <<changes, hunk, diffWarnings, outcome>>

\* "+++ path": a deleted file keeps its old name.
ReadNewFile(path) ==
    /\ current' =
        IF path = NoPath
        THEN [current EXCEPT !.type = "deleted", !.path = IF @ = NoPath THEN current.old ELSE @]
        ELSE [current EXCEPT !.path = IF @ = NoPath THEN path ELSE @]
    /\ UNCHANGED <<changes, hunk, diffWarnings, outcome>>

AtLeast(n, floor) == IF n < floor THEN floor ELSE n

\* "@@ -o,oc +n,nc @@"
ReadHunkHeader(o, oc, n, nc) ==
    /\ current' = Commit(current, hunk)
    /\ hunk' = [none |-> FALSE, oldCursor |-> AtLeast(o, 1), newCursor |-> AtLeast(n, 1),
                oldCount |-> oc, newCount |-> nc, added |-> <<>>, removed |-> <<>>,
                seenBody |-> FALSE]
    /\ UNCHANGED <<changes, diffWarnings, outcome>>

\* Lines of context are not counted.
MutConsumed(h, sign) ==
    CASE sign = "plus" -> [h EXCEPT !.seenBody = TRUE, !.newCursor = @ + 1,
                                 !.added = Append(@, h.newCursor)]
      [] sign = "minus" -> [h EXCEPT !.seenBody = TRUE, !.oldCursor = @ + 1,
                                 !.removed = Append(@, h.oldCursor)]
      [] OTHER -> h

\* A line within a hunk (_HunkState.consume).
Consumed(h, sign) ==
    CASE sign = "plus" -> [h EXCEPT !.seenBody = TRUE, !.newCursor = @ + 1,
                                 !.added = Append(@, h.newCursor)]
      [] sign = "minus" -> [h EXCEPT !.seenBody = TRUE, !.oldCursor = @ + 1,
                                 !.removed = Append(@, h.oldCursor)]
      [] sign = "space" -> [h EXCEPT !.newCursor = @ + 1, !.oldCursor = @ + 1]

\* A line of the body, unless it looks like the name of a file; neither it
\* nor what only begins like one is counted.
ReadBody(sign, look) ==
    IF look = "header"
    THEN IF sign = "minus" THEN ReadOldFile(Rest) ELSE ReadNewFile(Rest)
    ELSE /\ hunk' = IF hunk = NoHunk \/ look = "marks" THEN hunk ELSE Consumed(hunk, sign)
         /\ UNCHANGED <<changes, current, diffWarnings, outcome>>

-----------------------------------------------------------------------------
(* The patch.                                                              *)

DiffInit ==
    /\ changes = <<>> /\ current = NoFile /\ hunk = NoHunk
    /\ diffWarnings = {} /\ outcome = "reading"
    /\ format \in Formats
    /\ stage = "start" /\ due = [old |-> 0, new |-> 0, changed |-> FALSE] /\ at = [old |-> 1, new |-> 1]
    /\ written = <<>> /\ hunks = 0

File == Last(written)

\* The last file says all it has to.
Whole ==
    /\ due.old = 0 /\ due.new = 0
    /\ \/ stage \in {"name", "hunk"}
       \/ /\ stage = "extended" \/ (stage = "header" /\ File.type = "modified")
          /\ ~File.binary

Line(next) ==
    /\ outcome = "reading"
    /\ stage' = next

\* The next file. In a git patch it has a header, which may be cut short.
NextFile(path, old, type, binary, legible) ==
    /\ stage # "start" => Whole
    /\ written' = Append(written,
           [path |-> path, old |-> old, type |-> type, binary |-> binary, named |-> legible,
            legible |-> legible, added |-> {}, removed |-> {}, clean |-> TRUE])
    /\ at' = [old |-> 1, new |-> 1]
    /\ UNCHANGED <<format, due, hunks>>

\* A line names the last file.
Naming == [written EXCEPT ![Len(written)].named = TRUE]

HeaderOf(type, binary, legible) ==
    LET path == Names[Len(written) + 1]
        old == IF type = "renamed" THEN OldName ELSE path
    IN
    /\ format = "git" /\ Len(written) < Len(Names)
    /\ NextFile(path, old, type, binary, legible)
    /\ Line("header")
    /\ IF legible THEN ReadGitHeader(old, path) ELSE ReadBadHeader

GitHeader ==
    \E type \in ChangeTypes, binary, legible \in BOOLEAN : HeaderOf(type, binary, legible)

ExtendedHeader ==
    /\ stage = "header" /\ UNCHANGED <<format, due, at, written, hunks>>
    /\ \/ /\ File.type \in {"added", "deleted"}
          /\ Line("extended") /\ ReadMode(File.type)
       \/ File.type = "renamed" /\ Line("renaming") /\ ReadRenameFrom(File.old)

RenameTo ==
    /\ stage = "renaming" /\ Line("extended") /\ ReadRenameTo(File.path)
    /\ written' = Naming
    /\ UNCHANGED <<format, due, at, hunks>>

Binary ==
    /\ stage \in {"header", "extended"}
    /\ stage = "header" => File.type = "modified"
    /\ File.binary
    /\ Line("name") /\ ReadBinary
    /\ UNCHANGED <<format, due, at, written, hunks>>

\* A plain patch begins a file here.
PlainFileOf(type) ==
    LET path == Names[Len(written) + 1]
    IN
    /\ format = "plain" /\ Len(written) < Len(Names)
    /\ NextFile(path, path, type, FALSE, FALSE)
    /\ Line("old")
    /\ ReadOldFile(IF type = "added" THEN NoPath ELSE path)

PlainFile == \E type \in ChangeTypes \ {"renamed"} : PlainFileOf(type)

OldFile ==
    /\ stage \in {"header", "extended"}
    /\ stage = "header" => File.type = "modified"
    /\ ~File.binary
    /\ Line("old") /\ ReadOldFile(IF File.type = "added" THEN NoPath ELSE File.old)
    /\ UNCHANGED <<format, due, at, written, hunks>>

NewFile ==
    /\ stage = "old"
    /\ Line("name") /\ ReadNewFile(IF File.type = "deleted" THEN NoPath ELSE File.path)
    /\ written' = Naming
    /\ UNCHANGED <<format, due, at, hunks>>

\* The next hunk, `skip` lines on, with its body to come or without one. A
\* side without lines is numbered by the line before.
HunkOf(skip, oc, nc, bare) ==
    LET o == at.old + skip
        n == at.new + skip
    IN
    /\ stage \in {"name", "hunk"} /\ Whole /\ ~File.binary
    /\ hunks < MaxHunks /\ hunks' = hunks + 1
    /\ oc + nc \in 1 .. MaxSpan
    /\ stage = "name" => skip = 0
    /\ File.type = "added" => oc = 0
    /\ File.type = "deleted" => nc = 0
    /\ Line("hunk")
    /\ ReadHunkHeader(IF oc = 0 THEN o - 1 ELSE o, oc, IF nc = 0 THEN n - 1 ELSE n, nc)
    /\ due' = IF bare THEN due ELSE [old |-> oc, new |-> nc, changed |-> FALSE]
    /\ at' = IF bare THEN [old |-> o + oc, new |-> n + nc] ELSE [old |-> o, new |-> n]
    /\ written' = IF ~bare THEN written
                  ELSE [written EXCEPT ![Len(written)].added = @ \cup n .. n + nc - 1,
                                       ![Len(written)].removed = @ \cup o .. o + oc - 1]
    /\ UNCHANGED format

Hunk ==
    \E skip \in {0, 1}, oc, nc \in 0 .. MaxSpan, bare \in BOOLEAN : HunkOf(skip, oc, nc, bare)

\* Bound: one line of the patch at most is not plain text.
BodyLine(sign, look) ==
    LET old == IF sign = "plus" THEN 0 ELSE 1
        new == IF sign = "minus" THEN 0 ELSE 1
    IN
    /\ ~Whole /\ stage = "hunk"
    /\ sign # "plus" => due.old > 0
    /\ sign # "minus" => due.new > 0
    /\ look # "text" => \A n \in DOMAIN written : written[n].clean
    /\ sign = "space" => look = "text" /\ (due.changed \/ due.old + due.new > 2)
    /\ Line("hunk")
    /\ ReadBody(sign, look)
    /\ due' = [old |-> due.old - old, new |-> due.new - new,
               changed |-> due.changed \/ sign # "space"]
    /\ at' = [old |-> at.old + old, new |-> at.new + new]
    /\ written' = [written EXCEPT
           ![Len(written)].added = IF sign = "plus" THEN @ \cup {at.new} ELSE @,
           ![Len(written)].removed = IF sign = "minus" THEN @ \cup {at.old} ELSE @,
           ![Len(written)].clean = @ /\ look = "text"]
    /\ UNCHANGED <<format, hunks>>

Body == \E sign \in {"plus", "minus", "space"}, look \in Looks : BodyLine(sign, look)

\* The patch ends, or is cut, here.
EndOfPatch ==
    /\ outcome = "reading"
    /\ outcome' = "parsed"
    /\ changes' = changes \o Finish(current, hunk)
    /\ diffWarnings' = diffWarnings \cup
           IF changes' = <<>> /\ stage # "start" /\ diffWarnings = {}
           THEN {"no_file_changes_found"} ELSE {}
    /\ UNCHANGED <<current, hunk, patchVars>>

\* The file cannot be read, or git cannot be run or fails.
NoPatch ==
    /\ outcome = "reading" /\ stage = "start"
    /\ outcome' = "failed"
    /\ \E reason \in {"unreadable_file", "git_unavailable", "git_diff_failed"} :
           diffWarnings' = {reason}
    /\ UNCHANGED <<changes, current, hunk, patchVars>>

DiffNext ==
    \/ GitHeader \/ ExtendedHeader \/ RenameTo \/ Binary \/ PlainFile \/ OldFile \/ NewFile
    \/ Hunk \/ Body \/ EndOfPatch \/ NoPatch

DiffSpec == DiffInit /\ [][DiffNext]_diffVars

-----------------------------------------------------------------------------
(* What the parser makes of the patch.                                     *)

Parsed == outcome = "parsed"

\* The files with a name among the first n, and the change reported for a
\* file with a name.
NamedUpTo(n) == {m \in 1 .. n : written[m].named}

ChangeOf(n) == changes[Cardinality(NamedUpTo(n))]

Complete(n) == n < Len(written) \/ Whole

\* The path can be read: "diff --git" splits paths with spaces wrongly, and
\* only the lines of a rename correct it.
Spelled(file) ==
    ~file.legible \/ file.type = "renamed" \/ {file.path, file.old} \cap Spaced = {}

\* What a change says of a file besides its lines.
Describes(change, file) ==
    /\ change.path = file.path
    /\ change.type = file.type
    /\ change.binary = file.binary
    /\ change.old = IF file.type = "renamed" THEN file.old ELSE NoPath

(***************************************************************************)
(* Wherever a git patch is cut, each file it named is reported once, in    *)
(* order, and a complete one under its path, with its kind of change and   *)
(* the path it had before; none is made up, and one without a name leaves  *)
(* a warning (parse_unified_diff, "tolerant by design").                   *)
(***************************************************************************)
FilesAreReported ==
    Parsed /\ format = "git" =>
        /\ Len(changes) = Cardinality(NamedUpTo(Len(written)))
        /\ \A n \in NamedUpTo(Len(written)) :
            Complete(n) /\ Spelled(written[n]) => Describes(ChangeOf(n), written[n])
        /\ (\E n \in DOMAIN written : ~written[n].named) => diffWarnings # {}

\* The runs of consecutive numbers in a set, and a list of exactly them.
Runs(numbers) ==
    {r \in {LineRange(a, b) : a, b \in numbers} :
        /\ r.start .. r.end \subseteq numbers /\ r.start <= r.end
        /\ r.start - 1 \notin numbers /\ r.end + 1 \notin numbers}

Lists(ranges, numbers) ==
    /\ ToSet(ranges) = Runs(numbers)
    /\ \A i \in 1 .. Len(ranges) - 1 : ranges[i].end < ranges[i + 1].start

LinesRead(change, file) ==
    Lists(change.newRanges, file.added) /\ Lists(change.oldRanges, file.removed)

(***************************************************************************)
(* The changed lines of a file are exactly those the patch adds or         *)
(* removes, as the longest runs in order, with or without context, with    *)
(* bodies or only headers, and whatever is misread in another file: what   *)
(* looks like a header in the body of a file harms that file only. A plain *)
(* patch is read as one file, so this holds if it has one.                 *)
(***************************************************************************)
CleanFilesAreExact ==
    Parsed /\ (format = "git" \/ Len(written) = 1) =>
        \A n \in NamedUpTo(Len(written)) :
            Complete(n) /\ written[n].clean => LinesRead(ChangeOf(n), written[n])
=============================================================================
