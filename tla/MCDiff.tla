------------------------------- MODULE MCDiff -------------------------------
(* Small patches for DiffParser, and what the code says of every patch.    *)
EXTENDS DiffParser

MCNames == <<"a", "b">>

(***************************************************************************)
(* The same of every file: a hunk "tracks which lines inside one hunk were *)
(* actually added or removed" (diff.py:171). A removed line that begins    *)
(* with "-- ", a comment of SQL, is taken for the name of a file, and one  *)
(* that begins with "--" is not counted.                                   *)
(***************************************************************************)
ChangedLinesAreExact ==
    Parsed /\ format = "git" =>
        \A n \in NamedUpTo(Len(written)) :
            Complete(n) => LinesRead(ChangeOf(n), written[n])
=============================================================================
