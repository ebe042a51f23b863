------------------------------ MODULE AliasRules ------------------------------
(***************************************************************************)
(* Which tests of a run are renames of tests that stopped running          *)
(* (identity/alias.py).                                                    *)
(*                                                                         *)
(* A distance is the combined distance of name and path, rounded as        *)
(* _Pair.rank does; only its order matters, so it is a natural number. Two *)
(* tests whose parameters differ are farther apart than MaxDistance.       *)
(***************************************************************************)
EXTENDS Naturals, FiniteSets

CONSTANT
    MaxDistance     \* identity.alias_max_distance

ASSUME AliasAssumption == MaxDistance \in Nat

\* The two tests of a scored pair.
Ends(pair) == {pair[1], pair[2]}

Touched(pairs) == UNION {Ends(pair) : pair \in pairs}

\* The pairs of one distance that still compete, and among them those that
\* share a test with another.
Live(pairs, taken) == {pair \in pairs : Ends(pair) \cap taken = {}}

\* Only pairs with the same new test compete.
MutRivals(live) == {pair \in live : \E other \in live \ {pair} : pair[2] = other[2]}

Rivals(live) == {pair \in live : \E other \in live \ {pair} : Ends(pair) \cap Ends(other) # {}}

\* The pairs that are close enough, and those of one distance.
Scored(distance, disappeared, appeared) ==
    {pair \in disappeared \X appeared : distance[pair] <= MaxDistance}

Group(distance, scored, d) == {pair \in scored : distance[pair] = d}

\* Tests that compete are only passed over in their own round.
MutSettled(live) == Touched(live \ Rivals(live))

\* The tests a round takes out of the matching: those it pairs and those that
\* compete in it.
Settled(live) == Touched(live)

\* The tests that the rounds of smaller distances took (used and contested).
Taken(distance, scored) ==
    LET Before[d \in 0 .. MaxDistance] ==
            IF d = 0 THEN {}
            ELSE Before[d - 1] \cup Settled(Live(Group(distance, scored, d - 1), Before[d - 1]))
    IN Before

DetectRenames(distance, disappeared, appeared) ==
    LET scored == Scored(distance, disappeared, appeared)
        taken == Taken(distance, scored)
        Round(d) == Live(Group(distance, scored, d), taken[d])
    IN {pair \in scored : pair \in Round(distance[pair]) \ Rivals(Round(distance[pair]))}

=============================================================================
