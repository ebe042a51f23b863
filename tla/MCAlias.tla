------------------------------- MODULE MCAlias -------------------------------
(***************************************************************************)
(* The rename matching on every table of distances between a few tests     *)
(* that stopped running and a few new ones. The tables are walked one      *)
(* distance at a time; the claims are about the matching of each.          *)
(***************************************************************************)
EXTENDS AliasRules

CONSTANTS
    Disappeared,    \* tests with executions that are missing from the run
    Appeared        \* tests of the run that were never seen

VARIABLES distance, accepted

walkVars == <<distance, accepted>>

Distances == 0 .. MaxDistance + 1

WalkInit ==
    /\ distance = [pair \in Disappeared \X Appeared |-> MaxDistance + 1]
    /\ accepted = {}

\* One name or path changes.
Rename ==
    \E pair \in Disappeared \X Appeared, d \in Distances :
        /\ distance' = [distance EXCEPT ![pair] = d]
        /\ accepted' = DetectRenames(distance', Disappeared, Appeared)

WalkNext == Rename

WalkSpec == WalkInit /\ [][WalkNext]_walkVars

Shared(pair, other) == pair # other /\ Ends(pair) \cap Ends(other) # {}

Close == Scored(distance, Disappeared, Appeared)

(***************************************************************************)
(* The matching has a definition without rounds: a pair counts unless a    *)
(* closer pair that counts shares a test with it, and a pair that counts   *)
(* is accepted unless one that shares a test with it counts just as much   *)
(* (detect_renames: "neither is merged", alias.py:20).                     *)
(***************************************************************************)
AcceptedIsClosest ==
    LET Counts == CHOOSE pairs \in SUBSET Close : \A pair \in Close :
            pair \in pairs <=> ~\E other \in pairs :
                Shared(pair, other) /\ distance[other] < distance[pair]
    IN accepted = {pair \in Counts : ~\E other \in Counts :
            Shared(pair, other) /\ distance[other] = distance[pair]}
=============================================================================
