------------------------- MODULE QuarantineLifecycle -------------------------
(***************************************************************************)
(* What the quarantine of tests promises, whoever runs the policy and when *)
(* (policy/records.py:1): a test goes through episodes; an episode is open *)
(* until it ends in exactly one of two ways that are never confused or     *)
(* undone, and a new one begins only when the previous one has ended.      *)
(***************************************************************************)
EXTENDS Naturals, Sequences

CONSTANT Tests

VARIABLE episodes   \* episodes[t]: the phases of t's episodes, oldest first

Phases == {"open", "expired", "released"}

AllEnded(t) == \A i \in DOMAIN episodes[t] : episodes[t][i] # "open"

Init == episodes = [t \in Tests |-> <<>>]

\* Some tests without an open episode begin one.
Open(ts) ==
    /\ \A t \in ts : AllEnded(t)
    /\ episodes' = [t \in Tests |->
                    IF t \in ts THEN Append(episodes[t], "open") ELSE episodes[t]]

\* The open episodes of some tests end, all in the same way.
End(ts, phase) ==
    episodes' = [t \in Tests |-> [i \in DOMAIN episodes[t] |->
                    IF t \in ts /\ episodes[t][i] = "open" THEN phase
                    ELSE episodes[t][i]]]

Next ==
    \E ts \in SUBSET Tests :
        Open(ts) \/ End(ts, "expired") \/ End(ts, "released")

Spec == Init /\ [][Next]_episodes
=============================================================================
