---------------------------- MODULE AtomicCache ----------------------------
(***************************************************************************)
(* What triage relies on in the response cache, for one key: an entry is   *)
(* whole or absent, it is an answer some process had for the key, and may  *)
(* be replaced or lost at any time (classify/cache.py).                    *)
(***************************************************************************)
CONSTANTS Readers, Answers, Absent

VARIABLES
    stored,     \* the answer of the entry, or Absent
    offered,    \* the answers processes have had to store
    got         \* got[p]: p's last hit

vars == <<stored, offered, got>>

Init ==
    /\ stored = Absent
    /\ offered = {}
    /\ got = [p \in Readers |-> Absent]

Offer ==
    /\ \E a \in Answers : offered' = offered \cup {a}
    /\ UNCHANGED <<stored, got>>

Put ==
    /\ stored' \in offered
    /\ UNCHANGED <<offered, got>>

Lose ==
    /\ stored' = Absent
    /\ UNCHANGED <<offered, got>>

Hit ==
    /\ stored # Absent
    /\ \E p \in Readers : got' = [got EXCEPT ![p] = stored]
    /\ UNCHANGED <<stored, offered>>

Next == Offer \/ Put \/ Lose \/ Hit

Spec == Init /\ [][Next]_vars
=============================================================================
