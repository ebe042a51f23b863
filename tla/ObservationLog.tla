---------------------------- MODULE ObservationLog ----------------------------
(***************************************************************************)
(* What ingestion promises about executions, however often, by whomever    *)
(* and in whatever order results are ingested (ARCHITECTURE.md:151): each  *)
(* upload of results is observed at most once and as a whole, one          *)
(* execution per test of it, and an observation is never changed.          *)
(***************************************************************************)
CONSTANTS
    Uploads,
    Contents    \* what an upload can hold: functions from tests to outcomes

VARIABLES
    content,    \* content[u]: the results of upload u
    log         \* log[u]: what is recorded of upload u

Nothing == [t \in {} |-> t]

Init ==
    /\ content \in [Uploads -> Contents]
    /\ log = [u \in Uploads |-> Nothing]

Observe(u) ==
    /\ log[u] = Nothing
    /\ log' = [log EXCEPT ![u] = content[u]]
    /\ UNCHANGED content

Next == \E u \in Uploads : Observe(u)

Spec == Init /\ [][Next]_<<content, log>>
=============================================================================
