---------------------------- MODULE MCClassifier ----------------------------
(***************************************************************************)
(* Two small worlds for Classifier, in one run.  In "batch" one process    *)
(* answers batches of several tests under a budget; in "shared" several    *)
(* processes answer one test for nothing and share the cache.              *)
(***************************************************************************)
EXTENDS Classifier, TLC

CONSTANTS
    BatchGates, BatchFloors, BatchKinds     \* those that vary in "batch"

VARIABLE world

\* The processes are interchangeable, and so are the tests.
Symmetry == Permutations(Procs) \cup Permutations(Tests)

\* The tests that are or were asked about.
Asked ==
    UNION {candidates[p] : p \in Procs}
        \cup {k.test : k \in {key \in Requests : cache[key] # Missing} \cup costed}

OneProcess ==
    /\ Cardinality({p \in Procs : pc[p] # "idle"}) <= 1
    /\ \A p \in Procs : pc[p] # "idle" =>
        /\ using[p].gate \in BatchGates /\ using[p].floor \in BatchFloors
        /\ \A t \in Tests : results[p][t] # Unanswered =>
            results[p][t].reply.kind \notin ReplyKinds \ BatchKinds

MCInit == Init /\ world \in {"batch", "shared"}

MCNext ==
    /\ Next
    /\ world = "batch" => OneProcess'
    /\ world = "shared" =>
        /\ \A p \in Procs : spent'[p] = 0
        /\ candidates' # candidates => Cardinality(Asked') <= 1
    /\ UNCHANGED world

MCSpec == MCInit /\ [][MCNext]_<<vars, world>>
=============================================================================
