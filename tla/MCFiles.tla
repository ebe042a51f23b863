------------------------------ MODULE MCFiles ------------------------------
(***************************************************************************)
(* The two things processes share on disk, each on its own: three openers  *)
(* of the run store, one of an older build, or two writers of one key of   *)
(* the response cache.                                                     *)
(***************************************************************************)
EXTENDS StoreSchema, CacheFiles

VARIABLE world

MCMigrations == <<{"runs", "executions"}, {"llm_calls", "classifications"}, {"quarantines"}>>
MCKnows == [p \in Procs |-> IF p = "old" THEN 2 ELSE 3]

MCInit ==
    /\ world \in {"store", "cache"}
    /\ SchemaInit /\ CacheInit

OpenStore ==
    world = "store" /\ SchemaNext /\ UNCHANGED <<world, cacheVars>>

UseCache ==
    world = "cache" /\ CacheNext /\ UNCHANGED <<world, schemaVars>>

MCSpec ==
    /\ MCInit /\ [][OpenStore \/ UseCache]_<<world, schemaVars, cacheVars>>
    /\ world = "store" => SchemaFairness
    /\ world = "cache" => CacheFairness

\* As NobodyIsLockedOut, where stores are opened (db.py:56).
EveryoneGetsIn == world = "store" => NobodyIsLockedOut
=============================================================================
