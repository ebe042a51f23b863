SPECIFICATION MCSpec
CONSTANTS
    Procs = {"old", "new", "other"}
    Tables = {"runs", "executions", "llm_calls", "classifications", "quarantines"}
    Latest = 3
    Migrations <- MCMigrations
    Knows <- MCKnows
    Writers = {"p", "q"}
    Answers = {"a", "b"}
INVARIANTS
    SchemaIsWhole
    OpenStoreIsUsable
    DamageTakesTwoWriters
PROPERTIES
    EveryoneGetsIn
    ImplementsAtomicCache
    DamageIsRepaired
