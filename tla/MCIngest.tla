------------------------------- MODULE MCIngest -------------------------------
(***************************************************************************)
(* Small instances of IngestStore, and what the repository says of renames *)
(* that the code does not meet.                                            *)
(***************************************************************************)
EXTENDS IngestStore, TLC

CONSTANTS u1, u2, u3, a, b, c, d

Symmetry == Permutations(Procs)

\* Two runs one after the other, the second in two shards.
MCStartedAt == u1 :> 1 @@ u2 :> 2 @@ u3 :> 2

\* b is a new name of a, and d, less surely, one of c.
MCDistance == [pair \in Tests \X Tests |->
    CASE {pair[1], pair[2]} \subseteq {a, b} -> 0
      [] {pair[1], pair[2]} \subseteq {c, d} -> 1
      [] OTHER                               -> 2]

Passed(t) == [test |-> t, outcome |-> "pass"]
Failed(t) == [test |-> t, outcome |-> "fail"]

MCReports == {<<Passed(a)>>, <<Failed(b), Passed(b)>>,
              <<Passed(a), Passed(c)>>, <<Passed(b), Passed(d)>>}

\* The uploads of a run are its shards.
SameRun(u, v) == StartedAt[u] = StartedAt[v]

\* "An identity that produces no execution in a run, paired with a previously
\* unseen identity in the same run" (README.md:168): a test that is renamed in
\* a run was executed in no shard of it.
RenamedTestIsGone ==
    \A pair \in Tests \X Tests : aliases[pair] # NoAlias =>
        \A v \in Uploads : SameRun(v, aliases[pair].run) => pair[1] \notin Ran(v)
=============================================================================
