----------------------------- MODULE Classifier -----------------------------
(***************************************************************************)
(* The classification of a batch of tests (classify/classifier.py) by      *)
(* `flaketriage triage`, by several processes that share one response      *)
(* cache and one store.  For each candidate, in order of priority:         *)
(*                                                                         *)
(*   Capped | Hit | Miss -> Prefilter? -> Classify -> Repair? -> Store     *)
(*                                                                         *)
(* and for the batch one Record at the end.  A process may die after any   *)
(* step.  The budget, the calls and the results belong to one invocation;  *)
(* the cache and the stored metrics outlive it.                            *)
(*                                                                         *)
(* The text of a request is reduced to what tells two requests apart and a *)
(* reply to what the validation makes of it. A call costs any amount up to *)
(* a bound, nothing when it fails or when its model has no price.          *)
(***************************************************************************)
EXTENDS Integers, Sequences, FiniteSets, SequencesExt

CONSTANTS
    Tests,          \* the logical tests
    Procs,          \* the processes that run triage
    Contexts,       \* the failure evidence a test can show
    Gates,          \* the gate models, "off" when the gate is disabled
    Prompts,        \* the classifier models and prompt versions
    Floors,         \* the values of classify.confidence_floor
    Confidences,    \* the confidences a model can claim
    ReplyKinds,     \* the kinds of reply a model gives
    Budget,         \* classify.budget_usd
    MaxTests,       \* classify.max_tests
    GateCost,       \* the dearest call of the gate
    CallCost        \* the dearest classification or repair call

AllReplyKinds ==
    {"error",       \* the API failed, after the client's own retries
     "silent",      \* no text block
     "garbage",     \* not JSON, an invented cause, or not the schema
     "abstain",     \* abstained
     "unknown",     \* UNKNOWN, without calling itself an abstention
     "bare",        \* a cause without evidence
     "cause"}       \* a cause with evidence

ASSUME ClassifierAssumption ==
    /\ Budget \in Nat
    /\ MaxTests \in Nat \ {0}
    /\ GateCost \in Nat /\ CallCost \in Nat
    /\ Floors \subseteq Nat /\ Floors # {}
    /\ Confidences \subseteq Nat \ {0} /\ Confidences # {}
    /\ ReplyKinds \subseteq AllReplyKinds /\ ReplyKinds # {}

ASSUME InputsAssumption ==
    /\ IsFiniteSet(Tests)
    /\ Gates # {} /\ Prompts # {} /\ Contexts # {}

VARIABLES
    cache,      \* cache[k]: the file for key k
    costed,     \* the requests whose calls are stored with their cost
    pc,         \* pc[p]: what p does next
    using,      \* using[p]: the gate, prompts and floor p was configured with
    seen,       \* seen[p]: the evidence p detected
    candidates, \* candidates[p]: the tests whose detection asks for a cause
    batch,      \* batch[p]: those still to answer, by priority
    results,    \* results[p][t]: p's answer for t
    hits,       \* hits[p]: the tests answered from the cache
    spent,      \* spent[p]: the cost of all of p's calls
    billed,     \* billed[p]: the cost of its classify and repair calls
    calls       \* calls[p]: the number of those

shared == <<cache, costed>>
accounts == <<spent, billed, calls>>
loaded == <<using, seen, candidates>>
vars == <<shared, pc, loaded, batch, results, hits, accounts>>

-----------------------------------------------------------------------------
(* Requests, replies and results.                                          *)

Setups == [gate : Gates, prompt : Prompts, floor : Floors]

\* What a classification depends on: the evidence of one test, the gate and
\* the classifier with their prompts.
Requests == [test : Tests, evidence : Contexts, gate : Gates, prompt : Prompts]

Request(t, shown, config) ==
    [test |-> t, evidence |-> shown, gate |-> config.gate, prompt |-> config.prompt]

\* Mutant: the gate model is not part of the key.
MutContextKeyWithoutGate(t, shown, config) ==
    [Request(t, shown, config) EXCEPT !.gate = CHOOSE g \in Gates : TRUE]

\* context_key: the request, and nothing that varies between two runs of it.
ContextKey(t, shown, config) == Request(t, shown, config)

\* What the classifying model and the gate can reply; only a cause claims a
\* confidence.
ModelReplies ==
    {r \in [kind : ReplyKinds, conf : Confidences \cup {0}] :
        r.conf \in Confidences <=> r.kind = "cause"}
GateReplies ==
    [kind : {"error", "silent", "unreadable", "accept", "reject"}, conf : {0}]
NoReply == [kind |-> "none", conf |-> 0]
Replies == ModelReplies \cup GateReplies \cup {NoReply}
Malformed(reply) == reply.kind = "garbage"

\* A result: "none" is a cause that stands, or UNKNOWN as the model said it;
\* every other reason is that of an abstention. It carries the model and the prompts it came from, as the code's
\* does, and beyond that the whole request and the last reply.
Reasons == {"none", "api_error", "budget_exhausted", "prefiltered", "schema_invalid",
            "empty_response", "model_abstained", "no_evidence", "below_floor"}
Results == [reason : Reasons, request : Requests, reply : Replies]
Result(reason, request, reply) ==
    [reason |-> reason, request |-> request, reply |-> reply]

\* What the last reply to a request amounts to: parse_and_validate,
\* apply_guardrails, and what a failed call or a rejection become.
ReasonFor(reply, floor) ==
    CASE reply.kind = "error"   -> "api_error"
      [] reply.kind = "reject"  -> "prefiltered"
      [] reply.kind = "silent"  -> "empty_response"
      [] reply.kind = "garbage" -> "schema_invalid"
      [] reply.kind = "abstain" -> "model_abstained"
      [] reply.kind = "unknown" -> "none"
      [] reply.kind = "bare"    -> "no_evidence"
      [] reply.kind = "cause"   -> IF reply.conf < floor THEN "below_floor" ELSE "none"

\* Mutant: only an exhausted budget is transient.
MutIsCacheable(result) == result.reason # "budget_exhausted"

\* _is_cacheable: a result that describes the evidence and not the run.
IsCacheable(result) == result.reason \notin {"api_error", "budget_exhausted"}

-----------------------------------------------------------------------------
(* The state of one invocation.                                            *)

\* A key without a file, a file that cannot be read, and no answer yet.
Missing == [reason |-> "missing"]
Damaged == [reason |-> "damaged"]
Unanswered == [reason |-> "unanswered"]

Steps == {"idle", "next", "prefilter", "classify", "repair", "store"}

Current(p) == Head(batch[p])
KeyOf(p) == ContextKey(Current(p), seen[p][Current(p)], using[p])
RequestOf(p) == Request(Current(p), seen[p][Current(p)], using[p])

\* How many candidates come before the current one.
Answered(p) == Cardinality({t \in Tests : results[p][t] # Unanswered})

\* Mutant: stop only once the ceiling has been passed.
MutWouldExceedBudget(total, bill, n) == total > Budget

\* _would_exceed_budget: nothing is left, or less than the mean classify or
\* repair call so far.
WouldExceedBudget(total, bill, n) ==
    \/ total >= Budget
    \/ bill > 0 /\ total * n + bill > Budget * n

Exhausted(p) == WouldExceedBudget(spent[p], billed[p], calls[p])

\* A process between two invocations keeps nothing.
NoSetup == CHOOSE config \in Setups : TRUE
NoEvidence == [t \in Tests |-> CHOOSE c \in Contexts : TRUE]

Idle(p) ==
    /\ pc' = [pc EXCEPT ![p] = "idle"]
    /\ using' = [using EXCEPT ![p] = NoSetup]
    /\ seen' = [seen EXCEPT ![p] = NoEvidence]
    /\ candidates' = [candidates EXCEPT ![p] = {}]
    /\ batch' = [batch EXCEPT ![p] = <<>>]
    /\ results' = [results EXCEPT ![p] = [t \in Tests |-> Unanswered]]
    /\ hits' = [hits EXCEPT ![p] = {}]
    /\ spent' = [spent EXCEPT ![p] = 0]
    /\ billed' = [billed EXCEPT ![p] = 0]
    /\ calls' = [calls EXCEPT ![p] = 0]

Init ==
    /\ cache = [k \in Requests |-> Missing]
    /\ costed = {}
    /\ pc = [p \in Procs |-> "idle"]
    /\ using = [p \in Procs |-> NoSetup]
    /\ seen = [p \in Procs |-> NoEvidence]
    /\ candidates = [p \in Procs |-> {}]
    /\ batch = [p \in Procs |-> <<>>]
    /\ results = [p \in Procs |-> [t \in Tests |-> Unanswered]]
    /\ hits = [p \in Procs |-> {}]
    /\ spent = [p \in Procs |-> 0]
    /\ billed = [p \in Procs |-> 0]
    /\ calls = [p \in Procs |-> 0]

-----------------------------------------------------------------------------
\* A cached file is truncated or edited by hand.
Damage(k) ==
    /\ cache[k] \in Results
    /\ cache' = [cache EXCEPT ![k] = Damaged]
    /\ UNCHANGED <<costed, pc, loaded, batch, results, hits, accounts>>

-----------------------------------------------------------------------------
(* One invocation of triage.                                               *)

\* Triage loads the configuration as it is now and detects what the tests show
\* now; the candidates are sorted by flake rate and observations, so any order
\* is possible.
Start(p) ==
    /\ pc[p] = "idle"
    /\ \E ts \in SUBSET Tests : \E order \in SetToSeqs(ts) :
        /\ candidates' = [candidates EXCEPT ![p] = ts]
        /\ batch' = [batch EXCEPT ![p] = order]
    /\ \E config \in Setups : using' = [using EXCEPT ![p] = config]
    /\ \E shown \in [Tests -> Contexts] : seen' = [seen EXCEPT ![p] = shown]
    /\ pc' = [pc EXCEPT ![p] = "next"]
    /\ UNCHANGED <<shared, results, hits, accounts>>

\* The current candidate is answered without a call.
Answer(p, result) ==
    /\ results' = [results EXCEPT ![p][Current(p)] = result]
    /\ batch' = [batch EXCEPT ![p] = Tail(@)]

\* Mutant: a candidate beyond the cap is left out.
MutCapped(p) ==
    /\ pc[p] = "next"
    /\ batch[p] # <<>>
    /\ Answered(p) >= MaxTests
    /\ batch' = [batch EXCEPT ![p] = Tail(@)]
    /\ UNCHANGED <<shared, pc, loaded, results, hits, accounts>>

\* The candidate is beyond the cap on the batch.
Capped(p) ==
    /\ pc[p] = "next"
    /\ batch[p] # <<>>
    /\ Answered(p) >= MaxTests
    /\ Answer(p, Result("budget_exhausted", RequestOf(p), NoReply))
    /\ UNCHANGED <<shared, pc, loaded, hits, accounts>>

\* The cache answers.
Hit(p) ==
    /\ pc[p] = "next"
    /\ batch[p] # <<>>
    /\ Answered(p) < MaxTests
    /\ cache[KeyOf(p)] \in Results
    /\ Answer(p, cache[KeyOf(p)])
    /\ hits' = [hits EXCEPT ![p] = @ \cup {Current(p)}]
    /\ UNCHANGED <<shared, pc, loaded, accounts>>

\* The cache does not answer, and a damaged entry is removed; the budget is
\* checked before the first call.
Miss(p) ==
    /\ pc[p] = "next"
    /\ batch[p] # <<>>
    /\ Answered(p) < MaxTests
    /\ cache[KeyOf(p)] \notin Results
    /\ cache' = [cache EXCEPT ![KeyOf(p)] = Missing]
    /\ IF Exhausted(p)
       THEN Answer(p, Result("budget_exhausted", RequestOf(p), NoReply)) /\ UNCHANGED pc
       ELSE /\ pc' = [pc EXCEPT ![p] =
                        IF using[p].gate = "off" THEN "classify" ELSE "prefilter"]
            /\ UNCHANGED <<results, batch>>
    /\ UNCHANGED <<costed, loaded, hits, accounts>>

\* The result of calls is stored in the cache next.
Conclude(p, reason, reply) ==
    /\ results' = [results EXCEPT ![p][Current(p)] =
                    Result(reason, RequestOf(p), reply)]
    /\ pc' = [pc EXCEPT ![p] = "store"]

\* Mutant: only an explicit approval escalates.
MutEscalates(reply) == reply.kind = "accept"

\* Any doubt resolves to escalate.
Escalates(reply) == reply.kind # "reject"

\* _prefilter: the cheap gate.
Prefilter(p) ==
    /\ pc[p] = "prefilter"
    /\ \E reply \in GateReplies, cost \in 0 .. GateCost :
        /\ reply.kind = "error" => cost = 0
        /\ spent' = [spent EXCEPT ![p] = @ + cost]
        /\ IF Escalates(reply)
           THEN pc' = [pc EXCEPT ![p] = "classify"] /\ UNCHANGED results
           ELSE Conclude(p, "prefiltered", reply)
    /\ UNCHANGED <<shared, loaded, batch, hits, billed, calls>>

\* A classify or repair call and what it costs.
Charge(p, reply, cost) ==
    /\ reply.kind = "error" => cost = 0
    /\ spent' = [spent EXCEPT ![p] = @ + cost]
    /\ billed' = [billed EXCEPT ![p] = @ + cost]
    /\ calls' = [calls EXCEPT ![p] = @ + 1]

\* The first call. A malformed reply is repaired if the budget allows it.
Classify(p) ==
    /\ pc[p] = "classify"
    /\ \E reply \in ModelReplies, cost \in 0 .. CallCost :
        /\ Charge(p, reply, cost)
        /\ IF ~Malformed(reply)
           THEN Conclude(p, ReasonFor(reply, using[p].floor), reply)
           ELSE IF WouldExceedBudget(spent[p] + cost, billed[p] + cost, calls[p] + 1)
           THEN Conclude(p, "budget_exhausted", reply)
           ELSE pc' = [pc EXCEPT ![p] = "repair"] /\ UNCHANGED results
    /\ UNCHANGED <<shared, loaded, batch, hits>>

\* The one repair; whatever it returns is the result.
Repair(p) ==
    /\ pc[p] = "repair"
    /\ \E reply \in ModelReplies, cost \in 0 .. CallCost :
        /\ Charge(p, reply, cost)
        /\ Conclude(p, ReasonFor(reply, using[p].floor), reply)
    /\ UNCHANGED <<shared, loaded, batch, hits>>

\* _store: a cacheable result is written, unless the file system refuses; the
\* next candidate follows.
Store(p) ==
    /\ pc[p] = "store"
    /\ \/ /\ IsCacheable(results[p][Current(p)])
          /\ cache' = [cache EXCEPT ![KeyOf(p)] = results[p][Current(p)]]
       \/ UNCHANGED cache
    /\ batch' = [batch EXCEPT ![p] = Tail(@)]
    /\ pc' = [pc EXCEPT ![p] = "next"]
    /\ UNCHANGED <<costed, loaded, results, hits, accounts>>

\* The requests p stores calls for.
CallsMade(p) ==
    {Request(t, seen[p][t], using[p]) : t \in
        {u \in Tests \ hits[p] : results[p][u] # Unanswered
                                 /\ results[p][u].reply # NoReply}}

\* record_metrics: the calls and the classifications in one transaction, and
\* the end of the invocation.
Record(p) ==
    /\ pc[p] = "next"
    /\ batch[p] = <<>>
    /\ costed' = costed \cup CallsMade(p)
    /\ Idle(p)
    /\ UNCHANGED cache

\* The process dies, or finds the store busy when it records.
Crash(p) ==
    /\ pc[p] # "idle"
    /\ Idle(p)
    /\ UNCHANGED <<shared>>

-----------------------------------------------------------------------------
Step(p) ==
    \/ Capped(p)
    \/ Hit(p)
    \/ Miss(p)
    \/ Prefilter(p)
    \/ Classify(p)
    \/ Repair(p)
    \/ Store(p)
    \/ Record(p)

Next ==
    \/ \E k \in Requests : Damage(k)
    \/ \E p \in Procs : Start(p) \/ Step(p) \/ Crash(p)

Spec == Init /\ [][Next]_vars

-----------------------------------------------------------------------------
(* Properties.                                                             *)

\* Every variable has its type.
TypeOK ==
    /\ cache \in [Requests -> Results \cup {Missing, Damaged}]
    /\ costed \subseteq Requests
    /\ pc \in [Procs -> Steps]
    /\ using \in [Procs -> Setups]
    /\ seen \in [Procs -> [Tests -> Contexts]]
    /\ candidates \in [Procs -> SUBSET Tests]
    /\ batch \in [Procs -> Seq(Tests)]
    /\ results \in [Procs -> [Tests -> Results \cup {Unanswered}]]
    /\ hits \in [Procs -> SUBSET Tests]
    /\ spent \in [Procs -> Nat]
    /\ billed \in [Procs -> Nat]
    /\ calls \in [Procs -> Nat]

\* The dearest a test can get once the budget check has let it through.
GateShare(p) == IF using[p].gate = "off" THEN 0 ELSE GateCost

\* An invocation spends less than its ceiling plus one gate call and one
\* classification, however the calls, failures and repairs fall (the check at
\* classifier.py:292 covers both calls). Without the gate that is the
\* documented "ceiling plus at most one call".
SpendBounded ==
    \A p \in Procs : spent[p] > 0 => spent[p] < Budget + GateShare(p) + CallCost

\* A result that says something of the request: what a reply to it amounts to
\* under some floor, no failure of the call or the budget, and a rejection
\* only if the gate said so.
Earned(result, request) ==
    /\ result.request = request
    /\ result.reply.kind \notin {"none", "error", "unreadable", "accept"}
    /\ \E floor \in Floors : result.reason = ReasonFor(result.reply, floor)

\* An answer about a test is one that the models gave about the evidence it
\* shows, under the gate, model and prompts in use, in this invocation or in
\* an earlier one. A condition of an invocation (a failed call, an exhausted
\* budget) never comes out of the cache, and a failing gate never rejects
\* (cache.py:7-11 and 86-88, classifier.py:392).
AnswersAreEarned ==
    \A p \in Procs, t \in Tests :
        \/ results[p][t] = Unanswered
        \/ results[p][t].reason \in {"api_error", "budget_exhausted"} /\ t \notin hits[p]
        \/ Earned(results[p][t], Request(t, seen[p][t], using[p]))

\* When a batch is over, every candidate has an answer and nothing else has:
\* neither the cap nor the budget leaves one out (classifier.py:235).
BatchIsAnswered ==
    \A p \in Procs :
        pc[p] = "next" /\ batch[p] = <<>> =>
            {t \in Tests : results[p][t] # Unanswered} = candidates[p]
=============================================================================
