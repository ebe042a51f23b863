--------------------------- MODULE ClassifierProofs ---------------------------
(***************************************************************************)
(* Proofs about Classifier for any tests, processes, evidence, models and  *)
(* prices, and for every configuration the program accepts.                *)
(***************************************************************************)
EXTENDS Classifier, SequenceTheorems, FiniteSetTheorems, TLAPS

-----------------------------------------------------------------------------
(* What the helpers return.                                                *)

\* The validation gives every reply of a model one of the known reasons
\* (schema.py:156).
LEMMA ReasonForType ==
    ASSUME NEW reply \in ModelReplies, NEW floor
    PROVE  ReasonFor(reply, floor) \in Reasons
  BY ClassifierAssumption DEF ReasonFor, Reasons, ModelReplies, AllReplyKinds

\* A result made of known parts is one.
LEMMA ResultType ==
    ASSUME NEW reason \in Reasons, NEW request \in Requests, NEW reply \in Replies
    PROVE  /\ Result(reason, request, reply) \in Results
           /\ Result(reason, request, reply).reason = reason
           /\ Result(reason, request, reply).request = request
           /\ Result(reason, request, reply).reply = reply
  BY DEF Result, Results

\* What stands for no answer is not an answer.
LEMMA NoResult ==
    /\ Unanswered \notin Results
    /\ Missing \notin Results
    /\ Damaged \notin Results
  BY DEF Unanswered, Missing, Damaged, Results, Reasons

\* t waits in the batch b, and no test waits twice.
Waits(b, t) == \E i \in 1 .. Len(b) : b[i] = t
Distinct(b) == \A i, j \in 1 .. Len(b) : b[i] = b[j] => i = j

\* Taking the first test off a batch without repetitions.
LEMMA TailOfBatch ==
    ASSUME NEW b \in Seq(Tests), b # <<>>, Distinct(b)
    PROVE  /\ Distinct(Tail(b))
           /\ Waits(b, Head(b))
           /\ \A t \in Tests : Waits(Tail(b), t) <=> Waits(b, t) /\ t # Head(b)
  <1>1. /\ Tail(b) \in Seq(Tests)
        /\ Len(b) \in Nat \ {0}
        /\ Len(Tail(b)) = Len(b) - 1
        /\ Head(b) = b[1]
        /\ \A i \in 1 .. Len(Tail(b)) : Tail(b)[i] = b[i + 1]
    BY HeadTailProperties, EmptySeq, LenProperties
  <1>2. Distinct(Tail(b))
    BY <1>1 DEF Distinct
  <1>3. Waits(b, Head(b))
    BY <1>1 DEF Waits
  <1>4. ASSUME NEW t \in Tests
        PROVE  Waits(Tail(b), t) <=> Waits(b, t) /\ t # Head(b)
    <2>1. ASSUME NEW i \in 1 .. Len(Tail(b)), Tail(b)[i] = t
          PROVE  Waits(b, t) /\ t # Head(b)
      <3>1. i + 1 \in 1 .. Len(b) /\ b[i + 1] = t /\ 1 \in 1 .. Len(b) /\ i + 1 # 1
        BY <1>1, <2>1
      <3>2. QED
        BY <3>1, <1>1 DEF Waits, Distinct
    <2>2. ASSUME NEW i \in 1 .. Len(b), b[i] = t, t # Head(b)
          PROVE  Waits(Tail(b), t)
      <3>1. i - 1 \in 1 .. Len(Tail(b))
        BY <1>1, <2>2
      <3>2. Tail(b)[i - 1] = b[(i - 1) + 1]
        BY <1>1, <3>1
      <3>3. QED
        BY <3>1, <3>2, <2>2 DEF Waits
    <2>3. QED
      BY <2>1, <2>2 DEF Waits
  <1>5. QED
    BY <1>2, <1>3, <1>4

\* An order of a set of tests lists each of them once.
LEMMA OrderOfTests ==
    ASSUME NEW ts \in SUBSET Tests, NEW order \in SetToSeqs(ts)
    PROVE  /\ order \in Seq(Tests)
           /\ Distinct(order)
           /\ \A t \in Tests : Waits(order, t) <=> t \in ts
  <1>1. IsFiniteSet(ts) /\ Cardinality(ts) \in Nat
    BY InputsAssumption, FS_Subset, FS_CardinalityType
  <1> DEFINE D == 1 .. Cardinality(ts)
  <1>2. /\ order \in [D -> ts]
        /\ \A i, j \in D : i # j => order[i] # order[j]
    BY DEF SetToSeqs
  <1>3. order \in Seq(Tests) /\ Len(order) = Cardinality(ts)
    BY <1>1, <1>2
  <1>4. Distinct(order)
    BY <1>2, <1>3 DEF Distinct
  <1>5. order \in Injection(D, ts)
    BY <1>2 DEF Injection, IsInjective
  <1>6. Cardinality(D) = Cardinality(ts)
    BY <1>1, FS_Interval
  <1>7. order \in Surjection(D, ts)
    BY <1>1, <1>5, <1>6, FS_Injection
  <1>8. \A t \in ts : \E i \in D : order[i] = t
    BY <1>7 DEF Surjection
  <1>9. QED
    BY <1>2, <1>3, <1>4, <1>8 DEF Waits

-----------------------------------------------------------------------------
(* Type correctness.                                                       *)

Working == {"prefilter", "classify", "repair", "store"}

\* A process that works on a test has one, and stores an answer it has.
Ready(p) ==
    /\ pc[p] \in Working => batch[p] # <<>>
    /\ pc[p] = "store" => results[p][Current(p)] # Unanswered

TypeInv == TypeOK /\ \A p \in Procs : Ready(p)

\* The test a process works on is a test, and the key of its request is the
\* request itself.
LEMMA CurrentType ==
    ASSUME TypeOK, NEW p \in Procs, batch[p] # <<>>
    PROVE  /\ Current(p) \in Tests
           /\ Tail(batch[p]) \in Seq(Tests)
           /\ RequestOf(p) \in Requests
           /\ RequestOf(p) = Request(Current(p), seen[p][Current(p)], using[p])
           /\ KeyOf(p) = RequestOf(p)
  <1>1. batch[p] \in Seq(Tests)
    BY DEF TypeOK
  <1>2. Current(p) \in Tests /\ Tail(batch[p]) \in Seq(Tests)
    BY <1>1, HeadTailProperties DEF Current
  <1>3. using[p] \in Setups /\ seen[p] \in [Tests -> Contexts]
    BY DEF TypeOK
  <1>4. RequestOf(p) \in Requests
    BY <1>2, <1>3 DEF RequestOf, Request, Requests, Setups
  <1>5. QED
    BY <1>2, <1>4 DEF RequestOf, KeyOf, ContextKey

\* The defaults of an idle process have their types.
LEMMA DefaultTypes == NoSetup \in Setups /\ NoEvidence \in [Tests -> Contexts]
  <1>1. PICK g \in Gates, v \in Prompts, f \in Floors : TRUE
    BY InputsAssumption, ClassifierAssumption
  <1>2. [gate |-> g, prompt |-> v, floor |-> f] \in Setups
    BY DEF Setups
  <1>3. NoSetup \in Setups
    BY <1>2 DEF NoSetup
  <1>4. QED
    BY <1>3, InputsAssumption DEF NoEvidence

\* What a step leaves alone keeps its type.
LEMMA InitType == Init => TypeInv
  <1> SUFFICES ASSUME Init PROVE TypeInv
    OBVIOUS
  <1>1. TypeOK
    BY DefaultTypes, EmptySeq DEF Init, TypeOK, Steps
  <1>2. \A p \in Procs : Ready(p)
    BY DEF Init, Ready, Working
  <1>3. QED
    BY <1>1, <1>2 DEF TypeInv

\* The end of an invocation, normal or not.
LEMMA IdleType ==
    ASSUME TypeOK, NEW p \in Procs, Idle(p), cache' = cache, costed' \subseteq Requests
    PROVE  TypeOK'
  <1>1. <<>> \in Seq(Tests)
    BY EmptySeq
  <1>2. QED
    BY <1>1, DefaultTypes DEF TypeOK, Idle, Steps

\* A candidate answered without a call.
LEMMA AnswerType ==
    ASSUME TypeOK, NEW p \in Procs, batch[p] # <<>>, NEW result \in Results,
           Answer(p, result)
    PROVE  /\ results' \in [Procs -> [Tests -> Results \cup {Unanswered}]]
           /\ batch' \in [Procs -> Seq(Tests)]
  BY CurrentType DEF TypeOK, Answer

\* The result of a call.
LEMMA ConcludeType ==
    ASSUME TypeOK, NEW p \in Procs, batch[p] # <<>>,
           NEW reason \in Reasons, NEW reply \in Replies, Conclude(p, reason, reply)
    PROVE  /\ results' \in [Procs -> [Tests -> Results \cup {Unanswered}]]
           /\ pc' = [pc EXCEPT ![p] = "store"]
           /\ results'[p][Current(p)] \in Results
  <1>1. Result(reason, RequestOf(p), reply) \in Results
    BY CurrentType, ResultType
  <1>2. Current(p) \in Tests
    BY CurrentType
  <1>3. QED
    BY <1>1, <1>2 DEF TypeOK, Conclude

\* The price of a call.
LEMMA ChargeType ==
    ASSUME TypeOK, NEW p \in Procs, NEW reply, NEW cost \in 0 .. CallCost,
           Charge(p, reply, cost)
    PROVE  /\ spent' \in [Procs -> Nat]
           /\ billed' \in [Procs -> Nat]
           /\ calls' \in [Procs -> Nat]
  BY ClassifierAssumption DEF TypeOK, Charge

\* Start loads a configuration, evidence and an order of candidates of the
\* right types.
LEMMA StartType ==
    ASSUME TypeOK, NEW p \in Procs, Start(p)
    PROVE  TypeOK'
  <1>0. PICK ts \in SUBSET Tests : \E order \in SetToSeqs(ts) :
            /\ candidates' = [candidates EXCEPT ![p] = ts]
            /\ batch' = [batch EXCEPT ![p] = order]
    BY DEF Start
  <1>1. PICK order \in SetToSeqs(ts) :
            /\ candidates' = [candidates EXCEPT ![p] = ts]
            /\ batch' = [batch EXCEPT ![p] = order]
    BY <1>0
  <1>2. PICK config \in Setups : using' = [using EXCEPT ![p] = config]
    BY DEF Start
  <1>3. PICK shown \in [Tests -> Contexts] : seen' = [seen EXCEPT ![p] = shown]
    BY DEF Start
  <1>4. order \in Seq(Tests)
    BY OrderOfTests
  <1>5. QED
    BY <1>1, <1>2, <1>3, <1>4 DEF Start, TypeOK, Steps, shared, accounts

\* Answering beyond the cap keeps the types.
LEMMA CappedType ==
    ASSUME TypeOK, NEW p \in Procs, Capped(p)
    PROVE  TypeOK'
  <1>1. batch[p] # <<>>
    BY DEF Capped
  <1>2. Result("budget_exhausted", RequestOf(p), NoReply) \in Results
    BY <1>1, CurrentType, ResultType DEF Reasons, Replies
  <1>3. /\ results' \in [Procs -> [Tests -> Results \cup {Unanswered}]]
        /\ batch' \in [Procs -> Seq(Tests)]
    BY <1>1, <1>2, AnswerType DEF Capped
  <1>4. QED
    BY <1>3 DEF Capped, TypeOK, shared, loaded, accounts

\* Answering from the cache keeps the types.
LEMMA HitType ==
    ASSUME TypeOK, NEW p \in Procs, Hit(p)
    PROVE  TypeOK'
  <1>1. batch[p] # <<>> /\ cache[KeyOf(p)] \in Results
    BY DEF Hit
  <1>2. /\ results' \in [Procs -> [Tests -> Results \cup {Unanswered}]]
        /\ batch' \in [Procs -> Seq(Tests)]
    BY <1>1, AnswerType DEF Hit
  <1>3. QED
    BY <1>1, <1>2, CurrentType DEF Hit, TypeOK, shared, loaded, accounts

\* A miss, whether the budget lets the test go on or not, keeps the types.
LEMMA MissType ==
    ASSUME TypeOK, NEW p \in Procs, Miss(p)
    PROVE  TypeOK'
  <1>1. batch[p] # <<>>
    BY DEF Miss
  <1>2. Result("budget_exhausted", RequestOf(p), NoReply) \in Results
    BY <1>1, CurrentType, ResultType DEF Reasons, Replies
  <1>3. /\ results' \in [Procs -> [Tests -> Results \cup {Unanswered}]]
        /\ batch' \in [Procs -> Seq(Tests)]
        /\ pc' \in [Procs -> Steps]
    <2>1. CASE Exhausted(p)
      BY <2>1, <1>1, <1>2, AnswerType DEF Miss, TypeOK
    <2>2. CASE ~Exhausted(p)
      BY <2>2 DEF Miss, TypeOK, Steps
    <2>3. QED
      BY <2>1, <2>2
  <1>4. cache' \in [Requests -> Results \cup {Missing, Damaged}]
    BY <1>1, CurrentType DEF Miss, TypeOK
  <1>5. QED
    BY <1>3, <1>4 DEF Miss, TypeOK, loaded, accounts

\* The gate keeps the types.
LEMMA PrefilterType ==
    ASSUME TypeOK, NEW p \in Procs, batch[p] # <<>>, Prefilter(p)
    PROVE  TypeOK'
  <1> PICK reply \in GateReplies, cost \in 0 .. GateCost :
        /\ spent' = [spent EXCEPT ![p] = @ + cost]
        /\ IF Escalates(reply)
           THEN pc' = [pc EXCEPT ![p] = "classify"] /\ UNCHANGED results
           ELSE Conclude(p, "prefiltered", reply)
    BY DEF Prefilter
  <1>1. spent' \in [Procs -> Nat]
    BY ClassifierAssumption DEF TypeOK
  <1>2. /\ results' \in [Procs -> [Tests -> Results \cup {Unanswered}]]
        /\ pc' \in [Procs -> Steps]
    <2>1. CASE Escalates(reply)
      BY <2>1 DEF TypeOK, Steps
    <2>2. CASE ~Escalates(reply)
      <3>1. "prefiltered" \in Reasons /\ reply \in Replies
        BY DEF Reasons, Replies
      <3>2. Conclude(p, "prefiltered", reply)
        BY <2>2
      <3>3. QED
        BY <3>1, <3>2, ConcludeType DEF TypeOK, Steps
    <2>3. QED
      BY <2>1, <2>2
  <1>3. QED
    BY <1>1, <1>2 DEF Prefilter, TypeOK, shared, loaded

\* The first call keeps the types, with each of its three outcomes.
LEMMA ClassifyType ==
    ASSUME TypeOK, NEW p \in Procs, batch[p] # <<>>, Classify(p)
    PROVE  TypeOK'
  <1> PICK reply \in ModelReplies, cost \in 0 .. CallCost :
        /\ Charge(p, reply, cost)
        /\ IF ~Malformed(reply)
           THEN Conclude(p, ReasonFor(reply, using[p].floor), reply)
           ELSE IF WouldExceedBudget(spent[p] + cost, billed[p] + cost, calls[p] + 1)
           THEN Conclude(p, "budget_exhausted", reply)
           ELSE pc' = [pc EXCEPT ![p] = "repair"] /\ UNCHANGED results
    BY DEF Classify
  <1>1. reply \in Replies /\ "budget_exhausted" \in Reasons
    BY DEF Reasons, Replies
  <1>2. ReasonFor(reply, using[p].floor) \in Reasons
    BY ReasonForType
  <1>3. /\ results' \in [Procs -> [Tests -> Results \cup {Unanswered}]]
        /\ pc' \in [Procs -> Steps]
    <2>1. CASE Conclude(p, ReasonFor(reply, using[p].floor), reply)
      BY <2>1, <1>1, <1>2, ConcludeType DEF TypeOK, Steps
    <2>2. CASE Conclude(p, "budget_exhausted", reply)
      BY <2>2, <1>1, ConcludeType DEF TypeOK, Steps
    <2>3. CASE pc' = [pc EXCEPT ![p] = "repair"] /\ UNCHANGED results
      BY <2>3 DEF TypeOK, Steps
    <2>4. QED
      BY <2>1, <2>2, <2>3
  <1>4. QED
    BY <1>3, ChargeType DEF Classify, TypeOK, shared, loaded

\* The repair keeps the types.
LEMMA RepairType ==
    ASSUME TypeOK, NEW p \in Procs, batch[p] # <<>>, Repair(p)
    PROVE  TypeOK'
  <1> PICK reply \in ModelReplies, cost \in 0 .. CallCost :
        /\ Charge(p, reply, cost)
        /\ Conclude(p, ReasonFor(reply, using[p].floor), reply)
    BY DEF Repair
  <1>1. reply \in Replies /\ ReasonFor(reply, using[p].floor) \in Reasons
    BY ReasonForType DEF Replies
  <1>2. /\ results' \in [Procs -> [Tests -> Results \cup {Unanswered}]]
        /\ pc' \in [Procs -> Steps]
    BY <1>1, ConcludeType DEF TypeOK, Steps
  <1>3. QED
    BY <1>2, ChargeType DEF Repair, TypeOK, shared, loaded

\* Only a real answer is written to the cache.
LEMMA StoreType ==
    ASSUME TypeOK, NEW p \in Procs, Ready(p), Store(p)
    PROVE  TypeOK'
  <1>1. batch[p] # <<>> /\ results[p][Current(p)] # Unanswered
    BY DEF Store, Ready, Working
  <1>2. results[p][Current(p)] \in Results
    BY <1>1, CurrentType DEF TypeOK
  <1>3. cache' \in [Requests -> Results \cup {Missing, Damaged}]
    BY <1>1, <1>2, CurrentType DEF Store, TypeOK
  <1>4. batch' \in [Procs -> Seq(Tests)] /\ pc' \in [Procs -> Steps]
    BY <1>1, CurrentType DEF Store, TypeOK, Steps
  <1>5. QED
    BY <1>3, <1>4 DEF Store, TypeOK, loaded, accounts

\* Recording the calls of a batch keeps the types.
LEMMA RecordType ==
    ASSUME TypeOK, NEW p \in Procs, Record(p)
    PROVE  TypeOK'
  <1>1. \A t \in Tests : Request(t, seen[p][t], using[p]) \in Requests
    BY DEF TypeOK, Request, Requests, Setups
  <1>2. CallsMade(p) \subseteq Requests
    BY <1>1 DEF CallsMade
  <1>3. QED
    BY <1>2, IdleType DEF Record, TypeOK

\* Every step keeps the types of processes that are ready.
LEMMA NextType ==
    ASSUME TypeInv, [Next]_vars
    PROVE  TypeOK'
  <1>1. CASE UNCHANGED vars
    BY <1>1 DEF TypeInv, TypeOK, vars, shared, loaded, accounts
  <1>2. ASSUME NEW k \in Requests, Damage(k)
        PROVE  TypeOK'
    BY <1>2 DEF TypeInv, TypeOK, Damage, loaded, accounts
  <1>3. ASSUME NEW p \in Procs, Start(p) \/ Step(p) \/ Crash(p)
        PROVE  TypeOK'
    <2>1. TypeOK /\ Ready(p)
      BY DEF TypeInv
    <2>2. CASE Start(p)
      BY <2>1, <2>2, StartType
    <2>3. CASE Capped(p) \/ Hit(p) \/ Miss(p)
      BY <2>1, <2>3, CappedType, HitType, MissType
    <2>4. CASE Prefilter(p) \/ Classify(p) \/ Repair(p)
      <3>1. batch[p] # <<>>
        BY <2>1, <2>4 DEF Ready, Working, Prefilter, Classify, Repair
      <3>2. QED
        BY <2>1, <2>4, <3>1, PrefilterType, ClassifyType, RepairType
    <2>5. CASE Store(p) \/ Record(p)
      BY <2>1, <2>5, StoreType, RecordType
    <2>6. CASE Crash(p)
      BY <2>1, <2>6, IdleType DEF Crash, shared, TypeOK
    <2>7. QED
      BY <1>3, <2>2, <2>3, <2>4, <2>5, <2>6 DEF Step
  <1>4. QED
    BY <1>1, <1>2, <1>3 DEF Next

\* What a process does leaves the others alone.
LEMMA OthersUntouched ==
    ASSUME TypeOK, NEW p \in Procs, Start(p) \/ Step(p) \/ Crash(p),
           NEW q \in Procs, q # p
    PROVE  /\ pc'[q] = pc[q] /\ using'[q] = using[q] /\ seen'[q] = seen[q]
           /\ candidates'[q] = candidates[q] /\ batch'[q] = batch[q]
           /\ results'[q] = results[q] /\ hits'[q] = hits[q] /\ spent'[q] = spent[q]
  <1> USE DEF shared, loaded, accounts
  <1>1. CASE Start(p)
    BY <1>1 DEF Start, TypeOK
  <1>2. CASE Capped(p) \/ Hit(p)
    BY <1>2 DEF Capped, Hit, Answer, TypeOK
  <1>3. CASE Miss(p)
    BY <1>3 DEF Miss, Answer, TypeOK
  <1>4. CASE Prefilter(p)
    BY <1>4 DEF Prefilter, Conclude, TypeOK
  <1>5. CASE Classify(p)
    BY <1>5 DEF Classify, Charge, Conclude, TypeOK
  <1>6. CASE Repair(p)
    BY <1>6 DEF Repair, Charge, Conclude, TypeOK
  <1>7. CASE Store(p)
    BY <1>7 DEF Store, TypeOK
  <1>8. CASE Record(p) \/ Crash(p)
    BY <1>8 DEF Record, Crash, Idle, TypeOK
  <1>9. QED
    BY <1>1, <1>2, <1>3, <1>4, <1>5, <1>6, <1>7, <1>8 DEF Step

\* The answer to the current test, and to no other.
LEMMA AnswerEffect ==
    ASSUME TypeOK, NEW p \in Procs, batch[p] # <<>>, NEW result \in Results,
           Answer(p, result)
    PROVE  /\ batch'[p] = Tail(batch[p])
           /\ \A t \in Tests : results'[p][t] =
                IF t = Current(p) THEN result ELSE results[p][t]
  BY CurrentType DEF TypeOK, Answer

\* The result of a call, for the current test and no other.
LEMMA ConcludeEffect ==
    ASSUME TypeOK, NEW p \in Procs, batch[p] # <<>>,
           NEW reason, NEW reply, Conclude(p, reason, reply)
    PROVE  /\ pc'[p] = "store"
           /\ \A t \in Tests : results'[p][t] =
                IF t = Current(p) THEN Result(reason, RequestOf(p), reply)
                ELSE results[p][t]
  BY CurrentType DEF TypeOK, Conclude

\* The end of an invocation leaves nothing behind.
LEMMA IdleEffect ==
    ASSUME TypeOK, NEW p \in Procs, Idle(p)
    PROVE  /\ pc'[p] = "idle" /\ batch'[p] = <<>> /\ hits'[p] = {} /\ spent'[p] = 0
           /\ candidates'[p] = {}
           /\ \A t \in Tests : results'[p][t] = Unanswered
  BY DEF TypeOK, Idle

\* A process is ready for the next stage.
LEMMA ReadyStep ==
    ASSUME TypeOK, NEW p \in Procs, Ready(p), Start(p) \/ Step(p) \/ Crash(p)
    PROVE  Ready(p)'
  <1> USE DEF shared, loaded
  <1>1. CASE Start(p)
    BY <1>1 DEF Start, Ready, Working, TypeOK
  <1>2. CASE Capped(p) \/ Hit(p)
    <2>1. pc'[p] = "next"
      BY <1>2 DEF Capped, Hit
    <2>2. QED
      BY <2>1 DEF Ready, Working
  <1>3. CASE Miss(p)
    <2>1. CASE Exhausted(p)
      BY <1>3, <2>1 DEF Miss, Ready, Working
    <2>2. CASE ~Exhausted(p)
      BY <1>3, <2>2 DEF Miss, Ready, Working, TypeOK
    <2>3. QED
      BY <2>1, <2>2
  <1>4. ASSUME NEW reason \in Reasons, NEW reply \in Replies,
               pc[p] \in Working, Conclude(p, reason, reply), UNCHANGED batch
        PROVE  Ready(p)'
    <2>1. batch[p] # <<>>
      BY <1>4 DEF Ready
    <2>2. Current(p) \in Tests /\ RequestOf(p) \in Requests
      BY <2>1, CurrentType
    <2>3. results'[p][Current(p)] = Result(reason, RequestOf(p), reply)
      BY <1>4, <2>1, <2>2, ConcludeEffect
    <2>4. results'[p][Current(p)] # Unanswered
      BY <2>2, <2>3, ResultType, NoResult
    <2>5. Current(p)' = Current(p)
      BY <1>4 DEF Current
    <2>6. QED
      BY <1>4, <2>1, <2>4, <2>5 DEF Ready
  <1>5. CASE Prefilter(p)
    <2>1. PICK reply \in GateReplies :
            IF Escalates(reply)
            THEN pc' = [pc EXCEPT ![p] = "classify"] /\ UNCHANGED results
            ELSE Conclude(p, "prefiltered", reply)
      BY <1>5 DEF Prefilter
    <2>2. /\ reply \in Replies /\ "prefiltered" \in Reasons
          /\ pc[p] \in Working /\ UNCHANGED batch
      BY <1>5 DEF Prefilter, Replies, Reasons, Working
    <2>3. CASE Escalates(reply)
      BY <2>1, <2>2, <2>3 DEF Ready, TypeOK
    <2>4. CASE ~Escalates(reply)
      BY <2>1, <2>2, <2>4, <1>4
    <2>5. QED
      BY <2>3, <2>4
  <1>6. CASE Classify(p)
    <2>1. PICK reply \in ModelReplies, cost \in 0 .. CallCost :
            IF ~Malformed(reply)
            THEN Conclude(p, ReasonFor(reply, using[p].floor), reply)
            ELSE IF WouldExceedBudget(spent[p] + cost, billed[p] + cost, calls[p] + 1)
            THEN Conclude(p, "budget_exhausted", reply)
            ELSE pc' = [pc EXCEPT ![p] = "repair"] /\ UNCHANGED results
      BY <1>6 DEF Classify
    <2>2. /\ reply \in Replies /\ "budget_exhausted" \in Reasons
          /\ pc[p] \in Working /\ UNCHANGED batch
      BY <1>6 DEF Classify, Replies, Reasons, Working
    <2>3. CASE pc' = [pc EXCEPT ![p] = "repair"]
      BY <2>2, <2>3 DEF Ready, TypeOK
    <2>4. CASE Conclude(p, "budget_exhausted", reply)
      BY <2>2, <2>4, <1>4
    <2>5. CASE Conclude(p, ReasonFor(reply, using[p].floor), reply)
      BY <2>2, <2>5, <1>4, ReasonForType
    <2>6. QED
      BY <2>1, <2>3, <2>4, <2>5
  <1>7. CASE Repair(p)
    <2>1. PICK reply \in ModelReplies :
            Conclude(p, ReasonFor(reply, using[p].floor), reply)
      BY <1>7 DEF Repair
    <2>2. reply \in Replies /\ pc[p] \in Working /\ UNCHANGED batch
      BY <1>7 DEF Repair, Replies, Working
    <2>3. QED
      BY <2>1, <2>2, <1>4, ReasonForType
  <1>8. CASE Store(p)
    BY <1>8 DEF Store, Ready, Working, TypeOK
  <1>9. CASE Record(p) \/ Crash(p)
    BY <1>9, IdleEffect DEF Record, Crash, Ready, Working
  <1>10. QED
    BY <1>1, <1>2, <1>3, <1>5, <1>6, <1>7, <1>8, <1>9 DEF Step

\* The types and the readiness, as one inductive invariant.
LEMMA TypeInvStep == TypeInv /\ [Next]_vars => TypeInv'
  <1> SUFFICES ASSUME TypeInv, [Next]_vars PROVE TypeInv'
    OBVIOUS
  <1>1. ASSUME NEW q \in Procs PROVE Ready(q)'
    <2>1. TypeOK /\ Ready(q)
      BY DEF TypeInv
    <2>2. CASE UNCHANGED vars \/ \E k \in Requests : Damage(k)
      BY <2>1, <2>2 DEF Damage, Ready, Current, vars, loaded, accounts
    <2>3. ASSUME NEW p \in Procs, Start(p) \/ Step(p) \/ Crash(p), q # p
          PROVE  Ready(q)'
      BY <2>1, <2>3, OthersUntouched DEF Ready, Current
    <2>4. ASSUME Start(q) \/ Step(q) \/ Crash(q)
          PROVE  Ready(q)'
      BY <2>1, <2>4, ReadyStep
    <2>5. QED
      BY <2>2, <2>3, <2>4 DEF Next
  <1>2. QED
    BY <1>1, NextType DEF TypeInv

\* Every variable has its type, always (for any constants).
THEOREM TypeCorrect == Spec => []TypeOK
  <1>1. TypeInv => TypeOK
    BY DEF TypeInv
  <1>2. QED
    BY InitType, TypeInvStep, <1>1, PTL DEF Spec

-----------------------------------------------------------------------------
(* The bound on what an invocation spends.                                 *)

\* Before a gate call and before a repair something is left of the budget;
\* before the classification that follows a gate call, the gate's price may
\* be gone as well.
SpendInv(p) ==
    /\ pc[p] = "idle" => spent[p] = 0
    /\ pc[p] \in {"prefilter", "repair"} => spent[p] < Budget
    /\ pc[p] = "prefilter" => using[p].gate # "off"
    /\ pc[p] = "classify" => spent[p] < Budget + GateShare(p)
    /\ spent[p] > 0 => spent[p] < Budget + GateShare(p) + CallCost

\* What the budget check lets through is below the ceiling.
LEMMA NotExceeded ==
    ASSUME NEW total \in Nat, NEW bill, NEW n, ~WouldExceedBudget(total, bill, n)
    PROVE  total < Budget
  <1>1. ~(total >= Budget)
    BY DEF WouldExceedBudget
  <1>2. QED
    BY <1>1, ClassifierAssumption

\* The gate's share is at most the price of one gate call.
LEMMA GateShareType == \A p \in Procs : GateShare(p) \in Nat /\ GateShare(p) <= GateCost
  BY ClassifierAssumption DEF GateShare

\* Every step of a process keeps its spending in bounds.
LEMMA SpendStep ==
    ASSUME TypeInv, NEW p \in Procs, SpendInv(p), Start(p) \/ Step(p) \/ Crash(p)
    PROVE  SpendInv(p)'
  <1> USE ClassifierAssumption DEF shared, loaded, accounts
  <1>1. TypeOK /\ Ready(p) /\ GateShare(p) \in Nat /\ spent[p] \in Nat
    BY GateShareType DEF TypeInv, TypeOK
  <1>2. CASE Start(p)
    <2>1. pc'[p] = "next" /\ spent'[p] = 0
      BY <1>1, <1>2 DEF Start, SpendInv, TypeOK
    <2>2. QED
      BY <2>1 DEF SpendInv
  <1>3. CASE Capped(p) \/ Hit(p) \/ Store(p)
    <2>1. pc'[p] = "next" /\ spent'[p] = spent[p] /\ GateShare(p)' = GateShare(p)
      BY <1>1, <1>3 DEF Capped, Hit, Store, GateShare, TypeOK
    <2>2. QED
      BY <2>1 DEF SpendInv
  <1>4. CASE Miss(p)
    <2>1. spent'[p] = spent[p] /\ using'[p] = using[p] /\ GateShare(p)' = GateShare(p)
      BY <1>4 DEF Miss, GateShare
    <2>2. CASE Exhausted(p)
      <3>1. pc'[p] = "next"
        BY <1>4, <2>2 DEF Miss
      <3>2. QED
        BY <2>1, <3>1 DEF SpendInv
    <2>3. CASE ~Exhausted(p)
      <3>1. spent[p] < Budget
        BY <1>1, <2>3, NotExceeded DEF Exhausted
      <3>2. pc'[p] = IF using[p].gate = "off" THEN "classify" ELSE "prefilter"
        BY <1>1, <1>4, <2>3 DEF Miss, TypeOK
      <3>3. QED
        BY <1>1, <2>1, <3>1, <3>2 DEF SpendInv
    <2>4. QED
      BY <2>2, <2>3
  <1>5. CASE Prefilter(p)
    <2>1. PICK cost \in 0 .. GateCost : spent' = [spent EXCEPT ![p] = @ + cost]
      BY <1>5 DEF Prefilter
    <2>2. spent'[p] = spent[p] + cost
      BY <1>1, <2>1 DEF TypeOK
    <2>3. pc'[p] \in {"classify", "store"}
      BY <1>1, <1>5 DEF Prefilter, Conclude, TypeOK
    <2>4. /\ GateShare(p)' = GateShare(p)
          /\ GateShare(p) = GateCost
          /\ spent[p] < Budget
      BY <1>5 DEF Prefilter, GateShare, SpendInv
    <2>5. spent'[p] < Budget + GateShare(p) /\ spent'[p] \in Nat
      BY <1>1, <2>1, <2>2, <2>4
    <2>6. QED
      BY <1>1, <2>3, <2>4, <2>5 DEF SpendInv
  <1>6. CASE Classify(p)
    <2>1. PICK reply \in ModelReplies, cost \in 0 .. CallCost :
            /\ Charge(p, reply, cost)
            /\ IF ~Malformed(reply)
               THEN Conclude(p, ReasonFor(reply, using[p].floor), reply)
               ELSE IF WouldExceedBudget(spent[p] + cost, billed[p] + cost, calls[p] + 1)
               THEN Conclude(p, "budget_exhausted", reply)
               ELSE pc' = [pc EXCEPT ![p] = "repair"] /\ UNCHANGED results
      BY <1>6 DEF Classify
    <2>2. spent'[p] = spent[p] + cost
      BY <1>1, <2>1 DEF TypeOK, Charge
    <2>3. GateShare(p)' = GateShare(p)
      BY <1>6 DEF Classify, GateShare
    <2>4. spent[p] < Budget + GateShare(p)
      BY <1>6 DEF Classify, SpendInv
    <2>5. spent'[p] < Budget + GateShare(p) + CallCost
      BY <1>1, <2>1, <2>2, <2>4
    <2>6. pc'[p] = "store" \/ (pc'[p] = "repair" /\ spent'[p] < Budget)
      <3>1. CASE /\ Malformed(reply)
                 /\ ~WouldExceedBudget(spent[p] + cost, billed[p] + cost, calls[p] + 1)
        <4>1. spent[p] + cost < Budget
          BY <1>1, <3>1, <2>1, NotExceeded
        <4>2. QED
          BY <1>1, <2>1, <2>2, <3>1, <4>1 DEF TypeOK
      <3>2. CASE \/ ~Malformed(reply)
                 \/ WouldExceedBudget(spent[p] + cost, billed[p] + cost, calls[p] + 1)
        BY <1>1, <2>1, <3>2 DEF TypeOK, Conclude
      <3>3. QED
        BY <3>1, <3>2
    <2>7. QED
      BY <2>3, <2>5, <2>6 DEF SpendInv
  <1>7. CASE Repair(p)
    <2>1. PICK reply \in ModelReplies, cost \in 0 .. CallCost :
            Charge(p, reply, cost)
      BY <1>7 DEF Repair
    <2>2. spent'[p] = spent[p] + cost
      BY <1>1, <2>1 DEF TypeOK, Charge
    <2>3. GateShare(p)' = GateShare(p)
      BY <1>7 DEF Repair, GateShare
    <2>4. pc'[p] = "store"
      BY <1>1, <1>7 DEF Repair, Conclude, TypeOK
    <2>5. spent[p] < Budget
      BY <1>7 DEF Repair, SpendInv
    <2>6. spent'[p] < Budget + GateShare(p) + CallCost
      BY <1>1, <2>1, <2>2, <2>5
    <2>7. QED
      BY <2>3, <2>4, <2>6 DEF SpendInv
  <1>8. CASE Record(p) \/ Crash(p)
    <2>1. pc'[p] = "idle" /\ spent'[p] = 0
      BY <1>1, <1>8, IdleEffect DEF Record, Crash
    <2>2. QED
      BY <2>1 DEF SpendInv
  <1>9. QED
    BY <1>2, <1>3, <1>4, <1>5, <1>6, <1>7, <1>8 DEF Step

\* An invocation spends less than its ceiling, one gate call and one
\* classification (classifier.py:198).
THEOREM SpendIsBounded == Spec => []SpendBounded
  <1> DEFINE Inv == TypeInv /\ \A p \in Procs : SpendInv(p)
  <1>1. Init => Inv
    <2> SUFFICES ASSUME Init PROVE \A p \in Procs : SpendInv(p)
      BY InitType
    <2>1. QED
      BY DEF Init, SpendInv
  <1>2. Inv /\ [Next]_vars => Inv'
    <2> SUFFICES ASSUME Inv, [Next]_vars, NEW q \in Procs PROVE SpendInv(q)'
      BY TypeInvStep
    <2>1. SpendInv(q) /\ TypeOK
      BY DEF TypeInv
    <2>2. CASE UNCHANGED vars \/ \E k \in Requests : Damage(k)
      BY <2>1, <2>2 DEF Damage, SpendInv, GateShare, vars, loaded, accounts
    <2>3. ASSUME NEW p \in Procs, Start(p) \/ Step(p) \/ Crash(p), q # p
          PROVE  SpendInv(q)'
      BY <2>1, <2>3, OthersUntouched DEF SpendInv, GateShare
    <2>4. ASSUME Start(q) \/ Step(q) \/ Crash(q)
          PROVE  SpendInv(q)'
      BY <2>1, <2>4, SpendStep
    <2>5. QED
      BY <2>2, <2>3, <2>4 DEF Next
  <1>3. Inv => SpendBounded
    BY DEF SpendInv, SpendBounded
  <1>4. QED
    BY <1>1, <1>2, <1>3, PTL DEF Spec

-----------------------------------------------------------------------------
(* The six kinds of step of an invocation, as far as its batch goes.       *)

Transient == {"api_error", "budget_exhausted"}

SameInputs(p) ==
    using'[p] = using[p] /\ seen'[p] = seen[p] /\ candidates'[p] = candidates[p]

SetsAnswer(p, result) ==
    \A t \in Tests :
        results'[p][t] = IF t = Current(p) THEN result ELSE results[p][t]

Begins(p) ==
    /\ pc[p] = "idle" /\ pc'[p] = "next"
    /\ hits'[p] = hits[p] /\ results'[p] = results[p]
    /\ candidates'[p] \in SUBSET Tests
    /\ batch'[p] \in SetToSeqs(candidates'[p])

\* The current test is answered by the cap, the budget or the cache.
Answers(p, result) ==
    /\ pc[p] = "next" /\ pc'[p] = "next"
    /\ SameInputs(p) /\ SetsAnswer(p, result)
    /\ batch[p] # <<>> /\ batch'[p] = Tail(batch[p])
    /\ \/ result.reason \in Transient /\ hits'[p] = hits[p]
       \/ cache[KeyOf(p)] = result /\ hits'[p] = hits[p] \cup {Current(p)}

\* The current test goes on to its next call.
Proceeds(p) ==
    /\ pc[p] \notin {"idle", "store"} /\ pc'[p] \notin {"idle", "store"}
    /\ SameInputs(p) /\ results'[p] = results[p] /\ hits'[p] = hits[p]
    /\ batch[p] # <<>> /\ batch'[p] = batch[p]

\* A call has answered the current test.
Concludes(p, result) ==
    /\ pc[p] \notin {"idle", "store"} /\ pc'[p] = "store"
    /\ SameInputs(p) /\ SetsAnswer(p, result) /\ hits'[p] = hits[p]
    /\ batch[p] # <<>> /\ batch'[p] = batch[p]
    /\ result.reason \in Transient \/ Earned(result, RequestOf(p))

Stores(p) ==
    /\ pc[p] = "store" /\ pc'[p] = "next"
    /\ SameInputs(p) /\ results'[p] = results[p] /\ hits'[p] = hits[p]
    /\ batch[p] # <<>> /\ batch'[p] = Tail(batch[p])

Ends(p) ==
    /\ pc'[p] = "idle" /\ batch'[p] = <<>> /\ hits'[p] = {}
    /\ \A t \in Tests : results'[p][t] = Unanswered

\* What a reply of the classifying model amounts to is transient or earned.
LEMMA ReplyIsEarned ==
    ASSUME NEW reply \in ModelReplies, NEW floor \in Floors, NEW request \in Requests
    PROVE  LET result == Result(ReasonFor(reply, floor), request, reply)
           IN  /\ result \in Results
               /\ result.reason \in Transient \/ Earned(result, request)
  <1> DEFINE result == Result(ReasonFor(reply, floor), request, reply)
  <1>1. reply \in Replies /\ ReasonFor(reply, floor) \in Reasons
    BY ReasonForType DEF Replies
  <1>2. /\ result \in Results /\ result.reason = ReasonFor(reply, floor)
        /\ result.request = request /\ result.reply = reply
    BY <1>1, ResultType
  <1>3. CASE reply.kind = "error"
    <2>1. ReasonFor(reply, floor) = "api_error"
      BY <1>3 DEF ReasonFor
    <2>2. QED
      BY <1>2, <2>1 DEF Transient
  <1>4. CASE reply.kind # "error"
    <2>1. reply.kind \in AllReplyKinds
      BY ClassifierAssumption DEF ModelReplies
    <2>2. reply.kind \notin {"none", "error", "unreadable", "accept"}
      BY <1>4, <2>1 DEF AllReplyKinds
    <2>3. QED
      BY <1>2, <2>2 DEF Earned
  <1>5. QED
    BY <1>2, <1>3, <1>4

\* A rejection is earned: any doubt of the gate escalates.
LEMMA RejectionIsEarned ==
    ASSUME NEW reply \in GateReplies, ~Escalates(reply), NEW request \in Requests
    PROVE  LET result == Result("prefiltered", request, reply)
           IN  result \in Results /\ Earned(result, request)
  <1> DEFINE result == Result("prefiltered", request, reply)
  <1>1. reply.kind = "reject"
    BY DEF Escalates
  <1>2. /\ result \in Results /\ result.reason = "prefiltered"
        /\ result.request = request /\ result.reply = reply
    BY ResultType DEF Reasons, Replies
  <1>3. PICK floor \in Floors : TRUE
    BY ClassifierAssumption
  <1>4. ReasonFor(reply, floor) = "prefiltered"
    BY <1>1 DEF ReasonFor
  <1>5. QED
    BY <1>1, <1>2, <1>3, <1>4 DEF Earned

\* Every step of a process is of one of these kinds.
LEMMA StepKinds ==
    ASSUME TypeInv, NEW p \in Procs, Start(p) \/ Step(p) \/ Crash(p)
    PROVE  \/ Begins(p) \/ Proceeds(p) \/ Stores(p) \/ Ends(p)
           \/ \E result \in Results : Answers(p, result) \/ Concludes(p, result)
  <1> USE DEF shared, loaded, accounts
  <1>1. TypeOK /\ Ready(p)
    BY DEF TypeInv
  <1>2. CASE Start(p)
    <2>1. PICK ts \in SUBSET Tests : \E order \in SetToSeqs(ts) :
            /\ candidates' = [candidates EXCEPT ![p] = ts]
            /\ batch' = [batch EXCEPT ![p] = order]
      BY <1>2 DEF Start
    <2>2. candidates'[p] = ts /\ batch'[p] \in SetToSeqs(ts)
      BY <1>1, <2>1 DEF TypeOK
    <2>3. Begins(p)
      BY <1>1, <1>2, <2>2 DEF Start, Begins, TypeOK
    <2>4. QED
      BY <2>3
  <1> DEFINE none == Result("budget_exhausted", RequestOf(p), NoReply)
  <1>3. ASSUME batch[p] # <<>>, Answer(p, none), pc[p] = "next", UNCHANGED <<pc, loaded, hits>>
        PROVE  none \in Results /\ Answers(p, none)
    <2>1. none \in Results /\ none.reason \in Transient
      BY <1>1, <1>3, CurrentType, ResultType DEF Reasons, Replies, Transient
    <2>2. QED
      BY <1>1, <1>3, <2>1, AnswerEffect DEF Answers, SameInputs, SetsAnswer
  <1>4. CASE Capped(p)
    BY <1>3, <1>4 DEF Capped
  <1>5. CASE Hit(p)
    <2>1. batch[p] # <<>> /\ cache[KeyOf(p)] \in Results
      BY <1>5 DEF Hit
    <2>2. hits'[p] = hits[p] \cup {Current(p)} /\ pc[p] = "next" /\ pc'[p] = "next"
      BY <1>1, <1>5 DEF Hit, TypeOK
    <2>3. SetsAnswer(p, cache[KeyOf(p)]) /\ batch'[p] = Tail(batch[p])
      BY <1>1, <1>5, <2>1, AnswerEffect DEF Hit, SetsAnswer
    <2>4. Answers(p, cache[KeyOf(p)])
      BY <1>5, <2>1, <2>2, <2>3 DEF Hit, Answers, SameInputs
    <2>5. QED
      BY <2>1, <2>4
  <1>6. CASE Miss(p)
    <2>1. CASE Exhausted(p)
      BY <1>3, <1>6, <2>1 DEF Miss
    <2>2. CASE ~Exhausted(p)
      BY <1>1, <1>6, <2>2 DEF Miss, Proceeds, SameInputs, TypeOK
    <2>3. QED
      BY <2>1, <2>2
  <1>7. ASSUME NEW reason, NEW reply, Conclude(p, reason, reply),
               Result(reason, RequestOf(p), reply) \in Results,
               \/ Result(reason, RequestOf(p), reply).reason \in Transient
               \/ Earned(Result(reason, RequestOf(p), reply), RequestOf(p)),
               pc[p] \in {"prefilter", "classify", "repair"},
               UNCHANGED <<loaded, batch, hits>>
        PROVE  \E result \in Results : Concludes(p, result)
    <2>1. batch[p] # <<>>
      BY <1>1, <1>7 DEF Ready, Working
    <2>2. pc'[p] = "store" /\ SetsAnswer(p, Result(reason, RequestOf(p), reply))
      BY <1>1, <1>7, <2>1, ConcludeEffect DEF SetsAnswer
    <2>3. Concludes(p, Result(reason, RequestOf(p), reply))
      BY <1>7, <2>1, <2>2 DEF Concludes, SameInputs
    <2>4. QED
      BY <1>7, <2>3
  <1>8. ASSUME pc[p] \in {"prefilter", "classify", "repair"}
        PROVE  RequestOf(p) \in Requests /\ batch[p] # <<>> /\ using[p].floor \in Floors
    <2>1. batch[p] # <<>>
      BY <1>1, <1>8 DEF Ready, Working
    <2>2. QED
      BY <1>1, <2>1, CurrentType DEF TypeOK, Setups
  <1>9. CASE Prefilter(p)
    <2>1. PICK reply \in GateReplies :
            IF Escalates(reply)
            THEN pc' = [pc EXCEPT ![p] = "classify"] /\ UNCHANGED results
            ELSE Conclude(p, "prefiltered", reply)
      BY <1>9 DEF Prefilter
    <2>2. pc[p] = "prefilter" /\ UNCHANGED <<loaded, batch, hits>>
      BY <1>9 DEF Prefilter
    <2>3. CASE Escalates(reply)
      BY <1>1, <1>8, <2>1, <2>2, <2>3 DEF Proceeds, SameInputs, TypeOK
    <2>4. CASE ~Escalates(reply)
      BY <1>7, <1>8, <2>1, <2>2, <2>4, RejectionIsEarned
    <2>5. QED
      BY <2>3, <2>4
  <1>10. CASE Classify(p)
    <2>1. PICK reply \in ModelReplies, cost \in 0 .. CallCost :
            IF ~Malformed(reply)
            THEN Conclude(p, ReasonFor(reply, using[p].floor), reply)
            ELSE IF WouldExceedBudget(spent[p] + cost, billed[p] + cost, calls[p] + 1)
            THEN Conclude(p, "budget_exhausted", reply)
            ELSE pc' = [pc EXCEPT ![p] = "repair"] /\ UNCHANGED results
      BY <1>10 DEF Classify
    <2>2. pc[p] = "classify" /\ UNCHANGED <<loaded, batch, hits>>
      BY <1>10 DEF Classify
    <2>3. CASE pc' = [pc EXCEPT ![p] = "repair"] /\ UNCHANGED results
      BY <1>1, <1>8, <2>2, <2>3 DEF Proceeds, SameInputs, TypeOK
    <2>4. CASE Conclude(p, "budget_exhausted", reply)
      <3>1. "budget_exhausted" \in Reasons /\ reply \in Replies
        BY DEF Reasons, Replies
      <3>2. /\ Result("budget_exhausted", RequestOf(p), reply) \in Results
            /\ Result("budget_exhausted", RequestOf(p), reply).reason \in Transient
        BY <1>8, <2>2, <3>1, ResultType DEF Transient
      <3>3. QED
        BY <1>7, <2>2, <2>4, <3>2
    <2>5. CASE Conclude(p, ReasonFor(reply, using[p].floor), reply)
      BY <1>7, <1>8, <2>2, <2>5, ReplyIsEarned
    <2>6. QED
      BY <2>1, <2>3, <2>4, <2>5
  <1>11. CASE Repair(p)
    <2>1. PICK reply \in ModelReplies :
            Conclude(p, ReasonFor(reply, using[p].floor), reply)
      BY <1>11 DEF Repair
    <2>2. pc[p] = "repair" /\ UNCHANGED <<loaded, batch, hits>>
      BY <1>11 DEF Repair
    <2>3. QED
      BY <1>7, <1>8, <2>1, <2>2, ReplyIsEarned
  <1>12. CASE Store(p)
    BY <1>1, <1>12 DEF Store, Stores, SameInputs, Ready, Working, TypeOK
  <1>13. CASE Record(p) \/ Crash(p)
    BY <1>1, <1>13, IdleEffect DEF Record, Crash, Ends
  <1>14. QED
    BY <1>2, <1>4, <1>5, <1>6, <1>9, <1>10, <1>11, <1>12, <1>13 DEF Step

-----------------------------------------------------------------------------
(* Where answers come from, and that everyone gets one.                    *)

\* An idle process has no answers and no hits.
Fresh(p) ==
    pc[p] = "idle" => hits[p] = {} /\ \A t \in Tests : results[p][t] = Unanswered

\* A batch lists candidates, each once, and none that the cache answered.
Orderly(p) ==
    /\ Distinct(batch[p])
    /\ \A t \in Tests : Waits(batch[p], t) => t \in candidates[p] /\ t \notin hits[p]

HonestAnswer(p, t) ==
    \/ results[p][t] = Unanswered
    \/ results[p][t].reason \in Transient /\ t \notin hits[p]
    \/ Earned(results[p][t], Request(t, seen[p][t], using[p]))

Honest(p) == \A t \in Tests : HonestAnswer(p, t)

\* Who has an answer: the candidates that no longer wait, and the one whose
\* answer is about to be stored.
Covered(p) ==
    pc[p] # "idle" =>
        \A t \in Tests :
            results[p][t] # Unanswered <=>
                /\ t \in candidates[p]
                /\ Waits(batch[p], t) => pc[p] = "store" /\ t = Current(p)

\* Every file of the cache holds an earned answer to its key.
CacheEarned == \A k \in Requests : cache[k] \in Results => Earned(cache[k], k)

BatchInv(p) == Fresh(p) /\ Orderly(p) /\ Honest(p) /\ Covered(p)

AnswerInv == TypeInv /\ CacheEarned /\ \A p \in Procs : BatchInv(p)

\* A process becomes idle only by forgetting its answers.
LEMMA FreshStep ==
    ASSUME TypeInv, NEW p \in Procs, Fresh(p), Start(p) \/ Step(p) \/ Crash(p)
    PROVE  Fresh(p)'
  BY StepKinds DEF Begins, Proceeds, Stores, Ends, Answers, Concludes, Fresh

\* The batch after its first test has been taken off.
LEMMA TakenOff ==
    ASSUME TypeInv, NEW p \in Procs, Orderly(p), batch[p] # <<>>,
           batch'[p] = Tail(batch[p])
    PROVE  /\ Distinct(batch'[p])
           /\ Current(p) \in Tests /\ Waits(batch[p], Current(p))
           /\ \A t \in Tests : Waits(batch'[p], t) <=> Waits(batch[p], t) /\ t # Current(p)
  <1>1. batch[p] \in Seq(Tests) /\ Distinct(batch[p]) /\ Current(p) \in Tests
    BY CurrentType DEF TypeInv, TypeOK, Orderly
  <1>2. QED
    BY <1>1, TailOfBatch DEF Current

\* Every step keeps the batch in order.
LEMMA OrderlyStep ==
    ASSUME TypeInv, NEW p \in Procs, Fresh(p), Orderly(p), Start(p) \/ Step(p) \/ Crash(p)
    PROVE  Orderly(p)'
  <1>1. CASE Begins(p)
    <2>1. /\ Distinct(batch'[p])
          /\ \A t \in Tests : Waits(batch'[p], t) <=> t \in candidates'[p]
      BY <1>1, OrderOfTests DEF Begins
    <2>2. hits'[p] = {}
      BY <1>1 DEF Begins, Fresh
    <2>3. QED
      BY <2>1, <2>2 DEF Orderly
  <1>2. ASSUME NEW result, Answers(p, result)
        PROVE  Orderly(p)'
    <2>1. /\ batch[p] # <<>> /\ batch'[p] = Tail(batch[p])
          /\ candidates'[p] = candidates[p]
          /\ hits'[p] \subseteq hits[p] \cup {Current(p)}
      BY <1>2 DEF Answers, SameInputs
    <2>2. /\ Distinct(batch'[p])
          /\ \A t \in Tests : Waits(batch'[p], t) <=> Waits(batch[p], t) /\ t # Current(p)
      BY <2>1, TakenOff
    <2>3. QED
      BY <2>1, <2>2 DEF Orderly
  <1>3. CASE Stores(p)
    <2>1. /\ batch[p] # <<>> /\ batch'[p] = Tail(batch[p])
          /\ candidates'[p] = candidates[p] /\ hits'[p] = hits[p]
      BY <1>3 DEF Stores, SameInputs
    <2>2. /\ Distinct(batch'[p])
          /\ \A t \in Tests : Waits(batch'[p], t) <=> Waits(batch[p], t) /\ t # Current(p)
      BY <2>1, TakenOff
    <2>3. QED
      BY <2>1, <2>2 DEF Orderly
  <1>4. ASSUME NEW result, Proceeds(p) \/ Concludes(p, result)
        PROVE  Orderly(p)'
    BY <1>4 DEF Proceeds, Concludes, SameInputs, Orderly
  <1>5. CASE Ends(p)
    <2>1. Distinct(<<>>) /\ \A t : ~Waits(<<>>, t)
      BY DEF Distinct, Waits
    <2>2. QED
      BY <1>5, <2>1 DEF Ends, Orderly
  <1>6. QED
    BY <1>1, <1>2, <1>3, <1>4, <1>5, StepKinds

\* Every step keeps a process's answers honest, given an honest cache.
LEMMA HonestStep ==
    ASSUME AnswerInv, NEW p \in Procs, Start(p) \/ Step(p) \/ Crash(p)
    PROVE  Honest(p)'
  <1>1. /\ TypeInv /\ TypeOK /\ CacheEarned
        /\ Fresh(p) /\ Orderly(p) /\ Honest(p)
    BY DEF AnswerInv, BatchInv, TypeInv
  <1>2. CASE Begins(p) \/ Ends(p)
    BY <1>1, <1>2 DEF Begins, Ends, Fresh, Honest, HonestAnswer
  <1>3. CASE Proceeds(p) \/ Stores(p)
    BY <1>1, <1>3 DEF Proceeds, Stores, SameInputs, Honest, HonestAnswer
  <1>4. ASSUME NEW result \in Results, Answers(p, result), NEW t \in Tests
        PROVE  HonestAnswer(p, t)'
    <2>1. batch[p] # <<>> /\ batch'[p] = Tail(batch[p])
      BY <1>4 DEF Answers
    <2>2. /\ Current(p) \in Tests /\ KeyOf(p) \in Requests
          /\ KeyOf(p) = Request(Current(p), seen[p][Current(p)], using[p])
      BY <1>1, <2>1, CurrentType
    <2>3. Current(p) \notin hits[p]
      BY <1>1, <2>1, TakenOff DEF Orderly
    <2>4. /\ seen'[p] = seen[p] /\ using'[p] = using[p]
          /\ results'[p][t] = IF t = Current(p) THEN result ELSE results[p][t]
          /\ hits'[p] \subseteq hits[p] \cup {Current(p)}
      BY <1>4 DEF Answers, SetsAnswer, SameInputs
    <2>5. CASE t # Current(p)
      BY <1>1, <2>4, <2>5 DEF Honest, HonestAnswer
    <2>6. CASE t = Current(p)
      <3>1. CASE result.reason \in Transient /\ hits'[p] = hits[p]
        BY <2>3, <2>4, <2>6, <3>1 DEF HonestAnswer
      <3>2. CASE cache[KeyOf(p)] = result
        <4>1. Earned(result, Request(t, seen[p][t], using[p]))
          BY <1>1, <1>4, <2>2, <2>6, <3>2 DEF CacheEarned
        <4>2. Request(t, seen'[p][t], using'[p]) = Request(t, seen[p][t], using[p])
          BY <2>4
        <4>3. Earned(results'[p][t], Request(t, seen'[p][t], using'[p]))
          BY <2>4, <2>6, <4>1, <4>2
        <4>4. QED
          BY <4>3 DEF HonestAnswer, Earned
      <3>3. QED
        BY <1>4, <3>1, <3>2 DEF Answers
    <2>7. QED
      BY <2>5, <2>6
  <1>5. ASSUME NEW result \in Results, Concludes(p, result), NEW t \in Tests
        PROVE  HonestAnswer(p, t)'
    <2>1. batch[p] # <<>> /\ batch'[p] = batch[p]
      BY <1>5 DEF Concludes
    <2>2. /\ Current(p) \in Tests
          /\ RequestOf(p) = Request(Current(p), seen[p][Current(p)], using[p])
      BY <1>1, <2>1, CurrentType
    <2>3. Current(p) \notin hits[p]
      <3>1. batch[p] \in Seq(Tests) /\ Distinct(batch[p])
        BY <1>1 DEF TypeOK, Orderly
      <3>2. Waits(batch[p], Current(p))
        BY <2>1, <3>1, TailOfBatch DEF Current
      <3>3. QED
        BY <1>1, <2>2, <3>2 DEF Orderly
    <2>4. /\ seen'[p] = seen[p] /\ using'[p] = using[p] /\ hits'[p] = hits[p]
          /\ results'[p][t] = IF t = Current(p) THEN result ELSE results[p][t]
      BY <1>5 DEF Concludes, SetsAnswer, SameInputs
    <2>5. CASE t # Current(p)
      BY <1>1, <2>4, <2>5 DEF Honest, HonestAnswer
    <2>6. CASE t = Current(p)
      <3>1. CASE result.reason \in Transient
        BY <2>3, <2>4, <2>6, <3>1 DEF HonestAnswer
      <3>2. CASE Earned(result, RequestOf(p))
        <4>1. Earned(results'[p][t], Request(t, seen'[p][t], using'[p]))
          BY <2>2, <2>4, <2>6, <3>2
        <4>2. QED
          BY <4>1 DEF HonestAnswer, Earned
      <3>3. QED
        BY <1>5, <3>1, <3>2 DEF Concludes
    <2>7. QED
      BY <2>5, <2>6
  <1>6. QED
    BY <1>2, <1>3, <1>4, <1>5, <1>1, StepKinds DEF Honest

\* Every step moves a test from the batch to the answers, or neither.
LEMMA CoveredStep ==
    ASSUME AnswerInv, NEW p \in Procs, Start(p) \/ Step(p) \/ Crash(p)
    PROVE  Covered(p)'
  <1>1. /\ TypeInv /\ TypeOK /\ Ready(p)
        /\ Fresh(p) /\ Orderly(p) /\ Covered(p)
    BY DEF AnswerInv, BatchInv, TypeInv
  <1>2. CASE Begins(p)
    <2>1. \A t \in Tests : Waits(batch'[p], t) <=> t \in candidates'[p]
      BY <1>2, OrderOfTests DEF Begins
    <2>2. pc'[p] = "next" /\ \A t \in Tests : results'[p][t] = Unanswered
      BY <1>1, <1>2 DEF Begins, Fresh
    <2>3. QED
      BY <2>1, <2>2 DEF Covered
  <1>3. CASE Proceeds(p)
    BY <1>1, <1>3 DEF Proceeds, SameInputs, Covered
  <1>4. ASSUME NEW result \in Results, Answers(p, result)
        PROVE  Covered(p)'
    <2>1. batch[p] # <<>> /\ batch'[p] = Tail(batch[p])
      BY <1>4 DEF Answers
    <2>2. /\ Current(p) \in Tests /\ Waits(batch[p], Current(p))
          /\ \A t \in Tests : Waits(batch'[p], t) <=> Waits(batch[p], t) /\ t # Current(p)
      BY <1>1, <2>1, TakenOff
    <2>3. /\ pc[p] = "next" /\ pc'[p] = "next" /\ candidates'[p] = candidates[p]
          /\ \A t \in Tests : results'[p][t] =
                IF t = Current(p) THEN result ELSE results[p][t]
      BY <1>4 DEF Answers, SetsAnswer, SameInputs
    <2>4. Current(p) \in candidates[p] /\ result # Unanswered
      BY <1>1, <2>2, NoResult DEF Orderly
    <2>5. ASSUME NEW t \in Tests
          PROVE  results'[p][t] # Unanswered <=>
                    t \in candidates'[p] /\ ~Waits(batch'[p], t)
      BY <1>1, <2>2, <2>3, <2>4 DEF Covered
    <2>6. QED
      BY <2>3, <2>5 DEF Covered
  <1>5. ASSUME NEW result \in Results, Concludes(p, result)
        PROVE  Covered(p)'
    <2>1. /\ batch[p] # <<>> /\ batch'[p] = batch[p] /\ candidates'[p] = candidates[p]
          /\ pc[p] \notin {"idle", "store"} /\ pc'[p] = "store"
          /\ \A t \in Tests : results'[p][t] =
                IF t = Current(p) THEN result ELSE results[p][t]
      BY <1>5 DEF Concludes, SetsAnswer, SameInputs
    <2>2. batch[p] \in Seq(Tests) /\ Distinct(batch[p]) /\ Current(p) \in Tests
      BY <1>1, <2>1, CurrentType DEF TypeOK, Orderly
    <2>3. Waits(batch[p], Current(p))
      BY <2>1, <2>2, TailOfBatch DEF Current
    <2>4. Current(p) \in candidates[p] /\ result # Unanswered
      BY <1>1, <2>2, <2>3, NoResult DEF Orderly
    <2>5. Current(p)' = Current(p)
      BY <2>1 DEF Current
    <2>6. ASSUME NEW t \in Tests
          PROVE  results'[p][t] # Unanswered <=>
                    /\ t \in candidates'[p]
                    /\ Waits(batch'[p], t) => t = Current(p)
      BY <1>1, <2>1, <2>3, <2>4 DEF Covered
    <2>7. QED
      BY <2>1, <2>5, <2>6 DEF Covered
  <1>6. CASE Stores(p)
    <2>1. /\ batch[p] # <<>> /\ batch'[p] = Tail(batch[p])
          /\ candidates'[p] = candidates[p] /\ results'[p] = results[p]
          /\ pc[p] = "store" /\ pc'[p] = "next"
      BY <1>6 DEF Stores, SameInputs
    <2>2. \A t \in Tests : Waits(batch'[p], t) <=> Waits(batch[p], t) /\ t # Current(p)
      BY <1>1, <2>1, TakenOff
    <2>3. ASSUME NEW t \in Tests
          PROVE  results'[p][t] # Unanswered <=>
                    t \in candidates'[p] /\ ~Waits(batch'[p], t)
      BY <1>1, <2>1, <2>2 DEF Covered
    <2>4. QED
      BY <2>1, <2>3 DEF Covered
  <1>7. CASE Ends(p)
    BY <1>7 DEF Ends, Covered
  <1>8. QED
    BY <1>1, <1>2, <1>3, <1>4, <1>5, <1>6, <1>7, StepKinds

\* Only an earned answer is ever written to the cache.
LEMMA CacheStep ==
    ASSUME AnswerInv, [Next]_vars
    PROVE  CacheEarned'
  <1>1. TypeInv /\ TypeOK /\ CacheEarned
    BY DEF AnswerInv, TypeInv
  <1>2. CASE cache' = cache
    BY <1>1, <1>2 DEF CacheEarned
  <1>3. ASSUME NEW k \in Requests, NEW x, x \notin Results \/ Earned(x, k),
               cache' = [cache EXCEPT ![k] = x]
        PROVE  CacheEarned'
    <2> SUFFICES ASSUME NEW m \in Requests, cache'[m] \in Results
                 PROVE  Earned(cache'[m], m)
      BY DEF CacheEarned, Earned
    <2>1. CASE m = k
      <3>1. cache'[m] = x
        BY <1>1, <1>3, <2>1 DEF TypeOK
      <3>2. QED
        BY <1>3, <2>1, <3>1
    <2>2. CASE m # k
      <3>1. cache'[m] = cache[m]
        BY <1>1, <1>3, <2>2 DEF TypeOK
      <3>2. QED
        BY <1>1, <3>1 DEF CacheEarned
    <2>3. QED
      BY <2>1, <2>2
  <1>4. ASSUME NEW k \in Requests, Damage(k)
        PROVE  CacheEarned'
    BY <1>3, <1>4, NoResult DEF Damage
  <1>5. ASSUME NEW p \in Procs, Miss(p)
        PROVE  CacheEarned'
    <2>1. KeyOf(p) \in Requests
      BY <1>1, <1>5, CurrentType DEF Miss
    <2>2. cache' = [cache EXCEPT ![KeyOf(p)] = Missing]
      BY <1>5 DEF Miss
    <2>3. QED
      BY <1>3, <2>1, <2>2, NoResult
  <1>6. ASSUME NEW p \in Procs, Store(p)
        PROVE  CacheEarned'
    <2>1. CASE UNCHANGED cache
      BY <1>2, <2>1
    <2>2. CASE /\ IsCacheable(results[p][Current(p)])
               /\ cache' = [cache EXCEPT ![KeyOf(p)] = results[p][Current(p)]]
      <3>1. /\ batch[p] # <<>> /\ results[p][Current(p)] # Unanswered
        BY <1>1, <1>6 DEF TypeInv, Ready, Working, Store
      <3>2. /\ Current(p) \in Tests /\ KeyOf(p) \in Requests
            /\ KeyOf(p) = Request(Current(p), seen[p][Current(p)], using[p])
        BY <1>1, <3>1, CurrentType
      <3>3. HonestAnswer(p, Current(p))
        BY <3>2 DEF AnswerInv, BatchInv, Honest
      <3>4. results[p][Current(p)].reason \notin Transient
        BY <2>2 DEF IsCacheable, Transient
      <3>5. Earned(results[p][Current(p)], KeyOf(p))
        BY <3>1, <3>2, <3>3, <3>4 DEF HonestAnswer
      <3>6. QED
        BY <1>3, <2>2, <3>2, <3>5
    <2>3. QED
      BY <1>6, <2>1, <2>2 DEF Store
  <1>7. ASSUME NEW p \in Procs,
               \/ Start(p) \/ Crash(p) \/ Capped(p) \/ Hit(p) \/ Prefilter(p)
               \/ Classify(p) \/ Repair(p) \/ Record(p)
        PROVE  CacheEarned'
    <2>1. cache' = cache
      BY <1>7 DEF Start, Crash, Capped, Hit, Prefilter, Classify, Repair, Record, shared
    <2>2. QED
      BY <1>2, <2>1
  <1>8. CASE UNCHANGED vars
    BY <1>2, <1>8 DEF vars, shared
  <1>9. QED
    BY <1>4, <1>5, <1>6, <1>7, <1>8 DEF Next, Step

\* The invariant about batch, answers and cache holds always.
LEMMA AnswerInvHolds == Spec => []AnswerInv
  <1>1. Init => AnswerInv
    <2> SUFFICES ASSUME Init PROVE AnswerInv
      OBVIOUS
    <2>1. CacheEarned
      BY NoResult DEF Init, CacheEarned
    <2>2. ASSUME NEW p \in Procs PROVE BatchInv(p)
      <3>1. Distinct(<<>>) /\ \A t : ~Waits(<<>>, t)
        BY DEF Distinct, Waits
      <3>2. QED
        BY <3>1 DEF Init, BatchInv, Fresh, Orderly, Honest, HonestAnswer, Covered
    <2>3. QED
      BY <2>1, <2>2, InitType DEF AnswerInv
  <1>2. AnswerInv /\ [Next]_vars => AnswerInv'
    <2> SUFFICES ASSUME AnswerInv, [Next]_vars, NEW q \in Procs PROVE BatchInv(q)'
      BY TypeInvStep, CacheStep DEF AnswerInv
    <2>1. BatchInv(q) /\ TypeInv /\ TypeOK
      BY DEF AnswerInv, TypeInv
    <2>2. ASSUME /\ pc'[q] = pc[q] /\ using'[q] = using[q] /\ seen'[q] = seen[q]
                 /\ candidates'[q] = candidates[q] /\ batch'[q] = batch[q]
                 /\ results'[q] = results[q] /\ hits'[q] = hits[q]
          PROVE  BatchInv(q)'
      BY <2>1, <2>2 DEF BatchInv, Fresh, Orderly, Honest, HonestAnswer, Covered, Current
    <2>3. CASE UNCHANGED vars \/ \E k \in Requests : Damage(k)
      BY <2>2, <2>3 DEF Damage, vars, loaded, accounts
    <2>4. ASSUME NEW p \in Procs, Start(p) \/ Step(p) \/ Crash(p), q # p
          PROVE  BatchInv(q)'
      BY <2>1, <2>2, <2>4, OthersUntouched
    <2>5. ASSUME Start(q) \/ Step(q) \/ Crash(q)
          PROVE  BatchInv(q)'
      BY <2>1, <2>5, FreshStep, OrderlyStep, HonestStep, CoveredStep DEF BatchInv
    <2>6. QED
      BY <2>3, <2>4, <2>5 DEF Next
  <1>3. QED
    BY <1>1, <1>2, PTL DEF Spec

\* An answer is one the models gave to the request it is used for; no failed
\* call or exhausted budget comes out of the cache (cache.py:7-11).
THEOREM AnswersEarned == Spec => []AnswersAreEarned
  <1>1. AnswerInv => AnswersAreEarned
    BY DEF AnswerInv, BatchInv, Honest, HonestAnswer, AnswersAreEarned, Transient
  <1>2. QED
    BY AnswerInvHolds, <1>1, PTL

\* At the end of a batch every candidate has an answer, and nothing else has
\* (classifier.py:235).
THEOREM EveryCandidateAnswered == Spec => []BatchIsAnswered
  <1>1. AnswerInv => BatchIsAnswered
    <2> SUFFICES ASSUME AnswerInv, NEW p \in Procs, pc[p] = "next", batch[p] = <<>>
                 PROVE  {t \in Tests : results[p][t] # Unanswered} = candidates[p]
      BY DEF BatchIsAnswered
    <2>1. Covered(p) /\ candidates[p] \subseteq Tests
      BY DEF AnswerInv, BatchInv, TypeInv, TypeOK
    <2>2. \A t : ~Waits(<<>>, t)
      BY DEF Waits
    <2>3. QED
      BY <2>1, <2>2 DEF Covered
  <1>2. QED
    BY AnswerInvHolds, <1>1, PTL

=============================================================================
