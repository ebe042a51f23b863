SPECIFICATION MCSpec
CONSTANTS
    Tests = {t1, t2, t3}
    Procs = {p1, p2}
    Contexts = {"trace"}
    Gates = {"off", "small"}
    Prompts = {"v1"}
    Floors = {1, 2}
    Confidences = {1}
    ReplyKinds = {"error", "silent", "garbage", "abstain", "unknown", "bare", "cause"}
    Budget = 3
    MaxTests = 2
    GateCost = 1
    CallCost = 2
    BatchGates = {"small"}
    BatchFloors = {1}
    BatchKinds = {"error", "garbage", "cause"}
SYMMETRY Symmetry
INVARIANTS
    SpendBounded
    BatchIsAnswered
    AnswersAreEarned
