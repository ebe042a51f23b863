SPECIFICATION Spec
CONSTANTS
    u1 = u1
    u2 = u2
    u3 = u3
    a = a
    b = b
    c = c
    d = d
    Uploads = {u1, u2, u3}
    StartedAt <- MCStartedAt
    Tests = {a, b, c, d}
    Outcomes = {"pass", "fail"}
    Reports <- MCReports
    Distance <- MCDistance
    MaxDistance = 1
    CertainDistances = {0, 1}
    WithDiff = {u2}
    Incomplete = {u1}
    MaxWarnings = 1
    Procs = {p1}
INVARIANTS
    RenamedTestIsGone
