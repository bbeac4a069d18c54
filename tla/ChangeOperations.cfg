SPECIFICATION Spec
CONSTANTS
    c = c
    d = d
    a = a
    b = b
    Procs = {p1, p2}
    Changes = {c, d}
    Revs = {a, b}
    None = None
    Scenarios <- MCScenarios
INVARIANTS OneSnapshotPerOperation PlanGoverns
PROPERTY CyclesNeedOvertaking
