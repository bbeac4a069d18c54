SPECIFICATION Spec
CONSTANTS
    k1 = k1
    k2 = k2
    b1 = b1
    Procs = {p1, p2}
    Keys = {k1, k2}
    Blobs = {b1}
    Pays = {0, 1}
    Envs = {0}
    Sigs = {0}
    Needs <- MCNeeds
    PowerLoss = TRUE
    NoProc = NoProc
    Absent = Absent
    Partial = Partial
INVARIANT NoPartialVisible
PROPERTY CreatedSurvives
SYMMETRY Symmetry
