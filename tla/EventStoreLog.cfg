SPECIFICATION FairSpec
CONSTANTS
    k1 = k1
    k2 = k2
    b1 = b1
    Procs = {p1, p2}
    Keys = {k1}
    Blobs = {b1}
    Pays = {0, 1}
    Envs = {0, 1}
    Sigs = {0, 1}
    Needs <- MCNeeds
    PowerLoss = FALSE
    NoProc = NoProc
    Absent = Absent
    Partial = Partial
INVARIANT TypeOK
INVARIANT ExistsCheckNeverStale
INVARIANT EventHasItsArtifacts
PROPERTY ImplementsEventLog
PROPERTY HolderReleases
