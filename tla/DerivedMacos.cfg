SPECIFICATION FairSpec
CONSTANTS
    k1 = k1
    k2 = k2
    Keys = {k1, k2}
    Pays = {1, 2}
    Digest <- MCDigest
    Writers = {w1}
    Rebuilders = {r1}
    Platform = "macos"
    Foreign = TRUE
    MaxTemps = 0
    Nothing = Nothing
INVARIANT CurrentIsExact
INVARIANT LedgerSound
INVARIANT AnswersAgreeWithTruth
PROPERTY CursorIsPermanent
PROPERTY WriteEnds
