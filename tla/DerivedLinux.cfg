SPECIFICATION Spec
CONSTANTS
    k1 = k1
    k2 = k2
    Keys = {k1, k2}
    Pays = {1}
    Digest <- MCDigest
    Writers = {w1, w2}
    Rebuilders = {r1}
    Platform = "linux"
    Foreign = FALSE
    MaxTemps = 1
    Nothing = Nothing
INVARIANT TypeOK
INVARIANT CurrentIsExact
