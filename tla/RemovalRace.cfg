SPECIFICATION Spec
CONSTANTS
    Hashes = {h1}
    Writers = {w1}
    Sweepers = {s1, s2}
    Readers = {r1}
    Nothing = Nothing
INVARIANT ErasedOnlyRemoved
INVARIANT KeptOrRemoved
PROPERTY EligibilityIsPermanent
PROPERTY DriftIsNeverErased
PROPERTY StaleReadsStandUp
