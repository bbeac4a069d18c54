CONSTANTS
    None = None
    A = A
    B = B
    o = o
    a = a
    b = b
    Changes = {A, B}
    Histories <- MCHistories
    MaxBatch = 2
SPECIFICATION Spec
CHECK_DEADLOCK FALSE
INVARIANT IndexIsExact
INVARIANT SeekAgrees
INVARIANT EveryThreadHasHead
