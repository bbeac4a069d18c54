SPECIFICATION FairSpec
CONSTANTS
    p1 = p1
    p2 = p2
    c1 = c1
    x1 = x1
    y1 = y1
    Products = {p1, p2}
    Captures = {p1}
    Changes = {c1}
    OldTypes = {x1}
    OldForms = {y1}
    Leftovers <- OldRecords
    Ops = {o1, o2}
    Times = {t1, t2}
    Writers = {w1}
    Migration = Migration
    PeerKeys <- ForwardedCaptures
    CrashBound = 1
    None = None
INVARIANT TypeOK
INVARIANT BoundedAgrees
INVARIANT ActivatedFromApproved
INVARIANT ActivationRecoverable
INVARIANT ReceiptNamesAuthority
INVARIANT ForkHasArtifacts
PROPERTY TransitionCompletes
