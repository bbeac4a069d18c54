SPECIFICATION Spec
CONSTANTS
    p1 = p1
    p2 = p2
    c1 = c1
    x1 = x1
    y1 = y1
    Products = {p1, p2}
    Captures = {p1}
    Changes = {c1}
    OldTypes = {}
    OldForms = {}
    Leftovers <- NothingOld
    Ops = {o1}
    Times = {t1}
    Writers = {w1}
    Migration = Migration
    PeerKeys <- ForwardedChanges
    CrashBound = 0
    None = None
INVARIANT ActivatedStoreRoutes
