SPECIFICATION Spec
CONSTANTS
    Clones = {c1}
    Families = {f1}
    Records = {r1, r2}
    Hashes = {h1}
    Art <- SharedArt
    Links = {p1, p2}
    Writers = {w1}
    None = None
INVARIANT NothingLost
INVARIANT FoldCarries
INVARIANT InterruptedLooksPopulated
SYMMETRY Symmetry
