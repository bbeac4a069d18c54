SPECIFICATION ForgetSpec
CONSTANTS
    Clones = {c1, c2}
    Families = {f1}
    Records = {}
    Hashes = {}
    Art <- SharedArt
    Links = {p1, p2}
    Writers = {}
    Forgetters = {o1}
    None = None
PROPERTY ForgetSparesLinked
