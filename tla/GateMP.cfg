SPECIFICATION Spec
CONSTANTS
    p1 = p1
    p2 = p2
    t1 = t1
    t2 = t2
    u1 = u1
    b1 = b1
    b2 = b2
    b3 = b3
    Procs = {p1, p2}
    Threads = {t1, t2, u1}
    On <- MCOn
    NumRemoteSystem = 2
    Blocks = {b1, b2, b3}
    Nothing = Nothing
SYMMETRY Alike
CONSTRAINT Bound
INVARIANTS ResourcesUnshared NoResourceLost HandlesLive
