CONSTANTS
    Requests = {r1, r2}
    Ids = {s1}
    Users = {u1}
    Tokens = {t1, t2, t3}
    None = None
    AbsoluteLifetime = 3
    IdleTimeout = 2
    RotationThreshold = 1
    MaxTime = 3
SPECIFICATION Spec
SYMMETRY Symmetry
PROPERTIES
    LosingRefreshIsRefused
