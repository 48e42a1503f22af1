CONSTANTS
    Requests = {r1, r2}
    Ids = {s1, s2}
    Users = {u1}
    Tokens = {t1, t2, t3}
    None = None
    AbsoluteLifetime = 2
    IdleTimeout = 2
    RotationThreshold = 1
    MaxTime = 2
SPECIFICATION Spec
SYMMETRY Symmetry
VIEW LogoutView
INVARIANTS
    LogoutTakesEffect
