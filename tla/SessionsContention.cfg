CONSTANTS
    Requests = {r1, r2}
    Ids = {s1, s2}
    Users = {u1}
    Tokens = {t1, t2}
    None = None
    AbsoluteLifetime = 2
    IdleTimeout = 2
    RotationThreshold = 0
    MaxTime = 0
SPECIFICATION FairSpec
PROPERTIES
    EveryRequestIsAnswered
