CONSTANTS
    Requests = {r1, r2}
    States = {s1, s2}
    Providers = {p1, p2}
    Subjects = {x1}
    Users = {u1, u2}
    None = None
    StateTtl = 1
    MaxTime = 1
SPECIFICATION FairSpec
INVARIANTS
    Coherent
    OneLoginPerState
    LoginAnswersItsStart
    NoOrphanUsers
    ServedAsCanonicalUser
    CollisionsResolve
PROPERTIES
    ImplementsDirectory
    EveryRequestIsAnswered
