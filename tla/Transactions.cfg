\* Three calls, two connections, faults at every statement.
CONSTANTS
    Runs = {r1, r2, r3}
    Conns = {c1, c2}
    None = None
SPECIFICATION FairSpec
INVARIANTS
    Coherent
    PoolIsClean
PROPERTIES
    CommitsOwnWork
    PromiseKept
    EveryCallIsAnswered
