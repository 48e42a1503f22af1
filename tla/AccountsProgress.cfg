CONSTANTS
    Requests = {r1, r2}
    Offered <- TokenActions
    Emails = {e1}
    Passwords = {w1}
    Users = {u1, u2}
    Sessions = {s1, s2}
    Tokens = {t1, t2}
    None = None
    TokenTtl = 1
    MaxTime = 0
SPECIFICATION FairSpec
PROPERTIES
    EveryRequestIsAnswered
