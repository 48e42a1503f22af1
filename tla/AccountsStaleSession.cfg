CONSTANTS
    Requests = {r1, r2}
    Offered <- ResetActions
    Emails = {e1}
    Passwords = {w1}
    Users = {u1}
    Sessions = {s1, s2}
    Tokens = {t1}
    None = None
    TokenTtl = 1
    MaxTime = 0
SPECIFICATION Spec
PROPERTIES
    ResetRevokesExisting
