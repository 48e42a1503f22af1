CONSTANTS
    Requests = {r1, r2}
    Offered <- PluginActions
    Emails = {e1, e2}
    Passwords = {w1, w2}
    Users = {u1, u2}
    Sessions = {s1, s2}
    Tokens = {t1, t2}
    None = None
    TokenTtl = 1
    MaxTime = 1
SPECIFICATION Spec
SYMMETRY Symmetry
VIEW TablesView
INVARIANTS
    Coherent
    NoOrphanUsers
    VerifiedByToken
PROPERTIES
    TokensTakeEffectOnce
    ResetIsAtomic
    PasswordsChangeByToken
    ImplementsDirectory
