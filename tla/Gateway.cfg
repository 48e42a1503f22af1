CONSTANTS
    Configurations <- MCConfigurations
    Paths <- MCPaths
    Providers <- MCProviders
    Tables <- MCTables
    Envelopes <- MCEnvelopes
    Requests = {r1, r2}
    Sessions = {s1}
    Tokens = {t1, t2}
    None = None
SPECIFICATION Spec
SYMMETRY Symmetry
INVARIANTS
    ServesOnWholeSchema
    EveryEntrypointIsServed
    StaleClientsCanSignIn
PROPERTIES
    EffectsAreAuthorised
    SignOutClearsClient
