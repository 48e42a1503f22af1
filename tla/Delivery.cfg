CONSTANTS
    Policies <- MCPolicies
    HttpStatuses = {400, 401, 422, 429, 503}
    SmtpReplies <- MCSmtpReplies
    None = None
SPECIFICATION FairSpec
INVARIANTS
    SuccessIsConfirmed
    DuplicatesNeedDoubt
    PermanentFailuresEndIt
    TelemetryTellsResult
PROPERTIES
    EveryCallReturns
