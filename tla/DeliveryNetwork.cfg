SPECIFICATION Spec
CONSTANTS
    Policies <- HttpPolicies
    HttpStatuses = {400, 401, 422, 429, 503}
    SmtpReplies <- MCSmtpReplies
    None = None
INVARIANTS NetworkFailuresAreRetried
