SPECIFICATION Spec
CONSTANTS
    Null = Null
    Callers = {c1, c2}
    Providers <- MCProviders
    Answers <- MCAnswers
    LimitRows <- MCLimitRows
    EstimatedPrompt = 1
    MaxTokens = 1
    MaxRequests = 3
    MaxDay = 2
    MaxFaults = 1
INVARIANTS
    ReportAgreesWithQuota
    QuotaOvershootBounded
    FailureNamesEveryAttempt
PROPERTIES
    RequestsEnd
CHECK_DEADLOCK FALSE
