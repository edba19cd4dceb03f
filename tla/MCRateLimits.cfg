SPECIFICATION Spec
CONSTANTS
    Workers = {w1, w2}
    CredentialLimit = 2
    MutationLimit = 1
    RequestWindow = 2
    FailureLimit = 2
    FailureWindow = 2
    Block = 3
    UserLimit = 2
    StepUpSourceLimit = 1
    StepUpWindow = 2
    AuthLimit = 2
    AuthWindow = 3
    MaxDelay = 2
    MaxTime = 6
    MaxRequests <- MCRequests
    Traffic = {"machine", "management", "page"}
    NoRow = NoRow
SYMMETRY MCSymmetry
CHECK_DEADLOCK FALSE
INVARIANTS TypeOK WithinLimits BlockHolds PagesWithinTwo
PROPERTIES RetryAfterHonest PageRetryHonest
