SPECIFICATION Spec
CONSTANTS
    w1 = w1
    w2 = w2
    s1 = s1
    s2 = s2
    l1 = l1
    l2 = l2
    Workers <- AllWorkers
    Sids <- OneSid
    Links <- AllLinks
    MaxFailed = 2
    MaxWrong = 2
    LockFor = 1
    LinkTTL = 1
    CodesPerBatch = 1
    MaxAccounts = 1
    MaxPasswords = 3
    MaxSecrets = 1
    MaxBatches = 2
    MaxStreak = 2
    MaxNow = 1
    MaxIssued = 7
    NoUser = NoUser
    NoSession = NoSession
    NoLink = NoLink
    NoSid = NoSid
    NoCode = NoCode
CHECK_DEADLOCK FALSE
CONSTRAINT WithinBudget
SYMMETRY Symmetry
INVARIANTS
    TypeOK
    SessionsBehindPassword
    CodeRedeemedOnce
    ResetsInOrder
    FailuresCounted
    OldCodesGone
