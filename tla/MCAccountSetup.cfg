SPECIFICATION Spec
CONSTANTS
    w1 = w1
    w2 = w2
    s1 = s1
    s2 = s2
    l1 = l1
    l2 = l2
    Workers <- AllWorkers
    Sids <- OneSid
    Links <- NoLinks
    MaxFailed = 2
    MaxWrong = 2
    LockFor = 1
    LinkTTL = 1
    CodesPerBatch = 1
    MaxAccounts = 1
    MaxPasswords = 1
    MaxSecrets = 2
    MaxBatches = 2
    MaxStreak = 0
    MaxNow = 0
    MaxIssued = 9
    NoUser = NoUser
    NoSession = NoSession
    NoLink = NoLink
    NoSid = NoSid
    NoCode = NoCode
CHECK_DEADLOCK FALSE
PROPERTIES
    SetupKeepsTwoFactor
