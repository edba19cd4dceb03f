SPECIFICATION Spec
CONSTANTS
    Workers = {w1, w2}
    owner = owner
    admin = admin
    member = member
    top = top
    sub = sub
    Users = {owner, admin, member}
    Currencies = {EUR, USD}
    TxIds = {t1, t2}
    OpIds = {o1, o2}
    Categories = {top, sub}
    Parent <- MCParent
    InitialMembers <- MCInitialMembers
    NoCategory = NoCategory
    Amounts = {3, 32}
    Targets = {5}
    Initials = {0, 2}
    Deposits = {2}
    DaysPerMonth = 2
    MaxTargetMonths = 2
    RetryLimit = 2
    MaxRequests = 4
    MaxToday = 3
    NoTx = NoTx
    NoBudget = NoBudget
    NoGoal = NoGoal
    Gone = Gone
SYMMETRY MCSymmetry
CHECK_DEADLOCK FALSE
INVARIANTS TypeOK OneBaseCurrency BalanceNeverNegative OwnerRemains PlanReachesTarget ProgressAddsUp
