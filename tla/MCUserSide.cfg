SPECIFICATION UserSideSpec
CONSTANTS
    PaymentTxs = {t1, t2}
    Requests = {q1, q2}
    MaxBlocks = 2
    MaxGivenUp = 1
    MaxExits = 1
    Views = {header, page}
    Providers = 2
    Clicks = {c1, c2}
    MaxDeposits = 2
    Submissions = {s1, s2}
    NoteCommitments = {k1}
    Denomination = 5
    WithdrawalFees = {5, 6}
    Funds = 2
    MaxDrops = 1
    Capacity = 1048576
    AvgBlockTimeMs = 600000
    BlocksPerDay = 144
    MinInterveningTransfers = 50
    MinDelayMs = 1500000
    MaxDelayMs = 86400000
    JitterMs = 300000
    Counts = {0, 9, 1000, 60000}
    Heights = {0, 2, 3, 144, 720}
    TransferCounts = {0, 50}
    MaxFetches = 2
    Urls = {r1, r2}
    InitialUrls = {r1}
    MaxRetries = 2
    Operations = {op}
    Callers = {a, b}
    MaxSubmissions = 1
    MaxRemovals = 1
    Users = {alice}
    ContractOwner = owner
    PoolContract = pool
    EscrowContract = escrow
    MaxHeight = 0
    TreeDepth = 3
    MaxLeaves = 8
    ZeroHash0 = z0
    Leaves = {l1, l2}
INVARIANTS
    RootsAgree
    PowersOfTwoProve
    PaidOnce
    AskedAreCurrent
PROPERTIES
    PaymentsTold
    ButtonComesBack
    OfflineHandled
    OrderedByNonces
    WaitsEnd
    SetSizeExplained
    WaitingHelps
    SubmissionsEnd
CHECK_DEADLOCK FALSE
