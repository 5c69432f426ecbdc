SPECIFICATION FairSpec
CONSTANTS
    Users = {alice}
    ContractOwner = owner
    PoolContract = pool
    EscrowContract = escrow
    MaxHeight = 4
    InitialBalances <- MCInitialBalances
    Nullifiers = {n1}
    ZeroNullifier = n0
    TreeDepth = 1
    MaxLeaves = 2
    ZeroHash0 = z0
    PoolDenomination = 2
    ChallengePeriod = 1
    MinBond = 1
    MaxWithdrawals = 1
    Commitments = {c1}
    ZeroCommitment = c0
    VerifyProof <- MCVerifyProof
    Recipients = {owner}
    RelayerFees = {0}
    Bonds = {1}
    RegistryWriters = {pool}
    TreeWriters = {pool}
    DirectMarks = {}
    DirectLeaves = {}
    TransferAmounts = {}
    MaxRejections = 4
PROPERTIES
    UnchallengedExecutes
CHECK_DEADLOCK FALSE
