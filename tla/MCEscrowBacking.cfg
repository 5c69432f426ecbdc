SPECIFICATION Spec
CONSTANTS
    Users = {alice}
    ContractOwner = owner
    PoolContract = pool
    EscrowContract = escrow
    MaxHeight = 3
    InitialBalances <- MCInitialBalances
    Nullifiers = {n1, n2}
    ZeroNullifier = n0
    TreeDepth = 1
    MaxLeaves = 2
    ZeroHash0 = z0
    PoolDenomination = 2
    ChallengePeriod = 1
    MinBond = 1
    MaxWithdrawals = 2
    Commitments = {c1, c2}
    ZeroCommitment = c0
    VerifyProof <- MCVerifyProof
    Recipients = {owner}
    RelayerFees = {0}
    Bonds = {1}
    RegistryWriters = {escrow}
    TreeWriters = {pool}
    DirectMarks = {}
    DirectLeaves = {}
    TransferAmounts = {}
    MaxRejections = 4
INVARIANTS
    OpenWithdrawalsBacked
CHECK_DEADLOCK FALSE
