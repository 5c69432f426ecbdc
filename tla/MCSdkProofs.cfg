SPECIFICATION TreeClientSpec
CONSTANTS
    Users = {alice}
    ContractOwner = owner
    PoolContract = pool
    EscrowContract = escrow
    MaxHeight = 0
    TreeDepth = 3
    MaxLeaves = 8
    ZeroHash0 = z0
    Leaves = {c1, c2}
INVARIANTS
    EveryLeafProvable
CHECK_DEADLOCK FALSE
