SPECIFICATION ProverSpec
CONSTANTS
    HashLength = 2
    FeeLength = 2
    Radix = 256
    PathLength = 3
    ByteBits = 2
    MaxProofBytes = 40
    Recipients <- MCRecipients
    Fees = {1, 257}
    RawLengths = {4, 36}
    Secrets = 2
    Loaders = {a, b}
    MaxResets = 1
    MaxProofs = 1
INVARIANTS
    ProofsReachQueries
CHECK_DEADLOCK FALSE
