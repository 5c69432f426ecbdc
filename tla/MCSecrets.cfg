SPECIFICATION SecretsSpec
CONSTANTS
    ContractOwner = deployer
    Users = {alice, bob}
    Names = {name1, name2}
    Principals <- MCPrincipals
    Pubkeys <- MCPubkeys
    Order = 5
    Hashes = {0, 7}
    MaxPayments = 1
    Stores = {phone}
    Staleness = 1
    MaxNotes = 2
    MaxCalls = 2
    MaxTime = 2
    MaxExports = 1
    MaxReloads = 1
    HashLength = 2
    FeeLength = 2
    Radix = 256
    PathLength = 3
    ByteBits = 2
    MaxProofBytes = 40
    Recipients <- MCRecipients
    Fees = {1, 257}
    RawLengths = {4, 36}
    Secrets = 2
    Loaders = {a, b}
    MaxResets = 1
    MaxProofs = 1
SYMMETRY Symmetry
INVARIANTS
    NamesResolve
    LinksAttested
    PaymentsFound
    SilenceJustified
    NotesAuthentic
    ListingComplete
    ReadOnce
    BoundToInputs
PROPERTIES
    OnlyOwnersRedirect
    MarksKept
CHECK_DEADLOCK FALSE
