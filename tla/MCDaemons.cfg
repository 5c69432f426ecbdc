SPECIFICATION DaemonsSpec
CONSTANTS
    NoTimer = noTimer
    NoItem = noItem
    Unreadable = unreadable
    MaxItems = 2
    OfferedFees = {10, 12}
    BaseFee = 10
    PercentageFee = 5
    MaxFee = 11
    SurchargeDepth = 0
    BatchDelay = 2
    MaxEnds = 3
    PageSize = 2
    Polls = {p1, p2}
    MaxHeight = 2
    MaxForks = 1
    MaxStarts = 2
INVARIANTS
    FileKeepsUp
    RebroadcastsExplained
    StatusTruthful
    QuoteHolds
PROPERTIES
    CursorPlaced
    SentInTurn
    ItemsSettle
    PaymentsArrive
