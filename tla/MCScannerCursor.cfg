SPECIFICATION ScannerSpec
CONSTANTS
    PageSize = 2
    Polls = {p1, p2}
    MaxHeight = 2
    MaxForks = 1
    MaxStarts = 2
INVARIANTS
    CursorPastSeen
