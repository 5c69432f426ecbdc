SPECIFICATION RelayersSpec
CONSTANTS
    Urls = {r1, r2}
    InitialUrls = {r1, r2}
    MaxRetries = 2
    Operations = {op}
    Callers = {a}
    MaxSubmissions = 1
    MaxRemovals = 0
INVARIANTS
    StopsAtSuccess
CHECK_DEADLOCK FALSE
