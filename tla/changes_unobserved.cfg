SPECIFICATION BuyerSpec
CONSTANTS
    m1 = m1  x1 = x1  m2 = m2
    t1 = t1  t2 = t2
    Accounts <- MCAccounts
    Reports <- MCReports
    Tokens <- Tokens2
    NoToken = NoToken
    NoTime = NoTime
    NoReport = NoReport
    Statuses = {"pass", "fail", "error"}
    NoStatus = NoStatus
    Limits <- MCLimits
    DefaultLimit = 3
    MaxLimit = 3
    Window = 1
    HistoryLimit = 3
    MaxOpens = 1
    Times <- MCTimes
CONSTRAINT Worlds
INVARIANT ResolvedWasLookedFor
