SPECIFICATION FairSpec
CONSTANTS
    r1 = r1  r2 = r2  r3 = r3
    m1 = m1  x1 = x1  m2 = m2
    Requests = {r1, r2, r3}
    Accounts <- MCAccounts
    ScanIds <- MCScanIds
    Reports <- MCReports
    NoToken = NoToken
    NoTime = NoTime
    NoVerdict = NoVerdict
    Placeholders = 33
INVARIANTS
    TypeOK
    StoredWhole
    OneVerdictPerScan
    AnswersTruthful
    FirstSeenSettled
PROPERTIES
    Serializable
    EveryRequestAnswered
