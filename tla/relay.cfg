SPECIFICATION FairSpec
CONSTANTS
    Tables <- MCTables
    MaxAnswers = 2
    MaxConnections = 2
    MaxTotal = 2
    NoConn = NoConn
INVARIANTS
    LimitsHold
    ObservedInFull
    ErrorsHaveACause
PROPERTIES
    SlotsReturn
