SPECIFICATION FairSpec
CONSTANTS
    Attempts = 3
    Size = 3
    Buffer = 2
    NoFile = NoFile
PROPERTIES
    RunEnds
