SPECIFICATION FairSpec
CONSTANTS
    None = None
    Size = 5
    Offset = 2
    MaxWorks = 3
    MaxReused = 1
CHECK_DEADLOCK FALSE
INVARIANTS
    TypeOK
    NoShareTwice
PROPERTIES
    
    EveryScanEnds
