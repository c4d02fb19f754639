SPECIFICATION FairSpec
CONSTANTS
    p1 = p1
    p2 = p2
    p3 = p3
    c1 = c1
    c2 = c2
    Poppers <- ThreePoppers
    Timed <- OneTimed
    Data <- TwoCommands
    Null = null
    MaxPushes = 3
INVARIANTS
    FifoOrder
    NoLostWakeup
    StopsOnlyWhenAsked
PROPERTIES
    ImplementsChannel
    EveryEntryDelivered
CHECK_DEADLOCK FALSE
