SPECIFICATION FairSpec
CONSTANTS
    MaxNotifies = 2
    MaxAsks = 1
    MaxShares = 2
    MaxFaults = 2
    MaxLoad = 3
CHECK_DEADLOCK FALSE
INVARIANTS
    NoNotifyLost
    SessionIsAuthorized
    SharesAreCounted
    RequestsAreAnswered
PROPERTY HandshakeEnds
