SPECIFICATION FlowSpec
CONSTANTS
    t1 = t1
    t2 = t2
    u1 = u1
    a = a
    j1 = j1
    j2 = j2
    p1 = p1
    p2 = p2
    d1 = d1
    d2 = d2
    NoJob = NoJob
    NoWork = NoWork
    NoShare = NoShare
    Stop = Stop
    FirstUrl = u1
    FirstDiff = d1
    Threads <- OneThread
    Urls <- OneUrl
    Up <- OneUrl
    Xn1 <- OneXn1
    Ids <- TwoIds
    Prevs <- TwoPrevs
    Diffs <- TwoDiffs
    X2Size = 1
    Retries = 1
    MaxNotifies = 2
    MaxResets = 0
    MaxShares = 3
SYMMETRY Symmetry
CONSTRAINT FewSharesWhenDiffChanges
CHECK_DEADLOCK FALSE
INVARIANTS
    TargetOfSomeJobSince
    PublishedIsCurrent
PROPERTIES
    ImplementsShareLife
    FreshShareLostOnlyBeforePublication
