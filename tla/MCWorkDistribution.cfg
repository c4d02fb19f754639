SPECIFICATION Spec
CONSTANTS
    t1 = t1
    t2 = t2
    u1 = u1
    a = a
    b = b
    j1 = j1
    j2 = j2
    p1 = p1
    d1 = d1
    NoJob = NoJob
    NoWork = NoWork
    FirstUrl = u1
    FirstDiff = d1
    Threads <- TwoThreads
    Urls <- OneUrl
    Up <- OneUrl
    Xn1 <- TwoXn1
    Ids <- TwoIds
    Prevs <- OnePrev
    Diffs <- OneDiff
    X2Size = 2
    Retries <- Forever
    MaxNotifies = 2
    MaxResets = 1
SYMMETRY Symmetry
INVARIANTS
    TypeOK
    NoTwoFpgasShareWork
    JobBeforeWork
PROPERTY EveryWorkIsNew
CONSTRAINT OneJobAfterReset
