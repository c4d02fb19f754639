SPECIFICATION ApiFairSpec
CONSTANTS
    t1 = t1
    u1 = u1
    u2 = u2
    a = a
    j1 = j1
    p1 = p1
    d1 = d1
    w1 = w1
    w2 = w2
    NoJob = NoJob
    NoWork = NoWork
    FirstUrl = u1
    FirstDiff = d1
    FirstUser = w1
    Keep = Keep
    Threads <- OneThread
    Urls <- TwoUrls
    Up <- TwoUrls
    Xn1 <- OneXn1
    Ids <- OneId
    Prevs <- OnePrev
    Diffs <- OneDiff
    Users <- TwoUsers
    Remote = TRUE
    X2Size = 1
    Retries <- Forever
    MaxNotifies = 0
    MaxResets = 3
CHECK_DEADLOCK FALSE
INVARIANT SessionMatchesSetUrl
PROPERTIES
    SetUrlTakesEffect
    QuitEndsTheProcess
