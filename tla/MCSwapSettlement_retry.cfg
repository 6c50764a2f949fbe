SPECIFICATION FairSpec
CHECK_DEADLOCK FALSE
CONSTANTS
    a1 = a1  a2 = a2
    s1 = s1  s2 = s2  s3 = s3
    t1 = t1  t2 = t2  t3 = t3
    job1 = job1  job2 = job2
    Swaps <- ThreeSwaps
    Rows <- ThreeSwaps
    Accounts <- TwoAccounts
    From <- MCFrom
    To <- MCTo
    AmountIn <- MCAmountIn
    AmountsOut = {1}
    Start <- MCStart
    Threads = {t1}
    Job <- SingleJob
    Kind <- SingleKind
    Parts <- SingleParts
    MaxRetries = 1
    MaxAttempts = 2
    LockTimeout = FALSE
    MaxCrashes = 0
PROPERTIES
    JobsEnd
