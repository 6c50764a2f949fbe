SPECIFICATION Spec
CHECK_DEADLOCK FALSE
CONSTANTS
    a1 = a1  a2 = a2
    s1 = s1  s2 = s2  s3 = s3
    t1 = t1  t2 = t2  t3 = t3
    job1 = job1  job2 = job2
    Swaps <- ThreeSwaps
    Rows <- ThreeSwaps
    Accounts <- TwoAccounts
    From <- MCFrom
    To <- MCTo
    AmountIn <- MCAmountIn
    AmountsOut = {1}
    Start <- RichStart
    Threads = {t1, t2}
    Job <- AtomicJob
    Kind <- AtomicKind
    Parts <- AtomicParts
    MaxRetries = 1
    MaxAttempts = 2
    LockTimeout = TRUE
    MaxCrashes = 1
INVARIANTS
    BalancesAddUp NoOverdraft AllOrNothing CompletedIsSettled
