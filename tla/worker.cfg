SPECIFICATION FairSpec
CONSTANTS
    Workers = {w1, w2}
    MaxBlock = 2
    Day = 2
    MaxAttempts = 2
    BaseBackoff = 1
    MaxBackoff = 2
    MaxRollbacks = 1
    MaxSweeps = 1
    MaxMishaps = 2
    MaxUpsets = 2
INVARIANTS
    TypeOK OneRunner CandlesFresh BalancesReconciled

    
CHECK_DEADLOCK FALSE
