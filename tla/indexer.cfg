SPECIFICATION FairSpec
CONSTANTS
    MaxHeight = 4
    MaxForks = 1
    MaxTrades = 1
    MaxReorgDepth = 2
    Payloads <- MC_Payloads
    Depth = 2
    Accounts <- MC_Accounts
    BatchSize = 3
    Confirmations = 2
    Supply = 3
    MaxCrashes = 1
    MaxFailures = 1
INVARIANTS
    TypeOK RowsMirrorChain SumsMirrorProjection CommitmentMirrorsChain SettledIsCanonical
PROPERTIES
    AppendsOrCuts CatchesUp
CHECK_DEADLOCK FALSE
