SPECIFICATION Spec
CONSTANTS
    MaxHeight = 3
    MaxForks = 1
    MaxTrades = 1
    MaxReorgDepth = 2
    Payloads <- MC_TradePayloads
    Depth = 2
    Accounts <- MC_Accounts
    BatchSize = 2
    Confirmations = 2
    Supply = 3
    MaxCrashes = 0
    MaxFailures = 0
INVARIANTS
    StateMirrorsProjection
CHECK_DEADLOCK FALSE
