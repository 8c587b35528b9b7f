SPECIFICATION FairSpec
CONSTANTS
    Accounts = {1, 2, 3}
    Pool = 2
    Purchases = {{1}, {1, 2, 3}}
    EpochSeconds = 2
    Sellers = {1}
    Contribution = 3
    Confirmations = 1
    SettlementMargin = 0
    RewindsTo = {0, 1, 2, 3, 4}
    MaxBlock = 5
    MaxTrades = 2
    MaxUpsets = 1
INVARIANTS
    TypeOK DatasetMatchesChain EntitlementsNeverFall NothingLost ProofsVerify
PROPERTIES
    EpochsAreDistributed
CHECK_DEADLOCK FALSE
