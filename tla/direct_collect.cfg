SPECIFICATION FairSpec
CONSTANTS
    BPS = 20
    CoreFeeBps = 2
    CreatorShareBps = 13
    StockbackBuyBps = 2
    StockbackSellBps = 4
    P0 = 29
    GraduationMultiple = 3
    WAD = 2
    TotalSupply = 5
    QGNum = 3
    QGDen = 5
    ScaleUp = 1
    ScaleDown = 1
    Assets <- MC_Assets
    MaxFeeSearchSteps = 16
    TotalQuote = 140
    BuyAmounts <- MC_BaseBuyAmounts
    DonationAmounts <- MC_Donations
    SwapFees <- MC_SwapFees
    MintDusts <- MC_MintDusts
    MaxDisturbances = 2
PROPERTIES
    LpFeesReachTheCreator
CHECK_DEADLOCK FALSE
