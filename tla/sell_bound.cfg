SPECIFICATION Spec
CONSTANTS
    BPS = 20
    CoreFeeBps = 2
    CreatorShareBps = 13
    StockbackBuyBps = 2
    StockbackSellBps = 4
    P0 = 15
    GraduationMultiple = 3
    WAD = 2
    TotalSupply = 10
    QGNum = 3
    QGDen = 5
    ScaleUp = 2
    ScaleDown = 1
    Assets <- MC_Assets
    MaxFeeSearchSteps = 16
    TotalQuote = 62
    BuyAmounts <- MC_BuyAmounts
    DonationAmounts <- MC_Donations
    SwapFees <- MC_SwapFees
    MintDusts <- MC_MintDusts
    MaxDisturbances = 0
PROPERTIES
    SellBoundIsTheNetPayout
CHECK_DEADLOCK FALSE
