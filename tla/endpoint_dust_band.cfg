SPECIFICATION Spec
CONSTANTS
    BPS = 20
    CoreFeeBps = 2
    CreatorShareBps = 13
    StockbackBuyBps = 2
    StockbackSellBps = 4
    P0 = 15
    GraduationMultiple = 3
    WAD = 2
    TotalSupply = 10
    QGNum = 3
    QGDen = 5
    ScaleUp = 4
    ScaleDown = 1
    Assets <- MC_Assets
    MaxFeeSearchSteps = 16
    TotalQuote = 75
    BuyAmounts <- MC_CoarseBuyAmounts
    DonationAmounts <- MC_Donations
    SwapFees <- MC_SwapFees
    MintDusts <- MC_MintDusts
    MaxDisturbances = 1
INVARIANTS
    EndpointPurchasable
CHECK_DEADLOCK FALSE
