---------------------------- MODULE LaunchMarket ----------------------------
(***************************************************************************)
(* One market from launch to its life as a pool: LaunchMarket.sol with the *)
(* vault, the router and the lock it calls (FeeVault.sol,                  *)
(* GraduationRouter.sol, PermanentLiquidityLock.sol), over the balances of *)
(* its two ERC-20s.  A transaction is one action: every entry point is     *)
(* nonReentrant and reverts as a whole, so a revert is a step not taken.   *)
(*                                                                         *)
(* Abstracted: who the traders are (all of them are "outside"), the        *)
(* caller's own minTokensOut / minQuoteOut / deadline (they only refuse    *)
(* trades), and the interior of the position (a principal and a pot of     *)
(* fees owed).  setRouter is part of launch: the factory refuses to launch *)
(* without a router and calls it in the launching transaction.             *)
(*                                                                         *)
(* Transfers are not guarded by the balance they draw on.  That the market *)
(* never pays what it does not hold is a property (TypeOK), not a premise. *)
(***************************************************************************)
EXTENDS Integers, Fees, Curve, XStockAssetAdapter, FeeVault

CONSTANTS
    MaxFeeSearchSteps,   \* MAX_FEE_SEARCH_STEPS, 16
    TotalQuote,          \* raw units of the quote asset in existence
    BuyAmounts,          \* raw inputs a buyer may send
    DonationAmounts,     \* amounts anybody may send to the market unasked
    SwapFees,            \* LP fee one swap in the pool may leave behind
    MintDusts,           \* what the mint of the position may leave over
    MaxDisturbances      \* bound on donations, swaps and displacements

ASSUME MarketAssumption ==
    /\ Assets = {"TOKEN", "QUOTE"}
    /\ MaxFeeSearchSteps \in Nat /\ TotalQuote \in Nat
    /\ BuyAmounts \subseteq Nat /\ DonationAmounts \subseteq Nat
    /\ SwapFees \subseteq Nat /\ MintDusts \subseteq Nat
    /\ MaxDisturbances \in Nat

VARIABLES
    status,            \* Status
    distributed,       \* TOKEN sold along the curve
    curveCollateral,   \* what the curve OWES, normalized
    graduationDust,    \* rounding surplus owed to the position, normalized
    liquidityLock,     \* has the router named the lock?
    token, quote,      \* ERC-20 balances, [Holders -> Nat]
    poolPrice,         \* the canonical pair's pool: none, or priced at ...
    disturbances,      \* how many donations, swaps and displacements so far
    lpCollected,       \* LP fees the lock ever paid out (FeesCollected)
    lpSettled,         \* LP fees the market ever split (PostGradFeesSettled)
    revenue            \* raw fees ever charged in the creator's favour

marketVars == <<status, distributed, curveCollateral, graduationDust,
                liquidityLock>>
poolVars   == <<poolPrice, disturbances>>
feeHistory == <<lpCollected, lpSettled, revenue>>
vars == <<marketVars, vaultVars, token, quote, poolVars, feeHistory>>

(* "position" holds the principal of the locked NFT, "pool" the fees owed  *)
(* to it, "lock" the mint's remainder; "creator" and "treasury" what they  *)
(* were ever paid.                                                         *)
Holders == {"outside", "market", "feeVault", "rewardVault", "position",
            "pool", "lock", "creator", "treasury"}

Only(h, amount) == [x \in Holders |-> IF x = h THEN amount ELSE 0]
Fee(onToken, onQuote) == [a \in Assets |->
                            IF a = "TOKEN" THEN onToken ELSE onQuote]
NoFee == Fee(0, 0)

Init ==
    /\ status = "PRE_GRAD"
    /\ distributed = 0 /\ curveCollateral = 0 /\ graduationDust = 0
    /\ liquidityLock = FALSE
    /\ token = Only("market", TotalSupply)
    /\ quote = Only("outside", TotalQuote)
    /\ poolPrice = "none" /\ disturbances = 0
    /\ lpCollected = NoFee /\ lpSettled = NoFee /\ revenue = NoFee
    /\ VaultInit

-----------------------------------------------------------------------------
(* Fee settlement *)

(* Historic slip: the fee moved in normalized units.                      *)
CoreInNormalizedUnits(f) == f.coreFee
CoreRaw(f)      == ToRawForPayout(f.coreFee)
StockbackRaw(f) == ToRawForPayout(f.stockback)

(* _settleFees refuses a fee that rounds away in raw units.                *)
FeesPayable(f) ==
    /\ f.coreFee > 0 => CoreRaw(f) > 0
    /\ f.stockback > 0 => StockbackRaw(f) > 0

(* Historic slip: the vault is credited in normalized units.               *)
BookNormalizedFees(f) ==
    /\ Accrue(Fee(0, CreatorPart(f.coreFee)), Fee(0, PlatformPart(f.coreFee)))
    /\ revenue' = [revenue EXCEPT !["QUOTE"] = @ + CoreRaw(f)]
    /\ UNCHANGED <<lpCollected, lpSettled>>

(* The books' side of _settleFees: the split is of the RAW core fee.       *)
BookFees(f) ==
    /\ Accrue(Fee(0, CreatorPart(CoreRaw(f))), Fee(0, PlatformPart(CoreRaw(f))))
    /\ revenue' = [revenue EXCEPT !["QUOTE"] = @ + CoreRaw(f)]
    /\ UNCHANGED <<lpCollected, lpSettled>>

-----------------------------------------------------------------------------
(* _grossForNet: a division, at most MaxFeeSearchSteps up to the first     *)
(* gross that covers the target, then at most as many down while the next  *)
(* lower one still covers it.                                              *)

Covers(gross, targetNet) == ForBuy(gross).net >= targetNet

StepsUp(estimate, targetNet) ==
    CHOOSE i \in 0 .. MaxFeeSearchSteps :
        /\ i = MaxFeeSearchSteps \/ Covers(estimate + i, targetNet)
        /\ \A j \in 0 .. (i - 1) : ~ Covers(estimate + j, targetNet)

(* Slip: tests the gross it stands on instead of the one below.           *)
WalkDownStopsLate(gross, targetNet) ==
    gross = 0 \/ ~ Covers(gross, targetNet)
WalkDownStops(gross, targetNet) ==
    gross = 0 \/ ~ Covers(gross - 1, targetNet)

StepsDown(from, targetNet) ==
    CHOOSE i \in 0 .. MaxFeeSearchSteps :
        /\ i = MaxFeeSearchSteps \/ WalkDownStops(from - i, targetNet)
        /\ \A j \in 0 .. (i - 1) : ~ WalkDownStops(from - j, targetNet)

GrossForNet(targetNet) ==
    LET netBps   == BPS - CoreFeeBps - StockbackBuyBps
        estimate == (targetNet * BPS + netBps - 1) \div netBps
        top      == estimate + StepsUp(estimate, targetNet)
    IN  IF targetNet = 0 THEN 0 ELSE top - StepsDown(top, targetNet)

-----------------------------------------------------------------------------
(* Trading on the curve *)

RemainingSupply == QG - distributed

(* Slip: one unit of TOKEN short.                                          *)
NetShortOfEndpoint == QuoteInFor(distributed, RemainingSupply - 1)
NetToEndpoint   == QuoteInFor(distributed, RemainingSupply)

(* buy's branch: does the whole input's net fall short of the endpoint?    *)
(* The first form, an off-by-one, would leave the endpoint to curve math.  *)
IsOrdinaryOrExact(whole) == whole.net <= NetToEndpoint
IsOrdinary(whole) == whole.net < NetToEndpoint

ExecutePreGradBuy(raw, f) ==
    LET tokensOut == TokensOutFor(distributed, f.net)
    IN  /\ tokensOut # 0
        /\ FeesPayable(f)
        /\ distributed' = distributed + tokensOut
        /\ curveCollateral' = curveCollateral + f.net
        /\ token' = [token EXCEPT !["market"] = @ - tokensOut,
                                  !["outside"] = @ + tokensOut]
        /\ quote' = [quote EXCEPT
              !["outside"]     = @ - raw,
              !["market"]      = @ + raw - CoreRaw(f) - StockbackRaw(f),
              !["feeVault"]    = @ + CoreRaw(f),
              !["rewardVault"] = @ + StockbackRaw(f)]
        /\ BookFees(f)
        /\ UNCHANGED <<status, graduationDust, liquidityLock>>

(* The gross of the curve's leg, clamped to what was sent, and what of the *)
(* rest can be refunded in raw units.                                      *)
PreGradGross(gross) ==
    LET g == GrossForNet(NetToEndpoint) IN IF g > gross THEN gross ELSE g
(* Slip: refunds the input instead of its unspent part.                    *)
RefundWholeInput(gross) == ToRawForPayout(gross)
RefundRaw(gross) == ToRawForPayout(gross - PreGradGross(gross))

(* FeeSearchFailed and CrossingUnderCollateralised.                        *)
CrossingCovered(gross) ==
    /\ Covers(GrossForNet(NetToEndpoint), NetToEndpoint)
    /\ Covers(PreGradGross(gross), NetToEndpoint)

(* Rounding excess of the fees, and the sliver of the refund that has no   *)
(* raw representation.                                                     *)
CrossingDust(gross) ==
    LET refund == gross - PreGradGross(gross)
    IN  ForBuy(PreGradGross(gross)).net - NetToEndpoint
          + (refund - ToNormalized(RefundRaw(gross)))

(* The crossing buy also closes the curve (_enterGraduating).              *)
ExecuteCrossingBuy(raw, gross) ==
    LET f == ForBuy(PreGradGross(gross))
        paid == CoreRaw(f) + StockbackRaw(f)
    IN  /\ CrossingCovered(gross)
        /\ FeesPayable(f)
        /\ distributed' = distributed + RemainingSupply
        /\ curveCollateral' = curveCollateral + NetToEndpoint
        /\ graduationDust' = graduationDust + CrossingDust(gross)
        /\ status' = "GRADUATING"
        /\ token' = [token EXCEPT !["market"] = @ - RemainingSupply,
                                  !["outside"] = @ + RemainingSupply]
        /\ quote' = [quote EXCEPT
              !["outside"]     = @ - raw + RefundRaw(gross),
              !["market"]      = @ + raw - paid - RefundRaw(gross),
              !["feeVault"]    = @ + CoreRaw(f),
              !["rewardVault"] = @ + StockbackRaw(f)]
        /\ BookFees(f)
        /\ UNCHANGED liquidityLock

Buy(raw) ==
    /\ status = "PRE_GRAD"
    /\ raw > 0
    /\ raw <= quote["outside"]
    /\ LET gross == ToNormalized(raw)
       IN  IF IsOrdinary(ForBuy(gross))
             THEN ExecutePreGradBuy(raw, ForBuy(gross))
             ELSE ExecuteCrossingBuy(raw, gross)
    /\ UNCHANGED poolVars

Sell(tokensIn) ==
    LET grossOut == GrossOutFor(distributed, tokensIn)
        f == ForSell(grossOut)
        netOutRaw == ToRawForPayout(f.net)
    IN  /\ status = "PRE_GRAD"
        /\ tokensIn > 0
        /\ tokensIn <= token["outside"]
        /\ tokensIn <= distributed          \* CurveInsufficientDistributed
        /\ grossOut <= curveCollateral      \* InsufficientCollateral
        /\ FeesPayable(f)
        /\ netOutRaw # 0                    \* PayoutRoundsToZero
        /\ distributed' = distributed - tokensIn
        /\ curveCollateral' = curveCollateral - grossOut
        /\ token' = [token EXCEPT !["outside"] = @ - tokensIn,
                                  !["market"] = @ + tokensIn]
        /\ quote' = [quote EXCEPT
              !["outside"]     = @ + netOutRaw,
              !["market"]      = @ - netOutRaw - CoreRaw(f) - StockbackRaw(f),
              !["feeVault"]    = @ + CoreRaw(f),
              !["rewardVault"] = @ + StockbackRaw(f)]
        /\ BookFees(f)
        /\ UNCHANGED <<status, graduationDust, liquidityLock, poolVars>>

(* Slip: a crossing quote with the fees of the whole input.               *)
QuoteBuyWholeInputFees(raw) ==
    LET gross == ToNormalized(raw)
        f == ForBuy(gross)
        crosses == f.net >= NetToEndpoint
    IN  [tokensOut |-> IF crosses THEN RemainingSupply
                                  ELSE TokensOutFor(distributed, f.net),
         coreFee |-> f.coreFee, stockback |-> f.stockback,
         netToCurve |-> IF crosses THEN NetToEndpoint ELSE f.net,
         crosses |-> crosses,
         refundedQuote |-> IF crosses THEN RefundRaw(gross) ELSE 0]

(* quoteBuy: the same fee and curve functions, as a view.                  *)
QuoteBuy(raw) ==
    LET gross == ToNormalized(raw)
        f == ForBuy(gross)
        crossing == ForBuy(PreGradGross(gross))
    IN  IF f.net >= NetToEndpoint
          THEN [tokensOut |-> RemainingSupply, coreFee |-> crossing.coreFee,
                stockback |-> crossing.stockback, netToCurve |-> NetToEndpoint,
                crosses |-> TRUE, refundedQuote |-> RefundRaw(gross)]
          ELSE [tokensOut |-> TokensOutFor(distributed, f.net),
                coreFee |-> f.coreFee, stockback |-> f.stockback,
                netToCurve |-> f.net, crosses |-> FALSE, refundedQuote |-> 0]

QuoteSell(tokensIn) ==
    LET grossOut == GrossOutFor(distributed, tokensIn)
        f == ForSell(grossOut)
    IN  [netOutRaw |-> ToRawForPayout(f.net), grossOut |-> grossOut,
         coreFee |-> f.coreFee, stockback |-> f.stockback]

-----------------------------------------------------------------------------
(* Graduation *)

(* Historic slip: the reserve read as a balance, and a reset before a read.*)
TokensByBalance == token["market"]
QuoteAfterReset == ToRawForPayout(0)

TokensToMigrate   == TotalSupply - distributed
QuoteRawToMigrate == ToRawForPayout(curveCollateral)
DustRawToMigrate  == ToRawForPayout(graduationDust)

(* finalizeGraduation, _migrate and the router's graduate.  An existing    *)
(* pool keeps its price, so the slot0 check refuses one displaced from the *)
(* curve's closing price; what the mint leaves over goes to the lock.      *)
FinalizeGraduation ==
    /\ status = "GRADUATING"
    /\ TokensToMigrate # 0 /\ QuoteRawToMigrate # 0    \* NothingToMigrate
    /\ poolPrice # "displaced"                         \* PoolPriceDiverged
    /\ \E tokenDust, quoteDust \in MintDusts :
         LET quoteTotal == QuoteRawToMigrate + DustRawToMigrate
         IN  /\ tokenDust < TokensToMigrate /\ quoteDust < quoteTotal
             /\ token' = [token EXCEPT
                   !["market"]   = @ - TokensToMigrate,
                   !["position"] = @ + TokensToMigrate - tokenDust,
                   !["lock"]     = @ + tokenDust]
             /\ quote' = [quote EXCEPT
                   !["market"]   = @ - quoteTotal,
                   !["position"] = @ + quoteTotal - quoteDust,
                   !["lock"]     = @ + quoteDust]
    /\ curveCollateral' = 0 /\ graduationDust' = 0
    /\ poolPrice' = "atCurve"
    /\ liquidityLock' = TRUE
    /\ status' = "GRADUATED"
    /\ UNCHANGED <<distributed, vaultVars, disturbances, feeHistory>>

(* Half of the platform's part of quote-side LP fees, rounded down.        *)
StockbackPart(quoteFees) == PlatformPart(quoteFees) \div 2

(* collectPostGradFees settles what THIS call moved out of the position:   *)
(* its own balance delta, token side 65/35, quote side 65/17.5/17.5.       *)
CollectPostGradFees ==
    LET tokenFees == token["pool"]
        quoteFees == quote["pool"]
        stockback == StockbackPart(quoteFees)
    IN  /\ status = "GRADUATED" /\ liquidityLock
        /\ token' = [token EXCEPT !["pool"] = 0, !["feeVault"] = @ + tokenFees]
        /\ quote' = [quote EXCEPT
              !["pool"]        = 0,
              !["feeVault"]    = @ + (quoteFees - stockback),
              !["rewardVault"] = @ + stockback]
        /\ Accrue(Fee(CreatorPart(tokenFees), CreatorPart(quoteFees)),
                  Fee(PlatformPart(tokenFees),
                      PlatformPart(quoteFees) - stockback))
        /\ lpCollected' = [a \in Assets |->
                             lpCollected[a] + Fee(tokenFees, quoteFees)[a]]
        /\ lpSettled' = [a \in Assets |->
                             lpSettled[a] + Fee(tokenFees, quoteFees)[a]]
        /\ revenue' = [a \in Assets |->
                             revenue[a] + Fee(tokenFees, quoteFees)[a]]
        /\ UNCHANGED <<marketVars, poolVars>>

(* The lock's collect, called directly by anybody: pays the market.        *)
LockCollect ==
    /\ liquidityLock
    /\ token' = [token EXCEPT !["market"] = @ + token["pool"], !["pool"] = 0]
    /\ quote' = [quote EXCEPT !["market"] = @ + quote["pool"], !["pool"] = 0]
    /\ lpCollected' = [a \in Assets |->
                  lpCollected[a] + Fee(token["pool"], quote["pool"])[a]]
    /\ UNCHANGED <<marketVars, vaultVars, poolVars, lpSettled, revenue>>

-----------------------------------------------------------------------------
(* The vault's two exits; both end a transaction with a transfer.          *)

Paid(balances, to, amount) ==
    [balances EXCEPT !["feeVault"] = @ - amount, ![to] = @ + amount]

PayOut(a, to, amount) ==
    /\ token' = IF a = "TOKEN" THEN Paid(token, to, amount) ELSE token
    /\ quote' = IF a = "QUOTE" THEN Paid(quote, to, amount) ELSE quote
    /\ UNCHANGED <<marketVars, poolVars, feeHistory>>

ClaimCreatorFees(a) ==
    ClaimCreator(a) /\ PayOut(a, "creator", creatorBalance[a])

SettlePlatformFees(a) ==
    SettlePlatform(a) /\ PayOut(a, "treasury", platformBalance[a])

-----------------------------------------------------------------------------
(* The environment: the venue and strangers, as often as MaxDisturbances.  *)

Disturb ==
    /\ disturbances < MaxDisturbances
    /\ disturbances' = disturbances + 1

Sent(balances, to, amount) ==
    [balances EXCEPT !["outside"] = @ - amount, ![to] = @ + amount]

(* A plain ERC-20 transfer to the market.                                  *)
Donate(amount) ==
    /\ Disturb
    /\ \/ /\ amount <= token["outside"]
          /\ token' = Sent(token, "market", amount) /\ UNCHANGED quote
       \/ /\ amount <= quote["outside"]
          /\ quote' = Sent(quote, "market", amount) /\ UNCHANGED token
    /\ UNCHANGED <<marketVars, vaultVars, poolPrice, feeHistory>>

(* Swaps in the graduated pool leave fees owed to the position.            *)
SwapInPool(onToken, onQuote) ==
    /\ Disturb
    /\ status = "GRADUATED"
    /\ onToken <= token["outside"] /\ onQuote <= quote["outside"]
    /\ token' = Sent(token, "pool", onToken)
    /\ quote' = Sent(quote, "pool", onQuote)
    /\ UNCHANGED <<marketVars, vaultVars, poolPrice, feeHistory>>

(* Before graduation anybody may create the pair's pool, at any price, and *)
(* move the price of the empty pool.                                       *)
DisplacePool ==
    /\ Disturb
    /\ status # "GRADUATED"
    /\ poolPrice' = "displaced"
    /\ UNCHANGED <<marketVars, vaultVars, token, quote, feeHistory>>

(* Somebody swaps the displaced pool back.  The protocol has no such step  *)
(* of its own, so nothing makes it happen.                                 *)
RestorePool ==
    /\ poolPrice = "displaced"
    /\ poolPrice' = "atCurve"
    /\ UNCHANGED <<marketVars, vaultVars, token, quote, disturbances, feeHistory>>

-----------------------------------------------------------------------------
Next ==
    \/ \E raw \in BuyAmounts : Buy(raw)
    \/ \E tokensIn \in 1 .. QG : Sell(tokensIn)
    \/ FinalizeGraduation
    \/ CollectPostGradFees
    \/ LockCollect
    \/ \E a \in Assets : ClaimCreatorFees(a)
    \/ \E a \in Assets : SettlePlatformFees(a)
    \/ \E amount \in DonationAmounts : Donate(amount)
    \/ \E onToken, onQuote \in SwapFees : SwapInPool(onToken, onQuote)
    \/ DisplacePool
    \/ RestorePool

Spec == Init /\ [][Next]_vars

(***************************************************************************)
(* Fairness.  finalizeGraduation and collectPostGradFees are permissionless*)
(* and somebody keeps calling them for as long as they do something (the   *)
(* keeper sweeps every pending market; the creator wants the fees).  Nobody*)
(* has to trade, and nobody has to repair a displaced pool.                *)
(***************************************************************************)
FairSpec ==
    /\ Spec
    /\ WF_vars(FinalizeGraduation)
    /\ WF_vars(CollectPostGradFees)

-----------------------------------------------------------------------------
(* Properties *)

Balance(a) == IF a = "TOKEN" THEN token ELSE quote

(* Every amount is a natural number: in particular no transfer ever drew   *)
(* on more than its sender held.                                           *)
TypeOK ==
    /\ status \in {"PRE_GRAD", "GRADUATING", "GRADUATED"}
    /\ distributed \in Nat /\ curveCollateral \in Nat /\ graduationDust \in Nat
    /\ liquidityLock \in BOOLEAN
    /\ token \in [Holders -> Nat] /\ quote \in [Holders -> Nat]
    /\ poolPrice \in {"none", "atCurve", "displaced"} /\ disturbances \in Nat
    /\ lpCollected \in [Assets -> Nat] /\ lpSettled \in [Assets -> Nat]
    /\ revenue \in [Assets -> Nat]
    /\ creatorBalance \in [Assets -> Nat] /\ platformBalance \in [Assets -> Nat]
    /\ totalAccrued \in [Assets -> Nat] /\ totalClaimed \in [Assets -> Nat]

(* The liability booked trade by trade, each with its own rounding, never  *)
(* falls below the area under the curve: whoever holds TOKEN can sell all  *)
(* of it back, in any order, without InsufficientCollateral.               *)
CollateralCoversEveryExit ==
    status # "GRADUATED" => Area(distributed) <= Scale * curveCollateral

(* What the market holds covers what it owes, in the asset's own units and *)
(* on both sides: the curve's liability with the dust, and the unsold      *)
(* TOKEN.  Fees and donations are never counted in.                        *)
MarketHoldsWhatItOwes ==
    /\ (curveCollateral + graduationDust) * ScaleDown <= quote["market"] * ScaleUp
    /\ status # "GRADUATED" => TotalSupply - distributed <= token["market"]

(* The fee vault can pay every creator and the treasury at once, in each   *)
(* asset, whatever was claimed before.                                     *)
VaultHoldsWhatItOwes ==
    \A a \in Assets :
        /\ creatorBalance[a] + platformBalance[a] = Outstanding(a)
        /\ Outstanding(a) <= Balance(a)["feeVault"]

(* Over the market's whole life the creator got, or can claim, no less     *)
(* than its share of everything charged, in each asset: no sequence of     *)
(* small fees erodes it by rounding.                                       *)
CreatorNeverBelowShare ==
    \A a \in Assets :
        CreatorShareBps * revenue[a]
            <= BPS * (creatorBalance[a] + Balance(a)["creator"])

(* The curve is open exactly while it has something to sell: no ordinary   *)
(* buy sells it out and leaves it open, no crossing one stops short.       *)
ClosedExactlyAtEndpoint ==
    /\ distributed <= QG
    /\ status = "PRE_GRAD" <=> distributed < QG

(* Whatever trades came before, the fee inversion finds a gross for the    *)
(* rest of the curve and its fees can be settled, so that one large enough *)
(* buy graduates the market.                                               *)
EndpointPurchasable ==
    status = "PRE_GRAD" =>
        LET gross == GrossForNet(NetToEndpoint)
        IN  Covers(gross, NetToEndpoint) /\ FeesPayable(ForBuy(gross))

(* The escrow pays for the reserve at the curve's closing price, which is  *)
(* the price the pool opens at; a floored endpoint may cost the price of   *)
(* two units.                                                              *)
EscrowFundsOpeningPrice ==
    status = "GRADUATING" =>
        TokensToMigrate * PG <=
            WAD * curveCollateral
              + (IF (TotalSupply * QGNum) % QGDen = 0 THEN 0 ELSE 2 * PG)

(* A quote taken in the state a trade executes in is what the trade does:  *)
(* tokens, refund, fees, collateral and whether it closes the curve.       *)
FillMatchesQuote ==
    /\ \A raw \in BuyAmounts : Buy(raw) =>
          LET q == QuoteBuy(raw)
          IN  /\ token'["outside"] - token["outside"] = q.tokensOut
              /\ quote["outside"] - quote'["outside"] = raw - q.refundedQuote
              /\ curveCollateral' - curveCollateral = q.netToCurve
              /\ quote'["feeVault"] - quote["feeVault"]
                    = ToRawForPayout(q.coreFee)
              /\ quote'["rewardVault"] - quote["rewardVault"]
                    = ToRawForPayout(q.stockback)
              /\ status' = "GRADUATING" <=> q.crosses
    /\ \A tokensIn \in 1 .. QG : Sell(tokensIn) =>
          LET q == QuoteSell(tokensIn)
          IN  /\ quote'["outside"] - quote["outside"] = q.netOutRaw
              /\ curveCollateral - curveCollateral' = q.grossOut
              /\ quote'["feeVault"] - quote["feeVault"]
                    = ToRawForPayout(q.coreFee)

(* A closed curve is not the end: unless strangers keep the pool displaced *)
(* forever, the position is eventually minted, whatever was donated, sold  *)
(* or rounded on the way (GRADUATING is "a real state" that must be left). *)
GraduationCompletes ==
    <>[](poolPrice # "displaced") =>
        (status = "GRADUATING" ~> status = "GRADUATED")

(* "Accrued rights are never lost" (PermanentLiquidityLock.sol:69-71):     *)
(* fees the position paid out are eventually split with the creator.       *)
LpFeesReachTheCreator ==
    \A a \in Assets : lpCollected[a] # lpSettled[a]
                         ~> lpCollected[a] = lpSettled[a]

(* The market implements the one-venue promise.                            *)
Venue == INSTANCE CanonicalVenue WITH
    Endpoint <- QG,
    Reserve  <- TotalSupply - QG,
    venue    <- [PRE_GRAD |-> "curve", GRADUATING |-> "none",
                 GRADUATED |-> "pool"][status],
    sold     <- distributed,
    owed     <- QuoteRawToMigrate + DustRawToMigrate,
    seeded   <- [token |-> token["position"] + token["lock"],
                 quote |-> quote["position"] + quote["lock"]]

OneCanonicalVenue == Venue!Spec
=============================================================================
