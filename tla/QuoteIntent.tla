----------------------------- MODULE QuoteIntent -----------------------------
(***************************************************************************)
(* What the API offers a user to sign: the quote it reads from the market  *)
(* (services/api/src/port.ts), the refusals and the minimum it puts into   *)
(* the calldata (services/api/src/handlers.ts), the review the SDK builds  *)
(* (packages/sdk/src/intent.ts) and the fee waterfall both of them take    *)
(* from packages/economics, a second implementation of the contract's.     *)
(*                                                                         *)
(* A quote is a function of the market's state and touches none of it, so  *)
(* everything here is an operator, and the properties compare what was     *)
(* offered in a state with what the trade then does in it.                 *)
(*                                                                         *)
(* Left out: symbols, the price impact (shown, never signed), the deadline *)
(* and the row's age: the status given is the one of the indexed row.      *)
(***************************************************************************)
EXTENDS LaunchMarket

(* The economics package's waterfall.                                      *)
MulBpsFloor(amount, bps) == (amount * bps) \div BPS

SplitCoreFee(coreFee) ==
    LET rounded == (coreFee * CreatorShareBps + BPS - 1) \div BPS
        creator == IF rounded > coreFee THEN coreFee ELSE rounded
    IN  [creator |-> creator, platform |-> coreFee - creator]

ComputeFees(side, notional) ==
    LET coreFee   == MulBpsFloor(notional, CoreFeeBps)
        stockback == MulBpsFloor(notional, IF side = "BUY" THEN StockbackBuyBps
                                                           ELSE StockbackSellBps)
        split     == SplitCoreFee(coreFee)
    IN  [notional |-> notional, coreFee |-> coreFee,
         creatorFee |-> split.creator, platformFee |-> split.platform,
         stockback |-> stockback, net |-> notional - (coreFee + stockback)]

(* The SDK's own conversions, by the sign of 18 - decimals.                *)
SdkToNormalized(raw) ==
    IF ScaleDown = 1 THEN raw * ScaleUp ELSE raw \div ScaleDown
SdkToRawForPayout(normalized) ==
    IF ScaleDown = 1 THEN normalized \div ScaleUp ELSE normalized * ScaleDown

-----------------------------------------------------------------------------
(* loadQuote: the market's own view, and what of it is kept in the cache,  *)
(* here a set of at most one answer.  A sale keeps result[1], the gross,   *)
(* in the units the contract returns it in; a view that reverts leaves the *)
(* cache as it was.                                                        *)

BuyAnswer(q, refund) == {[tokensOut |-> q.tokensOut,
                          crossesGraduation |-> q.crosses,
                          refundedQuote |-> refund]}
SellAnswer(tokensIn) == {[grossOut |-> QuoteSell(tokensIn).grossOut,
                          crossesGraduation |-> FALSE, refundedQuote |-> 0]}

(* Slip: works the refund out by dividing by the fee rate.                 *)
LoadQuoteDeriving(side, amount, cached) ==
    LET netBps == BPS - CoreFeeBps - StockbackBuyBps
        spent  == SdkToRawForPayout((NetToEndpoint * BPS) \div netBps)
        q      == QuoteBuy(amount)
    IN  IF side = "BUY"
          THEN BuyAnswer(q, IF q.crosses THEN amount - spent ELSE 0)
          ELSE IF amount > distributed THEN cached ELSE SellAnswer(amount)

LoadQuote(side, amount, cached) ==
    IF side = "BUY"
      THEN LET q == QuoteBuy(amount) IN BuyAnswer(q, q.refundedQuote)
      ELSE IF amount > distributed THEN cached ELSE SellAnswer(amount)

-----------------------------------------------------------------------------
(* The SDK's builders: the call to sign and the review shown with it.      *)

InRaw(fees) == [x \in DOMAIN fees |-> SdkToRawForPayout(fees[x])]

BuildBuyIntent(grossQuoteIn, minTokensOut, answer) ==
    [call   |-> <<"buy", grossQuoteIn, minTokensOut>>,
     shown  |-> InRaw(ComputeFees("BUY", SdkToNormalized(grossQuoteIn))),
     crossesGraduation |-> answer.crossesGraduation,
     refundedQuote |-> answer.refundedQuote]

BuildSellIntent(tokensIn, minQuoteOut, answer) ==
    [call  |-> <<"sell", tokensIn, minQuoteOut>>,
     shown |-> InRaw(ComputeFees("SELL", SdkToNormalized(answer.grossOut)))]

-----------------------------------------------------------------------------
(* handleQuote.  The tolerance is in basis points, at most half.           *)

Slippages == 0 .. (BPS \div 2)

WithTolerance(amount, slippageBps) == (amount * (BPS - slippageBps)) \div BPS

NetEstimate(grossOut) ==
    SdkToRawForPayout(ComputeFees("SELL", SdkToNormalized(grossOut)).net)

Refused(code) == [ok |-> FALSE, code |-> code]
Offered(intent) == [ok |-> TRUE, intent |-> intent]

HandleQuote(rowStatus, side, amount, slippageBps, cached) ==
    IF amount <= 0 THEN Refused("INVALID_AMOUNT")
    ELSE IF slippageBps \notin Slippages THEN Refused("INVALID_SLIPPAGE")
    ELSE IF rowStatus = "GRADUATING" THEN Refused("MARKET_AWAITING_FINALISATION")
    ELSE IF rowStatus # "PRE_GRAD" THEN Refused("MARKET_GRADUATED")
    ELSE IF cached = {} THEN Refused("QUOTE_UNAVAILABLE")
    ELSE LET answer == CHOOSE q \in cached : TRUE
         IN  IF side = "BUY"
               THEN Offered(BuildBuyIntent(amount,
                      WithTolerance(answer.tokensOut, slippageBps), answer))
               ELSE Offered(BuildSellIntent(amount,
                      WithTolerance(NetEstimate(answer.grossOut), slippageBps),
                      answer))

(* A first request, against the state it is answered in.                   *)
Quoted(side, amount, slippageBps) ==
    HandleQuote(status, side, amount, slippageBps,
                LoadQuote(side, amount, {}))

-----------------------------------------------------------------------------
(* Properties *)

(* The review of a buy is the buy: a user who asks for no tolerance is     *)
(* offered exactly the tokens the trade gives and the refund it pays, and  *)
(* the fees shown for a buy that leaves the curve open are those charged.  *)
OfferMatchesFill ==
    \A raw \in BuyAmounts : Buy(raw) =>
        LET received == token'["outside"] - token["outside"]
            offer == Quoted("BUY", raw, 0)
            shown == offer.intent.shown
        IN  /\ offer.ok
            /\ offer.intent.call = <<"buy", raw, received>>
            /\ quote["outside"] - quote'["outside"]
                  = raw - offer.intent.refundedQuote
            /\ offer.intent.crossesGraduation <=> status' = "GRADUATING"
            /\ ~ offer.intent.crossesGraduation =>
                  /\ quote'["feeVault"] - quote["feeVault"] = shown.coreFee
                  /\ quote'["rewardVault"] - quote["rewardVault"]
                        = shown.stockback

(* What the market's own views say of a buy or a sale is what it does, and *)
(* what the API offers for a buy is the buy, its fees too unless it closes *)
(* the curve: two implementations of the waterfall and of the conversions, *)
(* in two languages, have to be the same.  Of the API's sales nothing is   *)
(* said here: SellBoundIsTheNetPayout is about those, and is violated.     *)
IntentEqualsFill == [][FillMatchesQuote /\ OfferMatchesFill]_vars

(* "The sell bound is on the NET payout, which is what the user receives"  *)
(* (services/api/src/handlers.ts:1524): with no tolerance the minimum in   *)
(* the calldata is what the sale pays.                                     *)
SellBoundIsTheNetPayout ==
    [][\A tokensIn \in 1 .. QG : Sell(tokensIn) =>
          Quoted("SELL", tokensIn, 0).intent.call[3]
              = quote'["outside"] - quote["outside"]]_vars
=============================================================================
