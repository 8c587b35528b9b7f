-------------------------------- MODULE Fees --------------------------------
(***************************************************************************)
(* The fee waterfall of the launchpad (contracts/src/lib/Fees.sol).  Every *)
(* division is the EVM's floor.  The library's own constants are CONSTANTS *)
(* here, so that the proofs hold for every schedule and the model checker  *)
(* can use one whose rounding bites at small amounts.                      *)
(***************************************************************************)
EXTENDS Naturals

CONSTANTS
    BPS,               \* 10_000 in the library
    CoreFeeBps,        \* CORE_FEE_BPS, 100
    CreatorShareBps,   \* CREATOR_SHARE_BPS, 6_500
    StockbackBuyBps,   \* STOCKBACK_BUY_BPS, 100
    StockbackSellBps   \* STOCKBACK_SELL_BPS, 200

ASSUME FeeAssumption ==
    /\ BPS \in Nat \ {0}
    /\ CoreFeeBps \in Nat /\ CreatorShareBps \in 0 .. BPS
    /\ StockbackBuyBps \in Nat /\ StockbackSellBps \in Nat
    /\ CoreFeeBps + StockbackBuyBps < BPS
    /\ CoreFeeBps + StockbackSellBps < BPS

(* The first rule the library had (D-003): rounding against the creator.   *)
CreatorPartFloored(coreFee) == (coreFee * CreatorShareBps) \div BPS

(* The creator's part is rounded up and can never exceed the fee; the      *)
(* platform is the residual.                                               *)
CreatorPart(coreFee) ==
    LET up == (coreFee * CreatorShareBps + BPS - 1) \div BPS
    IN  IF up > coreFee THEN coreFee ELSE up

PlatformPart(coreFee) == coreFee - CreatorPart(coreFee)

(* _compute: both fees are floored on the same notional.  The breakdown's  *)
(* own 65/35 split is left out: the market settles with splitCore on the   *)
(* RAW fee and nothing reads the normalized one.                           *)
Breakdown(notional, stockbackBps) ==
    LET coreFee   == (notional * CoreFeeBps) \div BPS
        stockback == (notional * stockbackBps) \div BPS
    IN  [coreFee |-> coreFee, stockback |-> stockback,
         net |-> notional - (coreFee + stockback)]

ForBuy(notional)  == Breakdown(notional, StockbackBuyBps)
ForSell(notional) == Breakdown(notional, StockbackSellBps)
=============================================================================
