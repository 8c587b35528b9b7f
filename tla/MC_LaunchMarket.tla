-------------------------- MODULE MC_LaunchMarket ---------------------------
(***************************************************************************)
(* Small markets for TLC.  The curve keeps the shape of the real one: with *)
(* a price that triples, the endpoint is 3/5 of the supply for the reason  *)
(* that it is 50/76 of it when the price grows 25 times.                   *)
(***************************************************************************)
EXTENDS QuoteIntent

MC_Assets == {"TOKEN", "QUOTE"}
MC_BuyAmounts == {12, 31, 56}
MC_BaseBuyAmounts == {9, 19, 40, 115}
MC_CoarseBuyAmounts == {10, 23, 30}
MC_Donations == {1}
MC_SwapFees == {0, 1, 3}
MC_MintDusts == {0, 1}
=============================================================================
