------------------------------ MODULE MC_Keeper ------------------------------
(***************************************************************************)
(* The market of market_base with a keeper whose sweeps may overlap.       *)
(***************************************************************************)
EXTENDS Keeper

MC_Assets == {"TOKEN", "QUOTE"}
MC_BaseBuyAmounts == {9, 19, 40, 115}
MC_Donations == {1}
MC_SwapFees == {3}
MC_MintDusts == {1}
=============================================================================
