------------------------- MODULE XStockAssetAdapter -------------------------
(***************************************************************************)
(* Raw asset units against the protocol's 18-decimal normalized units      *)
(* (contracts/src/XStockAssetAdapter.sol).  A quote asset with fewer than  *)
(* 18 decimals has ScaleUp = 10 ^ (18 - decimals) and ScaleDown = 1, one   *)
(* with more has ScaleUp = 1 and ScaleDown = 10 ^ (decimals - 18).         *)
(***************************************************************************)
EXTENDS Naturals

CONSTANTS ScaleUp, ScaleDown

ASSUME ScaleAssumption ==
    /\ ScaleUp \in Nat \ {0} /\ ScaleDown \in Nat \ {0}
    /\ ScaleUp = 1 \/ ScaleDown = 1

(* Amounts arriving: exact upwards, floored downwards.                     *)
ToNormalized(raw) == (raw * ScaleUp) \div ScaleDown

(* Amounts paid out: always floored.                                       *)
ToRawForPayout(normalized) == (normalized * ScaleDown) \div ScaleUp
=============================================================================
