-------------------------------- MODULE Curve -------------------------------
(***************************************************************************)
(* The linear bonding curve (contracts/src/lib/Curve.sol): the price grows *)
(* from P0 at nothing distributed to PG at the endpoint QG.  The integral  *)
(* of the price is kept as a numerator over the common Scale, so that each *)
(* function of the library is one exact polynomial and one rounding.       *)
(***************************************************************************)
EXTENDS Naturals

CONSTANTS
    P0,                   \* starting marginal price, wad quote per TOKEN
    GraduationMultiple,   \* GRADUATION_MULTIPLE, 25
    WAD,                  \* 1e18
    TotalSupply,          \* TOTAL_SUPPLY, 1e27
    QGNum, QGDen          \* QG_NUMERATOR / QG_DENOMINATOR, 50 / 76

ASSUME CurveAssumption ==
    /\ P0 \in Nat \ {0} /\ GraduationMultiple \in Nat \ {0}
    /\ WAD \in Nat \ {0} /\ TotalSupply \in Nat
    /\ QGNum \in Nat /\ QGDen \in Nat \ {0}
    /\ QGNum <= QGDen
    /\ (TotalSupply * QGNum) \div QGDen \in 1 .. TotalSupply

(* params: the endpoint is a floored fraction of the supply.               *)
PG == P0 * GraduationMultiple
DP == PG - P0
QG == (TotalSupply * QGNum) \div QGDen

Scale == 2 * QG * WAD

(* Scale times the area under the price up to q, before any rounding.      *)
Area(q) == 2 * P0 * QG * q + DP * q * q

(* The exact net input that buys delta when q is out: rounded UP.          *)
QuoteInFor(q, delta) ==
    (2 * P0 * QG * delta + DP * (2 * q * delta + delta * delta)
        + Scale - 1) \div Scale

(* Slip: rounding the payout up as well.                                   *)
GrossOutForCeiled(q, delta) ==
    (2 * P0 * QG * delta + DP * (2 * q * delta - delta * delta)
        + Scale - 1) \div Scale

(* The gross output for returning delta when q is out: rounded DOWN.       *)
GrossOutFor(q, delta) ==
    (2 * P0 * QG * delta + DP * (2 * q * delta - delta * delta)) \div Scale

(* The largest delta the net input pays for, capped at the endpoint: the   *)
(* definition the library states (its lines 48-51, 144-146).  How it gets  *)
(* there, a square root and a bounded correction, is left out.             *)
TokensOutFor(q, netIn) ==
    CHOOSE delta \in 0 .. (QG - q) :
        /\ QuoteInFor(q, delta) <= netIn
        /\ \A more \in 0 .. (QG - q) :
              QuoteInFor(q, more) <= netIn => more <= delta
=============================================================================
