--------------------------- MODULE CanonicalVenue ---------------------------
(***************************************************************************)
(* What a market promises about where its TOKEN trades (the header of      *)
(* LaunchMarket.sol, lines 20-55, and docs' "canonical liquidity").  There *)
(* is one canonical venue at a time: the curve, then none while what the   *)
(* curve left behind sits in escrow, then the pool, forever.  The pool is  *)
(* opened once, with the whole escrow and nothing else.                    *)
(***************************************************************************)
EXTENDS Naturals

CONSTANTS
    Endpoint,   \* TOKEN the curve sells before it closes
    Reserve     \* TOKEN left for the pool

VARIABLES
    venue,    \* "curve", "none" or "pool"
    sold,     \* TOKEN sold by the curve
    owed,     \* raw quote the venue's escrow stands for
    seeded    \* what the pool was opened with

venueVars == <<venue, sold, owed, seeded>>

Nothing == [token |-> 0, quote |-> 0]

Init == venue = "curve" /\ sold = 0 /\ owed = 0 /\ seeded = Nothing

(* A trade moves along the curve and never reaches its end.                *)
Trade ==
    /\ venue = "curve"
    /\ sold' < Endpoint /\ sold' \in Nat /\ owed' \in Nat
    /\ UNCHANGED <<venue, seeded>>

(* The trade that reaches the end closes the curve in the same step.       *)
Close ==
    /\ venue = "curve" /\ venue' = "none"
    /\ sold' = Endpoint /\ owed' \in Nat
    /\ UNCHANGED seeded

(* Nothing moved in between: the pool gets exactly what Close left.        *)
Open ==
    /\ venue = "none" /\ venue' = "pool"
    /\ seeded' = [token |-> Reserve, quote |-> owed]
    /\ owed' = 0
    /\ UNCHANGED sold

Next == Trade \/ Close \/ Open

Spec == Init /\ [][Next]_venueVars
=============================================================================
