------------------------------ MODULE FeeVault ------------------------------
(***************************************************************************)
(* The books of the protocol-wide fee vault (contracts/src/FeeVault.sol).  *)
(* It is passive: markets Accrue into it, creators and anybody (for the    *)
(* platform) pull out of it.  The tokens it holds are balances of the      *)
(* ledger of the module that composes it; each operation here says only    *)
(* how much it pays, as the amount the caller has to move.                 *)
(***************************************************************************)
EXTENDS Naturals

CONSTANT Assets

VARIABLES
    creatorBalance,    \* [Assets -> Nat], of the one creator of the market
    platformBalance,   \* [Assets -> Nat]
    totalAccrued,      \* [Assets -> Nat], ever
    totalClaimed       \* [Assets -> Nat], ever

vaultVars == <<creatorBalance, platformBalance, totalAccrued, totalClaimed>>

VaultInit ==
    /\ creatorBalance  = [a \in Assets |-> 0]
    /\ platformBalance = [a \in Assets |-> 0]
    /\ totalAccrued    = [a \in Assets |-> 0]
    /\ totalClaimed    = [a \in Assets |-> 0]

(* accrue for several assets of one transaction at once.  Pure accounting: *)
(* the caller has already transferred creator[a] + platform[a].            *)
Accrue(creator, platform) ==
    /\ creatorBalance'  = [a \in Assets |-> creatorBalance[a] + creator[a]]
    /\ platformBalance' = [a \in Assets |-> platformBalance[a] + platform[a]]
    /\ totalAccrued'    = [a \in Assets |->
                             totalAccrued[a] + (creator[a] + platform[a])]
    /\ UNCHANGED totalClaimed

ClaimCreator(a) ==
    /\ creatorBalance[a] # 0
    /\ creatorBalance' = [creatorBalance EXCEPT ![a] = 0]
    /\ totalClaimed'   = [totalClaimed EXCEPT ![a] = @ + creatorBalance[a]]
    /\ UNCHANGED <<platformBalance, totalAccrued>>

SettlePlatform(a) ==
    /\ platformBalance[a] # 0
    /\ platformBalance' = [platformBalance EXCEPT ![a] = 0]
    /\ totalClaimed'    = [totalClaimed EXCEPT ![a] = @ + platformBalance[a]]
    /\ UNCHANGED <<creatorBalance, totalAccrued>>

(* The vault's obligation for an asset.                                    *)
Outstanding(a) == totalAccrued[a] - totalClaimed[a]
=============================================================================
