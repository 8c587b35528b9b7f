------------------------------- MODULE Chain --------------------------------
(***************************************************************************)
(* The node the indexer reads, as services/indexer/src uses it: a list of  *)
(* blocks that grows at its end and may be replaced from any height on.    *)
(* A block is the fork it was mined on and what happened to the one market *)
(* in it; its hash is its height and its fork, which also fixes all of its *)
(* ancestors, because a fork number is never used again.                   *)
(***************************************************************************)
EXTENDS Integers, Sequences, SequencesExt, FiniteSets

CONSTANTS
    MaxHeight,       \* bound on the length of the chain
    MaxForks,        \* bound on the number of reorganisations
    MaxTrades,       \* bound on the trades of the market
    MaxReorgDepth,   \* how far below its highest point the chain may change
    Payloads         \* what may happen in a block, of AllPayloads

AllPayloads == {"quiet", "launch", "buy", "sell", "cross", "graduate", "accrue",
                "submit", "activate", "cancel", "claim", "register"}

ASSUME ChainAssumption ==
    /\ MaxHeight \in Nat /\ MaxForks \in Nat /\ MaxTrades \in Nat
    /\ MaxReorgDepth \in Nat
    /\ Payloads \subseteq AllPayloads

VARIABLES
    chain,     \* the canonical blocks above the start block's parent
    forks,     \* reorganisations so far
    peak,      \* the highest head there has been
    resubmitted   \* whether some fork has submitted the root a second time

chainVars == <<chain, forks, peak, resubmitted>>

Tip == Len(chain)
HashAt(h) == <<h, IF h \in DOMAIN chain THEN chain[h].fork ELSE 0>>
Header(h) == [number |-> h, hash |-> HashAt(h), parent |-> HashAt(h - 1)]
Canonical(ref) == ref.number <= Tip /\ ref.hash = HashAt(ref.number)

Happened(what, blocks) == \E i \in DOMAIN blocks : blocks[i].what = what
Count(what, blocks) == Cardinality({i \in DOMAIN blocks : blocks[i].what = what})

(* Tokens the curve has sold: a crossing buy sells one and closes the curve. *)
SoldBy(blocks) == Count("buy", blocks) + Count("cross", blocks) - Count("sell", blocks)

(* What the contracts allow to happen on top of the given blocks.  The      *)
(* contracts themselves are the business of LaunchMarket and                *)
(* HolderRewardVault.  The reward vault takes one root, any number of times *)
(* until it is active: a cancelled one may be submitted again.              *)
Allowed(what, blocks) ==
    LET launched == Happened("launch", blocks)
        open == launched /\ ~Happened("cross", blocks)
        below == Count("buy", blocks) + Count("sell", blocks) < MaxTrades
        pending == Count("submit", blocks) >
                     Count("activate", blocks) + Count("cancel", blocks)
    IN  CASE what = "quiet"    -> TRUE
          [] what = "register" -> ~Happened("register", blocks)
          [] what = "launch"   -> ~launched
          [] what = "buy"      -> open /\ below
          [] what = "sell"     -> open /\ below /\ SoldBy(blocks) > 0
          [] what = "cross"    -> open
          [] what = "graduate" -> Happened("cross", blocks) /\ ~Happened("graduate", blocks)
          [] what = "accrue"   -> launched
          [] what = "submit"   -> launched /\ ~pending /\ ~Happened("activate", blocks)
          [] what \in {"activate", "cancel"} -> pending
          [] what = "claim"    -> Happened("activate", blocks)

Again(what, blocks) == what = "submit" /\ Happened("submit", blocks)

ChainInit == chain = <<>> /\ forks = 0 /\ peak = 0 /\ resubmitted = FALSE

Mine(what) ==
    /\ Tip < MaxHeight
    /\ Allowed(what, chain)
    /\ chain' = Append(chain, [fork |-> forks, what |-> what])
    /\ peak' = IF Tip + 1 > peak THEN Tip + 1 ELSE peak
    /\ resubmitted' = (resubmitted \/ Again(what, chain))
    /\ UNCHANGED forks

(* Blocks above k give way to one block of a new fork, so the chain may get *)
(* shorter, and longer again by mining.                                     *)
Reorganise(k, what) ==
    /\ forks < MaxForks
    /\ k < Tip /\ k >= peak - MaxReorgDepth
    /\ Allowed(what, SubSeq(chain, 1, k))
    /\ forks' = forks + 1
    /\ chain' = Append(SubSeq(chain, 1, k), [fork |-> forks', what |-> what])
    /\ resubmitted' = (resubmitted \/ Again(what, SubSeq(chain, 1, k)))
    /\ UNCHANGED peak
=============================================================================
