----------------------------- MODULE Projection -----------------------------
(***************************************************************************)
(* services/indexer/src/projection.ts: the pure reducer from the events of *)
(* one market to its state.  It is what the database promises to agree     *)
(* with, so the runs compare the two.  Cumulative volumes and fees are     *)
(* left out: each is one more sum of a field this model does not carry.    *)
(***************************************************************************)
EXTENDS Integers, Sequences, SequencesExt, FiniteSets, Functions

EmptyProjection ==
    [status |-> "PRE_GRAD", distributed |-> 0, curveCollateral |-> 0,
     tradeCount |-> 0, buyCount |-> 0, sellCount |-> 0, pool |-> "none",
     graduatingAtBlock |-> 0, lastBlock |-> 0, balances |-> <<>>]

(* Thrown errors: an event out of order, or an account below zero. *)
Refused == [EmptyProjection EXCEPT !.status = "REFUSED"]

BalanceOf(balances, account) ==
    IF account \in DOMAIN balances THEN balances[account] ELSE 0

(* A balance that returns to zero leaves the map. *)
Credit(balances, account, delta) ==
    LET next == BalanceOf(balances, account) + delta
        rest == DOMAIN balances \ {account}
    IN  [a \in IF next = 0 THEN rest ELSE rest \cup {account} |->
            IF a = account THEN next ELSE balances[a]]

ApplyTrade(state, e, delta) ==
    IF BalanceOf(state.balances, e.account) + delta < 0
    THEN Refused
    ELSE [state EXCEPT !.distributed = e.distributed,
                       !.curveCollateral = e.collateral,
                       !.tradeCount = @ + 1,
                       !.buyCount = IF delta >= 0 THEN @ + 1 ELSE @,
                       !.sellCount = IF delta >= 0 THEN @ ELSE @ + 1,
                       !.balances = Credit(@, e.account, delta),
                       !.lastBlock = e.block]

ApplyEvent(state, e) ==
    IF state = Refused \/ e.block < state.lastBlock THEN Refused
    ELSE CASE e.kind = "Bought" -> ApplyTrade(state, e, e.tokens)
           [] e.kind = "Sold"   -> ApplyTrade(state, e, -e.tokens)
           [] e.kind = "GraduationPending" ->
                [state EXCEPT !.status = "GRADUATING",
                              !.graduatingAtBlock = e.block, !.lastBlock = e.block]
           [] e.kind = "Graduated" ->
                [state EXCEPT !.status = "GRADUATED", !.curveCollateral = 0,
                              !.pool = e.pool, !.lastBlock = e.block,
                              !.graduatingAtBlock = IF @ = 0 THEN e.block ELSE @]

(* The chain's own order: by block, then by place in the block. *)
InChainOrder(events) ==
    SortSeq(events, LAMBDA e, f : e.block < f.block \/ (e.block = f.block /\ e.log < f.log))

Project(events) == FoldLeft(ApplyEvent, EmptyProjection, InChainOrder(events))

TotalHeld(state) == FoldFunction(+, 0, state.balances)
=============================================================================
