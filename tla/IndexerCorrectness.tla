------------------------- MODULE IndexerCorrectness -------------------------
(***************************************************************************)
(* What the indexer owes to the chain: the database is a projection of it  *)
(* (section 138 of the project's plan), and Projection.tla is the          *)
(* reference the promise is measured against.                              *)
(***************************************************************************)
EXTENDS Indexer

P == INSTANCE Projection

(* The chain the database speaks of: the blocks up to the cursor. *)
LogsRecorded == LogsBetween(1, db.cursor)
MarketEvents == SelectSeq(LogsRecorded, LAMBDA e : e.source = "market")
Reference == P!Project(MarketEvents)

TablesOf(e) ==
    CASE e.kind \in {"Bought", "Sold"} -> {<<"trades", e.block, e.log>>}
      [] e.kind = "Transfer" ->
            {<<"balance_events", e.block, 2 * e.log + 1>>} \cup
            (IF e.from = "zero" THEN {} ELSE {<<"balance_events", e.block, 2 * e.log>>})
      [] e.kind = "FeesAccrued" -> {<<"fee_accruals", e.block, e.log>>}
      [] e.kind = "Funded" -> {<<"stockback_funding", e.block, e.log>>}
      [] e.kind = "Claimed" -> {<<"stockback_claims", e.block, e.log>>}
      [] OTHER -> {}

(* The headers the indexer holds end in a block of the chain; just after a *)
(* start it holds none.                                                    *)
HeadTrusted == pc # "last" /\ (window = <<>> \/ Canonical(Last(window)))

(* Processing a range twice ("replay") may only harm the sums: every row is *)
(* keyed, "and conflicts do nothing" (ingest.ts:21).                        *)
RowsTrusted == exposed \subseteq {"replay"}

-----------------------------------------------------------------------------
(* Types of the loop's own state: heights within the chain's bound, and a   *)
(* database whose constraints hold.                                         *)
TypeOK ==
    /\ pc \in Places
    /\ indexed \in 0 .. MaxHeight /\ head \in 0 .. MaxHeight /\ known \in BOOLEAN
    /\ db.cursor \in 0 .. MaxHeight /\ Accepted(db)
    /\ Len(window) <= Depth
    /\ exposed \subseteq {"blind", "race", "replay"}

(* When the last header the tracker holds is canonical, the event tables    *)
(* hold exactly the events of the canonical blocks up to the cursor:        *)
(* nothing of an orphaned block is left, nothing was passed over and a      *)
(* range processed twice leaves no row twice, after any history of crashes, *)
(* failed calls and reorganisations but two kinds named in "exposed".       *)
RowsMirrorChain ==
    HeadTrusted /\ RowsTrusted =>
        LET logs == LogsRecorded
        IN  {<<r.table, r.block, r.log>> : r \in db.rows} = UNION {TablesOf(logs[i]) : i \in DOMAIN logs}

(* When no range was processed twice either, the sums kept beside the rows (market_state and *)
(* balances) are those a replay of the chain from genesis arrives at, no    *)
(* token is lost or made, and what the curve has sold somebody holds        *)
(* (projection.ts:257).                                                     *)
SumsMirrorProjection ==
    HeadTrusted /\ exposed = {} /\ HasMarket(db) =>
        LET reference == Reference
        IN  /\ db.state.distributed = reference.distributed
            /\ db.state.trades = reference.tradeCount
            /\ db.balances["alice"] = P!BalanceOf(reference.balances, "alice")
            /\ P!TotalHeld(reference) = reference.distributed
            /\ MapThenSumSet(LAMBDA a : db.balances[a], Accounts) = Supply
            /\ db.state.holders = HoldersOf(db)

(* A commitment is shown active or cancelled exactly when the chain made it *)
(* so, also after the activating block alone was taken back.  One that was  *)
(* cancelled and submitted again is not: its row keeps the first submission *)
(* and the cancellation, and no activation passes the guard of              *)
(* repository.ts:1223.                                                      *)
CommitmentMirrorsChain ==
    HeadTrusted /\ RowsTrusted /\ ~resubmitted =>
        LET logs == LogsRecorded
            seen(kind) == \E i \in DOMAIN logs : logs[i].kind = kind
        IN  /\ (db.commitment.submitted # NoBlock) = seen("CommitmentSubmitted")
            /\ (db.commitment.activated # NoBlock) = seen("CommitmentActivated")
            /\ (db.commitment.cancelled # NoBlock) = seen("PendingCommitmentCancelled")

(* A block marked settled is never one the chain has taken back, as long as *)
(* the chain keeps to the confirmations the indexer waits for.              *)
SettledIsCanonical ==
    RowsTrusted /\ MaxReorgDepth <= Confirmations =>
        \A b \in db.blocks : b.finalized => Canonical(b)

(* A transaction appends above the cursor or cuts off above the new cursor; *)
(* rows in the middle are never touched.                                    *)
AppendsOrCuts ==
    [][ RowsTrusted =>
          \/ db'.cursor >= db.cursor /\ db.rows \subseteq db'.rows
               /\ \A r \in db'.rows \ db.rows : r.block \in (db.cursor + 1) .. db'.cursor
          \/ db'.rows = {r \in db.rows : r.block <= db'.cursor} ]_vars

(* The oldest header still held was itself taken back: locateFork keeps     *)
(* answering with it, and every tick rolls back to it again.                *)
Wedged == window # <<>> /\ ~Canonical(window[1])

(* Once the chain rests, the indexer gets to its head and holds canonical   *)
(* headers, unless it is wedged or the chain moved where it could not see.  *)
CaughtUp == indexed = Tip /\ db.cursor = Tip /\ (window = <<>> \/ Canonical(Last(window)))
CatchesUp == <>[](CaughtUp \/ Wedged \/ exposed # {})

-----------------------------------------------------------------------------
(* projection.ts:4: "replaying every event from genesis must reproduce the  *)
(* contract's own state exactly"; repository.ts:133: after a rollback       *)
(* market_state "is then RECOMPUTED from surviving trades".  So the status  *)
(* and the collateral of the market are those of the chain.                 *)
StateMirrorsProjection ==
    HeadTrusted /\ exposed = {} /\ HasMarket(db) =>
        /\ <<"PRE_GRAD", "GRADUATING", "GRADUATED">>[db.state.status + 1] = Reference.status
        /\ db.state.collateral = Reference.curveCollateral
=============================================================================
