----------------------------- MODULE Repository -----------------------------
(***************************************************************************)
(* The write side of packages/database/src/repository.ts for one market    *)
(* and one xStock asset, with the foreign keys of migrations/*.sql.  The   *)
(* database is a record; an operator is one function's statements, and a   *)
(* transaction is the composition of the operators it runs.                *)
(*                                                                         *)
(* Every event table is keyed on (block, log) and cascades from "blocks":  *)
(* they are one set of rows, told apart by "table".  A market row cascades *)
(* from the block it was launched in and takes its own dependants along.   *)
(***************************************************************************)
EXTENDS Integers, Sequences, FiniteSets, FiniteSetsExt, Functions

CONSTANT Accounts    \* holders of the token, the curve itself included

NoBlock == 0
NoMarket == [launchedAt |-> NoBlock]
NoState == [status |-> 0, distributed |-> 0, collateral |-> 0, trades |-> 0,
            graduating |-> NoBlock, graduated |-> NoBlock, pool |-> "none",
            holders |-> 0, lastBlock |-> NoBlock]

EmptyDb ==
    [cursor |-> 0, blocks |-> {}, market |-> NoMarket, state |-> NoState, rows |-> {},
     balances |-> [a \in Accounts |-> 0], commitment |-> [submitted |-> NoBlock,
     activated |-> NoBlock, cancelled |-> NoBlock], excluded |-> {}, asset |-> "none"]

HasMarket(db) == db.market # NoMarket
SetCursor(db, block) == [db EXCEPT !.cursor = block]

(* A height has one row: a second header for it replaces the first, but the *)
(* rows that hang on the height stay.                                       *)
RecordBlock(db, ref) ==
    LET old == {b \in db.blocks : b.number = ref.number}
    IN  [db EXCEPT !.blocks = (@ \ old) \cup
            {[number |-> ref.number, hash |-> ref.hash,
              finalized |-> \E b \in old : b.finalized]}]

MarkFinalized(db, through) ==
    [db EXCEPT !.blocks = {IF b.number <= through THEN [b EXCEPT !.finalized = TRUE] ELSE b : b \in @}]

(* ON CONFLICT (block_number, log_index) DO NOTHING. *)
InsertRow(db, row) ==
    IF \E r \in db.rows : r.table = row.table /\ r.block = row.block /\ r.log = row.log
    THEN db ELSE [db EXCEPT !.rows = @ \cup {row}]

Row(table, e, val) == [table |-> table, block |-> e.block, log |-> e.log, val |-> val]

InsertMarket(db, block) ==
    IF HasMarket(db) THEN db
    ELSE [db EXCEPT !.market = [launchedAt |-> block],
                    !.state = [NoState EXCEPT !.lastBlock = block]]
RegisterExclusions(db, known) == [db EXCEPT !.excluded = @ \cup known]

InsertTrade(db, e) == InsertRow(db, Row("trades", e, <<e.distributed, e.collateral>>))
InsertFeeAccrual(db, e) == InsertRow(db, Row("fee_accruals", e, <<>>))
RecordStockbackFunding(db, e) == InsertRow(db, Row("stockback_funding", e, <<>>))
RecordClaim(db, e) == InsertRow(db, Row("stockback_claims", e, <<>>))

UpdateMarketState(db, e) ==
    [db EXCEPT !.state.distributed = e.distributed, !.state.collateral = e.collateral,
               !.state.lastBlock = e.block, !.state.trades = @ + 1]

MarkGraduating(db, e) ==
    [db EXCEPT !.state.status = 1, !.state.graduating = e.block, !.state.lastBlock = e.block]

MarkGraduated(db, e) ==
    [db EXCEPT !.state.status = 2, !.state.collateral = 0, !.state.pool = e.pool,
               !.state.graduated = e.block, !.state.lastBlock = e.block,
               !.state.graduating = IF @ = NoBlock THEN e.block ELSE @,
               !.excluded = @ \cup {e.pool}]

(* The event is kept once; the running balance moves every time. *)
InsertBalanceEvent(db, e, log, account, delta) ==
    [InsertRow(db, Row("balance_events", [e EXCEPT !.log = log], <<account, delta>>))
        EXCEPT !.balances[account] = @ + delta]
HoldersOf(db) == Cardinality({a \in Accounts : db.balances[a] > 0})
RefreshHolderCount(db) == [db EXCEPT !.state.holders = HoldersOf(db)]

RecordCommitmentSubmitted(db, e) ==
    IF db.commitment.submitted # NoBlock THEN db
    ELSE [db EXCEPT !.commitment.submitted = e.block]
MarkCommitmentActivated(db, e) ==
    IF db.commitment.submitted = NoBlock \/ db.commitment.cancelled # NoBlock THEN db
    ELSE [db EXCEPT !.commitment.activated = e.block]
MarkCommitmentCancelled(db, e) ==
    IF db.commitment.submitted = NoBlock \/ db.commitment.activated # NoBlock THEN db
    ELSE [db EXCEPT !.commitment.cancelled = e.block]

UpsertXStockAsset(db) == [db EXCEPT !.asset = "registered"]

(* CHECK constraints and foreign keys; a transaction that breaks one aborts. *)
Accepted(db) ==
    /\ \A a \in Accounts : db.balances[a] >= 0
    /\ db.rows # {} => HasMarket(db)
    /\ \A r \in db.rows : \E b \in db.blocks : b.number = r.block
    /\ db.commitment.activated = NoBlock \/ db.commitment.cancelled = NoBlock
    /\ db.state.status = 2 => db.state.graduating # NoBlock

-----------------------------------------------------------------------------
TradeRows(db) == {r \in db.rows : r.table = "trades"}
Later(r, s) == r.block > s.block \/ (r.block = s.block /\ r.log > s.log)
LatestTrade(db) == CHOOSE r \in TradeRows(db) : \A s \in TradeRows(db) \ {r} : Later(r, s)
DeltasOf(db, account) ==
    {r \in db.rows : r.table = "balance_events" /\ r.val[1] = account}

(* Slip: the marks of blocks that are gone stay.                            *)
KeepMarks(commitment, n) == IF commitment.submitted > n THEN EmptyDb.commitment ELSE commitment

(* A commitment goes with its block; ON DELETE SET NULL takes its marks back. *)
CommitmentUpTo(commitment, n) ==
    LET keep(block) == IF block <= n THEN block ELSE NoBlock
    IN  IF commitment.submitted > n THEN EmptyDb.commitment
        ELSE [commitment EXCEPT !.activated = keep(@), !.cancelled = keep(@)]

(* What deleting the blocks above n leaves of the database. *)
CascadeAbove(db, n) ==
    LET known == db.market.launchedAt <= n
        left == [db EXCEPT !.blocks = {b \in @ : b.number <= n},
                           !.rows = {r \in @ : r.block <= n}]
    IN  IF known
        THEN [left EXCEPT !.commitment = CommitmentUpTo(@, n)]
        ELSE [EmptyDb EXCEPT !.cursor = db.cursor, !.blocks = left.blocks,
                             !.asset = db.asset]

(* market_state is computed again from the trades that survive.  With none  *)
(* left only the sums are reset; the status goes back only when the         *)
(* graduation itself is above n, and then to PRE_GRAD.                      *)
RecomputeState(db, n) ==
    IF ~HasMarket(db) THEN db
    ELSE IF TradeRows(db) = {}
    THEN [db EXCEPT !.state.distributed = 0, !.state.collateral = 0, !.state.trades = 0]
    ELSE LET t == LatestTrade(db)
             undone == db.state.graduated > n
         IN  [db EXCEPT !.state.distributed = t.val[1],
                        !.state.collateral = t.val[2],
                        !.state.trades = Cardinality(TradeRows(db)),
                        !.state.lastBlock = IF @ < n THEN @ ELSE n,
                        !.state.status = IF undone THEN 0 ELSE @,
                        !.state.pool = IF undone THEN "none" ELSE @]

(* Slip: the running balances are left as they were.                        *)
KeepBalances(db) == db

RebuildBalances(db) ==
    LET total(a) == MapThenSumSet(LAMBDA r : r.val[2], DeltasOf(db, a))
    IN  [db EXCEPT !.balances = [a \in Accounts |-> IF total(a) > 0 THEN total(a) ELSE 0]]

(* Slip: the fork block itself is deleted too.                              *)
RollbackPast(db, n) ==
    RefreshHolderCount(RebuildBalances(RecomputeState(CascadeAbove(db, n - 1), n)))

RollbackTo(db, n) ==
    RefreshHolderCount(RebuildBalances(RecomputeState(CascadeAbove(db, n), n)))
=============================================================================
