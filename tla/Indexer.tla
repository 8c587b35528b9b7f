------------------------------ MODULE Indexer -------------------------------
(***************************************************************************)
(* services/indexer/src/ingest.ts: the loop that follows the chain and     *)
(* keeps the database a projection of it.  A step ends where the code      *)
(* awaits the node or the database, so the chain may move, the process may *)
(* die and a call may fail between any two of them.                        *)
(*                                                                         *)
(* The addresses of the vaults and the registry are resolved; metadata and *)
(* gate updates are rows like the others and left out.                     *)
(***************************************************************************)
EXTENDS Chain, ChainTracker, Repository

CONSTANTS
    BatchSize,       \* blocks a range covers at most, 500
    Confirmations,   \* blocks below the end of a range taken as settled, 20
    Supply,          \* tokens minted at launch
    MaxCrashes,      \* bound on deaths of the process
    MaxFailures      \* bound on calls that fail

ASSUME IndexerAssumption ==
    /\ BatchSize \in Nat \ {0} /\ Confirmations \in Nat
    /\ MaxCrashes \in Nat /\ MaxFailures \in Nat
    /\ Accounts = {"curve", "alice", "pool"} /\ Supply \in Nat /\ Supply > MaxTrades + 1

VARIABLES
    db,          \* what is committed in PostgreSQL
    window,      \* ChainTracker's headers
    indexed,     \* indexedBlock
    known,       \* whether knownMarkets has the market
    pc,          \* where the loop stands
    head,        \* headBlock of the current tick
    range,       \* what processRange has read, and is to write
    crashes, failures,
    exposed      \* what happened that the indexer has no means to notice

indexerVars == <<db, window, indexed, known, pc, head, range, crashes, failures, exposed>>
vars == <<chainVars, indexerVars>>

NoRange == [from |-> 0, to |-> 0]

-----------------------------------------------------------------------------
(* What the block at height h announces: event logs in their order. *)

Plain(h, i, source, kind) == [source |-> source, kind |-> kind, block |-> h, log |-> i]
Transfer(h, from, to, value) ==
    [source |-> "token", kind |-> "Transfer", from |-> from, to |-> to, value |-> value,
     block |-> h, log |-> 1]
Trade(h, kind, sold) ==
    [source |-> "market", kind |-> kind, account |-> "alice", tokens |-> 1,
     distributed |-> sold, collateral |-> sold, block |-> h, log |-> 2]

LogsAt(h) ==
    LET what == chain[h].what
        sold == SoldBy(SubSeq(chain, 1, h))
    IN  CASE what = "quiet"    -> <<>>
          [] what = "register" -> <<Plain(h, 1, "registry", "AssetRegistered")>>
          [] what = "launch"   -> <<Transfer(h, "zero", "curve", Supply),
                                    Plain(h, 2, "factory", "TokenLaunched")>>
          [] what = "buy"      -> <<Transfer(h, "curve", "alice", 1), Trade(h, "Bought", sold)>>
          [] what = "sell"     -> <<Transfer(h, "alice", "curve", 1), Trade(h, "Sold", sold)>>
          [] what = "cross"    -> <<Transfer(h, "curve", "alice", 1), Trade(h, "Bought", sold),
                                    Plain(h, 3, "market", "GraduationPending")>>
          [] what = "graduate" -> <<Transfer(h, "curve", "pool", Supply - sold),
                                    [source |-> "market", kind |-> "Graduated", pool |-> "pool",
                                     block |-> h, log |-> 2]>>
          [] what = "accrue"   -> <<Plain(h, 1, "feeVault", "FeesAccrued"),
                                    Plain(h, 2, "rewardVault", "Funded")>>
          [] what = "submit"   -> <<Plain(h, 1, "rewardVault", "CommitmentSubmitted")>>
          [] what = "activate" -> <<Plain(h, 1, "rewardVault", "CommitmentActivated")>>
          [] what = "cancel"   -> <<Plain(h, 1, "rewardVault", "PendingCommitmentCancelled")>>
          [] what = "claim"    -> <<Plain(h, 1, "rewardVault", "Claimed")>>

LogsBetween(from, to) ==
    IF to < from THEN <<>>
    ELSE FlattenSeq([i \in 1 .. (to - from + 1) |-> LogsAt(from + i - 1)])

OfMarket(e) == e.source \in {"market", "token"}
LaunchedIn(logs) == \E i \in DOMAIN logs : logs[i].kind = "TokenLaunched"

Watched(logs) == Kept(logs, {e \in ToSet(logs) : known \/ ~OfMarket(e)})

(* Slip: a market is only listened to from the range after its launch.      *)
FirstQueryOnly(from, to) == Watched(LogsBetween(from, to))

(* The market's own logs come with the first query when it is known and     *)
(* with a second query, for the addresses just launched, when the range     *)
(* holds its launch.                                                        *)
FetchLogs(from, to) ==
    LET all == LogsBetween(from, to)
    IN  IF LaunchedIn(Watched(all)) /\ ~known THEN all ELSE Watched(all)

-----------------------------------------------------------------------------
(* handleLog and the handlers it routes to, on the transaction's database   *)
(* and what the transaction knows of markets.                               *)

HandleFactoryLog(tx, e) ==
    [tx EXCEPT !.db = RegisterExclusions(InsertMarket(@, e.block), {"curve"}), !.known = TRUE]

HandleMarketLog(tx, e) ==
    [tx EXCEPT !.db =
        CASE e.kind \in {"Bought", "Sold"} -> UpdateMarketState(InsertTrade(@, e), e)
          [] e.kind = "GraduationPending"  -> MarkGraduating(@, e)
          [] e.kind = "Graduated"          -> MarkGraduated(@, e)]

(* Both sides are recorded, the debit and then the credit, at twice the log *)
(* index so that a block keeps its order; the zero address has no balance.  *)
HandleTokenLog(tx, e) ==
    LET debited == IF e.from = "zero" THEN tx.db
                   ELSE InsertBalanceEvent(tx.db, e, 2 * e.log, e.from, -e.value)
        credited == InsertBalanceEvent(debited, e, 2 * e.log + 1, e.to, e.value)
    IN  [tx EXCEPT !.db = RefreshHolderCount(credited)]

HandleFeeVaultLog(tx, e) == [tx EXCEPT !.db = InsertFeeAccrual(@, e)]

HandleRewardVaultLog(tx, e) ==
    [tx EXCEPT !.db =
        CASE e.kind = "Funded"                     -> RecordStockbackFunding(@, e)
          [] e.kind = "CommitmentSubmitted"        -> RecordCommitmentSubmitted(@, e)
          [] e.kind = "CommitmentActivated"        -> MarkCommitmentActivated(@, e)
          [] e.kind = "PendingCommitmentCancelled" -> MarkCommitmentCancelled(@, e)
          [] e.kind = "Claimed"                    -> RecordClaim(@, e)]

HandleRegistryLog(tx, e) == [tx EXCEPT !.db = UpsertXStockAsset(@)]

(* A log of a market that is neither committed nor staged is passed over. *)
HandleLog(tx, e) ==
    IF ~Accepted(tx.db) THEN tx          \* the transaction has failed already
    ELSE CASE e.source = "factory"  -> HandleFactoryLog(tx, e)
           [] e.source = "registry" -> HandleRegistryLog(tx, e)
           [] e.source \notin {"factory", "registry"} /\ ~tx.known -> tx
           [] e.source = "market" /\ tx.known      -> HandleMarketLog(tx, e)
           [] e.source = "token" /\ tx.known       -> HandleTokenLog(tx, e)
           [] e.source = "feeVault" /\ tx.known    -> HandleFeeVaultLog(tx, e)
           [] e.source = "rewardVault" /\ tx.known -> HandleRewardVaultLog(tx, e)

(* A market's token exists before the event that announces it, so the       *)
(* factory's logs are handled before the others.                            *)
LaunchesFirst(logs) ==
    LET launches == {e \in ToSet(logs) : e.source = "factory"}
    IN  Kept(logs, launches) \o Kept(logs, ToSet(logs) \ launches)

(* Slip: one confirmation short.                                            *)
SettledEarly(to) == to - Confirmations + 1

Settled(to) == to - Confirmations

(* The one transaction of a range: headers, rows, cursor, settled blocks. *)
Transaction(first, headers, logs, to) ==
    LET headed == FoldSet(LAMBDA ref, d : RecordBlock(d, ref), db, {first} \cup headers)
        tx == FoldLeft(HandleLog, [db |-> headed, known |-> known], LaunchesFirst(logs))
        moved == SetCursor(tx.db, to)
    IN  IF Settled(to) > 0 THEN MarkFinalized(moved, Settled(to)) ELSE moved

-----------------------------------------------------------------------------
Init ==
    /\ ChainInit
    /\ db = EmptyDb /\ window = <<>> /\ indexed = 0 /\ known = FALSE
    /\ pc = "down" /\ head = 0 /\ range = NoRange
    /\ crashes = 0 /\ failures = 0 /\ exposed = {}

(* start: the cursor and the markets come from the database, the window is  *)
(* empty and the hash of the cursor is not looked at.                       *)
Start ==
    /\ pc = "down"
    /\ indexed' = db.cursor
    /\ known' = HasMarket(db)
    /\ window' = <<>>
    /\ pc' = "idle"
    /\ UNCHANGED <<chainVars, db, head, range, crashes, failures, exposed>>

(* tick reads the head; at or above the cursor it looks at the tip first. *)
Tick ==
    /\ pc = "idle"
    /\ head' = Tip
    /\ pc' = IF Tip <= indexed THEN "tip" ELSE "range"
    /\ UNCHANGED <<chainVars, db, window, indexed, known, range, crashes, failures, exposed>>

HandleReorg(n) ==
    /\ db' = SetCursor(RollbackTo(db, n), n)
    /\ window' = DropAbove(window, n)
    /\ indexed' = n
    /\ exposed' = exposed \ {"replay"}
    /\ UNCHANGED known

FullReindex ==
    /\ db' = SetCursor(RollbackTo(db, 0), 0)
    /\ window' = <<>>
    /\ indexed' = 0
    /\ known' = FALSE
    /\ exposed' = {}

(* Either way the tick is over, and the next one reads the chain again. *)
Rewind(decision) ==
    IF decision.action = "reorg" THEN HandleReorg(decision.rollbackTo) ELSE FullReindex
Rewinds(decision) == decision.action \in {"reorg", "reindex_required"}

(* Slip: nothing to index means nothing to look at.                         *)
TipUnchecked ==
    /\ pc = "tip" /\ pc' = "idle"
    /\ UNCHANGED <<chainVars, db, window, indexed, known, head, range, crashes, failures, exposed>>

CheckTip ==
    /\ pc = "tip" /\ head <= Tip
    /\ LET decision == Inspect(window, Header(head))
       IN  IF Rewinds(decision) THEN Rewind(decision)
           ELSE IF head < indexed THEN HandleReorg(head)
           ELSE UNCHANGED <<db, window, indexed, known, exposed>>
    /\ pc' = "idle"
    /\ UNCHANGED <<chainVars, head, range, crashes, failures>>

(* processRange, up to the judgement of its first block. *)
ReadFirst ==
    /\ pc = "range" /\ indexed < Tip
    /\ LET from == indexed + 1
           to == IF from + BatchSize - 1 < head THEN from + BatchSize - 1 ELSE head
           decision == Inspect(window, Header(from))
       IN  /\ decision.action # "gap"
           /\ IF Rewinds(decision)
              THEN Rewind(decision) /\ pc' = "idle" /\ UNCHANGED range
              ELSE /\ range' = [from |-> from, to |-> to, first |-> Header(from),
                                logs |-> <<>>, headers |-> {}, tx |-> db]
                   /\ pc' = "logs"
                   /\ UNCHANGED <<db, window, indexed, known, exposed>>
    /\ UNCHANGED <<chainVars, head, crashes, failures>>

ReadLogs ==
    /\ pc = "logs"
    /\ range' = [range EXCEPT !.logs = FetchLogs(range.from, IF range.to <= Tip THEN range.to ELSE Tip)]
    /\ pc' = "headers"
    /\ UNCHANGED <<chainVars, db, window, indexed, known, head, crashes, failures, exposed>>

(* The headers of the other blocks that carry logs are read one by one, in  *)
(* their order.                                                             *)
BlocksWithLogs == {range.logs[i].block : i \in DOMAIN range.logs} \ {range.from}
Unread == {n \in BlocksWithLogs : \A ref \in range.headers : ref.number # n}
IsNext(n) == n \in Unread /\ \A m \in Unread : n <= m
ReadHeader ==
    /\ pc = "headers"
    /\ \E n \in Unread :
         /\ IsNext(n) /\ n <= Tip
         /\ range' = [range EXCEPT !.headers = @ \cup {Header(n)}]
    /\ UNCHANGED <<chainVars, db, window, indexed, known, pc, head, crashes, failures, exposed>>

(* What the transaction writes is settled with the reads, as nobody else    *)
(* writes these tables.                                                     *)
RunTransaction ==
    /\ pc = "headers" /\ Unread = {}
    /\ range' = [range EXCEPT !.tx = Transaction(range.first, range.headers, range.logs, range.to)]
    /\ pc' = "commit"
    /\ UNCHANGED <<chainVars, db, window, indexed, known, head, crashes, failures, exposed>>

CommitRange ==
    /\ pc = "commit" /\ Accepted(range.tx)
    /\ db' = range.tx
    /\ pc' = "last"
    /\ UNCHANGED <<chainVars, window, indexed, known, head, range, crashes, failures, exposed>>

(* The headers of a range enter the window in the order of their heights.   *)
CommitAll(w, refs, to) ==
    LET upTo[h \in 0 .. to] ==
            IF h = 0 THEN w
            ELSE IF \E ref \in refs : ref.number = h
            THEN Commit(upTo[h - 1], CHOOSE ref \in refs : ref.number = h)
            ELSE upTo[h - 1]
    IN  upTo[to]

(* The tracker is to know the end of the range, whose header is read now if *)
(* nothing else asked for it; then memory follows the commit.               *)
LastMissing == range.to > range.from /\ \A ref \in range.headers : ref.number # range.to
FinishRange ==
    /\ pc = "last" /\ (LastMissing => range.to <= Tip)
    /\ LET last == IF LastMissing THEN {Header(range.to)} ELSE {}
       IN  window' = CommitAll(window, {range.first} \cup range.headers \cup last, range.to)
    /\ known' = (known \/ LaunchedIn(range.logs))
    /\ indexed' = range.to
    /\ range' = NoRange
    /\ pc' = IF range.to < head THEN "range" ELSE "idle"
    /\ UNCHANGED <<chainVars, db, head, crashes, failures, exposed>>

(* A call to the node or to the database fails, or asks for a block that is *)
(* not there any more: the tick is abandoned and what it staged is gone.    *)
Reads(where) == where \in {"tip", "range", "logs", "headers", "commit"} \/ (where = "last" /\ LastMissing)
Missing ==
    \/ pc = "tip" /\ head > Tip
    \/ pc = "range" /\ indexed >= Tip
    \/ pc = "headers" /\ \E n \in Unread : IsNext(n) /\ n > Tip
    \/ pc = "commit" /\ ~Accepted(range.tx)
    \/ pc = "last" /\ LastMissing /\ range.to > Tip
    \/ pc = "range" /\ indexed < Tip /\ Inspect(window, Header(indexed + 1)).action = "gap"

FailTick ==
    /\ Reads(pc)
    /\ \/ Missing /\ UNCHANGED failures
       \/ failures < MaxFailures /\ failures' = failures + 1
    /\ pc' = "idle" /\ range' = NoRange
    /\ exposed' = IF pc = "last" THEN exposed \cup {"replay"} ELSE exposed
    /\ UNCHANGED <<chainVars, db, window, indexed, known, head, crashes>>

(* The headers in memory, or on their way there. *)
Held == ToSet(window) \cup (IF pc = "last" THEN {range.first} \cup range.headers ELSE {})

(* A death loses the headers; one of them may have been the only sign of a  *)
(* reorganisation not acted on yet.                                         *)
Crash ==
    /\ pc # "down" /\ crashes < MaxCrashes
    /\ crashes' = crashes + 1
    /\ pc' = "down" /\ window' = <<>> /\ indexed' = 0 /\ known' = FALSE /\ head' = 0
    /\ range' = NoRange
    /\ exposed' = exposed \cup {e \in {"blind"} : \E ref \in Held : ~Canonical(ref)}
    /\ UNCHANGED <<chainVars, db, failures>>

(* The indexer cannot notice a reorganisation below its cursor while it     *)
(* holds no header of the blocks replaced, nor one between the reads of a   *)
(* range, nor one that leaves the chain shorter than the head of the tick.  *)
Blind(k) == k < db.cursor /\ \A ref \in Held : ref.number <= k
Race(k) ==
    \/ pc \notin {"down", "idle", "tip"} /\ k + 1 < head
    \/ pc \in {"logs", "headers"} /\ k < range.to
    \/ pc \in {"commit", "last"} /\ LastMissing /\ k < range.to

ChainReorganises(k, what) ==
    /\ Reorganise(k, what)
    /\ exposed' = exposed \cup {e \in {"blind"} : Blind(k)} \cup {e \in {"race"} : Race(k)}
    /\ UNCHANGED <<db, window, indexed, known, pc, head, range, crashes, failures>>

ChainGrows(what) == Mine(what) /\ UNCHANGED indexerVars

Next ==
    \/ \E what \in Payloads : ChainGrows(what)
    \/ \E what \in Payloads, k \in 0 .. MaxHeight : ChainReorganises(k, what)
    \/ Start \/ Tick \/ CheckTip \/ ReadFirst \/ ReadLogs \/ ReadHeader \/ RunTransaction
    \/ CommitRange \/ FinishRange \/ FailTick \/ Crash

Spec == Init /\ [][Next]_vars

(* The process is restarted when it dies and its loop goes on for ever: one *)
(* of its steps is possible in every state, so this is the weak fairness of *)
(* the loop as a whole, in a form TLC evaluates cheaply.  ReadHeader alone  *)
(* does not move the loop, and a range has finitely many headers to read.   *)
Places == {"down", "idle", "tip", "range", "logs", "headers", "commit", "last"}
LoopRuns == pc' \in Places \ {pc} /\ UNCHANGED <<chainVars, crashes>>
FairSpec == Spec /\ WF_pc(LoopRuns)
=============================================================================
