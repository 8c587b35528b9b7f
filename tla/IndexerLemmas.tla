---------------------------- MODULE IndexerLemmas ----------------------------
(***************************************************************************)
(* The operators the indexer is built from, for every chain and database.  *)
(* The handlers, the transaction of a range and the rollback keep the      *)
(* types and the keys of the tables, and add exactly the rows of the logs  *)
(* or cut exactly those above a height; the logs a range reads; how the    *)
(* chain moves; how the window judges a header; what a range and a rewind  *)
(* leave of the mirror and of the marks of the commitment.  IndexerProofs  *)
(* rests on these.                                                         *)
(***************************************************************************)
EXTENDS IndexerCorrectness, FiniteSetTheorems, TLAPS

Recorded(ref, d) == RecordBlock(d, ref)
B == INSTANCE FoldProofs WITH Op <- Recorded

(* An instance has a copy of what finite means, and of the members.        *)
LEMMA Copies == /\ \A S : IsFiniteSet(S) <=> B!IsFiniteSet(S)
                /\ \A s : B!ToSet(s) = ToSet(s)
  BY DEF IsFiniteSet, B!IsFiniteSet, ToSet, B!ToSet

-----------------------------------------------------------------------------
(* Types *)

Hash == Nat \X Nat
Ref == [number : Nat \ {0}, hash : Hash, parent : Hash]
Block == [number : Nat \ {0}, hash : Hash, finalized : BOOLEAN]
ChainBlock == [fork : Nat, what : AllPayloads]

TablesWithoutValue == {"fee_accruals", "stockback_funding", "stockback_claims"}
DbRow ==
    [table : {"trades"}, block : Nat, log : Nat, val : Int \X Int]
      \cup [table : {"balance_events"}, block : Nat, log : Nat, val : Accounts \X Int]
      \cup [table : TablesWithoutValue, block : Nat, log : Nat, val : {<<>>}]
State ==
    [status : 0 .. 2, distributed : Int, collateral : Int, trades : Nat,
     graduating : Nat, graduated : Nat, pool : {"none", "pool"}, holders : Nat, lastBlock : Nat]
Db ==
    [cursor : Nat, blocks : SUBSET Block, market : [launchedAt : Nat], state : State,
     rows : SUBSET DbRow, balances : [Accounts -> Int],
     commitment : [submitted : Nat, activated : Nat, cancelled : Nat],
     excluded : SUBSET Accounts, asset : {"none", "registered"}]

(* No two rows under one key.                                              *)
Key(r) == <<r.table, r.block, r.log>>
Keys(rows) == {Key(r) : r \in rows}
DbOK(d) == /\ d \in Db /\ IsFiniteSet(d.rows)
           /\ \A r, s \in d.rows : Key(r) = Key(s) => r = s

(* What the handlers are given.                                            *)
Event ==
    [source : {"token"}, kind : {"Transfer"}, from : Accounts \cup {"zero"}, to : Accounts,
     value : Int, block : Nat, log : Nat]
      \cup [source : {"market"}, kind : {"Bought", "Sold"}, account : Accounts, tokens : Int,
            distributed : Int, collateral : Int, block : Nat, log : Nat]
      \cup [source : {"market"}, kind : {"GraduationPending"}, block : Nat, log : Nat]
      \cup [source : {"market"}, kind : {"Graduated"}, pool : {"pool"}, block : Nat, log : Nat]
      \cup [source : {"factory"}, kind : {"TokenLaunched"}, block : Nat, log : Nat]
      \cup [source : {"registry"}, kind : {"AssetRegistered"}, block : Nat, log : Nat]
      \cup [source : {"feeVault"}, kind : {"FeesAccrued"}, block : Nat, log : Nat]
      \cup [source : {"rewardVault"}, block : Nat, log : Nat,
            kind : {"Funded", "CommitmentSubmitted", "CommitmentActivated",
                    "PendingCommitmentCancelled", "Claimed"}]

-----------------------------------------------------------------------------
(* The operators of the repository keep the database's type; none of those *)
(* a handler calls touches the blocks or the cursor.                       *)

SameBlocks(d, x) == x.blocks = d.blocks /\ x.cursor = d.cursor
SameTables(d, x) == SameBlocks(d, x) /\ x.rows = d.rows /\ x.market = d.market

(* Rows are added under these keys, but for those that are taken already. *)
Gains(d, x, keys) ==
    /\ SameBlocks(d, x)
    /\ d.rows \subseteq x.rows
    /\ Keys(x.rows) = Keys(d.rows) \cup keys
    /\ \A r \in x.rows \ d.rows : Key(r) \notin Keys(d.rows)

(* A row is added under its key, unless the key is taken.                  *)
LEMMA RowTypes ==
    ASSUME NEW d, DbOK(d), NEW row \in DbRow
    PROVE  /\ DbOK(InsertRow(d, row)) /\ Gains(d, InsertRow(d, row), {Key(row)})
           /\ InsertRow(d, row).market = d.market
  <1>1. CASE \E r \in d.rows : r.table = row.table /\ r.block = row.block /\ r.log = row.log
    <2>1. Key(row) \in Keys(d.rows)
      BY <1>1 DEF Key, Keys
    <2>2. InsertRow(d, row) = d
      BY <1>1 DEF InsertRow
    <2> QED  BY <2>1, <2>2 DEF Gains, SameBlocks
  <1>2. CASE ~ \E r \in d.rows : r.table = row.table /\ r.block = row.block /\ r.log = row.log
    <2> DEFINE rows == d.rows \cup {row}
    <2>1. InsertRow(d, row) = [d EXCEPT !.rows = rows]
      BY <1>2 DEF InsertRow
    <2>2. d \in Db /\ rows \in SUBSET DbRow /\ IsFiniteSet(rows)
      BY FS_AddElement DEF DbOK, Db
    <2>3. d.rows \subseteq rows /\ Keys(rows) = Keys(d.rows) \cup {Key(row)}
      BY DEF Keys
    <2>4. \A r \in rows \ d.rows : Key(r) \notin Keys(d.rows)
      BY <1>2 DEF Key, Keys
    <2>6. \A r, s \in rows : Key(r) = Key(s) => r = s
      <3>1. \A r \in d.rows : Key(r) # Key(row)
        BY <1>2 DEF Key
      <3> QED  BY <3>1 DEF DbOK
    <2> HIDE DEF rows
    <2>5. [d EXCEPT !.rows = rows] \in Db /\ [d EXCEPT !.rows = rows].rows = rows
          /\ SameBlocks(d, [d EXCEPT !.rows = rows])
          /\ [d EXCEPT !.rows = rows].market = d.market
      BY <2>2 DEF Db, SameBlocks
    <2> QED  BY <2>1, <2>2, <2>3, <2>4, <2>5, <2>6 DEF DbOK, Gains
  <1> QED  BY <1>1, <1>2

(* Gains add up.                                                           *)
LEMMA GainsAdd ==
    ASSUME NEW d, NEW x, NEW y, NEW keys, NEW more, Gains(d, x, keys), Gains(x, y, more)
    PROVE  Gains(d, y, keys \cup more)
  <1>1. SameBlocks(d, y)
    BY DEF Gains, SameBlocks
  <1>2. d.rows \subseteq y.rows /\ Keys(y.rows) = Keys(d.rows) \cup (keys \cup more)
    BY DEF Gains
  <1>3. ASSUME NEW r \in y.rows \ d.rows PROVE Key(r) \notin Keys(d.rows)
    BY DEF Gains
  <1> QED  BY <1>1, <1>2, <1>3 DEF Gains

(* Rows that stay are rows that gain nothing.                              *)
LEMMA GainsNothing ==
    ASSUME NEW d, NEW x, SameBlocks(d, x), x.rows = d.rows
    PROVE  Gains(d, x, {})
  BY DEF Gains

(* Updates of one field.                                                   *)
LEMMA FieldTypes ==
    ASSUME NEW d, DbOK(d)
    PROVE  /\ \A x \in State : DbOK([d EXCEPT !.state = x]) /\ SameTables(d, [d EXCEPT !.state = x])
           /\ \A x \in [Accounts -> Int] :
                DbOK([d EXCEPT !.balances = x]) /\ SameTables(d, [d EXCEPT !.balances = x])
           /\ \A x \in [submitted : Nat, activated : Nat, cancelled : Nat] :
                DbOK([d EXCEPT !.commitment = x]) /\ SameTables(d, [d EXCEPT !.commitment = x])
           /\ \A x \in SUBSET Accounts :
                DbOK([d EXCEPT !.excluded = x]) /\ SameTables(d, [d EXCEPT !.excluded = x])
           /\ \A x \in {"none", "registered"} : DbOK([d EXCEPT !.asset = x]) /\ SameTables(d, [d EXCEPT !.asset = x])
           /\ \A x \in [launchedAt : Nat] :
                DbOK([d EXCEPT !.market = x]) /\ SameBlocks(d, [d EXCEPT !.market = x])
                             /\ [d EXCEPT !.market = x].rows = d.rows
                             /\ [d EXCEPT !.market = x].market = x
           /\ \A x \in Nat : DbOK([d EXCEPT !.cursor = x])
                             /\ [d EXCEPT !.cursor = x].blocks = d.blocks
                             /\ [d EXCEPT !.cursor = x].cursor = x
                             /\ [d EXCEPT !.cursor = x].rows = d.rows
                             /\ [d EXCEPT !.cursor = x].market = d.market
           /\ \A x \in SUBSET Block : DbOK([d EXCEPT !.blocks = x])
                             /\ [d EXCEPT !.blocks = x].blocks = x
                             /\ [d EXCEPT !.blocks = x].cursor = d.cursor
                             /\ [d EXCEPT !.blocks = x].rows = d.rows
                             /\ [d EXCEPT !.blocks = x].market = d.market
  BY DEF DbOK, Db, SameBlocks, SameTables

(* What the handlers read of an event.                                     *)
LEMMA EventFields ==
    ASSUME NEW e \in Event
    PROVE  /\ e.block \in Nat /\ e.log \in Nat
           /\ e.source \in {"token", "market", "factory", "registry", "feeVault", "rewardVault"}
           /\ e.source = "token" =>
                /\ e.kind = "Transfer" /\ e.from \in Accounts \cup {"zero"}
                /\ e.to \in Accounts /\ e.value \in Int
                /\ \A l \in Nat : [e EXCEPT !.log = l].block = e.block
                                  /\ [e EXCEPT !.log = l].log = l
           /\ e.source = "market" => e.kind \in {"Bought", "Sold", "GraduationPending", "Graduated"}
           /\ e.kind \in {"Bought", "Sold"} => e.distributed \in Int /\ e.collateral \in Int
           /\ e.kind = "Graduated" => e.pool = "pool"
           /\ e.source = "factory" => e.kind = "TokenLaunched"
           /\ e.kind = "TokenLaunched" => e.source = "factory"
           /\ e.source = "registry" => e.kind = "AssetRegistered"
           /\ e.source = "feeVault" => e.kind = "FeesAccrued"
           /\ e.source = "rewardVault" =>
                e.kind \in {"Funded", "CommitmentSubmitted", "CommitmentActivated",
                            "PendingCommitmentCancelled", "Claimed"}
  BY DEF Event

(* The holders are finitely many.                                          *)
LEMMA AccountsAreFinite == IsFiniteSet(Accounts) /\ "curve" \in Accounts /\ "pool" \in Accounts
  <1>1. IsFiniteSet({"curve", "alice", "pool"})
    <2>1. IsFiniteSet({}) /\ IsFiniteSet({"curve"})
      BY FS_EmptySet, FS_AddElement
    <2>2. IsFiniteSet({"curve", "alice"})
      BY <2>1, FS_AddElement, {"curve", "alice"} = {"curve"} \cup {"alice"}
    <2> QED  BY <2>2, FS_AddElement, {"curve", "alice", "pool"} = {"curve", "alice"} \cup {"pool"}
  <1> QED  BY <1>1, IndexerAssumption

(* Counting the holders touches one field of the market's state.           *)
LEMMA HolderCountTypes ==
    ASSUME NEW d, DbOK(d)
    PROVE  DbOK(RefreshHolderCount(d)) /\ SameTables(d, RefreshHolderCount(d))
  <1>1. HoldersOf(d) \in Nat
    BY AccountsAreFinite, FS_Subset, FS_CardinalityType DEF HoldersOf
  <1>2. d.state \in State
    BY DEF DbOK, Db
  <1> DEFINE new == [d.state EXCEPT !.holders = HoldersOf(d)]
  <1>3. new \in State
    BY <1>1, <1>2 DEF State
  <1>4. RefreshHolderCount(d) = [d EXCEPT !.state = new]
    BY DEF RefreshHolderCount
  <1> HIDE DEF new
  <1>5. DbOK([d EXCEPT !.state = new]) /\ SameTables(d, [d EXCEPT !.state = new])
    BY <1>3, FieldTypes
  <1> QED  BY <1>4, <1>5

(* A market is inserted once, at the block of its launch.                  *)
LEMMA MarketTypes ==
    ASSUME NEW d, DbOK(d), NEW block \in Nat
    PROVE  LET x == InsertMarket(d, block)
           IN  /\ DbOK(x) /\ SameBlocks(d, x) /\ x.rows = d.rows
               /\ x.market = IF HasMarket(d) THEN d.market ELSE [launchedAt |-> block]
  <1>1. NoState \in State
    BY DEF NoState, State, NoBlock
  <1>2. [NoState EXCEPT !.lastBlock = block] \in State
    BY <1>1 DEF State
  <1> DEFINE at == [launchedAt |-> block]
             m == [d EXCEPT !.market = at]
             new == [NoState EXCEPT !.lastBlock = block]
  <1>3. at \in [launchedAt : Nat]
    OBVIOUS
  <1>4. InsertMarket(d, block) = IF HasMarket(d) THEN d ELSE [m EXCEPT !.state = new]
    BY DEF InsertMarket
  <1>5. new \in State
    BY <1>2
  <1> HIDE DEF new, at
  <1>6. DbOK(m) /\ SameBlocks(d, m) /\ m.rows = d.rows /\ m.market = at
    <2>1. /\ DbOK([d EXCEPT !.market = at]) /\ SameBlocks(d, [d EXCEPT !.market = at])
          /\ [d EXCEPT !.market = at].rows = d.rows /\ [d EXCEPT !.market = at].market = at
      <3>1. \A x \in [launchedAt : Nat] :
                DbOK([d EXCEPT !.market = x]) /\ SameBlocks(d, [d EXCEPT !.market = x])
                             /\ [d EXCEPT !.market = x].rows = d.rows
                             /\ [d EXCEPT !.market = x].market = x
        BY FieldTypes
      <3> QED  BY <1>3, <3>1
    <2> QED  BY <2>1
  <1> HIDE DEF m
  <1>7. DbOK([m EXCEPT !.state = new]) /\ SameTables(m, [m EXCEPT !.state = new])
    BY <1>5, <1>6, FieldTypes
  <1> DEFINE y == [m EXCEPT !.state = new]
  <1>8. DbOK(y) /\ SameBlocks(d, y) /\ y.rows = d.rows /\ y.market = at
    BY <1>6, <1>7 DEF SameTables, SameBlocks
  <1> HIDE DEF y
  <1>9. InsertMarket(d, block) = IF HasMarket(d) THEN d ELSE y
    BY <1>4 DEF y
  <1>10. CASE HasMarket(d)
    BY <1>9, <1>10 DEF SameBlocks
  <1>11. CASE ~HasMarket(d)
    BY <1>8, <1>9, <1>11 DEF at
  <1> QED  BY <1>10, <1>11

(* Updates of one field of the market's state.                             *)
LEMMA StateFields ==
    ASSUME NEW s \in State
    PROVE  /\ [s EXCEPT !.status = 0] \in State /\ [s EXCEPT !.status = 1] \in State
           /\ [s EXCEPT !.status = 2] \in State /\ [s EXCEPT !.collateral = 0] \in State
           /\ [s EXCEPT !.trades = s.trades + 1] \in State
           /\ \A x \in Int : [s EXCEPT !.distributed = x] \in State
           /\ \A x \in Int : [s EXCEPT !.collateral = x] \in State
           /\ \A x \in Nat : [s EXCEPT !.trades = x] \in State
           /\ \A x \in Nat : [s EXCEPT !.graduating = x] \in State
           /\ \A x \in Nat : [s EXCEPT !.graduated = x] \in State
           /\ \A x \in {"none", "pool"} : [s EXCEPT !.pool = x] \in State
           /\ \A x \in Nat : [s EXCEPT !.holders = x] \in State
           /\ \A x \in Nat : [s EXCEPT !.lastBlock = x] \in State
           /\ s.trades \in Nat /\ s.graduating \in Nat /\ s.lastBlock \in Nat
           /\ s.status \in 0 .. 2 /\ s.pool \in {"none", "pool"}
  BY DEF State

(* What a market's event does to its state.                                *)
LEMMA StateTypes ==
    ASSUME NEW d, DbOK(d), NEW e \in Event, e.source = "market"
    PROVE  /\ e.kind \in {"Bought", "Sold"} =>
                 DbOK(UpdateMarketState(d, e)) /\ SameTables(d, UpdateMarketState(d, e))
           /\ DbOK(MarkGraduating(d, e)) /\ SameTables(d, MarkGraduating(d, e))
           /\ e.kind = "Graduated" =>
                 DbOK(MarkGraduated(d, e)) /\ SameTables(d, MarkGraduated(d, e))
  <1>1. d.state \in State /\ d.excluded \in SUBSET Accounts /\ e.block \in Nat
    BY EventFields DEF DbOK, Db
  <1>2. ASSUME e.kind \in {"Bought", "Sold"}
        PROVE  DbOK(UpdateMarketState(d, e)) /\ SameTables(d, UpdateMarketState(d, e))
    <2> DEFINE new1 == [d.state EXCEPT !.distributed = e.distributed]
               new2 == [new1 EXCEPT !.collateral = e.collateral]
               new3 == [new2 EXCEPT !.lastBlock = e.block]
               new == [new3 EXCEPT !.trades = new3.trades + 1]
    <2>1. UpdateMarketState(d, e) = [d EXCEPT !.state = new]
      BY DEF UpdateMarketState
    <2>2. new1 \in State
      BY <1>1, <1>2, EventFields, StateFields
    <2> HIDE DEF new1
    <2>3. new2 \in State
      BY <2>2, <1>2, EventFields, StateFields
    <2> HIDE DEF new2
    <2>4. new3 \in State
      BY <2>3, <1>1, StateFields
    <2> HIDE DEF new3
    <2>6. new \in State
      BY <2>4, StateFields
    <2> HIDE DEF new
    <2>7. DbOK([d EXCEPT !.state = new]) /\ SameTables(d, [d EXCEPT !.state = new])
      BY <2>6, FieldTypes
    <2> QED  BY <2>1, <2>7
  <1>3. DbOK(MarkGraduating(d, e)) /\ SameTables(d, MarkGraduating(d, e))
    <2> DEFINE new1 == [d.state EXCEPT !.status = 1]
               new2 == [new1 EXCEPT !.graduating = e.block]
               new == [new2 EXCEPT !.lastBlock = e.block]
    <2>1. MarkGraduating(d, e) = [d EXCEPT !.state = new]
      BY DEF MarkGraduating
    <2>2. new1 \in State
      BY <1>1, StateFields
    <2> HIDE DEF new1
    <2>3. new2 \in State
      BY <2>2, <1>1, StateFields
    <2> HIDE DEF new2
    <2>4. new \in State
      BY <2>3, <1>1, StateFields
    <2> HIDE DEF new
    <2>5. DbOK([d EXCEPT !.state = new]) /\ SameTables(d, [d EXCEPT !.state = new])
      BY <2>4, FieldTypes
    <2> QED  BY <2>1, <2>5
  <1>4. ASSUME e.kind = "Graduated"
        PROVE  DbOK(MarkGraduated(d, e)) /\ SameTables(d, MarkGraduated(d, e))
    <2> DEFINE new1 == [d.state EXCEPT !.status = 2]
               new2 == [new1 EXCEPT !.collateral = 0]
               new3 == [new2 EXCEPT !.pool = e.pool]
               new4 == [new3 EXCEPT !.graduated = e.block]
               new5 == [new4 EXCEPT !.lastBlock = e.block]
               since == IF d.state.graduating = NoBlock THEN e.block ELSE d.state.graduating
               new == [new5 EXCEPT !.graduating = since]
               m == [d EXCEPT !.state = new]
               out == d.excluded \cup {e.pool}
    <2>1. MarkGraduated(d, e) = [m EXCEPT !.excluded = out]
      <3>1. MarkGraduated(d, e) =
              [d EXCEPT !.state.status = 2, !.state.collateral = 0, !.state.pool = e.pool,
                        !.state.graduated = e.block, !.state.lastBlock = e.block,
                        !.state.graduating = since, !.excluded = out]
        BY DEF MarkGraduated
      <3> HIDE DEF since, out
      <3> QED  BY <3>1
    <2>2. e.pool = "pool"
      BY <1>4, EventFields
    <2>12. out \in SUBSET Accounts /\ e.pool \in {"none", "pool"}
      BY <1>1, <2>2, AccountsAreFinite
    <2> HIDE DEF out
    <2>3. new1 \in State
      BY <1>1, StateFields
    <2> HIDE DEF new1
    <2>4. new2 \in State
      BY <2>3, StateFields
    <2> HIDE DEF new2
    <2>5. new3 \in State
      BY <2>12, <2>4, StateFields
    <2> HIDE DEF new3
    <2>6. new4 \in State
      BY <1>1, <2>5, StateFields
    <2> HIDE DEF new4
    <2>7. new5 \in State
      BY <1>1, <2>6, StateFields
    <2> HIDE DEF new5
    <2>8. since \in Nat
      BY <1>1, StateFields
    <2> HIDE DEF since
    <2>9. new \in State
      BY <2>7, <2>8, StateFields
    <2> HIDE DEF new
    <2>10. DbOK(m) /\ SameTables(d, m)
      BY <2>9, FieldTypes
    <2> HIDE DEF m
    <2>11. DbOK([m EXCEPT !.excluded = out]) /\ SameTables(m, [m EXCEPT !.excluded = out])
      BY <2>12, <2>10, FieldTypes
    <2> QED  BY <2>1, <2>10, <2>11 DEF SameTables, SameBlocks
  <1> QED  BY <1>2, <1>3, <1>4

(* What one side of a transfer does: a row, and a running balance.         *)
LEMMA BalanceEventTypes ==
    ASSUME NEW d, DbOK(d), NEW e \in Event, e.source = "token",
           NEW l \in Nat, NEW a \in Accounts, NEW delta \in Int
    PROVE  LET x == InsertBalanceEvent(d, e, l, a, delta)
           IN  /\ DbOK(x) /\ x.market = d.market
               /\ Gains(d, x, {<<"balance_events", e.block, l>>})
  <1> DEFINE row == Row("balance_events", [e EXCEPT !.log = l], <<a, delta>>)
             ins == InsertRow(d, row)
             new == [ins.balances EXCEPT ![a] = @ + delta]
             x == InsertBalanceEvent(d, e, l, a, delta)
  <1>1. row \in DbRow /\ Key(row) = <<"balance_events", e.block, l>>
    <2>1. row = [table |-> "balance_events", block |-> e.block, log |-> l, val |-> <<a, delta>>]
      BY EventFields DEF Row
    <2> HIDE DEF row
    <2>2. e.block \in Nat
      BY EventFields
    <2> QED  BY <2>1, <2>2 DEF DbRow, Key
  <1> HIDE DEF row
  <1>2. DbOK(ins) /\ Gains(d, ins, {Key(row)}) /\ ins.market = d.market
    BY <1>1, RowTypes
  <1>3. x = [ins EXCEPT !.balances = new]
    BY DEF InsertBalanceEvent, row
  <1> HIDE DEF ins, x
  <1>4. ins.balances \in [Accounts -> Int]
    BY <1>2 DEF DbOK, Db
  <1>5. new \in [Accounts -> Int]
    BY <1>4
  <1> HIDE DEF new
  <1>6. DbOK([ins EXCEPT !.balances = new]) /\ SameTables(ins, [ins EXCEPT !.balances = new])
    BY <1>2, <1>5, FieldTypes
  <1>7. DbOK(x) /\ SameTables(ins, x)
    BY <1>3, <1>6
  <1>8. Gains(ins, x, {})
    BY <1>7, GainsNothing DEF SameTables
  <1>9. Gains(d, x, {Key(row)} \cup {})
    BY <1>2, <1>8, GainsAdd
  <1>10. {Key(row)} \cup {} = {Key(row)}
    OBVIOUS
  <1>11. Gains(d, x, {<<"balance_events", e.block, l>>})
    BY <1>1, <1>9, <1>10
  <1>12. x.market = d.market
    BY <1>2, <1>7 DEF SameTables
  <1> QED  BY <1>7, <1>11, <1>12 DEF x

(* A commitment's events only touch its marks.                             *)
LEMMA CommitmentTypes ==
    ASSUME NEW d, DbOK(d), NEW e \in Event
    PROVE  /\ DbOK(RecordCommitmentSubmitted(d, e)) /\ SameTables(d, RecordCommitmentSubmitted(d, e))
           /\ DbOK(MarkCommitmentActivated(d, e)) /\ SameTables(d, MarkCommitmentActivated(d, e))
           /\ DbOK(MarkCommitmentCancelled(d, e)) /\ SameTables(d, MarkCommitmentCancelled(d, e))
  <1> DEFINE Marks == [submitted : Nat, activated : Nat, cancelled : Nat]
             s == [d.commitment EXCEPT !.submitted = e.block]
             a == [d.commitment EXCEPT !.activated = e.block]
             c == [d.commitment EXCEPT !.cancelled = e.block]
  <1>1. d.commitment \in Marks /\ e.block \in Nat
    BY EventFields DEF DbOK, Db
  <1>2. s \in Marks /\ a \in Marks /\ c \in Marks
    BY <1>1
  <1>3. /\ RecordCommitmentSubmitted(d, e) \in {d, [d EXCEPT !.commitment = s]}
        /\ MarkCommitmentActivated(d, e) \in {d, [d EXCEPT !.commitment = a]}
        /\ MarkCommitmentCancelled(d, e) \in {d, [d EXCEPT !.commitment = c]}
    BY DEF RecordCommitmentSubmitted, MarkCommitmentActivated, MarkCommitmentCancelled
  <1> HIDE DEF s, a, c
  <1>4. \A x \in Marks : DbOK([d EXCEPT !.commitment = x]) /\ SameTables(d, [d EXCEPT !.commitment = x])
    BY FieldTypes
  <1>5. SameTables(d, d)
    BY DEF SameTables, SameBlocks
  <1> QED  BY <1>2, <1>3, <1>4, <1>5

-----------------------------------------------------------------------------
(* handleLog: what a log does to the database, once it is for a market the *)
(* transaction knows.                                                      *)
DbAfter(d, e) ==
    CASE e.source = "factory" -> RegisterExclusions(InsertMarket(d, e.block), {"curve"})
      [] e.source = "registry" -> UpsertXStockAsset(d)
      [] e.source = "market" /\ e.kind \in {"Bought", "Sold"} -> UpdateMarketState(InsertTrade(d, e), e)
      [] e.source = "market" /\ e.kind = "GraduationPending" -> MarkGraduating(d, e)
      [] e.source = "market" /\ e.kind = "Graduated" -> MarkGraduated(d, e)
      [] e.source = "token" /\ e.from = "zero" ->
           RefreshHolderCount(InsertBalanceEvent(d, e, 2 * e.log + 1, e.to, e.value))
      [] e.source = "token" /\ e.from # "zero" ->
           RefreshHolderCount(InsertBalanceEvent(
             InsertBalanceEvent(d, e, 2 * e.log, e.from, -e.value),
             e, 2 * e.log + 1, e.to, e.value))
      [] e.source = "feeVault" -> InsertFeeAccrual(d, e)
      [] e.source = "rewardVault" /\ e.kind = "Funded" -> RecordStockbackFunding(d, e)
      [] e.source = "rewardVault" /\ e.kind = "CommitmentSubmitted" -> RecordCommitmentSubmitted(d, e)
      [] e.source = "rewardVault" /\ e.kind = "CommitmentActivated" -> MarkCommitmentActivated(d, e)
      [] e.source = "rewardVault" /\ e.kind = "PendingCommitmentCancelled" ->
           MarkCommitmentCancelled(d, e)
      [] e.source = "rewardVault" /\ e.kind = "Claimed" -> RecordClaim(d, e)

Tx == [db : Db, known : BOOLEAN]

(* A log is handled, or passed over when its market is not known.          *)
LEMMA HandleLogIs ==
    ASSUME NEW tx \in Tx, NEW e \in Event
    PROVE  HandleLog(tx, e) =
             IF Accepted(tx.db) /\ (e.source \in {"factory", "registry"} \/ tx.known)
             THEN [db |-> DbAfter(tx.db, e), known |-> tx.known \/ e.source = "factory"]
             ELSE tx
  <1> DEFINE Sources == {"token", "market", "factory", "registry", "feeVault", "rewardVault"}
  <1>1. e.source \in Sources
    BY EventFields
  <1>2. \A d : [tx EXCEPT !.db = d] = [db |-> d, known |-> tx.known]
    BY DEF Tx
  <1>3. CASE ~Accepted(tx.db)
    BY <1>3 DEF HandleLog
  <1>4. CASE Accepted(tx.db) /\ e.source = "factory"
    <2>1. HandleLog(tx, e) = HandleFactoryLog(tx, e)
      BY <1>4 DEF HandleLog
    <2>2. DbAfter(tx.db, e) = RegisterExclusions(InsertMarket(tx.db, e.block), {"curve"})
      BY <1>4 DEF DbAfter
    <2> DEFINE d == RegisterExclusions(InsertMarket(tx.db, e.block), {"curve"})
    <2>3. HandleFactoryLog(tx, e) = [tx EXCEPT !.db = d, !.known = TRUE]
      BY DEF HandleFactoryLog
    <2> HIDE DEF d
    <2> DEFINE t == [tx EXCEPT !.db = d, !.known = TRUE]
    <2>6. t \in [db : {d}, known : BOOLEAN] /\ t.known /\ t.db = d
      BY DEF Tx
    <2>5. t = [db |-> d, known |-> TRUE]
      <3> HIDE DEF t
      <3> QED  BY <2>6
    <2>4. HandleFactoryLog(tx, e) = [db |-> DbAfter(tx.db, e), known |-> TRUE]
      BY <2>2, <2>3, <2>5 DEF d
    <2> QED  BY <1>4, <2>1, <2>4
  <1>5. CASE Accepted(tx.db) /\ e.source = "registry"
    <2>1. HandleLog(tx, e) = HandleRegistryLog(tx, e)
      BY <1>5 DEF HandleLog
    <2>2. DbAfter(tx.db, e) = UpsertXStockAsset(tx.db)
      BY <1>5 DEF DbAfter
    <2>3. HandleRegistryLog(tx, e) = [db |-> DbAfter(tx.db, e), known |-> tx.known]
      BY <2>2, <1>2 DEF HandleRegistryLog
    <2> QED  BY <1>5, <2>1, <2>3 DEF Tx
  <1>6. CASE Accepted(tx.db) /\ e.source \notin {"factory", "registry"} /\ ~tx.known
    BY <1>6 DEF HandleLog
  <1>7. CASE Accepted(tx.db) /\ e.source = "market" /\ tx.known
    <2>1. HandleLog(tx, e) = HandleMarketLog(tx, e)
      BY <1>7 DEF HandleLog
    <2>2. e.kind \in {"Bought", "Sold", "GraduationPending", "Graduated"}
      BY <1>7, EventFields
    <2>3. DbAfter(tx.db, e) =
            CASE e.kind \in {"Bought", "Sold"} -> UpdateMarketState(InsertTrade(tx.db, e), e)
              [] e.kind = "GraduationPending" -> MarkGraduating(tx.db, e)
              [] e.kind = "Graduated" -> MarkGraduated(tx.db, e)
      BY <1>7, <2>2 DEF DbAfter
    <2>4. HandleMarketLog(tx, e) = [db |-> DbAfter(tx.db, e), known |-> tx.known]
      BY <2>3, <1>2 DEF HandleMarketLog
    <2> QED  BY <1>7, <2>1, <2>4 DEF Tx
  <1>8. CASE Accepted(tx.db) /\ e.source = "token" /\ tx.known
    <2>1. HandleLog(tx, e) = HandleTokenLog(tx, e)
      BY <1>8 DEF HandleLog
    <2>2. DbAfter(tx.db, e) =
            IF e.from = "zero"
            THEN RefreshHolderCount(InsertBalanceEvent(tx.db, e, 2 * e.log + 1, e.to, e.value))
            ELSE RefreshHolderCount(InsertBalanceEvent(
                   InsertBalanceEvent(tx.db, e, 2 * e.log, e.from, -e.value),
                   e, 2 * e.log + 1, e.to, e.value))
      BY <1>8 DEF DbAfter
    <2>3. HandleTokenLog(tx, e) = [db |-> DbAfter(tx.db, e), known |-> tx.known]
      <3>1. CASE e.from = "zero"
        BY <3>1, <2>2, <1>2 DEF HandleTokenLog
      <3>2. CASE e.from # "zero"
        BY <3>2, <2>2, <1>2 DEF HandleTokenLog
      <3> QED  BY <3>1, <3>2
    <2> QED  BY <1>8, <2>1, <2>3 DEF Tx
  <1>9. CASE Accepted(tx.db) /\ e.source = "feeVault" /\ tx.known
    <2>1. HandleLog(tx, e) = HandleFeeVaultLog(tx, e)
      BY <1>9 DEF HandleLog
    <2>2. DbAfter(tx.db, e) = InsertFeeAccrual(tx.db, e)
      BY <1>9 DEF DbAfter
    <2>3. HandleFeeVaultLog(tx, e) = [db |-> DbAfter(tx.db, e), known |-> tx.known]
      BY <2>2, <1>2 DEF HandleFeeVaultLog
    <2> QED  BY <1>9, <2>1, <2>3 DEF Tx
  <1>10. CASE Accepted(tx.db) /\ e.source = "rewardVault" /\ tx.known
    <2>1. HandleLog(tx, e) = HandleRewardVaultLog(tx, e)
      BY <1>10 DEF HandleLog
    <2>2. e.kind \in {"Funded", "CommitmentSubmitted", "CommitmentActivated",
                      "PendingCommitmentCancelled", "Claimed"}
      BY <1>10, EventFields
    <2>3. DbAfter(tx.db, e) =
            CASE e.kind = "Funded" -> RecordStockbackFunding(tx.db, e)
              [] e.kind = "CommitmentSubmitted" -> RecordCommitmentSubmitted(tx.db, e)
              [] e.kind = "CommitmentActivated" -> MarkCommitmentActivated(tx.db, e)
              [] e.kind = "PendingCommitmentCancelled" -> MarkCommitmentCancelled(tx.db, e)
              [] e.kind = "Claimed" -> RecordClaim(tx.db, e)
      BY <1>10, <2>2 DEF DbAfter
    <2>4. HandleRewardVaultLog(tx, e) = [db |-> DbAfter(tx.db, e), known |-> tx.known]
      BY <2>3, <1>2 DEF HandleRewardVaultLog
    <2> QED  BY <1>10, <2>1, <2>4 DEF Tx
  <1> QED  BY <1>1, <1>3, <1>4, <1>5, <1>6, <1>7, <1>8, <1>9, <1>10

(* Once handled, an event has left its rows, and a launch its market.      *)
MarketAfter(d, e) ==
    IF e.source = "factory" /\ ~HasMarket(d) THEN [launchedAt |-> e.block] ELSE d.market

Handled(d, e, x) == DbOK(x) /\ Gains(d, x, TablesOf(e)) /\ x.market = MarketAfter(d, e)

(* A row of a table without a value, or of the trades.                     *)
LEMMA PlainRows ==
    ASSUME NEW e \in Event
    PROVE  /\ \A t \in TablesWithoutValue :
                Row(t, e, <<>>) \in DbRow /\ Key(Row(t, e, <<>>)) = <<t, e.block, e.log>>
           /\ e.kind \in {"Bought", "Sold"} =>
                /\ Row("trades", e, <<e.distributed, e.collateral>>) \in DbRow
                /\ Key(Row("trades", e, <<e.distributed, e.collateral>>)) = <<"trades", e.block, e.log>>
  <1>1. e.block \in Nat /\ e.log \in Nat
    BY EventFields
  <1>2. ASSUME NEW t \in TablesWithoutValue
        PROVE  Row(t, e, <<>>) \in DbRow /\ Key(Row(t, e, <<>>)) = <<t, e.block, e.log>>
    BY <1>1 DEF Row, DbRow, Key
  <1>3. ASSUME e.kind \in {"Bought", "Sold"}
        PROVE  /\ Row("trades", e, <<e.distributed, e.collateral>>) \in DbRow
               /\ Key(Row("trades", e, <<e.distributed, e.collateral>>)) = <<"trades", e.block, e.log>>
    <2>1. <<e.distributed, e.collateral>> \in Int \X Int
      BY <1>3, EventFields
    <2> QED  BY <1>1, <2>1 DEF Row, DbRow, Key
  <1> QED  BY <1>2, <1>3

(* A log that leaves no row.                                               *)
LEMMA SameTablesHandled ==
    ASSUME NEW d, NEW e, NEW x, DbOK(x), SameTables(d, x), TablesOf(e) = {}, e.source # "factory"
    PROVE  Handled(d, e, x)
  BY GainsNothing DEF Handled, SameTables, MarketAfter

(* A log that leaves one row.                                              *)
LEMMA RowHandled ==
    ASSUME NEW d, DbOK(d), NEW e \in Event, NEW row \in DbRow, TablesOf(e) = {Key(row)},
           e.source # "factory"
    PROVE  Handled(d, e, InsertRow(d, row))
  BY RowTypes DEF Handled, MarketAfter

(* Every handler adds exactly the rows of its log.                         *)
LEMMA DbAfterHandles ==
    ASSUME NEW d, DbOK(d), NEW e \in Event
    PROVE  Handled(d, e, DbAfter(d, e))
  <1> DEFINE x == DbAfter(d, e)
  <1>1. e.source \in {"token", "market", "factory", "registry", "feeVault", "rewardVault"}
    BY EventFields
  <1>2. ASSUME e.source = "factory" PROVE Handled(d, e, x)
    <2> DEFINE m == InsertMarket(d, e.block)
               out == m.excluded \cup {"curve"}
    <2>1. e.block \in Nat /\ e.kind = "TokenLaunched"
      BY <1>2, EventFields
    <2>2. /\ DbOK(m) /\ SameBlocks(d, m) /\ m.rows = d.rows
          /\ m.market = IF HasMarket(d) THEN d.market ELSE [launchedAt |-> e.block]
      BY <2>1, MarketTypes
    <2>3. x = [m EXCEPT !.excluded = out]
      BY <1>2 DEF DbAfter, RegisterExclusions
    <2> HIDE DEF m, x
    <2>4. out \in SUBSET Accounts
      BY <2>2, AccountsAreFinite DEF DbOK, Db
    <2> HIDE DEF out
    <2>5. DbOK([m EXCEPT !.excluded = out]) /\ SameTables(m, [m EXCEPT !.excluded = out])
      BY <2>2, <2>4, FieldTypes
    <2>6. DbOK(x) /\ SameTables(m, x)
      BY <2>3, <2>5
    <2>7. SameBlocks(d, x) /\ x.rows = d.rows /\ x.market = m.market
      BY <2>2, <2>6 DEF SameTables, SameBlocks
    <2>8. Gains(d, x, {}) /\ TablesOf(e) = {}
      BY <2>1, <2>7, GainsNothing DEF TablesOf
    <2>9. x.market = MarketAfter(d, e)
      BY <1>2, <2>2, <2>7 DEF MarketAfter
    <2> QED  BY <2>6, <2>8, <2>9 DEF Handled
  <1>3. ASSUME e.source = "registry" PROVE Handled(d, e, x)
    <2>1. x = [d EXCEPT !.asset = "registered"]
      BY <1>3 DEF DbAfter, UpsertXStockAsset
    <2>2. DbOK([d EXCEPT !.asset = "registered"]) /\ SameTables(d, [d EXCEPT !.asset = "registered"])
      BY FieldTypes
    <2>3. TablesOf(e) = {}
      BY <1>3, EventFields DEF TablesOf
    <2> QED  BY <1>3, <2>1, <2>2, <2>3, SameTablesHandled
  <1>4. ASSUME e.source = "market" PROVE Handled(d, e, x)
    <2>1. CASE e.kind \in {"Bought", "Sold"}
      <3> DEFINE row == Row("trades", e, <<e.distributed, e.collateral>>)
                 m == InsertRow(d, row)
      <3>1. x = UpdateMarketState(m, e)
        BY <1>4, <2>1 DEF DbAfter, InsertTrade
      <3>2. row \in DbRow /\ Key(row) = <<"trades", e.block, e.log>>
        BY <2>1, PlainRows
      <3> HIDE DEF row, x
      <3>3. DbOK(m) /\ Gains(d, m, {Key(row)}) /\ m.market = d.market
        BY <3>2, RowTypes
      <3> HIDE DEF m
      <3>4. DbOK(x) /\ SameTables(m, x)
        BY <1>4, <2>1, <3>1, <3>3, StateTypes
      <3>5. Gains(m, x, {})
        BY <3>4, GainsNothing DEF SameTables
      <3>6. Gains(d, x, {Key(row)} \cup {})
        BY <3>3, <3>5, GainsAdd
      <3>7. {Key(row)} \cup {} = TablesOf(e)
        BY <2>1, <3>2 DEF TablesOf
      <3>8. x.market = MarketAfter(d, e)
        BY <1>4, <3>3, <3>4 DEF MarketAfter, SameTables
      <3> QED  BY <3>4, <3>6, <3>7, <3>8 DEF Handled
    <2>2. CASE e.kind = "GraduationPending"
      <3>1. x = MarkGraduating(d, e)
        BY <1>4, <2>2 DEF DbAfter
      <3>2. TablesOf(e) = {}
        BY <2>2 DEF TablesOf
      <3> QED  BY <1>4, <3>1, <3>2, StateTypes, SameTablesHandled
    <2>3. CASE e.kind = "Graduated"
      <3>1. x = MarkGraduated(d, e)
        BY <1>4, <2>3 DEF DbAfter
      <3>2. TablesOf(e) = {}
        BY <2>3 DEF TablesOf
      <3> QED  BY <1>4, <2>3, <3>1, <3>2, StateTypes, SameTablesHandled
    <2> QED  BY <1>4, <2>1, <2>2, <2>3, EventFields
  <1>5. ASSUME e.source = "token" PROVE Handled(d, e, x)
    <2> DEFINE to == <<"balance_events", e.block, 2 * e.log + 1>>
               from == <<"balance_events", e.block, 2 * e.log>>
    <2>1. /\ e.kind = "Transfer" /\ e.from \in Accounts \cup {"zero"} /\ e.to \in Accounts
          /\ e.value \in Int /\ e.log \in Nat
      BY <1>5, EventFields
    <2>2. -e.value \in Int /\ 2 * e.log \in Nat /\ 2 * e.log + 1 \in Nat
      BY <2>1
    <2>3. ASSUME NEW m, DbOK(m), NEW keys, Gains(d, m, keys), m.market = d.market,
                 TablesOf(e) = keys \cup {to},
                 x = RefreshHolderCount(InsertBalanceEvent(m, e, 2 * e.log + 1, e.to, e.value))
          PROVE  Handled(d, e, x)
      <3> DEFINE y == InsertBalanceEvent(m, e, 2 * e.log + 1, e.to, e.value)
      <3>1. DbOK(y) /\ y.market = m.market /\ Gains(m, y, {to})
        BY <1>5, <2>1, <2>2, <2>3, BalanceEventTypes
      <3> HIDE DEF y, to
      <3>2. DbOK(RefreshHolderCount(y)) /\ SameTables(y, RefreshHolderCount(y))
        BY <3>1, HolderCountTypes
      <3>3. DbOK(x) /\ SameTables(y, x)
        BY <2>3, <3>2 DEF y
      <3> HIDE DEF x
      <3>4. Gains(y, x, {})
        BY <3>3, GainsNothing DEF SameTables
      <3>5. Gains(d, y, keys \cup {to})
        BY <2>3, <3>1, GainsAdd
      <3>6. Gains(d, x, (keys \cup {to}) \cup {})
        BY <3>4, <3>5, GainsAdd
      <3>7. (keys \cup {to}) \cup {} = TablesOf(e)
        BY <2>3
      <3>8. x.market = MarketAfter(d, e)
        BY <1>5, <2>3, <3>1, <3>3 DEF MarketAfter, SameTables
      <3> QED  BY <3>3, <3>6, <3>7, <3>8 DEF Handled
    <2>4. CASE e.from = "zero"
      <3>1. x = RefreshHolderCount(InsertBalanceEvent(d, e, 2 * e.log + 1, e.to, e.value))
        BY <1>5, <2>4 DEF DbAfter
      <3>2. Gains(d, d, {})
        BY GainsNothing DEF SameBlocks
      <3>3. TablesOf(e) = {} \cup {to}
        BY <2>1, <2>4 DEF TablesOf
      <3> HIDE DEF x, to
      <3> QED  BY <2>3, <3>1, <3>2, <3>3
    <2>5. CASE e.from # "zero"
      <3> DEFINE m == InsertBalanceEvent(d, e, 2 * e.log, e.from, -e.value)
      <3>1. x = RefreshHolderCount(InsertBalanceEvent(m, e, 2 * e.log + 1, e.to, e.value))
        BY <1>5, <2>5 DEF DbAfter
      <3>2. DbOK(m) /\ m.market = d.market /\ Gains(d, m, {from})
        BY <1>5, <2>1, <2>2, <2>5, BalanceEventTypes
      <3>3. TablesOf(e) = {from} \cup {to}
        BY <2>1, <2>5 DEF TablesOf
      <3> HIDE DEF x, to, from, m
      <3> QED  BY <2>3, <3>1, <3>2, <3>3
    <2> QED  BY <2>4, <2>5
  <1>6. ASSUME e.source = "feeVault" PROVE Handled(d, e, x)
    <2> DEFINE row == Row("fee_accruals", e, <<>>)
    <2>1. x = InsertRow(d, row) /\ e.kind = "FeesAccrued"
      BY <1>6, EventFields DEF DbAfter, InsertFeeAccrual
    <2>2. row \in DbRow /\ Key(row) = <<"fee_accruals", e.block, e.log>>
      BY PlainRows DEF TablesWithoutValue
    <2>3. TablesOf(e) = {Key(row)}
      BY <2>1, <2>2 DEF TablesOf
    <2> HIDE DEF row, x
    <2> QED  BY <1>6, <2>1, <2>2, <2>3, RowHandled
  <1>7. ASSUME e.source = "rewardVault" PROVE Handled(d, e, x)
    <2>1. CASE e.kind = "Funded"
      <3> DEFINE row == Row("stockback_funding", e, <<>>)
      <3>1. x = InsertRow(d, row)
        BY <1>7, <2>1 DEF DbAfter, RecordStockbackFunding
      <3>2. row \in DbRow /\ Key(row) = <<"stockback_funding", e.block, e.log>>
        BY PlainRows DEF TablesWithoutValue
      <3>3. TablesOf(e) = {Key(row)}
        BY <2>1, <3>2 DEF TablesOf
      <3> HIDE DEF row, x
      <3> QED  BY <1>7, <3>1, <3>2, <3>3, RowHandled
    <2>2. CASE e.kind = "Claimed"
      <3> DEFINE row == Row("stockback_claims", e, <<>>)
      <3>1. x = InsertRow(d, row)
        BY <1>7, <2>2 DEF DbAfter, RecordClaim
      <3>2. row \in DbRow /\ Key(row) = <<"stockback_claims", e.block, e.log>>
        BY PlainRows DEF TablesWithoutValue
      <3>3. TablesOf(e) = {Key(row)}
        BY <2>2, <3>2 DEF TablesOf
      <3> HIDE DEF row, x
      <3> QED  BY <1>7, <3>1, <3>2, <3>3, RowHandled
    <2>3. CASE e.kind \in {"CommitmentSubmitted", "CommitmentActivated", "PendingCommitmentCancelled"}
      <3>1. x \in {RecordCommitmentSubmitted(d, e), MarkCommitmentActivated(d, e),
                   MarkCommitmentCancelled(d, e)}
        BY <1>7, <2>3 DEF DbAfter
      <3>2. TablesOf(e) = {}
        BY <2>3 DEF TablesOf
      <3>3. DbOK(x) /\ SameTables(d, x)
        BY <3>1, CommitmentTypes
      <3> HIDE DEF x
      <3> QED  BY <1>7, <3>2, <3>3, SameTablesHandled
    <2> QED  BY <1>7, <2>1, <2>2, <2>3, EventFields
  <1> QED  BY <1>1, <1>2, <1>3, <1>4, <1>5, <1>6, <1>7

-----------------------------------------------------------------------------
(* Sequences *)

(* The members kept after each element.                                    *)
IsKept(g, s, set) ==
    g = [i \in 0 .. Len(s) |->
            IF i = 0 THEN <<>>
            ELSE IF s[i] \in set THEN Append(g[i - 1], s[i]) ELSE g[i - 1]]
KeptSoFar(s, set) == CHOOSE g : IsKept(g, s, set)

(* Kept is the last value of its own recursion.                            *)
LEMMA KeptIsLast == \A s, set : Kept(s, set) = KeptSoFar(s, set)[Len(s)]
  BY DEF Kept, KeptSoFar, IsKept

(* The recursion, step by step.                                            *)
LEMMA KeptUnfolds ==
    ASSUME NEW T, NEW s \in Seq(T), NEW set
    PROVE  LET g == KeptSoFar(s, set)
           IN  /\ g[0] = <<>>
               /\ \A i \in 1 .. Len(s) :
                    g[i] = IF s[i] \in set THEN Append(g[i - 1], s[i]) ELSE g[i - 1]
  <1> DEFINE Rule(g, n) ==
               g = [i \in 0 .. n |->
                      IF i = 0 THEN <<>>
                      ELSE IF s[i] \in set THEN Append(g[i - 1], s[i]) ELSE g[i - 1]]
             Reached == {n \in Nat : \E g : Rule(g, n)}
  <1>1. 0 \in Reached
    <2> DEFINE g == [i \in 0 .. 0 |-> <<>>]
    <2>1. g = [i \in 0 .. 0 |->
                 IF i = 0 THEN <<>>
                 ELSE IF s[i] \in set THEN Append(g[i - 1], s[i]) ELSE g[i - 1]]
      OBVIOUS
    <2>2. Rule(g, 0)
      BY <2>1
    <2> HIDE DEF g, Rule
    <2> QED  BY <2>2
  <1>2. ASSUME NEW n \in Nat, n \in Reached PROVE n + 1 \in Reached
    <2>1. PICK g : Rule(g, n)
      BY <1>2
    <2> DEFINE h == [i \in 0 .. n + 1 |->
                       IF i = 0 THEN <<>>
                       ELSE IF s[i] \in set THEN Append(g[i - 1], s[i]) ELSE g[i - 1]]
    <2>2. ASSUME NEW i \in 0 .. n PROVE h[i] = g[i]
      <3>1. i \in 0 .. n + 1
        OBVIOUS
      <3>2. g[i] = IF i = 0 THEN <<>>
                   ELSE IF s[i] \in set THEN Append(g[i - 1], s[i]) ELSE g[i - 1]
        BY <2>1
      <3> QED  BY <3>1, <3>2
    <2>3. ASSUME NEW i \in 0 .. n + 1, i # 0
          PROVE  h[i] = IF s[i] \in set THEN Append(h[i - 1], s[i]) ELSE h[i - 1]
      <3>1. i - 1 \in 0 .. n
        BY <2>3
      <3>2. h[i - 1] = g[i - 1]
        BY <2>2, <3>1
      <3> QED  BY <2>3, <3>2
    <2>4. h[0] = <<>> /\ h = [i \in 0 .. n + 1 |-> h[i]]
      OBVIOUS
    <2> HIDE DEF h
    <2>5. h = [i \in 0 .. n + 1 |->
                 IF i = 0 THEN <<>>
                 ELSE IF s[i] \in set THEN Append(h[i - 1], s[i]) ELSE h[i - 1]]
      BY <2>3, <2>4
    <2>6. Rule(h, n + 1)
      BY <2>5
    <2> HIDE DEF Rule
    <2> QED  BY <2>6
  <1> HIDE DEF Reached
  <1>3. Len(s) \in Reached
    BY <1>1, <1>2, B!NaturalsBySuccessor
  <1>4. \E g : IsKept(g, s, set)
    BY <1>3 DEF Reached, IsKept
  <1>5. IsKept(KeptSoFar(s, set), s, set)
    BY <1>4 DEF KeptSoFar
  <1> DEFINE k == KeptSoFar(s, set)
  <1>6. k = [i \in 0 .. Len(s) |->
               IF i = 0 THEN <<>>
               ELSE IF s[i] \in set THEN Append(k[i - 1], s[i]) ELSE k[i - 1]]
    BY <1>5 DEF IsKept
  <1> HIDE DEF Rule, k
  <1>7. k[0] = <<>>
    BY <1>6, Len(s) \in Nat
  <1>8. ASSUME NEW i \in 1 .. Len(s)
        PROVE  k[i] = IF s[i] \in set THEN Append(k[i - 1], s[i]) ELSE k[i - 1]
    <2>1. i \in 0 .. Len(s) /\ i # 0
      BY Len(s) \in Nat
    <2> QED  BY <1>6, <2>1
  <1> QED  BY <1>7, <1>8 DEF k

(* Headers in the order of their heights.                                  *)
Increasing(s) == \A i, j \in 1 .. Len(s) : i < j => s[i].number < s[j].number

(* A higher header at the end keeps the window's order.                    *)
LEMMA AppendKeepsOrder ==
    ASSUME NEW T, NEW s \in Seq(T), NEW x, Increasing(s), \A y \in ToSet(s) : y.number < x.number
    PROVE  Increasing(Append(s, x))
  <1> DEFINE t == Append(s, x)
  <1>1. /\ Len(s) \in Nat /\ Len(t) = Len(s) + 1 /\ t[Len(s) + 1] = x
        /\ \A i \in 1 .. Len(s) : t[i] = s[i]
    OBVIOUS
  <1> HIDE DEF t
  <1>2. ASSUME NEW i \in 1 .. Len(t), NEW j \in 1 .. Len(t), i < j
        PROVE  t[i].number < t[j].number
    <2>1. i \in 1 .. Len(s) /\ t[i] = s[i] /\ s[i] \in ToSet(s)
      BY <1>1, <1>2 DEF ToSet
    <2>2. CASE j \in 1 .. Len(s)
      BY <1>1, <1>2, <2>1, <2>2 DEF Increasing
    <2>3. CASE j = Len(s) + 1
      BY <1>1, <2>1, <2>3
    <2> QED  BY <1>1, <2>2, <2>3
  <1> QED  BY <1>2 DEF Increasing, t

(* What is kept: the members that are in the set, in their order.          *)
LEMMA KeptMembers ==
    ASSUME NEW T, NEW s \in Seq(T), NEW set
    PROVE  LET k == Kept(s, set)
           IN  /\ k \in Seq(T) /\ ToSet(k) = ToSet(s) \cap set
               /\ Len(k) <= Len(s) /\ (Increasing(s) => Increasing(k))
  <1> DEFINE g == KeptSoFar(s, set)
             Upto(i) == {s[j] : j \in 1 .. i}
             Good == {i \in 0 .. Len(s) :
                     /\ g[i] \in Seq(T) /\ ToSet(g[i]) = Upto(i) \cap set
                     /\ Len(g[i]) <= i /\ (Increasing(s) => Increasing(g[i]))}
  <1>1. Len(s) \in Nat /\ DOMAIN s = 1 .. Len(s)
    OBVIOUS
  <1>2. 0 \in Good
    <2>1. g[0] = <<>>
      BY KeptUnfolds
    <2> HIDE DEF g
    <2>2. <<>> \in Seq(T) /\ ToSet(<<>>) = {} /\ Upto(0) = {} /\ Len(<<>>) <= 0 /\ Increasing(<<>>)
      BY DEF ToSet, Increasing
    <2>3. 0 \in 0 .. Len(s)
      BY <1>1
    <2> QED  BY <2>1, <2>2, <2>3
  <1>3. ASSUME NEW i \in 1 .. Len(s), i - 1 \in Good PROVE i \in Good
    <2> DEFINE before == g[i - 1]
               x == s[i]
    <2>1. g[i] = IF x \in set THEN Append(before, x) ELSE before
      BY KeptUnfolds
    <2>2. /\ before \in Seq(T) /\ ToSet(before) = Upto(i - 1) \cap set
          /\ Len(before) <= i - 1 /\ (Increasing(s) => Increasing(before))
      BY <1>3
    <2>3. i \in Nat /\ i \in 0 .. Len(s) /\ x \in T /\ Len(before) \in Nat
      BY <1>1, <2>2
    <2>4. Upto(i) = Upto(i - 1) \cup {x}
      <3>1. \A j : j \in 1 .. i <=> j \in 1 .. i - 1 \/ j = i
        BY <2>3
      <3> QED  BY <3>1
    <2>5. CASE x \in set
      <3> HIDE DEF g
      <3>1. g[i] = Append(before, x)
        BY <2>1, <2>5
      <3> HIDE DEF before, x
      <3>2. Append(before, x) \in Seq(T) /\ Len(Append(before, x)) <= i
        BY <2>2, <2>3
      <3>3. ToSet(Append(before, x)) = ToSet(before) \cup {x}
        <4>1. /\ DOMAIN before = 1 .. Len(before)
              /\ DOMAIN Append(before, x) = 1 .. Len(before) + 1
              /\ \A j \in 1 .. Len(before) : Append(before, x)[j] = before[j]
              /\ Append(before, x)[Len(before) + 1] = x
          BY <2>2, <2>3
        <4>2. \A j : j \in 1 .. Len(before) + 1 <=> j \in 1 .. Len(before) \/ j = Len(before) + 1
          BY <2>3
        <4> QED  BY <4>1, <4>2 DEF ToSet
      <3>4. ASSUME Increasing(s) PROVE Increasing(Append(before, x))
        <4>1. ASSUME NEW y \in ToSet(before) PROVE y.number < x.number
          <5>1. PICK j \in 1 .. i - 1 : y = s[j]
            BY <2>2
          <5>2. j \in 1 .. Len(s) /\ j < i
            BY <1>1, <2>3, <5>1
          <5> QED  BY <3>4, <5>1, <5>2 DEF Increasing, x
        <4> QED  BY <2>2, <3>4, <4>1, AppendKeepsOrder
      <3> HIDE DEF Upto
      <3>5. ToSet(g[i]) = Upto(i) \cap set
        BY <2>2, <2>4, <2>5, <3>1, <3>3
      <3> QED  BY <2>3, <3>1, <3>2, <3>4, <3>5
    <2>6. CASE x \notin set
      <3> HIDE DEF g
      <3>1. g[i] = before
        BY <2>1, <2>6
      <3> HIDE DEF before, x, Upto
      <3>2. ToSet(g[i]) = Upto(i) \cap set
        BY <2>2, <2>4, <2>6, <3>1
      <3>3. Len(g[i]) <= i
        BY <2>2, <2>3, <3>1
      <3> QED  BY <2>2, <2>3, <3>1, <3>2, <3>3
    <2> QED  BY <2>5, <2>6
  <1> HIDE DEF Good
  <1>6. \A i \in 0 .. Len(s) : i \in Good
    BY <1>1, <1>2, <1>3, B!CountingUp
  <1>4. Len(s) \in Good
    BY <1>1, <1>6
  <1>5. Upto(Len(s)) = ToSet(s)
    BY <1>1 DEF ToSet
  <1> QED  BY <1>4, <1>5, KeptIsLast DEF Good

(* The members of sequences joined are those of each of them.              *)
LEMMA FlattenMembers ==
    ASSUME NEW T, NEW seqs \in Seq(Seq(T)), Len(seqs) # 0
    PROVE  /\ FlattenSeq(seqs) \in Seq(T)
           /\ ToSet(FlattenSeq(seqs)) = UNION {ToSet(seqs[i]) : i \in 1 .. Len(seqs)}
  <1> DEFINE f == B!Flat(seqs)
             n == Len(seqs)
             Upto(i) == UNION {ToSet(seqs[j]) : j \in 1 .. i}
             Good == {i \in 0 .. n : i # 0 => f[i] \in Seq(T) /\ ToSet(f[i]) = Upto(i)}
  <1>1. n \in Nat /\ \A i \in 1 .. n : seqs[i] \in Seq(T)
    OBVIOUS
  <1>2. B!IsFlat(f, seqs)
    BY B!FlatExists DEF B!Flat
  <1>3. 0 \in Good
    BY <1>1
  <1>4. ASSUME NEW i \in 1 .. n, i - 1 \in Good PROVE i \in Good
    <2>1. f[i] = IF i = 1 THEN seqs[i] ELSE f[i - 1] \o seqs[i]
      BY <1>2 DEF B!IsFlat
    <2> HIDE DEF f
    <2>2. CASE i = 1
      <3>1. f[i] = seqs[1] /\ seqs[1] \in Seq(T)
        BY <1>1, <2>1, <2>2
      <3>2. Upto(1) = ToSet(seqs[1])
        <4>1. 1 .. 1 = {1}
          OBVIOUS
        <4> QED  BY <4>1
      <3>3. i \in 0 .. n
        BY <1>1
      <3> QED  BY <2>2, <3>1, <3>2, <3>3
    <2>3. CASE i # 1
      <3>1. i - 1 # 0 /\ i \in 0 .. n /\ f[i] = f[i - 1] \o seqs[i]
        <4>1. f[i] = f[i - 1] \o seqs[i]
          BY <2>1, <2>3
        <4>2. i - 1 # 0 /\ i \in 0 .. n
          BY <1>1, <2>3
        <4> QED  BY <4>1, <4>2
      <3>2. f[i - 1] \in Seq(T) /\ ToSet(f[i - 1]) = Upto(i - 1) /\ seqs[i] \in Seq(T)
        BY <1>1, <1>4, <3>1
      <3>3. f[i] \in Seq(T) /\ ToSet(f[i]) = ToSet(f[i - 1]) \cup ToSet(seqs[i])
        BY <3>1, <3>2, B!JoinedMembers, Copies
      <3>4. Upto(i) = Upto(i - 1) \cup ToSet(seqs[i])
        <4>1. \A j : j \in 1 .. i <=> j \in 1 .. i - 1 \/ j = i
          BY <1>1
        <4> QED  BY <4>1
      <3> HIDE DEF Upto
      <3> QED  BY <3>1, <3>2, <3>3, <3>4
    <2> QED  BY <2>2, <2>3
  <1> HIDE DEF Good
  <1> HIDE DEF n
  <1>6. \A i \in 0 .. n : i \in Good
    BY <1>1, <1>3, <1>4, B!CountingUp
  <1>5. n \in Good
    BY <1>1, <1>6
  <1>7. FlattenSeq(seqs) = f[n]
    BY B!FlattenIsLast DEF FlattenSeq, B!FlattenSeq, n
  <1> QED  BY <1>5, <1>7 DEF Good, n

-----------------------------------------------------------------------------
(* The chain and what its blocks announce *)

(* Nothing happens to a market before its launch, and that happens once.   *)
History(c) ==
    /\ \A h \in 1 .. Len(c) : c[h].what \notin {"quiet", "register", "launch"} =>
                                 \E g \in 1 .. h - 1 : c[g].what = "launch"
    /\ \A g, h \in 1 .. Len(c) : c[g].what = "launch" /\ c[h].what = "launch" => g = h

ChainInv ==
    /\ chain \in Seq(ChainBlock) /\ forks \in Nat /\ peak \in Nat
    /\ Tip <= peak /\ Tip <= MaxHeight
    /\ \A h \in 1 .. Tip : chain[h].fork <= forks
    /\ History(chain)

(* The rows the block at a height leaves.                                  *)
KeysAt(c, h) ==
    LET what == c[h].what
    IN  CASE what = "launch" -> {<<"balance_events", h, 3>>}
          [] what \in {"buy", "sell", "cross"} ->
               {<<"balance_events", h, 2>>, <<"balance_events", h, 3>>, <<"trades", h, 2>>}
          [] what = "graduate" -> {<<"balance_events", h, 2>>, <<"balance_events", h, 3>>}
          [] what = "accrue" -> {<<"fee_accruals", h, 1>>, <<"stockback_funding", h, 2>>}
          [] what = "claim" -> {<<"stockback_claims", h, 1>>}
          [] OTHER -> {}

KeysOf(c, from, to) == UNION {KeysAt(c, h) : h \in from .. to}
KeysIn(logs) == UNION {TablesOf(e) : e \in ToSet(logs)}

(* Types and members of sequences of up to three elements.                 *)
LEMMA SmallSequences ==
    ASSUME NEW T
    PROVE  /\ <<>> \in Seq(T) /\ ToSet(<<>>) = {}
           /\ \A a \in T : <<a>> \in Seq(T) /\ ToSet(<<a>>) = {a}
           /\ \A a, b \in T : <<a, b>> \in Seq(T) /\ ToSet(<<a, b>>) = {a, b}
           /\ \A a, b, c \in T : <<a, b, c>> \in Seq(T) /\ ToSet(<<a, b, c>>) = {a, b, c}
  <1>1. <<>> \in Seq(T)
    OBVIOUS
  <1>2. ToSet(<<>>) = {}
    BY DEF ToSet
  <1>3. \A a \in T : <<a>> \in Seq(T)
    OBVIOUS
  <1>4. ASSUME NEW a \in T PROVE ToSet(<<a>>) = {a}
    <2>1. DOMAIN <<a>> = {1} /\ <<a>>[1] = a
      OBVIOUS
    <2> QED  BY <2>1 DEF ToSet
  <1>5. \A a, b \in T : <<a, b>> \in Seq(T)
    OBVIOUS
  <1>6. ASSUME NEW a \in T, NEW b \in T PROVE ToSet(<<a, b>>) = {a, b}
    <2>1. DOMAIN <<a, b>> = {1, 2} /\ <<a, b>>[1] = a /\ <<a, b>>[2] = b
      OBVIOUS
    <2> QED  BY <2>1 DEF ToSet
  <1>7. \A a, b, c \in T : <<a, b, c>> \in Seq(T)
    OBVIOUS
  <1>8. ASSUME NEW a \in T, NEW b \in T, NEW c \in T PROVE ToSet(<<a, b, c>>) = {a, b, c}
    <2>1. /\ DOMAIN <<a, b, c>> = {1, 2, 3}
          /\ <<a, b, c>>[1] = a /\ <<a, b, c>>[2] = b /\ <<a, b, c>>[3] = c
      OBVIOUS
    <2> QED  BY <2>1 DEF ToSet
  <1> QED  BY <1>1, <1>2, <1>3, <1>4, <1>5, <1>6, <1>7, <1>8

(* Logs of one block.                                                      *)
Announces(logs, h, keys, launch) ==
    /\ logs \in Seq(Event)
    /\ \A e \in ToSet(logs) : e.block = h
    /\ KeysIn(logs) = keys
    /\ launch <=> \E e \in ToSet(logs) : e.kind = "TokenLaunched"

(* Types of the events without a payload.                                  *)
LEMMA PlainEvents ==
    ASSUME NEW h \in Nat, NEW i \in Nat
    PROVE  /\ Plain(h, i, "registry", "AssetRegistered") \in Event
           /\ Plain(h, i, "factory", "TokenLaunched") \in Event
           /\ Plain(h, i, "market", "GraduationPending") \in Event
           /\ Plain(h, i, "feeVault", "FeesAccrued") \in Event
           /\ \A k \in {"Funded", "CommitmentSubmitted", "CommitmentActivated",
                        "PendingCommitmentCancelled", "Claimed"} :
                 Plain(h, i, "rewardVault", k) \in Event
           /\ \A s, k : Plain(h, i, s, k).block = h /\ Plain(h, i, s, k).kind = k
                        /\ Plain(h, i, s, k).log = i
  BY DEF Plain, Event

(* The rows they stand for.                                                *)
LEMMA PlainTables ==
    ASSUME NEW h \in Nat, NEW i \in Nat, NEW s, NEW k
    PROVE  TablesOf(Plain(h, i, s, k)) =
             CASE k \in {"Bought", "Sold"} -> {<<"trades", h, i>>}
               [] k = "Transfer" -> TablesOf(Plain(h, i, s, k))
               [] k = "FeesAccrued" -> {<<"fee_accruals", h, i>>}
               [] k = "Funded" -> {<<"stockback_funding", h, i>>}
               [] k = "Claimed" -> {<<"stockback_claims", h, i>>}
               [] OTHER -> {}
  <1> DEFINE e == Plain(h, i, s, k)
  <1>1. e.kind = k /\ e.block = h /\ e.log = i
    BY DEF Plain
  <1> HIDE DEF e
  <1>2. CASE k \in {"Bought", "Sold"}
    BY <1>1, <1>2 DEF TablesOf, e
  <1>3. CASE k = "Transfer"
    BY <1>3
  <1>4. CASE k = "FeesAccrued"
    BY <1>1, <1>4 DEF TablesOf, e
  <1>5. CASE k = "Funded"
    BY <1>1, <1>5 DEF TablesOf, e
  <1>6. CASE k = "Claimed"
    BY <1>1, <1>6 DEF TablesOf, e
  <1>7. CASE k \notin {"Bought", "Sold", "Transfer", "FeesAccrued", "Funded", "Claimed"}
    <2>1. TablesOf(e) = {}
      BY <1>1, <1>7 DEF TablesOf
    <2> QED  BY <1>7, <2>1 DEF e
  <1> QED  BY <1>2, <1>3, <1>4, <1>5, <1>6, <1>7

(* Type and rows of a transfer; a mint has one side only.                  *)
LEMMA TransferEvents ==
    ASSUME NEW h \in Nat, NEW from \in Accounts \cup {"zero"}, NEW to \in Accounts, NEW value \in Int
    PROVE  LET e == Transfer(h, from, to, value)
           IN  /\ e \in Event /\ e.block = h /\ e.kind = "Transfer"
               /\ from = "zero" => TablesOf(e) = {<<"balance_events", h, 3>>}
               /\ from # "zero" => TablesOf(e) = {<<"balance_events", h, 3>>, <<"balance_events", h, 2>>}
  <1> DEFINE e == Transfer(h, from, to, value)
  <1>1. /\ e \in Event /\ e.block = h /\ e.kind = "Transfer" /\ e.from = from /\ e.log = 1
    BY DEF Transfer, Event
  <1> HIDE DEF e
  <1>2. TablesOf(e) = {<<"balance_events", e.block, 2 * e.log + 1>>} \cup
            (IF e.from = "zero" THEN {} ELSE {<<"balance_events", e.block, 2 * e.log>>})
    BY <1>1 DEF TablesOf
  <1>3. 2 * e.log + 1 = 3 /\ 2 * e.log = 2
    BY <1>1
  <1> QED  BY <1>1, <1>2, <1>3 DEF e

(* Type and row of a trade.                                                *)
LEMMA TradeEvents ==
    ASSUME NEW h \in Nat, NEW kind \in {"Bought", "Sold"}, NEW sold \in Int
    PROVE  LET e == Trade(h, kind, sold)
           IN  /\ e \in Event /\ e.block = h /\ e.kind = kind
               /\ TablesOf(e) = {<<"trades", h, 2>>}
  <1> DEFINE e == Trade(h, kind, sold)
  <1>1. "alice" \in Accounts
    BY IndexerAssumption
  <1>2. e \in Event /\ e.block = h /\ e.kind = kind /\ e.log = 2
    BY <1>1 DEF Trade, Event
  <1> HIDE DEF e
  <1>3. TablesOf(e) = {<<"trades", h, 2>>}
    BY <1>2 DEF TablesOf
  <1> QED  BY <1>2, <1>3 DEF e

(* What the curve has sold is an integer.                                  *)
LEMMA SoldIsInteger ==
    ASSUME NEW s \in Seq(ChainBlock)
    PROVE  SoldBy(s) \in Int
  <1>1. ASSUME NEW what PROVE Count(what, s) \in Nat
    <2>1. IsFiniteSet(1 .. Len(s)) /\ DOMAIN s = 1 .. Len(s)
      BY FS_Interval
    <2>2. IsFiniteSet({i \in DOMAIN s : s[i].what = what})
      BY <2>1, FS_Subset
    <2> QED  BY <2>2, FS_CardinalityType DEF Count
  <1> QED  BY <1>1 DEF SoldBy

(* The logs of a block announce the rows it leaves, and its launch.        *)
LEMMA LogsAtAnnounce ==
    ASSUME ChainInv, NEW h \in 1 .. Tip
    PROVE  Announces(LogsAt(h), h, KeysAt(chain, h), chain[h].what = "launch")
  <1> DEFINE what == chain[h].what
             sold == SoldBy(SubSeq(chain, 1, h))
             logs == LogsAt(h)
  <1>1. h \in Nat /\ chain[h] \in ChainBlock /\ SubSeq(chain, 1, h) \in Seq(ChainBlock)
    BY DEF ChainInv, Tip
  <1>2. what \in AllPayloads
    BY <1>1 DEF ChainBlock
  <1>3. sold \in Int
    BY <1>1, SoldIsInteger
  <1>4. /\ Supply - sold \in Int /\ Supply \in Int
        /\ "curve" \in Accounts /\ "alice" \in Accounts /\ "pool" \in Accounts
        /\ "curve" # "zero" /\ "alice" # "zero"
    BY <1>3, IndexerAssumption
  <1> HIDE DEF what, sold, logs
  <1>5. CASE what = "quiet"
    <2>1. logs = <<>> /\ KeysAt(chain, h) = {}
      BY <1>5 DEF LogsAt, KeysAt, what, logs
    <2> QED  BY <1>5, <2>1, SmallSequences DEF Announces, KeysIn, what, logs
  <1>6. CASE what = "register"
    <2> DEFINE a == Plain(h, 1, "registry", "AssetRegistered")
    <2>1. logs = <<a>> /\ KeysAt(chain, h) = {}
      BY <1>6 DEF LogsAt, KeysAt, what, logs
    <2>2. a \in Event /\ a.block = h /\ a.kind = "AssetRegistered" /\ TablesOf(a) = {}
      BY <1>1, PlainEvents, PlainTables
    <2> HIDE DEF a
    <2>3. logs \in Seq(Event) /\ ToSet(logs) = {a}
      BY <2>1, <2>2, SmallSequences
    <2> QED  BY <1>6, <2>1, <2>2, <2>3 DEF Announces, KeysIn, what, logs
  <1>7. CASE what = "launch"
    <2> DEFINE a == Transfer(h, "zero", "curve", Supply)
               b == Plain(h, 2, "factory", "TokenLaunched")
    <2>1. logs = <<a, b>> /\ KeysAt(chain, h) = {<<"balance_events", h, 3>>}
      BY <1>7 DEF LogsAt, KeysAt, what, logs
    <2>2. a \in Event /\ a.block = h /\ TablesOf(a) = {<<"balance_events", h, 3>>}
      <3>1. PICK z : z = "zero"
        OBVIOUS
      <3>2. a = Transfer(h, z, "curve", Supply)
        BY <3>1
      <3>3. h \in Nat /\ z \in Accounts \cup {"zero"} /\ "curve" \in Accounts /\ Supply \in Int
        BY <1>1, <1>4, <3>1
      <3> HIDE DEF a
      <3>4. LET e == Transfer(h, z, "curve", Supply)
            IN  /\ e \in Event /\ e.block = h /\ e.kind = "Transfer"
                /\ z = "zero" => TablesOf(e) = {<<"balance_events", h, 3>>}
        BY <3>3, TransferEvents
      <3> QED  BY <3>1, <3>2, <3>4
    <2>3. b \in Event /\ b.block = h /\ b.kind = "TokenLaunched" /\ TablesOf(b) = {}
      BY <1>1, PlainEvents, PlainTables
    <2> HIDE DEF a, b
    <2>4. logs \in Seq(Event) /\ ToSet(logs) = {a, b}
      BY <2>1, <2>2, <2>3, SmallSequences
    <2>5. KeysIn(logs) = KeysAt(chain, h)
      BY <2>1, <2>2, <2>3, <2>4 DEF KeysIn
    <2> QED  BY <1>7, <2>2, <2>3, <2>4, <2>5 DEF Announces, what, logs
  <1>8. CASE what \in {"buy", "sell"}
    <2> DEFINE a == IF what = "buy" THEN Transfer(h, "curve", "alice", 1) ELSE Transfer(h, "alice", "curve", 1)
               b == IF what = "buy" THEN Trade(h, "Bought", sold) ELSE Trade(h, "Sold", sold)
    <2>1. /\ logs = <<a, b>>
          /\ KeysAt(chain, h) = {<<"balance_events", h, 2>>, <<"balance_events", h, 3>>, <<"trades", h, 2>>}
      <3>1. CASE what = "buy"
        BY <3>1 DEF LogsAt, KeysAt, what, logs, sold
      <3>2. CASE what = "sell"
        BY <3>2 DEF LogsAt, KeysAt, what, logs, sold
      <3> QED  BY <1>8, <3>1, <3>2
    <2>2. /\ a \in Event /\ a.block = h /\ a.kind = "Transfer"
          /\ TablesOf(a) = {<<"balance_events", h, 3>>, <<"balance_events", h, 2>>}
      <3>1. 1 \in Int
        OBVIOUS
      <3> QED  BY <1>1, <1>4, <3>1, TransferEvents
    <2>3. b \in Event /\ b.block = h /\ b.kind \in {"Bought", "Sold"} /\ TablesOf(b) = {<<"trades", h, 2>>}
      BY <1>1, <1>3, TradeEvents
    <2> HIDE DEF a, b
    <2>4. logs \in Seq(Event) /\ ToSet(logs) = {a, b}
      BY <2>1, <2>2, <2>3, SmallSequences
    <2>5. KeysIn(logs) = KeysAt(chain, h)
      BY <2>1, <2>2, <2>3, <2>4 DEF KeysIn
    <2> QED  BY <1>8, <2>2, <2>3, <2>4, <2>5 DEF Announces, what, logs
  <1>9. CASE what = "cross"
    <2> DEFINE a == Transfer(h, "curve", "alice", 1)
               b == Trade(h, "Bought", sold)
               c == Plain(h, 3, "market", "GraduationPending")
    <2>1. /\ logs = <<a, b, c>>
          /\ KeysAt(chain, h) = {<<"balance_events", h, 2>>, <<"balance_events", h, 3>>, <<"trades", h, 2>>}
      BY <1>9 DEF LogsAt, KeysAt, what, logs, sold
    <2>2. /\ a \in Event /\ a.block = h /\ a.kind = "Transfer"
          /\ TablesOf(a) = {<<"balance_events", h, 3>>, <<"balance_events", h, 2>>}
      <3>1. 1 \in Int
        OBVIOUS
      <3> QED  BY <1>1, <1>4, <3>1, TransferEvents
    <2>3. b \in Event /\ b.block = h /\ b.kind \in {"Bought", "Sold"} /\ TablesOf(b) = {<<"trades", h, 2>>}
      BY <1>1, <1>3, TradeEvents
    <2>4. c \in Event /\ c.block = h /\ c.kind = "GraduationPending" /\ TablesOf(c) = {}
      BY <1>1, PlainEvents, PlainTables
    <2> HIDE DEF a, b, c
    <2>5. logs \in Seq(Event) /\ ToSet(logs) = {a, b, c}
      BY <2>1, <2>2, <2>3, <2>4, SmallSequences
    <2>6. KeysIn(logs) = KeysAt(chain, h)
      BY <2>1, <2>2, <2>3, <2>4, <2>5 DEF KeysIn
    <2> QED  BY <1>9, <2>2, <2>3, <2>4, <2>5, <2>6 DEF Announces, what, logs
  <1>10. CASE what = "graduate"
    <2> DEFINE a == Transfer(h, "curve", "pool", Supply - sold)
               b == [source |-> "market", kind |-> "Graduated", pool |-> "pool",
                     block |-> h, log |-> 2]
    <2>1. logs = <<a, b>> /\ KeysAt(chain, h) = {<<"balance_events", h, 2>>, <<"balance_events", h, 3>>}
      BY <1>10 DEF LogsAt, KeysAt, what, logs, sold
    <2>2. /\ a \in Event /\ a.block = h /\ a.kind = "Transfer"
          /\ TablesOf(a) = {<<"balance_events", h, 3>>, <<"balance_events", h, 2>>}
      BY <1>1, <1>4, TransferEvents
    <2>3. b \in Event /\ b.block = h /\ b.kind = "Graduated" /\ TablesOf(b) = {}
      BY <1>1 DEF Event, TablesOf
    <2> HIDE DEF a, b
    <2>4. logs \in Seq(Event) /\ ToSet(logs) = {a, b}
      BY <2>1, <2>2, <2>3, SmallSequences
    <2>5. KeysIn(logs) = KeysAt(chain, h)
      BY <2>1, <2>2, <2>3, <2>4 DEF KeysIn
    <2> QED  BY <1>10, <2>2, <2>3, <2>4, <2>5 DEF Announces, what, logs
  <1>11. CASE what = "accrue"
    <2> DEFINE a == Plain(h, 1, "feeVault", "FeesAccrued")
               b == Plain(h, 2, "rewardVault", "Funded")
    <2>1. logs = <<a, b>> /\ KeysAt(chain, h) = {<<"fee_accruals", h, 1>>, <<"stockback_funding", h, 2>>}
      BY <1>11 DEF LogsAt, KeysAt, what, logs
    <2>2. a \in Event /\ a.block = h /\ a.kind = "FeesAccrued" /\ TablesOf(a) = {<<"fee_accruals", h, 1>>}
      BY <1>1, PlainEvents, PlainTables
    <2>3. b \in Event /\ b.block = h /\ b.kind = "Funded" /\ TablesOf(b) = {<<"stockback_funding", h, 2>>}
      BY <1>1, PlainEvents, PlainTables
    <2> HIDE DEF a, b
    <2>4. logs \in Seq(Event) /\ ToSet(logs) = {a, b}
      BY <2>1, <2>2, <2>3, SmallSequences
    <2>5. KeysIn(logs) = KeysAt(chain, h)
      BY <2>1, <2>2, <2>3, <2>4 DEF KeysIn
    <2> QED  BY <1>11, <2>2, <2>3, <2>4, <2>5 DEF Announces, what, logs
  <1>12. CASE what \in {"submit", "activate", "cancel"}
    <2> DEFINE k == CASE what = "submit" -> "CommitmentSubmitted"
                      [] what = "activate" -> "CommitmentActivated"
                      [] what = "cancel" -> "PendingCommitmentCancelled"
               a == Plain(h, 1, "rewardVault", k)
    <2>1. logs = <<a>> /\ KeysAt(chain, h) = {}
      <3>1. CASE what = "submit"
        BY <3>1 DEF LogsAt, KeysAt, what, logs
      <3>2. CASE what = "activate"
        BY <3>2 DEF LogsAt, KeysAt, what, logs
      <3>3. CASE what = "cancel"
        BY <3>3 DEF LogsAt, KeysAt, what, logs
      <3> QED  BY <1>12, <3>1, <3>2, <3>3
    <2>2. k \in {"CommitmentSubmitted", "CommitmentActivated", "PendingCommitmentCancelled"}
      BY <1>12
    <2> HIDE DEF k
    <2>3. a \in Event /\ a.block = h /\ a.kind = k /\ TablesOf(a) = {}
      BY <1>1, <2>2, PlainEvents, PlainTables
    <2> HIDE DEF a
    <2>4. logs \in Seq(Event) /\ ToSet(logs) = {a}
      BY <2>1, <2>3, SmallSequences
    <2> QED  BY <1>12, <2>1, <2>2, <2>3, <2>4 DEF Announces, KeysIn, what, logs
  <1>13. CASE what = "claim"
    <2> DEFINE a == Plain(h, 1, "rewardVault", "Claimed")
    <2>1. logs = <<a>> /\ KeysAt(chain, h) = {<<"stockback_claims", h, 1>>}
      BY <1>13 DEF LogsAt, KeysAt, what, logs
    <2>2. a \in Event /\ a.block = h /\ a.kind = "Claimed" /\ TablesOf(a) = {<<"stockback_claims", h, 1>>}
      BY <1>1, PlainEvents, PlainTables
    <2> HIDE DEF a
    <2>3. logs \in Seq(Event) /\ ToSet(logs) = {a}
      BY <2>1, <2>2, SmallSequences
    <2> QED  BY <1>13, <2>1, <2>2, <2>3 DEF Announces, KeysIn, what, logs
  <1> QED  BY <1>2, <1>5, <1>6, <1>7, <1>8, <1>9, <1>10, <1>11, <1>12, <1>13 DEF AllPayloads

(* Logs of consecutive blocks.                                             *)
LaunchesAt(c, logs, from, to) ==
    /\ \A e \in ToSet(logs) : e.kind = "TokenLaunched" => c[e.block].what = "launch"
    /\ \A h \in from .. to : c[h].what = "launch" =>
          \E e \in ToSet(logs) : e.kind = "TokenLaunched" /\ e.block = h

(* So do the logs of consecutive blocks.                                   *)
LEMMA LogsBetweenAnnounce ==
    ASSUME ChainInv, NEW from \in Nat \ {0}, NEW to \in Nat, to <= Tip
    PROVE  LET logs == LogsBetween(from, to)
           IN  /\ logs \in Seq(Event)
               /\ \A e \in ToSet(logs) : e.block \in from .. to
               /\ KeysIn(logs) = KeysOf(chain, from, to)
               /\ LaunchesAt(chain, logs, from, to)
  <1> DEFINE logs == LogsBetween(from, to)
  <1>1. CASE to < from
    <2>1. logs = <<>> /\ from .. to = {}
      BY <1>1 DEF LogsBetween
    <2>2. <<>> \in Seq(Event) /\ ToSet(<<>>) = {}
      BY SmallSequences
    <2> HIDE DEF logs
    <2>3. logs \in Seq(Event) /\ ToSet(logs) = {}
      BY <2>1, <2>2
    <2>4. KeysIn(logs) = KeysOf(chain, from, to)
      BY <2>1, <2>3 DEF KeysIn, KeysOf
    <2>5. LaunchesAt(chain, logs, from, to)
      BY <2>1, <2>3 DEF LaunchesAt
    <2> QED  BY <2>3, <2>4, <2>5 DEF logs
  <1>2. CASE ~(to < from)
    <2> DEFINE n == to - from + 1
               seqs == [i \in 1 .. n |-> LogsAt(from + i - 1)]
    <2>1. n \in Nat \ {0} /\ Tip \in Nat
      BY <1>2 DEF ChainInv, Tip
    <2>2. \A i \in 1 .. n : from + i - 1 \in from .. to /\ from + i - 1 \in 1 .. Tip
      BY <2>1
    <2>3. \A h \in from .. to : h \in 1 .. Tip /\ h - from + 1 \in 1 .. n /\ from + (h - from + 1) - 1 = h
      BY <2>1
    <2>4. \A h \in from .. to : Announces(LogsAt(h), h, KeysAt(chain, h), chain[h].what = "launch")
      BY <2>3, LogsAtAnnounce
    <2>5. logs = FlattenSeq(seqs)
      BY <1>2 DEF LogsBetween
    <2>6. seqs \in Seq(Seq(Event)) /\ Len(seqs) = n
      <3>1. \A i \in 1 .. n : LogsAt(from + i - 1) \in Seq(Event)
        BY <2>2, <2>4 DEF Announces
      <3> QED  BY <2>1, <3>1
    <2>7. \A i \in 1 .. n : seqs[i] = LogsAt(from + i - 1)
      OBVIOUS
    <2> HIDE DEF n, seqs, logs
    <2>8. logs \in Seq(Event) /\ ToSet(logs) = UNION {ToSet(seqs[i]) : i \in 1 .. n}
      BY <2>1, <2>5, <2>6, FlattenMembers
    <2>9. ToSet(logs) = UNION {ToSet(LogsAt(h)) : h \in from .. to}
      <3>1. \A i \in 1 .. n : ToSet(seqs[i]) = ToSet(LogsAt(from + i - 1)) /\ from + i - 1 \in from .. to
        BY <2>2, <2>7
      <3>2. \A h \in from .. to : \E i \in 1 .. n : ToSet(seqs[i]) = ToSet(LogsAt(h))
        BY <2>3, <2>7
      <3> QED  BY <2>8, <3>1, <3>2
    <2>10. \A e \in ToSet(logs) : e.block \in from .. to /\ e \in ToSet(LogsAt(e.block))
      BY <2>4, <2>9 DEF Announces
    <2>11. KeysIn(logs) = KeysOf(chain, from, to)
      <3>1. \A h \in from .. to : KeysAt(chain, h) = UNION {TablesOf(e) : e \in ToSet(LogsAt(h))}
        BY <2>4 DEF Announces, KeysIn
      <3> QED  BY <2>9, <3>1 DEF KeysIn, KeysOf
    <2>12. LaunchesAt(chain, logs, from, to)
      <3>1. \A h \in from .. to : chain[h].what = "launch" <=>
                                    \E e \in ToSet(LogsAt(h)) : e.kind = "TokenLaunched"
        BY <2>4 DEF Announces
      <3>2. \A h \in from .. to : \A e \in ToSet(LogsAt(h)) : e \in ToSet(logs) /\ e.block = h
        BY <2>4, <2>9 DEF Announces
      <3> QED  BY <2>10, <3>1, <3>2 DEF LaunchesAt
    <2> QED  BY <2>8, <2>10, <2>11, <2>12 DEF logs
  <1> QED  BY <1>1, <1>2

(* Blocks that leave rows come after the launch.                           *)
LEMMA RowsFollowLaunch ==
    ASSUME NEW c \in Seq(ChainBlock), History(c), NEW h \in 1 .. Len(c), KeysAt(c, h) # {}
    PROVE  \E g \in 1 .. h : c[g].what = "launch"
  <1>1. Len(c) \in Nat
    OBVIOUS
  <1>2. c[h].what \notin {"quiet", "register"}
    BY DEF KeysAt
  <1>3. CASE c[h].what = "launch"
    BY <1>1, <1>3
  <1>4. CASE c[h].what # "launch"
    BY <1>1, <1>2, <1>4 DEF History
  <1> QED  BY <1>3, <1>4

(* What processRange has read when it goes on.                             *)
Gathered(c, logs, from, to) ==
    /\ KeysIn(logs) = KeysOf(c, from, to)
    /\ LaunchesAt(c, logs, from, to)
Understood(logs, k) == k \/ LaunchedIn(logs) \/ KeysIn(logs) = {}

(* A launch among the logs, as a member of them.                           *)
LEMMA LaunchedMembers ==
    ASSUME NEW logs \in Seq(Event)
    PROVE  LaunchedIn(logs) <=> \E e \in ToSet(logs) : e.kind = "TokenLaunched"
  BY DEF LaunchedIn, ToSet

(* What processRange fetches lacks nothing, unless a market it does not    *)
(* know was launched before the range.                                     *)
LEMMA FetchLogsGathers ==
    ASSUME ChainInv, known \in BOOLEAN, NEW from \in Nat \ {0}, NEW to \in Nat, to <= Tip
    PROVE  LET logs == FetchLogs(from, to)
           IN  /\ logs \in Seq(Event)
               /\ \A e \in ToSet(logs) : e.block \in from .. to
               /\ (known \/ \A h \in 1 .. from - 1 : chain[h].what # "launch") =>
                     Gathered(chain, logs, from, to) /\ Understood(logs, known)
  <1> DEFINE all == LogsBetween(from, to)
             set == {e \in ToSet(all) : known \/ ~OfMarket(e)}
             heard == Kept(all, set)
             logs == FetchLogs(from, to)
  <1>1. /\ all \in Seq(Event)
        /\ \A e \in ToSet(all) : e.block \in from .. to
        /\ KeysIn(all) = KeysOf(chain, from, to)
        /\ LaunchesAt(chain, all, from, to)
    BY LogsBetweenAnnounce
  <1>2. Watched(all) = heard
    BY DEF Watched
  <1>3. logs = IF LaunchedIn(heard) /\ ~known THEN all ELSE heard
    BY <1>2 DEF FetchLogs
  <1> HIDE DEF all, set
  <1>4. heard \in Seq(Event) /\ ToSet(heard) = ToSet(all) \cap set
    BY <1>1, KeptMembers
  <1> HIDE DEF logs, heard
  <1>5. logs \in Seq(Event) /\ ToSet(logs) \subseteq ToSet(all)
    BY <1>1, <1>3, <1>4
  <1>6. ASSUME known PROVE Gathered(chain, logs, from, to) /\ Understood(logs, known)
    <2>1. ToSet(logs) = ToSet(all)
      BY <1>3, <1>4, <1>6 DEF set
    <2> QED  BY <1>1, <1>6, <2>1 DEF Gathered, Understood, KeysIn, LaunchesAt
  <1>7. ASSUME ~known, LaunchedIn(heard)
        PROVE  Gathered(chain, logs, from, to) /\ Understood(logs, known)
    <2>1. logs = all
      BY <1>3, <1>7
    <2>2. LaunchedIn(all)
      BY <1>1, <1>4, <1>7, LaunchedMembers
    <2> QED  BY <1>1, <2>1, <2>2 DEF Gathered, Understood
  <1>8. ASSUME ~known, ~LaunchedIn(heard), \A h \in 1 .. from - 1 : chain[h].what # "launch"
        PROVE  Gathered(chain, logs, from, to) /\ Understood(logs, known)
    <2>1. \A e \in ToSet(all) : e.kind # "TokenLaunched"
      <3> SUFFICES ASSUME NEW e \in ToSet(all), e.kind = "TokenLaunched" PROVE FALSE
        OBVIOUS
      <3>1. e \in Event
        BY <1>1 DEF ToSet
      <3>2. e.source = "factory"
        BY <3>1, EventFields
      <3>3. e \in set
        BY <3>2 DEF set, OfMarket
      <3> QED  BY <1>4, <1>8, <3>3, LaunchedMembers
    <2>2. \A h \in 1 .. to : chain[h].what # "launch"
      <3>1. \A h \in from .. to : chain[h].what # "launch"
        BY <1>1, <2>1 DEF LaunchesAt
      <3> QED  BY <1>8, <3>1
    <2>3. \A h \in from .. to : KeysAt(chain, h) = {}
      <3> SUFFICES ASSUME NEW h \in from .. to, KeysAt(chain, h) # {} PROVE FALSE
        OBVIOUS
      <3>1. chain \in Seq(ChainBlock) /\ History(chain) /\ h \in 1 .. Len(chain)
        BY DEF ChainInv, Tip
      <3>2. PICK g \in 1 .. h : chain[g].what = "launch"
        BY <3>1, RowsFollowLaunch
      <3> QED  BY <2>2, <3>2
    <2>4. KeysOf(chain, from, to) = {}
      BY <2>3 DEF KeysOf
    <2>5. KeysIn(logs) = {}
      BY <1>1, <1>5, <2>4 DEF KeysIn
    <2>6. LaunchesAt(chain, logs, from, to)
      BY <1>5, <2>1, <2>2 DEF LaunchesAt
    <2> QED  BY <2>4, <2>5, <2>6 DEF Gathered, Understood
  <1>9. \A e \in ToSet(logs) : e.block \in from .. to
    BY <1>1, <1>5
  <1> QED  BY <1>5, <1>6, <1>7, <1>8, <1>9 DEF logs

H == INSTANCE FoldProofs WITH Op <- HandleLog

-----------------------------------------------------------------------------
(* The headers of a range                                                  *)

(* Everything else a database holds is left alone.                         *)
SameRest(d, x) == DbOK(x) /\ x.cursor = d.cursor /\ x.rows = d.rows /\ x.market = d.market

(* Where the blocks come from: an earlier one at another height, or one of *)
(* the headers, settled only if the block it replaces was.                 *)
BlocksFrom(d, x, refs) ==
    \A b \in x.blocks :
        \/ b \in d.blocks
        \/ /\ \E ref \in refs : b.number = ref.number /\ b.hash = ref.hash
           /\ b.finalized => \E old \in d.blocks : old.number = b.number /\ old.finalized

(* Recording a header replaces its height and keeps its mark.              *)
LEMMA RecordBlockTypes ==
    ASSUME NEW d, NEW x, NEW refs, NEW ref \in Ref, DbOK(d), SameRest(d, x), BlocksFrom(d, x, refs)
    PROVE  LET y == RecordBlock(x, ref)
           IN  SameRest(d, y) /\ BlocksFrom(d, y, refs \cup {ref})
  <1> DEFINE old == {b \in x.blocks : b.number = ref.number}
             new == [number |-> ref.number, hash |-> ref.hash, finalized |-> \E b \in old : b.finalized]
             blocks == (x.blocks \ old) \cup {new}
             y == [x EXCEPT !.blocks = blocks]
  <1>1. RecordBlock(x, ref) = y
    BY DEF RecordBlock
  <1>2. x.blocks \in SUBSET Block /\ ref.number \in Nat \ {0} /\ ref.hash \in Hash
    BY DEF SameRest, DbOK, Db, Ref
  <1>3. new \in Block
    <2>1. (\E b \in old : b.finalized) \in BOOLEAN
      OBVIOUS
    <2> QED  BY <1>2, <2>1 DEF Block
  <1>4. blocks \in SUBSET Block
    BY <1>2, <1>3
  <1>5. /\ new.number = ref.number /\ new.hash = ref.hash
        /\ new.finalized => \E b \in old : b.finalized
    OBVIOUS
  <1>6. \A b \in blocks : (b \in x.blocks /\ b \notin old) \/ b = new
    OBVIOUS
  <1>7. \A b \in old : b \in x.blocks /\ b.number = ref.number
    OBVIOUS
  <1> HIDE DEF blocks, new, old
  <1>8. DbOK(y) /\ y.blocks = blocks /\ y.cursor = x.cursor /\ y.rows = x.rows /\ y.market = x.market
    BY <1>4, FieldTypes DEF SameRest
  <1> HIDE DEF y
  <1>9. SameRest(d, y)
    BY <1>8 DEF SameRest
  <1>10. ASSUME NEW b \in y.blocks
         PROVE  \/ b \in d.blocks
                \/ /\ \E r \in refs \cup {ref} : b.number = r.number /\ b.hash = r.hash
                   /\ b.finalized => \E o \in d.blocks : o.number = b.number /\ o.finalized
    <2>1. CASE b \in x.blocks
      BY <2>1 DEF BlocksFrom
    <2>2. CASE b = new
      <3>1. b.number = ref.number /\ b.hash = ref.hash
        BY <1>5, <2>2
      <3>2. ASSUME b.finalized PROVE \E o \in d.blocks : o.number = b.number /\ o.finalized
        <4>1. PICK o \in old : o.finalized
          BY <1>5, <2>2, <3>2
        <4>2. o \in x.blocks /\ o.number = b.number
          BY <1>7, <3>1
        <4> QED  BY <4>1, <4>2 DEF BlocksFrom
      <3> QED  BY <3>1, <3>2
    <2> QED  BY <1>6, <1>8, <2>1, <2>2
  <1>11. BlocksFrom(d, y, refs \cup {ref})
    BY <1>10 DEF BlocksFrom
  <1> QED  BY <1>1, <1>9, <1>11

Headed(d, refs) == FoldSet(LAMBDA ref, x : RecordBlock(x, ref), d, refs)

(* Recording all headers of a range, in any order.                         *)
LEMMA HeadedBlocks ==
    ASSUME NEW d, DbOK(d), NEW refs \in SUBSET Ref, IsFiniteSet(refs)
    PROVE  SameRest(d, Headed(d, refs)) /\ BlocksFrom(d, Headed(d, refs), refs)
  <1> DEFINE Reached(s, v) == s \subseteq refs /\ SameRest(d, v) /\ BlocksFrom(d, v, s)
             reached == {p \in (SUBSET refs) \X Db : Reached(p[1], p[2])}
  <1>1. \A s, v : <<s, v>> \in reached <=> Reached(s, v)
    BY DEF SameRest, DbOK
  <1>2. Reached({}, d)
    BY DEF SameRest, BlocksFrom
  <1>3. ASSUME NEW s \in SUBSET refs, NEW x \in s, NEW v, Reached(s \ {x}, v)
        PROVE  Reached(s, Recorded(x, v))
    <2>1. x \in Ref /\ (s \ {x}) \cup {x} = s
      OBVIOUS
    <2>2. SameRest(d, RecordBlock(v, x)) /\ BlocksFrom(d, RecordBlock(v, x), (s \ {x}) \cup {x})
      BY <1>3, <2>1, RecordBlockTypes
    <2> QED  BY <2>1, <2>2 DEF Recorded
  <1> HIDE DEF reached, Reached
  <1>4. <<{}, d>> \in reached
    BY <1>1, <1>2
  <1>5. \A s \in SUBSET refs : \A x \in s : \A v :
           <<s \ {x}, v>> \in reached => <<s, Recorded(x, v)>> \in reached
    BY <1>1, <1>3
  <1>6. <<refs, B!SetFolded(d, refs)>> \in reached
    <2>1. B!IsFiniteSet(refs)
      BY Copies
    <2> QED  BY <1>4, <1>5, <2>1, B!FoldSetReaches
  <1>7. B!SetFolded(d, refs) = Headed(d, refs)
    BY DEF Headed, Recorded, B!SetFolded, B!FoldSet, B!MapThenFoldSet, FoldSet, MapThenFoldSet
  <1> QED  BY <1>1, <1>6, <1>7 DEF Reached

-----------------------------------------------------------------------------
(* The logs of a range                                                     *)

(* Launches come first, and no log is lost or doubled.                     *)
LEMMA LaunchesFirstOrder ==
    ASSUME NEW logs \in Seq(Event)
    PROVE  LET s == LaunchesFirst(logs)
           IN  /\ s \in Seq(Event) /\ ToSet(s) = ToSet(logs)
               /\ \A j \in 1 .. Len(s) : s[j].source # "factory" =>
                    \A e \in ToSet(logs) : e.source = "factory" => \E i \in 1 .. j - 1 : s[i] = e
  <1> DEFINE launches == {e \in ToSet(logs) : e.source = "factory"}
             rest == ToSet(logs) \ launches
             f == Kept(logs, launches)
             r == Kept(logs, rest)
             s == LaunchesFirst(logs)
  <1>1. s = f \o r
    BY DEF LaunchesFirst
  <1>2. f \in Seq(Event) /\ ToSet(f) = ToSet(logs) \cap launches
    BY KeptMembers
  <1>3. r \in Seq(Event) /\ ToSet(r) = ToSet(logs) \cap rest
    BY KeptMembers
  <1>4. ToSet(f) = launches /\ ToSet(r) = rest
    BY <1>2, <1>3
  <1>10. launches \cup rest = ToSet(logs)
    OBVIOUS
  <1>11. \A e \in launches : e.source = "factory"
    OBVIOUS
  <1>12. \A e \in ToSet(logs) : e.source = "factory" => e \in launches
    OBVIOUS
  <1> HIDE DEF f, r, s, launches, rest
  <1>5. s \in Seq(Event) /\ ToSet(s) = ToSet(logs)
    <2>1. s \in Seq(Event) /\ B!ToSet(s) = B!ToSet(f) \cup B!ToSet(r)
      BY <1>1, <1>2, <1>3, B!JoinedMembers
    <2>2. B!ToSet(s) = ToSet(s) /\ B!ToSet(f) = ToSet(f) /\ B!ToSet(r) = ToSet(r)
      BY Copies
    <2> QED  BY <1>4, <1>10, <2>1, <2>2
  <1>6. /\ Len(f) \in Nat /\ Len(r) \in Nat /\ Len(s) = Len(f) + Len(r)
        /\ \A i \in 1 .. Len(f) : s[i] = f[i] /\ f[i] \in ToSet(f)
        /\ DOMAIN f = 1 .. Len(f)
    BY <1>1, <1>2, <1>3 DEF ToSet
  <1>7. ASSUME NEW j \in 1 .. Len(s), s[j].source # "factory", NEW e \in ToSet(logs), e.source = "factory"
        PROVE  \E i \in 1 .. j - 1 : s[i] = e
    <2>1. j > Len(f)
      BY <1>4, <1>6, <1>7, <1>11
    <2>2. e \in ToSet(f)
      BY <1>4, <1>7, <1>12
    <2>3. PICK i \in 1 .. Len(f) : f[i] = e
      BY <1>6, <2>2 DEF ToSet
    <2>4. i \in 1 .. j - 1
      BY <1>6, <2>1
    <2> QED  BY <1>6, <2>3, <2>4
  <1> QED  BY <1>5, <1>7 DEF s

(* The market of a database after some events.                             *)
IsLaunch(e) == e.source = "factory"
MarketFrom(d, x, events) ==
    IF HasMarket(d) \/ ~ \E e \in events : IsLaunch(e) THEN x.market = d.market
    ELSE \E e \in events : IsLaunch(e) /\ x.market = [launchedAt |-> e.block]

(* One more log, for what is known of the market's row.                    *)
LEMMA MarketFromAdds ==
    ASSUME NEW d, NEW x, NEW y, NEW es, NEW e \in Event, MarketFrom(d, x, es),
           y.market = MarketAfter(x, e)
    PROVE  MarketFrom(d, y, es \cup {e})
  <1>1. \A z : z.market = x.market => (HasMarket(z) <=> HasMarket(x))
    BY DEF HasMarket
  <1>2. CASE ~IsLaunch(e)
    <2>1. y.market = x.market
      BY <1>2 DEF MarketAfter, IsLaunch
    <2>2. \A g : g \in es \cup {e} /\ IsLaunch(g) => g \in es
      BY <1>2
    <2> QED  BY <2>1, <2>2 DEF MarketFrom
  <1>3. CASE IsLaunch(e) /\ HasMarket(x)
    <2>1. y.market = x.market
      BY <1>3 DEF MarketAfter
    <2>2. CASE HasMarket(d)
      BY <2>1, <2>2 DEF MarketFrom
    <2>3. CASE ~HasMarket(d)
      <3>1. \E g \in es : IsLaunch(g)
        BY <1>1, <1>3, <2>3 DEF MarketFrom, HasMarket
      <3> QED  BY <2>1, <2>3, <3>1 DEF MarketFrom
    <2> QED  BY <2>2, <2>3
  <1>4. CASE IsLaunch(e) /\ ~HasMarket(x)
    <2>1. y.market = [launchedAt |-> e.block]
      BY <1>4 DEF MarketAfter, IsLaunch
    <2>2. ~HasMarket(d)
      BY <1>4 DEF MarketFrom, HasMarket
    <2> QED  BY <1>4, <2>1, <2>2 DEF MarketFrom
  <1> QED  BY <1>2, <1>3, <1>4

TablesIn(events) == UNION {TablesOf(e) : e \in events}

HandledLogs(d, k, logs) == FoldLeft(HandleLog, [db |-> d, known |-> k], LaunchesFirst(logs)).db

(* Handling a range's logs adds exactly their rows, provided the           *)
(* transaction is not refused.                                             *)
LEMMA LogsHandled ==
    ASSUME NEW d, DbOK(d), NEW k \in BOOLEAN, NEW logs \in Seq(Event)
    PROVE  LET x == HandledLogs(d, k, logs)
           IN  /\ DbOK(x) /\ SameBlocks(d, x)
               /\ Accepted(x) /\ Understood(logs, k) =>
                     Gains(d, x, KeysIn(logs)) /\ MarketFrom(d, x, ToSet(logs))
  <1> DEFINE s == LaunchesFirst(logs)
             n == Len(s)
             First(i) == {s[j] : j \in 1 .. i}
             OK == Understood(logs, k)
             start == [db |-> d, known |-> k]
             Reached(i, v) ==
               /\ v \in Tx /\ DbOK(v.db) /\ SameBlocks(d, v.db)
               /\ k => v.known
               /\ Accepted(v.db) /\ (\E e \in First(i) : IsLaunch(e)) => v.known
               /\ Accepted(v.db) /\ OK => Gains(d, v.db, TablesIn(First(i))) /\ MarketFrom(d, v.db, First(i))
             reached == {p \in (0 .. n) \X Tx : Reached(p[1], p[2])}
  <1>1. /\ s \in Seq(Event) /\ ToSet(s) = ToSet(logs)
        /\ \A j \in 1 .. Len(s) : s[j].source # "factory" =>
             \A e \in ToSet(logs) : e.source = "factory" => \E i \in 1 .. j - 1 : s[i] = e
    BY LaunchesFirstOrder
  <1>2. n \in Nat /\ DOMAIN s = 1 .. n
    BY <1>1
  <1>3. \A i \in 0 .. n, v \in Tx : <<i, v>> \in reached <=> Reached(i, v)
    OBVIOUS
  <1>4. \A i, v : <<i, v>> \in reached => i \in 0 .. n /\ v \in Tx /\ Reached(i, v)
    OBVIOUS
  <1>5. start \in Tx /\ start.db = d /\ start.known = k
    BY DEF Tx, DbOK
  <1>6. Reached(0, start)
    <2>1. First(0) = {} /\ TablesIn({}) = {}
      BY DEF TablesIn
    <2>2. Gains(d, d, {}) /\ SameBlocks(d, d) /\ MarketFrom(d, d, {})
      BY GainsNothing DEF SameBlocks, MarketFrom
    <2> HIDE DEF start, First
    <2> QED  BY <1>5, <2>1, <2>2
  <1>7. ASSUME NEW i \in 1 .. n, NEW v \in Tx, Reached(i - 1, v)
        PROVE  HandleLog(v, s[i]) \in Tx /\ Reached(i, HandleLog(v, s[i]))
    <2> DEFINE e == s[i]
               w == HandleLog(v, e)
               before == First(i - 1)
    <2>1. e \in Event /\ e \in ToSet(logs)
      BY <1>1, <1>2 DEF ToSet
    <2>2. First(i) = before \cup {e}
      <3>1. \A j : j \in 1 .. i <=> j \in 1 .. i - 1 \/ j = i
        BY <1>2
      <3> QED  BY <3>1
    <2>3. /\ v \in Tx /\ DbOK(v.db) /\ SameBlocks(d, v.db)
          /\ k => v.known
          /\ Accepted(v.db) /\ (\E g \in before : IsLaunch(g)) => v.known
          /\ Accepted(v.db) /\ OK => Gains(d, v.db, TablesIn(before)) /\ MarketFrom(d, v.db, before)
      BY <1>7
    <2>4. TablesIn(before \cup {e}) = TablesIn(before) \cup TablesOf(e)
      BY DEF TablesIn
    <2>5. ASSUME ~IsLaunch(e), LaunchedIn(logs) PROVE \E g \in before : IsLaunch(g)
      <3>1. PICK g \in ToSet(logs) : g.kind = "TokenLaunched"
        BY <2>5, LaunchedMembers
      <3>2. g \in Event
        BY <3>1 DEF ToSet
      <3>3. IsLaunch(g)
        BY <3>1, <3>2, EventFields DEF IsLaunch
      <3>4. PICK j \in 1 .. i - 1 : s[j] = g
        BY <1>1, <2>5, <3>1, <3>3 DEF IsLaunch
      <3> QED  BY <3>3, <3>4
    <2>6. w = IF Accepted(v.db) /\ (e.source \in {"factory", "registry"} \/ v.known)
              THEN [db |-> DbAfter(v.db, e), known |-> v.known \/ e.source = "factory"]
              ELSE v
      BY <2>1, <2>3, HandleLogIs
    <2>7. Handled(v.db, e, DbAfter(v.db, e))
      BY <2>1, <2>3, DbAfterHandles
    <2>8. OK => k \/ LaunchedIn(logs) \/ TablesOf(e) = {}
      BY <2>1 DEF Understood, KeysIn
    <2> HIDE DEF First, before, e, w, OK, s, n
    <2>9. CASE Accepted(v.db) /\ (e.source \in {"factory", "registry"} \/ v.known)
      <3> DEFINE x == DbAfter(v.db, e)
      <3>1. w = [db |-> x, known |-> v.known \/ e.source = "factory"]
        BY <2>6, <2>9
      <3>2. DbOK(x) /\ Gains(v.db, x, TablesOf(e)) /\ x.market = MarketAfter(v.db, e)
        BY <2>7 DEF Handled
      <3> HIDE DEF x
      <3>3. w \in Tx /\ w.db = x /\ (w.known <=> v.known \/ IsLaunch(e))
        BY <2>3, <3>1, <3>2 DEF Tx, DbOK, IsLaunch
      <3>4. SameBlocks(d, x)
        BY <2>3, <3>2 DEF Gains, SameBlocks
      <3>5. ASSUME OK PROVE Gains(d, x, TablesIn(First(i))) /\ MarketFrom(d, x, First(i))
        <4>1. Gains(d, v.db, TablesIn(before)) /\ MarketFrom(d, v.db, before)
          BY <2>3, <2>9, <3>5
        <4>2. Gains(d, x, TablesIn(before) \cup TablesOf(e))
          BY <3>2, <4>1, GainsAdd
        <4>3. MarketFrom(d, x, before \cup {e})
          BY <2>1, <3>2, <4>1, MarketFromAdds
        <4> QED  BY <2>2, <2>4, <4>2, <4>3
      <3>6. (\E g \in First(i) : IsLaunch(g)) => w.known
        BY <2>2, <2>3, <2>9, <3>3
      <3> QED  BY <2>3, <3>2, <3>3, <3>4, <3>5, <3>6 DEF w, e
    <2>10. CASE ~Accepted(v.db)
      <3>1. w = v
        BY <2>6, <2>10
      <3> QED  BY <2>3, <2>10, <3>1 DEF w, e
    <2>11. CASE Accepted(v.db) /\ ~(e.source \in {"factory", "registry"} \/ v.known)
      <3>1. w = v /\ ~IsLaunch(e)
        BY <2>6, <2>11 DEF IsLaunch
      <3>2. ~k /\ ~LaunchedIn(logs)
        BY <2>3, <2>5, <2>11, <3>1
      <3>3. ASSUME OK PROVE Gains(d, v.db, TablesIn(First(i))) /\ MarketFrom(d, v.db, First(i))
        <4>1. TablesOf(e) = {}
          BY <2>8, <3>2, <3>3
        <4>2. TablesIn(First(i)) = TablesIn(before)
          BY <2>2, <2>4, <4>1
        <4>3. v.db.market = MarketAfter(v.db, e)
          BY <3>1 DEF MarketAfter, IsLaunch
        <4> QED  BY <2>1, <2>2, <2>3, <2>11, <3>3, <4>2, <4>3, MarketFromAdds
      <3>4. ~ \E g \in First(i) : IsLaunch(g)
        BY <2>2, <2>3, <2>11, <3>1
      <3> QED  BY <2>3, <3>1, <3>3, <3>4 DEF w, e
    <2> QED  BY <2>9, <2>10, <2>11
  <1> HIDE DEF Reached, reached
  <1>8. <<0, start>> \in reached
    BY <1>2, <1>3, <1>5, <1>6
  <1>9. ASSUME NEW i \in 1 .. Len(s), NEW v, <<i - 1, v>> \in reached
        PROVE  <<i, HandleLog(v, s[i])>> \in reached
    <2>1. i \in 0 .. n /\ i \in 1 .. n /\ v \in Tx /\ Reached(i - 1, v)
      BY <1>2, <1>4, <1>9
    <2> QED  BY <1>3, <1>7, <2>1
  <1> HIDE DEF s, start
  <1>10. <<Len(s), H!Folded(start, s)>> \in reached
    BY <1>1, <1>8, <1>9, H!FoldLeftReaches
  <1>11. H!Folded(start, s) = FoldLeft(HandleLog, start, s)
    BY DEF H!Folded, H!FoldLeft, H!MapThenFoldSet, H!Max, FoldLeft, MapThenFoldSet, Max
  <1>12. Reached(Len(s), FoldLeft(HandleLog, start, s))
    BY <1>4, <1>10, <1>11
  <1>13. TablesIn(First(Len(s))) = KeysIn(logs) /\ First(Len(s)) = ToSet(logs)
    <2>1. First(Len(s)) = ToSet(s)
      BY <1>2 DEF ToSet
    <2> HIDE DEF First
    <2> QED  BY <1>1, <2>1 DEF TablesIn, KeysIn
  <1>14. HandledLogs(d, k, logs) = FoldLeft(HandleLog, start, s).db
    BY DEF HandledLogs, start, s
  <1> HIDE DEF First
  <1> QED  BY <1>12, <1>13, <1>14 DEF Reached

-----------------------------------------------------------------------------
(* The transaction of a range                                              *)

(* Setting the cursor changes nothing else.                                *)
LEMMA CursorMoves ==
    ASSUME NEW d, DbOK(d), NEW n \in Nat
    PROVE  LET x == SetCursor(d, n)
           IN  /\ DbOK(x) /\ x.cursor = n
               /\ x.blocks = d.blocks /\ x.rows = d.rows /\ x.market = d.market
               /\ Accepted(x) <=> Accepted(d)
  <1> DEFINE x == [d EXCEPT !.cursor = n]
  <1>1. SetCursor(d, n) = x
    BY DEF SetCursor
  <1>2. /\ DbOK(x) /\ x.cursor = n
        /\ x.blocks = d.blocks /\ x.rows = d.rows /\ x.market = d.market
    BY FieldTypes
  <1>3. x.balances = d.balances /\ x.commitment = d.commitment /\ x.state = d.state
    BY DEF DbOK, Db
  <1> HIDE DEF x
  <1>4. HasMarket(x) <=> HasMarket(d)
    BY <1>2 DEF HasMarket
  <1>5. Accepted(x) <=> Accepted(d)
    BY <1>2, <1>3, <1>4 DEF Accepted
  <1> QED  BY <1>1, <1>2, <1>5

(* Marking settled blocks marks those up to the height and no other.       *)
LEMMA FinalizedTypes ==
    ASSUME NEW d, DbOK(d), NEW n \in Int
    PROVE  LET x == MarkFinalized(d, n)
           IN  /\ DbOK(x) /\ x.cursor = d.cursor /\ x.rows = d.rows /\ x.market = d.market
               /\ \A b \in x.blocks : \E o \in d.blocks :
                    /\ o.number = b.number /\ o.hash = b.hash
                    /\ b.finalized => o.finalized \/ o.number <= n
               /\ Accepted(x) => Accepted(d)
  <1> DEFINE Mark(b) == IF b.number <= n THEN [b EXCEPT !.finalized = TRUE] ELSE b
             blocks == {Mark(b) : b \in d.blocks}
             x == [d EXCEPT !.blocks = blocks]
  <1>1. MarkFinalized(d, n) = x
    BY DEF MarkFinalized
  <1>2. d.blocks \in SUBSET Block
    BY DEF DbOK, Db
  <1>3. ASSUME NEW b \in d.blocks
        PROVE  /\ Mark(b) \in Block /\ Mark(b).number = b.number /\ Mark(b).hash = b.hash
               /\ Mark(b).finalized => b.finalized \/ b.number <= n
    <2>1. b \in Block
      BY <1>2
    <2>2. CASE b.number <= n
      BY <2>1, <2>2 DEF Block
    <2>3. CASE ~(b.number <= n)
      BY <2>1, <2>3
    <2> QED  BY <2>2, <2>3
  <1> HIDE DEF Mark
  <1>4. blocks \in SUBSET Block
    BY <1>3
  <1>5. ASSUME NEW b \in blocks
        PROVE  \E o \in d.blocks :
                    /\ o.number = b.number /\ o.hash = b.hash
                    /\ b.finalized => o.finalized \/ o.number <= n
    BY <1>3
  <1> HIDE DEF blocks
  <1>6. /\ DbOK(x) /\ x.cursor = d.cursor
        /\ x.blocks = blocks /\ x.rows = d.rows /\ x.market = d.market
    BY <1>4, FieldTypes
  <1>7. x.balances = d.balances /\ x.commitment = d.commitment /\ x.state = d.state
    BY DEF DbOK, Db
  <1> HIDE DEF x
  <1>8. HasMarket(x) <=> HasMarket(d)
    BY <1>6 DEF HasMarket
  <1>9. Accepted(x) => Accepted(d)
    <2> SUFFICES ASSUME Accepted(x) PROVE Accepted(d)
      OBVIOUS
    <2>1. ASSUME NEW r \in d.rows PROVE \E o \in d.blocks : o.number = r.block
      <3>1. PICK b \in blocks : b.number = r.block
        BY <1>6 DEF Accepted
      <3> QED  BY <1>5, <3>1
    <2>2. /\ \A a \in Accounts : d.balances[a] >= 0
          /\ d.rows # {} => HasMarket(d)
          /\ d.commitment.activated = NoBlock \/ d.commitment.cancelled = NoBlock
          /\ d.state.status = 2 => d.state.graduating # NoBlock
      BY <1>6, <1>7, <1>8 DEF Accepted
    <2> QED  BY <2>1, <2>2 DEF Accepted
  <1> QED  BY <1>1, <1>5, <1>6, <1>9

(* The blocks, rows and market a range's transaction leaves.               *)
BlocksOf(d, x, refs) ==
    \A b \in x.blocks : \E r \in d.blocks \cup refs : r.number = b.number /\ r.hash = b.hash
Settles(d, x, n) ==
    \A b \in x.blocks : b.finalized =>
        b.number <= n \/ \E o \in d.blocks : o.number = b.number /\ o.finalized
Records(d, x, logs) ==
    /\ d.rows \subseteq x.rows /\ Keys(x.rows) = Keys(d.rows) \cup KeysIn(logs)
    /\ \A r \in x.rows \ d.rows : Key(r) \notin Keys(d.rows)
    /\ MarketFrom(d, x, ToSet(logs))

(* The transaction of a range: its headers, its rows, its cursor, its      *)
(* settled blocks.                                                         *)
LEMMA TransactionRecords ==
    ASSUME DbOK(db), known \in BOOLEAN, NEW first \in Ref, NEW headers \in SUBSET Ref,
           IsFiniteSet(headers), NEW logs \in Seq(Event), NEW to \in Nat
    PROVE  LET x == Transaction(first, headers, logs, to)
           IN  /\ DbOK(x) /\ x.cursor = to
               /\ BlocksOf(db, x, {first} \cup headers)
               /\ Settles(db, x, Settled(to))
               /\ Accepted(x) /\ Understood(logs, known) => Records(db, x, logs)
  <1> DEFINE refs == {first} \cup headers
             headed == Headed(db, refs)
             y == HandledLogs(headed, known, logs)
             moved == SetCursor(y, to)
             x == Transaction(first, headers, logs, to)
  <1>1. x = IF Settled(to) > 0 THEN MarkFinalized(moved, Settled(to)) ELSE moved
    BY DEF Transaction, Headed, HandledLogs
  <1>2. refs \in SUBSET Ref /\ IsFiniteSet(refs)
    <2>1. refs = headers \cup {first}
      OBVIOUS
    <2>2. IsFiniteSet(headers \cup {first})
      BY FS_AddElement
    <2> QED  BY <2>1, <2>2
  <1> HIDE DEF refs
  <1>3. SameRest(db, headed) /\ BlocksFrom(db, headed, refs)
    BY <1>2, HeadedBlocks
  <1> HIDE DEF headed, x
  <1>4. /\ DbOK(y) /\ SameBlocks(headed, y)
        /\ Accepted(y) /\ Understood(logs, known) =>
             Gains(headed, y, KeysIn(logs)) /\ MarketFrom(headed, y, ToSet(logs))
    BY <1>3, LogsHandled DEF SameRest
  <1> HIDE DEF y
  <1>5. /\ DbOK(moved) /\ moved.cursor = to
        /\ moved.blocks = y.blocks /\ moved.rows = y.rows /\ moved.market = y.market
        /\ Accepted(moved) <=> Accepted(y)
    BY <1>4, CursorMoves
  <1> HIDE DEF moved
  <1>6. /\ DbOK(x) /\ x.cursor = to /\ x.rows = y.rows /\ x.market = y.market
        /\ \A b \in x.blocks : \E o \in headed.blocks :
             /\ o.number = b.number /\ o.hash = b.hash
             /\ b.finalized => o.finalized \/ o.number <= Settled(to)
        /\ Accepted(x) => Accepted(y)
    <2>1. Settled(to) \in Int
      BY IndexerAssumption DEF Settled
    <2>2. CASE Settled(to) > 0
      <3>1. x = MarkFinalized(moved, Settled(to))
        BY <1>1, <2>2
      <3>2. /\ DbOK(x) /\ x.cursor = moved.cursor /\ x.rows = moved.rows /\ x.market = moved.market
            /\ \A b \in x.blocks : \E o \in moved.blocks :
                 /\ o.number = b.number /\ o.hash = b.hash
                 /\ b.finalized => o.finalized \/ o.number <= Settled(to)
            /\ Accepted(x) => Accepted(moved)
        BY <1>5, <2>1, <3>1, FinalizedTypes
      <3>3. moved.blocks = headed.blocks
        BY <1>4, <1>5 DEF SameBlocks
      <3> QED  BY <1>5, <3>2, <3>3
    <2>3. CASE ~(Settled(to) > 0)
      BY <1>1, <1>4, <1>5, <2>3 DEF SameBlocks
    <2> QED  BY <2>2, <2>3
  <1>7. BlocksOf(db, x, refs)
    BY <1>3, <1>6 DEF BlocksFrom, BlocksOf
  <1>8. Settles(db, x, Settled(to))
    <2> SUFFICES ASSUME NEW b \in x.blocks, b.finalized, ~(b.number <= Settled(to))
                 PROVE  \E o \in db.blocks : o.number = b.number /\ o.finalized
      BY DEF Settles
    <2>1. PICK h \in headed.blocks : h.number = b.number /\ h.finalized
      BY <1>6
    <2>2. h \in db.blocks \/ \E old \in db.blocks : old.number = h.number /\ old.finalized
      BY <1>3, <2>1 DEF BlocksFrom
    <2> QED  BY <2>1, <2>2
  <1>9. ASSUME Accepted(x), Understood(logs, known) PROVE Records(db, x, logs)
    <2>1. Gains(headed, y, KeysIn(logs)) /\ MarketFrom(headed, y, ToSet(logs))
      BY <1>4, <1>6, <1>9
    <2>2. headed.rows = db.rows /\ headed.market = db.market
      BY <1>3 DEF SameRest
    <2>3. HasMarket(headed) <=> HasMarket(db)
      BY <2>2 DEF HasMarket
    <2>4. MarketFrom(db, x, ToSet(logs))
      BY <1>6, <2>1, <2>2, <2>3 DEF MarketFrom
    <2>5. /\ db.rows \subseteq x.rows /\ Keys(x.rows) = Keys(db.rows) \cup KeysIn(logs)
          /\ \A r \in x.rows \ db.rows : Key(r) \notin Keys(db.rows)
      BY <1>6, <2>1, <2>2 DEF Gains
    <2> QED  BY <2>4, <2>5 DEF Records
  <1> QED  BY <1>6, <1>7, <1>8, <1>9 DEF x, refs

-----------------------------------------------------------------------------
(* What a rollback leaves                                                  *)

ValueAdded(r, v) == r.val[2] + v
V == INSTANCE FoldProofs WITH Op <- ValueAdded

(* A sum of deltas is an integer.                                          *)
LEMMA DeltasAddUp ==
    ASSUME NEW S, IsFiniteSet(S), \A r \in S : r.val[2] \in Int
    PROVE  MapThenSumSet(LAMBDA r : r.val[2], S) \in Int
  <1> DEFINE reached == (SUBSET S) \X Int
  <1>1. <<{}, 0>> \in reached
    OBVIOUS
  <1>2. \A s \in SUBSET S : \A x \in s : \A v :
           <<s \ {x}, v>> \in reached => <<s, ValueAdded(x, v)>> \in reached
    <2> SUFFICES ASSUME NEW s \in SUBSET S, NEW x \in s, NEW v, <<s \ {x}, v>> \in reached
                 PROVE  <<s, ValueAdded(x, v)>> \in reached
      OBVIOUS
    <2>1. x.val[2] \in Int /\ v \in Int
      OBVIOUS
    <2> QED  BY <2>1 DEF ValueAdded
  <1> HIDE DEF reached
  <1>3. V!IsFiniteSet(S)
    BY DEF IsFiniteSet, V!IsFiniteSet
  <1>4. <<S, V!SetFolded(0, S)>> \in reached
    BY <1>1, <1>2, <1>3, V!FoldSetReaches
  <1>5. V!SetFolded(0, S) = MapThenSumSet(LAMBDA r : r.val[2], S)
    BY DEF ValueAdded, V!SetFolded, V!FoldSet, V!MapThenFoldSet, MapThenSumSet, MapThenFoldSet
  <1> QED  BY <1>4, <1>5 DEF reached

(* The last trade of a set of them.                                        *)
TradeRow == [table : {"trades"}, block : Nat, log : Nat, val : Int \X Int]
IsLatest(S, r) == r \in S /\ \A s \in S \ {r} : Later(r, s)

(* Finitely many trades have a latest one.                                 *)
LEMMA LatestExists ==
    ASSUME NEW S \in SUBSET TradeRow, IsFiniteSet(S), S # {},
           \A r, s \in S : Key(r) = Key(s) => r = s
    PROVE  \E r \in S : IsLatest(S, r)
  <1> DEFINE Fine == {s \in SUBSET S : s = {} \/ \E r \in s : IsLatest(s, r)}
  <1>1. {} \in Fine
    OBVIOUS
  <1>2. ASSUME NEW r \in S, NEW s \in S, r # s PROVE Later(r, s) \/ Later(s, r)
    <2>1. Key(r) # Key(s) /\ r \in TradeRow /\ s \in TradeRow
      BY <1>2
    <2>2. r.block # s.block \/ r.log # s.log
      BY <2>1 DEF Key, TradeRow
    <2>3. r.block \in Nat /\ s.block \in Nat /\ r.log \in Nat /\ s.log \in Nat
      BY <2>1 DEF TradeRow
    <2> QED  BY <2>2, <2>3 DEF Later
  <1>3. ASSUME NEW r \in S, NEW s \in S, NEW t \in S, Later(r, s), Later(s, t) PROVE Later(r, t)
    <2>1. /\ r.block \in Nat /\ s.block \in Nat /\ t.block \in Nat
          /\ r.log \in Nat /\ s.log \in Nat /\ t.log \in Nat
      BY DEF TradeRow
    <2> QED  BY <1>3, <2>1 DEF Later
  <1>4. ASSUME NEW s \in SUBSET S, s # {}, s \ {B!Taken(s)} \in Fine PROVE s \in Fine
    <2> DEFINE x == B!Taken(s)
               rest == s \ {x}
    <2>1. x \in s
      <3>1. B!IsFiniteSet(S)
        BY Copies
      <3> QED  BY <1>4, <3>1, B!TakenLeavesOneLess
    <2> HIDE DEF x
    <2>2. CASE rest = {}
      <3>1. IsLatest(s, x)
        BY <2>1, <2>2 DEF IsLatest
      <3> QED  BY <2>1, <3>1
    <2>3. CASE rest # {}
      <3>1. PICK r \in rest : IsLatest(rest, r)
        BY <1>4, <2>3 DEF x
      <3>2. r \in S /\ x \in S /\ r # x
        BY <2>1
      <3>3. CASE Later(r, x)
        <4>1. IsLatest(s, r)
          BY <3>1, <3>2, <3>3 DEF IsLatest
        <4> QED  BY <3>1, <4>1
      <3>4. CASE Later(x, r)
        <4>1. ASSUME NEW t \in s \ {x} PROVE Later(x, t)
          <5>1. CASE t = r
            BY <3>4, <5>1
          <5>2. CASE t # r
            <6>1. Later(r, t) /\ t \in S
              BY <3>1, <5>2 DEF IsLatest
            <6> QED  BY <1>3, <3>2, <3>4, <6>1
          <5> QED  BY <5>1, <5>2
        <4>2. IsLatest(s, x)
          BY <2>1, <4>1 DEF IsLatest
        <4> QED  BY <2>1, <4>2
      <3> QED  BY <1>2, <3>2, <3>3, <3>4
    <2> QED  BY <2>2, <2>3
  <1> HIDE DEF Fine
  <1>5. S \in Fine
    <2>1. B!IsFiniteSet(S)
      BY Copies
    <2>2. SUBSET S \subseteq Fine
      BY <1>1, <1>4, <2>1, B!PartsByTaking
    <2> QED  BY <2>2
  <1> QED  BY <1>5 DEF Fine

(* The trade RecomputeState restores from is one that survived.            *)
LEMMA LatestTradeIsTrade ==
    ASSUME NEW d, DbOK(d), TradeRows(d) # {}
    PROVE  LatestTrade(d).val \in Int \X Int
  <1>1. TradeRows(d) \subseteq d.rows /\ \A r \in TradeRows(d) : r.table = "trades" /\ r \in DbRow
    BY DEF TradeRows, DbOK, Db
  <1>2. TradeRows(d) \in SUBSET TradeRow
    BY <1>1 DEF DbRow, TradeRow, TablesWithoutValue
  <1>3. IsFiniteSet(TradeRows(d)) /\ \A r, s \in TradeRows(d) : Key(r) = Key(s) => r = s
    BY <1>1, FS_Subset DEF DbOK
  <1>4. \E r \in TradeRows(d) : IsLatest(TradeRows(d), r)
    BY <1>2, <1>3, LatestExists
  <1>5. LatestTrade(d) \in TradeRows(d)
    BY <1>4 DEF LatestTrade, IsLatest
  <1> QED  BY <1>2, <1>5 DEF TradeRow

(* What an update of one field leaves alone.                               *)
LEMMA OtherFields ==
    ASSUME NEW d, DbOK(d), NEW x
    PROVE  /\ LET y == [d EXCEPT !.balances = x]
              IN  y.balances = x /\ y.commitment = d.commitment /\ y.state = d.state
           /\ LET y == [d EXCEPT !.commitment = x]
              IN  y.commitment = x /\ y.state = d.state
           /\ LET y == [d EXCEPT !.state = x]
              IN  y.state = x /\ y.commitment = d.commitment
           /\ LET y == [d EXCEPT !.cursor = x]
              IN  y.commitment = d.commitment /\ y.state = d.state
           /\ LET y == [d EXCEPT !.blocks = x]
              IN  y.commitment = d.commitment /\ y.state = d.state
           /\ LET y == [d EXCEPT !.asset = x]
              IN  y.commitment = d.commitment /\ y.state = d.state
  BY DEF DbOK, Db

(* Everything Accepted asks for but the balances.                          *)
Sound(d) ==
    /\ d.rows # {} => HasMarket(d)
    /\ \A r \in d.rows : \E b \in d.blocks : b.number = r.block
    /\ d.commitment.activated = NoBlock \/ d.commitment.cancelled = NoBlock
    /\ d.state.status = 2 => d.state.graduating # NoBlock

(* The database before the first block.                                    *)
LEMMA EmptyDbTypes ==
    DbOK(EmptyDb) /\ Accepted(EmptyDb) /\ EmptyDb.cursor = 0 /\ EmptyDb.blocks = {} /\ EmptyDb.rows = {}
    /\ EmptyDb.market = NoMarket /\ ~HasMarket(EmptyDb) /\ Sound(EmptyDb)
  <1>1. NoState \in State /\ NoState.status = 0
    BY DEF NoState, State, NoBlock
  <1>2. NoMarket \in [launchedAt : Nat]
    BY DEF NoMarket, NoBlock
  <1> DEFINE marks == [submitted |-> NoBlock, activated |-> NoBlock, cancelled |-> NoBlock]
             none == [a \in Accounts |-> 0]
  <1>3. marks \in [submitted : Nat, activated : Nat, cancelled : Nat] /\ marks.activated = NoBlock
    BY DEF NoBlock
  <1>4. none \in [Accounts -> Int] /\ \A a \in Accounts : none[a] >= 0
    OBVIOUS
  <1>5. /\ EmptyDb.cursor = 0 /\ EmptyDb.blocks = {} /\ EmptyDb.market = NoMarket
        /\ EmptyDb.state = NoState /\ EmptyDb.rows = {} /\ EmptyDb.balances = none
        /\ EmptyDb.commitment = marks
    BY DEF EmptyDb
  <1>6. EmptyDb \in Db
    <2> HIDE DEF marks, none
    <2>1. EmptyDb = [cursor |-> 0, blocks |-> {}, market |-> NoMarket, state |-> NoState, rows |-> {},
                     balances |-> none, commitment |-> marks, excluded |-> {}, asset |-> "none"]
      BY DEF EmptyDb, marks, none
    <2> QED  BY <1>1, <1>2, <1>3, <1>4, <2>1 DEF Db
  <1> HIDE DEF marks, none
  <1>7. IsFiniteSet({})
    BY FS_EmptySet
  <1> QED  BY <1>1, <1>3, <1>4, <1>5, <1>6, <1>7 DEF DbOK, Accepted, HasMarket, Sound

(* What deleting blocks takes along: the rows above, or all of a market    *)
(* that goes.                                                              *)
LEMMA CascadeTypes ==
    ASSUME NEW d, DbOK(d), Accepted(d), NEW n \in Nat
    PROVE  LET x == CascadeAbove(d, n)
           IN  /\ DbOK(x) /\ Sound(x) /\ x.cursor = d.cursor
               /\ x.blocks = {b \in d.blocks : b.number <= n}
               /\ x.rows = IF d.market.launchedAt <= n THEN {r \in d.rows : r.block <= n} ELSE {}
               /\ x.market = IF d.market.launchedAt <= n THEN d.market ELSE NoMarket
  <1> DEFINE blocks == {b \in d.blocks : b.number <= n}
             rows == {r \in d.rows : r.block <= n}
             m == [d EXCEPT !.blocks = blocks]
             left == [m EXCEPT !.rows = rows]
             marks == CommitmentUpTo(d.commitment, n)
             x == CascadeAbove(d, n)
  <1>1. x = IF d.market.launchedAt <= n THEN [left EXCEPT !.commitment = marks]
            ELSE [EmptyDb EXCEPT !.cursor = d.cursor, !.blocks = left.blocks, !.asset = d.asset]
    <2>1. [d EXCEPT !.blocks = blocks, !.rows = rows] = left
      OBVIOUS
    <2>2. left.commitment = d.commitment
      BY DEF DbOK, Db
    <2> QED  BY <2>1, <2>2 DEF CascadeAbove
  <1>2. blocks \in SUBSET Block
    BY DEF DbOK, Db
  <1>3. /\ \A r \in rows : r \in d.rows /\ \E b \in blocks : b.number = r.block
        /\ rows \subseteq d.rows
    BY DEF Accepted
  <1> HIDE DEF blocks, rows, x
  <1>4. /\ DbOK(m) /\ m.blocks = blocks /\ m.cursor = d.cursor /\ m.rows = d.rows /\ m.market = d.market
    BY <1>2, FieldTypes
  <1>5. m.commitment = d.commitment /\ m.state = d.state
    BY DEF DbOK, Db
  <1> HIDE DEF m
  <1>6. DbOK(left)
    <2>1. left \in Db /\ left.rows = rows
      BY <1>3, <1>4 DEF DbOK, Db
    <2>2. IsFiniteSet(rows) /\ \A r, s \in rows : Key(r) = Key(s) => r = s
      BY <1>3, FS_Subset DEF DbOK
    <2> HIDE DEF left
    <2> QED  BY <2>1, <2>2 DEF DbOK
  <1>7. /\ left.blocks = blocks /\ left.cursor = d.cursor /\ left.rows = rows
        /\ left.market = d.market /\ left.state = d.state
    BY <1>4, <1>5 DEF DbOK, Db
  <1> HIDE DEF left
  <1>8. CASE d.market.launchedAt <= n
    <2> DEFINE y == [left EXCEPT !.commitment = marks]
    <2>1. d.commitment \in [submitted : Nat, activated : Nat, cancelled : Nat]
          /\ (d.commitment.activated = NoBlock \/ d.commitment.cancelled = NoBlock)
      BY DEF DbOK, Db, Accepted
    <2>2. marks \in [submitted : Nat, activated : Nat, cancelled : Nat]
          /\ (marks.activated = NoBlock \/ marks.cancelled = NoBlock)
      BY <2>1 DEF CommitmentUpTo, NoBlock, EmptyDb
    <2> HIDE DEF marks
    <2>8. DbOK(y) /\ SameTables(left, y)
      BY <1>6, <2>2, FieldTypes
    <2>3. DbOK(y) /\ SameTables(left, y) /\ y.commitment = marks /\ y.state = left.state
      BY <1>6, <2>8, OtherFields
    <2> HIDE DEF y
    <2>4. HasMarket(y) <=> HasMarket(d)
      BY <1>7, <2>3 DEF SameTables, HasMarket
    <2>5. Sound(y)
      BY <1>3, <1>7, <2>2, <2>3, <2>4 DEF Sound, SameTables, SameBlocks, Accepted
    <2>6. x = y
      BY <1>1, <1>8 DEF y
    <2>7. DbOK(x) /\ Sound(x) /\ SameTables(left, x)
      BY <2>3, <2>5, <2>6
    <2> QED  BY <1>7, <1>8, <2>7 DEF x, blocks, rows, SameTables, SameBlocks
  <1>9. CASE ~(d.market.launchedAt <= n)
    <2> DEFINE e1 == [EmptyDb EXCEPT !.cursor = d.cursor]
               e2 == [e1 EXCEPT !.blocks = blocks]
               e3 == [e2 EXCEPT !.asset = d.asset]
    <2>1. x = e3
      BY <1>1, <1>7, <1>9
    <2>2. d.cursor \in Nat /\ d.asset \in {"none", "registered"}
      BY DEF DbOK, Db
    <2>7. DbOK(EmptyDb) /\ EmptyDb.rows = {} /\ EmptyDb.market = NoMarket
      BY EmptyDbTypes
    <2>3. /\ DbOK(e1) /\ e1.cursor = d.cursor /\ e1.rows = {} /\ e1.market = NoMarket
          /\ e1.commitment = EmptyDb.commitment /\ e1.state = EmptyDb.state
      <3>1. PICK d0 : d0 = EmptyDb
        OBVIOUS
      <3> DEFINE f1 == [d0 EXCEPT !.cursor = d.cursor]
      <3>2. DbOK(d0)
        BY <2>7, <3>1
      <3>3. DbOK(f1) /\ f1.rows = d0.rows /\ f1.market = d0.market /\ f1.cursor = d.cursor
        BY <2>2, <3>2, FieldTypes
      <3>4. f1.commitment = d0.commitment /\ f1.state = d0.state
        BY <3>2, OtherFields
      <3>5. e1 = f1
        BY <3>1
      <3> HIDE DEF f1, e1
      <3>6. f1.rows = {} /\ f1.market = NoMarket
        BY <2>7, <3>1, <3>3
      <3> QED  BY <3>1, <3>3, <3>4, <3>5, <3>6
    <2> HIDE DEF e1
    <2>4. /\ DbOK(e2) /\ e2.cursor = d.cursor /\ e2.rows = {} /\ e2.market = NoMarket
          /\ e2.blocks = blocks /\ e2.commitment = EmptyDb.commitment /\ e2.state = EmptyDb.state
      <3>1. /\ DbOK(e2) /\ e2.cursor = d.cursor /\ e2.rows = {} /\ e2.market = NoMarket
            /\ e2.blocks = blocks
        BY <1>2, <2>3, FieldTypes
      <3> QED  BY <2>3, <3>1, OtherFields
    <2> HIDE DEF e2
    <2>5. /\ DbOK(e3) /\ SameTables(e2, e3)
          /\ e3.commitment = EmptyDb.commitment /\ e3.state = EmptyDb.state
      <3>1. DbOK(e3) /\ SameTables(e2, e3)
        BY <2>2, <2>4, FieldTypes
      <3> QED  BY <2>4, <3>1, OtherFields
    <2> HIDE DEF e3
    <2>6. Sound(e3)
      BY <2>4, <2>5, EmptyDbTypes DEF Sound, SameTables, SameBlocks
    <2> QED  BY <1>9, <2>1, <2>4, <2>5, <2>6 DEF x, blocks, SameTables, SameBlocks
  <1> QED  BY <1>8, <1>9

(* Computing the state again leaves the tables alone.                      *)
LEMMA RecomputeTypes ==
    ASSUME NEW d, DbOK(d), Sound(d), NEW n \in Nat
    PROVE  LET x == RecomputeState(d, n)
           IN  DbOK(x) /\ Sound(x) /\ SameTables(d, x)
  <1> DEFINE x == RecomputeState(d, n)
             s == d.state
  <1>1. s \in State
    BY DEF DbOK, Db
  <1>2. ASSUME NEW new \in State, new.status = 2 => new.graduating # NoBlock
        PROVE  LET y == [d EXCEPT !.state = new]
               IN  DbOK(y) /\ Sound(y) /\ SameTables(d, y)
    <2> DEFINE y == [d EXCEPT !.state = new]
    <2>1. DbOK(y) /\ SameTables(d, y) /\ y.commitment = d.commitment /\ y.state = new
      <3>1. DbOK(y) /\ SameTables(d, y)
        BY <1>2, FieldTypes
      <3>2. y.commitment = d.commitment /\ y.state = new
        BY OtherFields
      <3> QED  BY <3>1, <3>2
    <2> HIDE DEF y
    <2>2. Sound(y)
      BY <1>2, <2>1 DEF Sound, SameTables, SameBlocks, HasMarket
    <2> QED  BY <2>1, <2>2 DEF y
  <1>3. s.status = 2 => s.graduating # NoBlock
    BY DEF Sound
  <1>4. CASE ~HasMarket(d)
    BY <1>4 DEF RecomputeState, SameTables, SameBlocks
  <1>5. CASE HasMarket(d) /\ TradeRows(d) = {}
    <2> DEFINE s1 == [s EXCEPT !.distributed = 0]
               s2 == [s1 EXCEPT !.collateral = 0]
               s3 == [s2 EXCEPT !.trades = 0]
    <2>1. x = [d EXCEPT !.state = s3]
      BY <1>5 DEF RecomputeState
    <2>3. s1 \in State /\ s1.status = s.status /\ s1.graduating = s.graduating
      BY <1>1 DEF State
    <2> HIDE DEF s1
    <2>4. s2 \in State /\ s2.status = s.status /\ s2.graduating = s.graduating
      BY <2>3 DEF State
    <2> HIDE DEF s2
    <2>2. s3 \in State /\ s3.status = s.status /\ s3.graduating = s.graduating
      BY <2>4 DEF State
    <2> HIDE DEF s3, s
    <2> QED  BY <1>2, <1>3, <2>1, <2>2
  <1>6. CASE HasMarket(d) /\ TradeRows(d) # {}
    <2> DEFINE t == LatestTrade(d)
               undone == s.graduated > n
               rows == TradeRows(d)
               s1 == [s EXCEPT !.distributed = t.val[1]]
               s2 == [s1 EXCEPT !.collateral = t.val[2]]
               s3 == [s2 EXCEPT !.trades = Cardinality(rows)]
               s4 == [s3 EXCEPT !.lastBlock = IF s.lastBlock < n THEN s.lastBlock ELSE n]
               s5 == [s4 EXCEPT !.status = IF undone THEN 0 ELSE s.status]
               s6 == [s5 EXCEPT !.pool = IF undone THEN "none" ELSE s.pool]
    <2>1. x = [d EXCEPT !.state = s6]
      <3>1. x = [d EXCEPT !.state.distributed = t.val[1],
                        !.state.collateral = t.val[2],
                        !.state.trades = Cardinality(rows),
                        !.state.lastBlock = IF s.lastBlock < n THEN s.lastBlock ELSE n,
                        !.state.status = IF undone THEN 0 ELSE s.status,
                        !.state.pool = IF undone THEN "none" ELSE s.pool]
        BY <1>1, <1>6 DEF RecomputeState, State
      <3> HIDE DEF t, undone, rows
      <3> QED  BY <3>1
    <2>2. t.val[1] \in Int /\ t.val[2] \in Int
      BY <1>6, LatestTradeIsTrade
    <2>3. Cardinality(rows) \in Nat
      <3>1. IsFiniteSet(rows)
        BY FS_Subset DEF DbOK, TradeRows
      <3> QED  BY <3>1, FS_CardinalityType
    <2> HIDE DEF t, undone, rows
    <2>4. s1 \in State /\ s1.status = s.status /\ s1.graduating = s.graduating
      BY <1>1, <2>2 DEF State
    <2> HIDE DEF s1
    <2>5. s2 \in State /\ s2.status = s.status /\ s2.graduating = s.graduating
      BY <2>4, <2>2 DEF State
    <2> HIDE DEF s2
    <2>6. s3 \in State /\ s3.status = s.status /\ s3.graduating = s.graduating
      BY <2>5, <2>3 DEF State
    <2> HIDE DEF s3
    <2>7. s4 \in State /\ s4.status = s.status /\ s4.graduating = s.graduating
      BY <1>1, <2>6 DEF State
    <2> HIDE DEF s4
    <2>8. /\ s5 \in State /\ s5.status = (IF undone THEN 0 ELSE s.status)
          /\ s5.graduating = s.graduating
      BY <1>1, <2>7 DEF State
    <2> HIDE DEF s5
    <2>9. /\ s6 \in State /\ s6.status = (IF undone THEN 0 ELSE s.status)
          /\ s6.graduating = s.graduating
      BY <1>1, <2>8 DEF State
    <2> HIDE DEF s6, s
    <2>10. s6.status = 2 => s6.graduating # NoBlock
      BY <1>3, <2>9
    <2> QED  BY <1>2, <2>1, <2>9, <2>10
  <1> QED  BY <1>4, <1>5, <1>6

(* Balances added up again are never negative.                             *)
LEMMA RebuildTypes ==
    ASSUME NEW d, DbOK(d), Sound(d)
    PROVE  LET x == RebuildBalances(d)
           IN  DbOK(x) /\ Accepted(x) /\ SameTables(d, x)
  <1> DEFINE total(a) == MapThenSumSet(LAMBDA r : r.val[2], DeltasOf(d, a))
             new == [a \in Accounts |-> IF total(a) > 0 THEN total(a) ELSE 0]
             x == [d EXCEPT !.balances = new]
  <1>1. RebuildBalances(d) = x
    BY DEF RebuildBalances
  <1>2. ASSUME NEW a \in Accounts PROVE total(a) \in Int
    <2>1. IsFiniteSet(DeltasOf(d, a))
      BY FS_Subset DEF DeltasOf, DbOK
    <2>2. \A r \in DeltasOf(d, a) : r.val[2] \in Int
      BY DEF DeltasOf, DbOK, Db, DbRow, TablesWithoutValue
    <2> QED  BY <2>1, <2>2, DeltasAddUp
  <1> HIDE DEF total
  <1>3. new \in [Accounts -> Int] /\ \A a \in Accounts : new[a] >= 0
    BY <1>2
  <1> HIDE DEF new
  <1>4. DbOK(x) /\ SameTables(d, x) /\ x.balances = new /\ x.commitment = d.commitment /\ x.state = d.state
    <2>1. DbOK(x) /\ SameTables(d, x)
      BY <1>3, FieldTypes
    <2>2. x.balances = new /\ x.commitment = d.commitment /\ x.state = d.state
      BY OtherFields
    <2> QED  BY <2>1, <2>2
  <1> HIDE DEF x
  <1>5. Accepted(x)
    BY <1>3, <1>4 DEF Sound, Accepted, SameTables, SameBlocks, HasMarket
  <1> QED  BY <1>1, <1>4, <1>5

(* A rollback keeps what is at or below the height, and satisfies the      *)
(* constraints.                                                            *)
LEMMA RollbackTypes ==
    ASSUME NEW d, DbOK(d), Accepted(d), NEW n \in Nat
    PROVE  LET x == RollbackTo(d, n)
           IN  /\ DbOK(x) /\ Accepted(x) /\ x.cursor = d.cursor
               /\ x.blocks = {b \in d.blocks : b.number <= n}
               /\ x.rows = IF d.market.launchedAt <= n THEN {r \in d.rows : r.block <= n} ELSE {}
               /\ x.market = IF d.market.launchedAt <= n THEN d.market ELSE NoMarket
  <1> DEFINE c == CascadeAbove(d, n)
             r == RecomputeState(c, n)
             b == RebuildBalances(r)
             x == RefreshHolderCount(b)
  <1>1. DbOK(c) /\ Sound(c)
    BY CascadeTypes
  <1>2. /\ c.cursor = d.cursor
        /\ c.blocks = {o \in d.blocks : o.number <= n}
        /\ c.rows = IF d.market.launchedAt <= n THEN {o \in d.rows : o.block <= n} ELSE {}
        /\ c.market = IF d.market.launchedAt <= n THEN d.market ELSE NoMarket
    BY CascadeTypes
  <1>3. RollbackTo(d, n) = x
    BY DEF RollbackTo
  <1> HIDE DEF c
  <1>4. DbOK(r) /\ Sound(r) /\ SameTables(c, r)
    BY <1>1, RecomputeTypes
  <1> HIDE DEF r
  <1>5. DbOK(b) /\ Accepted(b) /\ SameTables(r, b)
    BY <1>4, RebuildTypes
  <1> HIDE DEF b
  <1>6. DbOK(x) /\ SameTables(b, x)
    BY <1>5, HolderCountTypes
  <1>7. /\ x.balances = b.balances /\ x.commitment = b.commitment
        /\ x.state.status = b.state.status /\ x.state.graduating = b.state.graduating
    BY <1>5 DEF RefreshHolderCount, DbOK, Db, State
  <1> HIDE DEF x
  <1>8. Accepted(x)
    BY <1>5, <1>6, <1>7 DEF Accepted, SameTables, SameBlocks, HasMarket
  <1>9. x.cursor = c.cursor /\ x.blocks = c.blocks /\ x.rows = c.rows /\ x.market = c.market
    BY <1>4, <1>5, <1>6 DEF SameTables, SameBlocks
  <1> QED  BY <1>2, <1>3, <1>6, <1>8, <1>9

-----------------------------------------------------------------------------
(* Chains and the references into them, for any chain "c" and fork "f".    *)

HashOn(c, h) == <<h, IF h \in DOMAIN c THEN c[h].fork ELSE 0>>
CanonicalOn(c, ref) == ref.number <= Len(c) /\ ref.hash = HashOn(c, ref.number)

(* A header read from a chain bears a fork it had; above the head it was   *)
(* read before the last reorganisation.                                    *)
Stamped(c, f, ref) == ref.hash[2] <= f /\ (ref.number > Len(c) => ref.hash[2] < f)

(* A chain after mining (k is the old head) or a reorganisation above k.   *)
Moved(c, f, k, c2, f2) ==
    /\ k \in 0 .. Len(c) /\ c2 \in Seq(ChainBlock) /\ Len(c2) = k + 1
    /\ \A i \in 1 .. k : c2[i] = c[i]
    /\ c2[k + 1].fork = f2
    /\ (k = Len(c) /\ f2 = f) \/ (k < Len(c) /\ f2 = f + 1)

(* Types of a chain's blocks.                                              *)
LEMMA ChainElements ==
    ASSUME NEW c \in Seq(ChainBlock)
    PROVE  /\ Len(c) \in Nat /\ DOMAIN c = 1 .. Len(c)
           /\ \A i \in 1 .. Len(c) : c[i].fork \in Nat /\ c[i].what \in AllPayloads
  <1>1. Len(c) \in Nat /\ DOMAIN c = 1 .. Len(c) /\ \A i \in 1 .. Len(c) : c[i] \in ChainBlock
    OBVIOUS
  <1> QED  BY <1>1 DEF ChainBlock

(* Canonical, for the chain there is.                                      *)
LEMMA CanonicalIs == \A ref : Canonical(ref) <=> CanonicalOn(chain, ref)
  BY DEF Canonical, CanonicalOn, HashAt, HashOn, Tip

(* A header just read is canonical and bears the chain's stamp.            *)
LEMMA HeaderTypes ==
    ASSUME ChainInv, NEW h \in 1 .. Tip
    PROVE  /\ Header(h) \in Ref /\ Header(h).number = h
           /\ Header(h).hash = HashOn(chain, h) /\ Header(h).parent = HashOn(chain, h - 1)
           /\ CanonicalOn(chain, Header(h)) /\ Stamped(chain, forks, Header(h))
  <1>1. chain \in Seq(ChainBlock) /\ Len(chain) = Tip /\ Tip \in Nat /\ DOMAIN chain = 1 .. Tip
    BY DEF ChainInv, Tip
  <1>2. \A i \in 1 .. Tip : chain[i].fork \in Nat /\ chain[i].fork <= forks
    BY <1>1, ChainElements DEF ChainInv
  <1>3. HashOn(chain, h) = <<h, chain[h].fork>> /\ HashOn(chain, h) \in Hash
    BY <1>1, <1>2 DEF HashOn, Hash
  <1>4. HashOn(chain, h - 1) \in Hash
    <2>1. CASE h - 1 \in 1 .. Tip
      BY <1>1, <1>2, <2>1 DEF HashOn, Hash
    <2>2. CASE h - 1 \notin 1 .. Tip
      BY <1>1, <2>2 DEF HashOn, Hash
    <2> QED  BY <2>1, <2>2
  <1> DEFINE x == Header(h)
  <1>5. x.number = h /\ x.hash = HashOn(chain, h) /\ x.parent = HashOn(chain, h - 1)
    BY DEF Header, HashAt, HashOn
  <1>6. x \in Ref
    <2>1. h \in Nat \ {0}
      BY <1>1
    <2>2. x = [number |-> h, hash |-> HashOn(chain, h), parent |-> HashOn(chain, h - 1)]
      BY DEF Header, HashAt, HashOn
    <2> HIDE DEF x
    <2> QED  BY <1>3, <1>4, <2>1, <2>2 DEF Ref
  <1> HIDE DEF x
  <1>7. CanonicalOn(chain, x) /\ Stamped(chain, forks, x)
    BY <1>1, <1>2, <1>3, <1>5 DEF CanonicalOn, Stamped
  <1> QED  BY <1>5, <1>6, <1>7 DEF x

(* Two canonical references of a height bear one hash.                     *)
LEMMA StampedMoved ==
    ASSUME NEW c \in Seq(ChainBlock), NEW f \in Nat, NEW k, NEW c2, NEW f2, Moved(c, f, k, c2, f2),
           NEW ref \in Ref, Stamped(c, f, ref)
    PROVE  /\ Stamped(c2, f2, ref)
           /\ CanonicalOn(c2, ref) <=> CanonicalOn(c, ref) /\ ref.number <= k
  <1>1. /\ Len(c) \in Nat /\ DOMAIN c = 1 .. Len(c) /\ k \in Nat /\ k <= Len(c)
        /\ DOMAIN c2 = 1 .. k + 1 /\ Len(c2) = k + 1
    BY ChainElements DEF Moved
  <1>8. \A i \in 1 .. k : c2[i] = c[i]
    BY DEF Moved
  <1>9. c2[k + 1].fork = f2
    BY DEF Moved
  <1>10. f2 \in Nat /\ ((k = Len(c) /\ f2 = f) \/ (k < Len(c) /\ f2 = f + 1))
    BY DEF Moved
  <1>2. ref.number \in Nat \ {0} /\ ref.hash \in Nat \X Nat
    BY DEF Ref, Hash
  <1> DEFINE n == ref.number
             fork == ref.hash[2]
  <1>3. n \in Nat /\ n # 0 /\ fork \in Nat /\ fork <= f /\ (n > Len(c) => fork < f)
    BY <1>2 DEF Stamped
  <1>11. CanonicalOn(c, ref) <=> n <= Len(c) /\ ref.hash = HashOn(c, n)
    BY DEF CanonicalOn
  <1>12. CanonicalOn(c2, ref) <=> n <= k + 1 /\ ref.hash = HashOn(c2, n)
    BY <1>1 DEF CanonicalOn
  <1>13. Stamped(c2, f2, ref) <=> fork <= f2 /\ (n > k + 1 => fork < f2)
    BY <1>1 DEF Stamped
  <1>14. \A h : ref.hash = <<n, h>> => fork = h
    OBVIOUS
  <1> HIDE DEF n, fork
  <1>15. f \in Nat /\ fork <= f /\ fork \in Nat /\ fork <= f2 /\ (n >= k + 1 => fork < f2)
    <2>1. CASE k = Len(c) /\ f2 = f
      <3>1. n >= k + 1 => n > Len(c)
        BY <1>1, <1>3, <2>1
      <3> QED  BY <1>3, <2>1, <3>1
    <2>2. CASE k < Len(c) /\ f2 = f + 1
      BY <1>3, <2>2
    <2> QED  BY <1>10, <2>1, <2>2
  <1>4. Stamped(c2, f2, ref)
    BY <1>1, <1>3, <1>13, <1>15
  <1>5. CASE n <= k
    <2>1. HashOn(c2, n) = HashOn(c, n)
      BY <1>1, <1>3, <1>5, <1>8 DEF HashOn
    <2> QED  BY <1>1, <1>3, <1>4, <1>5, <1>11, <1>12, <2>1 DEF n
  <1>6. CASE n = k + 1
    <2>1. HashOn(c2, n) = <<n, f2>>
      BY <1>1, <1>6, <1>9 DEF HashOn
    <2>2. fork # f2
      BY <1>1, <1>6, <1>15
    <2>3. ~CanonicalOn(c2, ref)
      BY <1>12, <1>14, <2>1, <2>2
    <2>4. ~(n <= k)
      BY <1>1, <1>6
    <2> QED  BY <1>4, <2>3, <2>4 DEF n
  <1>7. CASE n > k + 1
    BY <1>1, <1>3, <1>4, <1>7, <1>12 DEF n
  <1> QED  BY <1>1, <1>3, <1>5, <1>6, <1>7

(* What a database holds up to a height is what the chain says.            *)
Mirrors(c, d, n) ==
    /\ \A b \in d.blocks : b.number <= n => CanonicalOn(c, b)
    /\ Keys({r \in d.rows : r.block <= n}) = KeysOf(c, 1, n)
    /\ \A h \in 1 .. n : c[h].what = "launch" => d.market.launchedAt = h
    /\ d.market.launchedAt \in 1 .. n => c[d.market.launchedAt].what = "launch"

(* A row's key tells its height.                                           *)
LEMMA KeyHeights ==
    ASSUME NEW c, NEW h, NEW key \in KeysAt(c, h)
    PROVE  key[2] = h
  BY DEF KeysAt

(* Rows up to a height, in terms of those up to a higher one.              *)
LEMMA RowKeys ==
    ASSUME NEW d, DbOK(d), NEW n \in Int, NEW m \in Int, n <= m
    PROVE  Keys({r \in d.rows : r.block <= n}) =
             {key \in Keys({r \in d.rows : r.block <= m}) : key[2] <= n}
  <1>1. \A r \in d.rows : Key(r)[2] = r.block /\ r.block \in Nat
    BY DEF DbOK, Db, DbRow, Key
  <1> QED  BY <1>1 DEF Keys

(* A mirror up to a height is one up to every lower height.                *)
LEMMA MirrorsBelow ==
    ASSUME NEW c \in Seq(ChainBlock), NEW d, DbOK(d), NEW m \in Nat, NEW n \in Nat,
           n <= m, m <= Len(c), Mirrors(c, d, m)
    PROVE  Mirrors(c, d, n)
  <1>1. \A b \in d.blocks : b.number \in Nat
    BY DEF DbOK, Db, Block
  <1>2. \A h : h \in 1 .. n <=> h \in 1 .. m /\ h <= n
    OBVIOUS
  <1>3. KeysOf(c, 1, n) = {key \in KeysOf(c, 1, m) : key[2] <= n}
    BY <1>2, KeyHeights DEF KeysOf
  <1>4. Keys({r \in d.rows : r.block <= n}) = KeysOf(c, 1, n)
    <2>1. Keys({r \in d.rows : r.block <= n}) =
            {key \in Keys({r \in d.rows : r.block <= m}) : key[2] <= n}
      BY RowKeys
    <2>2. Keys({r \in d.rows : r.block <= m}) = KeysOf(c, 1, m)
      BY DEF Mirrors
    <2> QED  BY <1>3, <2>1, <2>2
  <1> QED  BY <1>1, <1>2, <1>4 DEF Mirrors

(* A mirror survives every move of the chain above it.                     *)
LEMMA MirrorsMoved ==
    ASSUME NEW c \in Seq(ChainBlock), NEW f \in Nat, NEW k, NEW c2, NEW f2, Moved(c, f, k, c2, f2),
           NEW d, DbOK(d), NEW n \in Nat, n <= k, Mirrors(c, d, n)
    PROVE  Mirrors(c2, d, n)
  <1>1. /\ Len(c) \in Nat /\ k \in 0 .. Len(c) /\ c2 \in Seq(ChainBlock) /\ Len(c2) = k + 1
        /\ DOMAIN c = 1 .. Len(c) /\ DOMAIN c2 = 1 .. k + 1
        /\ \A i \in 1 .. k : c2[i] = c[i]
    BY DEF Moved
  <1>2. \A h \in 1 .. n : c2[h] = c[h] /\ KeysAt(c2, h) = KeysAt(c, h)
    BY <1>1 DEF KeysAt
  <1>3. KeysOf(c2, 1, n) = KeysOf(c, 1, n)
    BY <1>2 DEF KeysOf
  <1>4. ASSUME NEW b \in d.blocks, b.number <= n PROVE CanonicalOn(c2, b)
    <2>1. b.number \in Nat \ {0}
      BY DEF DbOK, Db, Block
    <2>2. HashOn(c2, b.number) = HashOn(c, b.number)
      BY <1>1, <1>4, <2>1 DEF HashOn
    <2> QED  BY <1>1, <1>4, <2>1, <2>2 DEF Mirrors, CanonicalOn
  <1> QED  BY <1>2, <1>3, <1>4 DEF Mirrors

(* What the headers held say of the database.                              *)
AllOn(c, refs) == \A r \in refs : CanonicalOn(c, r)
Consistent(c, refs) ==
    \A r, s \in refs : r.number <= s.number /\ CanonicalOn(c, s) => CanonicalOn(c, r)
Follows(c, d, refs) ==
    /\ AllOn(c, refs) => d.cursor <= Len(c) /\ Mirrors(c, d, d.cursor)
    /\ \A r \in refs : CanonicalOn(c, r) => Mirrors(c, d, r.number)

(* Headers that vouch for the database still do after a move that one of   *)
(* them, or the cursor, tells.                                             *)
LEMMA FollowsMoved ==
    ASSUME NEW c \in Seq(ChainBlock), NEW f \in Nat, NEW k, NEW c2, NEW f2, Moved(c, f, k, c2, f2),
           NEW d, DbOK(d), NEW refs \in SUBSET Ref, \A r \in refs : Stamped(c, f, r),
           Follows(c, d, refs), k = Len(c) \/ d.cursor <= k \/ \E r \in refs : r.number > k
    PROVE  Follows(c2, d, refs)
  <1>1. Len(c) \in Nat /\ k \in 0 .. Len(c) /\ Len(c2) = k + 1 /\ d.cursor \in Nat
    BY DEF Moved, DbOK, Db
  <1>2. \A r \in refs : /\ CanonicalOn(c2, r) <=> CanonicalOn(c, r) /\ r.number <= k
                        /\ r.number \in Nat
    BY StampedMoved DEF Ref
  <1>3. ASSUME AllOn(c2, refs) PROVE d.cursor <= Len(c2) /\ Mirrors(c2, d, d.cursor)
    <2>1. AllOn(c, refs) /\ \A r \in refs : r.number <= k
      BY <1>2, <1>3 DEF AllOn
    <2>2. d.cursor <= Len(c) /\ Mirrors(c, d, d.cursor)
      BY <2>1 DEF Follows
    <2>3. d.cursor <= k
      BY <1>1, <1>2, <2>1, <2>2
    <2> QED  BY <1>1, <2>2, <2>3, MirrorsMoved
  <1>4. ASSUME NEW r \in refs, CanonicalOn(c2, r) PROVE Mirrors(c2, d, r.number)
    <2>1. CanonicalOn(c, r) /\ r.number <= k /\ r.number \in Nat
      BY <1>2, <1>4
    <2>2. Mirrors(c, d, r.number)
      BY <2>1 DEF Follows
    <2> QED  BY <2>1, <2>2, MirrorsMoved
  <1> QED  BY <1>3, <1>4 DEF Follows

(* A canonical header still vouches for those below it.                    *)
LEMMA ConsistentMoved ==
    ASSUME NEW c \in Seq(ChainBlock), NEW f \in Nat, NEW k, NEW c2, NEW f2, Moved(c, f, k, c2, f2),
           NEW refs \in SUBSET Ref, \A r \in refs : Stamped(c, f, r), Consistent(c, refs)
    PROVE  Consistent(c2, refs)
  <1>1. k \in Int
    BY DEF Moved
  <1>2. \A r \in refs : /\ CanonicalOn(c2, r) <=> CanonicalOn(c, r) /\ r.number <= k
                        /\ r.number \in Nat
    BY StampedMoved DEF Ref
  <1> QED  BY <1>1, <1>2 DEF Consistent

-----------------------------------------------------------------------------
(* Both moves of the chain                                                 *)

(* What is counted did happen.                                             *)
LEMMA CountsHappened ==
    ASSUME NEW c \in Seq(ChainBlock), NEW what
    PROVE  Count(what, c) \in Nat /\ (Count(what, c) # 0 => Happened(what, c))
  <1> DEFINE S == {i \in DOMAIN c : c[i].what = what}
  <1>1. IsFiniteSet(1 .. Len(c)) /\ DOMAIN c = 1 .. Len(c)
    BY FS_Interval
  <1>2. IsFiniteSet(S)
    BY <1>1, FS_Subset
  <1>3. ~Happened(what, c) => S = {}
    BY DEF Happened
  <1>4. Count(what, c) = Cardinality(S)
    BY DEF Count
  <1> HIDE DEF S
  <1> QED  BY <1>2, <1>3, <1>4, FS_CardinalityType, FS_EmptySet

(* A block that is allowed keeps the history of the market in order.       *)
LEMMA HistoryGrows ==
    ASSUME NEW c \in Seq(ChainBlock), History(c), NEW what \in AllPayloads, Allowed(what, c),
           NEW f \in Nat
    PROVE  LET c2 == Append(c, [fork |-> f, what |-> what])
           IN  c2 \in Seq(ChainBlock) /\ Len(c2) = Len(c) + 1 /\ History(c2)
               /\ c2[Len(c) + 1] = [fork |-> f, what |-> what]
               /\ \A i \in 1 .. Len(c) : c2[i] = c[i]
  <1> DEFINE b == [fork |-> f, what |-> what]
             c2 == Append(c, b)
  <1>1. b \in ChainBlock /\ b.what = what
    BY DEF ChainBlock
  <1> HIDE DEF b
  <1>2. /\ c2 \in Seq(ChainBlock) /\ Len(c) \in Nat /\ Len(c2) = Len(c) + 1
        /\ c2[Len(c) + 1] = b /\ \A i \in 1 .. Len(c) : c2[i] = c[i]
        /\ DOMAIN c = 1 .. Len(c)
    BY <1>1
  <1> HIDE DEF c2
  <1>3. \A w : Happened(w, c) => \E i \in 1 .. Len(c) : c[i].what = w
    BY <1>2 DEF Happened
  <1>4. \A w : w \notin {"quiet", "register"} /\ Happened(w, c) => Happened("launch", c)
    <2> SUFFICES ASSUME NEW w, w \notin {"quiet", "register"}, Happened(w, c) PROVE Happened("launch", c)
      OBVIOUS
    <2>1. PICK i \in 1 .. Len(c) : c[i].what = w
      BY <1>3
    <2>2. CASE w = "launch"
      BY <2>2
    <2>3. CASE w # "launch"
      <3>1. PICK g \in 1 .. i - 1 : c[g].what = "launch"
        BY <2>1, <2>3 DEF History
      <3>2. g \in 1 .. Len(c)
        BY <1>2
      <3> QED  BY <1>2, <3>1, <3>2 DEF Happened
    <2> QED  BY <2>2, <2>3
  <1>5. ASSUME what \notin {"quiet", "register", "launch"} PROVE Happened("launch", c)
    <2>1. CASE what \in {"buy", "sell", "cross", "accrue", "submit"}
      BY <2>1 DEF Allowed
    <2>2. CASE what = "graduate"
      <3>1. Happened("cross", c)
        BY <2>2 DEF Allowed
      <3> QED  BY <1>4, <3>1
    <2>3. CASE what = "claim"
      <3>1. Happened("activate", c)
        BY <2>3 DEF Allowed
      <3> QED  BY <1>4, <3>1
    <2>4. CASE what \in {"activate", "cancel"}
      <3>1. Count("submit", c) > Count("activate", c) + Count("cancel", c)
        BY <2>4 DEF Allowed
      <3>2. Happened("submit", c)
        BY <3>1, CountsHappened
      <3> QED  BY <1>4, <3>2
    <2> QED  BY <1>5, <2>1, <2>2, <2>3, <2>4 DEF AllPayloads
  <1>6. what = "launch" => ~Happened("launch", c)
    BY DEF Allowed
  <1>7. ASSUME NEW h \in 1 .. Len(c2), c2[h].what \notin {"quiet", "register", "launch"}
        PROVE  \E g \in 1 .. h - 1 : c2[g].what = "launch"
    <2>1. CASE h \in 1 .. Len(c)
      <3>1. PICK g \in 1 .. h - 1 : c[g].what = "launch"
        BY <1>2, <1>7, <2>1 DEF History
      <3> QED  BY <1>2, <2>1, <3>1
    <2>2. CASE h = Len(c) + 1
      BY <1>1, <1>2, <1>3, <1>5, <1>7, <2>2
    <2> QED  BY <1>2, <2>1, <2>2
  <1>8. ASSUME NEW g \in 1 .. Len(c2), NEW h \in 1 .. Len(c2), c2[g].what = "launch", c2[h].what = "launch"
        PROVE  g = h
    <2>1. ASSUME NEW i \in 1 .. Len(c), c[i].what = "launch" PROVE what # "launch"
      BY <1>2, <1>6, <2>1 DEF Happened
    <2>2. \A i \in 1 .. Len(c2) : i \in 1 .. Len(c) \/ i = Len(c) + 1
      BY <1>2
    <2> QED  BY <1>1, <1>2, <1>8, <2>1, <2>2 DEF History
  <1> QED  BY <1>2, <1>7, <1>8 DEF c2, b, History

(* So does cutting the chain.                                              *)
LEMMA HistoryPrefix ==
    ASSUME NEW c \in Seq(ChainBlock), History(c), NEW k \in 0 .. Len(c)
    PROVE  LET c2 == SubSeq(c, 1, k)
           IN  c2 \in Seq(ChainBlock) /\ Len(c2) = k /\ History(c2) /\ \A i \in 1 .. k : c2[i] = c[i]
  <1> DEFINE c2 == SubSeq(c, 1, k)
  <1>1. /\ c2 \in Seq(ChainBlock) /\ Len(c2) = k /\ Len(c) \in Nat
        /\ \A i \in 1 .. k : c2[i] = c[i]
    OBVIOUS
  <1> HIDE DEF c2
  <1>2. \A h \in 1 .. k : h \in 1 .. Len(c) /\ \A g \in 1 .. h - 1 : g \in 1 .. k
    BY <1>1
  <1>3. History(c2)
    BY <1>1, <1>2 DEF History
  <1> QED  BY <1>1, <1>3 DEF c2

(* Mining and reorganising keep the chain's own invariant.                 *)
LEMMA ChainMines ==
    ASSUME ChainInv, NEW what \in Payloads, Mine(what)
    PROVE  ChainInv' /\ Moved(chain, forks, Tip, chain', forks') /\ Tip' = Tip + 1 /\ peak' >= peak
           /\ forks' \in Nat
  <1>1. what \in AllPayloads
    BY ChainAssumption
  <1>2. /\ chain \in Seq(ChainBlock) /\ forks \in Nat /\ peak \in Nat /\ Tip = Len(chain) /\ Tip \in Nat
        /\ Tip <= peak /\ Tip < MaxHeight /\ MaxHeight \in Nat
        /\ History(chain) /\ Allowed(what, chain)
        /\ \A h \in 1 .. Tip : chain[h].fork <= forks
        /\ chain' = Append(chain, [fork |-> forks, what |-> what]) /\ forks' = forks
        /\ peak' = IF Tip + 1 > peak THEN Tip + 1 ELSE peak
    BY ChainAssumption DEF ChainInv, Mine, Tip
  <1>3. /\ chain' \in Seq(ChainBlock) /\ Len(chain') = Tip + 1 /\ History(chain')
        /\ chain'[Tip + 1] = [fork |-> forks, what |-> what]
        /\ \A i \in 1 .. Tip : chain'[i] = chain[i]
    BY <1>1, <1>2, HistoryGrows
  <1>4. chain'[Tip + 1].fork = forks
    BY <1>3
  <1>5. Tip' = Len(chain')
    BY DEF Tip
  <1>6. Moved(chain, forks, Tip, chain', forks')
    BY <1>2, <1>3, <1>4 DEF Moved
  <1>7. \A h \in 1 .. Tip' : chain'[h].fork <= forks'
    <2>1. \A h \in 1 .. Tip + 1 : h \in 1 .. Tip \/ h = Tip + 1
      BY <1>2
    <2> QED  BY <1>2, <1>3, <1>4, <1>5, <2>1
  <1> QED  BY <1>2, <1>3, <1>5, <1>6, <1>7 DEF ChainInv

(* The same for a reorganisation.                                          *)
LEMMA ChainReplaced ==
    ASSUME ChainInv, NEW what \in Payloads, NEW k \in 0 .. MaxHeight, Reorganise(k, what)
    PROVE  ChainInv' /\ Moved(chain, forks, k, chain', forks') /\ Tip' = k + 1 /\ k < Tip
           /\ peak' = peak /\ k >= peak - MaxReorgDepth /\ forks' \in Nat
  <1>1. what \in AllPayloads
    BY ChainAssumption
  <1> DEFINE c == SubSeq(chain, 1, k)
  <1>2. /\ chain \in Seq(ChainBlock) /\ forks \in Nat /\ peak \in Nat /\ Tip = Len(chain) /\ Tip \in Nat
        /\ Tip <= peak /\ Tip <= MaxHeight /\ MaxHeight \in Nat /\ k \in 0 .. Len(chain) /\ k < Tip
        /\ History(chain) /\ Allowed(what, c)
        /\ \A h \in 1 .. Tip : chain[h].fork <= forks
        /\ forks' = forks + 1 /\ chain' = Append(c, [fork |-> forks', what |-> what])
        /\ peak' = peak /\ k >= peak - MaxReorgDepth
    BY ChainAssumption DEF ChainInv, Reorganise, Tip
  <1>3. c \in Seq(ChainBlock) /\ Len(c) = k /\ History(c) /\ \A i \in 1 .. k : c[i] = chain[i]
    BY <1>2, HistoryPrefix
  <1>4. forks' \in Nat
    BY <1>2
  <1> HIDE DEF c
  <1>5. /\ chain' \in Seq(ChainBlock) /\ Len(chain') = k + 1 /\ History(chain')
        /\ chain'[k + 1] = [fork |-> forks', what |-> what]
        /\ \A i \in 1 .. k : chain'[i] = c[i]
    BY <1>1, <1>2, <1>3, <1>4, HistoryGrows
  <1>6. chain'[k + 1].fork = forks'
    BY <1>5
  <1>7. Tip' = Len(chain')
    BY DEF Tip
  <1>8. Moved(chain, forks, k, chain', forks')
    BY <1>2, <1>3, <1>5, <1>6 DEF Moved
  <1>9. \A h \in 1 .. Tip' : chain'[h].fork <= forks'
    <2>1. \A h \in 1 .. k + 1 : (h \in 1 .. k /\ h \in 1 .. Tip) \/ h = k + 1
      BY <1>2
    <2>2. \A h \in 1 .. Tip : chain[h].fork \in Nat
      BY <1>2, ChainElements
    <2> SUFFICES ASSUME NEW h \in 1 .. k + 1 PROVE chain'[h].fork <= forks'
      BY <1>5, <1>7
    <2>3. CASE h \in 1 .. k /\ h \in 1 .. Tip
      <3>1. chain'[h] = chain[h]
        BY <1>3, <1>5, <2>3
      <3>2. chain[h].fork <= forks /\ chain[h].fork \in Nat
        BY <1>2, <2>2, <2>3
      <3>3. forks \in Nat /\ forks' = forks + 1
        BY <1>2
      <3> QED  BY <3>1, <3>2, <3>3
    <2>4. CASE h = k + 1
      BY <1>4, <1>6, <2>4
    <2> QED  BY <2>1, <2>3, <2>4
  <1> QED  BY <1>2, <1>4, <1>5, <1>7, <1>8, <1>9 DEF ChainInv

-----------------------------------------------------------------------------
(* The window                                                              *)

HasHeight(w, n) == \E r \in ToSet(w) : r.number = n

(* The lowest and the highest header of a window are its ends.             *)
LEMMA WindowEnds ==
    ASSUME NEW w \in Seq(Ref), Increasing(w), w # <<>>
    PROVE  /\ Last(w) \in ToSet(w) /\ w[1] \in ToSet(w)
           /\ \A r \in ToSet(w) : /\ r \in Ref /\ r.number \in Nat \ {0}
                                  /\ r.number <= Last(w).number /\ w[1].number <= r.number
  <1>1. Len(w) \in Nat /\ Len(w) # 0 /\ DOMAIN w = 1 .. Len(w)
    OBVIOUS
  <1>2. \A i \in 1 .. Len(w) : w[i] \in Ref /\ w[i] \in ToSet(w) /\ w[i].number \in Nat \ {0}
    <2>1. \A i \in 1 .. Len(w) : w[i] \in Ref
      OBVIOUS
    <2>2. \A i \in 1 .. Len(w) : w[i] \in ToSet(w)
      BY <1>1 DEF ToSet
    <2> QED  BY <2>1, <2>2 DEF Ref
  <1>3. 1 \in 1 .. Len(w) /\ Len(w) \in 1 .. Len(w)
    BY <1>1
  <1>4. ASSUME NEW r \in ToSet(w)
        PROVE  /\ r \in Ref /\ r.number \in Nat \ {0}
               /\ r.number <= w[Len(w)].number /\ w[1].number <= r.number
    <2>1. PICK i \in 1 .. Len(w) : w[i] = r
      BY <1>1 DEF ToSet
    <2>2. i = Len(w) \/ i < Len(w)
      <3>1. \A l \in Nat : \A j \in 1 .. l : j = l \/ j < l
        OBVIOUS
      <3> QED  BY <1>1, <3>1
    <2>3. r.number <= w[Len(w)].number
      BY <1>2, <1>3, <2>1, <2>2 DEF Increasing
    <2>4. i = 1 \/ 1 < i
      BY <1>1
    <2>5. w[1].number <= r.number
      BY <1>2, <1>3, <2>1, <2>4 DEF Increasing
    <2> QED  BY <1>2, <2>1, <2>3, <2>5
  <1> QED  BY <1>2, <1>3, <1>4 DEF Last

(* What is left of the window when it goes back to a height.               *)
LEMMA DropAboveIs ==
    ASSUME NEW w \in Seq(Ref), Increasing(w), NEW n \in Int
    PROVE  LET v == DropAbove(w, n)
           IN  /\ v \in Seq(Ref) /\ Increasing(v) /\ Len(v) <= Len(w)
               /\ ToSet(v) = {r \in ToSet(w) : r.number <= n}
               /\ HasHeight(w, n) => v # <<>> /\ Last(v).number = n
               /\ w = <<>> => v = <<>>
  <1> DEFINE low == {r \in ToSet(w) : r.number <= n}
             v == DropAbove(w, n)
  <1>1. v = Kept(w, low)
    BY DEF DropAbove
  <1>2. /\ v \in Seq(Ref) /\ ToSet(v) = ToSet(w) \cap low
        /\ Len(v) <= Len(w) /\ Increasing(v)
    <2> HIDE DEF low
    <2> QED  BY <1>1, KeptMembers
  <1> HIDE DEF v
  <1>3. ToSet(v) = low
    BY <1>2
  <1>4. ASSUME HasHeight(w, n) PROVE v # <<>> /\ Last(v).number = n
    <2>1. PICK r \in ToSet(v) : r.number = n
      BY <1>3, <1>4 DEF HasHeight
    <2>2. v # <<>>
      BY <2>1, SmallSequences
    <2>3. /\ Last(v) \in ToSet(v) /\ r.number <= Last(v).number
          /\ r.number \in Nat /\ Last(v).number \in Nat
      BY <1>2, <2>1, <2>2, WindowEnds
    <2> QED  BY <1>3, <2>1, <2>2, <2>3
  <1>5. w = <<>> => v = <<>>
    <2>1. Len(v) \in Nat
      BY <1>2
    <2> QED  BY <1>2, <2>1
  <1> QED  BY <1>2, <1>3, <1>4, <1>5 DEF v

(* What accepting a header makes of the window.                            *)
LEMMA CommitIs ==
    ASSUME NEW w \in Seq(Ref), Increasing(w), Len(w) <= Depth, NEW block \in Ref
    PROVE  LET v == Commit(w, block)
           IN  /\ v \in Seq(Ref) /\ Increasing(v) /\ Len(v) <= Depth
               /\ v # <<>> /\ Last(v) = block /\ ToSet(v) \subseteq ToSet(w) \cup {block}
  <1> DEFINE low == DropAbove(w, block.number - 1)
             longer == Append(low, block)
             v == Commit(w, block)
  <1>1. block.number \in Nat
    BY DEF Ref
  <1>2. /\ low \in Seq(Ref) /\ Increasing(low) /\ Len(low) <= Len(w)
        /\ ToSet(low) = {r \in ToSet(w) : r.number <= block.number - 1}
    BY <1>1, DropAboveIs
  <1>3. v = IF Len(longer) > Depth THEN Tail(longer) ELSE longer
    BY DEF Commit
  <1> HIDE DEF low
  <1>4. \A r \in ToSet(low) : r.number < block.number
    <2>1. \A r \in ToSet(low) : r \in Ref
      BY <1>2 DEF ToSet
    <2> QED  BY <1>1, <1>2, <2>1 DEF Ref
  <1>5. Increasing(longer)
    BY <1>2, <1>4, AppendKeepsOrder
  <1>6. /\ longer \in Seq(Ref) /\ Len(longer) = Len(low) + 1 /\ Len(low) \in Nat
        /\ longer[Len(longer)] = block /\ \A i \in 1 .. Len(low) : longer[i] = low[i]
    BY <1>2
  <1>7. \A i \in 1 .. Len(longer) : longer[i] \in ToSet(w) \cup {block}
    <2>1. \A i \in 1 .. Len(low) : low[i] \in ToSet(low)
      BY <1>2 DEF ToSet
    <2>2. \A i \in 1 .. Len(longer) : i \in 1 .. Len(low) \/ i = Len(longer)
      BY <1>6
    <2> QED  BY <1>2, <1>6, <2>1, <2>2
  <1> HIDE DEF longer, v
  <1>8. Len(w) \in Nat /\ Depth \in Nat \ {0}
    BY TrackerAssumption
  <1>9. CASE Len(longer) > Depth
    <2> DEFINE t == Tail(longer)
    <2>1. /\ t \in Seq(Ref) /\ Len(t) = Len(longer) - 1 /\ Len(longer) > 1
          /\ \A i \in 1 .. Len(t) : t[i] = longer[i + 1] /\ i + 1 \in 1 .. Len(longer)
      BY <1>6, <1>8, <1>9
    <2> HIDE DEF t
    <2>2. Len(t) <= Depth /\ t # <<>> /\ Len(t) \in Nat
      BY <1>2, <1>6, <1>8, <2>1
    <2>3. Increasing(t)
      <3> SUFFICES ASSUME NEW i \in 1 .. Len(t), NEW j \in 1 .. Len(t), i < j
                   PROVE  t[i].number < t[j].number
        BY DEF Increasing
      <3>1. i + 1 < j + 1 /\ i + 1 \in 1 .. Len(longer) /\ j + 1 \in 1 .. Len(longer)
        BY <2>1, <2>2
      <3> QED  BY <1>5, <2>1, <3>1 DEF Increasing
    <2>4. Last(t) = block
      <3>1. Len(t) \in 1 .. Len(t) /\ Len(t) + 1 = Len(longer)
        BY <2>1, <2>2
      <3> QED  BY <1>6, <2>1, <3>1 DEF Last
    <2>5. ToSet(t) \subseteq ToSet(w) \cup {block}
      <3>1. DOMAIN t = 1 .. Len(t)
        BY <2>1
      <3> QED  BY <1>7, <2>1, <3>1 DEF ToSet
    <2>6. v = t
      BY <1>3, <1>9 DEF t
    <2> QED  BY <2>1, <2>2, <2>3, <2>4, <2>5, <2>6 DEF v
  <1>10. CASE ~(Len(longer) > Depth)
    <2>1. v = longer
      BY <1>3, <1>10
    <2>2. longer # <<>> /\ Last(longer) = block /\ Len(longer) <= Depth
      BY <1>6, <1>8, <1>10 DEF Last
    <2>3. ToSet(longer) \subseteq ToSet(w) \cup {block}
      <3>1. DOMAIN longer = 1 .. Len(longer)
        BY <1>6
      <3> QED  BY <1>7, <3>1 DEF ToSet
    <2> QED  BY <1>5, <1>6, <2>1, <2>2, <2>3 DEF v
  <1> QED  BY <1>9, <1>10

(* The elements of two sequences joined.                                   *)
LEMMA Joined ==
    ASSUME NEW T, NEW u \in Seq(T), NEW v \in Seq(T)
    PROVE  /\ u \o v \in Seq(T) /\ Len(u \o v) = Len(u) + Len(v)
           /\ \A i \in 1 .. Len(u \o v) : (u \o v)[i] = IF i <= Len(u) THEN u[i] ELSE v[i - Len(u)]
  OBVIOUS

(* The window after the headers of every height, in turn.                  *)
IsCommitted(g, w, refs, to) ==
    g = [h \in 0 .. to |->
            IF h = 0 THEN w
            ELSE IF \E ref \in refs : ref.number = h
            THEN Commit(g[h - 1], CHOOSE ref \in refs : ref.number = h)
            ELSE g[h - 1]]
CommittedUpTo(w, refs, to) == CHOOSE g : IsCommitted(g, w, refs, to)

(* CommitAll is the last value of its own recursion.                       *)
LEMMA CommitAllIsLast ==
    \A w, refs, to : CommitAll(w, refs, to) = CommittedUpTo(w, refs, to)[to]
  BY DEF CommitAll, CommittedUpTo, IsCommitted

(* The recursion, height by height.                                        *)
LEMMA CommittedUnfolds ==
    ASSUME NEW w, NEW refs, NEW to \in Nat
    PROVE  LET g == CommittedUpTo(w, refs, to)
           IN  /\ g[0] = w
               /\ \A h \in 1 .. to :
                    g[h] = IF \E ref \in refs : ref.number = h
                           THEN Commit(g[h - 1], CHOOSE ref \in refs : ref.number = h)
                           ELSE g[h - 1]
  <1> DEFINE After(v, h) == IF \E ref \in refs : ref.number = h
                            THEN Commit(v, CHOOSE ref \in refs : ref.number = h)
                            ELSE v
             Rule(g, n) == g = [h \in 0 .. n |-> IF h = 0 THEN w ELSE After(g[h - 1], h)]
             Reached == {n \in Nat : \E g : Rule(g, n)}
  <1>0. \A g, n : IsCommitted(g, w, refs, n) <=> Rule(g, n)
    BY DEF IsCommitted
  <1>9. \A v, h : After(v, h) = IF \E ref \in refs : ref.number = h
                                THEN Commit(v, CHOOSE ref \in refs : ref.number = h)
                                ELSE v
    OBVIOUS
  <1> HIDE DEF After
  <1>1. 0 \in Reached
    <2> DEFINE g == [h \in 0 .. 0 |-> w]
    <2>1. g = [h \in 0 .. 0 |-> IF h = 0 THEN w ELSE After(g[h - 1], h)]
      OBVIOUS
    <2>2. Rule(g, 0)
      BY <2>1
    <2> HIDE DEF g, Rule
    <2> QED  BY <2>2
  <1>2. ASSUME NEW n \in Nat, n \in Reached PROVE n + 1 \in Reached
    <2>1. PICK g : Rule(g, n)
      BY <1>2
    <2> DEFINE k == [h \in 0 .. n + 1 |-> IF h = 0 THEN w ELSE After(g[h - 1], h)]
    <2>2. ASSUME NEW i \in 0 .. n PROVE k[i] = g[i]
      <3>1. i \in 0 .. n + 1
        OBVIOUS
      <3>2. g[i] = IF i = 0 THEN w ELSE After(g[i - 1], i)
        BY <2>1
      <3> QED  BY <3>1, <3>2
    <2>3. ASSUME NEW i \in 0 .. n + 1, i # 0 PROVE k[i] = After(k[i - 1], i)
      <3>1. i - 1 \in 0 .. n
        BY <2>3
      <3>2. k[i - 1] = g[i - 1]
        BY <2>2, <3>1
      <3> QED  BY <2>3, <3>2
    <2>4. k[0] = w /\ k = [i \in 0 .. n + 1 |-> k[i]]
      OBVIOUS
    <2> HIDE DEF k
    <2>5. k = [h \in 0 .. n + 1 |-> IF h = 0 THEN w ELSE After(k[h - 1], h)]
      BY <2>3, <2>4
    <2>6. Rule(k, n + 1)
      BY <2>5
    <2> HIDE DEF Rule
    <2> QED  BY <2>6
  <1> HIDE DEF Reached
  <1>3. to \in Reached
    BY <1>1, <1>2, B!NaturalsBySuccessor
  <1>4. \E g : IsCommitted(g, w, refs, to)
    <2> HIDE DEF Rule
    <2> QED  BY <1>0, <1>3 DEF Reached
  <1> DEFINE u == CommittedUpTo(w, refs, to)
  <1>5. IsCommitted(u, w, refs, to)
    BY <1>4 DEF CommittedUpTo
  <1> HIDE DEF u
  <1>6. u = [h \in 0 .. to |-> IF h = 0 THEN w ELSE After(u[h - 1], h)]
    BY <1>0, <1>5
  <1> HIDE DEF Rule
  <1>7. u[0] = w
    BY <1>6
  <1>8. ASSUME NEW h \in 1 .. to PROVE u[h] = After(u[h - 1], h)
    <2>1. h \in 0 .. to /\ h # 0
      OBVIOUS
    <2> QED  BY <1>6, <2>1
  <1> QED  BY <1>9, <1>7, <1>8 DEF u

(* The headers of a range, committed in the order of their heights: the    *)
(* window keeps its order and its bound, holds nothing but what it held    *)
(* and the headers, and ends in the header of the last height.             *)
LEMMA CommitAllIs ==
    ASSUME NEW w \in Seq(Ref), Increasing(w), Len(w) <= Depth, NEW refs \in SUBSET Ref,
           NEW to \in Nat \ {0}, NEW last \in refs, last.number = to,
           \A ref \in refs : ref.number = to => ref = last
    PROVE  LET v == CommitAll(w, refs, to)
           IN  /\ v \in Seq(Ref) /\ Increasing(v) /\ Len(v) <= Depth
               /\ v # <<>> /\ Last(v) = last /\ ToSet(v) \subseteq ToSet(w) \cup refs
  <1> DEFINE g == CommittedUpTo(w, refs, to)
             Fine(v) == /\ v \in Seq(Ref) /\ Increasing(v) /\ Len(v) <= Depth
                        /\ ToSet(v) \subseteq ToSet(w) \cup refs
             Good == {h \in 0 .. to : Fine(g[h])}
  <1>1. /\ g[0] = w
        /\ \A h \in 1 .. to :
             g[h] = IF \E ref \in refs : ref.number = h
                    THEN Commit(g[h - 1], CHOOSE ref \in refs : ref.number = h)
                    ELSE g[h - 1]
    BY CommittedUnfolds
  <1>2. CommitAll(w, refs, to) = g[to]
    BY CommitAllIsLast
  <1> HIDE DEF g
  <1>3. ASSUME NEW v, Fine(v), NEW ref \in refs
        PROVE  Fine(Commit(v, ref)) /\ Commit(v, ref) # <<>> /\ Last(Commit(v, ref)) = ref
    <2>1. v \in Seq(Ref) /\ Increasing(v) /\ Len(v) <= Depth /\ ref \in Ref
      BY <1>3
    <2>2. /\ Commit(v, ref) \in Seq(Ref) /\ Increasing(Commit(v, ref)) /\ Len(Commit(v, ref)) <= Depth
          /\ Commit(v, ref) # <<>> /\ Last(Commit(v, ref)) = ref
          /\ ToSet(Commit(v, ref)) \subseteq ToSet(v) \cup {ref}
      BY <2>1, CommitIs
    <2> QED  BY <1>3, <2>2
  <1> HIDE DEF Fine
  <1>4. 0 \in Good
    BY <1>1 DEF Fine
  <1>5. ASSUME NEW h \in 1 .. to, h - 1 \in Good PROVE h \in Good
    <2>1. Fine(g[h - 1])
      BY <1>5
    <2>2. CASE \E ref \in refs : ref.number = h
      <3>1. (CHOOSE ref \in refs : ref.number = h) \in refs
        BY <2>2
      <3>2. g[h] = Commit(g[h - 1], CHOOSE ref \in refs : ref.number = h)
        BY <1>1, <2>2
      <3>3. Fine(g[h])
        BY <1>3, <2>1, <3>1, <3>2
      <3> QED  BY <3>3
    <2>3. CASE ~\E ref \in refs : ref.number = h
      <3>1. g[h] = g[h - 1]
        BY <1>1, <2>3
      <3> QED  BY <2>1, <3>1
    <2> QED  BY <2>2, <2>3
  <1> HIDE DEF Good
  <1>6. \A h \in 0 .. to : h \in Good
    BY <1>4, <1>5, B!CountingUp
  <1>7. Fine(g[to - 1])
    BY <1>6 DEF Good
  <1>8. (CHOOSE ref \in refs : ref.number = to) = last
    OBVIOUS
  <1>9. g[to] = Commit(g[to - 1], last)
    BY <1>1, <1>8
  <1>10. Fine(g[to]) /\ g[to] # <<>> /\ Last(g[to]) = last
    BY <1>3, <1>7, <1>9
  <1> QED  BY <1>2, <1>10 DEF Fine

(* The judgement of a header.                                              *)
LEMMA InspectIs ==
    ASSUME NEW w \in Seq(Ref), Increasing(w), NEW block, block.number \in Nat
    PROVE  LET decision == Inspect(w, block)
           IN  /\ decision.action \in {"append", "gap", "duplicate", "reorg", "reindex_required"}
               /\ decision.action = "reorg" => w # <<>> /\ HasHeight(w, decision.rollbackTo)
               /\ decision.action = "duplicate" => w # <<>> /\ HasHeight(w, block.number)
               /\ decision.action = "append" /\ w # <<>> =>
                    block.parent = Last(w).hash /\ block.number = Last(w).number + 1
               /\ decision.action = "gap" => w # <<>> /\ block.number > Last(w).number + 1
  <1> DEFINE D == Inspect(w, block)
             fork == LocateFork(w, block)
  <1>1. CASE w = <<>>
    BY <1>1 DEF Inspect
  <1>2. CASE w # <<>>
    <2>1. DOMAIN w = 1 .. Len(w) /\ \A i \in DOMAIN w : w[i] \in ToSet(w)
      BY DEF ToSet
    <2>2. w[1] \in ToSet(w)
      BY <1>2, WindowEnds
    <2>3. /\ fork.action \in {"reorg", "reindex_required"}
          /\ fork.action = "reorg" => HasHeight(w, fork.rollbackTo)
      <3> DEFINE parents == Retained(w, block.number - 1)
      <3>1. CASE block.number <= EarliestRetained(w) \/ parents = {}
        BY <1>2, <3>1 DEF LocateFork
      <3>2. CASE ~(block.number <= EarliestRetained(w)) /\ parents # {}
        <4>1. fork = [action |-> "reorg",
                      rollbackTo |-> IF \E i \in parents : w[i].hash = block.parent
                                     THEN block.number - 1 ELSE EarliestRetained(w)]
          BY <1>2, <3>2 DEF LocateFork
        <4>2. \A i \in parents : w[i].number = block.number - 1 /\ w[i] \in ToSet(w)
          BY <2>1 DEF Retained
        <4>3. HasHeight(w, block.number - 1)
          BY <3>2, <4>2 DEF HasHeight
        <4>4. HasHeight(w, EarliestRetained(w))
          BY <2>2 DEF HasHeight, EarliestRetained
        <4> HIDE DEF fork, parents
        <4> QED  BY <4>1, <4>3, <4>4
      <3> QED  BY <3>1, <3>2
    <2>4. (\E i \in Retained(w, block.number) : w[i].hash = block.hash) => HasHeight(w, block.number)
      BY <2>1 DEF Retained, HasHeight
    <2> DEFINE same == \E i \in Retained(w, block.number) : w[i].hash = block.hash
               next == block.parent = Last(w).hash /\ block.number = Last(w).number + 1
    <2>5. D = IF next THEN [action |-> "append"]
              ELSE IF block.number > Last(w).number + 1 THEN [action |-> "gap"]
              ELSE IF same THEN [action |-> "duplicate"] ELSE fork
      BY <1>2 DEF Inspect
    <2> HIDE DEF fork, same, D
    <2>6. CASE next
      BY <1>2, <2>5, <2>6 DEF D
    <2>7. CASE ~next /\ block.number > Last(w).number + 1
      BY <1>2, <2>5, <2>7 DEF D
    <2>8. CASE ~next /\ ~(block.number > Last(w).number + 1) /\ same
      BY <1>2, <2>4, <2>5, <2>8 DEF D, same
    <2>9. CASE ~next /\ ~(block.number > Last(w).number + 1) /\ ~same
      BY <1>2, <2>3, <2>5, <2>9 DEF D
    <2> QED  BY <2>6, <2>7, <2>8, <2>9
  <1> QED  BY <1>1, <1>2

-----------------------------------------------------------------------------
(* What the two kinds of transaction leave of the mirror                   *)

(* Nothing above the cursor, and no row of a market below its launch.      *)
Bounded(d) ==
    /\ \A b \in d.blocks : b.number <= d.cursor
    /\ d.market.launchedAt <= d.cursor
    /\ \A r \in d.rows : r.block <= d.cursor /\ d.market.launchedAt <= r.block

(* Types of a database's fields.                                           *)
LEMMA DbFields ==
    ASSUME NEW d, DbOK(d)
    PROVE  /\ d.cursor \in Nat /\ d.blocks \in SUBSET Block /\ \A b \in d.blocks : b.number \in Nat \ {0}
           /\ \A r \in d.rows : r.block \in Nat /\ Key(r)[2] = r.block
           /\ d.market.launchedAt \in Nat /\ d.market = [launchedAt |-> d.market.launchedAt]
           /\ HasMarket(d) <=> d.market.launchedAt # 0
  <1>1. /\ d.cursor \in Nat /\ d.blocks \in SUBSET Block /\ d.market \in [launchedAt : Nat]
        /\ d.rows \in SUBSET DbRow
    BY DEF DbOK, Db
  <1>2. \A b \in Block : b.number \in Nat \ {0}
    BY DEF Block
  <1>3. \A r \in DbRow : r.block \in Nat /\ Key(r)[2] = r.block
    BY DEF DbRow, Key
  <1>4. d.market.launchedAt \in Nat /\ d.market = [launchedAt |-> d.market.launchedAt]
    BY <1>1
  <1>5. HasMarket(d) <=> d.market.launchedAt # 0
    BY <1>4 DEF HasMarket, NoMarket, NoBlock
  <1> QED  BY <1>1, <1>2, <1>3, <1>4, <1>5

Rewound(d, n) == SetCursor(RollbackTo(d, n), n)

(* What is left of a database that goes back to a height.                  *)
CutAt(d, x, n) ==
    /\ DbOK(x) /\ Accepted(x) /\ x.cursor = n
    /\ x.blocks = {b \in d.blocks : b.number <= n}
    /\ x.rows = IF d.market.launchedAt <= n THEN {r \in d.rows : r.block <= n} ELSE {}
    /\ x.market = IF d.market.launchedAt <= n THEN d.market ELSE NoMarket

(* A rewind goes back to the height and keeps the constraints.             *)
LEMMA RewoundTypes ==
    ASSUME NEW d, DbOK(d), Accepted(d), NEW n \in Nat
    PROVE  CutAt(d, Rewound(d, n), n)
  <1> DEFINE y == RollbackTo(d, n)
  <1>1. /\ DbOK(y) /\ Accepted(y)
        /\ y.blocks = {b \in d.blocks : b.number <= n}
        /\ y.rows = IF d.market.launchedAt <= n THEN {r \in d.rows : r.block <= n} ELSE {}
        /\ y.market = IF d.market.launchedAt <= n THEN d.market ELSE NoMarket
    BY RollbackTypes
  <1>2. Rewound(d, n) = SetCursor(y, n)
    BY DEF Rewound
  <1> HIDE DEF y
  <1> DEFINE x == SetCursor(y, n)
  <1>3. /\ DbOK(x) /\ x.cursor = n /\ Accepted(x)
        /\ x.blocks = y.blocks /\ x.rows = y.rows /\ x.market = y.market
    BY <1>1, CursorMoves
  <1> HIDE DEF x
  <1>4. Rewound(d, n) = x
    BY <1>2 DEF x
  <1> QED  BY <1>1, <1>3, <1>4 DEF CutAt

(* A rewind cuts exactly the rows above the height, and what mirrored the  *)
(* chain up to there still does.                                           *)
LEMMA RewoundMirrors ==
    ASSUME NEW d, DbOK(d), Accepted(d), NEW n \in Nat, Bounded(d)
    PROVE  /\ Bounded(Rewound(d, n))
           /\ Rewound(d, n).rows = {r \in d.rows : r.block <= n}
           /\ \A c, m : m \in Nat /\ m <= n /\ Mirrors(c, d, m) => Mirrors(c, Rewound(d, n), m)
           /\ HasMarket(Rewound(d, n)) => HasMarket(d) /\ d.market.launchedAt <= n
  <1>0. CutAt(d, Rewound(d, n), n)
    BY RewoundTypes
  <1> DEFINE x == Rewound(d, n)
             at == d.market.launchedAt
  <1>1. /\ DbOK(x) /\ x.cursor = n
        /\ x.blocks = {b \in d.blocks : b.number <= n}
        /\ x.rows = IF at <= n THEN {r \in d.rows : r.block <= n} ELSE {}
        /\ x.market = IF at <= n THEN d.market ELSE NoMarket
    BY <1>0 DEF CutAt
  <1>2. NoMarket.launchedAt = 0
    BY DEF NoMarket, NoBlock
  <1>3. /\ at \in Nat /\ \A r \in d.rows : r.block \in Nat
        /\ x.market.launchedAt \in Nat /\ (HasMarket(x) <=> x.market.launchedAt # 0)
        /\ (HasMarket(d) <=> at # 0)
    BY <1>1, DbFields
  <1>4. \A r \in d.rows : at <= r.block
    BY DEF Bounded
  <1> HIDE DEF x, at
  <1>5. x.rows = {r \in d.rows : r.block <= n}
    <2>1. CASE at <= n
      BY <1>1, <2>1
    <2>2. CASE ~(at <= n)
      <3>1. \A r \in d.rows : ~(r.block <= n)
        BY <1>3, <1>4, <2>2
      <3> QED  BY <1>1, <2>2, <3>1
    <2> QED  BY <2>1, <2>2
  <1>6. x.market.launchedAt = IF at <= n THEN at ELSE 0
    BY <1>1, <1>2 DEF at
  <1>7. Bounded(x)
    BY <1>1, <1>3, <1>4, <1>5, <1>6 DEF Bounded
  <1>8. ASSUME NEW c, NEW m, m \in Nat, m <= n, Mirrors(c, d, m) PROVE Mirrors(c, x, m)
    <2>1. {r \in x.rows : r.block <= m} = {r \in d.rows : r.block <= m}
      BY <1>3, <1>5, <1>8
    <2>2. \A h \in 1 .. m : c[h].what = "launch" => x.market.launchedAt = h
      <3>1. \A h \in 1 .. m : c[h].what = "launch" => at = h
        BY <1>8 DEF Mirrors, at
      <3> QED  BY <1>3, <1>6, <1>8, <3>1
    <2>3. x.market.launchedAt \in 1 .. m => c[x.market.launchedAt].what = "launch"
      <3>1. at \in 1 .. m => c[at].what = "launch"
        BY <1>8 DEF Mirrors, at
      <3> QED  BY <1>3, <1>6, <1>8, <3>1
    <2>4. \A b \in x.blocks : b.number <= m => CanonicalOn(c, b)
      BY <1>1, <1>8 DEF Mirrors
    <2>5. Keys({r \in x.rows : r.block <= m}) = KeysOf(c, 1, m)
      BY <1>8, <2>1 DEF Mirrors
    <2> QED  BY <2>2, <2>3, <2>4, <2>5 DEF Mirrors
  <1>9. HasMarket(x) => HasMarket(d) /\ at <= n
    BY <1>3, <1>6
  <1> QED  BY <1>5, <1>7, <1>8, <1>9 DEF x, at

(* A full reindex leaves nothing.                                          *)
LEMMA EmptiedMirrors ==
    ASSUME NEW d, DbOK(d), Accepted(d)
    PROVE  LET x == Rewound(d, 0)
           IN  /\ x.rows = {} /\ x.blocks = {} /\ ~HasMarket(x) /\ Bounded(x)
               /\ \A c : Mirrors(c, x, 0)
  <1> DEFINE x == Rewound(d, 0)
             at == d.market.launchedAt
  <1>0. CutAt(d, Rewound(d, 0), 0)
    <2>1. PICK n : n = 0
      OBVIOUS
    <2>2. n \in Nat
      BY <2>1
    <2>3. CutAt(d, Rewound(d, n), n)
      BY <2>2, RewoundTypes
    <2> QED  BY <2>1, <2>3
  <1>1. /\ DbOK(x) /\ x.cursor = 0
        /\ x.blocks = {b \in d.blocks : b.number <= 0}
        /\ x.rows = IF at <= 0 THEN {r \in d.rows : r.block <= 0} ELSE {}
        /\ x.market = IF at <= 0 THEN d.market ELSE NoMarket
    BY <1>0 DEF CutAt
  <1>2. NoMarket.launchedAt = 0
    BY DEF NoMarket, NoBlock
  <1>3. /\ at \in Nat /\ \A b \in d.blocks : b.number \in Nat \ {0}
        /\ (HasMarket(x) <=> x.market.launchedAt # 0)
    BY <1>1, DbFields
  <1>4. \A r \in d.rows : \E b \in d.blocks : b.number = r.block
    BY DEF Accepted
  <1> HIDE DEF x
  <1>5. x.blocks = {} /\ x.rows = {} /\ x.market.launchedAt = 0
    BY <1>1, <1>2, <1>3, <1>4
  <1>6. Bounded(x)
    BY <1>1, <1>5 DEF Bounded
  <1>7. ASSUME NEW c PROVE Mirrors(c, x, 0)
    <2>1. KeysOf(c, 1, 0) = {} /\ 1 .. 0 = {}
      BY DEF KeysOf
    <2> QED  BY <1>5, <2>1 DEF Mirrors, Keys
  <1> QED  BY <1>3, <1>5, <1>6, <1>7 DEF x

-----------------------------------------------------------------------------
(* A range                                                                 *)

(* Rows up to the end of a range that joins, or overlaps, what is there.   *)
LEMMA RangeKeys ==
    ASSUME NEW c, NEW from \in Nat \ {0}, NEW cursor \in Nat, NEW to \in Nat,
           from <= cursor + 1, cursor <= to
    PROVE  KeysOf(c, 1, to) = KeysOf(c, 1, cursor) \cup KeysOf(c, from, to)
  <1>1. \A h : h \in 1 .. to <=> h \in 1 .. cursor \/ h \in from .. to
    OBVIOUS
  <1> QED  BY <1>1 DEF KeysOf

Extends(c, d, x, logs, from, to) ==
    /\ Mirrors(c, x, to) /\ Bounded(x)
    /\ d.rows \subseteq x.rows /\ \A r \in x.rows \ d.rows : r.block > d.cursor
    /\ \A k : /\ HasMarket(x) /\ ~k
              /\ HasMarket(d) => d.market.launchedAt >= from
              => x.market.launchedAt >= from /\ LaunchedIn(logs)

(* Processing a range carries the mirror to its end, also where part of    *)
(* the range was processed before.                                         *)
LEMMA RangeMirrors ==
    ASSUME NEW c \in Seq(ChainBlock), History(c), NEW d, DbOK(d), NEW x, DbOK(x),
           NEW logs \in Seq(Event), NEW refs, NEW from \in Nat \ {0}, NEW to \in Nat,
           from <= d.cursor + 1, d.cursor <= to, to <= Len(c), x.cursor = to,
           Mirrors(c, d, d.cursor), Bounded(d), Gathered(c, logs, from, to), Records(d, x, logs),
           BlocksOf(d, x, refs), \A r \in refs : CanonicalOn(c, r) /\ r.number <= to,
           \A e \in ToSet(logs) : e.block \in from .. to
    PROVE  Extends(c, d, x, logs, from, to)
  <1>0. /\ d.cursor \in Nat /\ Len(c) \in Nat
        /\ \A b \in d.blocks : b.number \in Nat
        /\ \A r \in x.rows : r.block \in Nat /\ Key(r)[2] = r.block
        /\ d.market.launchedAt \in Nat /\ x.market.launchedAt \in Nat
        /\ (HasMarket(d) <=> d.market.launchedAt # 0)
        /\ (HasMarket(x) <=> x.market.launchedAt # 0)
    <2>1. d.cursor \in Nat /\ (\A b \in d.blocks : b.number \in Nat)
          /\ d.market.launchedAt \in Nat /\ (HasMarket(d) <=> d.market.launchedAt # 0)
      BY DbFields
    <2>2. (\A r \in x.rows : r.block \in Nat /\ Key(r)[2] = r.block)
          /\ x.market.launchedAt \in Nat /\ (HasMarket(x) <=> x.market.launchedAt # 0)
      BY DbFields
    <2>3. Len(c) \in Nat
      OBVIOUS
    <2> QED  BY <2>1, <2>2, <2>3
  <1> DEFINE cursor == d.cursor
             at == d.market.launchedAt
             mark == x.market.launchedAt
  <1>1. \A b \in x.blocks : CanonicalOn(c, b) /\ b.number <= to
    <2> SUFFICES ASSUME NEW b \in x.blocks PROVE CanonicalOn(c, b) /\ b.number <= to
      OBVIOUS
    <2>1. PICK r \in d.blocks \cup refs : r.number = b.number /\ r.hash = b.hash
      BY DEF BlocksOf
    <2>2. CanonicalOn(c, r) /\ r.number <= to
      <3>1. CASE r \in d.blocks
        <4>1. r.number <= d.cursor
          BY <3>1 DEF Bounded
        <4> QED  BY <1>0, <3>1, <4>1 DEF Mirrors
      <3>2. CASE r \in refs
        BY <3>2
      <3> QED  BY <3>1, <3>2
    <2> QED  BY <2>1, <2>2 DEF CanonicalOn
  <1>2. Keys(d.rows) = KeysOf(c, 1, cursor)
    <2>1. {r \in d.rows : r.block <= cursor} = d.rows
      BY DEF Bounded
    <2> QED  BY <2>1 DEF Mirrors
  <1>3. Keys(x.rows) = KeysOf(c, 1, to)
    <2>1. Keys(x.rows) = Keys(d.rows) \cup KeysOf(c, from, to)
      BY DEF Records, Gathered
    <2> QED  BY <1>0, <1>2, <2>1, RangeKeys
  <1>4. \A r \in x.rows : r.block \in 1 .. to /\ Key(r) \in KeysAt(c, r.block)
    <2> SUFFICES ASSUME NEW r \in x.rows PROVE r.block \in 1 .. to /\ Key(r) \in KeysAt(c, r.block)
      OBVIOUS
    <2>3. Key(r) \in KeysOf(c, 1, to)
      BY <1>3 DEF Keys
    <2>1. PICK h \in 1 .. to : Key(r) \in KeysAt(c, h)
      BY <2>3 DEF KeysOf
    <2>2. Key(r)[2] = h
      BY <2>1, KeyHeights
    <2> QED  BY <1>0, <2>1, <2>2
  <1>5. Keys({r \in x.rows : r.block <= to}) = KeysOf(c, 1, to)
    <2>1. {r \in x.rows : r.block <= to} = x.rows
      BY <1>4
    <2> QED  BY <1>3, <2>1
  <1>6. \A r \in x.rows \ d.rows : r.block > cursor
    <2> SUFFICES ASSUME NEW r \in x.rows \ d.rows PROVE r.block > cursor
      OBVIOUS
    <2>1. Key(r) \notin KeysOf(c, 1, cursor)
      BY <1>2 DEF Records
    <2>2. r.block \notin 1 .. cursor
      BY <1>4, <2>1 DEF KeysOf
    <2> QED  BY <1>0, <1>4, <2>2
  <1>7. HasMarket(d) => at \in 1 .. cursor /\ c[at].what = "launch"
    <2>1. HasMarket(d) => at \in 1 .. cursor
      BY <1>0 DEF Bounded
    <2> QED  BY <2>1 DEF Mirrors
  <1>8. \A e \in ToSet(logs) : IsLaunch(e) <=> e.kind = "TokenLaunched"
    <2>1. \A e \in ToSet(logs) : e \in Event
      BY DEF ToSet
    <2> QED  BY <2>1, EventFields DEF IsLaunch
  <1> DEFINE Marked == /\ \A h \in 1 .. to : c[h].what = "launch" => mark = h
                       /\ mark \in 1 .. to => c[mark].what = "launch"
                       /\ mark <= to
                       /\ \A k : /\ HasMarket(x) /\ ~k
                                 /\ HasMarket(d) => at >= from
                                 => mark >= from /\ LaunchedIn(logs)
  <1>9. ASSUME HasMarket(d) PROVE Marked
    <2>1. x.market = d.market
      BY <1>9 DEF Records, MarketFrom
    <2>2. mark = at /\ mark \in 1 .. to /\ c[mark].what = "launch"
      BY <1>0, <1>7, <1>9, <2>1
    <2>3. mark >= from => LaunchedIn(logs)
      <3> SUFFICES ASSUME mark >= from PROVE LaunchedIn(logs)
        OBVIOUS
      <3>1. mark \in from .. to
        BY <1>0, <2>2
      <3> QED  BY <2>2, <3>1, LaunchedMembers DEF Gathered, LaunchesAt
    <2>4. \A h \in 1 .. to : c[h].what = "launch" => mark = h
      BY <1>0, <2>2 DEF History
    <2>5. \A k : /\ HasMarket(x) /\ ~k
                 /\ HasMarket(d) => at >= from
                 => mark >= from /\ LaunchedIn(logs)
      BY <1>9, <2>2, <2>3
    <2> QED  BY <2>2, <2>4, <2>5
  <1>10. ASSUME ~HasMarket(d), \E e \in ToSet(logs) : IsLaunch(e) PROVE Marked
    <2>1. PICK e \in ToSet(logs) : IsLaunch(e) /\ x.market = [launchedAt |-> e.block]
      BY <1>10 DEF Records, MarketFrom
    <2>2. mark = e.block /\ mark \in from .. to /\ c[mark].what = "launch"
      BY <1>8, <2>1 DEF Gathered, LaunchesAt
    <2>3. mark \in 1 .. to /\ LaunchedIn(logs) /\ mark >= from
      BY <1>8, <2>1, <2>2, LaunchedMembers
    <2>4. \A h \in 1 .. to : c[h].what = "launch" => mark = h
      BY <1>0, <2>2, <2>3 DEF History
    <2> QED  BY <2>2, <2>3, <2>4
  <1>11. ASSUME ~HasMarket(d), ~ \E e \in ToSet(logs) : IsLaunch(e) PROVE Marked
    <2>1. x.market = d.market
      BY <1>11 DEF Records, MarketFrom
    <2>2. mark = 0 /\ ~HasMarket(x)
      BY <1>0, <1>11, <2>1
    <2>3. \A h \in 1 .. to : c[h].what # "launch"
      <3> SUFFICES ASSUME NEW h \in 1 .. to, c[h].what = "launch" PROVE FALSE
        OBVIOUS
      <3>1. CASE h \in 1 .. cursor
        <4>1. at = h
          BY <3>1 DEF Mirrors
        <4> QED  BY <1>0, <1>11, <3>1, <4>1
      <3>2. CASE h \in from .. to
        BY <1>8, <1>11, <3>2 DEF Gathered, LaunchesAt
      <3> QED  BY <1>0, <3>1, <3>2
    <2> QED  BY <1>0, <2>2, <2>3
  <1>12. Marked
    BY <1>9, <1>10, <1>11
  <1>13. Mirrors(c, x, to)
    BY <1>1, <1>5, <1>12 DEF Mirrors
  <1>14. Bounded(x)
    <2>1. \A r \in x.rows : mark <= r.block
      <3> SUFFICES ASSUME NEW r \in x.rows PROVE mark <= r.block
        OBVIOUS
      <3>1. r.block \in 1 .. Len(c) /\ KeysAt(c, r.block) # {}
        BY <1>0, <1>4
      <3>2. PICK g \in 1 .. r.block : c[g].what = "launch"
        BY <3>1, RowsFollowLaunch
      <3> QED  BY <1>0, <1>4, <1>12, <3>2
    <2> QED  BY <1>0, <1>1, <1>4, <1>12, <2>1 DEF Bounded
  <1> QED  BY <1>6, <1>12, <1>13, <1>14 DEF Records, Extends

-----------------------------------------------------------------------------
(* The marks of the commitment: which event made it, in which block         *)

MarkKinds == {"CommitmentSubmitted", "CommitmentActivated", "PendingCommitmentCancelled"}
MarkAt(d, kind) ==
    CASE kind = "CommitmentSubmitted"        -> d.commitment.submitted
      [] kind = "CommitmentActivated"        -> d.commitment.activated
      [] kind = "PendingCommitmentCancelled" -> d.commitment.cancelled
Cause(kind) ==
    CASE kind = "CommitmentSubmitted"        -> "submit"
      [] kind = "CommitmentActivated"        -> "activate"
      [] kind = "PendingCommitmentCancelled" -> "cancel"

Marks(d) == {m \in MarkKinds \X (Nat \ {0}) : MarkAt(d, m[1]) = m[2]}
MarksOf(events) == {m \in MarkKinds \X Nat : \E e \in events : e.kind = m[1] /\ e.block = m[2]}
MarksOn(c, from, to) == {m \in MarkKinds \X (from .. to) : c[m[2]].what = Cause(m[1])}

(* Logs in the order of their blocks.                                      *)
InOrder(s) == \A i, j \in 1 .. Len(s) : i < j => s[i].block <= s[j].block

(* A later log at the end keeps the order.                                 *)
LEMMA AppendInOrder ==
    ASSUME NEW T, NEW s \in Seq(T), NEW x, InOrder(s), \A y \in ToSet(s) : y.block <= x.block
    PROVE  InOrder(Append(s, x))
  <1> DEFINE t == Append(s, x)
  <1>1. /\ Len(s) \in Nat /\ Len(t) = Len(s) + 1 /\ t[Len(s) + 1] = x
        /\ \A i \in 1 .. Len(s) : t[i] = s[i]
    OBVIOUS
  <1> HIDE DEF t
  <1>2. ASSUME NEW i \in 1 .. Len(t), NEW j \in 1 .. Len(t), i < j
        PROVE  t[i].block <= t[j].block
    <2>1. i \in 1 .. Len(s) /\ t[i] = s[i] /\ s[i] \in ToSet(s)
      BY <1>1, <1>2 DEF ToSet
    <2>2. CASE j \in 1 .. Len(s)
      BY <1>1, <1>2, <2>1, <2>2 DEF InOrder
    <2>3. CASE j = Len(s) + 1
      BY <1>1, <2>1, <2>3
    <2> QED  BY <1>1, <2>2, <2>3
  <1> QED  BY <1>2 DEF InOrder, t

(* What is kept of logs in order is in order.                              *)
LEMMA KeptInOrder ==
    ASSUME NEW T, NEW s \in Seq(T), NEW set, InOrder(s)
    PROVE  InOrder(Kept(s, set))
  <1> DEFINE g == KeptSoFar(s, set)
             Upto(i) == {s[j] : j \in 1 .. i}
             Good == {i \in 0 .. Len(s) :
                        g[i] \in Seq(T) /\ ToSet(g[i]) \subseteq Upto(i) /\ InOrder(g[i])}
  <1>1. Len(s) \in Nat
    OBVIOUS
  <1>2. 0 \in Good
    <2>1. g[0] = <<>>
      BY KeptUnfolds
    <2> HIDE DEF g
    <2>2. <<>> \in Seq(T) /\ ToSet(<<>>) = {} /\ Len(<<>>) = 0
      BY DEF ToSet
    <2>3. InOrder(<<>>)
      BY <2>2 DEF InOrder
    <2>4. 0 \in 0 .. Len(s)
      BY <1>1
    <2> QED  BY <2>1, <2>2, <2>3, <2>4
  <1>3. ASSUME NEW i \in 1 .. Len(s), i - 1 \in Good PROVE i \in Good
    <2> DEFINE before == g[i - 1]
               x == s[i]
    <2>1. g[i] = IF x \in set THEN Append(before, x) ELSE before
      BY KeptUnfolds
    <2>2. before \in Seq(T) /\ ToSet(before) \subseteq Upto(i - 1) /\ InOrder(before)
      BY <1>3
    <2>3. i \in Nat /\ i \in 0 .. Len(s) /\ x \in T
      BY <1>1
    <2>4. Upto(i) = Upto(i - 1) \cup {x}
      <3>1. \A j : j \in 1 .. i <=> j \in 1 .. i - 1 \/ j = i
        BY <2>3
      <3> QED  BY <3>1
    <2>5. ASSUME NEW y \in ToSet(before) PROVE y.block <= x.block
      <3>1. PICK j \in 1 .. i - 1 : y = s[j]
        BY <2>2
      <3>2. j \in 1 .. Len(s) /\ j < i
        BY <1>1, <2>3, <3>1
      <3> QED  BY <3>1, <3>2 DEF InOrder
    <2> HIDE DEF g, before, x, Upto
    <2>6. /\ Append(before, x) \in Seq(T) /\ InOrder(Append(before, x))
          /\ ToSet(Append(before, x)) = ToSet(before) \cup {x}
      <3>1. InOrder(Append(before, x))
        BY <2>2, <2>5, AppendInOrder
      <3>2. /\ DOMAIN before = 1 .. Len(before) /\ Len(before) \in Nat
            /\ DOMAIN Append(before, x) = 1 .. Len(before) + 1
            /\ \A j \in 1 .. Len(before) : Append(before, x)[j] = before[j]
            /\ Append(before, x)[Len(before) + 1] = x
        BY <2>2, <2>3
      <3>3. \A j : j \in 1 .. Len(before) + 1 <=> j \in 1 .. Len(before) \/ j = Len(before) + 1
        BY <3>2
      <3>4. ToSet(Append(before, x)) = ToSet(before) \cup {x}
        BY <3>2, <3>3 DEF ToSet
      <3>5. Append(before, x) \in Seq(T)
        BY <2>2, <2>3
      <3> QED  BY <3>1, <3>4, <3>5
    <2>7. CASE x \in set
      BY <2>1, <2>2, <2>3, <2>4, <2>6, <2>7 DEF g
    <2>8. CASE x \notin set
      BY <2>1, <2>2, <2>3, <2>4, <2>8 DEF g
    <2> QED  BY <2>7, <2>8
  <1> HIDE DEF Good
  <1>4. \A i \in 0 .. Len(s) : i \in Good
    BY <1>1, <1>2, <1>3, B!CountingUp
  <1>5. Len(s) \in Good
    BY <1>1, <1>4
  <1> QED  BY <1>5, KeptIsLast DEF Good

(* Two sequences of logs, the second one later.                            *)
LEMMA JoinedInOrder ==
    ASSUME NEW T, NEW u \in Seq(T), NEW v \in Seq(T), InOrder(u), InOrder(v),
           \A a \in ToSet(u), b \in ToSet(v) : a.block <= b.block
    PROVE  InOrder(u \o v)
  <1> DEFINE t == u \o v
             m == Len(u)
  <1>1. /\ Len(t) = m + Len(v)
        /\ \A i \in 1 .. Len(t) : t[i] = IF i <= m THEN u[i] ELSE v[i - m]
    BY Joined
  <1>2. m \in Nat /\ Len(v) \in Nat /\ DOMAIN u = 1 .. m /\ DOMAIN v = 1 .. Len(v)
    OBVIOUS
  <1> HIDE DEF t, m
  <1>3. ASSUME NEW i \in 1 .. Len(t), NEW j \in 1 .. Len(t), i < j
        PROVE  t[i].block <= t[j].block
    <2>1. CASE j <= m
      <3>1. i \in 1 .. m /\ j \in 1 .. m /\ t[i] = u[i] /\ t[j] = u[j]
        BY <1>1, <1>2, <1>3, <2>1
      <3> QED  BY <1>3, <3>1 DEF InOrder, m
    <2>2. CASE i > m
      <3>1. i - m \in 1 .. Len(v) /\ j - m \in 1 .. Len(v) /\ i - m < j - m /\ t[i] = v[i - m] /\ t[j] = v[j - m]
        BY <1>1, <1>2, <1>3, <2>2
      <3> QED  BY <3>1 DEF InOrder
    <2>3. CASE i <= m /\ ~(j <= m)
      <3>1. i \in 1 .. m /\ j - m \in 1 .. Len(v) /\ t[i] = u[i] /\ t[j] = v[j - m]
        BY <1>1, <1>2, <1>3, <2>3
      <3>2. t[i] \in ToSet(u) /\ t[j] \in ToSet(v)
        BY <1>2, <3>1 DEF ToSet
      <3> QED  BY <3>2
    <2> QED  BY <1>1, <1>2, <2>1, <2>2, <2>3
  <1> QED  BY <1>3 DEF InOrder, t

(* Logs of consecutive blocks, joined.                                     *)
LEMMA FlattenInOrder ==
    ASSUME NEW seqs \in Seq(Seq(Event)), Len(seqs) # 0, NEW base \in Nat,
           \A i \in 1 .. Len(seqs) : \A e \in ToSet(seqs[i]) : e.block = base + i
    PROVE  InOrder(FlattenSeq(seqs))
  <1> DEFINE f == B!Flat(seqs)
             n == Len(seqs)
             Good == {i \in 0 .. n : i # 0 =>
                        /\ f[i] \in Seq(Event) /\ InOrder(f[i])
                        /\ \A e \in ToSet(f[i]) : e.block \in Nat /\ e.block <= base + i}
  <1>1. n \in Nat /\ \A i \in 1 .. n : seqs[i] \in Seq(Event)
    OBVIOUS
  <1>2. B!IsFlat(f, seqs)
    BY B!FlatExists DEF B!Flat
  <1>3. 0 \in Good
    BY <1>1
  <1>4. ASSUME NEW i \in 1 .. n, i - 1 \in Good PROVE i \in Good
    <2>1. f[i] = IF i = 1 THEN seqs[i] ELSE f[i - 1] \o seqs[i]
      BY <1>2 DEF B!IsFlat
    <2>2. i \in Nat /\ i \in 0 .. n /\ base + i \in Nat /\ seqs[i] \in Seq(Event)
      BY <1>1
    <2>3. \A e \in ToSet(seqs[i]) : e.block = base + i
      OBVIOUS
    <2>4. i # 1 => /\ f[i - 1] \in Seq(Event) /\ InOrder(f[i - 1])
                   /\ \A e \in ToSet(f[i - 1]) : e.block \in Nat /\ e.block <= base + (i - 1)
      BY <1>4, <2>2
    <2>5. InOrder(seqs[i])
      <3>1. \A j \in 1 .. Len(seqs[i]) : seqs[i][j] \in ToSet(seqs[i])
        BY <2>2 DEF ToSet
      <3>2. \A j \in 1 .. Len(seqs[i]) : seqs[i][j].block = base + i
        BY <2>3, <3>1
      <3> QED  BY <2>2, <3>2 DEF InOrder
    <2> HIDE DEF f, n
    <2>6. CASE i = 1
      BY <2>1, <2>2, <2>3, <2>5, <2>6
    <2>7. CASE i # 1
      <3>1. f[i] = f[i - 1] \o seqs[i]
        BY <2>1, <2>7
      <3>2. f[i] \in Seq(Event) /\ ToSet(f[i]) = ToSet(f[i - 1]) \cup ToSet(seqs[i])
        BY <2>2, <2>4, <2>7, <3>1, B!JoinedMembers, Copies
      <3>3. \A a \in ToSet(f[i - 1]) : \A b \in ToSet(seqs[i]) : a.block <= b.block
        <4>1. \A x \in Nat : x <= base + (i - 1) => x <= base + i
          BY <2>2
        <4> QED  BY <2>3, <2>4, <2>7, <4>1
      <3>4. InOrder(f[i])
        BY <2>2, <2>4, <2>5, <2>7, <3>1, <3>3, JoinedInOrder
      <3>5. \A e \in ToSet(f[i]) : e.block \in Nat /\ e.block <= base + i
        <4>1. \A x \in Nat : x <= base + (i - 1) => x <= base + i
          BY <2>2
        <4>2. \A e \in ToSet(f[i - 1]) : e.block \in Nat /\ e.block <= base + i
          BY <2>4, <2>7, <4>1
        <4> QED  BY <2>2, <2>3, <3>2, <4>2
      <3> QED  BY <2>2, <3>2, <3>4, <3>5
    <2> QED  BY <2>6, <2>7
  <1> HIDE DEF Good
  <1> HIDE DEF n
  <1>5. \A i \in 0 .. n : i \in Good
    BY <1>1, <1>3, <1>4, B!CountingUp
  <1>6. n \in Good
    BY <1>1, <1>5
  <1>7. FlattenSeq(seqs) = f[n]
    BY B!FlattenIsLast DEF FlattenSeq, B!FlattenSeq, n
  <1> QED  BY <1>6, <1>7 DEF Good, n

-----------------------------------------------------------------------------
(* What the logs tell of the commitment                                     *)

(* What a block announces of the commitment is what happened in it.        *)
Tells(logs, what) ==
    /\ \A e \in ToSet(logs) : e.kind \in MarkKinds => what = Cause(e.kind)
    /\ \A kind \in MarkKinds : what = Cause(kind) => \E e \in ToSet(logs) : e.kind = kind

(* The logs of a block tell of the commitment what the block did to it.    *)
LEMMA LogsAtTell ==
    ASSUME ChainInv, NEW h \in 1 .. Tip
    PROVE  Tells(LogsAt(h), chain[h].what)
  <1> DEFINE what == chain[h].what
             sold == SoldBy(SubSeq(chain, 1, h))
             logs == LogsAt(h)
  <1>1. h \in Nat /\ chain[h] \in ChainBlock
    BY DEF ChainInv, Tip
  <1>2. what \in AllPayloads
    BY <1>1 DEF ChainBlock
  <1> HIDE DEF what, sold, logs
  <1>3. \A s, k, i : Plain(h, i, s, k).kind = k
    BY DEF Plain
  <1>4. \A a, b, v : Transfer(h, a, b, v).kind = "Transfer"
    BY DEF Transfer
  <1>5. \A k, v : Trade(h, k, v).kind = k
    BY DEF Trade
  <1>6. \A kind \in MarkKinds : Cause(kind) \in {"submit", "activate", "cancel"}
    BY DEF MarkKinds, Cause
  <1>7. ASSUME \A e \in ToSet(logs) : e.kind \notin MarkKinds, what \notin {"submit", "activate", "cancel"}
        PROVE  Tells(logs, what)
    BY <1>6, <1>7 DEF Tells
  <1>8. /\ ToSet(<<>>) = {}
        /\ \A a : ToSet(<<a>>) = {a}
        /\ \A a, b : ToSet(<<a, b>>) = {a, b}
        /\ \A a, b, c : ToSet(<<a, b, c>>) = {a, b, c}
    <2>1. ToSet(<<>>) = {}
      BY DEF ToSet
    <2>2. ASSUME NEW a PROVE ToSet(<<a>>) = {a}
      <3>1. DOMAIN <<a>> = {1} /\ <<a>>[1] = a
        OBVIOUS
      <3> QED  BY <3>1 DEF ToSet
    <2>3. ASSUME NEW a, NEW b PROVE ToSet(<<a, b>>) = {a, b}
      <3>1. DOMAIN <<a, b>> = {1, 2} /\ <<a, b>>[1] = a /\ <<a, b>>[2] = b
        OBVIOUS
      <3> QED  BY <3>1 DEF ToSet
    <2>4. ASSUME NEW a, NEW b, NEW c PROVE ToSet(<<a, b, c>>) = {a, b, c}
      <3>1. DOMAIN <<a, b, c>> = {1, 2, 3} /\ <<a, b, c>>[1] = a /\ <<a, b, c>>[2] = b /\ <<a, b, c>>[3] = c
        OBVIOUS
      <3> QED  BY <3>1 DEF ToSet
    <2> QED  BY <2>1, <2>2, <2>3, <2>4
  <1>9. \A kind \in MarkKinds : kind \notin
           {"Transfer", "TokenLaunched", "AssetRegistered", "Bought", "Sold", "GraduationPending",
            "Graduated", "FeesAccrued", "Funded", "Claimed"}
    BY DEF MarkKinds
  <1>10. CASE what = "quiet"
    <2>1. logs = <<>>
      BY <1>10 DEF LogsAt, what, logs
    <2> QED  BY <1>7, <1>8, <1>10, <2>1 DEF what, logs
  <1>11. CASE what = "register"
    <2>1. logs = <<Plain(h, 1, "registry", "AssetRegistered")>>
      BY <1>11 DEF LogsAt, what, logs
    <2>2. \A e \in ToSet(logs) : e.kind \notin MarkKinds
      BY <1>3, <1>8, <1>9, <2>1
    <2> QED  BY <1>7, <1>11, <2>2 DEF what, logs
  <1>12. CASE what = "launch"
    <2>1. logs = <<Transfer(h, "zero", "curve", Supply), Plain(h, 2, "factory", "TokenLaunched")>>
      BY <1>12 DEF LogsAt, what, logs
    <2>2. \A e \in ToSet(logs) : e.kind \notin MarkKinds
      BY <1>3, <1>4, <1>8, <1>9, <2>1
    <2> QED  BY <1>7, <1>12, <2>2 DEF what, logs
  <1>13. CASE what = "buy"
    <2>1. logs = <<Transfer(h, "curve", "alice", 1), Trade(h, "Bought", sold)>>
      BY <1>13 DEF LogsAt, what, logs, sold
    <2>2. \A e \in ToSet(logs) : e.kind \notin MarkKinds
      BY <1>5, <1>4, <1>8, <1>9, <2>1
    <2> QED  BY <1>7, <1>13, <2>2 DEF what, logs
  <1>14. CASE what = "sell"
    <2>1. logs = <<Transfer(h, "alice", "curve", 1), Trade(h, "Sold", sold)>>
      BY <1>14 DEF LogsAt, what, logs, sold
    <2>2. \A e \in ToSet(logs) : e.kind \notin MarkKinds
      BY <1>5, <1>4, <1>8, <1>9, <2>1
    <2> QED  BY <1>7, <1>14, <2>2 DEF what, logs
  <1>15. CASE what = "cross"
    <2>1. logs = <<Transfer(h, "curve", "alice", 1), Trade(h, "Bought", sold),
                   Plain(h, 3, "market", "GraduationPending")>>
      BY <1>15 DEF LogsAt, what, logs, sold
    <2>2. \A e \in ToSet(logs) : e.kind \notin MarkKinds
      BY <1>3, <1>5, <1>4, <1>8, <1>9, <2>1
    <2> QED  BY <1>7, <1>15, <2>2 DEF what, logs
  <1>16. CASE what = "graduate"
    <2> DEFINE b == [source |-> "market", kind |-> "Graduated", pool |-> "pool", block |-> h, log |-> 2]
    <2>1. logs = <<Transfer(h, "curve", "pool", Supply - sold), b>>
      BY <1>16 DEF LogsAt, what, logs, sold
    <2>2. b.kind = "Graduated"
      OBVIOUS
    <2> HIDE DEF b
    <2>3. \A e \in ToSet(logs) : e.kind \notin MarkKinds
      BY <1>4, <1>8, <1>9, <2>1, <2>2
    <2> QED  BY <1>7, <1>16, <2>3 DEF what, logs
  <1>17. CASE what = "accrue"
    <2>1. logs = <<Plain(h, 1, "feeVault", "FeesAccrued"), Plain(h, 2, "rewardVault", "Funded")>>
      BY <1>17 DEF LogsAt, what, logs
    <2>2. \A e \in ToSet(logs) : e.kind \notin MarkKinds
      BY <1>3, <1>8, <1>9, <2>1
    <2> QED  BY <1>7, <1>17, <2>2 DEF what, logs
  <1>18. CASE what \in {"submit", "activate", "cancel"}
    <2>1. PICK k \in MarkKinds : logs = <<Plain(h, 1, "rewardVault", k)>> /\ what = Cause(k)
      BY <1>18 DEF LogsAt, MarkKinds, Cause, what, logs
    <2>2. ToSet(logs) = {Plain(h, 1, "rewardVault", k)}
      BY <1>8, <2>1
    <2>3. \A kind \in MarkKinds : what = Cause(kind) => kind = k
      BY <2>1 DEF MarkKinds, Cause
    <2> QED  BY <1>3, <2>1, <2>2, <2>3 DEF Tells, what, logs
  <1>19. CASE what = "claim"
    <2>1. logs = <<Plain(h, 1, "rewardVault", "Claimed")>>
      BY <1>19 DEF LogsAt, what, logs
    <2>2. \A e \in ToSet(logs) : e.kind \notin MarkKinds
      BY <1>3, <1>8, <1>9, <2>1
    <2> QED  BY <1>7, <1>19, <2>2 DEF what, logs
  <1> QED  BY <1>2, <1>10, <1>11, <1>12, <1>13, <1>14, <1>15, <1>16, <1>17, <1>18, <1>19 DEF AllPayloads

(* So do the logs of consecutive blocks, in the order of the blocks.       *)
LEMMA LogsBetweenTell ==
    ASSUME ChainInv, NEW from \in Nat \ {0}, NEW to \in Nat, to <= Tip
    PROVE  LET logs == LogsBetween(from, to)
           IN  MarksOf(ToSet(logs)) = MarksOn(chain, from, to) /\ InOrder(logs)
  <1> DEFINE logs == LogsBetween(from, to)
  <1>1. CASE to < from
    <2>1. logs = <<>> /\ from .. to = {}
      BY <1>1 DEF LogsBetween
    <2>2. ToSet(<<>>) = {} /\ Len(<<>>) = 0
      BY SmallSequences
    <2> HIDE DEF logs
    <2>3. MarksOf(ToSet(logs)) = {} /\ MarksOn(chain, from, to) = {}
      BY <2>1, <2>2 DEF MarksOf, MarksOn
    <2>4. InOrder(logs)
      BY <2>1, <2>2 DEF InOrder
    <2> QED  BY <2>3, <2>4 DEF logs
  <1>2. CASE ~(to < from)
    <2> DEFINE n == to - from + 1
               seqs == [i \in 1 .. n |-> LogsAt(from + i - 1)]
    <2>1. n \in Nat \ {0} /\ Tip \in Nat
      BY <1>2 DEF ChainInv, Tip
    <2>2. \A i \in 1 .. n : from + i - 1 \in from .. to /\ from + i - 1 \in 1 .. Tip /\ from + i - 1 = (from - 1) + i
      BY <2>1
    <2>3. \A h \in from .. to : h \in 1 .. Tip /\ h - from + 1 \in 1 .. n /\ from + (h - from + 1) - 1 = h
      BY <2>1
    <2>4. \A h \in from .. to : Announces(LogsAt(h), h, KeysAt(chain, h), chain[h].what = "launch")
      BY <2>3, LogsAtAnnounce
    <2>5. \A h \in from .. to : Tells(LogsAt(h), chain[h].what)
      BY <2>3, LogsAtTell
    <2>6. logs = FlattenSeq(seqs)
      BY <1>2 DEF LogsBetween
    <2>7. seqs \in Seq(Seq(Event)) /\ Len(seqs) = n
      <3>1. \A i \in 1 .. n : LogsAt(from + i - 1) \in Seq(Event)
        BY <2>2, <2>4 DEF Announces
      <3> QED  BY <2>1, <3>1
    <2>8. \A i \in 1 .. n : seqs[i] = LogsAt(from + i - 1)
      OBVIOUS
    <2> HIDE DEF n, seqs, logs
    <2>9. ToSet(logs) = UNION {ToSet(seqs[i]) : i \in 1 .. n}
      BY <2>1, <2>6, <2>7, FlattenMembers
    <2>10. ToSet(logs) = UNION {ToSet(LogsAt(h)) : h \in from .. to}
      <3>1. \A i \in 1 .. n : ToSet(seqs[i]) = ToSet(LogsAt(from + i - 1)) /\ from + i - 1 \in from .. to
        BY <2>2, <2>8
      <3>2. \A h \in from .. to : \E i \in 1 .. n : ToSet(seqs[i]) = ToSet(LogsAt(h))
        BY <2>3, <2>8
      <3> QED  BY <2>9, <3>1, <3>2
    <2>11. InOrder(logs)
      <3>1. \A i \in 1 .. Len(seqs) : \A e \in ToSet(seqs[i]) : e.block = (from - 1) + i
        BY <2>2, <2>4, <2>7, <2>8 DEF Announces
      <3>2. from - 1 \in Nat /\ Len(seqs) # 0
        BY <2>1, <2>7
      <3> QED  BY <2>6, <2>7, <3>1, <3>2, FlattenInOrder
    <2>12. ASSUME NEW kind \in MarkKinds, NEW h \in from .. to
           PROVE  (\E e \in ToSet(logs) : e.kind = kind /\ e.block = h) <=> chain[h].what = Cause(kind)
      <3>1. \A e \in ToSet(LogsAt(h)) : e.block = h /\ (e.kind \in MarkKinds => chain[h].what = Cause(e.kind))
        BY <2>4, <2>5 DEF Announces, Tells
      <3>2. chain[h].what = Cause(kind) => \E e \in ToSet(LogsAt(h)) : e.kind = kind
        BY <2>5 DEF Tells
      <3>3. \A e \in ToSet(logs) : e.block = h => e \in ToSet(LogsAt(h))
        BY <2>4, <2>10 DEF Announces
      <3>4. ToSet(LogsAt(h)) \subseteq ToSet(logs)
        BY <2>10
      <3> QED  BY <3>1, <3>2, <3>3, <3>4
    <2>13. \A e \in ToSet(logs) : e.block \in from .. to
      BY <2>4, <2>10 DEF Announces
    <2>14. MarksOf(ToSet(logs)) = MarksOn(chain, from, to)
      <3>1. ASSUME NEW m \in MarksOf(ToSet(logs)) PROVE m \in MarksOn(chain, from, to)
        BY <2>12, <2>13 DEF MarksOf, MarksOn
      <3>2. ASSUME NEW m \in MarksOn(chain, from, to) PROVE m \in MarksOf(ToSet(logs))
        <4>1. m \in MarkKinds \X (from .. to) /\ chain[m[2]].what = Cause(m[1])
          BY DEF MarksOn
        <4>2. m[1] \in MarkKinds /\ m[2] \in from .. to /\ m = <<m[1], m[2]>> /\ m[2] \in Nat
          BY <4>1
        <4>3. \E e \in ToSet(logs) : e.kind = m[1] /\ e.block = m[2]
          BY <2>12, <4>1, <4>2
        <4> QED  BY <4>2, <4>3 DEF MarksOf
      <3> QED  BY <3>1, <3>2
    <2> QED  BY <2>11, <2>14 DEF logs
  <1> QED  BY <1>1, <1>2

(* What processRange has read of the commitment when it goes on.           *)
Told(c, logs, from, to) == MarksOf(ToSet(logs)) = MarksOn(c, from, to) /\ InOrder(logs)
Aired(logs, k) == k \/ LaunchedIn(logs) \/ MarksOf(ToSet(logs)) = {}

(* No mark of a market the loop does not know escapes what it fetches.     *)
LEMMA FetchLogsTell ==
    ASSUME ChainInv, known \in BOOLEAN, NEW from \in Nat \ {0}, NEW to \in Nat, to <= Tip,
           known \/ \A h \in 1 .. from - 1 : chain[h].what # "launch"
    PROVE  Told(chain, FetchLogs(from, to), from, to) /\ Aired(FetchLogs(from, to), known)
  <1> DEFINE all == LogsBetween(from, to)
             set == {e \in ToSet(all) : known \/ ~OfMarket(e)}
             heard == Kept(all, set)
             logs == FetchLogs(from, to)
  <1>1. /\ all \in Seq(Event) /\ LaunchesAt(chain, all, from, to)
        /\ logs \in Seq(Event) /\ LaunchesAt(chain, logs, from, to)
    BY LogsBetweenAnnounce, FetchLogsGathers DEF Gathered
  <1>2. MarksOf(ToSet(all)) = MarksOn(chain, from, to) /\ InOrder(all)
    BY LogsBetweenTell
  <1>3. logs = IF LaunchedIn(heard) /\ ~known THEN all ELSE heard
    BY DEF FetchLogs, Watched
  <1>4. heard \in Seq(Event) /\ ToSet(heard) = ToSet(all) \cap set /\ InOrder(heard)
    BY <1>1, <1>2, KeptMembers, KeptInOrder
  <1>5. MarksOf(ToSet(heard)) = MarksOf(ToSet(all))
    <2>1. ASSUME NEW e \in ToSet(all), e.kind \in MarkKinds PROVE e \in set
      <3>1. e \in Event
        BY <1>1 DEF ToSet
      <3>2. e.source \notin {"market", "token"}
        <4>1. e.kind \notin {"Transfer", "Bought", "Sold", "GraduationPending", "Graduated"}
          BY <2>1 DEF MarkKinds
        <4> QED  BY <3>1, <4>1, EventFields
      <3> QED  BY <3>2 DEF OfMarket
    <2> HIDE DEF set, heard, all
    <2> QED  BY <1>4, <2>1 DEF MarksOf
  <1> HIDE DEF all, set, heard, logs
  <1>6. Told(chain, logs, from, to)
    BY <1>2, <1>3, <1>4, <1>5 DEF Told
  <1>7. ASSUME ~known, ~LaunchedIn(logs) PROVE MarksOf(ToSet(logs)) = {}
    <2>1. \A h \in from .. to : chain[h].what # "launch"
      BY <1>1, <1>7, LaunchedMembers DEF LaunchesAt
    <2>2. \A h \in 1 .. to : chain[h].what # "launch"
      BY <1>7, <2>1
    <2>3. ASSUME NEW m \in MarksOn(chain, from, to) PROVE FALSE
      <3>1. m[1] \in MarkKinds /\ m[2] \in from .. to /\ chain[m[2]].what = Cause(m[1])
        BY DEF MarksOn
      <3>2. Cause(m[1]) \notin {"quiet", "register", "launch"}
        BY <3>1 DEF MarkKinds, Cause
      <3>3. m[2] \in 1 .. Len(chain) /\ Len(chain) \in Nat /\ m[2] <= to
        BY <3>1 DEF ChainInv, Tip
      <3>4. PICK g \in 1 .. m[2] - 1 : chain[g].what = "launch"
        BY <3>1, <3>2, <3>3 DEF ChainInv, History
      <3>5. g \in 1 .. to
        BY <3>3, <3>4
      <3> QED  BY <2>2, <3>4, <3>5
    <2> QED  BY <1>6, <2>3 DEF Told
  <1> QED  BY <1>6, <1>7 DEF Aired, logs

-----------------------------------------------------------------------------
(* The life of the commitment on the chain                                 *)

Settling == {"activate", "cancel"}

(* One submission, and one activation or cancellation, after it.           *)
Submissions(c) ==
    /\ \A g, h \in 1 .. Len(c) : c[g].what = "submit" /\ c[h].what = "submit" => g = h
    /\ \A g, h \in 1 .. Len(c) : c[g].what \in Settling /\ c[h].what \in Settling => g = h
    /\ \A h \in 1 .. Len(c) : c[h].what \in Settling => \E g \in 1 .. h - 1 : c[g].what = "submit"

(* What happens at one height only counts once, and what counts zero did   *)
(* not happen.                                                             *)
LEMMA CountsOnce ==
    ASSUME NEW c \in Seq(ChainBlock), NEW what
    PROVE  /\ (\A g, h \in 1 .. Len(c) : c[g].what = what /\ c[h].what = what => g = h)
                 => Count(what, c) <= 1
           /\ Count(what, c) = 0 => ~Happened(what, c)
  <1> DEFINE S == {i \in DOMAIN c : c[i].what = what}
  <1>1. IsFiniteSet(1 .. Len(c)) /\ DOMAIN c = 1 .. Len(c)
    BY FS_Interval
  <1>2. IsFiniteSet(S)
    BY <1>1, FS_Subset
  <1>3. Count(what, c) = Cardinality(S) /\ (S = {} => ~Happened(what, c))
    BY DEF Count, Happened
  <1>4. ASSUME \A g, h \in 1 .. Len(c) : c[g].what = what /\ c[h].what = what => g = h
        PROVE  S = {} \/ \E i \in S : S = {i}
    BY <1>1, <1>4
  <1> HIDE DEF S
  <1>5. Cardinality(S) = 0 <=> S = {}
    BY <1>2, FS_EmptySet
  <1>6. \A i : S = {i} => Cardinality(S) = 1
    BY FS_Singleton
  <1>7. S = {} => Cardinality(S) = 0
    BY <1>5
  <1> QED  BY <1>3, <1>4, <1>5, <1>6, <1>7

(* A block that is allowed, and not a second submission, keeps the life of *)
(* the commitment in order.                                                *)
LEMMA SubmissionsGrows ==
    ASSUME NEW c \in Seq(ChainBlock), Submissions(c), NEW what \in AllPayloads, Allowed(what, c),
           ~Again(what, c), NEW f \in Nat
    PROVE  Submissions(Append(c, [fork |-> f, what |-> what]))
  <1> DEFINE b == [fork |-> f, what |-> what]
             c2 == Append(c, b)
  <1>1. b \in ChainBlock /\ b.what = what
    BY DEF ChainBlock
  <1> HIDE DEF b
  <1>2. /\ Len(c) \in Nat /\ Len(c2) = Len(c) + 1 /\ DOMAIN c = 1 .. Len(c)
        /\ c2[Len(c) + 1].what = what /\ \A i \in 1 .. Len(c) : c2[i] = c[i]
    BY <1>1
  <1> HIDE DEF c2
  <1>3. \A i \in 1 .. Len(c2) : i \in 1 .. Len(c) \/ i = Len(c) + 1
    BY <1>2
  <1>4. ASSUME what = "submit" PROVE \A i \in 1 .. Len(c) : c[i].what # "submit"
    <2>1. ~Happened("submit", c)
      BY <1>4 DEF Again
    <2> QED  BY <1>2, <2>1 DEF Happened
  <1>5. ASSUME what \in Settling
        PROVE  /\ \A i \in 1 .. Len(c) : c[i].what \notin Settling
               /\ \E g \in 1 .. Len(c) : c[g].what = "submit"
    <2>1. Count("submit", c) > Count("activate", c) + Count("cancel", c)
      BY <1>5 DEF Allowed, Settling
    <2>2. Count("submit", c) \in Nat /\ Count("activate", c) \in Nat /\ Count("cancel", c) \in Nat
      BY CountsHappened
    <2>3. Count("submit", c) <= 1
      BY CountsOnce DEF Submissions
    <2>4. Count("submit", c) # 0 /\ Count("activate", c) = 0 /\ Count("cancel", c) = 0
      BY <2>1, <2>2, <2>3
    <2>5. Happened("submit", c) /\ ~Happened("activate", c) /\ ~Happened("cancel", c)
      BY <2>4, CountsHappened, CountsOnce
    <2> QED  BY <1>2, <2>5 DEF Happened, Settling
  <1>6. ASSUME NEW g \in 1 .. Len(c2), NEW h \in 1 .. Len(c2), c2[g].what = "submit", c2[h].what = "submit"
        PROVE  g = h
    BY <1>2, <1>3, <1>4, <1>6 DEF Submissions
  <1>7. ASSUME NEW g \in 1 .. Len(c2), NEW h \in 1 .. Len(c2), c2[g].what \in Settling, c2[h].what \in Settling
        PROVE  g = h
    BY <1>2, <1>3, <1>5, <1>7 DEF Submissions
  <1>8. ASSUME NEW h \in 1 .. Len(c2), c2[h].what \in Settling
        PROVE  \E g \in 1 .. h - 1 : c2[g].what = "submit"
    <2>1. CASE h \in 1 .. Len(c)
      <3>1. PICK g \in 1 .. h - 1 : c[g].what = "submit"
        BY <1>2, <1>8, <2>1 DEF Submissions
      <3> QED  BY <1>2, <2>1, <3>1
    <2>2. CASE h = Len(c) + 1
      BY <1>2, <1>5, <1>8, <2>2
    <2> QED  BY <1>3, <2>1, <2>2
  <1> QED  BY <1>6, <1>7, <1>8 DEF Submissions, c2, b

(* So does cutting the chain.                                              *)
LEMMA SubmissionsPrefix ==
    ASSUME NEW c \in Seq(ChainBlock), Submissions(c), NEW k \in 0 .. Len(c)
    PROVE  Submissions(SubSeq(c, 1, k))
  <1> DEFINE c2 == SubSeq(c, 1, k)
  <1>1. Len(c2) = k /\ Len(c) \in Nat /\ \A i \in 1 .. k : c2[i] = c[i]
    OBVIOUS
  <1> HIDE DEF c2
  <1>2. \A h \in 1 .. k : h \in 1 .. Len(c) /\ \A g \in 1 .. h - 1 : g \in 1 .. k
    BY <1>1
  <1>3. /\ \A g, h \in 1 .. k : c2[g].what = "submit" /\ c2[h].what = "submit" => g = h
        /\ \A g, h \in 1 .. k : c2[g].what \in Settling /\ c2[h].what \in Settling => g = h
    BY <1>1, <1>2 DEF Submissions
  <1>4. ASSUME NEW h \in 1 .. k, c2[h].what \in Settling
        PROVE  \E g \in 1 .. h - 1 : c2[g].what = "submit"
    <2>1. PICK g \in 1 .. h - 1 : c[g].what = "submit"
      BY <1>1, <1>2, <1>4 DEF Submissions
    <2> QED  BY <1>1, <1>2, <2>1
  <1> QED  BY <1>1, <1>3, <1>4 DEF Submissions, c2

(* Mining and reorganising keep it so.                                     *)
LEMMA SubmissionsMined ==
    ASSUME ChainInv, Submissions(chain), NEW what \in Payloads, Mine(what), ~resubmitted'
    PROVE  Submissions(chain)'
  <1>1. what \in AllPayloads /\ chain \in Seq(ChainBlock) /\ forks \in Nat
    BY ChainAssumption DEF ChainInv
  <1>2. /\ Allowed(what, chain) /\ chain' = Append(chain, [fork |-> forks, what |-> what])
        /\ ~Again(what, chain)
    BY DEF Mine
  <1>3. Submissions(Append(chain, [fork |-> forks, what |-> what]))
    BY <1>1, <1>2, SubmissionsGrows
  <1>4. Submissions(chain)' <=> Submissions(chain')
    BY DEF Submissions, Settling
  <1> QED  BY <1>2, <1>3, <1>4

(* The same for a reorganisation.                                          *)
LEMMA SubmissionsReplaced ==
    ASSUME ChainInv, Submissions(chain), NEW what \in Payloads, NEW k \in 0 .. MaxHeight,
           Reorganise(k, what), ~resubmitted'
    PROVE  Submissions(chain)'
  <1> DEFINE c == SubSeq(chain, 1, k)
  <1>0. ~Again(what, c)
    BY DEF Reorganise
  <1>1. /\ what \in AllPayloads /\ chain \in Seq(ChainBlock) /\ forks \in Nat /\ k \in 0 .. Len(chain)
        /\ Allowed(what, c) /\ forks' = forks + 1
        /\ chain' = Append(c, [fork |-> forks', what |-> what])
    BY ChainAssumption DEF ChainInv, Reorganise, Tip
  <1>2. c \in Seq(ChainBlock) /\ Submissions(c)
    BY <1>1, HistoryPrefix, SubmissionsPrefix
  <1> HIDE DEF c
  <1>3. forks' \in Nat
    BY <1>1
  <1>4. Submissions(Append(c, [fork |-> forks', what |-> what]))
    BY <1>0, <1>1, <1>2, <1>3, SubmissionsGrows
  <1>5. Submissions(chain)' <=> Submissions(chain')
    BY DEF Submissions, Settling
  <1> QED  BY <1>1, <1>4, <1>5

-----------------------------------------------------------------------------
(* Marks that fit one commitment                                           *)

Tame(marks) ==
    /\ marks \subseteq MarkKinds \X (Nat \ {0})
    /\ \A m, n \in marks : m[1] = n[1] => m[2] = n[2]
    /\ \A m, n \in marks : m[1] = "CommitmentActivated" => n[1] # "PendingCommitmentCancelled"
    /\ \A m \in marks : m[1] # "CommitmentSubmitted" =>
          \E n \in marks : n[1] = "CommitmentSubmitted" /\ n[2] < m[2]

(* What the chain says of the commitment is tame.                          *)
LEMMA ChainIsTame ==
    ASSUME NEW c \in Seq(ChainBlock), Submissions(c), NEW n \in Nat, n <= Len(c)
    PROVE  Tame(MarksOn(c, 1, n))
  <1> DEFINE marks == MarksOn(c, 1, n)
  <1>1. Len(c) \in Nat /\ \A h \in 1 .. n : h \in 1 .. Len(c) /\ h \in Nat \ {0}
    OBVIOUS
  <1>2. ASSUME NEW m \in marks
        PROVE  m = <<m[1], m[2]>> /\ m[1] \in MarkKinds /\ m[2] \in 1 .. n /\ c[m[2]].what = Cause(m[1])
    BY DEF MarksOn
  <1>3. \A h \in 1 .. n, k \in MarkKinds : c[h].what = Cause(k) => <<k, h>> \in marks
    BY DEF MarksOn
  <1> HIDE DEF marks
  <1>4. \A k \in MarkKinds : /\ k = "CommitmentSubmitted" => Cause(k) = "submit"
                             /\ k # "CommitmentSubmitted" => Cause(k) \in Settling
    BY DEF MarkKinds, Cause, Settling
  <1>5. marks \subseteq MarkKinds \X (Nat \ {0})
    BY <1>1, <1>2
  <1>6. ASSUME NEW m \in marks, NEW o \in marks, m[1] = o[1] PROVE m[2] = o[2]
    <2>1. CASE m[1] = "CommitmentSubmitted"
      BY <1>1, <1>2, <1>4, <1>6, <2>1 DEF Submissions
    <2>2. CASE m[1] # "CommitmentSubmitted"
      <3>1. m[1] \in MarkKinds /\ o[1] \in MarkKinds /\ o[1] # "CommitmentSubmitted"
        BY <1>2, <1>6, <2>2
      <3>2. Cause(m[1]) \in Settling /\ Cause(o[1]) \in Settling
        BY <1>4, <2>2, <3>1
      <3>3. c[m[2]].what \in Settling /\ c[o[2]].what \in Settling /\ m[2] \in 1 .. Len(c) /\ o[2] \in 1 .. Len(c)
        BY <1>1, <1>2, <3>2
      <3> QED  BY <3>3 DEF Submissions
    <2> QED  BY <2>1, <2>2
  <1>7. ASSUME NEW m \in marks, NEW o \in marks, m[1] = "CommitmentActivated",
               o[1] = "PendingCommitmentCancelled"
        PROVE  FALSE
    <2>1. Cause(m[1]) = "activate" /\ Cause(o[1]) = "cancel"
      BY <1>7 DEF Cause
    <2>2. c[m[2]].what = "activate" /\ c[o[2]].what = "cancel" /\ m[2] \in 1 .. Len(c) /\ o[2] \in 1 .. Len(c)
      BY <1>1, <1>2, <2>1
    <2>3. m[2] = o[2]
      BY <2>2 DEF Submissions, Settling
    <2> QED  BY <2>2, <2>3
  <1>8. ASSUME NEW m \in marks, m[1] # "CommitmentSubmitted"
        PROVE  \E o \in marks : o[1] = "CommitmentSubmitted" /\ o[2] < m[2]
    <2>1. m[2] \in 1 .. n /\ m[2] \in 1 .. Len(c) /\ c[m[2]].what \in Settling
      BY <1>1, <1>2, <1>4, <1>8
    <2>2. PICK g \in 1 .. m[2] - 1 : c[g].what = "submit"
      BY <2>1 DEF Submissions
    <2>3. g \in 1 .. n /\ g < m[2]
      BY <2>1, <2>2
    <2>4. "CommitmentSubmitted" \in MarkKinds /\ Cause("CommitmentSubmitted") = "submit"
      BY DEF MarkKinds, Cause
    <2>5. <<"CommitmentSubmitted", g>> \in marks
      BY <1>3, <2>2, <2>3, <2>4
    <2> QED  BY <2>3, <2>5
  <1> QED  BY <1>5, <1>6, <1>7, <1>8 DEF Tame, marks

-----------------------------------------------------------------------------
(* What writes the marks                                                   *)

(* A database that says of the commitment what another one says.           *)
Keeps(d, x) == "commitment" \in DOMAIN x /\ x.commitment = d.commitment

(* Every statement but those of the commitment itself leaves it alone.     *)
LEMMA CommitmentStays ==
    ASSUME NEW d, NEW y, Keeps(d, y)
    PROVE  /\ \A row : Keeps(d, InsertRow(y, row))
           /\ \A n : Keeps(d, InsertMarket(y, n))
           /\ \A S : Keeps(d, RegisterExclusions(y, S))
           /\ \A e : Keeps(d, UpdateMarketState(y, e)) /\ Keeps(d, MarkGraduating(y, e))
                     /\ Keeps(d, MarkGraduated(y, e))
           /\ Keeps(d, RefreshHolderCount(y)) /\ Keeps(d, UpsertXStockAsset(y))
           /\ \A n : Keeps(d, SetCursor(y, n)) /\ Keeps(d, MarkFinalized(y, n))
           /\ \A ref : Keeps(d, RecordBlock(y, ref))
           /\ \A e, l, a, v : Keeps(d, InsertBalanceEvent(y, e, l, a, v))
  <1>1. \A row : Keeps(d, InsertRow(y, row))
    BY DEF Keeps, InsertRow
  <1>2. \A n : Keeps(d, InsertMarket(y, n))
    BY DEF Keeps, InsertMarket
  <1>3. \A S : Keeps(d, RegisterExclusions(y, S))
    BY DEF Keeps, RegisterExclusions
  <1>4. ASSUME NEW e
        PROVE  Keeps(d, UpdateMarketState(y, e)) /\ Keeps(d, MarkGraduating(y, e))
               /\ Keeps(d, MarkGraduated(y, e))
    <2>1. Keeps(d, UpdateMarketState(y, e))
      BY DEF Keeps, UpdateMarketState
    <2>2. Keeps(d, MarkGraduating(y, e))
      BY DEF Keeps, MarkGraduating
    <2>3. Keeps(d, MarkGraduated(y, e))
      BY DEF Keeps, MarkGraduated
    <2> QED  BY <2>1, <2>2, <2>3
  <1>5. Keeps(d, RefreshHolderCount(y)) /\ Keeps(d, UpsertXStockAsset(y))
    BY DEF Keeps, RefreshHolderCount, UpsertXStockAsset
  <1>6. ASSUME NEW n PROVE Keeps(d, SetCursor(y, n)) /\ Keeps(d, MarkFinalized(y, n))
    <2>1. Keeps(d, SetCursor(y, n))
      BY DEF Keeps, SetCursor
    <2>2. \A blocks : Keeps(d, [y EXCEPT !.blocks = blocks])
      BY DEF Keeps
    <2>3. Keeps(d, MarkFinalized(y, n))
      BY <2>2 DEF MarkFinalized
    <2> QED  BY <2>1, <2>3
  <1>7. ASSUME NEW ref PROVE Keeps(d, RecordBlock(y, ref))
    <2>1. \A blocks : Keeps(d, [y EXCEPT !.blocks = blocks])
      BY DEF Keeps
    <2> QED  BY <2>1 DEF RecordBlock
  <1>8. ASSUME NEW e, NEW l, NEW a, NEW v PROVE Keeps(d, InsertBalanceEvent(y, e, l, a, v))
    <2> DEFINE m == InsertRow(y, Row("balance_events", [e EXCEPT !.log = l], <<a, v>>))
    <2>1. Keeps(d, m)
      BY <1>1
    <2>2. InsertBalanceEvent(y, e, l, a, v) = [m EXCEPT !.balances[a] = @ + v]
      BY DEF InsertBalanceEvent
    <2> HIDE DEF m
    <2> QED  BY <2>1, <2>2 DEF Keeps
  <1> QED  BY <1>1, <1>2, <1>3, <1>4, <1>5, <1>6, <1>7, <1>8

(* An event that is not of the commitment leaves it alone.                 *)
LEMMA OthersKeepCommitment ==
    ASSUME NEW d, DbOK(d), NEW e \in Event, e.kind \notin MarkKinds
    PROVE  Keeps(d, DbAfter(d, e))
  <1>1. Keeps(d, d)
    BY DEF Keeps, DbOK, Db
  <1>2. e.source \in {"token", "market", "factory", "registry", "feeVault", "rewardVault"}
    BY EventFields
  <1>3. CASE e.source = "factory"
    <2>1. DbAfter(d, e) = RegisterExclusions(InsertMarket(d, e.block), {"curve"})
      BY <1>3 DEF DbAfter
    <2>2. Keeps(d, InsertMarket(d, e.block))
      BY <1>1, CommitmentStays
    <2> QED  BY <2>1, <2>2, CommitmentStays
  <1>4. CASE e.source = "registry"
    <2>1. DbAfter(d, e) = UpsertXStockAsset(d)
      BY <1>4 DEF DbAfter
    <2> QED  BY <1>1, <2>1, CommitmentStays
  <1>5. CASE e.source = "market"
    <2>1. CASE e.kind \in {"Bought", "Sold"}
      <3>1. DbAfter(d, e) = UpdateMarketState(InsertTrade(d, e), e)
        BY <1>5, <2>1 DEF DbAfter
      <3>2. Keeps(d, InsertTrade(d, e))
        BY <1>1, CommitmentStays DEF InsertTrade
      <3> QED  BY <3>1, <3>2, CommitmentStays
    <2>2. CASE e.kind = "GraduationPending"
      <3>1. DbAfter(d, e) = MarkGraduating(d, e)
        BY <1>5, <2>2 DEF DbAfter
      <3> QED  BY <1>1, <3>1, CommitmentStays
    <2>3. CASE e.kind = "Graduated"
      <3>1. DbAfter(d, e) = MarkGraduated(d, e)
        BY <1>5, <2>3 DEF DbAfter
      <3> QED  BY <1>1, <3>1, CommitmentStays
    <2> QED  BY <1>5, <2>1, <2>2, <2>3, EventFields
  <1>6. CASE e.source = "token"
    <2>1. CASE e.from = "zero"
      <3>1. DbAfter(d, e) = RefreshHolderCount(InsertBalanceEvent(d, e, 2 * e.log + 1, e.to, e.value))
        BY <1>6, <2>1 DEF DbAfter
      <3>2. Keeps(d, InsertBalanceEvent(d, e, 2 * e.log + 1, e.to, e.value))
        BY <1>1, CommitmentStays
      <3> QED  BY <3>1, <3>2, CommitmentStays
    <2>2. CASE e.from # "zero"
      <3> DEFINE debited == InsertBalanceEvent(d, e, 2 * e.log, e.from, -e.value)
                 credited == InsertBalanceEvent(debited, e, 2 * e.log + 1, e.to, e.value)
      <3>1. DbAfter(d, e) = RefreshHolderCount(credited)
        BY <1>6, <2>2 DEF DbAfter
      <3>2. Keeps(d, debited)
        BY <1>1, CommitmentStays
      <3> HIDE DEF debited
      <3>3. Keeps(d, credited)
        BY <3>2, CommitmentStays
      <3> HIDE DEF credited
      <3> QED  BY <3>1, <3>3, CommitmentStays
    <2> QED  BY <2>1, <2>2
  <1>7. CASE e.source = "feeVault"
    <2>1. DbAfter(d, e) = InsertFeeAccrual(d, e)
      BY <1>7 DEF DbAfter
    <2> QED  BY <1>1, <2>1, CommitmentStays DEF InsertFeeAccrual
  <1>8. CASE e.source = "rewardVault"
    <2>1. e.kind \in {"Funded", "Claimed"}
      BY <1>8, EventFields DEF MarkKinds
    <2>2. CASE e.kind = "Funded"
      <3>1. DbAfter(d, e) = RecordStockbackFunding(d, e)
        BY <1>8, <2>2 DEF DbAfter
      <3> QED  BY <1>1, <3>1, CommitmentStays DEF RecordStockbackFunding
    <2>3. CASE e.kind = "Claimed"
      <3>1. DbAfter(d, e) = RecordClaim(d, e)
        BY <1>8, <2>3 DEF DbAfter
      <3> QED  BY <1>1, <3>1, CommitmentStays DEF RecordClaim
    <2> QED  BY <2>1, <2>2, <2>3
  <1> QED  BY <1>2, <1>3, <1>4, <1>5, <1>6, <1>7, <1>8

(* The marks are what the commitment's row says.                           *)
LEMMA SameMarks ==
    ASSUME NEW d, NEW x, x.commitment = d.commitment
    PROVE  Marks(x) = Marks(d)
  BY DEF Marks, MarkAt

(* The marks of a database, one field at a time.                           *)
LEMMA MarksAre ==
    ASSUME NEW d, NEW n
    PROVE  /\ <<"CommitmentSubmitted", n>> \in Marks(d) <=> n \in Nat \ {0} /\ d.commitment.submitted = n
           /\ <<"CommitmentActivated", n>> \in Marks(d) <=> n \in Nat \ {0} /\ d.commitment.activated = n
           /\ <<"PendingCommitmentCancelled", n>> \in Marks(d) <=> n \in Nat \ {0} /\ d.commitment.cancelled = n
  BY DEF Marks, MarkAt, MarkKinds

Agree(a, b) ==
    \A n \in Nat : /\ <<"CommitmentSubmitted", n>> \in a <=> <<"CommitmentSubmitted", n>> \in b
                   /\ <<"CommitmentActivated", n>> \in a <=> <<"CommitmentActivated", n>> \in b
                   /\ <<"PendingCommitmentCancelled", n>> \in a <=> <<"PendingCommitmentCancelled", n>> \in b

(* Two sets of marks that agree on the three kinds are the same.           *)
LEMMA MarksAgree ==
    ASSUME NEW a, NEW b, a \subseteq MarkKinds \X Nat, b \subseteq MarkKinds \X Nat, Agree(a, b)
    PROVE  a = b
  <1>1. \A m \in MarkKinds \X Nat : m \in a <=> m \in b
    <2> SUFFICES ASSUME NEW k \in MarkKinds, NEW n \in Nat PROVE <<k, n>> \in a <=> <<k, n>> \in b
      OBVIOUS
    <2> QED  BY DEF MarkKinds, Agree
  <1> QED  BY <1>1

(* The fields of the commitment's row.                                     *)
LEMMA CommitmentFields ==
    ASSUME NEW d, DbOK(d)
    PROVE  /\ d.commitment \in [submitted : Nat, activated : Nat, cancelled : Nat]
           /\ d.commitment.submitted \in Nat /\ d.commitment.activated \in Nat /\ d.commitment.cancelled \in Nat
           /\ \A n : LET x == [d EXCEPT !.commitment.submitted = n]
                     IN  x.commitment.submitted = n /\ x.commitment.activated = d.commitment.activated
                         /\ x.commitment.cancelled = d.commitment.cancelled
           /\ \A n : LET x == [d EXCEPT !.commitment.activated = n]
                     IN  x.commitment.activated = n /\ x.commitment.submitted = d.commitment.submitted
                         /\ x.commitment.cancelled = d.commitment.cancelled
           /\ \A n : LET x == [d EXCEPT !.commitment.cancelled = n]
                     IN  x.commitment.cancelled = n /\ x.commitment.submitted = d.commitment.submitted
                         /\ x.commitment.activated = d.commitment.activated
  BY DEF DbOK, Db

(* An event of the commitment adds its mark, if the marks can be those of  *)
(* one commitment and the submission is known when it is settled.          *)
LEMMA MarkAdds ==
    ASSUME NEW d, DbOK(d), NEW e \in Event, NEW marks, Tame(marks), Marks(d) \subseteq marks,
           MarksOf({e}) \subseteq marks,
           e.kind \in MarkKinds \ {"CommitmentSubmitted"} => d.commitment.submitted # NoBlock
    PROVE  Marks(DbAfter(d, e)) = Marks(d) \cup MarksOf({e})
  <1> DEFINE x == DbAfter(d, e)
             b == e.block
             k == e.kind
             new == Marks(d) \cup {<<k, b>>}
  <1>1. e.block \in Nat
    BY EventFields
  <1>2. /\ d.commitment.submitted \in Nat /\ d.commitment.activated \in Nat /\ d.commitment.cancelled \in Nat
    BY CommitmentFields
  <1>3. CASE e.kind \notin MarkKinds
    <2>1. MarksOf({e}) = {}
      BY <1>3 DEF MarksOf
    <2>2. Marks(x) = Marks(d)
      BY <1>3, OthersKeepCommitment, SameMarks DEF Keeps
    <2> QED  BY <2>1, <2>2
  <1>4. CASE e.kind \in MarkKinds
    <2>1. MarksOf({e}) = {<<k, b>>} /\ <<k, b>> \in marks
      <3>1. \A m : m \in MarksOf({e}) <=> m = <<k, b>>
        BY <1>1, <1>4 DEF MarksOf
      <3> QED  BY <3>1
    <2>2. b \in Nat \ {0} /\ e.source = "rewardVault"
      <3>1. b \in Nat \ {0}
        BY <2>1 DEF Tame
      <3>2. e.source = "rewardVault"
        BY <1>4, EventFields DEF MarkKinds
      <3> QED  BY <3>1, <3>2
    <2>3. \A n : <<k, n>> \in marks => n = b
      BY <2>1 DEF Tame
    <2>4. Marks(x) \subseteq MarkKinds \X Nat /\ Marks(d) \subseteq MarkKinds \X Nat
      BY DEF Marks
    <2>5. new \subseteq MarkKinds \X Nat
      BY <1>1, <1>4, <2>4
    <2> HIDE DEF new
    <2>6. CASE k = "CommitmentSubmitted"
      <3>1. d.commitment.submitted # 0 => d.commitment.submitted = b
        BY <1>2, <2>3, <2>6, MarksAre
      <3>2. x = IF d.commitment.submitted # NoBlock THEN d ELSE [d EXCEPT !.commitment.submitted = b]
        BY <2>2, <2>6 DEF DbAfter, RecordCommitmentSubmitted
      <3>3. /\ x.commitment.submitted = b /\ x.commitment.activated = d.commitment.activated
            /\ x.commitment.cancelled = d.commitment.cancelled
        BY <1>2, <3>1, <3>2, CommitmentFields DEF NoBlock
      <3> HIDE DEF x
      <3>4. Agree(Marks(x), new)
        BY <1>2, <2>2, <2>6, <3>1, <3>3, MarksAre DEF Agree, new
      <3> QED  BY <2>1, <2>4, <2>5, <3>4, MarksAgree DEF x, new
    <2>7. CASE k = "CommitmentActivated"
      <3>1. d.commitment.activated # 0 => d.commitment.activated = b
        BY <1>2, <2>3, <2>7, MarksAre
      <3>2. d.commitment.cancelled = 0
        <4>1. d.commitment.cancelled # 0 => <<"PendingCommitmentCancelled", d.commitment.cancelled>> \in marks
          BY <1>2, MarksAre
        <4>2. \A n : <<"PendingCommitmentCancelled", n>> \notin marks
          BY <2>1, <2>7 DEF Tame
        <4> QED  BY <4>1, <4>2
      <3>3. d.commitment.submitted # NoBlock
        BY <1>4, <2>7
      <3>4. x = [d EXCEPT !.commitment.activated = b]
        BY <2>2, <2>7, <3>2, <3>3 DEF DbAfter, MarkCommitmentActivated, NoBlock
      <3>5. /\ x.commitment.activated = b /\ x.commitment.submitted = d.commitment.submitted
            /\ x.commitment.cancelled = d.commitment.cancelled
        BY <3>4, CommitmentFields
      <3> HIDE DEF x
      <3>6. Agree(Marks(x), new)
        BY <1>2, <2>2, <2>7, <3>1, <3>5, MarksAre DEF Agree, new
      <3> QED  BY <2>1, <2>4, <2>5, <3>6, MarksAgree DEF x, new
    <2>8. CASE k = "PendingCommitmentCancelled"
      <3>1. d.commitment.cancelled # 0 => d.commitment.cancelled = b
        BY <1>2, <2>3, <2>8, MarksAre
      <3>2. d.commitment.activated = 0
        <4>1. d.commitment.activated # 0 => <<"CommitmentActivated", d.commitment.activated>> \in marks
          BY <1>2, MarksAre
        <4>2. \A n : <<"CommitmentActivated", n>> \notin marks
          BY <2>1, <2>8 DEF Tame
        <4> QED  BY <4>1, <4>2
      <3>3. d.commitment.submitted # NoBlock
        BY <1>4, <2>8
      <3>4. x = [d EXCEPT !.commitment.cancelled = b]
        BY <2>2, <2>8, <3>2, <3>3 DEF DbAfter, MarkCommitmentCancelled, NoBlock
      <3>5. /\ x.commitment.cancelled = b /\ x.commitment.submitted = d.commitment.submitted
            /\ x.commitment.activated = d.commitment.activated
        BY <3>4, CommitmentFields
      <3> HIDE DEF x
      <3>6. Agree(Marks(x), new)
        BY <1>2, <2>2, <2>8, <3>1, <3>5, MarksAre DEF Agree, new
      <3> QED  BY <2>1, <2>4, <2>5, <3>6, MarksAgree DEF x, new
    <2> QED  BY <1>4, <2>6, <2>7, <2>8 DEF MarkKinds
  <1> QED  BY <1>3, <1>4

-----------------------------------------------------------------------------
(* The marks a range's transaction leaves                                  *)

(* Behind the launches, the logs are handled in the order of their blocks. *)
LEMMA LaunchesFirstKeepsOrder ==
    ASSUME NEW logs \in Seq(Event), InOrder(logs)
    PROVE  LET s == LaunchesFirst(logs)
           IN  \A j \in 1 .. Len(s) : \A e \in ToSet(logs) :
                 s[j].source # "factory" /\ e.source # "factory" /\ e.block < s[j].block =>
                   \E i \in 1 .. j - 1 : s[i] = e
  <1> DEFINE launches == {e \in ToSet(logs) : e.source = "factory"}
             rest == ToSet(logs) \ launches
             f == Kept(logs, launches)
             r == Kept(logs, rest)
             s == LaunchesFirst(logs)
  <1>1. s = f \o r
    BY DEF LaunchesFirst
  <1>2. f \in Seq(Event) /\ ToSet(f) = ToSet(logs) \cap launches
    BY KeptMembers
  <1>3. r \in Seq(Event) /\ ToSet(r) = ToSet(logs) \cap rest /\ InOrder(r)
    BY KeptMembers, KeptInOrder
  <1>4. \A e \in ToSet(f) : e.source = "factory"
    BY <1>2
  <1>5. \A e \in ToSet(logs) : e.source # "factory" => e \in ToSet(r)
    BY <1>3
  <1> HIDE DEF f, r, s, launches, rest
  <1>6. /\ Len(s) = Len(f) + Len(r)
        /\ \A i \in 1 .. Len(s) : s[i] = IF i <= Len(f) THEN f[i] ELSE r[i - Len(f)]
    BY <1>1, <1>2, <1>3, Joined
  <1>7. /\ Len(f) \in Nat /\ Len(r) \in Nat
        /\ \A i \in 1 .. Len(f) : f[i] \in ToSet(f)
        /\ \A i \in 1 .. Len(r) : r[i] \in Event
        /\ DOMAIN r = 1 .. Len(r)
    BY <1>2, <1>3 DEF ToSet
  <1>8. ASSUME NEW j \in 1 .. Len(s), NEW e \in ToSet(logs),
               s[j].source # "factory", e.source # "factory", e.block < s[j].block
        PROVE  \E i \in 1 .. j - 1 : s[i] = e
    <2>1. ~(j <= Len(f))
      BY <1>4, <1>6, <1>7, <1>8
    <2>2. j - Len(f) \in 1 .. Len(r) /\ s[j] = r[j - Len(f)]
      BY <1>6, <1>7, <2>1
    <2>3. PICK i \in 1 .. Len(r) : r[i] = e
      BY <1>5, <1>7, <1>8 DEF ToSet
    <2>4. r[i].block \in Nat /\ r[j - Len(f)].block \in Nat /\ r[i].block < r[j - Len(f)].block
      BY <1>7, <1>8, <2>2, <2>3, EventFields
    <2>5. i < j - Len(f)
      <3>1. j - Len(f) < i => r[j - Len(f)].block <= r[i].block
        BY <1>3, <2>2, <2>3 DEF InOrder
      <3>2. i # j - Len(f)
        BY <2>4
      <3>3. ~(j - Len(f) < i)
        BY <2>4, <3>1
      <3> QED  BY <1>7, <2>2, <2>3, <3>2, <3>3
    <2>6. i + Len(f) \in 1 .. j - 1 /\ i + Len(f) \in 1 .. Len(s) /\ ~(i + Len(f) <= Len(f)) /\ (i + Len(f)) - Len(f) = i
      BY <1>6, <1>7, <2>3, <2>5
    <2>7. s[i + Len(f)] = e
      BY <1>6, <2>3, <2>6
    <2> QED  BY <2>6, <2>7
  <1> QED  BY <1>8 DEF s

(* The marks of more logs.                                                 *)
LEMMA MarksOfMore ==
    ASSUME NEW es, NEW e
    PROVE  MarksOf(es \cup {e}) = MarksOf(es) \cup MarksOf({e})
  BY DEF MarksOf

(* Handling a range's logs adds their marks, provided the transaction is   *)
(* not refused and the marks are those of one commitment.                  *)
LEMMA MarksHandled ==
    ASSUME NEW d, DbOK(d), NEW k \in BOOLEAN, NEW logs \in Seq(Event), NEW marks, Tame(marks),
           marks = Marks(d) \cup MarksOf(ToSet(logs)), InOrder(logs), Aired(logs, k)
    PROVE  Accepted(HandledLogs(d, k, logs)) => Marks(HandledLogs(d, k, logs)) = marks
  <1> DEFINE s == LaunchesFirst(logs)
             n == Len(s)
             First(i) == {s[j] : j \in 1 .. i}
             start == [db |-> d, known |-> k]
             Reached(i, v) ==
               /\ v \in Tx /\ DbOK(v.db)
               /\ k => v.known
               /\ Accepted(v.db) /\ (\E e \in First(i) : IsLaunch(e)) => v.known
               /\ Accepted(v.db) => Marks(v.db) = Marks(d) \cup MarksOf(First(i))
             reached == {p \in (0 .. n) \X Tx : Reached(p[1], p[2])}
  <1>1. /\ s \in Seq(Event) /\ ToSet(s) = ToSet(logs)
        /\ \A j \in 1 .. Len(s) : s[j].source # "factory" =>
             \A e \in ToSet(logs) : e.source = "factory" => \E i \in 1 .. j - 1 : s[i] = e
        /\ \A j \in 1 .. Len(s) : \A e \in ToSet(logs) :
             s[j].source # "factory" /\ e.source # "factory" /\ e.block < s[j].block =>
               \E i \in 1 .. j - 1 : s[i] = e
    BY LaunchesFirstOrder, LaunchesFirstKeepsOrder
  <1>2. s \in Seq(Event) /\ ToSet(s) = ToSet(logs)
    BY <1>1
  <1>3. n \in Nat /\ DOMAIN s = 1 .. n /\ \A j \in 1 .. n : s[j] \in Event /\ s[j] \in ToSet(logs)
    BY <1>2 DEF ToSet
  <1>4. \A i \in 0 .. n, v \in Tx : <<i, v>> \in reached <=> Reached(i, v)
    OBVIOUS
  <1>5. \A i, v : <<i, v>> \in reached => i \in 0 .. n /\ v \in Tx /\ Reached(i, v)
    OBVIOUS
  <1>6. start \in Tx /\ start.db = d /\ start.known = k
    BY DEF Tx, DbOK
  <1>7. Reached(0, start)
    <2>1. First(0) = {} /\ MarksOf({}) = {}
      BY DEF MarksOf
    <2> HIDE DEF start, First
    <2> QED  BY <1>6, <2>1
  <1>8. ASSUME NEW i \in 1 .. n, NEW v \in Tx, Reached(i - 1, v)
        PROVE  HandleLog(v, s[i]) \in Tx /\ Reached(i, HandleLog(v, s[i]))
    <2> DEFINE e == s[i]
               w == HandleLog(v, e)
               before == First(i - 1)
    <2>1. e \in Event /\ e \in ToSet(logs)
      BY <1>3
    <2>2. First(i) = before \cup {e}
      <3>1. \A j : j \in 1 .. i <=> j \in 1 .. i - 1 \/ j = i
        BY <1>3
      <3> QED  BY <3>1
    <2>3. /\ v \in Tx /\ DbOK(v.db)
          /\ k => v.known
          /\ Accepted(v.db) /\ (\E g \in before : IsLaunch(g)) => v.known
          /\ Accepted(v.db) => Marks(v.db) = Marks(d) \cup MarksOf(before)
      BY <1>8
    <2>4. MarksOf(First(i)) = MarksOf(before) \cup MarksOf({e})
      BY <2>2, MarksOfMore
    <2>5. ASSUME ~IsLaunch(e), LaunchedIn(logs) PROVE \E g \in before : IsLaunch(g)
      <3>1. PICK g \in ToSet(logs) : g.kind = "TokenLaunched"
        BY <2>5, LaunchedMembers
      <3>2. g \in Event
        BY <3>1 DEF ToSet
      <3>3. IsLaunch(g)
        BY <3>1, <3>2, EventFields DEF IsLaunch
      <3>4. PICK j \in 1 .. i - 1 : s[j] = g
        BY <1>1, <2>5, <3>1, <3>3 DEF IsLaunch
      <3> QED  BY <3>3, <3>4
    <2>6. w = IF Accepted(v.db) /\ (e.source \in {"factory", "registry"} \/ v.known)
              THEN [db |-> DbAfter(v.db, e), known |-> v.known \/ e.source = "factory"]
              ELSE v
      BY <2>1, <2>3, HandleLogIs
    <2>7. Handled(v.db, e, DbAfter(v.db, e))
      BY <2>1, <2>3, DbAfterHandles
    <2>8. MarksOf({e}) \subseteq MarksOf(ToSet(logs)) /\ MarksOf(before) \subseteq MarksOf(ToSet(logs))
      <3>1. before \subseteq ToSet(logs)
        <4>1. \A j \in 1 .. i - 1 : j \in 1 .. n
          BY <1>3
        <4> QED  BY <1>3, <4>1
      <3> QED  BY <2>1, <3>1 DEF MarksOf
    <2>9. ASSUME e.kind \in MarkKinds \ {"CommitmentSubmitted"}, Accepted(v.db)
          PROVE  v.db.commitment.submitted # NoBlock
      <3>1. <<e.kind, e.block>> \in marks
        <4>1. e.block \in Nat
          BY <2>1, EventFields
        <4>2. <<e.kind, e.block>> \in MarksOf({e})
          BY <2>9, <4>1 DEF MarksOf
        <4> QED  BY <2>8, <4>2
      <3>2. PICK m \in marks : m[1] = "CommitmentSubmitted" /\ m[2] < e.block
        BY <2>9, <3>1 DEF Tame
      <3>3. m \in MarkKinds \X (Nat \ {0})
        BY DEF Tame
      <3>4. m = <<"CommitmentSubmitted", m[2]>> /\ m[2] \in Nat \ {0}
        BY <3>2, <3>3
      <3>5. m \in Marks(v.db)
        <4>1. CASE m \in Marks(d)
          BY <2>3, <2>9, <4>1
        <4>2. CASE m \in MarksOf(ToSet(logs))
          <5>1. PICK g \in ToSet(logs) : g.kind = m[1] /\ g.block = m[2]
            BY <4>2 DEF MarksOf
          <5>2. g \in Event
            BY <5>1 DEF ToSet
          <5>3. g.source # "factory" /\ s[i].source # "factory"
            BY <2>1, <2>9, <3>2, <5>1, <5>2, EventFields DEF MarkKinds
          <5>4. PICK j \in 1 .. i - 1 : s[j] = g
            BY <1>1, <3>2, <5>1, <5>3
          <5>5. g \in before
            BY <5>4
          <5>6. m \in MarksOf(before)
            BY <4>2, <5>1, <5>5 DEF MarksOf
          <5> QED  BY <2>3, <2>9, <5>6
        <4> QED  BY <4>1, <4>2
      <3>6. PICK g \in Nat \ {0} : g = m[2]
        BY <3>4
      <3>7. <<"CommitmentSubmitted", g>> \in Marks(v.db)
        BY <3>4, <3>5, <3>6
      <3>8. v.db.commitment.submitted = g
        BY <3>7, MarksAre
      <3> QED  BY <3>8 DEF NoBlock
    <2> HIDE DEF First, before, e, w, s, n
    <2>10. CASE Accepted(v.db) /\ (e.source \in {"factory", "registry"} \/ v.known)
      <3> DEFINE x == DbAfter(v.db, e)
      <3>1. w = [db |-> x, known |-> v.known \/ e.source = "factory"]
        BY <2>6, <2>10
      <3>2. DbOK(x)
        BY <2>7 DEF Handled
      <3>3. Marks(x) = Marks(v.db) \cup MarksOf({e})
        <4>1. Marks(v.db) \subseteq marks /\ MarksOf({e}) \subseteq marks
          BY <2>3, <2>8, <2>10
        <4> QED  BY <2>1, <2>3, <2>9, <2>10, <4>1, MarkAdds
      <3> HIDE DEF x
      <3>4. w \in Tx /\ w.db = x /\ (w.known <=> v.known \/ IsLaunch(e))
        BY <2>3, <3>1, <3>2 DEF Tx, DbOK, IsLaunch
      <3>5. Marks(x) = Marks(d) \cup MarksOf(First(i))
        BY <2>3, <2>4, <2>10, <3>3
      <3>6. (\E g \in First(i) : IsLaunch(g)) => w.known
        BY <2>2, <2>3, <2>10, <3>4
      <3> QED  BY <2>3, <3>2, <3>4, <3>5, <3>6 DEF w, e
    <2>11. CASE ~Accepted(v.db)
      <3>1. w = v
        BY <2>6, <2>11
      <3> QED  BY <2>3, <2>11, <3>1 DEF w, e
    <2>12. CASE Accepted(v.db) /\ ~(e.source \in {"factory", "registry"} \/ v.known)
      <3>1. w = v /\ ~IsLaunch(e)
        BY <2>6, <2>12 DEF IsLaunch
      <3>2. ~k /\ ~LaunchedIn(logs)
        BY <2>3, <2>5, <2>12, <3>1
      <3>3. MarksOf({e}) = {}
        BY <2>8, <3>2 DEF Aired
      <3>4. ~ \E g \in First(i) : IsLaunch(g)
        BY <2>2, <2>3, <2>12, <3>1
      <3> QED  BY <2>3, <2>4, <3>1, <3>3, <3>4 DEF w, e
    <2> QED  BY <2>10, <2>11, <2>12
  <1> HIDE DEF Reached, reached
  <1>9. <<0, start>> \in reached
    BY <1>3, <1>4, <1>6, <1>7
  <1>10. ASSUME NEW i \in 1 .. Len(s), NEW v, <<i - 1, v>> \in reached
        PROVE  <<i, HandleLog(v, s[i])>> \in reached
    <2>1. i \in 0 .. n /\ i \in 1 .. n /\ v \in Tx /\ Reached(i - 1, v)
      BY <1>3, <1>5, <1>10
    <2> QED  BY <1>4, <1>8, <2>1
  <1> HIDE DEF s, start
  <1>11. <<Len(s), H!Folded(start, s)>> \in reached
    BY <1>1, <1>9, <1>10, H!FoldLeftReaches
  <1>12. H!Folded(start, s) = FoldLeft(HandleLog, start, s)
    BY DEF H!Folded, H!FoldLeft, H!MapThenFoldSet, H!Max, FoldLeft, MapThenFoldSet, Max
  <1>13. Reached(Len(s), FoldLeft(HandleLog, start, s))
    BY <1>5, <1>11, <1>12
  <1>14. First(Len(s)) = ToSet(logs)
    <2>1. First(Len(s)) = ToSet(s)
      BY <1>3 DEF ToSet
    <2> HIDE DEF First
    <2> QED  BY <1>1, <2>1
  <1>15. HandledLogs(d, k, logs) = FoldLeft(HandleLog, start, s).db
    BY DEF HandledLogs, start, s
  <1> HIDE DEF First
  <1> QED  BY <1>13, <1>14, <1>15 DEF Reached

(* Recording headers leaves the commitment alone.                          *)
LEMMA HeadedKeeps ==
    ASSUME NEW d, DbOK(d), NEW refs \in SUBSET Ref, IsFiniteSet(refs)
    PROVE  Keeps(d, Headed(d, refs))
  <1> DEFINE Reached(s, v) == s \subseteq refs /\ SameRest(d, v) /\ BlocksFrom(d, v, s) /\ Keeps(d, v)
             reached == {p \in (SUBSET refs) \X Db : Reached(p[1], p[2])}
  <1>1. \A s, v : <<s, v>> \in reached <=> Reached(s, v)
    BY DEF SameRest, DbOK
  <1>2. Reached({}, d)
    BY DEF SameRest, BlocksFrom, Keeps, DbOK, Db
  <1>3. ASSUME NEW s \in SUBSET refs, NEW x \in s, NEW v, Reached(s \ {x}, v)
        PROVE  Reached(s, Recorded(x, v))
    <2>1. x \in Ref /\ (s \ {x}) \cup {x} = s
      OBVIOUS
    <2>2. SameRest(d, RecordBlock(v, x)) /\ BlocksFrom(d, RecordBlock(v, x), (s \ {x}) \cup {x})
      BY <1>3, <2>1, RecordBlockTypes
    <2>3. Keeps(d, RecordBlock(v, x))
      BY <1>3, CommitmentStays
    <2> QED  BY <2>1, <2>2, <2>3 DEF Recorded
  <1> HIDE DEF reached, Reached
  <1>4. <<{}, d>> \in reached
    BY <1>1, <1>2
  <1>5. \A s \in SUBSET refs : \A x \in s : \A v :
           <<s \ {x}, v>> \in reached => <<s, Recorded(x, v)>> \in reached
    BY <1>1, <1>3
  <1>6. <<refs, B!SetFolded(d, refs)>> \in reached
    <2>1. B!IsFiniteSet(refs)
      BY Copies
    <2> QED  BY <1>4, <1>5, <2>1, B!FoldSetReaches
  <1>7. B!SetFolded(d, refs) = Headed(d, refs)
    BY DEF Headed, Recorded, B!SetFolded, B!FoldSet, B!MapThenFoldSet, FoldSet, MapThenFoldSet
  <1> QED  BY <1>1, <1>6, <1>7 DEF Reached

(* The marks of the transaction of a range.                                *)
LEMMA TransactionMarks ==
    ASSUME DbOK(db), known \in BOOLEAN, NEW first \in Ref, NEW headers \in SUBSET Ref,
           IsFiniteSet(headers), NEW logs \in Seq(Event), NEW to \in Nat, NEW marks, Tame(marks),
           marks = Marks(db) \cup MarksOf(ToSet(logs)), InOrder(logs), Aired(logs, known)
    PROVE  LET x == Transaction(first, headers, logs, to)
           IN  Accepted(x) => Marks(x) = marks
  <1> DEFINE refs == {first} \cup headers
             headed == Headed(db, refs)
             y == HandledLogs(headed, known, logs)
             moved == SetCursor(y, to)
             x == Transaction(first, headers, logs, to)
  <1>1. x = IF Settled(to) > 0 THEN MarkFinalized(moved, Settled(to)) ELSE moved
    BY DEF Transaction, Headed, HandledLogs
  <1>2. refs \in SUBSET Ref /\ IsFiniteSet(refs)
    <2>1. refs = headers \cup {first}
      OBVIOUS
    <2>2. IsFiniteSet(headers \cup {first})
      BY FS_AddElement
    <2> QED  BY <2>1, <2>2
  <1> HIDE DEF refs
  <1>3. SameRest(db, headed) /\ Keeps(db, headed)
    BY <1>2, HeadedBlocks, HeadedKeeps
  <1> HIDE DEF headed, x
  <1>4. DbOK(headed) /\ marks = Marks(headed) \cup MarksOf(ToSet(logs))
    BY <1>3, SameMarks DEF SameRest, Keeps
  <1>5. DbOK(y) /\ (Accepted(y) => Marks(y) = marks)
    BY <1>4, LogsHandled, MarksHandled
  <1> HIDE DEF y
  <1>6. Keeps(y, y)
    BY <1>5 DEF Keeps, DbOK, Db
  <1>7. DbOK(moved) /\ (Accepted(moved) <=> Accepted(y)) /\ Keeps(y, moved)
    BY <1>5, <1>6, CursorMoves, CommitmentStays
  <1> HIDE DEF moved
  <1>8. Keeps(y, x) /\ (Accepted(x) => Accepted(y))
    <2>1. Settled(to) \in Int
      BY IndexerAssumption DEF Settled
    <2>2. CASE Settled(to) > 0
      <3>1. x = MarkFinalized(moved, Settled(to))
        BY <1>1, <2>2
      <3>2. Accepted(x) => Accepted(moved)
        BY <1>7, <2>1, <3>1, FinalizedTypes
      <3> QED  BY <1>7, <3>1, <3>2, CommitmentStays
    <2>3. CASE ~(Settled(to) > 0)
      BY <1>1, <1>7, <2>3
    <2> QED  BY <2>2, <2>3
  <1> QED  BY <1>5, <1>8, SameMarks DEF x, Keeps

-----------------------------------------------------------------------------
(* What a rollback leaves of the marks                                     *)

(* A mark is neither older than the market nor beyond the cursor, and the  *)
(* submission is the oldest.                                               *)
Fits(d) ==
    \A m \in Marks(d) : /\ d.market.launchedAt <= m[2] /\ m[2] <= d.cursor
                        /\ \E g \in Marks(d) : g[1] = "CommitmentSubmitted" /\ g[2] <= m[2]

(* A rewind does to the commitment what deleting the blocks does.          *)
LEMMA RewoundCommitment ==
    ASSUME NEW d, DbOK(d), Accepted(d), NEW n \in Nat
    PROVE  Rewound(d, n).commitment =
             IF d.market.launchedAt <= n THEN CommitmentUpTo(d.commitment, n) ELSE EmptyDb.commitment
  <1> DEFINE y == CascadeAbove(d, n)
             left == [d EXCEPT !.blocks = {b \in d.blocks : b.number <= n},
                               !.rows = {r \in d.rows : r.block <= n}]
  <1>1. y = IF d.market.launchedAt <= n THEN [left EXCEPT !.commitment = CommitmentUpTo(left.commitment, n)]
            ELSE [EmptyDb EXCEPT !.cursor = d.cursor, !.blocks = left.blocks, !.asset = d.asset]
    BY DEF CascadeAbove
  <1>2. left.commitment = d.commitment /\ "commitment" \in DOMAIN left
    BY DEF DbOK, Db
  <1> HIDE DEF left
  <1>3. "commitment" \in DOMAIN y
        /\ y.commitment = IF d.market.launchedAt <= n THEN CommitmentUpTo(d.commitment, n) ELSE EmptyDb.commitment
    <2>1. CASE d.market.launchedAt <= n
      <3>1. y = [left EXCEPT !.commitment = CommitmentUpTo(d.commitment, n)]
        BY <1>1, <1>2, <2>1
      <3> HIDE DEF y
      <3> QED  BY <1>2, <2>1, <3>1
    <2>2. CASE ~(d.market.launchedAt <= n)
      <3>1. y = [EmptyDb EXCEPT !.cursor = d.cursor, !.blocks = left.blocks, !.asset = d.asset]
        BY <1>1, <2>2
      <3>2. "commitment" \in DOMAIN EmptyDb
        BY DEF EmptyDb
      <3> HIDE DEF y
      <3> QED  BY <2>2, <3>1, <3>2
    <2> QED  BY <2>1, <2>2
  <1> HIDE DEF y
  <1> DEFINE u == RecomputeState(y, n)
             v == RebuildBalances(u)
             w == RefreshHolderCount(v)
  <1>4. Keeps(y, u)
    BY <1>3 DEF Keeps, RecomputeState
  <1> HIDE DEF u
  <1>5. Keeps(y, v)
    BY <1>4 DEF Keeps, RebuildBalances
  <1> HIDE DEF v
  <1>6. Keeps(y, SetCursor(w, n))
    <2>1. Keeps(y, w)
      BY <1>5, CommitmentStays
    <2> HIDE DEF w
    <2> QED  BY <2>1, CommitmentStays
  <1>7. Rewound(d, n) = SetCursor(w, n)
    BY DEF Rewound, RollbackTo, y, u, v, w
  <1> HIDE DEF w
  <1> QED  BY <1>3, <1>6, <1>7 DEF Keeps

(* Only the marks up to the height stay.                                   *)
LEMMA RewoundMarks ==
    ASSUME NEW d, DbOK(d), Accepted(d), NEW n \in Nat, Fits(d)
    PROVE  Marks(Rewound(d, n)) = {m \in Marks(d) : m[2] <= n} /\ Fits(Rewound(d, n))
  <1> DEFINE x == Rewound(d, n)
             left == {m \in Marks(d) : m[2] <= n}
             at == d.market.launchedAt
  <1>1. x.commitment = IF at <= n THEN CommitmentUpTo(d.commitment, n) ELSE EmptyDb.commitment
    BY RewoundCommitment
  <1>2. x.cursor = n /\ x.market = IF at <= n THEN d.market ELSE NoMarket
    <2>1. CutAt(d, x, n)
      BY RewoundTypes
    <2> HIDE DEF x
    <2> QED  BY <2>1 DEF CutAt
  <1>3. EmptyDb.commitment = [submitted |-> 0, activated |-> 0, cancelled |-> 0]
    BY DEF EmptyDb, NoBlock
  <1>4. at \in Nat /\ d.cursor \in Nat
    BY DbFields
  <1>5. /\ d.commitment.submitted \in Nat /\ d.commitment.activated \in Nat /\ d.commitment.cancelled \in Nat
        /\ d.commitment \in [submitted : Nat, activated : Nat, cancelled : Nat]
    BY CommitmentFields
  <1>6. ASSUME NEW m \in Marks(d) PROVE m[2] \in Nat \ {0} /\ at <= m[2] /\ d.commitment.submitted <= m[2]
    <2>1. m[2] \in Nat \ {0}
      BY DEF Marks
    <2>2. PICK g \in Marks(d) : g[1] = "CommitmentSubmitted" /\ g[2] <= m[2]
      BY DEF Fits
    <2>3. g[2] = d.commitment.submitted
      BY <2>2 DEF Marks, MarkAt
    <2> QED  BY <2>1, <2>2, <2>3 DEF Fits
  <1> HIDE DEF x
  <1>7. left \subseteq MarkKinds \X Nat /\ Marks(x) \subseteq MarkKinds \X Nat
    BY DEF Marks
  <1>8. Marks(x) = left
    <2>1. CASE ~(at <= n)
      <3>1. \A m \in Marks(d) : ~(m[2] <= n)
        BY <1>4, <1>6, <2>1
      <3>2. x.commitment.submitted = 0 /\ x.commitment.activated = 0 /\ x.commitment.cancelled = 0
        BY <1>1, <1>3, <2>1
      <3>3. Agree(Marks(x), left)
        BY <3>1, <3>2, MarksAre DEF Agree
      <3> HIDE DEF left
      <3> QED  BY <1>7, <3>3, MarksAgree
    <2>2. CASE at <= n /\ d.commitment.submitted > n
      <3>1. \A m \in Marks(d) : ~(m[2] <= n)
        BY <1>5, <1>6, <2>2
      <3>2. x.commitment.submitted = 0 /\ x.commitment.activated = 0 /\ x.commitment.cancelled = 0
        BY <1>1, <1>3, <2>2 DEF CommitmentUpTo
      <3>3. Agree(Marks(x), left)
        BY <3>1, <3>2, MarksAre DEF Agree
      <3> HIDE DEF left
      <3> QED  BY <1>7, <3>3, MarksAgree
    <2>3. CASE at <= n /\ ~(d.commitment.submitted > n)
      <3>1. /\ x.commitment.submitted = d.commitment.submitted
            /\ x.commitment.activated = IF d.commitment.activated <= n THEN d.commitment.activated ELSE 0
            /\ x.commitment.cancelled = IF d.commitment.cancelled <= n THEN d.commitment.cancelled ELSE 0
        BY <1>1, <1>5, <2>3 DEF CommitmentUpTo, NoBlock
      <3>2. d.commitment.submitted <= n
        BY <1>5, <2>3
      <3>3. Agree(Marks(x), left)
        BY <1>5, <3>1, <3>2, MarksAre DEF Agree
      <3> HIDE DEF left
      <3> QED  BY <1>7, <3>3, MarksAgree
    <2> QED  BY <2>1, <2>2, <2>3
  <1>9. Fits(x)
    <2> SUFFICES ASSUME NEW m \in left
                 PROVE  /\ x.market.launchedAt <= m[2] /\ m[2] <= x.cursor
                        /\ \E g \in left : g[1] = "CommitmentSubmitted" /\ g[2] <= m[2]
      BY <1>8 DEF Fits
    <2>1. m \in Marks(d) /\ m[2] <= n
      OBVIOUS
    <2>2. PICK g \in Marks(d) : g[1] = "CommitmentSubmitted" /\ g[2] <= m[2]
      BY <2>1 DEF Fits
    <2>3. g[2] \in Nat /\ m[2] \in Nat /\ at <= m[2]
      BY <1>6, <2>1, <2>2
    <2>4. g \in left
      BY <2>1, <2>2, <2>3
    <2>5. x.market.launchedAt <= m[2]
      <3>1. NoMarket.launchedAt = 0
        BY DEF NoMarket, NoBlock
      <3> QED  BY <1>2, <2>3, <3>1
    <2> QED  BY <1>2, <2>1, <2>2, <2>4, <2>5
  <1> QED  BY <1>8, <1>9 DEF x

(* A full reindex leaves no mark, whatever was there.                      *)
LEMMA EmptiedMarks ==
    ASSUME NEW d, DbOK(d), Accepted(d)
    PROVE  Marks(Rewound(d, 0)) = {}
  <1> DEFINE x == Rewound(d, 0)
  <1>1. x.commitment = IF d.market.launchedAt <= 0 THEN CommitmentUpTo(d.commitment, 0) ELSE EmptyDb.commitment
    <2>1. PICK n : n = 0
      OBVIOUS
    <2>2. n \in Nat
      BY <2>1
    <2>3. Rewound(d, n).commitment =
             IF d.market.launchedAt <= n THEN CommitmentUpTo(d.commitment, n) ELSE EmptyDb.commitment
      BY <2>2, RewoundCommitment
    <2> QED  BY <2>1, <2>3
  <1>2. EmptyDb.commitment = [submitted |-> 0, activated |-> 0, cancelled |-> 0]
    BY DEF EmptyDb, NoBlock
  <1>3. /\ d.commitment.submitted \in Nat /\ d.commitment.activated \in Nat /\ d.commitment.cancelled \in Nat
        /\ d.commitment \in [submitted : Nat, activated : Nat, cancelled : Nat]
    BY CommitmentFields
  <1> HIDE DEF x
  <1>4. x.commitment.submitted = 0 /\ x.commitment.activated = 0 /\ x.commitment.cancelled = 0
    BY <1>1, <1>2, <1>3 DEF CommitmentUpTo, NoBlock
  <1>5. ASSUME NEW m \in Marks(x) PROVE FALSE
    BY <1>4 DEF Marks, MarkAt, MarkKinds
  <1> QED  BY <1>5 DEF x

-----------------------------------------------------------------------------
(* The marks against the chain                                             *)

Shows(c, d, n) == {m \in Marks(d) : m[2] <= n} = MarksOn(c, 1, n)
ShowsBy(c, d, refs) ==
    /\ AllOn(c, refs) => Shows(c, d, d.cursor)
    /\ \A r \in refs : CanonicalOn(c, r) => Shows(c, d, r.number)

(* What is right up to a height is right up to every lower one.            *)
LEMMA ShowsBelow ==
    ASSUME NEW c, NEW d, NEW m \in Nat, NEW n \in Nat, n <= m, Shows(c, d, m)
    PROVE  Shows(c, d, n)
  <1>1. MarksOn(c, 1, n) = {x \in MarksOn(c, 1, m) : x[2] <= n}
    <2>1. \A h : h \in 1 .. n <=> h \in 1 .. m /\ h <= n
      OBVIOUS
    <2> QED  BY <2>1 DEF MarksOn
  <1>2. {x \in Marks(d) : x[2] <= n} = {x \in {y \in Marks(d) : y[2] <= m} : x[2] <= n}
    <2>1. \A x \in Marks(d) : x[2] \in Nat
      BY DEF Marks
    <2>2. \A x \in Marks(d) : x[2] <= n => x[2] <= m
      BY <2>1
    <2> QED  BY <2>2
  <1> QED  BY <1>1, <1>2 DEF Shows

(* What the chain says below the point of a move stays.                    *)
LEMMA MarksOnMoved ==
    ASSUME NEW c \in Seq(ChainBlock), NEW f \in Nat, NEW k, NEW c2, NEW f2, Moved(c, f, k, c2, f2),
           NEW from \in Nat \ {0}, NEW to \in Nat, to <= k
    PROVE  MarksOn(c2, from, to) = MarksOn(c, from, to)
  <1>1. k \in Nat /\ \A i \in 1 .. k : c2[i] = c[i]
    BY DEF Moved
  <1>2. \A h \in from .. to : c2[h] = c[h]
    BY <1>1
  <1> QED  BY <1>2 DEF MarksOn

(* Marks that follow the chain still do after a move that a header, or the *)
(* cursor, tells.                                                          *)
LEMMA ShowsByMoved ==
    ASSUME NEW c \in Seq(ChainBlock), NEW f \in Nat, NEW k, NEW c2, NEW f2, Moved(c, f, k, c2, f2),
           NEW d, DbOK(d), NEW refs \in SUBSET Ref, \A r \in refs : Stamped(c, f, r),
           Follows(c, d, refs), ShowsBy(c, d, refs),
           k = Len(c) \/ d.cursor <= k \/ \E r \in refs : r.number > k
    PROVE  ShowsBy(c2, d, refs)
  <1>1. Len(c) \in Nat /\ k \in 0 .. Len(c) /\ d.cursor \in Nat /\ 1 \in Nat \ {0}
    BY DEF Moved, DbOK, Db
  <1>2. \A r \in refs : /\ CanonicalOn(c2, r) <=> CanonicalOn(c, r) /\ r.number <= k
                        /\ r.number \in Nat
    BY StampedMoved DEF Ref
  <1>3. \A n \in Nat : n <= k /\ Shows(c, d, n) => Shows(c2, d, n)
    BY <1>1, MarksOnMoved DEF Shows
  <1>4. ASSUME AllOn(c2, refs) PROVE Shows(c2, d, d.cursor)
    <2>1. AllOn(c, refs) /\ \A r \in refs : r.number <= k
      BY <1>2, <1>4 DEF AllOn
    <2>2. d.cursor <= Len(c) /\ Shows(c, d, d.cursor)
      BY <2>1 DEF Follows, ShowsBy
    <2>3. d.cursor <= k
      BY <1>1, <1>2, <2>1, <2>2
    <2> QED  BY <1>1, <1>3, <2>2, <2>3
  <1>5. ASSUME NEW r \in refs, CanonicalOn(c2, r) PROVE Shows(c2, d, r.number)
    BY <1>2, <1>3, <1>5 DEF ShowsBy
  <1> QED  BY <1>4, <1>5 DEF ShowsBy

(* What was read below the point of a move is still what the chain says.   *)
LEMMA ToldMoved ==
    ASSUME NEW c \in Seq(ChainBlock), NEW f \in Nat, NEW k, NEW c2, NEW f2, Moved(c, f, k, c2, f2),
           NEW from \in Nat \ {0}, NEW to \in Nat, to <= k, NEW logs, Told(c, logs, from, to)
    PROVE  Told(c2, logs, from, to)
  BY MarksOnMoved DEF Told

(* A rewind keeps what is right up to its height.                          *)
LEMMA RewoundShows ==
    ASSUME NEW d, DbOK(d), Accepted(d), NEW n \in Nat, Fits(d), NEW c, NEW m \in Nat, m <= n,
           Shows(c, d, m)
    PROVE  Shows(c, Rewound(d, n), m)
  <1>1. Marks(Rewound(d, n)) = {x \in Marks(d) : x[2] <= n}
    BY RewoundMarks
  <1>2. \A x \in Marks(d) : x[2] \in Nat
    BY DEF Marks
  <1>3. {x \in {y \in Marks(d) : y[2] <= n} : x[2] <= m} = {x \in Marks(d) : x[2] <= m}
    BY <1>2
  <1> QED  BY <1>1, <1>3 DEF Shows

(* Nothing is right of the chain before its first block.                   *)
LEMMA NothingShown ==
    ASSUME NEW d, Marks(d) = {}
    PROVE  Fits(d) /\ \A c : Shows(c, d, 0)
  <1>1. 1 .. 0 = {}
    OBVIOUS
  <1>2. \A c : MarksOn(c, 1, 0) = {}
    BY <1>1 DEF MarksOn
  <1> QED  BY <1>2 DEF Fits, Shows

(* The marks up to the end of a range that joins, or overlaps, what is     *)
(* there are those of one commitment.                                      *)
LEMMA RangeMarks ==
    ASSUME NEW c \in Seq(ChainBlock), Submissions(c), NEW d, DbOK(d), Fits(d), NEW logs,
           NEW from \in Nat \ {0}, NEW to \in Nat, from <= d.cursor + 1, d.cursor <= to, to <= Len(c),
           Shows(c, d, d.cursor), Told(c, logs, from, to)
    PROVE  /\ Tame(MarksOn(c, 1, to))
           /\ MarksOn(c, 1, to) = Marks(d) \cup MarksOf(ToSet(logs))
  <1>1. d.cursor \in Nat
    BY DbFields
  <1>2. Marks(d) = MarksOn(c, 1, d.cursor)
    <2>1. {m \in Marks(d) : m[2] <= d.cursor} = Marks(d)
      BY DEF Fits
    <2> QED  BY <2>1 DEF Shows
  <1>3. MarksOf(ToSet(logs)) = MarksOn(c, from, to)
    BY DEF Told
  <1>4. MarksOn(c, 1, to) = MarksOn(c, 1, d.cursor) \cup MarksOn(c, from, to)
    <2> DEFINE n == d.cursor
    <2>1. n \in Nat /\ from <= n + 1 /\ n <= to
      BY <1>1
    <2> HIDE DEF n
    <2>2. \A h : h \in 1 .. to <=> h \in 1 .. n \/ h \in from .. to
      BY <2>1
    <2>3. MarksOn(c, 1, to) = MarksOn(c, 1, n) \cup MarksOn(c, from, to)
      BY <2>2 DEF MarksOn
    <2> QED  BY <2>3 DEF n
  <1> QED  BY <1>2, <1>3, <1>4, ChainIsTame

(* A database that mirrors the chain and shows its commitment fits.        *)
LEMMA ShownFits ==
    ASSUME NEW c \in Seq(ChainBlock), History(c), NEW d, NEW to \in Nat, to <= Len(c),
           d.cursor = to, Mirrors(c, d, to), Marks(d) = MarksOn(c, 1, to), Tame(MarksOn(c, 1, to))
    PROVE  Fits(d) /\ \A n \in Nat : n <= to => Shows(c, d, n)
  <1>0. Len(c) \in Nat
    OBVIOUS
  <1>1. ASSUME NEW m \in Marks(d)
        PROVE  /\ d.market.launchedAt <= m[2] /\ m[2] <= d.cursor
               /\ \E g \in Marks(d) : g[1] = "CommitmentSubmitted" /\ g[2] <= m[2]
    <2>1. m[1] \in MarkKinds /\ m[2] \in 1 .. to /\ c[m[2]].what = Cause(m[1])
      BY DEF MarksOn
    <2>2. Cause(m[1]) \notin {"quiet", "register", "launch"}
      BY <2>1 DEF MarkKinds, Cause
    <2>3. m[2] \in 1 .. Len(c)
      BY <1>0, <2>1
    <2>4. PICK g \in 1 .. m[2] - 1 : c[g].what = "launch"
      BY <2>1, <2>2, <2>3 DEF History
    <2>5. g \in 1 .. to /\ g <= m[2]
      BY <2>1, <2>4
    <2>6. d.market.launchedAt = g
      BY <2>4, <2>5 DEF Mirrors
    <2>7. \E o \in Marks(d) : o[1] = "CommitmentSubmitted" /\ o[2] <= m[2]
      <3>1. CASE m[1] = "CommitmentSubmitted"
        BY <2>1, <3>1
      <3>2. CASE m[1] # "CommitmentSubmitted"
        <4>1. PICK o \in Marks(d) : o[1] = "CommitmentSubmitted" /\ o[2] < m[2]
          BY <3>2 DEF Tame
        <4>2. o[2] \in Nat
          BY DEF Marks
        <4> QED  BY <2>1, <4>1, <4>2
      <3> QED  BY <3>1, <3>2
    <2> QED  BY <2>1, <2>5, <2>6, <2>7
  <1>2. Shows(c, d, to)
    <2>1. {m \in Marks(d) : m[2] <= to} = Marks(d)
      BY <1>1
    <2> QED  BY <2>1 DEF Shows
  <1> QED  BY <1>1, <1>2, ShowsBelow DEF Fits
=============================================================================
