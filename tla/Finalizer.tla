------------------------------ MODULE Finalizer -----------------------------
(***************************************************************************)
(* services/finalizer/src/finalizer.ts for one funded market, over the     *)
(* tables its indexer keeps writing.  The finalizer reads them with one    *)
(* statement after another and no transaction, computes, and writes a      *)
(* dataset that nothing ever updates.                                      *)
(*                                                                         *)
(* Block n has timestamp n.  The indexer's side is reduced to the rows the *)
(* finalizer reads (their projection is the subject of Indexer): a range   *)
(* of one block is committed, the settled height follows, and blocks may   *)
(* be rolled back, those below the settled height too: a reorganisation    *)
(* deeper than the confirmations and a full reindex both do it.            *)
(***************************************************************************)
EXTENDS Merkle

CONSTANTS
    Pool,               \* the pool's address, known before the pool exists
    Purchases,          \* who may buy in one block, sets of accounts
    Sellers,            \* who may sell
    Contribution,       \* reward asset that a block of trades brings
    Confirmations,
    SettlementMargin,   \* seconds beyond finality, 900
    RewindsTo,          \* heights a rollback may go back to
    MaxBlock, MaxTrades,
    MaxUpsets           \* rollbacks and failures together

ASSUME FinalizerAssumption ==
    /\ Pool \in Accounts /\ Accounts \subseteq Nat /\ Sellers \subseteq Accounts
    /\ RewindsTo \subseteq Nat
    /\ Purchases \subseteq SUBSET Accounts /\ {} \notin Purchases
    /\ {Contribution, Confirmations, SettlementMargin, MaxBlock, MaxTrades, MaxUpsets} \subseteq Nat

VARIABLES
    blocks,      \* block n: the balance changes, the contribution, graduation
    finalized,   \* the highest block marked finalized, 0 for none
    excluded,    \* stockback_exclusions beyond those every market starts with
    datasets,    \* stockback_datasets with their entitlements
    pc, pass,    \* the finalizer: where it is, and what this pass has read
    upsets

tables == <<blocks, finalized, excluded, datasets>>
process == <<pc, pass>>
vars == <<tables, process, upsets>>

NoPass == [settled |-> 0, latest |-> -1, events |-> <<>>, funding |-> <<>>,
           totalFunded |-> 0, raced |-> FALSE, output |-> NotDistributable, excluded |-> {}]

Epochs == 0 .. EpochIdAt(MaxBlock)

(* Slip: the epoch the cut-off falls in counts as covered. *)
ThroughOpenEpoch(settled) ==
    LET cutoff == settled - SettlementMargin
    IN  IF cutoff <= 0 THEN -1 ELSE EpochIdAt(cutoff)

FinalizableThrough(settled) ==
    LET cutoff == settled - SettlementMargin
    IN  IF cutoff <= 0 THEN -1 ELSE EpochIdAt(cutoff) - 1

ToTs == EpochEnd(FinalizableThrough(pass.settled))

(* The rows up to a time that is not included itself. *)
Before(toTs) == 1 .. (IF toTs - 1 < Len(blocks) THEN toTs - 1 ELSE Len(blocks))
EventsAt(n) ==
    [i \in DOMAIN blocks[n].moves |->
        [account |-> blocks[n].moves[i][1], delta |-> blocks[n].moves[i][2], at |-> n]]
ListBalanceEvents(toTs) == FlattenSeq([n \in Before(toTs) |-> EventsAt(n)])

Funding(heights) == Total([n \in heights |-> blocks[n].funding])
ListFundingByEpoch(toTs) == [e \in Epochs |-> Funding({n \in Before(toTs) : EpochIdAt(n) = e})]
GetTotalFundedThrough(toTs) == Funding(Before(toTs))

MovesOf(n, a) ==
    LET moves == blocks[n].moves
    IN  Total([i \in DOMAIN moves |-> IF moves[i][1] = a THEN moves[i][2] ELSE 0])
BalanceAt(a, at) == Total([n \in Before(at + 1) |-> MovesOf(n, a)])
BalanceNow(a) == BalanceAt(a, Len(blocks))

-----------------------------------------------------------------------------
Init ==
    /\ blocks = <<>> /\ finalized = 0 /\ excluded = {} /\ datasets = {}
    /\ pc = "idle" /\ pass = NoPass
    /\ upsets = 0

(* What a block brings.  The curve's own balance is excluded from the start *)
(* and left out.  Tokens may reach the pool's address before there is a     *)
(* pool; its liquidity comes with graduation.                               *)
Block(moves, funding, graduates) == [moves |-> moves, funding |-> funding, graduates |-> graduates]
Quiet == Block(<<>>, 0, FALSE)
Bought(buyers) == Block([i \in 1 .. Cardinality(buyers) |-> <<SetToSeq(buyers)[i], 1>>], Contribution, FALSE)
Sold(a) == Block(<<<<a, -1>>>>, Contribution, FALSE)
Graduated == Block(<<<<Pool, 1>>>>, 0, TRUE)

HasGraduated == \E n \in DOMAIN blocks : blocks[n].graduates
NextBlocks ==
    {Quiet} \cup {Bought(buyers) : buyers \in Purchases}
            \cup {Sold(a) : a \in {h \in Sellers : BalanceNow(h) > 0}}
            \cup (IF HasGraduated THEN {} ELSE {Graduated})

Eventful == Cardinality({n \in DOMAIN blocks : blocks[n] # Quiet})

(* A tick: a range of one block is committed, then what lies Confirmations  *)
(* below is marked.  A finalizer that looks between the two sees what one   *)
(* sees that read the settled height just before.                           *)
IndexBlock ==
    /\ Len(blocks) < MaxBlock
    /\ \E block \in NextBlocks :
          /\ block # Quiet => Eventful < MaxTrades
          /\ blocks' = Append(blocks, block)
          /\ excluded' = IF block.graduates THEN excluded \cup {Pool} ELSE excluded
    /\ finalized' = IF Len(blocks) + 1 - Confirmations > finalized
                       THEN Len(blocks) + 1 - Confirmations ELSE finalized
    /\ UNCHANGED <<datasets, process, upsets>>

(* Slip: datasets computed through a block outlive it. *)
KeepDatasets(n) == datasets

(* computed_through_block and market reference rows with ON DELETE CASCADE. *)
DatasetsAfter(n) == {d \in datasets : d.throughBlock <= n}

(* rollbackTo: an exclusion goes only with the market, launched in block 1. *)
Rewind(n) ==
    /\ upsets < MaxUpsets /\ upsets' = upsets + 1
    /\ blocks' = SubSeq(blocks, 1, n)
    /\ finalized' = IF finalized > n THEN n ELSE finalized
    /\ excluded' = IF n = 0 THEN {} ELSE excluded
    /\ datasets' = DatasetsAfter(n)
    /\ pass' = [pass EXCEPT !.raced = @ \/ n + 1 < ToTs]
    /\ UNCHANGED pc

Indexer == IndexBlock \/ \E n \in RewindsTo : n < Len(blocks) /\ Rewind(n)

-----------------------------------------------------------------------------
At(label) == pc = label
Goto(label) == pc' = label /\ UNCHANGED <<tables, upsets>>

(* Slip: what a pass has read is still there after it. *)
KeepPass == pc' = "idle" /\ UNCHANGED <<pass, tables, upsets>>

Skip == Goto("idle") /\ pass' = NoPass

(* runOnce: finalizedHead, then the markets that were ever funded. *)
HasWork ==
    /\ finalized > 0 /\ FinalizableThrough(finalized) >= 0
    /\ \E n \in DOMAIN blocks : blocks[n].funding > 0
ReadSettled ==
    /\ At("idle") /\ HasWork
    /\ Goto("latest") /\ pass' = [NoPass EXCEPT !.settled = finalized]

LatestSequence == IF datasets = {} THEN -1 ELSE Max({d.epochSequence : d \in datasets})

(* Slip: a market one epoch behind counts as up to date. *)
NearlyUpToDate(latest, through) == latest >= 0 /\ latest + 1 >= through

UpToDate(latest, through) == latest >= through

ReadLatest ==
    /\ At("latest")
    /\ IF UpToDate(LatestSequence, FinalizableThrough(pass.settled)) THEN Skip
       ELSE Goto("events") /\ pass' = [pass EXCEPT !.latest = LatestSequence]

(* Slip: only what happened since the previous dataset. *)
EventsSinceLatest(latest, toTs) ==
    SelectSeq(ListBalanceEvents(toTs), LAMBDA event : EpochIdAt(event.at) > latest)

(* From zero: cumulative entitlements cannot be incremented. *)
EventsFromZero(latest, toTs) == ListBalanceEvents(toTs)

ReadEvents ==
    /\ At("events")
    /\ Goto("funding") /\ pass' = [pass EXCEPT !.events = EventsFromZero(pass.latest, ToTs)]

ReadFunding ==
    /\ At("funding")
    /\ Goto("total") /\ pass' = [pass EXCEPT !.funding = ListFundingByEpoch(ToTs)]

ReadTotal ==
    /\ At("total")
    /\ Goto("exclusions") /\ pass' = [pass EXCEPT !.totalFunded = GetTotalFundedThrough(ToTs)]

(* computeFinalization, on the events, the funding and the exclusions. *)
ComputeFinalization(events, funding, known, totalFunded, latest) ==
    LET epochs == BucketByEpoch(events, funding)
        result == ComputeDistribution(epochs, known, totalFunded)
    IN  IF events = <<>> \/ result.epochSequence <= latest THEN NotDistributable ELSE result

ReadExclusions ==
    /\ At("exclusions")
    /\ LET output == ComputeFinalization(pass.events, pass.funding, excluded, pass.totalFunded, pass.latest)
       IN  IF output = NotDistributable THEN Skip
           ELSE Goto("persist") /\ pass' = [pass EXCEPT !.output = output, !.excluded = excluded]

(* recordDataset, with every holder's proof against the root beside it.     *)
DatasetOf(p) ==
    LET leaves == Leaves(p.output.cumulative)
    IN  [epochSequence |-> p.output.epochSequence, cumulative |-> p.output.cumulative,
         total |-> p.output.total, carry |-> p.output.carry,
         root |-> ComputeRoot(leaves), totalFunded |-> p.totalFunded, throughBlock |-> p.settled,
         proofs |-> {[leaf |-> leaves[i], proof |-> ProofOf(leaves, i)] : i \in DOMAIN leaves},
         excluded |-> p.excluded, raced |-> p.raced]

(* The foreign keys and the CHECK of migrations/0002_finalizer.sql. *)
Insertable(d) ==
    /\ d.throughBlock \in DOMAIN blocks
    /\ d.total <= d.totalFunded

(* ON CONFLICT DO NOTHING, row by row: the dataset of a sequence that is    *)
(* there keeps its header, and gets the holders it did not have.            *)
RecordDataset(d) ==
    LET same == {old \in datasets : old.epochSequence = d.epochSequence}
        Merged(old) ==
            [old EXCEPT !.cumulative = [a \in Accounts |-> IF @[a] > 0 THEN @[a] ELSE d.cumulative[a]],
                        !.proofs = @ \cup {new \in d.proofs : old.cumulative[new.leaf.account] = 0}]
    IN  IF same = {} THEN datasets \cup {d} ELSE (datasets \ same) \cup {Merged(old) : old \in same}

Persist ==
    /\ At("persist")
    /\ pc' = "idle" /\ pass' = NoPass
    /\ datasets' = IF Insertable(DatasetOf(pass)) THEN RecordDataset(DatasetOf(pass)) ELSE datasets
    /\ UNCHANGED <<blocks, finalized, excluded, upsets>>

(* A statement throws, or the process dies: the next pass starts over.      *)
Fail ==
    /\ ~At("idle") /\ upsets < MaxUpsets
    /\ upsets' = upsets + 1
    /\ pc' = "idle" /\ pass' = NoPass /\ UNCHANGED tables

Step == ReadSettled \/ ReadLatest \/ ReadEvents \/ ReadFunding \/ ReadTotal \/ ReadExclusions \/ Persist

Next == Indexer \/ Step \/ Fail

(* The loop of start() comes round again whatever a pass threw, and no      *)
(* statement hangs: the process does not stay where it is while it has work.*)
Labels == {"idle", "latest", "events", "funding", "total", "exclusions", "persist"}
Turn == (At("idle") => HasWork) /\ pc' \in Labels \ {pc}
FairSpec == Init /\ [][Next]_vars /\ WF_pc(Turn)
=============================================================================
