------------------------------- MODULE Worker -------------------------------
(***************************************************************************)
(* services/worker: the runner's loop and its handlers, at work on the     *)
(* tables the indexer writes.  A step ends where the code awaits the       *)
(* database, so several workers, the indexer's transactions, the sweep,    *)
(* failing calls and deaths of a process interleave between any two.       *)
(*                                                                         *)
(* One market, in which every trade moves one token to one account, so the *)
(* events of the account add up to the number of trades.  A block is one   *)
(* unit of time, one candle interval is kept, the day, as it is the one    *)
(* that two kinds of job write.                                            *)
(***************************************************************************)
EXTENDS JobQueue, Sequences, SequencesExt

CONSTANTS
    Workers,       \* processes that run the loop
    MaxBlock,      \* bound on the chain
    Day,           \* blocks of a day
    MaxRollbacks, MaxSweeps,
    MaxMishaps,    \* bounds on rollbacks, sweeps, and calls that fail or processes that die
    MaxUpsets      \* bound on all of these together, a rollback or a sweep counting twice

ASSUME WorkerAssumption ==
    /\ MaxBlock \in Nat \ {0} /\ Day \in Nat \ {0}
    /\ {MaxRollbacks, MaxSweeps, MaxMishaps, MaxUpsets} \subseteq Nat

VARIABLES
    trades,      \* the trades table in chain order: [block, price]
    cursor,      \* last block indexed
    balance,     \* balances.balance of the account
    candles,     \* the candles table by bucket
    jobs,        \* the jobs table
    pc, job, attempt, got,   \* per worker: where its step stands, its job, what it has read
    rollbacks, sweeps, mishaps,
    missed,      \* derived rows left stale in a way the queue has no means to see
    doubted      \* whether a job that was completed was reported as failed

tables == <<trades, cursor, balance>>
loops == <<pc, job, attempt, got>>
bounds == <<rollbacks, sweeps, mishaps>>
vars == <<tables, candles, jobs, loops, bounds, missed, doubted>>

BucketOf(block) == (block \div Day) * Day
Buckets == {BucketOf(b) : b \in 0 .. MaxBlock}
NoCandle == [count |-> 0]
NoJobId == <<"none">>
Nothing == [kind |-> "nothing"]

Calm(weight) == 2 * (rollbacks + sweeps) + mishaps + weight <= MaxUpsets

(* The identifiers of schedule.ts: built from what names the work alone. *)
CandleJob(bucket) == <<"candles", bucket>>
HolderJob(block) == <<"holders", block>>
AnalyticsJob(bucket) == <<"analytics", bucket>>
JobIds == {CandleJob(b) : b \in Buckets} \cup {AnalyticsJob(b) : b \in Buckets}
            \cup {HolderJob(b) : b \in 1 .. MaxBlock}

(* The row of the derived tables a job rewrites. *)
Balances == <<"balances">>
RowOf(id) == IF id[1] = "holders" THEN Balances ELSE <<"candle", id[2]>>

-----------------------------------------------------------------------------
(* candles.ts and the queries it feeds on. *)

(* The trades of s in some blocks: SelectSeq, as a recursive function.      *)
Kept(s, blocks) ==
    LET kept[i \in 0 .. Len(s)] ==
            IF i = 0 THEN <<>>
            ELSE IF s[i].block \in blocks THEN Append(kept[i - 1], s[i]) ELSE kept[i - 1]
    IN  kept[Len(s)]

TradesIn(bucket) == Kept(trades, {b \in 0 .. MaxBlock : BucketOf(b) = bucket})
PriceBefore(bucket) ==
    LET earlier == Kept(trades, 0 .. bucket - 1)
    IN  IF earlier = <<>> THEN 0 ELSE Last(earlier).price

(* A candle opens where the market was, or at its own first trade. *)
Extend(candle, t) ==
    [candle EXCEPT !.high = IF t.price > @ THEN t.price ELSE @,
                   !.low = IF t.price < @ THEN t.price ELSE @,
                   !.close = t.price, !.volume = @ + t.price, !.count = @ + 1]
Aggregate(ts, prior) ==
    LET open == IF prior = 0 THEN Head(ts).price ELSE prior
    IN  FoldLeft(Extend, [open |-> open, high |-> open, low |-> open,
                          close |-> open, volume |-> 0, count |-> 0], ts)

-----------------------------------------------------------------------------
(* Which workers run a job, and those of them that have read its input. *)
Running(w) == pc[w] # "idle"
RunnersOf(row) == {w \in Workers : Running(w) /\ RowOf(job[w]) = row}
HasRead(w) == pc[w] \notin {"idle", "read"}

(* What the queue cannot see, row by row.  An enqueue is turned away while  *)
(* the job of that name is dead, or runs and has read its input already, or *)
(* its worker has died.                                                     *)
TurnedAway(id) ==
    \/ jobs[id].status = "DEAD"
    \/ jobs[id].status = "RUNNING" /\ \A w \in Workers : job[w] = id => HasRead(w)

(* An enqueue is seen to when it arms a job that no worker is still at.  A  *)
(* worker that was told its completion failed is still at a job that is     *)
(* DONE: what it does next falls on the row that was armed anew.            *)
ArmedForNobody(id) == Armed(jobs[id]) /\ \A w \in Workers : job[w] # id

(* The blocks of a range of one or two that have a trade, in order, and the *)
(* trades they have, whose prices tell blocks and forks apart.              *)
TradingBlocks(from, to) == {<<from>>, <<to>>} \cup {<<from, b>> : b \in (from + 1) .. to}
PriceAt(block) == 1 + ((block + rollbacks) % 2)
NewTrades(blocks) == [i \in DOMAIN blocks |-> [block |-> blocks[i], price |-> PriceAt(blocks[i])]]

(* scheduleForRange, inside the indexer's transaction.  Both ends it is     *)
(* given are the time of the first block of the range.                      *)
ScheduledFor(from, to) == {CandleJob(BucketOf(from)), HolderJob(to)}

Init ==
    /\ trades = <<>> /\ cursor = 0 /\ balance = 0
    /\ candles = [b \in Buckets |-> NoCandle]
    /\ jobs = [id \in JobIds |-> NoJob]
    /\ pc = [w \in Workers |-> "idle"]
    /\ job = [w \in Workers |-> NoJobId]
    /\ attempt = [w \in Workers |-> 0]
    /\ got = [w \in Workers |-> Nothing]
    /\ rollbacks = 0 /\ sweeps = 0 /\ mishaps = 0
    /\ missed = {} /\ doubted = FALSE

(* The indexer's transaction on the next one or two blocks.  A row a trade  *)
(* changed and no enqueue speaks of is left stale, as is one whose enqueue  *)
(* was turned away; one that is armed anew will be looked at again.         *)
IndexRange ==
    /\ \E to \in {cursor + 1, cursor + 2} \cap (1 .. MaxBlock) :
       \E blocks \in TradingBlocks(cursor + 1, to) :
         LET new == NewTrades(blocks)
             ids == ScheduledFor(cursor + 1, to)
             touched == {<<"candle", BucketOf(new[i].block)>> : i \in DOMAIN new} \cup {Balances}
         IN  /\ trades' = trades \o new
             /\ cursor' = to
             /\ balance' = balance + Len(new)
             /\ jobs' = Enqueue(jobs, ids)
             /\ missed' = (missed \ (touched \cap {RowOf(id) : id \in {i \in ids : ArmedForNobody(i)}}))
                            \cup (touched \ {RowOf(id) : id \in ids})
                            \cup {RowOf(id) : id \in {i \in ids : TurnedAway(i)}}
    /\ UNCHANGED <<candles, loops, bounds, doubted>>

(* rollbackTo: the trades above the fork go and balances are folded from    *)
(* the events that stay, but nothing is enqueued for what the rows derived  *)
(* from them say, nor for a worker that has read them.                      *)
Rollback(n) ==
    /\ rollbacks < MaxRollbacks /\ Calm(2) /\ n < cursor
    /\ rollbacks' = rollbacks + 1
    /\ trades' = Kept(trades, 0 .. n)
    /\ balance' = Len(trades')
    /\ cursor' = n
    /\ missed' = missed \cup {<<"candle", b>> : b \in {b \in Buckets : TradesIn(b)' # TradesIn(b)}}
                        \cup {Balances}
    /\ UNCHANGED <<candles, jobs, loops, sweeps, mishaps, doubted>>

(* scheduleSweep, once an hour: the analytics of a day that is over by the  *)
(* wall clock, wherever the indexer has got to.                             *)
Sweep(bucket) ==
    /\ sweeps < MaxSweeps /\ Calm(2) /\ trades # <<>> /\ bucket < BucketOf(MaxBlock)
    /\ sweeps' = sweeps + 1
    /\ jobs' = Enqueue(jobs, {AnalyticsJob(bucket)})
    /\ UNCHANGED <<tables, candles, loops, rollbacks, mishaps, missed, doubted>>

(* Time matters to the jobs that wait for a retry. *)
ClockAdvances ==
    /\ Waiting(jobs)
    /\ jobs' = Elapse(jobs)
    /\ UNCHANGED <<tables, candles, loops, bounds, missed, doubted>>

-----------------------------------------------------------------------------
(* The runner's step, for worker w. *)

(* Two jobs that rewrite the same row are not kept apart by their names. *)
ClaimJob(w) ==
    /\ pc[w] = "idle"
    /\ \E id \in JobIds :
         /\ Due(jobs[id])
         /\ jobs' = Claim(jobs, id)
         /\ attempt' = [attempt EXCEPT ![w] = jobs[id].attempts + 1]
         /\ job' = [job EXCEPT ![w] = id]
         /\ missed' = missed \cup (IF RunnersOf(RowOf(id)) # {} THEN {RowOf(id)} ELSE {})
    /\ pc' = [pc EXCEPT ![w] = "read"]
    /\ got' = [got EXCEPT ![w] = Nothing]
    /\ UNCHANGED <<tables, candles, bounds, doubted>>

IsCandle(id) == id[1] \in {"candles", "analytics"}

(* candleHandler and analyticsRollupHandler: no trades, no candle. *)
ReadTrades(w) ==
    /\ pc[w] = "read" /\ IsCandle(job[w])
    /\ LET ts == TradesIn(job[w][2])
       IN  /\ got' = [got EXCEPT ![w] = IF ts = <<>> THEN Nothing ELSE [kind |-> "trades", trades |-> ts]]
           /\ pc' = [pc EXCEPT ![w] = IF ts = <<>> THEN "complete" ELSE "prior"]
    /\ UNCHANGED <<tables, candles, jobs, job, attempt, bounds, missed, doubted>>

ReadPrior(w) ==
    /\ pc[w] = "prior"
    /\ got' = [got EXCEPT ![w] = [kind |-> "candle",
                                  candle |-> Aggregate(got[w].trades, PriceBefore(job[w][2]))]]
    /\ pc' = [pc EXCEPT ![w] = "write"]
    /\ UNCHANGED <<tables, candles, jobs, job, attempt, bounds, missed, doubted>>

UpsertCandle(w) ==
    /\ pc[w] = "write" /\ IsCandle(job[w])
    /\ candles' = [candles EXCEPT ![job[w][2]] = got[w].candle]
    /\ pc' = [pc EXCEPT ![w] = "complete"]
    /\ got' = [got EXCEPT ![w] = Nothing]
    /\ UNCHANGED <<tables, jobs, job, attempt, bounds, missed, doubted>>

(* holderReconciliationHandler: the running total and the fold are read     *)
(* side by side, and only then the transaction begins.                      *)
ReadOneSide(w) ==
    /\ pc[w] = "read" /\ ~IsCandle(job[w])
    /\ \E side \in {"stored", "derived"} :
         got' = [got EXCEPT ![w] = [kind |-> side,
                                    value |-> IF side = "stored" THEN balance ELSE Len(trades)]]
    /\ pc' = [pc EXCEPT ![w] = "other"]
    /\ UNCHANGED <<tables, candles, jobs, job, attempt, bounds, missed, doubted>>

ReadOtherSide(w) ==
    /\ pc[w] = "other"
    /\ got' = [got EXCEPT ![w] =
                 IF got[w].kind = "stored"
                 THEN [kind |-> "both", stored |-> got[w].value, derived |-> Len(trades)]
                 ELSE [kind |-> "both", stored |-> balance, derived |-> got[w].value]]
    /\ pc' = [pc EXCEPT ![w] = "write"]
    /\ UNCHANGED <<tables, candles, jobs, job, attempt, bounds, missed, doubted>>

(* Slip: the total is set to what it was, not to what the events say. *)
KeepStored(w) == balance' = got[w].stored

Repaired(w) == balance' = IF got[w].stored = got[w].derived THEN balance ELSE got[w].derived
Reconcile(w) ==
    /\ pc[w] = "write" /\ ~IsCandle(job[w])
    /\ Repaired(w)
    /\ pc' = [pc EXCEPT ![w] = "complete"]
    /\ got' = [got EXCEPT ![w] = Nothing]
    /\ UNCHANGED <<trades, cursor, candles, jobs, job, attempt, bounds, missed, doubted>>

(* Slip: the worker does not let go of the job.                             *)
KeepJob(w) ==
    /\ pc' = [pc EXCEPT ![w] = "idle"]
    /\ got' = [got EXCEPT ![w] = Nothing]
    /\ UNCHANGED <<job, attempt>>

Idle(w) ==
    /\ pc' = [pc EXCEPT ![w] = "idle"]
    /\ job' = [job EXCEPT ![w] = NoJobId]
    /\ attempt' = [attempt EXCEPT ![w] = 0]
    /\ got' = [got EXCEPT ![w] = Nothing]

CompleteJob(w) ==
    /\ pc[w] = "complete"
    /\ jobs' = Complete(jobs, job[w])
    /\ Idle(w)
    /\ UNCHANGED <<tables, candles, bounds, missed, doubted>>

(* Any call of the handler, or completeJob itself, throws.  Nothing tells a *)
(* completion that was refused from one whose answer was lost.              *)
HandlerThrows(w) ==
    /\ Running(w) /\ pc[w] # "failed" /\ mishaps < MaxMishaps /\ Calm(1)
    /\ mishaps' = mishaps + 1
    /\ pc' = [pc EXCEPT ![w] = "failed"]
    /\ got' = [got EXCEPT ![w] = Nothing]
    /\ \/ UNCHANGED <<jobs, doubted>>
       \/ pc[w] = "complete" /\ jobs' = Complete(jobs, job[w]) /\ doubted' = TRUE
    /\ UNCHANGED <<tables, candles, job, attempt, rollbacks, sweeps, missed>>

HandleFailure(w) ==
    /\ pc[w] = "failed"
    /\ jobs' = Fail(jobs, job[w], RetryDecision(attempt[w]))
    /\ Idle(w)
    /\ UNCHANGED <<tables, candles, bounds, missed, doubted>>

(* The process dies, or the call that records the failure fails too: either *)
(* way the row stays RUNNING, and no step of any worker takes it up again.  *)
Abandon(w) ==
    /\ Running(w) /\ mishaps < MaxMishaps /\ Calm(1)
    /\ mishaps' = mishaps + 1
    /\ Idle(w)
    /\ UNCHANGED <<tables, candles, jobs, rollbacks, sweeps, missed, doubted>>

Step(w) ==
    \/ ClaimJob(w) \/ ReadTrades(w) \/ ReadPrior(w) \/ UpsertCandle(w)
    \/ ReadOneSide(w) \/ ReadOtherSide(w) \/ Reconcile(w)
    \/ CompleteJob(w) \/ HandleFailure(w)

Next ==
    \/ IndexRange
    \/ \E n \in 0 .. MaxBlock : Rollback(n)
    \/ \E b \in Buckets : Sweep(b)
    \/ ClockAdvances
    \/ \E w \in Workers : Step(w) \/ HandlerThrows(w) \/ Abandon(w)

Spec == Init /\ [][Next]_vars

(* A worker's loop never ends and is restarted when its process dies; the   *)
(* clock goes on.  Nothing makes the chain produce another block.           *)
FairSpec == Spec /\ WF_vars(ClockAdvances) /\ \A w \in Workers : WF_vars(Step(w))
=============================================================================
