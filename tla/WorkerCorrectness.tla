-------------------------- MODULE WorkerCorrectness -------------------------
(***************************************************************************)
(* What the queue and its workers owe: at-least-once execution, and tables *)
(* that are recomputed rather than adjusted.                               *)
(***************************************************************************)
EXTENDS Worker, FiniteSetsExt

PricesOf(ts) == {ts[i].price : i \in DOMAIN ts}

(* The candle of a bucket, said without a fold: where the market stood when *)
(* it opened, what it ended at, and the extremes of all of that.            *)
TrueCandle(bucket) ==
    LET ts == TradesIn(bucket)
        earlier == {i \in DOMAIN trades : trades[i].block < bucket}
        open == IF earlier = {} THEN ts[1].price ELSE trades[Max(earlier)].price
    IN  IF ts = <<>> THEN NoCandle
        ELSE [open |-> open, high |-> Max({open} \cup PricesOf(ts)), low |-> Min({open} \cup PricesOf(ts)),
              close |-> ts[Len(ts)].price,
              volume |-> MapThenSumSet(LAMBDA i : ts[i].price, DOMAIN ts), count |-> Len(ts)]

AtRest(row) == \A id \in JobIds : RowOf(id) = row => jobs[id].status \in {"NONE", "DONE"}
Orphaned(id) == jobs[id].status = "RUNNING" /\ \A w \in Workers : job[w] # id

-----------------------------------------------------------------------------
(* Types, and the bookkeeping of the loop: a worker has a job exactly while *)
(* it is not idle, and no job has used more attempts than it has.           *)
TypeOK ==
    /\ \A id \in JobIds : jobs[id].status \in Statuses /\ jobs[id].attempts \in 0 .. MaxAttempts
    /\ \A w \in Workers : (pc[w] = "idle") = (job[w] = NoJobId)
    /\ balance \in Nat /\ cursor \in 0 .. MaxBlock

(* jobs.ts:80: no job is run by two workers at once, and the row of a job   *)
(* that runs says so, unless the answer of a completion was lost.           *)
OneRunner ==
    ~doubted => \A w \in Workers : Running(w) =>
                  /\ jobs[job[w]].status = "RUNNING"
                  /\ \A v \in Workers \ {w} : job[v] # job[w]

(* jobs.ts:33: a candle whose jobs are done is the one its trades make,     *)
(* after any retries, failures and interleavings but those in "missed".     *)
CandlesFresh ==
    \A b \in Buckets :
        LET row == <<"candle", b>>
        IN  AtRest(row) /\ row \notin missed => candles[b] = TrueCandle(b)

(* A running total agrees with the events behind it once the jobs that      *)
(* compare the two are done: a repair made from values read before a later  *)
(* transaction is itself repaired.                                          *)
BalancesReconciled ==
    AtRest(Balances) /\ Balances \notin missed => balance = Len(trades)

=============================================================================
