----------------------------- MODULE WorkerProofs -----------------------------
(***************************************************************************)
(* The job queue and the workers, for every number of workers, blocks,     *)
(* attempts, mishaps and rollbacks: no job has two runners, and a derived  *)
(* row whose jobs are done is right unless "missed" names it.              *)
(***************************************************************************)
EXTENDS WorkerCorrectness, FiniteSetTheorems, TLAPS

E == INSTANCE FoldProofs WITH Op <- Extend

-----------------------------------------------------------------------------
(* The shape of the state. *)

Steps == {"idle", "read", "prior", "other", "write", "complete", "failed"}
JobRow(row) ==
    /\ DOMAIN row = {"status", "attempts", "wait"}
    /\ row.status \in Statuses /\ row.attempts \in 0 .. MaxAttempts

QueueOK ==
    /\ jobs = [id \in JobIds |-> jobs[id]]
    /\ \A id \in JobIds : JobRow(jobs[id])

LoopsOK ==
    /\ pc \in [Workers -> Steps] /\ job \in [Workers -> JobIds \cup {NoJobId}]
    /\ got = [w \in Workers |-> got[w]]
    /\ \A w \in Workers :
         /\ (pc[w] = "idle") = (job[w] = NoJobId)
         /\ pc[w] = "prior" => IsCandle(job[w])
         /\ pc[w] = "other" => ~IsCandle(job[w]) /\ got[w].value \in Nat
         /\ pc[w] = "write" /\ ~IsCandle(job[w]) => got[w].derived \in Nat

TradeRow == [block : 1 .. MaxBlock, price : 1 .. 2]
TablesOK ==
    /\ trades \in Seq(TradeRow) /\ cursor \in 0 .. MaxBlock /\ rollbacks \in Nat
    /\ \A i \in 1 .. Len(trades) : trades[i].block <= cursor
    /\ balance \in Nat
    /\ candles = [b \in Buckets |-> candles[b]]

TypeInv == QueueOK /\ LoopsOK /\ TablesOK

-----------------------------------------------------------------------------
(* The rows. *)

Rows == {Balances} \cup {<<"candle", b>> : b \in Buckets}

(* What a candle job would write now.                                      *)
Made(b) == IF TradesIn(b) = <<>> THEN NoCandle ELSE Aggregate(TradesIn(b), PriceBefore(b))

Right(row) ==
    IF row = Balances THEN balance = Len(trades) ELSE candles[row[2]] = Made(row[2])

(* The queue still owes the row some work, and nobody is at that job.      *)
Owes(id) == jobs[id].status \notin {"NONE", "DONE"} /\ \A w \in Workers : job[w] # id
Owed(row) == \E id \in JobIds : RowOf(id) = row /\ Owes(id)

(* What a worker has read is still what the tables say.                    *)
InHand(w) ==
    LET b == job[w][2]
    IN  /\ pc[w] = "prior" => TradesIn(b) # <<>> /\ got[w].trades = TradesIn(b)
        /\ pc[w] = "other" =>
               got[w].value = IF got[w].kind = "stored" THEN balance ELSE Len(trades)
        /\ pc[w] = "write" =>
               IF IsCandle(job[w]) THEN TradesIn(b) # <<>> /\ got[w].candle = Made(b)
               ELSE got[w].stored = balance /\ got[w].derived = Len(trades)
        /\ pc[w] = "complete" => Right(RowOf(job[w]))

(* The worker's job is one the queue knows to be running; when it failed,  *)
(* its work may have been recorded all the same.                           *)
OnTrack(w) ==
    /\ InHand(w)
    /\ \/ jobs[job[w]].status = "RUNNING"
       \/ pc[w] = "failed" /\ jobs[job[w]].status = "PENDING"
       \/ pc[w] = "failed" /\ Right(RowOf(job[w]))

Settled(row) == RunnersOf(row) = {} /\ Right(row)
BeingMade(row) == \E w \in Workers : RunnersOf(row) = {w} /\ OnTrack(w)
Accounted(row) == Owed(row) \/ Settled(row) \/ BeingMade(row)

(* No candle is left, or on its way, where no trade is left.               *)
NoStrayCandle(b) ==
    TradesIn(b) = <<>> =>
        /\ candles[b] = NoCandle
        /\ \A w \in RunnersOf(<<"candle", b>>) : pc[w] \notin {"prior", "write"}

RowsInv ==
    /\ \A row \in Rows : row \notin missed => Accounted(row)
    /\ \A b \in Buckets : <<"candle", b>> \notin missed => NoStrayCandle(b)

WInv == TypeInv /\ OneRunner /\ RowsInv

-----------------------------------------------------------------------------
(* Names *)

(* The identifiers tell jobs, rows and the absence of a job apart.         *)
LEMMA Names ==
    /\ NoJobId \notin JobIds
    /\ \A id \in JobIds :
         /\ IsCandle(id) => id[2] \in Buckets /\ RowOf(id) = <<"candle", id[2]>>
         /\ ~IsCandle(id) => RowOf(id) = Balances
         /\ RowOf(id) \in Rows
    /\ \A b \in Buckets : CandleJob(b) \in JobIds /\ AnalyticsJob(b) \in JobIds
    /\ \A b \in 1 .. MaxBlock : HolderJob(b) \in JobIds
    /\ \A b : <<"candle", b>> # Balances
  BY DEF NoJobId, JobIds, CandleJob, AnalyticsJob, HolderJob, IsCandle, RowOf,
         Balances, Rows

(* A bucket begins at or before each of its blocks.                        *)
LEMMA BucketBegins ==
    ASSUME NEW b \in 0 .. MaxBlock
    PROVE  BucketOf(b) \in Buckets /\ BucketOf(b) \in 0 .. b
  <1>1. b \in Nat /\ Day \in Nat \ {0}
    BY WorkerAssumption
  <1>2. b \div Day \in Nat /\ Day * (b \div Day) <= b
    BY <1>1
  <1>3. (b \div Day) * Day \in Nat /\ (b \div Day) * Day = Day * (b \div Day)
    BY <1>1, <1>2
  <1> QED  BY <1>1, <1>2, <1>3 DEF BucketOf, Buckets

(* A bucket is named by a block.                                           *)
LEMMA BucketsAreBlocks == Buckets \subseteq 0 .. MaxBlock
  <1> SUFFICES ASSUME NEW b \in 0 .. MaxBlock PROVE BucketOf(b) \in 0 .. MaxBlock
    BY DEF Buckets
  <1> QED  BY BucketBegins, WorkerAssumption

-----------------------------------------------------------------------------
(* The trades of some blocks: what is kept of the first so many trades, for *)
(* one number after another.                                               *)

IsKept(g, s, blocks) ==
    g = [i \in 0 .. Len(s) |->
            IF i = 0 THEN <<>>
            ELSE IF s[i].block \in blocks THEN Append(g[i - 1], s[i]) ELSE g[i - 1]]
KeptSoFar(s, blocks) == CHOOSE g : IsKept(g, s, blocks)
Of(T, blocks) == {t \in T : t.block \in blocks}

(* Keeping a part of the trades ends after the last one.                   *)
LEMMA KeptIsLast == \A s, blocks : Kept(s, blocks) = KeptSoFar(s, blocks)[Len(s)]
  BY DEF Kept, KeptSoFar, IsKept

(* It goes one trade at a time.                                            *)
LEMMA KeptUnfolds ==
    ASSUME NEW T, NEW s \in Seq(T), NEW blocks
    PROVE  LET g == KeptSoFar(s, blocks)
           IN  /\ g[0] = <<>>
               /\ \A i \in 1 .. Len(s) :
                    g[i] = IF s[i].block \in blocks THEN Append(g[i - 1], s[i]) ELSE g[i - 1]
  <1> DEFINE Rule(g, n) ==
               g = [i \in 0 .. n |->
                      IF i = 0 THEN <<>>
                      ELSE IF s[i].block \in blocks THEN Append(g[i - 1], s[i]) ELSE g[i - 1]]
             Reached == {n \in Nat : \E g : Rule(g, n)}
  <1>1. 0 \in Reached
    <2> DEFINE g == [i \in 0 .. 0 |-> <<>>]
    <2>1. g = [i \in 0 .. 0 |->
                 IF i = 0 THEN <<>>
                 ELSE IF s[i].block \in blocks THEN Append(g[i - 1], s[i]) ELSE g[i - 1]]
      OBVIOUS
    <2>2. Rule(g, 0)
      BY <2>1
    <2> HIDE DEF g, Rule
    <2> QED  BY <2>2
  <1>2. ASSUME NEW n \in Nat, n \in Reached PROVE n + 1 \in Reached
    <2>1. PICK g : Rule(g, n)
      BY <1>2
    <2> DEFINE h == [i \in 0 .. n + 1 |->
                       IF i = 0 THEN <<>>
                       ELSE IF s[i].block \in blocks THEN Append(g[i - 1], s[i]) ELSE g[i - 1]]
    <2>2. ASSUME NEW i \in 0 .. n PROVE h[i] = g[i]
      <3>1. i \in 0 .. n + 1
        OBVIOUS
      <3>2. g[i] = IF i = 0 THEN <<>>
                   ELSE IF s[i].block \in blocks THEN Append(g[i - 1], s[i]) ELSE g[i - 1]
        BY <2>1
      <3> QED  BY <3>1, <3>2
    <2>3. ASSUME NEW i \in 0 .. n + 1, i # 0
          PROVE  h[i] = IF s[i].block \in blocks THEN Append(h[i - 1], s[i]) ELSE h[i - 1]
      <3>1. i - 1 \in 0 .. n
        BY <2>3
      <3>2. h[i - 1] = g[i - 1]
        BY <2>2, <3>1
      <3> QED  BY <2>3, <3>2
    <2>4. h[0] = <<>> /\ h = [i \in 0 .. n + 1 |-> h[i]]
      OBVIOUS
    <2> HIDE DEF h
    <2>5. h = [i \in 0 .. n + 1 |->
                 IF i = 0 THEN <<>>
                 ELSE IF s[i].block \in blocks THEN Append(h[i - 1], s[i]) ELSE h[i - 1]]
      BY <2>3, <2>4
    <2>6. Rule(h, n + 1)
      BY <2>5
    <2> HIDE DEF Rule
    <2> QED  BY <2>6
  <1> HIDE DEF Reached
  <1>3. Len(s) \in Reached
    BY <1>1, <1>2, E!NaturalsBySuccessor
  <1>4. \E g : IsKept(g, s, blocks)
    BY <1>3 DEF Reached, IsKept
  <1>5. IsKept(KeptSoFar(s, blocks), s, blocks)
    BY <1>4 DEF KeptSoFar
  <1> DEFINE k == KeptSoFar(s, blocks)
  <1>6. k = [i \in 0 .. Len(s) |->
               IF i = 0 THEN <<>>
               ELSE IF s[i].block \in blocks THEN Append(k[i - 1], s[i]) ELSE k[i - 1]]
    BY <1>5 DEF IsKept
  <1> HIDE DEF Rule, k
  <1>7. k[0] = <<>>
    BY <1>6, Len(s) \in Nat
  <1>8. ASSUME NEW i \in 1 .. Len(s)
        PROVE  k[i] = IF s[i].block \in blocks THEN Append(k[i - 1], s[i]) ELSE k[i - 1]
    <2>1. i \in 0 .. Len(s) /\ i # 0
      BY Len(s) \in Nat
    <2> QED  BY <1>6, <2>1
  <1> QED  BY <1>7, <1>8 DEF k

(* Nothing but trades of those blocks is kept.                             *)
LEMMA KeptAreOf ==
    ASSUME NEW T, NEW s \in Seq(T), NEW blocks
    PROVE  /\ Kept(s, blocks) \in Seq(Of(T, blocks))
           /\ \A i \in 0 .. Len(s) :
                KeptSoFar(s, blocks)[i] \in Seq(Of(T, blocks))
  <1> DEFINE g == KeptSoFar(s, blocks)
             P == {i \in 0 .. Len(s) : g[i] \in Seq(Of(T, blocks))}
  <1>1. 0 \in P
    <2>1. g[0] = <<>> /\ 0 \in 0 .. Len(s)
      BY KeptUnfolds, Len(s) \in Nat
    <2>2. <<>> \in Seq(Of(T, blocks))
      OBVIOUS
    <2>3. g[0] \in Seq(Of(T, blocks))
      BY <2>1, <2>2
    <2> HIDE DEF g
    <2> QED  BY <2>1, <2>3
  <1>2. ASSUME NEW i \in 1 .. Len(s), i - 1 \in P PROVE i \in P
    <2>1. g[i] = IF s[i].block \in blocks THEN Append(g[i - 1], s[i]) ELSE g[i - 1]
      BY KeptUnfolds
    <2>2. s[i] \in T /\ g[i - 1] \in Seq(Of(T, blocks))
      BY <1>2
    <2>3. s[i].block \in blocks => s[i] \in Of(T, blocks)
      BY <2>2 DEF Of
    <2> HIDE DEF g
    <2>4. g[i] \in Seq(Of(T, blocks)) /\ i \in 0 .. Len(s)
      BY <2>1, <2>2, <2>3
    <2> QED  BY <2>4
  <1> HIDE DEF P
  <1>3. \A i \in 0 .. Len(s) : i \in P
    BY <1>1, <1>2, E!CountingUp, Len(s) \in Nat
  <1> QED  BY <1>3, KeptIsLast DEF P

(* One trade more.                                                         *)
LEMMA KeptOfAppend ==
    ASSUME NEW T, NEW s \in Seq(T), NEW t \in T, NEW blocks
    PROVE  Kept(Append(s, t), blocks)
             = IF t.block \in blocks THEN Append(Kept(s, blocks), t) ELSE Kept(s, blocks)
  <1> DEFINE g == KeptSoFar(s, blocks)
             more == Append(s, t)
             h == KeptSoFar(more, blocks)
             P == {i \in 0 .. Len(s) : h[i] = g[i]}
  <1>1. more \in Seq(T) /\ Len(more) = Len(s) + 1 /\ more[Len(s) + 1] = t
        /\ \A i \in 1 .. Len(s) : more[i] = s[i]
    OBVIOUS
  <1> HIDE DEF more
  <1>2. /\ h[0] = <<>>
        /\ \A i \in 1 .. Len(more) :
             h[i] = IF more[i].block \in blocks THEN Append(h[i - 1], more[i]) ELSE h[i - 1]
    BY <1>1, KeptUnfolds
  <1>3. /\ g[0] = <<>>
        /\ \A i \in 1 .. Len(s) :
             g[i] = IF s[i].block \in blocks THEN Append(g[i - 1], s[i]) ELSE g[i - 1]
    BY KeptUnfolds
  <1> HIDE DEF g, h
  <1>4. 0 \in P
    BY <1>2, <1>3
  <1>5. ASSUME NEW i \in 1 .. Len(s), i - 1 \in P PROVE i \in P
    BY <1>1, <1>2, <1>3, <1>5
  <1> HIDE DEF P
  <1>6. \A i \in 0 .. Len(s) : i \in P
    BY <1>4, <1>5, E!CountingUp, Len(s) \in Nat
  <1>7. h[Len(s)] = g[Len(s)]
    BY <1>6 DEF P
  <1>8. h[Len(s) + 1] = IF t.block \in blocks THEN Append(h[Len(s)], t) ELSE h[Len(s)]
    BY <1>1, <1>2
  <1> QED  BY <1>1, <1>7, <1>8, KeptIsLast DEF g, h, more

(* Nothing is kept exactly if there is no trade of those blocks.           *)
LEMMA KeptIsEmpty ==
    ASSUME NEW T, NEW s \in Seq(T), NEW blocks
    PROVE  Kept(s, blocks) = <<>> <=> \A i \in 1 .. Len(s) : s[i].block \notin blocks
  <1> DEFINE g == KeptSoFar(s, blocks)
             P == {i \in 0 .. Len(s) : g[i] = <<>> <=> \A j \in 1 .. i : s[j].block \notin blocks}
  <1>1. /\ g[0] = <<>>
        /\ \A i \in 1 .. Len(s) :
             g[i] = IF s[i].block \in blocks THEN Append(g[i - 1], s[i]) ELSE g[i - 1]
    BY KeptUnfolds
  <1>2. \A i \in 0 .. Len(s) : g[i] \in Seq(Of(T, blocks))
    BY KeptAreOf
  <1>3. g[Len(s)] = Kept(s, blocks)
    BY KeptIsLast
  <1> HIDE DEF g
  <1>4. 0 \in P
    BY <1>1
  <1>5. ASSUME NEW i \in 1 .. Len(s), i - 1 \in P PROVE i \in P
    <2>1. i - 1 \in 0 .. Len(s) /\ (1 .. i) = (1 .. i - 1) \cup {i}
      OBVIOUS
    <2>2. CASE s[i].block \in blocks
      <3>1. g[i - 1] \in Seq(Of(T, blocks)) /\ s[i] \in Of(T, blocks)
        BY <1>2, <2>1, <2>2 DEF Of
      <3>2. Append(g[i - 1], s[i]) # <<>>
        <4> DEFINE longer == Append(g[i - 1], s[i])
        <4>1. Len(longer) = Len(g[i - 1]) + 1 /\ Len(g[i - 1]) \in Nat
          BY <3>1
        <4> HIDE DEF longer
        <4>2. longer # <<>>
          BY <4>1
        <4> QED  BY <4>2 DEF longer
      <3>3. g[i] # <<>>
        BY <1>1, <2>2, <3>2
      <3>4. i \in 0 .. Len(s) /\ i \in 1 .. i
        BY Len(s) \in Nat
      <3> QED  BY <2>2, <3>3, <3>4
    <2>3. CASE s[i].block \notin blocks
      BY <1>1, <1>5, <2>1, <2>3
    <2> QED  BY <2>2, <2>3
  <1> HIDE DEF P
  <1>6. \A i \in 0 .. Len(s) : i \in P
    BY <1>4, <1>5, E!CountingUp, Len(s) \in Nat
  <1> QED  BY <1>3, <1>6 DEF P

(* To keep some of what was kept is to keep what is in both.               *)
LEMMA KeptTwice ==
    ASSUME NEW T, NEW s \in Seq(T), NEW some, NEW others
    PROVE  Kept(Kept(s, some), others) = Kept(s, some \cap others)
  <1> DEFINE g == KeptSoFar(s, some)
             h == KeptSoFar(s, some \cap others)
             P == {i \in 0 .. Len(s) : Kept(g[i], others) = h[i]}
  <1>1. /\ g[0] = <<>>
        /\ \A i \in 1 .. Len(s) :
             g[i] = IF s[i].block \in some THEN Append(g[i - 1], s[i]) ELSE g[i - 1]
    BY KeptUnfolds
  <1>2. /\ h[0] = <<>>
        /\ \A i \in 1 .. Len(s) :
             h[i] = IF s[i].block \in some \cap others THEN Append(h[i - 1], s[i]) ELSE h[i - 1]
    BY KeptUnfolds
  <1>3. \A i \in 0 .. Len(s) : g[i] \in Seq(Of(T, some))
    BY KeptAreOf
  <1>4. g[Len(s)] = Kept(s, some) /\ h[Len(s)] = Kept(s, some \cap others)
    BY KeptIsLast
  <1> HIDE DEF g, h
  <1>5. 0 \in P
    <2>1. <<>> \in Seq(T) /\ Len(<<>>) = 0
      OBVIOUS
    <2>2. Kept(<<>>, others) = <<>>
      <3> DEFINE none == <<>>
      <3>1. none \in Seq(T) /\ \A i \in 1 .. Len(none) : none[i].block \notin others
        OBVIOUS
      <3> HIDE DEF none
      <3>2. Kept(none, others) = <<>>
        BY <3>1, KeptIsEmpty
      <3> QED  BY <3>2 DEF none
    <2> QED  BY <1>1, <1>2, <2>2
  <1>6. ASSUME NEW i \in 1 .. Len(s), i - 1 \in P PROVE i \in P
    <2>1. i - 1 \in 0 .. Len(s) /\ Kept(g[i - 1], others) = h[i - 1]
      BY <1>6
    <2>2. CASE s[i].block \in some
      <3>1. s[i] \in Of(T, some)
        BY <2>2 DEF Of
      <3>2. Kept(Append(g[i - 1], s[i]), others)
              = IF s[i].block \in others THEN Append(Kept(g[i - 1], others), s[i])
                ELSE Kept(g[i - 1], others)
        <4> DEFINE a == g[i - 1]
                   t == s[i]
        <4>1. a \in Seq(Of(T, some)) /\ t \in Of(T, some)
          BY <1>3, <2>1, <3>1
        <4> HIDE DEF a, t
        <4>2. Kept(Append(a, t), others)
                = IF t.block \in others THEN Append(Kept(a, others), t) ELSE Kept(a, others)
          BY <4>1, KeptOfAppend
        <4> QED  BY <4>2 DEF a, t
      <3> QED  BY <1>1, <1>2, <2>1, <2>2, <3>2
    <2>3. CASE s[i].block \notin some
      BY <1>1, <1>2, <2>1, <2>3
    <2> QED  BY <2>2, <2>3
  <1> HIDE DEF P
  <1>7. \A i \in 0 .. Len(s) : i \in P
    BY <1>5, <1>6, E!CountingUp, Len(s) \in Nat
  <1> QED  BY <1>4, <1>7 DEF P

-----------------------------------------------------------------------------
(* The shape is kept *)

(* The types hold at first.                                                *)
LEMMA InitShape == Init => TypeInv
  <1> SUFFICES ASSUME Init PROVE TypeInv
    OBVIOUS
  <1>1. QueueOK
    BY QueueAssumption DEF Init, QueueOK, JobRow, NoJob, Statuses
  <1>2. LoopsOK
    BY Names DEF Init, LoopsOK, Steps
  <1>3. TablesOK
    BY WorkerAssumption DEF Init, TablesOK
  <1> QED  BY <1>1, <1>2, <1>3 DEF TypeInv

(* What each operation of the queue does to a row.                         *)
LEMMA QueueOps ==
    ASSUME QueueOK
    PROVE  /\ \A ids : LET js == Enqueue(jobs, ids)
                      IN  /\ js = [id \in JobIds |-> js[id]]
                          /\ \A id \in JobIds :
                               /\ JobRow(js[id])
                               /\ id \in ids /\ Armed(jobs[id]) => js[id].status = "PENDING"
                               /\ ~(id \in ids /\ Armed(jobs[id])) => js[id] = jobs[id]
           /\ LET js == Elapse(jobs)
              IN  /\ js = [id \in JobIds |-> js[id]]
                  /\ \A id \in JobIds : JobRow(js[id]) /\ js[id].status = jobs[id].status
           /\ \A i \in JobIds : Due(jobs[i]) =>
                LET js == Claim(jobs, i)
                IN  /\ js = [id \in JobIds |-> js[id]]
                    /\ JobRow(js[i]) /\ js[i].status = "RUNNING"
                    /\ \A id \in JobIds \ {i} : js[id] = jobs[id]
           /\ \A i \in JobIds :
                LET js == Complete(jobs, i)
                IN  /\ js = [id \in JobIds |-> js[id]]
                    /\ JobRow(js[i]) /\ js[i].status = "DONE"
                    /\ \A id \in JobIds \ {i} : js[id] = jobs[id]
           /\ \A i \in JobIds : \A n :
                LET js == Fail(jobs, i, RetryDecision(n))
                IN  /\ js = [id \in JobIds |-> js[id]]
                    /\ JobRow(js[i]) /\ js[i].status \in {"PENDING", "DEAD"}
                    /\ \A id \in JobIds \ {i} : js[id] = jobs[id]
  <1> USE QueueAssumption DEF QueueOK
  <1>1. DOMAIN jobs = JobIds
    OBVIOUS
  <1>2. ASSUME NEW ids
        PROVE  LET js == Enqueue(jobs, ids)
               IN  /\ js = [id \in JobIds |-> js[id]]
                   /\ \A id \in JobIds :
                        /\ JobRow(js[id])
                        /\ id \in ids /\ Armed(jobs[id]) => js[id].status = "PENDING"
                        /\ ~(id \in ids /\ Armed(jobs[id])) => js[id] = jobs[id]
    BY <1>1 DEF Enqueue, JobRow, Statuses
  <1>3. LET js == Elapse(jobs)
        IN  /\ js = [id \in JobIds |-> js[id]]
            /\ \A id \in JobIds : JobRow(js[id]) /\ js[id].status = jobs[id].status
    BY <1>1 DEF Elapse, JobRow
  <1>4. ASSUME NEW i \in JobIds, Due(jobs[i])
        PROVE  LET js == Claim(jobs, i)
               IN  /\ js = [id \in JobIds |-> js[id]]
                   /\ JobRow(js[i]) /\ js[i].status = "RUNNING"
                   /\ \A id \in JobIds \ {i} : js[id] = jobs[id]
    <2>1. JobRow(jobs[i]) /\ jobs[i].attempts + 1 \in 0 .. MaxAttempts
      BY <1>4 DEF JobRow, Due
    <2> DEFINE row == [jobs[i] EXCEPT !.status = "RUNNING", !.attempts = @ + 1]
    <2>2. JobRow(row) /\ row.status = "RUNNING"
      BY <2>1 DEF JobRow, Statuses
    <2>3. Claim(jobs, i) = [jobs EXCEPT ![i] = row]
      BY <1>1, <2>1 DEF Claim, JobRow
    <2> HIDE DEF row
    <2> QED  BY <1>1, <2>2, <2>3
  <1>5. ASSUME NEW i \in JobIds
        PROVE  LET js == Complete(jobs, i)
               IN  /\ js = [id \in JobIds |-> js[id]]
                   /\ JobRow(js[i]) /\ js[i].status = "DONE"
                   /\ \A id \in JobIds \ {i} : js[id] = jobs[id]
    BY <1>1 DEF Complete, NoJob, JobRow, Statuses
  <1>6. ASSUME NEW i \in JobIds, NEW n
        PROVE  LET js == Fail(jobs, i, RetryDecision(n))
               IN  /\ js = [id \in JobIds |-> js[id]]
                   /\ JobRow(js[i]) /\ js[i].status \in {"PENDING", "DEAD"}
                   /\ \A id \in JobIds \ {i} : js[id] = jobs[id]
    <2>1. JobRow(jobs[i])
      OBVIOUS
    <2> DEFINE row == IF n >= MaxAttempts THEN [NoJob EXCEPT !.status = "DEAD"]
                      ELSE [jobs[i] EXCEPT !.status = "PENDING", !.wait = Backoff(n)]
    <2>2. JobRow(row) /\ row.status \in {"PENDING", "DEAD"}
      BY <2>1 DEF JobRow, Statuses, NoJob
    <2>3. Fail(jobs, i, RetryDecision(n)) = [jobs EXCEPT ![i] = row]
      BY DEF Fail, RetryDecision
    <2> HIDE DEF row
    <2> QED  BY <1>1, <2>2, <2>3
  <1> QED  BY <1>2, <1>3, <1>4, <1>5, <1>6

(* What IndexRange adds: one or two trades, of blocks above the cursor.    *)
LEMMA NewTradesAre ==
    ASSUME TablesOK, NEW to \in {cursor + 1, cursor + 2} \cap (1 .. MaxBlock),
           NEW blocks \in TradingBlocks(cursor + 1, to)
    PROVE  LET new == NewTrades(blocks)
           IN  /\ new \in Seq(TradeRow) /\ new # <<>> /\ Len(new) \in Nat
               /\ \A i \in DOMAIN new : new[i].block \in (cursor + 1) .. to
               /\ DOMAIN new = 1 .. Len(new)
               /\ \/ \E t \in TradeRow : new = <<t>>
                  \/ \E t, u \in TradeRow : new = <<t, u>>
  <1>1. cursor \in Nat /\ MaxBlock \in Nat /\ to \in Nat
    BY WorkerAssumption DEF TablesOK
  <1>2. ASSUME NEW b \in Nat PROVE PriceAt(b) \in 1 .. 2
    BY DEF PriceAt, TablesOK
  <1>3. ASSUME NEW b \in (cursor + 1) .. to
        PROVE  [block |-> b, price |-> PriceAt(b)] \in TradeRow
    BY <1>1, <1>2 DEF TradeRow
  <1>4. CASE \E b \in (cursor + 1) .. to : blocks = <<b>>
    <2>1. PICK b \in (cursor + 1) .. to : blocks = <<b>>
      BY <1>4
    <2>2. NewTrades(blocks) = <<[block |-> b, price |-> PriceAt(b)]>>
      BY <2>1 DEF NewTrades
    <2> QED  BY <1>3, <2>2
  <1>5. CASE \E b, c \in (cursor + 1) .. to : blocks = <<b, c>>
    <2>1. PICK b \in (cursor + 1) .. to, c \in (cursor + 1) .. to : blocks = <<b, c>>
      BY <1>5
    <2>2. NewTrades(blocks) = <<[block |-> b, price |-> PriceAt(b)],
                                [block |-> c, price |-> PriceAt(c)]>>
      BY <2>1 DEF NewTrades
    <2> QED  BY <1>3, <2>2
  <1> QED  BY <1>1, <1>4, <1>5 DEF TradingBlocks

(* An enqueue keeps the job table in shape.                                *)
LEMMA EnqueueShape ==
    ASSUME QueueOK, NEW ids, jobs' = Enqueue(jobs, ids)
    PROVE  QueueOK'
  <1> DEFINE js == Enqueue(jobs, ids)
  <1>1. js = [id \in JobIds |-> js[id]] /\ \A id \in JobIds : JobRow(js[id])
    BY QueueOps
  <1> HIDE DEF js
  <1>2. jobs' = js
    BY DEF js
  <1> QED  BY <1>1, <1>2 DEF QueueOK

(* An enqueue arms the jobs it may arm and leaves the others.              *)
LEMMA EnqueueArms ==
    ASSUME QueueOK, NEW ids, jobs' = Enqueue(jobs, ids), NEW id \in JobIds
    PROVE  /\ id \in ids /\ Armed(jobs[id]) => jobs'[id].status = "PENDING"
           /\ ~Armed(jobs[id]) => jobs'[id] = jobs[id]
           /\ jobs[id].status \notin {"NONE", "DONE"} => jobs'[id] = jobs[id]
  <1> DEFINE js == Enqueue(jobs, ids)
  <1>1. /\ id \in ids /\ Armed(jobs[id]) => js[id].status = "PENDING"
        /\ ~(id \in ids /\ Armed(jobs[id])) => js[id] = jobs[id]
    BY QueueOps
  <1> HIDE DEF js
  <1>2. jobs' = js
    BY DEF js
  <1> QED  BY <1>1, <1>2 DEF Armed

(* The worker lets go of its job.                                          *)
LEMMA IdleShape ==
    ASSUME LoopsOK, NEW w \in Workers, Idle(w)
    PROVE  LoopsOK'
  BY Names DEF LoopsOK, Idle, Steps

(* The loop of worker w moves on with the job it has.                      *)
LEMMA MovesOnShape ==
    ASSUME LoopsOK, NEW w \in Workers, job' = job, NEW to \in Steps \ {"idle"}, NEW value,
           pc[w] # "idle", pc' = [pc EXCEPT ![w] = to], got' = [got EXCEPT ![w] = value],
           to = "prior" => IsCandle(job[w]),
           to = "other" => ~IsCandle(job[w]) /\ value.value \in Nat,
           to = "write" /\ ~IsCandle(job[w]) => value.derived \in Nat
    PROVE  LoopsOK'
  BY DEF LoopsOK, IsCandle

(* A range of blocks keeps the types.                                      *)
LEMMA IndexRangeShape == TypeInv /\ IndexRange => TypeInv'
  <1> SUFFICES ASSUME TypeInv, IndexRange PROVE TypeInv'
    OBVIOUS
  <1>0. PICK to \in {cursor + 1, cursor + 2} \cap (1 .. MaxBlock) :
             \E blocks \in TradingBlocks(cursor + 1, to) :
               /\ trades' = trades \o NewTrades(blocks)
               /\ cursor' = to
               /\ balance' = balance + Len(NewTrades(blocks))
               /\ jobs' = Enqueue(jobs, ScheduledFor(cursor + 1, to))
    BY DEF IndexRange
  <1>1. PICK blocks \in TradingBlocks(cursor + 1, to) :
               /\ trades' = trades \o NewTrades(blocks)
               /\ cursor' = to
               /\ balance' = balance + Len(NewTrades(blocks))
               /\ jobs' = Enqueue(jobs, ScheduledFor(cursor + 1, to))
    BY <1>0
  <1>2. QueueOK'
    BY <1>1, EnqueueShape DEF TypeInv
  <1>3. LoopsOK'
    BY DEF TypeInv, LoopsOK, IndexRange, loops
  <1>4. TablesOK'
    <2> DEFINE new == NewTrades(blocks)
    <2>1. /\ new \in Seq(TradeRow) /\ Len(new) \in Nat /\ DOMAIN new = 1 .. Len(new)
          /\ \A i \in DOMAIN new : new[i].block \in (cursor + 1) .. to
      BY NewTradesAre DEF TypeInv
    <2>2. /\ trades' = trades \o new /\ cursor' = to /\ balance' = balance + Len(new)
          /\ candles' = candles /\ rollbacks' = rollbacks
      BY <1>1 DEF IndexRange, bounds
    <2> HIDE DEF new
    <2>3. /\ trades \in Seq(TradeRow) /\ cursor \in Nat /\ balance \in Nat /\ MaxBlock \in Nat
          /\ \A i \in 1 .. Len(trades) : trades[i].block \in 1 .. MaxBlock /\ trades[i].block <= cursor
      <3>1. /\ trades \in Seq(TradeRow) /\ cursor \in Nat /\ balance \in Nat
            /\ \A i \in 1 .. Len(trades) : trades[i].block <= cursor
        BY WorkerAssumption DEF TypeInv, TablesOK
      <3>2. ASSUME NEW i \in 1 .. Len(trades) PROVE trades[i].block \in 1 .. MaxBlock
        <4>1. trades[i] \in TradeRow
          BY <3>1
        <4> QED  BY <4>1 DEF TradeRow
      <3> QED  BY <3>1, <3>2, WorkerAssumption
    <2>4. /\ trades' \in Seq(TradeRow) /\ Len(trades') = Len(trades) + Len(new)
          /\ \A i \in 1 .. Len(trades') :
               trades'[i] = IF i <= Len(trades) THEN trades[i] ELSE new[i - Len(trades)]
      BY <2>1, <2>2, <2>3
    <2>5. ASSUME NEW i \in 1 .. Len(trades') PROVE trades'[i].block <= cursor'
      <3>1. CASE i <= Len(trades)
        BY <2>2, <2>3, <2>4, <3>1
      <3>2. CASE ~(i <= Len(trades))
        <4>1. i - Len(trades) \in 1 .. Len(new)
          BY <2>1, <2>3, <2>4, <3>2
        <4> QED  BY SMTT(30), <2>1, <2>2, <2>3, <2>4, <3>2, <4>1
      <3> QED  BY <3>1, <3>2
    <2> QED  BY <2>1, <2>2, <2>3, <2>4, <2>5 DEF TypeInv, TablesOK
  <1> QED  BY <1>2, <1>3, <1>4 DEF TypeInv

(* A rollback keeps the types.                                             *)
LEMMA RollbackShape == ASSUME TypeInv, NEW n \in 0 .. MaxBlock, Rollback(n) PROVE TypeInv'
  <1>1. QueueOK' /\ LoopsOK'
    BY DEF TypeInv, QueueOK, LoopsOK, Rollback, loops
  <1>2. /\ Kept(trades, 0 .. n) \in Seq(Of(TradeRow, 0 .. n)) /\ trades \in Seq(TradeRow)
    BY KeptAreOf DEF TypeInv, TablesOK
  <1>3. /\ trades' = Kept(trades, 0 .. n) /\ balance' = Len(trades') /\ cursor' = n
        /\ candles' = candles /\ rollbacks' = rollbacks + 1
    BY DEF Rollback
  <1>4. /\ trades' \in Seq(TradeRow) /\ Len(trades') \in Nat
        /\ \A i \in 1 .. Len(trades') : trades'[i].block \in 0 .. n
    BY <1>2, <1>3 DEF Of
  <1>5. TablesOK'
    BY <1>3, <1>4 DEF TypeInv, TablesOK
  <1> QED  BY <1>1, <1>5 DEF TypeInv

(* Every step keeps the types.                                             *)
LEMMA ShapeIsKept == TypeInv /\ [Next]_vars => TypeInv'
  <1> SUFFICES ASSUME TypeInv, [Next]_vars PROVE TypeInv'
    OBVIOUS
  <1> USE DEF TypeInv
  <1>1. CASE IndexRange
    BY <1>1, IndexRangeShape
  <1>2. ASSUME NEW n \in 0 .. MaxBlock, Rollback(n) PROVE TypeInv'
    BY <1>2, RollbackShape
  <1>3. ASSUME NEW b \in Buckets, Sweep(b) PROVE TypeInv'
    <2>1. QueueOK'
      BY <1>3, EnqueueShape DEF Sweep
    <2> QED  BY <1>3, <2>1 DEF Sweep, LoopsOK, TablesOK, loops, tables
  <1>4. CASE ClockAdvances
    BY <1>4, QueueOps DEF ClockAdvances, QueueOK, LoopsOK, TablesOK, loops, tables, bounds
  <1>5. ASSUME NEW w \in Workers, ClaimJob(w) PROVE TypeInv'
    <2>1. PICK id \in JobIds :
            /\ Due(jobs[id]) /\ jobs' = Claim(jobs, id) /\ job' = [job EXCEPT ![w] = id]
      BY <1>5 DEF ClaimJob
    <2>2. QueueOK'
      BY <2>1, QueueOps DEF QueueOK
    <2>3. LoopsOK'
      BY <1>5, <2>1, Names DEF LoopsOK, ClaimJob, Steps
    <2>4. TablesOK'
      BY <1>5 DEF TablesOK, ClaimJob, tables, bounds
    <2> QED  BY <2>2, <2>3, <2>4
  <1>6. ASSUME NEW w \in Workers, ReadTrades(w) PROVE TypeInv'
    <2>1. LoopsOK'
      BY <1>6, MovesOnShape DEF ReadTrades, Steps
    <2> QED  BY <1>6, <2>1 DEF ReadTrades, QueueOK, TablesOK, tables, bounds
  <1>7. ASSUME NEW w \in Workers, ReadPrior(w) PROVE TypeInv'
    <2>1. LoopsOK'
      BY <1>7 DEF ReadPrior, LoopsOK, Steps
    <2> QED  BY <1>7, <2>1 DEF ReadPrior, QueueOK, TablesOK, tables, bounds
  <1>8. ASSUME NEW w \in Workers, UpsertCandle(w) PROVE TypeInv'
    <2>1. LoopsOK'
      BY <1>8 DEF UpsertCandle, LoopsOK, Steps
    <2>2. TablesOK'
      BY <1>8 DEF UpsertCandle, TablesOK, tables, bounds
    <2> QED  BY <1>8, <2>1, <2>2 DEF UpsertCandle, QueueOK
  <1>9. ASSUME NEW w \in Workers, ReadOneSide(w) PROVE TypeInv'
    <2>1. balance \in Nat /\ Len(trades) \in Nat
      BY DEF TablesOK
    <2>2. LoopsOK'
      BY <1>9, <2>1 DEF ReadOneSide, LoopsOK, Steps
    <2> QED  BY <1>9, <2>2 DEF ReadOneSide, QueueOK, TablesOK, tables, bounds
  <1>10. ASSUME NEW w \in Workers, ReadOtherSide(w) PROVE TypeInv'
    <2>1. balance \in Nat /\ Len(trades) \in Nat
      BY DEF TablesOK
    <2>2. LoopsOK'
      BY <1>10, <2>1 DEF ReadOtherSide, LoopsOK, Steps
    <2> QED  BY <1>10, <2>2 DEF ReadOtherSide, QueueOK, TablesOK, tables, bounds
  <1>11. ASSUME NEW w \in Workers, Reconcile(w) PROVE TypeInv'
    <2>1. LoopsOK'
      BY <1>11 DEF Reconcile, LoopsOK, Steps
    <2>2. balance' \in Nat
      BY <1>11 DEF Reconcile, Repaired, LoopsOK, TablesOK
    <2> QED  BY <1>11, <2>1, <2>2 DEF Reconcile, QueueOK, TablesOK, bounds
  <1>12. ASSUME NEW w \in Workers, CompleteJob(w) PROVE TypeInv'
    <2>1. job[w] \in JobIds
      BY <1>12 DEF CompleteJob, LoopsOK
    <2>2. QueueOK'
      BY <1>12, <2>1, QueueOps DEF CompleteJob, QueueOK
    <2>3. LoopsOK'
      BY <1>12, IdleShape DEF CompleteJob
    <2> QED  BY <1>12, <2>2, <2>3 DEF CompleteJob, TablesOK, tables, bounds
  <1>13. ASSUME NEW w \in Workers, HandleFailure(w) PROVE TypeInv'
    <2>1. job[w] \in JobIds
      BY <1>13 DEF HandleFailure, LoopsOK
    <2>2. QueueOK'
      BY <1>13, <2>1, QueueOps DEF HandleFailure, QueueOK
    <2>3. LoopsOK'
      BY <1>13, IdleShape DEF HandleFailure
    <2> QED  BY <1>13, <2>2, <2>3 DEF HandleFailure, TablesOK, tables, bounds
  <1>14. ASSUME NEW w \in Workers, HandlerThrows(w) PROVE TypeInv'
    <2>1. job[w] \in JobIds
      BY <1>14 DEF HandlerThrows, LoopsOK, Running
    <2>2. QueueOK'
      <3>1. CASE jobs' = jobs
        BY <3>1 DEF QueueOK
      <3>2. CASE jobs' = Complete(jobs, job[w])
        BY <2>1, <3>2, QueueOps DEF QueueOK
      <3> QED  BY <1>14, <3>1, <3>2 DEF HandlerThrows
    <2>3. LoopsOK'
      BY <1>14 DEF HandlerThrows, LoopsOK, Steps, Running
    <2> QED  BY <1>14, <2>2, <2>3 DEF HandlerThrows, TablesOK, tables
  <1>15. ASSUME NEW w \in Workers, Abandon(w) PROVE TypeInv'
    <2>1. LoopsOK'
      BY <1>15, IdleShape DEF Abandon
    <2> QED  BY <1>15, <2>1 DEF Abandon, QueueOK, TablesOK, tables
  <1>16. CASE UNCHANGED vars
    BY <1>16 DEF vars, QueueOK, LoopsOK, TablesOK, tables, loops, bounds
  <1> QED
    BY <1>1, <1>2, <1>3, <1>4, <1>5, <1>6, <1>7, <1>8, <1>9, <1>10, <1>11, <1>12,
       <1>13, <1>14, <1>15, <1>16 DEF Next, Step

-----------------------------------------------------------------------------
(* No job has two runners *)

(* Every step leaves a job at most one runner.                             *)
LEMMA OneRunnerIsKept == TypeInv /\ OneRunner /\ [Next]_vars => OneRunner'
  <1> SUFFICES ASSUME TypeInv, OneRunner, [Next]_vars, ~doubted' PROVE OneRunner'
    BY DEF OneRunner
  <1> USE DEF OneRunner, Running
  <1>1. QueueOK /\ LoopsOK
    BY DEF TypeInv
  <1>2. ASSUME UNCHANGED <<pc, job, doubted>>,
               \A id \in JobIds : jobs[id].status = "RUNNING" => jobs'[id].status = "RUNNING"
        PROVE  OneRunner'
    BY <1>1, <1>2 DEF LoopsOK
  <1>3. CASE IndexRange
    <2>1. PICK ids : jobs' = Enqueue(jobs, ids)
      BY <1>3 DEF IndexRange
    <2> QED  BY <1>1, <1>2, <1>3, <2>1, EnqueueArms DEF IndexRange, loops
  <1>4. ASSUME NEW n \in 0 .. MaxBlock, Rollback(n) PROVE OneRunner'
    BY <1>2, <1>4 DEF Rollback, loops
  <1>5. ASSUME NEW b \in Buckets, Sweep(b) PROVE OneRunner'
    BY <1>1, <1>2, <1>5, EnqueueArms DEF Sweep, loops
  <1>6. CASE ClockAdvances
    BY <1>1, <1>2, <1>6, QueueOps DEF ClockAdvances, loops
  <1>7. ASSUME NEW w \in Workers, ClaimJob(w) PROVE OneRunner'
    <2>1. PICK id \in JobIds :
            /\ Due(jobs[id]) /\ jobs' = Claim(jobs, id) /\ job' = [job EXCEPT ![w] = id]
      BY <1>7 DEF ClaimJob
    <2>2. ~doubted /\ pc' = [pc EXCEPT ![w] = "read"]
      BY <1>7 DEF ClaimJob
    <2>3. ASSUME NEW v \in Workers \ {w} PROVE job[v] # id
      BY <1>1, <2>1, <2>2, Names DEF LoopsOK, Due
    <2>4. jobs'[id].status = "RUNNING" /\ \A i \in JobIds \ {id} : jobs'[i] = jobs[i]
      BY <1>1, <2>1, QueueOps
    <2> QED  BY <1>1, <2>1, <2>2, <2>3, <2>4 DEF LoopsOK
  <1>8. ASSUME NEW w \in Workers, pc[w] # "idle", pc'[w] # "idle",
               \A v \in Workers \ {w} : pc'[v] = pc[v], UNCHANGED <<jobs, job, doubted>>
        PROVE  OneRunner'
    BY <1>8
  <1>9. ASSUME NEW w \in Workers,
               ReadTrades(w) \/ ReadPrior(w) \/ UpsertCandle(w)
                 \/ ReadOneSide(w) \/ ReadOtherSide(w) \/ Reconcile(w)
        PROVE  OneRunner'
    BY <1>1, <1>8, <1>9
       DEF ReadTrades, ReadPrior, UpsertCandle, ReadOneSide, ReadOtherSide, Reconcile, LoopsOK
  <1>10. ASSUME NEW w \in Workers, pc[w] # "idle", Idle(w), ~doubted,
                \A i \in JobIds \ {job[w]} : jobs'[i] = jobs[i]
         PROVE  OneRunner'
    BY <1>1, <1>10, Names DEF LoopsOK, Idle
  <1>11. ASSUME NEW w \in Workers, CompleteJob(w) \/ HandleFailure(w) \/ Abandon(w)
         PROVE  OneRunner'
    <2>1. pc[w] # "idle" /\ Idle(w) /\ ~doubted
      BY <1>11 DEF CompleteJob, HandleFailure, Abandon
    <2>2. job[w] \in JobIds
      BY <1>1, <2>1 DEF LoopsOK
    <2>3. \A i \in JobIds \ {job[w]} : jobs'[i] = jobs[i]
      BY <1>1, <1>11, <2>2, QueueOps DEF CompleteJob, HandleFailure, Abandon
    <2> QED  BY <1>10, <2>1, <2>3
  <1>12. ASSUME NEW w \in Workers, HandlerThrows(w) PROVE OneRunner'
    <2>1. UNCHANGED <<jobs, job, doubted>>
      BY <1>12 DEF HandlerThrows
    <2>2. pc[w] # "idle" /\ pc' = [pc EXCEPT ![w] = "failed"]
      BY <1>12 DEF HandlerThrows
    <2> QED  BY <1>1, <1>8, <2>1, <2>2 DEF LoopsOK
  <1>13. CASE UNCHANGED vars
    BY <1>13 DEF vars, loops
  <1> QED
    BY <1>3, <1>4, <1>5, <1>6, <1>7, <1>9, <1>11, <1>12, <1>13 DEF Next, Step

-----------------------------------------------------------------------------
(* Every row is accounted for *)

(* A row of whose jobs and runners the step knows nothing.                 *)
LEMMA OtherRow ==
    ASSUME TypeInv, TypeInv', NEW row \in Rows, Accounted(row), NEW w \in Workers,
           \A v \in Workers \ {w} : pc'[v] = pc[v] /\ job'[v] = job[v] /\ got'[v] = got[v],
           pc[w] # "idle" => RowOf(job[w]) # row,
           pc'[w] # "idle" => RowOf(job'[w]) # row,
           \A id \in JobIds : RowOf(id) = row => jobs'[id] = jobs[id],
           trades' = trades,
           row = Balances => balance' = balance,
           row # Balances => candles'[row[2]] = candles[row[2]]
    PROVE  Accounted(row)'
  <1>1. LoopsOK /\ LoopsOK'
    BY DEF TypeInv
  <1>2. /\ \A b : TradesIn(b)' = TradesIn(b)
        /\ \A b : Made(b)' = Made(b)
        /\ Right(row)' = Right(row)
    BY DEF TradesIn, Made, PriceBefore, Right
  <1>3. RunnersOf(row)' = RunnersOf(row) /\ w \notin RunnersOf(row)
    BY DEF RunnersOf, Running
  <1>4. ASSUME Owed(row) PROVE Owed(row)'
    <2>1. PICK id \in JobIds : RowOf(id) = row /\ Owes(id)
      BY <1>4 DEF Owed
    <2>2. job'[w] # id
      BY <1>1, <2>1, Names DEF LoopsOK
    <2> QED  BY <2>1, <2>2 DEF Owed, Owes
  <1>5. ASSUME NEW v \in Workers, RunnersOf(row) = {v}, OnTrack(v) PROVE BeingMade(row)'
    <2>1. v # w /\ pc[v] # "idle" /\ RowOf(job[v]) = row
      BY <1>3, <1>5 DEF RunnersOf, Running
    <2>2. job[v] \in JobIds
      BY <1>1, <2>1 DEF LoopsOK
    <2>3. pc'[v] = pc[v] /\ job'[v] = job[v] /\ got'[v] = got[v] /\ jobs'[job[v]] = jobs[job[v]]
      BY <2>1, <2>2
    <2>4. ~IsCandle(job[v]) => balance' = balance
      BY <2>1, <2>2, Names
    <2>5. pc[v] = "other" => ~IsCandle(job[v])
      BY <1>1 DEF LoopsOK
    <2>6. InHand(v)'
      BY <1>2, <1>5, <2>1, <2>3, <2>4, <2>5 DEF OnTrack, InHand
    <2> QED  BY <1>2, <1>3, <1>5, <2>1, <2>3, <2>6 DEF OnTrack, BeingMade
  <1> QED  BY <1>2, <1>3, <1>4, <1>5 DEF Accounted, Settled, BeingMade

(* A step that is not a worker's, and leaves what the row is made from.    *)
LEMMA QuietRow ==
    ASSUME TypeInv, NEW row \in Rows, Accounted(row), UNCHANGED <<pc, job, got>>,
           \A id \in JobIds : jobs[id].status \notin {"NONE", "DONE"}
                                => jobs'[id].status = jobs[id].status,
           Right(row)' = Right(row),
           \A w \in RunnersOf(row) : InHand(w) => InHand(w)'
    PROVE  Accounted(row)'
  <1>1. LoopsOK
    BY DEF TypeInv
  <1>2. RunnersOf(row)' = RunnersOf(row)
    BY DEF RunnersOf, Running
  <1>3. Owed(row) => Owed(row)'
    BY DEF Owed, Owes
  <1>4. ASSUME NEW v \in Workers, RunnersOf(row) = {v}, OnTrack(v) PROVE BeingMade(row)'
    <2>1. pc[v] # "idle" /\ RowOf(job[v]) = row
      BY <1>4 DEF RunnersOf, Running
    <2>2. job[v] \in JobIds
      BY <1>1, <2>1 DEF LoopsOK
    <2>3. OnTrack(v)'
      BY <1>4, <2>1, <2>2 DEF OnTrack
    <2> QED  BY <1>2, <1>4, <2>3 DEF BeingMade
  <1> QED  BY <1>2, <1>3, <1>4 DEF Accounted, Settled, BeingMade

(* The row of the job a worker is at, while it is at it: either there is   *)
(* work nobody is at, or this worker has the row to itself.                *)
LEMMA OwnRow ==
    ASSUME TypeInv, NEW w \in Workers, pc[w] # "idle",
           NEW row \in Rows, RowOf(job[w]) = row, Accounted(row),
           \A v \in Workers \ {w} : pc'[v] = pc[v] /\ job'[v] = job[v],
           job'[w] \in {job[w], NoJobId},
           \A id \in JobIds \ {job[w]} : jobs'[id] = jobs[id]
    PROVE  \/ Owed(row)'
           \/ /\ RunnersOf(row) = {w} /\ OnTrack(w)
              /\ \A v \in Workers \ {w} : job[v] # job[w]
              /\ pc'[w] # "idle" /\ job'[w] = job[w] => RunnersOf(row)' = {w}
              /\ pc'[w] = "idle" => RunnersOf(row)' = {}
  <1>1. LoopsOK /\ job[w] \in JobIds
    BY DEF TypeInv, LoopsOK
  <1>2. w \in RunnersOf(row)
    BY DEF RunnersOf, Running
  <1>3. ASSUME Owed(row) PROVE Owed(row)'
    <2>1. PICK id \in JobIds : RowOf(id) = row /\ Owes(id)
      BY <1>3 DEF Owed
    <2>2. id # job[w] /\ job'[w] # id /\ jobs'[id] = jobs[id]
      BY <1>1, <2>1, Names DEF Owes
    <2> QED  BY <2>1, <2>2 DEF Owed, Owes
  <1>4. CASE BeingMade(row)
    <2>1. RunnersOf(row) = {w} /\ OnTrack(w)
      BY <1>2, <1>4 DEF BeingMade
    <2>2. ASSUME NEW v \in Workers \ {w} PROVE job[v] # job[w]
      BY <1>1, <2>1, Names DEF RunnersOf, Running, LoopsOK
    <2>3. pc'[w] # "idle" /\ job'[w] = job[w] => RunnersOf(row)' = {w}
      BY <2>1 DEF RunnersOf, Running
    <2>4. pc'[w] = "idle" => RunnersOf(row)' = {}
      BY <2>1 DEF RunnersOf, Running
    <2> QED  BY <2>1, <2>2, <2>3, <2>4
  <1> QED  BY <1>2, <1>3, <1>4 DEF Accounted, Settled

Handles(w) ==
    ReadTrades(w) \/ ReadPrior(w) \/ UpsertCandle(w)
      \/ ReadOneSide(w) \/ ReadOtherSide(w) \/ Reconcile(w)
LetsGo(w) == CompleteJob(w) \/ HandleFailure(w) \/ Abandon(w)

(* A step of a worker's handler.                                           *)
LEMMA HandlerRow ==
    ASSUME TypeInv, TypeInv', NEW w \in Workers, Handles(w), NEW row \in Rows, Accounted(row),
           \A b \in Buckets : row = <<"candle", b>> => NoStrayCandle(b)
    PROVE  Accounted(row)'
  <1>1. /\ LoopsOK /\ TablesOK /\ LoopsOK' /\ pc[w] # "idle" /\ job[w] \in JobIds
        /\ job' = job /\ jobs' = jobs /\ trades' = trades
    BY DEF TypeInv, LoopsOK, Handles, ReadTrades, ReadPrior, UpsertCandle, ReadOneSide,
           ReadOtherSide, Reconcile, tables
  <1>2. /\ pc' = [pc EXCEPT ![w] = pc'[w]] /\ got' = [got EXCEPT ![w] = got'[w]]
        /\ pc'[w] \notin {"idle", "failed"} /\ pc[w] # "failed"
    BY <1>1 DEF LoopsOK, Handles, ReadTrades, ReadPrior, UpsertCandle, ReadOneSide,
           ReadOtherSide, Reconcile
  <1>3. CASE RowOf(job[w]) # row
    <2>1. row = Balances => balance' = balance
      BY <1>1, <1>3, Names DEF Handles, ReadTrades, ReadPrior, UpsertCandle, ReadOneSide,
           ReadOtherSide, Reconcile, tables
    <2>2. row # Balances => candles'[row[2]] = candles[row[2]]
      <3>1. CASE UpsertCandle(w)
        BY <1>1, <1>3, <3>1, Names DEF UpsertCandle, TablesOK, Rows
      <3> QED  BY <3>1 DEF Handles, ReadTrades, ReadPrior, ReadOneSide, ReadOtherSide, Reconcile
    <2> QED  BY <1>1, <1>2, <1>3, <2>1, <2>2, OtherRow DEF LoopsOK
  <1>4. CASE RowOf(job[w]) = row
    <2>1. CASE Owed(row)'
      BY <2>1 DEF Accounted
    <2>2. CASE RunnersOf(row)' = {w} /\ OnTrack(w)
      <3>1. jobs[job[w]].status = "RUNNING"
        BY <1>2, <2>2 DEF OnTrack
      <3>2. /\ \A b : TradesIn(b)' = TradesIn(b)
            /\ \A b : PriceBefore(b)' = PriceBefore(b)
        BY <1>1 DEF TradesIn, PriceBefore
      <3>3. InHand(w)'
        <4>1. CASE ReadTrades(w)
          <5> DEFINE b == job[w][2]
          <5>1. b \in Buckets /\ row = <<"candle", b>> /\ row # Balances
            BY <1>1, <1>4, <4>1, Names DEF ReadTrades
          <5>2. candles' = candles /\ IsCandle(job[w])
            BY <4>1 DEF ReadTrades
          <5>3. CASE TradesIn(b) = <<>>
            <6>1. candles[b] = NoCandle
              BY <5>1, <5>3 DEF NoStrayCandle
            <6>2. pc'[w] = "complete"
              BY <1>1, <4>1, <5>3 DEF ReadTrades, LoopsOK
            <6>3. Right(RowOf(job[w]))'
              BY <1>1, <1>4, <3>2, <5>1, <5>2, <5>3, <6>1 DEF Right, Made
            <6> QED  BY <6>2, <6>3 DEF InHand
          <5>4. CASE TradesIn(b) # <<>>
            <6>1. pc'[w] = "prior" /\ got'[w].trades = TradesIn(b)
              BY <1>1, <4>1, <5>4 DEF ReadTrades, LoopsOK
            <6> QED  BY <1>1, <3>2, <5>4, <6>1 DEF InHand
          <5> QED  BY <5>3, <5>4
        <4>2. CASE ReadPrior(w)
          <5> DEFINE b == job[w][2]
          <5>1. TradesIn(b) # <<>> /\ got[w].trades = TradesIn(b) /\ IsCandle(job[w])
            BY <1>1, <2>2, <4>2 DEF ReadPrior, OnTrack, InHand, LoopsOK
          <5>2. pc'[w] = "write" /\ got'[w].candle = Aggregate(TradesIn(b), PriceBefore(b))
            BY <1>1, <4>2, <5>1 DEF ReadPrior, LoopsOK
          <5> QED  BY <1>1, <3>2, <5>1, <5>2 DEF InHand, Made, IsCandle
        <4>3. CASE UpsertCandle(w)
          <5> DEFINE b == job[w][2]
          <5>1. b \in Buckets /\ row = <<"candle", b>> /\ row # Balances
            BY <1>1, <1>4, <4>3, Names DEF UpsertCandle
          <5>2. got[w].candle = Made(b)
            BY <1>1, <2>2, <4>3 DEF UpsertCandle, OnTrack, InHand
          <5>3. pc'[w] = "complete" /\ candles'[b] = Made(b)
            BY <1>1, <4>3, <5>1, <5>2 DEF UpsertCandle, LoopsOK, TablesOK
          <5>4. Right(RowOf(job[w]))'
            BY <1>1, <1>4, <3>2, <5>1, <5>3 DEF Right, Made
          <5> QED  BY <5>3, <5>4 DEF InHand
        <4>4. CASE ReadOneSide(w)
          <5>1. pc'[w] = "other" /\ balance' = balance
                /\ got'[w].value = IF got'[w].kind = "stored" THEN balance ELSE Len(trades)
            BY <1>1, <4>4 DEF ReadOneSide, LoopsOK, tables
          <5> QED  BY <1>1, <5>1 DEF InHand
        <4>5. CASE ReadOtherSide(w)
          <5>1. /\ got[w].value = IF got[w].kind = "stored" THEN balance ELSE Len(trades)
                /\ ~IsCandle(job[w]) /\ balance' = balance
            BY <1>1, <2>2, <4>5 DEF ReadOtherSide, OnTrack, InHand, LoopsOK, tables
          <5>2. pc'[w] = "write" /\ got'[w].stored = balance /\ got'[w].derived = Len(trades)
            BY <1>1, <4>5, <5>1 DEF ReadOtherSide, LoopsOK
          <5> QED  BY <1>1, <5>1, <5>2 DEF InHand, IsCandle
        <4>6. CASE Reconcile(w)
          <5>1. got[w].stored = balance /\ got[w].derived = Len(trades) /\ row = Balances
            BY <1>1, <1>4, <2>2, <4>6, Names DEF Reconcile, OnTrack, InHand
          <5>2. pc'[w] = "complete" /\ balance' = Len(trades)
            BY <1>1, <4>6, <5>1 DEF Reconcile, Repaired, LoopsOK
          <5>3. Right(RowOf(job[w]))'
            BY <1>1, <1>4, <5>1, <5>2 DEF Right
          <5> QED  BY <5>2, <5>3 DEF InHand
        <4> QED  BY <4>1, <4>2, <4>3, <4>4, <4>5, <4>6 DEF Handles
      <3>4. OnTrack(w)'
        BY <1>1, <3>1, <3>3 DEF OnTrack
      <3> QED  BY <2>2, <3>4 DEF Accounted, BeingMade
    <2> QED
      BY <1>1, <1>2, <1>4, <2>1, <2>2, OwnRow DEF LoopsOK
  <1> QED  BY <1>3, <1>4

(* A worker lets go of its job: done, to be tried again, or for good.      *)
LEMMA LetsGoRow ==
    ASSUME TypeInv, TypeInv', NEW w \in Workers, LetsGo(w), NEW row \in Rows, Accounted(row)
    PROVE  Accounted(row)'
  <1>1. /\ QueueOK /\ LoopsOK /\ LoopsOK' /\ pc[w] # "idle" /\ job[w] \in JobIds
        /\ Idle(w) /\ trades' = trades /\ balance' = balance /\ candles' = candles
    BY DEF TypeInv, LoopsOK, LetsGo, CompleteJob, HandleFailure, Abandon, Running, tables
  <1>2. /\ \A v \in Workers \ {w} : pc'[v] = pc[v] /\ job'[v] = job[v] /\ got'[v] = got[v]
        /\ pc'[w] = "idle" /\ job'[w] = NoJobId
    BY <1>1 DEF LoopsOK, Idle
  <1>3. \A id \in JobIds \ {job[w]} : jobs'[id] = jobs[id]
    BY <1>1, QueueOps DEF LetsGo, CompleteJob, HandleFailure, Abandon
  <1>4. CASE RowOf(job[w]) # row
    BY <1>1, <1>2, <1>3, <1>4, OtherRow
  <1>5. CASE RowOf(job[w]) = row
    <2>1. CASE Owed(row)'
      BY <2>1 DEF Accounted
    <2>2. CASE /\ OnTrack(w) /\ RunnersOf(row)' = {}
               /\ \A v \in Workers \ {w} : job[v] # job[w]
      <3>1. Right(row)' = Right(row)
        BY <1>1 DEF Right, Made, TradesIn, PriceBefore
      <3>2. \A v \in Workers : job'[v] # job[w]
        BY <1>1, <1>2, <2>2, Names
      <3>3. CASE jobs'[job[w]].status \notin {"NONE", "DONE"}
        BY <1>1, <1>5, <3>2, <3>3 DEF Accounted, Owed, Owes
      <3>4. CASE Right(row)
        BY <2>2, <3>1, <3>4 DEF Accounted, Settled
      <3>5. CASE CompleteJob(w)
        BY <1>5, <2>2, <3>4, <3>5 DEF CompleteJob, OnTrack, InHand
      <3>6. CASE HandleFailure(w)
        BY <1>1, <3>3, <3>6, QueueOps DEF HandleFailure
      <3>7. CASE Abandon(w)
        <4>1. jobs' = jobs
          BY <3>7 DEF Abandon
        <4> QED  BY <1>5, <2>2, <3>3, <3>4, <4>1 DEF OnTrack
      <3> QED  BY <3>5, <3>6, <3>7 DEF LetsGo
    <2> QED
      BY <1>1, <1>2, <1>3, <1>5, <2>1, <2>2, OwnRow
  <1> QED  BY <1>4, <1>5

(* A call throws, before or after its effect.                              *)
LEMMA ThrowsRow ==
    ASSUME TypeInv, TypeInv', NEW w \in Workers, HandlerThrows(w), NEW row \in Rows, Accounted(row)
    PROVE  Accounted(row)'
  <1>1. /\ QueueOK /\ LoopsOK /\ LoopsOK' /\ pc[w] \notin {"idle", "failed"}
        /\ job[w] \in JobIds /\ job' = job
        /\ trades' = trades /\ balance' = balance /\ candles' = candles
    BY DEF TypeInv, LoopsOK, HandlerThrows, Running, tables
  <1>2. /\ \A v \in Workers \ {w} : pc'[v] = pc[v] /\ got'[v] = got[v]
        /\ pc'[w] = "failed"
    BY <1>1 DEF LoopsOK, HandlerThrows
  <1>3. \/ jobs' = jobs
        \/ pc[w] = "complete" /\ jobs' = Complete(jobs, job[w])
    BY DEF HandlerThrows
  <1>4. \A id \in JobIds \ {job[w]} : jobs'[id] = jobs[id]
    BY <1>1, <1>3, QueueOps
  <1>5. CASE RowOf(job[w]) # row
    BY <1>1, <1>2, <1>4, <1>5, OtherRow
  <1>6. CASE RowOf(job[w]) = row
    <2>1. CASE Owed(row)'
      BY <2>1 DEF Accounted
    <2>2. CASE OnTrack(w) /\ RunnersOf(row)' = {w}
      <3>1. Right(row)' = Right(row)
        BY <1>1 DEF Right, Made, TradesIn, PriceBefore
      <3>2. jobs[job[w]].status = "RUNNING" /\ (pc[w] = "complete" => Right(row))
        BY <1>1, <1>6, <2>2 DEF OnTrack, InHand
      <3>3. InHand(w)'
        BY <1>2 DEF InHand
      <3>4. jobs'[job[w]].status = "RUNNING" \/ Right(row)'
        BY <1>3, <3>1, <3>2
      <3>5. OnTrack(w)'
        BY <1>1, <1>2, <1>6, <3>3, <3>4 DEF OnTrack
      <3> QED  BY <2>2, <3>5 DEF Accounted, BeingMade
    <2> QED
      BY <1>1, <1>2, <1>4, <1>6, <2>1, <2>2, OwnRow
  <1> QED  BY <1>5, <1>6

(* A worker claims a job: it has the row to itself, or the row is missed.  *)
LEMMA ClaimRow ==
    ASSUME TypeInv, TypeInv', NEW w \in Workers, ClaimJob(w), NEW row \in Rows,
           Accounted(row), row \notin missed'
    PROVE  Accounted(row)'
  <1>1. PICK id \in JobIds :
          /\ Due(jobs[id]) /\ jobs' = Claim(jobs, id) /\ job' = [job EXCEPT ![w] = id]
          /\ missed' = missed \cup (IF RunnersOf(RowOf(id)) # {} THEN {RowOf(id)} ELSE {})
    BY DEF ClaimJob
  <1>2. /\ QueueOK /\ LoopsOK /\ LoopsOK' /\ pc[w] = "idle"
        /\ pc' = [pc EXCEPT ![w] = "read"] /\ got' = [got EXCEPT ![w] = Nothing]
        /\ trades' = trades /\ balance' = balance /\ candles' = candles
    BY DEF TypeInv, ClaimJob, tables
  <1>3. /\ \A v \in Workers \ {w} : pc'[v] = pc[v] /\ job'[v] = job[v] /\ got'[v] = got[v]
        /\ pc'[w] = "read" /\ job'[w] = id
    BY <1>1, <1>2 DEF LoopsOK
  <1>4. /\ \A i \in JobIds \ {id} : jobs'[i] = jobs[i]
        /\ jobs'[id].status = "RUNNING"
    BY <1>1, <1>2, QueueOps
  <1>5. CASE RowOf(id) # row
    BY <1>2, <1>3, <1>4, <1>5, OtherRow
  <1>6. CASE RowOf(id) = row
    <2>1. RunnersOf(row) = {}
      BY <1>1, <1>6
    <2>2. RunnersOf(row)' = {w}
      BY <1>2, <1>3, <1>6, <2>1 DEF RunnersOf, Running
    <2>3. OnTrack(w)'
      BY <1>3, <1>4 DEF OnTrack, InHand
    <2> QED  BY <2>2, <2>3 DEF Accounted, BeingMade
  <1> QED  BY <1>5, <1>6

(* What the trades above the cursor, coming or going, leave of a bucket.   *)
LEMMA SameInput ==
    ASSUME TablesOK, TablesOK', NEW b \in Buckets, TradesIn(b)' = TradesIn(b),
           Kept(trades, 0 .. b - 1) = Kept(trades', 0 .. b - 1) \/ TradesIn(b) = <<>>
    PROVE  Made(b)' = Made(b)
  <1>1. CASE TradesIn(b) = <<>>
    BY <1>1 DEF Made
  <1>2. CASE TradesIn(b) # <<>>
    <2>1. PriceBefore(b)' = PriceBefore(b)
      BY <1>2 DEF PriceBefore
    <2> QED  BY <1>2, <2>1 DEF Made
  <1> QED  BY <1>1, <1>2

(* A bucket with a trade began no later than that trade.                   *)
LEMMA TradedBucketHasBegun ==
    ASSUME TablesOK, NEW b \in Buckets, TradesIn(b) # <<>>
    PROVE  \E i \in 1 .. Len(trades) : /\ BucketOf(trades[i].block) = b
                                       /\ b <= trades[i].block /\ trades[i].block <= cursor
  <1>1. trades \in Seq(TradeRow) /\ \A i \in 1 .. Len(trades) : trades[i].block <= cursor
    BY DEF TablesOK
  <1>2. PICK i \in 1 .. Len(trades) : trades[i].block \in {c \in 0 .. MaxBlock : BucketOf(c) = b}
    BY <1>1, KeptIsEmpty DEF TradesIn
  <1>3. b <= trades[i].block
    BY <1>2, BucketBegins
  <1> QED  BY <1>1, <1>2, <1>3

(* An indexed range says nothing new of a bucket none of its trades is in, *)
(* and leaves a bucket one of them is in with a trade.                     *)
LEMMA IndexedBucket ==
    ASSUME TypeInv, TypeInv', NEW b \in Buckets,
           NEW to \in {cursor + 1, cursor + 2} \cap (1 .. MaxBlock),
           NEW blocks \in TradingBlocks(cursor + 1, to), trades' = trades \o NewTrades(blocks)
    PROVE  IF \E i \in DOMAIN NewTrades(blocks) : BucketOf(NewTrades(blocks)[i].block) = b
           THEN TradesIn(b)' # <<>>
           ELSE TradesIn(b)' = TradesIn(b) /\ Made(b)' = Made(b)
  <1> DEFINE new == NewTrades(blocks)
             in == {c \in 0 .. MaxBlock : BucketOf(c) = b}
  <1>1. /\ new \in Seq(TradeRow) /\ Len(new) \in Nat /\ DOMAIN new = 1 .. Len(new)
        /\ \A i \in DOMAIN new : new[i].block \in (cursor + 1) .. to
        /\ \/ \E t \in TradeRow : new = <<t>>
           \/ \E t, u \in TradeRow : new = <<t, u>>
    BY NewTradesAre DEF TypeInv
  <1>2. trades \in Seq(TradeRow) /\ trades' \in Seq(TradeRow) /\ TablesOK /\ TablesOK'
    BY DEF TypeInv, TablesOK
  <1>3. cursor \in Nat /\ to \in 1 .. MaxBlock /\ MaxBlock \in Nat
    BY <1>2, WorkerAssumption DEF TablesOK
  <1>4. /\ TradesIn(b) = Kept(trades, in) /\ TradesIn(b)' = Kept(trades', in)
        /\ trades' = trades \o new
    BY DEF TradesIn
  <1>5. \A i \in DOMAIN new : new[i].block \in in <=> BucketOf(new[i].block) = b
    BY <1>1, <1>3
  <1> HIDE DEF new, in
  <1>6. ASSUME NEW some, \A i \in DOMAIN new : new[i].block \notin some
        PROVE  Kept(trades', some) = Kept(trades, some)
    <2>1. CASE \E t \in TradeRow : new = <<t>>
      <3>1. PICK t \in TradeRow : new = <<t>>
        BY <2>1
      <3>2. t.block \notin some
        BY <1>1, <1>6, <3>1
      <3>3. trades' = Append(trades, t)
        BY <1>2, <1>4, <3>1
      <3> QED  BY <1>2, <3>2, <3>3, KeptOfAppend
    <2>2. CASE \E t, u \in TradeRow : new = <<t, u>>
      <3>1. PICK t \in TradeRow, u \in TradeRow : new = <<t, u>>
        BY <2>2
      <3>2. t.block \notin some /\ u.block \notin some
        BY <1>1, <1>6, <3>1
      <3> DEFINE first == Append(trades, t)
      <3>3. trades' = Append(first, u) /\ first \in Seq(TradeRow)
        BY <1>2, <1>4, <3>1
      <3>4. Kept(first, some) = Kept(trades, some)
        BY <1>2, <3>2, KeptOfAppend
      <3> HIDE DEF first
      <3>5. Kept(trades', some) = Kept(first, some)
        BY <3>2, <3>3, KeptOfAppend
      <3> QED  BY <3>4, <3>5
    <2> QED  BY <1>1, <2>1, <2>2
  <1>7. CASE \E i \in DOMAIN new : BucketOf(new[i].block) = b
    <2>1. PICK i \in DOMAIN new : new[i].block \in in
      BY <1>5, <1>7
    <2>2. /\ Len(trades) + i \in 1 .. Len(trades')
          /\ trades'[Len(trades) + i] = new[i]
      BY <1>1, <1>2, <1>4
    <2>3. TradesIn(b)' # <<>>
      BY <1>2, <1>4, <2>1, <2>2, KeptIsEmpty
    <2> QED  BY <1>7, <2>3 DEF new
  <1>8. CASE ~ \E i \in DOMAIN new : BucketOf(new[i].block) = b
    <2>1. TradesIn(b)' = TradesIn(b)
      BY <1>4, <1>5, <1>6, <1>8
    <2>2. CASE TradesIn(b) = <<>>
      BY <1>2, <1>8, <2>1, <2>2, SameInput DEF new
    <2>3. CASE TradesIn(b) # <<>>
      <3>1. b <= cursor /\ b \in Nat
        <4>1. b \in Nat
          BY <1>3, BucketsAreBlocks
        <4>2. PICK i \in 1 .. Len(trades) : b <= trades[i].block /\ trades[i].block <= cursor
          BY <1>2, <2>3, TradedBucketHasBegun
        <4>3. trades[i] \in TradeRow
          BY <1>2
        <4>4. trades[i].block \in Nat
          BY <4>3 DEF TradeRow
        <4> QED  BY <1>3, <4>1, <4>2, <4>4
      <3>2. \A i \in DOMAIN new : new[i].block \notin 0 .. b - 1
        BY <1>1, <1>3, <3>1
      <3>3. Kept(trades', 0 .. b - 1) = Kept(trades, 0 .. b - 1)
        BY <1>6, <3>2
      <3>4. Made(b)' = Made(b)
        BY <1>2, <2>1, <3>3, SameInput
      <3> QED  BY <1>8, <2>1, <3>4 DEF new
    <2> QED  BY <2>2, <2>3
  <1> QED  BY <1>7, <1>8 DEF new

(* A rollback that leaves the trades of a bucket leaves its candle's input. *)
LEMMA RolledBackBucket ==
    ASSUME TypeInv, TypeInv', NEW b \in Buckets, NEW n \in 0 .. MaxBlock,
           trades' = Kept(trades, 0 .. n), TradesIn(b)' = TradesIn(b)
    PROVE  Made(b)' = Made(b)
  <1>1. trades \in Seq(TradeRow) /\ TablesOK /\ TablesOK'
    BY DEF TypeInv, TablesOK
  <1>2. CASE TradesIn(b)' = <<>>
    BY <1>1, <1>2, SameInput
  <1>3. CASE TradesIn(b)' # <<>>
    <2>1. \E i \in 1 .. Len(trades') : b <= trades'[i].block /\ trades'[i].block \in 0 .. n
      <3>1. \E i \in 1 .. Len(trades') : trades'[i].block \in {c \in 0 .. MaxBlock : BucketOf(c) = b}
        <4>1. trades' \in Seq(TradeRow)
          BY <1>1 DEF TablesOK
        <4> QED  BY <1>3, <4>1, KeptIsEmpty DEF TradesIn
      <3>2. PICK i \in 1 .. Len(trades') : trades'[i].block \in {c \in 0 .. MaxBlock : BucketOf(c) = b}
        BY <3>1
      <3>3. b <= trades'[i].block
        BY <3>2, BucketBegins
      <3>4. trades'[i].block \in 0 .. n
        <4>1. trades' \in Seq(Of(TradeRow, 0 .. n))
          BY <1>1, KeptAreOf
        <4> QED  BY <4>1 DEF Of
      <3> QED  BY <3>3, <3>4
    <2>2. b \in Nat /\ b <= n
      BY <2>1, BucketsAreBlocks, WorkerAssumption
    <2>3. (0 .. n) \cap (0 .. b - 1) = 0 .. b - 1
      BY <2>2
    <2>4. Kept(trades', 0 .. b - 1) = Kept(trades, 0 .. b - 1)
      <3> DEFINE some == 0 .. n
                 others == 0 .. b - 1
      <3>1. some \cap others = others /\ trades' = Kept(trades, some)
        BY <2>3
      <3> HIDE DEF some, others
      <3>2. Kept(trades', others) = Kept(trades, others)
        BY <1>1, <3>1, KeptTwice
      <3> QED  BY <3>2 DEF others
    <2> QED  BY <1>1, <2>4, SameInput
  <1> QED  BY <1>2, <1>3

(* The rows a range touches, and whether the queue sees to them.           *)
Touched(new) == {<<"candle", BucketOf(new[i].block)>> : i \in DOMAIN new} \cup {Balances}
SeenTo(row, ids) == \E id \in ids : RowOf(id) = row /\ ArmedForNobody(id)

(* A row whose trades a range adds to is owed, or named.                   *)
LEMMA IndexRangeRow ==
    ASSUME TypeInv, TypeInv', RowsInv, IndexRange, NEW row \in Rows, row \notin missed'
    PROVE  /\ Accounted(row)'
           /\ \A b \in Buckets : row = <<"candle", b>> => NoStrayCandle(b)'
  <1>1. PICK to \in {cursor + 1, cursor + 2} \cap (1 .. MaxBlock) :
             \E blocks \in TradingBlocks(cursor + 1, to) :
               LET new == NewTrades(blocks)
                   ids == ScheduledFor(cursor + 1, to)
               IN  /\ trades' = trades \o new
                   /\ jobs' = Enqueue(jobs, ids)
                   /\ missed' = (missed \ (Touched(new) \cap {RowOf(id) : id \in {i \in ids : ArmedForNobody(i)}}))
                                 \cup (Touched(new) \ {RowOf(id) : id \in ids})
                                 \cup {RowOf(id) : id \in {i \in ids : TurnedAway(i)}}
    BY DEF IndexRange, Touched
  <1> DEFINE ids == ScheduledFor(cursor + 1, to)
  <1>2. PICK blocks \in TradingBlocks(cursor + 1, to) :
               /\ trades' = trades \o NewTrades(blocks)
               /\ jobs' = Enqueue(jobs, ids)
               /\ missed' = (missed \ (Touched(NewTrades(blocks)) \cap {RowOf(id) : id \in {i \in ids : ArmedForNobody(i)}}))
                             \cup (Touched(NewTrades(blocks)) \ {RowOf(id) : id \in ids})
                             \cup {RowOf(id) : id \in {i \in ids : TurnedAway(i)}}
    BY <1>1
  <1> DEFINE touched == Touched(NewTrades(blocks))
  <1>3. ids \subseteq JobIds
    <2>1. cursor \in Nat /\ MaxBlock \in Nat /\ to \in 1 .. MaxBlock /\ to >= cursor + 1
      BY SMTT(30), WorkerAssumption DEF TypeInv, TablesOK
    <2>2. cursor + 1 \in 0 .. MaxBlock
      BY <2>1
    <2> QED  BY <2>1, <2>2, BucketBegins, Names DEF ScheduledFor
  <1> HIDE DEF ids
  <1>4. /\ QueueOK /\ LoopsOK /\ TablesOK /\ pc' = pc /\ job' = job /\ got' = got /\ candles' = candles
    BY DEF TypeInv, IndexRange, loops
  <1>5. \A id \in JobIds :
          /\ id \in ids /\ Armed(jobs[id]) => jobs'[id].status = "PENDING"
          /\ jobs[id].status \notin {"NONE", "DONE"} => jobs'[id] = jobs[id]
    BY <1>2, <1>4, EnqueueArms
  <1>6. /\ row \in missed => row \in touched /\ SeenTo(row, ids)
        /\ row \in touched => \E id \in ids : RowOf(id) = row
        /\ \A id \in ids : RowOf(id) = row => ~TurnedAway(id)
    BY <1>2 DEF SeenTo
  <1>7. ASSUME NEW b \in Buckets, row = <<"candle", b>>, row \in touched
        PROVE  NoStrayCandle(b)'
    <2>1. PICK i \in DOMAIN NewTrades(blocks) : BucketOf(NewTrades(blocks)[i].block) = b
      BY <1>7, Names DEF Touched
    <2>2. TradesIn(b)' # <<>>
      BY <1>2, <2>1, IndexedBucket
    <2> QED  BY <2>2 DEF NoStrayCandle
  <1>8. ASSUME row \notin touched
        PROVE  \E b \in Buckets : row = <<"candle", b>> /\ TradesIn(b)' = TradesIn(b) /\ Made(b)' = Made(b)
    <2>1. PICK b \in Buckets : row = <<"candle", b>>
      BY <1>8 DEF Rows, Touched
    <2>2. ~ \E i \in DOMAIN NewTrades(blocks) : BucketOf(NewTrades(blocks)[i].block) = b
      BY <1>8, <2>1 DEF Touched
    <2>3. TradesIn(b)' = TradesIn(b) /\ Made(b)' = Made(b)
      BY <1>2, <2>2, IndexedBucket
    <2> QED  BY <2>1, <2>3
  <1> HIDE DEF touched
  <1>9. RunnersOf(row)' = RunnersOf(row)
    BY <1>4 DEF RunnersOf, Running
  <1>10. CASE row \in touched /\ SeenTo(row, ids)
    <2>1. PICK id \in ids : RowOf(id) = row /\ ArmedForNobody(id)
      BY <1>10 DEF SeenTo
    <2>2. jobs'[id].status = "PENDING" /\ \A w \in Workers : job'[w] # id
      BY <1>3, <1>4, <1>5, <2>1 DEF ArmedForNobody
    <2>3. Owed(row)'
      BY <1>3, <2>1, <2>2 DEF Owed, Owes
    <2> QED  BY <1>7, <1>10, <2>3 DEF Accounted
  <1>11. CASE row \notin touched
    <2>1. PICK b \in Buckets : row = <<"candle", b>> /\ TradesIn(b)' = TradesIn(b) /\ Made(b)' = Made(b)
      BY <1>8, <1>11
    <2>2. row \notin missed /\ Accounted(row) /\ NoStrayCandle(b)
      BY <1>6, <1>11, <2>1 DEF RowsInv
    <2>3. row # Balances /\ row[2] = b
      BY <2>1, Names
    <2>4. Right(row)' = Right(row)
      BY <1>4, <2>1, <2>3 DEF Right
    <2>5. ASSUME NEW w \in RunnersOf(row), InHand(w) PROVE InHand(w)'
      <3>1. pc[w] # "idle" /\ RowOf(job[w]) = row /\ job[w] \in JobIds
        BY <1>4 DEF RunnersOf, Running, LoopsOK
      <3>2. IsCandle(job[w]) /\ job[w][2] = b
        BY <2>1, <2>3, <3>1, Names
      <3>3. pc[w] # "other"
        BY <1>4, <3>2 DEF LoopsOK, RunnersOf
      <3> QED  BY <1>4, <2>1, <2>4, <2>5, <3>1, <3>2, <3>3 DEF InHand
    <2>6. Accounted(row)'
      BY <1>4, <1>5, <2>2, <2>4, <2>5, QuietRow
    <2>7. NoStrayCandle(b)'
      BY <1>4, <1>9, <2>1, <2>2 DEF NoStrayCandle
    <2> QED  BY <2>1, <2>3, <2>6, <2>7
  <1>12. CASE row \in touched /\ ~SeenTo(row, ids)
    <2> SUFFICES Accounted(row)'
      BY <1>7, <1>12
    <2>1. Accounted(row)
      BY <1>6, <1>12 DEF RowsInv
    <2>2. PICK id \in ids : RowOf(id) = row /\ ~TurnedAway(id) /\ ~ArmedForNobody(id)
      BY <1>6, <1>12 DEF SeenTo
    <2>3. id \in JobIds /\ JobRow(jobs[id])
      BY <1>3, <1>4 DEF QueueOK
    <2>4. CASE Owed(row)
      <3>1. PICK other \in JobIds : RowOf(other) = row /\ Owes(other)
        BY <2>4 DEF Owed
      <3>2. Owes(other)'
        BY <1>4, <1>5, <3>1 DEF Owes
      <3> QED  BY <3>1, <3>2 DEF Accounted, Owed
    <2>5. CASE ~Owed(row)
      <3>1. PICK w \in Workers : job[w] = id
        BY <2>2, <2>3, <2>5
           DEF Owed, Owes, ArmedForNobody, Armed
      <3>2. w \in RunnersOf(row)
        BY <1>4, <2>2, <2>3, <3>1, Names DEF LoopsOK, RunnersOf, Running
      <3>3. RunnersOf(row) = {w} /\ OnTrack(w)
        BY <2>1, <2>5, <3>2 DEF Accounted, Settled, BeingMade
      <3>4. CASE jobs[id].status = "RUNNING"
        <4>1. PICK v \in Workers : job[v] = id /\ ~HasRead(v)
          BY <2>2, <3>4 DEF TurnedAway
        <4>2. v = w
          BY <1>4, <2>2, <2>3, <3>3, <4>1, Names DEF LoopsOK, RunnersOf, Running
        <4>3. pc[w] = "read"
          BY <1>4, <2>3, <3>1, <4>1, <4>2, Names DEF HasRead, LoopsOK
        <4>4. OnTrack(w)'
          BY <1>4, <1>5, <2>3, <3>1, <3>4, <4>3 DEF OnTrack, InHand
        <4> QED  BY <1>9, <3>3, <4>4 DEF Accounted, BeingMade
      <3>5. CASE jobs[id].status # "RUNNING"
        <4>1. pc[w] = "failed" /\ jobs[id].status # "DEAD"
          BY <2>2, <3>1, <3>3, <3>5 DEF OnTrack, TurnedAway
        <4>2. jobs[id].status \in {"NONE", "DONE", "PENDING"}
          BY <2>3, <3>5, <4>1 DEF JobRow, Statuses
        <4>3. jobs'[id].status = "PENDING"
          BY <1>5, <2>3, <4>2 DEF Armed
        <4>4. OnTrack(w)'
          BY <1>4, <3>1, <4>1, <4>3 DEF OnTrack, InHand
        <4> QED  BY <1>9, <3>3, <4>4 DEF Accounted, BeingMade
      <3> QED  BY <3>4, <3>5
    <2> QED  BY <2>4, <2>5
  <1> QED  BY <1>10, <1>11, <1>12

(* A row whose trades a rollback takes away is named.                      *)
LEMMA RollbackRow ==
    ASSUME TypeInv, TypeInv', RowsInv, NEW n \in 0 .. MaxBlock, Rollback(n),
           NEW row \in Rows, row \notin missed'
    PROVE  /\ Accounted(row)'
           /\ \A b \in Buckets : row = <<"candle", b>> => NoStrayCandle(b)'
  <1>1. /\ LoopsOK /\ jobs' = jobs /\ pc' = pc /\ job' = job /\ got' = got /\ candles' = candles
        /\ trades' = Kept(trades, 0 .. n)
        /\ missed' = missed \cup {<<"candle", b>> : b \in {b \in Buckets : TradesIn(b)' # TradesIn(b)}}
                             \cup {Balances}
    BY DEF TypeInv, Rollback, loops
  <1>2. PICK b \in Buckets : row = <<"candle", b>> /\ TradesIn(b)' = TradesIn(b)
    BY <1>1 DEF Rows
  <1>3. Made(b)' = Made(b)
    BY <1>1, <1>2, RolledBackBucket
  <1>4. row \notin missed /\ Accounted(row) /\ NoStrayCandle(b)
    BY <1>1, <1>2 DEF RowsInv
  <1>5. row # Balances /\ row[2] = b
    BY <1>2, Names
  <1>6. Right(row)' = Right(row)
    BY <1>1, <1>3, <1>5 DEF Right
  <1>7. ASSUME NEW w \in RunnersOf(row), InHand(w) PROVE InHand(w)'
    <2>1. pc[w] # "idle" /\ RowOf(job[w]) = row /\ job[w] \in JobIds
      BY <1>1 DEF RunnersOf, Running, LoopsOK
    <2>2. IsCandle(job[w]) /\ job[w][2] = b
      BY <1>2, <1>5, <2>1, Names
    <2>3. pc[w] # "other"
      BY <1>1, <2>2 DEF LoopsOK, RunnersOf
    <2> QED  BY <1>1, <1>2, <1>3, <1>6, <1>7, <2>1, <2>2, <2>3 DEF InHand
  <1>8. Accounted(row)'
    BY <1>1, <1>4, <1>6, <1>7, QuietRow
  <1>9. NoStrayCandle(b)'
    BY <1>1, <1>2, <1>4 DEF NoStrayCandle, RunnersOf, Running
  <1> QED  BY <1>2, <1>5, <1>8, <1>9

(* A worker's step leaves no stray candle.                                 *)
LEMMA WorkersLeaveNoStray ==
    ASSUME TypeInv, NEW w \in Workers,
           ClaimJob(w) \/ Handles(w) \/ LetsGo(w) \/ HandlerThrows(w),
           NEW b \in Buckets, NoStrayCandle(b)
    PROVE  NoStrayCandle(b)'
  <1>1. LoopsOK /\ TablesOK
    BY DEF TypeInv
  <1>2. trades' = trades /\ TradesIn(b)' = TradesIn(b)
    BY DEF Handles, LetsGo, ClaimJob, ReadTrades, ReadPrior, UpsertCandle, ReadOneSide,
           ReadOtherSide, Reconcile, CompleteJob, HandleFailure, Abandon, HandlerThrows,
           tables, TradesIn
  <1> DEFINE row == <<"candle", b>>
  <1>3. SUFFICES ASSUME TradesIn(b) = <<>>
                 PROVE  /\ candles'[b] = NoCandle
                        /\ \A v \in Workers : pc'[v] # "idle" /\ RowOf(job'[v]) = row
                                            => pc'[v] \notin {"prior", "write"}
    BY <1>2 DEF NoStrayCandle, RunnersOf, Running
  <1>4. /\ candles[b] = NoCandle
        /\ \A v \in Workers : pc[v] # "idle" /\ RowOf(job[v]) = row
                            => pc[v] \notin {"prior", "write"}
    BY <1>3 DEF NoStrayCandle, RunnersOf, Running
  <1>5. ASSUME pc[w] # "idle" PROVE job[w] \in JobIds
    BY <1>1, <1>5 DEF LoopsOK
  <1>6. CASE ReadTrades(w)
    <2>1. RowOf(job[w]) = row => job[w][2] = b
      BY <1>5, <1>6, Names DEF ReadTrades
    <2>2. candles' = candles /\ job' = job /\ (RowOf(job[w]) = row => pc'[w] = "complete")
      BY <1>1, <1>3, <1>6, <2>1 DEF ReadTrades, LoopsOK
    <2>3. \A v \in Workers \ {w} : pc'[v] = pc[v]
      BY <1>1, <1>6 DEF ReadTrades, LoopsOK
    <2> QED  BY <1>4, <2>2, <2>3
  <1>7. CASE ReadPrior(w)
    <2>1. RowOf(job[w]) # row
      BY <1>4, <1>7 DEF ReadPrior
    <2> QED  BY <1>1, <1>4, <1>7, <2>1 DEF ReadPrior, LoopsOK
  <1>8. CASE UpsertCandle(w)
    <2>1. RowOf(job[w]) # row
      BY <1>4, <1>8 DEF UpsertCandle
    <2>2. job[w][2] # b
      BY <1>5, <1>8, <2>1, Names DEF UpsertCandle
    <2> QED  BY <1>1, <1>4, <1>8, <2>1, <2>2 DEF UpsertCandle, LoopsOK, TablesOK
  <1>9. CASE ReadOneSide(w)
    BY <1>1, <1>4, <1>9 DEF ReadOneSide, LoopsOK
  <1>10. CASE ReadOtherSide(w)
    <2>1. RowOf(job[w]) # row
      BY <1>1, <1>5, <1>10, Names DEF ReadOtherSide, LoopsOK
    <2> QED  BY <1>1, <1>4, <1>10, <2>1 DEF ReadOtherSide, LoopsOK
  <1>11. CASE Reconcile(w)
    BY <1>1, <1>4, <1>11 DEF Reconcile, LoopsOK
  <1>12. CASE ClaimJob(w)
    BY <1>1, <1>4, <1>12 DEF ClaimJob, LoopsOK
  <1>13. CASE LetsGo(w)
    BY <1>1, <1>4, <1>13 DEF LetsGo, CompleteJob, HandleFailure, Abandon, Idle, LoopsOK
  <1>14. CASE HandlerThrows(w)
    BY <1>1, <1>4, <1>14 DEF HandlerThrows, LoopsOK
  <1> QED
    BY <1>6, <1>7, <1>8, <1>9, <1>10, <1>11, <1>12, <1>13, <1>14 DEF Handles

(* Every step keeps what is said of the derived rows.                      *)
LEMMA RowsAreKept == TypeInv /\ TypeInv' /\ RowsInv /\ [Next]_vars => RowsInv'
  <1> SUFFICES ASSUME TypeInv, TypeInv', RowsInv, [Next]_vars PROVE RowsInv'
    OBVIOUS
  <1> SUFFICES ASSUME NEW row \in Rows, row \notin missed'
               PROVE  /\ Accounted(row)'
                      /\ \A b \in Buckets : row = <<"candle", b>> => NoStrayCandle(b)'
    BY DEF RowsInv, Rows
  <1>1. QueueOK /\ LoopsOK
    BY DEF TypeInv
  <1>2. CASE IndexRange
    BY <1>2, IndexRangeRow
  <1>3. ASSUME NEW n \in 0 .. MaxBlock, Rollback(n)
        PROVE  /\ Accounted(row)'
               /\ \A b \in Buckets : row = <<"candle", b>> => NoStrayCandle(b)'
    BY <1>3, RollbackRow
  <1>4. ASSUME row \notin missed
        PROVE  /\ Accounted(row)
               /\ \A b \in Buckets : row = <<"candle", b>> => NoStrayCandle(b)
    BY <1>4 DEF RowsInv
  <1>5. ASSUME UNCHANGED <<trades, balance, candles, pc, job, got, missed>>,
               \A id \in JobIds : jobs[id].status \notin {"NONE", "DONE"}
                                    => jobs'[id].status = jobs[id].status
        PROVE  /\ Accounted(row)'
               /\ \A b \in Buckets : row = <<"candle", b>> => NoStrayCandle(b)'
    <2>1. /\ \A b : TradesIn(b)' = TradesIn(b)
          /\ \A b : Made(b)' = Made(b)
          /\ \A r : Right(r)' = Right(r)
          /\ \A r : RunnersOf(r)' = RunnersOf(r)
      BY <1>5 DEF TradesIn, Made, PriceBefore, Right, RunnersOf, Running
    <2>2. ASSUME NEW w \in RunnersOf(row), InHand(w) PROVE InHand(w)'
      BY <1>5, <2>1, <2>2 DEF InHand
    <2>3. Accounted(row)'
      BY <1>4, <1>5, <2>1, <2>2, QuietRow
    <2>4. \A b \in Buckets : NoStrayCandle(b) => NoStrayCandle(b)'
      BY <1>5, <2>1 DEF NoStrayCandle
    <2> QED  BY <1>4, <1>5, <2>3, <2>4
  <1>6. ASSUME NEW b \in Buckets, Sweep(b)
        PROVE  /\ Accounted(row)'
               /\ \A c \in Buckets : row = <<"candle", c>> => NoStrayCandle(c)'
    <2>1. \A id \in JobIds : jobs[id].status \notin {"NONE", "DONE"}
                               => jobs'[id].status = jobs[id].status
      BY <1>1, <1>6, EnqueueArms DEF Sweep
    <2> QED  BY <1>5, <1>6, <2>1 DEF Sweep, tables, loops
  <1>7. CASE ClockAdvances
    <2>1. \A id \in JobIds : jobs'[id].status = jobs[id].status
      BY <1>1, <1>7, QueueOps DEF ClockAdvances
    <2> QED  BY <1>5, <1>7, <2>1 DEF ClockAdvances, tables, loops
  <1>8. ASSUME NEW w \in Workers, Step(w) \/ HandlerThrows(w) \/ Abandon(w)
        PROVE  /\ Accounted(row)'
               /\ \A b \in Buckets : row = <<"candle", b>> => NoStrayCandle(b)'
    <2>1. ClaimJob(w) \/ Handles(w) \/ LetsGo(w) \/ HandlerThrows(w)
      BY <1>8 DEF Step, Handles, LetsGo
    <2>2. row \notin missed
      BY <2>1 DEF ClaimJob, Handles, LetsGo, ReadTrades, ReadPrior, UpsertCandle, ReadOneSide,
             ReadOtherSide, Reconcile, CompleteJob, HandleFailure, Abandon, HandlerThrows
    <2>3. \A b \in Buckets : row = <<"candle", b>> => NoStrayCandle(b)'
      BY <1>4, <2>1, <2>2, WorkersLeaveNoStray
    <2>4. Accounted(row)'
      BY <1>4, <2>1, <2>2, ClaimRow, HandlerRow, LetsGoRow, ThrowsRow
    <2> QED  BY <2>3, <2>4
  <1>9. CASE UNCHANGED vars
    BY <1>5, <1>9 DEF vars, tables, loops
  <1> QED
    BY <1>2, <1>3, <1>6, <1>7, <1>8, <1>9 DEF Next

(* Nothing is derived at first.                                            *)
LEMMA InitRows == Init => OneRunner /\ RowsInv
  <1> SUFFICES ASSUME Init PROVE OneRunner /\ RowsInv
    OBVIOUS
  <1>1. \A b : TradesIn(b) = <<>>
    <2>1. <<>> \in Seq(TradeRow) /\ trades = <<>>
      BY DEF Init
    <2>2. \A i \in 1 .. Len(trades) : FALSE
      BY <2>1
    <2> QED  BY <2>1, <2>2, KeptIsEmpty DEF TradesIn
  <1>2. \A row : RunnersOf(row) = {}
    BY DEF Init, RunnersOf, Running
  <1>3. ASSUME NEW row \in Rows PROVE Right(row)
    BY <1>1, Names DEF Init, Right, Made, Rows
  <1>4. \A b \in Buckets : NoStrayCandle(b)
    BY <1>2 DEF Init, NoStrayCandle
  <1> QED  BY <1>2, <1>3, <1>4 DEF Init, OneRunner, Running, RowsInv, Accounted, Settled

-----------------------------------------------------------------------------
(* The theorems *)

(* The invariant of the queue and its workers.                             *)
THEOREM WorkerIsSafe == Spec => []WInv
  <1>1. Init => WInv
    BY InitShape, InitRows DEF WInv
  <1>2. WInv /\ [Next]_vars => WInv'
    BY ShapeIsKept, OneRunnerIsKept, RowsAreKept DEF WInv
  <1> QED  BY <1>1, <1>2, PTL DEF Spec

(* A worker has a job exactly while it is not idle, no job has used more   *)
(* attempts than it has, and the tables keep their types.                  *)
THEOREM QueueIsTyped == Spec => []TypeOK
  <1>1. WInv => TypeOK
    BY DEF WInv, TypeInv, QueueOK, LoopsOK, TablesOK, JobRow, TypeOK
  <1> QED  BY <1>1, WorkerIsSafe, PTL

(* jobs.ts:80: no job is run by two workers at once, and the row of a job  *)
(* that runs says so, unless the answer of a completion was lost.          *)
THEOREM NoJobHasTwoRunners == Spec => []OneRunner
  <1>1. WInv => OneRunner
    BY DEF WInv
  <1> QED  BY <1>1, WorkerIsSafe, PTL

(* A row at rest that is not missed is right.                              *)
LEMMA RestIsRight ==
    ASSUME WInv, NEW row \in Rows, AtRest(row), row \notin missed
    PROVE  Right(row)
  <1>1. Accounted(row) /\ LoopsOK
    BY DEF WInv, RowsInv, TypeInv
  <1>2. ~Owed(row)
    BY DEF AtRest, Owed, Owes
  <1>3. CASE BeingMade(row)
    <2>1. PICK w \in Workers : RunnersOf(row) = {w} /\ OnTrack(w)
      BY <1>3 DEF BeingMade
    <2>2. pc[w] # "idle" /\ RowOf(job[w]) = row
      BY <2>1 DEF RunnersOf, Running
    <2>3. job[w] \in JobIds
      BY <1>1, <2>2 DEF LoopsOK
    <2> QED  BY <2>1, <2>2, <2>3 DEF AtRest, OnTrack
  <1> QED  BY <1>1, <1>2, <1>3 DEF Accounted, Settled

(* A running total agrees with the events behind it once the jobs that     *)
(* compare the two are done, whatever was read and repaired meanwhile.     *)
THEOREM TotalsAreReconciled == Spec => []BalancesReconciled
  <1>1. ASSUME WInv PROVE BalancesReconciled
    BY <1>1, RestIsRight DEF BalancesReconciled, Right, Rows
  <1> QED  BY <1>1, WorkerIsSafe, PTL

(* jobs.ts:33: a candle whose jobs are done is the one the handler would   *)
(* make of the trades that are there now.                                  *)
CandlesRemade ==
    \A b \in Buckets :
        LET row == <<"candle", b>>
        IN  AtRest(row) /\ row \notin missed => candles[b] = Made(b)

(* Every candle whose job is at rest is the one its trades make, unless    *)
(* the update is named in "missed".                                        *)
THEOREM CandlesAreRemade == Spec => []CandlesRemade
  <1>1. ASSUME WInv PROVE CandlesRemade
    BY <1>1, RestIsRight, Names DEF CandlesRemade, Right, Rows
  <1> QED  BY <1>1, WorkerIsSafe, PTL

-----------------------------------------------------------------------------
(* A candle, without its fold *)

Candle == [open : Nat, high : Nat, low : Nat, close : Nat, volume : Nat, count : Nat]

(* One trade more.                                                         *)
LEMMA ExtendedCandle ==
    ASSUME NEW c \in Candle, NEW t \in TradeRow
    PROVE  LET d == Extend(c, t)
           IN  /\ d \in Candle /\ d.open = c.open
               /\ d.high = IF t.price > c.high THEN t.price ELSE c.high
               /\ d.low = IF t.price < c.low THEN t.price ELSE c.low
               /\ d.close = t.price /\ d.volume = c.volume + t.price /\ d.count = c.count + 1
  <1> DEFINE high == IF t.price > c.high THEN t.price ELSE c.high
             low  == IF t.price < c.low THEN t.price ELSE c.low
  <1>1. t.price \in Nat
    BY DEF TradeRow
  <1>2. /\ c.open \in Nat /\ c.high \in Nat /\ c.low \in Nat
        /\ c.close \in Nat /\ c.volume \in Nat /\ c.count \in Nat
    BY DEF Candle
  <1>3. high \in Nat /\ low \in Nat
    BY <1>1, <1>2
  <1>4. Extend(c, t) = [c EXCEPT !.high = high, !.low = low, !.close = t.price,
                                 !.volume = c.volume + t.price, !.count = c.count + 1]
    BY DEF Extend
  <1> HIDE DEF high, low
  <1>5. c.volume + t.price \in Nat /\ c.count + 1 \in Nat
    BY <1>1, <1>2
  <1>6. Extend(c, t) = [open |-> c.open, high |-> high, low |-> low, close |-> t.price,
                        volume |-> c.volume + t.price, count |-> c.count + 1]
    BY <1>4 DEF Candle
  <1> QED  BY <1>1, <1>2, <1>3, <1>5, <1>6 DEF Candle, high, low

(* The prices of the first so many trades, nothing for the others.         *)
Upto(ts, i) == [j \in DOMAIN ts |-> IF j <= i THEN ts[j].price ELSE 0]
Seen(ts, open, i) == {open} \cup {ts[j].price : j \in 1 .. i}

(* An instance has a copy of what finite means.                            *)
LEMMA Finite == \A S : IsFiniteSet(S) <=> E!IsFiniteSet(S)
  BY DEF IsFiniteSet, E!IsFiniteSet

(* One more price is that much more volume.                                *)
LEMMA UptoOneMore ==
    ASSUME NEW ts \in Seq(TradeRow), NEW i \in 1 .. Len(ts)
    PROVE  E!SumAll(Upto(ts, i)) = E!SumAll(Upto(ts, i - 1)) + ts[i].price
  <1> DEFINE f == Upto(ts, i - 1)
  <1>1. DOMAIN ts = 1 .. Len(ts) /\ Len(ts) \in Nat
    OBVIOUS
  <1>2. \A j \in 1 .. Len(ts) : ts[j].price \in Nat
    <2>1. \A j \in 1 .. Len(ts) : ts[j] \in TradeRow
      OBVIOUS
    <2> QED  BY <2>1 DEF TradeRow
  <1>3. f \in [1 .. Len(ts) -> Nat] /\ f[i] = 0
    BY <1>1, <1>2 DEF Upto
  <1>4. Upto(ts, i) = [f EXCEPT ![i] = ts[i].price]
    <2> DEFINE g == [f EXCEPT ![i] = ts[i].price]
    <2>1. i \in 1 .. Len(ts) /\ i <= i
      OBVIOUS
    <2>2. g = [j \in 1 .. Len(ts) |-> g[j]] /\ Upto(ts, i) = [j \in 1 .. Len(ts) |-> Upto(ts, i)[j]]
      BY <1>1 DEF Upto
    <2>3. ASSUME NEW j \in 1 .. Len(ts) PROVE g[j] = Upto(ts, i)[j]
      <3>1. CASE j = i
        BY <1>1, <3>1 DEF Upto
      <3>2. CASE j # i
        <4>1. j <= i - 1 <=> j <= i
          BY <3>2
        <4> QED  BY <1>1, <3>2, <4>1 DEF Upto
      <3> QED  BY <3>1, <3>2
    <2> HIDE DEF g
    <2>4. g = Upto(ts, i)
      BY <2>2, <2>3
    <2> QED  BY <2>4 DEF g
  <1>5. IsFiniteSet(1 .. Len(ts))
    BY <1>1, FS_Interval
  <1> HIDE DEF f
  <1>6. E!SumAll(Upto(ts, i)) = E!SumAll(f) - f[i] + ts[i].price
    <2> DEFINE dom == 1 .. Len(ts)
               price == ts[i].price
    <2>1. f \in [dom -> Nat] /\ i \in dom /\ price \in Nat /\ IsFiniteSet(dom)
      BY <1>2, <1>3, <1>5
    <2> HIDE DEF dom, price
    <2>2. E!SumAll([f EXCEPT ![i] = price]) = E!SumAll(f) - f[i] + price
      BY <2>1, E!SumAfterUpdate, Finite
    <2> QED  BY <1>4, <2>2 DEF price
  <1>7. E!SumAll(f) \in Nat
    BY <1>3, <1>5, E!SumIsNatural, Finite
  <1> QED  BY <1>2, <1>3, <1>6, <1>7 DEF f

(* No price is no volume.                                                  *)
LEMMA NothingUpto ==
    ASSUME NEW ts \in Seq(TradeRow)
    PROVE  E!SumAll(Upto(ts, 0)) = 0
  <1>1. Upto(ts, 0) = [j \in 1 .. Len(ts) |-> 0] /\ IsFiniteSet(1 .. Len(ts))
    BY FS_Interval DEF Upto
  <1> QED  BY <1>1, E!SumOfZeros, Finite

(* A sum over a set with an operator is one over the function it defines.  *)
LEMMA VolumeIsSum ==
    ASSUME NEW ts \in Seq(TradeRow)
    PROVE  MapThenSumSet(LAMBDA i : ts[i].price, DOMAIN ts) = E!SumAll(Upto(ts, Len(ts)))
  <1> DEFINE S == DOMAIN ts
             f == Upto(ts, Len(ts))
             Rule(g) == g = [s \in SUBSET S |->
                               IF s = {} THEN 0 ELSE ts[E!Taken(s)].price + g[s \ {E!Taken(s)}]]
             h == CHOOSE g : Rule(g)
             P == {s \in SUBSET S : h[s] = E!Sums(f, S)[s]}
  <1>1. S = 1 .. Len(ts) /\ Len(ts) \in Nat /\ IsFiniteSet(S)
    BY FS_Interval
  <1>2. MapThenSumSet(LAMBDA i : ts[i].price, DOMAIN ts) = h[S]
    BY DEF MapThenSumSet, MapThenFoldSet, E!Taken
  <1>3. \A i \in S : f[i] = ts[i].price
    BY <1>1 DEF Upto
  <1>4. E!IsFold(E!Sums(f, S), f, S)
    BY <1>1, E!FoldExists, Finite DEF E!Sums
  <1>5. DOMAIN f = S
    BY DEF Upto
  <1> HIDE DEF S, f
  <1>6. Rule(E!Sums(f, S))
    <2> DEFINE g == E!Sums(f, S)
    <2>1. g = [s \in SUBSET S |-> IF s = {} THEN 0 ELSE f[E!Taken(s)] + g[s \ {E!Taken(s)}]]
      BY <1>4 DEF E!IsFold
    <2>2. \A s \in SUBSET S : s # {} => f[E!Taken(s)] = ts[E!Taken(s)].price
      BY <1>1, <1>3, E!TakenLeavesOneLess, Finite
    <2> HIDE DEF g
    <2>3. g = [s \in SUBSET S |->
                 IF s = {} THEN 0 ELSE ts[E!Taken(s)].price + g[s \ {E!Taken(s)}]]
      BY <2>1, <2>2
    <2> QED  BY <2>3 DEF g
  <1> HIDE DEF Rule
  <1>7. Rule(h)
    BY <1>6
  <1> HIDE DEF h
  <1>8. {} \in P
    BY <1>7, <1>4 DEF Rule, E!IsFold
  <1>9. ASSUME NEW s \in SUBSET S, s # {}, s \ {E!Taken(s)} \in P PROVE s \in P
    <2>1. h[s] = ts[E!Taken(s)].price + h[s \ {E!Taken(s)}]
      BY <1>7, <1>9 DEF Rule
    <2>2. E!Sums(f, S)[s] = f[E!Taken(s)] + E!Sums(f, S)[s \ {E!Taken(s)}]
      BY <1>4, <1>9 DEF E!IsFold
    <2>3. f[E!Taken(s)] = ts[E!Taken(s)].price
      BY <1>1, <1>3, <1>9, E!TakenLeavesOneLess, Finite
    <2> QED  BY <1>9, <2>1, <2>2, <2>3
  <1> HIDE DEF P
  <1>10. S \in P
    <2>1. IsFiniteSet(S)
      BY <1>1
    <2>2. SUBSET S \subseteq P
      BY <1>8, <1>9, <2>1, E!PartsByTaking, Finite
    <2> QED  BY <2>2
  <1>11. h[S] = E!Sums(f, S)[S]
    BY <1>10 DEF P
  <1> QED  BY <1>2, <1>5, <1>11, E!SumAllIsFold DEF f

(* What a candle says after the first i trades.                            *)
Tells(c, ts, open, i) ==
    /\ c.open = open /\ c.count = i /\ c.volume = E!SumAll(Upto(ts, i))
    /\ i # 0 => c.close = ts[i].price
    /\ c.high \in Seen(ts, open, i) /\ \A x \in Seen(ts, open, i) : c.high >= x
    /\ c.low \in Seen(ts, open, i) /\ \A x \in Seen(ts, open, i) : c.low <= x

(* A trade more is one more that the candle tells of.                      *)
LEMMA TellsOneMore ==
    ASSUME NEW ts \in Seq(TradeRow), NEW open \in Nat, NEW i \in 1 .. Len(ts),
           NEW c \in Candle, Tells(c, ts, open, i - 1)
    PROVE  Extend(c, ts[i]) \in Candle /\ Tells(Extend(c, ts[i]), ts, open, i)
  <1> DEFINE d == Extend(c, ts[i])
             p == ts[i].price
  <1>1. ts[i] \in TradeRow /\ i \in Nat /\ i # 0
    OBVIOUS
  <1>2. p \in Nat
    BY <1>1 DEF TradeRow
  <1>3. /\ d \in Candle /\ d.open = c.open
        /\ d.high = IF p > c.high THEN p ELSE c.high
        /\ d.low = IF p < c.low THEN p ELSE c.low
        /\ d.close = p /\ d.volume = c.volume + p /\ d.count = c.count + 1
    BY <1>1, ExtendedCandle
  <1>4. c.high \in Nat /\ c.low \in Nat
    BY DEF Candle
  <1>5. Seen(ts, open, i) = Seen(ts, open, i - 1) \cup {p}
    <2>1. 1 .. i = (1 .. i - 1) \cup {i}
      BY <1>1
    <2> QED  BY <2>1 DEF Seen
  <1>6. \A x \in Seen(ts, open, i - 1) : x \in Nat
    <2>1. ASSUME NEW j \in 1 .. i - 1 PROVE ts[j].price \in Nat
      <3>1. ts[j] \in TradeRow
        OBVIOUS
      <3> QED  BY <3>1 DEF TradeRow
    <2> QED  BY <2>1 DEF Seen
  <1>7. E!SumAll(Upto(ts, i)) = E!SumAll(Upto(ts, i - 1)) + p
    BY UptoOneMore
  <1> HIDE DEF d, p
  <1>8. d.high \in Seen(ts, open, i) /\ \A x \in Seen(ts, open, i) : d.high >= x
    <2>1. CASE p > c.high
      BY <1>2, <1>3, <1>4, <1>5, <1>6, <2>1 DEF Tells
    <2>2. CASE ~(p > c.high)
      BY <1>2, <1>3, <1>4, <1>5, <1>6, <2>2 DEF Tells
    <2> QED  BY <2>1, <2>2
  <1>9. d.low \in Seen(ts, open, i) /\ \A x \in Seen(ts, open, i) : d.low <= x
    <2>1. CASE p < c.low
      BY <1>2, <1>3, <1>4, <1>5, <1>6, <2>1 DEF Tells
    <2>2. CASE ~(p < c.low)
      BY <1>2, <1>3, <1>4, <1>5, <1>6, <2>2 DEF Tells
    <2> QED  BY <2>1, <2>2
  <1>10. d.open = open /\ d.count = i /\ d.volume = E!SumAll(Upto(ts, i)) /\ d.close = p
    BY <1>1, <1>3, <1>7 DEF Tells
  <1>11. d \in Candle
    BY <1>3
  <1> QED  BY <1>8, <1>9, <1>10, <1>11 DEF Tells, d, p

(* The fold tells of every trade.                                          *)
LEMMA CandleOfTrades ==
    ASSUME NEW ts \in Seq(TradeRow), NEW open \in Nat,
           NEW start, start = [open |-> open, high |-> open, low |-> open, close |-> open,
                               volume |-> 0, count |-> 0]
    PROVE  LET c == FoldLeft(Extend, start, ts)
           IN  c \in Candle /\ Tells(c, ts, open, Len(ts))
  <1> DEFINE reached == {r \in (0 .. Len(ts)) \X Candle : Tells(r[2], ts, open, r[1])}
  <1>1. <<0, start>> \in reached
    <2>1. 0 \in 0 .. Len(ts) /\ start \in Candle
      BY DEF Candle
    <2>2. Seen(ts, open, 0) = {open}
      BY DEF Seen
    <2>3. Tells(start, ts, open, 0)
      BY <2>2, NothingUpto DEF Tells
    <2> QED  BY <2>1, <2>3
  <1>2. ASSUME NEW i \in 1 .. Len(ts), NEW v, <<i - 1, v>> \in reached
        PROVE  <<i, Extend(v, ts[i])>> \in reached
    <2>1. v \in Candle /\ Tells(v, ts, open, i - 1)
      BY <1>2
    <2> DEFINE d == Extend(v, ts[i])
    <2>2. d \in Candle /\ Tells(d, ts, open, i) /\ i \in 0 .. Len(ts)
      BY <2>1, TellsOneMore
    <2> HIDE DEF d
    <2>3. <<i, d>> \in reached
      BY <2>2
    <2> QED  BY <2>3 DEF d
  <1> HIDE DEF reached
  <1>3. <<Len(ts), E!Folded(start, ts)>> \in reached
    BY <1>1, <1>2, E!FoldLeftReaches
  <1>4. E!Folded(start, ts) = FoldLeft(Extend, start, ts)
    BY DEF E!Folded, E!FoldLeft, E!MapThenFoldSet, E!Max, FoldLeft, MapThenFoldSet, Max
  <1> QED  BY <1>3, <1>4 DEF reached

(* The last trade that is kept is the latest one of those blocks.          *)
LEMMA LastKept ==
    ASSUME NEW T, NEW s \in Seq(T), NEW blocks, Kept(s, blocks) # <<>>
    PROVE  \E j \in 1 .. Len(s) :
             /\ s[j].block \in blocks /\ Last(Kept(s, blocks)) = s[j]
             /\ \A k \in 1 .. Len(s) : s[k].block \in blocks => k <= j
  <1> DEFINE g == KeptSoFar(s, blocks)
             Latest(i, j) == /\ s[j].block \in blocks /\ Last(g[i]) = s[j]
                             /\ \A k \in 1 .. i : s[k].block \in blocks => k <= j
             P == {i \in 0 .. Len(s) : g[i] # <<>> => \E j \in 1 .. i : Latest(i, j)}
  <1>1. /\ g[0] = <<>>
        /\ \A i \in 1 .. Len(s) :
             g[i] = IF s[i].block \in blocks THEN Append(g[i - 1], s[i]) ELSE g[i - 1]
    BY KeptUnfolds
  <1>2. \A i \in 0 .. Len(s) : g[i] \in Seq(Of(T, blocks))
    BY KeptAreOf
  <1>3. g[Len(s)] = Kept(s, blocks) /\ Len(s) \in Nat
    BY KeptIsLast
  <1> HIDE DEF g
  <1>4. 0 \in P
    BY <1>1, <1>3
  <1>5. ASSUME NEW i \in 1 .. Len(s), i - 1 \in P PROVE i \in P
    <2>1. i - 1 \in 0 .. Len(s) /\ i \in 0 .. Len(s) /\ 1 .. i = (1 .. i - 1) \cup {i}
      BY <1>3
    <2>2. CASE s[i].block \in blocks
      <3>1. g[i] = Append(g[i - 1], s[i]) /\ g[i - 1] \in Seq(Of(T, blocks))
        BY <1>1, <1>2, <2>1, <2>2
      <3>2. Last(g[i]) = s[i]
        <4>1. Len(Append(g[i - 1], s[i])) = Len(g[i - 1]) + 1
              /\ Append(g[i - 1], s[i])[Len(g[i - 1]) + 1] = s[i]
          BY <3>1
        <4> QED  BY <3>1, <4>1 DEF Last
      <3>3. i \in 1 .. i /\ \A k \in 1 .. i : k <= i
        BY <1>3
      <3>4. Latest(i, i)
        BY <2>2, <3>2, <3>3
      <3> QED  BY <2>1, <3>3, <3>4
    <2>3. CASE s[i].block \notin blocks
      <3>1. g[i] = g[i - 1]
        BY <1>1, <2>3
      <3>2. CASE g[i] # <<>>
        <4>1. PICK j \in 1 .. i - 1 : Latest(i - 1, j)
          BY <1>5, <3>1, <3>2
        <4>2. j \in 1 .. i
          BY <2>1
        <4>3. Latest(i, j)
          BY <2>1, <2>3, <3>1, <4>1
        <4> QED  BY <2>1, <4>2, <4>3
      <3> QED  BY <2>1, <3>2
    <2> QED  BY <2>2, <2>3
  <1> HIDE DEF P
  <1>6. \A i \in 0 .. Len(s) : i \in P
    BY <1>3, <1>4, <1>5, E!CountingUp
  <1>7. Len(s) \in P
    BY <1>3, <1>6
  <1> QED  BY <1>3, <1>7 DEF P

(* The largest and the smallest of some naturals.                          *)
LEMMA MaxMinAre ==
    ASSUME NEW S \in SUBSET Nat, NEW m \in S
    PROVE  /\ (\A x \in S : m >= x) => Max(S) = m
           /\ (\A x \in S : m <= x) => Min(S) = m
  <1>1. ASSUME \A x \in S : m >= x PROVE Max(S) = m
    <2>1. Max(S) \in S /\ \A x \in S : Max(S) >= x
      BY <1>1 DEF Max
    <2>2. Max(S) \in Nat /\ m \in Nat /\ Max(S) >= m /\ m >= Max(S)
      BY <1>1, <2>1
    <2> QED  BY <2>2
  <1>2. ASSUME \A x \in S : m <= x PROVE Min(S) = m
    <2>1. Min(S) \in S /\ \A x \in S : Min(S) <= x
      BY <1>2 DEF Min
    <2>2. Min(S) \in Nat /\ m \in Nat /\ Min(S) <= m /\ m <= Min(S)
      BY <1>2, <2>1
    <2> QED  BY <2>2
  <1> QED  BY <1>1, <1>2

(* The price before a bucket is that of the last trade before it.          *)
LEMMA OpensAtPriceBefore ==
    ASSUME TablesOK, NEW b \in Buckets
    PROVE  LET earlier == {i \in DOMAIN trades : trades[i].block < b}
           IN  /\ PriceBefore(b) = 0 <=> earlier = {}
               /\ earlier # {} => PriceBefore(b) = trades[Max(earlier)].price
               /\ PriceBefore(b) \in Nat
  <1> DEFINE earlier == {i \in DOMAIN trades : trades[i].block < b}
             past == Kept(trades, 0 .. b - 1)
  <1>1. trades \in Seq(TradeRow) /\ DOMAIN trades = 1 .. Len(trades) /\ Len(trades) \in Nat
    BY DEF TablesOK
  <1>2. ASSUME NEW i \in 1 .. Len(trades)
        PROVE  /\ trades[i].block < b <=> trades[i].block \in 0 .. b - 1
               /\ trades[i].price \in Nat /\ trades[i].price # 0
    <2>1. trades[i] \in TradeRow
      BY <1>1
    <2>2. trades[i].block \in 1 .. MaxBlock /\ trades[i].price \in 1 .. 2
      BY <2>1 DEF TradeRow
    <2>3. b \in Nat /\ MaxBlock \in Nat
      BY BucketsAreBlocks, WorkerAssumption
    <2> QED  BY <2>2, <2>3
  <1>3. past = <<>> <=> earlier = {}
    BY <1>1, <1>2, KeptIsEmpty
  <1>4. CASE earlier = {}
    BY <1>3, <1>4 DEF PriceBefore
  <1>5. CASE earlier # {}
    <2>1. past # <<>>
      BY <1>3, <1>5
    <2>2. PICK j \in 1 .. Len(trades) :
             /\ trades[j].block \in 0 .. b - 1 /\ Last(past) = trades[j]
             /\ \A k \in 1 .. Len(trades) : trades[k].block \in 0 .. b - 1 => k <= j
      BY <1>1, <2>1, LastKept
    <2>3. j \in earlier /\ \A k \in earlier : j >= k
      BY <1>1, <1>2, <2>2
    <2>4. earlier \in SUBSET (1 .. Len(trades))
      BY <1>1
    <2>5. earlier \in SUBSET Nat
      BY <2>4
    <2>6. Max(earlier) = j
      <3> HIDE DEF earlier
      <3> QED  BY <2>3, <2>5, MaxMinAre
    <2>7. PriceBefore(b) = trades[j].price
      BY <2>1, <2>2 DEF PriceBefore
    <2> QED  BY <1>2, <1>5, <2>6, <2>7
  <1> QED  BY <1>4, <1>5

(* What the handler makes of a bucket is its candle.                       *)
LEMMA MadeIsTrue ==
    ASSUME TablesOK, NEW b \in Buckets
    PROVE  Made(b) = TrueCandle(b)
  <1> DEFINE ts == TradesIn(b)
             n == Len(ts)
             prior == PriceBefore(b)
             earlier == {i \in DOMAIN trades : trades[i].block < b}
             open == IF prior = 0 THEN Head(ts).price ELSE prior
             opened == IF earlier = {} THEN ts[1].price ELSE trades[Max(earlier)].price
             start == [open |-> open, high |-> open, low |-> open, close |-> open,
                       volume |-> 0, count |-> 0]
             c == FoldLeft(Extend, start, ts)
             S == {open} \cup PricesOf(ts)
  <1> SUFFICES ASSUME ts # <<>> PROVE Made(b) = TrueCandle(b)
    BY DEF Made, TrueCandle
  <1>1. ts \in Seq(TradeRow)
    <2>1. ts \in Seq(Of(TradeRow, {k \in 0 .. MaxBlock : BucketOf(k) = b}))
      BY KeptAreOf DEF TablesOK, TradesIn
    <2>2. Of(TradeRow, {k \in 0 .. MaxBlock : BucketOf(k) = b}) \subseteq TradeRow
      BY DEF Of
    <2> HIDE DEF ts
    <2> QED  BY <2>1, <2>2
  <1>2. /\ prior = 0 <=> earlier = {}
        /\ earlier # {} => prior = trades[Max(earlier)].price
        /\ prior \in Nat
    BY OpensAtPriceBefore
  <1> HIDE DEF ts, prior, earlier
  <1>3. n \in Nat /\ n # 0 /\ DOMAIN ts = 1 .. n /\ Head(ts) = ts[1]
    BY <1>1
  <1>4. \A i \in 1 .. n : ts[i].price \in Nat
    <2>1. \A i \in 1 .. n : ts[i] \in TradeRow
      BY <1>1
    <2> QED  BY <2>1 DEF TradeRow
  <1>5. open = opened /\ open \in Nat
    BY <1>2, <1>3, <1>4
  <1> HIDE DEF n, open, opened
  <1>6. c \in Candle /\ Tells(c, ts, open, n)
    BY <1>1, <1>5, CandleOfTrades DEF n
  <1>7. Made(b) = c
    BY DEF Made, Aggregate, ts, prior, open
  <1> HIDE DEF c
  <1>8. S = Seen(ts, open, n) /\ S \in SUBSET Nat
    BY <1>3, <1>4, <1>5 DEF Seen, PricesOf
  <1> HIDE DEF S
  <1>9. c.high = Max(S) /\ c.low = Min(S)
    BY <1>6, <1>8, MaxMinAre DEF Tells
  <1>10. c.volume = MapThenSumSet(LAMBDA i : ts[i].price, DOMAIN ts)
    BY <1>1, <1>6, VolumeIsSum DEF Tells, n
  <1>11. c.open = opened /\ c.close = ts[n].price /\ c.count = n
    BY <1>3, <1>5, <1>6 DEF Tells
  <1>12. c = [open |-> c.open, high |-> c.high, low |-> c.low, close |-> c.close,
              volume |-> c.volume, count |-> c.count]
    BY <1>6 DEF Candle
  <1>13. TrueCandle(b) = [open |-> opened, high |-> Max(S), low |-> Min(S), close |-> ts[n].price,
                          volume |-> MapThenSumSet(LAMBDA i : ts[i].price, DOMAIN ts), count |-> n]
    BY <1>5 DEF TrueCandle, S, n, opened, ts, earlier
  <1> QED  BY <1>7, <1>9, <1>10, <1>11, <1>12, <1>13

(* jobs.ts:33: a candle whose jobs are done is the open, high, low, close,  *)
(* volume and count of the trades that are there now.                      *)
THEOREM CandlesAreFresh == Spec => []CandlesFresh
  <1>1. ASSUME WInv PROVE CandlesFresh
    BY <1>1, RestIsRight, Names, MadeIsTrue DEF CandlesFresh, Right, Rows, WInv, TypeInv
  <1> QED  BY <1>1, WorkerIsSafe, PTL
=============================================================================
