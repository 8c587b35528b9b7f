-------------------------------- MODULE Keeper --------------------------------
(***************************************************************************)
(* services/keeper/src over one market: the sweep that finalizes closed    *)
(* curves.  A sweep goes through the pending markets of the INDEX, oldest  *)
(* first, one step per await.  This market has StuckAhead others before it *)
(* that closed earlier and whose pool refuses them; a sweep without this   *)
(* market in its list does nothing to it and is left out.                  *)
(*                                                                         *)
(* main.ts starts a sweep on every tick of a timer and does not wait for   *)
(* the one before, so several may run at once (Sweeps), from one account   *)
(* and its one sequence of nonces.  Anybody else may finalize in between.  *)
(***************************************************************************)
EXTENDS LaunchMarket, Sequences

CONSTANTS
    Sweeps,        \* sweeps that may run at once
    StuckAhead,    \* older pending markets that cannot be finalized
    PendingLimit,  \* rows marketsAwaitingFinalisation returns, 50
    MaxMishaps     \* bound on calls that fail

ASSUME KeeperAssumption ==
    /\ StuckAhead \in Nat /\ PendingLimit \in Nat \ {0} /\ MaxMishaps \in Nat

VARIABLES
    row,       \* the status the index shows
    pc, todo,  \* per sweep: where it stands, and the markets it has left
    mempool,   \* sweeps whose transaction is sent and not mined
    mishaps

sweepVars == <<pc, todo, mempool, mishaps>>
keeperVars == <<row, sweepVars>>
allVars == <<vars, keeperVars>>

KeeperInit ==
    /\ Init
    /\ row = status
    /\ pc = [s \in Sweeps |-> "idle"] /\ todo = [s \in Sweeps |-> <<>>]
    /\ mempool = {} /\ mishaps = 0

(* The indexer catches up with the market's status (Indexer).              *)
Index ==
    /\ row # status /\ row' = status
    /\ UNCHANGED <<vars, sweepVars>>

-----------------------------------------------------------------------------
(* marketsAwaitingFinalisation: the oldest rows, up to the limit.          *)
Pending ==
    LET waiting == [i \in 1 .. StuckAhead |-> "stuck"] \o <<"this">>
        limit == IF PendingLimit < Len(waiting) THEN PendingLimit ELSE Len(waiting)
    IN  SubSeq(waiting, 1, limit)

StartSweep(s) ==
    /\ pc[s] = "idle" /\ row = "GRADUATING"
    /\ pc' = [pc EXCEPT ![s] = "canSend"]
    /\ todo' = [todo EXCEPT ![s] = Pending]
    /\ UNCHANGED <<vars, row, mempool, mishaps>>

(* The loop goes on with the next market, and ends after the last.         *)
Continue(s, left) ==
    /\ todo' = [todo EXCEPT ![s] = left]
    /\ pc' = [pc EXCEPT ![s] = IF left = <<>> THEN "idle" ELSE "attempt"]

(* Slip: a failure ends the sweep.                                         *)
AbortSweep(left) == <<>>
(* One failure is recorded and the sweep goes on.                          *)
AfterFailure(left) == Tail(left)

(* canSend: the balance is read and is enough.                             *)
CanSend(s) ==
    /\ pc[s] = "canSend"
    /\ Continue(s, todo[s])
    /\ UNCHANGED <<vars, row, mempool, mishaps>>

(* What finalizeGraduation requires, and a simulation tells.               *)
WouldFinalize ==
    /\ status = "GRADUATING"
    /\ TokensToMigrate # 0 /\ QuoteRawToMigrate # 0
    /\ poolPrice # "displaced"

Simulate(s) ==
    /\ pc[s] = "attempt"
    /\ IF Head(todo[s]) = "this" /\ WouldFinalize
         THEN pc' = [pc EXCEPT ![s] = "send"] /\ UNCHANGED todo
         ELSE Continue(s, AfterFailure(todo[s]))
    /\ UNCHANGED <<vars, row, mempool, mishaps>>

(* writeContract: with a transaction of another sweep on its way the nonce *)
(* may be the same, and then one of the two replaces the other.            *)
Send(s) ==
    /\ pc[s] = "send"
    /\ pc' = [pc EXCEPT ![s] = "receipt"]
    /\ \/ mempool' = mempool \cup {s}
       \/ mempool # {} /\ mempool' = {s}
    /\ UNCHANGED <<vars, row, todo, mishaps>>

(* The transaction is mined, as a finalization or as a revert; who waits   *)
(* for it goes on.                                                         *)
Mine(s) ==
    /\ s \in mempool
    /\ mempool' = mempool \ {s}
    /\ IF WouldFinalize THEN FinalizeGraduation ELSE UNCHANGED vars
    /\ IF pc[s] = "receipt" THEN Continue(s, Tail(todo[s])) ELSE UNCHANGED <<pc, todo>>
    /\ UNCHANGED <<row, mishaps>>

(* waitForTransactionReceipt gives up; the transaction may still be mined. *)
WaitTimesOut(s) ==
    /\ pc[s] = "receipt"
    /\ Continue(s, AfterFailure(todo[s]))
    /\ UNCHANGED <<vars, row, mempool, mishaps>>

(* A call fails: the balance cannot be read or is too low (every market is *)
(* SKIPPED), or one attempt throws, also after it has sent.                *)
CallFails(s) ==
    /\ mishaps < MaxMishaps /\ mishaps' = mishaps + 1
    /\ \/ pc[s] = "canSend" /\ Continue(s, <<>>) /\ UNCHANGED mempool
       \/ pc[s] = "attempt" /\ Continue(s, AfterFailure(todo[s])) /\ UNCHANGED mempool
       \/ /\ pc[s] = "send" /\ Continue(s, AfterFailure(todo[s]))
          /\ mempool' \in {mempool, mempool \cup {s}}
    /\ UNCHANGED <<vars, row>>

SweepStep(s) ==
    StartSweep(s) \/ CanSend(s) \/ Simulate(s) \/ Send(s) \/ WaitTimesOut(s)

KeeperNext ==
    \/ Next /\ UNCHANGED keeperVars
    \/ Index
    \/ \E s \in Sweeps : SweepStep(s) \/ Mine(s) \/ CallFails(s)

(***************************************************************************)
(* Fairness: the indexer follows, a sweep goes on and the timer starts the *)
(* next one, and of the transactions on their way, which may replace each  *)
(* other, one is mined.  Nobody else finalizes for certain: the keeper has *)
(* to be enough.                                                           *)
(***************************************************************************)
KeeperSpec ==
    /\ KeeperInit /\ [][KeeperNext]_allVars
    /\ WF_allVars(Index)
    /\ WF_allVars(\E s \in Sweeps : Mine(s))
    /\ \A s \in Sweeps : WF_allVars(SweepStep(s))
=============================================================================
