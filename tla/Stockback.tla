------------------------------ MODULE Stockback -----------------------------
(***************************************************************************)
(* The reward mathematics: packages/stockback/src/twab.ts and the pipeline *)
(* of services/stockback/src/distribution.ts over it.  Pure operators; a   *)
(* Map of the code is a function that is 0 where the Map has no entry.     *)
(*                                                                         *)
(* Events are records [account, delta, at] in chain order, in which the    *)
(* timestamps do not fall, so the code's stable sort by time is left out.  *)
(***************************************************************************)
EXTENDS Integers, Sequences, SequencesExt, FiniteSets, FiniteSetsExt, Functions

CONSTANTS Accounts, EpochSeconds

ASSUME StockbackAssumption == EpochSeconds \in Nat \ {0} /\ IsFiniteSet(Accounts)

EpochIdAt(at) == at \div EpochSeconds
EpochStart(epoch) == epoch * EpochSeconds
EpochEnd(epoch) == (epoch + 1) * EpochSeconds

Nobody == [a \in Accounts |-> 0]
Total(amounts) == FoldFunction(+, 0, amounts)

(* Numbers in their order. *)
Ascending(S) ==
    CHOOSE s \in [1 .. Cardinality(S) -> S] :
        ToSet(s) = S /\ \A i, j \in DOMAIN s : i < j => s[i] < s[j]

-----------------------------------------------------------------------------
(* computeEpochWeights: s is the loop's state, with the exclusions it sees. *)

(* What an account's weight is when it is accrued up to a time. *)
Accrued(s, a, until) ==
    s.weights[a] + (IF a \in s.excluded THEN 0 ELSE s.balances[a] * (until - s.last[a]))

(* The account is accrued up to the event, and then its balance moves. *)
ApplyDelta(s, event) ==
    LET a == event.account
        next == s.balances[a] + event.delta
    IN  [s EXCEPT !.weights[a] = Accrued(s, a, event.at), !.last[a] = event.at,
                  !.balances[a] = next, !.corrupt = @ \/ next < 0]

(* Every account is accrued up to the end of the epoch. *)
ComputeEpochWeights(epoch, opening, events, excluded) ==
    LET start == [balances |-> opening, weights |-> Nobody, corrupt |-> FALSE, excluded |-> excluded,
                  last |-> [a \in Accounts |-> EpochStart(epoch)]]
        moved == FoldLeft(ApplyDelta, start, events)
    IN  [balances |-> moved.balances, corrupt |-> moved.corrupt,
         weights |-> [a \in Accounts |-> Accrued(moved, a, EpochEnd(epoch))]]

(* Slip: with nobody to pay, the pool is gone. *)
LosePool(pool, weights) ==
    LET sum == Total(weights)
        rewards == [a \in Accounts |-> IF sum = 0 THEN 0 ELSE (pool * weights[a]) \div sum]
    IN  [rewards |-> rewards, allocated |-> Total(rewards),
         carry |-> IF sum = 0 THEN 0 ELSE pool - Total(rewards)]

(* Every share is floored; what is left over, or all of it when nobody has  *)
(* any weight, rolls into the next epoch.                                   *)
DistributeEpoch(pool, weights) ==
    LET sum == Total(weights)
        rewards == [a \in Accounts |-> IF sum = 0 THEN 0 ELSE (pool * weights[a]) \div sum]
    IN  [rewards |-> rewards, allocated |-> Total(rewards), carry |-> pool - Total(rewards)]

-----------------------------------------------------------------------------
(* bucketByEpoch: an epoch is there when it has an event or a contribution. *)
EventsIn(epoch, events) ==
    LET kept[i \in 0 .. Len(events)] ==
            IF i = 0 THEN <<>>
            ELSE IF EpochIdAt(events[i].at) = epoch THEN Append(kept[i - 1], events[i]) ELSE kept[i - 1]
    IN  kept[Len(events)]

EpochIds(events, contributions) ==
    {EpochIdAt(events[i].at) : i \in DOMAIN events} \cup {e \in DOMAIN contributions : contributions[e] > 0}

BucketByEpoch(events, contributions) ==
    LET bucket(id) == [id |-> id, contributions |-> contributions[id], events |-> EventsIn(id, events)]
        ids == Ascending(EpochIds(events, contributions))
    IN  [i \in DOMAIN ids |-> bucket(ids[i])]

(* One turn of computeDistribution's loop over the epochs. *)
AddEpoch(s, epoch) ==
    LET closed == ComputeEpochWeights(epoch.id, s.balances, epoch.events, s.excluded)
        dist == DistributeEpoch(epoch.contributions + s.carry, closed.weights)
    IN  [s EXCEPT !.balances = closed.balances, !.corrupt = @ \/ closed.corrupt,
         !.cumulative = [a \in Accounts |-> @[a] + dist.rewards[a]],
         !.carry = dist.carry, !.allocated = @ + dist.allocated]

(* NotDistributable stands for every input the pipeline throws on. *)
NotDistributable == [epochSequence |-> -1]

ComputeDistribution(epochs, excluded, totalFunded) ==
    LET zero == [balances |-> Nobody, corrupt |-> FALSE, cumulative |-> Nobody,
                 carry |-> 0, allocated |-> 0, excluded |-> excluded]
        sum == FoldLeft(AddEpoch, zero, epochs)
    IN  IF sum.corrupt \/ sum.allocated > totalFunded \/ sum.cumulative = Nobody
        THEN NotDistributable
        ELSE [epochSequence |-> epochs[Len(epochs)].id, cumulative |-> sum.cumulative,
              total |-> sum.allocated, carry |-> sum.carry]
=============================================================================
