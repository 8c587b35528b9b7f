------------------------ MODULE FinalizerCorrectness ------------------------
(***************************************************************************)
(* What the stored datasets owe the holders: entitlements said from the    *)
(* balance of every second, without the code's running accrual.            *)
(***************************************************************************)
EXTENDS Finalizer

HeldIn(a, epoch) == Total([at \in EpochStart(epoch) .. EpochEnd(epoch) - 1 |-> BalanceAt(a, at)])

BlocksOf(epoch) == {n \in DOMAIN blocks : EpochIdAt(n) = epoch}
FundingOf(epoch) == Funding(BlocksOf(epoch))
Active(epoch) == \E n \in BlocksOf(epoch) : blocks[n].moves # <<>> \/ blocks[n].funding > 0

(* Each active epoch's contributions, with what earlier ones left over, go  *)
(* to those who held in it, by how much and for how long.                   *)
Owed(sequence, outcasts) ==
    LET weight(a, e) == IF a \in outcasts THEN 0 ELSE HeldIn(a, e)
        upTo[e \in -1 .. sequence] ==
            IF e = -1 THEN [paid |-> Nobody, left |-> 0]
            ELSE IF ~Active(e) THEN upTo[e - 1]
            ELSE LET before == upTo[e - 1]
                     pool == FundingOf(e) + before.left
                     all == Total([a \in Accounts |-> weight(a, e)])
                     share(a) == IF all = 0 THEN 0 ELSE (pool * weight(a, e)) \div all
                     now == [a \in Accounts |-> share(a)]
                 IN  [paid |-> [a \in Accounts |-> before.paid[a] + now[a]],
                      left |-> pool - Total(now)]
    IN  upTo[sequence]

OutcastsBy(epoch) ==
    IF \E n \in Before(EpochEnd(epoch)) : blocks[n].graduates THEN {Pool} ELSE {}

Held(accounts, sequence) == \E a \in accounts, e \in 0 .. sequence : HeldIn(a, e) > 0

(* The exclusions are read as they are now, not as they were in the epochs  *)
(* a dataset covers: one that touches somebody who held changes the past.   *)
SameOutcasts(known, others, sequence) ==
    ~Held((known \ others) \cup (others \ known), sequence)

-----------------------------------------------------------------------------
(* Types: one dataset for an epoch (its primary key), about a block that is *)
(* there, and nothing remembered between two passes.                        *)
TypeOK ==
    /\ finalized \in 0 .. Len(blocks) /\ excluded \subseteq {Pool}
    /\ (pc = "idle") = (pass = NoPass)
    /\ \A d \in datasets :
          /\ d.throughBlock \in DOMAIN blocks
          /\ \A other \in datasets \ {d} : other.epochSequence # d.epochSequence

(* finalizer.ts:9, "deterministic TWAB over closed epochs": a dataset says  *)
(* what its epochs came to, whenever and by whichever node it was computed, *)
(* unless a rollback below the settled height ran between the reads; also   *)
(* by the exclusions of its own time, when later ones change nothing.       *)
DatasetMatchesChain ==
    \A d \in datasets : \A outcasts \in {d.excluded, OutcastsBy(d.epochSequence)} :
        ~d.raced /\ SameOutcasts(d.excluded, outcasts, d.epochSequence) =>
            LET owed == Owed(d.epochSequence, outcasts)
            IN  d.cumulative = owed.paid /\ d.carry = owed.left

(* finalizer.ts:23, "each root must be a superset of the last": no holder's *)
(* cumulative entitlement falls from one dataset to a later one.            *)
EntitlementsNeverFall ==
    \A d, later \in datasets :
        /\ d.epochSequence < later.epochSequence
        /\ ~d.raced /\ ~later.raced
        /\ SameOutcasts(d.excluded, later.excluded, later.epochSequence)
        => \A a \in Accounts : d.cumulative[a] <= later.cumulative[a]

(* Conservation (distribution.ts:25): of every contribution in the window,  *)
(* what is not owed to a holder is carried, and nothing else happens to it. *)
NothingLost ==
    \A d \in datasets :
        /\ d.total = Total(d.cumulative)
        /\ d.total <= d.totalFunded
        /\ ~d.raced => d.total + d.carry = d.totalFunded

(* merkle.ts: the proof stored for a holder verifies against the root       *)
(* stored beside it, and for no other holder or amount.                     *)
ProofsVerify ==
    \A d \in datasets :
        /\ {p.leaf : p \in d.proofs} = {EncodeLeaf(a, d.cumulative[a]) : a \in {h \in Accounts : d.cumulative[h] > 0}}
        /\ \A p \in d.proofs, a \in Accounts, amount \in 1 .. d.totalFunded :
              VerifyProof(d.root, EncodeLeaf(a, amount), p.proof) <=> p.leaf = EncodeLeaf(a, amount)

-----------------------------------------------------------------------------
(* A closed epoch that pays somebody, and is in no dataset.                 *)
Behind ==
    \E epoch \in 0 .. FinalizableThrough(finalized) :
        /\ \A d \in datasets : d.epochSequence < epoch
        /\ Active(epoch)
        /\ Owed(epoch, excluded).paid # Nobody

(* The datasets never stay behind the settled chain: every closed epoch     *)
(* that pays somebody is in one, however the passes before it failed.       *)
EpochsAreDistributed == []<>~Behind
=============================================================================
