------------------------- MODULE HolderRewardVault --------------------------
(***************************************************************************)
(* The Stockback vault (contracts/src/HolderRewardVault.sol): markets fund *)
(* it, a quorum of attestors vouches for cumulative distributions, anybody *)
(* submits one, it becomes claimable after a delay in which the guardian   *)
(* may stop it, and holders claim what they have not claimed yet.          *)
(*                                                                         *)
(* A Merkle root is the function from accounts to cumulative amounts that  *)
(* it commits to, a proof is knowing that function's value, a signature is *)
(* the fact that an attestor vouches for a commitment.  Honest attestors   *)
(* sign the datasets of the finalizer only; faulty ones sign anything.     *)
(* Time is what is left of the pending commitment's delay.                 *)
(***************************************************************************)
EXTENDS Integers, FiniteSets, Functions

CONSTANTS
    Markets, Accounts, RewardAssets,
    RewardAsset,        \* [Markets -> RewardAssets]: markets may share one
    Honest, Faulty,     \* candidates for the attestor set
    Attested,           \* the finalizer's commitments, signed by the honest
    Forged,             \* commitments only faulty attestors sign
    ActivationDelay,    \* ACTIVATION_DELAY, in ticks of the model's clock
    FundAmounts,        \* contributions a market may make
    MaxFunded,          \* bound on a market's contributions
    MaxBrakes           \* bound on the guardian's interventions

SumOf(f) == FoldFunction(LAMBDA x, y : x + y, 0, f)

Commitment == [market : Markets, epoch : Nat \ {0}, total : Nat,
               leaf : [Accounts -> Nat]]

(* The finalizer's side of the bargain (its epochs are day numbers, so     *)
(* never 0, the zeroed struct's): one dataset per market and epoch, no     *)
(* account's cumulative amount ever goes down, and the total is what the   *)
(* leaves add up to.  There are finitely many addresses to add up.         *)
ASSUME VaultAssumption ==
    /\ IsFiniteSet(Markets) /\ IsFiniteSet(Accounts)
    /\ RewardAsset \in [Markets -> RewardAssets]
    /\ Honest \cap Faulty = {} /\ IsFiniteSet(Honest \cup Faulty)
    /\ Attested \subseteq Commitment /\ Forged \subseteq Commitment
    /\ Attested \cap Forged = {}
    /\ \A c \in Attested : c.total = SumOf(c.leaf)
    /\ \A c, d \in Attested :
          c.market = d.market /\ c.epoch <= d.epoch =>
             /\ c.epoch = d.epoch => c = d
             /\ c.total <= d.total
             /\ \A a \in Accounts : c.leaf[a] <= d.leaf[a]
    /\ ActivationDelay \in Nat /\ FundAmounts \subseteq Nat
    /\ MaxFunded \in Nat /\ MaxBrakes \in Nat

VARIABLES
    funded, claimed,    \* [Markets -> Nat]
    claimedBy,          \* [Markets -> [Accounts -> Nat]]
    active, pending,    \* [Markets -> Distribution or None]
    claimsPaused,
    attestors, quorum,
    held,               \* the vault's balances, [RewardAssets -> Nat]
    brakes,             \* guardian interventions so far
    cancelled           \* commitments the guardian ever discarded

books   == <<funded, claimed, claimedBy, held>>
roster  == <<attestors, quorum>>
history == <<brakes, cancelled>>
vars == <<books, active, pending, claimsPaused, roster, history>>

(* An empty slot is the zeroed struct; wait is activeAt minus now.         *)
None == [commitment |-> "none", epoch |-> 0, total |-> 0,
         leaf |-> [a \in Accounts |-> 0], wait |-> 0]

Distribution(c) == [commitment |-> c, epoch |-> c.epoch, total |-> c.total,
                    leaf |-> c.leaf, wait |-> ActivationDelay]

Init ==
    /\ funded = [m \in Markets |-> 0] /\ claimed = [m \in Markets |-> 0]
    /\ claimedBy = [m \in Markets |-> [a \in Accounts |-> 0]]
    /\ active = [m \in Markets |-> None] /\ pending = [m \in Markets |-> None]
    /\ claimsPaused = FALSE
    /\ attestors = {} /\ quorum = 0
    /\ held = [x \in RewardAssets |-> 0]
    /\ brakes = 0 /\ cancelled = {}

-----------------------------------------------------------------------------
(* The market transfers first, then calls fund.                            *)
Fund(m, amount) ==
    /\ funded[m] + amount <= MaxFunded
    /\ funded' = [funded EXCEPT ![m] = @ + amount]
    /\ held' = [held EXCEPT ![RewardAsset[m]] = @ + amount]
    /\ UNCHANGED <<claimed, claimedBy, active, pending, claimsPaused,
                   roster, history>>

(* Historic slip: only the active one counted.                             *)
HighestEpochActiveOnly(m) == active[m].epoch

(* submitCommitment measures progress against the furthest of the active   *)
(* and the pending distribution.                                           *)
HighestEpoch(m) == IF pending[m].epoch > active[m].epoch
                     THEN pending[m].epoch ELSE active[m].epoch
HighestTotal(m) == IF pending[m].total > active[m].total
                     THEN pending[m].total ELSE active[m].total

Signers(c) == IF c \in Attested THEN Honest \cup Faulty ELSE Faulty

(* Slip: against the vault's balance, which other markets share.           *)
WithinVaultBalance(c) == c.total <= held[RewardAsset[c.market]]

(* The conservation check: against what this market funded.                *)
WithinFunding(c) == c.total <= funded[c.market]

(* Slips: unregistered signers count; one registered signer is enough.     *)
AnyQuorum(c, signers) ==
    quorum # 0 /\ Cardinality(signers) >= quorum /\ signers \subseteq Signers(c)
AnyRegistered(c, signers) ==
    quorum # 0 /\ signers # {} /\ signers \subseteq attestors \cap Signers(c)

(* _verifyQuorum: distinct registered signers, at least a quorum of them.  *)
QuorumVouches(c, signers) ==
    /\ quorum # 0
    /\ Cardinality(signers) >= quorum
    /\ signers \subseteq attestors
    /\ signers \subseteq Signers(c)

SubmitCommitment(c, signers) ==
    LET m == c.market
    IN  /\ active[m] # None \/ pending[m] # None => c.epoch > HighestEpoch(m)
        /\ c.total >= HighestTotal(m)
        /\ WithinFunding(c)
        /\ QuorumVouches(c, signers)
        /\ pending' = [pending EXCEPT ![m] = Distribution(c)]
        /\ UNCHANGED <<books, active, claimsPaused, roster, history>>

(* Slip: the pending slot is not cleared.                                  *)
ActivateKeepingPending(m) ==
    /\ ~ claimsPaused /\ pending[m] # None /\ pending[m].wait = 0
    /\ active' = [active EXCEPT ![m] = pending[m]]
    /\ UNCHANGED <<books, pending, claimsPaused, roster, history>>

Activate(m) ==
    /\ ~ claimsPaused
    /\ pending[m] # None
    /\ pending[m].wait = 0
    /\ active' = [active EXCEPT ![m] = pending[m]]
    /\ pending' = [pending EXCEPT ![m] = None]
    /\ UNCHANGED <<books, claimsPaused, roster, history>>

(* Slip: the cumulative amount paid again at every claim.                  *)
WholeLeaf(m, a) == active[m].leaf[a]

(* A claim pays the cumulative amount less what was claimed before.        *)
Payout(m, a) == active[m].leaf[a] - claimedBy[m][a]

(* Anybody may claim for anybody, with the account's proof.                *)
Claim(m, a) ==
    /\ ~ claimsPaused
    /\ active[m] # None
    /\ Payout(m, a) > 0
    /\ claimedBy' = [claimedBy EXCEPT ![m][a] = active[m].leaf[a]]
    /\ claimed' = [claimed EXCEPT ![m] = @ + Payout(m, a)]
    /\ held' = [held EXCEPT ![RewardAsset[m]] = @ - Payout(m, a)]
    /\ UNCHANGED <<funded, active, pending, claimsPaused, roster, history>>

-----------------------------------------------------------------------------
(* Guardian and governance *)

PauseClaims ==
    /\ brakes < MaxBrakes /\ brakes' = brakes + 1
    /\ claimsPaused' = TRUE
    /\ UNCHANGED <<books, active, pending, roster, cancelled>>

CancelPendingCommitment(m) ==
    /\ brakes < MaxBrakes /\ brakes' = brakes + 1
    /\ pending[m] # None
    /\ pending' = [pending EXCEPT ![m] = None]
    /\ cancelled' = cancelled \cup {pending[m].commitment}
    /\ UNCHANGED <<books, active, claimsPaused, roster>>

UnpauseClaims ==
    /\ claimsPaused
    /\ claimsPaused' = FALSE
    /\ UNCHANGED <<books, active, pending, roster, history>>

(* What governance is trusted with: the faulty attestors it has registered *)
(* never reach the quorum by themselves.                                   *)
Trusted(roll, q) == q = 0 \/ Cardinality(roll \cap Faulty) < q

AddAttestor(x) ==
    /\ x \notin attestors
    /\ attestors' = attestors \cup {x}
    /\ Trusted(attestors', quorum)
    /\ UNCHANGED <<books, active, pending, claimsPaused, quorum, history>>

(* Slip: checked before the removal.                                       *)
RemovableBeforePop(x) == quorum <= Cardinality(attestors)

(* QuorumTooHigh is checked on the roll the removal leaves.                *)
Removable(x) == quorum <= Cardinality(attestors \ {x})

RemoveAttestor(x) ==
    /\ x \in attestors
    /\ Removable(x)
    /\ attestors' = attestors \ {x}
    /\ UNCHANGED <<books, active, pending, claimsPaused, quorum, history>>

SetQuorum(q) ==
    /\ q # 0
    /\ q <= Cardinality(attestors)                \* QuorumTooHigh
    /\ q # quorum
    /\ Trusted(attestors, q)
    /\ quorum' = q
    /\ UNCHANGED <<books, active, pending, claimsPaused, attestors, history>>

(* One tick of the clock, while some delay is running.                     *)
Tick ==
    /\ \E m \in Markets : pending[m].wait > 0
    /\ pending' = [m \in Markets |->
                     [pending[m] EXCEPT !.wait = IF @ > 0 THEN @ - 1 ELSE 0]]
    /\ UNCHANGED <<books, active, claimsPaused, roster, history>>

-----------------------------------------------------------------------------
Next ==
    \/ \E m \in Markets, amount \in FundAmounts : Fund(m, amount)
    \/ \E c \in Attested \cup Forged, signers \in SUBSET (Honest \cup Faulty) :
          SubmitCommitment(c, signers)
    \/ \E m \in Markets : Activate(m)
    \/ \E m \in Markets, a \in Accounts : Claim(m, a)
    \/ PauseClaims
    \/ \E m \in Markets : CancelPendingCommitment(m)
    \/ UnpauseClaims
    \/ \E x \in Honest \cup Faulty : AddAttestor(x)
    \/ \E x \in Honest \cup Faulty : RemoveAttestor(x)
    \/ \E q \in 1 .. Cardinality(Honest \cup Faulty) : SetQuorum(q)
    \/ Tick

Spec == Init /\ [][Next]_vars

(* Time passes, and somebody activates what is due: activate is            *)
(* permissionless and the holders a root pays gain by it.  No service of   *)
(* the repository calls it.  Nobody has to unpause.                        *)
FairSpec ==
    /\ Spec
    /\ WF_vars(Tick)
    /\ \A m \in Markets : WF_vars(Activate(m))

-----------------------------------------------------------------------------
(* Properties *)

Slot == [commitment : Commitment, epoch : Nat \ {0}, total : Nat,
         leaf : [Accounts -> Nat], wait : 0 .. ActivationDelay] \cup {None}

(* Every amount is a natural number: the vault never pays out more of an   *)
(* asset than it holds, whichever markets share the asset.                 *)
TypeOK ==
    /\ funded \in [Markets -> Nat] /\ claimed \in [Markets -> Nat]
    /\ claimedBy \in [Markets -> [Accounts -> Nat]]
    /\ active \in [Markets -> Slot] /\ pending \in [Markets -> Slot]
    /\ claimsPaused \in BOOLEAN
    /\ attestors \subseteq Honest \cup Faulty /\ quorum \in Nat
    /\ held \in [RewardAssets -> Nat]
    /\ brakes \in Nat /\ cancelled \subseteq Commitment

(* Every root that was ever accepted is one an honest attestor signed.     *)
OnlyAttestedRoots ==
    \A m \in Markets : \A d \in {active[m], pending[m]} :
        d # None => d.commitment \in Attested /\ d.commitment.market = m

(* No account was ever paid more than the active root grants it, however   *)
(* many roots it claimed against and however often.                        *)
NobodyPaidBeyondTheirLeaf ==
    \A m \in Markets, a \in Accounts : claimedBy[m][a] <= active[m].leaf[a]

(* What a market's holders were paid in all stays within what THAT market  *)
(* funded, and the next root will not break it: no market's rewards are    *)
(* paid with another's, although they share the asset.                     *)
ClaimsWithinFunding ==
    \A m \in Markets :
        /\ claimed[m] = SumOf(claimedBy[m])
        /\ claimed[m] <= active[m].total
        /\ active[m].total <= funded[m] /\ pending[m].total <= funded[m]

(* A root is only ever replaced by a later one of the same market, and one *)
(* in its delay is always ahead of the active one: nothing submitted,      *)
(* overwritten or cancelled in between rolls entitlements back.            *)
RootsOnlyAdvance ==
    [][\A m \in Markets :
          /\ active'[m] # active[m] => active'[m].epoch > active[m].epoch
          /\ pending'[m] # None =>
                /\ pending'[m].epoch > active'[m].epoch
                /\ pending[m] # None => pending'[m].epoch >= pending[m].epoch
      ]_vars

(* No sequence of additions, removals and quorum changes leaves a quorum   *)
(* the registered attestors cannot reach, which would strand every funded  *)
(* reward.                                                                 *)
QuorumReachable == quorum <= Cardinality(attestors)

(* Unless claims stay paused forever, a submitted distribution does not    *)
(* wait forever, however often its slot is overwritten.                    *)
PendingResolves ==
    <>[](~ claimsPaused) =>
        \A m \in Markets : pending[m] # None ~> pending[m] = None

(* A commitment the guardian discarded in its delay does not go live.      *)
DiscardedStaysDiscarded ==
    \A m \in Markets : active[m] # None => active[m].commitment \notin cancelled
=============================================================================
