---------------------- MODULE HolderRewardVaultProofs -----------------------
(***************************************************************************)
(* The reward vault for any markets, accounts, attestors, delay and        *)
(* datasets: the quorum stays reachable and out of the faulty attestors'   *)
(* hands, hence only honest datasets become roots, hence roots only move   *)
(* forward, hence nobody is paid beyond the active one, and hence, summed  *)
(* over accounts and over the markets that share an asset, the vault always*)
(* holds what it has left to pay.                                          *)
(***************************************************************************)
EXTENDS HolderRewardVault, FiniteSetTheorems, TLAPS

Plus(x, y) == x + y
Add == INSTANCE FoldProofs WITH Op <- Plus

(* The roll: a quorum that can be reached, but not by the faulty alone.    *)
RollInv ==
    /\ attestors \subseteq Honest \cup Faulty /\ quorum \in Nat
    /\ QuorumReachable
    /\ Trusted(attestors, quorum)

(* A slot holds what an honest dataset of its market says.                 *)
Stems(d, m) ==
    \E c \in Attested :
        /\ c.market = m
        /\ d.commitment = c /\ d.epoch = c.epoch
        /\ d.total = c.total /\ d.leaf = c.leaf

SlotInv ==
    /\ active \in [Markets -> Slot] /\ pending \in [Markets -> Slot]
    /\ \A m \in Markets :
          /\ active[m] # None => Stems(active[m], m)
          /\ pending[m] # None => Stems(pending[m], m)
          /\ pending[m] # None => active[m].epoch < pending[m].epoch

(* Every root, active or waiting, is covered by what its market funded.    *)
RootsWithinFunding ==
    \A m \in Markets :
        active[m].total <= funded[m] /\ pending[m].total <= funded[m]

VInv ==
    /\ RollInv
    /\ SlotInv
    /\ claimedBy \in [Markets -> [Accounts -> Nat]]
    /\ funded \in [Markets -> Nat]
    /\ NobodyPaidBeyondTheirLeaf
    /\ RootsWithinFunding

-----------------------------------------------------------------------------
(* The roll *)

(* Any part of the candidates is finite.                                   *)
LEMMA CandidatesAreFinite ==
    ASSUME NEW S, S \subseteq Honest \cup Faulty
    PROVE  IsFiniteSet(S) /\ Cardinality(S) \in Nat
  BY VaultAssumption, FS_Subset, FS_CardinalityType

(* One attestor leaving takes at most one from the count.                  *)
LEMMA SmallerPart ==
    ASSUME NEW S, NEW T, S \subseteq T, T \subseteq Honest \cup Faulty
    PROVE  Cardinality(S) <= Cardinality(T)
  BY CandidatesAreFinite, FS_Subset

(* addAttestor: the roll grows, and governance keeps the faulty below the  *)
(* quorum.                                                                 *)
LEMMA AddAttestorKeepsRoll ==
    ASSUME RollInv, NEW x \in Honest \cup Faulty, AddAttestor(x)
    PROVE  RollInv'
  <1>1. /\ attestors' \subseteq Honest \cup Faulty /\ quorum' = quorum
        /\ attestors \subseteq attestors' /\ Trusted(attestors', quorum')
    BY DEF AddAttestor, RollInv
  <1>2. Cardinality(attestors) <= Cardinality(attestors')
    BY <1>1, SmallerPart
  <1>3. Cardinality(attestors) \in Nat /\ Cardinality(attestors') \in Nat
    BY <1>1, CandidatesAreFinite DEF RollInv
  <1> QED  BY <1>1, <1>2, <1>3 DEF RollInv, QuorumReachable, Trusted

(* removeAttestor: the check is on the roll that remains.                  *)
LEMMA RemoveAttestorKeepsRoll ==
    ASSUME RollInv, NEW x \in Honest \cup Faulty, RemoveAttestor(x)
    PROVE  RollInv'
  <1>1. /\ attestors' = attestors \ {x} /\ quorum' = quorum
        /\ attestors' \subseteq Honest \cup Faulty
        /\ quorum <= Cardinality(attestors')
    BY DEF RemoveAttestor, Removable, RollInv
  <1>2. /\ Cardinality(attestors' \cap Faulty) <= Cardinality(attestors \cap Faulty)
        /\ Cardinality(attestors' \cap Faulty) \in Nat
        /\ Cardinality(attestors \cap Faulty) \in Nat
    <2>1. /\ attestors' \cap Faulty \subseteq attestors \cap Faulty
          /\ attestors \cap Faulty \subseteq Honest \cup Faulty
      BY <1>1
    <2> QED  BY <2>1, SmallerPart, CandidatesAreFinite
  <1> QED  BY <1>1, <1>2 DEF RollInv, QuorumReachable, Trusted

(* setQuorum: within the roll, and beyond the faulty.                      *)
LEMMA SetQuorumKeepsRoll ==
    ASSUME RollInv, NEW q \in Nat, SetQuorum(q)
    PROVE  RollInv'
  BY DEF SetQuorum, RollInv, QuorumReachable, Trusted

(* A quorum of registered signers contains an honest one, who signs        *)
(* nothing but the finalizer's datasets.                                   *)
LEMMA QuorumMeansAttested ==
    ASSUME RollInv, NEW c, NEW signers \in SUBSET (Honest \cup Faulty),
           QuorumVouches(c, signers)
    PROVE  c \in Attested
  <1> SUFFICES ASSUME c \notin Attested PROVE FALSE
    OBVIOUS
  <1>1. /\ signers \subseteq attestors \cap Faulty
        /\ attestors \cap Faulty \subseteq Honest \cup Faulty
    BY DEF QuorumVouches, Signers
  <1>2. Cardinality(signers) <= Cardinality(attestors \cap Faulty)
    BY <1>1, SmallerPart
  <1>3. /\ Cardinality(signers) \in Nat
        /\ Cardinality(attestors \cap Faulty) \in Nat
    BY <1>1, CandidatesAreFinite
  <1> QED  BY <1>2, <1>3 DEF RollInv, Trusted, QuorumVouches

-----------------------------------------------------------------------------
(* Slots and claims *)

(* Nothing has happened yet.                                               *)
LEMMA InitVInv == Init => VInv
  <1> SUFFICES ASSUME Init PROVE VInv
    OBVIOUS
  <1> USE DEF Init
  <1>1. RollInv
    BY FS_EmptySet DEF RollInv, QuorumReachable, Trusted
  <1>2. SlotInv
    BY DEF SlotInv, Slot
  <1>3. NobodyPaidBeyondTheirLeaf /\ RootsWithinFunding
    BY DEF NobodyPaidBeyondTheirLeaf, RootsWithinFunding, None
  <1> QED  BY <1>1, <1>2, <1>3 DEF VInv

(* fund only raises what a market may commit to.                           *)
LEMMA FundKeepsVInv ==
    ASSUME VInv, NEW m \in Markets, NEW amount \in FundAmounts, Fund(m, amount)
    PROVE  VInv'
  <1> USE VaultAssumption DEF VInv
  <1>1. /\ funded' = [funded EXCEPT ![m] = @ + amount]
        /\ UNCHANGED <<claimedBy, active, pending, attestors, quorum>>
    BY DEF Fund, roster
  <1>2. RollInv' /\ SlotInv' /\ NobodyPaidBeyondTheirLeaf'
    BY <1>1 DEF RollInv, QuorumReachable, Trusted, SlotInv,
                NobodyPaidBeyondTheirLeaf
  <1>3. funded' \in [Markets -> Nat] /\ \A n \in Markets : funded[n] <= funded'[n]
    BY <1>1
  <1>4. \A n \in Markets : active[n].total \in Nat /\ pending[n].total \in Nat
    BY DEF SlotInv, Slot, None
  <1>5. RootsWithinFunding'
    BY <1>1, <1>3, <1>4 DEF RootsWithinFunding
  <1> QED  BY <1>1, <1>2, <1>3, <1>5

(* submitCommitment: the quorum makes it an honest dataset, the epoch      *)
(* check puts it ahead of the active one, the conservation check covers it.*)
LEMMA SubmitKeepsVInv ==
    ASSUME VInv, NEW c \in Attested \cup Forged,
           NEW signers \in SUBSET (Honest \cup Faulty),
           SubmitCommitment(c, signers)
    PROVE  VInv'
  <1> USE VaultAssumption DEF VInv
  <1> DEFINE m == c.market
  <1>1. /\ c \in Commitment /\ m \in Markets /\ c.epoch \in Nat \ {0}
        /\ c.total \in Nat /\ c.leaf \in [Accounts -> Nat]
    BY DEF Commitment
  <1>2. c \in Attested
    BY QuorumMeansAttested DEF SubmitCommitment
  <1>3. /\ pending' = [pending EXCEPT ![m] = Distribution(c)]
        /\ c.total <= funded[m]
        /\ UNCHANGED <<funded, claimedBy, active, attestors, quorum>>
    BY DEF SubmitCommitment, WithinFunding, books, roster
  <1>4. active[m].epoch < c.epoch
    <2>1. active[m].epoch \in Nat /\ pending[m].epoch \in Nat
      BY <1>1 DEF SlotInv, Slot, None
    <2>2. CASE active[m] = None
      BY <1>1, <2>2 DEF None
    <2>3. CASE active[m] # None
      BY <1>1, <2>1, <2>3 DEF SubmitCommitment, HighestEpoch
    <2> QED  BY <2>2, <2>3
  <1>5. /\ Distribution(c) \in Slot
        /\ Distribution(c).epoch = c.epoch /\ Distribution(c).total = c.total
        /\ Stems(Distribution(c), m)
    BY <1>1, <1>2 DEF Distribution, Slot, Stems
  <1> HIDE DEF m
  <1>6. SlotInv'
    BY <1>1, <1>3, <1>4, <1>5 DEF SlotInv
  <1>7. RootsWithinFunding'
    BY <1>1, <1>3, <1>5 DEF RootsWithinFunding, SlotInv
  <1>8. RollInv' /\ NobodyPaidBeyondTheirLeaf'
    BY <1>3 DEF RollInv, QuorumReachable, Trusted, NobodyPaidBeyondTheirLeaf
  <1> QED  BY <1>3, <1>6, <1>7, <1>8

(* No account's amount goes down from a root to a later one of its market. *)
LEMMA LaterLeafIsLarger ==
    ASSUME VInv, NEW m \in Markets, NEW a \in Accounts, pending[m] # None
    PROVE  /\ active[m].leaf[a] \in Nat /\ pending[m].leaf[a] \in Nat
           /\ active[m].leaf[a] <= pending[m].leaf[a]
  <1> USE DEF VInv
  <1>1. /\ active[m].leaf[a] \in Nat /\ pending[m].leaf[a] \in Nat
        /\ active[m].epoch \in Nat /\ pending[m].epoch \in Nat
    BY DEF SlotInv, Slot, None
  <1>2. CASE active[m] = None
    BY <1>1, <1>2 DEF None
  <1>3. CASE active[m] # None
    <2>1. PICK c \in Attested : /\ c.market = m /\ active[m].epoch = c.epoch
                                /\ active[m].leaf = c.leaf
      BY <1>3 DEF SlotInv, Stems
    <2>2. PICK d \in Attested : /\ d.market = m /\ pending[m].epoch = d.epoch
                                /\ pending[m].leaf = d.leaf
      BY DEF SlotInv, Stems
    <2>3. c.market = d.market /\ c.epoch <= d.epoch
      BY <1>1, <2>1, <2>2 DEF SlotInv
    <2> QED  BY <1>1, <2>1, <2>2, <2>3, VaultAssumption
  <1> QED  BY <1>1, <1>2, <1>3

(* activate: the pending root, which pays everyone at least as much.       *)
LEMMA ActivateKeepsVInv ==
    ASSUME VInv, NEW m \in Markets, Activate(m)
    PROVE  VInv'
  <1> USE DEF VInv
  <1>1. /\ pending[m] # None
        /\ active' = [active EXCEPT ![m] = pending[m]]
        /\ pending' = [pending EXCEPT ![m] = None]
        /\ UNCHANGED <<funded, claimedBy, attestors, quorum>>
    BY DEF Activate, books, roster
  <1>2. SlotInv'
    BY <1>1 DEF SlotInv, Slot
  <1>3. NobodyPaidBeyondTheirLeaf'
    <2> SUFFICES ASSUME NEW n \in Markets, NEW a \in Accounts
                 PROVE  claimedBy[n][a] <= active'[n].leaf[a]
      BY <1>1 DEF NobodyPaidBeyondTheirLeaf
    <2>1. claimedBy[n][a] \in Nat /\ claimedBy[n][a] <= active[n].leaf[a]
      BY DEF NobodyPaidBeyondTheirLeaf
    <2>2. CASE n = m
      BY <1>1, <2>1, <2>2, LaterLeafIsLarger DEF SlotInv
    <2>3. CASE n # m
      BY <1>1, <2>1, <2>3 DEF SlotInv
    <2> QED  BY <2>2, <2>3
  <1>4. RootsWithinFunding'
    BY <1>1 DEF RootsWithinFunding, SlotInv, None
  <1>5. RollInv'
    BY <1>1 DEF RollInv, QuorumReachable, Trusted
  <1> QED  BY <1>1, <1>2, <1>3, <1>4, <1>5

(* claim brings an account up to its leaf of the active root, no further.  *)
LEMMA ClaimKeepsVInv ==
    ASSUME VInv, NEW m \in Markets, NEW a \in Accounts, Claim(m, a)
    PROVE  VInv'
  <1> USE DEF VInv
  <1>1. /\ claimedBy' = [claimedBy EXCEPT ![m][a] = active[m].leaf[a]]
        /\ UNCHANGED <<funded, active, pending, attestors, quorum>>
    BY DEF Claim, roster
  <1>2. active[m].leaf \in [Accounts -> Nat]
    BY DEF SlotInv, Slot, None
  <1>3. claimedBy' \in [Markets -> [Accounts -> Nat]]
    BY <1>1, <1>2
  <1>4. NobodyPaidBeyondTheirLeaf'
    BY <1>1, <1>2 DEF NobodyPaidBeyondTheirLeaf
  <1>5. RollInv' /\ SlotInv' /\ RootsWithinFunding'
    BY <1>1 DEF RollInv, QuorumReachable, Trusted, SlotInv, RootsWithinFunding
  <1> QED  BY <1>1, <1>3, <1>4, <1>5

(* cancelPendingCommitment empties the slot.                               *)
LEMMA CancelKeepsVInv ==
    ASSUME VInv, NEW m \in Markets, CancelPendingCommitment(m)
    PROVE  VInv'
  <1> USE DEF VInv
  <1>1. /\ pending' = [pending EXCEPT ![m] = None]
        /\ UNCHANGED <<funded, claimedBy, active, attestors, quorum>>
    BY DEF CancelPendingCommitment, books, roster
  <1>2. SlotInv'
    BY <1>1 DEF SlotInv, Slot
  <1>3. RootsWithinFunding'
    BY <1>1 DEF RootsWithinFunding, SlotInv, None
  <1>4. RollInv' /\ NobodyPaidBeyondTheirLeaf'
    BY <1>1 DEF RollInv, QuorumReachable, Trusted, NobodyPaidBeyondTheirLeaf
  <1> QED  BY <1>1, <1>2, <1>3, <1>4

(* Time touches nothing but the delay, and an empty slot stays empty.      *)
LEMMA TickMovesOnlyTime ==
    ASSUME VInv, Tick, NEW m \in Markets
    PROVE  /\ pending'[m] \in Slot
           /\ pending'[m] # None <=> pending[m] # None
           /\ pending'[m].commitment = pending[m].commitment
           /\ pending'[m].epoch = pending[m].epoch
           /\ pending'[m].total = pending[m].total
           /\ pending'[m].leaf = pending[m].leaf
  <1> DEFINE d == pending[m]
             w == IF d.wait > 0 THEN d.wait - 1 ELSE 0
  <1>1. pending'[m] = [d EXCEPT !.wait = w]
    BY DEF Tick
  <1>2. d \in Slot
    BY DEF VInv, SlotInv
  <1> HIDE DEF d
  <1>3. CASE d = None
    <2>1. w = 0
      BY <1>3 DEF None
    <2> QED  BY <1>1, <1>2, <1>3, <2>1 DEF None, d
  <1>4. CASE d # None
    <2>1. /\ d \in [commitment : Commitment, epoch : Nat \ {0}, total : Nat,
                    leaf : [Accounts -> Nat], wait : 0 .. ActivationDelay]
      BY <1>2, <1>4 DEF Slot
    <2>2. w \in 0 .. ActivationDelay
      BY <2>1, VaultAssumption
    <2>3. pending'[m] \in Slot /\ pending'[m].epoch # 0
      BY <1>1, <2>1, <2>2 DEF Slot
    <2>4. pending'[m] # None
      BY <2>3 DEF None
    <2> QED  BY <1>1, <1>4, <2>1, <2>3, <2>4 DEF d
  <1> QED  BY <1>3, <1>4

(* The passage of time keeps the invariant.                                *)
LEMMA TickKeepsVInv ==
    ASSUME VInv, Tick
    PROVE  VInv'
  <1> USE DEF VInv
  <1>1. UNCHANGED <<funded, claimedBy, active, attestors, quorum>>
    BY DEF Tick, books, roster
  <1>2. pending' \in [Markets -> Slot]
    <2>1. pending' = [n \in Markets |-> pending'[n]]
      BY DEF Tick
    <2> QED  BY <2>1, TickMovesOnlyTime
  <1>3. SlotInv'
    BY <1>1, <1>2, TickMovesOnlyTime DEF SlotInv, Stems
  <1>4. RootsWithinFunding'
    BY <1>1, TickMovesOnlyTime DEF RootsWithinFunding
  <1>5. RollInv' /\ NobodyPaidBeyondTheirLeaf'
    BY <1>1 DEF RollInv, QuorumReachable, Trusted, NobodyPaidBeyondTheirLeaf
  <1> QED  BY <1>1, <1>3, <1>4, <1>5

(* Steps that move neither slots nor claims nor funding.                   *)
LEMMA RollStepKeepsVInv ==
    ASSUME VInv, RollInv', UNCHANGED <<funded, claimedBy, active, pending>>
    PROVE  VInv'
  BY DEF VInv, SlotInv, NobodyPaidBeyondTheirLeaf, RootsWithinFunding

-----------------------------------------------------------------------------
(* The theorems *)

(* No step of the vault leaves the invariant.                              *)
LEMMA NextKeepsVInv == VInv /\ [Next]_vars => VInv'
  <1> SUFFICES ASSUME VInv, [Next]_vars PROVE VInv'
    OBVIOUS
  <1> USE DEF books, roster
  <1>1. CASE \E m \in Markets, amount \in FundAmounts : Fund(m, amount)
    BY <1>1, FundKeepsVInv
  <1>2. CASE \E c \in Attested \cup Forged, signers \in SUBSET (Honest \cup Faulty) :
                SubmitCommitment(c, signers)
    BY <1>2, SubmitKeepsVInv
  <1>3. CASE \E m \in Markets : Activate(m)
    BY <1>3, ActivateKeepsVInv
  <1>4. CASE \E m \in Markets, a \in Accounts : Claim(m, a)
    BY <1>4, ClaimKeepsVInv
  <1>5. CASE PauseClaims \/ UnpauseClaims
    BY <1>5, RollStepKeepsVInv
       DEF PauseClaims, UnpauseClaims, VInv, RollInv, QuorumReachable, Trusted
  <1>6. CASE \E m \in Markets : CancelPendingCommitment(m)
    BY <1>6, CancelKeepsVInv
  <1>7. CASE \E x \in Honest \cup Faulty : AddAttestor(x)
    BY <1>7, AddAttestorKeepsRoll, RollStepKeepsVInv DEF VInv, AddAttestor
  <1>8. CASE \E x \in Honest \cup Faulty : RemoveAttestor(x)
    BY <1>8, RemoveAttestorKeepsRoll, RollStepKeepsVInv DEF VInv, RemoveAttestor
  <1>9. CASE \E q \in 1 .. Cardinality(Honest \cup Faulty) : SetQuorum(q)
    <2>1. PICK q \in 1 .. Cardinality(Honest \cup Faulty) : SetQuorum(q)
      BY <1>9
    <2>2. q \in Nat
      BY CandidatesAreFinite
    <2> QED  BY <2>1, <2>2, SetQuorumKeepsRoll, RollStepKeepsVInv
             DEF VInv, SetQuorum
  <1>10. CASE Tick
    BY <1>10, TickKeepsVInv
  <1>11. CASE UNCHANGED vars
    BY <1>11, RollStepKeepsVInv
       DEF vars, VInv, RollInv, QuorumReachable, Trusted
  <1> QED
    BY <1>1, <1>2, <1>3, <1>4, <1>5, <1>6, <1>7, <1>8, <1>9, <1>10, <1>11
       DEF Next

(* The inductive invariant holds throughout.                               *)
THEOREM RewardVaultIsSafe == Spec => []VInv
  BY InitVInv, NextKeepsVInv, PTL DEF Spec

(* No sequence of roll and quorum changes makes the quorum unreachable.    *)
THEOREM QuorumStaysReachable == Spec => []QuorumReachable
  <1>1. VInv => QuorumReachable
    BY DEF VInv, RollInv
  <1> QED  BY <1>1, RewardVaultIsSafe, PTL

(* As long as governance keeps the faulty attestors below the quorum, every*)
(* accepted root is one an honest attestor signed, for its own market.     *)
THEOREM AcceptedRootsAreAttested == Spec => []OnlyAttestedRoots
  <1>1. VInv => OnlyAttestedRoots
    BY DEF VInv, SlotInv, Stems, OnlyAttestedRoots
  <1> QED  BY <1>1, RewardVaultIsSafe, PTL

(* No account is paid beyond its leaf of the active root, over any number  *)
(* of roots and claims.                                                    *)
THEOREM ClaimsStayWithinLeaves == Spec => []NobodyPaidBeyondTheirLeaf
  <1>1. VInv => NobodyPaidBeyondTheirLeaf
    BY DEF VInv
  <1> QED  BY <1>1, RewardVaultIsSafe, PTL

(* Roots advance: whatever is submitted, overwritten or cancelled.         *)
LEMMA StepAdvancesRoots ==
    ASSUME VInv, VInv', [Next]_vars
    PROVE  \A m \in Markets :
              /\ active'[m] # active[m] => active'[m].epoch > active[m].epoch
              /\ pending'[m] # None =>
                    /\ pending'[m].epoch > active'[m].epoch
                    /\ pending[m] # None => pending'[m].epoch >= pending[m].epoch
  <1> SUFFICES ASSUME NEW m \in Markets
               PROVE  /\ active'[m] # active[m] =>
                            active'[m].epoch > active[m].epoch
                      /\ pending'[m] # None /\ pending[m] # None =>
                            pending'[m].epoch >= pending[m].epoch
    BY DEF VInv, SlotInv
  <1> USE DEF books, roster
  <1>1. /\ active[m].epoch \in Nat /\ pending[m].epoch \in Nat
        /\ pending[m] # None => active[m].epoch < pending[m].epoch
        /\ active \in [Markets -> Slot] /\ pending \in [Markets -> Slot]
    BY DEF VInv, SlotInv, Slot, None
  <1>2. CASE \E c \in Attested \cup Forged, signers \in SUBSET (Honest \cup Faulty) :
                SubmitCommitment(c, signers)
    <2>1. PICK c \in Attested \cup Forged : \E signers \in SUBSET (Honest \cup Faulty) :
                SubmitCommitment(c, signers)
      BY <1>2
    <2>2. c.epoch \in Nat /\ Distribution(c).epoch = c.epoch
      BY VaultAssumption DEF Commitment, Distribution
    <2>3. /\ UNCHANGED active
          /\ pending' = [pending EXCEPT ![c.market] = Distribution(c)]
      BY <2>1 DEF SubmitCommitment
    <2>4. CASE c.market = m
      <3>1. pending[m] # None => c.epoch > HighestEpoch(m)
        BY <2>1, <2>4 DEF SubmitCommitment
      <3> QED  BY <1>1, <2>2, <2>3, <2>4, <3>1 DEF HighestEpoch
    <2>5. CASE c.market # m
      BY <1>1, <2>3, <2>5
    <2> QED  BY <2>4, <2>5
  <1>3. CASE \E n \in Markets : Activate(n)
    BY <1>1, <1>3 DEF Activate
  <1>4. CASE \E n \in Markets : CancelPendingCommitment(n)
    BY <1>1, <1>4 DEF CancelPendingCommitment
  <1>5. CASE Tick
    BY <1>1, <1>5, TickMovesOnlyTime DEF Tick
  <1>6. CASE UNCHANGED <<active, pending>>
    BY <1>1, <1>6
  <1>7. [Next]_vars /\ ~ (\E n \in Markets : Activate(n))
          /\ ~ (\E n \in Markets : CancelPendingCommitment(n)) /\ ~ Tick
          /\ ~ (\E c \in Attested \cup Forged, signers \in SUBSET (Honest \cup Faulty) :
                   SubmitCommitment(c, signers))
          => UNCHANGED <<active, pending>>
    BY DEF Next, vars, Fund, Claim, PauseClaims, UnpauseClaims, AddAttestor,
           RemoveAttestor, SetQuorum
  <1> QED  BY <1>2, <1>3, <1>4, <1>5, <1>6, <1>7

(* A root is only ever replaced by a later one, and a pending root is      *)
(* always ahead of the active one.                                         *)
THEOREM RootsAdvance == Spec => RootsOnlyAdvance
  <1>1. VInv /\ VInv' /\ [Next]_vars =>
          [\A m \in Markets :
              /\ active'[m] # active[m] => active'[m].epoch > active[m].epoch
              /\ pending'[m] # None =>
                    /\ pending'[m].epoch > active'[m].epoch
                    /\ pending[m] # None => pending'[m].epoch >= pending[m].epoch
          ]_vars
    BY StepAdvancesRoots
  <1> QED  BY <1>1, RewardVaultIsSafe, PTL DEF Spec, RootsOnlyAdvance

(* Every root a holder can claim against is covered by its own market's    *)
(* funding.                                                                *)
THEOREM RootsAreFunded == Spec => []RootsWithinFunding
  <1>1. VInv => RootsWithinFunding
    BY DEF VInv
  <1> QED  BY <1>1, RewardVaultIsSafe, PTL

-----------------------------------------------------------------------------
(* The books *)

(* What an asset still backs, market by market.                            *)
Backing(x) == [m \in Markets |->
                 IF RewardAsset[m] = x THEN funded[m] - claimed[m] ELSE 0]

(* A market's claims are those of its accounts, and an asset is held for   *)
(* what its markets funded and did not pay out yet.                        *)
BooksInv ==
    /\ claimed \in [Markets -> Nat] /\ held \in [RewardAssets -> Nat]
    /\ \A m \in Markets : claimed[m] = SumOf(claimedBy[m])
    /\ \A x \in RewardAssets : held[x] = SumOf(Backing(x))
    /\ claimsPaused \in BOOLEAN /\ brakes \in Nat /\ cancelled \subseteq Commitment

WInv == VInv /\ BooksInv

(* The vault's sums are those of FoldProofs.                               *)
LEMMA SumOfIsSumAll == \A f : SumOf(f) = Add!SumAll(f)
  BY DEF SumOf, Add!SumAll, FoldFunction, FoldFunctionOnSet, MapThenFoldSet,
         Add!FoldFunction, Add!FoldFunctionOnSet, Add!MapThenFoldSet

(* An instance has a copy of what finite means.                            *)
LEMMA Finite == \A S : IsFiniteSet(S) <=> Add!IsFiniteSet(S)
  BY DEF IsFiniteSet, Add!IsFiniteSet

(* A market never pays out more than its active root promises in all, and  *)
(* so never more than it funded.                                           *)
LEMMA ClaimedWithinTotal ==
    ASSUME VInv, BooksInv, NEW m \in Markets
    PROVE  /\ claimed[m] \in Nat /\ active[m].total \in Nat /\ funded[m] \in Nat
           /\ claimed[m] <= active[m].total /\ active[m].total <= funded[m]
  <1>1. /\ claimed[m] \in Nat /\ funded[m] \in Nat
        /\ active[m].total \in Nat /\ active[m].leaf \in [Accounts -> Nat]
        /\ claimedBy[m] \in [Accounts -> Nat]
        /\ active[m].total <= funded[m]
    BY DEF VInv, BooksInv, SlotInv, Slot, None, RootsWithinFunding
  <1>2. active[m].total = SumOf(active[m].leaf)
    <2>1. CASE active[m] = None
      <3>1. Add!SumAll(active[m].leaf) = 0 /\ active[m].total = 0
        BY <2>1, Add!SumOfZeros, Finite, VaultAssumption DEF None
      <3> QED  BY <3>1, SumOfIsSumAll
    <2>2. CASE active[m] # None
      BY <2>2, VaultAssumption DEF VInv, SlotInv, Stems
    <2> QED  BY <2>1, <2>2
  <1>3. Add!SumAll(claimedBy[m]) <= Add!SumAll(active[m].leaf)
    BY <1>1, Add!SumIsMonotone, Finite, VaultAssumption DEF VInv, NobodyPaidBeyondTheirLeaf
  <1>4. claimed[m] <= active[m].total
    BY <1>2, <1>3, SumOfIsSumAll DEF BooksInv
  <1> QED  BY <1>1, <1>4

(* What an asset backs is a natural in each market.                        *)
LEMMA BackingIsNatural ==
    ASSUME VInv, BooksInv, NEW x \in RewardAssets
    PROVE  Backing(x) \in [Markets -> Nat]
  <1>1. ASSUME NEW m \in Markets PROVE funded[m] - claimed[m] \in Nat
    BY ClaimedWithinTotal
  <1> QED  BY <1>1 DEF Backing

(* Nothing has been funded or paid yet.                                    *)
LEMMA InitBooksInv == Init => BooksInv
  <1> SUFFICES ASSUME Init PROVE BooksInv
    OBVIOUS
  <1> USE VaultAssumption DEF Init
  <1>1. ASSUME NEW m \in Markets PROVE SumOf(claimedBy[m]) = 0
    BY Add!SumOfZeros, Finite, SumOfIsSumAll
  <1>2. ASSUME NEW x \in RewardAssets PROVE SumOf(Backing(x)) = 0
    <2>1. Backing(x) = [m \in Markets |-> 0]
      BY DEF Backing
    <2> QED  BY <2>1, Add!SumOfZeros, Finite, SumOfIsSumAll
  <1> QED  BY <1>1, <1>2 DEF BooksInv

(* One market's difference of funding and claims moves by as much as the   *)
(* balance of its asset, and no other balance moves.                       *)
LEMMA HeldFollowsMarket ==
    ASSUME VInv, BooksInv, NEW m \in Markets, NEW left \in Nat,
           \A n \in Markets :
              funded'[n] - claimed'[n]
                 = IF n = m THEN left ELSE funded[n] - claimed[n],
           held' = [held EXCEPT ![RewardAsset[m]]
                       = @ - (funded[m] - claimed[m]) + left]
    PROVE  /\ held' \in [RewardAssets -> Nat]
           /\ \A x \in RewardAssets : held'[x] = SumOf(Backing(x))'
  <1> DEFINE here == RewardAsset[m]
             was  == funded[m] - claimed[m]
  <1>1. here \in RewardAssets /\ was \in Nat
    BY ClaimedWithinTotal, VaultAssumption
  <1>2. ASSUME NEW x \in RewardAssets
        PROVE  held'[x] \in Nat /\ held'[x] = SumOf(Backing(x))'
    <2>1. Backing(x) \in [Markets -> Nat] /\ held[x] = Add!SumAll(Backing(x))
      BY BackingIsNatural, SumOfIsSumAll DEF BooksInv
    <2>2. SumOf(Backing(x))' = Add!SumAll(Backing(x)')
      BY SumOfIsSumAll
    <2>3. CASE x = here
      <3>1. Backing(x)' = [Backing(x) EXCEPT ![m] = left] /\ Backing(x)[m] = was
        BY <2>3 DEF Backing
      <3>2. Add!SumAll(Backing(x)') = Add!SumAll(Backing(x)) - was + left
        <4> DEFINE b == Backing(x)
        <4>1. b \in [Markets -> Nat] /\ b[m] = was /\ IsFiniteSet(Markets)
          BY <2>1, <3>1, VaultAssumption
        <4> HIDE DEF b, was
        <4>2. Add!SumAll([b EXCEPT ![m] = left]) = Add!SumAll(b) - b[m] + left
          BY <4>1, Add!SumAfterUpdate, Finite
        <4> QED  BY <3>1, <4>1, <4>2 DEF b
      <3>3. held'[x] = held[x] - was + left
        BY <1>1, <2>3 DEF BooksInv
      <3>4. Backing(x)' \in [Markets -> Nat]
        BY <2>1, <3>1
      <3>5. Add!SumAll(Backing(x)') \in Nat
        BY <3>4, Add!SumIsNatural, Finite, VaultAssumption
      <3> QED  BY <2>1, <2>2, <3>2, <3>3, <3>5
    <2>4. CASE x # here
      <3>1. Backing(x)' = Backing(x)
        BY <2>4 DEF Backing
      <3>2. held'[x] = held[x] /\ held[x] \in Nat
        BY <2>4 DEF BooksInv
      <3> QED  BY <2>1, <2>2, <3>1, <3>2
    <2> QED  BY <2>3, <2>4
  <1>3. held' = [x \in RewardAssets |-> held'[x]]
    BY DEF BooksInv
  <1> HIDE DEF here, was
  <1> QED  BY <1>2, <1>3

(* fund: what arrives is what the market's record grows by.                *)
LEMMA FundKeepsBooks ==
    ASSUME VInv, BooksInv, NEW m \in Markets, NEW amount \in FundAmounts,
           Fund(m, amount)
    PROVE  BooksInv'
  <1> DEFINE left == funded[m] + amount - claimed[m]
  <1>1. /\ amount \in Nat /\ claimed[m] \in Nat /\ funded[m] \in Nat
        /\ claimed[m] <= funded[m] /\ left \in Nat
    BY ClaimedWithinTotal, VaultAssumption
  <1>2. /\ funded' = [funded EXCEPT ![m] = @ + amount]
        /\ held' = [held EXCEPT ![RewardAsset[m]] = @ + amount]
        /\ UNCHANGED <<claimed, claimedBy, claimsPaused, brakes, cancelled>>
    BY DEF Fund, history
  <1>3. funded \in [Markets -> Nat] /\ held \in [RewardAssets -> Nat]
    BY DEF VInv, BooksInv
  <1>4. \A n \in Markets :
           funded'[n] - claimed'[n]
              = IF n = m THEN left ELSE funded[n] - claimed[n]
    BY <1>1, <1>2, <1>3
  <1>5. held[RewardAsset[m]] + amount
           = held[RewardAsset[m]] - (funded[m] - claimed[m]) + left
    BY <1>1, <1>3, VaultAssumption
  <1> HIDE DEF left
  <1>6. /\ held' \in [RewardAssets -> Nat]
        /\ \A x \in RewardAssets : held'[x] = SumOf(Backing(x))'
    BY <1>1, <1>2, <1>4, <1>5, HeldFollowsMarket
  <1> QED  BY <1>2, <1>6 DEF BooksInv

(* claim: the payout is what the account's record, the market's and the    *)
(* balance all move by, and the vault holds it.                            *)
LEMMA ClaimKeepsBooks ==
    ASSUME VInv, VInv', BooksInv, NEW m \in Markets, NEW a \in Accounts,
           Claim(m, a)
    PROVE  BooksInv'
  <1> DEFINE paid == Payout(m, a)
             mine == claimedBy[m]
             leaf == active[m].leaf
             left == funded[m] - (claimed[m] + paid)
  <1>1. /\ claimed[m] \in Nat /\ funded[m] \in Nat /\ active[m].total \in Nat
        /\ claimed[m] <= active[m].total /\ active[m].total <= funded[m]
    BY ClaimedWithinTotal
  <1>2. /\ mine \in [Accounts -> Nat] /\ leaf \in [Accounts -> Nat]
        /\ IsFiniteSet(Accounts) /\ IsFiniteSet(Markets)
        /\ \A b \in Accounts : mine[b] <= leaf[b]
    BY VaultAssumption
       DEF VInv, SlotInv, Slot, None, NobodyPaidBeyondTheirLeaf
  <1>3. paid \in Nat /\ paid = leaf[a] - mine[a]
    BY <1>2 DEF Payout
  <1>4. /\ claimedBy' = [claimedBy EXCEPT ![m][a] = leaf[a]]
        /\ claimed' = [claimed EXCEPT ![m] = @ + paid]
        /\ held' = [held EXCEPT ![RewardAsset[m]] = @ - paid]
        /\ UNCHANGED <<funded, active, pending, claimsPaused, brakes, cancelled>>
    BY DEF Claim, history
  <1>5. /\ claimedBy \in [Markets -> [Accounts -> Nat]]
        /\ claimed \in [Markets -> Nat] /\ held \in [RewardAssets -> Nat]
        /\ claimed[m] = Add!SumAll(mine)
    BY SumOfIsSumAll DEF VInv, BooksInv
  <1>6. claimedBy'[m] = [mine EXCEPT ![a] = leaf[a]]
    BY <1>4, <1>5
  <1> HIDE DEF paid, mine, leaf
  <1>7. /\ Add!SumAll(claimedBy'[m]) = claimed[m] + paid
        /\ claimed[m] + paid \in Nat
    <2>1. leaf[a] \in Nat /\ mine[a] \in Nat
      BY <1>2
    <2>2. Add!SumAll([mine EXCEPT ![a] = leaf[a]]) = Add!SumAll(mine) - mine[a] + leaf[a]
      BY <1>2, <2>1, Add!SumAfterUpdate, Finite
    <2> QED  BY <1>1, <1>3, <1>5, <1>6, <2>1, <2>2
  <1>8. claimed[m] + paid <= active[m].total
    <2> DEFINE now == [mine EXCEPT ![a] = leaf[a]]
    <2>1. now \in [Accounts -> Nat] /\ \A b \in Accounts : now[b] <= leaf[b]
      BY <1>2
    <2> HIDE DEF now
    <2>2. Add!SumAll(now) <= Add!SumAll(leaf)
      BY <1>2, <2>1, Add!SumIsMonotone, Finite
    <2>3. active[m] # None => active[m].total = Add!SumAll(leaf)
      BY VaultAssumption, SumOfIsSumAll DEF VInv, SlotInv, Stems, leaf
    <2>4. active[m] # None
      BY DEF Claim
    <2> QED  BY <1>6, <1>7, <2>2, <2>3, <2>4 DEF now
  <1>9. left \in Nat
    BY <1>1, <1>7, <1>8
  <1>10. \A n \in Markets :
            funded'[n] - claimed'[n]
               = IF n = m THEN left ELSE funded[n] - claimed[n]
    BY <1>4, <1>5
  <1>11. held[RewardAsset[m]] - paid
            = held[RewardAsset[m]] - (funded[m] - claimed[m]) + left
    BY <1>1, <1>3, <1>5, VaultAssumption
  <1> HIDE DEF left
  <1>12. /\ held' \in [RewardAssets -> Nat]
         /\ \A x \in RewardAssets : held'[x] = SumOf(Backing(x))'
    BY <1>4, <1>9, <1>10, <1>11, HeldFollowsMarket
  <1>13. claimed' \in [Markets -> Nat]
    BY <1>4, <1>5, <1>7
  <1>14. ASSUME NEW n \in Markets PROVE claimed'[n] = SumOf(claimedBy'[n])
    <2>1. CASE n = m
      BY <1>4, <1>5, <1>7, <2>1, SumOfIsSumAll
    <2>2. CASE n # m
      BY <1>4, <1>5, <2>2 DEF BooksInv
    <2> QED  BY <2>1, <2>2
  <1> QED  BY <1>4, <1>12, <1>13, <1>14 DEF BooksInv

(* The other operations move no amount.                                    *)
LEMMA BooksUntouchedKeepsBooks ==
    ASSUME BooksInv, UNCHANGED books,
           claimsPaused' \in BOOLEAN, brakes' \in Nat, cancelled' \subseteq Commitment
    PROVE  BooksInv'
  <1>1. \A x \in RewardAssets : Backing(x)' = Backing(x)
    BY DEF Backing, books
  <1> QED  BY <1>1 DEF BooksInv, books

(* No step of the vault leaves the books wrong.                            *)
LEMMA NextKeepsWInv == WInv /\ [Next]_vars => WInv'
  <1> SUFFICES ASSUME WInv, [Next]_vars PROVE BooksInv'
    BY NextKeepsVInv DEF WInv
  <1>1. /\ VInv /\ VInv' /\ BooksInv /\ claimsPaused \in BOOLEAN
        /\ brakes \in Nat /\ cancelled \subseteq Commitment
    BY NextKeepsVInv DEF WInv, BooksInv
  <1>2. CASE \E m \in Markets, amount \in FundAmounts : Fund(m, amount)
    BY <1>1, <1>2, FundKeepsBooks
  <1>3. CASE \E c \in Attested \cup Forged, signers \in SUBSET (Honest \cup Faulty) :
                SubmitCommitment(c, signers)
    BY <1>1, <1>3, BooksUntouchedKeepsBooks DEF SubmitCommitment, history
  <1>4. CASE \E m \in Markets : Activate(m)
    BY <1>1, <1>4, BooksUntouchedKeepsBooks DEF Activate, history
  <1>5. CASE \E m \in Markets, a \in Accounts : Claim(m, a)
    BY <1>1, <1>5, ClaimKeepsBooks
  <1>6. CASE PauseClaims
    BY <1>1, <1>6, BooksUntouchedKeepsBooks DEF PauseClaims
  <1>7. CASE \E m \in Markets : CancelPendingCommitment(m)
    <2>1. PICK m \in Markets : CancelPendingCommitment(m)
      BY <1>7
    <2>2. pending[m].commitment \in Commitment
      BY <1>1, <2>1 DEF CancelPendingCommitment, VInv, SlotInv, Slot
    <2> QED  BY <1>1, <2>1, <2>2, BooksUntouchedKeepsBooks
             DEF CancelPendingCommitment
  <1>8. CASE UnpauseClaims
    BY <1>1, <1>8, BooksUntouchedKeepsBooks DEF UnpauseClaims, history
  <1>9. CASE \E x \in Honest \cup Faulty : AddAttestor(x) \/ RemoveAttestor(x)
    BY <1>1, <1>9, BooksUntouchedKeepsBooks
       DEF AddAttestor, RemoveAttestor, history
  <1>10. CASE \E q \in 1 .. Cardinality(Honest \cup Faulty) : SetQuorum(q)
    BY <1>1, <1>10, BooksUntouchedKeepsBooks DEF SetQuorum, history
  <1>11. CASE Tick
    BY <1>1, <1>11, BooksUntouchedKeepsBooks DEF Tick, history
  <1>12. CASE UNCHANGED vars
    BY <1>1, <1>12, BooksUntouchedKeepsBooks DEF vars, history
  <1> QED
    BY <1>2, <1>3, <1>4, <1>5, <1>6, <1>7, <1>8, <1>9, <1>10, <1>11, <1>12
       DEF Next

(* The vault and its books keep their invariant throughout.                *)
THEOREM RewardBooksAreSafe == Spec => []WInv
  <1>1. Init => WInv
    BY InitVInv, InitBooksInv DEF WInv
  <1> QED  BY <1>1, NextKeepsWInv, PTL DEF Spec

(* Every amount is a natural: a claim never draws on more of an asset than *)
(* the vault holds, whichever markets share it.                            *)
THEOREM RewardsAreHeld == Spec => []TypeOK
  <1>1. WInv => TypeOK
    BY DEF WInv, VInv, BooksInv, RollInv, SlotInv, TypeOK
  <1> QED  BY <1>1, RewardBooksAreSafe, PTL

(* No market's holders are paid with another market's rewards: what they   *)
(* claimed adds up to at most the active root's total, which that market   *)
(* funded, and so is the next root.                                        *)
THEOREM RewardsAreNotShared == Spec => []ClaimsWithinFunding
  <1>1. WInv => ClaimsWithinFunding
    BY ClaimedWithinTotal
       DEF WInv, VInv, BooksInv, RootsWithinFunding, ClaimsWithinFunding
  <1> QED  BY <1>1, RewardBooksAreSafe, PTL

(* Of every asset the vault holds exactly what the markets rewarded in it  *)
(* funded and did not pay out yet: nothing leaks and nothing is stranded   *)
(* by claiming.                                                            *)
THEOREM AssetsBackFunding ==
    Spec => [](\A x \in RewardAssets : held[x] = SumOf(Backing(x)))
  <1>1. WInv => \A x \in RewardAssets : held[x] = SumOf(Backing(x))
    BY DEF WInv, BooksInv
  <1> QED  BY <1>1, RewardBooksAreSafe, PTL
=============================================================================
