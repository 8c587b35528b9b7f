-------------------------------- MODULE Merkle ------------------------------
(***************************************************************************)
(* packages/stockback/src/merkle.ts: the cumulative distribution tree, its *)
(* proofs, and the verification the vault performs.  keccak256 is taken to *)
(* be injective: a hash is the term it hashes.  A pair is sorted before it *)
(* is hashed, so its term is a set.  Accounts are numbers, for their order.*)
(***************************************************************************)
EXTENDS Stockback

EncodeLeaf(account, cumulative) == [account |-> account, cumulative |-> cumulative]
HashPair(left, right) == [pair |-> {left, right}]

(* An odd node is promoted as it is. *)
NextLevel(level) ==
    [i \in 1 .. (Len(level) + 1) \div 2 |->
        IF 2 * i <= Len(level) THEN HashPair(level[2 * i - 1], level[2 * i]) ELSE level[2 * i - 1]]

Levels(leaves) ==
    LET at[d \in 0 .. Len(leaves)] == IF d = 0 THEN leaves ELSE NextLevel(at[d - 1])
    IN  at

(* Levels are built until one has a single node, the root. *)
Height(leaves) ==
    LET at == Levels(leaves)
    IN  CHOOSE d \in 0 .. Len(leaves) : Len(at[d]) = 1 /\ (d > 0 => Len(at[d - 1]) > 1)

ComputeRoot(leaves) == Levels(leaves)[Height(leaves)][1]

(* Entries: who is owed anything, by account. *)
Leaves(cumulative) ==
    LET paid == Ascending({a \in DOMAIN cumulative : cumulative[a] > 0})
    IN  [i \in DOMAIN paid |-> EncodeLeaf(paid[i], cumulative[paid[i]])]

(* Where a leaf's ancestor stands in each level. *)
Positions(leaves, i) ==
    LET position[d \in 0 .. Len(leaves)] == IF d = 0 THEN i ELSE (position[d - 1] + 1) \div 2
    IN  position

Sibling(n) == IF n % 2 = 0 THEN n - 1 ELSE n + 1

(* Slip: an odd node is given itself for a sibling. *)
PairOddNode(leaves, i) ==
    LET at == Levels(leaves)
        sibling(d) == Sibling(Positions(leaves, i)[d])
        climbed[d \in 0 .. Height(leaves)] ==
            IF d = 0 THEN <<>>
            ELSE Append(climbed[d - 1], IF sibling(d - 1) <= Len(at[d - 1]) THEN at[d - 1][sibling(d - 1)]
                                                                         ELSE at[d - 1][sibling(d - 1) - 1])
    IN  climbed[Height(leaves)]

(* getAllProofs: the siblings on the way up; a promoted node has none. *)
Climb(leaves, i) ==
    LET at == Levels(leaves)
        sibling(d) == Sibling(Positions(leaves, i)[d])
        climbed[d \in 0 .. Height(leaves)] ==
            IF d = 0 THEN <<>>
            ELSE IF sibling(d - 1) <= Len(at[d - 1]) THEN Append(climbed[d - 1], at[d - 1][sibling(d - 1)])
                                                     ELSE climbed[d - 1]
    IN  climbed
ProofOf(leaves, i) == Climb(leaves, i)[Height(leaves)]

VerifyProof(root, leaf, proof) == FoldLeft(HashPair, leaf, proof) = root
=============================================================================
