------------------------ MODULE MC_HolderRewardVault ------------------------
(***************************************************************************)
(* Two markets that share one reward asset, two accounts, two epochs.      *)
(***************************************************************************)
EXTENDS HolderRewardVault

CONSTANTS m1, m2, alice, bob, h1, h2, f1, xstock

MC_Markets == {m1, m2}
MC_Accounts == {alice, bob}
MC_RewardAsset == [m \in {m1, m2} |-> xstock]

Leaves(x, y) == [a \in MC_Accounts |-> IF a = alice THEN x ELSE y]
Dataset(m, e, x, y) ==
    [market |-> m, epoch |-> e, total |-> x + y, leaf |-> Leaves(x, y)]

MC_Attested == {Dataset(m1, 1, 1, 0), Dataset(m1, 2, 1, 2), Dataset(m2, 1, 0, 1),
                Dataset(m2, 2, 0, 1)}

(* A root that pays alice what it does not add up to, and one that rolls   *)
(* bob back.                                                               *)
MC_Forged == {[market |-> m2, epoch |-> 3, total |-> 1, leaf |-> Leaves(3, 1)],
              [market |-> m1, epoch |-> 3, total |-> 3, leaf |-> Leaves(3, 0)]}
=============================================================================
