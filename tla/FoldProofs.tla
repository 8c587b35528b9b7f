----------------------------- MODULE FoldProofs -----------------------------
(***************************************************************************)
(* What the folds of the community modules guarantee.  A sum over the      *)
(* domain of a function and a fold over a set take what CHOOSE picks next, *)
(* a fold over a sequence the largest index that is left; all are          *)
(* recursive functions on the subsets of a finite set, which are shown to  *)
(* exist first, by induction on how many elements are left.  The facts     *)
(* about sums and induction hold whatever Op is; those about folds are for *)
(* any operator: a module instantiates this one with the one it folds.     *)
(* What holds at each step is given as a set, "reached", of steps with     *)
(* their results.                                                          *)
(***************************************************************************)
EXTENDS Integers, SequencesExt, Functions, FiniteSetTheorems, WellFoundedInduction, TLAPS

CONSTANT Op(_, _)

SumAll(f) == FoldFunction(LAMBDA x, y : x + y, 0, f)

(* The element a fold takes next.                                          *)
Taken(s) == CHOOSE x \in s : TRUE

(* The sums of f over the subsets of S, one from the other.                *)
IsFold(g, f, S) ==
    g = [s \in SUBSET S |->
            IF s = {} THEN 0 ELSE f[Taken(s)] + g[s \ {Taken(s)}]]

Sums(f, S) == CHOOSE g : IsFold(g, f, S)

(* The definition of the community modules, in these terms.                *)
LEMMA SumAllIsFold == \A f : SumAll(f) = Sums(f, DOMAIN f)[DOMAIN f]
  BY DEF SumAll, FoldFunction, FoldFunctionOnSet, MapThenFoldSet, Sums, IsFold,
         Taken

-----------------------------------------------------------------------------
(* Induction *)

(* A set of naturals closed under successors holds every natural.          *)
LEMMA NaturalsBySuccessor ==
    ASSUME NEW P, 0 \in P, \A n \in Nat : n \in P => n + 1 \in P
    PROVE  Nat \subseteq P
  <1> DEFINE Below == {pair \in Nat \X Nat : pair[1] < pair[2]}
             Rest  == Nat \ P
  <1> SUFFICES ASSUME Rest # {} PROVE FALSE
    OBVIOUS
  <1>1. IsWellFoundedOn(Below, Nat)
    BY NatLessThanWellFounded DEF OpToRel
  <1>2. Rest \subseteq Nat
    OBVIOUS
  <1> HIDE DEF Below
  <1>3. PICK n \in Rest : \A k \in Rest : ~ (<<k, n>> \in Below)
    BY <1>1, <1>2, WFMin
  <1>4. n \in Nat /\ n # 0 /\ n - 1 \in Nat
    BY <1>2, <1>3
  <1>5. n - 1 \in P
    <2>1. <<n - 1, n>> \in Nat \X Nat /\ n - 1 < n
      BY <1>4
    <2>2. <<n - 1, n>> \in Below
      BY <2>1 DEF Below
    <2>3. n - 1 \notin Rest
      BY <1>3, <2>2
    <2> QED  BY <1>4, <2>3
  <1>6. (n - 1) + 1 \in P
    BY <1>4, <1>5
  <1> QED  BY <1>3, <1>4, <1>6

(* A set of naturals that has 0 and, up to n, every successor, has n.      *)
LEMMA CountingUp ==
    ASSUME NEW n \in Nat, NEW P, 0 \in P, \A i \in 1 .. n : i - 1 \in P => i \in P
    PROVE  \A i \in 0 .. n : i \in P
  <1> DEFINE Q == {i \in Nat : i <= n => i \in P}
  <1>1. 0 \in Q
    OBVIOUS
  <1>2. \A i \in Nat : i \in Q => i + 1 \in Q
    <2> SUFFICES ASSUME NEW i \in Nat, i \in Q, i + 1 <= n PROVE i + 1 \in P
      OBVIOUS
    <2>1. i \in P /\ i + 1 \in 1 .. n /\ (i + 1) - 1 = i
      OBVIOUS
    <2> QED  BY <2>1
  <1> HIDE DEF Q
  <1>3. Nat \subseteq Q
    BY <1>1, <1>2, NaturalsBySuccessor
  <1> QED  BY <1>3 DEF Q

(* The element taken is one of the set's, and leaves one less.             *)
LEMMA TakenLeavesOneLess ==
    ASSUME NEW S, IsFiniteSet(S), NEW s \in SUBSET S, s # {}
    PROVE  /\ Taken(s) \in s /\ Taken(s) \in S
           /\ s \ {Taken(s)} \in SUBSET S
           /\ Cardinality(s) \in Nat
           /\ Cardinality(s \ {Taken(s)}) = Cardinality(s) - 1
  <1>1. Taken(s) \in s
    BY DEF Taken
  <1>2. IsFiniteSet(s) /\ Cardinality(s) \in Nat
    BY FS_Subset, FS_CardinalityType
  <1> QED  BY <1>1, <1>2, FS_RemoveElement

(* What holds of the empty set, and of a set if it holds of what is left   *)
(* when an element is taken, holds of every part of a finite set.          *)
LEMMA PartsByTaking ==
    ASSUME NEW S, IsFiniteSet(S), NEW P, {} \in P,
           \A s \in SUBSET S : s # {} /\ s \ {Taken(s)} \in P => s \in P
    PROVE  SUBSET S \subseteq P
  <1> DEFINE Reached == {n \in Nat : \A s \in SUBSET S :
                                        Cardinality(s) = n => s \in P}
  <1>1. 0 \in Reached
    <2>1. ASSUME NEW s \in SUBSET S, Cardinality(s) = 0 PROVE s = {}
      BY <2>1, FS_Subset, FS_EmptySet
    <2> QED  BY <2>1
  <1>2. ASSUME NEW n \in Nat, n \in Reached PROVE n + 1 \in Reached
    <2> SUFFICES ASSUME NEW s \in SUBSET S, Cardinality(s) = n + 1 PROVE s \in P
      OBVIOUS
    <2>1. s # {}
      BY FS_EmptySet
    <2>2. s \ {Taken(s)} \in SUBSET S /\ Cardinality(s \ {Taken(s)}) = n
      BY <2>1, TakenLeavesOneLess
    <2>3. s \ {Taken(s)} \in P
      BY <1>2, <2>2
    <2> QED  BY <2>1, <2>3
  <1> HIDE DEF Reached
  <1>3. Nat \subseteq Reached
    BY <1>1, <1>2, NaturalsBySuccessor
  <1>4. ASSUME NEW s \in SUBSET S PROVE s \in P
    <2>1. Cardinality(s) \in Reached
      BY <1>3, FS_Subset, FS_CardinalityType
    <2> QED  BY <2>1 DEF Reached
  <1> QED  BY <1>4

-----------------------------------------------------------------------------
(* The sums exist: on the parts with at most n elements, for every n.      *)
LEMMA FoldExists ==
    ASSUME NEW S, IsFiniteSet(S), NEW f
    PROVE  \E g : IsFold(g, f, S)
  <1> DEFINE Parts(n) == {s \in SUBSET S : Cardinality(s) <= n}
             OnParts(g, n) ==
               g = [s \in Parts(n) |->
                      IF s = {} THEN 0 ELSE f[Taken(s)] + g[s \ {Taken(s)}]]
             Reached == {n \in Nat : \E g : OnParts(g, n)}
  <1>1. 0 \in Reached
    <2> DEFINE g == [s \in Parts(0) |-> 0]
    <2>1. ASSUME NEW s \in Parts(0) PROVE s = {}
      <3>1. IsFiniteSet(s) /\ Cardinality(s) \in Nat /\ Cardinality(s) <= 0
        BY FS_Subset, FS_CardinalityType
      <3> QED  BY <3>1, FS_EmptySet
    <2>2. g = [s \in Parts(0) |->
                 IF s = {} THEN 0 ELSE f[Taken(s)] + g[s \ {Taken(s)}]]
      BY <2>1
    <2>3. OnParts(g, 0)
      BY <2>2
    <2> HIDE DEF g, OnParts
    <2> QED  BY <2>3
  <1>2. ASSUME NEW n \in Nat, n \in Reached PROVE n + 1 \in Reached
    <2>1. PICK g : OnParts(g, n)
      BY <1>2
    <2> DEFINE h == [s \in Parts(n + 1) |->
                       IF s = {} THEN 0 ELSE f[Taken(s)] + g[s \ {Taken(s)}]]
    <2>2. ASSUME NEW s \in Parts(n) PROVE s \in Parts(n + 1) /\ h[s] = g[s]
      <3>1. s \in Parts(n + 1)
        BY FS_Subset, FS_CardinalityType
      <3>2. g[s] = IF s = {} THEN 0 ELSE f[Taken(s)] + g[s \ {Taken(s)}]
        BY <2>1
      <3> QED  BY <3>1, <3>2
    <2>3. ASSUME NEW s \in Parts(n + 1), s # {} PROVE s \ {Taken(s)} \in Parts(n)
      BY <2>3, TakenLeavesOneLess
    <2>4. ASSUME NEW s \in Parts(n + 1)
          PROVE  h[s] = IF s = {} THEN 0 ELSE f[Taken(s)] + h[s \ {Taken(s)}]
      BY <2>2, <2>3
    <2>5. h = [s \in Parts(n + 1) |-> h[s]]
      OBVIOUS
    <2> HIDE DEF h, Parts
    <2>6. OnParts(h, n + 1)
      BY <2>4, <2>5
    <2> HIDE DEF OnParts
    <2> QED  BY <2>6
  <1> HIDE DEF Reached
  <1>3. Cardinality(S) \in Reached
    BY <1>1, <1>2, NaturalsBySuccessor, FS_CardinalityType
  <1>4. Parts(Cardinality(S)) = SUBSET S
    BY FS_Subset
  <1>5. PICK g : OnParts(g, Cardinality(S))
    BY <1>3 DEF Reached
  <1> QED  BY <1>4, <1>5 DEF IsFold

(* The sum of no element is zero, that of others one element more than the *)
(* sum of those left when it is taken.                                     *)
LEMMA SumsUnfold ==
    ASSUME NEW S, IsFiniteSet(S), NEW f
    PROVE  /\ Sums(f, S)[{}] = 0
           /\ \A s \in SUBSET S : s # {} =>
                 Sums(f, S)[s] = f[Taken(s)] + Sums(f, S)[s \ {Taken(s)}]
  <1>1. IsFold(Sums(f, S), f, S)
    BY FoldExists DEF Sums
  <1> HIDE DEF Sums
  <1> QED  BY <1>1 DEF IsFold

-----------------------------------------------------------------------------
(* Sums of naturals *)

(* The sum of nothing but zeros is zero.                                   *)
LEMMA SumOfZeros ==
    ASSUME NEW S, IsFiniteSet(S), NEW f, f = [x \in S |-> 0]
    PROVE  SumAll(f) = 0
  <1> DEFINE P == {s \in SUBSET S : Sums(f, S)[s] = 0}
  <1>1. {} \in P
    BY SumsUnfold
  <1>2. ASSUME NEW s \in SUBSET S, s # {}, s \ {Taken(s)} \in P PROVE s \in P
    <2>1. Sums(f, S)[s] = f[Taken(s)] + Sums(f, S)[s \ {Taken(s)}]
      BY <1>2, SumsUnfold
    <2>2. f[Taken(s)] = 0
      BY <1>2, TakenLeavesOneLess
    <2> QED  BY <1>2, <2>1, <2>2
  <1> HIDE DEF P
  <1>3. S \in P
    BY <1>1, <1>2, PartsByTaking
  <1> QED  BY <1>3, SumAllIsFold DEF P

(* A sum of naturals is a natural.                                         *)
LEMMA SumIsNatural ==
    ASSUME NEW S, IsFiniteSet(S), NEW f \in [S -> Nat]
    PROVE  SumAll(f) \in Nat
  <1> DEFINE P == {s \in SUBSET S : Sums(f, S)[s] \in Nat}
  <1>1. {} \in P
    BY SumsUnfold
  <1>2. ASSUME NEW s \in SUBSET S, s # {}, s \ {Taken(s)} \in P PROVE s \in P
    <2>1. Sums(f, S)[s] = f[Taken(s)] + Sums(f, S)[s \ {Taken(s)}]
      BY <1>2, SumsUnfold
    <2>2. f[Taken(s)] \in Nat
      BY <1>2, TakenLeavesOneLess
    <2> QED  BY <1>2, <2>1, <2>2
  <1> HIDE DEF P
  <1>3. S \in P
    BY <1>1, <1>2, PartsByTaking
  <1> QED  BY <1>3, SumAllIsFold DEF P

(* Where each term is no larger, the sum is no larger.                     *)
LEMMA SumIsMonotone ==
    ASSUME NEW S, IsFiniteSet(S), NEW f \in [S -> Nat], NEW g \in [S -> Nat],
           \A x \in S : f[x] <= g[x]
    PROVE  SumAll(f) <= SumAll(g)
  <1> DEFINE P == {s \in SUBSET S : /\ Sums(f, S)[s] \in Nat
                                    /\ Sums(g, S)[s] \in Nat
                                    /\ Sums(f, S)[s] <= Sums(g, S)[s]}
  <1>1. {} \in P
    BY SumsUnfold
  <1>2. ASSUME NEW s \in SUBSET S, s # {}, s \ {Taken(s)} \in P PROVE s \in P
    <2>1. /\ Sums(f, S)[s] = f[Taken(s)] + Sums(f, S)[s \ {Taken(s)}]
          /\ Sums(g, S)[s] = g[Taken(s)] + Sums(g, S)[s \ {Taken(s)}]
      BY <1>2, SumsUnfold
    <2>2. /\ f[Taken(s)] \in Nat /\ g[Taken(s)] \in Nat
          /\ f[Taken(s)] <= g[Taken(s)]
      BY <1>2, TakenLeavesOneLess
    <2> QED  BY <1>2, <2>1, <2>2
  <1> HIDE DEF P
  <1>3. S \in P
    BY <1>1, <1>2, PartsByTaking
  <1>4. DOMAIN f = S /\ DOMAIN g = S
    OBVIOUS
  <1> QED  BY <1>3, <1>4, SumAllIsFold DEF P

(* Changing one term changes the sum by as much.                           *)
LEMMA SumAfterUpdate ==
    ASSUME NEW S, IsFiniteSet(S), NEW f \in [S -> Nat], NEW a \in S,
           NEW v \in Nat
    PROVE  SumAll([f EXCEPT ![a] = v]) = SumAll(f) - f[a] + v
  <1> DEFINE g == [f EXCEPT ![a] = v]
             P == {s \in SUBSET S :
                     /\ Sums(f, S)[s] \in Nat
                     /\ Sums(g, S)[s] = Sums(f, S)[s]
                                          + (IF a \in s THEN v - f[a] ELSE 0)}
  <1>1. {} \in P
    BY SumsUnfold
  <1>2. ASSUME NEW s \in SUBSET S, s # {}, s \ {Taken(s)} \in P PROVE s \in P
    <2> DEFINE x    == Taken(s)
               rest == s \ {x}
    <2>1. /\ Sums(f, S)[s] = f[x] + Sums(f, S)[rest]
          /\ Sums(g, S)[s] = g[x] + Sums(g, S)[rest]
      BY ZenonT(30), <1>2, SumsUnfold
    <2>2. x \in s /\ x \in S /\ f[x] \in Nat /\ f[a] \in Nat
      BY <1>2, TakenLeavesOneLess
    <2>3. /\ Sums(f, S)[rest] \in Nat
          /\ Sums(g, S)[rest] = Sums(f, S)[rest]
                                  + (IF a \in rest THEN v - f[a] ELSE 0)
      BY <1>2
    <2> HIDE DEF x
    <2>4. CASE x = a
      <3>1. g[x] = v /\ a \notin rest /\ a \in s
        BY <2>2, <2>4
      <3> HIDE DEF g, rest
      <3> QED  BY <2>1, <2>2, <2>3, <2>4, <3>1
    <2>5. CASE x # a
      <3>1. g[x] = f[x] /\ (a \in rest <=> a \in s)
        BY <2>2, <2>5
      <3> HIDE DEF g, rest
      <3> QED  BY <2>1, <2>2, <2>3, <2>5, <3>1
    <2> QED  BY <2>4, <2>5
  <1>3. DOMAIN f = S /\ DOMAIN g = S
    OBVIOUS
  <1> HIDE DEF P
  <1>4. S \in P
    BY <1>1, <1>2, PartsByTaking
  <1>5. SumAll(f) \in Nat /\ SumAll(g) = SumAll(f) + (v - f[a])
    BY <1>3, <1>4, SumAllIsFold DEF P
  <1> QED  BY <1>5

-----------------------------------------------------------------------------
(* Sums of integers, taken in any order *)

Part(f, s) == [x \in s |-> f[x]]

(* What is summed up so far is an integer.                                 *)
LEMMA SumsAreIntegers ==
    ASSUME NEW S, IsFiniteSet(S), NEW f \in [S -> Int]
    PROVE  \A s \in SUBSET S : Sums(f, S)[s] \in Int
  <1> DEFINE P == {s \in SUBSET S : Sums(f, S)[s] \in Int}
  <1>1. {} \in P
    BY SumsUnfold
  <1>2. ASSUME NEW s \in SUBSET S, s # {}, s \ {Taken(s)} \in P PROVE s \in P
    <2>1. Sums(f, S)[s] = f[Taken(s)] + Sums(f, S)[s \ {Taken(s)}]
      BY <1>2, SumsUnfold
    <2>2. f[Taken(s)] \in Int
      BY <1>2, TakenLeavesOneLess
    <2> QED  BY <1>2, <2>1, <2>2
  <1> HIDE DEF P
  <1>3. SUBSET S \subseteq P
    BY <1>1, <1>2, PartsByTaking
  <1> QED  BY <1>3 DEF P

(* Any element may be the one that is taken first.                         *)
LEMMA SumsTakeAny ==
    ASSUME NEW S, IsFiniteSet(S), NEW f \in [S -> Int]
    PROVE  \A s \in SUBSET S : \A x \in s : Sums(f, S)[s] = f[x] + Sums(f, S)[s \ {x}]
  <1> DEFINE g == Sums(f, S)
             Good(s) == \A x \in s : g[s] = f[x] + g[s \ {x}]
             Reached == {n \in Nat : \A s \in SUBSET S : Cardinality(s) = n => Good(s)}
  <1>1. \A s \in SUBSET S : s # {} => g[s] = f[Taken(s)] + g[s \ {Taken(s)}]
    BY SumsUnfold
  <1>2. \A s \in SUBSET S : g[s] \in Int
    BY SumsAreIntegers
  <1> HIDE DEF g
  <1>3. 0 \in Reached
    <2>1. ASSUME NEW s \in SUBSET S, Cardinality(s) = 0 PROVE s = {}
      BY <2>1, FS_Subset, FS_EmptySet
    <2> QED  BY <2>1
  <1>4. ASSUME NEW n \in Nat, n \in Reached PROVE n + 1 \in Reached
    <2> SUFFICES ASSUME NEW s \in SUBSET S, Cardinality(s) = n + 1, NEW x \in s
                 PROVE  g[s] = f[x] + g[s \ {x}]
      OBVIOUS
    <2> DEFINE t == Taken(s)
    <2>1. t \in s /\ g[s] = f[t] + g[s \ {t}]
      BY <1>1, TakenLeavesOneLess
    <2> HIDE DEF t
    <2>2. ASSUME NEW y \in s PROVE s \ {y} \in SUBSET S /\ Good(s \ {y})
      <3>1. IsFiniteSet(s)
        BY FS_Subset
      <3>2. Cardinality(s \ {y}) = Cardinality(s) - 1
        BY <3>1, FS_RemoveElement
      <3>3. Cardinality(s \ {y}) = n /\ s \ {y} \in SUBSET S
        BY <3>2
      <3> QED  BY <1>4, <3>3
    <2>3. CASE x = t
      BY <2>1, <2>3
    <2>4. CASE x # t
      <3> DEFINE r == (s \ {x}) \ {t}
      <3>1. r = (s \ {t}) \ {x} /\ r \in SUBSET S
        OBVIOUS
      <3>2. g[s \ {t}] = f[x] + g[r]
        BY <2>1, <2>2, <2>4, <3>1
      <3>3. g[s \ {x}] = f[t] + g[r]
        BY <2>1, <2>2, <2>4
      <3>4. f[x] \in Int /\ f[t] \in Int /\ g[r] \in Int
        BY <1>2, <2>1, <3>1
      <3> HIDE DEF r
      <3> QED  BY <2>1, <3>2, <3>3, <3>4
    <2> QED  BY <2>3, <2>4
  <1> HIDE DEF Reached
  <1>5. Nat \subseteq Reached
    BY <1>3, <1>4, NaturalsBySuccessor
  <1>6. ASSUME NEW s \in SUBSET S PROVE Good(s)
    <2>1. Cardinality(s) \in Nat
      BY FS_Subset, FS_CardinalityType
    <2> QED  BY <1>5, <2>1 DEF Reached
  <1> QED  BY <1>6 DEF g

(* What is summed up so far is the sum of that part.                       *)
LEMMA SumOfPart ==
    ASSUME NEW S, IsFiniteSet(S), NEW f, NEW s \in SUBSET S
    PROVE  SumAll(Part(f, s)) = Sums(f, S)[s]
  <1> DEFINE h == Part(f, s)
             P == {r \in SUBSET s : Sums(h, s)[r] = Sums(f, S)[r]}
  <1>1. IsFiniteSet(s) /\ \A r \in SUBSET s : r \in SUBSET S
    BY FS_Subset
  <1>2. {} \in P
    BY <1>1, SumsUnfold
  <1>3. ASSUME NEW r \in SUBSET s, r # {}, r \ {Taken(r)} \in P PROVE r \in P
    <2>1. /\ Sums(h, s)[r] = h[Taken(r)] + Sums(h, s)[r \ {Taken(r)}]
          /\ Sums(f, S)[r] = f[Taken(r)] + Sums(f, S)[r \ {Taken(r)}]
      BY <1>1, <1>3, SumsUnfold
    <2>2. h[Taken(r)] = f[Taken(r)]
      BY <1>1, <1>3, TakenLeavesOneLess DEF Part
    <2> QED  BY <1>3, <2>1, <2>2
  <1> HIDE DEF P
  <1>4. s \in P
    BY <1>1, <1>2, <1>3, PartsByTaking
  <1>5. DOMAIN h = s
    BY DEF Part
  <1> QED  BY <1>4, <1>5, SumAllIsFold DEF P

(* The sum over a finite set, one element apart.                           *)
LEMMA SumWithout ==
    ASSUME NEW S, IsFiniteSet(S), NEW f \in [S -> Int], NEW x \in S
    PROVE  /\ SumAll(f) \in Int /\ f[x] \in Int /\ SumAll(Part(f, S \ {x})) \in Int
           /\ SumAll(f) = f[x] + SumAll(Part(f, S \ {x}))
  <1>1. SumAll(f) = Sums(f, S)[S]
    BY SumAllIsFold
  <1>2. SumAll(Part(f, S \ {x})) = Sums(f, S)[S \ {x}]
    BY SumOfPart
  <1>3. Sums(f, S)[S] \in Int /\ Sums(f, S)[S \ {x}] \in Int
    BY SumsAreIntegers
  <1> QED  BY <1>1, <1>2, <1>3, SumsTakeAny

(* What holds of the empty part, and of a part if it holds of what is left *)
(* when one of its elements is taken, holds of the whole.                  *)
LEMMA WholeByTaking ==
    ASSUME NEW S, IsFiniteSet(S), NEW P, {} \in P,
           \A s \in SUBSET S : \A x \in s : s \ {x} \in P => s \in P
    PROVE  S \in P
  <1>1. \A s \in SUBSET S : s # {} /\ s \ {Taken(s)} \in P => s \in P
    BY TakenLeavesOneLess
  <1> QED  BY <1>1, PartsByTaking

(* The sum of an empty part is zero, that of any other is one element more *)
(* than the sum of the others.                                             *)
LEMMA PartTakesAny ==
    ASSUME NEW S, IsFiniteSet(S), NEW f \in [S -> Int]
    PROVE  /\ SumAll(Part(f, {})) = 0
           /\ \A s \in SUBSET S :
                 /\ SumAll(Part(f, s)) \in Int
                 /\ \A x \in s : SumAll(Part(f, s)) = f[x] + SumAll(Part(f, s \ {x}))
  <1>1. \A s \in SUBSET S : SumAll(Part(f, s)) = Sums(f, S)[s]
    BY SumOfPart
  <1>2. Sums(f, S)[{}] = 0
    BY SumsUnfold
  <1>3. \A s \in SUBSET S : \A x \in s : s \ {x} \in SUBSET S
    OBVIOUS
  <1> QED  BY <1>1, <1>2, <1>3, SumsTakeAny, SumsAreIntegers

(* A sum is that of a part and that of the rest.                           *)
LEMMA SumOfUnion ==
    ASSUME NEW S, IsFiniteSet(S), NEW f \in [S -> Int], NEW s \in SUBSET S
    PROVE  SumAll(f) = SumAll(Part(f, s)) + SumAll(Part(f, S \ s))
  <1> DEFINE total(r) == SumAll(Part(f, r))
             rest == S \ s
             P == {r \in SUBSET rest : total(s \cup r) = total(s) + total(r)}
  <1>1. /\ total({}) = 0
        /\ \A r \in SUBSET S : total(r) \in Int /\ \A x \in r : total(r) = f[x] + total(r \ {x})
    BY PartTakesAny
  <1>2. f = Part(f, S) /\ s \cup rest = S /\ rest \in SUBSET S /\ IsFiniteSet(rest)
    BY FS_Subset DEF Part
  <1> HIDE DEF total
  <1>3. {} \in P
    <2>1. s \cup {} = s /\ total(s) \in Int
      BY <1>1
    <2> QED  BY <1>1, <2>1
  <1>4. ASSUME NEW r \in SUBSET rest, NEW x \in r, r \ {x} \in P PROVE r \in P
    <2>1. (s \cup r) \ {x} = s \cup (r \ {x}) /\ x \in s \cup r /\ f[x] \in Int
      OBVIOUS
    <2>2. s \cup r \in SUBSET S /\ r \in SUBSET S /\ r \ {x} \in SUBSET S
      OBVIOUS
    <2>3. total(s \cup r) = f[x] + total(s \cup (r \ {x})) /\ total(r) = f[x] + total(r \ {x})
      BY <1>1, <2>1, <2>2
    <2>4. total(s) \in Int /\ total(r \ {x}) \in Int
      BY <1>1, <2>2
    <2> QED  BY <1>4, <2>1, <2>3, <2>4
  <1> HIDE DEF P
  <1>5. rest \in P
    BY <1>2, <1>3, <1>4, WholeByTaking
  <1> QED  BY <1>2, <1>5 DEF P, total

(* The sum of sums.                                                        *)
LEMMA SumOfSums ==
    ASSUME NEW S, IsFiniteSet(S), NEW f \in [S -> Int], NEW g \in [S -> Int]
    PROVE  SumAll([x \in S |-> f[x] + g[x]]) = SumAll(f) + SumAll(g)
  <1> DEFINE h == [x \in S |-> f[x] + g[x]]
             P == {s \in SUBSET S : SumAll(Part(h, s)) = SumAll(Part(f, s)) + SumAll(Part(g, s))}
  <1>1. h \in [S -> Int] /\ \A x \in S : h[x] = f[x] + g[x]
    OBVIOUS
  <1> HIDE DEF h
  <1>2. {} \in P
    BY <1>1, PartTakesAny
  <1>3. ASSUME NEW s \in SUBSET S, NEW x \in s, s \ {x} \in P PROVE s \in P
    <2>1. s \ {x} \in SUBSET S
      OBVIOUS
    <2>2. /\ SumAll(Part(h, s)) = h[x] + SumAll(Part(h, s \ {x}))
          /\ SumAll(Part(f, s)) = f[x] + SumAll(Part(f, s \ {x}))
          /\ SumAll(Part(g, s)) = g[x] + SumAll(Part(g, s \ {x}))
      BY <1>1, PartTakesAny
    <2>3. SumAll(Part(f, s \ {x})) \in Int /\ SumAll(Part(g, s \ {x})) \in Int
      BY <2>1, PartTakesAny
    <2>4. h[x] = f[x] + g[x] /\ f[x] \in Int /\ g[x] \in Int
      BY <1>1
    <2> QED  BY <1>3, <2>2, <2>3, <2>4
  <1> HIDE DEF P
  <1>4. S \in P
    BY <1>2, <1>3, WholeByTaking
  <1>5. h = Part(h, S) /\ f = Part(f, S) /\ g = Part(g, S)
    BY <1>1 DEF Part
  <1> QED  BY <1>4, <1>5 DEF P, h

(* A sum of naturals is no less than any of them.                          *)
LEMMA SumCoversTerm ==
    ASSUME NEW S, IsFiniteSet(S), NEW f \in [S -> Nat], NEW x \in S
    PROVE  SumAll(f) \in Nat /\ f[x] <= SumAll(f)
  <1>1. f \in [S -> Int] /\ f[x] \in Nat
    OBVIOUS
  <1>2. Part(f, S \ {x}) \in [S \ {x} -> Nat] /\ IsFiniteSet(S \ {x})
    BY FS_Subset DEF Part
  <1>3. SumAll(f) \in Nat /\ SumAll(Part(f, S \ {x})) \in Nat
    BY <1>2, SumIsNatural
  <1>4. SumAll(f) = f[x] + SumAll(Part(f, S \ {x}))
    BY <1>1, SumWithout
  <1> QED  BY <1>1, <1>3, <1>4

(* Floored shares of an amount, by weight, never exceed it together.       *)
LEMMA SharesWithin ==
    ASSUME NEW S, IsFiniteSet(S), NEW w \in [S -> Nat], NEW c \in Nat,
           SumAll(w) # 0
    PROVE  /\ [x \in S |-> (c * w[x]) \div SumAll(w)] \in [S -> Nat]
           /\ SumAll([x \in S |-> (c * w[x]) \div SumAll(w)]) <= c
  <1> DEFINE d == SumAll(w)
             r == [x \in S |-> (c * w[x]) \div d]
             P == {s \in SUBSET S : d * SumAll(Part(r, s)) <= c * SumAll(Part(w, s))}
  <1>1. d \in Nat \ {0}
    BY SumIsNatural
  <1> HIDE DEF d
  <1>2. ASSUME NEW x \in S PROVE r[x] \in Nat /\ d * r[x] <= c * w[x]
    <2>1. c * w[x] \in Nat
      OBVIOUS
    <2> DEFINE m == c * w[x]
    <2>2. m \in Nat /\ r[x] = m \div d
      BY <2>1
    <2> HIDE DEF m, r
    <2>3. m \div d \in Nat /\ d * (m \div d) <= m
      BY <1>1, <2>2
    <2> QED  BY <2>2, <2>3 DEF m
  <1>3. r \in [S -> Nat] /\ r \in [S -> Int] /\ w \in [S -> Int]
    BY <1>2
  <1> HIDE DEF r
  <1>4. {} \in P
    BY <1>1, <1>3, PartTakesAny
  <1>5. ASSUME NEW s \in SUBSET S, NEW x \in s, s \ {x} \in P PROVE s \in P
    <2> DEFINE R == SumAll(Part(r, s \ {x}))
               W == SumAll(Part(w, s \ {x}))
    <2>1. s \ {x} \in SUBSET S
      OBVIOUS
    <2>2. SumAll(Part(r, s)) = r[x] + R /\ SumAll(Part(w, s)) = w[x] + W
      BY <1>3, PartTakesAny
    <2>3. R \in Int /\ W \in Int
      BY <1>3, <2>1, PartTakesAny
    <2>4. d * R <= c * W
      BY <1>5
    <2> HIDE DEF R, W
    <2>5. r[x] \in Nat /\ w[x] \in Nat /\ d * r[x] <= c * w[x]
      BY <1>2
    <2>6. d * (r[x] + R) = d * r[x] + d * R /\ c * (w[x] + W) = c * w[x] + c * W
      BY <1>1, <2>3, <2>5
    <2>7. /\ d * r[x] \in Int /\ d * R \in Int /\ c * w[x] \in Int /\ c * W \in Int
      BY <1>1, <2>3, <2>5
    <2>8. d * (r[x] + R) <= c * (w[x] + W)
      BY <2>4, <2>5, <2>6, <2>7
    <2> QED  BY <2>2, <2>8
  <1> HIDE DEF P
  <1>6. S \in P
    BY <1>4, <1>5, WholeByTaking
  <1>7. r = Part(r, S) /\ w = Part(w, S)
    BY <1>3 DEF Part
  <1>8. d * SumAll(r) <= c * d
    BY <1>6, <1>7 DEF P, d
  <1>9. SumAll(r) \in Nat
    BY <1>3, SumIsNatural
  <1>10. SumAll(r) <= c
    <2> DEFINE R == SumAll(r)
    <2>1. R \in Nat /\ d * R <= c * d
      BY <1>8, <1>9
    <2> HIDE DEF R
    <2>2. R <= c
      <3> SUFFICES ASSUME R >= c + 1 PROVE FALSE
        BY <2>1
      <3>1. d * R >= d * (c + 1)
        BY <1>1, <2>1
      <3>2. d * (c + 1) = c * d + d /\ c * d \in Nat
        BY <1>1
      <3> QED  BY <1>1, <2>1, <3>1, <3>2
    <2> QED  BY <2>2 DEF R
  <1> QED  BY <1>3, <1>10 DEF r, d

-----------------------------------------------------------------------------
(* Recursion *)

(* The i-th step from x leads to F[<<i, x>>].                              *)
IsStepped(g, T, n, base, F) ==
    /\ g \in [0 .. n -> T] /\ g[0] = base
    /\ \A i \in 1 .. n : g[i] = F[<<i, g[i - 1]>>]

(* There is a function that takes so many steps, when every step leads     *)
(* from a member of T to another.                                          *)
LEMMA StepsExist ==
    ASSUME NEW T, NEW n \in Nat, NEW base \in T, NEW F \in [(1 .. n) \X T -> T]
    PROVE  \E g : IsStepped(g, T, n, base, F)
  <1> DEFINE Rule(g, k) == /\ g \in [0 .. k -> T] /\ g[0] = base
                           /\ \A i \in 1 .. k : g[i] = F[<<i, g[i - 1]>>]
             P == {k \in 0 .. n : \E g : Rule(g, k)}
  <1>1. 0 \in P
    <2>1. Rule([i \in 0 .. 0 |-> base], 0)
      OBVIOUS
    <2> HIDE DEF Rule
    <2> QED  BY <2>1
  <1>2. ASSUME NEW k \in 1 .. n, k - 1 \in P PROVE k \in P
    <2>1. PICK g : Rule(g, k - 1)
      BY <1>2
    <2> DEFINE x == F[<<k, g[k - 1]>>]
               h == [i \in 0 .. k |-> IF i = k THEN x ELSE g[i]]
    <2>2. g[k - 1] \in T /\ x \in T
      BY <2>1
    <2> HIDE DEF x
    <2>3. h \in [0 .. k -> T] /\ h[0] = base /\ h[k] = x /\ \A i \in 0 .. k - 1 : h[i] = g[i]
      BY <2>1, <2>2
    <2>4. ASSUME NEW i \in 1 .. k PROVE h[i] = F[<<i, h[i - 1]>>]
      <3>1. i - 1 \in 0 .. k - 1 /\ h[i - 1] = g[i - 1]
        BY <2>3
      <3>2. CASE i = k
        BY <2>3, <3>1, <3>2 DEF x
      <3>3. CASE i # k
        <4>1. i \in 1 .. k - 1 /\ i \in 0 .. k - 1
          BY <3>3
        <4> QED  BY <2>1, <2>3, <3>1, <4>1
      <3> QED  BY <3>2, <3>3
    <2> HIDE DEF h
    <2>5. Rule(h, k)
      BY <2>3, <2>4
    <2> HIDE DEF Rule
    <2> QED  BY <2>5
  <1> HIDE DEF P
  <1>3. n \in P
    BY <1>1, <1>2, CountingUp
  <1> QED  BY <1>3 DEF P, IsStepped

-----------------------------------------------------------------------------
(* Folds over sequences *)

Folded(base, s) == FoldLeft(Op, base, s)

(* A nonempty set of indices has a largest one.                            *)
LEMMA MaxOfIndices ==
    ASSUME NEW n \in Nat, NEW s \in SUBSET (1 .. n), s # {}
    PROVE  Max(s) \in s /\ Max(s) \in 1 .. n /\ \A y \in s : Max(s) >= y
  <1> DEFINE Bounded == {k \in Nat : \A d \in SUBSET (1 .. k) :
                                        d # {} => \E x \in d : \A y \in d : x >= y}
  <1>1. 0 \in Bounded
    <2>1. \A d \in SUBSET (1 .. 0) : d = {}
      OBVIOUS
    <2> QED  BY <2>1
  <1>2. ASSUME NEW k \in Nat, k \in Bounded PROVE k + 1 \in Bounded
    <2> SUFFICES ASSUME NEW d \in SUBSET (1 .. k + 1), d # {}
                 PROVE  \E x \in d : \A y \in d : x >= y
      OBVIOUS
    <2>1. CASE k + 1 \in d
      BY <2>1
    <2>2. CASE k + 1 \notin d
      <3>1. \A y \in d : y \in 1 .. k
        BY <2>2
      <3> QED  BY <1>2, <3>1
    <2> QED  BY <2>1, <2>2
  <1> HIDE DEF Bounded
  <1>3. n \in Bounded
    BY <1>1, <1>2, NaturalsBySuccessor
  <1>4. \E x \in s : \A y \in s : x >= y
    BY <1>3 DEF Bounded
  <1> QED  BY <1>4 DEF Max

(* The fold, on every set of indices.                                      *)
IsIter(h, base, s, n) ==
    h = [d \in SUBSET (1 .. n) |-> IF d = {} THEN base ELSE Op(h[d \ {Max(d)}], s[Max(d)])]

(* The recursion along a sequence of any length has a solution.            *)
LEMMA IterExists ==
    ASSUME NEW base, NEW s, NEW n \in Nat
    PROVE  \E h : IsIter(h, base, s, n)
  <1> DEFINE Reached == {k \in Nat : \E h : IsIter(h, base, s, k)}
  <1>1. 0 \in Reached
    <2> DEFINE h == [d \in SUBSET (1 .. 0) |-> base]
    <2>1. \A d \in SUBSET (1 .. 0) : d = {}
      OBVIOUS
    <2>2. h = [d \in SUBSET (1 .. 0) |-> IF d = {} THEN base ELSE Op(h[d \ {Max(d)}], s[Max(d)])]
      BY <2>1
    <2> HIDE DEF h
    <2>3. IsIter(h, base, s, 0)
      BY <2>2 DEF IsIter
    <2> QED  BY <2>3
  <1>2. ASSUME NEW k \in Nat, k \in Reached PROVE k + 1 \in Reached
    <2>1. PICK g : IsIter(g, base, s, k)
      BY <1>2
    <2> DEFINE h == [d \in SUBSET (1 .. k + 1) |->
                       IF d = {} THEN base ELSE Op(g[d \ {Max(d)}], s[Max(d)])]
    <2>2. ASSUME NEW d \in SUBSET (1 .. k) PROVE d \in SUBSET (1 .. k + 1) /\ h[d] = g[d]
      <3>1. d \in SUBSET (1 .. k + 1)
        OBVIOUS
      <3>2. g[d] = IF d = {} THEN base ELSE Op(g[d \ {Max(d)}], s[Max(d)])
        BY <2>1 DEF IsIter
      <3> QED  BY <3>1, <3>2
    <2>3. ASSUME NEW d \in SUBSET (1 .. k + 1), d # {} PROVE d \ {Max(d)} \in SUBSET (1 .. k)
      <3>1. k + 1 \in Nat
        OBVIOUS
      <3>2. Max(d) \in 1 .. k + 1 /\ \A y \in d : Max(d) >= y
        BY <2>3, <3>1, MaxOfIndices
      <3>3. ASSUME NEW y \in d, y # Max(d) PROVE y \in 1 .. k
        BY <3>2, <3>3
      <3> QED  BY <3>3
    <2>4. ASSUME NEW d \in SUBSET (1 .. k + 1)
          PROVE  h[d] = IF d = {} THEN base ELSE Op(h[d \ {Max(d)}], s[Max(d)])
      BY <2>2, <2>3
    <2>5. h = [d \in SUBSET (1 .. k + 1) |-> h[d]]
      OBVIOUS
    <2> HIDE DEF h
    <2>6. IsIter(h, base, s, k + 1)
      BY <2>4, <2>5 DEF IsIter
    <2> QED  BY <2>6
  <1> HIDE DEF Reached
  <1>3. n \in Reached
    BY <1>1, <1>2, NaturalsBySuccessor
  <1> QED  BY <1>3 DEF Reached

(* What has been folded after each element.                                *)
IsRun(g, base, s) ==
    g = [i \in 0 .. Len(s) |-> IF i = 0 THEN base ELSE Op(g[i - 1], s[i])]

(* A fold over a sequence takes its elements from left to right.           *)
LEMMA FoldLeftRuns ==
    ASSUME NEW T, NEW s \in Seq(T), NEW base
    PROVE  \E g : IsRun(g, base, s) /\ Folded(base, s) = g[Len(s)]
  <1> DEFINE n == Len(s)
             h == CHOOSE h : IsIter(h, base, s, n)
             g == [i \in 0 .. n |-> h[1 .. i]]
  <1>1. n \in Nat /\ DOMAIN s = 1 .. n
    OBVIOUS
  <1>2. IsIter(h, base, s, n)
    BY <1>1, IterExists
  <1>3. Folded(base, s) = h[1 .. n]
    BY <1>1 DEF Folded, FoldLeft, MapThenFoldSet, IsIter
  <1> HIDE DEF n, h
  <1>4. g[0] = base
    <2>1. 1 .. 0 = {} /\ {} \in SUBSET (1 .. n) /\ 0 \in 0 .. n
      BY <1>1
    <2>2. h[{}] = base
      BY <1>2, <2>1 DEF IsIter
    <2> QED  BY <2>1, <2>2
  <1>5. ASSUME NEW i \in 1 .. n PROVE g[i] = Op(g[i - 1], s[i])
    <2>1. 1 .. i \in SUBSET (1 .. n) /\ 1 .. i # {} /\ i \in Nat /\ i \in 1 .. i
      BY <1>1
    <2>2. Max(1 .. i) \in 1 .. i /\ Max(1 .. i) >= i
      BY <2>1, MaxOfIndices
    <2>3. Max(1 .. i) = i
      BY <2>1, <2>2
    <2>4. (1 .. i) \ {i} = 1 .. (i - 1)
      BY <2>1
    <2>5. h[1 .. i] = Op(h[1 .. (i - 1)], s[i])
      BY <1>2, <2>1, <2>3, <2>4 DEF IsIter
    <2>6. i \in 0 .. n /\ i - 1 \in 0 .. n
      BY <1>1
    <2> QED  BY <2>5, <2>6
  <1>6. g = [i \in 0 .. n |-> g[i]]
    OBVIOUS
  <1>7. Folded(base, s) = g[n]
    BY <1>1, <1>3
  <1> HIDE DEF g
  <1>8. g = [i \in 0 .. n |-> IF i = 0 THEN base ELSE Op(g[i - 1], s[i])]
    <2>1. ASSUME NEW i \in 0 .. n PROVE g[i] = IF i = 0 THEN base ELSE Op(g[i - 1], s[i])
      <3>1. CASE i = 0
        BY <3>1, <1>4
      <3>2. CASE i # 0
        BY <3>2, <1>1, <1>5
      <3> QED  BY <3>1, <3>2
    <2> QED  BY <2>1, <1>6
  <1> QED  BY <1>7, <1>8 DEF IsRun, n

(* What holds before the first element, and after an element if it held    *)
(* before, holds of the fold.                                              *)
LEMMA FoldLeftReaches ==
    ASSUME NEW T, NEW s \in Seq(T), NEW base, NEW reached,
           <<0, base>> \in reached,
           \A i \in 1 .. Len(s) : \A v :
               <<i - 1, v>> \in reached => <<i, Op(v, s[i])>> \in reached
    PROVE  <<Len(s), Folded(base, s)>> \in reached
  <1>1. PICK g : IsRun(g, base, s) /\ Folded(base, s) = g[Len(s)]
    BY FoldLeftRuns
  <1> DEFINE P == {i \in 0 .. Len(s) : <<i, g[i]>> \in reached}
  <1>2. Len(s) \in Nat
    OBVIOUS
  <1>3. 0 \in P
    BY <1>1, <1>2 DEF IsRun
  <1>4. ASSUME NEW i \in 1 .. Len(s), i - 1 \in P PROVE i \in P
    <2>1. g[i] = Op(g[i - 1], s[i])
      BY <1>1, <1>2 DEF IsRun
    <2> QED  BY <1>2, <1>4, <2>1
  <1> HIDE DEF P
  <1>5. \A i \in 0 .. Len(s) : i \in P
    BY <1>2, <1>3, <1>4, CountingUp
  <1>6. Len(s) \in P
    BY <1>2, <1>5
  <1> QED  BY <1>1, <1>6 DEF P

(* A fold over no element is what it started with.                         *)
LEMMA FoldLeftOfNone ==
    ASSUME NEW base
    PROVE  Folded(base, <<>>) = base
  <1>1. <<>> \in Seq({}) /\ Len(<<>>) = 0
    OBVIOUS
  <1>2. PICK g : IsRun(g, base, <<>>) /\ Folded(base, <<>>) = g[Len(<<>>)]
    BY <1>1, FoldLeftRuns
  <1>3. g[0] = base
    BY <1>1, <1>2 DEF IsRun
  <1> QED  BY <1>1, <1>2, <1>3

(* The first step of a run, and any other.                                 *)
LEMMA RunSteps ==
    ASSUME NEW T, NEW s \in Seq(T), NEW base, NEW g, IsRun(g, base, s)
    PROVE  g[0] = base /\ \A i \in 1 .. Len(s) : g[i] = Op(g[i - 1], s[i])
  BY Len(s) \in Nat DEF IsRun

(* A fold over one sequence after another starts the second where the      *)
(* first ends.                                                             *)
LEMMA FoldLeftJoined ==
    ASSUME NEW T, NEW s \in Seq(T), NEW t \in Seq(T), NEW base
    PROVE  Folded(base, s \o t) = Folded(Folded(base, s), t)
  <1>1. /\ s \o t \in Seq(T) /\ Len(s) \in Nat /\ Len(t) \in Nat
        /\ Len(s \o t) = Len(s) + Len(t)
        /\ \A i \in 1 .. Len(s) : (s \o t)[i] = s[i]
        /\ \A i \in 1 .. Len(t) : (s \o t)[Len(s) + i] = t[i]
    OBVIOUS
  <1>2. PICK g : IsRun(g, base, s \o t) /\ Folded(base, s \o t) = g[Len(s \o t)]
    BY <1>1, FoldLeftRuns
  <1>3. PICK h : IsRun(h, base, s) /\ Folded(base, s) = h[Len(s)]
    BY FoldLeftRuns
  <1>4. PICK k : IsRun(k, Folded(base, s), t) /\ Folded(Folded(base, s), t) = k[Len(t)]
    BY FoldLeftRuns
  <1> DEFINE P == {i \in Nat : g[i] = h[i]}
             Q == {i \in Nat : g[Len(s) + i] = k[i]}
  <1>5. /\ g[0] = base /\ \A i \in 1 .. Len(s) + Len(t) : g[i] = Op(g[i - 1], (s \o t)[i])
        /\ h[0] = base /\ \A i \in 1 .. Len(s) : h[i] = Op(h[i - 1], s[i])
        /\ k[0] = Folded(base, s) /\ \A i \in 1 .. Len(t) : k[i] = Op(k[i - 1], t[i])
    <2>1. g[0] = base /\ \A i \in 1 .. Len(s \o t) : g[i] = Op(g[i - 1], (s \o t)[i])
      <3> DEFINE u == s \o t
      <3>1. u \in Seq(T) /\ IsRun(g, base, u)
        BY <1>1, <1>2
      <3> HIDE DEF u
      <3>2. g[0] = base /\ \A i \in 1 .. Len(u) : g[i] = Op(g[i - 1], u[i])
        BY <3>1, RunSteps
      <3> QED  BY <3>2 DEF u
    <2>2. h[0] = base /\ \A i \in 1 .. Len(s) : h[i] = Op(h[i - 1], s[i])
      BY <1>3, RunSteps
    <2>3. k[0] = Folded(base, s) /\ \A i \in 1 .. Len(t) : k[i] = Op(k[i - 1], t[i])
      BY <1>4, RunSteps
    <2> QED  BY <1>1, <2>1, <2>2, <2>3
  <1>6. ASSUME NEW i \in 1 .. Len(s), i - 1 \in P PROVE i \in P
    <2>1. i \in 1 .. Len(s) + Len(t) /\ i \in Nat
      BY <1>1
    <2> QED  BY <1>1, <1>5, <1>6, <2>1
  <1>7. \A i \in 0 .. Len(s) : i \in P
    BY <1>1, <1>5, <1>6, CountingUp
  <1>8. 0 \in Q
    <2>1. Len(s) + 0 = Len(s) /\ Len(s) \in P
      BY <1>1, <1>7
    <2> QED  BY <1>3, <1>5, <2>1
  <1>9. ASSUME NEW i \in 1 .. Len(t), i - 1 \in Q PROVE i \in Q
    <2>1. Len(s) + i \in 1 .. Len(s) + Len(t) /\ i \in Nat /\ (Len(s) + i) - 1 = Len(s) + (i - 1)
      BY <1>1
    <2>2. g[Len(s) + i] = Op(g[Len(s) + (i - 1)], (s \o t)[Len(s) + i])
      BY <1>5, <2>1
    <2>3. g[Len(s) + (i - 1)] = k[i - 1]
      BY <1>9
    <2>4. g[Len(s) + i] = k[i]
      BY <1>1, <1>5, <2>2, <2>3
    <2> QED  BY <2>1, <2>4
  <1> HIDE DEF Q
  <1>10. \A i \in 0 .. Len(t) : i \in Q
    BY <1>1, <1>8, <1>9, CountingUp
  <1>11. Len(t) \in Q
    BY <1>1, <1>10
  <1> QED  BY <1>1, <1>2, <1>4, <1>11 DEF Q

(* A fold over one element more.                                           *)
LEMMA FoldLeftAppend ==
    ASSUME NEW T, NEW s \in Seq(T), NEW x \in T, NEW base
    PROVE  Folded(base, Append(s, x)) = Op(Folded(base, s), x)
  <1> DEFINE t == <<x>>
  <1>1. t \in Seq(T) /\ Len(t) = 1 /\ t[1] = x /\ Append(s, x) = s \o t
    OBVIOUS
  <1> HIDE DEF t
  <1>2. Folded(base, s \o t) = Folded(Folded(base, s), t)
    BY <1>1, FoldLeftJoined
  <1> DEFINE start == Folded(base, s)
  <1>3. PICK g : IsRun(g, start, t) /\ Folded(start, t) = g[Len(t)]
    BY <1>1, FoldLeftRuns
  <1>4. g[0] = start /\ g[1] = Op(g[0], t[1])
    <2>1. g[0] = start /\ \A i \in 1 .. Len(t) : g[i] = Op(g[i - 1], t[i])
      BY <1>1, <1>3, RunSteps
    <2>2. 1 \in 1 .. Len(t) /\ 1 - 1 = 0
      BY <1>1
    <2> QED  BY <2>1, <2>2
  <1> QED  BY <1>1, <1>2, <1>3, <1>4

-----------------------------------------------------------------------------
(* Sequences joined *)

(* The concatenation of sequences, one after another.                      *)
IsFlat(f, seqs) ==
    f = [i \in 1 .. Len(seqs) |-> IF i = 1 THEN seqs[i] ELSE f[i - 1] \o seqs[i]]
Flat(seqs) == CHOOSE f : IsFlat(f, seqs)

(* FlattenSeq is the last value of its own recursion.                      *)
LEMMA FlattenIsLast ==
    ASSUME NEW T, NEW seqs \in Seq(Seq(T)), Len(seqs) # 0
    PROVE  FlattenSeq(seqs) = Flat(seqs)[Len(seqs)]
  BY DEF FlattenSeq, Flat, IsFlat

(* That recursion has a solution, so CHOOSE finds one.                     *)
LEMMA FlatExists ==
    ASSUME NEW T, NEW seqs \in Seq(Seq(T))
    PROVE  \E f : IsFlat(f, seqs)
  <1> DEFINE Rule(f, n) == f = [i \in 1 .. n |-> IF i = 1 THEN seqs[i] ELSE f[i - 1] \o seqs[i]]
             Reached == {n \in Nat : \E f : Rule(f, n)}
  <1>1. 0 \in Reached
    <2> DEFINE f == [i \in 1 .. 0 |-> <<>>]
    <2>1. f = [i \in 1 .. 0 |-> IF i = 1 THEN seqs[i] ELSE f[i - 1] \o seqs[i]]
      OBVIOUS
    <2>2. Rule(f, 0)
      BY <2>1
    <2> HIDE DEF f, Rule
    <2> QED  BY <2>2
  <1>2. ASSUME NEW n \in Nat, n \in Reached PROVE n + 1 \in Reached
    <2>1. PICK g : Rule(g, n)
      BY <1>2
    <2> DEFINE h == [i \in 1 .. n + 1 |-> IF i = 1 THEN seqs[i] ELSE g[i - 1] \o seqs[i]]
    <2>2. ASSUME NEW i \in 1 .. n PROVE h[i] = g[i]
      <3>1. i \in 1 .. n + 1
        OBVIOUS
      <3>2. g[i] = IF i = 1 THEN seqs[i] ELSE g[i - 1] \o seqs[i]
        BY <2>1
      <3> QED  BY <3>1, <3>2
    <2>3. ASSUME NEW i \in 1 .. n + 1
          PROVE  h[i] = IF i = 1 THEN seqs[i] ELSE h[i - 1] \o seqs[i]
      <3>1. CASE i = 1
        BY <3>1
      <3>2. CASE i # 1
        <4>1. i - 1 \in 1 .. n
          BY <3>2
        <4>2. h[i - 1] = g[i - 1]
          BY <2>2, <4>1
        <4> QED  BY <3>2, <4>2
      <3> QED  BY <3>1, <3>2
    <2>4. h = [i \in 1 .. n + 1 |-> h[i]]
      OBVIOUS
    <2> HIDE DEF h
    <2>5. h = [i \in 1 .. n + 1 |-> IF i = 1 THEN seqs[i] ELSE h[i - 1] \o seqs[i]]
      BY <2>3, <2>4
    <2>6. Rule(h, n + 1)
      BY <2>5
    <2> HIDE DEF Rule
    <2> QED  BY <2>6
  <1> HIDE DEF Reached
  <1>3. Len(seqs) \in Reached
    BY <1>1, <1>2, NaturalsBySuccessor
  <1> QED  BY <1>3 DEF Reached, IsFlat

(* The members of two sequences joined.                                    *)
LEMMA JoinedMembers ==
    ASSUME NEW T, NEW s \in Seq(T), NEW t \in Seq(T)
    PROVE  s \o t \in Seq(T) /\ ToSet(s \o t) = ToSet(s) \cup ToSet(t)
  <1>1. /\ s \o t \in Seq(T) /\ Len(s) \in Nat /\ Len(t) \in Nat
        /\ Len(s \o t) = Len(s) + Len(t)
        /\ \A i \in 1 .. Len(s) : (s \o t)[i] = s[i]
        /\ \A i \in 1 .. Len(t) : (s \o t)[Len(s) + i] = t[i]
    OBVIOUS
  <1>2. DOMAIN s = 1 .. Len(s) /\ DOMAIN t = 1 .. Len(t) /\ DOMAIN (s \o t) = 1 .. Len(s \o t)
    BY <1>1
  <1>3. ASSUME NEW i \in 1 .. Len(s \o t) PROVE (s \o t)[i] \in ToSet(s) \cup ToSet(t)
    <2>1. CASE i <= Len(s)
      BY <1>1, <1>2, <2>1 DEF ToSet
    <2>2. CASE i > Len(s)
      <3>1. i - Len(s) \in 1 .. Len(t) /\ Len(s) + (i - Len(s)) = i
        BY <1>1, <2>2
      <3> QED  BY <1>1, <1>2, <3>1 DEF ToSet
    <2> QED  BY <1>1, <2>1, <2>2
  <1>4. ASSUME NEW i \in 1 .. Len(s) PROVE s[i] \in ToSet(s \o t)
    BY <1>1, <1>2 DEF ToSet
  <1>5. ASSUME NEW i \in 1 .. Len(t) PROVE t[i] \in ToSet(s \o t)
    <2>1. Len(s) + i \in 1 .. Len(s \o t)
      BY <1>1
    <2> QED  BY <1>1, <1>2, <2>1 DEF ToSet
  <1>6. ToSet(s \o t) \subseteq ToSet(s) \cup ToSet(t)
    BY <1>2, <1>3 DEF ToSet
  <1>7. ToSet(s) \subseteq ToSet(s \o t)
    BY <1>2, <1>4 DEF ToSet
  <1>8. ToSet(t) \subseteq ToSet(s \o t)
    BY <1>2, <1>5 DEF ToSet
  <1> QED  BY <1>1, <1>6, <1>7, <1>8

-----------------------------------------------------------------------------
(* Folds over sets *)

SetFolded(base, S) == FoldSet(Op, base, S)

IsSetIter(h, base, S) ==
    h = [s \in SUBSET S |-> IF s = {} THEN base ELSE Op(Taken(s), h[s \ {Taken(s)}])]

(* The recursion along a finite set has a solution.                        *)
LEMMA SetIterExists ==
    ASSUME NEW S, IsFiniteSet(S), NEW base
    PROVE  \E h : IsSetIter(h, base, S)
  <1> DEFINE Parts(n) == {s \in SUBSET S : Cardinality(s) <= n}
             OnParts(g, n) ==
               g = [s \in Parts(n) |-> IF s = {} THEN base ELSE Op(Taken(s), g[s \ {Taken(s)}])]
             Reached == {n \in Nat : \E g : OnParts(g, n)}
  <1>1. 0 \in Reached
    <2> DEFINE g == [s \in Parts(0) |-> base]
    <2>1. ASSUME NEW s \in Parts(0) PROVE s = {}
      <3>1. IsFiniteSet(s) /\ Cardinality(s) \in Nat /\ Cardinality(s) <= 0
        BY FS_Subset, FS_CardinalityType
      <3> QED  BY <3>1, FS_EmptySet
    <2>2. g = [s \in Parts(0) |-> IF s = {} THEN base ELSE Op(Taken(s), g[s \ {Taken(s)}])]
      BY <2>1
    <2>3. OnParts(g, 0)
      BY <2>2
    <2> HIDE DEF g, OnParts
    <2> QED  BY <2>3
  <1>2. ASSUME NEW n \in Nat, n \in Reached PROVE n + 1 \in Reached
    <2>1. PICK g : OnParts(g, n)
      BY <1>2
    <2> DEFINE h == [s \in Parts(n + 1) |->
                       IF s = {} THEN base ELSE Op(Taken(s), g[s \ {Taken(s)}])]
    <2>2. ASSUME NEW s \in Parts(n) PROVE s \in Parts(n + 1) /\ h[s] = g[s]
      <3>1. s \in Parts(n + 1)
        BY FS_Subset, FS_CardinalityType
      <3>2. g[s] = IF s = {} THEN base ELSE Op(Taken(s), g[s \ {Taken(s)}])
        BY <2>1
      <3> QED  BY <3>1, <3>2
    <2>3. ASSUME NEW s \in Parts(n + 1), s # {} PROVE s \ {Taken(s)} \in Parts(n)
      BY <2>3, TakenLeavesOneLess
    <2>4. ASSUME NEW s \in Parts(n + 1)
          PROVE  h[s] = IF s = {} THEN base ELSE Op(Taken(s), h[s \ {Taken(s)}])
      BY <2>2, <2>3
    <2>5. h = [s \in Parts(n + 1) |-> h[s]]
      OBVIOUS
    <2> HIDE DEF h, Parts
    <2>6. OnParts(h, n + 1)
      BY <2>4, <2>5
    <2> HIDE DEF OnParts
    <2> QED  BY <2>6
  <1> HIDE DEF Reached
  <1>3. Cardinality(S) \in Reached
    BY <1>1, <1>2, NaturalsBySuccessor, FS_CardinalityType
  <1>4. Parts(Cardinality(S)) = SUBSET S
    BY FS_Subset
  <1>5. PICK g : OnParts(g, Cardinality(S))
    BY <1>3 DEF Reached
  <1> QED  BY <1>4, <1>5 DEF IsSetIter

(* What holds of no element, and of a set if it holds of the set without   *)
(* one of its elements, holds of the fold over the whole set.              *)
LEMMA FoldSetReaches ==
    ASSUME NEW S, IsFiniteSet(S), NEW base, NEW reached,
           <<{}, base>> \in reached,
           \A s \in SUBSET S : \A x \in s : \A v :
               <<s \ {x}, v>> \in reached => <<s, Op(x, v)>> \in reached
    PROVE  <<S, SetFolded(base, S)>> \in reached
  <1> DEFINE h == CHOOSE h : IsSetIter(h, base, S)
             P == {s \in SUBSET S : <<s, h[s]>> \in reached}
  <1>1. IsSetIter(h, base, S)
    BY SetIterExists
  <1>2. SetFolded(base, S) = h[S]
    BY DEF SetFolded, FoldSet, MapThenFoldSet, IsSetIter, Taken
  <1> HIDE DEF h
  <1>3. {} \in P
    BY <1>1 DEF IsSetIter
  <1>4. ASSUME NEW s \in SUBSET S, s # {}, s \ {Taken(s)} \in P PROVE s \in P
    <2>1. Taken(s) \in s
      BY <1>4, TakenLeavesOneLess
    <2>2. h[s] = Op(Taken(s), h[s \ {Taken(s)}])
      BY <1>1, <1>4 DEF IsSetIter
    <2> QED  BY <1>4, <2>1, <2>2
  <1> HIDE DEF P
  <1>5. S \in P
    BY <1>3, <1>4, PartsByTaking
  <1> QED  BY <1>2, <1>5 DEF P
=============================================================================
