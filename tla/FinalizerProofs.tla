--------------------------- MODULE FinalizerProofs ---------------------------
(***************************************************************************)
(* Proofs about Finalizer, for any accounts, epochs, blocks, rollbacks and *)
(* failures: the running accrual of the code comes to the balance of every *)
(* second, a dataset says what its epochs owe, no entitlement falls, every *)
(* contribution is owed or carried, and every stored proof verifies.       *)
(***************************************************************************)
EXTENDS FinalizerCorrectness, FiniteSetTheorems, TLAPS

W == INSTANCE FoldProofs WITH Op <- ApplyDelta
D == INSTANCE FoldProofs WITH Op <- AddEpoch
M == INSTANCE FoldProofs WITH Op <- HashPair

(* The levels of a tree are a run that looks at nothing but the last one.  *)
Above(level, any) == NextLevel(level)
L == INSTANCE FoldProofs WITH Op <- Above

-----------------------------------------------------------------------------
(* Sums *)

(* The sums of the model are those of FoldProofs.                          *)
LEMMA TotalIsSum == \A f : Total(f) = W!SumAll(f)
  BY DEF Total, FoldFunction, FoldFunctionOnSet, MapThenFoldSet,
         W!SumAll, W!FoldFunction, W!FoldFunctionOnSet, W!MapThenFoldSet

(* An instance has a copy of what finite means.                            *)
LEMMA Finite == \A S : IsFiniteSet(S) <=> W!IsFiniteSet(S)
  BY DEF IsFiniteSet, W!IsFiniteSet

(* The sum over a finite set, one element apart.                           *)
LEMMA TotalWithout ==
    ASSUME NEW S, IsFiniteSet(S), NEW f \in [S -> Int], NEW x \in S
    PROVE  /\ Total(f) = f[x] + Total([y \in S \ {x} |-> f[y]])
           /\ Total(f) \in Int /\ f[x] \in Int /\ Total([y \in S \ {x} |-> f[y]]) \in Int
  <1> DEFINE g == [y \in S \ {x} |-> f[y]]
  <1>1. W!IsFiniteSet(S) /\ g = W!Part(f, S \ {x}) /\ f[x] \in Int
    BY Finite DEF W!Part
  <1> HIDE DEF g
  <1>2. /\ W!SumAll(f) \in Int /\ W!SumAll(W!Part(f, S \ {x})) \in Int
        /\ W!SumAll(f) = f[x] + W!SumAll(W!Part(f, S \ {x}))
    BY <1>1, W!SumWithout
  <1> QED  BY <1>1, <1>2, TotalIsSum DEF g

(* A sum of integers is one, of naturals too, and that of zeros is zero.   *)
LEMMA TotalTypes ==
    ASSUME NEW S, IsFiniteSet(S), NEW f
    PROVE  /\ f \in [S -> Int] => Total(f) \in Int
           /\ f \in [S -> Nat] => Total(f) \in Nat
           /\ f = [x \in S |-> 0] => Total(f) = 0
  <1>1. W!IsFiniteSet(S)
    BY Finite
  <1>2. f = [x \in S |-> 0] => Total(f) = 0
    BY <1>1, W!SumOfZeros, TotalIsSum
  <1>3. f \in [S -> Nat] => Total(f) \in Nat
    BY <1>1, W!SumIsNatural, TotalIsSum
  <1>4. ASSUME f \in [S -> Int] PROVE Total(f) \in Int
    <2>1. CASE S = {}
      <3>1. f = [x \in S |-> 0]
        BY <1>4, <2>1
      <3> QED  BY <1>2, <3>1
    <2>2. CASE S # {}
      <3>1. PICK x \in S : TRUE
        BY <2>2
      <3> QED  BY <1>4, <3>1, TotalWithout
    <2> QED  BY <2>1, <2>2
  <1> QED  BY <1>2, <1>3, <1>4

(* The sum up to a number is the sum up to the one before, and its term.   *)
LEMMA TotalUpTo ==
    ASSUME NEW lo \in Int, NEW hi \in Int, lo <= hi, NEW f \in [lo .. hi -> Int]
    PROVE  /\ Total(f) = Total([n \in lo .. hi - 1 |-> f[n]]) + f[hi]
           /\ Total([n \in lo .. hi - 1 |-> f[n]]) \in Int /\ f[hi] \in Int
  <1> DEFINE S == lo .. hi
             g == [n \in lo .. hi - 1 |-> f[n]]
  <1>1. IsFiniteSet(S) /\ hi \in S
    BY FS_Interval
  <1>2. S \ {hi} = lo .. hi - 1
    OBVIOUS
  <1>3. f \in [S -> Int]
    OBVIOUS
  <1>4. g = [n \in S \ {hi} |-> f[n]]
    BY <1>2
  <1> HIDE DEF S, g
  <1>5. Total(f) = f[hi] + Total(g) /\ f[hi] \in Int /\ Total(g) \in Int
    BY <1>1, <1>3, <1>4, TotalWithout
  <1>6. Total(f) = Total(g) + f[hi]
    BY <1>5
  <1> QED  BY <1>5, <1>6 DEF g

-----------------------------------------------------------------------------
(* Folds *)

(* The folds of the model are those of FoldProofs.                         *)
LEMMA WIsFold == \A v, s : W!Folded(v, s) = FoldLeft(ApplyDelta, v, s)
  BY DEF W!Folded, W!FoldLeft, W!MapThenFoldSet, W!Max, FoldLeft, MapThenFoldSet, Max
(* The same of the loop over the epochs.                                   *)
LEMMA DIsFold == \A v, s : D!Folded(v, s) = FoldLeft(AddEpoch, v, s)
  BY DEF D!Folded, D!FoldLeft, D!MapThenFoldSet, D!Max, FoldLeft, MapThenFoldSet, Max
(* The same of the climb to the root.                                      *)
LEMMA MIsFold == \A v, s : M!Folded(v, s) = FoldLeft(HashPair, v, s)
  BY DEF M!Folded, M!FoldLeft, M!MapThenFoldSet, M!Max, FoldLeft, MapThenFoldSet, Max

-----------------------------------------------------------------------------
(* Epochs *)

(* An epoch has the seconds from its start until before its end.           *)
LEMMA EpochBounds ==
    ASSUME NEW n \in Nat, NEW e \in Nat
    PROVE  /\ EpochIdAt(n) \in Nat /\ EpochStart(e) \in Nat /\ EpochEnd(e) \in Nat
           /\ EpochStart(e) < EpochEnd(e) /\ EpochEnd(e) = EpochStart(e) + EpochSeconds
           /\ EpochIdAt(n) = e <=> EpochStart(e) <= n /\ n < EpochEnd(e)
  <1> DEFINE E == EpochSeconds
             q == n \div E
  <1>1. E \in Nat \ {0}
    BY StockbackAssumption
  <1> HIDE DEF E
  <1>2. q \in Nat /\ q * E <= n /\ n < (q + 1) * E
    BY <1>1
  <1>3. (e + 1) * E = e * E + E /\ e * E \in Nat
    BY <1>1
  <1>4. ASSUME e * E <= n, n < (e + 1) * E PROVE q = e
    <2> HIDE DEF q
    <2>1. ASSUME q <= e - 1 PROVE FALSE
      <3>1. (q + 1) * E <= e * E
        BY <1>1, <1>2, <2>1
      <3> QED  BY <1>1, <1>2, <1>3, <1>4, <3>1
    <2>2. ASSUME q >= e + 1 PROVE FALSE
      <3>1. q * E >= (e + 1) * E
        BY <1>1, <1>2, <2>2
      <3> QED  BY <1>1, <1>2, <1>3, <1>4, <3>1
    <2> QED  BY <1>2, <2>1, <2>2
  <1> QED  BY <1>1, <1>2, <1>3, <1>4 DEF EpochIdAt, EpochStart, EpochEnd, E

(* Where an epoch begins and ends.                                         *)
LEMMA EpochSpan ==
    ASSUME NEW e \in Nat
    PROVE  EpochStart(e) \in Nat /\ EpochEnd(e) \in Nat /\ EpochStart(e) < EpochEnd(e)
  <1>1. e \in Nat /\ 0 \in Nat
    OBVIOUS
  <1> QED  BY <1>1, EpochBounds

-----------------------------------------------------------------------------
(* The chain *)

Event == [account : Accounts, delta : Int, at : Nat]
BlockType == [moves : Seq(Accounts \X Int), funding : Nat, graduates : BOOLEAN]
ChainOK == blocks \in Seq(BlockType)

Through(m) == IF m < Len(blocks) THEN m ELSE Len(blocks)
MoveOf(n, a, i) == IF blocks[n].moves[i][1] = a THEN blocks[n].moves[i][2] ELSE 0

(* The heights before a time.                                              *)
LEMMA BeforeThrough ==
    ASSUME ChainOK, NEW m \in Int
    PROVE  Before(m + 1) = 1 .. Through(m) /\ Through(m) \in Int /\ Through(m) <= m
           /\ Through(m) <= Len(blocks) /\ IsFiniteSet(Before(m + 1))
  <1>1. Len(blocks) \in Nat
    BY DEF ChainOK
  <1>2. Through(m) \in Int /\ Through(m) <= m /\ Through(m) <= Len(blocks)
    BY <1>1 DEF Through
  <1>3. Before(m + 1) = 1 .. Through(m)
    BY <1>1 DEF Before, Through
  <1> QED  BY <1>2, <1>3, FS_Interval

(* What a block is made of.                                                *)
LEMMA BlockTypes ==
    ASSUME ChainOK, NEW n \in 1 .. Len(blocks)
    PROVE  /\ n \in Nat /\ n \in DOMAIN blocks /\ blocks[n] \in BlockType
           /\ blocks[n].moves \in Seq(Accounts \X Int) /\ blocks[n].funding \in Nat
           /\ Len(blocks[n].moves) \in Nat /\ DOMAIN blocks[n].moves = 1 .. Len(blocks[n].moves)
           /\ \A i \in 1 .. Len(blocks[n].moves) :
                 blocks[n].moves[i][1] \in Accounts /\ blocks[n].moves[i][2] \in Int
  <1>1. Len(blocks) \in Nat /\ DOMAIN blocks = 1 .. Len(blocks) /\ blocks[n] \in BlockType
    BY DEF ChainOK
  <1>2. blocks[n].moves \in Seq(Accounts \X Int) /\ blocks[n].funding \in Nat
    BY <1>1 DEF BlockType
  <1>3. \A i \in 1 .. Len(blocks[n].moves) : blocks[n].moves[i] \in Accounts \X Int
    BY <1>2
  <1> QED  BY <1>1, <1>2, <1>3

(* What an account moved in a block, after so many of its changes.         *)
Moved(n, a, i) == Total([j \in 1 .. i |-> MoveOf(n, a, j)])

(* One change more.                                                        *)
LEMMA MovedOneMore ==
    ASSUME ChainOK, NEW n \in 1 .. Len(blocks), NEW a
    PROVE  /\ Moved(n, a, 0) = 0
           /\ \A i \in 1 .. Len(blocks[n].moves) :
                 /\ Moved(n, a, i) = Moved(n, a, i - 1) + MoveOf(n, a, i)
                 /\ MoveOf(n, a, i) \in Int /\ Moved(n, a, i - 1) \in Int /\ Moved(n, a, i) \in Int
           /\ MovesOf(n, a) = Moved(n, a, Len(blocks[n].moves))
           /\ MovesOf(n, a) \in Int
  <1> DEFINE k == Len(blocks[n].moves)
  <1>1. k \in Nat /\ \A i \in 1 .. k : MoveOf(n, a, i) \in Int
    BY BlockTypes DEF MoveOf
  <1>2. Moved(n, a, 0) = 0
    <2>1. [j \in 1 .. 0 |-> MoveOf(n, a, j)] = [j \in {} |-> 0] /\ IsFiniteSet({})
      BY FS_EmptySet
    <2> QED  BY <2>1, TotalTypes DEF Moved
  <1>3. MovesOf(n, a) = Moved(n, a, k)
    BY BlockTypes DEF MovesOf, Moved, MoveOf
  <1> HIDE DEF k
  <1>4. ASSUME NEW i \in 1 .. k
        PROVE  /\ Moved(n, a, i) = Moved(n, a, i - 1) + MoveOf(n, a, i)
               /\ MoveOf(n, a, i) \in Int /\ Moved(n, a, i - 1) \in Int /\ Moved(n, a, i) \in Int
    <2> DEFINE f == [j \in 1 .. i |-> MoveOf(n, a, j)]
               g == [j \in 1 .. i - 1 |-> MoveOf(n, a, j)]
    <2>1. 1 \in Int /\ i \in Int /\ 1 <= i /\ f \in [1 .. i -> Int] /\ f[i] = MoveOf(n, a, i)
      BY <1>1
    <2>2. g = [j \in 1 .. i - 1 |-> f[j]]
      BY <1>1
    <2>3. Moved(n, a, i) = Total(f) /\ Moved(n, a, i - 1) = Total(g)
      BY DEF Moved
    <2> HIDE DEF f, g
    <2>4. Total(f) = Total(g) + f[i] /\ Total(g) \in Int /\ f[i] \in Int
      BY <2>1, <2>2, TotalUpTo
    <2> QED  BY <2>1, <2>3, <2>4
  <1>5. Moved(n, a, k) \in Int
    <2>1. CASE k = 0
      BY <1>2, <2>1
    <2>2. CASE k # 0
      <3>1. k \in 1 .. k
        BY <1>1, <2>2
      <3> QED  BY <1>4, <3>1
    <2> QED  BY <2>1, <2>2
  <1> QED  BY <1>2, <1>3, <1>4, <1>5 DEF k

(* A balance is nothing at first and moves with each block.                *)
LEMMA BalanceMoves ==
    ASSUME ChainOK, NEW a
    PROVE  /\ \A t \in Int : BalanceAt(a, t) \in Int
           /\ \A t \in Int : t <= 0 => BalanceAt(a, t) = 0
           /\ \A n \in 1 .. Len(blocks) : BalanceAt(a, n) = BalanceAt(a, n - 1) + MovesOf(n, a)
  <1>1. \A n \in 1 .. Len(blocks) : MovesOf(n, a) \in Int
    BY MovedOneMore
  <1> DEFINE f(t) == [n \in Before(t + 1) |-> MovesOf(n, a)]
  <1>2. ASSUME NEW t \in Int PROVE f(t) \in [1 .. Through(t) -> Int]
    BY <1>1, BeforeThrough
  <1>3. ASSUME NEW t \in Int PROVE BalanceAt(a, t) \in Int
    <2>1. Total(f(t)) \in Int
      BY <1>2, BeforeThrough, TotalTypes
    <2> QED  BY <2>1 DEF BalanceAt
  <1>4. ASSUME NEW t \in Int, t <= 0 PROVE BalanceAt(a, t) = 0
    <2>1. Before(t + 1) = {}
      <3>1. Before(t + 1) = 1 .. Through(t) /\ Through(t) \in Int /\ Through(t) <= t
        BY BeforeThrough
      <3> QED  BY <1>4, <3>1
    <2>2. f(t) = [x \in {} |-> 0] /\ IsFiniteSet({})
      BY <2>1, FS_EmptySet
    <2> QED  BY <2>2, TotalTypes DEF BalanceAt
  <1>5. ASSUME NEW n \in 1 .. Len(blocks)
        PROVE  BalanceAt(a, n) = BalanceAt(a, n - 1) + MovesOf(n, a)
    <2>1. n \in Int /\ n - 1 \in Int /\ Through(n) = n /\ Through(n - 1) = n - 1
      BY DEF ChainOK, Through
    <2> DEFINE g == f(n)
               h == f(n - 1)
    <2>2. g \in [1 .. n -> Int] /\ h = [k \in 1 .. n - 1 |-> g[k]] /\ g[n] = MovesOf(n, a)
      <3>1. Before(n + 1) = 1 .. n /\ Before((n - 1) + 1) = 1 .. n - 1
        BY <2>1, BeforeThrough
      <3>2. g = [k \in 1 .. n |-> MovesOf(k, a)] /\ h = [k \in 1 .. n - 1 |-> MovesOf(k, a)]
        BY <3>1
      <3>3. 1 .. n \subseteq 1 .. Len(blocks) /\ 1 .. n - 1 \subseteq 1 .. n /\ n \in 1 .. n
        BY <2>1
      <3> HIDE DEF g, h
      <3> QED  BY <1>1, <3>2, <3>3
    <2>3. BalanceAt(a, n) = Total(g) /\ BalanceAt(a, n - 1) = Total(h)
      BY DEF BalanceAt
    <2> HIDE DEF g, h
    <2>4. Total(g) = Total(h) + g[n]
      BY <2>1, <2>2, TotalUpTo
    <2> QED  BY <2>2, <2>3, <2>4
  <1> QED  BY <1>3, <1>4, <1>5

-----------------------------------------------------------------------------
(* An epoch's weights *)

TwabState == [balances : [Accounts -> Int], weights : [Accounts -> Int], corrupt : BOOLEAN,
              excluded : SUBSET Accounts, last : [Accounts -> Int]]

(* What is accrued is an integer, nothing more of those who are excluded,  *)
(* and one second more brings a balance more of anybody else.              *)
LEMMA AccruedNext ==
    ASSUME NEW v \in TwabState, NEW a \in Accounts, NEW t \in Int
    PROVE  /\ Accrued(v, a, t) \in Int /\ v.balances[a] \in Int
           /\ Accrued(v, a, t + 1) = Accrued(v, a, t) + IF a \in v.excluded THEN 0 ELSE v.balances[a]
  <1> DEFINE w == v.weights[a]
             b == v.balances[a]
             l == v.last[a]
  <1>1. w \in Int /\ b \in Int /\ l \in Int
    BY DEF TwabState
  <1>2. \A u : Accrued(v, a, u) = w + (IF a \in v.excluded THEN 0 ELSE b * (u - l))
    BY DEF Accrued
  <1> HIDE DEF w, l
  <1>3. b * ((t + 1) - l) = b * (t - l) + b /\ b * (t - l) \in Int
    <2> HIDE DEF b
    <2> QED  BY <1>1
  <1> QED  BY <1>1, <1>2, <1>3

(* An event changes the balance of its account, and nobody's accrual up to *)
(* its time.                                                               *)
LEMMA DeltaMoves ==
    ASSUME NEW v \in TwabState, NEW e \in Event
    PROVE  LET u == ApplyDelta(v, e)
           IN  /\ u \in TwabState /\ u.excluded = v.excluded
               /\ \A a \in Accounts :
                     /\ u.balances[a] = v.balances[a] + IF a = e.account THEN e.delta ELSE 0
                     /\ Accrued(u, a, e.at) = Accrued(v, a, e.at)
  <1> DEFINE u == ApplyDelta(v, e)
             c == e.account
             now == Accrued(v, c, e.at)
             next == v.balances[c] + e.delta
             bad == v.corrupt \/ next < 0
  <1>1. c \in Accounts /\ e.delta \in Int /\ e.at \in Int
    BY DEF Event
  <1>2. /\ v.balances \in [Accounts -> Int] /\ v.weights \in [Accounts -> Int]
        /\ v.last \in [Accounts -> Int] /\ v.excluded \in SUBSET Accounts /\ v.corrupt \in BOOLEAN
    BY DEF TwabState
  <1>3. now \in Int /\ next \in Int /\ bad \in BOOLEAN
    BY <1>1, <1>2, AccruedNext
  <1>4. u = [v EXCEPT !.weights[c] = now, !.last[c] = e.at, !.balances[c] = next, !.corrupt = bad]
    BY DEF ApplyDelta
  <1> HIDE DEF u, now, next, bad
  <1>5. /\ u.balances = [v.balances EXCEPT ![c] = next] /\ u.weights = [v.weights EXCEPT ![c] = now]
        /\ u.last = [v.last EXCEPT ![c] = e.at] /\ u.excluded = v.excluded /\ u.corrupt = bad
    BY <1>4 DEF TwabState
  <1>6. u \in TwabState
    <2>1. u = [balances |-> u.balances, weights |-> u.weights, corrupt |-> u.corrupt,
               excluded |-> u.excluded, last |-> u.last]
      BY <1>4 DEF TwabState
    <2>2. /\ u.balances \in [Accounts -> Int] /\ u.weights \in [Accounts -> Int]
          /\ u.last \in [Accounts -> Int] /\ u.excluded \in SUBSET Accounts /\ u.corrupt \in BOOLEAN
      BY <1>1, <1>2, <1>3, <1>5
    <2> QED  BY <2>1, <2>2 DEF TwabState
  <1>7. ASSUME NEW a \in Accounts
        PROVE  /\ u.balances[a] = v.balances[a] + IF a = c THEN e.delta ELSE 0
               /\ Accrued(u, a, e.at) = Accrued(v, a, e.at)
    <2>1. CASE a = c
      <3>1. u.balances[a] = next /\ u.weights[a] = now /\ u.last[a] = e.at
        BY <1>1, <1>2, <1>5, <2>1
      <3>2. next * (e.at - e.at) = 0
        BY <1>1, <1>3
      <3>3. Accrued(u, a, e.at) = now
        BY <1>3, <3>1, <3>2 DEF Accrued
      <3> QED  BY <2>1, <3>1, <3>3 DEF now, next
    <2>2. CASE a # c
      <3>1. u.balances[a] = v.balances[a] /\ u.weights[a] = v.weights[a] /\ u.last[a] = v.last[a]
        BY <1>1, <1>2, <1>5, <2>2
      <3> QED  BY <1>2, <1>5, <2>2, <3>1 DEF Accrued
    <2> QED  BY <2>1, <2>2
  <1> QED  BY <1>5, <1>6, <1>7 DEF u

(* The events of a block.                                                  *)
LEMMA BlockEvents ==
    ASSUME ChainOK, NEW n \in 1 .. Len(blocks)
    PROVE  /\ EventsAt(n) \in Seq(Event) /\ Len(EventsAt(n)) = Len(blocks[n].moves)
           /\ \A i \in 1 .. Len(blocks[n].moves) :
                 /\ EventsAt(n)[i] \in Event
                 /\ EventsAt(n)[i].at = n /\ EventsAt(n)[i].account = blocks[n].moves[i][1]
                 /\ EventsAt(n)[i].delta = blocks[n].moves[i][2]
  <1> DEFINE k == Len(blocks[n].moves)
             ev(i) == [account |-> blocks[n].moves[i][1], delta |-> blocks[n].moves[i][2], at |-> n]
  <1>1. /\ n \in Nat /\ k \in Nat /\ DOMAIN blocks[n].moves = 1 .. k
        /\ \A i \in 1 .. k : blocks[n].moves[i][1] \in Accounts /\ blocks[n].moves[i][2] \in Int
    BY BlockTypes
  <1>2. EventsAt(n) = [i \in 1 .. k |-> ev(i)]
    BY <1>1 DEF EventsAt
  <1>3. \A i \in 1 .. k : ev(i) \in Event
    BY <1>1 DEF Event
  <1>4. \A i : /\ ev(i).at = n /\ ev(i).account = blocks[n].moves[i][1]
               /\ ev(i).delta = blocks[n].moves[i][2]
    OBVIOUS
  <1> HIDE DEF ev
  <1>5. EventsAt(n) \in Seq(Event) /\ Len(EventsAt(n)) = k /\ \A i \in 1 .. k : EventsAt(n)[i] = ev(i)
    <2> HIDE DEF k
    <2> QED  BY <1>1, <1>2, <1>3
  <1> QED  BY <1>3, <1>4, <1>5

(* A block changes balances by its moves, and nobody's accrual up to it.   *)
LEMMA BlockMoves ==
    ASSUME ChainOK, NEW n \in 1 .. Len(blocks), NEW v \in TwabState
    PROVE  LET u == FoldLeft(ApplyDelta, v, EventsAt(n))
           IN  /\ u \in TwabState /\ u.excluded = v.excluded
               /\ \A a \in Accounts :
                     /\ u.balances[a] = v.balances[a] + MovesOf(n, a)
                     /\ Accrued(u, a, n) = Accrued(v, a, n)
  <1> DEFINE Good(i, u) ==
               /\ u \in TwabState /\ u.excluded = v.excluded
               /\ \A a \in Accounts :
                     /\ u.balances[a] = v.balances[a] + Moved(n, a, i)
                     /\ Accrued(u, a, n) = Accrued(v, a, n)
             reached == {p \in Nat \X TwabState : Good(p[1], p[2])}
             s == EventsAt(n)
             k == Len(blocks[n].moves)
  <1>1. /\ s \in Seq(Event) /\ Len(s) = k /\ k \in Nat
        /\ \A i \in 1 .. k : /\ s[i] \in Event /\ s[i].at = n
                             /\ s[i].account = blocks[n].moves[i][1] /\ s[i].delta = blocks[n].moves[i][2]
    BY BlockEvents, BlockTypes
  <1>2. \A i \in Nat : \A u : <<i, u>> \in reached <=> Good(i, u)
    OBVIOUS
  <1>3. Good(0, v)
    <2>1. \A a \in Accounts : v.balances[a] \in Int /\ Moved(n, a, 0) = 0
      BY MovedOneMore DEF TwabState
    <2> QED  BY <2>1
  <1>4. ASSUME NEW i \in 1 .. k, NEW u, Good(i - 1, u) PROVE Good(i, ApplyDelta(u, s[i]))
    <2> DEFINE e == s[i]
               x == ApplyDelta(u, e)
    <2>1. /\ x \in TwabState /\ x.excluded = u.excluded
          /\ \A a \in Accounts :
                /\ x.balances[a] = u.balances[a] + IF a = e.account THEN e.delta ELSE 0
                /\ Accrued(x, a, e.at) = Accrued(u, a, e.at)
      BY <1>1, <1>4, DeltaMoves
    <2>2. e.at = n /\ \A a : MoveOf(n, a, i) = IF a = e.account THEN e.delta ELSE 0
      BY <1>1 DEF MoveOf
    <2> HIDE DEF x, e
    <2>3. ASSUME NEW a \in Accounts PROVE x.balances[a] = v.balances[a] + Moved(n, a, i)
      <3>1. /\ Moved(n, a, i) = Moved(n, a, i - 1) + MoveOf(n, a, i)
            /\ MoveOf(n, a, i) \in Int /\ Moved(n, a, i - 1) \in Int
        BY MovedOneMore
      <3>2. v.balances[a] \in Int /\ u.balances[a] = v.balances[a] + Moved(n, a, i - 1)
        BY <1>4 DEF TwabState
      <3>3. x.balances[a] = u.balances[a] + MoveOf(n, a, i)
        BY <2>1, <2>2
      <3> HIDE DEF Moved, MoveOf
      <3> QED  BY <3>1, <3>2, <3>3
    <2>4. Good(i, x)
      BY <1>4, <2>1, <2>2, <2>3
    <2> QED  BY <2>4 DEF x, e
  <1> HIDE DEF Good, reached
  <1>5. <<0, v>> \in reached
    BY <1>2, <1>3
  <1>6. \A i \in 1 .. Len(s) : \A u : <<i - 1, u>> \in reached => <<i, ApplyDelta(u, s[i])>> \in reached
    BY <1>1, <1>2, <1>4
  <1> HIDE DEF s
  <1>7. <<Len(s), W!Folded(v, s)>> \in reached
    BY <1>1, <1>5, <1>6, W!FoldLeftReaches
  <1>8. W!Folded(v, s) = FoldLeft(ApplyDelta, v, s)
    BY WIsFold
  <1>9. Good(k, FoldLeft(ApplyDelta, v, s))
    BY <1>1, <1>2, <1>7, <1>8
  <1> QED  BY <1>9, MovedOneMore DEF Good, s, k

-----------------------------------------------------------------------------
(* The events of an epoch *)

IsKept(k, e, s) ==
    k = [i \in 0 .. Len(s) |->
            IF i = 0 THEN <<>>
            ELSE IF EpochIdAt(s[i].at) = e THEN Append(k[i - 1], s[i]) ELSE k[i - 1]]
Kept(e, s) == CHOOSE k : IsKept(k, e, s)

(* The events kept of an epoch, one after the other.                       *)
LEMMA KeptSteps ==
    ASSUME NEW e, NEW s \in Seq(Event)
    PROVE  LET k == Kept(e, s)
           IN  /\ k \in [0 .. Len(s) -> Seq(Event)] /\ k[0] = <<>> /\ EventsIn(e, s) = k[Len(s)]
               /\ \A i \in 1 .. Len(s) :
                     k[i] = IF EpochIdAt(s[i].at) = e THEN Append(k[i - 1], s[i]) ELSE k[i - 1]
  <1> DEFINE T == Seq(Event)
             n == Len(s)
             none == <<>>
             F == [p \in (1 .. n) \X T |->
                     IF EpochIdAt(s[p[1]].at) = e THEN Append(p[2], s[p[1]]) ELSE p[2]]
             k == Kept(e, s)
  <1>1. n \in Nat /\ none \in T /\ \A i \in 1 .. n : s[i] \in Event
    OBVIOUS
  <1>2. ASSUME NEW i \in 1 .. n, NEW x \in T
        PROVE  /\ F[<<i, x>>] = IF EpochIdAt(s[i].at) = e THEN Append(x, s[i]) ELSE x
               /\ F[<<i, x>>] \in T
    BY <1>1
  <1>21. \A i \in 1 .. n : \A x \in T : Append(x, s[i]) \in T
    BY <1>1
  <1> HIDE DEF F, T, n, none
  <1>22. F \in [(1 .. n) \X T -> T]
    BY <1>2 DEF F
  <1>23. PICK g : W!IsStepped(g, T, n, none, F)
    BY <1>1, <1>22, W!StepsExist
  <1>3. g \in [0 .. n -> T] /\ g[0] = none /\ \A i \in 1 .. n : g[i] = F[<<i, g[i - 1]>>]
    BY <1>23 DEF W!IsStepped
  <1>4. IsKept(g, e, s)
    <2>1. ASSUME NEW i \in 0 .. n
          PROVE  g[i] = IF i = 0 THEN <<>>
                        ELSE IF EpochIdAt(s[i].at) = e THEN Append(g[i - 1], s[i]) ELSE g[i - 1]
      <3>1. CASE i = 0
        BY <1>3, <3>1 DEF none
      <3>2. CASE i # 0
        <4>1. i \in 1 .. n /\ i - 1 \in 0 .. n
          BY <1>1, <3>2
        <4>2. g[i - 1] \in T /\ g[i] = F[<<i, g[i - 1]>>]
          BY <1>3, <4>1
        <4> QED  BY <1>2, <3>2, <4>1, <4>2
      <3> QED  BY <3>1, <3>2
    <2>2. g = [i \in 0 .. n |-> g[i]]
      BY <1>3
    <2> QED  BY <2>1, <2>2 DEF IsKept, n
  <1>5. IsKept(k, e, s)
    BY <1>4 DEF Kept
  <1>6. EventsIn(e, s) = k[n]
    BY DEF EventsIn, Kept, IsKept, n
  <1> HIDE DEF k
  <1>70. k = [i \in 0 .. n |->
               IF i = 0 THEN <<>>
               ELSE IF EpochIdAt(s[i].at) = e THEN Append(k[i - 1], s[i]) ELSE k[i - 1]]
    BY <1>5 DEF IsKept, n
  <1>7. k[0] = <<>> /\ DOMAIN k = 0 .. n /\ k = [i \in 0 .. n |-> k[i]]
    BY <1>1, <1>70
  <1>8. ASSUME NEW i \in 1 .. n
        PROVE  k[i] = IF EpochIdAt(s[i].at) = e THEN Append(k[i - 1], s[i]) ELSE k[i - 1]
    <2>1. i \in 0 .. n /\ i # 0
      BY <1>1
    <2> QED  BY <1>70, <2>1
  <1> DEFINE P == {i \in 0 .. n : k[i] \in T}
  <1>9. 0 \in P
    BY <1>1, <1>7 DEF none
  <1>10. ASSUME NEW i \in 1 .. n, i - 1 \in P PROVE i \in P
    <2>1. k[i - 1] \in T /\ i \in 0 .. n
      BY <1>1, <1>10
    <2>2. Append(k[i - 1], s[i]) \in T
      BY <1>21, <2>1
    <2> QED  BY <1>8, <2>1, <2>2
  <1> HIDE DEF P
  <1>11. \A i \in 0 .. n : i \in P
    BY <1>1, <1>9, <1>10, W!CountingUp
  <1>12. k \in [0 .. n -> T]
    BY <1>7, <1>11 DEF P
  <1> QED  BY <1>6, <1>7, <1>8, <1>12 DEF T, k, n

(* A sequence followed by another.                                         *)
LEMMA Joined ==
    ASSUME NEW T, NEW s \in Seq(T), NEW t \in Seq(T)
    PROVE  /\ s \o t \in Seq(T) /\ Len(s) \in Nat /\ Len(t) \in Nat
           /\ Len(s \o t) = Len(s) + Len(t)
           /\ \A i \in 1 .. Len(s) : (s \o t)[i] = s[i]
           /\ \A i \in 1 .. Len(t) : (s \o t)[Len(s) + i] = t[i]
  <1>1. s \o t \in Seq(T) /\ Len(s) \in Nat /\ Len(t) \in Nat /\ Len(s \o t) = Len(s) + Len(t)
    OBVIOUS
  <1>2. ASSUME NEW i \in 1 .. Len(s) PROVE (s \o t)[i] = s[i]
    BY <1>2
  <1>3. ASSUME NEW i \in 1 .. Len(t) PROVE (s \o t)[Len(s) + i] = t[i]
    BY <1>3
  <1> QED  BY <1>1, <1>2, <1>3

(* The empty sequence followed by another is the other.                    *)
LEMMA EmptyStart == ASSUME NEW T, NEW s \in Seq(T) PROVE <<>> \o s = s
  OBVIOUS

(* A sequence and the first elements of another.                           *)
LEMMA JoinedStart ==
    ASSUME NEW T, NEW s \in Seq(T), NEW t \in Seq(T), NEW j \in 1 .. Len(t)
    PROVE  Append(s \o SubSeq(t, 1, j - 1), t[j]) = s \o SubSeq(t, 1, j)
  OBVIOUS

AllAt(t, n) == \A i \in 1 .. Len(t) : t[i].at = n

(* The events of an epoch in a sequence and a block are those in the       *)
(* sequence, and those of the block if it is one of the epoch.             *)
LEMMA KeptOfBlock ==
    ASSUME NEW e, NEW s \in Seq(Event), NEW t \in Seq(Event), NEW n, AllAt(t, n)
    PROVE  EventsIn(e, s \o t) = IF EpochIdAt(n) = e THEN EventsIn(e, s) \o t ELSE EventsIn(e, s)
  <1> DEFINE u == s \o t
             k == Kept(e, u)
             l == Kept(e, s)
  <1>1. /\ u \in Seq(Event) /\ Len(s) \in Nat /\ Len(t) \in Nat
        /\ Len(u) = Len(s) + Len(t)
        /\ \A i \in 1 .. Len(s) : u[i] = s[i]
        /\ \A i \in 1 .. Len(t) : u[Len(s) + i] = t[i]
    BY Joined
  <1>11. /\ u \in Seq(Event) /\ k = Kept(e, u)
    BY <1>1
  <1> HIDE DEF u, k
  <1>2. /\ k[0] = <<>> /\ EventsIn(e, u) = k[Len(u)]
        /\ \A i \in 1 .. Len(u) : k[i] = IF EpochIdAt(u[i].at) = e THEN Append(k[i - 1], u[i]) ELSE k[i - 1]
    BY <1>11, KeptSteps
  <1>3. /\ l \in [0 .. Len(s) -> Seq(Event)] /\ l[0] = <<>> /\ EventsIn(e, s) = l[Len(s)]
        /\ \A i \in 1 .. Len(s) : l[i] = IF EpochIdAt(s[i].at) = e THEN Append(l[i - 1], s[i]) ELSE l[i - 1]
    BY KeptSteps
  <1> HIDE DEF k, l
  <1> DEFINE P == {i \in Nat : k[i] = l[i]}
  <1>4. ASSUME NEW i \in 1 .. Len(s), i - 1 \in P PROVE i \in P
    <2>1. i \in 1 .. Len(u) /\ i \in Nat
      BY <1>1
    <2> QED  BY <1>1, <1>2, <1>3, <1>4, <2>1
  <1>5. \A i \in 0 .. Len(s) : i \in P
    BY <1>1, <1>2, <1>3, <1>4, W!CountingUp
  <1> DEFINE base == EventsIn(e, s)
             Q == {j \in Nat : k[Len(s) + j] = IF EpochIdAt(n) = e THEN base \o SubSeq(t, 1, j) ELSE base}
  <1>6. base \in Seq(Event) /\ k[Len(s)] = base
    <2>1. Len(s) \in 0 .. Len(s) /\ Len(s) \in P
      BY <1>1, <1>5
    <2> QED  BY <1>3, <2>1
  <1> HIDE DEF base
  <1>7. 0 \in Q
    <2>1. Len(s) + 0 = Len(s) /\ base \o SubSeq(t, 1, 0) = base
      BY <1>1, <1>6
    <2> QED  BY <1>6, <2>1
  <1>8. ASSUME NEW j \in 1 .. Len(t), j - 1 \in Q PROVE j \in Q
    <2>1. Len(s) + j \in 1 .. Len(u) /\ (Len(s) + j) - 1 = Len(s) + (j - 1) /\ j \in Nat
      BY <1>1
    <2>2. u[Len(s) + j] = t[j] /\ t[j].at = n
      BY <1>1 DEF AllAt
    <2>3. k[Len(s) + j] = IF EpochIdAt(n) = e THEN Append(k[Len(s) + (j - 1)], t[j]) ELSE k[Len(s) + (j - 1)]
      BY <1>2, <2>1, <2>2
    <2>4. Append(base \o SubSeq(t, 1, j - 1), t[j]) = base \o SubSeq(t, 1, j)
      BY <1>6, JoinedStart
    <2>5. k[Len(s) + (j - 1)] = IF EpochIdAt(n) = e THEN base \o SubSeq(t, 1, j - 1) ELSE base
      BY <1>8
    <2> QED  BY <2>1, <2>3, <2>4, <2>5
  <1> HIDE DEF Q
  <1>9. Len(t) \in Q
    <2>1. \A j \in 0 .. Len(t) : j \in Q
      BY <1>1, <1>7, <1>8, W!CountingUp
    <2> QED  BY <1>1, <2>1
  <1>10. SubSeq(t, 1, Len(t)) = t
    OBVIOUS
  <1> QED  BY <1>1, <1>2, <1>9, <1>10 DEF Q, u, base

(* What a pass reads grows block by block.                                 *)
IsStream(h, m) ==
    /\ h \in [0 .. m -> Seq(Event)] /\ h[0] = <<>>
    /\ \A n \in 1 .. m : h[n] = h[n - 1] \o EventsAt(n)
    /\ ListBalanceEvents(m + 1) = h[m]

(* There is such a growth.                                                 *)
LEMMA StreamExists ==
    ASSUME ChainOK, NEW m \in Nat, m <= Len(blocks)
    PROVE  \E h : IsStream(h, m)
  <1> DEFINE seqs == [n \in 1 .. m |-> EventsAt(n)]
             f == W!Flat(seqs)
             h == [n \in 0 .. m |-> IF n = 0 THEN <<>> ELSE f[n]]
  <1>1. \A n \in 1 .. m : EventsAt(n) \in Seq(Event)
    BY BlockEvents DEF ChainOK
  <1>2. seqs \in Seq(Seq(Event)) /\ Len(seqs) = m /\ \A n \in 1 .. m : seqs[n] = EventsAt(n)
    BY <1>1
  <1>3. ListBalanceEvents(m + 1) = FlattenSeq(seqs)
    <2>1. Through(m) = m
      BY DEF Through, ChainOK
    <2>2. Before(m + 1) = 1 .. m
      BY <2>1, BeforeThrough
    <2> QED  BY <2>2 DEF ListBalanceEvents
  <1>4. m = 0 => seqs = <<>>
    BY <1>2
  <1> HIDE DEF seqs
  <1>5. FlattenSeq(seqs) = IF m = 0 THEN seqs ELSE f[m]
    BY <1>2 DEF FlattenSeq, W!Flat, W!IsFlat
  <1>6. W!IsFlat(f, seqs)
    BY <1>2, W!FlatExists DEF W!Flat
  <1> HIDE DEF f
  <1>7. \A n \in 1 .. m : f[n] = IF n = 1 THEN seqs[n] ELSE f[n - 1] \o seqs[n]
    BY <1>2, <1>6 DEF W!IsFlat
  <1>8. h[0] = <<>> /\ h[m] = IF m = 0 THEN <<>> ELSE f[m]
    OBVIOUS
  <1>81. \A n \in 1 .. m : h[n] = f[n]
    OBVIOUS
  <1>10. DOMAIN h = 0 .. m /\ h = [n \in 0 .. m |-> h[n]]
    OBVIOUS
  <1> HIDE DEF h
  <1>9. ASSUME NEW n \in 1 .. m PROVE h[n] = h[n - 1] \o EventsAt(n)
    <2> DEFINE s == EventsAt(n)
    <2>0. s \in Seq(Event) /\ seqs[n] = s /\ h[n] = f[n]
      BY <1>1, <1>2, <1>81
    <2> HIDE DEF s
    <2>1. CASE n = 1
      <3>1. h[n - 1] = <<>>
        BY <1>8, <2>1
      <3>2. h[n] = s
        BY <1>7, <2>0, <2>1
      <3>3. <<>> \o s = s
        BY <2>0, EmptyStart
      <3> QED  BY <3>1, <3>2, <3>3 DEF s
    <2>2. CASE n # 1
      <3>1. n - 1 \in 1 .. m
        BY <2>2
      <3>2. h[n - 1] = f[n - 1]
        BY <1>81, <3>1
      <3>3. f[n] = f[n - 1] \o s
        BY <1>7, <2>0, <2>2
      <3> QED  BY <2>0, <3>2, <3>3 DEF s
    <2> QED  BY <2>1, <2>2
  <1> DEFINE P == {n \in Nat : h[n] \in Seq(Event)}
  <1>11. ASSUME NEW n \in 1 .. m, n - 1 \in P PROVE n \in P
    <2>1. h[n - 1] \in Seq(Event) /\ EventsAt(n) \in Seq(Event) /\ n \in Nat
      BY <1>1, <1>11
    <2>2. h[n - 1] \o EventsAt(n) \in Seq(Event)
      BY <2>1
    <2> QED  BY <1>9, <2>1, <2>2
  <1>110. 0 \in P
    <2>1. <<>> \in Seq(Event)
      OBVIOUS
    <2> QED  BY <1>8, <2>1
  <1> HIDE DEF P
  <1>12. \A n \in 0 .. m : n \in P
    BY <1>11, <1>110, W!CountingUp
  <1>13. h \in [0 .. m -> Seq(Event)]
    BY <1>10, <1>12 DEF P
  <1>14. ListBalanceEvents(m + 1) = h[m]
    BY <1>3, <1>4, <1>5, <1>8
  <1>15. IsStream(h, m)
    BY <1>8, <1>9, <1>13, <1>14 DEF IsStream
  <1> QED  BY <1>15

-----------------------------------------------------------------------------
(* An epoch of the chain *)

HeldTo(a, e, t) == Total([at \in EpochStart(e) .. t |-> BalanceAt(a, at)])

(* What an account held in an epoch grows by its balance every second.     *)
LEMMA HeldToNext ==
    ASSUME ChainOK, NEW a, NEW e \in Nat
    PROVE  /\ HeldTo(a, e, EpochStart(e) - 1) = 0
           /\ \A t \in Nat : EpochStart(e) <= t =>
                 /\ HeldTo(a, e, t) = HeldTo(a, e, t - 1) + BalanceAt(a, t)
                 /\ HeldTo(a, e, t) \in Int /\ HeldTo(a, e, t - 1) \in Int
           /\ HeldIn(a, e) = HeldTo(a, e, EpochEnd(e) - 1)
  <1>1. EpochStart(e) \in Nat /\ EpochEnd(e) \in Nat
    BY EpochBounds
  <1> DEFINE S == EpochStart(e)
  <1>2. \A t \in Int : BalanceAt(a, t) \in Int
    BY BalanceMoves
  <1>3. HeldTo(a, e, S - 1) = 0
    <2>1. S .. S - 1 = {}
      BY <1>1
    <2>2. [at \in S .. S - 1 |-> BalanceAt(a, at)] = [at \in {} |-> 0] /\ IsFiniteSet({})
      BY <2>1, FS_EmptySet
    <2> QED  BY <2>2, TotalTypes DEF HeldTo
  <1>4. ASSUME NEW t \in Nat, S <= t
        PROVE  /\ HeldTo(a, e, t) = HeldTo(a, e, t - 1) + BalanceAt(a, t)
               /\ HeldTo(a, e, t) \in Int /\ HeldTo(a, e, t - 1) \in Int
    <2> DEFINE f == [at \in S .. t |-> BalanceAt(a, at)]
               g == [at \in S .. t - 1 |-> BalanceAt(a, at)]
    <2>1. S \in Int /\ t \in Int /\ f \in [S .. t -> Int] /\ f[t] = BalanceAt(a, t)
      BY <1>1, <1>2, <1>4
    <2>2. g = [at \in S .. t - 1 |-> f[at]]
      BY <1>1, <1>4
    <2>3. HeldTo(a, e, t) = Total(f) /\ HeldTo(a, e, t - 1) = Total(g)
      BY DEF HeldTo
    <2> HIDE DEF f, g, S
    <2>4. Total(f) = Total(g) + f[t] /\ Total(g) \in Int /\ f[t] \in Int
      BY <1>4, <2>1, <2>2, TotalUpTo
    <2> QED  BY <2>1, <2>3, <2>4
  <1> QED  BY <1>3, <1>4 DEF HeldTo, HeldIn

(* The loop's state when an epoch begins.                                  *)
OpeningOf(e) == [a \in Accounts |-> BalanceAt(a, EpochStart(e) - 1)]
Opened(e, x) ==
    [balances |-> OpeningOf(e), weights |-> Nobody, corrupt |-> FALSE, excluded |-> x,
     last |-> [a \in Accounts |-> EpochStart(e)]]

(* The last second of an epoch that is not after a block.                  *)
Second(e, n) ==
    IF n < EpochStart(e) THEN EpochStart(e) - 1 ELSE IF n < EpochEnd(e) THEN n ELSE EpochEnd(e) - 1

(* What the running accrual is to come to by then.                         *)
Follows(v, e, x, t) ==
    /\ v \in TwabState /\ v.excluded = x
    /\ \A a \in Accounts :
          /\ v.balances[a] = BalanceAt(a, t)
          /\ Accrued(v, a, t + 1) = IF a \in x THEN 0 ELSE HeldTo(a, e, t)

(* At the beginning nothing is accrued.                                    *)
LEMMA FollowsAtFirst ==
    ASSUME ChainOK, NEW e \in Nat, NEW x \in SUBSET Accounts
    PROVE  Follows(Opened(e, x), e, x, Second(e, 0))
  <1> DEFINE v == Opened(e, x)
             S == EpochStart(e)
             t == Second(e, 0)
  <1>1. S \in Nat /\ EpochEnd(e) \in Nat /\ S < EpochEnd(e)
    BY EpochBounds
  <1>2. \A a : /\ \A u \in Int : BalanceAt(a, u) \in Int
               /\ \A u \in Int : u <= 0 => BalanceAt(a, u) = 0
    BY BalanceMoves
  <1>3. v \in TwabState /\ v.excluded = x
    <2>1. OpeningOf(e) \in [Accounts -> Int] /\ Nobody \in [Accounts -> Int]
      BY <1>1, <1>2 DEF OpeningOf, Nobody
    <2> QED  BY <1>1, <2>1 DEF Opened, TwabState
  <1>4. ASSUME NEW a \in Accounts
        PROVE  v.balances[a] = BalanceAt(a, S - 1) /\ Accrued(v, a, S) = 0
    <2>1. v.balances[a] = BalanceAt(a, S - 1) /\ v.weights[a] = 0 /\ v.last[a] = S
      BY DEF Opened, OpeningOf, Nobody
    <2>2. v.balances[a] * (S - S) = 0
      BY <1>1, <1>2, <2>1
    <2> QED  BY <2>1, <2>2 DEF Accrued
  <1> HIDE DEF v
  <1>5. ASSUME NEW a \in Accounts
        PROVE  /\ v.balances[a] = BalanceAt(a, t)
               /\ Accrued(v, a, t + 1) = IF a \in x THEN 0 ELSE HeldTo(a, e, t)
    <2>1. CASE S = 0
      <3>1. t = 0 /\ t \in Nat
        BY <1>1, <2>1 DEF Second
      <3>2. BalanceAt(a, 0) = 0 /\ BalanceAt(a, S - 1) = 0
        BY <1>2, <2>1
      <3>3. Accrued(v, a, 1) = 0
        <4>1. Accrued(v, a, 0 + 1) = Accrued(v, a, 0) + IF a \in v.excluded THEN 0 ELSE v.balances[a]
          BY <1>3, AccruedNext
        <4> QED  BY <1>4, <2>1, <3>2, <4>1
      <3>4. HeldTo(a, e, 0) = 0
        <4>1. HeldTo(a, e, S - 1) = 0 /\ HeldTo(a, e, t) = HeldTo(a, e, t - 1) + BalanceAt(a, t)
          BY <2>1, <3>1, HeldToNext
        <4> QED  BY <2>1, <3>1, <3>2, <4>1
      <3> QED  BY <1>4, <3>1, <3>2, <3>3, <3>4
    <2>2. CASE S # 0
      <3>1. t = S - 1 /\ t + 1 = S
        BY <1>1, <2>2 DEF Second
      <3>2. HeldTo(a, e, S - 1) = 0
        BY HeldToNext
      <3> QED  BY <1>4, <3>1, <3>2
    <2> QED  BY <2>1, <2>2
  <1> QED  BY <1>3, <1>5 DEF Follows, v

(* A block of the epoch keeps up with it.                                  *)
LEMMA FollowsOneBlock ==
    ASSUME ChainOK, NEW e \in Nat, NEW x \in SUBSET Accounts, NEW n \in 1 .. Len(blocks),
           EpochStart(e) <= n, NEW v, Follows(v, e, x, n - 1)
    PROVE  Follows(FoldLeft(ApplyDelta, v, EventsAt(n)), e, x, n)
  <1> DEFINE u == FoldLeft(ApplyDelta, v, EventsAt(n))
  <1>1. /\ v \in TwabState /\ v.excluded = x /\ n \in Nat /\ n - 1 \in Int /\ (n - 1) + 1 = n
        /\ \A a \in Accounts : /\ v.balances[a] = BalanceAt(a, n - 1)
                               /\ Accrued(v, a, n) = IF a \in x THEN 0 ELSE HeldTo(a, e, n - 1)
    BY DEF Follows, ChainOK
  <1>2. /\ u \in TwabState /\ u.excluded = v.excluded
        /\ \A a \in Accounts : /\ u.balances[a] = v.balances[a] + MovesOf(n, a)
                               /\ Accrued(u, a, n) = Accrued(v, a, n)
    BY <1>1, BlockMoves
  <1> HIDE DEF u
  <1>3. ASSUME NEW a \in Accounts
        PROVE  /\ u.balances[a] = BalanceAt(a, n)
               /\ Accrued(u, a, n + 1) = IF a \in x THEN 0 ELSE HeldTo(a, e, n)
    <2>1. BalanceAt(a, n) = BalanceAt(a, n - 1) + MovesOf(n, a)
      BY BalanceMoves
    <2>2. u.balances[a] = BalanceAt(a, n)
      BY <1>1, <1>2, <2>1
    <2>3. HeldTo(a, e, n) = HeldTo(a, e, n - 1) + BalanceAt(a, n)
      BY <1>1, HeldToNext
    <2>4. Accrued(u, a, n + 1) = Accrued(u, a, n) + IF a \in u.excluded THEN 0 ELSE u.balances[a]
      <3>1. u \in TwabState /\ n \in Int
        BY <1>1, <1>2
      <3> QED  BY <3>1, AccruedNext
    <2> QED  BY <1>1, <1>2, <2>2, <2>3, <2>4
  <1> QED  BY <1>1, <1>2, <1>3 DEF Follows, u

(* The accrual over what a pass has read follows the epoch to its end.     *)
LEMMA FollowsStream ==
    ASSUME ChainOK, NEW e \in Nat, NEW x \in SUBSET Accounts, NEW m \in Nat, m <= Len(blocks),
           NEW h, IsStream(h, m)
    PROVE  Follows(FoldLeft(ApplyDelta, Opened(e, x), EventsIn(e, h[m])), e, x, Second(e, m))
  <1> DEFINE v == Opened(e, x)
             G(n) == FoldLeft(ApplyDelta, v, EventsIn(e, h[n]))
             P == {n \in 0 .. m : Follows(G(n), e, x, Second(e, n))}
  <1>1. EpochStart(e) \in Nat /\ EpochEnd(e) \in Nat /\ EpochStart(e) < EpochEnd(e)
    BY EpochBounds
  <1>2. /\ h \in [0 .. m -> Seq(Event)] /\ h[0] = <<>>
        /\ \A n \in 1 .. m : h[n] = h[n - 1] \o EventsAt(n)
    BY DEF IsStream
  <1>3. ASSUME NEW n \in 0 .. m PROVE EventsIn(e, h[n]) \in Seq(Event)
    <2>1. h[n] \in Seq(Event)
      BY <1>2
    <2> QED  BY <2>1, KeptSteps
  <1>4. 0 \in P
    <2>1. <<>> \in Seq(Event) /\ Len(<<>>) = 0
      OBVIOUS
    <2>2. EventsIn(e, h[0]) = <<>>
      BY <1>2, <2>1, KeptSteps
    <2>3. G(0) = v
      BY <2>2, W!FoldLeftOfNone, WIsFold
    <2> QED  BY <2>3, FollowsAtFirst
  <1>5. ASSUME NEW n \in 1 .. m, n - 1 \in P PROVE n \in P
    <2>1. n \in 1 .. Len(blocks) /\ n \in Nat /\ n - 1 \in Nat /\ n - 1 \in 0 .. m /\ n \in 0 .. m
      BY DEF ChainOK
    <2>2. h[n - 1] \in Seq(Event) /\ EventsAt(n) \in Seq(Event) /\ \A i \in 1 .. Len(EventsAt(n)) : EventsAt(n)[i].at = n
      BY <1>2, <2>1, BlockEvents
    <2>3. EventsIn(e, h[n]) =
            IF EpochIdAt(n) = e THEN EventsIn(e, h[n - 1]) \o EventsAt(n) ELSE EventsIn(e, h[n - 1])
      <3> DEFINE s == h[n - 1]
                 t == EventsAt(n)
      <3>1. s \in Seq(Event) /\ t \in Seq(Event) /\ AllAt(t, n) /\ h[n] = s \o t
        BY <1>2, <2>2 DEF AllAt
      <3> HIDE DEF s, t
      <3>2. EventsIn(e, s \o t) = IF EpochIdAt(n) = e THEN EventsIn(e, s) \o t ELSE EventsIn(e, s)
        BY <3>1, KeptOfBlock
      <3> QED  BY <3>1, <3>2 DEF s, t
    <2>4. Follows(G(n - 1), e, x, Second(e, n - 1))
      BY <1>5
    <2>5. CASE EpochIdAt(n) # e
      <3>1. G(n) = G(n - 1)
        BY <2>3, <2>5
      <3>2. Second(e, n) = Second(e, n - 1)
        <4>1. ~(EpochStart(e) <= n /\ n < EpochEnd(e))
          BY <2>1, <2>5, EpochBounds
        <4> QED  BY <1>1, <2>1, <4>1 DEF Second
      <3> QED  BY <2>1, <2>4, <3>1, <3>2
    <2>6. CASE EpochIdAt(n) = e
      <3>1. EpochStart(e) <= n /\ n < EpochEnd(e)
        BY <2>1, <2>6, EpochBounds
      <3>2. Second(e, n) = n /\ Second(e, n - 1) = n - 1
        BY <1>1, <2>1, <3>1 DEF Second
      <3>3. G(n) = FoldLeft(ApplyDelta, G(n - 1), EventsAt(n))
        <4>1. EventsIn(e, h[n - 1]) \in Seq(Event)
          BY <1>3, <2>1
        <4>2. EventsIn(e, h[n]) = EventsIn(e, h[n - 1]) \o EventsAt(n)
          BY <2>3, <2>6
        <4>3. W!Folded(v, EventsIn(e, h[n - 1]) \o EventsAt(n)) = W!Folded(W!Folded(v, EventsIn(e, h[n - 1])), EventsAt(n))
          BY <2>2, <4>1, W!FoldLeftJoined
        <4> HIDE DEF v
        <4> QED  BY <4>2, <4>3, WIsFold
      <3> HIDE DEF G
      <3>4. Follows(FoldLeft(ApplyDelta, G(n - 1), EventsAt(n)), e, x, n)
        BY <2>1, <2>4, <3>1, <3>2, FollowsOneBlock
      <3> QED  BY <2>1, <3>2, <3>3, <3>4
    <2> QED  BY <2>5, <2>6
  <1> HIDE DEF P
  <1>6. \A n \in 0 .. m : n \in P
    BY <1>4, <1>5, W!CountingUp
  <1>7. m \in P
    BY <1>6
  <1> QED  BY <1>7 DEF P

WeightsOf(e, x) == [a \in Accounts |-> IF a \in x THEN 0 ELSE HeldIn(a, e)]

(* computeEpochWeights, on an epoch that is over, says what the chain says. *)
LEMMA EpochCloses ==
    ASSUME ChainOK, NEW e \in Nat, NEW x \in SUBSET Accounts, NEW m \in Nat, m <= Len(blocks),
           EpochEnd(e) - 1 <= m, NEW h, IsStream(h, m)
    PROVE  LET c == ComputeEpochWeights(e, OpeningOf(e), EventsIn(e, h[m]), x)
           IN  c.balances = OpeningOf(e + 1) /\ c.corrupt \in BOOLEAN /\ c.weights = WeightsOf(e, x)
  <1> DEFINE moved == FoldLeft(ApplyDelta, Opened(e, x), EventsIn(e, h[m]))
             c == ComputeEpochWeights(e, OpeningOf(e), EventsIn(e, h[m]), x)
  <1>1. c = [balances |-> moved.balances, corrupt |-> moved.corrupt,
             weights |-> [a \in Accounts |-> Accrued(moved, a, EpochEnd(e))]]
    BY DEF ComputeEpochWeights, Opened
  <1>2. Follows(moved, e, x, Second(e, m))
    BY FollowsStream
  <1> HIDE DEF moved, c
  <1>3. /\ EpochStart(e) \in Nat /\ EpochEnd(e) \in Nat /\ EpochStart(e) < EpochEnd(e)
        /\ EpochStart(e + 1) = EpochEnd(e)
    BY EpochBounds DEF EpochStart, EpochEnd
  <1>4. Second(e, m) = EpochEnd(e) - 1 /\ Second(e, m) + 1 = EpochEnd(e)
    BY <1>3 DEF Second
  <1>5. /\ moved \in TwabState
        /\ \A a \in Accounts : /\ moved.balances[a] = BalanceAt(a, EpochEnd(e) - 1)
                               /\ Accrued(moved, a, EpochEnd(e)) = IF a \in x THEN 0 ELSE HeldIn(a, e)
    BY <1>2, <1>4, HeldToNext DEF Follows
  <1>6. moved.balances \in [Accounts -> Int] /\ moved.corrupt \in BOOLEAN
    BY <1>5 DEF TwabState
  <1>7. moved.balances = OpeningOf(e + 1)
    BY <1>3, <1>5, <1>6 DEF OpeningOf
  <1>8. [a \in Accounts |-> Accrued(moved, a, EpochEnd(e))] = [a \in Accounts |-> IF a \in x THEN 0 ELSE HeldIn(a, e)]
    BY <1>5
  <1>9. c.balances = OpeningOf(e + 1) /\ c.corrupt \in BOOLEAN /\ c.weights = WeightsOf(e, x)
    BY <1>1, <1>6, <1>7, <1>8 DEF WeightsOf
  <1> QED  BY <1>9 DEF c

-----------------------------------------------------------------------------
(* The loop, whatever it is given *)

(* What a pass has read comes in the order of the blocks.                  *)
Orderly(events) ==
    /\ events \in Seq(Event)
    /\ \A i \in 1 .. Len(events) : events[i].at \in 1 .. MaxBlock
    /\ \A i, j \in 1 .. Len(events) : i < j => events[i].at <= events[j].at

(* No balance and no weight is negative, and no time lies ahead of what is *)
(* left of an epoch.                                                       *)
Clean(v, e, s, i) ==
    \A a \in Accounts :
        /\ v.balances[a] \in Nat /\ v.weights[a] \in Nat /\ v.last[a] <= EpochEnd(e)
        /\ \A j \in i + 1 .. Len(s) : EpochIdAt(s[j].at) = e => v.last[a] <= s[j].at

(* An event keeps the state so, or is found out.                           *)
LEMMA CleanOneEvent ==
    ASSUME NEW e \in Nat, NEW s, Orderly(s), NEW i \in 1 .. Len(s), EpochIdAt(s[i].at) = e,
           NEW v \in TwabState, v.corrupt \/ Clean(v, e, s, i - 1)
    PROVE  LET u == ApplyDelta(v, s[i])
           IN  u \in TwabState /\ (u.corrupt \/ Clean(u, e, s, i))
  <1> DEFINE ev == s[i]
             c == ev.account
             u == ApplyDelta(v, ev)
             now == Accrued(v, c, ev.at)
             next == v.balances[c] + ev.delta
             bad == v.corrupt \/ next < 0
  <1>1. /\ s \in Seq(Event) /\ ev \in Event /\ ev.at \in Nat /\ i \in Nat /\ Len(s) \in Nat
        /\ \A j \in 1 .. Len(s) : s[j].at \in Nat
        /\ \A j \in i + 1 .. Len(s) : ev.at <= s[j].at
    <2>1. s \in Seq(Event)
      BY DEF Orderly
    <2>2. \A j \in i + 1 .. Len(s) : j \in 1 .. Len(s) /\ i < j
      BY <2>1
    <2>3. \A j \in 1 .. Len(s) : s[j] \in Event
      BY <2>1
    <2> QED  BY <2>1, <2>2, <2>3 DEF Orderly, Event
  <1>2. c \in Accounts /\ ev.delta \in Int /\ ev.at \in Int /\ ev.at < EpochEnd(e) /\ EpochEnd(e) \in Int
    <2>1. c \in Accounts /\ ev.delta \in Int
      BY <1>1 DEF Event
    <2> DEFINE n == ev.at
    <2>2. n \in Nat /\ EpochIdAt(n) = e
      BY <1>1
    <2> HIDE DEF n
    <2>3. n < EpochEnd(e) /\ EpochEnd(e) \in Nat
      BY <2>2, EpochBounds
    <2> QED  BY <2>1, <2>2, <2>3 DEF n
  <1>3. u \in TwabState
    BY <1>1, DeltaMoves
  <1>4. u = [v EXCEPT !.weights[c] = now, !.last[c] = ev.at, !.balances[c] = next, !.corrupt = bad]
    BY DEF ApplyDelta
  <1>5. /\ v.balances \in [Accounts -> Int] /\ v.weights \in [Accounts -> Int]
        /\ v.last \in [Accounts -> Int] /\ v.corrupt \in BOOLEAN
    BY DEF TwabState
  <1>6. now = v.weights[c] + (IF c \in v.excluded THEN 0 ELSE v.balances[c] * (ev.at - v.last[c]))
    BY DEF Accrued
  <1> HIDE DEF u, now, next, bad
  <1>7. /\ u.balances = [v.balances EXCEPT ![c] = next] /\ u.weights = [v.weights EXCEPT ![c] = now]
        /\ u.last = [v.last EXCEPT ![c] = ev.at] /\ u.corrupt = bad
    BY <1>4 DEF TwabState
  <1>8. ASSUME ~bad PROVE Clean(u, e, s, i)
    <2>1. Clean(v, e, s, i - 1) /\ next \in Nat
      BY <1>2, <1>5, <1>8 DEF bad, next
    <2>2. \A a \in Accounts : v.last[a] <= ev.at => ev.at - v.last[a] \in Nat
      BY <1>2, <1>5
    <2>3. i \in (i - 1) + 1 .. Len(s)
      BY <1>1
    <2>4. now \in Nat
      <3>1. v.last[c] <= ev.at /\ v.balances[c] \in Nat /\ v.weights[c] \in Nat
        BY <1>2, <2>1, <2>3 DEF Clean
      <3> DEFINE d == ev.at - v.last[c]
                 b == v.balances[c]
      <3>2. d \in Nat /\ b \in Nat
        BY <1>2, <2>2, <3>1
      <3> HIDE DEF d, b
      <3>3. b * d \in Nat
        BY <3>2
      <3> QED  BY <1>6, <3>1, <3>3 DEF d, b
    <2>5. ASSUME NEW a \in Accounts
          PROVE  /\ u.balances[a] \in Nat /\ u.weights[a] \in Nat /\ u.last[a] <= EpochEnd(e)
                 /\ \A j \in i + 1 .. Len(s) : EpochIdAt(s[j].at) = e => u.last[a] <= s[j].at
      <3>1. CASE a = c
        <4>1. u.balances[a] = next /\ u.weights[a] = now /\ u.last[a] = ev.at
          BY <1>5, <1>7, <3>1
        <4> QED  BY <1>1, <1>2, <2>1, <2>4, <4>1
      <3>2. CASE a # c
        <4>1. u.balances[a] = v.balances[a] /\ u.weights[a] = v.weights[a] /\ u.last[a] = v.last[a]
          BY <1>5, <1>7, <3>2
        <4>2. \A j \in i + 1 .. Len(s) : j \in (i - 1) + 1 .. Len(s)
          BY <1>1
        <4> QED  BY <2>1, <4>1, <4>2 DEF Clean
      <3> QED  BY <3>1, <3>2
    <2> QED  BY <2>5 DEF Clean
  <1>9. bad \in BOOLEAN
    BY <1>5 DEF bad
  <1> QED  BY <1>3, <1>7, <1>8, <1>9 DEF u

(* computeEpochWeights of events in order, from balances that are none of  *)
(* them negative, gives natural numbers or says that the data is corrupt.  *)
LEMMA EpochIsSound ==
    ASSUME NEW e \in Nat, NEW s, Orderly(s), NEW opening \in [Accounts -> Nat], NEW x \in SUBSET Accounts
    PROVE  LET c == ComputeEpochWeights(e, opening, EventsIn(e, s), x)
           IN  /\ c.corrupt \in BOOLEAN
               /\ ~c.corrupt => c.balances \in [Accounts -> Nat] /\ c.weights \in [Accounts -> Nat]
  <1> DEFINE v == [balances |-> opening, weights |-> Nobody, corrupt |-> FALSE, excluded |-> x,
                   last |-> [a \in Accounts |-> EpochStart(e)]]
             k == Kept(e, s)
             G(i) == FoldLeft(ApplyDelta, v, k[i])
             Good(u, i) == u \in TwabState /\ (u.corrupt \/ Clean(u, e, s, i))
             P == {i \in 0 .. Len(s) : Good(G(i), i)}
             moved == FoldLeft(ApplyDelta, v, EventsIn(e, s))
             c == ComputeEpochWeights(e, opening, EventsIn(e, s), x)
  <1>1. s \in Seq(Event) /\ Len(s) \in Nat /\ \A i \in 1 .. Len(s) : s[i] \in Event /\ s[i].at \in Nat
    <2>1. s \in Seq(Event)
      BY DEF Orderly
    <2>2. \A i \in 1 .. Len(s) : s[i] \in Event
      BY <2>1
    <2> QED  BY <2>1, <2>2 DEF Event
  <1>2. /\ k \in [0 .. Len(s) -> Seq(Event)] /\ k[0] = <<>> /\ EventsIn(e, s) = k[Len(s)]
        /\ \A i \in 1 .. Len(s) : k[i] = IF EpochIdAt(s[i].at) = e THEN Append(k[i - 1], s[i]) ELSE k[i - 1]
    BY <1>1, KeptSteps
  <1>3. EpochStart(e) \in Nat /\ EpochEnd(e) \in Nat /\ EpochStart(e) <= EpochEnd(e)
    BY EpochBounds
  <1>4. c = [balances |-> moved.balances, corrupt |-> moved.corrupt,
             weights |-> [a \in Accounts |-> Accrued(moved, a, EpochEnd(e))]]
    BY DEF ComputeEpochWeights
  <1>5. Good(v, 0)
    <2>1. v \in TwabState
      BY <1>3 DEF TwabState, Nobody
    <2>2. ASSUME NEW a \in Accounts
          PROVE  /\ v.balances[a] \in Nat /\ v.weights[a] \in Nat /\ v.last[a] <= EpochEnd(e)
                 /\ \A j \in 0 + 1 .. Len(s) : EpochIdAt(s[j].at) = e => v.last[a] <= s[j].at
      <3>1. v.balances[a] \in Nat /\ v.weights[a] = 0 /\ v.last[a] = EpochStart(e)
        BY DEF Nobody
      <3>2. \A j \in 0 + 1 .. Len(s) : EpochIdAt(s[j].at) = e => EpochStart(e) <= s[j].at
        <4>1. \A n \in Nat : EpochIdAt(n) = e => EpochStart(e) <= n
          BY EpochBounds
        <4>2. \A j \in 0 + 1 .. Len(s) : s[j].at \in Nat
          BY <1>1
        <4> QED  BY <4>1, <4>2
      <3> QED  BY <1>3, <3>1, <3>2
    <2> QED  BY <2>1, <2>2 DEF Clean
  <1> HIDE DEF v, k, c, moved
  <1>6. 0 \in P
    <2>1. G(0) = v
      BY <1>2, W!FoldLeftOfNone, WIsFold
    <2> QED  BY <1>1, <1>5, <2>1
  <1>7. ASSUME NEW i \in 1 .. Len(s), i - 1 \in P PROVE i \in P
    <2>1. Good(G(i - 1), i - 1) /\ i \in 0 .. Len(s) /\ i - 1 \in 0 .. Len(s)
      BY <1>1, <1>7
    <2>2. CASE EpochIdAt(s[i].at) # e
      <3>1. G(i) = G(i - 1)
        BY <1>2, <2>2
      <3>2. Clean(G(i - 1), e, s, i - 1) => Clean(G(i - 1), e, s, i)
        <4>1. \A j \in i + 1 .. Len(s) : j \in (i - 1) + 1 .. Len(s)
          BY <1>1
        <4> HIDE DEF G
        <4> QED  BY <4>1 DEF Clean
      <3> HIDE DEF G
      <3> QED  BY <2>1, <3>1, <3>2
    <2>3. CASE EpochIdAt(s[i].at) = e
      <3>1. k[i - 1] \in Seq(Event) /\ k[i] = Append(k[i - 1], s[i]) /\ s[i] \in Event
        BY <1>1, <1>2, <2>1, <2>3
      <3>2. G(i) = ApplyDelta(G(i - 1), s[i])
        <4>1. W!Folded(v, Append(k[i - 1], s[i])) = ApplyDelta(W!Folded(v, k[i - 1]), s[i])
          BY <3>1, W!FoldLeftAppend
        <4> QED  BY <3>1, <4>1, WIsFold
      <3> HIDE DEF G
      <3>3. ApplyDelta(G(i - 1), s[i]) \in TwabState
            /\ (ApplyDelta(G(i - 1), s[i]).corrupt \/ Clean(ApplyDelta(G(i - 1), s[i]), e, s, i))
        BY <2>1, <2>3, CleanOneEvent
      <3> QED  BY <2>1, <3>2, <3>3
    <2> QED  BY <2>2, <2>3
  <1> HIDE DEF P
  <1>8. \A i \in 0 .. Len(s) : i \in P
    BY <1>1, <1>6, <1>7, W!CountingUp
  <1>9. Good(moved, Len(s))
    <2>1. Len(s) \in P
      BY <1>1, <1>8
    <2> QED  BY <1>2, <2>1 DEF P, moved
  <1>10. c.corrupt = moved.corrupt /\ c.balances = moved.balances
         /\ c.weights = [a \in Accounts |-> Accrued(moved, a, EpochEnd(e))]
    BY <1>4
  <1>11. ASSUME ~moved.corrupt
         PROVE  /\ moved.balances \in [Accounts -> Nat]
                /\ \A a \in Accounts : Accrued(moved, a, EpochEnd(e)) \in Nat
    <2>1. /\ moved \in TwabState
          /\ \A a \in Accounts : moved.balances[a] \in Nat /\ moved.weights[a] \in Nat
                                 /\ moved.last[a] <= EpochEnd(e)
      BY <1>9, <1>11 DEF Clean
    <2>2. ASSUME NEW a \in Accounts PROVE Accrued(moved, a, EpochEnd(e)) \in Nat
      <3> DEFINE d == EpochEnd(e) - moved.last[a]
                 b == moved.balances[a]
      <3>1. d \in Nat /\ b \in Nat /\ moved.weights[a] \in Nat
        BY <1>3, <2>1 DEF TwabState
      <3>2. Accrued(moved, a, EpochEnd(e)) = moved.weights[a] + (IF a \in moved.excluded THEN 0 ELSE b * d)
        BY DEF Accrued
      <3> HIDE DEF d, b
      <3>3. b * d \in Nat
        BY <3>1
      <3> QED  BY <3>1, <3>2, <3>3
    <2>3. moved.balances \in [Accounts -> Int]
      BY <2>1 DEF TwabState
    <2> QED  BY <2>1, <2>2, <2>3
  <1>12. moved.corrupt \in BOOLEAN
    BY <1>9 DEF TwabState
  <1>13. /\ c.corrupt \in BOOLEAN
         /\ ~c.corrupt => c.balances \in [Accounts -> Nat] /\ c.weights \in [Accounts -> Nat]
    BY <1>10, <1>11, <1>12
  <1> QED  BY <1>13 DEF c

(* A pool is shared out whole, but for what is carried.                    *)
LEMMA PoolIsShared ==
    ASSUME NEW pool \in Nat, NEW weights \in [Accounts -> Nat]
    PROVE  LET dist == DistributeEpoch(pool, weights)
           IN  /\ dist.rewards \in [Accounts -> Nat] /\ dist.allocated = Total(dist.rewards)
               /\ dist.allocated \in Nat /\ dist.carry \in Nat /\ dist.allocated + dist.carry = pool
  <1> DEFINE sum == Total(weights)
             shares == [a \in Accounts |-> (pool * weights[a]) \div sum]
             rewards == [a \in Accounts |-> IF sum = 0 THEN 0 ELSE (pool * weights[a]) \div sum]
             dist == DistributeEpoch(pool, weights)
  <1>1. dist = [rewards |-> rewards, allocated |-> Total(rewards), carry |-> pool - Total(rewards)]
    BY DEF DistributeEpoch
  <1>2. IsFiniteSet(Accounts) /\ W!IsFiniteSet(Accounts) /\ sum = W!SumAll(weights)
    BY StockbackAssumption, Finite, TotalIsSum
  <1>3. rewards \in [Accounts -> Nat] /\ Total(rewards) \in Nat /\ Total(rewards) <= pool
    <2>1. CASE sum = 0
      <3>1. rewards = [a \in Accounts |-> 0]
        BY <2>1
      <3> HIDE DEF rewards
      <3>2. Total(rewards) = 0
        BY <1>2, <3>1, TotalTypes
      <3> QED  BY <3>1, <3>2
    <2>2. CASE sum # 0
      <3>1. shares \in [Accounts -> Nat] /\ W!SumAll(shares) <= pool
        BY <1>2, <2>2, W!SharesWithin
      <3>2. rewards = shares
        BY <2>2
      <3> HIDE DEF rewards, shares
      <3>3. Total(shares) \in Nat /\ Total(shares) = W!SumAll(shares)
        BY <1>2, <3>1, TotalTypes, TotalIsSum
      <3> QED  BY <3>1, <3>2, <3>3
    <2> QED  BY <2>1, <2>2
  <1> HIDE DEF rewards, dist
  <1>4. /\ dist.rewards \in [Accounts -> Nat] /\ dist.allocated = Total(dist.rewards)
        /\ dist.allocated \in Nat /\ dist.carry \in Nat /\ dist.allocated + dist.carry = pool
    BY <1>1, <1>3
  <1> QED  BY <1>4 DEF dist

-----------------------------------------------------------------------------
(* Numbers in their order *)

Lists(s, S) ==
    /\ s \in [1 .. Cardinality(S) -> S] /\ ToSet(s) = S
    /\ \A i, j \in DOMAIN s : i < j => s[i] < s[j]

(* A finite set of naturals has a bound.                                   *)
LEMMA BoundExists ==
    ASSUME NEW S, IsFiniteSet(S), S \subseteq Nat
    PROVE  \E k \in Nat : S \subseteq 0 .. k - 1
  <1> DEFINE P == {s \in SUBSET S : \E k \in Nat : s \subseteq 0 .. k - 1}
  <1>1. {} \in P
    BY 0 \in Nat
  <1>2. ASSUME NEW s \in SUBSET S, NEW x \in s, s \ {x} \in P PROVE s \in P
    <2>1. PICK k \in Nat : s \ {x} \subseteq 0 .. k - 1
      BY <1>2
    <2> DEFINE l == IF x < k THEN k ELSE x + 1
    <2>2. l \in Nat /\ x \in Nat /\ x < l /\ k <= l
      BY <2>1
    <2> HIDE DEF l
    <2>3. s \subseteq 0 .. l - 1
      <3>1. ASSUME NEW y \in s PROVE y \in 0 .. l - 1
        <4>1. CASE y = x
          BY <2>2, <4>1
        <4>2. CASE y # x
          <5>1. y \in 0 .. k - 1
            BY <2>1, <4>2
          <5> QED  BY <2>2, <5>1
        <4> QED  BY <4>1, <4>2
      <3> QED  BY <3>1
    <2> QED  BY <2>2, <2>3
  <1> HIDE DEF P
  <1>3. W!IsFiniteSet(S)
    BY Finite
  <1>4. S \in P
    BY <1>1, <1>2, <1>3, W!WholeByTaking
  <1> QED  BY <1>4 DEF P

(* The largest comes last.                                                 *)
LEMMA ListsOneMore ==
    ASSUME NEW S, IsFiniteSet(S), NEW k \in S, S \subseteq 0 .. k, k \in Nat,
           NEW t, Lists(t, S \ {k})
    PROVE  \E s : Lists(s, S)
  <1> DEFINE q == S \ {k}
             c == Cardinality(q)
             s == [i \in 1 .. c + 1 |-> IF i = c + 1 THEN k ELSE t[i]]
  <1>1. c \in Nat /\ Cardinality(S) = c + 1
    <2>1. Cardinality(S) \in Nat /\ IsFiniteSet(q) /\ c = Cardinality(S) - 1
      BY FS_CardinalityType, FS_RemoveElement
    <2>2. c \in Nat
      BY <2>1, FS_CardinalityType
    <2> HIDE DEF c
    <2> QED  BY <2>1, <2>2
  <1>2. t \in [1 .. c -> q] /\ ToSet(t) = q /\ \A i, j \in 1 .. c : i < j => t[i] < t[j]
    BY DEF Lists
  <1> HIDE DEF c
  <1>3. /\ \A i \in 1 .. c : s[i] = t[i] /\ i \in 1 .. c + 1
        /\ s[c + 1] = k /\ c + 1 \in 1 .. c + 1 /\ DOMAIN s = 1 .. c + 1
        /\ \A i \in 1 .. c + 1 : i \in 1 .. c \/ i = c + 1
        /\ s = [i \in 1 .. c + 1 |-> s[i]]
    BY <1>1
  <1> HIDE DEF s
  <1>4. \A i \in 1 .. c + 1 : s[i] \in S
    BY <1>2, <1>3
  <1>5. s \in [1 .. c + 1 -> S]
    BY <1>3, <1>4
  <1>6. ToSet(s) = S
    <2>1. ASSUME NEW y \in S PROVE y \in ToSet(s)
      <3>1. CASE y = k
        BY <1>3, <3>1 DEF ToSet
      <3>2. CASE y # k
        <4>1. y \in ToSet(t)
          BY <1>2, <3>2
        <4>2. PICK i \in 1 .. c : t[i] = y
          BY <1>2, <4>1 DEF ToSet
        <4> QED  BY <1>3, <4>2 DEF ToSet
      <3> QED  BY <3>1, <3>2
    <2>2. ToSet(s) \subseteq S
      BY <1>3, <1>4 DEF ToSet
    <2> QED  BY <2>1, <2>2
  <1>7. ASSUME NEW i \in 1 .. c + 1, NEW j \in 1 .. c + 1, i < j PROVE s[i] < s[j]
    <2>1. i \in 1 .. c
      BY <1>1, <1>7
    <2>2. CASE j = c + 1
      <3>1. t[i] \in q
        BY <1>2, <2>1
      <3>2. t[i] \in 0 .. k /\ t[i] # k
        BY <3>1
      <3>3. t[i] < k
        BY <3>2
      <3> QED  BY <1>3, <2>1, <2>2, <3>3
    <2>3. CASE j # c + 1
      <3>1. j \in 1 .. c
        BY <1>1, <2>3
      <3> QED  BY <1>2, <1>3, <1>7, <2>1, <3>1
    <2> QED  BY <2>2, <2>3
  <1>8. Lists(s, S)
    BY <1>1, <1>3, <1>5, <1>6, <1>7 DEF Lists
  <1> QED  BY <1>8

(* A finite set of naturals is listed in its order.                        *)
LEMMA AscendingLists ==
    ASSUME NEW S, IsFiniteSet(S), S \subseteq Nat
    PROVE  Lists(Ascending(S), S) /\ Cardinality(S) \in Nat
  <1> DEFINE P == {k \in Nat : \A r \in SUBSET (0 .. k - 1) : \E s : Lists(s, r)}
  <1>1. 0 \in P
    <2>1. ASSUME NEW r \in SUBSET (0 .. 0 - 1) PROVE \E s : Lists(s, r)
      <3>0. r = {}
        OBVIOUS
      <3>1. r = {} /\ Cardinality(r) = 0
        BY <3>0, FS_EmptySet
      <3>2. Lists([i \in 1 .. 0 |-> 0], r)
        BY <3>1 DEF Lists, ToSet
      <3> QED  BY <3>2
    <2> QED  BY <2>1
  <1>2. ASSUME NEW k \in Nat, k \in P PROVE k + 1 \in P
    <2>1. ASSUME NEW r \in SUBSET (0 .. (k + 1) - 1) PROVE \E s : Lists(s, r)
      <3>1. (k + 1) - 1 = k /\ r \subseteq 0 .. k /\ IsFiniteSet(r)
        <4>1. (k + 1) - 1 = k
          OBVIOUS
        <4>2. r \subseteq 0 .. k
          BY <4>1
        <4>3. IsFiniteSet(0 .. k)
          BY FS_Interval
        <4>4. IsFiniteSet(r)
          BY <4>2, <4>3, FS_Subset
        <4> QED  BY <4>1, <4>2, <4>4
      <3>2. r \ {k} \in SUBSET (0 .. k - 1)
        BY <3>1
      <3>3. PICK t : Lists(t, r \ {k})
        BY <1>2, <3>2
      <3>4. CASE k \in r
        BY <3>1, <3>3, <3>4, ListsOneMore
      <3>5. CASE k \notin r
        <4>1. r \ {k} = r
          BY <3>5
        <4> QED  BY <3>3, <4>1
      <3> QED  BY <3>4, <3>5
    <2> QED  BY <2>1
  <1> HIDE DEF P
  <1>3. Nat \subseteq P
    BY <1>1, <1>2, W!NaturalsBySuccessor
  <1>4. PICK k \in Nat : S \subseteq 0 .. k - 1
    BY BoundExists
  <1>5. PICK s : Lists(s, S)
    BY <1>3, <1>4 DEF P
  <1>6. s \in [1 .. Cardinality(S) -> S] /\ ToSet(s) = S /\ \A i, j \in DOMAIN s : i < j => s[i] < s[j]
    BY <1>5 DEF Lists
  <1> DEFINE t == Ascending(S)
  <1>7. t \in [1 .. Cardinality(S) -> S] /\ ToSet(t) = S /\ \A i, j \in DOMAIN t : i < j => t[i] < t[j]
    BY <1>6 DEF Ascending
  <1> QED  BY <1>7, FS_CardinalityType DEF Lists

-----------------------------------------------------------------------------
(* Contributions *)

(* Epochs follow one another without a gap, and later blocks are not in    *)
(* earlier ones.                                                           *)
LEMMA EpochOrder ==
    /\ EpochEnd(-1) = 0 /\ EpochStart(0) = 0
    /\ \A e \in Int : EpochStart(e) = EpochEnd(e - 1) /\ EpochEnd(e) \in Int /\ EpochStart(e) \in Int
    /\ \A e \in Nat, f \in Nat : e <= f => EpochEnd(e) <= EpochEnd(f)
    /\ \A n \in Nat, k \in Nat : n <= k => EpochIdAt(n) <= EpochIdAt(k)
    /\ \A n \in Nat, e \in Nat : n < EpochEnd(e) => EpochIdAt(n) <= e
  <1> DEFINE E == EpochSeconds
  <1>1. E \in Nat \ {0}
    BY StockbackAssumption
  <1>2. EpochEnd(-1) = 0 /\ EpochStart(0) = 0
    BY <1>1 DEF EpochEnd, EpochStart
  <1>3. \A e \in Int : EpochStart(e) = EpochEnd(e - 1) /\ EpochEnd(e) \in Int /\ EpochStart(e) \in Int
    <2> SUFFICES ASSUME NEW e \in Int
                 PROVE  EpochStart(e) = EpochEnd(e - 1) /\ EpochEnd(e) \in Int /\ EpochStart(e) \in Int
      OBVIOUS
    <2> HIDE DEF E
    <2>1. (e - 1) + 1 = e /\ e * E \in Int /\ (e + 1) * E \in Int
      BY <1>1
    <2> QED  BY <2>1 DEF EpochStart, EpochEnd, E
  <1>4. ASSUME NEW e \in Nat, NEW f \in Nat, e <= f PROVE EpochEnd(e) <= EpochEnd(f)
    <2> HIDE DEF E
    <2>1. (e + 1) * E <= (f + 1) * E
      BY <1>1, <1>4
    <2> QED  BY <2>1 DEF EpochEnd, E
  <1>5. ASSUME NEW n \in Nat, NEW e \in Nat, n < EpochEnd(e) PROVE EpochIdAt(n) <= e
    <2> DEFINE q == EpochIdAt(n)
    <2>1. q \in Nat
      BY EpochBounds
    <2> HIDE DEF q
    <2>2. EpochStart(q) <= n /\ EpochEnd(e) \in Nat /\ EpochStart(q) \in Nat
      BY <2>1, EpochBounds DEF q
    <2> HIDE DEF E
    <2>3. ASSUME e + 1 <= q PROVE FALSE
      <3>1. (e + 1) * E <= q * E /\ (e + 1) * E \in Int /\ q * E \in Int
        BY <1>1, <2>1, <2>3
      <3> QED  BY <1>5, <2>2, <3>1 DEF EpochStart, EpochEnd, E
    <2> QED  BY <2>1, <2>3 DEF q
  <1>6. ASSUME NEW n \in Nat, NEW k \in Nat, n <= k PROVE EpochIdAt(n) <= EpochIdAt(k)
    <2> DEFINE f == EpochIdAt(k)
    <2>1. f \in Nat
      BY EpochBounds
    <2> HIDE DEF f
    <2>2. k < EpochEnd(f) /\ EpochEnd(f) \in Nat
      BY <2>1, EpochBounds DEF f
    <2>3. n < EpochEnd(f)
      BY <1>6, <2>2
    <2> QED  BY <1>5, <2>1, <2>3 DEF f
  <1> QED  BY <1>2, <1>3, <1>4, <1>5, <1>6

(* What blocks contribute together: nothing only if none contributes, and  *)
(* of two separate sets the sum.                                           *)
LEMMA FundingAdds ==
    ASSUME ChainOK, NEW H \in SUBSET (1 .. Len(blocks))
    PROVE  /\ Funding(H) \in Nat /\ Funding({}) = 0
           /\ Funding(H) > 0 <=> \E n \in H : blocks[n].funding > 0
           /\ \A K \in SUBSET H : Funding(H) = Funding(K) + Funding(H \ K)
  <1> DEFINE f == [n \in H |-> blocks[n].funding]
  <1>1. IsFiniteSet(H) /\ W!IsFiniteSet(H)
    <2>1. IsFiniteSet(1 .. Len(blocks))
      BY FS_Interval DEF ChainOK
    <2>2. IsFiniteSet(H)
      BY <2>1, FS_Subset
    <2> QED  BY <2>2, Finite
  <1>2. f \in [H -> Nat] /\ f \in [H -> Int]
    <2>1. \A n \in H : blocks[n].funding \in Nat
      BY BlockTypes
    <2> QED  BY <2>1
  <1>3. Funding(H) = Total(f) /\ Total(f) = W!SumAll(f)
    BY TotalIsSum DEF Funding
  <1>4. \A K \in SUBSET H : W!Part(f, K) = [n \in K |-> blocks[n].funding]
    BY DEF W!Part
  <1>5. \A K \in SUBSET H : Funding(K) = W!SumAll(W!Part(f, K))
    BY <1>4, TotalIsSum DEF Funding
  <1>6. \A n \in H : f[n] = blocks[n].funding
    OBVIOUS
  <1> HIDE DEF f
  <1>7. Funding({}) = 0
    <2>1. [n \in {} |-> blocks[n].funding] = [n \in {} |-> 0] /\ IsFiniteSet({})
      BY FS_EmptySet
    <2> QED  BY <2>1, TotalTypes DEF Funding
  <1>8. Funding(H) \in Nat
    BY <1>1, <1>2, <1>3, TotalTypes
  <1>9. ASSUME NEW n \in H, blocks[n].funding > 0 PROVE Funding(H) > 0
    <2>1. f[n] <= W!SumAll(f) /\ f[n] \in Nat
      BY <1>1, <1>2, W!SumCoversTerm
    <2> QED  BY <1>3, <1>6, <1>8, <1>9, <2>1
  <1>10. ASSUME \A n \in H : ~(blocks[n].funding > 0) PROVE Funding(H) = 0
    <2>1. \A n \in H : f[n] = 0
      BY <1>2, <1>6, <1>10
    <2>2. f = [n \in H |-> 0]
      BY <1>2, <2>1
    <2> QED  BY <1>1, <1>3, <2>2, TotalTypes
  <1>11. ASSUME NEW K \in SUBSET H PROVE Funding(H) = Funding(K) + Funding(H \ K)
    <2>1. W!SumAll(f) = W!SumAll(W!Part(f, K)) + W!SumAll(W!Part(f, H \ K))
      BY <1>1, <1>2, W!SumOfUnion
    <2>2. H \ K \in SUBSET H
      OBVIOUS
    <2> QED  BY <1>3, <1>5, <2>1, <2>2
  <1> QED  BY <1>7, <1>8, <1>9, <1>10, <1>11

(* What has been contributed by the end of an epoch.                       *)
FundedTo(e) == Funding(Before(EpochEnd(e)))

(* Nothing before the first, and in each what its blocks bring.            *)
LEMMA FundedNext ==
    ASSUME ChainOK
    PROVE  /\ FundedTo(-1) = 0
           /\ \A e \in Nat : EpochEnd(e) - 1 <= Len(blocks) =>
                 /\ FundedTo(e) = FundedTo(e - 1) + FundingOf(e)
                 /\ FundedTo(e) \in Nat /\ FundedTo(e - 1) \in Nat /\ FundingOf(e) \in Nat
                 /\ BlocksOf(e) = {n \in 1 .. EpochEnd(e) - 1 : EpochIdAt(n) = e}
  <1>1. Len(blocks) \in Nat /\ DOMAIN blocks = 1 .. Len(blocks)
    BY DEF ChainOK
  <1>2. FundedTo(-1) = 0
    <2>1. EpochEnd(-1) = 0
      BY EpochOrder
    <2>2. Before(0) = {}
      BY <1>1 DEF Before
    <2>3. {} \in SUBSET (1 .. Len(blocks))
      OBVIOUS
    <2> QED  BY <2>1, <2>2, <2>3, FundingAdds DEF FundedTo
  <1>3. ASSUME NEW e \in Nat, EpochEnd(e) - 1 <= Len(blocks)
        PROVE  /\ FundedTo(e) = FundedTo(e - 1) + FundingOf(e)
               /\ FundedTo(e) \in Nat /\ FundedTo(e - 1) \in Nat /\ FundingOf(e) \in Nat
               /\ BlocksOf(e) = {n \in 1 .. EpochEnd(e) - 1 : EpochIdAt(n) = e}
    <2> DEFINE S == EpochStart(e)
               N == EpochEnd(e)
               H == 1 .. N - 1
               K == 1 .. S - 1
    <2>1. S \in Nat /\ N \in Nat /\ S < N /\ EpochEnd(e - 1) = S
      BY EpochBounds, EpochOrder
    <2>2. H = Before(N) /\ K = Before(S) /\ H \in SUBSET (1 .. Len(blocks)) /\ K \in SUBSET H
      BY <1>1, <1>3, <2>1 DEF Before
    <2>3. \A n \in Nat : EpochIdAt(n) = e <=> S <= n /\ n < N
      BY EpochBounds
    <2> HIDE DEF S, N
    <2>4. BlocksOf(e) = H \ K
      BY <1>1, <1>3, <2>1, <2>3 DEF BlocksOf, N
    <2>5. BlocksOf(e) = {n \in H : EpochIdAt(n) = e}
      BY <1>1, <1>3, <2>1, <2>3 DEF BlocksOf, N
    <2>6. FundedTo(e) = Funding(H) /\ FundedTo(e - 1) = Funding(K) /\ FundingOf(e) = Funding(H \ K)
      BY <2>1, <2>2, <2>4 DEF FundedTo, FundingOf, N
    <2>7. H \ K \in SUBSET (1 .. Len(blocks)) /\ K \in SUBSET (1 .. Len(blocks))
      BY <2>2
    <2> HIDE DEF H, K
    <2>8. Funding(H) = Funding(K) + Funding(H \ K)
      BY <2>2, FundingAdds
    <2>9. Funding(H) \in Nat /\ Funding(K) \in Nat /\ Funding(H \ K) \in Nat
      BY <2>2, <2>7, FundingAdds
    <2> QED  BY <2>5, <2>6, <2>8, <2>9 DEF H, N
  <1> QED  BY <1>2, <1>3

-----------------------------------------------------------------------------
(* What is owed *)

Solvent == \A a \in Accounts, t \in Nat : BalanceAt(a, t) \in Nat

OwedType == [paid : [Accounts -> Nat], left : Nat]
NothingYet == [paid |-> Nobody, left |-> 0]

(* One epoch more, in terms of the code's own distribution.                *)
OwedStep(e, x, b) ==
    IF ~Active(e) THEN b
    ELSE LET dist == DistributeEpoch(FundingOf(e) + b.left, WeightsOf(e, x))
         IN  [paid |-> [a \in Accounts |-> b.paid[a] + dist.rewards[a]], left |-> dist.carry]

(* What is held and what is contributed are natural numbers.               *)
LEMMA HeldIsNatural ==
    ASSUME ChainOK, Solvent, NEW e \in Nat
    PROVE  /\ \A a \in Accounts : HeldIn(a, e) \in Nat
           /\ \A x : WeightsOf(e, x) \in [Accounts -> Nat]
           /\ FundingOf(e) \in Nat
  <1>1. ASSUME NEW a \in Accounts PROVE HeldIn(a, e) \in Nat
    <2> DEFINE S == EpochStart(e) .. EpochEnd(e) - 1
               f == [at \in S |-> BalanceAt(a, at)]
    <2>1. EpochStart(e) \in Nat /\ EpochEnd(e) \in Nat
      BY EpochBounds
    <2>2. IsFiniteSet(S) /\ S \subseteq Nat
      <3>1. EpochStart(e) \in Int /\ EpochEnd(e) - 1 \in Int
        BY <2>1
      <3>2. IsFiniteSet(S)
        BY <3>1, FS_Interval
      <3>3. S \subseteq Nat
        BY <2>1
      <3> QED  BY <3>2, <3>3
    <2> HIDE DEF S
    <2>3. f \in [S -> Nat]
      BY <2>2 DEF Solvent
    <2> HIDE DEF f
    <2>4. Total(f) \in Nat
      BY <2>2, <2>3, TotalTypes
    <2> QED  BY <2>4 DEF HeldIn, f, S
  <1>2. \A x : WeightsOf(e, x) \in [Accounts -> Nat]
    BY <1>1 DEF WeightsOf
  <1>3. FundingOf(e) \in Nat
    <2>1. BlocksOf(e) \in SUBSET (1 .. Len(blocks))
      BY DEF BlocksOf, ChainOK
    <2> QED  BY <2>1, FundingAdds DEF FundingOf
  <1> QED  BY <1>1, <1>2, <1>3

(* So an epoch more leads from natural numbers to such, and only adds.     *)
LEMMA OwedStepType ==
    ASSUME ChainOK, Solvent, NEW e \in Nat, NEW x, NEW b \in OwedType
    PROVE  /\ OwedStep(e, x, b) \in OwedType
           /\ \A a \in Accounts : b.paid[a] <= OwedStep(e, x, b).paid[a]
  <1> DEFINE pool == FundingOf(e) + b.left
             weights == WeightsOf(e, x)
             dist == DistributeEpoch(pool, weights)
             u == OwedStep(e, x, b)
  <1>1. b.paid \in [Accounts -> Nat] /\ b.left \in Nat
    BY DEF OwedType
  <1>2. pool \in Nat /\ weights \in [Accounts -> Nat]
    BY <1>1, HeldIsNatural
  <1>3. u = IF ~Active(e) THEN b
            ELSE [paid |-> [a \in Accounts |-> b.paid[a] + dist.rewards[a]], left |-> dist.carry]
    BY DEF OwedStep
  <1> HIDE DEF pool, weights, u
  <1>4. dist.rewards \in [Accounts -> Nat] /\ dist.carry \in Nat
    BY <1>2, PoolIsShared
  <1> HIDE DEF dist
  <1>5. [a \in Accounts |-> b.paid[a] + dist.rewards[a]] \in [Accounts -> Nat]
    BY <1>1, <1>4
  <1>6. u \in OwedType
    BY <1>3, <1>4, <1>5 DEF OwedType
  <1>7. ASSUME NEW a \in Accounts PROVE b.paid[a] <= u.paid[a]
    <2>1. b.paid[a] \in Nat /\ dist.rewards[a] \in Nat
      BY <1>1, <1>4
    <2>2. u.paid[a] = b.paid[a] \/ u.paid[a] = b.paid[a] + dist.rewards[a]
      BY <1>3
    <2> QED  BY <2>1, <2>2
  <1> QED  BY <1>6, <1>7 DEF u

(* The recursion of Owed, as it is written there.                          *)
IsOwed(upTo, sequence, outcasts) ==
    LET weight(a, e) == IF a \in outcasts THEN 0 ELSE HeldIn(a, e)
    IN  upTo = [e \in -1 .. sequence |->
            IF e = -1 THEN [paid |-> Nobody, left |-> 0]
            ELSE IF ~Active(e) THEN upTo[e - 1]
            ELSE LET before == upTo[e - 1]
                     pool == FundingOf(e) + before.left
                     all == Total([a \in Accounts |-> weight(a, e)])
                     share(a) == IF all = 0 THEN 0 ELSE (pool * weight(a, e)) \div all
                     now == [a \in Accounts |-> share(a)]
                 IN  [paid |-> [a \in Accounts |-> before.paid[a] + now[a]],
                      left |-> pool - Total(now)]]
OwedRun(q, x) == CHOOSE u : IsOwed(u, q, x)

(* Owed is the last of the run.                                            *)
LEMMA OwedIsRun == \A q, x : Owed(q, x) = OwedRun(q, x)[q]
  BY DEF Owed, OwedRun, IsOwed

(* A step of that recursion is the code's distribution.                    *)
LEMMA OwedRecursion ==
    ASSUME NEW u, NEW q \in Int, NEW x
    PROVE  IsOwed(u, q, x) <=>
              u = [e \in -1 .. q |-> IF e = -1 THEN NothingYet ELSE OwedStep(e, x, u[e - 1])]
  <1> DEFINE weight(a, e) == IF a \in x THEN 0 ELSE HeldIn(a, e)
             pool(e) == FundingOf(e) + u[e - 1].left
             all(e) == Total([a \in Accounts |-> weight(a, e)])
             now(e) == [a \in Accounts |-> IF all(e) = 0 THEN 0 ELSE (pool(e) * weight(a, e)) \div all(e)]
             whole(e) == [paid |-> [a \in Accounts |-> u[e - 1].paid[a] + now(e)[a]],
                          left |-> pool(e) - Total(now(e))]
             dist(e) == DistributeEpoch(FundingOf(e) + u[e - 1].left, WeightsOf(e, x))
  <1>1. IsOwed(u, q, x) <=>
           u = [e \in -1 .. q |-> IF e = -1 THEN NothingYet ELSE IF ~Active(e) THEN u[e - 1] ELSE whole(e)]
    BY DEF IsOwed, NothingYet
  <1>2. ASSUME NEW e PROVE dist(e).rewards = now(e) /\ dist(e).carry = pool(e) - Total(now(e))
    <2> DEFINE w == WeightsOf(e, x)
               p == FundingOf(e) + u[e - 1].left
               r == [a \in Accounts |-> IF Total(w) = 0 THEN 0 ELSE (p * w[a]) \div Total(w)]
    <2>1. dist(e) = [rewards |-> r, allocated |-> Total(r), carry |-> p - Total(r)]
      BY DEF DistributeEpoch
    <2>2. w = [a \in Accounts |-> weight(a, e)] /\ \A a \in Accounts : w[a] = weight(a, e)
      BY DEF WeightsOf
    <2>3. all(e) = Total(w)
      BY <2>2
    <2> HIDE DEF w, weight
    <2>4. r = now(e)
      BY <2>2, <2>3
    <2> HIDE DEF r, now, dist
    <2> QED  BY <2>1, <2>4
  <1> HIDE DEF now, pool
  <1>3. ASSUME NEW e PROVE (IF ~Active(e) THEN u[e - 1] ELSE whole(e)) = OwedStep(e, x, u[e - 1])
    <2>1. OwedStep(e, x, u[e - 1]) =
            IF ~Active(e) THEN u[e - 1]
            ELSE [paid |-> [a \in Accounts |-> u[e - 1].paid[a] + dist(e).rewards[a]], left |-> dist(e).carry]
      BY DEF OwedStep
    <2> HIDE DEF dist
    <2> QED  BY <1>2, <2>1
  <1> HIDE DEF whole
  <1>4. [e \in -1 .. q |-> IF e = -1 THEN NothingYet ELSE IF ~Active(e) THEN u[e - 1] ELSE whole(e)]
        = [e \in -1 .. q |-> IF e = -1 THEN NothingYet ELSE OwedStep(e, x, u[e - 1])]
    BY <1>3
  <1> QED  BY <1>1, <1>4

(* All of them run along one sequence.                                     *)
LEMMA OwedRuns ==
    ASSUME ChainOK, Solvent, NEW q \in Nat, NEW x
    PROVE  \E g : /\ g \in [0 .. q + 1 -> OwedType] /\ g[0] = NothingYet
                  /\ \A i \in 1 .. q + 1 : g[i] = OwedStep(i - 1, x, g[i - 1])
                  /\ \A e \in -1 .. q : Owed(e, x) = g[e + 1]
  <1> DEFINE T == OwedType
             n == q + 1
             F == [p \in (1 .. n) \X T |-> OwedStep(p[1] - 1, x, p[2])]
  <1>1. n \in Nat /\ NothingYet \in T
    BY DEF NothingYet, OwedType, Nobody
  <1>2. ASSUME NEW i \in 1 .. n, NEW b \in T PROVE F[<<i, b>>] = OwedStep(i - 1, x, b)
    OBVIOUS
  <1>3. ASSUME NEW p \in (1 .. n) \X T PROVE OwedStep(p[1] - 1, x, p[2]) \in T
    <2>1. p[1] - 1 \in Nat /\ p[2] \in T
      OBVIOUS
    <2> HIDE DEF n
    <2> QED  BY <2>1, OwedStepType
  <1>4. F \in [(1 .. n) \X T -> T]
    BY <1>3
  <1> HIDE DEF F, T, n
  <1>5. PICK g : W!IsStepped(g, T, n, NothingYet, F)
    BY <1>1, <1>4, W!StepsExist
  <1>6. g \in [0 .. n -> T] /\ g[0] = NothingYet /\ \A i \in 1 .. n : g[i] = F[<<i, g[i - 1]>>]
    BY <1>5 DEF W!IsStepped
  <1>7. ASSUME NEW i \in 1 .. n PROVE g[i] = OwedStep(i - 1, x, g[i - 1])
    <2>1. i - 1 \in 0 .. n
      BY <1>1
    <2>2. g[i - 1] \in T
      BY <1>6, <2>1
    <2> QED  BY <1>2, <1>6, <2>2
  <1>8. ASSUME NEW e \in -1 .. q PROVE Owed(e, x) = g[e + 1]
    <2> DEFINE u == [f \in -1 .. e |-> g[f + 1]]
               c == OwedRun(e, x)
    <2>1. e \in Int /\ e + 1 \in Nat /\ e + 1 <= n /\ n = q + 1
      BY DEF n
    <2>2. IsOwed(u, e, x)
      <3>1. ASSUME NEW f \in -1 .. e
            PROVE  u[f] = IF f = -1 THEN NothingYet ELSE OwedStep(f, x, u[f - 1])
        <4>1. CASE f = -1
          BY <1>6, <4>1
        <4>2. CASE f # -1
          <5>1. f - 1 \in -1 .. e /\ f + 1 \in 1 .. n /\ (f + 1) - 1 = f /\ (f - 1) + 1 = f
            BY <1>1, <2>1, <4>2
          <5>2. g[f + 1] = OwedStep((f + 1) - 1, x, g[(f + 1) - 1])
            BY <1>7, <5>1
          <5>3. u[f] = g[f + 1] /\ u[f - 1] = g[f]
            BY <5>1
          <5> HIDE DEF u
          <5> QED  BY <4>2, <5>1, <5>2, <5>3
        <4> QED  BY <4>1, <4>2
      <3>2. u = [f \in -1 .. e |-> u[f]]
        OBVIOUS
      <3> HIDE DEF u
      <3>3. u = [f \in -1 .. e |-> IF f = -1 THEN NothingYet ELSE OwedStep(f, x, u[f - 1])]
        BY <3>1, <3>2
      <3> QED  BY <2>1, <3>3, OwedRecursion
    <2>3. IsOwed(c, e, x)
      BY <2>2 DEF OwedRun
    <2> HIDE DEF c, u
    <2>4. c = [f \in -1 .. e |-> IF f = -1 THEN NothingYet ELSE OwedStep(f, x, c[f - 1])]
      BY <2>1, <2>3, OwedRecursion
    <2>5. c[-1] = NothingYet
      BY <2>1, <2>4
    <2>6. ASSUME NEW f \in 0 .. e PROVE c[f] = OwedStep(f, x, c[f - 1])
      <3>1. f \in -1 .. e /\ f # -1
        BY <2>1
      <3> QED  BY <2>4, <3>1
    <2> DEFINE P == {i \in Nat : c[i - 1] = g[i]}
    <2>7. 0 \in P
      BY <1>6, <2>5
    <2>8. ASSUME NEW i \in 1 .. e + 1, i - 1 \in P PROVE i \in P
      <3>1. i \in Nat /\ i - 1 \in 0 .. e /\ i \in 1 .. n
        BY <2>1
      <3>2. c[(i - 1) - 1] = g[i - 1]
        BY <2>8
      <3> QED  BY <1>7, <2>6, <3>1, <3>2
    <2> HIDE DEF P
    <2>9. \A i \in 0 .. e + 1 : i \in P
      BY <2>1, <2>7, <2>8, W!CountingUp
    <2>10. e + 1 \in P /\ (e + 1) - 1 = e
      BY <2>1, <2>9
    <2>11. c[e] = g[e + 1]
      BY <2>10 DEF P
    <2> QED  BY <2>11, OwedIsRun DEF c
  <1> QED  BY <1>6, <1>7, <1>8 DEF T, n

(* Nothing is owed before the first epoch; then each adds its own.         *)
LEMMA OwedNext ==
    ASSUME ChainOK, Solvent, NEW x
    PROVE  /\ Owed(-1, x) = NothingYet
           /\ \A e \in Nat : /\ Owed(e, x) = OwedStep(e, x, Owed(e - 1, x))
                             /\ Owed(e, x) \in OwedType /\ Owed(e - 1, x) \in OwedType
                             /\ \A a \in Accounts : Owed(e - 1, x).paid[a] <= Owed(e, x).paid[a]
  <1>1. ASSUME NEW e \in Nat
        PROVE  /\ Owed(-1, x) = NothingYet
               /\ Owed(e, x) = OwedStep(e, x, Owed(e - 1, x))
               /\ Owed(e, x) \in OwedType /\ Owed(e - 1, x) \in OwedType
    <2>1. PICK g : /\ g \in [0 .. e + 1 -> OwedType] /\ g[0] = NothingYet
                   /\ \A i \in 1 .. e + 1 : g[i] = OwedStep(i - 1, x, g[i - 1])
                   /\ \A f \in -1 .. e : Owed(f, x) = g[f + 1]
      BY OwedRuns
    <2>2. /\ e \in -1 .. e /\ e - 1 \in -1 .. e /\ -1 \in -1 .. e /\ e + 1 \in 1 .. e + 1
          /\ e \in 0 .. e + 1 /\ e + 1 \in 0 .. e + 1 /\ (e + 1) - 1 = e /\ (e - 1) + 1 = e /\ -1 + 1 = 0
      OBVIOUS
    <2>3. Owed(e, x) = g[e + 1] /\ Owed(e - 1, x) = g[e] /\ Owed(-1, x) = g[0]
      BY <2>1, <2>2
    <2>4. g[e + 1] = OwedStep(e, x, g[e])
      BY <2>1, <2>2
    <2>5. g[e] \in OwedType /\ g[e + 1] \in OwedType
      BY <2>1, <2>2
    <2> QED  BY <2>1, <2>3, <2>4, <2>5
  <1>2. Owed(-1, x) = NothingYet
    <2>1. 0 \in Nat
      OBVIOUS
    <2> QED  BY <1>1, <2>1
  <1>3. ASSUME NEW e \in Nat, NEW a \in Accounts
        PROVE  Owed(e - 1, x).paid[a] <= Owed(e, x).paid[a]
    <2>1. Owed(e - 1, x) \in OwedType /\ Owed(e, x) = OwedStep(e, x, Owed(e - 1, x))
      BY <1>1
    <2> QED  BY <2>1, OwedStepType
  <1> QED  BY <1>1, <1>2, <1>3

-----------------------------------------------------------------------------
(* What a pass reads *)

InOrder(s, n) ==
    /\ \A i \in 1 .. Len(s) : s[i].at \in 1 .. n /\ blocks[s[i].at].moves # <<>>
    /\ \A i, j \in 1 .. Len(s) : i < j => s[i].at <= s[j].at
    /\ \A k \in 1 .. n : blocks[k].moves # <<>> => \E i \in 1 .. Len(s) : s[i].at = k

(* A block's events come after those of the blocks before it.              *)
LEMMA InOrderOneBlock ==
    ASSUME ChainOK, NEW n \in 1 .. Len(blocks), NEW s \in Seq(Event), InOrder(s, n - 1)
    PROVE  InOrder(s \o EventsAt(n), n)
  <1> DEFINE t == EventsAt(n)
             r == s \o t
  <1>1. /\ t \in Seq(Event) /\ Len(t) = Len(blocks[n].moves) /\ \A i \in 1 .. Len(t) : t[i].at = n
    BY BlockEvents
  <1>2. /\ n \in Nat /\ Len(s) \in Nat /\ Len(t) \in Nat /\ Len(blocks[n].moves) \in Nat
        /\ (blocks[n].moves # <<>> <=> Len(t) # 0)
    <2>1. blocks[n].moves \in Seq(Accounts \X Int)
      BY BlockTypes
    <2>2. blocks[n].moves # <<>> <=> Len(blocks[n].moves) # 0
      BY <2>1
    <2> QED  BY <1>1, <2>1, <2>2, BlockTypes
  <1> HIDE DEF t
  <1>3. /\ Len(r) = Len(s) + Len(t)
        /\ \A i \in 1 .. Len(s) : r[i] = s[i]
        /\ \A i \in 1 .. Len(t) : r[Len(s) + i] = t[i]
    <2>1. t \in Seq(Event)
      BY <1>1
    <2> QED  BY <2>1, Joined
  <1> HIDE DEF r
  <1>4. ASSUME NEW i \in 1 .. Len(r), ~(i \in 1 .. Len(s)) PROVE r[i].at = n /\ blocks[n].moves # <<>>
    <2> DEFINE p == i - Len(s)
    <2>1. p \in 1 .. Len(t) /\ Len(s) + p = i
      BY <1>2, <1>3, <1>4
    <2> HIDE DEF p
    <2>2. r[i] = t[p] /\ t[p].at = n /\ Len(t) # 0
      BY <1>1, <1>2, <1>3, <2>1
    <2> QED  BY <1>2, <2>2
  <1>5. ASSUME NEW i \in 1 .. Len(s) PROVE r[i].at \in 1 .. n - 1 /\ blocks[r[i].at].moves # <<>>
    BY <1>3 DEF InOrder
  <1>6. \A i \in 1 .. Len(r) : r[i].at \in 1 .. n /\ blocks[r[i].at].moves # <<>>
    BY <1>2, <1>4, <1>5
  <1>7. ASSUME NEW i \in 1 .. Len(r), NEW j \in 1 .. Len(r), i < j PROVE r[i].at <= r[j].at
    <2>1. CASE j \in 1 .. Len(s)
      <3>1. i \in 1 .. Len(s)
        BY <1>2, <1>7, <2>1
      <3> QED  BY <1>3, <1>7, <2>1, <3>1 DEF InOrder
    <2>2. CASE j \notin 1 .. Len(s)
      <3>1. r[j].at = n /\ r[i].at \in 1 .. n
        BY <1>4, <1>6, <2>2
      <3> QED  BY <1>2, <3>1
    <2> QED  BY <2>1, <2>2
  <1>8. ASSUME NEW k \in 1 .. n, blocks[k].moves # <<>> PROVE \E i \in 1 .. Len(r) : r[i].at = k
    <2>1. CASE k = n
      <3>1. 1 \in 1 .. Len(t) /\ Len(s) + 1 \in 1 .. Len(r)
        BY <1>2, <1>3, <1>8, <2>1
      <3>2. r[Len(s) + 1].at = n
        BY <1>1, <1>3, <3>1
      <3> QED  BY <2>1, <3>1, <3>2
    <2>2. CASE k # n
      <3>1. k \in 1 .. n - 1
        BY <1>2, <2>2
      <3>2. PICK i \in 1 .. Len(s) : s[i].at = k
        BY <1>8, <3>1 DEF InOrder
      <3>3. i \in 1 .. Len(r) /\ r[i] = s[i]
        BY <1>2, <1>3
      <3> QED  BY <3>2, <3>3
    <2> QED  BY <2>1, <2>2
  <1> QED  BY <1>6, <1>7, <1>8 DEF InOrder, r, t

(* So do all that a pass reads.                                            *)
LEMMA StreamInOrder ==
    ASSUME ChainOK, NEW m \in Nat, m <= Len(blocks), NEW h, IsStream(h, m)
    PROVE  h[m] \in Seq(Event) /\ InOrder(h[m], m)
  <1> DEFINE P == {n \in Nat : InOrder(h[n], n)}
  <1>1. /\ h \in [0 .. m -> Seq(Event)] /\ h[0] = <<>>
        /\ \A n \in 1 .. m : h[n] = h[n - 1] \o EventsAt(n)
    BY DEF IsStream
  <1>2. 0 \in P
    <2>1. Len(<<>>) = 0 /\ 1 .. 0 = {}
      OBVIOUS
    <2> QED  BY <1>1, <2>1 DEF InOrder
  <1>3. ASSUME NEW n \in 1 .. m, n - 1 \in P PROVE n \in P
    <2>1. n \in 1 .. Len(blocks) /\ h[n - 1] \in Seq(Event) /\ InOrder(h[n - 1], n - 1) /\ n \in Nat
      BY <1>1, <1>3 DEF ChainOK
    <2>2. InOrder(h[n - 1] \o EventsAt(n), n)
      BY <2>1, InOrderOneBlock
    <2> QED  BY <1>1, <2>1, <2>2
  <1> HIDE DEF P
  <1>4. \A n \in 0 .. m : n \in P
    BY <1>2, <1>3, W!CountingUp
  <1>5. m \in P
    BY <1>4
  <1> QED  BY <1>1, <1>5 DEF P

(* The events read through a time come in order, of whatever chain.        *)
LEMMA ReadIsOrderly ==
    ASSUME ChainOK, Len(blocks) <= MaxBlock, NEW toTs \in Nat \ {0}
    PROVE  Orderly(ListBalanceEvents(toTs))
  <1> DEFINE m == Through(toTs - 1)
  <1>1. toTs - 1 \in Int /\ (toTs - 1) + 1 = toTs /\ Len(blocks) \in Nat /\ MaxBlock \in Nat
    BY FinalizerAssumption DEF ChainOK
  <1>2. m \in Nat /\ m <= Len(blocks) /\ Before(toTs) = 1 .. m
    <2>1. Before((toTs - 1) + 1) = 1 .. Through(toTs - 1)
      BY <1>1, BeforeThrough
    <2> QED  BY <1>1, <2>1 DEF Through
  <1> HIDE DEF m
  <1>3. PICK h : IsStream(h, m)
    BY <1>2, StreamExists
  <1>4. ListBalanceEvents(toTs) = h[m]
    <2>1. Through(m) = m
      BY <1>2 DEF Through
    <2>2. Before(m + 1) = 1 .. m
      BY <1>2, <2>1, BeforeThrough
    <2>3. ListBalanceEvents(toTs) = ListBalanceEvents(m + 1)
      BY <1>2, <2>2 DEF ListBalanceEvents
    <2> QED  BY <1>3, <2>3 DEF IsStream
  <1>5. h[m] \in Seq(Event) /\ InOrder(h[m], m)
    BY <1>2, <1>3, StreamInOrder
  <1>6. 1 .. m \subseteq 1 .. MaxBlock
    BY <1>1, <1>2
  <1> QED  BY <1>4, <1>5, <1>6 DEF Orderly, InOrder

(* The epochs that a pass finds are those where something happened.        *)
LEMMA IdsAreActive ==
    ASSUME ChainOK, Len(blocks) <= MaxBlock, NEW q \in Nat, EpochEnd(q) - 1 <= Len(blocks)
    PROVE  /\ EpochIds(ListBalanceEvents(EpochEnd(q)), ListFundingByEpoch(EpochEnd(q))) = {e \in 0 .. q : Active(e)}
           /\ 0 .. q \subseteq Epochs
           /\ \A e \in 0 .. q : ListFundingByEpoch(EpochEnd(q))[e] = FundingOf(e)
  <1> DEFINE N == EpochEnd(q)
             m == N - 1
             s == ListBalanceEvents(N)
             f == ListFundingByEpoch(N)
  <1>1. /\ N \in Nat /\ m \in Nat /\ N = m + 1 /\ Len(blocks) \in Nat /\ MaxBlock \in Nat
        /\ DOMAIN blocks = 1 .. Len(blocks)
    <2>1. EpochStart(q) \in Nat /\ N \in Nat /\ EpochStart(q) < N
      BY EpochSpan
    <2>2. Len(blocks) \in Nat /\ DOMAIN blocks = 1 .. Len(blocks) /\ MaxBlock \in Nat
      BY FinalizerAssumption DEF ChainOK
    <2> HIDE DEF N
    <2> QED  BY <2>1, <2>2
  <1>2. Before(N) = 1 .. m
    <2>1. Through(m) = m
      BY <1>1 DEF Through
    <2> QED  BY <1>1, <2>1, BeforeThrough
  <1>3. 0 .. q \subseteq Epochs
    <2>1. EpochIdAt(m) = q
      <3>1. EpochStart(q) \in Nat /\ N \in Nat /\ EpochStart(q) < N
        BY EpochSpan
      <3>2. EpochStart(q) <= m /\ m < EpochEnd(q)
        BY <3>1
      <3> HIDE DEF m
      <3> QED  BY <1>1, <3>2, EpochBounds
    <2>2. q <= EpochIdAt(MaxBlock) /\ EpochIdAt(MaxBlock) \in Nat
      <3>1. m \in Nat /\ MaxBlock \in Nat /\ m <= MaxBlock
        BY <1>1
      <3> HIDE DEF m
      <3>2. EpochIdAt(m) <= EpochIdAt(MaxBlock)
        BY <3>1, EpochOrder
      <3>3. EpochIdAt(MaxBlock) \in Nat
        BY <3>1, EpochBounds
      <3> QED  BY <2>1, <3>2, <3>3
    <2> QED  BY <2>2 DEF Epochs
  <1>4. ASSUME NEW e \in 0 .. q
        PROVE  /\ BlocksOf(e) = {n \in 1 .. m : EpochIdAt(n) = e}
               /\ f[e] = FundingOf(e) /\ BlocksOf(e) \in SUBSET (1 .. Len(blocks))
    <2>1. e \in Nat /\ EpochEnd(e) <= N /\ EpochEnd(e) \in Nat
      <3>1. e \in Nat /\ e <= q
        OBVIOUS
      <3>2. EpochEnd(e) <= EpochEnd(q)
        BY <3>1, EpochOrder
      <3> QED  BY <3>1, <3>2, EpochSpan
    <2>2. \A n \in Nat : EpochIdAt(n) = e => n < EpochEnd(e)
      BY <2>1, EpochBounds
    <2>3. BlocksOf(e) = {n \in 1 .. m : EpochIdAt(n) = e}
      <3>1. \A n \in Nat : EpochIdAt(n) = e => n <= m
        BY <1>1, <2>1, <2>2
      <3> HIDE DEF m, N
      <3>2. m <= Len(blocks)
        BY DEF m, N
      <3> QED  BY <1>1, <3>1, <3>2 DEF BlocksOf
    <2>4. f[e] = FundingOf(e)
      BY <1>2, <1>3, <2>3 DEF ListFundingByEpoch, FundingOf
    <2>5. BlocksOf(e) \in SUBSET (1 .. Len(blocks))
      BY <1>1 DEF BlocksOf
    <2> QED  BY <2>3, <2>4, <2>5
  <1>5. \A n \in 1 .. m : EpochIdAt(n) \in 0 .. q
    <2> SUFFICES ASSUME NEW n \in 1 .. m PROVE EpochIdAt(n) \in 0 .. q
      OBVIOUS
    <2>1. n \in Nat /\ n < EpochEnd(q)
      BY <1>1
    <2>2. EpochIdAt(n) \in Nat /\ EpochIdAt(n) <= q
      BY <2>1, EpochBounds, EpochOrder
    <2> QED  BY <2>2
  <1>6. s \in Seq(Event) /\ InOrder(s, m)
    <2>1. PICK h : IsStream(h, m)
      BY <1>1, StreamExists
    <2>2. s = h[m]
      BY <1>1, <2>1 DEF IsStream
    <2> QED  BY <1>1, <2>1, <2>2, StreamInOrder
  <1>7. DOMAIN s = 1 .. Len(s) /\ DOMAIN f = Epochs
    BY <1>6 DEF ListFundingByEpoch
  <1>8. ASSUME NEW e \in Epochs, ~(e \in 0 .. q) PROVE f[e] = 0
    <2>1. {n \in Before(N) : EpochIdAt(n) = e} = {}
      BY <1>2, <1>5, <1>8
    <2>2. Funding({}) = 0
      <3>1. {} \in SUBSET (1 .. Len(blocks))
        OBVIOUS
      <3> QED  BY <3>1, FundingAdds
    <2> QED  BY <2>1, <2>2 DEF ListFundingByEpoch
  <1>9. ASSUME NEW e \in 0 .. q
        PROVE  Active(e) <=> (\E i \in 1 .. Len(s) : EpochIdAt(s[i].at) = e) \/ f[e] > 0
    <2>1. Active(e) <=> \E n \in BlocksOf(e) : blocks[n].moves # <<>> \/ blocks[n].funding > 0
      BY DEF Active
    <2>2. f[e] > 0 <=> \E n \in BlocksOf(e) : blocks[n].funding > 0
      BY <1>4, FundingAdds DEF FundingOf
    <2>3. (\E n \in BlocksOf(e) : blocks[n].moves # <<>>) <=> \E i \in 1 .. Len(s) : EpochIdAt(s[i].at) = e
      <3>1. ASSUME NEW n \in BlocksOf(e), blocks[n].moves # <<>>
            PROVE  \E i \in 1 .. Len(s) : EpochIdAt(s[i].at) = e
        <4>1. n \in 1 .. m /\ EpochIdAt(n) = e
          BY <1>4
        <4>2. PICK i \in 1 .. Len(s) : s[i].at = n
          BY <1>6, <3>1, <4>1 DEF InOrder
        <4> QED  BY <4>1, <4>2
      <3>2. ASSUME NEW i \in 1 .. Len(s), EpochIdAt(s[i].at) = e
            PROVE  \E n \in BlocksOf(e) : blocks[n].moves # <<>>
        <4>1. s[i].at \in 1 .. m /\ blocks[s[i].at].moves # <<>>
          BY <1>6 DEF InOrder
        <4>2. s[i].at \in BlocksOf(e)
          BY <1>4, <3>2, <4>1
        <4> QED  BY <4>1, <4>2
      <3> QED  BY <3>1, <3>2
    <2> QED  BY <2>1, <2>2, <2>3
  <1>10. \A i \in 1 .. Len(s) : EpochIdAt(s[i].at) \in 0 .. q
    BY <1>5, <1>6 DEF InOrder
  <1>11. EpochIds(s, f) = {EpochIdAt(s[i].at) : i \in 1 .. Len(s)} \cup {e \in Epochs : f[e] > 0}
    BY <1>7 DEF EpochIds
  <1> HIDE DEF s, f, m, N
  <1>12. EpochIds(s, f) = {e \in 0 .. q : Active(e)}
    <2>1. ASSUME NEW e \in EpochIds(s, f) PROVE e \in {k \in 0 .. q : Active(k)}
      <3>1. CASE e \in 0 .. q
        BY <1>9, <1>11, <2>1, <3>1
      <3>2. CASE e \notin 0 .. q
        <4>1. PICK k \in Epochs : k = e /\ f[k] > 0
          BY <1>10, <1>11, <2>1, <3>2
        <4> QED  BY <1>8, <3>2, <4>1
      <3> QED  BY <3>1, <3>2
    <2>2. ASSUME NEW e \in 0 .. q, Active(e) PROVE e \in EpochIds(s, f)
      BY <1>3, <1>9, <1>11, <2>2
    <2> QED  BY <2>1, <2>2
  <1> QED  BY <1>3, <1>4, <1>12 DEF s, f, N

-----------------------------------------------------------------------------
(* The loop over the epochs *)

LoopShape(v) ==
    v = [balances |-> v.balances, corrupt |-> v.corrupt, cumulative |-> v.cumulative,
         carry |-> v.carry, allocated |-> v.allocated, excluded |-> v.excluded]
ClosedBy(v, ep) == ComputeEpochWeights(ep.id, v.balances, ep.events, v.excluded)
DealtBy(v, ep) == DistributeEpoch(ep.contributions + v.carry, ClosedBy(v, ep).weights)

(* What a turn of the loop leaves.                                         *)
LEMMA TurnFields ==
    ASSUME NEW v, LoopShape(v), NEW ep
    PROVE  LET w == AddEpoch(v, ep)
           IN  /\ LoopShape(w) /\ w.excluded = v.excluded
               /\ w.balances = ClosedBy(v, ep).balances
               /\ w.corrupt = (v.corrupt \/ ClosedBy(v, ep).corrupt)
               /\ w.cumulative = [a \in Accounts |-> v.cumulative[a] + DealtBy(v, ep).rewards[a]]
               /\ w.carry = DealtBy(v, ep).carry
               /\ w.allocated = v.allocated + DealtBy(v, ep).allocated
  <1> DEFINE c == ClosedBy(v, ep)
             d == DealtBy(v, ep)
             cum == [a \in Accounts |-> v.cumulative[a] + d.rewards[a]]
             bad == v.corrupt \/ c.corrupt
             sum == v.allocated + d.allocated
             w == AddEpoch(v, ep)
  <1>1. w = [v EXCEPT !.balances = c.balances, !.corrupt = bad, !.cumulative = cum,
                      !.carry = d.carry, !.allocated = sum]
    BY DEF AddEpoch, ClosedBy, DealtBy
  <1> HIDE DEF c, d, cum, bad, sum, w
  <1>2. w = [balances |-> c.balances, corrupt |-> bad, cumulative |-> cum, carry |-> d.carry,
             allocated |-> sum, excluded |-> v.excluded]
    BY <1>1 DEF LoopShape
  <1>3. /\ LoopShape(w) /\ w.excluded = v.excluded /\ w.balances = c.balances /\ w.corrupt = bad
        /\ w.cumulative = cum /\ w.carry = d.carry /\ w.allocated = sum
    BY <1>2 DEF LoopShape
  <1> QED  BY <1>3 DEF c, d, cum, bad, sum, w

(* What is added to entitlements is added to their sum.                    *)
LEMMA TotalAdds ==
    ASSUME NEW f \in [Accounts -> Nat], NEW g \in [Accounts -> Nat]
    PROVE  /\ Total([a \in Accounts |-> f[a] + g[a]]) = Total(f) + Total(g)
           /\ Total(f) \in Nat /\ Total(g) \in Nat
           /\ [a \in Accounts |-> f[a] + g[a]] \in [Accounts -> Nat]
  <1>1. IsFiniteSet(Accounts) /\ W!IsFiniteSet(Accounts)
    BY StockbackAssumption, Finite
  <1>2. f \in [Accounts -> Int] /\ g \in [Accounts -> Int]
    OBVIOUS
  <1>3. W!SumAll([a \in Accounts |-> f[a] + g[a]]) = W!SumAll(f) + W!SumAll(g)
    BY <1>1, <1>2, W!SumOfSums
  <1>4. Total(f) \in Nat /\ Total(g) \in Nat
    BY <1>1, TotalTypes
  <1> QED  BY <1>3, <1>4, TotalIsSum

-----------------------------------------------------------------------------
(* A pass that nothing has disturbed *)

(* The loop's state after an epoch says what the chain does.               *)
Matching(v, e, x) ==
    /\ LoopShape(v) /\ v.excluded = x
    /\ v.balances = OpeningOf(e + 1)
    /\ v.cumulative = Owed(e, x).paid /\ v.carry = Owed(e, x).left
    /\ v.allocated = Total(v.cumulative) /\ v.allocated + v.carry = FundedTo(e)

(* In an epoch in which nothing happens, nothing changes.                  *)
LEMMA QuietEpoch ==
    ASSUME ChainOK, Solvent, NEW x, NEW e \in Nat, EpochEnd(e) - 1 <= Len(blocks), ~Active(e)
    PROVE  OpeningOf(e + 1) = OpeningOf(e) /\ Owed(e, x) = Owed(e - 1, x) /\ FundedTo(e) = FundedTo(e - 1)
  <1> DEFINE S == EpochStart(e)
             N == EpochEnd(e)
  <1>1. S \in Nat /\ N \in Nat /\ S < N /\ EpochStart(e + 1) = N /\ Len(blocks) \in Nat /\ DOMAIN blocks = 1 .. Len(blocks)
    <2>1. S \in Nat /\ N \in Nat /\ S < N
      BY EpochSpan
    <2>2. \A k \in Int : EpochStart(k) = EpochEnd(k - 1)
      BY EpochOrder
    <2>3. EpochStart(e + 1) = EpochEnd((e + 1) - 1) /\ (e + 1) - 1 = e
      BY <2>2
    <2> QED  BY <2>1, <2>3 DEF ChainOK
  <1>2. \A n \in 1 .. Len(blocks) : S <= n /\ n < N => blocks[n].moves = <<>> /\ ~(blocks[n].funding > 0)
    <2>1. \A n \in 1 .. Len(blocks) : S <= n /\ n < N => n \in BlocksOf(e)
      BY <1>1, EpochBounds DEF BlocksOf
    <2> QED  BY <2>1 DEF Active
  <1> HIDE DEF S, N
  <1>3. ASSUME NEW a \in Accounts PROVE BalanceAt(a, N - 1) = BalanceAt(a, S - 1)
    <2> DEFINE P == {i \in Nat : BalanceAt(a, (S - 1) + i) = BalanceAt(a, S - 1)}
    <2>1. /\ \A n \in 1 .. Len(blocks) : BalanceAt(a, n) = BalanceAt(a, n - 1) + MovesOf(n, a)
          /\ \A t \in Int : BalanceAt(a, t) \in Int
          /\ \A t \in Int : t <= 0 => BalanceAt(a, t) = 0
      BY BalanceMoves
    <2>2. 0 \in P
      <3>1. (S - 1) + 0 = S - 1
        BY <1>1
      <3> QED  BY <3>1
    <2>3. ASSUME NEW i \in 1 .. N - S, i - 1 \in P PROVE i \in P
      <3> DEFINE n == (S - 1) + i
      <3>1. n \in Nat /\ S <= n /\ n < N /\ (S - 1) + (i - 1) = n - 1 /\ i \in Nat
        BY <1>1
      <3>2. BalanceAt(a, n - 1) = BalanceAt(a, S - 1)
        BY <2>3, <3>1
      <3>3. CASE n = 0
        <4>1. S - 1 <= 0 /\ n <= 0 /\ S - 1 \in Int /\ n \in Int
          BY <1>1, <3>1, <3>3
        <4> HIDE DEF n
        <4>2. BalanceAt(a, n) = 0 /\ BalanceAt(a, S - 1) = 0
          BY <2>1, <4>1
        <4> QED  BY <3>1, <4>2 DEF n
      <3>4. CASE n # 0
        <4> HIDE DEF n
        <4>1. n \in 1 .. Len(blocks)
          <5>1. N - 1 <= Len(blocks)
            BY DEF N
          <5> QED  BY <1>1, <3>1, <3>4, <5>1
        <4>2. blocks[n].moves = <<>>
          BY <1>2, <3>1, <4>1
        <4>3. Len(blocks[n].moves) = 0 /\ Moved(n, a, 0) = 0 /\ MovesOf(n, a) = Moved(n, a, Len(blocks[n].moves))
          BY <4>1, <4>2, MovedOneMore
        <4>4. MovesOf(n, a) = 0
          BY <4>3
        <4>5. BalanceAt(a, n) = BalanceAt(a, n - 1) + 0 /\ BalanceAt(a, n - 1) \in Int
          <5>1. n - 1 \in Int
            BY <3>1
          <5> QED  BY <2>1, <4>1, <4>4, <5>1
        <4>6. BalanceAt(a, n) = BalanceAt(a, S - 1)
          BY <3>2, <4>5
        <4> QED  BY <3>1, <4>6 DEF n
      <3> QED  BY <3>3, <3>4
    <2> HIDE DEF P
    <2>4. N - S \in Nat /\ (S - 1) + (N - S) = N - 1
      BY <1>1
    <2>5. \A i \in 0 .. N - S : i \in P
      BY <2>2, <2>3, <2>4, W!CountingUp
    <2>6. N - S \in P
      BY <2>4, <2>5
    <2> QED  BY <2>4, <2>6 DEF P
  <1>4. OpeningOf(e + 1) = OpeningOf(e)
    BY <1>1, <1>3 DEF OpeningOf, S
  <1>5. Owed(e, x) = Owed(e - 1, x)
    BY OwedNext DEF OwedStep
  <1>6. FundedTo(e) = FundedTo(e - 1)
    <2>1. BlocksOf(e) \in SUBSET (1 .. Len(blocks)) /\ \A n \in BlocksOf(e) : ~(blocks[n].funding > 0)
      <3>1. BlocksOf(e) \in SUBSET (1 .. Len(blocks))
        BY <1>1 DEF BlocksOf
      <3> QED  BY <3>1 DEF Active
    <2>2. FundingOf(e) = 0
      BY <2>1, FundingAdds DEF FundingOf
    <2>3. FundedTo(e) = FundedTo(e - 1) + FundingOf(e) /\ FundedTo(e - 1) \in Nat
      BY FundedNext
    <2> QED  BY <2>2, <2>3
  <1> QED  BY <1>4, <1>5, <1>6

(* A turn of the loop does what the epoch owes.                            *)
LEMMA ActiveEpoch ==
    ASSUME ChainOK, Solvent, NEW x \in SUBSET Accounts, NEW e \in Nat, NEW m \in Nat, m <= Len(blocks),
           EpochEnd(e) - 1 <= m, NEW h, IsStream(h, m), Active(e), NEW v, Matching(v, e - 1, x),
           NEW ep, ep = [id |-> e, contributions |-> FundingOf(e), events |-> EventsIn(e, h[m])]
    PROVE  Matching(AddEpoch(v, ep), e, x)
  <1> DEFINE w == AddEpoch(v, ep)
             b == Owed(e - 1, x)
             pool == FundingOf(e) + b.left
             dist == DistributeEpoch(pool, WeightsOf(e, x))
  <1>1. /\ LoopShape(v) /\ v.excluded = x /\ v.balances = OpeningOf(e) /\ v.cumulative = b.paid
        /\ v.carry = b.left /\ v.allocated = Total(v.cumulative) /\ v.allocated + v.carry = FundedTo(e - 1)
    <2>1. (e - 1) + 1 = e
      OBVIOUS
    <2> QED  BY <2>1 DEF Matching
  <1>2. ep.id = e /\ ep.contributions = FundingOf(e) /\ ep.events = EventsIn(e, h[m])
    OBVIOUS
  <1>3. ClosedBy(v, ep).balances = OpeningOf(e + 1) /\ ClosedBy(v, ep).weights = WeightsOf(e, x)
    <2>1. ClosedBy(v, ep) = ComputeEpochWeights(e, OpeningOf(e), EventsIn(e, h[m]), x)
      BY <1>1, <1>2 DEF ClosedBy
    <2> HIDE DEF w, b, pool, dist
    <2> DEFINE c == ComputeEpochWeights(e, OpeningOf(e), EventsIn(e, h[m]), x)
    <2>2. c.balances = OpeningOf(e + 1) /\ c.weights = WeightsOf(e, x)
      BY EpochCloses
    <2> QED  BY <2>1, <2>2
  <1>4. DealtBy(v, ep) = dist
    BY <1>1, <1>2, <1>3 DEF DealtBy
  <1>5. b \in OwedType /\ Owed(e, x) = OwedStep(e, x, b)
    BY OwedNext
  <1>6. b.paid \in [Accounts -> Nat] /\ b.left \in Nat
    BY <1>5 DEF OwedType
  <1>7. pool \in Nat /\ WeightsOf(e, x) \in [Accounts -> Nat] /\ FundingOf(e) \in Nat
    <2>1. WeightsOf(e, x) \in [Accounts -> Nat] /\ FundingOf(e) \in Nat
      BY HeldIsNatural
    <2> HIDE DEF b
    <2> QED  BY <1>6, <2>1
  <1>8. Owed(e, x) = [paid |-> [a \in Accounts |-> b.paid[a] + dist.rewards[a]], left |-> dist.carry]
    BY <1>5 DEF OwedStep
  <1>9. /\ LoopShape(w) /\ w.excluded = x /\ w.balances = OpeningOf(e + 1)
        /\ w.cumulative = [a \in Accounts |-> b.paid[a] + dist.rewards[a]]
        /\ w.carry = dist.carry /\ w.allocated = v.allocated + dist.allocated
    BY <1>1, <1>3, <1>4, TurnFields
  <1>10. pool = FundingOf(e) + b.left
    OBVIOUS
  <1> HIDE DEF w, b, pool
  <1>11. /\ dist.rewards \in [Accounts -> Nat] /\ dist.allocated = Total(dist.rewards)
         /\ dist.allocated \in Nat /\ dist.carry \in Nat /\ dist.allocated + dist.carry = pool
    BY <1>7, PoolIsShared
  <1> HIDE DEF dist
  <1>12. /\ Total([a \in Accounts |-> b.paid[a] + dist.rewards[a]]) = Total(b.paid) + Total(dist.rewards)
         /\ Total(b.paid) \in Nat
    BY <1>6, <1>11, TotalAdds
  <1>13. w.allocated = Total(w.cumulative)
    BY <1>1, <1>9, <1>11, <1>12
  <1>14. FundedTo(e) = FundedTo(e - 1) + FundingOf(e) /\ FundedTo(e - 1) \in Nat
    <2>1. Len(blocks) \in Nat /\ EpochEnd(e) \in Nat
      BY EpochSpan DEF ChainOK
    <2>2. EpochEnd(e) - 1 <= Len(blocks)
      BY <2>1
    <2> QED  BY <2>2, FundedNext
  <1>15. w.allocated + w.carry = FundedTo(e)
    <2>1. v.allocated = Total(b.paid) /\ v.carry = b.left
      BY <1>1
    <2>2. w.allocated + w.carry = v.allocated + pool
      BY <1>9, <1>11, <1>12, <2>1
    <2>3. v.allocated + pool = (v.allocated + v.carry) + FundingOf(e)
      BY <1>6, <1>7, <1>10, <1>12, <2>1
    <2> QED  BY <1>1, <1>14, <2>2, <2>3
  <1>16. w.cumulative = Owed(e, x).paid /\ w.carry = Owed(e, x).left
    BY <1>8, <1>9
  <1> QED  BY <1>9, <1>13, <1>15, <1>16 DEF Matching, w

-----------------------------------------------------------------------------
(* The whole loop *)

BucketOf(id, s, f) == [id |-> id, contributions |-> f[id], events |-> EventsIn(id, s)]
Zero(x) == [balances |-> Nobody, corrupt |-> FALSE, cumulative |-> Nobody,
            carry |-> 0, allocated |-> 0, excluded |-> x]

(* The epochs come in their order, each once.                              *)
Listing(ids, n, epochs, s, f) ==
    /\ n \in Nat /\ Len(epochs) = n
    /\ epochs \in Seq({BucketOf(id, s, f) : id \in EpochIds(s, f)})
    /\ \A i \in 1 .. n : ids[i] \in EpochIds(s, f) /\ epochs[i] = BucketOf(ids[i], s, f)
    /\ \A i, j \in 1 .. n : i < j => ids[i] < ids[j]
    /\ \A e \in EpochIds(s, f) : \E i \in 1 .. n : ids[i] = e

(* bucketByEpoch lists them so.                                            *)
LEMMA BucketsListed ==
    ASSUME NEW s, NEW f, IsFiniteSet(EpochIds(s, f)), EpochIds(s, f) \subseteq Nat
    PROVE  Listing(Ascending(EpochIds(s, f)), Cardinality(EpochIds(s, f)), BucketByEpoch(s, f), s, f)
  <1> DEFINE S == EpochIds(s, f)
             ids == Ascending(S)
             n == Cardinality(S)
             B == {BucketOf(id, s, f) : id \in S}
             epochs == BucketByEpoch(s, f)
  <1>1. n \in Nat /\ Lists(ids, S)
    BY AscendingLists
  <1>2. ids \in [1 .. n -> S] /\ ToSet(ids) = S /\ \A i, j \in 1 .. n : i < j => ids[i] < ids[j]
    BY <1>1 DEF Lists
  <1>3. epochs = [i \in DOMAIN ids |-> BucketOf(ids[i], s, f)]
    BY DEF BucketByEpoch, BucketOf
  <1> HIDE DEF ids, n, epochs, S
  <1>4. epochs = [i \in 1 .. n |-> BucketOf(ids[i], s, f)] /\ \A i \in 1 .. n : ids[i] \in S
    BY <1>2, <1>3
  <1>5. \A i \in 1 .. n : BucketOf(ids[i], s, f) \in B
    BY <1>4
  <1> HIDE DEF B
  <1>6. epochs \in Seq(B) /\ Len(epochs) = n /\ \A i \in 1 .. n : epochs[i] = BucketOf(ids[i], s, f)
    BY <1>1, <1>4, <1>5
  <1>7. \A e \in S : \E i \in 1 .. n : ids[i] = e
    BY <1>2 DEF ToSet
  <1> QED  BY <1>1, <1>2, <1>4, <1>6, <1>7 DEF Listing, S, ids, n, B, epochs

(* The run starts with nothing and takes the epochs in turn.               *)
LoopSum(x, epochs) == FoldLeft(AddEpoch, Zero(x), epochs)
IsLoop(g, ids, n, s, f, x, sum) ==
    /\ g[0] = Zero(x) /\ sum = g[n]
    /\ \A i \in 1 .. n : g[i] = AddEpoch(g[i - 1], BucketOf(ids[i], s, f))

(* Such a run is there for every list of epochs.                           *)
LEMMA LoopRuns ==
    ASSUME NEW ids, NEW n, NEW epochs, NEW s, NEW f, Listing(ids, n, epochs, s, f), NEW x
    PROVE  \E g : IsLoop(g, ids, n, s, f, x, LoopSum(x, epochs))
  <1> DEFINE B == {BucketOf(id, s, f) : id \in EpochIds(s, f)}
             z == Zero(x)
  <1>1. /\ n \in Nat /\ epochs \in Seq(B) /\ Len(epochs) = n
        /\ \A i \in 1 .. n : epochs[i] = BucketOf(ids[i], s, f)
    BY DEF Listing
  <1> HIDE DEF B, z
  <1>2. PICK g : D!IsRun(g, z, epochs) /\ D!Folded(z, epochs) = g[Len(epochs)]
    BY <1>1, D!FoldLeftRuns
  <1>3. g[0] = z /\ \A i \in 1 .. Len(epochs) : g[i] = AddEpoch(g[i - 1], epochs[i])
    BY <1>1, <1>2, D!RunSteps
  <1>4. FoldLeft(AddEpoch, z, epochs) = g[n]
    BY <1>1, <1>2, DIsFold
  <1>5. \A i \in 1 .. n : g[i] = AddEpoch(g[i - 1], BucketOf(ids[i], s, f))
    BY <1>1, <1>3
  <1>6. LoopSum(x, epochs) = g[n]
    BY <1>4 DEF LoopSum, z
  <1>7. IsLoop(g, ids, n, s, f, x, LoopSum(x, epochs))
    BY <1>3, <1>5, <1>6 DEF z, IsLoop
  <1> QED  BY <1>7

(* What a finalization comes to, when it comes to anything.                *)
LEMMA FinalizationFields ==
    ASSUME NEW s, NEW f, NEW x, NEW funded, NEW latest, s \in Seq(Event),
           IsFiniteSet(EpochIds(s, f)), EpochIds(s, f) \subseteq Nat,
           ComputeFinalization(s, f, x, funded, latest) # NotDistributable
    PROVE  LET out == ComputeFinalization(s, f, x, funded, latest)
               n == Cardinality(EpochIds(s, f))
               sum == LoopSum(x, BucketByEpoch(s, f))
           IN  /\ n \in Nat /\ n > 0 /\ ~sum.corrupt /\ ~(sum.allocated > funded)
               /\ Ascending(EpochIds(s, f))[n] \in EpochIds(s, f) /\ ~(out.epochSequence <= latest)
               /\ out = [epochSequence |-> Ascending(EpochIds(s, f))[n], cumulative |-> sum.cumulative,
                         total |-> sum.allocated, carry |-> sum.carry]
  <1> DEFINE S == EpochIds(s, f)
             ids == Ascending(S)
             n == Cardinality(S)
             epochs == BucketByEpoch(s, f)
             sum == LoopSum(x, epochs)
             out == ComputeFinalization(s, f, x, funded, latest)
             result == ComputeDistribution(epochs, x, funded)
  <1>1. out = IF s = <<>> \/ result.epochSequence <= latest THEN NotDistributable ELSE result
    BY DEF ComputeFinalization
  <1>2. s # <<>> /\ out = result /\ result # NotDistributable /\ ~(out.epochSequence <= latest)
    BY <1>1
  <1>3. result = IF sum.corrupt \/ sum.allocated > funded \/ sum.cumulative = Nobody
                 THEN NotDistributable
                 ELSE [epochSequence |-> epochs[Len(epochs)].id, cumulative |-> sum.cumulative,
                       total |-> sum.allocated, carry |-> sum.carry]
    BY DEF ComputeDistribution, Zero, LoopSum
  <1>4. Listing(ids, n, epochs, s, f)
    BY BucketsListed
  <1> HIDE DEF ids, n, epochs, sum, out, result
  <1>5. n \in Nat /\ n > 0
    <2>1. 1 \in DOMAIN s
      BY <1>2
    <2>2. EpochIdAt(s[1].at) \in EpochIds(s, f)
      BY <2>1 DEF EpochIds
    <2>3. PICK i \in 1 .. n : ids[i] = EpochIdAt(s[1].at)
      BY <1>4, <2>2 DEF Listing
    <2> QED  BY <1>4, <2>3 DEF Listing
  <1>6. epochs[Len(epochs)].id = ids[n] /\ ids[n] \in EpochIds(s, f)
    <2>1. n \in 1 .. n
      BY <1>5
    <2> QED  BY <1>4, <2>1 DEF Listing, BucketOf
  <1>7. /\ ~sum.corrupt /\ ~(sum.allocated > funded)
        /\ out = [epochSequence |-> ids[n], cumulative |-> sum.cumulative,
                  total |-> sum.allocated, carry |-> sum.carry]
    BY <1>2, <1>3, <1>6
  <1> QED  BY <1>2, <1>5, <1>6, <1>7 DEF ids, n, epochs, sum, out

(* Whatever a pass has read, a loop that finds it sound has natural        *)
(* numbers, and has allocated what the entitlements come to.               *)
LEMMA LoopIsSound ==
    ASSUME NEW s, Orderly(s), NEW f \in [Epochs -> Nat], NEW x \in SUBSET Accounts,
           NEW ids, NEW n, NEW epochs, Listing(ids, n, epochs, s, f), EpochIds(s, f) \subseteq Epochs
    PROVE  LET sum == LoopSum(x, epochs)
           IN  ~sum.corrupt => sum.cumulative \in [Accounts -> Nat] /\ sum.allocated = Total(sum.cumulative)
  <1> DEFINE Sound(v) ==
               /\ v.balances \in [Accounts -> Nat] /\ v.cumulative \in [Accounts -> Nat]
               /\ v.carry \in Nat /\ v.allocated = Total(v.cumulative)
             Good(v) == /\ LoopShape(v) /\ v.excluded = x
                        /\ v.corrupt \in BOOLEAN /\ (v.corrupt \/ Sound(v))
  <1>0. PICK g : IsLoop(g, ids, n, s, f, x, LoopSum(x, epochs))
    BY LoopRuns
  <1>1. /\ g[0] = Zero(x) /\ LoopSum(x, epochs) = g[n]
        /\ \A i \in 1 .. n : g[i] = AddEpoch(g[i - 1], BucketOf(ids[i], s, f))
    BY <1>0 DEF IsLoop
  <1>2. n \in Nat /\ \A i \in 1 .. n : ids[i] \in Epochs
    BY DEF Listing
  <1>3. Good(Zero(x))
    <2>1. Nobody \in [Accounts -> Nat] /\ Total(Nobody) = 0
      BY StockbackAssumption, TotalTypes DEF Nobody
    <2> QED  BY <2>1 DEF Zero, LoopShape
  <1>4. ASSUME NEW v, Good(v), NEW id \in Epochs PROVE Good(AddEpoch(v, BucketOf(id, s, f)))
    <2> DEFINE ep == BucketOf(id, s, f)
               w == AddEpoch(v, ep)
               c == ClosedBy(v, ep)
               d == DealtBy(v, ep)
    <2>1. id \in Nat /\ f[id] \in Nat /\ ep.id = id /\ ep.contributions = f[id] /\ ep.events = EventsIn(id, s)
      BY DEF Epochs, BucketOf
    <2>2. /\ LoopShape(w) /\ w.excluded = v.excluded /\ w.balances = c.balances
          /\ w.corrupt = (v.corrupt \/ c.corrupt)
          /\ w.cumulative = [a \in Accounts |-> v.cumulative[a] + d.rewards[a]]
          /\ w.carry = d.carry /\ w.allocated = v.allocated + d.allocated
      BY <1>4, TurnFields
    <2>3. c = ComputeEpochWeights(id, v.balances, EventsIn(id, s), x)
      BY <1>4, <2>1 DEF ClosedBy
    <2>4. d = DistributeEpoch(f[id] + v.carry, c.weights)
      BY <2>1 DEF DealtBy
    <2> HIDE DEF w, c, d, ep
    <2>5. CASE v.corrupt
      <3>1. w.corrupt = TRUE
        BY <2>2, <2>5
      <3> QED  BY <1>4, <2>2, <3>1 DEF w, ep
    <2>6. CASE ~v.corrupt
      <3>1. Sound(v)
        BY <1>4, <2>6
      <3>2. /\ c.corrupt \in BOOLEAN
            /\ ~c.corrupt => c.balances \in [Accounts -> Nat] /\ c.weights \in [Accounts -> Nat]
        BY <2>1, <2>3, <3>1, EpochIsSound
      <3>3. w.corrupt = c.corrupt
        BY <2>2, <2>6, <3>2
      <3>4. ASSUME ~c.corrupt PROVE Sound(w)
        <4>1. f[id] + v.carry \in Nat /\ c.weights \in [Accounts -> Nat] /\ c.balances \in [Accounts -> Nat]
          BY <2>1, <3>1, <3>2, <3>4
        <4>2. /\ d.rewards \in [Accounts -> Nat] /\ d.allocated = Total(d.rewards) /\ d.carry \in Nat
          BY <2>4, <4>1, PoolIsShared
        <4>3. /\ Total([a \in Accounts |-> v.cumulative[a] + d.rewards[a]]) = Total(v.cumulative) + Total(d.rewards)
              /\ [a \in Accounts |-> v.cumulative[a] + d.rewards[a]] \in [Accounts -> Nat]
          BY <3>1, <4>2, TotalAdds
        <4> QED  BY <2>2, <3>1, <4>1, <4>2, <4>3
      <3> QED  BY <1>4, <2>2, <3>2, <3>3, <3>4 DEF w, ep
    <2> QED  BY <2>5, <2>6
  <1> DEFINE P == {i \in Nat : Good(g[i])}
  <1>5. 0 \in P
    BY <1>1, <1>3
  <1> HIDE DEF Good
  <1>6. ASSUME NEW i \in 1 .. n, i - 1 \in P PROVE i \in P
    <2>1. Good(g[i - 1]) /\ ids[i] \in Epochs /\ i \in Nat
      BY <1>2, <1>6
    <2>2. Good(AddEpoch(g[i - 1], BucketOf(ids[i], s, f)))
      BY <1>4, <2>1
    <2> QED  BY <1>1, <2>1, <2>2
  <1> HIDE DEF P
  <1>7. \A i \in 0 .. n : i \in P
    BY <1>2, <1>5, <1>6, W!CountingUp
  <1>8. n \in P
    BY <1>2, <1>7
  <1>9. Good(g[n])
    BY <1>8 DEF P
  <1> QED  BY <1>1, <1>9 DEF Good

(* The loop over an undisturbed reading follows what is owed.              *)
LEMMA LoopMatches ==
    ASSUME ChainOK, Solvent, Len(blocks) <= MaxBlock, NEW x \in SUBSET Accounts,
           NEW q \in Nat, EpochEnd(q) - 1 <= Len(blocks),
           NEW s, s = ListBalanceEvents(EpochEnd(q)), NEW f, f = ListFundingByEpoch(EpochEnd(q)),
           NEW ids, NEW n, NEW epochs, Listing(ids, n, epochs, s, f)
    PROVE  LET sum == LoopSum(x, epochs)
           IN  /\ Matching(sum, q, x)
               /\ n > 0 => ids[n] \in 0 .. q /\ Matching(sum, ids[n], x)
  <1>0. PICK g : IsLoop(g, ids, n, s, f, x, LoopSum(x, epochs))
    BY LoopRuns
  <1>1. /\ g[0] = Zero(x) /\ LoopSum(x, epochs) = g[n]
        /\ \A i \in 1 .. n : g[i] = AddEpoch(g[i - 1], BucketOf(ids[i], s, f))
    BY <1>0 DEF IsLoop
  <1>2. /\ EpochIds(s, f) = {e \in 0 .. q : Active(e)} /\ \A e \in 0 .. q : f[e] = FundingOf(e)
    BY IdsAreActive
  <1>3. /\ n \in Nat /\ \A i \in 1 .. n : ids[i] \in 0 .. q /\ Active(ids[i])
        /\ \A i, j \in 1 .. n : i < j => ids[i] < ids[j]
        /\ \A e \in 0 .. q : Active(e) => \E i \in 1 .. n : ids[i] = e
    BY <1>2 DEF Listing
  <1> DEFINE m == EpochEnd(q) - 1
  <1>4. m \in Nat /\ m <= Len(blocks) /\ EpochEnd(q) = m + 1
    <2>1. EpochStart(q) \in Nat /\ EpochEnd(q) \in Nat /\ EpochStart(q) < EpochEnd(q)
      BY EpochSpan
    <2> QED  BY <2>1
  <1> HIDE DEF m
  <1>5. PICK h : IsStream(h, m)
    BY <1>4, StreamExists
  <1>6. s = h[m]
    BY <1>4, <1>5 DEF IsStream
  <1> DEFINE Upto(i, e) == \A j \in 1 .. n : ids[j] <= e <=> j <= i
             Good(e) == \E i \in 0 .. n : Upto(i, e) /\ Matching(g[i], e, x)
             P == {k \in Nat : Good(k - 1)}
  <1>7. 0 \in P
    <2>1. Matching(Zero(x), -1, x)
      <3>1. OpeningOf(0) = Nobody
        <4>1. EpochStart(0) = 0
          BY EpochOrder
        <4>2. \A a \in Accounts : BalanceAt(a, 0 - 1) = 0
          BY BalanceMoves
        <4> QED  BY <4>1, <4>2 DEF OpeningOf, Nobody
      <3>2. Total(Nobody) = 0
        BY StockbackAssumption, TotalTypes DEF Nobody
      <3>3. Owed(-1, x) = NothingYet /\ FundedTo(-1) = 0
        BY OwedNext, FundedNext
      <3>4. -1 + 1 = 0
        OBVIOUS
      <3> QED  BY <3>1, <3>2, <3>3, <3>4 DEF Matching, Zero, LoopShape, NothingYet
    <2>2. Upto(0, -1)
      BY <1>3
    <2>3. 0 \in 0 .. n /\ 0 - 1 = -1
      BY <1>3
    <2> QED  BY <1>1, <2>1, <2>2, <2>3
  <1>8. ASSUME NEW k \in 1 .. q + 1, k - 1 \in P PROVE k \in P
    <2> DEFINE e == k - 1
    <2>1. e \in 0 .. q /\ e \in Nat /\ k \in Nat
      OBVIOUS
    <2>2. PICK i \in 0 .. n : Upto(i, e - 1) /\ Matching(g[i], e - 1, x)
      BY <1>8
    <2>3. EpochEnd(e) - 1 <= m
      <3>1. e <= q
        BY <2>1
      <3> HIDE DEF e
      <3>2. EpochEnd(e) <= EpochEnd(q)
        BY <2>1, <3>1, EpochOrder
      <3>3. EpochEnd(e) \in Nat
        BY <2>1, EpochSpan
      <3> QED  BY <1>4, <3>2, <3>3
    <2> HIDE DEF e
    <2>4. CASE ~Active(e)
      <3>1. EpochEnd(e) - 1 <= Len(blocks)
        <4>1. EpochEnd(e) \in Nat
          BY <2>1, EpochSpan
        <4>2. Len(blocks) \in Nat
          BY DEF ChainOK
        <4> QED  BY <1>4, <2>3, <4>1, <4>2
      <3>2. OpeningOf(e + 1) = OpeningOf(e) /\ Owed(e, x) = Owed(e - 1, x) /\ FundedTo(e) = FundedTo(e - 1)
        BY <2>1, <2>4, <3>1, QuietEpoch
      <3>3. (e - 1) + 1 = e
        BY <2>1
      <3>4. Matching(g[i], e, x)
        BY <2>2, <3>2, <3>3 DEF Matching
      <3>5. Upto(i, e)
        <4>1. \A j \in 1 .. n : ids[j] # e
          BY <1>3, <2>4
        <4>2. \A j \in 1 .. n : ids[j] <= e <=> ids[j] <= e - 1
          BY <1>3, <2>1, <4>1
        <4> QED  BY <2>2, <4>2
      <3> QED  BY <2>1, <3>4, <3>5 DEF e
    <2>5. CASE Active(e)
      <3>1. PICK j \in 1 .. n : ids[j] = e
        BY <1>3, <2>1, <2>5
      <3>2. j = i + 1
        <4>1. ~(j <= i)
          BY <2>1, <2>2, <3>1
        <4>2. ASSUME i + 1 < j PROVE FALSE
          <5>1. i + 1 \in 1 .. n /\ ids[i + 1] < ids[j]
            BY <1>3, <4>2
          <5>2. ids[i + 1] <= e - 1
            BY <1>3, <2>1, <3>1, <5>1
          <5>3. i + 1 <= i
            BY <2>2, <5>1, <5>2
          <5> QED  BY <5>3
        <4> QED  BY <4>1, <4>2
      <3>3. Upto(j, e)
        <4>1. ASSUME NEW l \in 1 .. n PROVE ids[l] <= e <=> l <= j
          <5>1. ids[l] \in 0 .. q /\ (l < j => ids[l] < ids[j]) /\ (j < l => ids[j] < ids[l])
            BY <1>3
          <5>2. l < j \/ l = j \/ j < l
            OBVIOUS
          <5> QED  BY <2>1, <3>1, <5>1, <5>2
        <4> QED  BY <4>1
      <3> DEFINE ep == BucketOf(ids[j], s, f)
      <3>4. ep = [id |-> e, contributions |-> FundingOf(e), events |-> EventsIn(e, h[m])]
        BY <1>2, <1>6, <2>1, <3>1 DEF BucketOf
      <3>5. g[j] = AddEpoch(g[i], ep)
        <4>1. j - 1 = i
          BY <3>2
        <4> QED  BY <1>1, <4>1
      <3> HIDE DEF ep
      <3>6. Matching(AddEpoch(g[i], ep), e, x)
        BY <1>4, <1>5, <2>1, <2>2, <2>3, <2>5, <3>4, ActiveEpoch
      <3>7. j \in 0 .. n
        OBVIOUS
      <3> QED  BY <2>1, <3>3, <3>5, <3>6, <3>7 DEF e
    <2> QED  BY <2>4, <2>5
  <1> HIDE DEF P
  <1> DEFINE top == q + 1
  <1>9. \A k \in 0 .. q + 1 : k \in P
    <2>1. top \in Nat /\ \A k \in 1 .. top : k - 1 \in P => k \in P
      BY <1>8
    <2> HIDE DEF top
    <2>2. \A k \in 0 .. top : k \in P
      BY <1>7, <2>1, W!CountingUp
    <2> QED  BY <2>2 DEF top
  <1>10. ASSUME NEW e \in 0 .. q, \A j \in 1 .. n : ids[j] <= e PROVE Matching(g[n], e, x)
    <2>1. e + 1 \in P /\ (e + 1) - 1 = e
      BY <1>9
    <2>2. PICK i \in 0 .. n : Upto(i, e) /\ Matching(g[i], e, x)
      BY <2>1 DEF P
    <2>3. i = n
      <3>1. CASE n = 0
        BY <3>1
      <3>2. CASE n # 0
        <4>1. n \in 1 .. n
          BY <1>3, <3>2
        <4>2. n <= i
          BY <1>10, <2>2, <4>1
        <4> QED  BY <1>3, <4>2
      <3> QED  BY <3>1, <3>2
    <2> QED  BY <2>2, <2>3
  <1>11. Matching(g[n], q, x)
    <2>1. q \in 0 .. q /\ \A j \in 1 .. n : ids[j] <= q
      BY <1>3
    <2> QED  BY <1>10, <2>1
  <1>12. ASSUME n > 0 PROVE ids[n] \in 0 .. q /\ Matching(g[n], ids[n], x)
    <2>1. n \in 1 .. n
      BY <1>3, <1>12
    <2>2. ASSUME NEW j \in 1 .. n PROVE ids[j] <= ids[n]
      <3>1. j < n \/ j = n
        BY <1>3
      <3> QED  BY <1>3, <2>1, <3>1
    <2> QED  BY <1>3, <1>10, <2>1, <2>2
  <1> QED  BY <1>1, <1>11, <1>12

-----------------------------------------------------------------------------
(* What a longer or a shorter chain leaves as it was *)

(* The chains before and after a step have these first blocks in common.   *)
Agree(m) ==
    /\ m \in Nat /\ m <= Len(blocks) /\ m <= Len(blocks')
    /\ \A n \in 1 .. m : blocks'[n] = blocks[n]

MovesIn(block, a) ==
    LET moves == block.moves
    IN  Total([i \in DOMAIN moves |-> IF moves[i][1] = a THEN moves[i][2] ELSE 0])
EventsBy(block, n) ==
    [i \in DOMAIN block.moves |-> [account |-> block.moves[i][1], delta |-> block.moves[i][2], at |-> n]]

(* The heights before a time that both reach.                              *)
LEMMA BeforeStays ==
    ASSUME ChainOK, ChainOK', NEW m, Agree(m), NEW t \in Int, t <= m
    PROVE  Before(t + 1) = 1 .. t /\ Before(t + 1)' = 1 .. t
  <1>1. Len(blocks) \in Nat /\ m \in Nat /\ m <= Len(blocks)
    BY DEF ChainOK, Agree
  <1>2. Len(blocks') \in Nat /\ m <= Len(blocks')
    BY DEF ChainOK, Agree
  <1>3. Before(t + 1) = 1 .. t
    BY <1>1 DEF Before
  <1>4. Before(t + 1)' = 1 .. t
    BY <1>1, <1>2 DEF Before
  <1> QED  BY <1>3, <1>4

(* Balances do not depend on later blocks.                                 *)
LEMMA BalanceStays ==
    ASSUME ChainOK, ChainOK', NEW m, Agree(m), NEW a, NEW t \in Int, t <= m
    PROVE  BalanceAt(a, t)' = BalanceAt(a, t)
  <1> DEFINE f == [n \in 1 .. t |-> MovesIn(blocks[n], a)]
             g == [n \in 1 .. t |-> MovesIn(blocks'[n], a)]
  <1>1. Before(t + 1) = 1 .. t /\ Before(t + 1)' = 1 .. t
    BY BeforeStays
  <1>2. \A n : MovesOf(n, a) = MovesIn(blocks[n], a)
    BY DEF MovesOf, MovesIn
  <1>3. \A n : MovesOf(n, a)' = MovesIn(blocks'[n], a)
    BY DEF MovesOf, MovesIn
  <1>4. BalanceAt(a, t) = Total(f)
    BY <1>1, <1>2 DEF BalanceAt
  <1>5. BalanceAt(a, t)' = Total(g)
    BY <1>1, <1>3 DEF BalanceAt
  <1>6. \A n \in 1 .. t : blocks'[n] = blocks[n]
    BY DEF Agree
  <1>7. f = g
    BY <1>6
  <1> QED  BY <1>4, <1>5, <1>7

(* Nor do contributions.                                                   *)
LEMMA FundingStays ==
    ASSUME NEW m, Agree(m)
    PROVE  \A H \in SUBSET (1 .. m) : Funding(H)' = Funding(H)
  <1> SUFFICES ASSUME NEW H \in SUBSET (1 .. m) PROVE Funding(H)' = Funding(H)
    OBVIOUS
  <1> DEFINE f == [n \in H |-> blocks[n].funding]
             g == [n \in H |-> blocks'[n].funding]
  <1>1. Funding(H) = Total(f) /\ Funding(H)' = Total(g)
    BY DEF Funding
  <1>2. \A n \in H : blocks'[n] = blocks[n]
    BY DEF Agree
  <1>3. f = g
    BY <1>2
  <1> QED  BY <1>1, <1>3

(* Nor does anything that a closed epoch comes to.                         *)
LEMMA EpochStays ==
    ASSUME ChainOK, ChainOK', NEW m, Agree(m), NEW e \in Nat, EpochEnd(e) - 1 <= m
    PROVE  /\ \A a : HeldIn(a, e)' = HeldIn(a, e)
           /\ \A x : WeightsOf(e, x)' = WeightsOf(e, x)
           /\ FundingOf(e)' = FundingOf(e) /\ (Active(e)' <=> Active(e))
           /\ FundedTo(e)' = FundedTo(e)
           /\ \A x, b : OwedStep(e, x, b)' = OwedStep(e, x, b)
  <1> DEFINE S == EpochStart(e)
             N == EpochEnd(e)
             H == {n \in 1 .. N - 1 : EpochIdAt(n) = e}
  <1>1. S \in Nat /\ N \in Nat /\ m \in Nat /\ Len(blocks) \in Nat /\ Len(blocks') \in Nat
    <2>1. S \in Nat /\ N \in Nat
      BY EpochSpan
    <2>2. m \in Nat /\ Len(blocks) \in Nat /\ Len(blocks') \in Nat
      BY DEF ChainOK, Agree
    <2> QED  BY <2>1, <2>2
  <1>2. \A n \in Nat : EpochIdAt(n) = e => n < N
    BY EpochBounds
  <1>3. m <= Len(blocks) /\ m <= Len(blocks') /\ \A n \in 1 .. m : blocks'[n] = blocks[n]
    BY DEF Agree
  <1>4. DOMAIN blocks = 1 .. Len(blocks) /\ DOMAIN blocks' = 1 .. Len(blocks')
    BY DEF ChainOK
  <1> HIDE DEF S, N
  <1>5. N - 1 <= m
    BY DEF N
  <1>6. BlocksOf(e) = H
    BY <1>1, <1>2, <1>3, <1>4, <1>5 DEF BlocksOf
  <1>7. BlocksOf(e)' = H
    BY <1>1, <1>2, <1>3, <1>4, <1>5 DEF BlocksOf
  <1>8. H \in SUBSET (1 .. m) /\ 1 .. N - 1 \in SUBSET (1 .. m)
    BY <1>1, <1>5
  <1>9. ASSUME NEW a PROVE HeldIn(a, e)' = HeldIn(a, e)
    <2> DEFINE f == [at \in S .. N - 1 |-> BalanceAt(a, at)]
               g == [at \in S .. N - 1 |-> BalanceAt(a, at)']
    <2>1. \A t \in S .. N - 1 : BalanceAt(a, t)' = BalanceAt(a, t)
      BY <1>1, <1>5, BalanceStays
    <2>2. f = g
      BY <2>1
    <2>3. HeldIn(a, e) = Total(f) /\ HeldIn(a, e)' = Total(g)
      BY DEF HeldIn, S, N
    <2> QED  BY <2>2, <2>3
  <1>10. ASSUME NEW x PROVE WeightsOf(e, x)' = WeightsOf(e, x)
    BY <1>9 DEF WeightsOf
  <1> HIDE DEF H
  <1>11. FundingOf(e)' = FundingOf(e)
    <2>1. Funding(H)' = Funding(H)
      BY <1>8, FundingStays
    <2>2. FundingOf(e) = Funding(H)
      BY <1>6 DEF FundingOf
    <2>3. FundingOf(e)' = Funding(H)'
      BY <1>7 DEF FundingOf, Funding
    <2> QED  BY <2>1, <2>2, <2>3
  <1>12. Active(e)' <=> Active(e)
    <2>1. \A n \in H : blocks'[n] = blocks[n]
      BY <1>3, <1>8
    <2>2. Active(e) <=> \E n \in H : blocks[n].moves # <<>> \/ blocks[n].funding > 0
      BY <1>6 DEF Active
    <2>3. Active(e)' <=> \E n \in H : blocks'[n].moves # <<>> \/ blocks'[n].funding > 0
      BY <1>7 DEF Active
    <2> QED  BY <2>1, <2>2, <2>3
  <1>13. FundedTo(e)' = FundedTo(e)
    <2> DEFINE K == 1 .. N - 1
    <2>1. Before(N) = K /\ Before(N)' = K
      <3>1. N - 1 \in Int /\ (N - 1) + 1 = N
        BY <1>1
      <3>2. Before((N - 1) + 1) = 1 .. N - 1 /\ Before((N - 1) + 1)' = 1 .. N - 1
        BY <1>5, <3>1, BeforeStays
      <3> QED  BY <3>1, <3>2
    <2> HIDE DEF K
    <2>2. Funding(K)' = Funding(K)
      BY <1>8, FundingStays DEF K
    <2>3. FundedTo(e) = Funding(K)
      BY <2>1 DEF FundedTo, N
    <2>4. FundedTo(e)' = Funding(K)'
      BY <2>1 DEF FundedTo, Funding, N
    <2> QED  BY <2>2, <2>3, <2>4
  <1>14. ASSUME NEW x, NEW b PROVE OwedStep(e, x, b)' = OwedStep(e, x, b)
    BY <1>10, <1>11, <1>12 DEF OwedStep
  <1> QED  BY <1>9, <1>10, <1>11, <1>12, <1>13, <1>14

(* Nor does what a pass reads.                                             *)
LEMMA ReadsStay ==
    ASSUME ChainOK, ChainOK', NEW m, Agree(m), NEW toTs \in Nat, toTs <= m + 1
    PROVE  /\ ListBalanceEvents(toTs)' = ListBalanceEvents(toTs)
           /\ ListFundingByEpoch(toTs)' = ListFundingByEpoch(toTs)
           /\ GetTotalFundedThrough(toTs)' = GetTotalFundedThrough(toTs)
  <1> DEFINE K == 1 .. toTs - 1
             H(e) == {n \in K : EpochIdAt(n) = e}
  <1>1. Before(toTs) = K /\ Before(toTs)' = K
    <2>1. toTs - 1 \in Int /\ (toTs - 1) + 1 = toTs /\ m \in Nat
      BY DEF Agree
    <2>2. Before((toTs - 1) + 1) = 1 .. toTs - 1 /\ Before((toTs - 1) + 1)' = 1 .. toTs - 1
      BY <2>1, BeforeStays
    <2> QED  BY <2>1, <2>2
  <1>2. K \in SUBSET (1 .. m) /\ \A n \in K : blocks'[n] = blocks[n]
    BY DEF Agree
  <1>3. ListBalanceEvents(toTs)' = ListBalanceEvents(toTs)
    <2> DEFINE f == [n \in K |-> EventsBy(blocks[n], n)]
               g == [n \in K |-> EventsBy(blocks'[n], n)]
    <2>1. \A n : EventsAt(n) = EventsBy(blocks[n], n) /\ EventsAt(n)' = EventsBy(blocks'[n], n)
      BY DEF EventsAt, EventsBy
    <2>2. ListBalanceEvents(toTs) = FlattenSeq(f)
      BY <1>1, <2>1 DEF ListBalanceEvents
    <2>3. ListBalanceEvents(toTs)' = FlattenSeq(g)
      BY <1>1, <2>1 DEF ListBalanceEvents
    <2>4. f = g
      BY <1>2
    <2> QED  BY <2>2, <2>3, <2>4
  <1>4. \A J \in SUBSET K : Funding(J)' = Funding(J)
    BY <1>2, FundingStays
  <1>5. ListFundingByEpoch(toTs)' = ListFundingByEpoch(toTs)
    <2>1. ListFundingByEpoch(toTs) = [e \in Epochs |-> Funding(H(e))]
      BY <1>1 DEF ListFundingByEpoch
    <2>2. ListFundingByEpoch(toTs)' = [e \in Epochs |-> Funding(H(e))']
      BY <1>1 DEF ListFundingByEpoch, Funding
    <2>3. \A e \in Epochs : Funding(H(e))' = Funding(H(e))
      BY <1>4
    <2> QED  BY <2>1, <2>2, <2>3
  <1> HIDE DEF K
  <1>6. GetTotalFundedThrough(toTs)' = GetTotalFundedThrough(toTs)
    <2>1. GetTotalFundedThrough(toTs) = Funding(K)
      BY <1>1 DEF GetTotalFundedThrough
    <2>2. GetTotalFundedThrough(toTs)' = Funding(K)'
      BY <1>1 DEF GetTotalFundedThrough, Funding
    <2> QED  BY <1>4, <2>1, <2>2
  <1> QED  BY <1>3, <1>5, <1>6

(* The recursion of what is owed, as a formula of one state.               *)
OwedGrows ==
    ChainOK /\ Solvent =>
        \A x : /\ Owed(-1, x) = NothingYet
               /\ \A e \in Nat : \A b : b = Owed(e - 1, x) => Owed(e, x) = OwedStep(e, x, b)

(* It holds in every state.                                                *)
LEMMA OwedGrowsHolds == OwedGrows
  BY OwedNext DEF OwedGrows

(* What closed epochs owe does not depend on later blocks either.          *)
LEMMA OwedStays ==
    ASSUME ChainOK, ChainOK', Solvent, Solvent', NEW m, Agree(m), NEW q \in Nat, EpochEnd(q) - 1 <= m, NEW x
    PROVE  Owed(q, x)' = Owed(q, x)
  <1> DEFINE P == {k \in Nat : Owed(k - 1, x)' = Owed(k - 1, x)}
             top == q + 1
  <1>1. OwedGrows /\ OwedGrows'
    BY OwedGrowsHolds, PTL
  <1>2. Owed(-1, x) = NothingYet /\ \A e \in Nat : \A b : b = Owed(e - 1, x) => Owed(e, x) = OwedStep(e, x, b)
    BY <1>1 DEF OwedGrows
  <1>3. Owed(-1, x)' = NothingYet /\ \A e \in Nat : \A b : b = Owed(e - 1, x)' => Owed(e, x)' = OwedStep(e, x, b)'
    BY <1>1 DEF OwedGrows, NothingYet, Nobody
  <1>4. 0 \in P
    <2>1. 0 - 1 = -1
      OBVIOUS
    <2> QED  BY <1>2, <1>3, <2>1
  <1>5. ASSUME NEW k \in 1 .. top, k - 1 \in P PROVE k \in P
    <2> DEFINE e == k - 1
    <2>1. e \in Nat /\ k \in Nat /\ e <= q
      OBVIOUS
    <2>2. Owed(e - 1, x)' = Owed(e - 1, x)
      BY <1>5
    <2> HIDE DEF e
    <2>3. EpochEnd(e) - 1 <= m
      <3>1. EpochEnd(e) <= EpochEnd(q)
        BY <2>1, EpochOrder
      <3>2. EpochEnd(e) \in Nat /\ EpochEnd(q) \in Nat /\ m \in Nat
        BY <2>1, EpochSpan DEF Agree
      <3> QED  BY <3>1, <3>2
    <2>4. \A b : OwedStep(e, x, b)' = OwedStep(e, x, b)
      BY <2>1, <2>3, EpochStays
    <2>5. Owed(e, x)' = Owed(e, x)
      BY <1>2, <1>3, <2>1, <2>2, <2>4
    <2> QED  BY <2>1, <2>5 DEF e
  <1> HIDE DEF P
  <1>6. top \in Nat
    OBVIOUS
  <1> HIDE DEF top
  <1>7. \A k \in 0 .. top : k \in P
    BY <1>4, <1>5, <1>6, W!CountingUp
  <1>8. top \in P /\ top - 1 = q
    BY <1>6, <1>7 DEF top
  <1> QED  BY <1>8 DEF P

-----------------------------------------------------------------------------
(* The chain grows and is cut back *)

(* Every account of a purchase is listed.                                  *)
LEMMA BuyersListed ==
    ASSUME NEW S \in SUBSET Accounts
    PROVE  Cardinality(S) \in Nat /\ SetToSeq(S) \in [1 .. Cardinality(S) -> S]
  <1>1. IsFiniteSet(S)
    BY StockbackAssumption, FS_Subset
  <1>2. Cardinality(S) \in Nat /\ ExistsBijection(1 .. Cardinality(S), S)
    BY <1>1, FS_CardinalityType
  <1>3. \E f \in [1 .. Cardinality(S) -> S] : IsInjective(f)
    BY <1>2 DEF ExistsBijection, Bijection, Injection
  <1>4. SetToSeq(S) \in [1 .. Cardinality(S) -> S]
    BY <1>3 DEF SetToSeq
  <1> QED  BY <1>2, <1>4

(* What a next block is, and that nobody can lose in it what he has not.   *)
LEMMA NextBlock ==
    ASSUME ChainOK, Solvent, NEW b \in NextBlocks
    PROVE  /\ b \in BlockType
           /\ \A a \in Accounts : MovesIn(b, a) \in Int /\ BalanceNow(a) + MovesIn(b, a) >= 0
  <1> DEFINE moves == b.moves
             term(a, i) == IF moves[i][1] = a THEN moves[i][2] ELSE 0
             f(a) == [i \in DOMAIN moves |-> term(a, i)]
  <1>1. \A a \in Accounts : BalanceNow(a) \in Nat
    BY DEF BalanceNow, Solvent, ChainOK
  <1>2. \A a : MovesIn(b, a) = Total(f(a))
    BY DEF MovesIn
  <1>3. ASSUME moves \in Seq(Accounts \X Nat), b = Block(moves, b.funding, b.graduates),
               b.funding \in Nat, b.graduates \in BOOLEAN
        PROVE  /\ b \in BlockType
               /\ \A a \in Accounts : MovesIn(b, a) \in Int /\ BalanceNow(a) + MovesIn(b, a) >= 0
    <2> HIDE DEF moves
    <2>1. Accounts \X Nat \subseteq Accounts \X Int
      OBVIOUS
    <2>2. moves \in Seq(Accounts \X Int)
      BY <1>3, <2>1
    <2>3. b \in BlockType
      BY <1>3, <2>2 DEF BlockType, Block
    <2>4. ASSUME NEW a \in Accounts PROVE MovesIn(b, a) \in Nat
      <3>1. DOMAIN moves = 1 .. Len(moves) /\ Len(moves) \in Nat
        BY <1>3
      <3>2. \A i \in 1 .. Len(moves) : moves[i] \in Accounts \X Nat
        BY <1>3
      <3>3. f(a) \in [1 .. Len(moves) -> Nat]
        BY <3>1, <3>2
      <3>4. IsFiniteSet(1 .. Len(moves))
        BY <3>1, FS_Interval
      <3> HIDE DEF f
      <3> QED  BY <1>2, <3>3, <3>4, TotalTypes
    <2>5. ASSUME NEW a \in Accounts PROVE MovesIn(b, a) \in Int /\ BalanceNow(a) + MovesIn(b, a) >= 0
      <3>1. MovesIn(b, a) \in Nat /\ BalanceNow(a) \in Nat
        BY <1>1, <2>4
      <3> QED  BY <3>1
    <2> QED  BY <2>3, <2>5
  <1>4. CASE b = Quiet
    <2>1. moves = <<>> /\ b.funding = 0 /\ b.graduates = FALSE /\ b = Block(moves, b.funding, b.graduates)
      BY <1>4 DEF Quiet, Block
    <2> HIDE DEF moves
    <2>2. moves \in Seq(Accounts \X Nat)
      BY <2>1
    <2>3. b.funding \in Nat /\ b.graduates \in BOOLEAN /\ b = Block(moves, b.funding, b.graduates)
      <3>1. b.funding \in Nat
        BY <2>1
      <3>2. b.graduates \in BOOLEAN
        BY <2>1, Zenon
      <3>3. b = Block(moves, b.funding, b.graduates)
        BY <2>1, Zenon
      <3> QED  BY <3>1, <3>2, <3>3
    <2> QED  BY <1>3, <2>2, <2>3
  <1>5. ASSUME NEW S \in Purchases, b = Bought(S)
        PROVE  /\ b \in BlockType
               /\ \A a \in Accounts : MovesIn(b, a) \in Int /\ BalanceNow(a) + MovesIn(b, a) >= 0
    <2>1. S \in SUBSET Accounts /\ Contribution \in Nat
      BY FinalizerAssumption
    <2> DEFINE c == Cardinality(S)
    <2>2. c \in Nat /\ SetToSeq(S) \in [1 .. c -> S]
      BY <2>1, BuyersListed
    <2>3. /\ moves = [i \in 1 .. c |-> <<SetToSeq(S)[i], 1>>] /\ b.funding = Contribution /\ b.graduates = FALSE
          /\ b = Block(moves, b.funding, b.graduates)
      BY <1>5 DEF Bought, Block
    <2> HIDE DEF moves, c
    <2>4. moves \in Seq(Accounts \X Nat)
      <3>1. \A i \in 1 .. c : <<SetToSeq(S)[i], 1>> \in Accounts \X Nat
        BY <2>1, <2>2
      <3> QED  BY <2>2, <2>3, <3>1
    <2> QED  BY <1>3, <2>1, <2>3, <2>4
  <1>6. CASE b = Graduated
    <2>1. moves = <<<<Pool, 1>>>> /\ b.funding = 0 /\ b.graduates = TRUE /\ b = Block(moves, b.funding, b.graduates)
      BY <1>6 DEF Graduated, Block
    <2>2. Pool \in Accounts
      BY FinalizerAssumption
    <2> HIDE DEF moves
    <2>3. moves \in Seq(Accounts \X Nat)
      BY <2>1, <2>2
    <2>4. b.funding \in Nat /\ b.graduates \in BOOLEAN /\ b = Block(moves, b.funding, b.graduates)
      <3>1. b.funding \in Nat
        BY <2>1
      <3>2. b.graduates \in BOOLEAN
        BY <2>1, Zenon
      <3>3. b = Block(moves, b.funding, b.graduates)
        BY <2>1, Zenon
      <3> QED  BY <3>1, <3>2, <3>3
    <2> QED  BY <1>3, <2>3, <2>4
  <1>7. ASSUME NEW h \in Sellers, BalanceNow(h) > 0, b = Sold(h)
        PROVE  /\ b \in BlockType
               /\ \A a \in Accounts : MovesIn(b, a) \in Int /\ BalanceNow(a) + MovesIn(b, a) >= 0
    <2>1. h \in Accounts /\ Contribution \in Nat
      BY FinalizerAssumption
    <2>2. moves = <<<<h, -1>>>> /\ b = [moves |-> moves, funding |-> Contribution, graduates |-> FALSE]
      BY <1>7 DEF Sold, Block
    <2> HIDE DEF moves
    <2>3. moves \in Seq(Accounts \X Int)
      BY <2>1, <2>2
    <2>4. b \in BlockType
      BY <2>1, <2>2, <2>3 DEF BlockType
    <2>5. ASSUME NEW a \in Accounts PROVE MovesIn(b, a) \in Int /\ BalanceNow(a) + MovesIn(b, a) >= 0
      <3> DEFINE g == f(a)
                 rest == [y \in {1} \ {1} |-> g[y]]
      <3>1. DOMAIN moves = {1} /\ moves[1] = <<h, -1>>
        BY <2>2
      <3>2. g \in [{1} -> Int] /\ g[1] = (IF h = a THEN -1 ELSE 0)
        BY <3>1
      <3>3. IsFiniteSet({1}) /\ IsFiniteSet({1} \ {1}) /\ 1 \in {1}
        BY FS_Singleton, FS_EmptySet
      <3>4. rest = [y \in {1} \ {1} |-> 0]
        OBVIOUS
      <3>5. MovesIn(b, a) = Total(g)
        BY <1>2
      <3> HIDE DEF g
      <3>6. Total(g) = g[1] + Total(rest) /\ Total(rest) = 0
        BY <3>2, <3>3, <3>4, TotalWithout, TotalTypes
      <3> QED  BY <1>1, <1>7, <3>2, <3>5, <3>6
    <2> QED  BY <2>4, <2>5
  <1> QED  BY <1>4, <1>5, <1>6, <1>7 DEF NextBlocks

(* How balances go, as a formula of one state.                             *)
Ledger ==
    ChainOK =>
        \A a : /\ \A t \in Int : BalanceAt(a, t) \in Int
               /\ \A n \in 1 .. Len(blocks) : BalanceAt(a, n) = BalanceAt(a, n - 1) + MovesOf(n, a)
               /\ \A t, u \in Int : t >= Len(blocks) /\ u >= Len(blocks) => BalanceAt(a, t) = BalanceAt(a, u)

(* It holds in every state.                                                *)
LEMMA LedgerHolds == Ledger
  <1> SUFFICES ASSUME ChainOK, NEW a
               PROVE  /\ \A t \in Int : BalanceAt(a, t) \in Int
                      /\ \A n \in 1 .. Len(blocks) : BalanceAt(a, n) = BalanceAt(a, n - 1) + MovesOf(n, a)
                      /\ \A t, u \in Int : t >= Len(blocks) /\ u >= Len(blocks) => BalanceAt(a, t) = BalanceAt(a, u)
    BY DEF Ledger
  <1>1. ASSUME NEW t \in Int, NEW u \in Int, t >= Len(blocks), u >= Len(blocks)
        PROVE  BalanceAt(a, t) = BalanceAt(a, u)
    <2>1. Len(blocks) \in Nat
      BY DEF ChainOK
    <2>2. Before(t + 1) = 1 .. Len(blocks) /\ Before(u + 1) = 1 .. Len(blocks)
      BY <1>1, <2>1 DEF Before
    <2> QED  BY <2>2 DEF BalanceAt
  <1> QED  BY <1>1, BalanceMoves

(* What the chain and its indexer keep true.                               *)
ChainInv ==
    /\ ChainOK /\ Len(blocks) <= MaxBlock /\ finalized \in 0 .. Len(blocks)
    /\ excluded \subseteq {Pool} /\ Solvent

(* A new block does, and agrees with the chain so far.                     *)
LEMMA ChainGrows ==
    ASSUME ChainInv, IndexBlock
    PROVE  ChainInv' /\ Agree(Len(blocks)) /\ Len(blocks') = Len(blocks) + 1
  <1>0. PICK m \in Nat : m = Len(blocks)
    BY DEF ChainInv, ChainOK
  <1>1. PICK b \in NextBlocks :
              /\ blocks' = Append(blocks, b)
              /\ excluded' = IF b.graduates THEN excluded \cup {Pool} ELSE excluded
    BY DEF IndexBlock
  <1>2. /\ m < MaxBlock /\ MaxBlock \in Nat /\ Confirmations \in Nat
        /\ finalized' = IF m + 1 - Confirmations > finalized THEN m + 1 - Confirmations ELSE finalized
    BY <1>0, FinalizerAssumption DEF IndexBlock
  <1>3. ChainOK /\ blocks \in Seq(BlockType) /\ m \in Nat /\ finalized \in 0 .. m /\ excluded \subseteq {Pool} /\ Solvent
    BY <1>0 DEF ChainInv, ChainOK
  <1>4. b \in BlockType /\ \A a \in Accounts : MovesIn(b, a) \in Int /\ BalanceNow(a) + MovesIn(b, a) >= 0
    BY <1>3, NextBlock
  <1>5. /\ blocks' \in Seq(BlockType) /\ Len(blocks') = m + 1 /\ blocks'[m + 1] = b
        /\ \A n \in 1 .. m : blocks'[n] = blocks[n]
    BY <1>0, <1>1, <1>3, <1>4
  <1>6. ChainOK'
    BY <1>5 DEF ChainOK
  <1>7. Agree(m)
    BY <1>0, <1>3, <1>5 DEF Agree
  <1>8. finalized' \in 0 .. Len(blocks')
    BY <1>2, <1>3, <1>5
  <1>9. Solvent'
    <2> SUFFICES ASSUME NEW a \in Accounts, NEW t \in Nat PROVE BalanceAt(a, t)' \in Nat
      BY DEF Solvent
    <2>1. BalanceAt(a, m)' = BalanceAt(a, m) /\ BalanceAt(a, m) \in Nat /\ BalanceNow(a) = BalanceAt(a, m)
      <3>1. m \in Int /\ m <= m
        OBVIOUS
      <3>2. BalanceAt(a, m)' = BalanceAt(a, m)
        BY <1>3, <1>6, <1>7, <3>1, BalanceStays
      <3> QED  BY <1>0, <1>3, <3>2 DEF Solvent, BalanceNow
    <2>2. Ledger'
      BY LedgerHolds, PTL
    <2>3. /\ \A n \in 1 .. Len(blocks') : BalanceAt(a, n)' = BalanceAt(a, n - 1)' + MovesOf(n, a)'
          /\ \A v, u \in Int : v >= Len(blocks') /\ u >= Len(blocks') => BalanceAt(a, v)' = BalanceAt(a, u)'
      BY <1>6, <2>2 DEF Ledger
    <2> DEFINE K == m + 1
    <2>4. K \in 1 .. Len(blocks') /\ K - 1 = m /\ K \in Int /\ K >= Len(blocks')
      BY <1>3, <1>5
    <2>5. MovesOf(K, a)' = MovesIn(b, a)
      <3>1. blocks'[K] = b
        BY <1>5
      <3> HIDE DEF K
      <3>2. \A n : MovesOf(n, a)' = MovesIn(blocks'[n], a)
        BY DEF MovesOf, MovesIn
      <3> QED  BY <3>1, <3>2
    <2>6. CASE t <= m
      <3>1. BalanceAt(a, t)' = BalanceAt(a, t)
        BY <1>3, <1>6, <1>7, <2>6, BalanceStays
      <3> QED  BY <1>3, <3>1 DEF Solvent
    <2>7. CASE t > m
      <3>1. t >= Len(blocks') /\ t \in Int
        BY <1>3, <1>5, <2>7
      <3>2. BalanceAt(a, t)' = BalanceAt(a, K)'
        BY <2>3, <2>4, <3>1
      <3>3. BalanceAt(a, K)' = BalanceAt(a, m)' + MovesOf(K, a)'
        BY <2>3, <2>4
      <3>4. MovesIn(b, a) \in Int /\ BalanceNow(a) + MovesIn(b, a) >= 0
        BY <1>4
      <3> QED  BY <2>1, <2>5, <3>2, <3>3, <3>4
    <2> QED  BY <1>3, <2>6, <2>7
  <1>10. Len(blocks') <= MaxBlock
    BY <1>2, <1>3, <1>5
  <1>11. excluded' \subseteq {Pool}
    BY <1>1, <1>3
  <1> QED  BY <1>0, <1>5, <1>6, <1>7, <1>8, <1>9, <1>10, <1>11 DEF ChainInv

(* So does a rollback, which agrees with what it leaves.                   *)
LEMMA ChainIsCut ==
    ASSUME ChainInv, NEW n \in Nat, n < Len(blocks), Rewind(n)
    PROVE  ChainInv' /\ Agree(n) /\ Len(blocks') = n
  <1>1. /\ blocks' = SubSeq(blocks, 1, n) /\ finalized' = (IF finalized > n THEN n ELSE finalized)
        /\ excluded' = (IF n = 0 THEN {} ELSE excluded)
    BY DEF Rewind
  <1>2. /\ ChainOK /\ blocks \in Seq(BlockType) /\ Len(blocks) \in Nat /\ finalized \in 0 .. Len(blocks)
        /\ excluded \subseteq {Pool} /\ Solvent /\ Len(blocks) <= MaxBlock /\ MaxBlock \in Nat
    BY FinalizerAssumption DEF ChainInv, ChainOK
  <1>3. blocks' \in Seq(BlockType) /\ Len(blocks') = n /\ \A k \in 1 .. n : blocks'[k] = blocks[k]
    BY <1>1, <1>2
  <1>4. ChainOK'
    BY <1>3 DEF ChainOK
  <1>5. Agree(n)
    BY <1>2, <1>3 DEF Agree
  <1>6. finalized' \in 0 .. Len(blocks') /\ Len(blocks') <= MaxBlock /\ excluded' \subseteq {Pool}
    BY <1>1, <1>2, <1>3
  <1>7. Solvent'
    <2> SUFFICES ASSUME NEW a \in Accounts, NEW t \in Nat PROVE BalanceAt(a, t)' \in Nat
      BY DEF Solvent
    <2>1. \A u \in Nat : u <= n => BalanceAt(a, u)' = BalanceAt(a, u) /\ BalanceAt(a, u) \in Nat
      <3> SUFFICES ASSUME NEW u \in Nat, u <= n
                   PROVE  BalanceAt(a, u)' = BalanceAt(a, u) /\ BalanceAt(a, u) \in Nat
        OBVIOUS
      <3>1. BalanceAt(a, u) \in Nat
        BY <1>2 DEF Solvent
      <3>2. u \in Int
        OBVIOUS
      <3>3. BalanceAt(a, u)' = BalanceAt(a, u)
        BY <1>2, <1>4, <1>5, <3>2, BalanceStays
      <3> QED  BY <3>1, <3>3
    <2>2. Ledger'
      BY LedgerHolds, PTL
    <2>3. \A v, u \in Int : v >= Len(blocks') /\ u >= Len(blocks') => BalanceAt(a, v)' = BalanceAt(a, u)'
      BY <1>4, <2>2 DEF Ledger
    <2>4. CASE t <= n
      BY <2>1, <2>4
    <2>5. CASE t > n
      <3>1. t >= Len(blocks') /\ n >= Len(blocks') /\ t \in Int /\ n \in Int
        BY <1>3, <2>5
      <3>2. BalanceAt(a, t)' = BalanceAt(a, n)'
        BY <2>3, <3>1
      <3> QED  BY <2>1, <3>2
    <2> QED  BY <2>4, <2>5
  <1> QED  BY <1>3, <1>4, <1>5, <1>6, <1>7 DEF ChainInv

-----------------------------------------------------------------------------
(* The invariant *)

(* What a dataset says that nothing disturbed: its epochs are owed just so *)
(* much, and what they do not owe is carried.                              *)
Matches(d) ==
    /\ d.epochSequence \in Nat /\ d.total + d.carry = d.totalFunded
    /\ d.cumulative = Owed(d.epochSequence, d.excluded).paid
    /\ d.carry = Owed(d.epochSequence, d.excluded).left

DatasetOK(d) ==
    /\ d.throughBlock \in DOMAIN blocks /\ d.total <= d.totalFunded
    /\ d.cumulative \in [Accounts -> Nat] /\ d.total = Total(d.cumulative)
    /\ d.excluded \subseteq {Pool}
    /\ LET leaves == Leaves(d.cumulative)
       IN  /\ d.root = ComputeRoot(leaves)
           /\ d.proofs = {[leaf |-> leaves[i], proof |-> ProofOf(leaves, i)] : i \in DOMAIN leaves}
    /\ ~d.raced => Matches(d) /\ EpochEnd(d.epochSequence) <= d.throughBlock

(* What a pass has read by each statement; only what it has read before a  *)
(* rollback need not be what the chain says.                               *)
Window(p) == EpochEnd(FinalizableThrough(p.settled))
SettledOK(p) ==
    /\ p.settled \in 1 .. MaxBlock /\ FinalizableThrough(p.settled) \in Nat
    /\ Window(p) <= p.settled /\ (~p.raced => Window(p) - 1 <= Len(blocks))
EventsOK(p) == Orderly(p.events) /\ (~p.raced => p.events = ListBalanceEvents(Window(p)))
FundingOK(p) == p.funding \in [Epochs -> Nat] /\ (~p.raced => p.funding = ListFundingByEpoch(Window(p)))
TotalOK(p) == ~p.raced => p.totalFunded = GetTotalFundedThrough(Window(p))
OutputOK(p) ==
    /\ p.output.cumulative \in [Accounts -> Nat] /\ p.output.total = Total(p.output.cumulative)
    /\ p.excluded \subseteq {Pool}
    /\ ~p.raced => Matches(DatasetOf(p)) /\ EpochEnd(p.output.epochSequence) <= Window(p)

PassShape(p) ==
    /\ p = [settled |-> p.settled, latest |-> p.latest, events |-> p.events, funding |-> p.funding,
            totalFunded |-> p.totalFunded, raced |-> p.raced, output |-> p.output, excluded |-> p.excluded]
    /\ p.raced \in BOOLEAN

PassOK(p) ==
    /\ PassShape(p)
    /\ pc = "idle" => p = NoPass
    /\ pc # "idle" => SettledOK(p)
    /\ pc \in {"funding", "total", "exclusions", "persist"} => EventsOK(p)
    /\ pc \in {"total", "exclusions", "persist"} => FundingOK(p)
    /\ pc \in {"exclusions", "persist"} => TotalOK(p)
    /\ pc = "persist" => OutputOK(p)

OneForAnEpoch == \A d \in datasets : \A other \in datasets \ {d} : other.epochSequence # d.epochSequence

(* The inductive invariant.                                                *)
FinalizerInv ==
    /\ ChainInv /\ pc \in Labels /\ OneForAnEpoch
    /\ \A d \in datasets : DatasetOK(d)
    /\ \A p \in {pass} : PassOK(p)

(* It holds at first.                                                      *)
LEMMA FinalizerInvInit == Init => FinalizerInv
  <1> SUFFICES ASSUME Init PROVE FinalizerInv
    OBVIOUS
  <1>1. /\ blocks = <<>> /\ finalized = 0 /\ excluded = {} /\ datasets = {} /\ pc = "idle" /\ pass = NoPass
    BY DEF Init
  <1>2. ChainOK /\ Len(blocks) = 0 /\ MaxBlock \in Nat
    BY <1>1, FinalizerAssumption DEF ChainOK
  <1>3. Solvent
    <2> SUFFICES ASSUME NEW a \in Accounts, NEW t \in Nat PROVE BalanceAt(a, t) \in Nat
      BY DEF Solvent
    <2>1. Ledger
      BY LedgerHolds
    <2>2. BalanceAt(a, t) = BalanceAt(a, 0)
      BY <1>2, <2>1 DEF Ledger
    <2>3. BalanceAt(a, 0) = 0
      BY <1>2, BalanceMoves
    <2> QED  BY <2>2, <2>3
  <1>4. PassShape(NoPass)
    BY DEF PassShape, NoPass
  <1> QED  BY <1>1, <1>2, <1>3, <1>4 DEF FinalizerInv, ChainInv, OneForAnEpoch, PassOK, Labels

(* The first blocks that a step leaves keep what was said about them.      *)
LEMMA MatchesStays ==
    ASSUME ChainInv, ChainInv', NEW m, Agree(m), NEW d, Matches(d), EpochEnd(d.epochSequence) - 1 <= m
    PROVE  Matches(d)'
  <1>1. ChainOK /\ ChainOK' /\ Solvent /\ Solvent'
    BY DEF ChainInv
  <1>2. d.epochSequence \in Nat
    BY DEF Matches
  <1>3. Owed(d.epochSequence, d.excluded)' = Owed(d.epochSequence, d.excluded)
    BY <1>1, <1>2, OwedStays
  <1> QED  BY <1>3 DEF Matches

(* So does every dataset about them.                                       *)
LEMMA DatasetStays ==
    ASSUME ChainInv, ChainInv', NEW m, Agree(m), NEW d, DatasetOK(d), d.throughBlock <= m
    PROVE  DatasetOK(d)'
  <1>1. m \in Nat /\ Len(blocks) \in Nat /\ DOMAIN blocks = 1 .. Len(blocks)
    BY DEF Agree, ChainInv, ChainOK
  <1>2. m <= Len(blocks') /\ Len(blocks') \in Nat /\ DOMAIN blocks' = 1 .. Len(blocks')
    BY DEF Agree, ChainInv, ChainOK
  <1>3. d.throughBlock \in DOMAIN blocks'
    BY <1>1, <1>2 DEF DatasetOK
  <1>4. ASSUME ~d.raced PROVE Matches(d)' /\ EpochEnd(d.epochSequence) <= d.throughBlock
    <2>1. Matches(d) /\ EpochEnd(d.epochSequence) <= d.throughBlock /\ d.throughBlock \in 1 .. Len(blocks)
      BY <1>1, <1>4 DEF DatasetOK
    <2>2. EpochEnd(d.epochSequence) \in Nat
      BY <2>1, EpochSpan DEF Matches
    <2>3. EpochEnd(d.epochSequence) - 1 <= m
      BY <1>1, <2>1, <2>2
    <2> QED  BY <2>1, <2>3, MatchesStays
  <1> QED  BY <1>3, <1>4 DEF DatasetOK

SamePass(p, r) ==
    /\ r.settled = p.settled /\ r.events = p.events /\ r.funding = p.funding
    /\ r.totalFunded = p.totalFunded /\ r.output = p.output /\ r.excluded = p.excluded

(* And what a pass has read of them.                                       *)
LEMMA ReadingStays ==
    ASSUME ChainInv, ChainInv', NEW m, Agree(m), NEW p, NEW r, SamePass(p, r), SettledOK(p),
           p.raced \in BOOLEAN, r.raced \in BOOLEAN, ~r.raced => ~p.raced /\ Window(p) <= m + 1
    PROVE  /\ SettledOK(r)' /\ (EventsOK(p) => EventsOK(r)') /\ (FundingOK(p) => FundingOK(r)')
           /\ (TotalOK(p) => TotalOK(r)') /\ (OutputOK(p) => OutputOK(r)')
  <1>1. ChainOK /\ ChainOK' /\ m \in Nat /\ m <= Len(blocks') /\ Len(blocks') \in Nat
    BY DEF ChainInv, ChainOK, Agree
  <1>2. Window(r) = Window(p) /\ r.settled = p.settled /\ FinalizableThrough(p.settled) \in Nat
    BY DEF SamePass, Window, SettledOK
  <1>3. Window(p) \in Nat
    BY <1>2, EpochSpan DEF Window
  <1>4. SettledOK(r)'
    BY <1>1, <1>2, <1>3 DEF SettledOK
  <1>5. ~r.raced => /\ ListBalanceEvents(Window(p))' = ListBalanceEvents(Window(p))
                    /\ ListFundingByEpoch(Window(p))' = ListFundingByEpoch(Window(p))
                    /\ GetTotalFundedThrough(Window(p))' = GetTotalFundedThrough(Window(p))
    BY <1>1, <1>3, ReadsStay
  <1>6. EventsOK(p) => EventsOK(r)'
    BY <1>2, <1>5 DEF EventsOK, SamePass, Orderly
  <1>7. FundingOK(p) => FundingOK(r)'
    BY <1>2, <1>5 DEF FundingOK, SamePass
  <1>8. TotalOK(p) => TotalOK(r)'
    BY <1>2, <1>5 DEF TotalOK, SamePass
  <1>9. ASSUME OutputOK(p) PROVE OutputOK(r)'
    <2>1. ASSUME ~r.raced PROVE Matches(DatasetOf(r))' /\ EpochEnd(r.output.epochSequence) <= Window(r)
      <3> DEFINE d == DatasetOf(p)
      <3>1. Matches(d) /\ EpochEnd(p.output.epochSequence) <= Window(p)
        BY <1>9, <2>1 DEF OutputOK
      <3>2. d.epochSequence = p.output.epochSequence
        BY DEF DatasetOf
      <3> HIDE DEF d
      <3>3. EpochEnd(d.epochSequence) \in Nat
        BY <3>1, EpochSpan DEF Matches
      <3>4. EpochEnd(d.epochSequence) - 1 <= m
        BY <1>1, <1>3, <2>1, <3>1, <3>2, <3>3
      <3>5. Matches(d)'
        BY <3>1, <3>4, MatchesStays
      <3>6. /\ DatasetOf(r).epochSequence = d.epochSequence /\ DatasetOf(r).total = d.total
            /\ DatasetOf(r).carry = d.carry /\ DatasetOf(r).totalFunded = d.totalFunded
            /\ DatasetOf(r).cumulative = d.cumulative /\ DatasetOf(r).excluded = d.excluded
        BY DEF d, DatasetOf, SamePass
      <3> QED  BY <1>2, <3>1, <3>5, <3>6 DEF Matches, SamePass
    <2> QED  BY <1>9, <2>1 DEF OutputOK, SamePass
  <1> QED  BY <1>4, <1>6, <1>7, <1>8, <1>9

(* A new block keeps the invariant.                                        *)
LEMMA IndexBlockKeeps ==
    ASSUME FinalizerInv, IndexBlock PROVE FinalizerInv'
  <1>1. ChainInv /\ ChainInv' /\ Len(blocks') = Len(blocks) + 1
    BY ChainGrows DEF FinalizerInv
  <1>2. PICK m \in Nat : m = Len(blocks)
    BY <1>1 DEF ChainInv, ChainOK
  <1>3. Agree(m)
    BY <1>1, <1>2, ChainGrows
  <1>4. datasets' = datasets /\ pc' = pc /\ pass' = pass
    BY DEF IndexBlock, process
  <1>5. ASSUME NEW d \in datasets PROVE DatasetOK(d)'
    <2>1. DatasetOK(d)
      BY DEF FinalizerInv
    <2>2. d.throughBlock \in 1 .. m
      BY <1>1, <1>2, <2>1 DEF DatasetOK, ChainInv, ChainOK
    <2> QED  BY <1>1, <1>3, <2>1, <2>2, DatasetStays
  <1>6. ASSUME NEW p \in {pass} PROVE PassOK(p)'
    <2>1. PassOK(p) /\ pc \in Labels
      BY DEF FinalizerInv
    <2>2. CASE pc = "idle"
      BY <1>4, <2>1, <2>2 DEF PassOK, PassShape
    <2>3. CASE pc # "idle"
      <3>1. SettledOK(p) /\ PassShape(p) /\ p.raced \in BOOLEAN
        BY <2>1, <2>3 DEF PassOK, PassShape
      <3>2. ~p.raced => ~p.raced /\ Window(p) <= m + 1
        <4>1. Window(p) \in Nat
          BY <3>1, EpochSpan DEF Window, SettledOK
        <4> QED  BY <1>2, <3>1, <4>1 DEF SettledOK
      <3>3. SamePass(p, p)
        BY DEF SamePass
      <3>4. /\ SettledOK(p)' /\ (EventsOK(p) => EventsOK(p)') /\ (FundingOK(p) => FundingOK(p)')
            /\ (TotalOK(p) => TotalOK(p)') /\ (OutputOK(p) => OutputOK(p)')
        BY <1>1, <1>3, <3>1, <3>2, <3>3, ReadingStays
      <3>5. PassShape(p)'
        BY <3>1 DEF PassShape
      <3> QED  BY <1>4, <2>1, <2>3, <3>4, <3>5 DEF PassOK
    <2> QED  BY <2>2, <2>3
  <1> QED  BY <1>1, <1>4, <1>5, <1>6 DEF FinalizerInv, OneForAnEpoch

(* A rollback keeps it: it marks a pass that has read what it takes back.  *)
LEMMA RewindKeeps ==
    ASSUME FinalizerInv, NEW n \in RewindsTo, n < Len(blocks), Rewind(n) PROVE FinalizerInv'
  <1>1. n \in Nat /\ ChainInv
    BY FinalizerAssumption DEF FinalizerInv
  <1>2. ChainInv' /\ Agree(n) /\ Len(blocks') = n
    BY <1>1, ChainIsCut
  <1>3. /\ datasets' = {d \in datasets : d.throughBlock <= n} /\ pc' = pc
        /\ pass' = [pass EXCEPT !.raced = pass.raced \/ n + 1 < ToTs]
    BY DEF Rewind, DatasetsAfter
  <1>4. ASSUME NEW d \in datasets' PROVE DatasetOK(d)'
    <2>1. d \in datasets /\ d.throughBlock <= n
      BY <1>3
    <2>2. DatasetOK(d)
      BY <2>1 DEF FinalizerInv
    <2> QED  BY <1>1, <1>2, <2>1, <2>2, DatasetStays
  <1>5. OneForAnEpoch'
    BY <1>3 DEF FinalizerInv, OneForAnEpoch
  <1>6. ASSUME NEW r \in {pass'} PROVE PassOK(r)'
    <2>1. PICK p : p = pass
      OBVIOUS
    <2>2. PassOK(p) /\ pc \in Labels
      BY <2>1 DEF FinalizerInv
    <2>3. PassShape(p) /\ p.raced \in BOOLEAN
      BY <2>2 DEF PassOK, PassShape
    <2>4. ToTs = Window(p)
      BY <2>1 DEF ToTs, Window
    <2> DEFINE bad == p.raced \/ n + 1 < Window(p)
    <2>5. bad \in BOOLEAN
      OBVIOUS
    <2>6. r = [p EXCEPT !.raced = bad]
      BY <1>3, <2>1, <2>4
    <2> HIDE DEF bad
    <2>7. PassShape(r)' /\ SamePass(p, r) /\ r.raced = bad
      BY <2>3, <2>5, <2>6 DEF PassShape, SamePass
    <2>8. CASE pc = "idle"
      <3>1. p = NoPass
        BY <2>2, <2>8 DEF PassOK
      <3>2. Window(p) = 0
        <4>1. NoPass.settled = 0 /\ SettlementMargin \in Nat
          BY FinalizerAssumption DEF NoPass
        <4>2. 0 - SettlementMargin <= 0
          BY <4>1
        <4>3. FinalizableThrough(0) = -1
          BY <4>2 DEF FinalizableThrough
        <4>4. EpochEnd(-1) = 0
          BY EpochOrder
        <4> QED  BY <3>1, <4>1, <4>3, <4>4 DEF Window
      <3>3. bad = FALSE
        <4>1. NoPass.raced = FALSE
          BY DEF NoPass
        <4>2. ~(n + 1 < 0)
          BY <1>1
        <4> QED  BY <3>1, <3>2, <4>1, <4>2 DEF bad
      <3>4. r = NoPass
        BY <2>6, <3>1, <3>3 DEF NoPass
      <3> QED  BY <1>3, <2>7, <2>8, <3>4 DEF PassOK, NoPass
    <2>9. CASE pc # "idle"
      <3>1. SettledOK(p)
        BY <2>2, <2>9 DEF PassOK
      <3>2. ~bad => ~p.raced /\ Window(p) <= n + 1
        <4>1. Window(p) \in Nat
          BY <3>1, EpochSpan DEF Window, SettledOK
        <4> QED  BY <1>1, <4>1 DEF bad
      <3>3. r.raced \in BOOLEAN /\ (~r.raced => ~p.raced /\ Window(p) <= n + 1)
        BY <2>5, <2>7, <3>2
      <3>4. /\ SettledOK(r)' /\ (EventsOK(p) => EventsOK(r)') /\ (FundingOK(p) => FundingOK(r)')
            /\ (TotalOK(p) => TotalOK(r)') /\ (OutputOK(p) => OutputOK(r)')
        BY <1>1, <1>2, <2>3, <2>7, <3>1, <3>3, ReadingStays
      <3> QED  BY <1>3, <2>2, <2>7, <2>9, <3>4 DEF PassOK
    <2> QED  BY <2>8, <2>9
  <1> QED  BY <1>2, <1>3, <1>4, <1>5, <1>6 DEF FinalizerInv

-----------------------------------------------------------------------------
(* The steps of a pass *)

(* Whatever a pass distributes is natural numbers and their sum, and is    *)
(* what its epochs owe when nothing disturbed it.                          *)
LEMMA OutputSound ==
    ASSUME ChainInv, NEW p, SettledOK(p), EventsOK(p), FundingOK(p), TotalOK(p), p.raced \in BOOLEAN,
           NEW x \in SUBSET {Pool},
           NEW out, out = ComputeFinalization(p.events, p.funding, x, p.totalFunded, p.latest),
           out # NotDistributable
    PROVE  /\ out.cumulative \in [Accounts -> Nat] /\ out.total = Total(out.cumulative)
           /\ out.epochSequence \in Epochs /\ ~(out.epochSequence <= p.latest)
           /\ ~p.raced => /\ out.epochSequence \in Nat /\ out.total + out.carry = p.totalFunded
                          /\ out.cumulative = Owed(out.epochSequence, x).paid
                          /\ out.carry = Owed(out.epochSequence, x).left
                          /\ EpochEnd(out.epochSequence) <= Window(p)
  <1> DEFINE s == p.events
             f == p.funding
             S == EpochIds(s, f)
             n == Cardinality(S)
             ids == Ascending(S)
             epochs == BucketByEpoch(s, f)
             sum == LoopSum(x, epochs)
             q == FinalizableThrough(p.settled)
  <1>1. Orderly(s) /\ s \in Seq(Event) /\ f \in [Epochs -> Nat] /\ x \in SUBSET Accounts
    BY FinalizerAssumption DEF EventsOK, FundingOK, Orderly
  <1>2. S \subseteq Epochs /\ S \subseteq Nat /\ IsFiniteSet(S)
    <2>1. MaxBlock \in Nat /\ EpochIdAt(MaxBlock) \in Nat
      <3>1. MaxBlock \in Nat /\ 0 \in Nat
        BY FinalizerAssumption
      <3> QED  BY <3>1, EpochBounds
    <2>2. ASSUME NEW i \in DOMAIN s PROVE EpochIdAt(s[i].at) \in Epochs
      <3>1. s[i].at \in 1 .. MaxBlock
        BY <1>1, <2>2 DEF Orderly
      <3>2. s[i].at \in Nat /\ s[i].at <= MaxBlock
        BY <2>1, <3>1
      <3>3. EpochIdAt(s[i].at) \in Nat /\ EpochIdAt(s[i].at) <= EpochIdAt(MaxBlock)
        BY <2>1, <3>2, EpochBounds, EpochOrder
      <3> QED  BY <2>1, <3>3 DEF Epochs
    <2>3. S \subseteq Epochs
      BY <1>1, <2>2 DEF EpochIds
    <2>4. IsFiniteSet(Epochs) /\ Epochs \subseteq Nat
      <3>1. IsFiniteSet(0 .. EpochIdAt(MaxBlock))
        BY <2>1, FS_Interval
      <3> QED  BY <2>1, <3>1 DEF Epochs
    <2> QED  BY <2>3, <2>4, FS_Subset
  <1>3. Listing(ids, n, epochs, s, f)
    BY <1>2, BucketsListed
  <1>4. /\ n \in Nat /\ n > 0 /\ ~sum.corrupt /\ ids[n] \in S /\ ~(out.epochSequence <= p.latest)
        /\ out = [epochSequence |-> ids[n], cumulative |-> sum.cumulative,
                  total |-> sum.allocated, carry |-> sum.carry]
    BY <1>1, <1>2, FinalizationFields
  <1>5. ~sum.corrupt => sum.cumulative \in [Accounts -> Nat] /\ sum.allocated = Total(sum.cumulative)
    <2>1. Orderly(s) /\ f \in [Epochs -> Nat] /\ x \in SUBSET Accounts /\ EpochIds(s, f) \subseteq Epochs
      BY <1>1, <1>2
    <2> HIDE DEF ids, n, epochs, s, f
    <2> QED  BY <1>3, <2>1, LoopIsSound DEF sum
  <1> HIDE DEF sum, ids, n, epochs
  <1>6. out.epochSequence \in Epochs
    BY <1>2, <1>4
  <1>7. ASSUME ~p.raced
        PROVE  /\ out.epochSequence \in Nat /\ out.total + out.carry = p.totalFunded
               /\ out.cumulative = Owed(out.epochSequence, x).paid
               /\ out.carry = Owed(out.epochSequence, x).left
               /\ EpochEnd(out.epochSequence) <= Window(p)
    <2>1. /\ q \in Nat /\ Window(p) = EpochEnd(q) /\ EpochEnd(q) - 1 <= Len(blocks)
          /\ s = ListBalanceEvents(EpochEnd(q)) /\ f = ListFundingByEpoch(EpochEnd(q))
          /\ p.totalFunded = GetTotalFundedThrough(EpochEnd(q))
      BY <1>7 DEF SettledOK, EventsOK, FundingOK, TotalOK, Window
    <2>2. ChainOK /\ Solvent /\ Len(blocks) <= MaxBlock
      BY DEF ChainInv
    <2> HIDE DEF q, s, f
    <2>3. Matching(sum, q, x) /\ (n > 0 => ids[n] \in 0 .. q /\ Matching(sum, ids[n], x))
      BY <1>1, <1>3, <2>1, <2>2, LoopMatches DEF sum
    <2> DEFINE e == ids[n]
    <2>4. e \in 0 .. q /\ Matching(sum, e, x) /\ out.epochSequence = e
      BY <1>4, <2>3
    <2> HIDE DEF e
    <2>5. e \in Nat /\ e <= q
      BY <2>1, <2>4
    <2>6. EpochEnd(e) <= EpochEnd(q)
      BY <2>1, <2>5, EpochOrder
    <2>7. sum.allocated + sum.carry = p.totalFunded
      BY <2>1, <2>3 DEF Matching, FundedTo, GetTotalFundedThrough
    <2>8. sum.cumulative = Owed(e, x).paid /\ sum.carry = Owed(e, x).left
      BY <2>4 DEF Matching
    <2> QED  BY <1>4, <2>1, <2>4, <2>5, <2>6, <2>7, <2>8
  <1> QED  BY <1>4, <1>5, <1>6, <1>7

(* The indexer's tables are as they were.                                  *)
LEMMA TablesStay ==
    ASSUME FinalizerInv, UNCHANGED tables
    PROVE  ChainInv' /\ OneForAnEpoch' /\ \A d \in datasets' : DatasetOK(d)'
  <1>1. blocks' = blocks /\ finalized' = finalized /\ excluded' = excluded /\ datasets' = datasets
    BY DEF tables
  <1>2. ChainInv'
    <2>1. ASSUME NEW a \in Accounts, NEW t \in Nat PROVE BalanceAt(a, t)' \in Nat
      <3>1. BalanceAt(a, t)' = BalanceAt(a, t)
        BY <1>1 DEF BalanceAt, Before, MovesOf
      <3> QED  BY <3>1 DEF FinalizerInv, ChainInv, Solvent
    <2> QED  BY <1>1, <2>1 DEF FinalizerInv, ChainInv, ChainOK, Solvent
  <1>3. ASSUME NEW d \in datasets PROVE DatasetOK(d)'
    <2>1. PICK m \in Nat : m = Len(blocks)
      BY DEF FinalizerInv, ChainInv, ChainOK
    <2>2. Agree(m)
      BY <1>1, <2>1 DEF Agree
    <2>3. DatasetOK(d) /\ ChainInv
      BY DEF FinalizerInv
    <2>4. d.throughBlock <= m
      BY <2>1, <2>3 DEF DatasetOK, ChainInv, ChainOK
    <2> QED  BY <1>2, <2>2, <2>3, <2>4, DatasetStays
  <1> QED  BY <1>1, <1>2, <1>3 DEF FinalizerInv, OneForAnEpoch

(* What a pass has read so far says the same of the same chain.            *)
LEMMA PassReads ==
    ASSUME ChainInv, ChainInv', blocks' = blocks, NEW p, NEW r, SettledOK(p), p.raced \in BOOLEAN,
           r.settled = p.settled, r.raced = p.raced
    PROVE  /\ SettledOK(r)' /\ Window(r) = Window(p) /\ Window(p) \in Nat \ {0}
           /\ ~r.raced => /\ ListBalanceEvents(Window(r))' = ListBalanceEvents(Window(p))
                          /\ ListFundingByEpoch(Window(r))' = ListFundingByEpoch(Window(p))
                          /\ GetTotalFundedThrough(Window(r))' = GetTotalFundedThrough(Window(p))
           /\ r.events = p.events /\ EventsOK(p) => EventsOK(r)'
           /\ r.funding = p.funding /\ FundingOK(p) => FundingOK(r)'
           /\ r.totalFunded = p.totalFunded /\ TotalOK(p) => TotalOK(r)'
  <1>1. PICK m \in Nat : m = Len(blocks)
    BY DEF ChainInv, ChainOK
  <1>2. Agree(m) /\ ChainOK /\ ChainOK'
    BY <1>1 DEF Agree, ChainInv
  <1>3. Window(r) = Window(p) /\ FinalizableThrough(p.settled) \in Nat
    BY DEF Window, SettledOK
  <1>4. Window(p) \in Nat \ {0}
    <2>1. EpochStart(FinalizableThrough(p.settled)) \in Nat /\ Window(p) \in Nat
          /\ EpochStart(FinalizableThrough(p.settled)) < Window(p)
      BY <1>3, EpochSpan DEF Window
    <2> QED  BY <2>1
  <1>5. SettledOK(r)'
    BY <1>3 DEF SettledOK
  <1>6. ~r.raced => /\ ListBalanceEvents(Window(p))' = ListBalanceEvents(Window(p))
                    /\ ListFundingByEpoch(Window(p))' = ListFundingByEpoch(Window(p))
                    /\ GetTotalFundedThrough(Window(p))' = GetTotalFundedThrough(Window(p))
    <2>1. ~r.raced => Window(p) <= m + 1
      BY <1>1, <1>4 DEF SettledOK
    <2> QED  BY <1>2, <1>4, <2>1, ReadsStay
  <1>7. r.events = p.events /\ EventsOK(p) => EventsOK(r)'
    BY <1>3, <1>6 DEF EventsOK, Orderly
  <1>8. r.funding = p.funding /\ FundingOK(p) => FundingOK(r)'
    BY <1>3, <1>6 DEF FundingOK
  <1>9. r.totalFunded = p.totalFunded /\ TotalOK(p) => TotalOK(r)'
    BY <1>3, <1>6 DEF TotalOK
  <1> QED  BY <1>3, <1>4, <1>5, <1>6, <1>7, <1>8, <1>9

(* A pass that is over is forgotten.                                       *)
LEMMA ForgottenKeeps ==
    ASSUME FinalizerInv, UNCHANGED tables, pc' = "idle", pass' = NoPass PROVE FinalizerInv'
  <1>1. ChainInv' /\ OneForAnEpoch' /\ \A d \in datasets' : DatasetOK(d)'
    BY TablesStay
  <1>2. PassShape(NoPass)
    BY DEF PassShape, NoPass
  <1>3. \A r \in {pass'} : PassOK(r)'
    BY <1>2 DEF PassOK, PassShape
  <1> QED  BY <1>1, <1>3 DEF FinalizerInv, Labels

(* A pass begins with a height at which an epoch is closed.                *)
LEMMA ReadSettledKeeps ==
    ASSUME FinalizerInv, ReadSettled PROVE FinalizerInv'
  <1>1. /\ UNCHANGED tables /\ pc' = "latest" /\ pass' = [NoPass EXCEPT !.settled = finalized]
        /\ finalized > 0 /\ FinalizableThrough(finalized) >= 0
    BY DEF ReadSettled, Goto, HasWork
  <1>2. ChainInv' /\ OneForAnEpoch' /\ (\A d \in datasets' : DatasetOK(d)') /\ ChainInv
    BY <1>1, TablesStay DEF FinalizerInv
  <1>3. PICK h : h = finalized
    OBVIOUS
  <1>4. h \in Nat /\ h > 0 /\ h <= Len(blocks) /\ Len(blocks) <= MaxBlock /\ Len(blocks) \in Nat /\ MaxBlock \in Nat
    BY <1>1, <1>2, <1>3, FinalizerAssumption DEF ChainInv, ChainOK
  <1> DEFINE cutoff == h - SettlementMargin
             q == FinalizableThrough(h)
  <1>5. cutoff \in Nat /\ cutoff <= h /\ q = EpochIdAt(cutoff) - 1 /\ q >= 0
    <2>1. SettlementMargin \in Nat
      BY FinalizerAssumption
    <2>2. q = (IF cutoff <= 0 THEN -1 ELSE EpochIdAt(cutoff) - 1) /\ q >= 0
      BY <1>1, <1>3 DEF FinalizableThrough
    <2>3. ~(cutoff <= 0)
      <3> HIDE DEF cutoff, q
      <3> QED  BY <2>2
    <2> QED  BY <1>4, <2>1, <2>2, <2>3
  <1> HIDE DEF cutoff, q
  <1>6. q \in Nat /\ EpochEnd(q) \in Nat /\ EpochEnd(q) <= h
    <2> DEFINE k == EpochIdAt(cutoff)
    <2>1. k \in Nat
      BY <1>5, EpochBounds
    <2>2. q \in Nat /\ k - 1 = q
      BY <1>5, <2>1
    <2>3. EpochStart(k) <= cutoff /\ EpochStart(k) \in Nat
      BY <1>5, <2>1, EpochBounds
    <2> HIDE DEF k
    <2>4. EpochStart(k) = EpochEnd(k - 1)
      BY <2>1, EpochOrder
    <2> QED  BY <1>4, <1>5, <2>2, <2>3, <2>4
  <1>7. PICK r : r = [NoPass EXCEPT !.settled = h]
    OBVIOUS
  <1>8. PassShape(r) /\ r.settled = h /\ ~r.raced /\ r = pass'
    BY <1>1, <1>3, <1>7 DEF PassShape, NoPass
  <1>9. blocks' = blocks
    BY <1>1 DEF tables
  <1>10. SettledOK(r)'
    <2>1. Window(r) = EpochEnd(q) /\ FinalizableThrough(r.settled) = q
      BY <1>8 DEF Window, q
    <2>2. r.settled \in 1 .. MaxBlock /\ EpochEnd(q) - 1 <= Len(blocks)
      BY <1>4, <1>6, <1>8
    <2> QED  BY <1>6, <1>8, <1>9, <2>1, <2>2 DEF SettledOK
  <1>11. \A d \in {pass'} : PassOK(d)'
    BY <1>1, <1>8, <1>10 DEF PassOK, PassShape
  <1> QED  BY <1>1, <1>2, <1>11 DEF FinalizerInv, Labels

(* Which dataset is the latest does not matter.                            *)
LEMMA ReadLatestKeeps ==
    ASSUME FinalizerInv, ReadLatest PROVE FinalizerInv'
  <1>1. CASE Skip
    BY <1>1, ForgottenKeeps DEF Skip, Goto
  <1>2. CASE Goto("events") /\ pass' = [pass EXCEPT !.latest = LatestSequence]
    <2>1. UNCHANGED tables /\ pc' = "events" /\ blocks' = blocks /\ pc = "latest"
      BY <1>2 DEF Goto, ReadLatest, At, tables
    <2>2. ChainInv' /\ OneForAnEpoch' /\ (\A d \in datasets' : DatasetOK(d)') /\ ChainInv
      BY <2>1, TablesStay DEF FinalizerInv
    <2>3. PICK p, r : p = pass /\ r = pass'
      OBVIOUS
    <2>4. PassShape(p) /\ SettledOK(p) /\ p.raced \in BOOLEAN
      BY <2>1, <2>3 DEF FinalizerInv, PassOK, PassShape
    <2>5. PassShape(r) /\ r.settled = p.settled /\ r.raced = p.raced
      BY <1>2, <2>3, <2>4 DEF PassShape
    <2>6. SettledOK(r)'
      BY <2>1, <2>2, <2>4, <2>5, PassReads
    <2>7. \A d \in {pass'} : PassOK(d)'
      BY <2>1, <2>3, <2>5, <2>6 DEF PassOK, PassShape
    <2> QED  BY <2>1, <2>2, <2>7 DEF FinalizerInv, Labels
  <1> QED  BY <1>1, <1>2 DEF ReadLatest

(* The balance changes read before the cut-off come in their order.        *)
LEMMA ReadEventsKeeps ==
    ASSUME FinalizerInv, ReadEvents PROVE FinalizerInv'
  <1>1. PICK p, r : p = pass /\ r = pass'
    OBVIOUS
  <1>2. /\ UNCHANGED tables /\ blocks' = blocks /\ pc = "events" /\ pc' = "funding" /\ ToTs = Window(p)
        /\ r = [p EXCEPT !.events = ListBalanceEvents(Window(p))]
    BY <1>1 DEF ReadEvents, Goto, At, tables, EventsFromZero, ToTs, Window
  <1>3. ChainInv' /\ OneForAnEpoch' /\ (\A d \in datasets' : DatasetOK(d)') /\ ChainInv
    BY <1>2, TablesStay DEF FinalizerInv
  <1>4. PassShape(p) /\ SettledOK(p) /\ p.raced \in BOOLEAN
    BY <1>1, <1>2 DEF FinalizerInv, PassOK, PassShape
  <1>5. /\ PassShape(r) /\ r.settled = p.settled /\ r.raced = p.raced
        /\ r.events = ListBalanceEvents(Window(p))
    BY <1>2, <1>4 DEF PassShape
  <1>6. /\ SettledOK(r)' /\ Window(r) = Window(p) /\ Window(p) \in Nat \ {0}
        /\ ~r.raced => ListBalanceEvents(Window(r))' = ListBalanceEvents(Window(p))
    BY <1>2, <1>3, <1>4, <1>5, PassReads
  <1>7. EventsOK(r)'
    <2>1. ChainOK /\ Len(blocks) <= MaxBlock
      BY <1>3 DEF ChainInv
    <2>2. Orderly(r.events)
      BY <1>5, <1>6, <2>1, ReadIsOrderly
    <2> QED  BY <1>5, <1>6, <2>2 DEF EventsOK, Orderly
  <1>8. \A d \in {pass'} : PassOK(d)'
    BY <1>1, <1>2, <1>5, <1>6, <1>7 DEF PassOK, PassShape
  <1> QED  BY <1>2, <1>3, <1>8 DEF FinalizerInv, Labels

(* An epoch's contributions are a natural number.                          *)
LEMMA ReadFundingKeeps ==
    ASSUME FinalizerInv, ReadFunding PROVE FinalizerInv'
  <1>1. PICK p, r : p = pass /\ r = pass'
    OBVIOUS
  <1>2. /\ UNCHANGED tables /\ blocks' = blocks /\ pc = "funding" /\ pc' = "total" /\ ToTs = Window(p)
        /\ r = [p EXCEPT !.funding = ListFundingByEpoch(Window(p))]
    BY <1>1 DEF ReadFunding, Goto, At, tables, ToTs, Window
  <1>3. ChainInv' /\ OneForAnEpoch' /\ (\A d \in datasets' : DatasetOK(d)') /\ ChainInv
    BY <1>2, TablesStay DEF FinalizerInv
  <1>4. PassShape(p) /\ SettledOK(p) /\ p.raced \in BOOLEAN /\ EventsOK(p)
    BY <1>1, <1>2 DEF FinalizerInv, PassOK, PassShape
  <1>5. /\ PassShape(r) /\ r.settled = p.settled /\ r.raced = p.raced /\ r.events = p.events
        /\ r.funding = ListFundingByEpoch(Window(p))
    BY <1>2, <1>4 DEF PassShape
  <1>6. /\ SettledOK(r)' /\ EventsOK(r)' /\ Window(r) = Window(p) /\ Window(p) \in Nat \ {0}
        /\ ~r.raced => ListFundingByEpoch(Window(r))' = ListFundingByEpoch(Window(p))
    BY <1>2, <1>3, <1>4, <1>5, PassReads
  <1>7. FundingOK(r)'
    <2>1. ChainOK /\ Len(blocks) \in Nat
      BY <1>3 DEF ChainInv, ChainOK
    <2>2. Before(Window(p)) \subseteq 1 .. Len(blocks)
      BY <1>6, <2>1 DEF Before
    <2>3. \A e \in Epochs : Funding({n \in Before(Window(p)) : EpochIdAt(n) = e}) \in Nat
      BY <2>1, <2>2, FundingAdds
    <2>4. r.funding \in [Epochs -> Nat]
      BY <1>5, <2>3 DEF ListFundingByEpoch
    <2> QED  BY <1>5, <1>6, <2>4 DEF FundingOK
  <1>8. \A d \in {pass'} : PassOK(d)'
    BY <1>1, <1>2, <1>5, <1>6, <1>7 DEF PassOK, PassShape
  <1> QED  BY <1>2, <1>3, <1>8 DEF FinalizerInv, Labels

(* The total is that of the same window.                                   *)
LEMMA ReadTotalKeeps ==
    ASSUME FinalizerInv, ReadTotal PROVE FinalizerInv'
  <1>1. PICK p, r : p = pass /\ r = pass'
    OBVIOUS
  <1>2. /\ UNCHANGED tables /\ blocks' = blocks /\ pc = "total" /\ pc' = "exclusions" /\ ToTs = Window(p)
        /\ r = [p EXCEPT !.totalFunded = GetTotalFundedThrough(Window(p))]
    BY <1>1 DEF ReadTotal, Goto, At, tables, ToTs, Window
  <1>3. ChainInv' /\ OneForAnEpoch' /\ (\A d \in datasets' : DatasetOK(d)') /\ ChainInv
    BY <1>2, TablesStay DEF FinalizerInv
  <1>4. PassShape(p) /\ SettledOK(p) /\ p.raced \in BOOLEAN /\ EventsOK(p) /\ FundingOK(p)
    BY <1>1, <1>2 DEF FinalizerInv, PassOK, PassShape
  <1>5. /\ PassShape(r) /\ r.settled = p.settled /\ r.raced = p.raced /\ r.events = p.events
        /\ r.funding = p.funding /\ r.totalFunded = GetTotalFundedThrough(Window(p))
    BY <1>2, <1>4 DEF PassShape
  <1>6. /\ SettledOK(r)' /\ EventsOK(r)' /\ FundingOK(r)' /\ Window(r) = Window(p)
        /\ ~r.raced => GetTotalFundedThrough(Window(r))' = GetTotalFundedThrough(Window(p))
    BY <1>2, <1>3, <1>4, <1>5, PassReads
  <1>7. TotalOK(r)'
    BY <1>5, <1>6 DEF TotalOK
  <1>8. \A d \in {pass'} : PassOK(d)'
    BY <1>1, <1>2, <1>5, <1>6, <1>7 DEF PassOK, PassShape
  <1> QED  BY <1>2, <1>3, <1>8 DEF FinalizerInv, Labels

(* What is computed from an undisturbed reading is what is owed.           *)
LEMMA ReadExclusionsKeeps ==
    ASSUME FinalizerInv, ReadExclusions PROVE FinalizerInv'
  <1>1. PICK p, r, x : p = pass /\ r = pass' /\ x = excluded
    OBVIOUS
  <1>2. PICK out : out = ComputeFinalization(p.events, p.funding, x, p.totalFunded, p.latest)
    OBVIOUS
  <1>3. pc = "exclusions" /\ IF out = NotDistributable THEN Skip
                             ELSE Goto("persist") /\ pass' = [pass EXCEPT !.output = out, !.excluded = excluded]
    BY <1>1, <1>2 DEF ReadExclusions, At
  <1>4. CASE out = NotDistributable
    BY <1>3, <1>4, ForgottenKeeps DEF Skip, Goto
  <1>5. CASE out # NotDistributable
    <2>1. /\ UNCHANGED tables /\ blocks' = blocks /\ pc' = "persist"
          /\ r = [p EXCEPT !.output = out, !.excluded = x]
      BY <1>1, <1>3, <1>5 DEF Goto, tables
    <2>2. ChainInv' /\ OneForAnEpoch' /\ (\A d \in datasets' : DatasetOK(d)') /\ ChainInv
      BY <2>1, TablesStay DEF FinalizerInv
    <2>3. PassShape(p) /\ SettledOK(p) /\ p.raced \in BOOLEAN /\ EventsOK(p) /\ FundingOK(p) /\ TotalOK(p)
      BY <1>1, <1>3 DEF FinalizerInv, PassOK, PassShape
    <2>4. /\ PassShape(r) /\ r.settled = p.settled /\ r.raced = p.raced /\ r.events = p.events
          /\ r.funding = p.funding /\ r.totalFunded = p.totalFunded /\ r.output = out /\ r.excluded = x
      BY <2>1, <2>3 DEF PassShape
    <2>5. SettledOK(r)' /\ EventsOK(r)' /\ FundingOK(r)' /\ TotalOK(r)' /\ Window(r) = Window(p)
      BY <2>1, <2>2, <2>3, <2>4, PassReads
    <2>6. x \in SUBSET {Pool}
      BY <1>1, <2>2 DEF ChainInv
    <2>7. /\ out.cumulative \in [Accounts -> Nat] /\ out.total = Total(out.cumulative)
          /\ ~p.raced => /\ out.epochSequence \in Nat /\ out.total + out.carry = p.totalFunded
                         /\ out.cumulative = Owed(out.epochSequence, x).paid
                         /\ out.carry = Owed(out.epochSequence, x).left
                         /\ EpochEnd(out.epochSequence) <= Window(p)
      BY <1>2, <1>5, <2>2, <2>3, <2>6, OutputSound
    <2>8. ASSUME ~r.raced PROVE Matches(DatasetOf(r))' /\ EpochEnd(r.output.epochSequence) <= Window(r)
      <3> DEFINE d == DatasetOf(r)
      <3>1. /\ d.epochSequence = out.epochSequence /\ d.total = out.total /\ d.carry = out.carry
            /\ d.totalFunded = p.totalFunded /\ d.cumulative = out.cumulative /\ d.excluded = x
        BY <2>4 DEF DatasetOf
      <3> HIDE DEF d
      <3>2. Matches(d) /\ EpochEnd(d.epochSequence) <= Window(p)
        BY <2>4, <2>7, <2>8, <3>1 DEF Matches
      <3>3. PICK m \in Nat : m = Len(blocks)
        BY <2>2 DEF ChainInv, ChainOK
      <3>4. Agree(m)
        BY <2>1, <3>3 DEF Agree
      <3>5. EpochEnd(d.epochSequence) - 1 <= m
        <4>1. EpochEnd(d.epochSequence) \in Nat
          BY <3>2, EpochSpan DEF Matches
        <4>2. Window(p) - 1 <= m /\ Window(p) \in Nat
          BY <2>3, <2>4, <2>8, <3>3, EpochSpan DEF SettledOK, Window
        <4> QED  BY <3>2, <4>1, <4>2
      <3>6. Matches(d)'
        BY <2>2, <3>2, <3>4, <3>5, MatchesStays
      <3> QED  BY <2>4, <2>5, <3>1, <3>2, <3>6 DEF d
    <2>9. OutputOK(r)'
      BY <2>4, <2>6, <2>7, <2>8 DEF OutputOK
    <2>10. \A d \in {pass'} : PassOK(d)'
      BY <1>1, <2>1, <2>4, <2>5, <2>9 DEF PassOK, PassShape
    <2> QED  BY <2>1, <2>2, <2>10 DEF FinalizerInv, Labels
  <1> QED  BY <1>4, <1>5

(* What a pass computes is for a later epoch than every dataset stored, so *)
(* that no insert meets a dataset of its own epoch.                        *)
NewestInv ==
    /\ \A d \in datasets : d.epochSequence \in Epochs
    /\ pc \notin {"idle", "latest"} => \A d \in datasets : d.epochSequence <= pass.latest
    /\ pc = "persist" => /\ pass.output.epochSequence \in Epochs
                         /\ ~(pass.output.epochSequence <= pass.latest)

(* It holds at first.                                                      *)
LEMMA NewestInit == Init => NewestInv
  BY DEF Init, NewestInv

(* There is a latest among the epochs that have a dataset.                 *)
LEMMA LatestIsMax ==
    ASSUME NEW d \in datasets, \A other \in datasets : other.epochSequence \in Epochs
    PROVE  d.epochSequence <= LatestSequence
  <1> DEFINE S == {other.epochSequence : other \in datasets}
             n == EpochIdAt(MaxBlock)
             T == {e + 1 : e \in S}
  <1>1. n \in Nat
    <2>1. MaxBlock \in Nat
      BY FinalizerAssumption
    <2> QED  BY <2>1, EpochBounds
  <1>2. S \subseteq 0 .. n /\ d.epochSequence \in S
    BY DEF Epochs
  <1> HIDE DEF S, n
  <1>3. T \in SUBSET (1 .. n + 1) /\ T # {} /\ n + 1 \in Nat
    <2>1. ASSUME NEW e \in S PROVE e + 1 \in 1 .. n + 1
      <3>1. e \in 0 .. n
        BY <1>2
      <3> QED  BY <1>1, <3>1
    <2>2. d.epochSequence + 1 \in T
      BY <1>2
    <2> QED  BY <1>1, <2>1, <2>2
  <1>4. PICK m : m \in T /\ \A y \in T : m >= y
    BY <1>3, W!MaxOfIndices
  <1>5. PICK e \in S : m = e + 1 /\ \A y \in S : m >= y + 1
    BY <1>4
  <1> HIDE DEF T
  <1>6. \A y \in S : y \in Nat /\ e \in Nat /\ e >= y
    <2> SUFFICES ASSUME NEW y \in S PROVE y \in Nat /\ e \in Nat /\ e >= y
      OBVIOUS
    <2>1. y \in Nat /\ e \in Nat
      BY <1>1, <1>2, <1>5
    <2>2. m >= y + 1 /\ m = e + 1
      BY <1>5
    <2> QED  BY <2>1, <2>2
  <1>7. Max(S) \in S /\ \A y \in S : Max(S) >= y
    BY <1>6 DEF Max
  <1>8. LatestSequence = Max(S)
    BY DEF LatestSequence, S
  <1>9. Max(S) \in Nat /\ d.epochSequence \in Nat /\ Max(S) >= d.epochSequence
    BY <1>2, <1>6, <1>7
  <1> QED  BY <1>8, <1>9

(* Every step keeps it.                                                    *)
LEMMA NewestNext == FinalizerInv /\ NewestInv /\ [Next]_vars => NewestInv'
  <1> SUFFICES ASSUME FinalizerInv, NewestInv, [Next]_vars PROVE NewestInv'
    OBVIOUS
  <1>0. PassShape(pass)
    BY DEF FinalizerInv, PassOK
  <1>1. ASSUME datasets' \subseteq datasets, pc' \in {"idle", "latest"} PROVE NewestInv'
    BY <1>1 DEF NewestInv
  <1>2. ASSUME datasets' \subseteq datasets, pc' \in {"idle", "latest"} \/ pc \notin {"idle", "latest"},
               pass'.latest = pass.latest,
               pc' = "persist" => pc = "persist" /\ pass'.output = pass.output
        PROVE  NewestInv'
    BY <1>2 DEF NewestInv
  <1>3. CASE IndexBlock
    BY <1>1, <1>2, <1>3 DEF IndexBlock, process
  <1>4. ASSUME NEW n \in RewindsTo, Rewind(n) PROVE NewestInv'
    <2>1. pass'.latest = pass.latest /\ pass'.output = pass.output
      BY <1>0, <1>4 DEF Rewind, PassShape
    <2> QED  BY <1>1, <1>2, <1>4, <2>1 DEF Rewind, DatasetsAfter
  <1>5. CASE ReadSettled
    BY <1>1, <1>5 DEF ReadSettled, Goto, tables
  <1>6. CASE ReadLatest
    <2>1. CASE Skip
      BY <1>1, <2>1 DEF Skip, Goto, tables
    <2>2. CASE Goto("events") /\ pass' = [pass EXCEPT !.latest = LatestSequence]
      <3>1. pass'.latest = LatestSequence /\ datasets' = datasets /\ pc' = "events"
        BY <1>0, <2>2 DEF PassShape, Goto, tables
      <3>2. \A d \in datasets : d.epochSequence <= LatestSequence
        BY LatestIsMax DEF NewestInv
      <3> QED  BY <3>1, <3>2 DEF NewestInv
    <2> QED  BY <1>6, <2>1, <2>2 DEF ReadLatest
  <1>7. CASE ReadEvents
    <2>1. pass'.latest = pass.latest
      BY <1>0, <1>7 DEF ReadEvents, PassShape
    <2> QED  BY <1>2, <1>7, <2>1 DEF ReadEvents, Goto, At, tables
  <1>8. CASE ReadFunding
    <2>1. pass'.latest = pass.latest
      BY <1>0, <1>8 DEF ReadFunding, PassShape
    <2> QED  BY <1>2, <1>8, <2>1 DEF ReadFunding, Goto, At, tables
  <1>9. CASE ReadTotal
    <2>1. pass'.latest = pass.latest
      BY <1>0, <1>9 DEF ReadTotal, PassShape
    <2> QED  BY <1>2, <1>9, <2>1 DEF ReadTotal, Goto, At, tables
  <1>10. CASE ReadExclusions
    <2>1. PICK out : out = ComputeFinalization(pass.events, pass.funding, excluded, pass.totalFunded, pass.latest)
      OBVIOUS
    <2>2. CASE Skip
      BY <1>1, <2>2 DEF Skip, Goto, tables
    <2>3. CASE /\ out # NotDistributable /\ Goto("persist")
               /\ pass' = [pass EXCEPT !.output = out, !.excluded = excluded]
      <3>1. /\ pass'.output = out /\ pass'.latest = pass.latest
            /\ datasets' = datasets /\ pc' = "persist" /\ pc = "exclusions"
        BY <1>0, <1>10, <2>3 DEF PassShape, ReadExclusions, Goto, At, tables
      <3>2. /\ ChainInv /\ excluded \in SUBSET {Pool} /\ pass.raced \in BOOLEAN
            /\ SettledOK(pass) /\ EventsOK(pass) /\ FundingOK(pass) /\ TotalOK(pass)
        BY <1>0, <3>1 DEF FinalizerInv, PassOK, ChainInv, PassShape
      <3>3. out.epochSequence \in Epochs /\ ~(out.epochSequence <= pass.latest)
        BY <2>1, <2>3, <3>2, OutputSound
      <3> QED  BY <3>1, <3>3 DEF NewestInv
    <2> QED  BY <1>10, <2>1, <2>2, <2>3 DEF ReadExclusions
  <1>11. CASE Persist
    <2>1. pc = "persist" /\ pc' = "idle" /\ DatasetOf(pass).epochSequence = pass.output.epochSequence
      BY <1>11 DEF Persist, At, DatasetOf
    <2>2. \A old \in datasets : old.epochSequence # DatasetOf(pass).epochSequence
      BY <2>1 DEF NewestInv
    <2>3. RecordDataset(DatasetOf(pass)) = datasets \cup {DatasetOf(pass)}
      <3>1. {old \in datasets : old.epochSequence = DatasetOf(pass).epochSequence} = {}
        BY <2>2
      <3> QED  BY <3>1 DEF RecordDataset
    <2>4. datasets' \subseteq datasets \cup {DatasetOf(pass)}
      BY <1>11, <2>3 DEF Persist
    <2> QED  BY <2>1, <2>4 DEF NewestInv
  <1>12. CASE Fail
    BY <1>1, <1>12 DEF Fail, tables
  <1>13. CASE UNCHANGED vars
    BY <1>13 DEF vars, tables, process, NewestInv
  <1> QED  BY <1>3, <1>4, <1>5, <1>6, <1>7, <1>8, <1>9, <1>10, <1>11, <1>12, <1>13 DEF Next, Indexer, Step

(* A dataset is stored as it was computed, the first for its epoch.        *)
LEMMA PersistKeeps ==
    ASSUME FinalizerInv, NewestInv, Persist PROVE FinalizerInv'
  <1>1. PICK p, new : p = pass /\ new = DatasetOf(p)
    OBVIOUS
  <1>2. /\ pc = "persist" /\ pc' = "idle" /\ pass' = NoPass
        /\ blocks' = blocks /\ finalized' = finalized /\ excluded' = excluded
        /\ datasets' = IF Insertable(new) THEN RecordDataset(new) ELSE datasets
    BY <1>1 DEF Persist, At
  <1>3. CASE datasets' = datasets
    <2>1. UNCHANGED tables
      BY <1>2, <1>3 DEF tables
    <2> QED  BY <1>2, <2>1, ForgottenKeeps
  <1>4. CASE datasets' # datasets
    <2>0. \A old \in datasets : old.epochSequence # new.epochSequence
      <3>1. new.epochSequence = pass.output.epochSequence
        BY <1>1 DEF DatasetOf
      <3> QED  BY <1>2, <3>1 DEF NewestInv
    <2>1. Insertable(new) /\ datasets' = datasets \cup {new}
      <3>1. {old \in datasets : old.epochSequence = new.epochSequence} = {}
        BY <2>0
      <3>2. RecordDataset(new) = datasets \cup {new}
        BY <3>1 DEF RecordDataset
      <3> QED  BY <1>2, <1>4, <3>2
    <2>2. ChainInv /\ OneForAnEpoch /\ \A d \in datasets : DatasetOK(d)
      BY DEF FinalizerInv
    <2>3. ChainInv'
      <3>1. ASSUME NEW a \in Accounts, NEW t \in Nat PROVE BalanceAt(a, t)' \in Nat
        <4>1. BalanceAt(a, t)' = BalanceAt(a, t)
          BY <1>2 DEF BalanceAt, Before, MovesOf
        <4> QED  BY <2>2, <4>1 DEF ChainInv, Solvent
      <3> QED  BY <1>2, <2>2, <3>1 DEF ChainInv, ChainOK, Solvent
    <2>4. PICK m \in Nat : m = Len(blocks)
      BY <2>2 DEF ChainInv, ChainOK
    <2>5. Agree(m) /\ DOMAIN blocks = 1 .. m
      BY <1>2, <2>2, <2>4 DEF Agree, ChainInv, ChainOK
    <2>6. ASSUME NEW d \in datasets PROVE DatasetOK(d)'
      <3>1. DatasetOK(d)
        BY <2>2
      <3>2. d.throughBlock \in 1 .. m
        BY <2>5, <3>1 DEF DatasetOK
      <3>3. d.throughBlock <= m
        BY <3>2
      <3> QED  BY <2>2, <2>3, <2>5, <3>1, <3>3, DatasetStays
    <2>7. DatasetOK(new)
      <3>1. SettledOK(p) /\ OutputOK(p)
        BY <1>1, <1>2 DEF FinalizerInv, PassOK
      <3> DEFINE leaves == Leaves(p.output.cumulative)
      <3>2. /\ new.epochSequence = p.output.epochSequence /\ new.cumulative = p.output.cumulative
            /\ new.total = p.output.total /\ new.throughBlock = p.settled /\ new.excluded = p.excluded
            /\ new.raced = p.raced /\ new.root = ComputeRoot(leaves)
            /\ new.proofs = {[leaf |-> leaves[i], proof |-> ProofOf(leaves, i)] : i \in DOMAIN leaves}
        BY <1>1 DEF DatasetOf
      <3>3. new.throughBlock \in DOMAIN blocks /\ new.total <= new.totalFunded
        BY <2>1 DEF Insertable
      <3>4. ASSUME ~new.raced PROVE Matches(new) /\ EpochEnd(new.epochSequence) <= new.throughBlock
        <4>1. Matches(new) /\ EpochEnd(new.epochSequence) <= Window(p)
          BY <1>1, <3>1, <3>2, <3>4 DEF OutputOK
        <4>2. Window(p) <= new.throughBlock /\ Window(p) \in Nat /\ EpochEnd(new.epochSequence) \in Nat
          BY <3>1, <3>2, <4>1, EpochSpan DEF SettledOK, Window, Matches
        <4>3. new.throughBlock \in Nat
          BY <2>4, <2>5, <3>3
        <4> QED  BY <4>1, <4>2, <4>3
      <3>5. /\ new.cumulative \in [Accounts -> Nat] /\ new.total = Total(new.cumulative)
            /\ new.excluded \subseteq {Pool}
        BY <3>1, <3>2 DEF OutputOK
      <3>6. /\ new.root = ComputeRoot(Leaves(new.cumulative))
            /\ new.proofs = {[leaf |-> Leaves(new.cumulative)[i], proof |-> ProofOf(Leaves(new.cumulative), i)] :
                                i \in DOMAIN Leaves(new.cumulative)}
        BY <3>2
      <3> HIDE DEF leaves
      <3> QED  BY <3>3, <3>4, <3>5, <3>6 DEF DatasetOK
    <2>8. DatasetOK(new)'
      <3>1. new.throughBlock <= m
        BY <2>5, <2>7 DEF DatasetOK
      <3> QED  BY <2>2, <2>3, <2>5, <2>7, <3>1, DatasetStays
    <2>9. \A d \in datasets' : DatasetOK(d)'
      BY <2>1, <2>6, <2>8
    <2>10. OneForAnEpoch'
      BY <2>0, <2>1, <2>2 DEF OneForAnEpoch
    <2>11. \A r \in {pass'} : PassOK(r)'
      <3>1. PassShape(NoPass)
        BY DEF PassShape, NoPass
      <3> QED  BY <1>2, <3>1 DEF PassOK, PassShape
    <2> QED  BY <1>2, <2>3, <2>9, <2>10, <2>11 DEF FinalizerInv, Labels
  <1> QED  BY <1>3, <1>4

(* Every step keeps the invariant.                                         *)
LEMMA FinalizerInvNext == FinalizerInv /\ NewestInv /\ [Next]_vars => FinalizerInv'
  <1> SUFFICES ASSUME FinalizerInv, NewestInv, [Next]_vars PROVE FinalizerInv'
    OBVIOUS
  <1>1. CASE IndexBlock
    BY <1>1, IndexBlockKeeps
  <1>2. ASSUME NEW n \in RewindsTo, n < Len(blocks), Rewind(n) PROVE FinalizerInv'
    BY <1>2, RewindKeeps
  <1>3. CASE ReadSettled
    BY <1>3, ReadSettledKeeps
  <1>4. CASE ReadLatest
    BY <1>4, ReadLatestKeeps
  <1>5. CASE ReadEvents
    BY <1>5, ReadEventsKeeps
  <1>6. CASE ReadFunding
    BY <1>6, ReadFundingKeeps
  <1>7. CASE ReadTotal
    BY <1>7, ReadTotalKeeps
  <1>8. CASE ReadExclusions
    BY <1>8, ReadExclusionsKeeps
  <1>9. CASE Persist
    BY <1>9, PersistKeeps
  <1>10. CASE Fail
    BY <1>10, ForgottenKeeps DEF Fail
  <1>11. CASE UNCHANGED vars
    <2>1. UNCHANGED tables /\ pc' = pc /\ pass' = pass /\ blocks' = blocks
      BY <1>11 DEF vars, process, tables
    <2>2. ChainInv' /\ OneForAnEpoch' /\ (\A d \in datasets' : DatasetOK(d)') /\ ChainInv
      BY <2>1, TablesStay DEF FinalizerInv
    <2>3. ASSUME NEW p \in {pass} PROVE PassOK(p)'
      <3>1. PassOK(p) /\ pc \in Labels
        BY DEF FinalizerInv
      <3>2. CASE pc = "idle"
        BY <2>1, <3>1, <3>2 DEF PassOK, PassShape
      <3>3. CASE pc # "idle"
        <4>1. SettledOK(p) /\ PassShape(p) /\ p.raced \in BOOLEAN
          BY <3>1, <3>3 DEF PassOK, PassShape
        <4>2. PICK m \in Nat : m = Len(blocks)
          BY <2>2 DEF ChainInv, ChainOK
        <4>3. Agree(m)
          BY <2>1, <4>2 DEF Agree
        <4>4. ~p.raced => ~p.raced /\ Window(p) <= m + 1
          <5>1. Window(p) \in Nat
            BY <4>1, EpochSpan DEF Window, SettledOK
          <5> QED  BY <4>1, <4>2, <5>1 DEF SettledOK
        <4>5. SamePass(p, p)
          BY DEF SamePass
        <4>6. /\ SettledOK(p)' /\ (EventsOK(p) => EventsOK(p)') /\ (FundingOK(p) => FundingOK(p)')
              /\ (TotalOK(p) => TotalOK(p)') /\ (OutputOK(p) => OutputOK(p)')
          BY <2>2, <4>1, <4>3, <4>4, <4>5, ReadingStays
        <4>7. PassShape(p)'
          BY <4>1 DEF PassShape
        <4> QED  BY <2>1, <3>1, <3>3, <4>6, <4>7 DEF PassOK
      <3> QED  BY <3>2, <3>3
    <2> QED  BY <2>1, <2>2, <2>3 DEF FinalizerInv
  <1> QED  BY <1>1, <1>2, <1>3, <1>4, <1>5, <1>6, <1>7, <1>8, <1>9, <1>10, <1>11 DEF Next, Indexer, Step

(* The invariant holds in every state.                                     *)
THEOREM FinalizerInvariant == FairSpec => []FinalizerInv
  <1>1. Init => FinalizerInv /\ NewestInv
    BY FinalizerInvInit, NewestInit
  <1>2. FinalizerInv /\ NewestInv /\ [Next]_vars => (FinalizerInv /\ NewestInv)'
    BY FinalizerInvNext, NewestNext
  <1> QED  BY <1>1, <1>2, PTL DEF FairSpec

-----------------------------------------------------------------------------
(* What the datasets say *)

(* One dataset for an epoch, about a block that is there, and nothing      *)
(* remembered between two passes.                                          *)
THEOREM TypesHold == FairSpec => []TypeOK
  <1>1. FinalizerInv => TypeOK
    <2> SUFFICES ASSUME FinalizerInv PROVE TypeOK
      OBVIOUS
    <2>1. PassOK(pass)
      BY DEF FinalizerInv
    <2>2. (pc = "idle") = (pass = NoPass)
      <3>1. pc = "idle" => pass = NoPass
        BY <2>1 DEF PassOK
      <3>2. ASSUME pc # "idle" PROVE pass # NoPass
        <4>1. pass.settled \in 1 .. MaxBlock
          BY <2>1, <3>2 DEF PassOK, SettledOK
        <4>2. pass.settled # 0
          BY <4>1
        <4>3. NoPass.settled = 0
          BY DEF NoPass
        <4> QED  BY <4>2, <4>3
      <3> QED  BY <3>1, <3>2
    <2> QED  BY <2>2 DEF FinalizerInv, ChainInv, DatasetOK, OneForAnEpoch, TypeOK
  <1> QED  BY <1>1, FinalizerInvariant, PTL

(* Of every contribution in a dataset's window, what is not owed to a      *)
(* holder is carried.                                                      *)
THEOREM ContributionsAreKept == FairSpec => []NothingLost
  <1>1. FinalizerInv => NothingLost
    BY DEF FinalizerInv, DatasetOK, Matches, NothingLost
  <1> QED  BY <1>1, FinalizerInvariant, PTL

(* Exclusions that touch nobody who held anything change nothing.          *)
LEMMA OutcastsDoNotMatter ==
    ASSUME ChainInv, NEW q \in Nat, NEW x, NEW y, x \subseteq Accounts, y \subseteq Accounts, SameOutcasts(x, y, q)
    PROVE  Owed(q, x) = Owed(q, y)
  <1>0. ChainOK /\ Solvent
    BY DEF ChainInv
  <1>1. ASSUME NEW e \in 0 .. q PROVE WeightsOf(e, x) = WeightsOf(e, y)
    <2>1. \A a \in (x \ y) \cup (y \ x) : ~(HeldIn(a, e) > 0)
      BY <1>1 DEF SameOutcasts, Held
    <2>2. \A a \in Accounts : HeldIn(a, e) \in Nat
      BY <1>0, <1>1, HeldIsNatural
    <2>3. \A a \in (x \ y) \cup (y \ x) : HeldIn(a, e) = 0
      BY <2>1, <2>2
    <2> QED  BY <2>3 DEF WeightsOf
  <1> DEFINE P == {k \in Nat : Owed(k - 1, x) = Owed(k - 1, y)}
             top == q + 1
  <1>2. 0 \in P
    <2>1. 0 - 1 = -1
      OBVIOUS
    <2> QED  BY <1>0, <2>1, OwedNext
  <1>3. ASSUME NEW k \in 1 .. top, k - 1 \in P PROVE k \in P
    <2> DEFINE e == k - 1
    <2>1. e \in Nat /\ e \in 0 .. q /\ k \in Nat
      OBVIOUS
    <2>2. Owed(e - 1, x) = Owed(e - 1, y)
      BY <1>3
    <2> HIDE DEF e
    <2>3. Owed(e, x) = OwedStep(e, x, Owed(e - 1, x)) /\ Owed(e, y) = OwedStep(e, y, Owed(e - 1, y))
      BY <1>0, <2>1, OwedNext
    <2>4. OwedStep(e, x, Owed(e - 1, x)) = OwedStep(e, y, Owed(e - 1, x))
      BY <1>1, <2>1 DEF OwedStep
    <2>5. Owed(e, x) = Owed(e, y)
      BY <2>2, <2>3, <2>4
    <2> QED  BY <2>1, <2>5 DEF e
  <1> HIDE DEF P
  <1>4. top \in Nat
    OBVIOUS
  <1> HIDE DEF top
  <1>5. \A k \in 0 .. top : k \in P
    BY <1>2, <1>3, <1>4, W!CountingUp
  <1>6. top \in P /\ top - 1 = q
    BY <1>4, <1>5 DEF top
  <1> QED  BY <1>6 DEF P

(* A dataset says what its epochs came to on the chain, by its own         *)
(* exclusions and by those of its time, whenever it was computed.          *)
THEOREM DatasetsMatchTheChain == FairSpec => []DatasetMatchesChain
  <1>1. FinalizerInv => DatasetMatchesChain
    <2> SUFFICES ASSUME FinalizerInv, NEW d \in datasets, NEW outcasts \in {d.excluded, OutcastsBy(d.epochSequence)},
                        ~d.raced, SameOutcasts(d.excluded, outcasts, d.epochSequence)
                 PROVE  /\ d.cumulative = Owed(d.epochSequence, outcasts).paid
                        /\ d.carry = Owed(d.epochSequence, outcasts).left
      BY DEF DatasetMatchesChain
    <2>1. ChainInv /\ DatasetOK(d)
      BY DEF FinalizerInv
    <2>2. Matches(d) /\ d.excluded \subseteq {Pool}
      BY <2>1 DEF DatasetOK
    <2>3. d.excluded \subseteq Accounts /\ outcasts \subseteq Accounts
      BY <2>2, FinalizerAssumption DEF OutcastsBy
    <2>4. d.epochSequence \in Nat
      BY <2>2 DEF Matches
    <2>5. Owed(d.epochSequence, d.excluded) = Owed(d.epochSequence, outcasts)
      BY <2>1, <2>3, <2>4, OutcastsDoNotMatter
    <2> QED  BY <2>2, <2>5 DEF Matches
  <1> QED  BY <1>1, FinalizerInvariant, PTL

(* What is owed by an epoch is owed by every later one.                    *)
LEMMA OwedGrowsOnly ==
    ASSUME ChainInv, NEW q \in Nat, NEW r \in Nat, q <= r, NEW x
    PROVE  \A a \in Accounts : Owed(q, x).paid[a] <= Owed(r, x).paid[a]
  <1>0. ChainOK /\ Solvent
    BY DEF ChainInv
  <1> DEFINE top == r - q
             P == {k \in Nat : \A a \in Accounts : Owed(q, x).paid[a] <= Owed(q + k, x).paid[a]}
  <1>1. \A e \in Nat, a \in Accounts : /\ Owed(e, x).paid[a] \in Nat
                                       /\ Owed(e - 1, x).paid[a] <= Owed(e, x).paid[a]
    <2> SUFFICES ASSUME NEW e \in Nat, NEW a \in Accounts
                 PROVE  Owed(e, x).paid[a] \in Nat /\ Owed(e - 1, x).paid[a] <= Owed(e, x).paid[a]
      OBVIOUS
    <2>1. Owed(e, x) \in OwedType /\ Owed(e - 1, x).paid[a] <= Owed(e, x).paid[a]
      BY <1>0, OwedNext
    <2>2. Owed(e, x).paid \in [Accounts -> Nat]
      BY <2>1 DEF OwedType
    <2> QED  BY <2>1, <2>2
  <1>2. 0 \in P
    <2>1. q + 0 = q
      OBVIOUS
    <2> QED  BY <1>1, <2>1
  <1>3. ASSUME NEW k \in 1 .. top, k - 1 \in P PROVE k \in P
    <2> SUFFICES ASSUME NEW a \in Accounts PROVE Owed(q, x).paid[a] <= Owed(q + k, x).paid[a]
      OBVIOUS
    <2>1. q + (k - 1) \in Nat /\ q + k \in Nat /\ (q + k) - 1 = q + (k - 1)
      OBVIOUS
    <2>2. Owed(q, x).paid[a] <= Owed(q + (k - 1), x).paid[a]
      BY <1>3
    <2>3. Owed((q + k) - 1, x).paid[a] <= Owed(q + k, x).paid[a]
      BY <1>1, <2>1
    <2>4. Owed(q, x).paid[a] \in Nat /\ Owed(q + (k - 1), x).paid[a] \in Nat /\ Owed(q + k, x).paid[a] \in Nat
      BY <1>1, <2>1
    <2> QED  BY <2>1, <2>2, <2>3, <2>4
  <1> HIDE DEF P
  <1>4. top \in Nat /\ q + top = r
    OBVIOUS
  <1> HIDE DEF top
  <1>5. \A k \in 0 .. top : k \in P
    BY <1>2, <1>3, <1>4, W!CountingUp
  <1>6. top \in P
    BY <1>4, <1>5
  <1> QED  BY <1>4, <1>6 DEF P

(* No holder's cumulative entitlement falls from one dataset to a later    *)
(* one.                                                                    *)
THEOREM NoEntitlementFalls == FairSpec => []EntitlementsNeverFall
  <1>1. FinalizerInv => EntitlementsNeverFall
    <2> SUFFICES ASSUME FinalizerInv, NEW d \in datasets, NEW later \in datasets,
                        d.epochSequence < later.epochSequence, ~d.raced, ~later.raced,
                        SameOutcasts(d.excluded, later.excluded, later.epochSequence), NEW a \in Accounts
                 PROVE  d.cumulative[a] <= later.cumulative[a]
      BY DEF EntitlementsNeverFall
    <2>1. ChainInv /\ DatasetOK(d) /\ DatasetOK(later)
      BY DEF FinalizerInv
    <2>2. Matches(d) /\ Matches(later) /\ d.excluded \subseteq Accounts /\ later.excluded \subseteq Accounts
      BY <2>1, FinalizerAssumption DEF DatasetOK
    <2>3. /\ d.epochSequence \in Nat /\ later.epochSequence \in Nat /\ d.epochSequence <= later.epochSequence
          /\ d.cumulative = Owed(d.epochSequence, d.excluded).paid
          /\ later.cumulative = Owed(later.epochSequence, later.excluded).paid
      BY <2>2 DEF Matches
    <2>4. Owed(later.epochSequence, d.excluded) = Owed(later.epochSequence, later.excluded)
      BY <2>1, <2>2, <2>3, OutcastsDoNotMatter
    <2>5. Owed(d.epochSequence, d.excluded).paid[a] <= Owed(later.epochSequence, d.excluded).paid[a]
      BY <2>1, <2>3, OwedGrowsOnly
    <2> QED  BY <2>3, <2>4, <2>5
  <1> QED  BY <1>1, FinalizerInvariant, PTL

-----------------------------------------------------------------------------
(* The tree *)

Layer(l) == Len(l) \in Nat \ {0} /\ DOMAIN l = 1 .. Len(l)

(* A level above another has half its nodes, the odd one too.              *)
LEMMA NextLevelHalves ==
    ASSUME NEW l, Layer(l)
    PROVE  LET u == NextLevel(l)
           IN  /\ Layer(u) /\ Len(u) = (Len(l) + 1) \div 2
               /\ \A i \in 1 .. Len(u) :
                     u[i] = IF 2 * i <= Len(l) THEN HashPair(l[2 * i - 1], l[2 * i]) ELSE l[2 * i - 1]
  <1> DEFINE k == Len(l)
             n == (k + 1) \div 2
             v(i) == IF 2 * i <= k THEN HashPair(l[2 * i - 1], l[2 * i]) ELSE l[2 * i - 1]
             u == NextLevel(l)
             T == {v(i) : i \in 1 .. n}
  <1>1. n \in Nat /\ n # 0
    BY DEF Layer
  <1>2. u = [i \in 1 .. n |-> v(i)]
    BY DEF NextLevel
  <1> HIDE DEF n, v, u
  <1>3. u \in Seq(T) /\ Len(u) = n /\ DOMAIN u = 1 .. n
    BY <1>1, <1>2
  <1>4. \A i \in 1 .. n : u[i] = v(i)
    BY <1>2
  <1> QED  BY <1>1, <1>3, <1>4 DEF Layer, u, v, n

IsLevels(at, leaves) ==
    at = [d \in 0 .. Len(leaves) |-> IF d = 0 THEN leaves ELSE NextLevel(at[d - 1])]

(* The levels begin with the leaves, and each is above the one before.     *)
LEMMA LevelsRise ==
    ASSUME NEW T, NEW leaves \in Seq(T)
    PROVE  /\ Levels(leaves)[0] = leaves
           /\ \A d \in 1 .. Len(leaves) : Levels(leaves)[d] = NextLevel(Levels(leaves)[d - 1])
  <1> DEFINE at == Levels(leaves)
  <1>1. PICK g : L!IsRun(g, leaves, leaves)
    BY L!FoldLeftRuns
  <1>2. IsLevels(g, leaves)
    BY <1>1 DEF L!IsRun, IsLevels, Above
  <1>3. at = CHOOSE h : IsLevels(h, leaves)
    BY DEF Levels, IsLevels
  <1> HIDE DEF at
  <1>4. IsLevels(at, leaves)
    BY <1>2, <1>3
  <1>5. Len(leaves) \in Nat
    OBVIOUS
  <1>6. at[0] = leaves
    BY <1>4, <1>5 DEF IsLevels
  <1>7. ASSUME NEW d \in 1 .. Len(leaves) PROVE at[d] = NextLevel(at[d - 1])
    <2>1. d \in 0 .. Len(leaves) /\ d # 0
      BY <1>5
    <2> QED  BY <1>4, <2>1 DEF IsLevels
  <1> QED  BY <1>6, <1>7 DEF at

(* They come to a single node.                                             *)
LEMMA LevelsEnd ==
    ASSUME NEW T, NEW leaves \in Seq(T), leaves # <<>>
    PROVE  /\ \A d \in 0 .. Len(leaves) : Layer(Levels(leaves)[d])
           /\ Height(leaves) \in 0 .. Len(leaves) /\ Len(Levels(leaves)[Height(leaves)]) = 1
  <1> DEFINE at == Levels(leaves)
             n == Len(leaves)
             w(d) == Len(at[d])
             Small(d) == Layer(at[d]) /\ (w(d) = 1 \/ w(d) + d <= n)
             P == {d \in Nat : Small(d)}
             IsHeight(d) == w(d) = 1 /\ (d > 0 => w(d - 1) > 1)
  <1>1. n \in Nat /\ n > 0 /\ DOMAIN leaves = 1 .. n
    OBVIOUS
  <1>2. at[0] = leaves /\ \A d \in 1 .. n : at[d] = NextLevel(at[d - 1])
    BY LevelsRise
  <1> HIDE DEF at
  <1>3. 0 \in P
    BY <1>1, <1>2 DEF Layer
  <1> HIDE DEF n
  <1>4. ASSUME NEW d \in 1 .. n, d - 1 \in P PROVE d \in P
    <2> DEFINE k == w(d - 1)
               j == w(d)
    <2>1. Layer(at[d - 1]) /\ (k = 1 \/ k + (d - 1) <= n) /\ k \in Nat \ {0}
      BY <1>4 DEF Layer
    <2>2. Layer(at[d]) /\ j = (k + 1) \div 2
      BY <1>2, <2>1, NextLevelHalves
    <2> HIDE DEF k, j
    <2>3. j = 1 \/ j + d <= n
      <3>1. CASE k = 1
        BY <2>2, <3>1
      <3>2. CASE k # 1
        <4>1. j + 1 <= k
          BY <2>1, <2>2, <3>2
        <4>2. j \in Nat
          BY <2>1, <2>2
        <4> QED  BY <1>1, <2>1, <3>2, <4>1, <4>2
      <3> QED  BY <3>1, <3>2
    <2>4. d \in Nat
      BY <1>1
    <2>5. w(d) = 1 \/ w(d) + d <= n
      BY <2>3 DEF j
    <2> HIDE DEF w
    <2> QED  BY <2>2, <2>4, <2>5
  <1> HIDE DEF P
  <1>5. \A d \in 0 .. n : d \in P
    BY <1>1, <1>3, <1>4, W!CountingUp
  <1>6. \A d \in 0 .. n : Small(d) /\ w(d) \in Nat \ {0}
    BY <1>5 DEF P, Layer
  <1>7. \E d \in 0 .. n : IsHeight(d)
    <2> SUFFICES ASSUME \A d \in 0 .. n : ~IsHeight(d) PROVE FALSE
      OBVIOUS
    <2> DEFINE Q == {d \in Nat : w(d) > 1}
    <2> HIDE DEF w
    <2>1. 0 \in Q
      <3>1. 0 \in 0 .. n
        BY <1>1
      <3>2. w(0) # 1 /\ w(0) \in Nat \ {0}
        BY <1>6, <3>1
      <3> QED  BY <3>2
    <2>2. ASSUME NEW d \in 1 .. n, d - 1 \in Q PROVE d \in Q
      <3>1. d \in 0 .. n /\ d > 0 /\ d \in Nat
        BY <1>1
      <3>2. w(d) # 1 /\ w(d) \in Nat \ {0}
        BY <1>6, <2>2, <3>1
      <3> QED  BY <3>1, <3>2
    <2> HIDE DEF Q
    <2>3. \A d \in 0 .. n : d \in Q
      BY <1>1, <2>1, <2>2, W!CountingUp
    <2>4. n \in 0 .. n
      BY <1>1
    <2>5. w(n) > 1
      BY <2>3, <2>4 DEF Q
    <2>6. w(n) \in Nat /\ (w(n) = 1 \/ w(n) + n <= n)
      BY <1>6, <2>4
    <2> QED  BY <1>1, <2>5, <2>6
  <1>8. Height(leaves) = CHOOSE d \in 0 .. n : IsHeight(d)
    BY DEF Height, at, n
  <1>9. Height(leaves) \in 0 .. n /\ IsHeight(Height(leaves))
    BY <1>7, <1>8
  <1> QED  BY <1>6, <1>9 DEF at, n

IsPositions(p, leaves, i) ==
    p = [d \in 0 .. Len(leaves) |-> IF d = 0 THEN i ELSE (p[d - 1] + 1) \div 2]

(* Where the ancestors of a leaf stand.                                    *)
LEMMA PositionsRise ==
    ASSUME NEW T, NEW leaves \in Seq(T), NEW i \in Nat
    PROVE  /\ Positions(leaves, i)[0] = i
           /\ \A d \in 1 .. Len(leaves) : Positions(leaves, i)[d] = (Positions(leaves, i)[d - 1] + 1) \div 2
  <1> DEFINE p == Positions(leaves, i)
             n == Len(leaves)
             F == [q \in (1 .. n) \X Nat |-> (q[2] + 1) \div 2]
  <1>1. n \in Nat
    OBVIOUS
  <1>2. F \in [(1 .. n) \X Nat -> Nat] /\ \A d \in 1 .. n, v \in Nat : F[<<d, v>>] = (v + 1) \div 2
    OBVIOUS
  <1> HIDE DEF F, n
  <1>3. PICK g : W!IsStepped(g, Nat, n, i, F)
    BY <1>1, <1>2, W!StepsExist
  <1>4. g \in [0 .. n -> Nat] /\ g[0] = i /\ \A d \in 1 .. n : g[d] = F[<<d, g[d - 1]>>]
    BY <1>3 DEF W!IsStepped
  <1>5. ASSUME NEW d \in 0 .. n PROVE g[d] = IF d = 0 THEN i ELSE (g[d - 1] + 1) \div 2
    <2>1. CASE d = 0
      BY <1>4, <2>1
    <2>2. CASE d # 0
      <3>1. d \in 1 .. n /\ d - 1 \in 0 .. n
        BY <1>1, <2>2
      <3>2. g[d - 1] \in Nat
        BY <1>4, <3>1
      <3> QED  BY <1>2, <1>4, <2>2, <3>1, <3>2
    <2> QED  BY <2>1, <2>2
  <1>6. g = [d \in 0 .. n |-> g[d]]
    BY <1>4
  <1>7. IsPositions(g, leaves, i)
    BY <1>5, <1>6 DEF IsPositions, n
  <1>8. p = CHOOSE h : IsPositions(h, leaves, i)
    BY DEF Positions, IsPositions
  <1> HIDE DEF p
  <1>9. IsPositions(p, leaves, i)
    BY <1>7, <1>8
  <1>10. p[0] = i
    BY <1>1, <1>9 DEF IsPositions, n
  <1>11. ASSUME NEW d \in 1 .. n PROVE p[d] = (p[d - 1] + 1) \div 2
    <2>1. d \in 0 .. n /\ d # 0
      BY <1>1
    <2> QED  BY <1>9, <2>1 DEF IsPositions, n
  <1> QED  BY <1>10, <1>11 DEF p, n

SiblingOf(leaves, i, d) == Sibling(Positions(leaves, i)[d])
Raised(leaves, i, d, proof) ==
    IF SiblingOf(leaves, i, d) <= Len(Levels(leaves)[d])
    THEN Append(proof, Levels(leaves)[d][SiblingOf(leaves, i, d)]) ELSE proof
IsClimb(c, leaves, i) ==
    c = [d \in 0 .. Height(leaves) |-> IF d = 0 THEN <<>> ELSE Raised(leaves, i, d - 1, c[d - 1])]

(* What may be in a proof.                                                 *)
NodesOf(leaves) == {Levels(leaves)[d][j] : d \in 0 .. Len(leaves), j \in Int}

(* A proof gains a sibling with every level at which there is one.         *)
LEMMA ClimbRises ==
    ASSUME NEW leaves, Height(leaves) \in Nat, Height(leaves) <= Len(leaves), Len(leaves) \in Nat,
           NEW i, \A d \in 0 .. Height(leaves) : SiblingOf(leaves, i, d) \in Int
    PROVE  /\ Climb(leaves, i) \in [0 .. Height(leaves) -> Seq(NodesOf(leaves))]
           /\ Climb(leaves, i)[0] = <<>>
           /\ \A d \in 1 .. Height(leaves) : Climb(leaves, i)[d] = Raised(leaves, i, d - 1, Climb(leaves, i)[d - 1])
  <1> DEFINE h == Height(leaves)
             T == Seq(NodesOf(leaves))
             none == <<>>
             F == [q \in (1 .. h) \X T |-> Raised(leaves, i, q[1] - 1, q[2])]
             c == Climb(leaves, i)
  <1>1. h \in Nat /\ none \in T
    OBVIOUS
  <1>2. ASSUME NEW d \in 1 .. h, NEW v \in T PROVE Raised(leaves, i, d - 1, v) \in T
    <2> DEFINE node == Levels(leaves)[d - 1][SiblingOf(leaves, i, d - 1)]
    <2>1. d - 1 \in 0 .. Len(leaves) /\ SiblingOf(leaves, i, d - 1) \in Int
      BY <1>1
    <2>2. node \in NodesOf(leaves)
      BY <2>1 DEF NodesOf
    <2> HIDE DEF node
    <2>3. Append(v, node) \in T
      BY <2>2
    <2>4. Raised(leaves, i, d - 1, v) = Append(v, node) \/ Raised(leaves, i, d - 1, v) = v
      BY DEF Raised, node
    <2> QED  BY <2>3, <2>4
  <1> HIDE DEF T, h, none
  <1>3. /\ F \in [(1 .. h) \X T -> T]
        /\ \A d \in 1 .. h, v \in T : F[<<d, v>>] = Raised(leaves, i, d - 1, v)
    BY <1>2
  <1> HIDE DEF F
  <1>4. PICK g : W!IsStepped(g, T, h, none, F)
    BY <1>1, <1>3, W!StepsExist
  <1>5. g \in [0 .. h -> T] /\ g[0] = none /\ \A d \in 1 .. h : g[d] = F[<<d, g[d - 1]>>]
    BY <1>4 DEF W!IsStepped
  <1>6. ASSUME NEW d \in 0 .. h PROVE g[d] = IF d = 0 THEN <<>> ELSE Raised(leaves, i, d - 1, g[d - 1])
    <2>1. CASE d = 0
      BY <1>5, <2>1 DEF none
    <2>2. CASE d # 0
      <3>1. d \in 1 .. h /\ d - 1 \in 0 .. h
        BY <1>1, <2>2
      <3>2. g[d - 1] \in T
        BY <1>5, <3>1
      <3> QED  BY <1>3, <1>5, <2>2, <3>1, <3>2
    <2> QED  BY <2>1, <2>2
  <1>7. g = [d \in 0 .. h |-> g[d]]
    BY <1>5
  <1>8. IsClimb(g, leaves, i)
    BY <1>6, <1>7 DEF IsClimb, h
  <1>9. c = CHOOSE k : IsClimb(k, leaves, i)
    BY DEF Climb, IsClimb, Raised, SiblingOf
  <1> HIDE DEF c
  <1>10. IsClimb(c, leaves, i)
    BY <1>8, <1>9
  <1>11. c = [d \in 0 .. h |-> c[d]] /\ c[0] = <<>>
    BY <1>1, <1>10 DEF IsClimb, h
  <1>12. ASSUME NEW d \in 1 .. h PROVE c[d] = Raised(leaves, i, d - 1, c[d - 1])
    <2>1. d \in 0 .. h /\ d # 0
      BY <1>1
    <2> QED  BY <1>10, <2>1 DEF IsClimb, h
  <1> DEFINE P == {d \in 0 .. h : c[d] \in T}
  <1>13. 0 \in P
    BY <1>1, <1>11 DEF none
  <1>14. ASSUME NEW d \in 1 .. h, d - 1 \in P PROVE d \in P
    <2>1. c[d - 1] \in T /\ d \in 0 .. h
      BY <1>1, <1>14
    <2> QED  BY <1>2, <1>12, <2>1
  <1> HIDE DEF P
  <1>15. \A d \in 0 .. h : d \in P
    BY <1>1, <1>13, <1>14, W!CountingUp
  <1>16. c \in [0 .. h -> T]
    BY <1>11, <1>15 DEF P
  <1> QED  BY <1>11, <1>12, <1>16 DEF T, h, c

(* A pair is the same in either order, and tells what it was made with.    *)
LEMMA PairsTell ==
    /\ \A l, r : HashPair(l, r) = HashPair(r, l)
    /\ \A l, k, r : HashPair(l, r) = HashPair(k, r) => l = k
  <1>1. \A l, r : {l, r} = {r, l}
    OBVIOUS
  <1>2. ASSUME NEW l, NEW k, NEW r, HashPair(l, r) = HashPair(k, r) PROVE l = k
    <2>1. HashPair(l, r).pair = {l, r} /\ HashPair(k, r).pair = {k, r}
      BY DEF HashPair
    <2>2. {l, r} = {k, r}
      BY <1>2, <2>1
    <2>3. l \in {k, r} /\ k \in {l, r}
      BY <2>2
    <2> QED  BY <2>3
  <1> QED  BY <1>1, <1>2 DEF HashPair

(* A proof leads from one leaf only to where it leads.                     *)
LEMMA ProofsTell ==
    ASSUME NEW T, NEW s \in Seq(T), NEW l, NEW k, FoldLeft(HashPair, l, s) = FoldLeft(HashPair, k, s)
    PROVE  l = k
  <1> DEFINE n == Len(s)
  <1>1. PICK g : M!IsRun(g, l, s) /\ M!Folded(l, s) = g[n]
    BY M!FoldLeftRuns
  <1>2. PICK h : M!IsRun(h, k, s) /\ M!Folded(k, s) = h[n]
    BY M!FoldLeftRuns
  <1>3. g[0] = l /\ \A i \in 1 .. n : g[i] = HashPair(g[i - 1], s[i])
    BY <1>1, M!RunSteps
  <1>4. h[0] = k /\ \A i \in 1 .. n : h[i] = HashPair(h[i - 1], s[i])
    BY <1>2, M!RunSteps
  <1>5. g[n] = h[n]
    BY <1>1, <1>2, MIsFold
  <1>6. n \in Nat
    OBVIOUS
  <1> HIDE DEF n
  <1> DEFINE P == {i \in Nat : g[n - i] = h[n - i]}
  <1>7. 0 \in P
    <2>1. n - 0 = n
      BY <1>6
    <2> QED  BY <1>5, <2>1
  <1>8. ASSUME NEW i \in 1 .. n, i - 1 \in P PROVE i \in P
    <2> DEFINE j == n - (i - 1)
    <2>1. j \in 1 .. n /\ j - 1 = n - i /\ i \in Nat
      BY <1>6
    <2>2. g[j] = h[j]
      BY <1>8
    <2> HIDE DEF j
    <2>3. g[j] = HashPair(g[j - 1], s[j]) /\ h[j] = HashPair(h[j - 1], s[j])
      BY <1>3, <1>4, <2>1
    <2>4. HashPair(g[j - 1], s[j]) = HashPair(h[j - 1], s[j])
      BY <2>2, <2>3
    <2>5. g[j - 1] = h[j - 1]
      BY <2>4, PairsTell
    <2> QED  BY <2>1, <2>5
  <1> HIDE DEF P
  <1>9. \A i \in 0 .. n : i \in P
    BY <1>6, <1>7, <1>8, W!CountingUp
  <1>10. n \in P /\ n - n = 0
    BY <1>6, <1>9
  <1>11. g[0] = h[0]
    BY <1>10 DEF P
  <1> QED  BY <1>3, <1>4, <1>11

(* The proof of a leaf leads to the root.                                  *)
LEMMA ProofLeadsToRoot ==
    ASSUME NEW T, NEW leaves \in Seq(T), NEW i \in 1 .. Len(leaves)
    PROVE  /\ ProofOf(leaves, i) \in Seq(NodesOf(leaves))
           /\ FoldLeft(HashPair, leaves[i], ProofOf(leaves, i)) = ComputeRoot(leaves)
  <1> DEFINE n == Len(leaves)
             h == Height(leaves)
             at == Levels(leaves)
             p == Positions(leaves, i)
             c == Climb(leaves, i)
             N == NodesOf(leaves)
             w(d) == Len(at[d])
  <1>1. n \in Nat /\ i \in Nat /\ leaves # <<>>
    OBVIOUS
  <1>2. h \in 0 .. n /\ w(h) = 1 /\ \A d \in 0 .. n : Layer(at[d])
    BY <1>1, LevelsEnd
  <1>3. at[0] = leaves /\ \A d \in 1 .. n : at[d] = NextLevel(at[d - 1])
    BY LevelsRise
  <1>4. p[0] = i /\ \A d \in 1 .. n : p[d] = (p[d - 1] + 1) \div 2
    BY <1>1, PositionsRise
  <1>5. h \in Nat /\ h <= n /\ \A d \in 0 .. h : d \in 0 .. n
    BY <1>1, <1>2
  <1> DEFINE Q == {d \in Nat : p[d] \in 1 .. w(d)}
  <1>6. 0 \in Q
    BY <1>3, <1>4
  <1> HIDE DEF n, h, at, p
  <1>7. ASSUME NEW d \in 1 .. h, d - 1 \in Q
        PROVE  /\ d \in Q /\ p[d] \in 1 .. w(d) /\ p[d - 1] \in 1 .. w(d - 1)
               /\ w(d - 1) \in Nat
               /\ p[d] = (p[d - 1] + 1) \div 2
               /\ at[d][p[d]] = IF 2 * p[d] <= w(d - 1) THEN HashPair(at[d - 1][2 * p[d] - 1], at[d - 1][2 * p[d]])
                                ELSE at[d - 1][2 * p[d] - 1]
    <2>1. d \in 1 .. n /\ d - 1 \in 0 .. n /\ d \in Nat
      BY <1>1, <1>5
    <2>2. Layer(at[d - 1]) /\ at[d] = NextLevel(at[d - 1]) /\ p[d] = (p[d - 1] + 1) \div 2
      BY <1>2, <1>3, <1>4, <2>1
    <2>3. /\ w(d) = (w(d - 1) + 1) \div 2
          /\ \A j \in 1 .. w(d) :
                at[d][j] = IF 2 * j <= w(d - 1) THEN HashPair(at[d - 1][2 * j - 1], at[d - 1][2 * j])
                           ELSE at[d - 1][2 * j - 1]
      BY <2>2, NextLevelHalves
    <2>4. p[d - 1] \in 1 .. w(d - 1) /\ w(d - 1) \in Nat
      BY <1>7, <2>2 DEF Layer
    <2> HIDE DEF w
    <2>5. p[d] \in 1 .. w(d)
      BY <2>2, <2>3, <2>4
    <2> QED  BY <2>1, <2>2, <2>3, <2>4, <2>5
  <1> HIDE DEF Q, w
  <1>8. \A d \in 0 .. h : d \in Q
    <2>1. \A d \in 1 .. h : d - 1 \in Q => d \in Q
      BY <1>7
    <2> QED  BY <1>5, <1>6, <2>1, W!CountingUp
  <1>9. \A d \in 0 .. h : p[d] \in 1 .. w(d) /\ w(d) \in Nat
    BY <1>2, <1>5, <1>8 DEF Q, w, Layer
  <1>10. \A d \in 0 .. h : SiblingOf(leaves, i, d) = (IF p[d] % 2 = 0 THEN p[d] - 1 ELSE p[d] + 1)
    BY DEF SiblingOf, Sibling, p
  <1>11. \A d \in 0 .. h : SiblingOf(leaves, i, d) \in Int
    BY <1>9, <1>10
  <1>12. c \in [0 .. h -> Seq(N)] /\ c[0] = <<>> /\ \A d \in 1 .. h : c[d] = Raised(leaves, i, d - 1, c[d - 1])
    BY <1>1, <1>5, <1>11, ClimbRises DEF h, n
  <1> HIDE DEF c, N
  <1> DEFINE Good(d) == FoldLeft(HashPair, leaves[i], c[d]) = at[d][p[d]]
             P == {d \in Nat : Good(d)}
  <1>13. 0 \in P
    <2>1. FoldLeft(HashPair, leaves[i], <<>>) = leaves[i]
      BY M!FoldLeftOfNone, MIsFold
    <2> QED  BY <1>3, <1>4, <1>12, <2>1
  <1>14. ASSUME NEW d \in 1 .. h, d - 1 \in P PROVE d \in P
    <2> DEFINE b == d - 1
               k == p[b]
               x == at[b][k]
               sib == SiblingOf(leaves, i, b)
               y == at[b][sib]
    <2>1. b \in 0 .. h /\ b \in 0 .. n /\ d \in Nat
      BY <1>5
    <2>2. FoldLeft(HashPair, leaves[i], c[b]) = x /\ c[b] \in Seq(N)
      BY <1>12, <1>14, <2>1
    <2>3. k \in 1 .. w(b) /\ w(b) \in Nat /\ sib = (IF k % 2 = 0 THEN k - 1 ELSE k + 1) /\ sib \in Int
      BY <1>9, <1>10, <1>11, <2>1
    <2>4. /\ p[d] = (k + 1) \div 2
          /\ at[d][p[d]] = IF 2 * p[d] <= w(b) THEN HashPair(at[b][2 * p[d] - 1], at[b][2 * p[d]])
                           ELSE at[b][2 * p[d] - 1]
      BY <1>7, <1>8, <2>1
    <2>5. c[d] = IF sib <= w(b) THEN Append(c[b], y) ELSE c[b]
      BY <1>12 DEF Raised, w, at
    <2>6. y \in N
      BY <2>1, <2>3 DEF N, NodesOf, at, n
    <2> HIDE DEF b, k, x, y, sib
    <2>7. sib <= w(b) => FoldLeft(HashPair, leaves[i], c[d]) = HashPair(x, y)
      <3>1. FoldLeft(HashPair, leaves[i], Append(c[b], y)) = HashPair(FoldLeft(HashPair, leaves[i], c[b]), y)
        BY <2>2, <2>6, M!FoldLeftAppend, MIsFold
      <3> QED  BY <2>2, <2>5, <3>1
    <2>8. CASE k % 2 = 0
      <3>1. sib = k - 1 /\ 2 * p[d] = k /\ sib <= w(b) /\ k <= w(b)
        BY <2>3, <2>4, <2>8
      <3>2. at[d][p[d]] = HashPair(y, x)
        BY <2>4, <3>1 DEF x, y
      <3> QED  BY <2>1, <2>7, <3>1, <3>2, PairsTell
    <2>9. CASE k % 2 # 0
      <3>1. sib = k + 1 /\ 2 * p[d] = k + 1 /\ 2 * p[d] - 1 = k
        BY <2>3, <2>4, <2>9
      <3>2. CASE sib <= w(b)
        <4>1. at[d][p[d]] = HashPair(x, y)
          BY <2>4, <3>1, <3>2 DEF x, y
        <4> QED  BY <2>1, <2>7, <3>2, <4>1
      <3>3. CASE ~(sib <= w(b))
        <4>1. at[d][p[d]] = x /\ c[d] = c[b]
          BY <2>4, <2>5, <3>1, <3>3 DEF x
        <4> QED  BY <2>1, <2>2, <4>1
      <3> QED  BY <3>2, <3>3
    <2> QED  BY <2>8, <2>9
  <1> HIDE DEF P
  <1>15. \A d \in 0 .. h : d \in P
    BY <1>5, <1>13, <1>14, W!CountingUp
  <1>16. h \in 0 .. h
    BY <1>5
  <1>17. FoldLeft(HashPair, leaves[i], c[h]) = at[h][p[h]]
    BY <1>15, <1>16 DEF P
  <1>18. p[h] = 1
    BY <1>2, <1>9, <1>16
  <1>19. ProofOf(leaves, i) = c[h] /\ ComputeRoot(leaves) = at[h][1]
    BY DEF ProofOf, ComputeRoot, c, h, at
  <1> QED  BY <1>12, <1>16, <1>17, <1>18, <1>19 DEF N

(* The leaves are those who are owed anything, with what they are owed.    *)
LEMMA LeavesListed ==
    ASSUME NEW c \in [Accounts -> Nat]
    PROVE  LET S == {a \in Accounts : c[a] > 0}
               T == {EncodeLeaf(a, c[a]) : a \in S}
           IN  Leaves(c) \in Seq(T) /\ {Leaves(c)[i] : i \in DOMAIN Leaves(c)} = T
  <1> DEFINE S == {a \in Accounts : c[a] > 0}
             T == {EncodeLeaf(a, c[a]) : a \in S}
             n == Cardinality(S)
             paid == Ascending(S)
             leaves == Leaves(c)
  <1>1. IsFiniteSet(S) /\ S \subseteq Nat
    BY StockbackAssumption, FinalizerAssumption, FS_Subset
  <1>2. n \in Nat /\ Lists(paid, S)
    BY <1>1, AscendingLists
  <1>3. paid \in [1 .. n -> S] /\ ToSet(paid) = S
    BY <1>2 DEF Lists
  <1>4. DOMAIN c = Accounts
    OBVIOUS
  <1>5. leaves = [i \in DOMAIN paid |-> EncodeLeaf(paid[i], c[paid[i]])]
    BY <1>4 DEF Leaves
  <1> HIDE DEF n, paid, leaves
  <1>6. leaves = [i \in 1 .. n |-> EncodeLeaf(paid[i], c[paid[i]])]
    BY <1>3, <1>5
  <1>7. \A i \in 1 .. n : paid[i] \in S /\ EncodeLeaf(paid[i], c[paid[i]]) \in T
    BY <1>3
  <1>8. \A a \in S : \E i \in 1 .. n : paid[i] = a
    BY <1>3 DEF ToSet
  <1> HIDE DEF S
  <1>9. {leaves[i] : i \in DOMAIN leaves} = T
    BY <1>6, <1>7, <1>8
  <1> HIDE DEF T
  <1>10. leaves \in Seq(T)
    BY <1>2, <1>6, <1>7
  <1> QED  BY <1>9, <1>10 DEF leaves, S, T

(* Every stored proof verifies against the root stored beside it, for its  *)
(* holder's entitlement and nothing else.                                  *)
THEOREM StoredProofsVerify == FairSpec => []ProofsVerify
  <1>1. FinalizerInv => ProofsVerify
    <2> SUFFICES ASSUME FinalizerInv, NEW d \in datasets
                 PROVE  /\ {p.leaf : p \in d.proofs} =
                              {EncodeLeaf(a, d.cumulative[a]) : a \in {h \in Accounts : d.cumulative[h] > 0}}
                        /\ \A p \in d.proofs, a \in Accounts, amount \in 1 .. d.totalFunded :
                              VerifyProof(d.root, EncodeLeaf(a, amount), p.proof) <=> p.leaf = EncodeLeaf(a, amount)
      BY DEF ProofsVerify
    <2> DEFINE c == d.cumulative
               leaves == Leaves(c)
               S == {h \in Accounts : c[h] > 0}
               T == {EncodeLeaf(a, c[a]) : a \in S}
    <2>1. /\ c \in [Accounts -> Nat] /\ d.root = ComputeRoot(leaves)
          /\ d.proofs = {[leaf |-> leaves[i], proof |-> ProofOf(leaves, i)] : i \in DOMAIN leaves}
      BY DEF FinalizerInv, DatasetOK
    <2>2. leaves \in Seq(T) /\ {leaves[i] : i \in DOMAIN leaves} = T
      BY <2>1, LeavesListed
    <2> HIDE DEF c, leaves, S, T
    <2>3. {p.leaf : p \in d.proofs} = T
      <3>1. \A p \in d.proofs : \E i \in DOMAIN leaves : p.leaf = leaves[i]
        BY <2>1
      <3>2. ASSUME NEW i \in DOMAIN leaves PROVE \E p \in d.proofs : p.leaf = leaves[i]
        <4> DEFINE p == [leaf |-> leaves[i], proof |-> ProofOf(leaves, i)]
        <4>1. p \in d.proofs /\ p.leaf = leaves[i]
          BY <2>1
        <4> HIDE DEF p
        <4> QED  BY <4>1
      <3>3. \A x : x \in {p.leaf : p \in d.proofs} <=> \E i \in DOMAIN leaves : x = leaves[i]
        BY <3>1, <3>2
      <3>4. \A x : x \in T <=> \E i \in DOMAIN leaves : x = leaves[i]
        BY <2>2
      <3> QED  BY <3>3, <3>4
    <2>4. ASSUME NEW p \in d.proofs, NEW leaf PROVE VerifyProof(d.root, leaf, p.proof) <=> p.leaf = leaf
      <3>1. PICK i \in 1 .. Len(leaves) : p.leaf = leaves[i] /\ p.proof = ProofOf(leaves, i)
        <4>1. PICK i \in DOMAIN leaves : p = [leaf |-> leaves[i], proof |-> ProofOf(leaves, i)]
          BY <2>1
        <4>2. DOMAIN leaves = 1 .. Len(leaves)
          BY <2>2
        <4> QED  BY <4>1, <4>2
      <3>2. p.proof \in Seq(NodesOf(leaves)) /\ FoldLeft(HashPair, leaves[i], p.proof) = d.root
        BY <2>1, <2>2, <3>1, ProofLeadsToRoot
      <3>3. FoldLeft(HashPair, leaf, p.proof) = FoldLeft(HashPair, leaves[i], p.proof) => leaf = leaves[i]
        BY <3>2, ProofsTell
      <3> QED  BY <3>1, <3>2, <3>3 DEF VerifyProof
    <2> QED  BY <2>3, <2>4 DEF T, S, c
  <1> QED  BY <1>1, FinalizerInvariant, PTL
=============================================================================
