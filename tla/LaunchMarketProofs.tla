------------------------- MODULE LaunchMarketProofs -------------------------
(***************************************************************************)
(* The safety of a market, for every fee schedule, curve, number of        *)
(* decimals and amounts: TypeOK (no transfer overdraws), the exits, the    *)
(* market's and the vault's solvency, the creator's share and the exact    *)
(* closing of the curve.  Together they are inductive; none of them is by  *)
(* itself, except that the books of the vault need only the types.  What   *)
(* the rounding of the fee, curve and unit-conversion functions guarantees *)
(* comes first.                                                            *)
(*                                                                         *)
(* Then what those who deal with a market may rely on: the one canonical   *)
(* venue (CanonicalVenue), the endpoint that one buy can always reach, the *)
(* offer a user signs (QuoteIntent) and the keeper, whose overlapping      *)
(* sweeps do nothing a market could not have done.                         *)
(***************************************************************************)
EXTENDS LaunchMarket, Keeper, QuoteIntent, WellFoundedInduction, TLAPS

-----------------------------------------------------------------------------
(* The rounding *)


(* The EVM's division, and the library's rounding up of it.                *)
LEMMA FloorDiv ==
    ASSUME NEW n \in Nat, NEW d \in Nat \ {0}
    PROVE  n \div d \in Nat /\ d * (n \div d) <= n /\ n < d * (n \div d) + d
  OBVIOUS

(* The same division rounded up.                                           *)
LEMMA CeilDiv ==
    ASSUME NEW n \in Nat, NEW d \in Nat \ {0}
    PROVE  /\ (n + d - 1) \div d \in Nat
           /\ n <= d * ((n + d - 1) \div d)
           /\ d * ((n + d - 1) \div d) < n + d
  <1>1. n + d - 1 \in Nat
    OBVIOUS
  <1> QED  BY <1>1, FloorDiv

(* A non-empty set of naturals has a least element, and a bounded one a    *)
(* greatest: what the searches of the code, written as CHOOSE, rest on.    *)
LEMMA LeastNatural ==
    ASSUME NEW S, S \subseteq Nat, S # {}
    PROVE  \E m \in S : \A k \in S : m <= k
  <1> DEFINE Below == {pair \in Nat \X Nat : pair[1] < pair[2]}
  <1>1. IsWellFoundedOn(Below, Nat)
    BY NatLessThanWellFounded DEF OpToRel
  <1> HIDE DEF Below
  <1>2. PICK m \in S : \A k \in S : ~ (<<k, m>> \in Below)
    BY <1>1, WFMin
  <1>3. \A k \in S : ~ (k < m)
    BY <1>2 DEF Below
  <1> QED  BY <1>3

(* A non-empty set bounded by n has a greatest element.                    *)
LEMMA GreatestNatural ==
    ASSUME NEW S, NEW n \in Nat, S \subseteq 0 .. n, S # {}
    PROVE  \E m \in S : \A k \in S : k <= m
  <1> DEFINE T == {n - k : k \in S}
  <1>1. T \subseteq Nat /\ T # {}
    <2>1. \A k \in S : k \in Nat /\ k <= n
      OBVIOUS
    <2>2. \A k \in S : n - k \in Nat
      BY <2>1
    <2>3. PICK k \in S : TRUE
      OBVIOUS
    <2>4. n - k \in T
      BY <2>3
    <2> QED  BY <2>2, <2>4
  <1>2. PICK m \in T : \A k \in T : m <= k
    BY <1>1, LeastNatural
  <1>3. PICK top \in S : m = n - top
    BY <1>2
  <1>4. \A k \in S : k <= top
    BY <1>2, <1>3
  <1> QED  BY <1>4

-----------------------------------------------------------------------------
(* Fees *)

(* The waterfall never creates or destroys value: both fees and the net    *)
(* are naturals that add up to the notional (lib/Fees.sol, _compute).      *)
LEMMA BreakdownIsExact ==
    ASSUME NEW notional \in Nat, NEW bps \in Nat, CoreFeeBps + bps < BPS
    PROVE  LET f == Breakdown(notional, bps)
           IN  /\ f.coreFee \in Nat /\ f.stockback \in Nat /\ f.net \in Nat
               /\ f.coreFee + f.stockback + f.net = notional
  <1> DEFINE core == (notional * CoreFeeBps) \div BPS
             sb   == (notional * bps) \div BPS
  <1>1. BPS \in Nat \ {0} /\ CoreFeeBps \in Nat
    BY FeeAssumption
  <1>2. core \in Nat /\ BPS * core <= notional * CoreFeeBps
    BY <1>1, FloorDiv, notional * CoreFeeBps \in Nat
  <1>3. sb \in Nat /\ BPS * sb <= notional * bps
    BY <1>1, FloorDiv, notional * bps \in Nat
  <1> HIDE DEF core, sb
  <1>4. notional * (CoreFeeBps + bps) <= notional * BPS
    BY <1>1
  <1>5. BPS * (core + sb) <= BPS * notional
    BY <1>1, <1>2, <1>3, <1>4
  <1>6. core + sb <= notional
    BY <1>1, <1>2, <1>3, <1>5
  <1> QED  BY <1>1, <1>2, <1>3, <1>6 DEF Breakdown, core, sb

(* The waterfall of a buy adds up.                                         *)
COROLLARY ForBuyIsExact ==
    ASSUME NEW notional \in Nat
    PROVE  LET f == ForBuy(notional)
           IN  /\ f.coreFee \in Nat /\ f.stockback \in Nat /\ f.net \in Nat
               /\ f.coreFee + f.stockback + f.net = notional
  BY BreakdownIsExact, FeeAssumption DEF ForBuy

(* The waterfall of a sale adds up.                                        *)
COROLLARY ForSellIsExact ==
    ASSUME NEW notional \in Nat
    PROVE  LET f == ForSell(notional)
           IN  /\ f.coreFee \in Nat /\ f.stockback \in Nat /\ f.net \in Nat
               /\ f.coreFee + f.stockback + f.net = notional
  BY BreakdownIsExact, FeeAssumption DEF ForSell

(* splitCore is exhaustive, and the creator's part is never below its      *)
(* share of the fee.                                                       *)
LEMMA SplitProtectsCreator ==
    ASSUME NEW fee \in Nat
    PROVE  /\ CreatorPart(fee) \in Nat /\ PlatformPart(fee) \in Nat
           /\ CreatorPart(fee) + PlatformPart(fee) = fee
           /\ CreatorShareBps * fee <= BPS * CreatorPart(fee)
  <1> DEFINE up == (fee * CreatorShareBps + BPS - 1) \div BPS
  <1>1. BPS \in Nat \ {0} /\ CreatorShareBps \in Nat /\ CreatorShareBps <= BPS
    BY FeeAssumption
  <1>2. up \in Nat /\ fee * CreatorShareBps <= BPS * up
    BY <1>1, CeilDiv, fee * CreatorShareBps \in Nat
  <1> HIDE DEF up
  <1>3. fee * CreatorShareBps <= BPS * fee
    BY <1>1
  <1>4. CreatorPart(fee) = IF up > fee THEN fee ELSE up
    BY DEF CreatorPart, up
  <1> QED  BY <1>1, <1>2, <1>3, <1>4 DEF PlatformPart

-----------------------------------------------------------------------------
(* Units *)

(* toNormalized never credits more than arrived.                           *)
LEMMA ToNormalizedBound ==
    ASSUME NEW raw \in Nat
    PROVE  /\ ToNormalized(raw) \in Nat
           /\ ToNormalized(raw) * ScaleDown <= raw * ScaleUp
  BY FloorDiv, ScaleAssumption, raw * ScaleUp \in Nat DEF ToNormalized

(* toRawForPayout never pays more than is owed.                            *)
LEMMA ToRawBound ==
    ASSUME NEW normalized \in Nat
    PROVE  /\ ToRawForPayout(normalized) \in Nat
           /\ ToRawForPayout(normalized) * ScaleUp <= normalized * ScaleDown
  BY FloorDiv, ScaleAssumption, normalized * ScaleDown \in Nat
     DEF ToRawForPayout

(* What is paid out converts back to exactly the units it stood for, so    *)
(* that the sliver a refund leaves is known exactly.                       *)
LEMMA PayoutConvertsBack ==
    ASSUME NEW normalized \in Nat
    PROVE  LET raw == ToRawForPayout(normalized)
           IN  /\ ToNormalized(raw) * ScaleDown = raw * ScaleUp
               /\ ToNormalized(raw) <= normalized
  <1> DEFINE raw == ToRawForPayout(normalized)
  <1>1. raw \in Nat /\ raw * ScaleUp <= normalized * ScaleDown
    BY ToRawBound
  <1>2. CASE ScaleDown = 1
    <2>1. ToNormalized(raw) = raw * ScaleUp
      BY <1>1, <1>2, ScaleAssumption, raw * ScaleUp \in Nat DEF ToNormalized
    <2> QED  BY <1>1, <1>2, <2>1, ScaleAssumption
  <1>3. CASE ScaleUp = 1
    <2>1. raw = normalized * ScaleDown
      BY <1>3, ScaleAssumption, normalized * ScaleDown \in Nat DEF ToRawForPayout
    <2>2. raw * ScaleUp = normalized * ScaleDown
      BY <1>1, <1>3, <2>1
    <2>3. ToNormalized(raw) = normalized
      BY <2>2, ScaleAssumption DEF ToNormalized
    <2> QED  BY <2>2, <2>3
  <1> QED  BY <1>2, <1>3, ScaleAssumption

(* A common factor of raw amounts cancels.                                 *)
LEMMA CancelScale ==
    ASSUME NEW x \in Nat, NEW y \in Nat, x * ScaleUp <= y * ScaleUp
    PROVE  x <= y
  BY ScaleAssumption

(* Whoever receives raw units worth at least `gross`, and passes on at most*)
(* what two parts of it are worth, still covers what it owed and the rest. *)
LEMMA InflowCovers ==
    ASSUME NEW owed \in Nat, NEW held \in Nat,
           NEW raw \in Nat, NEW gross \in Nat,
           NEW part1 \in Nat, NEW part2 \in Nat, NEW rest \in Nat,
           NEW raw1 \in Nat, NEW raw2 \in Nat,
           owed * ScaleDown <= held * ScaleUp,
           gross * ScaleDown <= raw * ScaleUp,
           part1 + part2 + rest = gross,
           raw1 * ScaleUp <= part1 * ScaleDown,
           raw2 * ScaleUp <= part2 * ScaleDown
    PROVE  /\ raw1 + raw2 <= raw
           /\ (owed + rest) * ScaleDown <= (held + raw - raw1 - raw2) * ScaleUp
  <1> DEFINE D(n) == n * ScaleDown
             U(n) == n * ScaleUp
  <1>1. ScaleUp \in Nat /\ ScaleDown \in Nat
    BY ScaleAssumption
  <1>2. D(gross) = D(part1) + D(part2) + D(rest)
    BY <1>1
  <1>3. D(owed + rest) = D(owed) + D(rest)
    BY <1>1
  <1>4. U(held + raw - raw1 - raw2) = U(held) + U(raw) - U(raw1) - U(raw2)
    BY <1>1
  <1>5. U(raw1 + raw2) = U(raw1) + U(raw2)
    BY <1>1
  <1>6. /\ D(owed) <= U(held) /\ D(gross) <= U(raw)
        /\ U(raw1) <= D(part1) /\ U(raw2) <= D(part2)
    OBVIOUS
  <1>7. /\ D(owed) \in Nat /\ D(gross) \in Nat
        /\ D(part1) \in Nat /\ D(part2) \in Nat /\ D(rest) \in Nat
        /\ U(held) \in Nat /\ U(raw) \in Nat /\ U(raw1) \in Nat /\ U(raw2) \in Nat
    BY <1>1
  <1> HIDE DEF D, U
  <1>8. D(owed + rest) <= U(held + raw - raw1 - raw2)
    BY <1>2, <1>3, <1>4, <1>6, <1>7
  <1>9. U(raw1 + raw2) <= U(raw)
    BY <1>2, <1>5, <1>6, <1>7
  <1>10. raw1 + raw2 <= raw
    BY <1>9, CancelScale, raw1 + raw2 \in Nat DEF U
  <1> QED  BY <1>8, <1>10 DEF D, U

(* Whoever settles a debt by paying out at most what three parts of it are *)
(* worth still covers the rest of what it owed.                            *)
LEMMA OutflowCovers ==
    ASSUME NEW owed \in Nat, NEW other \in Nat, NEW held \in Nat,
           NEW debt \in Nat,
           NEW part1 \in Nat, NEW part2 \in Nat, NEW part3 \in Nat,
           NEW raw1 \in Nat, NEW raw2 \in Nat, NEW raw3 \in Nat,
           (owed + debt + other) * ScaleDown <= held * ScaleUp,
           part1 + part2 + part3 = debt,
           raw1 * ScaleUp <= part1 * ScaleDown,
           raw2 * ScaleUp <= part2 * ScaleDown,
           raw3 * ScaleUp <= part3 * ScaleDown
    PROVE  /\ held - raw3 - raw1 - raw2 \in Nat
           /\ (owed + other) * ScaleDown
                 <= (held - raw3 - raw1 - raw2) * ScaleUp
  <1> DEFINE D(n) == n * ScaleDown
             U(n) == n * ScaleUp
  <1>1. ScaleUp \in Nat /\ ScaleDown \in Nat
    BY ScaleAssumption
  <1>2. D(owed + debt + other)
           = D(owed + other) + D(part1) + D(part2) + D(part3)
    BY <1>1
  <1>3. U(held - raw3 - raw1 - raw2) = U(held) - U(raw3) - U(raw1) - U(raw2)
    BY <1>1
  <1>4. U(raw1 + raw2 + raw3) = U(raw1) + U(raw2) + U(raw3)
    BY <1>1
  <1>5. /\ D(owed + debt + other) <= U(held) /\ U(raw1) <= D(part1)
        /\ U(raw2) <= D(part2) /\ U(raw3) <= D(part3)
    OBVIOUS
  <1>6. /\ D(owed + debt + other) \in Nat /\ D(owed + other) \in Nat
        /\ D(part1) \in Nat /\ D(part2) \in Nat /\ D(part3) \in Nat
        /\ U(held) \in Nat
        /\ U(raw1) \in Nat /\ U(raw2) \in Nat /\ U(raw3) \in Nat
    BY <1>1
  <1> HIDE DEF D, U
  <1>7. D(owed + other) <= U(held - raw3 - raw1 - raw2)
    BY <1>2, <1>3, <1>5, <1>6
  <1>8. U(raw1 + raw2 + raw3) <= U(held)
    BY <1>2, <1>4, <1>5, <1>6
  <1>9. raw1 + raw2 + raw3 <= held
    BY <1>8, CancelScale, raw1 + raw2 + raw3 \in Nat DEF U
  <1> QED  BY <1>7, <1>9 DEF D, U

-----------------------------------------------------------------------------
(* The curve *)

(* The derived parameters of a curve are naturals, and the endpoint and the *)
(* scale are not zero.                                                     *)
LEMMA CurveConstants ==
    /\ P0 \in Nat \ {0} /\ PG \in Nat /\ DP \in Nat
    /\ QG \in Nat \ {0} /\ QG <= TotalSupply /\ TotalSupply \in Nat
    /\ Scale \in Nat \ {0}
  <1>1. PG \in Nat /\ PG >= P0
    BY CurveAssumption DEF PG
  <1>2. DP \in Nat
    BY <1>1, CurveAssumption DEF DP
  <1>3. QG \in Nat \ {0} /\ QG <= TotalSupply
    BY CurveAssumption DEF QG
  <1>4. Scale \in Nat \ {0}
    BY <1>3, CurveAssumption DEF Scale
  <1> QED  BY <1>1, <1>2, <1>3, <1>4, CurveAssumption

(* The area under the curve is a natural number.                           *)
LEMMA AreaIsNatural ==
    ASSUME NEW q \in Nat
    PROVE  Area(q) \in Nat
  BY CurveConstants DEF Area

(* Scaling distributes and keeps the order.                                *)
LEMMA ScaleIsMonotone ==
    ASSUME NEW x \in Nat, NEW y \in Nat
    PROVE  /\ Scale * x \in Nat
           /\ Scale * (x + y) = Scale * x + Scale * y
           /\ x <= y => Scale * x <= Scale * y
  BY CurveConstants

(* The numerator of a trade is the difference of the areas at its ends.    *)
LEMMA AreaDifference ==
    ASSUME NEW q \in Nat, NEW delta \in Nat
    PROVE  Area(q + delta) = Area(q)
             + (2 * P0 * QG * delta + DP * (2 * q * delta + delta * delta))
  <1> DEFINE pq == 2 * P0 * QG
  <1>1. pq \in Nat /\ DP \in Nat
    BY CurveConstants
  <1> HIDE DEF pq
  <1>2. pq * (q + delta) = pq * q + pq * delta
    BY <1>1
  <1>3. DP * (q + delta) * (q + delta)
          = DP * q * q + DP * (2 * q * delta + delta * delta)
    BY <1>1
  <1>4. pq * (q + delta) \in Nat /\ pq * q \in Nat /\ pq * delta \in Nat
    BY <1>1
  <1>5. /\ DP * (q + delta) * (q + delta) \in Nat /\ DP * q * q \in Nat
        /\ DP * (2 * q * delta + delta * delta) \in Nat
    BY <1>1
  <1> QED  BY <1>2, <1>3, <1>4, <1>5 DEF Area, pq

(* A buy is charged at least the area it takes (lib/Curve.sol, quoteInFor).*)
LEMMA QuoteInCoversArea ==
    ASSUME NEW q \in Nat, NEW delta \in Nat
    PROVE  /\ QuoteInFor(q, delta) \in Nat
           /\ Area(q + delta) <= Area(q) + Scale * QuoteInFor(q, delta)
  <1> DEFINE n == 2 * P0 * QG * delta + DP * (2 * q * delta + delta * delta)
  <1>1. n \in Nat
    BY CurveConstants
  <1>2. Area(q + delta) = Area(q) + n
    BY AreaDifference
  <1>3. QuoteInFor(q, delta) = (n + Scale - 1) \div Scale
    BY DEF QuoteInFor
  <1> HIDE DEF n
  <1>4. /\ QuoteInFor(q, delta) \in Nat
        /\ n <= Scale * QuoteInFor(q, delta)
    BY <1>1, <1>3, CeilDiv, CurveConstants
  <1>5. Scale * QuoteInFor(q, delta) \in Nat /\ Area(q) \in Nat
    BY <1>4, CurveConstants, AreaIsNatural
  <1> QED  BY <1>1, <1>2, <1>4, <1>5

(* A sale is paid at most the area it gives back (grossOutFor).            *)
LEMMA GrossOutWithinArea ==
    ASSUME NEW q \in Nat, NEW delta \in 0 .. q
    PROVE  /\ GrossOutFor(q, delta) \in Nat
           /\ Scale * GrossOutFor(q, delta) + Area(q - delta) <= Area(q)
  <1> DEFINE n == 2 * P0 * QG * delta + DP * (2 * q * delta - delta * delta)
             r == q - delta
  <1>1. r \in Nat /\ delta \in Nat /\ q = r + delta
    OBVIOUS
  <1>2. 2 * q * delta - delta * delta = 2 * r * delta + delta * delta
    BY <1>1
  <1>3. n = 2 * P0 * QG * delta + DP * (2 * r * delta + delta * delta)
    BY <1>2
  <1>4. n \in Nat
    BY <1>1, <1>3, CurveConstants
  <1>5. Area(q) = Area(r) + n
    BY <1>1, <1>3, AreaDifference
  <1>6. GrossOutFor(q, delta) = n \div Scale
    BY DEF GrossOutFor
  <1> HIDE DEF n, r
  <1>7. Area(r) \in Nat
    BY <1>1, AreaIsNatural
  <1>8. n \div Scale \in Nat /\ Scale * (n \div Scale) <= n
    BY <1>4, FloorDiv, CurveConstants
  <1>9. Scale * (n \div Scale) \in Nat
    BY <1>8, CurveConstants
  <1> QED  BY <1>4, <1>5, <1>6, <1>7, <1>8, <1>9 DEF r

(* tokensOutFor is defined, never passes the endpoint, and what it returns *)
(* costs no more than was paid.                                            *)
LEMMA TokensOutWithinNet ==
    ASSUME NEW q \in 0 .. QG, NEW netIn \in Nat
    PROVE  LET out == TokensOutFor(q, netIn)
           IN  /\ out \in 0 .. (QG - q)
               /\ QuoteInFor(q, out) <= netIn
  <1> DEFINE Covered(delta) == QuoteInFor(q, delta) <= netIn
             S == {delta \in 0 .. (QG - q) : Covered(delta)}
  <1>1. QG - q \in Nat /\ q \in Nat
    BY CurveConstants
  <1>2. QuoteInFor(q, 0) = 0
    <2>1. QuoteInFor(q, 0) = (Scale - 1) \div Scale
      BY <1>1, CurveConstants DEF QuoteInFor
    <2> QED  BY <2>1, CurveConstants
  <1>3. S \subseteq 0 .. (QG - q) /\ 0 \in S
    BY <1>1, <1>2
  <1>4. \E m \in S : \A k \in S : k <= m
    BY <1>1, <1>3, GreatestNatural, S # {}
  <1> HIDE DEF Covered
  <1>5. \E delta \in 0 .. (QG - q) :
           /\ Covered(delta)
           /\ \A more \in 0 .. (QG - q) : Covered(more) => more <= delta
    BY <1>4
  <1>6. TokensOutFor(q, netIn) = CHOOSE delta \in 0 .. (QG - q) :
           /\ Covered(delta)
           /\ \A more \in 0 .. (QG - q) : Covered(more) => more <= delta
    BY DEF TokensOutFor, Covered
  <1>7. /\ TokensOutFor(q, netIn) \in 0 .. (QG - q)
        /\ Covered(TokensOutFor(q, netIn))
    BY <1>5, <1>6
  <1> QED  BY <1>7 DEF Covered

(* The price triple: the fraction sold, and the multiple of the price it   *)
(* is sold over, leave a reserve that the proceeds just pay for.  With the *)
(* library's constants, 26 * 50 = 2 * 25 * 26.                             *)
PriceTriple ==
    (GraduationMultiple + 1) * QGNum = 2 * GraduationMultiple * (QGDen - QGNum)

(* Two units of the reserve, or none if the endpoint is not floored.       *)
FlooringSlack == IF (TotalSupply * QGNum) % QGDen = 0 THEN 0 ELSE 2

(* Division with remainder of the endpoint's fraction.                     *)
LEMMA EndpointRemainder ==
    /\ (TotalSupply * QGNum) % QGDen \in 0 .. (QGDen - 1)
    /\ TotalSupply * QGNum = QGDen * QG + ((TotalSupply * QGNum) % QGDen)
  <1> DEFINE n == TotalSupply * QGNum
  <1>1. n \in Nat
    BY CurveAssumption
  <1> HIDE DEF n
  <1>2. n % QGDen \in 0 .. (QGDen - 1) /\ n = QGDen * (n \div QGDen) + (n % QGDen)
    BY <1>1, CurveAssumption
  <1> QED  BY <1>2 DEF n, QG

(* The triple says what the reserve is worth against the part sold; only   *)
(* the flooring of the endpoint can make the reserve larger.               *)
LEMMA ReserveAgainstSold ==
    ASSUME PriceTriple
    PROVE  2 * GraduationMultiple * (TotalSupply - QG)
             <= (GraduationMultiple + 1) * QG
                  + 2 * GraduationMultiple * FlooringSlack
  <1> DEFINE r == (TotalSupply * QGNum) % QGDen
             m == GraduationMultiple
  <1>1. /\ r \in Nat /\ r < QGDen /\ m \in Nat \ {0} /\ QGNum \in Nat
        /\ QGDen \in Nat /\ QG \in Nat /\ TotalSupply \in Nat
        /\ QG <= TotalSupply /\ QGNum <= QGDen
        /\ TotalSupply * QGNum = QGDen * QG + r
    BY EndpointRemainder, CurveConstants, CurveAssumption
  <1>2. (m + 1) * QGNum = 2 * m * (QGDen - QGNum)
    BY DEF PriceTriple
  <1>3. FlooringSlack = IF r = 0 THEN 0 ELSE 2
    BY DEF FlooringSlack
  <1> HIDE DEF r, m
  <1>4. QGNum # 0
    BY <1>1, <1>2, CurveConstants, CurveAssumption DEF QG
  <1>5. QGDen <= 2 * QGNum
    BY <1>1, <1>2
  <1> DEFINE left  == 2 * m * (TotalSupply - QG)
             right == (m + 1) * QG
             slack == 2 * m * FlooringSlack
  <1>6. QGNum * left = QGNum * right + 2 * m * r
    <2>1. QGNum * left = 2 * m * (TotalSupply * QGNum - QG * QGNum)
      BY <1>1
    <2>2. TotalSupply * QGNum - QG * QGNum = QG * (QGDen - QGNum) + r
      BY <1>1
    <2>3. 2 * m * (QG * (QGDen - QGNum) + r)
            = QG * (2 * m * (QGDen - QGNum)) + 2 * m * r
      BY <1>1
    <2>4. QG * ((m + 1) * QGNum) = QGNum * right
      BY <1>1
    <2> QED  BY <1>2, <2>1, <2>2, <2>3, <2>4
  <1>7. 2 * m * r <= QGNum * slack
    <2>1. CASE r = 0
      BY <1>1, <1>3, <2>1
    <2>2. CASE r # 0
      <3>1. r <= 2 * QGNum
        BY <1>1, <1>5
      <3>2. (2 * m) * r <= (2 * m) * (2 * QGNum)
        BY <1>1, <3>1
      <3>3. QGNum * slack = (2 * m) * (2 * QGNum)
        BY <1>1, <1>3, <2>2
      <3> QED  BY <3>2, <3>3
    <2> QED  BY <2>1, <2>2
  <1>8. /\ left \in Nat /\ right \in Nat /\ slack \in Nat
        /\ QGNum * left <= QGNum * (right + slack)
    <2>1. /\ left \in Nat /\ right \in Nat /\ slack \in Nat
          /\ 2 * m * r \in Nat
      BY <1>1, <1>3
    <2> HIDE DEF left, right, slack
    <2>2. QGNum * (right + slack) = QGNum * right + QGNum * slack
      BY <1>1, <2>1
    <2>3. /\ QGNum * left \in Nat /\ QGNum * right \in Nat
          /\ QGNum * slack \in Nat
      BY <1>1, <2>1
    <2> QED  BY <1>6, <1>7, <2>1, <2>2, <2>3
  <1> HIDE DEF left, right, slack
  <1>9. left <= right + slack
    BY <1>1, <1>4, <1>8
  <1> QED  BY <1>9 DEF left, right, slack, m

-----------------------------------------------------------------------------
(* The market *)

IInv ==
    /\ TypeOK
    /\ CollateralCoversEveryExit
    /\ MarketHoldsWhatItOwes
    /\ VaultHoldsWhatItOwes
    /\ CreatorNeverBelowShare
    /\ ClosedExactlyAtEndpoint

(* The part of TypeOK about the vault's books.                             *)
BooksTyped ==
    /\ revenue \in [Assets -> Nat]
    /\ creatorBalance \in [Assets -> Nat] /\ platformBalance \in [Assets -> Nat]
    /\ totalAccrued \in [Assets -> Nat] /\ totalClaimed \in [Assets -> Nat]

(* A launched market satisfies the whole invariant.                        *)
LEMMA InitIInv == Init => IInv
  <1> SUFFICES ASSUME Init PROVE IInv
    OBVIOUS
  <1> USE MarketAssumption, CurveConstants DEF Init, VaultInit
  <1>1. TypeOK
    BY DEF TypeOK, Only, NoFee, Fee, Holders
  <1>2. CollateralCoversEveryExit
    BY DEF CollateralCoversEveryExit, Area
  <1>3. MarketHoldsWhatItOwes
    BY ScaleAssumption DEF MarketHoldsWhatItOwes, Only, Holders
  <1>4. VaultHoldsWhatItOwes
    BY DEF VaultHoldsWhatItOwes, Outstanding, Balance, Only, Holders
  <1>5. CreatorNeverBelowShare
    BY FeeAssumption
       DEF CreatorNeverBelowShare, Balance, Only, Holders, NoFee, Fee
  <1>6. ClosedExactlyAtEndpoint
    BY DEF ClosedExactlyAtEndpoint
  <1> QED  BY <1>1, <1>2, <1>3, <1>4, <1>5, <1>6 DEF IInv

-----------------------------------------------------------------------------
(* The vault's books: what any sequence of accruals and payments of exactly*)
(* the booked amounts preserves.                                           *)

(* A consequence of TypeOK in the form the books need.                     *)
LEMMA BalancesAreNatural ==
    ASSUME TypeOK, NEW a \in Assets, NEW h \in Holders
    PROVE  Balance(a)[h] \in Nat
  BY DEF TypeOK, Balance

(* Of what is charged in each asset, creator[a] and platform[a] are booked *)
(* and transferred, and the creator's part is worth its share.             *)
FeesArrive(charged, creator, platform) ==
    /\ Accrue(creator, platform)
    /\ revenue' = [a \in Assets |-> revenue[a] + charged[a]]
    /\ \A a \in Assets :
          /\ CreatorShareBps * charged[a] <= BPS * creator[a]
          /\ Balance(a)'["feeVault"] \in Nat
          /\ Balance(a)["feeVault"] + (creator[a] + platform[a])
                <= Balance(a)'["feeVault"]
          /\ Balance(a)'["creator"] = Balance(a)["creator"]

(* FeeVault.accrue, called with a split that protects the creator and after *)
(* at least its amount arrived, keeps the books exact and covered.         *)
LEMMA AccrueKeepsBooks ==
    ASSUME TypeOK, VaultHoldsWhatItOwes, CreatorNeverBelowShare,
           NEW charged \in [Assets -> Nat],
           NEW creator \in [Assets -> Nat], NEW platform \in [Assets -> Nat],
           FeesArrive(charged, creator, platform)
    PROVE  BooksTyped' /\ VaultHoldsWhatItOwes' /\ CreatorNeverBelowShare'
  <1>1. BooksTyped'
    BY DEF BooksTyped, TypeOK, Accrue, FeesArrive
  <1>2. VaultHoldsWhatItOwes'
    <2> SUFFICES ASSUME NEW a \in Assets
                 PROVE  /\ creatorBalance'[a] + platformBalance'[a]
                              = totalAccrued'[a] - totalClaimed'[a]
                        /\ totalAccrued'[a] - totalClaimed'[a]
                              <= Balance(a)'["feeVault"]
      BY DEF VaultHoldsWhatItOwes, Outstanding
    <2>1. /\ creatorBalance'[a] = creatorBalance[a] + creator[a]
          /\ platformBalance'[a] = platformBalance[a] + platform[a]
          /\ totalAccrued'[a] = totalAccrued[a] + (creator[a] + platform[a])
          /\ totalClaimed'[a] = totalClaimed[a]
      BY DEF Accrue, FeesArrive
    <2>2. /\ creatorBalance[a] + platformBalance[a]
                = totalAccrued[a] - totalClaimed[a]
          /\ totalAccrued[a] - totalClaimed[a] <= Balance(a)["feeVault"]
      BY DEF VaultHoldsWhatItOwes, Outstanding
    <2>3. /\ creatorBalance[a] \in Nat /\ platformBalance[a] \in Nat
          /\ totalAccrued[a] \in Nat /\ totalClaimed[a] \in Nat
          /\ Balance(a)["feeVault"] \in Nat
      BY BalancesAreNatural DEF TypeOK, Holders
    <2>4. /\ creator[a] \in Nat /\ platform[a] \in Nat
          /\ Balance(a)'["feeVault"] \in Nat
          /\ Balance(a)'["feeVault"]
                >= Balance(a)["feeVault"] + (creator[a] + platform[a])
      BY BalancesAreNatural DEF FeesArrive, Holders
    <2>5. creatorBalance'[a] + platformBalance'[a]
             = totalAccrued'[a] - totalClaimed'[a]
      BY <2>1, <2>2, <2>3, <2>4
    <2>6. totalAccrued'[a] - totalClaimed'[a] <= Balance(a)'["feeVault"]
      BY <2>1, <2>2, <2>3, <2>4
    <2> QED  BY <2>5, <2>6
  <1>3. CreatorNeverBelowShare'
    <2> SUFFICES ASSUME NEW a \in Assets
                 PROVE  CreatorShareBps * revenue'[a] <=
                          BPS * (creatorBalance'[a] + Balance(a)'["creator"])
      BY DEF CreatorNeverBelowShare
    <2> DEFINE c == creatorBalance[a]
               paid == Balance(a)["creator"]
    <2>1. /\ c \in Nat /\ paid \in Nat /\ revenue[a] \in Nat
          /\ creator[a] \in Nat /\ charged[a] \in Nat
      BY BalancesAreNatural DEF TypeOK, Holders
    <2>2. CreatorShareBps * revenue[a] <= BPS * (c + paid)
      BY DEF CreatorNeverBelowShare
    <2>3. /\ revenue'[a] = revenue[a] + charged[a]
          /\ creatorBalance'[a] = c + creator[a]
          /\ Balance(a)'["creator"] = paid
      BY DEF Accrue, FeesArrive
    <2>4. CreatorShareBps * charged[a] <= BPS * creator[a]
      BY DEF FeesArrive
    <2>5. CreatorShareBps \in Nat /\ BPS \in Nat
      BY FeeAssumption
    <2> HIDE DEF c, paid
    <2>6. CreatorShareBps * (revenue[a] + charged[a])
            <= BPS * (c + creator[a] + paid)
      BY <2>1, <2>2, <2>4, <2>5
    <2> QED  BY <2>3, <2>6
  <1> QED  BY <1>1, <1>2, <1>3

(* No books entry, and no balance behind one, moves.                       *)
BooksUntouched ==
    /\ UNCHANGED <<vaultVars, revenue>>
    /\ \A a \in Assets : /\ Balance(a)'["feeVault"] = Balance(a)["feeVault"]
                         /\ Balance(a)'["creator"] = Balance(a)["creator"]

(* A step that leaves the books alone, and takes nothing from the vault,   *)
(* keeps them exact and covered.                                           *)
LEMMA UntouchedKeepsBooks ==
    ASSUME TypeOK, VaultHoldsWhatItOwes, CreatorNeverBelowShare, BooksUntouched
    PROVE  BooksTyped' /\ VaultHoldsWhatItOwes' /\ CreatorNeverBelowShare'
  <1>1. BooksTyped'
    BY DEF BooksTyped, TypeOK, BooksUntouched, vaultVars
  <1>2. VaultHoldsWhatItOwes'
    BY DEF VaultHoldsWhatItOwes, Outstanding, BooksUntouched, vaultVars
  <1>3. CreatorNeverBelowShare'
    BY DEF CreatorNeverBelowShare, BooksUntouched, vaultVars
  <1> QED  BY <1>1, <1>2, <1>3

(* The market's state is untouched and its balances only grow.             *)
MarketUntouched ==
    /\ UNCHANGED marketVars
    /\ token'["market"] \in Nat /\ token["market"] <= token'["market"]
    /\ quote'["market"] \in Nat /\ quote["market"] <= quote'["market"]

(* A step that leaves the curve's liability alone, and takes nothing from  *)
(* the market, keeps it solvent.                                           *)
LEMMA UntouchedKeepsMarket ==
    ASSUME TypeOK, CollateralCoversEveryExit, MarketHoldsWhatItOwes,
           ClosedExactlyAtEndpoint, MarketUntouched
    PROVE  /\ CollateralCoversEveryExit' /\ MarketHoldsWhatItOwes'
           /\ ClosedExactlyAtEndpoint'
  <1>1. CollateralCoversEveryExit'
    BY DEF CollateralCoversEveryExit, MarketUntouched, marketVars
  <1>2. MarketHoldsWhatItOwes'
    <2>1. quote["market"] * ScaleUp <= quote'["market"] * ScaleUp
      BY ScaleAssumption DEF TypeOK, Holders, MarketUntouched
    <2>2. (curveCollateral + graduationDust) * ScaleDown
             <= quote["market"] * ScaleUp
      BY DEF MarketHoldsWhatItOwes
    <2>3. /\ (curveCollateral + graduationDust) * ScaleDown \in Nat
          /\ quote["market"] * ScaleUp \in Nat
          /\ quote'["market"] * ScaleUp \in Nat
      BY ScaleAssumption DEF TypeOK, Holders, MarketUntouched
    <2>4. (curveCollateral' + graduationDust') * ScaleDown
             <= quote'["market"] * ScaleUp
      BY <2>1, <2>2, <2>3 DEF MarketUntouched, marketVars
    <2>5. status' # "GRADUATED" => TotalSupply - distributed' <= token'["market"]
      BY CurveConstants
         DEF MarketHoldsWhatItOwes, MarketUntouched, marketVars, TypeOK, Holders
    <2> QED  BY <2>4, <2>5 DEF MarketHoldsWhatItOwes
  <1>3. ClosedExactlyAtEndpoint'
    BY DEF ClosedExactlyAtEndpoint, MarketUntouched, marketVars
  <1> QED  BY <1>1, <1>2, <1>3

-----------------------------------------------------------------------------
(* Steps of the environment *)

(* An unsolicited transfer is never counted as collateral or as a fee.     *)
LEMMA DonateKeepsIInv ==
    ASSUME IInv, NEW amount \in DonationAmounts, Donate(amount)
    PROVE  IInv'
  <1> USE MarketAssumption DEF IInv
  <1>1. /\ token' \in [Holders -> Nat] /\ quote' \in [Holders -> Nat]
        /\ BooksUntouched /\ MarketUntouched
    BY DEF TypeOK, Donate, Sent, BooksUntouched, MarketUntouched, Balance,
           Holders, marketVars, vaultVars, feeHistory
  <1>2. TypeOK'
    BY <1>1 DEF TypeOK, Donate, Disturb, marketVars, vaultVars, feeHistory
  <1> QED  BY <1>1, <1>2, UntouchedKeepsBooks, UntouchedKeepsMarket

(* LP fees of the pool belong to the position until they are collected.    *)
LEMMA SwapInPoolKeepsIInv ==
    ASSUME IInv, NEW onToken \in SwapFees, NEW onQuote \in SwapFees,
           SwapInPool(onToken, onQuote)
    PROVE  IInv'
  <1> USE MarketAssumption DEF IInv
  <1>1. /\ token' \in [Holders -> Nat] /\ quote' \in [Holders -> Nat]
        /\ BooksUntouched /\ MarketUntouched
    BY DEF TypeOK, SwapInPool, Sent, BooksUntouched, MarketUntouched, Balance,
           Holders, marketVars, vaultVars, feeHistory
  <1>2. TypeOK'
    BY <1>1 DEF TypeOK, SwapInPool, Disturb, marketVars, vaultVars, feeHistory
  <1> QED  BY <1>1, <1>2, UntouchedKeepsBooks, UntouchedKeepsMarket

(* Neither the pool's price nor a stuttering step moves an amount.         *)
LEMMA NothingMovedKeepsIInv ==
    ASSUME IInv, UNCHANGED <<marketVars, vaultVars, token, quote, feeHistory>>,
           poolPrice' \in {"none", "atCurve", "displaced"}, disturbances' \in Nat
    PROVE  IInv'
  <1> USE DEF IInv
  <1>1. BooksUntouched /\ MarketUntouched
    BY DEF TypeOK, BooksUntouched, MarketUntouched, Balance, Holders,
           marketVars, vaultVars, feeHistory
  <1>2. TypeOK'
    BY DEF TypeOK, marketVars, vaultVars, feeHistory
  <1> QED  BY <1>1, <1>2, UntouchedKeepsBooks, UntouchedKeepsMarket

-----------------------------------------------------------------------------
(* LP fees *)

(* LP fees collected directly only raise what the market holds.            *)
LEMMA LockCollectKeepsIInv ==
    ASSUME IInv, LockCollect
    PROVE  IInv'
  <1> USE MarketAssumption DEF IInv
  <1>1. /\ token' \in [Holders -> Nat] /\ quote' \in [Holders -> Nat]
        /\ BooksUntouched /\ MarketUntouched
    BY DEF TypeOK, LockCollect, BooksUntouched, MarketUntouched, Balance,
           Holders, marketVars, vaultVars
  <1>2. lpCollected' \in [Assets -> Nat]
    BY DEF TypeOK, LockCollect, Fee, Holders
  <1>3. TypeOK'
    BY <1>1, <1>2 DEF TypeOK, LockCollect, marketVars, vaultVars, poolVars
  <1> QED  BY <1>1, <1>3, UntouchedKeepsBooks, UntouchedKeepsMarket

(* collectPostGradFees forwards exactly what it split and accrued.         *)
LEMMA CollectPostGradFeesKeepsIInv ==
    ASSUME IInv, CollectPostGradFees
    PROVE  IInv'
  <1> USE MarketAssumption DEF IInv
  <1> DEFINE tokenFees == token["pool"]
             quoteFees == quote["pool"]
             stockback == StockbackPart(quoteFees)
             charged  == Fee(tokenFees, quoteFees)
             creator  == Fee(CreatorPart(tokenFees), CreatorPart(quoteFees))
             platform == Fee(PlatformPart(tokenFees),
                             PlatformPart(quoteFees) - stockback)
  <1>1. tokenFees \in Nat /\ quoteFees \in Nat
    BY DEF TypeOK, Holders
  <1>2. /\ CreatorPart(tokenFees) \in Nat /\ PlatformPart(tokenFees) \in Nat
        /\ CreatorPart(tokenFees) + PlatformPart(tokenFees) = tokenFees
        /\ CreatorShareBps * tokenFees <= BPS * CreatorPart(tokenFees)
        /\ CreatorPart(quoteFees) \in Nat /\ PlatformPart(quoteFees) \in Nat
        /\ CreatorPart(quoteFees) + PlatformPart(quoteFees) = quoteFees
        /\ CreatorShareBps * quoteFees <= BPS * CreatorPart(quoteFees)
    BY <1>1, SplitProtectsCreator
  <1>3. /\ stockback \in Nat /\ stockback <= PlatformPart(quoteFees)
        /\ stockback <= quoteFees
    BY <1>1, <1>2 DEF StockbackPart
  <1> HIDE DEF stockback
  <1>4. /\ charged \in [Assets -> Nat]
        /\ creator \in [Assets -> Nat] /\ platform \in [Assets -> Nat]
    BY <1>1, <1>2, <1>3 DEF Fee
  <1>5. /\ token' = [token EXCEPT !["pool"] = 0, !["feeVault"] = @ + tokenFees]
        /\ quote' = [quote EXCEPT
              !["pool"]        = 0,
              !["feeVault"]    = @ + (quoteFees - stockback),
              !["rewardVault"] = @ + stockback]
        /\ Accrue(creator, platform)
        /\ lpCollected' = [a \in Assets |->
                             lpCollected[a] + Fee(tokenFees, quoteFees)[a]]
        /\ lpSettled' = [a \in Assets |->
                             lpSettled[a] + Fee(tokenFees, quoteFees)[a]]
        /\ revenue' = [a \in Assets |->
                             revenue[a] + Fee(tokenFees, quoteFees)[a]]
        /\ UNCHANGED <<marketVars, poolVars>>
    BY DEF CollectPostGradFees, stockback
  <1>6. /\ token' \in [Holders -> Nat] /\ quote' \in [Holders -> Nat]
        /\ MarketUntouched
    BY <1>1, <1>3, <1>5 DEF TypeOK, MarketUntouched, Holders, marketVars
  <1>7. /\ lpCollected' \in [Assets -> Nat] /\ lpSettled' \in [Assets -> Nat]
        /\ revenue' \in [Assets -> Nat]
    BY <1>1, <1>5 DEF TypeOK, Fee
  <1>8. FeesArrive(charged, creator, platform)
    <2>1. ASSUME NEW a \in Assets
          PROVE  /\ CreatorShareBps * charged[a] <= BPS * creator[a]
                 /\ Balance(a)'["feeVault"]
                       = Balance(a)["feeVault"] + (creator[a] + platform[a])
                 /\ Balance(a)'["feeVault"] \in Nat
                 /\ Balance(a)'["creator"] = Balance(a)["creator"]
      <3>1. CASE a = "TOKEN"
        BY <1>1, <1>2, <1>5, <1>6, <3>1 DEF Fee, Balance, TypeOK, Holders
      <3>2. CASE a = "QUOTE"
        BY <1>1, <1>2, <1>3, <1>5, <1>6, <3>2 DEF Fee, Balance, TypeOK, Holders
      <3> QED  BY <3>1, <3>2
    <2> QED  BY <1>5, <2>1, <1>4 DEF FeesArrive
  <1>9. BooksTyped' /\ VaultHoldsWhatItOwes' /\ CreatorNeverBelowShare'
    BY <1>4, <1>8, AccrueKeepsBooks
  <1>10. TypeOK'
    BY <1>5, <1>6, <1>7, <1>9 DEF TypeOK, BooksTyped, marketVars, poolVars
  <1> QED  BY <1>6, <1>9, <1>10, UntouchedKeepsMarket

-----------------------------------------------------------------------------
(* The vault's exits *)

(* What PayOut(a, to, amount) does to every balance.                       *)
LEMMA PayOutMoves ==
    ASSUME TypeOK, NEW a \in Assets, NEW to \in {"creator", "treasury"},
           NEW amount \in Nat, amount <= Balance(a)["feeVault"],
           PayOut(a, to, amount)
    PROVE  /\ token' \in [Holders -> Nat] /\ quote' \in [Holders -> Nat]
           /\ MarketUntouched
           /\ Balance(a)'["feeVault"] = Balance(a)["feeVault"] - amount
           /\ Balance(a)'["creator"] = Balance(a)["creator"]
                 + (IF to = "creator" THEN amount ELSE 0)
           /\ \A b \in Assets \ {a} :
                 /\ Balance(b)'["feeVault"] = Balance(b)["feeVault"]
                 /\ Balance(b)'["creator"] = Balance(b)["creator"]
  <1> USE MarketAssumption
          DEF PayOut, Paid, TypeOK, Balance, Holders, MarketUntouched, marketVars
  <1>1. CASE a = "TOKEN"
    BY <1>1
  <1>2. CASE a = "QUOTE"
    BY <1>2
  <1> QED  BY <1>1, <1>2

(* claimCreatorFees pays the booked balance, which the vault holds.        *)
LEMMA ClaimCreatorFeesKeepsIInv ==
    ASSUME IInv, NEW a \in Assets, ClaimCreatorFees(a)
    PROVE  IInv'
  <1> USE DEF IInv
  <1> DEFINE amount == creatorBalance[a]
  <1>1. /\ amount \in Nat /\ platformBalance[a] \in Nat
        /\ amount + platformBalance[a] = totalAccrued[a] - totalClaimed[a]
        /\ totalAccrued[a] - totalClaimed[a] <= Balance(a)["feeVault"]
        /\ \A b \in Assets, h \in Holders : Balance(b)[h] \in Nat
    BY BalancesAreNatural DEF TypeOK, VaultHoldsWhatItOwes, Outstanding
  <1>2. amount <= Balance(a)["feeVault"]
    BY <1>1 DEF TypeOK, Holders
  <1>3. PayOut(a, "creator", amount) /\ ClaimCreator(a)
    BY DEF ClaimCreatorFees
  <1>4. /\ token' \in [Holders -> Nat] /\ quote' \in [Holders -> Nat]
        /\ MarketUntouched
        /\ Balance(a)'["feeVault"] = Balance(a)["feeVault"] - amount
        /\ Balance(a)'["creator"] = Balance(a)["creator"] + amount
        /\ \A b \in Assets \ {a} :
              /\ Balance(b)'["feeVault"] = Balance(b)["feeVault"]
              /\ Balance(b)'["creator"] = Balance(b)["creator"]
    BY <1>1, <1>2, <1>3, PayOutMoves
  <1>5. BooksTyped'
    BY <1>1, <1>3
       DEF BooksTyped, ClaimCreator, TypeOK, PayOut, feeHistory
  <1>6. TypeOK'
    BY <1>3, <1>4, <1>5
       DEF TypeOK, BooksTyped, PayOut, marketVars, poolVars, feeHistory
  <1>7. VaultHoldsWhatItOwes'
    <2> SUFFICES ASSUME NEW b \in Assets
                 PROVE  /\ creatorBalance'[b] + platformBalance'[b]
                              = totalAccrued'[b] - totalClaimed'[b]
                        /\ totalAccrued'[b] - totalClaimed'[b]
                              <= Balance(b)'["feeVault"]
      BY DEF VaultHoldsWhatItOwes, Outstanding
    <2>1. CASE b = a
      <3>1. /\ creatorBalance'[a] = 0 /\ platformBalance'[a] = platformBalance[a]
            /\ totalAccrued'[a] = totalAccrued[a]
            /\ totalClaimed'[a] = totalClaimed[a] + amount
        BY <1>3 DEF ClaimCreator, TypeOK
      <3>2. /\ totalAccrued[a] \in Nat /\ totalClaimed[a] \in Nat
            /\ Balance(a)["feeVault"] \in Nat
        BY <1>1 DEF TypeOK, Holders
      <3> HIDE DEF amount
      <3> QED  BY <1>1, <1>4, <2>1, <3>1, <3>2
    <2>2. CASE b # a
      BY <1>3, <1>4, <2>2
         DEF ClaimCreator, TypeOK, VaultHoldsWhatItOwes, Outstanding
    <2> QED  BY <2>1, <2>2
  <1>8. CreatorNeverBelowShare'
    <2> SUFFICES ASSUME NEW b \in Assets
                 PROVE  CreatorShareBps * revenue'[b] <=
                          BPS * (creatorBalance'[b] + Balance(b)'["creator"])
      BY DEF CreatorNeverBelowShare
    <2>1. revenue'[b] = revenue[b]
      BY <1>3 DEF PayOut, feeHistory
    <2>2. creatorBalance'[b] + Balance(b)'["creator"]
             = creatorBalance[b] + Balance(b)["creator"]
      BY <1>1, <1>3, <1>4 DEF ClaimCreator, TypeOK, Holders
    <2> QED  BY <2>1, <2>2 DEF CreatorNeverBelowShare
  <1> QED  BY <1>4, <1>6, <1>7, <1>8, UntouchedKeepsMarket

(* settlePlatformFees pays the booked balance, which the vault holds.      *)
LEMMA SettlePlatformFeesKeepsIInv ==
    ASSUME IInv, NEW a \in Assets, SettlePlatformFees(a)
    PROVE  IInv'
  <1> USE DEF IInv
  <1> DEFINE amount == platformBalance[a]
  <1>1. /\ amount \in Nat /\ creatorBalance[a] \in Nat
        /\ creatorBalance[a] + amount = totalAccrued[a] - totalClaimed[a]
        /\ totalAccrued[a] - totalClaimed[a] <= Balance(a)["feeVault"]
        /\ \A b \in Assets, h \in Holders : Balance(b)[h] \in Nat
    BY BalancesAreNatural DEF TypeOK, VaultHoldsWhatItOwes, Outstanding
  <1>2. amount <= Balance(a)["feeVault"]
    BY <1>1 DEF TypeOK, Holders
  <1>3. PayOut(a, "treasury", amount) /\ SettlePlatform(a)
    BY DEF SettlePlatformFees
  <1>4. /\ token' \in [Holders -> Nat] /\ quote' \in [Holders -> Nat]
        /\ MarketUntouched
        /\ Balance(a)'["feeVault"] = Balance(a)["feeVault"] - amount
        /\ Balance(a)'["creator"] = Balance(a)["creator"]
        /\ \A b \in Assets \ {a} :
              /\ Balance(b)'["feeVault"] = Balance(b)["feeVault"]
              /\ Balance(b)'["creator"] = Balance(b)["creator"]
    BY <1>1, <1>2, <1>3, PayOutMoves DEF Holders
  <1>5. BooksTyped'
    BY <1>1, <1>3
       DEF BooksTyped, SettlePlatform, TypeOK, PayOut, feeHistory
  <1>6. TypeOK'
    BY <1>3, <1>4, <1>5
       DEF TypeOK, BooksTyped, PayOut, marketVars, poolVars, feeHistory
  <1>7. VaultHoldsWhatItOwes'
    <2> SUFFICES ASSUME NEW b \in Assets
                 PROVE  /\ creatorBalance'[b] + platformBalance'[b]
                              = totalAccrued'[b] - totalClaimed'[b]
                        /\ totalAccrued'[b] - totalClaimed'[b]
                              <= Balance(b)'["feeVault"]
      BY DEF VaultHoldsWhatItOwes, Outstanding
    <2>1. CASE b = a
      <3>1. /\ platformBalance'[a] = 0 /\ creatorBalance'[a] = creatorBalance[a]
            /\ totalAccrued'[a] = totalAccrued[a]
            /\ totalClaimed'[a] = totalClaimed[a] + amount
        BY <1>3 DEF SettlePlatform, TypeOK
      <3>2. /\ totalAccrued[a] \in Nat /\ totalClaimed[a] \in Nat
            /\ Balance(a)["feeVault"] \in Nat
        BY <1>1 DEF TypeOK, Holders
      <3> HIDE DEF amount
      <3> QED  BY <1>1, <1>4, <2>1, <3>1, <3>2
    <2>2. CASE b # a
      BY <1>3, <1>4, <2>2
         DEF SettlePlatform, TypeOK, VaultHoldsWhatItOwes, Outstanding
    <2> QED  BY <2>1, <2>2
  <1>8. CreatorNeverBelowShare'
    <2>1. revenue' = revenue /\ creatorBalance' = creatorBalance
      BY <1>3 DEF PayOut, feeHistory, SettlePlatform
    <2>2. \A b \in Assets : Balance(b)'["creator"] = Balance(b)["creator"]
      BY <1>4
    <2> QED  BY <2>1, <2>2 DEF CreatorNeverBelowShare
  <1> QED  BY <1>4, <1>6, <1>7, <1>8, UntouchedKeepsMarket

-----------------------------------------------------------------------------
(* Graduation *)

(* The market holds everything it is about to hand to the router.          *)
LEMMA EscrowIsHeld ==
    ASSUME TypeOK, MarketHoldsWhatItOwes, ClosedExactlyAtEndpoint,
           status = "GRADUATING"
    PROVE  /\ TokensToMigrate \in Nat /\ TokensToMigrate <= token["market"]
           /\ QuoteRawToMigrate \in Nat /\ DustRawToMigrate \in Nat
           /\ QuoteRawToMigrate + DustRawToMigrate <= quote["market"]
  <1>1. TokensToMigrate \in Nat /\ TokensToMigrate <= token["market"]
    BY CurveConstants
       DEF TypeOK, MarketHoldsWhatItOwes, ClosedExactlyAtEndpoint, TokensToMigrate
  <1>2. /\ QuoteRawToMigrate \in Nat /\ DustRawToMigrate \in Nat
        /\ QuoteRawToMigrate * ScaleUp <= curveCollateral * ScaleDown
        /\ DustRawToMigrate * ScaleUp <= graduationDust * ScaleDown
    BY ToRawBound DEF TypeOK, QuoteRawToMigrate, DustRawToMigrate
  <1>3. (curveCollateral + graduationDust) * ScaleDown
           <= quote["market"] * ScaleUp
    BY DEF MarketHoldsWhatItOwes
  <1>4. /\ curveCollateral \in Nat /\ graduationDust \in Nat
        /\ quote["market"] \in Nat /\ ScaleUp \in Nat /\ ScaleDown \in Nat
    BY ScaleAssumption DEF TypeOK, Holders
  <1>5. (QuoteRawToMigrate + DustRawToMigrate) * ScaleUp
           <= quote["market"] * ScaleUp
    BY <1>2, <1>3, <1>4
  <1>6. QuoteRawToMigrate + DustRawToMigrate \in Nat
    BY <1>2
  <1>7. QuoteRawToMigrate + DustRawToMigrate <= quote["market"]
    BY <1>4, <1>5, <1>6, CancelScale
  <1> QED  BY <1>1, <1>2, <1>7

(* finalizeGraduation moves the reserve and the escrow, never a donation,  *)
(* and leaves nothing owed behind.                                         *)
LEMMA FinalizeGraduationKeepsIInv ==
    ASSUME IInv, FinalizeGraduation
    PROVE  IInv'
  <1> USE DEF IInv
  <1> DEFINE quoteTotal == QuoteRawToMigrate + DustRawToMigrate
  <1>1. /\ TokensToMigrate \in Nat /\ TokensToMigrate <= token["market"]
        /\ quoteTotal \in Nat /\ quoteTotal <= quote["market"]
    BY EscrowIsHeld DEF FinalizeGraduation
  <1>2. PICK tokenDust \in MintDusts, quoteDust \in MintDusts :
           /\ tokenDust < TokensToMigrate /\ quoteDust < quoteTotal
           /\ token' = [token EXCEPT
                 !["market"]   = @ - TokensToMigrate,
                 !["position"] = @ + TokensToMigrate - tokenDust,
                 !["lock"]     = @ + tokenDust]
           /\ quote' = [quote EXCEPT
                 !["market"]   = @ - quoteTotal,
                 !["position"] = @ + quoteTotal - quoteDust,
                 !["lock"]     = @ + quoteDust]
    BY DEF FinalizeGraduation
  <1>3. tokenDust \in Nat /\ quoteDust \in Nat
    BY MarketAssumption
  <1> HIDE DEF quoteTotal
  <1>4. token' \in [Holders -> Nat] /\ quote' \in [Holders -> Nat]
    BY <1>1, <1>2, <1>3 DEF TypeOK, Holders
  <1>5. BooksUntouched
    BY <1>2 DEF BooksUntouched, FinalizeGraduation, Balance, TypeOK, Holders,
                vaultVars, feeHistory
  <1>6. BooksTyped' /\ VaultHoldsWhatItOwes' /\ CreatorNeverBelowShare'
    BY <1>5, UntouchedKeepsBooks
  <1>7. TypeOK'
    BY <1>4, <1>6 DEF TypeOK, BooksTyped, FinalizeGraduation, feeHistory
  <1>8. MarketHoldsWhatItOwes'
    <2>1. curveCollateral' = 0 /\ graduationDust' = 0 /\ status' = "GRADUATED"
      BY DEF FinalizeGraduation
    <2>2. quote'["market"] * ScaleUp \in Nat
      BY <1>4, ScaleAssumption DEF Holders
    <2> QED  BY <2>1, <2>2, ScaleAssumption DEF MarketHoldsWhatItOwes
  <1>9. CollateralCoversEveryExit' /\ ClosedExactlyAtEndpoint'
    BY DEF FinalizeGraduation, CollateralCoversEveryExit,
           ClosedExactlyAtEndpoint
  <1> QED  BY <1>6, <1>7, <1>8, <1>9

-----------------------------------------------------------------------------
(* Trades *)

(* A trade on the curve pays its raw core fee to the vault and books it.   *)
LEMMA TradeKeepsBooks ==
    ASSUME TypeOK, VaultHoldsWhatItOwes, CreatorNeverBelowShare,
           NEW f, f.coreFee \in Nat, BookFees(f),
           quote' \in [Holders -> Nat], token' \in [Holders -> Nat],
           quote'["feeVault"] = quote["feeVault"] + CoreRaw(f),
           quote'["creator"] = quote["creator"],
           token'["feeVault"] = token["feeVault"],
           token'["creator"] = token["creator"]
    PROVE  BooksTyped' /\ VaultHoldsWhatItOwes' /\ CreatorNeverBelowShare'
  <1> USE MarketAssumption
  <1> DEFINE core     == CoreRaw(f)
             charged  == Fee(0, core)
             creator  == Fee(0, CreatorPart(core))
             platform == Fee(0, PlatformPart(core))
  <1>1. core \in Nat
    BY ToRawBound DEF CoreRaw
  <1> HIDE DEF core
  <1>2. /\ CreatorPart(core) \in Nat /\ PlatformPart(core) \in Nat
        /\ CreatorPart(core) + PlatformPart(core) = core
        /\ CreatorShareBps * core <= BPS * CreatorPart(core)
    BY <1>1, SplitProtectsCreator
  <1>3. /\ charged \in [Assets -> Nat]
        /\ creator \in [Assets -> Nat] /\ platform \in [Assets -> Nat]
    BY <1>1, <1>2 DEF Fee
  <1>4. /\ Accrue(creator, platform)
        /\ revenue' = [revenue EXCEPT !["QUOTE"] = @ + core]
    BY DEF BookFees, core
  <1>5. revenue' = [a \in Assets |-> revenue[a] + charged[a]]
    <2>1. charged["TOKEN"] = 0 /\ charged["QUOTE"] = core
      BY DEF Fee
    <2>2. \A a \in Assets : revenue'[a] = revenue[a] + charged[a]
      BY <1>1, <1>4, <2>1 DEF TypeOK
    <2>3. revenue' = [a \in Assets |-> revenue'[a]]
      BY <1>4 DEF TypeOK
    <2> QED  BY <2>2, <2>3
  <1>6. ASSUME NEW a \in Assets
        PROVE  /\ CreatorShareBps * charged[a] <= BPS * creator[a]
               /\ Balance(a)["feeVault"] + (creator[a] + platform[a])
                     <= Balance(a)'["feeVault"]
               /\ Balance(a)'["feeVault"] \in Nat
               /\ Balance(a)'["creator"] = Balance(a)["creator"]
    <2>1. CASE a = "TOKEN"
      <3>1. charged[a] = 0 /\ creator[a] = 0 /\ platform[a] = 0
        BY <2>1 DEF Fee
      <3> QED  BY <2>1, <3>1, FeeAssumption DEF Balance, TypeOK, Holders
    <2>2. CASE a = "QUOTE"
      BY <1>1, <1>2, <2>2 DEF Fee, Balance, TypeOK, Holders, core
    <2> QED  BY <2>1, <2>2
  <1> HIDE DEF charged, creator, platform
  <1>7. FeesArrive(charged, creator, platform)
    BY <1>4, <1>5, <1>6 DEF FeesArrive
  <1> QED  BY <1>3, <1>7, AccrueKeepsBooks

(* A buy that falls short of the endpoint: its net pays for the area it    *)
(* takes, and its fees leave the market in no more than their own units.   *)
LEMMA OrdinaryBuyKeepsIInv ==
    ASSUME IInv, NEW raw \in BuyAmounts, raw <= quote["outside"],
           status = "PRE_GRAD", UNCHANGED poolVars,
           IsOrdinary(ForBuy(ToNormalized(raw))),
           ExecutePreGradBuy(raw, ForBuy(ToNormalized(raw)))
    PROVE  IInv'
  <1> USE DEF IInv
  <1> DEFINE gross == ToNormalized(raw)
             f     == ForBuy(gross)
             out   == TokensOutFor(distributed, f.net)
             core  == CoreRaw(f)
             sb    == StockbackRaw(f)
  <1>1. raw \in Nat /\ gross \in Nat /\ gross * ScaleDown <= raw * ScaleUp
    BY ToNormalizedBound, MarketAssumption
  <1>2. /\ f.coreFee \in Nat /\ f.stockback \in Nat /\ f.net \in Nat
        /\ f.coreFee + f.stockback + f.net = gross
    BY <1>1, ForBuyIsExact
  <1>3. /\ core \in Nat /\ core * ScaleUp <= f.coreFee * ScaleDown
        /\ sb \in Nat /\ sb * ScaleUp <= f.stockback * ScaleDown
    BY <1>2, ToRawBound DEF CoreRaw, StockbackRaw
  <1>4. distributed \in 0 .. QG /\ distributed < QG /\ distributed \in Nat
    BY CurveConstants DEF TypeOK, ClosedExactlyAtEndpoint
  <1>5. out \in 0 .. (QG - distributed) /\ QuoteInFor(distributed, out) <= f.net
    BY <1>2, <1>4, TokensOutWithinNet
  <1>6. f.net < QuoteInFor(distributed, QG - distributed)
    BY DEF IsOrdinary, NetToEndpoint, RemainingSupply
  <1> HIDE DEF gross, f, out, core, sb
  <1>7. out \in Nat /\ out < QG - distributed
    <2>1. out \in Nat /\ out <= QG - distributed
      BY <1>4, <1>5, CurveConstants
    <2>2. QuoteInFor(distributed, out) \in Nat
      BY <1>4, <2>1, QuoteInCoversArea
    <2>3. ASSUME out = QG - distributed PROVE FALSE
      <3>1. f.net < QuoteInFor(distributed, out)
        BY <1>6, <2>3
      <3> QED  BY <1>2, <1>5, <2>2, <3>1
    <2> QED  BY <1>4, <2>1, <2>3, CurveConstants
  <1>8. /\ distributed' = distributed + out
        /\ curveCollateral' = curveCollateral + f.net
        /\ token' = [token EXCEPT !["market"] = @ - out, !["outside"] = @ + out]
        /\ quote' = [quote EXCEPT
              !["outside"]     = @ - raw,
              !["market"]      = @ + raw - core - sb,
              !["feeVault"]    = @ + core,
              !["rewardVault"] = @ + sb]
        /\ BookFees(f)
        /\ UNCHANGED <<status, graduationDust, liquidityLock>>
    BY DEF ExecutePreGradBuy, gross, f, out, core, sb
  <1>9. /\ core + sb <= raw
        /\ (curveCollateral + graduationDust + f.net) * ScaleDown
              <= (quote["market"] + raw - core - sb) * ScaleUp
    <2>1. /\ curveCollateral + graduationDust \in Nat /\ quote["market"] \in Nat
          /\ (curveCollateral + graduationDust) * ScaleDown
                <= quote["market"] * ScaleUp
      BY DEF TypeOK, Holders, MarketHoldsWhatItOwes
    <2> QED  BY <1>1, <1>2, <1>3, <2>1, InflowCovers
  <1>10. token' \in [Holders -> Nat]
    <2>1. out <= token["market"]
      BY <1>4, <1>7, CurveConstants
         DEF TypeOK, Holders, MarketHoldsWhatItOwes
    <2> QED  BY <1>7, <1>8, <2>1 DEF TypeOK, Holders
  <1>11. quote' \in [Holders -> Nat]
    BY <1>1, <1>3, <1>8, <1>9 DEF TypeOK, Holders
  <1>12. BooksTyped' /\ VaultHoldsWhatItOwes' /\ CreatorNeverBelowShare'
    BY <1>2, <1>8, <1>10, <1>11, TradeKeepsBooks DEF TypeOK, Holders, core
  <1>13. TypeOK'
    BY <1>2, <1>7, <1>8, <1>10, <1>11, <1>12
       DEF TypeOK, BooksTyped, BookFees, poolVars
  <1>14. CollateralCoversEveryExit'
    <2>1. Area(distributed + out)
            <= Area(distributed) + Scale * QuoteInFor(distributed, out)
      BY <1>4, <1>7, QuoteInCoversArea
    <2>2. /\ QuoteInFor(distributed, out) \in Nat
          /\ Area(distributed) \in Nat /\ Area(distributed + out) \in Nat
      BY <1>4, <1>7, AreaIsNatural, QuoteInCoversArea, distributed + out \in Nat
    <2>3. Scale * QuoteInFor(distributed, out) <= Scale * f.net
      BY <1>2, <1>5, <2>2, ScaleIsMonotone
    <2>4. Area(distributed) <= Scale * curveCollateral
      BY DEF CollateralCoversEveryExit
    <2>5. curveCollateral \in Nat
      BY DEF TypeOK
    <2>6. /\ Scale * (curveCollateral + f.net)
                = Scale * curveCollateral + Scale * f.net
          /\ Scale * curveCollateral \in Nat /\ Scale * f.net \in Nat
          /\ Scale * QuoteInFor(distributed, out) \in Nat
      BY <1>2, <2>2, <2>5, ScaleIsMonotone
    <2>7. Area(distributed + out) <= Scale * (curveCollateral + f.net)
      BY <2>1, <2>2, <2>3, <2>4, <2>6
    <2> QED  BY <1>8, <2>7 DEF CollateralCoversEveryExit
  <1>15. MarketHoldsWhatItOwes'
    <2>1. /\ quote'["market"] = quote["market"] + raw - core - sb
          /\ token'["market"] = token["market"] - out
      BY <1>8 DEF TypeOK, Holders
    <2>2. curveCollateral' + graduationDust'
             = curveCollateral + graduationDust + f.net
      BY <1>2, <1>8 DEF TypeOK
    <2>3. TotalSupply - (distributed + out) <= token["market"] - out
      BY <1>4, <1>7, CurveConstants DEF MarketHoldsWhatItOwes, TypeOK, Holders
    <2> QED  BY <1>8, <1>9, <2>1, <2>2, <2>3 DEF MarketHoldsWhatItOwes
  <1>16. ClosedExactlyAtEndpoint'
    BY <1>4, <1>7, <1>8, CurveConstants DEF ClosedExactlyAtEndpoint
  <1> QED  BY <1>12, <1>13, <1>14, <1>15, <1>16

(* GrossForNet returns a natural: its two walks are defined.               *)
LEMMA GrossForNetIsNatural ==
    ASSUME NEW target \in Nat
    PROVE  GrossForNet(target) \in Nat
  <1> DEFINE netBps   == BPS - CoreFeeBps - StockbackBuyBps
             estimate == (target * BPS + netBps - 1) \div netBps
             top      == estimate + StepsUp(estimate, target)
  <1>1. netBps \in Nat \ {0} /\ target * BPS \in Nat
    BY FeeAssumption
  <1>2. estimate \in Nat
    BY <1>1, CeilDiv
  <1> HIDE DEF netBps, estimate
  <1>3. StepsUp(estimate, target) \in 0 .. MaxFeeSearchSteps
    <2> DEFINE Stop(i) == i = MaxFeeSearchSteps \/ Covers(estimate + i, target)
               S == {i \in 0 .. MaxFeeSearchSteps : Stop(i)}
    <2>1. S \subseteq Nat /\ MaxFeeSearchSteps \in S
      BY MarketAssumption
    <2>2. PICK i \in S : \A j \in S : i <= j
      BY <2>1, LeastNatural, S # {}
    <2>3. \A j \in 0 .. (i - 1) : ~ Covers(estimate + j, target)
      BY <2>1, <2>2, MarketAssumption
    <2> QED  BY <2>2, <2>3 DEF StepsUp
  <1>4. top \in Nat
    BY <1>2, <1>3, MarketAssumption
  <1> HIDE DEF top
  <1>5. /\ StepsDown(top, target) \in 0 .. MaxFeeSearchSteps
        /\ top - StepsDown(top, target) \in Nat
    <2> DEFINE Stop(i) == i = MaxFeeSearchSteps \/ WalkDownStops(top - i, target)
               S == {i \in 0 .. MaxFeeSearchSteps : Stop(i)}
    <2>1. S \subseteq Nat /\ MaxFeeSearchSteps \in S
      BY MarketAssumption
    <2>2. PICK i \in S : \A j \in S : i <= j
      BY <2>1, LeastNatural, S # {}
    <2>3. \A j \in 0 .. (i - 1) : ~ WalkDownStops(top - j, target)
      BY <2>1, <2>2, MarketAssumption
    <2>4. /\ StepsDown(top, target) \in 0 .. MaxFeeSearchSteps
          /\ \A j \in 0 .. (StepsDown(top, target) - 1) :
                ~ WalkDownStops(top - j, target)
      BY <2>2, <2>3 DEF StepsDown
    <2>5. top \in 0 .. (StepsDown(top, target) - 1)
             => ~ WalkDownStops(top - top, target)
      BY <2>4
    <2>6. WalkDownStops(top - top, target)
      BY <1>4 DEF WalkDownStops
    <2> QED  BY <1>4, <2>4, <2>5, <2>6, MarketAssumption
  <1> QED  BY <1>4, <1>5 DEF GrossForNet, top, estimate, netBps

(* The buy that closes the curve: the fee search covers the rest of the    *)
(* curve, and refund, excess and dust account for all that is left.        *)
LEMMA CrossingBuyKeepsIInv ==
    ASSUME IInv, NEW raw \in BuyAmounts, raw <= quote["outside"],
           status = "PRE_GRAD", UNCHANGED poolVars,
           ExecuteCrossingBuy(raw, ToNormalized(raw))
    PROVE  IInv'
  <1> USE DEF IInv
  <1> DEFINE gross  == ToNormalized(raw)
             rest   == QG - distributed
             net    == QuoteInFor(distributed, rest)
             pg     == PreGradGross(gross)
             f      == ForBuy(pg)
             core   == CoreRaw(f)
             sb     == StockbackRaw(f)
             refund == gross - pg
             rr     == RefundRaw(gross)
             back   == ToNormalized(rr)
             dust   == f.net - net + (refund - back)
  <1>1. raw \in Nat /\ gross \in Nat /\ gross * ScaleDown <= raw * ScaleUp
    BY ToNormalizedBound, MarketAssumption
  <1>2. /\ distributed \in Nat /\ rest \in Nat /\ rest # 0
        /\ distributed + rest = QG
    BY CurveConstants DEF TypeOK, ClosedExactlyAtEndpoint
  <1>3. net \in Nat /\ Area(QG) <= Area(distributed) + Scale * net
    BY <1>2, QuoteInCoversArea
  <1>4. NetToEndpoint = net /\ RemainingSupply = rest
    BY DEF NetToEndpoint, RemainingSupply
  <1> HIDE DEF gross, rest, net
  <1>5. pg \in Nat /\ refund \in Nat
    <2>1. GrossForNet(net) \in Nat
      BY <1>3, GrossForNetIsNatural
    <2> QED  BY <1>1, <1>4, <2>1 DEF PreGradGross
  <1>6. /\ f.coreFee \in Nat /\ f.stockback \in Nat /\ f.net \in Nat
        /\ f.coreFee + f.stockback + f.net = pg
    BY <1>5, ForBuyIsExact
  <1>7. net <= f.net
    BY <1>3, <1>4, <1>6 DEF ExecuteCrossingBuy, CrossingCovered, Covers, gross
  <1>8. /\ core \in Nat /\ core * ScaleUp <= f.coreFee * ScaleDown
        /\ sb \in Nat /\ sb * ScaleUp <= f.stockback * ScaleDown
    BY <1>6, ToRawBound DEF CoreRaw, StockbackRaw
  <1>9. /\ rr \in Nat /\ back \in Nat /\ back <= refund
        /\ back * ScaleDown = rr * ScaleUp
    BY <1>5, ToRawBound, ToNormalizedBound, PayoutConvertsBack DEF RefundRaw
  <1>10. /\ distributed' = distributed + rest
         /\ curveCollateral' = curveCollateral + net
         /\ graduationDust' = graduationDust + dust
         /\ status' = "GRADUATING"
         /\ token' = [token EXCEPT !["market"] = @ - rest,
                                   !["outside"] = @ + rest]
         /\ quote' = [quote EXCEPT
               !["outside"]     = @ - raw + rr,
               !["market"]      = @ + raw - (core + sb) - rr,
               !["feeVault"]    = @ + core,
               !["rewardVault"] = @ + sb]
         /\ BookFees(f)
         /\ UNCHANGED liquidityLock
    BY <1>4 DEF ExecuteCrossingBuy, CrossingDust, gross
  <1> HIDE DEF pg, f, core, sb, refund, rr, back
  <1>11. dust \in Nat /\ net + dust = f.net + (refund - back)
    BY <1>3, <1>5, <1>6, <1>7, <1>9
  <1> HIDE DEF dust
  <1> DEFINE owed == curveCollateral + graduationDust
             kept == quote["market"] + raw - (core + sb) - rr
  <1>12. /\ kept \in Nat
         /\ (owed + (net + dust)) * ScaleDown <= kept * ScaleUp
    <2>1. /\ owed \in Nat /\ quote["market"] \in Nat
          /\ owed * ScaleDown <= quote["market"] * ScaleUp
      BY DEF TypeOK, Holders, MarketHoldsWhatItOwes
    <2>2. f.coreFee + f.stockback + (f.net + refund) = gross
      BY <1>1, <1>5, <1>6 DEF refund
    <2> HIDE DEF owed
    <2>3. f.net + refund \in Nat
      BY <1>5, <1>6
    <2>4. /\ core + sb <= raw
          /\ (owed + (f.net + refund)) * ScaleDown
                <= (quote["market"] + raw - core - sb) * ScaleUp
      BY <1>1, <1>6, <1>8, <2>1, <2>2, <2>3, InflowCovers
    <2> DEFINE before == quote["market"] + raw - core - sb
               net2   == owed + (f.net + refund) - back
    <2>5. before \in Nat /\ kept = before - rr
      BY <1>1, <1>8, <1>9, <2>1, <2>4
    <2>6. net2 \in Nat /\ net2 = owed + (net + dust)
      BY <1>3, <1>5, <1>6, <1>9, <1>11, <2>1
    <2>7. net2 * ScaleDown
             = (owed + (f.net + refund)) * ScaleDown - back * ScaleDown
      BY <1>5, <1>6, <1>9, <2>1, ScaleAssumption
    <2>8. (before - rr) * ScaleUp = before * ScaleUp - rr * ScaleUp
      BY <1>9, <2>5, ScaleAssumption
    <2>9. /\ (owed + (f.net + refund)) * ScaleDown \in Nat
          /\ back * ScaleDown \in Nat
          /\ before * ScaleUp \in Nat /\ rr * ScaleUp \in Nat
          /\ net2 * ScaleDown \in Nat
      BY <1>5, <1>6, <1>9, <2>1, <2>5, <2>6, ScaleAssumption
    <2>10. net2 * ScaleDown <= (before - rr) * ScaleUp
      BY <1>9, <2>4, <2>7, <2>8, <2>9
    <2>11. before - rr >= 0
      BY <1>9, <2>5, <2>9, <2>10, ScaleAssumption
    <2> QED  BY <1>9, <2>5, <2>6, <2>10, <2>11
  <1>13. token' \in [Holders -> Nat]
    <2>1. rest <= token["market"]
      BY <1>2, CurveConstants DEF TypeOK, Holders, MarketHoldsWhatItOwes
    <2> QED  BY <1>2, <1>10, <2>1 DEF TypeOK, Holders
  <1>14. quote' \in [Holders -> Nat]
    BY <1>1, <1>8, <1>9, <1>10, <1>12 DEF TypeOK, Holders
  <1>15. BooksTyped' /\ VaultHoldsWhatItOwes' /\ CreatorNeverBelowShare'
    BY <1>6, <1>10, <1>13, <1>14, TradeKeepsBooks DEF TypeOK, Holders, core
  <1>16. TypeOK'
    BY <1>2, <1>3, <1>10, <1>11, <1>13, <1>14, <1>15
       DEF TypeOK, BooksTyped, BookFees, poolVars
  <1>17. CollateralCoversEveryExit'
    <2>1. /\ Area(distributed) \in Nat /\ Area(QG) \in Nat
          /\ curveCollateral \in Nat
      BY <1>2, AreaIsNatural, CurveConstants DEF TypeOK
    <2>2. Area(distributed) <= Scale * curveCollateral
      BY DEF CollateralCoversEveryExit
    <2>3. /\ Scale * (curveCollateral + net)
                = Scale * curveCollateral + Scale * net
          /\ Scale * curveCollateral \in Nat /\ Scale * net \in Nat
      BY <1>3, <2>1, ScaleIsMonotone
    <2>4. Area(QG) <= Scale * (curveCollateral + net)
      BY <1>3, <2>1, <2>2, <2>3
    <2> QED  BY <1>2, <1>10, <2>4 DEF CollateralCoversEveryExit
  <1>18. MarketHoldsWhatItOwes'
    <2>1. quote'["market"] = kept /\ token'["market"] = token["market"] - rest
      BY <1>10 DEF TypeOK, Holders
    <2>2. curveCollateral' + graduationDust' = owed + (net + dust)
      BY <1>3, <1>10, <1>11 DEF TypeOK
    <2>3. TotalSupply - (distributed + rest) <= token["market"] - rest
      BY <1>2, CurveConstants DEF MarketHoldsWhatItOwes, TypeOK, Holders
    <2> QED  BY <1>10, <1>12, <2>1, <2>2, <2>3 DEF MarketHoldsWhatItOwes
  <1>19. ClosedExactlyAtEndpoint'
    BY <1>2, <1>10, CurveConstants DEF ClosedExactlyAtEndpoint
  <1> QED  BY <1>15, <1>16, <1>17, <1>18, <1>19

(* A sale is paid out of the area it gives back.                           *)
LEMMA SellKeepsIInv ==
    ASSUME IInv, NEW tokensIn \in 1 .. QG, Sell(tokensIn)
    PROVE  IInv'
  <1> USE DEF IInv
  <1> DEFINE grossOut == GrossOutFor(distributed, tokensIn)
             f        == ForSell(grossOut)
             netRaw   == ToRawForPayout(f.net)
             core     == CoreRaw(f)
             sb       == StockbackRaw(f)
             left     == distributed - tokensIn
             owed     == curveCollateral - grossOut
  <1>1. /\ distributed \in Nat /\ tokensIn \in Nat /\ tokensIn # 0
        /\ tokensIn \in 0 .. distributed /\ left \in Nat
        /\ left + tokensIn = distributed
    BY CurveConstants DEF Sell, TypeOK
  <1>2. /\ grossOut \in Nat
        /\ Scale * grossOut + Area(left) <= Area(distributed)
    BY <1>1, GrossOutWithinArea
  <1>3. owed \in Nat /\ curveCollateral = owed + grossOut
    BY <1>2 DEF Sell, TypeOK
  <1>4. /\ f.coreFee \in Nat /\ f.stockback \in Nat /\ f.net \in Nat
        /\ f.coreFee + f.stockback + f.net = grossOut
    BY <1>2, ForSellIsExact
  <1>5. /\ core \in Nat /\ core * ScaleUp <= f.coreFee * ScaleDown
        /\ sb \in Nat /\ sb * ScaleUp <= f.stockback * ScaleDown
        /\ netRaw \in Nat /\ netRaw * ScaleUp <= f.net * ScaleDown
    BY <1>4, ToRawBound DEF CoreRaw, StockbackRaw
  <1>6. /\ status = "PRE_GRAD" /\ tokensIn <= token["outside"]
        /\ distributed' = left /\ curveCollateral' = owed
        /\ token' = [token EXCEPT !["outside"] = @ - tokensIn,
                                  !["market"] = @ + tokensIn]
        /\ quote' = [quote EXCEPT
              !["outside"]     = @ + netRaw,
              !["market"]      = @ - netRaw - core - sb,
              !["feeVault"]    = @ + core,
              !["rewardVault"] = @ + sb]
        /\ BookFees(f)
        /\ UNCHANGED <<status, graduationDust, liquidityLock, poolVars>>
    BY DEF Sell
  <1> HIDE DEF grossOut, f, netRaw, core, sb, left, owed
  <1> DEFINE kept == quote["market"] - netRaw - core - sb
  <1>7. kept \in Nat /\ (owed + graduationDust) * ScaleDown <= kept * ScaleUp
    <2>1. /\ graduationDust \in Nat /\ quote["market"] \in Nat
          /\ (owed + grossOut + graduationDust) * ScaleDown
                <= quote["market"] * ScaleUp
      BY <1>3 DEF TypeOK, Holders, MarketHoldsWhatItOwes
    <2> QED  BY <1>2, <1>3, <1>4, <1>5, <2>1, OutflowCovers
  <1>8. token' \in [Holders -> Nat]
    BY <1>1, <1>6 DEF TypeOK, Holders
  <1>9. quote' \in [Holders -> Nat]
    BY <1>5, <1>6, <1>7 DEF TypeOK, Holders
  <1>10. BooksTyped' /\ VaultHoldsWhatItOwes' /\ CreatorNeverBelowShare'
    BY <1>4, <1>6, <1>8, <1>9, TradeKeepsBooks DEF TypeOK, Holders, core
  <1>11. TypeOK'
    BY <1>1, <1>3, <1>6, <1>8, <1>9, <1>10
       DEF TypeOK, BooksTyped, BookFees, poolVars
  <1>12. CollateralCoversEveryExit'
    <2>1. /\ Area(left) \in Nat /\ Area(distributed) \in Nat
      BY <1>1, AreaIsNatural
    <2>2. Area(distributed) <= Scale * (owed + grossOut)
      BY <1>3, <1>6 DEF CollateralCoversEveryExit
    <2>3. /\ Scale * (owed + grossOut) = Scale * owed + Scale * grossOut
          /\ Scale * owed \in Nat /\ Scale * grossOut \in Nat
      BY <1>2, <1>3, ScaleIsMonotone
    <2>4. Area(left) <= Scale * owed
      BY <1>2, <2>1, <2>2, <2>3
    <2> QED  BY <1>6, <2>4 DEF CollateralCoversEveryExit
  <1>13. MarketHoldsWhatItOwes'
    <2>1. quote'["market"] = kept /\ token'["market"] = token["market"] + tokensIn
      BY <1>6 DEF TypeOK, Holders
    <2>2. TotalSupply - left <= token["market"] + tokensIn
      BY <1>1, <1>6, CurveConstants DEF MarketHoldsWhatItOwes, TypeOK, Holders
    <2> QED  BY <1>6, <1>7, <2>1, <2>2 DEF MarketHoldsWhatItOwes
  <1>14. ClosedExactlyAtEndpoint'
    BY <1>1, <1>6, CurveConstants DEF ClosedExactlyAtEndpoint
  <1> QED  BY <1>10, <1>11, <1>12, <1>13, <1>14

(* buy takes one of its two branches.                                      *)
LEMMA BuyKeepsIInv ==
    ASSUME IInv, NEW raw \in BuyAmounts, Buy(raw)
    PROVE  IInv'
  <1>1. CASE IsOrdinary(ForBuy(ToNormalized(raw)))
    BY <1>1, OrdinaryBuyKeepsIInv DEF Buy
  <1>2. CASE ~ IsOrdinary(ForBuy(ToNormalized(raw)))
    BY <1>2, CrossingBuyKeepsIInv DEF Buy
  <1> QED  BY <1>1, <1>2

-----------------------------------------------------------------------------
(* The theorems *)

(* No step of any market, whatever the schedule, the decimals, the curve   *)
(* and the amounts, leaves the invariant.                                  *)
LEMMA NextKeepsIInv == IInv /\ [Next]_vars => IInv'
  <1> SUFFICES ASSUME IInv, [Next]_vars PROVE IInv'
    OBVIOUS
  <1>1. CASE \E raw \in BuyAmounts : Buy(raw)
    BY <1>1, BuyKeepsIInv
  <1>2. CASE \E tokensIn \in 1 .. QG : Sell(tokensIn)
    BY <1>2, SellKeepsIInv
  <1>3. CASE FinalizeGraduation
    BY <1>3, FinalizeGraduationKeepsIInv
  <1>4. CASE CollectPostGradFees
    BY <1>4, CollectPostGradFeesKeepsIInv
  <1>5. CASE LockCollect
    BY <1>5, LockCollectKeepsIInv
  <1>6. CASE \E a \in Assets : ClaimCreatorFees(a)
    BY <1>6, ClaimCreatorFeesKeepsIInv
  <1>7. CASE \E a \in Assets : SettlePlatformFees(a)
    BY <1>7, SettlePlatformFeesKeepsIInv
  <1>8. CASE \E amount \in DonationAmounts : Donate(amount)
    BY <1>8, DonateKeepsIInv
  <1>9. CASE \E onToken, onQuote \in SwapFees : SwapInPool(onToken, onQuote)
    BY <1>9, SwapInPoolKeepsIInv
  <1>10. CASE DisplacePool
    BY <1>10, NothingMovedKeepsIInv DEF DisplacePool, Disturb, IInv, TypeOK
  <1>11. CASE RestorePool
    BY <1>11, NothingMovedKeepsIInv DEF RestorePool, IInv, TypeOK
  <1>12. CASE UNCHANGED vars
    BY <1>12, NothingMovedKeepsIInv DEF vars, poolVars, IInv, TypeOK
  <1> QED
    BY <1>1, <1>2, <1>3, <1>4, <1>5, <1>6, <1>7, <1>8, <1>9, <1>10, <1>11,
       <1>12 DEF Next

(* The inductive invariant holds throughout.                               *)
THEOREM MarketIsSafe == Spec => []IInv
  BY InitIInv, NextKeepsIInv, PTL DEF Spec

(* Every balance, liability and book of a market is a natural number in    *)
(* every reachable state: no transfer draws on more than its sender holds. *)
THEOREM NothingIsOverdrawn == Spec => []TypeOK
  <1>1. IInv => TypeOK
    BY DEF IInv
  <1> QED  BY <1>1, MarketIsSafe, PTL

(* Rounding, trade after trade, never lets what the curve owes fall below  *)
(* the area under it: all TOKEN out can be sold back, in any order.        *)
THEOREM EveryExitIsCovered == Spec => []CollateralCoversEveryExit
  <1>1. IInv => CollateralCoversEveryExit
    BY DEF IInv
  <1> QED  BY <1>1, MarketIsSafe, PTL

(* The market holds the asset's own units behind its normalized liability  *)
(* and dust, and the unsold TOKEN, without help from fees or donations.    *)
THEOREM MarketIsSolvent == Spec => []MarketHoldsWhatItOwes
  <1>1. IInv => MarketHoldsWhatItOwes
    BY DEF IInv
  <1> QED  BY <1>1, MarketIsSafe, PTL

(* The fee vault can always pay all it has booked, in both assets.         *)
THEOREM VaultIsSolvent == Spec => []VaultHoldsWhatItOwes
  <1>1. IInv => VaultHoldsWhatItOwes
    BY DEF IInv
  <1> QED  BY <1>1, MarketIsSafe, PTL

(* The creator's balance and claims are worth its share of all it was ever *)
(* charged for, in both assets.                                            *)
THEOREM CreatorKeepsItsShare == Spec => []CreatorNeverBelowShare
  <1>1. IInv => CreatorNeverBelowShare
    BY DEF IInv
  <1> QED  BY <1>1, MarketIsSafe, PTL

(* The curve stays open exactly while it has something to sell.            *)
THEOREM CurveClosesExactly == Spec => []ClosedExactlyAtEndpoint
  <1>1. IInv => ClosedExactlyAtEndpoint
    BY DEF IInv
  <1> QED  BY <1>1, MarketIsSafe, PTL

(* At the endpoint the area under the curve is what the reserve costs at   *)
(* the closing price, up to the flooring of the endpoint itself.           *)
LEMMA EscrowPaysForReserve ==
    ASSUME PriceTriple, IInv
    PROVE  EscrowFundsOpeningPrice
  <1> SUFFICES ASSUME status = "GRADUATING"
               PROVE  TokensToMigrate * PG
                        <= WAD * curveCollateral
                             + (IF (TotalSupply * QGNum) % QGDen = 0
                                  THEN 0 ELSE 2 * PG)
    BY DEF EscrowFundsOpeningPrice
  <1> USE DEF IInv
  <1> DEFINE m       == GraduationMultiple
             reserve == TotalSupply - QG
             c       == curveCollateral
             slack   == FlooringSlack
  <1>1. distributed = QG
    BY CurveConstants DEF ClosedExactlyAtEndpoint, TypeOK
  <1>2. /\ m \in Nat \ {0} /\ reserve \in Nat /\ c \in Nat /\ slack \in Nat
        /\ P0 \in Nat \ {0} /\ QG \in Nat \ {0} /\ WAD \in Nat \ {0}
    BY CurveConstants, CurveAssumption DEF TypeOK, FlooringSlack
  <1>3. Area(QG) <= Scale * c
    BY <1>1 DEF CollateralCoversEveryExit
  <1>4. 2 * m * reserve <= (m + 1) * QG + 2 * m * slack
    BY ReserveAgainstSold
  <1>5. PG = P0 * m /\ DP = P0 * m - P0 /\ Scale = 2 * QG * WAD
    BY DEF PG, DP, Scale
  <1>6. TokensToMigrate = reserve
    BY <1>1 DEF TokensToMigrate
  <1>7. (IF (TotalSupply * QGNum) % QGDen = 0 THEN 0 ELSE 2 * PG) = slack * PG
    BY <1>2, <1>5 DEF FlooringSlack
  <1> HIDE DEF m, reserve, c, slack
  <1>8. Area(QG) = QG * (QG * (P0 * (m + 1)))
    BY <1>2, <1>5 DEF Area
  <1>9. QG * (P0 * (m + 1)) <= 2 * WAD * c
    <2> DEFINE x == QG * (P0 * (m + 1))
               y == 2 * WAD * c
    <2>1. x \in Nat /\ y \in Nat
      BY <1>2
    <2>2. Scale * c = QG * y
      BY <1>2, <1>5
    <2> HIDE DEF x, y
    <2>3. QG * x <= QG * y
      BY <1>3, <1>8, <2>2 DEF x
    <2>4. x <= y
      BY <1>2, <2>1, <2>3
    <2> QED  BY <2>4 DEF x, y
  <1>10. P0 * (2 * m * reserve) <= P0 * ((m + 1) * QG) + P0 * (2 * m * slack)
    <2> DEFINE x == 2 * m * reserve
               y == (m + 1) * QG
               z == 2 * m * slack
    <2>1. x \in Nat /\ y \in Nat /\ z \in Nat /\ x <= y + z
      BY <1>2, <1>4
    <2> HIDE DEF x, y, z
    <2>2. P0 * x <= P0 * y + P0 * z
      BY <1>2, <2>1
    <2> QED  BY <2>2 DEF x, y, z
  <1>11. /\ P0 * (2 * m * reserve) = 2 * (reserve * PG)
         /\ P0 * ((m + 1) * QG) = QG * (P0 * (m + 1))
         /\ P0 * (2 * m * slack) = 2 * (slack * PG)
         /\ 2 * WAD * c = 2 * (WAD * c)
    BY <1>2, <1>5
  <1>12. reserve * PG \in Nat /\ slack * PG \in Nat /\ WAD * c \in Nat
    BY <1>2, <1>5
  <1>13. reserve * PG <= WAD * c + slack * PG
    <2>1. 2 * (reserve * PG) <= 2 * (WAD * c) + 2 * (slack * PG)
      <3> DEFINE sold == QG * (P0 * (m + 1))
      <3>1. sold \in Nat /\ sold <= 2 * (WAD * c)
        BY <1>2, <1>9, <1>11
      <3>2. 2 * (reserve * PG) <= sold + 2 * (slack * PG)
        BY <1>10, <1>11
      <3> HIDE DEF sold
      <3> QED  BY <1>12, <3>1, <3>2
    <2> QED  BY <1>12, <2>1
  <1> QED  BY <1>6, <1>7, <1>13 DEF c

(* With a price triple like the library's, the escrow of a closed curve    *)
(* pays for the reserve at the price the pool opens at, to within the      *)
(* flooring of the endpoint.                                               *)
THEOREM ReserveIsFunded == PriceTriple => (Spec => []EscrowFundsOpeningPrice)
  <1> SUFFICES ASSUME PriceTriple PROVE Spec => []EscrowFundsOpeningPrice
    OBVIOUS
  <1>1. IInv => EscrowFundsOpeningPrice
    BY EscrowPaysForReserve
  <1> QED  BY <1>1, MarketIsSafe, PTL

-----------------------------------------------------------------------------
(* One canonical venue *)

(* Nothing is in the pool, or left over from opening it, before it opens.  *)
PoolUnseeded ==
    status # "GRADUATED" =>
        /\ token["position"] = 0 /\ token["lock"] = 0
        /\ quote["position"] = 0 /\ quote["lock"] = 0

VenueInv == IInv /\ PoolUnseeded

(* What the promise is about stays as it is: the market's own state and    *)
(* what the pool was opened with.                                          *)
VenueUntouched ==
    /\ UNCHANGED marketVars
    /\ token'["position"] = token["position"] /\ token'["lock"] = token["lock"]
    /\ quote'["position"] = quote["position"] /\ quote'["lock"] = quote["lock"]

(* A step elsewhere is a stutter of the promise.                           *)
LEMMA ElsewhereVenueStutters ==
    ASSUME VenueInv, VenueUntouched
    PROVE  PoolUnseeded' /\ UNCHANGED Venue!venueVars
  BY DEF VenueInv, PoolUnseeded, VenueUntouched, marketVars, Venue!venueVars,
         QuoteRawToMigrate, DustRawToMigrate

(* A trade on the open curve is the promise's Trade, or its Close.         *)
LEMMA TradeIsVenueTrade ==
    ASSUME VenueInv, IInv', status = "PRE_GRAD",
           status' \in {"PRE_GRAD", "GRADUATING"},
           token'["position"] = token["position"], token'["lock"] = token["lock"],
           quote'["position"] = quote["position"], quote'["lock"] = quote["lock"]
    PROVE  PoolUnseeded' /\ (Venue!Trade \/ Venue!Close)
  <1>1. PoolUnseeded'
    BY DEF VenueInv, PoolUnseeded
  <1>2. (QuoteRawToMigrate + DustRawToMigrate)' \in Nat
    <2>1. curveCollateral' \in Nat /\ graduationDust' \in Nat
      BY DEF IInv, TypeOK
    <2> QED  BY <2>1, ToRawBound DEF QuoteRawToMigrate, DustRawToMigrate
  <1>3. CASE status' = "PRE_GRAD"
    <2>1. distributed' \in Nat /\ distributed' < QG
      BY <1>3 DEF IInv, TypeOK, ClosedExactlyAtEndpoint
    <2> QED  BY <1>1, <1>2, <1>3, <2>1 DEF Venue!Trade
  <1>4. CASE status' = "GRADUATING"
    <2>1. distributed' = QG
      BY <1>4, CurveConstants DEF IInv, TypeOK, ClosedExactlyAtEndpoint
    <2> QED  BY <1>1, <1>2, <1>4, <2>1 DEF Venue!Close
  <1> QED  BY <1>3, <1>4

(* Finalizing opens the pool with the whole reserve and the whole escrow,  *)
(* whatever the mint left over.                                            *)
LEMMA FinalizeIsVenueOpen ==
    ASSUME VenueInv, FinalizeGraduation
    PROVE  PoolUnseeded' /\ Venue!Open
  <1>1. status = "GRADUATING" /\ status' = "GRADUATED"
    BY DEF FinalizeGraduation
  <1>2. /\ distributed = QG /\ distributed' = distributed
        /\ TokensToMigrate = TotalSupply - QG
    BY <1>1, CurveConstants
       DEF FinalizeGraduation, VenueInv, IInv, ClosedExactlyAtEndpoint, TypeOK,
           TokensToMigrate
  <1> DEFINE quoteTotal == QuoteRawToMigrate + DustRawToMigrate
  <1>3. TokensToMigrate \in Nat /\ quoteTotal \in Nat
    BY <1>1, EscrowIsHeld DEF VenueInv, IInv
  <1>4. PICK tokenDust \in MintDusts, quoteDust \in MintDusts :
           /\ token' = [token EXCEPT
                 !["market"]   = @ - TokensToMigrate,
                 !["position"] = @ + TokensToMigrate - tokenDust,
                 !["lock"]     = @ + tokenDust]
           /\ quote' = [quote EXCEPT
                 !["market"]   = @ - quoteTotal,
                 !["position"] = @ + quoteTotal - quoteDust,
                 !["lock"]     = @ + quoteDust]
    BY DEF FinalizeGraduation
  <1>5. tokenDust \in Nat /\ quoteDust \in Nat
    BY MarketAssumption
  <1>6. /\ token["position"] = 0 /\ token["lock"] = 0
        /\ quote["position"] = 0 /\ quote["lock"] = 0
    BY <1>1 DEF VenueInv, PoolUnseeded
  <1>7. token \in [Holders -> Nat] /\ quote \in [Holders -> Nat]
    BY DEF VenueInv, IInv, TypeOK
  <1> HIDE DEF quoteTotal
  <1>8. /\ token'["position"] + token'["lock"] = TokensToMigrate
        /\ quote'["position"] + quote'["lock"] = quoteTotal
    BY <1>3, <1>4, <1>5, <1>6, <1>7 DEF Holders
  <1>9. (QuoteRawToMigrate + DustRawToMigrate)' = 0
    <2>1. curveCollateral' = 0 /\ graduationDust' = 0
      BY DEF FinalizeGraduation
    <2>2. ToRawForPayout(0) = 0
      BY ScaleAssumption DEF ToRawForPayout
    <2> QED  BY <2>1, <2>2 DEF QuoteRawToMigrate, DustRawToMigrate
  <1>10. PoolUnseeded'
    BY <1>1 DEF PoolUnseeded
  <1> QED  BY <1>1, <1>2, <1>8, <1>9, <1>10 DEF Venue!Open, quoteTotal

(* Every step of a market is a step of the promise, or none of it.         *)
LEMMA NextIsVenueNext ==
    ASSUME VenueInv, [Next]_vars
    PROVE  VenueInv' /\ [Venue!Next]_Venue!venueVars
  <1> SUFFICES PoolUnseeded' /\ [Venue!Next]_Venue!venueVars
    BY NextKeepsIInv DEF VenueInv
  <1>1. IInv' /\ token \in [Holders -> Nat] /\ quote \in [Holders -> Nat]
    BY NextKeepsIInv DEF VenueInv, IInv, TypeOK
  <1>2. ASSUME VenueUntouched
        PROVE  PoolUnseeded' /\ [Venue!Next]_Venue!venueVars
    BY <1>2, ElsewhereVenueStutters
  <1>3. CASE \E raw \in BuyAmounts : Buy(raw)
    <2>1. PICK raw \in BuyAmounts : Buy(raw)
      BY <1>3
    <2>2. CASE IsOrdinary(ForBuy(ToNormalized(raw)))
      BY <1>1, <2>1, <2>2, TradeIsVenueTrade
         DEF Buy, ExecutePreGradBuy, Holders, Venue!Next
    <2>3. CASE ~ IsOrdinary(ForBuy(ToNormalized(raw)))
      BY <1>1, <2>1, <2>3, TradeIsVenueTrade
         DEF Buy, ExecuteCrossingBuy, Holders, Venue!Next
    <2> QED  BY <2>2, <2>3
  <1>4. CASE \E tokensIn \in 1 .. QG : Sell(tokensIn)
    BY <1>1, <1>4, TradeIsVenueTrade DEF Sell, Holders, Venue!Next
  <1>5. CASE FinalizeGraduation
    BY <1>5, FinalizeIsVenueOpen DEF Venue!Next
  <1>6. CASE CollectPostGradFees
    BY <1>1, <1>2, <1>6
       DEF CollectPostGradFees, VenueUntouched, marketVars, Holders
  <1>7. CASE LockCollect
    BY <1>1, <1>2, <1>7 DEF LockCollect, VenueUntouched, marketVars, Holders
  <1>8. CASE \E a \in Assets : ClaimCreatorFees(a)
    BY <1>1, <1>2, <1>8
       DEF ClaimCreatorFees, PayOut, Paid, VenueUntouched, marketVars, Holders
  <1>9. CASE \E a \in Assets : SettlePlatformFees(a)
    BY <1>1, <1>2, <1>9
       DEF SettlePlatformFees, PayOut, Paid, VenueUntouched, marketVars, Holders
  <1>10. CASE \E amount \in DonationAmounts : Donate(amount)
    BY <1>1, <1>2, <1>10 DEF Donate, Sent, VenueUntouched, marketVars, Holders
  <1>11. CASE \E onToken, onQuote \in SwapFees : SwapInPool(onToken, onQuote)
    BY <1>1, <1>2, <1>11 DEF SwapInPool, Sent, VenueUntouched, marketVars, Holders
  <1>12. CASE DisplacePool
    BY <1>2, <1>12 DEF DisplacePool, VenueUntouched, marketVars
  <1>13. CASE RestorePool
    BY <1>2, <1>13 DEF RestorePool, VenueUntouched, marketVars
  <1>14. CASE UNCHANGED vars
    BY <1>2, <1>14 DEF vars, VenueUntouched, marketVars
  <1> QED
    BY <1>3, <1>4, <1>5, <1>6, <1>7, <1>8, <1>9, <1>10, <1>11, <1>12, <1>13,
       <1>14 DEF Next

(* A market implements the promise of CanonicalVenue: the curve, then      *)
(* nothing, then the pool forever, opened once, with all that the closed   *)
(* curve left and nothing else.                                            *)
THEOREM OneVenueAtATime == Spec => OneCanonicalVenue
  <1>1. Init => VenueInv /\ Venue!Init
    <2> SUFFICES ASSUME Init PROVE PoolUnseeded /\ Venue!Init
      BY InitIInv DEF VenueInv
    <2>1. ToRawForPayout(0) = 0
      BY ScaleAssumption DEF ToRawForPayout
    <2> QED
      BY <2>1 DEF Init, PoolUnseeded, Only, Holders, Venue!Init, Venue!Nothing,
                  QuoteRawToMigrate, DustRawToMigrate
  <1>2. VenueInv /\ [Next]_vars => VenueInv' /\ [Venue!Next]_Venue!venueVars
    BY NextIsVenueNext
  <1> QED  BY <1>1, <1>2, PTL DEF Spec, OneCanonicalVenue, Venue!Spec

-----------------------------------------------------------------------------
(* The endpoint *)

NetBps == BPS - CoreFeeBps - StockbackBuyBps

(* The first estimate of _grossForNet is a division rounded up.            *)
Estimate(targetNet) == (targetNet * BPS + NetBps - 1) \div NetBps

(* The net of a buy lies between its share of the gross and two units more.*)
LEMMA NetNearItsShare ==
    ASSUME NEW gross \in Nat
    PROVE  /\ ForBuy(gross).net \in Nat
           /\ gross * NetBps <= BPS * ForBuy(gross).net
           /\ BPS * ForBuy(gross).net < gross * NetBps + 2 * BPS
  <1> DEFINE core == (gross * CoreFeeBps) \div BPS
             sb   == (gross * StockbackBuyBps) \div BPS
             net  == gross - (core + sb)
  <1>1. /\ BPS \in Nat \ {0} /\ CoreFeeBps \in Nat /\ StockbackBuyBps \in Nat
        /\ NetBps \in Nat \ {0} /\ NetBps = BPS - CoreFeeBps - StockbackBuyBps
    BY FeeAssumption DEF NetBps
  <1>2. /\ core \in Nat /\ BPS * core <= gross * CoreFeeBps
        /\ gross * CoreFeeBps < BPS * core + BPS
    BY <1>1, FloorDiv, gross * CoreFeeBps \in Nat
  <1>3. /\ sb \in Nat /\ BPS * sb <= gross * StockbackBuyBps
        /\ gross * StockbackBuyBps < BPS * sb + BPS
    BY <1>1, FloorDiv, gross * StockbackBuyBps \in Nat
  <1>4. ForBuy(gross).net = net
    BY DEF ForBuy, Breakdown
  <1>5. net \in Nat
    BY <1>4, ForBuyIsExact
  <1> HIDE DEF core, sb
  <1>6. BPS * net = BPS * gross - BPS * core - BPS * sb
    BY <1>1, <1>2, <1>3
  <1>7. gross * NetBps
           = BPS * gross - gross * CoreFeeBps - gross * StockbackBuyBps
    BY <1>1
  <1> HIDE DEF net
  <1>8. /\ BPS * net \in Nat /\ BPS * gross \in Nat /\ BPS * core \in Nat
        /\ BPS * sb \in Nat /\ gross * NetBps \in Nat
        /\ gross * CoreFeeBps \in Nat /\ gross * StockbackBuyBps \in Nat
    BY <1>1, <1>2, <1>3, <1>5
  <1>9. gross * NetBps <= BPS * net
    BY <1>2, <1>3, <1>6, <1>7, <1>8
  <1>10. BPS * net < gross * NetBps + 2 * BPS
    BY <1>1, <1>2, <1>3, <1>6, <1>7, <1>8
  <1> QED  BY <1>4, <1>5, <1>9, <1>10

(* So the estimate covers the target at once: the walk up never moves.     *)
LEMMA EstimateCovers ==
    ASSUME NEW targetNet \in Nat
    PROVE  /\ Estimate(targetNet) \in Nat
           /\ Covers(Estimate(targetNet), targetNet)
           /\ Estimate(targetNet) * NetBps < targetNet * BPS + NetBps
           /\ StepsUp(Estimate(targetNet), targetNet) = 0
  <1> DEFINE e   == Estimate(targetNet)
             net == ForBuy(e).net
  <1>1. BPS \in Nat \ {0} /\ NetBps \in Nat \ {0} /\ targetNet * BPS \in Nat
    BY FeeAssumption DEF NetBps
  <1>2. /\ e \in Nat /\ targetNet * BPS <= NetBps * e
        /\ NetBps * e < targetNet * BPS + NetBps
    BY <1>1, CeilDiv DEF Estimate
  <1> HIDE DEF e
  <1>3. net \in Nat /\ e * NetBps <= BPS * net
    BY <1>2, NetNearItsShare
  <1>4. Covers(e, targetNet)
    <2>1. BPS * targetNet <= BPS * net
      BY <1>1, <1>2, <1>3
    <2>2. net >= targetNet
      BY <1>1, <1>3, <2>1
    <2> QED  BY <2>2 DEF Covers
  <1>5. StepsUp(e, targetNet) = 0
    <2> DEFINE Here(i) ==
                 /\ i = MaxFeeSearchSteps \/ Covers(e + i, targetNet)
                 /\ \A j \in 0 .. (i - 1) : ~ Covers(e + j, targetNet)
    <2>1. 0 \in 0 .. MaxFeeSearchSteps /\ Here(0)
      BY <1>2, <1>4, MarketAssumption
    <2>2. ASSUME NEW i \in 0 .. MaxFeeSearchSteps, Here(i) PROVE i = 0
      BY <1>2, <1>4, <2>2, MarketAssumption
    <2> QED  BY <2>1, <2>2 DEF StepsUp
  <1> QED  BY <1>1, <1>2, <1>4, <1>5 DEF e

(* _grossForNet finds a gross that covers any target, so that its assertion*)
(* (FeeSearchFailed) never fires, and by walking down only over grosses    *)
(* that still cover it: the result is never above the estimate.            *)
LEMMA SearchCovers ==
    ASSUME NEW targetNet \in Nat
    PROVE  /\ GrossForNet(targetNet) \in Nat
           /\ Covers(GrossForNet(targetNet), targetNet)
           /\ GrossForNet(targetNet) <= Estimate(targetNet)
  <1> DEFINE e    == Estimate(targetNet)
             down == StepsDown(e, targetNet)
  <1>1. e \in Nat /\ Covers(e, targetNet) /\ StepsUp(e, targetNet) = 0
    BY EstimateCovers
  <1>2. CASE targetNet = 0
    <2>1. GrossForNet(targetNet) = 0
      BY <1>2 DEF GrossForNet
    <2> QED  BY <1>1, <1>2, <2>1, ForBuyIsExact DEF Covers
  <1>3. CASE targetNet # 0
    <2> DEFINE Here(i) ==
                 /\ i = MaxFeeSearchSteps \/ WalkDownStops(e - i, targetNet)
                 /\ \A j \in 0 .. (i - 1) : ~ WalkDownStops(e - j, targetNet)
               Stops == {i \in 0 .. MaxFeeSearchSteps :
                           i = MaxFeeSearchSteps \/ WalkDownStops(e - i, targetNet)}
    <2>1. GrossForNet(targetNet) = e - down
      BY <1>1, <1>3 DEF GrossForNet, Estimate, NetBps
    <2>2. PICK i \in Stops : \A j \in Stops : i <= j
      BY LeastNatural, MarketAssumption, MaxFeeSearchSteps \in Stops,
         Stops \subseteq Nat
    <2> HIDE DEF e
    <2>3. i \in 0 .. MaxFeeSearchSteps /\ Here(i)
      BY <2>2, MarketAssumption
    <2>4. down \in 0 .. MaxFeeSearchSteps /\ Here(down)
      BY <2>3 DEF StepsDown
    <2> HIDE DEF down, Here
    <2>5. CASE down = 0
      BY <1>1, <2>1, <2>5 DEF e
    <2>6. CASE down # 0
      <3>1. down \in Nat /\ down - 1 \in 0 .. (down - 1)
        BY <2>4, <2>6, MarketAssumption
      <3>2. ~ WalkDownStops(e - (down - 1), targetNet)
        BY <2>4, <3>1 DEF Here
      <3>3. e - (down - 1) # 0 /\ Covers(e - (down - 1) - 1, targetNet)
        BY <3>2 DEF WalkDownStops
      <3>4. e - (down - 1) - 1 = e - down
        BY <1>1, <3>1
      <3>5. e - down \in Nat
        <4>1. e \in 0 .. (down - 1) => ~ WalkDownStops(e - e, targetNet)
          BY <2>4 DEF Here
        <4>2. WalkDownStops(e - e, targetNet)
          BY <1>1 DEF WalkDownStops
        <4> QED  BY <1>1, <3>1, <4>1, <4>2
      <3> QED  BY <1>1, <2>1, <3>1, <3>3, <3>4, <3>5 DEF e
    <2> QED  BY <2>5, <2>6
  <1> QED  BY <1>2, <1>3

(* The comment of _grossForNet calls its result the smallest gross.  The   *)
(* net is not monotone, so that the walk down may stop at a gap (a target  *)
(* of 99 with the library's rates: 101, where 99 would do).  But whatever  *)
(* covers the target is below it by less than one unit and the share of    *)
(* two, three units with the library's rates.                              *)
THEOREM SearchOvershootIsBounded ==
    ASSUME NEW targetNet \in Nat, NEW gross \in Nat, Covers(gross, targetNet)
    PROVE  GrossForNet(targetNet) * NetBps < gross * NetBps + NetBps + 2 * BPS
  <1> DEFINE found == GrossForNet(targetNet)
             e     == Estimate(targetNet)
             net   == ForBuy(gross).net
  <1>1. BPS \in Nat \ {0} /\ NetBps \in Nat \ {0}
    BY FeeAssumption DEF NetBps
  <1>2. /\ found \in Nat /\ e \in Nat /\ found <= e
        /\ e * NetBps < targetNet * BPS + NetBps
    BY SearchCovers, EstimateCovers
  <1>3. /\ net \in Nat /\ targetNet <= net
        /\ BPS * net < gross * NetBps + 2 * BPS
    BY NetNearItsShare DEF Covers
  <1> HIDE DEF found, e, net
  <1>4. found * NetBps <= e * NetBps
    BY <1>1, <1>2
  <1>5. targetNet * BPS <= BPS * net
    BY <1>1, <1>3
  <1>6. /\ found * NetBps \in Nat /\ e * NetBps \in Nat
        /\ targetNet * BPS \in Nat /\ BPS * net \in Nat
        /\ gross * NetBps \in Nat
    BY <1>1, <1>2, <1>3
  <1> QED  BY <1>1, <1>2, <1>3, <1>4, <1>5, <1>6 DEF found

(* With a quote asset of at least 18 decimals no fee rounds away in raw    *)
(* units.                                                                  *)
LEMMA FeesAlwaysPayable ==
    ASSUME ScaleUp = 1, NEW f, f.coreFee \in Nat, f.stockback \in Nat
    PROVE  FeesPayable(f)
  <1>1. ASSUME NEW amount \in Nat, amount > 0
        PROVE  ToRawForPayout(amount) > 0
    <2>1. ScaleDown \in Nat \ {0} /\ amount * ScaleDown \in Nat
      BY ScaleAssumption
    <2>2. ToRawForPayout(amount) = amount * ScaleDown
      BY <2>1 DEF ToRawForPayout
    <2> QED  BY <1>1, <2>1, <2>2
  <1> QED  BY <1>1 DEF FeesPayable, CoreRaw, StockbackRaw

(* What is left of an open curve costs a natural.                          *)
LEMMA NetToEndpointIsNatural ==
    ASSUME IInv
    PROVE  NetToEndpoint \in Nat
  <1>1. distributed \in Nat /\ QG - distributed \in Nat
        /\ distributed + (QG - distributed) <= QG
    BY CurveConstants DEF IInv, TypeOK, ClosedExactlyAtEndpoint
  <1> QED  BY <1>1, QuoteInCoversArea DEF NetToEndpoint, RemainingSupply

(* FeeSearchFailed is unreachable: whatever was traded before, the search  *)
(* finds a gross for the rest of the curve.                                *)
THEOREM FeeSearchNeverFails ==
    Spec => [](Covers(GrossForNet(NetToEndpoint), NetToEndpoint))
  <1>1. IInv => Covers(GrossForNet(NetToEndpoint), NetToEndpoint)
    BY NetToEndpointIsNatural, SearchCovers
  <1> QED  BY <1>1, MarketIsSafe, PTL

(* With at least 18 decimals one large enough buy always closes the curve. *)
(* With fewer it may not: the fees of the last buy may round to nothing.   *)
THEOREM EndpointIsPurchasable ==
    ScaleUp = 1 => (Spec => []EndpointPurchasable)
  <1> SUFFICES ASSUME ScaleUp = 1 PROVE Spec => []EndpointPurchasable
    OBVIOUS
  <1>1. IInv => EndpointPurchasable
    <2> SUFFICES ASSUME IInv PROVE EndpointPurchasable
      OBVIOUS
    <2>1. /\ GrossForNet(NetToEndpoint) \in Nat
          /\ Covers(GrossForNet(NetToEndpoint), NetToEndpoint)
      BY NetToEndpointIsNatural, SearchCovers
    <2>2. FeesPayable(ForBuy(GrossForNet(NetToEndpoint)))
      BY <2>1, ForBuyIsExact, FeesAlwaysPayable
    <2> QED  BY <2>1, <2>2 DEF EndpointPurchasable
  <1> QED  BY <1>1, MarketIsSafe, PTL

-----------------------------------------------------------------------------
(* The keeper *)

(* Every step of the sweeps, and of the index between them, is a step of   *)
(* the market or leaves it alone: overlapping sweeps, replaced             *)
(* transactions and late ones finalize only as anybody could.              *)
LEMMA KeeperNextIsNext == [KeeperNext]_allVars => [Next]_vars
  <1> SUFFICES ASSUME [KeeperNext]_allVars PROVE [Next]_vars
    OBVIOUS
  <1>1. CASE Next /\ UNCHANGED keeperVars
    BY <1>1
  <1>2. CASE Index
    BY <1>2 DEF Index
  <1>3. ASSUME NEW s \in Sweeps, SweepStep(s) PROVE UNCHANGED vars
    BY <1>3 DEF SweepStep, StartSweep, CanSend, Simulate, Send, WaitTimesOut
  <1>4. ASSUME NEW s \in Sweeps, Mine(s) PROVE FinalizeGraduation \/ UNCHANGED vars
    BY <1>4 DEF Mine
  <1>5. ASSUME NEW s \in Sweeps, CallFails(s) PROVE UNCHANGED vars
    BY <1>5 DEF CallFails
  <1>6. CASE UNCHANGED allVars
    BY <1>6 DEF allVars
  <1>7. FinalizeGraduation => Next
    BY DEF Next
  <1> QED  BY <1>1, <1>2, <1>3, <1>4, <1>5, <1>6, <1>7 DEF KeeperNext

(* A market with a keeper is a market: whatever is proved of one carries   *)
(* over.                                                                   *)
THEOREM KeeperIsHarmless == KeeperSpec => Spec
  <1>1. KeeperInit => Init
    BY DEF KeeperInit
  <1> QED  BY <1>1, KeeperNextIsNext, PTL DEF KeeperSpec, Spec

(* In particular every balance and liability stays safe under it, and with *)
(* at least 18 decimals the endpoint stays purchasable.                    *)
COROLLARY KeeperKeepsMarketSafe ==
    /\ KeeperSpec => []IInv
    /\ KeeperSpec => OneCanonicalVenue
    /\ ScaleUp = 1 => (KeeperSpec => []EndpointPurchasable)
  BY KeeperIsHarmless, MarketIsSafe, OneVenueAtATime, EndpointIsPurchasable, PTL

-----------------------------------------------------------------------------
(* The offer a user signs *)

(* The SDK's conversions, by the sign of 18 - decimals, are the contract's.*)
LEMMA SdkConvertsAlike ==
    ASSUME NEW amount \in Nat
    PROVE  /\ SdkToNormalized(amount) = ToNormalized(amount)
           /\ SdkToRawForPayout(amount) = ToRawForPayout(amount)
  <1>1. /\ ScaleUp \in Nat \ {0} /\ ScaleDown \in Nat \ {0}
        /\ amount * ScaleUp \in Nat /\ amount * ScaleDown \in Nat
    BY ScaleAssumption
  <1>2. CASE ScaleDown = 1
    BY <1>1, <1>2 DEF SdkToNormalized, ToNormalized, SdkToRawForPayout,
                      ToRawForPayout
  <1>3. CASE ScaleDown # 1
    <2>1. ScaleUp = 1
      BY <1>3, ScaleAssumption
    <2> QED
      BY <1>1, <1>3, <2>1 DEF SdkToNormalized, ToNormalized, SdkToRawForPayout,
                              ToRawForPayout
  <1> QED  BY <1>2, <1>3

(* Without a tolerance the minimum is the amount.                          *)
LEMMA NoToleranceIsExact ==
    ASSUME NEW amount \in Nat
    PROVE  0 \in Slippages /\ WithTolerance(amount, 0) = amount
  <1>1. BPS \in Nat \ {0} /\ amount * BPS \in Nat
    BY FeeAssumption
  <1>2. (amount * BPS) \div BPS = amount
    BY <1>1
  <1> QED  BY <1>1, <1>2 DEF Slippages, WithTolerance

(* What an offer for a buy consists of, when the market is open.           *)
LEMMA OfferOfBuy ==
    ASSUME status = "PRE_GRAD", NEW raw \in Nat \ {0},
           QuoteBuy(raw).tokensOut \in Nat
    PROVE  LET offer == Quoted("BUY", raw, 0)
               q     == QuoteBuy(raw)
               f     == ForBuy(ToNormalized(raw))
           IN  /\ offer.ok
               /\ offer.intent.call = <<"buy", raw, q.tokensOut>>
               /\ offer.intent.refundedQuote = q.refundedQuote
               /\ offer.intent.crossesGraduation = q.crosses
               /\ offer.intent.shown.coreFee = ToRawForPayout(f.coreFee)
               /\ offer.intent.shown.stockback = ToRawForPayout(f.stockback)
  <1> DEFINE q      == QuoteBuy(raw)
             answer == [tokensOut |-> q.tokensOut, crossesGraduation |-> q.crosses,
                        refundedQuote |-> q.refundedQuote]
             fees   == ComputeFees("BUY", SdkToNormalized(raw))
             f      == ForBuy(ToNormalized(raw))
             intent == BuildBuyIntent(raw, WithTolerance(q.tokensOut, 0), answer)
  <1>1. LoadQuote("BUY", raw, {}) = {answer}
    BY DEF LoadQuote, BuyAnswer
  <1>2. (CHOOSE a \in {answer} : TRUE) = answer
    OBVIOUS
  <1>3. WithTolerance(q.tokensOut, 0) = q.tokensOut /\ 0 \in Slippages
    BY NoToleranceIsExact
  <1> HIDE DEF q
  <1>4. Quoted("BUY", raw, 0) = Offered(intent)
    <2>1. /\ ~ (raw <= 0) /\ status # "GRADUATING" /\ {answer} # {}
          /\ answer.tokensOut = q.tokensOut
      OBVIOUS
    <2> HIDE DEF answer
    <2> QED  BY <1>1, <1>2, <1>3, <2>1 DEF Quoted, HandleQuote
  <1>5. fees.coreFee = f.coreFee /\ fees.stockback = f.stockback
    BY SdkConvertsAlike DEF ComputeFees, MulBpsFloor, ForBuy, Breakdown
  <1>6. f.coreFee \in Nat /\ f.stockback \in Nat
    BY ToNormalizedBound, ForBuyIsExact
  <1>7. /\ InRaw(fees).coreFee = SdkToRawForPayout(f.coreFee)
        /\ InRaw(fees).stockback = SdkToRawForPayout(f.stockback)
    <2>1. "coreFee" \in DOMAIN fees /\ "stockback" \in DOMAIN fees
      BY DEF ComputeFees
    <2> HIDE DEF fees
    <2> QED  BY <1>5, <2>1 DEF InRaw
  <1> HIDE DEF fees
  <1>8. /\ intent.shown = InRaw(fees)
        /\ intent.call = <<"buy", raw, q.tokensOut>>
        /\ intent.refundedQuote = q.refundedQuote
        /\ intent.crossesGraduation = q.crosses
    BY <1>3 DEF BuildBuyIntent, fees
  <1> HIDE DEF intent, f
  <1> QED  BY <1>4, <1>6, <1>7, <1>8, SdkConvertsAlike DEF Offered, q, f

(* What a buy does, seen from the buyer and the two vaults.                *)
Fill(raw, received, refund, core, stockback) ==
    /\ token'["outside"] - token["outside"] = received
    /\ quote["outside"] - quote'["outside"] = raw - refund
    /\ quote'["feeVault"] - quote["feeVault"] = core
    /\ quote'["rewardVault"] - quote["rewardVault"] = stockback

(* quoteBuy asks the fee and curve functions the fill asks.                *)
LEMMA BuyIsQuoted ==
    ASSUME IInv, NEW raw \in BuyAmounts, Buy(raw)
    PROVE  LET q == QuoteBuy(raw)
               f == ForBuy(ToNormalized(raw))
           IN  /\ Fill(raw, q.tokensOut, q.refundedQuote,
                       ToRawForPayout(q.coreFee), ToRawForPayout(q.stockback))
               /\ q.tokensOut \in Nat
               /\ curveCollateral' - curveCollateral = q.netToCurve
               /\ status' = "GRADUATING" <=> q.crosses
               /\ ~ q.crosses => q.coreFee = f.coreFee /\ q.stockback = f.stockback
  <1> DEFINE gross == ToNormalized(raw)
             f     == ForBuy(gross)
             q     == QuoteBuy(raw)
  <1>1. /\ token \in [Holders -> Nat] /\ quote \in [Holders -> Nat]
        /\ curveCollateral \in Nat /\ distributed \in Nat
        /\ RemainingSupply \in Nat /\ RemainingSupply = QG - distributed
        /\ distributed + RemainingSupply = QG
    BY CurveConstants
       DEF IInv, TypeOK, ClosedExactlyAtEndpoint, RemainingSupply
  <1>2. raw \in Nat /\ gross \in Nat
    BY MarketAssumption, ToNormalizedBound
  <1>3. f.coreFee \in Nat /\ f.stockback \in Nat /\ f.net \in Nat
    BY <1>2, ForBuyIsExact
  <1>4. NetToEndpoint \in Nat
    BY NetToEndpointIsNatural
  <1>5. status = "PRE_GRAD"
    BY DEF Buy
  <1>6. CASE f.net < NetToEndpoint
    <2> DEFINE out  == TokensOutFor(distributed, f.net)
               core == ToRawForPayout(f.coreFee)
               sb   == ToRawForPayout(f.stockback)
    <2>1. /\ q.tokensOut = out /\ q.coreFee = f.coreFee
          /\ q.stockback = f.stockback /\ q.netToCurve = f.net
          /\ q.crosses = FALSE /\ q.refundedQuote = 0
      BY <1>3, <1>4, <1>6 DEF QuoteBuy
    <2>2. out \in Nat
      BY <1>1, <1>3, TokensOutWithinNet, CurveConstants
    <2>3. core \in Nat /\ sb \in Nat
      BY <1>3, ToRawBound
    <2>4. ExecutePreGradBuy(raw, f)
      BY <1>6 DEF Buy, IsOrdinary
    <2>5. /\ curveCollateral' = curveCollateral + f.net /\ status' = status
          /\ token' = [token EXCEPT !["market"] = @ - out, !["outside"] = @ + out]
          /\ quote' = [quote EXCEPT
                !["outside"]     = @ - raw,
                !["market"]      = @ + raw - core - sb,
                !["feeVault"]    = @ + core,
                !["rewardVault"] = @ + sb]
      BY <2>4 DEF ExecutePreGradBuy, CoreRaw, StockbackRaw
    <2> HIDE DEF gross, f, q, out, core, sb
    <2>6. Fill(raw, out, 0, core, sb)
      BY <1>1, <1>2, <2>2, <2>3, <2>5 DEF Fill, Holders
    <2>7. curveCollateral' - curveCollateral = f.net
      BY <1>1, <1>3, <2>5
    <2> QED
      BY <1>5, <2>1, <2>2, <2>5, <2>6, <2>7 DEF gross, f, q, core, sb
  <1>7. CASE ~ (f.net < NetToEndpoint)
    <2> DEFINE pg   == PreGradGross(gross)
               g    == ForBuy(pg)
               core == ToRawForPayout(g.coreFee)
               sb   == ToRawForPayout(g.stockback)
               back == RefundRaw(gross)
    <2>1. /\ q.tokensOut = RemainingSupply /\ q.coreFee = g.coreFee
          /\ q.stockback = g.stockback /\ q.netToCurve = NetToEndpoint
          /\ q.crosses = TRUE /\ q.refundedQuote = back
      BY <1>3, <1>4, <1>7 DEF QuoteBuy
    <2>2. pg \in Nat /\ gross - pg \in Nat
      BY <1>2, <1>4, SearchCovers DEF PreGradGross
    <2>3. core \in Nat /\ sb \in Nat /\ back \in Nat
      BY <2>2, ForBuyIsExact, ToRawBound DEF RefundRaw
    <2>4. ExecuteCrossingBuy(raw, gross)
      BY <1>7 DEF Buy, IsOrdinary
    <2>5. /\ curveCollateral' = curveCollateral + NetToEndpoint
          /\ status' = "GRADUATING"
          /\ token' = [token EXCEPT !["market"] = @ - RemainingSupply,
                                    !["outside"] = @ + RemainingSupply]
          /\ quote' = [quote EXCEPT
                !["outside"]     = @ - raw + back,
                !["market"]      = @ + raw - (core + sb) - back,
                !["feeVault"]    = @ + core,
                !["rewardVault"] = @ + sb]
      BY <2>4 DEF ExecuteCrossingBuy, CoreRaw, StockbackRaw
    <2> HIDE DEF gross, f, q, pg, g, core, sb, back
    <2>6. Fill(raw, RemainingSupply, back, core, sb)
      BY <1>1, <1>2, <2>3, <2>5 DEF Fill, Holders
    <2>7. curveCollateral' - curveCollateral = NetToEndpoint
      BY <1>1, <1>4, <2>5
    <2> QED
      BY <1>1, <2>1, <2>5, <2>6, <2>7 DEF gross, f, q, core, sb, g
  <1> QED  BY <1>6, <1>7

(* quoteSell likewise.                                                     *)
LEMMA SellIsQuoted ==
    ASSUME IInv, NEW tokensIn \in 1 .. QG, Sell(tokensIn)
    PROVE  LET q == QuoteSell(tokensIn)
           IN  /\ quote'["outside"] - quote["outside"] = q.netOutRaw
               /\ curveCollateral - curveCollateral' = q.grossOut
               /\ quote'["feeVault"] - quote["feeVault"]
                     = ToRawForPayout(q.coreFee)
  <1> DEFINE grossOut == GrossOutFor(distributed, tokensIn)
             f        == ForSell(grossOut)
             netRaw   == ToRawForPayout(f.net)
             core     == ToRawForPayout(f.coreFee)
             sb       == ToRawForPayout(f.stockback)
  <1>1. /\ quote \in [Holders -> Nat] /\ curveCollateral \in Nat
        /\ distributed \in Nat /\ tokensIn \in Nat
        /\ tokensIn \in 0 .. distributed
    BY CurveConstants DEF Sell, IInv, TypeOK
  <1>2. grossOut \in Nat
    BY <1>1, GrossOutWithinArea
  <1>3. netRaw \in Nat /\ core \in Nat /\ sb \in Nat
    BY <1>2, ForSellIsExact, ToRawBound
  <1>4. /\ curveCollateral' = curveCollateral - grossOut
        /\ quote' = [quote EXCEPT
              !["outside"]     = @ + netRaw,
              !["market"]      = @ - netRaw - core - sb,
              !["feeVault"]    = @ + core,
              !["rewardVault"] = @ + sb]
    BY DEF Sell, CoreRaw, StockbackRaw
  <1>5. LET q == QuoteSell(tokensIn)
        IN  /\ q.netOutRaw = netRaw /\ q.grossOut = grossOut
            /\ ToRawForPayout(q.coreFee) = core
    BY DEF QuoteSell
  <1> HIDE DEF grossOut, f, netRaw, core, sb
  <1>6. /\ quote'["outside"] - quote["outside"] = netRaw
        /\ quote'["feeVault"] - quote["feeVault"] = core
    BY <1>1, <1>3, <1>4 DEF Holders
  <1>7. curveCollateral - curveCollateral' = grossOut
    BY <1>1, <1>2, <1>4
  <1> QED  BY <1>5, <1>6, <1>7

(* The market's views, read in the state a trade executes in, are the      *)
(* trade; and what the API offers for a BUY without tolerance is the buy:  *)
(* the tokens, the refund, whether it closes the curve and, only when it   *)
(* does not, the fees.  That is so for every number of decimals, fee       *)
(* schedule and curve.  Nothing is said of the API's sells, whose minimum  *)
(* is wrong with fewer than 18 decimals (SellBoundIsTheNetPayout).         *)
THEOREM OfferIsTheFill == Spec => IntentEqualsFill
  <1>1. ASSUME IInv PROVE FillMatchesQuote
    <2>1. ASSUME NEW raw \in BuyAmounts, Buy(raw)
          PROVE  LET q == QuoteBuy(raw)
                 IN  /\ token'["outside"] - token["outside"] = q.tokensOut
                     /\ quote["outside"] - quote'["outside"]
                           = raw - q.refundedQuote
                     /\ curveCollateral' - curveCollateral = q.netToCurve
                     /\ quote'["feeVault"] - quote["feeVault"]
                           = ToRawForPayout(q.coreFee)
                     /\ quote'["rewardVault"] - quote["rewardVault"]
                           = ToRawForPayout(q.stockback)
                     /\ status' = "GRADUATING" <=> q.crosses
      BY <1>1, <2>1, BuyIsQuoted DEF Fill
    <2> QED  BY <1>1, <2>1, SellIsQuoted DEF FillMatchesQuote
  <1>2. ASSUME IInv PROVE OfferMatchesFill
    <2> SUFFICES ASSUME NEW raw \in BuyAmounts, Buy(raw)
                 PROVE  LET received == token'["outside"] - token["outside"]
                            offer == Quoted("BUY", raw, 0)
                            shown == offer.intent.shown
                        IN  /\ offer.ok
                            /\ offer.intent.call = <<"buy", raw, received>>
                            /\ quote["outside"] - quote'["outside"]
                                  = raw - offer.intent.refundedQuote
                            /\ offer.intent.crossesGraduation
                                  <=> status' = "GRADUATING"
                            /\ ~ offer.intent.crossesGraduation =>
                                  /\ quote'["feeVault"] - quote["feeVault"]
                                        = shown.coreFee
                                  /\ quote'["rewardVault"] - quote["rewardVault"]
                                        = shown.stockback
      BY DEF OfferMatchesFill
    <2> DEFINE q     == QuoteBuy(raw)
               f     == ForBuy(ToNormalized(raw))
               offer == Quoted("BUY", raw, 0)
    <2>1. /\ Fill(raw, q.tokensOut, q.refundedQuote,
                  ToRawForPayout(q.coreFee), ToRawForPayout(q.stockback))
          /\ q.tokensOut \in Nat
          /\ status' = "GRADUATING" <=> q.crosses
          /\ ~ q.crosses => q.coreFee = f.coreFee /\ q.stockback = f.stockback
      BY <1>2, BuyIsQuoted
    <2>2. status = "PRE_GRAD" /\ raw \in Nat \ {0}
      BY MarketAssumption DEF Buy
    <2>3. /\ offer.ok /\ offer.intent.call = <<"buy", raw, q.tokensOut>>
          /\ offer.intent.refundedQuote = q.refundedQuote
          /\ offer.intent.crossesGraduation = q.crosses
          /\ offer.intent.shown.coreFee = ToRawForPayout(f.coreFee)
          /\ offer.intent.shown.stockback = ToRawForPayout(f.stockback)
      BY <2>1, <2>2, OfferOfBuy
    <2> HIDE DEF q, f, offer
    <2> QED  BY <2>1, <2>3 DEF Fill, offer
  <1>3. IInv /\ [Next]_vars => [FillMatchesQuote /\ OfferMatchesFill]_vars
    BY <1>1, <1>2
  <1> QED  BY <1>3, MarketIsSafe, PTL DEF Spec, IntentEqualsFill
=============================================================================
