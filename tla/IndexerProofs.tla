---------------------------- MODULE IndexerProofs ----------------------------
(***************************************************************************)
(* The indexer, for every bound on the chain, its reorganisations, the     *)
(* window, crashes and failed calls: the event tables and the marks of the *)
(* commitment mirror the chain, a settled block is never taken back, a     *)
(* transaction appends or cuts, and every database committed satisfies its *)
(* constraints.  The inductive invariants, one lemma for every action, and *)
(* the theorems.                                                           *)
(***************************************************************************)
EXTENDS IndexerLemmas

-----------------------------------------------------------------------------
(* The inductive invariant                                                 *)

Ranging == pc \in {"logs", "headers", "commit", "last"}
RangeRecord ==
    [from : Nat, to : Nat, first : Ref, logs : Seq(Event), headers : SUBSET Ref, tx : Db]

TypeInv == TypeOK /\ ChainInv /\ DbOK(db)

(* The window ends in the last block processed.                            *)
WindowInv ==
    /\ window \in Seq(Ref) /\ Increasing(window)
    /\ window # <<>> => Last(window).number = indexed
    /\ pc = "down" => window = <<>>
    /\ \A ref \in ToSet(window) : Stamped(chain, forks, ref)

(* What has been read of a range.                                          *)
RangeRead ==
    /\ range \in RangeRecord
    /\ range.from = indexed + 1 /\ range.from <= range.to
    /\ range.to <= head /\ range.to <= indexed + BatchSize
    /\ range.first.number = range.from /\ Stamped(chain, forks, range.first)
    /\ \A ref \in range.headers :
         ref.number \in range.from + 1 .. range.to /\ Stamped(chain, forks, ref)
    /\ IsFiniteSet(range.headers)
    /\ \A r, s \in range.headers : r.number = s.number => r = s
    /\ \A e \in ToSet(range.logs) : e.block \in range.from .. range.to

RangeInv ==
    /\ pc = "tip" => head <= indexed
    /\ pc = "range" \/ Ranging => indexed < head
    /\ ~Ranging => range = NoRange
    /\ pc # "down" => indexed <= db.cursor /\ db.cursor <= indexed + BatchSize
    /\ Ranging => RangeRead
    /\ pc = "logs" => range.headers = {}
    /\ pc = "commit" => range.tx.cursor = range.to /\ DbOK(range.tx)
    /\ pc = "last" => db.cursor = range.to

(* The headers the range adds to those of the window; they are known to be *)
(* of one chain until the indexer can no longer notice a reorganisation.   *)
Read == ToSet(window) \cup {range.first} \cup range.headers
Steady == pc \in {"logs", "headers"} \/ (pc \in {"commit", "last"} /\ LastMissing)
Related == IF pc \in {"commit", "last"} THEN Read ELSE ToSet(window)

(* A market the database has and the loop does not know lies ahead.        *)
Aware ==
    pc # "down" /\ HasMarket(db) /\ ~known =>
        db.market.launchedAt > indexed /\ (pc = "last" => LaunchedIn(range.logs))

(* The transaction about to be committed.                                  *)
Staged ==
    pc = "commit" /\ Accepted(range.tx) =>
        /\ Bounded(range.tx) /\ Follows(chain, range.tx, Read)
        /\ HasMarket(range.tx) /\ ~known =>
             range.tx.market.launchedAt > indexed /\ LaunchedIn(range.logs)
        /\ db.rows \subseteq range.tx.rows
        /\ \A r \in range.tx.rows \ db.rows : r.block > db.cursor

Heads ==
    /\ pc \notin {"down", "idle", "tip"} => head <= Tip
    /\ pc \in {"range", "logs", "headers", "commit"} /\ AllOn(chain, ToSet(window)) => db.cursor <= head
    /\ pc \in {"logs", "headers", "commit"} => db.cursor <= range.to

LogsRead ==
    pc = "headers" => Gathered(chain, range.logs, range.from, range.to)
                      /\ Understood(range.logs, known)

TrustInv ==
    RowsTrusted =>
      /\ Bounded(db) /\ Follows(chain, db, Held) /\ Consistent(chain, Related)
      /\ Steady => AllOn(chain, Read)
      /\ Heads /\ LogsRead /\ Aware /\ Staged

(* A block is only settled where no reorganisation reaches any more.       *)
Final(c, p, d) ==
    \A b \in d.blocks : b.finalized => b.number <= p - MaxReorgDepth /\ CanonicalOn(c, b)
SettledInv ==
    RowsTrusted /\ MaxReorgDepth <= Confirmations =>
        Final(chain, peak, db) /\ (pc = "commit" => Final(chain, peak, range.tx))

IndexerInv == TypeInv /\ WindowInv /\ RangeInv /\ TrustInv /\ SettledInv

-----------------------------------------------------------------------------
(* Facts of every state                                                    *)

(* Types of the loop's state.                                              *)
LEMMA PlainFacts ==
    ASSUME IndexerInv
    PROVE  /\ pc \in Places /\ indexed \in Nat /\ head \in Nat /\ known \in BOOLEAN
           /\ indexed <= MaxHeight /\ head <= MaxHeight /\ MaxHeight \in Nat
           /\ db.cursor \in Nat /\ db.cursor <= MaxHeight /\ Accepted(db) /\ DbOK(db)
           /\ Len(window) <= Depth /\ Len(window) \in Nat /\ exposed \subseteq {"blind", "race", "replay"}
           /\ ChainInv /\ chain \in Seq(ChainBlock) /\ History(chain)
           /\ Tip \in Nat /\ Tip = Len(chain) /\ Tip <= MaxHeight /\ Tip <= peak /\ peak \in Nat /\ forks \in Nat
           /\ BatchSize \in Nat \ {0} /\ Confirmations \in Nat /\ MaxReorgDepth \in Nat
  <1>1. ChainInv /\ TypeOK /\ DbOK(db) /\ WindowInv
    BY DEF IndexerInv, TypeInv
  <1>2. MaxHeight \in Nat /\ BatchSize \in Nat \ {0} /\ Confirmations \in Nat /\ MaxReorgDepth \in Nat
    BY ChainAssumption, IndexerAssumption
  <1>3. Len(window) \in Nat
    BY <1>1 DEF WindowInv
  <1>4. /\ chain \in Seq(ChainBlock) /\ History(chain)
        /\ Tip \in Nat /\ Tip = Len(chain) /\ Tip <= MaxHeight /\ Tip <= peak /\ peak \in Nat /\ forks \in Nat
    BY <1>1 DEF ChainInv, Tip
  <1>5. /\ pc \in Places /\ indexed \in 0 .. MaxHeight /\ head \in 0 .. MaxHeight /\ known \in BOOLEAN
        /\ db.cursor \in 0 .. MaxHeight /\ Accepted(db)
        /\ Len(window) <= Depth /\ exposed \subseteq {"blind", "race", "replay"}
    BY <1>1 DEF TypeOK
  <1> QED  BY <1>1, <1>2, <1>3, <1>4, <1>5

(* What is known of the window.                                            *)
LEMMA WindowFacts ==
    ASSUME IndexerInv
    PROVE  /\ window \in Seq(Ref) /\ Increasing(window) /\ ToSet(window) \in SUBSET Ref
           /\ \A r \in ToSet(window) : /\ r.number \in Nat \ {0} /\ r.number <= indexed
                                       /\ Stamped(chain, forks, r)
           /\ window # <<>> => Last(window) \in ToSet(window) /\ Last(window).number = indexed
           /\ window = <<>> => ToSet(window) = {}
  <1>1. /\ window \in Seq(Ref) /\ Increasing(window)
        /\ window # <<>> => Last(window).number = indexed
        /\ \A ref \in ToSet(window) : Stamped(chain, forks, ref)
    BY DEF IndexerInv, WindowInv
  <1>2. ToSet(<<>>) = {}
    BY SmallSequences
  <1>3. ASSUME window # <<>>
        PROVE  /\ Last(window) \in ToSet(window)
               /\ \A r \in ToSet(window) : r \in Ref /\ r.number \in Nat \ {0} /\ r.number <= Last(window).number
    BY <1>1, <1>3, WindowEnds
  <1> QED  BY <1>1, <1>2, <1>3

(* What is known of a range once its first header is judged.               *)
LEMMA RangeFacts ==
    ASSUME IndexerInv, Ranging
    PROVE  /\ RangeRead
           /\ range.from \in Nat \ {0} /\ range.to \in Nat /\ range.first \in Ref
           /\ range.logs \in Seq(Event) /\ range.headers \in SUBSET Ref /\ range.tx \in Db
           /\ Read \in SUBSET Ref
           /\ \A r \in Read : /\ r.number \in Nat \ {0} /\ r.number <= range.to
                              /\ Stamped(chain, forks, r)
           /\ ~LastMissing => \E r \in Read : r.number = range.to
           /\ indexed < range.to
  <1>1. RangeRead
    BY DEF IndexerInv, RangeInv
  <1>2. indexed \in Nat /\ BatchSize \in Nat \ {0}
    BY PlainFacts
  <1>3. /\ range.from \in Nat /\ range.to \in Nat /\ range.first \in Ref
        /\ range.logs \in Seq(Event) /\ range.headers \in SUBSET Ref /\ range.tx \in Db
    BY <1>1 DEF RangeRead, RangeRecord
  <1>4. /\ range.from = indexed + 1 /\ range.from <= range.to /\ range.to <= indexed + BatchSize
        /\ range.first.number = range.from
        /\ \A ref \in range.headers : ref.number \in range.from + 1 .. range.to
        /\ \A ref \in range.headers \cup {range.first} : Stamped(chain, forks, ref)
    BY <1>1 DEF RangeRead
  <1>5. /\ ToSet(window) \in SUBSET Ref
        /\ \A r \in ToSet(window) : /\ r.number \in Nat \ {0} /\ r.number <= indexed
                                    /\ Stamped(chain, forks, r)
    BY WindowFacts
  <1>6. Read \in SUBSET Ref
    BY <1>3, <1>5 DEF Read
  <1>7. \A r \in Read : /\ r.number \in Nat \ {0} /\ r.number <= range.to
                        /\ Stamped(chain, forks, r)
    <2> SUFFICES ASSUME NEW r \in Read PROVE /\ r.number \in Nat \ {0} /\ r.number <= range.to
                                             /\ Stamped(chain, forks, r)
      OBVIOUS
    <2>1. CASE r \in ToSet(window)
      BY <1>2, <1>3, <1>4, <1>5, <2>1
    <2>2. CASE r = range.first
      BY <1>2, <1>3, <1>4, <2>2
    <2>3. CASE r \in range.headers
      BY <1>2, <1>3, <1>4, <2>3
    <2> QED  BY <2>1, <2>2, <2>3 DEF Read
  <1>8. ~LastMissing => \E r \in Read : r.number = range.to
    <2>1. ~LastMissing => range.to = range.from \/ \E ref \in range.headers : ref.number = range.to
      BY <1>3, <1>4 DEF LastMissing
    <2> QED  BY <1>4, <2>1 DEF Read
  <1> QED  BY <1>1, <1>2, <1>3, <1>4, <1>6, <1>7, <1>8

(* The headers held, at every place of the loop.                           *)
LEMMA HeldFacts ==
    ASSUME IndexerInv
    PROVE  /\ Held \in SUBSET Ref /\ ToSet(window) \subseteq Held
           /\ \A r \in Held : Stamped(chain, forks, r)
           /\ pc # "last" => Held = ToSet(window)
           /\ pc = "last" => Held = Read
           /\ Related \in SUBSET Ref /\ \A r \in Related : Stamped(chain, forks, r)
  <1>1. pc # "last" => Held = ToSet(window)
    BY DEF Held
  <1>2. pc = "last" => Held = Read
    BY DEF Held, Read
  <1>3. ToSet(window) \in SUBSET Ref /\ \A r \in ToSet(window) : Stamped(chain, forks, r)
    BY WindowFacts
  <1>4. Ranging => Read \in SUBSET Ref /\ \A r \in Read : Stamped(chain, forks, r)
    BY RangeFacts
  <1>5. pc \in {"commit", "last"} => Ranging
    BY DEF Ranging
  <1>6. Related = IF pc \in {"commit", "last"} THEN Read ELSE ToSet(window)
    BY DEF Related
  <1> QED  BY <1>1, <1>2, <1>3, <1>4, <1>5, <1>6 DEF Read

(* What is known of the database while no move went unnoticed.             *)
LEMMA TrustFacts ==
    ASSUME IndexerInv, RowsTrusted
    PROVE  /\ Bounded(db) /\ Follows(chain, db, Held) /\ Consistent(chain, Related)
           /\ Steady => AllOn(chain, Read)
           /\ Heads /\ LogsRead /\ Aware /\ Staged
           /\ MaxReorgDepth <= Confirmations => Final(chain, peak, db)
           /\ MaxReorgDepth <= Confirmations /\ pc = "commit" => Final(chain, peak, range.tx)
  BY DEF IndexerInv, TrustInv, SettledInv

-----------------------------------------------------------------------------
(* Moves of the chain                                                      *)

(* Headers at or below the point of a move stay canonical.                 *)
LEMMA AllOnMoved ==
    ASSUME NEW c \in Seq(ChainBlock), NEW f \in Nat, NEW k, NEW c2, NEW f2, Moved(c, f, k, c2, f2),
           NEW refs \in SUBSET Ref, \A r \in refs : Stamped(c, f, r)
    PROVE  AllOn(c2, refs) <=> AllOn(c, refs) /\ \A r \in refs : r.number <= k
  <1>1. \A r \in refs : CanonicalOn(c2, r) <=> CanonicalOn(c, r) /\ r.number <= k
    BY StampedMoved
  <1> QED  BY <1>1 DEF AllOn

(* Logs gathered below the point of a move stay gathered.                  *)
LEMMA GatheredMoved ==
    ASSUME NEW c \in Seq(ChainBlock), NEW f \in Nat, NEW k, NEW c2, NEW f2, Moved(c, f, k, c2, f2),
           NEW from \in Nat \ {0}, NEW to \in Nat, to <= k, NEW logs \in Seq(Event),
           \A e \in ToSet(logs) : e.block \in from .. to, Gathered(c, logs, from, to)
    PROVE  Gathered(c2, logs, from, to)
  <1>1. k \in Nat /\ \A i \in 1 .. k : c2[i] = c[i]
    BY DEF Moved
  <1>2. \A h \in from .. to : c2[h] = c[h] /\ KeysAt(c2, h) = KeysAt(c, h)
    BY <1>1 DEF KeysAt
  <1>3. KeysOf(c2, from, to) = KeysOf(c, from, to)
    BY <1>2 DEF KeysOf
  <1> QED  BY <1>2, <1>3 DEF Gathered, LaunchesAt

(* The depth of reorganisations, as arithmetic.                            *)
LEMMA StillBelow ==
    ASSUME NEW n \in Nat, NEW p \in Nat, NEW p2 \in Nat, NEW m \in Nat, NEW k \in Nat, NEW l \in Nat,
           n # 0, n <= p - m, n <= l, p2 >= p, k = l \/ k >= p - m, k <= l
    PROVE  n <= p2 - m /\ n \in 1 .. k /\ n \in 1 .. l /\ n \in 1 .. k + 1 /\ n <= k + 1
  OBVIOUS

(* A settled block is out of every reorganisation's reach.                 *)
LEMMA FinalMoved ==
    ASSUME NEW c \in Seq(ChainBlock), NEW f \in Nat, NEW k, NEW c2, NEW f2, Moved(c, f, k, c2, f2),
           NEW p \in Nat, NEW p2 \in Nat, p2 >= p, k = Len(c) \/ k >= p - MaxReorgDepth,
           MaxReorgDepth \in Nat, NEW d, DbOK(d), Final(c, p, d)
    PROVE  Final(c2, p2, d)
  <1>0. k \in Nat /\ k <= Len(c)
    <2>1. Len(c) \in Nat /\ k \in 0 .. Len(c)
      BY DEF Moved
    <2> QED  BY <2>1
  <1>1. /\ Len(c) \in Nat /\ k \in 0 .. Len(c) /\ Len(c2) = k + 1
        /\ DOMAIN c = 1 .. Len(c) /\ DOMAIN c2 = 1 .. k + 1
        /\ \A i \in 1 .. k : c2[i] = c[i]
    BY DEF Moved
  <1> DEFINE Old(b) == b.number <= p - MaxReorgDepth /\ CanonicalOn(c, b)
             New(b) == b.number <= p2 - MaxReorgDepth /\ CanonicalOn(c2, b)
  <1>2. ASSUME NEW b \in d.blocks, Old(b) PROVE New(b)
    <2> DEFINE n == b.number
    <2>2. n \in Nat /\ n # 0
      BY DbFields
    <2>4. n <= p - MaxReorgDepth /\ n <= Len(c) /\ b.hash = HashOn(c, n)
      BY <1>2 DEF CanonicalOn
    <2> HIDE DEF n
    <2>6. n \in 1 .. k /\ n \in DOMAIN c /\ n \in DOMAIN c2 /\ n <= k + 1 /\ n <= p2 - MaxReorgDepth
      BY <1>0, <1>1, <2>2, <2>4, StillBelow
    <2>7. HashOn(c2, n) = HashOn(c, n)
      BY <1>1, <2>6 DEF HashOn
    <2> QED  BY <1>1, <2>4, <2>6, <2>7 DEF CanonicalOn, n
  <1>3. \A b \in d.blocks : b.finalized => Old(b)
    BY DEF Final
  <1> HIDE DEF Old
  <1>4. \A b \in d.blocks : b.finalized => New(b)
    BY <1>2, <1>3
  <1> QED  BY <1>4 DEF Final

(* The moves the indexer is expected to cope with.                         *)
Noticeable(k) == k = Tip \/ (~Blind(k) /\ ~Race(k))

(* A range whose headers are not all read lies below a move it survives.   *)
LEMMA MoveSpares ==
    ASSUME IndexerInv, RowsTrusted, NEW k \in Nat, k <= Tip, Noticeable(k), Steady
    PROVE  range.to <= k
  <1>1. Ranging
    BY DEF Steady, Ranging
  <1>2. range.to \in Nat /\ range.to <= head
    BY <1>1, RangeFacts DEF RangeRead
  <1>3. head <= Tip
    BY <1>1, TrustFacts DEF Heads, Ranging
  <1>4. head \in Nat /\ Tip \in Nat
    BY PlainFacts
  <1>5. CASE k = Tip
    BY <1>2, <1>3, <1>4, <1>5
  <1>6. CASE ~Race(k)
    BY <1>2, <1>6 DEF Race, Steady
  <1> QED  BY <1>5, <1>6 DEF Noticeable

(* Any move the indexer can cope with keeps the invariant.                 *)
LEMMA MoveKeeps ==
    ASSUME IndexerInv, NEW k, Moved(chain, forks, k, chain', forks'), ChainInv',
           Tip' = k + 1, peak' >= peak, k = Tip \/ k >= peak - MaxReorgDepth,
           UNCHANGED <<db, window, indexed, known, pc, head, range, crashes, failures>>,
           exposed' \subseteq {"blind", "race", "replay"},
           RowsTrusted' => RowsTrusted /\ Noticeable(k)
    PROVE  IndexerInv'
  <1>1. /\ chain \in Seq(ChainBlock) /\ forks \in Nat /\ Len(chain) = Tip /\ Tip \in Nat
        /\ peak \in Nat /\ MaxReorgDepth \in Nat /\ DbOK(db) /\ db.cursor \in Nat /\ head \in Nat
        /\ Tip <= peak
    BY PlainFacts
  <1>2. chain' \in Seq(ChainBlock) /\ forks' \in Nat /\ peak' \in Nat
    BY DEF ChainInv
  <1>3. k \in Nat /\ k <= Tip
    BY <1>1 DEF Moved
  <1>4. TypeInv'
    BY DEF IndexerInv, TypeInv, TypeOK, Places, Accepted, DbOK, HasMarket
  <1>5. \A r \in Ref : Stamped(chain, forks, r) => Stamped(chain', forks', r)
    BY <1>1, StampedMoved
  <1>6. WindowInv'
    <2>1. \A r \in ToSet(window) : r \in Ref /\ Stamped(chain, forks, r)
      BY WindowFacts
    <2>2. \A r \in ToSet(window') : Stamped(chain', forks', r)
      BY <1>5, <2>1
    <2> QED  BY <2>2 DEF IndexerInv, WindowInv
  <1>7. RangeInv'
    <2>1. ASSUME Ranging PROVE RangeRead'
      <3>1. range.first \in Ref /\ range.headers \in SUBSET Ref /\ RangeRead
        BY <2>1, RangeFacts
      <3>2. Stamped(chain', forks', range.first)
        BY <1>5, <3>1 DEF RangeRead
      <3>3. \A r \in range.headers : Stamped(chain', forks', r)
        BY <1>5, <3>1 DEF RangeRead
      <3> QED  BY <3>1, <3>2, <3>3 DEF RangeRead
    <2>2. Ranging' = Ranging
      BY DEF Ranging
    <2> QED  BY <2>1, <2>2 DEF IndexerInv, RangeInv
  <1>8. TrustInv'
    <2> SUFFICES ASSUME RowsTrusted'
                 PROVE  /\ Bounded(db)' /\ Follows(chain, db, Held)' /\ Consistent(chain, Related)'
                        /\ (Steady => AllOn(chain, Read))'
                        /\ Heads' /\ LogsRead' /\ Aware' /\ Staged'
      BY DEF TrustInv
    <2>1. RowsTrusted /\ Noticeable(k)
      OBVIOUS
    <2>2. /\ Held' = Held /\ Read' = Read /\ Related' = Related /\ Steady' = Steady
          /\ LastMissing' = LastMissing /\ Ranging' = Ranging
      BY DEF Held, Read, Related, Steady, LastMissing, Ranging
    <2>3. k = Tip \/ (~Blind(k) /\ ~Race(k))
      BY <2>1 DEF Noticeable
    <2>4. Follows(chain', db, Held)
      <3>1. Held \in SUBSET Ref /\ \A r \in Held : Stamped(chain, forks, r) /\ r.number \in Nat
        BY HeldFacts DEF Ref
      <3>2. k = Len(chain) \/ db.cursor <= k \/ \E r \in Held : r.number > k
        BY <1>1, <1>3, <2>3, <3>1 DEF Blind
      <3> QED  BY <1>1, <2>1, <3>1, <3>2, TrustFacts, FollowsMoved
    <2>5. Consistent(chain', Related)
      BY <1>1, <2>1, HeldFacts, TrustFacts, ConsistentMoved
    <2>6. Steady => AllOn(chain', Read) /\ range.to <= k
      <3> SUFFICES ASSUME Steady PROVE AllOn(chain', Read) /\ range.to <= k
        OBVIOUS
      <3>1. Ranging
        BY DEF Steady, Ranging
      <3>2. /\ Read \in SUBSET Ref /\ range.to \in Nat /\ range.to <= head
            /\ \A r \in Read : Stamped(chain, forks, r) /\ r.number \in Nat /\ r.number <= range.to
        BY <3>1, RangeFacts DEF RangeRead
      <3>3. range.to <= k
        BY <1>3, <2>1, MoveSpares
      <3>4. \A r \in Read : r.number <= k
        BY <1>3, <3>2, <3>3
      <3>5. AllOn(chain, Read)
        BY <2>1, TrustFacts
      <3> QED  BY <1>1, <3>2, <3>3, <3>4, <3>5, AllOnMoved
    <2>7. Heads'
      <3>1. Heads
        BY <2>1, TrustFacts
      <3>2. pc \notin {"down", "idle", "tip"} => head <= k + 1
        <4>1. CASE k = Tip
          BY <1>1, <3>1, <4>1 DEF Heads
        <4>2. CASE ~Race(k)
          BY <1>1, <1>3, <4>2 DEF Race
        <4> QED  BY <2>3, <4>1, <4>2
      <3>3. AllOn(chain', ToSet(window)) => AllOn(chain, ToSet(window))
        BY <1>1, WindowFacts, AllOnMoved
      <3> QED  BY <3>1, <3>2, <3>3 DEF Heads
    <2>8. LogsRead'
      <3> SUFFICES ASSUME pc = "headers"
                   PROVE  Gathered(chain', range.logs, range.from, range.to)
        BY <2>1, TrustFacts DEF LogsRead, Understood
      <3>1. Ranging /\ Steady
        BY DEF Ranging, Steady
      <3>2. Gathered(chain, range.logs, range.from, range.to)
        BY <2>1, TrustFacts DEF LogsRead
      <3>3. range.to <= k
        BY <2>6, <3>1
      <3>4. /\ range.from \in Nat \ {0} /\ range.to \in Nat /\ range.logs \in Seq(Event)
            /\ \A e \in ToSet(range.logs) : e.block \in range.from .. range.to
        BY <3>1, RangeFacts DEF RangeRead
      <3> QED  BY <1>1, <3>2, <3>3, <3>4, GatheredMoved
    <2>9. Staged'
      <3> SUFFICES ASSUME pc = "commit", Accepted(range.tx) PROVE Follows(chain', range.tx, Read)
        BY <2>1, <2>2, TrustFacts DEF Staged, Accepted, HasMarket
      <3>1. Ranging /\ DbOK(range.tx) /\ range.tx.cursor = range.to
        BY DEF Ranging, IndexerInv, RangeInv
      <3>2. /\ Read \in SUBSET Ref /\ range.to \in Nat
            /\ \A r \in Read : Stamped(chain, forks, r)
            /\ ~LastMissing => \E r \in Read : r.number = range.to
        BY <3>1, RangeFacts
      <3>3. k = Len(chain) \/ range.tx.cursor <= k \/ \E r \in Read : r.number > k
        <4>1. CASE LastMissing
          <5>1. Steady
            BY <4>1 DEF Steady
          <5> QED  BY <2>6, <3>1, <5>1
        <4>2. CASE ~LastMissing
          BY <1>3, <3>1, <3>2, <4>2
        <4> QED  BY <4>1, <4>2
      <3>4. Follows(chain, range.tx, Read)
        BY <2>1, TrustFacts DEF Staged
      <3> QED  BY <1>1, <3>1, <3>2, <3>3, <3>4, FollowsMoved
    <2>10. Bounded(db)' /\ Aware'
      <3>1. Bounded(db) /\ Aware
        BY <2>1, TrustFacts
      <3> QED  BY <3>1 DEF Bounded, Aware, HasMarket
    <2> QED  BY <2>2, <2>4, <2>5, <2>6, <2>7, <2>8, <2>9, <2>10
  <1>9. SettledInv'
    <2> SUFFICES ASSUME RowsTrusted', MaxReorgDepth <= Confirmations
                 PROVE  /\ Final(chain', peak', db')
                        /\ pc' = "commit" => Final(chain', peak', range'.tx)
      BY DEF SettledInv
    <2>1. RowsTrusted
      OBVIOUS
    <2>2. Final(chain, peak, db) /\ (pc = "commit" => Final(chain, peak, range.tx))
      BY <2>1, TrustFacts
    <2>3. Final(chain', peak', db)
      BY <1>1, <1>2, <2>2, FinalMoved
    <2>4. pc = "commit" => DbOK(range.tx)
      BY DEF IndexerInv, RangeInv
    <2>5. pc = "commit" => Final(chain', peak', range.tx)
      BY <1>1, <1>2, <2>2, <2>4, FinalMoved
    <2> QED  BY <2>3, <2>5
  <1> QED  BY <1>4, <1>6, <1>7, <1>8, <1>9 DEF IndexerInv

(* A block is mined.                                                       *)
LEMMA GrowthKeeps ==
    ASSUME IndexerInv, NEW what \in Payloads, ChainGrows(what)
    PROVE  IndexerInv'
  <1>1. ChainInv /\ Tip \in Nat
    BY PlainFacts
  <1>2. /\ Mine(what) /\ exposed' = exposed
        /\ UNCHANGED <<db, window, indexed, known, pc, head, range, crashes, failures>>
    BY DEF ChainGrows, indexerVars
  <1>3. ChainInv' /\ Moved(chain, forks, Tip, chain', forks') /\ Tip' = Tip + 1 /\ peak' >= peak
    BY <1>1, <1>2, ChainMines
  <1>4. RowsTrusted' => RowsTrusted /\ Noticeable(Tip)
    BY <1>2 DEF RowsTrusted, Noticeable
  <1>5. exposed' \subseteq {"blind", "race", "replay"}
    BY <1>2, PlainFacts
  <1> QED  BY <1>2, <1>3, <1>4, <1>5, MoveKeeps

(* A reorganisation; one that nothing held will tell of is named in        *)
(* "exposed".                                                              *)
LEMMA ReorganisationKeeps ==
    ASSUME IndexerInv, NEW what \in Payloads, NEW k \in 0 .. MaxHeight, ChainReorganises(k, what)
    PROVE  IndexerInv'
  <1>1. ChainInv /\ Tip \in Nat /\ peak \in Nat
    BY PlainFacts
  <1>2. /\ Reorganise(k, what)
        /\ exposed' = exposed \cup {e \in {"blind"} : Blind(k)} \cup {e \in {"race"} : Race(k)}
        /\ UNCHANGED <<db, window, indexed, known, pc, head, range, crashes, failures>>
    BY DEF ChainReorganises
  <1>3. /\ ChainInv' /\ Moved(chain, forks, k, chain', forks') /\ Tip' = k + 1
        /\ peak' >= peak /\ k >= peak - MaxReorgDepth
    BY <1>1, <1>2, ChainReplaced
  <1>4. RowsTrusted' => RowsTrusted /\ Noticeable(k)
    <2>1. Blind(k) => "blind" \in exposed'
      BY <1>2
    <2>2. Race(k) => "race" \in exposed'
      BY <1>2
    <2>3. exposed \subseteq exposed'
      BY <1>2
    <2> QED  BY <2>1, <2>2, <2>3 DEF RowsTrusted, Noticeable
  <1>5. exposed' \subseteq {"blind", "race", "replay"}
    BY <1>2, PlainFacts
  <1> QED  BY <1>2, <1>3, <1>4, <1>5, MoveKeeps

-----------------------------------------------------------------------------
(* Steps of the loop leave the chain alone                                 *)

(* The loop leaves the chain alone.                                        *)
LEMMA ChainStays ==
    ASSUME ChainInv, UNCHANGED chainVars
    PROVE  /\ ChainInv' /\ Tip' = Tip /\ chain' = chain /\ forks' = forks /\ peak' = peak
  BY DEF chainVars, ChainInv, Tip

(* The tick ends outside a range: what is left to see to.                  *)
LEMMA OutsideRanges ==
    ASSUME IndexerInv, UNCHANGED chainVars, pc' \in {"down", "idle", "tip", "range"},
           TypeOK', DbOK(db'), WindowInv',
           pc' = "tip" => head' <= indexed', pc' = "range" => indexed' < head',
           range' = NoRange,
           pc' # "down" => indexed' <= db'.cursor /\ db'.cursor <= indexed' + BatchSize,
           RowsTrusted' =>
             /\ Bounded(db') /\ Follows(chain, db', ToSet(window')) /\ Consistent(chain, ToSet(window'))
             /\ pc' = "range" => head' <= Tip /\ (AllOn(chain, ToSet(window')) => db'.cursor <= head')
             /\ pc' # "down" /\ HasMarket(db') /\ ~known' => db'.market.launchedAt > indexed'
             /\ MaxReorgDepth <= Confirmations => Final(chain, peak, db')
    PROVE  IndexerInv'
  <1>1. ChainInv' /\ Tip' = Tip /\ chain' = chain /\ forks' = forks /\ peak' = peak
    BY PlainFacts, ChainStays
  <1>2. ~Ranging' /\ ~Steady' /\ pc' \notin {"logs", "headers", "commit", "last"}
    BY DEF Ranging, Steady
  <1>3. Held' = ToSet(window') /\ Related' = ToSet(window')
    BY <1>2 DEF Held, Related
  <1>4. TypeInv'
    BY <1>1 DEF TypeInv, DbOK
  <1>5. RangeInv'
    BY <1>2 DEF RangeInv
  <1>6. TrustInv'
    <2> SUFFICES ASSUME RowsTrusted'
                 PROVE  /\ Bounded(db)' /\ Follows(chain, db, Held)' /\ Consistent(chain, Related)'
                        /\ (Steady => AllOn(chain, Read))'
                        /\ Heads' /\ LogsRead' /\ Aware' /\ Staged'
      BY DEF TrustInv
    <2>1. Bounded(db)' /\ Follows(chain, db, Held)' /\ Consistent(chain, Related)'
      BY <1>1, <1>3
    <2>2. Heads'
      BY <1>1, <1>2 DEF Heads
    <2>3. LogsRead' /\ Staged'
      BY <1>2 DEF LogsRead, Staged
    <2>4. Aware'
      BY <1>2 DEF Aware, HasMarket
    <2> QED  BY <1>2, <2>1, <2>2, <2>3, <2>4
  <1>7. SettledInv'
    BY <1>1, <1>2 DEF SettledInv
  <1> QED  BY <1>4, <1>5, <1>6, <1>7 DEF IndexerInv

(* Going back to a height the window has, or to the head when it is empty. *)
LEMMA ReorgKeeps ==
    ASSUME IndexerInv, pc \in {"tip", "range"}, NEW n \in Nat, n <= indexed,
           HasHeight(window, n) \/ (window = <<>> /\ n <= Tip),
           HandleReorg(n), pc' = "idle", UNCHANGED <<chainVars, head, range>>
    PROVE  IndexerInv'
  <1>1. /\ db' = Rewound(db, n) /\ window' = DropAbove(window, n) /\ indexed' = n
        /\ exposed' = exposed \ {"replay"} /\ known' = known /\ head' = head /\ range' = range
        /\ UNCHANGED chainVars
    BY DEF HandleReorg, Rewound
  <1>2. /\ pc \in Places /\ indexed \in Nat /\ head \in Nat /\ known \in BOOLEAN
        /\ indexed <= MaxHeight /\ head <= MaxHeight /\ MaxHeight \in Nat
        /\ Accepted(db) /\ DbOK(db) /\ Len(window) <= Depth /\ Len(window) \in Nat
        /\ exposed \subseteq {"blind", "race", "replay"}
        /\ BatchSize \in Nat \ {0} /\ Tip \in Nat /\ Tip = Len(chain) /\ ChainInv
        /\ db.cursor \in Nat /\ chain \in Seq(ChainBlock)
    BY PlainFacts
  <1>3. /\ DbOK(db') /\ Accepted(db') /\ db'.cursor = n
        /\ db'.blocks = {b \in db.blocks : b.number <= n}
    <2>1. CutAt(db, Rewound(db, n), n)
      BY <1>2, RewoundTypes
    <2> QED  BY <1>1, <2>1 DEF CutAt
  <1>4. /\ window' \in Seq(Ref) /\ Increasing(window') /\ Len(window') <= Len(window)
        /\ ToSet(window') = {r \in ToSet(window) : r.number <= n}
        /\ HasHeight(window, n) => window' # <<>> /\ Last(window').number = n
        /\ window = <<>> => window' = <<>>
    BY <1>1, DropAboveIs, WindowFacts
  <1>5. ToSet(window) \in SUBSET Ref /\ \A r \in ToSet(window) : r.number \in Nat /\ Stamped(chain, forks, r)
    BY WindowFacts
  <1>6. window = <<>> => ToSet(window) = {}
    BY WindowFacts
  <1>7. range' = NoRange /\ indexed <= db.cursor /\ pc \notin {"down", "last", "commit"}
    BY <1>1 DEF IndexerInv, RangeInv, Ranging
  <1>8. TypeOK'
    <2>1. indexed' \in 0 .. MaxHeight /\ head' \in 0 .. MaxHeight /\ known' \in BOOLEAN
          /\ db'.cursor \in 0 .. MaxHeight
      BY <1>1, <1>2, <1>3
    <2>2. Len(window') <= Depth
      <3>1. Len(window') \in Nat /\ Depth \in Nat
        BY <1>4, TrackerAssumption
      <3> QED  BY <1>2, <1>4, <3>1
    <2>3. exposed' \subseteq {"blind", "race", "replay"}
      BY <1>1, <1>2
    <2> QED  BY <1>3, <2>1, <2>2, <2>3 DEF TypeOK, Places, Accepted, HasMarket
  <1>9. WindowInv'
    <2>1. \A r \in ToSet(window') : Stamped(chain', forks', r)
      BY <1>1, <1>4, <1>5 DEF chainVars
    <2>2. window' # <<>> => Last(window').number = indexed'
      BY <1>1, <1>4, <1>6
    <2> QED  BY <1>4, <2>1, <2>2 DEF WindowInv
  <1>10. ASSUME RowsTrusted'
         PROVE  /\ Bounded(db') /\ Follows(chain, db', ToSet(window')) /\ Consistent(chain, ToSet(window'))
                /\ HasMarket(db') /\ ~known' => db'.market.launchedAt > indexed'
                /\ MaxReorgDepth <= Confirmations => Final(chain, peak, db')
    <2>1. RowsTrusted
      BY <1>1, <1>10 DEF RowsTrusted
    <2>2. /\ Bounded(db) /\ Follows(chain, db, ToSet(window)) /\ Consistent(chain, ToSet(window)) /\ Aware
          /\ MaxReorgDepth <= Confirmations => Final(chain, peak, db)
      BY <1>7, <2>1, TrustFacts, HeldFacts DEF Related
    <2>3. /\ Bounded(db') /\ (\A m : m \in Nat /\ m <= n /\ Mirrors(chain, db, m) => Mirrors(chain, db', m))
          /\ HasMarket(db') => HasMarket(db) /\ db.market.launchedAt <= n
      <3>1. /\ Bounded(Rewound(db, n))
            /\ \A c, m : m \in Nat /\ m <= n /\ Mirrors(c, db, m) => Mirrors(c, Rewound(db, n), m)
            /\ HasMarket(Rewound(db, n)) => HasMarket(db) /\ db.market.launchedAt <= n
        BY <1>2, <2>2, RewoundMirrors
      <3> QED  BY <1>1, <3>1
    <2>4. AllOn(chain, ToSet(window')) => db'.cursor <= Len(chain) /\ Mirrors(chain, db', db'.cursor)
      <3> SUFFICES ASSUME AllOn(chain, ToSet(window')) PROVE n <= Len(chain) /\ Mirrors(chain, db', n)
        BY <1>3
      <3>1. CASE HasHeight(window, n)
        <4>1. PICK r \in ToSet(window) : r.number = n
          BY <3>1 DEF HasHeight
        <4>2. CanonicalOn(chain, r)
          BY <1>4, <4>1 DEF AllOn
        <4>3. Mirrors(chain, db, n)
          BY <2>2, <4>1, <4>2 DEF Follows
        <4> QED  BY <2>3, <4>1, <4>2, <4>3 DEF CanonicalOn
      <3>2. CASE window = <<>> /\ n <= Tip
        <4>1. AllOn(chain, ToSet(window))
          BY <1>6, <3>2 DEF AllOn
        <4>2. db.cursor <= Len(chain) /\ Mirrors(chain, db, db.cursor)
          BY <2>2, <4>1 DEF Follows
        <4>3. n <= db.cursor
          BY <1>2, <1>7
        <4>4. Mirrors(chain, db, n)
          BY <1>2, <4>2, <4>3, MirrorsBelow
        <4> QED  BY <1>2, <2>3, <3>2, <4>4
      <3> QED  BY <3>1, <3>2
    <2>5. \A r \in ToSet(window') : CanonicalOn(chain, r) => Mirrors(chain, db', r.number)
      <3> SUFFICES ASSUME NEW r \in ToSet(window'), CanonicalOn(chain, r) PROVE Mirrors(chain, db', r.number)
        OBVIOUS
      <3>1. r \in ToSet(window) /\ r.number <= n /\ r.number \in Nat
        BY <1>4, <1>5
      <3>2. Mirrors(chain, db, r.number)
        BY <2>2, <3>1 DEF Follows
      <3> QED  BY <2>3, <3>1, <3>2
    <2>6. Follows(chain, db', ToSet(window'))
      BY <2>4, <2>5 DEF Follows
    <2>7. Consistent(chain, ToSet(window'))
      BY <1>4, <2>2 DEF Consistent
    <2>8. ~(HasMarket(db') /\ ~known')
      <3> SUFFICES ASSUME HasMarket(db'), ~known' PROVE FALSE
        OBVIOUS
      <3>1. db.market.launchedAt > indexed /\ db.market.launchedAt <= n
        BY <1>1, <1>7, <2>2, <2>3 DEF Aware
      <3>2. db.market.launchedAt \in Nat
        BY <1>2, DbFields
      <3> QED  BY <1>2, <3>1, <3>2
    <2>9. MaxReorgDepth <= Confirmations => Final(chain, peak, db')
      BY <1>3, <2>2 DEF Final
    <2> QED  BY <2>3, <2>6, <2>7, <2>8, <2>9
  <1>11. indexed' <= db'.cursor /\ db'.cursor <= indexed' + BatchSize
    BY <1>1, <1>2, <1>3
  <1> QED  BY <1>1, <1>3, <1>7, <1>8, <1>9, <1>10, <1>11, OutsideRanges

(* Starting over.                                                          *)
LEMMA ReindexKeeps ==
    ASSUME IndexerInv, pc \in {"tip", "range"}, FullReindex, pc' = "idle",
           UNCHANGED <<chainVars, head, range>>
    PROVE  IndexerInv'
  <1>1. /\ db' = Rewound(db, 0) /\ window' = <<>> /\ indexed' = 0
        /\ exposed' = {} /\ known' = FALSE /\ head' = head /\ range' = range
        /\ UNCHANGED chainVars
    BY DEF FullReindex, Rewound
  <1>2. /\ head \in Nat /\ head <= MaxHeight /\ MaxHeight \in Nat
        /\ Accepted(db) /\ DbOK(db) /\ BatchSize \in Nat \ {0} /\ Tip \in Nat /\ Tip = Len(chain) /\ ChainInv
        /\ Depth \in Nat
    BY PlainFacts, TrackerAssumption
  <1>3. DbOK(db') /\ Accepted(db') /\ db'.cursor = 0
    <2>1. PICK n : n = 0
      OBVIOUS
    <2>2. n \in Nat
      BY <2>1
    <2>3. CutAt(db, Rewound(db, n), n)
      BY <1>2, <2>2, RewoundTypes
    <2> QED  BY <1>1, <2>1, <2>3 DEF CutAt
  <1>4. db'.rows = {} /\ db'.blocks = {} /\ ~HasMarket(db') /\ Bounded(db') /\ Mirrors(chain, db', 0)
    BY <1>1, <1>2, EmptiedMirrors
  <1>5. <<>> \in Seq(Ref) /\ ToSet(<<>>) = {} /\ Len(<<>>) = 0
    BY SmallSequences
  <1>6. range' = NoRange
    BY <1>1 DEF IndexerInv, RangeInv, Ranging
  <1>7. TypeOK'
    <2>1. indexed' \in 0 .. MaxHeight /\ head' \in 0 .. MaxHeight /\ known' \in BOOLEAN
          /\ db'.cursor \in 0 .. MaxHeight /\ Len(window') <= Depth
      <3>1. \A i \in Nat : i <= MaxHeight => i \in 0 .. MaxHeight
        BY <1>2
      <3>2. 0 \in Nat /\ 0 <= MaxHeight /\ Len(window') = 0 /\ 0 <= Depth
        BY <1>1, <1>2, <1>5
      <3> QED  BY <1>1, <1>2, <1>3, <3>1, <3>2
    <2> QED  BY <1>1, <1>3, <2>1 DEF TypeOK, Places, Accepted, HasMarket
  <1>8. WindowInv'
    <2>1. Increasing(<<>>)
      BY <1>5 DEF Increasing
    <2> QED  BY <1>1, <1>5, <2>1 DEF WindowInv
  <1>9. Follows(chain, db', ToSet(window')) /\ Consistent(chain, ToSet(window'))
    <2>1. ToSet(window') = {} /\ db'.cursor <= Len(chain)
      BY <1>1, <1>2, <1>3, <1>5
    <2> QED  BY <1>3, <1>4, <2>1 DEF Follows, Consistent
  <1>10. Final(chain, peak, db')
    BY <1>4 DEF Final
  <1>11. indexed' <= db'.cursor /\ db'.cursor <= indexed' + BatchSize
    BY <1>1, <1>2, <1>3
  <1> QED  BY <1>1, <1>3, <1>4, <1>6, <1>7, <1>8, <1>9, <1>10, <1>11, OutsideRanges

(* Whatever the tracker decides.                                           *)
LEMMA RewindKeeps ==
    ASSUME IndexerInv, pc \in {"tip", "range"}, NEW block, block.number \in Nat,
           Rewinds(Inspect(window, block)), Rewind(Inspect(window, block)), pc' = "idle",
           UNCHANGED <<chainVars, head, range>>
    PROVE  IndexerInv'
  <1> DEFINE decision == Inspect(window, block)
  <1>1. decision.action = "reorg" => HasHeight(window, decision.rollbackTo)
    BY WindowFacts, InspectIs
  <1>2. CASE decision.action = "reorg"
    <2> DEFINE n == decision.rollbackTo
    <2>1. HandleReorg(n)
      BY <1>2 DEF Rewind
    <2>2. PICK r \in ToSet(window) : r.number = n
      BY <1>1, <1>2 DEF HasHeight
    <2>3. n \in Nat /\ n <= indexed /\ HasHeight(window, n)
      BY <1>1, <1>2, <2>2, WindowFacts
    <2> HIDE DEF n
    <2> QED  BY <2>1, <2>3, ReorgKeeps
  <1>3. CASE decision.action # "reorg"
    BY <1>3, ReindexKeeps DEF Rewind
  <1> QED  BY <1>2, <1>3

(* A head that does not make the tick rewind is one of the window's        *)
(* heights.                                                                *)
LEMMA HeadOrNothing ==
    ASSUME IndexerInv, head <= indexed, ~Rewinds(Inspect(window, Header(head)))
    PROVE  window = <<>> \/ HasHeight(window, head)
  <1> DEFINE block == Header(head)
             decision == Inspect(window, block)
  <1> SUFFICES ASSUME window # <<>> PROVE HasHeight(window, head)
    OBVIOUS
  <1>1. head \in Nat /\ indexed \in Nat /\ block.number = head
    BY PlainFacts DEF Header
  <1>2. Last(window).number = indexed
    BY WindowFacts
  <1>3. /\ decision.action \in {"append", "gap", "duplicate", "reorg", "reindex_required"}
        /\ decision.action = "duplicate" => HasHeight(window, block.number)
        /\ decision.action = "append" /\ window # <<>> => block.number = Last(window).number + 1
        /\ decision.action = "gap" => block.number > Last(window).number + 1
    BY <1>1, WindowFacts, InspectIs
  <1>4. ~Rewinds(decision)
    OBVIOUS
  <1> HIDE DEF decision, block
  <1>5. decision.action \notin {"append", "gap"}
    BY <1>1, <1>2, <1>3
  <1> QED  BY <1>1, <1>3, <1>4, <1>5 DEF Rewinds

(* The tick that finds nothing to index looks at the head.                 *)
LEMMA CheckTipKeeps ==
    ASSUME IndexerInv, CheckTip
    PROVE  IndexerInv'
  <1> DEFINE block == Header(head)
             decision == Inspect(window, block)
  <1>1. /\ pc = "tip" /\ head <= Tip /\ pc' = "idle" /\ UNCHANGED <<chainVars, head, range>>
        /\ IF Rewinds(decision) THEN Rewind(decision)
           ELSE IF head < indexed THEN HandleReorg(head)
           ELSE UNCHANGED <<db, window, indexed, known, exposed>>
    BY DEF CheckTip
  <1>2. head \in Nat /\ indexed \in Nat /\ block.number = head /\ Tip \in Nat /\ head <= indexed
    <2>1. head <= indexed
      BY <1>1 DEF IndexerInv, RangeInv
    <2> QED  BY <2>1, PlainFacts DEF Header
  <1>3. CASE Rewinds(decision)
    BY <1>1, <1>2, <1>3, RewindKeeps
  <1>4. CASE ~Rewinds(decision) /\ head < indexed
    <2>1. HandleReorg(head)
      BY <1>1, <1>4
    <2>2. window = <<>> \/ HasHeight(window, head)
      BY <1>2, <1>4, HeadOrNothing
    <2> QED  BY <1>1, <1>2, <1>4, <2>1, <2>2, ReorgKeeps
  <1>5. CASE ~Rewinds(decision) /\ ~(head < indexed)
    <2>1. /\ UNCHANGED <<db, window, indexed, known, exposed, chainVars, head, range>>
          /\ pc = "tip" /\ pc' = "idle"
      BY <1>1, <1>5
    <2>2. /\ pc # "last" /\ range' = NoRange /\ indexed <= db.cursor /\ db.cursor <= indexed + BatchSize
      BY <2>1 DEF IndexerInv, RangeInv, Ranging
    <2>3. TypeOK' /\ DbOK(db')
      BY <2>1 DEF IndexerInv, TypeInv, TypeOK, DbOK, Places, Accepted, HasMarket
    <2>4. WindowInv'
      BY <2>1 DEF IndexerInv, WindowInv, chainVars
    <2>5. ASSUME RowsTrusted'
          PROVE  /\ Bounded(db') /\ Follows(chain, db', ToSet(window')) /\ Consistent(chain, ToSet(window'))
                 /\ HasMarket(db') /\ ~known' => db'.market.launchedAt > indexed'
                 /\ MaxReorgDepth <= Confirmations => Final(chain, peak, db')
      <3>1. RowsTrusted
        BY <2>1, <2>5 DEF RowsTrusted
      <3>2. /\ Bounded(db) /\ Follows(chain, db, ToSet(window)) /\ Consistent(chain, ToSet(window)) /\ Aware
            /\ MaxReorgDepth <= Confirmations => Final(chain, peak, db)
        BY <2>1, <3>1, TrustFacts, HeldFacts DEF Related
      <3> QED  BY <2>1, <3>2 DEF Aware, HasMarket
    <2> QED  BY <2>1, <2>2, <2>3, <2>4, <2>5, OutsideRanges
  <1> QED  BY <1>3, <1>4, <1>5

-----------------------------------------------------------------------------
(* The steps that end outside a range                                      *)

(* The process starts.                                                     *)
LEMMA StartKeeps ==
    ASSUME IndexerInv, Start
    PROVE  IndexerInv'
  <1>1. /\ pc = "down" /\ indexed' = db.cursor /\ known' = HasMarket(db) /\ window' = <<>> /\ pc' = "idle"
        /\ UNCHANGED <<chainVars, db, head, range, crashes, failures, exposed>>
    BY DEF Start
  <1>2. /\ db.cursor \in Nat /\ db.cursor <= MaxHeight /\ MaxHeight \in Nat
        /\ Depth \in Nat /\ BatchSize \in Nat \ {0}
    BY PlainFacts, TrackerAssumption
  <1>3. <<>> \in Seq(Ref) /\ ToSet(<<>>) = {} /\ Len(<<>>) = 0
    BY SmallSequences
  <1>4. window = <<>> /\ range' = NoRange
    BY <1>1 DEF IndexerInv, WindowInv, RangeInv, Ranging
  <1>5. TypeOK' /\ DbOK(db')
    <2>1. indexed' \in 0 .. MaxHeight /\ known' \in BOOLEAN
      BY <1>1, <1>2 DEF HasMarket
    <2>2. Len(window') <= Depth
      BY <1>1, <1>2, <1>3
    <2> QED  BY <1>1, <2>1, <2>2 DEF IndexerInv, TypeInv, TypeOK, DbOK, Places, Accepted, HasMarket
  <1>6. WindowInv'
    <2>1. Increasing(<<>>)
      BY <1>3 DEF Increasing
    <2> QED  BY <1>1, <1>3, <2>1 DEF WindowInv
  <1>7. ASSUME RowsTrusted'
        PROVE  /\ Bounded(db') /\ Follows(chain, db', ToSet(window')) /\ Consistent(chain, ToSet(window'))
               /\ HasMarket(db') /\ ~known' => db'.market.launchedAt > indexed'
               /\ MaxReorgDepth <= Confirmations => Final(chain, peak, db')
    <2>1. RowsTrusted
      BY <1>1, <1>7 DEF RowsTrusted
    <2>2. /\ Bounded(db) /\ Follows(chain, db, ToSet(window)) /\ Consistent(chain, ToSet(window))
          /\ MaxReorgDepth <= Confirmations => Final(chain, peak, db)
      BY <1>1, <2>1, TrustFacts, HeldFacts DEF Related
    <2> QED  BY <1>1, <1>4, <2>2 DEF HasMarket
  <1>8. indexed' <= db'.cursor /\ db'.cursor <= indexed' + BatchSize
    BY <1>1, <1>2
  <1> QED  BY <1>1, <1>4, <1>5, <1>6, <1>7, <1>8, OutsideRanges

(* A tick reads the head.                                                  *)
LEMMA TickKeeps ==
    ASSUME IndexerInv, Tick
    PROVE  IndexerInv'
  <1>1. /\ pc = "idle" /\ head' = Tip /\ pc' = (IF Tip <= indexed THEN "tip" ELSE "range")
        /\ UNCHANGED <<chainVars, db, window, indexed, known, range, crashes, failures, exposed>>
    BY DEF Tick
  <1>2. Tip \in Nat /\ Tip = Len(chain) /\ Tip <= MaxHeight /\ MaxHeight \in Nat /\ indexed \in Nat
    BY PlainFacts
  <1>3. range' = NoRange /\ indexed <= db.cursor /\ db.cursor <= indexed + BatchSize
    BY <1>1 DEF IndexerInv, RangeInv, Ranging
  <1>4. TypeOK' /\ DbOK(db')
    <2>1. head' \in 0 .. MaxHeight
      BY <1>1, <1>2
    <2>2. pc' \in Places
      BY <1>1 DEF Places
    <2> QED  BY <1>1, <2>1, <2>2 DEF IndexerInv, TypeInv, TypeOK, DbOK, Accepted, HasMarket
  <1>5. WindowInv'
    BY <1>1 DEF IndexerInv, WindowInv, chainVars
  <1>6. ASSUME RowsTrusted'
        PROVE  /\ Bounded(db') /\ Follows(chain, db', ToSet(window')) /\ Consistent(chain, ToSet(window'))
               /\ AllOn(chain, ToSet(window')) => db'.cursor <= head'
               /\ HasMarket(db') /\ ~known' => db'.market.launchedAt > indexed'
               /\ MaxReorgDepth <= Confirmations => Final(chain, peak, db')
    <2>1. RowsTrusted
      BY <1>1, <1>6 DEF RowsTrusted
    <2>2. /\ Bounded(db) /\ Follows(chain, db, ToSet(window)) /\ Consistent(chain, ToSet(window)) /\ Aware
          /\ MaxReorgDepth <= Confirmations => Final(chain, peak, db)
      BY <1>1, <2>1, TrustFacts, HeldFacts DEF Related
    <2>3. AllOn(chain, ToSet(window)) => db.cursor <= Tip
      BY <1>2, <2>2 DEF Follows
    <2> QED  BY <1>1, <2>2, <2>3 DEF Aware, HasMarket
  <1>7. /\ pc' = "tip" => head' <= indexed'
        /\ pc' = "range" => indexed' < head' /\ head' <= Tip
        /\ pc' \in {"tip", "range"}
    BY <1>1, <1>2
  <1> QED  BY <1>1, <1>3, <1>4, <1>5, <1>6, <1>7, OutsideRanges

(* A tick is abandoned; the headers it read are lost, but they were        *)
(* canonical.                                                              *)
LEMMA FailTickKeeps ==
    ASSUME IndexerInv, FailTick
    PROVE  IndexerInv'
  <1>1. /\ Reads(pc) /\ pc' = "idle" /\ range' = NoRange
        /\ exposed' = (IF pc = "last" THEN exposed \cup {"replay"} ELSE exposed)
        /\ UNCHANGED <<chainVars, db, window, indexed, known, head, crashes>>
    BY DEF FailTick
  <1>2. pc # "down" /\ (pc = "last" => LastMissing /\ Steady)
    BY <1>1 DEF Reads, Steady
  <1>3. indexed <= db.cursor /\ db.cursor <= indexed + BatchSize
    BY <1>2 DEF IndexerInv, RangeInv
  <1>4. TypeOK' /\ DbOK(db')
    <2>1. exposed' \subseteq {"blind", "race", "replay"}
      BY <1>1, PlainFacts
    <2> QED  BY <1>1, <2>1 DEF IndexerInv, TypeInv, TypeOK, DbOK, Places, Accepted, HasMarket
  <1>5. WindowInv'
    BY <1>1 DEF IndexerInv, WindowInv, chainVars
  <1>6. ASSUME RowsTrusted'
        PROVE  /\ Bounded(db') /\ Follows(chain, db', ToSet(window')) /\ Consistent(chain, ToSet(window'))
               /\ HasMarket(db') /\ ~known' => db'.market.launchedAt > indexed'
               /\ MaxReorgDepth <= Confirmations => Final(chain, peak, db')
    <2>1. RowsTrusted
      BY <1>1, <1>6 DEF RowsTrusted
    <2>2. /\ Bounded(db) /\ Follows(chain, db, Held) /\ Consistent(chain, Related) /\ Aware
          /\ Steady => AllOn(chain, Read)
          /\ MaxReorgDepth <= Confirmations => Final(chain, peak, db)
      BY <2>1, TrustFacts
    <2>3. ToSet(window) \subseteq Held /\ ToSet(window) \subseteq Related
          /\ (pc = "last" => Held = Read) /\ (pc # "last" => Held = ToSet(window))
      BY HeldFacts DEF Related, Read
    <2>4. AllOn(chain, ToSet(window)) => AllOn(chain, Held)
      BY <1>2, <2>2, <2>3
    <2>5. Follows(chain, db, ToSet(window))
      BY <2>2, <2>3, <2>4 DEF Follows
    <2>6. Consistent(chain, ToSet(window))
      BY <2>2, <2>3 DEF Consistent
    <2> QED  BY <1>1, <1>2, <2>2, <2>5, <2>6 DEF Aware, HasMarket
  <1> QED  BY <1>1, <1>3, <1>4, <1>5, <1>6, OutsideRanges

(* The process dies; the headers lost were canonical, or "blind" says not. *)
LEMMA CrashKeeps ==
    ASSUME IndexerInv, Crash
    PROVE  IndexerInv'
  <1>1. /\ pc' = "down" /\ window' = <<>> /\ indexed' = 0 /\ known' = FALSE /\ head' = 0
        /\ range' = NoRange
        /\ exposed' = exposed \cup {e \in {"blind"} : \E ref \in Held : ~Canonical(ref)}
        /\ UNCHANGED <<chainVars, db, failures>>
    BY DEF Crash
  <1>2. MaxHeight \in Nat /\ Depth \in Nat /\ Tip = Len(chain)
    BY PlainFacts, TrackerAssumption
  <1>3. <<>> \in Seq(Ref) /\ ToSet(<<>>) = {} /\ Len(<<>>) = 0
    BY SmallSequences
  <1>4. TypeOK' /\ DbOK(db')
    <2>1. indexed' \in 0 .. MaxHeight /\ head' \in 0 .. MaxHeight /\ Len(window') <= Depth
      BY <1>1, <1>2, <1>3
    <2>2. exposed' \subseteq {"blind", "race", "replay"}
      BY <1>1, PlainFacts
    <2> QED  BY <1>1, <2>1, <2>2 DEF IndexerInv, TypeInv, TypeOK, DbOK, Places, Accepted, HasMarket
  <1>5. WindowInv'
    <2>1. Increasing(<<>>)
      BY <1>3 DEF Increasing
    <2> QED  BY <1>1, <1>3, <2>1 DEF WindowInv
  <1>6. ASSUME RowsTrusted'
        PROVE  /\ Bounded(db') /\ Follows(chain, db', ToSet(window')) /\ Consistent(chain, ToSet(window'))
               /\ MaxReorgDepth <= Confirmations => Final(chain, peak, db')
    <2>1. RowsTrusted /\ "blind" \notin exposed'
      BY <1>1, <1>6 DEF RowsTrusted
    <2>2. AllOn(chain, Held)
      BY <1>1, <2>1, CanonicalIs DEF AllOn
    <2>3. /\ Bounded(db) /\ Follows(chain, db, Held)
          /\ MaxReorgDepth <= Confirmations => Final(chain, peak, db)
      BY <2>1, TrustFacts
    <2>4. db.cursor <= Len(chain) /\ Mirrors(chain, db, db.cursor)
      BY <2>2, <2>3 DEF Follows
    <2>5. Follows(chain, db, {}) /\ Consistent(chain, {})
      BY <2>4 DEF Follows, Consistent
    <2> QED  BY <1>1, <1>3, <2>3, <2>5
  <1> QED  BY <1>1, <1>4, <1>5, <1>6, OutsideRanges

-----------------------------------------------------------------------------
(* The end of a range                                                      *)

(* The window ends in the header of the range's end.                       *)
LEMMA FinishedWindow ==
    ASSUME IndexerInv, FinishRange
    PROVE  \E last \in Ref :
             /\ last.number = range.to
             /\ LastMissing => last = Header(range.to) /\ range.to \in 1 .. Tip
             /\ ~LastMissing => last \in Read
             /\ window' \in Seq(Ref) /\ Increasing(window') /\ Len(window') <= Depth
             /\ window' # <<>> /\ Last(window') = last /\ ToSet(window') \subseteq Read \cup {last}
  <1> DEFINE first == range.first
             hs == range.headers
             to == range.to
             end == IF LastMissing THEN {Header(to)} ELSE {}
             refs == {first} \cup hs \cup end
  <1>1. /\ pc = "last" /\ Ranging /\ (LastMissing => to <= Tip)
        /\ window' = CommitAll(window, refs, to)
    BY DEF FinishRange, Ranging
  <1>2. /\ RangeRead /\ range.from \in Nat \ {0} /\ to \in Nat /\ first \in Ref /\ hs \in SUBSET Ref
        /\ indexed < to
    BY <1>1, RangeFacts
  <1>3. /\ window \in Seq(Ref) /\ Increasing(window) /\ Len(window) <= Depth
        /\ ChainInv /\ Tip \in Nat /\ indexed \in Nat
    BY WindowFacts, PlainFacts
  <1>4. /\ range.from <= to /\ first.number = range.from
        /\ \A ref \in hs : ref.number \in range.from + 1 .. to
        /\ \A r, s \in hs : r.number = s.number => r = s
    BY <1>2 DEF RangeRead
  <1>5. LastMissing => to > range.from /\ \A ref \in hs : ref.number # to
    BY DEF LastMissing
  <1>6. ~LastMissing => to = range.from \/ \E ref \in hs : ref.number = to
    BY <1>2, <1>4 DEF LastMissing
  <1>7. first \in Read /\ ToSet(window) \subseteq Read /\ hs \subseteq Read
    BY DEF Read
  <1>8. to \in Nat \ {0}
    BY <1>2, <1>3
  <1>9. LastMissing => /\ to \in 1 .. Tip /\ Header(to) \in Ref /\ Header(to).number = to
    <2>1. LastMissing => to \in 1 .. Tip
      BY <1>1, <1>3, <1>8
    <2> QED  BY <1>3, <2>1, HeaderTypes
  <1>10. (LastMissing => end = {Header(to)}) /\ (~LastMissing => end = {})
    OBVIOUS
  <1> HIDE DEF end, first, hs, to
  <1>11. refs \in SUBSET Ref
    BY <1>2, <1>9, <1>10
  <1>12. ASSUME NEW last \in refs, last.number = to, \A ref \in refs : ref.number = to => ref = last
         PROVE  /\ window' \in Seq(Ref) /\ Increasing(window') /\ Len(window') <= Depth
                /\ window' # <<>> /\ Last(window') = last /\ ToSet(window') \subseteq ToSet(window) \cup refs
    <2> DEFINE v == CommitAll(window, refs, to)
    <2>1. /\ v \in Seq(Ref) /\ Increasing(v) /\ Len(v) <= Depth
          /\ v # <<>> /\ Last(v) = last /\ ToSet(v) \subseteq ToSet(window) \cup refs
      <3> HIDE DEF refs
      <3>1. PICK r : r = refs
        OBVIOUS
      <3>2. PICK n \in Nat \ {0} : n = to
        BY <1>8
      <3>3. PICK w : w = window
        OBVIOUS
      <3>4. r \in SUBSET Ref /\ last \in r /\ last.number = n /\ \A ref \in r : ref.number = n => ref = last
        BY <1>11, <1>12, <3>1, <3>2
      <3>5. w \in Seq(Ref) /\ Increasing(w) /\ Len(w) <= Depth
        BY <1>3, <3>3
      <3>6. /\ CommitAll(w, r, n) \in Seq(Ref) /\ Increasing(CommitAll(w, r, n))
            /\ Len(CommitAll(w, r, n)) <= Depth /\ CommitAll(w, r, n) # <<>>
            /\ Last(CommitAll(w, r, n)) = last /\ ToSet(CommitAll(w, r, n)) \subseteq ToSet(w) \cup r
        BY <3>4, <3>5, CommitAllIs
      <3> QED  BY <3>1, <3>2, <3>3, <3>6
    <2> HIDE DEF v
    <2>2. window' = v
      BY <1>1 DEF v
    <2> QED  BY <2>1, <2>2
  <1>13. CASE LastMissing
    <2>1. Header(to) \in refs /\ Header(to).number = to
      BY <1>9, <1>10, <1>13
    <2>2. \A ref \in refs : ref.number = to => ref = Header(to)
      BY <1>2, <1>4, <1>5, <1>10, <1>13
    <2>3. ToSet(window) \cup refs \subseteq Read \cup {Header(to)}
      BY <1>7, <1>10, <1>13
    <2>4. PICK last \in refs : last = Header(to)
      BY <2>1
    <2> HIDE DEF refs
    <2>5. /\ window' \in Seq(Ref) /\ Increasing(window') /\ Len(window') <= Depth
          /\ window' # <<>> /\ Last(window') = last /\ ToSet(window') \subseteq ToSet(window) \cup refs
      BY <1>12, <2>1, <2>2, <2>4
    <2>6. last \in Ref /\ last.number = to /\ to \in 1 .. Tip
      BY <1>9, <1>13, <2>4
    <2> QED  BY <1>13, <2>3, <2>4, <2>5, <2>6 DEF to
  <1>14. CASE ~LastMissing
    <2>1. PICK last \in refs : last \in {first} \cup hs /\ last.number = to
      BY <1>4, <1>6, <1>14
    <2>2. \A ref \in refs : ref.number = to => ref = last
      <3>1. \A ref \in refs : ref \in {first} \cup hs
        BY <1>10, <1>14
      <3>2. \A ref \in hs : ref.number # first.number
        BY <1>2, <1>4
      <3> QED  BY <1>4, <2>1, <3>1, <3>2
    <2>3. ToSet(window) \cup refs \subseteq Read /\ last \in Read
      BY <1>7, <1>10, <1>14, <2>1
    <2>4. last \in Ref
      BY <1>11, <2>1
    <2> HIDE DEF refs
    <2>5. /\ window' \in Seq(Ref) /\ Increasing(window') /\ Len(window') <= Depth
          /\ window' # <<>> /\ Last(window') = last /\ ToSet(window') \subseteq ToSet(window) \cup refs
      BY <1>12, <2>1, <2>2
    <2> QED  BY <1>14, <2>1, <2>3, <2>4, <2>5 DEF to
  <1> QED  BY <1>13, <1>14

(* Memory follows the commit.                                              *)
LEMMA FinishRangeKeeps ==
    ASSUME IndexerInv, FinishRange
    PROVE  IndexerInv'
  <1>1. /\ pc = "last" /\ known' = (known \/ LaunchedIn(range.logs)) /\ indexed' = range.to
        /\ range' = NoRange /\ pc' = (IF range.to < head THEN "range" ELSE "idle")
        /\ UNCHANGED <<chainVars, db, head, crashes, failures, exposed>>
    BY DEF FinishRange
  <1>2. PICK last \in Ref :
             /\ last.number = range.to
             /\ LastMissing => last = Header(range.to) /\ range.to \in 1 .. Tip
             /\ ~LastMissing => last \in Read
             /\ window' \in Seq(Ref) /\ Increasing(window') /\ Len(window') <= Depth
             /\ window' # <<>> /\ Last(window') = last /\ ToSet(window') \subseteq Read \cup {last}
    BY FinishedWindow
  <1>3. Ranging
    BY <1>1 DEF Ranging
  <1>4. /\ RangeRead /\ range.to \in Nat /\ range.to <= head /\ Read \in SUBSET Ref
        /\ \A r \in Read : Stamped(chain, forks, r)
    BY <1>3, RangeFacts DEF RangeRead
  <1>5. /\ head \in Nat /\ head <= MaxHeight /\ MaxHeight \in Nat /\ BatchSize \in Nat \ {0}
        /\ ChainInv /\ Tip = Len(chain) /\ Tip \in Nat
    BY PlainFacts
  <1>6. db.cursor = range.to
    BY <1>1 DEF IndexerInv, RangeInv
  <1>7. LastMissing => CanonicalOn(chain, last) /\ Stamped(chain, forks, last)
    BY <1>2, <1>5, HeaderTypes
  <1>8. TypeOK' /\ DbOK(db')
    <2>1. indexed' \in 0 .. MaxHeight /\ known' \in BOOLEAN
      BY <1>1, <1>4, <1>5, PlainFacts DEF LaunchedIn
    <2>2. pc' \in Places
      BY <1>1 DEF Places
    <2> QED  BY <1>1, <1>2, <2>1, <2>2 DEF IndexerInv, TypeInv, TypeOK, DbOK, Accepted, HasMarket
  <1>9. WindowInv'
    <2>1. \A r \in ToSet(window') : Stamped(chain, forks, r)
      BY <1>2, <1>4, <1>7
    <2>2. pc' # "down"
      BY <1>1
    <2> QED  BY <1>1, <1>2, <2>1, <2>2 DEF WindowInv, chainVars
  <1>10. ASSUME RowsTrusted'
         PROVE  /\ Bounded(db') /\ Follows(chain, db', ToSet(window')) /\ Consistent(chain, ToSet(window'))
                /\ head' <= Tip /\ (pc' = "range" => db'.cursor <= head')
                /\ ~(HasMarket(db') /\ ~known')
                /\ MaxReorgDepth <= Confirmations => Final(chain, peak, db')
    <2>1. RowsTrusted
      BY <1>1, <1>10 DEF RowsTrusted
    <2>2. /\ Bounded(db) /\ Follows(chain, db, Read) /\ Consistent(chain, Read)
          /\ LastMissing => AllOn(chain, Read)
          /\ head <= Tip
          /\ HasMarket(db) /\ ~known => LaunchedIn(range.logs)
          /\ MaxReorgDepth <= Confirmations => Final(chain, peak, db)
      <3>1. Related = Read /\ Held = Read
        BY <1>1, HeldFacts DEF Related
      <3>2. LastMissing => Steady
        BY <1>1 DEF Steady
      <3> QED  BY <1>1, <2>1, <3>1, <3>2, TrustFacts DEF Heads, Aware
    <2>3. LastMissing => db.cursor <= Len(chain) /\ Mirrors(chain, db, db.cursor)
      BY <2>2 DEF Follows
    <2>4. AllOn(chain, ToSet(window')) => db.cursor <= Len(chain) /\ Mirrors(chain, db, db.cursor)
      <3> SUFFICES ASSUME ~LastMissing, AllOn(chain, ToSet(window'))
                   PROVE  db.cursor <= Len(chain) /\ Mirrors(chain, db, db.cursor)
        BY <2>3
      <3>1. last \in ToSet(window') /\ last \in Read
        BY <1>2, WindowEnds
      <3>2. CanonicalOn(chain, last)
        BY <3>1 DEF AllOn
      <3> QED  BY <1>2, <1>6, <2>2, <3>1, <3>2 DEF Follows, CanonicalOn
    <2>5. \A r \in ToSet(window') : CanonicalOn(chain, r) => Mirrors(chain, db, r.number)
      <3>1. ~LastMissing => ToSet(window') \subseteq Read
        BY <1>2
      <3>2. LastMissing => Mirrors(chain, db, last.number)
        BY <1>2, <1>6, <2>3
      <3> QED  BY <1>2, <2>2, <3>1, <3>2 DEF Follows
    <2>6. Consistent(chain, ToSet(window'))
      <3>1. CASE LastMissing
        <4>1. \A r \in ToSet(window') : CanonicalOn(chain, r)
          BY <1>2, <1>7, <2>2, <3>1 DEF AllOn
        <4> QED  BY <4>1 DEF Consistent
      <3>2. CASE ~LastMissing
        <4>1. ToSet(window') \subseteq Read
          BY <1>2, <3>2
        <4> QED  BY <2>2, <4>1 DEF Consistent
      <3> QED  BY <3>1, <3>2
    <2>7. Follows(chain, db, ToSet(window'))
      BY <2>4, <2>5 DEF Follows
    <2>8. ~(HasMarket(db') /\ ~known')
      BY <1>1, <2>2 DEF HasMarket
    <2>9. db.cursor <= head
      BY <1>4, <1>6
    <2> QED  BY <1>1, <2>2, <2>6, <2>7, <2>8, <2>9
  <1>11. /\ indexed' <= db'.cursor /\ db'.cursor <= indexed' + BatchSize
         /\ pc' \in {"range", "idle"} /\ (pc' = "range" => indexed' < head')
    BY <1>1, <1>4, <1>5, <1>6
  <1> QED  BY <1>1, <1>8, <1>9, <1>10, <1>11, OutsideRanges

-----------------------------------------------------------------------------
(* The steps of a range                                                    *)

(* A header that appends to the window vouches for all of it.              *)
LEMMA HeaderFollows ==
    ASSUME IndexerInv, RowsTrusted, pc = "range", indexed < Tip,
           Inspect(window, Header(indexed + 1)).action = "append"
    PROVE  AllOn(chain, ToSet(window))
  <1>1. /\ indexed \in Nat /\ Tip \in Nat /\ Tip = Len(chain) /\ ChainInv
    BY PlainFacts
  <1>2. CASE window = <<>>
    BY <1>2, WindowFacts DEF AllOn
  <1>3. CASE window # <<>>
    <2> DEFINE block == Header(indexed + 1)
               last == Last(window)
    <2>1. indexed + 1 \in 1 .. Tip
      BY <1>1
    <2>2. block.number = indexed + 1 /\ block.parent = HashOn(chain, indexed + 1 - 1)
      BY <1>1, <2>1, HeaderTypes
    <2>3. last \in ToSet(window) /\ last.number = indexed
      BY <1>3, WindowFacts
    <2>4. block.number \in Nat
      BY <1>1, <2>2
    <2>5. block.parent = last.hash
      BY <1>3, <2>4, WindowFacts, InspectIs
    <2> HIDE DEF last, block
    <2>6. CanonicalOn(chain, last)
      BY <1>1, <2>2, <2>3, <2>5 DEF CanonicalOn
    <2>7. Consistent(chain, ToSet(window))
      BY TrustFacts DEF Related
    <2>8. \A r \in ToSet(window) : r.number <= indexed
      BY WindowFacts
    <2> QED  BY <2>3, <2>6, <2>7, <2>8 DEF Consistent, AllOn
  <1> QED  BY <1>2, <1>3

(* The first header of a range is read and judged.                         *)
LEMMA ReadFirstKeeps ==
    ASSUME IndexerInv, ReadFirst
    PROVE  IndexerInv'
  <1> DEFINE from == indexed + 1
             to == IF from + BatchSize - 1 < head THEN from + BatchSize - 1 ELSE head
             block == Header(from)
             decision == Inspect(window, block)
             read == [from |-> from, to |-> to, first |-> block, logs |-> <<>>, headers |-> {}, tx |-> db]
  <1>1. /\ pc = "range" /\ indexed < Tip /\ decision.action # "gap"
        /\ IF Rewinds(decision)
           THEN Rewind(decision) /\ pc' = "idle" /\ UNCHANGED range
           ELSE /\ range' = read /\ pc' = "logs"
                /\ UNCHANGED <<db, window, indexed, known, exposed>>
        /\ UNCHANGED <<chainVars, head, crashes, failures>>
    BY DEF ReadFirst
  <1>2. /\ indexed \in Nat /\ head \in Nat /\ BatchSize \in Nat \ {0} /\ Tip \in Nat /\ Tip = Len(chain)
        /\ ChainInv /\ DbOK(db) /\ db.cursor \in Nat
    BY PlainFacts
  <1>3. from \in 1 .. Tip
    BY <1>1, <1>2
  <1>4. /\ block \in Ref /\ block.number = from /\ CanonicalOn(chain, block) /\ Stamped(chain, forks, block)
    BY <1>2, <1>3, HeaderTypes
  <1>5. block.number \in Nat
    BY <1>3, <1>4
  <1>6. CASE Rewinds(decision)
    BY <1>1, <1>5, <1>6, RewindKeeps
  <1>7. CASE ~Rewinds(decision)
    <2>1. /\ pc' = "logs" /\ range' = read
          /\ UNCHANGED <<chainVars, head, crashes, failures, db, window, indexed, known, exposed>>
      BY <1>1, <1>7
    <2>2. indexed < head /\ indexed <= db.cursor /\ db.cursor <= indexed + BatchSize
      BY <1>1 DEF IndexerInv, RangeInv
    <2>3. from \in Nat /\ to \in Nat /\ from <= to /\ to <= head /\ to <= indexed + BatchSize
          /\ to >= 0 /\ (to = head \/ to = indexed + BatchSize)
      BY <1>2, <2>2
    <2>4. decision.action = "append"
      <3>1. /\ decision.action \in {"append", "gap", "duplicate", "reorg", "reindex_required"}
            /\ decision.action = "duplicate" => HasHeight(window, block.number)
        BY <1>5, WindowFacts, InspectIs
      <3>2. ~HasHeight(window, block.number)
        <4>1. \A r \in ToSet(window) : r.number \in Nat /\ r.number <= indexed
          BY WindowFacts
        <4>2. \A r \in ToSet(window) : r.number # from
          BY <1>2, <4>1
        <4> QED  BY <1>4, <4>2 DEF HasHeight
      <3> HIDE DEF decision, block
      <3> QED  BY <1>1, <1>7, <3>1, <3>2 DEF Rewinds
    <2>5. /\ read \in RangeRecord /\ read.from = from /\ read.to = to /\ read.first = block
          /\ read.logs = <<>> /\ read.headers = {}
      <3>1. <<>> \in Seq(Event) /\ {} \in SUBSET Ref /\ db \in Db
        BY <1>2, SmallSequences DEF DbOK
      <3> HIDE DEF from, to, block
      <3> QED  BY <1>4, <2>3, <3>1 DEF RangeRecord
    <2>6. ToSet(<<>>) = {}
      BY SmallSequences
    <2> HIDE DEF read, block, decision
    <2>7. /\ ChainInv' /\ Tip' = Tip /\ chain' = chain /\ forks' = forks /\ peak' = peak
      BY <1>2, <2>1, ChainStays
    <2>8. TypeInv'
      <3>1. TypeOK' /\ DbOK(db)'
        BY <2>1 DEF IndexerInv, TypeInv, TypeOK, DbOK, Places, Accepted, HasMarket
      <3> QED  BY <2>7, <3>1 DEF TypeInv
    <2>9. WindowInv'
      BY <2>1, <2>7 DEF IndexerInv, WindowInv
    <2>10. RangeRead'
      BY <1>4, <2>1, <2>3, <2>5, <2>6, <2>7, FS_EmptySet DEF RangeRead
    <2>11. RangeInv'
      BY <2>1, <2>2, <2>5, <2>10 DEF RangeInv, Ranging
    <2>12. Held' = ToSet(window) /\ Related' = ToSet(window) /\ Read' = ToSet(window) \cup {block}
      BY <2>1, <2>5 DEF Held, Related, Read
    <2>13. TrustInv'
      <3> SUFFICES ASSUME RowsTrusted'
                   PROVE  /\ Bounded(db)' /\ Follows(chain, db, Held)' /\ Consistent(chain, Related)'
                          /\ (Steady => AllOn(chain, Read))'
                          /\ Heads' /\ LogsRead' /\ Aware' /\ Staged'
        BY DEF TrustInv
      <3>1. RowsTrusted
        BY <2>1 DEF RowsTrusted
      <3>2. /\ Bounded(db) /\ Follows(chain, db, ToSet(window)) /\ Consistent(chain, ToSet(window)) /\ Aware
            /\ Heads
        BY <1>1, <3>1, TrustFacts, HeldFacts DEF Related
      <3>3. AllOn(chain, ToSet(window))
        BY <1>1, <2>4, <3>1, HeaderFollows DEF decision, block
      <3>4. head <= Tip /\ db.cursor <= head
        BY <1>1, <3>2, <3>3 DEF Heads
      <3>5. db.cursor <= to
        BY <1>2, <2>2, <2>3, <3>4
      <3>6. Heads'
        BY <2>1, <2>5, <2>7, <3>4, <3>5 DEF Heads
      <3>7. AllOn(chain', Read')
        BY <1>4, <2>7, <2>12, <3>3 DEF AllOn
      <3>8. LogsRead' /\ Staged'
        BY <2>1 DEF LogsRead, Staged
      <3>9. Aware'
        BY <1>1, <2>1, <3>2 DEF Aware, HasMarket
      <3>10. Bounded(db')
        BY <2>1, <3>2
      <3> QED  BY <2>1, <2>7, <2>12, <3>2, <3>6, <3>7, <3>8, <3>9, <3>10
    <2>14. SettledInv'
      <3>1. RowsTrusted' = RowsTrusted /\ pc' # "commit"
        BY <2>1 DEF RowsTrusted
      <3> QED  BY <2>1, <2>7, <3>1 DEF IndexerInv, SettledInv
    <2> QED  BY <2>8, <2>9, <2>11, <2>13, <2>14 DEF IndexerInv
  <1> QED  BY <1>6, <1>7

(* The range ends within the chain, and a market the loop does not know    *)
(* was not launched below it.                                              *)
LEMMA NothingOverlooked ==
    ASSUME IndexerInv, RowsTrusted, pc = "logs"
    PROVE  /\ range.to <= Tip
           /\ known \/ \A h \in 1 .. range.from - 1 : chain[h].what # "launch"
  <1>1. Ranging /\ Steady
    BY DEF Ranging, Steady
  <1>2. /\ range.from \in Nat \ {0} /\ range.to \in Nat
        /\ range.from = indexed + 1 /\ range.to <= head
    BY <1>1, RangeFacts DEF RangeRead
  <1>3. /\ indexed \in Nat /\ head \in Nat /\ Tip \in Nat /\ DbOK(db) /\ db.cursor \in Nat
    BY PlainFacts
  <1>4. /\ Follows(chain, db, ToSet(window)) /\ Aware /\ Heads /\ AllOn(chain, Read)
    BY <1>1, TrustFacts, HeldFacts
  <1>5. range.to <= Tip
    <2>1. head <= Tip
      BY <1>4 DEF Heads
    <2> QED  BY <1>2, <1>3, <2>1
  <1>6. ASSUME ~known, NEW h \in 1 .. range.from - 1, chain[h].what = "launch" PROVE FALSE
    <2>1. AllOn(chain, ToSet(window))
      BY <1>4 DEF AllOn, Read
    <2>2. Mirrors(chain, db, db.cursor)
      BY <1>4, <2>1 DEF Follows
    <2>3. h <= indexed /\ h \in 1 .. db.cursor
      <3>1. indexed <= db.cursor
        BY DEF IndexerInv, RangeInv
      <3> QED  BY <1>2, <1>3, <3>1
    <2>4. db.market.launchedAt = h
      BY <1>6, <2>2, <2>3 DEF Mirrors
    <2>5. HasMarket(db)
      <3>1. HasMarket(db) <=> db.market.launchedAt # 0
        BY <1>3, DbFields
      <3>2. h # 0
        OBVIOUS
      <3> QED  BY <2>4, <3>1, <3>2
    <2>6. db.market.launchedAt > indexed
      BY <1>4, <1>6, <2>5 DEF Aware
    <2> QED  BY <1>3, <2>3, <2>4, <2>6
  <1> QED  BY <1>5, <1>6

(* The logs of the range are read.                                         *)
LEMMA ReadLogsKeeps ==
    ASSUME IndexerInv, ReadLogs
    PROVE  IndexerInv'
  <1> DEFINE end == IF range.to <= Tip THEN range.to ELSE Tip
             logs == FetchLogs(range.from, end)
             read == [range EXCEPT !.logs = logs]
  <1>1. /\ pc = "logs" /\ range' = read /\ pc' = "headers"
        /\ UNCHANGED <<chainVars, db, window, indexed, known, head, crashes, failures, exposed>>
    BY DEF ReadLogs
  <1>2. Ranging /\ range.headers = {} /\ indexed < head
    <2>1. Ranging
      BY <1>1 DEF Ranging
    <2> QED  BY <1>1, <2>1 DEF IndexerInv, RangeInv
  <1>3. /\ RangeRead /\ range \in RangeRecord
        /\ range.from \in Nat \ {0} /\ range.to \in Nat /\ range.first \in Ref
        /\ range.from = indexed + 1 /\ range.to <= head
    BY <1>2, RangeFacts DEF RangeRead
  <1>4. /\ indexed \in Nat /\ head \in Nat /\ known \in BOOLEAN /\ Tip \in Nat /\ Tip = Len(chain)
        /\ ChainInv /\ DbOK(db) /\ db.cursor \in Nat
    BY PlainFacts
  <1>5. end \in Nat /\ end <= Tip /\ end <= range.to
    BY <1>3, <1>4
  <1>6. /\ logs \in Seq(Event) /\ \A e \in ToSet(logs) : e.block \in range.from .. end
        /\ (known \/ \A h \in 1 .. range.from - 1 : chain[h].what # "launch") =>
              Gathered(chain, logs, range.from, end) /\ Understood(logs, known)
    <2> HIDE DEF end
    <2> QED  BY <1>3, <1>4, <1>5, FetchLogsGathers
  <1> HIDE DEF logs
  <1>7. /\ read \in RangeRecord /\ read.from = range.from /\ read.to = range.to
        /\ read.first = range.first /\ read.logs = logs /\ read.headers = range.headers
    BY <1>3, <1>6 DEF RangeRecord
  <1> HIDE DEF read
  <1>8. /\ ChainInv' /\ Tip' = Tip /\ chain' = chain /\ forks' = forks /\ peak' = peak
    BY <1>1, <1>4, ChainStays
  <1>9. TypeInv'
    <2>1. TypeOK' /\ DbOK(db)'
      BY <1>1 DEF IndexerInv, TypeInv, TypeOK, DbOK, Places, Accepted, HasMarket
    <2> QED  BY <1>8, <2>1 DEF TypeInv
  <1>10. WindowInv'
    BY <1>1, <1>8 DEF IndexerInv, WindowInv
  <1>11. RangeRead'
    <2>1. \A e \in ToSet(logs) : e.block \in range.from .. range.to
      BY <1>3, <1>5, <1>6
    <2> QED  BY <1>1, <1>3, <1>7, <1>8, <2>1 DEF RangeRead
  <1>12. RangeInv'
    <2>1. indexed <= db.cursor /\ db.cursor <= indexed + BatchSize
      BY <1>1 DEF IndexerInv, RangeInv
    <2> QED  BY <1>1, <1>2, <1>7, <1>11, <2>1 DEF RangeInv, Ranging
  <1>13. Held' = ToSet(window) /\ Related' = ToSet(window) /\ Read' = Read
    BY <1>1, <1>7 DEF Held, Related, Read
  <1>14. TrustInv'
    <2> SUFFICES ASSUME RowsTrusted'
                 PROVE  /\ Bounded(db)' /\ Follows(chain, db, Held)' /\ Consistent(chain, Related)'
                        /\ (Steady => AllOn(chain, Read))'
                        /\ Heads' /\ LogsRead' /\ Aware' /\ Staged'
      BY DEF TrustInv
    <2>1. RowsTrusted
      BY <1>1 DEF RowsTrusted
    <2>2. /\ Bounded(db) /\ Follows(chain, db, ToSet(window)) /\ Consistent(chain, ToSet(window)) /\ Aware
          /\ Heads /\ AllOn(chain, Read)
      BY <1>1, <2>1, TrustFacts, HeldFacts DEF Related, Steady
    <2>3. /\ head <= Tip /\ db.cursor <= range.to
          /\ AllOn(chain, ToSet(window)) => db.cursor <= head
      BY <1>1, <2>2 DEF Heads
    <2>4. range.to <= Tip /\ (known \/ \A h \in 1 .. range.from - 1 : chain[h].what # "launch")
      BY <1>1, <2>1, NothingOverlooked
    <2>5. end = range.to
      BY <2>4
    <2>6. LogsRead'
      BY <1>1, <1>6, <1>7, <1>8, <2>4, <2>5 DEF LogsRead
    <2>7. Heads'
      BY <1>1, <1>7, <1>8, <2>3 DEF Heads
    <2>8. Staged'
      BY <1>1 DEF Staged
    <2>9. Aware'
      BY <1>1, <2>2 DEF Aware, HasMarket
    <2>10. Bounded(db')
      BY <1>1, <2>2
    <2> QED  BY <1>1, <1>8, <1>13, <2>2, <2>6, <2>7, <2>8, <2>9, <2>10
  <1>15. SettledInv'
    <2>1. RowsTrusted' = RowsTrusted /\ pc' # "commit"
      BY <1>1 DEF RowsTrusted
    <2> QED  BY <1>1, <1>8, <2>1 DEF IndexerInv, SettledInv
  <1> QED  BY <1>9, <1>10, <1>12, <1>14, <1>15 DEF IndexerInv

(* A header that is not read yet is that of a block of the range.          *)
LEMMA UnreadFacts ==
    ASSUME IndexerInv, Ranging, NEW n \in Unread
    PROVE  n \in range.from + 1 .. range.to /\ \A ref \in range.headers : ref.number # n
  <1>1. /\ range.from \in Nat \ {0} /\ range.to \in Nat /\ range.logs \in Seq(Event)
        /\ \A e \in ToSet(range.logs) : e.block \in range.from .. range.to
    BY RangeFacts DEF RangeRead
  <1>2. n \in BlocksWithLogs /\ \A ref \in range.headers : ref.number # n
    BY DEF Unread
  <1>3. PICK i \in DOMAIN range.logs : n = range.logs[i].block
    BY <1>2 DEF BlocksWithLogs
  <1>4. range.logs[i] \in ToSet(range.logs) /\ n # range.from
    BY <1>2 DEF ToSet, BlocksWithLogs
  <1> QED  BY <1>1, <1>2, <1>3, <1>4

(* The next of these headers is read: one for a height, and canonical.     *)
LEMMA ReadHeaderKeeps ==
    ASSUME IndexerInv, ReadHeader
    PROVE  IndexerInv'
  <1>1. PICK n \in Unread : /\ n <= Tip
                            /\ range' = [range EXCEPT !.headers = @ \cup {Header(n)}]
    BY DEF ReadHeader
  <1> DEFINE hs == range.headers \cup {Header(n)}
             read == [range EXCEPT !.headers = hs]
  <1>2. /\ pc = "headers" /\ range' = read
        /\ UNCHANGED <<chainVars, db, window, indexed, known, pc, head, crashes, failures, exposed>>
    BY <1>1 DEF ReadHeader
  <1>3. Ranging /\ Steady /\ indexed < head /\ indexed <= db.cursor /\ db.cursor <= indexed + BatchSize
    <2>1. Ranging /\ Steady
      BY <1>2 DEF Ranging, Steady
    <2> QED  BY <1>2, <2>1 DEF IndexerInv, RangeInv
  <1>4. /\ RangeRead /\ range \in RangeRecord /\ range.headers \in SUBSET Ref
        /\ range.from \in Nat \ {0} /\ range.to \in Nat
    BY <1>3, RangeFacts DEF RangeRead
  <1>5. /\ Tip \in Nat /\ Tip = Len(chain) /\ ChainInv
    BY PlainFacts
  <1>6. n \in range.from + 1 .. range.to /\ \A ref \in range.headers : ref.number # n
    BY <1>3, UnreadFacts
  <1>7. n \in 1 .. Tip
    BY <1>1, <1>4, <1>5, <1>6
  <1>8. /\ Header(n) \in Ref /\ Header(n).number = n
        /\ CanonicalOn(chain, Header(n)) /\ Stamped(chain, forks, Header(n))
    BY <1>5, <1>7, HeaderTypes
  <1>9. /\ hs \in SUBSET Ref /\ IsFiniteSet(hs)
        /\ \A ref \in hs : ref.number \in range.from + 1 .. range.to /\ Stamped(chain, forks, ref)
        /\ \A r, s \in hs : r.number = s.number => r = s
    <2>1. hs \in SUBSET Ref
      BY <1>4, <1>8
    <2>2. IsFiniteSet(hs)
      <3>1. IsFiniteSet(range.headers)
        BY <1>4 DEF RangeRead
      <3> QED  BY <3>1, FS_AddElement
    <2>3. \A ref \in hs : ref.number \in range.from + 1 .. range.to /\ Stamped(chain, forks, ref)
      BY <1>4, <1>6, <1>8 DEF RangeRead
    <2>4. \A r, s \in hs : r.number = s.number => r = s
      BY <1>4, <1>6, <1>8 DEF RangeRead
    <2> QED  BY <2>1, <2>2, <2>3, <2>4
  <1>10. \A ref \in hs : ref \in range.headers \/ CanonicalOn(chain, ref)
    BY <1>8
  <1>11. range.headers \subseteq hs
    OBVIOUS
  <1> HIDE DEF hs
  <1>12. /\ read \in RangeRecord /\ read.from = range.from /\ read.to = range.to
         /\ read.first = range.first /\ read.logs = range.logs /\ read.headers = hs /\ read.tx = range.tx
    BY <1>4, <1>9 DEF RangeRecord
  <1> HIDE DEF read
  <1>13. /\ ChainInv' /\ Tip' = Tip /\ chain' = chain /\ forks' = forks /\ peak' = peak
    BY <1>2, <1>5, ChainStays
  <1>14. TypeInv'
    <2>1. TypeOK' /\ DbOK(db)'
      BY <1>2 DEF IndexerInv, TypeInv, TypeOK, DbOK, Places, Accepted, HasMarket
    <2> QED  BY <1>13, <2>1 DEF TypeInv
  <1>15. WindowInv'
    BY <1>2, <1>13 DEF IndexerInv, WindowInv
  <1>16. RangeRead'
    BY <1>2, <1>4, <1>9, <1>12, <1>13 DEF RangeRead
  <1>17. RangeInv'
    BY <1>2, <1>3, <1>16 DEF RangeInv, Ranging
  <1>18. Held' = ToSet(window) /\ Related' = ToSet(window)
         /\ Read' = ToSet(window) \cup {range.first} \cup hs
    BY <1>2, <1>12 DEF Held, Related, Read
  <1>19. TrustInv'
    <2> SUFFICES ASSUME RowsTrusted'
                 PROVE  /\ Bounded(db)' /\ Follows(chain, db, Held)' /\ Consistent(chain, Related)'
                        /\ (Steady => AllOn(chain, Read))'
                        /\ Heads' /\ LogsRead' /\ Aware' /\ Staged'
      BY DEF TrustInv
    <2>1. RowsTrusted
      BY <1>2 DEF RowsTrusted
    <2>2. /\ Bounded(db) /\ Follows(chain, db, ToSet(window)) /\ Consistent(chain, ToSet(window)) /\ Aware
          /\ Heads /\ LogsRead /\ AllOn(chain, Read)
      BY <1>2, <1>3, <2>1, TrustFacts, HeldFacts DEF Related
    <2>3. AllOn(chain', Read')
      BY <1>10, <1>13, <1>18, <2>2 DEF AllOn, Read
    <2>4. LogsRead'
      BY <1>2, <1>12, <1>13, <2>2 DEF LogsRead
    <2>5. Heads'
      BY <1>2, <1>12, <1>13, <2>2 DEF Heads
    <2>6. Staged'
      BY <1>2 DEF Staged
    <2>7. Aware'
      BY <1>2, <2>2 DEF Aware, HasMarket
    <2>8. Bounded(db')
      BY <1>2, <2>2
    <2> QED  BY <1>2, <1>13, <1>18, <2>2, <2>3, <2>4, <2>5, <2>6, <2>7, <2>8
  <1>20. SettledInv'
    <2>1. RowsTrusted' = RowsTrusted /\ pc' # "commit"
      BY <1>2 DEF RowsTrusted
    <2> QED  BY <1>2, <1>13, <2>1 DEF IndexerInv, SettledInv
  <1> QED  BY <1>14, <1>15, <1>17, <1>19, <1>20 DEF IndexerInv

Filed(x, first, headers, logs, to) ==
    /\ DbOK(x) /\ x.cursor = to
    /\ BlocksOf(db, x, {first} \cup headers) /\ Settles(db, x, Settled(to))
    /\ Accepted(x) /\ Understood(logs, known) => Records(db, x, logs)

(* TransactionRecords, under the name Filed.                               *)
LEMMA TransactionFiles ==
    ASSUME DbOK(db), known \in BOOLEAN, NEW first \in Ref, NEW headers \in SUBSET Ref,
           IsFiniteSet(headers), NEW logs \in Seq(Event), NEW to \in Nat
    PROVE  Filed(Transaction(first, headers, logs, to), first, headers, logs, to)
  BY TransactionRecords DEF Filed

(* When all are read, the transaction is put together.                     *)
LEMMA RunTransactionKeeps ==
    ASSUME IndexerInv, RunTransaction
    PROVE  IndexerInv'
  <1> DEFINE hs == range.headers
             tx == Transaction(range.first, hs, range.logs, range.to)
             read == [range EXCEPT !.tx = tx]
             refs == {range.first} \cup hs
  <1>1. /\ pc = "headers" /\ range' = read /\ pc' = "commit"
        /\ UNCHANGED <<chainVars, db, window, indexed, known, head, crashes, failures, exposed>>
    BY DEF RunTransaction
  <1>2. Ranging /\ indexed < head /\ indexed <= db.cursor /\ db.cursor <= indexed + BatchSize
    <2>1. Ranging
      BY <1>1 DEF Ranging
    <2> QED  BY <1>1, <2>1 DEF IndexerInv, RangeInv
  <1>3. /\ RangeRead /\ range \in RangeRecord /\ range.logs \in Seq(Event)
        /\ range.from \in Nat \ {0} /\ range.to \in Nat /\ range.first \in Ref
        /\ range.from = indexed + 1 /\ range.from <= range.to /\ range.to <= head
        /\ range.first.number = range.from
        /\ \A e \in ToSet(range.logs) : e.block \in range.from .. range.to
    BY <1>2, RangeFacts DEF RangeRead
  <1>4. /\ indexed \in Nat /\ head \in Nat /\ known \in BOOLEAN /\ Tip \in Nat /\ Tip = Len(chain)
        /\ ChainInv /\ chain \in Seq(ChainBlock) /\ History(chain) /\ DbOK(db) /\ db.cursor \in Nat
        /\ Tip <= peak /\ peak \in Nat /\ Confirmations \in Nat /\ MaxReorgDepth \in Nat
    BY PlainFacts
  <1>5. /\ hs \in SUBSET Ref /\ IsFiniteSet(hs)
        /\ \A ref \in hs : ref.number \in range.from + 1 .. range.to /\ Stamped(chain, forks, ref)
        /\ \A r, s \in hs : r.number = s.number => r = s
    BY <1>2, RangeFacts DEF RangeRead
  <1>18. range.headers = hs
    OBVIOUS
  <1> HIDE DEF hs
  <1>6. /\ DbOK(tx) /\ tx.cursor = range.to /\ BlocksOf(db, tx, refs) /\ Settles(db, tx, Settled(range.to))
        /\ Accepted(tx) /\ Understood(range.logs, known) => Records(db, tx, range.logs)
    <2>1. Filed(tx, range.first, hs, range.logs, range.to)
      <3>1. range.first \in Ref /\ range.logs \in Seq(Event) /\ range.to \in Nat
        BY <1>3
      <3> QED  BY <1>4, <1>5, <3>1, TransactionFiles
    <2> HIDE DEF tx
    <2> QED  BY <2>1 DEF Filed
  <1> HIDE DEF tx
  <1>7. /\ read \in RangeRecord /\ read.from = range.from /\ read.to = range.to
        /\ read.first = range.first /\ read.logs = range.logs /\ read.headers = hs /\ read.tx = tx
    <2>1. tx \in Db
      BY <1>6 DEF DbOK
    <2> QED  BY <1>3, <1>18, <2>1 DEF RangeRecord
  <1> HIDE DEF read
  <1>8. /\ ChainInv' /\ Tip' = Tip /\ chain' = chain /\ forks' = forks /\ peak' = peak
    BY <1>1, <1>4, ChainStays
  <1>9. TypeInv'
    <2>1. TypeOK' /\ DbOK(db)'
      BY <1>1 DEF IndexerInv, TypeInv, TypeOK, DbOK, Places, Accepted, HasMarket
    <2> QED  BY <1>8, <2>1 DEF TypeInv
  <1>10. WindowInv'
    BY <1>1, <1>8 DEF IndexerInv, WindowInv
  <1>11. RangeRead'
    BY <1>1, <1>3, <1>5, <1>7, <1>8 DEF RangeRead
  <1>12. RangeInv'
    <2>1. range'.tx.cursor = range'.to /\ DbOK(range'.tx)
      BY <1>1, <1>6, <1>7
    <2> QED  BY <1>1, <1>2, <1>11, <2>1 DEF RangeInv, Ranging, DbOK
  <1>13. /\ Held' = ToSet(window) /\ Related' = ToSet(window) \cup refs /\ Read' = ToSet(window) \cup refs
    BY <1>1, <1>7 DEF Held, Related, Read
  <1>14. ASSUME RowsTrusted
         PROVE  /\ Bounded(db) /\ Follows(chain, db, ToSet(window)) /\ Aware
                /\ head <= Tip /\ db.cursor <= range.to /\ db.cursor <= head
                /\ AllOn(chain, ToSet(window) \cup refs) /\ AllOn(chain, ToSet(window)) /\ AllOn(chain, hs)
                /\ Mirrors(chain, db, db.cursor)
                /\ Gathered(chain, range.logs, range.from, range.to) /\ Understood(range.logs, known)
                /\ MaxReorgDepth <= Confirmations => Final(chain, peak, db)
    <2>1. /\ Bounded(db) /\ Follows(chain, db, ToSet(window)) /\ Aware /\ Heads /\ AllOn(chain, Read)
          /\ LogsRead /\ (MaxReorgDepth <= Confirmations => Final(chain, peak, db))
      BY <1>1, <1>14, TrustFacts, HeldFacts DEF Steady
    <2>2. AllOn(chain, ToSet(window)) /\ AllOn(chain, ToSet(window) \cup refs) /\ AllOn(chain, hs)
      BY <1>18, <2>1 DEF AllOn, Read
    <2>3. head <= Tip /\ db.cursor <= range.to /\ db.cursor <= head
      BY <1>1, <2>1, <2>2 DEF Heads
    <2>4. Mirrors(chain, db, db.cursor)
      BY <2>1, <2>2 DEF Follows
    <2> QED  BY <1>1, <2>1, <2>2, <2>3, <2>4 DEF LogsRead
  <1>15. ASSUME RowsTrusted, Accepted(tx)
         PROVE  /\ Mirrors(chain, tx, range.to) /\ Bounded(tx)
                /\ db.rows \subseteq tx.rows /\ \A r \in tx.rows \ db.rows : r.block > db.cursor
                /\ HasMarket(tx) /\ ~known => tx.market.launchedAt > indexed /\ LaunchedIn(range.logs)
    <2>1. \A r \in refs : CanonicalOn(chain, r) /\ r.number <= range.to
      <3>1. CanonicalOn(chain, range.first) /\ \A r \in hs : CanonicalOn(chain, r)
        BY <1>14, <1>15 DEF AllOn
      <3> QED  BY <1>3, <1>5, <3>1
    <2>2. Records(db, tx, range.logs)
      BY <1>6, <1>14, <1>15
    <2>3. range.from <= db.cursor + 1 /\ db.cursor <= range.to /\ range.to <= Len(chain)
      BY <1>2, <1>3, <1>4, <1>14, <1>15
    <2>4. /\ Mirrors(chain, tx, range.to) /\ Bounded(tx)
          /\ db.rows \subseteq tx.rows /\ \A r \in tx.rows \ db.rows : r.block > db.cursor
          /\ \A k : /\ HasMarket(tx) /\ ~k
                    /\ HasMarket(db) => db.market.launchedAt >= range.from
                    => tx.market.launchedAt >= range.from /\ LaunchedIn(range.logs)
      <3>1. Extends(chain, db, tx, range.logs, range.from, range.to)
        <4> DEFINE from == range.from
                   to == range.to
                   logs == range.logs
        <4>1. /\ from \in Nat \ {0} /\ to \in Nat /\ logs \in Seq(Event)
              /\ from <= db.cursor + 1 /\ db.cursor <= to /\ to <= Len(chain)
              /\ \A r \in refs : CanonicalOn(chain, r) /\ r.number <= to
              /\ \A e \in ToSet(logs) : e.block \in from .. to
          BY <1>3, <2>1, <2>3
        <4>2. /\ tx.cursor = to /\ DbOK(tx) /\ DbOK(db) /\ BlocksOf(db, tx, refs)
              /\ Records(db, tx, logs) /\ chain \in Seq(ChainBlock) /\ History(chain)
          BY <1>4, <1>6, <2>2
        <4>3. /\ Mirrors(chain, db, db.cursor) /\ Bounded(db)
              /\ Gathered(chain, logs, from, to)
          BY <1>14, <1>15
        <4> HIDE DEF from, to, logs, refs
        <4>4. Extends(chain, db, tx, logs, from, to)
          BY <4>1, <4>2, <4>3, RangeMirrors
        <4> QED  BY <4>4 DEF from, to, logs
      <3> QED  BY <3>1 DEF Extends
    <2>5. ASSUME HasMarket(tx), ~known PROVE tx.market.launchedAt > indexed /\ LaunchedIn(range.logs)
      <3>1. db.market.launchedAt \in Nat /\ tx.market.launchedAt \in Nat
        BY <1>4, <1>6, DbFields
      <3>2. HasMarket(db) => db.market.launchedAt > indexed
        BY <1>1, <1>14, <1>15, <2>5 DEF Aware
      <3>3. HasMarket(db) => db.market.launchedAt >= range.from
        BY <1>3, <1>4, <3>1, <3>2
      <3>4. tx.market.launchedAt >= range.from /\ LaunchedIn(range.logs)
        BY <2>4, <2>5, <3>3
      <3> QED  BY <1>3, <1>4, <3>1, <3>4
    <2> QED  BY <2>4, <2>5
  <1>16. TrustInv'
    <2> SUFFICES ASSUME RowsTrusted'
                 PROVE  /\ Bounded(db)' /\ Follows(chain, db, Held)' /\ Consistent(chain, Related)'
                        /\ (Steady => AllOn(chain, Read))'
                        /\ Heads' /\ LogsRead' /\ Aware' /\ Staged'
      BY DEF TrustInv
    <2>1. RowsTrusted
      BY <1>1 DEF RowsTrusted
    <2>2. Bounded(db') /\ Follows(chain', db', Held')
      BY <1>1, <1>8, <1>13, <1>14, <2>1
    <2>3. AllOn(chain', Read')
      BY <1>8, <1>13, <1>14, <2>1
    <2>4. Consistent(chain', Related')
      BY <1>8, <1>13, <1>14, <2>1 DEF Consistent, AllOn
    <2>5. Heads'
      BY <1>1, <1>7, <1>8, <1>14, <2>1 DEF Heads
    <2>6. LogsRead'
      BY <1>1 DEF LogsRead
    <2>7. Aware'
      <3>1. Aware
        BY <1>14, <2>1
      <3> QED  BY <1>1, <3>1 DEF Aware, HasMarket
    <2>8. Staged'
      <3> SUFFICES ASSUME Accepted(tx)
                   PROVE  /\ Bounded(tx) /\ Follows(chain, tx, ToSet(window) \cup refs)
                          /\ HasMarket(tx) /\ ~known => tx.market.launchedAt > indexed /\ LaunchedIn(range.logs)
                          /\ db.rows \subseteq tx.rows
                          /\ \A r \in tx.rows \ db.rows : r.block > db.cursor
        BY <1>1, <1>7, <1>8, <1>13 DEF Staged, Accepted, HasMarket
      <3>1. \A r \in ToSet(window) \cup refs : r.number \in Nat /\ r.number <= range.to
        <4>1. \A r \in ToSet(window) : r.number \in Nat /\ r.number <= indexed
          BY WindowFacts
        <4>2. \A r \in refs : r.number \in Nat /\ r.number <= range.to
          BY <1>3, <1>5
        <4> QED  BY <1>3, <1>4, <4>1, <4>2
      <3>2. Mirrors(chain, tx, range.to) /\ range.to <= Len(chain)
        BY <1>3, <1>4, <1>14, <1>15, <2>1
      <3>3. \A r \in ToSet(window) \cup refs : Mirrors(chain, tx, r.number)
        BY <1>3, <1>4, <1>6, <3>1, <3>2, MirrorsBelow
      <3>4. Follows(chain, tx, ToSet(window) \cup refs)
        BY <1>6, <3>2, <3>3 DEF Follows
      <3> QED  BY <1>15, <2>1, <3>4
    <2> QED  BY <2>2, <2>3, <2>4, <2>5, <2>6, <2>7, <2>8
  <1>17. SettledInv'
    <2> SUFFICES ASSUME RowsTrusted', MaxReorgDepth <= Confirmations
                 PROVE  Final(chain', peak', db') /\ Final(chain', peak', range'.tx)
      BY <1>1 DEF SettledInv
    <2>1. RowsTrusted
      BY <1>1 DEF RowsTrusted
    <2>2. Final(chain, peak, db)
      BY <1>14, <2>1
    <2>3. Final(chain, peak, tx)
      <3>1. \A b \in tx.blocks : CanonicalOn(chain, b)
        <4> SUFFICES ASSUME NEW b \in tx.blocks PROVE CanonicalOn(chain, b)
          OBVIOUS
        <4>1. PICK r \in db.blocks \cup refs : r.number = b.number /\ r.hash = b.hash
          BY <1>6 DEF BlocksOf
        <4>2. \A o \in db.blocks : CanonicalOn(chain, o)
          <5>1. Bounded(db) /\ Mirrors(chain, db, db.cursor)
            BY <1>14, <2>1
          <5> QED  BY <5>1 DEF Bounded, Mirrors
        <4>3. \A o \in refs : CanonicalOn(chain, o)
          BY <1>14, <2>1 DEF AllOn
        <4> QED  BY <4>1, <4>2, <4>3 DEF CanonicalOn
      <3>2. head <= Tip
        BY <1>14, <2>1
      <3>3. Settled(range.to) \in Int /\ Settled(range.to) <= peak - MaxReorgDepth
        <4>1. Settled(range.to) = range.to - Confirmations
          BY DEF Settled
        <4>2. range.to <= peak
          BY <1>3, <1>4, <3>2
        <4> QED  BY <1>3, <1>4, <4>1, <4>2
      <3>4. \A n \in Nat : n <= Settled(range.to) => n <= peak - MaxReorgDepth
        BY <1>4, <3>3
      <3>5. \A b \in tx.blocks : b.number \in Nat
        BY <1>6, DbFields
      <3>6. \A o \in db.blocks : o.finalized => o.number <= peak - MaxReorgDepth
        BY <2>2 DEF Final
      <3>7. \A b \in tx.blocks : b.finalized =>
               b.number <= Settled(range.to) \/ \E o \in db.blocks : o.number = b.number /\ o.finalized
        BY <1>6 DEF Settles
      <3> HIDE DEF refs
      <3>8. \A b \in tx.blocks : b.finalized => b.number <= peak - MaxReorgDepth
        BY <3>4, <3>5, <3>6, <3>7
      <3> QED  BY <3>1, <3>8 DEF Final
    <2> QED  BY <1>1, <1>7, <1>8, <2>2, <2>3
  <1> QED  BY <1>9, <1>10, <1>12, <1>16, <1>17 DEF IndexerInv

(* The transaction is committed.                                           *)
LEMMA CommitRangeKeeps ==
    ASSUME IndexerInv, CommitRange
    PROVE  IndexerInv'
  <1>1. /\ pc = "commit" /\ Accepted(range.tx) /\ db' = range.tx /\ pc' = "last"
        /\ UNCHANGED <<chainVars, window, indexed, known, head, range, crashes, failures, exposed>>
    BY DEF CommitRange
  <1>2. Ranging
    BY <1>1 DEF Ranging
  <1>3. /\ RangeRead /\ range.to \in Nat /\ range.to <= head /\ range.to <= indexed + BatchSize
        /\ indexed < range.to /\ indexed < head
        /\ range.tx.cursor = range.to /\ DbOK(range.tx)
    BY <1>1, <1>2, RangeFacts DEF RangeRead, IndexerInv, RangeInv
  <1>4. /\ indexed \in Nat /\ head \in Nat /\ head <= MaxHeight /\ MaxHeight \in Nat /\ ChainInv
    BY PlainFacts
  <1>5. /\ ChainInv' /\ Tip' = Tip /\ chain' = chain /\ forks' = forks /\ peak' = peak
    BY <1>1, <1>4, ChainStays
  <1>6. TypeInv'
    <2>1. db'.cursor \in 0 .. MaxHeight
      BY <1>1, <1>3, <1>4
    <2>2. Accepted(db') /\ DbOK(db')
      BY <1>1, <1>3
    <2>3. TypeOK'
      BY <1>1, <2>1, <2>2 DEF IndexerInv, TypeInv, TypeOK, Places, Accepted, HasMarket
    <2> QED  BY <1>5, <2>2, <2>3 DEF TypeInv, DbOK
  <1>7. WindowInv'
    BY <1>1, <1>5 DEF IndexerInv, WindowInv
  <1>8. RangeRead'
    BY <1>1, <1>3, <1>5 DEF RangeRead
  <1>9. RangeInv'
    BY <1>1, <1>3, <1>4, <1>8 DEF RangeInv, Ranging
  <1>10. /\ Held' = Read /\ Related' = Read /\ Read' = Read /\ Related = Read
         /\ LastMissing' = LastMissing
    BY <1>1 DEF Held, Related, Read, LastMissing
  <1>11. TrustInv'
    <2> SUFFICES ASSUME RowsTrusted'
                 PROVE  /\ Bounded(db)' /\ Follows(chain, db, Held)' /\ Consistent(chain, Related)'
                        /\ (Steady => AllOn(chain, Read))'
                        /\ Heads' /\ LogsRead' /\ Aware' /\ Staged'
      BY DEF TrustInv
    <2>1. RowsTrusted
      BY <1>1 DEF RowsTrusted
    <2>2. /\ Consistent(chain, Read) /\ (Steady => AllOn(chain, Read)) /\ Heads /\ Staged
      BY <1>10, <2>1, TrustFacts
    <2>3. /\ Bounded(range.tx) /\ Follows(chain, range.tx, Read)
          /\ HasMarket(range.tx) /\ ~known =>
               range.tx.market.launchedAt > indexed /\ LaunchedIn(range.logs)
      BY <1>1, <2>2 DEF Staged
    <2>4. Steady' => Steady
      BY <1>1, <1>10 DEF Steady
    <2>5. Bounded(db)' /\ Follows(chain, db, Held)' /\ Consistent(chain, Related)'
      BY <1>1, <1>5, <1>10, <2>2, <2>3
    <2>6. (Steady => AllOn(chain, Read))'
      BY <1>5, <1>10, <2>2, <2>4
    <2>7. Heads' /\ LogsRead' /\ Staged'
      BY <1>1, <1>5, <2>2 DEF Heads, LogsRead, Staged
    <2>8. Aware'
      BY <1>1, <2>3 DEF Aware, HasMarket
    <2> QED  BY <2>5, <2>6, <2>7, <2>8
  <1>12. SettledInv'
    <2> SUFFICES ASSUME RowsTrusted', MaxReorgDepth <= Confirmations PROVE Final(chain', peak', db')
      BY <1>1 DEF SettledInv
    <2>1. RowsTrusted
      BY <1>1 DEF RowsTrusted
    <2> QED  BY <1>1, <1>5, <2>1, TrustFacts
  <1> QED  BY <1>6, <1>7, <1>9, <1>11, <1>12 DEF IndexerInv

-----------------------------------------------------------------------------
(* The invariant is one                                                    *)

(* The invariant holds at first,                                           *)
LEMMA IndexerInit == Init => IndexerInv
  <1> SUFFICES ASSUME Init PROVE IndexerInv
    OBVIOUS
  <1>1. /\ chain = <<>> /\ forks = 0 /\ peak = 0 /\ db = EmptyDb /\ window = <<>> /\ indexed = 0
        /\ known = FALSE /\ pc = "down" /\ head = 0 /\ range = NoRange /\ exposed = {}
    BY DEF Init, ChainInit
  <1>2. /\ DbOK(db) /\ Accepted(db) /\ db.cursor = 0 /\ db.blocks = {} /\ db.rows = {}
        /\ db.market = NoMarket /\ ~HasMarket(db)
    BY <1>1, EmptyDbTypes
  <1>3. MaxHeight \in Nat /\ Depth \in Nat
    BY ChainAssumption, TrackerAssumption
  <1>4. /\ <<>> \in Seq(Ref) /\ <<>> \in Seq(ChainBlock) /\ ToSet(<<>>) = {} /\ Len(<<>>) = 0
    BY SmallSequences
  <1>5. Tip = 0 /\ Len(chain) = 0
    BY <1>1, <1>4 DEF Tip
  <1>6. ChainInv
    <2>1. History(chain) /\ \A h \in 1 .. Tip : chain[h].fork <= forks
      BY <1>5 DEF History
    <2>2. chain \in Seq(ChainBlock) /\ forks \in Nat /\ peak \in Nat
      BY <1>1, <1>4
    <2> QED  BY <1>1, <1>3, <1>5, <2>1, <2>2 DEF ChainInv
  <1>7. TypeOK
    <2>1. 0 \in 0 .. MaxHeight
      BY <1>3
    <2>2. Len(window) <= Depth
      BY <1>1, <1>3, <1>4
    <2> QED  BY <1>1, <1>2, <2>1, <2>2 DEF TypeOK, Places
  <1>8. WindowInv
    <2>1. Increasing(<<>>)
      BY <1>4 DEF Increasing
    <2> QED  BY <1>1, <1>4, <2>1 DEF WindowInv
  <1>9. RangeInv /\ ~Ranging /\ ~Steady
    BY <1>1 DEF RangeInv, Ranging, Steady
  <1>10. Held = {} /\ Related = {}
    BY <1>1, <1>4 DEF Held, Related
  <1>11. db.market.launchedAt = 0
    BY <1>2 DEF NoMarket, NoBlock
  <1>12. Bounded(db)
    BY <1>2, <1>11 DEF Bounded
  <1>13. Follows(chain, db, Held) /\ Consistent(chain, Related)
    <2>1. KeysOf(chain, 1, 0) = {} /\ 1 .. 0 = {}
      BY DEF KeysOf
    <2>2. Mirrors(chain, db, 0)
      BY <1>2, <1>11, <2>1 DEF Mirrors, Keys
    <2> QED  BY <1>2, <1>5, <1>10, <2>2 DEF Follows, Consistent
  <1>14. Heads /\ LogsRead /\ Aware /\ Staged
    BY <1>1 DEF Heads, LogsRead, Aware, Staged
  <1>15. SettledInv
    BY <1>1, <1>2 DEF SettledInv, Final
  <1> QED  BY <1>2, <1>6, <1>7, <1>8, <1>9, <1>12, <1>13, <1>14, <1>15 DEF IndexerInv, TypeInv, TrustInv

(* and when nothing happens,                                               *)
LEMMA NothingKeeps ==
    ASSUME IndexerInv, UNCHANGED vars
    PROVE  IndexerInv'
  <1>1. /\ chain' = chain /\ forks' = forks /\ peak' = peak /\ db' = db /\ window' = window
        /\ indexed' = indexed /\ known' = known /\ pc' = pc /\ head' = head /\ range' = range
        /\ exposed' = exposed
    BY DEF vars, chainVars, indexerVars
  <1>2. TypeInv' /\ WindowInv'
    BY <1>1 DEF IndexerInv, TypeInv, TypeOK, ChainInv, Tip, DbOK, Accepted, HasMarket, WindowInv
  <1>3. RangeInv'
    BY <1>1 DEF IndexerInv, RangeInv, Ranging, RangeRead, DbOK
  <1>4. TrustInv' /\ SettledInv'
    <2>1. /\ Held' = Held /\ Related' = Related /\ Read' = Read /\ Steady' = Steady /\ RowsTrusted' = RowsTrusted
          /\ Heads' = Heads /\ LogsRead' = LogsRead /\ Aware' = Aware /\ Staged' = Staged
      BY <1>1 DEF Held, Related, Read, Steady, LastMissing, RowsTrusted, Heads, LogsRead, Aware, Staged,
                  Tip, HasMarket, Accepted
    <2> QED  BY <1>1, <2>1 DEF IndexerInv, TrustInv, SettledInv, Bounded
  <1> QED  BY <1>2, <1>3, <1>4 DEF IndexerInv

(* and after every step.                                                   *)
LEMMA IndexerStep == IndexerInv /\ [Next]_vars => IndexerInv'
  <1> SUFFICES ASSUME IndexerInv, [Next]_vars PROVE IndexerInv'
    OBVIOUS
  <1>1. ASSUME NEW what \in Payloads, ChainGrows(what) PROVE IndexerInv'
    BY <1>1, GrowthKeeps
  <1>2. ASSUME NEW what \in Payloads, NEW k \in 0 .. MaxHeight, ChainReorganises(k, what)
        PROVE  IndexerInv'
    BY <1>2, ReorganisationKeeps
  <1>3. CASE Start
    BY <1>3, StartKeeps
  <1>4. CASE Tick
    BY <1>4, TickKeeps
  <1>5. CASE CheckTip
    BY <1>5, CheckTipKeeps
  <1>6. CASE ReadFirst
    BY <1>6, ReadFirstKeeps
  <1>7. CASE ReadLogs
    BY <1>7, ReadLogsKeeps
  <1>8. CASE ReadHeader
    BY <1>8, ReadHeaderKeeps
  <1>14. CASE RunTransaction
    BY <1>14, RunTransactionKeeps
  <1>9. CASE CommitRange
    BY <1>9, CommitRangeKeeps
  <1>10. CASE FinishRange
    BY <1>10, FinishRangeKeeps
  <1>11. CASE FailTick
    BY <1>11, FailTickKeeps
  <1>12. CASE Crash
    BY <1>12, CrashKeeps
  <1>13. CASE UNCHANGED vars
    BY <1>13, NothingKeeps
  <1> QED  BY <1>1, <1>2, <1>3, <1>4, <1>5, <1>6, <1>7, <1>8, <1>9, <1>10, <1>11, <1>12, <1>13, <1>14 DEF Next

(* So it holds always.                                                     *)
LEMMA IndexerIsInductive == Spec => []IndexerInv
  BY IndexerInit, IndexerStep, PTL DEF Spec

(* The loop keeps its own state within the heights of the chain, and every *)
(* database it commits satisfies the constraints of the schema.            *)
THEOREM IndexerTyped == Spec => []TypeOK
  <1>1. IndexerInv => TypeOK
    BY DEF IndexerInv, TypeInv
  <1> QED  BY <1>1, IndexerIsInductive, PTL

(* The rows of logs, by index and by member.                               *)
LEMMA LogKeys ==
    ASSUME NEW logs
    PROVE  UNION {TablesOf(logs[i]) : i \in DOMAIN logs} = KeysIn(logs)
  BY DEF KeysIn, ToSet

(* With a canonical head, every header of the window is canonical.         *)
LEMMA HeadVouches ==
    ASSUME IndexerInv, HeadTrusted, RowsTrusted
    PROVE  AllOn(chain, ToSet(window))
  <1>1. /\ window = <<>> \/ Canonical(Last(window))
        /\ Related \in SUBSET Ref /\ ToSet(window) \subseteq Related /\ Consistent(chain, Related)
    BY HeldFacts, TrustFacts DEF HeadTrusted, Related, Read
  <1>2. CASE window = <<>>
    BY <1>2, WindowFacts DEF AllOn
  <1>3. CASE window # <<>>
    <2>1. CanonicalOn(chain, Last(window))
      BY <1>1, <1>3, CanonicalIs
    <2>2. Last(window) \in Related
          /\ \A r \in ToSet(window) : r \in Related /\ r.number <= Last(window).number
      BY <1>1, <1>3, WindowFacts
    <2> QED  BY <1>1, <2>1, <2>2 DEF Consistent, AllOn
  <1> QED  BY <1>2, <1>3

(* The invariant says what the rows are.                                   *)
LEMMA RowsAreTheChains ==
    ASSUME IndexerInv
    PROVE  RowsMirrorChain
  <1> SUFFICES ASSUME HeadTrusted, RowsTrusted
               PROVE  {<<r.table, r.block, r.log>> : r \in db.rows}
                        = UNION {TablesOf(LogsRecorded[i]) : i \in DOMAIN LogsRecorded}
    BY DEF RowsMirrorChain
  <1>1. AllOn(chain, ToSet(window)) /\ pc # "last"
    BY HeadVouches DEF HeadTrusted
  <1>2. Bounded(db) /\ Follows(chain, db, ToSet(window))
    BY <1>1, TrustFacts, HeldFacts
  <1>3. db.cursor \in Nat /\ db.cursor <= Tip /\ Mirrors(chain, db, db.cursor) /\ ChainInv
    BY <1>1, <1>2, PlainFacts DEF Follows
  <1>4. Keys(db.rows) = KeysOf(chain, 1, db.cursor)
    <2>1. {r \in db.rows : r.block <= db.cursor} = db.rows
      BY <1>2 DEF Bounded
    <2> QED  BY <1>3, <2>1 DEF Mirrors
  <1>5. KeysIn(LogsRecorded) = KeysOf(chain, 1, db.cursor)
    <2>1. PICK one \in Nat \ {0} : one = 1
      OBVIOUS
    <2>2. KeysIn(LogsBetween(one, db.cursor)) = KeysOf(chain, one, db.cursor)
      BY <1>3, LogsBetweenAnnounce
    <2> QED  BY <2>1, <2>2 DEF LogsRecorded
  <1> QED  BY <1>4, <1>5, LogKeys DEF Keys, Key

(* After any history of crashes, failed calls and reorganisations the      *)
(* indexer can notice, the event tables hold exactly the events of the     *)
(* canonical blocks up to the cursor whenever the last header in memory is *)
(* canonical (ingest.ts:21).                                               *)
THEOREM DatabaseMirrorsChain == Spec => []RowsMirrorChain
  <1>1. IndexerInv => RowsMirrorChain
    BY RowsAreTheChains
  <1> QED  BY <1>1, IndexerIsInductive, PTL

(* A block marked settled stays canonical as long as reorganisations keep  *)
(* to the confirmations the indexer waits for.                             *)
THEOREM SettledStaysCanonical == Spec => []SettledIsCanonical
  <1>1. IndexerInv => SettledIsCanonical
    BY CanonicalIs DEF IndexerInv, SettledInv, Final, SettledIsCanonical
  <1> QED  BY <1>1, IndexerIsInductive, PTL

-----------------------------------------------------------------------------
(* What a step does to the rows                                            *)

AppendedOrCut ==
    \/ db'.cursor >= db.cursor /\ db.rows \subseteq db'.rows
         /\ \A r \in db'.rows \ db.rows : r.block \in (db.cursor + 1) .. db'.cursor
    \/ db'.rows = {r \in db.rows : r.block <= db'.cursor}

(* No row changes hands.                                                   *)
LEMMA NothingAppended ==
    ASSUME IndexerInv, db' = db
    PROVE  AppendedOrCut
  <1>1. db.cursor \in Nat
    BY PlainFacts
  <1> QED  BY <1>1 DEF AppendedOrCut

(* Going back to a height cuts.                                            *)
LEMMA ReorgCuts ==
    ASSUME IndexerInv, RowsTrusted, NEW n \in Nat, HandleReorg(n)
    PROVE  AppendedOrCut
  <1>1. db' = Rewound(db, n)
    BY DEF HandleReorg, Rewound
  <1>2. DbOK(db) /\ Accepted(db) /\ Bounded(db)
    BY PlainFacts, TrustFacts
  <1>3. Rewound(db, n).rows = {r \in db.rows : r.block <= n}
    BY <1>2, RewoundMirrors
  <1>4. Rewound(db, n).cursor = n
    BY <1>2, RewoundTypes DEF CutAt
  <1> QED  BY <1>1, <1>3, <1>4 DEF AppendedOrCut

(* So does starting over,                                                  *)
LEMMA ReindexCuts ==
    ASSUME IndexerInv, RowsTrusted, FullReindex
    PROVE  AppendedOrCut
  <1>1. db' = Rewound(db, 0)
    BY DEF FullReindex, Rewound
  <1>2. DbOK(db) /\ Accepted(db) /\ Bounded(db)
    BY PlainFacts, TrustFacts
  <1>3. PICK n : n = 0
    OBVIOUS
  <1>4. n \in Nat
    BY <1>3
  <1>5. Rewound(db, n).rows = {r \in db.rows : r.block <= n} /\ Rewound(db, n).cursor = n
    <2>1. Rewound(db, n).rows = {r \in db.rows : r.block <= n}
      BY <1>2, <1>4, RewoundMirrors
    <2>2. Rewound(db, n).cursor = n
      BY <1>2, <1>4, RewoundTypes DEF CutAt
    <2> QED  BY <2>1, <2>2
  <1> QED  BY <1>1, <1>3, <1>5 DEF AppendedOrCut

(* and whatever the tracker decides.                                       *)
LEMMA RewindCuts ==
    ASSUME IndexerInv, RowsTrusted, NEW block, block.number \in Nat,
           Rewinds(Inspect(window, block)), Rewind(Inspect(window, block))
    PROVE  AppendedOrCut
  <1> DEFINE decision == Inspect(window, block)
  <1>1. CASE decision.action = "reorg"
    <2> DEFINE n == decision.rollbackTo
    <2>1. HandleReorg(n)
      BY <1>1 DEF Rewind
    <2>2. HasHeight(window, n)
      BY <1>1, WindowFacts, InspectIs
    <2>3. PICK r \in ToSet(window) : r.number = n
      BY <2>2 DEF HasHeight
    <2>4. n \in Nat
      BY <2>3, WindowFacts
    <2> HIDE DEF n
    <2> QED  BY <2>1, <2>4, ReorgCuts
  <1>2. CASE decision.action # "reorg"
    BY <1>2, ReindexCuts DEF Rewind
  <1> QED  BY <1>1, <1>2

(* A look at the head cuts, or does nothing.                               *)
LEMMA CheckTipCuts ==
    ASSUME IndexerInv, RowsTrusted, CheckTip
    PROVE  AppendedOrCut
  <1> DEFINE block == Header(head)
             decision == Inspect(window, block)
  <1>1. IF Rewinds(decision) THEN Rewind(decision)
        ELSE IF head < indexed THEN HandleReorg(head)
        ELSE UNCHANGED <<db, window, indexed, known, exposed>>
    BY DEF CheckTip
  <1>2. head \in Nat /\ block.number = head
    BY PlainFacts DEF Header
  <1>3. CASE Rewinds(decision)
    BY <1>1, <1>2, <1>3, RewindCuts
  <1>4. CASE ~Rewinds(decision) /\ head < indexed
    BY <1>1, <1>2, <1>4, ReorgCuts
  <1>5. CASE ~Rewinds(decision) /\ ~(head < indexed)
    BY <1>1, <1>5, NothingAppended
  <1> QED  BY <1>3, <1>4, <1>5

(* The first header of a range may make it cut.                            *)
LEMMA ReadFirstCuts ==
    ASSUME IndexerInv, RowsTrusted, ReadFirst
    PROVE  AppendedOrCut
  <1> DEFINE block == Header(indexed + 1)
             decision == Inspect(window, block)
  <1>1. /\ Rewinds(decision) => Rewind(decision)
        /\ ~Rewinds(decision) => db' = db
    BY DEF ReadFirst
  <1>2. block.number \in Nat
    BY PlainFacts DEF Header
  <1>3. CASE Rewinds(decision)
    BY <1>1, <1>2, <1>3, RewindCuts
  <1>4. CASE ~Rewinds(decision)
    BY <1>1, <1>4, NothingAppended
  <1> QED  BY <1>3, <1>4

(* A commit appends above the cursor.                                      *)
LEMMA CommitRangeAppends ==
    ASSUME IndexerInv, RowsTrusted, CommitRange
    PROVE  AppendedOrCut
  <1>1. pc = "commit" /\ Accepted(range.tx) /\ db' = range.tx
    BY DEF CommitRange
  <1>2. range.tx.cursor = range.to /\ DbOK(range.tx)
    BY <1>1 DEF IndexerInv, RangeInv
  <1>3. /\ Bounded(range.tx) /\ db.rows \subseteq range.tx.rows
        /\ \A r \in range.tx.rows \ db.rows : r.block > db.cursor
        /\ db.cursor <= range.to
    BY <1>1, TrustFacts DEF Staged, Heads
  <1>4. /\ db.cursor \in Nat /\ range.tx.cursor \in Nat
        /\ \A r \in range.tx.rows : r.block \in Nat /\ r.block <= range.tx.cursor
    BY <1>2, <1>3, PlainFacts, DbFields DEF Bounded
  <1>5. \A r \in range.tx.rows \ db.rows : r.block \in (db.cursor + 1) .. range.tx.cursor
    BY <1>3, <1>4
  <1> QED  BY <1>1, <1>2, <1>3, <1>4, <1>5 DEF AppendedOrCut

(* A transaction of the indexer appends rows above the cursor or cuts off  *)
(* everything above the new one: history in the middle is never rewritten. *)
THEOREM IndexerAppendsOrCuts == Spec => AppendsOrCuts
  <1>1. ASSUME IndexerInv, [Next]_vars, RowsTrusted PROVE AppendedOrCut
    <2>1. CASE CheckTip
      BY <1>1, <2>1, CheckTipCuts
    <2>2. CASE ReadFirst
      BY <1>1, <2>2, ReadFirstCuts
    <2>3. CASE CommitRange
      BY <1>1, <2>3, CommitRangeAppends
    <2>4. CASE ~CheckTip /\ ~ReadFirst /\ ~CommitRange
      <3>1. db' = db
        BY <1>1, <2>4 DEF Next, ChainGrows, ChainReorganises, Start, Tick, ReadLogs, ReadHeader, RunTransaction,
                          FinishRange, FailTick, Crash, vars, indexerVars
      <3> QED  BY <1>1, <3>1, NothingAppended
    <2> QED  BY <2>1, <2>2, <2>3, <2>4
  <1>2. IndexerInv /\ [Next]_vars => [RowsTrusted => AppendedOrCut]_vars
    BY <1>1
  <1>3. AppendsOrCuts <=> [][RowsTrusted => AppendedOrCut]_vars
    BY PTL DEF AppendsOrCuts, AppendedOrCut
  <1> QED  BY <1>2, <1>3, IndexerIsInductive, PTL DEF Spec

-----------------------------------------------------------------------------
(* The marks of the commitment                                             *)

(* The marks committed, those that what was read tells, and those about to *)
(* be committed are the chain's.                                           *)
MarksShown == ShowsBy(chain, db, Held) /\ Fits(db)
MarksRead ==
    pc = "headers" =>
        Told(chain, range.logs, range.from, range.to) /\ Aired(range.logs, known)
MarksStaged ==
    pc = "commit" /\ Accepted(range.tx) => ShowsBy(chain, range.tx, Read) /\ Fits(range.tx)

MarksInv == Submissions(chain) /\ (RowsTrusted => MarksShown /\ MarksRead /\ MarksStaged)

(* All of it as long as no fork has submitted the root a second time.      *)
MarksHold == resubmitted \/ MarksInv

(* Any move the indexer can cope with keeps the marks.                     *)
LEMMA MoveShows ==
    ASSUME IndexerInv, MarksInv, NEW k, Moved(chain, forks, k, chain', forks'),
           UNCHANGED <<db, window, indexed, known, pc, head, range, crashes, failures>>,
           RowsTrusted' => RowsTrusted /\ Noticeable(k), Submissions(chain)'
    PROVE  MarksInv'
  <1>1. /\ chain \in Seq(ChainBlock) /\ forks \in Nat /\ Len(chain) = Tip /\ Tip \in Nat
        /\ DbOK(db) /\ db.cursor \in Nat
    BY PlainFacts
  <1>2. k \in Nat /\ k <= Tip
    BY <1>1 DEF Moved
  <1> SUFFICES ASSUME RowsTrusted' PROVE MarksShown' /\ MarksRead' /\ MarksStaged'
    BY DEF MarksInv
  <1>3. RowsTrusted /\ Noticeable(k)
    OBVIOUS
  <1>4. MarksShown /\ MarksRead /\ MarksStaged
    BY <1>3 DEF MarksInv
  <1>5. Held' = Held /\ Read' = Read
    BY DEF Held, Read
  <1>6. Steady => range.to <= k
    BY <1>2, <1>3, MoveSpares
  <1>7. MarksShown'
    <2>1. Held \in SUBSET Ref /\ \A r \in Held : Stamped(chain, forks, r) /\ r.number \in Nat
      BY HeldFacts DEF Ref
    <2>2. k = Len(chain) \/ db.cursor <= k \/ \E r \in Held : r.number > k
      BY <1>1, <1>2, <1>3, <2>1 DEF Noticeable, Blind
    <2>3. Follows(chain, db, Held)
      BY <1>3, TrustFacts
    <2>4. ShowsBy(chain', db, Held)
      BY <1>1, <1>4, <2>1, <2>2, <2>3, ShowsByMoved DEF MarksShown
    <2> QED  BY <1>4, <1>5, <2>4 DEF MarksShown, Fits, Marks
  <1>8. MarksRead'
    <2> SUFFICES ASSUME pc = "headers"
                 PROVE  Told(chain', range.logs, range.from, range.to) /\ Aired(range.logs, known)
      BY DEF MarksRead
    <2>1. Ranging /\ Steady
      BY DEF Ranging, Steady
    <2>2. range.to <= k
      BY <1>6, <2>1
    <2>3. range.from \in Nat \ {0} /\ range.to \in Nat
      BY <2>1, RangeFacts
    <2>4. Told(chain, range.logs, range.from, range.to) /\ Aired(range.logs, known)
      BY <1>4 DEF MarksRead
    <2> QED  BY <1>1, <2>2, <2>3, <2>4, ToldMoved
  <1>9. MarksStaged'
    <2> SUFFICES ASSUME pc = "commit", Accepted(range.tx)
                 PROVE  ShowsBy(chain', range.tx, Read) /\ Fits(range.tx)
      BY <1>5 DEF MarksStaged, Accepted, HasMarket
    <2>1. Ranging /\ DbOK(range.tx) /\ range.tx.cursor = range.to
      BY DEF Ranging, IndexerInv, RangeInv
    <2>2. /\ Read \in SUBSET Ref /\ range.to \in Nat
          /\ \A r \in Read : Stamped(chain, forks, r)
          /\ ~LastMissing => \E r \in Read : r.number = range.to
      BY <2>1, RangeFacts
    <2>3. k = Len(chain) \/ range.tx.cursor <= k \/ \E r \in Read : r.number > k
      <3>1. CASE LastMissing
        <4>1. Steady
          BY <3>1 DEF Steady
        <4> QED  BY <1>6, <2>1, <4>1
      <3>2. CASE ~LastMissing
        BY <1>2, <2>1, <2>2, <3>2
      <3> QED  BY <3>1, <3>2
    <2>4. Follows(chain, range.tx, Read)
      BY <1>3, TrustFacts DEF Staged
    <2>5. ShowsBy(chain, range.tx, Read) /\ Fits(range.tx)
      BY <1>4 DEF MarksStaged
    <2> QED  BY <1>1, <2>1, <2>2, <2>3, <2>4, <2>5, ShowsByMoved
  <1> QED  BY <1>7, <1>8, <1>9

(* A block is mined.                                                       *)
LEMMA GrowthShows ==
    ASSUME IndexerInv, MarksInv, NEW what \in Payloads, ChainGrows(what), ~resubmitted'
    PROVE  MarksInv'
  <1>1. ChainInv
    BY PlainFacts
  <1>2. /\ Mine(what) /\ exposed' = exposed
        /\ UNCHANGED <<db, window, indexed, known, pc, head, range, crashes, failures>>
    BY DEF ChainGrows, indexerVars
  <1>3. Moved(chain, forks, Tip, chain', forks')
    BY <1>1, <1>2, ChainMines
  <1>4. RowsTrusted' => RowsTrusted /\ Noticeable(Tip)
    BY <1>2 DEF RowsTrusted, Noticeable
  <1>5. Submissions(chain)'
    BY <1>1, <1>2, SubmissionsMined DEF MarksInv
  <1> QED  BY <1>2, <1>3, <1>4, <1>5, MoveShows

(* A reorganisation.                                                       *)
LEMMA ReorganisationShows ==
    ASSUME IndexerInv, MarksInv, NEW what \in Payloads, NEW k \in 0 .. MaxHeight,
           ChainReorganises(k, what), ~resubmitted'
    PROVE  MarksInv'
  <1>1. ChainInv
    BY PlainFacts
  <1>2. /\ Reorganise(k, what)
        /\ exposed' = exposed \cup {e \in {"blind"} : Blind(k)} \cup {e \in {"race"} : Race(k)}
        /\ UNCHANGED <<db, window, indexed, known, pc, head, range, crashes, failures>>
    BY DEF ChainReorganises
  <1>3. Moved(chain, forks, k, chain', forks')
    BY <1>1, <1>2, ChainReplaced
  <1>4. RowsTrusted' => RowsTrusted /\ Noticeable(k)
    <2>1. Blind(k) => "blind" \in exposed'
      BY <1>2
    <2>2. Race(k) => "race" \in exposed'
      BY <1>2
    <2>3. exposed \subseteq exposed'
      BY <1>2
    <2> QED  BY <2>1, <2>2, <2>3 DEF RowsTrusted, Noticeable
  <1>5. Submissions(chain)'
    BY <1>1, <1>2, SubmissionsReplaced DEF MarksInv
  <1> QED  BY <1>2, <1>3, <1>4, <1>5, MoveShows

(* The tick ends outside a range: what is left to see to of the marks.     *)
LEMMA MarksOutsideRanges ==
    ASSUME MarksInv, UNCHANGED chainVars, pc' \in {"down", "idle", "tip", "range"},
           RowsTrusted' => ShowsBy(chain, db', ToSet(window')) /\ Fits(db')
    PROVE  MarksInv'
  <1>1. chain' = chain
    BY DEF chainVars
  <1>2. Held' = ToSet(window')
    BY DEF Held
  <1>3. Submissions(chain)'
    BY <1>1 DEF MarksInv
  <1>4. RowsTrusted' => MarksShown'
    <2>1. ASSUME RowsTrusted' PROVE ShowsBy(chain', db', Held') /\ Fits(db')
      BY <1>1, <1>2, <2>1
    <2> QED  BY <2>1 DEF MarksShown, Fits, Marks
  <1>5. MarksRead' /\ MarksStaged'
    BY DEF MarksRead, MarksStaged
  <1> QED  BY <1>3, <1>4, <1>5 DEF MarksInv

(* What is shown by the headers held, with none but those of the window.   *)
LEMMA ShownFacts ==
    ASSUME IndexerInv, MarksInv, RowsTrusted
    PROVE  /\ ShowsBy(chain, db, Held) /\ Fits(db)
           /\ pc # "last" => ShowsBy(chain, db, ToSet(window))
  <1>1. ShowsBy(chain, db, Held) /\ Fits(db)
    BY DEF MarksInv, MarksShown
  <1>2. pc # "last" => Held = ToSet(window)
    BY HeldFacts
  <1> QED  BY <1>1, <1>2

(* Going back to a height leaves the marks of the blocks below it.         *)
LEMMA ReorgShows ==
    ASSUME IndexerInv, MarksInv, pc \in {"tip", "range"}, NEW n \in Nat, n <= indexed,
           HasHeight(window, n) \/ (window = <<>> /\ n <= Tip),
           HandleReorg(n), pc' = "idle", UNCHANGED <<chainVars, head, range>>
    PROVE  MarksInv'
  <1>1. /\ db' = Rewound(db, n) /\ window' = DropAbove(window, n) /\ exposed' = exposed \ {"replay"}
    BY DEF HandleReorg, Rewound
  <1>2. Accepted(db) /\ DbOK(db) /\ db.cursor \in Nat /\ indexed \in Nat
    BY PlainFacts
  <1>3. Rewound(db, n).cursor = n
    <2>1. CutAt(db, Rewound(db, n), n)
      BY <1>2, RewoundTypes
    <2> QED  BY <2>1 DEF CutAt
  <1>4. ToSet(window') = {r \in ToSet(window) : r.number <= n}
    BY <1>1, DropAboveIs, WindowFacts
  <1>5. ToSet(window) \in SUBSET Ref /\ \A r \in ToSet(window) : r.number \in Nat
    BY WindowFacts
  <1>6. n <= db.cursor
    <2>1. indexed <= db.cursor
      BY DEF IndexerInv, RangeInv
    <2> QED  BY <1>2, <2>1
  <1>7. ASSUME RowsTrusted' PROVE ShowsBy(chain, db', ToSet(window')) /\ Fits(db')
    <2>1. RowsTrusted
      BY <1>1, <1>7 DEF RowsTrusted
    <2>2. ShowsBy(chain, db, ToSet(window)) /\ Fits(db)
      BY <2>1, ShownFacts
    <2>3. \A m \in Nat : m <= n /\ Shows(chain, db, m) => Shows(chain, db', m)
      BY <1>1, <1>2, <2>2, RewoundShows
    <2>4. ASSUME AllOn(chain, ToSet(window')) PROVE Shows(chain, db, n)
      <3>1. CASE HasHeight(window, n)
        <4>1. PICK r \in ToSet(window) : r.number = n
          BY <3>1 DEF HasHeight
        <4>2. CanonicalOn(chain, r)
          BY <1>4, <2>4, <4>1 DEF AllOn
        <4> QED  BY <2>2, <4>1, <4>2 DEF ShowsBy
      <3>2. CASE window = <<>>
        <4>1. AllOn(chain, ToSet(window))
          BY <3>2, WindowFacts DEF AllOn
        <4>2. Shows(chain, db, db.cursor)
          BY <2>2, <4>1 DEF ShowsBy
        <4> QED  BY <1>2, <1>6, <4>2, ShowsBelow
      <3> QED  BY <3>1, <3>2
    <2>5. ASSUME NEW r \in ToSet(window'), CanonicalOn(chain, r) PROVE Shows(chain, db', r.number)
      <3>1. r \in ToSet(window) /\ r.number <= n /\ r.number \in Nat
        BY <1>4, <1>5
      <3>2. Shows(chain, db, r.number)
        BY <2>2, <2>5, <3>1 DEF ShowsBy
      <3> QED  BY <2>3, <3>1, <3>2
    <2>6. AllOn(chain, ToSet(window')) => Shows(chain, db', db'.cursor)
      BY <1>1, <1>3, <2>3, <2>4
    <2>7. Fits(db')
      BY <1>1, <1>2, <2>2, RewoundMarks
    <2> QED  BY <2>5, <2>6, <2>7 DEF ShowsBy
  <1> QED  BY <1>7, MarksOutsideRanges

(* Starting over leaves no mark.                                           *)
LEMMA ReindexShows ==
    ASSUME IndexerInv, MarksInv, pc \in {"tip", "range"}, FullReindex, pc' = "idle",
           UNCHANGED <<chainVars, head, range>>
    PROVE  MarksInv'
  <1>1. db' = Rewound(db, 0) /\ window' = <<>>
    BY DEF FullReindex, Rewound
  <1>2. Accepted(db) /\ DbOK(db)
    BY PlainFacts
  <1>3. Marks(db') = {}
    BY <1>1, <1>2, EmptiedMarks
  <1>4. db'.cursor = 0
    <2>1. PICK n : n = 0
      OBVIOUS
    <2>2. n \in Nat
      BY <2>1
    <2>3. CutAt(db, Rewound(db, n), n)
      BY <1>2, <2>2, RewoundTypes
    <2> QED  BY <1>1, <2>1, <2>3 DEF CutAt
  <1>5. ToSet(window') = {}
    BY <1>1, SmallSequences
  <1>6. Fits(db') /\ Shows(chain, db', 0)
    BY <1>3, NothingShown
  <1>7. ShowsBy(chain, db', ToSet(window'))
    BY <1>4, <1>5, <1>6 DEF ShowsBy
  <1> QED  BY <1>6, <1>7, MarksOutsideRanges

(* Whatever the tracker decides leaves the chain's marks.                  *)
LEMMA RewindShows ==
    ASSUME IndexerInv, MarksInv, pc \in {"tip", "range"}, NEW block, block.number \in Nat,
           Rewinds(Inspect(window, block)), Rewind(Inspect(window, block)),
           pc' = "idle", UNCHANGED <<chainVars, head, range>>
    PROVE  MarksInv'
  <1> DEFINE decision == Inspect(window, block)
  <1>1. CASE decision.action = "reorg"
    <2> DEFINE n == decision.rollbackTo
    <2>1. HandleReorg(n)
      BY <1>1 DEF Rewind
    <2>2. HasHeight(window, n)
      BY <1>1, WindowFacts, InspectIs
    <2>3. PICK r \in ToSet(window) : r.number = n
      BY <2>2 DEF HasHeight
    <2>4. n \in Nat /\ n <= indexed
      BY <2>3, WindowFacts
    <2> HIDE DEF n
    <2> QED  BY <2>1, <2>2, <2>4, ReorgShows
  <1>2. CASE decision.action # "reorg"
    BY <1>2, ReindexShows DEF Rewind
  <1> QED  BY <1>1, <1>2

(* The tick that finds nothing to index looks at the head.                 *)
LEMMA CheckTipShows ==
    ASSUME IndexerInv, MarksInv, CheckTip
    PROVE  MarksInv'
  <1> DEFINE block == Header(head)
             decision == Inspect(window, block)
  <1>1. /\ pc = "tip" /\ head <= Tip /\ pc' = "idle" /\ UNCHANGED <<chainVars, head, range>>
        /\ IF Rewinds(decision) THEN Rewind(decision)
           ELSE IF head < indexed THEN HandleReorg(head)
           ELSE UNCHANGED <<db, window, indexed, known, exposed>>
    BY DEF CheckTip
  <1>2. head \in Nat /\ indexed \in Nat /\ block.number = head /\ head <= indexed
    <2>1. head <= indexed
      BY <1>1 DEF IndexerInv, RangeInv
    <2> QED  BY <2>1, PlainFacts DEF Header
  <1>3. CASE Rewinds(decision)
    BY <1>1, <1>2, <1>3, RewindShows
  <1>4. CASE ~Rewinds(decision) /\ head < indexed
    <2>1. HandleReorg(head)
      BY <1>1, <1>4
    <2>2. window = <<>> \/ HasHeight(window, head)
      BY <1>1, <1>2, <1>4, HeadOrNothing
    <2> QED  BY <1>1, <1>2, <1>4, <2>1, <2>2, ReorgShows
  <1>5. CASE ~Rewinds(decision) /\ ~(head < indexed)
    <2>1. UNCHANGED <<db, window, exposed>>
      BY <1>1, <1>5
    <2>2. RowsTrusted' => ShowsBy(chain, db', ToSet(window')) /\ Fits(db')
      BY <1>1, <2>1, ShownFacts DEF RowsTrusted
    <2> QED  BY <1>1, <2>2, MarksOutsideRanges
  <1> QED  BY <1>3, <1>4, <1>5

(* The process starts.                                                     *)
LEMMA StartShows ==
    ASSUME IndexerInv, MarksInv, Start
    PROVE  MarksInv'
  <1>1. pc = "down" /\ window' = <<>> /\ pc' = "idle" /\ UNCHANGED <<chainVars, db, exposed>>
    BY DEF Start
  <1>2. window = <<>>
    BY <1>1 DEF IndexerInv, WindowInv
  <1>3. RowsTrusted' => ShowsBy(chain, db', ToSet(window')) /\ Fits(db')
    BY <1>1, <1>2, ShownFacts DEF RowsTrusted
  <1> QED  BY <1>1, <1>3, MarksOutsideRanges

(* A tick reads the head.                                                  *)
LEMMA TickShows ==
    ASSUME IndexerInv, MarksInv, Tick
    PROVE  MarksInv'
  <1>1. /\ pc = "idle" /\ pc' = (IF Tip <= indexed THEN "tip" ELSE "range")
        /\ UNCHANGED <<chainVars, db, window, exposed>>
    BY DEF Tick
  <1>2. RowsTrusted' => ShowsBy(chain, db', ToSet(window')) /\ Fits(db')
    BY <1>1, ShownFacts DEF RowsTrusted
  <1>3. pc' \in {"tip", "range"}
    BY <1>1
  <1> QED  BY <1>1, <1>2, <1>3, MarksOutsideRanges

(* A tick is abandoned.                                                    *)
LEMMA FailTickShows ==
    ASSUME IndexerInv, MarksInv, FailTick
    PROVE  MarksInv'
  <1>1. /\ Reads(pc) /\ pc' = "idle"
        /\ exposed' = (IF pc = "last" THEN exposed \cup {"replay"} ELSE exposed)
        /\ UNCHANGED <<chainVars, db, window>>
    BY DEF FailTick
  <1>2. ASSUME RowsTrusted' PROVE ShowsBy(chain, db, ToSet(window)) /\ Fits(db)
    <2>1. RowsTrusted
      BY <1>1, <1>2 DEF RowsTrusted
    <2>2. ShowsBy(chain, db, Held) /\ Fits(db) /\ (pc # "last" => ShowsBy(chain, db, ToSet(window)))
      BY <2>1, ShownFacts
    <2>3. ASSUME pc = "last" PROVE ShowsBy(chain, db, ToSet(window))
      <3>1. Steady /\ Held = Read /\ ToSet(window) \subseteq Held
        BY <1>1, <2>3, HeldFacts DEF Reads, Steady
      <3>2. AllOn(chain, Held)
        BY <2>1, <3>1, TrustFacts
      <3> QED  BY <2>2, <3>1, <3>2 DEF ShowsBy
    <2> QED  BY <2>2, <2>3
  <1> QED  BY <1>1, <1>2, MarksOutsideRanges

(* The process dies.                                                       *)
LEMMA CrashShows ==
    ASSUME IndexerInv, MarksInv, Crash
    PROVE  MarksInv'
  <1>1. /\ pc' = "down" /\ window' = <<>>
        /\ exposed' = exposed \cup {e \in {"blind"} : \E ref \in Held : ~Canonical(ref)}
        /\ UNCHANGED <<chainVars, db>>
    BY DEF Crash
  <1>2. ToSet(window') = {}
    BY <1>1, SmallSequences
  <1>3. ASSUME RowsTrusted' PROVE ShowsBy(chain, db, {}) /\ Fits(db)
    <2>1. RowsTrusted /\ "blind" \notin exposed'
      BY <1>1, <1>3 DEF RowsTrusted
    <2>2. AllOn(chain, Held)
      BY <1>1, <2>1, CanonicalIs DEF AllOn
    <2>3. ShowsBy(chain, db, Held) /\ Fits(db)
      BY <2>1, ShownFacts
    <2> QED  BY <2>2, <2>3 DEF ShowsBy
  <1> QED  BY <1>1, <1>2, <1>3, MarksOutsideRanges

(* Memory follows the commit.                                              *)
LEMMA FinishRangeShows ==
    ASSUME IndexerInv, MarksInv, FinishRange
    PROVE  MarksInv'
  <1>1. /\ pc = "last" /\ pc' = (IF range.to < head THEN "range" ELSE "idle")
        /\ UNCHANGED <<chainVars, db, exposed>>
    BY DEF FinishRange
  <1>2. PICK last \in Ref :
             /\ last.number = range.to
             /\ LastMissing => last = Header(range.to) /\ range.to \in 1 .. Tip
             /\ ~LastMissing => last \in Read
             /\ window' \in Seq(Ref) /\ Increasing(window') /\ Len(window') <= Depth
             /\ window' # <<>> /\ Last(window') = last /\ ToSet(window') \subseteq Read \cup {last}
    BY FinishedWindow
  <1>3. Held = Read /\ db.cursor = range.to /\ (LastMissing => Steady)
    BY <1>1, HeldFacts DEF IndexerInv, RangeInv, Steady
  <1>4. ASSUME RowsTrusted' PROVE ShowsBy(chain, db, ToSet(window')) /\ Fits(db)
    <2>1. RowsTrusted
      BY <1>1, <1>4 DEF RowsTrusted
    <2>2. ShowsBy(chain, db, Read) /\ Fits(db)
      BY <1>3, <2>1, ShownFacts
    <2>3. CASE LastMissing
      <3>1. AllOn(chain, Read)
        BY <1>3, <2>1, <2>3, TrustFacts
      <3>2. Shows(chain, db, db.cursor)
        BY <2>2, <3>1 DEF ShowsBy
      <3>3. \A r \in Read : Shows(chain, db, r.number)
        BY <2>2, <3>1 DEF ShowsBy, AllOn
      <3> QED  BY <1>2, <1>3, <2>2, <3>2, <3>3 DEF ShowsBy
    <2>4. CASE ~LastMissing
      <3>1. last \in ToSet(window') /\ last \in Read /\ ToSet(window') \subseteq Read
        BY <1>2, <2>4, WindowEnds
      <3>2. AllOn(chain, ToSet(window')) => Shows(chain, db, db.cursor)
        BY <1>2, <1>3, <2>2, <3>1 DEF ShowsBy, AllOn
      <3> QED  BY <2>2, <3>1, <3>2 DEF ShowsBy
    <2> QED  BY <2>3, <2>4
  <1>5. pc' \in {"range", "idle"}
    BY <1>1
  <1> QED  BY <1>1, <1>4, <1>5, MarksOutsideRanges

(* The first header of a range is read.                                    *)
LEMMA ReadFirstShows ==
    ASSUME IndexerInv, MarksInv, ReadFirst
    PROVE  MarksInv'
  <1> DEFINE block == Header(indexed + 1)
             decision == Inspect(window, block)
  <1>1. /\ pc = "range"
        /\ Rewinds(decision) => Rewind(decision) /\ pc' = "idle" /\ UNCHANGED range
        /\ ~Rewinds(decision) => pc' = "logs" /\ UNCHANGED <<db, window, exposed>>
        /\ UNCHANGED <<chainVars, head>>
    BY DEF ReadFirst
  <1>2. block.number \in Nat
    BY PlainFacts DEF Header
  <1>3. CASE Rewinds(decision)
    BY <1>1, <1>2, <1>3, RewindShows
  <1>4. CASE ~Rewinds(decision)
    <2>1. pc' = "logs" /\ db' = db /\ window' = window /\ exposed' = exposed /\ chain' = chain
      BY <1>1, <1>4 DEF chainVars
    <2>2. Held' = ToSet(window)
      BY <2>1 DEF Held
    <2>3. RowsTrusted' => MarksShown'
      <3>1. ASSUME RowsTrusted' PROVE ShowsBy(chain', db', Held') /\ Fits(db')
        BY <1>1, <2>1, <2>2, <3>1, ShownFacts DEF RowsTrusted
      <3> QED  BY <3>1 DEF MarksShown, Fits, Marks
    <2>4. MarksRead' /\ MarksStaged' /\ Submissions(chain)'
      BY <2>1 DEF MarksRead, MarksStaged, MarksInv
    <2> QED  BY <2>3, <2>4 DEF MarksInv
  <1> QED  BY <1>3, <1>4

(* The logs of the range are read.                                         *)
LEMMA ReadLogsShows ==
    ASSUME IndexerInv, MarksInv, ReadLogs
    PROVE  MarksInv'
  <1> DEFINE end == IF range.to <= Tip THEN range.to ELSE Tip
             logs == FetchLogs(range.from, end)
             read == [range EXCEPT !.logs = logs]
  <1>1. /\ pc = "logs" /\ range' = read /\ pc' = "headers"
        /\ UNCHANGED <<db, window, known, exposed>> /\ chain' = chain
    BY DEF ReadLogs, chainVars
  <1>2. Ranging
    BY <1>1 DEF Ranging
  <1>3. range \in RangeRecord /\ range.from \in Nat \ {0} /\ range.to \in Nat
    BY <1>2, RangeFacts DEF RangeRead
  <1>4. ChainInv /\ known \in BOOLEAN
    BY PlainFacts
  <1>5. read.from = range.from /\ read.to = range.to /\ read.logs = logs
    BY <1>3 DEF RangeRecord
  <1> HIDE DEF read
  <1>6. Held' = ToSet(window)
    BY <1>1 DEF Held
  <1>7. RowsTrusted' => MarksShown'
    <2>1. ASSUME RowsTrusted' PROVE ShowsBy(chain', db', Held') /\ Fits(db')
      BY <1>1, <1>6, <2>1, ShownFacts DEF RowsTrusted
    <2> QED  BY <2>1 DEF MarksShown, Fits, Marks
  <1>8. RowsTrusted' => MarksRead'
    <2> SUFFICES ASSUME RowsTrusted' PROVE MarksRead'
      OBVIOUS
    <2>1. RowsTrusted
      BY <1>1 DEF RowsTrusted
    <2>2. range.to <= Tip /\ (known \/ \A h \in 1 .. range.from - 1 : chain[h].what # "launch")
      BY <1>1, <2>1, NothingOverlooked
    <2>3. end = range.to
      BY <2>2
    <2> HIDE DEF end
    <2>4. Told(chain, logs, range.from, range.to) /\ Aired(logs, known)
      BY <1>3, <1>4, <2>2, <2>3, FetchLogsTell
    <2> HIDE DEF logs
    <2> QED  BY <1>1, <1>5, <2>4 DEF MarksRead
  <1>9. MarksStaged' /\ Submissions(chain)'
    BY <1>1 DEF MarksStaged, MarksInv
  <1> QED  BY <1>7, <1>8, <1>9 DEF MarksInv

RangeBound == Ranging => \A r \in Read : r.number \in Nat /\ r.number <= range.to

(* RangeFacts, under the name RangeBound.                                  *)
LEMMA ReadIsBound == IndexerInv => RangeBound
  BY RangeFacts DEF RangeBound

(* A header is read; the marks held and told are the same.                 *)
LEMMA ReadHeaderShows ==
    ASSUME IndexerInv, MarksInv, ReadHeader
    PROVE  MarksInv'
  <1>1. PICK n : range' = [range EXCEPT !.headers = @ \cup {Header(n)}]
    BY DEF ReadHeader
  <1>2. /\ pc = "headers" /\ pc' = pc
        /\ UNCHANGED <<db, window, known, exposed>> /\ chain' = chain
    BY DEF ReadHeader, chainVars
  <1>3. range \in RangeRecord
    <2>1. Ranging
      BY <1>2 DEF Ranging
    <2> QED  BY <2>1, RangeFacts DEF RangeRead
  <1>4. range'.from = range.from /\ range'.to = range.to /\ range'.logs = range.logs
    BY <1>1, <1>3 DEF RangeRecord
  <1>5. Held' = ToSet(window) /\ RowsTrusted' = RowsTrusted
    BY <1>2 DEF Held, RowsTrusted
  <1>6. RowsTrusted' => MarksShown'
    <2>1. ASSUME RowsTrusted' PROVE ShowsBy(chain', db', Held') /\ Fits(db')
      BY <1>2, <1>5, <2>1, ShownFacts
    <2> QED  BY <2>1 DEF MarksShown, Fits, Marks
  <1>7. RowsTrusted' => MarksRead'
    <2>1. ASSUME RowsTrusted
          PROVE  Told(chain, range.logs, range.from, range.to) /\ Aired(range.logs, known)
      BY <1>2, <2>1 DEF MarksInv, MarksRead
    <2> QED  BY <1>2, <1>4, <1>5, <2>1 DEF MarksRead
  <1>8. MarksStaged' /\ Submissions(chain)'
    BY <1>2 DEF MarksStaged, MarksInv
  <1> QED  BY <1>6, <1>7, <1>8 DEF MarksInv

(* All headers are read, and the transaction is put together.              *)
LEMMA RunTransactionShows ==
    ASSUME IndexerInv, MarksInv, RunTransaction
    PROVE  MarksInv'
  <1> DEFINE hs == range.headers
             logs == range.logs
             to == range.to
             tx == Transaction(range.first, hs, logs, to)
             read == [range EXCEPT !.tx = tx]
             refs == ToSet(window) \cup {range.first} \cup hs
  <1>1. /\ pc = "headers" /\ range' = read /\ pc' = "commit"
        /\ UNCHANGED <<db, window, known, exposed>> /\ chain' = chain
    BY DEF RunTransaction, chainVars
  <1>2. Ranging /\ Steady
    BY <1>1 DEF Ranging, Steady
  <1>3. /\ range \in RangeRecord /\ logs \in Seq(Event) /\ range.from \in Nat \ {0}
        /\ to \in Nat /\ range.first \in Ref /\ range.from = indexed + 1 /\ to <= head
    BY <1>2, RangeFacts DEF RangeRead
  <1>4. /\ indexed \in Nat /\ head \in Nat /\ known \in BOOLEAN /\ Tip \in Nat /\ Tip = Len(chain)
        /\ chain \in Seq(ChainBlock) /\ History(chain) /\ DbOK(db) /\ db.cursor \in Nat
    BY PlainFacts
  <1>5. hs \in SUBSET Ref /\ IsFiniteSet(hs) /\ range.headers = hs
    BY <1>2, RangeFacts DEF RangeRead
  <1> HIDE DEF hs
  <1> HIDE DEF tx
  <1>6. read.headers = hs /\ read.tx = tx /\ read.first = range.first /\ read.to = to
    BY <1>3, <1>5 DEF RangeRecord
  <1> HIDE DEF read
  <1>7. Held' = ToSet(window) /\ Read' = refs
    BY <1>1, <1>6 DEF Held, Read
  <1>8. IndexerInv'
    BY RunTransactionKeeps
  <1>9. /\ tx.cursor = to /\ \A r \in refs : r.number \in Nat /\ r.number <= to
    <2>1. RangeBound'
      BY <1>8, ReadIsBound, PTL
    <2>2. range'.tx.cursor = range'.to
      BY <1>1, <1>8 DEF IndexerInv, RangeInv
    <2> QED  BY <1>1, <1>6, <1>7, <2>1, <2>2 DEF RangeBound, Ranging
  <1>10. ASSUME RowsTrusted, Accepted(tx) PROVE ShowsBy(chain, tx, refs) /\ Fits(tx)
    <2>1. /\ Follows(chain, db, ToSet(window)) /\ Heads /\ AllOn(chain, Read)
          /\ ShowsBy(chain, db, ToSet(window)) /\ Fits(db)
      BY <1>1, <1>2, <1>10, TrustFacts, HeldFacts, ShownFacts
    <2>2. AllOn(chain, ToSet(window)) /\ AllOn(chain, refs)
      BY <1>5, <2>1 DEF AllOn, Read
    <2>3. db.cursor <= to /\ head <= Tip /\ Shows(chain, db, db.cursor)
      BY <1>1, <2>1, <2>2 DEF Heads, ShowsBy
    <2>4. range.from <= db.cursor + 1 /\ to <= Len(chain)
      <3>1. indexed <= db.cursor
        BY <1>1 DEF IndexerInv, RangeInv
      <3> QED  BY <1>3, <1>4, <2>3, <3>1
    <2>5. Told(chain, logs, range.from, to) /\ Aired(logs, known)
      BY <1>1, <1>10 DEF MarksInv, MarksRead
    <2>6. Submissions(chain)
      BY DEF MarksInv
    <2> HIDE DEF logs, to, refs
    <2>7. /\ Tame(MarksOn(chain, 1, to))
          /\ MarksOn(chain, 1, to) = Marks(db) \cup MarksOf(ToSet(logs))
      <3> DEFINE from == range.from
      <3>1. from \in Nat \ {0} /\ to \in Nat /\ chain \in Seq(ChainBlock) /\ DbOK(db)
        BY <1>3, <1>4
      <3>2. from <= db.cursor + 1 /\ db.cursor <= to /\ to <= Len(chain)
        BY <2>3, <2>4
      <3>3. Submissions(chain) /\ Fits(db) /\ Shows(chain, db, db.cursor) /\ Told(chain, logs, from, to)
        BY <2>1, <2>3, <2>5, <2>6
      <3> HIDE DEF from
      <3> QED  BY <3>1, <3>2, <3>3, RangeMarks
    <2>8. Marks(tx) = MarksOn(chain, 1, to)
      <3> DEFINE marks == MarksOn(chain, 1, to)
      <3>1. Tame(marks) /\ marks = Marks(db) \cup MarksOf(ToSet(logs)) /\ InOrder(logs)
        BY <2>5, <2>7 DEF Told
      <3> HIDE DEF marks
      <3>2. Accepted(Transaction(range.first, hs, logs, to)) =>
               Marks(Transaction(range.first, hs, logs, to)) = marks
        BY <1>3, <1>4, <1>5, <2>5, <3>1, TransactionMarks
      <3> QED  BY <1>10, <3>2 DEF marks, tx
    <2>9. Mirrors(chain, tx, to)
      <3>1. RowsTrusted'
        BY <1>1, <1>10 DEF RowsTrusted
      <3>2. Accepted(range.tx)'
        BY <1>1, <1>6, <1>10 DEF Accepted, HasMarket
      <3>3. Follows(chain, range.tx, Read)'
        BY <1>1, <1>8, <3>1, <3>2 DEF IndexerInv, TrustInv, Staged
      <3>4. Follows(chain, tx, refs)
        BY <1>1, <1>6, <1>7, <3>3
      <3> QED  BY <1>9, <2>2, <3>4 DEF Follows
    <2>10. Fits(tx) /\ \A n \in Nat : n <= to => Shows(chain, tx, n)
      BY <1>3, <1>4, <1>9, <2>4, <2>7, <2>8, <2>9, ShownFits
    <2>11. Shows(chain, tx, tx.cursor) /\ \A r \in refs : Shows(chain, tx, r.number)
      BY <1>3, <1>9, <2>10
    <2> QED  BY <2>10, <2>11 DEF ShowsBy
  <1>11. RowsTrusted' => MarksShown'
    <2>1. ASSUME RowsTrusted' PROVE ShowsBy(chain', db', Held') /\ Fits(db')
      BY <1>1, <1>7, <2>1, ShownFacts DEF RowsTrusted
    <2> QED  BY <2>1 DEF MarksShown, Fits, Marks
  <1>12. RowsTrusted' => MarksStaged'
    <2> SUFFICES ASSUME RowsTrusted' PROVE MarksStaged'
      OBVIOUS
    <2>1. RowsTrusted
      BY <1>1 DEF RowsTrusted
    <2>2. Accepted(tx) => ShowsBy(chain, tx, refs) /\ Fits(tx)
      BY <1>10, <2>1
    <2> HIDE DEF refs
    <2>3. range'.tx = tx
      BY <1>1, <1>6
    <2>4. Accepted(range'.tx) => ShowsBy(chain', range'.tx, Read') /\ Fits(range'.tx)
      BY <1>1, <1>7, <2>2, <2>3
    <2> QED  BY <2>4 DEF MarksStaged, Accepted, HasMarket, Fits, Marks
  <1>13. MarksRead' /\ Submissions(chain)'
    BY <1>1 DEF MarksRead, MarksInv
  <1> QED  BY <1>11, <1>12, <1>13 DEF MarksInv

(* The transaction is committed.                                           *)
LEMMA CommitRangeShows ==
    ASSUME IndexerInv, MarksInv, CommitRange
    PROVE  MarksInv'
  <1>1. /\ pc = "commit" /\ Accepted(range.tx) /\ db' = range.tx /\ pc' = "last"
        /\ UNCHANGED <<window, range, exposed>> /\ chain' = chain
    BY DEF CommitRange, chainVars
  <1>2. Held' = Read
    BY <1>1 DEF Held, Read
  <1>3. RowsTrusted' => MarksShown'
    <2>1. ASSUME RowsTrusted' PROVE ShowsBy(chain', db', Held') /\ Fits(db')
      <3>1. RowsTrusted
        BY <1>1, <2>1 DEF RowsTrusted
      <3>2. ShowsBy(chain, range.tx, Read) /\ Fits(range.tx)
        BY <1>1, <3>1 DEF MarksInv, MarksStaged
      <3> QED  BY <1>1, <1>2, <3>2
    <2> QED  BY <2>1 DEF MarksShown, Fits, Marks
  <1>4. MarksRead' /\ MarksStaged' /\ Submissions(chain)'
    BY <1>1 DEF MarksRead, MarksStaged, MarksInv
  <1> QED  BY <1>3, <1>4 DEF MarksInv

(* The marks are the chain's at first,                                     *)
LEMMA MarksInit == Init => MarksHold
  <1> SUFFICES ASSUME Init PROVE MarksHold
    OBVIOUS
  <1>1. chain = <<>> /\ db = EmptyDb /\ window = <<>> /\ pc = "down"
    BY DEF Init, ChainInit
  <1>2. ToSet(<<>>) = {} /\ Len(<<>>) = 0
    BY SmallSequences
  <1>3. Submissions(chain)
    <2>1. 1 .. Len(chain) = {}
      BY <1>1, <1>2
    <2> QED  BY <2>1 DEF Submissions
  <1>4. Held = {}
    BY <1>1, <1>2 DEF Held
  <1>5. Marks(db) = {} /\ db.cursor = 0
    <2>1. db.commitment = [submitted |-> 0, activated |-> 0, cancelled |-> 0] /\ db.cursor = 0
      BY <1>1 DEF EmptyDb, NoBlock
    <2> QED  BY <2>1 DEF Marks, MarkAt, MarkKinds
  <1>6. Fits(db) /\ Shows(chain, db, 0)
    BY <1>5, NothingShown
  <1>7. ShowsBy(chain, db, Held)
    BY <1>4, <1>5, <1>6 DEF ShowsBy
  <1>8. MarksRead /\ MarksStaged
    BY <1>1 DEF MarksRead, MarksStaged
  <1> QED  BY <1>3, <1>6, <1>7, <1>8 DEF MarksInv, MarksHold, MarksShown

(* when nothing happens,                                                   *)
LEMMA NothingShows ==
    ASSUME MarksInv, UNCHANGED vars
    PROVE  MarksInv'
  <1>1. /\ chain' = chain /\ db' = db /\ window' = window /\ known' = known /\ pc' = pc
        /\ range' = range /\ exposed' = exposed
    BY DEF vars, chainVars, indexerVars
  <1>2. Held' = Held /\ Read' = Read /\ RowsTrusted' = RowsTrusted
    BY <1>1 DEF Held, Read, RowsTrusted
  <1> QED  BY <1>1, <1>2 DEF MarksInv, MarksShown, MarksRead, MarksStaged, Accepted, HasMarket, Fits, Marks

(* and after every step.                                                   *)
LEMMA MarksStep == IndexerInv /\ MarksHold /\ [Next]_vars => MarksHold'
  <1> SUFFICES ASSUME IndexerInv, MarksHold, [Next]_vars, ~resubmitted' PROVE MarksInv'
    BY DEF MarksHold
  <1>0. MarksInv
    <2>1. ~resubmitted
      <3>2. ASSUME NEW what \in Payloads, ChainGrows(what) PROVE resubmitted => resubmitted'
        BY <3>2 DEF ChainGrows, Mine
      <3>3. ASSUME NEW what \in Payloads, NEW k \in 0 .. MaxHeight, ChainReorganises(k, what)
            PROVE  resubmitted => resubmitted'
        BY <3>3 DEF ChainReorganises, Reorganise
      <3>4. CASE UNCHANGED chainVars
        BY <3>4 DEF chainVars
      <3>5. \/ \E what \in Payloads : ChainGrows(what)
            \/ \E what \in Payloads, k \in 0 .. MaxHeight : ChainReorganises(k, what)
            \/ UNCHANGED chainVars
        BY DEF Next, Start, Tick, CheckTip, ReadFirst, ReadLogs, ReadHeader, RunTransaction,
               CommitRange, FinishRange, FailTick, Crash, vars
      <3> QED  BY <3>2, <3>3, <3>4, <3>5
    <2> QED  BY <2>1 DEF MarksHold
  <1>1. ASSUME NEW what \in Payloads, ChainGrows(what) PROVE MarksInv'
    BY <1>0, <1>1, GrowthShows
  <1>2. ASSUME NEW what \in Payloads, NEW k \in 0 .. MaxHeight, ChainReorganises(k, what)
        PROVE  MarksInv'
    BY <1>0, <1>2, ReorganisationShows
  <1>3. CASE Start
    BY <1>0, <1>3, StartShows
  <1>4. CASE Tick
    BY <1>0, <1>4, TickShows
  <1>5. CASE CheckTip
    BY <1>0, <1>5, CheckTipShows
  <1>6. CASE ReadFirst
    BY <1>0, <1>6, ReadFirstShows
  <1>7. CASE ReadLogs
    BY <1>0, <1>7, ReadLogsShows
  <1>8. CASE ReadHeader
    BY <1>0, <1>8, ReadHeaderShows
  <1>14. CASE RunTransaction
    BY <1>0, <1>14, RunTransactionShows
  <1>9. CASE CommitRange
    BY <1>0, <1>9, CommitRangeShows
  <1>10. CASE FinishRange
    BY <1>0, <1>10, FinishRangeShows
  <1>11. CASE FailTick
    BY <1>0, <1>11, FailTickShows
  <1>12. CASE Crash
    BY <1>0, <1>12, CrashShows
  <1>13. CASE UNCHANGED vars
    BY <1>0, <1>13, NothingShows
  <1> QED  BY <1>1, <1>2, <1>3, <1>4, <1>5, <1>6, <1>7, <1>8, <1>9, <1>10, <1>11, <1>12, <1>13, <1>14 DEF Next

(* A commitment has a mark exactly when a log made it.                     *)
LEMMA MarkedByLogs ==
    ASSUME NEW d, DbOK(d), NEW logs \in Seq(Event), Marks(d) = MarksOf(ToSet(logs)),
           \A e \in ToSet(logs) : e.block \in Nat, NEW kind \in MarkKinds
    PROVE  (MarkAt(d, kind) # NoBlock) = (\E i \in DOMAIN logs : logs[i].kind = kind)
  <1>1. MarkAt(d, kind) \in Nat
    BY CommitmentFields DEF MarkAt, MarkKinds
  <1>2. ASSUME MarkAt(d, kind) # NoBlock PROVE \E i \in DOMAIN logs : logs[i].kind = kind
    <2>1. <<kind, MarkAt(d, kind)>> \in Marks(d)
      BY <1>1, <1>2 DEF Marks, NoBlock
    <2>2. PICK e \in ToSet(logs) : e.kind = kind
      BY <2>1 DEF MarksOf
    <2> QED  BY <2>2 DEF ToSet
  <1>3. ASSUME NEW i \in DOMAIN logs, logs[i].kind = kind PROVE MarkAt(d, kind) # NoBlock
    <2>1. logs[i] \in ToSet(logs)
      BY DEF ToSet
    <2>2. <<kind, logs[i].block>> \in Marks(d)
      BY <1>3, <2>1 DEF MarksOf
    <2>3. MarkAt(d, kind) \in Nat \ {0}
      BY <2>2 DEF Marks
    <2> QED  BY <2>3 DEF NoBlock
  <1> QED  BY <1>2, <1>3

(* The invariant says what the marks are.                                  *)
LEMMA MarksAreTheChains ==
    ASSUME IndexerInv, MarksHold
    PROVE  CommitmentMirrorsChain
  <1> SUFFICES ASSUME HeadTrusted, RowsTrusted, ~resubmitted PROVE CommitmentMirrorsChain
    BY DEF CommitmentMirrorsChain
  <1>0. MarksInv
    BY DEF MarksHold
  <1> DEFINE logs == LogsRecorded
  <1>1. AllOn(chain, ToSet(window)) /\ pc # "last"
    BY HeadVouches DEF HeadTrusted
  <1>2. /\ ShowsBy(chain, db, ToSet(window)) /\ Fits(db) /\ Follows(chain, db, ToSet(window))
    BY <1>0, <1>1, ShownFacts, TrustFacts, HeldFacts
  <1>3. Shows(chain, db, db.cursor) /\ db.cursor <= Tip
    BY <1>1, <1>2, PlainFacts DEF ShowsBy, Follows
  <1>4. ChainInv /\ DbOK(db) /\ db.cursor \in Nat
    BY PlainFacts
  <1>5. Marks(db) = MarksOn(chain, 1, db.cursor)
    <2>1. {m \in Marks(db) : m[2] <= db.cursor} = Marks(db)
      BY <1>2 DEF Fits
    <2> QED  BY <1>3, <2>1 DEF Shows
  <1>6. /\ MarksOf(ToSet(logs)) = MarksOn(chain, 1, db.cursor)
        /\ logs \in Seq(Event) /\ \A e \in ToSet(logs) : e.block \in Nat
    <2>1. PICK one \in Nat \ {0} : one = 1
      OBVIOUS
    <2>2. MarksOf(ToSet(LogsBetween(one, db.cursor))) = MarksOn(chain, one, db.cursor)
      BY <1>3, <1>4, LogsBetweenTell
    <2>3. /\ LogsBetween(one, db.cursor) \in Seq(Event)
          /\ \A e \in ToSet(LogsBetween(one, db.cursor)) : e.block \in one .. db.cursor
      BY <1>3, <1>4, LogsBetweenAnnounce
    <2>4. \A e \in ToSet(LogsBetween(one, db.cursor)) : e.block \in Nat
      BY <2>1, <2>3
    <2> QED  BY <2>1, <2>2, <2>3, <2>4 DEF LogsRecorded
  <1> HIDE DEF logs
  <1>7. \A kind \in MarkKinds :
           (MarkAt(db, kind) # NoBlock) = (\E i \in DOMAIN logs : logs[i].kind = kind)
    BY <1>4, <1>5, <1>6, MarkedByLogs
  <1>8. /\ (db.commitment.submitted # NoBlock) = (\E i \in DOMAIN logs : logs[i].kind = "CommitmentSubmitted")
        /\ (db.commitment.activated # NoBlock) = (\E i \in DOMAIN logs : logs[i].kind = "CommitmentActivated")
        /\ (db.commitment.cancelled # NoBlock)
              = (\E i \in DOMAIN logs : logs[i].kind = "PendingCommitmentCancelled")
    BY <1>7 DEF MarkKinds, MarkAt
  <1> QED  BY <1>8 DEF CommitmentMirrorsChain, logs

(* A commitment is shown submitted, active or cancelled exactly when the   *)
(* chain up to the cursor made it so, after any history of crashes, failed *)
(* calls and reorganisations the indexer can notice; a root the vault took *)
(* a second time is excepted by name ("resubmitted").                      *)
THEOREM CommitmentsMirrorChain == Spec => []CommitmentMirrorsChain
  <1>1. IndexerInv /\ MarksHold => CommitmentMirrorsChain
    BY MarksAreTheChains
  <1>2. Spec => []MarksHold
    BY IndexerIsInductive, MarksInit, MarksStep, PTL DEF Spec
  <1> QED  BY <1>1, <1>2, IndexerIsInductive, PTL
=============================================================================
