--------------------------- MODULE RealtimeProofs ---------------------------
(***************************************************************************)
(* Proofs about Realtime, for any number of clients, any ring and queue,   *)
(* any number of events, blocks taken back, repeated ranges, broken        *)
(* connections, outages and restarts: outside the named situations the     *)
(* stream a page receives is in order and without repetition, and a page   *)
(* that looks healthy misses nothing.                                      *)
(***************************************************************************)
EXTENDS Realtime, FiniteSetTheorems, TLAPS

Plus(x, y) == x + y
Add == INSTANCE FoldProofs WITH Op <- Plus

(***************************************************************************)
(* The inductive invariant                                                 *)
(***************************************************************************)

Number == Nat \ {0}
Increasing(s) == \A i, j \in DOMAIN s : i < j => s[i] < s[j]

Session == [open : BOOLEAN, subscribed : BOOLEAN, queue : Seq(Number), degraded : BOOLEAN]
States == {"unmounted", "connecting", "open", "closed", "degraded"}

Table(f) == f = [c \in Clients |-> f[c]]

TypeInv ==
    /\ log \in Seq(Nat) /\ void \subseteq Events /\ indexed \in Nat /\ listening \in BOOLEAN
    /\ feed \in Seq(Number) /\ buffer \in Seq(Number) /\ Len(buffer) <= Capacity
    /\ session \in [Clients -> Session]
    /\ wire \in [Clients -> Seq(Nat)]
    /\ Table(asked) /\ Table(lastBlock)
    /\ state \in [Clients -> States]
    /\ base \in [Clients -> Nat]
    /\ received \in [Clients -> Seq(Number)]
    /\ \A c \in Clients : Len(session[c].queue) <= MaxQueue

(* The events that stand name the blocks in their order, up to the last one *)
(* indexed.                                                                 *)
LogInv ==
    /\ \A i, j \in Live : i < j /\ log[i] # 0 /\ log[j] # 0 => log[i] <= log[j]
    /\ \A e \in Live : log[e] <= indexed

(* What is retained or on its way stands, and comes in the order of commits.*)
InWay ==
    /\ Increasing(feed) /\ Increasing(buffer)
    /\ \A i \in DOMAIN feed : feed[i] \in Live
    /\ \A i \in DOMAIN buffer : buffer[i] \in Live
    /\ \A i \in DOMAIN buffer, j \in DOMAIN feed : buffer[i] < feed[j]
StreamInv == LogInv /\ InWay

(* How the two ends of a connection stand to each other.                   *)
Linked(c) ==
    /\ session[c].open => Mounted(c)
    /\ session[c].subscribed => session[c].open
    /\ ~session[c].subscribed =>
          wire[c] = <<>> /\ session[c].queue = <<>> /\ ~session[c].degraded
    /\ asked[c] # Nothing =>
          asked[c] = lastBlock[c] /\ session[c].open /\ ~session[c].subscribed
    /\ ~Mounted(c) => received[c] = <<>> /\ lastBlock[c] = None

(* A page under which nothing was taken back or repeated.                  *)
Steady(c) == Mounted(c) /\ "rewound" \notin exposed[c]

(* It would resume from the block of an event that stands.                 *)
Resumes(c) ==
    lastBlock[c] # None => \E e \in Live : log[e] # 0 /\ log[e] = lastBlock[c]

(* One event may reach a client before another.                            *)
Precedes(a, b) == a # b /\ (log[a] # 0 /\ log[b] # 0 => a < b)
Follow(s, t) ==
    \A i \in DOMAIN s, j \in DOMAIN t :
        s[i] # Error /\ t[j] # Error => Precedes(s[i], t[j])
Ordered(s) ==
    \A i, j \in DOMAIN s :
        i < j /\ s[i] # Error /\ s[j] # Error => Precedes(s[i], s[j])
Committed(s) == \A i \in DOMAIN s : s[i] = Error \/ s[i] \in Live
Announced(s) == \A i \in DOMAIN s, j \in DOMAIN feed : s[i] < feed[j]

(* What a client has received, what is on the socket, what is queued for it *)
(* and what is still to be broadcast continue each other.                   *)
InOrder(c) ==
    LET queue == session[c].queue
    IN  /\ Committed(received[c]) /\ Committed(wire[c]) /\ Committed(queue)
        /\ Announced(received[c]) /\ Announced(wire[c]) /\ Announced(queue)
        /\ Ordered(received[c]) /\ Ordered(wire[c]) /\ Ordered(queue)
        /\ Follow(received[c], wire[c]) /\ Follow(received[c], queue) /\ Follow(wire[c], queue)
        /\ \A i \in DOMAIN received[c] : log[received[c][i]] <= lastBlock[c] \/ log[received[c][i]] = 0

(* Nothing committed since the page was rendered is unknown to the gateway *)
(* (it is retained, or was, or is on its way); a client that is not served *)
(* lacks nothing of the blocks it has seen; and what a served one lacks is *)
(* under way.                                                              *)
Known(c) ==
    \A e \in Events : e > base[c] =>
        \/ e \in ToSet(feed) \/ e \in ToSet(buffer)
        \/ buffer # <<>> /\ e < Head(buffer)
Warned(c) == Error \in ToSet(wire[c]) \/ session[c].degraded
UnderWay(c) ==
    \A e \in Missing(c) :
        e \in ToSet(wire[c]) \/ e \in ToSet(session[c].queue) \/ e \in ToSet(feed)
NoHole(c) ==
    Mounted(c) /\ exposed[c] = {} =>
        /\ Known(c)
        /\ ~session[c].subscribed => ~Halfway(c)
        /\ session[c].subscribed /\ state[c] = "open" /\ ~Warned(c) => UnderWay(c)

ClientInv(c) == Resumes(c) /\ InOrder(c) /\ NoHole(c)

RInv ==
    /\ TypeInv /\ LogInv
    /\ (\E c \in Clients : Steady(c)) => InWay
    /\ \A c \in Clients : Linked(c) /\ (Steady(c) => ClientInv(c))

-----------------------------------------------------------------------------
(* Replay: what is kept of the retained events, one number after another.  *)

IsKept(g, s, events) ==
    g = [i \in 0 .. Len(s) |->
            IF i = 0 THEN <<>>
            ELSE IF s[i] \in events THEN Append(g[i - 1], s[i]) ELSE g[i - 1]]
KeptSoFar(s, events) == CHOOSE g : IsKept(g, s, events)

(* Keeping a part of a sequence ends after its last element.               *)
LEMMA KeptIsLast == \A s, events : Kept(s, events) = KeptSoFar(s, events)[Len(s)]
  BY DEF Kept, KeptSoFar, IsKept

(* It goes one element at a time.                                          *)
LEMMA KeptUnfolds ==
    ASSUME NEW s \in Seq(Number), NEW events
    PROVE  LET g == KeptSoFar(s, events)
           IN  /\ g[0] = <<>>
               /\ \A i \in 1 .. Len(s) :
                    g[i] = IF s[i] \in events THEN Append(g[i - 1], s[i]) ELSE g[i - 1]
  <1> DEFINE Rule(g, n) ==
               g = [i \in 0 .. n |->
                      IF i = 0 THEN <<>>
                      ELSE IF s[i] \in events THEN Append(g[i - 1], s[i]) ELSE g[i - 1]]
             Reached == {n \in Nat : \E g : Rule(g, n)}
  <1>1. 0 \in Reached
    <2> DEFINE g == [i \in 0 .. 0 |-> <<>>]
    <2>1. g = [i \in 0 .. 0 |->
                 IF i = 0 THEN <<>>
                 ELSE IF s[i] \in events THEN Append(g[i - 1], s[i]) ELSE g[i - 1]]
      OBVIOUS
    <2>2. Rule(g, 0)
      BY <2>1
    <2> HIDE DEF g, Rule
    <2> QED  BY <2>2
  <1>2. ASSUME NEW n \in Nat, n \in Reached PROVE n + 1 \in Reached
    <2>1. PICK g : Rule(g, n)
      BY <1>2
    <2> DEFINE h == [i \in 0 .. n + 1 |->
                       IF i = 0 THEN <<>>
                       ELSE IF s[i] \in events THEN Append(g[i - 1], s[i]) ELSE g[i - 1]]
    <2>2. ASSUME NEW i \in 0 .. n PROVE h[i] = g[i]
      <3>1. i \in 0 .. n + 1
        OBVIOUS
      <3>2. g[i] = IF i = 0 THEN <<>>
                   ELSE IF s[i] \in events THEN Append(g[i - 1], s[i]) ELSE g[i - 1]
        BY <2>1
      <3> QED  BY <3>1, <3>2
    <2>3. ASSUME NEW i \in 0 .. n + 1, i # 0
          PROVE  h[i] = IF s[i] \in events THEN Append(h[i - 1], s[i]) ELSE h[i - 1]
      <3>1. i - 1 \in 0 .. n
        BY <2>3
      <3>2. h[i - 1] = g[i - 1]
        BY <2>2, <3>1
      <3> QED  BY <2>3, <3>2
    <2>4. h[0] = <<>> /\ h = [i \in 0 .. n + 1 |-> h[i]]
      OBVIOUS
    <2> HIDE DEF h
    <2>5. h = [i \in 0 .. n + 1 |->
                 IF i = 0 THEN <<>>
                 ELSE IF s[i] \in events THEN Append(h[i - 1], s[i]) ELSE h[i - 1]]
      BY <2>3, <2>4
    <2>6. Rule(h, n + 1)
      BY <2>5
    <2> HIDE DEF Rule
    <2> QED  BY <2>6
  <1> HIDE DEF Reached
  <1>3. Len(s) \in Reached
    BY <1>1, <1>2, Add!NaturalsBySuccessor
  <1>4. \E g : IsKept(g, s, events)
    BY <1>3 DEF Reached, IsKept
  <1>5. IsKept(KeptSoFar(s, events), s, events)
    BY <1>4 DEF KeptSoFar
  <1> DEFINE k == KeptSoFar(s, events)
  <1>6. k = [i \in 0 .. Len(s) |->
               IF i = 0 THEN <<>>
               ELSE IF s[i] \in events THEN Append(k[i - 1], s[i]) ELSE k[i - 1]]
    BY <1>5 DEF IsKept
  <1> HIDE DEF Rule, k
  <1>7. k[0] = <<>>
    BY <1>6, Len(s) \in Nat
  <1>8. ASSUME NEW i \in 1 .. Len(s)
        PROVE  k[i] = IF s[i] \in events THEN Append(k[i - 1], s[i]) ELSE k[i - 1]
    <2>1. i \in 0 .. Len(s) /\ i # 0
      BY Len(s) \in Nat
    <2> QED  BY <1>6, <2>1
  <1> QED  BY <1>7, <1>8 DEF k

(* What is kept so far of an increasing sequence.                          *)
Filtered(t, s, i, events) ==
    /\ t \in Seq(Number)
    /\ Increasing(s) => Increasing(t)
    /\ \A j \in DOMAIN t : t[j] \in events /\ \E k \in 1 .. i : t[j] = s[k]
    /\ \A k \in 1 .. i : s[k] \in events => \E j \in DOMAIN t : t[j] = s[k]

(* One element more is kept when it belongs, and passed over when not.     *)
LEMMA FilteredMore ==
    ASSUME NEW s \in Seq(Number), NEW events,
           NEW i \in 1 .. Len(s), NEW t, Filtered(t, s, i - 1, events)
    PROVE  Filtered(IF s[i] \in events THEN Append(t, s[i]) ELSE t, s, i, events)
  <1>1. s[i] \in Number /\ (1 .. i) = (1 .. i - 1) \cup {i} /\ i - 1 \in Nat
    OBVIOUS
  <1>2. CASE s[i] \notin events
    BY <1>1, <1>2 DEF Filtered
  <1>3. CASE s[i] \in events
    <2> DEFINE u == Append(t, s[i])
    <2>1. /\ t \in Seq(Number) /\ u \in Seq(Number)
          /\ Len(u) = Len(t) + 1 /\ Len(t) \in Nat /\ u[Len(t) + 1] = s[i]
          /\ \A j \in 1 .. Len(t) : u[j] = t[j]
          /\ DOMAIN t = 1 .. Len(t) /\ DOMAIN u = 1 .. Len(t) + 1
          /\ DOMAIN s = 1 .. Len(s)
      BY <1>1 DEF Filtered
    <2> HIDE DEF u
    <2>2. ASSUME Increasing(s), NEW j \in DOMAIN t PROVE t[j] < s[i]
      <3>1. PICK k \in 1 .. i - 1 : t[j] = s[k]
        BY DEF Filtered
      <3>2. k \in DOMAIN s /\ i \in DOMAIN s /\ k < i
        BY <2>1
      <3> QED  BY <2>2, <3>1, <3>2 DEF Increasing
    <2>3. Increasing(s) => Increasing(u)
      <3> SUFFICES ASSUME Increasing(s), NEW j \in DOMAIN u, NEW k \in DOMAIN u, j < k PROVE u[j] < u[k]
        BY DEF Increasing
      <3>1. j \in DOMAIN t
        BY <2>1
      <3>2. CASE k \in DOMAIN t
        BY <2>1, <3>1, <3>2 DEF Filtered, Increasing
      <3>3. CASE k = Len(t) + 1
        BY <2>1, <2>2, <3>1, <3>3
      <3> QED  BY <2>1, <3>2, <3>3
    <2>4. \A j \in DOMAIN u : u[j] \in events /\ \E k \in 1 .. i : u[j] = s[k]
      BY <1>1, <1>3, <2>1 DEF Filtered
    <2>5. \A k \in 1 .. i : s[k] \in events => \E j \in DOMAIN u : u[j] = s[k]
      BY <1>1, <2>1 DEF Filtered
    <2>6. Filtered(u, s, i, events)
      BY <2>1, <2>3, <2>4, <2>5 DEF Filtered
    <2> QED  BY <1>3, <2>6 DEF u
  <1> QED  BY <1>2, <1>3

(* Replay sends the retained events asked for, all of them, in order.      *)
LEMMA KeptIsFiltered ==
    ASSUME NEW s \in Seq(Number), NEW events
    PROVE  Filtered(Kept(s, events), s, Len(s), events)
  <1> DEFINE g == KeptSoFar(s, events)
             P == {i \in 0 .. Len(s) : Filtered(g[i], s, i, events)}
  <1>1. /\ g[0] = <<>>
        /\ \A i \in 1 .. Len(s) :
             g[i] = IF s[i] \in events THEN Append(g[i - 1], s[i]) ELSE g[i - 1]
    BY KeptUnfolds
  <1>2. g[Len(s)] = Kept(s, events)
    BY KeptIsLast
  <1> HIDE DEF g
  <1>3. 0 \in P
    <2>1. Filtered(<<>>, s, 0, events)
      BY DEF Filtered, Increasing
    <2> QED  BY <1>1, <2>1, Len(s) \in Nat
  <1>4. ASSUME NEW i \in 1 .. Len(s), i - 1 \in P PROVE i \in P
    <2>1. Filtered(g[i - 1], s, i - 1, events) /\ i \in 0 .. Len(s)
      BY <1>4
    <2> QED  BY <1>1, <2>1, FilteredMore
  <1> HIDE DEF P
  <1>5. \A i \in 0 .. Len(s) : i \in P
    BY <1>3, <1>4, Add!CountingUp, Len(s) \in Nat
  <1>6. Len(s) \in P
    BY <1>5, Len(s) \in Nat
  <1> QED  BY <1>2, <1>6 DEF P

-----------------------------------------------------------------------------
(* Types *)

(* What a publication adds: events of one later block, or closings.        *)
Published(blocks) ==
    /\ blocks \in Seq(Nat)
    /\ \E block \in Nat :
         /\ \A i \in 1 .. Len(blocks) : blocks[i] = block
         /\ \/ block = 0 /\ indexed' = indexed
            \/ block > indexed /\ indexed' = block

(* What is committed is events of a block above the others, or an epoch's closing. *)
LEMMA PublicationsAreBlocks ==
    ASSUME TypeInv, IndexerCommits \/ EpochCloses
    PROVE  \E blocks : Published(blocks) /\ Publish(blocks)
  <1>1. indexed \in Nat
    BY DEF TypeInv
  <1>2. CASE IndexerCommits
    <2>1. PICK block \in indexed + 1 .. MaxBlocks, n \in {1, 2} :
             indexed' = block /\ Publish([i \in 1 .. n |-> block])
      BY <1>2 DEF IndexerCommits
    <2>2. block \in Nat /\ block > indexed
      BY <1>1, <2>1, RealtimeAssumption
    <2> DEFINE blocks == [i \in 1 .. n |-> block]
    <2>3. blocks \in Seq(Nat) /\ Len(blocks) = n /\ \A i \in 1 .. n : blocks[i] = block
      BY <2>2
    <2> HIDE DEF blocks
    <2>4. Published(blocks)
      BY <2>1, <2>2, <2>3 DEF Published
    <2> QED  BY <2>1, <2>4 DEF blocks
  <1>3. CASE EpochCloses
    <2>1. Published(<<0>>)
      BY <1>3 DEF Published, EpochCloses
    <2> QED  BY <1>3, <2>1 DEF EpochCloses
  <1> QED  BY <1>2, <1>3

(* What became of the log and of the feed.                                 *)
LEMMA PublishGrows ==
    ASSUME TypeInv, NEW blocks, Published(blocks), Publish(blocks)
    PROVE  /\ log' \in Seq(Nat) /\ Len(log') = Len(log) + Len(blocks)
           /\ \A e \in Events : e \in Events' /\ log'[e] = log[e]
           /\ void' = void /\ \A e \in Events : e \in foreign' <=> e \in foreign
           /\ \A e \in Events' \ Events : e > Len(log) /\ log'[e] = blocks[e - Len(log)]
                                          /\ e - Len(log) \in 1 .. Len(blocks)
           /\ feed' \in Seq(Number)
           /\ listening =>
                /\ Len(feed') = Len(feed) + Len(blocks)
                /\ \A i \in 1 .. Len(feed) : feed'[i] = feed[i]
                /\ \A i \in 1 .. Len(blocks) : feed'[Len(feed) + i] = Len(log) + i
           /\ ~listening => feed' = feed
  <1>1. log \in Seq(Nat) /\ blocks \in Seq(Nat) /\ log' = log \o blocks /\ feed \in Seq(Number)
    BY DEF TypeInv, Published, Publish
  <1>2. log' \in Seq(Nat) /\ Len(log') = Len(log) + Len(blocks)
        /\ (\A e \in 1 .. Len(log) : log'[e] = log[e])
        /\ \A e \in Len(log) + 1 .. Len(log) + Len(blocks) : log'[e] = blocks[e - Len(log)]
    BY <1>1
  <1>3. Len(log) \in Nat /\ Len(blocks) \in Nat
    BY <1>1
  <1>4. \A e \in Events : e \in Events' /\ log'[e] = log[e]
    BY <1>2, <1>3 DEF Events
  <1>5. \A e \in Events' \ Events : e > Len(log) /\ log'[e] = blocks[e - Len(log)]
                                    /\ e - Len(log) \in 1 .. Len(blocks)
    BY <1>2, <1>3 DEF Events
  <1> DEFINE new == [i \in DOMAIN blocks |-> Len(log) + i]
  <1>6. new \in Seq(Number) /\ Len(new) = Len(blocks)
        /\ \A i \in 1 .. Len(blocks) : new[i] = Len(log) + i
    <2>1. DOMAIN blocks = 1 .. Len(blocks)
      BY <1>1
    <2> QED  BY <1>3, <2>1 DEF Number
  <1>7. feed' = IF listening THEN feed \o new ELSE feed
    BY DEF Publish
  <1> HIDE DEF new
  <1>8. listening =>
          /\ feed' \in Seq(Number)
          /\ Len(feed') = Len(feed) + Len(blocks)
          /\ \A i \in 1 .. Len(feed) : feed'[i] = feed[i]
          /\ \A i \in 1 .. Len(blocks) : feed'[Len(feed) + i] = Len(log) + i
    BY <1>1, <1>3, <1>6, <1>7
  <1>9. void' = void /\ \A e \in Events : e \in foreign' <=> e \in foreign
    <2>1. PICK others \in SUBSET DOMAIN blocks : foreign' = foreign \cup {Len(log) + i : i \in others}
      BY DEF Publish
    <2>2. \A i \in others : i \in Nat /\ i >= 1
      BY <1>1
    <2>3. \A e \in Events : e \in Nat /\ e <= Len(log)
      BY <1>3 DEF Events
    <2> QED  BY <1>3, <2>1, <2>2, <2>3 DEF Publish
  <1> QED  BY <1>1, <1>2, <1>4, <1>5, <1>7, <1>8, <1>9

(* The ring keeps to its capacity.                                         *)
LEMMA RingKeeps ==
    ASSUME TypeInv, NEW e \in Number
    PROVE  LET ring == AppendBounded(buffer, e)
           IN  ring \in Seq(Number) /\ Len(ring) <= Capacity
  <1> DEFINE longer == Append(buffer, e)
  <1>1. longer \in Seq(Number) /\ Len(longer) = Len(buffer) + 1 /\ Len(buffer) \in Nat
        /\ Len(buffer) <= Capacity
    BY DEF TypeInv
  <1> HIDE DEF longer
  <1>2. longer # <<>> /\ Capacity \in Nat
    BY <1>1, RealtimeAssumption
  <1>3. Tail(longer) \in Seq(Number) /\ Len(Tail(longer)) = Len(longer) - 1
    BY <1>1, <1>2
  <1> QED  BY <1>1, <1>2, <1>3 DEF AppendBounded, longer

(* What enqueueing does to the fields of a session.                        *)
LEMMA EnqueuedFields ==
    ASSUME NEW s \in Session, NEW e \in Number
    PROVE  /\ Enqueued(s, e) \in Session
           /\ Enqueued(s, e).open = s.open /\ Enqueued(s, e).subscribed = s.subscribed
           /\ ~s.subscribed => Enqueued(s, e) = s
           /\ s.subscribed /\ Len(s.queue) >= MaxQueue =>
                Enqueued(s, e).degraded /\ Enqueued(s, e).queue = s.queue
           /\ s.subscribed /\ ~(Len(s.queue) >= MaxQueue) =>
                /\ Enqueued(s, e).degraded = s.degraded
                /\ Enqueued(s, e).queue = Append(s.queue, e)
  <1>1. Append(s.queue, e) \in Seq(Number)
    BY DEF Session
  <1> QED  BY <1>1 DEF Enqueued, Session

(* The sessions of the gateway are rewritten field by field.               *)
LEMMA SessionShapes ==
    /\ NoSession \in Session /\ NewSession \in Session
    /\ ~NoSession.open /\ ~NoSession.subscribed /\ ~NoSession.degraded /\ NoSession.queue = <<>>
    /\ NewSession.open /\ ~NewSession.subscribed /\ ~NewSession.degraded /\ NewSession.queue = <<>>
    /\ \A s \in Session :
         /\ s.open \in BOOLEAN /\ s.subscribed \in BOOLEAN /\ s.degraded \in BOOLEAN
         /\ s.queue \in Seq(Number)
  <1>1. NoSession \in Session
        /\ ~NoSession.open /\ ~NoSession.subscribed /\ ~NoSession.degraded /\ NoSession.queue = <<>>
    <2>1. <<>> \in Seq(Number)
      OBVIOUS
    <2> QED  BY <2>1 DEF NoSession, Session
  <1>2. NewSession \in Session /\ NewSession.open
        /\ NewSession.subscribed = NoSession.subscribed
        /\ NewSession.degraded = NoSession.degraded /\ NewSession.queue = NoSession.queue
    BY <1>1 DEF NewSession, Session
  <1> QED  BY <1>1, <1>2 DEF Session

(* The types hold at first.                                                *)
LEMMA InitShape == Init => TypeInv
  <1> SUFFICES ASSUME Init PROVE TypeInv
    OBVIOUS
  <1>1. /\ log \in Seq(Nat) /\ void \subseteq Events /\ indexed \in Nat /\ listening \in BOOLEAN
        /\ feed \in Seq(Number) /\ buffer \in Seq(Number) /\ Len(buffer) <= Capacity
    BY RealtimeAssumption DEF Init
  <1>2. session \in [Clients -> Session] /\ \A c \in Clients : Len(session[c].queue) <= MaxQueue
    BY SessionShapes, RealtimeAssumption DEF Init
  <1>3. /\ wire \in [Clients -> Seq(Nat)]
        /\ Table(asked) /\ Table(lastBlock)
        /\ state \in [Clients -> States] /\ base \in [Clients -> Nat]
        /\ received \in [Clients -> Seq(Number)]
    BY DEF Init, Table, States
  <1> QED  BY <1>1, <1>2, <1>3 DEF TypeInv

(* What a broken connection leaves behind.                                 *)
LEMMA BreakShape ==
    ASSUME TypeInv, NEW clients \in SUBSET Clients, Break(clients)
    PROVE  /\ session' \in [Clients -> Session] /\ wire' \in [Clients -> Seq(Nat)]
           /\ Table(asked)' /\ state' \in [Clients -> States]
           /\ \A c \in Clients : Len(session'[c].queue) <= MaxQueue
           /\ UNCHANGED <<lastBlock, base, received>>
  <1>1. session' \in [Clients -> Session] /\ \A c \in Clients : Len(session'[c].queue) <= MaxQueue
    BY SessionShapes, RealtimeAssumption DEF TypeInv, Break
  <1>2. wire' \in [Clients -> Seq(Nat)]
    BY DEF TypeInv, Break
  <1>3. Table(asked)' /\ state' \in [Clients -> States]
    BY DEF TypeInv, Break, Table, States
  <1> QED  BY <1>1, <1>2, <1>3 DEF Break

(* What is replayed are events of the ring.                                *)
LEMMA SinceIsFiltered ==
    ASSUME TypeInv, NEW since
    PROVE  /\ Since(since) \in Seq(Number)
           /\ Filtered(Since(since), buffer, Len(buffer), {e \in Ours : log[e] > since})
  <1> DEFINE later == {e \in Ours : log[e] > since}
  <1>1. buffer \in Seq(Number)
    BY DEF TypeInv
  <1>2. Since(since) = Kept(buffer, later)
    BY DEF Since
  <1> HIDE DEF later
  <1>3. Filtered(Since(since), buffer, Len(buffer), later)
    BY <1>1, <1>2, KeptIsFiltered
  <1> QED  BY <1>3 DEF Filtered, later

(* Event numbers are natural numbers.                                      *)
LEMMA NumbersAreNaturals == \A s \in Seq(Number) : s \in Seq(Nat)
  BY DEF Number

(* A flush empties one queue and touches nothing else.                     *)
LEMMA FlushedSession ==
    ASSUME session \in [Clients -> Session], NEW c \in Clients,
           session' = [session EXCEPT ![c].degraded = FALSE, ![c].queue = <<>>]
    PROVE  /\ session' \in [Clients -> Session]
           /\ \A d \in Clients \ {c} : session'[d] = session[d]
           /\ ~session'[c].degraded /\ session'[c].queue = <<>>
           /\ session'[c].open = session[c].open /\ session'[c].subscribed = session[c].subscribed
           /\ \A d \in Clients :
                session'[d].queue = IF d = c THEN <<>> ELSE session[d].queue
  <1> DEFINE s == [session[c] EXCEPT !.degraded = FALSE]
             r == [s EXCEPT !.queue = <<>>]
  <1>1. session[c] \in Session /\ <<>> \in Seq(Number)
    OBVIOUS
  <1>2. s \in Session /\ ~s.degraded /\ s.open = session[c].open /\ s.subscribed = session[c].subscribed
    BY <1>1 DEF Session
  <1>3. r \in Session /\ r.degraded = s.degraded /\ r.queue = <<>> /\ r.open = s.open /\ r.subscribed = s.subscribed
    <2> HIDE DEF s
    <2> QED  BY <1>1, <1>2 DEF Session
  <1>4. session' = [session EXCEPT ![c] = r]
    OBVIOUS
  <1> HIDE DEF s, r
  <1> QED  BY <1>2, <1>3, <1>4

(* A subscription changes one flag of one session.                         *)
LEMMA SubscribedSession ==
    ASSUME session \in [Clients -> Session], NEW c \in Clients,
           session' = [session EXCEPT ![c].subscribed = TRUE]
    PROVE  /\ session' \in [Clients -> Session]
           /\ \A d \in Clients \ {c} : session'[d] = session[d]
           /\ session'[c].subscribed
           /\ session'[c].open = session[c].open /\ session'[c].degraded = session[c].degraded
           /\ \A d \in Clients : session'[d].queue = session[d].queue
  <1> DEFINE s == [session[c] EXCEPT !.subscribed = TRUE]
  <1>1. session[c] \in Session
    OBVIOUS
  <1>2. s \in Session /\ s.subscribed /\ s.open = session[c].open
        /\ s.degraded = session[c].degraded /\ s.queue = session[c].queue
    BY <1>1 DEF Session
  <1>3. session' = [session EXCEPT ![c] = s]
    OBVIOUS
  <1> HIDE DEF s
  <1> QED  BY <1>2, <1>3

(* Every step keeps the types.                                             *)
LEMMA TypeStep ==
    ASSUME TypeInv, [Next]_vars
    PROVE  TypeInv'
  <1> USE DEF TypeInv
  <1>1. CASE IndexerCommits \/ EpochCloses
    <2>1. PICK blocks : Published(blocks) /\ Publish(blocks)
      BY <1>1, PublicationsAreBlocks
    <2>2. log' \in Seq(Nat) /\ feed' \in Seq(Number) /\ void' = void
      BY <2>1, PublishGrows
    <2>3. void' \subseteq Events'
      BY <2>1, <2>2, PublishGrows
    <2>4. indexed' \in Nat
      BY <2>1 DEF Published
    <2> QED  BY <2>1, <2>2, <2>3, <2>4 DEF Publish, client, Table
  <1>2. CASE ListenerFails \/ ListenerReconnects
    <2>1. UNCHANGED <<chain, buffer, session, wire, asked, state, lastBlock, base, received>>
      BY <1>2 DEF ListenerFails, ListenerReconnects, client
    <2>2. feed' \in Seq(Number) /\ listening' \in BOOLEAN
      <3>1. CASE ListenerFails
        <4>1. feed' = <<>> /\ listening' = FALSE
          BY <3>1 DEF ListenerFails
        <4> HIDE DEF TypeInv
        <4>2. <<>> \in Seq(Number)
          OBVIOUS
        <4> QED  BY <4>1, <4>2
      <3>2. CASE ListenerReconnects
        <4>1. feed' = feed /\ listening' = TRUE
          BY <3>2 DEF ListenerReconnects
        <4> QED  BY <4>1
      <3> QED  BY <1>2, <3>1, <3>2
    <2> QED  BY <2>1, <2>2 DEF chain, Events, Table
  <1>3. CASE Broadcast
    <2>1. Head(feed) \in Number /\ feed' \in Seq(Number)
      BY <1>3 DEF Broadcast
    <2>2. buffer' \in Seq(Number) /\ Len(buffer') <= Capacity
      BY <1>3, <2>1, RingKeeps DEF Broadcast
    <2>3. session' = [c \in Clients |->
                        IF Head(feed) \in Ours THEN Enqueued(session[c], Head(feed)) ELSE session[c]]
      BY <1>3 DEF Broadcast
    <2>4. ASSUME NEW c \in Clients
          PROVE  session'[c] \in Session /\ Len(session'[c].queue) <= MaxQueue
      <3>1. session[c] \in Session /\ session[c].queue \in Seq(Number)
            /\ session[c].subscribed \in BOOLEAN /\ Len(session[c].queue) <= MaxQueue
        BY SessionShapes
      <3>2. session'[c] = Enqueued(session[c], Head(feed)) \/ session'[c] = session[c]
        BY <2>3
      <3>3. Len(Append(session[c].queue, Head(feed))) = Len(session[c].queue) + 1
            /\ Len(session[c].queue) \in Nat /\ MaxQueue \in Nat
        BY <2>1, <3>1, RealtimeAssumption
      <3> DEFINE s == session[c]
                 e == Head(feed)
      <3>4. s \in Session /\ e \in Number
        BY <2>1, <3>1
      <3> HIDE DEF s, e
      <3>5. /\ Enqueued(s, e) \in Session
            /\ ~s.subscribed => Enqueued(s, e) = s
            /\ s.subscribed /\ Len(s.queue) >= MaxQueue => Enqueued(s, e).queue = s.queue
            /\ s.subscribed /\ ~(Len(s.queue) >= MaxQueue) =>
                 Enqueued(s, e).queue = Append(s.queue, e)
        BY <3>4, EnqueuedFields
      <3>6. Len(Enqueued(s, e).queue) <= MaxQueue
        BY SMTT(30), <3>1, <3>3, <3>5 DEF s, e
      <3> QED  BY <3>1, <3>2, <3>5, <3>6 DEF s, e
    <2>5. session' \in [Clients -> Session]
      BY <2>3, <2>4
    <2> HIDE DEF TypeInv
    <2>6. UNCHANGED <<chain, listening, wire, asked, state, lastBlock, base, received>>
      BY <1>3 DEF Broadcast, client
    <2> QED  BY <2>1, <2>2, <2>4, <2>5, <2>6 DEF TypeInv, chain, Events, Table
  <1>4. ASSUME NEW c \in Clients, Mount(c) PROVE TypeInv'
    BY <1>4 DEF Mount, stream, chain, States, Events, Table
  <1>5. ASSUME NEW c \in Clients, Connect(c) PROVE TypeInv'
    <2>1. session' = [session EXCEPT ![c] = NewSession]
      BY <1>5 DEF Connect
    <2>2. session' \in [Clients -> Session]
      BY <2>1, SessionShapes
    <2>3. ASSUME NEW d \in Clients PROVE Len(session'[d].queue) <= MaxQueue
      <3>1. CASE d = c
        BY <2>1, <3>1, SessionShapes, RealtimeAssumption
      <3>2. CASE d # c
        BY <2>1, <3>2
      <3> QED  BY <3>1, <3>2
    <2> QED  BY <1>5, <2>2, <2>3 DEF Connect, stream, chain, States, Events, Table
  <1>6. ASSUME NEW c \in Clients, Subscribe(c) PROVE TypeInv'
    <2>1. session' \in [Clients -> Session] /\ \A d \in Clients : session'[d].queue = session[d].queue
      BY <1>6, SubscribedSession DEF Subscribe
    <2>2. Table(asked)'
      BY <1>6 DEF Subscribe, Table
    <2>3. wire' \in [Clients -> Seq(Nat)]
      <3>1. CASE asked[c] = Fresh
        BY <1>6, <3>1 DEF Subscribe
      <3>2. CASE asked[c] # Fresh
        <4> DEFINE sent == IF ~CanReplayFrom(asked[c]) \/ Len(Since(asked[c])) > MaxQueue
                           THEN <<Error>> ELSE Since(asked[c])
        <4>2. Since(asked[c]) \in Seq(Nat)
          BY SinceIsFiltered, NumbersAreNaturals
        <4>3. sent \in Seq(Nat)
          BY <4>2 DEF Error
        <4>4. wire' = [wire EXCEPT ![c] = @ \o sent]
          BY <1>6, <3>2 DEF Subscribe
        <4> HIDE DEF sent
        <4> QED  BY <4>3, <4>4
      <3> QED  BY <3>1, <3>2
    <2> QED  BY <1>6, <2>1, <2>2, <2>3 DEF Subscribe, stream, chain, client, Events, Table
  <1>7. ASSUME NEW c \in Clients, Flush(c) PROVE TypeInv'
    <2>1. session[c].queue \in Seq(Nat)
      BY NumbersAreNaturals DEF Session
    <2>2. wire' \in [Clients -> Seq(Nat)]
      <3> DEFINE head == IF session[c].degraded THEN <<Error>> ELSE <<>>
      <3>1. head \in Seq(Nat)
        BY DEF Error
      <3>2. wire' = [wire EXCEPT ![c] = @ \o head \o session[c].queue]
        BY <1>7 DEF Flush
      <3> HIDE DEF head
      <3> QED  BY <2>1, <3>1, <3>2
    <2>3. /\ session' \in [Clients -> Session]
          /\ \A d \in Clients :
               session'[d].queue = IF d = c THEN <<>> ELSE session[d].queue
      BY <1>7, FlushedSession DEF Flush
    <2>4. ASSUME NEW d \in Clients PROVE Len(session'[d].queue) <= MaxQueue
      <3>1. CASE d = c
        BY <2>3, <3>1, RealtimeAssumption
      <3>2. CASE d # c
        BY <2>3, <3>2
      <3> QED  BY <3>1, <3>2
    <2> QED  BY <1>7, <2>2, <2>3, <2>4 DEF Flush, stream, chain, client, Events, Table
  <1>8. ASSUME NEW c \in Clients, Receive(c) PROVE TypeInv'
    <2>1. wire[c] \in Seq(Nat) /\ Head(wire[c]) \in Nat /\ Tail(wire[c]) \in Seq(Nat)
      BY <1>8 DEF Receive
    <2>2. wire' \in [Clients -> Seq(Nat)]
      BY <1>8, <2>1 DEF Receive
    <2> DEFINE m == Head(wire[c])
    <2>3. CASE m = Error
      BY <1>8, <2>2, <2>3 DEF Receive, stream, chain, States, Events, Table
    <2>4. CASE m # Error
      <3>1. m \in Number
        BY <2>1, <2>4 DEF Error, Number
      <3> HIDE DEF m
      <3>2. received' = [received EXCEPT ![c] = Append(@, m)]
        BY <1>8, <2>4 DEF Receive, m
      <3>3. received' \in [Clients -> Seq(Number)]
        BY <3>1, <3>2
      <3>4. lastBlock' = [lastBlock EXCEPT ![c] = IF log[m] = 0 THEN @ ELSE log[m]]
            /\ UNCHANGED <<state, stream, buffer, session, asked, base>>
        BY <1>8, <2>4 DEF Receive, m
      <3>6. Table(lastBlock)'
        BY <3>4 DEF Table
      <3>7. \A d \in Clients : Len(session'[d].queue) <= MaxQueue
        BY <3>4
      <3> QED  BY <2>2, <3>3, <3>4, <3>6, <3>7 DEF stream, chain, Events, Table
    <2> QED  BY <2>3, <2>4
  <1>9. ASSUME NEW c \in Clients, Drop(c) PROVE TypeInv'
    BY <1>9, BreakShape DEF Drop, stream, chain, Events, Table
  <1>10. CASE Restart
    <2>1. {c \in Clients : session[c].open} \in SUBSET Clients
      OBVIOUS
    <2>2. Break({c \in Clients : session[c].open})
          /\ listening' = TRUE /\ feed' = <<>> /\ buffer' = <<>> /\ UNCHANGED chain
      BY <1>10 DEF Restart
    <2>3. feed' \in Seq(Number) /\ buffer' \in Seq(Number) /\ Len(buffer') <= Capacity
      BY <2>2, RealtimeAssumption
    <2> QED  BY <2>1, <2>2, <2>3, BreakShape DEF chain, Events, Table
  <1>11. CASE UNCHANGED vars
    BY <1>11 DEF vars, stream, chain, client, Events, Table
  <1>12. CASE IndexerRollsBack
    <2>1. PICK n \in 0 .. indexed - 1 : indexed' = n /\ void' = void \cup Above(n)
      BY <1>12 DEF IndexerRollsBack
    <2>2. indexed' \in Nat /\ log' = log /\ Events' = Events
      BY <1>12, <2>1 DEF IndexerRollsBack, Events
    <2>3. void' \subseteq Events'
      <3>1. Above(n) \subseteq Events
        BY DEF Above, Live
      <3> QED  BY <2>1, <2>2, <3>1
    <2> QED  BY <1>12, <2>2, <2>3 DEF IndexerRollsBack, client, Table
  <1>13. CASE RangeRepeats
    <2>1. PICK n \in 0 .. indexed - 1 : feed' = feed \o Kept([e \in Events |-> e], Above(n))
      BY <1>13 DEF RangeRepeats
    <2> DEFINE all == [e \in Events |-> e]
    <2>2. all \in Seq(Number)
      BY Len(log) \in Nat DEF Events, Number
    <2>3. Kept(all, Above(n)) \in Seq(Number)
      <3> HIDE DEF all
      <3> QED  BY <2>2, KeptIsFiltered DEF Filtered
    <2> HIDE DEF all
    <2>4. feed' \in Seq(Number)
      BY <2>1, <2>3 DEF all
    <2> QED  BY <1>13, <2>4 DEF RangeRepeats, chain, client, Events, Table
  <1> QED
    BY <1>12, <1>13, <1>1, <1>2, <1>3, <1>4, <1>5, <1>6, <1>7, <1>8, <1>9, <1>10, <1>11 DEF Next

-----------------------------------------------------------------------------
(* The stream *)

(* What the ring holds once an event later than all of it was added.       *)
LEMMA RingMoves ==
    ASSUME TypeInv, Increasing(buffer), NEW e \in Number,
           \A i \in DOMAIN buffer : buffer[i] < e
    PROVE  LET ring == AppendBounded(buffer, e)
           IN  /\ ring # <<>> /\ Increasing(ring)
               /\ \A i \in DOMAIN ring : ring[i] = e \/ \E j \in DOMAIN buffer : ring[i] = buffer[j]
               /\ buffer # <<>> => Head(buffer) <= Head(ring)
               /\ \A j \in DOMAIN buffer : buffer[j] \in ToSet(ring) \/ buffer[j] < Head(ring)
               /\ e \in ToSet(ring)
  <1> DEFINE longer == Append(buffer, e)
             n == Len(buffer)
  <1>1. /\ buffer \in Seq(Number) /\ n \in Nat /\ n <= Capacity /\ Capacity \in Nat /\ Capacity >= 1
        /\ longer \in Seq(Number) /\ Len(longer) = n + 1 /\ longer[n + 1] = e
        /\ DOMAIN buffer = 1 .. n /\ DOMAIN longer = 1 .. n + 1
        /\ \A j \in 1 .. n : longer[j] = buffer[j]
    BY RealtimeAssumption DEF TypeInv
  <1>2. \A j \in 1 .. n : buffer[j] \in Nat
    BY <1>1 DEF Number
  <1> HIDE DEF longer, n
  <1>3. Increasing(longer)
    <2> SUFFICES ASSUME NEW i \in 1 .. n + 1, NEW j \in 1 .. n + 1, i < j
                 PROVE  longer[i] < longer[j]
      BY <1>1 DEF Increasing
    <2>1. i \in 1 .. n
      BY <1>1
    <2>2. CASE j \in 1 .. n
      BY <1>1, <2>1, <2>2 DEF Increasing
    <2>3. CASE j = n + 1
      BY <1>1, <2>1, <2>3
    <2> QED  BY <1>1, <2>2, <2>3
  <1>4. longer # <<>>
    BY <1>1
  <1>5. CASE Len(longer) <= Capacity
    <2>1. AppendBounded(buffer, e) = longer
      BY <1>1, <1>5 DEF AppendBounded, longer
    <2>2. Head(longer) = longer[1]
      BY <1>1, <1>4
    <2>3. buffer # <<>> => Head(buffer) <= Head(longer)
      <3> SUFFICES ASSUME buffer # <<>> PROVE Head(buffer) <= Head(longer)
        OBVIOUS
      <3>1. n # 0 /\ Head(buffer) = buffer[1]
        BY <1>1 DEF n
      <3> QED  BY <1>1, <1>2, <2>2, <3>1
    <2>4. \A j \in DOMAIN buffer : buffer[j] \in ToSet(longer)
      BY <1>1 DEF ToSet
    <2>5. e \in ToSet(longer)
      BY <1>1 DEF ToSet
    <2>6. \A i \in DOMAIN longer : longer[i] = e \/ \E j \in DOMAIN buffer : longer[i] = buffer[j]
      BY <1>1
    <2> QED  BY <1>3, <1>4, <2>1, <2>3, <2>4, <2>5, <2>6
  <1>6. CASE Len(longer) > Capacity
    <2> DEFINE ring == Tail(longer)
    <2>1. AppendBounded(buffer, e) = ring
      BY <1>6 DEF AppendBounded, longer
    <2>2. /\ n >= 1 /\ ring \in Seq(Number) /\ Len(ring) = n /\ DOMAIN ring = 1 .. n
          /\ \A j \in 1 .. n : ring[j] = longer[j + 1]
      BY <1>1, <1>4, <1>6
    <2> HIDE DEF ring
    <2>3. ring # <<>> /\ Head(ring) = longer[2] /\ Head(buffer) = longer[1]
      BY <1>1, <2>2
    <2>4. Increasing(ring)
      <3> SUFFICES ASSUME NEW i \in 1 .. n, NEW j \in 1 .. n, i < j PROVE ring[i] < ring[j]
        BY <2>2 DEF Increasing
      <3>1. i + 1 \in DOMAIN longer /\ j + 1 \in DOMAIN longer /\ i + 1 < j + 1
        BY <1>1
      <3> QED  BY <1>3, <2>2, <3>1 DEF Increasing
    <2>5. longer[1] < longer[2]
      BY <1>1, <1>3, <2>2 DEF Increasing
    <2>6. Head(buffer) <= Head(ring)
      <3>1. longer[1] \in Nat /\ longer[2] \in Nat
        BY <1>1, <2>2 DEF Number
      <3> QED  BY <2>3, <2>5, <3>1
    <2>7. ASSUME NEW j \in DOMAIN buffer PROVE buffer[j] \in ToSet(ring) \/ buffer[j] < Head(ring)
      <3>1. CASE j = 1
        BY <1>1, <2>2, <2>3, <2>5, <3>1
      <3>2. CASE j # 1
        <4>1. j - 1 \in 1 .. n /\ ring[j - 1] = buffer[j]
          BY <1>1, <2>2, <3>2
        <4> QED  BY <2>2, <4>1 DEF ToSet
      <3> QED  BY <3>1, <3>2
    <2>8. ring[n] = e /\ n \in DOMAIN ring
      BY <1>1, <2>2
    <2>9. e \in ToSet(ring)
      BY <2>8 DEF ToSet
    <2>10. ASSUME NEW i \in DOMAIN ring
           PROVE  ring[i] = e \/ \E j \in DOMAIN buffer : ring[i] = buffer[j]
      <3>1. CASE i = n
        BY <2>8, <3>1
      <3>2. CASE i # n
        <4>1. i + 1 \in DOMAIN buffer /\ ring[i] = buffer[i + 1]
          BY <1>1, <2>2, <3>2
        <4> QED  BY <4>1
      <3> QED  BY <3>1, <3>2
    <2> QED  BY <2>1, <2>3, <2>4, <2>6, <2>7, <2>9, <2>10
  <1> QED  BY <1>1, <1>5, <1>6

(* The notification that is broadcast comes before those that stay.        *)
LEMMA HeadOfFeed ==
    ASSUME TypeInv, StreamInv, feed # <<>>
    PROVE  /\ Head(feed) \in Number /\ Head(feed) \in Live
           /\ Tail(feed) \in Seq(Number)
           /\ \A j \in DOMAIN Tail(feed) :
                /\ Head(feed) < Tail(feed)[j]
                /\ \E i \in DOMAIN feed : Tail(feed)[j] = feed[i]
           /\ Increasing(Tail(feed))
           /\ \A x \in ToSet(feed) : x = Head(feed) \/ x \in ToSet(Tail(feed))
           /\ \A i \in DOMAIN buffer : buffer[i] < Head(feed)
           /\ Head(feed) \in ToSet(feed)
  <1> DEFINE n == Len(feed)
             rest == Tail(feed)
  <1>1. /\ feed \in Seq(Number) /\ n \in Nat /\ n >= 1 /\ DOMAIN feed = 1 .. n
        /\ Head(feed) = feed[1] /\ feed[1] \in Number
        /\ rest \in Seq(Number) /\ Len(rest) = n - 1 /\ DOMAIN rest = 1 .. n - 1
        /\ \A j \in 1 .. n - 1 : rest[j] = feed[j + 1]
    BY DEF TypeInv
  <1> HIDE DEF n, rest
  <1>2. Increasing(feed) /\ feed[1] \in Live
    BY <1>1 DEF StreamInv, InWay
  <1>3. \A i \in DOMAIN buffer : buffer[i] < Head(feed)
    BY <1>1 DEF StreamInv, InWay
  <1>4. ASSUME NEW j \in DOMAIN rest
        PROVE  Head(feed) < rest[j] /\ \E i \in DOMAIN feed : rest[j] = feed[i]
    <2>1. 1 \in DOMAIN feed /\ j + 1 \in DOMAIN feed /\ 1 < j + 1 /\ rest[j] = feed[j + 1]
      BY <1>1
    <2> QED  BY <1>1, <1>2, <2>1 DEF Increasing
  <1>5. Increasing(rest)
    <2> SUFFICES ASSUME NEW i \in 1 .. n - 1, NEW j \in 1 .. n - 1, i < j PROVE rest[i] < rest[j]
      BY <1>1 DEF Increasing
    <2>1. i + 1 \in DOMAIN feed /\ j + 1 \in DOMAIN feed /\ i + 1 < j + 1
      BY <1>1
    <2> QED  BY <1>1, <1>2, <2>1 DEF Increasing
  <1>6. ASSUME NEW x \in ToSet(feed) PROVE x = Head(feed) \/ x \in ToSet(rest)
    <2>1. PICK i \in 1 .. n : x = feed[i]
      BY <1>1 DEF ToSet
    <2>2. CASE i = 1
      BY <1>1, <2>1, <2>2
    <2>3. CASE i # 1
      <3>1. i - 1 \in DOMAIN rest /\ rest[i - 1] = x
        BY <1>1, <2>1, <2>3
      <3> QED  BY <3>1 DEF ToSet
    <2> QED  BY <2>2, <2>3
  <1>7. Head(feed) \in ToSet(feed)
    BY <1>1 DEF ToSet
  <1> QED  BY <1>1, <1>2, <1>3, <1>4, <1>5, <1>6, <1>7 DEF rest

(* What stands was committed.                                              *)
LEMMA LiveEvents ==
    ASSUME TypeInv
    PROVE  /\ \A e \in Events : log[e] \in Nat /\ e \in Number /\ e \in Nat /\ e <= Len(log) /\ e >= 1
           /\ \A e \in Live : e \in Events /\ log[e] \in Nat /\ e \in Number /\ e \in Nat /\ e <= Len(log)
  <1>1. log \in Seq(Nat) /\ Len(log) \in Nat
    BY DEF TypeInv
  <1>2. Events = 1 .. Len(log)
    BY DEF Events
  <1>3. \A e \in Events : log[e] \in Nat /\ e \in Number /\ e \in Nat /\ e <= Len(log) /\ e >= 1
    BY <1>1, <1>2 DEF Number
  <1>4. \A e \in Live : e \in Events
    BY DEF Live
  <1> QED  BY <1>3, <1>4

(* A new event speaks of a later block than all that stand, or of none.    *)
LEMMA PublishedIsLater ==
    ASSUME TypeInv, LogInv, NEW blocks, Published(blocks), Publish(blocks)
    PROVE  /\ indexed' \in Nat /\ indexed <= indexed'
           /\ \A e \in Events' \ Events :
                /\ e \in Live' /\ log'[e] \in Nat /\ log'[e] <= indexed'
                /\ log'[e] # 0 => \A d \in Live : log[d] < log'[e]
           /\ \A d, e \in Events' \ Events : log'[d] = log'[e]
           /\ Live' = Live \cup (Events' \ Events)
  <1>1. /\ indexed \in Nat /\ \A d \in Live : log[d] <= indexed /\ log[d] \in Nat
        /\ void' = void /\ void \subseteq Events /\ Events \subseteq Events'
    <2>1. indexed \in Nat /\ void \subseteq Events
      BY DEF TypeInv
    <2>2. void' = void /\ Events \subseteq Events'
      BY PublishGrows
    <2>3. \A d \in Live : log[d] <= indexed
      BY DEF LogInv
    <2> QED  BY <2>1, <2>2, <2>3, LiveEvents
  <1>2. PICK block \in Nat :
          /\ \A i \in 1 .. Len(blocks) : blocks[i] = block
          /\ \/ block = 0 /\ indexed' = indexed
             \/ block > indexed /\ indexed' = block
    BY DEF Published
  <1>3. \A e \in Events' \ Events : log'[e] = block
    BY <1>2, PublishGrows
  <1>4. Live' = Live \cup (Events' \ Events)
    BY <1>1 DEF Live
  <1>5. /\ indexed' \in Nat /\ indexed <= indexed' /\ block <= indexed'
        /\ block # 0 => \A d \in Live : log[d] < block
    BY <1>1, <1>2
  <1> QED  BY <1>3, <1>4, <1>5

(* The log stays as it is said to be, whatever happens.                    *)
LEMMA LogStep ==
    ASSUME TypeInv, LogInv, [Next]_vars
    PROVE  LogInv'
  <1>1. CASE IndexerCommits \/ EpochCloses
    <2>1. PICK blocks : Published(blocks) /\ Publish(blocks)
      BY <1>1, PublicationsAreBlocks
    <2>2. \A e \in Live : e \in Nat /\ log'[e] = log[e] /\ log[e] \in Nat /\ e <= Len(log)
      <3>1. \A e \in Events : log'[e] = log[e]
        BY <2>1, PublishGrows
      <3> QED  BY <3>1, LiveEvents
    <2>3. \A e \in Events' \ Events : e > Len(log) /\ e \in Nat /\ Len(log) \in Nat
      BY <2>1, PublishGrows DEF TypeInv, Events
    <2>4. /\ indexed' \in Nat /\ indexed <= indexed'
          /\ \A e \in Events' \ Events :
               /\ log'[e] \in Nat /\ log'[e] <= indexed'
               /\ log'[e] # 0 => \A d \in Live : log[d] < log'[e]
          /\ \A d, e \in Events' \ Events : log'[d] = log'[e]
          /\ Live' = Live \cup (Events' \ Events)
      BY <2>1, PublishedIsLater
    <2>5. ASSUME NEW i \in Live', NEW j \in Live', i < j, log'[i] # 0, log'[j] # 0
          PROVE  log'[i] <= log'[j]
      <3>1. CASE i \in Live /\ j \in Live
        BY <2>2, <2>5, <3>1 DEF LogInv
      <3>2. CASE i \in Live /\ j \in Events' \ Events
        BY <2>2, <2>4, <2>5, <3>2
      <3>3. CASE i \in Events' \ Events /\ j \in Live
        BY <2>2, <2>3, <2>5, <3>3
      <3>4. CASE i \in Events' \ Events /\ j \in Events' \ Events
        BY <2>4, <3>4
      <3> QED  BY <2>4, <3>1, <3>2, <3>3, <3>4
    <2>6. ASSUME NEW e \in Live' PROVE log'[e] <= indexed'
      <3>1. CASE e \in Live
        <4>1. log[e] <= indexed /\ indexed \in Nat
          BY <3>1 DEF LogInv, TypeInv
        <4> QED  BY <2>2, <2>4, <3>1, <4>1
      <3>2. CASE e \in Events' \ Events
        BY <2>4, <3>2
      <3> QED  BY <2>4, <3>1, <3>2
    <2> QED  BY <2>5, <2>6 DEF LogInv
  <1>2. CASE IndexerRollsBack
    <2>1. PICK n \in 0 .. indexed - 1 : indexed' = n /\ void' = void \cup Above(n) /\ log' = log
      BY <1>2 DEF IndexerRollsBack
    <2>2. Live' = Live \ Above(n)
      BY <2>1 DEF Live, Events
    <2>3. \A e \in Live : log[e] \in Nat
      BY LiveEvents
    <2>4. n \in Int
      BY DEF TypeInv
    <2>5. \A e \in Live' : log'[e] <= indexed'
      BY <2>1, <2>2, <2>3, <2>4 DEF Above
    <2> QED  BY <2>1, <2>2, <2>5 DEF LogInv
  <1>3. CASE UNCHANGED chain
    BY <1>3 DEF chain, LogInv, Live, Events
  <1>4. ASSUME NEW c \in Clients,
               Mount(c) \/ Connect(c) \/ Subscribe(c) \/ Flush(c) \/ Receive(c) \/ Drop(c)
        PROVE  UNCHANGED chain
    BY <1>4 DEF Mount, Connect, Subscribe, Flush, Receive, Drop, stream
  <1>5. CASE RangeRepeats \/ ListenerFails \/ ListenerReconnects \/ Broadcast \/ Restart \/ UNCHANGED vars
    <2>1. UNCHANGED chain
      BY <1>5 DEF RangeRepeats, ListenerFails, ListenerReconnects, Broadcast, Restart, vars, stream
    <2> QED  BY <1>3, <2>1
  <1> QED  BY <1>1, <1>2, <1>3, <1>4, <1>5 DEF Next

(* What is committed follows everything on its way.                        *)
LEMMA PublishOrders ==
    ASSUME TypeInv, StreamInv, NEW blocks, Published(blocks), Publish(blocks)
    PROVE  InWay'
  <1>1. /\ \A e \in Live : e \in Live' /\ e \in Events
        /\ \A e \in Events' \ Events : e > Len(log) /\ e \in Live'
    BY PublishGrows, PublishedIsLater DEF StreamInv, Live
  <1>2. Events = 1 .. Len(log) /\ Len(log) \in Nat /\ Events' = 1 .. Len(log')
        /\ Len(log') \in Nat /\ Len(log') = Len(log) + Len(blocks)
    BY PublishGrows DEF TypeInv, Events
  <1>5. buffer' = buffer /\ DOMAIN buffer = 1 .. Len(buffer)
    BY DEF Publish, TypeInv
  <1>6. /\ feed \in Seq(Number) /\ feed' \in Seq(Number)
        /\ Len(feed) \in Nat /\ Len(blocks) \in Nat
        /\ DOMAIN feed = 1 .. Len(feed) /\ DOMAIN feed' = 1 .. Len(feed')
        /\ \A i \in DOMAIN feed : feed[i] \in Live
        /\ \A i \in DOMAIN buffer : buffer[i] \in Live
    BY PublishGrows DEF TypeInv, StreamInv, InWay, Published
  <1>7. CASE ~listening
    <2>1. feed' = feed
      BY <1>7, PublishGrows
    <2>2. /\ \A i \in DOMAIN feed' : feed'[i] \in Live'
          /\ \A i \in DOMAIN buffer' : buffer'[i] \in Live'
      BY <1>1, <1>5, <1>6, <2>1
    <2>3. Increasing(feed') /\ Increasing(buffer')
      BY <1>5, <2>1 DEF StreamInv, InWay
    <2>4. \A i \in DOMAIN buffer', j \in DOMAIN feed' : buffer'[i] < feed'[j]
      BY <1>5, <2>1 DEF StreamInv, InWay
    <2> QED  BY <2>2, <2>3, <2>4 DEF InWay, Increasing
  <1>8. CASE listening
    <2>1. /\ Len(feed') = Len(feed) + Len(blocks)
          /\ \A i \in 1 .. Len(feed) : feed'[i] = feed[i]
          /\ \A i \in 1 .. Len(blocks) : feed'[Len(feed) + i] = Len(log) + i
      BY <1>8, PublishGrows
    <2>2. ASSUME NEW i \in DOMAIN feed'
          PROVE  \/ i \in DOMAIN feed /\ feed'[i] = feed[i] /\ feed[i] \in Live
                 \/ /\ i \notin DOMAIN feed
                    /\ feed'[i] = Len(log) + (i - Len(feed))
                    /\ i - Len(feed) \in 1 .. Len(blocks)
      <3>1. CASE i \in 1 .. Len(feed)
        BY <1>6, <2>1, <3>1
      <3>2. CASE i \notin 1 .. Len(feed)
        <4>1. i - Len(feed) \in 1 .. Len(blocks) /\ Len(feed) + (i - Len(feed)) = i
          BY <1>6, <2>1, <3>2
        <4> QED  BY <1>6, <2>1, <3>2, <4>1
      <3> QED  BY <3>1, <3>2
    <2>3. ASSUME NEW i \in DOMAIN feed' PROVE feed'[i] \in Live'
      <3>1. CASE i \in DOMAIN feed /\ feed'[i] = feed[i] /\ feed[i] \in Live
        BY <1>1, <3>1
      <3>2. CASE feed'[i] = Len(log) + (i - Len(feed)) /\ i - Len(feed) \in 1 .. Len(blocks)
        <4>1. feed'[i] \in Events' \ Events
          BY <1>2, <1>6, <3>2
        <4> QED  BY <1>1, <4>1
      <3> QED  BY <2>2, <3>1, <3>2
    <2>4. ASSUME NEW i \in DOMAIN feed', NEW j \in DOMAIN feed', i < j PROVE feed'[i] < feed'[j]
      <3>1. CASE j \in DOMAIN feed
        <4>1. i \in DOMAIN feed
          BY <1>6, <2>4, <3>1
        <4> QED  BY <2>2, <2>4, <3>1, <4>1 DEF StreamInv, InWay, Increasing
      <3>2. CASE j \notin DOMAIN feed
        <4>1. \A e \in Live : e \in 1 .. Len(log)
          BY <1>1, <1>2
        <4> QED  BY SMTT(30), <1>2, <1>6, <2>1, <2>2, <2>4, <3>2, <4>1
      <3> QED  BY <3>1, <3>2
    <2>5. ASSUME NEW i \in DOMAIN buffer, NEW j \in DOMAIN feed' PROVE buffer[i] < feed'[j]
      <3>1. buffer[i] \in Events
        BY <1>1, <1>6
      <3>2. CASE j \in DOMAIN feed
        BY <2>2, <3>2 DEF StreamInv, InWay
      <3>3. CASE j \notin DOMAIN feed
        BY <1>2, <1>6, <2>2, <3>1, <3>3
      <3> QED  BY <3>2, <3>3
    <2>6. Increasing(feed)'
      BY <2>4 DEF Increasing
    <2>7. Increasing(buffer)'
      BY <1>5 DEF StreamInv, InWay, Increasing
    <2>8. \A i \in DOMAIN buffer' : buffer'[i] \in Live'
      BY <1>1, <1>5, <1>6
    <2> QED  BY <1>5, <2>3, <2>5, <2>6, <2>7, <2>8 DEF InWay
  <1> QED  BY <1>7, <1>8

(* An event moves from the feed to the ring in its order.                  *)
LEMMA BroadcastOrders ==
    ASSUME TypeInv, StreamInv, Broadcast
    PROVE  InWay'
  <1> DEFINE e == Head(feed)
             ring == AppendBounded(buffer, e)
             rest == Tail(feed)
  <1>1. feed # <<>> /\ feed' = rest /\ buffer' = ring /\ UNCHANGED chain
    BY DEF Broadcast
  <1>2. /\ e \in Number /\ e \in Live /\ Increasing(rest)
        /\ \A j \in DOMAIN rest : e < rest[j] /\ \E i \in DOMAIN feed : rest[j] = feed[i]
        /\ \A i \in DOMAIN buffer : buffer[i] < e
    BY <1>1, HeadOfFeed
  <1>3. /\ Increasing(ring)
        /\ \A i \in DOMAIN ring : ring[i] = e \/ \E j \in DOMAIN buffer : ring[i] = buffer[j]
    BY <1>2, RingMoves DEF StreamInv, InWay
  <1> HIDE DEF e, ring, rest
  <1>4. Live' = Live
    BY <1>1 DEF Live, Events, chain
  <1>5. Increasing(feed)' /\ Increasing(buffer)'
    BY <1>1, <1>2, <1>3 DEF Increasing
  <1>6. (\A i \in DOMAIN feed' : feed'[i] \in Live') /\ (\A i \in DOMAIN buffer' : buffer'[i] \in Live')
    BY <1>1, <1>2, <1>3, <1>4 DEF StreamInv, InWay
  <1>7. \A i \in DOMAIN buffer', j \in DOMAIN feed' : buffer'[i] < feed'[j]
    BY <1>1, <1>2, <1>3 DEF StreamInv, InWay
  <1> QED  BY <1>5, <1>6, <1>7 DEF InWay

(* What a page finds in order when it opens.                               *)
LEMMA OrderlyWay ==
    ASSUME TypeInv, Orderly
    PROVE  InWay
  <1> DEFINE way == buffer \o feed
             n == Len(buffer)
             m == Len(feed)
  <1>1. /\ n \in Nat /\ m \in Nat
        /\ DOMAIN buffer = 1 .. n /\ DOMAIN feed = 1 .. m /\ DOMAIN way = 1 .. n + m
        /\ \A i \in 1 .. n + m : way[i] = IF i <= n THEN buffer[i] ELSE feed[i - n]
    BY DEF TypeInv
  <1>2. /\ ToSet(way) \subseteq Live
        /\ \A i, j \in DOMAIN way : i < j => way[i] < way[j]
    BY DEF Orderly
  <1> HIDE DEF way, n, m
  <1>3. \A i \in 1 .. n : i \in DOMAIN way /\ way[i] = buffer[i] /\ i \in Nat /\ i <= n
    BY <1>1
  <1>4. \A j \in 1 .. m : n + j \in DOMAIN way /\ way[n + j] = feed[j] /\ j \in Nat /\ n + j > n
    BY <1>1
  <1>5. \A i \in DOMAIN way : way[i] \in Live
    BY <1>2 DEF ToSet
  <1>6. (\A i \in DOMAIN buffer : buffer[i] \in Live) /\ (\A j \in DOMAIN feed : feed[j] \in Live)
    BY <1>1, <1>3, <1>4, <1>5
  <1>7. Increasing(buffer)
    BY <1>1, <1>2, <1>3 DEF Increasing
  <1>8. Increasing(feed)
    <2> SUFFICES ASSUME NEW i \in 1 .. m, NEW j \in 1 .. m, i < j PROVE feed[i] < feed[j]
      BY <1>1 DEF Increasing
    <2>1. n + i < n + j
      BY <1>1
    <2> QED  BY <1>2, <1>4, <2>1
  <1>9. ASSUME NEW i \in 1 .. n, NEW j \in 1 .. m PROVE buffer[i] < feed[j]
    <2>1. i < n + j
      BY <1>1
    <2> QED  BY <1>2, <1>3, <1>4, <2>1
  <1> QED  BY <1>1, <1>6, <1>7, <1>8, <1>9 DEF InWay

(* Blocks taken back and ranges repeated expose the pages there are.       *)
LEMMA RewindExposes ==
    ASSUME NEW c \in Clients, Steady(c)'
    PROVE  /\ ~RangeRepeats
           /\ IndexerRollsBack => void' = void
  <1>1. ASSUME c \in Viewers, exposed' = Expose("rewound", Viewers) PROVE FALSE
    BY <1>1 DEF Expose, Steady
  <1>2. ASSUME UNCHANGED client PROVE c \in Viewers
    BY <1>2 DEF Steady, Mounted, client, Viewers
  <1>3. RangeRepeats => UNCHANGED client /\ exposed' = Expose("rewound", Viewers)
    BY DEF RangeRepeats
  <1>4. ASSUME IndexerRollsBack PROVE void' = void
    <2>1. PICK n \in 0 .. indexed - 1 :
             /\ void' = void \cup Above(n)
             /\ exposed' = IF Above(n) = {} THEN exposed ELSE Expose("rewound", Viewers)
      BY <1>4 DEF IndexerRollsBack
    <2>2. UNCHANGED client
      BY <1>4 DEF IndexerRollsBack
    <2> QED  BY <1>1, <1>2, <2>1, <2>2
  <1> QED  BY <1>1, <1>2, <1>3, <1>4

(* As long as a page is steady, nothing else touches the stream, but that  *)
(* it may be lost.                                                         *)
LEMMA StreamStep ==
    ASSUME TypeInv, StreamInv, [Next]_vars, NEW c \in Clients, Steady(c)'
    PROVE  InWay'
  <1>1. CASE IndexerCommits \/ EpochCloses
    BY <1>1, PublicationsAreBlocks, PublishOrders
  <1>2. CASE Broadcast
    BY <1>2, BroadcastOrders
  <1>3. CASE /\ log' = log /\ void' = void
             /\ feed' = feed \/ feed' = <<>>
             /\ buffer' = buffer \/ buffer' = <<>>
    <2>1. Live' = Live
      BY <1>3 DEF Live, Events
    <2>2. /\ Increasing(feed)'
          /\ \A i \in DOMAIN feed' : feed'[i] \in Live' /\ feed'[i] = feed[i] /\ i \in DOMAIN feed
      BY <1>3, <2>1 DEF StreamInv, InWay, Increasing
    <2>3. /\ Increasing(buffer)'
          /\ \A i \in DOMAIN buffer' : buffer'[i] \in Live' /\ buffer'[i] = buffer[i] /\ i \in DOMAIN buffer
      BY <1>3, <2>1 DEF StreamInv, InWay, Increasing
    <2>4. \A i \in DOMAIN buffer', j \in DOMAIN feed' : buffer'[i] < feed'[j]
      BY <2>2, <2>3 DEF StreamInv, InWay
    <2> QED  BY <2>2, <2>3, <2>4 DEF InWay
  <1>4. ASSUME NEW d \in Clients,
               Mount(d) \/ Connect(d) \/ Subscribe(d) \/ Flush(d) \/ Receive(d) \/ Drop(d)
        PROVE  log' = log /\ void' = void /\ feed' = feed /\ buffer' = buffer
    BY <1>4 DEF Mount, Connect, Subscribe, Flush, Receive, Drop, stream, chain
  <1>5. CASE ListenerFails \/ ListenerReconnects \/ Restart \/ UNCHANGED vars
    <2>1. /\ log' = log /\ void' = void
          /\ (feed' = feed \/ feed' = <<>>) /\ (buffer' = buffer \/ buffer' = <<>>)
      BY <1>5 DEF ListenerFails, ListenerReconnects, Restart, vars, stream, chain
    <2> QED  BY <1>3, <2>1
  <1>6. CASE IndexerRollsBack
    BY <1>3, <1>6, RewindExposes DEF IndexerRollsBack
  <1> QED  BY <1>1, <1>2, <1>3, <1>4, <1>5, <1>6, RewindExposes DEF Next

-----------------------------------------------------------------------------
(* One client *)

Stays(c) ==
    UNCHANGED <<session[c], wire[c], asked[c], state[c], lastBlock[c], base[c], received[c]>>
LogKept ==
    \A e \in Events : /\ e \in Events' /\ log'[e] = log[e]
                      /\ e \in void' <=> e \in void
                      /\ e \in foreign' <=> e \in foreign
FeedKept == \A j \in DOMAIN feed' : feed'[j] \in ToSet(feed) \/ \A e \in Events : e < feed'[j]

(* The types of one client's parts.                                        *)
LEMMA ClientTypes ==
    ASSUME TypeInv, NEW c \in Clients
    PROVE  /\ session[c] \in Session /\ session[c].queue \in Seq(Number)
           /\ session[c].open \in BOOLEAN /\ session[c].subscribed \in BOOLEAN
           /\ session[c].degraded \in BOOLEAN
           /\ wire[c] \in Seq(Nat) /\ received[c] \in Seq(Number)
           /\ base[c] \in Nat /\ state[c] \in States
           /\ Events \subseteq Number /\ \A e \in Events : log[e] \in Nat
           /\ Events = 1 .. Len(log) /\ Len(log) \in Nat
  <1>1. session[c] \in Session
    BY DEF TypeInv
  <1>2. /\ wire[c] \in Seq(Nat) /\ received[c] \in Seq(Number)
        /\ base[c] \in Nat /\ state[c] \in States
    BY DEF TypeInv
  <1>3. /\ Events \subseteq Number /\ \A e \in Events : log[e] \in Nat
        /\ Events = 1 .. Len(log) /\ Len(log) \in Nat
    BY DEF TypeInv, Events, Number
  <1> QED  BY <1>1, <1>2, <1>3, SessionShapes

(* What is in the log stays there, and stands or not as before.            *)
LEMMA LiveKept ==
    ASSUME LogKept
    PROVE  /\ \A e \in Live : e \in Live' /\ log'[e] = log[e] /\ e \in Events
           /\ \A e \in Events : e \in Live' => e \in Live
  BY DEF LogKept, Live

(* Where nothing is committed and no page changes, what is missing stays.  *)
LEMMA SameMissing ==
    ASSUME UNCHANGED <<log, foreign, void>>, NEW c, base'[c] = base[c], received'[c] = received[c]
    PROVE  /\ Events' = Events /\ Live' = Live /\ Missing(c)' = Missing(c)
           /\ LogKept
  <1>1. Events' = Events /\ Live' = Live /\ Ours' = Ours
    BY DEF Events, Live, Ours
  <1>2. Seen(c)' = Seen(c)
    BY DEF Seen
  <1> QED  BY <1>1, <1>2 DEF Missing, LogKept

(* A client that is left alone stays linked, and in order.                 *)
LEMMA StaysLinked ==
    ASSUME NEW c \in Clients, Linked(c), Stays(c)
    PROVE  Linked(c)'
  BY DEF Linked, Stays, Mounted

(* A client that stays as it is resumes from the same block.               *)
LEMMA StaysResumes ==
    ASSUME NEW c, Resumes(c), lastBlock'[c] = lastBlock[c], LogKept
    PROVE  Resumes(c)'
  <1> SUFFICES ASSUME lastBlock[c] # None
               PROVE  \E e \in Live' : log'[e] # 0 /\ log'[e] = lastBlock[c]
    BY DEF Resumes
  <1>1. PICK e \in Live : log[e] # 0 /\ log[e] = lastBlock[c]
    BY DEF Resumes
  <1> QED  BY <1>1, LiveKept

(* What has reached it, or is on its way to it, keeps its order.           *)
LEMMA StaysInOrder ==
    ASSUME TypeInv, TypeInv', NEW c \in Clients, InOrder(c), Stays(c), LogKept, FeedKept
    PROVE  InOrder(c)'
  <1> DEFINE q == session[c].queue
  <1>1. session'[c].queue = q /\ wire'[c] = wire[c] /\ received'[c] = received[c]
        /\ lastBlock'[c] = lastBlock[c]
    BY DEF Stays
  <1>2. Committed(received[c]) /\ Committed(wire[c]) /\ Committed(q)
    BY DEF InOrder
  <1>0. \A e \in Live : e \in Live' /\ log'[e] = log[e] /\ e \in Events
    BY LiveKept
  <1>3. \A i \in DOMAIN received[c] : received[c][i] # Error
    BY SMTT(30) DEF TypeInv, Number, Error
  <1> HIDE DEF q
  <1>4. Committed(received[c])' /\ Committed(wire[c])' /\ Committed(session[c].queue)'
    BY <1>0, <1>1, <1>2 DEF Committed
  <1>5. ASSUME NEW s, NEW t, Committed(s), Committed(t), Follow(s, t)
        PROVE  \A i \in DOMAIN s, j \in DOMAIN t :
                 s[i] # Error /\ t[j] # Error =>
                   s[i] # t[j] /\ (log'[s[i]] # 0 /\ log'[t[j]] # 0 => s[i] < t[j])
    BY <1>0, <1>5 DEF Committed, Follow, Precedes
  <1>6. /\ Follow(received[c], wire[c])'
        /\ Follow(received[c], session[c].queue)' /\ Follow(wire[c], session[c].queue)'
    <2>1. Follow(received[c], wire[c]) /\ Follow(received[c], q) /\ Follow(wire[c], q)
      BY DEF InOrder, q
    <2> QED  BY <1>1, <1>2, <1>5, <2>1 DEF Follow, Precedes
  <1>7. ASSUME NEW s, Committed(s), Ordered(s)
        PROVE  \A i, j \in DOMAIN s :
                 i < j /\ s[i] # Error /\ s[j] # Error =>
                   s[i] # s[j] /\ (log'[s[i]] # 0 /\ log'[s[j]] # 0 => s[i] < s[j])
    BY <1>0, <1>7 DEF Committed, Ordered, Precedes
  <1>8. Ordered(received[c])' /\ Ordered(wire[c])' /\ Ordered(session[c].queue)'
    <2>1. Ordered(received[c]) /\ Ordered(wire[c]) /\ Ordered(q)
      BY DEF InOrder, q
    <2> QED  BY <1>1, <1>2, <1>7, <2>1 DEF Ordered, Precedes
  <1>9. ASSUME NEW s, Committed(s), Announced(s)
        PROVE  \A i \in DOMAIN s, j \in DOMAIN feed' : s[i] < feed'[j] \/ s[i] = Error
    BY <1>0, <1>9 DEF Committed, Announced, FeedKept, ToSet
  <1>10. \A j \in DOMAIN feed' : Error < feed'[j]
    <2>1. feed' \in Seq(Number)
      BY DEF TypeInv
    <2>2. \A j \in DOMAIN feed' : feed'[j] \in Number
      BY <2>1
    <2> QED  BY <2>2 DEF Number, Error
  <1>11. Announced(received[c])' /\ Announced(wire[c])' /\ Announced(session[c].queue)'
    <2>1. Announced(received[c]) /\ Announced(wire[c]) /\ Announced(q)
      BY DEF InOrder, q
    <2> QED  BY <1>1, <1>2, <1>9, <1>10, <2>1 DEF Announced
  <1>12. \A i \in DOMAIN received'[c] :
           log'[received'[c][i]] <= lastBlock'[c] \/ log'[received'[c][i]] = 0
    BY <1>0, <1>1, <1>2, <1>3 DEF InOrder, Committed
  <1> QED
    BY <1>4, <1>6, <1>8, <1>11, <1>12 DEF InOrder

(* What exposes clients, exposes them for good.                            *)
LEMMA ExposeOnly ==
    ASSUME NEW c \in Clients, NEW why, NEW clients, exposed' = Expose(why, clients)
    PROVE  exposed'[c] = {} => exposed[c] = {} /\ c \notin clients
  BY DEF Expose

(* A loss that was named stays named.                                      *)
LEMMA ExposedForGood ==
    ASSUME [Next]_vars, NEW c \in Clients
    PROVE  exposed[c] \subseteq exposed'[c]
  <1>1. ASSUME NEW why, NEW clients, exposed' = Expose(why, clients)
        PROVE  exposed[c] \subseteq exposed'[c]
    BY <1>1 DEF Expose
  <1>2. CASE exposed' = exposed
    BY <1>2
  <1>3. CASE IndexerCommits \/ EpochCloses \/ IndexerRollsBack \/ RangeRepeats
    BY <1>1, <1>2, <1>3 DEF IndexerCommits, EpochCloses, Publish, IndexerRollsBack, RangeRepeats
  <1>4. CASE ListenerFails \/ ListenerReconnects \/ Broadcast \/ Restart \/ UNCHANGED vars
    BY <1>1, <1>2, <1>4 DEF ListenerFails, ListenerReconnects, Broadcast, Restart, vars
  <1>5. ASSUME NEW d \in Clients,
               Mount(d) \/ Connect(d) \/ Subscribe(d) \/ Flush(d) \/ Receive(d) \/ Drop(d)
        PROVE  exposed[c] \subseteq exposed'[c]
    BY <1>1, <1>2, <1>5 DEF Mount, Connect, Subscribe, Flush, Receive, Drop
  <1> QED  BY <1>3, <1>4, <1>5 DEF Next

(* It has no hole either when ring and feed stay as they are.              *)
LEMMA StaysWithoutHole ==
    ASSUME NEW c \in Clients, NoHole(c), Stays(c), UNCHANGED <<log, foreign, void, feed, buffer>>,
           exposed'[c] = {} => exposed[c] = {}
    PROVE  NoHole(c)'
  <1>1. (Mounted(c)' <=> Mounted(c)) /\ Events' = Events /\ Missing(c)' = Missing(c)
    BY SameMissing DEF Stays, Mounted
  <1>2. (Known(c)' <=> Known(c)) /\ (Halfway(c)' <=> Halfway(c)) /\ (Warned(c)' <=> Warned(c))
        /\ (UnderWay(c)' <=> UnderWay(c))
    BY <1>1 DEF Stays, Known, Halfway, Warned, UnderWay
  <1> QED  BY <1>1, <1>2 DEF NoHole, Stays

(* So nothing of the invariant changes for it.                             *)
LEMMA ClientStays ==
    ASSUME TypeInv, TypeInv', NEW c \in Clients, ClientInv(c), Stays(c),
           UNCHANGED <<log, foreign, void, feed, buffer>>, exposed'[c] = {} => exposed[c] = {}
    PROVE  ClientInv(c)'
  <1>1. LogKept /\ FeedKept
    BY DEF LogKept, FeedKept, Events, ToSet
  <1>2. lastBlock'[c] = lastBlock[c]
    BY DEF Stays
  <1> QED  BY <1>1, <1>2, StaysResumes, StaysInOrder, StaysWithoutHole DEF ClientInv

-----------------------------------------------------------------------------
(* Publishing, losing and broadcasting notifications *)

(* What is committed while the gateway listens is in the feed.             *)
LEMMA PublishedFeed ==
    ASSUME TypeInv, NEW blocks, Published(blocks), Publish(blocks)
    PROVE  /\ FeedKept
           /\ ToSet(feed) \subseteq ToSet(feed')
           /\ listening => Events' \ Events \subseteq ToSet(feed')
  <1> DEFINE n == Len(feed)
             m == Len(log)
             k == Len(blocks)
  <1>1. n \in Nat /\ m \in Nat /\ k \in Nat /\ feed \in Seq(Number) /\ log \in Seq(Nat)
    BY DEF TypeInv, Published
  <1>2. Events = 1 .. m /\ Events' = 1 .. Len(log') /\ Len(log') = m + k
    BY PublishGrows DEF Events
  <1>3. feed' \in Seq(Number) /\ DOMAIN feed' = 1 .. Len(feed') /\ DOMAIN feed = 1 .. n
    BY <1>1, PublishGrows
  <1>4. CASE ~listening
    <2>1. feed' = feed
      BY <1>4, PublishGrows
    <2> QED  BY <1>4, <2>1 DEF FeedKept, ToSet
  <1>5. CASE listening
    <2>1. /\ Len(feed') = n + k
          /\ \A i \in 1 .. n : feed'[i] = feed[i]
          /\ \A i \in 1 .. k : feed'[n + i] = m + i
      BY <1>5, PublishGrows
    <2> HIDE DEF n, m, k
    <2>2. ASSUME NEW i \in DOMAIN feed, NEW x, feed[i] = x PROVE x \in ToSet(feed')
      <3>1. i \in DOMAIN feed' /\ feed'[i] = x
        BY <1>1, <1>3, <2>1, <2>2
      <3> QED  BY <3>1 DEF ToSet
    <2>3. ASSUME NEW e \in Events' \ Events PROVE e \in ToSet(feed')
      <3>1. e \in Nat /\ e - m \in 1 .. k /\ m + (e - m) = e
        BY <1>1, <1>2
      <3>2. n + (e - m) \in DOMAIN feed'
        BY <1>1, <1>3, <2>1, <3>1
      <3>3. feed'[n + (e - m)] = e
        BY <2>1, <3>1
      <3> QED  BY <3>2, <3>3 DEF ToSet
    <2>4. ASSUME NEW j \in DOMAIN feed'
          PROVE  feed'[j] \in ToSet(feed) \/ \A e \in Events : e < feed'[j]
      <3>1. CASE j \in 1 .. n
        BY <1>3, <2>1, <3>1 DEF ToSet
      <3>2. CASE j \notin 1 .. n
        <4>1. j \in Nat /\ j - n \in 1 .. k /\ n + (j - n) = j
          BY <1>1, <1>3, <2>1, <3>2
        <4>2. feed'[j] = m + (j - n)
          BY <2>1, <4>1
        <4> QED  BY <1>1, <1>2, <4>1, <4>2
      <3> QED  BY <3>1, <3>2
    <2> QED  BY <1>5, <2>2, <2>3, <2>4 DEF FeedKept, ToSet
  <1> QED  BY <1>4, <1>5

(* A commit leaves every client what it had, and more on its way.          *)
LEMMA ClientPublish ==
    ASSUME TypeInv, TypeInv', NEW c \in Clients, ClientInv(c),
           NEW blocks, Published(blocks), Publish(blocks)
    PROVE  ClientInv(c)'
  <1>1. Stays(c) /\ buffer' = buffer /\ listening' = listening
    BY DEF Publish, Stays, client
  <1>2. LogKept /\ \A e \in Events' \ Events : e > Len(log)
    BY PublishGrows DEF LogKept
  <1>3. \A e \in Live : e \in Live' /\ log'[e] = log[e] /\ e \in Events
    BY <1>2, LiveKept
  <1>5. FeedKept
    BY PublishedFeed
  <1>6. ToSet(feed) \subseteq ToSet(feed')
    BY PublishedFeed
  <1>7. listening => Events' \ Events \subseteq ToSet(feed')
    BY PublishedFeed
  <1>8. NoHole(c)'
    <2> SUFFICES ASSUME Mounted(c)', exposed'[c] = {}
                 PROVE  /\ Known(c)'
                        /\ ~session'[c].subscribed => ~Halfway(c)'
                        /\ session'[c].subscribed /\ state'[c] = "open" /\ ~Warned(c)' => UnderWay(c)'
      BY DEF NoHole
    <2>1. Mounted(c) /\ c \in Viewers
      BY <1>1 DEF Mounted, Stays, Viewers
    <2>2. listening /\ exposed[c] = {}
      BY <2>1, ExposeOnly DEF Publish
    <2>3. \A e \in Missing(c)' : e \in Missing(c) \/ e \in Events' \ Events
      <3> SUFFICES ASSUME NEW e \in Missing(c)', e \in Events PROVE e \in Missing(c)
        BY DEF Missing, Live
      <3>1. e \in Live' /\ e \notin foreign' /\ e \notin Seen(c)'
        BY DEF Missing, Ours
      <3>2. e \in Live /\ e \notin foreign
        BY <1>2, <3>1 DEF LogKept, Live
      <3>3. Seen(c)' = Seen(c)
        BY <1>1 DEF Seen, Stays
      <3> QED  BY <3>1, <3>2, <3>3 DEF Missing, Ours
    <2>4. Known(c)'
      BY <1>1, <1>2, <1>6, <1>7, <2>1, <2>2 DEF ClientInv, NoHole, Known, Stays
    <2>5. ASSUME ~session'[c].subscribed PROVE ~Halfway(c)'
      <3>1. ~Halfway(c)
        BY <1>1, <2>1, <2>2, <2>5 DEF ClientInv, NoHole, Stays
      <3>2. ASSUME NEW e \in Missing(c)', e \notin ToSet(feed') PROVE ~(log'[e] <= lastBlock'[c])
        <4>1. e \in Missing(c) /\ e \notin ToSet(feed)
          BY <1>6, <1>7, <2>2, <2>3, <3>2
        <4>2. e \in Live
          BY <4>1 DEF Missing
        <4> QED  BY <1>1, <1>3, <3>1, <4>1, <4>2 DEF Halfway, Stays
      <3> QED  BY <3>2 DEF Halfway
    <2>6. ASSUME session'[c].subscribed, state'[c] = "open", ~Warned(c)' PROVE UnderWay(c)'
      <3>1. UnderWay(c)
        BY <1>1, <2>1, <2>2, <2>6 DEF ClientInv, NoHole, Stays, Warned
      <3>2. ASSUME NEW e \in Missing(c)'
            PROVE  e \in ToSet(wire'[c]) \/ e \in ToSet(session'[c].queue) \/ e \in ToSet(feed')
        BY <1>1, <1>6, <1>7, <2>2, <2>3, <3>1 DEF UnderWay, Stays
      <3> QED  BY <3>2 DEF UnderWay
    <2> QED  BY <2>4, <2>5, <2>6
  <1>9. lastBlock'[c] = lastBlock[c]
    BY <1>1 DEF Stays
  <1> QED  BY <1>1, <1>2, <1>5, <1>8, <1>9, StaysResumes, StaysInOrder DEF ClientInv

(* A listener that fails loses nothing, or the loss is named.              *)
LEMMA ClientListenerFails ==
    ASSUME TypeInv, TypeInv', NEW c \in Clients, ClientInv(c), ListenerFails
    PROVE  ClientInv(c)'
  <1>1. Stays(c) /\ UNCHANGED <<log, foreign, void, buffer>> /\ feed' = <<>>
    BY DEF ListenerFails, Stays, client, chain
  <1>2. LogKept /\ FeedKept /\ lastBlock'[c] = lastBlock[c]
    BY <1>1 DEF LogKept, FeedKept, Events, Stays
  <1>3. NoHole(c)'
    <2>1. CASE feed = <<>>
      <3>1. UNCHANGED <<log, foreign, void, feed, buffer>> /\ exposed' = exposed
        BY <1>1, <2>1 DEF ListenerFails
      <3> QED  BY <1>1, <3>1, StaysWithoutHole DEF ClientInv
    <2>2. CASE feed # <<>>
      <3>1. Mounted(c)' => exposed'[c] # {}
        BY <1>1, <2>2, ExposeOnly DEF ListenerFails, Viewers, Mounted, Stays
      <3> QED  BY <3>1 DEF NoHole
    <2> QED  BY <2>1, <2>2
  <1> QED  BY <1>1, <1>2, <1>3, StaysResumes, StaysInOrder DEF ClientInv

(* A broadcast queues an event, or drops it with a warning, or names it passed. *)
LEMMA ClientBroadcast ==
    ASSUME TypeInv, TypeInv', StreamInv, NEW c \in Clients, ClientInv(c), Broadcast
    PROVE  ClientInv(c)'
  <1> DEFINE e    == Head(feed)
             ring == AppendBounded(buffer, e)
             rest == Tail(feed)
             s    == session[c]
             t    == session'[c]
  <1>1. /\ feed # <<>> /\ feed' = rest /\ buffer' = ring
        /\ t = IF e \in Ours THEN Enqueued(s, e) ELSE s
        /\ UNCHANGED <<log, foreign, void, wire, asked, state, lastBlock, base, received>>
        /\ exposed' = Expose("passed", {d \in Viewers : ~session[d].subscribed /\ Passed(d, e)})
    BY DEF Broadcast, client, chain
  <1>2. /\ e \in Number /\ e \in Live /\ e \in ToSet(feed)
        /\ \A j \in DOMAIN rest : e < rest[j] /\ \E i \in DOMAIN feed : rest[j] = feed[i]
        /\ \A x \in ToSet(feed) : x = e \/ x \in ToSet(rest)
        /\ \A i \in DOMAIN buffer : buffer[i] < e
    BY <1>1, HeadOfFeed
  <1>3. /\ ring # <<>>
        /\ buffer # <<>> => Head(buffer) <= Head(ring)
        /\ \A j \in DOMAIN buffer : buffer[j] \in ToSet(ring) \/ buffer[j] < Head(ring)
        /\ e \in ToSet(ring)
    BY <1>2, RingMoves DEF StreamInv, InWay
  <1>4. /\ t.open = s.open /\ t.subscribed = s.subscribed
        /\ ~s.subscribed => t = s
        /\ e \notin Ours => t = s
        /\ e \in Ours /\ s.subscribed /\ Len(s.queue) >= MaxQueue => t.degraded /\ t.queue = s.queue
        /\ e \in Ours /\ s.subscribed /\ ~(Len(s.queue) >= MaxQueue) =>
             t.degraded = s.degraded /\ t.queue = Append(s.queue, e)
    <2> DEFINE u == Enqueued(s, e)
    <2>1. s \in Session
      BY ClientTypes
    <2> HIDE DEF e, s
    <2>2. /\ u.open = s.open /\ u.subscribed = s.subscribed
          /\ ~s.subscribed => u = s
          /\ s.subscribed /\ Len(s.queue) >= MaxQueue => u.degraded /\ u.queue = s.queue
          /\ s.subscribed /\ ~(Len(s.queue) >= MaxQueue) =>
               u.degraded = s.degraded /\ u.queue = Append(s.queue, e)
      BY <1>2, <2>1, EnqueuedFields
    <2> HIDE DEF u, t
    <2>3. CASE e \in Ours
      <3>1. t = u
        BY <1>1, <2>3 DEF u
      <3> QED  BY <2>2, <2>3, <3>1
    <2>4. CASE e \notin Ours
      <3>1. t = s
        BY <1>1, <2>4
      <3> QED  BY <2>4, <3>1
    <2> QED  BY <2>3, <2>4
  <1>5. /\ s \in Session /\ s.queue \in Seq(Number) /\ s.subscribed \in BOOLEAN
        /\ wire[c] \in Seq(Nat) /\ received[c] \in Seq(Number)
        /\ Events \subseteq Number /\ Events' = Events /\ Live' = Live /\ Missing(c)' = Missing(c)
        /\ LogKept
    BY <1>1, ClientTypes, SameMissing
  <1> HIDE DEF e, ring, rest, s, t
  <1>7. t.queue = s.queue \/ t.queue = Append(s.queue, e)
    BY <1>4, <1>5
  <1>8. InOrder(c)'
    <2> DEFINE q == s.queue
               r == t.queue
    <2>1. /\ Committed(received[c]) /\ Committed(wire[c]) /\ Committed(q)
          /\ Announced(received[c]) /\ Announced(wire[c]) /\ Announced(q)
          /\ Ordered(received[c]) /\ Ordered(wire[c]) /\ Ordered(q)
          /\ Follow(received[c], wire[c]) /\ Follow(received[c], q) /\ Follow(wire[c], q)
      BY DEF ClientInv, InOrder, s
    <2>2. \E k \in DOMAIN feed : feed[k] = e
      BY <1>2 DEF ToSet
    <2>3. /\ \A i \in DOMAIN received[c] : received[c][i] < e
          /\ \A i \in DOMAIN wire[c] : wire[c][i] < e
          /\ \A i \in DOMAIN q : q[i] < e
      BY <2>1, <2>2 DEF Announced
    <2>4. /\ Announced(received[c])' /\ Announced(wire[c])'
          /\ \A i \in DOMAIN q, j \in DOMAIN rest : q[i] < rest[j]
      BY <1>1, <1>2, <2>1 DEF Announced
    <2>5. q \in Seq(Number) /\ e \in Number
          /\ \A i \in DOMAIN q : q[i] \in Number
      BY <1>2, <1>5
    <2>6. (\A i \in DOMAIN received[c] : received[c][i] \in Nat)
          /\ \A i \in DOMAIN wire[c] : wire[c][i] \in Nat
      BY <1>5 DEF Number
    <2> HIDE DEF q, r
    <2>7. ASSUME NEW i \in DOMAIN r
          PROVE  \/ i \in DOMAIN q /\ r[i] = q[i]
                 \/ r[i] = e /\ \A j \in DOMAIN r : j < i => j \in DOMAIN q /\ r[j] = q[j]
      <3>1. CASE r = q
        BY <3>1
      <3>2. CASE r = Append(q, e)
        <4>1. /\ Len(q) \in Nat /\ DOMAIN q = 1 .. Len(q) /\ DOMAIN r = 1 .. Len(q) + 1
              /\ r[Len(q) + 1] = e /\ \A j \in 1 .. Len(q) : r[j] = q[j]
          BY <2>5, <3>2
        <4> QED  BY <4>1
      <3> QED  BY <1>7, <3>1, <3>2 DEF q, r
    <2>8. ASSUME NEW a, NEW b, a \in Nat, b \in Nat, a < b PROVE Precedes(a, b)
      BY <2>8 DEF Precedes
    <2>9. /\ \A i \in DOMAIN received[c] : Precedes(received[c][i], e)
          /\ \A i \in DOMAIN wire[c] : Precedes(wire[c][i], e)
          /\ \A i \in DOMAIN q : Precedes(q[i], e)
      BY <2>3, <2>5, <2>6, <2>8 DEF Number
    <2>10. Committed(r)
      BY <1>2, <2>1, <2>7 DEF Committed
    <2>11. \A i \in DOMAIN r, j \in DOMAIN rest : r[i] < rest[j]
      BY <1>2, <2>4, <2>7
    <2>12. Ordered(r)
      <3> SUFFICES ASSUME NEW i \in DOMAIN r, NEW j \in DOMAIN r, i < j PROVE Precedes(r[i], r[j])
        BY DEF Ordered
      <3>1. CASE j \in DOMAIN q /\ r[j] = q[j]
        <4>1. i \in DOMAIN q /\ r[i] = q[i]
          <5>1. DOMAIN q = 1 .. Len(q) /\ Len(q) \in Nat /\ DOMAIN r \subseteq Nat \ {0}
            <6>1. CASE r = q
              BY <2>5, <6>1
            <6>2. CASE r = Append(q, e)
              BY <2>5, <6>2
            <6> QED  BY <1>7, <6>1, <6>2 DEF q, r
          <5>2. i \in DOMAIN q
            BY <3>1, <5>1
          <5>3. CASE r = q
            BY <5>2, <5>3
          <5>4. CASE r = Append(q, e)
            BY <2>5, <5>1, <5>2, <5>4
          <5> QED  BY <1>7, <5>2, <5>3, <5>4 DEF q, r
        <4>2. q[i] # Error /\ q[j] # Error
          BY <2>5, <3>1, <4>1 DEF Number, Error
        <4> QED  BY <2>1, <3>1, <4>1, <4>2 DEF Ordered
      <3>2. CASE r[j] = e /\ i \in DOMAIN q /\ r[i] = q[i]
        BY <2>9, <3>2
      <3> QED  BY <2>7, <3>1, <3>2
    <2>13. Follow(received[c], r) /\ Follow(wire[c], r)
      BY <2>1, <2>7, <2>9 DEF Follow
    <2>14. session'[c].queue = r
      BY DEF r, t
    <2>15. /\ Committed(received[c])' /\ Committed(wire[c])' /\ Committed(session[c].queue)'
           /\ Ordered(received[c])' /\ Ordered(wire[c])' /\ Ordered(session[c].queue)'
           /\ Follow(received[c], wire[c])' /\ Follow(received[c], session[c].queue)'
           /\ Follow(wire[c], session[c].queue)'
      BY <1>1, <1>5, <2>1, <2>10, <2>12, <2>13, <2>14 DEF Committed, Ordered, Follow, Precedes
    <2>16. Announced(session[c].queue)'
      BY <1>1, <2>11, <2>14 DEF Announced
    <2>17. \A i \in DOMAIN received'[c] :
             log'[received'[c][i]] <= lastBlock'[c] \/ log'[received'[c][i]] = 0
      BY <1>1 DEF ClientInv, InOrder
    <2> QED  BY <2>4, <2>15, <2>16, <2>17 DEF InOrder
  <1>9. NoHole(c)'
    <2> SUFFICES ASSUME Mounted(c)', exposed'[c] = {}
                 PROVE  /\ Known(c)'
                        /\ ~session'[c].subscribed => ~Halfway(c)'
                        /\ session'[c].subscribed /\ state'[c] = "open" /\ ~Warned(c)' => UnderWay(c)'
      BY DEF NoHole
    <2>1. /\ Mounted(c) /\ exposed[c] = {}
          /\ c \notin {d \in Viewers : ~session[d].subscribed /\ Passed(d, e)}
      BY <1>1, ExposeOnly DEF Mounted
    <2>2. Missing(c)' = Missing(c)
      BY <1>5
    <2>3. ASSUME NEW x \in Events, x > base[c]
          PROVE  x \in ToSet(rest) \/ x \in ToSet(ring) \/ (ring # <<>> /\ x < Head(ring))
      <3>1. \/ x \in ToSet(feed) \/ x \in ToSet(buffer)
            \/ buffer # <<>> /\ x < Head(buffer)
        BY <2>1, <2>3 DEF ClientInv, NoHole, Known
      <3>2. CASE x \in ToSet(feed)
        BY <1>2, <1>3, <3>2
      <3>3. CASE x \in ToSet(buffer)
        BY <1>3, <3>3 DEF ToSet
      <3>4. CASE buffer # <<>> /\ x < Head(buffer)
        <4>1. Head(buffer) \in Nat /\ Head(ring) \in Nat /\ x \in Nat
          <5>1. buffer \in Seq(Number) /\ ring \in Seq(Number)
            BY <1>1 DEF TypeInv
          <5> QED  BY <1>3, <1>5, <3>4, <5>1 DEF Number
        <4> QED  BY <1>3, <3>4, <4>1
      <3> QED  BY <3>1, <3>2, <3>3, <3>4
    <2>4. Known(c)'
      BY <1>1, <1>5, <2>3 DEF Known
    <2>5. ASSUME ~session'[c].subscribed PROVE ~Halfway(c)'
      <3>1. ~session[c].subscribed
        BY <1>4, <2>5 DEF s, t
      <3>2. ~Halfway(c) /\ ~Passed(c, e)
        BY <2>1, <3>1 DEF ClientInv, NoHole, Viewers
      <3>3. ASSUME NEW x \in Missing(c), x \notin ToSet(rest) PROVE ~(log[x] <= lastBlock[c])
        <4>1. CASE x = e
          BY <3>2, <3>3, <4>1 DEF Passed
        <4>2. CASE x # e
          <5>1. x \notin ToSet(feed)
            BY <1>2, <3>3, <4>2
          <5> QED  BY <3>2, <3>3, <5>1 DEF Halfway
        <4> QED  BY <4>1, <4>2
      <3> QED  BY <1>1, <2>2, <3>3 DEF Halfway
    <2>6. ASSUME session'[c].subscribed, state'[c] = "open", ~Warned(c)' PROVE UnderWay(c)'
      <3>1. s.subscribed /\ ~t.degraded /\ Error \notin ToSet(wire[c])
        BY <1>1, <1>4, <2>6 DEF Warned, t
      <3>2. t.degraded = s.degraded /\ (e \in Ours => t.queue = Append(s.queue, e))
            /\ (e \notin Ours => t.queue = s.queue)
        BY <1>4, <3>1
      <3>3. UnderWay(c)
        BY <1>1, <2>1, <2>6, <3>1, <3>2 DEF ClientInv, NoHole, Warned, s
      <3>4. (e \in Ours => e \in ToSet(t.queue)) /\ ToSet(s.queue) \subseteq ToSet(t.queue)
        <4>1. CASE e \in Ours
          <5> DEFINE n == Len(s.queue)
          <5>1. /\ n \in Nat /\ DOMAIN s.queue = 1 .. n
                /\ DOMAIN t.queue = 1 .. n + 1 /\ t.queue[n + 1] = e
                /\ \A j \in 1 .. n : t.queue[j] = s.queue[j]
            BY <1>2, <1>5, <3>2, <4>1
          <5> HIDE DEF n
          <5>2. \A j \in DOMAIN s.queue : j \in DOMAIN t.queue /\ t.queue[j] = s.queue[j]
            BY <5>1
          <5>3. n + 1 \in DOMAIN t.queue
            BY <5>1
          <5> QED  BY <5>1, <5>2, <5>3 DEF ToSet
        <4>2. CASE e \notin Ours
          BY <3>2, <4>2
        <4> QED  BY <4>1, <4>2
      <3>5. ASSUME NEW x \in Missing(c)
            PROVE  x \in ToSet(wire[c]) \/ x \in ToSet(t.queue) \/ x \in ToSet(rest)
        <4>1. x \in Ours
          BY DEF Missing
        <4> QED  BY <1>2, <3>3, <3>4, <4>1 DEF UnderWay, s
      <3> QED  BY <1>1, <2>2, <3>5 DEF UnderWay, t
    <2> QED  BY <2>4, <2>5, <2>6
  <1> QED  BY <1>1, <1>5, <1>8, <1>9, StaysResumes DEF ClientInv

-----------------------------------------------------------------------------
(* Pages, sockets and the gateway's restarts *)

(* Nothing sent or queued is in order with anything.                       *)
LEMMA EmptyInOrder ==
    /\ Committed(<<>>) /\ Announced(<<>>) /\ Ordered(<<>>)
    /\ \A s : Follow(s, <<>>) /\ Follow(<<>>, s)
  BY DEF Committed, Announced, Ordered, Follow

(* A page that opens has received nothing.                                 *)
LEMMA ClientMounts ==
    ASSUME TypeInv, TypeInv', NEW c \in Clients, Linked(c), Mount(c)
    PROVE  ClientInv(c)'
  <1>1. /\ UNCHANGED <<log, foreign, void, session, wire, received, lastBlock>>
        /\ state[c] = "unmounted" /\ base'[c] = Len(log)
    BY DEF Mount, stream, chain, TypeInv
  <1>2. /\ ~session[c].subscribed /\ received[c] = <<>> /\ wire[c] = <<>>
        /\ session[c].queue = <<>> /\ lastBlock[c] = None
    BY <1>1 DEF Linked, Mounted
  <1>3. Events' = Events
    BY <1>1 DEF Events
  <1>4. Resumes(c)'
    BY <1>1, <1>2 DEF Resumes
  <1>5. InOrder(c)'
    BY <1>1, <1>2 DEF InOrder, Committed, Announced, Ordered, Follow
  <1>6. Known(c)' /\ ~Halfway(c)'
    <2>1. ASSUME NEW e \in Events PROVE ~(e > base'[c]) /\ e \in 1 .. base'[c]
      BY <1>1, ClientTypes DEF Events
    <2> QED  BY <1>3, <2>1 DEF Known, Halfway, Missing, Seen, Live
  <1>7. NoHole(c)'
    BY <1>1, <1>2, <1>6 DEF NoHole
  <1> QED  BY <1>4, <1>5, <1>7 DEF ClientInv

(* A new connection resumes from the last block the client saw.            *)
LEMMA ClientConnects ==
    ASSUME TypeInv, TypeInv', NEW c \in Clients, Linked(c), ClientInv(c), Connect(c)
    PROVE  ClientInv(c)'
  <1>1. /\ UNCHANGED <<log, foreign, void, feed, buffer, wire, lastBlock, base, received>>
        /\ Mounted(c) /\ Mounted(c)'
    BY DEF Connect, stream, chain, Mounted, TypeInv
  <1>2. /\ ~session[c].subscribed /\ wire[c] = <<>> /\ session[c].queue = <<>>
        /\ session'[c].queue = <<>> /\ ~session'[c].subscribed
    BY SessionShapes DEF Linked, Connect, TypeInv
  <1>3. Events' = Events /\ Live' = Live /\ Missing(c)' = Missing(c) /\ LogKept
    BY <1>1, SameMissing
  <1>4. exposed'[c] = {} => exposed[c] = {}
    BY ExposeOnly DEF Connect
  <1>6. InOrder(c)'
    BY <1>1, <1>2, <1>3 DEF ClientInv, InOrder, Committed, Announced, Ordered, Follow, Precedes
  <1>7. NoHole(c)'
    <2>1. (Known(c)' <=> Known(c)) /\ (Halfway(c)' <=> Halfway(c))
      BY <1>1, <1>3 DEF Known, Halfway
    <2> QED  BY <1>1, <1>2, <1>4, <2>1 DEF ClientInv, NoHole
  <1> QED  BY <1>1, <1>3, <1>6, <1>7, StaysResumes DEF ClientInv

(* A broken connection leaves a client in order.                           *)
LEMMA ClientBreaks ==
    ASSUME TypeInv, TypeInv', NEW c \in Clients, ClientInv(c),
           NEW clients \in SUBSET Clients, Break(clients), c \in clients,
           UNCHANGED <<log, foreign, void>>, feed' = feed \/ feed' = <<>>
    PROVE  Resumes(c)' /\ InOrder(c)'
  <1>1. /\ session'[c] = NoSession /\ wire'[c] = <<>>
        /\ UNCHANGED <<lastBlock, base, received>>
    BY DEF Break
  <1>2. Events' = Events /\ Live' = Live /\ LogKept
    BY <1>1, SameMissing
  <1>3. Resumes(c)'
    BY <1>1, <1>2, StaysResumes DEF ClientInv
  <1>4. session'[c].queue = <<>>
    BY <1>1, SessionShapes
  <1>5. /\ Committed(received[c])' /\ Announced(received[c])' /\ Ordered(received[c])'
        /\ \A i \in DOMAIN received'[c] :
             log'[received'[c][i]] <= lastBlock'[c] \/ log'[received'[c][i]] = 0
    BY <1>1, <1>2 DEF ClientInv, InOrder, Committed, Announced, Ordered, Precedes
  <1>6. /\ Committed(wire[c])' /\ Committed(session[c].queue)'
        /\ Announced(wire[c])' /\ Announced(session[c].queue)'
        /\ Ordered(wire[c])' /\ Ordered(session[c].queue)'
        /\ Follow(received[c], wire[c])' /\ Follow(received[c], session[c].queue)'
        /\ Follow(wire[c], session[c].queue)'
    BY <1>1, <1>4 DEF Committed, Announced, Ordered, Follow
  <1>7. InOrder(c)'
    BY <1>5, <1>6 DEF InOrder
  <1> QED  BY <1>3, <1>7

(* A broken socket loses nothing a replay will not bring, or it is named.  *)
LEMMA ClientDrops ==
    ASSUME TypeInv, TypeInv', NEW c \in Clients, ClientInv(c), Drop(c)
    PROVE  ClientInv(c)'
  <1>1. UNCHANGED <<log, foreign, void, feed, buffer>> /\ Break({c}) /\ {c} \in SUBSET Clients
    BY DEF Drop, stream, chain
  <1>2. Resumes(c)' /\ InOrder(c)'
    BY <1>1, ClientBreaks
  <1>3. UNCHANGED <<lastBlock, base, received>> /\ session'[c] = NoSession
        /\ (Mounted(c)' => Mounted(c))
    BY <1>1 DEF Break, Mounted
  <1>4. (Known(c)' <=> Known(c)) /\ (Halfway(c)' <=> Halfway(c))
    <2>1. Events' = Events /\ Missing(c)' = Missing(c)
      BY <1>1, <1>3, SameMissing
    <2> QED  BY <1>1, <1>3, <2>1 DEF Known, Halfway
  <1>5. exposed'[c] = {} => exposed[c] = {} /\ ~Halfway(c)
    BY ExposeOnly DEF Drop
  <1>6. NoHole(c)'
    BY <1>3, <1>4, <1>5, SessionShapes DEF ClientInv, NoHole
  <1> QED  BY <1>2, <1>6 DEF ClientInv

(* A restart of the gateway names every page that was mounted.             *)
LEMMA ClientRestarts ==
    ASSUME TypeInv, TypeInv', NEW c \in Clients, ClientInv(c), Restart
    PROVE  ClientInv(c)'
  <1> DEFINE clients == {d \in Clients : session[d].open}
  <1>1. UNCHANGED <<log, foreign, void>> /\ feed' = <<>> /\ Break(clients) /\ clients \in SUBSET Clients
    BY DEF Restart, chain
  <1>2. Mounted(c)' => exposed'[c] # {}
    <2>1. Mounted(c)' => c \in Viewers
      BY <1>1 DEF Break, Mounted, Viewers
    <2> QED  BY <2>1, ExposeOnly DEF Restart
  <1>3. CASE c \in clients
    <2>1. Resumes(c)' /\ InOrder(c)'
      BY <1>1, <1>3, ClientBreaks
    <2> QED  BY <1>2, <2>1 DEF ClientInv, NoHole
  <1>4. CASE c \notin clients
    <2>1. Stays(c) /\ lastBlock'[c] = lastBlock[c]
      BY <1>1, <1>4 DEF Break, Stays
    <2>2. LogKept /\ FeedKept
      BY <1>1 DEF LogKept, FeedKept, Events
    <2> QED  BY <1>2, <2>1, <2>2, StaysResumes, StaysInOrder DEF ClientInv, NoHole
  <1> QED  BY <1>3, <1>4

(* A table has an entry for every client.                                  *)
LEMMA TableDomain == \A f : Table(f) => DOMAIN f = Clients
  BY DEF Table

(* What happens to one client leaves the others alone.                     *)
LEMMA OthersStay ==
    ASSUME TypeInv, NEW c \in Clients, NEW d \in Clients \ {c},
           Mount(c) \/ Connect(c) \/ Subscribe(c) \/ Flush(c) \/ Receive(c) \/ Drop(c)
    PROVE  Stays(d) /\ UNCHANGED <<log, foreign, void, feed, buffer>>
  <1>1. UNCHANGED <<log, foreign, void, feed, buffer>>
    BY DEF Mount, Connect, Subscribe, Flush, Receive, Drop, stream, chain
  <1>0. /\ DOMAIN wire = Clients /\ DOMAIN asked = Clients /\ DOMAIN state = Clients
        /\ DOMAIN lastBlock = Clients /\ DOMAIN base = Clients /\ DOMAIN received = Clients
        /\ DOMAIN session = Clients
    <2>1. /\ DOMAIN wire = Clients /\ DOMAIN state = Clients /\ DOMAIN base = Clients
          /\ DOMAIN received = Clients /\ DOMAIN session = Clients
      BY DEF TypeInv
    <2>2. Table(asked) /\ Table(lastBlock)
      BY DEF TypeInv
    <2> QED  BY <2>1, <2>2, TableDomain
  <1>3. CASE Mount(c) \/ Connect(c)
    <2>1. Stays(d)
      BY <1>3, <1>0 DEF Mount, Connect, Stays
    <2> QED  BY <1>1, <2>1
  <1>4. CASE Subscribe(c)
    <2>1. session'[d] = session[d]
      BY <1>4, SubscribedSession DEF Subscribe, TypeInv
    <2>2. Stays(d)
      <3>1. wire'[d] = wire[d]
        BY <1>4, <1>0 DEF Subscribe
      <3> QED  BY <1>4, <2>1, <3>1, <1>0 DEF Subscribe, Stays, client
    <2> QED  BY <1>1, <2>2
  <1>5. CASE Flush(c)
    <2>1. session'[d] = session[d]
      BY <1>5, FlushedSession DEF Flush, TypeInv
    <2>2. Stays(d)
      BY <1>5, <2>1, <1>0 DEF Flush, Stays, client
    <2> QED  BY <1>1, <2>2
  <1>6. CASE Receive(c)
    <2>1. state'[d] = state[d] /\ lastBlock'[d] = lastBlock[d] /\ received'[d] = received[d]
      <3>1. CASE Head(wire[c]) = Error
        BY <1>6, <3>1, <1>0 DEF Receive
      <3>2. CASE Head(wire[c]) # Error
        BY <1>6, <3>2, <1>0 DEF Receive
      <3> QED  BY <3>1, <3>2
    <2>2. Stays(d)
      BY <1>6, <2>1, <1>0 DEF Receive, Stays
    <2> QED  BY <1>1, <2>2
  <1>7. CASE Drop(c)
    <2>1. Stays(d)
      BY <1>7 DEF Drop, Break, Stays
    <2> QED  BY <1>1, <2>1
  <1> QED  BY <1>3, <1>4, <1>5, <1>6, <1>7

-----------------------------------------------------------------------------
(* What is sent, and what arrives *)

(* One sequence of messages after another.                                 *)
LEMMA Joined ==
    ASSUME NEW s \in Seq(Nat), NEW t \in Seq(Nat)
    PROVE  LET both == s \o t
           IN  /\ both \in Seq(Nat)
               /\ ToSet(both) = ToSet(s) \cup ToSet(t)
               /\ \A i \in DOMAIN s : i \in DOMAIN both /\ both[i] = s[i]
               /\ \A i \in DOMAIN both :
                    \/ i \in DOMAIN s /\ both[i] = s[i]
                    \/ i - Len(s) \in DOMAIN t /\ both[i] = t[i - Len(s)] /\ i > Len(s)
  <1> DEFINE both == s \o t
             n == Len(s)
             m == Len(t)
  <1>1. /\ n \in Nat /\ m \in Nat /\ both \in Seq(Nat)
        /\ DOMAIN s = 1 .. n /\ DOMAIN t = 1 .. m /\ DOMAIN both = 1 .. n + m
        /\ \A i \in 1 .. n + m : both[i] = IF i <= n THEN s[i] ELSE t[i - n]
    OBVIOUS
  <1> HIDE DEF both, n, m
  <1>2. \A i \in 1 .. n : i \in 1 .. n + m /\ both[i] = s[i]
    BY <1>1
  <1>3. \A j \in 1 .. m : n + j \in 1 .. n + m /\ both[n + j] = t[j]
    BY <1>1
  <1>4. ASSUME NEW i \in 1 .. n + m
        PROVE  \/ i \in 1 .. n /\ both[i] = s[i]
               \/ i - n \in 1 .. m /\ both[i] = t[i - n] /\ i > n
    <2>1. both[i] = IF i <= n THEN s[i] ELSE t[i - n]
      BY <1>1
    <2>2. CASE i <= n
      <3>1. i \in 1 .. n
        BY <1>1, <2>2
      <3> QED  BY <2>1, <2>2, <3>1
    <2>3. CASE ~(i <= n)
      <3>1. i - n \in 1 .. m /\ i > n
        BY <1>1, <2>3
      <3> QED  BY <2>1, <2>3, <3>1
    <2> QED  BY <2>2, <2>3
  <1>5. ToSet(both) = ToSet(s) \cup ToSet(t)
    <2>1. ASSUME NEW x \in ToSet(both) PROVE x \in ToSet(s) \cup ToSet(t)
      BY <1>1, <1>4 DEF ToSet
    <2>2. ASSUME NEW x \in ToSet(s) PROVE x \in ToSet(both)
      BY <1>1, <1>2, <2>2 DEF ToSet
    <2>3. ASSUME NEW x \in ToSet(t) PROVE x \in ToSet(both)
      <3>1. PICK j \in 1 .. m : x = t[j]
        BY <1>1, <2>3 DEF ToSet
      <3>2. n + j \in DOMAIN both /\ both[n + j] = x
        BY <1>1, <1>3, <3>1
      <3> QED  BY <3>2 DEF ToSet
    <2> QED  BY <2>1, <2>2, <2>3
  <1> QED  BY <1>1, <1>2, <1>4, <1>5 DEF both, n

(* Two ordered sequences of which one follows the other join in order.     *)
LEMMA JoinedInOrder ==
    ASSUME NEW s \in Seq(Nat), NEW t \in Seq(Nat), Follow(s, t),
           Committed(s), Committed(t), Announced(s), Announced(t), Ordered(s), Ordered(t)
    PROVE  /\ Committed(s \o t) /\ Announced(s \o t) /\ Ordered(s \o t)
           /\ \A r : Follow(r, s) /\ Follow(r, t) => Follow(r, s \o t)
  <1> DEFINE both == s \o t
             n == Len(s)
  <1>1. \A i \in DOMAIN both :
           \/ i \in DOMAIN s /\ both[i] = s[i]
           \/ i - n \in DOMAIN t /\ both[i] = t[i - n] /\ i > n
    BY Joined
  <1>2. n \in Nat /\ DOMAIN s = 1 .. n /\ \A i \in DOMAIN both : i \in Nat
    BY Joined
  <1> HIDE DEF both, n
  <1>3. Committed(both) /\ Announced(both)
    BY <1>1 DEF Committed, Announced
  <1>4. Ordered(both)
    <2> SUFFICES ASSUME NEW i \in DOMAIN both, NEW j \in DOMAIN both,
                        i < j, both[i] # Error, both[j] # Error
                 PROVE  Precedes(both[i], both[j])
      BY DEF Ordered
    <2>1. i \in Nat /\ j \in Nat
      BY <1>2
    <2>2. CASE j \in DOMAIN s /\ both[j] = s[j]
      <3>1. i \in DOMAIN s /\ both[i] = s[i]
        BY <1>1, <1>2, <2>1, <2>2
      <3> QED  BY <2>2, <3>1 DEF Ordered
    <2>3. CASE j - n \in DOMAIN t /\ both[j] = t[j - n] /\ i \in DOMAIN s /\ both[i] = s[i]
      BY <2>3 DEF Follow
    <2>4. CASE /\ j - n \in DOMAIN t /\ both[j] = t[j - n]
               /\ i - n \in DOMAIN t /\ both[i] = t[i - n]
      <3>1. i - n < j - n
        BY <1>2, <2>1
      <3> QED  BY <2>4, <3>1 DEF Ordered
    <2> QED  BY <1>1, <2>2, <2>3, <2>4
  <1>5. ASSUME NEW r, Follow(r, s), Follow(r, t) PROVE Follow(r, both)
    BY <1>1, <1>5 DEF Follow
  <1> QED  BY <1>3, <1>4, <1>5 DEF both

(* An error message can be sent at any time.                               *)
LEMMA ErrorInOrder ==
    ASSUME TypeInv
    PROVE  /\ <<Error>> \in Seq(Nat) /\ ToSet(<<Error>>) = {Error}
           /\ Committed(<<Error>>) /\ Announced(<<Error>>) /\ Ordered(<<Error>>)
           /\ \A s : Follow(s, <<Error>>) /\ Follow(<<Error>>, s)
  <1> DEFINE m == <<Error>>
  <1>1. m \in Seq(Nat) /\ DOMAIN m = {1} /\ m[1] = Error /\ Error = 0
    BY DEF Error
  <1> HIDE DEF m
  <1>2. feed \in Seq(Number)
    BY DEF TypeInv
  <1>3. \A j \in DOMAIN feed : feed[j] \in Number
    BY <1>2
  <1>4. Announced(m)
    BY <1>1, <1>3 DEF Announced, Number
  <1>5. ToSet(m) = {Error}
    BY <1>1 DEF ToSet
  <1>6. Committed(m) /\ Ordered(m) /\ \A s : Follow(s, m) /\ Follow(m, s)
    BY <1>1 DEF Committed, Ordered, Follow
  <1> QED  BY <1>1, <1>4, <1>5, <1>6 DEF m

(* A flush moves the queue behind what the socket carries.                 *)
LEMMA ClientFlushes ==
    ASSUME TypeInv, TypeInv', NEW c \in Clients, ClientInv(c), Flush(c)
    PROVE  ClientInv(c)'
  <1> DEFINE w == wire[c]
             q == session[c].queue
             warning == IF session[c].degraded THEN <<Error>> ELSE <<>>
             u == w \o warning
             v == u \o q
  <1>1. /\ UNCHANGED <<log, foreign, void, feed, buffer, asked, state, lastBlock, base, received, exposed>>
        /\ wire'[c] = v /\ session[c].open
    BY DEF Flush, stream, chain, client, TypeInv
  <1>2. /\ session'[c].queue = <<>> /\ ~session'[c].degraded
        /\ session'[c].open = session[c].open /\ session'[c].subscribed = session[c].subscribed
    BY FlushedSession DEF Flush, TypeInv
  <1>3. /\ Events' = Events /\ Live' = Live /\ (Mounted(c)' <=> Mounted(c))
        /\ Missing(c)' = Missing(c) /\ LogKept
    BY <1>1, SameMissing DEF Mounted
  <1>4. w \in Seq(Nat) /\ q \in Seq(Nat) /\ session[c].degraded \in BOOLEAN
        /\ received[c] \in Seq(Nat)
    BY ClientTypes, NumbersAreNaturals
  <1>5. /\ Committed(received[c]) /\ Committed(w) /\ Committed(q)
        /\ Announced(received[c]) /\ Announced(w) /\ Announced(q)
        /\ Ordered(received[c]) /\ Ordered(w) /\ Ordered(q)
        /\ Follow(received[c], w) /\ Follow(received[c], q) /\ Follow(w, q)
    BY DEF ClientInv, InOrder
  <1> HIDE DEF w, q
  <1>6. /\ warning \in Seq(Nat) /\ ToSet(warning) = IF session[c].degraded THEN {Error} ELSE {}
        /\ Committed(warning) /\ Announced(warning) /\ Ordered(warning)
        /\ \A s : Follow(s, warning) /\ Follow(warning, s)
    <2>1. CASE session[c].degraded
      BY <2>1, ErrorInOrder
    <2>2. CASE ~session[c].degraded
      <3>1. <<>> \in Seq(Nat) /\ ToSet(<<>>) = {}
        BY DEF ToSet
      <3> QED  BY <2>2, <3>1, EmptyInOrder
    <2> QED  BY <2>1, <2>2
  <1> HIDE DEF warning
  <1>7. /\ u \in Seq(Nat) /\ Committed(u) /\ Announced(u) /\ Ordered(u)
        /\ Follow(received[c], u) /\ ToSet(u) = ToSet(w) \cup ToSet(warning)
    BY <1>4, <1>5, <1>6, Joined, JoinedInOrder
  <1>8. Follow(u, q)
    <2>1. \A i \in DOMAIN u :
            \/ i \in DOMAIN w /\ u[i] = w[i]
            \/ i - Len(w) \in DOMAIN warning /\ u[i] = warning[i - Len(w)]
      BY <1>4, <1>6, Joined
    <2>2. Follow(w, q) /\ Follow(warning, q)
      BY <1>5, <1>6
    <2> HIDE DEF u
    <2> QED  BY <2>1, <2>2 DEF Follow
  <1> HIDE DEF u
  <1>9. /\ v \in Seq(Nat) /\ Committed(v) /\ Announced(v) /\ Ordered(v)
        /\ Follow(received[c], v) /\ ToSet(v) = ToSet(u) \cup ToSet(q)
    BY <1>4, <1>5, <1>7, <1>8, Joined, JoinedInOrder
  <1> HIDE DEF v
  <1>10. Resumes(c)'
    BY <1>1, <1>3, StaysResumes DEF ClientInv
  <1>11. InOrder(c)'
    <2>1. /\ Committed(received[c])' /\ Committed(wire[c])' /\ Committed(session[c].queue)'
          /\ Announced(received[c])' /\ Announced(wire[c])' /\ Announced(session[c].queue)'
      BY <1>1, <1>2, <1>3, <1>5, <1>9, EmptyInOrder DEF Committed, Announced
    <2>2. /\ Ordered(received[c])' /\ Ordered(wire[c])' /\ Ordered(session[c].queue)'
          /\ Follow(received[c], wire[c])' /\ Follow(received[c], session[c].queue)'
          /\ Follow(wire[c], session[c].queue)'
      BY <1>1, <1>2, <1>5, <1>9, EmptyInOrder DEF Ordered, Follow, Precedes
    <2>3. \A i \in DOMAIN received'[c] :
             log'[received'[c][i]] <= lastBlock'[c] \/ log'[received'[c][i]] = 0
      BY <1>1 DEF ClientInv, InOrder
    <2> QED  BY <2>1, <2>2, <2>3 DEF InOrder
  <1>12. NoHole(c)'
    <2>1. (Known(c)' <=> Known(c)) /\ (Halfway(c)' <=> Halfway(c))
      BY <1>1, <1>3 DEF Known, Halfway
    <2>2. Warned(c) => Warned(c)'
      BY <1>1, <1>6, <1>7, <1>9 DEF Warned, w
    <2>3. UnderWay(c) => UnderWay(c)'
      BY <1>1, <1>3, <1>7, <1>9 DEF UnderWay, w, q
    <2> QED  BY <1>1, <1>2, <1>3, <2>1, <2>2, <2>3 DEF ClientInv, NoHole
  <1> QED  BY <1>10, <1>11, <1>12 DEF ClientInv

(* The head of a sequence and the rest of it.                              *)
LEMMA FirstOf ==
    ASSUME NEW s \in Seq(Nat), s # <<>>
    PROVE  /\ Head(s) = s[1] /\ 1 \in DOMAIN s /\ Tail(s) \in Seq(Nat)
           /\ \A i \in DOMAIN Tail(s) : i + 1 \in DOMAIN s /\ 1 < i + 1 /\ Tail(s)[i] = s[i + 1]
           /\ \A i, j \in DOMAIN Tail(s) : i < j => i + 1 < j + 1
           /\ ToSet(Tail(s)) \subseteq ToSet(s)
           /\ \A x \in ToSet(s) : x = Head(s) \/ x \in ToSet(Tail(s))
  <1> DEFINE n == Len(s)
             rest == Tail(s)
  <1>1. /\ n \in Nat /\ n >= 1 /\ DOMAIN s = 1 .. n /\ Head(s) = s[1]
        /\ rest \in Seq(Nat) /\ DOMAIN rest = 1 .. n - 1
        /\ \A j \in 1 .. n - 1 : rest[j] = s[j + 1]
    OBVIOUS
  <1> HIDE DEF n, rest
  <1>2. \A i \in 1 .. n - 1 : i + 1 \in 1 .. n /\ 1 < i + 1 /\ i \in Nat
    BY <1>1
  <1>3. ASSUME NEW x \in ToSet(rest) PROVE x \in ToSet(s)
    <2>1. PICK i \in 1 .. n - 1 : x = rest[i]
      BY <1>1, <1>3 DEF ToSet
    <2>2. i + 1 \in DOMAIN s /\ s[i + 1] = x
      BY <1>1, <1>2, <2>1
    <2> QED  BY <2>2 DEF ToSet
  <1>4. ASSUME NEW x \in ToSet(s) PROVE x = Head(s) \/ x \in ToSet(rest)
    <2>1. PICK i \in 1 .. n : x = s[i]
      BY <1>1 DEF ToSet
    <2>2. CASE i = 1
      BY <1>1, <2>1, <2>2
    <2>3. CASE i # 1
      <3>1. i - 1 \in DOMAIN rest /\ rest[i - 1] = x
        BY <1>1, <2>1, <2>3
      <3> QED  BY <3>1 DEF ToSet
    <2> QED  BY <2>2, <2>3
  <1>5. \A i, j \in 1 .. n - 1 : i < j => i + 1 < j + 1
    BY <1>2
  <1> QED  BY <1>1, <1>2, <1>3, <1>4, <1>5 DEF rest

(* A message handled is in its place at the end of what was received.      *)
LEMMA ReceivedInOrder ==
    ASSUME NEW s \in Seq(Nat), NEW m \in Nat, m # Error, Committed(s), Announced(s), Ordered(s),
           m \in Live, \A j \in DOMAIN feed : m < feed[j],
           \A i \in DOMAIN s : s[i] # Error => Precedes(s[i], m)
    PROVE  LET r == Append(s, m)
           IN  /\ Committed(r) /\ Announced(r) /\ Ordered(r)
               /\ \A t : /\ Follow(s, t)
                         /\ \A j \in DOMAIN t : t[j] # Error => Precedes(m, t[j])
                         => Follow(r, t)
               /\ \A i \in DOMAIN r : r[i] = m \/ (i \in DOMAIN s /\ r[i] = s[i])
               /\ ToSet(s) \subseteq ToSet(r) /\ m \in ToSet(r)
  <1> DEFINE r == Append(s, m)
             n == Len(s)
  <1>1. /\ n \in Nat /\ DOMAIN s = 1 .. n /\ DOMAIN r = 1 .. n + 1
        /\ r[n + 1] = m /\ \A i \in 1 .. n : r[i] = s[i]
    OBVIOUS
  <1> HIDE DEF r, n
  <1>2. \A i \in 1 .. n + 1 : (i \in 1 .. n /\ r[i] = s[i]) \/ (i = n + 1 /\ r[i] = m)
    BY <1>1
  <1>3. Committed(r) /\ Announced(r)
    BY <1>1, <1>2 DEF Committed, Announced
  <1>4. Ordered(r)
    <2> SUFFICES ASSUME NEW i \in 1 .. n + 1, NEW j \in 1 .. n + 1,
                        i < j, r[i] # Error, r[j] # Error
                 PROVE  Precedes(r[i], r[j])
      BY <1>1 DEF Ordered
    <2>1. i \in 1 .. n /\ r[i] = s[i]
      BY <1>1
    <2>2. CASE j \in 1 .. n /\ r[j] = s[j]
      BY <1>1, <2>1, <2>2 DEF Ordered
    <2>3. CASE r[j] = m
      BY <1>1, <2>1, <2>3
    <2> QED  BY <1>2, <2>2, <2>3
  <1>5. ASSUME NEW t, Follow(s, t), \A j \in DOMAIN t : t[j] # Error => Precedes(m, t[j])
        PROVE  Follow(r, t)
    BY <1>1, <1>2, <1>5 DEF Follow
  <1>6. n + 1 \in 1 .. n + 1 /\ \A i \in 1 .. n : i \in 1 .. n + 1
    BY <1>1
  <1>7. ToSet(s) \subseteq ToSet(r) /\ m \in ToSet(r)
    BY <1>1, <1>6 DEF ToSet
  <1>8. \A i \in DOMAIN r : r[i] = m \/ (i \in DOMAIN s /\ r[i] = s[i])
    BY <1>1, <1>2
  <1> QED  BY <1>3, <1>4, <1>5, <1>7, <1>8 DEF r

(* A message received was on its way, and the page resumes after it.       *)
LEMMA ClientReceives ==
    ASSUME TypeInv, TypeInv', StreamInv, NEW c \in Clients, Linked(c), ClientInv(c), Receive(c)
    PROVE  ClientInv(c)'
  <1> DEFINE w == wire[c]
             m == Head(w)
             rest == Tail(w)
             q == session[c].queue
             s == received[c]
  <1>1. /\ UNCHANGED <<log, foreign, void, feed, buffer, session, asked, base, exposed>>
        /\ w # <<>> /\ wire'[c] = rest
    BY DEF Receive, stream, chain, TypeInv
  <1>2. /\ m = Error => state'[c] = "degraded" /\ lastBlock'[c] = lastBlock[c] /\ received'[c] = s
        /\ m # Error =>
             /\ state'[c] = state[c] /\ received'[c] = Append(s, m)
             /\ lastBlock'[c] = IF log[m] = 0 THEN lastBlock[c] ELSE log[m]
    <2>0. /\ DOMAIN state = Clients /\ DOMAIN received = Clients /\ DOMAIN lastBlock = Clients
      <3>1. DOMAIN state = Clients /\ DOMAIN received = Clients /\ Table(lastBlock)
        BY DEF TypeInv
      <3> QED  BY <3>1, TableDomain
    <2>1. CASE m = Error
      BY <2>0, <2>1 DEF Receive
    <2>2. CASE m # Error
      BY <2>0, <2>2 DEF Receive
    <2> QED  BY <2>1, <2>2
  <1>3. Events' = Events /\ Live' = Live /\ Ours' = Ours /\ LogKept
    BY <1>1 DEF Events, Live, Ours, LogKept
  <1>4. w \in Seq(Nat) /\ q \in Seq(Nat) /\ s \in Seq(Nat)
    BY ClientTypes, NumbersAreNaturals
  <1>5. /\ Committed(s) /\ Committed(w) /\ Committed(q)
        /\ Announced(s) /\ Announced(w) /\ Announced(q)
        /\ Ordered(s) /\ Ordered(w) /\ Ordered(q)
        /\ Follow(s, w) /\ Follow(s, q) /\ Follow(w, q)
        /\ \A i \in DOMAIN s : log[s[i]] <= lastBlock[c] \/ log[s[i]] = 0
    BY DEF ClientInv, InOrder
  <1>6. session[c].subscribed /\ session[c].open /\ Mounted(c)
    BY <1>1 DEF Linked, w
  <1>7. NoHole(c)
    BY DEF ClientInv
  <1>8. lastBlock[c] # None => \E e \in Live : log[e] # 0 /\ log[e] = lastBlock[c]
    BY DEF ClientInv, Resumes
  <1>9. \A i \in DOMAIN s : s[i] \in Number
    BY ClientTypes
  <1> HIDE DEF w, q, s
  <1>10. /\ m = w[1] /\ 1 \in DOMAIN w /\ m \in Nat /\ rest \in Seq(Nat)
         /\ \A i \in DOMAIN rest : i + 1 \in DOMAIN w /\ 1 < i + 1 /\ rest[i] = w[i + 1]
         /\ \A i, j \in DOMAIN rest : i < j => i + 1 < j + 1
         /\ ToSet(rest) \subseteq ToSet(w)
         /\ \A x \in ToSet(w) : x = m \/ x \in ToSet(rest)
    BY <1>1, <1>4, FirstOf
  <1> HIDE DEF m, rest
  <1>11. /\ Committed(rest) /\ Announced(rest) /\ Follow(s, rest) /\ Follow(rest, q)
    BY <1>5, <1>10 DEF Committed, Announced, Follow
  <1>12. Ordered(rest)
    BY <1>5, <1>10 DEF Ordered
  <1>13. CASE m = Error
    <2>1. Resumes(c)'
      BY <1>2, <1>3, <1>13, StaysResumes DEF ClientInv
    <2>2. InOrder(c)'
      <3>1. /\ Committed(received[c])' /\ Committed(wire[c])' /\ Committed(session[c].queue)'
            /\ Announced(received[c])' /\ Announced(wire[c])' /\ Announced(session[c].queue)'
        BY <1>1, <1>2, <1>3, <1>5, <1>11, <1>13 DEF Committed, Announced, q
      <3>2. /\ Ordered(received[c])' /\ Ordered(wire[c])' /\ Ordered(session[c].queue)'
            /\ Follow(received[c], wire[c])' /\ Follow(received[c], session[c].queue)'
            /\ Follow(wire[c], session[c].queue)'
        BY <1>1, <1>2, <1>5, <1>11, <1>12, <1>13 DEF Ordered, Follow, Precedes, q
      <3>3. \A i \in DOMAIN received'[c] :
               log'[received'[c][i]] <= lastBlock'[c] \/ log'[received'[c][i]] = 0
        BY <1>1, <1>2, <1>5, <1>13
      <3> QED  BY <3>1, <3>2, <3>3 DEF InOrder
    <2>3. NoHole(c)'
      <3>1. Known(c)' <=> Known(c)
        BY <1>1, <1>3 DEF Known
      <3> QED  BY <1>1, <1>2, <1>6, <1>7, <1>13, <3>1 DEF NoHole
    <2> QED  BY <2>1, <2>2, <2>3 DEF ClientInv
  <1>14. CASE m # Error
    <2> DEFINE r == Append(s, m)
    <2>1. /\ m \in Live /\ \A j \in DOMAIN feed : m < feed[j]
          /\ \A i \in DOMAIN s : Precedes(s[i], m)
      <3>1. m \in Live
        BY <1>5, <1>10, <1>14 DEF Committed
      <3>2. \A j \in DOMAIN feed : m < feed[j]
        BY <1>5, <1>10 DEF Announced
      <3>3. \A i \in DOMAIN s : Precedes(s[i], m)
        BY <1>5, <1>9, <1>10, <1>14 DEF Follow, Number, Error
      <3> QED  BY <3>1, <3>2, <3>3
    <2>2. /\ \A j \in DOMAIN rest : rest[j] # Error => Precedes(m, rest[j])
          /\ \A j \in DOMAIN q : q[j] # Error => Precedes(m, q[j])
      BY <1>5, <1>10, <1>14 DEF Ordered, Follow
    <2>3. /\ Committed(r) /\ Announced(r) /\ Ordered(r) /\ Follow(r, rest) /\ Follow(r, q)
          /\ \A i \in DOMAIN r : r[i] = m \/ (i \in DOMAIN s /\ r[i] = s[i])
          /\ ToSet(s) \subseteq ToSet(r) /\ m \in ToSet(r)
      BY <1>4, <1>5, <1>10, <1>11, <1>14, <2>1, <2>2, ReceivedInOrder
    <2> HIDE DEF r
    <2>4. received'[c] = r /\ state'[c] = state[c]
          /\ lastBlock'[c] = IF log[m] = 0 THEN lastBlock[c] ELSE log[m]
      BY <1>2, <1>14 DEF r
    <2>5. \A e \in Live : log[e] \in Nat /\ e \in Nat /\ e \in Events
      BY LiveEvents
    <2>6. Resumes(c)'
      <3>1. lastBlock'[c] # None => \E e \in Live' : log'[e] # 0 /\ log'[e] = lastBlock'[c]
        BY <1>1, <1>3, <1>8, <2>1, <2>4
      <3> QED  BY <3>1 DEF Resumes
    <2>7. ASSUME NEW i \in DOMAIN r PROVE log[r[i]] <= lastBlock'[c] \/ log[r[i]] = 0
      <3>1. CASE r[i] = m
        BY <2>1, <2>4, <2>5, <3>1
      <3>2. CASE i \in DOMAIN s /\ r[i] = s[i]
        <4>1. CASE log[m] = 0
          BY <1>5, <2>4, <3>2, <4>1
        <4>2. CASE log[m] # 0 /\ log[s[i]] # 0
          <5>1. s[i] < m /\ s[i] \in Live
            BY <1>5, <1>9, <2>1, <3>2, <4>2 DEF Precedes, Committed, Number, Error
          <5>2. log[s[i]] <= log[m]
            BY <2>1, <4>2, <5>1 DEF StreamInv, LogInv
          <5> QED  BY <2>4, <3>2, <4>2, <5>2
        <4>3. CASE log[s[i]] = 0
          BY <3>2, <4>3
        <4> QED  BY <4>1, <4>2, <4>3
      <3> QED  BY <2>3, <3>1, <3>2
    <2>8. InOrder(c)'
      <3>1. /\ Committed(received[c])' /\ Committed(wire[c])' /\ Committed(session[c].queue)'
            /\ Announced(received[c])' /\ Announced(wire[c])' /\ Announced(session[c].queue)'
        BY <1>1, <1>3, <1>5, <1>11, <2>3, <2>4 DEF Committed, Announced, q
      <3>2. /\ Ordered(received[c])' /\ Ordered(wire[c])' /\ Ordered(session[c].queue)'
            /\ Follow(received[c], wire[c])' /\ Follow(received[c], session[c].queue)'
            /\ Follow(wire[c], session[c].queue)'
        BY <1>1, <1>5, <1>11, <1>12, <2>3, <2>4 DEF Ordered, Follow, Precedes, q
      <3>3. \A i \in DOMAIN received'[c] :
               log'[received'[c][i]] <= lastBlock'[c] \/ log'[received'[c][i]] = 0
        BY <1>1, <2>4, <2>7
      <3> QED  BY <3>1, <3>2, <3>3 DEF InOrder
    <2>9. NoHole(c)'
      <3>1. Known(c)' <=> Known(c)
        BY <1>1, <1>3 DEF Known
      <3>2. Warned(c) => Warned(c)'
        BY <1>1, <1>10, <1>14 DEF Warned, w
      <3>3. \A e \in Missing(c)' : e \in Missing(c) /\ e # m
        BY <1>1, <1>3, <2>3, <2>4 DEF Missing, Seen, Ours, s
      <3>4. UnderWay(c) => UnderWay(c)'
        BY <1>1, <1>10, <3>3 DEF UnderWay, w
      <3> QED  BY <1>1, <1>6, <1>7, <2>4, <3>1, <3>2, <3>4 DEF NoHole
    <2> QED  BY <2>6, <2>8, <2>9 DEF ClientInv
  <1> QED  BY <1>13, <1>14

(* What is replayed to a client continues what it has received.            *)
LEMMA ReplayInOrder ==
    ASSUME TypeInv, StreamInv, NEW c \in Clients, InOrder(c), NEW since \in Nat, lastBlock[c] = since
    PROVE  LET replayed == Since(since)
           IN  /\ replayed \in Seq(Nat)
               /\ Committed(replayed) /\ Announced(replayed) /\ Ordered(replayed)
               /\ Follow(received[c], replayed)
               /\ \A e \in ToSet(buffer) : e \in Ours /\ log[e] > since => e \in ToSet(replayed)
  <1> DEFINE later == {e \in Ours : log[e] > since}
             p == Since(since)
             s == received[c]
  <1>1. since \in Int /\ p \in Seq(Number) /\ Filtered(p, buffer, Len(buffer), later)
    BY SinceIsFiltered
  <1>2. /\ buffer \in Seq(Number) /\ Len(buffer) \in Nat /\ DOMAIN buffer = 1 .. Len(buffer)
        /\ s \in Seq(Number) /\ \A e \in Live : log[e] \in Nat /\ e \in Number
    BY ClientTypes, LiveEvents DEF TypeInv
  <1> HIDE DEF p
  <1>3. \A j \in DOMAIN p :
          p[j] \in later /\ p[j] \in Number /\ \E k \in DOMAIN buffer : p[j] = buffer[k]
    <2>1. \A j \in DOMAIN p : p[j] \in Number
      BY <1>1
    <2> HIDE DEF later
    <2>2. \A j \in DOMAIN p : p[j] \in later /\ \E k \in 1 .. Len(buffer) : p[j] = buffer[k]
      BY <1>1 DEF Filtered
    <2> QED  BY <1>2, <2>1, <2>2
  <1>4. \A j \in DOMAIN p : p[j] \in Live /\ log[p[j]] > since /\ log[p[j]] \in Nat /\ log[p[j]] # 0
    <2>1. \A k \in DOMAIN buffer : buffer[k] \in Live
      BY DEF StreamInv, InWay
    <2> QED  BY <1>2, <1>3, <2>1
  <1>5. Committed(p)
    BY <1>4 DEF Committed
  <1>6. Announced(p)
    BY <1>3 DEF Announced, StreamInv, InWay
  <1>7. Ordered(p)
    <2>1. Increasing(p)
      BY <1>1 DEF Filtered, StreamInv, InWay
    <2> QED  BY <1>3, <2>1 DEF Increasing, Ordered, Precedes, Number
  <1>8. Follow(s, p)
    <2> SUFFICES ASSUME NEW i \in DOMAIN s, NEW j \in DOMAIN p PROVE Precedes(s[i], p[j])
      BY DEF Follow
    <2>1. s[i] \in Number
      BY <1>2
    <2>2. s[i] \in Live /\ (log[s[i]] <= since \/ log[s[i]] = 0) /\ log[s[i]] \in Nat
      <3>1. s[i] \in Live
        BY <2>1 DEF InOrder, Committed, Number, Error
      <3> QED  BY <1>2, <3>1 DEF InOrder
    <2>3. p[j] \in Live /\ log[p[j]] > since /\ log[p[j]] \in Nat /\ log[p[j]] # 0
      BY <1>4
    <2>4. s[i] # p[j]
      BY <2>2, <2>3
    <2>5. ASSUME log[s[i]] # 0 PROVE s[i] < p[j]
      <3>1. log[s[i]] < log[p[j]]
        BY <2>2, <2>3, <2>5
      <3>2. p[j] < s[i] => log[p[j]] <= log[s[i]]
        BY <2>2, <2>3, <2>5 DEF StreamInv, LogInv
      <3> QED  BY <1>3, <2>1, <2>2, <2>3, <2>4, <3>1, <3>2 DEF Number
    <2> QED  BY <2>4, <2>5 DEF Precedes
  <1>9. ASSUME NEW e \in ToSet(buffer), e \in Ours, log[e] > since PROVE e \in ToSet(p)
    <2>1. PICK k \in 1 .. Len(buffer) : e = buffer[k]
      BY <1>2 DEF ToSet
    <2>2. buffer[k] \in later
      BY <1>9, <2>1
    <2>3. \E j \in DOMAIN p : p[j] = buffer[k]
      BY <1>1, <2>2 DEF Filtered
    <2> QED  BY <2>1, <2>3 DEF ToSet
  <1>10. p \in Seq(Nat)
    BY <1>1, NumbersAreNaturals
  <1> QED  BY <1>5, <1>6, <1>7, <1>8, <1>9, <1>10 DEF p

(* What a ring vouches for that does not mislead: nothing of a later block *)
(* was let go.                                                             *)
LEMMA NothingLetGo ==
    ASSUME TypeInv, StreamInv, NEW c \in Clients, NEW since \in Nat,
           CanReplayFrom(since), ~Misled(c), NEW e \in Missing(c), log[e] > since,
           buffer # <<>>
    PROVE  ~(e < Head(buffer))
  <1> SUFFICES ASSUME e < Head(buffer) PROVE FALSE
    OBVIOUS
  <1> DEFINE h == Head(buffer)
  <1>1. /\ e \in Live /\ h \in Live /\ log[e] \in Nat /\ log[h] \in Nat
    <2>1. h = buffer[1] /\ 1 \in DOMAIN buffer
      BY DEF TypeInv
    <2>2. h \in Live
      BY <2>1 DEF StreamInv, InWay
    <2>3. e \in Live
      BY DEF Missing
    <2> HIDE DEF h
    <2> QED  BY <2>2, <2>3, LiveEvents
  <1>2. log[h] # 0 /\ log[h] # log[e]
    BY DEF Misled
  <1>3. since + 1 >= log[h]
    BY DEF CanReplayFrom
  <1> HIDE DEF h
  <1>4. log[e] <= log[h]
    <2>1. e < h /\ log[e] # 0
      BY DEF h
    <2> QED  BY <1>1, <1>2, <2>1 DEF StreamInv, LogInv
  <1> QED  BY <1>1, <1>2, <1>3, <1>4

(* A replay holds what the client lacks, or it is refused, or the loss is named. *)
LEMMA ClientSubscribes ==
    ASSUME TypeInv, TypeInv', StreamInv, NEW c \in Clients, Linked(c), ClientInv(c), Subscribe(c)
    PROVE  ClientInv(c)'
  <1>1. /\ UNCHANGED <<log, foreign, void, feed, buffer, state, lastBlock, base, received>>
        /\ asked[c] # Nothing
    BY DEF Subscribe, stream, chain, client, TypeInv
  <1>2. /\ session'[c].subscribed /\ session'[c].open = session[c].open
        /\ session'[c].degraded = session[c].degraded /\ session'[c].queue = session[c].queue
    BY SubscribedSession DEF Subscribe, TypeInv
  <1>3. /\ asked[c] = lastBlock[c] /\ session[c].open /\ ~session[c].subscribed
        /\ wire[c] = <<>> /\ session[c].queue = <<>> /\ ~session[c].degraded /\ Mounted(c)
    BY <1>1 DEF Linked
  <1>4. /\ Events' = Events /\ Live' = Live /\ (Mounted(c)' <=> Mounted(c))
        /\ Missing(c)' = Missing(c) /\ (Known(c)' <=> Known(c)) /\ LogKept
    <2>1. Events' = Events /\ Live' = Live /\ Missing(c)' = Missing(c) /\ LogKept
      BY <1>1, SameMissing
    <2> QED  BY <1>1, <2>1 DEF Mounted, Known
  <1>5. Resumes(c)'
    BY <1>1, <1>4, StaysResumes DEF ClientInv
  <1>6. exposed'[c] = {} => exposed[c] = {}
    BY ExposeOnly DEF Subscribe
  <1>7. ASSUME NEW w, w \in Seq(Nat), wire'[c] = w,
               Committed(w), Announced(w), Ordered(w), Follow(received[c], w)
        PROVE  InOrder(c)'
    <2>1. /\ Committed(received[c])' /\ Committed(wire[c])' /\ Committed(session[c].queue)'
          /\ Announced(received[c])' /\ Announced(wire[c])' /\ Announced(session[c].queue)'
      BY <1>1, <1>2, <1>3, <1>4, <1>7 DEF ClientInv, InOrder, Committed, Announced
    <2>2. /\ Ordered(received[c])' /\ Ordered(wire[c])' /\ Ordered(session[c].queue)'
          /\ Follow(received[c], wire[c])' /\ Follow(received[c], session[c].queue)'
          /\ Follow(wire[c], session[c].queue)'
      BY <1>1, <1>2, <1>3, <1>7 DEF ClientInv, InOrder, Ordered, Follow, Precedes
    <2>3. \A i \in DOMAIN received'[c] :
             log'[received'[c][i]] <= lastBlock'[c] \/ log'[received'[c][i]] = 0
      BY <1>1 DEF ClientInv, InOrder
    <2> QED  BY <2>1, <2>2, <2>3 DEF InOrder
  <1>8. CASE asked[c] = Fresh
    <2>1. wire'[c] = <<>>
      BY <1>3, <1>8 DEF Subscribe
    <2>2. InOrder(c)'
      <3>1. <<>> \in Seq(Nat)
        OBVIOUS
      <3> QED  BY <1>7, <2>1, <3>1, EmptyInOrder
    <2>3. exposed'[c] = {} => \A e \in Missing(c) : e \in ToSet(feed)
      BY <1>8, ExposeOnly DEF Subscribe
    <2>4. NoHole(c)'
      BY <1>1, <1>2, <1>3, <1>4, <1>6, <2>3 DEF ClientInv, NoHole, UnderWay
    <2> QED  BY <1>5, <2>2, <2>4 DEF ClientInv
  <1>9. CASE asked[c] # Fresh
    <2> DEFINE since == asked[c]
               replayed == Since(since)
               refused == ~CanReplayFrom(since) \/ Len(replayed) > MaxQueue
               sent == IF refused THEN <<Error>> ELSE replayed
    <2>1. since \in Nat /\ lastBlock[c] = since
      <3>1. PICK e \in Live : log[e] = lastBlock[c]
        BY <1>3, <1>9 DEF ClientInv, Resumes, Fresh
      <3>2. log[e] \in Nat
        BY LiveEvents
      <3> QED  BY <1>3, <3>1, <3>2
    <2>2. /\ wire' = [wire EXCEPT ![c] = @ \o sent]
          /\ exposed' = IF ~refused /\ Misled(c) THEN Expose("ring", {c}) ELSE exposed
      BY <1>9 DEF Subscribe
    <2> HIDE DEF since
    <2>3. /\ replayed \in Seq(Nat)
          /\ Committed(replayed) /\ Announced(replayed) /\ Ordered(replayed)
          /\ Follow(received[c], replayed)
          /\ \A e \in ToSet(buffer) : e \in Ours /\ log[e] > since => e \in ToSet(replayed)
      BY <2>1, ReplayInOrder DEF ClientInv
    <2> HIDE DEF replayed
    <2>4. /\ sent \in Seq(Nat) /\ Committed(sent) /\ Announced(sent) /\ Ordered(sent)
          /\ Follow(received[c], sent)
      BY <2>3, ErrorInOrder
    <2>5. refused => Error \in ToSet(sent)
      BY ErrorInOrder
    <2>6. ~refused => sent = replayed /\ CanReplayFrom(since)
      OBVIOUS
    <2>7. exposed'[c] = {} => refused \/ ~Misled(c)
      BY <2>2, ExposeOnly
    <2> HIDE DEF refused, sent
    <2>8. wire'[c] = sent
      BY <1>3, <2>2, <2>4 DEF TypeInv
    <2>9. InOrder(c)'
      BY <1>7, <2>4, <2>8
    <2>10. NoHole(c)'
      <3> SUFFICES ASSUME exposed'[c] = {}
                   PROVE  /\ Known(c)'
                          /\ session'[c].subscribed /\ state'[c] = "open" /\ ~Warned(c)' => UnderWay(c)'
        BY <1>2 DEF NoHole
      <3>1. Known(c) /\ ~Halfway(c)
        BY <1>3, <1>6 DEF ClientInv, NoHole
      <3>2. CASE refused
        BY <1>4, <2>5, <2>8, <3>1, <3>2 DEF Warned
      <3>3. CASE ~refused
        <4>1. ASSUME NEW e \in Missing(c), e \notin ToSet(feed) PROVE e \in ToSet(replayed)
          <5>1. e \in Ours /\ e \in Events /\ log[e] \in Nat /\ e > base[c]
            <6>1. e \in Live /\ e \in Ours /\ ~(e \in 1 .. base[c])
              BY DEF Missing, Seen
            <6>2. e \in Number /\ e \in Events /\ log[e] \in Nat /\ base[c] \in Nat
              BY <6>1, LiveEvents, ClientTypes
            <6> QED  BY <6>1, <6>2 DEF Number
          <5>2. log[e] > since
            BY <2>1, <3>1, <4>1, <5>1 DEF Halfway
          <5>3. CASE e \in ToSet(buffer)
            BY <2>3, <5>1, <5>2, <5>3
          <5>4. CASE buffer # <<>> /\ e < Head(buffer)
            BY <2>1, <2>6, <2>7, <3>3, <5>2, <5>4, NothingLetGo
          <5> QED  BY <3>1, <4>1, <5>1, <5>3, <5>4 DEF Known
        <4>2. UnderWay(c)'
          BY <1>1, <1>4, <2>6, <2>8, <3>3, <4>1 DEF UnderWay
        <4> QED  BY <1>4, <3>1, <4>2
      <3> QED  BY <3>2, <3>3
    <2> QED  BY <1>5, <2>9, <2>10 DEF ClientInv
  <1> QED  BY <1>8, <1>9

-----------------------------------------------------------------------------
(* The theorems *)

(* Whatever happens, the two ends of a connection fit each other.          *)
LEMMA LinkedStep ==
    ASSUME TypeInv, TypeInv', NEW c \in Clients, Linked(c), [Next]_vars
    PROVE  Linked(c)'
  <1>1. CASE IndexerCommits \/ EpochCloses \/ IndexerRollsBack \/ RangeRepeats
             \/ ListenerFails \/ ListenerReconnects \/ UNCHANGED vars
    <2>1. Stays(c)
      BY <1>1 DEF IndexerCommits, EpochCloses, Publish, IndexerRollsBack, RangeRepeats,
         ListenerFails, ListenerReconnects, vars, client, Stays
    <2> QED  BY <2>1, StaysLinked
  <1>2. CASE Broadcast
    <2> DEFINE s == session[c]
               t == session'[c]
               e == Head(feed)
    <2>1. /\ t = Enqueued(s, e) \/ t = s
          /\ UNCHANGED <<wire, asked, state, lastBlock, received>>
      BY <1>2 DEF Broadcast, client
    <2>2. s \in Session /\ e \in Number
      BY <1>2, ClientTypes DEF Broadcast, TypeInv
    <2> HIDE DEF s, t, e
    <2>3. /\ t.open = s.open /\ t.subscribed = s.subscribed
          /\ ~s.subscribed => t = s
      BY <2>1, <2>2, EnqueuedFields
    <2> QED  BY <2>1, <2>3 DEF Linked, Mounted, s, t
  <1>3. ASSUME NEW clients \in SUBSET Clients, Break(clients) PROVE Linked(c)'
    <2>1. CASE c \notin clients
      <3>1. Stays(c)
        BY <1>3, <2>1 DEF Break, Stays
      <3> QED  BY <3>1, StaysLinked
    <2>2. CASE c \in clients
      <3>1. /\ session'[c] = NoSession /\ wire'[c] = <<>> /\ asked'[c] = Nothing
            /\ UNCHANGED <<lastBlock, received>>
            /\ (Mounted(c)' <=> Mounted(c))
        BY <1>3, <2>2 DEF Break, Mounted
      <3> QED  BY <3>1, SessionShapes DEF Linked
    <2> QED  BY <2>1, <2>2
  <1>4. CASE Restart
    BY <1>3, <1>4 DEF Restart
  <1>5. CASE Mount(c)
    BY <1>5 DEF Mount, Linked, Mounted, TypeInv
  <1>6. CASE Connect(c)
    <2>1. /\ UNCHANGED <<wire, lastBlock, received>> /\ Mounted(c) /\ Mounted(c)'
          /\ session'[c] = NewSession /\ asked'[c] = lastBlock[c] /\ ~session[c].open
      <3>1. Table(asked)
        BY DEF TypeInv
      <3> QED  BY <1>6, <3>1, TableDomain DEF Connect, Mounted, TypeInv
    <2> QED  BY <2>1, SessionShapes DEF Linked
  <1>7. CASE Subscribe(c)
    <2>1. /\ UNCHANGED <<state, lastBlock, received>> /\ asked'[c] = Nothing /\ asked[c] # Nothing
          /\ session'[c].subscribed /\ session'[c].open = session[c].open
      <3>1. Table(asked)
        BY DEF TypeInv
      <3> QED  BY <1>7, <3>1, TableDomain, SubscribedSession DEF Subscribe, client, TypeInv
    <2> QED  BY <2>1 DEF Linked, Mounted
  <1>8. CASE Flush(c)
    <2>1. /\ UNCHANGED <<asked, state, lastBlock, received>>
          /\ session'[c].subscribed = session[c].subscribed /\ session'[c].open = session[c].open
      BY <1>8, FlushedSession DEF Flush, client, TypeInv
    <2>2. session[c].subscribed
      BY <1>8 DEF Flush, Linked
    <2> QED  BY <2>1, <2>2 DEF Linked, Mounted
  <1>9. CASE Receive(c)
    <2>1. wire[c] # <<>> /\ UNCHANGED <<session, asked>>
      BY <1>9 DEF Receive
    <2>2. session[c].subscribed /\ session[c].open /\ asked[c] = Nothing /\ Mounted(c)
      BY <2>1 DEF Linked
    <2>3. Mounted(c)'
      <3>1. state'[c] = state[c] \/ state'[c] = "degraded"
        BY <1>9 DEF Receive, TypeInv
      <3> QED  BY <2>2, <3>1 DEF Mounted
    <2> QED  BY <2>1, <2>2, <2>3 DEF Linked
  <1>10. CASE Drop(c)
    BY <1>3, <1>10 DEF Drop
  <1>11. ASSUME NEW d \in Clients \ {c},
                Mount(d) \/ Connect(d) \/ Subscribe(d) \/ Flush(d) \/ Receive(d) \/ Drop(d)
         PROVE  Linked(c)'
    <2>1. Stays(c)
      BY <1>11, OthersStay
    <2> QED  BY <2>1, StaysLinked
  <1> QED  BY <1>1, <1>2, <1>4, <1>5, <1>6, <1>7, <1>8, <1>9, <1>10, <1>11 DEF Next

(* A page that is open, and stays steady, keeps its invariant.             *)
LEMMA ClientStep ==
    ASSUME TypeInv, TypeInv', StreamInv, NEW c \in Clients, Linked(c), Mounted(c), Steady(c)',
           ClientInv(c), [Next]_vars
    PROVE  ClientInv(c)'
  <1>0. exposed'[c] = {} => exposed[c] = {}
    BY ExposedForGood
  <1>1. CASE IndexerCommits \/ EpochCloses
    BY <1>1, PublicationsAreBlocks, ClientPublish
  <1>2. CASE ListenerFails \/ Broadcast \/ Restart
    BY <1>2, ClientListenerFails, ClientBroadcast, ClientRestarts
  <1>3. CASE ListenerReconnects \/ UNCHANGED vars
    <2>1. Stays(c) /\ UNCHANGED <<log, foreign, void, feed, buffer>>
      BY <1>3 DEF ListenerReconnects, vars, stream, chain, client, Stays
    <2> QED  BY <1>0, <2>1, ClientStays
  <1>4. CASE IndexerRollsBack
    <2>1. Stays(c) /\ UNCHANGED <<log, foreign, void, feed, buffer>>
      BY <1>4, RewindExposes DEF IndexerRollsBack, client, Stays
    <2> QED  BY <1>0, <2>1, ClientStays
  <1>5. ASSUME NEW d \in Clients \ {c},
               Mount(d) \/ Connect(d) \/ Subscribe(d) \/ Flush(d) \/ Receive(d) \/ Drop(d)
        PROVE  ClientInv(c)'
    <2>1. Stays(c) /\ UNCHANGED <<log, foreign, void, feed, buffer>>
      BY <1>5, OthersStay
    <2> QED  BY <1>0, <2>1, ClientStays
  <1>6. CASE Connect(c) \/ Subscribe(c) \/ Flush(c) \/ Receive(c) \/ Drop(c)
    BY <1>6, ClientConnects, ClientSubscribes, ClientFlushes, ClientReceives, ClientDrops
  <1>7. ~Mount(c) /\ ~RangeRepeats
    BY RewindExposes DEF Mount, Mounted
  <1> QED  BY <1>1, <1>2, <1>3, <1>4, <1>5, <1>6, <1>7 DEF Next

(* A page under which nothing was taken back was so before, or opens now,  *)
(* with nothing out of order on its way.                                   *)
LEMMA SteadyBefore ==
    ASSUME TypeInv, TypeInv', NEW c \in Clients, Linked(c), Steady(c)', ~Steady(c), [Next]_vars
    PROVE  Mount(c) /\ Orderly
  <1>1. "rewound" \notin exposed[c] /\ ~Mounted(c) /\ Mounted(c)'
    BY ExposedForGood DEF Steady
  <1>2. state'[c] # state[c]
    BY <1>1 DEF Mounted
  <1>3. Mount(c)
    <2>1. CASE IndexerCommits \/ EpochCloses \/ IndexerRollsBack \/ RangeRepeats \/ Broadcast
               \/ ListenerFails \/ ListenerReconnects \/ UNCHANGED vars
      BY <1>2, <2>1 DEF IndexerCommits, EpochCloses, Publish, IndexerRollsBack, RangeRepeats, Broadcast,
         ListenerFails, ListenerReconnects, vars, client
    <2>2. CASE Restart
      BY <1>1, <2>2 DEF Restart, Break, Mounted
    <2>3. ASSUME NEW d \in Clients \ {c},
                 Mount(d) \/ Connect(d) \/ Subscribe(d) \/ Flush(d) \/ Receive(d) \/ Drop(d)
          PROVE  Mount(c)
      <3>1. Stays(c)
        BY <2>3, OthersStay
      <3> QED  BY <1>2, <3>1 DEF Stays
    <2>4. CASE Connect(c)
      BY <1>1, <2>4 DEF Connect, Mounted
    <2>5. CASE Subscribe(c) \/ Flush(c)
      BY <1>2, <2>5 DEF Subscribe, Flush, client
    <2>6. CASE Drop(c)
      BY <1>1, <2>6 DEF Drop, Break, Mounted
    <2>7. CASE Receive(c)
      BY <1>1, <2>7 DEF Receive, Linked
    <2> QED  BY <2>1, <2>2, <2>3, <2>4, <2>5, <2>6, <2>7 DEF Next
  <1>4. Orderly
    <2>1. ~Orderly => exposed' = Expose("rewound", {c})
      BY <1>3 DEF Mount
    <2> QED  BY <2>1 DEF Expose, Steady
  <1> QED  BY <1>3, <1>4

(* Nobody is connected at first.                                           *)
LEMMA InitClients == Init => LogInv /\ \A c \in Clients : Linked(c) /\ ~Steady(c)
  <1> SUFFICES ASSUME Init PROVE LogInv /\ \A c \in Clients : Linked(c) /\ ~Steady(c)
    OBVIOUS
  <1>1. LogInv
    BY DEF Init, LogInv, Live, Events
  <1>2. ASSUME NEW c \in Clients PROVE Linked(c) /\ ~Steady(c)
    BY SessionShapes DEF Init, Linked, Mounted, Steady
  <1> QED  BY <1>1, <1>2

(* The invariant the theorems below rest on: types; the order of the blocks*)
(* that stand; while a page is open under which nothing was taken back, the*)
(* order of what is retained and on its way; and for each such page, that  *)
(* what it received, is sent and will be sent continue each other and that *)
(* what it lacks is under way, or counted by name.                         *)
THEOREM RealtimeIsSafe == Spec => []RInv
  <1>1. Init => RInv
    BY InitShape, InitClients DEF RInv
  <1>2. RInv /\ [Next]_vars => RInv'
    <2> SUFFICES ASSUME RInv, [Next]_vars PROVE RInv'
      OBVIOUS
    <2>1. TypeInv /\ LogInv /\ \A c \in Clients : Linked(c)
      BY DEF RInv
    <2>2. TypeInv' /\ LogInv'
      BY <2>1, TypeStep, LogStep
    <2>3. \A c \in Clients : Linked(c)'
      BY <2>1, <2>2, LinkedStep
    <2>4. ASSUME NEW c \in Clients, Steady(c)' PROVE InWay' /\ ClientInv(c)'
      <3>1. CASE Steady(c)
        <4>1. StreamInv /\ ClientInv(c) /\ Mounted(c) /\ Linked(c)
          BY <3>1 DEF RInv, StreamInv, Steady
        <4> QED  BY <2>1, <2>2, <2>4, <4>1, StreamStep, ClientStep
      <3>2. CASE ~Steady(c)
        <4>1. Mount(c) /\ Orderly
          BY <2>1, <2>2, <2>4, <3>2, SteadyBefore
        <4>2. StreamInv
          BY <2>1, <4>1, OrderlyWay DEF StreamInv
        <4>3. InWay'
          BY <2>1, <2>4, <4>2, StreamStep
        <4>4. ClientInv(c)'
          BY <2>1, <2>2, <4>1, ClientMounts
        <4> QED  BY <4>3, <4>4
      <3> QED  BY <3>1, <3>2
    <2>5. TypeInv' /\ LogInv' /\ ((\E c \in Clients : Steady(c)') => InWay')
      BY <2>2, <2>4
    <2>6. \A c \in Clients : Linked(c)' /\ (Steady(c)' => ClientInv(c)')
      BY <2>3, <2>4
    <2> QED  BY <2>5, <2>6 DEF RInv
  <1> QED  BY <1>1, <1>2, PTL DEF Spec

(* The ring retains no more than its capacity and a session queues no more *)
(* than its limit, whatever is published and however slowly a client reads.*)
THEOREM RingAndQueuesAreBounded == Spec => []TypeOK
  <1>1. RInv => TypeOK
    BY DEF RInv, TypeInv, Linked, States, TypeOK
  <1> QED  BY <1>1, RealtimeIsSafe, PTL

(* gateway.ts:16: a page at rest that looks healthy has every event        *)
(* committed since it was rendered that still stands, the closings of      *)
(* epochs included, over any number of broken sockets, replays, full       *)
(* queues, blocks taken back and repeated ranges, outside the seven named  *)
(* losses that neither side notices.                                       *)
THEOREM AHealthyPageIsComplete == Spec => []NoSilentHole
  <1>1. ASSUME RInv, NEW c \in Clients, AtRest(c), state[c] = "open", exposed[c] = {}
        PROVE  Missing(c) = {}
    <2>1. NoHole(c) /\ session[c].subscribed
      BY <1>1 DEF RInv, AtRest, Steady, Mounted, ClientInv
    <2>2. Mounted(c) /\ ~Warned(c)
      BY <1>1 DEF AtRest, Warned, Mounted, ToSet
    <2>3. UnderWay(c)
      BY <1>1, <2>1, <2>2 DEF NoHole
    <2> QED  BY <1>1, <2>3 DEF AtRest, UnderWay, ToSet
  <1>2. RInv => NoSilentHole
    BY <1>1 DEF NoSilentHole
  <1> QED  BY <1>2, RealtimeIsSafe, PTL

(* No event reaches a page twice, and those that name a block come in the  *)
(* order of their commits, over any number of connections and replays,     *)
(* unless blocks were taken back or ranges repeated since the page opened, *)
(* or what they left was still on its way then.                            *)
THEOREM StreamKeepsItsOrder == Spec => []StreamInOrder
  <1>1. ASSUME RInv PROVE StreamInOrder
    <2> SUFFICES ASSUME NEW c \in Clients, "rewound" \notin exposed[c],
                        NEW i \in DOMAIN received[c], NEW j \in DOMAIN received[c], i < j
                 PROVE  /\ received[c][i] # received[c][j]
                        /\ {log[received[c][i]], log[received[c][j]]} \cap {0} = {}
                              => received[c][i] < received[c][j]
      BY DEF StreamInOrder
    <2>1. TypeInv /\ Linked(c) /\ (Steady(c) => ClientInv(c))
      BY <1>1 DEF RInv
    <2>2. received[c] \in Seq(Number)
      BY <2>1, ClientTypes
    <2>3. received[c] # <<>>
      BY <2>2
    <2>4. Ordered(received[c])
      BY <2>1, <2>3 DEF Linked, Steady, ClientInv, InOrder
    <2>5. received[c][i] # Error /\ received[c][j] # Error
      BY <2>2 DEF Number, Error
    <2>6. Precedes(received[c][i], received[c][j])
      BY <2>4, <2>5 DEF Ordered
    <2> QED  BY <2>6 DEF Precedes
  <1> QED  BY <1>1, RealtimeIsSafe, PTL
=============================================================================
