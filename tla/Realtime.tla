------------------------------ MODULE Realtime ------------------------------
(***************************************************************************)
(* The way of an event from the database to a browser: NOTIFY and the      *)
(* listener (packages/database/src/notify.ts), the gateway and its socket  *)
(* server (services/realtime/src), and the client (apps/web live.ts).      *)
(*                                                                         *)
(* An event is its number in the order of commits; log[e] is the block it  *)
(* speaks of, and 0 for the closing of an epoch, which names none.  Pages  *)
(* show one market; the events of others share the feed and the ring.      *)
(* Messages that carry no event (hello, freshness) are left out.           *)
(*                                                                         *)
(* The indexer takes blocks back and commits other ones in their place,    *)
(* with the same numbers, and says nothing of it (ingest.ts:661-683): the  *)
(* gateway has a handleReorg, which main.ts never calls, so neither does   *)
(* this module.  A range processed again publishes its events again, also  *)
(* when their rows are there already (ingest.ts:868-903).                  *)
(***************************************************************************)
EXTENDS Integers, FiniteSets, Sequences, SequencesExt, FiniteSetsExt

CONSTANTS
    Clients,
    Capacity,      \* events the replay buffer retains, 8192
    MaxQueue,      \* events a session queues at most, 512
    MaxEvents, MaxBlocks, MaxEpochs,       \* bounds on what is published
    MaxFaults      \* bound on rollbacks, repeated ranges, lost sockets and listeners, restarts

ASSUME RealtimeAssumption ==
    /\ Capacity \in Nat \ {0} /\ MaxQueue \in Nat \ {0}
    /\ {MaxEvents, MaxBlocks, MaxEpochs, MaxFaults} \subseteq Nat

VARIABLES
    log,         \* what was committed and published
    foreign,     \* events of other markets
    void,        \* events of blocks that were taken back
    indexed,     \* the last block with an event, or the block returned to
    listening,   \* whether the gateway's process holds a LISTEN
    feed,        \* notifications on their way to it
    buffer,      \* ReplayBuffer
    session,     \* per client: the gateway's session, NoSession without a socket
    wire,        \* messages sent on the socket and not yet handled
    asked,       \* the subscription on its way to the gateway
    state,       \* the client's connection state
    lastBlock,   \* the block it would resume from, None before the first event
    base,        \* events the page was rendered with
    received,    \* events received since, in their order
    faults,
    exposed      \* per client: losses that neither side can notice

chain == <<log, foreign, void, indexed>>
stream == <<chain, listening, feed>>
client == <<state, lastBlock, base, received>>
vars == <<stream, buffer, session, wire, asked, client, faults, exposed>>

None == -1
NoSession == [open |-> FALSE, subscribed |-> FALSE, queue |-> <<>>, degraded |-> FALSE]
NewSession == [NoSession EXCEPT !.open = TRUE]
Error == 0                 \* an error message, where an event's number could be

Nothing == -2              \* no subscription on its way
Fresh == None              \* one without sinceBlock

Events == 1 .. Len(log)
Live == Events \ void
Ours == Events \ foreign
Mounted(c) == state[c] # "unmounted"
Expose(why, clients) ==
    [c \in Clients |-> IF c \in clients THEN exposed[c] \cup {why} ELSE exposed[c]]
Fault == faults < MaxFaults /\ faults' = faults + 1
Viewers == {c \in Clients : Mounted(c)}

-----------------------------------------------------------------------------
(* ReplayBuffer *)

(* Slip: the bound is looked at before the event is added. *)
TrimFirst(items, e) == Append(IF Len(items) > Capacity THEN Tail(items) ELSE items, e)

AppendBounded(items, e) ==
    LET longer == Append(items, e)
    IN  IF Len(longer) > Capacity THEN Tail(longer) ELSE longer

(* Slip: one block too far is thought to be within reach. *)
ReachedFromBelow(since) == buffer = <<>> \/ since + 2 >= log[Head(buffer)]

CanReplayFrom(since) == buffer = <<>> \/ since + 1 >= log[Head(buffer)]

(* The retained events that are in a set: filter, as a recursive function.  *)
Kept(items, events) ==
    LET kept[i \in 0 .. Len(items)] ==
            IF i = 0 THEN <<>>
            ELSE IF items[i] \in events THEN Append(kept[i - 1], items[i]) ELSE kept[i - 1]
    IN  kept[Len(items)]

(* Slip: the block a client has seen is replayed to it. *)
FromBlock(since) == Kept(buffer, {e \in Ours : log[e] >= since})

Since(since) == Kept(buffer, {e \in Ours : log[e] > since})

(* Slip: a full queue takes the place of its oldest entry, and says nothing. *)
EnqueueQuietly(s, e) ==
    IF ~s.subscribed THEN s
    ELSE [s EXCEPT !.queue = IF Len(@) >= MaxQueue THEN Append(Tail(@), e) ELSE Append(@, e)]

(* Session.enqueue: what does not fit is dropped, and the session knows. *)
Enqueued(s, e) ==
    IF ~s.subscribed THEN s
    ELSE IF Len(s.queue) >= MaxQueue THEN [s EXCEPT !.degraded = TRUE]
    ELSE [s EXCEPT !.queue = Append(@, e)]

-----------------------------------------------------------------------------
Init ==
    /\ log = <<>> /\ foreign = {} /\ void = {} /\ indexed = 0
    /\ listening = TRUE /\ feed = <<>> /\ buffer = <<>>
    /\ session = [c \in Clients |-> NoSession]
    /\ wire = [c \in Clients |-> <<>>]
    /\ asked = [c \in Clients |-> Nothing]
    /\ state = [c \in Clients |-> "unmounted"]
    /\ lastBlock = [c \in Clients |-> None]
    /\ base = [c \in Clients |-> 0]
    /\ received = [c \in Clients |-> <<>>]
    /\ faults = 0
    /\ exposed = [c \in Clients |-> {}]

(* publish, inside the transaction that writes the rows: NOTIFY delivers at *)
(* its commit, to who listens then.  Any of the events may be of another    *)
(* market.                                                                  *)
Publish(blocks) ==
    /\ Len(log) + Len(blocks) <= MaxEvents
    /\ log' = log \o blocks
    /\ \E others \in SUBSET DOMAIN blocks : foreign' = foreign \cup {Len(log) + i : i \in others}
    /\ feed' = IF listening THEN feed \o [i \in DOMAIN blocks |-> Len(log) + i] ELSE feed
    /\ exposed' = IF listening THEN exposed ELSE Expose("outage", Viewers)
    /\ UNCHANGED <<void, listening, buffer, session, wire, asked, client, faults>>

(* The next block that has an event, or two: indexed is the last of them. *)
IndexerCommits ==
    \E block \in indexed + 1 .. MaxBlocks, n \in {1, 2} :
        /\ indexed' = block
        /\ Publish([i \in 1 .. n |-> block])

EpochCloses ==
    /\ Cardinality({e \in Events : log[e] = 0}) < MaxEpochs
    /\ Publish(<<0>>) /\ UNCHANGED indexed

(* The blocks above one are taken back.  Pages that show their events are   *)
(* not told, and count as given the blocks that follow.                     *)
Above(n) == {e \in Live : log[e] > n}
IndexerRollsBack ==
    /\ Fault
    /\ \E n \in 0 .. indexed - 1 :
          /\ indexed' = n
          /\ void' = void \cup Above(n)
          /\ exposed' = IF Above(n) = {} THEN exposed ELSE Expose("rewound", Viewers)
    /\ UNCHANGED <<log, foreign, listening, feed, buffer, session, wire, asked, client>>

(* A range that was committed is processed again. *)
RangeRepeats ==
    /\ listening /\ Fault
    /\ \E n \in 0 .. indexed - 1 :
          /\ Above(n) # {}
          /\ feed' = feed \o Kept([e \in Events |-> e], Above(n))
    /\ exposed' = Expose("rewound", Viewers)
    /\ UNCHANGED <<chain, listening, buffer, session, wire, asked, client>>

(* The listener's connection fails: what was on its way is gone, and while  *)
(* it backs off nothing more arrives.                                       *)
ListenerFails ==
    /\ listening /\ Fault
    /\ listening' = FALSE /\ feed' = <<>>
    /\ exposed' = IF feed = <<>> THEN exposed ELSE Expose("outage", Viewers)
    /\ UNCHANGED <<chain, buffer, session, wire, asked, client>>

ListenerReconnects ==
    /\ ~listening
    /\ listening' = TRUE
    /\ UNCHANGED <<chain, feed, buffer, session, wire, asked, client, faults, exposed>>

(* What the page neither showed when it was rendered nor received since. *)
Seen(c) == 1 .. base[c] \cup ToSet(received[c])
Missing(c) == (Live \cap Ours) \ Seen(c)

(* Gateway.broadcast: retained for replay and offered to every session.  A  *)
(* client that is not subscribed, and would resume from this block or from  *)
(* a later one, will not be sent it: the closing of an epoch never is.      *)
Passed(c, e) == e \in Missing(c) /\ log[e] <= lastBlock[c]
Broadcast ==
    /\ feed # <<>>
    /\ feed' = Tail(feed)
    /\ buffer' = AppendBounded(buffer, Head(feed))
    /\ session' = [c \in Clients |->
                    IF Head(feed) \in Ours THEN Enqueued(session[c], Head(feed)) ELSE session[c]]
    /\ exposed' = Expose("passed", {c \in Viewers : ~session[c].subscribed /\ Passed(c, Head(feed))})
    /\ UNCHANGED <<chain, listening, wire, asked, client, faults>>

-----------------------------------------------------------------------------
(* The client.  The page was rendered from a snapshot before its socket     *)
(* opens, and while messages of blocks taken back, or messages out of their *)
(* order, are on their way or retained, it may be sent them.                *)
Orderly ==
    LET way == buffer \o feed
    IN  /\ ToSet(way) \subseteq Live
        /\ \A i, j \in DOMAIN way : i < j => way[i] < way[j]

Mount(c) ==
    /\ state[c] = "unmounted"
    /\ state' = [state EXCEPT ![c] = "connecting"]
    /\ base' = [base EXCEPT ![c] = Len(log)]
    /\ exposed' = IF Orderly THEN exposed ELSE Expose("rewound", {c})
    /\ UNCHANGED <<stream, buffer, session, wire, asked, lastBlock, received, faults>>

(* onopen: whatever the state was, it is "open" now, also for a client that *)
(* was told to fetch a snapshot and has not.                                *)
Connect(c) ==
    /\ state[c] \in {"connecting", "closed", "degraded"} /\ ~session[c].open
    /\ session' = [session EXCEPT ![c] = NewSession]
    /\ asked' = [asked EXCEPT ![c] = lastBlock[c]]
    /\ state' = [state EXCEPT ![c] = "open"]
    /\ exposed' = IF state[c] = "degraded" THEN Expose("forgotten", {c}) ELSE exposed
    /\ UNCHANGED <<stream, buffer, wire, lastBlock, base, received, faults>>

(* The oldest event retained misleads when the ring has let go of an event  *)
(* and this one is of the same block, or names no block, as then every      *)
(* block seems within reach.                                                *)
Misled(c) ==
    /\ buffer # <<>>
    /\ \E e \in Missing(c) : e < Head(buffer) /\ log[Head(buffer)] \in {0, log[e]}

(* Session.subscribe: replay, or the reason why not.  Without sinceBlock    *)
(* nothing is replayed, on the word that a snapshot follows.                *)
Subscribe(c) ==
    /\ asked[c] # Nothing
    /\ asked' = [asked EXCEPT ![c] = Nothing]
    /\ session' = [session EXCEPT ![c].subscribed = TRUE]
    /\ IF asked[c] = Fresh
       THEN /\ exposed' = IF \E e \in Missing(c) : e \notin ToSet(feed)
                          THEN Expose("snapshot", {c}) ELSE exposed
            /\ UNCHANGED wire
       ELSE LET replayed == Since(asked[c])
                refused == ~CanReplayFrom(asked[c]) \/ Len(replayed) > MaxQueue
            IN  /\ wire' = [wire EXCEPT ![c] = @ \o IF refused THEN <<Error>> ELSE replayed]
                /\ exposed' = IF ~refused /\ Misled(c) THEN Expose("ring", {c}) ELSE exposed
    /\ UNCHANGED <<stream, buffer, client, faults>>

(* RealtimeServer.flushAll, for one connection. *)
Flush(c) ==
    /\ session[c].open /\ (session[c].degraded \/ session[c].queue # <<>>)
    /\ wire' = [wire EXCEPT ![c] = @ \o (IF session[c].degraded THEN <<Error>> ELSE <<>>) \o session[c].queue]
    /\ session' = [session EXCEPT ![c].degraded = FALSE, ![c].queue = <<>>]
    /\ UNCHANGED <<stream, buffer, asked, client, faults, exposed>>

Receive(c) ==
    /\ wire[c] # <<>>
    /\ wire' = [wire EXCEPT ![c] = Tail(@)]
    /\ LET m == Head(wire[c])
       IN  IF m = Error
           THEN state' = [state EXCEPT ![c] = "degraded"] /\ UNCHANGED <<lastBlock, received>>
           ELSE /\ received' = [received EXCEPT ![c] = Append(@, m)]
                /\ lastBlock' = [lastBlock EXCEPT ![c] = IF log[m] = 0 THEN @ ELSE log[m]]
                /\ UNCHANGED state
    /\ UNCHANGED <<stream, buffer, session, asked, base, faults, exposed>>

(* The sockets of some clients break, with what is under way on them.  A    *)
(* client that has part of a block will not be sent the rest of it, nor the *)
(* closing of an epoch.                                                     *)
Halfway(c) == \E e \in Missing(c) \ ToSet(feed) : log[e] <= lastBlock[c]
Break(clients) ==
    /\ session' = [c \in Clients |-> IF c \in clients THEN NoSession ELSE session[c]]
    /\ wire' = [c \in Clients |-> IF c \in clients THEN <<>> ELSE wire[c]]
    /\ asked' = [c \in Clients |-> IF c \in clients THEN Nothing ELSE asked[c]]
    /\ state' = [c \in Clients |-> IF c \in clients /\ state[c] = "open" THEN "closed" ELSE state[c]]
    /\ UNCHANGED <<lastBlock, base, received>>

Drop(c) ==
    /\ session[c].open /\ Fault
    /\ Break({c})
    /\ exposed' = IF Halfway(c) THEN Expose("passed", {c}) ELSE exposed
    /\ UNCHANGED <<stream, buffer>>

(* The gateway restarts with an empty buffer, which vouches for any block. *)
Restart ==
    /\ Fault
    /\ listening' = TRUE /\ feed' = <<>> /\ buffer' = <<>>
    /\ Break({c \in Clients : session[c].open})
    /\ exposed' = Expose("restart", Viewers)
    /\ UNCHANGED chain

Next ==
    \/ IndexerCommits \/ EpochCloses \/ IndexerRollsBack \/ RangeRepeats
    \/ ListenerFails \/ ListenerReconnects \/ Broadcast \/ Restart
    \/ \E c \in Clients :
          Mount(c) \/ Connect(c) \/ Subscribe(c) \/ Flush(c) \/ Receive(c) \/ Drop(c)

Spec == Init /\ [][Next]_vars

(* The listener reconnects, the gateway handles notifications and flushes   *)
(* on its timer, sockets deliver and a client keeps reconnecting.           *)
FairSpec ==
    /\ Spec
    /\ WF_vars(ListenerReconnects) /\ WF_vars(Broadcast)
    /\ \A c \in Clients :
          WF_vars(Connect(c)) /\ WF_vars(Subscribe(c)) /\ WF_vars(Flush(c)) /\ WF_vars(Receive(c))

-----------------------------------------------------------------------------
(* Types; the ring and the queues keep to their bounds.                     *)
TypeOK ==
    /\ Len(buffer) <= Capacity
    /\ \A c \in Clients :
         /\ Len(session[c].queue) <= MaxQueue
         /\ state[c] \in {"unmounted", "connecting", "open", "closed", "degraded"}
         /\ session[c].open => Mounted(c)

AtRest(c) ==
    /\ listening /\ feed = <<>> /\ session[c].subscribed /\ ~session[c].degraded
    /\ session[c].queue = <<>> /\ wire[c] = <<>>

(* gateway.ts:16: outside the losses that exposed names, a client that      *)
(* looks healthy has every event that was committed since its page was      *)
(* rendered and still stands; one that was cut off, fell behind or asked    *)
(* for more than is retained says that it is degraded.                      *)
NoSilentHole ==
    \A c \in Clients :
        AtRest(c) /\ state[c] = "open" /\ exposed[c] = {} => Missing(c) = {}

(* Events reach a client in the order of their commits and none of them     *)
(* twice, over any number of connections and replays, as long as the        *)
(* indexer took back or repeated nothing of what is on its way.             *)
StreamInOrder ==
    \A c \in Clients : "rewound" \notin exposed[c] =>
        \A i, j \in DOMAIN received[c] :
            i < j => /\ received[c][i] # received[c][j]
                     /\ {log[received[c][i]], log[received[c][j]]} \cap {0} = {}
                            => received[c][i] < received[c][j]

(* In the end a client is up to date or knows that it is not, outside the   *)
(* same losses.                                                             *)
SettlesHonestly ==
    \A c \in Clients :
        []<>( \/ ~Mounted(c) \/ state[c] = "degraded" \/ exposed[c] # {}
              \/ Missing(c) = {} )
=============================================================================
