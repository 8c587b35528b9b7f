---------------------------- MODULE ChainTracker ----------------------------
(***************************************************************************)
(* services/indexer/src/reorg.ts: what the indexer remembers of the chain  *)
(* it has processed, and how it judges a header against it.  A window is a *)
(* sequence of headers [number, hash, parent] of increasing height, not    *)
(* necessarily without holes.                                              *)
(***************************************************************************)
EXTENDS Integers, Sequences, SequencesExt, FiniteSets

CONSTANT Depth       \* headers retained, 128
ASSUME TrackerAssumption == Depth \in Nat \ {0}

Retained(window, n) == {i \in DOMAIN window : window[i].number = n}
EarliestRetained(window) == window[1].number

(* Where the chain of this header left the one in the window. *)
LocateFork(window, block) ==
    LET parents == Retained(window, block.number - 1)
    IN  IF window = <<>> THEN [action |-> "reindex_required"]
        ELSE IF block.number <= EarliestRetained(window)
             THEN [action |-> "reindex_required"]
        ELSE IF parents = {} THEN [action |-> "reindex_required"]
        ELSE [action |-> "reorg",
              rollbackTo |-> IF \E i \in parents : window[i].hash = block.parent
                             THEN block.number - 1 ELSE EarliestRetained(window)]

Inspect(window, block) ==
    IF window = <<>> THEN [action |-> "append"]
    ELSE LET head == Last(window)
         IN  IF block.parent = head.hash /\ block.number = head.number + 1
             THEN [action |-> "append"]
             ELSE IF block.number > head.number + 1 THEN [action |-> "gap"]
             ELSE IF \E i \in Retained(window, block.number) : window[i].hash = block.hash
             THEN [action |-> "duplicate"]
             ELSE LocateFork(window, block)

(* The members of a sequence that are in a set, in their order. *)
Kept(s, set) ==
    LET kept[i \in 0 .. Len(s)] ==
            IF i = 0 THEN <<>>
            ELSE IF s[i] \in set THEN Append(kept[i - 1], s[i]) ELSE kept[i - 1]
    IN  kept[Len(s)]

(* Drops every retained header above n. *)
DropAbove(window, n) == Kept(window, {ref \in ToSet(window) : ref.number <= n})

(* Slip: headers are never let go of.                                       *)
CommitKeepingAll(window, block) == Append(DropAbove(window, block.number - 1), block)

(* An accepted header replaces its height and everything above it; the      *)
(* oldest ones leave when the window is full.                               *)
Commit(window, block) ==
    LET longer == Append(DropAbove(window, block.number - 1), block)
    IN  IF Len(longer) > Depth THEN Tail(longer) ELSE longer
=============================================================================
