----------------------------- MODULE MC_Realtime ----------------------------
(***************************************************************************)
(* Browsers of one market behind one gateway.                              *)
(***************************************************************************)
EXTENDS Realtime

(* A page that was mounted when blocks were taken back, the listener was    *)
(* away or the gateway restarted has lost what nobody will tell it, and     *)
(* nothing is claimed of its completeness from there on: such states are    *)
(* looked at, what follows them is not explored.                            *)
SomePageCounts ==
    \E c \in Clients : exposed[c] \cap {"rewound", "outage", "restart"} = {}
=============================================================================
