----------------------------- MODULE MC_Indexer -----------------------------
(***************************************************************************)
(* A chain of a few blocks about one market.                               *)
(***************************************************************************)
EXTENDS IndexerCorrectness

MC_Accounts == {"curve", "alice", "pool"}
MC_Payloads == {"quiet", "launch", "cross", "submit", "activate", "cancel"}
MC_TradePayloads == {"quiet", "launch", "buy", "sell", "cross", "graduate"}
=============================================================================
