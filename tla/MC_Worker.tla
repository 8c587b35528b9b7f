------------------------------ MODULE MC_Worker -----------------------------
(***************************************************************************)
(* Two workers, one market, a chain of a few blocks over two days.         *)
(***************************************************************************)
EXTENDS WorkerCorrectness
=============================================================================
