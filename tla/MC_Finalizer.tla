---------------------------- MODULE MC_Finalizer ----------------------------
(***************************************************************************)
(* Two holders and the pool's address; blocks a second apart, two a day.   *)
(***************************************************************************)
EXTENDS FinalizerCorrectness
=============================================================================
