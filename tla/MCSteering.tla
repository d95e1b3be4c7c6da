------------------------------ MODULE MCSteering ------------------------------
(***************************************************************************)
(* Steering on a small instance: one run is as good as another, and so is    *)
(* one thread.                                                               *)
(***************************************************************************)
EXTENDS Steering, TLC

MCSymmetry == Permutations(Runs) \union Permutations(Threads)
=============================================================================
