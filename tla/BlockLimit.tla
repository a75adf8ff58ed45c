----------------------------- MODULE BlockLimit -----------------------------
(***************************************************************************)
(* The limit of the block manager, for its atomic operations               *)
(* (BlockManager) and for the calls of several threads                     *)
(* (BlockManagerThreads).                                                  *)
(***************************************************************************)
EXTENDS Naturals, FiniteSets

CONSTANT
  MaxActiveBlocks (* the limit given to the constructor: 1000 for the engine *)

ASSUME ManagerAssumption == MaxActiveBlocks \in Nat
=============================================================================
