-------------------------------- MODULE MCMm --------------------------------
(***************************************************************************)
(* Small instances of the allocator: four list headers instead of 18, and  *)
(* a heap of a few chunks.                                                 *)
(***************************************************************************)
EXTENDS Mm, TLC

Symmetry == Permutations(Data)

=============================================================================
