------------------------------ MODULE MCMdriver ------------------------------
(***************************************************************************)
(* Runs of the driver: a long trace or two shorter ones for the allocator  *)
(* of mm.c, a short one for the arbitrary package, which has many          *)
(* addresses to choose from.                                               *)
(***************************************************************************)
EXTENDS Mdriver, TLC

MCLengths == [mm |-> {<<5>>, <<3, 3>>}, any |-> {<<3>>}]

Symmetry == Permutations(Ids)

=============================================================================
