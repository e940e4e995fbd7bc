------------------------------- MODULE MCTsh --------------------------------
(***************************************************************************)
(* Small instances of the shell: two or three processes, two slots.        *)
(***************************************************************************)
EXTENDS Tsh, TLC

Symmetry == Permutations(Pid)

=============================================================================
