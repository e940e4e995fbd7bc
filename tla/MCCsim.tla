------------------------------- MODULE MCCsim -------------------------------
(***************************************************************************)
(* Two sets of two lines; in one of the sets three blocks compete.         *)
(***************************************************************************)
EXTENDS Csim

=============================================================================
