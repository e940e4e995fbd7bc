------------------------------- MODULE MCRio -------------------------------
(***************************************************************************)
(* A stream of six bytes in three lines, one of them empty.                *)
(***************************************************************************)
EXTENDS Rio

MCNewlines == {2, 3}

=============================================================================
