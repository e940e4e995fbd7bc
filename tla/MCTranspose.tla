---------------------------- MODULE MCTranspose ----------------------------
(***************************************************************************)
(* The shapes that driver.py asks for, and small and uneven ones.          *)
(***************************************************************************)
EXTENDS Transpose

ShapesDef == {<<32, 32>>, <<64, 64>>, <<61, 67>>}
             \cup {32} \X {1, 3, 8, 9, 12, 16, 17, 23, 24}
             \cup {<<8, 32>>, <<64, 16>>, <<16, 64>>, <<64, 63>>, <<33, 32>>}
             \cup {1, 7, 8, 9, 16, 17} \X {1, 7, 8, 9, 16, 17}

=============================================================================
