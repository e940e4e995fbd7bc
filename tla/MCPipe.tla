------------------------------- MODULE MCPipe -------------------------------
(***************************************************************************)
(* Instances of Pipe and Machines: programs over three registers, words of four bits    *)
(* and three words of data memory.                                         *)
(***************************************************************************)
EXTENDS Machines

CONSTANTS RAX, RBX

Registers == {RAX, RBX, RRSP}

Make(icode, ifun, rA, rB, valC) ==
  [icode |-> icode, ifun |-> ifun, rA |-> rA, rB |-> rB, valC |-> valC]

OneTwoThree == [a \in Address |-> a + 1]

\* No instruction stores through a register that a load may just be reading, and
\* none addresses memory without a base register.
SafePrograms ==
  {Make(INOP, 0, RNONE, RNONE, 0),
   Make(IIRMOVQ, 0, RNONE, RRSP, 2),
   Make(IRRMOVQ, 4, RAX, RBX, 0),
   Make(IMRMOVQ, 0, RBX, RAX, 1),
   Make(IRMMOVQ, 0, RBX, RAX, 0),
   Make(IOPQ, A_XOR, RBX, RAX, 0),
   Make(IOPQ, A_AND, RAX, RBX, 0),
   Make(IOPQ, A_SUB, RAX, RBX, 0),
   Make(IIADDQ, 0, RNONE, RAX, -1),
   Make(IJXX, 1, RNONE, RNONE, 0),
   Make(IJXX, 5, RNONE, RNONE, 3),
   Make(ICALL, 0, RNONE, RNONE, 2),
   Make(IRET, 0, RNONE, RNONE, 0),
   Make(IPUSHQ, 0, RBX, RNONE, 0),
   Make(IPOPQ, 0, RRSP, RNONE, 0),
   Make(INVALID, 0, RNONE, RNONE, 0)}

\* They are such as the theorems of MachinesProof speak of.
ASSUME SafeAssumption == InstructionsAreWellFormed /\ StoresAreElsewhere

=============================================================================
