------------------------------- MODULE Tools -------------------------------
(***************************************************************************)
(* The programs that make the input of the processors: a run is one of     *)
(* hcl2c, which makes their control logic, or one of the two assemblers    *)
(* on a program for them.  They share no state.                            *)
(***************************************************************************)
EXTENDS Assemblers, Hcl

toolvars == <<asmvars, hclvars>>

ToolsInit == /\ AsmInit
             /\ hcl \in (IF source = <<>> THEN {"idle", "reading"} ELSE {"idle"})
             /\ HclInit

ToolsNext == \/ hcl = "idle" /\ AsmNext /\ UNCHANGED hclvars
             \/ HclNext /\ UNCHANGED asmvars

ToolsSpec == ToolsInit /\ [][ToolsNext]_toolvars

=============================================================================
