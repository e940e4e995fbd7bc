-------------------------------- MODULE Seq --------------------------------
(***************************************************************************)
(* The sequential Y86-64 processor of lab6 with iaddq: the control logic   *)
(* of seq-full.c, for instruction i, in the simulator ssim.c.              *)
(***************************************************************************)
EXTENDS Y86

gen_need_regids(icode) ==
  icode \in {IRRMOVQ, IOPQ, IPUSHQ, IPOPQ, IIRMOVQ, IRMMOVQ, IMRMOVQ, IIADDQ}
gen_need_valC(icode) == icode \in {IIRMOVQ, IRMMOVQ, IMRMOVQ, IJXX, ICALL, IIADDQ}

gen_instr_valid(i) == i.icode \in Icode

gen_srcA(i) == CASE i.icode \in {IRRMOVQ, IRMMOVQ, IOPQ, IPUSHQ} -> i.rA
                 [] i.icode \in {IPOPQ, IRET} -> RRSP
                 [] OTHER -> RNONE

gen_srcB(i) == CASE i.icode \in {IOPQ, IRMMOVQ, IMRMOVQ, IIADDQ} -> i.rB
                 [] i.icode \in {IPUSHQ, IPOPQ, ICALL, IRET} -> RRSP
                 [] OTHER -> RNONE

gen_dstE(i, cond) == CASE i.icode = IRRMOVQ /\ cond -> i.rB
                       [] i.icode \in {IIRMOVQ, IOPQ, IIADDQ} -> i.rB
                       [] i.icode \in {IPUSHQ, IPOPQ, ICALL, IRET} -> RRSP
                       [] OTHER -> RNONE

gen_dstM(i) == IF i.icode \in {IMRMOVQ, IPOPQ} THEN i.rA ELSE RNONE

gen_aluA(i, vala) == CASE i.icode \in {IRRMOVQ, IOPQ} -> vala
                       [] i.icode \in {IIRMOVQ, IRMMOVQ, IMRMOVQ, IIADDQ} -> i.valC
                       [] i.icode \in {ICALL, IPUSHQ} -> -1
                       [] i.icode \in {IRET, IPOPQ} -> 1
                       [] OTHER -> 0

gen_aluB(i, valb) ==
  IF i.icode \in {IRMMOVQ, IMRMOVQ, IOPQ, ICALL, IPUSHQ, IRET, IPOPQ, IIADDQ}
  THEN valb ELSE 0

gen_alufun(i) == IF i.icode \in {IOPQ, IIADDQ} THEN i.ifun ELSE A_ADD
gen_set_cc(i) == i.icode \in {IOPQ, IIADDQ}

gen_mem_read(i) == i.icode \in {IMRMOVQ, IPOPQ, IRET}
gen_mem_write(i) == i.icode \in {IRMMOVQ, IPUSHQ, ICALL}

gen_mem_addr(i, vale, vala) ==
  CASE i.icode \in {IRMMOVQ, IPUSHQ, ICALL, IMRMOVQ} -> vale
    [] i.icode \in {IPOPQ, IRET} -> vala
    [] OTHER -> 0

gen_mem_data(i, vala, valp) == CASE i.icode \in {IRMMOVQ, IPUSHQ} -> vala
                                 [] i.icode = ICALL -> valp
                                 [] OTHER -> 0

gen_Stat(i, imem_error, dmem_error) ==
  CASE imem_error \/ dmem_error -> SADR
    [] ~gen_instr_valid(i) -> SINS
    [] i.icode = IHALT -> SHLT
    [] OTHER -> SAOK

gen_new_pc(i, cond, valm, valp) == CASE i.icode = ICALL -> i.valC
                                     [] i.icode = IJXX /\ cond -> i.valC
                                     [] i.icode = IRET -> valm
                                     [] OTHER -> valp

Sim == INSTANCE Ssim

=============================================================================
