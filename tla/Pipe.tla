-------------------------------- MODULE Pipe --------------------------------
(***************************************************************************)
(* The pipelined Y86-64 processor of lab6: the control logic of            *)
(* pipe-full.hcl in the simulator psim.c.  A step is one cycle.  The       *)
(* program is chosen instruction by instruction when it is first fetched.  *)
(*                                                                         *)
(* Beside the pipeline runs step_state, as in the check of psim.c          *)
(* (psim.c:234-269), one instruction for each that leaves the pipeline.    *)
(***************************************************************************)
EXTENDS Y86

CONSTANTS Instructions,  \* instructions that programs are made of
          CODE,          \* length of programs; behind them lie zeros
          CODE_TOP,      \* size of the code memory
          InitialMemory, \* what the object file puts into the data memory
          UNKNOWN        \* an instruction that has not been fetched yet

ASSUME InstructionsAssumption == Instructions \subseteq Instruction
ASSUME CODEAssumption == CODE \in Nat /\ CODE_TOP \in Nat /\ CODE <= CODE_TOP
ASSUME CODE_TOPAssumption == CODE_TOP < 2 ^ (Bits - 1)
ASSUME InitialMemoryAssumption == InitialMemory \in [Address -> Word]
ASSUME UNKNOWNAssumption == UNKNOWN \notin Instruction

VARIABLES F, D, E, M, W,  \* the pipeline registers
          reg, mem, cc,   \* register file, data memory and condition codes
          prog,           \* the program
          isa             \* the state of step_state

pipes == <<F, D, E, M, W>>
vars == <<pipes, reg, mem, cc, prog, isa>>

\* Bubbles, and the contents of the registers (stages.h).  pc is stage_pc, the
\* address of the instruction.
bubble_if_id == [icode |-> INOP, ifun |-> 0, rA |-> RNONE, rB |-> RNONE, valC |-> 0,
                 valP |-> 0, stat |-> SBUB, pc |-> 0]
bubble_id_ex == [icode |-> INOP, ifun |-> 0, valC |-> 0, valA |-> 0, valB |-> 0,
                 srcA |-> RNONE, dstE |-> RNONE, dstM |-> RNONE, stat |-> SBUB, pc |-> 0]
bubble_ex_mem == [icode |-> INOP, Cnd |-> FALSE, valE |-> 0, valA |-> 0,
                  dstE |-> RNONE, dstM |-> RNONE, stat |-> SBUB, pc |-> 0]
bubble_mem_wb == [icode |-> INOP, valE |-> 0, valM |-> 0,
                  dstE |-> RNONE, dstM |-> RNONE, stat |-> SBUB, pc |-> 0]

clear_pipes == /\ F = 0 /\ D = bubble_if_id /\ E = bubble_id_ex
               /\ M = bubble_ex_mem /\ W = bubble_mem_wb

Init == /\ clear_pipes
        /\ reg = [r \in Register |-> 0] /\ mem = InitialMemory /\ cc = DEFAULT_CC
        /\ prog = [a \in 0 .. CODE_TOP - 1 |-> IF a < CODE THEN UNKNOWN ELSE Zeros]
        /\ isa = new_state(reg, mem)

Stat == IF W.stat = SBUB THEN SAOK ELSE W.stat

-----------------------------------------------------------------------------
(***************************************************************************)
(* Memory stage.                                                           *)
(***************************************************************************)
mem_addr == CASE M.icode \in {IRMMOVQ, IPUSHQ, ICALL, IMRMOVQ} -> M.valE
              [] M.icode \in {IPOPQ, IRET} -> M.valA
              [] OTHER -> 0

mem_read == M.icode \in {IMRMOVQ, IPOPQ, IRET}
mem_write == M.icode \in {IRMMOVQ, IPUSHQ, ICALL}

dmem_error == (mem_read \/ mem_write) /\ mem_addr \notin Address

m_valM == IF mem_read /\ ~dmem_error THEN mem[mem_addr] ELSE 0
m_stat == IF dmem_error THEN SADR ELSE M.stat

-----------------------------------------------------------------------------
(***************************************************************************)
(* Execute stage.                                                          *)
(***************************************************************************)
aluA == CASE E.icode \in {IRRMOVQ, IOPQ} -> E.valA
          [] E.icode \in {IIRMOVQ, IRMMOVQ, IMRMOVQ, IIADDQ} -> E.valC
          [] E.icode \in {ICALL, IPUSHQ} -> -1
          [] E.icode \in {IRET, IPOPQ} -> 1
          [] OTHER -> 0

aluB == IF E.icode \in {IRMMOVQ, IMRMOVQ, IOPQ, ICALL, IPUSHQ, IRET, IPOPQ, IIADDQ}
        THEN E.valB ELSE 0

alufun == IF E.icode \in {IOPQ, IIADDQ} THEN E.ifun ELSE A_ADD

\* Mutant: the instruction behind one that stops sets the condition codes.
set_cc_always == E.icode \in {IOPQ, IIADDQ}

set_cc == /\ E.icode \in {IOPQ, IIADDQ}
          /\ m_stat \notin Stopped /\ W.stat \notin Stopped

e_Cnd == cond_holds(cc, E.ifun)
e_valE == compute_alu(alufun, aluA, aluB)

\* A value that is just being read from memory and only to be stored again.
e_valA == IF M.icode = IMRMOVQ /\ E.icode = IRMMOVQ /\ E.srcA = M.dstM
          THEN m_valM ELSE E.valA

e_dstE == IF E.icode = IRRMOVQ /\ ~e_Cnd THEN RNONE ELSE E.dstE

-----------------------------------------------------------------------------
(***************************************************************************)
(* Decode stage.                                                           *)
(***************************************************************************)
d_srcA == CASE D.icode \in {IRRMOVQ, IRMMOVQ, IOPQ, IPUSHQ} -> D.rA
            [] D.icode \in {IPOPQ, IRET} -> RRSP
            [] OTHER -> RNONE

d_srcB == CASE D.icode \in {IOPQ, IRMMOVQ, IMRMOVQ, IIADDQ} -> D.rB
            [] D.icode \in {IPUSHQ, IPOPQ, ICALL, IRET} -> RRSP
            [] OTHER -> RNONE

d_dstE == CASE D.icode \in {IRRMOVQ, IIRMOVQ, IOPQ, IIADDQ} -> D.rB
            [] D.icode \in {IPUSHQ, IPOPQ, ICALL, IRET} -> RRSP
            [] OTHER -> RNONE

d_dstM == IF D.icode \in {IMRMOVQ, IPOPQ} THEN D.rA ELSE RNONE

\* Mutant: of an instruction with two results the wrong one is taken first.
ForwardSources_swapped ==
  <<[dst |-> e_dstE, val |-> e_valE],
    [dst |-> M.dstE, val |-> M.valE], [dst |-> M.dstM, val |-> m_valM],
    [dst |-> W.dstM, val |-> W.valM], [dst |-> W.dstE, val |-> W.valE]>>

\* Where the value of a register may come from, the stages nearest to decode first.
ForwardSources == <<[dst |-> e_dstE, val |-> e_valE],
                    [dst |-> M.dstM, val |-> m_valM], [dst |-> M.dstE, val |-> M.valE],
                    [dst |-> W.dstM, val |-> W.valM], [dst |-> W.dstE, val |-> W.valE]>>

\* The newest value of register src.  RNONE is compared like any register.
Forward(src) ==
  LET hits == {k \in DOMAIN ForwardSources : ForwardSources[k].dst = src}
  IN  IF hits = {} THEN get_reg_val(reg, src) ELSE ForwardSources[Min(hits)].val

d_valA == IF D.icode \in {ICALL, IJXX} THEN D.valP ELSE Forward(d_srcA)
d_valB == Forward(d_srcB)

-----------------------------------------------------------------------------
(***************************************************************************)
(* Fetch stage.                                                            *)
(***************************************************************************)
f_pc == CASE M.icode = IJXX /\ ~M.Cnd -> M.valA
          [] W.icode = IRET /\ ~(M.icode = IJXX /\ ~M.Cnd) -> W.valM
          [] OTHER -> F

imem_error == f_pc \notin 0 .. CODE_TOP - 1

\* What the fetch may find: at an address not visited yet, any instruction.
Fetchable == CASE imem_error -> {[Zeros EXCEPT !.icode = INOP]}
               [] ~imem_error /\ prog[f_pc] = UNKNOWN -> Instructions
               [] OTHER -> {prog[f_pc]}

f_stat(i) == CASE imem_error -> SADR
               [] i.icode \notin Icode -> SINS
               [] i.icode = IHALT -> SHLT
               [] OTHER -> SAOK

f_valP == Wrap(f_pc + 1)
f_predPC(i) == IF i.icode \in {IJXX, ICALL} THEN i.valC ELSE f_valP

-----------------------------------------------------------------------------
(***************************************************************************)
(* Pipeline register control.                                              *)
(***************************************************************************)
\* Mutant: any instruction is taken for a load, also a bubble, whose dstM is RNONE.
LoadUse_any == E.dstM \in {d_srcA, d_srcB} /\ D.icode # IRMMOVQ

\* The instruction in decode needs a value that is still to be read from memory.
LoadUse == /\ E.icode \in {IMRMOVQ, IPOPQ}
           /\ E.dstM \in {d_srcA, d_srcB}
           /\ D.icode # IRMMOVQ

RetPasses == IRET \in {D.icode, E.icode, M.icode}
Mispredicted == E.icode = IJXX /\ ~e_Cnd

F_stall == LoadUse \/ RetPasses
D_stall == LoadUse
D_bubble == Mispredicted \/ (~LoadUse /\ RetPasses)
E_bubble == Mispredicted \/ LoadUse
M_bubble == m_stat \in Stopped \/ W.stat \in Stopped
W_stall == W.stat \in Stopped

pipe_cntl(stall, bubble) == CASE stall /\ bubble  -> "P_ERROR"
                              [] stall /\ ~bubble -> "P_STALL"
                              [] ~stall /\ bubble -> "P_BUBBLE"
                              [] OTHER            -> "P_LOAD"

\* update_pipes for one register, by what pipe_cntl says of it.
Update(op, current, next, bubble_val) ==
  CASE op = "P_ERROR"  -> [bubble_val EXCEPT !.stat = SPIP]
    [] op = "P_STALL"  -> current
    [] op = "P_BUBBLE" -> bubble_val
    [] op = "P_LOAD"   -> next

-----------------------------------------------------------------------------
(***************************************************************************)
(* What the stages hand to the next ones.                                  *)
(***************************************************************************)
if_id_next(i) == [icode |-> i.icode, ifun |-> i.ifun, rA |-> i.rA, rB |-> i.rB,
                  valC |-> i.valC, valP |-> f_valP, stat |-> f_stat(i), pc |-> f_pc]

id_ex_next == [icode |-> D.icode, ifun |-> D.ifun, valC |-> D.valC,
               valA |-> d_valA, valB |-> d_valB, srcA |-> d_srcA,
               dstE |-> d_dstE, dstM |-> d_dstM, stat |-> D.stat, pc |-> D.pc]

ex_mem_next == [icode |-> E.icode, Cnd |-> e_Cnd, valE |-> e_valE, valA |-> e_valA,
                dstE |-> e_dstE, dstM |-> E.dstM, stat |-> E.stat, pc |-> E.pc]

mem_wb_next == [icode |-> M.icode, valE |-> M.valE, valM |-> m_valM,
                dstE |-> M.dstE, dstM |-> M.dstM, stat |-> m_stat, pc |-> M.pc]

w_dstE == W.dstE
w_valE == W.valE
w_dstM == W.dstM
w_valM == W.valM

\* The register file after write back: the order decides what popq %rsp leaves.
update_reg == set_reg_val(set_reg_val(reg, w_dstE, w_valE), w_dstM, w_valM)

update_mem == IF mem_write /\ ~dmem_error THEN [mem EXCEPT ![mem_addr] = M.valA] ELSE mem

update_cc == IF set_cc THEN compute_cc(alufun, aluA, aluB) ELSE cc

\* step_state, at the instruction that leaves the pipeline next.
IsaStep == IF isa.pc \in DOMAIN prog THEN step_state(isa, prog[isa.pc])
                                     ELSE After(isa, SADR)

\* The comparison of psim -t and ssim -t, when the last instruction has been executed,
\* with a register file, memory and condition codes: the registers that differ, the
\* words that differ, and whether the condition codes do.
run_tty_sim(r, m, c) ==
  LET last == IsaStep.state
  IN  [regs |-> diff_reg(last.r, r), words |-> diff_mem(last.m, m), codes |-> last.cc # c]

\* A cycle.  The simulation ends when an instruction that stops is in write back.
Cycle ==
  /\ Stat = SAOK
  /\ \E i \in Fetchable :
       /\ F' = IF F_stall THEN F ELSE f_predPC(i)
       /\ D' = Update(pipe_cntl(D_stall, D_bubble), D, if_id_next(i), bubble_if_id)
       /\ prog' = IF imem_error THEN prog ELSE [prog EXCEPT ![f_pc] = i]
  /\ E' = Update(pipe_cntl(FALSE, E_bubble), E, id_ex_next, bubble_id_ex)
  /\ M' = Update(pipe_cntl(FALSE, M_bubble), M, ex_mem_next, bubble_ex_mem)
  /\ W' = Update(pipe_cntl(W_stall, FALSE), W, mem_wb_next, bubble_mem_wb)
  /\ reg' = update_reg /\ mem' = update_mem /\ cc' = update_cc
  /\ isa' = IF W.stat = SBUB THEN isa ELSE IsaStep.state

Next == Cycle

Spec == Init /\ [][Next]_vars /\ WF_vars(Cycle)

-----------------------------------------------------------------------------
\* The instructions that leave the pipeline are those that step_state executes, in
\* the same order and with the same status; bubbles, stalls and fetches from the
\* wrong path leave no trace in the register file; memory is what step_state has made
\* of it, with the store of the instruction in write back, so that no instruction behind
\* one that stops or that is cancelled stores anything, and no store is lost (the
\* comparison in psim.c:242-255, for every instruction and not only at the end).
RetiresLikeIsa ==
  /\ reg = isa.r
  /\ mem = IF W.stat = SAOK THEN IsaStep.state.m ELSE isa.m
  /\ W.stat # SBUB => W.pc = isa.pc /\ W.stat = IsaStep.stat

\* The processor never holds only bubbles for ever: stalls end.
KeepsRetiring == []<>(W.stat # SBUB)

=============================================================================
