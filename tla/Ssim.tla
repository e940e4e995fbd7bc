-------------------------------- MODULE Ssim --------------------------------
(***************************************************************************)
(* The simulator ssim.c of the sequential Y86-64 processor of lab6, for    *)
(* control logic gen_*, which the Makefile links with it (module Seq for   *)
(* seq-full.c, module SeqStd for seq-std.c).                               *)
(*                                                                         *)
(* The state of the processor is a record.  It holds the visible state     *)
(* (pc, r, m, cc) and what the last instruction has computed but not yet   *)
(* written: sim_step begins with update_state, which writes it.            *)
(***************************************************************************)
EXTENDS Y86

CONSTANTS gen_need_regids(_), gen_need_valC(_), gen_srcA(_), gen_srcB(_), gen_dstE(_, _),
          gen_dstM(_), gen_aluA(_, _), gen_aluB(_, _), gen_alufun(_), gen_set_cc(_),
          gen_mem_read(_), gen_mem_write(_), gen_mem_addr(_, _, _), gen_mem_data(_, _, _),
          gen_Stat(_, _, _), gen_new_pc(_, _, _, _)

\* The globals of ssim.c that live from one sim_step to the next.
sim_reset(m0) ==
  [pc |-> 0, pc_in |-> 0, cc |-> DEFAULT_CC, cc_in |-> DEFAULT_CC,
   r |-> [id \in Register |-> 0], m |-> m0,
   destE |-> RNONE, destM |-> RNONE, vale |-> 0, valm |-> 0,
   mem_write |-> FALSE, mem_addr |-> 0, mem_data |-> 0]

visible(q) == [pc |-> q.pc, r |-> q.r, m |-> q.m, cc |-> q.cc]

\* Mutant: popq %rsp writes the stack pointer last.
update_state_order(q) ==
  [q EXCEPT !.pc = q.pc_in, !.cc = q.cc_in,
            !.r = set_reg_val(set_reg_val(@, q.destM, q.valm), q.destE, q.vale),
            !.m = IF q.mem_write /\ q.mem_addr \in Address
                  THEN [@ EXCEPT ![q.mem_addr] = q.mem_data] ELSE @]

\* The state at the beginning of the next instruction.
update_state(q) ==
  [q EXCEPT !.pc = q.pc_in, !.cc = q.cc_in,
            !.r = set_reg_val(set_reg_val(@, q.destE, q.vale), q.destM, q.valm),
            !.m = IF q.mem_write /\ q.mem_addr \in Address
                  THEN [@ EXCEPT ![q.mem_addr] = q.mem_data] ELSE @]

\* What sim_step finds at pc: nop where there is no memory.
Fetched(pc, code) ==
  IF pc \notin DOMAIN code
  THEN [Zeros EXCEPT !.icode = INOP]
  ELSE LET i == code[pc]
           regids == gen_need_regids(i.icode)
       IN  [i EXCEPT !.rA = IF regids THEN @ ELSE RNONE, !.rB = IF regids THEN @ ELSE RNONE,
                     !.valC = IF gen_need_valC(i.icode) THEN @ ELSE 0]

-----------------------------------------------------------------------------
(***************************************************************************)
(* sim_step for the processor q and the program code: the state after it,  *)
(* and the status.  What it computes is written by the next sim_step; the  *)
(* run ends when the status is not AOK, and then nothing is written.       *)
(***************************************************************************)
sim_step(q, code) ==
  LET s == update_state(q)
      imem_error == s.pc \notin DOMAIN code
      i == Fetched(s.pc, code)
      valp == Wrap(s.pc + 1)
      vala == get_reg_val(s.r, gen_srcA(i))
      valb == get_reg_val(s.r, gen_srcB(i))
      cond == cond_holds(s.cc, i.ifun)
      aluA == gen_aluA(i, vala)
      aluB == gen_aluB(i, valb)
      vale == compute_alu(gen_alufun(i), aluA, aluB)
      addr == gen_mem_addr(i, vale, vala)
      dmem_error == (gen_mem_read(i) \/ gen_mem_write(i)) /\ addr \notin Address
      valm == IF gen_mem_read(i) /\ ~dmem_error THEN s.m[addr] ELSE 0
  IN  After([s EXCEPT !.pc_in = gen_new_pc(i, cond, valm, valp),
                      !.cc_in = IF gen_set_cc(i)
                                THEN compute_cc(gen_alufun(i), aluA, aluB) ELSE s.cc,
                      !.destE = gen_dstE(i, cond), !.destM = gen_dstM(i),
                      !.vale = vale, !.valm = valm,
                      !.mem_write = gen_mem_write(i), !.mem_addr = addr,
                      !.mem_data = gen_mem_data(i, vala, valp)],
            gen_Stat(i, imem_error, dmem_error))

=============================================================================
