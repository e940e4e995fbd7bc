------------------------------- MODULE Y64sim -------------------------------
(***************************************************************************)
(* The Y86-64 simulator of lab4 (y64sim.c): nexti, which executes one      *)
(* instruction.  It does not know iaddq.                                   *)
(***************************************************************************)
EXTENDS Y86

\* The instructions of the table check_code_fun_valid; the rows 0xCX to 0xFX are empty.
known_icode == Icode \ {IIADDQ}

\* The function codes in its rows 0x2X, 0x6X and 0x7X, and 0 alone in the others.
functions(icode) == CASE icode = IOPQ -> A_ADD .. A_XOR
                      [] icode \in {IRRMOVQ, IJXX} -> Ifun
                      [] OTHER -> {0}

check_code_fun_valid(i) == i.icode \in known_icode /\ i.ifun \in functions(i.icode)

instruction_need_reg(icode) ==
  icode \in {IRRMOVQ, IIRMOVQ, IRMMOVQ, IMRMOVQ, IOPQ, IPUSHQ, IPOPQ}
instruction_need_imm(icode) == icode \in {IIRMOVQ, IRMMOVQ, IMRMOVQ, IJXX, ICALL}

\* The instruction with the operands that nexti reads.
Decoded(i) ==
  LET regs == instruction_need_reg(i.icode)
  IN  [i EXCEPT !.rA = IF regs THEN @ ELSE RNONE, !.rB = IF regs THEN @ ELSE RNONE,
                !.valC = IF instruction_need_imm(i.icode) THEN @ ELSE 0]

\* get_long_val and set_long_val fail when the word is not all within the memory.
InMemory(addr) == addr \in Address

\* The results are those of isa.c.
y64_alu(op, a, b) == compute_alu(op, a, b)

\* compute_cc compares signs by > 0, which takes zero for a negative number.
y64_cc(op, a, b, val) ==
  [zf |-> val = 0, sf |-> val < 0,
   of |-> \/ op = A_ADD /\ (a > 0 <=> b > 0) /\ ~(a > 0 <=> val > 0)
          \/ op = A_SUB /\ (b > 0 <=> a < 0) /\ ~(b > 0 <=> val > 0)]

cond_doit(cc, cond) == CASE cond = 0 -> TRUE
                         [] cond = 1 -> cc.sf # cc.of \/ cc.zf
                         [] cond = 2 -> cc.sf # cc.of
                         [] cond = 3 -> cc.zf
                         [] cond = 4 -> ~cc.zf
                         [] cond = 5 -> cc.sf = cc.of
                         [] cond = 6 -> cc.sf = cc.of /\ ~cc.zf
                         [] OTHER    -> FALSE

\* Mutant: the stack pointer is moved after the register has been loaded.
popq_order(s, rA) ==
  LET sp == s.r[RRSP]
  IN  IF InMemory(sp)
      THEN After([s EXCEPT !.r = [set_reg_val(@, rA, s.m[sp]) EXCEPT ![RRSP] = Wrap(sp + 1)],
                           !.pc = @ + 1], SAOK)
      ELSE After([s EXCEPT !.r[RRSP] = Wrap(sp + 1)], SADR)

\* popq moves the stack pointer first, also when it then fails.
popq(s, rA) ==
  LET sp == s.r[RRSP]
      moved == [s EXCEPT !.r[RRSP] = Wrap(sp + 1)]
  IN  IF InMemory(sp)
      THEN After([moved EXCEPT !.r = set_reg_val(@, rA, s.m[sp]), !.pc = @ + 1], SAOK)
      ELSE After(moved, SADR)

\* nexti for the state s and the program code: the state after it, and the status.
nexti(s, code) ==
  LET i == Decoded(code[s.pc])
      pc_up == Wrap(s.pc + 1)
      reg_a_val == get_reg_val(s.r, i.rA)
      reg_b_val == get_reg_val(s.r, i.rB)
      sp == s.r[RRSP]
      addr == Wrap(reg_b_val + i.valC)
      val == y64_alu(i.ifun, reg_a_val, reg_b_val)
      go(pc) == After([s EXCEPT !.pc = pc], SAOK)
      push(v, pc) ==
        LET moved == [s EXCEPT !.r[RRSP] = Wrap(sp - 1)]
        IN  IF InMemory(Wrap(sp - 1))
            THEN After([moved EXCEPT !.m[Wrap(sp - 1)] = v, !.pc = pc], SAOK)
            ELSE After(moved, SADR)
  IN  CASE s.pc \notin DOMAIN code -> After(s, SADR)
        [] OTHER ->
           CASE ~check_code_fun_valid(i) -> After(s, SINS)
             [] i.icode = IHALT -> After(s, SHLT)
             [] i.icode = INOP -> go(pc_up)
             [] i.icode = IRRMOVQ ->
                  After([s EXCEPT !.r = IF cond_doit(s.cc, i.ifun)
                                        THEN set_reg_val(@, i.rB, reg_a_val) ELSE @,
                                  !.pc = pc_up], SAOK)
             [] i.icode = IIRMOVQ ->
                  After([s EXCEPT !.r = set_reg_val(@, i.rB, i.valC), !.pc = pc_up], SAOK)
             [] i.icode = IRMMOVQ ->
                  IF InMemory(addr)
                  THEN After([s EXCEPT !.m[addr] = reg_a_val, !.pc = pc_up], SAOK)
                  ELSE After(s, SADR)
             [] i.icode = IMRMOVQ ->
                  IF InMemory(addr)
                  THEN After([s EXCEPT !.r = set_reg_val(@, i.rA, s.m[addr]),
                                       !.pc = pc_up], SAOK)
                  ELSE After(s, SADR)
             [] i.icode = IOPQ ->
                  After([s EXCEPT !.cc = y64_cc(i.ifun, reg_a_val, reg_b_val, val),
                                  !.r = set_reg_val(@, i.rB, val), !.pc = pc_up], SAOK)
             [] i.icode = IJXX -> go(IF cond_doit(s.cc, i.ifun) THEN i.valC ELSE pc_up)
             [] i.icode = ICALL -> push(pc_up, i.valC)
             [] i.icode = IPUSHQ -> push(reg_a_val, pc_up)
             [] i.icode = IPOPQ -> popq(s, i.rA)
             [] i.icode = IRET ->
                  LET moved == [s EXCEPT !.r[RRSP] = Wrap(sp + 1)]
                  IN  IF InMemory(sp) THEN After([moved EXCEPT !.pc = s.m[sp]], SAOK)
                                        ELSE After(moved, SADR)

=============================================================================
