-------------------------------- MODULE Y86 --------------------------------
(***************************************************************************)
(* The Y86-64 instruction set as isa.c implements it (lab6/sim/misc): the  *)
(* words, registers and condition codes that the simulators share, and     *)
(* step_state, which executes one instruction.                             *)
(*                                                                         *)
(* Instructions and data are kept apart: a program neither writes into its *)
(* code nor jumps into its data.  An instruction takes one code address, a *)
(* word of eight bytes one data address.                                   *)
(***************************************************************************)
EXTENDS Integers, FiniteSetsExt

CONSTANTS Bits,      \* width of a word
          Register,  \* program registers
          RRSP,      \* the stack pointer
          RNONE,     \* no register
          MEM_SIZE   \* words of data memory, from address 0 on

ASSUME BitsAssumption == Bits \in Nat /\ Bits >= 2
ASSUME RegisterAssumption == RRSP \in Register /\ RNONE \notin Register
ASSUME MEM_SIZEAssumption == MEM_SIZE \in Nat /\ MEM_SIZE <= 2 ^ (Bits - 1)

MinWord == -(2 ^ (Bits - 1))
Word == MinWord .. 2 ^ (Bits - 1) - 1
Address == 0 .. MEM_SIZE - 1

\* The word that arithmetic on 64 bits yields for n.
Wrap(n) == ((n - MinWord) % 2 ^ Bits) + MinWord

\* itype_t; INVALID stands for the codes that are none of these.
INOP == "nop"
IHALT == "halt"
IRRMOVQ == "rrmovq"
IIRMOVQ == "irmovq"
IRMMOVQ == "rmmovq"
IMRMOVQ == "mrmovq"
IOPQ == "opq"
IJXX == "jxx"
ICALL == "call"
IRET == "ret"
IPUSHQ == "pushq"
IPOPQ == "popq"
IIADDQ == "iaddq"
INVALID == "invalid"
Icode == {INOP, IHALT, IRRMOVQ, IIRMOVQ, IRMMOVQ, IMRMOVQ, IOPQ, IJXX, ICALL, IRET,
          IPUSHQ, IPOPQ, IIADDQ}

\* Function codes: alu_t, and cond_t, of which 0 is no condition.
A_ADD == 0
A_SUB == 1
A_AND == 2
A_XOR == 3
Ifun == 0 .. 6


\* stat_t.
SBUB == "BUB"
SAOK == "AOK"
SHLT == "HLT"
SADR == "ADR"
SINS == "INS"
SPIP == "PIP"
Stopped == {SADR, SINS, SHLT}

Instruction == [icode : Icode \cup {INVALID}, ifun : Ifun, rA : Register \cup {RNONE},
                rB : Register \cup {RNONE}, valC : Word]

CC == [zf : BOOLEAN, sf : BOOLEAN, of : BOOLEAN]
DEFAULT_CC == [zf |-> TRUE, sf |-> FALSE, of |-> FALSE]

-----------------------------------------------------------------------------
\* What memory of all zeros holds: halt.
Zeros == [icode |-> IHALT, ifun |-> 0, rA |-> RNONE, rB |-> RNONE, valC |-> 0]

get_reg_val(r, id) == IF id = RNONE THEN 0 ELSE r[id]
set_reg_val(r, id, val) == IF id = RNONE THEN r ELSE [r EXCEPT ![id] = val]

BitOf(n, i) == ((n % 2 ^ Bits) \div 2 ^ i) % 2

\* The word whose bits are set where so many of the bits of a and b are.
Bitwise2(set, a, b) ==
  LET sum[n \in 0 .. Bits] ==
        IF n = 0 THEN 0
        ELSE sum[n - 1] + (IF BitOf(a, n - 1) + BitOf(b, n - 1) = set THEN 2 ^ (n - 1) ELSE 0)
  IN  Wrap(sum[Bits])

compute_alu(op, a, b) ==
  CASE op = A_ADD -> Wrap(a + b)
    [] op = A_SUB -> Wrap(b - a)
    [] op = A_AND -> Bitwise2(2, a, b)
    [] op = A_XOR -> Bitwise2(1, a, b)
    [] OTHER      -> 0

compute_cc(op, a, b) ==
  LET val == compute_alu(op, a, b)
  IN  [zf |-> val = 0,
       sf |-> val < 0,
       of |-> \/ op = A_ADD /\ (a < 0 <=> b < 0) /\ ~(val < 0 <=> a < 0)
              \/ op = A_SUB /\ (a > 0 <=> b < 0) /\ ~(val < 0 <=> b < 0)]

\* C_YES, C_LE, C_L, C_E, C_NE, C_GE and C_G.
cond_holds(cc, bcond) ==
  LET less == cc.sf # cc.of
  IN  CASE bcond = 0 -> TRUE
        [] bcond = 1 -> less \/ cc.zf
        [] bcond = 2 -> less
        [] bcond = 3 -> cc.zf
        [] bcond = 4 -> ~cc.zf
        [] bcond = 5 -> ~less
        [] bcond = 6 -> ~less /\ ~cc.zf

-----------------------------------------------------------------------------
(***************************************************************************)
(* step_state: the state that instruction i leaves, and its status.  When  *)
(* the stack is at an invalid address, pushq, call and popq have changed   *)
(* the stack pointer all the same.                                         *)
(***************************************************************************)
State == [pc : Int, r : [Register -> Word], m : [Address -> Word], cc : CC]

After(s, stat) == [state |-> s, stat |-> stat]

\* The state at address 0, with copies of a register file and a memory.
new_state(r, m) == [pc |-> 0, r |-> r, m |-> m, cc |-> DEFAULT_CC]

\* The registers and the words in which two states differ.
diff_reg(oldr, newr) == {id \in Register : oldr[id] # newr[id]}
diff_mem(oldm, newm) == {pos \in Address : oldm[pos] # newm[pos]}

Store(s, addr, val, pc) ==
  IF addr \in Address THEN After([s EXCEPT !.m[addr] = val, !.pc = pc], SAOK)
                      ELSE After(s, SADR)

Load(s, addr, id) ==
  IF addr \in Address
  THEN After([s EXCEPT !.r = set_reg_val(@, id, s.m[addr]), !.pc = @ + 1], SAOK)
  ELSE After(s, SADR)

Alu(s, op, a, b, id) ==
  After([s EXCEPT !.r = set_reg_val(@, id, compute_alu(op, a, b)),
                  !.cc = compute_cc(op, a, b), !.pc = @ + 1], SAOK)

next_pc(s) == Wrap(s.pc + 1)
argA(s, i) == get_reg_val(s.r, i.rA)
argB(s, i) == get_reg_val(s.r, i.rB)
Moved(s, d) == [s EXCEPT !.r[RRSP] = Wrap(@ + d)]

\* An instruction that names no register where it needs one is invalid.
reg_valid(id) == id \in Register

step_nop(s) == After([s EXCEPT !.pc = next_pc(s)], SAOK)

step_rrmovq(s, i) ==
  IF reg_valid(i.rA) /\ reg_valid(i.rB)
  THEN After([s EXCEPT !.r = IF cond_holds(s.cc, i.ifun) THEN set_reg_val(@, i.rB, argA(s, i))
                                                         ELSE @,
                       !.pc = next_pc(s)], SAOK)
  ELSE After(s, SINS)

step_irmovq(s, i) ==
  IF reg_valid(i.rB)
  THEN After([s EXCEPT !.r = set_reg_val(@, i.rB, i.valC), !.pc = next_pc(s)], SAOK)
  ELSE After(s, SINS)

step_rmmovq(s, i) ==
  IF reg_valid(i.rA) THEN Store(s, Wrap(i.valC + argB(s, i)), argA(s, i), next_pc(s))
                     ELSE After(s, SINS)

step_mrmovq(s, i) ==
  IF reg_valid(i.rA) THEN Load(s, Wrap(i.valC + argB(s, i)), i.rA) ELSE After(s, SINS)

step_alu(s, i) == Alu(s, i.ifun, argA(s, i), argB(s, i), i.rB)

step_iaddq(s, i) ==
  IF reg_valid(i.rB) THEN Alu(s, A_ADD, i.valC, argB(s, i), i.rB) ELSE After(s, SINS)

step_jmp(s, i) ==
  After([s EXCEPT !.pc = IF cond_holds(s.cc, i.ifun) THEN i.valC ELSE next_pc(s)], SAOK)

step_call(s, i) == Store(Moved(s, -1), Wrap(s.r[RRSP] - 1), next_pc(s), i.valC)

step_ret(s) ==
  IF s.r[RRSP] \in Address
  THEN After([Moved(s, 1) EXCEPT !.pc = s.m[s.r[RRSP]]], SAOK)
  ELSE After(s, SADR)

step_pushq(s, i) ==
  IF reg_valid(i.rA) THEN Store(Moved(s, -1), Wrap(s.r[RRSP] - 1), argA(s, i), next_pc(s))
                     ELSE After(s, SINS)

step_popq(s, i) ==
  IF reg_valid(i.rA) THEN Load(Moved(s, 1), s.r[RRSP], i.rA) ELSE After(s, SINS)

step_state(s, i) ==
  CASE i.icode = INOP    -> step_nop(s)
    [] i.icode = IHALT   -> After(s, SHLT)
    [] i.icode = IRRMOVQ -> step_rrmovq(s, i)
    [] i.icode = IIRMOVQ -> step_irmovq(s, i)
    [] i.icode = IRMMOVQ -> step_rmmovq(s, i)
    [] i.icode = IMRMOVQ -> step_mrmovq(s, i)
    [] i.icode = IOPQ    -> step_alu(s, i)
    [] i.icode = IIADDQ  -> step_iaddq(s, i)
    [] i.icode = IJXX    -> step_jmp(s, i)
    [] i.icode = ICALL   -> step_call(s, i)
    [] i.icode = IRET    -> step_ret(s)
    [] i.icode = IPUSHQ  -> step_pushq(s, i)
    [] i.icode = IPOPQ   -> step_popq(s, i)
    [] OTHER             -> After(s, SINS)

=============================================================================
