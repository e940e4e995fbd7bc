------------------------------ MODULE Machines ------------------------------
(***************************************************************************)
(* The pipelined processor, the sequential processor and the simulator of  *)
(* lab4 beside step_state: for each instruction that leaves the pipeline   *)
(* the sequential processor runs one sim_step.                             *)
(***************************************************************************)
EXTENDS Pipe

SQ == INSTANCE Seq
STD == INSTANCE SeqStd
Y64 == INSTANCE Y64sim

VARIABLE seq  \* the state of ssim.c

MachinesInit == Init /\ seq = SQ!Sim!sim_reset(InitialMemory)

\* A cycle of the pipeline; for an instruction that leaves it, a step of SEQ.
MachinesCycle ==
  /\ Cycle
  /\ seq' = IF W.stat = SBUB THEN seq ELSE SQ!Sim!sim_step(seq, prog).state

MachinesSpec == MachinesInit /\ [][MachinesCycle]_<<vars, seq>> /\ WF_vars(Cycle)

-----------------------------------------------------------------------------
(***************************************************************************)
(* What the processors demand of programs.                                 *)
(***************************************************************************)
\* The instructions that the assemblers produce: the registers are there that an
\* instruction needs, also the base register of an address, and its function code is
\* one of those it has.
WellFormed(i) ==
  /\ i.icode \in {IRRMOVQ, IOPQ, IRMMOVQ, IMRMOVQ, IPUSHQ, IPOPQ} => i.rA \in Register
  /\ i.icode \in {IRRMOVQ, IOPQ, IRMMOVQ, IMRMOVQ, IIRMOVQ, IIADDQ} => i.rB \in Register
  /\ i.icode = IOPQ => i.ifun \in A_ADD .. A_XOR
  /\ i.icode \in Icode \ {IOPQ, IRRMOVQ, IJXX} => i.ifun = 0

InstructionsAreWellFormed == \A i \in Instructions : WellFormed(i)

\* A store in decode needs nothing that the load in execute is still to read, except
\* the value to be stored if the load is mrmovq, which e_valA hands on.  The condition
\* for stalls (pipe-full.hcl:349) leaves out every store, so that without this a store
\* goes to a stale address or stores a stale value.
LoadsAreInTime ==
  D.icode = IRMMOVQ /\ E.icode \in {IMRMOVQ, IPOPQ} =>
    E.dstM # D.rB /\ (E.icode = IPOPQ => E.dstM # D.rA)

\* The same of the instructions themselves: it holds of programs in which no store and
\* load, wherever they stand, have such registers in common.
StoresAreElsewhere ==
  \A i, j \in Instructions :
    i.icode = IRMMOVQ /\ j.icode \in {IMRMOVQ, IPOPQ} =>
      j.rA # i.rB /\ (j.icode = IPOPQ => j.rA # i.rA)

-----------------------------------------------------------------------------
\* In the sim_step of any instruction of any program SEQ shows, once it has written
\* what the instruction before has left to write, the state of step_state, and it
\* gives the instruction the same status: the deferred writes (update_state,
\* ssim.c:615-656) are never seen too late by the next instruction.  The processor of
\* seq-std.c does the same, but stops at iaddq and leaves everything as it is.
SeqLikeIsa ==
  W.stat # SBUB =>
    \A after \in {SQ!Sim!sim_step(seq, prog)} : \A std \in {STD!Sim!sim_step(seq, prog)} :
      /\ SQ!Sim!visible(after.state) = isa /\ after.stat = IsaStep.stat
      /\ IF isa.pc \in DOMAIN prog /\ prog[isa.pc].icode = IIADDQ
         THEN STD!Sim!visible(std.state) = isa /\ std.stat = SINS
         ELSE std = after

\* The instruction in write back has found the stack at an invalid address.
StackFault == /\ isa.pc \in DOMAIN prog /\ prog[isa.pc].icode \in {ICALL, IPUSHQ, IPOPQ}
              /\ IsaStep.stat = SADR

\* What ssim -t finds: of the last instruction SEQ has written nothing.
SeqCheck == LET last == SQ!Sim!sim_step(seq, prog).state
            IN  run_tty_sim(last.r, last.m, last.cc)

\* When a program has ended, psim -t and ssim -t find no difference to step_state: of
\* the instructions behind the one that stops, which are in the pipeline already, none
\* has left a trace in the registers, the memory or the condition codes, and of the
\* stopping one only what step_state has done of it.  The exception is an instruction
\* that fails on the stack: step_state has moved the stack pointer by then (isa.c:838),
\* the processors have not.
ISACheckIsTrue ==
  Stat # SAOK =>
    LET found == [regs |-> IF StackFault THEN {RRSP} ELSE {}, words |-> {}, codes |-> FALSE]
    IN  run_tty_sim(reg, mem, cc) = found /\ SeqCheck = found

\* Instructions of which y64sim is known to leave something else: iaddq, which it does
\* not know; an addition or subtraction where compute_cc misses the overflow because it
\* takes zero for a negative number (y64sim.c:285-286); and ret from an invalid address,
\* which moves the stack pointer first (y64sim.c:447).
KnownToDiffer ==
  LET i == prog[isa.pc]
      a == get_reg_val(isa.r, i.rA)
      b == get_reg_val(isa.r, i.rB)
  IN  \/ i.icode = IIADDQ
      \/ i.icode = IOPQ /\ i.ifun = A_ADD /\ a = MinWord /\ b = MinWord
      \/ i.icode = IOPQ /\ i.ifun = A_SUB /\ a = MinWord /\ b = 0
      \/ i.icode = IRET /\ isa.r[RRSP] \notin Address

\* Apart from these, and only from these, nexti of y64sim does with every instruction, in
\* every state that a program can be in, what step_state does: the same registers,
\* memory, condition codes, program counter and status, also when an instruction fails
\* half done.
Y64LikeIsa ==
  W.stat # SBUB =>
    (Y64!nexti(isa, prog) = IsaStep <=> ~(isa.pc \in DOMAIN prog /\ KnownToDiffer))

=============================================================================
