------------------------------ MODULE AsmLang ------------------------------
(***************************************************************************)
(* What the two Y86-64 assemblers share: the tokens of a line, the codes   *)
(* of instructions (lab5/y64asm.h, lab6/sim/misc/isa.h) and bytes.         *)
(*                                                                         *)
(* A line of source is the sequence of its tokens.  Blanks and comments    *)
(* are left out; a line of nothing else is the empty sequence.             *)
(***************************************************************************)
EXTENDS Integers, SequencesExt

\* Tokens: a name that is no instruction, the name of an instruction or directive, a
\* register, a number, and one of : , ( ) $.
Ident(n) == [type |-> "ident", name |-> n, num |-> 0]
Instr(n) == [type |-> "instr", name |-> n, num |-> 0]
Reg(r) == [type |-> "reg", name |-> "", num |-> r]
Num(v) == [type |-> "num", name |-> "", num |-> v]
Punct(c) == [type |-> "punct", name |-> c, num |-> 0]

Is(s, type) == s # <<>> /\ Head(s).type = type
IsPunct(s, c) == s # <<>> /\ Head(s) = Punct(c)

Directives == {".byte", ".word", ".long", ".quad", ".pos", ".align"}

\* itype_t.
I_HALT == 0
I_NOP == 1
I_RRMOVQ == 2
I_IRMOVQ == 3
I_RMMOVQ == 4
I_MRMOVQ == 5
I_ALU == 6
I_JMP == 7
I_CALL == 8
I_RET == 9
I_PUSHQ == 10
I_POPQ == 11
I_IADDQ == 12

REG_NONE == 15

\* The suffixes of conditional moves and jumps, in the order of cond_t, and alu_t.
Conditions == <<"le", "l", "e", "ne", "ge", "g">>
CMov == <<"cmovle", "cmovl", "cmove", "cmovne", "cmovge", "cmovg">>
Jump == <<"jle", "jl", "je", "jne", "jge", "jg">>
Alu == <<"addq", "subq", "andq", "xorq">>
Data == [n \in {".byte", ".word", ".long", ".quad"} |->
           CASE n = ".byte" -> 1 [] n = ".word" -> 2 [] n = ".long" -> 4 [] n = ".quad" -> 8]

HPACK(hi, lo) == 16 * hi + lo
HIGH(pack) == pack \div 16
LOW(pack) == pack % 16

\* Byte i of the 64-bit word v, for words that TLC can hold.
ByteOf(v, i) == IF i < 3 THEN (v \div 256 ^ i) % 256 ELSE IF v < 0 THEN 255 ELSE 0

\* A word in memory, the lowest byte first.
Bytes(v) == [i \in 1 .. 8 |-> ByteOf(v, i - 1)]

\* file with bytes written at addr; a hole before them reads as zeros.
Written(file, addr, bytes) ==
  IF bytes = <<>> THEN file
  ELSE [k \in 1 .. (IF addr + Len(bytes) > Len(file) THEN addr + Len(bytes) ELSE Len(file)) |->
          CASE k \in addr + 1 .. addr + Len(bytes) -> bytes[k - addr]
            [] k \notin addr + 1 .. addr + Len(bytes) /\ k <= Len(file) -> file[k]
            [] OTHER -> 0]

=============================================================================
