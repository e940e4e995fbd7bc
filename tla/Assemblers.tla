----------------------------- MODULE Assemblers -----------------------------
(***************************************************************************)
(* One program given to the assembler of lab5 and then to the one of lab6, *)
(* and each output loaded by the simulators of its lab.  Both labs teach   *)
(* the same language, so both must put the same bytes in memory.           *)
(***************************************************************************)
EXTENDS Y64asm, Yas

CONSTANT MEM_SIZE
ASSUME MemSizeAssumption == MEM_SIZE \in Nat \ {0}

asmvars == <<y64vars, yasvars>>

Y64Ended == phase \in {"done", "failed", "crashed"}
Ended == Y64Ended /\ pass = 3

AsmInit == Y64Init /\ YasInit(source)
AsmNext == \/ Y64Next /\ UNCHANGED yasvars
           \/ Y64Ended /\ YasNext /\ UNCHANGED y64vars

AsmSpec == AsmInit /\ [][AsmNext]_asmvars

-----------------------------------------------------------------------------
(***************************************************************************)
(* The loaders.                                                            *)
(***************************************************************************)
Zeros == [k \in 1 .. MEM_SIZE |-> 0]
LoadError == <<>>

\* load_binfile of lab4/y64sim.c.  fread stops before the end of a file that has the
\* size of the memory, too, and that file is refused.
load_binfile(file) == IF Len(file) >= MEM_SIZE THEN LoadError ELSE Written(Zeros, 0, file)

\* load_mem of lab6/sim/misc/isa.c.  A file without code counts as an error.
load_mem(lns) ==
  IF lns = <<>> \/ \E k \in DOMAIN lns : lns[k].addr + Len(lns[k].bytes) > MEM_SIZE
  THEN LoadError
  ELSE FoldLeft(LAMBDA mem, l : Written(mem, l.addr, l.bytes), Zeros, lns)

-----------------------------------------------------------------------------
(***************************************************************************)
(* The lines on which the assemblers are known to differ.                  *)
(***************************************************************************)
Label(l) == IF Len(l) >= 2 /\ l[2] = Punct(":") THEN l[1].name ELSE ""
Body(l) == IF Label(l) = "" THEN l ELSE SubSeq(l, 3, Len(l))
Op(l) == IF Body(l) = <<>> THEN "" ELSE Head(Body(l)).name
Operands(l) == IF Body(l) = <<>> THEN <<>> ELSE Tail(Body(l))
Memory(l) == SelectInSeq(Operands(l), LAMBDA t : t = Punct("("))

\* A symbol with the name of an instruction: an instruction for yas wherever it is.
NamedLikeInstruction(l) == \E k \in DOMAIN l : /\ l[k].type = "instr"
                                              /\ k # (IF Label(l) = "" THEN 1 ELSE 3)

\* yas skips every $: one that is missing, or that is where none may be.
DollarAstray(l) ==
  LET o == Operands(l) IN
  \/ Op(l) \in {"irmovq", "jmp", "call"} \cup ToSet(Jump) /\ Is(o, "num")
  \/ \E k \in DOMAIN o : /\ o[k] = Punct("$")
                         /\ \/ k # 1 \/ Len(o) < 2 \/ o[2].type # "num"
                            \/ Op(l) \notin {"irmovq", "jmp", "call"} \cup ToSet(Jump)

\* Only yas lets a memory operand be an address, or a symbol its displacement.
AbsoluteOperand(l) == /\ Op(l) \in {"rmmovq", "mrmovq"}
                      /\ \/ Memory(l) = 0
                         \/ \E k \in DOMAIN Operands(l) : Operands(l)[k].type = "ident"

\* y64asm takes a symbol for the argument of a directive: .pos and .align use 0 for it,
\* and in data of less than eight bytes the address is written over the code's own.
SymbolInDirective(l) == Op(l) \in Directives \ {".quad"} /\ Is(Operands(l), "ident")

\* Only yas refuses .align with a number that is not positive; 0 is a division by zero
\* in y64asm.
AlignToNothing(l) == Op(l) = ".align" /\ Is(Operands(l), "num") /\ Head(Operands(l)).num <= 0

\* The number of tokens the operands of an instruction take up, as far as yas reads.
Arity(l) == CASE Op(l) \in {"nop", "halt", "ret"} -> 0
              [] Op(l) \in {"rmmovq", "mrmovq"} ->
                   IF Memory(l) = 0 THEN 3
                   ELSE IF \E k \in DOMAIN Operands(l) : Operands(l)[k].type \in {"num", "ident"}
                   THEN 6 ELSE 5
              [] Op(l) \in {"irmovq"} \cup Range(Alu) \cup {"rrmovq", "iaddq"} \cup Range(CMov) -> 3
              [] OTHER -> 1

\* yas does not look at what follows the operands.
Trailing(l) == Op(l) # "" /\ Len(Scanned(Operands(l))) > Arity(l)

Redefined(prog) == \E j, k \in DOMAIN prog :
                     j # k /\ Label(prog[j]) # "" /\ Label(prog[j]) = Label(prog[k])

KnownToDiffer(prog) ==
  \/ Redefined(prog)
  \/ \E k \in DOMAIN prog :
       LET l == prog[k]
       IN  \/ NamedLikeInstruction(l) \/ DollarAstray(l) \/ AbsoluteOperand(l)
           \/ SymbolInDirective(l) \/ AlignToNothing(l) \/ Trailing(l) \/ Op(l) = "iaddq"

-----------------------------------------------------------------------------
(***************************************************************************)
(* Properties.                                                             *)
(***************************************************************************)
Accepted == phase = "done"
YasAccepted == pass = 3 /\ ~hit_error

\* Programs that neither of the two assemblers treats in a way of its own are accepted
\* by both or refused by both, and neither crashes (parse_line, finish_line).
SameVerdict == Ended /\ ~KnownToDiffer(source) => phase # "crashed" /\ (Accepted <=> YasAccepted)

\* A program that both accept gives the same memory, whether an operand, a reference
\* forward or back, .pos or .align decides what is in it: relocate on the one hand, the
\* second pass on the other (relocate, binfile, finish_line, load_binfile, load_mem).
\* A file that fills the memory, or one without code, only one of the loaders refuses.
ImagesAgree ==
  Ended /\ ~KnownToDiffer(source) /\ Accepted /\ YasAccepted =>
    \/ load_binfile(image) = load_mem(yo)
    \/ Len(image) = MEM_SIZE /\ load_binfile(image) = LoadError
    \/ yo = <<>> /\ load_mem(yo) = LoadError

\* What the code at a line says: the tokens of an instruction that assembles to it.
Signed(bytes) == LET low == bytes[1] + 256 * bytes[2] + 65536 * bytes[3]
                 IN  IF bytes[8] = 255 THEN low - 256 ^ 3 ELSE low
Words(b) == LET ifun == LOW(b[1]) + 1
                ra == Reg(HIGH(b[2]))
                rb == Reg(LOW(b[2]))
                v == Num(Signed(SubSeq(b, 3, 10)))
                dest == Num(Signed(SubSeq(b, 2, 9)))
                mem == <<v, Punct("("), rb, Punct(")")>>
            IN  CASE HIGH(b[1]) = I_HALT -> <<Instr("halt")>>
                  [] HIGH(b[1]) = I_NOP -> <<Instr("nop")>>
                  [] HIGH(b[1]) = I_RET -> <<Instr("ret")>>
                  [] HIGH(b[1]) = I_RRMOVQ ->
                       <<Instr((<<"rrmovq">> \o CMov)[ifun]), ra, Punct(","), rb>>
                  [] HIGH(b[1]) = I_IRMOVQ -> <<Instr("irmovq"), v, Punct(","), rb>>
                  [] HIGH(b[1]) = I_RMMOVQ -> <<Instr("rmmovq"), ra, Punct(",")>> \o mem
                  [] HIGH(b[1]) = I_MRMOVQ -> <<Instr("mrmovq")>> \o mem \o <<Punct(","), ra>>
                  [] HIGH(b[1]) = I_ALU -> <<Instr(Alu[ifun]), ra, Punct(","), rb>>
                  [] HIGH(b[1]) = I_JMP -> <<Instr((<<"jmp">> \o Jump)[ifun]), dest>>
                  [] HIGH(b[1]) = I_CALL -> <<Instr("call"), dest>>
                  [] HIGH(b[1]) = I_PUSHQ -> <<Instr("pushq"), ra>>
                  [] HIGH(b[1]) = I_POPQ -> <<Instr("popq"), ra>>

\* Where the code that follows the label name begins.
Target(name) ==
  LET k == CHOOSE j \in DOMAIN source : Label(source[j]) = name
      coded == {j \in k .. Len(source) : lines[j].codes # <<>>}
  IN  IF coded = {} THEN vmaddr ELSE lines[CHOOSE j \in coded : \A i \in coded : j <= i].addr

\* The tokens of a line as Words gives them back.
Meant(l) ==
  FoldLeft(LAMBDA out, t : out \o (CASE t = Punct("$") -> <<>>
                                     [] t.type \in {"ident", "instr"} -> <<Num(Target(t.name))>>
                                     [] t = Punct("(") /\ Last(out).type # "num" -> <<Num(0), t>>
                                     [] OTHER -> <<t>>),
           <<Head(Body(l))>>, Operands(l))

\* A program that moves the address only by its own instructions assembles to code that
\* means what it says: every register, number and target of a jump comes out again,
\* wherever the label is (parse_line, add_reloc, relocate).
CodeMeansTheSource ==
  Accepted /\ (\A k \in DOMAIN source : /\ Op(source[k]) \notin {".pos", ".align"}
                                        /\ ~SymbolInDirective(source[k])) =>
    \A k \in DOMAIN source :
      Op(source[k]) \notin Directives \cup {""} => Words(lines[k].codes) = Meant(source[k])

=============================================================================
