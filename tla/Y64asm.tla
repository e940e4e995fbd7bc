------------------------------- MODULE Y64asm -------------------------------
(***************************************************************************)
(* The assembler of lab5, y64asm.c.  One pass over the lines collects      *)
(* codes, symbols and references to symbols; relocate then puts addresses  *)
(* in the places of the references, and binfile writes the codes.          *)
(*                                                                         *)
(* A step handles one line, one reference or one write.                    *)
(***************************************************************************)
EXTENDS AsmLang, TLC

CONSTANT Programs  \* sequences of lines

VARIABLES source,            \* the lines of the input file
          phase,             \* what the program is doing
          lineno,            \* lines read or written, or references relocated
          vmaddr,            \* address of the next code
          lines,             \* line_head: the codes of each line
          symbol_table,      \* newest first
          relocation_table,  \* newest first: name, and number of the line
          image              \* contents of the output file

y64vars == <<source, phase, lineno, vmaddr, lines, symbol_table, relocation_table, image>>

-----------------------------------------------------------------------------
Entry(icode, ifun, bytes) == [icode |-> icode, ifun |-> ifun, bytes |-> bytes]
I_DIRECTIVE == 12
D_DATA == 0
D_POS == 1
D_ALIGN == 2

\* Names with consecutive function codes from first on.
Family(names, icode, first, bytes) ==
  [n \in ToSet(names) |->
     Entry(icode, first - 1 + CHOOSE k \in DOMAIN names : names[k] = n, bytes)]

instr_set ==
  Family(<<"nop">>, I_NOP, 0, 1) @@ Family(<<"halt">>, I_HALT, 0, 1)
  @@ Family(<<"rrmovq">> \o CMov, I_RRMOVQ, 0, 2)
  @@ Family(<<"irmovq">>, I_IRMOVQ, 0, 10) @@ Family(<<"rmmovq">>, I_RMMOVQ, 0, 10)
  @@ Family(<<"mrmovq">>, I_MRMOVQ, 0, 10) @@ Family(Alu, I_ALU, 0, 2)
  @@ Family(<<"jmp">> \o Jump, I_JMP, 0, 9) @@ Family(<<"call">>, I_CALL, 0, 9)
  @@ Family(<<"ret">>, I_RET, 0, 1) @@ Family(<<"pushq">>, I_PUSHQ, 0, 2)
  @@ Family(<<"popq">>, I_POPQ, 0, 2)
  @@ [n \in DOMAIN Data |-> Entry(I_DIRECTIVE, D_DATA, Data[n])]
  @@ Family(<<".pos">>, I_DIRECTIVE, D_POS, 0) @@ Family(<<".align">>, I_DIRECTIVE, D_ALIGN, 0)

need_regA(i) == i.icode \in {I_RRMOVQ, I_RMMOVQ, I_ALU, I_PUSHQ, I_POPQ}
need_regB(i) == i.icode \in {I_MRMOVQ, I_RRMOVQ, I_IRMOVQ, I_ALU}
need_imm(i) == i.icode \in {I_IRMOVQ, I_JMP, I_CALL}
\* Mutant: the comma behind a memory operand is forgotten.
need_delim_after_reg(i) == i.icode \in {I_RRMOVQ, I_IRMOVQ, I_RMMOVQ, I_ALU}

need_delim(i) == i.icode \in {I_RRMOVQ, I_IRMOVQ, I_RMMOVQ, I_MRMOVQ, I_ALU}
need_memA(i) == i.icode = I_MRMOVQ
need_memB(i) == i.icode = I_RMMOVQ
need_data(i) == i.icode = I_DIRECTIVE

-----------------------------------------------------------------------------
(***************************************************************************)
(* Parsing.  p.s is what is left of the line; p.ok says that nothing has   *)
(* failed; label is "" as long as no symbol has been seen.                 *)
(***************************************************************************)
Fresh(s) == [s |-> s, ok |-> TRUE, regA |-> REG_NONE, regB |-> REG_NONE, imm |-> 0,
             label |-> ""]
Failed(p) == [p EXCEPT !.ok = FALSE]

\* What parse_symbol takes for a name: also that of an instruction.
IsSymbol(s) == Is(s, "ident") \/ (Is(s, "instr") /\ Head(s).name \notin Directives)

parse_reg(p, field) ==
  IF p.ok /\ Is(p.s, "reg") THEN [p EXCEPT ![field] = Head(p.s).num, !.s = Tail(@)]
                            ELSE Failed(p)

parse_delim(p, c) ==
  IF p.ok /\ IsPunct(p.s, c) THEN [p EXCEPT !.s = Tail(@)] ELSE Failed(p)

parse_digit(p) ==
  IF p.ok /\ Is(p.s, "num") THEN [p EXCEPT !.imm = Head(p.s).num, !.s = Tail(@)] ELSE Failed(p)

parse_symbol(p) ==
  IF p.ok /\ IsSymbol(p.s) THEN [p EXCEPT !.label = Head(p.s).name, !.s = Tail(@)]
                           ELSE Failed(p)

parse_imm(p) == IF IsPunct(p.s, "$") THEN parse_digit([p EXCEPT !.s = Tail(@)])
                                     ELSE parse_symbol(p)

parse_mem(p, field) ==
  LET d == IF Is(p.s, "num") THEN parse_digit(p) ELSE p
  IN  parse_delim(parse_reg(parse_delim(d, "("), field), ")")

parse_data(p) == IF Is(p.s, "num") THEN parse_digit(p) ELSE parse_symbol(p)

\* The operands of instruction i.
parse_operands(p, i) ==
  LET regA  == IF need_regA(i) THEN parse_reg(p, "regA") ELSE p
      memA  == IF need_memA(i) THEN parse_mem(regA, "regA") ELSE regA
      imm   == IF need_imm(i) THEN parse_imm(memA) ELSE memA
      delim == IF need_delim(i) THEN parse_delim(imm, ",") ELSE imm
      regB  == IF need_regB(i) THEN parse_reg(delim, "regB") ELSE delim
      memB  == IF need_memB(i) THEN parse_mem(regB, "regB") ELSE regB
  IN  IF need_data(i) THEN parse_data(memB) ELSE memB

\* Mutant: the registers of mrmovq are not swapped.
codes_unswapped(i, p) ==
  IF need_data(i) THEN SubSeq(Bytes(p.imm), 1, i.bytes)
  ELSE <<HPACK(i.icode, i.ifun)>>
       \o (IF need_regA(i) \/ need_memA(i) \/ need_regB(i) \/ need_memB(i)
           THEN <<HPACK(p.regA, p.regB)>> ELSE <<>>)
       \o (IF need_imm(i) \/ need_memA(i) \/ need_memB(i) THEN Bytes(p.imm) ELSE <<>>)

codes(i, p) ==
  IF need_data(i) THEN SubSeq(Bytes(p.imm), 1, i.bytes)
  ELSE <<HPACK(i.icode, i.ifun)>>
       \o (CASE need_memA(i) -> <<HPACK(p.regB, p.regA)>>
             [] need_regA(i) \/ need_regB(i) \/ need_memB(i) -> <<HPACK(p.regA, p.regB)>>
             [] OTHER -> <<>>)
       \o (IF need_imm(i) \/ need_memA(i) \/ need_memB(i) THEN Bytes(p.imm) ELSE <<>>)

\* The directives .pos and .align set vmaddr.  The remainder has the sign of vmaddr.
Placed(i, p, addr) ==
  LET imm == IF p.imm < 0 THEN -p.imm ELSE p.imm
  IN  CASE i.icode = I_DIRECTIVE /\ i.ifun = D_POS -> p.imm
        [] i.icode = I_DIRECTIVE /\ i.ifun = D_ALIGN ->
             IF addr % imm # 0 THEN addr + p.imm - (addr % imm) ELSE addr
        [] OTHER -> addr + i.bytes

DividesByZero(i, p) == i.icode = I_DIRECTIVE /\ i.ifun = D_ALIGN /\ p.ok /\ p.imm = 0

find_symbol(table, name) ==
  LET hits == SelectSeq(table, LAMBDA sym : sym.name = name)
  IN  IF hits = <<>> THEN -1 ELSE Head(hits).addr

Defined(table, name) == \E k \in DOMAIN table : table[k].name = name

-----------------------------------------------------------------------------
Y64Init == /\ source \in Programs
           /\ phase = "assemble" /\ lineno = 0 /\ vmaddr = 0
           /\ lines = <<>> /\ symbol_table = <<>> /\ relocation_table = <<>>
           /\ image = <<>>

\* The program prints an error and exits, or is killed.
Stop(how) ==
  phase' = how /\ UNCHANGED <<source, lineno, vmaddr, lines, symbol_table,
                              relocation_table, image>>

AddLine(addr, code) == lines' = Append(lines, [addr |-> addr, codes |-> code])

\* add_symbol, for a line that begins with a label.
AddSymbol(s) ==
  symbol_table' = IF IsSymbol(s) /\ IsPunct(Tail(s), ":")
                  THEN <<[name |-> Head(s).name, addr |-> vmaddr]>> \o symbol_table
                  ELSE symbol_table

\* An iteration of the loop of assemble: one line, label and instruction.
ParseLine ==
  /\ phase = "assemble" /\ lineno < Len(source)
  /\ LET s == source[lineno + 1]
         labelled == IsSymbol(s) /\ IsPunct(Tail(s), ":")
         rest == IF labelled THEN Tail(Tail(s)) ELSE s
         known == Is(rest, "instr") /\ Head(rest).name \in DOMAIN instr_set
         i == instr_set[Head(rest).name]
         p == parse_operands(Fresh(Tail(rest)), i)
     IN  CASE labelled /\ Defined(symbol_table, Head(s).name) -> Stop("failed")
           [] known /\ DividesByZero(i, p) -> Stop("crashed")
           [] known /\ (~p.ok \/ p.s # <<>>) -> Stop("failed")
           [] ~known /\ rest # <<>> -> Stop("failed")
           [] OTHER ->
              /\ AddSymbol(s)
              /\ IF known
                 THEN /\ AddLine(vmaddr, codes(i, p))
                      /\ vmaddr' = Placed(i, p, vmaddr)
                      /\ relocation_table' =
                           IF p.label = "" THEN relocation_table
                           ELSE <<[name |-> p.label, line |-> lineno + 1]>> \o relocation_table
                 ELSE /\ AddLine(0, <<>>)
                      /\ UNCHANGED <<vmaddr, relocation_table>>
              /\ lineno' = lineno + 1
              /\ UNCHANGED <<source, phase, image>>

Assembled ==
  /\ phase = "assemble" /\ lineno = Len(source)
  /\ phase' = "relocate" /\ lineno' = 0
  /\ UNCHANGED <<source, vmaddr, lines, symbol_table, relocation_table, image>>

\* The word addr written eight bytes before the end of the code.  For less than eight
\* bytes of code it begins within the field addr of the structure, before the codes.
Relocated(bin, addr) ==
  LET n == Len(bin.codes)
  IN  IF n >= 8
      THEN [bin EXCEPT !.codes = SubSeq(@, 1, n - 8) \o Bytes(addr)]
      ELSE [addr  |-> (bin.addr % 256 ^ n) + addr * 256 ^ n,
            codes |-> SubSeq(Bytes(addr), 9 - n, 8)]

\* An iteration of the loop of relocate.
RelocateOne ==
  /\ phase = "relocate" /\ lineno < Len(relocation_table)
  /\ LET ref == relocation_table[lineno + 1]
     IN  IF ~Defined(symbol_table, ref.name) THEN Stop("failed")
         ELSE /\ lines' = [lines EXCEPT ![ref.line] =
                             Relocated(@, find_symbol(symbol_table, ref.name))]
              /\ lineno' = lineno + 1
              /\ UNCHANGED <<source, phase, vmaddr, symbol_table, relocation_table, image>>

AllRelocated ==
  /\ phase = "relocate" /\ lineno = Len(relocation_table)
  /\ phase' = "binfile" /\ lineno' = 0
  /\ UNCHANGED <<source, vmaddr, lines, symbol_table, relocation_table, image>>

\* An iteration of the loop of binfile.
WriteLine ==
  /\ phase = "binfile" /\ lineno < Len(lines)
  /\ image' = Written(image, lines[lineno + 1].addr, lines[lineno + 1].codes)
  /\ lineno' = lineno + 1
  /\ UNCHANGED <<source, phase, vmaddr, lines, symbol_table, relocation_table>>

AllWritten ==
  /\ phase = "binfile" /\ lineno = Len(lines)
  /\ phase' = "done"
  /\ UNCHANGED <<source, lineno, vmaddr, lines, symbol_table, relocation_table, image>>

Y64Next == \/ ParseLine \/ Assembled
           \/ RelocateOne \/ AllRelocated
           \/ WriteLine \/ AllWritten

=============================================================================
