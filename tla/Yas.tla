-------------------------------- MODULE Yas --------------------------------
(***************************************************************************)
(* The assembler of lab6, yas.c with the tables of isa.c.  Two passes over *)
(* the lines: the first gives each label its address, the second generates *)
(* code.  The scanner skips $, wherever it is.                             *)
(*                                                                         *)
(* A step is finish_line for one line.                                     *)
(***************************************************************************)
EXTENDS AsmLang, TLC

VARIABLES text,      \* the lines, as the scanner gives them
          pass,      \* 1, 2, or 3 at the end
          line,      \* lines read in this pass
          bytepos,   \* address of the next line
          symbols,   \* symbol_table, oldest first
          hit_error, \* whether a line had an error
          yo         \* the lines of the output file: address and bytes

yasvars == <<text, pass, line, bytepos, symbols, hit_error, yo>>

-----------------------------------------------------------------------------
(***************************************************************************)
(* instruction_set: the code, its length, and for each argument its kind,  *)
(* its position in the code, and its half of the byte or its length.       *)
(***************************************************************************)
NO_ARG == [kind |-> "none", pos |-> 0, hi |-> 0]
R_ARG(hi) == [kind |-> "reg", pos |-> 1, hi |-> hi]
M_ARG == [kind |-> "mem", pos |-> 1, hi |-> 0]
I_ARG(pos, bytes) == [kind |-> "imm", pos |-> pos, hi |-> bytes]

Row(names, icode, bytes, arg1, arg2) ==
  [n \in ToSet(names) |->
     [code |-> HPACK(icode, (CHOOSE k \in DOMAIN names : names[k] = n) - 1),
      bytes |-> bytes, arg1 |-> arg1, arg2 |-> arg2]]

instruction_set ==
  Row(<<"nop">>, I_NOP, 1, NO_ARG, NO_ARG) @@ Row(<<"halt">>, I_HALT, 1, NO_ARG, NO_ARG)
  @@ Row(<<"rrmovq">> \o CMov, I_RRMOVQ, 2, R_ARG(1), R_ARG(0))
  @@ Row(<<"irmovq">>, I_IRMOVQ, 10, I_ARG(2, 8), R_ARG(0))
  @@ Row(<<"rmmovq">>, I_RMMOVQ, 10, R_ARG(1), M_ARG)
  @@ Row(<<"mrmovq">>, I_MRMOVQ, 10, M_ARG, R_ARG(1))
  @@ Row(Alu, I_ALU, 2, R_ARG(1), R_ARG(0))
  @@ Row(<<"jmp">> \o Jump, I_JMP, 9, I_ARG(1, 8), NO_ARG)
  @@ Row(<<"call">>, I_CALL, 9, I_ARG(1, 8), NO_ARG)
  @@ Row(<<"ret">>, I_RET, 1, NO_ARG, NO_ARG)
  @@ Row(<<"pushq">>, I_PUSHQ, 2, R_ARG(1), NO_ARG)
  @@ Row(<<"popq">>, I_POPQ, 2, R_ARG(1), NO_ARG)
  @@ Row(<<"iaddq">>, I_IADDQ, 10, I_ARG(2, 8), R_ARG(0))
  @@ [n \in DOMAIN Data |-> [code |-> 0, bytes |-> Data[n], arg1 |-> I_ARG(0, Data[n]),
                             arg2 |-> NO_ARG]]

-----------------------------------------------------------------------------
(***************************************************************************)
(* Arguments.  p.s is what is left of the line, p.code the code so far.    *)
(* An argument that is wrong leaves the code as it is; p.ok is then FALSE. *)
(***************************************************************************)
Wrong(p) == [p EXCEPT !.ok = FALSE]
Known(name) == \E k \in DOMAIN symbols : symbols[k].name = name

\* The first symbol of that name, or -1.
yas_find_symbol(name) ==
  IF Known(name) THEN (CHOOSE sym \in ToSet(SelectSeq(symbols, LAMBDA e : e.name = name)) :
                         sym = SelectSeq(symbols, LAMBDA e : e.name = name)[1]).pos
                 ELSE -1

\* code with bytes from position pos on, counted from 0.
Patch(code, pos, bytes) ==
  [k \in DOMAIN code |-> IF k \in pos + 1 .. pos + Len(bytes) THEN bytes[k - pos] ELSE code[k]]

get_reg(p, pos, hi) ==
  IF ~Is(p.s, "reg") THEN Wrong(p)
  ELSE LET old == p.code[pos + 1]
           r == Head(p.s).num
           c == IF hi = 1 THEN HPACK(r, LOW(old)) ELSE HPACK(HIGH(old), r)
       IN  [p EXCEPT !.code = Patch(@, pos, <<c>>), !.s = Tail(@)]

get_num(p, pos, bytes) ==
  CASE Is(p.s, "num") ->
         [p EXCEPT !.code = Patch(@, pos, SubSeq(Bytes(Head(p.s).num), 1, bytes)), !.s = Tail(@)]
    [] Is(p.s, "ident") ->
         [p EXCEPT !.code = Patch(@, pos, SubSeq(Bytes(yas_find_symbol(Head(p.s).name)), 1, bytes)),
                   !.s = Tail(@), !.ok = @ /\ Known(Head(p.s).name)]
    [] OTHER -> Wrong(p)

\* An optional number or symbol, and an optional register in parentheses.
get_mem(p, pos) ==
  LET d == CASE Is(p.s, "num") -> [val |-> Head(p.s).num, s |-> Tail(p.s), ok |-> p.ok]
             [] Is(p.s, "ident") -> [val |-> yas_find_symbol(Head(p.s).name), s |-> Tail(p.s),
                                     ok |-> p.ok /\ Known(Head(p.s).name)]
             [] OTHER -> [val |-> 0, s |-> p.s, ok |-> p.ok]
      done(reg, s) ==
        [ok |-> d.ok, s |-> s,
         code |-> Patch(p.code, pos, <<HPACK(HIGH(p.code[pos + 1]), reg)>> \o Bytes(d.val))]
  IN  CASE ~IsPunct(d.s, "(") -> done(REG_NONE, d.s)
        [] Len(d.s) >= 3 /\ d.s[2].type = "reg" /\ d.s[3] = Punct(")") ->
             done(d.s[2].num, SubSeq(d.s, 4, Len(d.s)))
        [] OTHER -> Wrong(p)

Argument(p, arg) == CASE arg.kind = "reg" -> get_reg(p, arg.pos, arg.hi)
                      [] arg.kind = "mem" -> get_mem(p, arg.pos)
                      [] arg.kind = "imm" -> get_num(p, arg.pos, arg.hi)
                      [] OTHER -> p

\* The code of an instruction and whether it had an error.  What follows the arguments
\* is not looked at.
Generate(instr, s) ==
  LET p0 == [s |-> s, ok |-> TRUE,
             code |-> <<instr.code, HPACK(REG_NONE, REG_NONE), 0, 0, 0, 0, 0, 0, 0, 0>>]
      p1 == Argument(p0, instr.arg1)
  IN  CASE instr.arg2.kind = "none" -> p1
        [] IsPunct(p1.s, ",") -> Argument([p1 EXCEPT !.s = Tail(@)], instr.arg2)
        [] OTHER -> [Wrong(p1) EXCEPT !.code = <<>>]

-----------------------------------------------------------------------------
Scanned(l) == SelectSeq(l, LAMBDA t : t # Punct("$"))

YasInit(program) ==
  /\ text = [k \in DOMAIN program |-> Scanned(program[k])]
  /\ pass = 1 /\ line = 0 /\ bytepos = 0 /\ symbols = <<>> /\ hit_error = FALSE /\ yo = <<>>

\* A line that has no code: error tells whether it is wrong.
Finish(pos, error) ==
  /\ bytepos' = pos /\ hit_error' = (hit_error \/ error)
  /\ UNCHANGED yo

Emit(pos, bytes, error) ==
  /\ yo' = IF bytes = <<>> THEN yo ELSE Append(yo, [addr |-> pos, bytes |-> bytes])
  /\ hit_error' = (hit_error \/ error)

\* Symbols are added without a look at those that are there already.
add_symbol(s) == Append(symbols, [name |-> Head(s).name, pos |-> bytepos])

\* Mutant: an address that is aligned already is moved on.
align_next(a) == (bytepos \div a + 1) * a

align(a) == ((bytepos + a - 1) \div a) * a

finish_line ==
  /\ pass \in {1, 2} /\ line < Len(text)
  /\ line' = line + 1 /\ UNCHANGED <<text, pass>>
  /\ LET s == text[line + 1]
         labelled == Is(s, "ident") /\ IsPunct(Tail(s), ":")
         rest == IF labelled THEN Tail(Tail(s)) ELSE s
         name == Head(rest).name
         arg == Tail(rest)
     IN  /\ symbols' = IF labelled /\ pass = 1 THEN add_symbol(s) ELSE symbols
         /\ CASE rest = <<>> -> Finish(bytepos, FALSE)
              [] ~Is(rest, "instr") -> Finish(bytepos, TRUE)
              [] name = ".pos" ->
                   IF Is(arg, "num") THEN Finish(Head(arg).num, FALSE) ELSE Finish(bytepos, TRUE)
              [] name = ".align" ->
                   IF Is(arg, "num") /\ Head(arg).num > 0
                   THEN Finish(align(Head(arg).num), FALSE) ELSE Finish(bytepos, TRUE)
              [] OTHER ->
                   LET instr == instruction_set[name]
                       p == Generate(instr, arg)
                   IN  /\ bytepos' = bytepos + instr.bytes
                       /\ IF pass = 1 THEN UNCHANGED <<hit_error, yo>>
                          ELSE Emit(bytepos, IF p.code = <<>> THEN <<>>
                                             ELSE SubSeq(p.code, 1, instr.bytes), ~p.ok)

\* The end of the first pass: a program with an error is given up.
NextPass ==
  /\ pass \in {1, 2} /\ line = Len(text)
  /\ pass' = IF pass = 1 /\ hit_error THEN 3 ELSE pass + 1
  /\ line' = 0 /\ bytepos' = 0
  /\ UNCHANGED <<text, symbols, hit_error, yo>>

YasNext == finish_line \/ NextPass

=============================================================================
