------------------------------- MODULE MCAsm -------------------------------
(***************************************************************************)
(* Programs for the two assemblers: every instruction by itself, with      *)
(* operands of each kind, and all programs of up to four lines that        *)
(* combine labels, references to them, data and directives.  Files for     *)
(* hcl2c: declarations and a definition of depth three, and some where the *)
(* errors of two definitions add up.                                       *)
(***************************************************************************)
EXTENDS Tools

Comma == Punct(",")
L == Ident("L")
M == Ident("M")
At(name) == <<name, Punct(":")>>
Mem(d, r) == d \o <<Punct("("), Reg(r), Punct(")")>>
Dollar(n) == <<Punct("$"), Num(n)>>

Operand(n) ==
  CASE n \in {"nop", "halt", "ret"} -> {<<>>}
    [] n \in ToSet(<<"rrmovq">> \o CMov) \cup ToSet(Alu) -> {<<Reg(2), Comma, Reg(7)>>}
    [] n \in {"irmovq", "iaddq"} -> {Dollar(-2) \o <<Comma, Reg(3)>>, <<L, Comma, Reg(3)>>,
                                     <<Num(1), Comma, Reg(3)>>}
    [] n = "rmmovq" -> {<<Reg(1), Comma>> \o Mem(<<Num(-8)>>, 4), <<Reg(1), Comma>> \o Mem(<<>>, 4),
                        <<Reg(1), Comma, L>>, <<Reg(1), Comma>> \o Mem(<<L>>, 4)}
    [] n = "mrmovq" -> {Mem(<<Num(300)>>, 4) \o <<Comma, Reg(1)>>, Mem(<<>>, 4) \o <<Comma, Reg(1)>>,
                        <<Num(8), Comma, Reg(1)>>, Mem(<<L>>, 4) \o <<Comma, Reg(1)>>}
    [] n \in ToSet(<<"jmp">> \o Jump) \cup {"call"} -> {Dollar(5), <<L>>, <<M>>, <<Num(5)>>}
    [] n \in {"pushq", "popq"} -> {<<Reg(6)>>}
    [] OTHER -> {<<Num(5)>>, <<Num(0)>>, Dollar(3), <<L>>}

AllInstrs == DOMAIN instruction_set \cup DOMAIN instr_set

\* Each instruction at a label L, complete, with a token missing, and with one too many.
\* A .word or .long with a symbol would make the file as long as the address it destroys.
Singles ==
  UNION {UNION {LET s == At(L) \o <<Instr(n)>> \o o IN {s, Front(s), s \o <<Instr("nop")>>}
                : o \in Operand(n)} : n \in AllInstrs}
    \ {At(L) \o <<Instr(n), L>> \o e : n \in {".word", ".long"}, e \in {<<>>, <<Instr("nop")>>}}

\* Lines that the assemblers agree on.
Lines ==
  {<<>>, At(L), At(M) \o <<Instr("halt")>>,
   <<Instr("nop")>>,
   At(L) \o <<Instr("jmp"), M>>,
   <<Instr("irmovq"), L, Comma, Reg(0)>>,
   <<Instr("call"), L>>,
   <<Instr("mrmovq")>> \o Mem(<<Num(4)>>, 3) \o <<Comma, Reg(1)>>,
   <<Instr("rmmovq"), Reg(1), Comma>> \o Mem(<<>>, 3),
   <<Instr(".quad"), M>>,
   <<Instr(".word"), Num(258)>>,
   <<Instr(".pos"), Num(12)>>,
   <<Instr(".align"), Num(4)>>}

\* Lines that one of them takes in another way, and lines that are wrong for both.
OddLines ==
  {At(Instr("nop")) \o <<Instr("halt")>>, At(Instr("pushq")) \o <<Instr("pushq"), Reg(0)>>,
   At(L) \o <<Instr("irmovq"), Instr("irmovq"), Comma, Reg(0)>>, <<Instr("jmp"), Instr("nop")>>,
   <<Instr(".pos"), L>>, <<Instr(".byte"), M>>, <<Instr(".align"), Num(-4)>>,
   <<L>>, <<M, Instr("halt")>>, <<Instr("pushq"), Num(3)>>, <<Punct(":")>>}

ProgramsDef == {<<s>> : s \in Singles}
               \cup UNION {[1 .. n -> Lines] : n \in 0 .. 4}
               \cup [1 .. 2 -> Lines \cup OddLines]
MemSizeDef == 24

-----------------------------------------------------------------------------
Signal(name, isbool) == [type |-> "signal", name |-> name, isbool |-> isbool]
Definition(e, isbool) == [type |-> "definition", expr |-> e, isbool |-> isbool]

\* A word, a Boolean, a signal that may be undeclared, and numbers.
Atoms == {Var("w"), Var("p"), Var("u"), Number(0), Number(1), Number(2)}
Empty == Case(<<>>)

\* Expressions over two others; all, or those of the usual types.
Over(a, b) ==
  {Not(a), Binary("and", a, b), Binary("or", a, b), Comp("==", a, b), Comp("<", a, b),
   Ele(a, <<b>>), Ele(b, <<a, Number(1)>>), Case(<<Arm(a, b)>>),
   Case(<<Arm(a, b), Arm(Number(1), Number(2))>>)}
Usual(a, b) == {Not(a), Binary("or", a, b), Comp("!=", a, b), Ele(b, <<Number(2), a>>),
                Case(<<Arm(a, b), Arm(b, a)>>),
                Case(<<Arm(Number(0), a), Arm(a, b), Arm(Number(1), a), Arm(a, Number(0))>>)}

Level1 == UNION {Over(a, b) : a, b \in Atoms \cup {Empty}}
Typical == {Not(Var("p")), Comp("==", Var("w"), Number(1)), Ele(Var("w"), <<Number(0), Number(2)>>),
            Case(<<Arm(Var("p"), Number(1)), Arm(Not(Var("p")), Var("w"))>>),
            Case(<<Arm(Number(0), Number(1)), Arm(Var("p"), Number(2))>>),
            Not(Empty), Var("w"), Var("p"), Var("u"), Number(1)}
Level2 == UNION {Usual(a, b) : a, b \in Typical}
Level3 == UNION {Usual(a, b) : a \in Level2, b \in {Var("w"), Var("p"), Number(1)}}

\* Sets of elements some of which are case expressions, at each place in the set.
InSets == {Number(2), Var("w"), Var("p"), Case(<<Arm(Var("p"), Number(1))>>),
           Case(<<Arm(Var("p"), Number(1)), Arm(Number(1), Var("w"))>>),
           Case(<<Arm(Number(1), Number(0)), Arm(Number(0), Number(1))>>)}
Sets == {Ele(a, s) : a \in {Var("w"), Number(1)}, s \in UNION {[1 .. n -> InSets] : n \in 1 .. 3}}
Level4 == Sets \cup {Not(s) : s \in Sets} \cup {Case(<<Arm(s, Number(2))>>) : s \in Sets}

Declared == {<<>>, <<Signal("w", FALSE), Signal("p", TRUE)>>,
             <<Signal("p", FALSE), Signal("w", TRUE), Signal("u", TRUE)>>,
             <<Signal("w", FALSE), Signal("w", TRUE), Signal("p", TRUE)>>,
             <<Signal("w", FALSE), Signal("p", TRUE), Signal("u", FALSE), Signal("u", FALSE)>>}
MostDeclared == {<<Signal("w", FALSE), Signal("p", TRUE)>>}

HclTextsDef ==
  {d \o <<Definition(e, isbool)>> : d \in Declared, e \in Level1 \cup Atoms \cup {Empty},
                                    isbool \in BOOLEAN}
  \cup {d \o <<Definition(e, isbool)>> : d \in MostDeclared, e \in Level2 \cup Level3 \cup Level4,
                                         isbool \in BOOLEAN}
  \cup {<<Definition(e, TRUE), [type |-> "quote"], Definition(f, FALSE),
           Signal("w", TRUE), Definition(f, TRUE)>>
        : e, f \in Typical}

=============================================================================
