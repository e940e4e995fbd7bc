-------------------------------- MODULE Hcl --------------------------------
(***************************************************************************)
(* hcl2c of lab6 (hcl.y, node.c): it translates the control logic of the   *)
(* processors, written in HCL, to C.  While the parser reduces an          *)
(* expression its nodes are built and their types are checked; when the    *)
(* definition is complete gen_expr writes the C expression.  Errors are    *)
(* reported and the translation goes on, over trees with missing parts.    *)
(*                                                                         *)
(* A pointer to a node is the sequence of the node and those behind it in  *)
(* its list; NULL is the empty one.  The text written is the tree that a C *)
(* compiler makes of it: all but operands of ! and of ?: are in            *)
(* parentheses.                                                            *)
(***************************************************************************)
EXTENDS Integers, Sequences, SequencesExt

CONSTANTS SYM_LIM, ERRLIM,
          HclTexts     \* the files that hcl2c may be given, sequences of statements
ASSUME HclAssumption == SYM_LIM \in Nat \ {0} /\ ERRLIM \in Nat

VARIABLES hcl,       \* "idle", "reading", "done", "aborted" or "crashed"
          hcltext,   \* the statements still to be read
          sym_tab,   \* the signals declared
          errcnt,
          defined    \* the last definition, and what was made of it

hclvars == <<hcl, hcltext, sym_tab, errcnt, defined>>

-----------------------------------------------------------------------------
(***************************************************************************)
(* Expressions as they are written.                                        *)
(***************************************************************************)
Var(name) == [type |-> "var", name |-> name]
Number(n) == [type |-> "num", val |-> n]
Not(e) == [type |-> "not", arg |-> e]
Binary(type, e1, e2) == [type |-> type, left |-> e1, right |-> e2]
Comp(op, e1, e2) == [type |-> "comp", op |-> op, left |-> e1, right |-> e2]
Ele(e, set) == [type |-> "ele", arg |-> e, set |-> set]
Case(rows) == [type |-> "case", rows |-> rows]
Arm(cond, e) == [cond |-> cond, val |-> e]

-----------------------------------------------------------------------------
(***************************************************************************)
(* Nodes, and what is reported of them: "error", or "crash" where a        *)
(* missing node is read.                                                   *)
(***************************************************************************)
NULL == <<>>
Error == <<"error">>
Crash == <<"crash">>

new_node(type, isbool, sval, arg1, arg2) ==
  <<[type |-> type, isbool |-> isbool, sval |-> sval, arg1 |-> arg1, arg2 |-> arg2]>>

concat(n1, n2) == n1 \o n2

IsDeclared(name) == \E k \in DOMAIN sym_tab : sym_tab[k].name = name

\* A name that is declared twice keeps its first meaning.
hcl_find_symbol(name) == sym_tab[SelectInSeq(sym_tab, LAMBDA s : s.name = name)]

\* Whether an expression can be shown in a message, which visits all of its nodes.
RECURSIVE show_expr(_)
show_expr(p) ==
  /\ p # NULL
  /\ LET n == Head(p)
     IN  CASE n.type \in {"and", "or", "comp"} -> show_expr(n.arg1) /\ show_expr(n.arg2)
           [] n.type = "not" -> show_expr(n.arg1)
           [] n.type = "ele" -> /\ show_expr(n.arg1)
                                /\ \A k \in DOMAIN n.arg2 : show_expr(SubSeq(n.arg2, k, Len(n.arg2)))
           [] n.type = "case" -> \A k \in DOMAIN p : show_expr(p[k].arg1) /\ show_expr(p[k].arg2)
           [] OTHER -> TRUE

\* Mutant: every number passes for a Boolean.
check_arg_num(arg, wantbool) ==
  IF arg = NULL THEN Error
  ELSE LET n == Head(arg)
       IN  CASE n.type = "var" -> IF ~IsDeclared(n.sval) THEN Error \o Error
                                  ELSE IF hcl_find_symbol(n.sval).isbool # wantbool THEN Error ELSE <<>>
             [] n.type = "num" -> <<>>
             [] OTHER -> IF n.isbool = wantbool THEN <<>>
                         ELSE IF show_expr(arg) THEN Error ELSE Crash

\* What check_arg reports; hcl_find_symbol reports an undeclared signal, too.
check_arg(arg, wantbool) ==
  IF arg = NULL THEN Error
  ELSE LET n == Head(arg)
       IN  CASE n.type = "var" -> IF ~IsDeclared(n.sval) THEN Error \o Error
                                  ELSE IF hcl_find_symbol(n.sval).isbool # wantbool THEN Error ELSE <<>>
             [] n.type = "num" -> IF wantbool /\ n.sval \notin {0, 1} THEN Error ELSE <<>>
             [] OTHER -> IF n.isbool = wantbool THEN <<>>
                         ELSE IF show_expr(arg) THEN Error ELSE Crash

\* A node, and what has been reported while it and its parts were built.
Built(node, reports) == [node |-> node, reports |-> reports]

make_not(a) ==
  Built(new_node("not", TRUE, "!", a.node, NULL), a.reports \o check_arg(a.node, TRUE))

\* make_and, make_or and make_comp.
make_binary(type, op, wantbool, a, b) ==
  Built(new_node(type, TRUE, op, a.node, b.node),
        a.reports \o b.reports \o check_arg(a.node, wantbool) \o check_arg(b.node, wantbool))

\* The loop that was to check the elements goes over the list of the first argument.
make_ele(a, set) ==
  Built(new_node("ele", TRUE, "in", a.node, set.node),
        a.reports \o set.reports \o check_arg(a.node, FALSE)
          \o FlattenSeq([k \in DOMAIN a.node |->
                           check_arg(SubSeq(a.node, k, Len(a.node)), FALSE)]))

make_case(c, e) ==
  Built(new_node("case", FALSE, ":", c.node, e.node),
        c.reports \o e.reports \o check_arg(c.node, TRUE) \o check_arg(e.node, FALSE))

\* A list: of elements, or of the rows of a case expression.
Joined(parts) ==
  FoldLeft(LAMBDA l, p : Built(concat(l.node, p.node), l.reports \o p.reports),
           Built(NULL, <<>>), parts)

\* The parser's reductions.
RECURSIVE Parsed(_)
Parsed(e) ==
  CASE e.type = "var" -> Built(new_node("var", FALSE, e.name, NULL, NULL), <<>>)
    [] e.type = "num" -> Built(new_node("num", FALSE, e.val, NULL, NULL), <<>>)
    [] e.type = "not" -> make_not(Parsed(e.arg))
    [] e.type \in {"and", "or"} -> make_binary(e.type, "", TRUE, Parsed(e.left), Parsed(e.right))
    [] e.type = "comp" -> make_binary("comp", e.op, FALSE, Parsed(e.left), Parsed(e.right))
    [] e.type = "ele" -> make_ele(Parsed(e.arg), Joined([k \in DOMAIN e.set |-> Parsed(e.set[k])]))
    [] e.type = "case" -> Joined([k \in DOMAIN e.rows |->
                                    make_case(Parsed(e.rows[k].cond), Parsed(e.rows[k].val))])

-----------------------------------------------------------------------------
(***************************************************************************)
(* Generation of C.                                                        *)
(***************************************************************************)
Code(c, reports) == [c |-> c, reports |-> reports]
Op2(op, a, b) == Code([op |-> op, left |-> a.c, right |-> b.c], a.reports \o b.reports)

\* The parentheses of a set without elements: no C expression.
Nothing == Code([op |-> "()"], <<>>)


\* A row whose condition is the number 1 is the last one that is translated.
IsDefault(row) == row.arg1 # NULL /\ Head(row.arg1).type = "num" /\ Head(row.arg1).sval = 1

RECURSIVE gen_expr(_), gen_rows(_)
gen_expr(p) ==
  IF p = NULL THEN Code(Nothing.c, Crash)
  ELSE LET n == Head(p)
       IN  CASE n.type = "var" ->
                  IF IsDeclared(n.sval) THEN Code([op |-> "sig", sig |-> hcl_find_symbol(n.sval)], <<>>)
                                        ELSE Code(Nothing.c, Error \o Error)
             [] n.type = "num" -> Code([op |-> "num", val |-> n.sval], <<>>)
             [] n.type = "and" -> Op2("&", gen_expr(n.arg1), gen_expr(n.arg2))
             [] n.type = "or" -> Op2("|", gen_expr(n.arg1), gen_expr(n.arg2))
             [] n.type = "comp" -> Op2(n.sval, gen_expr(n.arg1), gen_expr(n.arg2))
             [] n.type = "not" -> LET a == gen_expr(n.arg1)
                                  IN  Code([op |-> "!", arg |-> a.c], a.reports)
             [] n.type = "ele" ->
                  LET equals == [k \in DOMAIN n.arg2 |->
                                   Op2("==", gen_expr(n.arg1),
                                       gen_expr(SubSeq(n.arg2, k, Len(n.arg2))))]
                  IN  IF equals = <<>> THEN Nothing
                      ELSE FoldLeft(LAMBDA a, b : Op2("||", a, b), Head(equals), Tail(equals))
             [] n.type = "case" -> gen_rows(p)

\* The list is taken for the rows of a case expression, whatever its nodes are.
gen_rows(p) ==
  IF p = NULL THEN Code([op |-> "num", val |-> 0], <<>>)
  ELSE IF IsDefault(Head(p)) THEN gen_expr(Head(p).arg2)
  ELSE LET cond == gen_expr(Head(p).arg1)
           val == gen_expr(Head(p).arg2)
           rest == gen_rows(Tail(p))
       IN  Code([op |-> "?:", cond |-> cond.c, left |-> val.c, right |-> rest.c],
                cond.reports \o val.reports \o rest.reports)

-----------------------------------------------------------------------------
(***************************************************************************)
(* Statements.                                                             *)
(***************************************************************************)
Idle == [expr |-> Number(0), isbool |-> FALSE, code |-> Nothing.c, clean |-> FALSE]

HclInit == /\ hcl \in {"idle", "reading"}
           /\ hcltext \in (IF hcl = "idle" THEN {<<>>} ELSE HclTexts)
           /\ sym_tab = <<>> /\ errcnt = 0 /\ defined = Idle

\* More than ERRLIM errors end the program, unless it has crashed before.
Report(reports) ==
  LET before == SelectInSeq(reports, LAMBDA r : r = "crash")
      errors == IF before = 0 THEN Len(reports) ELSE before - 1
  IN  /\ errcnt' = errcnt + errors
      /\ hcl' = IF errcnt + errors > ERRLIM THEN "aborted"
                ELSE IF before # 0 THEN "crashed" ELSE hcl

Reads(type) == /\ hcl = "reading" /\ hcltext # <<>> /\ Head(hcltext).type = type
               /\ hcltext' = Tail(hcltext)

\* quote: text that is copied.
insert_code == Reads("quote") /\ defined' = Idle /\ UNCHANGED <<hcl, sym_tab, errcnt>>

TableIsFull == Len(sym_tab) >= SYM_LIM
Declaration(s) == [name |-> s.name, isbool |-> s.isbool]

\* boolsig and wordsig.
add_arg ==
  /\ Reads("signal")
  /\ Report(IF TableIsFull THEN Error ELSE <<>>)
  /\ sym_tab' = IF TableIsFull THEN sym_tab ELSE Append(sym_tab, Declaration(Head(hcltext)))
  /\ defined' = Idle

\* bool and word: nothing is written for a missing expression.
gen_funct ==
  /\ Reads("definition")
  /\ LET parsed == Parsed(Head(hcltext).expr)
         isbool == Head(hcltext).isbool
         code == gen_expr(parsed.node)
         reports == IF parsed.node = NULL THEN parsed.reports \o Error
                    ELSE parsed.reports \o check_arg(parsed.node, isbool) \o code.reports
     IN  /\ Report(reports)
         /\ defined' = [expr |-> Head(hcltext).expr, isbool |-> isbool, code |-> code.c,
                        clean |-> reports = <<>>]
  /\ UNCHANGED sym_tab

Translated == /\ hcl = "reading" /\ hcltext = <<>>
              /\ hcl' = "done"
              /\ UNCHANGED <<hcltext, sym_tab, errcnt, defined>>

HclNext == insert_code \/ add_arg \/ gen_funct \/ Translated

-----------------------------------------------------------------------------
(***************************************************************************)
(* What expressions mean.                                                  *)
(***************************************************************************)
Truth(b) == IF b THEN 1 ELSE 0
Compared(op, a, b) == Truth(CASE op = "==" -> a = b
                              [] op = "!=" -> a # b
                              [] op = "<" -> a < b
                              [] op = "<=" -> a <= b
                              [] op = ">" -> a > b
                              [] op = ">=" -> a >= b)

\* In C, where & and | work on bits; their operands are 0 or 1 when the types are right.
RECURSIVE CValue(_, _)
CValue(c, sigs) ==
  CASE c.op = "sig" -> sigs[c.sig.name]
    [] c.op = "num" -> c.val
    [] c.op = "!" -> Truth(CValue(c.arg, sigs) = 0)
    [] c.op = "&" -> CValue(c.left, sigs) * CValue(c.right, sigs)
    [] c.op = "|" -> Truth(CValue(c.left, sigs) + CValue(c.right, sigs) > 0)
    [] c.op = "||" -> Truth(CValue(c.left, sigs) # 0 \/ CValue(c.right, sigs) # 0)
    [] c.op = "?:" -> IF CValue(c.cond, sigs) # 0 THEN CValue(c.left, sigs)
                                                  ELSE CValue(c.right, sigs)
    [] OTHER -> Compared(c.op, CValue(c.left, sigs), CValue(c.right, sigs))

\* In HCL: a case expression has the value of the first row whose condition holds, and
\* that is 0 if there is none.
RECURSIVE Value(_, _)
Value(e, sigs) ==
  CASE e.type = "var" -> sigs[e.name]
    [] e.type = "num" -> e.val
    [] e.type = "not" -> Truth(Value(e.arg, sigs) = 0)
    [] e.type = "and" -> Truth(Value(e.left, sigs) = 1 /\ Value(e.right, sigs) = 1)
    [] e.type = "or" -> Truth(Value(e.left, sigs) = 1 \/ Value(e.right, sigs) = 1)
    [] e.type = "comp" -> Compared(e.op, Value(e.left, sigs), Value(e.right, sigs))
    [] e.type = "ele" -> Truth(\E k \in DOMAIN e.set : Value(e.set[k], sigs) = Value(e.arg, sigs))
    [] e.type = "case" ->
         LET k == SelectInSeq(e.rows, LAMBDA r : Value(r.cond, sigs) = 1)
         IN  IF k = 0 THEN 0 ELSE Value(e.rows[k].val, sigs)

\* Whether the expression is of the type, and all of its parts are.
RECURSIVE IsTyped(_, _)
IsTyped(e, isbool) ==
  CASE e.type = "var" -> IsDeclared(e.name) /\ hcl_find_symbol(e.name).isbool = isbool
    [] e.type = "num" -> isbool => e.val \in {0, 1}
    [] e.type = "not" -> isbool /\ IsTyped(e.arg, TRUE)
    [] e.type \in {"and", "or"} -> isbool /\ IsTyped(e.left, TRUE) /\ IsTyped(e.right, TRUE)
    [] e.type = "comp" -> isbool /\ IsTyped(e.left, FALSE) /\ IsTyped(e.right, FALSE)
    [] e.type = "ele" -> /\ isbool /\ IsTyped(e.arg, FALSE)
                         /\ \A k \in DOMAIN e.set : IsTyped(e.set[k], FALSE)
    [] e.type = "case" -> /\ ~isbool /\ e.rows # <<>>
                          /\ \A k \in DOMAIN e.rows : /\ IsTyped(e.rows[k].cond, TRUE)
                                                      /\ IsTyped(e.rows[k].val, FALSE)

\* The parts of an expression, itself included.
RECURSIVE Parts(_)
Parts(e) ==
  {e} \cup
  (CASE e.type \in {"var", "num"} -> {}
     [] e.type = "not" -> Parts(e.arg)
     [] e.type \in {"and", "or", "comp"} -> Parts(e.left) \cup Parts(e.right)
     [] e.type = "ele" -> Parts(e.arg) \cup UNION {Parts(e.set[k]) : k \in DOMAIN e.set}
     [] e.type = "case" -> UNION {Parts(e.rows[k].cond) \cup Parts(e.rows[k].val)
                                  : k \in DOMAIN e.rows})

\* Those that stand in a set.
Elements(e) == UNION {ToSet(s.set) : s \in {s \in Parts(e) : s.type = "ele"}}

\* A set in the list that hcl2c makes of it: the rows of a case expression are linked as
\* the elements are.  Each begins an element, which goes on as long as rows follow.
Linked(set) == FlattenSeq([k \in DOMAIN set |->
                             IF set[k].type = "case" THEN set[k].rows ELSE <<set[k]>>])
IsRow(x) == "cond" \in DOMAIN x
Rows(l, k) == LET ends == {j \in k .. Len(l) : ~IsRow(l[j])} \cup {Len(l) + 1}
              IN  SubSeq(l, k, Min(ends) - 1)
AsLinked(set) == LET l == Linked(set)
                 IN  [k \in DOMAIN l |-> IF IsRow(l[k]) THEN Case(Rows(l, k)) ELSE l[k]]

\* The expression with its sets read in this way.
RECURSIVE AsRead(_)
AsRead(e) ==
  CASE e.type \in {"var", "num"} -> e
    [] e.type = "not" -> Not(AsRead(e.arg))
    [] e.type = "comp" -> Comp(e.op, AsRead(e.left), AsRead(e.right))
    [] e.type \in {"and", "or"} -> Binary(e.type, AsRead(e.left), AsRead(e.right))
    [] e.type = "ele" -> LET set == AsLinked(e.set)
                         IN  Ele(AsRead(e.arg), [k \in DOMAIN set |-> AsRead(set[k])])
    [] e.type = "case" -> Case([k \in DOMAIN e.rows |->
                                  Arm(AsRead(e.rows[k].cond), AsRead(e.rows[k].val))])

\* The lists that are made of its sets.
Lists(e) == {Linked(s.set) : s \in {s \in Parts(e) : s.type = "ele"}}

\* A case expression stands in a set and the next element is none: its rows run into
\* that element.
RowsRunOn(e) ==
  \E l \in Lists(e) : \E k \in 1 .. Len(l) - 1 : IsRow(l[k]) /\ ~IsRow(l[k + 1])

-----------------------------------------------------------------------------
(***************************************************************************)
(* Properties.                                                             *)
(***************************************************************************)
\* The values that the declared signals can have.
Signals == {sigs \in [{s.name : s \in ToSet(sym_tab)} -> 0 .. 2] :
              \A name \in DOMAIN sigs : hcl_find_symbol(name).isbool => sigs[name] \in {0, 1}}


\* Of a definition one part of which is not of the type that stands there something is
\* reported ("Make sure argument is OK", node.c:237), if the elements of its sets, which
\* are not checked (node.c:305-306), are of theirs.  Nothing is reported of a definition
\* of the right types in which no rows run on.  And hcl2c crashes only over an empty case
\* expression, which is no node, or over rows that run on, where the condition of a row
\* is read of an element that is none (node.c:623).
RefusesIllTyped ==
  defined # Idle =>
    LET typed == IsTyped(defined.expr, defined.isbool)
    IN  /\ (\A e \in Elements(defined.expr) : IsTyped(e, FALSE)) => (defined.clean => typed)
        /\ typed /\ ~RowsRunOn(defined.expr) => defined.clean
        /\ hcl = "crashed" => Case(<<>>) \in Parts(defined.expr) \/ RowsRunOn(defined.expr)

=============================================================================
