---------------------------- MODULE MachinesProof ---------------------------
(***************************************************************************)
(* Proofs about the processors: the pipeline, the two sequential           *)
(* processors and the simulator of lab4 do with every program what         *)
(* step_state does.  The theorems hold for words of any size (Bits), any   *)
(* registers, sizes of memory and code and any set of well-formed          *)
(* instructions.                                                           *)
(*                                                                         *)
(* Contents: arithmetic on words; what an instruction does; programs; the  *)
(* inductive invariant IInv of the pipeline; what the stages compute; what *)
(* a cycle does to the invariant; the sequential processors; the simulator *)
(* of lab4; programs in which no load is late.                             *)
(***************************************************************************)
EXTENDS Machines, Lemmas

-----------------------------------------------------------------------------
(***************************************************************************)
(* Arithmetic on words.                                                    *)
(***************************************************************************)
\* Quotients and remainders of any integer.
LEMMA IntDivMod ==
  ASSUME NEW a \in Int, NEW y \in Nat \ {0}
  PROVE  /\ a \div y \in Int /\ a % y \in 0 .. y - 1
         /\ a = y * (a \div y) + (a % y)
OBVIOUS

\* Only one number below y differs from a by a multiple of y.
LEMMA Remainder ==
  ASSUME NEW a \in Int, NEW y \in Nat \ {0}, NEW k \in Int, NEW c \in 0 .. y - 1,
         a = y * k + c
  PROVE  a % y = c
<1> DEFINE q == a \div y
           r == a % y
<1>1. q \in Int /\ r \in 0 .. y - 1 /\ a = y * q + r
  BY IntDivMod
<1> HIDE DEF q, r
<1>2. y * (q - k) = c - r
  BY <1>1
<1>3. c - r < y /\ c - r > -y /\ q - k \in Int
  BY <1>1
<1>4. q - k = 0
  <2> DEFINE d == q - k
  <2>1. d \in Int /\ y * d < y /\ y * d > -y
    BY <1>2, <1>3
  <2> HIDE DEF d
  <2>2. ~(d >= 1)
    <3> SUFFICES ASSUME d >= 1 PROVE FALSE
      OBVIOUS
    <3>1. y * d >= y * 1
      BY <2>1
    <3> QED
      BY <2>1, <3>1
  <2>3. ~(d <= -1)
    <3> SUFFICES ASSUME d <= -1 PROVE FALSE
      OBVIOUS
    <3>1. y * d <= y * (-1)
      BY <2>1
    <3> QED
      BY <2>1, <3>1
  <2> QED
    BY <2>1, <2>2, <2>3 DEF d
<1>5. y * (q - k) = 0
  BY <1>4
<1> QED
  BY <1>1, <1>2, <1>5 DEF r

\* The numbers that words are.
LEMMA WordSize ==
  /\ Bits \in Nat /\ 2 ^ Bits \in Nat /\ 2 ^ (Bits - 1) \in Nat
  /\ 2 ^ Bits = 2 * 2 ^ (Bits - 1) /\ 2 ^ (Bits - 1) >= 2
  /\ MinWord = -(2 ^ (Bits - 1)) /\ MinWord \in Int
  /\ Word = -(2 ^ (Bits - 1)) .. 2 ^ (Bits - 1) - 1
<1>1. Bits \in Nat /\ Bits - 1 \in Nat /\ Bits - 2 \in Nat
  BY BitsAssumption
<1>2. 2 ^ (Bits - 1) \in Nat /\ 2 ^ (Bits - 2) \in Nat \ {0}
  BY <1>1, PowerIsPositive
<1>3. 2 ^ Bits = 2 * 2 ^ (Bits - 1)
  BY <1>1, NextPower, (Bits - 1) + 1 = Bits
<1>4. 2 ^ (Bits - 1) = 2 * 2 ^ (Bits - 2)
  BY <1>1, NextPower, (Bits - 2) + 1 = Bits - 1
<1> QED
  BY <1>1, <1>2, <1>3, <1>4 DEF MinWord, Word

\* Wrap yields the word that differs from n by a multiple of 2 ^ Bits.
LEMMA WrapWord ==
  ASSUME NEW n \in Int
  PROVE  /\ Wrap(n) \in Word
         /\ \A k \in Int, w \in Word : n = 2 ^ Bits * k + w => Wrap(n) = w
<1> DEFINE y == 2 ^ Bits
           h == 2 ^ (Bits - 1)
<1>1. y \in Nat \ {0} /\ h \in Nat /\ y = 2 * h /\ MinWord = -h /\ Word = -h .. h - 1
  BY WordSize
<1>2. Wrap(n) = ((n + h) % y) - h
  BY <1>1 DEF Wrap
<1> HIDE DEF y, h
<1>3. Wrap(n) \in Word
  <2>1. (n + h) % y \in 0 .. y - 1
    BY <1>1, IntDivMod
  <2> QED
    BY <1>1, <1>2, <2>1
<1>4. ASSUME NEW k \in Int, NEW w \in Word, n = y * k + w
      PROVE  Wrap(n) = w
  <2>1. w \in Int /\ w + h \in 0 .. y - 1 /\ n + h \in Int
    BY <1>1
  <2>2. n + h = y * k + (w + h)
    BY <1>1, <1>4, <2>1
  <2>3. (n + h) % y = w + h
    BY <1>1, <2>1, <2>2, Remainder
  <2> QED
    BY <1>1, <1>2, <2>1, <2>3
<1> QED
  BY <1>3, <1>4 DEF y

\* What is a word already stays, what is not too far away is moved by 2 ^ Bits.
LEMMA WrapNear ==
  ASSUME NEW n \in Int
  PROVE  /\ n \in Word => Wrap(n) = n
         /\ n + 2 ^ Bits \in Word => Wrap(n) = n + 2 ^ Bits
         /\ n - 2 ^ Bits \in Word => Wrap(n) = n - 2 ^ Bits
<1> DEFINE y == 2 ^ Bits
<1>1. y \in Nat
  BY WordSize
<1>2. \A k \in Int, w \in Word : n = y * k + w => Wrap(n) = w
  BY WrapWord
<1> HIDE DEF y
<1>3. n = y * 0 + n /\ n = y * (-1) + (n + y) /\ n = y * 1 + (n - y)
  BY <1>1
<1> QED
  BY <1>1, <1>2, <1>3 DEF y

\* The stack pointer moves.
LEMMA WrapMoves ==
  ASSUME NEW n \in Word
  PROVE  /\ Wrap(n + 1) \in Word /\ Wrap(n + 1) # n
         /\ Wrap(n - 1) \in Word /\ Wrap(n - 1) # n
<1> DEFINE y == 2 ^ Bits
           h == 2 ^ (Bits - 1)
<1>1. /\ y \in Nat /\ h \in Nat /\ y = 2 * h /\ h >= 2 /\ Word = -h .. h - 1
  BY WordSize
<1>2. n \in Int
  BY <1>1
<1>3. /\ Wrap(n + 1) \in Word /\ (n + 1 \in Word => Wrap(n + 1) = n + 1)
      /\ ((n + 1) - y \in Word => Wrap(n + 1) = (n + 1) - y)
  <2> DEFINE k == n + 1
  <2>1. k \in Int
    BY <1>2
  <2> HIDE DEF k
  <2>2. /\ Wrap(k) \in Word /\ (k \in Word => Wrap(k) = k)
        /\ (k - y \in Word => Wrap(k) = k - y)
    BY <2>1, WrapWord, WrapNear
  <2> QED
    BY <2>2 DEF k
<1>4. /\ Wrap(n - 1) \in Word /\ (n - 1 \in Word => Wrap(n - 1) = n - 1)
      /\ ((n - 1) + y \in Word => Wrap(n - 1) = (n - 1) + y)
  <2> DEFINE k == n - 1
  <2>1. k \in Int
    BY <1>2
  <2> HIDE DEF k
  <2>2. /\ Wrap(k) \in Word /\ (k \in Word => Wrap(k) = k)
        /\ (k + y \in Word => Wrap(k) = k + y)
    BY <2>1, WrapWord, WrapNear
  <2> QED
    BY <2>2 DEF k
<1> HIDE DEF y, h
<1>5. n + 1 \in Word \/ (n + 1) - y \in Word
  BY <1>1, <1>2
<1>6. n - 1 \in Word \/ (n - 1) + y \in Word
  BY <1>1, <1>2
<1> QED
  BY <1>1, <1>2, <1>3, <1>4, <1>5, <1>6

\* The sums of the first terms of t.
LEMMA PartialSums ==
  ASSUME NEW n \in Nat, NEW t \in [1 .. n -> Int]
  PROVE  \E f \in [0 .. n -> Int] : f[0] = 0 /\ \A k \in 1 .. n : f[k] = f[k - 1] + t[k]
<1> DEFINE Is(f, k) == /\ f \in [0 .. k -> Int] /\ f[0] = 0
                       /\ \A j \in 1 .. k : f[j] = f[j - 1] + t[j]
           S == {k \in Nat : k <= n => \E f : Is(f, k)}
<1>1. 0 \in S
  <2>1. Is([j \in 0 .. 0 |-> 0], 0)
    OBVIOUS
  <2> QED
    BY <2>1
<1>2. ASSUME NEW k \in Nat, k \in S
      PROVE  k + 1 \in S
  <2> HIDE DEF Is
  <2> SUFFICES ASSUME k + 1 <= n PROVE \E f : Is(f, k + 1)
    OBVIOUS
  <2> USE DEF Is
  <2>1. PICK f : Is(f, k)
    BY <1>2
  <2> DEFINE g == [j \in 0 .. k + 1 |-> IF j = k + 1 THEN f[k] + t[k + 1] ELSE f[j]]
  <2>2. f[k] \in Int /\ t[k + 1] \in Int
    BY <2>1
  <2>3. g \in [0 .. k + 1 -> Int] /\ g[0] = 0
    BY <2>1, <2>2
  <2>4. ASSUME NEW j \in 1 .. k + 1
        PROVE  g[j] = g[j - 1] + t[j]
    <3>1. j - 1 \in 0 .. k /\ g[j - 1] = f[j - 1]
      OBVIOUS
    <3>2. CASE j = k + 1
      BY <3>1, <3>2
    <3>3. CASE j # k + 1
      BY <2>1, <3>1, <3>3
    <3> QED
      BY <3>2, <3>3
  <2>5. Is(g, k + 1)
    BY <2>3, <2>4
  <2> HIDE DEF Is, g
  <2> QED
    BY <2>5
<1>3. n \in S
  <2> HIDE DEF S
  <2> QED
    BY <1>1, <1>2, NatSetInduction
<1> HIDE DEF Is
<1>4. PICK f : Is(f, n)
  BY <1>3
<1> QED
  BY <1>4 DEF Is

\* The partial sums are numbers.
LEMMA SumType ==
  ASSUME NEW n \in Nat, NEW t \in [1 .. n -> Int], NEW f, f[0] = 0,
         \A k \in 1 .. n : f[k] = f[k - 1] + t[k]
  PROVE  f[n] \in Int
<1> DEFINE S == {k \in Nat : k <= n => f[k] \in Int}
<1>1. \A k \in Nat : k \in S => k + 1 \in S
  <2> SUFFICES ASSUME NEW k \in Nat, k \in S, k + 1 <= n PROVE f[k + 1] \in Int
    OBVIOUS
  <2>1. f[k] \in Int /\ k + 1 \in 1 .. n /\ t[k + 1] \in Int /\ (k + 1) - 1 = k
    OBVIOUS
  <2>2. f[k + 1] = f[k] + t[k + 1]
    BY <2>1
  <2> QED
    BY <2>1, <2>2
<1>2. 0 \in S
  OBVIOUS
<1>3. n \in S
  <2> HIDE DEF S
  <2> QED
    BY <1>1, <1>2, NatSetInduction
<1> QED
  BY <1>3

\* What is computed bit by bit is a word.
LEMMA BitwiseWord ==
  ASSUME NEW set, NEW a, NEW b
  PROVE  Bitwise2(set, a, b) \in Word
<1> DEFINE term(n) == IF BitOf(a, n - 1) + BitOf(b, n - 1) = set THEN 2 ^ (n - 1) ELSE 0
           Rec(f) == f = [n \in 0 .. Bits |-> IF n = 0 THEN 0 ELSE f[n - 1] + term(n)]
           f == CHOOSE sum : Rec(sum)
           t == [n \in 1 .. Bits |-> term(n)]
<1>0. Bits \in Nat
  BY WordSize
<1>1. t \in [1 .. Bits -> Int]
  <2>1. \A n \in 1 .. Bits : 2 ^ (n - 1) \in Int
    <3>1. \A n \in 1 .. Bits : n - 1 \in Nat
      BY <1>0
    <3> QED
      BY <3>1, PowerIsPositive
  <2> QED
    BY <2>1
<1>2. Bitwise2(set, a, b) = Wrap(f[Bits])
  BY DEF Bitwise2
<1>3. \A n \in 1 .. Bits : t[n] = term(n)
  OBVIOUS
<1> HIDE DEF term, t
<1>4. PICK g \in [0 .. Bits -> Int] : g[0] = 0 /\ \A k \in 1 .. Bits : g[k] = g[k - 1] + t[k]
  BY <1>0, <1>1, PartialSums
<1>5. Rec(g)
  <2>1. g = [n \in 0 .. Bits |-> g[n]]
    BY <1>4
  <2>2. ASSUME NEW n \in 0 .. Bits
        PROVE  g[n] = IF n = 0 THEN 0 ELSE g[n - 1] + term(n)
    <3>1. CASE n = 0
      BY <1>4, <3>1
    <3>2. CASE n # 0
      <4>1. n \in 1 .. Bits
        BY <1>0, <3>2
      <4>2. g[n] = g[n - 1] + t[n] /\ t[n] = term(n)
        BY <1>3, <1>4, <4>1
      <4> QED
        BY <3>2, <4>2
    <3> QED
      BY <3>1, <3>2
  <2> QED
    BY <2>1, <2>2
<1>6. Rec(f)
  <2> HIDE DEF Rec
  <2> QED
    BY <1>5
<1> HIDE DEF f
<1>7. f[0] = 0 /\ \A k \in 1 .. Bits : f[k] = f[k - 1] + t[k]
  BY <1>0, <1>3, <1>6
<1> HIDE DEF Rec
<1>8. f[Bits] \in Int
  BY <1>0, <1>1, <1>7, SumType
<1> QED
  BY <1>2, <1>8, WrapWord

\* What the arithmetic unit computes is a word.
LEMMA AluWord ==
  ASSUME NEW op, NEW a \in Int, NEW b \in Int
  PROVE  compute_alu(op, a, b) \in Word
<1>1. a + b \in Int /\ b - a \in Int /\ 0 \in Word
  BY WordSize
<1>2. Wrap(a + b) \in Word /\ Wrap(b - a) \in Word
  BY <1>1, WrapWord
<1> QED
  BY <1>1, <1>2, BitwiseWord DEF compute_alu

-----------------------------------------------------------------------------
(***************************************************************************)
(* What an instruction i does to the state s of step_state, in the terms   *)
(* of the control logic: an operator here is what the signal of the same   *)
(* name in pipe-full.hcl would be for i alone, without a pipeline.         *)
(***************************************************************************)
\* The registers that it reads and writes.
srcA(i) == CASE i.icode \in {IRRMOVQ, IRMMOVQ, IOPQ, IPUSHQ} -> i.rA
             [] i.icode \in {IPOPQ, IRET} -> RRSP
             [] OTHER -> RNONE

srcB(i) == CASE i.icode \in {IOPQ, IRMMOVQ, IMRMOVQ, IIADDQ} -> i.rB
             [] i.icode \in {IPUSHQ, IPOPQ, ICALL, IRET} -> RRSP
             [] OTHER -> RNONE

dstE(i) == CASE i.icode \in {IRRMOVQ, IIRMOVQ, IOPQ, IIADDQ} -> i.rB
             [] i.icode \in {IPUSHQ, IPOPQ, ICALL, IRET} -> RRSP
             [] OTHER -> RNONE

dstM(i) == IF i.icode \in {IMRMOVQ, IPOPQ} THEN i.rA ELSE RNONE

\* Whether it sets the condition codes, reads and writes memory.
Sets(i) == i.icode \in {IOPQ, IIADDQ}
Reads(i) == i.icode \in {IMRMOVQ, IPOPQ, IRET}
Writes(i) == i.icode \in {IRMMOVQ, IPUSHQ, ICALL}

\* Its operands, and whether its condition holds.
valA(s, i) == IF i.icode \in {ICALL, IJXX} THEN Wrap(s.pc + 1) ELSE get_reg_val(s.r, srcA(i))
valB(s, i) == get_reg_val(s.r, srcB(i))
Cond(s, i) == cond_holds(s.cc, i.ifun)

\* What the ALU is to do with what, and what it yields.
fun(i) == IF Sets(i) THEN i.ifun ELSE A_ADD

inA(s, i) == CASE i.icode \in {IRRMOVQ, IOPQ} -> valA(s, i)
               [] i.icode \in {IIRMOVQ, IRMMOVQ, IMRMOVQ, IIADDQ} -> i.valC
               [] i.icode \in {ICALL, IPUSHQ} -> -1
               [] i.icode \in {IRET, IPOPQ} -> 1
               [] OTHER -> 0

inB(s, i) == IF i.icode \in {IRMMOVQ, IMRMOVQ, IOPQ, ICALL, IPUSHQ, IRET, IPOPQ, IIADDQ}
             THEN valB(s, i) ELSE 0

valE(s, i) == compute_alu(fun(i), inA(s, i), inB(s, i))

\* The register that valE goes to.
Target(s, i) == IF i.icode = IRRMOVQ /\ ~Cond(s, i) THEN RNONE ELSE dstE(i)

\* The address in memory, whether it is outside, and the word that is read there.
Where(s, i) == CASE i.icode \in {IRMMOVQ, IPUSHQ, ICALL, IMRMOVQ} -> valE(s, i)
                 [] i.icode \in {IPOPQ, IRET} -> valA(s, i)
                 [] OTHER -> 0

Misses(s, i) == (Reads(i) \/ Writes(i)) /\ Where(s, i) \notin Address
valM(s, i) == IF Reads(i) /\ ~Misses(s, i) THEN s.m[Where(s, i)] ELSE 0

\* The state that an instruction leaves, if it does not fail.
Done(s, i) ==
  [pc |-> CASE i.icode = ICALL -> i.valC
            [] i.icode = IJXX /\ Cond(s, i) -> i.valC
            [] i.icode = IRET -> valM(s, i)
            [] OTHER -> Wrap(s.pc + 1),
   r  |-> set_reg_val(set_reg_val(s.r, Target(s, i), valE(s, i)), dstM(i), valM(s, i)),
   m  |-> IF Writes(i) THEN [s.m EXCEPT ![Where(s, i)] = valA(s, i)] ELSE s.m,
   cc |-> IF Sets(i) THEN compute_cc(fun(i), inA(s, i), inB(s, i)) ELSE s.cc]

\* The state that it leaves if it misses the memory.
Failed(s, i) == IF i.icode \in {ICALL, IPUSHQ, IPOPQ}
                THEN [s EXCEPT !.r = [@ EXCEPT ![RRSP] = valE(s, i)]] ELSE s

\* Addition wraps around, and zero is neutral.
LEMMA AddIs ==
  ASSUME NEW a \in Word, NEW b \in Word
  PROVE  /\ compute_alu(A_ADD, a, b) = Wrap(a + b)
         /\ compute_alu(A_ADD, a, 0) = a
<1>1. a \in Int /\ b \in Int /\ a + 0 = a
  BY WordSize
<1>2. \A x, y : compute_alu(A_ADD, x, y) = Wrap(x + y)
  BY DEF compute_alu, A_ADD, A_SUB, A_AND, A_XOR
<1>3. Wrap(a) = a
  BY <1>1, WrapNear
<1> QED
  BY <1>1, <1>2, <1>3

\* What the ALU adds to the stack pointer.
LEMMA StackMoves ==
  ASSUME NEW b \in Word
  PROVE  /\ compute_alu(A_ADD, 1, b) = Wrap(b + 1)
         /\ compute_alu(A_ADD, -1, b) = Wrap(b - 1)
<1>1. b \in Int
  BY WordSize
<1>2. 1 + b = b + 1 /\ -1 + b = b - 1
  BY <1>1
<1> QED
  BY <1>2 DEF compute_alu, A_ADD, A_SUB, A_AND, A_XOR

\* Operands are words.
LEMMA Operands ==
  ASSUME NEW s \in State, NEW i \in Instruction, WellFormed(i)
  PROVE  /\ s.pc \in Int /\ s.r \in [Register -> Word] /\ s.m \in [Address -> Word]
         /\ s.cc \in CC
         /\ s = [pc |-> s.pc, r |-> s.r, m |-> s.m, cc |-> s.cc]
         /\ i.valC \in Word /\ valA(s, i) \in Word /\ valB(s, i) \in Word
         /\ inA(s, i) \in Word /\ inB(s, i) \in Word /\ valE(s, i) \in Word
         /\ valM(s, i) \in Word /\ 0 \in Word
<1>1. /\ s.pc \in Int /\ s.r \in [Register -> Word] /\ s.m \in [Address -> Word]
      /\ s.cc \in CC /\ s = [pc |-> s.pc, r |-> s.r, m |-> s.m, cc |-> s.cc]
  BY DEF State
<1>2. /\ i.valC \in Word /\ i.icode \in Icode \cup {INVALID}
      /\ i.rA \in Register \cup {RNONE} /\ i.rB \in Register \cup {RNONE}
  BY DEF Instruction
<1>3. 0 \in Word /\ 1 \in Word /\ -1 \in Word
  BY WordSize
<1>4. \A id \in Register \cup {RNONE} : get_reg_val(s.r, id) \in Word
  BY <1>1, <1>3 DEF get_reg_val
<1>5. srcA(i) \in Register \cup {RNONE} /\ srcB(i) \in Register \cup {RNONE}
  BY <1>2, RegisterAssumption DEF srcA, srcB
<1>6. valA(s, i) \in Word /\ valB(s, i) \in Word
  <2>1. Wrap(s.pc + 1) \in Word
    BY <1>1, WrapWord
  <2> QED
    BY <1>4, <1>5, <2>1 DEF valA, valB
<1>7. inA(s, i) \in Word /\ inB(s, i) \in Word
  BY <1>2, <1>3, <1>6 DEF inA, inB
<1>8. valE(s, i) \in Word
  <2>1. inA(s, i) \in Int /\ inB(s, i) \in Int
    BY <1>7, WordSize
  <2> QED
    BY <2>1, AluWord DEF valE
<1>9. valM(s, i) \in Word
  BY <1>1, <1>3 DEF valM, Misses
<1> QED
  BY <1>1, <1>2, <1>3, <1>6, <1>7, <1>8, <1>9

\* A state by its parts.
At(p, r, m, c) == [pc |-> p, r |-> r, m |-> m, cc |-> c]

\* A store puts the word into memory, or fails and leaves the state as it was.
LEMMA StoreIs ==
  ASSUME NEW p0, NEW r0, NEW m0, NEW c0, NEW a, NEW v, NEW p
  PROVE  Store(At(p0, r0, m0, c0), a, v, p)
         = IF a \in Address THEN After(At(p, r0, [m0 EXCEPT ![a] = v], c0), SAOK)
                            ELSE After(At(p0, r0, m0, c0), SADR)
<1> DEFINE q == At(p0, r0, m0, c0)
           m1 == [m0 EXCEPT ![a] = v]
<1>0. q = [pc |-> p0, r |-> r0, m |-> m0, cc |-> c0]
  BY DEF At
<1> HIDE DEF q
<1>1. [q EXCEPT !.m[a] = v, !.pc = p] = [[q EXCEPT !.m = m1] EXCEPT !.pc = p]
  BY <1>0
<1> HIDE DEF m1
<1>2. [q EXCEPT !.m = m1] = [pc |-> p0, r |-> r0, m |-> m1, cc |-> c0]
  BY <1>0
<1>3. [[pc |-> p0, r |-> r0, m |-> m1, cc |-> c0] EXCEPT !.pc = p] = At(p, r0, m1, c0)
  BY DEF At
<1>4. Store(q, a, v, p) = IF a \in Address THEN After(At(p, r0, m1, c0), SAOK) ELSE After(q, SADR)
  BY <1>1, <1>2, <1>3 DEF Store
<1> QED
  BY <1>4 DEF m1, q

\* A load puts the word into the register and goes to the next instruction.
LEMMA LoadIs ==
  ASSUME NEW p0, NEW r0, NEW m0, NEW c0, NEW a, NEW id
  PROVE  Load(At(p0, r0, m0, c0), a, id)
         = IF a \in Address THEN After(At(p0 + 1, set_reg_val(r0, id, m0[a]), m0, c0), SAOK)
                            ELSE After(At(p0, r0, m0, c0), SADR)
<1> DEFINE q == At(p0, r0, m0, c0)
           r1 == set_reg_val(r0, id, m0[a])
           p1 == p0 + 1
<1>1. q.pc = p0 /\ q.m = m0 /\ q.r = r0
  BY DEF At
<1>2. [q EXCEPT !.r = set_reg_val(@, id, q.m[a]), !.pc = @ + 1] = [q EXCEPT !.r = r1, !.pc = p1]
  BY <1>1
<1> HIDE DEF r1, p1
<1>3. [q EXCEPT !.r = r1, !.pc = p1] = At(p1, r1, m0, c0)
  <2>1. [q EXCEPT !.r = r1] = At(p0, r1, m0, c0)
    BY DEF At
  <2>2. [At(p0, r1, m0, c0) EXCEPT !.pc = p1] = At(p1, r1, m0, c0)
    BY DEF At
  <2>3. [q EXCEPT !.r = r1, !.pc = p1] = [[q EXCEPT !.r = r1] EXCEPT !.pc = p1]
    OBVIOUS
  <2> QED
    BY <2>1, <2>2, <2>3
<1> HIDE DEF q
<1> QED
  BY <1>2, <1>3 DEF Load, r1, p1, q

\* Only the stack pointer moves.
LEMMA MovedIs ==
  ASSUME NEW p0, NEW r0, NEW m0, NEW c0, NEW d
  PROVE  Moved(At(p0, r0, m0, c0), d) = At(p0, [r0 EXCEPT ![RRSP] = Wrap(r0[RRSP] + d)], m0, c0)
<1> DEFINE q == At(p0, r0, m0, c0)
           r1 == [r0 EXCEPT ![RRSP] = Wrap(r0[RRSP] + d)]
<1>1. q.r = r0
  BY DEF At
<1>2. [q EXCEPT !.r[RRSP] = Wrap(q.r[RRSP] + d)] = [q EXCEPT !.r = r1]
  BY <1>1
<1> HIDE DEF r1
<1>3. [q EXCEPT !.r = r1] = At(p0, r1, m0, c0)
  BY DEF At
<1> QED
  BY <1>1, <1>2, <1>3 DEF Moved, r1

\* The outcome of an instruction, in the terms of the control logic.
Outcome(s, i) ==
  IF i.icode \notin Icode THEN After(s, SINS)
  ELSE IF i.icode = IHALT THEN After(s, SHLT)
  ELSE IF Misses(s, i) THEN After(Failed(s, i), SADR)
  ELSE After(Done(s, i), SAOK)

\* step_state and the control logic agree.
LEMMA StepIsOutcome ==
  ASSUME NEW s \in State, NEW i \in Instruction, WellFormed(i), Wrap(s.pc + 1) = s.pc + 1
  PROVE  step_state(s, i) = Outcome(s, i)
<1> USE DEF INOP, IHALT, IRRMOVQ, IIRMOVQ, IRMMOVQ, IMRMOVQ, IOPQ, IJXX, ICALL, IRET,
            IPUSHQ, IPOPQ, IIADDQ, INVALID, Icode
<1>1. /\ s.pc \in Int /\ s.r \in [Register -> Word] /\ s.m \in [Address -> Word]
      /\ s = [pc |-> s.pc, r |-> s.r, m |-> s.m, cc |-> s.cc]
      /\ i.valC \in Word /\ valA(s, i) \in Word /\ valB(s, i) \in Word
      /\ inA(s, i) \in Word /\ inB(s, i) \in Word /\ 0 \in Word
  BY Operands
<1>2. RRSP \in Register /\ RNONE \notin Register
  BY RegisterAssumption
<1>3. i.icode \in Icode \cup {INVALID}
  BY DEF Instruction
<1>4. \A id \in Register : get_reg_val(s.r, id) = s.r[id] /\ id # RNONE /\ s.r[id] \in Word
  BY <1>1, <1>2 DEF get_reg_val
<1>5. \A r, v : set_reg_val(r, RNONE, v) = r
  BY DEF set_reg_val
<1>6. \A r, v : \A id \in Register : set_reg_val(r, id, v) = [r EXCEPT ![id] = v]
  BY <1>2 DEF set_reg_val
<1>7. CASE i.icode \notin Icode
  BY <1>3, <1>7 DEF step_state, Outcome
<1>8. CASE i.icode = IHALT
  BY <1>8 DEF step_state, Outcome
<1>9. CASE i.icode \in {INOP, IJXX}
  <2>1. ~Misses(s, i) /\ Target(s, i) = RNONE /\ dstM(i) = RNONE /\ ~Writes(i) /\ ~Sets(i)
    BY <1>9 DEF Misses, Reads, Writes, Target, dstE, dstM, Sets
  <2>2. CASE i.icode = INOP
    <3>1. Done(s, i) = [s EXCEPT !.pc = Wrap(s.pc + 1)]
      BY <1>1, <1>5, <2>1, <2>2 DEF Done
    <3> QED
      BY <2>1, <2>2, <3>1 DEF step_state, Outcome, step_nop, next_pc
  <2>3. CASE i.icode = IJXX
    <3>1. Done(s, i) = [s EXCEPT !.pc = IF Cond(s, i) THEN i.valC ELSE Wrap(s.pc + 1)]
      BY <1>1, <1>5, <2>1, <2>3 DEF Done
    <3> QED
      BY <2>1, <2>3, <3>1 DEF step_state, Outcome, step_jmp, next_pc, Cond
  <2> QED
    BY <1>9, <2>2, <2>3
<1>10. CASE i.icode \in {IRRMOVQ, IIRMOVQ, IOPQ, IIADDQ}
  <2>1. /\ ~Misses(s, i) /\ dstM(i) = RNONE /\ ~Writes(i) /\ i.rB \in Register
        /\ dstE(i) = i.rB
        /\ Done(s, i) = [s EXCEPT !.pc = Wrap(s.pc + 1),
                                  !.r = set_reg_val(@, Target(s, i), valE(s, i)),
                                  !.cc = IF Sets(i) THEN compute_cc(fun(i), inA(s, i), inB(s, i))
                                         ELSE @]
    <3>1. ~Misses(s, i) /\ dstM(i) = RNONE /\ ~Writes(i) /\ dstE(i) = i.rB
      BY <1>10 DEF Misses, Reads, Writes, dstE, dstM
    <3>2. i.rB \in Register
      BY <1>10 DEF WellFormed
    <3>3. Done(s, i).pc = Wrap(s.pc + 1)
      BY <1>10 DEF Done
    <3>4. Done(s, i).r = set_reg_val(s.r, Target(s, i), valE(s, i))
      BY <1>5, <3>1 DEF Done
    <3>5. Done(s, i).m = s.m
      BY <3>1 DEF Done
    <3>6. Done(s, i) = [pc |-> Done(s, i).pc, r |-> Done(s, i).r, m |-> Done(s, i).m,
                        cc |-> Done(s, i).cc]
      BY DEF Done
    <3>7. Done(s, i).cc = IF Sets(i) THEN compute_cc(fun(i), inA(s, i), inB(s, i)) ELSE s.cc
      BY DEF Done
    <3> HIDE DEF Icode
    <3> QED
      BY <1>1, <3>1, <3>2, <3>3, <3>4, <3>5, <3>6, <3>7
  <2>2. Outcome(s, i) = After(Done(s, i), SAOK)
    BY <1>10, <2>1 DEF Outcome
  <2>3. CASE i.icode = IRRMOVQ
    <3>1. i.rA \in Register
      BY <2>3 DEF WellFormed
    <3>2. valE(s, i) = s.r[i.rA]
      <4>1. valA(s, i) = s.r[i.rA]
        BY <1>4, <2>3, <3>1 DEF valA, srcA
      <4> QED
        BY <1>1, <2>3, <4>1, AddIs DEF valE, fun, Sets, inA, inB
    <3>3. Done(s, i) = [s EXCEPT !.pc = Wrap(s.pc + 1),
                                 !.r = IF Cond(s, i) THEN set_reg_val(@, i.rB, s.r[i.rA]) ELSE @]
      <4>1. ~Sets(i) /\ Target(s, i) = IF Cond(s, i) THEN i.rB ELSE RNONE
        BY <2>1, <2>3 DEF Sets, Target
      <4>2. set_reg_val(s.r, Target(s, i), valE(s, i))
            = IF Cond(s, i) THEN set_reg_val(s.r, i.rB, s.r[i.rA]) ELSE s.r
        BY <1>5, <3>2, <4>1
      <4> QED
        BY <1>1, <2>1, <4>1, <4>2
    <3> QED
      BY <1>4, <2>1, <2>2, <2>3, <3>1, <3>3
      DEF step_state, step_rrmovq, reg_valid, Cond, argA, next_pc
  <2>4. CASE i.icode = IIRMOVQ
    <3>1. valE(s, i) = i.valC
      BY <1>1, <2>4, AddIs DEF valE, fun, Sets, inA, inB
    <3>2. Done(s, i) = [s EXCEPT !.r = set_reg_val(@, i.rB, i.valC), !.pc = Wrap(s.pc + 1)]
      BY <1>1, <2>1, <2>4, <3>1 DEF Sets, Target
    <3> QED
      BY <2>1, <2>2, <2>4, <3>2 DEF step_state, step_irmovq, reg_valid, next_pc
  <2>5. CASE i.icode = IOPQ
    <3>1. /\ fun(i) = i.ifun /\ inA(s, i) = get_reg_val(s.r, i.rA)
          /\ inB(s, i) = get_reg_val(s.r, i.rB)
      BY <2>5 DEF fun, Sets, inA, inB, valA, valB, srcA, srcB
    <3>2. Done(s, i) = [s EXCEPT !.r = set_reg_val(@, i.rB, valE(s, i)),
                                 !.cc = compute_cc(fun(i), inA(s, i), inB(s, i)),
                                 !.pc = s.pc + 1]
      BY <1>1, <2>1, <2>5 DEF Sets, Target
    <3> QED
      BY <2>2, <2>5, <3>1, <3>2 DEF step_state, step_alu, Alu, argA, argB, valE
  <2>6. CASE i.icode = IIADDQ
    <3>1. /\ fun(i) = A_ADD /\ inA(s, i) = i.valC /\ inB(s, i) = get_reg_val(s.r, i.rB)
      BY <2>6 DEF fun, Sets, inA, inB, valA, valB, srcA, srcB, WellFormed, A_ADD
    <3>2. Done(s, i) = [s EXCEPT !.r = set_reg_val(@, i.rB, valE(s, i)),
                                 !.cc = compute_cc(fun(i), inA(s, i), inB(s, i)),
                                 !.pc = s.pc + 1]
      BY <1>1, <2>1, <2>6 DEF Sets, Target
    <3> QED
      BY <2>1, <2>2, <2>6, <3>1, <3>2 DEF step_state, step_iaddq, reg_valid, Alu, argB, valE
  <2> QED
    BY <1>10, <2>3, <2>4, <2>5, <2>6
<1>11. s = At(s.pc, s.r, s.m, s.cc) /\ Done(s, i) = At(Done(s, i).pc, Done(s, i).r, Done(s, i).m, Done(s, i).cc)
  BY <1>1 DEF At, Done
<1>12. CASE i.icode \in {ICALL, IPUSHQ}
  <2> DEFINE v == valE(s, i)
             r1 == [s.r EXCEPT ![RRSP] = v]
  <2>1. /\ Writes(i) /\ ~Reads(i) /\ ~Sets(i) /\ dstM(i) = RNONE /\ Target(s, i) = RRSP
        /\ Where(s, i) = v
    BY <1>12 DEF Writes, Reads, Sets, Target, dstE, dstM, Where
  <2>2. v = Wrap(s.r[RRSP] - 1)
    <3>1. valB(s, i) = s.r[RRSP]
      BY <1>2, <1>4, <1>12 DEF valB, srcB
    <3> QED
      BY <1>1, <1>12, <2>1, <3>1, StackMoves DEF valE, fun, inA, inB
  <2>3. Moved(s, -1) = At(s.pc, r1, s.m, s.cc)
    <3>1. s.r[RRSP] - 1 = s.r[RRSP] + (-1)
      BY <1>1, <1>2, WordSize
    <3> QED
      BY <1>11, <2>2, <3>1, MovedIs
  <2>4. Failed(s, i) = At(s.pc, r1, s.m, s.cc)
    BY <1>1, <1>12 DEF Failed, At
  <2>5. Misses(s, i) <=> v \notin Address
    BY <2>1 DEF Misses
  <2>6. Done(s, i).r = r1
    BY <1>2, <1>5, <1>6, <2>1 DEF Done
  <2>7. Done(s, i).m = [s.m EXCEPT ![v] = valA(s, i)] /\ Done(s, i).cc = s.cc
    BY <2>1 DEF Done
  <2>8. Done(s, i).pc = IF i.icode = ICALL THEN i.valC ELSE Wrap(s.pc + 1)
    BY <1>12 DEF Done
  <2>9. Outcome(s, i) = IF v \in Address
                        THEN After(At(Done(s, i).pc, r1, [s.m EXCEPT ![v] = valA(s, i)], s.cc), SAOK)
                        ELSE After(At(s.pc, r1, s.m, s.cc), SADR)
    BY <1>11, <1>12, <2>4, <2>5, <2>6, <2>7 DEF Outcome
  <2> HIDE DEF v, r1
  <2>10. Store(Moved(s, -1), v, valA(s, i), Done(s, i).pc) = Outcome(s, i)
    BY <2>3, <2>9, StoreIs
  <2>11. CASE i.icode = ICALL
    <3>1. valA(s, i) = Wrap(s.pc + 1)
      BY <2>11 DEF valA
    <3> QED
      BY <2>2, <2>8, <2>10, <2>11, <3>1 DEF step_state, step_call, next_pc
  <2>12. CASE i.icode = IPUSHQ
    <3>1. i.rA \in Register
      BY <2>12 DEF WellFormed
    <3>2. valA(s, i) = argA(s, i)
      BY <2>12 DEF valA, srcA, argA
    <3> QED
      BY <2>2, <2>8, <2>10, <2>12, <3>1, <3>2 DEF step_state, step_pushq, reg_valid, next_pc
  <2> QED
    BY <1>12, <2>11, <2>12
<1>13. CASE i.icode = IRMMOVQ
  <2> DEFINE v == valE(s, i)
  <2>1. /\ Writes(i) /\ ~Reads(i) /\ ~Sets(i) /\ dstM(i) = RNONE /\ Target(s, i) = RNONE
        /\ Where(s, i) = v
    BY <1>13 DEF Writes, Reads, Sets, Target, dstE, dstM, Where
  <2>2. v = Wrap(i.valC + argB(s, i)) /\ valA(s, i) = argA(s, i)
    <3>1. valB(s, i) = argB(s, i) /\ valA(s, i) = argA(s, i)
      BY <1>13 DEF valB, srcB, valA, srcA, argA, argB
    <3>2. fun(i) = A_ADD /\ inA(s, i) = i.valC /\ inB(s, i) = argB(s, i)
      BY <1>13, <2>1, <3>1 DEF fun, inA, inB
    <3>3. compute_alu(A_ADD, i.valC, argB(s, i)) = Wrap(i.valC + argB(s, i))
      BY <1>1, <3>2, AddIs
    <3> QED
      BY <3>1, <3>2, <3>3 DEF valE
  <2>3. i.rA \in Register
    BY <1>13 DEF WellFormed
  <2>4. Failed(s, i) = s
    BY <1>13 DEF Failed
  <2>5. Misses(s, i) <=> v \notin Address
    BY <2>1 DEF Misses
  <2>6. Done(s, i).r = s.r
    BY <1>5, <2>1 DEF Done
  <2>7. Done(s, i).m = [s.m EXCEPT ![v] = valA(s, i)] /\ Done(s, i).cc = s.cc
    BY <2>1 DEF Done
  <2>8. Done(s, i).pc = Wrap(s.pc + 1)
    BY <1>13 DEF Done
  <2>9. Outcome(s, i)
        = IF v \in Address
          THEN After(At(Wrap(s.pc + 1), s.r, [s.m EXCEPT ![v] = valA(s, i)], s.cc), SAOK)
          ELSE After(s, SADR)
    BY <1>11, <1>13, <2>4, <2>5, <2>6, <2>7, <2>8 DEF Outcome
  <2> HIDE DEF v
  <2>10. Store(s, v, valA(s, i), Wrap(s.pc + 1)) = Outcome(s, i)
    BY <1>11, <2>9, StoreIs
  <2> QED
    BY <1>13, <2>2, <2>3, <2>10 DEF step_state, step_rmmovq, reg_valid, next_pc
<1>14. CASE i.icode \in {IMRMOVQ, IPOPQ}
  <2> DEFINE v == Where(s, i)
             r1 == IF i.icode = IPOPQ THEN [s.r EXCEPT ![RRSP] = valE(s, i)] ELSE s.r
  <2>1. /\ ~Writes(i) /\ Reads(i) /\ ~Sets(i) /\ dstM(i) = i.rA
        /\ Target(s, i) = IF i.icode = IPOPQ THEN RRSP ELSE RNONE
        /\ v = IF i.icode = IPOPQ THEN valA(s, i) ELSE valE(s, i)
    BY <1>14 DEF Writes, Reads, Sets, Target, dstE, dstM, Where
  <2>2. i.rA \in Register
    BY <1>14 DEF WellFormed
  <2>3. Failed(s, i) = At(s.pc, r1, s.m, s.cc)
    <3>1. CASE i.icode = IPOPQ
      BY <1>1, <3>1 DEF Failed, At
    <3>2. CASE i.icode = IMRMOVQ
      BY <1>11, <3>2 DEF Failed
    <3> QED
      BY <1>14, <3>1, <3>2
  <2>4. Misses(s, i) <=> v \notin Address
    BY <2>1 DEF Misses
  <2>5. v \in Address => valM(s, i) = s.m[v]
    BY <2>1, <2>4 DEF valM
  <2>6. Done(s, i).r = set_reg_val(r1, i.rA, valM(s, i))
    <3>1. CASE i.icode = IPOPQ
      BY <1>2, <1>6, <2>1, <3>1 DEF Done
    <3>2. CASE i.icode = IMRMOVQ
      BY <1>5, <2>1, <3>2 DEF Done
    <3> QED
      BY <1>14, <3>1, <3>2
  <2>7. Done(s, i).m = s.m /\ Done(s, i).cc = s.cc
    BY <2>1 DEF Done
  <2>8. Done(s, i).pc = s.pc + 1
    BY <1>14 DEF Done
  <2>9. Outcome(s, i) = IF v \in Address
                        THEN After(At(s.pc + 1, set_reg_val(r1, i.rA, s.m[v]), s.m, s.cc), SAOK)
                        ELSE After(At(s.pc, r1, s.m, s.cc), SADR)
    BY <1>11, <1>14, <2>3, <2>4, <2>5, <2>6, <2>7, <2>8 DEF Outcome
  <2>10. CASE i.icode = IPOPQ
    <3>1. valA(s, i) = s.r[RRSP] /\ valB(s, i) = s.r[RRSP]
      BY <1>2, <1>4, <2>10 DEF valA, srcA, valB, srcB
    <3>2. valE(s, i) = Wrap(s.r[RRSP] + 1)
      BY <1>1, <2>1, <2>10, <3>1, StackMoves DEF valE, fun, inA, inB
    <3>3. Moved(s, 1) = At(s.pc, r1, s.m, s.cc)
      BY <1>11, <2>10, <3>2, MovedIs
    <3>4. v = s.r[RRSP]
      BY <2>1, <2>10, <3>1
    <3> HIDE DEF v, r1
    <3>5. Load(Moved(s, 1), v, i.rA) = Outcome(s, i)
      BY <2>9, <3>3, LoadIs
    <3> QED
      BY <2>2, <2>10, <3>4, <3>5 DEF step_state, step_popq, reg_valid
  <2>11. CASE i.icode = IMRMOVQ
    <3>1. v = Wrap(i.valC + argB(s, i))
      <4>1. valB(s, i) = argB(s, i)
        BY <2>11 DEF valB, srcB, argB
      <4>2. fun(i) = A_ADD /\ inA(s, i) = i.valC /\ inB(s, i) = argB(s, i)
        BY <2>1, <2>11, <4>1 DEF fun, inA, inB
      <4>3. compute_alu(A_ADD, i.valC, argB(s, i)) = Wrap(i.valC + argB(s, i))
        BY <1>1, <4>2, AddIs
      <4> QED
        BY <2>1, <2>11, <4>2, <4>3 DEF valE
    <3>2. s = At(s.pc, r1, s.m, s.cc)
      BY <1>11, <2>11
    <3> HIDE DEF v, r1
    <3>3. Load(s, v, i.rA) = Outcome(s, i)
      BY <2>9, <3>2, LoadIs
    <3> QED
      BY <2>2, <2>11, <3>1, <3>3 DEF step_state, step_mrmovq, reg_valid
  <2> QED
    BY <1>14, <2>10, <2>11
<1>15. CASE i.icode = IRET
  <2> DEFINE v == s.r[RRSP]
             r1 == [s.r EXCEPT ![RRSP] = Wrap(v + 1)]
  <2>1. /\ ~Writes(i) /\ Reads(i) /\ ~Sets(i) /\ dstM(i) = RNONE /\ Target(s, i) = RRSP
        /\ Where(s, i) = v /\ valB(s, i) = v
    BY <1>2, <1>4, <1>15 DEF Writes, Reads, Sets, Target, dstE, dstM, Where, valA, valB, srcA, srcB
  <2>2. valE(s, i) = Wrap(v + 1)
    BY <1>1, <1>15, <2>1, StackMoves DEF valE, fun, inA, inB
  <2>3. Failed(s, i) = s
    BY <1>15 DEF Failed
  <2>4. Misses(s, i) <=> v \notin Address
    BY <2>1 DEF Misses
  <2>5. v \in Address => valM(s, i) = s.m[v]
    BY <2>1, <2>4 DEF valM
  <2>6. Done(s, i).r = r1
    BY <1>2, <1>5, <1>6, <2>1, <2>2 DEF Done
  <2>7. Done(s, i).m = s.m /\ Done(s, i).cc = s.cc
    BY <2>1 DEF Done
  <2>8. Done(s, i).pc = valM(s, i)
    BY <1>15 DEF Done
  <2>9. Outcome(s, i) = IF v \in Address THEN After(At(s.m[v], r1, s.m, s.cc), SAOK)
                                         ELSE After(s, SADR)
    BY <1>11, <1>15, <2>3, <2>4, <2>5, <2>6, <2>7, <2>8 DEF Outcome
  <2>10. Moved(s, 1) = At(s.pc, r1, s.m, s.cc)
    BY <1>11, MovedIs
  <2> DEFINE w == s.m[v]
  <2>11. [Moved(s, 1) EXCEPT !.pc = w] = At(w, r1, s.m, s.cc)
    <3> HIDE DEF r1, w
    <3> QED
      BY <2>10 DEF At
  <2> QED
    BY <1>15, <2>9, <2>11 DEF step_state, step_ret
<1> QED
  BY <1>3, <1>7, <1>8, <1>9, <1>10, <1>12, <1>13, <1>14, <1>15

-----------------------------------------------------------------------------
(***************************************************************************)
(* Programs, and what step_state does at the state s of program p.         *)
(***************************************************************************)
\* The instruction that a fetch finds at address a, and its status; outside the code
\* memory it takes nop.
Fetch(p, a) == IF a \in DOMAIN p THEN p[a] ELSE [Zeros EXCEPT !.icode = INOP]
FetchStat(p, a) == IF a \notin DOMAIN p THEN SADR
                   ELSE IF p[a].icode \notin Icode THEN SINS
                   ELSE IF p[a].icode = IHALT THEN SHLT ELSE SAOK
\* What step_state does, the instruction it does it with, and whether that has been chosen.
Exec(p, s) == IF s.pc \in DOMAIN p THEN step_state(s, p[s.pc]) ELSE After(s, SADR)
Here(p, s) == Fetch(p, s.pc)
Known(p, s) == s.pc \in DOMAIN p => p[s.pc] # UNKNOWN
\* The programs, in so far as they have been fetched.
Programs == [0 .. CODE_TOP - 1 -> Instructions \cup {Zeros, UNKNOWN}]

\* The instruction at the state s.
LEMMA HereIs ==
  ASSUME InstructionsAreWellFormed, NEW p \in Programs, NEW s \in State, Known(p, s)
  PROVE  /\ Here(p, s) \in Instruction /\ WellFormed(Here(p, s))
         /\ s.pc \notin DOMAIN p => Here(p, s).icode = INOP
         /\ s.pc \in DOMAIN p => Here(p, s) = p[s.pc] /\ Wrap(s.pc + 1) = s.pc + 1
         /\ Here(p, s).icode \in {IRMMOVQ, IMRMOVQ, IPOPQ} => Here(p, s) \in Instructions
<1> USE DEF INOP, IHALT, IRRMOVQ, IIRMOVQ, IRMMOVQ, IMRMOVQ, IOPQ, IJXX, ICALL, IRET,
            IPUSHQ, IPOPQ, IIADDQ, INVALID, Icode
<1>1. 0 \in Word /\ 0 \in Ifun
  BY WordSize DEF Ifun
<1>2. Zeros \in Instruction /\ WellFormed(Zeros) /\ Zeros.icode = IHALT
  BY <1>1 DEF Zeros, Instruction, WellFormed
<1>3. CASE s.pc \notin DOMAIN p
  <2> DEFINE i == [Zeros EXCEPT !.icode = INOP]
  <2>1. i = [icode |-> INOP, ifun |-> 0, rA |-> RNONE, rB |-> RNONE, valC |-> 0]
    BY DEF Zeros
  <2>2. i \in Instruction /\ WellFormed(i) /\ i.icode = INOP
    BY <1>1, <2>1 DEF Instruction, WellFormed
  <2>3. Here(p, s) = i
    BY <1>3 DEF Here, Fetch
  <2> QED
    BY <1>3, <2>2, <2>3
<1>4. CASE s.pc \in DOMAIN p
  <2>1. Here(p, s) = p[s.pc] /\ p[s.pc] \in Instructions \cup {Zeros} /\ s.pc \in 0 .. CODE_TOP - 1
    BY <1>4 DEF Here, Fetch, Programs, Known
  <2>2. Wrap(s.pc + 1) = s.pc + 1
    <3> DEFINE k == s.pc + 1
    <3>1. k \in Int /\ k \in Word
      BY <2>1, WordSize, CODE_TOPAssumption, CODEAssumption
    <3> HIDE DEF k
    <3>2. Wrap(k) = k
      BY <3>1, WrapNear
    <3> QED
      BY <3>2 DEF k
  <2>3. p[s.pc] \in Instruction /\ WellFormed(p[s.pc])
    BY <1>2, <2>1, InstructionsAssumption DEF InstructionsAreWellFormed
  <2> QED
    BY <1>2, <1>4, <2>1, <2>2, <2>3
<1> QED
  BY <1>3, <1>4

\* Its status and the state it leaves.
LEMMA ExecIs ==
  ASSUME InstructionsAreWellFormed, NEW p \in Programs, NEW s \in State, Known(p, s)
  PROVE  LET i == Here(p, s)
             f == FetchStat(p, s.pc)
             e == Exec(p, s)
         IN  /\ f \in {SAOK} \cup Stopped
             /\ f # SAOK => i.icode \in {INOP, IHALT, INVALID}
             /\ e.stat = IF f # SAOK THEN f ELSE IF Misses(s, i) THEN SADR ELSE SAOK
             /\ e.state = IF f # SAOK THEN s ELSE IF Misses(s, i) THEN Failed(s, i) ELSE Done(s, i)
             /\ e = After(e.state, e.stat)
<1> USE DEF INOP, IHALT, IRRMOVQ, IIRMOVQ, IRMMOVQ, IMRMOVQ, IOPQ, IJXX, ICALL, IRET,
            IPUSHQ, IPOPQ, IIADDQ, INVALID, Icode
<1> USE DEF SAOK, SADR, SHLT, SINS, Stopped
<1> DEFINE i == Here(p, s)
           f == FetchStat(p, s.pc)
           e == Exec(p, s)
<1>1. /\ i \in Instruction /\ WellFormed(i) /\ i.icode \in Icode \cup {INVALID}
      /\ s.pc \notin DOMAIN p => i.icode = INOP
      /\ s.pc \in DOMAIN p => i = p[s.pc] /\ Wrap(s.pc + 1) = s.pc + 1
  BY HereIs DEF Instruction
<1>2. CASE s.pc \notin DOMAIN p
  <2>1. f = SADR /\ e = After(s, SADR)
    BY <1>2 DEF FetchStat, Exec
  <2> QED
    BY <1>1, <1>2, <2>1 DEF After
<1>3. CASE s.pc \in DOMAIN p
  <2>1. e = Outcome(s, i)
    <3>1. e = step_state(s, i)
      BY <1>1, <1>3 DEF Exec
    <3> QED
      BY <1>1, <1>3, <3>1, StepIsOutcome
  <2>2. f = IF i.icode \notin Icode THEN SINS ELSE IF i.icode = IHALT THEN SHLT ELSE SAOK
    BY <1>1, <1>3 DEF FetchStat
  <2>3. i.icode = IHALT => ~Misses(s, i)
    BY DEF Misses, Reads, Writes
  <2> HIDE DEF i, e, f
  <2> QED
    BY <1>1, <2>1, <2>2, <2>3 DEF Outcome, After, i, e, f
<1> QED
  BY <1>2, <1>3

\* Whether it fails or not, these are its effects on the memory and the condition codes.
LEMMA ExecEffect ==
  ASSUME InstructionsAreWellFormed, NEW p \in Programs, NEW s \in State, Known(p, s)
  PROVE  LET i == Here(p, s)
             t == Exec(p, s).state
         IN  /\ t \in State
             /\ t.m = IF Writes(i) /\ ~Misses(s, i) THEN [s.m EXCEPT ![Where(s, i)] = valA(s, i)]
                                                    ELSE s.m
             /\ t.cc = IF Sets(i) THEN compute_cc(fun(i), inA(s, i), inB(s, i)) ELSE s.cc
<1> DEFINE i == Here(p, s)
           t == Exec(p, s).state
           f == FetchStat(p, s.pc)
<1>1. i \in Instruction /\ WellFormed(i)
  BY HereIs
<1>2. /\ t = IF f # SAOK THEN s ELSE IF Misses(s, i) THEN Failed(s, i) ELSE Done(s, i)
      /\ f # SAOK => i.icode \in {INOP, IHALT, INVALID}
  BY ExecIs
<1>3. /\ s.pc \in Int /\ s.r \in [Register -> Word] /\ s.m \in [Address -> Word]
      /\ s.cc \in CC /\ s = [pc |-> s.pc, r |-> s.r, m |-> s.m, cc |-> s.cc]
  BY DEF State
<1> HIDE DEF i, f, t
<1>4. /\ i.valC \in Word /\ valA(s, i) \in Word /\ valB(s, i) \in Word
      /\ inA(s, i) \in Word /\ inB(s, i) \in Word /\ valE(s, i) \in Word /\ valM(s, i) \in Word
  BY <1>1, Operands
<1>5. /\ f # SAOK => ~Writes(i) /\ ~Sets(i)
      /\ Sets(i) => ~Misses(s, i)
      /\ i.icode \in {ICALL, IPUSHQ, IPOPQ} => ~Sets(i)
  BY <1>2 DEF Writes, Sets, Reads, Misses, INOP, IHALT, INVALID, IRRMOVQ, IIRMOVQ, IRMMOVQ,
     IMRMOVQ, IOPQ, IJXX, ICALL, IRET, IPUSHQ, IPOPQ, IIADDQ
<1>6. Writes(i) => Where(s, i) = valE(s, i)
  BY DEF Writes, Where, IRMMOVQ, IMRMOVQ, ICALL, IPUSHQ, IPOPQ, IRET
<1>7. \A r \in [Register -> Word], v \in Word, id \in Register \cup {RNONE} :
        set_reg_val(r, id, v) \in [Register -> Word]
  BY RegisterAssumption DEF set_reg_val
<1>8. CASE f # SAOK
  BY <1>2, <1>3, <1>5, <1>8 DEF t, i
<1>9. CASE f = SAOK /\ Misses(s, i)
  <2>1. t = Failed(s, i)
    BY <1>2, <1>9
  <2>2. CASE i.icode \in {ICALL, IPUSHQ, IPOPQ}
    <3> DEFINE r1 == [s.r EXCEPT ![RRSP] = valE(s, i)]
    <3>1. r1 \in [Register -> Word]
      BY <1>3, <1>4
    <3>2. t = [s EXCEPT !.r = r1]
      BY <2>1, <2>2 DEF Failed
    <3> HIDE DEF r1
    <3>3. t = [pc |-> s.pc, r |-> r1, m |-> s.m, cc |-> s.cc]
      BY <1>3, <3>2
    <3> QED
      BY <1>3, <1>5, <1>9, <2>2, <3>1, <3>3 DEF State, t, i
  <2>3. CASE i.icode \notin {ICALL, IPUSHQ, IPOPQ}
    <3>1. t = s
      BY <2>1, <2>3 DEF Failed
    <3> QED
      BY <1>3, <1>5, <1>9, <3>1 DEF t, i
  <2> QED
    BY <2>2, <2>3
<1>10. CASE f = SAOK /\ ~Misses(s, i)
  <2>1. t = Done(s, i)
    BY <1>2, <1>10
  <2>2. /\ t.m = IF Writes(i) THEN [s.m EXCEPT ![Where(s, i)] = valA(s, i)] ELSE s.m
        /\ t.cc = IF Sets(i) THEN compute_cc(fun(i), inA(s, i), inB(s, i)) ELSE s.cc
    BY <2>1 DEF Done
  <2>3. t.m \in [Address -> Word]
    BY <1>3, <1>4, <2>2
  <2>4. t.cc \in CC
    BY <1>3, <2>2 DEF compute_cc, CC
  <2>5. t.pc \in Int
    <3>1. Wrap(s.pc + 1) \in Word
      BY <1>3, WrapWord
    <3>2. t.pc \in Word
      BY <1>4, <2>1, <3>1 DEF Done
    <3> QED
      BY <3>2, WordSize
  <2>6. t.r \in [Register -> Word]
    <3>1. Target(s, i) \in Register \cup {RNONE} /\ dstM(i) \in Register \cup {RNONE}
      BY <1>1, RegisterAssumption DEF Instruction, Target, dstE, dstM
    <3>2. t.r = set_reg_val(set_reg_val(s.r, Target(s, i), valE(s, i)), dstM(i), valM(s, i))
      BY <2>1 DEF Done
    <3>3. set_reg_val(s.r, Target(s, i), valE(s, i)) \in [Register -> Word]
      BY <1>3, <1>4, <1>7, <3>1
    <3> QED
      BY <1>4, <1>7, <3>1, <3>2, <3>3
  <2>7. t = [pc |-> t.pc, r |-> t.r, m |-> t.m, cc |-> t.cc]
    BY <2>1 DEF Done
  <2>8. t \in State
    BY <2>3, <2>4, <2>5, <2>6, <2>7 DEF State
  <2> QED
    BY <1>10, <2>2, <2>8 DEF t, i
<1> QED
  BY <1>8, <1>9, <1>10

-----------------------------------------------------------------------------
(***************************************************************************)
(* The inductive invariant.  The instructions in write back, memory,       *)
(* execute and decode are those that step_state executes one after the     *)
(* other, from the states isa, sM, sE and sD, and the next one is to be    *)
(* fetched in sF.                                                          *)
(***************************************************************************)
\* The state that the contents of a pipeline register leave to the next: a bubble
\* leaves the state as it is.
Beyond(p, s, stat) == IF stat = SBUB THEN s ELSE Exec(p, s).state

\* Whether valA is looked at.
UsesA(i) == srcA(i) # RNONE \/ i.icode \in {ICALL, IJXX}

\* The register d in front of decode holds the instruction at the state s; e in front of
\* execute also its operands, where a is the value of e_valA; m its result, and w what it
\* has read.
InD(d, p, s) ==
  LET i == Here(p, s)
  IN  /\ d.pc = s.pc /\ Known(p, s) /\ d.stat = FetchStat(p, s.pc)
      /\ d.icode = i.icode /\ d.ifun = i.ifun /\ d.rA = i.rA /\ d.rB = i.rB /\ d.valC = i.valC
      /\ d.valP = Wrap(s.pc + 1)

InE(e, a, p, s) ==
  LET i == Here(p, s)
  IN  /\ e.pc = s.pc /\ Known(p, s) /\ e.stat = FetchStat(p, s.pc)
      /\ e.icode = i.icode /\ e.ifun = i.ifun /\ e.valC = i.valC
      /\ e.srcA = srcA(i) /\ e.dstE = dstE(i) /\ e.dstM = dstM(i)
      /\ UsesA(i) => a = valA(s, i)
      /\ srcB(i) # RNONE => e.valB = valB(s, i)

InM(m, p, s) ==
  LET i == Here(p, s)
  IN  /\ m.pc = s.pc /\ Known(p, s) /\ m.stat = FetchStat(p, s.pc)
      /\ m.icode = i.icode /\ m.Cnd = Cond(s, i)
      /\ m.dstE = Target(s, i) /\ m.dstM = dstM(i)
      /\ m.valE = valE(s, i)
      /\ UsesA(i) => m.valA = valA(s, i)

InW(w, p, s) ==
  LET i == Here(p, s)
  IN  /\ w.pc = s.pc /\ Known(p, s) /\ w.stat = Exec(p, s).stat
      /\ w.icode = i.icode
      /\ w.dstE = Target(s, i) /\ w.dstM = dstM(i)
      /\ w.valE = valE(s, i)
      /\ w.valM = valM(s, i)

\* The states that the instructions in memory, execute and decode find, and the fetch.
sM == Beyond(prog, isa, W.stat)
sE == Beyond(prog, sM, M.stat)
sD == Beyond(prog, sE, E.stat)
sF == Beyond(prog, sD, D.stat)

\* The instruction in memory (execute, decode, or the one being fetched) is to be executed:
\* none before it stops, fails or takes another way than was predicted.
okM == W.stat \in {SBUB, SAOK}
okE == okM /\ m_stat \in {SBUB, SAOK}
okD == okE /\ (E.stat # SBUB => Exec(prog, sE).stat = SAOK) /\ ~Mispredicted
okF == okD /\ (D.stat # SBUB => /\ Exec(prog, sD).stat = SAOK
                                /\ ~(D.icode = IJXX /\ ~cond_holds(sD.cc, D.ifun)))

Stats == {SBUB, SAOK} \cup Stopped

\* step_state is in a state, the program is one.
Types ==
  /\ isa \in State /\ prog \in Programs
  /\ D.stat \in Stats /\ E.stat \in Stats /\ M.stat \in Stats /\ W.stat \in Stats

\* A bubble reads and writes nothing.
Bubbles ==
  /\ D.stat = SBUB => D.icode = INOP
  /\ E.stat = SBUB => E.icode = INOP /\ E.dstE = RNONE /\ E.dstM = RNONE
  /\ M.stat = SBUB => M.icode = INOP /\ M.dstE = RNONE /\ M.dstM = RNONE
  /\ W.stat = SBUB => W.icode = INOP /\ W.dstE = RNONE /\ W.dstM = RNONE

\* Behind an instruction that stops, behind ret and behind a jump that was not to be
\* taken there are bubbles.
Drained ==
  /\ W.stat \in Stopped => M.stat = SBUB
  /\ W.icode = IRET => M.stat = SBUB /\ E.stat = SBUB /\ D.stat = SBUB
  /\ M.icode = IRET => E.stat = SBUB /\ D.stat = SBUB
  /\ E.icode = IRET => D.stat = SBUB
  /\ M.icode = IJXX /\ ~M.Cnd => E.stat = SBUB /\ D.stat = SBUB

\* The registers are as step_state has left them; the memory and the condition codes are
\* ahead by the instructions that have passed the stages where they are written.  The
\* stages hold what is to be executed.
Follows ==
  /\ reg = isa.r /\ mem = sM.m /\ cc = sE.cc
  /\ W.stat # SBUB => InW(W, prog, isa)
  /\ okM /\ M.stat # SBUB => InM(M, prog, sM)
  /\ okE /\ E.stat # SBUB => InE(E, e_valA, prog, sE)
  /\ okD /\ D.stat # SBUB => InD(D, prog, sD)

\* The fetch takes the next instruction, unless a ret is on its way.
Fetches == okF /\ IRET \notin {D.icode, E.icode, M.icode} => f_pc = sF.pc

\* So does the predicted address, unless a ret or a jump puts it right.
Predicted ==
  okF /\ IRET \notin {D.icode, E.icode, M.icode, W.icode} /\ ~(M.icode = IJXX /\ ~M.Cnd)
     => F = sF.pc

IInv == Types /\ Bubbles /\ Drained /\ Follows /\ Fetches /\ Predicted

-----------------------------------------------------------------------------
(***************************************************************************)
(* What the stages compute.                                                *)
(***************************************************************************)
\* Beyond yields states.
LEMMA BeyondIs ==
  ASSUME InstructionsAreWellFormed, NEW p \in Programs, NEW s \in State, NEW stat,
         stat # SBUB => Known(p, s)
  PROVE  Beyond(p, s, stat) \in State
BY ExecEffect DEF Beyond

\* The states on the way of the instructions in the pipeline.
LEMMA StatesAreStates ==
  ASSUME InstructionsAreWellFormed, IInv
  PROVE  /\ sM \in State
         /\ okM => sE \in State /\ (M.stat # SBUB => Known(prog, sM))
         /\ okE => sD \in State /\ (E.stat # SBUB => Known(prog, sE))
         /\ okD => sF \in State /\ (D.stat # SBUB => Known(prog, sD))
<1>1. isa \in State /\ prog \in Programs
  BY DEF IInv, Types
<1>2. W.stat # SBUB => Known(prog, isa)
  BY DEF IInv, Follows, InW
<1>3. sM \in State
  BY <1>1, <1>2, BeyondIs DEF sM
<1>4. okM => (M.stat # SBUB => Known(prog, sM))
  BY DEF IInv, Follows, InM
<1>5. okM => sE \in State
  BY <1>1, <1>3, <1>4, BeyondIs DEF sE
<1>6. okE => (E.stat # SBUB => Known(prog, sE))
  BY DEF IInv, Follows, InE
<1>7. okE => sD \in State
  BY <1>1, <1>5, <1>6, BeyondIs DEF sD, okE
<1>8. okD => (D.stat # SBUB => Known(prog, sD))
  BY DEF IInv, Follows, InD
<1>9. okD => sF \in State
  BY <1>1, <1>7, <1>8, BeyondIs DEF sF, okD
<1> QED
  BY <1>3, <1>4, <1>5, <1>6, <1>7, <1>8, <1>9

\* What the memory stage relies on.
MemoryReady ==
  /\ sM \in State /\ prog \in Programs /\ mem = sM.m /\ M.stat \in Stats
  /\ M.stat # SBUB => Known(prog, sM) /\ InM(M, prog, sM)
  /\ M.stat = SBUB => M.icode = INOP

\* The memory stage.
LEMMA MemoryStage ==
  ASSUME InstructionsAreWellFormed, MemoryReady
  PROVE  /\ m_stat \in Stats /\ (m_stat = SBUB <=> M.stat = SBUB)
         /\ M.stat # SBUB => /\ m_stat = Exec(prog, sM).stat
                             /\ m_valM = valM(sM, Here(prog, sM))
                             /\ dmem_error = Misses(sM, Here(prog, sM))
         /\ update_mem = sE.m
<1> USE DEF INOP, IHALT, IRRMOVQ, IIRMOVQ, IRMMOVQ, IMRMOVQ, IOPQ, IJXX, ICALL, IRET,
            IPUSHQ, IPOPQ, IIADDQ, INVALID
<1>1. sM \in State /\ prog \in Programs /\ mem = sM.m /\ M.stat \in Stats
      /\ (M.stat # SBUB => Known(prog, sM) /\ InM(M, prog, sM))
      /\ (M.stat = SBUB => M.icode = INOP)
  BY DEF MemoryReady
<1>2. CASE M.stat = SBUB
  <2>1. ~mem_read /\ ~mem_write /\ ~dmem_error
    BY <1>1, <1>2 DEF mem_read, mem_write, dmem_error
  <2>2. m_stat = SBUB /\ update_mem = mem /\ sE = sM
    BY <1>2, <2>1 DEF m_stat, update_mem, sE, Beyond
  <2> QED
    BY <1>1, <1>2, <2>2 DEF Stats
<1>3. CASE M.stat # SBUB
  <2> DEFINE i == Here(prog, sM)
             t == Exec(prog, sM).state
  <2>1. /\ M.stat = FetchStat(prog, sM.pc) /\ M.icode = i.icode
        /\ M.valE = valE(sM, i) /\ (UsesA(i) => M.valA = valA(sM, i))
    BY <1>1, <1>3 DEF InM
  <2>2. /\ i \in Instruction /\ WellFormed(i)
        /\ t.m = IF Writes(i) /\ ~Misses(sM, i) THEN [sM.m EXCEPT ![Where(sM, i)] = valA(sM, i)]
                                                ELSE sM.m
    BY <1>1, <1>3, HereIs, ExecEffect
  <2>3. /\ M.stat \in {SAOK} \cup Stopped
        /\ M.stat # SAOK => i.icode \in {INOP, IHALT, INVALID}
        /\ Exec(prog, sM).stat = IF M.stat # SAOK THEN M.stat
                                 ELSE IF Misses(sM, i) THEN SADR ELSE SAOK
    BY <1>1, <1>3, <2>1, ExecIs
  <2>4. sE = t
    BY <1>3 DEF sE, Beyond
  <2> HIDE DEF i, t
  <2>5. mem_read = Reads(i) /\ mem_write = Writes(i)
    BY <2>1 DEF mem_read, mem_write, Reads, Writes
  <2>6. Reads(i) \/ Writes(i) => mem_addr = Where(sM, i)
    <3>1. i.icode \in {IPOPQ, IRET} => UsesA(i)
      BY RegisterAssumption DEF UsesA, srcA
    <3> QED
      BY <2>1, <3>1 DEF mem_addr, Where, Reads, Writes
  <2>7. dmem_error = Misses(sM, i)
    BY <2>5, <2>6 DEF dmem_error, Misses
  <2>8. m_valM = valM(sM, i)
    BY <1>1, <2>5, <2>6, <2>7 DEF m_valM, valM
  <2>9. m_stat = Exec(prog, sM).stat
    BY <2>3, <2>7 DEF m_stat, Misses, Reads, Writes
  <2>10. m_stat \in Stats /\ m_stat # SBUB
    BY <2>3, <2>9 DEF Stats, Stopped, SADR, SAOK, SHLT, SINS, SBUB
  <2>11. update_mem = sE.m
    <3>1. Writes(i) => M.valA = valA(sM, i)
      <4>1. Writes(i) => UsesA(i)
        BY <2>2, RegisterAssumption DEF Writes, UsesA, srcA, WellFormed
      <4> QED
        BY <2>1, <4>1
    <3> QED
      BY <1>1, <2>2, <2>4, <2>5, <2>6, <2>7, <3>1 DEF update_mem
  <2> QED
    BY <1>3, <2>7, <2>8, <2>9, <2>10, <2>11 DEF i
<1> QED
  BY <1>2, <1>3

\* The invariant gives the memory stage what it relies on.
LEMMA ReadyForMemory ==
  ASSUME InstructionsAreWellFormed, IInv, okM
  PROVE  MemoryReady
BY StatesAreStates DEF MemoryReady, IInv, Types, Follows, Bubbles

\* The execute stage.
LEMMA ExecuteStage ==
  ASSUME InstructionsAreWellFormed, IInv, okE
  PROVE  /\ E.stat # SBUB => LET i == Here(prog, sE)
                             IN  /\ e_Cnd = Cond(sE, i)
                                 /\ e_valE = valE(sE, i)
                                 /\ e_dstE = Target(sE, i)
         /\ E.stat = SBUB => e_dstE = RNONE
         /\ update_cc = sD.cc
<1> USE DEF INOP, IHALT, IRRMOVQ, IIRMOVQ, IRMMOVQ, IMRMOVQ, IOPQ, IJXX, ICALL, IRET,
            IPUSHQ, IPOPQ, IIADDQ, INVALID
<1>1. sE \in State /\ prog \in Programs /\ cc = sE.cc
      /\ (E.stat # SBUB => Known(prog, sE) /\ InE(E, e_valA, prog, sE))
      /\ (E.stat = SBUB => E.icode = INOP /\ E.dstE = RNONE)
  BY StatesAreStates DEF IInv, Types, Follows, Bubbles, okE
<1>2. m_stat \notin Stopped /\ W.stat \notin Stopped
  BY DEF okE, okM, Stopped, SADR, SAOK, SHLT, SINS, SBUB
<1>3. CASE E.stat = SBUB
  <2>1. e_dstE = RNONE
    BY <1>1, <1>3 DEF e_dstE
  <2>2. update_cc = cc /\ sD = sE
    BY <1>1, <1>3 DEF update_cc, set_cc, sD, Beyond
  <2> QED
    BY <1>1, <1>3, <2>1, <2>2
<1>4. CASE E.stat # SBUB
  <2> DEFINE i == Here(prog, sE)
             t == Exec(prog, sE).state
  <2>1. /\ E.icode = i.icode /\ E.ifun = i.ifun /\ E.valC = i.valC
        /\ E.dstE = dstE(i) /\ (UsesA(i) => e_valA = valA(sE, i))
        /\ (srcB(i) # RNONE => E.valB = valB(sE, i))
    BY <1>1, <1>4 DEF InE
  <2>2. /\ i \in Instruction /\ WellFormed(i)
        /\ t.cc = IF Sets(i) THEN compute_cc(fun(i), inA(sE, i), inB(sE, i)) ELSE sE.cc
    BY <1>1, <1>4, HereIs, ExecEffect
  <2>3. sD = t
    BY <1>4 DEF sD, Beyond
  <2> HIDE DEF i, t
  <2>4. e_Cnd = Cond(sE, i)
    BY <1>1, <2>1 DEF e_Cnd, Cond
  <2>5. e_dstE = Target(sE, i)
    BY <2>1, <2>4 DEF e_dstE, Target
  <2>6. alufun = fun(i)
    BY <2>1 DEF alufun, fun, Sets
  <2>7. aluA = inA(sE, i)
    <3>1. i.icode \in {IRRMOVQ, IOPQ} => UsesA(i) /\ e_valA = E.valA
      BY <2>1, <2>2, RegisterAssumption DEF UsesA, srcA, WellFormed, e_valA
    <3> QED
      BY <2>1, <3>1 DEF aluA, inA
  <2>8. aluB = inB(sE, i)
    <3>1. i.icode \in {IRMMOVQ, IMRMOVQ, IOPQ, ICALL, IPUSHQ, IRET, IPOPQ, IIADDQ}
             => srcB(i) # RNONE
      BY <2>2, RegisterAssumption DEF srcB, WellFormed
    <3> QED
      BY <2>1, <3>1 DEF aluB, inB
  <2>9. e_valE = valE(sE, i)
    BY <2>6, <2>7, <2>8 DEF e_valE, valE
  <2>10. update_cc = sD.cc
    <3>1. set_cc <=> Sets(i)
      BY <1>2, <2>1 DEF set_cc, Sets
    <3> QED
      BY <1>1, <2>2, <2>3, <2>6, <2>7, <2>8, <3>1 DEF update_cc
  <2> QED
    BY <1>4, <2>4, <2>5, <2>9, <2>10 DEF i
<1> QED
  BY <1>3, <1>4

\* The least element of a set of numbers.
LEMMA MinIs ==
  ASSUME NEW S, S \subseteq Nat, NEW k \in S, \A y \in S : k <= y
  PROVE  Min(S) = k
<1>1. Min(S) \in S /\ Min(S) <= k
  BY MinIsLeast
<1>2. Min(S) \in Nat /\ k \in Nat
  BY <1>1
<1>3. k <= Min(S)
  BY <1>1
<1> QED
  BY <1>1, <1>2, <1>3

\* Which value the decode stage takes for a register.
LEMMA ForwardIs ==
  ASSUME NEW src
  PROVE  Forward(src) = IF e_dstE = src THEN e_valE
                        ELSE IF M.dstM = src THEN m_valM
                        ELSE IF M.dstE = src THEN M.valE
                        ELSE IF W.dstM = src THEN W.valM
                        ELSE IF W.dstE = src THEN W.valE
                        ELSE get_reg_val(reg, src)
<1> DEFINE hits == {k \in DOMAIN ForwardSources : ForwardSources[k].dst = src}
<1>1. Forward(src) = IF hits = {} THEN get_reg_val(reg, src) ELSE ForwardSources[Min(hits)].val
  BY DEF Forward
<1>2. /\ DOMAIN ForwardSources = 1 .. 5
      /\ ForwardSources[1] = [dst |-> e_dstE, val |-> e_valE]
      /\ ForwardSources[2] = [dst |-> M.dstM, val |-> m_valM]
      /\ ForwardSources[3] = [dst |-> M.dstE, val |-> M.valE]
      /\ ForwardSources[4] = [dst |-> W.dstM, val |-> W.valM]
      /\ ForwardSources[5] = [dst |-> W.dstE, val |-> W.valE]
  BY DEF ForwardSources
<1>3. /\ 1 \in hits <=> e_dstE = src
      /\ 2 \in hits <=> M.dstM = src
      /\ 3 \in hits <=> M.dstE = src
      /\ 4 \in hits <=> W.dstM = src
      /\ 5 \in hits <=> W.dstE = src
      /\ hits \subseteq 1 .. 5
  BY <1>2
<1> HIDE DEF hits
<1>4. CASE 1 \in hits
  <2>1. Min(hits) = 1
    <3>1. hits \subseteq Nat /\ 1 \in hits /\ \A y \in hits : 1 <= y
      BY <1>3, <1>4
    <3> QED
      BY <3>1, MinIs
  <2> QED
    BY <1>1, <1>2, <1>3, <1>4, <2>1
<1>5. CASE 1 \notin hits /\ 2 \in hits
  <2>1. Min(hits) = 2
    <3>1. hits \subseteq Nat /\ 2 \in hits /\ \A y \in hits : 2 <= y
      BY <1>3, <1>5
    <3> QED
      BY <3>1, MinIs
  <2> QED
    BY <1>1, <1>2, <1>3, <1>5, <2>1
<1>6. CASE 1 \notin hits /\ 2 \notin hits /\ 3 \in hits
  <2>1. Min(hits) = 3
    <3>1. hits \subseteq Nat /\ 3 \in hits /\ \A y \in hits : 3 <= y
      BY <1>3, <1>6
    <3> QED
      BY <3>1, MinIs
  <2> QED
    BY <1>1, <1>2, <1>3, <1>6, <2>1
<1>7. CASE 1 \notin hits /\ 2 \notin hits /\ 3 \notin hits /\ 4 \in hits
  <2>1. Min(hits) = 4
    <3>1. hits \subseteq Nat /\ 4 \in hits /\ \A y \in hits : 4 <= y
      BY <1>3, <1>7
    <3> QED
      BY <3>1, MinIs
  <2> QED
    BY <1>1, <1>2, <1>3, <1>7, <2>1
<1>8. CASE 1 \notin hits /\ 2 \notin hits /\ 3 \notin hits /\ 4 \notin hits /\ 5 \in hits
  <2>1. Min(hits) = 5
    <3>1. hits \subseteq Nat /\ 5 \in hits /\ \A y \in hits : 5 <= y
      BY <1>3, <1>8
    <3> QED
      BY <3>1, MinIs
  <2> QED
    BY <1>1, <1>2, <1>3, <1>8, <2>1
<1>9. CASE 1 \notin hits /\ 2 \notin hits /\ 3 \notin hits /\ 4 \notin hits /\ 5 \notin hits
  <2>1. hits = {}
    BY <1>3, <1>9
  <2> QED
    BY <1>1, <1>3, <1>9, <2>1
<1> QED
  BY <1>4, <1>5, <1>6, <1>7, <1>8, <1>9

\* The registers behind an instruction that does not fail.
LEMMA ExecRegisters ==
  ASSUME InstructionsAreWellFormed, NEW p \in Programs, NEW s \in State, Known(p, s),
         Exec(p, s).stat = SAOK
  PROVE  LET i == Here(p, s)
         IN  /\ Exec(p, s).state = Done(s, i)
             /\ Target(s, i) \in Register \cup {RNONE} /\ dstM(i) \in Register \cup {RNONE}
             /\ \A id \in Register : Exec(p, s).state.r[id] = IF dstM(i) = id THEN valM(s, i)
                                                              ELSE IF Target(s, i) = id THEN valE(s, i)
                                                              ELSE s.r[id]
<1> DEFINE i == Here(p, s)
           t == Exec(p, s).state
           r1 == set_reg_val(s.r, Target(s, i), valE(s, i))
<1>1. i \in Instruction /\ s.r \in [Register -> Word]
  BY HereIs DEF State
<1>2. t = Done(s, i)
  BY ExecIs DEF Stopped, SAOK, SADR, SHLT, SINS
<1>3. Target(s, i) \in Register \cup {RNONE} /\ dstM(i) \in Register \cup {RNONE}
  BY <1>1, RegisterAssumption DEF Instruction, Target, dstE, dstM
<1>4. t.r = set_reg_val(r1, dstM(i), valM(s, i))
  BY <1>2 DEF Done
<1> HIDE DEF i, t
<1>5. DOMAIN r1 = Register
      /\ \A id \in Register : r1[id] = IF Target(s, i) = id THEN valE(s, i) ELSE s.r[id]
  BY <1>1, <1>3, RegisterAssumption DEF set_reg_val
<1> HIDE DEF r1
<1>6. \A id \in Register : t.r[id] = IF dstM(i) = id THEN valM(s, i) ELSE r1[id]
  BY <1>3, <1>4, <1>5, RegisterAssumption DEF set_reg_val
<1> QED
  BY <1>2, <1>3, <1>5, <1>6 DEF i, t

\* Write back.
LEMMA WriteBackStage ==
  ASSUME InstructionsAreWellFormed, IInv, okM
  PROVE  /\ update_reg = sM.r
         /\ sM = IF W.stat = SBUB THEN isa ELSE IsaStep.state
<1>1. isa \in State /\ prog \in Programs /\ reg = isa.r
      /\ (W.stat # SBUB => Known(prog, isa) /\ InW(W, prog, isa))
      /\ (W.stat = SBUB => W.dstE = RNONE /\ W.dstM = RNONE)
  BY DEF IInv, Types, Follows, Bubbles, InW
<1>2. IsaStep = Exec(prog, isa)
  BY DEF IsaStep, Exec
<1>3. sM = IF W.stat = SBUB THEN isa ELSE IsaStep.state
  BY <1>2 DEF sM, Beyond
<1>4. CASE W.stat = SBUB
  BY <1>1, <1>3, <1>4 DEF update_reg, set_reg_val, w_dstE, w_dstM
<1>5. CASE W.stat # SBUB
  <2> DEFINE i == Here(prog, isa)
  <2>1. Exec(prog, isa).stat = SAOK
    BY <1>1, <1>5 DEF InW, okM
  <2>2. Exec(prog, isa).state = Done(isa, i)
    BY <1>1, <1>5, <2>1, ExecRegisters
  <2>3. /\ W.dstE = Target(isa, i) /\ W.dstM = dstM(i)
        /\ W.valE = valE(isa, i) /\ W.valM = valM(isa, i)
    BY <1>1, <1>5 DEF InW
  <2>4. update_reg = Done(isa, i).r
    BY <1>1, <2>3 DEF update_reg, w_dstE, w_valE, w_dstM, w_valM, Done
  <2> QED
    BY <1>2, <1>3, <1>5, <2>2, <2>4
<1> QED
  BY <1>3, <1>4, <1>5

\* What is forwarded is the register behind all instructions that precede the one in
\* decode.
LEMMA Forwarding ==
  ASSUME InstructionsAreWellFormed, IInv, okD, NEW id \in Register, E.dstM # id
  PROVE  Forward(id) = sD.r[id]
<1>1. okM /\ okE
  BY DEF okD, okE
<1>2. /\ sM \in State /\ sE \in State /\ isa \in State /\ prog \in Programs /\ reg = isa.r
      /\ (M.stat # SBUB => Known(prog, sM) /\ InM(M, prog, sM))
      /\ (E.stat # SBUB => Known(prog, sE) /\ InE(E, e_valA, prog, sE))
      /\ (W.stat # SBUB => Known(prog, isa) /\ InW(W, prog, isa))
  BY <1>1, StatesAreStates DEF IInv, Types, Follows, InW
<1>3. id # RNONE
  BY RegisterAssumption
<1>4. sD.r[id] = IF e_dstE = id THEN e_valE ELSE sE.r[id]
  <2>1. CASE E.stat = SBUB
    BY <1>1, <1>3, <2>1, ExecuteStage DEF sD, Beyond
  <2>2. CASE E.stat # SBUB
    <3>1. Exec(prog, sE).stat = SAOK /\ E.dstM = dstM(Here(prog, sE))
      BY <1>2, <2>2 DEF okD, InE
    <3>2. e_valE = valE(sE, Here(prog, sE)) /\ e_dstE = Target(sE, Here(prog, sE))
      BY <1>1, <2>2, ExecuteStage
    <3>3. sD.r[id] = IF Target(sE, Here(prog, sE)) = id THEN valE(sE, Here(prog, sE)) ELSE sE.r[id]
      BY <1>2, <2>2, <3>1, ExecRegisters DEF sD, Beyond
    <3> QED
      BY <3>2, <3>3
  <2> QED
    BY <2>1, <2>2
<1>5. sE.r[id] = IF M.dstM = id THEN m_valM ELSE IF M.dstE = id THEN M.valE ELSE sM.r[id]
  <2>1. CASE M.stat = SBUB
    <3>1. M.dstM = RNONE /\ M.dstE = RNONE
      BY <2>1 DEF IInv, Bubbles
    <3> QED
      BY <1>3, <2>1, <3>1 DEF sE, Beyond
  <2>2. CASE M.stat # SBUB
    <3> DEFINE i == Here(prog, sM)
    <3>1. /\ m_stat = Exec(prog, sM).stat /\ m_valM = valM(sM, i) /\ m_stat # SBUB
          /\ m_stat \in {SBUB, SAOK}
      BY <1>1, <2>2, ReadyForMemory, MemoryStage DEF okE
    <3>2. M.dstM = dstM(i) /\ M.dstE = Target(sM, i) /\ M.valE = valE(sM, i)
      BY <1>2, <2>2 DEF InM
    <3>3. sE.r[id] = IF dstM(i) = id THEN valM(sM, i)
                     ELSE IF Target(sM, i) = id THEN valE(sM, i) ELSE sM.r[id]
      BY <1>2, <2>2, <3>1, ExecRegisters DEF sE, Beyond
    <3> QED
      BY <3>1, <3>2, <3>3
  <2> QED
    BY <2>1, <2>2
<1>6. sM.r[id] = IF W.dstM = id THEN W.valM ELSE IF W.dstE = id THEN W.valE ELSE reg[id]
  <2>1. CASE W.stat = SBUB
    <3>1. W.dstM = RNONE /\ W.dstE = RNONE
      BY <2>1 DEF IInv, Bubbles
    <3> QED
      BY <1>2, <1>3, <2>1, <3>1 DEF sM, Beyond
  <2>2. CASE W.stat # SBUB
    <3> DEFINE i == Here(prog, isa)
    <3>1. Exec(prog, isa).stat = SAOK
      BY <1>1, <1>2, <2>2 DEF InW, okM
    <3>2. /\ W.dstM = dstM(i) /\ W.dstE = Target(isa, i) /\ W.valE = valE(isa, i)
          /\ W.valM = valM(isa, i)
      BY <1>2, <2>2 DEF InW
    <3>3. sM.r[id] = IF dstM(i) = id THEN valM(isa, i)
                     ELSE IF Target(isa, i) = id THEN valE(isa, i) ELSE isa.r[id]
      BY <1>2, <2>2, <3>1, ExecRegisters DEF sM, Beyond
    <3> QED
      BY <1>2, <3>2, <3>3
  <2> QED
    BY <2>1, <2>2
<1>7. get_reg_val(reg, id) = reg[id]
  BY <1>3 DEF get_reg_val
<1> QED
  BY <1>4, <1>5, <1>6, <1>7, ForwardIs

-----------------------------------------------------------------------------
(***************************************************************************)
(* What a cycle does to the invariant.                                     *)
(***************************************************************************)
\* What MemoryStage says, to be used of the next cycle.
MemoryDone ==
  /\ m_stat \in Stats /\ (m_stat = SBUB <=> M.stat = SBUB)
  /\ M.stat # SBUB => m_stat = Exec(prog, sM).stat /\ m_valM = valM(sM, Here(prog, sM))

\* The memory stage in the next cycle.
LEMMA NextMemoryStage == (InstructionsAreWellFormed /\ MemoryReady => MemoryDone)'
<1>1. InstructionsAreWellFormed /\ MemoryReady => MemoryDone
  BY MemoryStage DEF MemoryDone
<1> QED
  BY <1>1, PTL

\* How the pipeline registers are loaded.
LEMMA Loads ==
  ASSUME InstructionsAreWellFormed, IInv, Cycle
  PROVE  /\ okM /\ ~(LoadUse /\ Mispredicted) /\ ~(LoadUse /\ E.stat = SBUB)
         /\ W' = mem_wb_next
         /\ M' = IF m_stat \in Stopped THEN bubble_ex_mem ELSE ex_mem_next
         /\ E' = IF Mispredicted \/ LoadUse THEN bubble_id_ex ELSE id_ex_next
         /\ reg' = update_reg /\ mem' = update_mem /\ cc' = update_cc
         /\ isa' = sM
<1>1. okM /\ W.stat \notin Stopped
  BY DEF IInv, Types, Stats, Cycle, Stat, okM, Stopped, SADR, SAOK, SHLT, SINS, SBUB
<1>2. ~(LoadUse /\ Mispredicted) /\ ~(LoadUse /\ E.stat = SBUB)
  BY DEF LoadUse, Mispredicted, IMRMOVQ, IPOPQ, IJXX, INOP, IInv, Bubbles
<1>3. W' = mem_wb_next
  BY <1>1 DEF Cycle, W_stall, pipe_cntl, Update
<1>4. M' = IF m_stat \in Stopped THEN bubble_ex_mem ELSE ex_mem_next
  BY <1>1 DEF Cycle, M_bubble, pipe_cntl, Update
<1>5. E' = IF Mispredicted \/ LoadUse THEN bubble_id_ex ELSE id_ex_next
  BY <1>1 DEF Cycle, E_bubble, pipe_cntl, Update
<1>6. isa' = sM
  BY <1>1, WriteBackStage DEF Cycle
<1>7. reg' = update_reg /\ mem' = update_mem /\ cc' = update_cc
  BY DEF Cycle
<1> QED
  BY <1>1, <1>2, <1>3, <1>4, <1>5, <1>6, <1>7

\* What is fetched.
LEMMA FetchStage ==
  ASSUME InstructionsAreWellFormed, IInv, Cycle
  PROVE  /\ prog' \in Programs
         /\ f_pc \in DOMAIN prog' => prog'[f_pc] # UNKNOWN
         /\ F' = IF LoadUse \/ RetPasses THEN F ELSE f_predPC(Fetch(prog', f_pc))
         /\ D' = IF LoadUse THEN D
                 ELSE IF Mispredicted \/ RetPasses THEN bubble_if_id
                 ELSE if_id_next(Fetch(prog', f_pc))
         /\ f_stat(Fetch(prog', f_pc)) = FetchStat(prog', f_pc)
         /\ \A s \in State : Known(prog, s) =>
              /\ Known(prog', s) /\ Here(prog', s) = Here(prog, s)
              /\ Exec(prog', s) = Exec(prog, s) /\ FetchStat(prog', s.pc) = FetchStat(prog, s.pc)
<1>1. prog \in Programs /\ DOMAIN prog = 0 .. CODE_TOP - 1
  BY DEF IInv, Types, Programs
<1>2. PICK i \in Fetchable :
        /\ F' = IF F_stall THEN F ELSE f_predPC(i)
        /\ D' = Update(pipe_cntl(D_stall, D_bubble), D, if_id_next(i), bubble_if_id)
        /\ prog' = IF imem_error THEN prog ELSE [prog EXCEPT ![f_pc] = i]
  BY DEF Cycle
<1>3. UNKNOWN \notin Instructions /\ UNKNOWN # Zeros
  <2>1. Zeros \in Instruction
    BY WordSize DEF Zeros, Instruction, Ifun, Icode, IHALT
  <2> QED
    BY <2>1, UNKNOWNAssumption, InstructionsAssumption
<1>4. /\ imem_error => i = [Zeros EXCEPT !.icode = INOP]
      /\ ~imem_error /\ prog[f_pc] = UNKNOWN => i \in Instructions
      /\ ~imem_error /\ prog[f_pc] # UNKNOWN => i = prog[f_pc]
  BY <1>2 DEF Fetchable
<1>5. /\ prog' \in Programs /\ DOMAIN prog' = DOMAIN prog
      /\ \A a \in DOMAIN prog : prog[a] # UNKNOWN => prog'[a] = prog[a]
      /\ f_pc \in DOMAIN prog' => prog'[f_pc] # UNKNOWN
      /\ i = Fetch(prog', f_pc)
  <2>1. CASE imem_error
    <3>1. prog' = prog /\ f_pc \notin DOMAIN prog
      BY <1>1, <1>2, <2>1 DEF imem_error
    <3> QED
      BY <1>1, <1>4, <2>1, <3>1 DEF Fetch
  <2>2. CASE ~imem_error
    <3>1. prog' = [prog EXCEPT ![f_pc] = i] /\ f_pc \in DOMAIN prog
      BY <1>1, <1>2, <2>2 DEF imem_error
    <3>2. prog'[f_pc] = i /\ \A a \in DOMAIN prog : a # f_pc => prog'[a] = prog[a]
      BY <1>1, <3>1
    <3>3. i \in Instructions \cup {Zeros} /\ i # UNKNOWN
      BY <1>1, <1>3, <1>4, <2>2, <3>1 DEF Programs
    <3>4. prog' \in Programs
      BY <1>1, <3>1, <3>3 DEF Programs
    <3> QED
      BY <1>1, <1>4, <2>2, <3>1, <3>2, <3>3, <3>4 DEF Fetch
  <2> QED
    BY <2>1, <2>2
<1>6. F' = IF LoadUse \/ RetPasses THEN F ELSE f_predPC(i)
  BY <1>2 DEF F_stall
<1>7. D' = IF LoadUse THEN D ELSE IF Mispredicted \/ RetPasses THEN bubble_if_id ELSE if_id_next(i)
  <2>1. ~(LoadUse /\ Mispredicted)
    BY Loads
  <2> QED
    BY <1>2, <2>1 DEF D_stall, D_bubble, pipe_cntl, Update
<1>8. f_stat(i) = FetchStat(prog', f_pc)
  <2>1. imem_error <=> f_pc \notin DOMAIN prog'
    BY <1>1, <1>5 DEF imem_error
  <2>2. f_pc \in DOMAIN prog' => i = prog'[f_pc]
    BY <1>5 DEF Fetch
  <2>3. IHALT \in Icode
    BY DEF IHALT, Icode
  <2>4. CASE imem_error
    <3>1. i.icode \in Icode /\ i.icode # IHALT
      <4>1. i.icode = INOP
        BY <1>4, <2>4 DEF Zeros
      <4> QED
        BY <4>1 DEF INOP, IHALT, Icode
    <3>2. f_stat(i) = SADR
      BY <2>4, <3>1 DEF f_stat
    <3> QED
      BY <2>1, <2>4, <3>2 DEF FetchStat
  <2>5. CASE ~imem_error
    <3>1. f_stat(i) = IF i.icode \notin Icode THEN SINS ELSE IF i.icode = IHALT THEN SHLT ELSE SAOK
      BY <2>3, <2>5 DEF f_stat
    <3> QED
      BY <2>1, <2>2, <2>5, <3>1 DEF FetchStat
  <2> QED
    BY <2>4, <2>5
<1>9. ASSUME NEW s \in State, Known(prog, s)
      PROVE  /\ Known(prog', s) /\ Here(prog', s) = Here(prog, s)
             /\ Exec(prog', s) = Exec(prog, s) /\ FetchStat(prog', s.pc) = FetchStat(prog, s.pc)
  <2>1. s.pc \in DOMAIN prog => prog'[s.pc] = prog[s.pc] /\ prog[s.pc] # UNKNOWN
    BY <1>5, <1>9 DEF Known
  <2> QED
    BY <1>5, <2>1 DEF Known, Here, Fetch, Exec, FetchStat
<1> QED
  BY <1>5, <1>6, <1>7, <1>8, <1>9

\* Every state moves on by a stage.
LEMMA StatesMove ==
  ASSUME InstructionsAreWellFormed, IInv, Cycle
  PROVE  /\ sM' = sE
         /\ ~okE => sE' = sE
         /\ okE => sE' = sD
         /\ okE /\ (Mispredicted \/ LoadUse) => sD' = sD
         /\ okD /\ ~LoadUse => sD' = sF
         /\ okD /\ LoadUse => sF' = sF
<1>1. /\ okM /\ ~(LoadUse /\ Mispredicted)
      /\ W' = mem_wb_next
      /\ M' = IF m_stat \in Stopped THEN bubble_ex_mem ELSE ex_mem_next
      /\ E' = IF Mispredicted \/ LoadUse THEN bubble_id_ex ELSE id_ex_next
      /\ isa' = sM
  BY Loads
<1>2. /\ sM \in State
      /\ sE \in State /\ (M.stat # SBUB => Known(prog, sM))
      /\ okE => sD \in State /\ (E.stat # SBUB => Known(prog, sE))
      /\ okD => sF \in State /\ (D.stat # SBUB => Known(prog, sD))
  BY <1>1, StatesAreStates
<1>3. \A s \in State : Known(prog, s) => Exec(prog', s) = Exec(prog, s)
  BY FetchStage
<1>4. D' = D \/ ~LoadUse
  BY FetchStage
<1>5. sM' = sE
  <2>1. W'.stat = m_stat /\ (m_stat = SBUB <=> M.stat = SBUB)
    BY <1>1, ReadyForMemory, MemoryStage DEF mem_wb_next
  <2> QED
    BY <1>1, <1>2, <1>3, <2>1 DEF sM, sE, Beyond
<1>6. ~okE => sE' = sE
  <2> SUFFICES ASSUME ~okE PROVE sE' = sE
    OBVIOUS
  <2>1. m_stat \in Stopped
    BY <1>1, ReadyForMemory, MemoryStage DEF okE, Stats
  <2>2. M'.stat = SBUB
    BY <1>1, <2>1 DEF bubble_ex_mem
  <2> QED
    BY <1>5, <2>2 DEF sE, Beyond
<1>7. okE => sE' = sD
  <2> SUFFICES ASSUME okE PROVE sE' = sD
    OBVIOUS
  <2>1. M'.stat = E.stat
    BY <1>1 DEF okE, Stopped, SADR, SAOK, SHLT, SINS, SBUB, ex_mem_next
  <2> QED
    BY <1>2, <1>3, <1>5, <2>1 DEF sE, sD, Beyond
<1>8. okE /\ (Mispredicted \/ LoadUse) => sD' = sD
  <2> SUFFICES ASSUME okE, Mispredicted \/ LoadUse PROVE sD' = sD
    OBVIOUS
  <2>1. E'.stat = SBUB
    BY <1>1 DEF bubble_id_ex
  <2> QED
    BY <1>7, <2>1 DEF sD, Beyond
<1>9. okD /\ ~LoadUse => sD' = sF
  <2> SUFFICES ASSUME okD, ~LoadUse PROVE sD' = sF
    OBVIOUS
  <2>1. E'.stat = D.stat /\ okE
    BY <1>1 DEF okD, id_ex_next
  <2> QED
    BY <1>2, <1>3, <1>7, <2>1 DEF sD, sF, Beyond
<1>10. okD /\ LoadUse => sF' = sF
  <2> SUFFICES ASSUME okD, LoadUse PROVE sF' = sF
    OBVIOUS
  <2>1. D' = D /\ okE /\ sD' = sD
    BY <1>4, <1>8 DEF okD
  <2> QED
    BY <1>2, <1>3, <2>1 DEF sF, Beyond
<1> QED
  BY <1>5, <1>6, <1>7, <1>8, <1>9, <1>10

\* Bubbles stay bubbles.
LEMMA BubblesStay ==
  ASSUME InstructionsAreWellFormed, IInv, Cycle
  PROVE  Types' /\ Bubbles' /\ Drained'
<1> USE DEF INOP, IHALT, IRRMOVQ, IIRMOVQ, IRMMOVQ, IMRMOVQ, IOPQ, IJXX, ICALL, IRET,
            IPUSHQ, IPOPQ, IIADDQ, INVALID
<1> USE DEF SAOK, SBUB, SADR, SHLT, SINS, Stopped
<1>1. /\ okM /\ ~(LoadUse /\ Mispredicted) /\ ~(LoadUse /\ E.stat = SBUB)
      /\ W' = mem_wb_next
      /\ M' = IF m_stat \in Stopped THEN bubble_ex_mem ELSE ex_mem_next
      /\ E' = IF Mispredicted \/ LoadUse THEN bubble_id_ex ELSE id_ex_next
      /\ isa' = sM
  BY Loads
<1>2. PICK i :
      /\ D' = IF LoadUse THEN D ELSE IF Mispredicted \/ RetPasses THEN bubble_if_id
                                ELSE if_id_next(i)
      /\ f_stat(i) \in {SAOK} \cup Stopped
  <2>1. FetchStat(prog', f_pc) \in {SAOK} \cup Stopped
    BY DEF FetchStat
  <2> QED
    BY <2>1, FetchStage
<1>3. prog' \in Programs /\ sM \in State
  BY FetchStage, StatesAreStates
<1>4. m_stat \in Stats /\ (m_stat = SBUB <=> M.stat = SBUB)
  BY <1>1, ReadyForMemory, MemoryStage
<1>5. /\ D.stat \in Stats /\ E.stat \in Stats /\ M.stat \in Stats /\ W.stat \in Stats
      /\ (D.stat = SBUB => D.icode = INOP)
      /\ (E.stat = SBUB => E.icode = INOP /\ E.dstE = RNONE /\ E.dstM = RNONE)
      /\ (M.stat = SBUB => M.icode = INOP /\ M.dstE = RNONE /\ M.dstM = RNONE)
      /\ (M.icode = IRET => E.stat = SBUB /\ D.stat = SBUB)
      /\ (E.icode = IRET => D.stat = SBUB)
  BY DEF IInv, Types, Bubbles, Drained
<1>6. /\ W'.stat = m_stat /\ W'.icode = M.icode /\ W'.dstE = M.dstE /\ W'.dstM = M.dstM
  BY <1>1 DEF mem_wb_next
<1>7. \/ M'.stat = SBUB /\ M'.icode = INOP /\ M'.dstE = RNONE /\ M'.dstM = RNONE
      \/ /\ M'.stat = E.stat /\ M'.icode = E.icode /\ M'.dstE = e_dstE /\ M'.dstM = E.dstM
         /\ M'.Cnd = e_Cnd /\ m_stat \notin Stopped
  BY <1>1 DEF bubble_ex_mem, ex_mem_next
<1>8. \/ E'.stat = SBUB /\ E'.icode = INOP /\ E'.dstE = RNONE /\ E'.dstM = RNONE
      \/ /\ E'.stat = D.stat /\ E'.icode = D.icode /\ E'.dstE = d_dstE /\ E'.dstM = d_dstM
         /\ ~Mispredicted /\ ~LoadUse
  BY <1>1 DEF bubble_id_ex, id_ex_next
<1>9. \/ LoadUse /\ D' = D
      \/ ~LoadUse /\ D'.stat = SBUB /\ D'.icode = INOP
      \/ ~LoadUse /\ ~Mispredicted /\ ~RetPasses /\ D'.stat \in {SAOK} \cup Stopped
  BY <1>2 DEF bubble_if_id, if_id_next
<1>10. Types'
  <2>1. isa' \in State
    BY <1>1, <1>3
  <2>2. W'.stat \in Stats /\ M'.stat \in Stats /\ E'.stat \in Stats /\ D'.stat \in Stats
    BY <1>4, <1>5, <1>6, <1>7, <1>8, <1>9 DEF Stats
  <2> QED
    BY <1>3, <2>1, <2>2 DEF Types, Stats, Programs, State
<1>11. Bubbles'
  <2>1. W'.stat = SBUB => W'.icode = INOP /\ W'.dstE = RNONE /\ W'.dstM = RNONE
    BY <1>4, <1>5, <1>6
  <2>2. E.stat = SBUB => e_dstE = RNONE
    BY <1>5 DEF e_dstE
  <2>3. M'.stat = SBUB => M'.icode = INOP /\ M'.dstE = RNONE /\ M'.dstM = RNONE
    BY <1>5, <1>7, <2>2
  <2>4. D.stat = SBUB => d_dstE = RNONE /\ d_dstM = RNONE
    BY <1>5 DEF d_dstE, d_dstM
  <2>5. E'.stat = SBUB => E'.icode = INOP /\ E'.dstE = RNONE /\ E'.dstM = RNONE
    BY <1>5, <1>8, <2>4
  <2>6. D'.stat = SBUB => D'.icode = INOP
    BY <1>5, <1>9
  <2> QED
    BY <2>1, <2>3, <2>5, <2>6 DEF Bubbles
<1>12. Drained'
  <2>1. RetPasses <=> IRET \in {D.icode, E.icode, M.icode}
    BY DEF RetPasses
  <2>2. W'.stat \in Stopped => M'.stat = SBUB
    BY <1>1, <1>6 DEF bubble_ex_mem
  <2>3. W'.icode = IRET => M'.stat = SBUB /\ E'.stat = SBUB /\ D'.stat = SBUB
    BY <1>1, <1>5, <1>6, <1>7, <1>8, <1>9, <2>1
  <2>4. M'.icode = IRET => E'.stat = SBUB /\ D'.stat = SBUB
    <3>1. ~(E.icode = IRET /\ LoadUse)
      BY DEF LoadUse
    <3> QED
      BY <1>5, <1>7, <1>8, <1>9, <2>1, <3>1
  <2>5. E'.icode = IRET => D'.stat = SBUB
    BY <1>8, <1>9, <2>1
  <2>6. M'.icode = IJXX /\ ~M'.Cnd => E'.stat = SBUB /\ D'.stat = SBUB
    <3> SUFFICES ASSUME M'.icode = IJXX, ~M'.Cnd PROVE E'.stat = SBUB /\ D'.stat = SBUB
      OBVIOUS
    <3>1. Mispredicted
      BY <1>7 DEF Mispredicted
    <3> QED
      BY <1>1, <1>2, <3>1 DEF bubble_id_ex, bubble_if_id
  <2> QED
    BY <2>2, <2>3, <2>4, <2>5, <2>6 DEF Drained, Stopped, SADR, SINS, SHLT
<1> QED
  BY <1>10, <1>11, <1>12

\* The instruction that comes to write back.
LEMMA ComesToWriteBack ==
  ASSUME InstructionsAreWellFormed, IInv, Cycle, W'.stat # SBUB
  PROVE  InW(W', prog', isa')
<1>1. okM /\ W' = mem_wb_next /\ isa' = sM
  BY Loads
<1>2. /\ m_stat = Exec(prog, sM).stat /\ m_valM = valM(sM, Here(prog, sM)) /\ M.stat # SBUB
  BY <1>1, ReadyForMemory, MemoryStage DEF mem_wb_next
<1>3. sM \in State /\ Known(prog, sM) /\ InM(M, prog, sM)
  BY <1>1, <1>2, StatesAreStates DEF IInv, Follows
<1>4. Known(prog', sM) /\ Here(prog', sM) = Here(prog, sM) /\ Exec(prog', sM) = Exec(prog, sM)
  BY <1>3, FetchStage
<1> QED
  BY <1>1, <1>2, <1>3, <1>4 DEF InW, InM, mem_wb_next

\* The instruction that comes to the memory stage.
LEMMA ComesToMemory ==
  ASSUME InstructionsAreWellFormed, IInv, Cycle, okM', M'.stat # SBUB
  PROVE  okE /\ E.stat # SBUB /\ M' = ex_mem_next /\ InM(M', prog', sM')
<1>1. /\ okM /\ W' = mem_wb_next
      /\ M' = IF m_stat \in Stopped THEN bubble_ex_mem ELSE ex_mem_next
  BY Loads
<1>2. okE
  BY <1>1 DEF okM, okE, mem_wb_next
<1>3. M' = ex_mem_next /\ E.stat # SBUB
  BY <1>1, <1>2 DEF okE, ex_mem_next, bubble_ex_mem
<1>4. sE \in State /\ Known(prog, sE) /\ InE(E, e_valA, prog, sE) /\ sM' = sE
  BY <1>1, <1>2, <1>3, StatesAreStates, StatesMove DEF IInv, Follows
<1>5. /\ Known(prog', sE) /\ Here(prog', sE) = Here(prog, sE)
      /\ FetchStat(prog', sE.pc) = FetchStat(prog, sE.pc)
  BY <1>4, FetchStage
<1>6. /\ e_Cnd = Cond(sE, Here(prog, sE)) /\ e_valE = valE(sE, Here(prog, sE))
      /\ e_dstE = Target(sE, Here(prog, sE))
  BY <1>2, <1>3, ExecuteStage
<1> QED
  BY <1>2, <1>3, <1>4, <1>5, <1>6 DEF InM, InE, ex_mem_next

\* The register file, the memory and the condition codes, and what the next cycle's
\* memory stage finds.
LEMMA DataMove ==
  ASSUME InstructionsAreWellFormed, IInv, Cycle
  PROVE  /\ reg' = isa'.r /\ mem' = sM'.m /\ cc' = sE'.cc
         /\ okM' => MemoryReady'
         /\ okE' => okE /\ (E.stat # SBUB => Exec(prog, sE).stat = SAOK)
<1>1. /\ okM /\ reg' = update_reg /\ mem' = update_mem /\ cc' = update_cc /\ isa' = sM
      /\ W' = mem_wb_next
      /\ M' = IF m_stat \in Stopped THEN bubble_ex_mem ELSE ex_mem_next
  BY Loads
<1>2. reg' = isa'.r
  BY <1>1, WriteBackStage
<1>3. sM' = sE /\ (~okE => sE' = sE) /\ (okE => sE' = sD)
  BY StatesMove
<1>4. mem' = sM'.m
  BY <1>1, <1>3, ReadyForMemory, MemoryStage
<1>5. cc' = sE'.cc
  <2>1. CASE okE
    BY <1>1, <1>3, <2>1, ExecuteStage
  <2>2. CASE ~okE
    <3>1. m_stat \in Stopped
      BY <1>1, <2>2, ReadyForMemory, MemoryStage DEF okE, Stats
    <3>2. cc' = cc
      BY <1>1, <3>1 DEF update_cc, set_cc
    <3> QED
      BY <1>3, <2>2, <3>2 DEF IInv, Follows
  <2> QED
    BY <2>1, <2>2
<1>6. okM' => MemoryReady'
  <2> SUFFICES ASSUME okM' PROVE MemoryReady'
    OBVIOUS
  <2>1. sM' \in State /\ prog' \in Programs
    BY <1>1, <1>3, StatesAreStates, FetchStage
  <2>2. M'.stat \in Stats /\ (M'.stat = SBUB => M'.icode = INOP)
    BY BubblesStay DEF Types, Bubbles, Stats
  <2>3. M'.stat # SBUB => InM(M', prog', sM')
    BY ComesToMemory
  <2>4. InM(M', prog', sM') => Known(prog', sM')
    BY DEF InM
  <2> QED
    BY <1>4, <2>1, <2>2, <2>3, <2>4 DEF MemoryReady, State, Programs, Stats
<1>7. okE' => okE /\ (E.stat # SBUB => Exec(prog, sE).stat = SAOK)
  <2> SUFFICES ASSUME okE' PROVE okE /\ (E.stat # SBUB => Exec(prog, sE).stat = SAOK)
    OBVIOUS
  <2>1. okM' /\ m_stat' \in {SBUB, SAOK}
    BY DEF okE
  <2>2. okE
    BY <1>1, <2>1 DEF okM, okE, mem_wb_next
  <2>3. MemoryDone'
    BY <1>6, <2>1, NextMemoryStage
  <2>4. ASSUME E.stat # SBUB
        PROVE  Exec(prog, sE).stat = SAOK
    <3>1. M'.stat # SBUB
      BY <1>1, <2>2, <2>4 DEF okE, Stopped, SADR, SAOK, SHLT, SINS, SBUB, ex_mem_next
    <3>2. m_stat' = Exec(prog', sM').stat /\ m_stat' # SBUB
      BY <2>3, <3>1 DEF MemoryDone
    <3>3. Exec(prog', sE) = Exec(prog, sE)
      BY <1>1, <2>2, <2>4, StatesAreStates, FetchStage
    <3> QED
      BY <1>3, <2>1, <3>2, <3>3
  <2> QED
    BY <2>2, <2>4
<1> QED
  BY <1>2, <1>4, <1>5, <1>6, <1>7

\* The instruction that comes to execute has got its operands, or it stores the value
\* that the load before it is just reading.
LEMMA ComesToExecute ==
  ASSUME InstructionsAreWellFormed, IInv, Cycle, LoadsAreInTime, okE', E'.stat # SBUB
  PROVE  /\ okD /\ D.stat # SBUB /\ ~LoadUse /\ E' = id_ex_next
         /\ InE(E', e_valA', prog', sE')
<1> USE DEF INOP, IHALT, IRRMOVQ, IIRMOVQ, IRMMOVQ, IMRMOVQ, IOPQ, IJXX, ICALL, IRET,
            IPUSHQ, IPOPQ, IIADDQ, INVALID
<1>1. /\ okM
      /\ M' = IF m_stat \in Stopped THEN bubble_ex_mem ELSE ex_mem_next
      /\ E' = IF Mispredicted \/ LoadUse THEN bubble_id_ex ELSE id_ex_next
  BY Loads
<1>2. /\ okE /\ (E.stat # SBUB => Exec(prog, sE).stat = SAOK)
      /\ okM' /\ MemoryReady'
  BY DataMove DEF okE
<1>3. ~Mispredicted /\ ~LoadUse /\ E' = id_ex_next /\ M' = ex_mem_next
  BY <1>1, <1>2 DEF bubble_id_ex, okE, Stopped, SADR, SAOK, SHLT, SINS, SBUB
<1>4. okD /\ D.stat # SBUB
  BY <1>2, <1>3 DEF okD, id_ex_next
<1>5. sD \in State /\ Known(prog, sD) /\ InD(D, prog, sD) /\ sE' = sD /\ sE \in State
  BY <1>1, <1>2, <1>4, StatesAreStates, StatesMove DEF IInv, Follows
<1>6. /\ Known(prog', sD) /\ Here(prog', sD) = Here(prog, sD)
      /\ FetchStat(prog', sD.pc) = FetchStat(prog, sD.pc)
  BY <1>5, FetchStage
<1> DEFINE i == Here(prog, sD)
<1>7. i \in Instruction /\ WellFormed(i) /\ (i.icode \in {IRMMOVQ, IMRMOVQ, IPOPQ} => i \in Instructions)
      /\ prog \in Programs
  BY <1>5, HereIs DEF IInv, Types
<1>8. /\ D.icode = i.icode /\ D.ifun = i.ifun /\ D.rA = i.rA /\ D.rB = i.rB /\ D.valC = i.valC
      /\ D.valP = Wrap(sD.pc + 1) /\ D.pc = sD.pc /\ D.stat = FetchStat(prog, sD.pc)
  BY <1>5 DEF InD
<1> HIDE DEF i
<1>9. d_srcA = srcA(i) /\ d_srcB = srcB(i) /\ d_dstE = dstE(i) /\ d_dstM = dstM(i)
  BY <1>8 DEF d_srcA, srcA, d_srcB, srcB, d_dstE, dstE, d_dstM, dstM
<1>10. srcA(i) \in Register \cup {RNONE} /\ srcB(i) \in Register \cup {RNONE}
  BY <1>7, RegisterAssumption DEF srcA, srcB, Instruction
\* A load before this instruction, and the instruction it loads for.
<1>11. ASSUME E.dstM # RNONE
       PROVE  \E j \in Instructions : /\ j.icode = E.icode /\ j.icode \in {IMRMOVQ, IPOPQ}
                                      /\ E.dstM = j.rA /\ j = Here(prog, sE) /\ E.stat # SBUB
  <2>1. E.stat # SBUB
    BY <1>11 DEF IInv, Bubbles
  <2>2. InE(E, e_valA, prog, sE) /\ Known(prog, sE)
    BY <1>1, <1>2, <2>1, StatesAreStates DEF IInv, Follows
  <2> DEFINE j == Here(prog, sE)
  <2>3. j.icode \in {IRMMOVQ, IMRMOVQ, IPOPQ} => j \in Instructions
    BY <1>5, <1>7, <2>2, HereIs
  <2>4. E.icode = j.icode /\ E.dstM = dstM(j)
    BY <2>2 DEF InE
  <2>5. j.icode \in {IMRMOVQ, IPOPQ} /\ E.dstM = j.rA
    BY <1>11, <2>4 DEF dstM
  <2> HIDE DEF j
  <2> QED
    BY <2>1, <2>3, <2>4, <2>5 DEF j
<1>12. ASSUME srcB(i) # RNONE
       PROVE  d_valB = valB(sD, i)
  <2>1. E.dstM # srcB(i)
    <3> SUFFICES ASSUME E.dstM = srcB(i) PROVE FALSE
      OBVIOUS
    <3>1. PICK j \in Instructions : j.icode = E.icode /\ j.icode \in {IMRMOVQ, IPOPQ} /\ E.dstM = j.rA
      BY <1>11, <1>12
    <3>2. i.icode = IRMMOVQ
      BY <1>3, <1>8, <1>9, <3>1 DEF LoadUse
    <3>3. srcB(i) = i.rB /\ i \in Instructions
      BY <1>7, <3>2 DEF srcB
    <3> QED
      BY <1>8, <3>1, <3>2, <3>3 DEF LoadsAreInTime
  <2>2. Forward(srcB(i)) = sD.r[srcB(i)]
    BY <1>4, <1>10, <1>12, <2>1, Forwarding
  <2> QED
    BY <1>9, <1>12, <2>2 DEF d_valB, valB, get_reg_val
<1>13. ASSUME srcA(i) # RNONE, E.dstM # srcA(i)
       PROVE  d_valA = valA(sD, i)
  <2>1. Forward(srcA(i)) = sD.r[srcA(i)]
    BY <1>4, <1>10, <1>13, Forwarding
  <2>2. i.icode \notin {ICALL, IJXX}
    BY <1>13 DEF srcA
  <2> QED
    BY <1>8, <1>9, <1>13, <2>1, <2>2 DEF d_valA, valA, get_reg_val
<1>14. /\ E'.icode = i.icode /\ E'.srcA = srcA(i) /\ E'.valA = d_valA
       /\ M'.icode = E.icode /\ M'.dstM = E.dstM /\ M'.stat = E.stat
  BY <1>3, <1>8, <1>9 DEF id_ex_next, ex_mem_next
<1>15. e_valA' = IF E.icode = IMRMOVQ /\ i.icode = IRMMOVQ /\ srcA(i) = E.dstM THEN m_valM' ELSE d_valA
  BY <1>14 DEF e_valA
<1>16. ASSUME UsesA(i)
       PROVE  e_valA' = valA(sD, i)
  <2>1. CASE i.icode \in {ICALL, IJXX}
    BY <1>8, <1>15, <2>1 DEF d_valA, valA
  <2>2. CASE i.icode \notin {ICALL, IJXX} /\ E.dstM # srcA(i)
    <3>1. srcA(i) # RNONE
      BY <1>16, <2>2 DEF UsesA
    <3> QED
      BY <1>13, <1>15, <2>2, <3>1
  <2>3. CASE i.icode \notin {ICALL, IJXX} /\ E.dstM = srcA(i)
    <3>1. srcA(i) # RNONE /\ srcA(i) \in Register
      BY <1>10, <1>16, <2>3 DEF UsesA
    <3>2. PICK j \in Instructions : /\ j.icode = E.icode /\ j.icode \in {IMRMOVQ, IPOPQ}
                                    /\ E.dstM = j.rA /\ j = Here(prog, sE) /\ E.stat # SBUB
      BY <1>11, <2>3, <3>1
    <3>3. i.icode = IRMMOVQ
      BY <1>3, <1>8, <1>9, <2>3, <3>2 DEF LoadUse
    <3>4. srcA(i) = i.rA /\ i \in Instructions
      BY <1>7, <3>3 DEF srcA
    <3>5. E.icode = IMRMOVQ
      BY <1>8, <2>3, <3>2, <3>3, <3>4 DEF LoadsAreInTime
    <3>6. e_valA' = m_valM'
      BY <1>15, <2>3, <3>3, <3>5
    <3>7. MemoryDone'
      BY <1>2, NextMemoryStage
    <3>8. Known(prog, sE)
      BY <1>2, <3>2, StatesAreStates
    <3>9. m_valM' = valM(sE, j)
      <4>1. m_valM' = valM(sM', Here(prog', sM'))
        BY <1>14, <3>2, <3>7 DEF MemoryDone
      <4>2. sM' = sE
        BY StatesMove
      <4>3. Here(prog', sE) = j
        BY <1>5, <3>2, <3>8, FetchStage
      <4> QED
        BY <4>1, <4>2, <4>3
    <3>10. sD.r[srcA(i)] = valM(sE, j)
      <4>1. dstM(j) = srcA(i)
        BY <2>3, <3>2 DEF dstM
      <4>2. sD = Exec(prog, sE).state
        BY <3>2 DEF sD, Beyond
      <4>3. Exec(prog, sE).state.r[srcA(i)] = IF dstM(j) = srcA(i) THEN valM(sE, j)
                                              ELSE IF Target(sE, j) = srcA(i) THEN valE(sE, j)
                                              ELSE sE.r[srcA(i)]
        BY <1>2, <1>5, <1>7, <3>1, <3>2, <3>8, ExecRegisters
      <4> QED
        BY <4>1, <4>2, <4>3
    <3> QED
      BY <2>3, <3>1, <3>6, <3>9, <3>10 DEF valA, get_reg_val
  <2> QED
    BY <2>1, <2>2, <2>3
<1>17. InE(E', e_valA', prog', sD)
  <2>1. /\ E'.pc = sD.pc /\ E'.stat = FetchStat(prog', sD.pc) /\ E'.icode = i.icode
        /\ E'.ifun = i.ifun /\ E'.valC = i.valC /\ E'.srcA = srcA(i) /\ E'.dstE = dstE(i)
        /\ E'.dstM = dstM(i) /\ E'.valB = d_valB
    BY <1>3, <1>6, <1>8, <1>9 DEF id_ex_next
  <2>2. Here(prog', sD) = i
    BY <1>6 DEF i
  <2> QED
    BY <1>6, <1>12, <1>16, <2>1, <2>2 DEF InE
<1> QED
  BY <1>3, <1>4, <1>5, <1>17

\* If the next cycle decodes an instruction that is to be executed, no instruction
\* before it has failed or has been mispredicted.
LEMMA NextGoesOn ==
  ASSUME InstructionsAreWellFormed, IInv, Cycle, okD'
  PROVE  /\ okE /\ (Mispredicted => sD' = sD) /\ (~Mispredicted => okD)
         /\ ~Mispredicted /\ ~LoadUse => okF /\ sD' = sF
         /\ LoadUse => okD /\ sD' = sD
<1>1. /\ ~(LoadUse /\ Mispredicted)
      /\ E' = IF Mispredicted \/ LoadUse THEN bubble_id_ex ELSE id_ex_next
  BY Loads
<1>2. okE' /\ okE /\ (E.stat # SBUB => Exec(prog, sE).stat = SAOK)
  BY DataMove DEF okD
<1>3. ~Mispredicted => okD
  BY <1>2 DEF okD
<1>4. Mispredicted \/ LoadUse => sD' = sD
  BY <1>2, StatesMove
<1>5. ASSUME ~Mispredicted, ~LoadUse
      PROVE  okF /\ sD' = sF
  <2>1. okD /\ sD' = sF /\ sE' = sD /\ E' = id_ex_next
    BY <1>1, <1>2, <1>3, <1>5, StatesMove
  <2>2. ASSUME D.stat # SBUB
        PROVE  Exec(prog, sD).stat = SAOK /\ ~(D.icode = IJXX /\ ~cond_holds(sD.cc, D.ifun))
    <3>1. E'.stat # SBUB /\ E'.icode = D.icode /\ E'.ifun = D.ifun
      BY <2>1, <2>2 DEF id_ex_next
    <3>2. Exec(prog', sE').stat = SAOK /\ ~Mispredicted'
      BY <3>1 DEF okD
    <3>3. Exec(prog', sD) = Exec(prog, sD)
      BY <2>1, <2>2, StatesAreStates, FetchStage, <1>2
    <3>4. cc' = sD.cc
      BY <2>1, DataMove
    <3>5. Mispredicted' <=> (D.icode = IJXX /\ ~cond_holds(sD.cc, D.ifun))
      BY <3>1, <3>4 DEF Mispredicted, e_Cnd, IJXX
    <3> QED
      BY <2>1, <3>2, <3>3, <3>5
  <2> QED
    BY <2>1, <2>2 DEF okF
<1> QED
  BY <1>1, <1>2, <1>3, <1>4, <1>5

\* The instruction that comes to decode is the one that step_state executes next.
LEMMA ComesToDecode ==
  ASSUME InstructionsAreWellFormed, IInv, Cycle, okD', D'.stat # SBUB
  PROVE  InD(D', prog', sD')
<1>1. /\ okE /\ (Mispredicted => sD' = sD) /\ (~Mispredicted => okD)
      /\ (~Mispredicted /\ ~LoadUse => okF /\ sD' = sF)
      /\ (LoadUse => okD /\ sD' = sD)
  BY NextGoesOn
<1>2. /\ f_pc \in DOMAIN prog' => prog'[f_pc] # UNKNOWN
      /\ D' = IF LoadUse THEN D
              ELSE IF Mispredicted \/ RetPasses THEN bubble_if_id
              ELSE if_id_next(Fetch(prog', f_pc))
      /\ f_stat(Fetch(prog', f_pc)) = FetchStat(prog', f_pc)
  BY FetchStage
<1>3. CASE LoadUse
  <2>1. D' = D /\ sD' = sD /\ okD /\ D.stat # SBUB
    BY <1>1, <1>2, <1>3
  <2>2. InD(D, prog, sD) /\ sD \in State /\ Known(prog, sD)
    BY <1>1, <2>1, StatesAreStates, Loads DEF IInv, Follows
  <2>3. Known(prog', sD) /\ Here(prog', sD) = Here(prog, sD)
        /\ FetchStat(prog', sD.pc) = FetchStat(prog, sD.pc)
    BY <2>2, FetchStage
  <2> QED
    BY <2>1, <2>2, <2>3 DEF InD
<1>4. CASE ~LoadUse
  <2>1. ~Mispredicted /\ ~RetPasses /\ D' = if_id_next(Fetch(prog', f_pc))
    BY <1>2, <1>4 DEF bubble_if_id
  <2>2. okF /\ sD' = sF /\ f_pc = sF.pc
    BY <1>1, <1>4, <2>1 DEF IInv, Fetches, RetPasses
  <2>3. Here(prog', sF) = Fetch(prog', f_pc) /\ Known(prog', sF)
    BY <1>2, <2>2 DEF Here, Known
  <2> QED
    BY <1>2, <2>1, <2>2, <2>3 DEF InD, if_id_next, f_valP
<1> QED
  BY <1>3, <1>4

\* Without a return in the pipeline, and after the instruction behind a jump has been
\* fetched, the predicted address is the one of the next instruction.
LEMMA PredictedStays ==
  ASSUME InstructionsAreWellFormed, IInv, Cycle
  PROVE  Predicted'
<1> USE DEF INOP, IHALT, IRRMOVQ, IIRMOVQ, IRMMOVQ, IMRMOVQ, IOPQ, IJXX, ICALL, IRET,
            IPUSHQ, IPOPQ, IIADDQ, INVALID
<1> SUFFICES ASSUME okF', IRET \notin {D'.icode, E'.icode, M'.icode, W'.icode},
                    ~(M'.icode = IJXX /\ ~M'.Cnd)
             PROVE  F' = sF'.pc
  BY DEF Predicted
<1>1. okD' /\ okE' /\ okM'
  BY DEF okF, okD, okE
<1>2. /\ okM /\ ~(LoadUse /\ Mispredicted)
      /\ W' = mem_wb_next
      /\ M' = IF m_stat \in Stopped THEN bubble_ex_mem ELSE ex_mem_next
      /\ E' = IF Mispredicted \/ LoadUse THEN bubble_id_ex ELSE id_ex_next
      /\ cc' = update_cc /\ ~(LoadUse /\ E.stat = SBUB)
  BY Loads
<1>3. /\ okE /\ (~Mispredicted => okD)
      /\ (~Mispredicted /\ ~LoadUse => okF /\ sD' = sF)
      /\ (LoadUse => okD /\ sD' = sD)
  BY <1>1, NextGoesOn
<1>4. M' = ex_mem_next
  BY <1>2, <1>3 DEF okE, Stopped, SADR, SAOK, SHLT, SINS, SBUB
<1>5. ~Mispredicted
  BY <1>4 DEF Mispredicted, ex_mem_next
<1>6. M.icode # IRET /\ E.icode # IRET
  BY <1>2, <1>4 DEF mem_wb_next, ex_mem_next
<1>7. /\ f_pc \in DOMAIN prog' => prog'[f_pc] # UNKNOWN
      /\ F' = IF LoadUse \/ RetPasses THEN F ELSE f_predPC(Fetch(prog', f_pc))
      /\ D' = IF LoadUse THEN D
              ELSE IF Mispredicted \/ RetPasses THEN bubble_if_id
              ELSE if_id_next(Fetch(prog', f_pc))
      /\ prog' \in Programs
  BY FetchStage
<1>8. CASE LoadUse
  <2>1. D' = D /\ F' = F /\ sD' = sD /\ okD /\ sF' = sF
    BY <1>3, <1>7, <1>8, StatesMove
  <2>2. okF
    <3>1. ASSUME D.stat # SBUB
          PROVE  Exec(prog, sD).stat = SAOK /\ ~(D.icode = IJXX /\ ~cond_holds(sD.cc, D.ifun))
      <4>1. Exec(prog', sD').stat = SAOK /\ ~(D'.icode = IJXX /\ ~cond_holds(sD'.cc, D'.ifun))
        BY <2>1, <3>1 DEF okF
      <4>2. Exec(prog', sD) = Exec(prog, sD)
        BY <1>2, <1>3, <2>1, <3>1, StatesAreStates, FetchStage
      <4> QED
        BY <2>1, <4>1, <4>2
    <3> QED
      BY <2>1, <3>1 DEF okF
  <2>3. E.stat # SBUB
    BY <1>2, <1>8
  <2>4. ~(M.icode = IJXX /\ ~M.Cnd) /\ W.icode # IRET
    BY <2>3 DEF IInv, Drained
  <2>5. F = sF.pc
    BY <1>6, <2>1, <2>2, <2>4 DEF IInv, Predicted
  <2> QED
    BY <2>1, <2>5
<1>9. CASE ~LoadUse
  <2>1. D.icode # IRET
    BY <1>2, <1>5, <1>9 DEF id_ex_next
  <2>2. ~RetPasses
    BY <1>6, <2>1 DEF RetPasses
  <2> DEFINE i == Fetch(prog', f_pc)
  <2>3. okF /\ sD' = sF /\ f_pc = sF.pc /\ F' = f_predPC(i) /\ D' = if_id_next(i)
    BY <1>3, <1>5, <1>7, <1>9, <2>2 DEF IInv, Fetches, RetPasses
  <2>4. sD' \in State
    BY <1>2, <1>3, <2>3, StatesAreStates DEF okF
  <2>5. Here(prog', sD') = i /\ Known(prog', sD')
    BY <1>7, <2>3 DEF Here, Known
  <2>6. D'.stat # SBUB /\ D'.icode = i.icode /\ D'.ifun = i.ifun
    <3>1. FetchStat(prog', f_pc) # SBUB /\ f_stat(i) = FetchStat(prog', f_pc)
      BY FetchStage DEF FetchStat, SADR, SAOK, SHLT, SINS, SBUB
    <3> QED
      BY <2>3, <3>1 DEF if_id_next
  <2>7. /\ Exec(prog', sD').stat = SAOK
        /\ ~(i.icode = IJXX /\ ~cond_holds(sD'.cc, i.ifun)) /\ i.icode # IRET
    BY <2>6 DEF okF
  <2>8. Exec(prog', sD').state = Done(sD', i)
    BY <1>7, <2>4, <2>5, <2>7, ExecRegisters
  <2>9. sF' = Done(sD', i)
    BY <2>6, <2>8 DEF sF, Beyond
  <2>10. Done(sD', i).pc = IF i.icode \in {IJXX, ICALL} THEN i.valC ELSE Wrap(sD'.pc + 1)
    <3> HIDE DEF i
    <3> QED
      BY <2>7 DEF Done, Cond
  <2> QED
    BY <2>3, <2>9, <2>10 DEF f_predPC, f_valP
<1> QED
  BY <1>8, <1>9

\* Therefore the address that is fetched from is the one of the next instruction.
LEMMA FetchesStay ==
  ASSUME InstructionsAreWellFormed, IInv, Cycle
  PROVE  Fetches'
<1> USE DEF INOP, IHALT, IRRMOVQ, IIRMOVQ, IRMMOVQ, IMRMOVQ, IOPQ, IJXX, ICALL, IRET,
            IPUSHQ, IPOPQ, IIADDQ, INVALID
<1> SUFFICES ASSUME okF', IRET \notin {D'.icode, E'.icode, M'.icode}
             PROVE  f_pc' = sF'.pc
  BY DEF Fetches
<1>1. okD' /\ okE' /\ okM'
  BY DEF okF, okD, okE
<1>2. /\ okM /\ W' = mem_wb_next
      /\ M' = IF m_stat \in Stopped THEN bubble_ex_mem ELSE ex_mem_next
      /\ isa' = sM
  BY Loads
<1>3. Types' /\ Bubbles' /\ Drained'
  BY BubblesStay
<1>4. sM' = sE /\ prog' \in Programs
  BY StatesMove, FetchStage
<1>5. CASE M'.icode = IJXX /\ ~M'.Cnd
  <2>1. f_pc' = M'.valA
    BY <1>5 DEF f_pc
  <2>2. M'.stat # SBUB /\ E'.stat = SBUB /\ D'.stat = SBUB
    BY <1>3, <1>5 DEF Bubbles, Drained
  <2>3. /\ okE /\ E.stat # SBUB /\ M' = ex_mem_next /\ InM(M', prog', sM')
    BY <1>1, <2>2, ComesToMemory
  <2>4. sF' = sE' /\ sE' = sD
    BY <2>2, <2>3, StatesMove DEF sF, sD, Beyond
  <2> DEFINE i == Here(prog, sE)
  <2>5. Known(prog, sE) /\ sE \in State
    BY <1>2, <2>3, StatesAreStates
  <2>6. Here(prog', sE) = i
    BY <2>5, FetchStage
  <2>7. i.icode = IJXX /\ M'.valA = valA(sE, i) /\ ~Cond(sE, i)
    BY <1>4, <1>5, <2>3, <2>6 DEF InM, UsesA
  <2>8. sD = Done(sE, i)
    <3>1. Exec(prog, sE).stat = SAOK
      BY <1>1, <2>3, DataMove
    <3> QED
      BY <2>3, <2>5, <3>1, ExecRegisters DEF IInv, Types, sD, Beyond
  <2>9. sD.pc = Wrap(sE.pc + 1)
    <3> HIDE DEF i
    <3> QED
      BY <2>7, <2>8 DEF Done
  <2>10. M'.valA = Wrap(sE.pc + 1)
    <3> HIDE DEF i
    <3> QED
      BY <2>7 DEF valA
  <2> QED
    BY <2>1, <2>4, <2>9, <2>10
<1>6. CASE W'.icode = IRET /\ ~(M'.icode = IJXX /\ ~M'.Cnd)
  <2>1. f_pc' = W'.valM
    BY <1>6 DEF f_pc
  <2>2. W'.stat # SBUB /\ M'.stat = SBUB /\ E'.stat = SBUB /\ D'.stat = SBUB
    BY <1>3, <1>6 DEF Bubbles, Drained
  <2>3. InW(W', prog', isa') /\ W'.stat = SAOK
    BY <1>1, <2>2, ComesToWriteBack DEF okM
  <2>4. sF' = sM' /\ isa' \in State
    BY <1>3, <2>2 DEF sF, sD, sE, Beyond, Types, State
  <2> DEFINE i == Here(prog', isa')
  <2>5. i.icode = IRET /\ W'.valM = valM(isa', i) /\ Known(prog', isa') /\ Exec(prog', isa').stat = SAOK
    BY <1>6, <2>3 DEF InW
  <2>6. sM' = Done(isa', i)
    BY <1>4, <2>2, <2>4, <2>5, ExecRegisters DEF sM, Beyond
  <2>7. Done(isa', i).pc = valM(isa', i)
    <3> HIDE DEF i
    <3> QED
      BY <2>5 DEF Done
  <2> QED
    BY <2>1, <2>4, <2>5, <2>6, <2>7
<1>7. CASE W'.icode # IRET /\ ~(M'.icode = IJXX /\ ~M'.Cnd)
  <2>1. f_pc' = F'
    BY <1>7 DEF f_pc
  <2> QED
    BY <1>7, <2>1, PredictedStays DEF Predicted
<1> QED
  BY <1>5, <1>6, <1>7

\* The invariant holds from the beginning and in every cycle.
LEMMA Starts ==
  ASSUME InstructionsAreWellFormed, Init
  PROVE  IInv
<1> USE DEF SAOK, SBUB, SADR, SHLT, SINS, Stopped
<1>1. /\ F = 0 /\ D.stat = SBUB /\ E.stat = SBUB /\ M.stat = SBUB /\ W.stat = SBUB
      /\ D.icode = INOP /\ E.icode = INOP /\ M.icode = INOP /\ W.icode = INOP
      /\ E.dstE = RNONE /\ E.dstM = RNONE /\ M.dstE = RNONE /\ M.dstM = RNONE
      /\ W.dstE = RNONE /\ W.dstM = RNONE
  BY DEF Init, clear_pipes, bubble_if_id, bubble_id_ex, bubble_ex_mem, bubble_mem_wb
<1>2. isa = [pc |-> 0, r |-> reg, m |-> mem, cc |-> DEFAULT_CC]
  BY DEF Init, new_state
<1>3. isa \in State
  <2>1. 0 \in Word /\ DEFAULT_CC \in CC
    BY WordSize DEF DEFAULT_CC, CC
  <2>2. reg \in [Register -> Word] /\ mem \in [Address -> Word]
    BY <2>1, InitialMemoryAssumption DEF Init
  <2> QED
    BY <1>2, <2>1, <2>2 DEF State
<1>4. prog \in Programs
  BY DEF Init, Programs
<1>5. sM = isa /\ sE = isa /\ sD = isa /\ sF = isa
  BY <1>1 DEF sM, sE, sD, sF, Beyond
<1>6. Types
  BY <1>1, <1>3, <1>4 DEF Types, Stats
<1>7. Bubbles /\ Drained
  BY <1>1 DEF Bubbles, Drained, INOP, IRET, IJXX
<1>8. Follows
  BY <1>1, <1>2, <1>5 DEF Follows, Init
<1>9. Fetches /\ Predicted
  BY <1>1, <1>2, <1>5 DEF Fetches, Predicted, f_pc, INOP, IRET, IJXX
<1> QED
  BY <1>6, <1>7, <1>8, <1>9 DEF IInv

\* A cycle keeps the invariant.
LEMMA GoesOn ==
  ASSUME InstructionsAreWellFormed, IInv, Cycle, LoadsAreInTime
  PROVE  IInv'
<1>1. Types' /\ Bubbles' /\ Drained'
  BY BubblesStay
<1>2. Follows'
  <2>1. reg' = isa'.r /\ mem' = sM'.m /\ cc' = sE'.cc
    BY DataMove
  <2>2. W'.stat # SBUB => InW(W', prog', isa')
    BY ComesToWriteBack
  <2>3. okM' /\ M'.stat # SBUB => InM(M', prog', sM')
    BY ComesToMemory
  <2>4. okE' /\ E'.stat # SBUB => InE(E', e_valA', prog', sE')
    BY ComesToExecute
  <2>5. okD' /\ D'.stat # SBUB => InD(D', prog', sD')
    BY ComesToDecode
  <2> QED
    BY <2>1, <2>2, <2>3, <2>4, <2>5 DEF Follows
<1>3. Fetches' /\ Predicted'
  BY FetchesStay, PredictedStays
<1> QED
  BY <1>1, <1>2, <1>3 DEF IInv

\* Therefore it always holds, if no load is late.
LEMMA IInvHolds ==
  ASSUME InstructionsAreWellFormed
  PROVE  MachinesSpec /\ []LoadsAreInTime => []IInv
<1>1. MachinesInit => IInv
  BY Starts DEF MachinesInit
<1>2. IInv /\ LoadsAreInTime /\ [MachinesCycle]_<<vars, seq>> => IInv'
  <2> SUFFICES ASSUME IInv, LoadsAreInTime, [MachinesCycle]_<<vars, seq>> PROVE IInv'
    OBVIOUS
  <2>1. CASE MachinesCycle
    BY <2>1, GoesOn DEF MachinesCycle
  <2>2. CASE UNCHANGED <<vars, seq>>
    BY <2>2 DEF vars, pipes, IInv, Types, Bubbles, Drained, Follows, Fetches, Predicted,
       sM, sE, sD, sF, okM, okE, okD, okF, m_stat, dmem_error, mem_read, mem_write, mem_addr,
       Mispredicted, e_Cnd, e_valA, m_valM, f_pc, State, Programs, Stats
  <2> QED
    BY <2>1, <2>2
<1> QED
  BY <1>1, <1>2, PTL DEF MachinesSpec

\* What fails leaves everything as it is, but for the stack pointer.
LEMMA ExecFails ==
  ASSUME InstructionsAreWellFormed, NEW p \in Programs, NEW s \in State, Known(p, s),
         Exec(p, s).stat # SAOK
  PROVE  LET t == Exec(p, s).state
             fault == /\ s.pc \in DOMAIN p /\ p[s.pc].icode \in {ICALL, IPUSHQ, IPOPQ}
                      /\ Exec(p, s).stat = SADR
         IN  t.m = s.m /\ t.cc = s.cc /\ diff_reg(t.r, s.r) = IF fault THEN {RRSP} ELSE {}
<1> DEFINE i == Here(p, s)
           f == FetchStat(p, s.pc)
           e == Exec(p, s)
           t == e.state
           fault == /\ s.pc \in DOMAIN p /\ p[s.pc].icode \in {ICALL, IPUSHQ, IPOPQ}
                    /\ e.stat = SADR
<1>1. /\ i \in Instruction /\ WellFormed(i)
      /\ s.pc \notin DOMAIN p => i.icode = INOP
      /\ s.pc \in DOMAIN p => i = p[s.pc]
  BY HereIs
<1>2. /\ f # SAOK => i.icode \in {INOP, IHALT, INVALID}
      /\ e.stat = IF f # SAOK THEN f ELSE IF Misses(s, i) THEN SADR ELSE SAOK
      /\ t = IF f # SAOK THEN s ELSE IF Misses(s, i) THEN Failed(s, i) ELSE Done(s, i)
  BY ExecIs
<1>3. s.r \in [Register -> Word] /\ RRSP \in Register /\ DOMAIN s = {"pc", "r", "m", "cc"}
  BY RegisterAssumption DEF State
<1>4. CASE f # SAOK
  <2>1. t = s /\ i.icode \in {INOP, IHALT, INVALID}
    BY <1>2, <1>4
  <2>2. ~fault
    BY <1>1, <2>1 DEF INOP, IHALT, INVALID, ICALL, IPUSHQ, IPOPQ
  <2>3. diff_reg(s.r, s.r) = {}
    BY DEF diff_reg
  <2> QED
    BY <2>1, <2>2, <2>3
<1>5. CASE f = SAOK /\ i.icode \notin {ICALL, IPUSHQ, IPOPQ}
  <2>1. t = s
    BY <1>2, <1>5 DEF Failed
  <2>2. ~fault
    BY <1>1, <1>5
  <2>3. diff_reg(s.r, s.r) = {}
    BY DEF diff_reg
  <2> QED
    BY <2>1, <2>2, <2>3
<1>6. CASE f = SAOK /\ i.icode \in {ICALL, IPUSHQ, IPOPQ}
  <2>1. t = [s EXCEPT !.r = [@ EXCEPT ![RRSP] = valE(s, i)]] /\ e.stat = SADR
    BY <1>2, <1>6 DEF Failed
  <2>2. s.pc \in DOMAIN p
    BY <1>1, <1>6 DEF INOP, ICALL, IPUSHQ, IPOPQ
  <2>3. fault
    BY <1>1, <1>6, <2>1, <2>2
  <2>4. t.m = s.m /\ t.cc = s.cc /\ t.r = [s.r EXCEPT ![RRSP] = valE(s, i)]
    BY <1>3, <2>1
  <2>5. valE(s, i) # s.r[RRSP]
    <3>1. valB(s, i) = s.r[RRSP]
      BY <1>6, <1>3, RegisterAssumption
      DEF valB, srcB, get_reg_val, ICALL, IPUSHQ, IPOPQ, IRET, IOPQ, IRMMOVQ, IMRMOVQ, IIADDQ
    <3>2. valE(s, i) = compute_alu(A_ADD, IF i.icode = IPOPQ THEN 1 ELSE -1, s.r[RRSP])
      BY <1>6, <3>1
      DEF valE, fun, Sets, inA, inB, ICALL, IPUSHQ, IPOPQ, IRET, IOPQ, IRMMOVQ, IMRMOVQ, IIADDQ,
          IRRMOVQ, IIRMOVQ
    <3>3. s.r[RRSP] \in Word
      BY <1>3
    <3> QED
      BY <3>2, <3>3, StackMoves, WrapMoves
  <2>6. diff_reg(t.r, s.r) = {RRSP}
    <3> HIDE DEF t
    <3> QED
      BY <1>3, <2>4, <2>5 DEF diff_reg
  <2> QED
    BY <2>3, <2>4, <2>6
<1> QED
  BY <1>4, <1>5, <1>6

-----------------------------------------------------------------------------
\* The invariant says of the instruction in write back what psim compares.
LEMMA RetiresFromInvariant ==
  ASSUME InstructionsAreWellFormed, IInv
  PROVE  RetiresLikeIsa
<1>1. isa \in State /\ prog \in Programs /\ reg = isa.r /\ mem = sM.m /\ W.stat \in Stats
      /\ (W.stat # SBUB => InW(W, prog, isa) /\ Known(prog, isa))
  BY DEF IInv, Types, Follows, InW
<1>2. IsaStep = Exec(prog, isa)
  BY DEF IsaStep, Exec
<1>3. W.stat # SBUB => W.pc = isa.pc /\ W.stat = IsaStep.stat
  BY <1>1, <1>2 DEF InW
<1>4. CASE W.stat = SBUB
  <2>1. mem = isa.m
    BY <1>1, <1>4 DEF sM, Beyond
  <2> QED
    BY <1>1, <1>4, <2>1 DEF RetiresLikeIsa, SBUB, SAOK
<1>5. CASE W.stat # SBUB
  <2>1. mem = IsaStep.state.m
    BY <1>1, <1>2, <1>5 DEF sM, Beyond
  <2>2. W.stat # SAOK => IsaStep.state.m = isa.m
    BY <1>1, <1>2, <1>3, <1>5, ExecFails
  <2> QED
    BY <1>1, <1>3, <1>5, <2>1, <2>2 DEF RetiresLikeIsa
<1> QED
  BY <1>4, <1>5

\* Of every program of well-formed instructions, on words of any size and any memory and
\* registers, the pipeline (pipe-full.hcl, psim.c) retires the instructions that step_state
\* (isa.c) executes, with the same status, and leaves the same registers and memory, as
\* long as no store needs what a load is still to read.
THEOREM PipelineRetiresLikeIsa ==
  ASSUME InstructionsAreWellFormed
  PROVE  MachinesSpec /\ []LoadsAreInTime => []RetiresLikeIsa
<1>1. IInv => RetiresLikeIsa
  BY RetiresFromInvariant
<1> QED
  BY <1>1, IInvHolds, PTL

-----------------------------------------------------------------------------
(***************************************************************************)
(* The sequential processors.                                              *)
(***************************************************************************)
\* The wires and registers of ssim.c.
Wires == {"pc", "pc_in", "cc", "cc_in", "r", "m", "destE", "destM", "vale", "valm",
          "mem_write", "mem_addr", "mem_data"}

\* The arithmetic of the two processors is that of isa.c: they share its code.
LEMMA SameArithmetic ==
  /\ \A op, a, b : SQ!Sim!compute_alu(op, a, b) = compute_alu(op, a, b)
  /\ \A op, a, b : STD!Sim!compute_alu(op, a, b) = compute_alu(op, a, b)
  /\ \A op, a, b : SQ!Sim!compute_cc(op, a, b) = compute_cc(op, a, b)
  /\ \A op, a, b : STD!Sim!compute_cc(op, a, b) = compute_cc(op, a, b)
<1>1. \A op, a, b : SQ!Sim!compute_alu(op, a, b) = compute_alu(op, a, b)
  BY DEF SQ!Sim!compute_alu, SQ!Sim!A_ADD, SQ!Sim!A_SUB, SQ!Sim!A_AND, SQ!Sim!A_XOR,
     SQ!Sim!Bitwise2, SQ!Sim!BitOf, SQ!Sim!Wrap, SQ!Sim!MinWord,
     compute_alu, A_ADD, A_SUB, A_AND, A_XOR, Bitwise2, BitOf, Wrap, MinWord
<1>2. \A op, a, b : STD!Sim!compute_alu(op, a, b) = compute_alu(op, a, b)
  BY DEF STD!Sim!compute_alu, STD!Sim!A_ADD, STD!Sim!A_SUB, STD!Sim!A_AND, STD!Sim!A_XOR,
     STD!Sim!Bitwise2, STD!Sim!BitOf, STD!Sim!Wrap, STD!Sim!MinWord,
     compute_alu, A_ADD, A_SUB, A_AND, A_XOR, Bitwise2, BitOf, Wrap, MinWord
<1>3. ASSUME NEW op, NEW a, NEW b
      PROVE  SQ!Sim!compute_cc(op, a, b) = compute_cc(op, a, b)
  BY <1>1 DEF SQ!Sim!compute_cc, compute_cc, SQ!Sim!A_ADD, SQ!Sim!A_SUB, A_ADD, A_SUB
<1>4. ASSUME NEW op, NEW a, NEW b
      PROVE  STD!Sim!compute_cc(op, a, b) = compute_cc(op, a, b)
  BY <1>2 DEF STD!Sim!compute_cc, compute_cc, STD!Sim!A_ADD, STD!Sim!A_SUB, A_ADD, A_SUB
<1> QED
  BY <1>1, <1>2, <1>3, <1>4

\* The state of the processor with the writes that are left to do.
LEMMA Updated ==
  ASSUME NEW q, DOMAIN q = Wires
  PROVE  LET u == SQ!Sim!update_state(q)
         IN  /\ DOMAIN u = Wires
             /\ u.pc = q.pc_in /\ u.cc = q.cc_in
             /\ u.r = set_reg_val(set_reg_val(q.r, q.destE, q.vale), q.destM, q.valm)
             /\ u.m = IF q.mem_write /\ q.mem_addr \in Address
                      THEN [q.m EXCEPT ![q.mem_addr] = q.mem_data] ELSE q.m
BY DEF SQ!Sim!update_state, SQ!Sim!set_reg_val, set_reg_val, SQ!Sim!Address, Address, Wires

\* What SEQ fetches.
LEMMA SeqFetches ==
  ASSUME NEW p, NEW s
  PROVE  LET i == Here(p, s)
             j == SQ!Sim!Fetched(s.pc, p)
         IN  i \in Instruction =>
             /\ j.icode = i.icode /\ j.ifun = i.ifun
             /\ i.icode \in {IRRMOVQ, IOPQ, IPUSHQ, IPOPQ, IIRMOVQ, IRMMOVQ, IMRMOVQ, IIADDQ}
                  => j.rA = i.rA /\ j.rB = i.rB
             /\ i.icode \in {IIRMOVQ, IRMMOVQ, IMRMOVQ, IJXX, ICALL, IIADDQ} => j.valC = i.valC
<1> DEFINE i == Here(p, s)
           j == SQ!Sim!Fetched(s.pc, p)
           regids == i.icode \in {IRRMOVQ, IOPQ, IPUSHQ, IPOPQ, IIRMOVQ, IRMMOVQ, IMRMOVQ, IIADDQ}
           const == i.icode \in {IIRMOVQ, IRMMOVQ, IMRMOVQ, IJXX, ICALL, IIADDQ}
<1> SUFFICES ASSUME i \in Instruction
             PROVE  /\ j.icode = i.icode /\ j.ifun = i.ifun
                    /\ regids => j.rA = i.rA /\ j.rB = i.rB
                    /\ const => j.valC = i.valC
  OBVIOUS
<1>1. DOMAIN i = {"icode", "ifun", "rA", "rB", "valC"}
  BY DEF Instruction
<1>2. CASE s.pc \notin DOMAIN p
  <2>1. j = i
    BY <1>2 DEF SQ!Sim!Fetched, SQ!Sim!Zeros, SQ!Sim!INOP, SQ!Sim!IHALT, Zeros, INOP, IHALT,
       Here, Fetch
  <2> QED
    BY <2>1
<1>3. CASE s.pc \in DOMAIN p
  <2>1. i = p[s.pc]
    BY <1>3 DEF Here, Fetch
  <2>2. /\ SQ!gen_need_regids(i.icode) <=> regids
        /\ SQ!gen_need_valC(i.icode) <=> const
    BY DEF SQ!gen_need_regids, SQ!gen_need_valC, SQ!IRRMOVQ, SQ!IOPQ, SQ!IPUSHQ, SQ!IPOPQ,
       SQ!IIRMOVQ, SQ!IRMMOVQ, SQ!IMRMOVQ, SQ!IIADDQ, SQ!IJXX, SQ!ICALL,
       IRRMOVQ, IOPQ, IPUSHQ, IPOPQ, IIRMOVQ, IRMMOVQ, IMRMOVQ, IIADDQ, IJXX, ICALL
  <2> HIDE DEF i, regids, const
  <2>3. j = [i EXCEPT !.rA = IF SQ!gen_need_regids(i.icode) THEN @ ELSE RNONE,
                      !.rB = IF SQ!gen_need_regids(i.icode) THEN @ ELSE RNONE,
                      !.valC = IF SQ!gen_need_valC(i.icode) THEN @ ELSE 0]
    BY <1>3, <2>1 DEF SQ!Sim!Fetched
  <2> HIDE DEF j
  <2> QED
    BY <1>1, <2>2, <2>3
<1> QED
  BY <1>2, <1>3

\* The control logic of SEQ is that of PIPE.
LEMMA SeqControl ==
  ASSUME NEW i, NEW j, j.icode = i.icode, j.ifun = i.ifun,
         i.icode \in {IRRMOVQ, IOPQ, IPUSHQ, IPOPQ, IIRMOVQ, IRMMOVQ, IMRMOVQ, IIADDQ}
            => j.rA = i.rA /\ j.rB = i.rB,
         i.icode \in {IIRMOVQ, IRMMOVQ, IMRMOVQ, IJXX, ICALL, IIADDQ} => j.valC = i.valC
  PROVE  /\ SQ!gen_srcA(j) = srcA(i) /\ SQ!gen_srcB(j) = srcB(i) /\ SQ!gen_dstM(j) = dstM(i)
         /\ \A c : SQ!gen_dstE(j, c) = IF i.icode = IRRMOVQ /\ ~c THEN RNONE ELSE dstE(i)
         /\ \A v : SQ!gen_aluA(j, v) = CASE i.icode \in {IRRMOVQ, IOPQ} -> v
                                         [] i.icode \in {IIRMOVQ, IRMMOVQ, IMRMOVQ, IIADDQ} -> i.valC
                                         [] i.icode \in {ICALL, IPUSHQ} -> -1
                                         [] i.icode \in {IRET, IPOPQ} -> 1
                                         [] OTHER -> 0
         /\ \A v : SQ!gen_aluB(j, v) = IF i.icode \in {IRMMOVQ, IMRMOVQ, IOPQ, ICALL, IPUSHQ, IRET,
                                                       IPOPQ, IIADDQ} THEN v ELSE 0
         /\ SQ!gen_alufun(j) = fun(i) /\ (SQ!gen_set_cc(j) <=> Sets(i))
         /\ (SQ!gen_mem_read(j) <=> Reads(i)) /\ (SQ!gen_mem_write(j) <=> Writes(i))
         /\ \A e, a : SQ!gen_mem_addr(j, e, a)
                      = CASE i.icode \in {IRMMOVQ, IPUSHQ, ICALL, IMRMOVQ} -> e
                          [] i.icode \in {IPOPQ, IRET} -> a
                          [] OTHER -> 0
         /\ \A a, v : SQ!gen_mem_data(j, a, v) = CASE i.icode \in {IRMMOVQ, IPUSHQ} -> a
                                                   [] i.icode = ICALL -> v
                                                   [] OTHER -> 0
         /\ \A c, m, v : SQ!gen_new_pc(j, c, m, v) = CASE i.icode = ICALL -> i.valC
                                                       [] i.icode = IJXX /\ c -> i.valC
                                                       [] i.icode = IRET -> m
                                                       [] OTHER -> v
<1> USE DEF INOP, IHALT, IRRMOVQ, IIRMOVQ, IRMMOVQ, IMRMOVQ, IOPQ, IJXX, ICALL, IRET,
            IPUSHQ, IPOPQ, IIADDQ, INVALID
<1> USE DEF SQ!INOP, SQ!IHALT, SQ!IRRMOVQ, SQ!IIRMOVQ, SQ!IRMMOVQ, SQ!IMRMOVQ, SQ!IOPQ, SQ!IJXX,
            SQ!ICALL, SQ!IRET, SQ!IPUSHQ, SQ!IPOPQ, SQ!IIADDQ, SQ!INVALID
<1>1. SQ!gen_srcA(j) = srcA(i) /\ SQ!gen_srcB(j) = srcB(i) /\ SQ!gen_dstM(j) = dstM(i)
  BY DEF SQ!gen_srcA, SQ!gen_srcB, SQ!gen_dstM, srcA, srcB, dstM
<1>2. \A c : SQ!gen_dstE(j, c) = IF i.icode = IRRMOVQ /\ ~c THEN RNONE ELSE dstE(i)
  BY DEF SQ!gen_dstE, dstE
<1>3. \A v : SQ!gen_aluA(j, v) = CASE i.icode \in {IRRMOVQ, IOPQ} -> v
                                   [] i.icode \in {IIRMOVQ, IRMMOVQ, IMRMOVQ, IIADDQ} -> i.valC
                                   [] i.icode \in {ICALL, IPUSHQ} -> -1
                                   [] i.icode \in {IRET, IPOPQ} -> 1
                                   [] OTHER -> 0
  BY DEF SQ!gen_aluA
<1>4. \A v : SQ!gen_aluB(j, v) = IF i.icode \in {IRMMOVQ, IMRMOVQ, IOPQ, ICALL, IPUSHQ, IRET,
                                                 IPOPQ, IIADDQ} THEN v ELSE 0
  BY DEF SQ!gen_aluB
<1>5. SQ!gen_alufun(j) = fun(i) /\ (SQ!gen_set_cc(j) <=> Sets(i))
  BY DEF SQ!gen_alufun, SQ!gen_set_cc, fun, Sets, SQ!A_ADD, A_ADD
<1>6. (SQ!gen_mem_read(j) <=> Reads(i)) /\ (SQ!gen_mem_write(j) <=> Writes(i))
  BY DEF SQ!gen_mem_read, SQ!gen_mem_write, Reads, Writes
<1>7. \A e, a : SQ!gen_mem_addr(j, e, a)
                = CASE i.icode \in {IRMMOVQ, IPUSHQ, ICALL, IMRMOVQ} -> e
                    [] i.icode \in {IPOPQ, IRET} -> a
                    [] OTHER -> 0
  BY DEF SQ!gen_mem_addr
<1>8. \A a, v : SQ!gen_mem_data(j, a, v) = CASE i.icode \in {IRMMOVQ, IPUSHQ} -> a
                                             [] i.icode = ICALL -> v
                                             [] OTHER -> 0
  BY DEF SQ!gen_mem_data
<1>9. \A c, m, v : SQ!gen_new_pc(j, c, m, v) = CASE i.icode = ICALL -> i.valC
                                                 [] i.icode = IJXX /\ c -> i.valC
                                                 [] i.icode = IRET -> m
                                                 [] OTHER -> v
  BY DEF SQ!gen_new_pc
<1> QED
  BY <1>1, <1>2, <1>3, <1>4, <1>5, <1>6, <1>7, <1>8, <1>9

\* One sim_step of SEQ: it has written what the instruction before has left to write, it
\* finds the status that step_state finds, and leaves its own writes to the next.
LEMMA SeqStep ==
  ASSUME InstructionsAreWellFormed, NEW p \in Programs, NEW s \in State, Known(p, s),
         NEW q, DOMAIN q = Wires, SQ!Sim!visible(SQ!Sim!update_state(q)) = s
  PROVE  LET a == SQ!Sim!sim_step(q, p)
         IN  /\ DOMAIN a.state = Wires /\ SQ!Sim!visible(a.state) = s
             /\ a.stat = Exec(p, s).stat
             /\ a.stat = SAOK => SQ!Sim!visible(SQ!Sim!update_state(a.state)) = Exec(p, s).state
<1> DEFINE i == Here(p, s)
           u == SQ!Sim!update_state(q)
           j == SQ!Sim!Fetched(u.pc, p)
           imem == u.pc \notin DOMAIN p
           valp == SQ!Sim!Wrap(u.pc + 1)
           vala == SQ!Sim!get_reg_val(u.r, SQ!gen_srcA(j))
           valb == SQ!Sim!get_reg_val(u.r, SQ!gen_srcB(j))
           cond == SQ!Sim!cond_holds(u.cc, j.ifun)
           inA1 == SQ!gen_aluA(j, vala)
           inB1 == SQ!gen_aluB(j, valb)
           vale == SQ!Sim!compute_alu(SQ!gen_alufun(j), inA1, inB1)
           addr == SQ!gen_mem_addr(j, vale, vala)
           dmem == (SQ!gen_mem_read(j) \/ SQ!gen_mem_write(j)) /\ addr \notin SQ!Sim!Address
           valm == IF SQ!gen_mem_read(j) /\ ~dmem THEN u.m[addr] ELSE 0
           pcin == SQ!gen_new_pc(j, cond, valm, valp)
           ccin == IF SQ!gen_set_cc(j) THEN SQ!Sim!compute_cc(SQ!gen_alufun(j), inA1, inB1) ELSE u.cc
           data == SQ!gen_mem_data(j, vala, valp)
           wr == SQ!gen_mem_write(j)
           deste == SQ!gen_dstE(j, cond)
           destm == SQ!gen_dstM(j)
           v == [u EXCEPT !.pc_in = pcin, !.cc_in = ccin, !.destE = deste, !.destM = destm,
                          !.vale = vale, !.valm = valm, !.mem_write = wr, !.mem_addr = addr,
                          !.mem_data = data]
           stat == SQ!gen_Stat(j, imem, dmem)
           a == SQ!Sim!sim_step(q, p)
<1>1. a = SQ!Sim!After(v, stat)
  BY DEF SQ!Sim!sim_step
<1>2. a.state = v /\ a.stat = stat
  BY <1>1 DEF SQ!Sim!After
<1>3. /\ DOMAIN u = Wires
      /\ u.pc = s.pc /\ u.r = s.r /\ u.m = s.m /\ u.cc = s.cc
  BY Updated DEF SQ!Sim!visible
<1>4. s = [pc |-> s.pc, r |-> s.r, m |-> s.m, cc |-> s.cc] /\ s.pc \in Int
  BY DEF State
<1>5. /\ i \in Instruction /\ WellFormed(i)
      /\ s.pc \notin DOMAIN p => i.icode = INOP
      /\ s.pc \in DOMAIN p => i = p[s.pc]
  BY HereIs
<1> HIDE DEF u, a
<1>6. /\ j.icode = i.icode /\ j.ifun = i.ifun
      /\ i.icode \in {IRRMOVQ, IOPQ, IPUSHQ, IPOPQ, IIRMOVQ, IRMMOVQ, IMRMOVQ, IIADDQ}
            => j.rA = i.rA /\ j.rB = i.rB
      /\ i.icode \in {IIRMOVQ, IRMMOVQ, IMRMOVQ, IJXX, ICALL, IIADDQ} => j.valC = i.valC
  BY <1>3, <1>5, SeqFetches
<1>7. valp = Wrap(s.pc + 1)
  BY <1>3 DEF SQ!Sim!Wrap, SQ!Sim!MinWord, Wrap, MinWord
<1> HIDE DEF j, i, valp
<1>8. SQ!gen_srcA(j) = srcA(i) /\ SQ!gen_srcB(j) = srcB(i) /\ destm = dstM(i)
  BY <1>6, SeqControl
<1>9. /\ vala = get_reg_val(s.r, srcA(i)) /\ valb = valB(s, i) /\ cond = Cond(s, i)
  <2>1. vala = get_reg_val(s.r, srcA(i)) /\ valb = valB(s, i)
    BY <1>3, <1>8 DEF SQ!Sim!get_reg_val, get_reg_val, valB
  <2>2. cond = Cond(s, i)
    BY <1>3, <1>6 DEF SQ!Sim!cond_holds, cond_holds, Cond
  <2> QED
    BY <2>1, <2>2
<1>10. i.icode \notin {ICALL, IJXX} => vala = valA(s, i)
  BY <1>9 DEF valA
<1> HIDE DEF vala, valb, cond
<1>11. deste = Target(s, i)
  <2>1. deste = IF i.icode = IRRMOVQ /\ ~cond THEN RNONE ELSE dstE(i)
    BY <1>6, SeqControl
  <2> QED
    BY <1>9, <2>1 DEF Target
<1>12. inA1 = inA(s, i)
  <2>1. inA1 = CASE i.icode \in {IRRMOVQ, IOPQ} -> vala
                 [] i.icode \in {IIRMOVQ, IRMMOVQ, IMRMOVQ, IIADDQ} -> i.valC
                 [] i.icode \in {ICALL, IPUSHQ} -> -1
                 [] i.icode \in {IRET, IPOPQ} -> 1
                 [] OTHER -> 0
    BY <1>6, SeqControl
  <2> HIDE DEF inA1
  <2> QED
    BY <1>10, <2>1 DEF inA, IRRMOVQ, IIRMOVQ, IRMMOVQ, IMRMOVQ, IOPQ, IJXX, ICALL, IRET,
       IPUSHQ, IPOPQ, IIADDQ
<1>13. inB1 = inB(s, i)
  <2>1. inB1 = IF i.icode \in {IRMMOVQ, IMRMOVQ, IOPQ, ICALL, IPUSHQ, IRET, IPOPQ, IIADDQ}
               THEN valb ELSE 0
    BY <1>6, SeqControl
  <2> QED
    BY <1>9, <2>1 DEF inB
<1> HIDE DEF inA1, inB1
<1>14. SQ!gen_alufun(j) = fun(i) /\ (SQ!gen_set_cc(j) <=> Sets(i))
       /\ (SQ!gen_mem_read(j) <=> Reads(i)) /\ (wr <=> Writes(i))
  BY <1>6, SeqControl
<1>15. vale = valE(s, i)
  BY <1>12, <1>13, <1>14, SameArithmetic DEF valE
<1>16. ccin = IF Sets(i) THEN compute_cc(fun(i), inA(s, i), inB(s, i)) ELSE s.cc
  BY <1>3, <1>12, <1>13, <1>14, SameArithmetic
<1> HIDE DEF vale, ccin
<1>17. addr = Where(s, i)
  <2>1. addr = CASE i.icode \in {IRMMOVQ, IPUSHQ, ICALL, IMRMOVQ} -> vale
                 [] i.icode \in {IPOPQ, IRET} -> vala
                 [] OTHER -> 0
    BY <1>6, SeqControl
  <2> HIDE DEF addr
  <2> QED
    BY <1>10, <1>15, <2>1 DEF Where, IRRMOVQ, IIRMOVQ, IRMMOVQ, IMRMOVQ, IOPQ, IJXX, ICALL, IRET,
       IPUSHQ, IPOPQ, IIADDQ
<1> HIDE DEF addr
<1>18. dmem <=> Misses(s, i)
  BY <1>14, <1>17 DEF Misses, SQ!Sim!Address, Address
<1>19. valm = valM(s, i)
  BY <1>3, <1>14, <1>17, <1>18 DEF valM
<1> HIDE DEF dmem, valm
<1>20. Writes(i) => data = valA(s, i)
  <2>1. data = CASE i.icode \in {IRMMOVQ, IPUSHQ} -> vala
                 [] i.icode = ICALL -> valp
                 [] OTHER -> 0
    BY <1>6, SeqControl
  <2> HIDE DEF data
  <2> QED
    BY <1>7, <1>10, <2>1 DEF Writes, valA, IRMMOVQ, IPUSHQ, ICALL, IJXX
<1>21. pcin = CASE i.icode = ICALL -> i.valC
                [] i.icode = IJXX /\ Cond(s, i) -> i.valC
                [] i.icode = IRET -> valM(s, i)
                [] OTHER -> Wrap(s.pc + 1)
  BY <1>6, <1>7, <1>9, <1>19, SeqControl
<1> HIDE DEF data, pcin, wr, deste, destm
<1>22. /\ DOMAIN v = Wires
       /\ v.pc = s.pc /\ v.r = s.r /\ v.m = s.m /\ v.cc = s.cc
       /\ v.pc_in = pcin /\ v.cc_in = ccin /\ v.destE = deste /\ v.destM = destm
       /\ v.vale = vale /\ v.valm = valm /\ v.mem_write = wr /\ v.mem_addr = addr
       /\ v.mem_data = data
  BY <1>3 DEF Wires
<1> HIDE DEF v
<1>23. SQ!Sim!visible(v) = s
  BY <1>4, <1>22 DEF SQ!Sim!visible
<1>24. stat = Exec(p, s).stat
  <2>1. Exec(p, s).stat = IF FetchStat(p, s.pc) # SAOK THEN FetchStat(p, s.pc)
                          ELSE IF Misses(s, i) THEN SADR ELSE SAOK
    BY ExecIs DEF i
  <2>2. /\ j.icode \in SQ!Icode <=> i.icode \in Icode
        /\ j.icode = SQ!IHALT <=> i.icode = IHALT
    BY <1>6 DEF SQ!Icode, SQ!INOP, SQ!IHALT, SQ!IRRMOVQ, SQ!IIRMOVQ, SQ!IRMMOVQ, SQ!IMRMOVQ,
       SQ!IOPQ, SQ!IJXX, SQ!ICALL, SQ!IRET, SQ!IPUSHQ, SQ!IPOPQ, SQ!IIADDQ, Icode, INOP, IHALT,
       IRRMOVQ, IIRMOVQ, IRMMOVQ, IMRMOVQ, IOPQ, IJXX, ICALL, IRET, IPUSHQ, IPOPQ, IIADDQ
  <2>3. i.icode \notin Icode \/ i.icode = IHALT => ~Misses(s, i)
    BY DEF Misses, Reads, Writes, Icode, INOP, IHALT, IRRMOVQ, IIRMOVQ, IRMMOVQ, IMRMOVQ, IOPQ,
       IJXX, ICALL, IRET, IPUSHQ, IPOPQ, IIADDQ
  <2>4. i.icode = INOP => i.icode \in Icode /\ i.icode # IHALT /\ ~Misses(s, i)
    BY DEF Misses, Reads, Writes, Icode, INOP, IHALT, IRRMOVQ, IIRMOVQ, IRMMOVQ, IMRMOVQ, IOPQ,
       IJXX, ICALL, IRET, IPUSHQ, IPOPQ, IIADDQ
  <2>5. IHALT \in Icode
    BY DEF IHALT, Icode
  <2>6. stat = IF imem \/ dmem THEN SADR ELSE IF i.icode \notin Icode THEN SINS
               ELSE IF i.icode = IHALT THEN SHLT ELSE SAOK
    BY <1>3, <1>5, <1>18, <2>2, <2>3, <2>4, <2>5
    DEF SQ!gen_Stat, SQ!gen_instr_valid, SQ!SADR, SQ!SINS, SQ!SHLT, SQ!SAOK, SADR, SINS, SHLT, SAOK
  <2>7. imem <=> s.pc \notin DOMAIN p
    BY <1>3
  <2> HIDE DEF stat, imem
  <2> QED
    BY <1>5, <1>18, <2>1, <2>3, <2>4, <2>6, <2>7 DEF FetchStat, SADR, SINS, SHLT, SAOK
<1>25. ASSUME stat = SAOK
       PROVE  SQ!Sim!visible(SQ!Sim!update_state(v)) = Exec(p, s).state
  <2>1. Exec(p, s).state = Done(s, i)
    BY <1>24, <1>25, ExecRegisters DEF i
  <2>2. ~Misses(s, i)
    BY <1>24, <1>25, ExecIs DEF i, SAOK, SADR
  <2> DEFINE w == SQ!Sim!update_state(v)
  <2>3. /\ w.pc = pcin /\ w.cc = ccin
        /\ w.r = set_reg_val(set_reg_val(s.r, deste, vale), destm, valm)
        /\ w.m = IF wr /\ addr \in Address THEN [s.m EXCEPT ![addr] = data] ELSE s.m
    BY <1>22, Updated
  <2> HIDE DEF w
  <2>4. w.pc = Done(s, i).pc
    BY <1>21, <2>3 DEF Done
  <2>5. w.cc = Done(s, i).cc
    BY <1>16, <2>3 DEF Done
  <2>6. w.r = Done(s, i).r
    BY <1>8, <1>11, <1>15, <1>19, <2>3 DEF Done
  <2>7. w.m = Done(s, i).m
    BY <1>14, <1>17, <1>20, <2>2, <2>3 DEF Done, Misses
  <2>8. Done(s, i) = [pc |-> Done(s, i).pc, r |-> Done(s, i).r, m |-> Done(s, i).m,
                      cc |-> Done(s, i).cc]
    BY DEF Done
  <2> QED
    BY <2>1, <2>4, <2>5, <2>6, <2>7, <2>8 DEF SQ!Sim!visible, w
<1> HIDE DEF stat
<1> QED
  BY <1>2, <1>22, <1>23, <1>24, <1>25 DEF a

\* The processor of seq-std.c has the same control logic, but for iaddq.
LEMMA StdControl ==
  ASSUME NEW j
  PROVE  /\ SQ!Sim!update_state(j) = STD!Sim!update_state(j)
         /\ j.icode # IIADDQ =>
              /\ STD!gen_srcA(j) = SQ!gen_srcA(j) /\ STD!gen_srcB(j) = SQ!gen_srcB(j)
              /\ STD!gen_dstM(j) = SQ!gen_dstM(j)
              /\ \A c : STD!gen_dstE(j, c) = SQ!gen_dstE(j, c)
              /\ \A v : STD!gen_aluA(j, v) = SQ!gen_aluA(j, v)
              /\ \A v : STD!gen_aluB(j, v) = SQ!gen_aluB(j, v)
              /\ STD!gen_alufun(j) = SQ!gen_alufun(j)
              /\ STD!gen_set_cc(j) = SQ!gen_set_cc(j)
              /\ STD!gen_mem_read(j) = SQ!gen_mem_read(j)
              /\ STD!gen_mem_write(j) = SQ!gen_mem_write(j)
              /\ \A e, a : STD!gen_mem_addr(j, e, a) = SQ!gen_mem_addr(j, e, a)
              /\ \A a, v : STD!gen_mem_data(j, a, v) = SQ!gen_mem_data(j, a, v)
              /\ \A c, m, v : STD!gen_new_pc(j, c, m, v) = SQ!gen_new_pc(j, c, m, v)
              /\ \A x, y : STD!gen_Stat(j, x, y) = SQ!gen_Stat(j, x, y)
<1> USE DEF SQ!INOP, SQ!IHALT, SQ!IRRMOVQ, SQ!IIRMOVQ, SQ!IRMMOVQ, SQ!IMRMOVQ, SQ!IOPQ, SQ!IJXX,
            SQ!ICALL, SQ!IRET, SQ!IPUSHQ, SQ!IPOPQ, SQ!IIADDQ, SQ!INVALID
<1> USE DEF STD!INOP, STD!IHALT, STD!IRRMOVQ, STD!IIRMOVQ, STD!IRMMOVQ, STD!IMRMOVQ, STD!IOPQ,
            STD!IJXX, STD!ICALL, STD!IRET, STD!IPUSHQ, STD!IPOPQ, STD!IIADDQ, STD!INVALID, IIADDQ
<1>1. SQ!Sim!update_state(j) = STD!Sim!update_state(j)
  BY DEF SQ!Sim!update_state, STD!Sim!update_state, SQ!Sim!set_reg_val, STD!Sim!set_reg_val,
     SQ!Sim!Address, STD!Sim!Address
<1> SUFFICES ASSUME j.icode # IIADDQ
             PROVE  /\ STD!gen_srcA(j) = SQ!gen_srcA(j) /\ STD!gen_srcB(j) = SQ!gen_srcB(j)
                    /\ STD!gen_dstM(j) = SQ!gen_dstM(j)
                    /\ \A c : STD!gen_dstE(j, c) = SQ!gen_dstE(j, c)
                    /\ \A v : STD!gen_aluA(j, v) = SQ!gen_aluA(j, v)
                    /\ \A v : STD!gen_aluB(j, v) = SQ!gen_aluB(j, v)
                    /\ STD!gen_alufun(j) = SQ!gen_alufun(j)
                    /\ STD!gen_set_cc(j) = SQ!gen_set_cc(j)
                    /\ STD!gen_mem_read(j) = SQ!gen_mem_read(j)
                    /\ STD!gen_mem_write(j) = SQ!gen_mem_write(j)
                    /\ \A e, a : STD!gen_mem_addr(j, e, a) = SQ!gen_mem_addr(j, e, a)
                    /\ \A a, v : STD!gen_mem_data(j, a, v) = SQ!gen_mem_data(j, a, v)
                    /\ \A c, m, v : STD!gen_new_pc(j, c, m, v) = SQ!gen_new_pc(j, c, m, v)
                    /\ \A x, y : STD!gen_Stat(j, x, y) = SQ!gen_Stat(j, x, y)
  BY <1>1
<1>2. STD!gen_srcA(j) = SQ!gen_srcA(j) /\ STD!gen_srcB(j) = SQ!gen_srcB(j)
      /\ STD!gen_dstM(j) = SQ!gen_dstM(j)
  BY DEF STD!gen_srcA, SQ!gen_srcA, STD!gen_srcB, SQ!gen_srcB, STD!gen_dstM, SQ!gen_dstM
<1>3. \A c : STD!gen_dstE(j, c) = SQ!gen_dstE(j, c)
  BY DEF STD!gen_dstE, SQ!gen_dstE
<1>4. \A v : STD!gen_aluA(j, v) = SQ!gen_aluA(j, v)
  BY DEF STD!gen_aluA, SQ!gen_aluA
<1>5. \A v : STD!gen_aluB(j, v) = SQ!gen_aluB(j, v)
  BY DEF STD!gen_aluB, SQ!gen_aluB
<1>6. STD!gen_alufun(j) = SQ!gen_alufun(j)
  BY DEF STD!gen_alufun, SQ!gen_alufun, STD!A_ADD, SQ!A_ADD
<1>7. STD!gen_set_cc(j) = SQ!gen_set_cc(j) /\ STD!gen_mem_read(j) = SQ!gen_mem_read(j)
      /\ STD!gen_mem_write(j) = SQ!gen_mem_write(j)
  BY DEF STD!gen_set_cc, SQ!gen_set_cc, STD!gen_mem_read, SQ!gen_mem_read, STD!gen_mem_write,
     SQ!gen_mem_write
<1>8. \A e, a : STD!gen_mem_addr(j, e, a) = SQ!gen_mem_addr(j, e, a)
  BY DEF STD!gen_mem_addr, SQ!gen_mem_addr
<1>9. \A a, v : STD!gen_mem_data(j, a, v) = SQ!gen_mem_data(j, a, v)
  BY DEF STD!gen_mem_data, SQ!gen_mem_data
<1>10. \A c, m, v : STD!gen_new_pc(j, c, m, v) = SQ!gen_new_pc(j, c, m, v)
  BY DEF STD!gen_new_pc, SQ!gen_new_pc
<1>11. ASSUME NEW x, NEW y
       PROVE  STD!gen_Stat(j, x, y) = SQ!gen_Stat(j, x, y)
  <2>1. STD!gen_instr_valid(j) = SQ!gen_instr_valid(j)
    BY DEF STD!gen_instr_valid, SQ!gen_instr_valid, SQ!Icode, STD!Icode
  <2>2. STD!SADR = SQ!SADR /\ STD!SINS = SQ!SINS /\ STD!SHLT = SQ!SHLT /\ STD!SAOK = SQ!SAOK
    BY DEF STD!SADR, SQ!SADR, STD!SINS, SQ!SINS, STD!SHLT, SQ!SHLT, STD!SAOK, SQ!SAOK
  <2> QED
    BY <2>1, <2>2 DEF STD!gen_Stat, SQ!gen_Stat
<1> QED
  BY <1>2, <1>3, <1>4, <1>5, <1>6, <1>7, <1>8, <1>9, <1>10, <1>11

\* So it does the same, until it finds iaddq.
LEMMA StdStep ==
  ASSUME InstructionsAreWellFormed, NEW p \in Programs, NEW s \in State, Known(p, s),
         NEW q, DOMAIN q = Wires, SQ!Sim!visible(SQ!Sim!update_state(q)) = s
  PROVE  LET b == STD!Sim!sim_step(q, p)
         IN  IF s.pc \in DOMAIN p /\ p[s.pc].icode = IIADDQ
             THEN STD!Sim!visible(b.state) = s /\ b.stat = SINS
             ELSE b = SQ!Sim!sim_step(q, p)
<1> DEFINE i == Here(p, s)
           u == STD!Sim!update_state(q)
           j == STD!Sim!Fetched(u.pc, p)
           imem == u.pc \notin DOMAIN p
           valp == STD!Sim!Wrap(u.pc + 1)
           vala == STD!Sim!get_reg_val(u.r, STD!gen_srcA(j))
           valb == STD!Sim!get_reg_val(u.r, STD!gen_srcB(j))
           cond == STD!Sim!cond_holds(u.cc, j.ifun)
           inA1 == STD!gen_aluA(j, vala)
           inB1 == STD!gen_aluB(j, valb)
           vale == STD!Sim!compute_alu(STD!gen_alufun(j), inA1, inB1)
           addr == STD!gen_mem_addr(j, vale, vala)
           dmem == (STD!gen_mem_read(j) \/ STD!gen_mem_write(j)) /\ addr \notin STD!Sim!Address
           valm == IF STD!gen_mem_read(j) /\ ~dmem THEN u.m[addr] ELSE 0
           pcin == STD!gen_new_pc(j, cond, valm, valp)
           ccin == IF STD!gen_set_cc(j) THEN STD!Sim!compute_cc(STD!gen_alufun(j), inA1, inB1)
                   ELSE u.cc
           data == STD!gen_mem_data(j, vala, valp)
           wr == STD!gen_mem_write(j)
           deste == STD!gen_dstE(j, cond)
           destm == STD!gen_dstM(j)
           v == [u EXCEPT !.pc_in = pcin, !.cc_in = ccin, !.destE = deste, !.destM = destm,
                          !.vale = vale, !.valm = valm, !.mem_write = wr, !.mem_addr = addr,
                          !.mem_data = data]
           stat == STD!gen_Stat(j, imem, dmem)
           b == STD!Sim!sim_step(q, p)
<1>1. b = STD!Sim!After(v, stat)
  BY DEF STD!Sim!sim_step
<1>2. b.state = v /\ b.stat = stat
  BY <1>1 DEF STD!Sim!After
<1>3. /\ u = SQ!Sim!update_state(q) /\ DOMAIN u = Wires
      /\ u.pc = s.pc /\ u.r = s.r /\ u.m = s.m /\ u.cc = s.cc
  BY Updated, StdControl DEF SQ!Sim!visible
<1>4. s = [pc |-> s.pc, r |-> s.r, m |-> s.m, cc |-> s.cc] /\ s.pc \in Int
  BY DEF State
<1>5. /\ i \in Instruction
      /\ s.pc \notin DOMAIN p => i.icode = INOP
      /\ s.pc \in DOMAIN p => i = p[s.pc]
  BY HereIs
<1>6. CASE s.pc \in DOMAIN p /\ p[s.pc].icode = IIADDQ
  <2>1. j.icode = IIADDQ
    <3>1. u.pc \in DOMAIN p /\ p[u.pc] = i /\ i.icode = IIADDQ
      BY <1>3, <1>5, <1>6
    <3> HIDE DEF u, i
    <3>2. j = [i EXCEPT !.rA = IF STD!gen_need_regids(i.icode) THEN @ ELSE RNONE,
                        !.rB = IF STD!gen_need_regids(i.icode) THEN @ ELSE RNONE,
                        !.valC = IF STD!gen_need_valC(i.icode) THEN @ ELSE 0]
      BY <3>1 DEF STD!Sim!Fetched
    <3>3. DOMAIN i = {"icode", "ifun", "rA", "rB", "valC"}
      BY <1>5 DEF Instruction
    <3> HIDE DEF j
    <3> QED
      BY <3>1, <3>2, <3>3
  <2> HIDE DEF u, j
  <2>2. ~STD!gen_mem_read(j) /\ ~STD!gen_mem_write(j) /\ ~STD!gen_instr_valid(j)
    BY <2>1 DEF STD!gen_mem_read, STD!gen_mem_write, STD!gen_instr_valid, STD!Icode, IIADDQ,
       STD!INOP, STD!IHALT, STD!IRRMOVQ, STD!IIRMOVQ, STD!IRMMOVQ, STD!IMRMOVQ, STD!IOPQ,
       STD!IJXX, STD!ICALL, STD!IRET, STD!IPUSHQ, STD!IPOPQ, STD!IIADDQ
  <2>3. ~imem /\ ~dmem
    BY <1>3, <1>6, <2>2
  <2>4. j.icode # STD!IHALT
    BY <2>1 DEF IIADDQ, STD!IHALT
  <2> HIDE DEF imem, dmem
  <2>5. stat = SINS
    BY <2>2, <2>3, <2>4 DEF STD!gen_Stat, STD!SINS, SINS
  <2> HIDE DEF pcin, ccin, deste, destm, vale, valm, wr, addr, data
  <2>6. v.pc = s.pc /\ v.r = s.r /\ v.m = s.m /\ v.cc = s.cc
    BY <1>3 DEF Wires
  <2> HIDE DEF v, stat
  <2>7. STD!Sim!visible(v) = s
    BY <1>4, <2>6 DEF STD!Sim!visible
  <2> QED
    BY <1>2, <1>6, <2>5, <2>7
<1>7. CASE ~(s.pc \in DOMAIN p /\ p[s.pc].icode = IIADDQ)
  <2>1. i.icode # IIADDQ
    BY <1>5, <1>7 DEF INOP, IIADDQ
  <2>2. j = SQ!Sim!Fetched(s.pc, p)
    <3>1. CASE s.pc \notin DOMAIN p
      BY <1>3, <3>1 DEF STD!Sim!Fetched, SQ!Sim!Fetched, STD!Sim!Zeros, SQ!Sim!Zeros,
         STD!Sim!INOP, SQ!Sim!INOP, STD!Sim!IHALT, SQ!Sim!IHALT
    <3>2. CASE s.pc \in DOMAIN p
      <4>1. p[s.pc].icode # IIADDQ
        BY <1>7, <3>2
      <4> DEFINE c == p[s.pc].icode
      <4>2. STD!gen_need_regids(c) = SQ!gen_need_regids(c) /\ STD!gen_need_valC(c) = SQ!gen_need_valC(c)
        BY <4>1 DEF STD!gen_need_regids, SQ!gen_need_regids, STD!gen_need_valC, SQ!gen_need_valC,
           IIADDQ, SQ!IRRMOVQ, SQ!IIRMOVQ, SQ!IRMMOVQ, SQ!IMRMOVQ, SQ!IOPQ, SQ!IJXX, SQ!ICALL,
           SQ!IPUSHQ, SQ!IPOPQ, SQ!IIADDQ, STD!IRRMOVQ, STD!IIRMOVQ, STD!IRMMOVQ, STD!IMRMOVQ,
           STD!IOPQ, STD!IJXX, STD!ICALL, STD!IPUSHQ, STD!IPOPQ
      <4>3. u.pc = s.pc
        BY <1>3
      <4> HIDE DEF u
      <4> QED
        BY <3>2, <4>2, <4>3 DEF STD!Sim!Fetched, SQ!Sim!Fetched
    <3> QED
      BY <3>1, <3>2
  <2>3. j.icode # IIADDQ
    BY <1>5, <2>1, <2>2, SeqFetches
  <2> DEFINE vala2 == SQ!Sim!get_reg_val(u.r, SQ!gen_srcA(j))
             valb2 == SQ!Sim!get_reg_val(u.r, SQ!gen_srcB(j))
             valp2 == SQ!Sim!Wrap(u.pc + 1)
             cond2 == SQ!Sim!cond_holds(u.cc, j.ifun)
             inA2 == SQ!gen_aluA(j, vala2)
             inB2 == SQ!gen_aluB(j, valb2)
             vale2 == SQ!Sim!compute_alu(SQ!gen_alufun(j), inA2, inB2)
             addr2 == SQ!gen_mem_addr(j, vale2, vala2)
             dmem2 == (SQ!gen_mem_read(j) \/ SQ!gen_mem_write(j)) /\ addr2 \notin SQ!Sim!Address
             valm2 == IF SQ!gen_mem_read(j) /\ ~dmem2 THEN u.m[addr2] ELSE 0
             pcin2 == SQ!gen_new_pc(j, cond2, valm2, valp2)
             ccin2 == IF SQ!gen_set_cc(j) THEN SQ!Sim!compute_cc(SQ!gen_alufun(j), inA2, inB2)
                      ELSE u.cc
             data2 == SQ!gen_mem_data(j, vala2, valp2)
             v2 == [u EXCEPT !.pc_in = pcin2, !.cc_in = ccin2, !.destE = SQ!gen_dstE(j, cond2),
                             !.destM = SQ!gen_dstM(j), !.vale = vale2, !.valm = valm2,
                             !.mem_write = SQ!gen_mem_write(j), !.mem_addr = addr2,
                             !.mem_data = data2]
             stat2 == SQ!gen_Stat(j, imem, dmem2)
  <2>4. SQ!Sim!sim_step(q, p) = SQ!Sim!After(v2, stat2)
    <3>1. SQ!Sim!update_state(q) = u /\ SQ!Sim!Fetched(u.pc, p) = j
      BY <1>3, <2>2
    <3> HIDE DEF u, j
    <3> QED
      BY <3>1 DEF SQ!Sim!sim_step
  <2> HIDE DEF u, j
  <2>5. vala = vala2 /\ valb = valb2
    BY <2>3, StdControl DEF STD!Sim!get_reg_val, SQ!Sim!get_reg_val
  <2>6. valp = valp2 /\ cond = cond2
    BY DEF STD!Sim!Wrap, SQ!Sim!Wrap, STD!Sim!MinWord, SQ!Sim!MinWord, STD!Sim!cond_holds,
       SQ!Sim!cond_holds
  <2> HIDE DEF vala, vala2, valb, valb2, valp, valp2, cond, cond2
  <2>7. inA1 = inA2 /\ inB1 = inB2
    BY <2>3, <2>5, StdControl
  <2> HIDE DEF inA1, inA2, inB1, inB2
  <2>8. vale = vale2 /\ ccin = ccin2
    BY <2>3, <2>7, StdControl, SameArithmetic
  <2> HIDE DEF vale, vale2, ccin, ccin2
  <2>9. addr = addr2
    BY <2>3, <2>5, <2>8, StdControl
  <2> HIDE DEF addr, addr2
  <2>10. dmem = dmem2
    BY <2>3, <2>9, StdControl DEF SQ!Sim!Address, STD!Sim!Address
  <2>11. valm = valm2
    BY <2>3, <2>9, <2>10, StdControl
  <2> HIDE DEF dmem, dmem2, valm, valm2
  <2>12. pcin = pcin2 /\ data = data2
    BY <2>3, <2>5, <2>6, <2>11, StdControl
  <2>13. deste = SQ!gen_dstE(j, cond2) /\ destm = SQ!gen_dstM(j) /\ wr = SQ!gen_mem_write(j)
    BY <2>3, <2>6, StdControl
  <2>14. stat = stat2
    BY <2>3, <2>10, StdControl
  <2> HIDE DEF pcin, pcin2, data, data2, deste, destm, wr, stat, stat2
  <2>15. v = v2
    BY <2>8, <2>9, <2>11, <2>12, <2>13
  <2> HIDE DEF v, v2
  <2>16. b = SQ!Sim!sim_step(q, p)
    BY <1>1, <2>4, <2>14, <2>15 DEF SQ!Sim!After, STD!Sim!After
  <2> QED
    BY <1>7, <2>16
<1> QED
  BY <1>6, <1>7

\* SEQ, with the writes that it has left to do, shows the state of step_state.
SeqInv == DOMAIN seq = Wires /\ SQ!Sim!visible(SQ!Sim!update_state(seq)) = isa

\* SEQ begins with nothing left to write.
LEMMA SeqStarts ==
  ASSUME MachinesInit
  PROVE  SeqInv
<1>1. seq = SQ!Sim!sim_reset(InitialMemory) /\ isa = new_state([id \in Register |-> 0], InitialMemory)
  BY DEF MachinesInit, Init
<1>2. /\ DOMAIN seq = Wires
      /\ seq.pc_in = 0 /\ seq.cc_in = DEFAULT_CC /\ seq.r = [id \in Register |-> 0]
      /\ seq.m = InitialMemory /\ seq.destE = RNONE /\ seq.destM = RNONE /\ ~seq.mem_write
  BY <1>1 DEF SQ!Sim!sim_reset, Wires, SQ!Sim!DEFAULT_CC, DEFAULT_CC
<1> DEFINE u == SQ!Sim!update_state(seq)
<1>3. /\ u.pc = 0 /\ u.cc = DEFAULT_CC /\ u.r = [id \in Register |-> 0] /\ u.m = InitialMemory
  BY <1>2, Updated DEF set_reg_val
<1> HIDE DEF u
<1>4. SQ!Sim!visible(u) = isa
  BY <1>1, <1>3 DEF SQ!Sim!visible, new_state
<1> QED
  BY <1>2, <1>4 DEF SeqInv, u

\* What is in write back is known, and step_state executes it.
LEMMA InWriteBack ==
  ASSUME IInv, W.stat # SBUB
  PROVE  /\ isa \in State /\ prog \in Programs /\ Known(prog, isa)
         /\ W.stat = IsaStep.stat /\ IsaStep = Exec(prog, isa)
<1>1. InW(W, prog, isa) /\ isa \in State /\ prog \in Programs
  BY DEF IInv, Types, Follows
<1>2. IsaStep = Exec(prog, isa)
  BY DEF IsaStep, Exec
<1> QED
  BY <1>1, <1>2 DEF InW

\* Every cycle keeps that.
LEMMA SeqGoesOn ==
  ASSUME InstructionsAreWellFormed, IInv, SeqInv, MachinesCycle
  PROVE  SeqInv'
<1>1. /\ Stat = SAOK
      /\ isa' = IF W.stat = SBUB THEN isa ELSE IsaStep.state
      /\ seq' = IF W.stat = SBUB THEN seq ELSE SQ!Sim!sim_step(seq, prog).state
  BY DEF MachinesCycle, Cycle
<1>2. CASE W.stat = SBUB
  BY <1>1, <1>2 DEF SeqInv
<1>3. CASE W.stat # SBUB
  <2>1. /\ isa \in State /\ prog \in Programs /\ Known(prog, isa)
        /\ Exec(prog, isa).stat = SAOK /\ isa' = Exec(prog, isa).state
    BY <1>1, <1>3, InWriteBack DEF Stat
  <2>2. DOMAIN seq = Wires /\ SQ!Sim!visible(SQ!Sim!update_state(seq)) = isa
    BY DEF SeqInv
  <2> DEFINE a == SQ!Sim!sim_step(seq, prog)
  <2>3. /\ DOMAIN a.state = Wires /\ a.stat = Exec(prog, isa).stat
        /\ a.stat = SAOK => SQ!Sim!visible(SQ!Sim!update_state(a.state)) = Exec(prog, isa).state
    BY <2>1, <2>2, SeqStep
  <2>4. seq' = a.state
    BY <1>1, <1>3
  <2> HIDE DEF a
  <2>5. DOMAIN seq' = Wires /\ SQ!Sim!visible(SQ!Sim!update_state(seq')) = isa'
    BY <2>1, <2>3, <2>4
  <2> QED
    BY <2>5 DEF SeqInv
<1> QED
  BY <1>2, <1>3

\* The two invariants hold.
LEMMA SeqInvHolds ==
  ASSUME InstructionsAreWellFormed
  PROVE  MachinesSpec /\ []LoadsAreInTime => [](IInv /\ SeqInv)
<1>1. MachinesInit => SeqInv
  BY SeqStarts
<1>2. IInv /\ SeqInv /\ [MachinesCycle]_<<vars, seq>> => SeqInv'
  <2> SUFFICES ASSUME IInv, SeqInv, [MachinesCycle]_<<vars, seq>> PROVE SeqInv'
    OBVIOUS
  <2>1. CASE MachinesCycle
    BY <2>1, SeqGoesOn
  <2>2. CASE UNCHANGED <<vars, seq>>
    BY <2>2 DEF vars, SeqInv
  <2> QED
    BY <2>1, <2>2
<1> QED
  BY <1>1, <1>2, IInvHolds, PTL DEF MachinesSpec

\* The two sequential processors do with the instruction in write back what step_state does.
LEMMA SeqFromInvariant ==
  ASSUME InstructionsAreWellFormed, IInv, SeqInv
  PROVE  SeqLikeIsa
<1> SUFFICES ASSUME W.stat # SBUB
             PROVE  LET after == SQ!Sim!sim_step(seq, prog)
                        std == STD!Sim!sim_step(seq, prog)
                    IN  /\ SQ!Sim!visible(after.state) = isa /\ after.stat = IsaStep.stat
                        /\ IF isa.pc \in DOMAIN prog /\ prog[isa.pc].icode = IIADDQ
                           THEN STD!Sim!visible(std.state) = isa /\ std.stat = SINS
                           ELSE std = after
  BY DEF SeqLikeIsa
<1>1. /\ isa \in State /\ prog \in Programs /\ Known(prog, isa) /\ IsaStep = Exec(prog, isa)
  BY InWriteBack
<1>2. DOMAIN seq = Wires /\ SQ!Sim!visible(SQ!Sim!update_state(seq)) = isa
  BY DEF SeqInv
<1>3. LET after == SQ!Sim!sim_step(seq, prog)
      IN  SQ!Sim!visible(after.state) = isa /\ after.stat = IsaStep.stat
  BY <1>1, <1>2, SeqStep
<1>4. LET after == SQ!Sim!sim_step(seq, prog)
          std == STD!Sim!sim_step(seq, prog)
      IN  IF isa.pc \in DOMAIN prog /\ prog[isa.pc].icode = IIADDQ
          THEN STD!Sim!visible(std.state) = isa /\ std.stat = SINS
          ELSE std = after
  BY <1>1, <1>2, StdStep
<1> QED
  BY <1>3, <1>4

\* The processors of seq-full.hcl and seq-std.c (ssim.c) show after every instruction the
\* state of step_state and give it the same status, except that seq-std.c stops at iaddq.
THEOREM SequentialLikeIsa ==
  ASSUME InstructionsAreWellFormed
  PROVE  MachinesSpec /\ []LoadsAreInTime => []SeqLikeIsa
<1>1. IInv /\ SeqInv => SeqLikeIsa
  BY SeqFromInvariant
<1> QED
  BY <1>1, SeqInvHolds, PTL

-----------------------------------------------------------------------------
\* What the comparisons at the end find.
LEMMA CheckFromInvariant ==
  ASSUME InstructionsAreWellFormed, IInv, SeqInv
  PROVE  ISACheckIsTrue
<1> USE DEF SAOK, SBUB
<1> DEFINE last == IsaStep.state
           q == SQ!Sim!sim_step(seq, prog).state
           found == [regs |-> IF StackFault THEN {RRSP} ELSE {}, words |-> {}, codes |-> FALSE]
<1> SUFFICES ASSUME Stat # SAOK
             PROVE  run_tty_sim(reg, mem, cc) = found /\ SeqCheck = found
  BY DEF ISACheckIsTrue
<1>1. W.stat \in Stopped /\ W.stat # SBUB /\ W.stat # SAOK /\ M.stat = SBUB
  BY DEF Stat, IInv, Types, Stats, Drained
<1>2. /\ isa \in State /\ prog \in Programs /\ Known(prog, isa)
      /\ W.stat = IsaStep.stat /\ IsaStep = Exec(prog, isa)
  BY <1>1, InWriteBack
<1>3. sM = last /\ sE = last
  BY <1>1, <1>2 DEF sM, sE, Beyond
<1>4. reg = isa.r /\ mem = last.m /\ cc = last.cc
  BY <1>3 DEF IInv, Follows
<1>5. /\ last.m = isa.m /\ last.cc = isa.cc
      /\ diff_reg(last.r, isa.r) = IF StackFault THEN {RRSP} ELSE {}
  <2>1. Exec(prog, isa).stat # SAOK
    BY <1>1, <1>2
  <2> QED
    BY <1>2, <2>1, ExecFails DEF StackFault
<1>6. q.r = isa.r /\ q.m = isa.m /\ q.cc = isa.cc
  <2>1. SQ!Sim!visible(q) = isa
    <3>1. DOMAIN seq = Wires /\ SQ!Sim!visible(SQ!Sim!update_state(seq)) = isa
      BY DEF SeqInv
    <3> QED
      BY <1>2, <3>1, SeqStep
  <2> HIDE DEF q
  <2> QED
    BY <2>1 DEF SQ!Sim!visible
<1>7. SeqCheck = run_tty_sim(q.r, q.m, q.cc)
  BY DEF SeqCheck
<1> HIDE DEF q
<1>8. run_tty_sim(isa.r, isa.m, isa.cc) = found
  <2>1. diff_mem(last.m, isa.m) = {}
    BY <1>5 DEF diff_mem
  <2>2. (last.cc # isa.cc) = FALSE
    BY <1>5
  <2> QED
    BY <1>5, <2>1, <2>2 DEF run_tty_sim
<1> QED
  BY <1>4, <1>5, <1>6, <1>7, <1>8

\* When the program has ended, the comparisons of psim -t and ssim -t (psim.c:234-269) find
\* no difference, except in the stack pointer after a fault on the stack.
THEOREM CheckIsTrue ==
  ASSUME InstructionsAreWellFormed
  PROVE  MachinesSpec /\ []LoadsAreInTime => []ISACheckIsTrue
<1>1. IInv /\ SeqInv => ISACheckIsTrue
  BY CheckFromInvariant
<1> QED
  BY <1>1, SeqInvHolds, PTL

-----------------------------------------------------------------------------
(***************************************************************************)
(* The simulator of lab4.                                                  *)
(***************************************************************************)

\* Its copies of the operators of Y86 are these.
LEMMA Y64Copies ==
  /\ \A n : Y64!Wrap(n) = Wrap(n)
  /\ \A s, stat : Y64!After(s, stat) = After(s, stat)
  /\ \A r, id : Y64!get_reg_val(r, id) = get_reg_val(r, id)
  /\ \A r, id, v : Y64!set_reg_val(r, id, v) = set_reg_val(r, id, v)
  /\ \A op, a, b : Y64!y64_alu(op, a, b) = compute_alu(op, a, b)
  /\ \A a : Y64!InMemory(a) <=> a \in Address
<1>1. \A n : Y64!Wrap(n) = Wrap(n)
  BY DEF Y64!Wrap, Wrap, Y64!MinWord, MinWord
<1>2. \A s, stat : Y64!After(s, stat) = After(s, stat)
  BY DEF Y64!After, After
<1>3. \A r, id : Y64!get_reg_val(r, id) = get_reg_val(r, id)
  BY DEF Y64!get_reg_val, get_reg_val
<1>4. \A r, id, v : Y64!set_reg_val(r, id, v) = set_reg_val(r, id, v)
  BY DEF Y64!set_reg_val, set_reg_val
<1>5. \A op, a, b : Y64!y64_alu(op, a, b) = compute_alu(op, a, b)
  BY DEF Y64!y64_alu, Y64!compute_alu, Y64!A_ADD, Y64!A_SUB, Y64!A_AND, Y64!A_XOR,
     Y64!Bitwise2, Y64!BitOf, Y64!Wrap, Y64!MinWord,
     compute_alu, A_ADD, A_SUB, A_AND, A_XOR, Bitwise2, BitOf, Wrap, MinWord
<1>6. \A a : Y64!InMemory(a) <=> a \in Address
  BY DEF Y64!InMemory, Y64!Address, Address
<1> QED
  BY <1>1, <1>2, <1>3, <1>4, <1>5, <1>6

\* Where the overflow flags of a sum in isa.c and in y64sim.c are not the same.
LEMMA SignsOfSum ==
  ASSUME NEW a \in Word, NEW b \in Word
  PROVE  LET val == Wrap(a + b)
             isaOf == (a < 0 <=> b < 0) /\ ~(val < 0 <=> a < 0)
             y64Of == (a > 0 <=> b > 0) /\ ~(a > 0 <=> val > 0)
             differ == a = MinWord /\ b = MinWord
         IN  (differ => isaOf) /\ (y64Of <=> isaOf /\ ~differ)
<1> DEFINE y == 2 ^ Bits
           h == 2 ^ (Bits - 1)
           n == a + b
           val == Wrap(n)
<1>1. y \in Nat /\ h \in Nat /\ y = 2 * h /\ h >= 2 /\ Word = -h .. h - 1 /\ MinWord = -h
  BY WordSize
<1>2. a \in Int /\ b \in Int /\ n \in Int
  BY <1>1
<1> HIDE DEF n
<1>3. /\ n \in Word => val = n
      /\ n + y \in Word => val = n + y
      /\ n - y \in Word => val = n - y
  BY <1>2, WrapNear
<1> HIDE DEF y, h, val
<1>4. /\ a = MinWord /\ b = MinWord => (a < 0 <=> b < 0) /\ ~(val < 0 <=> a < 0)
      /\ (a > 0 <=> b > 0) /\ ~(a > 0 <=> val > 0)
           <=> (a < 0 <=> b < 0) /\ ~(val < 0 <=> a < 0) /\ ~(a = MinWord /\ b = MinWord)
  <2>1. n = a + b
    BY DEF n
  <2>2. CASE n \in Word
    BY <1>1, <1>2, <1>3, <2>1, <2>2
  <2>3. CASE n + y \in Word
    BY <1>1, <1>2, <1>3, <2>1, <2>3
  <2>4. CASE n - y \in Word
    BY <1>1, <1>2, <1>3, <2>1, <2>4
  <2>5. n \in Word \/ n + y \in Word \/ n - y \in Word
    BY <1>1, <1>2, <2>1
  <2> QED
    BY <2>2, <2>3, <2>4, <2>5
<1> QED
  BY <1>4 DEF val, n

\* The same of a difference.
LEMMA SignsOfDifference ==
  ASSUME NEW a \in Word, NEW b \in Word
  PROVE  LET val == Wrap(b - a)
             isaOf == (a > 0 <=> b < 0) /\ ~(val < 0 <=> b < 0)
             y64Of == (b > 0 <=> a < 0) /\ ~(b > 0 <=> val > 0)
             differ == a = MinWord /\ b = 0
         IN  (differ => isaOf) /\ (y64Of <=> isaOf /\ ~differ)
<1> DEFINE y == 2 ^ Bits
           h == 2 ^ (Bits - 1)
           n == b - a
           val == Wrap(n)
<1>1. y \in Nat /\ h \in Nat /\ y = 2 * h /\ h >= 2 /\ Word = -h .. h - 1 /\ MinWord = -h
  BY WordSize
<1>2. a \in Int /\ b \in Int /\ n \in Int
  BY <1>1
<1> HIDE DEF n
<1>3. /\ n \in Word => val = n
      /\ n + y \in Word => val = n + y
      /\ n - y \in Word => val = n - y
  BY <1>2, WrapNear
<1> HIDE DEF y, h, val
<1>4. /\ a = MinWord /\ b = 0 => (a > 0 <=> b < 0) /\ ~(val < 0 <=> b < 0)
      /\ (b > 0 <=> a < 0) /\ ~(b > 0 <=> val > 0)
           <=> (a > 0 <=> b < 0) /\ ~(val < 0 <=> b < 0) /\ ~(a = MinWord /\ b = 0)
  <2>1. n = b - a
    BY DEF n
  <2>2. CASE n \in Word
    BY <1>1, <1>2, <1>3, <2>1, <2>2
  <2>3. CASE n + y \in Word
    BY <1>1, <1>2, <1>3, <2>1, <2>3
  <2>4. CASE n - y \in Word
    BY <1>1, <1>2, <1>3, <2>1, <2>4
  <2>5. n \in Word \/ n + y \in Word \/ n - y \in Word
    BY <1>1, <1>2, <2>1
  <2> QED
    BY <2>2, <2>3, <2>4, <2>5
<1> QED
  BY <1>4 DEF val, n

\* The condition codes of nexti and of step_state after an instruction.
LEMMA Y64Codes ==
  ASSUME NEW a \in Word, NEW b \in Word, NEW op
  PROVE  Y64!y64_cc(op, a, b, compute_alu(op, a, b)) = compute_cc(op, a, b)
           <=> ~(\/ op = A_ADD /\ a = MinWord /\ b = MinWord
                 \/ op = A_SUB /\ a = MinWord /\ b = 0)
<1> DEFINE val == compute_alu(op, a, b)
           c == Y64!y64_cc(op, a, b, val)
           d == compute_cc(op, a, b)
           y64 == \/ op = A_ADD /\ (a > 0 <=> b > 0) /\ ~(a > 0 <=> val > 0)
                  \/ op = A_SUB /\ (b > 0 <=> a < 0) /\ ~(b > 0 <=> val > 0)
           isa1 == \/ op = A_ADD /\ (a < 0 <=> b < 0) /\ ~(val < 0 <=> a < 0)
                   \/ op = A_SUB /\ (a > 0 <=> b < 0) /\ ~(val < 0 <=> b < 0)
           differ == \/ op = A_ADD /\ a = MinWord /\ b = MinWord
                     \/ op = A_SUB /\ a = MinWord /\ b = 0
<1>1. c = [zf |-> val = 0, sf |-> val < 0, of |-> y64]
  BY DEF Y64!y64_cc, Y64!A_ADD, Y64!A_SUB, A_ADD, A_SUB
<1>2. d = [zf |-> val = 0, sf |-> val < 0, of |-> isa1]
  BY DEF compute_cc
<1>0. y64 \in BOOLEAN /\ isa1 \in BOOLEAN
  OBVIOUS
<1>3. CASE op = A_ADD
  <2>1. op # A_SUB /\ val = Wrap(a + b)
    BY <1>3 DEF compute_alu, A_ADD, A_SUB, A_AND, A_XOR
  <2> HIDE DEF val, c, d
  <2>2. (differ => isa1) /\ (y64 <=> isa1 /\ ~differ)
    BY <1>3, <2>1, SignsOfSum
  <2> HIDE DEF y64, isa1, differ
  <2>3. c = d <=> y64 = isa1
    BY <1>1, <1>2
  <2>4. y64 = isa1 <=> (y64 <=> isa1)
    BY <1>0
  <2> QED
    BY <2>2, <2>3, <2>4 DEF c, d, val, differ
<1>4. CASE op = A_SUB
  <2>1. op # A_ADD /\ val = Wrap(b - a)
    BY <1>4 DEF compute_alu, A_ADD, A_SUB, A_AND, A_XOR
  <2> HIDE DEF val, c, d
  <2>2. (differ => isa1) /\ (y64 <=> isa1 /\ ~differ)
    BY <1>4, <2>1, SignsOfDifference
  <2> HIDE DEF y64, isa1, differ
  <2>3. c = d <=> y64 = isa1
    BY <1>1, <1>2
  <2>4. y64 = isa1 <=> (y64 <=> isa1)
    BY <1>0
  <2> QED
    BY <2>2, <2>3, <2>4 DEF c, d, val, differ
<1>5. CASE op # A_ADD /\ op # A_SUB
  <2>1. ~y64 /\ ~isa1 /\ ~differ
    BY <1>5
  <2> HIDE DEF val, c, d, y64, isa1
  <2>2. y64 = isa1
    BY <1>0, <2>1
  <2>3. c = d
    BY <1>1, <1>2, <2>2
  <2> QED
    BY <2>1, <2>3 DEF c, d, val
<1> QED
  BY <1>3, <1>4, <1>5

\* The instructions with which nexti does something else than step_state.
Differs(s, i) ==
  LET a == get_reg_val(s.r, i.rA)
      b == get_reg_val(s.r, i.rB)
  IN  \/ i.icode = IIADDQ
      \/ i.icode = IOPQ /\ i.ifun = A_ADD /\ a = MinWord /\ b = MinWord
      \/ i.icode = IOPQ /\ i.ifun = A_SUB /\ a = MinWord /\ b = 0
      \/ i.icode = IRET /\ s.r[RRSP] \notin Address

\* The operands and the check of nexti.
LEMMA Y64Decodes ==
  ASSUME NEW i \in Instruction, WellFormed(i)
  PROVE  LET d == Y64!Decoded(i)
         IN  /\ d.icode = i.icode /\ d.ifun = i.ifun
             /\ i.icode \in {IRRMOVQ, IIRMOVQ, IRMMOVQ, IMRMOVQ, IOPQ, IPUSHQ, IPOPQ}
                  => d.rA = i.rA /\ d.rB = i.rB
             /\ i.icode \in {IIRMOVQ, IRMMOVQ, IMRMOVQ, IJXX, ICALL} => d.valC = i.valC
             /\ Y64!check_code_fun_valid(d) <=> i.icode \in Icode \ {IIADDQ}
<1> USE DEF Y64!INOP, Y64!IHALT, Y64!IRRMOVQ, Y64!IIRMOVQ, Y64!IRMMOVQ, Y64!IMRMOVQ, Y64!IOPQ,
            Y64!IJXX, Y64!ICALL, Y64!IRET, Y64!IPUSHQ, Y64!IPOPQ, Y64!IIADDQ
<1> USE DEF INOP, IHALT, IRRMOVQ, IIRMOVQ, IRMMOVQ, IMRMOVQ, IOPQ, IJXX, ICALL, IRET, IPUSHQ,
            IPOPQ, IIADDQ, INVALID
<1> DEFINE d == Y64!Decoded(i)
           regs == Y64!instruction_need_reg(i.icode)
           imm == Y64!instruction_need_imm(i.icode)
<1>1. DOMAIN i = {"icode", "ifun", "rA", "rB", "valC"}
  BY DEF Instruction
<1>2. d = [i EXCEPT !.rA = IF regs THEN @ ELSE RNONE, !.rB = IF regs THEN @ ELSE RNONE,
                    !.valC = IF imm THEN @ ELSE 0]
  BY DEF Y64!Decoded
<1>3. /\ regs <=> i.icode \in {IRRMOVQ, IIRMOVQ, IRMMOVQ, IMRMOVQ, IOPQ, IPUSHQ, IPOPQ}
      /\ imm <=> i.icode \in {IIRMOVQ, IRMMOVQ, IMRMOVQ, IJXX, ICALL}
  BY DEF Y64!instruction_need_reg, Y64!instruction_need_imm
<1> HIDE DEF d, regs, imm
<1>4. /\ d.icode = i.icode /\ d.ifun = i.ifun
      /\ regs => d.rA = i.rA /\ d.rB = i.rB
      /\ imm => d.valC = i.valC
  BY <1>1, <1>2
<1>5. Y64!check_code_fun_valid(d) <=> i.icode \in Icode \ {IIADDQ}
  <2>1. i.icode \in Y64!known_icode <=> i.icode \in Icode \ {IIADDQ}
    BY DEF Y64!known_icode, Y64!Icode, Icode
  <2>2. i.icode \in Icode \ {IIADDQ} => i.ifun \in Y64!functions(i.icode)
    <3>1. i.ifun \in Ifun /\ Y64!Ifun = Ifun
      BY DEF Instruction, Y64!Ifun, Ifun
    <3>2. i.icode = IOPQ => i.ifun \in Y64!A_ADD .. Y64!A_XOR
      BY DEF WellFormed, A_ADD, A_XOR, Y64!A_ADD, Y64!A_XOR
    <3>3. i.icode \in Icode \ {IOPQ, IRRMOVQ, IJXX} => i.ifun = 0
      BY DEF WellFormed
    <3> HIDE DEF Icode
    <3> QED
      BY <3>1, <3>2, <3>3 DEF Y64!functions
  <2> QED
    BY <1>4, <2>1, <2>2 DEF Y64!check_code_fun_valid
<1> QED
  BY <1>3, <1>4, <1>5 DEF d

\* The conditions are the same.
LEMMA Y64Conditions ==
  ASSUME NEW c \in CC, NEW f \in Ifun
  PROVE  Y64!cond_doit(c, f) <=> cond_holds(c, f)
<1>1. c.sf \in BOOLEAN /\ c.of \in BOOLEAN /\ c.zf \in BOOLEAN /\ f \in 0 .. 6
  BY DEF CC, Ifun
<1>2. (c.sf # c.of) <=> ~(c.sf = c.of)
  OBVIOUS
<1>3. CASE f = 0
  BY <1>3 DEF Y64!cond_doit, cond_holds
<1>4. CASE f = 1
  <2>1. Y64!cond_doit(c, 1) <=> (c.sf # c.of \/ c.zf)
    BY <1>1 DEF Y64!cond_doit
  <2>2. cond_holds(c, 1) <=> (c.sf # c.of \/ c.zf)
    BY <1>1 DEF cond_holds
  <2> QED
    BY <1>4, <2>1, <2>2
<1>5. CASE f = 2
  BY <1>1, <1>5 DEF Y64!cond_doit, cond_holds
<1>6. CASE f = 3
  BY <1>1, <1>6 DEF Y64!cond_doit, cond_holds
<1>7. CASE f = 4
  BY <1>1, <1>7 DEF Y64!cond_doit, cond_holds
<1>8. CASE f = 5
  BY <1>1, <1>8 DEF Y64!cond_doit, cond_holds
<1>9. CASE f = 6
  BY <1>1, <1>9 DEF Y64!cond_doit, cond_holds
<1> QED
  BY <1>1, <1>3, <1>4, <1>5, <1>6, <1>7, <1>8, <1>9

-----------------------------------------------------------------------------
\* nexti, by the code of the instruction.
LEMMA Y64Step ==
  ASSUME NEW s \in State, NEW p, s.pc \in DOMAIN p, NEW i \in Instruction, i = p[s.pc],
         WellFormed(i), Wrap(s.pc + 1) = s.pc + 1
  PROVE  Y64!nexti(s, p) = step_state(s, i) <=> ~Differs(s, i)
<1> USE DEF INOP, IHALT, IRRMOVQ, IIRMOVQ, IRMMOVQ, IMRMOVQ, IOPQ, IJXX, ICALL, IRET,
            IPUSHQ, IPOPQ, IIADDQ, INVALID
<1> DEFINE d == Y64!Decoded(i)
           n == Y64!nexti(s, p)
           up == Wrap(s.pc + 1)
           a == get_reg_val(s.r, d.rA)
           b == get_reg_val(s.r, d.rB)
           sp == s.r[RRSP]
           addr == Wrap(b + d.valC)
           val == compute_alu(d.ifun, a, b)
           go(pc) == After([s EXCEPT !.pc = pc], SAOK)
           down == [s EXCEPT !.r[RRSP] = Wrap(sp - 1)]
           push(v, pc) == IF Wrap(sp - 1) \in Address
                          THEN After([down EXCEPT !.m[Wrap(sp - 1)] = v, !.pc = pc], SAOK)
                          ELSE After(down, SADR)
           higher == [s EXCEPT !.r[RRSP] = Wrap(sp + 1)]
<1>1. /\ d.icode = i.icode /\ d.ifun = i.ifun
      /\ i.icode \in {IRRMOVQ, IIRMOVQ, IRMMOVQ, IMRMOVQ, IOPQ, IPUSHQ, IPOPQ}
           => d.rA = i.rA /\ d.rB = i.rB
      /\ i.icode \in {IIRMOVQ, IRMMOVQ, IMRMOVQ, IJXX, ICALL} => d.valC = i.valC
      /\ Y64!check_code_fun_valid(d) <=> i.icode \in Icode \ {IIADDQ}
  BY Y64Decodes
<1> USE DEF Y64!INOP, Y64!IHALT, Y64!IRRMOVQ, Y64!IIRMOVQ, Y64!IRMMOVQ, Y64!IMRMOVQ, Y64!IOPQ,
     Y64!IJXX, Y64!ICALL, Y64!IRET, Y64!IPUSHQ, Y64!IPOPQ
<1> USE DEF Y64!SAOK, Y64!SADR, Y64!SINS, Y64!SHLT, SAOK, SADR, SINS, SHLT
<1> HIDE DEF d
<1>0. /\ s.pc \in Int /\ s.r \in [Register -> Word] /\ s.m \in [Address -> Word] /\ s.cc \in CC
      /\ i.rB \in Register \cup {RNONE} /\ i.valC \in Int /\ i.ifun \in Ifun /\ i.icode \in Icode \cup {INVALID}
      /\ RRSP \in Register /\ RNONE \notin Register /\ Word \subseteq Int
      /\ \A id \in Register \cup {RNONE} : get_reg_val(s.r, id) \in Word
  BY RegisterAssumption, WordSize DEF State, Instruction, get_reg_val
<1>2. /\ argA(s, i) \in Word /\ argB(s, i) \in Word /\ s.r[RRSP] \in Word
      /\ argB(s, i) \in Int /\ s.r[RRSP] \in Int
  BY <1>0 DEF argA, argB, Instruction
<1>3. CASE i.icode \in {INOP, IHALT} \/ i.icode \notin Icode
  <2>1. CASE i.icode = INOP
    <3>1. n = go(up)
      BY <1>1, <2>1, Y64Copies DEF Y64!nexti, d, Icode
    <3> QED
      BY <2>1, <3>1 DEF step_state, step_nop, next_pc, Differs
  <2>2. CASE i.icode = IHALT
    <3>1. n = After(s, SHLT)
      BY <1>1, <2>2, Y64Copies DEF Y64!nexti, d, Icode
    <3> QED
      BY <2>2, <3>1 DEF step_state, Differs
  <2>3. CASE i.icode \notin Icode
    <3>1. i.icode = INVALID
      BY <1>0, <2>3
    <3>2. ~Y64!check_code_fun_valid(d) /\ d.icode = INVALID
      BY <1>1, <2>3, <3>1
    <3>3. n = After(s, SINS)
      BY <3>2, Y64Copies DEF Y64!nexti, d
    <3> QED
      BY <3>1, <3>3 DEF step_state, Differs
  <2> QED
    BY <1>3, <2>1, <2>2, <2>3
<1>4. CASE i.icode \in {IRRMOVQ, IIRMOVQ}
  <2>1. CASE i.icode = IRRMOVQ
    <3>1. n = After([s EXCEPT !.r = IF Y64!cond_doit(s.cc, d.ifun)
                                    THEN set_reg_val(@, d.rB, a) ELSE @, !.pc = up], SAOK)
      BY <1>1, <2>1, Y64Copies DEF Y64!nexti, d, Icode
    <3>2. d.rB = i.rB /\ a = argA(s, i) /\ i.rA \in Register /\ i.rB \in Register
      BY <1>1, <2>1 DEF WellFormed, argA
    <3>3. Y64!cond_doit(s.cc, d.ifun) <=> cond_holds(s.cc, i.ifun)
      BY <1>0, <1>1, Y64Conditions
    <3> HIDE DEF a, n
    <3> QED
      BY <2>1, <3>1, <3>2, <3>3 DEF step_state, step_rrmovq, reg_valid, next_pc, Differs, n
  <2>2. CASE i.icode = IIRMOVQ
    <3>1. n = After([s EXCEPT !.r = set_reg_val(@, d.rB, d.valC), !.pc = up], SAOK)
      BY <1>1, <2>2, Y64Copies DEF Y64!nexti, d, Icode
    <3>2. d.rB = i.rB /\ d.valC = i.valC /\ i.rB \in Register
      BY <1>1, <2>2 DEF WellFormed
    <3> QED
      BY <2>2, <3>1, <3>2 DEF step_state, step_irmovq, reg_valid, next_pc, Differs
  <2> QED
    BY <1>4, <2>1, <2>2
<1>5. CASE i.icode \in {IRMMOVQ, IMRMOVQ}
  <2>1. /\ d.rA = i.rA /\ i.rA \in Register /\ a = argA(s, i)
        /\ addr = Wrap(i.valC + argB(s, i))
    <3>1. d.rA = i.rA /\ d.rB = i.rB /\ d.valC = i.valC /\ i.rA \in Register
      BY <1>1, <1>5 DEF WellFormed
    <3>2. a = argA(s, i) /\ b = argB(s, i)
      BY <3>1 DEF argA, argB
    <3>3. argB(s, i) + i.valC = i.valC + argB(s, i)
      BY <1>0, <1>2
    <3>4. addr = Wrap(i.valC + argB(s, i))
      <4> HIDE DEF b
      <4> QED
        BY <3>1, <3>2, <3>3
    <3> QED
      BY <3>1, <3>2, <3>4
  <2>2. CASE i.icode = IRMMOVQ
    <3>1. n = IF addr \in Address THEN After([s EXCEPT !.m[addr] = a, !.pc = up], SAOK)
                                  ELSE After(s, SADR)
      BY <1>1, <2>2, Y64Copies DEF Y64!nexti, d, Icode
    <3> HIDE DEF a, n, addr
    <3> QED
      BY <2>1, <2>2, <3>1 DEF step_state, step_rmmovq, reg_valid, Store, next_pc, Differs, n
  <2>3. CASE i.icode = IMRMOVQ
    <3>1. n = IF addr \in Address
              THEN After([s EXCEPT !.r = set_reg_val(@, d.rA, s.m[addr]), !.pc = up], SAOK)
              ELSE After(s, SADR)
      BY <1>1, <2>3, Y64Copies DEF Y64!nexti, d, Icode
    <3> HIDE DEF a, n, addr
    <3> QED
      BY <2>1, <2>3, <3>1 DEF step_state, step_mrmovq, reg_valid, Load, Differs, n
  <2> QED
    BY <1>5, <2>2, <2>3
<1>6. CASE i.icode = IOPQ
  <2> DEFINE op == i.ifun
             x == argA(s, i)
             y == argB(s, i)
             c == Y64!y64_cc(op, x, y, compute_alu(op, x, y))
             r1 == set_reg_val(s.r, i.rB, compute_alu(op, x, y))
  <2>1. n = After([s EXCEPT !.cc = Y64!y64_cc(d.ifun, a, b, val),
                            !.r = set_reg_val(@, d.rB, val), !.pc = up], SAOK)
    BY <1>1, <1>6, Y64Copies DEF Y64!nexti, d, Icode
  <2>2. d.ifun = op /\ d.rB = i.rB /\ a = x /\ b = y
    BY <1>1, <1>6 DEF argA, argB
  <2>3. n = After([s EXCEPT !.cc = c, !.r = r1, !.pc = up], SAOK)
    <3> HIDE DEF a, b, n
    <3> QED
      BY <2>1, <2>2
  <2>4. step_state(s, i) = After([s EXCEPT !.r = r1, !.cc = compute_cc(op, x, y), !.pc = up], SAOK)
    BY <1>6 DEF step_state, step_alu, Alu
  <2>5. n = step_state(s, i) <=> c = compute_cc(op, x, y)
    <3> HIDE DEF n, c, r1, up
    <3>1. s = At(s.pc, s.r, s.m, s.cc)
      BY DEF State, At
    <3>2. [s EXCEPT !.cc = c, !.r = r1, !.pc = up] = At(up, r1, s.m, c)
      <4>1. [s EXCEPT !.cc = c] = At(s.pc, s.r, s.m, c)
        BY <3>1 DEF At
      <4>2. [At(s.pc, s.r, s.m, c) EXCEPT !.r = r1] = At(s.pc, r1, s.m, c)
        BY DEF At
      <4>3. [At(s.pc, r1, s.m, c) EXCEPT !.pc = up] = At(up, r1, s.m, c)
        BY DEF At
      <4>4. [s EXCEPT !.cc = c, !.r = r1, !.pc = up]
              = [[[s EXCEPT !.cc = c] EXCEPT !.r = r1] EXCEPT !.pc = up]
        OBVIOUS
      <4> QED
        BY <4>1, <4>2, <4>3, <4>4
    <3> DEFINE c2 == compute_cc(op, x, y)
    <3> HIDE DEF c2
    <3>3. [s EXCEPT !.r = r1, !.cc = c2, !.pc = up] = At(up, r1, s.m, c2)
      <4>1. [s EXCEPT !.r = r1] = At(s.pc, r1, s.m, s.cc)
        BY <3>1 DEF At
      <4>2. [At(s.pc, r1, s.m, s.cc) EXCEPT !.cc = c2] = At(s.pc, r1, s.m, c2)
        BY DEF At
      <4>3. [At(s.pc, r1, s.m, c2) EXCEPT !.pc = up] = At(up, r1, s.m, c2)
        BY DEF At
      <4>4. [s EXCEPT !.r = r1, !.cc = c2, !.pc = up]
              = [[[s EXCEPT !.r = r1] EXCEPT !.cc = c2] EXCEPT !.pc = up]
        OBVIOUS
      <4> QED
        BY <4>1, <4>2, <4>3, <4>4
    <3>4. n = After(At(up, r1, s.m, c), SAOK)
      BY <2>3, <3>2
    <3>5. step_state(s, i) = After(At(up, r1, s.m, c2), SAOK)
      BY <2>4, <3>3 DEF c2
    <3>6. \A v, w : After(At(up, r1, s.m, v), SAOK) = After(At(up, r1, s.m, w), SAOK) => v = w
      BY DEF After, At
    <3> QED
      BY <3>4, <3>5, <3>6 DEF c2
  <2>6. c = compute_cc(op, x, y) <=> ~(\/ op = A_ADD /\ x = MinWord /\ y = MinWord
                                       \/ op = A_SUB /\ x = MinWord /\ y = 0)
    BY <1>2, Y64Codes
  <2> HIDE DEF c
  <2> QED
    BY <1>6, <2>5, <2>6 DEF Differs, argA, argB
<1>7. CASE i.icode = IIADDQ
  <2>1. n = After(s, SINS)
    BY <1>1, <1>7, Y64Copies DEF Y64!nexti, d, Icode
  <2>2. i.rB \in Register
    BY <1>7 DEF WellFormed
  <2>3. step_state(s, i).stat = SAOK
    BY <1>7, <2>2 DEF step_state, step_iaddq, reg_valid, Alu, After
  <2>4. n.stat = SINS
    BY <2>1 DEF After
  <2> HIDE DEF n
  <2> QED
    BY <1>7, <2>3, <2>4 DEF Differs, n
<1>8. CASE i.icode = IJXX
  <2>1. n = go(IF Y64!cond_doit(s.cc, d.ifun) THEN d.valC ELSE up)
    BY <1>1, <1>8, Y64Copies DEF Y64!nexti, d, Icode
  <2>2. Y64!cond_doit(s.cc, d.ifun) <=> cond_holds(s.cc, i.ifun)
    BY <1>0, <1>1, Y64Conditions
  <2>3. d.valC = i.valC
    BY <1>1, <1>8
  <2> HIDE DEF n
  <2> QED
    BY <1>8, <2>1, <2>2, <2>3 DEF step_state, step_jmp, next_pc, Differs, n
<1>9. CASE i.icode \in {ICALL, IPUSHQ}
  <2>1. Moved(s, -1) = down
    <3>1. s.r[RRSP] + (-1) = s.r[RRSP] - 1
      BY <1>0, <1>2
    <3> QED
      BY <3>1 DEF Moved
  <2>2. ASSUME NEW v, NEW pc
        PROVE  Store(Moved(s, -1), Wrap(sp - 1), v, pc) = push(v, pc)
    <3> HIDE DEF down
    <3> QED
      BY <2>1 DEF Store
  <2>3. CASE i.icode = ICALL
    <3>1. n = push(up, d.valC)
      BY <1>1, <2>3 DEF Y64!nexti, Y64!InMemory, Y64!Address, Address, Y64!Wrap, Wrap, Y64!MinWord, MinWord,
         Y64!After, After, Y64!get_reg_val, get_reg_val, d, Icode
    <3>2. d.valC = i.valC
      BY <1>1, <2>3
    <3> HIDE DEF push, n
    <3> QED
      BY <2>2, <2>3, <3>1, <3>2 DEF step_state, step_call, next_pc, Differs, n
  <2>4. CASE i.icode = IPUSHQ
    <3>1. n = push(a, up)
      BY <1>1, <2>4 DEF Y64!nexti, Y64!InMemory, Y64!Address, Address, Y64!Wrap, Wrap, Y64!MinWord, MinWord,
         Y64!After, After, Y64!get_reg_val, get_reg_val, d, Icode
    <3>2. a = argA(s, i) /\ i.rA \in Register
      BY <1>1, <2>4 DEF argA, WellFormed
    <3> HIDE DEF push, n, a
    <3> QED
      BY <2>2, <2>4, <3>1, <3>2 DEF step_state, step_pushq, reg_valid, next_pc, Differs, n
  <2> QED
    BY <1>9, <2>3, <2>4
<1>10. Moved(s, 1) = higher
  BY DEF Moved
<1>11. CASE i.icode = IPOPQ
  <2>1. n = Y64!popq(s, d.rA)
    BY <1>1, <1>11, Y64Copies DEF Y64!nexti, d, Icode
  <2>2. d.rA = i.rA /\ i.rA \in Register
    BY <1>1, <1>11 DEF WellFormed
  <2>3. Y64!popq(s, i.rA) = IF sp \in Address
          THEN After([higher EXCEPT !.r = set_reg_val(@, i.rA, s.m[sp]), !.pc = @ + 1], SAOK)
          ELSE After(higher, SADR)
    BY DEF Y64!popq, Y64!InMemory, Y64!Address, Address, Y64!Wrap, Wrap, Y64!MinWord, MinWord,
       Y64!After, After, Y64!set_reg_val, set_reg_val
  <2>4. higher.m = s.m
    OBVIOUS
  <2> HIDE DEF n, higher
  <2> QED
    BY <1>10, <1>11, <2>1, <2>2, <2>3, <2>4 DEF step_state, step_popq, reg_valid, Load, Differs, n
<1>12. CASE i.icode = IRET
  <2>1. n = IF sp \in Address THEN After([higher EXCEPT !.pc = s.m[sp]], SAOK)
                              ELSE After(higher, SADR)
    BY <1>1, <1>12, Y64Copies DEF Y64!nexti, d, Icode
  <2>2. step_state(s, i) = IF sp \in Address THEN After([higher EXCEPT !.pc = s.m[sp]], SAOK)
                                             ELSE After(s, SADR)
    BY <1>10, <1>12 DEF step_state, step_ret
  <2>3. After(higher, SADR) # After(s, SADR)
    <3>1. higher.r = [s.r EXCEPT ![RRSP] = Wrap(sp + 1)]
      BY DEF State
    <3>2. higher.r[RRSP] = Wrap(sp + 1)
      BY <1>0, <3>1
    <3>3. higher # s
      <4> HIDE DEF higher
      <4> QED
        BY <1>2, <3>2, WrapMoves
    <3> HIDE DEF higher
    <3> QED
      BY <3>3 DEF After
  <2> HIDE DEF n, higher
  <2> QED
    BY <1>12, <2>1, <2>2, <2>3 DEF Differs, n
<1> QED
  <2>1. i.icode \in Icode => i.icode \in {INOP, IHALT, IRRMOVQ, IIRMOVQ, IRMMOVQ, IMRMOVQ, IOPQ, IJXX,
                                           ICALL, IRET, IPUSHQ, IPOPQ, IIADDQ}
    BY DEF Icode
  <2> QED
    BY <2>1, <1>3, <1>4, <1>5, <1>6, <1>7, <1>8, <1>9, <1>11, <1>12

\* nexti in the state that the instruction in write back finds.
LEMMA Y64FromInvariant ==
  ASSUME InstructionsAreWellFormed, IInv
  PROVE  Y64LikeIsa
<1> SUFFICES ASSUME W.stat # SBUB
             PROVE  Y64!nexti(isa, prog) = IsaStep <=> ~(isa.pc \in DOMAIN prog /\ KnownToDiffer)
  BY DEF Y64LikeIsa
<1>1. isa \in State /\ prog \in Programs /\ Known(prog, isa)
  BY InWriteBack
<1>2. CASE isa.pc \notin DOMAIN prog
  <2>1. Y64!nexti(isa, prog) = After(isa, SADR)
    BY <1>2 DEF Y64!nexti, Y64!After, Y64!SADR, After, SADR
  <2> QED
    BY <1>2, <2>1 DEF IsaStep
<1>3. CASE isa.pc \in DOMAIN prog
  <2> DEFINE i == prog[isa.pc]
  <2>1. i \in Instruction /\ WellFormed(i) /\ Wrap(isa.pc + 1) = isa.pc + 1
    BY <1>1, <1>3, HereIs
  <2>2. IsaStep = step_state(isa, i)
    BY <1>3 DEF IsaStep
  <2>3. KnownToDiffer <=> Differs(isa, i)
    BY DEF KnownToDiffer, Differs
  <2>4. Y64!nexti(isa, prog) = step_state(isa, i) <=> ~Differs(isa, i)
    BY <1>1, <1>3, <2>1, Y64Step
  <2> QED
    BY <1>3, <2>2, <2>3, <2>4
<1> QED
  BY <1>2, <1>3

\* nexti of lab4 (y64sim.c) does with every instruction what step_state of lab6 does,
\* except in the cases that KnownToDiffer names, and in all of them.
THEOREM Lab4LikeIsa ==
  ASSUME InstructionsAreWellFormed
  PROVE  MachinesSpec /\ []LoadsAreInTime => []Y64LikeIsa
<1>1. IInv => Y64LikeIsa
  BY Y64FromInvariant
<1> QED
  BY <1>1, IInvHolds, PTL

-----------------------------------------------------------------------------
(***************************************************************************)
(* Programs in which no load is late.                                      *)
(***************************************************************************)
\* Stores and loads in decode and loads in execute are instructions of the program.
Origins ==
  /\ prog \in Programs
  /\ D.icode \in {IRMMOVQ, IMRMOVQ, IPOPQ} =>
       \E i \in Instructions : i.icode = D.icode /\ i.rA = D.rA /\ i.rB = D.rB
  /\ E.icode \in {IMRMOVQ, IPOPQ} => \E j \in Instructions : j.icode = E.icode /\ j.rA = E.dstM

\* A cycle keeps Origins: what enters decode has been fetched, what enters execute has
\* been in decode.
LEMMA OriginsStay ==
  ASSUME Origins, Cycle
  PROVE  Origins'
<1> USE DEF INOP, IHALT, IRMMOVQ, IMRMOVQ, IPOPQ
<1>1. PICK i \in Fetchable :
        /\ D' = Update(pipe_cntl(D_stall, D_bubble), D, if_id_next(i), bubble_if_id)
        /\ prog' = IF imem_error THEN prog ELSE [prog EXCEPT ![f_pc] = i]
  BY DEF Cycle
<1>2. /\ imem_error => i.icode = INOP
      /\ ~imem_error => i \in Instructions \cup {Zeros}
  <2>1. CASE imem_error
    BY <1>1, <2>1 DEF Fetchable, Zeros
  <2>2. CASE ~imem_error /\ prog[f_pc] = UNKNOWN
    BY <1>1, <2>2 DEF Fetchable
  <2>3. CASE ~imem_error /\ prog[f_pc] # UNKNOWN
    <3>1. i = prog[f_pc]
      BY <1>1, <2>3 DEF Fetchable
    <3>2. f_pc \in 0 .. CODE_TOP - 1
      BY <2>3 DEF imem_error
    <3> QED
      BY <2>3, <3>1, <3>2 DEF Origins, Programs
  <2> QED
    BY <2>1, <2>2, <2>3
<1>3. prog' \in Programs
  <2>1. CASE imem_error
    BY <1>1, <2>1 DEF Origins
  <2>2. CASE ~imem_error
    BY <1>1, <1>2, <2>2 DEF Origins, Programs
  <2> QED
    BY <2>1, <2>2
<1>4. i.icode \in {IRMMOVQ, IMRMOVQ, IPOPQ} => i \in Instructions
  BY <1>2 DEF Zeros
<1>5. D' = D \/ D'.icode = INOP \/ D' = if_id_next(i)
  BY <1>1 DEF Update, pipe_cntl, bubble_if_id
<1>6. D'.icode \in {IRMMOVQ, IMRMOVQ, IPOPQ} =>
        \E k \in Instructions : k.icode = D'.icode /\ k.rA = D'.rA /\ k.rB = D'.rB
  <2>1. CASE D' = D
    BY <2>1 DEF Origins
  <2>2. CASE D'.icode = INOP
    BY <2>2
  <2>3. CASE D' = if_id_next(i)
    <3>1. D'.icode = i.icode /\ D'.rA = i.rA /\ D'.rB = i.rB
      BY <2>3 DEF if_id_next
    <3> QED
      BY <1>4, <3>1
  <2> QED
    BY <1>5, <2>1, <2>2, <2>3
<1>7. E'.icode \in {IMRMOVQ, IPOPQ} => \E j \in Instructions : j.icode = E'.icode /\ j.rA = E'.dstM
  <2>1. E' = id_ex_next \/ E'.icode = INOP
    BY DEF Cycle, Update, pipe_cntl, bubble_id_ex
  <2>2. E' = id_ex_next => E'.icode = D.icode /\ E'.dstM = d_dstM
    BY DEF id_ex_next
  <2>3. D.icode \in {IMRMOVQ, IPOPQ} => d_dstM = D.rA
    BY DEF d_dstM
  <2> QED
    BY <2>1, <2>2, <2>3 DEF Origins
<1> QED
  BY <1>3, <1>6, <1>7 DEF Origins

\* Of programs whose stores and loads have no such registers in common the other
\* theorems hold without a hypothesis on the steps: no load is ever late.
THEOREM NoLoadIsLate ==
  ASSUME StoresAreElsewhere
  PROVE  MachinesSpec => []LoadsAreInTime
<1>1. MachinesInit => Origins
  BY DEF MachinesInit, Init, clear_pipes, bubble_if_id, bubble_id_ex, Origins, Programs,
     INOP, IRMMOVQ, IMRMOVQ, IPOPQ
<1>2. Origins /\ [MachinesCycle]_<<vars, seq>> => Origins'
  <2> SUFFICES ASSUME Origins, [MachinesCycle]_<<vars, seq>> PROVE Origins'
    OBVIOUS
  <2>1. CASE MachinesCycle
    BY <2>1, OriginsStay DEF MachinesCycle
  <2>2. CASE UNCHANGED <<vars, seq>>
    BY <2>2 DEF vars, pipes, Origins, Programs
  <2> QED
    BY <2>1, <2>2
<1>3. Origins => LoadsAreInTime
  <2> SUFFICES ASSUME Origins, D.icode = IRMMOVQ, E.icode \in {IMRMOVQ, IPOPQ}
               PROVE  E.dstM # D.rB /\ (E.icode = IPOPQ => E.dstM # D.rA)
    BY DEF LoadsAreInTime
  <2>1. PICK i \in Instructions : i.icode = IRMMOVQ /\ i.rA = D.rA /\ i.rB = D.rB
    BY DEF Origins
  <2>2. PICK j \in Instructions : j.icode = E.icode /\ j.rA = E.dstM
    BY DEF Origins
  <2> QED
    BY <2>1, <2>2 DEF StoresAreElsewhere
<1> QED
  BY <1>1, <1>2, <1>3, PTL DEF MachinesSpec

=============================================================================
