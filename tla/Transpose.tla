----------------------------- MODULE Transpose -----------------------------
(***************************************************************************)
(* The transposes of lab8 (trans.c), run by tracegen.c on a matrix of      *)
(* M columns and N rows, and judged by test-trans.c: whether the result is *)
(* right and how often its accesses miss in a cache of 1 KB, which is the  *)
(* cache of Csim with one line in each of 32 sets.                         *)
(*                                                                         *)
(* A step is an iteration of the innermost loop: loads, and their stores.  *)
(* Matrices lie in memory row after row, so that a column that is too      *)
(* large is one of a later row.  Every element of A is different.          *)
(***************************************************************************)
EXTENDS Integers, SequencesExt

CONSTANTS Shapes,        \* pairs M, N
          OtherAccesses  \* accesses in the trace that are not to A or B

ASSUME ShapesAssumption == Shapes \subseteq (Nat \ {0}) \X (Nat \ {0})

VARIABLES shape,    \* M and N on the command line
          func,     \* index in func_list of the function that is run
          at,       \* where in it: the loop, and its counters
          B,        \* contents of B
          cache,    \* the simulator's
          correct,  \* for each function that has ended, whether its result is right
          misses    \* and its misses, or NotSimulated

transvars == <<shape, func, at, B, cache, correct, misses>>

M == shape[1]
N == shape[2]

Sim == INSTANCE Csim WITH setIndexBit <- 5, blockBit <- 5, e <- 1,
                          Addresses <- {}, MaxVisits <- 0, visits <- <<>>

\* registerFunctions.
func_list == <<"transpose_submit", "trans">>
Submit == 1

Outside == -1        \* what memory behind A contains
Random == -2         \* what initMatrix puts in B
NotSimulated == -1   \* INT_MAX in results

Cells == 0 .. M * N + 7  \* B, and as far as any function writes behind it

-----------------------------------------------------------------------------
(***************************************************************************)
(* Elements and their moves: the loads into t0, t1, ... and then the       *)
(* stores from them.                                                       *)
(***************************************************************************)
InA(r, c) == [matrix |-> "A", cell |-> r * M + c]
InB(r, c) == [matrix |-> "B", cell |-> r * N + c]

Move(from, to) == [loads |-> from, stores |-> to]
One(from, to) == Move(<<from>>, <<to>>)

\* count elements of a row or column of A or B.
RowA(r, c, count) == [n \in 1 .. count |-> InA(r, c + n - 1)]
RowB(r, c, count) == [n \in 1 .. count |-> InB(r, c + n - 1)]
ColA(r, c, count) == [n \in 1 .. count |-> InA(r + n - 1, c)]
ColB(r, c, count) == [n \in 1 .. count |-> InB(r + n - 1, c)]

\* The eight by eight block of A at i, j goes to B at j, s by way of a block whose upper
\* right quarter is used for what belongs into the lower left one.
Upper(j, i, s, k) == Move(RowA(i + k, j, 8), ColB(j, s + k, 4) \o ColB(j, s + 4 + k, 4))
Swap(j, i, s, k) == Move(ColA(i + 4, j + k, 4) \o RowB(j + k, s + 4, 4),
                         RowB(j + k, s + 4, 4) \o RowB(j + k + 4, s, 4))
Lower(j, i, s, k) == Move(RowA(i + k, j + 4, 4), ColB(j + 4, s + k, 4))

\* Where the block on the diagonal is put at first: the columns that are filled next.
Scratch(j) == (j + 8) % 64

\* What an iteration moves.
Iteration(p) ==
  LET j == p.j i == p.i k == p.k
      row == k \div 8  col == k % 8    \* in a block that is moved element by element
      column == IF i = j THEN Scratch(j) ELSE i
  IN
  CASE p.loop = "block32" -> Move(ColA(i, j + k, 8), RowB(j + k, i, 8))
    [] p.loop = "upper" -> Upper(j, i, column, k)
    [] p.loop = "swap"  -> Swap(j, i, column, k)
    [] p.loop = "lower" -> Lower(j, i, column, k + 4)
    [] p.loop = "copylow" -> One(InB(j + 4 + row, column + col), InB(j + 4 + row, i + col))
    [] p.loop = "copyhigh" -> One(InB(j + row, column + col), InB(j + row, i + col))
    [] p.loop = "block" -> One(InA(i + row, j + col), InB(j + col, i + row))
    [] p.loop = "row" -> One(InA(i, k), InB(k, i))

-----------------------------------------------------------------------------
(***************************************************************************)
(* The order of the loops.                                                 *)
(***************************************************************************)
Loop(loop, j, i, k) == [loop |-> loop, j |-> j, i |-> i, k |-> k]
End == Loop("end", 0, 0, 0)

\* Mutant: 32 columns are not treated on their own, so that a row of A and the column of B
\* that it becomes drive each other out of the cache.
Start_plain(f, m, n) ==
  CASE func_list[f] = "trans" -> Loop("row", 0, 0, 0)
    [] func_list[f] = "transpose_submit" /\ m = 64 /\ n = 64 -> Loop("upper", 0, 0, 0)
    [] OTHER -> Loop("block", 0, 0, 0)

Start(f, m, n) ==
  CASE func_list[f] = "trans" -> Loop("row", 0, 0, 0)
    [] func_list[f] = "transpose_submit" /\ m = 32 -> Loop("block32", 0, 0, 0)
    [] func_list[f] = "transpose_submit" /\ m = 64 /\ n = 64 -> Loop("upper", 0, 0, 0)
    [] OTHER -> Loop("block", 0, 0, 0)

\* For 64 by 64, the iteration after the last one of a loop.  A block is finished when
\* its lower half is; the one on the diagonal is then copied to where it belongs.
AfterLoop(p) ==
  LET next == (p.i + 8) % 64 IN
  CASE p.loop = "upper" -> Loop("swap", p.j, p.i, 0)
    [] p.loop = "swap" -> Loop("lower", p.j, p.i, 0)
    [] p.loop = "lower" /\ p.i = p.j -> Loop("copylow", p.j, p.i, 0)
    [] p.loop = "copylow" -> Loop("copyhigh", p.j, p.i, 0)
    [] p.loop \in {"lower", "copyhigh"} /\ next # p.j -> Loop("upper", p.j, next, 0)
    [] p.j + 8 < 64 -> Loop("upper", p.j + 8, p.j + 8, 0)
    [] OTHER -> End

\* Mutant: rows are compared with the number of columns.
AfterBlock_square(p) == CASE p.i + 8 < M -> Loop(p.loop, p.j, p.i + 8, 0)
                          [] p.i + 8 >= M /\ p.j + 8 < M -> Loop(p.loop, p.j + 8, 0, 0)
                          [] OTHER -> End

\* Eight by eight blocks, column after column of blocks; in the general case those at the
\* border are smaller.
AfterBlock(p) == CASE p.i + 8 < N -> Loop(p.loop, p.j, p.i + 8, 0)
                   [] p.i + 8 >= N /\ p.j + 8 < M -> Loop(p.loop, p.j + 8, 0, 0)
                   [] OTHER -> End

Advance(p) ==
  LET next == [p EXCEPT !.k = @ + 1]
      ii == p.k \div 8
  IN
  CASE p.loop = "block32" -> IF p.k < 7 THEN next ELSE AfterBlock(p)
    [] p.loop = "block" ->
        (CASE p.k % 8 < 7 /\ p.j + (p.k % 8) + 1 < M -> next
           [] ii < 7 /\ p.i + ii + 1 < N -> [p EXCEPT !.k = 8 * (ii + 1)]
           [] OTHER -> AfterBlock(p))
    [] p.loop = "row" -> (CASE p.k + 1 < M -> next
                            [] p.k + 1 = M /\ p.i + 1 < N -> Loop("row", 0, p.i + 1, 0)
                            [] OTHER -> End)
    [] p.loop \in {"copylow", "copyhigh"} -> IF p.k < 31 THEN next ELSE AfterLoop(p)
    [] OTHER -> IF p.k < 3 THEN next ELSE AfterLoop(p)

-----------------------------------------------------------------------------
(***************************************************************************)
(* What moves do to B and to the cache.                                    *)
(***************************************************************************)
ValueAt(b, x) == CASE x.matrix = "B" -> b[x.cell]
                   [] x.matrix = "A" /\ x.cell < M * N -> x.cell
                   [] OTHER -> Outside

Moved(b, move) ==
  LET t == [n \in DOMAIN move.loads |-> ValueAt(b, move.loads[n])]
  IN  FoldLeftDomain(LAMBDA bb, n : [bb EXCEPT ![move.stores[n].cell] = t[n]], b, move.stores)

\* In tracegen A and B are 256 by 256 integers of four bytes, one behind the other.
Address(x) == (IF x.matrix = "A" THEN 0 ELSE 4 * 256 * 256) + 4 * x.cell

Visited(c, move) ==
  FoldLeft(LAMBDA cc, x : Sim!cacheVisitAddress(cc, Address(x)), c, move.loads \o move.stores)

-----------------------------------------------------------------------------
initMatrix == [c \in Cells |-> Random]

TransInit == /\ shape \in Shapes
             /\ func = 1 /\ at = Start(1, shape[1], shape[2])
             /\ B = [c \in 0 .. shape[1] * shape[2] + 7 |-> Random]
             /\ cache = Sim!cacheInit /\ correct = <<>> /\ misses = <<>>

\* An iteration of the function that is run.
Iterate ==
  /\ func \in DOMAIN func_list /\ at # End
  /\ B' = Moved(B, Iteration(at))
  /\ cache' = Visited(cache, Iteration(at))
  /\ at' = Advance(at)
  /\ UNCHANGED <<shape, func, correct, misses>>

\* validate: B is compared with the result of correctTrans.
Validated == \A r \in 0 .. M - 1, c \in 0 .. N - 1 : B[r * N + c] = c * M + r

\* The rest of eval_perf for a function, and the start of the next.  What has not passed
\* the validation is not simulated.
EvalPerf ==
  /\ func \in DOMAIN func_list /\ at = End
  /\ correct' = Append(correct, Validated)
  /\ misses' = Append(misses, IF Validated THEN cache.missTimes ELSE NotSimulated)
  /\ func' = func + 1
  /\ at' = IF func' \in DOMAIN func_list THEN Start(func', M, N) ELSE End
  /\ B' = initMatrix /\ cache' = Sim!cacheInit
  /\ UNCHANGED shape

TransNext == Iterate \/ EvalPerf
TransSpec == TransInit /\ [][TransNext]_transvars

-----------------------------------------------------------------------------
(***************************************************************************)
(* Properties.                                                             *)
(***************************************************************************)
\* Whatever the shape, B ends as the transpose of A, although blocks of it are lent as a
\* place for others in between, and nothing behind B is written: except that with 32
\* columns the function takes the number of rows for a multiple of eight.  What it then
\* moves from behind A ends in rows of B that were finished, if there is more than one
\* block of rows, and behind B (trans.c:28-54).
TransposesRightly ==
  LET taken_for_eight(f) == func_list[f] = "transpose_submit" /\ M = 32 /\ N % 8 # 0
  IN  /\ \A f \in DOMAIN correct : correct[f] <=> ~(taken_for_eight(f) /\ N > 8)
      /\ (\E c \in M * N .. M * N + 7 : B[c] # Random) => taken_for_eight(func)

\* What driver.py gives full marks for.
Limit == [s \in {<<32, 32>>, <<64, 64>>, <<61, 67>>} |->
            CASE s = <<32, 32>> -> 300 [] s = <<64, 64>> -> 1300 [] s = <<61, 67>> -> 2000]

\* The submitted function gets full marks, even if each of the other accesses in the
\* trace misses and makes one more access miss (test-trans.c:131-147, driver.py:94-96).
FewMisses ==
  \A f \in DOMAIN misses :
    f = Submit /\ shape \in DOMAIN Limit =>
      misses[f] # NotSimulated /\ misses[f] + 2 * OtherAccesses <= Limit[shape]

=============================================================================
