------------------------------- MODULE Mdriver -------------------------------
(***************************************************************************)
(* The driver of lab10 (mdriver.c) and the allocator it judges.  For each  *)
(* trace the driver runs the package once to see whether it is correct     *)
(* (eval_mm_valid, with a list of the extents of the blocks), once for the *)
(* space it takes (eval_mm_util), and again for its speed (eval_mm_speed), *)
(* each time on the storage that the run before has left behind.  The      *)
(* package is that of mm.c, or an arbitrary one that puts blocks anywhere, *)
(* by which the driver itself is judged.                                   *)
(*                                                                         *)
(* Sizes and addresses count the units of Mm, ids are the words with which *)
(* the driver fills the blocks.                                            *)
(***************************************************************************)
EXTENDS Integers, Sequences, FiniteSets, FiniteSetsExt, Functions

CONSTANTS HEADERS, SMALL, MAX_HEAP, Requests, MayRunOut,
          Ids,        \* the ids of a trace
          Lengths     \* for each package, the sequences of traces, by their lengths

VARIABLES package,    \* "mm" or "any"
          phase,      \* what main does: "read", "valid", "util", "speed", "done"
          ops, i,     \* the trace, and the number of requests served
          blocks,     \* trace->blocks and trace->block_sizes
          heap,
          ranges,     \* the range list, newest first: the first and the last unit
          errors,     \* calls of malloc_error in this trace
          placed,     \* the addresses that the trace was given in phase "valid"
          left        \* the lengths of the traces still to be read

vars == <<package, phase, ops, i, blocks, heap, ranges, errors, placed, left>>

\* The blocks that the trace holds after its first i requests.
Held == {id \in DOMAIN blocks :
           \E k \in 1 .. i : /\ ops[k].index = id /\ ops[k].type # "FREE"
                             /\ \A l \in k + 1 .. i : ops[l].index = id => ops[l].type # "FREE"}

Mm == INSTANCE Mm WITH
  Data <- Ids,
  live <- [p \in {blocks[id].ptr : id \in Held} |->
             LET id == CHOOSE id \in Held : blocks[id].ptr = p
             IN  [size |-> blocks[id].size, word |-> id]]

-----------------------------------------------------------------------------
(***************************************************************************)
(* Traces.                                                                 *)
(***************************************************************************)
Op == [type : {"ALLOC", "REALLOC"}, index : Ids, size : Requests]
      \cup [type : {"FREE"}, index : Ids, size : {0}]

\* An id is allocated once, and resized and freed while it is allocated.
WellFormed(t) ==
  \A k \in DOMAIN t :
    LET before == {t[l].type : l \in {l \in 1 .. k - 1 : t[l].index = t[k].index}}
    IN  IF t[k].type = "ALLOC" THEN before = {}
                               ELSE "ALLOC" \in before /\ "FREE" \notin before

\* read_trace: the traces of its file format.
read_trace(n) == {t \in [1 .. n -> Op] : WellFormed(t)}

-----------------------------------------------------------------------------
(***************************************************************************)
(* The package under test.                                                 *)
(***************************************************************************)
\* No address of a unit.
NULL == -1

Anywhere(m) == [heap : {m}, ptr : 0 .. m.brk - 1]

Refused(m) == [heap |-> m, ptr |-> NULL]

Mallocs(m, n) == IF package = "mm" THEN {Mm!mm_malloc(m, n)} ELSE Anywhere(m) \cup {Refused(m)}

Reallocs(m, p, n) ==
  IF package = "mm" THEN {Mm!mm_realloc(m, p, n)}
  ELSE {[heap |-> Mm!Copied(m, p, r.ptr, n), ptr |-> r.ptr] : r \in Anywhere(m)}
       \cup {Refused(m)}

Frees(m, p) == IF package = "mm" THEN Mm!mm_free(m, p) ELSE m

\* The storage that a run of the package starts with.
Reset == IF package = "mm" THEN Mm!mm_init(heap) ELSE [Mm!fresh EXCEPT !.brk = MAX_HEAP]

-----------------------------------------------------------------------------
(***************************************************************************)
(* The range list.                                                         *)
(***************************************************************************)

\* The payload lies in the heap.  It is aligned, too, as that of every unit is.
InHeap(m, lo, hi) == lo >= 0 /\ hi < m.brk

\* Mutant: only the first unit is compared.
Overlaps_lo(lo, hi, r) == lo >= r.lo /\ lo <= r.hi

\* What add_range takes for an overlap: one end of the new payload lies in the other.
Overlaps(lo, hi, r) == \/ lo >= r.lo /\ lo <= r.hi
                       \/ hi >= r.lo /\ hi <= r.hi

\* Whether add_range accepts the payload of n units at p.
Accepts(rs, m, p, n) == /\ InHeap(m, p, p + n - 1)
                        /\ \A k \in DOMAIN rs : ~Overlaps(p, p + n - 1, rs[k])

add_range(rs, p, n) == <<[lo |-> p, hi |-> p + n - 1]>> \o rs

\* Mutant: nothing is removed.
remove_range_not(rs, p) == rs

\* The first record that begins at p is removed.
remove_range(rs, p) ==
  LET at == {k \in DOMAIN rs : rs[k].lo = p}
  IN  IF at = {} THEN rs
      ELSE LET k == Min(at) IN SubSeq(rs, 1, k - 1) \o SubSeq(rs, k + 1, Len(rs))

-----------------------------------------------------------------------------
(***************************************************************************)
(* One request of eval_mm_valid.                                           *)
(***************************************************************************)
op == ops[i + 1]

Remember(p) == Mm!With(blocks, op.index, [ptr |-> p, size |-> op.size])

\* A request that ends the trace: the package is found to be wrong.
Fail == /\ errors' = errors + 1 /\ phase' = "read"
        /\ UNCHANGED <<package, ops, i, blocks, placed, left>>

\* The range list takes the payload of n units at p, and it is filled.
Take(rs, m, p) ==
  /\ ranges' = add_range(rs, p, op.size)
  /\ heap' = Mm!Write(m, p, op.size, op.index)
  /\ blocks' = Remember(p)
  /\ placed' = Append(placed, p)
  /\ i' = i + 1
  /\ UNCHANGED <<package, phase, ops, errors, left>>

ValidAlloc ==
  /\ phase = "valid" /\ i < Len(ops) /\ op.type = "ALLOC"
  /\ \E r \in Mallocs(heap, op.size) :
       IF r.ptr # NULL /\ Accepts(ranges, r.heap, r.ptr, op.size)
       THEN Take(ranges, r.heap, r.ptr)
       ELSE /\ Fail
            /\ heap' = r.heap /\ ranges' = ranges

\* A request that is refused leaves the range list as it is.  Else the bytes that the old
\* and the new size share are compared.
ValidRealloc ==
  /\ phase = "valid" /\ i < Len(ops) /\ op.type = "REALLOC"
  /\ LET old == blocks[op.index]
         others == remove_range(ranges, old.ptr)
         kept == Min({old.size, op.size})
     IN  \E r \in Reallocs(heap, old.ptr, op.size) :
           IF r.ptr = NULL THEN Fail /\ heap' = r.heap /\ ranges' = ranges
           ELSE IF ~Accepts(others, r.heap, r.ptr, op.size)
           THEN Fail /\ heap' = r.heap /\ ranges' = others
           ELSE IF ~Mm!Holds(r.heap, r.ptr, kept, op.index)
                THEN /\ Fail
                     /\ heap' = r.heap /\ ranges' = add_range(others, r.ptr, op.size)
                ELSE Take(others, r.heap, r.ptr)

ValidFree ==
  /\ phase = "valid" /\ i < Len(ops) /\ op.type = "FREE"
  /\ LET p == blocks[op.index].ptr
     IN  heap' = Frees(heap, p) /\ ranges' = remove_range(ranges, p)
  /\ i' = i + 1 /\ placed' = Append(placed, 0)
  /\ UNCHANGED <<package, phase, ops, blocks, errors, left>>

-----------------------------------------------------------------------------
(***************************************************************************)
(* One request of eval_mm_util, whose sums are left out, and of            *)
(* eval_mm_speed.                                                          *)
(***************************************************************************)

Replay == phase \in {"util", "speed"} /\ i < Len(ops)

Replayed == /\ i' = i + 1
            /\ UNCHANGED <<package, phase, ops, ranges, errors, placed, left>>

ReplayAlloc ==
  /\ Replay /\ op.type = "ALLOC" /\ Replayed
  /\ LET r == Mm!mm_malloc(heap, op.size)
     IN  heap' = r.heap /\ blocks' = Remember(r.ptr)

ReplayRealloc ==
  /\ Replay /\ op.type = "REALLOC" /\ Replayed
  /\ LET r == Mm!mm_realloc(heap, blocks[op.index].ptr, op.size)
     IN  heap' = r.heap /\ blocks' = Remember(r.ptr)

ReplayFree ==
  /\ Replay /\ op.type = "FREE" /\ Replayed
  /\ heap' = Mm!mm_free(heap, blocks[op.index].ptr)
  /\ UNCHANGED blocks

-----------------------------------------------------------------------------
(***************************************************************************)
(* The loop of main.                                                       *)
(***************************************************************************)
Init == /\ package \in DOMAIN Lengths
        /\ phase = "read" /\ ops = << >> /\ i = 0 /\ blocks = << >>
        /\ heap = Mm!fresh /\ ranges = << >> /\ errors = 0
        /\ placed = << >>
        /\ left \in Lengths[package]

\* The next trace is read, the heap is reset and the range list cleared.
NextTrace ==
  /\ phase = "read" /\ left # << >>
  /\ \E t \in read_trace(Head(left)) : ops' = t
  /\ phase' = "valid" /\ left' = Tail(left)
  /\ heap' = Reset
  /\ i' = 0 /\ blocks' = << >> /\ ranges' = << >> /\ errors' = 0
  /\ placed' = << >>
  /\ UNCHANGED package

\* All requests of the trace have been served; the arbitrary package is not measured.
EndOfPass ==
  /\ phase \in {"valid", "util", "speed"} /\ i = Len(ops)
  /\ phase' = CASE phase = "valid" -> (IF package = "mm" THEN "util" ELSE "read")
                [] phase = "util"  -> "speed"
                [] phase = "speed" -> "read"
  /\ IF phase' = "read" THEN UNCHANGED <<i, heap>> ELSE i' = 0 /\ heap' = Reset
  /\ UNCHANGED <<package, ops, blocks, ranges, errors, placed, left>>

Finish == /\ phase = "read" /\ left = << >>
          /\ phase' = "done"
          /\ UNCHANGED <<package, ops, i, blocks, heap, ranges, errors, placed, left>>

Next == \/ NextTrace \/ ValidAlloc \/ ValidRealloc \/ ValidFree
        \/ ReplayAlloc \/ ReplayRealloc \/ ReplayFree \/ EndOfPass \/ Finish

Spec == Init /\ [][Next]_vars

-----------------------------------------------------------------------------
(***************************************************************************)
(* Properties.                                                             *)
(***************************************************************************)
Span(id) == blocks[id].ptr .. blocks[id].ptr + blocks[id].size - 1

\* The range list is what the trace holds, one record for each block and none for a
\* block that was freed or has moved: what add_range compares a payload with is all
\* that it may overlap (mdriver.c:339-343, 590, 609, 640).
RangesAreTheBlocks ==
  phase = "valid" =>
    /\ {ranges[k].lo .. ranges[k].hi : k \in DOMAIN ranges} = {Span(id) : id \in Held}
    /\ Len(ranges) = Cardinality(Held)

\* The driver finds fault with the package of mm.c in no trace, realloc's copies
\* included, unless memlib has no more to give (mdriver.c:530-653).
FaultMeansNoRoom == package = "mm" /\ errors > 0 => heap.top > heap.brk

\* "The payload must not overlap any other payloads" (mdriver.c:378): of two blocks
\* that add_range has accepted the newer one overlaps the older only by enclosing it
\* on both sides, which the test misses.
OverlapsAreSeen ==
  \A k \in DOMAIN ranges : \A l \in k + 1 .. Len(ranges) :
    \/ ranges[k].hi < ranges[l].lo \/ ranges[l].hi < ranges[k].lo
    \/ ranges[k].lo < ranges[l].lo /\ ranges[l].hi < ranges[k].hi /\ package = "any"

\* The package that is measured is the one that was found valid: on the storage that
\* the pass before has left, each request is given the address it was given then
\* (mdriver.c:670-673, 750-752, mm.c:91-103).
ReplaysAlike ==
  phase \in {"util", "speed"} /\ i > 0 /\ ops[i].type # "FREE" =>
    blocks[ops[i].index].ptr = placed[i]

=============================================================================
