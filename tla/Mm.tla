--------------------------------- MODULE Mm ---------------------------------
(***************************************************************************)
(* The allocator of lab10 (mm.c) on the heap of memlib.c, and a client     *)
(* that allocates, resizes and frees blocks and writes all of them.        *)
(*                                                                         *)
(* Memory is counted in units of ALIGNMENT (32) bytes.  A unit holds four  *)
(* words: the first can be a boundary tag, the next two the links of a     *)
(* free list, the last one the tag that ends a free chunk.  The list       *)
(* headers lie below the heap, at the negative addresses, so that          *)
(* FREE_HEADERS + k is -HEADERS + k and MEM_HEAP_LO is 0.  A request of n  *)
(* units is one for the most bytes that a chunk of n units takes.          *)
(***************************************************************************)
EXTENDS Integers, Functions, FiniteSetsExt

CONSTANTS HEADERS,     \* number of free lists
          SMALL,       \* units requested from sbrk for a chunk of one unit (6)
          MAX_HEAP,    \* size of memlib's heap
          Requests,    \* sizes the client asks for
          MayRunOut,   \* whether the client asks for more than the heap has left
          Data         \* the words that the client writes

ASSUME HEADERSAssumption == HEADERS \in Nat /\ HEADERS >= 3
ASSUME SMALLAssumption == SMALL \in 2 .. HEADERS - 1
ASSUME MAX_HEAPAssumption == MAX_HEAP \in Nat
ASSUME RequestsAssumption == Requests \subseteq Nat \ {0}

VARIABLES heap,   \* the memory and the allocator's registers, see Heap
          live    \* the client's blocks: a function from addresses to the size
                  \* and the word that the client has written all over the block

vars == <<heap, live>>

MIN_CHUNK_SIZE == HEADERS - 1

Header == -HEADERS .. -1
\* The units of the heap, and those beyond its end that mm.c may write.
Unit == 0 .. 2 * MAX_HEAP
Node == Header \cup Unit

Tag == [size : Unit, used : BOOLEAN, pused : BOOLEAN]
zerotag == [size |-> 0, used |-> FALSE, pused |-> FALSE]

\* What the client writes is told apart from what mm.c writes.
ASSUME DataAssumption == Data \cap (Tag \cup Node) = {}

Heap == [tag  : [Node -> Tag \cup Data],   \* first word
         prev : [Node -> Node \cup Data],  \* second word
         next : [Node -> Node \cup Data],  \* third word
         foot : [Unit -> Unit \cup Data],  \* last word
         top  : Unit,                      \* MEM_HEAP_HIGH + 1
         brk  : Unit]                      \* mem_brk

\* The storage as mem_init leaves it.
fresh == [tag  |-> [a \in Node |-> zerotag],
          prev |-> [a \in Node |-> a],
          next |-> [a \in Node |-> a],
          foot |-> [a \in Unit |-> 0],
          top  |-> 0,
          brk  |-> 0]

\* Mutant: the list headers are not reset.
mm_init_stale(m) == [m EXCEPT !.top = 0, !.brk = 0]

\* mem_reset_brk and mm_init: the lists are emptied, and what earlier blocks have
\* left in the units stays there.
mm_init(m) ==
  [m EXCEPT !.tag = [a \in Node |-> IF a \in Header THEN zerotag ELSE @[a]],
            !.prev = [a \in Node |-> IF a \in Header THEN a ELSE @[a]],
            !.next = [a \in Node |-> IF a \in Header THEN a ELSE @[a]],
            !.top = 0, !.brk = 0]

-----------------------------------------------------------------------------
(***************************************************************************)
(* Helpers of the allocator.  Each takes a heap m and returns the heap it  *)
(* leaves.                                                                 *)
(***************************************************************************)
get_header(size) == IF size > MIN_CHUNK_SIZE THEN -1 ELSE size - HEADERS

\* mem_sbrk fails when the heap is used up.
mem_sbrk(m, incr) == IF m.brk + incr > MAX_HEAP THEN m
                     ELSE [m EXCEPT !.brk = m.brk + incr]

\* mm_sbrk, which does not look at what mem_sbrk returns.
mm_sbrk(m, size) ==
  LET moved == [m EXCEPT !.top = m.top + size]
  IN  IF moved.top > m.brk THEN mem_sbrk(moved, moved.top - m.brk) ELSE moved

SetTag(m, a, size, used, pused) ==
  [m EXCEPT !.tag[a] = [size |-> size, used |-> used, pused |-> pused]]

\* Set the PUSED bit of the tag at a; at the end of the heap the word may be an
\* old word of the client, which no one reads.
SetPused(m, a, pused) == IF m.tag[a] \in Data THEN m
                         ELSE [m EXCEPT !.tag[a].pused = pused]

\* Mutant: the old first chunk is not linked back to the new one.
InsertOneWay(m, a, size) ==
  LET h == get_header(size)
  IN  [m EXCEPT !.prev[a] = h, !.next[a] = m.next[h], !.next[h] = a]

\* Put chunk a behind the header of its size.
Insert(m, a, size) ==
  LET h == get_header(size)
      s == m.next[h]
      m1 == [m EXCEPT !.prev[a] = h, !.next[a] = s]
  IN  [m1 EXCEPT !.prev[s] = a, !.next[h] = a]

\* Take chunk a out of its list.
Unlink(m, a) == LET m1 == [m EXCEPT !.next[m.prev[a]] = m.next[a]]
                IN  [m1 EXCEPT !.prev[m1.next[a]] = m1.prev[a]]

\* The chunk at which the walk from header h along the prev links stops: the first
\* one of at least size units, or h itself.
FirstFit(m, h, size) ==
  LET walk[k \in Unit] ==
        IF k = 0 THEN m.prev[h]
        ELSE LET a == walk[k - 1]
             IN  IF a = h \/ m.tag[a].size >= size THEN a ELSE m.prev[a]
  IN  walk[2 * MAX_HEAP]

\* The chunk that mm_malloc takes: it looks through the lists from that of size on,
\* and ends at a header when nothing fits.
Search(m, size) ==
  LET fits == {h \in get_header(size) .. -1 : FirstFit(m, h, size) # h}
  IN  IF fits = {} THEN -1 ELSE FirstFit(m, Min(fits), size)

-----------------------------------------------------------------------------
(***************************************************************************)
(* mm_malloc, mm_free and mm_realloc.  The first and the last return a     *)
(* heap and a pointer.                                                     *)
(***************************************************************************)

\* No chunk fits and the request is small: the rest of what sbrk gives becomes a
\* free chunk.
ExtendSmall(m, size) ==
  LET chunk_size == IF size = 1 THEN SMALL ELSE MIN_CHUNK_SIZE
      free_size == chunk_size - size
      p == m.top
      m1 == SetTag(mm_sbrk(m, chunk_size), p, size, TRUE, TRUE)
      m2 == SetTag(m1, p + size, free_size, FALSE, TRUE)
      m3 == [m2 EXCEPT !.foot[p + chunk_size - 1] = free_size]
  IN  [heap |-> Insert(m3, p + size, free_size), ptr |-> p]

\* No chunk fits and the request is big.
ExtendBig(m, size) ==
  [heap |-> SetTag(mm_sbrk(m, size), m.top, size, TRUE, TRUE), ptr |-> m.top]

\* Mutant: the chunk after p is not told.
TakeAllUntold(m, p) ==
  [heap |-> SetTag(Unlink(m, p), p, m.tag[p].size, TRUE, TRUE), ptr |-> p]

\* Chunk p fits up to one unit: all of it is used.
TakeAll(m, p) ==
  LET size == m.tag[p].size
      m1 == SetTag(Unlink(m, p), p, size, TRUE, TRUE)
  IN  [heap |-> SetPused(m1, p + size, TRUE), ptr |-> p]

\* Mutant: the tag at the end keeps the old size.
SplitOldFoot(m, p, size) ==
  LET rest == m.tag[p].size - size
      m1 == SetTag(m, p, size, TRUE, TRUE)
      m2 == SetTag(m1, p + size, rest, FALSE, TRUE)
  IN  [heap |-> Insert(Unlink(m2, p), p + size, rest), ptr |-> p]

\* The front of chunk p is used, the rest stays free.
Split(m, p, size) ==
  LET rest == m.tag[p].size - size
      m1 == SetTag(m, p, size, TRUE, TRUE)
      m2 == SetTag(m1, p + size, rest, FALSE, TRUE)
      m3 == [m2 EXCEPT !.foot[p + size + rest - 1] = rest]
  IN  [heap |-> Insert(Unlink(m3, p), p + size, rest), ptr |-> p]

\* Mutant: a chunk that is one unit too large is split, too.
mm_malloc_split(m, size) ==
  LET p == Search(m, size)
  IN  IF p \in Header
      THEN IF size <= MIN_CHUNK_SIZE THEN ExtendSmall(m, size) ELSE ExtendBig(m, size)
      ELSE Split(m, p, size)

mm_malloc(m, size) ==
  LET p == Search(m, size)
  IN  IF p \in Header
      THEN IF size <= MIN_CHUNK_SIZE THEN ExtendSmall(m, size) ELSE ExtendBig(m, size)
      ELSE IF m.tag[p].size <= size + 1 THEN TakeAll(m, p) ELSE Split(m, p, size)

\* The chunk before p, when the tag of p says that it is free.
Before(m, p) == p - m.foot[p - 1]

mm_free(m, p) ==
  LET t == m.tag[p]
      begin == IF t.pused THEN p ELSE Before(m, p)
      m1 == IF t.pused THEN m ELSE Unlink(m, begin)
      size1 == IF t.pused THEN t.size ELSE t.size + m.tag[begin].size
      after == p + t.size
      joined == after < m.top /\ ~m.tag[after].used
      m2 == IF joined THEN Unlink(m1, after)
                      ELSE SetPused(m1, after, FALSE)
      size2 == IF joined THEN size1 + m.tag[after].size ELSE size1
      m3 == SetTag(m2, begin, size2, FALSE, m.tag[begin].pused)
      m4 == [m3 EXCEPT !.foot[begin + size2 - 1] = size2]
  IN  IF after >= m.top THEN mm_sbrk(m1, -size1) ELSE Insert(m4, begin, size2)

\* memcpy of n units of payload from p to q.  mm_realloc copies as much as the new
\* block takes, also what lies behind the old one; where the two areas overlap, only
\* words from behind the old block can depend on the order of copying.
Copied(m, p, q, n) ==
  LET from(a) == IF a - q + p \in Unit THEN a - q + p ELSE a
  IN  [m EXCEPT
         !.tag = [a \in Node |-> IF a \in q + 1 .. q + n - 1 THEN @[from(a)] ELSE @[a]],
         !.prev = [a \in Node |-> IF a \in q .. q + n - 1 THEN @[from(a)] ELSE @[a]],
         !.next = [a \in Node |-> IF a \in q .. q + n - 1 THEN @[from(a)] ELSE @[a]],
         !.foot = [a \in Unit |-> IF a \in q .. q + n - 1 THEN @[from(a)] ELSE @[a]]]

\* Mutant: a block at the border grows without more heap.
mm_realloc_in_place(m, p, size) ==
  LET old == m.tag[p].size
      new == mm_malloc(m, size)
  IN  IF old >= size THEN [heap |-> m, ptr |-> p]
      ELSE IF p + old = m.top THEN [heap |-> [m EXCEPT !.tag[p].size = size], ptr |-> p]
           ELSE [heap |-> mm_free(Copied(new.heap, p, new.ptr, size), p), ptr |-> new.ptr]

\* Mutant: the old block is not copied.
mm_realloc_empty(m, p, size) ==
  LET old == m.tag[p].size
      new == mm_malloc(m, size)
  IN  IF old >= size THEN [heap |-> m, ptr |-> p]
      ELSE IF p + old = m.top
           THEN [heap |-> [mm_sbrk(m, size - old) EXCEPT !.tag[p].size = size],
                 ptr |-> p]
           ELSE [heap |-> mm_free(new.heap, p), ptr |-> new.ptr]

mm_realloc(m, p, size) ==
  LET old == m.tag[p].size
      new == mm_malloc(m, size)
  IN  IF old >= size THEN [heap |-> m, ptr |-> p]
      ELSE IF p + old = m.top
           THEN [heap |-> [mm_sbrk(m, size - old) EXCEPT !.tag[p].size = size],
                 ptr |-> p]
           ELSE [heap |-> mm_free(Copied(new.heap, p, new.ptr, size), p), ptr |-> new.ptr]

-----------------------------------------------------------------------------
(***************************************************************************)
(* The client.                                                             *)
(***************************************************************************)

\* The client writes all the bytes of its block at p: the last three words of the
\* first unit and all words of the others.
Write(m, p, n, word) ==
  [m EXCEPT !.tag = [a \in Node |-> IF a \in p + 1 .. p + n - 1 THEN word ELSE @[a]],
            !.prev = [a \in Node |-> IF a \in p .. p + n - 1 THEN word ELSE @[a]],
            !.next = [a \in Node |-> IF a \in p .. p + n - 1 THEN word ELSE @[a]],
            !.foot = [a \in Unit |-> IF a \in p .. p + n - 1 THEN word ELSE @[a]]]

\* The client writes the bytes that its block at p has got beyond the first k units.
WriteEnd(m, p, k, n, word) ==
  [m EXCEPT !.tag = [a \in Node |-> IF a \in p + k .. p + n - 1 THEN word ELSE @[a]],
            !.prev = [a \in Node |-> IF a \in p + k .. p + n - 1 THEN word ELSE @[a]],
            !.next = [a \in Node |-> IF a \in p + k .. p + n - 1 THEN word ELSE @[a]],
            !.foot = [a \in Unit |-> IF a \in p + k .. p + n - 1 THEN word ELSE @[a]]]

\* All the bytes of n units of payload at p are still the word.
Holds(m, p, n, word) ==
  /\ \A a \in p .. p + n - 1 : {m.prev[a], m.next[a], m.foot[a]} = {word}
  /\ \A a \in p + 1 .. p + n - 1 : m.tag[a] = word

Without(p) == Restrict(live, DOMAIN live \ {p})

With(f, p, block) == [b \in DOMAIN f \cup {p} |-> IF b = p THEN block ELSE f[b]]

\* The bound of the model: the client asks for no more than the heap has left, or
\* for no more than the model has addresses.
HasRoom(m) == m.top <= MAX_HEAP \/ (MayRunOut /\ m.top < 2 * MAX_HEAP)

Init == heap = mm_init(fresh) /\ live = << >>

Malloc(n, word) ==
  LET r == mm_malloc(heap, n)
  IN  /\ HasRoom(r.heap)
      /\ heap' = Write(r.heap, r.ptr, n, word)
      /\ live' = With(live, r.ptr, [size |-> n, word |-> word])

Free(p) == heap' = mm_free(heap, p) /\ live' = Without(p)

\* What the block has held is not written again: realloc is to keep it.
Realloc(p, n) ==
  LET r == mm_realloc(heap, p, n)
      word == live[p].word
  IN  /\ HasRoom(r.heap)
      /\ heap' = WriteEnd(r.heap, r.ptr, live[p].size, n, word)
      /\ live' = With(Without(p), r.ptr, [size |-> n, word |-> word])

Next == \/ \E n \in Requests, word \in Data : Malloc(n, word)
        \/ \E p \in DOMAIN live : Free(p) \/ \E n \in Requests : Realloc(p, n)

Spec == Init /\ [][Next]_vars

-----------------------------------------------------------------------------
(***************************************************************************)
(* mm_check, the checker of the memory structure.                          *)
(***************************************************************************)

\* Where the chunks begin that are met from the start of the heap on, and where
\* the last one ends.
Boundaries(m) ==
  LET met[k \in 0 .. MAX_HEAP] ==
        IF k = 0 THEN {0}
        ELSE LET b == met[k - 1]
             IN  b \cup {c + m.tag[c].size : c \in {c \in b : c < m.top}}
  IN  met[MAX_HEAP]

Chunks(m) == Boundaries(m) \ {m.top}

FreeChunks(m) == {c \in Chunks(m) : ~m.tag[c].used}

\* What is met from header h along the next links.
Reached(m, h) ==
  LET met[k \in 0 .. MAX_HEAP] ==
        IF k = 0 THEN {m.next[h]}
        ELSE LET b == met[k - 1] IN b \cup {m.next[a] : a \in b}
  IN  met[MAX_HEAP]

\* Each list comes back to its header, the two tags of a free chunk agree, and the
\* chunks end where the heap ends: else mm_check never returns or aborts.
mm_check(m) ==
  /\ \A h \in Header : h \in Reached(m, h)
  /\ m.top \in Boundaries(m) /\ Boundaries(m) \subseteq 0 .. m.top
  /\ \A c \in FreeChunks(m) : m.foot[c + m.tag[c].size - 1] = m.tag[c].size

-----------------------------------------------------------------------------
(***************************************************************************)
(* Properties.                                                             *)
(***************************************************************************)

\* mm_check, which nothing calls, would find no fault after any sequence of calls, and
\* the chunks that it meets as used ones are those of the client's blocks, one for each
\* and large enough (mm.c:142-168).
HeapIsTiled ==
  LET used == Chunks(heap) \ FreeChunks(heap)
  IN  /\ heap \in Heap /\ mm_check(heap)
      /\ \A p \in DOMAIN live : p \in used /\ heap.tag[p].size >= live[p].size
      /\ Cardinality(used) = Cardinality(DOMAIN live)

\* A cleared PUSED bit is true: the chunk before is free and the word before the
\* tag is its size, so mm_free joins the right chunk (mm.c:280-287).
PusedIsTrue ==
  \A c \in Chunks(heap) :
    ~heap.tag[c].pused => /\ heap.foot[c - 1] \notin Data
                          /\ Before(heap, c) \in FreeChunks(heap)

\* Each free list holds the free chunks of its sizes and nothing else, and its
\* links agree in both directions (mm.c:18-29, 114-128).
FreeListsAreExact ==
  \A h \in Header :
    /\ Reached(heap, h) \ {h} =
         {c \in FreeChunks(heap) : get_header(heap.tag[c].size) = h}
    /\ \A a \in Reached(heap, h) \cup {h} : /\ heap.next[heap.prev[a]] = a
                                            /\ heap.prev[heap.next[a]] = a

\* No word that the client has written in a block it still holds is changed by the
\* allocator, and when realloc moves the block the words move with it, as many as the old
\* and the new size share (mm.c:341-344, mdriver.c:615-633).
PayloadIntact == \A p \in DOMAIN live : Holds(heap, p, live[p].size, live[p].word)

Abstract == INSTANCE AbstractHeap
  WITH blocks <- [p \in DOMAIN live |-> live[p].size], extent <- heap.brk, Places <- Unit

\* The allocator implements AbstractHeap: blocks lie in the heap and overlap no
\* other block, and only free and realloc take a block from the client.
ImplementsAbstractHeap == Abstract!AbsSpec

=============================================================================
