---------------------------- MODULE AbstractHeap ----------------------------
(***************************************************************************)
(* What an allocator promises its client, as the driver of lab10 checks it *)
(* (mdriver.c:341-399, 570-640): a block it hands out lies within the      *)
(* extent of the heap and overlaps no block the client holds, and it takes *)
(* back only what the client gives back.  Sizes and addresses count units  *)
(* of ALIGNMENT bytes.                                                     *)
(***************************************************************************)
EXTENDS Naturals, Functions

CONSTANTS Requests,  \* sizes the client asks for
          Places     \* addresses

VARIABLES blocks,    \* the client's blocks: a function from addresses to sizes
          extent     \* size of the heap

absVars == <<blocks, extent>>

Span(b, n) == b .. b + n - 1

Disjoint(B, b, n) == \A c \in DOMAIN B : Span(b, n) \cap Span(c, B[c]) = {}

Hold(B, b, n) == [c \in DOMAIN B \cup {b} |-> IF c = b THEN n ELSE B[c]]

AbsInit == blocks = << >> /\ extent = 0

\* b is a place for n units next to the blocks of B.
Fits(B, b, n) == Disjoint(B, b, n) /\ b + n <= extent'

Alloc(b, n) == /\ Fits(blocks, b, n)
               /\ blocks' = Hold(blocks, b, n)

Release(b) == blocks' = Restrict(blocks, DOMAIN blocks \ {b})

\* The new place may overlap the old one, and no other block.
Resize(b, c, n) ==
  LET others == Restrict(blocks, DOMAIN blocks \ {b})
  IN  Fits(others, c, n) /\ blocks' = Hold(others, c, n)

AbsNext ==
  /\ extent' >= extent
  /\ \E b \in Places, n \in Requests :
       \/ Alloc(b, n)
       \/ \E c \in DOMAIN blocks : Resize(c, b, n) \/ Release(c)

AbsSpec == AbsInit /\ [][AbsNext]_absVars

=============================================================================
