----------------------------- MODULE ByteStream -----------------------------
(***************************************************************************)
(* What the reading calls of the Rio package promise (csapp.c:690-820): a  *)
(* call that is asked for a line, or for a number of bytes, takes just that *)
(* off the front of the stream in one step, however the bytes come in.     *)
(***************************************************************************)
EXTENDS Integers, Sequences, SequencesExt, FiniteSetsExt

CONSTANTS Sizes,     \* what the calls are asked for
          Stream,    \* all that is ever sent
          Newlines   \* the bytes that end a line

VARIABLES rest,      \* the bytes that no call has returned yet
          ended,     \* nothing more will come
          call,      \* the call that has not returned yet: what, and how much, it is to read
          last       \* what the last call returned: a number, and the bytes

streamVars == <<rest, ended, call, last>>

NoCall == [op |-> "none", n |-> 0]

\* A call for bytes, or for a line, of at most n.
Ask(op, n) == /\ call = NoCall /\ call' = [op |-> op, n |-> n]
              /\ UNCHANGED <<rest, ended, last>>

\* The call returns the first k bytes.
Take(k) == /\ last' = [n |-> k, bytes |-> SubSeq(rest, 1, k)]
           /\ rest' = SubSeq(rest, k + 1, Len(rest))
           /\ call' = NoCall /\ UNCHANGED ended

\* The bytes it was asked for, or fewer if the stream has ended.
Bytes == /\ call.op = "bytes"
         /\ call.n <= Len(rest) \/ ended
         /\ Take(Min({call.n, Len(rest)}))

\* A line with its newline, or the first bytes of it that fit into a buffer of n with a 0.
Line ==
  LET stops == {k \in 0 .. Len(rest) : k >= call.n - 1 \/ (k > 0 /\ rest[k] \in Newlines)}
  IN  /\ call.op = "line"
      /\ stops # {} \/ ended
      /\ Take(IF stops = {} THEN Len(rest) ELSE Min(stops))

\* The stream ends, or breaks off somewhere, even after its end was sent.
Cut == ended' = TRUE /\ IsPrefix(rest', rest) /\ UNCHANGED <<call, last>>

\* After that a call may fail; what it had taken is lost.
Error == /\ call # NoCall /\ call' = NoCall
         /\ ended /\ UNCHANGED ended
         /\ last' = [n |-> -1, bytes |-> << >>]
         /\ IsSuffix(rest', rest)

StreamInit == /\ rest = Stream /\ ended = FALSE /\ call = NoCall
              /\ last = [n |-> 0, bytes |-> << >>]

StreamNext == \/ \E op \in {"bytes", "line"}, n \in Sizes : Ask(op, n)
              \/ Bytes \/ Line \/ Cut \/ Error

StreamSpec == StreamInit /\ [][StreamNext]_streamVars

=============================================================================
