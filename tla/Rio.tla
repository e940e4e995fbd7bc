-------------------------------- MODULE Rio --------------------------------
(***************************************************************************)
(* The Rio package of lab9 (csapp.c): robust writing and reading over a    *)
(* connection whose calls of read and write may do less than they were     *)
(* asked for, may be interrupted by a signal, and may fail.  One process   *)
(* sends a stream with rio_writen; another takes it off in lines and       *)
(* numbers of bytes, either with the unbuffered functions (rio_readn, the  *)
(* readline that the proxy uses, readEH) or with the buffered ones         *)
(* (rio_readlineb, rio_readnb).  A step is one system call, or one copy    *)
(* out of the buffer.                                                      *)
(***************************************************************************)
EXTENDS Integers, Sequences, SequencesExt, FiniteSetsExt

CONSTANTS Length,       \* bytes of the stream; a byte is its number
          Newlines,     \* those that end a line
          PIPE,         \* bytes the kernel holds between the two
          RIO_BUFSIZE,  \* size of the buffer of a rio_t
          Sizes,        \* bytes to be read, and sizes of line buffers
          SIGNALS       \* bound: signals that come

ASSUME SizesAssumption ==
         Length \in Nat /\ PIPE \in Nat /\ RIO_BUFSIZE \in Nat /\ Sizes \subseteq Nat

VARIABLES w,            \* rio_writen: what is left, and where it is
          pipe, end,    \* the bytes in the kernel; "open", "closed", "reset", "gone"
          r,            \* the reading call
          rio,          \* the rio_t: rio_cnt, and the bytes from rio_bufptr on
          ret,          \* what the last reading call returned
          interrupted,  \* the processes whose next call of the kernel ends with EINTR
          signals       \* signals that may still come

vars == <<w, pipe, end, r, rio, ret, interrupted, signals>>

Stream == [k \in 1 .. Length |-> k]

First(s, k) == SubSeq(s, 1, k)
Behind(s, k) == SubSeq(s, k + 1, Len(s))

-----------------------------------------------------------------------------
(***************************************************************************)
(* The writer.                                                             *)
(***************************************************************************)

\* The call of write is interrupted, and made again.
WriteInterrupted == /\ w.pc = "writing" /\ "writer" \in interrupted
                    /\ interrupted' = interrupted \ {"writer"}
                    /\ UNCHANGED <<w, pipe, end, r, rio, ret, signals>>

\* rio_writen returns -1.
WriteFails == /\ w.pc = "writing" /\ "writer" \notin interrupted /\ end # "open"
              /\ w' = [w EXCEPT !.pc = "failed"]
              /\ UNCHANGED <<pipe, end, r, rio, ret, interrupted, signals>>

\* The kernel takes some of the bytes; with the last ones rio_writen returns.
Write ==
  /\ w.pc = "writing" /\ "writer" \notin interrupted /\ end = "open"
  /\ \E k \in 1 .. Min({Len(w.left), PIPE - Len(pipe)}) :
       /\ pipe' = pipe \o First(w.left, k)
       /\ w' = [left |-> Behind(w.left, k),
                pc |-> IF k = Len(w.left) THEN "written" ELSE "writing"]
  /\ UNCHANGED <<end, r, rio, ret, interrupted, signals>>

\* The writer closes its end.
CloseEnd == /\ w.pc = "written" /\ end = "open"
            /\ end' = "closed"
            /\ UNCHANGED <<w, pipe, r, rio, ret, interrupted, signals>>

-----------------------------------------------------------------------------
(***************************************************************************)
(* The reader.  A call goes on until its result is complete: all the bytes *)
(* asked for, or a line, or a full line buffer.                            *)
(***************************************************************************)
Reading == r.op # "none"

\* Mutant: what the first call of read has given is enough.
Complete_first == IF r.op = "bytes" THEN Len(r.got) = r.n \/ r.got # << >>
                  ELSE \/ Len(r.got) >= r.n - 1
                       \/ r.got # << >> /\ Last(r.got) \in Newlines

Complete == IF r.op = "bytes" THEN Len(r.got) = r.n
            ELSE \/ Len(r.got) >= r.n - 1
                 \/ r.got # << >> /\ Last(r.got) \in Newlines

\* What the next call of read, or of rio_read, is asked for.
Wanted == IF r.op = "bytes" THEN r.n - Len(r.got) ELSE 1

Idle == r' = [r EXCEPT !.op = "none", !.n = 0, !.got = << >>]

Answer(bytes) == ret' = [n |-> Len(bytes), bytes |-> bytes] /\ Idle

Call(op, n) == /\ ~Reading
               /\ r' = [r EXCEPT !.op = op, !.n = n]
               /\ UNCHANGED <<w, pipe, end, rio, ret, interrupted, signals>>

Return == /\ Reading /\ Complete
          /\ Answer(r.got)
          /\ UNCHANGED <<w, pipe, end, rio, interrupted, signals>>

\* A call of read for at most max bytes; rio_cnt becomes cnt when it is the buffer's.
AtKernel == Reading /\ ~Complete /\ (r.buffered => rio.cnt <= 0)

Cnt(n) == rio' = IF r.buffered THEN [rio EXCEPT !.cnt = n] ELSE rio

\* The call is interrupted, and made again.
ReadInterrupted == /\ AtKernel /\ "reader" \in interrupted
                   /\ interrupted' = interrupted \ {"reader"} /\ Cnt(-1)
                   /\ UNCHANGED <<w, pipe, end, r, ret, signals>>

\* It fails: the call returns -1, whatever it has already got.
ReadFails == /\ AtKernel /\ "reader" \notin interrupted /\ end = "reset"
             /\ end' = "gone" /\ Cnt(-1)
             /\ ret' = [n |-> -1, bytes |-> << >>] /\ Idle
             /\ UNCHANGED <<w, pipe, interrupted, signals>>

\* Mutant: rio_read does not look for the end of the stream.
ReadEnds_unseen == /\ AtKernel /\ "reader" \notin interrupted /\ ~r.buffered
                   /\ pipe = << >> /\ end \in {"closed", "gone"}
                   /\ Answer(r.got) /\ Cnt(0)
                   /\ UNCHANGED <<w, pipe, end, interrupted, signals>>

\* It finds the end of the stream: the call returns what it has got.
ReadEnds == /\ AtKernel /\ "reader" \notin interrupted
            /\ pipe = << >> /\ end \in {"closed", "gone"}
            /\ Answer(r.got) /\ Cnt(0)
            /\ UNCHANGED <<w, pipe, end, interrupted, signals>>

\* It gets some bytes, for the call or for the buffer.
ReadGets ==
  /\ AtKernel /\ "reader" \notin interrupted
  /\ \E k \in 1 .. Min({Len(pipe), IF r.buffered THEN RIO_BUFSIZE ELSE Wanted}) :
       /\ pipe' = Behind(pipe, k)
       /\ IF r.buffered
          THEN rio' = [cnt |-> k, bytes |-> First(pipe, k)] /\ UNCHANGED r
          ELSE r' = [r EXCEPT !.got = @ \o First(pipe, k)] /\ UNCHANGED rio
  /\ UNCHANGED <<w, end, ret, interrupted, signals>>

\* rio_read serves the call from the buffer.
CopyOut ==
  /\ Reading /\ ~Complete /\ r.buffered /\ rio.cnt > 0
  /\ LET k == Min({Wanted, rio.cnt})
     IN  /\ r' = [r EXCEPT !.got = @ \o First(rio.bytes, k)]
         /\ rio' = [cnt |-> rio.cnt - k, bytes |-> Behind(rio.bytes, k)]
  /\ UNCHANGED <<w, pipe, end, ret, interrupted, signals>>

-----------------------------------------------------------------------------
(***************************************************************************)
(* Signals, and connections that break.                                    *)
(***************************************************************************)
Signal(p) == /\ signals > 0 /\ p \notin interrupted
             /\ signals' = signals - 1 /\ interrupted' = interrupted \cup {p}
             /\ UNCHANGED <<w, pipe, end, r, rio, ret>>

Break == /\ end \in {"open", "closed"}
         /\ end' = "reset" /\ pipe' = << >>
         /\ UNCHANGED <<w, r, rio, ret, interrupted, signals>>

\* rio_readinitb gives an empty buffer.
Init == /\ w = [left |-> Stream, pc |-> "writing"]
        /\ pipe = << >> /\ end = "open"
        /\ \E b \in BOOLEAN : r = [op |-> "none", n |-> 0, got |-> << >>, buffered |-> b]
        /\ rio = [cnt |-> 0, bytes |-> << >>]
        /\ ret = [n |-> 0, bytes |-> << >>]
        /\ interrupted = {} /\ signals = SIGNALS

Writer == WriteInterrupted \/ WriteFails \/ Write \/ CloseEnd

Reader == \/ Return \/ ReadInterrupted \/ ReadFails \/ ReadEnds \/ ReadGets \/ CopyOut

Next == \/ Writer \/ Reader
        \/ \E op \in {"bytes", "line"}, n \in Sizes : Call(op, n)
        \/ \E p \in {"writer", "reader"} : Signal(p)
        \/ Break

\* Both processes are scheduled.
Spec == Init /\ [][Next]_vars /\ WF_vars(Writer) /\ WF_vars(Reader)

-----------------------------------------------------------------------------
(***************************************************************************)
(* Properties.                                                             *)
(***************************************************************************)
Promise == INSTANCE ByteStream WITH
  rest <- r.got \o rio.bytes \o pipe \o (IF end = "open" THEN w.left ELSE << >>),
  ended <- end # "open",
  call <- [op |-> r.op, n |-> r.n],
  last <- ret

\* However the kernel cuts the stream up, and whatever interrupts the calls, each
\* reading call returns exactly what it was asked for, the next line or that number of
\* the next bytes: in order, nothing twice, nothing skipped, and less only when the
\* stream has ended and has no more (csapp.c:690-820).
ImplementsByteStream == Promise!StreamSpec

\* A reading call returns: while the writer goes on, and closes its end when all is
\* written, no call waits for ever, be it interrupted or served from the buffer.
CallsReturn == Reading ~> ~Reading

=============================================================================
