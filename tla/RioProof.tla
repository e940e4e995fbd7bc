------------------------------ MODULE RioProof -------------------------------
(***************************************************************************)
(* The Rio package keeps the promise of ByteStream, for every stream, every *)
(* size of the buffer and of the pipe, and every way the calls of the      *)
(* kernel cut the stream up.                                               *)
(***************************************************************************)
EXTENDS Rio, Lemmas

-----------------------------------------------------------------------------
(***************************************************************************)
(* Sequences of bytes.                                                     *)
(***************************************************************************)
Str == Seq(1 .. Length)

\* A string is its first k bytes and those behind.
LEMMA SplitAt ==
  ASSUME NEW s \in Str, NEW k \in 0 .. Len(s)
  PROVE  /\ First(s, k) \in Str /\ Len(First(s, k)) = k
         /\ Behind(s, k) \in Str /\ Len(Behind(s, k)) = Len(s) - k
         /\ First(s, k) \o Behind(s, k) = s
BY SeqSplit DEF First, Behind, Str

\* What SubSeq takes from two strings one behind the other.
LEMMA SplitConcat ==
  ASSUME NEW s \in Str, NEW t \in Str
  PROVE  /\ s \o t \in Str /\ Len(s \o t) = Len(s) + Len(t)
         /\ Len(s) \in Nat /\ Len(t) \in Nat
         /\ \A i \in 1 .. Len(s) : (s \o t)[i] = s[i]
         /\ SubSeq(s \o t, 1, Len(s)) = s
         /\ SubSeq(s \o t, Len(s) + 1, Len(s \o t)) = t
BY SeqJoin DEF Str

\* Two strings one behind the other begin with the one and end with the other.
LEMMA PrefixAndSuffix ==
  ASSUME NEW s \in Str, NEW t \in Str
  PROVE  IsPrefix(s, s \o t) /\ IsSuffix(t, s \o t)
<1>1. IsPrefix(s, s \o t)
  <2>1. SubSeq(s, 1, Len(s)) = s
    BY SubSeqFull DEF Str
  <2> QED
    BY <2>1, SplitConcat DEF IsPrefix
<1>2. IsSuffix(t, s \o t)
  <2> DEFINE u == s \o t
             a == Reverse(t)
             b == Reverse(u)
             c == Reverse(s)
  <2>1. /\ Len(s) \in Nat /\ Len(t) \in Nat /\ u \in Str /\ Len(u) = Len(s) + Len(t)
        /\ \A i \in 1 .. Len(s) + Len(t) : u[i] = IF i <= Len(s) THEN s[i] ELSE t[i - Len(s)]
    BY LenProperties, ConcatProperties DEF Str
  <2> HIDE DEF u
  <2>2. /\ a = [i \in 1 .. Len(t) |-> t[Len(t) - i + 1]]
        /\ b = [i \in 1 .. Len(u) |-> u[Len(u) - i + 1]]
        /\ c = [i \in 1 .. Len(s) |-> s[Len(s) - i + 1]]
    BY DEF Reverse
  <2> HIDE DEF a, b, c
  <2>3. a \in Str /\ b \in Str /\ c \in Str
    <3>1. \A x \in Str : Len(x) \in Nat /\ \A i \in 1 .. Len(x) : x[i] \in 1 .. Length
      BY LenProperties, ElementOfSeq DEF Str
    <3>2. ASSUME NEW x \in Str
          PROVE  [i \in 1 .. Len(x) |-> x[Len(x) - i + 1]] \in Str
      <4>1. \A i \in 1 .. Len(x) : Len(x) - i + 1 \in 1 .. Len(x)
        BY <3>1
      <4>2. [i \in 1 .. Len(x) |-> x[Len(x) - i + 1]] \in [1 .. Len(x) -> 1 .. Length]
        BY <3>1, <4>1
      <4> QED
        BY <3>1, <4>2 DEF Str
    <3> QED
      BY <2>1, <2>2, <3>2
  <2>4. Len(a) = Len(t) /\ Len(b) = Len(u) /\ Len(c) = Len(s)
    BY <2>1, <2>2
  <2>5. b = a \o c
    <3>1. /\ a \o c \in Str /\ Len(a \o c) = Len(t) + Len(s)
          /\ \A i \in 1 .. Len(t) + Len(s) :
               (a \o c)[i] = IF i <= Len(t) THEN a[i] ELSE c[i - Len(t)]
      <4>1. /\ a \o c \in Str /\ Len(a \o c) = Len(a) + Len(c)
            /\ \A i \in 1 .. Len(a) + Len(c) :
                 (a \o c)[i] = IF i <= Len(a) THEN a[i] ELSE c[i - Len(a)]
        BY <2>3, ConcatProperties DEF Str
      <4> QED
        BY <2>4, <4>1
    <3>2. ASSUME NEW i \in 1 .. Len(b)
          PROVE  b[i] = (a \o c)[i]
      <4>1. i \in 1 .. Len(u) /\ b[i] = u[Len(u) - i + 1]
        BY <2>1, <2>2, <2>4
      <4>2. CASE i <= Len(t)
        <5>1. /\ Len(u) - i + 1 \in 1 .. Len(s) + Len(t) /\ ~(Len(u) - i + 1 <= Len(s))
              /\ Len(u) - i + 1 - Len(s) = Len(t) - i + 1 /\ i \in 1 .. Len(t)
          BY <2>1, <4>1, <4>2
        <5>2. b[i] = t[Len(t) - i + 1]
          BY <2>1, <4>1, <5>1
        <5> QED
          BY <2>1, <2>2, <3>1, <4>1, <4>2, <5>1, <5>2
      <4>3. CASE ~(i <= Len(t))
        <5>1. /\ Len(u) - i + 1 \in 1 .. Len(s) + Len(t) /\ Len(u) - i + 1 <= Len(s)
              /\ Len(s) - (i - Len(t)) + 1 = Len(u) - i + 1 /\ i - Len(t) \in 1 .. Len(s)
              /\ i \in 1 .. Len(t) + Len(s)
          BY <2>1, <4>1, <4>3
        <5>2. b[i] = s[Len(u) - i + 1]
          BY <2>1, <4>1, <5>1
        <5>3. c[i - Len(t)] = s[Len(u) - i + 1]
          BY <2>2, <5>1
        <5>4. (a \o c)[i] = c[i - Len(t)]
          BY <3>1, <4>3, <5>1
        <5> QED
          BY <5>2, <5>3, <5>4
      <4> QED
        BY <4>2, <4>3
    <3>3. Len(b) = Len(a \o c)
      BY <2>1, <2>4, <3>1
    <3> QED
      BY <2>3, <3>1, <3>2, <3>3, SeqEqual DEF Str
  <2>6. IsPrefix(a, a \o c)
    <3>1. SubSeq(a, 1, Len(a)) = a
      BY <2>3, SubSeqFull DEF Str
    <3> QED
      BY <2>3, <3>1, SplitConcat DEF IsPrefix
  <2> QED
    BY <2>5, <2>6 DEF IsSuffix, u, a, b
<1> QED
  BY <1>1, <1>2

-----------------------------------------------------------------------------
(***************************************************************************)
(* The invariant.                                                          *)
(***************************************************************************)
TypeInv ==
  /\ w \in [left : Str, pc : {"writing", "written", "failed"}]
  /\ pipe \in Str
  /\ r \in [op : {"none", "bytes", "line"}, n : Nat, got : Str, buffered : BOOLEAN]
  /\ rio \in [cnt : Int, bytes : Str]

\* What a call has got so far is no more than it was asked for, and ends no line before
\* its last byte.
SoFar(q) ==
  /\ q.op = "none" => q.got = << >> /\ q.n = 0
  /\ q.op # "none" => q.n \in Sizes
  /\ q.op = "bytes" => Len(q.got) <= q.n
  /\ q.op = "line" => /\ q.got = << >> \/ Len(q.got) < q.n
                      /\ \A k \in 1 .. Len(q.got) - 1 : q.got[k] \notin Newlines

\* rio_cnt counts the bytes in the buffer, where only buffered calls put any.
Buffer ==
  /\ rio.cnt > 0 => rio.cnt = Len(rio.bytes)
  /\ rio.cnt <= 0 => rio.bytes = << >>
  /\ ~r.buffered => rio.bytes = << >>

AllWritten == w.pc = "written" => w.left = << >>

IInv == TypeInv /\ SoFar(r) /\ Buffer /\ AllWritten

\* The fields of the records.
LEMMA Fields ==
  ASSUME TypeInv
  PROVE  /\ w.left \in Str /\ pipe \in Str /\ r.got \in Str /\ rio.bytes \in Str
         /\ r.n \in Nat /\ r.buffered \in BOOLEAN /\ rio.cnt \in Int
         /\ r.op \in {"none", "bytes", "line"}
BY DEF TypeInv

\* More bytes, as many as were wanted at most, leave the call's result as it should be.
LEMMA GotMore ==
  ASSUME TypeInv, SoFar(r), Reading, ~Complete, NEW t \in Str, t # << >>, Len(t) <= Wanted
  PROVE  /\ [r EXCEPT !.got = @ \o t] \in
              [op : {"none", "bytes", "line"}, n : Nat, got : Str, buffered : BOOLEAN]
         /\ SoFar([r EXCEPT !.got = @ \o t])
<1> DEFINE q == [r EXCEPT !.got = @ \o t]
           g == r.got
<1>1. g \in Str /\ r.n \in Nat /\ r.op \in {"bytes", "line"}
  BY DEF TypeInv, Reading
<1>2. /\ g \o t \in Str /\ Len(g \o t) = Len(g) + Len(t)
      /\ Len(g) \in Nat /\ Len(t) \in Nat
      /\ \A i \in 1 .. Len(g) : (g \o t)[i] = g[i]
  BY <1>1, SplitConcat
<1>3. q.op = r.op /\ q.n = r.n /\ q.got = g \o t
  BY DEF TypeInv
<1>4. q \in [op : {"none", "bytes", "line"}, n : Nat, got : Str, buffered : BOOLEAN]
  BY <1>2 DEF TypeInv
<1>5. q.n \in Sizes
  BY <1>1, <1>3 DEF SoFar
<1>6. ASSUME r.op = "bytes"
      PROVE  Len(q.got) <= q.n
  BY <1>1, <1>2, <1>3, <1>6 DEF Wanted
<1>7. ASSUME r.op = "line"
      PROVE  /\ Len(q.got) < q.n
             /\ \A k \in 1 .. Len(q.got) - 1 : q.got[k] \notin Newlines
  <2>1. /\ ~(Len(g) >= r.n - 1) /\ (g # << >> => g[Len(g)] \notin Newlines)
        /\ Len(t) <= 1
    BY <1>7 DEF Complete, Wanted, Last
  <2>2. \A k \in 1 .. Len(g) - 1 : g[k] \notin Newlines
    BY <1>7 DEF SoFar
  <2>3. Len(q.got) < q.n
    BY <1>1, <1>2, <1>3, <2>1
  <2>4. ASSUME NEW k \in 1 .. Len(q.got) - 1
        PROVE  q.got[k] \notin Newlines
    <3>1. k \in 1 .. Len(g) /\ q.got[k] = g[k]
      BY <1>2, <1>3, <2>1
    <3>2. g # << >>
      BY <3>1
    <3> QED
      BY <1>2, <2>1, <2>2, <3>1, <3>2
  <2> QED
    BY <2>3, <2>4
<1> HIDE DEF q
<1>8. SoFar(q)
  BY <1>1, <1>3, <1>5, <1>6, <1>7 DEF SoFar
<1> QED
  BY <1>4, <1>8 DEF q

\* Every step keeps it.
LEMMA KeepsIInv == IInv /\ [Next]_vars => IInv'
<1> SUFFICES ASSUME IInv, [Next]_vars
             PROVE  IInv'
  OBVIOUS
<1> USE DEF IInv
<1>1. CASE UNCHANGED vars
  BY <1>1 DEF vars, TypeInv, SoFar, Buffer, AllWritten
<1>2. CASE WriteInterrupted
  BY <1>2 DEF WriteInterrupted, TypeInv, SoFar, Buffer, AllWritten
<1>3. CASE WriteFails
  BY <1>3 DEF WriteFails, TypeInv, SoFar, Buffer, AllWritten
<1>4. CASE Write
  <2>1. PICK k \in 1 .. Min({Len(w.left), PIPE - Len(pipe)}) :
          /\ pipe' = pipe \o First(w.left, k)
          /\ w' = [left |-> Behind(w.left, k),
                   pc |-> IF k = Len(w.left) THEN "written" ELSE "writing"]
    BY <1>4 DEF Write
  <2>2. w.left \in Str /\ pipe \in Str /\ Len(w.left) \in Nat /\ Len(pipe) \in Nat
    BY Fields, LenProperties DEF Str
  <2>3. k \in 0 .. Len(w.left)
    <3> DEFINE room == PIPE - Len(pipe)
    <3>1. room \in Int
      BY <2>2, SizesAssumption
    <3> HIDE DEF room
    <3>2. Min({Len(w.left), room}) = IF Len(w.left) <= room THEN Len(w.left) ELSE room
      BY <2>2, <3>1, MinOfTwo
    <3> QED
      BY <2>2, <3>1, <3>2 DEF room
  <2>4. /\ First(w.left, k) \in Str /\ Behind(w.left, k) \in Str
        /\ Len(Behind(w.left, k)) = Len(w.left) - k
    BY <2>2, <2>3, SplitAt
  <2>5. pipe' \in Str /\ w' \in [left : Str, pc : {"writing", "written", "failed"}]
    BY <2>1, <2>2, <2>4, SplitConcat
  <2>6. w'.pc = "written" => w'.left = << >>
    <3>1. ASSUME k = Len(w.left)
          PROVE  w'.left = << >>
      BY <2>1, <2>2, <2>4, <3>1, EmptySeq DEF Str
    <3> QED
      BY <2>1, <3>1
  <2>7. r' = r /\ rio' = rio
    BY <1>4 DEF Write
  <2> QED
    BY <2>5, <2>6, <2>7 DEF TypeInv, SoFar, Buffer, AllWritten
<1>5. CASE CloseEnd
  BY <1>5 DEF CloseEnd, TypeInv, SoFar, Buffer, AllWritten
<1>6. ASSUME r' = [r EXCEPT !.op = "none", !.n = 0, !.got = << >>], w' = w, pipe' = pipe,
             rio'.bytes = rio.bytes, rio' \in [cnt : Int, bytes : Str],
             rio' = rio \/ (rio.bytes = << >> /\ rio'.cnt <= 0)
      PROVE  IInv'
  <2>1. << >> \in Str
    BY EmptySeq DEF Str
  <2>2. r' \in [op : {"none", "bytes", "line"}, n : Nat, got : Str, buffered : BOOLEAN]
    BY <1>6, <2>1 DEF TypeInv
  <2>3. r'.op = "none" /\ r'.got = << >> /\ r'.buffered = r.buffered
    BY <1>6 DEF TypeInv
  <2>4. Buffer'
    <3>1. rio'.cnt \in Int
      BY <1>6
    <3> QED
      BY <1>6, <2>3, <3>1 DEF Buffer, TypeInv
  <2> QED
    BY <1>6, <2>2, <2>3, <2>4 DEF TypeInv, SoFar, AllWritten
<1>7. ASSUME NEW m \in Int, m <= 0, AtKernel, Cnt(m)
      PROVE  /\ rio'.bytes = rio.bytes /\ rio' \in [cnt : Int, bytes : Str]
             /\ rio' = rio \/ (rio.bytes = << >> /\ rio'.cnt <= 0)
  BY <1>7 DEF AtKernel, Cnt, TypeInv, Buffer
<1>8. CASE Return
  BY <1>6, <1>8 DEF Return, Answer, Idle, TypeInv
<1>9. CASE ReadInterrupted
  <2>1. /\ rio'.bytes = rio.bytes /\ rio' \in [cnt : Int, bytes : Str]
        /\ rio' = rio \/ (rio.bytes = << >> /\ rio'.cnt <= 0)
    BY <1>7, <1>9 DEF ReadInterrupted
  <2>2. w' = w /\ pipe' = pipe /\ r' = r
    BY <1>9 DEF ReadInterrupted
  <2> QED
    BY <2>1, <2>2 DEF TypeInv, SoFar, Buffer, AllWritten
<1>10. CASE ReadFails
  <2>1. /\ rio'.bytes = rio.bytes /\ rio' \in [cnt : Int, bytes : Str]
        /\ rio' = rio \/ (rio.bytes = << >> /\ rio'.cnt <= 0)
    BY <1>7, <1>10 DEF ReadFails
  <2> QED
    BY <1>6, <1>10, <2>1 DEF ReadFails, Idle
<1>11. CASE ReadEnds
  <2>1. /\ rio'.bytes = rio.bytes /\ rio' \in [cnt : Int, bytes : Str]
        /\ rio' = rio \/ (rio.bytes = << >> /\ rio'.cnt <= 0)
    BY <1>7, <1>11 DEF ReadEnds
  <2> QED
    BY <1>6, <1>11, <2>1 DEF ReadEnds, Answer, Idle
<1>12. CASE ReadGets
  <2> DEFINE max == IF r.buffered THEN RIO_BUFSIZE ELSE Wanted
  <2>1. PICK k \in 1 .. Min({Len(pipe), max}) :
          /\ pipe' = Behind(pipe, k)
          /\ IF r.buffered
             THEN rio' = [cnt |-> k, bytes |-> First(pipe, k)] /\ UNCHANGED r
             ELSE r' = [r EXCEPT !.got = @ \o First(pipe, k)] /\ UNCHANGED rio
    BY <1>12 DEF ReadGets
  <2>2. pipe \in Str /\ Len(pipe) \in Nat /\ Wanted \in Int /\ RIO_BUFSIZE \in Int
    BY Fields, LenProperties, SizesAssumption DEF Str, Wanted
  <2>3. max \in Int
    BY <2>2
  <2>4. k \in 0 .. Len(pipe) /\ k > 0 /\ k <= max
    <3> HIDE DEF max
    <3>1. Min({Len(pipe), max}) = IF Len(pipe) <= max THEN Len(pipe) ELSE max
      BY <2>2, <2>3, MinOfTwo
    <3> QED
      BY <2>2, <2>3, <3>1
  <2>5. /\ First(pipe, k) \in Str /\ Len(First(pipe, k)) = k /\ Behind(pipe, k) \in Str
    BY <2>2, <2>4, SplitAt
  <2>6. w' = w
    BY <1>12 DEF ReadGets
  <2>7. CASE r.buffered
    <3>1. /\ rio'.cnt = k /\ rio'.bytes = First(pipe, k) /\ r' = r
          /\ rio' \in [cnt : Int, bytes : Str] /\ pipe' = Behind(pipe, k)
      BY <2>1, <2>4, <2>5, <2>7
    <3>2. Buffer'
      BY <2>4, <2>5, <2>7, <3>1 DEF Buffer
    <3> QED
      BY <2>5, <2>6, <3>1, <3>2 DEF TypeInv, SoFar, AllWritten
  <2>8. CASE ~r.buffered
    <3>1. Reading /\ ~Complete
      BY <1>12 DEF ReadGets, AtKernel
    <3>2. First(pipe, k) # << >> /\ Len(First(pipe, k)) <= Wanted
      BY <2>4, <2>5, <2>8, EmptySeq
    <3>3. /\ r' \in [op : {"none", "bytes", "line"}, n : Nat, got : Str, buffered : BOOLEAN]
          /\ SoFar(r)'
      BY <2>1, <2>5, <2>8, <3>1, <3>2, GotMore
    <3>4. rio' = rio /\ r'.buffered = r.buffered /\ pipe' \in Str
      BY <2>1, <2>5, <2>8 DEF TypeInv
    <3> QED
      BY <2>6, <3>3, <3>4 DEF TypeInv, Buffer, AllWritten
  <2> QED
    BY <2>7, <2>8
<1>13. CASE CopyOut
  <2> DEFINE k == Min({Wanted, rio.cnt})
  <2>1. /\ r' = [r EXCEPT !.got = @ \o First(rio.bytes, k)]
        /\ rio' = [cnt |-> rio.cnt - k, bytes |-> Behind(rio.bytes, k)]
        /\ w' = w /\ pipe' = pipe /\ Reading /\ ~Complete /\ r.buffered /\ rio.cnt > 0
    BY <1>13 DEF CopyOut
  <2>2. /\ rio.bytes \in Str /\ rio.cnt \in Nat /\ rio.cnt = Len(rio.bytes)
        /\ Wanted \in Int /\ Wanted > 0
    <3>1. rio.bytes \in Str /\ rio.cnt = Len(rio.bytes) /\ Len(rio.bytes) \in Nat
      BY <2>1, Fields, LenProperties DEF Str, Buffer
    <3>2. r.n \in Nat /\ Len(r.got) \in Nat
      BY Fields, LenProperties DEF Str
    <3>3. Wanted \in Int /\ Wanted > 0
      <4>1. CASE r.op = "bytes"
        <5>1. Len(r.got) <= r.n /\ Len(r.got) # r.n /\ Wanted = r.n - Len(r.got)
          BY <2>1, <4>1 DEF Wanted, Complete, SoFar
        <5> QED
          BY <3>2, <5>1
      <4>2. CASE r.op # "bytes"
        BY <4>2 DEF Wanted
      <4> QED
        BY <4>1, <4>2
    <3> QED
      BY <3>1, <3>3
  <2>3. k \in 0 .. Len(rio.bytes) /\ k > 0 /\ k <= Wanted
    <3>1. k = IF Wanted <= rio.cnt THEN Wanted ELSE rio.cnt
      BY <2>2, MinOfTwo
    <3> QED
      BY <2>1, <2>2, <3>1
  <2> HIDE DEF k
  <2>4. /\ First(rio.bytes, k) \in Str /\ Len(First(rio.bytes, k)) = k
        /\ Behind(rio.bytes, k) \in Str /\ Len(Behind(rio.bytes, k)) = Len(rio.bytes) - k
    BY <2>2, <2>3, SplitAt
  <2>5. First(rio.bytes, k) # << >> /\ Len(First(rio.bytes, k)) <= Wanted
    BY <2>3, <2>4, EmptySeq
  <2>6. /\ r' \in [op : {"none", "bytes", "line"}, n : Nat, got : Str, buffered : BOOLEAN]
        /\ SoFar(r)'
    BY <2>1, <2>4, <2>5, GotMore
  <2>7. /\ rio' \in [cnt : Int, bytes : Str] /\ rio'.cnt = Len(rio'.bytes)
        /\ rio'.bytes \in Str /\ Len(rio'.bytes) \in Nat
    BY <2>1, <2>2, <2>3, <2>4
  <2>8. rio'.cnt <= 0 => rio'.bytes = << >>
    BY <2>7, EmptySeq DEF Str
  <2>9. r'.buffered
    BY <2>1 DEF TypeInv
  <2> QED
    BY <2>1, <2>6, <2>7, <2>8, <2>9 DEF TypeInv, Buffer, AllWritten
<1>14. ASSUME NEW op \in {"bytes", "line"}, NEW n \in Sizes, Call(op, n)
       PROVE  IInv'
  <2>1. r.op = "none" /\ r.got = << >> /\ n \in Nat
    BY <1>14, SizesAssumption DEF Call, Reading, SoFar
  <2>2. r' = [r EXCEPT !.op = op, !.n = n] /\ w' = w /\ pipe' = pipe /\ rio' = rio
    BY <1>14 DEF Call
  <2>3. /\ r' \in [op : {"none", "bytes", "line"}, n : Nat, got : Str, buffered : BOOLEAN]
        /\ r'.op = op /\ r'.n = n /\ r'.got = << >> /\ r'.buffered = r.buffered
    BY <2>1, <2>2 DEF TypeInv
  <2>4. Len(r'.got) = 0
    BY <2>3, EmptySeq
  <2>5. SoFar(r)'
    BY <2>1, <2>3, <2>4 DEF SoFar
  <2> QED
    BY <2>2, <2>3, <2>5 DEF TypeInv, Buffer, AllWritten
<1>15. ASSUME NEW p, Signal(p)
       PROVE  IInv'
  BY <1>15 DEF Signal, TypeInv, SoFar, Buffer, AllWritten
<1>16. CASE Break
  <2>1. << >> \in Str
    BY EmptySeq DEF Str
  <2>2. w' = w /\ r' = r /\ rio' = rio /\ pipe' = << >>
    BY <1>16 DEF Break
  <2> QED
    BY <2>1, <2>2 DEF TypeInv, SoFar, Buffer, AllWritten
<1> QED
  BY <1>1, <1>2, <1>3, <1>4, <1>5, <1>8, <1>9, <1>10, <1>11, <1>12, <1>13, <1>14, <1>15,
     <1>16 DEF Next, Writer, Reader

\* It holds in the beginning.
LEMMA InitIInv == Init => IInv
<1> SUFFICES ASSUME Init
             PROVE  IInv
  OBVIOUS
<1>1. << >> \in Str /\ Len(<< >>) = 0
  BY EmptySeq DEF Str
<1>2. Stream \in Str
  BY SizesAssumption DEF Stream, Str
<1> QED
  BY <1>1, <1>2 DEF Init, IInv, TypeInv, SoFar, Buffer, AllWritten

\* The invariant holds always.
LEMMA Invariant == Spec => []IInv
<1>1. Init => IInv
  BY InitIInv
<1>2. IInv /\ [Next]_vars => IInv'
  BY KeepsIInv
<1> QED
  BY <1>1, <1>2, PTL DEF Spec

-----------------------------------------------------------------------------
(***************************************************************************)
(* The steps, as steps of ByteStream.                                      *)
(***************************************************************************)
Rest == r.got \o rio.bytes \o pipe \o (IF end = "open" THEN w.left ELSE << >>)

Ended == end # "open"

\* What the call in progress was asked for.
Asked == [op |-> r.op, n |-> r.n]

\* What is ahead of the reading call.
Ahead == rio.bytes \o (pipe \o (IF end = "open" THEN w.left ELSE << >>))

AbsStep == [Promise!StreamNext]_(Promise!streamVars)

\* One string behind the other.
Cat(s, t) == s \o t

\* The order in which strings are put together does not matter.
LEMMA Regroup ==
  /\ \A s, t \in Str : Cat(s, t) \in Str
  /\ \A s, t, u \in Str : Cat(Cat(s, t), u) = Cat(s, Cat(t, u))
<1>1. \A s, t \in Str : s \o t \in Str
  BY ConcatProperties DEF Str
<1>2. \A s, t, u \in Str : (s \o t) \o u = s \o (t \o u)
  BY ConcatAssociative DEF Str
<1> QED
  BY <1>1, <1>2 DEF Cat

\* Four strings are the first and, behind it, the others.
LEMMA Regroup4 ==
  \A s, t, u, v \in Str : /\ Cat(Cat(Cat(s, t), u), v) = Cat(s, Cat(t, Cat(u, v)))
                         /\ Cat(t, Cat(u, v)) \in Str
<1> TAKE s, t, u, v \in Str
<1>1. Cat(s, t) \in Str /\ Cat(u, v) \in Str
  BY Regroup
<1>2. Cat(Cat(Cat(s, t), u), v) = Cat(Cat(s, t), Cat(u, v))
  BY <1>1, Regroup
<1>3. Cat(Cat(s, t), Cat(u, v)) = Cat(s, Cat(t, Cat(u, v)))
  BY <1>1, Regroup
<1> QED
  BY <1>1, <1>2, <1>3, Regroup

\* What is still to be returned is what the call has got and what is ahead of it.
LEMMA RestIs ==
  ASSUME TypeInv
  PROVE  Rest = Cat(r.got, Ahead) /\ Ahead \in Str /\ r.got \in Str /\ Rest \in Str
<1> DEFINE got == r.got
           buf == rio.bytes
           left == IF end = "open" THEN w.left ELSE << >>
<1>1. left \in Str /\ got \in Str /\ buf \in Str /\ pipe \in Str
  BY Fields, EmptySeq DEF Str
<1>2. Rest = Cat(Cat(Cat(got, buf), pipe), left) /\ Ahead = Cat(buf, Cat(pipe, left))
  BY DEF Rest, Ahead, Cat
<1> HIDE DEF got, buf, left
<1>3. /\ Cat(Cat(Cat(got, buf), pipe), left) = Cat(got, Cat(buf, Cat(pipe, left)))
      /\ Cat(buf, Cat(pipe, left)) \in Str
  BY <1>1, Regroup4
<1>4. Cat(got, Cat(buf, Cat(pipe, left))) \in Str
  BY <1>1, <1>3, Regroup
<1> QED
  BY <1>1, <1>2, <1>3, <1>4 DEF got

\* The same after a step.
LEMMA RestIsThen ==
  ASSUME TypeInv'
  PROVE  Rest' = Cat(r'.got, Ahead')
<1> DEFINE got == r'.got
           buf == rio'.bytes
           left == IF end' = "open" THEN w'.left ELSE << >>
<1>1. left \in Str /\ got \in Str /\ buf \in Str /\ pipe' \in Str
  BY EmptySeq DEF Str, TypeInv
<1>2. Rest' = Cat(Cat(Cat(got, buf), pipe'), left) /\ Ahead' = Cat(buf, Cat(pipe', left))
  BY DEF Rest, Ahead, Cat
<1> HIDE DEF got, buf, left
<1>3. Cat(Cat(Cat(got, buf), pipe'), left) = Cat(got, Cat(buf, Cat(pipe', left)))
  BY <1>1, Regroup4
<1> QED
  BY <1>2, <1>3 DEF got

\* The operators of the instance are those of the community modules.
LEMMA SameOperators ==
  /\ \A S : Promise!Min(S) = Min(S)
  /\ \A s, t : Promise!IsPrefix(s, t) = IsPrefix(s, t)
  /\ \A s, t : Promise!IsSuffix(s, t) = IsSuffix(s, t)
<1>1. \A S : Promise!Min(S) = Min(S)
  BY DEF Promise!Min, Min
<1>2. \A s, t : Promise!IsPrefix(s, t) = IsPrefix(s, t)
  BY DEF Promise!IsPrefix, IsPrefix
<1>3. \A s, t : Promise!IsSuffix(s, t) = IsSuffix(s, t)
  BY DEF Promise!IsSuffix, IsSuffix, Promise!IsPrefix, IsPrefix, Promise!Reverse, Reverse
<1> QED
  BY <1>1, <1>2, <1>3

\* A step that takes nothing from the stream and answers nothing.
LEMMA Stutters ==
  ASSUME Rest' = Rest, Ended' = Ended, ret' = ret, Asked' = Asked
  PROVE  AbsStep
BY DEF AbsStep, Promise!streamVars, Rest, Ended, Asked

\* The bytes that are moved along the stream stay in it.
LEMMA WriteMovesOn ==
  ASSUME TypeInv, TypeInv', Write
  PROVE  Rest' = Rest
<1>1. PICK k \in 1 .. Min({Len(w.left), PIPE - Len(pipe)}) :
        pipe' = pipe \o First(w.left, k) /\ w'.left = Behind(w.left, k)
  BY DEF Write
<1>2. w.left \in Str /\ pipe \in Str /\ Len(w.left) \in Nat /\ Len(pipe) \in Nat
  BY Fields, LenProperties DEF Str
<1>3. k \in 0 .. Len(w.left)
  <2> DEFINE room == PIPE - Len(pipe)
  <2>1. room \in Int
    BY <1>2, SizesAssumption
  <2> HIDE DEF room
  <2>2. Min({Len(w.left), room}) = IF Len(w.left) <= room THEN Len(w.left) ELSE room
    BY <1>2, <2>1, MinOfTwo
  <2> QED
    BY <1>1, <1>2, <2>1, <2>2 DEF room
<1>4. /\ First(w.left, k) \in Str /\ Behind(w.left, k) \in Str
      /\ Cat(First(w.left, k), Behind(w.left, k)) = w.left
  BY <1>2, <1>3, SplitAt DEF Cat
<1>5. Cat(Cat(pipe, First(w.left, k)), Behind(w.left, k)) = Cat(pipe, w.left)
  BY <1>2, <1>4, Regroup
<1>6. end = "open" /\ end' = "open" /\ rio' = rio /\ r' = r
  BY DEF Write
<1>7. /\ Ahead = Cat(rio.bytes, Cat(pipe, w.left))
      /\ Ahead' = Cat(rio.bytes, Cat(Cat(pipe, First(w.left, k)), Behind(w.left, k)))
  BY <1>1, <1>6 DEF Ahead, Cat
<1>8. Ahead' = Ahead
  BY <1>5, <1>7
<1>9. Rest = Cat(r.got, Ahead) /\ Rest' = Cat(r'.got, Ahead')
  BY RestIs, RestIsThen
<1> QED
  BY <1>6, <1>8, <1>9

\* So do those that the call gets.
LEMMA GotMovesOn ==
  ASSUME TypeInv, TypeInv', NEW s \in Str, NEW t \in Str, NEW k \in 0 .. Len(s),
         r'.got = r.got \o First(s, k), Ahead = Cat(s, t), Ahead' = Cat(Behind(s, k), t)
  PROVE  Rest' = Rest
<1>1. /\ First(s, k) \in Str /\ Behind(s, k) \in Str
      /\ Cat(First(s, k), Behind(s, k)) = s
  BY SplitAt DEF Cat
<1>2. Rest = Cat(r.got, Ahead) /\ Rest' = Cat(r'.got, Ahead') /\ r.got \in Str
  BY RestIs, RestIsThen
<1>3. Cat(First(s, k), Cat(Behind(s, k), t)) = Cat(s, t)
  BY <1>1, Regroup
<1>4. Cat(Behind(s, k), t) \in Str
  BY <1>1, Regroup
<1>5. Cat(Cat(r.got, First(s, k)), Cat(Behind(s, k), t)) =
        Cat(r.got, Cat(First(s, k), Cat(Behind(s, k), t)))
  <2> DEFINE got == r.got
             one == First(s, k)
             two == Cat(Behind(s, k), t)
  <2>1. got \in Str /\ one \in Str /\ two \in Str
    BY <1>1, <1>2, <1>4
  <2> HIDE DEF got, one, two
  <2>2. Cat(Cat(got, one), two) = Cat(got, Cat(one, two))
    BY <2>1, Regroup
  <2> QED
    BY <2>2 DEF got, one, two
<1>6. r'.got = Cat(r.got, First(s, k))
  BY DEF Cat
<1> QED
  BY <1>2, <1>3, <1>5, <1>6

\* A call that is complete, or that finds the end of the stream, returns just the bytes,
\* or just the line, that the stream begins with.
LEMMA AnswerStep ==
  ASSUME IInv, Reading, Answer(r.got), Asked' = Promise!NoCall, Rest' = Ahead, Ended' = Ended,
         Complete \/ (Ended /\ Ahead = << >>)
  PROVE  AbsStep
<1> DEFINE g == r.got
           m == Len(g)
<1>1. /\ Rest = g \o Ahead /\ g \in Str /\ Rest \in Str /\ Ahead \in Str
      /\ r.n \in Nat /\ r.op \in {"bytes", "line"}
  BY RestIs, Fields DEF IInv, Reading, Cat
<1>2. /\ m \in Nat /\ Len(Rest) = m + Len(Ahead) /\ Len(Ahead) \in Nat
      /\ \A i \in 1 .. m : Rest[i] = g[i]
      /\ SubSeq(Rest, 1, m) = g /\ SubSeq(Rest, m + 1, Len(Rest)) = Ahead
  <2> HIDE DEF g
  <2>1. /\ Len(g \o Ahead) = Len(g) + Len(Ahead)
        /\ Len(g) \in Nat /\ Len(Ahead) \in Nat
        /\ \A i \in 1 .. Len(g) : (g \o Ahead)[i] = g[i]
        /\ SubSeq(g \o Ahead, 1, Len(g)) = g
        /\ SubSeq(g \o Ahead, Len(g) + 1, Len(g \o Ahead)) = Ahead
    BY <1>1, SplitConcat
  <2> QED
    BY <1>1, <2>1
<1>3. r.n \in Sizes
  BY <1>1 DEF IInv, SoFar
<1>4. Promise!Take(m)
  <2>1. ret' = [n |-> m, bytes |-> SubSeq(Rest, 1, m)]
    BY <1>2 DEF Answer
  <2>2. Rest' = SubSeq(Rest, m + 1, Len(Rest))
    BY <1>2
  <2> HIDE DEF m
  <2> QED
    BY <2>1, <2>2 DEF Promise!Take, Rest, Ended, Asked
<1>5. ~Complete => Ended /\ Len(Ahead) = 0 /\ Len(Rest) = m
  BY <1>2, EmptySeq
<1>6. CASE r.op = "bytes"
  <2>1. m <= r.n /\ (Complete => m = r.n)
    BY <1>6 DEF IInv, SoFar, Complete
  <2>2. Min({r.n, Len(Rest)}) = IF r.n <= Len(Rest) THEN r.n ELSE Len(Rest)
    <3>1. r.n \in Int /\ Len(Rest) \in Int
      BY <1>1, <1>2
    <3> QED
      BY <3>1, MinOfTwo
  <2>3. Min({r.n, Len(Rest)}) = m /\ (r.n <= Len(Rest) \/ Ended)
    BY <1>1, <1>2, <1>5, <2>1, <2>2
  <2>4. Promise!Bytes
    <3> HIDE DEF m
    <3> QED
      BY <1>4, <1>6, <2>3, SameOperators DEF Promise!Bytes, Rest, Ended
  <2> QED
    BY <2>4 DEF AbsStep, Promise!StreamNext
<1>7. CASE r.op = "line"
  <2> DEFINE stops == {k \in 0 .. Len(Rest) : k >= r.n - 1 \/ (k > 0 /\ Rest[k] \in Newlines)}
  <2>1. /\ g = << >> \/ m < r.n
        /\ \A k \in 1 .. m - 1 : g[k] \notin Newlines
    BY <1>7 DEF IInv, SoFar
  <2>2. Complete <=> m >= r.n - 1 \/ (g # << >> /\ g[m] \in Newlines)
    BY <1>7 DEF Complete, Last
  <2>3. g = << >> <=> m = 0
    BY <1>1, EmptySeq DEF Str
  <2>4. \A k \in stops : k >= m
    <3> SUFFICES ASSUME NEW k \in 0 .. Len(Rest), k < m,
                        k >= r.n - 1 \/ (k > 0 /\ Rest[k] \in Newlines)
                 PROVE  FALSE
      BY <1>2
    <3>1. m < r.n
      BY <1>2, <2>1, <2>3
    <3>2. k > 0 /\ Rest[k] \in Newlines
      BY <1>1, <1>2, <3>1
    <3>3. k \in 1 .. m - 1 /\ Rest[k] = g[k]
      BY <1>2, <3>2
    <3> QED
      BY <2>1, <3>2, <3>3
  <2>5. m \in stops <=> Complete
    <3>1. m \in 0 .. Len(Rest)
      BY <1>2
    <3>2. m > 0 => Rest[m] = g[m]
      BY <1>2
    <3>3. m > 0 <=> g # << >>
      BY <1>2, <2>3
    <3> QED
      BY <2>2, <3>1, <3>2, <3>3
  <2>6. stops \subseteq Nat
    OBVIOUS
  <2>7. CASE Complete
    <3>1. stops # {} /\ Min(stops) = m
      <4> HIDE DEF stops
      <4>1. stops # {} /\ Min(stops) \in stops /\ Min(stops) <= m
        BY <2>5, <2>6, <2>7, MinIsLeast
      <4>2. Min(stops) \in Nat /\ Min(stops) >= m
        BY <2>4, <2>6, <4>1
      <4> QED
        BY <1>2, <4>1, <4>2
    <3>2. Promise!Line
      <4> HIDE DEF m
      <4> QED
        BY <1>4, <1>7, <3>1, SameOperators DEF Promise!Line, Rest, Ended
    <3> QED
      BY <3>2 DEF AbsStep, Promise!StreamNext
  <2>8. CASE ~Complete
    <3>1. stops = {} /\ Ended /\ Len(Rest) = m
      <4>1. \A k \in stops : k = m
        BY <1>2, <1>5, <2>4, <2>8
      <4> QED
        BY <1>5, <2>5, <2>8, <4>1
    <3>2. Promise!Line
      <4> HIDE DEF m
      <4> QED
        BY <1>4, <1>7, <3>1, SameOperators DEF Promise!Line, Rest, Ended
    <3> QED
      BY <3>2 DEF AbsStep, Promise!StreamNext
  <2> QED
    BY <2>7, <2>8
<1> QED
  BY <1>1, <1>6, <1>7

\* The stream ends, or breaks off, in a step that loses its end.
LEMMA CutStep ==
  ASSUME Ended', IsPrefix(Rest', Rest), ret' = ret, Asked' = Asked
  PROVE  AbsStep
<1>1. Promise!Cut
  BY SameOperators DEF Promise!Cut, Rest, Ended, Asked
<1> QED
  BY <1>1 DEF AbsStep, Promise!StreamNext

\* A call fails and drops what it has got.
LEMMA ErrorStep ==
  ASSUME Reading, Asked' = Promise!NoCall,
         Ended, Ended', ret' = [n |-> -1, bytes |-> << >>], IsSuffix(Rest', Rest)
  PROVE  AbsStep
<1>1. Asked # Promise!NoCall
  BY DEF Reading, Asked, Promise!NoCall
<1>2. Promise!Error
  BY <1>1, SameOperators DEF Promise!Error, Rest, Ended, Asked
<1> QED
  BY <1>2 DEF AbsStep, Promise!StreamNext

\* A call that has answered is no longer in progress.
LEMMA NoneAsked ==
  ASSUME TypeInv, Idle
  PROVE  Asked' = Promise!NoCall
BY DEF TypeInv, Idle, Asked, Promise!NoCall

\* A step that changes nothing of the stream.
LEMMA SameRest ==
  ASSUME rio'.bytes = rio.bytes, pipe' = pipe, end' = end, end = "open" => w'.left = w.left
  PROVE  Ended' = Ended /\ Ahead' = Ahead /\ (r'.got = r.got => Rest' = Rest)
BY DEF Rest, Ended, Ahead

\* When the kernel is asked for the buffer nothing is left in it, and a call without a
\* buffer leaves it empty.
LEMMA NothingBuffered ==
  ASSUME IInv, AtKernel
  PROVE  rio.bytes = << >> /\ \A m : Cnt(m) => rio'.bytes = rio.bytes
<1>1. rio.bytes = << >>
  BY DEF IInv, Buffer, AtKernel, TypeInv
<1>2. \A m : Cnt(m) => rio'.bytes = rio.bytes
  BY DEF IInv, TypeInv, Cnt
<1> QED
  BY <1>1, <1>2

\* With no buffer in use, what is ahead is in the pipe, or still to be written.
LEMMA AheadUnbuffered ==
  ASSUME IInv, rio.bytes = << >>
  PROVE  \E t \in Str : /\ t = (IF end = "open" THEN w.left ELSE << >>)
                        /\ Ahead = Cat(pipe, t) /\ Cat(pipe, t) \in Str
<1> DEFINE t == IF end = "open" THEN w.left ELSE << >>
<1>1. t \in Str /\ pipe \in Str
  BY Fields, EmptySeq DEF Str, IInv
<1>2. Cat(pipe, t) \in Str
  BY <1>1, Regroup
<1>3. Ahead = << >> \o Cat(pipe, t)
  BY DEF Ahead, Cat
<1> HIDE DEF t
<1>4. Ahead = Cat(pipe, t)
  BY <1>2, <1>3, ConcatEmptySeq DEF Str
<1> QED
  BY <1>1, <1>2, <1>4 DEF t

\* Bytes that come from the kernel, for the call or for the buffer.
LEMMA ReadGetsStep ==
  ASSUME IInv, IInv', ReadGets
  PROVE  AbsStep
<1>0. TypeInv /\ TypeInv'
  BY DEF IInv
<1>1. rio.bytes = << >>
  BY NothingBuffered DEF ReadGets
<1>2. PICK t \in Str : /\ t = (IF end = "open" THEN w.left ELSE << >>)
                       /\ Ahead = Cat(pipe, t) /\ Cat(pipe, t) \in Str
  BY <1>1, AheadUnbuffered
<1> DEFINE max == IF r.buffered THEN RIO_BUFSIZE ELSE Wanted
<1>3. PICK k \in 1 .. Min({Len(pipe), max}) :
        /\ pipe' = Behind(pipe, k)
        /\ IF r.buffered
           THEN rio' = [cnt |-> k, bytes |-> First(pipe, k)] /\ UNCHANGED r
           ELSE r' = [r EXCEPT !.got = @ \o First(pipe, k)] /\ UNCHANGED rio
  BY DEF ReadGets
<1>4. pipe \in Str /\ Len(pipe) \in Nat
  BY <1>0, Fields, LenProperties DEF Str
<1>5. k \in 0 .. Len(pipe)
  <2>1. max \in Int
    <3>1. Wanted \in Int /\ RIO_BUFSIZE \in Int
      BY <1>0, Fields, LenProperties, SizesAssumption DEF Str, Wanted
    <3> QED
      BY <3>1
  <2> HIDE DEF max
  <2>2. Min({Len(pipe), max}) = IF Len(pipe) <= max THEN Len(pipe) ELSE max
    BY <1>4, <2>1, MinOfTwo
  <2> QED
    BY <1>3, <1>4, <2>1, <2>2
<1>6. /\ First(pipe, k) \in Str /\ Behind(pipe, k) \in Str
      /\ Cat(First(pipe, k), Behind(pipe, k)) = pipe
  BY <1>4, <1>5, SplitAt DEF Cat
<1>7. w' = w /\ end' = end /\ ret' = ret
  BY DEF ReadGets
<1>8. t = IF end' = "open" THEN w'.left ELSE << >>
  BY <1>2, <1>7
<1>9. Rest' = Rest
  <2>1. CASE r.buffered
    <3>1. rio'.bytes = First(pipe, k) /\ r' = r
      BY <1>3, <2>1
    <3>2. Ahead' = Cat(First(pipe, k), Cat(Behind(pipe, k), t))
      BY <1>3, <1>8, <3>1 DEF Ahead, Cat
    <3>3. Cat(First(pipe, k), Cat(Behind(pipe, k), t)) =
            Cat(Cat(First(pipe, k), Behind(pipe, k)), t)
      BY <1>6, Regroup
    <3>4. Ahead' = Ahead
      BY <1>2, <1>6, <3>2, <3>3
    <3>5. Rest = Cat(r.got, Ahead) /\ Rest' = Cat(r'.got, Ahead')
      BY <1>0, RestIs, RestIsThen
    <3> QED
      BY <3>1, <3>4, <3>5
  <2>2. CASE ~r.buffered
    <3>1. r' = [r EXCEPT !.got = @ \o First(pipe, k)] /\ rio' = rio
      BY <1>3, <2>2
    <3>2. r'.got = r.got \o First(pipe, k)
      BY <1>0, <3>1 DEF TypeInv
    <3>3. Ahead' = << >> \o Cat(Behind(pipe, k), t)
      BY <1>1, <1>3, <1>8, <3>1 DEF Ahead, Cat
    <3>4. Cat(Behind(pipe, k), t) \in Str
      BY <1>6, Regroup
    <3>5. Ahead' = Cat(Behind(pipe, k), t)
      BY <3>3, <3>4, ConcatEmptySeq DEF Str
    <3> QED
      BY <1>0, <1>2, <1>4, <1>5, <3>2, <3>5, GotMovesOn
  <2> QED
    BY <2>1, <2>2
<1>10. Asked' = Asked
  BY <1>0, <1>3 DEF Asked, TypeInv
<1> QED
  BY <1>7, <1>9, <1>10, Stutters DEF Ended

\* Bytes that come out of the buffer.
LEMMA CopyOutStep ==
  ASSUME IInv, IInv', CopyOut
  PROVE  AbsStep
<1>0. TypeInv /\ TypeInv'
  BY DEF IInv
<1> DEFINE t == Cat(pipe, IF end = "open" THEN w.left ELSE << >>)
           k == Min({Wanted, rio.cnt})
           b == rio.bytes
<1>1. /\ r'.got = r.got \o First(b, k) /\ rio'.bytes = Behind(b, k)
      /\ pipe' = pipe /\ w' = w /\ end' = end /\ ret' = ret
      /\ Reading /\ ~Complete /\ rio.cnt > 0 /\ rio.cnt = Len(b)
  BY DEF CopyOut, IInv, TypeInv, Buffer
<1>2. t \in Str /\ b \in Str
  <2>1. pipe \in Str /\ (IF end = "open" THEN w.left ELSE << >>) \in Str /\ b \in Str
    BY <1>0, Fields, EmptySeq DEF Str
  <2> QED
    BY <2>1, Regroup
<1>3. Ahead = Cat(b, t) /\ Ahead' = Cat(Behind(b, k), t)
  BY <1>1 DEF Ahead, Cat
<1>4. k \in 0 .. Len(b)
  <2>1. Wanted \in Int /\ Wanted >= 0
    <3>1. r.n \in Nat /\ Len(r.got) \in Nat
      BY <1>0, Fields, LenProperties DEF Str
    <3>2. r.op = "bytes" => Len(r.got) <= r.n
      BY DEF IInv, SoFar
    <3> QED
      BY <3>1, <3>2 DEF Wanted
  <2>2. rio.cnt \in Int
    BY <1>0, Fields
  <2>3. k = IF Wanted <= rio.cnt THEN Wanted ELSE rio.cnt
    BY <2>1, <2>2, MinOfTwo
  <2> QED
    BY <1>1, <2>1, <2>2, <2>3
<1> HIDE DEF t, k, b
<1>5. Rest' = Rest
  BY <1>0, <1>1, <1>2, <1>3, <1>4, GotMovesOn
<1>6. Asked' = Asked
  BY <1>0 DEF CopyOut, Asked, TypeInv
<1> QED
  BY <1>1, <1>5, <1>6, Stutters DEF Ended

\* What remains when a call has answered.
LEMMA RestAfterAnswer ==
  ASSUME IInv, TypeInv', Idle, Ahead' = Ahead
  PROVE  Rest' = Ahead /\ Ahead \in Str
<1>1. Rest' = Cat(r'.got, Ahead') /\ Ahead \in Str
  BY RestIs, RestIsThen DEF IInv
<1>2. r'.got = << >>
  BY DEF Idle, IInv, TypeInv
<1> QED
  BY <1>1, <1>2, ConcatEmptySeq DEF Cat, Str

\* A call that is complete, that finds the end, and that fails.
LEMMA ReturnStep ==
  ASSUME IInv, IInv', Return \/ ReadEnds \/ ReadFails
  PROVE  AbsStep
<1>0. TypeInv /\ TypeInv'
  BY DEF IInv
<1>1. CASE Return
  <2>1. /\ rio'.bytes = rio.bytes /\ pipe' = pipe /\ end' = end /\ w' = w
        /\ Idle /\ Reading /\ Complete /\ Answer(r.got)
    BY <1>1 DEF Return, Answer
  <2>2. Ahead' = Ahead /\ Ended' = Ended
    BY <2>1, SameRest
  <2>3. Rest' = Ahead
    BY <1>0, <2>1, <2>2, RestAfterAnswer
  <2> QED
    BY <1>0, <2>1, <2>2, <2>3, NoneAsked, AnswerStep
<1>2. CASE ReadEnds
  <2>1. rio.bytes = << >> /\ rio'.bytes = rio.bytes
    BY <1>2, NothingBuffered DEF ReadEnds
  <2>2. /\ pipe = << >> /\ pipe' = pipe /\ end' = end /\ end # "open" /\ w' = w
        /\ Idle /\ Reading /\ Answer(r.got)
    <3>1. end \in {"closed", "gone"}
      BY <1>2 DEF ReadEnds
    <3>2. end # "open"
      BY <3>1
    <3> QED
      BY <1>2, <3>2 DEF ReadEnds, Answer, AtKernel
  <2>3. Ahead' = Ahead /\ Ended' = Ended /\ Ended
    BY <2>1, <2>2, SameRest DEF Ended
  <2>4. Rest' = Ahead
    BY <1>0, <2>2, <2>3, RestAfterAnswer
  <2>5. Ahead = << >>
    <3>1. Ahead = << >> \o (<< >> \o << >>)
      BY <2>1, <2>2 DEF Ahead
    <3>2. << >> \o << >> = << >>
      BY EmptySeq, ConcatEmptySeq
    <3> QED
      BY <3>1, <3>2
  <2> QED
    BY <1>0, <2>2, <2>3, <2>4, <2>5, NoneAsked, AnswerStep
<1>3. CASE ReadFails
  <2>1. rio'.bytes = rio.bytes
    BY <1>3, NothingBuffered DEF ReadFails
  <2>2. /\ pipe' = pipe /\ end = "reset" /\ end' = "gone" /\ Idle /\ Reading
        /\ ret' = [n |-> -1, bytes |-> << >>]
    BY <1>3 DEF ReadFails, AtKernel
  <2>3. Ahead' = Ahead /\ Ended /\ Ended'
    BY <2>1, <2>2 DEF Ahead, Ended
  <2>4. Rest' = Ahead /\ Ahead \in Str
    BY <1>0, <2>2, <2>3, RestAfterAnswer
  <2>5. Rest = r.got \o Ahead /\ r.got \in Str
    BY <1>0, RestIs DEF Cat
  <2>6. IsSuffix(Rest', Rest)
    BY <2>4, <2>5, PrefixAndSuffix
  <2> QED
    BY <1>0, <2>2, <2>3, <2>6, NoneAsked, ErrorStep
<1> QED
  BY <1>1, <1>2, <1>3

\* The connection is closed, or breaks and loses what is in it.
LEMMA EndStep ==
  ASSUME IInv, IInv', CloseEnd \/ Break
  PROVE  AbsStep
<1>0. TypeInv /\ TypeInv'
  BY DEF IInv
<1>1. CASE CloseEnd
  <2>1. /\ end = "open" /\ end' = "closed" /\ w.left = << >>
        /\ r' = r /\ rio' = rio /\ pipe' = pipe /\ ret' = ret
    BY <1>1 DEF CloseEnd, IInv, AllWritten
  <2>2. Rest' = Rest /\ Ended'
    BY <2>1 DEF Rest, Ended
  <2>3. IsPrefix(Rest', Rest)
    <3>1. Len(Rest) \in Nat
      BY <1>0, RestIs, LenProperties DEF Str
    <3> QED
      BY <2>2, <3>1 DEF IsPrefix
  <2> QED
    BY <2>1, <2>2, <2>3, CutStep DEF Asked
<1>2. CASE Break
  <2>1. pipe' = << >> /\ end' = "reset" /\ r' = r /\ rio' = rio /\ ret' = ret
    BY <1>2 DEF Break
  <2> DEFINE left == IF end = "open" THEN w.left ELSE << >>
             t == Cat(pipe, left)
             got == r.got
             buf == rio.bytes
             mine == Cat(got, buf)
  <2>2. left \in Str /\ pipe \in Str /\ got \in Str /\ buf \in Str
    BY <1>0, Fields, EmptySeq DEF Str
  <2>3. /\ Rest = Cat(Cat(Cat(got, buf), pipe), left)
        /\ Rest' = Cat(Cat(Cat(got, buf), << >>), << >>)
    BY <2>1 DEF Rest, Cat
  <2> HIDE DEF left, got, buf
  <2>4. t \in Str /\ mine \in Str /\ Cat(Cat(mine, pipe), left) = Cat(mine, t)
    <3>1. t \in Str /\ mine \in Str
      BY <2>2, Regroup
    <3> HIDE DEF mine
    <3> QED
      BY <2>2, <3>1, Regroup
  <2>5. Cat(Cat(mine, << >>), << >>) = mine
    <3>1. mine \o << >> = mine
      BY <2>4, ConcatEmptySeq DEF Str
    <3> QED
      BY <3>1 DEF Cat
  <2> HIDE DEF t
  <2>6. IsPrefix(mine, mine \o t)
    <3> HIDE DEF mine
    <3> QED
      BY <2>4, PrefixAndSuffix
  <2>7. IsPrefix(Rest', Rest)
    BY <2>3, <2>4, <2>5, <2>6 DEF Cat
  <2> QED
    BY <2>1, <2>7, CutStep DEF Ended, Asked
<1> QED
  BY <1>1, <1>2

\* Each step is one of ByteStream, or changes nothing there.
LEMMA NextStep == IInv /\ IInv' /\ [Next]_vars => AbsStep
<1> SUFFICES ASSUME IInv, IInv', [Next]_vars
             PROVE  AbsStep
  OBVIOUS
<1>0. TypeInv /\ TypeInv'
  BY DEF IInv
<1>1. ASSUME r' = r, rio'.bytes = rio.bytes, pipe' = pipe, end' = end, ret' = ret,
             end = "open" => w'.left = w.left
      PROVE  AbsStep
  BY <1>1, SameRest, Stutters DEF Asked
<1>2. CASE UNCHANGED vars
  BY <1>1, <1>2 DEF vars
<1>3. CASE WriteInterrupted
  BY <1>1, <1>3 DEF WriteInterrupted
<1>4. CASE WriteFails
  BY <1>1, <1>4 DEF WriteFails
<1>5. CASE Write
  <2>1. Rest' = Rest
    BY <1>0, <1>5, WriteMovesOn
  <2>2. Ended' = Ended /\ ret' = ret /\ Asked' = Asked
    BY <1>5 DEF Write, Ended, Asked
  <2> QED
    BY <2>1, <2>2, Stutters
<1>6. CASE ReadInterrupted
  <2>1. rio'.bytes = rio.bytes
    BY <1>6, NothingBuffered DEF ReadInterrupted
  <2> QED
    BY <1>1, <1>6, <2>1 DEF ReadInterrupted
<1>7. ASSUME NEW op \in {"bytes", "line"}, NEW n \in Sizes, Call(op, n)
      PROVE  AbsStep
  <2>1. r.op = "none" /\ r.n = 0
    BY <1>7 DEF IInv, SoFar, Call, Reading
  <2>2. r'.got = r.got /\ r'.op = op /\ r'.n = n
    BY <1>0, <1>7 DEF Call, TypeInv
  <2>3. Rest' = Rest /\ Ended' = Ended /\ ret' = ret
    BY <1>7, <2>2, SameRest DEF Call
  <2>4. Promise!Ask(op, n)
    BY <2>1, <2>2, <2>3 DEF Promise!Ask, Promise!NoCall, Rest, Ended
  <2> QED
    BY <2>4 DEF AbsStep, Promise!StreamNext
<1>8. ASSUME NEW p, Signal(p)
      PROVE  AbsStep
  BY <1>1, <1>8 DEF Signal
<1> QED
  BY <1>2, <1>3, <1>4, <1>5, <1>6, <1>7, <1>8, ReadGetsStep, CopyOutStep, ReturnStep, EndStep
     DEF Next, Writer, Reader

\* Before the first step nothing has been read, and the whole stream is left.
LEMMA InitStep == Init => Promise!StreamInit
<1> SUFFICES ASSUME Init
             PROVE  Promise!StreamInit
  OBVIOUS
<1>1. /\ r.got = << >> /\ rio.bytes = << >> /\ pipe = << >> /\ end = "open"
      /\ w.left = Stream /\ ret = [n |-> 0, bytes |-> << >>] /\ r.op = "none" /\ r.n = 0
  BY DEF Init
<1>2. Stream \in Str
  BY SizesAssumption DEF Stream, Str
<1>3. ((<< >> \o << >>) \o << >>) \o Stream = Stream
  <2>1. << >> \o << >> = << >>
    BY EmptySeq, ConcatEmptySeq
  <2> QED
    BY <1>2, <2>1, ConcatEmptySeq DEF Str
<1> QED
  BY <1>1, <1>3 DEF Promise!StreamInit, Promise!NoCall

\* The Rio package implements ByteStream, for every stream, buffer and pipe: each reading
\* call returns exactly what it was asked for, the next line or that number of the next
\* bytes, in order, nothing twice, nothing skipped, and less only when the stream has
\* ended and has no more (csapp.c:690-820).
THEOREM ReadsTheStream == Spec => ImplementsByteStream
<1>1. Init => Promise!StreamInit
  BY InitStep
<1>2. IInv /\ IInv' /\ [Next]_vars => [Promise!StreamNext]_(Promise!streamVars)
  BY NextStep DEF AbsStep
<1> QED
  BY <1>1, <1>2, Invariant, PTL DEF Spec, ImplementsByteStream, Promise!StreamSpec

=============================================================================
