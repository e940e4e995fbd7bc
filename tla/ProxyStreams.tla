---------------------------- MODULE ProxyStreams -----------------------------
(***************************************************************************)
(* Proofs about what the proxy hands on and what it logs: for every number *)
(* of connections, every size of the buffer, every request and answer, and *)
(* however the calls of the kernel cut them up.                            *)
(***************************************************************************)
EXTENDS Proxy, Lemmas

-----------------------------------------------------------------------------
(***************************************************************************)
(* The inductive invariant, of each connection by itself: t is the state   *)
(* of its thread, q its two streams.                                       *)
(***************************************************************************)
Str == Seq(Byte)

Fields == {"pc", "cfd", "sfd", "addrs", "line", "clen", "size", "garbled", "logged"}
Ends == {"open", "eof", "reset", "gone"}
Streams == [up : Str, upEnd : Ends, asked : Str, sent : Str,
            back : Str, backEnd : Ends, answered : Str, got : Str]

Shape(t, q) ==
  /\ t = [f \in Fields |-> t[f]]
  /\ t.line \in Str /\ t.clen \in Nat /\ t.size \in Nat /\ t.garbled \in BOOLEAN
  /\ q \in Streams

\* What was passed on is a beginning of all, and what is left follows it, unless the
\* peer has broken off and taken the rest with it.
Goes(passed, left, all) == IsPrefix(passed, all) /\ (left = << >> \/ passed \o left = all)

\* What the server should get.
FirstLine(q) == readline(q.asked, "eof")
Wanted(q) == RequestLine(FirstLine(q).line) \o FirstLine(q).rest

Waiting == {"idle", "queued", "start"}
Dialling == {"resolve", "socket", "dial", "sendline"}
Sending == {"header", "body"}
Receiving == {"rheader", "rbody"}
Received == {"finish", "log"}
Closing == {"closing", "done"}

Upward(t, q) ==
  /\ t.pc \in Waiting => q.sent = << >> /\ q.up \in {q.asked, << >>}
  /\ t.pc \in Dialling =>
       /\ q.sent = << >>
       /\ ~t.garbled => /\ t.line = RequestLine(FirstLine(q).line)
                        /\ q.up \in {FirstLine(q).rest, << >>}
                        /\ FirstLine(q).rest \in Str
  /\ t.pc \in Sending /\ ~t.garbled => Goes(q.sent, q.up, Wanted(q))
  /\ q.sent # << >> /\ ~t.garbled => IsPrefix(q.sent, Wanted(q))

Downward(t, q) ==
  /\ IsPrefix(q.got, q.answered)
  /\ t.pc \in Waiting \cup Dialling \cup Sending \cup Receiving => Goes(q.got, q.back, q.answered)
  /\ q.answered # << >> => q.answered[1] \notin {"r", "c0", "c1", "c2"}

\* The fields of a message up to h, and the length that the last of them declares.
FieldsTo(s, h) == {i \in 2 .. h : s[i - 1] = "n" /\ s[i] \in DOMAIN Lengths}
Declares(s, h, length) ==
  \/ length = 0 /\ FieldsTo(s, h) = {}
  \/ \E i \in FieldsTo(s, h) : /\ \A j \in FieldsTo(s, h) : j <= i
                               /\ length = Lengths[s[i]]

\* The headers so far: whole lines, the last one excepted when the stream ends in it.
InHeaders(t, q) ==
  /\ t.size = Len(q.got) /\ Beginnings(q.got) = {} /\ Declares(q.got, Len(q.got), t.clen)
  /\ q.got = << >> \/ q.got[Len(q.got)] = "n" \/ q.got = q.answered

\* The headers end at h, and the size is already that of the whole answer.
InBody(t, q, h) ==
  /\ h \in Beginnings(q.got) /\ \A i \in Beginnings(q.got) : h <= i
  /\ t.size - h \in Nat /\ Declares(q.got, h, t.size - h)
  /\ t.clen > 0 /\ Len(q.got) + t.clen = t.size

Counted(t, q) ==
  \/ t.size = 0 /\ ~IsWhole(q.got)
  \/ t.size # 0 /\ t.size = Len(q.got) /\ IsWhole(q.got)

Account(t, q) ==
  /\ t.pc \notin Closing => t.logged = NoEntry
  /\ t.pc \in Waiting \cup Dialling \cup Sending => t.size = 0 /\ q.got = << >>
  /\ LinesFit(q.answered) =>
       /\ t.pc = "rheader" => InHeaders(t, q)
       /\ t.pc = "rbody" => \E h \in Beginnings(q.got) : InBody(t, q, h)
       /\ t.pc \in Received => Counted(t, q)
       /\ t.pc = "log" => t.size % UINT # 0
       /\ t.pc \in Closing =>
            /\ t.logged # NoEntry => IsWhole(q.got) /\ t.logged = Len(q.got) % UINT
            /\ IsWhole(q.got) /\ Len(q.got) % UINT # 0 => t.logged # NoEntry

Known == Waiting \cup Dialling \cup Sending \cup Receiving \cup Received \cup Closing

Good(t, q) == t.pc \in Known /\ Shape(t, q) /\ Upward(t, q) /\ Downward(t, q) /\ Account(t, q)

IInv == /\ th = [c \in Client |-> th[c]] /\ io = [c \in Client |-> io[c]]
        /\ \A c \in Client : Good(th[c], io[c])

-----------------------------------------------------------------------------
(***************************************************************************)
(* Streams and what is taken from them.                                    *)
(***************************************************************************)

\* One string behind the other.
Cat(s, t) == s \o t

\* The order in which strings are put together does not matter.
LEMMA Regroup ==
  /\ \A s, t \in Str : Cat(s, t) \in Str
  /\ \A s, t, u \in Str : Cat(Cat(s, t), u) = Cat(s, Cat(t, u))
<1>1. ASSUME NEW s \in Str, NEW t \in Str
      PROVE  Cat(s, t) \in Str
  BY DEF Cat, Str
<1>2. ASSUME NEW s \in Str, NEW t \in Str, NEW u \in Str
      PROVE  Cat(Cat(s, t), u) = Cat(s, Cat(t, u))
  BY SeqRegroup DEF Cat, Str
<1> QED
  BY <1>1, <1>2

\* The lengths and the bytes of two strings put together.
LEMMA Lengthens ==
  ASSUME NEW s \in Str, NEW t \in Str
  PROVE  /\ Cat(s, t) \in Str /\ Len(Cat(s, t)) = Len(s) + Len(t)
         /\ Len(s) \in Nat /\ Len(t) \in Nat
         /\ \A i \in 1 .. Len(s) : Cat(s, t)[i] = s[i]
         /\ \A i \in 1 .. Len(t) : Cat(s, t)[Len(s) + i] = t[i]
         /\ IsPrefix(s, Cat(s, t))
<1>1. SubSeq(s, 1, Len(s)) = s
  BY SubSeqFull DEF Str
<1> QED
  BY <1>1, SeqJoin DEF Cat, IsPrefix, Str

\* The empty string.
LEMMA Empty ==
  /\ << >> \in Str /\ Len(<< >>) = 0
  /\ \A s \in Str : /\ Cat(s, << >>) = s /\ Cat(<< >>, s) = s /\ Len(s) \in Nat
                    /\ IsPrefix(<< >>, s)
                    /\ Len(s) = 0 <=> s = << >>
<1>1. << >> \in Str /\ Len(<< >>) = 0
  BY EmptySeq DEF Str
<1>2. ASSUME NEW s \in Str
      PROVE  /\ Cat(s, << >>) = s /\ Cat(<< >>, s) = s /\ Len(s) \in Nat
             /\ (Len(s) = 0 <=> s = << >>)
  BY ConcatEmptySeq, EmptySeq, LenProperties DEF Cat, Str
<1>3. ASSUME NEW s \in Str
      PROVE  IsPrefix(<< >>, s)
  BY <1>1, <1>2, Lengthens
<1> QED
  BY <1>1, <1>2, <1>3

\* What is taken from the rest of a stream and passed on continues what was passed.
LEMMA GoesOn ==
  ASSUME NEW passed \in Str, NEW line \in Str, NEW rest \in Str, NEW all,
         Goes(passed, Cat(line, rest), all)
  PROVE  Goes(Cat(passed, line), rest, all)
<1>1. CASE Cat(line, rest) = << >>
  <2>1. Len(line) + Len(rest) = 0 /\ Len(line) \in Nat /\ Len(rest) \in Nat
    BY <1>1, Lengthens, Empty
  <2>2. line = << >> /\ rest = << >>
    BY <2>1, Empty
  <2> QED
    BY <2>2, Empty DEF Goes
<1>2. CASE passed \o Cat(line, rest) = all
  <2>1. Cat(Cat(passed, line), rest) = all /\ Cat(passed, line) \in Str
    BY <1>2, Regroup DEF Cat
  <2>2. IsPrefix(Cat(passed, line), all)
    BY <2>1, Lengthens
  <2> QED
    BY <2>1, <2>2 DEF Goes, Cat
<1> QED
  BY <1>1, <1>2 DEF Goes

\* The result of a call that reads from the stream s.
Took(r, s) ==
  /\ r.n \in Int /\ r.line \in Str /\ r.rest \in Str /\ r.end \in Ends
  /\ s = Cat(r.line, r.rest)
  /\ r.n >= 0 => r.n = Len(r.line)
  /\ r.n <= 0 => r.line = << >> /\ r.rest = s

\* A result of n bytes cuts the stream in two behind the n-th.
LEMMA ResultTakes ==
  ASSUME NEW s \in Str, NEW end \in Ends, NEW n \in 0 .. Len(s)
  PROVE  Took(Result(n, s, end), s) /\ Result(n, s, end).n = n
<1> DEFINE r == Result(n, s, end)
<1>1. /\ SubSeq(s, 1, n) \in Str /\ Len(SubSeq(s, 1, n)) = n
      /\ SubSeq(s, n + 1, Len(s)) \in Str
      /\ SubSeq(s, 1, n) \o SubSeq(s, n + 1, Len(s)) = s
  BY SeqSplit DEF Str
<1>2. n \in Nat
  BY Empty
<1>3. /\ r.n = n /\ r.line \in Str /\ Len(r.line) = n /\ r.rest \in Str /\ r.end \in Ends
      /\ Cat(r.line, r.rest) = s
  BY <1>1 DEF Result, Cat
<1> HIDE DEF r
<1>4. n = 0 => r.line = << >> /\ r.rest = s
  BY <1>3, Empty
<1>5. Took(r, s)
  BY <1>2, <1>3, <1>4 DEF Took
<1> QED
  BY <1>3, <1>5 DEF r

\* A failed call takes nothing.
LEMMA FailureTakes ==
  ASSUME NEW s \in Str
  PROVE  Took(Failure(s), s) /\ Failure(s).n = -1
<1> DEFINE r == Failure(s)
<1>1. r.n = -1 /\ r.line = << >> /\ r.rest = s /\ r.end = "gone"
  BY DEF Failure
<1> HIDE DEF r
<1>2. << >> \in Str /\ s = Cat(<< >>, s) /\ "gone" \in Ends
  BY Empty DEF Ends
<1>3. Took(r, s)
  BY <1>1, <1>2 DEF Took
<1> QED
  BY <1>1, <1>3 DEF r

\* Where the line that readline takes ends.
LineLength(s) == IF LineEnds(s) = {} THEN Len(s) ELSE Least(LineEnds(s))

\* A line ends within the stream, at the first place where it may.
LEMMA LineEndsInside ==
  ASSUME NEW s \in Str
  PROVE  /\ LineLength(s) \in 0 .. Len(s)
         /\ LineEnds(s) # {} => /\ LineLength(s) \in LineEnds(s)
                                /\ \A i \in LineEnds(s) : LineLength(s) <= i
<1>1. Len(s) \in Nat /\ DOMAIN s = 1 .. Len(s)
  BY LenProperties DEF Str
<1>2. LineEnds(s) \subseteq 1 .. Len(s)
  BY <1>1 DEF LineEnds
<1>3. CASE LineEnds(s) # {}
  <2>1. \E i \in LineEnds(s) : \A j \in LineEnds(s) : i <= j
    BY <1>1, <1>2, <1>3, LeastExists
  <2>2. Least(LineEnds(s)) \in LineEnds(s) /\ \A j \in LineEnds(s) : Least(LineEnds(s)) <= j
    BY <2>1 DEF Least
  <2> QED
    BY <1>1, <1>2, <1>3, <2>2 DEF LineLength
<1> QED
  BY <1>1, <1>3 DEF LineLength

\* readline takes one line, or what there is when the stream has ended.
LEMMA ReadLineTakes ==
  ASSUME NEW s \in Str, NEW end \in Ends
  PROVE  /\ Took(readline(s, end), s)
         /\ end # "reset" => readline(s, end).n = LineLength(s)
         /\ end = "reset" => readline(s, end).n = -1
BY LineEndsInside, ResultTakes, FailureTakes DEF readline, LineLength

\* What readline takes does not depend on whether the stream has ended behind it.
LEMMA SameLine ==
  ASSUME NEW s, NEW end, end # "reset"
  PROVE  /\ readline(s, end).line = readline(s, "eof").line
         /\ readline(s, end).rest = readline(s, "eof").rest
BY DEF readline, Result

\* Only from bytes can any be taken.
LEMMA TookSome ==
  ASSUME NEW s, NEW r, Took(r, s), r.n > 0
  PROVE  s # << >> /\ s \in Str /\ r.line # << >> /\ Len(s) >= r.n
<1> DEFINE line == r.line
           rest == r.rest
<1>1. line \in Str /\ rest \in Str /\ s = Cat(line, rest) /\ r.n = Len(line)
  BY DEF Took
<1> HIDE DEF line, rest
<1>2. s \in Str /\ Len(s) = Len(line) + Len(rest) /\ Len(rest) \in Nat /\ Len(line) \in Nat
  BY <1>1, Lengthens
<1>3. Len(line) # 0 /\ Len(s) # 0
  BY <1>1, <1>2
<1> QED
  BY <1>1, <1>2, <1>3, Empty DEF line

\* read takes at most as much as it is asked for.
LEMMA ReadTakes ==
  ASSUME NEW s \in Str, NEW end \in Ends, NEW max \in Nat, NEW r \in read(s, end, max)
  PROVE  Took(r, s) /\ r.n <= max
<1>1. Len(s) \in Nat
  BY Empty
<1>2. CASE end = "reset"
  BY <1>2, FailureTakes DEF read
<1>3. CASE end # "reset" /\ s = << >>
  <2>1. r = Result(0, s, end) /\ 0 \in 0 .. Len(s)
    BY <1>1, <1>3 DEF read
  <2> QED
    BY <2>1, ResultTakes
<1>4. CASE end # "reset" /\ s # << >>
  <2>1. PICK n \in 1 .. (IF max < Len(s) THEN max ELSE Len(s)) : r = Result(n, s, end)
    BY <1>4 DEF read
  <2>2. n \in 0 .. Len(s) /\ n <= max
    BY <1>1, <2>1
  <2> QED
    BY <2>1, <2>2, ResultTakes
<1> QED
  BY <1>2, <1>3, <1>4

\* The request line that the proxy writes.
LEMMA RequestLineIsString ==
  ASSUME NEW s \in Str, HasUri(s)
  PROVE  RequestLine(s) \in Str
<1>1. Len(s) \in Nat /\ DOMAIN s = 1 .. Len(s) /\ \A i \in 1 .. Len(s) : s[i] \in Byte
  BY LenProperties, ElementOfSeq DEF Str
<1>2. PICK i, j \in Blanks(s) : i # j
  BY DEF HasUri
<1>3. Blanks(s) \subseteq 1 .. Len(s)
  BY <1>1 DEF Blanks
<1>4. \A S : S \subseteq Nat /\ S # {} => Least(S) \in S
  <2> SUFFICES ASSUME NEW S, S \subseteq Nat, S # {}
               PROVE  Least(S) \in S
    OBVIOUS
  <2>1. \E k \in S : \A l \in S : k <= l
    BY LeastExists
  <2> QED
    BY <2>1 DEF Least
<1> DEFINE B == Blanks(s)
           b == Least(B)
           b2 == Least(B \ {b})
<1>5. b \in 1 .. Len(s)
  BY <1>1, <1>2, <1>3, <1>4
<1>6. b2 \in 1 .. Len(s)
  <2>1. B \ {b} # {} /\ B \ {b} \subseteq Nat
    BY <1>1, <1>2, <1>3
  <2> QED
    BY <1>3, <1>4, <2>1
<1>7. RequestLine(s) = Cat(Cat(SubSeq(s, 1, b), << "/", "_" >>), SubSeq(s, b2 + 1, Len(s)))
  <2>1. Uri(s) - 1 = b /\ Protocol(s) = b2 + 1
    BY <1>5 DEF Uri, Protocol
  <2> QED
    BY <2>1 DEF RequestLine, Cat
<1> HIDE DEF b, b2
<1>8. SubSeq(s, 1, b) \in Str /\ SubSeq(s, b2 + 1, Len(s)) \in Str
  <2>1. b \in 0 .. Len(s) /\ b2 \in 0 .. Len(s)
    BY <1>1, <1>5, <1>6
  <2> QED
    BY <2>1, SeqSplit DEF Str
<1>9. << "/", "_" >> \in Str
  <2>1. \A x, y \in Byte : << x, y >> \in Str
    BY DEF Str
  <2>2. "/" \in Byte /\ "_" \in Byte
    BY DEF Byte
  <2> QED
    BY <2>1, <2>2
<1>10. Cat(SubSeq(s, 1, b), << "/", "_" >>) \in Str
  BY <1>8, <1>9, Regroup
<1> DEFINE p == Cat(SubSeq(s, 1, b), << "/", "_" >>)
           r == SubSeq(s, b2 + 1, Len(s))
<1>11. RequestLine(s) = Cat(p, r) /\ p \in Str /\ r \in Str
  BY <1>7, <1>8, <1>10
<1> HIDE DEF p, r
<1> QED
  BY <1>11, Regroup

-----------------------------------------------------------------------------
(***************************************************************************)
(* Messages: where the headers end, and the length they declare.           *)
(***************************************************************************)

\* The places where the headers may end: behind an empty line that follows a newline.
LEMMA BeginningsAre ==
  ASSUME NEW s \in Str
  PROVE  /\ Beginnings(s) = {i \in 3 .. Len(s) : s[i - 2] = "n" /\ s[i - 1] = "r" /\ s[i] = "n"}
         /\ Len(s) \in Nat
<1> DEFINE turn == << "n", "r", "n" >>
<1>1. Len(s) \in Nat /\ \A i \in 1 .. Len(s) : s[i] \in Byte
  BY LenProperties, ElementOfSeq DEF Str
<1>2. ASSUME NEW i \in 1 .. Len(s) - 2
      PROVE  SubSeq(s, i, i + 2) = turn <=> s[i] = "n" /\ s[i + 1] = "r" /\ s[i + 2] = "n"
  <2> DEFINE u == SubSeq(s, i, i + 2)
  <2>1. \A j \in i .. i + 2 : s[j] \in Byte
    BY <1>1
  <2>2. i \in Int /\ i + 2 \in Int
    BY <1>1
  <2>3. /\ u \in Seq(Byte)
        /\ Len(u) = IF i <= i + 2 THEN i + 2 - i + 1 ELSE 0
        /\ \A j \in 1 .. i + 2 - i + 1 : u[j] = s[i + j - 1]
    BY <2>1, <2>2, SubSeqProperties
  <2> HIDE DEF u
  <2>4. Len(u) = 3 /\ u[1] = s[i] /\ u[2] = s[i + 1] /\ u[3] = s[i + 2]
    BY <2>2, <2>3
  <2>5. turn \in Seq(Byte) /\ Len(turn) = 3
    BY DEF Byte
  <2>6. u = turn <=> \A j \in 1 .. 3 : u[j] = turn[j]
    BY <2>3, <2>4, <2>5, SeqEqual
  <2> QED
    BY <2>4, <2>6 DEF u
<1>3. Beginnings(s) = {i + 2 : i \in {i \in 1 .. Len(s) - 2 : s[i] = "n" /\ s[i + 1] = "r"
                                                              /\ s[i + 2] = "n"}}
  BY <1>2 DEF Beginnings
<1>4. ASSUME NEW i \in 3 .. Len(s), s[i - 2] = "n", s[i - 1] = "r", s[i] = "n"
      PROVE  i \in Beginnings(s)
  <2>1. i - 2 \in 1 .. Len(s) - 2 /\ (i - 2) + 1 = i - 1 /\ (i - 2) + 2 = i
    BY <1>1
  <2> QED
    BY <1>3, <1>4, <2>1
<1>5. ASSUME NEW k \in Beginnings(s)
      PROVE  k \in 3 .. Len(s) /\ s[k - 2] = "n" /\ s[k - 1] = "r" /\ s[k] = "n"
  <2>1. PICK i \in 1 .. Len(s) - 2 : s[i] = "n" /\ s[i + 1] = "r" /\ s[i + 2] = "n" /\ k = i + 2
    BY <1>3
  <2>2. k - 2 = i /\ k - 1 = i + 1 /\ k \in 3 .. Len(s)
    BY <1>1, <2>1
  <2> QED
    BY <2>1, <2>2
<1> QED
  BY <1>1, <1>4, <1>5

\* The same of one place.
LEMMA IsBeginning ==
  ASSUME NEW s \in Str, NEW i
  PROVE  i \in Beginnings(s) <=> i \in 3 .. Len(s) /\ s[i - 2] = "n" /\ s[i - 1] = "r" /\ s[i] = "n"
BY BeginningsAre

\* A message that goes on keeps what is in its first part.
LEMMA Growing ==
  ASSUME NEW g \in Str, NEW l \in Str
  PROVE  /\ \A i \in 1 .. Len(g) : i \in Beginnings(Cat(g, l)) <=> i \in Beginnings(g)
         /\ \A h \in 0 .. Len(g) : FieldsTo(Cat(g, l), h) = FieldsTo(g, h)
         /\ \A c : \A h \in 0 .. Len(g) : Declares(Cat(g, l), h, c) <=> Declares(g, h, c)
<1> DEFINE u == Cat(g, l)
<1>1. /\ u \in Str /\ Len(u) = Len(g) + Len(l) /\ Len(g) \in Nat /\ Len(l) \in Nat
      /\ \A i \in 1 .. Len(g) : u[i] = g[i]
  BY Lengthens
<1> HIDE DEF u
<1>2. ASSUME NEW i \in 1 .. Len(g)
      PROVE  i \in Beginnings(u) <=> i \in Beginnings(g)
  <2>1. i >= 3 => u[i - 2] = g[i - 2] /\ u[i - 1] = g[i - 1] /\ u[i] = g[i]
    BY <1>1
  <2>2. i \in 3 .. Len(u) <=> i \in 3 .. Len(g)
    BY <1>1
  <2>3. i \in Beginnings(u) <=> i \in 3 .. Len(u) /\ u[i - 2] = "n" /\ u[i - 1] = "r" /\ u[i] = "n"
    BY <1>1, IsBeginning
  <2>4. i \in Beginnings(g) <=> i \in 3 .. Len(g) /\ g[i - 2] = "n" /\ g[i - 1] = "r" /\ g[i] = "n"
    BY IsBeginning
  <2> QED
    BY <2>1, <2>2, <2>3, <2>4
<1>3. ASSUME NEW h \in 0 .. Len(g)
      PROVE  FieldsTo(u, h) = FieldsTo(g, h)
  <2>1. \A i \in 2 .. h : u[i - 1] = g[i - 1] /\ u[i] = g[i]
    BY <1>1
  <2> QED
    BY <2>1 DEF FieldsTo
<1>4. ASSUME NEW h \in 0 .. Len(g), NEW c
      PROVE  Declares(u, h, c) <=> Declares(g, h, c)
  <2>1. \A i \in FieldsTo(g, h) : u[i] = g[i]
    BY <1>1 DEF FieldsTo
  <2> QED
    BY <1>3, <2>1 DEF Declares
<1> QED
  BY <1>2, <1>3, <1>4 DEF u

\* A message is whole when it has the length that its headers declare.
LEMMA WholeWhen ==
  ASSUME NEW s \in Str, NEW h \in Beginnings(s), \A i \in Beginnings(s) : h <= i,
         NEW c \in Nat, Declares(s, h, c)
  PROVE  IsWhole(s) <=> Len(s) >= h + c
<1>1. Beginnings(s) \subseteq Nat /\ Len(s) \in Nat /\ h \in 3 .. Len(s)
  BY BeginningsAre
<1>2. Least(Beginnings(s)) = h
  <2>1. \E i \in Beginnings(s) : \A j \in Beginnings(s) : i <= j
    OBVIOUS
  <2>2. Least(Beginnings(s)) \in Beginnings(s) /\ \A j \in Beginnings(s) : Least(Beginnings(s)) <= j
    BY <2>1 DEF Least
  <2> QED
    BY <1>1, <2>2
<1>3. IsWhole(s) <=> \A i \in FieldsTo(s, h) :
                       (\A j \in FieldsTo(s, h) : j <= i) => Len(s) >= h + Lengths[s[i]]
  BY <1>2 DEF IsWhole, FieldsTo
<1>4. CASE c = 0 /\ FieldsTo(s, h) = {}
  BY <1>1, <1>3, <1>4
<1>5. CASE \E i \in FieldsTo(s, h) : (\A j \in FieldsTo(s, h) : j <= i) /\ c = Lengths[s[i]]
  <2>1. PICK i \in FieldsTo(s, h) : (\A j \in FieldsTo(s, h) : j <= i) /\ c = Lengths[s[i]]
    BY <1>5
  <2>2. FieldsTo(s, h) \subseteq Int
    BY DEF FieldsTo
  <2>3. \A k \in FieldsTo(s, h) : (\A j \in FieldsTo(s, h) : j <= k) => k = i
    BY <2>1, <2>2
  <2> QED
    BY <1>3, <2>1, <2>3
<1> QED
  BY <1>4, <1>5 DEF Declares

\* A message whose headers have not ended is not whole; the empty one is none.
LEMMA NotWhole ==
  /\ \A s : Beginnings(s) = {} => ~IsWhole(s)
  /\ Beginnings(<< >>) = {} /\ ~IsWhole(<< >>)
  /\ Declares(<< >>, 0, 0)
<1>1. \A s : Beginnings(s) = {} => ~IsWhole(s)
  BY DEF IsWhole
<1>2. Beginnings(<< >>) = {}
  BY BeginningsAre, Empty
<1>3. Declares(<< >>, 0, 0)
  BY DEF Declares, FieldsTo
<1> QED
  BY <1>1, <1>2, <1>3

\* When the lines fit into the buffer, readline takes just one line, or the end of the
\* stream.
LEMMA OneLine ==
  ASSUME NEW g \in Str, NEW b \in Str, LinesFit(Cat(g, b)), LineLength(b) > 0
  PROVE  /\ \A i \in 1 .. LineLength(b) - 1 : b[i] # "n"
         /\ b[LineLength(b)] = "n" \/ LineLength(b) = Len(b)
<1> DEFINE m == LineLength(b)
           u == Cat(g, b)
<1>1. /\ Len(b) \in Nat /\ Len(g) \in Nat /\ DOMAIN b = 1 .. Len(b) /\ m \in 0 .. Len(b)
      /\ LineEnds(b) # {} => m \in LineEnds(b) /\ \A i \in LineEnds(b) : m <= i
  BY LineEndsInside, LenProperties DEF Str
<1>2. MAXLINE \in Nat /\ MAXLINE >= 2
  BY ProxyAssumption
<1>3. /\ u \in Str /\ Len(u) = Len(g) + Len(b) /\ DOMAIN u = 1 .. Len(u)
      /\ \A i \in 1 .. Len(b) : u[Len(g) + i] = b[i]
  BY Lengthens, LenProperties DEF Str
<1>4. \A i \in 1 .. Len(b) : b[i] = "n" /\ i < MAXLINE => i \in LineEnds(b)
  BY <1>1 DEF LineEnds
<1>5. LinesFit(u)
  OBVIOUS
<1>6. LineEnds(b) = {} => m = Len(b)
  BY DEF LineLength
<1> HIDE DEF u, m
<1>7. ASSUME NEW i \in 1 .. m - 1, b[i] = "n"
      PROVE  FALSE
  <2>1. i \in 1 .. Len(b) /\ i < m
    BY <1>1
  <2>2. ~(i < MAXLINE)
    BY <1>1, <1>4, <1>7, <2>1
  <2>3. MAXLINE - 1 \in DOMAIN b /\ MAXLINE - 1 < MAXLINE
    BY <1>1, <1>2, <2>1, <2>2
  <2>4. MAXLINE - 1 \in LineEnds(b)
    BY <2>3 DEF LineEnds
  <2> QED
    BY <1>1, <1>2, <2>1, <2>2, <2>4
<1>8. ASSUME m # Len(b)
      PROVE  b[m] = "n"
  <2>1. m \in LineEnds(b) /\ \A i \in LineEnds(b) : m <= i
    BY <1>1, <1>6, <1>8
  <2>2. CASE m = MAXLINE - 1
    <3> DEFINE i == Len(g) + (MAXLINE - 1)
    <3>1. i \in DOMAIN u /\ i >= MAXLINE - 1 /\ i - MAXLINE + 2 = Len(g) + 1
      BY <1>1, <1>2, <1>3, <2>2
    <3>2. PICK k \in (i - MAXLINE + 2) .. i : u[k] = "n"
      BY <1>5, <3>1 DEF LinesFit
    <3>3. k - Len(g) \in 1 .. m /\ Len(g) + (k - Len(g)) = k
      BY <1>1, <1>2, <2>2, <3>1, <3>2
    <3>4. k - Len(g) \in 1 .. Len(b) /\ k - Len(g) < MAXLINE
      BY <1>1, <1>2, <2>2, <3>3
    <3>5. b[k - Len(g)] = "n"
      BY <1>3, <3>2, <3>3, <3>4
    <3>6. m <= k - Len(g)
      BY <1>4, <2>1, <3>4, <3>5
    <3>7. k - Len(g) = m
      BY <1>1, <3>3, <3>6
    <3> QED
      BY <3>5, <3>7
  <2>3. CASE m # MAXLINE - 1
    BY <2>1, <2>3 DEF LineEnds
  <2> QED
    BY <2>2, <2>3
<1> QED
  BY <1>7, <1>8 DEF m

\* A line more of the headers.
LEMMA HeaderLine ==
  ASSUME NEW g \in Str, NEW l \in Str, l # << >>, \A i \in 1 .. Len(l) - 1 : l[i] # "n",
         g = << >> \/ g[Len(g)] = "n",
         g = << >> => l[1] \notin {"r", "c0", "c1", "c2"},
         Beginnings(g) = {}, NEW c, Declares(g, Len(g), c)
  PROVE  /\ Declares(Cat(g, l), Len(Cat(g, l)), ContentLength(l, c))
         /\ Beginnings(Cat(g, l)) = IF IsBlankLine(l) THEN {Len(Cat(g, l))} ELSE {}
<1> DEFINE u == Cat(g, l)
<1>1. /\ u \in Str /\ Len(u) = Len(g) + Len(l) /\ Len(g) \in Nat /\ Len(l) \in Nat
      /\ \A i \in 1 .. Len(g) : u[i] = g[i]
      /\ \A i \in 1 .. Len(l) : u[Len(g) + i] = l[i]
  BY Lengthens
<1>2. Len(l) >= 1 /\ (g = << >> <=> Len(g) = 0)
  BY <1>1, Empty
<1>3. \A i \in 1 .. Len(g) : i \notin Beginnings(u)
  BY Growing
<1>4. FieldsTo(u, Len(g)) = FieldsTo(g, Len(g)) /\ (Declares(u, Len(g), c) <=> Declares(g, Len(g), c))
  BY <1>1, Growing
<1> HIDE DEF u
<1>5. \A i \in Len(g) + 1 .. Len(u) - 1 : u[i] # "n"
  <2> SUFFICES ASSUME NEW i \in Len(g) + 1 .. Len(u) - 1
               PROVE  u[i] # "n"
    OBVIOUS
  <2>1. i - Len(g) \in 1 .. Len(l) - 1 /\ Len(g) + (i - Len(g)) = i /\ i - Len(g) \in 1 .. Len(l)
    BY <1>1
  <2> QED
    BY <1>1, <2>1
<1>6. u[Len(g) + 1] = l[1] /\ Len(g) + 1 \in 1 .. Len(u)
  BY <1>1, <1>2
<1>7. Declares(u, Len(u), ContentLength(l, c))
  <2> DEFINE f == Len(g) + 1
  <2>1. \A i \in 2 .. Len(u) : i > f => u[i - 1] # "n"
    <3> SUFFICES ASSUME NEW i \in 2 .. Len(u), i > f
                 PROVE  u[i - 1] # "n"
      OBVIOUS
    <3>1. i - 1 \in Len(g) + 1 .. Len(u) - 1
      BY <1>1
    <3> QED
      BY <1>5, <3>1
  <2>2. FieldsTo(u, Len(u)) \subseteq 2 .. f
    <3>1. \A i \in FieldsTo(u, Len(u)) : i \in 2 .. Len(u) /\ u[i - 1] = "n"
      BY DEF FieldsTo
    <3>2. f \in Int /\ \A i \in 2 .. Len(u) : ~(i > f) => i \in 2 .. f
      BY <1>1
    <3> HIDE DEF f
    <3> QED
      BY <2>1, <3>1, <3>2
  <2>3. FieldsTo(u, Len(u)) \ {f} = FieldsTo(u, Len(g))
    BY <1>1, <1>6, <2>2 DEF FieldsTo
  <2>4. f \in FieldsTo(u, Len(u)) <=> l[1] \in DOMAIN Lengths
    <3>1. CASE g = << >>
      <4>1. f = 1 /\ l[1] \notin DOMAIN Lengths
        BY <1>2, <3>1 DEF Lengths
      <4> QED
        BY <4>1 DEF FieldsTo
    <3>2. CASE g # << >>
      <4>1. f \in 2 .. Len(u) /\ f - 1 = Len(g) /\ Len(g) \in 1 .. Len(g)
        BY <1>1, <1>2, <1>6, <3>2
      <4>2. u[f - 1] = "n" /\ u[f] = l[1]
        BY <1>1, <1>6, <3>2, <4>1
      <4> QED
        BY <4>1, <4>2 DEF FieldsTo
    <3> QED
      BY <3>1, <3>2
  <2>5. CASE l[1] \in DOMAIN Lengths
    <3>1. ContentLength(l, c) = Lengths[u[f]]
      BY <1>6, <2>5 DEF ContentLength
    <3>2. \A j \in FieldsTo(u, Len(u)) : j <= f
      BY <1>1, <2>2
    <3> HIDE DEF f
    <3> QED
      BY <2>4, <2>5, <3>1, <3>2 DEF Declares
  <2>6. CASE l[1] \notin DOMAIN Lengths
    <3>1. ContentLength(l, c) = c /\ FieldsTo(u, Len(u)) = FieldsTo(u, Len(g))
      BY <2>3, <2>4, <2>6 DEF ContentLength
    <3> QED
      BY <1>4, <3>1 DEF Declares
  <2> QED
    BY <2>5, <2>6
<1>8. ASSUME NEW i \in Beginnings(u)
      PROVE  i = Len(u) /\ IsBlankLine(l)
  <2>1. i \in 3 .. Len(u) /\ u[i - 2] = "n" /\ u[i - 1] = "r" /\ u[i] = "n"
    BY <1>1, BeginningsAre
  <2>2. i > Len(g)
    BY <1>1, <1>3, <2>1
  <2>3. i = Len(u)
    <3>1. ~(i \in Len(g) + 1 .. Len(u) - 1)
      BY <1>5, <2>1
    <3> QED
      BY <1>1, <2>1, <2>2, <3>1
  <2>4. i - 2 <= Len(g)
    <3>1. ~(i - 2 \in Len(g) + 1 .. Len(u) - 1)
      BY <1>5, <2>1
    <3> QED
      BY <1>1, <2>1, <2>3, <3>1
  <2>5. i - 1 > Len(g)
    <3> SUFFICES ASSUME i - 1 <= Len(g)
                 PROVE  FALSE
      BY <1>1, <2>1
    <3>1. i - 1 = Len(g) /\ i - 1 \in 1 .. Len(g)
      BY <1>1, <2>1, <2>2
    <3>2. u[i - 1] = g[Len(g)] /\ g # << >>
      BY <1>1, <1>2, <3>1
    <3> QED
      BY <2>1, <3>2
  <2>6. Len(l) = 2 /\ i - 1 = Len(g) + 1 /\ i = Len(g) + 2
    <3> DEFINE p == Len(g)
               k == Len(l)
    <3>1. p \in Nat /\ k \in Nat /\ i \in Int /\ i = p + k /\ i - 2 <= p /\ i - 1 > p
      BY <1>1, <2>1, <2>3, <2>4, <2>5
    <3> HIDE DEF p, k
    <3>2. k = 2 /\ i - 1 = p + 1 /\ i = p + 2
      BY <3>1
    <3> QED
      BY <3>2 DEF p, k
  <2>7. l[1] = "r" /\ l[2] = "n"
    <3>1. 1 \in 1 .. Len(l) /\ 2 \in 1 .. Len(l)
      BY <2>6
    <3> QED
      BY <1>1, <2>1, <2>6, <3>1
  <2> QED
    BY <2>3, <2>6, <2>7 DEF IsBlankLine
<1>9. ASSUME IsBlankLine(l)
      PROVE  Len(u) \in Beginnings(u)
  <2>1. Len(l) >= 2 /\ l[1] = "r" /\ l[2] = "n"
    BY <1>9 DEF IsBlankLine
  <2>2. Len(l) = 2
    <3> DEFINE k == Len(l)
    <3>1. ~(2 \in 1 .. k - 1) /\ k \in Nat /\ k >= 2
      BY <1>1, <2>1
    <3> HIDE DEF k
    <3>2. k = 2
      BY <3>1
    <3> QED
      BY <3>2 DEF k
  <2>3. g # << >> /\ Len(g) >= 1 /\ g[Len(g)] = "n"
    BY <1>1, <1>2, <2>1
  <2>4. Len(u) \in 3 .. Len(u) /\ Len(u) - 2 = Len(g) /\ Len(u) - 1 = Len(g) + 1
        /\ Len(u) = Len(g) + 2 /\ Len(g) \in 1 .. Len(g) /\ 2 \in 1 .. Len(l)
    BY <1>1, <2>2, <2>3
  <2>5. u[Len(u) - 2] = "n" /\ u[Len(u) - 1] = "r" /\ u[Len(u)] = "n"
    BY <1>1, <1>6, <2>1, <2>3, <2>4
  <2> QED
    BY <1>1, <2>4, <2>5, BeginningsAre
<1> QED
  BY <1>7, <1>8, <1>9 DEF u

-----------------------------------------------------------------------------
(***************************************************************************)
(* What a step changes.                                                    *)
(***************************************************************************)

\* A step of one connection keeps the invariant of the others.
LEMMA KeepsOthers ==
  ASSUME IInv, NEW c \in Client, NEW u, NEW v, Good(u, v),
         th' = [th EXCEPT ![c] = u] \/ (th' = th /\ u = th[c]),
         io' = [io EXCEPT ![c] = v] \/ (io' = io /\ v = io[c])
  PROVE  IInv'
<1>1. /\ th' = [d \in Client |-> th'[d]] /\ th'[c] = u
      /\ \A d \in Client \ {c} : th'[d] = th[d]
  BY DEF IInv
<1>2. /\ io' = [d \in Client |-> io'[d]] /\ io'[c] = v
      /\ \A d \in Client \ {c} : io'[d] = io[d]
  BY DEF IInv
<1>3. ASSUME NEW d \in Client
      PROVE  Good(th'[d], io'[d])
  BY <1>1, <1>2 DEF IInv
<1>4. th' = [d \in Client |-> th'[d]] /\ io' = [d \in Client |-> io'[d]]
  BY <1>1, <1>2
<1> QED
  BY <1>3, <1>4 DEF IInv

\* A thread that goes on elsewhere, and the streams after a call has taken r from one.
Went(t, p) == [t EXCEPT !.pc = p]
TookUp(q, r) == [q EXCEPT !.up = r.rest, !.upEnd = r.end]
PassedUp(q, r) == [q EXCEPT !.up = r.rest, !.upEnd = r.end, !.sent = @ \o r.line]
TookBack(q, r) == [q EXCEPT !.back = r.rest, !.backEnd = r.end]
PassedBack(q, r) == [q EXCEPT !.back = r.rest, !.backEnd = r.end, !.got = @ \o r.line]

SameThread(u, t) == /\ u.line = t.line /\ u.clen = t.clen /\ u.size = t.size
                    /\ u.garbled = t.garbled /\ u.logged = t.logged
SameUp(v, q) == v.asked = q.asked /\ v.sent = q.sent /\ v.up = q.up
SameDown(v, q) == v.answered = q.answered /\ v.got = q.got /\ v.back = q.back

\* A thread that goes on elsewhere keeps all but its place.
LEMMA WentIs ==
  ASSUME NEW t, NEW q, Shape(t, q), NEW p
  PROVE  Shape(Went(t, p), q) /\ Went(t, p).pc = p /\ SameThread(Went(t, p), t)
<1> DEFINE u == Went(t, p)
<1>1. u = [f \in Fields |-> u[f]] /\ u.pc = p /\ SameThread(u, t)
  BY DEF Shape, Went, Fields, SameThread
<1> HIDE DEF u
<1>2. Shape(u, q)
  BY <1>1 DEF Shape, SameThread
<1> QED
  BY <1>1, <1>2 DEF u

\* What a call that takes bytes from the client does to the streams.
LEMMA UpIs ==
  ASSUME NEW q \in Streams, NEW r, Took(r, q.up)
  PROVE  /\ TookUp(q, r) \in Streams /\ SameDown(TookUp(q, r), q)
         /\ TookUp(q, r).asked = q.asked /\ TookUp(q, r).sent = q.sent
         /\ TookUp(q, r).up = r.rest
         /\ PassedUp(q, r) \in Streams /\ SameDown(PassedUp(q, r), q)
         /\ PassedUp(q, r).asked = q.asked /\ PassedUp(q, r).sent = Cat(q.sent, r.line)
         /\ PassedUp(q, r).up = r.rest
<1>1. Cat(q.sent, r.line) \in Str
  BY Regroup DEF Streams, Took
<1>2. PassedUp(q, r) = [q EXCEPT !.up = r.rest, !.upEnd = r.end, !.sent = Cat(q.sent, r.line)]
  BY DEF PassedUp, Cat
<1> QED
  BY <1>1, <1>2 DEF Streams, Took, TookUp, SameDown

\* The same of a call that takes bytes from the server.
LEMMA BackIs ==
  ASSUME NEW q \in Streams, NEW r, Took(r, q.back)
  PROVE  /\ TookBack(q, r) \in Streams /\ SameUp(TookBack(q, r), q)
         /\ TookBack(q, r).answered = q.answered /\ TookBack(q, r).got = q.got
         /\ PassedBack(q, r) \in Streams /\ SameUp(PassedBack(q, r), q)
         /\ PassedBack(q, r).answered = q.answered
         /\ PassedBack(q, r).got = Cat(q.got, r.line) /\ PassedBack(q, r).back = r.rest
<1>1. Cat(q.got, r.line) \in Str
  BY Regroup DEF Streams, Took
<1>2. PassedBack(q, r) = [q EXCEPT !.back = r.rest, !.backEnd = r.end,
                                   !.got = Cat(q.got, r.line)]
  BY DEF PassedBack, Cat
<1> QED
  BY <1>1, <1>2 DEF Streams, Took, TookBack, SameUp

Early == Waiting \cup Dialling \cup Sending

\* Before receive nothing of the answer is touched.
LEMMA EarlyStep ==
  ASSUME NEW t, NEW q, NEW u, NEW v, Good(t, q), t.pc \in Early,
         u.pc \in Early \cup Closing \/ (u.pc = "rheader" /\ u.clen = 0),
         u.size = t.size, u.logged = t.logged, SameDown(v, q)
  PROVE  Downward(u, v) /\ Account(u, v)
<1>1. Downward(u, v)
  BY DEF Good, Downward, Early, SameDown
<1>2. t.logged = NoEntry /\ t.size = 0 /\ q.got = << >>
  BY DEF Good, Account, Early, Waiting, Dialling, Sending, Closing
<1>3. u.logged = NoEntry /\ u.size = 0 /\ v.got = << >>
  BY <1>2 DEF SameDown
<1>4. ~IsWhole(v.got) /\ Len(v.got) = 0 /\ Beginnings(v.got) = {}
      /\ Declares(v.got, Len(v.got), 0)
  BY <1>3, NotWhole, Empty
<1>5. u.pc = "rheader" => InHeaders(u, v)
  <2>1. u.pc = "rheader" => u.clen = 0
    BY DEF Early, Waiting, Dialling, Sending, Closing
  <2> QED
    BY <1>3, <1>4, <2>1 DEF InHeaders
<1>6. u.pc # "rbody" /\ u.pc \notin Received
  BY DEF Early, Waiting, Dialling, Sending, Closing, Received
<1>7. u.pc # "log"
  BY <1>6 DEF Received
<1>8. Account(u, v)
  BY <1>3, <1>4, <1>5, <1>6, <1>7 DEF Account
<1> QED
  BY <1>1, <1>8

\* Afterwards nothing of the request is.
LEMMA UpEnds ==
  ASSUME NEW t, NEW q, NEW u, NEW v, Good(t, q), u.pc \notin Early, u.garbled = t.garbled,
         v.asked = q.asked, v.sent = q.sent
  PROVE  Upward(u, v)
BY DEF Good, Upward, Early, Wanted, FirstLine

\* Bytes of the request are passed on.
LEMMA PassesUp ==
  ASSUME NEW t, NEW q, NEW u, NEW v, NEW r, Good(t, q), t.pc \in Sending, Took(r, q.up),
         u.pc \in Sending \cup {"rheader"}, u.garbled = t.garbled,
         v.asked = q.asked, v.sent = Cat(q.sent, r.line), v.up = r.rest
  PROVE  Upward(u, v)
<1>1. Wanted(v) = Wanted(q)
  BY DEF Wanted, FirstLine
<1>2. ASSUME ~u.garbled
      PROVE  Goes(v.sent, v.up, Wanted(v))
  <2> DEFINE sent == q.sent
             line == r.line
             rest == r.rest
             all == Wanted(q)
  <2>1. Goes(sent, Cat(line, rest), all)
    BY <1>2 DEF Good, Upward, Took
  <2>2. sent \in Str /\ line \in Str /\ rest \in Str
    BY DEF Good, Shape, Streams, Took
  <2>3. v.sent = Cat(sent, line) /\ v.up = rest /\ Wanted(v) = all
    BY <1>1
  <2> HIDE DEF sent, line, rest, all
  <2> QED
    BY <2>1, <2>2, <2>3, GoesOn
<1> QED
  BY <1>2 DEF Upward, Goes, Waiting, Dialling, Sending

\* So are bytes of the answer.
LEMMA PassesBack ==
  ASSUME NEW t, NEW q, NEW u, NEW v, NEW r, Good(t, q), t.pc \in Receiving, Took(r, q.back),
         v.answered = q.answered, v.got = Cat(q.got, r.line), v.back = r.rest
  PROVE  Downward(u, v)
<1>1. Goes(v.got, v.back, v.answered)
  <2> DEFINE got == q.got
             line == r.line
             rest == r.rest
             all == q.answered
  <2>1. Goes(got, Cat(line, rest), all)
    BY DEF Good, Downward, Took
  <2>2. got \in Str /\ line \in Str /\ rest \in Str
    BY DEF Good, Shape, Streams, Took
  <2>3. v.got = Cat(got, line) /\ v.back = rest /\ v.answered = all
    OBVIOUS
  <2> HIDE DEF got, line, rest, all
  <2> QED
    BY <2>1, <2>2, <2>3, GoesOn
<1> QED
  BY <1>1 DEF Good, Downward, Goes

-----------------------------------------------------------------------------
(***************************************************************************)
(* The steps up to receive.                                                *)
(***************************************************************************)

\* A connection is accepted, or the process ends.
LEMMA AcceptKeeps ==
  ASSUME IInv, NEW c \in Client, Accept(c) PROVE IInv'
<1>1. CASE th' = th /\ io' = io
  BY <1>1 DEF IInv
<1>2. CASE th' = [th EXCEPT ![c].pc = "start", ![c].cfd = NewFd]
  <2> DEFINE t == th[c]
             q == io[c]
             u == [t EXCEPT !.pc = "start", !.cfd = NewFd]
  <2>1. Good(t, q) /\ t.pc = "queued" /\ io' = io /\ th' = [th EXCEPT ![c] = u]
    BY <1>2 DEF IInv, Accept
  <2>2. u = [f \in Fields |-> u[f]] /\ u.pc = "start" /\ SameThread(u, t)
    BY <2>1 DEF Good, Shape, Fields, SameThread
  <2> HIDE DEF t, q, u
  <2>3. Shape(u, q)
    BY <2>1, <2>2 DEF Good, Shape, SameThread
  <2>4. Upward(u, q)
    BY <2>1, <2>2 DEF Good, Upward, SameThread, Waiting, Dialling, Sending
  <2>5. Downward(u, q) /\ Account(u, q)
    BY <2>1, <2>2, EarlyStep DEF SameThread, SameDown, Early, Waiting
  <2>6. Good(u, q)
    BY <2>2, <2>3, <2>4, <2>5 DEF Good, Known, Waiting
  <2> QED
    BY <2>1, <2>6, KeepsOthers DEF q
<1> QED
  BY <1>1, <1>2 DEF Accept, Pthread_create

\* A thread that goes on to the closing of its connection, before receive is called.
LEMMA GoesToClosing ==
  ASSUME NEW t, NEW q, NEW v, Good(t, q), t.pc \in Early, v \in Streams, SameDown(v, q),
         v.asked = q.asked, v.sent = q.sent
  PROVE  Good(Went(t, "closing"), v)
<1> DEFINE u == Went(t, "closing")
<1>1. Shape(t, v)
  BY DEF Good, Shape
<1>2. Shape(u, v) /\ u.pc = "closing" /\ SameThread(u, t)
  BY <1>1, WentIs
<1> HIDE DEF u
<1>3. Upward(u, v)
  BY <1>2, UpEnds DEF Early, Waiting, Dialling, Sending, SameThread
<1>4. Downward(u, v) /\ Account(u, v)
  BY <1>2, EarlyStep DEF SameThread, Closing
<1>5. Good(u, v)
  BY <1>2, <1>3, <1>4 DEF Good, Known, Closing
<1> QED
  BY <1>5 DEF u

\* The request line is read; what is left of the request follows it.
LEMMA ReadRequestLineKeeps ==
  ASSUME IInv, NEW c \in Client, ReadRequestLine(c) PROVE IInv'
<1> DEFINE t == th[c]
           q == io[c]
           r == readline(q.up, q.upEnd)
           v == TookUp(q, r)
<1>1. Good(t, q) /\ t.pc = "start" /\ io' = [io EXCEPT ![c] = v]
  BY DEF IInv, ReadRequestLine, TakeUp, TookUp
<1>2. q \in Streams /\ q.up \in Str /\ q.upEnd \in Ends
  BY <1>1 DEF Good, Shape, Streams
<1>3. Took(r, q.up)
  BY <1>2, ReadLineTakes
<1>4. /\ v \in Streams /\ SameDown(v, q) /\ v.asked = q.asked /\ v.sent = q.sent
      /\ v.up = r.rest
  BY <1>2, <1>3, UpIs
<1>5. t.pc \in Early /\ q.sent = << >> /\ q.up \in {q.asked, << >>}
  BY <1>1 DEF Good, Upward, Early, Waiting
<1>6. CASE Goto(c, "closing")
  <2>1. th' = [th EXCEPT ![c] = Went(t, "closing")]
    BY <1>6 DEF Goto, Went
  <2> HIDE DEF t, q, r, v
  <2>2. Good(Went(t, "closing"), v)
    BY <1>1, <1>4, <1>5, GoesToClosing
  <2> QED
    BY <1>1, <2>1, <2>2, KeepsOthers
<1>7. ASSUME NEW u, th' = [th EXCEPT ![c] = u], u = [f \in Fields |-> u[f]], u.pc = "resolve",
             u.clen = t.clen, u.size = t.size, u.logged = t.logged, u.line \in Str,
             u.garbled \in BOOLEAN,
             ~u.garbled => u.line = RequestLine(r.line) /\ r.n > 0
      PROVE  IInv'
  <2>1. Shape(u, v)
    BY <1>1, <1>4, <1>7 DEF Good, Shape
  <2>2. ASSUME ~u.garbled
        PROVE  /\ u.line = RequestLine(FirstLine(v).line) /\ v.up = FirstLine(v).rest
               /\ FirstLine(v).rest \in Str
    <3>1. q.up # << >> /\ r.n > 0
      <4> HIDE DEF r, q
      <4>1. r.n > 0
        BY <1>7, <2>2
      <4>2. q.up # << >>
        BY <1>3, <4>1, TookSome
      <4> QED
        BY <4>1, <4>2
    <3>2. q.up = q.asked /\ q.upEnd # "reset"
      <4>1. q.upEnd = "reset" => r.n = -1
        BY <1>2, ReadLineTakes
      <4> HIDE DEF r
      <4> QED
        BY <1>5, <3>1, <4>1
    <3>3. FirstLine(v).line = r.line /\ FirstLine(v).rest = r.rest
      <4>1. FirstLine(v) = readline(q.up, "eof")
        <5> HIDE DEF v, q
        <5> QED
          BY <1>4, <3>2 DEF FirstLine
      <4>2. r.line = readline(q.up, "eof").line /\ r.rest = readline(q.up, "eof").rest
        <5> HIDE DEF q
        <5> QED
          BY <3>2, SameLine
      <4> HIDE DEF v, q, r
      <4> QED
        BY <4>1, <4>2
    <3> QED
      BY <1>3, <1>4, <1>7, <2>2, <3>3 DEF Took
  <2>3. Upward(u, v)
    BY <1>4, <1>5, <1>7, <2>2 DEF Upward, Waiting, Dialling, Sending
  <2>4. Downward(u, v) /\ Account(u, v)
    <3> HIDE DEF t, q, v
    <3> QED
      BY <1>1, <1>4, <1>5, <1>7, EarlyStep DEF Early, Dialling
  <2>5. Good(u, v)
    BY <1>7, <2>1, <2>3, <2>4 DEF Good, Known, Dialling
  <2> HIDE DEF v
  <2> QED
    BY <1>1, <1>7, <2>5, KeepsOthers
<1>8. CASE /\ r.n > 0 /\ HasUri(r.line)
           /\ th' = [th EXCEPT ![c].pc = "resolve", ![c].line = RequestLine(r.line),
                               ![c].garbled = ~parse_uri(r.line)]
  <2> DEFINE u == [t EXCEPT !.pc = "resolve", !.line = RequestLine(r.line),
                            !.garbled = ~parse_uri(r.line)]
  <2>1. th' = [th EXCEPT ![c] = u]
    BY <1>8
  <2>2. RequestLine(r.line) \in Str /\ parse_uri(r.line) \in BOOLEAN
    BY <1>3, <1>8, RequestLineIsString DEF Took, parse_uri
  <2>3. /\ u = [f \in Fields |-> u[f]] /\ u.pc = "resolve" /\ u.clen = t.clen
        /\ u.size = t.size /\ u.logged = t.logged /\ u.line = RequestLine(r.line)
        /\ u.garbled \in BOOLEAN
    BY <1>1, <2>2 DEF Good, Shape, Fields
  <2> HIDE DEF u, r, t
  <2> QED
    BY <1>7, <1>8, <2>1, <2>2, <2>3
<1>9. CASE th' = [th EXCEPT ![c].pc = "resolve", ![c].garbled = TRUE]
  <2> DEFINE u == [t EXCEPT !.pc = "resolve", !.garbled = TRUE]
  <2>1. th' = [th EXCEPT ![c] = u]
    BY <1>9
  <2>2. /\ u = [f \in Fields |-> u[f]] /\ u.pc = "resolve" /\ u.clen = t.clen
        /\ u.size = t.size /\ u.logged = t.logged /\ u.line \in Str /\ u.garbled = TRUE
    BY <1>1 DEF Good, Shape, Fields
  <2> HIDE DEF u, r, t
  <2> QED
    BY <1>7, <2>1, <2>2
<1> QED
  BY <1>6, <1>8, <1>9 DEF ReadRequestLine

\* Looking for an address that answers changes neither stream.
LEMMA DiallingKeeps ==
  ASSUME IInv, NEW c \in Client, NEW u, th[c].pc \in Dialling, io' = io,
         th' = [th EXCEPT ![c] = u], u = [f \in Fields |-> u[f]], SameThread(u, th[c]),
         u.pc \in Dialling \cup {"closing"}
  PROVE  IInv'
<1> DEFINE t == th[c]
           q == io[c]
<1>1. Good(t, q) /\ t.pc \in Dialling
  BY DEF IInv
<1>2. SameThread(u, t)
  OBVIOUS
<1>3. th' = [th EXCEPT ![c] = u] /\ io' = io /\ q = io[c]
  OBVIOUS
<1> HIDE DEF t, q
<1>4. Shape(u, q)
  BY <1>1, <1>2 DEF Good, Shape, SameThread
<1>5. Upward(u, q)
  BY <1>1, <1>2 DEF Good, Upward, SameThread, Waiting, Dialling, Sending
<1>6. Downward(u, q) /\ Account(u, q)
  BY <1>1, <1>2, EarlyStep DEF SameThread, SameDown, Early, Closing
<1>7. Good(u, q)
  BY <1>4, <1>5, <1>6 DEF Good, Known, Dialling, Closing
<1> QED
  BY <1>3, <1>7, KeepsOthers

\* open_clientfd: the addresses of the server are tried.
LEMMA OpenConnectionKeeps ==
  ASSUME IInv, NEW c \in Client, Resolve(c) \/ OpenSocket(c) \/ Dial(c)
  PROVE  IInv'
<1> DEFINE t == th[c]
           Within(u) == u = [f \in Fields |-> u[f]] /\ SameThread(u, t)
<1>1. Shape(t, io[c]) /\ t.pc \in Dialling /\ io' = io
  BY DEF IInv, Good, Resolve, OpenSocket, Dial, Dialling
<1>2. ASSUME NEW u, th' = [th EXCEPT ![c] = u], Within(u), u.pc \in Dialling \cup {"closing"}
      PROVE  IInv'
  BY <1>1, <1>2, DiallingKeeps
<1>3. CASE NextAddress(c)
  <2> DEFINE u == [t EXCEPT !.addrs = @ - 1, !.sfd = None,
                            !.pc = IF t.addrs > 1 THEN "socket" ELSE "closing"]
  <2>1. th' = [th EXCEPT ![c] = u]
    BY <1>3 DEF NextAddress
  <2>2. Within(u) /\ u.pc \in {"socket", "closing"}
    BY <1>1 DEF Shape, Fields, SameThread
  <2> HIDE DEF u
  <2> QED
    BY <1>2, <2>1, <2>2 DEF Dialling
<1>4. CASE Resolve(c)
  <2>1. PICK k \in 0 .. ADDRS :
          th' = [th EXCEPT ![c].pc = IF k = 0 THEN "closing" ELSE "socket", ![c].addrs = k]
    BY <1>4 DEF Resolve
  <2> DEFINE u == [t EXCEPT !.pc = IF k = 0 THEN "closing" ELSE "socket", !.addrs = k]
  <2>2. th' = [th EXCEPT ![c] = u]
    BY <2>1
  <2>3. Within(u) /\ u.pc \in {"socket", "closing"}
    BY <1>1 DEF Shape, Fields, SameThread
  <2> HIDE DEF u
  <2> QED
    BY <1>2, <2>2, <2>3 DEF Dialling
<1>5. CASE OpenSocket(c)
  <2>1. CASE th' = [th EXCEPT ![c].pc = "dial", ![c].sfd = NewFd]
    <3> DEFINE u == [t EXCEPT !.pc = "dial", !.sfd = NewFd]
    <3>1. th' = [th EXCEPT ![c] = u]
      BY <2>1
    <3>2. Within(u) /\ u.pc = "dial"
      BY <1>1 DEF Shape, Fields, SameThread
    <3> HIDE DEF u
    <3> QED
      BY <1>2, <3>1, <3>2 DEF Dialling
  <2> QED
    BY <1>3, <1>5, <2>1 DEF OpenSocket
<1>6. CASE Dial(c)
  <2>1. CASE Goto(c, "sendline")
    <3>1. th' = [th EXCEPT ![c] = Went(t, "sendline")]
      BY <2>1 DEF Goto, Went
    <3>2. Within(Went(t, "sendline")) /\ Went(t, "sendline").pc = "sendline"
      BY <1>1, WentIs DEF Shape
    <3> QED
      BY <1>2, <3>1, <3>2 DEF Dialling
  <2> QED
    BY <1>3, <1>6, <2>1 DEF Dial
<1> QED
  BY <1>4, <1>5, <1>6

\* The request line goes to the server, or the thread gives up.
LEMMA SendRequestLineKeeps ==
  ASSUME IInv, NEW c \in Client, SendRequestLine(c) PROVE IInv'
<1> DEFINE t == th[c]
           q == io[c]
<1>1. Good(t, q) /\ t.pc = "sendline" /\ q = io[c]
  BY DEF IInv, SendRequestLine
<1>2. q \in Streams /\ t.line \in Str /\ q.up \in Str
  BY <1>1 DEF Good, Shape, Streams
<1>3. CASE GiveUp(c) /\ io' = io
  <2>1. th' = [th EXCEPT ![c] = Went(t, "closing")]
    BY <1>3 DEF GiveUp, Goto, Went
  <2> HIDE DEF t, q
  <2>2. Good(Went(t, "closing"), q)
    BY <1>1, <1>2, GoesToClosing DEF Early, Dialling, SameDown
  <2> QED
    BY <1>1, <1>3, <2>1, <2>2, KeepsOthers
<1>4. CASE io' = [io EXCEPT ![c].sent = th[c].line] /\ Goto(c, "header")
  <2> DEFINE u == Went(t, "header")
             v == [q EXCEPT !.sent = t.line]
  <2>1. th' = [th EXCEPT ![c] = u] /\ io' = [io EXCEPT ![c] = v]
    BY <1>4 DEF Goto, Went
  <2>2. v \in Streams /\ SameDown(v, q) /\ v.asked = q.asked /\ v.sent = t.line /\ v.up = q.up
    BY <1>2 DEF Streams, SameDown
  <2>3. Shape(t, v)
    BY <1>1, <2>2 DEF Good, Shape
  <2> HIDE DEF t, q, v
  <2>4. Shape(u, v) /\ u.pc = "header" /\ SameThread(u, t)
    BY <2>3, WentIs
  <2> HIDE DEF u
  <2>5. ASSUME ~u.garbled
        PROVE  Goes(v.sent, v.up, Wanted(v))
    <3> DEFINE line == t.line
               rest == FirstLine(q).rest
    <3>1. ~t.garbled
      BY <2>4, <2>5 DEF SameThread
    <3>2. line = RequestLine(FirstLine(q).line) /\ q.up \in {rest, << >>} /\ rest \in Str
      BY <1>1, <3>1 DEF Good, Upward, Dialling
    <3>3. Wanted(v) = Cat(line, rest)
      BY <2>2, <3>2 DEF Wanted, FirstLine, Cat
    <3>4. v.sent = line /\ v.up \in {rest, << >>} /\ line \in Str /\ rest \in Str
      BY <1>2, <2>2, <3>2
    <3> HIDE DEF line, rest
    <3>5. IsPrefix(line, Cat(line, rest))
      BY <3>4, Lengthens
    <3> QED
      BY <3>3, <3>4, <3>5 DEF Goes, Cat
  <2>6. Upward(u, v)
    BY <2>4, <2>5 DEF Upward, Goes, Waiting, Dialling
  <2>7. Downward(u, v) /\ Account(u, v)
    BY <1>1, <2>2, <2>4, EarlyStep DEF SameThread, Early, Dialling, Sending
  <2>8. Good(u, v)
    BY <2>4, <2>6, <2>7 DEF Good, Known, Sending
  <2> QED
    BY <2>1, <2>8, KeepsOthers
<1> QED
  BY <1>3, <1>4 DEF SendRequestLine

\* The length of the body that is still to come.
LEMMA LengthIsNat ==
  /\ \A line, old : old \in Nat => ContentLength(line, old) \in Nat
  /\ \A length \in Nat : /\ AfterHeader(length) \in {"body", "rheader"}
                         /\ AfterHeader(length) = "rheader" => length = 0
<1>1. \A b \in DOMAIN Lengths : Lengths[b] \in Nat
  BY DEF Lengths
<1>2. \A line, old : old \in Nat => ContentLength(line, old) \in Nat
  BY <1>1 DEF ContentLength
<1>3. \A length \in Nat : /\ AfterHeader(length) \in {"body", "rheader"}
                          /\ AfterHeader(length) = "rheader" => length = 0
  BY DEF AfterHeader
<1> QED
  BY <1>2, <1>3

\* A step of a thread that forwards the request and goes on with that, or with receive.
LEMMA SendingStep ==
  ASSUME NEW t, NEW q, NEW u, NEW v, Good(t, q), t.pc \in Sending, Upward(u, v), Shape(u, v),
         u.pc \in Sending \/ (u.pc = "rheader" /\ u.clen = 0),
         u.size = t.size, u.logged = t.logged, SameDown(v, q)
  PROVE  Good(u, v)
<1>1. Downward(u, v) /\ Account(u, v)
  BY EarlyStep DEF Early
<1> QED
  BY <1>1 DEF Good, Known, Sending, Receiving

\* A step that leaves the request where it is.
LEMMA SameUpKeeps ==
  ASSUME NEW t, NEW q, NEW u, NEW v, Good(t, q), t.pc \in Sending, SameUp(v, q),
         u.garbled = t.garbled, u.pc \in Sending \cup Receiving
  PROVE  Upward(u, v)
BY DEF Good, Upward, SameUp, Wanted, FirstLine, Goes, Waiting, Dialling, Sending, Receiving

\* A line of the request's headers is passed on, or lost with the connection.
LEMMA ForwardHeaderKeeps ==
  ASSUME IInv, NEW c \in Client, ForwardHeader(c) PROVE IInv'
<1> DEFINE t == th[c]
           q == io[c]
           r == readline(q.up, q.upEnd)
           length == ContentLength(r.line, t.clen)
<1>1. Good(t, q) /\ t.pc = "header" /\ t = th[c]
  BY DEF IInv, ForwardHeader
<1>2. q \in Streams /\ q.up \in Str /\ q.upEnd \in Ends /\ t.clen \in Nat
  BY <1>1 DEF Good, Shape, Streams
<1>3. Took(r, q.up)
  BY <1>2, ReadLineTakes
<1>4. t.pc \in Sending /\ t.pc \in Early
  BY <1>1 DEF Sending, Early
<1>5. length \in Nat
  BY <1>2, LengthIsNat
<1>6. TakeUp(c, r) => io' = [io EXCEPT ![c] = TookUp(q, r)]
  BY DEF TakeUp, TookUp
<1>7. PassUp(c, r) => io' = [io EXCEPT ![c] = PassedUp(q, r)]
  BY DEF PassUp, PassedUp
<1>8. \A p : Goto(c, p) => th' = [th EXCEPT ![c] = Went(t, p)]
  BY DEF Goto, Went
<1>9. \/ r.n < 0 /\ TakeUp(c, r) /\ th' = th
      \/ r.n = 0 /\ TakeUp(c, r) /\ Goto(c, AfterHeader(t.clen))
      \/ /\ PassUp(c, r)
         /\ th' = [th EXCEPT ![c].clen = length,
                             ![c].pc = IF IsBlankLine(r.line) THEN AfterHeader(length) ELSE @]
      \/ TakeUp(c, r) /\ Goto(c, "closing")
  BY DEF ForwardHeader, GiveUp
<1> DEFINE v == TookUp(q, r)
<1>10. /\ v \in Streams /\ SameDown(v, q) /\ v.asked = q.asked /\ v.sent = q.sent
       /\ v.up = r.rest
  BY <1>2, <1>3, UpIs
<1>11. r.n <= 0 => SameUp(v, q)
  BY <1>3, <1>10 DEF SameUp, Took
<1>12. Shape(t, v)
  BY <1>1, <1>10 DEF Good, Shape
<1>13. CASE r.n < 0 /\ TakeUp(c, r) /\ th' = th
  <2> HIDE DEF t, q, r, v
  <2>0. SameUp(v, q)
    <3>1. r.n <= 0
      BY <1>3, <1>13 DEF Took
    <3> QED
      BY <1>11, <3>1
  <2>1. Upward(t, v)
    BY <1>1, <1>4, <2>0, SameUpKeeps
  <2>2. Good(t, v)
    BY <1>1, <1>4, <1>10, <1>12, <2>1, SendingStep
  <2> QED
    BY <1>1, <1>6, <1>13, <2>2, KeepsOthers DEF v
<1>14. CASE r.n = 0 /\ TakeUp(c, r) /\ Goto(c, AfterHeader(t.clen))
  <2> DEFINE u == Went(t, AfterHeader(t.clen))
  <2> HIDE DEF t, q, r, v
  <2>0. SameUp(v, q)
    BY <1>11, <1>14
  <2>1. Shape(u, v) /\ u.pc = AfterHeader(t.clen) /\ SameThread(u, t)
    BY <1>12, WentIs
  <2> HIDE DEF u
  <2>2. u.pc \in {"body", "rheader"} /\ (u.pc = "rheader" => u.clen = 0)
    BY <1>2, <2>1, LengthIsNat DEF SameThread
  <2>3. Upward(u, v)
    BY <1>1, <1>4, <2>0, <2>1, <2>2, SameUpKeeps DEF SameThread, Sending, Receiving
  <2>4. Good(u, v)
    BY <1>1, <1>4, <1>10, <2>1, <2>2, <2>3, SendingStep DEF SameThread, Sending
  <2> QED
    BY <1>6, <1>8, <1>14, <2>4, KeepsOthers DEF v, u
<1>15. CASE /\ PassUp(c, r)
            /\ th' = [th EXCEPT ![c].clen = length,
                                ![c].pc = IF IsBlankLine(r.line) THEN AfterHeader(length) ELSE @]
  <2> DEFINE u == [t EXCEPT !.clen = length,
                            !.pc = IF IsBlankLine(r.line) THEN AfterHeader(length) ELSE @]
             w == PassedUp(q, r)
  <2>1. th' = [th EXCEPT ![c] = u] /\ io' = [io EXCEPT ![c] = w]
    BY <1>7, <1>15
  <2>2. /\ w \in Streams /\ SameDown(w, q) /\ w.asked = q.asked /\ w.up = r.rest
        /\ w.sent = Cat(q.sent, r.line)
    BY <1>2, <1>3, UpIs
  <2> HIDE DEF r, w, q, length
  <2>3. /\ u = [f \in Fields |-> u[f]] /\ u.clen = length /\ u.size = t.size
        /\ u.logged = t.logged /\ u.garbled = t.garbled /\ u.line = t.line
        /\ u.pc = IF IsBlankLine(r.line) THEN AfterHeader(length) ELSE t.pc
    BY <1>1 DEF Good, Shape, Fields
  <2> HIDE DEF u, t
  <2>4. u.pc \in {"header", "body", "rheader"} /\ (u.pc = "rheader" => u.clen = 0)
    BY <1>1, <1>5, <2>3, LengthIsNat
  <2>5. Shape(u, w)
    BY <1>1, <1>5, <2>2, <2>3 DEF Good, Shape
  <2>6. Upward(u, w)
    BY <1>1, <1>3, <1>4, <2>2, <2>3, <2>4, PassesUp DEF Sending
  <2>7. Good(u, w)
    BY <1>1, <1>4, <2>2, <2>3, <2>4, <2>5, <2>6, SendingStep DEF Sending
  <2> QED
    BY <2>1, <2>7, KeepsOthers
<1>16. CASE TakeUp(c, r) /\ Goto(c, "closing")
  <2> HIDE DEF t, q, r, v
  <2>1. Good(Went(t, "closing"), v)
    BY <1>1, <1>4, <1>10, GoesToClosing
  <2> QED
    BY <1>6, <1>8, <1>16, <2>1, KeepsOthers DEF v
<1> QED
  BY <1>9, <1>13, <1>14, <1>15, <1>16

\* The same of a piece of the request's body.
LEMMA ForwardBodyKeeps ==
  ASSUME IInv, NEW c \in Client, ForwardBody(c) PROVE IInv'
<1> DEFINE t == th[c]
           q == io[c]
           max == IF t.clen > MAXLINE THEN MAXLINE ELSE t.clen
<1>1. Good(t, q) /\ t.pc = "body" /\ t = th[c]
  BY DEF IInv, ForwardBody
<1>2. q \in Streams /\ q.up \in Str /\ q.upEnd \in Ends /\ t.clen \in Nat
  BY <1>1 DEF Good, Shape, Streams
<1>3. max \in Nat /\ max <= t.clen
  BY <1>2, ProxyAssumption
<1>4. t.pc \in Sending /\ t.pc \in Early
  BY <1>1 DEF Sending, Early
<1>5. PICK r \in read(q.up, q.upEnd, max) :
        \/ /\ PassUp(c, r)
           /\ th' = [th EXCEPT ![c].clen = @ - r.n, ![c].pc = AfterHeader(t.clen - r.n)]
        \/ TakeUp(c, r) /\ Goto(c, "closing")
  BY DEF ForwardBody, GiveUp
<1> HIDE DEF max
<1>6. Took(r, q.up) /\ r.n <= max
  BY <1>2, <1>3, ReadTakes
<1> DEFINE left == t.clen - r.n
<1>7. left \in Nat
  BY <1>2, <1>3, <1>6 DEF Took
<1>8. CASE /\ PassUp(c, r)
           /\ th' = [th EXCEPT ![c].clen = @ - r.n, ![c].pc = AfterHeader(t.clen - r.n)]
  <2> DEFINE u == [t EXCEPT !.clen = left, !.pc = AfterHeader(left)]
             w == PassedUp(q, r)
  <2>1. th' = [th EXCEPT ![c] = u] /\ io' = [io EXCEPT ![c] = w]
    BY <1>8 DEF PassUp, PassedUp
  <2>2. /\ w \in Streams /\ SameDown(w, q) /\ w.asked = q.asked /\ w.up = r.rest
        /\ w.sent = Cat(q.sent, r.line)
    BY <1>2, <1>6, UpIs
  <2> HIDE DEF w, q, left
  <2>3. /\ u = [f \in Fields |-> u[f]] /\ u.clen = left /\ u.size = t.size
        /\ u.logged = t.logged /\ u.garbled = t.garbled /\ u.line = t.line
        /\ u.pc = AfterHeader(left)
    BY <1>1 DEF Good, Shape, Fields
  <2> HIDE DEF u, t
  <2>4. u.pc \in {"body", "rheader"} /\ (u.pc = "rheader" => u.clen = 0)
    BY <1>7, <2>3, LengthIsNat
  <2>5. Shape(u, w)
    BY <1>1, <1>7, <2>2, <2>3 DEF Good, Shape
  <2>6. Upward(u, w)
    BY <1>1, <1>4, <1>6, <2>2, <2>3, <2>4, PassesUp DEF Sending
  <2>7. Good(u, w)
    BY <1>1, <1>4, <2>2, <2>3, <2>4, <2>5, <2>6, SendingStep DEF Sending
  <2> QED
    BY <2>1, <2>7, KeepsOthers
<1>9. CASE TakeUp(c, r) /\ Goto(c, "closing")
  <2> DEFINE v == TookUp(q, r)
  <2>1. io' = [io EXCEPT ![c] = v] /\ th' = [th EXCEPT ![c] = Went(t, "closing")]
    BY <1>9 DEF TakeUp, TookUp, Goto, Went
  <2>2. v \in Streams /\ SameDown(v, q) /\ v.asked = q.asked /\ v.sent = q.sent
    BY <1>2, <1>6, UpIs
  <2> HIDE DEF t, q, v
  <2>3. Good(Went(t, "closing"), v)
    BY <1>1, <1>4, <2>2, GoesToClosing
  <2> QED
    BY <2>1, <2>3, KeepsOthers
<1> QED
  BY <1>5, <1>8, <1>9

-----------------------------------------------------------------------------
(***************************************************************************)
(* receive, and the steps behind it.                                       *)
(***************************************************************************)

\* While receive runs, not all of the answer has come.
LEMMA NotYetWhole ==
  ASSUME NEW t, NEW q, Good(t, q), t.pc \in Receiving, LinesFit(q.answered)
  PROVE  ~IsWhole(q.got)
<1>1. t.pc \in {"rheader", "rbody"} /\ q.got \in Str /\ t.size \in Nat /\ t.clen \in Nat
  BY DEF Good, Shape, Streams, Receiving
<1>2. CASE t.pc = "rheader"
  BY <1>2, NotWhole DEF Good, Account, InHeaders
<1>3. CASE t.pc = "rbody"
  <2>1. PICK h \in Beginnings(q.got) : InBody(t, q, h)
    BY <1>3 DEF Good, Account
  <2> DEFINE g == q.got
             length == t.size - h
  <2>2. /\ g \in Str /\ h \in Beginnings(g) /\ \A i \in Beginnings(g) : h <= i
        /\ length \in Nat /\ Declares(g, h, length)
    BY <1>1, <2>1 DEF InBody
  <2>3. h \in Nat /\ Len(g) \in Nat /\ Len(g) < h + length
    <3>1. h \in Nat /\ Len(g) \in Nat
      BY <2>2, BeginningsAre
    <3>2. Len(g) + t.clen = t.size /\ t.clen > 0
      BY <2>1 DEF InBody
    <3> QED
      BY <1>1, <3>1, <3>2
  <2> HIDE DEF g, length
  <2>4. IsWhole(g) <=> Len(g) >= h + length
    BY <2>2, WholeWhen
  <2>5. ~IsWhole(g)
    BY <2>2, <2>3, <2>4
  <2> QED
    BY <2>5 DEF g
<1> QED
  BY <1>1, <1>2, <1>3

\* receive returns 0.
LEMMA FailingKeeps ==
  ASSUME NEW t, NEW q, Good(t, q), t.pc \in Receiving, NEW r, Took(r, q.back)
  PROVE  Good([t EXCEPT !.pc = "finish", !.size = 0], TookBack(q, r))
<1> DEFINE u == [t EXCEPT !.pc = "finish", !.size = 0]
           v == TookBack(q, r)
<1>1. /\ u = [f \in Fields |-> u[f]] /\ u.clen = t.clen /\ u.size = 0
      /\ u.logged = t.logged /\ u.garbled = t.garbled /\ u.line = t.line /\ u.pc = "finish"
  BY DEF Good, Shape, Fields
<1> HIDE DEF u
<1>2. v \in Streams /\ SameUp(v, q) /\ v.answered = q.answered /\ v.got = q.got
  BY BackIs DEF Good, Shape
<1> HIDE DEF v
<1>3. Shape(u, v)
  BY <1>1, <1>2 DEF Good, Shape
<1>4. Upward(u, v)
  BY <1>1, <1>2, UpEnds DEF Early, Waiting, Dialling, Sending, SameUp
<1>5. Downward(u, v)
  BY <1>1, <1>2 DEF Good, Downward, Waiting, Dialling, Sending, Receiving
<1>6. t.logged = NoEntry
  BY DEF Good, Account, Receiving, Closing
<1>7. LinesFit(v.answered) => Counted(u, v)
  BY <1>1, <1>2, NotYetWhole DEF Counted
<1>8. Account(u, v)
  BY <1>1, <1>6, <1>7
     DEF Account, Waiting, Dialling, Sending, Receiving, Received, Closing
<1>9. Good(u, v)
  BY <1>1, <1>3, <1>4, <1>5, <1>8 DEF Good, Known, Received
<1> QED
  BY <1>9 DEF u, v

\* The call r of readline brings a line of the headers; with it the client has got g,
\* and length is declared.
Brings(t, q, r, g, length) ==
  /\ Good(t, q) /\ t.pc = "rheader" /\ LinesFit(q.answered)
  /\ r = readline(q.back, q.backEnd) /\ r.n > 0
  /\ g = Cat(q.got, r.line) /\ length = ContentLength(r.line, t.clen)

Brought(t, q, r, g, length) ==
  /\ Len(g) = t.size + r.n /\ Len(g) \in Nat /\ Declares(g, Len(g), length)
  /\ Beginnings(g) = IF IsBlankLine(r.line) THEN {Len(g)} ELSE {}
  /\ g[Len(g)] = "n" \/ g = q.answered

\* A line of the headers is passed on.
LEMMA HeaderPasses ==
  ASSUME NEW t, NEW q, NEW r, NEW g, NEW length, Brings(t, q, r, g, length)
  PROVE  Brought(t, q, r, g, length)
<1>0. /\ Good(t, q) /\ t.pc = "rheader" /\ LinesFit(q.answered)
      /\ r = readline(q.back, q.backEnd) /\ r.n > 0
      /\ g = Cat(q.got, r.line) /\ length = ContentLength(r.line, t.clen)
  BY DEF Brings
<1> DEFINE got == q.got
           back == q.back
           line == r.line
           m == LineLength(back)
           a == q.answered
<1>1. back \in Str /\ got \in Str /\ q.backEnd \in Ends /\ a \in Str /\ t.clen \in Nat
  BY <1>0 DEF Good, Shape, Streams
<1>2. Took(r, back) /\ r.n = m
  BY <1>0, <1>1, ReadLineTakes
<1>3. back # << >> /\ line # << >> /\ line \in Str /\ r.n = Len(line) /\ r.rest \in Str
      /\ back = Cat(line, r.rest)
  <2>1. back # << >> /\ line # << >>
    <3>1. r.n > 0 /\ Took(r, back)
      BY <1>0, <1>2
    <3> HIDE DEF back
    <3> QED
      BY <3>1, TookSome
  <2>2. line \in Str /\ r.n = Len(line) /\ r.rest \in Str /\ back = Cat(line, r.rest)
    <3>1. r.n > 0 /\ r.n \in Int /\ Took(r, back)
      BY <1>0, <1>2 DEF Took
    <3>2. r.n >= 0
      BY <3>1
    <3> HIDE DEF back
    <3> QED
      BY <3>1, <3>2 DEF Took
  <2> QED
    BY <2>1, <2>2
<1>4. a = Cat(got, back)
  BY <1>0, <1>3 DEF Good, Downward, Goes, Receiving, Cat
<1>5. /\ t.size = Len(got) /\ Beginnings(got) = {} /\ Declares(got, Len(got), t.clen)
      /\ got = << >> \/ got[Len(got)] = "n" \/ got = a
  BY <1>0 DEF Good, Account, InHeaders
<1>6. a # << >> => a[1] \notin {"r", "c0", "c1", "c2"}
  BY <1>0 DEF Good, Downward
<1>7. LinesFit(a) /\ r.n > 0 /\ g = Cat(got, line)
  BY <1>0
<1>8. length = ContentLength(line, t.clen)
  BY <1>0
<1> DEFINE rest == r.rest
           clen == t.clen
<1>9. /\ back = Cat(line, rest) /\ rest \in Str /\ Declares(got, Len(got), clen)
      /\ length = ContentLength(line, clen)
  BY <1>3, <1>5, <1>8
<1>10. r.n = m /\ r.n = Len(line)
  BY <1>2, <1>3
<1> HIDE DEF got, back, line, m, a, rest, clen
<1>11. /\ Len(back) = Len(line) + Len(rest) /\ Len(line) \in Nat /\ Len(rest) \in Nat
       /\ \A i \in 1 .. Len(line) : back[i] = line[i]
  <2>1. line \in Str /\ rest \in Str
    BY <1>3, <1>9
  <2>2. /\ Len(Cat(line, rest)) = Len(line) + Len(rest) /\ Len(line) \in Nat /\ Len(rest) \in Nat
        /\ \A i \in 1 .. Len(line) : Cat(line, rest)[i] = line[i]
    BY <2>1, Lengthens
  <2> QED
    BY <1>9, <2>2
<1>12. /\ \A i \in 1 .. m - 1 : back[i] # "n"
       /\ back[m] = "n" \/ m = Len(back)
  <2>1. LinesFit(Cat(got, back)) /\ m > 0
    BY <1>4, <1>7, <1>10
  <2> QED
    BY <1>1, <2>1, OneLine DEF m
<1>13. \A i \in 1 .. Len(line) - 1 : line[i] # "n"
  BY <1>10, <1>11, <1>12
<1>14. got # a
  <2>1. Len(a) = Len(got) + Len(back) /\ Len(got) \in Nat /\ Len(back) # 0 /\ Len(back) \in Nat
    BY <1>1, <1>3, <1>4, Lengthens, Empty
  <2> QED
    BY <2>1
<1>15. got = << >> => line[1] \notin {"r", "c0", "c1", "c2"}
  <2> SUFFICES ASSUME got = << >>
               PROVE  line[1] \notin {"r", "c0", "c1", "c2"}
    OBVIOUS
  <2>1. a = back /\ a # << >>
    BY <1>1, <1>3, <1>4, Empty
  <2>2. 1 \in 1 .. Len(line)
    BY <1>7, <1>10, <1>11
  <2>3. back[1] = line[1]
    BY <1>11, <2>2
  <2> QED
    BY <1>6, <2>1, <2>3
<1>16. /\ Declares(g, Len(g), ContentLength(line, clen))
       /\ Beginnings(g) = IF IsBlankLine(line) THEN {Len(g)} ELSE {}
  <2>1. got = << >> \/ got[Len(got)] = "n"
    BY <1>5, <1>14
  <2> QED
    BY <1>1, <1>3, <1>5, <1>7, <1>9, <1>13, <1>15, <2>1, HeaderLine
<1>17. /\ Len(g) = Len(got) + Len(line) /\ Len(got) \in Nat
       /\ \A i \in 1 .. Len(line) : g[Len(got) + i] = line[i]
  <2>1. line \in Str /\ got \in Str
    BY <1>1, <1>3
  <2>2. /\ Len(Cat(got, line)) = Len(got) + Len(line) /\ Len(got) \in Nat
        /\ \A i \in 1 .. Len(line) : Cat(got, line)[Len(got) + i] = line[i]
    BY <2>1, Lengthens
  <2> QED
    BY <1>7, <2>2
<1>18. g[Len(g)] = "n" \/ g = a
  <2>1. CASE back[m] = "n"
    <3>1. Len(line) \in 1 .. Len(line)
      BY <1>7, <1>10, <1>11
    <3>2. g[Len(got) + Len(line)] = line[Len(line)] /\ back[Len(line)] = line[Len(line)]
      BY <1>11, <1>17, <3>1
    <3> QED
      BY <1>10, <1>17, <2>1, <3>2
  <2>2. CASE m = Len(back)
    <3>1. Len(rest) = 0
      <4> DEFINE x == Len(rest)
                 y == Len(line)
      <4>1. x \in Nat /\ y \in Nat /\ y = y + x
        BY <1>10, <1>11, <2>2
      <4> HIDE DEF x, y
      <4>2. x = 0
        BY <4>1
      <4> QED
        BY <4>2 DEF x
    <3>2. back = line
      BY <1>3, <1>9, <3>1, Empty
    <3> QED
      BY <1>4, <1>7, <3>2
  <2> QED
    BY <1>12, <2>1, <2>2
<1>19. Len(g) = t.size + r.n /\ Len(g) \in Nat
  BY <1>5, <1>10, <1>11, <1>17
<1> QED
  BY <1>9, <1>16, <1>18, <1>19 DEF Brought, line, a

\* receive: a line of the headers comes, or receive returns 0.
LEMMA ReceiveHeaderKeeps ==
  ASSUME IInv, NEW c \in Client, ReceiveHeader(c) PROVE IInv'
<1> DEFINE t == th[c]
           q == io[c]
           r == readline(q.back, q.backEnd)
           length == ContentLength(r.line, t.clen)
<1>1. Good(t, q) /\ t.pc = "rheader" /\ t.pc \in Receiving
  BY DEF IInv, ReceiveHeader, Receiving
<1>2. q \in Streams /\ q.back \in Str /\ q.backEnd \in Ends /\ t.clen \in Nat /\ t.size \in Nat
  BY <1>1 DEF Good, Shape, Streams
<1>3. Took(r, q.back)
  BY <1>2, ReadLineTakes
<1>4. length \in Nat /\ r.n \in Int
  BY <1>2, <1>3, LengthIsNat DEF Took
<1>5. \/ TakeBack(c, r) /\ ReceiveFails(c)
      \/ /\ r.n > 0 /\ PassBack(c, r)
         /\ th' = [th EXCEPT
               ![c].clen = length,
               ![c].size = @ + r.n + (IF IsBlankLine(r.line) THEN length ELSE 0),
               ![c].pc = IF ~IsBlankLine(r.line) THEN @
                         ELSE IF length > 0 THEN "rbody" ELSE "finish"]
  BY DEF ReceiveHeader
<1>6. CASE TakeBack(c, r) /\ ReceiveFails(c)
  <2> DEFINE u == [t EXCEPT !.pc = "finish", !.size = 0]
             v == TookBack(q, r)
  <2>1. th' = [th EXCEPT ![c] = u] /\ io' = [io EXCEPT ![c] = v]
    BY <1>6 DEF TakeBack, ReceiveFails, TookBack
  <2> HIDE DEF t, q, r
  <2>2. Good(u, v)
    BY <1>1, <1>3, FailingKeeps
  <2> HIDE DEF u, v
  <2> QED
    BY <2>1, <2>2, KeepsOthers
<1>7. CASE /\ r.n > 0 /\ PassBack(c, r)
           /\ th' = [th EXCEPT
                 ![c].clen = length,
                 ![c].size = @ + r.n + (IF IsBlankLine(r.line) THEN length ELSE 0),
                 ![c].pc = IF ~IsBlankLine(r.line) THEN @
                           ELSE IF length > 0 THEN "rbody" ELSE "finish"]
  <2> DEFINE size == t.size + r.n + (IF IsBlankLine(r.line) THEN length ELSE 0)
             pc == IF ~IsBlankLine(r.line) THEN t.pc ELSE IF length > 0 THEN "rbody" ELSE "finish"
             u == [t EXCEPT !.clen = length, !.size = size, !.pc = pc]
             v == PassedBack(q, r)
             g == Cat(q.got, r.line)
  <2>1. th' = [th EXCEPT ![c] = u] /\ io' = [io EXCEPT ![c] = v]
    BY <1>7 DEF PassBack, PassedBack
  <2>2. /\ v \in Streams /\ SameUp(v, q) /\ v.answered = q.answered
        /\ v.got = g /\ v.back = r.rest
    BY <1>2, <1>3, BackIs
  <2>3. size \in Nat
    BY <1>2, <1>4, <1>7
  <2>4. /\ u = [f \in Fields |-> u[f]] /\ u.clen = length /\ u.size = size
        /\ u.logged = t.logged /\ u.garbled = t.garbled /\ u.line = t.line /\ u.pc = pc
    <3> HIDE DEF r, length, size, pc
    <3> QED
      BY <1>1 DEF Good, Shape, Fields
  <2>5. LinesFit(q.answered) =>
          /\ Len(g) = t.size + r.n /\ Len(g) \in Nat
          /\ Declares(g, Len(g), length)
          /\ Beginnings(g) = IF IsBlankLine(r.line) THEN {Len(g)} ELSE {}
          /\ g[Len(g)] = "n" \/ g = q.answered
    <3>1. r = readline(q.back, q.backEnd) /\ r.n > 0
      BY <1>7
    <3>2. g = Cat(q.got, r.line) /\ length = ContentLength(r.line, t.clen)
      OBVIOUS
    <3> HIDE DEF t, q, r, g, length
    <3>3. LinesFit(q.answered) => Brings(t, q, r, g, length)
      BY <1>1, <3>1, <3>2 DEF Brings
    <3>4. LinesFit(q.answered) => Brought(t, q, r, g, length)
      BY <3>3, HeaderPasses
    <3> QED
      BY <3>4 DEF Brought
  <2> DEFINE blank == IsBlankLine(r.line)
             n == r.n
  <2>6. /\ pc = IF ~blank THEN "rheader" ELSE IF length > 0 THEN "rbody" ELSE "finish"
        /\ size = t.size + n + (IF blank THEN length ELSE 0) /\ n \in Nat /\ n > 0
    BY <1>1, <1>4, <1>7
  <2>7. LinesFit(q.answered) =>
          /\ Len(g) = t.size + n /\ Len(g) \in Nat /\ Declares(g, Len(g), length)
          /\ Beginnings(g) = IF blank THEN {Len(g)} ELSE {}
          /\ g[Len(g)] = "n" \/ g = q.answered
    BY <2>5
  <2> HIDE DEF u, v, size, pc, blank, n
  <2>8. Shape(u, v)
    BY <1>1, <1>4, <2>2, <2>3, <2>4 DEF Good, Shape
  <2>9. u.pc \in {"rheader", "rbody", "finish"}
    BY <2>4, <2>6
  <2>10. Upward(u, v)
    <3> HIDE DEF t, q, r, length, g
    <3> QED
      BY <1>1, <2>2, <2>4, <2>9, UpEnds DEF Early, Waiting, Dialling, Sending, SameUp
  <2>11. Downward(u, v)
    <3> HIDE DEF t, q, r
    <3> QED
      BY <1>1, <1>3, <2>2, PassesBack
  <2>12. g \in Str
    <3>1. q.got \in Str /\ r.line \in Str
      BY <1>2, <1>3 DEF Streams, Took
    <3> HIDE DEF q, r
    <3> QED
      BY <3>1, Regroup
  <2>13. t.logged = NoEntry
    BY <1>1 DEF Good, Account, Closing
  <2> HIDE DEF t, q, r, length, g
  <2>14. ASSUME LinesFit(v.answered)
         PROVE  /\ u.pc = "rheader" => InHeaders(u, v)
                /\ u.pc = "rbody" => InBody(u, v, Len(g)) /\ Len(g) \in Beginnings(g)
                /\ u.pc = "finish" => Counted(u, v)
    <3>1. /\ Len(g) = t.size + n /\ Len(g) \in Nat /\ Declares(g, Len(g), length)
          /\ Beginnings(g) = IF blank THEN {Len(g)} ELSE {}
          /\ g[Len(g)] = "n" \/ g = q.answered
      BY <2>2, <2>7, <2>14
    <3>2. CASE ~blank
      <4>1. u.pc = "rheader" /\ u.size = Len(g) /\ u.clen = length
        BY <1>2, <2>4, <2>6, <3>1, <3>2
      <4>2. InHeaders(u, v)
        BY <2>2, <3>1, <3>2, <4>1 DEF InHeaders
      <4> QED
        BY <4>1, <4>2
    <3>3. CASE blank
      <4>1. u.size = Len(g) + length /\ u.clen = length /\ u.size - Len(g) = length
        BY <1>2, <1>4, <2>4, <2>6, <3>1, <3>3
      <4>2. CASE length > 0
        <5>1. u.pc = "rbody"
          BY <2>4, <2>6, <3>3, <4>2
        <5>2. InBody(u, v, Len(g))
          BY <1>4, <2>2, <3>1, <3>3, <4>1, <4>2 DEF InBody
        <5> QED
          BY <3>1, <3>3, <5>1, <5>2
      <4>3. CASE ~(length > 0)
        <5>0. length = 0
          BY <1>4, <4>3
        <5>1. u.pc = "finish" /\ length = 0 /\ u.size = Len(g) /\ u.size # 0
          <6> DEFINE p == Len(g)
                     s == t.size
          <6>1. p \in Nat /\ p = s + n /\ s \in Nat /\ n \in Nat /\ n > 0 /\ u.size = p + 0
            BY <1>2, <2>6, <3>1, <4>1, <5>0
          <6>2. u.pc = "finish"
            BY <2>4, <2>6, <3>3, <4>3
          <6> HIDE DEF p, s
          <6>3. u.size = p /\ p # 0
            BY <6>1
          <6> QED
            BY <5>0, <6>2, <6>3 DEF p
        <5>2. Len(g) \in Beginnings(g) /\ \A i \in Beginnings(g) : Len(g) <= i
          BY <3>1, <3>3
        <5>3. IsWhole(g) <=> Len(g) >= Len(g) + 0
          BY <2>12, <3>1, <5>1, <5>2, WholeWhen
        <5>4. Counted(u, v)
          BY <2>2, <3>1, <5>1, <5>3 DEF Counted
        <5> QED
          BY <5>1, <5>4
      <4> QED
        BY <4>2, <4>3
    <3> QED
      BY <3>2, <3>3
  <2>15. Account(u, v)
    <3>1. u.pc \notin Waiting \cup Dialling \cup Sending \cup Closing /\ u.pc # "log"
      BY <2>9 DEF Waiting, Dialling, Sending, Closing
    <3>2. u.pc \in Received => u.pc = "finish"
      BY <3>1 DEF Received
    <3>3. u.logged = NoEntry
      BY <2>4, <2>13
    <3> QED
      BY <2>2, <2>14, <3>1, <3>2, <3>3 DEF Account
  <2>16. Good(u, v)
    BY <2>8, <2>9, <2>10, <2>11, <2>15 DEF Good, Known, Receiving, Received
  <2> QED
    BY <2>1, <2>16, KeepsOthers
<1> QED
  BY <1>5, <1>6, <1>7

\* A piece of the body continues the message behind the headers.
LEMMA BodyGrows ==
  ASSUME NEW got \in Str, NEW line \in Str, NEW g, g = Cat(got, line), NEW h, NEW size \in Nat,
         NEW clen \in Nat, h \in Beginnings(got), \A i \in Beginnings(got) : h <= i,
         size - h \in Nat, Declares(got, h, size - h), Len(got) + clen = size
  PROVE  /\ g \in Str /\ h \in Beginnings(g) /\ \A i \in Beginnings(g) : h <= i
         /\ Declares(g, h, size - h) /\ Len(g) = Len(got) + Len(line)
         /\ Len(g) \in Nat /\ Len(line) \in Nat
         /\ size # 0 /\ (IsWhole(g) <=> Len(g) >= size)
<1>1. /\ g \in Str /\ Len(g) = Len(got) + Len(line) /\ Len(got) \in Nat /\ Len(line) \in Nat
      /\ Len(g) \in Nat
  BY Lengthens
<1>2. h \in 3 .. Len(got) /\ h \in Nat
  <2>1. Beginnings(got) = {i \in 3 .. Len(got) : got[i - 2] = "n" /\ got[i - 1] = "r" /\ got[i] = "n"}
    BY BeginningsAre
  <2>2. h \in 3 .. Len(got)
    BY <2>1
  <2> QED
    BY <1>1, <2>2
<1>3. /\ \A i \in 1 .. Len(got) : i \in Beginnings(g) <=> i \in Beginnings(got)
      /\ \A c : \A j \in 0 .. Len(got) : Declares(g, j, c) <=> Declares(got, j, c)
  BY Growing
<1>4. h \in 1 .. Len(got) /\ h \in 0 .. Len(got)
  BY <1>1, <1>2
<1>5. h \in Beginnings(g) /\ Declares(g, h, size - h)
  BY <1>3, <1>4
<1>6. ASSUME NEW i \in Beginnings(g)
      PROVE  h <= i
  <2>1. i \in 3 .. Len(g)
    BY <1>1, IsBeginning
  <2>2. CASE i <= Len(got)
    <3>1. i \in 1 .. Len(got)
      BY <1>1, <2>1, <2>2
    <3>2. i \in Beginnings(got)
      BY <1>3, <3>1
    <3> QED
      BY <3>2
  <2>3. CASE ~(i <= Len(got))
    BY <1>1, <1>2, <2>1, <2>3
  <2> QED
    BY <2>2, <2>3
<1>7. IsWhole(g) <=> Len(g) >= size
  <2> DEFINE length == size - h
  <2>1. length \in Nat /\ Declares(g, h, length) /\ h + length = size
    BY <1>2, <1>5
  <2> HIDE DEF length
  <2>2. IsWhole(g) <=> Len(g) >= h + length
    BY <1>1, <1>5, <1>6, <2>1, WholeWhen
  <2> QED
    BY <2>1, <2>2
<1>8. size # 0
  <2> DEFINE k == Len(got)
  <2>1. k \in Nat /\ h \in 3 .. k /\ k + clen = size
    BY <1>1, <1>2
  <2> HIDE DEF k
  <2> QED
    BY <2>1
<1> QED
  BY <1>1, <1>5, <1>6, <1>7, <1>8

\* receive: a piece of the body comes, or receive returns 0.
LEMMA ReceiveBodyKeeps ==
  ASSUME IInv, NEW c \in Client, ReceiveBody(c) PROVE IInv'
<1> DEFINE t == th[c]
           q == io[c]
           max == IF t.clen > MAXLINE THEN MAXLINE ELSE t.clen
<1>1. Good(t, q) /\ t.pc = "rbody" /\ t.pc \in Receiving
  BY DEF IInv, ReceiveBody, Receiving
<1>2. q \in Streams /\ q.back \in Str /\ q.got \in Str /\ q.backEnd \in Ends
      /\ t.clen \in Nat /\ t.size \in Nat
  BY <1>1 DEF Good, Shape, Streams
<1>3. max \in Nat /\ max <= t.clen
  BY <1>2, ProxyAssumption
<1>4. PICK r \in read(q.back, q.backEnd, max) :
        \/ TakeBack(c, r) /\ ReceiveFails(c)
        \/ /\ r.n > 0 /\ PassBack(c, r)
           /\ th' = [th EXCEPT ![c].clen = @ - r.n,
                               ![c].pc = IF t.clen > r.n THEN "rbody" ELSE "finish"]
  BY DEF ReceiveBody
<1> HIDE DEF max
<1>5. Took(r, q.back) /\ r.n <= max /\ r.n \in Int
  BY <1>2, <1>3, ReadTakes DEF Took
<1>6. CASE TakeBack(c, r) /\ ReceiveFails(c)
  <2> DEFINE u == [t EXCEPT !.pc = "finish", !.size = 0]
             v == TookBack(q, r)
  <2>1. th' = [th EXCEPT ![c] = u] /\ io' = [io EXCEPT ![c] = v]
    BY <1>6 DEF TakeBack, ReceiveFails, TookBack
  <2> HIDE DEF t, q
  <2>2. Good(u, v)
    BY <1>1, <1>5, FailingKeeps
  <2> HIDE DEF u, v
  <2> QED
    BY <2>1, <2>2, KeepsOthers
<1>7. CASE /\ r.n > 0 /\ PassBack(c, r)
           /\ th' = [th EXCEPT ![c].clen = @ - r.n,
                               ![c].pc = IF t.clen > r.n THEN "rbody" ELSE "finish"]
  <2> DEFINE n == r.n
             left == t.clen - n
             pc == IF t.clen > n THEN "rbody" ELSE "finish"
             u == [t EXCEPT !.clen = left, !.pc = pc]
             v == PassedBack(q, r)
             line == r.line
             g == Cat(q.got, line)
  <2>1. th' = [th EXCEPT ![c] = u] /\ io' = [io EXCEPT ![c] = v]
    BY <1>7 DEF PassBack, PassedBack
  <2>2. /\ v \in Streams /\ SameUp(v, q) /\ v.answered = q.answered
        /\ v.got = g /\ v.back = r.rest
    BY <1>2, <1>5, BackIs
  <2>3. n \in Nat /\ n > 0 /\ n = Len(line) /\ line \in Str /\ n <= t.clen
    BY <1>2, <1>3, <1>5, <1>7 DEF Took
  <2>4. left \in Nat /\ (pc = "rbody" <=> left > 0) /\ pc \in {"rbody", "finish"}
        /\ t.clen = left + n
    BY <1>2, <2>3
  <2>5. /\ u = [f \in Fields |-> u[f]] /\ u.clen = left /\ u.size = t.size
        /\ u.logged = t.logged /\ u.garbled = t.garbled /\ u.line = t.line /\ u.pc = pc
    <3> HIDE DEF left, pc
    <3> QED
      BY <1>1 DEF Good, Shape, Fields
  <2> HIDE DEF u, v, left, pc
  <2>6. Shape(u, v)
    BY <1>1, <2>2, <2>4, <2>5 DEF Good, Shape
  <2>7. Upward(u, v)
    <3> HIDE DEF t, q
    <3> QED
      BY <1>1, <2>2, <2>4, <2>5, UpEnds DEF Early, Waiting, Dialling, Sending, SameUp
  <2>8. Downward(u, v)
    <3> HIDE DEF t, q
    <3> QED
      BY <1>1, <1>5, <2>2, PassesBack
  <2>9. t.logged = NoEntry
    BY <1>1 DEF Good, Account, Closing
  <2> HIDE DEF n, line, g
  <2>10. ASSUME LinesFit(v.answered)
         PROVE  /\ u.pc = "rbody" => \E h \in Beginnings(v.got) : InBody(u, v, h)
                /\ u.pc = "finish" => Counted(u, v)
    <3> DEFINE got == q.got
               size == t.size
               clen == t.clen
    <3>1. PICK h \in Beginnings(got) : InBody(t, q, h)
      BY <1>1, <2>2, <2>10 DEF Good, Account
    <3>2. /\ h \in Beginnings(got) /\ \A i \in Beginnings(got) : h <= i
          /\ size - h \in Nat /\ Declares(got, h, size - h) /\ Len(got) + clen = size
      BY <3>1 DEF InBody
    <3>3. got \in Str /\ size \in Nat /\ clen \in Nat /\ g = Cat(got, line) /\ clen = left + n
      BY <1>2, <2>4 DEF g
    <3>4. u.size = size /\ u.clen = left /\ v.got = g
      BY <2>2, <2>5
    <3> HIDE DEF got, size, clen
    <3>5. /\ g \in Str /\ h \in Beginnings(g) /\ \A i \in Beginnings(g) : h <= i
          /\ Declares(g, h, size - h) /\ Len(g) = Len(got) + Len(line)
          /\ Len(g) \in Nat /\ Len(line) \in Nat
          /\ size # 0 /\ (IsWhole(g) <=> Len(g) >= size)
      BY <2>3, <3>2, <3>3, BodyGrows
    <3>6. Len(g) + left = size
      <4> DEFINE a == Len(got)
                 b == Len(g)
      <4>1. a \in Nat /\ b \in Nat /\ b = a + n /\ a + (left + n) = size
        BY <2>3, <3>2, <3>3, <3>5, Lengthens
      <4> HIDE DEF a, b
      <4>2. b + left = size
        BY <2>3, <2>4, <4>1
      <4> QED
        BY <4>2 DEF b
    <3>7. u.pc = "rbody" => InBody(u, v, h)
      BY <2>4, <2>5, <3>2, <3>4, <3>5, <3>6 DEF InBody
    <3>8. ASSUME u.pc = "finish"
          PROVE  Counted(u, v)
      <4>1. left = 0
        BY <2>4, <2>5, <3>8
      <4>2. Len(g) = size
        BY <3>5, <3>6, <4>1
      <4>3. IsWhole(g)
        BY <3>3, <3>5, <4>2
      <4> QED
        BY <3>4, <3>5, <4>2, <4>3 DEF Counted
    <3> QED
      BY <3>4, <3>5, <3>7, <3>8
  <2>11. Account(u, v)
    <3>1. u.pc \notin Waiting \cup Dialling \cup Sending \cup Closing
          /\ u.pc # "log" /\ u.pc # "rheader"
      BY <2>4, <2>5 DEF Waiting, Dialling, Sending, Closing
    <3>2. u.pc \in Received => u.pc = "finish"
      BY <3>1 DEF Received
    <3>3. u.logged = NoEntry
      BY <2>5, <2>9
    <3> QED
      BY <2>10, <3>1, <3>2, <3>3 DEF Account
  <2>12. Good(u, v)
    BY <2>4, <2>5, <2>6, <2>7, <2>8, <2>11 DEF Good, Known, Receiving, Received
  <2> QED
    BY <2>1, <2>12, KeepsOthers
<1> QED
  BY <1>4, <1>6, <1>7

\* A step behind receive leaves the streams alone.
LEMMA LateStepKeeps ==
  ASSUME IInv, NEW c \in Client, NEW u, th' = [th EXCEPT ![c] = u], io' = io,
         u = [f \in Fields |-> u[f]], u.line = th[c].line, u.clen = th[c].clen,
         u.size = th[c].size, u.garbled = th[c].garbled, u.pc \in Received \cup Closing,
         Account(u, io[c])
  PROVE  IInv'
<1> DEFINE t == th[c]
           q == io[c]
<1>1. Good(t, q) /\ q = io[c] /\ Account(u, q)
  BY DEF IInv
<1>2. /\ u = [f \in Fields |-> u[f]] /\ u.line = t.line /\ u.clen = t.clen
      /\ u.size = t.size /\ u.garbled = t.garbled
  OBVIOUS
<1> HIDE DEF t, q
<1>3. Shape(u, q)
  BY <1>1, <1>2 DEF Good, Shape
<1>4. u.pc \notin Early
  BY DEF Early, Waiting, Dialling, Sending, Received, Closing
<1>5. Upward(u, q)
  BY <1>1, <1>2, <1>4, UpEnds
<1>6. Downward(u, q)
  BY <1>1 DEF Good, Downward, Waiting, Dialling, Sending, Receiving, Received, Closing
<1>7. Good(u, q)
  BY <1>1, <1>3, <1>5, <1>6 DEF Good, Known
<1> QED
  BY <1>1, <1>7, KeepsOthers

\* Where the account of a closing connection comes from.
LEMMA ClosingAccount ==
  ASSUME NEW u, NEW q, u.pc \in Closing,
         LinesFit(q.answered) =>
            /\ u.logged # NoEntry => IsWhole(q.got) /\ u.logged = Len(q.got) % UINT
            /\ IsWhole(q.got) /\ Len(q.got) % UINT # 0 => u.logged # NoEntry
  PROVE  Account(u, q)
BY DEF Account, Waiting, Dialling, Sending, Received, Closing

\* The size that receive returned decides whether the connection is logged.
LEMMA FinishKeeps ==
  ASSUME IInv, NEW c \in Client, Finish(c) PROVE IInv'
<1> DEFINE t == th[c]
           q == io[c]
           p == IF t.size % UINT = 0 THEN "closing" ELSE "log"
           u == Went(t, p)
<1>1. Good(t, q) /\ t.pc = "finish" /\ io' = io /\ th' = [th EXCEPT ![c] = u]
  BY DEF IInv, Finish, Goto, Went
<1>2. /\ u = [f \in Fields |-> u[f]] /\ u.pc = p /\ SameThread(u, t)
  <2> HIDE DEF p, t, q
  <2>1. Shape(u, q) /\ u.pc = p /\ SameThread(u, t)
    BY <1>1, WentIs DEF Good
  <2> QED
    BY <2>1 DEF Shape
<1>3. p \in {"closing", "log"} /\ (p = "log" <=> t.size % UINT # 0)
  OBVIOUS
<1>4. t.logged = NoEntry /\ (LinesFit(q.answered) => Counted(t, q))
  BY <1>1 DEF Good, Account, Closing, Received
<1> HIDE DEF p, u
<1>5. ASSUME p = "closing"
      PROVE  Account(u, q)
  <2> HIDE DEF t, q
  <2>1. t.size % UINT = 0
    BY <1>3, <1>5
  <2>2. LinesFit(q.answered) => (IsWhole(q.got) => Len(q.got) % UINT = 0)
    BY <1>4, <2>1 DEF Counted
  <2>3. u.logged = NoEntry /\ u.pc \in Closing
    BY <1>2, <1>4, <1>5 DEF SameThread, Closing
  <2>4. LinesFit(q.answered) =>
          /\ u.logged # NoEntry => IsWhole(q.got) /\ u.logged = Len(q.got) % UINT
          /\ IsWhole(q.got) /\ Len(q.got) % UINT # 0 => u.logged # NoEntry
    BY <2>2, <2>3
  <2> QED
    BY <2>3, <2>4, ClosingAccount
<1>6. ASSUME p = "log"
      PROVE  Account(u, q)
  <2> HIDE DEF t, q
  <2>1. u.size = t.size /\ u.logged = NoEntry /\ u.pc = "log"
    BY <1>2, <1>4, <1>6 DEF SameThread
  <2>2. u.size % UINT # 0
    <3>1. t.size % UINT # 0
      BY <1>3, <1>6
    <3> QED
      BY <2>1, <3>1
  <2>3. LinesFit(q.answered) => Counted(u, q)
    BY <1>4, <2>1 DEF Counted
  <2>4. u.pc \notin Closing /\ u.pc \notin Waiting \cup Dialling \cup Sending
        /\ u.pc # "rheader" /\ u.pc # "rbody"
    BY <2>1 DEF Waiting, Dialling, Sending, Closing
  <2> QED
    BY <2>1, <2>2, <2>3, <2>4 DEF Account
<1>7. Account(u, q)
  BY <1>3, <1>5, <1>6
<1> QED
  BY <1>1, <1>2, <1>3, <1>7, LateStepKeeps DEF SameThread, Received, Closing

\* The size is logged, and the client has got a whole response of that size.
LEMMA LogKeeps ==
  ASSUME IInv, NEW c \in Client, Log(c) PROVE IInv'
<1> DEFINE t == th[c]
           q == io[c]
           entry == t.size % UINT
           u == [t EXCEPT !.pc = "closing", !.logged = entry]
<1>1. Good(t, q) /\ t.pc = "log" /\ io' = io /\ th' = [th EXCEPT ![c] = u]
  BY DEF IInv, Log
<1>2. LinesFit(q.answered) => Counted(t, q) /\ entry # 0
  BY <1>1 DEF Good, Account, Received
<1>3. t.size \in Nat /\ t = [f \in Fields |-> t[f]]
  BY <1>1 DEF Good, Shape
<1>4. entry \in Nat /\ (t.size = 0 => entry = 0)
  <2> DEFINE s == t.size
  <2>1. s \in Nat /\ UINT \in Nat \ {0}
    BY <1>3, ProxyAssumption
  <2> HIDE DEF s
  <2>2. (s % UINT) \in Nat /\ (s = 0 => (s % UINT) = 0)
    BY <2>1
  <2> QED
    BY <2>2 DEF s
<1>5. t.size # 0 => (t.size = Len(q.got) => entry = Len(q.got) % UINT)
  OBVIOUS
<1> HIDE DEF entry, t, q
<1>6. /\ u = [f \in Fields |-> u[f]] /\ u.line = t.line /\ u.clen = t.clen
      /\ u.size = t.size /\ u.garbled = t.garbled /\ u.pc = "closing" /\ u.logged = entry
  BY <1>3 DEF Fields
<1> HIDE DEF u
<1>7. LinesFit(q.answered) => IsWhole(q.got) /\ u.logged = Len(q.got) % UINT /\ u.logged # NoEntry
  BY <1>2, <1>4, <1>5, <1>6 DEF Counted, NoEntry
<1>8. Account(u, q)
  BY <1>6, <1>7, ClosingAccount DEF Closing
<1>9. u.pc \in Received \cup Closing
  BY <1>6 DEF Closing
<1> QED
  BY <1>1, <1>6, <1>8, <1>9, LateStepKeeps DEF t, q

\* The thread ends.
LEMMA CloseClientKeeps ==
  ASSUME IInv, NEW c \in Client, CloseClient(c) PROVE IInv'
<1> DEFINE t == th[c]
           q == io[c]
           u == Went(t, "done")
<1>1. Good(t, q) /\ t.pc = "closing" /\ io' = io /\ th' = [th EXCEPT ![c] = u]
  BY DEF IInv, CloseClient, Goto, Went
<1>2. u = [f \in Fields |-> u[f]] /\ u.pc = "done" /\ SameThread(u, t)
  <2> HIDE DEF t, q
  <2>1. Shape(u, q) /\ u.pc = "done" /\ SameThread(u, t)
    BY <1>1, WentIs DEF Good
  <2> QED
    BY <2>1 DEF Shape
<1> HIDE DEF u
<1>3. Account(u, q)
  <2> HIDE DEF t, q
  <2>1. LinesFit(q.answered) =>
          /\ t.logged # NoEntry => IsWhole(q.got) /\ t.logged = Len(q.got) % UINT
          /\ IsWhole(q.got) /\ Len(q.got) % UINT # 0 => t.logged # NoEntry
    BY <1>1 DEF Good, Account, Closing
  <2>2. u.logged = t.logged /\ u.pc \in Closing
    BY <1>2 DEF SameThread, Closing
  <2>3. LinesFit(q.answered) =>
          /\ u.logged # NoEntry => IsWhole(q.got) /\ u.logged = Len(q.got) % UINT
          /\ IsWhole(q.got) /\ Len(q.got) % UINT # 0 => u.logged # NoEntry
    BY <2>1, <2>2
  <2> QED
    BY <2>2, <2>3, ClosingAccount
<1> QED
  BY <1>1, <1>2, <1>3, LateStepKeeps DEF SameThread, Received, Closing

-----------------------------------------------------------------------------
(***************************************************************************)
(* The client and the server.                                              *)
(***************************************************************************)

\* A client connects and sends its request.
LEMMA ClientConnectsKeeps ==
  ASSUME IInv, NEW c \in Client, ClientConnects(c) PROVE IInv'
<1> DEFINE t == th[c]
           q == io[c]
           u == Went(t, "queued")
<1>1. Good(t, q) /\ t.pc = "idle" /\ th' = [th EXCEPT ![c] = u]
  BY DEF IInv, ClientConnects, Goto, Went
<1>2. PICK m \in Asks \cup CrowdAsks : io' = [io EXCEPT ![c].up = m, ![c].asked = m]
  BY DEF ClientConnects
<1> DEFINE v == [q EXCEPT !.up = m, !.asked = m]
<1>3. io' = [io EXCEPT ![c] = v]
  BY <1>2
<1>4. m \in Str
  BY <1>2, MessagesAssumption DEF Str
<1> HIDE DEF t, q
<1>5. q \in Streams
  BY <1>1 DEF Good, Shape
<1>6. /\ v \in Streams /\ SameDown(v, q) /\ v.sent = q.sent /\ v.up = m /\ v.asked = m
  BY <1>4, <1>5 DEF Streams, SameDown
<1> HIDE DEF v
<1>7. Shape(t, v)
  BY <1>1, <1>6 DEF Good, Shape
<1>8. Shape(u, v) /\ u.pc = "queued" /\ SameThread(u, t)
  BY <1>7, WentIs
<1> HIDE DEF u
<1>9. v.sent = << >>
  BY <1>1, <1>6 DEF Good, Upward, Waiting
<1>10. Upward(u, v)
  BY <1>6, <1>8, <1>9 DEF Upward, Dialling, Sending
<1>11. t.pc \in Early /\ u.pc \in Early
  BY <1>1, <1>8 DEF Early, Waiting
<1>12. Downward(u, v) /\ Account(u, v)
  BY <1>1, <1>6, <1>8, <1>11, EarlyStep DEF SameThread
<1>13. Good(u, v)
  BY <1>8, <1>10, <1>12 DEF Good, Known, Waiting
<1> QED
  BY <1>1, <1>3, <1>13, KeepsOthers DEF t

\* A client ends its stream, or breaks off and takes the rest of it along.
LEMMA ClientLeavesKeeps ==
  ASSUME IInv, NEW c \in Client, ClientLeaves(c) PROVE IInv'
<1> DEFINE t == th[c]
           q == io[c]
<1>1. Good(t, q) /\ th' = th /\ t = th[c]
  BY DEF IInv, ClientLeaves
<1>2. PICK v : /\ io' = [io EXCEPT ![c] = v]
               /\ \/ v = [q EXCEPT !.upEnd = "eof"]
                  \/ v = [q EXCEPT !.upEnd = "reset", !.up = << >>]
  BY DEF ClientLeaves
<1> HIDE DEF t, q
<1>3. /\ v \in Streams /\ SameDown(v, q) /\ v.asked = q.asked /\ v.sent = q.sent
      /\ v.up \in {q.up, << >>}
  <2>1. q \in Streams /\ << >> \in Str /\ "eof" \in Ends /\ "reset" \in Ends
    BY <1>1, Empty DEF Good, Shape, Ends
  <2>2. CASE v = [q EXCEPT !.upEnd = "eof"]
    BY <2>1, <2>2 DEF Streams, SameDown
  <2>3. CASE v = [q EXCEPT !.upEnd = "reset", !.up = << >>]
    BY <2>1, <2>3 DEF Streams, SameDown
  <2> QED
    BY <1>2, <2>2, <2>3
<1>4. Shape(t, v)
  BY <1>1, <1>3 DEF Good, Shape
<1>5. Upward(t, v)
  BY <1>1, <1>3 DEF Good, Upward, Wanted, FirstLine, Goes
<1>6. Downward(t, v)
  BY <1>1, <1>3 DEF Good, Downward, SameDown
<1>7. Account(t, v)
  BY <1>1, <1>3 DEF Good, Account, SameDown, InHeaders, InBody, Counted
<1>8. Good(t, v)
  BY <1>1, <1>4, <1>5, <1>6, <1>7 DEF Good
<1> QED
  BY <1>1, <1>2, <1>8, KeepsOthers

\* An answer of nothing is all that a client has got before there is one.
LEMMA NothingYet ==
  ASSUME NEW s \in Str, IsPrefix(s, << >>)
  PROVE  s = << >>
<1>1. Len(s) <= 0
  BY Empty DEF IsPrefix
<1> QED
  BY <1>1, Empty

\* The empty stream has no line that is too long.
LEMMA NothingFits == LinesFit(<< >>)
BY EmptySeq DEF LinesFit

\* The server answers: nothing of an earlier answer is in the client's hands.
LEMMA ServerAnswersKeeps ==
  ASSUME IInv, NEW c \in Client, ServerAnswers(c) PROVE IInv'
<1> DEFINE t == th[c]
           q == io[c]
<1>1. Good(t, q) /\ th' = th /\ t = th[c] /\ q.answered = << >>
  BY DEF IInv, ServerAnswers
<1>2. t.pc \notin Closing /\ t.pc # "log"
  BY DEF ServerAnswers, Connected, Closing
<1>3. PICK m \in Answers \cup CrowdAnswers : io' = [io EXCEPT ![c].back = m, ![c].answered = m]
  BY DEF ServerAnswers
<1> DEFINE v == [q EXCEPT !.back = m, !.answered = m]
<1>4. io' = [io EXCEPT ![c] = v]
  BY <1>3
<1>5. m \in Str /\ (m # << >> => m[1] \notin {"r", "c0", "c1", "c2"})
  BY <1>3, MessagesAssumption DEF Str
<1> HIDE DEF t, q
<1>6. q \in Streams /\ q.got \in Str
  BY <1>1 DEF Good, Shape, Streams
<1>7. /\ v \in Streams /\ SameUp(v, q) /\ v.got = q.got /\ v.back = m /\ v.answered = m
  BY <1>5, <1>6 DEF Streams, SameUp
<1> HIDE DEF v
<1>8. q.got = << >> /\ v.got = << >>
  <2> DEFINE got == q.got
  <2>1. got \in Str /\ IsPrefix(got, << >>)
    BY <1>1, <1>6 DEF Good, Downward
  <2> HIDE DEF got
  <2>2. got = << >>
    BY <2>1, NothingYet
  <2> QED
    BY <1>7, <2>2 DEF got
<1>9. Shape(t, v)
  BY <1>1, <1>7 DEF Good, Shape
<1>10. Upward(t, v)
  BY <1>1, <1>7 DEF Good, Upward, Wanted, FirstLine, SameUp
<1>11. Goes(<< >>, m, m)
  <2>1. Cat(<< >>, m) = m /\ IsPrefix(<< >>, m)
    BY <1>5, Empty
  <2> QED
    BY <2>1 DEF Goes, Cat
<1>12. Downward(t, v)
  BY <1>5, <1>7, <1>8, <1>11 DEF Downward, Goes
<1>13. Account(t, v)
  <2>1. LinesFit(q.answered)
    BY <1>1, NothingFits
  <2>2. Beginnings(q.got) = {}
    BY <1>8, NotWhole
  <2>3. t.pc # "rbody"
    BY <1>1, <2>1, <2>2 DEF Good, Account
  <2>4. t.pc = "rheader" => InHeaders(t, v)
    BY <1>1, <1>7, <1>8, <2>1 DEF Good, Account, InHeaders
  <2>5. t.pc \in Received => Counted(t, v)
    BY <1>1, <1>7, <2>1 DEF Good, Account, Counted
  <2>6. /\ t.pc \notin Closing => t.logged = NoEntry
        /\ t.pc \in Waiting \cup Dialling \cup Sending => t.size = 0 /\ v.got = << >>
    BY <1>1, <1>8 DEF Good, Account
  <2> QED
    BY <1>2, <2>3, <2>4, <2>5, <2>6 DEF Account
<1>14. Good(t, v)
  BY <1>1, <1>9, <1>10, <1>12, <1>13 DEF Good
<1> QED
  BY <1>1, <1>4, <1>14, KeepsOthers

\* The server ends its stream, or breaks off and takes the rest of it along.
LEMMA ServerEndsKeeps ==
  ASSUME IInv, NEW c \in Client, ServerCloses(c) \/ ServerBreaks(c) PROVE IInv'
<1> DEFINE t == th[c]
           q == io[c]
<1>1. Good(t, q) /\ th' = th /\ t = th[c]
  BY DEF IInv, ServerCloses, ServerBreaks
<1>2. PICK v : /\ io' = [io EXCEPT ![c] = v]
               /\ \/ v = [q EXCEPT !.backEnd = "eof"]
                  \/ v = [q EXCEPT !.backEnd = "reset", !.back = << >>]
  BY DEF ServerCloses, ServerBreaks
<1> HIDE DEF t, q
<1>3. /\ v \in Streams /\ SameUp(v, q) /\ v.answered = q.answered /\ v.got = q.got
      /\ v.back \in {q.back, << >>}
  <2>1. q \in Streams /\ << >> \in Str /\ "eof" \in Ends /\ "reset" \in Ends
    BY <1>1, Empty DEF Good, Shape, Ends
  <2>2. CASE v = [q EXCEPT !.backEnd = "eof"]
    BY <2>1, <2>2 DEF Streams, SameUp
  <2>3. CASE v = [q EXCEPT !.backEnd = "reset", !.back = << >>]
    BY <2>1, <2>3 DEF Streams, SameUp
  <2> QED
    BY <1>2, <2>2, <2>3
<1>4. Shape(t, v)
  BY <1>1, <1>3 DEF Good, Shape
<1>5. Upward(t, v)
  BY <1>1, <1>3 DEF Good, Upward, Wanted, FirstLine, SameUp
<1>6. Downward(t, v)
  BY <1>1, <1>3 DEF Good, Downward, Goes
<1>7. Account(t, v)
  BY <1>1, <1>3 DEF Good, Account, InHeaders, InBody, Counted
<1>8. Good(t, v)
  BY <1>1, <1>4, <1>5, <1>6, <1>7 DEF Good
<1> QED
  BY <1>1, <1>2, <1>8, KeepsOthers

-----------------------------------------------------------------------------
(***************************************************************************)
(* The invariant holds, and with it what the runs check.                   *)
(***************************************************************************)

\* No stream has begun at the start.
LEMMA InitIInv == Init => IInv
<1> SUFFICES ASSUME Init
             PROVE  IInv
  OBVIOUS
<1>1. ASSUME NEW c \in Client
      PROVE  th[c] = NewThread /\ io[c] = NewIo
  BY DEF Init
<1>2. << >> \in Str /\ IsPrefix(<< >>, << >>)
  BY Empty
<1>3. Shape(NewThread, NewIo)
  BY <1>2 DEF Shape, NewThread, NewIo, Fields, Streams, Ends
<1>4. Upward(NewThread, NewIo)
  BY DEF Upward, NewThread, NewIo, Waiting, Dialling, Sending
<1>5. Downward(NewThread, NewIo)
  BY <1>2 DEF Downward, Goes, NewThread, NewIo
<1>6. Account(NewThread, NewIo)
  BY DEF Account, NewThread, NewIo, Waiting, Received, Closing
<1>7. Good(NewThread, NewIo)
  BY <1>3, <1>4, <1>5, <1>6 DEF Good, Known, Waiting, NewThread
<1>8. th = [c \in Client |-> th[c]] /\ io = [c \in Client |-> io[c]]
  BY DEF Init
<1> QED
  BY <1>1, <1>7, <1>8 DEF IInv

\* Every step keeps the invariant.
LEMMA NextIInv ==
  ASSUME IInv, [Next]_vars PROVE IInv'
<1>1. CASE UNCHANGED vars
  BY <1>1 DEF IInv, vars
<1>2. CASE Listening
  <2>1. th' = th /\ io' = io
    BY <1>2 DEF Listening, ResolvePort, OpenListener, BindListener, Listen, StartUp
  <2> QED
    BY <2>1 DEF IInv
<1>3. ASSUME AcceptFails \/ \E c \in Client : PeerReads(c)
      PROVE  IInv'
  <2>1. th' = th /\ io' = io
    BY <1>3 DEF PeerReads, AcceptFails
  <2> QED
    BY <2>1 DEF IInv
<1>4. ASSUME NEW c \in Client, Thread(c)
      PROVE  IInv'
  BY <1>4, ReadRequestLineKeeps, OpenConnectionKeeps, SendRequestLineKeeps,
     ForwardHeaderKeeps, ForwardBodyKeeps, ReceiveHeaderKeeps, ReceiveBodyKeeps,
     FinishKeeps, LogKeeps, CloseClientKeeps
     DEF Thread
<1> QED
  BY <1>1, <1>2, <1>3, <1>4, AcceptKeeps, ClientConnectsKeeps, ClientLeavesKeeps,
     ServerAnswersKeeps, ServerEndsKeeps
     DEF Next

\* The invariant holds throughout every behaviour.
LEMMA Invariance == Spec => []IInv
BY InitIInv, NextIInv, PTL DEF Spec

\* What the server has got is a beginning of what the client has sent, the URI of the
\* request line replaced by its path, whatever the calls of readline, read and write took
\* at a time, and whoever broke off.
THEOREM RequestsGoThrough == Spec => []RequestIsForwarded
<1>1. IInv => RequestIsForwarded
  BY DEF IInv, Good, Upward, Wanted, FirstLine, RequestIsForwarded
<1> QED
  BY <1>1, Invariance, PTL

\* What the client has got is a beginning of what the server has answered.
THEOREM ResponsesGoThrough == Spec => []ResponseIsForwarded
<1>1. IInv => ResponseIsForwarded
  BY DEF IInv, Good, Downward, ResponseIsForwarded
<1> QED
  BY <1>1, Invariance, PTL

\* When the header lines of a response fit into the buffer, its connection is logged just
\* when the client got all of it (and not of a length that the counter takes for 0), with
\* the number of bytes the client got.
THEOREM LogsAreTrue == Spec => []LogIsTrue
<1>1. ASSUME IInv, NEW c \in Client, th[c].pc = "done", LinesFit(io[c].answered)
      PROVE  /\ th[c].logged # NoEntry =>
                  IsWhole(io[c].got) /\ th[c].logged = Len(io[c].got) % UINT
             /\ IsWhole(io[c].got) /\ Len(io[c].got) % UINT # 0 => th[c].logged # NoEntry
  BY <1>1 DEF IInv, Good, Account, Closing
<1>2. IInv => LogIsTrue
  BY <1>1 DEF LogIsTrue
<1> QED
  BY <1>2, Invariance, PTL

=============================================================================
