------------------------------- MODULE Proxy -------------------------------
(***************************************************************************)
(* The threaded web proxy of lab9 (proxy.c on the wrappers of csapp.c).    *)
(* The main thread accepts connections and starts a thread for each; the   *)
(* thread reads the request line, connects to the server, forwards the     *)
(* request's headers and body, then the response's, and logs the size of   *)
(* the response.  Threads share the table of descriptors and the process.  *)
(*                                                                         *)
(* A stream is a sequence of bytes.  Bytes the code looks at are kept      *)
(* apart: "r" and "n" end a line, "_" is a blank, "h" begins a URI with    *)
(* http:// and "b" one without, "c0", "c1", "c2" begin a header line       *)
(* Content-Length of that value, "/" is the path the proxy writes instead  *)
(* of the URI; any other byte is "x".  The end of a stream is "open",      *)
(* "eof", or "reset": then the next read fails, and it is "gone".  A step  *)
(* of a thread is one blocking call and what the code does with its result;*)
(* a read and the write of what it returned are one step.                  *)
(***************************************************************************)
EXTENDS Integers, Sequences, SequencesExt

CONSTANTS
    Client,         \* the connections, each served by a thread of its own
    NFD,            \* descriptors left beside the standard ones
    ADDRS,          \* most addresses getaddrinfo returns
    MAXLINE,        \* size of the line buffers
    UINT,           \* 2^w for the unsigned int that takes the response's size
    Asks,           \* the byte sequences a client may send as its request
    Answers,        \* the byte sequences a server may send as its response
    CrowdAsks,      \* bounds: those sent while there is another connection
    CrowdAnswers,
    Slow            \* bound: the connections whose peers may stop reading

ASSUME ProxyAssumption ==
    NFD \in Nat /\ ADDRS \in Nat /\ MAXLINE \in Nat \ {0, 1} /\ UINT \in Nat \ {0}

Byte == {"r", "n", "_", "h", "b", "c0", "c1", "c2", "/", "x"}

(* An answer begins with a status line, not with the end of the headers or a field. *)
ASSUME MessagesAssumption ==
    /\ Asks \cup Answers \cup CrowdAsks \cup CrowdAnswers \subseteq Seq(Byte)
    /\ \A m \in Answers \cup CrowdAnswers : m # <<>> => m[1] \notin {"r", "c0", "c1", "c2"}

VARIABLES
    th,         \* th[c]: the local state of the thread of connection c
    io,         \* io[c]: its two connections, and what has passed through them
    full,       \* the ends that have no room: a write waits until the peer reads
    table,      \* table[fd]: the connection's end behind a descriptor, or Free
    main        \* the main thread: where it is, the listening descriptor, addresses left

vars == <<th, io, full, table, main>>

Free == <<>>
Fd == 1..NFD
Listener == <<"main", "listener">>  \* what a listening descriptor stands for
None == 0                           \* no descriptor
NoEntry == -1                       \* nothing logged
Lengths == [b \in {"c0", "c1", "c2"} |-> IF b = "c0" THEN 0 ELSE IF b = "c1" THEN 1 ELSE 2]
NewThread == [pc |-> "idle", cfd |-> None, sfd |-> None, addrs |-> 0, line |-> <<>>,
              clen |-> 0, size |-> 0, garbled |-> FALSE, logged |-> NoEntry]
NewIo == [up |-> <<>>, upEnd |-> "open", asked |-> <<>>, sent |-> <<>>,
          back |-> <<>>, backEnd |-> "open", answered |-> <<>>, got |-> <<>>]
----------------------------------------------------------------------------
(* csapp.c *)

FreeFds == {fd \in Fd : table[fd] = Free}
NewFd == CHOOSE fd \in FreeFds : \A g \in FreeFds : fd <= g

Exit == main' = [main EXCEPT !.pc = "exited"]

(* Close, which ends the process when the descriptor is not open. *)
Close(fd) ==
    IF fd \in Fd /\ table[fd] # Free
    THEN table' = [table EXCEPT ![fd] = Free] /\ UNCHANGED main
    ELSE Exit /\ UNCHANGED table

Least(S) == CHOOSE i \in S : \A j \in S : i <= j

(* Where a call of readline stops in s: a newline, or the last byte that fits. *)
LineEnds(s) == {i \in DOMAIN s : i < MAXLINE /\ (s[i] = "n" \/ i = MAXLINE - 1)}
LineReady(s, end) == end # "open" \/ LineEnds(s) # {}
ReadReady(s, end) == end # "open" \/ s # <<>>

Result(n, s, end) ==                \* n bytes taken from s
    [n |-> n, line |-> SubSeq(s, 1, n), rest |-> SubSeq(s, n + 1, Len(s)), end |-> end]
Failure(s) == [n |-> -1, line |-> <<>>, rest |-> s, end |-> "gone"]

(* Mutant: the newline is not handed on. *)
readline_chomped(s, end) ==
    IF end = "reset" THEN Failure(s)
    ELSE LET r == Result(IF LineEnds(s) = {} THEN Len(s) ELSE Least(LineEnds(s)), s, end)
         IN  [r EXCEPT !.line = SelectSeq(@, LAMBDA b : b # "n")]

(* The result of readline. *)
readline(s, end) ==
    IF end = "reset" THEN Failure(s)
    ELSE Result(IF LineEnds(s) = {} THEN Len(s) ELSE Least(LineEnds(s)), s, end)

(* The results that read for at most max bytes may have. *)
read(s, end, max) ==
    IF end = "reset" THEN {Failure(s)}
    ELSE IF s = <<>> THEN {Result(0, s, end)}
    ELSE {Result(n, s, end) : n \in 1..(IF max < Len(s) THEN max ELSE Len(s))}

(* Rio_writenEH returns ok.  It waits while the peer reads nothing and there *)
(* is no room.  While the peer is there all bytes are written; once it has   *)
(* closed, the kernel may take them in vain or refuse.                       *)
Rio_writenEH(c, side, ok) ==
    LET end == IF side = "client" THEN io[c].upEnd ELSE io[c].backEnd
    IN  /\ <<c, side>> \notin full
        /\ IF ok THEN end \in {"open", "eof"} ELSE end # "open"
        /\ full' \in {full} \cup {full \cup {<<c, side>>} : d \in {c} \cap (IF ok THEN Slow ELSE {})}
----------------------------------------------------------------------------
(* proxy.c: what it looks for in a line. *)

Blanks(line) == {i \in DOMAIN line : line[i] = "_"}
Uri(line) == Least(Blanks(line)) + 1
Protocol(line) == Least(Blanks(line) \ {Least(Blanks(line))}) + 1
HasUri(line) == \E i, j \in Blanks(line) : i # j
parse_uri(line) == line[Uri(line)] = "h"
RequestLine(line) ==
    SubSeq(line, 1, Uri(line) - 1) \o <<"/", "_">> \o SubSeq(line, Protocol(line), Len(line))
IsBlankLine(line) == Len(line) >= 2 /\ line[1] = "r" /\ line[2] = "n"
ContentLength(line, old) ==
    IF line # <<>> /\ line[1] \in DOMAIN Lengths THEN Lengths[line[1]] ELSE old

Goto(c, pc) == th' = [th EXCEPT ![c].pc = pc]
TakeUp(c, r) == io' = [io EXCEPT ![c].up = r.rest, ![c].upEnd = r.end]
PassUp(c, r) ==                     \* from the client to the server
    io' = [io EXCEPT ![c].up = r.rest, ![c].upEnd = r.end, ![c].sent = @ \o r.line]
TakeBack(c, r) == io' = [io EXCEPT ![c].back = r.rest, ![c].backEnd = r.end]
PassBackAgain(c, r) ==              \* mutant: what was read stays in the buffer
    io' = [io EXCEPT ![c].backEnd = r.end, ![c].got = @ \o r.line]
PassBack(c, r) ==                   \* from the server to the client
    io' = [io EXCEPT ![c].back = r.rest, ![c].backEnd = r.end, ![c].got = @ \o r.line]

(* Where the loop over the body goes when length bytes of it are to come. *)
AfterHeader(length) == IF length > 0 THEN "body" ELSE "rheader"
----------------------------------------------------------------------------
(* open_listenfd: the addresses of the port, until one can be bound, and    *)
(* main, which exits when there is none or listen fails.                    *)

StartUp == UNCHANGED <<th, io, full>>

ResolvePort ==
    /\ main.pc = "resolve"
    /\ \E k \in 0..ADDRS :
          main' = [main EXCEPT !.pc = IF k = 0 THEN "exited" ELSE "socket", !.addrs = k]
    /\ UNCHANGED table /\ StartUp

NextPort ==
    main' = [pc |-> IF main.addrs > 1 THEN "socket" ELSE "exited", fd |-> None,
             addrs |-> main.addrs - 1]

OpenListener ==
    /\ main.pc = "socket"
    /\ \/ /\ FreeFds # {}
          /\ table' = [table EXCEPT ![NewFd] = Listener]
          /\ main' = [main EXCEPT !.pc = "bind", !.fd = NewFd]
       \/ NextPort /\ UNCHANGED table
    /\ StartUp

BindListener ==
    /\ main.pc = "bind"
    /\ \/ main' = [main EXCEPT !.pc = "listen", !.addrs = 0] /\ UNCHANGED table
       \/ NextPort /\ table' = [table EXCEPT ![main.fd] = Free]
    /\ StartUp

Listen ==
    /\ main.pc = "listen"
    /\ \/ main' = [main EXCEPT !.pc = "accept"] /\ UNCHANGED table
       \/ /\ table' = [table EXCEPT ![main.fd] = Free]
          /\ main' = [main EXCEPT !.pc = "exited", !.fd = None]
    /\ StartUp

Listening == ResolvePort \/ OpenListener \/ BindListener \/ Listen

(* main: a connection, and a thread for it.  The wrappers of accept and of   *)
(* pthread_create end the process, and all its descriptors, when the kernel  *)
(* refuses: at a limit, for a connection that is gone, for a signal.         *)

AcceptFails ==
    /\ main.pc = "accept" /\ Exit
    /\ UNCHANGED <<th, io, full, table>>

Pthread_create(c, fd) ==
    \/ /\ table' = [table EXCEPT ![fd] = <<c, "client">>]
       /\ th' = [th EXCEPT ![c].pc = "start", ![c].cfd = fd]
       /\ UNCHANGED main
    \/ Exit /\ UNCHANGED <<th, table>>

Accept(c) ==
    /\ main.pc = "accept" /\ th[c].pc = "queued" /\ FreeFds # {}
    /\ Pthread_create(c, NewFd)
    /\ UNCHANGED <<io, full>>

(* proxy: the request line.  A failed read is not seen, since n is unsigned; *)
(* the code then looks into an uninitialized buffer.                         *)
ReadRequestLine(c) ==
    /\ th[c].pc = "start" /\ LineReady(io[c].up, io[c].upEnd)
    /\ LET r == readline(io[c].up, io[c].upEnd) IN
       /\ TakeUp(c, r)
       /\ \/ /\ r.n > 0 => ~HasUri(r.line)
             /\ Goto(c, "closing")
          \/ /\ r.n > 0 /\ HasUri(r.line)
             /\ th' = [th EXCEPT ![c].pc = "resolve", ![c].line = RequestLine(r.line),
                                 ![c].garbled = ~parse_uri(r.line)]
          \/ /\ r.n < 0
             /\ th' = [th EXCEPT ![c].pc = "resolve", ![c].garbled = TRUE]
    /\ UNCHANGED <<full, table, main>>

(* open_clientfd: the addresses of the server, each tried in turn. *)
Resolve(c) ==
    /\ th[c].pc = "resolve"
    /\ \E k \in 0..ADDRS :
          th' = [th EXCEPT ![c].pc = IF k = 0 THEN "closing" ELSE "socket", ![c].addrs = k]
    /\ UNCHANGED <<io, full, table, main>>

(* Mutant: the same address is tried again. *)
SameAddress(c) == th' = [th EXCEPT ![c].sfd = None, ![c].pc = "socket"]

NextAddress(c) ==
    th' = [th EXCEPT ![c].addrs = @ - 1, ![c].sfd = None,
                     ![c].pc = IF th[c].addrs > 1 THEN "socket" ELSE "closing"]

OpenSocket(c) ==
    /\ th[c].pc = "socket"
    /\ IF FreeFds = {} THEN NextAddress(c) /\ UNCHANGED table
       ELSE /\ table' = [table EXCEPT ![NewFd] = <<c, "server">>]
            /\ th' = [th EXCEPT ![c].pc = "dial", ![c].sfd = NewFd]
    /\ UNCHANGED <<io, full, main>>

Dial(c) ==
    /\ th[c].pc = "dial"
    /\ \/ Goto(c, "sendline") /\ UNCHANGED table
       \/ NextAddress(c) /\ table' = [table EXCEPT ![th[c].sfd] = Free]
    /\ UNCHANGED <<io, full, main>>

(* Mutants: the descriptor stays open; the client's is closed too early. *)
GiveUpOpen(c) == Goto(c, "closing") /\ UNCHANGED <<table, main>>
GiveUpBoth(c) ==
    /\ table' = [table EXCEPT ![th[c].sfd] = Free, ![th[c].cfd] = Free]
    /\ Goto(c, "closing") /\ UNCHANGED main

(* The early returns of proxy after a write to the server has failed. *)
GiveUp(c) == Close(th[c].sfd) /\ Goto(c, "closing")

SendRequestLine(c) ==
    /\ th[c].pc = "sendline"
    /\ \E ok \in BOOLEAN :
       /\ Rio_writenEH(c, "server", ok)
       /\ IF ok THEN /\ io' = [io EXCEPT ![c].sent = th[c].line]
                     /\ Goto(c, "header") /\ UNCHANGED <<table, main>>
          ELSE GiveUp(c) /\ UNCHANGED io

(* One line of the request's headers.  A failed read gives the size_t n the *)
(* largest value: the write fails too, -1 = n holds, and the loop goes on   *)
(* with the buffer of the line before.                                      *)
ForwardHeader(c) ==
    /\ th[c].pc = "header" /\ LineReady(io[c].up, io[c].upEnd)
    /\ LET r == readline(io[c].up, io[c].upEnd)
           length == ContentLength(r.line, th[c].clen)
       IN  \/ /\ r.n < 0 /\ TakeUp(c, r) /\ UNCHANGED <<th, full, table, main>>
           \/ /\ r.n = 0 /\ TakeUp(c, r) /\ Goto(c, AfterHeader(th[c].clen))
              /\ UNCHANGED <<full, table, main>>
           \/ /\ r.n > 0 /\ Rio_writenEH(c, "server", TRUE)
              /\ PassUp(c, r)
              /\ th' = [th EXCEPT ![c].clen = length,
                                  ![c].pc = IF IsBlankLine(r.line) THEN AfterHeader(length) ELSE @]
              /\ UNCHANGED <<table, main>>
           \/ /\ r.n > 0 /\ Rio_writenEH(c, "server", FALSE)
              /\ TakeUp(c, r) /\ GiveUp(c)

(* A piece of the request's body.  At the end of the stream n is 0 and the  *)
(* loop repeats the call; a failed read adds 1 to the unsigned length.      *)
ForwardBody(c) ==
    /\ th[c].pc = "body" /\ ReadReady(io[c].up, io[c].upEnd)
    /\ \E r \in read(io[c].up, io[c].upEnd, IF th[c].clen > MAXLINE THEN MAXLINE ELSE th[c].clen) :
          \/ /\ IF r.n > 0 THEN Rio_writenEH(c, "server", TRUE) ELSE UNCHANGED full
             /\ PassUp(c, r)
             /\ th' = [th EXCEPT ![c].clen = @ - r.n, ![c].pc = AfterHeader(th[c].clen - r.n)]
             /\ UNCHANGED <<table, main>>
          \/ /\ r.n > 0 /\ Rio_writenEH(c, "server", FALSE)
             /\ TakeUp(c, r) /\ GiveUp(c)
----------------------------------------------------------------------------
(* receive, whose content_length starts at 0: clen is 0 when it is called. *)

(* Mutant: receive returns what it has counted so far. *)
ReceiveEnds(c) == Goto(c, "finish")

(* receive returns 0. *)
ReceiveFails(c) == th' = [th EXCEPT ![c].pc = "finish", ![c].size = 0]

ReceiveHeader(c) ==
    /\ th[c].pc = "rheader" /\ LineReady(io[c].back, io[c].backEnd)
    /\ LET r == readline(io[c].back, io[c].backEnd)
           length == ContentLength(r.line, th[c].clen)
       IN  \/ r.n <= 0 /\ TakeBack(c, r) /\ ReceiveFails(c) /\ UNCHANGED full
           \/ r.n > 0 /\ Rio_writenEH(c, "client", FALSE) /\ TakeBack(c, r) /\ ReceiveFails(c)
           \/ /\ r.n > 0 /\ Rio_writenEH(c, "client", TRUE)
              /\ PassBack(c, r)
              /\ th' = [th EXCEPT
                    ![c].clen = length,
                    ![c].size = @ + r.n + (IF IsBlankLine(r.line) THEN length ELSE 0),
                    ![c].pc = IF ~IsBlankLine(r.line) THEN @
                              ELSE IF length > 0 THEN "rbody" ELSE "finish"]
    /\ UNCHANGED <<table, main>>

ReceiveBody(c) ==
    /\ th[c].pc = "rbody" /\ ReadReady(io[c].back, io[c].backEnd)
    /\ \E r \in read(io[c].back, io[c].backEnd, IF th[c].clen > MAXLINE THEN MAXLINE ELSE th[c].clen) :
          \/ r.n <= 0 /\ TakeBack(c, r) /\ ReceiveFails(c) /\ UNCHANGED full
          \/ r.n > 0 /\ Rio_writenEH(c, "client", FALSE) /\ TakeBack(c, r) /\ ReceiveFails(c)
          \/ /\ r.n > 0 /\ Rio_writenEH(c, "client", TRUE)
             /\ PassBack(c, r)
             /\ th' = [th EXCEPT ![c].clen = @ - r.n,
                                 ![c].pc = IF th[c].clen > r.n THEN "rbody" ELSE "finish"]
    /\ UNCHANGED <<table, main>>

(* proxy after receive: the size goes to an unsigned int, 0 means nothing to log. *)
Finish(c) ==
    /\ th[c].pc = "finish"
    /\ Close(th[c].sfd)
    /\ Goto(c, IF th[c].size % UINT = 0 THEN "closing" ELSE "log")
    /\ UNCHANGED <<io, full>>

Log(c) ==
    /\ th[c].pc = "log"
    /\ th' = [th EXCEPT ![c].pc = "closing", ![c].logged = th[c].size % UINT]
    /\ UNCHANGED <<io, full, table, main>>

(* proxy_wrapper after proxy. *)
CloseClient(c) ==
    /\ th[c].pc = "closing"
    /\ Close(th[c].cfd) /\ Goto(c, "done")
    /\ UNCHANGED <<io, full>>
----------------------------------------------------------------------------
(* The client and the server: they connect, send, read, close and break off. *)

Beginnings(s) == {i + 2 : i \in {i \in 1..(Len(s) - 2) : SubSeq(s, i, i + 2) = <<"n", "r", "n">>}}

(* s is a message with all of its headers and its body. *)
IsWhole(s) ==
    /\ Beginnings(s) # {}
    /\ LET h == Least(Beginnings(s))
           fields == {i \in 2..h : s[i - 1] = "n" /\ s[i] \in DOMAIN Lengths}
       IN  \A i \in fields : (\A j \in fields : j <= i) => Len(s) >= h + Lengths[s[i]]

Alone(c) == \A d \in Client \ {c} : th[d].pc = "idle"

ClientConnects(c) ==
    /\ th[c].pc = "idle" /\ Goto(c, "queued")
    /\ \A d \in Client : io[d].asked \in CrowdAsks \cup {<<>>}
    /\ \E m \in IF Alone(c) THEN Asks ELSE CrowdAsks : io' = [io EXCEPT ![c].up = m, ![c].asked = m]
    /\ UNCHANGED <<full, table, main>>

Running(c) == th[c].pc \notin {"idle", "done"}
Connected(c) == th[c].pc \in {"sendline", "header", "body", "rheader", "rbody", "finish"}

ClientLeaves(c) ==
    /\ Running(c) /\ io[c].upEnd \in {"open", "eof"}
    /\ \/ io[c].upEnd = "open" /\ io' = [io EXCEPT ![c].upEnd = "eof"] /\ UNCHANGED full
       \/ /\ io' = [io EXCEPT ![c].upEnd = "reset", ![c].up = <<>>]
          /\ full' = full \ {<<c, "client">>}
    /\ UNCHANGED <<th, table, main>>

(* The peer reads what lies there for it. *)
PeerReads(c) ==
    /\ Running(c)
    /\ \E side \in {"client", "server"} : <<c, side>> \in full /\ full' = full \ {<<c, side>>}
    /\ UNCHANGED <<th, io, table, main>>

(* To answer, it must have read the request. *)
ServerAnswers(c) ==
    /\ Connected(c) /\ io[c].backEnd = "open" /\ io[c].answered = <<>> /\ IsWhole(io[c].sent)
    /\ \E m \in IF Alone(c) THEN Answers ELSE CrowdAnswers :
          io' = [io EXCEPT ![c].back = m, ![c].answered = m]
    /\ full' = full \ {<<c, "server">>}
    /\ UNCHANGED <<th, table, main>>

ServerCloses(c) ==
    /\ Connected(c) /\ io[c].backEnd = "open"
    /\ io' = [io EXCEPT ![c].backEnd = "eof"]
    /\ UNCHANGED <<th, full, table, main>>

ServerBreaks(c) ==
    /\ Connected(c) /\ io[c].backEnd \in {"open", "eof"}
    /\ io' = [io EXCEPT ![c].backEnd = "reset", ![c].back = <<>>]
    /\ full' = full \ {<<c, "server">>}
    /\ UNCHANGED <<th, table, main>>
----------------------------------------------------------------------------
Init ==
    /\ th = [c \in Client |-> NewThread] /\ io = [c \in Client |-> NewIo] /\ full = {}
    /\ table = [fd \in Fd |-> Free]
    /\ main = [pc |-> "resolve", fd |-> None, addrs |-> 0]

Thread(c) ==
    \/ ReadRequestLine(c) \/ Resolve(c) \/ OpenSocket(c) \/ Dial(c) \/ SendRequestLine(c)
    \/ ForwardHeader(c) \/ ForwardBody(c) \/ ReceiveHeader(c) \/ ReceiveBody(c)
    \/ Finish(c) \/ Log(c) \/ CloseClient(c)

Up == main.pc = "accept"

Next ==
    \/ Listening
    \/ AcceptFails
    \/ /\ Up
       /\ \E c \in Client :
             \/ Accept(c) \/ Thread(c)
             \/ ClientConnects(c) \/ ClientLeaves(c) \/ PeerReads(c)
             \/ ServerAnswers(c) \/ ServerCloses(c) \/ ServerBreaks(c)

(* Threads and main are scheduled; a server answers a whole request and in *)
(* the end closes a connection it has answered on.                         *)
Fairness ==
    \A c \in Client :
        /\ WF_vars(Up /\ Accept(c)) /\ WF_vars(Up /\ Thread(c))
        /\ WF_vars(Up /\ ServerAnswers(c))
        /\ WF_vars(Up /\ io[c].answered # <<>> /\ ServerCloses(c))

Spec == Init /\ [][Next]_vars /\ Fairness

----------------------------------------------------------------------------
(* The threads share the table of descriptors, and a number is given out    *)
(* again once it is closed.  A descriptor is open for a connection exactly  *)
(* while its thread still holds it: no thread uses a number that meanwhile  *)
(* belongs to another connection, and none leaves one open behind it.  The  *)
(* main thread holds the one it listens on, and none that it could not use. *)
HoldsClient(c) == th[c].pc \notin {"idle", "queued", "done"}
HoldsServer(c) == th[c].pc \in {"dial", "sendline", "header", "body", "rheader", "rbody", "finish"}
DescriptorsAreHeld ==
    /\ \A c \in Client :
          /\ HoldsClient(c) => th[c].cfd \in Fd /\ table[th[c].cfd] = <<c, "client">>
          /\ HoldsServer(c) => th[c].sfd \in Fd /\ table[th[c].sfd] = <<c, "server">>
    /\ \A fd \in Fd, c \in Client :
          /\ table[fd] = <<c, "client">> => HoldsClient(c) /\ th[c].cfd = fd
          /\ table[fd] = <<c, "server">> => HoldsServer(c) /\ th[c].sfd = fd
    /\ \A fd \in Fd : table[fd] = Listener <=> main.fd = fd

(* The wrappers end the whole process, with all of its threads, on any      *)
(* error.  Once connections are accepted that happens only in main, when    *)
(* the kernel refuses a connection or a thread: no thread ends the process, *)
(* since its Close never fails, on whatever path it gives up.               *)
EndsOnlyWhenRefused ==
    [][Up /\ main'.pc = "exited" => AcceptFails \/ \E c \in Client : Accept(c)]_vars

(* The server gets a beginning of what the client has sent, the URI of the  *)
(* request line replaced by its path: in order, nothing twice, nothing left *)
(* out, however lines and pieces of the body fall into the buffers.         *)
RequestIsForwarded ==
    \A c \in Client : io[c].sent # <<>> /\ ~th[c].garbled =>
        LET first == readline(io[c].asked, "eof")
        IN  IsPrefix(io[c].sent, RequestLine(first.line) \o first.rest)

(* The client gets a beginning of what the server has answered. *)
ResponseIsForwarded == \A c \in Client : IsPrefix(io[c].got, io[c].answered)

(* All lines of s fit into the buffer. *)
LinesFit(s) == \A i \in DOMAIN s : i >= MAXLINE - 1 => \E k \in (i - MAXLINE + 2)..i : s[k] = "n"

(* A connection is logged with the number of bytes its client got, and just *)
(* when the client got a whole response.  The size must fit the unsigned    *)
(* int it is kept in, and header lines the buffer.                          *)
LogIsTrue ==
    \A c \in Client : th[c].pc = "done" /\ LinesFit(io[c].answered) =>
        /\ th[c].logged # NoEntry => IsWhole(io[c].got) /\ th[c].logged = Len(io[c].got) % UINT
        /\ IsWhole(io[c].got) /\ Len(io[c].got) % UINT # 0 => th[c].logged # NoEntry

(* What may keep a thread from ending although the server is alive.         *)
ClientKeepsItWaiting(c) ==          \* the client neither completes its request nor leaves
    th[c].pc \in {"start", "header", "body"} /\ io[c].upEnd = "open" /\ ~IsWhole(io[c].asked)
SpinsInBody(c) ==                   \* the client left within the body: read returns 0 for ever
    th[c].pc = "body" /\ io[c].upEnd \in {"eof", "gone"} /\ io[c].up = <<>>
HeadersAreMissing(c) ==             \* the server still waits for the end of the headers
    th[c].pc = "rheader" /\ ~IsWhole(io[c].sent) /\ io[c].answered = <<>>
PeerDoesNotRead(c) ==               \* who is to get the bytes takes none, and stays
    \/ th[c].pc \in {"sendline", "header", "body"} /\ <<c, "server">> \in full
    \/ th[c].pc \in {"rheader", "rbody"} /\ <<c, "client">> \in full

(* Every connection that was accepted is closed and its thread ends, unless *)
(* one of the four cases above, which the code does not handle, lasts for   *)
(* ever: a peer that reads, goes on or leaves lets the thread end.          *)
EveryConnectionEnds ==
    \A c \in Client :
        \/ th[c].pc = "start" ~> (th[c].pc = "done" \/ ~Up)
        \/ <>[]ClientKeepsItWaiting(c) \/ <>[]SpinsInBody(c)
        \/ <>[]HeadersAreMissing(c) \/ <>[]PeerDoesNotRead(c)

=============================================================================
