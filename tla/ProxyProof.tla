----------------------------- MODULE ProxyProof -----------------------------
(***************************************************************************)
(* Proofs about the proxy's descriptors, for every number of connections   *)
(* and of descriptors, and whatever clients and servers send.              *)
(***************************************************************************)
EXTENDS Proxy, Lemmas

-----------------------------------------------------------------------------
(***************************************************************************)
(* The inductive invariant.                                                *)
(***************************************************************************)

\* What is updated is a function with the fields it is updated at.
Fields == {"pc", "cfd", "sfd", "addrs", "line", "clen", "size", "garbled", "logged"}
ThreadsShape ==
  /\ th = [c \in Client |-> th[c]]
  /\ \A c \in Client : th[c] = [f \in Fields |-> th[c][f]]
TableShape == table = [fd \in Fd |-> table[fd]]
MainShape ==
  main \in [pc : {"resolve", "socket", "bind", "listen", "accept", "exited"},
            fd : Nat, addrs : Int]

\* The socket of an address that did not work is closed before the next one
\* is opened.
OneListener == main.pc \in {"resolve", "socket"} => main.fd = None

\* main keeps the descriptor it listens on until it exits.
ListenerIsOpen == main.pc \in {"bind", "listen", "accept"} => main.fd \in Fd

IInv == /\ ThreadsShape /\ TableShape /\ MainShape
        /\ OneListener /\ ListenerIsOpen
        /\ DescriptorsAreHeld

-----------------------------------------------------------------------------
(***************************************************************************)
(* Descriptors.                                                            *)
(***************************************************************************)

\* The kernel's choice of a number is a free one.
LEMMA NewFdIsFree ==
  ASSUME FreeFds # {}
  PROVE  NewFd \in Fd /\ table[NewFd] = Free
<1>1. FreeFds \subseteq Nat
  BY ProxyAssumption DEF FreeFds, Fd
<1>2. \E fd \in FreeFds : \A g \in FreeFds : fd <= g
  BY <1>1, LeastExists
<1>3. NewFd \in FreeFds
  BY <1>2 DEF NewFd
<1> QED
  BY <1>3 DEF FreeFds

\* What stands behind a descriptor tells whose it is.
ClientEnd(c) == <<c, "client">>
ServerEnd(c) == <<c, "server">>

\* What may stand behind a descriptor is told apart.
LEMMA EndsDiffer ==
  /\ Listener # Free
  /\ \A c : /\ ClientEnd(c) # Free /\ ClientEnd(c) # Listener
            /\ ServerEnd(c) # Free /\ ServerEnd(c) # Listener
  /\ \A c, d : /\ ClientEnd(c) # ServerEnd(d)
               /\ ClientEnd(c) = ClientEnd(d) => c = d
               /\ ServerEnd(c) = ServerEnd(d) => c = d
BY DEF Free, Listener, ClientEnd, ServerEnd

\* No open descriptor has the number that stands for none.
LEMMA FdIsPositive == Fd \subseteq Nat /\ None \notin Fd
BY ProxyAssumption DEF Fd, None

-----------------------------------------------------------------------------
(***************************************************************************)
(* DescriptorsAreHeld of any threads t, table tab and descriptor l of main, *)
(* and how it survives each way to open and close one.                     *)
(***************************************************************************)

ClientHeld(r) == r.pc \notin {"idle", "queued", "done"}
ServerHeld(r) ==
  r.pc \in {"dial", "sendline", "header", "body", "rheader", "rbody", "finish"}

Listens(tab, l) == \A fd \in Fd : tab[fd] = Listener <=> l = fd

Held(t, tab, l) ==
  /\ \A c \in Client :
        /\ ClientHeld(t[c]) => t[c].cfd \in Fd /\ tab[t[c].cfd] = ClientEnd(c)
        /\ ServerHeld(t[c]) => t[c].sfd \in Fd /\ tab[t[c].sfd] = ServerEnd(c)
  /\ \A fd \in Fd, c \in Client :
        /\ tab[fd] = ClientEnd(c) => ClientHeld(t[c]) /\ t[c].cfd = fd
        /\ tab[fd] = ServerEnd(c) => ServerHeld(t[c]) /\ t[c].sfd = fd
  /\ Listens(tab, l)

\* What the runs check, as a statement about any threads and any table.
LEMMA HeldIsDescriptorsAreHeld ==
  /\ DescriptorsAreHeld <=> Held(th, table, main.fd)
  /\ DescriptorsAreHeld' <=> Held(th', table', main'.fd)
BY DEF DescriptorsAreHeld, Held, Listens, HoldsClient, HoldsServer, ClientHeld, ServerHeld,
       ClientEnd, ServerEnd

\* tab2 is tab with v behind fd.
IsUpdate(tab2, tab, fd, v) == fd \in Fd /\ \A g \in Fd : tab2[g] = IF g = fd THEN v ELSE tab[g]

\* The main thread opens a descriptor, or closes the one it has.
LEMMA MainOpens ==
  ASSUME NEW t, NEW tab, NEW tab2, NEW fd,
         Held(t, tab, None), IsUpdate(tab2, tab, fd, Listener), tab[fd] = Free
  PROVE  Held(t, tab2, fd)
<1>1. \A c \in Client :
        /\ ClientHeld(t[c]) => t[c].cfd \in Fd /\ tab2[t[c].cfd] = ClientEnd(c)
        /\ ServerHeld(t[c]) => t[c].sfd \in Fd /\ tab2[t[c].sfd] = ServerEnd(c)
  <2> SUFFICES ASSUME NEW c \in Client
               PROVE  /\ ClientHeld(t[c]) => t[c].cfd \in Fd /\ tab2[t[c].cfd] = ClientEnd(c)
                      /\ ServerHeld(t[c]) => t[c].sfd \in Fd /\ tab2[t[c].sfd] = ServerEnd(c)
    OBVIOUS
  <2>1. tab[fd] # ClientEnd(c) /\ tab[fd] # ServerEnd(c)
    BY EndsDiffer
  <2> QED
    BY <2>1, EndsDiffer DEF Held, IsUpdate
<1>2. \A g \in Fd, c \in Client :
        /\ tab2[g] = ClientEnd(c) => ClientHeld(t[c]) /\ t[c].cfd = g
        /\ tab2[g] = ServerEnd(c) => ServerHeld(t[c]) /\ t[c].sfd = g
  <2> SUFFICES ASSUME NEW g \in Fd, NEW c \in Client
               PROVE  /\ tab2[g] = ClientEnd(c) => ClientHeld(t[c]) /\ t[c].cfd = g
                      /\ tab2[g] = ServerEnd(c) => ServerHeld(t[c]) /\ t[c].sfd = g
    OBVIOUS
  <2>1. tab2[g] = Listener \/ tab2[g] = tab[g]
    BY DEF IsUpdate
  <2> QED
    BY <2>1, EndsDiffer DEF Held
<1>3. Listens(tab2, fd)
  <2> SUFFICES ASSUME NEW g \in Fd PROVE tab2[g] = Listener <=> fd = g
    BY DEF Listens
  <2>1. tab[g] # Listener
    BY FdIsPositive DEF Held, Listens
  <2> QED
    BY <2>1 DEF IsUpdate
<1> QED
  BY <1>1, <1>2, <1>3 DEF Held

\* The main thread closes the descriptor it listens on.
LEMMA MainCloses ==
  ASSUME NEW t, NEW tab, NEW tab2, NEW l, Held(t, tab, l), IsUpdate(tab2, tab, l, Free)
  PROVE  Held(t, tab2, None)
<1>1. \A c \in Client :
        /\ ClientHeld(t[c]) => t[c].cfd \in Fd /\ tab2[t[c].cfd] = ClientEnd(c)
        /\ ServerHeld(t[c]) => t[c].sfd \in Fd /\ tab2[t[c].sfd] = ServerEnd(c)
  <2> SUFFICES ASSUME NEW c \in Client
               PROVE  /\ ClientHeld(t[c]) => t[c].cfd \in Fd /\ tab2[t[c].cfd] = ClientEnd(c)
                      /\ ServerHeld(t[c]) => t[c].sfd \in Fd /\ tab2[t[c].sfd] = ServerEnd(c)
    OBVIOUS
  <2>1. tab[l] = Listener
    BY EndsDiffer DEF Held, Listens, IsUpdate
  <2> QED
    BY <2>1, EndsDiffer DEF Held, IsUpdate
<1>2. \A g \in Fd, c \in Client :
        /\ tab2[g] = ClientEnd(c) => ClientHeld(t[c]) /\ t[c].cfd = g
        /\ tab2[g] = ServerEnd(c) => ServerHeld(t[c]) /\ t[c].sfd = g
  <2> SUFFICES ASSUME NEW g \in Fd, NEW c \in Client
               PROVE  /\ tab2[g] = ClientEnd(c) => ClientHeld(t[c]) /\ t[c].cfd = g
                      /\ tab2[g] = ServerEnd(c) => ServerHeld(t[c]) /\ t[c].sfd = g
    OBVIOUS
  <2>1. tab2[g] = Free \/ tab2[g] = tab[g]
    BY DEF IsUpdate
  <2> QED
    BY <2>1, EndsDiffer DEF Held
<1>3. Listens(tab2, None)
  <2> SUFFICES ASSUME NEW g \in Fd PROVE tab2[g] # Listener
    BY FdIsPositive DEF Listens
  <2>1. tab[g] = Listener => l = g
    BY DEF Held, Listens
  <2>2. CASE g = l
    BY <2>2, EndsDiffer DEF IsUpdate
  <2>3. CASE g # l
    BY <2>1, <2>3 DEF IsUpdate
  <2> QED
    BY <2>2, <2>3
<1> QED
  BY <1>1, <1>2, <1>3 DEF Held

\* Only main's descriptor is the listening one: it stays that when another is opened or
\* closed.
LEMMA ListenerKept ==
  ASSUME NEW tab, NEW tab2, NEW l, NEW fd, NEW v,
         Listens(tab, l), IsUpdate(tab2, tab, fd, v), tab[fd] # Listener, v # Listener
  PROVE  Listens(tab2, l)
<1> SUFFICES ASSUME NEW g \in Fd PROVE tab2[g] = Listener <=> l = g
  BY DEF Listens
<1>0. tab[g] = Listener <=> l = g
  BY DEF Listens
<1>1. CASE g = fd
  <2>1. tab2[g] # Listener
    BY <1>1 DEF IsUpdate
  <2>2. l # g
    BY <1>0, <1>1
  <2> QED
    BY <2>1, <2>2
<1>2. CASE g # fd
  <2>1. tab2[g] = tab[g]
    BY <1>2 DEF IsUpdate
  <2> QED
    BY <1>0, <2>1
<1> QED
  BY <1>1, <1>2

\* A step of the thread of c leaves the other threads alone.
Others(t2, t, c) == \A d \in Client : d # c => t2[d] = t[d]

\* A thread goes on with the descriptors it holds.
LEMMA ThreadKeeps ==
  ASSUME NEW t, NEW t2, NEW tab, NEW l, NEW c \in Client, Held(t, tab, l), Others(t2, t, c),
         ClientHeld(t2[c]) <=> ClientHeld(t[c]), ClientHeld(t[c]) => t2[c].cfd = t[c].cfd,
         ServerHeld(t2[c]) <=> ServerHeld(t[c]), ServerHeld(t[c]) => t2[c].sfd = t[c].sfd
  PROVE  Held(t2, tab, l)
<1>1. \A d \in Client :
        /\ ClientHeld(t2[d]) <=> ClientHeld(t[d])
        /\ ClientHeld(t[d]) => t2[d].cfd = t[d].cfd
        /\ ServerHeld(t2[d]) <=> ServerHeld(t[d])
        /\ ServerHeld(t[d]) => t2[d].sfd = t[d].sfd
  BY DEF Others
<1> QED
  BY <1>1 DEF Held

\* A thread gets the descriptor of a new connection.
LEMMA ThreadOpensClient ==
  ASSUME NEW t, NEW t2, NEW tab, NEW tab2, NEW l, NEW c \in Client, NEW fd,
         Held(t, tab, l), Others(t2, t, c), IsUpdate(tab2, tab, fd, ClientEnd(c)),
         tab[fd] = Free, ~ ClientHeld(t[c]), ~ ServerHeld(t[c]),
         t2[c].cfd = fd, ClientHeld(t2[c]), ~ ServerHeld(t2[c])
  PROVE  Held(t2, tab2, l)
<1>1. \A d \in Client :
        /\ ClientHeld(t2[d]) => t2[d].cfd \in Fd /\ tab2[t2[d].cfd] = ClientEnd(d)
        /\ ServerHeld(t2[d]) => t2[d].sfd \in Fd /\ tab2[t2[d].sfd] = ServerEnd(d)
  <2> SUFFICES ASSUME NEW d \in Client
               PROVE  /\ ClientHeld(t2[d]) => t2[d].cfd \in Fd /\ tab2[t2[d].cfd] = ClientEnd(d)
                      /\ ServerHeld(t2[d]) => t2[d].sfd \in Fd /\ tab2[t2[d].sfd] = ServerEnd(d)
    OBVIOUS
  <2>1. CASE d = c
    BY <2>1, EndsDiffer DEF Held, IsUpdate
  <2>2. CASE d # c
    BY <2>2, EndsDiffer DEF Held, IsUpdate, Others
  <2> QED
    BY <2>1, <2>2
<1>2. \A g \in Fd, d \in Client :
        /\ tab2[g] = ClientEnd(d) => ClientHeld(t2[d]) /\ t2[d].cfd = g
        /\ tab2[g] = ServerEnd(d) => ServerHeld(t2[d]) /\ t2[d].sfd = g
  <2> SUFFICES ASSUME NEW g \in Fd, NEW d \in Client
               PROVE  /\ tab2[g] = ClientEnd(d) => ClientHeld(t2[d]) /\ t2[d].cfd = g
                      /\ tab2[g] = ServerEnd(d) => ServerHeld(t2[d]) /\ t2[d].sfd = g
    OBVIOUS
  <2>1. CASE d = c
    BY <2>1, EndsDiffer DEF Held, IsUpdate
  <2>2. CASE d # c
    BY <2>2, EndsDiffer DEF Held, IsUpdate, Others
  <2> QED
    BY <2>1, <2>2
<1>3. Listens(tab2, l)
  <2>1. Listens(tab, l)
    BY DEF Held
  <2>2. tab[fd] # Listener
    BY EndsDiffer
  <2> QED
    BY <2>1, <2>2, EndsDiffer, ListenerKept
<1> QED
  BY <1>1, <1>2, <1>3 DEF Held

\* A thread opens a socket to the server.
LEMMA ThreadOpensServer ==
  ASSUME NEW t, NEW t2, NEW tab, NEW tab2, NEW l, NEW c \in Client, NEW fd,
         Held(t, tab, l), Others(t2, t, c), IsUpdate(tab2, tab, fd, ServerEnd(c)),
         tab[fd] = Free, ClientHeld(t[c]), ~ ServerHeld(t[c]), ClientHeld(t2[c]),
         t2[c].cfd = t[c].cfd, t2[c].sfd = fd, ServerHeld(t2[c])
  PROVE  Held(t2, tab2, l)
<1>1. \A d \in Client :
        /\ ClientHeld(t2[d]) => t2[d].cfd \in Fd /\ tab2[t2[d].cfd] = ClientEnd(d)
        /\ ServerHeld(t2[d]) => t2[d].sfd \in Fd /\ tab2[t2[d].sfd] = ServerEnd(d)
  <2> SUFFICES ASSUME NEW d \in Client
               PROVE  /\ ClientHeld(t2[d]) => t2[d].cfd \in Fd /\ tab2[t2[d].cfd] = ClientEnd(d)
                      /\ ServerHeld(t2[d]) => t2[d].sfd \in Fd /\ tab2[t2[d].sfd] = ServerEnd(d)
    OBVIOUS
  <2>1. CASE d = c
    BY <2>1, EndsDiffer DEF Held, IsUpdate
  <2>2. CASE d # c
    BY <2>2, EndsDiffer DEF Held, IsUpdate, Others
  <2> QED
    BY <2>1, <2>2
<1>2. \A g \in Fd, d \in Client :
        /\ tab2[g] = ClientEnd(d) => ClientHeld(t2[d]) /\ t2[d].cfd = g
        /\ tab2[g] = ServerEnd(d) => ServerHeld(t2[d]) /\ t2[d].sfd = g
  <2> SUFFICES ASSUME NEW g \in Fd, NEW d \in Client
               PROVE  /\ tab2[g] = ClientEnd(d) => ClientHeld(t2[d]) /\ t2[d].cfd = g
                      /\ tab2[g] = ServerEnd(d) => ServerHeld(t2[d]) /\ t2[d].sfd = g
    OBVIOUS
  <2>1. CASE d = c
    BY <2>1, EndsDiffer DEF Held, IsUpdate
  <2>2. CASE d # c
    BY <2>2, EndsDiffer DEF Held, IsUpdate, Others
  <2> QED
    BY <2>1, <2>2
<1>3. Listens(tab2, l)
  <2>1. Listens(tab, l)
    BY DEF Held
  <2>2. tab[fd] # Listener
    BY EndsDiffer
  <2> QED
    BY <2>1, <2>2, EndsDiffer, ListenerKept
<1> QED
  BY <1>1, <1>2, <1>3 DEF Held

\* A thread closes it.
LEMMA ThreadClosesServer ==
  ASSUME NEW t, NEW t2, NEW tab, NEW tab2, NEW l, NEW c \in Client, Held(t, tab, l),
         Others(t2, t, c), ServerHeld(t[c]), IsUpdate(tab2, tab, t[c].sfd, Free),
         ClientHeld(t[c]), ClientHeld(t2[c]), t2[c].cfd = t[c].cfd, ~ ServerHeld(t2[c])
  PROVE  Held(t2, tab2, l)
<1>0. t[c].sfd \in Fd /\ tab[t[c].sfd] = ServerEnd(c)
  BY DEF Held
<1>1. \A d \in Client :
        /\ ClientHeld(t2[d]) => t2[d].cfd \in Fd /\ tab2[t2[d].cfd] = ClientEnd(d)
        /\ ServerHeld(t2[d]) => t2[d].sfd \in Fd /\ tab2[t2[d].sfd] = ServerEnd(d)
  <2> SUFFICES ASSUME NEW d \in Client
               PROVE  /\ ClientHeld(t2[d]) => t2[d].cfd \in Fd /\ tab2[t2[d].cfd] = ClientEnd(d)
                      /\ ServerHeld(t2[d]) => t2[d].sfd \in Fd /\ tab2[t2[d].sfd] = ServerEnd(d)
    OBVIOUS
  <2>1. CASE d = c
    BY <1>0, <2>1, EndsDiffer DEF Held, IsUpdate
  <2>2. CASE d # c
    BY <1>0, <2>2, EndsDiffer DEF Held, IsUpdate, Others
  <2> QED
    BY <2>1, <2>2
<1>2. \A g \in Fd, d \in Client :
        /\ tab2[g] = ClientEnd(d) => ClientHeld(t2[d]) /\ t2[d].cfd = g
        /\ tab2[g] = ServerEnd(d) => ServerHeld(t2[d]) /\ t2[d].sfd = g
  <2> SUFFICES ASSUME NEW g \in Fd, NEW d \in Client
               PROVE  /\ tab2[g] = ClientEnd(d) => ClientHeld(t2[d]) /\ t2[d].cfd = g
                      /\ tab2[g] = ServerEnd(d) => ServerHeld(t2[d]) /\ t2[d].sfd = g
    OBVIOUS
  <2>1. tab2[g] = Free \/ (g # t[c].sfd /\ tab2[g] = tab[g])
    BY DEF IsUpdate
  <2>2. CASE d = c
    <3>1. tab[g] = ServerEnd(c) => g = t[c].sfd
      BY DEF Held
    <3>2. tab2[g] # ServerEnd(d)
      BY <2>1, <2>2, <3>1, EndsDiffer
    <3>3. tab2[g] = ClientEnd(d) => ClientHeld(t2[d]) /\ t2[d].cfd = g
      BY <2>1, <2>2, EndsDiffer DEF Held
    <3> QED
      BY <3>2, <3>3
  <2>3. CASE d # c
    BY <2>1, <2>3, EndsDiffer DEF Held, Others
  <2> QED
    BY <2>2, <2>3
<1>3. Listens(tab2, l)
  <2>1. Listens(tab, l)
    BY DEF Held
  <2>2. tab[t[c].sfd] # Listener /\ Free # Listener
    BY <1>0, EndsDiffer
  <2> QED
    BY <2>1, <2>2, ListenerKept
<1> QED
  BY <1>1, <1>2, <1>3 DEF Held

\* A thread closes the last descriptor it holds.
LEMMA ThreadClosesClient ==
  ASSUME NEW t, NEW t2, NEW tab, NEW tab2, NEW l, NEW c \in Client, Held(t, tab, l),
         Others(t2, t, c), ClientHeld(t[c]), IsUpdate(tab2, tab, t[c].cfd, Free),
         ~ ServerHeld(t[c]), ~ ClientHeld(t2[c]), ~ ServerHeld(t2[c])
  PROVE  Held(t2, tab2, l)
<1>0. t[c].cfd \in Fd /\ tab[t[c].cfd] = ClientEnd(c)
  BY DEF Held
<1>1. \A d \in Client :
        /\ ClientHeld(t2[d]) => t2[d].cfd \in Fd /\ tab2[t2[d].cfd] = ClientEnd(d)
        /\ ServerHeld(t2[d]) => t2[d].sfd \in Fd /\ tab2[t2[d].sfd] = ServerEnd(d)
  <2> SUFFICES ASSUME NEW d \in Client
               PROVE  /\ ClientHeld(t2[d]) => t2[d].cfd \in Fd /\ tab2[t2[d].cfd] = ClientEnd(d)
                      /\ ServerHeld(t2[d]) => t2[d].sfd \in Fd /\ tab2[t2[d].sfd] = ServerEnd(d)
    OBVIOUS
  <2>1. CASE d = c
    BY <1>0, <2>1, EndsDiffer DEF Held, IsUpdate
  <2>2. CASE d # c
    BY <1>0, <2>2, EndsDiffer DEF Held, IsUpdate, Others
  <2> QED
    BY <2>1, <2>2
<1>2. \A g \in Fd, d \in Client :
        /\ tab2[g] = ClientEnd(d) => ClientHeld(t2[d]) /\ t2[d].cfd = g
        /\ tab2[g] = ServerEnd(d) => ServerHeld(t2[d]) /\ t2[d].sfd = g
  <2> SUFFICES ASSUME NEW g \in Fd, NEW d \in Client
               PROVE  /\ tab2[g] = ClientEnd(d) => ClientHeld(t2[d]) /\ t2[d].cfd = g
                      /\ tab2[g] = ServerEnd(d) => ServerHeld(t2[d]) /\ t2[d].sfd = g
    OBVIOUS
  <2>1. tab2[g] = Free \/ (g # t[c].cfd /\ tab2[g] = tab[g])
    BY DEF IsUpdate
  <2>2. CASE d = c
    BY <1>0, <2>1, <2>2, EndsDiffer DEF Held
  <2>3. CASE d # c
    BY <2>1, <2>3, EndsDiffer DEF Held, Others
  <2> QED
    BY <2>2, <2>3
<1>3. Listens(tab2, l)
  <2>1. Listens(tab, l)
    BY DEF Held
  <2>2. tab[t[c].cfd] # Listener /\ Free # Listener
    BY <1>0, EndsDiffer
  <2> QED
    BY <2>1, <2>2, ListenerKept
<1> QED
  BY <1>1, <1>2, <1>3 DEF Held

-----------------------------------------------------------------------------
(***************************************************************************)
(* The invariant holds at first, and every step keeps it.                  *)
(***************************************************************************)

\* Nothing is open at the start.
LEMMA InitIInv == Init => IInv
<1> SUFFICES ASSUME Init PROVE IInv
  OBVIOUS
<1>1. ThreadsShape /\ TableShape /\ MainShape
  <2>1. th = [c \in Client |-> th[c]] /\ table = [fd \in Fd |-> table[fd]]
    BY DEF Init
  <2>2. main \in [pc : {"resolve", "socket", "bind", "listen", "accept", "exited"},
                  fd : Nat, addrs : Int]
    BY DEF Init, None
  <2>3. NewThread = [f \in Fields |-> NewThread[f]]
    BY DEF NewThread, Fields
  <2>4. \A c \in Client : th[c] = NewThread
    BY DEF Init
  <2> QED
    BY <2>1, <2>2, <2>3, <2>4 DEF ThreadsShape, TableShape, MainShape
<1>2. OneListener /\ ListenerIsOpen
  BY DEF Init, OneListener, ListenerIsOpen, None
<1>3. DescriptorsAreHeld
  <2>1. \A c \in Client : th[c].pc = "idle"
    BY DEF Init, NewThread
  <2>2. \A fd \in Fd : table[fd] = Free /\ main.fd # fd
    BY FdIsPositive DEF Init
  <2> QED
    BY <2>1, <2>2, EndsDiffer
       DEF DescriptorsAreHeld, HoldsClient, HoldsServer, ClientEnd, ServerEnd
<1> QED
  BY <1>1, <1>2, <1>3 DEF IInv

\* What a step of the main thread does to its descriptor.
LEMMA MainKeepsDescriptors ==
  ASSUME IInv, th' = th,
         \/ table' = table /\ main'.fd = main.fd
         \/ \E fd \in Fd : /\ table[fd] = Free /\ main.fd = None
                           /\ table' = [table EXCEPT ![fd] = Listener] /\ main'.fd = fd
         \/ main.fd \in Fd /\ table' = [table EXCEPT ![main.fd] = Free] /\ main'.fd = None
  PROVE  ThreadsShape' /\ TableShape' /\ DescriptorsAreHeld'
<1>1. ThreadsShape' /\ Held(th', table, main.fd)
  BY HeldIsDescriptorsAreHeld DEF IInv, ThreadsShape
<1>2. TableShape
  BY DEF IInv
<1>3. CASE table' = table /\ main'.fd = main.fd
  BY <1>1, <1>2, <1>3, HeldIsDescriptorsAreHeld DEF TableShape
<1>4. ASSUME NEW fd \in Fd, table[fd] = Free, main.fd = None,
             table' = [table EXCEPT ![fd] = Listener], main'.fd = fd
      PROVE  TableShape' /\ DescriptorsAreHeld'
  <2>1. TableShape' /\ IsUpdate(table', table, fd, Listener)
    BY <1>2, <1>4 DEF TableShape, IsUpdate
  <2>2. Held(th', table', fd)
    BY <1>1, <1>4, <2>1, MainOpens
  <2> QED
    BY <1>4, <2>1, <2>2, HeldIsDescriptorsAreHeld
<1>5. CASE main.fd \in Fd /\ table' = [table EXCEPT ![main.fd] = Free] /\ main'.fd = None
  <2>1. TableShape' /\ IsUpdate(table', table, main.fd, Free)
    BY <1>2, <1>5 DEF TableShape, IsUpdate
  <2>2. Held(th', table', None)
    BY <1>1, <2>1, MainCloses
  <2> QED
    BY <1>1, <1>5, <2>1, <2>2, HeldIsDescriptorsAreHeld
<1> QED
  BY <1>1, <1>3, <1>4, <1>5

\* open_listenfd and listen.
LEMMA ListeningKeepsIInv == IInv /\ Listening => IInv'
<1> SUFFICES ASSUME IInv, Listening PROVE IInv'
  OBVIOUS
<1>0. th' = th
  BY DEF Listening, ResolvePort, OpenListener, BindListener, Listen, StartUp
<1> USE DEF MainShape, OneListener, ListenerIsOpen
<1>1. CASE ResolvePort
  <2>1. table' = table /\ main'.fd = main.fd
    BY <1>1 DEF ResolvePort, IInv
  <2>2. MainShape' /\ OneListener' /\ ListenerIsOpen'
    <3>1. main.pc = "resolve" /\ MainShape /\ OneListener
      BY <1>1 DEF ResolvePort, IInv
    <3>2. PICK k \in 0..ADDRS :
             main' = [main EXCEPT !.pc = IF k = 0 THEN "exited" ELSE "socket", !.addrs = k]
      BY <1>1 DEF ResolvePort
    <3>3. k \in Int
      BY ProxyAssumption
    <3> QED
      BY <3>1, <3>2, <3>3
  <2> QED
    BY <1>0, <2>1, <2>2, MainKeepsDescriptors DEF IInv
<1>2. CASE OpenListener
  <2>1. CASE FreeFds # {} /\ table' = [table EXCEPT ![NewFd] = Listener]
             /\ main' = [main EXCEPT !.pc = "bind", !.fd = NewFd]
    <3>1. NewFd \in Fd /\ table[NewFd] = Free /\ NewFd \in Nat
      BY <2>1, NewFdIsFree, FdIsPositive
    <3>2. main.fd = None /\ main'.fd = NewFd
      BY <1>2, <2>1 DEF OpenListener, IInv
    <3>3. MainShape' /\ OneListener' /\ ListenerIsOpen'
      BY <2>1, <3>1 DEF IInv
    <3> QED
      BY <1>0, <2>1, <3>1, <3>2, <3>3, MainKeepsDescriptors DEF IInv
  <2>2. CASE NextPort /\ table' = table
    <3>1. main.fd = None /\ main'.fd = None
      BY <1>2, <2>2 DEF OpenListener, NextPort, IInv
    <3>2. MainShape' /\ OneListener' /\ ListenerIsOpen'
      BY <2>2 DEF IInv, NextPort, None
    <3> QED
      BY <1>0, <2>2, <3>1, <3>2, MainKeepsDescriptors DEF IInv
  <2> QED
    BY <1>2, <2>1, <2>2 DEF OpenListener
<1>3. CASE BindListener
  <2>1. CASE main' = [main EXCEPT !.pc = "listen", !.addrs = 0] /\ table' = table
    <3>1. main'.fd = main.fd /\ MainShape' /\ OneListener' /\ ListenerIsOpen'
      <4>1. main.pc = "bind" /\ MainShape /\ ListenerIsOpen
        BY <1>3 DEF BindListener, IInv
      <4>2. main' = [pc |-> "listen", fd |-> main.fd, addrs |-> 0]
        BY <2>1, <4>1
      <4>3. main'.pc = "listen" /\ main'.fd = main.fd /\ MainShape'
        BY <4>1, <4>2
      <4> QED
        BY <4>1, <4>3
    <3> QED
      BY <1>0, <2>1, <3>1, MainKeepsDescriptors DEF IInv
  <2>2. CASE NextPort /\ table' = [table EXCEPT ![main.fd] = Free]
    <3>1. main.fd \in Fd /\ main'.fd = None
      BY <1>3, <2>2 DEF BindListener, NextPort, IInv
    <3>2. MainShape' /\ OneListener' /\ ListenerIsOpen'
      BY <2>2 DEF IInv, NextPort, None
    <3> QED
      BY <1>0, <2>2, <3>1, <3>2, MainKeepsDescriptors DEF IInv
  <2> QED
    BY <1>3, <2>1, <2>2 DEF BindListener
<1>4. CASE Listen
  <2>1. CASE main' = [main EXCEPT !.pc = "accept"] /\ table' = table
    <3>1. main'.fd = main.fd /\ MainShape' /\ OneListener' /\ ListenerIsOpen'
      BY <1>4, <2>1 DEF Listen, IInv
    <3> QED
      BY <1>0, <2>1, <3>1, MainKeepsDescriptors DEF IInv
  <2>2. CASE /\ table' = [table EXCEPT ![main.fd] = Free]
             /\ main' = [main EXCEPT !.pc = "exited", !.fd = None]
    <3>1. main.fd \in Fd /\ main'.fd = None /\ MainShape' /\ OneListener' /\ ListenerIsOpen'
      BY <1>4, <2>2 DEF Listen, IInv, None
    <3> QED
      BY <1>0, <2>2, <3>1, MainKeepsDescriptors DEF IInv
  <2> QED
    BY <1>4, <2>1, <2>2 DEF Listen
<1> QED
  BY <1>1, <1>2, <1>3, <1>4 DEF Listening

\* Close of a descriptor that a thread holds frees it and does not exit.
LEMMA CloseOfHeld ==
  ASSUME IInv, NEW fd \in Fd, table[fd] # Free, Close(fd)
  PROVE  main' = main /\ TableShape' /\ IsUpdate(table', table, fd, Free)
<1>1. main' = main /\ table' = [table EXCEPT ![fd] = Free] /\ TableShape
  BY DEF Close, IInv
<1> QED
  BY <1>1 DEF TableShape, IsUpdate

\* What an update of the state of thread c leaves as it was.
Step(c) == ThreadsShape' /\ Others(th', th, c) /\ th'[c].cfd = th[c].cfd

\* A thread that changes its own local state changes no other one.
LEMMA UpdateIsStep ==
  ASSUME ThreadsShape, NEW c \in Client, NEW r, r = [f \in Fields |-> r[f]],
         r.cfd = th[c].cfd, th' = [th EXCEPT ![c] = r]
  PROVE  Step(c) /\ th'[c] = r
BY DEF ThreadsShape, Step, Others

\* The same when only its place changes.
LEMMA GotoIsStep ==
  ASSUME ThreadsShape, NEW c \in Client, NEW p, Goto(c, p)
  PROVE  Step(c) /\ th'[c].pc = p /\ th'[c].sfd = th[c].sfd
BY DEF ThreadsShape, Goto, Step, Others, Fields

\* The four things a step of a thread may do to its descriptors.
Stays(c) ==
  /\ ClientHeld(th[c]) <=> ClientHeld(th'[c])
  /\ ServerHeld(th[c]) <=> ServerHeld(th'[c])
  /\ ServerHeld(th[c]) => th'[c].sfd = th[c].sfd
  /\ UNCHANGED <<table, main>>
OpensServer(c) ==
  /\ ClientHeld(th[c]) /\ ClientHeld(th'[c]) /\ ~ ServerHeld(th[c]) /\ ServerHeld(th'[c])
  /\ th'[c].sfd \in Fd /\ table[th'[c].sfd] = Free
  /\ table' = [table EXCEPT ![th'[c].sfd] = <<c, "server">>] /\ UNCHANGED main
ClosesServer(c) ==
  /\ ClientHeld(th[c]) /\ ClientHeld(th'[c]) /\ ServerHeld(th[c]) /\ ~ ServerHeld(th'[c])
  /\ TableShape' /\ IsUpdate(table', table, th[c].sfd, Free) /\ UNCHANGED main
ClosesClient(c) ==
  /\ ClientHeld(th[c]) /\ ~ ServerHeld(th[c]) /\ ~ ClientHeld(th'[c]) /\ ~ ServerHeld(th'[c])
  /\ TableShape' /\ IsUpdate(table', table, th[c].cfd, Free) /\ UNCHANGED main

\* A step of a thread that keeps its descriptors.
LEMMA StepKeepsIInv ==
  ASSUME IInv, NEW c \in Client, Step(c),
         Stays(c) \/ OpensServer(c) \/ ClosesServer(c) \/ ClosesClient(c)
  PROVE  IInv'
<1>1. Held(th, table, main.fd) /\ TableShape
  BY HeldIsDescriptorsAreHeld DEF IInv
<1>2. Others(th', th, c) /\ th'[c].cfd = th[c].cfd /\ ThreadsShape'
  BY DEF Step
<1>3. main' = main /\ TableShape' /\ Held(th', table', main.fd)
  <2>1. CASE Stays(c)
    <3>1. Held(th', table, main.fd)
      BY <1>1, <1>2, <2>1, ThreadKeeps DEF Stays
    <3> QED
      BY <1>1, <2>1, <3>1 DEF Stays, TableShape
  <2>2. CASE OpensServer(c)
    <3>1. TableShape' /\ IsUpdate(table', table, th'[c].sfd, ServerEnd(c))
      BY <1>1, <2>2 DEF OpensServer, TableShape, IsUpdate, ServerEnd
    <3>2. Held(th', table', main.fd)
      BY <1>1, <1>2, <2>2, <3>1, ThreadOpensServer DEF OpensServer
    <3> QED
      BY <2>2, <3>1, <3>2 DEF OpensServer
  <2>3. CASE ClosesServer(c)
    BY <1>1, <1>2, <2>3, ThreadClosesServer DEF ClosesServer
  <2>4. CASE ClosesClient(c)
    BY <1>1, <1>2, <2>4, ThreadClosesClient DEF ClosesClient
  <2> QED
    BY <2>1, <2>2, <2>3, <2>4
<1>4. DescriptorsAreHeld'
  BY <1>3, HeldIsDescriptorsAreHeld
<1> QED
  BY <1>2, <1>3, <1>4 DEF IInv, MainShape, OneListener, ListenerIsOpen

\* The descriptors that the state of a thread holds are open.
LEMMA HeldAreOpen ==
  ASSUME IInv, NEW c \in Client
  PROVE  /\ ClientHeld(th[c]) => th[c].cfd \in Fd /\ table[th[c].cfd] # Free
         /\ ServerHeld(th[c]) => th[c].sfd \in Fd /\ table[th[c].sfd] # Free
<1>1. Held(th, table, main.fd)
  BY HeldIsDescriptorsAreHeld DEF IInv
<1>2. /\ ClientHeld(th[c]) => th[c].cfd \in Fd /\ table[th[c].cfd] = ClientEnd(c)
      /\ ServerHeld(th[c]) => th[c].sfd \in Fd /\ table[th[c].sfd] = ServerEnd(c)
  BY <1>1 DEF Held
<1> QED
  BY <1>2, EndsDiffer

\* A step that moves no thread and closes nothing.
LEMMA UnchangedKeepsIInv ==
  ASSUME IInv, UNCHANGED <<th, table, main>> PROVE IInv'
BY DEF IInv, ThreadsShape, TableShape, MainShape, OneListener, ListenerIsOpen,
       DescriptorsAreHeld, HoldsClient, HoldsServer

\* A step of a thread that goes on within the connection with its descriptors.
LEMMA GotoStays ==
  ASSUME IInv, NEW c \in Client, NEW p, Goto(c, p), UNCHANGED <<table, main>>,
         ClientHeld(th[c]), p \notin {"idle", "queued", "done"},
         ServerHeld(th[c]) <=> ServerHeld([pc |-> p])
  PROVE  IInv'
<1>1. Step(c) /\ th'[c].pc = p /\ th'[c].sfd = th[c].sfd
  BY GotoIsStep DEF IInv
<1>2. Stays(c)
  BY <1>1 DEF Stays, ClientHeld, ServerHeld
<1> QED
  BY <1>1, <1>2, StepKeepsIInv

\* An update of a thread that holds both descriptors and goes on with them.
LEMMA UpdateWithin ==
  ASSUME IInv, NEW c \in Client, ServerHeld(th[c]), NEW u, u = [f \in Fields |-> u[f]],
         u.cfd = th[c].cfd, u.sfd = th[c].sfd,
         u.pc \in {"header", "body", "rheader", "rbody", "finish"},
         th' = [th EXCEPT ![c] = u], UNCHANGED <<table, main>>
  PROVE  IInv'
<1>1. Step(c) /\ th'[c] = u
  BY UpdateIsStep DEF IInv
<1>2. Stays(c)
  BY <1>1 DEF Stays, ClientHeld, ServerHeld
<1> QED
  BY <1>1, <1>2, StepKeepsIInv

\* GiveUp, and the other steps that close the server's end.
LEMMA CloseServerKeepsIInv ==
  ASSUME IInv, NEW c \in Client, NEW p \in {"closing", "log"}, ServerHeld(th[c]),
         Close(th[c].sfd), Goto(c, p)
  PROVE  IInv'
<1>1. Step(c) /\ th'[c].pc = p
  BY GotoIsStep DEF IInv
<1>2. ClientHeld(th[c]) /\ ClientHeld(th'[c]) /\ ~ ServerHeld(th'[c])
  BY <1>1 DEF ClientHeld, ServerHeld
<1>3. main' = main /\ TableShape' /\ IsUpdate(table', table, th[c].sfd, Free)
  BY HeldAreOpen, CloseOfHeld
<1>4. ClosesServer(c)
  BY <1>2, <1>3 DEF ClosesServer
<1> QED
  BY <1>1, <1>4, StepKeepsIInv

\* The early returns close the socket to the server.
LEMMA GiveUpKeepsIInv ==
  ASSUME IInv, NEW c \in Client, ServerHeld(th[c]), GiveUp(c)
  PROVE  IInv'
BY CloseServerKeepsIInv DEF GiveUp

-----------------------------------------------------------------------------
(***************************************************************************)
(* The steps of a thread.                                                  *)
(***************************************************************************)

\* The request line is read.
LEMMA ReadRequestLineKeepsIInv ==
  ASSUME IInv, NEW c \in Client, ReadRequestLine(c) PROVE IInv'
<1>1. /\ Step(c) /\ th'[c].pc \in {"closing", "resolve"} /\ th[c].pc = "start"
      /\ UNCHANGED <<table, main>>
  BY DEF ReadRequestLine, IInv, ThreadsShape, Goto, Step, Others, Fields
<1>2. Stays(c)
  BY <1>1 DEF Stays, ClientHeld, ServerHeld
<1> QED
  BY <1>1, <1>2, StepKeepsIInv

\* getaddrinfo returns the addresses of the server, or none.
LEMMA ResolveKeepsIInv ==
  ASSUME IInv, NEW c \in Client, Resolve(c) PROVE IInv'
<1>0. ThreadsShape /\ th[c] = [f \in Fields |-> th[c][f]]
  BY DEF IInv, ThreadsShape
<1>1. /\ Step(c) /\ th'[c].pc \in {"closing", "socket"} /\ th[c].pc = "resolve"
      /\ UNCHANGED <<table, main>>
  <2>1. PICK k \in 0..ADDRS :
           th' = [th EXCEPT ![c].pc = IF k = 0 THEN "closing" ELSE "socket", ![c].addrs = k]
    BY DEF Resolve
  <2> DEFINE r == [th[c] EXCEPT !.pc = IF k = 0 THEN "closing" ELSE "socket", !.addrs = k]
  <2>2. th' = [th EXCEPT ![c] = r]
    BY <2>1
  <2>3. r = [f \in Fields |-> r[f]] /\ r.cfd = th[c].cfd /\ r.pc \in {"closing", "socket"}
    BY <1>0 DEF Fields
  <2> HIDE DEF r
  <2> QED
    BY <1>0, <2>2, <2>3, UpdateIsStep DEF Resolve
<1>2. Stays(c)
  BY <1>1 DEF Stays, ClientHeld, ServerHeld
<1> QED
  BY <1>1, <1>2, StepKeepsIInv

\* The next address is tried, or the thread gives up.
LEMMA NextAddressIsStep ==
  ASSUME ThreadsShape, NEW c \in Client, NextAddress(c)
  PROVE  Step(c) /\ th'[c].pc \in {"closing", "socket"}
<1> DEFINE r == [th[c] EXCEPT !.addrs = @ - 1, !.sfd = None,
                              !.pc = IF th[c].addrs > 1 THEN "socket" ELSE "closing"]
<1>1. th' = [th EXCEPT ![c] = r]
  BY DEF NextAddress
<1>2. th[c] = [f \in Fields |-> th[c][f]]
  BY DEF ThreadsShape
<1>3. r = [f \in Fields |-> r[f]] /\ r.cfd = th[c].cfd /\ r.pc \in {"closing", "socket"}
  BY <1>2 DEF Fields
<1> HIDE DEF r
<1> QED
  BY <1>1, <1>3, UpdateIsStep

\* socket gives a new descriptor, or none is left.
LEMMA OpenSocketKeepsIInv ==
  ASSUME IInv, NEW c \in Client, OpenSocket(c) PROVE IInv'
<1>1. CASE FreeFds = {}
  <2>1. th[c].pc = "socket" /\ Step(c) /\ th'[c].pc \in {"closing", "socket"}
    BY <1>1, NextAddressIsStep DEF OpenSocket, IInv
  <2>2. Stays(c)
    BY <1>1, <2>1 DEF OpenSocket, Stays, ClientHeld, ServerHeld
  <2> QED
    BY <2>1, <2>2, StepKeepsIInv
<1>2. CASE FreeFds # {}
  <2>1. th[c].pc = "socket" /\ Step(c) /\ th'[c].pc = "dial" /\ th'[c].sfd = NewFd
    <3>1. ThreadsShape /\ th[c] = [f \in Fields |-> th[c][f]]
      BY DEF IInv, ThreadsShape
    <3> DEFINE r == [th[c] EXCEPT !.pc = "dial", !.sfd = NewFd]
    <3>2. th' = [th EXCEPT ![c] = r]
      BY <1>2 DEF OpenSocket
    <3>3. r = [f \in Fields |-> r[f]] /\ r.cfd = th[c].cfd /\ r.pc = "dial" /\ r.sfd = NewFd
      BY <3>1 DEF Fields
    <3> HIDE DEF r
    <3> QED
      BY <3>1, <3>2, <3>3, UpdateIsStep DEF OpenSocket
  <2>2. OpensServer(c)
    BY <1>2, <2>1, NewFdIsFree DEF OpenSocket, OpensServer, ClientHeld, ServerHeld
  <2> QED
    BY <2>1, <2>2, StepKeepsIInv
<1> QED
  BY <1>1, <1>2

\* connect succeeds, or the socket is closed.
LEMMA DialKeepsIInv ==
  ASSUME IInv, NEW c \in Client, Dial(c) PROVE IInv'
<1>0. ClientHeld(th[c]) /\ ServerHeld(th[c])
  BY DEF Dial, ClientHeld, ServerHeld
<1>1. CASE Goto(c, "sendline") /\ UNCHANGED table
  BY <1>0, <1>1, GotoStays DEF Dial, ServerHeld
<1>2. CASE NextAddress(c) /\ table' = [table EXCEPT ![th[c].sfd] = Free]
  <2>1. Step(c) /\ th'[c].pc \in {"closing", "socket"}
    BY <1>2, NextAddressIsStep DEF IInv
  <2>2. th[c].sfd \in Fd /\ TableShape
    BY <1>0, HeldAreOpen DEF IInv
  <2>3. TableShape' /\ IsUpdate(table', table, th[c].sfd, Free)
    BY <1>2, <2>2 DEF TableShape, IsUpdate
  <2>4. ClientHeld(th'[c]) /\ ~ ServerHeld(th'[c]) /\ main' = main
    BY <2>1 DEF ClientHeld, ServerHeld, Dial
  <2> QED
    BY <1>0, <2>1, <2>3, <2>4, StepKeepsIInv DEF ClosesServer
<1> QED
  BY <1>1, <1>2 DEF Dial

\* The request line is sent, or the thread gives up.
LEMMA SendRequestLineKeepsIInv ==
  ASSUME IInv, NEW c \in Client, SendRequestLine(c) PROVE IInv'
<1>0. ClientHeld(th[c]) /\ ServerHeld(th[c])
  BY DEF SendRequestLine, ClientHeld, ServerHeld
<1>1. CASE Goto(c, "header") /\ UNCHANGED <<table, main>>
  BY <1>0, <1>1, GotoStays DEF ServerHeld
<1>2. CASE GiveUp(c)
  BY <1>0, <1>2, GiveUpKeepsIInv
<1> QED
  BY <1>1, <1>2 DEF SendRequestLine

\* The request's headers are forwarded.
LEMMA ForwardHeaderKeepsIInv ==
  ASSUME IInv, NEW c \in Client, ForwardHeader(c) PROVE IInv'
<1>0. ClientHeld(th[c]) /\ ServerHeld(th[c])
  BY DEF ForwardHeader, ClientHeld, ServerHeld
<1> DEFINE r == readline(io[c].up, io[c].upEnd)
           length == ContentLength(r.line, th[c].clen)
           p == IF IsBlankLine(r.line) THEN AfterHeader(length) ELSE "header"
           u == [th[c] EXCEPT !.clen = length, !.pc = p]
<1>1. CASE UNCHANGED <<th, table, main>>
  BY <1>1, UnchangedKeepsIInv
<1>2. CASE Goto(c, AfterHeader(th[c].clen)) /\ UNCHANGED <<table, main>>
  BY <1>0, <1>2, GotoStays DEF ServerHeld, AfterHeader
<1>3. CASE th' = [th EXCEPT ![c] = u] /\ UNCHANGED <<table, main>>
  <2>1. ThreadsShape /\ th[c] = [f \in Fields |-> th[c][f]]
    BY DEF IInv, ThreadsShape
  <2>2. p \in {"header", "body", "rheader"}
    BY DEF AfterHeader
  <2> HIDE DEF p, length
  <2>3. u = [f \in Fields |-> u[f]] /\ u.cfd = th[c].cfd /\ u.sfd = th[c].sfd /\ u.pc = p
    BY <2>1 DEF Fields
  <2> HIDE DEF u
  <2> QED
    BY <1>0, <1>3, <2>2, <2>3, UpdateWithin
<1>4. CASE GiveUp(c)
  BY <1>0, <1>4, GiveUpKeepsIInv
<1>5. th[c].pc = "header"
  BY DEF ForwardHeader
<1>6. ASSUME th' = [th EXCEPT ![c].clen = length,
                              ![c].pc = IF IsBlankLine(r.line) THEN AfterHeader(length) ELSE @]
      PROVE  th' = [th EXCEPT ![c] = u]
  <2> HIDE DEF r, length
  <2> QED
    BY <1>5, <1>6
<1> QED
  BY <1>1, <1>2, <1>3, <1>4, <1>6 DEF ForwardHeader

\* So is its body.
LEMMA ForwardBodyKeepsIInv ==
  ASSUME IInv, NEW c \in Client, ForwardBody(c) PROVE IInv'
<1>0. ClientHeld(th[c]) /\ ServerHeld(th[c])
  BY DEF ForwardBody, ClientHeld, ServerHeld
<1>1. CASE GiveUp(c)
  BY <1>0, <1>1, GiveUpKeepsIInv
<1>2. ASSUME NEW n, UNCHANGED <<table, main>>,
             th' = [th EXCEPT ![c].clen = @ - n, ![c].pc = AfterHeader(th[c].clen - n)]
      PROVE  IInv'
  <2> DEFINE u == [th[c] EXCEPT !.clen = @ - n, !.pc = AfterHeader(th[c].clen - n)]
  <2>1. ThreadsShape /\ th[c] = [f \in Fields |-> th[c][f]]
    BY DEF IInv, ThreadsShape
  <2>2. th' = [th EXCEPT ![c] = u]
    BY <1>2
  <2>3. u = [f \in Fields |-> u[f]] /\ u.cfd = th[c].cfd /\ u.sfd = th[c].sfd
        /\ u.pc \in {"body", "rheader"}
    BY <2>1 DEF Fields, AfterHeader
  <2> HIDE DEF u
  <2> QED
    BY <1>0, <1>2, <2>2, <2>3, UpdateWithin
<1> QED
  BY <1>1, <1>2 DEF ForwardBody

\* receive returns 0.
LEMMA ReceiveFailsKeepsIInv ==
  ASSUME IInv, NEW c \in Client, ServerHeld(th[c]), ReceiveFails(c), UNCHANGED <<table, main>>
  PROVE  IInv'
<1> DEFINE u == [th[c] EXCEPT !.pc = "finish", !.size = 0]
<1>1. th[c] = [f \in Fields |-> th[c][f]]
  BY DEF IInv, ThreadsShape
<1>2. th' = [th EXCEPT ![c] = u]
  BY DEF ReceiveFails
<1>3. u = [f \in Fields |-> u[f]] /\ u.cfd = th[c].cfd /\ u.sfd = th[c].sfd /\ u.pc = "finish"
  BY <1>1 DEF Fields
<1> HIDE DEF u
<1> QED
  BY <1>2, <1>3, UpdateWithin

\* receive: the headers.
LEMMA ReceiveHeaderKeepsIInv ==
  ASSUME IInv, NEW c \in Client, ReceiveHeader(c) PROVE IInv'
<1>0. ServerHeld(th[c]) /\ th[c].pc = "rheader" /\ UNCHANGED <<table, main>>
  BY DEF ReceiveHeader, ServerHeld
<1>1. CASE ReceiveFails(c)
  BY <1>0, <1>1, ReceiveFailsKeepsIInv
<1>2. ASSUME NEW length, NEW n, NEW blank \in BOOLEAN,
             th' = [th EXCEPT
                 ![c].clen = length,
                 ![c].size = @ + n + (IF blank THEN length ELSE 0),
                 ![c].pc = IF ~ blank THEN @ ELSE IF length > 0 THEN "rbody" ELSE "finish"]
      PROVE  IInv'
  <2> DEFINE u == [th[c] EXCEPT
                 !.clen = length,
                 !.size = @ + n + (IF blank THEN length ELSE 0),
                 !.pc = IF ~ blank THEN @ ELSE IF length > 0 THEN "rbody" ELSE "finish"]
  <2>1. th[c] = [f \in Fields |-> th[c][f]]
    BY DEF IInv, ThreadsShape
  <2>2. th' = [th EXCEPT ![c] = u]
    BY <1>2
  <2>3. u = [f \in Fields |-> u[f]] /\ u.cfd = th[c].cfd /\ u.sfd = th[c].sfd
        /\ u.pc \in {"rheader", "rbody", "finish"}
    BY <1>0, <2>1 DEF Fields
  <2> HIDE DEF u
  <2> QED
    BY <1>0, <2>2, <2>3, UpdateWithin
<1>3. IsBlankLine(readline(io[c].back, io[c].backEnd).line) \in BOOLEAN
  BY DEF IsBlankLine
<1> QED
  BY <1>1, <1>2, <1>3 DEF ReceiveHeader

\* receive: the body.
LEMMA ReceiveBodyKeepsIInv ==
  ASSUME IInv, NEW c \in Client, ReceiveBody(c) PROVE IInv'
<1>0. ServerHeld(th[c]) /\ UNCHANGED <<table, main>>
  BY DEF ReceiveBody, ServerHeld
<1>1. CASE ReceiveFails(c)
  BY <1>0, <1>1, ReceiveFailsKeepsIInv
<1>2. ASSUME NEW n,
             th' = [th EXCEPT ![c].clen = @ - n,
                              ![c].pc = IF th[c].clen > n THEN "rbody" ELSE "finish"]
      PROVE  IInv'
  <2> DEFINE u == [th[c] EXCEPT !.clen = @ - n,
                                !.pc = IF th[c].clen > n THEN "rbody" ELSE "finish"]
  <2>1. th[c] = [f \in Fields |-> th[c][f]]
    BY DEF IInv, ThreadsShape
  <2>2. th' = [th EXCEPT ![c] = u]
    BY <1>2
  <2>3. u = [f \in Fields |-> u[f]] /\ u.cfd = th[c].cfd /\ u.sfd = th[c].sfd
        /\ u.pc \in {"rbody", "finish"}
    BY <2>1 DEF Fields
  <2> HIDE DEF u
  <2> QED
    BY <1>0, <2>2, <2>3, UpdateWithin
<1> QED
  BY <1>1, <1>2 DEF ReceiveBody

\* The socket to the server is closed.
LEMMA FinishKeepsIInv ==
  ASSUME IInv, NEW c \in Client, Finish(c) PROVE IInv'
<1>1. ServerHeld(th[c]) /\ Close(th[c].sfd)
  BY DEF Finish, ServerHeld
<1>2. PICK p \in {"closing", "log"} : Goto(c, p)
  BY DEF Finish
<1> QED
  BY <1>1, <1>2, CloseServerKeepsIInv

\* The connection is logged.
LEMMA LogKeepsIInv ==
  ASSUME IInv, NEW c \in Client, Log(c) PROVE IInv'
<1> DEFINE u == [th[c] EXCEPT !.pc = "closing", !.logged = th[c].size % UINT]
<1>1. ThreadsShape /\ th[c] = [f \in Fields |-> th[c][f]]
  BY DEF IInv, ThreadsShape
<1>2. th' = [th EXCEPT ![c] = u]
  BY DEF Log
<1>3. u = [f \in Fields |-> u[f]] /\ u.cfd = th[c].cfd /\ u.pc = "closing"
  BY <1>1 DEF Fields
<1> HIDE DEF u
<1>4. Step(c) /\ th'[c].pc = "closing"
  BY <1>1, <1>2, <1>3, UpdateIsStep
<1>5. Stays(c)
  BY <1>4 DEF Log, Stays, ClientHeld, ServerHeld
<1> QED
  BY <1>4, <1>5, StepKeepsIInv

\* The client's descriptor is closed, and the thread ends.
LEMMA CloseClientKeepsIInv ==
  ASSUME IInv, NEW c \in Client, CloseClient(c) PROVE IInv'
<1>1. Step(c) /\ th'[c].pc = "done" /\ th[c].pc = "closing"
  BY GotoIsStep DEF CloseClient, IInv
<1>2. ClientHeld(th[c]) /\ ~ ServerHeld(th[c]) /\ ~ ClientHeld(th'[c]) /\ ~ ServerHeld(th'[c])
  BY <1>1 DEF ClientHeld, ServerHeld
<1>3. main' = main /\ TableShape' /\ IsUpdate(table', table, th[c].cfd, Free)
  BY <1>2, HeldAreOpen, CloseOfHeld DEF CloseClient
<1> QED
  BY <1>1, <1>2, <1>3, StepKeepsIInv DEF ClosesClient

\* Every step of a thread keeps the invariant.
LEMMA ThreadKeepsIInv ==
  ASSUME IInv, NEW c \in Client, Thread(c) PROVE IInv'
BY ReadRequestLineKeepsIInv, ResolveKeepsIInv, OpenSocketKeepsIInv, DialKeepsIInv,
   SendRequestLineKeepsIInv, ForwardHeaderKeepsIInv, ForwardBodyKeepsIInv,
   ReceiveHeaderKeepsIInv, ReceiveBodyKeepsIInv, FinishKeepsIInv, LogKeepsIInv,
   CloseClientKeepsIInv
   DEF Thread

\* A thread closes only what it holds, so it does not end the process.
LEMMA ThreadKeepsMain ==
  ASSUME IInv, NEW c \in Client, Thread(c) PROVE main' = main
<1>1. ASSUME ServerHeld(th[c]), Close(th[c].sfd) PROVE main' = main
  BY <1>1, HeldAreOpen, CloseOfHeld
<1>2. CASE SendRequestLine(c) \/ ForwardHeader(c) \/ ForwardBody(c) \/ Finish(c)
  <2>1. ServerHeld(th[c])
    BY <1>2 DEF ServerHeld, SendRequestLine, ForwardHeader, ForwardBody, Finish
  <2> QED
    BY <1>1, <1>2, <2>1 DEF SendRequestLine, ForwardHeader, ForwardBody, Finish, GiveUp
<1>3. CASE CloseClient(c)
  <2>1. ClientHeld(th[c])
    BY <1>3 DEF ClientHeld, CloseClient
  <2> QED
    BY <1>3, <2>1, HeldAreOpen, CloseOfHeld DEF CloseClient
<1>4. CASE \/ ReadRequestLine(c) \/ Resolve(c) \/ OpenSocket(c) \/ Dial(c)
           \/ ReceiveHeader(c) \/ ReceiveBody(c) \/ Log(c)
  BY <1>4 DEF ReadRequestLine, Resolve, OpenSocket, Dial, ReceiveHeader, ReceiveBody, Log
<1> QED
  BY <1>2, <1>3, <1>4 DEF Thread

-----------------------------------------------------------------------------
(***************************************************************************)
(* The steps of main and of the peers, and the theorems.                   *)
(***************************************************************************)

\* The process ends: its descriptors are what they were.
LEMMA ExitKeepsIInv ==
  ASSUME IInv, Exit, UNCHANGED <<th, table>> PROVE IInv'
<1>1. main' = [main EXCEPT !.pc = "exited"] /\ MainShape
  BY DEF Exit, IInv
<1>2. MainShape' /\ main'.fd = main.fd /\ main'.pc = "exited"
  BY <1>1 DEF MainShape
<1>3. ThreadsShape' /\ TableShape' /\ DescriptorsAreHeld'
  BY <1>2, MainKeepsDescriptors
<1> QED
  BY <1>2, <1>3 DEF IInv, OneListener, ListenerIsOpen

\* accept gives a descriptor to a new thread, or there is no thread and the process ends.
LEMMA AcceptKeepsIInv ==
  ASSUME IInv, NEW c \in Client, Accept(c) PROVE IInv'
<1>1. CASE Exit /\ UNCHANGED <<th, table>>
  BY <1>1, ExitKeepsIInv
<1>2. CASE /\ FreeFds # {}
           /\ table' = [table EXCEPT ![NewFd] = <<c, "client">>]
           /\ th' = [th EXCEPT ![c].pc = "start", ![c].cfd = NewFd]
           /\ UNCHANGED main
  <2> DEFINE u == [th[c] EXCEPT !.pc = "start", !.cfd = NewFd]
  <2>1. ThreadsShape /\ th[c] = [f \in Fields |-> th[c][f]] /\ TableShape
    BY DEF IInv, ThreadsShape
  <2>2. th' = [th EXCEPT ![c] = u]
    BY <1>2
  <2>3. u = [f \in Fields |-> u[f]] /\ u.cfd = NewFd /\ u.pc = "start"
    BY <2>1 DEF Fields
  <2> HIDE DEF u
  <2>4. ThreadsShape' /\ Others(th', th, c) /\ th'[c] = u
    BY <2>1, <2>2, <2>3 DEF ThreadsShape, Others
  <2>5. /\ ~ ClientHeld(th[c]) /\ ~ ServerHeld(th[c])
        /\ ClientHeld(th'[c]) /\ ~ ServerHeld(th'[c])
    BY <2>3, <2>4 DEF Accept, ClientHeld, ServerHeld
  <2>6. TableShape' /\ IsUpdate(table', table, NewFd, ClientEnd(c))
    BY <1>2, <2>1, NewFdIsFree DEF TableShape, IsUpdate, ClientEnd
  <2>7. Held(th, table, main.fd)
    BY HeldIsDescriptorsAreHeld DEF IInv
  <2>8. Held(th', table', main.fd)
    <3>1. NewFd \in Fd /\ table[NewFd] = Free /\ th'[c].cfd = NewFd
      BY <1>2, <2>3, <2>4, NewFdIsFree
    <3> QED
      BY <2>4, <2>5, <2>6, <2>7, <3>1, ThreadOpensClient
  <2>9. DescriptorsAreHeld'
    BY <1>2, <2>8, HeldIsDescriptorsAreHeld
  <2> QED
    BY <1>2, <2>4, <2>6, <2>9 DEF IInv, MainShape, OneListener, ListenerIsOpen
<1> QED
  BY <1>1, <1>2 DEF Accept, Pthread_create

\* Clients and servers touch no descriptor.
LEMMA PeersKeepIInv ==
  ASSUME IInv, NEW c \in Client,
         \/ ClientConnects(c) \/ ClientLeaves(c) \/ PeerReads(c)
         \/ ServerAnswers(c) \/ ServerCloses(c) \/ ServerBreaks(c)
  PROVE  IInv'
<1>1. CASE ClientConnects(c)
  <2>1. Step(c) /\ th'[c].pc = "queued" /\ th[c].pc = "idle"
    BY <1>1, GotoIsStep DEF ClientConnects, IInv
  <2>2. Stays(c)
    BY <1>1, <2>1 DEF ClientConnects, Stays, ClientHeld, ServerHeld
  <2> QED
    BY <2>1, <2>2, StepKeepsIInv
<1>2. CASE \/ ClientLeaves(c) \/ PeerReads(c)
           \/ ServerAnswers(c) \/ ServerCloses(c) \/ ServerBreaks(c)
  BY <1>2, UnchangedKeepsIInv DEF ClientLeaves, PeerReads, ServerAnswers, ServerCloses, ServerBreaks
<1> QED
  BY <1>1, <1>2

\* Every step keeps the invariant.
LEMMA NextIInv == IInv /\ [Next]_vars => IInv'
<1> SUFFICES ASSUME IInv, [Next]_vars PROVE IInv'
  OBVIOUS
<1>1. CASE Next
  BY <1>1, ListeningKeepsIInv, ExitKeepsIInv, AcceptKeepsIInv, ThreadKeepsIInv, PeersKeepIInv
     DEF Next, AcceptFails
<1>2. CASE UNCHANGED vars
  BY <1>2, UnchangedKeepsIInv DEF vars
<1> QED
  BY <1>1, <1>2

\* The invariant holds throughout every behaviour.
LEMMA Invariance == Spec => []IInv
BY InitIInv, NextIInv, PTL DEF Spec

\* A descriptor of the table that all threads share is open for a connection
\* exactly while its thread holds it, for any number of connections: no thread
\* uses a number that close has given to another, and none is left open.
THEOREM DescriptorsTheorem == Spec => []DescriptorsAreHeld
<1>1. IInv => DescriptorsAreHeld
  BY DEF IInv
<1> QED
  BY <1>1, Invariance, PTL

\* While the proxy accepts connections, the process ends only in main, when accept or
\* pthread_create is refused: no Close of any thread ever fails and takes the other
\* connections down.
THEOREM ExitTheorem == Spec => EndsOnlyWhenRefused
<1>1. IInv /\ [Next]_vars =>
        [Up /\ main'.pc = "exited" => AcceptFails \/ \E c \in Client : Accept(c)]_vars
  <2> SUFFICES ASSUME IInv, Next, Up, main'.pc = "exited", ~ AcceptFails
               PROVE  \E c \in Client : Accept(c)
    BY DEF vars
  <2>1. main' # main
    BY DEF Up
  <2>2. ~ Listening
    BY DEF Listening, ResolvePort, OpenListener, BindListener, Listen, Up
  <2>3. PICK c \in Client : \/ Accept(c) \/ Thread(c)
                            \/ ClientConnects(c) \/ ClientLeaves(c) \/ PeerReads(c)
                            \/ ServerAnswers(c) \/ ServerCloses(c) \/ ServerBreaks(c)
    BY <2>2 DEF Next
  <2>4. ~ Thread(c)
    BY <2>1, ThreadKeepsMain
  <2>5. Accept(c)
    BY <2>1, <2>3, <2>4
       DEF ClientConnects, ClientLeaves, PeerReads, ServerAnswers, ServerCloses, ServerBreaks
  <2> QED
    BY <2>5
<1> QED
  BY <1>1, Invariance, PTL DEF Spec, EndsOnlyWhenRefused

=============================================================================
