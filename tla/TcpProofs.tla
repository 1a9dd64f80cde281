------------------------------ MODULE TcpProofs ------------------------------
(***************************************************************************)
(* The ownership of descriptors, the modes and the byte streams of Tcp, for *)
(* any number of connections and descriptors and any capacity of the       *)
(* kernel's buffers, with an fcntl() that fails or one that does not.       *)
(***************************************************************************)
EXTENDS Tcp, SequenceTheorems, TLAPS

(* What is read and what is left of a sequence are sequences of the same.   *)
LEMMA CutType ==
  ASSUME NEW S, NEW s \in Seq(S), NEW k \in 1 .. Len(s)
  PROVE  SubSeq(s, 1, k) \in Seq(S) /\ SubSeq(s, k + 1, Len(s)) \in Seq(S)
  <1>1. \A i \in 1 .. Len(s) : s[i] \in S
    BY ElementOfSeq
  <1>2. SubSeq(s, 1, k) \in Seq(S)
    BY <1>1, SubSeqProperties
  <1>3. SubSeq(s, k + 1, Len(s)) \in Seq(S)
    BY <1>1, SubSeqProperties
  <1> QED
    BY <1>2, <1>3

(* The bytes of a write() are numbers, and as many as it takes.            *)
LEMMA ChunkType ==
  ASSUME NEW from \in Nat, NEW k \in Nat
  PROVE  [i \in 1 .. k |-> from + i - 1] \in Seq(Nat) /\ Len([i \in 1 .. k |-> from + i - 1]) = k
  OBVIOUS

(* FreeFds() leaves the kernel's state typed.                               *)
LEMMA FreeFdsType ==
  ASSUME TypeOK, NEW F, FreeFds(F)
  PROVE  /\ sock' \in [Fds -> SockStates] /\ nonblock' \in [Fds -> BOOLEAN]
         /\ link' \in [Fds -> Links \cup {0}] /\ backlog' \in Seq(Links)
         /\ pipe' \in [Links -> Seq(Nat)] /\ got' \in [Links -> Seq(Nat)]
         /\ astray' \subseteq Fds \cup {NoFd}
  <1>1. astray' \subseteq Fds \cup {NoFd}
    BY DEF TypeOK, FreeFds
  <1> QED
    BY <1>1 DEF TypeOK, FreeFds, SockStates

LEMMA SetFdType ==
  ASSUME TypeOK, NEW f \in Fds, NEW state \in SockStates, NEW nb \in BOOLEAN,
         NEW l \in Links \cup {0}, SetFd(f, state, nb, l)
  PROVE  /\ sock' \in [Fds -> SockStates] /\ nonblock' \in [Fds -> BOOLEAN]
         /\ link' \in [Fds -> Links \cup {0}]
  BY DEF TypeOK, SetFd

(* close() leaves everything it touches typed.                              *)
LEMMA CloseFdType ==
  ASSUME TypeOK, NEW o \in Objects, CloseFd(o)
  PROVE  /\ m_fd' \in [Objects -> Fds \cup {NoFd}]
         /\ sock' \in [Fds -> SockStates] /\ nonblock' \in [Fds -> BOOLEAN]
         /\ link' \in [Fds -> Links \cup {0}] /\ backlog' \in Seq(Links)
         /\ pipe' \in [Links -> Seq(Nat)] /\ got' \in [Links -> Seq(Nat)]
         /\ astray' \subseteq Fds \cup {NoFd}
  <1>1. m_fd' \in [Objects -> Fds \cup {NoFd}]
    BY DEF TypeOK, CloseFd
  <1> QED
    BY <1>1, FreeFdsType DEF CloseFd

LEMMA HandOverType ==
  ASSUME TypeOK, NEW f \in Fds \cup {NoFd}, HandOver(f)
  PROVE  /\ m_fd' \in [Objects -> Fds \cup {NoFd}]
         /\ m_mode' \in [Objects -> {"synchronous", "asynchronous"}]
  <1>1. PICK c \in CConns : /\ m_fd' = [m_fd EXCEPT ![c] = f, ![Client] = NoFd]
                           /\ m_mode' = [m_mode EXCEPT ![c] = m_mode[Client]]
    BY DEF HandOver, HandOverLeaving
  <1>2. c \in Objects /\ Client \in Objects
    BY DEF Objects, Conns
  <1> QED
    BY <1>1, <1>2 DEF TypeOK

(* accept() takes the oldest connection of the queue.                       *)
LEMMA AcceptType ==
  ASSUME TypeOK, Accept
  PROVE  /\ m_fd' \in [Objects -> Fds \cup {NoFd}]
         /\ m_mode' \in [Objects -> {"synchronous", "asynchronous"}]
         /\ sock' \in [Fds -> SockStates] /\ nonblock' \in [Fds -> BOOLEAN]
         /\ link' \in [Fds -> Links \cup {0}] /\ backlog' \in Seq(Links)
         /\ UNCHANGED <<pipe, got>> /\ astray' \subseteq Fds \cup {NoFd}
  <1>1. Head(backlog) \in Links /\ Tail(backlog) \in Seq(Links)
    BY HeadTailProperties DEF Accept, TypeOK
  <1>2. PICK c \in SConns, f \in Fds :
          /\ m_fd' = [m_fd EXCEPT ![c] = f] /\ m_mode' = [m_mode EXCEPT ![c] = m_mode[Server]]
          /\ SetFd(f, "accepted", FALSE, Head(backlog)) /\ backlog' = Tail(backlog)
          /\ astray' = IF m_mode[Server] = "asynchronous" THEN astray \cup {f} ELSE astray
    BY DEF Accept
  <1>3. /\ sock' \in [Fds -> SockStates] /\ nonblock' \in [Fds -> BOOLEAN]
        /\ link' \in [Fds -> Links \cup {0}]
    BY <1>1, <1>2, SetFdType DEF SockStates
  <1>4. astray' \subseteq Fds \cup {NoFd}
    BY <1>2 DEF TypeOK
  <1> QED
    BY <1>1, <1>2, <1>3, <1>4 DEF TypeOK, Accept, Objects, Conns

(* listen() opens a descriptor.                                             *)
LEMMA ListenOpensType ==
  ASSUME TypeOK, NEW nb \in BOOLEAN, ListenOpens(nb)
  PROVE  /\ m_fd' \in [Objects -> Fds \cup {NoFd}]
         /\ sock' \in [Fds -> SockStates] /\ nonblock' \in [Fds -> BOOLEAN]
         /\ link' \in [Fds -> Links \cup {0}]
  BY DEF TypeOK, ListenOpens, SetFd, SockStates, Objects

(* Every variable keeps its type.                                           *)
THEOREM TypeCorrect == Spec => []TypeOK
  <1>1. Init => TypeOK
    <2> SUFFICES ASSUME Init PROVE TypeOK
      OBVIOUS
    <2> USE DEF Init
    <2>1. w \in [CConns -> [src : Nat, left : Nat, actual : Nat]]
      BY DEF Idle
    <2>2. <<>> \in Seq(Nat) /\ backlog \in Seq(Links)
      OBVIOUS
    <2>3. /\ m_fd \in [Objects -> Fds \cup {NoFd}]
          /\ m_mode \in [Objects -> {"synchronous", "asynchronous"}]
          /\ sock \in [Fds -> SockStates]
      BY DEF SockStates
    <2> QED
      BY <2>1, <2>2, <2>3 DEF TypeOK
  <1>2. TypeOK /\ [Next]_vars => TypeOK'
    <2> SUFFICES ASSUME TypeOK, [Next]_vars PROVE TypeOK'
      OBVIOUS
    <2> USE DEF writes, kernel, hist, object
    <2>1. ASSUME NEW o \in Objects, Close(o) PROVE TypeOK'
      BY <2>1, CloseFdType DEF Close, TypeOK
    <2>2. ASSUME NEW o \in Objects, NEW mode \in {"synchronous", "asynchronous"}, SetMode(o, mode)
          PROVE  TypeOK'
      <3>1. nonblock' \in [Fds -> BOOLEAN] /\ astray' \subseteq Fds \cup {NoFd}
        BY <2>2 DEF SetMode, TypeOK
      <3> QED
        BY <2>2, <3>1 DEF SetMode, TypeOK
    <2>3. CASE ConnectBlock
      <3>1. /\ overwrote' \in BOOLEAN /\ gaveUp' \in BOOLEAN
            /\ UNCHANGED <<m_mode, w, done, backlog, pipe, got, astray>>
        BY <2>3 DEF ConnectBlock
      <3>2. CASE m_fd' = [m_fd EXCEPT ![Client] = NoFd] /\ UNCHANGED <<blocked, sock, nonblock, link>>
        BY <3>1, <3>2 DEF TypeOK
      <3>3. ASSUME NEW f \in Fds, SetFd(f, "connecting", TRUE, 0), m_fd' = [m_fd EXCEPT ![Client] = f],
                   blocked' = blocked \cup {Client}
            PROVE  TypeOK'
        BY <3>1, <3>3, SetFdType DEF TypeOK, SockStates
      <3> QED
        BY <2>3, <3>2, <3>3 DEF ConnectBlock
    <2>4. CASE ConnectBlockEnds
      <3>1. m_fd[Client] \in Fds \cup {NoFd}
        BY DEF TypeOK, Objects
      <3>2. UNCHANGED <<overwrote, gaveUp>> /\ blocked' = blocked \ {Client}
        BY <2>4 DEF ConnectBlockEnds
      <3>3. CASE /\ HandOver(m_fd[Client]) /\ nonblock' = [nonblock EXCEPT ![m_fd[Client]] = FALSE]
                 /\ astray' = astray \ {m_fd[Client]} /\ UNCHANGED <<sock, link, backlog, pipe, got>>
        <4>1. /\ m_fd' \in [Objects -> Fds \cup {NoFd}]
              /\ m_mode' \in [Objects -> {"synchronous", "asynchronous"}]
          BY <3>1, <3>3, HandOverType
        <4>2. UNCHANGED writes
          BY <3>3 DEF HandOver, HandOverLeaving
        <4>3. astray' \subseteq Fds \cup {NoFd}
          BY <3>3 DEF TypeOK
        <4> QED
          BY <3>2, <3>3, <4>1, <4>2, <4>3 DEF TypeOK
      <3>4. CASE astray' = astray \cup {m_fd[Client]} /\ UNCHANGED <<m_fd, m_mode, writes, kernel, got>>
        BY <3>1, <3>2, <3>4 DEF TypeOK
      <3>5. CASE CloseFd(Client) /\ UNCHANGED <<m_mode, writes>>
        BY <3>2, <3>5, CloseFdType DEF TypeOK, Objects
      <3> QED
        BY <2>4, <3>3, <3>4, <3>5 DEF ConnectBlockEnds
    <2>5. CASE ConnectNonBlockFirst
      <3>1. gaveUp' \in BOOLEAN /\ UNCHANGED <<blocked, got, overwrote, astray>>
        BY <2>5 DEF ConnectNonBlockFirst
      <3>2. CASE UNCHANGED <<m_fd, m_mode, writes, kernel>>
        BY <3>1, <3>2 DEF TypeOK
      <3>3. ASSUME NEW f \in Fds, SetFd(f, "connecting", TRUE, 0), m_fd' = [m_fd EXCEPT ![Client] = f],
                   UNCHANGED <<m_mode, writes, backlog, pipe>>
            PROVE  TypeOK'
        BY <3>1, <3>3, SetFdType DEF TypeOK, SockStates
      <3>4. ASSUME NEW f \in Fds, NEW l \in Links, Handshake(l), SetFd(f, "ready", TRUE, l),
                   HandOver(f), UNCHANGED pipe
            PROVE  TypeOK'
        <4>1. backlog' \in Seq(Links)
          BY <3>4 DEF Handshake, TypeOK
        <4>2. /\ m_fd' \in [Objects -> Fds \cup {NoFd}]
              /\ m_mode' \in [Objects -> {"synchronous", "asynchronous"}]
          BY <3>4, HandOverType
        <4>3. /\ sock' \in [Fds -> SockStates] /\ nonblock' \in [Fds -> BOOLEAN]
              /\ link' \in [Fds -> Links \cup {0}]
          <5>1. "ready" \in SockStates /\ TRUE \in BOOLEAN
            BY DEF SockStates
          <5> QED
            BY <3>4, <5>1, SetFdType
        <4>4. UNCHANGED <<writes, pipe>>
          BY <3>4 DEF HandOver, HandOverLeaving
        <4> QED
          BY <3>1, <4>1, <4>2, <4>3, <4>4 DEF TypeOK
      <3> QED
        BY <2>5, <3>2, <3>3, <3>4 DEF ConnectNonBlockFirst
    <2>6. CASE ConnectNonBlockAgain
      <3>1. gaveUp' \in BOOLEAN /\ UNCHANGED <<blocked, overwrote>>
        BY <2>6 DEF ConnectNonBlockAgain
      <3>2. CASE HandOver(m_fd[Client]) /\ UNCHANGED <<kernel, got, astray>>
        <4>1. m_fd[Client] \in Fds \cup {NoFd}
          BY DEF TypeOK, Objects
        <4>2. /\ m_fd' \in [Objects -> Fds \cup {NoFd}]
              /\ m_mode' \in [Objects -> {"synchronous", "asynchronous"}]
          BY <3>2, <4>1, HandOverType
        <4>3. UNCHANGED writes
          BY <3>2 DEF HandOver, HandOverLeaving
        <4> QED
          BY <3>1, <3>2, <4>2, <4>3 DEF TypeOK
      <3>3. CASE CloseFd(Client) /\ UNCHANGED <<m_mode, writes>>
        BY <3>1, <3>3, CloseFdType DEF TypeOK, Objects
      <3> QED
        BY <2>6, <3>2, <3>3 DEF ConnectNonBlockAgain
    <2>7. CASE ListenBlock
      BY <2>7, ListenOpensType DEF ListenBlock, TypeOK
    <2>8. CASE ListenBlockEnds
      BY <2>8, AcceptType, CloseFdType DEF ListenBlockEnds, AcceptFails, TypeOK, Objects
    <2>9. CASE ListenNonBlock
      BY <2>9, ListenOpensType, AcceptType, CloseFdType DEF ListenNonBlock, AcceptFails, TypeOK, Objects
    <2>10. ASSUME NEW c \in CConns, NEW n \in 1 .. MaxBytes, WriteCall(c, n) PROVE TypeOK'
      BY <2>10, BoundsAssumption DEF WriteCall, TypeOK
    <2>11. ASSUME NEW c \in CConns, WriteRound(c) PROVE TypeOK'
      <3> DEFINE l == link[m_fd[c]]
      <3>1. PICK k \in 1 .. w[c].left :
              /\ pipe' = [pipe EXCEPT ![l] = @ \o [i \in 1 .. k |-> w[c].src + i - 1]]
              /\ w' = [w EXCEPT ![c] = [src |-> @.src + k, left |-> @.left - k, actual |-> @.actual + k]]
        BY <2>11 DEF WriteRound
      <3>2. k \in Nat /\ w[c].src \in Nat /\ w[c].left - k \in Nat /\ w[c].actual \in Nat
        <4>1. w[c] \in [src : Nat, left : Nat, actual : Nat]
          BY DEF TypeOK
        <4> QED
          BY <3>1, <4>1
      <3>3. [i \in 1 .. k |-> w[c].src + i - 1] \in Seq(Nat)
        BY <3>2, ChunkType
      <3>4. pipe' \in [Links -> Seq(Nat)]
        <4>1. CASE l \in Links
          <5>1. pipe[l] \o [i \in 1 .. k |-> w[c].src + i - 1] \in Seq(Nat)
            BY <3>3, <4>1, ConcatProperties DEF TypeOK
          <5> QED
            BY <3>1, <5>1 DEF TypeOK
        <4>2. CASE l \notin Links
          BY <3>1, <4>2 DEF TypeOK
        <4> QED
          BY <4>1, <4>2
      <3>5. w' \in [CConns -> [src : Nat, left : Nat, actual : Nat]]
        BY <3>1, <3>2 DEF TypeOK
      <3> QED
        BY <2>11, <3>4, <3>5 DEF WriteRound, TypeOK
    <2>12. ASSUME NEW c \in CConns, WriteEnds(c) PROVE TypeOK'
      BY <2>12 DEF WriteEnds, TypeOK, Idle
    <2>13. ASSUME NEW c \in SConns, ReadData(c) PROVE TypeOK'
      <3> DEFINE l == link[m_fd[c]]
      <3>1. PICK k \in 1 .. Len(pipe[l]) :
              /\ got' = [got EXCEPT ![l] = @ \o SubSeq(pipe[l], 1, k)]
              /\ pipe' = [pipe EXCEPT ![l] = SubSeq(@, k + 1, Len(@))]
        BY <2>13 DEF ReadData
      <3>2. got' \in [Links -> Seq(Nat)] /\ pipe' \in [Links -> Seq(Nat)]
        <4>1. CASE l \in Links
          <5>1. pipe[l] \in Seq(Nat) /\ got[l] \in Seq(Nat)
            BY <4>1 DEF TypeOK
          <5>2. SubSeq(pipe[l], 1, k) \in Seq(Nat) /\ SubSeq(pipe[l], k + 1, Len(pipe[l])) \in Seq(Nat)
            BY <5>1, CutType
          <5>3. got[l] \o SubSeq(pipe[l], 1, k) \in Seq(Nat)
            BY <5>1, <5>2, ConcatProperties
          <5> QED
            BY <3>1, <5>2, <5>3 DEF TypeOK
        <4>2. CASE l \notin Links
          BY <3>1, <4>2 DEF TypeOK
        <4> QED
          BY <4>1, <4>2
      <3> QED
        BY <2>13, <3>2 DEF ReadData, TypeOK
    <2>14. ASSUME NEW f \in Fds, KernelConnect(f) PROVE TypeOK'
      <3>1. UNCHANGED <<object, writes, pipe, hist>>
        BY <2>14 DEF KernelConnect
      <3>2. PICK state \in SockStates, l \in Links \cup {0} :
              SetFd(f, state, nonblock[f], l) /\ ((Handshake(l) /\ l \in Links) \/ UNCHANGED backlog)
        BY <2>14 DEF KernelConnect, SockStates
      <3>3. backlog' \in Seq(Links)
        <4>1. CASE Handshake(l) /\ l \in Links
          BY <4>1 DEF Handshake, TypeOK
        <4>2. CASE UNCHANGED backlog
          BY <4>2 DEF TypeOK
        <4> QED
          BY <3>2, <4>1, <4>2
      <3>4. /\ sock' \in [Fds -> SockStates] /\ nonblock' \in [Fds -> BOOLEAN]
            /\ link' \in [Fds -> Links \cup {0}]
        BY <3>2, SetFdType DEF TypeOK
      <3> QED
        BY <3>1, <3>3, <3>4 DEF TypeOK
    <2>15. CASE UNCHANGED vars
      BY <2>15 DEF vars, TypeOK
    <2> QED
      BY <2>1, <2>2, <2>3, <2>4, <2>5, <2>6, <2>7, <2>8, <2>9, <2>10, <2>11, <2>12, <2>13,
         <2>14, <2>15 DEF Next
  <1> QED
    BY <1>1, <1>2, PTL DEF Spec

-----------------------------------------------------------------------------
(* What a call does to the descriptors of the objects.  KernelConnect(),    *)
(* write() and read() leave m_fd alone, and free no descriptor.             *)

(* An object whose call waits has a descriptor.                             *)
BlockedHold == \A o \in blocked : m_fd[o] # NoFd

Owned == BlockedHold /\ OneOwner

(* An object that takes a new descriptor is its only owner.                 *)
LEMMA NewOwner ==
  ASSUME TypeOK, OneOwner, NEW o \in Objects, NEW f \in Fds, NewFd(f),
         m_fd' = [m_fd EXCEPT ![o] = f], NEW state, state # "free",
         sock' = [sock EXCEPT ![f] = state]
  PROVE  OneOwner'
  BY FdsAssumption DEF TypeOK, OneOwner, NewFd

(* close() frees the descriptor of one object and takes it from no other.   *)
LEMMA CloseOwner ==
  ASSUME TypeOK, OneOwner, NEW o \in Objects, m_fd[o] # NoFd, CloseFd(o)
  PROVE  OneOwner'
  BY DEF TypeOK, OneOwner, CloseFd, FreeFds

(* connect() hands a descriptor over to a connection that had none, and     *)
(* keeps none.                                                              *)
LEMMA HandOverIs ==
  ASSUME TypeOK, NEW f \in Fds, HandOver(f)
  PROVE  \E c \in CConns :
           /\ c \in Objects /\ c # Client /\ m_fd[c] = NoFd /\ c \notin blocked
           /\ \A o \in Objects :
                /\ m_fd'[o] = IF o = c THEN f ELSE IF o = Client THEN NoFd ELSE m_fd[o]
                /\ m_mode'[o] = IF o = c THEN m_mode[Client] ELSE m_mode[o]
  <1>1. PICK c \in CConns : /\ m_fd[c] = NoFd /\ c \notin blocked
                            /\ m_fd' = [m_fd EXCEPT ![c] = f, ![Client] = NoFd]
                            /\ m_mode' = [m_mode EXCEPT ![c] = m_mode[Client]]
    BY DEF HandOver, HandOverLeaving, Free
  <1>2. c \in Objects /\ Client \in Objects /\ c # Client
    BY ObjectsAssumption DEF Objects, Conns
  <1>3. \A o \in Objects :
          /\ m_fd'[o] = IF o = c THEN f ELSE IF o = Client THEN NoFd ELSE m_fd[o]
          /\ m_mode'[o] = IF o = c THEN m_mode[Client] ELSE m_mode[o]
    BY <1>1, <1>2 DEF TypeOK
  <1> QED
    BY <1>1, <1>2, <1>3

(* Its descriptor is open and nobody else's.                                *)
LEMMA HandOverOwner ==
  ASSUME TypeOK, OneOwner, NEW f \in Fds, HandOver(f), sock'[f] # "free",
         \A g \in Fds : g # f => sock'[g] = sock[g],
         \A o \in Objects : m_fd[o] = f => o = Client
  PROVE  OneOwner'
  <1>1. PICK c \in Objects :
          /\ c # Client /\ m_fd[c] = NoFd
          /\ \A o \in Objects : m_fd'[o] = IF o = c THEN f ELSE IF o = Client THEN NoFd ELSE m_fd[o]
    BY HandOverIs
  <1>2. f # NoFd
    BY FdsAssumption
  <1> SUFFICES ASSUME NEW o \in Objects, m_fd'[o] # NoFd
               PROVE  /\ sock'[m_fd'[o]] # "free"
                      /\ \A p \in Objects : m_fd'[p] = m_fd'[o] => p = o
    BY DEF OneOwner
  <1>3. CASE o = c
    BY <1>1, <1>2, <1>3
  <1>4. CASE o # c
    <2>1. o # Client /\ m_fd'[o] = m_fd[o] /\ m_fd[o] # f /\ m_fd[o] # NoFd
      BY <1>1, <1>4
    <2>2. m_fd[o] \in Fds /\ sock[m_fd[o]] # "free"
      BY <2>1 DEF TypeOK, OneOwner
    <2>3. ASSUME NEW p \in Objects, m_fd'[p] = m_fd'[o] PROVE p = o
      BY <1>1, <2>1, <2>3 DEF OneOwner
    <2> QED
      BY <2>1, <2>2, <2>3
  <1> QED
    BY <1>3, <1>4

(* A call of connect() that hands over waits no longer.                     *)
LEMMA HandOverBlocked ==
  ASSUME TypeOK, BlockedHold, NEW f \in Fds, HandOver(f),
         Client \notin blocked', blocked' \subseteq blocked
  PROVE  BlockedHold'
  <1>1. PICK c \in Objects :
          /\ c \notin blocked
          /\ \A o \in Objects : m_fd'[o] = IF o = c THEN f ELSE IF o = Client THEN NoFd ELSE m_fd[o]
    BY HandOverIs
  <1>2. \A o \in blocked : o \in Objects
    BY DEF TypeOK, Objects, Conns
  <1> QED
    BY <1>1, <1>2 DEF BlockedHold

(* accept() gives its connection a new descriptor.                          *)
LEMMA AcceptOwner ==
  ASSUME TypeOK, OneOwner, Accept
  PROVE  OneOwner'
  <1>1. PICK c \in SConns, f \in Fds :
          NewFd(f) /\ m_fd' = [m_fd EXCEPT ![c] = f] /\ sock' = [sock EXCEPT ![f] = "accepted"]
    BY DEF Accept, SetFd
  <1> QED
    BY <1>1, NewOwner DEF Objects, Conns

LEMMA ListenOpensOwner ==
  ASSUME TypeOK, OneOwner, NEW nb, ListenOpens(nb)
  PROVE  OneOwner'
  <1>1. PICK f \in Fds : /\ NewFd(f) /\ m_fd' = [m_fd EXCEPT ![Server] = f]
                        /\ sock' = [sock EXCEPT ![f] = "listening"]
    BY DEF ListenOpens, SetFd
  <1> QED
    BY <1>1, NewOwner DEF Objects

(* A descriptor belongs to one object and is open: no step of connect(),    *)
(* listen(), accept() or close() leaves an object with a descriptor that    *)
(* some other object can close.                                             *)
THEOREM OwnersCorrect == Spec => []Owned
  <1>1. Init => Owned
    BY DEF Init, Owned, BlockedHold, OneOwner
  <1>2. TypeOK /\ Owned /\ [Next]_vars => Owned'
    <2> SUFFICES ASSUME TypeOK, Owned, [Next]_vars PROVE Owned'
      OBVIOUS
    <2> USE DEF Owned
    <2>0. Client \in Objects /\ Server \in Objects /\ Client # Server
      BY ObjectsAssumption DEF Objects
    <2>1. ASSUME NEW o \in Objects, Close(o) PROVE Owned'
      <3>1. BlockedHold'
        BY <2>1 DEF Close, CloseFd, Free, BlockedHold, TypeOK
      <3> QED
        BY <2>1, <3>1, CloseOwner DEF Close
    <2>2. ASSUME NEW o \in Objects, NEW mode \in {"synchronous", "asynchronous"}, SetMode(o, mode)
          PROVE  Owned'
      BY <2>2 DEF SetMode, BlockedHold, OneOwner
    <2>3. CASE ConnectBlock
      <3>1. CASE m_fd' = [m_fd EXCEPT ![Client] = NoFd] /\ UNCHANGED <<blocked, sock>>
        BY <2>3, <3>1 DEF ConnectBlock, Free, BlockedHold, OneOwner, TypeOK
      <3>2. ASSUME NEW f \in Fds, NewFd(f), SetFd(f, "connecting", TRUE, 0),
                   m_fd' = [m_fd EXCEPT ![Client] = f], blocked' = blocked \cup {Client}
            PROVE  Owned'
        <4>1. OneOwner'
          BY <2>0, <3>2, NewOwner DEF SetFd
        <4>2. BlockedHold'
          BY <2>0, <3>2, FdsAssumption DEF BlockedHold, TypeOK
        <4> QED
          BY <4>1, <4>2
      <3> QED
        BY <2>3, <3>1, <3>2 DEF ConnectBlock
    <2>4. CASE ConnectBlockEnds
      <3>1. m_fd[Client] \in Fds /\ m_fd[Client] # NoFd
        BY <2>0, <2>4 DEF ConnectBlockEnds, BlockedHold, TypeOK
      <3>2. CASE /\ sock[m_fd[Client]] = "ready" /\ HandOver(m_fd[Client]) /\ UNCHANGED sock
        <4>1. OneOwner'
          BY <2>0, <3>1, <3>2, HandOverOwner DEF OneOwner
        <4>2. BlockedHold'
          BY <2>4, <3>1, <3>2, HandOverBlocked DEF ConnectBlockEnds
        <4> QED
          BY <4>1, <4>2
      <3>3. CASE UNCHANGED <<m_fd, sock>>
        BY <2>4, <3>3 DEF ConnectBlockEnds, BlockedHold, OneOwner
      <3>4. CASE CloseFd(Client)
        <4>1. BlockedHold'
          BY <2>4, <3>4 DEF ConnectBlockEnds, CloseFd, BlockedHold, TypeOK
        <4> QED
          BY <2>0, <3>1, <3>4, <4>1, CloseOwner
      <3> QED
        BY <2>4, <3>2, <3>3, <3>4 DEF ConnectBlockEnds, kernel
    <2>5. CASE ConnectNonBlockFirst
      <3>1. UNCHANGED blocked /\ m_fd[Client] = NoFd /\ Client \notin blocked
        BY <2>5 DEF ConnectNonBlockFirst, Free
      <3>2. CASE UNCHANGED <<m_fd, sock>>
        BY <3>1, <3>2 DEF BlockedHold, OneOwner
      <3>3. ASSUME NEW f \in Fds, NewFd(f), SetFd(f, "connecting", TRUE, 0),
                   m_fd' = [m_fd EXCEPT ![Client] = f]
            PROVE  Owned'
        <4>1. OneOwner'
          BY <2>0, <3>3, NewOwner DEF SetFd
        <4>2. BlockedHold'
          BY <3>1, <3>3 DEF BlockedHold, TypeOK
        <4> QED
          BY <4>1, <4>2
      <3>4. ASSUME NEW f \in Fds, NEW l \in Links, NewFd(f), SetFd(f, "ready", TRUE, l), HandOver(f)
            PROVE  Owned'
        <4>1. sock'[f] = "ready" /\ \A g \in Fds : g # f => sock'[g] = sock[g]
          BY <3>4 DEF SetFd, TypeOK
        <4>2. \A o \in Objects : m_fd[o] # f
          BY <3>4, FdsAssumption DEF NewFd, OneOwner
        <4>3. BlockedHold'
          BY <3>1, <3>4, HandOverBlocked
        <4> QED
          BY <3>4, <4>1, <4>2, <4>3, HandOverOwner
      <3> QED
        BY <2>5, <3>2, <3>3, <3>4 DEF ConnectNonBlockFirst, kernel
    <2>6. CASE ConnectNonBlockAgain
      <3>1. /\ UNCHANGED blocked /\ Client \notin blocked
            /\ m_fd[Client] \in Fds /\ m_fd[Client] # NoFd
        BY <2>0, <2>6 DEF ConnectNonBlockAgain, Free, TypeOK
      <3>2. CASE sock[m_fd[Client]] = "ready" /\ HandOver(m_fd[Client]) /\ UNCHANGED sock
        <4>1. OneOwner'
          BY <2>0, <3>1, <3>2, HandOverOwner DEF OneOwner
        <4>2. BlockedHold'
          BY <3>1, <3>2, HandOverBlocked
        <4> QED
          BY <4>1, <4>2
      <3>3. CASE CloseFd(Client)
        <4>1. BlockedHold'
          BY <3>1, <3>3 DEF CloseFd, BlockedHold, TypeOK
        <4> QED
          BY <2>0, <3>1, <3>3, <4>1, CloseOwner
      <3> QED
        BY <2>6, <3>2, <3>3 DEF ConnectNonBlockAgain, kernel
    <2>7. CASE ListenBlock
      <3>1. CASE m_fd[Server] = NoFd /\ ListenOpens(FALSE)
        <4>1. BlockedHold'
          BY <2>0, <2>7, <3>1, FdsAssumption DEF ListenBlock, ListenOpens, BlockedHold, TypeOK
        <4> QED
          BY <3>1, <4>1, ListenOpensOwner
      <3>2. CASE m_fd[Server] # NoFd /\ UNCHANGED <<m_fd, sock>>
        BY <2>7, <3>2 DEF ListenBlock, BlockedHold, OneOwner
      <3> QED
        BY <2>7, <3>1, <3>2 DEF ListenBlock
    <2>8. CASE ListenBlockEnds
      <3>1. m_fd[Server] # NoFd
        BY <2>8 DEF ListenBlockEnds, BlockedHold
      <3>2. CASE Accept
        <4>1. BlockedHold'
          BY <2>8, <3>2, FdsAssumption DEF ListenBlockEnds, Accept, BlockedHold, TypeOK
        <4> QED
          BY <3>2, <4>1, AcceptOwner
      <3>3. CASE CloseFd(Server)
        <4>1. BlockedHold'
          BY <2>8, <3>3 DEF ListenBlockEnds, CloseFd, BlockedHold, TypeOK
        <4> QED
          BY <2>0, <3>1, <3>3, <4>1, CloseOwner
      <3> QED
        BY <2>8, <3>2, <3>3 DEF ListenBlockEnds, AcceptFails
    <2>9. CASE ListenNonBlock
      <3>1. Server \notin blocked
        BY <2>9 DEF ListenNonBlock, Free
      <3>2. CASE ListenOpens(TRUE) /\ UNCHANGED blocked
        <4>1. BlockedHold'
          BY <3>1, <3>2 DEF ListenOpens, BlockedHold, TypeOK
        <4> QED
          BY <3>2, <4>1, ListenOpensOwner
      <3>3. CASE Accept /\ UNCHANGED blocked
        <4>1. BlockedHold'
          BY <3>3, FdsAssumption DEF Accept, BlockedHold, TypeOK
        <4> QED
          BY <3>3, <4>1, AcceptOwner
      <3>4. CASE m_fd[Server] # NoFd /\ CloseFd(Server) /\ UNCHANGED blocked
        <4>1. BlockedHold'
          BY <3>1, <3>4 DEF CloseFd, BlockedHold, TypeOK
        <4> QED
          BY <2>0, <3>4, <4>1, CloseOwner
      <3>5. CASE m_fd[Server] # NoFd /\ blocked' = blocked \cup {Server} /\ UNCHANGED <<m_fd, sock>>
        BY <3>5 DEF BlockedHold, OneOwner
      <3> QED
        BY <2>9, <3>2, <3>3, <3>4, <3>5 DEF ListenNonBlock, AcceptFails, kernel
    <2>10. ASSUME NEW c \in CConns, NEW n \in 1 .. MaxBytes, WriteCall(c, n) PROVE Owned'
      BY <2>10 DEF WriteCall, BlockedHold, OneOwner, kernel
    <2>11. ASSUME NEW c \in CConns, WriteRound(c) PROVE Owned'
      BY <2>11 DEF WriteRound, BlockedHold, OneOwner, object
    <2>12. ASSUME NEW c \in CConns, WriteEnds(c) PROVE Owned'
      BY <2>12 DEF WriteEnds, BlockedHold, OneOwner, kernel
    <2>13. ASSUME NEW c \in SConns, ReadData(c) PROVE Owned'
      BY <2>13 DEF ReadData, BlockedHold, OneOwner, object
    <2>14. ASSUME NEW f \in Fds, KernelConnect(f) PROVE Owned'
      BY <2>14 DEF KernelConnect, SetFd, BlockedHold, OneOwner, object, TypeOK
    <2>15. CASE UNCHANGED vars
      BY <2>15 DEF vars, object, kernel, BlockedHold, OneOwner
    <2> QED
      BY <2>1, <2>2, <2>3, <2>4, <2>5, <2>6, <2>7, <2>8, <2>9, <2>10, <2>11, <2>12, <2>13,
         <2>14, <2>15 DEF Next
  <1> QED
    BY <1>1, <1>2, TypeCorrect, PTL DEF Spec

(* OneOwner itself.                                                         *)
THEOREM OneOwnerHolds == Spec => []OneOwner
  <1>1. Owned => OneOwner
    BY DEF Owned
  <1> QED
    BY <1>1, OwnersCorrect, PTL

-----------------------------------------------------------------------------
(* A descriptor in use has its object still after close() of another.       *)
LEMMA CloseKeeps ==
  ASSUME TypeOK, NoDescriptorLeaks, UNCHANGED overwrote, NEW o \in Objects, CloseFd(o)
  PROVE  NoDescriptorLeaks'
  BY DEF TypeOK, NoDescriptorLeaks, CloseFd, FreeFds

LEMMA HandOverKeeps ==
  ASSUME TypeOK, NoDescriptorLeaks, UNCHANGED overwrote, NEW f \in Fds, HandOver(f),
         \A g \in Fds : g # f => sock'[g] = sock[g],
         m_fd[Client] \in {f, NoFd}
  PROVE  NoDescriptorLeaks'
  <1>1. PICK c \in Objects :
          /\ c # Client /\ m_fd[c] = NoFd
          /\ \A o \in Objects : m_fd'[o] = IF o = c THEN f ELSE IF o = Client THEN NoFd ELSE m_fd[o]
    BY HandOverIs
  <1> SUFFICES ASSUME ~overwrote, NEW g \in Fds, sock'[g] # "free"
               PROVE  \E o \in Objects : m_fd'[o] = g
    BY DEF NoDescriptorLeaks
  <1>2. CASE g = f
    BY <1>1, <1>2
  <1>3. CASE g # f
    <2>1. PICK o \in Objects : m_fd[o] = g
      BY <1>3 DEF NoDescriptorLeaks
    <2>2. m_fd'[o] = g
      BY <1>1, <1>3, <2>1, FdsAssumption
    <2> QED
      BY <2>2
  <1> QED
    BY <1>2, <1>3

(* An object without a descriptor that takes a new one drops none.          *)
LEMMA NewKeeps ==
  ASSUME TypeOK, NoDescriptorLeaks, UNCHANGED overwrote, NEW o \in Objects, m_fd[o] = NoFd,
         NEW f \in Fds, m_fd' = [m_fd EXCEPT ![o] = f],
         NEW state, sock' = [sock EXCEPT ![f] = state]
  PROVE  NoDescriptorLeaks'
  BY FdsAssumption DEF TypeOK, NoDescriptorLeaks

LEMMA AcceptKeeps ==
  ASSUME TypeOK, NoDescriptorLeaks, UNCHANGED overwrote, Accept
  PROVE  NoDescriptorLeaks'
  <1>1. PICK c \in SConns, f \in Fds :
          /\ m_fd[c] = NoFd /\ m_fd' = [m_fd EXCEPT ![c] = f]
          /\ sock' = [sock EXCEPT ![f] = "accepted"]
    BY DEF Accept, SetFd
  <1> QED
    BY <1>1, NewKeeps DEF Objects, Conns

LEMMA ListenOpensKeeps ==
  ASSUME TypeOK, NoDescriptorLeaks, UNCHANGED overwrote, NEW nb, ListenOpens(nb), m_fd[Server] = NoFd
  PROVE  NoDescriptorLeaks'
  <1>1. PICK f \in Fds : m_fd' = [m_fd EXCEPT ![Server] = f] /\ sock' = [sock EXCEPT ![f] = "listening"]
    BY DEF ListenOpens, SetFd
  <1> QED
    BY <1>1, NewKeeps DEF Objects

(* No open descriptor is without an object, whatever call of the kernel     *)
(* fails within connect() and listen(), as long as no synchronous connect() *)
(* is made with an attempt still in the object.                             *)
THEOREM NothingLeaks == Spec => []NoDescriptorLeaks
  <1>1. Init => NoDescriptorLeaks
    BY DEF Init, NoDescriptorLeaks
  <1>2. TypeOK /\ Owned /\ NoDescriptorLeaks /\ [Next]_vars => NoDescriptorLeaks'
    <2> SUFFICES ASSUME TypeOK, Owned, NoDescriptorLeaks, [Next]_vars PROVE NoDescriptorLeaks'
      OBVIOUS
    <2>0. Client \in Objects /\ Server \in Objects
      BY DEF Objects
    <2>1. ASSUME NEW o \in Objects, Close(o) PROVE NoDescriptorLeaks'
      BY <2>1, CloseKeeps DEF Close
    <2>2. ASSUME NEW o \in Objects, NEW mode \in {"synchronous", "asynchronous"}, SetMode(o, mode)
          PROVE  NoDescriptorLeaks'
      BY <2>2 DEF SetMode, NoDescriptorLeaks
    <2>3. CASE ConnectBlock
      <3>1. CASE m_fd[Client] # NoFd
        BY <2>3, <3>1 DEF ConnectBlock, NoDescriptorLeaks
      <3>2. CASE m_fd[Client] = NoFd /\ m_fd' = [m_fd EXCEPT ![Client] = NoFd] /\ UNCHANGED sock
        BY <2>3, <3>2, FdsAssumption DEF ConnectBlock, NoDescriptorLeaks, TypeOK
      <3>3. ASSUME m_fd[Client] = NoFd, NEW f \in Fds, SetFd(f, "connecting", TRUE, 0),
                   m_fd' = [m_fd EXCEPT ![Client] = f]
            PROVE  NoDescriptorLeaks'
        <4>1. CASE overwrote
          BY <2>3, <4>1 DEF ConnectBlock, NoDescriptorLeaks
        <4>2. CASE UNCHANGED overwrote
          BY <2>0, <3>3, <4>2, NewKeeps DEF SetFd
        <4> QED
          BY <2>3, <3>3, <4>1, <4>2 DEF ConnectBlock, TypeOK
      <3> QED
        BY <2>3, <3>1, <3>2, <3>3 DEF ConnectBlock
    <2>4. CASE ConnectBlockEnds
      <3>1. UNCHANGED overwrote /\ m_fd[Client] \in Fds
        BY <2>0, <2>4 DEF ConnectBlockEnds, Owned, BlockedHold, TypeOK
      <3>2. CASE HandOver(m_fd[Client]) /\ UNCHANGED sock
        BY <3>1, <3>2, HandOverKeeps
      <3>3. CASE UNCHANGED <<m_fd, sock>>
        BY <3>1, <3>3 DEF NoDescriptorLeaks
      <3>4. CASE CloseFd(Client)
        BY <2>0, <3>1, <3>4, CloseKeeps
      <3> QED
        BY <2>4, <3>2, <3>3, <3>4 DEF ConnectBlockEnds, kernel
    <2>5. CASE ConnectNonBlockFirst
      <3>1. UNCHANGED overwrote /\ m_fd[Client] = NoFd
        BY <2>5 DEF ConnectNonBlockFirst
      <3>2. CASE UNCHANGED <<m_fd, sock>>
        BY <3>1, <3>2 DEF NoDescriptorLeaks
      <3>3. ASSUME NEW f \in Fds, SetFd(f, "connecting", TRUE, 0), m_fd' = [m_fd EXCEPT ![Client] = f]
            PROVE  NoDescriptorLeaks'
        BY <2>0, <3>1, <3>3, NewKeeps DEF SetFd
      <3>4. ASSUME NEW f \in Fds, NEW l \in Links, SetFd(f, "ready", TRUE, l), HandOver(f)
            PROVE  NoDescriptorLeaks'
        <4>1. \A g \in Fds : g # f => sock'[g] = sock[g]
          BY <3>4 DEF SetFd, TypeOK
        <4> QED
          BY <3>1, <3>4, <4>1, HandOverKeeps
      <3> QED
        BY <2>5, <3>2, <3>3, <3>4 DEF ConnectNonBlockFirst, kernel
    <2>6. CASE ConnectNonBlockAgain
      <3>1. UNCHANGED overwrote /\ m_fd[Client] \in Fds
        BY <2>0, <2>6 DEF ConnectNonBlockAgain, TypeOK
      <3>2. CASE HandOver(m_fd[Client]) /\ UNCHANGED sock
        BY <3>1, <3>2, HandOverKeeps
      <3>3. CASE CloseFd(Client)
        BY <2>0, <3>1, <3>3, CloseKeeps
      <3> QED
        BY <2>6, <3>2, <3>3 DEF ConnectNonBlockAgain, kernel
    <2>7. CASE ListenBlock
      BY <2>7, ListenOpensKeeps DEF ListenBlock, NoDescriptorLeaks, hist
    <2>8. CASE ListenBlockEnds
      BY <2>0, <2>8, AcceptKeeps, CloseKeeps DEF ListenBlockEnds, AcceptFails
    <2>9. CASE ListenNonBlock
      <3>1. UNCHANGED overwrote
        BY <2>9 DEF ListenNonBlock
      <3>2. CASE UNCHANGED <<m_fd, sock>>
        BY <3>1, <3>2 DEF NoDescriptorLeaks
      <3> QED
        BY <2>0, <2>9, <3>1, <3>2, ListenOpensKeeps, AcceptKeeps, CloseKeeps
           DEF ListenNonBlock, AcceptFails, kernel
    <2>10. ASSUME NEW c \in CConns, NEW n \in 1 .. MaxBytes, WriteCall(c, n) PROVE NoDescriptorLeaks'
      BY <2>10 DEF WriteCall, NoDescriptorLeaks, kernel, hist
    <2>11. ASSUME NEW c \in CConns, WriteRound(c) PROVE NoDescriptorLeaks'
      BY <2>11 DEF WriteRound, NoDescriptorLeaks, object, hist
    <2>12. ASSUME NEW c \in CConns, WriteEnds(c) PROVE NoDescriptorLeaks'
      BY <2>12 DEF WriteEnds, NoDescriptorLeaks, kernel, hist
    <2>13. ASSUME NEW c \in SConns, ReadData(c) PROVE NoDescriptorLeaks'
      BY <2>13 DEF ReadData, NoDescriptorLeaks, object
    <2>14. ASSUME NEW f \in Fds, KernelConnect(f) PROVE NoDescriptorLeaks'
      BY <2>14 DEF KernelConnect, SetFd, NoDescriptorLeaks, object, hist, TypeOK
    <2>15. CASE UNCHANGED vars
      BY <2>15 DEF vars, object, kernel, hist, NoDescriptorLeaks
    <2> QED
      BY <2>1, <2>2, <2>3, <2>4, <2>5, <2>6, <2>7, <2>8, <2>9, <2>10, <2>11, <2>12, <2>13,
         <2>14, <2>15 DEF Next
  <1> QED
    BY <1>1, <1>2, TypeCorrect, OwnersCorrect, PTL DEF Spec

-----------------------------------------------------------------------------
(* The mode of a client does not change within a connect() that waits.      *)
WaitingConnect == Client \in blocked => m_mode[Client] = "synchronous"

Moded == WaitingConnect /\ ModeMatchesFlag

(* What ModeMatchesFlag says of one object.                                 *)
Compared(o) == m_fd[o] # NoFd /\ m_fd[o] \notin astray
Matches(o)  == nonblock[m_fd[o]] = NoWait(o)

(* The step does not change how the descriptor of o should be.              *)
SameWait(o) == NoWait(o)' <=> NoWait(o)

(* An object the step does not touch, and whose descriptor it does not      *)
(* touch, still agrees with it.                                             *)
LEMMA Untouched ==
  ASSUME ModeMatchesFlag, NEW o \in Objects, Compared(o), SameWait(o),
         m_fd'[o] = m_fd[o], nonblock'[m_fd[o]] = nonblock[m_fd[o]]
  PROVE  Matches(o)'
  <1>1. nonblock[m_fd[o]] = NoWait(o)
    BY DEF ModeMatchesFlag, Compared
  <1>2. NoWait(o) \in BOOLEAN /\ NoWait(o)' \in BOOLEAN
    BY DEF NoWait
  <1>3. NoWait(o)' = NoWait(o)
    BY <1>2 DEF SameWait
  <1> QED
    BY <1>1, <1>3 DEF Matches

(* close() of a descriptor of o leaves those of the others as they are.     *)
LEMMA CloseMatches ==
  ASSUME TypeOK, OneOwner, ModeMatchesFlag, NEW o \in Objects, m_fd[o] # NoFd, CloseFd(o),
         \A p \in Objects : p # o => SameWait(p)
  PROVE  ModeMatchesFlag'
  <1> SUFFICES ASSUME NEW p \in Objects, Compared(p)' PROVE Matches(p)'
    BY DEF ModeMatchesFlag, Matches, Compared
  <1>1. p # o /\ m_fd'[p] = m_fd[p]
    BY DEF CloseFd, Compared, TypeOK
  <1>2. m_fd[p] # m_fd[o] /\ m_fd[p] # NoFd /\ m_fd[p] \in Fds
    BY <1>1 DEF OneOwner, Compared, TypeOK
  <1>3. nonblock'[m_fd[p]] = nonblock[m_fd[p]]
    BY <1>2 DEF CloseFd, FreeFds, TypeOK
  <1>4. astray' = astray \ {m_fd[o]}
    BY DEF CloseFd, FreeFds
  <1>5. Compared(p)
    BY <1>1, <1>2, <1>4 DEF Compared
  <1> QED
    BY <1>1, <1>3, <1>5, Untouched

(* A new descriptor f is no other object's.                                 *)
LEMMA NewMatches ==
  ASSUME TypeOK, OneOwner, ModeMatchesFlag, NEW o \in Objects, NEW f \in Fds, NewFd(f),
         m_fd' = [m_fd EXCEPT ![o] = f], NEW nb \in BOOLEAN,
         nonblock' = [nonblock EXCEPT ![f] = nb],
         \A g \in Fds : g # f => (g \in astray' <=> g \in astray),
         \A p \in Objects : p # o => SameWait(p),
         f \in astray' \/ nb = NoWait(o)'
  PROVE  ModeMatchesFlag'
  <1> SUFFICES ASSUME NEW p \in Objects, Compared(p)' PROVE Matches(p)'
    BY DEF ModeMatchesFlag, Matches, Compared
  <1>1. CASE p = o
    <2>1. m_fd'[p] = f /\ nonblock'[f] = nb
      BY <1>1 DEF TypeOK
    <2> QED
      BY <1>1, <2>1 DEF Matches, Compared
  <1>2. CASE p # o
    <2>1. m_fd'[p] = m_fd[p] /\ SameWait(p)
      BY <1>2 DEF TypeOK
    <2>2. m_fd[p] # f /\ m_fd[p] \in Fds
      BY <2>1 DEF OneOwner, NewFd, Compared, TypeOK
    <2>3. Compared(p)
      BY <2>1, <2>2 DEF Compared
    <2>4. nonblock'[m_fd[p]] = nonblock[m_fd[p]]
      BY <2>2 DEF TypeOK
    <2> QED
      BY <2>1, <2>3, <2>4, Untouched
  <1> QED
    BY <1>1, <1>2

(* What connect() hands over has the mode of the client, or is astray still. *)
LEMMA HandOverMatches ==
  ASSUME TypeOK, OneOwner, ModeMatchesFlag, NEW f \in Fds, HandOver(f),
         \A o \in Objects : m_fd[o] = f => o = Client,
         \A g \in Fds : g # f => nonblock'[g] = nonblock[g] /\ (g \in astray' <=> g \in astray),
         f \in astray' \/ nonblock'[f] = (m_mode[Client] = "asynchronous")
  PROVE  ModeMatchesFlag'
  <1> SUFFICES ASSUME NEW p \in Objects, Compared(p)' PROVE Matches(p)'
    BY DEF ModeMatchesFlag, Matches, Compared
  <1>1. PICK c \in CConns :
          /\ c \in Objects /\ c # Client
          /\ \A o \in Objects :
               /\ m_fd'[o] = IF o = c THEN f ELSE IF o = Client THEN NoFd ELSE m_fd[o]
               /\ m_mode'[o] = IF o = c THEN m_mode[Client] ELSE m_mode[o]
    BY HandOverIs
  <1>2. CASE p = c
    <2>1. m_fd'[p] = f /\ m_mode'[p] = m_mode[Client]
      BY <1>1, <1>2
    <2>2. nonblock'[f] = (m_mode'[p] = "asynchronous")
      BY <2>1 DEF Compared
    <2> QED
      BY <1>1, <1>2, <2>1, <2>2 DEF Matches, NoWait
  <1>3. CASE p # c
    <2>1. p # Client /\ m_fd'[p] = m_fd[p] /\ m_mode'[p] = m_mode[p]
      BY <1>1, <1>3 DEF Compared
    <2>2. m_fd[p] # f /\ m_fd[p] \in Fds
      BY <2>1 DEF Compared, TypeOK
    <2>3. Compared(p) /\ nonblock'[m_fd[p]] = nonblock[m_fd[p]]
      BY <2>1, <2>2 DEF Compared
    <2>4. SameWait(p)
      BY <2>1 DEF SameWait, NoWait
    <2> QED
      BY <2>1, <2>3, <2>4, Untouched
  <1> QED
    BY <1>2, <1>3

(* What accept() makes waits, as the mode of a synchronous server says.     *)
LEMMA AcceptMatches ==
  ASSUME TypeOK, OneOwner, ModeMatchesFlag, Accept, Client \in blocked' <=> Client \in blocked
  PROVE  ModeMatchesFlag'
  <1>1. PICK c \in SConns, f \in Fds :
          /\ NewFd(f) /\ m_fd' = [m_fd EXCEPT ![c] = f]
          /\ m_mode' = [m_mode EXCEPT ![c] = m_mode[Server]]
          /\ nonblock' = [nonblock EXCEPT ![f] = FALSE]
          /\ astray' = IF m_mode[Server] = "asynchronous" THEN astray \cup {f} ELSE astray
    BY DEF Accept, SetFd
  <1>2. c \in Objects /\ c # Client
    BY ObjectsAssumption DEF Objects, Conns
  <1> SUFFICES ASSUME NEW p \in Objects, Compared(p)' PROVE Matches(p)'
    BY DEF ModeMatchesFlag, Matches, Compared
  <1>3. CASE p = c
    <2>1. m_fd'[p] = f /\ nonblock'[f] = FALSE /\ m_mode'[p] = m_mode[Server]
      BY <1>1, <1>2, <1>3 DEF TypeOK
    <2>2. m_mode[Server] # "asynchronous"
      BY <1>1, <2>1 DEF Compared
    <2> QED
      BY <1>2, <1>3, <2>1, <2>2 DEF Matches, NoWait
  <1>4. CASE p # c
    <2>1. m_fd'[p] = m_fd[p] /\ m_mode'[p] = m_mode[p]
      BY <1>1, <1>4 DEF TypeOK
    <2>2. m_fd[p] # f /\ m_fd[p] \in Fds
      BY <1>1, <2>1 DEF OneOwner, NewFd, Compared, TypeOK
    <2>3. Compared(p) /\ nonblock'[m_fd[p]] = nonblock[m_fd[p]]
      BY <1>1, <2>1, <2>2 DEF Compared, TypeOK
    <2>4. SameWait(p)
      BY <2>1 DEF SameWait, NoWait
    <2> QED
      BY <2>1, <2>3, <2>4, Untouched
  <1> QED
    BY <1>3, <1>4

(* The mode an object reports is that of its descriptor: set_mode() in any  *)
(* state, the no-wait mode connect() uses and ends, and what a connection   *)
(* takes over keep the two in step.  Where a failed fcntl() or accept() for *)
(* an asynchronous server parts them, they stay apart until the next        *)
(* fcntl() that works, and no other descriptor is touched by it.            *)
THEOREM ModesMatch == Spec => []ModeMatchesFlag
  <1>1. Init => Moded
    BY DEF Init, Moded, WaitingConnect, ModeMatchesFlag
  <1>2. TypeOK /\ Owned /\ Moded /\ [Next]_vars => Moded'
    <2> SUFFICES ASSUME TypeOK, Owned, Moded, [Next]_vars PROVE Moded'
      OBVIOUS
    <2> USE DEF Owned, Moded
    <2>0. Client \in Objects /\ Server \in Objects /\ Client # Server
          /\ Client \notin Conns /\ Server \notin Conns
      BY ObjectsAssumption DEF Objects
    <2>1. ASSUME NEW o \in Objects, Close(o) PROVE Moded'
      <3>1. \A p \in Objects : p # o => m_mode'[p] = m_mode[p]
        BY <2>1 DEF Close, TypeOK
      <3>2. WaitingConnect'
        BY <2>0, <2>1, <3>1 DEF Close, WaitingConnect, TypeOK
      <3>3. \A p \in Objects : p # o => SameWait(p)
        BY <2>1, <3>1 DEF Close, SameWait, NoWait
      <3> QED
        BY <2>1, <3>2, <3>3, CloseMatches DEF Close
    <2>2. ASSUME NEW o \in Objects, NEW mode \in {"synchronous", "asynchronous"}, SetMode(o, mode)
          PROVE  Moded'
      <3>1. WaitingConnect'
        BY <2>0, <2>2 DEF SetMode, Free, WaitingConnect, TypeOK
      <3>2. /\ UNCHANGED <<m_fd, blocked>> /\ o \notin blocked
            /\ \A p \in Objects : m_mode'[p] = IF p = o THEN mode ELSE m_mode[p]
        BY <2>2 DEF SetMode, Free, TypeOK
      <3>3. \/ m_fd[o] = NoFd /\ UNCHANGED <<nonblock, astray>>
            \/ m_fd[o] # NoFd /\ UNCHANGED nonblock /\ astray' = astray \cup {m_fd[o]}
            \/ /\ m_fd[o] # NoFd /\ astray' = astray \ {m_fd[o]}
               /\ nonblock' = [nonblock EXCEPT ![m_fd[o]] = (mode = "asynchronous")]
        BY <2>2 DEF SetMode
      <3> SUFFICES ASSUME NEW p \in Objects, Compared(p)' PROVE Matches(p)'
        BY <3>1 DEF ModeMatchesFlag, Matches, Compared
      <3>4. m_fd[p] # NoFd /\ m_fd[p] \in Fds
        BY <3>2 DEF Compared, TypeOK
      <3>5. CASE p = o
        <4>1. nonblock'[m_fd[p]] = (mode = "asynchronous")
          BY <3>2, <3>3, <3>4, <3>5 DEF Compared, TypeOK
        <4> QED
          BY <3>2, <3>5, <4>1 DEF Matches, NoWait
      <3>6. CASE p # o
        <4>1. m_fd[p] # m_fd[o]
          BY <3>4, <3>6 DEF OneOwner
        <4>2. Compared(p) /\ nonblock'[m_fd[p]] = nonblock[m_fd[p]]
          BY <3>2, <3>3, <3>4, <4>1 DEF Compared, TypeOK
        <4>3. SameWait(p)
          BY <3>2, <3>6 DEF SameWait, NoWait
        <4> QED
          BY <3>2, <4>2, <4>3, Untouched
      <3> QED
        BY <3>5, <3>6
    <2>3. CASE ConnectBlock
      <3>1. WaitingConnect'
        BY <2>3 DEF ConnectBlock, WaitingConnect
      <3>2. UNCHANGED <<m_mode, astray>> /\ Client \notin blocked
        BY <2>3 DEF ConnectBlock, Free
      <3>3. CASE m_fd' = [m_fd EXCEPT ![Client] = NoFd] /\ UNCHANGED <<blocked, nonblock>>
        BY <3>1, <3>2, <3>3 DEF ModeMatchesFlag, NoWait, TypeOK
      <3>4. ASSUME NEW f \in Fds, NewFd(f), SetFd(f, "connecting", TRUE, 0),
                   m_fd' = [m_fd EXCEPT ![Client] = f], blocked' = blocked \cup {Client}
            PROVE  Moded'
        <4>1. NoWait(Client)' /\ \A p \in Objects : p # Client => SameWait(p)
          BY <3>2, <3>4 DEF NoWait, SameWait
        <4>2. TRUE = NoWait(Client)'
          BY <4>1 DEF NoWait
        <4> QED
          BY <2>0, <3>1, <3>2, <3>4, <4>1, <4>2, NewMatches DEF SetFd
      <3> QED
        BY <2>3, <3>3, <3>4 DEF ConnectBlock
    <2>4. CASE ConnectBlockEnds
      <3>1. /\ m_fd[Client] \in Fds /\ m_fd[Client] # NoFd /\ m_mode[Client] = "synchronous"
            /\ blocked' = blocked \ {Client}
        BY <2>0, <2>4 DEF ConnectBlockEnds, BlockedHold, WaitingConnect, TypeOK
      <3>2. WaitingConnect'
        BY <3>1 DEF WaitingConnect
      <3>3. CASE /\ HandOver(m_fd[Client]) /\ astray' = astray \ {m_fd[Client]}
                 /\ nonblock' = [nonblock EXCEPT ![m_fd[Client]] = FALSE]
        <4>1. /\ nonblock'[m_fd[Client]] = (m_mode[Client] = "asynchronous")
              /\ \A g \in Fds : g # m_fd[Client] =>
                   nonblock'[g] = nonblock[g] /\ (g \in astray' <=> g \in astray)
          BY <3>1, <3>3 DEF TypeOK
        <4>2. \A o \in Objects : m_fd[o] = m_fd[Client] => o = Client
          BY <2>0, <3>1 DEF OneOwner
        <4> QED
          BY <3>1, <3>2, <3>3, <4>1, <4>2, HandOverMatches
      <3>4. CASE astray' = astray \cup {m_fd[Client]} /\ UNCHANGED <<m_fd, m_mode, nonblock>>
        <4> SUFFICES ASSUME NEW p \in Objects, Compared(p)' PROVE Matches(p)'
          BY <3>2 DEF ModeMatchesFlag, Matches, Compared
        <4>1. p # Client /\ Compared(p)
          BY <3>4 DEF Compared
        <4>2. SameWait(p)
          BY <3>4, <4>1 DEF SameWait, NoWait
        <4> QED
          BY <3>4, <4>1, <4>2, Untouched
      <3>5. CASE CloseFd(Client) /\ UNCHANGED m_mode
        <4>1. \A p \in Objects : p # Client => SameWait(p)
          BY <3>5 DEF SameWait, NoWait
        <4> QED
          BY <2>0, <3>1, <3>2, <3>5, <4>1, CloseMatches
      <3> QED
        BY <2>4, <3>3, <3>4, <3>5 DEF ConnectBlockEnds, kernel
    <2>5. CASE ConnectNonBlockFirst
      <3>1. /\ UNCHANGED <<blocked, astray>> /\ m_fd[Client] = NoFd
            /\ m_mode[Client] = "asynchronous" /\ Client \notin blocked
        BY <2>5 DEF ConnectNonBlockFirst, Free
      <3>2. WaitingConnect'
        BY <3>1 DEF WaitingConnect
      <3>3. CASE UNCHANGED <<m_fd, m_mode, nonblock>>
        BY <3>1, <3>2, <3>3 DEF ModeMatchesFlag, NoWait
      <3>4. ASSUME NEW f \in Fds, NewFd(f), SetFd(f, "connecting", TRUE, 0),
                   m_fd' = [m_fd EXCEPT ![Client] = f], UNCHANGED m_mode
            PROVE  Moded'
        <4>1. TRUE = NoWait(Client)' /\ \A p \in Objects : SameWait(p)
          BY <3>1, <3>4 DEF NoWait, SameWait
        <4> QED
          BY <2>0, <3>1, <3>2, <3>4, <4>1, NewMatches DEF SetFd
      <3>5. ASSUME NEW f \in Fds, NEW l \in Links, NewFd(f), SetFd(f, "ready", TRUE, l), HandOver(f)
            PROVE  Moded'
        <4>1. /\ nonblock'[f] = (m_mode[Client] = "asynchronous")
              /\ \A g \in Fds : g # f => nonblock'[g] = nonblock[g] /\ (g \in astray' <=> g \in astray)
          BY <3>1, <3>5 DEF SetFd, TypeOK
        <4>2. \A o \in Objects : m_fd[o] # f
          BY <3>5, FdsAssumption DEF NewFd, OneOwner
        <4> QED
          BY <3>1, <3>2, <3>5, <4>1, <4>2, HandOverMatches
      <3> QED
        BY <2>5, <3>3, <3>4, <3>5 DEF ConnectNonBlockFirst, kernel
    <2>6. CASE ConnectNonBlockAgain
      <3>1. /\ UNCHANGED blocked /\ Client \notin blocked
            /\ m_fd[Client] \in Fds /\ m_fd[Client] # NoFd
        BY <2>0, <2>6 DEF ConnectNonBlockAgain, Free, TypeOK
      <3>2. WaitingConnect'
        BY <3>1 DEF WaitingConnect
      <3>3. CASE HandOver(m_fd[Client]) /\ UNCHANGED <<nonblock, astray>>
        <4>1. m_fd[Client] \in astray' \/ nonblock'[m_fd[Client]] = (m_mode[Client] = "asynchronous")
          BY <2>0, <3>1, <3>3 DEF ModeMatchesFlag, NoWait
        <4>2. \A o \in Objects : m_fd[o] = m_fd[Client] => o = Client
          BY <2>0, <3>1 DEF OneOwner
        <4> QED
          BY <3>1, <3>2, <3>3, <4>1, <4>2, HandOverMatches
      <3>4. CASE CloseFd(Client) /\ UNCHANGED m_mode
        <4>1. \A p \in Objects : SameWait(p)
          BY <3>1, <3>4 DEF SameWait, NoWait
        <4> QED
          BY <2>0, <3>1, <3>2, <3>4, <4>1, CloseMatches
      <3> QED
        BY <2>6, <3>3, <3>4 DEF ConnectNonBlockAgain, kernel
    <2>7. CASE ListenBlock
      <3>1. /\ WaitingConnect' /\ UNCHANGED <<m_mode, astray>>
            /\ m_mode[Server] = "synchronous" /\ (Client \in blocked' <=> Client \in blocked)
        BY <2>0, <2>7 DEF ListenBlock, WaitingConnect, hist
      <3>2. \A p \in Objects : SameWait(p)
        BY <3>1 DEF SameWait, NoWait
      <3>3. ASSUME NEW f \in Fds, NewFd(f), SetFd(f, "listening", FALSE, 0),
                   m_fd' = [m_fd EXCEPT ![Server] = f]
            PROVE  Moded'
        <4>1. FALSE = NoWait(Server)'
          BY <2>0, <3>1 DEF NoWait
        <4> QED
          BY <2>0, <3>1, <3>2, <3>3, <4>1, NewMatches DEF SetFd
      <3>4. CASE UNCHANGED <<m_fd, nonblock>>
        <4> SUFFICES ASSUME NEW p \in Objects, Compared(p)' PROVE Matches(p)'
          BY <3>1 DEF ModeMatchesFlag, Matches, Compared
        <4>1. Compared(p)
          BY <3>1, <3>4 DEF Compared
        <4> QED
          BY <3>2, <3>4, <4>1, Untouched
      <3> QED
        BY <2>7, <3>3, <3>4 DEF ListenBlock, ListenOpens
    <2>8. CASE ListenBlockEnds
      <3>1. (Client \in blocked' <=> Client \in blocked) /\ m_fd[Server] # NoFd
        BY <2>0, <2>8 DEF ListenBlockEnds, BlockedHold
      <3>2. CASE Accept
        <4>1. WaitingConnect'
          BY <2>0, <3>1, <3>2, ObjectsAssumption DEF Accept, WaitingConnect, Conns, TypeOK
        <4> QED
          BY <3>1, <3>2, <4>1, AcceptMatches
      <3>3. CASE CloseFd(Server) /\ UNCHANGED m_mode
        <4>1. WaitingConnect' /\ \A p \in Objects : SameWait(p)
          BY <3>1, <3>3 DEF WaitingConnect, SameWait, NoWait
        <4> QED
          BY <2>0, <3>1, <3>3, <4>1, CloseMatches
      <3> QED
        BY <2>8, <3>2, <3>3 DEF ListenBlockEnds, AcceptFails
    <2>9. CASE ListenNonBlock
      <3>1. m_mode[Server] = "asynchronous"
        BY <2>9 DEF ListenNonBlock
      <3>2. ASSUME NEW f \in Fds, NewFd(f), SetFd(f, "listening", TRUE, 0),
                   m_fd' = [m_fd EXCEPT ![Server] = f], UNCHANGED <<m_mode, blocked, astray>>
            PROVE  Moded'
        <4>1. WaitingConnect' /\ TRUE = NoWait(Server)' /\ \A p \in Objects : SameWait(p)
          BY <3>1, <3>2 DEF WaitingConnect, NoWait, SameWait
        <4> QED
          BY <2>0, <3>2, <4>1, NewMatches DEF SetFd
      <3>3. CASE Accept /\ UNCHANGED blocked
        <4>1. WaitingConnect'
          BY <2>0, <3>3, ObjectsAssumption DEF Accept, WaitingConnect, Conns, TypeOK
        <4> QED
          BY <3>3, <4>1, AcceptMatches
      <3>4. CASE m_fd[Server] # NoFd /\ CloseFd(Server) /\ UNCHANGED <<m_mode, blocked>>
        <4>1. WaitingConnect' /\ \A p \in Objects : SameWait(p)
          BY <3>4 DEF WaitingConnect, SameWait, NoWait
        <4> QED
          BY <2>0, <3>4, <4>1, CloseMatches
      <3>5. CASE blocked' = blocked \cup {Server} /\ UNCHANGED <<m_fd, m_mode, nonblock, astray>>
        BY <2>0, <3>5 DEF WaitingConnect, ModeMatchesFlag, NoWait
      <3> QED
        BY <2>9, <3>2, <3>3, <3>4, <3>5 DEF ListenNonBlock, ListenOpens, AcceptFails, kernel
    <2>10. ASSUME NEW c \in CConns, NEW n \in 1 .. MaxBytes, WriteCall(c, n) PROVE Moded'
      BY <2>0, <2>10 DEF WriteCall, WaitingConnect, ModeMatchesFlag, NoWait, kernel, hist, Conns
    <2>11. ASSUME NEW c \in CConns, WriteRound(c) PROVE Moded'
      BY <2>11 DEF WriteRound, WaitingConnect, ModeMatchesFlag, NoWait, object, hist
    <2>12. ASSUME NEW c \in CConns, WriteEnds(c) PROVE Moded'
      BY <2>0, <2>12 DEF WriteEnds, WaitingConnect, ModeMatchesFlag, NoWait, kernel, hist, Conns
    <2>13. ASSUME NEW c \in SConns, ReadData(c) PROVE Moded'
      BY <2>13 DEF ReadData, WaitingConnect, ModeMatchesFlag, NoWait, object
    <2>14. ASSUME NEW f \in Fds, KernelConnect(f) PROVE Moded'
      <3>1. UNCHANGED nonblock
        BY <2>14 DEF KernelConnect, SetFd, TypeOK
      <3> QED
        BY <2>14, <3>1 DEF KernelConnect, WaitingConnect, ModeMatchesFlag, NoWait, object, hist
    <2>15. CASE UNCHANGED vars
      BY <2>15 DEF vars, object, kernel, hist, WaitingConnect, ModeMatchesFlag, NoWait
    <2> QED
      BY <2>1, <2>2, <2>3, <2>4, <2>5, <2>6, <2>7, <2>8, <2>9, <2>10, <2>11, <2>12, <2>13,
         <2>14, <2>15 DEF Next
  <1>3. Moded => ModeMatchesFlag
    BY DEF Moded
  <1> QED
    BY <1>1, <1>2, <1>3, TypeCorrect, OwnersCorrect, PTL DEF Spec

-----------------------------------------------------------------------------
(* What the descriptor of each object is: connect() hands over connected    *)
(* ones only, and accept() makes the others.                                *)
KindOf(o) == IF o = Client THEN {"connecting", "ready", "broken"}
             ELSE IF o = Server THEN {"listening"}
             ELSE IF o \in CConns THEN {"ready"} ELSE {"accepted"}
Kinds == \A o \in Objects : m_fd[o] # NoFd => sock[m_fd[o]] \in KindOf(o)

(* The ends of a connection, and only they, know it; connect() made one.    *)
Ends == /\ \A f \in Fds : sock[f] \in {"ready", "accepted"} <=> link[f] # 0
        /\ \A f, g \in Fds : sock[f] = "ready" /\ sock[g] = "ready" /\ link[f] = link[g] => f = g

Shape == Kinds /\ Ends

LEMMA CloseShape ==
  ASSUME TypeOK, OneOwner, Shape, NEW o \in Objects, m_fd[o] # NoFd, CloseFd(o)
  PROVE  Shape'
  <1>1. m_fd[o] \in Fds
    BY DEF TypeOK
  <1>2. \A f \in Fds : /\ sock'[f] = IF f = m_fd[o] THEN "free" ELSE sock[f]
                       /\ link'[f] = IF f = m_fd[o] THEN 0 ELSE link[f]
    BY DEF CloseFd, FreeFds, TypeOK
  <1>3. Kinds'
    <2> SUFFICES ASSUME NEW p \in Objects, m_fd'[p] # NoFd PROVE sock'[m_fd'[p]] \in KindOf(p)
      BY DEF Kinds
    <2>1. p # o /\ m_fd'[p] = m_fd[p]
      BY DEF CloseFd, TypeOK
    <2>2. m_fd[p] # m_fd[o] /\ m_fd[p] \in Fds
      BY <2>1 DEF OneOwner, TypeOK
    <2> QED
      BY <1>2, <2>1, <2>2 DEF Shape, Kinds
  <1>4. Ends'
    BY <1>1, <1>2 DEF Shape, Ends
  <1> QED
    BY <1>3, <1>4 DEF Shape

LEMMA NewShape ==
  ASSUME TypeOK, OneOwner, Shape, NEW o \in Objects, NEW f \in Fds, NewFd(f),
         m_fd' = [m_fd EXCEPT ![o] = f], NEW state \in KindOf(o), NEW nb, NEW l,
         SetFd(f, state, nb, l), state # "ready", state = "accepted" <=> l # 0
  PROVE  Shape'
  <1>1. \A g \in Fds : /\ sock'[g] = IF g = f THEN state ELSE sock[g]
                       /\ link'[g] = IF g = f THEN l ELSE link[g]
    BY DEF SetFd, TypeOK
  <1>2. Kinds'
    <2> SUFFICES ASSUME NEW p \in Objects, m_fd'[p] # NoFd PROVE sock'[m_fd'[p]] \in KindOf(p)
      BY DEF Kinds
    <2>1. CASE p = o
      BY <1>1, <2>1 DEF TypeOK
    <2>2. CASE p # o
      <3>1. m_fd'[p] = m_fd[p] /\ m_fd[p] \in Fds /\ m_fd[p] # f
        BY <2>2 DEF TypeOK, OneOwner, NewFd
      <3> QED
        BY <1>1, <3>1 DEF Shape, Kinds
    <2> QED
      BY <2>1, <2>2
  <1>3. Ends'
    BY <1>1 DEF Shape, Ends
  <1> QED
    BY <1>2, <1>3 DEF Shape

LEMMA HandOverShape ==
  ASSUME TypeOK, OneOwner, Shape, NEW f \in Fds, HandOver(f), sock'[f] = "ready", link'[f] # 0,
         \A o \in Objects : m_fd[o] = f => o = Client,
         \A g \in Fds : g # f => sock'[g] = sock[g] /\ link'[g] = link[g],
         \A g \in Fds : g # f /\ sock[g] = "ready" => link[g] # link'[f]
  PROVE  Shape'
  <1>1. PICK c \in CConns :
          /\ c \in Objects /\ c # Client
          /\ \A o \in Objects : m_fd'[o] = IF o = c THEN f ELSE IF o = Client THEN NoFd ELSE m_fd[o]
    BY HandOverIs
  <1>2. Kinds'
    <2> SUFFICES ASSUME NEW p \in Objects, m_fd'[p] # NoFd PROVE sock'[m_fd'[p]] \in KindOf(p)
      BY DEF Kinds
    <2>1. CASE p = c
      <3>1. c # Server
        BY ObjectsAssumption DEF Conns
      <3> QED
        BY <1>1, <2>1, <3>1 DEF KindOf
    <2>2. CASE p # c
      <3>1. m_fd'[p] = m_fd[p] /\ m_fd[p] \in Fds /\ m_fd[p] # f
        BY <1>1, <2>2 DEF TypeOK
      <3> QED
        BY <3>1 DEF Shape, Kinds
    <2> QED
      BY <2>1, <2>2
  <1>3. Ends'
    BY DEF Shape, Ends
  <1> QED
    BY <1>2, <1>3 DEF Shape

LEMMA AcceptShape ==
  ASSUME TypeOK, OneOwner, Shape, Accept
  PROVE  Shape'
  <1>1. PICK c \in SConns, f \in Fds :
          NewFd(f) /\ m_fd' = [m_fd EXCEPT ![c] = f] /\ SetFd(f, "accepted", FALSE, Head(backlog))
    BY DEF Accept
  <1>2. Head(backlog) # 0
    BY HeadTailProperties, BoundsAssumption DEF Accept, TypeOK, Links
  <1>3. c \in Objects /\ "accepted" \in KindOf(c)
    BY ObjectsAssumption DEF Objects, Conns, KindOf
  <1> QED
    BY <1>1, <1>2, <1>3, NewShape

LEMMA ListenOpensShape ==
  ASSUME TypeOK, OneOwner, Shape, NEW nb, ListenOpens(nb)
  PROVE  Shape'
  <1>1. PICK f \in Fds : NewFd(f) /\ m_fd' = [m_fd EXCEPT ![Server] = f] /\ SetFd(f, "listening", nb, 0)
    BY DEF ListenOpens
  <1>2. Server \in Objects /\ "listening" \in KindOf(Server)
    BY ObjectsAssumption DEF Objects, KindOf
  <1> QED
    BY <1>1, <1>2, NewShape

(* An object holds a descriptor of its kind only, and no two connections of *)
(* the client share one of the kernel's.                                    *)
THEOREM ShapeCorrect == Spec => []Shape
  <1>1. Init => Shape
    BY BoundsAssumption DEF Init, Shape, Kinds, Ends
  <1>2. TypeOK /\ Owned /\ Shape /\ [Next]_vars => Shape'
    <2> SUFFICES ASSUME TypeOK, Owned, Shape, [Next]_vars PROVE Shape'
      OBVIOUS
    <2> USE DEF Owned
    <2>0. Client \in Objects /\ Server \in Objects /\ Client # Server
      BY ObjectsAssumption DEF Objects
    <2>1. ASSUME NEW o \in Objects, Close(o) PROVE Shape'
      BY <2>1, CloseShape DEF Close
    <2>2. ASSUME NEW o \in Objects, NEW mode \in {"synchronous", "asynchronous"}, SetMode(o, mode)
          PROVE  Shape'
      BY <2>2 DEF SetMode, Shape, Kinds, Ends
    <2>3. CASE ConnectBlock
      <3>1. CASE m_fd' = [m_fd EXCEPT ![Client] = NoFd] /\ UNCHANGED <<sock, link>>
        BY <3>1 DEF Shape, Kinds, Ends, TypeOK
      <3>2. ASSUME NEW f \in Fds, NewFd(f), SetFd(f, "connecting", TRUE, 0),
                   m_fd' = [m_fd EXCEPT ![Client] = f]
            PROVE  Shape'
        BY <2>0, <3>2, NewShape DEF KindOf
      <3> QED
        BY <2>3, <3>1, <3>2 DEF ConnectBlock
    <2>4. CASE ConnectBlockEnds
      <3>1. m_fd[Client] \in Fds /\ m_fd[Client] # NoFd
        BY <2>0, <2>4 DEF ConnectBlockEnds, BlockedHold, TypeOK
      <3>2. CASE sock[m_fd[Client]] = "ready" /\ HandOver(m_fd[Client]) /\ UNCHANGED <<sock, link>>
        <4>1. link[m_fd[Client]] # 0
          BY <3>1, <3>2 DEF Shape, Ends
        <4>2. \A g \in Fds : g # m_fd[Client] /\ sock[g] = "ready" => link[g] # link[m_fd[Client]]
          BY <3>1, <3>2 DEF Shape, Ends
        <4>3. \A o \in Objects : m_fd[o] = m_fd[Client] => o = Client
          BY <2>0, <3>1 DEF OneOwner
        <4> QED
          BY <3>1, <3>2, <4>1, <4>2, <4>3, HandOverShape
      <3>3. CASE UNCHANGED <<m_fd, sock, link>>
        BY <3>3 DEF Shape, Kinds, Ends
      <3>4. CASE CloseFd(Client)
        BY <2>0, <3>1, <3>4, CloseShape
      <3> QED
        BY <2>4, <3>2, <3>3, <3>4 DEF ConnectBlockEnds, kernel
    <2>5. CASE ConnectNonBlockFirst
      <3>1. CASE UNCHANGED <<m_fd, sock, link>>
        BY <3>1 DEF Shape, Kinds, Ends
      <3>2. ASSUME NEW f \in Fds, NewFd(f), SetFd(f, "connecting", TRUE, 0),
                   m_fd' = [m_fd EXCEPT ![Client] = f]
            PROVE  Shape'
        BY <2>0, <3>2, NewShape DEF KindOf
      <3>3. ASSUME NEW f \in Fds, NEW l \in Links, NewFd(f), Handshake(l),
                   SetFd(f, "ready", TRUE, l), HandOver(f)
            PROVE  Shape'
        <4>1. /\ sock'[f] = "ready" /\ link'[f] = l /\ l # 0
              /\ \A g \in Fds : g # f => sock'[g] = sock[g] /\ link'[g] = link[g]
          BY <3>3, BoundsAssumption DEF SetFd, Links, TypeOK
        <4>2. \A g \in Fds : link[g] # l
          BY <3>3 DEF Handshake, Unused
        <4>3. \A o \in Objects : m_fd[o] # f
          BY <3>3, FdsAssumption DEF NewFd, OneOwner
        <4> QED
          BY <3>3, <4>1, <4>2, <4>3, HandOverShape
      <3> QED
        BY <2>5, <3>1, <3>2, <3>3 DEF ConnectNonBlockFirst, kernel
    <2>6. CASE ConnectNonBlockAgain
      <3>1. m_fd[Client] \in Fds /\ m_fd[Client] # NoFd
        BY <2>0, <2>6 DEF ConnectNonBlockAgain, TypeOK
      <3>2. CASE sock[m_fd[Client]] = "ready" /\ HandOver(m_fd[Client]) /\ UNCHANGED <<sock, link>>
        <4>1. link[m_fd[Client]] # 0
          BY <3>1, <3>2 DEF Shape, Ends
        <4>2. \A g \in Fds : g # m_fd[Client] /\ sock[g] = "ready" => link[g] # link[m_fd[Client]]
          BY <3>1, <3>2 DEF Shape, Ends
        <4>3. \A o \in Objects : m_fd[o] = m_fd[Client] => o = Client
          BY <2>0, <3>1 DEF OneOwner
        <4> QED
          BY <3>1, <3>2, <4>1, <4>2, <4>3, HandOverShape
      <3>3. CASE CloseFd(Client)
        BY <2>0, <3>1, <3>3, CloseShape
      <3> QED
        BY <2>6, <3>2, <3>3 DEF ConnectNonBlockAgain, kernel
    <2>7. CASE ListenBlock
      <3>1. CASE UNCHANGED <<m_fd, sock, link>>
        BY <3>1 DEF Shape, Kinds, Ends
      <3> QED
        BY <2>7, <3>1, ListenOpensShape DEF ListenBlock
    <2>8. CASE ListenBlockEnds
      <3>1. m_fd[Server] # NoFd
        BY <2>8 DEF ListenBlockEnds, BlockedHold
      <3> QED
        BY <2>0, <2>8, <3>1, AcceptShape, CloseShape DEF ListenBlockEnds, AcceptFails
    <2>9. CASE ListenNonBlock
      <3>1. CASE UNCHANGED <<m_fd, sock, link>>
        BY <3>1 DEF Shape, Kinds, Ends
      <3> QED
        BY <2>0, <2>9, <3>1, ListenOpensShape, AcceptShape, CloseShape
           DEF ListenNonBlock, AcceptFails, kernel
    <2>10. ASSUME NEW c \in CConns, NEW n \in 1 .. MaxBytes, WriteCall(c, n) PROVE Shape'
      BY <2>10 DEF WriteCall, Shape, Kinds, Ends, kernel
    <2>11. ASSUME NEW c \in CConns, WriteRound(c) PROVE Shape'
      BY <2>11 DEF WriteRound, Shape, Kinds, Ends, object
    <2>12. ASSUME NEW c \in CConns, WriteEnds(c) PROVE Shape'
      BY <2>12 DEF WriteEnds, Shape, Kinds, Ends, kernel
    <2>13. ASSUME NEW c \in SConns, ReadData(c) PROVE Shape'
      BY <2>13 DEF ReadData, Shape, Kinds, Ends, object
    <2>14. ASSUME NEW f \in Fds, KernelConnect(f) PROVE Shape'
      <3>1. UNCHANGED m_fd /\ sock[f] = "connecting"
        BY <2>14 DEF KernelConnect, object
      <3>2. ASSUME NEW o \in Objects, m_fd[o] = f PROVE o = Client
        <4>1. f # NoFd
          BY FdsAssumption
        <4> QED
          BY <3>1, <3>2, <4>1 DEF Shape, Kinds, KindOf
      <3>3. CASE SetFd(f, "broken", nonblock[f], 0)
        <4>1. \A g \in Fds : /\ sock'[g] = IF g = f THEN "broken" ELSE sock[g]
                             /\ link'[g] = IF g = f THEN 0 ELSE link[g]
          BY <3>3 DEF SetFd, TypeOK
        <4>2. Kinds'
          BY <3>1, <3>2, <4>1 DEF Shape, Kinds, KindOf, TypeOK
        <4>3. Ends'
          BY <4>1 DEF Shape, Ends
        <4> QED
          BY <4>2, <4>3 DEF Shape
      <3>4. ASSUME NEW l \in Links, Handshake(l), SetFd(f, "ready", nonblock[f], l) PROVE Shape'
        <4>1. \A g \in Fds : /\ sock'[g] = IF g = f THEN "ready" ELSE sock[g]
                             /\ link'[g] = IF g = f THEN l ELSE link[g]
          BY <3>4 DEF SetFd, TypeOK
        <4>2. Kinds'
          BY <3>1, <3>2, <4>1 DEF Shape, Kinds, KindOf, TypeOK
        <4>3. l # 0 /\ \A g \in Fds : link[g] # l
          BY <3>4, BoundsAssumption DEF Handshake, Unused, Links
        <4>4. Ends'
          BY <4>1, <4>3 DEF Shape, Ends
        <4> QED
          BY <4>2, <4>4 DEF Shape
      <3> QED
        BY <2>14, <3>3, <3>4 DEF KernelConnect
    <2>15. CASE UNCHANGED vars
      BY <2>15 DEF vars, object, kernel, Shape, Kinds, Ends
    <2> QED
      BY <2>1, <2>2, <2>3, <2>4, <2>5, <2>6, <2>7, <2>8, <2>9, <2>10, <2>11, <2>12, <2>13,
         <2>14, <2>15 DEF Next
  <1> QED
    BY <1>1, <1>2, TypeCorrect, OwnersCorrect, PTL DEF Spec

-----------------------------------------------------------------------------
(* Sequences that count 1, 2, ...                                           *)
Counts(s) == s = [i \in 1 .. Len(s) |-> i]

LEMMA CountsExtend ==
  ASSUME NEW s \in Seq(Nat), Counts(s), NEW k \in Nat
  PROVE  LET t == s \o [i \in 1 .. k |-> Len(s) + 1 + i - 1]
         IN Counts(t) /\ Len(t) = Len(s) + k
  <1> DEFINE e == [i \in 1 .. k |-> Len(s) + 1 + i - 1]
  <1>1. e \in Seq(Nat) /\ Len(e) = k
    BY LenProperties
  <1>2. Len(s \o e) = Len(s) + k /\ s \o e \in Seq(Nat)
    BY <1>1, ConcatProperties
  <1>3. ASSUME NEW i \in 1 .. Len(s) + k PROVE (s \o e)[i] = i
    <2>1. CASE i <= Len(s)
      BY <1>1, <2>1, ConcatProperties DEF Counts
    <2>2. CASE i > Len(s)
      BY <1>1, <2>2, ConcatProperties
    <2> QED
      BY <2>1, <2>2
  <1> QED
    BY <1>2, <1>3 DEF Counts

LEMMA Joined ==
  ASSUME NEW g \in Seq(Nat), NEW a \in Seq(Nat), NEW b \in Seq(Nat)
  PROVE  (g \o a) \o b = g \o (a \o b)
  <1> DEFINE x == (g \o a) \o b
             y == g \o (a \o b)
  <1>1. Len(g) \in Nat /\ Len(a) \in Nat /\ Len(b) \in Nat
    OBVIOUS
  <1>2. /\ g \o a \in Seq(Nat) /\ Len(g \o a) = Len(g) + Len(a)
        /\ a \o b \in Seq(Nat) /\ Len(a \o b) = Len(a) + Len(b)
    BY ConcatProperties
  <1>3. x \in Seq(Nat) /\ y \in Seq(Nat) /\ Len(x) = Len(y) /\ Len(x) = Len(g) + Len(a) + Len(b)
    BY <1>1, <1>2, ConcatProperties
  <1>4. ASSUME NEW i \in 1 .. Len(x) PROVE x[i] = y[i]
    <2>1. CASE i <= Len(g)
      BY <1>1, <1>2, <1>3, <2>1, ConcatProperties
    <2>2. CASE i > Len(g) /\ i <= Len(g) + Len(a)
      BY <1>1, <1>2, <1>3, <2>2, ConcatProperties
    <2>3. CASE i > Len(g) + Len(a)
      BY <1>1, <1>2, <1>3, <2>3, ConcatProperties
    <2> QED
      BY <1>1, <1>3, <2>1, <2>2, <2>3
  <1> QED
    BY <1>3, <1>4, SeqEqual

(* Bytes that move from the pipe to the reader.                             *)
LEMMA CutJoin ==
  ASSUME NEW g \in Seq(Nat), NEW q \in Seq(Nat), NEW k \in 1 .. Len(q)
  PROVE  LET read == g \o SubSeq(q, 1, k)
             rest == SubSeq(q, k + 1, Len(q))
         IN /\ read \o rest = g \o q
            /\ Len(read) + Len(rest) = Len(g) + Len(q)
  <1> DEFINE a == SubSeq(q, 1, k)
             b == SubSeq(q, k + 1, Len(q))
  <1>1. a \in Seq(Nat) /\ b \in Seq(Nat)
    BY CutType
  <1>2. Len(a) = k /\ Len(b) = Len(q) - k
    BY SubSeqProperties
  <1>3. a \o b = q
    BY ConcatAdjacentSubSeq, SubSeqFull, LenProperties
  <1>4. (g \o a) \o b = g \o (a \o b)
    BY <1>1, Joined
  <1>5. Len(g \o a) = Len(g) + k
    BY <1>1, <1>2, ConcatProperties
  <1> HIDE DEF a, b
  <1>6. Len(g \o a) + Len(b) = Len(g) + Len(q)
    <2>1. Len(g) \in Nat /\ Len(q) \in Nat /\ k \in Nat
      OBVIOUS
    <2> QED
      BY <1>2, <1>5, <2>1
  <1>7. (g \o a) \o b = g \o q
    BY <1>3, <1>4
  <1> QED
    BY <1>6, <1>7 DEF a, b

-----------------------------------------------------------------------------
(* A connection of the kernel's that nobody uses, or that no object has     *)
(* taken over, has carried nothing.                                         *)
NoBytes(l) == pipe[l] = <<>> /\ got[l] = <<>>
Fresh      == \A l \in Links : Unused(l) => NoBytes(l)
FreshReady == m_fd[Client] # NoFd /\ sock[m_fd[Client]] = "ready" => NoBytes(link[m_fd[Client]])

(* write_data() sends from where its caller stands.                         *)
Writers ==
  \A c \in CConns : /\ m_fd[c] = NoFd => done[c] = 0
                    /\ c \in blocked => w[c].src = done[c] + w[c].actual + 1
                    /\ c \notin blocked => w[c] = Idle

(* The two parts of StreamIntact.                                           *)
Ordered == \A l \in Links : Counts(got[l] \o pipe[l])
Sent(l) == Len(got[l]) + Len(pipe[l])
Told == \A c \in CConns : m_fd[c] # NoFd => done[c] + w[c].actual = Sent(link[m_fd[c]])

Streams == Fresh /\ FreshReady /\ Writers /\ Ordered /\ Told

LEMMA StreamsTell ==
  ASSUME TypeOK, Streams
  PROVE  StreamIntact
  <1>1. ASSUME NEW l \in Links
        PROVE  LET s == got[l] \o pipe[l] IN s = [i \in 1 .. Len(s) |-> i]
    BY DEF Streams, Ordered, Counts
  <1> QED
    BY <1>1 DEF Streams, Told, Sent, StreamIntact

(* A descriptor in use for bytes is an end of one of the kernel's links.    *)
LEMMA LinkInUse ==
  ASSUME TypeOK, Shape, NEW f \in Fds, sock[f] \in {"ready", "accepted"}
  PROVE  link[f] \in Links
  BY DEF TypeOK, Shape, Ends

(* A connection of the client holds a connected descriptor.                 *)
LEMMA WriterLink ==
  ASSUME TypeOK, Shape, NEW c \in CConns, m_fd[c] # NoFd
  PROVE  /\ m_fd[c] \in Fds /\ sock[m_fd[c]] = "ready" /\ link[m_fd[c]] \in Links
  <1>1. c \in Objects /\ c # Client /\ c # Server
    BY ObjectsAssumption DEF Objects, Conns
  <1>2. m_fd[c] \in Fds /\ sock[m_fd[c]] = "ready"
    BY <1>1 DEF TypeOK, Shape, Kinds, KindOf
  <1> QED
    BY <1>2, LinkInUse

(* Two of them never write to one link.                                     *)
LEMMA WritersApart ==
  ASSUME TypeOK, OneOwner, Shape, NEW c \in CConns, NEW d \in CConns, c # d,
         m_fd[c] # NoFd, m_fd[d] # NoFd
  PROVE  link[m_fd[c]] # link[m_fd[d]]
  <1>1. c \in Objects /\ d \in Objects
    BY DEF Objects, Conns
  <1>2. m_fd[c] # m_fd[d]
    BY <1>1 DEF OneOwner
  <1> QED
    BY <1>2, WriterLink DEF Shape, Ends

(* What close() leaves of the links: those with an end or in the queue      *)
(* keep their bytes, the others have none.                                  *)
LEMMA CloseLinks ==
  ASSUME TypeOK, NEW o \in Objects, m_fd[o] # NoFd, CloseFd(o)
  PROVE  /\ \A f \in Fds : link'[f] = IF f = m_fd[o] THEN 0 ELSE link[f]
         /\ \A l \in Links : NoBytes(l)' \/ (pipe'[l] = pipe[l] /\ got'[l] = got[l])
         /\ \A f \in Fds : link'[f] \in Links
              => pipe'[link'[f]] = pipe[link'[f]] /\ got'[link'[f]] = got[link'[f]]
         /\ \A l \in Links : Unused(l)' => NoBytes(l)'
  <1> DEFINE ends == [f \in Fds |-> IF f \in {m_fd[o]} THEN 0 ELSE link[f]]
             alive == { ends[f] : f \in Fds } \cup { backlog'[i] : i \in 1 .. Len(backlog') }
  <1>1. /\ link' = ends
        /\ pipe' = [l \in Links |-> IF l \in alive THEN pipe[l] ELSE <<>>]
        /\ got' = [l \in Links |-> IF l \in alive THEN got[l] ELSE <<>>]
    BY DEF CloseFd, FreeFds
  <1>2. ASSUME NEW l \in Links, Unused(l)' PROVE l \notin alive
    BY <1>1, <1>2 DEF Unused, Queued
  <1>3. \A l \in Links : l \notin alive => NoBytes(l)'
    BY <1>1 DEF NoBytes
  <1>4. \A l \in Links : l \in alive => pipe'[l] = pipe[l] /\ got'[l] = got[l]
    BY <1>1
  <1>5. \A f \in Fds : link'[f] \in alive
    BY <1>1
  <1>6. \A f \in Fds : link'[f] = IF f = m_fd[o] THEN 0 ELSE link[f]
    BY <1>1
  <1> HIDE DEF alive, ends
  <1> QED
    BY <1>2, <1>3, <1>4, <1>5, <1>6

(* The handshake uses a link that carried nothing.                          *)
LEMMA HandshakeFresh ==
  ASSUME TypeOK, Fresh, NEW l \in Links, Handshake(l), UNCHANGED <<pipe, got>>,
         \A g \in Fds : link'[g] = link[g] \/ link[g] = 0
  PROVE  Fresh' /\ NoBytes(l)
  <1>1. backlog' = Append(backlog, l) /\ Unused(l)
    BY DEF Handshake
  <1>2. ASSUME NEW k \in Links, Unused(k)' PROVE Unused(k)
    <2>1. ~Queued(k)
      BY <1>1, <1>2, AppendProperties DEF TypeOK, Queued, Unused
    <2>2. \A g \in Fds : link[g] # k
      BY <1>2, BoundsAssumption DEF Unused, Links
    <2> QED
      BY <2>1, <2>2 DEF Unused
  <1> QED
    BY <1>1, <1>2 DEF Fresh, NoBytes

(* accept() makes an end of a queued link, so that it stays in use.         *)
LEMMA AcceptFresh ==
  ASSUME TypeOK, Shape, Fresh, Accept
  PROVE  /\ Fresh'
         /\ \A f \in Fds : sock[f] # "free" => link'[f] = link[f] /\ sock'[f] = sock[f]
         /\ UNCHANGED <<pipe, got>>
  <1>1. PICK c \in SConns, f \in Fds :
          /\ NewFd(f) /\ SetFd(f, "accepted", FALSE, Head(backlog)) /\ backlog' = Tail(backlog)
          /\ backlog # <<>> /\ UNCHANGED <<pipe, got>>
    BY DEF Accept
  <1>2. sock[f] = "free" /\ link[f] = 0
    BY <1>1 DEF NewFd, Shape, Ends
  <1>3. \A g \in Fds : link'[g] = IF g = f THEN Head(backlog) ELSE link[g]
    BY <1>1 DEF SetFd, TypeOK
  <1>4. ASSUME NEW k \in Links, Unused(k)' PROVE Unused(k)
    <2>1. \A g \in Fds : link[g] # k
      BY <1>2, <1>3, <1>4, BoundsAssumption DEF Unused, Links
    <2>2. ASSUME NEW i \in 1 .. Len(backlog) PROVE backlog[i] # k
      <3>1. CASE i = 1
        <4>1. backlog[i] = Head(backlog)
          BY <1>1, <3>1 DEF TypeOK
        <4>2. link'[f] # k /\ link'[f] = Head(backlog)
          BY <1>3, <1>4 DEF Unused
        <4> QED
          BY <4>1, <4>2
      <3>2. CASE i # 1
        <4>1. i - 1 \in 1 .. Len(backlog') /\ backlog'[i - 1] = backlog[i]
          BY <1>1, <3>2, HeadTailProperties DEF TypeOK
        <4> QED
          BY <1>4, <4>1 DEF Unused, Queued
      <3> QED
        BY <3>1, <3>2
    <2> QED
      BY <2>1, <2>2 DEF Unused, Queued
  <1>5. \A g \in Fds : sock[g] # "free" => link'[g] = link[g] /\ sock'[g] = sock[g]
    BY <1>1, <1>2, <1>3 DEF SetFd, TypeOK
  <1> QED
    BY <1>1, <1>4, <1>5 DEF Fresh, NoBytes

(* close() ends the writers that used the descriptor and no other.          *)
LEMMA CloseStreams ==
  ASSUME TypeOK, OneOwner, Shape, Streams, NEW o \in Objects, m_fd[o] # NoFd, CloseFd(o),
         UNCHANGED w, \A c \in CConns : c \in blocked' <=> c \in blocked,
         o \in CConns => o \notin blocked,
         \A c \in CConns : done'[c] = IF c = o THEN 0 ELSE done[c]
  PROVE  Streams'
  <1>1. \A p \in Objects : m_fd'[p] = IF p = o THEN NoFd ELSE m_fd[p]
    BY DEF CloseFd, TypeOK
  <1>2. Fresh'
    BY CloseLinks DEF Fresh
  <1>3. Ordered'
    <2> SUFFICES ASSUME NEW l \in Links PROVE Counts(got'[l] \o pipe'[l])
      BY DEF Ordered
    <2>1. CASE NoBytes(l)'
      <3>1. got'[l] \o pipe'[l] = <<>>
        BY <2>1 DEF NoBytes
      <3> QED
        BY <3>1 DEF Counts
    <2>2. CASE pipe'[l] = pipe[l] /\ got'[l] = got[l]
      BY <2>2 DEF Streams, Ordered
    <2> QED
      BY <2>1, <2>2, CloseLinks
  <1>4. Writers'
    BY <1>1 DEF Streams, Writers, Objects, Conns
  <1>5. Told'
    <2> SUFFICES ASSUME NEW c \in CConns, m_fd'[c] # NoFd
                 PROVE  done'[c] + w'[c].actual = Sent(link[m_fd[c]])' /\ m_fd'[c] = m_fd[c]
      BY DEF Told
    <2>1. c # o /\ c \in Objects /\ m_fd'[c] = m_fd[c]
      BY <1>1 DEF Objects, Conns
    <2>2. m_fd[c] # m_fd[o]
      BY <2>1 DEF OneOwner
    <2>3. link'[m_fd[c]] = link[m_fd[c]] /\ link[m_fd[c]] \in Links
      BY <2>1, <2>2, WriterLink, CloseLinks
    <2>4. Sent(link[m_fd[c]])' = Sent(link[m_fd[c]])
      BY <2>1, <2>3, WriterLink, CloseLinks DEF Sent
    <2> QED
      BY <2>1, <2>4 DEF Streams, Told
  <1>6. FreshReady'
    <2> SUFFICES ASSUME m_fd'[Client] # NoFd, sock'[m_fd'[Client]] = "ready"
                 PROVE  NoBytes(link[m_fd[Client]])'
      BY DEF FreshReady
    <2>1. Client # o /\ Client \in Objects /\ m_fd'[Client] = m_fd[Client]
      BY <1>1 DEF Objects
    <2>2. m_fd[Client] # m_fd[o] /\ m_fd[Client] \in Fds
      BY <2>1 DEF OneOwner, TypeOK
    <2>3. sock[m_fd[Client]] = "ready"
      BY <2>1, <2>2 DEF CloseFd, FreeFds
    <2>4. link'[m_fd[Client]] = link[m_fd[Client]] /\ link[m_fd[Client]] \in Links
      BY <2>2, <2>3, LinkInUse, CloseLinks
    <2>5. NoBytes(link[m_fd[Client]])
      BY <2>1, <2>3 DEF Streams, FreshReady
    <2> QED
      BY <2>1, <2>2, <2>4, <2>5, CloseLinks DEF NoBytes
  <1> QED
    BY <1>2, <1>3, <1>4, <1>5, <1>6 DEF Streams

(* A new connection of the client has written nothing, and nothing was      *)
(* written to its link.                                                     *)
LEMMA HandOverStreams ==
  ASSUME TypeOK, OneOwner, Shape, Streams, NEW f \in Fds, HandOver(f), Fresh',
         link'[f] \in Links, NoBytes(link'[f]), UNCHANGED <<pipe, got>>,
         \A c \in CConns : c \in blocked' <=> c \in blocked,
         \A o \in Objects : m_fd[o] = f => o = Client,
         \A g \in Fds : g # f => link'[g] = link[g]
  PROVE  Streams'
  <1>1. PICK c \in CConns :
          /\ c \in Objects /\ c # Client /\ m_fd[c] = NoFd /\ c \notin blocked
          /\ \A o \in Objects : m_fd'[o] = IF o = c THEN f ELSE IF o = Client THEN NoFd ELSE m_fd[o]
    BY HandOverIs
  <1>2. UNCHANGED writes
    BY DEF HandOver, HandOverLeaving
  <1>3. \A d \in CConns : d \in Objects /\ d # Client
    BY ObjectsAssumption DEF Objects, Conns
  <1>4. Ordered'
    BY DEF Streams, Ordered
  <1>5. Writers'
    BY <1>1, <1>2, <1>3 DEF Streams, Writers, writes
  <1>6. Told'
    <2> SUFFICES ASSUME NEW d \in CConns, m_fd'[d] # NoFd
                 PROVE  done[d] + w[d].actual = Sent(link'[m_fd'[d]])
      BY <1>2 DEF Told, Sent, writes
    <2>1. CASE d = c
      <3>1. done[d] = 0 /\ w[d].actual = 0
        BY <1>1, <2>1 DEF Streams, Writers, Idle
      <3>2. m_fd'[d] = f
        BY <1>1, <2>1
      <3>3. Sent(link'[f]) = 0
        BY DEF Sent, NoBytes
      <3> QED
        BY <3>1, <3>2, <3>3
    <2>2. CASE d # c
      <3>1. m_fd'[d] = m_fd[d] /\ m_fd[d] # f /\ m_fd[d] \in Fds
        BY <1>1, <1>3, <2>2 DEF TypeOK
      <3> QED
        BY <3>1 DEF Streams, Told
    <2> QED
      BY <2>1, <2>2
  <1>7. FreshReady'
    BY <1>1 DEF FreshReady, Objects
  <1> QED
    BY <1>4, <1>5, <1>6, <1>7 DEF Streams

(* A step that leaves the links, the writers and what connect() waits for   *)
(* as they are.                                                             *)
LEMMA QuietStreams ==
  ASSUME TypeOK, Shape, Streams, UNCHANGED <<writes, link, backlog, pipe, got>>,
         \A c \in CConns : m_fd'[c] = m_fd[c] /\ (c \in blocked' <=> c \in blocked),
         \/ m_fd'[Client] = NoFd \/ sock'[m_fd'[Client]] # "ready"
         \/ m_fd'[Client] = m_fd[Client] /\ sock'[m_fd[Client]] = sock[m_fd[Client]]
  PROVE  Streams'
  <1>1. Fresh' /\ Ordered'
    BY DEF Streams, Fresh, Ordered, NoBytes, Unused, Queued
  <1>2. Writers' /\ Told'
    BY DEF Streams, Writers, Told, Sent, writes
  <1>3. FreshReady'
    BY DEF Streams, FreshReady, NoBytes
  <1> QED
    BY <1>1, <1>2, <1>3 DEF Streams

(* A write() puts the next bytes of its caller behind those under way.      *)
LEMMA WriteStreams ==
  ASSUME TypeOK, OneOwner, BlockedHold, Shape, Streams, NEW c \in CConns, WriteRound(c)
  PROVE  Streams'
  <1> DEFINE l == link[m_fd[c]]
  <1>1. c \in blocked /\ m_fd[c] # NoFd /\ UNCHANGED <<object, done, sock, link, backlog, got>>
    BY DEF WriteRound, BlockedHold, hist
  <1>2. l \in Links /\ m_fd[c] \in Fds /\ sock[m_fd[c]] = "ready"
    BY <1>1, WriterLink
  <1>3. PICK k \in 1 .. w[c].left :
          /\ pipe' = [pipe EXCEPT ![l] = @ \o [i \in 1 .. k |-> w[c].src + i - 1]]
          /\ w' = [w EXCEPT ![c] = [src |-> @.src + k, left |-> @.left - k, actual |-> @.actual + k]]
    BY DEF WriteRound
  <1>4. /\ w[c] \in [src : Nat, left : Nat, actual : Nat] /\ k \in Nat /\ done[c] \in Nat
        /\ pipe[l] \in Seq(Nat) /\ got[l] \in Seq(Nat)
    BY <1>2, <1>3 DEF TypeOK
  <1> DEFINE e == [i \in 1 .. k |-> w[c].src + i - 1]
             s == got[l] \o pipe[l]
  <1>5. e \in Seq(Nat) /\ Len(e) = k
    <2>1. w[c].src \in Nat /\ k \in Nat
      BY <1>4
    <2> QED
      BY <2>1, ChunkType
  <1>6. s \in Seq(Nat) /\ Len(s) = Len(got[l]) + Len(pipe[l])
    BY <1>4, ConcatProperties
  <1>7. w[c].src = Len(s) + 1
    BY <1>1, <1>2, <1>4, <1>6 DEF Streams, Writers, Told, Sent
  <1>8. pipe'[l] = pipe[l] \o e /\ Len(pipe'[l]) = Len(pipe[l]) + k
    <2>1. pipe'[l] = pipe[l] \o e
      BY <1>2, <1>3 DEF TypeOK
    <2>2. Len(pipe[l] \o e) = Len(pipe[l]) + k
      BY <1>4, <1>5, ConcatProperties
    <2> QED
      BY <2>1, <2>2
  <1>9. \A m \in Links : m # l => pipe'[m] = pipe[m]
    BY <1>3 DEF TypeOK
  <1>10. Counts(s \o e)
    <2>1. Counts(s)
      BY <1>2 DEF Streams, Ordered
    <2>2. e = [i \in 1 .. k |-> Len(s) + 1 + i - 1]
      BY <1>7
    <2> HIDE DEF s, e
    <2> QED
      BY <1>4, <1>6, <2>1, <2>2, CountsExtend
  <1>11. got[l] \o (pipe[l] \o e) = s \o e
    BY <1>4, <1>5, Joined
  <1>12. Ordered'
    <2> SUFFICES ASSUME NEW m \in Links PROVE Counts(got[m] \o pipe'[m])
      BY <1>1 DEF Ordered
    <2>1. CASE m = l
      BY <1>8, <1>10, <1>11, <2>1
    <2>2. CASE m # l
      BY <1>9, <2>2 DEF Streams, Ordered
    <2> QED
      BY <2>1, <2>2
  <1>13. w'[c].src = w[c].src + k /\ w'[c].actual = w[c].actual + k
         /\ \A d \in CConns : d # c => w'[d] = w[d]
    BY <1>3, <1>4 DEF TypeOK
  <1>14. Writers'
    <2> SUFFICES ASSUME NEW d \in CConns
                 PROVE  /\ m_fd[d] = NoFd => done[d] = 0
                        /\ d \in blocked => w'[d].src = done[d] + w'[d].actual + 1
                        /\ d \notin blocked => w'[d] = Idle
      BY <1>1 DEF Writers, object
    <2>1. CASE d = c
      BY <1>1, <1>4, <1>13, <2>1 DEF Streams, Writers
    <2>2. CASE d # c
      BY <1>13, <2>2 DEF Streams, Writers
    <2> QED
      BY <2>1, <2>2
  <1>15. Told'
    <2> SUFFICES ASSUME NEW d \in CConns, m_fd[d] # NoFd
                 PROVE  done[d] + w'[d].actual = Len(got[link[m_fd[d]]]) + Len(pipe'[link[m_fd[d]]])
      BY <1>1 DEF Told, Sent, object
    <2>1. CASE d = c
      <3>1. done[c] + w[c].actual = Len(got[l]) + Len(pipe[l])
        BY <1>1 DEF Streams, Told, Sent
      <3>2. Len(got[l]) \in Nat /\ Len(pipe[l]) \in Nat
        BY <1>4
      <3>3. done[c] + (w[c].actual + k) = Len(got[l]) + (Len(pipe[l]) + k)
        <4>1. PICK a \in Nat, b \in Nat : a = Len(got[l]) /\ b = Len(pipe[l])
          BY <3>2
        <4>2. PICK x \in Nat, y \in Nat : x = done[c] /\ y = w[c].actual
          BY <1>4
        <4>3. x + y = a + b
          BY <3>1, <4>1, <4>2
        <4>4. x + (y + k) = a + (b + k)
          BY <1>4, <4>3
        <4> QED
          BY <4>1, <4>2, <4>4
      <3> QED
        BY <1>8, <1>13, <2>1, <3>3
    <2>2. CASE d # c
      <3>1. link[m_fd[d]] # l /\ link[m_fd[d]] \in Links
        BY <1>1, <2>2, WritersApart, WriterLink
      <3> QED
        BY <1>9, <1>13, <2>2, <3>1 DEF Streams, Told, Sent
    <2> QED
      BY <2>1, <2>2
  <1>16. Fresh'
    <2>1. ~Unused(l)
      BY <1>2 DEF Unused
    <2> QED
      BY <1>1, <1>9, <2>1 DEF Streams, Fresh, NoBytes, Unused, Queued
  <1>17. FreshReady'
    <2> SUFFICES ASSUME m_fd[Client] # NoFd, sock[m_fd[Client]] = "ready"
                 PROVE  NoBytes(link[m_fd[Client]])'
      BY <1>1 DEF FreshReady, object
    <2>1. Client \in Objects /\ c \in Objects /\ c # Client
      BY ObjectsAssumption DEF Objects, Conns
    <2>2. m_fd[Client] \in Fds /\ m_fd[Client] # m_fd[c]
      BY <1>1, <2>1 DEF OneOwner, TypeOK
    <2>3. link[m_fd[Client]] \in Links /\ link[m_fd[Client]] # l
      BY <1>2, <2>2, LinkInUse DEF Shape, Ends
    <2> QED
      BY <1>1, <1>9, <2>3 DEF Streams, FreshReady, NoBytes, object
  <1> QED
    BY <1>12, <1>14, <1>15, <1>16, <1>17 DEF Streams

(* read() moves bytes to the reader and changes nothing else.               *)
LEMMA ReadStreams ==
  ASSUME TypeOK, OneOwner, Shape, Streams, NEW c \in SConns, ReadData(c)
  PROVE  Streams'
  <1> DEFINE l == link[m_fd[c]]
  <1>1. m_fd[c] # NoFd /\ UNCHANGED <<object, writes, sock, link, backlog>>
    BY DEF ReadData
  <1>2. c \in Objects /\ c # Client /\ c # Server /\ c \notin CConns
    BY ObjectsAssumption DEF Objects, Conns
  <1>3. m_fd[c] \in Fds /\ sock[m_fd[c]] = "accepted" /\ l \in Links
    <2>1. m_fd[c] \in Fds /\ sock[m_fd[c]] = "accepted"
      BY <1>1, <1>2 DEF Shape, Kinds, KindOf, TypeOK
    <2> QED
      BY <2>1, LinkInUse
  <1>4. PICK k \in 1 .. Len(pipe[l]) :
          /\ got' = [got EXCEPT ![l] = @ \o SubSeq(pipe[l], 1, k)]
          /\ pipe' = [pipe EXCEPT ![l] = SubSeq(@, k + 1, Len(@))]
    BY DEF ReadData
  <1>5. pipe[l] \in Seq(Nat) /\ got[l] \in Seq(Nat)
    BY <1>3 DEF TypeOK
  <1>6. got'[l] = got[l] \o SubSeq(pipe[l], 1, k) /\ pipe'[l] = SubSeq(pipe[l], k + 1, Len(pipe[l]))
    BY <1>3, <1>4 DEF TypeOK
  <1>7. \A m \in Links : m # l => got'[m] = got[m] /\ pipe'[m] = pipe[m]
    BY <1>4 DEF TypeOK
  <1>8. got'[l] \o pipe'[l] = got[l] \o pipe[l]
    <2> HIDE DEF l
    <2> QED
      BY <1>5, <1>6, CutJoin
  <1>9. ASSUME NEW m \in Links PROVE got'[m] \o pipe'[m] = got[m] \o pipe[m]
    BY <1>7, <1>8
  <1>10. ASSUME NEW m \in Links PROVE Len(got'[m]) + Len(pipe'[m]) = Len(got[m]) + Len(pipe[m])
    <2>1. CASE m = l
      BY <1>5, <1>6, <2>1, CutJoin
    <2>2. CASE m # l
      BY <1>7, <2>2
    <2> QED
      BY <2>1, <2>2
  <1>11. Ordered'
    BY <1>9 DEF Streams, Ordered
  <1>12. Writers'
    BY <1>1 DEF Streams, Writers, object, writes
  <1>13. Told'
    BY <1>1, <1>10, WriterLink DEF Streams, Told, Sent, object, writes
  <1>14. Fresh'
    <2>1. ~Unused(l)
      BY <1>3 DEF Unused
    <2> QED
      BY <1>1, <1>7, <2>1 DEF Streams, Fresh, NoBytes, Unused, Queued
  <1>15. FreshReady'
    <2> SUFFICES ASSUME m_fd[Client] # NoFd, sock[m_fd[Client]] = "ready"
                 PROVE  NoBytes(link[m_fd[Client]])'
      BY <1>1 DEF FreshReady, object
    <2>1. pipe[link[m_fd[Client]]] = <<>>
      BY DEF Streams, FreshReady, NoBytes
    <2>2. link[m_fd[Client]] # l
      BY <1>4, <2>1
    <2>3. link[m_fd[Client]] \in Links
      BY LinkInUse DEF TypeOK, Objects
    <2> QED
      BY <1>1, <1>7, <2>2, <2>3 DEF Streams, FreshReady, NoBytes, object
  <1> QED
    BY <1>11, <1>12, <1>13, <1>14, <1>15 DEF Streams

(* What the reader got and what is on its way are the bytes the caller      *)
(* meant, in their order, none twice and none left out, and write_data()    *)
(* told it how many, whatever the kernel took of each write(), however many *)
(* calls it took and whichever connections were closed in between.          *)
THEOREM StreamsIntact == Spec => []StreamIntact
  <1>1. Init => Streams
    <2> SUFFICES ASSUME Init PROVE Streams
      OBVIOUS
    <2> USE DEF Init
    <2>1. Fresh /\ FreshReady /\ Writers
      BY DEF Fresh, FreshReady, NoBytes, Writers, Objects
    <2>2. Ordered
      BY DEF Ordered, Counts
    <2>3. Told
      BY DEF Told, Objects, Conns
    <2> QED
      BY <2>1, <2>2, <2>3 DEF Streams
  <1>2. TypeOK /\ Owned /\ Shape /\ Streams /\ [Next]_vars => Streams'
    <2> SUFFICES ASSUME TypeOK, Owned, Shape, Streams, [Next]_vars PROVE Streams'
      OBVIOUS
    <2> USE DEF Owned
    <2>0. /\ Client \in Objects /\ Server \in Objects
          /\ \A c \in CConns : c # Client /\ c # Server
      BY ObjectsAssumption DEF Objects, Conns
    <2>1. ASSUME NEW o \in Objects, Close(o) PROVE Streams'
      BY <2>1, CloseStreams DEF Close, Free
    <2>2. ASSUME NEW o \in Objects, NEW mode \in {"synchronous", "asynchronous"}, SetMode(o, mode)
          PROVE  Streams'
      BY <2>2, QuietStreams DEF SetMode
    <2>3. CASE ConnectBlock
      <3>1. UNCHANGED <<writes, backlog, pipe, got>>
        BY <2>3 DEF ConnectBlock
      <3>2. CASE m_fd' = [m_fd EXCEPT ![Client] = NoFd] /\ UNCHANGED <<blocked, sock, link>>
        BY <2>0, <3>1, <3>2, QuietStreams DEF TypeOK
      <3>3. ASSUME NEW f \in Fds, NewFd(f), SetFd(f, "connecting", TRUE, 0),
                   m_fd' = [m_fd EXCEPT ![Client] = f], blocked' = blocked \cup {Client}
            PROVE  Streams'
        <4>1. link' = link
          BY <3>3 DEF NewFd, SetFd, Shape, Ends, TypeOK
        <4>2. m_fd'[Client] = f /\ sock'[f] = "connecting"
          BY <2>0, <3>3 DEF SetFd, TypeOK
        <4>3. \A c \in CConns : m_fd'[c] = m_fd[c] /\ (c \in blocked' <=> c \in blocked)
          BY <2>0, <3>3
        <4> QED
          BY <3>1, <4>1, <4>2, <4>3, QuietStreams
      <3> QED
        BY <2>3, <3>2, <3>3 DEF ConnectBlock
    <2>4. CASE ConnectBlockEnds
      <3>1. /\ m_fd[Client] \in Fds /\ m_fd[Client] # NoFd
            /\ \A c \in CConns : c \in blocked' <=> c \in blocked
        BY <2>0, <2>4 DEF ConnectBlockEnds, BlockedHold, TypeOK
      <3>2. CASE sock[m_fd[Client]] = "ready" /\ HandOver(m_fd[Client])
                 /\ UNCHANGED <<link, backlog, pipe, got>>
        <4>1. Fresh'
          BY <3>2 DEF Streams, Fresh, NoBytes, Unused, Queued
        <4>2. link[m_fd[Client]] \in Links /\ NoBytes(link[m_fd[Client]])
          BY <3>1, <3>2, LinkInUse DEF Streams, FreshReady
        <4>3. \A o \in Objects : m_fd[o] = m_fd[Client] => o = Client
          BY <2>0, <3>1 DEF OneOwner
        <4> QED
          BY <3>1, <3>2, <4>1, <4>2, <4>3, HandOverStreams
      <3>3. CASE UNCHANGED <<m_fd, writes, kernel, got>>
        BY <3>1, <3>3, QuietStreams DEF kernel
      <3>4. CASE CloseFd(Client) /\ UNCHANGED writes
        BY <2>0, <3>1, <3>4, CloseStreams DEF writes
      <3> QED
        BY <2>4, <3>2, <3>3, <3>4 DEF ConnectBlockEnds
    <2>5. CASE ConnectNonBlockFirst
      <3>1. UNCHANGED <<blocked, got>>
        BY <2>5 DEF ConnectNonBlockFirst
      <3>2. CASE UNCHANGED <<m_fd, writes, kernel>>
        BY <3>1, <3>2, QuietStreams DEF kernel
      <3>3. ASSUME NEW f \in Fds, NewFd(f), SetFd(f, "connecting", TRUE, 0),
                   m_fd' = [m_fd EXCEPT ![Client] = f], UNCHANGED <<writes, backlog, pipe>>
            PROVE  Streams'
        <4>1. link' = link
          BY <3>3 DEF NewFd, SetFd, Shape, Ends, TypeOK
        <4>2. m_fd'[Client] = f /\ sock'[f] = "connecting"
          BY <2>0, <3>3 DEF SetFd, TypeOK
        <4>3. \A c \in CConns : m_fd'[c] = m_fd[c]
          BY <2>0, <3>3
        <4> QED
          BY <3>1, <3>3, <4>1, <4>2, <4>3, QuietStreams
      <3>4. ASSUME NEW f \in Fds, NEW l \in Links, NewFd(f), Handshake(l),
                   SetFd(f, "ready", TRUE, l), HandOver(f), UNCHANGED pipe
            PROVE  Streams'
        <4>1. link[f] = 0
          BY <3>4 DEF NewFd, Shape, Ends
        <4>2. link'[f] = l /\ \A g \in Fds : g # f => link'[g] = link[g]
          BY <3>4 DEF SetFd, TypeOK
        <4>3. Fresh' /\ NoBytes(l)
          BY <3>1, <3>4, <4>1, <4>2, HandshakeFresh DEF Streams
        <4>4. \A o \in Objects : m_fd[o] # f
          BY <3>4, FdsAssumption DEF NewFd, OneOwner
        <4> QED
          BY <3>1, <3>4, <4>2, <4>3, <4>4, HandOverStreams
      <3> QED
        BY <2>5, <3>2, <3>3, <3>4 DEF ConnectNonBlockFirst
    <2>6. CASE ConnectNonBlockAgain
      <3>1. UNCHANGED blocked /\ m_fd[Client] \in Fds /\ m_fd[Client] # NoFd
        BY <2>0, <2>6 DEF ConnectNonBlockAgain, TypeOK
      <3>2. CASE sock[m_fd[Client]] = "ready" /\ HandOver(m_fd[Client])
                 /\ UNCHANGED <<link, backlog, pipe, got>>
        <4>1. Fresh'
          BY <3>2 DEF Streams, Fresh, NoBytes, Unused, Queued
        <4>2. link[m_fd[Client]] \in Links /\ NoBytes(link[m_fd[Client]])
          BY <3>1, <3>2, LinkInUse DEF Streams, FreshReady
        <4>3. \A o \in Objects : m_fd[o] = m_fd[Client] => o = Client
          BY <2>0, <3>1 DEF OneOwner
        <4> QED
          BY <3>1, <3>2, <4>1, <4>2, <4>3, HandOverStreams
      <3>3. CASE CloseFd(Client) /\ UNCHANGED writes
        BY <2>0, <3>1, <3>3, CloseStreams DEF writes
      <3> QED
        BY <2>6, <3>2, <3>3 DEF ConnectNonBlockAgain, kernel
    <2> DEFINE Listens == \E f \in Fds, nb \in BOOLEAN :
                            NewFd(f) /\ SetFd(f, "listening", nb, 0)
                            /\ m_fd' = [m_fd EXCEPT ![Server] = f]
    <2>7. ASSUME Listens, UNCHANGED <<writes, backlog, pipe, got>>,
                 \A c \in CConns : c \in blocked' <=> c \in blocked
          PROVE  Streams'
      <3>1. PICK f \in Fds, nb \in BOOLEAN :
              NewFd(f) /\ SetFd(f, "listening", nb, 0) /\ m_fd' = [m_fd EXCEPT ![Server] = f]
        BY <2>7
      <3>2. link' = link
        BY <3>1 DEF NewFd, SetFd, Shape, Ends, TypeOK
      <3>3. Client # Server
        BY ObjectsAssumption
      <3>4. m_fd'[Client] = m_fd[Client] /\ \A c \in CConns : m_fd'[c] = m_fd[c]
        BY <2>0, <3>1, <3>3
      <3>5. m_fd[Client] # NoFd => m_fd[Client] \in Fds /\ sock'[m_fd[Client]] = sock[m_fd[Client]]
        <4> SUFFICES ASSUME m_fd[Client] # NoFd
                     PROVE  m_fd[Client] \in Fds /\ sock'[m_fd[Client]] = sock[m_fd[Client]]
          OBVIOUS
        <4>1. m_fd[Client] \in Fds /\ m_fd[Client] # f
          BY <2>0, <3>1 DEF NewFd, OneOwner, TypeOK
        <4> QED
          BY <3>1, <4>1 DEF SetFd, TypeOK
      <3> QED
        BY <2>7, <3>2, <3>4, <3>5, QuietStreams
    <2>8. ASSUME Accept, UNCHANGED writes, \A c \in CConns : c \in blocked' <=> c \in blocked
          PROVE  Streams'
      <3>1. /\ Fresh' /\ UNCHANGED <<pipe, got>>
            /\ \A f \in Fds : sock[f] # "free" => link'[f] = link[f] /\ sock'[f] = sock[f]
        BY <2>8, AcceptFresh DEF Streams
      <3>2. \A o \in Objects \ SConns : m_fd'[o] = m_fd[o]
        BY <2>8 DEF Accept, TypeOK
      <3>3. \A o \in Objects \ SConns : m_fd[o] # NoFd
              => /\ m_fd[o] \in Fds /\ link'[m_fd[o]] = link[m_fd[o]]
                 /\ sock'[m_fd[o]] = sock[m_fd[o]]
        BY <3>1 DEF OneOwner, TypeOK
      <3>4. /\ Client \in Objects \ SConns
            /\ \A c \in CConns : c \in Objects \ SConns
        BY ObjectsAssumption DEF Objects, Conns
      <3>5. Writers' /\ Ordered'
        BY <2>8, <3>1, <3>2, <3>4 DEF Streams, Writers, Ordered, writes
      <3>6. Told'
        <4> SUFFICES ASSUME NEW c \in CConns, m_fd'[c] # NoFd
                     PROVE  done[c] + w[c].actual = Sent(link'[m_fd'[c]])
          BY <2>8, <3>1 DEF Told, Sent, writes
        <4>1. m_fd'[c] = m_fd[c] /\ link'[m_fd[c]] = link[m_fd[c]]
          BY <3>2, <3>3, <3>4
        <4> QED
          BY <4>1 DEF Streams, Told
      <3>7. FreshReady'
        BY <3>1, <3>2, <3>3, <3>4 DEF Streams, FreshReady, NoBytes
      <3> QED
        BY <3>1, <3>5, <3>6, <3>7 DEF Streams
    <2>9. ASSUME m_fd[Server] # NoFd, CloseFd(Server), UNCHANGED writes,
                 \A c \in CConns : c \in blocked' <=> c \in blocked
          PROVE  Streams'
      BY <2>0, <2>9, CloseStreams DEF writes
    <2>10. CASE ListenBlock
      <3>1. UNCHANGED <<writes, backlog, pipe, got>> /\ \A c \in CConns : c \in blocked' <=> c \in blocked
        BY <2>0, <2>10 DEF ListenBlock, hist
      <3>2. CASE UNCHANGED <<m_fd, sock, link>>
        BY <3>1, <3>2, QuietStreams
      <3> QED
        BY <2>7, <2>10, <3>1, <3>2 DEF ListenBlock, ListenOpens
    <2>11. CASE ListenBlockEnds
      <3>1. m_fd[Server] # NoFd /\ UNCHANGED writes /\ \A c \in CConns : c \in blocked' <=> c \in blocked
        BY <2>0, <2>11 DEF ListenBlockEnds, BlockedHold
      <3> QED
        BY <2>8, <2>9, <2>11, <3>1 DEF ListenBlockEnds, AcceptFails
    <2>12. CASE ListenNonBlock
      <3>1. UNCHANGED writes /\ \A c \in CConns : c \in blocked' <=> c \in blocked
        BY <2>0, <2>12 DEF ListenNonBlock
      <3>2. CASE UNCHANGED <<m_fd, kernel, got>>
        BY <3>1, <3>2, QuietStreams DEF kernel
      <3>3. CASE ListenOpens(TRUE) /\ UNCHANGED <<backlog, pipe, got>>
        BY <2>7, <3>1, <3>3 DEF ListenOpens
      <3> QED
        BY <2>8, <2>9, <2>12, <3>1, <3>2, <3>3 DEF ListenNonBlock, AcceptFails
    <2>13. ASSUME NEW c \in CConns, NEW n \in 1 .. MaxBytes, WriteCall(c, n) PROVE Streams'
      <3>1. /\ m_fd[c] # NoFd /\ c \notin blocked /\ blocked' = blocked \cup {c}
            /\ UNCHANGED <<m_fd, done, sock, link, backlog, pipe, got>>
        BY <2>13 DEF WriteCall, Free, kernel, hist
      <3>2. /\ w'[c].src = done[c] + 1 /\ w'[c].actual = 0
            /\ \A d \in CConns : d # c => w'[d] = w[d]
        BY <2>13 DEF WriteCall, TypeOK
      <3>3. w[c].actual = 0 /\ done[c] \in Nat
        BY <3>1 DEF Streams, Writers, Idle, TypeOK
      <3>4. Fresh' /\ FreshReady' /\ Ordered'
        BY <3>1 DEF Streams, Fresh, FreshReady, Ordered, NoBytes, Unused, Queued
      <3>5. Writers'
        BY <3>1, <3>2, <3>3 DEF Streams, Writers
      <3>6. Told'
        BY <3>1, <3>2, <3>3 DEF Streams, Told, Sent
      <3> QED
        BY <3>4, <3>5, <3>6 DEF Streams
    <2>14. ASSUME NEW c \in CConns, WriteRound(c) PROVE Streams'
      BY <2>14, WriteStreams
    <2>15. ASSUME NEW c \in CConns, WriteEnds(c) PROVE Streams'
      <3>1. /\ c \in blocked /\ blocked' = blocked \ {c}
            /\ UNCHANGED <<m_fd, sock, link, backlog, pipe, got>>
        BY <2>15 DEF WriteEnds, kernel, hist
      <3>2. /\ w'[c] = Idle /\ done'[c] = done[c] + w[c].actual
            /\ \A d \in CConns : d # c => w'[d] = w[d] /\ done'[d] = done[d]
        BY <2>15 DEF WriteEnds, TypeOK
      <3>3. m_fd[c] # NoFd /\ done[c] \in Nat /\ w[c].actual \in Nat
        <4>1. w[c] \in [src : Nat, left : Nat, actual : Nat]
          BY DEF TypeOK
        <4> QED
          BY <3>1, <4>1 DEF BlockedHold, TypeOK
      <3>4. Fresh' /\ FreshReady' /\ Ordered'
        BY <3>1 DEF Streams, Fresh, FreshReady, Ordered, NoBytes, Unused, Queued
      <3>5. Writers'
        BY <3>1, <3>2, <3>3 DEF Streams, Writers
      <3>6. Told'
        <4> SUFFICES ASSUME NEW d \in CConns, m_fd[d] # NoFd
                     PROVE  done'[d] + w'[d].actual = Sent(link[m_fd[d]])
          BY <3>1 DEF Told, Sent
        <4>1. done[d] + w[d].actual = Sent(link[m_fd[d]])
          BY DEF Streams, Told
        <4>2. CASE d = c
          <5>1. done'[c] + 0 = done[c] + w[c].actual
            BY <3>2, <3>3
          <5> QED
            BY <3>2, <4>1, <4>2, <5>1 DEF Idle
        <4>3. CASE d # c
          BY <3>2, <4>1, <4>3
        <4> QED
          BY <4>2, <4>3
      <3> QED
        BY <3>4, <3>5, <3>6 DEF Streams
    <2>16. ASSUME NEW c \in SConns, ReadData(c) PROVE Streams'
      BY <2>16, ReadStreams
    <2>17. ASSUME NEW f \in Fds, KernelConnect(f) PROVE Streams'
      <3>1. sock[f] = "connecting" /\ link[f] = 0 /\ UNCHANGED <<object, writes, pipe, got>>
        BY <2>17 DEF KernelConnect, hist, Shape, Ends
      <3>2. \A c \in CConns : m_fd[c] # NoFd => m_fd[c] # f /\ m_fd[c] \in Fds
        BY <3>1, WriterLink
      <3>3. CASE SetFd(f, "broken", nonblock[f], 0) /\ UNCHANGED backlog
        <4>1. link' = link /\ \A g \in Fds : sock'[g] = IF g = f THEN "broken" ELSE sock[g]
          BY <3>1, <3>3 DEF SetFd, TypeOK
        <4>2. m_fd[Client] \in Fds \cup {NoFd}
          BY <2>0 DEF TypeOK
        <4> QED
          BY <3>1, <3>3, <4>1, <4>2, QuietStreams DEF object
      <3>4. ASSUME NEW l \in Links, Handshake(l), SetFd(f, "ready", nonblock[f], l) PROVE Streams'
        <4>1. /\ link'[f] = l
              /\ \A g \in Fds : g # f => link'[g] = link[g] /\ sock'[g] = sock[g]
          BY <3>4 DEF SetFd, TypeOK
        <4>2. Fresh' /\ NoBytes(l)
          BY <3>1, <3>4, <4>1, HandshakeFresh DEF Streams
        <4>3. Writers' /\ Ordered'
          BY <3>1 DEF Streams, Writers, Ordered, object, writes
        <4>4. Told'
          BY <3>1, <3>2, <4>1 DEF Streams, Told, Sent, object, writes
        <4>5. FreshReady'
          <5>1. m_fd[Client] \in Fds \cup {NoFd}
            BY <2>0 DEF TypeOK
          <5> QED
            BY <3>1, <4>1, <4>2, <5>1 DEF Streams, FreshReady, NoBytes, object
        <4> QED
          BY <4>2, <4>3, <4>4, <4>5 DEF Streams
      <3> QED
        BY <2>17, <3>3, <3>4 DEF KernelConnect
    <2>18. CASE UNCHANGED vars
      BY <2>18, QuietStreams DEF vars, object, kernel, hist
    <2> HIDE DEF Listens
    <2> QED
      BY <2>1, <2>2, <2>3, <2>4, <2>5, <2>6, <2>10, <2>11, <2>12, <2>13,
         <2>14, <2>15, <2>16, <2>17, <2>18 DEF Next
  <1>3. TypeOK /\ Streams => StreamIntact
    BY StreamsTell
  <1> QED
    BY <1>1, <1>2, <1>3, TypeCorrect, OwnersCorrect, ShapeCorrect, PTL DEF Spec
=============================================================================
