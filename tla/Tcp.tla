-------------------------------- MODULE Tcp ---------------------------------
(***************************************************************************)
(* util_lib/tcp: a tcp_client, a tcp_server and the tcp_connection objects *)
(* that connect() and listen() hand to the application, all of one         *)
(* process, and the descriptors and byte streams the kernel keeps for them.*)
(*                                                                         *)
(* An object is used by one thread.  The calls that block, connect() and   *)
(* listen() in synchronous mode and write_data(), have a step where they   *)
(* start and one for each time the kernel lets them go on; blocked holds   *)
(* the objects whose call waits.  The client connects to the server, so    *)
(* that what one end writes is what the other end reads.                   *)
(***************************************************************************)
EXTENDS Naturals, Sequences, FiniteSets

CONSTANTS Client, Server,   (* the tcp_client and the tcp_server             *)
          CConns,           (* connections made by connect()                 *)
          SConns,           (* connections made by listen()                  *)
          Fds,              (* descriptors the process may open: numbers     *)
          NoFd,             (* -1                                            *)
          MaxLinks,         (* bound: connections the kernel keeps at a time *)
          Cap,              (* bytes on their way the kernel holds           *)
          MaxBytes,         (* bound: bytes written on a connection          *)
          FcntlFails        (* {FALSE}, or {TRUE, FALSE} to let fcntl() fail *)

Conns   == CConns \cup SConns
Objects == {Client, Server} \cup Conns

ASSUME ObjectsAssumption == /\ Client # Server /\ {Client, Server} \cap Conns = {}
                            /\ CConns \cap SConns = {}
ASSUME FdsAssumption     == Fds \subseteq Nat /\ NoFd \notin Fds
ASSUME BoundsAssumption  == MaxLinks \in Nat /\ Cap \in Nat \ {0} /\ MaxBytes \in Nat
ASSUME FcntlAssumption   == FALSE \in FcntlFails /\ FcntlFails \subseteq BOOLEAN

VARIABLES m_fd, m_mode,     (* of each object                                *)
          blocked,          (* objects in a call that waits for the kernel   *)
          w,                (* write_data() of each connection of the client *)
          done,             (* bytes its caller was told are written         *)
          (* the kernel *)
          sock, nonblock,   (* what each descriptor is, and its O_NDELAY     *)
          link,             (* the connection it is an end of                *)
          backlog,          (* connections no accept() has taken             *)
          pipe,             (* bytes on their way from client to server      *)
          (* history, read by properties only *)
          got,              (* bytes the server's end read from each         *)
          overwrote,        (* connect() replaced a descriptor it held       *)
          astray,           (* descriptors whose last fcntl() failed, or     *)
                            (* that accept() made for a server in no-wait    *)
                            (* mode and no fcntl() has set since             *)
          gaveUp            (* the last connect() ended an attempt that was  *)
                            (* still in progress                             *)

object == <<m_fd, m_mode, blocked>>
writes == <<w, done>>
kernel == <<sock, nonblock, link, backlog, pipe>>
hist   == <<got, overwrote, astray, gaveUp>>
vars   == <<object, writes, kernel, hist>>

Links == 1 .. MaxLinks
Idle  == [src |-> 0, left |-> 0, actual |-> 0]

(* The states of a descriptor: ready is a connected end that connect() made,*)
(* accepted one that accept() made, broken an attempt that failed.          *)
SockStates == {"free", "connecting", "ready", "broken", "listening", "accepted"}

TypeOK ==
  /\ m_fd \in [Objects -> Fds \cup {NoFd}]
  /\ m_mode \in [Objects -> {"synchronous", "asynchronous"}]
  /\ blocked \subseteq {Client, Server} \cup CConns
  /\ w \in [CConns -> [src : Nat, left : Nat, actual : Nat]]
  /\ done \in [CConns -> Nat]
  /\ sock \in [Fds -> SockStates] /\ nonblock \in [Fds -> BOOLEAN]
  /\ link \in [Fds -> Links \cup {0}]
  /\ backlog \in Seq(Links)
  /\ pipe \in [Links -> Seq(Nat)] /\ got \in [Links -> Seq(Nat)]
  /\ overwrote \in BOOLEAN /\ astray \subseteq Fds \cup {NoFd} /\ gaveUp \in BOOLEAN

Init ==
  /\ m_fd = [o \in Objects |-> NoFd] /\ m_mode = [o \in Objects |-> "synchronous"]
  /\ blocked = {}
  /\ w = [c \in CConns |-> Idle] /\ done = [c \in CConns |-> 0]
  /\ sock = [f \in Fds |-> "free"] /\ nonblock = [f \in Fds |-> FALSE]
  /\ link = [f \in Fds |-> 0] /\ backlog = <<>>
  /\ pipe = [l \in Links |-> <<>>] /\ got = [l \in Links |-> <<>>]
  /\ overwrote = FALSE /\ astray = {} /\ gaveUp = FALSE

-----------------------------------------------------------------------------
(* The kernel's part of a call.                                             *)

(* socket() and accept() return the lowest free descriptor.                 *)
NewFd(f) == sock[f] = "free" /\ \A g \in Fds : g < f => sock[g] # "free"

(* The descriptors of F are closed, and with a listening one what it had    *)
(* queued; a connection without ends is forgotten.                          *)
FreeFds(F) ==
  LET ends == [f \in Fds |-> IF f \in F THEN 0 ELSE link[f]]
      queue == IF \E f \in F : sock[f] = "listening" THEN <<>> ELSE backlog
      alive == { ends[f] : f \in Fds } \cup { queue[i] : i \in 1 .. Len(queue) }
  IN /\ sock' = [f \in Fds |-> IF f \in F THEN "free" ELSE sock[f]]
     /\ nonblock' = [f \in Fds |-> f \notin F /\ nonblock[f]]
     /\ link' = ends /\ backlog' = queue
     /\ pipe' = [l \in Links |-> IF l \in alive THEN pipe[l] ELSE <<>>]
     /\ got' = [l \in Links |-> IF l \in alive THEN got[l] ELSE <<>>]
     /\ astray' = astray \ F

SetFd(f, state, nb, l) ==
  /\ sock' = [sock EXCEPT ![f] = state] /\ nonblock' = [nonblock EXCEPT ![f] = nb]
  /\ link' = [link EXCEPT ![f] = l]

Queued(l) == \E i \in 1 .. Len(backlog) : backlog[i] = l
Unused(l) == ~Queued(l) /\ \A f \in Fds : link[f] # l

(* The handshake makes connection l, if the server listens.                 *)
Handshake(l) ==
  /\ \E f \in Fds : sock[f] = "listening"
  /\ Unused(l) /\ \A k \in Links : k < l => ~Unused(k)
  /\ backlog' = Append(backlog, l)

ReaderOpen(l) == Queued(l) \/ \E f \in Fds : sock[f] = "accepted" /\ link[f] = l

(* The handshake of a descriptor in connecting ends, well or not.           *)
KernelConnect(f) ==
  /\ sock[f] = "connecting"
  /\ \/ \E l \in Links : Handshake(l) /\ SetFd(f, "ready", nonblock[f], l)
     \/ SetFd(f, "broken", nonblock[f], 0) /\ UNCHANGED backlog
  /\ UNCHANGED <<object, writes, pipe, hist>>

-----------------------------------------------------------------------------
Free(o) == o \notin blocked

(* tcp_connection::close(), which connect() and listen() call on an error   *)
(* too.  ::close() of an open descriptor succeeds.                          *)
CloseFd(o) == FreeFds({m_fd[o]}) /\ m_fd' = [m_fd EXCEPT ![o] = NoFd]

(* The client, the server, or the connection, which is deleted: one without *)
(* a descriptor stands for an object yet to be made.                        *)
Close(o) ==
  /\ Free(o) /\ m_fd[o] # NoFd /\ CloseFd(o)
  /\ m_mode' = IF o \in Conns THEN [m_mode EXCEPT ![o] = "synchronous"] ELSE m_mode
  /\ done' = [c \in CConns |-> IF c = o THEN 0 ELSE done[c]]
  /\ UNCHANGED <<blocked, w, overwrote, gaveUp>>

(* fcntl() fails, TRUE, or not.  Bound: one descriptor at a time.           *)
FcntlResults == { bad \in FcntlFails : bad => \A f \in astray : sock[f] = "accepted" }

SetModeOnlyFlag(o, mode) ==    (* variant: m_mode is only set without a descriptor *)
  /\ Free(o)
  /\ m_mode' = IF m_fd[o] = NoFd THEN [m_mode EXCEPT ![o] = mode] ELSE m_mode
  /\ nonblock' = IF m_fd[o] = NoFd THEN nonblock
                 ELSE [nonblock EXCEPT ![m_fd[o]] = (mode = "asynchronous")]
  /\ UNCHANGED <<m_fd, blocked, writes, sock, link, backlog, pipe, hist>>
SetMode(o, mode) ==
  /\ Free(o) /\ (o \in Conns => m_fd[o] # NoFd)
  /\ m_mode' = [m_mode EXCEPT ![o] = mode]
  /\ \E bad \in FcntlResults :
       IF m_fd[o] = NoFd THEN UNCHANGED <<nonblock, astray>>
       ELSE /\ nonblock' = IF bad THEN nonblock
                           ELSE [nonblock EXCEPT ![m_fd[o]] = (mode = "asynchronous")]
            /\ astray' = IF bad THEN astray \cup {m_fd[o]} ELSE astray \ {m_fd[o]}
  /\ UNCHANGED <<m_fd, blocked, writes, sock, link, backlog, pipe,
                 got, overwrote, gaveUp>>

(* p_copy_tcp_connection_info() of the client and m_fd = -1 of connect():   *)
(* a new connection takes over descriptor f.                                *)
HandOverLeaving(f, rest) ==
  \E c \in CConns :
    /\ m_fd[c] = NoFd /\ Free(c)
    /\ m_fd' = [m_fd EXCEPT ![c] = f, ![Client] = rest]
    /\ m_mode' = [m_mode EXCEPT ![c] = m_mode[Client]]
    /\ UNCHANGED writes
HandOverCopy(f) == HandOverLeaving(f, f)    (* variant: connect() keeps its descriptor *)
HandOver(f)     == HandOverLeaving(f, NoFd)

(* connect() in synchronous mode, up to select().  socket() gives the       *)
(* object a descriptor whether it holds one or not.                         *)
ConnectBlock ==
  /\ Free(Client) /\ m_mode[Client] = "synchronous"
  /\ ~overwrote \/ m_fd[Client] = NoFd        (* bound: one descriptor is lost *)
  /\ overwrote' = (overwrote \/ m_fd[Client] # NoFd) /\ gaveUp' = FALSE
  /\ \/ (* an error: socket(), an option, a flag or ::connect() fails, and  *)
        (* what socket() opened is closed                                   *)
        /\ m_fd' = [m_fd EXCEPT ![Client] = NoFd]
        /\ UNCHANGED <<blocked, sock, nonblock, link>>
     \/ \E f \in Fds :
          /\ NewFd(f) /\ SetFd(f, "connecting", TRUE, 0)
          /\ m_fd' = [m_fd EXCEPT ![Client] = f]
          /\ blocked' = blocked \cup {Client}
  /\ UNCHANGED <<m_mode, writes, backlog, pipe, got, astray>>

(* select() returns, at the end of the handshake or by the timeout, and     *)
(* p_clear_flags() ends the no-wait mode.                                   *)
ConnectBlockEnds ==
  /\ Client \in blocked /\ blocked' = blocked \ {Client}
  /\ LET f == m_fd[Client] IN
     \/ (* no error: a connection *)
        /\ sock[f] = "ready" /\ HandOver(f)
        /\ nonblock' = [nonblock EXCEPT ![f] = FALSE] /\ astray' = astray \ {f}
        /\ UNCHANGED <<sock, link, backlog, pipe, got>>
     \/ (* E_tcp_clear_flags, the one error that does not close *)
        /\ sock[f] = "ready" /\ TRUE \in FcntlResults /\ astray' = astray \cup {f}
        /\ UNCHANGED <<m_fd, m_mode, writes, kernel, got>>
     \/ (* an error *)
        /\ sock[f] # "ready" /\ CloseFd(Client) /\ UNCHANGED <<m_mode, writes>>
  /\ UNCHANGED <<overwrote, gaveUp>>

(* connect() in asynchronous mode, the first call of an attempt: an error   *)
(* changes nothing; E_tcp_conn_in_progress; a connection at once.           *)
ConnectNonBlockFirst ==
  /\ Free(Client) /\ m_mode[Client] = "asynchronous" /\ m_fd[Client] = NoFd
  /\ \/ UNCHANGED <<m_fd, m_mode, writes, kernel>>
     \/ \E f \in Fds :
          /\ NewFd(f) /\ SetFd(f, "connecting", TRUE, 0)
          /\ m_fd' = [m_fd EXCEPT ![Client] = f]
          /\ UNCHANGED <<m_mode, writes, backlog, pipe>>
     \/ \E f \in Fds, l \in Links :
          /\ NewFd(f) /\ Handshake(l) /\ SetFd(f, "ready", TRUE, l)
          /\ HandOver(f) /\ UNCHANGED pipe
  /\ gaveUp' = FALSE
  /\ UNCHANGED <<blocked, got, overwrote, astray>>

(* The later calls: ::connect() fails with EALREADY as long as the          *)
(* handshake goes on; then it succeeds, or tells the error met.  Without    *)
(* O_NDELAY it waits.                                                       *)
ConnectNonBlockLeaves ==    (* variant: an error leaves the descriptor open *)
  /\ Free(Client) /\ m_mode[Client] = "asynchronous" /\ m_fd[Client] # NoFd
  /\ LET f == m_fd[Client] IN
     \/ sock[f] = "ready" /\ HandOver(f)
     \/ /\ sock[f] = "broken" \/ (sock[f] = "connecting" /\ nonblock[f])
        /\ m_fd' = [m_fd EXCEPT ![Client] = NoFd] /\ UNCHANGED <<m_mode, writes>>
  /\ UNCHANGED <<blocked, kernel, hist>>
ConnectNonBlockAgain ==
  /\ Free(Client) /\ m_mode[Client] = "asynchronous" /\ m_fd[Client] # NoFd
  /\ LET f == m_fd[Client] IN
     /\ gaveUp' = (sock[f] = "connecting")
     /\ \/ sock[f] = "ready" /\ HandOver(f) /\ UNCHANGED <<kernel, got, astray>>
        \/ /\ sock[f] = "broken" \/ (sock[f] = "connecting" /\ nonblock[f])
           /\ CloseFd(Client) /\ UNCHANGED <<m_mode, writes>>
  /\ UNCHANGED <<blocked, overwrote>>

-----------------------------------------------------------------------------
(* accept(), then p_copy_tcp_connection_info() and p_set_fd(): the new      *)
(* connection has the server's mode; its descriptor waits all the same.     *)
Accept ==
  /\ backlog # <<>>
  /\ \E c \in SConns, f \in Fds :
       /\ m_fd[c] = NoFd /\ NewFd(f)
       /\ m_fd' = [m_fd EXCEPT ![c] = f] /\ m_mode' = [m_mode EXCEPT ![c] = m_mode[Server]]
       /\ SetFd(f, "accepted", FALSE, Head(backlog)) /\ backlog' = Tail(backlog)
       /\ astray' = IF m_mode[Server] = "asynchronous" THEN astray \cup {f} ELSE astray
  /\ UNCHANGED <<pipe, got>>

AcceptFails == CloseFd(Server) /\ UNCHANGED m_mode

(* socket(), the options, bind() and ::listen(); when one fails listen()    *)
(* closes what was opened and nothing has changed.                          *)
ListenOpens(nb) ==
  \E f \in Fds : /\ NewFd(f) /\ SetFd(f, "listening", nb, 0)
                 /\ m_fd' = [m_fd EXCEPT ![Server] = f]

(* listen() in synchronous mode, up to accept().                            *)
ListenBlock ==
  /\ Free(Server) /\ m_mode[Server] = "synchronous"
  /\ blocked' = blocked \cup {Server}
  /\ IF m_fd[Server] = NoFd THEN ListenOpens(FALSE)
     ELSE UNCHANGED <<m_fd, sock, nonblock, link>>
  /\ UNCHANGED <<m_mode, writes, backlog, pipe, hist>>

(* accept() has a connection, or fails.                                     *)
ListenBlockEnds ==
  /\ Server \in blocked /\ blocked' = blocked \ {Server}
  /\ Accept \/ AcceptFails
  /\ UNCHANGED <<writes, overwrote, gaveUp>>

(* listen() in asynchronous mode; with no connection to accept it changes   *)
(* nothing.  A descriptor without O_NDELAY, after a failed set_mode(),      *)
(* makes it wait.                                                           *)
ListenNonBlock ==
  /\ Free(Server) /\ m_mode[Server] = "asynchronous"
  /\ \/ /\ m_fd[Server] = NoFd /\ ListenOpens(TRUE)
        /\ UNCHANGED <<m_mode, blocked, backlog, pipe, got, astray>>
     \/ /\ m_fd[Server] # NoFd /\ (Accept \/ AcceptFails)
        /\ UNCHANGED blocked
     \/ /\ m_fd[Server] # NoFd /\ backlog = <<>> /\ ~nonblock[m_fd[Server]]
        /\ blocked' = blocked \cup {Server}
        /\ UNCHANGED <<m_fd, m_mode, kernel, got, astray>>
  /\ UNCHANGED <<writes, overwrote, gaveUp>>

-----------------------------------------------------------------------------
(* write_data() of n more bytes, the next ones its caller has.  The bytes   *)
(* of a connection are 1, 2, ... in the order the caller means them.        *)
WriteCall(c, n) ==
  /\ Free(c) /\ m_fd[c] # NoFd /\ done[c] + n <= MaxBytes
  /\ w' = [w EXCEPT ![c] = [src |-> done[c] + 1, left |-> n, actual |-> 0]]
  /\ blocked' = blocked \cup {c}
  /\ UNCHANGED <<m_fd, m_mode, done, kernel, hist>>

(* A write() that takes k bytes.  One that EINTR ends changes nothing.      *)
WriteRoundFromStart(c) ==    (* variant: src stays at the start of the data *)
  /\ c \in blocked
  /\ LET l == link[m_fd[c]] IN
     /\ ReaderOpen(l)
     /\ \E k \in 1 .. w[c].left :
          /\ Len(pipe[l]) + k <= Cap
          /\ pipe' = [pipe EXCEPT ![l] = @ \o [i \in 1 .. k |-> w[c].src + i - 1]]
          /\ w' = [w EXCEPT ![c] = [src |-> @.src, left |-> @.left - k,
                                     actual |-> @.actual + k]]
  /\ UNCHANGED <<object, done, sock, nonblock, link, backlog, hist>>
WriteRound(c) ==
  /\ c \in blocked
  /\ LET l == link[m_fd[c]] IN
     /\ ReaderOpen(l)
     /\ \E k \in 1 .. w[c].left :
          /\ Len(pipe[l]) + k <= Cap
          /\ pipe' = [pipe EXCEPT ![l] = @ \o [i \in 1 .. k |-> w[c].src + i - 1]]
          /\ w' = [w EXCEPT ![c] = [src |-> @.src + k, left |-> @.left - k,
                                     actual |-> @.actual + k]]
  /\ UNCHANGED <<object, done, sock, nonblock, link, backlog, hist>>

(* All is written, or a write() fails, for want of room or of a reader; the *)
(* caller learns how many bytes were written in any case.                   *)
WriteEnds(c) ==
  /\ c \in blocked
  /\ LET f == m_fd[c] IN
     \/ w[c].left = 0
     \/ ~ReaderOpen(link[f])
     \/ nonblock[f] /\ Len(pipe[link[f]]) = Cap
  /\ done' = [done EXCEPT ![c] = @ + w[c].actual]
  /\ w' = [w EXCEPT ![c] = Idle] /\ blocked' = blocked \ {c}
  /\ UNCHANGED <<m_fd, m_mode, kernel, hist>>

(* read_data() with bytes to read; the other results change nothing.        *)
ReadData(c) ==
  /\ m_fd[c] # NoFd
  /\ LET l == link[m_fd[c]] IN
     \E k \in 1 .. Len(pipe[l]) :
       /\ got' = [got EXCEPT ![l] = @ \o SubSeq(pipe[l], 1, k)]
       /\ pipe' = [pipe EXCEPT ![l] = SubSeq(@, k + 1, Len(@))]
  /\ UNCHANGED <<object, writes, sock, nonblock, link, backlog,
                 overwrote, astray, gaveUp>>

-----------------------------------------------------------------------------
(* The connections listen() makes only read here.                           *)
Next ==
  \/ \E o \in Objects : Close(o)
  \/ \E o \in Objects, mode \in {"synchronous", "asynchronous"} :
       mode # m_mode[o] /\ SetMode(o, mode)
  \/ ConnectBlock \/ ConnectBlockEnds \/ ConnectNonBlockFirst \/ ConnectNonBlockAgain
  \/ ListenBlock \/ ListenBlockEnds \/ ListenNonBlock
  \/ \E c \in CConns, n \in 1 .. MaxBytes : WriteCall(c, n)
  \/ \E c \in CConns : WriteRound(c) \/ WriteEnds(c)
  \/ \E c \in SConns : ReadData(c)
  \/ \E f \in Fds : KernelConnect(f)

Spec == Init /\ [][Next]_vars

-----------------------------------------------------------------------------
(* A descriptor belongs to one object, which can close it: connect() and    *)
(* listen() hand it over and keep nothing, and no call closes a descriptor  *)
(* some other object uses.                                                  *)
OneOwner ==
  \A o \in Objects :
    m_fd[o] # NoFd => /\ sock[m_fd[o]] # "free"
                      /\ \A p \in Objects : m_fd[p] = m_fd[o] => p = o

(* Every open descriptor is in some object, whatever step of connect(),     *)
(* listen() or accept() failed, unless a synchronous connect() was made     *)
(* with an attempt still in the object.                                     *)
NoDescriptorLeaks ==
  ~overwrote => \A f \in Fds : sock[f] # "free" => \E o \in Objects : m_fd[o] = f

(* A descriptor waits or does not as the mode says that its object reports, *)
(* and does not within a connect() that waits itself, whichever object made *)
(* it and whoever has it now.  Only one whose last fcntl() failed differs,  *)
(* or that accept() made for an asynchronous server: it waits until a       *)
(* set_mode() succeeds, and a connection takes the difference over with it. *)
NoWait(o) == m_mode[o] = "asynchronous" \/ (o = Client /\ o \in blocked)
ModeMatchesFlag ==
  \A o \in Objects :
    m_fd[o] # NoFd /\ m_fd[o] \notin astray => nonblock[m_fd[o]] = NoWait(o)

(* A caller that goes on after the actual_len it was told, whatever partial *)
(* writes and would_block results there were, has its bytes arrive in their *)
(* order, none twice and none left out, and what it was told is what the    *)
(* kernel took.                                                             *)
StreamIntact ==
  /\ \A l \in Links : LET s == got[l] \o pipe[l] IN s = [i \in 1 .. Len(s) |-> i]
  /\ \A c \in CConns :
       m_fd[c] # NoFd =>
         LET l == link[m_fd[c]] IN
         done[c] + w[c].actual = Len(got[l]) + Len(pipe[l])

(* The comment of p_connect_non_block(): it "is called repeatedly until it  *)
(* either fails or succeeds", so a call does not end an attempt that is     *)
(* still in progress.                                                       *)
ConnectKeepsTrying == ~gaveUp
=============================================================================
