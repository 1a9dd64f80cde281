----------------------------- MODULE Multicast ------------------------------
(***************************************************************************)
(* util_lib/multicast: an object that reads or writes datagrams, the       *)
(* descriptor the kernel keeps for it and the datagrams that wait there.   *)
(* errno keeps the last error of the process, also when a call succeeds.   *)
(***************************************************************************)
EXTENDS Integers, Sequences

CONSTANTS Lengths, Rooms,   (* bytes of datagrams, and of buffers to read    *)
          MaxWaiting,       (* bound: datagrams that wait at a time          *)
          Midnight,         (* seconds of a day                              *)
          MaxTime           (* bound: seconds that pass                      *)

VARIABLES m_fd, m_mode, m_open_type,
          kernel,           (* the descriptor: what it is, and what waits    *)
          errno,
          told,             (* result and effect of the last call            *)
          now,
          closeFailed,      (* history: ::close() failed, for what it holds  *)
          modeSet           (* history: mode() succeeded since open()        *)

multicast == <<m_fd, m_mode, m_open_type, kernel, errno, told, now, closeFailed, modeSet>>

NoDatagram == [len |-> -1, at |-> 0]
NoSocket   == [open |-> FALSE, type |-> "none", nonblock |-> FALSE, timeout |-> FALSE,
               waiting |-> <<>>]
Told(op, ret) == [op |-> op, ret |-> ret, rx_len |-> 0, room |-> 0, took |-> NoDatagram,
                  stamp |-> -1, epoch |-> FALSE, out |-> -1, len |-> 0]
Errors == {"EINTR", "EAGAIN", "EIO"}

Init ==
  /\ m_fd = -1 /\ m_mode = "synchronous" /\ m_open_type = "read"
  /\ kernel = NoSocket /\ errno = "EIO" /\ told = Told("none", "no_error")
  /\ now = 0 /\ closeFailed = FALSE /\ modeSet = FALSE

-----------------------------------------------------------------------------
(* close(): m_fd is kept when ::close() fails, which may have closed it.    *)
CloseForgets(fails, freed) ==              (* variant: m_fd is given up     *)
  /\ kernel' = IF freed THEN NoSocket ELSE kernel
  /\ m_fd' = -1 /\ closeFailed' = fails
CloseHeld(fails, freed) ==
  /\ kernel' = IF freed THEN NoSocket ELSE kernel
  /\ m_fd' = IF fails THEN m_fd ELSE -1
  /\ closeFailed' = fails
Close(fails, freed) ==
  /\ IF m_fd = -1
     THEN told' = Told("close", "closed_already") /\ UNCHANGED <<m_fd, kernel, closeFailed>>
     ELSE /\ fails \/ freed
          /\ ~kernel.open => fails
          /\ CloseHeld(fails, freed)
          /\ told' = Told("close", IF fails THEN "close" ELSE "no_error")
  /\ UNCHANGED <<m_mode, m_open_type, errno, now, modeSet>>

(* open(): p_open_for_read() and p_open_for_write() set up the socket, and  *)
(* any of their options may fail; it is then closed again.                  *)
p_open_for_read  == {"set_timestamp", "set_sock_reuse", "add_membership", "set_buffer", "bind"}
p_open_for_write == {"set_write_interface", "set_loopback_enabled", "set_buffer"}
Open(type) ==
  /\ IF m_fd # -1
     THEN /\ told' = Told("open", "open_already")
          /\ UNCHANGED <<m_fd, m_open_type, kernel, closeFailed, modeSet>>
     ELSE \/ /\ told' = Told("open", "socket")
             /\ UNCHANGED <<m_fd, m_open_type, kernel, closeFailed, modeSet>>
          \/ /\ m_fd' = 3 /\ kernel' = [NoSocket EXCEPT !.open = TRUE, !.type = type]
             /\ told' = Told("open", "no_error")
             /\ m_open_type' = type /\ closeFailed' = FALSE /\ modeSet' = FALSE
          \/ \E error \in IF type = "read" THEN p_open_for_read ELSE p_open_for_write,
                fails, freed \in BOOLEAN :
             /\ fails \/ freed
             /\ m_fd' = IF fails THEN 3 ELSE -1
             /\ kernel' = IF freed THEN NoSocket ELSE [NoSocket EXCEPT !.open = TRUE, !.type = type]
             /\ closeFailed' = fails /\ modeSet' = FALSE
             /\ told' = Told("open", error) /\ m_open_type' = type
  /\ UNCHANGED <<m_mode, errno, now>>

-----------------------------------------------------------------------------
(* What recvfrom() or recvmsg() returns: the next datagram, which counts    *)
(* for no more bytes than there is room, or an error.  It returns when a    *)
(* datagram is there, a signal comes, or the descriptor does not wait.      *)
Cut(len, room) == IF len < room THEN len ELSE room
Received(n, took, error) ==
  \/ /\ kernel.open /\ kernel.waiting # <<>>
     /\ took = Head(kernel.waiting) /\ error = errno /\ n = "datagram"
  \/ /\ took = NoDatagram /\ n = "failed"
     /\ \/ error = "EIO"
        \/ error = "EINTR" /\ kernel.open
        \/ error = "EAGAIN" /\ kernel.open /\ kernel.waiting = <<>>
             /\ (kernel.nonblock \/ kernel.timeout)
Result(error) == CASE error = "EINTR" -> "no_error" [] error = "EAGAIN" -> "would_block"
                   [] OTHER -> "read"
Refused(op) ==
  CASE m_fd = -1 -> Told(op, "closed_already") [] OTHER -> Told(op, "illegal_operation")
Took(n) == IF n = "datagram" THEN [kernel EXCEPT !.waiting = Tail(@)] ELSE kernel

(* read(): a datagram is read also when it is empty.                        *)
ReadTells(n, took, error, room) ==
  IF n = "datagram"
  THEN [Told("read", "no_error") EXCEPT !.rx_len = Cut(took.len, room), !.room = room, !.took = took]
  ELSE [Told("read", Result(error)) EXCEPT !.took = took]
Read(room) ==
  /\ IF m_fd = -1 \/ m_open_type = "write" THEN told' = Refused("read") /\ UNCHANGED <<kernel, errno>>
     ELSE \E n \in {"datagram", "failed"}, error \in Errors,
             took \in {NoDatagram} \cup {kernel.waiting[i] : i \in DOMAIN kernel.waiting} :
          /\ Received(n, took, error)
          /\ told' = ReadTells(n, took, error, room)
          /\ kernel' = Took(n) /\ errno' = error
  /\ UNCHANGED <<m_fd, m_mode, m_open_type, now, closeFailed, modeSet>>

(* read() with the kernel's time: an empty datagram is judged by the errno  *)
(* of some earlier call, and rx_len is -1 after an error.                   *)
Stamp(at, epoch) == IF epoch THEN at ELSE at % Midnight
ReadStamped(room, epoch) ==
  /\ IF m_fd = -1 \/ m_open_type = "write" THEN told' = Refused("stamped") /\ UNCHANGED <<kernel, errno>>
     ELSE \E n \in {"datagram", "failed"}, error \in Errors,
             took \in {NoDatagram} \cup {kernel.waiting[i] : i \in DOMAIN kernel.waiting} :
          /\ Received(n, took, error)
          /\ told' = LET rx == IF n = "datagram" THEN Cut(took.len, room) ELSE -1
                     IN [Told("stamped", IF rx > 0 THEN "no_error" ELSE Result(error))
                           EXCEPT !.rx_len = rx, !.room = room, !.took = took, !.epoch = epoch,
                                  !.stamp = IF rx > 0 THEN Stamp(took.at, epoch) ELSE -1]
          /\ kernel' = Took(n) /\ errno' = error
  /\ UNCHANGED <<m_fd, m_mode, m_open_type, now, closeFailed, modeSet>>

-----------------------------------------------------------------------------
(* write(): a datagram goes whole, or the kernel says it took less.         *)
Write(len) ==
  /\ IF m_fd = -1 \/ m_open_type = "read" THEN told' = Refused("write") /\ UNCHANGED errno
     ELSE \/ /\ kernel.open /\ UNCHANGED errno
             /\ \E out \in 0 .. len :
                  told' = [Told("write", IF out = len THEN "no_error" ELSE "short_write")
                             EXCEPT !.out = out, !.len = len]
          \/ /\ errno' \in (IF kernel.open THEN Errors ELSE {"EIO"})
             /\ told' = [Told("write", IF errno' = "EAGAIN" THEN "would_block" ELSE "write")
                           EXCEPT !.len = len]
  /\ UNCHANGED <<m_fd, m_mode, m_open_type, kernel, now, closeFailed, modeSet>>

SetReadTimeout(usecs) ==
  /\ IF m_fd = -1 \/ m_open_type = "write" THEN told' = Refused("timeout") /\ UNCHANGED kernel
     ELSE \/ /\ kernel.open /\ kernel' = [kernel EXCEPT !.timeout = usecs # 0]
             /\ told' = Told("timeout", "no_error")
          \/ told' = Told("timeout", "illegal_operation") /\ UNCHANGED kernel
  /\ UNCHANGED <<m_fd, m_mode, m_open_type, errno, now, closeFailed, modeSet>>

(* mode(), p_set_flags() and p_clear_flags(): fcntl() may fail.             *)
FlagErrors(type) == {"get_flags", IF type = "asynchronous" THEN "set_flags" ELSE "clear_flags"}
Mode(type) ==
  /\ \/ m_fd = -1 /\ told' = Told("mode", "closed_already") /\ UNCHANGED <<kernel, m_mode, modeSet>>
     \/ /\ m_fd # -1 /\ kernel.open
        /\ kernel' = [kernel EXCEPT !.nonblock = type = "asynchronous"]
        /\ m_mode' = type /\ modeSet' = TRUE /\ told' = Told("mode", "no_error")
     \/ /\ m_fd # -1
        /\ \E error \in FlagErrors(type) : told' = Told("mode", error)
        /\ UNCHANGED <<kernel, m_mode, modeSet>>
  /\ UNCHANGED <<m_fd, m_open_type, errno, now, closeFailed>>

(* The network: a datagram comes, and time passes.                          *)
Arrive(len) ==
  /\ kernel.type = "read" /\ Len(kernel.waiting) < MaxWaiting
  /\ kernel' = [kernel EXCEPT !.waiting = Append(@, [len |-> len, at |-> now])]
  /\ told' = Told("none", "no_error")
  /\ UNCHANGED <<m_fd, m_mode, m_open_type, errno, now, closeFailed, modeSet>>
Pass == /\ now < MaxTime /\ now' = now + 1 /\ told' = Told("none", "no_error")
        /\ UNCHANGED <<m_fd, m_mode, m_open_type, kernel, errno, closeFailed, modeSet>>

Next ==
  \/ \E type \in {"read", "write"} : Open(type)
  \/ \E fails, freed \in BOOLEAN : Close(fails, freed)
  \/ \E room \in Rooms : Read(room) \/ \E epoch \in BOOLEAN : ReadStamped(room, epoch)
  \/ \E len \in Lengths : Write(len) \/ Arrive(len)
  \/ \E usecs \in {0, 1} : SetReadTimeout(usecs)
  \/ \E type \in {"synchronous", "asynchronous"} : Mode(type)
  \/ Pass

-----------------------------------------------------------------------------
(* What a read says is what became of the datagram: no bytes are lost but   *)
(* those there is no room for, and "would block" is said only when nothing  *)
(* waited, but for an empty datagram read with its time, whose result is    *)
(* that of an earlier call.  Its time is when it came.                      *)
ReadsTell ==
  /\ told.took.len > 0 /\ told.room > 0 =>
       told.ret = "no_error" /\ told.rx_len = Cut(told.took.len, told.room)
  /\ told.ret = "would_block" /\ told.op = "read" => told.took = NoDatagram
  /\ told.ret = "would_block" /\ told.op = "stamped" =>
       told.rx_len <= 0 /\ (told.took = NoDatagram \/ told.took.len = 0 \/ told.room = 0)
  /\ told.stamp # -1 /\ told.epoch  => told.stamp = told.took.at
  /\ told.stamp # -1 /\ ~told.epoch => told.stamp \in {told.took.at, told.took.at - Midnight}
  /\ told.op = "write" => (told.ret = "no_error") = (told.out = told.len)

(* The object holds each descriptor it opened, and only those, unless       *)
(* close() failed; mode() says what the descriptor does; datagrams are read *)
(* from a descriptor opened to read, and written to one opened to write.    *)
DescriptorHeld ==
  /\ kernel.open => m_fd # -1
  /\ m_fd # -1 => kernel.open \/ closeFailed
  /\ told.op = "open" /\ told.ret \notin {"no_error", "open_already"} => m_fd = -1 \/ closeFailed
  /\ modeSet /\ kernel.open => kernel.nonblock = (m_mode = "asynchronous")
  /\ told.took # NoDatagram => kernel.type = "read"
  /\ told.out # -1 => kernel.type = "write"
=============================================================================
