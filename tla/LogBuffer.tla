------------------------------ MODULE LogBuffer -----------------------------
(***************************************************************************)
(* logger::process_data(): a message is copied into the log buffer, each of*)
(* its lines after a header of fixed length, and the buffer is handed to   *)
(* p_do_work() when it is full and, without buffering, at the end of the   *)
(* message.  One step is one character.                                    *)
(***************************************************************************)
EXTENDS Naturals, Sequences

CONSTANTS Size,           (* sz_log_buf                                     *)
          Extra,          (* the bytes allocated after them, 200            *)
          Header,         (* the length of a header: 35 and that of a name  *)
          Messages        (* set: messages, sequences of Characters         *)

Characters == {"x", "nl", "cr", "nul"}

VARIABLES cptr,           (* m_cptr - m_buf                                 *)
          buffered,       (* m_buffered                                     *)
          busy,           (* process_data() is under way                    *)
          rest,           (* what it has still to copy                      *)
          c,              (* the character it copied last                   *)
          (* history, read by properties only *)
          high,           (* the highest end of a write into the buffer     *)
          last,           (* the last thing put into the log: a header, ... *)
          broken          (* a line without a header, or one in a line      *)

vars == <<cptr, buffered, busy, rest, c, high, last, broken>>

Init ==
  /\ cptr = 0 /\ buffered = TRUE /\ busy = FALSE /\ rest = <<>> /\ c = "nl"
  /\ high = 0 /\ last = "nl" /\ broken = FALSE

Highest(end) == IF end > high THEN end ELSE high

(* << on the log ends: process_data() is called.                            *)
Process(message) ==
  /\ ~busy /\ busy' = TRUE /\ rest' = message /\ c' = "nl"
  /\ UNCHANGED <<cptr, buffered, high, last, broken>>

(* The calls that set the mode or flush the buffer; all take the lock that  *)
(* the LOG macro holds around process_data().                               *)
Call(b, to) ==
  /\ ~busy /\ buffered' = b /\ cptr' = to
  /\ UNCHANGED <<busy, rest, c, high, last, broken>>
EnableBuffered == Call(TRUE, cptr)
DisableBuffered == Call(FALSE, 0)
Flush == Call(buffered, 0)

(* A round of its loop.  p_do_work() takes the buffer and gives an empty one.*)
Ends == {"nl", "cr", "nul"}
AsLog(ch) == IF ch \in Ends THEN "nl" ELSE ch
Full(end) == end >= Size
Copy ==
  /\ busy /\ rest # <<>>
  /\ LET head == IF c = "nl" THEN Header ELSE 0
         end  == cptr + head + 1
     IN /\ cptr' = IF Full(end) THEN 0 ELSE end
        /\ high' = Highest(end)
        /\ broken' = (broken \/ (c = "nl") # (last = "nl"))
  /\ c' = AsLog(Head(rest)) /\ last' = AsLog(Head(rest)) /\ rest' = Tail(rest)
  /\ UNCHANGED <<buffered, busy>>

(* After the loop: the line is ended, and the buffer handed over unless it  *)
(* is kept, which a forced flush may do as well.                            *)
NoNewLine == FALSE                                  (* variant *)
EndsLine == c # "nl"
Finish ==
  /\ busy /\ rest = <<>> /\ busy' = FALSE
  /\ LET end == IF EndsLine THEN cptr + 1 ELSE cptr IN
     /\ high' = Highest(end)
     /\ cptr' \in IF ~buffered \/ Full(end) THEN {0} ELSE {0, end}
  /\ last' = IF EndsLine THEN "nl" ELSE last
  /\ UNCHANGED <<buffered, rest, c, broken>>

Next ==
  \/ \E message \in Messages : Process(message)
  \/ EnableBuffered \/ DisableBuffered \/ Flush
  \/ Copy \/ Finish
Spec == Init /\ [][Next]_vars

-----------------------------------------------------------------------------
(* No write goes beyond the bytes allocated, though a header may begin at   *)
(* the last byte before the buffer is full: a header must fit Extra.        *)
NoOverrun == Header <= Extra => high <= Size + Extra /\ cptr <= Size

(* Every line of the log begins with a header and no header is inside one,  *)
(* wherever the buffer was handed over and whatever ends a message.         *)
LinesHeaded == ~broken
=============================================================================
