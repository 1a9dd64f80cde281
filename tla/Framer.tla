------------------------------- MODULE Framer -------------------------------
(***************************************************************************)
(* The three frame parsers of util_lib/generic_framer.  A framer cuts the  *)
(* byte stream of each of its streams into frames, whatever the sizes of   *)
(* the chunks it is handed.  generic_framer and generic_framer1 read a     *)
(* length of two bytes, which counts itself or not; generic_framer2 reads  *)
(* four bytes, which count themselves.                                     *)
(*                                                                         *)
(* A step is one round of the loop of parse_raw_rx_data().  rx stands for  *)
(* the first m_rx_len bytes of m_rx_buf.  A byte is a digit of Base, least *)
(* significant first, so that a small Base gives a short length field.     *)
(***************************************************************************)
EXTENDS Naturals, Sequences

CONSTANTS Streams,    (* stream numbers below m_number_of_streams           *)
          OutOfRange, (* a number that is not                               *)
          Base,       (* 256                                                *)
          MaxArgs,    (* values of max_rx_frame_size, a short but for       *)
                      (* generic_framer2                                    *)
          NoStream,   (* cur of an object that is not parsing               *)
          Wires       (* Wires[k][s]: byte sequences a peer may send on s   *)

ASSUME StreamsAssumption == {OutOfRange, NoStream} \cap Streams = {}
ASSUME BaseAssumption    == Base \in Nat \ {0, 1, 2}

Kinds == {"generic_framer", "generic_framer1", "generic_framer2"}
Byte  == 0 .. Base - 1
Word2 == Base * Base              (* unsigned short: 65536 *)
Word4 == Word2 * Word2            (* unsigned int: 2^32    *)

ASSUME MaxAssumption   == MaxArgs \subseteq 0 .. Word4 - 1
ASSUME WiresAssumption == \A k \in Kinds, s \in Streams : Wires[k][s] \subseteq Seq(Byte)

VARIABLES kind,      (* the class of the object                              *)
          max,       (* m_max_rx_frame_length                                *)
          state,     (* m_rx_frame_state of each stream                      *)
          required,  (* m_required_len of each stream                        *)
          rx,        (* what is in m_rx_buf of each stream                   *)
          cur,       (* the stream parse_raw_rx_data() works on, if any      *)
          src, ret,  (* its chunk, without the bytes read; its result so far *)
          wire,      (* bytes still to arrive on each stream                 *)
          (* history, read by properties only; both start again when the     *)
          (* stream is cleared                                               *)
          taken,     (* bytes read                                           *)
          frames     (* frames handed to process_rx_frame()                  *)

vars == <<kind, max, state, required, rx, cur, src, ret, wire, taken, frames>>

Results == {"no_error", "hdr_len_range", "stream_range", "body_len_range", "callback"}
States(k) == IF k = "generic_framer2" THEN {"idle", "hdr", "body"} ELSE {"hdr1", "hdr2", "body"}

HdrLen(k) == IF k = "generic_framer2" THEN 4 ELSE 2
FirstHdr1(k) == "hdr1"    (* variant: the state of the other two classes *)
First(k)  == IF k = "generic_framer2" THEN "idle" ELSE "hdr1"

(* *(unsigned short * )m_rx_buf, *(unsigned int * )m_rx_buf                  *)
UShort(b) == b[1] + Base * b[2]
UInt(b)   == UShort(b) + Word2 * (b[3] + Base * b[4])

TypeOK ==
  /\ kind \in Kinds /\ max \in Nat
  /\ state \in [Streams -> States(kind)] /\ required \in [Streams -> Nat]
  /\ rx \in [Streams -> Seq(Byte)]
  /\ cur \in Streams \cup {NoStream}
  /\ src \in Seq(Byte) /\ ret \in Results
  /\ wire \in [Streams -> Seq(Byte)] /\ taken \in [Streams -> Seq(Byte)]
  /\ frames \in [Streams -> Seq(Seq(Byte))]

-----------------------------------------------------------------------------
Init ==
  /\ kind \in Kinds
  /\ \E m \in MaxArgs :
       /\ kind = "generic_framer2" \/ m < Word2
       /\ max = IF m < HdrLen(kind) THEN HdrLen(kind) ELSE m
  /\ state = [s \in Streams |-> First(kind)]
  /\ required = [s \in Streams |-> 0]
  /\ rx = [s \in Streams |-> <<>>]
  /\ cur = NoStream /\ src = <<>> /\ ret = "no_error"
  /\ wire \in [Streams -> UNION { Wires[kind][s] : s \in Streams }]
  /\ \A s \in Streams : wire[s] \in Wires[kind][s]
  /\ taken = [s \in Streams |-> <<>>] /\ frames = [s \in Streams |-> <<>>]

(* parse_raw_rx_data(s, chunk): the next n bytes of the stream.             *)
Parse(s, n) ==
  /\ cur = NoStream
  /\ n \in 1 .. Len(wire[s])
  /\ cur' = s /\ ret' = "no_error"
  /\ src' = SubSeq(wire[s], 1, n)
  /\ wire' = [wire EXCEPT ![s] = SubSeq(@, n + 1, Len(@))]
  /\ UNCHANGED <<kind, max, state, required, rx, taken, frames>>

(* parse_raw_rx_data() and clear() of a stream there is not.                *)
RefuseStream(s) ==
  /\ cur = NoStream /\ s \notin Streams
  /\ ret' = "stream_range"
  /\ UNCHANGED <<kind, max, state, required, rx, cur, src, wire, taken, frames>>

Forget(s) == /\ taken' = [taken EXCEPT ![s] = <<>>]
             /\ frames' = [frames EXCEPT ![s] = <<>>]

(* clear()                                                                  *)
Clear(s) ==
  /\ cur = NoStream
  /\ state' = [state EXCEPT ![s] = First(kind)]
  /\ Forget(s)
  /\ UNCHANGED <<kind, max, required, rx, cur, src, ret, wire>>

-----------------------------------------------------------------------------
(* while (len && ret == E_frmr_no_error)                                    *)
InLoop(s) == cur = s /\ src # <<>> /\ ret = "no_error"

Read(s, n) == /\ src' = SubSeq(src, n + 1, Len(src))
              /\ taken' = [taken EXCEPT ![s] = @ \o SubSeq(src, 1, n)]

(* A round that ends with the header in m_rx_buf; read: bytes it took.      *)
Header(s, bytes, where) ==
  /\ rx' = [rx EXCEPT ![s] = bytes]
  /\ state' = [state EXCEPT ![s] = where]
  /\ Read(s, 1)

Min(a, b) == IF a < b THEN a ELSE b

TooLongBody(len) == len > max + HdrLen(kind)    (* variant: forgets the header *)
TooLong(len) == len > max

(* case frame_state_body, entered with a header of h more bytes just read:  *)
(* got is the frame so far, need the bytes it still lacks.                  *)
Body(s, h, got, need) ==
  LET clen == Min(Len(src) - h, need)
      frame == got \o SubSeq(src, h + 1, h + clen)
  IN IF TooLong(Len(got) + clen)
     THEN /\ ret' = "body_len_range"
          /\ rx' = [rx EXCEPT ![s] = got]
          /\ required' = [required EXCEPT ![s] = need]
          /\ state' = [state EXCEPT ![s] = "body"]
          /\ Read(s, h)
          /\ UNCHANGED frames
     ELSE /\ rx' = [rx EXCEPT ![s] = frame]
          /\ required' = [required EXCEPT ![s] = need - clen]
          /\ Read(s, h + clen)
          /\ IF need = clen
             THEN /\ frames' = [frames EXCEPT ![s] = Append(@, frame)]
                  /\ ret' \in {"no_error", "callback"}
                  /\ state' = [state EXCEPT ![s] = First(kind)]
             ELSE /\ state' = [state EXCEPT ![s] = "body"]
                  /\ UNCHANGED <<ret, frames>>

BadHeader(s, got, need) ==
  /\ Header(s, got, "body")
  /\ required' = [required EXCEPT ![s] = need]
  /\ ret' = "hdr_len_range"
  /\ UNCHANGED frames

Frame == UNCHANGED <<kind, max, cur, wire>>

Hdr1(s) ==
  /\ InLoop(s) /\ state[s] = "hdr1"
  /\ Header(s, <<Head(src)>>, "hdr2")
  /\ UNCHANGED <<required, ret, frames>> /\ Frame

(* generic_framer: the length counts the header; falls through to the body. *)
KeepHeader(len) == len    (* variant: the header is not taken off *)
LessHeader(len) == len - 2

Hdr2(s) ==
  LET got == Append(rx[s], Head(src))
      len == UShort(got)
  IN /\ kind = "generic_framer"
     /\ InLoop(s) /\ state[s] = "hdr2"
     /\ IF len < 2 THEN BadHeader(s, got, len)
                   ELSE Body(s, 1, got, LessHeader(len))
     /\ Frame

(* generic_framer1: the length does not count the header.                   *)
Hdr2Of1(s) ==
  LET got == Append(rx[s], Head(src))
      len == UShort(got)
  IN /\ kind = "generic_framer1"
     /\ InLoop(s) /\ state[s] = "hdr2"
     /\ IF len < 2 THEN BadHeader(s, got, len) ELSE Body(s, 1, got, len)
     /\ Frame

NeverTooShort(need) == FALSE    (* variant: no check *)
TooShort(need) == need < 4

LessHeader4(len) == IF len < 4 THEN len + Word4 - 4 ELSE len - 4    (* unsigned *)

(* generic_framer2: the four bytes of the length one at a time.             *)
HdrOf2(s) ==
  LET got == IF state[s] = "idle" THEN <<Head(src)>> ELSE Append(rx[s], Head(src))
      need == LessHeader4(UInt(got))
  IN /\ InLoop(s) /\ state[s] \in {"idle", "hdr"}
     /\ IF Len(got) # 4
        THEN /\ Header(s, got, "hdr")
             /\ UNCHANGED <<required, ret, frames>>
        ELSE IF TooShort(need)
             THEN BadHeader(s, got, need)
             ELSE /\ Header(s, got, "body")
                  /\ required' = [required EXCEPT ![s] = need]
                  /\ UNCHANGED <<ret, frames>>
     /\ Frame

BodyRound(s) ==
  /\ InLoop(s) /\ state[s] = "body"
  /\ Body(s, 0, rx[s], required[s])
  /\ Frame

(* The loop is left; on an error the stream is cleared and the rest of the  *)
(* chunk is dropped.                                                        *)
NoClear(s) == UNCHANGED <<state, taken, frames>>    (* variant *)
ClearStream(s) == state' = [state EXCEPT ![s] = First(kind)] /\ Forget(s)

Return(s) ==
  /\ cur = s
  /\ src = <<>> \/ ret # "no_error"
  /\ IF ret # "no_error" THEN ClearStream(s) ELSE UNCHANGED <<state, taken, frames>>
  /\ cur' = NoStream /\ src' = <<>>
  /\ UNCHANGED <<kind, max, required, rx, ret, wire>>

Round(s) == Hdr1(s) \/ Hdr2(s) \/ Hdr2Of1(s) \/ HdrOf2(s) \/ BodyRound(s)

Next == \/ \E s \in Streams :
             \/ \E n \in 1 .. Len(wire[s]) : Parse(s, n)
             \/ Round(s) \/ Return(s) \/ Clear(s)
        \/ RefuseStream(OutOfRange)

Spec == Init /\ [][Next]_vars

-----------------------------------------------------------------------------
(* Properties.                                                              *)

(* The bytes a complete header says its frame has, header included.         *)
Announced(b) ==
  CASE kind = "generic_framer"  -> UShort(b)
    [] kind = "generic_framer1" -> UShort(b) + 2
    [] kind = "generic_framer2" -> UInt(b)

(* m_rx_buf is never written beyond the length it was allocated with.       *)
RxBounded == \A s \in Streams : Len(rx[s]) <= max

(* Whatever the chunks, process_rx_frame() is given a frame as long as its  *)
(* own length field says, and no longer than the maximum.                   *)
FramesWellFormed ==
  \A s \in Streams : \A i \in DOMAIN frames[s] :
    LET f == frames[s][i]
    IN /\ Len(f) >= HdrLen(kind) /\ Len(f) <= max
       /\ Len(f) = Announced(f)

(* Every round of the loop of parse_raw_rx_data() takes a byte or ends the  *)
(* call, so that the call returns.                                          *)
RoundsProgress ==
  [][ \A s \in Streams :
        InLoop(s) /\ cur' = s => Len(src') < Len(src) \/ ret' # "no_error" ]_vars
=============================================================================
