------------------------------ MODULE MCFramer ------------------------------
(* Framer for TLC, and the reference it is compared with: the frames of a   *)
(* byte sequence, read all at once.                                         *)
EXTENDS Framer

Digit(v, i) == CASE i = 1 -> v % Base
                 [] i = 2 -> (v \div Base) % Base
                 [] i = 3 -> (v \div Word2) % Base
                 [] i = 4 -> v \div (Word2 * Base)

(* A frame with length field v and a body of n bytes.                       *)
Item(k, v, n) == [i \in 1 .. HdrLen(k) |-> Digit(v, i)] \o [i \in 1 .. n |-> i % Base]

(* How many bytes follow a header with length field v.                      *)
BodyLen(k, v) == IF k = "generic_framer1" THEN v
                 ELSE IF v < HdrLen(k) THEN 0 ELSE v - HdrLen(k)

Honest(k, v) == Item(k, v, BodyLen(k, v))

(* Bytes of the shortest frame whose header is accepted.                    *)
Least(k) == CASE k = "generic_framer"  -> 2
              [] k = "generic_framer1" -> 4
              [] k = "generic_framer2" -> 8

(* The first stream carries a frame with any small length field, right or   *)
(* wrong, and a frame; the second up to four bytes of one.                  *)
MCWires ==
  [k \in Kinds |-> [s \in Streams |->
    IF s = 0 THEN { Honest(k, v) \o Honest(k, IF k = "generic_framer2" THEN 8 ELSE 3) :
                      v \in 0 .. Least(k) + 3 }
             ELSE { IF k = "generic_framer2" THEN Item(k, 8, 0) ELSE Honest(k, Least(k)) }]]

-----------------------------------------------------------------------------
(* The complete frames at the start of b, up to the first header the code   *)
(* refuses or frame beyond the maximum m.                                   *)
RefLength(k, b) == CASE k = "generic_framer"  -> UShort(b)
                     [] k = "generic_framer1" -> UShort(b) + 2
                     [] k = "generic_framer2" -> UInt(b)
NoFrame(k, m, b) ==
  \/ Len(b) < HdrLen(k)
  \/ LET total == RefLength(k, b) IN total < Least(k) \/ total > m \/ Len(b) < total
FirstFrame(k, b) == SubSeq(b, 1, RefLength(k, b))
AfterFrame(k, b) == SubSeq(b, RefLength(k, b) + 1, Len(b))
RefFrames(k, m) ==
  LET f[b \in Seq(Byte)] == IF NoFrame(k, m, b) THEN <<>>
                            ELSE <<FirstFrame(k, b)>> \o f[AfterFrame(k, b)]
  IN f

(* However the bytes of a stream are cut into chunks and interleaved with   *)
(* those of other streams, the frames handed to process_rx_frame() since    *)
(* the stream was last cleared are those of the bytes read since.           *)
FramesAreReference == \A s \in Streams : frames[s] = RefFrames(kind, max)[taken[s]]
=============================================================================
