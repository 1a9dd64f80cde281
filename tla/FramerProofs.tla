---------------------------- MODULE FramerProofs ----------------------------
(***************************************************************************)
(* The receive buffer of the three framers is never overrun and the frames *)
(* they deliver have the length they announce: for every byte base, every  *)
(* maximum, any streams and any bytes, right or wrong.                     *)
(***************************************************************************)
EXTENDS MCFramer, Recursions, SequenceTheorems, TLAPS

(* Lengths are below the range of an unsigned int.                          *)
LEMMA Words == /\ Word2 \in Nat /\ Word2 >= 9
               /\ Word4 \in Nat /\ Word4 >= 9 * Word2
  <1>1. Base >= 3 /\ Base \in Nat
    BY BaseAssumption
  <1>2. Base * Base >= 3 * Base
    BY <1>1
  <1>3. Word2 \in Nat /\ Word2 >= 9
    BY <1>1, <1>2 DEF Word2
  <1>4. Word2 * Word2 >= 9 * Word2
    BY <1>3
  <1> QED
    BY <1>3, <1>4 DEF Word4

(* A length field is a number, and depends on the first bytes only.         *)
LEMMA LengthFields ==
  ASSUME NEW b \in Seq(Byte), NEW c \in Seq(Byte), Len(b) >= HdrLen(kind)
  PROVE  /\ UShort(b) \in Nat /\ UShort(b \o c) = UShort(b)
         /\ kind = "generic_framer2" => UInt(b) \in Nat /\ UInt(b \o c) = UInt(b)
  <1>1. Len(b) \in Nat /\ Len(b) >= 2 /\ (kind = "generic_framer2" => Len(b) >= 4)
    BY DEF HdrLen
  <1>2. b[1] \in Nat /\ b[2] \in Nat
    BY <1>1, BaseAssumption DEF Byte
  <1>3. kind = "generic_framer2" => b[3] \in Nat /\ b[4] \in Nat
    BY <1>1, BaseAssumption DEF Byte
  <1>4. \A i \in 1 .. Len(b) : (b \o c)[i] = b[i]
    BY <1>1
  <1>5. (b \o c)[1] = b[1] /\ (b \o c)[2] = b[2]
    BY <1>1, <1>4
  <1>6. kind = "generic_framer2" => (b \o c)[3] = b[3] /\ (b \o c)[4] = b[4]
    BY <1>1, <1>4
  <1>7. \A n \in Nat : Base * n \in Nat /\ Word2 * n \in Nat
    <2>1. \A m, n \in Nat : m * n \in Nat
      OBVIOUS
    <2>2. Base \in Nat /\ Word2 \in Nat
      BY BaseAssumption, Words
    <2> QED
      BY <2>1, <2>2
  <1>8. UShort(b) \in Nat
    <2>1. Base * b[2] \in Nat
      BY <1>2, <1>7
    <2>2. UShort(b) = b[1] + Base * b[2]
      BY DEF UShort
    <2> QED
      BY <1>2, <2>1, <2>2
  <1>9. kind = "generic_framer2" => UInt(b) \in Nat
    <2> SUFFICES ASSUME kind = "generic_framer2" PROVE UInt(b) \in Nat
      OBVIOUS
    <2>1. b[3] + Base * b[4] \in Nat
      <3>1. b[3] \in Nat /\ b[4] \in Nat
        BY <1>3
      <3>2. Base * b[4] \in Nat
        BY <1>7, <3>1
      <3> QED
        BY <3>1, <3>2
    <2>2. Word2 * (b[3] + Base * b[4]) \in Nat
      BY <1>7, <2>1
    <2> QED
      BY <1>8, <2>2 DEF UInt
  <1> QED
    BY <1>5, <1>6, <1>8, <1>9 DEF UShort, UInt

(* The same, of one sequence.                                               *)
LEMMA LengthIsNat ==
  ASSUME NEW b \in Seq(Byte), Len(b) >= HdrLen(kind)
  PROVE  UShort(b) \in Nat /\ (kind = "generic_framer2" => UInt(b) \in Nat)
  <1>1. <<>> \in Seq(Byte)
    OBVIOUS
  <1> QED
    BY <1>1, LengthFields

-----------------------------------------------------------------------------
(* The bytes a frame will have, as m_required_len counts them: a length     *)
(* below 4 wraps round in generic_framer2.                                  *)
Total(b) == IF kind = "generic_framer2" /\ UInt(b) < 4 THEN UInt(b) + Word4
            ELSE Announced(b)

(* Until an error has been met, m_required_len is what the frame in m_rx_buf *)
(* still lacks.                                                             *)
InFrame(s) == /\ Len(rx[s]) >= HdrLen(kind) /\ required[s] > 0
              /\ Len(rx[s]) + required[s] = Total(rx[s])

StreamInv(s) ==
  /\ state[s] = "hdr2" => Len(rx[s]) = 1
  /\ state[s] = "hdr" => Len(rx[s]) \in 1 .. 3
  /\ state[s] = "body" /\ ~(cur = s /\ ret # "no_error") => InFrame(s)

FramerInv == /\ max >= HdrLen(kind) /\ (kind = "generic_framer2" => max < Word4)
             /\ \A s \in Streams : StreamInv(s)
             /\ RxBounded /\ FramesWellFormed

(* What Total() says of a header it says of the frame that starts with it.  *)
LEMMA TotalOfPrefix ==
  ASSUME kind \in Kinds, NEW b \in Seq(Byte), NEW c \in Seq(Byte), Len(b) >= HdrLen(kind)
  PROVE  Total(b \o c) = Total(b) /\ Total(b) \in Nat
  BY LengthFields, Words DEF Total, Announced, Kinds

(* A chunk of n bytes, and what is left of it.                              *)
LEMMA ReadBytes ==
  ASSUME NEW b \in Seq(Byte), NEW i \in Nat \ {0}, NEW j \in Nat, i <= j + 1, j <= Len(b)
  PROVE  SubSeq(b, i, j) \in Seq(Byte) /\ Len(SubSeq(b, i, j)) = j - i + 1
  <1>1. Len(b) \in Nat
    OBVIOUS
  <1>2. \A k \in i .. j : b[k] \in Byte
    BY <1>1
  <1> QED
    BY <1>1, <1>2, SubSeqProperties

(* The round in which body bytes are copied, or refused.                    *)
LEMMA BodyStep ==
  ASSUME TypeOK, FramerInv, NEW s \in Streams, NEW h \in {0, 1}, Len(src) >= h, cur = s,
         NEW got \in Seq(Byte), Len(got) >= HdrLen(kind), Len(got) <= max,
         NEW need \in Nat, Len(got) + need = Total(got),
         ret = "no_error", Body(s, h, got, need), Frame
  PROVE  TypeOK' /\ FramerInv'
  <1> DEFINE clen  == Min(Len(src) - h, need)
             frame == got \o SubSeq(src, h + 1, h + clen)
  <1>1. /\ clen \in Nat /\ clen <= need /\ h + clen <= Len(src)
        /\ Len(src) \in Nat /\ Len(got) \in Nat /\ max \in Nat
    BY DEF Min, TypeOK
  <1> HIDE DEF clen
  <1>2. frame \in Seq(Byte) /\ Len(frame) = Len(got) + clen
    <2>1. SubSeq(src, h + 1, h + clen) \in Seq(Byte)
          /\ Len(SubSeq(src, h + 1, h + clen)) = clen
      BY <1>1, ReadBytes DEF TypeOK
    <2> QED
      BY <2>1
  <1>3. Total(frame) = Total(got) /\ Total(got) \in Nat
    <2>1. SubSeq(src, h + 1, h + clen) \in Seq(Byte)
      BY <1>1, ReadBytes DEF TypeOK
    <2> QED
      BY <2>1, TotalOfPrefix DEF TypeOK
  <1>4. /\ src' \in Seq(Byte) /\ taken' \in [Streams -> Seq(Byte)]
        /\ UNCHANGED <<kind, max, cur, wire>>
    <2>1. ASSUME NEW n \in {h, h + clen}, Read(s, n)
          PROVE  src' \in Seq(Byte) /\ taken' \in [Streams -> Seq(Byte)]
      <3>1. n \in Nat /\ n <= Len(src)
        BY <1>1
      <3>2. SubSeq(src, n + 1, Len(src)) \in Seq(Byte) /\ SubSeq(src, 1, n) \in Seq(Byte)
        BY <3>1, <1>1, ReadBytes DEF TypeOK
      <3> QED
        BY <2>1, <3>2 DEF Read, TypeOK
    <2> QED
      BY <2>1 DEF Body, Frame, clen
  <1> HIDE DEF frame
  <1>5. CASE Len(got) + clen > max
    <2>1. /\ ret' = "body_len_range" /\ rx' = [rx EXCEPT ![s] = got]
          /\ required' = [required EXCEPT ![s] = need]
          /\ state' = [state EXCEPT ![s] = "body"] /\ frames' = frames
      BY <1>5 DEF Body, TooLong, clen
    <2>2. TypeOK'
      BY <1>4, <2>1 DEF TypeOK, Results, States
    <2>3. \A u \in Streams : StreamInv(u)'
      BY <1>4, <2>1 DEF FramerInv, StreamInv, InFrame, TypeOK, Total, Announced
    <2>4. RxBounded' /\ FramesWellFormed'
      BY <1>4, <2>1 DEF FramerInv, RxBounded, FramesWellFormed, TypeOK, Announced
    <2> QED
      BY <1>4, <2>2, <2>3, <2>4 DEF FramerInv
  <1>6. CASE Len(got) + clen <= max
    <2>0. ~TooLong(Len(got) + clen)
      BY <1>1, <1>6 DEF TooLong
    <2>1. /\ rx' = [rx EXCEPT ![s] = frame]
          /\ required' = [required EXCEPT ![s] = need - clen]
      BY <2>0 DEF Body, clen, frame
    <2>2. CASE need = clen
      <3>1. /\ frames' = [frames EXCEPT ![s] = Append(@, frame)]
            /\ ret' \in {"no_error", "callback"}
            /\ state' = [state EXCEPT ![s] = First(kind)]
        BY <2>0, <2>2 DEF Body, clen, frame
      <3>2. frames' \in [Streams -> Seq(Seq(Byte))]
        BY <1>2, <3>1 DEF TypeOK
      <3>3. TypeOK'
        <4>1. state' \in [Streams -> States(kind)] /\ ret' \in Results
          BY <3>1 DEF TypeOK, Results, States, First
        <4>2. rx' \in [Streams -> Seq(Byte)] /\ required' \in [Streams -> Nat]
          BY <1>1, <1>2, <2>1 DEF TypeOK
        <4> QED
          BY <1>4, <3>2, <4>1, <4>2 DEF TypeOK, States
      <3>4. \A u \in Streams : StreamInv(u)'
        BY <1>4, <2>1, <3>1 DEF FramerInv, StreamInv, InFrame, TypeOK, Total, Announced, First
      <3>5. RxBounded'
        BY <1>2, <1>4, <1>6, <2>1 DEF FramerInv, RxBounded, TypeOK
      <3>6. Len(frame) >= HdrLen(kind) /\ Len(frame) <= max /\ Len(frame) = Announced(frame)
        <4>1. Len(frame) = Total(frame)
          BY <1>2, <1>3, <2>2
        <4>2. Len(frame) >= HdrLen(kind) /\ Len(frame) <= max
          BY <1>1, <1>2, <1>6 DEF TypeOK, HdrLen
        <4>3. kind = "generic_framer2" => UInt(frame) >= 4
          <5>1. kind = "generic_framer2" => UInt(frame) \in Nat
            BY <1>2, <4>2, LengthFields
          <5> QED
            BY <4>1, <4>2, <5>1, Words DEF Total, FramerInv, TypeOK
        <4> QED
          BY <4>1, <4>2, <4>3, <1>2, LengthFields DEF Total
      <3>7. FramesWellFormed'
        <4> SUFFICES ASSUME NEW u \in Streams, NEW i \in DOMAIN frames'[u]
                     PROVE  LET f == frames'[u][i]
                            IN /\ Len(f) >= HdrLen(kind) /\ Len(f) <= max
                               /\ Len(f) = Announced(f)
          BY <1>4 DEF FramesWellFormed, Announced
        <4>1. frames[u] \in Seq(Seq(Byte))
          BY DEF TypeOK
        <4>2. \/ i \in DOMAIN frames[u] /\ frames'[u][i] = frames[u][i]
              \/ frames'[u][i] = frame
          <5>1. u # s => frames'[u] = frames[u]
            BY <3>1 DEF TypeOK
          <5>2. frames'[s] = Append(frames[s], frame)
            BY <3>1 DEF TypeOK
          <5>3. CASE u = s
            <6>1. i \in 1 .. Len(frames[s]) + 1
              BY <1>2, <4>1, <5>2, <5>3
            <6>2. CASE i = Len(frames[s]) + 1
              BY <1>2, <4>1, <5>2, <5>3, <6>2
            <6>3. CASE i # Len(frames[s]) + 1
              <7>1. i \in 1 .. Len(frames[s]) /\ frames[s] \in Seq(Seq(Byte))
                BY <4>1, <5>3, <6>1, <6>3
              <7>2. Append(frames[s], frame)[i] = frames[s][i]
                BY <1>2, <7>1, AppendProperties
              <7> QED
                BY <5>2, <5>3, <7>1, <7>2
            <6> QED
              BY <6>2, <6>3
          <5> QED
            BY <5>1, <5>3
        <4> QED
          BY <3>6, <4>2 DEF FramerInv, FramesWellFormed
      <3> QED
        BY <1>4, <3>3, <3>4, <3>5, <3>7 DEF FramerInv
    <2>3. CASE need # clen
      <3>1. /\ state' = [state EXCEPT ![s] = "body"] /\ UNCHANGED <<ret, frames>>
        BY <2>0, <2>3 DEF Body, clen, frame
      <3>2. TypeOK'
        <4>1. state' \in [Streams -> States(kind)] /\ need - clen \in Nat
          BY <1>1, <2>3, <3>1 DEF TypeOK, States
        <4>2. rx' \in [Streams -> Seq(Byte)] /\ required' \in [Streams -> Nat]
          BY <1>2, <2>1, <4>1 DEF TypeOK
        <4> QED
          BY <1>4, <3>1, <4>1, <4>2 DEF TypeOK, States
      <3>3. InFrame(s)'
        <4>1. rx'[s] = frame /\ required'[s] = need - clen
          BY <2>1 DEF TypeOK
        <4>2. Len(frame) + (need - clen) = Total(frame)
          BY <1>1, <1>2, <1>3
        <4>3. Len(frame) >= HdrLen(kind) /\ need - clen > 0
          BY <1>1, <1>2, <2>3 DEF HdrLen
        <4> QED
          BY <1>4, <4>1, <4>2, <4>3 DEF InFrame, Total, Announced
      <3>4. \A u \in Streams : StreamInv(u)'
        BY <1>4, <2>1, <3>1, <3>3 DEF FramerInv, StreamInv, InFrame, TypeOK, Total, Announced
      <3>5. RxBounded' /\ FramesWellFormed'
        BY <1>2, <1>4, <1>6, <2>1, <3>1 DEF FramerInv, RxBounded, FramesWellFormed, TypeOK, Announced
      <3> QED
        BY <1>4, <3>2, <3>4, <3>5 DEF FramerInv
    <2> QED
      BY <2>2, <2>3
  <1> QED
    BY <1>1, <1>5, <1>6

(* The next byte of the chunk, appended to what the header has so far.      *)
LEMMA NextByte ==
  ASSUME TypeOK, src # <<>>, NEW s \in Streams
  PROVE  /\ <<Head(src)>> \in Seq(Byte) /\ Append(rx[s], Head(src)) \in Seq(Byte)
         /\ Len(Append(rx[s], Head(src))) = Len(rx[s]) + 1 /\ Len(rx[s]) \in Nat
         /\ Len(src) \in Nat /\ Len(src) >= 1
  <1>1. src \in Seq(Byte) /\ rx[s] \in Seq(Byte)
    BY DEF TypeOK
  <1>2. Head(src) \in Byte
    BY <1>1, HeadTailProperties
  <1>3. Len(src) \in Nat /\ Len(src) >= 1
    BY <1>1, EmptySeq
  <1> QED
    BY <1>1, <1>2, <1>3

(* A round that only puts a header byte into m_rx_buf, or refuses the       *)
(* header.                                                                  *)
LEMMA HeaderStep ==
  ASSUME TypeOK, FramerInv, NEW s \in Streams, src # <<>>, cur = s,
         NEW got \in Seq(Byte), Len(got) <= max, NEW where \in States(kind),
         Header(s, got, where), Frame, frames' = frames,
         required' \in [Streams -> Nat], ret' \in Results,
         \A u \in Streams : u # s => required'[u] = required[u],
         where = "hdr2" => Len(got) = 1,
         where = "hdr" => Len(got) \in 1 .. 3,
         where = "body" /\ ret' = "no_error" =>
           Len(got) >= HdrLen(kind) /\ required'[s] > 0 /\ Len(got) + required'[s] = Total(got)
  PROVE  TypeOK' /\ FramerInv'
  <1>1. rx' = [rx EXCEPT ![s] = got] /\ state' = [state EXCEPT ![s] = where]
        /\ UNCHANGED <<kind, max, cur, wire, frames>>
    BY DEF Header, Frame
  <1>2. src' \in Seq(Byte) /\ taken' \in [Streams -> Seq(Byte)]
    <2>1. Len(src) \in Nat /\ Len(src) >= 1
      BY NextByte
    <2>2. SubSeq(src, 2, Len(src)) \in Seq(Byte) /\ SubSeq(src, 1, 1) \in Seq(Byte)
      BY <2>1, ReadBytes DEF TypeOK
    <2> QED
      BY <2>2 DEF Header, Read, TypeOK
  <1>3. TypeOK'
    BY <1>1, <1>2 DEF TypeOK, States
  <1>4. rx'[s] = got /\ state'[s] = where
    BY <1>1 DEF TypeOK
  <1>5. StreamInv(s)'
    BY <1>1, <1>4 DEF StreamInv, InFrame, Total, Announced
  <1>6. ASSUME NEW u \in Streams, u # s PROVE StreamInv(u)'
    <2>1. rx'[u] = rx[u] /\ state'[u] = state[u] /\ required'[u] = required[u]
      BY <1>1, <1>6 DEF TypeOK
    <2> QED
      BY <1>1, <1>6, <2>1 DEF FramerInv, StreamInv, InFrame, Total, Announced
  <1>7. RxBounded' /\ FramesWellFormed'
    BY <1>1 DEF FramerInv, RxBounded, FramesWellFormed, TypeOK, Announced
  <1> QED
    BY <1>1, <1>3, <1>5, <1>6, <1>7 DEF FramerInv

(* Each round keeps the invariant.                                          *)
LEMMA RoundStep ==
  ASSUME TypeOK, FramerInv, NEW s \in Streams, Round(s)
  PROVE  TypeOK' /\ FramerInv'
  <1>1. InLoop(s) /\ src # <<>> /\ cur = s /\ ret = "no_error"
    BY DEF Round, Hdr1, Hdr2, Hdr2Of1, HdrOf2, BodyRound, InLoop
  <1>2. Len(src) \in Nat /\ Len(src) >= 1
    BY <1>1, NextByte
  <1>2a. <<Head(src)>> \in Seq(Byte) /\ Len(<<Head(src)>>) = 1
    BY <1>1, NextByte
  <1>2b. PICK got \in Seq(Byte) : /\ got = Append(rx[s], Head(src))
                                  /\ Len(got) = Len(rx[s]) + 1
    BY <1>1, NextByte
  <1>3. StreamInv(s) /\ max \in Nat /\ HdrLen(kind) <= max
    BY DEF FramerInv, TypeOK, HdrLen
  <1>4. ret \in Results /\ required \in [Streams -> Nat] /\ kind \in Kinds
    BY DEF TypeOK
  <1>5. state[s] \in States(kind)
    BY DEF TypeOK
  <1>6. /\ state[s] = "hdr2" => Len(got) = 2
        /\ state[s] = "hdr" => Len(got) \in 2 .. 4
    <2>1. /\ state[s] = "hdr2" => Len(rx[s]) = 1
          /\ state[s] = "hdr" => Len(rx[s]) \in 1 .. 3
      BY <1>3, Zenon DEF StreamInv
    <2>2. ASSUME state[s] = "hdr2" PROVE Len(got) = 2
      BY <1>2b, <2>1, <2>2
    <2>3. ASSUME state[s] = "hdr" PROVE Len(got) \in 2 .. 4
      <3>1. Len(rx[s]) \in 1 .. 3
        BY <2>1, <2>3
      <3> QED
        BY <1>2b, <3>1
    <2> QED
      BY <2>2, <2>3
  <1>7. CASE Hdr1(s)
    <2>1. kind # "generic_framer2"
      BY <1>5, <1>7 DEF Hdr1, States
    <2>2. "hdr2" \in States(kind) /\ 1 <= max
      BY <1>3, <2>1 DEF States, HdrLen
    <2>3. Header(s, <<Head(src)>>, "hdr2") /\ Frame /\ UNCHANGED <<required, ret, frames>>
      BY <1>7 DEF Hdr1
    <2> QED
      BY <1>1, <1>2a, <1>4, <2>2, <2>3, HeaderStep
  <1>8. ASSUME kind # "generic_framer2", state[s] = "hdr2", NEW need \in Nat,
               BadHeader(s, got, need), Frame
        PROVE  TypeOK' /\ FramerInv'
    <2>1. "body" \in States(kind) /\ Len(got) <= max
      BY <1>3, <1>6, <1>8 DEF States, HdrLen
    <2>2. /\ Header(s, got, "body") /\ required' = [required EXCEPT ![s] = need]
          /\ ret' = "hdr_len_range" /\ frames' = frames
      BY <1>8 DEF BadHeader
    <2>3. ret' \in Results /\ required' \in [Streams -> Nat]
          /\ \A u \in Streams : u # s => required'[u] = required[u]
      BY <1>4, <2>2 DEF Results
    <2> QED
      BY <1>1, <1>2, <1>8, <2>1, <2>2, <2>3, HeaderStep
  <1>9. CASE Hdr2(s) \/ Hdr2Of1(s)
    <2>1. kind # "generic_framer2" /\ state[s] = "hdr2" /\ Frame
      BY <1>9 DEF Hdr2, Hdr2Of1
    <2>2. Len(got) = 2 /\ HdrLen(kind) = 2 /\ Len(got) >= HdrLen(kind) /\ Len(got) <= max
      <3>1. Len(got) = 2
        BY <1>6, <2>1
      <3>2. HdrLen(kind) = 2
        BY <2>1 DEF HdrLen
      <3>3. HdrLen(kind) <= max
        BY <1>3
      <3> QED
        BY <3>1, <3>2, <3>3
    <2>3. UShort(got) \in Nat
      BY <1>2, <2>2, LengthIsNat
    <2>4. CASE UShort(got) < 2
      BY <1>2b, <1>8, <1>9, <2>1, <2>3, <2>4 DEF Hdr2, Hdr2Of1
    <2>5. CASE UShort(got) >= 2
      <3>1. CASE Hdr2(s)
        <4>1. kind = "generic_framer" /\ Body(s, 1, got, UShort(got) - 2)
          BY <1>2b, <2>3, <2>5, <3>1 DEF Hdr2, LessHeader
        <4>2. UShort(got) - 2 \in Nat /\ Len(got) + (UShort(got) - 2) = Total(got)
          BY <2>2, <2>3, <2>5, <4>1 DEF Total, Announced
        <4> QED
          BY <1>1, <1>2, <2>1, <2>2, <4>1, <4>2, BodyStep
      <3>2. CASE Hdr2Of1(s)
        <4>1. kind = "generic_framer1" /\ Body(s, 1, got, UShort(got))
          BY <1>2b, <2>3, <2>5, <3>2 DEF Hdr2Of1
        <4>2. Len(got) + UShort(got) = Total(got)
          BY <2>2, <2>3, <4>1 DEF Total, Announced
        <4> QED
          BY <1>1, <1>2, <1>3, <2>1, <2>2, <2>3, <4>1, <4>2, BodyStep
      <3> QED
        BY <1>9, <3>1, <3>2
    <2> QED
      BY <2>3, <2>4, <2>5
  <1>10. CASE HdrOf2(s)
    <2>1. kind = "generic_framer2" /\ state[s] \in {"idle", "hdr"} /\ Frame
      BY <1>4, <1>5, <1>10 DEF HdrOf2, States, Kinds
    <2>2. PICK first \in Seq(Byte) :
            /\ first = IF state[s] = "idle" THEN <<Head(src)>> ELSE Append(rx[s], Head(src))
            /\ Len(first) \in 1 .. 4
      <3>1. CASE state[s] = "idle"
        <4>1. 1 \in 1 .. 4
          OBVIOUS
        <4> QED
          BY <1>2a, <3>1, <4>1, Zenon
      <3>2. CASE state[s] = "hdr"
        <4>1. Len(got) \in 2 .. 4
          BY <1>6, <3>2
        <4>2. Len(got) \in 1 .. 4
          BY <4>1
        <4>3. state[s] # "idle"
          BY <3>2
        <4> QED
          BY <1>2b, <4>2, <4>3, Zenon
      <3> QED
        BY <2>1, <3>1, <3>2
    <2>3. {"idle", "hdr", "body"} = States(kind) /\ Len(first) <= max
      BY <1>3, <2>1, <2>2 DEF States, HdrLen
    <2>4. CASE Len(first) # 4
      <3>1. Header(s, first, "hdr") /\ UNCHANGED <<required, ret, frames>>
        BY <2>2, <1>10, <2>4 DEF HdrOf2
      <3> QED
        <4>1. Len(first) \in 1 .. 3 /\ "hdr" \in States(kind)
          BY <2>2, <2>3, <2>4
        <4> QED
          BY <1>1, <1>4, <2>1, <2>2, <2>3, <3>1, <4>1, HeaderStep
    <2>5. CASE Len(first) = 4
      <3> DEFINE need == LessHeader4(UInt(first))
      <3>1. UInt(first) \in Nat
        <4>1. Len(first) >= HdrLen(kind)
          BY <2>1, <2>5 DEF HdrLen
        <4> QED
          BY <2>1, <2>2, <4>1, LengthIsNat
      <3>2. need \in Nat /\ Len(first) + need = Total(first)
        BY <2>1, <2>5, <3>1, Words DEF LessHeader4, Total, Announced
      <3>3. /\ Header(s, first, "body") /\ required' = [required EXCEPT ![s] = need]
            /\ frames' = frames
            /\ ret' = "hdr_len_range" \/ (ret' = ret /\ ~(need < 4))
        BY <2>2, <1>10, <2>5 DEF HdrOf2, BadHeader, TooShort
      <3> HIDE DEF need
      <3>4. /\ required' \in [Streams -> Nat] /\ required'[s] = need /\ ret' \in Results
            /\ \A u \in Streams : u # s => required'[u] = required[u]
        BY <1>4, <3>2, <3>3 DEF Results
      <3>5. ret' = "no_error" => need > 0
        BY <3>2, <3>3
      <3>6. "body" \in States(kind) /\ Len(first) >= HdrLen(kind)
        BY <2>1, <2>2, <2>3, <2>5 DEF HdrLen
      <3> QED
        BY <1>1, <2>1, <2>2, <2>3, <3>2, <3>3, <3>4, <3>5, <3>6, HeaderStep
    <2> QED
      BY <2>4, <2>5
  <1>11. CASE BodyRound(s)
    <2>1. state[s] = "body" /\ Body(s, 0, rx[s], required[s]) /\ Frame
      BY <1>11 DEF BodyRound
    <2>2. InFrame(s) /\ rx[s] \in Seq(Byte) /\ required[s] \in Nat /\ Len(rx[s]) <= max
      BY <1>1, <1>3, <2>1 DEF StreamInv, TypeOK, FramerInv, RxBounded
    <2> QED
      BY <1>1, <1>2, <2>1, <2>2, BodyStep DEF InFrame
  <1> QED
    BY <1>7, <1>9, <1>10, <1>11 DEF Round

(* Forgetting frames leaves no ill-formed one.                              *)
LEMMA ForgetFrames ==
  ASSUME TypeOK, FramesWellFormed, NEW s \in Streams, UNCHANGED <<kind, max>>,
         frames' = [frames EXCEPT ![s] = <<>>]
  PROVE  FramesWellFormed'
  <1>1. frames'[s] = <<>> /\ \A u \in Streams : u # s => frames'[u] = frames[u]
    BY DEF TypeOK
  <1>2. DOMAIN frames'[s] = {}
    BY <1>1
  <1>3. ASSUME NEW u \in Streams, NEW i \in DOMAIN frames'[u]
        PROVE  LET f == frames'[u][i]
               IN Len(f) >= HdrLen(kind) /\ Len(f) <= max /\ Len(f) = Announced(f)
    <2>1. u # s
      BY <1>2
    <2> QED
      BY <1>1, <2>1 DEF FramesWellFormed
  <1> QED
    BY <1>3 DEF FramesWellFormed, Announced

(* Every other step keeps it too: calls, returns and clear().               *)
LEMMA OtherStep ==
  ASSUME TypeOK, FramerInv,
         \/ \E s \in Streams : \/ \E n \in 1 .. Len(wire[s]) : Parse(s, n)
                               \/ Return(s) \/ Clear(s)
         \/ RefuseStream(OutOfRange)
         \/ UNCHANGED vars
  PROVE  TypeOK' /\ FramerInv'
  <1>1. ASSUME NEW s \in Streams, NEW n \in 1 .. Len(wire[s]), Parse(s, n)
        PROVE  TypeOK' /\ FramerInv'
    <2>1. wire[s] \in Seq(Byte) /\ Len(wire[s]) \in Nat
      BY DEF TypeOK
    <2>2. SubSeq(wire[s], 1, n) \in Seq(Byte) /\ SubSeq(wire[s], n + 1, Len(wire[s])) \in Seq(Byte)
      BY <2>1, ReadBytes
    <2>3. TypeOK'
      BY <1>1, <2>2 DEF Parse, TypeOK, Results, States
    <2>4. \A u \in Streams : StreamInv(u)'
      BY <1>1, StreamsAssumption DEF Parse, FramerInv, StreamInv, InFrame, Total, Announced
    <2> QED
      BY <1>1, <2>3, <2>4 DEF Parse, FramerInv, RxBounded, FramesWellFormed, Announced
  <1>2. ASSUME NEW s \in Streams, Return(s) PROVE TypeOK' /\ FramerInv'
    <2>1. <<>> \in Seq(Byte) /\ <<>> \in Seq(Seq(Byte))
      OBVIOUS
    <2>2. \/ /\ ret # "no_error" /\ ClearStream(s)
          \/ /\ ret = "no_error" /\ UNCHANGED <<state, taken, frames>>
      BY <1>2 DEF Return
    <2>3. /\ cur = s /\ cur' = NoStream /\ src' = <<>>
          /\ UNCHANGED <<kind, max, required, rx, ret, wire>>
      BY <1>2 DEF Return
    <2>4. TypeOK'
      BY <2>1, <2>2, <2>3 DEF ClearStream, Forget, TypeOK, States, First
    <2>5. \A u \in Streams : StreamInv(u)'
      BY <2>2, <2>3 DEF ClearStream, FramerInv, StreamInv, InFrame, Total, Announced, First, TypeOK
    <2>6. FramesWellFormed'
      <3>1. CASE frames' = frames
        BY <2>3, <3>1 DEF FramerInv, FramesWellFormed, Announced
      <3> QED
        BY <2>2, <2>3, <3>1, ForgetFrames DEF ClearStream, Forget, FramerInv
    <2> QED
      BY <2>3, <2>4, <2>5, <2>6 DEF FramerInv, RxBounded
  <1>3. ASSUME NEW s \in Streams, Clear(s) PROVE TypeOK' /\ FramerInv'
    <2>1. <<>> \in Seq(Byte) /\ <<>> \in Seq(Seq(Byte))
      OBVIOUS
    <2>2. TypeOK'
      BY <1>3, <2>1 DEF Clear, Forget, TypeOK, States, First
    <2>3. \A u \in Streams : StreamInv(u)'
      BY <1>3 DEF Clear, FramerInv, StreamInv, InFrame, Total, Announced, First, TypeOK
    <2>4. FramesWellFormed'
      BY <1>3, ForgetFrames DEF Clear, Forget, FramerInv
    <2> QED
      BY <1>3, <2>2, <2>3, <2>4 DEF Clear, FramerInv, RxBounded
  <1>4. CASE RefuseStream(OutOfRange) \/ UNCHANGED vars
    <2>1. TypeOK'
      BY <1>4 DEF RefuseStream, vars, TypeOK, Results, States
    <2>2. \A u \in Streams : StreamInv(u)'
      BY <1>4, StreamsAssumption DEF RefuseStream, vars, FramerInv, StreamInv, InFrame, Total, Announced
    <2> QED
      BY <1>4, <2>1, <2>2 DEF RefuseStream, vars, FramerInv, RxBounded, FramesWellFormed, Announced
  <1> QED
    BY <1>1, <1>2, <1>3, <1>4

(* The invariant holds throughout.                                          *)
LEMMA InvariantHolds == Spec => [](TypeOK /\ FramerInv)
  <1>1. Init => TypeOK /\ FramerInv
    <2> SUFFICES ASSUME Init PROVE TypeOK /\ FramerInv
      OBVIOUS
    <2>1. PICK m \in MaxArgs : max = IF m < HdrLen(kind) THEN HdrLen(kind) ELSE m
      BY DEF Init
    <2>2. max \in Nat /\ max >= HdrLen(kind) /\ max < Word4
      BY <2>1, MaxAssumption, Words DEF HdrLen
    <2>3. wire \in [Streams -> Seq(Byte)]
      BY WiresAssumption DEF Init
    <2>4. /\ rx \in [Streams -> Seq(Byte)] /\ taken \in [Streams -> Seq(Byte)]
          /\ frames \in [Streams -> Seq(Seq(Byte))] /\ src \in Seq(Byte)
          /\ required \in [Streams -> Nat]
      BY DEF Init
    <2>5. TypeOK
      BY <2>2, <2>3, <2>4 DEF Init, TypeOK, Results, States, First
    <2>6. \A s \in Streams : StreamInv(s)
      BY DEF Init, StreamInv, First
    <2>7. RxBounded
      <3>1. \A s \in Streams : Len(rx[s]) = 0
        BY DEF Init
      <3> QED
        <4>1. 0 <= max
          BY <2>2
        <4> QED
          BY <3>1, <4>1, Zenon DEF RxBounded
    <2>8. FramesWellFormed
      BY DEF Init, FramesWellFormed
    <2> QED
      BY <2>2, <2>5, <2>6, <2>7, <2>8 DEF FramerInv
  <1>2. TypeOK /\ FramerInv /\ [Next]_vars => (TypeOK /\ FramerInv)'
    <2> SUFFICES ASSUME TypeOK, FramerInv, [Next]_vars PROVE (TypeOK /\ FramerInv)'
      OBVIOUS
    <2>1. \/ \E s \in Streams : Round(s)
          \/ \E s \in Streams : \/ \E n \in 1 .. Len(wire[s]) : Parse(s, n)
                                \/ Return(s) \/ Clear(s)
          \/ RefuseStream(OutOfRange)
          \/ UNCHANGED vars
      BY DEF Next
    <2> QED
      BY <2>1, RoundStep, OtherStep
  <1> QED
    BY <1>1, <1>2, PTL DEF Spec

(* Every variable keeps its type.                                           *)
THEOREM TypeCorrect == Spec => []TypeOK
  BY InvariantHolds, PTL

(* m_rx_buf of each stream is never written beyond the length it was        *)
(* allocated with, for any maximum and any bytes.                           *)
THEOREM NoOverrun == Spec => []RxBounded
  <1>1. FramerInv => RxBounded
    BY DEF FramerInv
  <1> QED
    BY InvariantHolds, <1>1, PTL

(* Every frame handed to process_rx_frame() is as long as it announces and  *)
(* fits the maximum, however the stream is cut into chunks.                 *)
THEOREM FramesCorrect == Spec => []FramesWellFormed
  <1>1. FramerInv => FramesWellFormed
    BY DEF FramerInv
  <1> QED
    BY InvariantHolds, <1>1, PTL

(* Every round of parse_raw_rx_data() takes a byte or ends the call.        *)
THEOREM CallsEnd == Spec => RoundsProgress
  <1>1. TypeOK /\ FramerInv /\ [Next]_vars =>
          [\A s \in Streams :
             InLoop(s) /\ cur' = s => Len(src') < Len(src) \/ ret' # "no_error"]_vars
    <2> SUFFICES ASSUME TypeOK, FramerInv, Next, NEW s \in Streams, InLoop(s), cur' = s
                 PROVE  Len(src') < Len(src) \/ ret' # "no_error"
      BY DEF vars
    <2>1. cur = s /\ src # <<>> /\ s # NoStream
      BY StreamsAssumption DEF InLoop
    <2>2. Len(src) \in Nat /\ Len(src) >= 1 /\ src \in Seq(Byte)
      BY <2>1, NextByte DEF TypeOK
    <2>3. ASSUME NEW n \in 1 .. Len(src), Read(s, n) PROVE Len(src') < Len(src)
      <3>1. Len(SubSeq(src, n + 1, Len(src))) = Len(src) - n
        BY <2>2, ReadBytes
      <3> QED
        BY <2>2, <2>3, <3>1 DEF Read
    <2>4. ASSUME NEW got, NEW where, Header(s, got, where) PROVE Len(src') < Len(src)
      BY <2>2, <2>3, <2>4 DEF Header
    <2>5. ASSUME NEW got, NEW h \in {0, 1}, NEW need \in Nat, h = 1 \/ need > 0,
                 Body(s, h, got, need)
          PROVE  Len(src') < Len(src) \/ ret' # "no_error"
      <3>1. ret' = "body_len_range" \/ Read(s, h + Min(Len(src) - h, need))
        BY <2>5 DEF Body
      <3>2. h + Min(Len(src) - h, need) \in 1 .. Len(src)
        BY <2>2, <2>5 DEF Min
      <3> QED
        BY <2>3, <3>1, <3>2
    <2>6. \E u \in Streams : Round(u)
      BY <2>1, StreamsAssumption DEF Next, Parse, Return, Clear, RefuseStream, InLoop
    <2>7. PICK u \in Streams : Round(u)
      BY <2>6
    <2>8. u = s
      BY <2>1, <2>7 DEF Round, Hdr1, Hdr2, Hdr2Of1, HdrOf2, BodyRound, InLoop
    <2>9. CASE Hdr1(s)
      BY <2>4, <2>9 DEF Hdr1
    <2>10. CASE HdrOf2(s)
      BY <2>4, <2>10 DEF HdrOf2, BadHeader
    <2>11. CASE Hdr2(s) \/ Hdr2Of1(s)
      <3> DEFINE got == Append(rx[s], Head(src))
      <3>1. kind # "generic_framer2" /\ state[s] = "hdr2"
        BY <2>11 DEF Hdr2, Hdr2Of1
      <3>2. got \in Seq(Byte) /\ Len(got) = Len(rx[s]) + 1 /\ Len(rx[s]) = 1
        BY <2>1, <3>1, NextByte DEF FramerInv, StreamInv
      <3>3. UShort(got) \in Nat
        <4>1. HdrLen(kind) = 2 /\ Len(got) = 2
          BY <3>1, <3>2 DEF HdrLen
        <4>2. Len(got) >= HdrLen(kind)
          BY <4>1
        <4> QED
          BY <3>2, <4>2, LengthIsNat
      <3>4. \/ BadHeader(s, got, UShort(got))
            \/ Body(s, 1, got, UShort(got))
            \/ UShort(got) >= 2 /\ Body(s, 1, got, UShort(got) - 2)
        BY <2>11, <3>3 DEF Hdr2, Hdr2Of1, LessHeader
      <3> QED
        BY <2>4, <2>5, <3>3, <3>4 DEF BadHeader
    <2>12. CASE BodyRound(s)
      <3>1. required[s] \in Nat /\ required[s] > 0
        BY <2>12 DEF BodyRound, InLoop, FramerInv, StreamInv, InFrame, TypeOK
      <3>2. Body(s, 0, rx[s], required[s])
        BY <2>12 DEF BodyRound
      <3> QED
        BY <2>5, <3>1, <3>2
    <2> QED
      BY <2>7, <2>8, <2>9, <2>10, <2>11, <2>12 DEF Round
  <1> QED
    BY <1>1, InvariantHolds, PTL DEF Spec, RoundsProgress

-----------------------------------------------------------------------------
(* The frames handed over are those of the reference, which reads all the   *)
(* bytes at once.                                                           *)
Ref == RefFrames(kind, max)

(* A first frame has a header at least, and no more than all the bytes.     *)
LEMMA RefTotal ==
  ASSUME TypeOK, NEW b \in Seq(Byte), ~NoFrame(kind, max, b)
  PROVE  /\ RefLength(kind, b) \in Nat /\ RefLength(kind, b) = Announced(b)
         /\ RefLength(kind, b) > 0 /\ RefLength(kind, b) <= Len(b)
         /\ FirstFrame(kind, b) \in Seq(Byte) /\ AfterFrame(kind, b) \in Seq(Byte)
         /\ Len(AfterFrame(kind, b)) = Len(b) - RefLength(kind, b)
  <1>1. Len(b) >= HdrLen(kind) /\ Len(b) \in Nat /\ kind \in Kinds
    BY DEF NoFrame, HdrLen, TypeOK
  <1>2. RefLength(kind, b) \in Nat /\ RefLength(kind, b) = Announced(b)
    BY <1>1, LengthIsNat DEF RefLength, Announced, Kinds
  <1>3. RefLength(kind, b) > 0 /\ RefLength(kind, b) <= Len(b)
    BY <1>1, <1>2 DEF NoFrame, Least, Kinds
  <1>4. SubSeq(b, 1, RefLength(kind, b)) \in Seq(Byte)
    BY <1>1, <1>2, <1>3, ReadBytes
  <1>5. /\ SubSeq(b, RefLength(kind, b) + 1, Len(b)) \in Seq(Byte)
        /\ Len(SubSeq(b, RefLength(kind, b) + 1, Len(b))) = Len(b) - RefLength(kind, b)
    BY <1>1, <1>2, <1>3, ReadBytes
  <1> QED
    BY <1>2, <1>3, <1>4, <1>5 DEF FirstFrame, AfterFrame

(* The recursive definition of the reference defines a function.            *)
LEMMA RefIs ==
  ASSUME TypeOK
  PROVE  /\ Ref \in [Seq(Byte) -> Seq(Seq(Byte))]
         /\ \A b \in Seq(Byte) :
              Ref[b] = IF NoFrame(kind, max, b) THEN <<>>
                       ELSE <<FirstFrame(kind, b)>> \o Ref[AfterFrame(kind, b)]
  <1> DEFINE SS == Seq(Byte)
             V == Seq(Seq(Byte))
             stop == {b \in SS : NoFrame(kind, max, b)}
             size == [b \in SS |-> Len(b)]
             next == [b \in SS |-> AfterFrame(kind, b)]
             base == [b \in SS |-> <<>>]
             comb == [p \in SS \X V |-> IF p[1] \in stop THEN <<>> ELSE <<FirstFrame(kind, p[1])>> \o p[2]]
             Is(g) == g = [b \in SS |-> IF NoFrame(kind, max, b) THEN <<>>
                                        ELSE <<FirstFrame(kind, b)>> \o g[AfterFrame(kind, b)]]
  <1>1. size \in [SS -> Nat]
    OBVIOUS
  <1>2. base \in [SS -> V]
    OBVIOUS
  <1>3. ASSUME NEW b \in SS, b \notin stop
        PROVE  /\ FirstFrame(kind, b) \in Seq(Byte) /\ next[b] = AfterFrame(kind, b)
               /\ next[b] \in SS /\ size[next[b]] < size[b]
    BY <1>3, RefTotal
  <1>4. comb \in [SS \X V -> V]
    <2>1. ASSUME NEW b \in SS, NEW v \in V
          PROVE  (IF b \in stop THEN <<>> ELSE <<FirstFrame(kind, b)>> \o v) \in V
      <3>1. CASE b \in stop
        BY <3>1
      <3>2. CASE b \notin stop
        <4>1. FirstFrame(kind, b) \in Seq(Byte)
          BY <1>3, <3>2
        <4>2. <<FirstFrame(kind, b)>> \in V
          BY <4>1
        <4> QED BY <3>2, <4>2
      <3> QED BY <3>1, <3>2
    <2> HIDE DEF SS, V, stop
    <2> QED BY <2>1
  <1>5. Recurs(SS, V, stop, next, base, comb)
    <2>1. \A b \in SS : b \notin stop => next[b] \in SS /\ size[next[b]] < size[b]
      BY <1>3
    <2> HIDE DEF SS, V, stop, size, next, base, comb
    <2> QED BY <1>1, <1>2, <1>4, <2>1, SizeRecursion
  <1>6. PICK f \in [SS -> V] : \A b \in SS : f[b] = IF b \in stop THEN base[b] ELSE comb[<<b, f[next[b]]>>]
    BY <1>5 DEF Recurs
  <1>7. ASSUME NEW b \in SS
        PROVE  f[b] = IF NoFrame(kind, max, b) THEN <<>> ELSE <<FirstFrame(kind, b)>> \o f[AfterFrame(kind, b)]
    <2>1. CASE b \in stop
      BY <1>6, <2>1
    <2>2. CASE b \notin stop
      <3>1. next[b] = AfterFrame(kind, b) /\ f[next[b]] \in V
        BY <1>3, <2>2
      <3>2. f[b] = comb[<<b, f[next[b]]>>]
        BY <1>6, <2>2
      <3> QED BY <2>2, <3>1, <3>2
    <2> QED BY <2>1, <2>2
  <1>8. Is(f)
    <2>1. f = [b \in SS |-> f[b]]
      OBVIOUS
    <2> QED BY <1>7, <2>1
  <1>9. Is(Ref)
    BY <1>8 DEF Ref, RefFrames
  <1>10. ASSUME NEW b \in SS
         PROVE  Ref[b] = IF NoFrame(kind, max, b) THEN <<>> ELSE <<FirstFrame(kind, b)>> \o Ref[AfterFrame(kind, b)]
    <2> DEFINE e(c) == IF NoFrame(kind, max, c) THEN <<>> ELSE <<FirstFrame(kind, c)>> \o Ref[AfterFrame(kind, c)]
    <2>1. Ref = [c \in SS |-> e(c)]
      BY <1>9
    <2>2. Ref[b] = e(b)
      <3> HIDE DEF e, SS
      <3> QED BY <2>1
    <2> QED BY <2>2
  <1>11. Ref \in [SS -> V]
    <2> DEFINE Short == {n \in Nat : \A b \in SS : Len(b) < n => Ref[b] \in V}
    <2>1. Ref = [b \in SS |-> Ref[b]]
      <3> DEFINE e(b) == IF NoFrame(kind, max, b) THEN <<>> ELSE <<FirstFrame(kind, b)>> \o Ref[AfterFrame(kind, b)]
      <3>1. Ref = [b \in SS |-> e(b)]
        BY <1>9
      <3> HIDE DEF e, SS
      <3> QED BY <3>1
    <2>2. 0 \in Short
      OBVIOUS
    <2>3. ASSUME NEW n \in Nat, n \in Short PROVE n + 1 \in Short
      <3>1. SUFFICES ASSUME NEW b \in SS, Len(b) < n + 1 PROVE Ref[b] \in V
        OBVIOUS
      <3>2. CASE NoFrame(kind, max, b)
        <4>1. Ref[b] = <<>>
          BY <1>10, <3>2
        <4> QED BY <4>1
      <3>3. CASE ~NoFrame(kind, max, b)
        <4>1. /\ FirstFrame(kind, b) \in Seq(Byte) /\ AfterFrame(kind, b) \in SS
              /\ Len(AfterFrame(kind, b)) < n
          BY <3>1, <3>3, RefTotal
        <4>2. Ref[AfterFrame(kind, b)] \in V
          BY <2>3, <4>1
        <4>3. Ref[b] = <<FirstFrame(kind, b)>> \o Ref[AfterFrame(kind, b)]
          BY <1>10, <3>3
        <4>4. <<FirstFrame(kind, b)>> \in V
          BY <4>1
        <4> QED BY <4>2, <4>3, <4>4
      <3> QED BY <3>2, <3>3
    <2>4. Nat \subseteq Short
      <3> HIDE DEF Short
      <3> QED BY <2>2, <2>3, Induction
    <2>5. ASSUME NEW b \in SS PROVE Ref[b] \in V
      <3>1. Len(b) + 1 \in Nat /\ Len(b) < Len(b) + 1
        OBVIOUS
      <3> QED BY <2>4, <3>1
    <2> HIDE DEF SS, V
    <2> QED
      BY <2>1, <2>5
  <1> QED
    BY <1>10, <1>11

(* What the first bytes are: no frame yet, one too long, or a refused one.  *)
LEMMA NoFrameYet ==
  ASSUME TypeOK, NEW b \in Seq(Byte), Len(b) >= HdrLen(kind) => Len(b) < Total(b) \/ RefLength(kind, b) < Least(kind)
  PROVE  Ref[b] = <<>>
  <1>1. NoFrame(kind, max, b)
    <2>1. CASE Len(b) < HdrLen(kind)
      BY <2>1 DEF NoFrame
    <2>2. CASE ~(Len(b) < HdrLen(kind))
      <3>1. Len(b) >= HdrLen(kind) /\ kind \in Kinds
        BY <2>2 DEF HdrLen, TypeOK
      <3>2. RefLength(kind, b) = Announced(b) /\ (kind = "generic_framer2" => UInt(b) \in Nat)
        BY <3>1, LengthIsNat DEF RefLength, Announced, Kinds
      <3>3. RefLength(kind, b) < Least(kind) \/ Len(b) < RefLength(kind, b)
        <4>1. CASE kind = "generic_framer2" /\ UInt(b) < 4
          <5>1. RefLength(kind, b) < 8 /\ Least(kind) = 8
            BY <3>2, <4>1 DEF RefLength, Least
          <5> QED BY <5>1
        <4>2. CASE ~(kind = "generic_framer2" /\ UInt(b) < 4)
          BY <3>1, <3>2, <4>2 DEF Total
        <4> QED BY <4>1, <4>2
      <3> QED
        BY <3>3 DEF NoFrame
    <2> QED BY <2>1, <2>2
  <1> QED
    BY <1>1, RefIs

(* A complete frame at the start is the first of the reference.             *)
LEMMA FrameFirst ==
  ASSUME TypeOK, NEW f \in Seq(Byte), Len(f) >= HdrLen(kind), Len(f) <= max, Len(f) = Announced(f),
         Announced(f) >= Least(kind), NEW x \in Seq(Byte)
  PROVE  Ref[f \o x] = <<f>> \o Ref[x]
  <1>1. f \o x \in Seq(Byte) /\ Len(f \o x) = Len(f) + Len(x) /\ Len(x) \in Nat /\ Len(f) \in Nat
    OBVIOUS
  <1>2. RefLength(kind, f \o x) = Len(f)
    BY LengthFields DEF RefLength, Announced, TypeOK, Kinds
  <1>3. ~NoFrame(kind, max, f \o x)
    <2>1. Least(kind) \in Nat /\ HdrLen(kind) \in Nat /\ max \in Nat
      BY DEF Least, HdrLen, TypeOK, Kinds
    <2> QED BY <1>1, <1>2, <2>1 DEF NoFrame
  <1>4. FirstFrame(kind, f \o x) = f
    BY <1>1, <1>2 DEF FirstFrame
  <1>5. AfterFrame(kind, f \o x) = x
    BY <1>1, <1>2 DEF AfterFrame
  <1> QED
    BY <1>1, <1>3, <1>4, <1>5, RefIs

-----------------------------------------------------------------------------
(* The bytes of the frame under way, and what the reference makes of the    *)
(* bytes read, whatever follows them: the frames handed over, and then what *)
(* it makes of the frame under way.  After an error it makes nothing of it. *)
Current(s) == IF state[s] = First(kind) THEN <<>> ELSE rx[s]
Parsed(s) ==
  /\ \A x \in Seq(Byte) : Ref[taken[s] \o x] = frames[s] \o Ref[Current(s) \o x]
  /\ state[s] = "body" =>
       IF cur = s /\ ret # "no_error" THEN Ref[rx[s]] = <<>> ELSE Total(rx[s]) >= Least(kind)

(* Three sequences, joined.                                                 *)
Associates(T, a, b, c) == (a \o b) \o c = a \o (b \o c)
LEMMA Joins == ASSUME NEW T, NEW a \in Seq(T), NEW b \in Seq(T), NEW c \in Seq(T)
               PROVE  Associates(T, a, b, c)
  BY ConcatAssociative DEF Associates

(* The parsing of one stream does not depend on the others.                 *)
LEMMA ParsedKept ==
  ASSUME NEW s \in Streams, Parsed(s), UNCHANGED <<kind, max>>,
         taken'[s] = taken[s], frames'[s] = frames[s], rx'[s] = rx[s], state'[s] = state[s],
         (cur' = s /\ ret' # "no_error") = (cur = s /\ ret # "no_error") \/ state[s] # "body"
  PROVE  Parsed(s)'
  BY DEF Parsed, Current, Ref, Total, Announced

(* A step that reads the next n bytes of a stream, and completes a frame or *)
(* does not.                                                                *)
LEMMA ParsedStep ==
  ASSUME TypeOK, NEW s \in Streams, cur = s, \A u \in Streams : Parsed(u), Frame,
         NEW n \in 0 .. Len(src), Read(s, n),
         NEW bytes \in Seq(Byte), bytes = Current(s) \o SubSeq(src, 1, n),
         NEW where \in States(kind), state' = [state EXCEPT ![s] = where],
         rx' = [rx EXCEPT ![s] = bytes],
         \/ where # First(kind) /\ frames' = frames
         \/ /\ where = First(kind) /\ frames' = [frames EXCEPT ![s] = Append(@, bytes)]
            /\ \A x \in Seq(Byte) : Ref[bytes \o x] = <<bytes>> \o Ref[x],
         where = "body" => IF ret' # "no_error" THEN Ref[bytes] = <<>> ELSE Total(bytes) >= Least(kind)
  PROVE  \A u \in Streams : Parsed(u)'
  <1>1. UNCHANGED <<kind, max, cur, wire>>
    BY DEF Frame
  <1>2. ASSUME NEW u \in Streams, u # s PROVE Parsed(u)'
    <2>1. /\ taken'[u] = taken[u] /\ frames'[u] = frames[u] /\ rx'[u] = rx[u] /\ state'[u] = state[u]
      BY <1>2 DEF TypeOK, Read
    <2>2. cur' # u /\ cur # u
      BY <1>1, <1>2
    <2> QED BY <1>1, <2>1, <2>2, ParsedKept
  <1>3. Parsed(s)'
    <2> DEFINE d == SubSeq(src, 1, n)
    <2>1. d \in Seq(Byte) /\ taken'[s] = taken[s] \o d /\ taken[s] \in Seq(Byte)
      <3>1. src \in Seq(Byte) /\ n \in Nat /\ n <= Len(src)
        BY DEF TypeOK
      <3>2. SubSeq(src, 1, n) \in Seq(Byte)
        BY <3>1, ReadBytes
      <3>3. taken'[s] = taken[s] \o d
        BY DEF TypeOK, Read
      <3> QED BY <3>2, <3>3 DEF TypeOK
    <2>2. rx'[s] = bytes /\ state'[s] = where /\ Current(s) \in Seq(Byte)
      <3>1. <<>> \in Seq(Byte) /\ rx[s] \in Seq(Byte)
        BY DEF TypeOK
      <3>2. rx'[s] = bytes /\ state'[s] = where
        BY DEF TypeOK
      <3> QED BY <3>1, <3>2 DEF Current
    <2>3. Ref' = Ref /\ Ref \in [Seq(Byte) -> Seq(Seq(Byte))]
      BY <1>1, RefIs DEF Ref
    <2> HIDE DEF d
    <2>4. ASSUME NEW x \in Seq(Byte)
          PROVE  Ref[taken'[s] \o x] = frames[s] \o Ref[bytes \o x]
      <3>1. d \o x \in Seq(Byte)
        BY <2>1
      <3>2. Ref[taken[s] \o (d \o x)] = frames[s] \o Ref[Current(s) \o (d \o x)]
        BY <3>1 DEF Parsed
      <3>3. (taken[s] \o d) \o x = taken[s] \o (d \o x)
        <4>1. taken[s] \in Seq(Byte) /\ d \in Seq(Byte)
          BY <2>1
        <4>2. Associates(Byte, taken[s], d, x)
          BY <4>1, Joins
        <4> QED BY <4>2 DEF Associates
      <3>4. (Current(s) \o d) \o x = Current(s) \o (d \o x)
        <4>1. Current(s) \in Seq(Byte) /\ d \in Seq(Byte)
          BY <2>1, <2>2
        <4>2. Associates(Byte, Current(s), d, x)
          BY <4>1, Joins
        <4> QED BY <4>2 DEF Associates
      <3>5. bytes = Current(s) \o d
        BY DEF d
      <3> QED BY <2>1, <3>2, <3>3, <3>4, <3>5
    <2>5. ASSUME NEW x \in Seq(Byte)
          PROVE  Ref'[taken'[s] \o x] = frames'[s] \o Ref'[Current(s)' \o x]
      <3>1. CASE where # First(kind) /\ frames' = frames
        <4>1. Current(s)' = bytes
          BY <1>1, <2>2, <3>1 DEF Current
        <4> QED BY <2>3, <2>4, <3>1, <4>1
      <3>2. CASE /\ where = First(kind) /\ frames' = [frames EXCEPT ![s] = Append(@, bytes)]
                 /\ \A y \in Seq(Byte) : Ref[bytes \o y] = <<bytes>> \o Ref[y]
        <4>1. Current(s)' = <<>>
          BY <1>1, <2>2, <3>2 DEF Current
        <4>2. frames'[s] = Append(frames[s], bytes) /\ frames[s] \in Seq(Seq(Byte))
          BY <3>2 DEF TypeOK
        <4>3. Ref[x] \in Seq(Seq(Byte)) /\ Ref[bytes \o x] = <<bytes>> \o Ref[x]
          BY <2>3, <3>2
        <4>4. <<bytes>> \in Seq(Seq(Byte)) /\ Append(frames[s], bytes) = frames[s] \o <<bytes>>
          <5>1. <<bytes>> \in Seq(Seq(Byte))
            OBVIOUS
          <5>2. bytes \in Seq(Byte) /\ frames[s] \in Seq(Seq(Byte))
            BY <4>2
          <5>3. Append(frames[s], bytes) = frames[s] \o <<bytes>>
            BY ONLY <5>2, AppendIsConcat
          <5> QED BY <5>1, <5>3
        <4>5. (frames[s] \o <<bytes>>) \o Ref[x] = frames[s] \o (<<bytes>> \o Ref[x])
          <5>1. frames[s] \in Seq(Seq(Byte)) /\ <<bytes>> \in Seq(Seq(Byte)) /\ Ref[x] \in Seq(Seq(Byte))
            BY <4>2, <4>3, <4>4
          <5>2. Associates(Seq(Byte), frames[s], <<bytes>>, Ref[x])
            BY <5>1, Joins
          <5> QED BY <5>2 DEF Associates
        <4>6. <<>> \o x = x
          OBVIOUS
        <4> QED BY <2>3, <2>4, <4>1, <4>2, <4>3, <4>4, <4>5, <4>6
      <3> QED BY <3>1, <3>2
    <2>6. Total(bytes)' = Total(bytes) /\ Least(kind)' = Least(kind)
      BY <1>1 DEF Total, Announced
    <2>7. (state'[s] = "body" =>
            IF cur' = s /\ ret' # "no_error" THEN Ref'[rx'[s]] = <<>> ELSE (Total(rx[s]) >= Least(kind))')
      BY <1>1, <2>2, <2>3 DEF Total, Announced
    <2> QED
      BY <2>5, <2>7 DEF Parsed
  <1> QED
    BY <1>2, <1>3

(* The first bytes of a chunk, h and then m.                                *)
LEMMA ChunkParts ==
  ASSUME NEW h \in {0, 1}, NEW m \in Nat, NEW b \in Seq(Byte), h + m <= Len(b)
  PROVE  /\ SubSeq(b, 1, h) \o SubSeq(b, h + 1, h + m) = SubSeq(b, 1, h + m)
         /\ SubSeq(b, 1, h) \in Seq(Byte) /\ SubSeq(b, h + 1, h + m) \in Seq(Byte)
  <1>1. Len(b) \in Nat /\ h \in Nat /\ h <= Len(b)
    OBVIOUS
  <1>2. SubSeq(b, 1, h) \in Seq(Byte) /\ SubSeq(b, h + 1, h + m) \in Seq(Byte)
    BY <1>1, ReadBytes
  <1> QED
    BY <1>1, <1>2

(* The round in which body bytes are copied, or refused.                    *)
LEMMA BodyParsed ==
  ASSUME TypeOK, NEW s \in Streams, NEW h \in {0, 1}, Len(src) >= h, cur = s,
         \A u \in Streams : Parsed(u),
         kind = "generic_framer2" => max < Word4,
         NEW got \in Seq(Byte), got = Current(s) \o SubSeq(src, 1, h),
         Len(got) >= HdrLen(kind), Len(got) <= max, Total(got) >= Least(kind),
         NEW need \in Nat, Len(got) + need = Total(got),
         ret = "no_error", Body(s, h, got, need), Frame
  PROVE  \A u \in Streams : Parsed(u)'
  <1> DEFINE clen  == Min(Len(src) - h, need)
             frame == got \o SubSeq(src, h + 1, h + clen)
  <1>1. /\ clen \in Nat /\ clen <= need /\ h + clen <= Len(src) /\ src \in Seq(Byte)
        /\ Len(src) \in Nat /\ Len(got) \in Nat /\ max \in Nat /\ kind \in Kinds
    BY DEF Min, TypeOK
  <1>2. "body" \in States(kind) /\ First(kind) \in States(kind) /\ "body" # First(kind)
    BY DEF States, First
  <1> HIDE DEF clen
  <1>3. CASE Len(got) + clen > max
    <2>1. /\ ret' = "body_len_range" /\ rx' = [rx EXCEPT ![s] = got]
          /\ state' = [state EXCEPT ![s] = "body"] /\ frames' = frames /\ Read(s, h)
      BY <1>3 DEF Body, TooLong, clen
    <2>2. need > 0
      BY <1>1, <1>3
    <2>3. Ref[got] = <<>>
      <3>1. Len(got) < Total(got)
        BY <1>1, <2>2
      <3> QED BY <3>1, NoFrameYet
    <2>4. h \in 0 .. Len(src) /\ ret' # "no_error"
      BY <1>1, <2>1
    <2> QED
      BY <1>2, <2>1, <2>3, <2>4, ParsedStep
  <1>4. CASE Len(got) + clen <= max
    <2>0. ~TooLong(Len(got) + clen)
      BY <1>1, <1>4 DEF TooLong
    <2>1. rx' = [rx EXCEPT ![s] = frame] /\ Read(s, h + clen)
      BY <2>0 DEF Body, clen, frame
    <2>2. frame = Current(s) \o SubSeq(src, 1, h + clen) /\ frame \in Seq(Byte)
          /\ Len(frame) = Len(got) + clen
      <3>1. /\ SubSeq(src, 1, h) \in Seq(Byte) /\ SubSeq(src, h + 1, h + clen) \in Seq(Byte)
            /\ SubSeq(src, 1, h) \o SubSeq(src, h + 1, h + clen) = SubSeq(src, 1, h + clen)
        BY <1>1, ChunkParts
      <3>2. Current(s) \in Seq(Byte)
        <4>1. <<>> \in Seq(Byte) /\ rx[s] \in Seq(Byte)
          BY DEF TypeOK
        <4> QED BY <4>1 DEF Current
      <3>3. Associates(Byte, Current(s), SubSeq(src, 1, h), SubSeq(src, h + 1, h + clen))
        BY <3>1, <3>2, Joins
      <3>4. Len(SubSeq(src, h + 1, h + clen)) = clen
        BY <1>1, ReadBytes
      <3>5. frame = Current(s) \o SubSeq(src, 1, h + clen)
        BY <3>1, <3>3 DEF Associates
      <3>6. frame \in Seq(Byte) /\ Len(frame) = Len(got) + clen
        <4>1. got \in Seq(Byte) /\ SubSeq(src, h + 1, h + clen) \in Seq(Byte)
          BY <3>1
        <4> QED BY ONLY <4>1, <3>4
      <3> QED BY <3>5, <3>6
    <2>3. Total(frame) = Total(got) /\ Total(got) \in Nat
      BY <1>1, ChunkParts, TotalOfPrefix
    <2>4. h + clen \in 0 .. Len(src)
      BY <1>1
    <2> HIDE DEF frame
    <2>5. CASE need = clen
      <3>1. /\ frames' = [frames EXCEPT ![s] = Append(@, frame)]
            /\ state' = [state EXCEPT ![s] = First(kind)]
        BY <2>0, <2>5 DEF Body, clen, frame
      <3>2. Len(frame) = Announced(frame) /\ Announced(frame) >= Least(kind)
        <4>1. Len(frame) = Total(frame) /\ Total(frame) >= Least(kind)
          BY <2>2, <2>3, <2>5
        <4>2. Total(frame) = Announced(frame)
          <5>1. kind = "generic_framer2" => UInt(frame) \in Nat
            <6>1. Len(frame) >= HdrLen(kind)
              BY <1>1, <2>2 DEF HdrLen
            <6> QED BY <2>2, <6>1, LengthIsNat
          <5> QED BY <1>1, <1>4, <2>2, <4>1, <5>1, Words DEF Total
        <4> QED BY <4>1, <4>2
      <3>3. \A x \in Seq(Byte) : Ref[frame \o x] = <<frame>> \o Ref[x]
        <4>1. Len(frame) >= HdrLen(kind) /\ Len(frame) <= max
          BY <1>1, <1>4, <2>2 DEF HdrLen
        <4> QED BY <2>2, <3>2, <4>1, FrameFirst
      <3> QED
        BY <1>2, <2>1, <2>2, <2>4, <3>1, <3>3, ParsedStep
    <2>6. CASE need # clen
      <3>1. state' = [state EXCEPT ![s] = "body"] /\ UNCHANGED <<ret, frames>>
        BY <2>0, <2>6 DEF Body, clen, frame
      <3>2. Total(frame) >= Least(kind) /\ ~(ret' # "no_error")
        BY <2>3, <3>1
      <3> QED
        BY <1>2, <2>1, <2>2, <2>4, <3>1, <3>2, ParsedStep
    <2> QED BY <2>5, <2>6
  <1> QED
    BY <1>1, <1>3, <1>4

(* The first byte of a chunk.                                               *)
LEMMA FirstByte ==
  ASSUME NEW b \in Seq(Byte), Len(b) >= 1
  PROVE  SubSeq(b, 1, 1) = <<Head(b)>> /\ Head(b) \in Byte
  <1>1. b # <<>>
    OBVIOUS
  <1>2. Head(b) = b[1] /\ Head(b) \in Byte
    BY <1>1
  <1> DEFINE one == SubSeq(b, 1, 1)
  <1>3. one \in Seq(Byte) /\ Len(one) = 1
    BY ReadBytes
  <1>4. one[1] = b[1]
    BY SubSeqProperties
  <1> HIDE DEF one
  <1>5. one = <<one[1]>>
    BY <1>3
  <1>6. one = <<Head(b)>>
    BY <1>2, <1>4, <1>5, Zenon
  <1> QED
    BY <1>2, <1>6 DEF one

(* A round that only puts a header byte into m_rx_buf, or refuses the       *)
(* header.                                                                  *)
LEMMA HeaderParsed ==
  ASSUME TypeOK, NEW s \in Streams, src # <<>>, cur = s, \A u \in Streams : Parsed(u),
         NEW got \in Seq(Byte), got = Append(Current(s), Head(src)),
         NEW where \in States(kind), where # First(kind),
         Header(s, got, where), Frame, frames' = frames,
         where = "body" => IF ret' # "no_error" THEN Ref[got] = <<>> ELSE Total(got) >= Least(kind)
  PROVE  \A u \in Streams : Parsed(u)'
  <1>1. rx' = [rx EXCEPT ![s] = got] /\ state' = [state EXCEPT ![s] = where] /\ Read(s, 1)
    BY DEF Header
  <1>2. src \in Seq(Byte) /\ Len(src) \in Nat /\ Len(src) >= 1
    BY NextByte DEF TypeOK
  <1>3. got = Current(s) \o SubSeq(src, 1, 1)
    <2>1. Current(s) \in Seq(Byte)
      <3>1. <<>> \in Seq(Byte) /\ rx[s] \in Seq(Byte)
        BY DEF TypeOK
      <3> QED BY <3>1 DEF Current
    <2>2. SubSeq(src, 1, 1) = <<Head(src)>>
      BY <1>2, FirstByte
    <2>3. Head(src) \in Byte
      BY <1>2, FirstByte
    <2>4. Append(Current(s), Head(src)) = Current(s) \o <<Head(src)>>
      BY <2>1, <2>3
    <2> QED BY <2>2, <2>4
  <1>4. 1 \in 0 .. Len(src)
    BY <1>2
  <1> QED
    BY <1>1, <1>3, <1>4, ParsedStep

(* Each round parses on.                                                    *)
LEMMA RoundParsed ==
  ASSUME TypeOK, FramerInv, NEW s \in Streams, Round(s), \A u \in Streams : Parsed(u)
  PROVE  \A u \in Streams : Parsed(u)'
  <1>1. InLoop(s) /\ src # <<>> /\ cur = s /\ ret = "no_error"
    BY DEF Round, Hdr1, Hdr2, Hdr2Of1, HdrOf2, BodyRound, InLoop
  <1>2. Len(src) \in Nat /\ Len(src) >= 1
    BY <1>1, NextByte
  <1>3. /\ kind \in Kinds /\ state[s] \in States(kind) /\ StreamInv(s) /\ max \in Nat
        /\ HdrLen(kind) <= max /\ (kind = "generic_framer2" => max < Word4)
    BY DEF TypeOK, FramerInv, HdrLen
  <1>4. PICK got \in Seq(Byte) : got = Append(Current(s), Head(src)) /\ Len(got) = Len(Current(s)) + 1
    <2>1. Append(rx[s], Head(src)) \in Seq(Byte) /\ Len(Append(rx[s], Head(src))) = Len(rx[s]) + 1
      BY <1>1, NextByte
    <2>2. <<Head(src)>> \in Seq(Byte) /\ Append(<<>>, Head(src)) = <<Head(src)>>
          /\ Len(<<Head(src)>>) = Len(<<>>) + 1
      BY <1>1, NextByte
    <2> QED BY <2>1, <2>2 DEF Current
  <1>5. state[s] # First(kind) => got = Append(rx[s], Head(src)) /\ Len(got) = Len(rx[s]) + 1
    BY <1>4 DEF Current
  <1>6. state[s] = First(kind) => got = <<Head(src)>> /\ Len(got) = 1
    <2>1. Append(<<>>, Head(src)) = <<Head(src)>> /\ Len(<<Head(src)>>) = 1
      BY <1>1, NextByte
    <2> QED BY <1>4, <2>1 DEF Current
  <1>7. CASE Hdr1(s)
    <2>1. kind # "generic_framer2" /\ state[s] = First(kind)
      BY <1>3, <1>7 DEF Hdr1, States, First
    <2>2. "hdr2" \in States(kind) /\ "hdr2" # First(kind) /\ "hdr2" # "body"
      BY <2>1 DEF States, First
    <2>3. Header(s, got, "hdr2") /\ Frame /\ frames' = frames
      BY <1>6, <1>7, <2>1 DEF Hdr1
    <2> QED
      BY <1>1, <1>4, <2>2, <2>3, HeaderParsed
  <1>8. CASE Hdr2(s) \/ Hdr2Of1(s)
    <2>1. kind # "generic_framer2" /\ state[s] = "hdr2" /\ state[s] # First(kind) /\ Frame
      BY <1>8 DEF Hdr2, Hdr2Of1, First
    <2>2. Len(got) = 2 /\ HdrLen(kind) = 2 /\ Len(got) <= max /\ Len(got) >= HdrLen(kind)
      <3>1. Len(rx[s]) = 1
        BY <1>3, <2>1 DEF StreamInv
      <3>2. HdrLen(kind) = 2
        BY <2>1 DEF HdrLen
      <3>3. Len(got) = Len(rx[s]) + 1
        BY <1>5, <2>1
      <3>4. Len(got) = 2
        BY <3>1, <3>3
      <3> QED BY <1>3, <3>2, <3>4
    <2>3. UShort(got) \in Nat
      BY <2>2, LengthIsNat
    <2>4. got = Current(s) \o SubSeq(src, 1, 1)
      <3>1. SubSeq(src, 1, 1) = <<Head(src)>> /\ Head(src) \in Byte
        BY <1>2, FirstByte DEF TypeOK
      <3>2. Current(s) \in Seq(Byte)
        BY <2>1 DEF Current, TypeOK
      <3> QED BY <1>4, <3>1, <3>2
    <2>5. got = Append(rx[s], Head(src))
      BY <1>5, <2>1
    <2>6. CASE UShort(got) < 2
      <3>1. BadHeader(s, got, UShort(got))
        BY <1>8, <2>3, <2>6, <2>5 DEF Hdr2, Hdr2Of1
      <3>2. Header(s, got, "body") /\ ret' = "hdr_len_range" /\ frames' = frames
        BY <3>1 DEF BadHeader
      <3>3. Ref[got] = <<>>
        <4>1. RefLength(kind, got) < Least(kind)
          BY <1>3, <2>1, <2>3, <2>6 DEF RefLength, Least, Kinds
        <4> QED BY <4>1, NoFrameYet
      <3>4. "body" \in States(kind) /\ "body" # First(kind) /\ ret' # "no_error"
        BY <3>2 DEF States, First
      <3> QED
        BY <1>1, <1>4, <2>1, <3>2, <3>3, <3>4, HeaderParsed
    <2>7. CASE UShort(got) >= 2
      <3>1. CASE Hdr2(s)
        <4>1. kind = "generic_framer" /\ Body(s, 1, got, UShort(got) - 2)
          BY <2>3, <2>7, <2>5, <3>1 DEF Hdr2, LessHeader
        <4>2. UShort(got) - 2 \in Nat /\ Len(got) + (UShort(got) - 2) = Total(got)
              /\ Total(got) >= Least(kind)
          BY <2>2, <2>3, <2>7, <4>1 DEF Total, Announced, Least
        <4> QED
          BY <1>1, <1>2, <1>3, <2>1, <2>2, <2>4, <4>1, <4>2, BodyParsed
      <3>2. CASE Hdr2Of1(s)
        <4>1. kind = "generic_framer1" /\ Body(s, 1, got, UShort(got))
          BY <2>3, <2>7, <2>5, <3>2 DEF Hdr2Of1
        <4>2. Len(got) + UShort(got) = Total(got) /\ Total(got) >= Least(kind)
          BY <2>2, <2>3, <2>7, <4>1 DEF Total, Announced, Least
        <4> QED
          BY <1>1, <1>2, <1>3, <2>1, <2>2, <2>3, <2>4, <4>1, <4>2, BodyParsed
      <3> QED BY <1>8, <3>1, <3>2
    <2> QED BY <2>3, <2>6, <2>7
  <1>9. CASE HdrOf2(s)
    <2>1. kind = "generic_framer2" /\ state[s] \in {"idle", "hdr"} /\ Frame /\ First(kind) = "idle"
      BY <1>3, <1>9 DEF HdrOf2, States, Kinds, First
    <2>2. got = IF state[s] = "idle" THEN <<Head(src)>> ELSE Append(rx[s], Head(src))
      BY <1>5, <1>6, <2>1
    <2>3. "hdr" \in States(kind) /\ "body" \in States(kind) /\ HdrLen(kind) = 4
      BY <2>1 DEF States, HdrLen
    <2>4. CASE Len(got) # 4
      <3>1. Header(s, got, "hdr") /\ frames' = frames
        BY <1>9, <2>2, <2>4 DEF HdrOf2
      <3>2. "hdr" # First(kind) /\ "hdr" # "body"
        BY <2>1
      <3> QED
        BY <1>1, <1>4, <2>1, <2>3, <3>1, <3>2, HeaderParsed
    <2>5. CASE Len(got) = 4
      <3> DEFINE need == LessHeader4(UInt(got))
      <3>1. UInt(got) \in Nat
        <4>1. Len(got) >= HdrLen(kind)
          BY <2>3, <2>5
        <4> QED BY <2>1, <4>1, LengthIsNat
      <3>2. /\ Header(s, got, "body") /\ frames' = frames
            /\ (ret' = "hdr_len_range" /\ need < 4) \/ (ret' = ret /\ ~(need < 4))
        BY <1>9, <2>2, <2>5 DEF HdrOf2, BadHeader, TooShort
      <3>3. need < 4 => RefLength(kind, got) < Least(kind)
        BY <2>1, <3>1, Words DEF LessHeader4, RefLength, Least
      <3>4. ~(need < 4) => Total(got) >= Least(kind)
        BY <2>1, <3>1, Words DEF LessHeader4, Total, Announced, Least
      <3>5. need < 4 => Ref[got] = <<>>
        BY <3>3, NoFrameYet
      <3> HIDE DEF need
      <3>6. "body" # First(kind)
            /\ IF ret' # "no_error" THEN Ref[got] = <<>> ELSE Total(got) >= Least(kind)
        <4>1. "hdr_len_range" # "no_error"
          OBVIOUS
        <4> QED BY <1>1, <2>1, <3>2, <3>4, <3>5, <4>1
      <3> QED
        BY <1>1, <1>4, <2>1, <2>3, <3>2, <3>6, HeaderParsed
    <2> QED BY <2>4, <2>5
  <1>10. CASE BodyRound(s)
    <2>1. state[s] = "body" /\ Body(s, 0, rx[s], required[s]) /\ Frame /\ state[s] # First(kind)
      BY <1>10 DEF BodyRound, First
    <2>2. InFrame(s) /\ rx[s] \in Seq(Byte) /\ required[s] \in Nat /\ Len(rx[s]) <= max
      BY <1>1, <1>3, <2>1 DEF StreamInv, TypeOK, FramerInv, RxBounded
    <2>3. Total(rx[s]) >= Least(kind)
      BY <1>1, <2>1 DEF Parsed
    <2>4. rx[s] = Current(s) \o SubSeq(src, 1, 0)
      <3>1. SubSeq(src, 1, 0) = <<>> /\ Current(s) = rx[s]
        BY <2>1 DEF Current
      <3> QED BY <2>2, <3>1
    <2>5. 0 \in {0, 1} /\ Len(src) >= 0
      BY <1>2
    <2>6. Len(rx[s]) >= HdrLen(kind) /\ Len(rx[s]) + required[s] = Total(rx[s])
      BY <2>2 DEF InFrame
    <2> QED
      BY <1>1, <1>3, <2>1, <2>2, <2>3, <2>4, <2>5, <2>6, BodyParsed
  <1> QED
    BY <1>7, <1>8, <1>9, <1>10 DEF Round

(* So does every other step.                                                *)
LEMMA OtherParsed ==
  ASSUME TypeOK, \A u \in Streams : Parsed(u),
         \/ \E s \in Streams : \/ \E n \in 1 .. Len(wire[s]) : Parse(s, n)
                               \/ Return(s) \/ Clear(s)
         \/ RefuseStream(OutOfRange)
         \/ UNCHANGED vars
  PROVE  \A u \in Streams : Parsed(u)'
  <1>1. ASSUME NEW s \in Streams, Forget(s), UNCHANGED <<kind, max, rx>>,
               state' = [state EXCEPT ![s] = First(kind)], cur \in {s, NoStream}, cur' = NoStream
        PROVE  \A u \in Streams : Parsed(u)'
    <2>1. ASSUME NEW u \in Streams, u # s PROVE Parsed(u)'
      <3>1. taken'[u] = taken[u] /\ frames'[u] = frames[u] /\ rx'[u] = rx[u] /\ state'[u] = state[u]
        BY <1>1, <2>1 DEF Forget, TypeOK
      <3>2. cur' # u /\ cur # u
        BY <1>1, <2>1, StreamsAssumption
      <3> QED BY <1>1, <3>1, <3>2, ParsedKept
    <2>2. Parsed(s)'
      <3>1. taken'[s] = <<>> /\ frames'[s] = <<>> /\ state'[s] = First(kind) /\ kind' = kind
        BY <1>1 DEF Forget, TypeOK
      <3>2. Current(s)' = <<>> /\ state'[s] # "body"
        BY <3>1 DEF Current, First
      <3>3. Ref' = Ref /\ Ref \in [Seq(Byte) -> Seq(Seq(Byte))]
        BY <1>1, RefIs DEF Ref
      <3>4. ASSUME NEW x \in Seq(Byte) PROVE Ref[<<>> \o x] = <<>> \o Ref[<<>> \o x]
        <4>1. <<>> \o x = x
          OBVIOUS
        <4>2. Ref[x] \in Seq(Seq(Byte))
          BY <3>3
        <4> QED BY <4>1, <4>2
      <3> QED BY <3>1, <3>2, <3>3, <3>4 DEF Parsed
    <2> QED BY <2>1, <2>2
  <1>2. ASSUME UNCHANGED <<kind, max, rx, state, taken, frames>>,
               \A u \in Streams : (cur' = u /\ ret' # "no_error") = (cur = u /\ ret # "no_error")
        PROVE  \A u \in Streams : Parsed(u)'
    BY <1>2, ParsedKept
  <1>3. ASSUME NEW s \in Streams, NEW n \in 1 .. Len(wire[s]), Parse(s, n)
        PROVE  \A u \in Streams : Parsed(u)'
    BY <1>2, <1>3, StreamsAssumption DEF Parse
  <1>4. ASSUME NEW s \in Streams, Return(s) PROVE \A u \in Streams : Parsed(u)'
    <2>1. CASE ret # "no_error"
      BY <1>1, <1>4, <2>1 DEF Return, ClearStream
    <2>2. CASE ret = "no_error"
      BY <1>2, <1>4, <2>2 DEF Return
    <2> QED BY <2>1, <2>2
  <1>5. ASSUME NEW s \in Streams, Clear(s) PROVE \A u \in Streams : Parsed(u)'
    BY <1>1, <1>5 DEF Clear
  <1>6. CASE RefuseStream(OutOfRange)
    BY <1>2, <1>6, StreamsAssumption DEF RefuseStream
  <1>7. CASE UNCHANGED vars
    BY <1>2, <1>7 DEF vars
  <1> QED
    BY <1>3, <1>4, <1>5, <1>6, <1>7

(* The frame under way is no frame of the reference.                        *)
LEMMA CurrentIsNone ==
  ASSUME TypeOK, FramerInv, NEW s \in Streams, Parsed(s)
  PROVE  Ref[Current(s)] = <<>> /\ Current(s) \in Seq(Byte)
  <1>1. Current(s) \in Seq(Byte)
    <2>1. <<>> \in Seq(Byte) /\ rx[s] \in Seq(Byte)
      BY DEF TypeOK
    <2> QED BY <2>1 DEF Current
  <1>2. StreamInv(s) /\ state[s] \in States(kind) /\ kind \in Kinds
    BY DEF FramerInv, TypeOK
  <1>3. CASE state[s] = First(kind)
    <2>1. Current(s) = <<>>
      BY <1>3 DEF Current
    <2>2. ~(Len(Current(s)) >= HdrLen(kind))
      BY <2>1 DEF HdrLen
    <2> QED BY <1>1, <2>2, NoFrameYet
  <1>4. CASE state[s] \in {"hdr2", "hdr"} /\ state[s] # First(kind)
    <2>1. Current(s) = rx[s]
      BY <1>4 DEF Current
    <2>2. Len(rx[s]) < HdrLen(kind)
      <3>1. CASE state[s] = "hdr2"
        <4>1. Len(rx[s]) = 1
          BY <1>2, <3>1, Zenon DEF StreamInv
        <4> QED BY <4>1 DEF HdrLen
      <3>2. CASE state[s] = "hdr"
        <4>1. Len(rx[s]) \in 1 .. 3
          BY <1>2, <3>2, Zenon DEF StreamInv
        <4>2. HdrLen(kind) = 4
          BY <1>2, <3>2 DEF States, HdrLen
        <4>3. \A n \in 1 .. 3 : n < 4
          OBVIOUS
        <4>4. Len(rx[s]) < 4
          BY <4>1, <4>3, Zenon
        <4> QED BY <4>2, <4>4, Zenon
      <3> QED BY <1>4, <3>1, <3>2
    <2>3. Len(rx[s]) \in Nat /\ HdrLen(kind) \in Nat
      BY DEF TypeOK, HdrLen
    <2> QED BY <1>1, <2>1, <2>2, <2>3, NoFrameYet
  <1>5. CASE state[s] = "body"
    <2>1. Current(s) = rx[s]
      BY <1>5 DEF Current, First
    <2>2. CASE cur = s /\ ret # "no_error"
      <3>1. Ref[rx[s]] = <<>>
        BY <1>5, <2>2, Zenon DEF Parsed
      <3> QED BY <1>1, <2>1, <3>1
    <2>3. CASE ~(cur = s /\ ret # "no_error")
      <3>1. Len(rx[s]) < Total(rx[s])
        BY <1>2, <1>5, <2>3 DEF StreamInv, InFrame, TypeOK
      <3> QED BY <1>1, <2>1, <3>1, NoFrameYet
    <2> QED BY <2>2, <2>3
  <1> QED
    BY <1>1, <1>2, <1>3, <1>4, <1>5 DEF States, First

(* However the bytes of a stream are cut into chunks and interleaved with   *)
(* those of other streams, the frames handed to process_rx_frame() since    *)
(* the stream was last cleared are those the reference reads in the bytes   *)
(* taken since: for any bytes, right or wrong, and any maximum.             *)
THEOREM FramesAreThoseSent == Spec => []FramesAreReference
  <1> DEFINE I == TypeOK /\ FramerInv
             P == \A s \in Streams : Parsed(s)
  <1>1. I /\ Init => P
    <2> SUFFICES ASSUME I, Init, NEW s \in Streams PROVE Parsed(s)
      OBVIOUS
    <2>1. taken[s] = <<>> /\ frames[s] = <<>> /\ Current(s) = <<>> /\ state[s] # "body"
      BY DEF Init, Current, First
    <2>2. ASSUME NEW x \in Seq(Byte) PROVE Ref[<<>> \o x] = <<>> \o Ref[<<>> \o x]
      <3>1. <<>> \o x = x
        OBVIOUS
      <3>2. Ref[x] \in Seq(Seq(Byte))
        BY RefIs
      <3> QED BY <3>1, <3>2
    <2> QED BY <2>1, <2>2 DEF Parsed
  <1>2. I /\ P /\ [Next]_vars => P'
    <2> SUFFICES ASSUME TypeOK, FramerInv, \A s \in Streams : Parsed(s), [Next]_vars
                 PROVE  \A s \in Streams : Parsed(s)'
      OBVIOUS
    <2>1. \/ \E s \in Streams : Round(s)
          \/ \E s \in Streams : \/ \E n \in 1 .. Len(wire[s]) : Parse(s, n)
                                \/ Return(s) \/ Clear(s)
          \/ RefuseStream(OutOfRange)
          \/ UNCHANGED vars
      BY DEF Next
    <2> QED
      BY <2>1, RoundParsed, OtherParsed
  <1>3. I /\ P => FramesAreReference
    <2> SUFFICES ASSUME I, P, NEW s \in Streams PROVE frames[s] = Ref[taken[s]]
      BY DEF FramesAreReference, Ref
    <2>1. Ref[Current(s)] = <<>> /\ Current(s) \in Seq(Byte)
      BY CurrentIsNone
    <2>2. <<>> \in Seq(Byte) /\ taken[s] \in Seq(Byte) /\ frames[s] \in Seq(Seq(Byte))
      BY DEF TypeOK
    <2>3. Ref[taken[s] \o <<>>] = frames[s] \o Ref[Current(s) \o <<>>]
      BY <2>2 DEF Parsed
    <2>4. taken[s] \o <<>> = taken[s] /\ Current(s) \o <<>> = Current(s) /\ frames[s] \o <<>> = frames[s]
      BY <2>1, <2>2
    <2> QED BY <2>1, <2>3, <2>4
  <1> QED
    BY <1>1, <1>2, <1>3, InvariantHolds, PTL DEF Spec
=============================================================================
