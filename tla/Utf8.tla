--------------------------------- MODULE Utf8 ---------------------------------
(* linenoise/src/ConvertUTF.cpp: the conversions between UTF-8, UTF-16 and    *)
(* UTF-32.  linenoise.cpp uses those between UTF-8 and UTF-32, leniently, for *)
(* what is typed, kept and shown.                                             *)
EXTENDS Naturals, Sequences

Replacement == 65533             \* UNI_REPLACEMENT_CHAR
MaxLegal == 1114111              \* UNI_MAX_LEGAL_UTF32
High == 55296..56319             \* UNI_SUR_HIGH_START..UNI_SUR_HIGH_END
Low == 56320..57343              \* UNI_SUR_LOW_START..UNI_SUR_LOW_END
Surrogates == High \cup Low
HalfBase == 65536                \* halfBase; 10 bits go into each half

-----------------------------------------------------------------------------
\* The loop that the conversions share: Step[i, left] reads the source from i
\* on for a target with room for left units.  It stops there, or reads n units
\* and writes those of out; a character that is too large lets it go on with
\* the result sourceIllegal.  What is read and written before a stop stays.
Stop(result) == [n |-> 0, out |-> <<>>, result |-> result]
Give(n, out) == [n |-> n, out |-> out, result |-> "ok"]

Convert(s, room, Step) ==
    LET From[i \in 1..Len(s) + 1, left \in 0..room] ==
          IF i > Len(s) THEN [out |-> <<>>, result |-> "ok", read |-> Len(s)]
          ELSE LET step == Step[i, left] IN
               IF step.n = 0 THEN [out |-> <<>>, result |-> step.result, read |-> i - 1]
               ELSE IF Len(step.out) > left
                    THEN [out |-> <<>>, result |-> "targetExhausted", read |-> i - 1]
               ELSE LET rest == From[i + step.n, left - Len(step.out)] IN
                    [rest EXCEPT !.out = step.out \o @, !.result = IF @ = "ok" THEN step.result ELSE @]
    IN From[1, room]

-----------------------------------------------------------------------------
(* One character in each of the forms *)
\* A character of UTF-16: one unit, or two halves.
To16(c) == IF c < HalfBase THEN <<c>>
           ELSE <<55296 + (c - HalfBase) \div 1024, 56320 + ((c - HalfBase) % 1024)>>

\* A character of UTF-8: the first byte is marked with its count.
Byte(c, shift) == 128 + ((c \div shift) % 64)
To8(c) == CASE c < 128 -> <<c>>
            [] c \in 128..2047 -> <<192 + c \div 64, Byte(c, 1)>>
            [] c \in 2048..65535 -> <<224 + c \div 4096, Byte(c, 64), Byte(c, 1)>>
            [] c \in 65536..MaxLegal -> <<240 + c \div 262144, Byte(c, 4096), Byte(c, 64), Byte(c, 1)>>
            [] OTHER -> <<239, 191, 189>>

Units(c, form) == CASE form = "UTF8" -> To8(c) [] form = "UTF16" -> To16(c) [] form = "UTF32" -> <<c>>

-----------------------------------------------------------------------------
(* From UTF-8 *)
\* trailingBytesForUTF8
Trailing(b) == CASE b < 192 -> 0 [] b < 224 -> 1 [] b < 240 -> 2
                 [] b < 248 -> 3 [] b < 252 -> 4 [] OTHER -> 5

\* isLegalUTF8(): s is as long as its first byte announces.
SecondByte(first) == CASE first = 224 -> 160..191 [] first = 237 -> 128..159
                       [] first = 240 -> 144..191 [] first = 244 -> 128..143
                       [] OTHER -> 128..191
IsLegal(s) == /\ Len(s) <= 4
              /\ s[1] <= 244 /\ s[1] \notin 128..193
              /\ Len(s) >= 2 => s[2] \in SecondByte(s[1])
              /\ \A i \in 3..Len(s) : s[i] \in 128..191
\* isLegalUTF8Sequence(): s is what is left of a text.
IsLegalSequence(s) == LET n == Trailing(s[1]) + 1 IN n <= Len(s) /\ IsLegal(SubSeq(s, 1, n))

\* offsetsFromUTF8 taken from the sum of the bytes, each shifted by 6 bits.
Bits(s) == CASE Len(s) = 1 -> s[1]
             [] Len(s) = 2 -> (s[1] - 192) * 64 + (s[2] - 128)
             [] Len(s) = 3 -> ((s[1] - 224) * 64 + (s[2] - 128)) * 64 + (s[3] - 128)
             [] Len(s) = 4 -> (((s[1] - 240) * 64 + (s[2] - 128)) * 64 + (s[3] - 128)) * 64 + (s[4] - 128)

\* What isLegalUTF8() accepts is no surrogate and not too large, so that the
\* flags make no difference.
From8(s, i, form) ==
    LET n == Trailing(s[i]) + 1 IN
    IF i + n > Len(s) + 1 THEN Stop("sourceExhausted")
    ELSE IF ~IsLegal(SubSeq(s, i, i + n - 1)) THEN Stop("sourceIllegal")
    ELSE Give(n, Units(Bits(SubSeq(s, i, i + n - 1)), form))

ConvertUTF8toUTF32(s, room) == Convert(s, room, [i \in DOMAIN s, left \in 0..room |-> From8(s, i, "UTF32")])
ConvertUTF8toUTF16(s, room) == Convert(s, room, [i \in DOMAIN s, left \in 0..room |-> From8(s, i, "UTF16")])

-----------------------------------------------------------------------------
(* From UTF-32 *)
ConvertUTF32toUTF8(s, room, strict) ==
    Convert(s, room, [i \in DOMAIN s, left \in 0..room |->
        IF strict /\ s[i] \in Surrogates THEN Stop("sourceIllegal")
        ELSE [Give(1, To8(s[i])) EXCEPT !.result = IF s[i] > MaxLegal THEN "sourceIllegal" ELSE "ok"]])

\* A target that is full is noticed before anything else.
ConvertUTF32toUTF16(s, room, strict) ==
    Convert(s, room, [i \in DOMAIN s, left \in 0..room |->
        IF left = 0 THEN Stop("targetExhausted")
        ELSE IF s[i] \in Surrogates
             THEN IF strict THEN Stop("sourceIllegal") ELSE Give(1, <<Replacement>>)
        ELSE IF s[i] > MaxLegal
             THEN IF strict THEN [Give(1, <<>>) EXCEPT !.result = "sourceIllegal"]
                  ELSE Give(1, <<Replacement>>)
        ELSE Give(1, To16(s[i]))])

-----------------------------------------------------------------------------
(* From UTF-16 *)
\* A half that is not followed by the other is a character of its own, unless
\* it is the last unit or the conversion is strict.
From16(s, i, strict, form) ==
    IF s[i] \in High /\ i = Len(s) THEN Stop("sourceExhausted")
    ELSE IF s[i] \in High /\ s[i + 1] \in Low
         THEN Give(2, Units((s[i] - 55296) * 1024 + (s[i + 1] - 56320) + HalfBase, form))
    ELSE IF strict /\ s[i] \in Surrogates THEN Stop("sourceIllegal")
    ELSE Give(1, Units(s[i], form))

ConvertUTF16toUTF32(s, room, strict) ==
    Convert(s, room, [i \in DOMAIN s, left \in 0..room |-> From16(s, i, strict, "UTF32")])
ConvertUTF16toUTF8(s, room, strict) ==
    Convert(s, room, [i \in DOMAIN s, left \in 0..room |-> From16(s, i, strict, "UTF8")])

-----------------------------------------------------------------------------
\* A character is itself in the three forms, strictly or not, whole or not at
\* all, and a half of a pair is not taken for it.
FormsAgree(c, bytes) ==
    LET units == ConvertUTF8toUTF16(bytes, 2).out
        Whole(r, out) == r.result = "ok" /\ r.out = out
        Stopped(r) == r.result = "targetExhausted" /\ r.out = <<>> /\ r.read = 0
    IN /\ IsLegalSequence(bytes) /\ Whole(ConvertUTF8toUTF32(bytes, 1), <<c>>)
       /\ \A strict \in BOOLEAN :
            /\ Whole(ConvertUTF32toUTF8(<<c>>, 4, strict), bytes)
            /\ Whole(ConvertUTF32toUTF16(<<c>>, 2, strict), units)
            /\ Whole(ConvertUTF16toUTF32(units, 1, strict), <<c>>)
            /\ Whole(ConvertUTF16toUTF8(units, 4, strict), bytes)
            /\ Stopped(ConvertUTF32toUTF8(<<c>>, Len(bytes) - 1, strict))
            /\ Stopped(ConvertUTF32toUTF16(<<c>>, Len(units) - 1, strict))
            /\ Stopped(ConvertUTF16toUTF8(units, Len(bytes) - 1, strict))
       /\ Len(units) = 2 =>
            /\ ConvertUTF16toUTF32(<<units[1]>>, 1, FALSE).result = "sourceExhausted"
            /\ \A half \in {<<units[2]>>, <<units[1], 65>>} :
                 ConvertUTF16toUTF8(half, 8, TRUE) = [out |-> <<>>, result |-> "sourceIllegal", read |-> 0]
=============================================================================
