----------------------------- MODULE JsonStrings -----------------------------
(* Strings of rapidjson, read and written: GenericReader::ParseStringToStream, *)
(* Writer::WriteString, and the encodings and transcoders between (reader.h,   *)
(* writer.h, encodings.h).  The text is UTF-8; the string is kept in UTF-8,    *)
(* with the text's encoding validated or not, in UTF-16, UTF-32 or ASCII; it   *)
(* is written in UTF-8 or in ASCII.  A unit is a number.                       *)
EXTENDS Integers, Sequences

CONSTANTS Pieces,     \* what the text of a string is made of
          MaxPieces

VARIABLES text, pieces
strings == <<text, pieces>>

Modes == {"utf8", "validated", "utf16", "utf32", "ascii"}
Quote == 34  BackSlash == 92  U == 117

At(s, i) == IF i <= Len(s) THEN s[i] ELSE 0
IsLead(c) == c \in 55296..56319
IsTrail(c) == c \in 56320..57343

-----------------------------------------------------------------------------
(* encodings.h *)
Utf8(c) ==
    IF c < 128 THEN <<c>>
    ELSE IF c < 2048 THEN <<192 + c \div 64, 128 + (c % 64)>>
    ELSE IF c < 65536 THEN <<224 + c \div 4096, 128 + ((c \div 64) % 64), 128 + (c % 64)>>
    ELSE <<240 + c \div 262144, 128 + ((c \div 4096) % 64), 128 + ((c \div 64) % 64), 128 + (c % 64)>>
Lead(c) == 55296 + (c - 65536) \div 1024
Trail(c) == 56320 + ((c - 65536) % 1024)
Utf16(c) == IF c < 65536 THEN <<c>> ELSE <<Lead(c), Trail(c)>>
Pair(l, t) == 65536 + (l - 55296) * 1024 + t - 56320

\* GetRange() and the masks of Decode(): what may follow the first byte
Trailing == 128..191
Follow(c) == CASE c \in 194..223 -> <<Trailing>>
               [] c = 224 -> <<160..191, Trailing>>
               [] c = 237 -> <<128..159, Trailing>>
               [] c \in 225..239 \ {237} -> <<Trailing, Trailing>>
               [] c = 240 -> <<144..191, Trailing, Trailing>>
               [] c = 244 -> <<128..143, Trailing, Trailing>>
               [] c \in 241..243 -> <<Trailing, Trailing, Trailing>>
               [] OTHER -> <<>>
Payload(c) == c % (IF c < 224 THEN 32 ELSE IF c < 240 THEN 16 ELSE 8)
\* UTF8::Decode() and Validate() at i: whether it is well formed, its length
\* and the code point.
Decode8(s, i) ==
    LET f == Follow(s[i])
        P[k \in 0..Len(f)] == IF k = 0 THEN Payload(s[i]) ELSE P[k - 1] * 64 + (At(s, i + k) % 64)
    IN [ok |-> s[i] < 128 \/ (f # <<>> /\ \A k \in 1..Len(f) : At(s, i + k) \in f[k]),
        n |-> 1 + Len(f), point |-> IF s[i] < 128 THEN s[i] ELSE P[Len(f)]]
Decode16(s, i) ==
    IF IsLead(s[i]) THEN [ok |-> IsTrail(At(s, i + 1)), n |-> 2, point |-> Pair(s[i], At(s, i + 1))]
    ELSE [ok |-> ~IsTrail(s[i]), n |-> 1, point |-> s[i]]
\* UTF-32 and ASCII have one unit for each code point.
Utf32(s, i) == [ok |-> s[i] <= 1114111, n |-> 1, point |-> s[i]]
Ascii(s, i) == [ok |-> s[i] < 128, n |-> 1, point |-> s[i]]
Decode(mode, s, i) == CASE mode = "utf16" -> Decode16(s, i) [] mode = "utf32" -> Utf32(s, i)
                        [] mode = "ascii" -> Ascii(s, i) [] OTHER -> Decode8(s, i)
Encode(mode, c) == CASE mode = "utf16" -> Utf16(c) [] mode \in {"utf32", "ascii"} -> <<c>>
                     [] OTHER -> Utf8(c)
\* UTF16::Encode() asserts that the code point is no surrogate, ASCII::Encode()
\* that it is one of ASCII.
Refused(mode, c) == (mode = "utf16" /\ IsTrail(c)) \/ (mode = "ascii" /\ c > 127)

-----------------------------------------------------------------------------
(* ParseStringToStream() from the character after the opening quote *)
Escapes == {<<34, 34>>, <<47, 47>>, <<92, 92>>, <<98, 8>>, <<102, 12>>, <<110, 10>>, <<114, 13>>, <<116, 9>>}
HexDigit(c) == CASE c \in 48..57 -> c - 48 [] c \in 65..70 -> c - 55 [] c \in 97..102 -> c - 87 [] OTHER -> -1
Hex4(s, i) == IF \A k \in 0..3 : HexDigit(At(s, i + k)) >= 0
              THEN HexDigit(s[i]) * 4096 + HexDigit(s[i + 1]) * 256 + HexDigit(s[i + 2]) * 16 + HexDigit(s[i + 3])
              ELSE -1
Fails(e) == [error |-> e, str |-> <<>>]
RECURSIVE Read(_, _, _, _)
Put(mode, s, i, o, c) == IF Refused(mode, c) THEN Fails("assertion") ELSE Read(mode, s, i, o \o Encode(mode, c))
\* \uXXXX at i, with the surrogate that must follow a leading one
Unicode(mode, s, i, o) ==
    LET c == Hex4(s, i + 2)
        t == Hex4(s, i + 8)
    IN CASE c < 0 -> Fails("UnicodeEscapeInvalidHex")
         [] IsLead(c) /\ (At(s, i + 6) # BackSlash \/ At(s, i + 7) # U) -> Fails("UnicodeSurrogateInvalid")
         [] IsLead(c) /\ t < 0 -> Fails("UnicodeEscapeInvalidHex")
         [] IsLead(c) /\ t >= 0 /\ ~IsTrail(t) -> Fails("UnicodeSurrogateInvalid")
         [] IsLead(c) /\ IsTrail(t) -> Put(mode, s, i + 12, o, Pair(c, t))
         [] OTHER -> Put(mode, s, i + 6, o, c)
Read(mode, s, i, o) ==
    LET c == At(s, i) IN
    CASE c = BackSlash ->
            IF \E x \in Escapes : x[1] = At(s, i + 1)
            THEN Read(mode, s, i + 2, Append(o, (CHOOSE x \in Escapes : x[1] = At(s, i + 1))[2]))
            ELSE IF At(s, i + 1) = U THEN Unicode(mode, s, i, o) ELSE Fails("EscapeInvalid")
      [] c = Quote -> [error |-> "none", str |-> o]
      [] c < 32 -> Fails(IF c = 0 THEN "MissQuotationMark" ELSE "EscapeInvalid")
      [] mode = "utf8" /\ c \notin {Quote, BackSlash} /\ c >= 32 -> Read(mode, s, i + 1, Append(o, c))
      [] OTHER -> LET d == Decode8(s, i) IN
                  IF d.ok THEN Put(mode, s, i + d.n, o, d.point) ELSE Fails("InvalidEncoding")
Parsed(mode, s) == Read(mode, s, 1, <<>>)

-----------------------------------------------------------------------------
(* WriteString() of str, kept in mode, in ASCII or not; the opening quote left *)
(* out *)
HexOf(d) == IF d < 10 THEN 48 + d ELSE 55 + d
UEscape(c) == <<BackSlash, U, HexOf(c \div 4096), HexOf((c \div 256) % 16), HexOf((c \div 16) % 16), HexOf(c % 16)>>
Escaped(c) == IF c < 65536 THEN UEscape(c) ELSE UEscape(Lead(c)) \o UEscape(Trail(c))
Short(c) == {x \in Escapes : x[2] = c /\ c # 47}
RECURSIVE Write(_, _, _, _, _)
Write(mode, ascii, s, i, o) ==
    IF i > Len(s) THEN [ok |-> TRUE, out |-> Append(o, Quote)]
    ELSE LET c == s[i]
             d == Decode(mode, s, i)
         IN CASE ascii /\ c >= 128 ->
                    \* A lone surrogate, which UTF-32 lets in, is refused by an assertion.
                    IF d.ok /\ ~IsTrail(d.point) THEN Write(mode, ascii, s, i + d.n, o \o Escaped(d.point))
                    ELSE [ok |-> FALSE, out |-> o]
              [] c < 32 \/ c \in {Quote, BackSlash} ->
                    Write(mode, ascii, s, i + 1,
                          o \o IF Short(c) # {} THEN <<BackSlash, (CHOOSE x \in Short(c) : TRUE)[1]>> ELSE UEscape(c))
              [] mode \in {"utf16", "utf32"} /\ ~ascii /\ c >= 128 ->
                    IF d.ok THEN Write(mode, ascii, s, i + d.n, o \o Utf8(d.point)) ELSE [ok |-> FALSE, out |-> o]
              [] OTHER -> Write(mode, ascii, s, i + 1, Append(o, c))
Written(mode, ascii, s) == Write(mode, ascii, s, 1, <<>>)

-----------------------------------------------------------------------------
Init == text = <<>> /\ pieces = 0
\* The text of a string, piece by piece
Next == /\ pieces < MaxPieces /\ pieces' = pieces + 1
        /\ Parsed("utf8", text).error # "none"
        /\ \E p \in Pieces : text' = text \o p

-----------------------------------------------------------------------------
\* A code point's encoding at its place in s, for all of s
WellFormed(s) ==
    LET Good[i \in 1..Len(s) + 1] == i = Len(s) + 1 \/ (Decode8(s, i).ok /\ i + Decode8(s, i).n <= Len(s) + 1 /\ Good[i + Decode8(s, i).n])
    IN Good[1]
LoneTrail(m, s) == \E i \in 1..Len(s) : IF m = "utf32" THEN IsTrail(s[i])
                                         ELSE m # "utf16" /\ s[i] = 237 /\ At(s, i + 1) \in 160..191
Sound(m, s) == CASE m = "utf16" -> TRUE [] m = "utf32" -> ~LoneTrail(m, s) [] OTHER -> WellFormed(s)
\* Every string that is read can be written, in ASCII as in UTF-8, and reads
\* back the same; but for bytes that were never valid UTF-8, which only the
\* reader that does not validate lets in, and for the escape of a lone trailing
\* surrogate, which UTF-8 and UTF-32 let in: ASCII refuses both.  What validating
\* changes is only whether the text is accepted, a string kept in UTF-16 or
\* UTF-32 is the one kept in UTF-8, and ASCII holds those that need no more.
StringsKept ==
    LET r == [m \in Modes |-> Parsed(m, text)] IN
    /\ \A m \in Modes, ascii \in BOOLEAN :
          r[m].error = "none" =>
            LET w == Written(m, ascii, r[m].str) IN
            /\ w.ok = (~ascii \/ Sound(m, r[m].str))
            /\ w.ok /\ ~LoneTrail(m, r[m].str) => Parsed(m, w.out) = r[m]
            /\ w.ok /\ ascii => \A i \in 1..Len(w.out) : w.out[i] < 128
    /\ r["validated"].error = "none" => r["validated"] = r["utf8"] /\ (WellFormed(r["utf8"].str) \/ LoneTrail("utf8", r["utf8"].str))
    /\ r["utf16"].error = "none" =>
          Written("utf16", FALSE, r["utf16"].str) = Written("utf8", FALSE, r["utf8"].str)
    /\ r["utf32"].error = r["validated"].error
    /\ r["utf32"].error = "none" =>
          Written("utf32", FALSE, r["utf32"].str) = Written("utf8", FALSE, r["utf8"].str)
    /\ IF r["validated"].error = "none" /\ \A i \in 1..Len(r["validated"].str) : r["validated"].str[i] < 128
       THEN r["ascii"] = r["validated"] ELSE r["ascii"].error # "none"
=============================================================================
