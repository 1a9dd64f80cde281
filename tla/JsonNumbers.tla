----------------------------- MODULE JsonNumbers -----------------------------
(* Integers of rapidjson: GenericReader::ParseNumber() picks the type, the    *)
(* constructors of GenericValue set the flags, Accept() picks the type again, *)
(* Writer writes the digits (reader.h, document.h, writer.h, internal/itoa.h).*)
(* The widths of int and int64_t are constants, and with them the limits the  *)
(* code derives from them; itoa's groups of four digits have Group digits.    *)
(* Of doubles only the integers are here, with Significand bits: a fraction   *)
(* or an exponent other than 0 is left out.                                   *)
EXTENDS Integers, Sequences

CONSTANTS Narrow,   \* bits of int; 32 in the code
          Wide,     \* bits of int64_t; 64 in the code
          Significand, \* bits of the significand of a double; 53 in the code
          Group,    \* digits written at once; 4 in the code
          Numbers   \* magnitudes a text or a program holds

VARIABLES a, b      \* two values: their flags and their bits
numbers == <<a, b>>

Two(n) == 2^n
\* A value of width w, as a signed number
Signed(x, w) == IF x % Two(w) < Two(w - 1) THEN x % Two(w) ELSE (x % Two(w)) - Two(w)
\* The nearest double, and of two the one whose significand is even; an int and
\* an unsigned are doubles already.
Rounded(n) ==
    LET m == IF n < 0 THEN -n ELSE n
        unit == CHOOSE u \in {Two(k) : k \in 0..Wide} :
                    m < u * Two(Significand) /\ (u = 1 \/ 2 * m >= u * Two(Significand))
        q == m \div unit
        up == 2 * (m % unit) > unit \/ (2 * (m % unit) = unit /\ q % 2 = 1)
        r == (IF up THEN q + 1 ELSE q) * unit
    IN IF n < 0 THEN -r ELSE r
Value(flags, n) == [flags |-> flags, u64 |-> n % Two(Wide), d |-> n]

-----------------------------------------------------------------------------
(* Constructors of GenericValue *)
FlagInt == {"int", "int64"}
FlagUint == {"uint", "uint64", "int64"}
OfInt(i) == Value(FlagInt \cup (IF i >= 0 THEN FlagUint ELSE {}), i)
OfUint(u) == Value(FlagUint \cup (IF u >= Two(Narrow - 1) THEN {} ELSE FlagInt), u)
OfInt64(i) ==
    Value({"int64"} \cup (IF i >= 0 THEN {"uint64"} ELSE {})
                    \cup (IF i \in 0..Two(Narrow) - 1 THEN {"uint"} ELSE {})
                    \cup (IF i \in -Two(Narrow - 1)..Two(Narrow - 1) - 1 THEN {"int"} ELSE {}), i)
OfUint64(u) ==
    Value({"uint64"} \cup (IF u < Two(Wide - 1) THEN {"int64"} ELSE {})
                     \cup (IF u < Two(Narrow) THEN {"uint"} ELSE {})
                     \cup (IF u < Two(Narrow - 1) THEN {"int"} ELSE {}), u)
OfDouble(d) == [flags |-> {"double"}, u64 |-> 0, d |-> d]
Event(kind, n) == CASE kind = "Int" -> OfInt(n) [] kind = "Uint" -> OfUint(n)
                    [] kind = "Int64" -> OfInt64(n) [] kind = "Uint64" -> OfUint64(n)
                    [] OTHER -> OfDouble(n)
GetInt(v) == Signed(v.u64, Narrow)
GetUint(v) == v.u64 % Two(Narrow)
GetInt64(v) == Signed(v.u64, Wide)
GetUint64(v) == v.u64
GetDouble(v) == CASE "double" \in v.flags -> v.d
                  [] "int" \in v.flags -> GetInt(v)
                  [] "uint" \in v.flags /\ "int" \notin v.flags -> GetUint(v)
                  [] "int64" \in v.flags /\ {"int", "uint"} \cap v.flags = {} -> Rounded(GetInt64(v))
                  [] OTHER -> Rounded(GetUint64(v))
\* A double below the greatest value's is one that the integer type holds.
IsLosslessDouble(v) ==
    CASE "uint64" \in v.flags ->
            LET d == Rounded(GetUint64(v)) IN d >= 0 /\ d < Rounded(Two(Wide) - 1) /\ GetUint64(v) = d
      [] "int64" \in v.flags /\ "uint64" \notin v.flags ->
            LET d == Rounded(GetInt64(v)) IN
            d >= Rounded(-Two(Wide - 1)) /\ d < Rounded(Two(Wide - 1) - 1) /\ GetInt64(v) = d
      [] OTHER -> TRUE
\* operator==
Equal(x, y) == IF "double" \in x.flags \cup y.flags THEN GetDouble(x) = GetDouble(y) ELSE x.u64 = y.u64

-----------------------------------------------------------------------------
(* ParseNumber() of a sequence of digits *)
\* Ten times i and a digit stay within most.
Fits(i, digit, most) == i < most \div 10 \/ (i = most \div 10 /\ digit <= most % 10)
Most(minus, w) == IF minus THEN Two(w - 1) ELSE Two(w) - 1
\* The digits taken from the k-th on while they fit
RECURSIVE Taken(_, _, _, _)
Taken(digits, k, i, most) ==
    IF k <= Len(digits) /\ Fits(i, digits[k], most) THEN Taken(digits, k + 1, i * 10 + digits[k], most)
    ELSE [at |-> k, i |-> i]
\* The digits from the k-th on, which a double takes after the integer i
Accumulated(digits, k, i) ==
    LET D[j \in k - 1..Len(digits)] ==
            IF j = k - 1 THEN Rounded(i) ELSE Rounded(Rounded(D[j - 1] * 10) + digits[j])
    IN D[Len(digits)]
\* The handler's call: minus is applied to the bits.  With real, e0 follows.
ParseNumber(minus, digits, real) ==
    LET narrow == Taken(digits, 2, digits[1], Most(minus, Narrow))
        wide == Taken(digits, narrow.at, narrow.i, Most(minus, Wide))
        d == Accumulated(digits, wide.at, wide.i)
        n(i, w) == IF minus THEN Signed(Two(w) - i, w) ELSE i
    IN CASE real \/ wide.at <= Len(digits) ->
                [kind |-> "Double", n |-> IF minus THEN -d ELSE d]
         [] ~real /\ narrow.at > Len(digits) -> [kind |-> IF minus THEN "Int" ELSE "Uint", n |-> n(narrow.i, Narrow)]
         [] OTHER -> [kind |-> IF minus THEN "Int64" ELSE "Uint64", n |-> n(wide.i, Wide)]

-----------------------------------------------------------------------------
(* Accept() and the writer *)
Accept(v) == CASE "double" \in v.flags -> [kind |-> "Double", n |-> v.d]
               [] "int" \in v.flags -> [kind |-> "Int", n |-> GetInt(v)]
               [] "uint" \in v.flags /\ "int" \notin v.flags -> [kind |-> "Uint", n |-> GetUint(v)]
               [] "int64" \in v.flags /\ {"int", "uint"} \cap v.flags = {} -> [kind |-> "Int64", n |-> GetInt64(v)]
               [] OTHER -> [kind |-> "Uint64", n |-> GetUint64(v)]
\* itoa: k digits of x, with or without the zeros in front but the last
Digits(x, k) == [i \in 1..k |-> (x \div 10^(k - i)) % 10]
Trimmed(x, k) == SubSeq(Digits(x, k), CHOOSE i \in 1..k : (i = k \/ Digits(x, k)[i] # 0) /\ \A j \in 1..i - 1 : Digits(x, k)[j] = 0, k)
\* u32toa() with two groups after the first, u64toa() with four
Toa(x, groups) ==
    LET low == 10^(Group * groups) IN
    IF x < low THEN Trimmed(x, Group * groups)
    ELSE Trimmed(x \div low, Group) \o Digits(x % low, Group * groups)
u32toa(u) == [minus |-> FALSE, digits |-> Toa(u, 2)]
u64toa(u) == [minus |-> FALSE, digits |-> Toa(u, 4)]
i32toa(i) == IF i < 0 THEN [u32toa(-i) EXCEPT !.minus = TRUE] ELSE u32toa(i)
i64toa(i) == IF i < 0 THEN [u64toa(-i) EXCEPT !.minus = TRUE] ELSE u64toa(i)
Written(e) == CASE e.kind = "Int"   -> i32toa(e.n) [] e.kind = "Uint"   -> u32toa(e.n)
                [] e.kind = "Int64" -> i64toa(e.n) [] e.kind = "Uint64" -> u64toa(e.n)

-----------------------------------------------------------------------------
DecimalOf(x) == Trimmed(x, 8)
\* Read from a text, or set by a program with the type that it has
Read == {Event(e.kind, e.n) : e \in {ParseNumber(m, DecimalOf(x), r) : m \in BOOLEAN, x \in Numbers, r \in BOOLEAN}}
Both == Numbers \cup {-x : x \in Numbers}
Made == {OfInt(x) : x \in Both \cap (-Two(Narrow - 1)..Two(Narrow - 1) - 1)}
        \cup {OfUint(x) : x \in Both \cap (0..Two(Narrow) - 1)}
        \cup {OfInt64(x) : x \in Both \cap (-Two(Wide - 1)..Two(Wide - 1) - 1)}
        \cup {OfUint64(x) : x \in Both \cap (0..Two(Wide) - 1)}
        \cup {OfDouble(Rounded(x)) : x \in Both}
Init == a = OfInt(0) /\ b = OfInt(0)
\* One value, then another to compare it with
Next == /\ b = OfInt(0)
        /\ \/ a' \in Read \cup Made /\ UNCHANGED b
           \/ b' \in Read \cup Made /\ UNCHANGED a

-----------------------------------------------------------------------------
\* history: d is the number that the value stands for
Holds == [int |-> -Two(Narrow - 1)..Two(Narrow - 1) - 1, uint |-> 0..Two(Narrow) - 1,
          int64 |-> -Two(Wide - 1)..Two(Wide - 1) - 1, uint64 |-> 0..Two(Wide) - 1]
\* A number keeps its value through the types: its flags name the types that
\* hold it and no other, the getters give it, GetDouble() the nearest double,
\* which is the number itself exactly where IsLosslessDouble() says so; written
\* digits read back to an equal value, with an exponent of 0 as well.  Two
\* integers are equal when their numbers are, but for a negative one and an
\* unsigned one with the same bits, which are equal too; a double equals every
\* integer whose nearest double it is.
NumbersTell ==
    /\ "double" \notin a.flags =>
        LET w == Written(Accept(a))
            e == ParseNumber(w.minus, w.digits, FALSE)
            x == ParseNumber(w.minus, w.digits, TRUE)
        IN /\ \A t \in DOMAIN Holds : t \in a.flags <=> a.d \in Holds[t]
           /\ Accept(a).n = a.d /\ GetDouble(a) = Rounded(a.d)
           /\ e.n = a.d /\ Equal(Event(e.kind, e.n), a) /\ Equal(a, Event(x.kind, x.n))
    /\ IsLosslessDouble(a) <=> GetDouble(a) = a.d
    /\ a.d = b.d => Equal(a, b)
    /\ Equal(a, b) => IF "double" \in a.flags \cup b.flags THEN Rounded(a.d) = Rounded(b.d)
                      ELSE a.d = b.d \/ a.d - b.d \in {Two(Wide), -Two(Wide)}
=============================================================================
