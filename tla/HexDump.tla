------------------------------- MODULE HexDump -------------------------------
(* util_lib/logger: a dump of bytes in hex and as text, a row of width bytes  *)
(* at a time, built in a buffer of Size cells that is written when it holds   *)
(* all the rows it can.  One step is one row.                                 *)
EXTENDS Naturals, Sequences

CONSTANTS Size,           \* sizeof(dst)
          MaxBytes,       \* bound: bytes to dump
          Widths          \* set: widths that are asked for

VARIABLES len, width,     \* what hexdump() was given
          left,           \* len: bytes not yet given to a buffer
          fill_len,       \* bytes of this buffer not yet in a row
          src,            \* bytes dumped so far
          dst,            \* the cells of the buffer from its beginning
          h, a, tmp,      \* offsets in dst: after the hex, after the row, where text begins
          out,            \* what the stream got
          reach            \* history: the end of the furthest write into dst

hexdump == <<len, width, left, fill_len, src, dst, h, a, tmp, out, reach>>

Least(x, y) == IF x < y THEN x ELSE y
Cell(kind, i) == [kind |-> kind, byte |-> i]
Blank == Cell("blank", 0)
Unset == Cell("unset", 0)
Part == <<"high", "low", "space">>        \* of a byte in hex

Init ==
  /\ len \in 0..MaxBytes /\ width \in Widths /\ left = len
  /\ fill_len = 0 /\ src = 0 /\ dst = <<>> /\ h = 0 /\ a = 0 /\ tmp = 0 /\ out = <<>> /\ reach = 0

\* The rows that a buffer holds, with 4 cells a byte and 6 a row.
Rows == Size \div (width * 4 + 6)
max_chars == Rows * width

\* The next buffer: this one has been written, and its end begins the dump.
Fill ==
  /\ left > 0 /\ fill_len = 0 /\ dst = <<>>
  /\ fill_len' = Least(left, max_chars) /\ left' = left - fill_len'
  /\ UNCHANGED <<len, width, src, dst, h, a, tmp, out, reach>>

\* A row: the hex from h, the text after the hex of a whole row.  The cells
\* between are not set when the row is short.
Row ==
  /\ fill_len > 0
  /\ LET xlen == Least(fill_len, width)
         hex  == [i \in 1..3 * xlen |-> Cell(Part[((i - 1) % 3) + 1], src + (i + 2) \div 3)]
         gap  == [i \in 1..3 * (width - xlen) |-> Unset]
         text == [i \in 1..xlen |-> Cell("char", src + i)]
     IN /\ dst' = dst \o hex \o gap \o <<Blank, Blank, Cell("bar", 0)>> \o text \o <<Cell("bar", 0), Cell("newline", 0)>>
        /\ h' = a + 3 * xlen /\ tmp' = a + 3 * width /\ a' = Len(dst')
        /\ fill_len' = fill_len - xlen /\ src' = src + xlen
        /\ reach' = IF a' > reach THEN a' ELSE reach
  /\ UNCHANGED <<len, width, left, out>>

\* The gap of the last row is filled, the end set and the buffer written.
Write ==
  /\ dst # <<>> /\ fill_len = 0
  /\ out' = out \o [i \in DOMAIN dst |-> IF i \in h + 1..tmp THEN Blank ELSE dst[i]]
  /\ reach' = IF a + 1 > reach THEN a + 1 ELSE reach
  /\ dst' = <<>> /\ h' = 0 /\ a' = 0 /\ tmp' = 0
  /\ UNCHANGED <<len, width, left, fill_len, src>>

Next == Fill \/ Row \/ Write

------------------------------------------------------------------------------
\* The buffer is not overrun, whatever the width; and unless a row does not fit
\* it or is empty, where the dump goes on for ever, each round takes some bytes.
DumpFits == reach <= Size /\ (fill_len = 0 /\ left > 0 /\ left < len => Rows > 0 /\ width > 0)

\* The cells of row r, as the comment has them:
\* 41 41 41 41 41 41 41 41   |AAAAAAAA|
RowCell(r, n, i) ==
  CASE i <= 3 * n             -> Cell(Part[((i - 1) % 3) + 1], r * width + (i + 2) \div 3)
    [] i \in 3 * n + 1..3 * width + 2 -> Blank
    [] i = 3 * width + 3      -> Cell("bar", 0)
    [] i \in 3 * width + 4..3 * width + 3 + n -> Cell("char", r * width + i - 3 * width - 3)
    [] i = 3 * width + 4 + n  -> Cell("bar", 0)
    [] i = 3 * width + 5 + n  -> Cell("newline", 0)

\* Each byte is shown once, in its row, in hex and as text, and each row looks
\* the same wherever a buffer ended.
DumpWhole ==
  LET row == 4 * width + 5 IN
  \A i \in DOMAIN out :
    LET r == (i - 1) \div row
        n == Least(width, len - r * width)
    IN out[i] = RowCell(r, n, ((i - 1) % row) + 1)
Dumped == left = 0 /\ fill_len = 0 /\ dst = <<>> => src = len
==============================================================================
