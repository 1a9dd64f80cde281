----------------------------- MODULE FileConfig -----------------------------
(***************************************************************************)
(* util_lib/file_config: the key/value pairs of one section of a file, in a*)
(* multimap, and an iterator over all of them or over those of one key.    *)
(*                                                                         *)
(* A line is what clean_line() and the tests of process_section() make of  *)
(* its text, see LineOf: a header of a section, an [END], a blank line, a  *)
(* pair, a line without "=", one without a key, or one too long to be read.*)
(* The last line of a file may lack its newline: getline() then sets       *)
(* eofbit, and read_line() fails although it has read the line.            *)
(***************************************************************************)
EXTENDS Naturals, Sequences, FiniteSets

CONSTANTS Section,        (* the section read                               *)
          Keys,           (* keys, positive numbers in their order          *)
          Lines,          (* the lines of files, records of kind, key, value*)
          MaxLines        (* bound: the lines of a file                     *)

VARIABLES data,           (* m_data: its pairs in the order it iterates     *)
          pos, end,       (* m_pos, m_end_pos: indices of data              *)
          phase,          (* idle, or the loop of read_file() under way     *)
          opened,         (* the last read_file() could open its file       *)
          ret,            (* what read_file() returned                      *)
          (* history, read by properties only *)
          file, whole,    (* the lines it reads, and if each has a newline  *)
          key, values     (* what the iterator was set to, 0 for all, and   *)
                          (* the values read_key_value() gave since         *)

vars == <<data, pos, end, phase, opened, ret, file, whole, key, values>>

Least(s) == CHOOSE i \in s : \A j \in s : i <= j
Most(s)  == CHOOSE i \in s : \A j \in s : j <= i

(* A text is a sequence of parts: blanks, "#", "=", the "[..]" of a section *)
(* or of an end, words, and what is too long for the buffer of getline().   *)
(* clean_line(): no comment, no blanks around the rest                      *)
Where(text, part) == {i \in DOMAIN text : text[i].is = part}
CleanLine(text) ==
  LET hashes == Where(text, "hash")
      code   == IF hashes = {} THEN text ELSE SubSeq(text, 1, Least(hashes) - 1)
      black  == DOMAIN code \ Where(code, "blank")
  IN IF black = {} THEN <<>> ELSE SubSeq(code, Least(black), Most(black))

(* The line of a text; what follows a "[..]" is not looked at, and has no   *)
(* "=".  A value may be of no length, here 0.                               *)
Kind(k) == [kind |-> k, key |-> 0, value |-> 0]
PairOf(k, v) ==
  IF k = <<>> THEN Kind("null_key")
  ELSE [kind |-> "pair", key |-> k[1].n, value |-> IF v = <<>> THEN 0 ELSE v[1].n]
LineOf(text) ==
  LET line   == CleanLine(text)
      equals == Where(line, "equals")
  IN CASE Where(text, "long") # {} -> Kind("long")
       [] line = <<>>              -> Kind("blank")
       [] line[1].is = "section"   -> [Kind("section") EXCEPT !.key = line[1].n]
       [] line[1].is = "end"       -> Kind("end")
       [] equals = {}              -> Kind("syntax")
       [] OTHER -> PairOf(CleanLine(SubSeq(line, 1, Least(equals) - 1)),
                          CleanLine(SubSeq(line, Least(equals) + 1, Len(line))))

Init ==
  /\ data = <<>> /\ pos = 1 /\ end = 1 /\ phase = "idle" /\ opened = FALSE /\ ret = "No_Error"
  /\ file = <<>> /\ whole = TRUE /\ key = 0 /\ values = <<>>

-----------------------------------------------------------------------------
(* read_file(): it empties the map, which leaves the iterators nowhere until*)
(* it returns, and opens the file.                                          *)
ReadFile ==
  /\ phase = "idle" /\ phase' = "find" /\ opened' \in BOOLEAN
  /\ data' = <<>> /\ pos' = 1 /\ end' = 1 /\ ret' = "No_Error"
  /\ file' = <<>> /\ whole' = TRUE /\ key' = 0 /\ values' = <<>>

(* ... to its end: an error empties the map, and read_reset().              *)
DataKept(r)  == data                                 (* variant         *)
DataAfter(r) == IF r = "No_Error" THEN data ELSE <<>>
Return(r) ==
  /\ phase' = "idle" /\ ret' = r /\ data' = DataAfter(r)
  /\ pos' = 1 /\ end' = Len(data') + 1 /\ key' = 0 /\ values' = <<>>

OpenFails ==
  /\ phase = "find" /\ ~opened /\ Return("E_config_open")
  /\ UNCHANGED <<opened, file, whole>>

(* read_line(): a line, or the end of the file, which a line without its    *)
(* newline is as well                                                       *)
Reads(line) == opened /\ Len(file) < MaxLines /\ file' = Append(file, line)
Good(line) == Reads(line) /\ line.kind # "long" /\ UNCHANGED <<opened, whole>>
ReadFails ==
  /\ phase # "idle" /\ opened
  /\ \/ UNCHANGED <<file, whole>> /\ Return("E_config_eof")
     \/ \E line \in Lines :
          /\ Reads(line)
          /\ IF line.kind = "long" THEN Return("E_config_read") /\ UNCHANGED whole
             ELSE Return("E_config_eof") /\ whole' = FALSE
  /\ UNCHANGED opened

(* A round of find_section() and of process_section(), to which a header of *)
(* a section is a line without "="                                          *)
GoOn(p) == phase' = p /\ UNCHANGED <<pos, end, ret, key, values>>
FindSection(line) ==
  /\ phase = "find" /\ Good(line)
  /\ GoOn(IF line.kind = "section" /\ line.key = Section THEN "process" ELSE "find")
  /\ UNCHANGED data

(* insert() puts a pair after those of the same key.                        *)
Place(d, l, n) ==
  SubSeq(d, 1, n) \o <<[key |-> l.key, value |-> l.value]>> \o SubSeq(d, n + 1, Len(d))
Inserted(d, l) == Place(d, l, Cardinality({i \in 1 .. Len(d) : d[i].key <= l.key}))

ProcessSection(line) ==
  /\ phase = "process" /\ Good(line)
  /\ \/ line.kind = "blank" /\ GoOn("process") /\ UNCHANGED data
     \/ line.kind = "pair" /\ GoOn("process") /\ data' = Inserted(data, line)
     \/ line.kind = "end" /\ Return("No_Error")
     \/ line.kind \in {"syntax", "section"} /\ Return("E_config_syntax")
     \/ line.kind = "null_key" /\ Return("E_config_null_key")

-----------------------------------------------------------------------------
Set(p, e, k) ==
  /\ phase = "idle" /\ pos' = p /\ end' = e /\ key' = k /\ values' = <<>>
  /\ UNCHANGED <<data, phase, opened, ret, file, whole>>

ReadReset == Set(1, Len(data) + 1, 0)

(* find_key(): lower_bound(), upper_bound()                                 *)
Below(k) == Cardinality({i \in 1 .. Len(data) : data[i].key < k})
UpTo(k)  == Cardinality({i \in 1 .. Len(data) : data[i].key <= k})
FindKey(k) == Set(Below(k) + 1, UpTo(k) + 1, k)

ReadKeyValue ==
  /\ phase = "idle" /\ pos # end
  /\ pos' = pos + 1 /\ values' = Append(values, data[pos].value)
  /\ UNCHANGED <<data, end, phase, opened, ret, file, whole, key>>

Next ==
  \/ ReadFile \/ OpenFails \/ ReadFails
  \/ \E line \in Lines : FindSection(line) \/ ProcessSection(line)
  \/ ReadReset \/ ReadKeyValue \/ \E k \in Keys : FindKey(k)
Spec == Init /\ [][Next]_vars

-----------------------------------------------------------------------------
(* What the lines hold, read at once: the section is the lines between its    *)
(* first header and the first [END] after it.                               *)
Heads == {i \in 1 .. Len(file) : file[i].kind = "section" /\ file[i].key = Section}
Ends  == {i \in Least(Heads) + 1 .. Len(file) : file[i].kind = "end"}
Sound == /\ Heads # {} /\ Ends # {}
         /\ whole
         /\ \A i \in 1 .. Least(Ends) : file[i].kind # "long"
         /\ \A i \in Least(Heads) + 1 .. Least(Ends) - 1 : file[i].kind \in {"pair", "blank"}
Pairs == {i \in Least(Heads) + 1 .. Least(Ends) - 1 : file[i].kind = "pair"}

(* read_file() succeeds exactly if the section is sound, and then holds as  *)
(* many pairs of each key as the section has; any error leaves none.        *)
SectionOrNothing ==
  phase = "idle" =>
    /\ opened => (ret = "No_Error") = Sound
    /\ ret # "No_Error" => data = <<>>
    /\ opened /\ ret = "No_Error" =>
         /\ Len(data) = Cardinality(Pairs)
         /\ \A k \in Keys : UpTo(k) - Below(k) = Cardinality({i \in Pairs : file[i].key = k})

(* After find_key(), read_key_value() gives the values of that key in the   *)
(* order of the file, each once, and no other.                              *)
ValuesInFileOrder ==
  phase = "idle" /\ ret = "No_Error" /\ opened /\ key # 0 =>
    LET theirs == {i \in Pairs : file[i].key = key} IN
    /\ Len(values) <= Cardinality(theirs)
    /\ \A n \in 1 .. Len(values) :
         \E i \in theirs : /\ file[i].value = values[n]
                           /\ Cardinality({j \in theirs : j < i}) = n - 1
    /\ pos = end => Len(values) = Cardinality(theirs)
=============================================================================
