----------------------------- MODULE MCUtilities ----------------------------
(***************************************************************************)
(* The parts of the program that work alone, for TLC, one at a time: the   *)
(* first state chooses which, and the others stay as they are.             *)
(***************************************************************************)
EXTENDS Integers, Sequences, FiniteSets

CONSTANTS MaxLen, MaxField, MaxAdded, Width, Size, Extra, HeaderLen, MaxLines,
          MaxCalls, MaxAdds, MaxOrders, MaxAnswers, MaxOdd, MaxRequests, MaxMembers,
          Section, Keys, FileLines,                               (* of FileConfig *)
          FirstYear, Seconds, Usecs, Offsets,                     (* of Clock    *)
          DumpSize, MaxBytes, Widths,                             (* of HexDump  *)
          Base, Hosts, Ports, Known, Services, Peers, Ephemeral,  (* of Endpoint *)
          Million, DefaultRange, MaxRange, WrongRange, Times, Ranges, (* of Latency *)
          Members, Counters, Users, Now,                      (* of JsonCommands *)
          Menu, Usual, Words,                                 (* of Prompts      *)
          NInstruments, NTypes, Tags, Disclosed, OtherTypes   (* of OrderStats   *)

VARIABLES component,
          buffer, iterator, added, got, aligned,
          cptr, buffered, busy, rest, c, high, last, broken,
          data, pos, end, phase, opened, ret, file, whole, key, values,
          offset, short, full, day, told,
          histogram, display_range, report, fate, adds,
          test, tags, nOrdStats, nReq, rx, past,
          cin, asking, previous, sent, user,
          logged, entered, written, stack,
          len, width, left, fill_len, src, dst, h, a, tmp, out, reach,
          owner, remote, local, addr, pending, given, asked, used

SeqsUpTo(s, n) == UNION {[1 .. m -> s] : m \in 0 .. n}

F == INSTANCE Fields WITH Bytes <- {0, 1}, Values <- SeqsUpTo({0, 1}, MaxField + 1)
ASSUME FieldsAssumption == MaxLen \in Nat /\ MaxField \in Nat /\ Width \in Nat

L == INSTANCE LogBuffer WITH Header <- HeaderLen,
       Messages <- SeqsUpTo({"x", "nl", "cr", "nul"}, 3) \ {<<>>}
ASSUME LogAssumption == Size \in Nat \ {0} /\ Extra \in Nat /\ HeaderLen \in Nat

C == INSTANCE FileConfig WITH Lines <- FileLines
ASSUME ConfigAssumption == Keys \subseteq Nat \ {0} /\ \A line \in FileLines : line.key \in Nat
(* The texts of lines: their comments and blanks do not show, a value may   *)
(* be missing, and a key may not                                            *)
Text == INSTANCE FileConfig WITH Lines <- {}
SomeLines ==
  LET word(n) == [is |-> "word", n |-> n]
      head(n) == [is |-> "section", n |-> n]
      is(p)   == [is |-> p, n |-> 0]
  IN {Text!LineOf(t) : t \in
        {<<word(1), is("equals"), word(1)>>, <<word(2), is("equals")>>,
         <<is("blank"), word(1), is("blank"), is("equals"), is("blank"), word(2), is("hash"), word(1)>>,
         <<head(1)>>, <<is("blank"), head(2), is("hash")>>, <<is("end"), word(1)>>,
         <<is("blank"), is("hash"), is("equals")>>, <<word(1), is("blank"), word(2)>>,
         <<is("equals"), word(1)>>, <<word(1), is("long")>>}}

(* Times of March 1, 59 days from a new year, on both sides of an hour and  *)
(* of midnight, and in a year with a leap day; offsets west and east of UTC *)
T == INSTANCE Clock
ASSUME ClockAssumption == 0 \notin Seconds
SomeSeconds == {3599, 5097599, 31535999, 31536000 + 85 * 86400 + 100, 31536000 + 366 * 86400 - 1}
SomeOffsets == {0, -18000, 28800, 19800}
H == INSTANCE Latency
ASSUME LatencyAssumption ==
  /\ Million \in Nat \ {0} /\ {DefaultRange, WrongRange} \subseteq Nat /\ MaxRange \in Int
  /\ Times \subseteq Int /\ IsFiniteSet(Times) /\ Ranges \subseteq Int
Micros == {-1, 0, 1, 4, 5}
S == INSTANCE OrderStats
ASSUME StatsAssumption ==
  /\ NInstruments \in 1 .. 255 /\ NTypes \in 1 .. 255 /\ Tags \subseteq 0 .. 255 /\ Disclosed \in 0 .. 255

(* Answers: 1, 0, a number of two digits, and y                             *)
P == INSTANCE Prompts
ASSUME PromptsAssumption ==
  /\ Menu \subseteq {"modify", "cancel", "leverage", "cancel_all", "working", "fills"}
  /\ Words \cup {Usual} \subseteq Seq(1 .. 255) \ {<<>>}
One == <<49>>
SomeWords == {One, <<48>>, <<49, 50>>, <<121>>}
J == INSTANCE JsonCommands
ASSUME JsonAssumption ==
  /\ Members \subseteq [name : STRING, kind : {"number", "unsigned", "large", "string"}, value : Nat]
  /\ Counters \subseteq Nat /\ Users \subseteq Nat /\ Now \in Nat
SomeMembers ==
  LET number(n, v) == [name |-> n, kind |-> "number", value |-> v]
      other(n, k)  == [name |-> n, kind |-> k, value |-> IF k = "string" THEN 65 ELSE 70000]
  IN {number(n, v) : n \in {"UserTag", "Price", "OrderType"}, v \in {7, 300}}
     \cup {number(n, 300) : n \in {"InstrumentID", "CancelGTC", "ExchangeOrderID"}}
     \cup {other("UserID", "string"), other("Password", "string"), other("UserTag", "large"),
           other("OrderType", "unsigned"), other("OrderType", "large")}

D == INSTANCE HexDump WITH Size <- DumpSize
ASSUME DumpAssumption == DumpSize \in Nat /\ MaxBytes \in Nat /\ Widths \subseteq Nat

E == INSTANCE Endpoint

(* A port is two digits; a text is of a kind; the port of a service is a    *)
(* number.                                                                  *)
ASSUME EndpointAssumption ==
  /\ Base \in Nat \ {0}
  /\ \A text \in Hosts : text.kind \in {"none", "address", "name"}
  /\ \A text \in Ports : text.kind \in {"none", "digits", "name"}
  /\ \A n \in DOMAIN Services : Services[n] \in Nat

(* Hosts and ports for TLC: a number, one too large for two digits to the   *)
(* base 4, and services and hosts that the tables have or not               *)
SomeHosts == {[kind |-> "none", value |-> 0], [kind |-> "address", value |-> 1],
              [kind |-> "name", value |-> "gateway"], [kind |-> "name", value |-> "nowhere"]}
SomePorts == {[kind |-> "none", value |-> 0], [kind |-> "digits", value |-> 6],
              [kind |-> "digits", value |-> 17],
              [kind |-> "name", value |-> "omg"], [kind |-> "name", value |-> "mdg"]}
KnownHosts == [n \in {"gateway"} |-> 2]
KnownServices == [n \in {"omg"} |-> 7]
SomePeers == {[ip |-> 1, port |-> 3], [ip |-> 2, port |-> 12]}

fields == <<buffer, iterator, added, got, aligned>>
log    == <<cptr, buffered, busy, rest, c, high, last, broken>>
config == <<data, pos, end, phase, opened, ret, file, whole, key, values>>
clock  == <<offset, short, full, day, told>>
latency == <<histogram, display_range, report, fate, adds>>
stats   == <<test, tags, nOrdStats, nReq, rx, past>>
prompts == <<cin, asking, previous, sent, user>>
json    == <<logged, entered, written, stack>>
hexdump == <<len, width, left, fill_len, src, dst, h, a, tmp, out, reach>>
endpoint == <<owner, remote, local, addr, pending, given, asked, used>>

Components == {"fields", "log_buffer", "file_config", "time", "latency",
               "order_stats", "prompts", "json_commands", "hexdump", "endpoint"}
Init == /\ component \in Components
        /\ F!Init /\ L!Init /\ C!Init /\ T!Init /\ H!Init /\ S!Init /\ P!Init /\ J!Init
        /\ D!Init /\ E!Init
        /\ component = "time" \/ offset = 0
        /\ component = "order_stats" \/ test.UserTag = 0
        /\ component = "json_commands" \/ stack = 0
        /\ component = "hexdump" \/ (len = 0 /\ width = 1)
        /\ component = "endpoint" \/ owner = "client"
Next == /\ IF component = "fields" THEN F!Next ELSE UNCHANGED fields
        /\ IF component = "log_buffer" THEN L!Next ELSE UNCHANGED log
        /\ IF component = "file_config" THEN C!Next ELSE UNCHANGED config
        /\ IF component = "time" THEN T!Next ELSE UNCHANGED clock
        /\ IF component = "latency" THEN H!Next ELSE UNCHANGED latency
        /\ IF component = "order_stats" THEN S!Next ELSE UNCHANGED stats
        /\ IF component = "prompts" THEN P!Next ELSE UNCHANGED prompts
        /\ IF component = "json_commands" THEN J!Next ELSE UNCHANGED json
        /\ IF component = "hexdump" THEN D!Next ELSE UNCHANGED hexdump
        /\ IF component = "endpoint" THEN E!Next ELSE UNCHANGED endpoint
        /\ UNCHANGED component
Spec == Init /\ [][Next]_<<component, fields, log, config, clock, latency, stats, prompts, json,
                           hexdump, endpoint>>

(* Fields: fields come out of the buffer as they went in, and neither is it *)
(* filled nor read beyond its end.                                          *)
ReadBack == F!ReadBack /\ F!FieldsBounded

(* LogBuffer: the log buffer is never written beyond its end, and each line *)
(* of the log has a header.  HexDump: neither is the buffer of a dump, which *)
(* shows each byte once, in its row.                                        *)
LinesHeaded == L!LinesHeaded /\ L!NoOverrun /\ D!DumpFits /\ D!DumpWhole /\ D!Dumped

(* FileConfig: read_file() holds the whole section or nothing, and          *)
(* find_key() finds the values of a key in the order of the file.           *)
ValuesInFileOrder == C!SectionOrNothing /\ C!ValuesInFileOrder

(* Clock: a time is that of the call, whatever was kept from earlier calls, *)
(* and the dates and days of the year agree with it.                        *)
TimesAreNow == T!TimesAreNow /\ T!DatesTell

(* Latency: a report accounts for each value added once.                    *)
ReportAddsUp == H!ReportAddsUp

(* OrderStats: every order is counted once for its instrument and type.     *)
StatsAddUp == S!StatsAddUp

(* Prompts: a confirmed request holds what was answered for each field.     *)
AnswersKept == P!AnswersKept

(* JsonCommands: a logged line writes its order again, byte for byte, and   *)
(* the other commands write what their text gives.                          *)
ReplayExact == J!ReplayExact /\ J!CommandsFillFields

(* Endpoint: a connection goes where the texts said when it was asked for,  *)
(* and what it says of its ends is so while nothing else is asked for.      *)
PeersTold == E!WhereAsked /\ E!EndsTold
=============================================================================
