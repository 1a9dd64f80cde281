------------------------------- MODULE Latency -------------------------------
(***************************************************************************)
(* util_lib/latency: a histogram of microseconds, with a counter for each  *)
(* value below a million, and the reports that sum the counters by ranges. *)
(***************************************************************************)
EXTENDS Integers, Sequences, Functions, SequencesExt

CONSTANTS Million,        (* 1000000, the number of counters                *)
          DefaultRange,   (* 50                                             *)
          MaxRange,       (* 100000                                         *)
          WrongRange,     (* 100, for a range that is refused               *)
          Times, Ranges,  (* what is added, what set_display_range() is given*)
          MaxAdds         (* bound: values since the last reset             *)

VARIABLES histogram,      (* counters, under, over, total_count, total_time *)
          display_range,
          report,         (* the lines and totals of a report, until the    *)
                          (* next call                                      *)
          fate,           (* running, crashed, in a loop for ever, or       *)
                          (* reading past the end of a buffer               *)
          adds            (* history: how often each value, since the reset *)

latency == <<histogram, display_range, report, fate, adds>>

Cleared == [counters |-> [i \in 0 .. Million - 1 |-> 0], under |-> 0, over |-> 0,
            total_count |-> 0, total_time |-> 0]
Nothing  == [t \in Times |-> 0]
NoReport == [made |-> FALSE, lines |-> <<>>, average |-> 0, total |-> 0,
             under |-> 0, over |-> 0, adds |-> Nothing]

Init ==
  /\ histogram = Cleared /\ display_range = DefaultRange
  /\ report = NoReport /\ fate = "running" /\ adds = Nothing

-----------------------------------------------------------------------------
(* add(): each value is in one counter.                                     *)
UnderIsOver(h, usec) ==                  (* variant: the order of the tests *)
  CASE usec \notin 0 .. Million - 1 -> [h EXCEPT !.over = @ + 1]
    [] OTHER -> [h EXCEPT !.counters[usec] = @ + 1]
Counted(h, usec) ==
  CASE usec >= Million -> [h EXCEPT !.over = @ + 1]
    [] usec < 0        -> [h EXCEPT !.under = @ + 1]
    [] OTHER           -> [h EXCEPT !.counters[usec] = @ + 1]
Add(usec) ==
  /\ fate = "running" /\ histogram.total_count < MaxAdds
  /\ histogram' = [Counted(histogram, usec) EXCEPT !.total_count = @ + 1, !.total_time = @ + usec]
  /\ adds' = [adds EXCEPT ![usec] = @ + 1] /\ report' = NoReport
  /\ UNCHANGED <<display_range, fate>>

SetDisplayRange(range) ==
  /\ fate = "running"
  /\ display_range' = IF range < 0 \/ range > MaxRange THEN WrongRange ELSE range
  /\ report' = NoReport /\ UNCHANGED <<histogram, fate, adds>>

-----------------------------------------------------------------------------
(* The ranges of a report, each a display range after the one before; the   *)
(* last one ends with the counters.                                         *)
RangeLen(i)   == IF Million - i > display_range THEN display_range ELSE Million - i
CountersOf(i) == LET last == i + RangeLen(i) - 1
                 IN FoldFunctionOnSet(+, 0, histogram.counters, i .. last)
Starts == [k \in 1 .. (Million - 1) \div display_range + 1 |-> (k - 1) * display_range]
Printed(lines, i) ==
  IF CountersOf(i) > 0
  THEN Append(lines, [from |-> i, to |-> i + RangeLen(i) - 1, count |-> CountersOf(i)])
  ELSE lines
Lines == FoldLeft(Printed, <<>>, Starts)

(* calc(): to a file, with the average, which is that of integers, or to a  *)
(* buffer or stream.  A range of 0 never gets to the end of the counters.   *)
Truncated(sum, n) == IF sum >= 0 THEN sum \div n ELSE -((-sum) \div n)
Report(average) ==
  report' = [made |-> TRUE, lines |-> Lines, average |-> average,
             total |-> histogram.total_count, under |-> histogram.under,
             over |-> histogram.over, adds |-> adds]
Calc(toFile, reset) ==
  /\ fate = "running"
  /\ CASE display_range = 0 -> fate' = "looping" /\ UNCHANGED <<histogram, report, adds>>
       [] display_range > 0 /\ toFile /\ histogram.total_count = 0 ->
            fate' = "crashed" /\ UNCHANGED <<histogram, report, adds>>
       [] OTHER ->
            /\ Report(IF toFile THEN Truncated(histogram.total_time, histogram.total_count) ELSE 0)
            /\ IF reset THEN histogram' = Cleared /\ adds' = Nothing
               ELSE UNCHANGED <<histogram, adds>>
            /\ UNCHANGED fate
  /\ UNCHANGED display_range

(* operator<< prints its buffer before anything is in it: what the stack    *)
(* holds, up to a 0 or beyond the buffer, and then a report like that of    *)
(* calc() to a buffer.  The text of a report is left out.                   *)
Stream ==
  \/ Calc(FALSE, FALSE)
  \/ fate = "running" /\ fate' = "overread" /\ UNCHANGED <<histogram, display_range, report, adds>>

(* calc() of a file name does nothing, and resets nothing, if the file      *)
(* cannot be opened.                                                        *)
CannotOpen == fate = "running" /\ UNCHANGED latency

Next ==
  \/ \E usec \in Times : Add(usec)
  \/ \E range \in Ranges : SetDisplayRange(range)
  \/ \E toFile, reset \in BOOLEAN : Calc(toFile, reset)
  \/ Stream
  \/ CannotOpen

-----------------------------------------------------------------------------
(* A report accounts for each value since the last reset once: the ranges   *)
(* it prints do not overlap, each has the number of values in it, and with  *)
(* those under and over they are all.  But for what operator<< prints first,*)
(* the program ends only in a report of nothing to a file, and it hangs only*)
(* with a range of 0.                                                       *)
ReportAddsUp ==
  /\ report.made =>
       LET Values(S) == FoldFunctionOnSet(+, 0, report.adds, S \cap Times)
       IN /\ \A k \in DOMAIN report.lines :
               /\ report.lines[k].count = Values(report.lines[k].from .. report.lines[k].to)
               /\ k > 1 => report.lines[k - 1].to < report.lines[k].from
          /\ report.total = Values(Times)
          /\ report.under = Values({t \in Times : t < 0})
          /\ report.total = report.under + report.over
               + FoldLeft(LAMBDA n, line : n + line.count, 0, report.lines)
  /\ fate = "crashed" => adds = Nothing
  /\ fate = "looping" => display_range = 0
=============================================================================
