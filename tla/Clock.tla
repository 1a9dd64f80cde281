-------------------------------- MODULE Clock --------------------------------
(***************************************************************************)
(* util_lib/time: the timestamps, which keep the text of the last second   *)
(* and write only the microseconds anew, the conversions between times of  *)
(* day and text, and the dates.                                            *)
(*                                                                         *)
(* A text is a sequence of digits and separators.  gettimeofday() returns  *)
(* any instant, seconds from the start of FirstYear with microseconds: the *)
(* clock may be set back.                                                  *)
(***************************************************************************)
EXTENDS Integers, Sequences, Functions, SequencesExt

CONSTANTS FirstYear,      (* before a year with a leap day                  *)
          Seconds, Usecs, (* sets: the instants                             *)
          Offsets,        (* set: seconds from UTC to local time            *)
          MaxCalls        (* bound: calls                                   *)

VARIABLES offset,         (* of the local time                              *)
          short,          (* m_time, m_usecs, m_last_type_called, m_timestamp*)
          full,           (* the same for ymdhmsu_today(): mf_...           *)
          day,            (* the same for usecs_today(): ml_...             *)
          told            (* the last call: its instant, its result, calls  *)

clock == <<offset, short, full, day, told>>

Kinds == {"local", "gmt"}
Init ==
  /\ offset \in Offsets
  /\ short = [time |-> 0, usecs |-> 0, type |-> "local", text |-> <<>>] /\ full = short
  /\ day = [time |-> 0, daysec |-> 0, type |-> "local"]
  /\ told = [call |-> "none", sec |-> 0, usec |-> 0, type |-> "local", result |-> <<>>, calls |-> 0]

-----------------------------------------------------------------------------
(* localtime_r() and gmtime_r()                                             *)
Leap(year)    == year % 4 = 0
Lengths(year) == <<31, IF Leap(year) THEN 29 ELSE 28, 31, 30, 31, 30, 31, 31, 30, 31, 30, 31>>
DaysBefore(month, year) == FoldLeft(+, 0, SubSeq(Lengths(year), 1, month - 1))
Broken(t) ==
  LET days == t \div 86400
      year == FirstYear + (CASE days < 0 -> -1 [] days \in 0 .. 364 -> 0
                             [] days \in 365 .. 730 -> 1 [] OTHER -> 2)
      yday == days - (CASE days < 0 -> -365 [] days \in 0 .. 364 -> 0
                        [] days \in 365 .. 730 -> 365 [] OTHER -> 731)
      mon  == CHOOSE m \in 1 .. 12 :
                /\ DaysBefore(m, year) <= yday /\ yday < DaysBefore(m, year) + Lengths(year)[m]
  IN [year |-> year, yday |-> yday, mon |-> mon, mday |-> yday - DaysBefore(mon, year) + 1,
      hour |-> (t % 86400) \div 3600, min |-> (t % 3600) \div 60, sec |-> t % 60]
Tm(sec, type) == Broken(IF type = "local" THEN sec + offset ELSE sec)

Colon == 10
Dot   == 11
Dash  == 12
(* %0nd: n digits of a number                                               *)
Printed(v, n) == [i \in 1 .. n |-> (v \div 10^(n - i)) % 10]
Hms(tm)  == Printed(tm.hour, 2) \o <<Colon>> \o Printed(tm.min, 2) \o <<Colon>> \o Printed(tm.sec, 2)
Ymd(tm)  == Printed(tm.year, 4) \o Printed(tm.mon, 2) \o Printed(tm.mday, 2)
YmdHms(tm, usec) == Ymd(tm) \o <<Dash>> \o Hms(tm) \o <<Dot>> \o Printed(usec, 6)

-----------------------------------------------------------------------------
(* The digits of the microseconds, written from the last one back, n places *)
(* of them                                                                  *)
Patched(text, usec) ==
  [i \in DOMAIN text |-> IF i <= Len(text) - 6 THEN text[i]
                         ELSE (usec \div 10^(Len(text) - i)) % 10]

(* hmsu_today() and ymdhmsu_today(): a text is made anew when the second or *)
(* the kind of time is another one.                                         *)
TypeIgnored(cache, sec, type) == cache.time = sec       (* variant          *)
Fresh(cache, sec, type) == cache.time = sec /\ cache.type = type
Refreshed(cache, sec, usec, type, text) ==
  IF Fresh(cache, sec, type)
  THEN IF usec = cache.usecs THEN cache
       ELSE [cache EXCEPT !.usecs = usec, !.text = Patched(@, usec)]
  ELSE [time |-> sec, usecs |-> usec, type |-> type, text |-> text]

(* A run calls one of the three, which have nothing in common.              *)
Called(call, sec, usec, type, result) ==
  /\ told.call \in {"none", call}
  /\ told' = [call |-> call, sec |-> sec, usec |-> usec, type |-> type, result |-> result,
             calls |-> told.calls + 1]

HmsuToday(sec, usec, type) ==
  /\ short' = Refreshed(short, sec, usec, type,
                        Hms(Tm(sec, type)) \o <<Dot>> \o Printed(usec, 6))
  /\ Called("hmsu_today", sec, usec, type, short'.text)
  /\ UNCHANGED <<offset, full, day>>
YmdhmsuToday(sec, usec, type) ==
  /\ full' = Refreshed(full, sec, usec, type, YmdHms(Tm(sec, type), usec))
  /\ Called("ymdhmsu_today", sec, usec, type, full'.text)
  /\ UNCHANGED <<offset, short, day>>

DaySec(tm) == tm.hour * 3600 + tm.min * 60 + tm.sec
UsecsToday(sec, usec, type) ==
  /\ day' = IF Fresh(day, sec, type) THEN day
            ELSE [time |-> sec, type |-> type, daysec |-> DaySec(Tm(sec, type))]
  /\ Called("usecs_today", sec, usec, type, <<day'.daysec, usec>>)
  /\ UNCHANGED <<offset, short, full>>

(* The slow functions: what the time is, whatever was asked before          *)
usecs_today_slow(sec, usec, type)   == <<DaySec(Tm(sec, type)), usec>>
ymdhmsu_today_slow(sec, usec, type) == YmdHms(Tm(sec, type), usec)
(* ... and without colons                                                   *)
ymdhmsu_today_slow2(sec, usec, type) ==
  LET tm == Tm(sec, type) IN
  Ymd(tm) \o <<Dash>> \o Printed(tm.hour, 2) \o Printed(tm.min, 2) \o Printed(tm.sec, 2)
  \o <<Dot>> \o Printed(usec, 6)

-----------------------------------------------------------------------------
(* get_day_of_year(), today and of a date DD/MM: mktime() of the year 1900, *)
(* which has no leap day; a day too many is of the next month.              *)
get_day_of_year_today(sec, type) == Tm(sec, type).yday
get_day_of_year(mday, mon) ==
  IF mday \notin 1 .. 31 \/ mon \notin 1 .. 12 THEN -1
  ELSE LET common == 1 IN DaysBefore(mon, common) + mday - 1

(* hours_diff_to_utc(): the hours of the two clocks, minutes left aside     *)
hours_diff_to_utc(sec) ==
  LET utc   == Broken(sec)
      local == Broken(sec + offset)
      uday  == IF utc.year > local.year THEN local.yday + 1 ELSE utc.yday
      lday  == IF utc.year < local.year THEN utc.yday + 1 ELSE local.yday
  IN CASE uday = lday -> utc.hour - local.hour
       [] uday > lday -> utc.hour + (24 - local.hour)
       [] OTHER       -> -(local.hour + (24 - utc.hour))

-----------------------------------------------------------------------------
(* secs_to_cstring(), msecs_..., usecs_... and nsecs_to_cstring(): n digits *)
(* follow the dot, and the first of each pair of digits is what is left.    *)
Pair(v) == <<v \div 10, v % 10>>
To(ts, n) ==
  LET unit == 10^n
      hrs  == ts \div (unit * 3600)
      mins == (ts - hrs * unit * 3600) \div (unit * 60)
      secs == (ts - hrs * unit * 3600 - mins * unit * 60) \div unit
      rest == ts - hrs * unit * 3600 - mins * unit * 60 - secs * unit
  IN Pair(hrs) \o <<Colon>> \o Pair(mins) \o <<Colon>> \o Pair(secs)
     \o (IF n = 0 THEN <<>> ELSE <<Dot>> \o Printed(rest, n))

(* secs_from_hhmmss(), msecs_from_hhmmssmmm(), usecs_from_hhmmssuuuuuu()    *)
TwoDigits(src, i) == src[i] * 10 + src[i + 1]
From(src, n) ==
  TwoDigits(src, 1) * 3600 * 10^n + TwoDigits(src, 4) * 60 * 10^n + TwoDigits(src, 7) * 10^n
  + FoldLeft(LAMBDA v, d : 10 * v + d, 0, SubSeq(src, 10, 9 + n))

mins_from_hhmm(src) == TwoDigits(src, 1) * 60 + TwoDigits(src, 4)
(* usecs_from_hhmmss() and usecs_from_hhmmssmmm(): whole seconds or         *)
(* milliseconds, as seconds and microseconds                                *)
usecs_from(src, n) == LET v == From(src, n) IN <<v \div 10^n, (v % 10^n) * 10^(6 - n)>>

Hhmm(src) ==
  /\ src[3] = Colon /\ \A i \in {1, 2, 4, 5} : src[i] \in 0 .. 9
  /\ TwoDigits(src, 1) <= 23 /\ TwoDigits(src, 4) <= 59
validate_hhmm(src)   == Len(src) = 5 /\ Hhmm(src)
validate_hhmmss(src) == /\ Len(src) = 8 /\ src[6] = Colon /\ Hhmm(src)
                        /\ src[7] \in 0 .. 9 /\ src[8] \in 0 .. 9 /\ TwoDigits(src, 7) <= 59

-----------------------------------------------------------------------------
(* The times from the epoch and in the day, as seconds and microseconds;    *)
(* base_epoch_usecs() and today_epoch_usecs() each read the clock.          *)
base_epoch_usecs(sec)          == <<(sec \div 86400) * 86400, 0>>
today_epoch_usecs(sec, usec)   == <<sec % 86400, usec>>
epoch_usecs(sec, usec)         == <<sec, usec>>
today_usecs_from_epoch(epoch)  == <<epoch[1] % 86400, epoch[2]>>
Msecs(time)                    == <<time[1], time[2] \div 1000>>

-----------------------------------------------------------------------------
(* datestamp: the local date of now and a skew, as numbers and texts; in    *)
(* the short date a year and a month are letters, a day letter or digit.    *)
get_yyyymmdd(tm) == tm.year * 10000 + tm.mon * 100 + tm.mday
get_yymmdd(tm)   == (tm.year - 2000) * 10000 + tm.mon * 100 + tm.mday
get_mmddyyyy(tm) == Printed(tm.mon, 2) \o Printed(tm.mday, 2) \o Printed(tm.year, 4)
Letter(v)        == 65 + v
get_short_date_as_string(tm) ==
  LET d   == Printed(get_yymmdd(tm), 6)
      mday == TwoDigits(d, 5)
  IN << Letter(TwoDigits(d, 1)), Letter(TwoDigits(d, 3)),
        IF mday < 26 THEN Letter(mday) ELSE 97 + mday - 26 >>

Next ==
  /\ told.calls < MaxCalls
  /\ \E sec \in Seconds, usec \in Usecs, type \in Kinds :
       \/ HmsuToday(sec, usec, type) \/ YmdhmsuToday(sec, usec, type)
       \/ UsecsToday(sec, usec, type)

-----------------------------------------------------------------------------
(* A time that is kept is the time of the call, as the slow functions give  *)
(* it, though the clock is set back, the second is the same or two kinds of *)
(* time are asked for in turn; ...                                          *)
KeptIsNow ==
  LET slow == ymdhmsu_today_slow(told.sec, told.usec, told.type)
  IN CASE told.call = "hmsu_today"    -> told.result = SubSeq(slow, 10, 24)
       [] told.call = "ymdhmsu_today" -> told.result = slow
       [] told.call = "usecs_today"   -> told.result = usecs_today_slow(told.sec, told.usec, told.type)
       [] OTHER -> TRUE

(* ... and it may be told back from its text.                               *)
TimesAreNow ==
  /\ KeptIsNow
  /\ told.call = "usecs_today" =>
       \A n \in {0, 3} :
         LET ts == told.result[1] * 10^n + told.result[2] \div 10^(6 - n)
         IN From(To(ts, n), n) = ts /\ (n = 0 => validate_hhmmss(To(ts, n)))

(* The dates of two days are the same number, text or short date only if    *)
(* the days are the same, and a date DD/MM has the day of the year of today *)
(* but after a leap day; the hours to UTC are those of the offset, when it  *)
(* is whole hours.  A text of hours and minutes is their number of minutes, *)
(* and one to the millisecond lacks less than one.  The base of a day and a *)
(* time in it add up to the time from the epoch, unless the day changes     *)
(* between the two calls.                                                   *)
DatesTell ==
  LET tm == Tm(told.sec, "local")
  IN told.calls = 1 =>
     /\ LET ts   == DaySec(tm)
            hhmm == SubSeq(To(ts, 0), 1, 5)
            ms == usecs_from(To(ts * 1000 + told.usec \div 1000, 3), 3)
        IN /\ validate_hhmm(hhmm) /\ mins_from_hhmm(hhmm) = ts \div 60
           /\ usecs_from(To(ts, 0), 0) = <<ts, 0>>
           /\ ms[1] = ts /\ told.usec - ms[2] \in 0 .. 999
     /\ SelectSeq(ymdhmsu_today_slow(told.sec, told.usec, "local"), LAMBDA c : c # Colon)
          = ymdhmsu_today_slow2(told.sec, told.usec, "local")
     /\ offset % 3600 = 0 => hours_diff_to_utc(told.sec) * 3600 = -offset
     /\ get_day_of_year(tm.mday, tm.mon) =
          get_day_of_year_today(told.sec, "local") - (IF Leap(tm.year) /\ tm.mon > 2 THEN 1 ELSE 0)
     /\ \A sec \in Seconds :
          LET base == base_epoch_usecs(sec)
              today == today_epoch_usecs(told.sec, told.usec)
              sum == <<base[1] + today[1], base[2] + today[2]>>
              now == epoch_usecs(told.sec, told.usec)
          IN /\ today = today_usecs_from_epoch(now)
             /\ (sum = now) = (sec \div 86400 = told.sec \div 86400)
             /\ (Msecs(sum) = Msecs(now)) = (sum = now)
     /\ \A sec \in Seconds :
          LET other == Tm(sec, "local")
              same  == [k \in {"year", "mon", "mday"} |-> tm[k]] = [k \in {"year", "mon", "mday"} |-> other[k]]
          IN /\ (get_yyyymmdd(tm) = get_yyyymmdd(other)) = same
             /\ (get_mmddyyyy(tm) = get_mmddyyyy(other)) = same
             /\ (get_short_date_as_string(tm) = get_short_date_as_string(other)) = same
=============================================================================
