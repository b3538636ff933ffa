------------------------------ MODULE Timestamps ------------------------------
(***************************************************************************)
(* Dates: the daemon turns SQLite's "YYYY-MM-DD HH:MM:SS" into seconds     *)
(* since 1970 (grpc.rs chrono_parse_naive), portctl turns seconds back into *)
(* that form, and ages and leases into "2h 5m" (cli output.rs).            *)
(*                                                                         *)
(* A text is the sequence of its numbers, NotANumber for a part that does  *)
(* not parse.  A time is <<days, seconds of the day>>: the code's 64-bit   *)
(* days * 86400 + seconds does not overflow where TLC's integers would.    *)
(***************************************************************************)
EXTENDS Integers, Sequences

NotANumber == -1
None == <<>>

Leap(year) == (year % 4 = 0 /\ year % 100 # 0) \/ year % 400 = 0

MonthDays == <<31, 28, 31, 30, 31, 30, 31, 31, 30, 31, 30, 31>>

-----------------------------------------------------------------------------
(* The daemon. *)

\* Mutant: every fourth year, centuries too.
IsLeapJulian(year) == year % 4 = 0

IsLeap(year) == Leap(year)

\* "for y in 1970..year { days += ... }".
DaysBeforeYear(year) ==
  LET days[y \in 1970..year] ==
        IF y = 1970 THEN 0 ELSE days[y - 1] + (IF IsLeap(y - 1) THEN 366 ELSE 365)
  IN  days[year]

\* "for m in 1..month { days += ... }".
DaysBeforeMonth(year, month) ==
  LET days[m \in 1..month] ==
        IF m = 1 THEN 0
        ELSE days[m - 1] + MonthDays[m - 1] + (IF m - 1 = 2 /\ IsLeap(year) THEN 1 ELSE 0)
  IN  days[month]

\* Parts that do not parse are dropped before the parts are counted.
Numbers(parts) ==
  LET kept[i \in 0..Len(parts)] ==
        IF i = 0 THEN <<>>
        ELSE IF parts[i] = NotANumber THEN kept[i - 1] ELSE Append(kept[i - 1], parts[i])
  IN  kept[Len(parts)]

ChronoParseNaive(date, time) ==
  LET d == Numbers(date)
      t == Numbers(time)
  IN  IF Len(d) # 3 \/ Len(t) # 3 THEN None
      ELSE <<DaysBeforeYear(d[1]) + DaysBeforeMonth(d[1], d[2]) + d[3] - 1,
             t[1] * 3600 + t[2] * 60 + t[3]>>

-----------------------------------------------------------------------------
(* portctl. *)

IsLeapYear(year) == Leap(year)

\* Mutant: "days <= ml".
StopsAtLate(first, last, length, days) ==
  LET at[y \in first..last] ==
        IF y = first THEN <<first, days>>
        ELSE LET p == at[y - 1]
             IN  IF p[2] <= length[p[1]] THEN p ELSE <<y, p[2] - length[p[1]]>>
  IN  at[last]

\* "if days < length { break } days -= length; year += 1", for the years and
\* for the months: the year or month and the days left, when the loop breaks or
\* has reached last.
StopsAt(first, last, length, days) ==
  LET at[y \in first..last] ==
        IF y = first THEN <<first, days>>
        ELSE LET p == at[y - 1]
             IN  IF p[2] < length[p[1]] THEN p ELSE <<y, p[2] - length[p[1]]>>
  IN  at[last]

YearOf(days, lastYear) ==
  StopsAt(1970, lastYear, [y \in 1970..lastYear |-> IF IsLeapYear(y) THEN 366 ELSE 365], days)

\* "for &ml in &month_lengths { ... }", days + 1.
MonthOf(days, lengths) == LET p == StopsAt(1, 13, lengths, days) IN <<p[1], p[2] + 1>>

\* days_to_date and format_timestamp; lastYear bounds the search for the year.
FormatTimestamp(t, lastYear) ==
  LET y       == YearOf(t[1], lastYear)
      lengths == IF IsLeapYear(y[1]) THEN [MonthDays EXCEPT ![2] = 29] ELSE MonthDays
      m       == MonthOf(y[2], lengths)
  IN  <<<<y[1], m[1], m[2]>>, <<t[2] \div 3600, (t[2] % 3600) \div 60, t[2] % 60>>>>

\* The numbers shown, each with its unit in seconds.
FormatDuration(secs) ==
  CASE secs < 60 -> <<<<secs, 1>>>>
    [] secs >= 60 /\ secs < 3600 -> <<<<secs \div 60, 60>>>>
    [] secs >= 3600 /\ secs < 86400 -> <<<<secs \div 3600, 3600>>, <<(secs % 3600) \div 60, 60>>>>
    [] OTHER -> <<<<secs \div 86400, 86400>>, <<(secs % 86400) \div 3600, 3600>>>>

\* format_age: None, the dash, when the clock is behind the row's time.
FormatAge(created, now) == IF now < created THEN None ELSE FormatDuration(now - created)
=============================================================================
