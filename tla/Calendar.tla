------------------------------ MODULE Calendar ------------------------------
(***************************************************************************)
(* From seconds since the epoch to a local time and a date (src/clock.c).   *)
(* The loops over years and months are recursive functions; / and % are     *)
(* those of C, which round towards zero.                                    *)
(***************************************************************************)
EXTENDS Integers

DaySeconds  == 86400
HourSeconds == 3600

Quotient(a, b)  == IF a >= 0 THEN a \div b ELSE -((-a) \div b)
Remainder(a, b) == a - b * Quotient(a, b)

(* Variant: every century is a common year. *)
IsLeapYear_NoGregory(year) == year % 4 = 0 /\ year % 100 # 0

IsLeapYear(year) == year % 400 = 0 \/ (year % 4 = 0 /\ year % 100 # 0)

DaysInYear(year) == IF IsLeapYear(year) THEN 366 ELSE 365

DaysInMonth(year, month) ==
  CASE month = 2                -> IF IsLeapYear(year) THEN 29 ELSE 28
    [] month \in {4, 6, 9, 11}  -> 30
    [] OTHER                    -> 31

(***************************************************************************)
(* days_to_date: the year and what is left of the days, from 1970 up or     *)
(* down, and the same for the month.                                        *)
(***************************************************************************)
YearUp[yd \in Int \X Int] ==
  IF yd[2] < DaysInYear(yd[1]) THEN yd
  ELSE YearUp[<<yd[1] + 1, yd[2] - DaysInYear(yd[1])>>]

YearDown[yd \in Int \X Int] ==
  IF yd[2] >= 0 THEN yd
  ELSE YearDown[<<yd[1] - 1, yd[2] + DaysInYear(yd[1] - 1)>>]

MonthUp[ymd \in Int \X Int \X Int] ==
  IF ymd[3] < DaysInMonth(ymd[1], ymd[2]) THEN ymd
  ELSE MonthUp[<<ymd[1], ymd[2] + 1, ymd[3] - DaysInMonth(ymd[1], ymd[2])>>]

Date(day_count) ==
  LET yd  == IF day_count >= 0 THEN YearUp[<<1970, day_count>>]
                               ELSE YearDown[<<1970, day_count>>]
      ymd == MonthUp[<<yd[1], 1, yd[2]>>]
  IN <<ymd[1], ymd[2], ymd[3] + 1>>

(* Variant: a remainder below zero is left as it is. *)
Normalized_Truncates(seconds) ==
  [day |-> Quotient(seconds, DaySeconds), second |-> Remainder(seconds, DaySeconds)]

(* clock_normalize_day_seconds *)
Normalized(seconds) ==
  LET q == Quotient(seconds, DaySeconds)
      r == Remainder(seconds, DaySeconds)
  IN IF r < 0 THEN [day |-> q - 1, second |-> r + DaySeconds]
              ELSE [day |-> q, second |-> r]

(* clock_weekday_index; 0 is Sunday. *)
Weekday(day_count) ==
  LET index == Remainder(4 + day_count, 7)
  IN IF index < 0 THEN index + 7 ELSE index

(* clock_format_hms *)
TimeOfDay(second) ==
  <<second \div HourSeconds, (second % HourSeconds) \div 60, second % 60>>

(* Variant: midnight is that of UTC. *)
ShouldShowDate_Utc(epoch, offset, mode) ==
  LET second == Normalized(epoch).second
  IN \/ mode = "on"
     \/ mode = "auto" /\ (second >= 23 * HourSeconds \/ second <= HourSeconds)

(* clock_should_show_date and the choice of refresh_clock_display. *)
ShouldShowDate(epoch, offset, mode) ==
  LET second == Normalized(epoch + offset).second
  IN \/ mode = "on"
     \/ mode = "auto" /\ (second >= 23 * HourSeconds \/ second <= HourSeconds)
-----------------------------------------------------------------------------
(***************************************************************************)
(* The reference, without loops: the number of a day of the Gregorian       *)
(* calendar, counted from 1970-01-01, with years that begin in March.       *)
(***************************************************************************)
DayNumber(date) ==
  LET y == IF date[2] <= 2 THEN date[1] - 1 ELSE date[1]
      m == (date[2] + 9) % 12
  IN 365 * y + (y \div 4) - (y \div 100) + (y \div 400)
       + ((153 * m + 2) \div 5) + date[3] - 719469
=============================================================================
