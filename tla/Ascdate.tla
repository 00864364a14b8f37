------------------------------ MODULE Ascdate ------------------------------
(***************************************************************************)
(* ascdate(): a number of seconds since January 1, 1970 as a date.         *)
(*                                                                         *)
(* Days pass in a civil calendar that knows the date, the weekday and the  *)
(* Sundays of the month; ascdate() has only their number.  Minutes and     *)
(* seconds pass through it unchanged, so a time is a day and an hour.      *)
(***************************************************************************)
EXTENDS Integers, Sequences

CONSTANTS dt_daylight,  \* "ON", "OFF" or "AUTO"
          AsHours,      \* hours of a day that are looked at
          AsLastYear    \* bound: where the calendar ends

ASSUME AsAssumption ==
  dt_daylight \in {"ON", "OFF", "AUTO"} /\ AsHours \subseteq 0 .. 23 /\ AsLastYear \in 1970 .. 2099

VARIABLES asdays,  \* days since January 1, 1970
          ascal    \* the calendar

AsVars == <<asdays, ascal>>

-----------------------------------------------------------------------------
dt_msize == <<31, 28, 31, 30, 31, 30, 31, 31, 30, 31, 30, 31>>
isleap(year) == year % 4 = 0
One(b) == IF b THEN 1 ELSE 0

(* Years, and then months from 0, are taken off while they fit. *)
RECURSIVE YearOf(_, _), MonthOf(_, _, _)
YearOf(year, days) ==
  LET size == 365 + One(isleap(year))
  IN IF size > days THEN [year |-> year, days |-> days] ELSE YearOf(year + 1, days - size)
MonthOf(year, month, days) ==
  LET size == dt_msize[month + 1] + One(month = 1 /\ isleap(year))
  IN IF size > days THEN [month |-> month, day |-> days + 1] ELSE MonthOf(year, month + 1, days - size)

(* January 1, 1970 was a Thursday, 4 from 0 on. *)
BugJan1(year) == (5 + (year - 1970) + (year - 1969) \div 4) % 7
Jan1(year) == (4 + (year - 1970) + (year - 1969) \div 4) % 7

(* The second Sunday of March, the first of November. *)
Marss(year) ==
  LET mar1 == (Jan1(year) + 31 + 28 + One(isleap(year))) % 7
  IN IF mar1 = 0 THEN 8 ELSE 15 - mar1
Novfs(year) ==
  LET nov1 == (Jan1(year) + 304 + One(isleap(year))) % 7
  IN IF nov1 = 0 THEN 1 ELSE 8 - nov1
AutoDst(year, month, day, hour) ==
  \/ month \in 3 .. 9
  \/ month = 2 /\ (day > Marss(year) \/ (day = Marss(year) /\ hour >= 2))
  \/ month = 10 /\ ~(day > Novfs(year) \/ (day = Novfs(year) /\ hour >= 1))

(* The weekday is that of the day before the hour is moved ahead. *)
ascdate(days, hour) ==
  LET y   == YearOf(1970, days)
      m   == MonthOf(y.year, 0, y.days)
      dst == dt_daylight = "ON" \/ (dt_daylight = "AUTO" /\ AutoDst(y.year, m.month, m.day, hour))
      moves == dst /\ hour = 23
      ends  == moves /\ m.day + 1 > dt_msize[m.month + 1]
  IN [year |-> y.year, dst |-> dst,
      month |-> IF ends THEN m.month + 1 ELSE m.month,
      day   |-> IF ends THEN 1 ELSE IF moves THEN m.day + 1 ELSE m.day,
      hour  |-> IF moves THEN 0 ELSE hour + One(dst),
      dayofweek |-> (Jan1(y.year) + y.days) % 7]

-----------------------------------------------------------------------------
(* The calendar everybody uses: date, weekday from 0 for Sunday, and how   *)
(* many Sundays the month has had.                                         *)
Gregorian(y) == y % 4 = 0 /\ (y % 100 # 0 \/ y % 400 = 0)
LastDay(c) ==
  CASE c.month = 1 -> IF Gregorian(c.year) THEN 29 ELSE 28
    [] c.month \in {3, 5, 8, 10} -> 30
    [] OTHER -> 31
NextDay(c) ==
  LET dow == (c.dow + 1) % 7
      new == c.day = LastDay(c)
  IN [year |-> IF new /\ c.month = 11 THEN c.year + 1 ELSE c.year,
      month |-> IF new THEN (c.month + 1) % 12 ELSE c.month,
      day |-> IF new THEN 1 ELSE c.day + 1,
      dow |-> dow,
      sundays |-> (IF new THEN 0 ELSE c.sundays) + One(dow = 0)]
Summer(c, hour) ==
  LET today == c.dow = 0
      after(n) == c.sundays > n \/ (c.sundays = n /\ ~today)
  IN \/ c.month \in 3 .. 9
     \/ c.month = 2 /\ (after(2) \/ (c.sundays = 2 /\ today /\ hour >= 2))
     \/ c.month = 10 /\ (c.sundays = 0 \/ (c.sundays = 1 /\ today /\ hour < 1))

AsInit == asdays = 0 /\ ascal = [year |-> 1970, month |-> 0, day |-> 1, dow |-> 4, sundays |-> 0]
AsNext ==
  /\ NextDay(ascal).year <= AsLastYear
  /\ asdays' = asdays + 1 /\ ascal' = NextDay(ascal)

-----------------------------------------------------------------------------
(* Every day has its date and weekday, summer time begins and ends on its  *)
(* Sundays, and in summer the last hour belongs to the next day, whose     *)
(* weekday ascdate() does not give (ascdate.c:28, ascdate.c:205).          *)
AscdateRight ==
  \A h \in AsHours :
    LET r     == ascdate(asdays, h)
        moves == r.dst /\ h = 23
        c     == IF moves THEN NextDay(ascal) ELSE ascal
    IN /\ r.dst <=> Summer(ascal, h)
       /\ <<r.year, r.month, r.day>> = <<c.year, c.month, c.day>>
       /\ r.hour = (h + One(r.dst)) % 24
       /\ ~moves => r.dayofweek = c.dow
=============================================================================
