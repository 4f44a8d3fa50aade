-------------------------------- MODULE Calendar --------------------------------
(***************************************************************************)
(* Dates and times: the two conversions of a civil date to a day number    *)
(* that the code has (core/onvif_time.c and core/onvif_wsse.c), the C      *)
(* library's way back, and, to compare them with, a calendar that only     *)
(* knows how long each month is.                                           *)
(***************************************************************************)
EXTENDS Integers

(* Division as in C: towards zero. Divisors are positive.                  *)
CDiv(a, b) == IF a >= 0 THEN a \div b ELSE -((-a) \div b)

(* Mutant: years divisible by 100 are leap years.                          *)
EveryFourth(y, m, d) ==
    LET yy == IF m <= 2 THEN y - 1 ELSE y
        doy == CDiv(153 * (m + IF m > 2 THEN -3 ELSE 9) + 2, 5) + d - 1
    IN  365 * yy + yy \div 4 + doy - 719468 - 15

(* Days since 1970-01-01. Years begin in March, so that the leap day is    *)
(* their last; an era is 400 of them.                                      *)
days_from_civil(y, m, d) ==
    LET yy == IF m <= 2 THEN y - 1 ELSE y
        era == CDiv(IF yy >= 0 THEN yy ELSE yy - 399, 400)
        yoe == yy - era * 400
        doy == CDiv(153 * (m + IF m > 2 THEN -3 ELSE 9) + 2, 5) + d - 1
        doe == yoe * 365 + yoe \div 4 - yoe \div 100 + doy
    IN  era * 146097 + doe - 719468

(* The same, as the check of a security token's creation time writes it.   *)
CreatedDays(y, m, d) ==
    LET yy == IF m <= 2 THEN y - 1 ELSE y
        era == CDiv(IF yy >= 0 THEN yy ELSE yy - 399, 400)
        yoe == yy - era * 400
        mp == (m + 9) % 12
        doy == CDiv(153 * mp + 2, 5) + d - 1
        doe == yoe * 365 + CDiv(yoe, 4) - CDiv(yoe, 100) + doy
    IN  era * 146097 + doe - 719468

(* A time_t is kept as whole days and the seconds of the day: the code's   *)
(* 64 bits hold it easily, TLC's 32 do not.                                *)
SecondsPerDay == 86400

Epoch == [day : Int, sec : 0 .. SecondsPerDay - 1]

EpochOf(days, seconds) == [day |-> days + seconds \div 86400, sec |-> seconds % 86400]

(* The epoch of a civil time whose second may be 60.                       *)
CivilEpoch(c) ==
    EpochOf(days_from_civil(c.year, c.month, c.day),
            c.hour * 3600 + c.minute * 60 + c.second)

(* The clock a second later.                                               *)
SecondLater(e) ==
    IF e.sec < 86399 THEN [e EXCEPT !.sec = e.sec + 1] ELSE [day |-> e.day + 1, sec |-> 0]

-----------------------------------------------------------------------------
(* The reference calendar.                                                 *)
IsLeap(y) == y % 4 = 0 /\ (y % 100 # 0 \/ y % 400 = 0)

DaysIn(y, m) == CASE m \in {4, 6, 9, 11} -> 30
                  [] m = 2 -> IF IsLeap(y) THEN 29 ELSE 28
                  [] OTHER -> 31

Civil == [year : Int, month : 1 .. 12, day : 1 .. 31,
          hour : 0 .. 23, minute : 0 .. 59, second : 0 .. 59]

Exists(c) == c.day <= DaysIn(c.year, c.month)

(* The date after c, at the same time of day.                              *)
NextDate(c) ==
    IF c.day < DaysIn(c.year, c.month) THEN [c EXCEPT !.day = c.day + 1]
    ELSE IF c.month < 12 THEN [c EXCEPT !.day = 1, !.month = c.month + 1]
    ELSE [c EXCEPT !.day = 1, !.month = 1, !.year = c.year + 1]

(* The same date at another time of day.                                   *)
At(c, h, m, s) ==
    [year |-> c.year, month |-> c.month, day |-> c.day, hour |-> h, minute |-> m, second |-> s]

(* One second later.                                                       *)
NextSecond(c) ==
    IF c.second < 59 THEN At(c, c.hour, c.minute, c.second + 1)
    ELSE IF c.minute < 59 THEN At(c, c.hour, c.minute + 1, 0)
    ELSE IF c.hour < 23 THEN At(c, c.hour + 1, 0, 0)
    ELSE NextDate(At(c, 0, 0, 0))

-----------------------------------------------------------------------------
(* gmtime_r, from 1970 on: the year whose first day is the last one not after the day,   *)
(* and so on down to the second.                                           *)
YearStart(y) ==
    365 * (y - 1970) + (y - 1) \div 4 - (y - 1) \div 100 + (y - 1) \div 400 - 477

MonthStart(y, m) ==
    LET march == 59 + IF IsLeap(y) THEN 1 ELSE 0
    IN  CASE m = 1 -> 0 [] m = 2 -> 31 [] m = 3 -> march [] m = 4 -> march + 31
          [] m = 5 -> march + 61 [] m = 6 -> march + 92 [] m = 7 -> march + 122
          [] m = 8 -> march + 153 [] m = 9 -> march + 184 [] m = 10 -> march + 214
          [] m = 11 -> march + 245 [] OTHER -> march + 275

YearOf(day) ==
    CHOOSE y \in 1970 + day \div 366 .. 1970 + day \div 365 :
        YearStart(y) <= day /\ day < YearStart(y + 1)

MonthOf(y, doy) ==
    CHOOSE m \in 1 .. 12 : MonthStart(y, m) <= doy /\ doy < MonthStart(y, m) + DaysIn(y, m)

gmtime(e) ==
    LET y == YearOf(e.day)
        doy == e.day - YearStart(y)
        m == MonthOf(y, doy)
    IN  [year |-> y, month |-> m, day |-> doy - MonthStart(y, m) + 1,
         hour |-> e.sec \div 3600, minute |-> (e.sec % 3600) \div 60, second |-> e.sec % 60]
=============================================================================
