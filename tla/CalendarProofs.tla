----------------------------- MODULE CalendarProofs -----------------------------
(***************************************************************************)
(* The calendar arithmetic of onvif_time.c, proved for every year against  *)
(* the reference calendar of module Calendar.                              *)
(***************************************************************************)
EXTENDS Calendar, TLAPS

(* C's division, as the code corrects it, is the division of Calendar.     *)
LEMMA Eras ==
    ASSUME NEW y \in Int
    PROVE  CDiv(IF y >= 0 THEN y ELSE y - 399, 400) = y \div 400
BY DEF CDiv

(* The two halves of days_from_civil: what the years contribute, counted   *)
(* from March on, and the days since the first of March.                   *)
Marches(y) == 365 * y + y \div 4 - y \div 100 + y \div 400 - 719468

DaysSinceMarch(m) == (153 * (m + IF m > 2 THEN -3 ELSE 9) + 2) \div 5

LEMMA Split ==
    ASSUME NEW y \in Int, NEW m \in 1 .. 12, NEW d \in Int
    PROVE  days_from_civil(y, m, d) =
               Marches(IF m <= 2 THEN y - 1 ELSE y) + DaysSinceMarch(m) + d - 1
<1> DEFINE yy == IF m <= 2 THEN y - 1 ELSE y
           era == CDiv(IF yy >= 0 THEN yy ELSE yy - 399, 400)
           yoe == yy - era * 400
           doy == CDiv(153 * (m + IF m > 2 THEN -3 ELSE 9) + 2, 5) + d - 1
<1>1. yy \in Int
  OBVIOUS
<1>2. era = yy \div 400
  <2> HIDE DEF yy
  <2> QED
    BY <1>1, Eras
<1>3. doy = DaysSinceMarch(m) + d - 1
  BY DEF CDiv, DaysSinceMarch
<1>4. days_from_civil(y, m, d)
        = era * 146097 + (yoe * 365 + yoe \div 4 - yoe \div 100 + doy) - 719468
  BY DEF days_from_civil
<1>5. doy \in Int
  BY <1>3 DEF DaysSinceMarch
<1>6. era \in Int /\ yoe \in Int /\ yoe = yy - era * 400
  BY <1>1, <1>2
<1> HIDE DEF yy, doy, era, yoe
<1>7. era * 146097 + yoe * 365 + yoe \div 4 - yoe \div 100 - 719468 = Marches(yy)
  BY SMTT(30), <1>1, <1>2, <1>6 DEF Marches
<1>8. days_from_civil(y, m, d) = Marches(yy) + doy
  BY SMT, <1>4, <1>5, <1>6, <1>7
<1> QED
  BY SMT, <1>1, <1>3, <1>8 DEF yy, DaysSinceMarch, Marches

(* A year from March to March is the longer by a day if it ends in a leap  *)
(* year's February.                                                        *)
LEMMA LeapDay ==
    ASSUME NEW y \in Int
    PROVE  Marches(y) = Marches(y - 1) + IF IsLeap(y) THEN 366 ELSE 365
BY SMTT(30) DEF Marches, IsLeap

LEMMA MarchesType ==
    ASSUME NEW y \in Int
    PROVE  Marches(y) \in Int
BY DEF Marches

LEMMA MonthTable ==
    /\ DaysSinceMarch(1) = 306 /\ DaysSinceMarch(2) = 337 /\ DaysSinceMarch(3) = 0
    /\ DaysSinceMarch(4) = 31 /\ DaysSinceMarch(5) = 61 /\ DaysSinceMarch(6) = 92
    /\ DaysSinceMarch(7) = 122 /\ DaysSinceMarch(8) = 153 /\ DaysSinceMarch(9) = 184
    /\ DaysSinceMarch(10) = 214 /\ DaysSinceMarch(11) = 245 /\ DaysSinceMarch(12) = 275
BY SMTT(30) DEF DaysSinceMarch

LEMMA DaysType ==
    ASSUME NEW y \in Int, NEW m \in 1 .. 12, NEW d \in Int
    PROVE  days_from_civil(y, m, d) \in Int
<1>1. Marches(IF m <= 2 THEN y - 1 ELSE y) \in Int /\ DaysSinceMarch(m) \in Int
  BY MarchesType DEF DaysSinceMarch
<1> QED
  BY <1>1, Split

LEMMA DayByDay ==
    ASSUME NEW y \in Int, NEW m \in 1 .. 12, NEW d \in Int, NEW e \in Int
    PROVE  days_from_civil(y, m, e) = days_from_civil(y, m, d) + (e - d)
<1>1. Marches(IF m <= 2 THEN y - 1 ELSE y) \in Int /\ DaysSinceMarch(m) \in Int
  BY MarchesType DEF DaysSinceMarch
<1>2. /\ days_from_civil(y, m, d)
            = Marches(IF m <= 2 THEN y - 1 ELSE y) + DaysSinceMarch(m) + d - 1
      /\ days_from_civil(y, m, e)
            = Marches(IF m <= 2 THEN y - 1 ELSE y) + DaysSinceMarch(m) + e - 1
  BY Split
<1> QED
  BY <1>1, <1>2

(* The day after the last of a month is the first of the next one.         *)
LEMMA MonthEnds ==
    ASSUME NEW y \in Int, NEW m \in 1 .. 11, NEW d \in Int
    PROVE  days_from_civil(y, m, DaysIn(y, m) + d) = days_from_civil(y, m + 1, d)
<1>1. /\ Marches(y) \in Int /\ Marches(y - 1) \in Int
  BY MarchesType
<1>2. DaysIn(y, m) \in Int
  BY DEF DaysIn
<1>3. /\ days_from_civil(y, m, DaysIn(y, m) + d)
            = Marches(IF m <= 2 THEN y - 1 ELSE y) + DaysSinceMarch(m) + DaysIn(y, m) + d - 1
      /\ days_from_civil(y, m + 1, d)
            = Marches(IF m + 1 <= 2 THEN y - 1 ELSE y) + DaysSinceMarch(m + 1) + d - 1
  <2>1. DaysSinceMarch(m) \in Int
    BY DEF DaysSinceMarch
  <2>2. m \in 1 .. 12 /\ m + 1 \in 1 .. 12 /\ DaysIn(y, m) + d \in Int
    BY <1>2
  <2>3. days_from_civil(y, m, DaysIn(y, m) + d)
          = Marches(IF m <= 2 THEN y - 1 ELSE y) + DaysSinceMarch(m) + (DaysIn(y, m) + d) - 1
    BY <2>2, Split
  <2>4. days_from_civil(y, m + 1, d)
          = Marches(IF m + 1 <= 2 THEN y - 1 ELSE y) + DaysSinceMarch(m + 1) + d - 1
    BY <2>2, Split
  <2> QED
    BY <1>1, <1>2, <2>1, <2>3, <2>4
<1>4. CASE m = 2
  BY <1>1, <1>3, <1>4, LeapDay, MonthTable DEF DaysIn
<1>5. CASE m # 2
  <2>1. DaysIn(y, m) = IF m \in {4, 6, 9, 11} THEN 30 ELSE 31
    BY <1>5 DEF DaysIn
  <2>2. m \in {1, 3, 4, 5, 6, 7, 8, 9, 10, 11}
    BY <1>5
  <2> QED
    BY <1>1, <1>3, <2>1, <2>2, MonthTable
<1> QED
  BY <1>4, <1>5

(* Consecutive dates have consecutive numbers, in every year.              *)
THEOREM DaysConsecutive ==
    ASSUME NEW c \in Civil, Exists(c)
    PROVE  LET n == NextDate(c)
           IN  /\ n \in Civil /\ Exists(n)
               /\ days_from_civil(n.year, n.month, n.day)
                     = days_from_civil(c.year, c.month, c.day) + 1
<1> DEFINE y == c.year
           m == c.month
           d == c.day
           n == NextDate(c)
<1>1. y \in Int /\ m \in 1 .. 12 /\ d \in 1 .. 31 /\ d <= DaysIn(y, m)
  BY DEF Civil, Exists
<1>2. DaysIn(y, m) \in 28 .. 31
  BY <1>1 DEF DaysIn
<1>3. CASE d < DaysIn(y, m)
  <2>1. n = [c EXCEPT !.day = d + 1]
    BY <1>3 DEF NextDate
  <2>2. d + 1 \in 1 .. 31 /\ d + 1 <= DaysIn(y, m)
    BY <1>1, <1>2, <1>3
  <2>3. n.year = y /\ n.month = m /\ n.day = d + 1 /\ n \in Civil
    BY <2>1, <2>2 DEF Civil
  <2>4. days_from_civil(y, m, d + 1) = days_from_civil(y, m, d) + 1
    <3> HIDE DEF y, m, d
    <3>1. d \in Int /\ d + 1 \in Int /\ (d + 1) - d = 1
      BY <1>1
    <3>2. \A e, f \in Int : days_from_civil(y, m, e) = days_from_civil(y, m, f) + (e - f)
      BY <1>1, DayByDay
    <3>3. days_from_civil(y, m, d + 1) = days_from_civil(y, m, d) + ((d + 1) - d)
      BY <3>1, <3>2
    <3> QED
      BY <3>1, <3>3
  <2> QED
    BY <2>2, <2>3, <2>4 DEF Exists
<1>4. CASE d = DaysIn(y, m) /\ m < 12
  <2>1. n = [c EXCEPT !.day = 1, !.month = m + 1]
    BY <1>4, <1>2 DEF NextDate
  <2>2. m \in 1 .. 11 /\ m + 1 \in 1 .. 12
    BY <1>1, <1>4
  <2>3. n.year = y /\ n.month = m + 1 /\ n.day = 1 /\ n \in Civil
    <3> DEFINE a == [c EXCEPT !.day = 1]
    <3>1. a \in Civil /\ a.year = y /\ a.day = 1
      BY DEF Civil
    <3>2. n = [a EXCEPT !.month = m + 1]
      BY <2>1
    <3> HIDE DEF a, n, y, m
    <3> QED
      BY <2>2, <3>1, <3>2 DEF Civil
  <2>4. DaysIn(y, m + 1) \in 28 .. 31
    BY <1>1, <2>2 DEF DaysIn
  <2>5. days_from_civil(y, m + 1, 1) = days_from_civil(y, m, d) + 1
    <3> HIDE DEF y, m, d
    <3>1. days_from_civil(y, m, DaysIn(y, m) + 0) = days_from_civil(y, m + 1, 0)
      BY <1>1, <2>2, MonthEnds
    <3>2. DaysIn(y, m) + 0 = d
      BY <1>2, <1>4
    <3>3. \A e, f \in Int :
            days_from_civil(y, m + 1, e) = days_from_civil(y, m + 1, f) + (e - f)
      BY <1>1, <2>2, DayByDay
    <3>4. days_from_civil(y, m + 1, 1) = days_from_civil(y, m + 1, 0) + (1 - 0)
      BY <3>3
    <3> QED
      BY <3>1, <3>2, <3>4
  <2> QED
    BY <2>3, <2>4, <2>5 DEF Exists
<1>5. CASE d = DaysIn(y, m) /\ m = 12
  <2>1. n = [c EXCEPT !.day = 1, !.month = 1, !.year = y + 1]
    BY <1>5, <1>2 DEF NextDate
  <2>2. n.year = y + 1 /\ n.month = 1 /\ n.day = 1 /\ n \in Civil
    <3> DEFINE a == [c EXCEPT !.day = 1]
               b == [a EXCEPT !.month = 1]
    <3>1. a \in Civil /\ a.year = y /\ a.day = 1
      BY DEF Civil
    <3>2. n = [b EXCEPT !.year = y + 1]
      BY <2>1
    <3>3. y + 1 \in Int
      BY <1>1
    <3> HIDE DEF a, n, y
    <3>4. b \in Civil /\ b.year = y /\ b.month = 1 /\ b.day = 1
      BY <3>1 DEF Civil
    <3> HIDE DEF b
    <3> QED
      BY <3>2, <3>3, <3>4 DEF Civil
  <2>3. DaysIn(y, m) = 31 /\ DaysIn(y + 1, 1) = 31
    BY <1>5 DEF DaysIn
  <2>4. days_from_civil(y + 1, 1, 1) = days_from_civil(y, m, d) + 1
    <3> HIDE DEF y, m, d
    <3>1. days_from_civil(y, 12, 31) = Marches(y) + 275 + 31 - 1
      BY <1>1, Split, MonthTable
    <3>2. days_from_civil(y + 1, 1, 1) = Marches((y + 1) - 1) + 306 + 1 - 1
      BY <1>1, Split, MonthTable
    <3>3. (y + 1) - 1 = y /\ Marches(y) \in Int
      BY <1>1, MarchesType
    <3> QED
      BY <1>5, <2>3, <3>1, <3>2, <3>3
  <2> QED
    BY <2>2, <2>3, <2>4 DEF Exists
<1> QED
  BY <1>1, <1>2, <1>3, <1>4, <1>5

(* The count starts with 1970.                                             *)
THEOREM FirstDay == days_from_civil(1970, 1, 1) = 0
<1>1. days_from_civil(1970, 1, 1) = Marches(1970 - 1) + 306 + 1 - 1
  BY Split, MonthTable
<1>2. Marches(1970 - 1) = -306
  BY SMTT(30) DEF Marches
<1> QED
  BY <1>1, <1>2

(* The two places that compute a day number agree on it: the clock that    *)
(* SetSystemDateAndTime sets and the creation times of security tokens     *)
(* are counted alike.                                                      *)
THEOREM SameDays ==
    ASSUME NEW y \in Int, NEW m \in 1 .. 12, NEW d \in Int
    PROVE  CreatedDays(y, m, d) = days_from_civil(y, m, d)
<1> DEFINE yy == IF m <= 2 THEN y - 1 ELSE y
           era == CDiv(IF yy >= 0 THEN yy ELSE yy - 399, 400)
           yoe == yy - era * 400
<1>1. yy \in Int
  OBVIOUS
<1>2. era = yy \div 400
  <2> HIDE DEF yy
  <2> QED
    BY <1>1, Eras
<1>3. yoe \in Int /\ yoe >= 0
  BY <1>1, <1>2
<1> HIDE DEF yoe
<1>4. CDiv(yoe, 4) = yoe \div 4 /\ CDiv(yoe, 100) = yoe \div 100
  BY <1>3 DEF CDiv
<1>5. (m + 9) % 12 = m + IF m > 2 THEN -3 ELSE 9
  BY SMTT(30)
<1> QED
  BY <1>4, <1>5 DEF CreatedDays, days_from_civil, yoe

-----------------------------------------------------------------------------
(* Years and months as gmtime finds them again.                            *)
LEMMA YearStarts ==
    ASSUME NEW y \in Int
    PROVE  /\ YearStart(y) \in Int
           /\ YearStart(y) = Marches(y - 1) + 306
           /\ YearStart(y + 1) = YearStart(y) + IF IsLeap(y) THEN 366 ELSE 365
           /\ y >= 1970 => /\ YearStart(y) >= 365 * (y - 1970)
                           /\ YearStart(y) <= 366 * (y - 1970)
BY SMTT(60) DEF YearStart, Marches, IsLeap

LEMMA YearsInOrder ==
    ASSUME NEW y \in Int, NEW z \in Int, y < z
    PROVE  YearStart(y + 1) <= YearStart(z)
BY SMTT(60) DEF YearStart

LEMMA MonthStarts ==
    ASSUME NEW y \in Int, NEW m \in 1 .. 12, NEW d \in Int
    PROVE  days_from_civil(y, m, d) = YearStart(y) + MonthStart(y, m) + d - 1
<1>1. Marches(y) \in Int /\ Marches(y - 1) \in Int
  BY MarchesType
<1>2. /\ YearStart(y) = Marches(y - 1) + 306
      /\ Marches(y) = Marches(y - 1) + IF IsLeap(y) THEN 366 ELSE 365
  BY YearStarts, LeapDay
<1>3. days_from_civil(y, m, d)
        = Marches(IF m <= 2 THEN y - 1 ELSE y) + DaysSinceMarch(m) + d - 1
  BY Split
<1>4. CASE m \in {1, 2}
  BY <1>1, <1>2, <1>3, <1>4, MonthTable DEF MonthStart
<1>5. CASE m \in 3 .. 12
  <2>1. m \in {3, 4, 5, 6, 7, 8, 9, 10, 11, 12}
    BY <1>5
  <2>2. MonthStart(y, m) = DaysSinceMarch(m) + IF IsLeap(y) THEN 60 ELSE 59
    BY <2>1, MonthTable DEF MonthStart
  <2>3. DaysSinceMarch(m) \in Int
    BY DEF DaysSinceMarch
  <2> QED
    BY <1>1, <1>2, <1>3, <1>5, <2>2, <2>3
<1> QED
  BY <1>4, <1>5

LEMMA MonthLengths ==
    ASSUME NEW y \in Int, NEW m \in 1 .. 12
    PROVE  /\ MonthStart(y, m) \in Int /\ DaysIn(y, m) \in Int
           /\ MonthStart(y, m) >= 0 /\ DaysIn(y, m) >= 28 /\ DaysIn(y, m) <= 31
           /\ MonthStart(y, m) + DaysIn(y, m) <= IF IsLeap(y) THEN 366 ELSE 365
<1>1. m \in {1, 2, 3, 4, 5, 6, 7, 8, 9, 10, 11, 12}
  OBVIOUS
<1>2. DaysIn(y, m) \in Int /\ DaysIn(y, m) >= 28 /\ DaysIn(y, m) <= 31
  BY <1>1 DEF DaysIn
<1>3. MonthStart(y, m) \in Int /\ MonthStart(y, m) >= 0
  BY <1>1 DEF MonthStart
<1>4. MonthStart(y, m) + DaysIn(y, m) <= IF IsLeap(y) THEN 366 ELSE 365
  BY <1>1 DEF MonthStart, DaysIn
<1> QED
  BY <1>2, <1>3, <1>4

LEMMA MonthsInOrder ==
    ASSUME NEW y \in Int, NEW m \in 1 .. 12, NEW k \in 1 .. 12, m < k
    PROVE  MonthStart(y, m) + DaysIn(y, m) <= MonthStart(y, k)
<1>1. /\ m \in {1, 2, 3, 4, 5, 6, 7, 8, 9, 10, 11, 12}
      /\ k \in {1, 2, 3, 4, 5, 6, 7, 8, 9, 10, 11, 12}
  OBVIOUS
<1> QED
  BY <1>1, SMTT(60) DEF MonthStart, DaysIn

LEMMA YearFound ==
    ASSUME NEW y \in Int, y >= 1970, NEW day \in Int,
           YearStart(y) <= day, day < YearStart(y + 1)
    PROVE  YearOf(day) = y
<1>1. y + 1 \in Int /\ y + 1 >= 1970
  OBVIOUS
<1>2. /\ YearStart(y) \in Int /\ YearStart(y + 1) \in Int
      /\ YearStart(y) >= 365 * (y - 1970) /\ YearStart(y + 1) <= 366 * (y + 1 - 1970)
  BY <1>1, YearStarts
<1>3. y \in 1970 + day \div 366 .. 1970 + day \div 365
  BY <1>2
<1>4. ASSUME NEW z \in Int, YearStart(z) <= day, day < YearStart(z + 1)
      PROVE  z = y
  <2>1. YearStart(z) \in Int /\ YearStart(z + 1) \in Int
    BY YearStarts
  <2>2. CASE z < y
    <3>1. YearStart(z + 1) <= YearStart(y)
      BY <2>2, YearsInOrder
    <3> QED
      BY <1>2, <1>4, <2>1, <3>1
  <2>3. CASE y < z
    <3>1. YearStart(y + 1) <= YearStart(z)
      BY <2>3, YearsInOrder
    <3> QED
      BY <1>2, <1>4, <2>1, <3>1
  <2> QED
    BY <2>2, <2>3
<1> DEFINE Years == 1970 + day \div 366 .. 1970 + day \div 365
<1>5. Years \subseteq Int
  OBVIOUS
<1> HIDE DEF Years
<1> QED
  BY <1>3, <1>4, <1>5 DEF Years, YearOf

LEMMA MonthFound ==
    ASSUME NEW y \in Int, NEW m \in 1 .. 12, NEW doy \in Int,
           MonthStart(y, m) <= doy, doy < MonthStart(y, m) + DaysIn(y, m)
    PROVE  MonthOf(y, doy) = m
<1>1. ASSUME NEW k \in 1 .. 12,
             MonthStart(y, k) <= doy, doy < MonthStart(y, k) + DaysIn(y, k)
      PROVE  k = m
  <2>1. /\ MonthStart(y, m) \in Int /\ DaysIn(y, m) \in Int
        /\ MonthStart(y, k) \in Int /\ DaysIn(y, k) \in Int
    BY MonthLengths
  <2>2. CASE k < m
    <3>1. MonthStart(y, k) + DaysIn(y, k) <= MonthStart(y, m)
      BY <2>2, MonthsInOrder
    <3> QED
      BY <1>1, <2>1, <3>1
  <2>3. CASE m < k
    <3>1. MonthStart(y, m) + DaysIn(y, m) <= MonthStart(y, k)
      BY <2>3, MonthsInOrder
    <3> QED
      BY <1>1, <2>1, <3>1
  <2> QED
    BY <2>2, <2>3
<1> QED
  BY <1>1 DEF MonthOf

LEMMA DateFound ==
    ASSUME NEW y \in Int, NEW m \in 1 .. 12,
           NEW d \in Int, d >= 1, d <= DaysIn(y, m),
           NEW day \in Int, day = days_from_civil(y, m, d)
    PROVE  /\ day - YearStart(y) \in Int
           /\ YearStart(y) <= day /\ day < YearStart(y + 1)
           /\ MonthStart(y, m) <= day - YearStart(y)
           /\ day - YearStart(y) < MonthStart(y, m) + DaysIn(y, m)
           /\ (day - YearStart(y)) - MonthStart(y, m) + 1 = d
<1>1. day = YearStart(y) + MonthStart(y, m) + d - 1
  BY MonthStarts
<1>2. /\ YearStart(y) \in Int
      /\ YearStart(y + 1) = YearStart(y) + IF IsLeap(y) THEN 366 ELSE 365
  BY YearStarts
<1>3. /\ MonthStart(y, m) \in Int /\ DaysIn(y, m) \in Int
      /\ MonthStart(y, m) >= 0 /\ DaysIn(y, m) >= 28 /\ DaysIn(y, m) <= 31
      /\ MonthStart(y, m) + DaysIn(y, m) <= IF IsLeap(y) THEN 366 ELSE 365
  BY MonthLengths
<1> QED
  BY <1>1, <1>2, <1>3

LEMMA TimeOfDay ==
    ASSUME NEW h \in Int, h >= 0, h <= 23, NEW mi \in Int, mi >= 0, mi <= 59,
           NEW s \in Int, s >= 0, s <= 59, NEW secs \in Int,
           secs = h * 3600 + mi * 60 + s
    PROVE  /\ secs >= 0 /\ secs <= 86399 /\ secs \div 86400 = 0 /\ secs % 86400 = secs
           /\ secs \div 3600 = h /\ (secs % 3600) \div 60 = mi /\ secs % 60 = s
<1>1. secs >= 0 /\ secs <= 86399
  OBVIOUS
<1>2. secs \div 86400 = 0 /\ secs % 86400 = secs
  BY <1>1
<1>3. secs \div 3600 = h
  OBVIOUS
<1>4. secs % 3600 = mi * 60 + s
  OBVIOUS
<1>5. secs % 60 = s
  OBVIOUS
<1>6. (mi * 60 + s) \div 60 = mi
  OBVIOUS
<1> QED
  BY <1>1, <1>2, <1>3, <1>4, <1>5, <1>6

LEMMA EpochFields ==
    ASSUME NEW day \in Int, NEW secs \in Int, secs >= 0, secs <= 86399
    PROVE  EpochOf(day, secs) = [day |-> day, sec |-> secs]
<1>1. secs \div 86400 = 0 /\ secs % 86400 = secs
  OBVIOUS
<1>2. day + 0 = day
  OBVIOUS
<1> QED
  BY <1>1, <1>2 DEF EpochOf

LEMMA DayType ==
    ASSUME NEW c \in Civil
    PROVE  days_from_civil(c.year, c.month, c.day) \in Int
<1> DEFINE y == c.year
           m == c.month
           d == c.day
<1>1. y \in Int /\ m \in 1 .. 12 /\ d \in Int
  BY DEF Civil
<1> HIDE DEF y, m, d
<1>2. days_from_civil(y, m, d) \in Int
  BY <1>1, DaysType
<1> QED
  BY <1>2 DEF y, m, d

(* A clock that is set to a date reads that date: gmtime, of the epoch the *)
(* code computes, is the date again, from 1970 on.                         *)
THEOREM RoundTrip ==
    ASSUME NEW c \in Civil, Exists(c), c.year >= 1970
    PROVE  gmtime(CivilEpoch(c)) = c
<1> DEFINE y == c.year
           m == c.month
           d == c.day
           h == c.hour
           mi == c.minute
           s == c.second
           day == days_from_civil(y, m, d)
           secs == h * 3600 + mi * 60 + s
           e == [day |-> day, sec |-> secs]
<1>1. y \in Int /\ m \in 1 .. 12 /\ d \in Int /\ d >= 1 /\ d <= DaysIn(y, m) /\ y >= 1970
  BY DEF Civil, Exists
<1>2. /\ h \in Int /\ h >= 0 /\ h <= 23 /\ mi \in Int /\ mi >= 0 /\ mi <= 59
      /\ s \in Int /\ s >= 0 /\ s <= 59
  BY DEF Civil
<1>3. e.day = day /\ e.sec = secs
  OBVIOUS
<1>4. c = [year |-> y, month |-> m, day |-> d, hour |-> h, minute |-> mi, second |-> s]
  BY DEF Civil
<1>5. CivilEpoch(c) = EpochOf(day, secs)
  BY DEF CivilEpoch
<1> HIDE DEF y, m, d, h, mi, s, e
<1>6. /\ CivilEpoch(c) = e /\ day \in Int
      /\ secs \div 3600 = h /\ (secs % 3600) \div 60 = mi /\ secs % 60 = s
  <2>1. day \in Int
    BY DayType DEF day, y, m, d
  <2>2. secs \in Int
    BY <1>2
  <2> HIDE DEF secs, day
  <2>3. secs = h * 3600 + mi * 60 + s
    BY DEF secs
  <2>4. /\ secs >= 0 /\ secs <= 86399
        /\ secs \div 3600 = h /\ (secs % 3600) \div 60 = mi /\ secs % 60 = s
    BY <1>2, <2>2, <2>3, TimeOfDay
  <2>5. EpochOf(day, secs) = [day |-> day, sec |-> secs]
    BY <2>1, <2>2, <2>4, EpochFields
  <2> QED
    BY <1>5, <2>1, <2>4, <2>5 DEF e
<1> HIDE DEF secs
<1>7. /\ day - YearStart(y) \in Int
      /\ YearStart(y) <= day /\ day < YearStart(y + 1)
      /\ MonthStart(y, m) <= day - YearStart(y)
      /\ day - YearStart(y) < MonthStart(y, m) + DaysIn(y, m)
      /\ (day - YearStart(y)) - MonthStart(y, m) + 1 = d
  BY <1>1, <1>6, DateFound
<1> HIDE DEF day
<1>8. YearOf(day) = y
  BY <1>1, <1>6, <1>7, YearFound
<1>9. MonthOf(y, day - YearStart(y)) = m
  BY <1>1, <1>7, MonthFound
<1>10. gmtime(e)
        = [year |-> y, month |-> m, day |-> (day - YearStart(y)) - MonthStart(y, m) + 1,
           hour |-> secs \div 3600, minute |-> (secs % 3600) \div 60, second |-> secs % 60]
  BY <1>3, <1>8, <1>9 DEF gmtime
<1> QED
  BY <1>6, <1>4, <1>7, <1>10
-----------------------------------------------------------------------------
LEMMA EpochOfDate ==
    ASSUME NEW c \in Civil
    PROVE  LET secs == c.hour * 3600 + c.minute * 60 + c.second
           IN  /\ secs \in Int /\ secs >= 0 /\ secs <= 86399
               /\ CivilEpoch(c) =
                     [day |-> days_from_civil(c.year, c.month, c.day), sec |-> secs]
<1> DEFINE day == days_from_civil(c.year, c.month, c.day)
           secs == c.hour * 3600 + c.minute * 60 + c.second
<1>1. CivilEpoch(c) = EpochOf(day, secs)
  BY DEF CivilEpoch
<1>2. secs \in Int /\ secs >= 0 /\ secs <= 86399
  <2> DEFINE h == c.hour
             mi == c.minute
             s == c.second
  <2>1. /\ h \in Int /\ h >= 0 /\ h <= 23 /\ mi \in Int /\ mi >= 0 /\ mi <= 59
        /\ s \in Int /\ s >= 0 /\ s <= 59
    BY DEF Civil
  <2>2. secs = h * 3600 + mi * 60 + s
    OBVIOUS
  <2> HIDE DEF h, mi, s, secs
  <2> QED
    BY <2>1, <2>2
<1>3. day \in Int
  BY DayType
<1> HIDE DEF day, secs
<1>4. EpochOf(day, secs) = [day |-> day, sec |-> secs]
  BY <1>2, <1>3, EpochFields
<1> QED
  BY <1>1, <1>2, <1>4 DEF day, secs

LEMMA SameTime ==
    ASSUME NEW c \in Civil
    PROVE  LET n == NextDate(c)
           IN  n.hour = c.hour /\ n.minute = c.minute /\ n.second = c.second
BY DEF NextDate, Civil

LEMMA OneDay ==
    ASSUME NEW c \in Civil, Exists(c), NEW n \in Civil,
           n.year = c.year, n.month = c.month, n.day = c.day,
           n.hour * 3600 + n.minute * 60 + n.second
               = c.hour * 3600 + c.minute * 60 + c.second + 1
    PROVE  /\ Exists(n) /\ CivilEpoch(n) = SecondLater(CivilEpoch(c))
<1> DEFINE day == days_from_civil(c.year, c.month, c.day)
           secs == c.hour * 3600 + c.minute * 60 + c.second
           later == n.hour * 3600 + n.minute * 60 + n.second
<1>1. Exists(n)
  BY DEF Exists
<1>2. /\ secs \in Int /\ later <= 86399 /\ later = secs + 1
      /\ CivilEpoch(c) = [day |-> day, sec |-> secs]
  BY EpochOfDate
<1>3. CivilEpoch(n) = [day |-> day, sec |-> later]
  BY EpochOfDate
<1> HIDE DEF day, secs, later
<1>4. secs < 86399
  BY <1>2
<1> QED
  BY <1>1, <1>2, <1>3, <1>4 DEF SecondLater

(* The calendar and the count of seconds keep step: a second later on the  *)
(* one is a second later on the other, over the ends of days, months and   *)
(* years.                                                                  *)
THEOREM SecondBySecond ==
    ASSUME NEW c \in Civil, Exists(c)
    PROVE  /\ NextSecond(c) \in Civil /\ Exists(NextSecond(c))
           /\ CivilEpoch(NextSecond(c)) = SecondLater(CivilEpoch(c))
<1> DEFINE h == c.hour
           m == c.minute
           s == c.second
           n == NextSecond(c)
<1>1. h \in 0 .. 23 /\ m \in 0 .. 59 /\ s \in 0 .. 59
  BY DEF Civil
<1>2. n = IF s < 59 THEN At(c, h, m, s + 1)
          ELSE IF m < 59 THEN At(c, h, m + 1, 0)
          ELSE IF h < 23 THEN At(c, h + 1, 0, 0)
          ELSE NextDate(At(c, 0, 0, 0))
  BY DEF NextSecond
<1> SUFFICES n \in Civil /\ Exists(n) /\ CivilEpoch(n) = SecondLater(CivilEpoch(c))
  OBVIOUS
<1> HIDE DEF n
<1>3. ASSUME NEW hh, NEW mm, NEW ss, n = At(c, hh, mm, ss),
             hh \in 0 .. 23, mm \in 0 .. 59, ss \in 0 .. 59
      PROVE  /\ n \in Civil /\ n.year = c.year /\ n.month = c.month /\ n.day = c.day
             /\ n.hour = hh /\ n.minute = mm /\ n.second = ss
  BY <1>3 DEF At, Civil
<1>4. CASE s < 59
  <2> HIDE DEF h, m, s
  <2> DEFINE ss == s + 1
  <2>1. ss \in 0 .. 59 /\ n = At(c, h, m, ss)
    BY <1>1, <1>2, <1>4
  <2> HIDE DEF ss
  <2>2. /\ n \in Civil /\ n.year = c.year /\ n.month = c.month /\ n.day = c.day
        /\ n.hour = h /\ n.minute = m /\ n.second = ss
    BY <1>1, <1>3, <2>1
  <2>3. n.hour * 3600 + n.minute * 60 + n.second = h * 3600 + m * 60 + s + 1
    BY <1>1, <2>2 DEF ss
  <2> QED
    BY <2>2, <2>3, OneDay DEF h, m, s
<1>5. CASE s = 59 /\ m < 59
  <2> HIDE DEF h, m, s
  <2> DEFINE mm == m + 1
             ss == 0
  <2>1. mm \in 0 .. 59 /\ ss \in 0 .. 59 /\ n = At(c, h, mm, ss)
    BY <1>1, <1>2, <1>5
  <2> HIDE DEF mm, ss
  <2>2. /\ n \in Civil /\ n.year = c.year /\ n.month = c.month /\ n.day = c.day
        /\ n.hour = h /\ n.minute = mm /\ n.second = ss
    BY <1>1, <1>3, <2>1
  <2>3. n.hour * 3600 + n.minute * 60 + n.second = h * 3600 + m * 60 + s + 1
    BY <1>1, <1>5, <2>2 DEF mm, ss
  <2> QED
    BY <2>2, <2>3, OneDay DEF h, m, s
<1>6. CASE s = 59 /\ m = 59 /\ h < 23
  <2> HIDE DEF h, m, s
  <2> DEFINE hh == h + 1
             mm == 0
             ss == 0
  <2>1. hh \in 0 .. 23 /\ mm \in 0 .. 59 /\ ss \in 0 .. 59 /\ n = At(c, hh, mm, ss)
    BY <1>1, <1>2, <1>6
  <2> HIDE DEF hh, mm, ss
  <2>2. /\ n \in Civil /\ n.year = c.year /\ n.month = c.month /\ n.day = c.day
        /\ n.hour = hh /\ n.minute = mm /\ n.second = ss
    BY <1>3, <2>1
  <2>3. n.hour * 3600 + n.minute * 60 + n.second = h * 3600 + m * 60 + s + 1
    BY <1>1, <1>6, <2>2 DEF hh, mm, ss
  <2> QED
    BY <2>2, <2>3, OneDay DEF h, m, s
<1>7. CASE s = 59 /\ m = 59 /\ h = 23
  <2> DEFINE midnight == At(c, 0, 0, 0)
             day == days_from_civil(c.year, c.month, c.day)
  <2>1. n = NextDate(midnight)
    BY <1>2, <1>7
  <2>2. /\ midnight \in Civil /\ Exists(midnight)
        /\ midnight.year = c.year /\ midnight.month = c.month /\ midnight.day = c.day
        /\ midnight.hour = 0 /\ midnight.minute = 0 /\ midnight.second = 0
    BY DEF At, Civil, Exists
  <2> HIDE DEF midnight
  <2>3. n \in Civil /\ Exists(n) /\ days_from_civil(n.year, n.month, n.day) = day + 1
    BY <2>1, <2>2, DaysConsecutive
  <2>4. n.hour = 0 /\ n.minute = 0 /\ n.second = 0
    BY <2>1, <2>2, SameTime
  <2>5. CivilEpoch(n) = [day |-> day + 1, sec |-> 0]
    <3>1. n.hour * 3600 + n.minute * 60 + n.second = 0
      BY <2>4
    <3> QED
      BY <2>3, <3>1, EpochOfDate
  <2>6. CivilEpoch(c) = [day |-> day, sec |-> 86399]
    <3>1. c.hour * 3600 + c.minute * 60 + c.second = 86399
      BY <1>7
    <3> QED
      BY <3>1, EpochOfDate
  <2> HIDE DEF day
  <2> QED
    BY <2>3, <2>5, <2>6 DEF SecondLater
<1> QED
  <2> HIDE DEF h, m, s
  <2> QED
    BY <1>1, <1>4, <1>5, <1>6, <1>7
=============================================================================
