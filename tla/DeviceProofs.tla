------------------------------ MODULE DeviceProofs ------------------------------
(***************************************************************************)
(* The device shows the date it was set to, hands its host what a body     *)
(* says, and sends whole answers or none from a buffer it never leaves:    *)
(* proved for all requests, bodies of any length and text, all             *)
(* configurations and any number of seconds.                               *)
(***************************************************************************)
EXTENDS DeviceProperties, CalendarProofs, FiniteSetTheorems

(* What can be shown.                                                      *)
Shows(c) == c \in Civil /\ Exists(c) /\ c.year \in Int /\ c.year >= 1970

(* A day beyond the end of its month is one of the next month.             *)
LEMMA NextMonthDate ==
    ASSUME NEW c \in Civil, c.year >= 1970, ~Exists(c)
    PROVE  LET n == NextMonth(c, c.day - DaysIn(c.year, c.month))
           IN  Shows(n) /\ CivilEpoch(n) = CivilEpoch(c)
<1> DEFINE y == c.year
           m == c.month
           d == c.day
           k == m + 1
           e == d - DaysIn(y, m)
           n == NextMonth(c, e)
<1>1. /\ y \in Int /\ y >= 1970 /\ m \in 1 .. 12 /\ d \in 1 .. 31 /\ d > DaysIn(y, m)
      /\ c.hour \in 0 .. 23 /\ c.minute \in 0 .. 59 /\ c.second \in 0 .. 59
  BY DEF Civil, Exists, DaysIn
<1>2. /\ n.year = y /\ n.month = k /\ n.day = e
      /\ n.hour = c.hour /\ n.minute = c.minute /\ n.second = c.second
  BY DEF NextMonth
<1> HIDE DEF y, m, d
<1>3. DaysIn(y, m) \in 28 .. 31 /\ m # 12
  BY <1>1 DEF DaysIn
<1>4. m \in 1 .. 11 /\ k \in 1 .. 12 /\ e \in 1 .. 3
  BY <1>1, <1>3
<1>5. DaysIn(y, k) \in 28 .. 31
  BY <1>4 DEF DaysIn
<1>6. days_from_civil(y, k, e) = days_from_civil(y, m, d)
  <2>1. d = DaysIn(y, m) + e /\ e \in Int
    BY <1>1, <1>3
  <2> HIDE DEF e
  <2> QED
    BY <1>1, <1>4, <2>1, MonthEnds
<1>7. n = [year |-> y, month |-> k, day |-> e,
           hour |-> c.hour, minute |-> c.minute, second |-> c.second]
  BY DEF NextMonth, y, m
<1>8. e \in 1 .. 31 /\ e <= DaysIn(y, k)
  BY <1>4, <1>5
<1> HIDE DEF k, e
<1>9. n \in Civil
  <2> HIDE DEF n
  <2> QED
    BY <1>1, <1>4, <1>7, <1>8 DEF Civil
<1> HIDE DEF n
<1>10. Shows(n)
  BY <1>1, <1>2, <1>8, <1>9 DEF Shows, Exists
<1>11. CivilEpoch(n) = CivilEpoch(c)
  BY <1>2, <1>6 DEF CivilEpoch, y, m, d
<1> QED
  BY <1>10, <1>11 DEF n, e, m, d, y

(* So is the 60th second one of the next minute, and what the calendar     *)
(* shows is a date that exists.                                            *)
LEMMA LeapSecond ==
    ASSUME NEW c \in Fields, c.second = 60, NEW a \in Civil,
           a.hour = c.hour, a.minute = c.minute, a.second = 59,
           days_from_civil(c.year, c.month, c.day) = days_from_civil(a.year, a.month, a.day)
    PROVE  SecondLater(CivilEpoch(a)) = CivilEpoch(c)
<1> DEFINE day == days_from_civil(a.year, a.month, a.day)
           secs == c.hour * 3600 + c.minute * 60 + c.second
           before == a.hour * 3600 + a.minute * 60 + a.second
<1>1. day \in Int
  BY DayType
<1>2. CivilEpoch(a) = [day |-> day, sec |-> before]
  BY EpochOfDate
<1>3. CivilEpoch(c) = EpochOf(day, secs)
  BY DEF CivilEpoch
<1>4. c.hour \in 0 .. 23 /\ c.minute \in 0 .. 59
  BY DEF Fields
<1>5. secs = before + 1 /\ before \in Int /\ before >= 0 /\ before <= 86399
  BY <1>4
<1> HIDE DEF day, secs, before
<1>6. CASE before < 86399
  <2>1. secs \in Int /\ secs >= 0 /\ secs <= 86399
    BY <1>5, <1>6
  <2>2. EpochOf(day, secs) = [day |-> day, sec |-> secs]
    BY <1>1, <2>1, EpochFields
  <2> QED
    BY <1>2, <1>3, <1>5, <1>6, <2>2 DEF SecondLater
<1>7. CASE before = 86399
  <2>1. secs = 86400
    BY <1>5, <1>7
  <2>2. EpochOf(day, secs) = [day |-> day + 1, sec |-> 0]
    BY <2>1 DEF EpochOf
  <2> QED
    BY <1>2, <1>3, <1>7, <2>2 DEF SecondLater
<1> QED
  BY <1>5, <1>6, <1>7

LEMMA NextYear ==
    ASSUME NEW c \in Civil, c.year >= 1970
    PROVE  NextSecond(c).year \in Int /\ NextSecond(c).year >= 1970
<1> DEFINE y == c.year
<1>1. y \in Int /\ y >= 1970 /\ y + 1 >= 1970
  BY DEF Civil
<1>2. NextSecond(c).year \in {y, y + 1}
  <2>1. ASSUME NEW h, NEW m, NEW s
        PROVE  At(c, h, m, s).year = y
    BY DEF At
  <2> DEFINE a == At(c, 0, 0, 0)
  <2>2. NextDate(a).year \in {y, y + 1}
    BY DEF NextDate, At
  <2> QED
    BY <2>1, <2>2 DEF NextSecond
<1> QED
  BY <1>1, <1>2

LEMMA NormalisedShows ==
    ASSUME NEW c \in Fields
    PROVE  Shows(Normalised(c)) /\ CivilEpoch(Normalised(c)) = CivilEpoch(c)
<1> DEFINE s == IF c.second = 60 THEN 59 ELSE c.second
           a == At(c, c.hour, c.minute, s)
           last == DaysIn(c.year, c.month)
           n == NextMonth(a, c.day - last)
           b == IF c.day <= last THEN a ELSE n
<1>1. /\ c.month \in 1 .. 12 /\ c.day \in 1 .. 31
      /\ c.hour \in 0 .. 23 /\ c.minute \in 0 .. 59
  BY DEF Fields
<1>2. c.year \in Int /\ c.year >= 1970
  <2> DEFINE y == c.year
  <2>1. y \in 1970 .. 9999
    BY DEF Fields
  <2> HIDE DEF y
  <2>2. y \in Int /\ y >= 1970
    BY <2>1
  <2> QED
    BY <2>2 DEF y
<1>3. s \in 0 .. 59
  <2> DEFINE x == c.second
  <2>1. x \in 0 .. 60
    BY DEF Fields
  <2> HIDE DEF x
  <2> QED
    BY <2>1 DEF x
<1>4. /\ a.year = c.year /\ a.month = c.month /\ a.day = c.day
      /\ a.hour = c.hour /\ a.minute = c.minute /\ a.second = s
  BY DEF At
<1>5. a \in Civil
  <2> HIDE DEF s
  <2> QED
    BY <1>1, <1>2, <1>3 DEF At, Civil
<1>6. Normalised(c) = IF c.second = 60 THEN NextSecond(b) ELSE b
  BY DEF Normalised
<1>7. last \in Int
  BY DEF DaysIn
<1>8. n.hour = a.hour /\ n.minute = a.minute /\ n.second = a.second
  BY DEF NextMonth
<1> HIDE DEF s, a, n
<1>9. Exists(a) <=> c.day <= last
  BY <1>4 DEF Exists
<1>10. Shows(b) /\ CivilEpoch(b) = CivilEpoch(a)
  <2>1. CASE c.day <= last
    BY <1>1, <1>2, <1>4, <1>5, <1>9, <2>1 DEF Shows
  <2>2. CASE ~(c.day <= last)
    BY <1>1, <1>2, <1>4, <1>5, <1>9, <2>2, NextMonthDate DEF n
  <2> QED
    BY <2>1, <2>2
<1>11. b.hour = a.hour /\ b.minute = a.minute /\ b.second = a.second
  BY <1>8
<1> HIDE DEF b, last
<1>12. CASE c.second # 60
  <2>1. CivilEpoch(a) = CivilEpoch(c)
    BY <1>4, <1>12 DEF CivilEpoch, s
  <2> QED
    BY <1>6, <1>10, <1>12, <2>1
<1>13. CASE c.second = 60
  <2>1. b \in Civil /\ Exists(b) /\ b.year >= 1970
    BY <1>10 DEF Shows
  <2>2. Shows(NextSecond(b)) /\ CivilEpoch(NextSecond(b)) = SecondLater(CivilEpoch(b))
    BY <2>1, SecondBySecond, NextYear DEF Shows
  <2>3. a.second = 59
    BY <1>4, <1>13 DEF s
  <2>4. SecondLater(CivilEpoch(a)) = CivilEpoch(c)
    BY <1>4, <1>5, <1>13, <2>3, LeapSecond
  <2> QED
    BY <1>6, <1>10, <1>13, <2>2, <2>4
<1> QED
  BY <1>12, <1>13

-----------------------------------------------------------------------------
(* What the parser takes for a date has all its fields in range, and the   *)
(* clock is set to what the calendar shows for it.                         *)
LEMMA DatesInRange ==
    ASSUME NEW body
    PROVE  \A c \in Dates(body) : c \in Fields
<1> SUFFICES ASSUME NEW scope, NEW c \in DateIn(body, scope)
             PROVE  c \in Fields
  BY DEF Dates
<1> DEFINE value(f) == parse_num(leaf_text(body, scope, f), f)
<1>1. ASSUME NEW f \in DOMAIN FieldRange
      PROVE  TheOnly(value(f)) \in FieldRange[f]
  <2>1. value(f) # {} /\ value(f) \subseteq FieldRange[f]
    BY DEF DateIn, parse_num
  <2> HIDE DEF value
  <2> QED
    BY <2>1 DEF TheOnly
<1>2. c = [year |-> TheOnly(value("Year")), month |-> TheOnly(value("Month")),
           day |-> TheOnly(value("Day")), hour |-> TheOnly(value("Hour")),
           minute |-> TheOnly(value("Minute")), second |-> TheOnly(value("Second"))]
  BY DEF DateIn
<1> HIDE DEF value
<1>3. /\ TheOnly(value("Year")) \in 1970 .. 9999 /\ TheOnly(value("Month")) \in 1 .. 12
      /\ TheOnly(value("Day")) \in 1 .. 31 /\ TheOnly(value("Hour")) \in 0 .. 23
      /\ TheOnly(value("Minute")) \in 0 .. 59 /\ TheOnly(value("Second")) \in 0 .. 60
  BY <1>1 DEF FieldRange
<1> QED
  BY <1>2, <1>3 DEF Fields

LEMMA ParsedDate ==
    ASSUME NEW body, NEW r \in onvif_time_parse_set_request(body), r.has_utc
    PROVE  LET c == Normalised(TheOnly(Dates(body)))
           IN  Shows(c) /\ r.utc_epoch = CivilEpoch(c)
<1>1. r = RequestOf(Types(body), Zones(body), Dates(body))
  BY DEF onvif_time_parse_set_request
<1>2. Dates(body) # {} /\ r.utc_epoch = CivilEpoch(TheOnly(Dates(body)))
  BY <1>1 DEF RequestOf
<1>3. TheOnly(Dates(body)) \in Dates(body)
  BY <1>2 DEF TheOnly
<1>4. TheOnly(Dates(body)) \in Fields
  BY <1>3, DatesInRange
<1> QED
  BY <1>2, <1>4, NormalisedShows

-----------------------------------------------------------------------------
(* The inductive invariant. The clock is that of a date that exists and is *)
(* not before 1970; what was read from it is kept, with what the calendar  *)
(* showed then, until it is answered.                                      *)
ClockInv == Shows(expected) /\ clock = CivilEpoch(expected)

ReadInv == pc \in {"mode", "zone"} => tm = shown

AnswerInv == answer.kind = "date" => pc = "done" /\ answer.utc = shown

(* The offset is zero until a first piece is written, and less than the    *)
(* size of the buffer whenever another one is to be.                       *)
RoomInv ==
    /\ pc \notin {"middle", "scopes", "tail", "built", "fault", "done"} => off = 0
    /\ pc \in {"middle", "scopes", "tail"} => off < RespMax

DInv == ClockInv /\ ReadInv /\ AnswerInv /\ RoomInv

LEMMA DInvInit == Init => DInv
<1> SUFFICES ASSUME Init PROVE DInv
  OBVIOUS
<1>1. Boot \in Civil /\ Exists(Boot) /\ Boot.year \in Int /\ Boot.year >= 1970
  BY DEF Boot, Civil, Exists, DaysIn
<1>2. CivilEpoch(Boot) = BootEpoch
  <2>1. /\ Boot.year = 1970 /\ Boot.month = 1 /\ Boot.day = 1
        /\ Boot.hour = 0 /\ Boot.minute = 0 /\ Boot.second = 0
    BY DEF Boot
  <2>2. CivilEpoch(Boot) = EpochOf(0, 0)
    BY <2>1, FirstDay DEF CivilEpoch
  <2> QED
    BY <2>2 DEF EpochOf, BootEpoch
<1>3. ClockInv
  BY <1>1, <1>2 DEF Init, ClockInv, Shows
<1>4. ReadInv /\ AnswerInv /\ RoomInv
  BY DEF Init, ReadInv, AnswerInv, RoomInv, NoAnswer
<1> QED
  BY <1>3, <1>4 DEF DInv

(* The clock: only a request to set it, a second that passes and SNTP move *)
(* it.                                                                     *)
LEMMA ClockStep ==
    ASSUME DInv, [Next]_vars
    PROVE  ClockInv'
<1>1. Shows(expected) /\ clock = CivilEpoch(expected)
  BY DEF DInv, ClockInv
<1>2. CASE UNCHANGED <<clock, expected>>
  BY <1>1, <1>2 DEF ClockInv
<1>3. CASE handle_set_system_date_and_time
  <2> DEFINE parsed == onvif_time_parse_set_request(request.body)
  <2>1. CASE UNCHANGED hostVars
    BY <1>2, <2>1 DEF hostVars
  <2>2. CASE parsed # {} /\ \A r \in parsed : time_apply(r)
    <3>1. PICK r \in parsed : time_apply(r)
      BY <2>2
    <3>2. CASE r.has_utc
      <4> DEFINE c == Normalised(TheOnly(Dates(request.body)))
      <4>1. clock' = r.utc_epoch /\ expected' = c
        BY <3>1, <3>2 DEF time_apply
      <4>2. Shows(c) /\ r.utc_epoch = CivilEpoch(c)
        BY <3>2, ParsedDate
      <4> HIDE DEF c
      <4> QED
        BY <4>1, <4>2 DEF ClockInv
    <3>3. CASE ~r.has_utc
      BY <1>2, <3>1, <3>3 DEF time_apply
    <3> QED
      BY <3>2, <3>3
  <2> QED
    BY <1>3, <2>1, <2>2 DEF handle_set_system_date_and_time
<1>4. CASE Tick
  <2>1. expected \in Civil /\ Exists(expected) /\ expected.year >= 1970
    BY <1>1 DEF Shows
  <2>2. /\ Shows(NextSecond(expected))
        /\ CivilEpoch(NextSecond(expected)) = SecondLater(CivilEpoch(expected))
    BY <2>1, SecondBySecond, NextYear DEF Shows
  <2>3. clock' = SecondLater(clock) /\ expected' = NextSecond(expected)
    BY <1>4 DEF Tick
  <2> QED
    BY <1>1, <2>2, <2>3 DEF ClockInv
<1>5. ASSUME NEW c \in SyncDates, Synchronise(c)
      PROVE  ClockInv'
  <2>1. c \in Civil /\ Exists(c) /\ c.year >= 1970
    BY DeviceAssumption
  <2>2. c.year \in Int
    BY <2>1 DEF Civil
  <2> QED
    BY <1>5, <2>1, <2>2 DEF Synchronise, ClockInv, Shows
<1>6. CASE UNCHANGED vars
  BY <1>2, <1>6 DEF vars, hostVars
<1>7. ASSUME NEW r \in Requests, Dispatch(r)
      PROVE  ClockInv'
  BY <1>2, <1>7 DEF Dispatch, HttpdOnly, hostVars
<1>8. CASE NoMemory \/ ReadClock \/ ReadMode \/ AnswerDate \/ AnswerVerdict
  BY <1>2, <1>8 DEF NoMemory, ReadClock, ReadMode, AnswerDate, AnswerVerdict, HttpdOnly, hostVars
<1>9. CASE WriteHead \/ WriteMiddle \/ WriteScope \/ WriteTail \/ SendBuilt \/ send_fault \/ Finish
  BY <1>2, <1>9
     DEF WriteHead, WriteMiddle, WriteScope, WriteTail, SendBuilt, send_fault, Finish, HttpdOnly,
         hostVars
<1>10. CASE handle_set_ntp
  BY <1>2, <1>10 DEF handle_set_ntp, hostVars
<1> QED
  BY <1>3, <1>4, <1>5, <1>6, <1>7, <1>8, <1>9, <1>10 DEF Next, Httpd, Host

(* The task: what it has read, answered and written.                       *)
LEMMA TaskStep ==
    ASSUME DInv, [Next]_vars
    PROVE  ReadInv' /\ AnswerInv' /\ RoomInv'
<1> USE DEF DInv, ReadInv, AnswerInv, RoomInv, readVars, builderVars
<1>1. ASSUME NEW r \in Requests, Dispatch(r)
      PROVE  ReadInv' /\ AnswerInv' /\ RoomInv'
  <2>1. pc' \notin {"mode", "zone", "middle", "scopes", "tail", "built", "fault", "done"}
    BY <1>1, DeviceAssumption DEF Dispatch, Actions, Built, Setters
  <2> QED
    BY <1>1, <2>1 DEF Dispatch
<1>2. CASE NoMemory
  BY <1>2 DEF NoMemory, Reply
<1>3. CASE ReadClock
  <2>1. tm' = shown'
    BY <1>3, RoundTrip DEF ReadClock, ClockInv, Shows
  <2> QED
    BY <1>3, <2>1 DEF ReadClock
<1>4. CASE ReadMode
  BY <1>4 DEF ReadMode
<1>5. CASE AnswerDate
  BY <1>5 DEF AnswerDate, Reply, onvif_xml_system_date_and_time
<1>6. CASE handle_set_system_date_and_time
  <2>1. PICK kind \in {"ack", "invalid", "not supported"} : Verdict(kind)
    BY <1>6 DEF handle_set_system_date_and_time
  <2>2. pc = "SetSystemDateAndTime" /\ UNCHANGED <<readVars, builderVars>>
    BY <1>6 DEF handle_set_system_date_and_time
  <2> QED
    BY <2>1, <2>2 DEF Verdict
<1>7. CASE handle_set_ntp
  <2>1. PICK kind \in {"ack", "invalid", "not supported"} : Verdict(kind)
    BY <1>7 DEF handle_set_ntp
  <2>2. pc = "SetNTP" /\ UNCHANGED <<readVars, builderVars>>
    BY <1>7 DEF handle_set_ntp
  <2> QED
    BY <2>1, <2>2 DEF Verdict
<1>8. CASE AnswerVerdict
  BY <1>8 DEF AnswerVerdict
<1>9. CASE WriteHead
  <2>1. AfterHead \in {"scopes", "middle", "tail"}
    BY DEF AfterHead
  <2> QED
    BY <1>9, <2>1 DEF WriteHead, Write, Unless
<1>10. CASE WriteMiddle
  BY <1>10 DEF WriteMiddle, Write, Unless
<1>11. CASE WriteScope
  BY <1>11 DEF WriteScope, Write, Unless
<1>12. CASE WriteTail
  BY <1>12 DEF WriteTail
<1>13. CASE SendBuilt
  BY <1>13 DEF SendBuilt, Reply
<1>14. CASE send_fault
  BY <1>14 DEF send_fault, Reply
<1>15. CASE Finish
  BY <1>15 DEF Finish, NoAnswer
<1>16. CASE Host
  BY <1>16 DEF Host, Tick, Synchronise, HostOnly
<1>17. CASE UNCHANGED vars
  BY <1>17 DEF vars
<1> QED
  BY <1>1, <1>2, <1>3, <1>4, <1>5, <1>6, <1>7, <1>8, <1>9, <1>10, <1>11, <1>12, <1>13,
     <1>14, <1>15, <1>16, <1>17 DEF Next, Httpd

LEMMA DInvAlways == Spec => []DInv
<1>1. DInv /\ [Next]_vars => DInv'
  BY ClockStep, TaskStep DEF DInv
<1> QED
  BY <1>1, DInvInit, PTL DEF Spec

(* GetSystemDateAndTime answers what a calendar shows, for every request   *)
(* and every number of seconds.                                            *)
THEOREM TheDateIsShown == Spec => []DateShown
<1>1. DInv => DateShown
  BY DEF DInv, AnswerInv, DateShown
<1> QED
  BY <1>1, DInvAlways, PTL

(* The clock is that of the calendar.                                      *)
THEOREM TheClockIsRight == Spec => []ClockIsCalendar
<1>1. DInv => ClockIsCalendar
  BY DEF DInv, ClockInv, Shows, ClockIsCalendar
<1> QED
  BY <1>1, DInvAlways, PTL

(* No piece of an answer is written at or behind the buffer's end.         *)
THEOREM NothingBehindTheEnd == Spec => []InBuffer
<1>1. DInv => InBuffer
  BY DeviceAssumption DEF DInv, RoomInv, InBuffer
<1> QED
  BY <1>1, DInvAlways, PTL

-----------------------------------------------------------------------------
(* Sets of positions in a sequence.                                       *)
LessThan == OpToRel(<, Nat)

(* Every set of numbers that is not empty has a least one.                 *)
LEMMA LeastNumber ==
    ASSUME NEW S \in SUBSET Nat, S # {}
    PROVE  \E n \in S : \A m \in S : n <= m
<1>1. IsWellFoundedOn(LessThan, Nat)
  BY NatLessThanWellFounded DEF LessThan
<1>2. PICK n \in S : \A m \in S : ~(<<m, n>> \in LessThan)
  BY <1>1, WFMin
<1>3. LessThan = {ss \in Nat \X Nat : ss[1] < ss[2]}
  BY DEF LessThan, OpToRel
<1>4. \A m \in S : m < n => <<m, n>> \in LessThan
  BY <1>3
<1>5. \A m \in S : ~(m < n)
  BY <1>2, <1>4
<1>6. ASSUME NEW m \in S PROVE n <= m
  <2>1. m \in Nat /\ n \in Nat /\ ~(m < n)
    BY <1>5
  <2> QED
    BY <2>1
<1> QED
  BY <1>6

LEMMA Smallest ==
    ASSUME NEW S \in SUBSET Nat, S # {}
    PROVE  Min(S) \in S /\ \A m \in S : Min(S) <= m
  BY LeastNumber DEF Min

(* How many of S are not greater than i. *)
Count(S, i) == Cardinality({j \in S : j <= i})

LEMMA CountType ==
    ASSUME NEW n \in Nat, NEW S \in SUBSET (1 .. n), NEW i
    PROVE  /\ IsFiniteSet(S) /\ Cardinality(S) \in Nat
           /\ IsFiniteSet({j \in S : j <= i}) /\ Count(S, i) \in Nat
           /\ Count(S, i) <= Cardinality(S)
<1>1. IsFiniteSet(1 .. n)
  BY FS_Interval
<1>2. IsFiniteSet(S)
  BY <1>1, FS_Subset
<1>3. {j \in S : j <= i} \in SUBSET S
  OBVIOUS
<1>4. IsFiniteSet({j \in S : j <= i}) /\ Count(S, i) <= Cardinality(S)
  BY <1>2, <1>3, FS_Subset DEF Count
<1> QED
  BY <1>2, <1>4, FS_CardinalityType DEF Count

LEMMA CountEnds ==
    ASSUME NEW n \in Nat, NEW S \in SUBSET (1 .. n)
    PROVE  Count(S, 0) = 0 /\ \A m \in Nat : m >= n => Count(S, m) = Cardinality(S)
<1>0. \A x \in S : x \in Nat /\ 1 <= x /\ x <= n
  OBVIOUS
<1>1. {j \in S : j <= 0} = {}
  <2>1. \A x \in S : ~(x <= 0)
    BY <1>0
  <2> QED
    BY <2>1
<1>2. ASSUME NEW m \in Nat, m >= n PROVE {j \in S : j <= m} = S
  <2>1. \A x \in S : x <= m
    BY <1>0, <1>2
  <2> QED
    BY <2>1
<1> QED
  BY <1>1, <1>2, FS_EmptySet DEF Count

LEMMA CountStep ==
    ASSUME NEW n \in Nat, NEW S \in SUBSET (1 .. n), NEW i \in Nat
    PROVE  Count(S, i + 1) = IF i + 1 \in S THEN Count(S, i) + 1 ELSE Count(S, i)
<1>0. \A x \in S : x \in Nat /\ 1 <= x /\ x <= n
  OBVIOUS
<1>1. IsFiniteSet({j \in S : j <= i})
  BY CountType
<1>2. CASE i + 1 \in S
  <2>1. {j \in S : j <= i + 1} = {j \in S : j <= i} \cup {i + 1}
    <3>1. \A x \in S : x <= i + 1 <=> x <= i \/ x = i + 1
      BY <1>0
    <3> QED
      BY <1>2, <3>1
  <2>2. i + 1 \notin {j \in S : j <= i}
    OBVIOUS
  <2> QED
    BY <1>1, <1>2, <2>1, <2>2, FS_AddElement DEF Count
<1>3. CASE i + 1 \notin S
  <2>1. {j \in S : j <= i + 1} = {j \in S : j <= i}
    <3>1. \A x \in S : x <= i + 1 <=> x <= i
      BY <1>0, <1>3
    <3> QED
      BY <3>1
  <2> QED
    BY <1>3, <2>1 DEF Count
<1> QED
  BY <1>2, <1>3

(* The count rises with i, and at each member of S.                        *)
LEMMA CountRises ==
    ASSUME NEW n \in Nat, NEW S \in SUBSET (1 .. n), NEW i \in Int, NEW j \in Int, i <= j
    PROVE  /\ Count(S, i) <= Count(S, j)
           /\ i < j /\ j \in S => Count(S, i) < Count(S, j)
<1>0. \A x \in S : x \in Nat /\ 1 <= x /\ x <= n
  OBVIOUS
<1>1. /\ IsFiniteSet({x \in S : x <= j}) /\ Count(S, i) \in Nat /\ Count(S, j) \in Nat
  BY CountType
<1>2. {x \in S : x <= i} \in SUBSET {x \in S : x <= j}
  <2>1. \A x \in S : x <= i => x <= j
    BY <1>0
  <2> QED
    BY <2>1
<1>3. Count(S, i) <= Count(S, j)
  BY <1>1, <1>2, FS_Subset DEF Count
<1>4. ASSUME i < j, j \in S PROVE Count(S, i) # Count(S, j)
  <2>1. j \in {x \in S : x <= j} /\ j \notin {x \in S : x <= i}
    BY <1>4
  <2> QED
    BY <1>1, <1>2, <2>1, FS_Subset DEF Count
<1> QED
  BY <1>1, <1>3, <1>4

(* Each member of S is the one that its count says. *)
LEMMA NthOfCount ==
    ASSUME NEW n \in Nat, NEW S \in SUBSET (1 .. n), NEW i \in S
    PROVE  Count(S, i) \in 1 .. Cardinality(S) /\ Nth(S, Count(S, i)) = i
<1>0. \A x \in S : x \in Nat /\ 1 <= x /\ x <= n
  OBVIOUS
<1>1. i \in Nat /\ Count(S, i) \in Nat /\ Count(S, i) <= Cardinality(S) /\ Cardinality(S) \in Nat
  BY <1>0, CountType
<1>2. Count(S, i) > 0
  <2>1. Count(S, 0) < Count(S, i)
    BY <1>1, CountRises
  <2> QED
    BY <1>1, <2>1, CountEnds
<1>3. ASSUME NEW j \in S, Count(S, j) = Count(S, i) PROVE j = i
  <2>1. i \in Int /\ j \in Int
    BY <1>0
  <2>2. ~(i < j)
    <3> SUFFICES ASSUME i < j PROVE FALSE
      OBVIOUS
    <3>1. Count(S, i) < Count(S, j)
      BY <2>1, CountRises
    <3> QED
      BY <1>1, <1>3, <3>1
  <2>3. ~(j < i)
    <3> SUFFICES ASSUME j < i PROVE FALSE
      OBVIOUS
    <3>1. Count(S, j) < Count(S, i)
      BY <2>1, CountRises
    <3> QED
      BY <1>1, <1>3, <3>1
  <2> QED
    BY <2>1, <2>2, <2>3
<1>4. Nth(S, Count(S, i)) = CHOOSE j \in S : Count(S, j) = Count(S, i)
  BY DEF Nth, Count
<1> QED
  BY <1>1, <1>2, <1>3, <1>4

(* And there is one for every number up to the size of S. *)
LEMMA CountOfNth ==
    ASSUME NEW n \in Nat, NEW S \in SUBSET (1 .. n), NEW k \in 1 .. Cardinality(S)
    PROVE  Nth(S, k) \in S /\ Count(S, Nth(S, k)) = k
<1>0. \A x \in S : x \in Nat /\ 1 <= x /\ x <= n
  OBVIOUS
<1> DEFINE M == {i \in Nat : Count(S, i) >= k}
<1>1. Cardinality(S) \in Nat /\ \A i \in Nat : Count(S, i) \in Nat
  BY CountType
<1>2. n \in M
  BY <1>1, CountEnds
<1>3. PICK m \in M : \A i \in M : m <= i
  BY <1>2, LeastNumber
<1>4. m # 0
  BY <1>1, <1>3, CountEnds
<1> DEFINE l == m - 1
<1>5. l \in Nat /\ m = l + 1 /\ l \notin M
  BY <1>3, <1>4
<1>6. Count(S, l) < k /\ Count(S, m) >= k
  BY <1>1, <1>3, <1>5
<1>7. Count(S, m) = IF m \in S THEN Count(S, l) + 1 ELSE Count(S, l)
  <2> HIDE DEF l
  <2> QED
    BY <1>5, CountStep
<1>8. m \in S /\ Count(S, m) = k
  BY <1>1, <1>5, <1>6, <1>7
<1> QED
  BY <1>8, NthOfCount

(* What is picked. *)
LEMMA PickedFields ==
    ASSUME NEW n \in Nat, NEW S \in SUBSET (1 .. n), NEW s
    PROVE  /\ Len(Picked(s, S)) = Cardinality(S) /\ DOMAIN Picked(s, S) = 1 .. Cardinality(S)
           /\ \A i \in S : Picked(s, S)[Count(S, i)] = s[i]
<1>1. Cardinality(S) \in Nat
  BY CountType
<1>2. Len(Picked(s, S)) = Cardinality(S) /\ DOMAIN Picked(s, S) = 1 .. Cardinality(S)
  BY <1>1 DEF Picked
<1>3. ASSUME NEW i \in S PROVE Picked(s, S)[Count(S, i)] = s[i]
  BY NthOfCount DEF Picked
<1> QED
  BY <1>2, <1>3

-----------------------------------------------------------------------------
(* What the parsers return.                                                *)
LEMMA BodyType ==
    ASSUME NEW body \in Body
    PROVE  Len(body) \in Nat /\ DOMAIN body = 1 .. Len(body)
  BY DEF Body

LEMMA RequestType ==
    ASSUME NEW body, NEW r \in onvif_time_parse_set_request(body)
    PROVE  r.ntp_mode \in BOOLEAN /\ (r.has_tz => r.tz \notin DOMAIN Stump)
<1>1. r = RequestOf(Types(body), Zones(body), Dates(body))
  BY DEF onvif_time_parse_set_request
<1>2. r.ntp_mode \in BOOLEAN
  BY <1>1 DEF RequestOf
<1>3. r.has_tz => r.tz = Cut(TheOnly(Zones(body)).word)
  BY <1>1 DEF RequestOf
<1> QED
  BY <1>2, <1>3, TimeConfigAssumption DEF Cut

(* A list of servers is not longer than the host takes.                    *)
LEMMA ServersBehind ==
    ASSUME NEW body \in Body, NEW local
    PROVE  TextsBehind(body, local) \in
              Seq({TextAfter(body, i, Len(body) + 1) : i \in DOMAIN body})
<1> DEFINE text == [i \in DOMAIN body |-> TextAfter(body, i, Len(body) + 1)]
           S == {i \in DOMAIN body : /\ body[i].kind \in {"open", "close"} /\ body[i].name = local
                                     /\ text[i] # EmptyText /\ text[i].word \notin Oversized}
           T == {TextAfter(body, i, Len(body) + 1) : i \in DOMAIN body}
<1>1. Len(body) \in Nat /\ DOMAIN body = 1 .. Len(body)
  BY BodyType
<1>2. \A i \in DOMAIN body : text[i] \in T
  OBVIOUS
<1>3. S \in SUBSET (1 .. Len(body))
  BY <1>1
<1>4. TextsBehind(body, local) = Picked(text, S)
  BY DEF TextsBehind
<1> HIDE DEF S, text, T
<1>5. Cardinality(S) \in Nat /\ \A k \in 1 .. Cardinality(S) : text[Nth(S, k)] \in T
  BY <1>1, <1>2, <1>3, CountType, CountOfNth
<1>6. Picked(text, S) \in [1 .. Cardinality(S) -> T]
  BY <1>5 DEF Picked
<1> QED
  BY <1>4, <1>5, <1>6 DEF T

LEMMA NtpListType ==
    ASSUME NEW body \in Body
    PROVE  Len(onvif_time_parse_set_ntp(body)) <= ServerSlots
<1> DEFINE T == {TextAfter(body, i, Len(body) + 1) : i \in DOMAIN body}
           s == TextsBehind(body, "IPv4Address") \o TextsBehind(body, "IPv6Address")
<1>1. s \in Seq(T)
  BY ServersBehind
<1>2. onvif_time_parse_set_ntp(body) = FirstOf(s, ServerSlots)
  BY DEF onvif_time_parse_set_ntp
<1> HIDE DEF s, T
<1>3. Len(s) \in Nat /\ ServerSlots \in Nat
  BY <1>1, TimeConfigAssumption
<1> QED
  BY <1>1, <1>2, <1>3 DEF FirstOf

-----------------------------------------------------------------------------
(* The pieces of an answer.                                                *)
LEMMA ConfigFields ==
    ASSUME cfg \in Configs
    PROVE  /\ cfg.address \in Nat /\ cfg.scopes \in Seq(STRING) /\ cfg.ntp_active \in BOOLEAN
           /\ Len(cfg.scopes) \in Nat /\ DOMAIN cfg.scopes = 1 .. Len(cfg.scopes)
<1>1. cfg \in Config
  BY DeviceAssumption
<1>2. cfg.scopes \in Seq(STRING)
  BY <1>1 DEF Config
<1> QED
  BY <1>1, <1>2 DEF Config

LEMMA LengthType ==
    ASSUME cfg \in Configs, request.action \in Built, NEW piece \in Piece
    PROVE  Length(piece) \in Nat
<1> DEFINE addresses == CASE request.action \in {"GetCapabilities", "GetServices"} /\ piece = "head" -> 2
                          [] request.action \in {"GetCapabilities", "GetServices"} /\ piece = "middle" -> 1
                          [] request.action = "GetServices" /\ piece = "tail" -> 1
                          [] OTHER -> 0
<1>1. addresses \in 0 .. 2
  OBVIOUS
<1>2. Markup[request.action][piece] \in Nat /\ cfg.address \in Nat
  BY DeviceAssumption, ConfigFields
<1>3. Length(piece) = Markup[request.action][piece] + addresses * cfg.address
  BY DEF Length
<1> HIDE DEF addresses
<1> QED
  BY <1>1, <1>2, <1>3

(* The next space, or what is no space, or the end.                        *)
LEMMA BreakIsNext ==
    ASSUME cfg \in Configs, NEW i \in Nat, 1 <= i, i <= Len(cfg.scopes) + 1, NEW space \in BOOLEAN
    PROVE  LET e == NextBreak(i, space)
               n == Len(cfg.scopes)
           IN  /\ e \in Nat /\ i <= e /\ e <= n + 1
               /\ e <= n => (cfg.scopes[e] = " ") = space
               /\ \A j \in Nat : i <= j /\ j < e => ~((cfg.scopes[j] = " ") = space)
<1> DEFINE n == Len(cfg.scopes)
           Found(j) == (cfg.scopes[j] = " ") = space
           B == {j \in i .. n : Found(j)}
           e == NextBreak(i, space)
<1>1. n \in Nat
  BY ConfigFields
<1>2. e = IF B = {} THEN n + 1 ELSE Min(B)
  BY DEF NextBreak
<1> HIDE DEF Found, e
<1>3. ASSUME NEW j \in Nat, i <= j, j <= n, j \notin B PROVE ~Found(j)
  BY <1>3
<1>4. B \in SUBSET Nat /\ \A j \in B : j \in Nat /\ i <= j /\ j <= n /\ Found(j)
  BY <1>1
<1> HIDE DEF B, n
<1>5. CASE B = {}
  <2>1. e = n + 1
    BY <1>2, <1>5
  <2>2. ASSUME NEW j \in Nat, i <= j, j < e PROVE ~Found(j)
    <3>1. j <= n /\ j \notin B
      BY <1>1, <1>5, <2>1, <2>2
    <3> QED
      BY <1>3, <2>2, <3>1
  <2>3. e \in Nat /\ i <= e /\ e <= n + 1 /\ ~(e <= n)
    BY <1>1, <2>1 DEF n
  <2> QED
    BY <2>2, <2>3 DEF e, n, Found
<1>6. CASE B # {}
  <2>1. e \in B /\ \A j \in B : e <= j
    BY <1>2, <1>4, <1>6, Smallest
  <2>2. e \in Nat /\ i <= e /\ e <= n /\ Found(e)
    BY <1>4, <2>1
  <2>3. ASSUME NEW j \in Nat, i <= j, j < e PROVE ~Found(j)
    <3>1. j <= n /\ j \notin B
      BY <1>1, <2>1, <2>2, <2>3
    <3> QED
      BY <1>3, <2>3, <3>1
  <2>4. e <= n + 1
    BY <1>1, <2>2
  <2> QED
    BY <2>2, <2>3, <2>4 DEF e, n, Found
<1> QED
  BY <1>5, <1>6

-----------------------------------------------------------------------------
(* Types. The clock's are in DInv.                                         *)
Building == {"head", "middle", "scopes", "tail", "built", "fault"}

Doing ==
    /\ pc \in Building => request.action \in Built
    /\ pc \in Setters => request \in Requests /\ request.action = pc

HostInv ==
    /\ ntp \in BOOLEAN /\ (zone = BootZone \/ zone \notin DOMAIN Stump)
    /\ Len(servers) <= ServerSlots /\ ticks \in 0 .. MaxTicks

TInv == HostInv /\ HttpdType /\ tm \in Civil /\ shown \in Civil /\ Doing

LEMMA TInvInit == Init => TInv
<1> SUFFICES ASSUME Init PROVE TInv
  OBVIOUS
<1>1. HostInv
  <2>1. servers = << >> /\ Len(<< >>) = 0 /\ ticks = 0 /\ zone = BootZone /\ ntp = FALSE
    BY DEF Init
  <2>2. ServerSlots \in Nat /\ MaxTicks \in Nat
    BY DeviceAssumption, TimeConfigAssumption
  <2>3. Len(servers) <= ServerSlots /\ ticks \in 0 .. MaxTicks
    BY <2>1, <2>2
  <2> QED
    BY <2>1, <2>3 DEF HostInv
<1>2. Boot \in Civil
  BY DEF Boot, Civil
<1>3. HttpdType
  <2>1. cfg \in Configs /\ p = 1 /\ off = 0
    BY DEF Init
  <2>2. p \in 1 .. Len(cfg.scopes) + 1 /\ off \in Nat
    BY <2>1, ConfigFields
  <2> QED
    BY <2>1, <2>2 DEF Init, HttpdType, NoAnswer
<1>4. Doing
  BY DEF Init, Doing, Building, Setters
<1> QED
  BY <1>1, <1>2, <1>3, <1>4 DEF Init, TInv

LEMMA HostStep == TInv /\ [Next]_vars => HostInv'
<1> SUFFICES ASSUME TInv, [Next]_vars PROVE HostInv'
  OBVIOUS
<1>1. CASE UNCHANGED <<ntp, zone, servers, ticks>>
  BY <1>1 DEF TInv, HostInv
<1>2. CASE handle_set_system_date_and_time
  <2> DEFINE parsed == onvif_time_parse_set_request(request.body)
  <2>1. ticks' = ticks
    BY <1>2 DEF handle_set_system_date_and_time
  <2>2. CASE UNCHANGED hostVars
    BY <1>1, <2>1, <2>2 DEF hostVars
  <2>3. CASE parsed # {} /\ \A r \in parsed : time_apply(r)
    <3>1. PICK r \in parsed : time_apply(r)
      BY <2>3
    <3>2. r.ntp_mode \in BOOLEAN /\ (r.has_tz => r.tz \notin DOMAIN Stump)
      BY RequestType
    <3> QED
      BY <2>1, <3>1, <3>2 DEF time_apply, TInv, HostInv
  <2> QED
    BY <1>2, <2>2, <2>3 DEF handle_set_system_date_and_time
<1>3. CASE handle_set_ntp
  <2> DEFINE list == onvif_time_parse_set_ntp(request.body)
  <2>1. request \in Requests /\ request.action \in Setters
    BY <1>3 DEF handle_set_ntp, TInv, Doing, Setters
  <2>2. Len(list) <= ServerSlots
    BY <2>1, DeviceAssumption, NtpListType
  <2>3. ticks' = ticks
    BY <1>3 DEF handle_set_ntp
  <2> QED
    BY <1>1, <1>3, <2>2, <2>3 DEF handle_set_ntp, hostVars, TInv, HostInv
<1>4. CASE Tick
  BY <1>4, DeviceAssumption DEF Tick, TInv, HostInv
<1>5. CASE \E c \in SyncDates : Synchronise(c)
  BY <1>1, <1>5 DEF Synchronise
<1>6. CASE UNCHANGED vars
  BY <1>1, <1>6 DEF vars, hostVars
<1>7. ASSUME NEW r \in Requests, Dispatch(r)
      PROVE  HostInv'
  BY <1>1, <1>7 DEF Dispatch, HttpdOnly, hostVars
<1>8. CASE NoMemory \/ ReadClock \/ ReadMode \/ AnswerDate \/ AnswerVerdict
  BY <1>1, <1>8 DEF NoMemory, ReadClock, ReadMode, AnswerDate, AnswerVerdict, HttpdOnly, hostVars
<1>9. CASE WriteHead \/ WriteMiddle \/ WriteScope \/ WriteTail \/ SendBuilt \/ send_fault \/ Finish
  BY <1>1, <1>9
     DEF WriteHead, WriteMiddle, WriteScope, WriteTail, SendBuilt, send_fault, Finish, HttpdOnly,
         hostVars
<1> QED
  BY <1>2, <1>3, <1>4, <1>5, <1>6, <1>7, <1>8, <1>9 DEF Next, Httpd, Host

(* The rest of the types, and what is being done.                          *)
TaskType == HttpdType /\ tm \in Civil /\ shown \in Civil /\ Doing

LEMMA TaskTypeStep == DInv /\ TInv /\ [Next]_vars => TaskType'
<1> SUFFICES ASSUME DInv, TInv, [Next]_vars PROVE TaskType'
  OBVIOUS
<1>1. TaskType
  BY DEF TInv, TaskType
<1>0. cfg \in Configs /\ off \in Nat /\ p \in 1 .. Len(cfg.scopes) + 1
  BY <1>1 DEF TaskType, HttpdType
<1> USE DEF TaskType, HttpdType, Doing, Building, Setters, readVars, builderVars, HttpdOnly
<1>2. ASSUME NEW r \in Requests, Dispatch(r)
      PROVE  TaskType'
  <2>1. r.action \in Actions
    BY DeviceAssumption
  <2>2. \/ pc' = "clock"
        \/ pc' = "head" /\ r.action \in Built
        \/ pc' \in Setters /\ r.action = pc'
    BY <1>2, <2>1 DEF Dispatch, Actions
  <2>3. HttpdType' /\ tm' \in Civil /\ shown' \in Civil
    BY <1>1, <1>2, <2>2 DEF Dispatch
  <2>4. Doing'
    BY <1>2, <2>2 DEF Dispatch
  <2> QED
    BY <2>3, <2>4
<1>3. CASE NoMemory
  BY <1>1, <1>3 DEF NoMemory, Reply
<1>4. CASE ReadClock
  <2>1. expected \in Civil /\ tm' = expected /\ shown' = expected
    BY <1>4, RoundTrip DEF ReadClock, DInv, ClockInv, Shows
  <2> QED
    BY <1>1, <1>4, <2>1 DEF ReadClock
<1>5. CASE ReadMode
  <2>1. ntp_active' \in BOOLEAN
    BY <1>5 DEF ReadMode
  <2> QED
    BY <1>1, <1>5, <2>1 DEF ReadMode
<1>6. CASE AnswerDate
  BY <1>1, <1>6 DEF AnswerDate, Reply, onvif_xml_system_date_and_time
<1>7. CASE handle_set_system_date_and_time
  <2>1. PICK kind \in {"ack", "invalid", "not supported"} : Verdict(kind)
    BY <1>7 DEF handle_set_system_date_and_time
  <2>2. UNCHANGED <<cfg, request, readVars, builderVars>>
    BY <1>7 DEF handle_set_system_date_and_time
  <2> QED
    BY <1>1, <2>1, <2>2 DEF Verdict
<1>8. CASE handle_set_ntp
  <2>1. PICK kind \in {"ack", "invalid", "not supported"} : Verdict(kind)
    BY <1>8 DEF handle_set_ntp
  <2>2. UNCHANGED <<cfg, request, readVars, builderVars>>
    BY <1>8 DEF handle_set_ntp
  <2> QED
    BY <1>1, <2>1, <2>2 DEF Verdict
<1>9. CASE AnswerVerdict
  BY <1>1, <1>9 DEF AnswerVerdict
<1>10. CASE WriteHead
  <2>1. AfterHead \in {"scopes", "middle", "tail"}
    BY DEF AfterHead
  <2>2. Length("head") \in Nat
    BY <1>1, <1>10, LengthType DEF WriteHead, Piece
  <2>3. off' \in Nat /\ pc' \in {"scopes", "middle", "tail", "built"}
    BY ONLY <1>0, <1>10, <2>1, <2>2 DEF WriteHead, Write, Unless
  <2> QED
    BY <1>1, <1>10, <2>3 DEF WriteHead
<1>11. CASE WriteMiddle
  <2>1. Length("middle") \in Nat
    BY <1>1, <1>11, LengthType DEF WriteMiddle, Piece
  <2>2. off' \in Nat /\ pc' \in {"tail", "built"}
    BY ONLY <1>0, <1>11, <2>1 DEF WriteMiddle, Write, Unless
  <2> QED
    BY <1>1, <1>11, <2>2 DEF WriteMiddle
<1>12. CASE WriteScope
  <2> DEFINE from == SkipSpaces(p)
             end == NextBreak(from, TRUE)
  <2>1. Length("middle") \in Nat /\ Len(cfg.scopes) \in Nat
    BY <1>1, <1>12, LengthType, ConfigFields DEF WriteScope, Piece
  <2>2. p \in Nat /\ 1 <= p /\ p <= Len(cfg.scopes) + 1
    BY ONLY <1>0, <2>1
  <2>3. from \in Nat /\ p <= from /\ from <= Len(cfg.scopes) + 1
    BY <1>1, <2>2, BreakIsNext DEF SkipSpaces
  <2>4. 1 <= from
    BY <2>2, <2>3
  <2> HIDE DEF from
  <2>5. end \in Nat /\ from <= end /\ end <= Len(cfg.scopes) + 1
    BY <1>1, <2>3, <2>4, BreakIsNext
  <2> HIDE DEF end
  <2>6. /\ UNCHANGED <<cfg, request, readVars, answer>>
        /\ \/ pc' = "tail" /\ UNCHANGED builderVars
           \/ /\ off' = off + (Length("middle") + end - from)
              /\ pc' \in {"scopes", "built"} /\ p' = end
    BY <1>12 DEF WriteScope, Write, Unless, from, end
  <2>7. off' \in Nat /\ p' \in 1 .. Len(cfg.scopes) + 1 /\ pc' \in {"tail", "scopes", "built"}
    <3>1. off + (Length("middle") + end - from) \in Nat
      BY ONLY <1>0, <2>1, <2>3, <2>4, <2>5
    <3>2. end \in 1 .. Len(cfg.scopes) + 1
      BY ONLY <2>1, <2>3, <2>4, <2>5
    <3> QED
      BY <1>0, <2>6, <3>1, <3>2
  <2>8. pc = "scopes"
    BY <1>12 DEF WriteScope
  <2> QED
    BY <1>1, <2>6, <2>7, <2>8
<1>13. CASE WriteTail
  <2>1. Length("tail") \in Nat
    BY <1>1, <1>13, LengthType DEF WriteTail, Piece
  <2>2. off' \in Nat
    BY ONLY <1>0, <1>13, <2>1 DEF WriteTail
  <2> QED
    BY <1>1, <1>13, <2>2 DEF WriteTail
<1>14. CASE SendBuilt
  <2>1. /\ pc' \in {"done", "fault"} /\ answer'.kind \in {"data", answer.kind}
        /\ UNCHANGED <<cfg, request, readVars, builderVars>> /\ pc = "built"
    BY <1>14 DEF SendBuilt, Reply
  <2> QED
    BY <1>1, <2>1
<1>15. CASE send_fault
  BY <1>1, <1>15 DEF send_fault, Reply
<1>16. CASE Finish
  <2>1. p' \in 1 .. Len(cfg.scopes) + 1 /\ off' \in Nat
    <3>1. p' = 1 /\ off' = 0 /\ Len(cfg.scopes) \in Nat
      BY <1>0, <1>16, ConfigFields DEF Finish
    <3> QED
      BY ONLY <3>1
  <2>2. Boot \in Civil
    BY DEF Boot, Civil
  <2> QED
    BY <1>1, <1>16, <2>1, <2>2 DEF Finish, NoAnswer
<1>17. CASE Host
  BY <1>1, <1>17 DEF Host, Tick, Synchronise, HostOnly
<1>18. CASE UNCHANGED vars
  BY <1>1, <1>18 DEF vars
<1> QED
  BY <1>2, <1>3, <1>4, <1>5, <1>6, <1>7, <1>8, <1>9, <1>10, <1>11, <1>12, <1>13, <1>14, <1>15,
     <1>16, <1>17, <1>18 DEF Next, Httpd

LEMMA TInvAlways == Spec => [](DInv /\ TInv)
<1>1. DInv /\ TInv /\ [Next]_vars => TInv'
  BY HostStep, TaskTypeStep DEF TInv, TaskType
<1> QED
  BY <1>1, TInvInit, DInvAlways, PTL DEF Spec

(* Types; in particular the lists handed to the host and the zones fit     *)
(* where the code puts them.                                               *)
THEOREM DeviceTypeCorrect == Spec => []TypeOK
<1>1. ASSUME DInv, TInv PROVE TypeOK
  <2>1. expected \in Civil /\ clock = CivilEpoch(expected)
    BY <1>1 DEF DInv, ClockInv, Shows
  <2>2. clock \in Epoch
    <3> DEFINE day == days_from_civil(expected.year, expected.month, expected.day)
               secs == expected.hour * 3600 + expected.minute * 60 + expected.second
    <3>1. secs \in Int /\ secs >= 0 /\ secs <= 86399 /\ clock = [day |-> day, sec |-> secs]
      BY <2>1, EpochOfDate
    <3>2. day \in Int
      BY <2>1, DayType
    <3> HIDE DEF day, secs
    <3>3. secs <= SecondsPerDay - 1 /\ SecondsPerDay \in Int
      BY ONLY <3>1 DEF SecondsPerDay
    <3>4. secs \in 0 .. SecondsPerDay - 1
      BY ONLY <3>1, <3>3
    <3> QED
      BY ONLY <3>1, <3>2, <3>4 DEF Epoch
  <2> QED
    BY <1>1, <2>1, <2>2 DEF TInv, HostInv, TypeOK, HostType
<1> QED
  BY <1>1, TInvAlways, PTL

LEMMA CountOfNone ==
    ASSUME NEW S, NEW a \in Int, NEW b \in Int, a <= b,
           \A x \in S : x \in Int /\ ~(a < x /\ x <= b)
    PROVE  Count(S, a) = Count(S, b)
<1>1. \A x \in S : x <= a <=> x <= b
  OBVIOUS
<1>2. {x \in S : x <= a} = {x \in S : x <= b}
  BY <1>1
<1> QED
  BY <1>2 DEF Count

LEMMA CountOfAll ==
    ASSUME NEW n \in Nat, NEW S \in SUBSET (1 .. n), NEW a \in Nat, NEW b \in Nat, a <= b,
           a + 1 .. b \subseteq S
    PROVE  Count(S, b) = Count(S, a) + (b - a)
<1> DEFINE A == {x \in S : x <= a}
           I == a + 1 .. b
<1>1. \A x \in S : x \in Nat /\ (x <= b <=> x <= a \/ x \in I)
  OBVIOUS
<1>2. {x \in S : x <= b} = A \cup I
  BY <1>1
<1>3. A \cap I = {}
  <2>1. \A x \in A : x \in Nat /\ x <= a
    BY <1>1
  <2> HIDE DEF A
  <2> QED
    BY <2>1
<1>4. IsFiniteSet(A) /\ Cardinality(A) \in Nat /\ Cardinality(A) = Count(S, a)
  BY CountType DEF Count
<1>5. IsFiniteSet(I) /\ Cardinality(I) = b - a
  <2> DEFINE lo == a + 1
  <2>1. lo \in Int /\ b \in Int /\ (lo > b => b - a = 0) /\ b - lo + 1 = b - a
    OBVIOUS
  <2> HIDE DEF lo
  <2>2. IsFiniteSet(lo .. b) /\ Cardinality(lo .. b) = IF lo > b THEN 0 ELSE b - lo + 1
    BY <2>1, FS_Interval
  <2> QED
    BY <2>1, <2>2 DEF lo
<1> HIDE DEF A, I
<1>6. Cardinality(A \cap I) = 0
  BY <1>3, FS_EmptySet
<1>7. Cardinality(A \cup I) = Cardinality(A) + Cardinality(I) - Cardinality(A \cap I)
  BY <1>4, <1>5, FS_Union
<1>8. Count(S, b) = Cardinality(A \cup I)
  BY <1>2 DEF Count
<1> QED
  BY <1>4, <1>5, <1>6, <1>7, <1>8

(* A function's first values, and one more.                                *)
Prefix(f, c) == [k \in 1 .. c |-> f[k]]

LEMMA PrefixGrows ==
    ASSUME NEW f, NEW c \in Nat
    PROVE  Append(Prefix(f, c), f[c + 1]) = Prefix(f, c + 1)
<1> DEFINE T == {f[k] : k \in 1 .. c + 1}
           s == Prefix(f, c)
           t == Prefix(f, c + 1)
<1>1. s \in Seq(T) /\ Len(s) = c /\ t \in Seq(T) /\ Len(t) = c + 1
  BY DEF Prefix
<1>2. Append(s, f[c + 1]) \in Seq(T) /\ Len(Append(s, f[c + 1])) = c + 1
  BY <1>1
<1>3. \A k \in 1 .. c + 1 : t[k] = f[k] /\ Append(s, f[c + 1])[k] = f[k]
  BY <1>1 DEF Prefix
<1> QED
  BY <1>1, <1>2, <1>3

-----------------------------------------------------------------------------
(* A place where the loop over the scopes may stand, and the word it finds *)
(* there.                                                                  *)
AtBreak(i) == i \in 1 .. Len(cfg.scopes) + 1 /\ (i = 1 \/ i \notin Letters(cfg.scopes))

LEMMA LetterSets ==
    ASSUME cfg \in Configs
    PROVE  /\ Len(cfg.scopes) \in Nat
           /\ Letters(cfg.scopes) \in SUBSET (1 .. Len(cfg.scopes))
           /\ Starts(cfg.scopes) \in SUBSET (1 .. Len(cfg.scopes))
           /\ \A i \in Nat : i \in Letters(cfg.scopes)
                 <=> 1 <= i /\ i <= Len(cfg.scopes) /\ cfg.scopes[i] # " "
<1> DEFINE s == cfg.scopes
           n == Len(s)
<1>1. n \in Nat /\ DOMAIN s = 1 .. n
  BY ConfigFields
<1> HIDE DEF s, n
<1>2. /\ Letters(s) \in SUBSET (1 .. n) /\ Starts(s) \in SUBSET (1 .. n)
      /\ \A i \in Nat : i \in Letters(s) <=> 1 <= i /\ i <= n /\ s[i] # " "
  <2>1. Letters(s) = {i \in 1 .. n : s[i] # " "}
    BY <1>1 DEF Letters
  <2>2. Letters(s) \in SUBSET (1 .. n)
    BY <2>1
  <2>3. Starts(s) \in SUBSET Letters(s)
    BY DEF Starts
  <2>4. ASSUME NEW i \in Nat PROVE i \in 1 .. n <=> 1 <= i /\ i <= n
    BY <1>1
  <2> QED
    BY <2>1, <2>2, <2>3, <2>4
<1> QED
  BY <1>1, <1>2 DEF s, n

LEMMA SpacesSkipped ==
    ASSUME cfg \in Configs, NEW i \in 1 .. Len(cfg.scopes) + 1
    PROVE  LET from == SkipSpaces(i)
           IN  /\ from \in Nat /\ i <= from /\ from <= Len(cfg.scopes) + 1
               /\ from <= Len(cfg.scopes) => from \in Letters(cfg.scopes)
               /\ \A j \in Nat : i <= j /\ j < from => j \notin Letters(cfg.scopes)
<1>1. i \in Nat /\ 1 <= i /\ i <= Len(cfg.scopes) + 1 /\ Len(cfg.scopes) \in Nat
  BY ConfigFields
<1> DEFINE from == NextBreak(i, FALSE)
<1>2. /\ from \in Nat /\ i <= from /\ from <= Len(cfg.scopes) + 1
      /\ from <= Len(cfg.scopes) => (cfg.scopes[from] = " ") = FALSE
      /\ \A j \in Nat : i <= j /\ j < from => ~((cfg.scopes[j] = " ") = FALSE)
  BY <1>1, BreakIsNext
<1>3. SkipSpaces(i) = from
  BY DEF SkipSpaces
<1> HIDE DEF from
<1>4. ASSUME from <= Len(cfg.scopes) PROVE from \in Letters(cfg.scopes)
  <2>1. from \in Nat /\ 1 <= from
    <3>1. from \in Nat /\ i <= from
      BY <1>2
    <3>2. i \in Nat /\ 1 <= i
      BY <1>1
    <3> QED
      BY ONLY <3>1, <3>2
  <2>2. cfg.scopes[from] = " " <=> FALSE
    BY <1>2, <1>4
  <2> QED
    BY <1>4, <2>1, <2>2, LetterSets
<1>5. ASSUME NEW j \in Nat, i <= j, j < from PROVE j \notin Letters(cfg.scopes)
  <2>1. ~(cfg.scopes[j] = " " <=> FALSE)
    BY <1>2, <1>5
  <2> QED
    BY <2>1, LetterSets
<1> QED
  BY <1>2, <1>3, <1>4, <1>5

LEMMA WordSpanned ==
    ASSUME cfg \in Configs, NEW i \in 1 .. Len(cfg.scopes) + 1
    PROVE  LET end == NextBreak(i, TRUE)
           IN  /\ end \in Nat /\ i <= end /\ end <= Len(cfg.scopes) + 1
               /\ end \notin Letters(cfg.scopes)
               /\ \A j \in Nat : i <= j /\ j < end => j \in Letters(cfg.scopes)
<1>1. i \in Nat /\ 1 <= i /\ i <= Len(cfg.scopes) + 1 /\ Len(cfg.scopes) \in Nat
  BY ConfigFields
<1> DEFINE end == NextBreak(i, TRUE)
<1>2. /\ end \in Nat /\ i <= end /\ end <= Len(cfg.scopes) + 1
      /\ end <= Len(cfg.scopes) => (cfg.scopes[end] = " ") = TRUE
      /\ \A j \in Nat : i <= j /\ j < end => ~((cfg.scopes[j] = " ") = TRUE)
  BY <1>1, BreakIsNext
<1> HIDE DEF end
<1>3. end \notin Letters(cfg.scopes)
  BY <1>2, LetterSets
<1>4. ASSUME NEW j \in Nat, i <= j, j < end PROVE j \in Letters(cfg.scopes)
  <2> DEFINE n == Len(cfg.scopes)
  <2>1. n \in Nat /\ 1 <= i /\ end <= n + 1 /\ end \in Nat
    BY <1>1, <1>2
  <2> HIDE DEF n
  <2>2. 1 <= j /\ j <= n
    BY <1>4, <2>1
  <2>3. cfg.scopes[j] = " " <=> FALSE
    BY <1>2, <1>4
  <2> QED
    BY <2>2, <2>3, LetterSets DEF n
<1> QED
  BY <1>2, <1>3, <1>4 DEF end

LEMMA NoWordLeft ==
    ASSUME cfg \in Configs, NEW i \in 1 .. Len(cfg.scopes) + 1,
           SkipSpaces(i) = NextBreak(SkipSpaces(i), TRUE)
    PROVE  /\ Count(Starts(cfg.scopes), i - 1) = Cardinality(Starts(cfg.scopes))
           /\ Count(Letters(cfg.scopes), i - 1) = Cardinality(Letters(cfg.scopes))
<1> DEFINE from == SkipSpaces(i)
           n == Len(cfg.scopes)
           L == Letters(cfg.scopes)
           S == Starts(cfg.scopes)
<1>1. n \in Nat /\ L \in SUBSET (1 .. n) /\ S \in SUBSET (1 .. n) /\ S \subseteq L
  BY LetterSets DEF Starts
<1>2. /\ from \in Nat /\ i <= from /\ from <= n + 1 /\ (from <= n => from \in L)
      /\ \A j \in Nat : i <= j /\ j < from => j \notin L
  BY SpacesSkipped
<1>3. from \in 1 .. n + 1 /\ i \in Nat /\ 1 <= i
  BY <1>1, <1>2
<1>4. from \notin L
  BY <1>3, WordSpanned
<1> HIDE DEF from, n, L, S
<1>5. from = n + 1
  BY <1>1, <1>2, <1>4
<1>6. \A x \in L : x \in Int /\ ~(i - 1 < x /\ x <= n)
  BY <1>1, <1>2, <1>3, <1>5
<1>7. i - 1 \in Int /\ n \in Int /\ i - 1 <= n
  BY <1>1, <1>2, <1>3, <1>5
<1>8. Count(L, i - 1) = Count(L, n) /\ Count(S, i - 1) = Count(S, n)
  BY <1>1, <1>6, <1>7, CountOfNone
<1>9. Count(L, n) = Cardinality(L) /\ Count(S, n) = Cardinality(S)
  <2>1. n >= n
    BY <1>1
  <2> QED
    BY <1>1, <2>1, CountEnds
<1> QED
  BY <1>8, <1>9 DEF L, S

LEMMA OneWordMore ==
    ASSUME cfg \in Configs, NEW i, AtBreak(i)
    PROVE  LET from == SkipSpaces(i)
               end == NextBreak(from, TRUE)
           IN  from # end =>
               /\ from \in Starts(cfg.scopes) /\ AtBreak(end)
               /\ Count(Starts(cfg.scopes), from) = Count(Starts(cfg.scopes), i - 1) + 1
               /\ Count(Starts(cfg.scopes), end - 1) = Count(Starts(cfg.scopes), from)
               /\ Count(Letters(cfg.scopes), end - 1) =
                     Count(Letters(cfg.scopes), i - 1) + (end - from)
               /\ WordEnd(cfg.scopes, from) = end - 1
<1> DEFINE from == SkipSpaces(i)
           end == NextBreak(from, TRUE)
           n == Len(cfg.scopes)
           L == Letters(cfg.scopes)
           S == Starts(cfg.scopes)
<1> SUFFICES ASSUME from # end
             PROVE  /\ from \in S /\ AtBreak(end)
                    /\ Count(S, from) = Count(S, i - 1) + 1
                    /\ Count(S, end - 1) = Count(S, from)
                    /\ Count(L, end - 1) = Count(L, i - 1) + (end - from)
                    /\ WordEnd(cfg.scopes, from) = end - 1
  OBVIOUS
<1>1. n \in Nat /\ L \in SUBSET (1 .. n) /\ S \in SUBSET (1 .. n) /\ S \subseteq L
  BY LetterSets DEF Starts
<1>2. i \in 1 .. n + 1 /\ i \in Nat /\ 1 <= i /\ (i = 1 \/ i \notin L)
  BY <1>1 DEF AtBreak
<1>3. /\ from \in Nat /\ i <= from /\ from <= n + 1 /\ (from <= n => from \in L)
      /\ \A j \in Nat : i <= j /\ j < from => j \notin L
  BY <1>2, SpacesSkipped
<1>4. from \in 1 .. n + 1
  BY <1>1, <1>2, <1>3
<1>5. /\ end \in Nat /\ from <= end /\ end <= n + 1 /\ end \notin L
      /\ \A j \in Nat : from <= j /\ j < end => j \in L
  <2> HIDE DEF from
  <2> QED
    BY <1>4, WordSpanned
<1>6. \A x \in Nat : x \in S <=> x \in L /\ (x = 1 \/ x - 1 \notin L)
  <2>1. ASSUME NEW x \in Nat, x \in L, x # 1 PROVE x - 1 \notin L <=> cfg.scopes[x - 1] = " "
    <3>1. x - 1 \in Nat /\ 1 <= x - 1 /\ x - 1 <= n
      BY <1>1, <2>1
    <3> QED
      BY <3>1, LetterSets
  <2> QED
    BY <2>1 DEF Starts
<1>7. WordEnd(cfg.scopes, from) =
        CHOOSE j \in from .. n : from .. j \subseteq L /\ j + 1 \notin L
  BY DEF WordEnd
<1>8. AtBreak(end) <=> end \in 1 .. n + 1 /\ (end = 1 \/ end \notin L)
  BY DEF AtBreak
<1> HIDE DEF from, end, n, L, S
<1>9. from < end /\ from <= n /\ from \in L
  BY <1>1, <1>3, <1>5
<1>10. from \in S
  <2>1. CASE from = i
    BY <1>2, <1>6, <1>9, <2>1
  <2>2. CASE from # i
    <3>1. from - 1 \in Nat /\ i <= from - 1 /\ from - 1 < from
      BY <1>2, <1>3, <2>2
    <3> QED
      BY <1>3, <1>6, <1>9, <3>1
  <2> QED
    BY <2>1, <2>2
<1>11. AtBreak(end)
  BY <1>1, <1>4, <1>5, <1>8
<1>12. \A x \in L : x \in Int /\ ~(i - 1 < x /\ x <= from - 1)
  BY <1>1, <1>2, <1>3
<1>13. Count(L, i - 1) = Count(L, from - 1) /\ Count(S, i - 1) = Count(S, from - 1)
  <2>1. i - 1 \in Int /\ from - 1 \in Int /\ i - 1 <= from - 1
    BY <1>2, <1>3
  <2> QED
    BY <1>1, <1>12, <2>1, CountOfNone
<1>14. Count(S, from) = Count(S, from - 1) + 1
  <2> DEFINE before == from - 1
  <2>1. before \in Nat /\ before + 1 = from
    BY <1>2, <1>3
  <2> HIDE DEF before
  <2>2. Count(S, before + 1) = Count(S, before) + 1
    BY <1>1, <1>10, <2>1, CountStep
  <2> QED
    BY <2>1, <2>2 DEF before
<1>15. Count(S, end - 1) = Count(S, from)
  <2>1. ASSUME NEW x \in S PROVE x \in Int /\ ~(from < x /\ x <= end - 1)
    <3>1. x \in Nat /\ 1 <= x
      BY <1>1
    <3> SUFFICES ASSUME from < x, x <= end - 1 PROVE FALSE
      BY <3>1
    <3>2. x - 1 \in Nat /\ from <= x - 1 /\ x - 1 < end /\ x # 1
      BY <1>2, <1>3, <1>5, <3>1
    <3>3. x - 1 \in L
      BY <1>5, <3>2
    <3> QED
      BY <1>6, <3>1, <3>2, <3>3
  <2>2. from \in Int /\ end - 1 \in Int /\ from <= end - 1
    BY <1>3, <1>5, <1>9
  <2> QED
    BY <2>1, <2>2, CountOfNone
<1>16. Count(L, end - 1) = Count(L, from - 1) + (end - from)
  <2> DEFINE a == from - 1
             b == end - 1
  <2>1. a \in Nat /\ b \in Nat /\ a <= b /\ b - a = end - from
    BY <1>2, <1>3, <1>5, <1>9
  <2>2. a + 1 .. b \subseteq L
    BY <1>3, <1>5
  <2> HIDE DEF a, b
  <2>3. Count(L, b) = Count(L, a) + (b - a)
    BY <1>1, <2>1, <2>2, CountOfAll
  <2> QED
    BY <2>1, <2>3 DEF a, b
<1>17. WordEnd(cfg.scopes, from) = end - 1
  <2> DEFINE Fits2(j) == from .. j \subseteq L /\ j + 1 \notin L
  <2>1. end - 1 \in from .. n /\ Fits2(end - 1)
    BY <1>1, <1>3, <1>5, <1>9
  <2>2. ASSUME NEW j \in from .. n, Fits2(j) PROVE j = end - 1
    <3>1. j \in Nat /\ from <= j /\ j <= n
      BY <1>1, <1>3
    <3>2. ~(j < end - 1)
      <4>1. j < end - 1 => j + 1 \in Nat /\ from <= j + 1 /\ j + 1 < end
        BY <1>3, <1>5, <3>1
      <4> QED
        BY <1>5, <2>2, <4>1
    <3>3. ~(j > end - 1)
      <4>1. j > end - 1 => end \in from .. j
        BY <1>3, <1>5, <3>1
      <4> QED
        BY <1>5, <2>2, <4>1
    <3> QED
      BY <1>5, <3>1, <3>2, <3>3
  <2> HIDE DEF Fits2
  <2>3. (CHOOSE j \in from .. n : Fits2(j)) = end - 1
    BY <2>1, <2>2
  <2> QED
    BY <1>7, <2>3 DEF Fits2
<1> QED
  BY <1>10, <1>11, <1>13, <1>14, <1>15, <1>16, <1>17

LEMMA PrefixEnds ==
    ASSUME NEW n \in Nat, NEW S \in SUBSET (1 .. n), NEW s
    PROVE  /\ Prefix(Picked(s, S), 0) = << >>
           /\ Prefix(Picked(s, S), Cardinality(S)) = Picked(s, S)
<1>1. Cardinality(S) \in Nat
  BY CountType
<1>2. Prefix(Picked(s, S), Cardinality(S)) = Picked(s, S)
  BY <1>1 DEF Prefix, Picked
<1> QED
  BY <1>2 DEF Prefix

(* The word that is found at a break is the next one of the list.          *)
LEMMA NextWord ==
    ASSUME cfg \in Configs, NEW i, AtBreak(i), SkipSpaces(i) # NextBreak(SkipSpaces(i), TRUE)
    PROVE  LET from == SkipSpaces(i)
               end == NextBreak(from, TRUE)
               words == Words(cfg.scopes)
               before == Count(Starts(cfg.scopes), i - 1)
           IN  /\ before \in Nat /\ Count(Starts(cfg.scopes), end - 1) = before + 1
               /\ Append(Prefix(words, before), SubSeq(cfg.scopes, from, end - 1)) =
                     Prefix(words, before + 1)
<1> DEFINE from == SkipSpaces(i)
           end == NextBreak(from, TRUE)
           S == Starts(cfg.scopes)
           before == Count(S, i - 1)
           word == [j \in DOMAIN cfg.scopes |-> SubSeq(cfg.scopes, j, WordEnd(cfg.scopes, j))]
           words == Picked(word, S)
           n == Len(cfg.scopes)
<1>1. /\ from \in S /\ Count(S, from) = before + 1 /\ Count(S, end - 1) = Count(S, from)
      /\ WordEnd(cfg.scopes, from) = end - 1
  BY OneWordMore
<1>2. n \in Nat /\ S \in SUBSET (1 .. n) /\ DOMAIN cfg.scopes = 1 .. n
  BY LetterSets, ConfigFields
<1>3. Words(cfg.scopes) = words
  BY DEF Words
<1>4. word[from] = SubSeq(cfg.scopes, from, end - 1)
  <2> HIDE DEF S, from, n, end
  <2> QED
    BY <1>1, <1>2
<1> HIDE DEF word, n, S, from, end
<1>5. before \in Nat
  BY <1>2, CountType
<1>6. words[before + 1] = word[from]
  <2>1. words[Count(S, from)] = word[from]
    BY <1>1, <1>2, PickedFields
  <2> HIDE DEF words, before
  <2> QED
    BY <1>1, <2>1
<1> HIDE DEF words, before
<1>7. Append(Prefix(words, before), words[before + 1]) = Prefix(words, before + 1)
  BY <1>5, PrefixGrows
<1> QED
  BY <1>1, <1>3, <1>4, <1>5, <1>6, <1>7 DEF before, S, from, end

-----------------------------------------------------------------------------
(* What the builder has written at each point: its bytes and its words are *)
(* those of the full answer up to there.                                   *)
Listed == request.action = "GetScopes" => items = Words(cfg.scopes)

WordsSoFar ==
    /\ request.action = "GetScopes" /\ AtBreak(p)
    /\ items = Prefix(Words(cfg.scopes), Count(Starts(cfg.scopes), p - 1))
    /\ off = Length("head") + Length("middle") * Count(Starts(cfg.scopes), p - 1)
               + Count(Letters(cfg.scopes), p - 1)

FreshInv ==
    pc \notin {"middle", "scopes", "tail", "built", "fault", "done"} => p = 1 /\ items = << >>

MiddleInv ==
    pc = "middle" =>
        off = Length("head") /\ request.action # "GetScopes" /\ AfterHead = "middle"

ScopesInv == pc = "scopes" => WordsSoFar

TailInv == pc = "tail" => off + Length("tail") = FullLength /\ Listed

BuiltInv == pc = "built" /\ off < RespMax => off = FullLength /\ Listed

SentInv ==
    answer.kind = "data" =>
        /\ pc = "done" /\ answer.length = FullLength /\ answer.length < RespMax
        /\ request.action = "GetScopes" => answer.scopes = Words(cfg.scopes)

PieceInv == FreshInv /\ MiddleInv /\ ScopesInv /\ TailInv /\ BuiltInv /\ SentInv

LEMMA PieceInvInit == Init => PieceInv
  BY DEF Init, PieceInv, FreshInv, MiddleInv, ScopesInv, TailInv, BuiltInv, SentInv, NoAnswer

(* A step that neither builds nor sends anything built.                    *)
LEMMA NotBuilding ==
    ASSUME PieceInv, pc' \notin {"middle", "scopes", "tail", "built"}, answer'.kind # "data",
           pc' \in {"fault", "done"} \/ (p' = 1 /\ items' = << >>)
    PROVE  PieceInv'
  BY DEF PieceInv, FreshInv, MiddleInv, ScopesInv, TailInv, BuiltInv, SentInv

(* A step of which the builder sees nothing.                               *)
LEMMA BuilderWaits ==
    ASSUME PieceInv, UNCHANGED <<cfg, request, pc, builderVars, answer>>
    PROVE  PieceInv'
<1>1. /\ FullLength' = FullLength /\ AfterHead' = AfterHead
      /\ Length("head")' = Length("head") /\ Length("tail")' = Length("tail")
      /\ Length("middle")' = Length("middle")
  BY DEF FullLength, Length, AfterHead
<1>2. WordsSoFar' <=> WordsSoFar
  BY <1>1 DEF WordsSoFar, AtBreak, builderVars
<1>3. Listed' <=> Listed
  BY DEF Listed, builderVars
<1> QED
  BY <1>1, <1>2, <1>3
     DEF PieceInv, FreshInv, MiddleInv, ScopesInv, TailInv, BuiltInv, SentInv, builderVars

(* The first piece.                                                        *)
LEMMA HeadStep ==
    ASSUME DInv, TInv, PieceInv, WriteHead
    PROVE  PieceInv'
<1>1. /\ pc = "head" /\ UNCHANGED <<cfg, request, p, items, answer>>
      /\ off' = off + Length("head") /\ pc' = IF off' < RespMax THEN AfterHead ELSE "built"
  BY DEF WriteHead, Write, Unless, HttpdOnly
<1>2. off = 0 /\ p = 1 /\ items = << >> /\ answer.kind # "data"
  BY <1>1 DEF DInv, RoomInv, PieceInv, FreshInv, SentInv
<1>3. cfg \in Configs /\ request.action \in Built
  BY <1>1 DEF TInv, HttpdType, Doing, Building
<1>4. /\ FullLength' = FullLength /\ AfterHead' = AfterHead
      /\ Length("head")' = Length("head") /\ Length("tail")' = Length("tail")
      /\ Length("middle")' = Length("middle")
  BY <1>1 DEF FullLength, Length, AfterHead
<1>5. Length("head") \in Nat /\ Length("middle") \in Nat /\ Length("tail") \in Nat
  BY <1>3, LengthType DEF Piece
<1>6. off' = Length("head")
  BY <1>1, <1>2, <1>5
<1>7. AfterHead \in {"scopes", "middle", "tail"}
  BY DEF AfterHead
<1>8. request.action = "GetScopes" <=> AfterHead = "scopes"
  BY DEF AfterHead
<1>9. FreshInv' /\ SentInv'
  BY <1>1, <1>2, <1>7 DEF FreshInv, SentInv
<1>10. MiddleInv'
  BY <1>1, <1>4, <1>6, <1>7, <1>8 DEF MiddleInv
<1>11. ScopesInv'
  <2> SUFFICES ASSUME pc' = "scopes" PROVE WordsSoFar'
    BY DEF ScopesInv
  <2>1. request.action = "GetScopes"
    BY <1>1, <1>7, <1>8
  <2> DEFINE s == cfg.scopes
             n == Len(s)
             L == Letters(s)
             S == Starts(s)
  <2>2. n \in Nat /\ L \in SUBSET (1 .. n) /\ S \in SUBSET (1 .. n)
    BY <1>3, LetterSets
  <2>3. AtBreak(1)
    BY <2>2 DEF AtBreak
  <2>4. /\ Prefix(Words(s), Count(S, 1 - 1)) = << >>
        /\ Count(S, 1 - 1) = 0 /\ Count(L, 1 - 1) = 0
    <3> HIDE DEF n, L, S
    <3>1. 1 - 1 = 0
      OBVIOUS
    <3>2. Count(S, 0) = 0 /\ Count(L, 0) = 0
      BY <2>2, CountEnds
    <3>3. Prefix(Words(s), 0) = << >>
      BY <2>2, PrefixEnds DEF Words, S
    <3> QED
      BY <3>1, <3>2, <3>3
  <2>5. /\ items = Prefix(Words(s), Count(S, p - 1))
        /\ off' = Length("head") + Length("middle") * Count(S, p - 1) + Count(L, p - 1)
    <3> HIDE DEF S, L, s
    <3> QED
      BY <1>2, <1>5, <1>6, <2>4
  <2>6. AtBreak(p)'
    BY <1>1, <1>2, <2>3 DEF AtBreak
  <2> QED
    BY <1>1, <1>4, <2>1, <2>5, <2>6 DEF WordsSoFar
<1>12. TailInv'
  <2> SUFFICES ASSUME pc' = "tail" PROVE off' + Length("tail") = FullLength /\ request.action # "GetScopes"
    BY <1>1, <1>4 DEF TailInv, Listed
  <2>1. AfterHead = "tail" /\ request.action # "GetScopes"
    BY <1>1, <1>7, <1>8
  <2>2. FullLength = Length("head") + 0 + Length("tail")
    BY <2>1 DEF FullLength
  <2> QED
    BY <1>5, <1>6, <2>1, <2>2
<1>13. BuiltInv'
  BY <1>1, <1>7 DEF BuiltInv
<1> QED
  BY <1>9, <1>10, <1>11, <1>12, <1>13 DEF PieceInv

LEMMA MiddleStep ==
    ASSUME DInv, TInv, PieceInv, WriteMiddle
    PROVE  PieceInv'
<1>1. /\ pc = "middle" /\ UNCHANGED <<cfg, request, p, items, answer>>
      /\ off' = off + Length("middle") /\ pc' = IF off' < RespMax THEN "tail" ELSE "built"
  BY DEF WriteMiddle, Write, Unless, HttpdOnly
<1>2. /\ off = Length("head") /\ request.action # "GetScopes" /\ AfterHead = "middle"
      /\ answer.kind # "data"
  BY <1>1 DEF PieceInv, MiddleInv, SentInv
<1>3. cfg \in Configs /\ request.action \in Built
  BY <1>1 DEF TInv, HttpdType, Doing, Building
<1>4. FullLength' = FullLength /\ Length("tail")' = Length("tail")
  BY <1>1 DEF FullLength, Length, AfterHead
<1>5. Length("head") \in Nat /\ Length("middle") \in Nat /\ Length("tail") \in Nat
  BY <1>3, LengthType DEF Piece
<1>6. FullLength = Length("head") + Length("middle") + Length("tail")
  BY <1>2 DEF FullLength
<1>7. off' + Length("tail") = FullLength
  BY <1>1, <1>2, <1>5, <1>6
<1> QED
  BY <1>1, <1>2, <1>4, <1>7
     DEF PieceInv, FreshInv, MiddleInv, ScopesInv, TailInv, BuiltInv, SentInv, Listed

(* The loop: one more word, or the end of the list.                        *)
LEMMA ScopesStep ==
    ASSUME DInv, TInv, PieceInv, WriteScope
    PROVE  PieceInv'
<1> DEFINE from == SkipSpaces(p)
           end == NextBreak(from, TRUE)
           s == cfg.scopes
           n == Len(s)
           L == Letters(s)
           S == Starts(s)
<1>1. /\ pc = "scopes" /\ UNCHANGED <<cfg, request, answer>>
      /\ from = end => pc' = "tail" /\ UNCHANGED <<off, p, items>>
      /\ from # end =>
            /\ off' = off + (Length("middle") + end - from)
            /\ pc' = IF off' < RespMax THEN "scopes" ELSE "built"
            /\ items' = Append(items, SubSeq(s, from, end - 1)) /\ p' = end
  BY DEF WriteScope, Write, Unless, HttpdOnly, builderVars
<1>2. /\ answer.kind # "data" /\ request.action = "GetScopes" /\ AtBreak(p)
      /\ items = Prefix(Words(s), Count(S, p - 1))
      /\ off = Length("head") + Length("middle") * Count(S, p - 1) + Count(L, p - 1)
  BY <1>1 DEF PieceInv, ScopesInv, SentInv, WordsSoFar
<1>3. cfg \in Configs /\ request.action \in Built
  BY <1>1 DEF TInv, HttpdType, Doing, Building
<1>4. /\ FullLength' = FullLength /\ Length("tail")' = Length("tail")
      /\ Length("head")' = Length("head") /\ Length("middle")' = Length("middle")
  BY <1>1 DEF FullLength, Length, AfterHead
<1>5. Length("head") \in Nat /\ Length("middle") \in Nat /\ Length("tail") \in Nat
  BY <1>3, LengthType DEF Piece
<1>6. n \in Nat /\ L \in SUBSET (1 .. n) /\ S \in SUBSET (1 .. n)
  BY <1>3, LetterSets
<1>7. p \in 1 .. n + 1
  BY <1>2 DEF AtBreak
<1>8. FreshInv' /\ MiddleInv' /\ SentInv'
  BY <1>1, <1>2 DEF FreshInv, MiddleInv, SentInv
<1>9. CASE from = end
  <2>1. Count(S, p - 1) = Cardinality(S) /\ Count(L, p - 1) = Cardinality(L)
    BY <1>3, <1>7, <1>9, NoWordLeft
  <2>2. items = Words(s)
    BY <1>2, <1>6, <2>1, PrefixEnds DEF Words
  <2>3. FullLength = Length("head") + (Length("middle") * Cardinality(S) + Cardinality(L)) + Length("tail")
    BY <1>2 DEF FullLength
  <2>4. off + Length("tail") = FullLength
    <3> DEFINE words == Length("middle") * Cardinality(S)
    <3>1. Cardinality(S) \in Nat /\ Cardinality(L) \in Nat
      BY <1>6, CountType
    <3>2. words \in Int
      BY <1>5, <3>1
    <3>3. off = Length("head") + words + Cardinality(L)
      BY <1>2, <2>1
    <3> HIDE DEF words
    <3> QED
      BY <1>5, <2>3, <3>1, <3>2, <3>3 DEF words
  <2>5. pc' = "tail" /\ off' = off /\ items' = items
    BY <1>1, <1>9
  <2>6. TailInv'
    BY <1>1, <1>4, <2>2, <2>4, <2>5 DEF TailInv, Listed
  <2> QED
    BY <1>8, <2>5, <2>6 DEF PieceInv, ScopesInv, BuiltInv
<1>10. CASE from # end
  <2>1. /\ off' = off + (Length("middle") + end - from) /\ p' = end
        /\ pc' = IF off' < RespMax THEN "scopes" ELSE "built"
        /\ items' = Append(items, SubSeq(s, from, end - 1))
    BY <1>1, <1>10
  <2>2. AtBreak(end) /\ Count(L, end - 1) = Count(L, p - 1) + (end - from)
    BY <1>2, <1>3, <1>10, OneWordMore
  <2>3. /\ Count(S, p - 1) \in Nat /\ Count(S, end - 1) = Count(S, p - 1) + 1
        /\ Append(Prefix(Words(s), Count(S, p - 1)), SubSeq(s, from, end - 1)) =
              Prefix(Words(s), Count(S, p - 1) + 1)
    BY <1>2, <1>3, <1>10, NextWord
  <2>4. items' = Prefix(Words(s), Count(S, end - 1))
    BY <1>2, <2>1, <2>3
  <2>5. off' = Length("head") + Length("middle") * Count(S, end - 1) + Count(L, end - 1)
    <3> DEFINE c == Count(S, p - 1)
               m == Length("middle")
    <3>1. from \in Nat /\ end \in Nat /\ Count(L, p - 1) \in Nat
      <4>1. from \in Nat /\ from \in 1 .. n + 1
        BY <1>3, <1>6, <1>7, SpacesSkipped
      <4>2. end \in Nat
        BY <1>3, <4>1, WordSpanned
      <4> QED
        BY <1>6, <4>1, <4>2, CountType
    <3>2. c \in Nat /\ m \in Nat /\ Count(S, end - 1) = c + 1
      BY <1>5, <2>3
    <3>3. m * (c + 1) = m * c + m /\ m * c \in Int
      <4> HIDE DEF m, c
      <4> QED
        BY <3>2
    <3>4. off = Length("head") + m * c + Count(L, p - 1)
      BY <1>2
    <3>5. off' = off + (m + end - from)
      BY <2>1
    <3>6. Count(L, end - 1) = Count(L, p - 1) + (end - from)
      BY <2>2
    <3>7. Length("head") \in Nat
      BY <1>5
    <3> DEFINE total == Length("head") + m * (c + 1) + Count(L, end - 1)
    <3>8. off' = total
      <4> HIDE DEF from, end, L, S, m, c
      <4> QED
        BY ONLY <3>1, <3>2, <3>3, <3>4, <3>5, <3>6, <3>7
    <3> QED
      BY <3>2, <3>8
  <2>6. ScopesInv'
    <3> HIDE DEF from, end
    <3>1. AtBreak(p)'
      BY <1>1, <2>1, <2>2 DEF AtBreak
    <3> QED
      BY <1>1, <1>2, <1>4, <2>1, <2>4, <2>5, <3>1 DEF ScopesInv, WordsSoFar
  <2>7. TailInv' /\ BuiltInv'
    BY <2>1 DEF TailInv, BuiltInv
  <2> QED
    BY <1>8, <2>6, <2>7 DEF PieceInv
<1> QED
  BY <1>9, <1>10

LEMMA TailStep ==
    ASSUME DInv, TInv, PieceInv, WriteTail
    PROVE  PieceInv'
<1>1. /\ pc = "tail" /\ pc' = "built" /\ off' = off + Length("tail")
      /\ UNCHANGED <<cfg, request, p, items, answer>>
  BY DEF WriteTail, HttpdOnly
<1>2. off' = FullLength /\ Listed /\ answer.kind # "data"
  BY <1>1 DEF PieceInv, TailInv, SentInv
<1>3. FullLength' = FullLength /\ Listed'
  BY <1>1, <1>2 DEF FullLength, Length, AfterHead, Listed
<1> QED
  BY <1>1, <1>2, <1>3 DEF PieceInv, FreshInv, MiddleInv, ScopesInv, TailInv, BuiltInv, SentInv

LEMMA SendStep ==
    ASSUME DInv, TInv, PieceInv, SendBuilt
    PROVE  PieceInv'
<1>1. pc = "built" /\ UNCHANGED <<cfg, request, off, p, items>>
  BY DEF SendBuilt, HttpdOnly, builderVars
<1>2. FullLength' = FullLength
  BY <1>1 DEF FullLength, Length, AfterHead
<1>3. CASE Fits
  <2>1. /\ pc' = "done" /\ answer' = [kind |-> "data", length |-> off, scopes |-> items]
        /\ off < RespMax
    BY <1>3 DEF SendBuilt, Reply, Fits
  <2>2. off = FullLength /\ Listed
    BY <1>1, <2>1 DEF PieceInv, BuiltInv
  <2>3. SentInv'
    BY <1>1, <1>2, <2>1, <2>2 DEF SentInv, Listed
  <2> QED
    BY <2>1, <2>3 DEF PieceInv, FreshInv, MiddleInv, ScopesInv, TailInv, BuiltInv
<1>4. CASE ~Fits
  <2>1. pc' = "fault" /\ answer' = answer /\ answer.kind # "data"
    BY <1>1, <1>4 DEF SendBuilt, PieceInv, SentInv
  <2> QED
    BY <2>1, NotBuilding
<1> QED
  BY <1>3, <1>4

LEMMA PieceStep ==
    ASSUME DInv, TInv, PieceInv, [Next]_vars
    PROVE  PieceInv'
<1>1. answer.kind = "data" => pc = "done"
  BY DEF PieceInv, SentInv
<1>2. pc \notin {"middle", "scopes", "tail", "built", "fault", "done"} => p = 1 /\ items = << >>
  BY DEF PieceInv, FreshInv
<1>3. ASSUME NEW r \in Requests, Dispatch(r)
      PROVE  PieceInv'
  <2>1. pc = "idle" /\ UNCHANGED <<p, items, answer>>
    BY <1>3 DEF Dispatch, builderVars
  <2>2. pc' \notin {"middle", "scopes", "tail", "built"}
    BY <1>3, DeviceAssumption DEF Dispatch, Actions, Built, Setters
  <2> QED
    BY <1>1, <1>2, <2>1, <2>2, NotBuilding
<1>4. CASE NoMemory
  BY <1>4, NotBuilding DEF NoMemory, Reply
<1>5. CASE ReadClock
  BY <1>1, <1>2, <1>5, NotBuilding DEF ReadClock, builderVars
<1>6. CASE ReadMode
  BY <1>1, <1>2, <1>6, NotBuilding DEF ReadMode, builderVars
<1>7. CASE AnswerDate
  BY <1>7, NotBuilding DEF AnswerDate, Reply, onvif_xml_system_date_and_time
<1>8. CASE handle_set_system_date_and_time
  <2>1. pc = "SetSystemDateAndTime" /\ UNCHANGED <<p, items>>
    BY <1>8 DEF handle_set_system_date_and_time, builderVars
  <2>2. PICK kind \in {"ack", "invalid", "not supported"} : Verdict(kind)
    BY <1>8 DEF handle_set_system_date_and_time
  <2> QED
    BY <1>2, <2>1, <2>2, NotBuilding DEF Verdict
<1>9. CASE handle_set_ntp
  <2>1. pc = "SetNTP" /\ UNCHANGED <<p, items>>
    BY <1>9 DEF handle_set_ntp, builderVars
  <2>2. PICK kind \in {"ack", "invalid", "not supported"} : Verdict(kind)
    BY <1>9 DEF handle_set_ntp
  <2> QED
    BY <1>2, <2>1, <2>2, NotBuilding DEF Verdict
<1>10. CASE AnswerVerdict
  BY <1>1, <1>10, NotBuilding DEF AnswerVerdict
<1>11. CASE send_fault
  BY <1>11, NotBuilding DEF send_fault, Reply
<1>12. CASE Finish
  BY <1>12, NotBuilding DEF Finish, NoAnswer
<1>13. CASE Host
  BY <1>13, BuilderWaits DEF Host, Tick, Synchronise, HostOnly
<1>14. CASE UNCHANGED vars
  BY <1>14, BuilderWaits DEF vars
<1> QED
  BY <1>3, <1>4, <1>5, <1>6, <1>7, <1>8, <1>9, <1>10, <1>11, <1>12, <1>13, <1>14,
     HeadStep, MiddleStep, ScopesStep, TailStep, SendStep DEF Next, Httpd

LEMMA PieceInvAlways == Spec => [](DInv /\ TInv /\ PieceInv)
  BY PieceInvInit, PieceStep, TInvAlways, PTL DEF Spec

(* A GetScopes answer lists the words of the configured text, each once    *)
(* and whole: for every text of any length.                                *)
THEOREM DeviceScopesListed == Spec => []ScopesListed
<1>1. PieceInv => ScopesListed
  BY DEF PieceInv, SentInv, ScopesListed
<1> QED
  BY <1>1, PieceInvAlways, PTL

(* What is sent is the full answer and fits the buffer, with room for the  *)
(* terminating zero, for every buffer size, address and text.              *)
THEOREM DeviceWholeOrFault == Spec => []WholeOrFault
<1>1. PieceInv => WholeOrFault
  BY DEF PieceInv, SentInv, WholeOrFault
<1> QED
  BY <1>1, PieceInvAlways, PTL

-----------------------------------------------------------------------------
(* Reading a body that says what was asked for.                            *)
LEMMA FirstTag ==
    ASSUME NEW body, NEW kind, NEW local, NEW lo \in Nat, NEW hi \in Nat
    PROVE  LET tags == Tags(body, kind, local, lo, hi)
           IN  /\ \A i \in tags : i \in Nat /\ lo <= i /\ i < hi
               /\ tags # {} => Min(tags) \in tags /\ \A i \in tags : Min(tags) <= i
<1> DEFINE tags == Tags(body, kind, local, lo, hi)
<1>1. \A i \in tags : i \in Nat /\ lo <= i /\ i < hi
  BY DEF Tags
<1> HIDE DEF tags
<1>2. tags \in SUBSET Nat
  BY <1>1
<1>3. tags # {} => Min(tags) \in tags /\ \A i \in tags : Min(tags) <= i
  BY <1>2, Smallest
<1> QED
  BY <1>1, <1>3 DEF tags

(* Where a scope can end: at the end of the body, or at a tag.             *)
EndsAt(body, to) == to = Len(body) + 1 \/ body[to].kind # "text"

LEMMA TextUpTo ==
    ASSUME NEW body \in Body, NEW to \in Nat, to <= Len(body) + 1, EndsAt(body, to),
           NEW i \in Nat, i < to
    PROVE  TextAfter(body, i, to) = TextAfter(body, i, Len(body) + 1)
<1>1. Len(body) \in Nat
  BY BodyType
<1> DEFINE n == Len(body)
<1> HIDE DEF n
<1>2. n \in Nat /\ to <= n + 1 /\ (to = n + 1 \/ body[to].kind # "text")
  BY <1>1 DEF n, EndsAt
<1>3. CASE i + 1 < to
  <2>1. i + 1 < n + 1
    BY <1>2, <1>3
  <2> QED
    BY <1>3, <2>1 DEF TextAfter, n
<1>4. CASE i + 1 = to
  <2>1. ~(i + 1 < n + 1 /\ body[i + 1].kind = "text") /\ ~(i + 1 < to)
    BY <1>2, <1>4
  <2> QED
    BY <2>1 DEF TextAfter, n
<1> QED
  BY <1>3, <1>4

(* The first text of an element in a scope is one of its texts there.      *)
LEMMA LeafReads ==
    ASSUME NEW body \in Body, NEW from \in Nat, NEW to \in Nat, to <= Len(body) + 1,
           EndsAt(body, to), NEW local
    PROVE  LET leaf == leaf_text(body, [from |-> from, to |-> to], local)
               texts == TextsOf(body, local, from .. to - 1)
           IN  leaf \subseteq texts /\ (leaf = {} <=> texts = {}) /\ AtMostOne(leaf)
<1> DEFINE leaf == leaf_text(body, [from |-> from, to |-> to], local)
           opens == Tags(body, "open", local, from, to)
           text(i) == TextAfter(body, i, Len(body) + 1)
<1>1. leaf = IF opens = {} THEN {} ELSE {TextAfter(body, Min(opens), to)}
  BY DEF leaf_text
<1>2. TextsOf(body, local, from .. to - 1) = {text(i) : i \in opens}
  BY DEF TextsOf, Openings, Tags
<1>3. opens # {} => Min(opens) \in opens /\ Min(opens) \in Nat /\ Min(opens) < to
  BY FirstTag
<1> HIDE DEF opens
<1>4. opens # {} => TextAfter(body, Min(opens), to) = text(Min(opens))
  BY <1>3, TextUpTo
<1> HIDE DEF leaf, text
<1> QED
  BY <1>1, <1>2, <1>3, <1>4 DEF leaf, AtMostOne

(* An element that is opened once has its scope inside.                    *)
LEMMA ScopeInside ==
    ASSUME NEW body \in Body, NEW local, AtMostOne(Openings(body, local, DOMAIN body))
    PROVE  /\ Openings(body, local, DOMAIN body) = {} => elem_scope(body, local) = {}
           /\ Openings(body, local, DOMAIN body) # {} =>
                 \E from, to \in Nat :
                    /\ elem_scope(body, local) = {[from |-> from, to |-> to]}
                    /\ to <= Len(body) + 1 /\ EndsAt(body, to)
                    /\ Inside(body, local) = from .. to - 1
<1> DEFINE n == Len(body)
           all == n + 1
           opens == Tags(body, "open", local, 1, all)
           closes == Tags(body, "close", local, Min(opens) + 1, all)
           from == Min(opens) + 1
           to == IF closes = {} THEN all ELSE Min(closes)
<1>1. n \in Nat /\ DOMAIN body = 1 .. n /\ all \in Nat /\ 1 \in Nat
  BY BodyType
<1>2. elem_scope(body, local) = IF opens = {} THEN {} ELSE {[from |-> from, to |-> to]}
  BY DEF elem_scope
<1>3. opens = Openings(body, local, DOMAIN body)
  <2>1. 1 .. all - 1 = DOMAIN body
    BY <1>1
  <2> QED
    BY <2>1 DEF Tags, Openings
<1>4. CASE opens = {}
  BY <1>2, <1>3, <1>4
<1>5. CASE opens # {}
  <2>1. Min(opens) \in opens /\ Min(opens) \in Nat /\ 1 <= Min(opens) /\ Min(opens) < all
    <3> HIDE DEF all
    <3> QED
      BY <1>1, <1>5, FirstTag
  <2>2. from \in Nat /\ from <= all
    BY <1>1, <2>1
  <2>3. /\ \A j \in closes : j \in Nat /\ from <= j /\ j < all
        /\ closes # {} => Min(closes) \in closes /\ \A j \in closes : Min(closes) <= j
    <3> HIDE DEF all, opens
    <3> QED
      BY <1>1, <2>2, FirstTag
  <2>4. \A j \in Nat : j \in closes <=>
           from <= j /\ j < all /\ body[j].kind = "close" /\ body[j].name = local
    <3> HIDE DEF opens
    <3> QED
      BY <1>1, <2>2 DEF Tags
  <2>5. closes # {} => body[Min(closes)].kind = "close"
    BY <2>3, <2>4
  <2>6. to \in Nat /\ to <= all /\ EndsAt(body, to)
    <3> HIDE DEF closes
    <3> QED
      BY <1>1, <2>3, <2>5 DEF EndsAt
  <2>7. \A o \in opens : o = Min(opens)
    BY <1>3, <2>1 DEF AtMostOne
  <2>8. \A i \in DOMAIN body : i \in Inside(body, local) <=> i \in from .. to - 1
    <3> SUFFICES ASSUME NEW i \in DOMAIN body
                 PROVE  i \in Inside(body, local) <=> from <= i /\ i < to
      BY <1>1, <2>2, <2>6
    <3>1. i \in Nat /\ 1 <= i /\ i <= n
      BY <1>1
    <3>2. \A o \in Nat : o \in Openings(body, local, 1 .. i - 1) <=> o \in opens /\ o < i
      <4>1. \A o \in Nat : o \in 1 .. i - 1 <=> o \in 1 .. n /\ o < i
        BY <1>1, <3>1
      <4> QED
        BY <1>1, <1>3, <4>1 DEF Openings
    <3>3. \A o \in Openings(body, local, 1 .. i - 1) : o \in Nat
      BY <3>1 DEF Openings
    <3>4. i \in Inside(body, local) <=>
            \E o \in Openings(body, local, 1 .. i - 1) :
               \A j \in o + 1 .. i : ~(body[j].kind = "close" /\ body[j].name = local)
      BY DEF Inside
    <3> HIDE DEF opens
    <3>5. i \in Inside(body, local) <=>
            Min(opens) < i /\ \A j \in from .. i : ~(body[j].kind = "close" /\ body[j].name = local)
      BY <2>1, <2>7, <3>2, <3>3, <3>4
    <3> HIDE DEF closes, from, all
    <3>6. Min(opens) < i <=> from <= i
      BY <2>1, <3>1 DEF from
    <3>7. \A j \in from .. i : j \in Nat /\ from <= j /\ j < all
      BY <1>1, <2>2, <3>1 DEF all
    <3>8. (\A j \in from .. i : ~(body[j].kind = "close" /\ body[j].name = local)) <=>
             \A j \in from .. i : j \notin closes
      BY <2>4, <3>7
    <3>9. (\A j \in from .. i : j \notin closes) <=> i < to
      <4>1. CASE closes = {}
        BY <1>1, <3>1, <4>1 DEF all
      <4>2. CASE closes # {}
        <5>1. /\ to = Min(closes) /\ to \in closes /\ to \in Nat /\ from <= to
              /\ \A j \in closes : to <= j
          BY <2>3, <4>2
        <5> HIDE DEF to
        <5>2. ASSUME i < to, NEW j \in from .. i PROVE j \notin closes
          BY <2>2, <3>1, <5>1, <5>2
        <5>3. ASSUME ~(i < to) PROVE to \in from .. i
          BY <2>2, <3>1, <5>1, <5>3
        <5> QED
          BY <5>1, <5>2, <5>3
      <4> QED
        BY <4>1, <4>2
    <3> QED
      BY <3>5, <3>6, <3>8, <3>9
  <2>9. Inside(body, local) = from .. to - 1
    <3>1. from .. to - 1 \subseteq DOMAIN body
      <4> HIDE DEF to
      <4>1. 1 <= from
        BY <2>1
      <4> HIDE DEF from
      <4> QED
        BY <1>1, <2>2, <2>6, <4>1
    <3>2. Inside(body, local) \subseteq DOMAIN body
      BY DEF Inside
    <3> QED
      BY <2>8, <3>1, <3>2
  <2> HIDE DEF from, to, opens
  <2> QED
    BY <1>2, <1>3, <1>5, <2>2, <2>6, <2>9
<1> QED
  BY <1>4, <1>5

(* The zone and the date that the parser finds are those that are said.    *)
SaidZones(body) ==
    LET inside == TextsOf(body, "TZ", Inside(body, "TimeZone"))
    IN  IF inside # {} THEN inside ELSE TextsOf(body, "TZ", DOMAIN body)

SaidField(body, f) == {t.num : t \in TextsOf(body, f, Inside(body, "UTCDateTime"))}

LEMMA AnywhereReads ==
    ASSUME NEW body \in Body, NEW local
    PROVE  LET leaf == leaf_text(body, Everything(body), local)
               texts == TextsOf(body, local, DOMAIN body)
           IN  leaf \subseteq texts /\ (leaf = {} <=> texts = {}) /\ AtMostOne(leaf)
<1> DEFINE all == Len(body) + 1
<1>1. 1 \in Nat /\ all \in Nat /\ all <= Len(body) + 1 /\ DOMAIN body = 1 .. all - 1
  BY BodyType
<1>2. EndsAt(body, all)
  BY DEF EndsAt
<1>3. Everything(body) = [from |-> 1, to |-> all]
  BY DEF Everything
<1> HIDE DEF all
<1> QED
  BY <1>1, <1>2, <1>3, LeafReads

LEMMA ZonesRead ==
    ASSUME NEW body \in Body, AtMostOne(Openings(body, "TimeZone", DOMAIN body))
    PROVE  /\ Openings(body, "TimeZone", DOMAIN body) = {} =>
                 Zones(body) = {} /\ elem_scope(body, "TimeZone") = {}
           /\ Openings(body, "TimeZone", DOMAIN body) # {} =>
                 /\ elem_scope(body, "TimeZone") # {} /\ Zones(body) \subseteq SaidZones(body)
                 /\ Zones(body) = {} <=> SaidZones(body) = {}
<1> DEFINE opens == Openings(body, "TimeZone", DOMAIN body)
<1>1. Zones(body) = UNION {ZoneText(body, s) : s \in elem_scope(body, "TimeZone")}
  BY DEF Zones
<1>2. CASE opens = {}
  BY <1>1, <1>2, ScopeInside
<1>3. CASE opens # {}
  <2>1. PICK from, to \in Nat :
           /\ elem_scope(body, "TimeZone") = {[from |-> from, to |-> to]}
           /\ to <= Len(body) + 1 /\ EndsAt(body, to)
           /\ Inside(body, "TimeZone") = from .. to - 1
    BY <1>3, ScopeInside
  <2> DEFINE scope == [from |-> from, to |-> to]
             near == leaf_text(body, scope, "TZ")
             far == leaf_text(body, Everything(body), "TZ")
  <2>2. Zones(body) = ZoneText(body, scope)
    BY <1>1, <2>1
  <2>3. ZoneText(body, scope) = IF near # {} THEN near ELSE far
    BY DEF ZoneText
  <2>4. /\ near \subseteq TextsOf(body, "TZ", Inside(body, "TimeZone"))
        /\ near = {} <=> TextsOf(body, "TZ", Inside(body, "TimeZone")) = {}
    BY <2>1, LeafReads
  <2>5. /\ far \subseteq TextsOf(body, "TZ", DOMAIN body)
        /\ far = {} <=> TextsOf(body, "TZ", DOMAIN body) = {}
    BY AnywhereReads
  <2>6. elem_scope(body, "TimeZone") # {}
    BY <2>1
  <2> HIDE DEF scope, near, far
  <2> QED
    BY <1>3, <2>2, <2>3, <2>4, <2>5, <2>6 DEF SaidZones
<1> QED
  BY <1>2, <1>3

LEMMA DatesRead ==
    ASSUME NEW body \in Body, AtMostOne(Openings(body, "UTCDateTime", DOMAIN body))
    PROVE  /\ Openings(body, "UTCDateTime", DOMAIN body) = {} =>
                 Dates(body) = {} /\ elem_scope(body, "UTCDateTime") = {}
           /\ Openings(body, "UTCDateTime", DOMAIN body) # {} =>
                 /\ elem_scope(body, "UTCDateTime") # {}
                 /\ Dates(body) # {} =>
                       \A f \in DOMAIN FieldRange : SaidField(body, f) \cap FieldRange[f] # {}
                 /\ \A c \in Fields :
                       /\ SaidField(body, "Year") = {c.year}
                       /\ SaidField(body, "Month") = {c.month}
                       /\ SaidField(body, "Day") = {c.day}
                       /\ SaidField(body, "Hour") = {c.hour}
                       /\ SaidField(body, "Minute") = {c.minute}
                       /\ SaidField(body, "Second") = {c.second}
                       => Dates(body) = {c}
<1> DEFINE opens == Openings(body, "UTCDateTime", DOMAIN body)
<1>1. Dates(body) = UNION {DateIn(body, s) : s \in elem_scope(body, "UTCDateTime")}
  BY DEF Dates
<1>2. CASE opens = {}
  BY <1>1, <1>2, ScopeInside
<1>3. CASE opens # {}
  <2>1. PICK from, to \in Nat :
           /\ elem_scope(body, "UTCDateTime") = {[from |-> from, to |-> to]}
           /\ to <= Len(body) + 1 /\ EndsAt(body, to)
           /\ Inside(body, "UTCDateTime") = from .. to - 1
    BY <1>3, ScopeInside
  <2> DEFINE scope == [from |-> from, to |-> to]
             value(f) == parse_num(leaf_text(body, scope, f), f)
  <2>2. Dates(body) = DateIn(body, scope)
    BY <1>1, <2>1
  <2>3. ASSUME NEW f
        PROVE  /\ value(f) \subseteq SaidField(body, f) \cap FieldRange[f]
               /\ \A v \in FieldRange[f] : SaidField(body, f) = {v} => value(f) = {v}
    <3> DEFINE leaf == leaf_text(body, scope, f)
               texts == TextsOf(body, f, Inside(body, "UTCDateTime"))
    <3>1. leaf \subseteq texts /\ (leaf = {} <=> texts = {})
      BY <2>1, LeafReads
    <3>2. value(f) = {t.num : t \in leaf} \cap FieldRange[f]
      BY DEF parse_num
    <3>3. SaidField(body, f) = {t.num : t \in texts}
      BY DEF SaidField
    <3> HIDE DEF leaf, texts, value
    <3> QED
      BY <3>1, <3>2, <3>3
  <2>4. DateIn(body, scope) =
          IF \E f \in DOMAIN FieldRange : value(f) = {} THEN {}
          ELSE {[year |-> TheOnly(value("Year")), month |-> TheOnly(value("Month")),
                 day |-> TheOnly(value("Day")), hour |-> TheOnly(value("Hour")),
                 minute |-> TheOnly(value("Minute")), second |-> TheOnly(value("Second"))]}
    BY DEF DateIn
  <2>5. elem_scope(body, "UTCDateTime") # {}
    BY <2>1
  <2> HIDE DEF scope, value
  <2>6. ASSUME Dates(body) # {}, NEW f \in DOMAIN FieldRange
        PROVE  SaidField(body, f) \cap FieldRange[f] # {}
    BY <2>2, <2>3, <2>4, <2>6
  <2>7. ASSUME NEW c \in Fields,
               SaidField(body, "Year") = {c.year}, SaidField(body, "Month") = {c.month},
               SaidField(body, "Day") = {c.day}, SaidField(body, "Hour") = {c.hour},
               SaidField(body, "Minute") = {c.minute}, SaidField(body, "Second") = {c.second}
        PROVE  Dates(body) = {c}
    <3>1. /\ c.year \in FieldRange["Year"] /\ c.month \in FieldRange["Month"]
          /\ c.day \in FieldRange["Day"] /\ c.hour \in FieldRange["Hour"]
          /\ c.minute \in FieldRange["Minute"] /\ c.second \in FieldRange["Second"]
      BY DEF Fields, FieldRange
    <3>2. /\ value("Year") = {c.year} /\ value("Month") = {c.month} /\ value("Day") = {c.day}
          /\ value("Hour") = {c.hour} /\ value("Minute") = {c.minute}
          /\ value("Second") = {c.second}
      BY <2>3, <2>7, <3>1
    <3>3. DOMAIN FieldRange = {"Year", "Month", "Day", "Hour", "Minute", "Second"}
      BY DEF FieldRange
    <3>4. ~\E f \in DOMAIN FieldRange : value(f) = {}
      BY <3>2, <3>3
    <3>5. \A v : TheOnly({v}) = v
      BY DEF TheOnly
    <3>6. c = [year |-> c.year, month |-> c.month, day |-> c.day, hour |-> c.hour,
               minute |-> c.minute, second |-> c.second]
      BY DEF Fields
    <3> QED
      BY <2>2, <2>4, <3>2, <3>4, <3>5, <3>6
  <2> QED
    BY <1>3, <2>5, <2>6, <2>7
<1> QED
  BY <1>2, <1>3

(* What is parsed of a body is what it says.                               *)
AsSaid(r, asked) ==
    /\ asked.good
    /\ r.ntp_mode = (asked.mode = "NTP")
    /\ r.has_utc = (asked.utc # {})
    /\ \A c \in asked.utc : gmtime(r.utc_epoch) = Normalised(c)
    /\ r.has_tz = (asked.zone # {})
    /\ \A z \in asked.zone : r.tz = Cut(z)

LEMMA ParsedAsSaid ==
    ASSUME NEW body \in Body, NEW asked, Says(body, asked),
           NEW r \in onvif_time_parse_set_request(body)
    PROVE  AsSaid(r, asked)
<1> DEFINE zoned == Openings(body, "TimeZone", DOMAIN body) # {}
           dated == Openings(body, "UTCDateTime", DOMAIN body) # {}
<1>1. /\ AtMostOne(Openings(body, "TimeZone", DOMAIN body))
      /\ AtMostOne(Openings(body, "UTCDateTime", DOMAIN body))
      /\ asked.good <=>
              /\ zoned => SaidZones(body) # {}
              /\ dated => \A f \in DOMAIN Allowed : SaidField(body, f) \cap Allowed[f] # {}
      /\ asked.good =>
              /\ {t.word : t \in TextsOf(body, "DateTimeType", DOMAIN body)} = {asked.mode}
              /\ asked.zone = IF zoned THEN {t.word : t \in SaidZones(body)} ELSE {}
              /\ asked.utc # {} <=> dated
              /\ AtMostOne(asked.zone) /\ AtMostOne(asked.utc)
              /\ \A c \in asked.utc :
                    /\ c \in Fields
                    /\ SaidField(body, "Year") = {c.year} /\ SaidField(body, "Month") = {c.month}
                    /\ SaidField(body, "Day") = {c.day} /\ SaidField(body, "Hour") = {c.hour}
                    /\ SaidField(body, "Minute") = {c.minute}
                    /\ SaidField(body, "Second") = {c.second}
  BY DEF Says, SaidZones, SaidField
<1>0. Allowed = FieldRange
  BY DEF Allowed, FieldRange
<1>2. /\ r = RequestOf(Types(body), Zones(body), Dates(body))
      /\ elem_scope(body, "TimeZone") # {} => Zones(body) # {}
      /\ elem_scope(body, "UTCDateTime") # {} => Dates(body) # {}
  BY DEF onvif_time_parse_set_request
<1>3. /\ r.ntp_mode = \E t \in Types(body) : t.word = "NTP"
      /\ r.has_utc = (Dates(body) # {}) /\ r.has_tz = (Zones(body) # {})
      /\ Dates(body) # {} => r.utc_epoch = CivilEpoch(TheOnly(Dates(body)))
      /\ Zones(body) # {} => r.tz = Cut(TheOnly(Zones(body)).word)
  BY <1>2 DEF RequestOf
<1> HIDE DEF zoned, dated
<1>4. /\ ~zoned => Zones(body) = {}
      /\ zoned => Zones(body) # {} /\ Zones(body) \subseteq SaidZones(body)
  BY <1>1, <1>2, ZonesRead DEF zoned
<1>5. /\ ~dated => Dates(body) = {}
      /\ dated => Dates(body) # {} /\
            \A f \in DOMAIN FieldRange : SaidField(body, f) \cap FieldRange[f] # {}
  BY <1>1, <1>2, DatesRead DEF dated
<1>6. asked.good
  BY <1>0, <1>1, <1>4, <1>5
<1>7. r.ntp_mode = (asked.mode = "NTP")
  <2> DEFINE texts == TextsOf(body, "DateTimeType", DOMAIN body)
  <2>1. Types(body) \subseteq texts /\ (Types(body) = {} <=> texts = {})
    BY AnywhereReads DEF Types
  <2>2. {t.word : t \in texts} = {asked.mode}
    BY <1>1, <1>6
  <2> HIDE DEF texts
  <2>3. \A t \in texts : t.word = asked.mode
    BY <2>2
  <2>4. texts # {}
    BY <2>2
  <2>5. (\E t \in Types(body) : t.word = "NTP") <=> asked.mode = "NTP"
    BY <2>1, <2>3, <2>4
  <2> QED
    BY <1>3, <2>5
<1>8. r.has_utc = (asked.utc # {}) /\ r.has_tz = (asked.zone # {})
  BY <1>1, <1>3, <1>4, <1>5, <1>6
<1>9. ASSUME NEW c \in asked.utc PROVE gmtime(r.utc_epoch) = Normalised(c)
  <2>1. dated /\ c \in Fields /\ Dates(body) = {c}
    BY <1>1, <1>6, <1>9, DatesRead DEF dated
  <2>2. TheOnly(Dates(body)) = c /\ r.utc_epoch = CivilEpoch(c)
    BY <1>3, <2>1 DEF TheOnly
  <2>3. Shows(Normalised(c)) /\ CivilEpoch(Normalised(c)) = CivilEpoch(c)
    BY <2>1, NormalisedShows
  <2> QED
    BY <2>2, <2>3, RoundTrip DEF Shows
<1>10. ASSUME NEW z \in asked.zone PROVE r.tz = Cut(z)
  <2>1. zoned /\ asked.zone = {t.word : t \in SaidZones(body)} /\ AtMostOne(asked.zone)
    BY <1>1, <1>6, <1>10
  <2>2. TheOnly(Zones(body)) \in SaidZones(body)
    BY <1>4, <2>1 DEF TheOnly
  <2>3. TheOnly(Zones(body)).word = z
    BY <2>1, <2>2, <1>10 DEF AtMostOne
  <2> QED
    BY <1>3, <1>4, <2>1, <2>3
<1> QED
  BY <1>6, <1>7, <1>8, <1>9, <1>10 DEF AsSaid

-----------------------------------------------------------------------------
(* What the host was handed is what was parsed of the request's body.      *)
HandedInv ==
    /\ pc \notin {"answer", "done"} => handed = {}
    /\ handed # {} /\ request.action = "SetSystemDateAndTime" =>
          request \in Requests /\ handed = onvif_time_parse_set_request(request.body)
    /\ handed # {} /\ request.action = "SetNTP" =>
          request \in Requests /\ handed = {onvif_time_parse_set_ntp(request.body)}

LEMMA HandedStep ==
    ASSUME TInv, HandedInv, [Next]_vars
    PROVE  HandedInv'
<1> USE DEF HandedInv
<1>1. ASSUME NEW r \in Requests, Dispatch(r)
      PROVE  HandedInv'
  BY <1>1 DEF Dispatch
<1>2. CASE NoMemory
  BY <1>2 DEF NoMemory, Reply
<1>3. CASE ReadClock \/ ReadMode
  BY <1>3 DEF ReadClock, ReadMode
<1>4. CASE AnswerDate
  BY <1>4 DEF AnswerDate, Reply
<1>5. CASE handle_set_system_date_and_time
  <2> DEFINE parsed == onvif_time_parse_set_request(request.body)
  <2>1. /\ pc = "SetSystemDateAndTime" /\ request' = request /\ pc' = "answer"
        /\ handed' = parsed \/ handed' = handed
    BY <1>5 DEF handle_set_system_date_and_time, Verdict
  <2>2. request \in Requests /\ request.action = "SetSystemDateAndTime"
    BY <2>1 DEF TInv, Doing, Setters
  <2> HIDE DEF parsed
  <2> QED
    BY <2>1, <2>2 DEF parsed
<1>6. CASE handle_set_ntp
  <2> DEFINE list == onvif_time_parse_set_ntp(request.body)
  <2>1. /\ pc = "SetNTP" /\ request' = request /\ pc' = "answer"
        /\ handed' = {list} \/ handed' = handed
    BY <1>6 DEF handle_set_ntp, Verdict
  <2>2. request \in Requests /\ request.action = "SetNTP"
    BY <2>1 DEF TInv, Doing, Setters
  <2> HIDE DEF list
  <2> QED
    BY <2>1, <2>2 DEF list
<1>7. CASE AnswerVerdict
  BY <1>7 DEF AnswerVerdict
<1>8. CASE WriteHead
  BY <1>8 DEF WriteHead, Write, Unless, AfterHead
<1>9. CASE WriteMiddle
  BY <1>9 DEF WriteMiddle, Write, Unless
<1>10. CASE WriteScope
  BY <1>10 DEF WriteScope, Write, Unless
<1>11. CASE WriteTail
  BY <1>11 DEF WriteTail
<1>12. CASE SendBuilt
  BY <1>12 DEF SendBuilt, Reply
<1>13. CASE send_fault
  BY <1>13 DEF send_fault, Reply
<1>14. CASE Finish
  BY <1>14 DEF Finish
<1>15. CASE Host
  BY <1>15 DEF Host, Tick, Synchronise, HostOnly
<1>16. CASE UNCHANGED vars
  BY <1>16 DEF vars
<1> QED
  BY <1>1, <1>2, <1>3, <1>4, <1>5, <1>6, <1>7, <1>8, <1>9, <1>10, <1>11, <1>12, <1>13, <1>14,
     <1>15, <1>16 DEF Next, Httpd

LEMMA HandedInvAlways == Spec => []HandedInv
<1>1. Init => HandedInv
  BY DEF Init, HandedInv
<1> QED
  BY <1>1, HandedStep, TInvAlways, PTL DEF Spec

(* Whatever is handed to the host of a SetSystemDateAndTime is what its    *)
(* body says, for bodies of any length in which the elements stand in any  *)
(* order among any others.                                                 *)
THEOREM DeviceAsAsked ==
    ASSUME \A r \in Requests : r.action = "SetSystemDateAndTime" => Says(r.body, r.asked)
    PROVE  Spec => []AsAsked
<1>1. ASSUME HandedInv PROVE AsAsked
  <2> SUFFICES ASSUME request.action = "SetSystemDateAndTime", NEW r \in handed
               PROVE  AsSaid(r, request.asked)
    BY DEF AsAsked, AsSaid
  <2>1. request \in Requests /\ r \in onvif_time_parse_set_request(request.body)
    BY <1>1 DEF HandedInv
  <2>2. request.body \in Body
    BY <2>1, DeviceAssumption DEF Setters
  <2> QED
    BY <2>1, <2>2, ParsedAsSaid
<1> QED
  BY <1>1, HandedInvAlways, PTL

-----------------------------------------------------------------------------
(* Two sets of positions that a rising function matches: what is picked at *)
(* them is the same if it is the same at every pair.                       *)
Rises(f, S, T) ==
    /\ f = [i \in S |-> f[i]] /\ \A i \in S : f[i] \in T
    /\ \A i, j \in S : i < j => f[i] < f[j]
    /\ \A t \in T : \E i \in S : f[i] = t

Positions(S) == \E n \in Nat : S \in SUBSET (1 .. n)

Alike(s, t, f, S) == \A i \in S : t[f[i]] = s[i]

LEMMA SameSize ==
    ASSUME NEW n \in Nat, NEW S \in SUBSET (1 .. n), NEW m \in Nat, NEW T \in SUBSET (1 .. m),
           NEW f, Rises(f, S, T)
    PROVE  Cardinality(T) = Cardinality(S)
<1>1. \A i \in S : i \in Nat
  OBVIOUS
<1>2. \A t \in T : t \in Nat
  OBVIOUS
<1>3. \A i, j \in S : f[i] = f[j] => i = j
  BY <1>1, <1>2 DEF Rises
<1>4. f \in [S -> T]
  BY DEF Rises
<1>5. f \in Bijection(S, T)
  BY <1>3, <1>4 DEF Rises, Bijection, Injection, Surjection, IsInjective
<1>6. IsFiniteSet(S)
  BY CountType
<1> QED
  BY <1>5, <1>6, FS_Bijection DEF ExistsBijection

LEMMA SameCount ==
    ASSUME NEW n \in Nat, NEW S \in SUBSET (1 .. n), NEW m \in Nat, NEW T \in SUBSET (1 .. m),
           NEW f, Rises(f, S, T), NEW i \in S
    PROVE  Count(T, f[i]) = Count(S, i)
<1> DEFINE A == {x \in S : x <= i}
           B == {y \in T : y <= f[i]}
           g == [x \in A |-> f[x]]
<1>1. \A x \in S : x \in Nat /\ f[x] \in T /\ f[x] \in Nat
  BY DEF Rises
<1>2. \A x, y \in S : x < y => f[x] < f[y]
  BY DEF Rises
<1>3. \A x \in S : x <= i <=> f[x] <= f[i]
  BY <1>1, <1>2
<1>4. A \in SUBSET (1 .. n) /\ B \in SUBSET (1 .. m)
  OBVIOUS
<1>5. \A x \in A : x \in S /\ g[x] = f[x] /\ g[x] \in B
  BY <1>1, <1>3
<1>6. \A t \in B : \E x \in A : g[x] = t
  <2> SUFFICES ASSUME NEW t \in B PROVE \E x \in A : g[x] = t
    OBVIOUS
  <2>1. PICK x \in S : f[x] = t
    BY DEF Rises
  <2>2. x \in A
    BY <1>3, <2>1
  <2> QED
    BY <2>1, <2>2
<1>7. g = [x \in A |-> g[x]]
  OBVIOUS
<1> HIDE DEF A, B, g
<1>8. Rises(g, A, B)
  BY <1>2, <1>5, <1>6, <1>7 DEF Rises
<1>9. Cardinality(B) = Cardinality(A)
  BY <1>4, <1>8, SameSize
<1> QED
  BY <1>9 DEF Count, A, B

LEMMA SamePicked ==
    ASSUME NEW S, NEW T, NEW f, NEW s, NEW t, Positions(S), Positions(T),
           Rises(f, S, T), Alike(s, t, f, S)
    PROVE  Cardinality(T) = Cardinality(S) /\ Picked(t, T) = Picked(s, S)
<1>0. PICK n \in Nat, m \in Nat : S \in SUBSET (1 .. n) /\ T \in SUBSET (1 .. m)
  BY DEF Positions
<1>1. Cardinality(T) = Cardinality(S)
  BY <1>0, SameSize
<1>2. ASSUME NEW k \in 1 .. Cardinality(S)
      PROVE  t[Nth(T, k)] = s[Nth(S, k)]
  <2>1. Nth(S, k) \in S /\ Count(S, Nth(S, k)) = k
    BY <1>0, CountOfNth
  <2>2. f[Nth(S, k)] \in T /\ Count(T, f[Nth(S, k)]) = k
    BY <1>0, <2>1, SameCount DEF Rises
  <2>3. Nth(T, k) = f[Nth(S, k)]
    BY <1>0, <2>2, NthOfCount
  <2> QED
    BY <2>1, <2>3 DEF Alike
<1> QED
  BY <1>1, <1>2 DEF Picked

(* The k-th rises with k. *)
LEMMA NthRises ==
    ASSUME NEW n \in Nat, NEW S \in SUBSET (1 .. n), NEW k \in 1 .. Cardinality(S),
           NEW l \in 1 .. Cardinality(S), k < l
    PROVE  Nth(S, k) < Nth(S, l)
<1>1. /\ Nth(S, k) \in S /\ Count(S, Nth(S, k)) = k
      /\ Nth(S, l) \in S /\ Count(S, Nth(S, l)) = l
  BY CountOfNth
<1> DEFINE a == Nth(S, k)
           b == Nth(S, l)
<1>2. a \in Int /\ b \in Int /\ Count(S, a) = k /\ Count(S, b) = l
  <2>1. \A x \in S : x \in Int
    OBVIOUS
  <2> QED
    BY <1>1, <2>1
<1>3. Cardinality(S) \in Nat
  BY CountType
<1> HIDE DEF a, b
<1>4. b <= a => Count(S, b) <= Count(S, a)
  BY <1>2, CountRises
<1>5. ~(b <= a)
  BY <1>2, <1>3, <1>4
<1> QED
  BY <1>2, <1>5 DEF a, b

Begins(s, t, m) == \A i \in 1 .. m : t[i] = s[i]

(* What is picked of the first m elements is the first that is picked.     *)
LEMMA PickedPrefix ==
    ASSUME NEW S, Positions(S), NEW m \in Nat, NEW s, NEW t, Begins(s, t, m)
    PROVE  LET first == {i \in S : i <= m}
           IN  /\ Len(Picked(t, first)) = Cardinality(first) /\ Cardinality(first) \in Nat
               /\ Cardinality(first) <= Cardinality(S) /\ Cardinality(S) \in Nat
               /\ \A k \in 1 .. Cardinality(first) : Picked(t, first)[k] = Picked(s, S)[k]
<1> DEFINE first == {i \in S : i <= m}
<1> PICK n \in Nat : S \in SUBSET (1 .. n)
  BY DEF Positions
<1>0. \A i \in S : i \in Nat /\ 1 <= i
  OBVIOUS
<1>1. first \in SUBSET (1 .. n) /\ \A i \in first : i \in S /\ i \in 1 .. m
  <2>1. first \in SUBSET (1 .. n)
    OBVIOUS
  <2>2. ASSUME NEW i \in first PROVE i \in S /\ i \in 1 .. m
    <3>1. i \in S /\ i <= m
      BY <2>2
    <3> QED
      BY <1>0, <3>1
  <2> QED
    BY <2>1, <2>2
<1>2. /\ Cardinality(first) \in Nat /\ Cardinality(first) <= Cardinality(S)
      /\ Cardinality(S) \in Nat
  <2>1. Cardinality(first) = Count(S, m)
    BY DEF Count
  <2> QED
    BY <2>1, CountType
<1>3. ASSUME NEW k \in 1 .. Cardinality(first)
      PROVE  Picked(t, first)[k] = Picked(s, S)[k]
  <2> DEFINE i == Nth(first, k)
  <2>1. i \in first /\ Count(first, i) = k
    <3> HIDE DEF first
    <3> QED
      BY <1>1, CountOfNth
  <2>2. \A j \in S : j <= i => j \in first
    <3>1. i \in Nat /\ i <= m
      BY <1>0, <2>1
    <3> HIDE DEF i
    <3>2. ASSUME NEW j \in S, j <= i PROVE j <= m
      BY <1>0, <3>1, <3>2
    <3> QED
      BY <3>2
  <2> HIDE DEF i
  <2>3. {j \in first : j <= i} = {j \in S : j <= i}
    BY <1>1, <2>2
  <2> HIDE DEF first
  <2>4. Count(S, i) = k
    BY <2>1, <2>3 DEF Count
  <2>5. Nth(S, k) = i
    BY <1>1, <2>1, <2>4, NthOfCount
  <2>6. k \in 1 .. Cardinality(S)
    BY <1>2
  <2>7. Picked(t, first)[k] = t[i] /\ Picked(s, S)[k] = s[i]
    BY <2>5, <2>6 DEF Picked, i
  <2> QED
    BY <1>1, <2>1, <2>7 DEF Begins
<1>4. Len(Picked(t, first)) = Cardinality(first)
  <2> HIDE DEF first
  <2> QED
    BY <1>2 DEF Picked
<1> QED
  BY <1>2, <1>3, <1>4

(* What is picked, where S is made of a low part and a high one: what is   *)
(* picked of the low part, and then of the high one.                       *)
PickedIn(n, s, S, low, high) ==
    /\ low \in SUBSET (1 .. n) /\ high \in SUBSET (1 .. n)
    /\ Cardinality(low) \in Nat /\ Cardinality(high) \in Nat
    /\ Cardinality(S) = Cardinality(low) + Cardinality(high)
    /\ \A k \in 1 .. Cardinality(low) : Picked(s, S)[k] = Picked(s, low)[k]
    /\ \A k \in 1 .. Cardinality(high) :
          Picked(s, S)[Cardinality(low) + k] = Picked(s, high)[k]

(* So it is for the members of S up to any m, and for those above it.      *)
LEMMA PickedSplit ==
    ASSUME NEW n \in Nat, NEW S \in SUBSET (1 .. n), NEW m \in Nat, NEW s
    PROVE  PickedIn(n, s, S, {i \in S : i <= m}, S \ {i \in S : i <= m})
<1> DEFINE low == {i \in S : i <= m}
           high == S \ low
<1>0. \A i \in S : i \in Nat /\ 1 <= i
  OBVIOUS
<1>1. low \in SUBSET (1 .. n) /\ high \in SUBSET (1 .. n)
  OBVIOUS
<1>2. /\ \A i \in low : i \in S /\ i \in Nat /\ i <= m
      /\ \A i \in high : i \in S /\ i \in Nat /\ ~(i <= m)
      /\ S = low \cup high /\ low \cap high = {}
  BY <1>0
<1> HIDE DEF low, high
<1>3. /\ IsFiniteSet(low) /\ Cardinality(low) \in Nat
      /\ IsFiniteSet(high) /\ Cardinality(high) \in Nat
      /\ Cardinality(S) \in Nat
  BY <1>1, CountType
<1>4. Cardinality(S) = Cardinality(low) + Cardinality(high)
  <2>1. Cardinality(low \cap high) = 0
    BY <1>2, FS_EmptySet
  <2>2. Cardinality(low \cup high)
          = Cardinality(low) + Cardinality(high) - Cardinality(low \cap high)
    BY <1>3, FS_Union
  <2> QED
    BY <1>2, <1>3, <2>1, <2>2
<1>5. ASSUME NEW k \in 1 .. Cardinality(low) PROVE Picked(s, S)[k] = Picked(s, low)[k]
  <2> DEFINE i == Nth(low, k)
  <2>1. i \in low /\ Count(low, i) = k
    BY <1>1, CountOfNth
  <2> HIDE DEF i
  <2>2. {j \in S : j <= i} = {j \in low : j <= i}
    <3>1. \A j \in S : j <= i => j <= m
      BY <1>0, <1>2, <2>1
    <3> QED
      BY <1>2, <3>1
  <2>3. Count(S, i) = k
    BY <2>1, <2>2 DEF Count
  <2>4. i \in S
    BY <1>2, <2>1
  <2>5. Nth(S, k) = i
    BY <2>3, <2>4, NthOfCount
  <2>6. k \in 1 .. Cardinality(S)
    BY <1>3, <1>4
  <2> QED
    BY <2>5, <2>6 DEF Picked, i
<1>6. ASSUME NEW k \in 1 .. Cardinality(high)
      PROVE  Picked(s, S)[Cardinality(low) + k] = Picked(s, high)[k]
  <2> DEFINE i == Nth(high, k)
             B == {j \in high : j <= i}
             c == Cardinality(low) + k
  <2>1. i \in high /\ Count(high, i) = k
    BY <1>1, CountOfNth
  <2>2. IsFiniteSet(B) /\ Cardinality(B) = k
    BY <1>1, <2>1, CountType DEF Count
  <2> HIDE DEF i
  <2>3. {j \in S : j <= i} = low \cup B
    <3>1. \A j \in low : j <= i
      BY <1>2, <2>1
    <3> QED
      BY <1>2, <3>1
  <2>4. low \cap B = {}
    BY <1>2
  <2> HIDE DEF B
  <2>5. Cardinality(low \cap B) = 0
    BY <2>4, FS_EmptySet
  <2>6. Cardinality(low \cup B) = Cardinality(low) + Cardinality(B) - Cardinality(low \cap B)
    BY <1>3, <2>2, FS_Union
  <2>7. Count(S, i) = c
    BY <1>3, <2>2, <2>3, <2>5, <2>6 DEF Count
  <2>8. c \in 1 .. Cardinality(S)
    BY <1>3, <1>4
  <2> HIDE DEF c
  <2>9. Nth(S, c) = i
    <3>1. i \in S
      BY <1>2, <2>1
    <3> QED
      BY <2>7, <3>1, NthOfCount
  <2>10. Picked(s, S)[c] = s[i]
    BY <2>8, <2>9 DEF Picked
  <2>11. Picked(s, high)[k] = s[i]
    BY DEF Picked, i
  <2> QED
    BY <2>10, <2>11 DEF c
<1> QED
  BY <1>1, <1>3, <1>4, <1>5, <1>6 DEF PickedIn, low, high

(* All that is picked of a list is the list.                               *)
LEMMA PickedAll ==
    ASSUME NEW n \in Nat, NEW s
    PROVE  /\ Cardinality(1 .. n) = n
           /\ \A k \in 1 .. n : Picked(s, 1 .. n)[k] = s[k]
<1> DEFINE A == 1 .. n
<1>1. A \in SUBSET (1 .. n) /\ \A k \in Nat : k <= n => 0 + 1 .. k \subseteq A
  OBVIOUS
<1> HIDE DEF A
<1>2. Count(A, 0) = 0 /\ Count(A, n) = Cardinality(A)
  BY <1>1, CountEnds
<1>3. ASSUME NEW k \in Nat, k <= n PROVE Count(A, k) = k
  <2>1. 0 + 1 .. k \subseteq A
    BY <1>1, <1>3
  <2>2. 0 \in Nat /\ 0 <= k
    OBVIOUS
  <2>3. Count(A, k) = Count(A, 0) + (k - 0)
    BY <1>1, <2>1, <2>2, CountOfAll
  <2> QED
    BY <1>2, <2>3
<1>4. Cardinality(A) = n
  BY <1>2, <1>3
<1>5. ASSUME NEW k \in 1 .. n PROVE Picked(s, A)[k] = s[k]
  <2>1. Count(A, k) = k /\ k \in A
    BY <1>3 DEF A
  <2>2. Nth(A, k) = k
    BY <1>1, <2>1, NthOfCount
  <2> QED
    BY <1>4, <2>2 DEF Picked
<1> QED
  BY <1>4, <1>5 DEF A

LEMMA Wording == \A v, w : (Word(v) = Word(w) <=> v = w) /\ Word(v).word = v
<1>1. \A v : Word(v).word = v
  BY DEF Word
<1> QED
  BY <1>1

(* The servers of a family, as the parser finds them.                      *)
Takes(w) == w \notin {""} \cup Oversized

(* Those that the device can use, in the order in which it takes them.     *)
Servers(asked) == asked.v4 \o asked.v6

Usable(asked) == {i \in DOMAIN Servers(asked) : Takes(Servers(asked)[i])}

Wanted(asked) == Picked(Servers(asked), Usable(asked))

LEMMA FamilyListed ==
    ASSUME NEW body \in Body, NEW local, NEW ws, Lists(body, local, ws)
    PROVE  LET found == TextsBehind(body, local)
               taken == {k \in DOMAIN ws : Takes(ws[k])}
               real == {j \in DOMAIN found : found[j] # Blank}
           IN  /\ Len(ws) \in Nat /\ DOMAIN ws = 1 .. Len(ws)
               /\ Len(found) \in Nat /\ DOMAIN found = 1 .. Len(found)
               /\ \E f : Rises(f, taken, real) /\ \A k \in taken : found[f[k]] = Word(ws[k])
<1> DEFINE n == Len(body)
           text == [i \in DOMAIN body |-> TextAfter(body, i, Len(body) + 1)]
           O == Openings(body, local, DOMAIN body)
           C == {i \in DOMAIN body : /\ body[i].kind \in {"open", "close"} /\ body[i].name = local
                                     /\ text[i] # EmptyText /\ text[i].word \notin Oversized}
           found == TextsBehind(body, local)
           taken == {k \in DOMAIN ws : Takes(ws[k])}
           real == {j \in DOMAIN found : found[j] # Blank}
           f == [k \in taken |-> Count(C, Nth(O, k))]
<1>1. n \in Nat /\ DOMAIN body = 1 .. n /\ O \in SUBSET (1 .. n) /\ C \in SUBSET (1 .. n)
  <2>1. n \in Nat /\ DOMAIN body = 1 .. n
    BY BodyType
  <2> QED
    BY <2>1 DEF Openings
<1>2. /\ ws \in Seq(STRING) /\ \A k \in DOMAIN ws : ws[k] # "blank"
      /\ Picked(text, O) = [k \in DOMAIN ws |-> Word(ws[k])]
      /\ \A i \in DOMAIN body :
            body[i].kind = "close" /\ body[i].name = local => text[i] \in {EmptyText, Blank}
  BY DEF Lists
<1>3. found = Picked(text, C)
  BY DEF TextsBehind
<1>4. Len(ws) \in Nat /\ DOMAIN ws = 1 .. Len(ws)
  BY <1>2
<1>5. \A i \in DOMAIN body :
         i \in O <=> body[i].kind = "open" /\ body[i].name = local
  BY DEF Openings
<1>6. \A i \in DOMAIN body :
         i \in C <=> /\ body[i].kind \in {"open", "close"} /\ body[i].name = local
                     /\ text[i] # EmptyText /\ text[i].word \notin Oversized
  OBVIOUS
<1>7. \A k \in taken : k \in DOMAIN ws /\ ws[k] # "" /\ ws[k] \notin Oversized
  BY DEF Takes
<1>8. \A k \in DOMAIN ws : ws[k] # "" /\ ws[k] \notin Oversized => k \in taken
  BY DEF Takes
<1> HIDE DEF n, text, O, C, found
<1>9. Cardinality(O) = Len(ws) /\ DOMAIN Picked(text, O) = 1 .. Cardinality(O)
  <2>1. Cardinality(O) \in Nat /\ DOMAIN Picked(text, O) = 1 .. Cardinality(O)
        /\ Len(Picked(text, O)) = Cardinality(O)
    BY <1>1, CountType, PickedFields
  <2>2. Len([k \in DOMAIN ws |-> Word(ws[k])]) = Len(ws)
    BY <1>4
  <2> QED
    BY <1>2, <2>1, <2>2
<1>10. /\ Len(found) \in Nat /\ DOMAIN found = 1 .. Len(found) /\ Len(found) = Cardinality(C)
       /\ \A i \in C : Count(C, i) \in DOMAIN found /\ found[Count(C, i)] = text[i]
  BY <1>1, <1>3, CountType, PickedFields, NthOfCount
<1>11. ASSUME NEW k \in DOMAIN ws
       PROVE  Nth(O, k) \in O /\ Nth(O, k) \in DOMAIN body /\ text[Nth(O, k)] = Word(ws[k])
  <2>1. k \in 1 .. Cardinality(O)
    BY <1>4, <1>9
  <2>2. Nth(O, k) \in O
    BY <1>1, <2>1, CountOfNth
  <2>3. Picked(text, O)[k] = text[Nth(O, k)]
    BY <2>1 DEF Picked
  <2> QED
    BY <1>1, <1>2, <2>2, <2>3
<1> HIDE DEF taken
<1>12. ASSUME NEW k \in taken
       PROVE  /\ Nth(O, k) \in C /\ f[k] = Count(C, Nth(O, k))
              /\ f[k] \in real /\ found[f[k]] = Word(ws[k])
  <2>1. k \in DOMAIN ws /\ ws[k] # "" /\ ws[k] \notin Oversized
    BY <1>7
  <2>2. Nth(O, k) \in O /\ Nth(O, k) \in DOMAIN body /\ text[Nth(O, k)] = Word(ws[k])
    BY <1>11, <2>1
  <2>3. text[Nth(O, k)] # EmptyText /\ text[Nth(O, k)].word = ws[k] /\ Word(ws[k]) # Blank
    BY <1>2, <2>1, <2>2, Wording DEF EmptyText, Blank
  <2>4. Nth(O, k) \in C
    BY <1>5, <1>6, <2>1, <2>2, <2>3
  <2>5. f[k] \in DOMAIN found /\ found[f[k]] = Word(ws[k])
    BY <1>10, <2>2, <2>4
  <2> QED
    BY <2>3, <2>4, <2>5
<1>13. ASSUME NEW k \in taken, NEW l \in taken, k < l PROVE f[k] < f[l]
  <2>1. k \in 1 .. Cardinality(O) /\ l \in 1 .. Cardinality(O)
    BY <1>4, <1>7, <1>9
  <2>2. Nth(O, k) < Nth(O, l)
    BY <1>1, <1>13, <2>1, NthRises
  <2>3. Nth(O, k) \in C /\ Nth(O, l) \in C
    BY <1>12
  <2>4. \A x \in C : x \in Int
    BY <1>1
  <2> DEFINE a == Nth(O, k)
             b == Nth(O, l)
  <2>5. a \in Int /\ b \in Int /\ a < b /\ a <= b /\ b \in C
    BY <2>2, <2>3, <2>4
  <2> HIDE DEF a, b
  <2>6. Count(C, a) < Count(C, b)
    BY <1>1, <2>5, CountRises
  <2> QED
    BY <2>6 DEF a, b
<1>14. ASSUME NEW j \in real PROVE \E k \in taken : f[k] = j
  <2>1. j \in DOMAIN found /\ found[j] # Blank
    OBVIOUS
  <2> DEFINE i == Nth(C, j)
  <2>2. i \in C /\ Count(C, i) = j
    BY <1>1, <1>10, <2>1, CountOfNth
  <2>3. text[i] = found[j]
    BY <1>10, <2>2
  <2> HIDE DEF i
  <2>4. /\ i \in DOMAIN body /\ body[i].kind \in {"open", "close"} /\ body[i].name = local
        /\ text[i] # EmptyText /\ text[i].word \notin Oversized
    BY <1>1, <1>6, <2>2
  <2>5. i \in O
    BY <1>2, <1>5, <2>1, <2>3, <2>4
  <2> DEFINE k == Count(O, i)
  <2>6. k \in DOMAIN ws /\ Nth(O, k) = i
    BY <1>1, <1>4, <1>9, <2>5, NthOfCount
  <2> HIDE DEF k
  <2>7. text[i] = Word(ws[k])
    BY <1>11, <2>6
  <2>8. ws[k] # "" /\ ws[k] \notin Oversized
    BY <2>4, <2>7, Wording DEF EmptyText
  <2>9. k \in taken
    BY <1>8, <2>6, <2>8
  <2>10. f[k] = j
    BY <2>2, <2>6, <2>9
  <2> QED
    BY <2>9, <2>10
<1>15. f = [k \in taken |-> f[k]]
  OBVIOUS
<1> HIDE DEF f, real
<1>16. Rises(f, taken, real) /\ \A k \in taken : found[f[k]] = Word(ws[k])
  BY <1>12, <1>13, <1>14, <1>15 DEF Rises
<1> QED
  BY <1>4, <1>10, <1>16 DEF taken, real, found

LEMMA Joined ==
    ASSUME NEW S, NEW s \in Seq(S), NEW t \in Seq(S)
    PROVE  LET all == s \o t
           IN  /\ Len(s) \in Nat /\ Len(t) \in Nat /\ Len(all) = Len(s) + Len(t)
               /\ DOMAIN all = 1 .. Len(all) /\ all \in Seq(S)
               /\ \A i \in DOMAIN s : i \in DOMAIN all /\ i <= Len(s) /\ all[i] = s[i]
               /\ \A i \in DOMAIN t : Len(s) + i \in DOMAIN all /\ all[Len(s) + i] = t[i]
               /\ \A i \in DOMAIN all :
                     \/ i \in DOMAIN s /\ i <= Len(s) /\ all[i] = s[i]
                     \/ i > Len(s) /\ i - Len(s) \in DOMAIN t /\ all[i] = t[i - Len(s)]
  OBVIOUS

(* The servers of both families, in the order of the list.                 *)
LEMMA ServersListed ==
    ASSUME NEW body \in Body, NEW asked, SaysServers(body, asked)
    PROVE  LET all == TextsBehind(body, "IPv4Address") \o TextsBehind(body, "IPv6Address")
               real == {j \in DOMAIN all : all[j] # Blank}
           IN  /\ Len(all) \in Nat /\ DOMAIN all = 1 .. Len(all)
               /\ Len(Wanted(asked)) \in Nat /\ Cardinality(real) = Len(Wanted(asked))
               /\ \A k \in 1 .. Len(Wanted(asked)) : Picked(all, real)[k] = Word(Wanted(asked)[k])
<1> DEFINE T == {TextAfter(body, i, Len(body) + 1) : i \in DOMAIN body}
           s4 == asked.v4
           s6 == asked.v6
           s == s4 \o s6
           t4 == TextsBehind(body, "IPv4Address")
           t6 == TextsBehind(body, "IPv6Address")
           t == t4 \o t6
           U == {i \in DOMAIN s : Takes(s[i])}
           U4 == {i \in DOMAIN s4 : Takes(s4[i])}
           U6 == {i \in DOMAIN s6 : Takes(s6[i])}
           R == {j \in DOMAIN t : t[j] # Blank}
           R4 == {j \in DOMAIN t4 : t4[j] # Blank}
           R6 == {j \in DOMAIN t6 : t6[j] # Blank}
<1>1. s4 \in Seq(STRING) /\ s6 \in Seq(STRING)
  BY DEF SaysServers, Lists
<1>2. t4 \in Seq(T) /\ t6 \in Seq(T)
  BY ServersBehind
<1>3. /\ Len(s4) \in Nat /\ DOMAIN s4 = 1 .. Len(s4) /\ Len(t4) \in Nat /\ DOMAIN t4 = 1 .. Len(t4)
      /\ \E f : Rises(f, U4, R4) /\ \A k \in U4 : t4[f[k]] = Word(s4[k])
  <2>1. Lists(body, "IPv4Address", s4)
    BY DEF SaysServers
  <2> HIDE DEF s4
  <2> QED
    BY <2>1, FamilyListed
<1>4. /\ Len(s6) \in Nat /\ DOMAIN s6 = 1 .. Len(s6) /\ Len(t6) \in Nat /\ DOMAIN t6 = 1 .. Len(t6)
      /\ \E f : Rises(f, U6, R6) /\ \A k \in U6 : t6[f[k]] = Word(s6[k])
  <2>1. Lists(body, "IPv6Address", s6)
    BY DEF SaysServers
  <2> HIDE DEF s6
  <2> QED
    BY <2>1, FamilyListed
<1>5. Usable(asked) = U /\ Servers(asked) = s
  BY DEF Usable, Servers, Takes
<1> DEFINE a == Len(s4)
           b == Len(t4)
<1>6. /\ a \in Nat /\ Len(s) \in Nat /\ DOMAIN s = 1 .. Len(s)
      /\ \A i \in DOMAIN s4 : i \in DOMAIN s /\ i <= a /\ s[i] = s4[i]
      /\ \A i \in DOMAIN s6 : a + i \in DOMAIN s /\ s[a + i] = s6[i]
      /\ \A i \in DOMAIN s :
            \/ i \in DOMAIN s4 /\ i <= a /\ s[i] = s4[i]
            \/ i > a /\ i - a \in DOMAIN s6 /\ s[i] = s6[i - a]
  <2> HIDE DEF s4, s6
  <2> QED
    BY <1>1, Joined
<1>7. /\ b \in Nat /\ Len(t) \in Nat /\ DOMAIN t = 1 .. Len(t)
      /\ \A i \in DOMAIN t4 : i \in DOMAIN t /\ i <= b /\ t[i] = t4[i]
      /\ \A i \in DOMAIN t6 : b + i \in DOMAIN t /\ t[b + i] = t6[i]
      /\ \A i \in DOMAIN t :
            \/ i \in DOMAIN t4 /\ i <= b /\ t[i] = t4[i]
            \/ i > b /\ i - b \in DOMAIN t6 /\ t[i] = t6[i - b]
  <2> HIDE DEF t4, t6, T
  <2> QED
    BY <1>2, Joined
<1>8. PICK f4 : Rises(f4, U4, R4) /\ \A k \in U4 : t4[f4[k]] = Word(s4[k])
  BY <1>3
<1>9. PICK f6 : Rises(f6, U6, R6) /\ \A k \in U6 : t6[f6[k]] = Word(s6[k])
  BY <1>4
<1> HIDE DEF s4, s6, s, t4, t6, t, T, a, b
<1>10. \A i \in U : i \in Int /\ ((i \in U4 /\ i <= a) \/ (i > a /\ i - a \in U6))
  <2>1. \A i \in U : i \in DOMAIN s /\ i \in Int /\ Takes(s[i])
    BY <1>6
  <2> HIDE DEF U
  <2> QED
    BY <1>6, <2>1
<1>11. /\ \A i \in U4 : i \in U /\ i <= a /\ i \in Int /\ s[i] = s4[i]
       /\ \A i \in U6 : a + i \in U /\ i \in Int /\ 1 <= i /\ s[a + i] = s6[i]
  BY <1>3, <1>4, <1>6
<1>12. \A j \in R : j \in Int /\ (j \in R4 \/ (j > b /\ j - b \in R6))
  <2>1. \A j \in R : j \in DOMAIN t /\ j \in Int /\ t[j] # Blank
    BY <1>7
  <2> HIDE DEF R
  <2> QED
    BY <1>7, <2>1
<1>13. /\ \A j \in R4 : j \in R /\ j <= b /\ j \in Int /\ t[j] = t4[j]
       /\ \A j \in R6 : b + j \in R /\ j \in Int /\ 1 <= j /\ t[b + j] = t6[j]
  BY <1>3, <1>4, <1>7
<1> HIDE DEF U, U4, U6, R, R4, R6
<1> DEFINE f == [i \in U |-> IF i <= a THEN f4[i] ELSE b + f6[i - a]]
<1>14. ASSUME NEW i \in U
       PROVE  /\ f[i] \in R /\ f[i] \in Int /\ t[f[i]] = Word(s[i])
              /\ i <= a => i \in U4 /\ f[i] = f4[i] /\ f[i] <= b
              /\ i > a => i - a \in U6 /\ f[i] = b + f6[i - a] /\ f6[i - a] \in Int /\ f[i] > b
  <2>1. CASE i <= a
    <3>1. i \in U4 /\ f[i] = f4[i] /\ ~(i > a)
      BY <1>6, <1>10, <2>1
    <3>2. f4[i] \in R4 /\ t4[f4[i]] = Word(s4[i])
      BY <1>8, <3>1 DEF Rises
    <3> QED
      BY <1>11, <1>13, <2>1, <3>1, <3>2
  <2>2. CASE ~(i <= a)
    <3>1. i - a \in U6 /\ f[i] = b + f6[i - a]
      BY <1>6, <1>10, <2>2
    <3>2. f6[i - a] \in R6 /\ t6[f6[i - a]] = Word(s6[i - a])
      BY <1>9, <3>1 DEF Rises
    <3>3. s[i] = s6[i - a]
      <4> DEFINE k == i - a
      <4>1. k \in U6 /\ a + k = i
        BY <1>6, <1>10, <3>1
      <4> HIDE DEF k
      <4>2. s[a + k] = s6[k]
        BY <1>11, <4>1
      <4> QED
        BY <4>1, <4>2 DEF k
    <3> DEFINE l == f6[i - a]
    <3>4. l \in R6 /\ t6[l] = Word(s[i]) /\ f[i] = b + l
      BY <3>1, <3>2, <3>3
    <3> HIDE DEF l
    <3>5. b + l \in R /\ l \in Int /\ 1 <= l /\ t[b + l] = t6[l]
      BY <1>13, <3>4
    <3>6. b + l \in Int /\ b + l > b
      BY <1>7, <3>5
    <3> HIDE DEF f
    <3> QED
      BY <2>2, <3>1, <3>4, <3>5, <3>6 DEF l
  <2> QED
    BY <2>1, <2>2
<1>15. ASSUME NEW i \in U, NEW j \in U, i < j PROVE f[i] < f[j]
  <2>1. i \in Int /\ j \in Int /\ a \in Int /\ b \in Int
    BY <1>6, <1>7, <1>10
  <2>2. CASE j <= a
    <3>1. i \in U4 /\ j \in U4 /\ f[i] = f4[i] /\ f[j] = f4[j]
      BY <1>14, <1>15, <2>1, <2>2
    <3> QED
      BY <1>8, <1>15, <3>1 DEF Rises
  <2>3. CASE i <= a /\ j > a
    <3>1. f[i] <= b /\ f[j] > b /\ f[i] \in Int /\ f[j] \in Int
      BY <1>14, <2>3
    <3> HIDE DEF f
    <3> QED
      BY <2>1, <3>1
  <2>4. CASE i > a /\ j > a
    <3> DEFINE k == i - a
               l == j - a
    <3>1. /\ k \in U6 /\ l \in U6 /\ f[i] = b + f6[k] /\ f[j] = b + f6[l]
          /\ f6[k] \in Int /\ f6[l] \in Int
      BY <1>14, <2>4
    <3>2. k < l
      BY <1>15, <2>1
    <3> HIDE DEF k, l, f
    <3>3. f6[k] < f6[l]
      BY <1>9, <3>1, <3>2 DEF Rises
    <3> QED
      BY <2>1, <3>1, <3>3
  <2> QED
    BY <1>15, <2>1, <2>2, <2>3, <2>4
<1>16. ASSUME NEW j \in R PROVE \E i \in U : f[i] = j
  <2>1. CASE j \in R4
    <3>1. PICK i \in U4 : f4[i] = j
      BY <1>8, <2>1 DEF Rises
    <3> QED
      BY <1>11, <3>1
  <2>2. CASE j > b /\ j - b \in R6
    <3>1. PICK k \in U6 : f6[k] = j - b
      BY <1>9, <2>2 DEF Rises
    <3>2. a + k \in U /\ k \in Int /\ 1 <= k
      BY <1>11
    <3>3. ~(a + k <= a) /\ a + k - a = k
      BY <1>6, <3>2
    <3>4. f[a + k] = b + f6[k]
      <4> DEFINE i == a + k
      <4>1. f[i] = IF i <= a THEN f4[i] ELSE b + f6[i - a]
        BY <3>2
      <4>2. ~(i <= a) /\ i - a = k
        BY <1>6, <3>2
      <4> HIDE DEF f, i
      <4>3. f[i] = b + f6[k]
        BY <4>1, <4>2
      <4> QED
        BY <4>3 DEF i
    <3>5. b + f6[k] = j
      BY <1>7, <1>12, <3>1
    <3> QED
      BY <3>2, <3>4, <3>5
  <2> QED
    BY <1>12, <2>1, <2>2
<1>17. f = [i \in U |-> f[i]]
  OBVIOUS
<1> HIDE DEF f
<1>18. Rises(f, U, R)
  BY <1>14, <1>15, <1>16, <1>17 DEF Rises
<1>19. U \in SUBSET (1 .. Len(s)) /\ R \in SUBSET (1 .. Len(t))
  BY <1>6, <1>7 DEF U, R
<1> DEFINE words == [i \in DOMAIN s |-> Word(s[i])]
<1>20. \A i \in U : words[i] = Word(s[i])
  BY DEF U
<1>21. Cardinality(R) = Cardinality(U) /\ Picked(t, R) = Picked(words, U)
  <2>1. \A i \in U : t[f[i]] = words[i]
    BY <1>14, <1>20
  <2> HIDE DEF words
  <2>2. Alike(words, t, f, U)
    BY <2>1 DEF Alike
  <2>3. Positions(U) /\ Positions(R)
    BY <1>6, <1>7, <1>19 DEF Positions
  <2> QED
    BY <1>18, <2>2, <2>3, SamePicked
<1>22. /\ Wanted(asked) = Picked(s, U) /\ Len(Picked(s, U)) = Cardinality(U)
       /\ Cardinality(U) \in Nat
  BY <1>5, <1>6, <1>19, CountType, PickedFields DEF Wanted
<1>23. ASSUME NEW k \in 1 .. Cardinality(U)
       PROVE  Picked(words, U)[k] = Word(Picked(s, U)[k])
  <2>1. Nth(U, k) \in U
    BY <1>6, <1>19, CountOfNth
  <2> QED
    BY <1>20, <2>1 DEF Picked
<1> QED
  BY <1>7, <1>21, <1>22, <1>23 DEF t, t4, t6, R

(* They are those of the one family and then those of the other.           *)
LEMMA WantedOfBoth ==
    ASSUME NEW asked, asked.v4 \in Seq(STRING), asked.v6 \in Seq(STRING)
    PROVE  LET u4 == UsableOf(asked.v4)
               u6 == UsableOf(asked.v6)
               wanted == Wanted(asked)
           IN  /\ Len(u4) \in Nat /\ Len(u6) \in Nat /\ Len(wanted) = Len(u4) + Len(u6)
               /\ \A k \in 1 .. Len(u4) : wanted[k] = u4[k]
               /\ \A k \in 1 .. Len(u6) : wanted[Len(u4) + k] = u6[k]
<1> DEFINE s4 == asked.v4
           s6 == asked.v6
           s == s4 \o s6
           a == Len(s4)
           U == {i \in DOMAIN s : Takes(s[i])}
           U4 == {i \in DOMAIN s4 : Takes(s4[i])}
           U6 == {i \in DOMAIN s6 : Takes(s6[i])}
           low == {i \in U : i <= a}
           high == U \ low
<1>1. Wanted(asked) = Picked(s, U)
  BY DEF Wanted, Usable, Servers
<1>2. UsableOf(s4) = Picked(s4, U4) /\ UsableOf(s6) = Picked(s6, U6)
  BY DEF UsableOf, Takes
<1>3. /\ a \in Nat /\ Len(s6) \in Nat /\ Len(s) \in Nat /\ DOMAIN s = 1 .. Len(s)
      /\ DOMAIN s4 = 1 .. a /\ DOMAIN s6 = 1 .. Len(s6)
      /\ \A i \in DOMAIN s4 : i \in DOMAIN s /\ i <= a /\ s[i] = s4[i]
      /\ \A i \in DOMAIN s6 : a + i \in DOMAIN s /\ s[a + i] = s6[i]
      /\ \A i \in DOMAIN s :
            \/ i \in DOMAIN s4 /\ i <= a /\ s[i] = s4[i]
            \/ i > a /\ i - a \in DOMAIN s6 /\ s[i] = s6[i - a]
  <2>1. s4 \in Seq(STRING) /\ s6 \in Seq(STRING)
    OBVIOUS
  <2> HIDE DEF s4, s6
  <2>2. DOMAIN s4 = 1 .. a /\ DOMAIN s6 = 1 .. Len(s6)
    BY <2>1
  <2> QED
    BY <2>1, <2>2, Joined
<1> HIDE DEF s4, s6, s, a
<1>4. U \in SUBSET (1 .. Len(s)) /\ U4 \in SUBSET (1 .. a) /\ U6 \in SUBSET (1 .. Len(s6))
  BY <1>3
<1>5. low = U4
  <2>1. \A i : i \in low <=> i \in DOMAIN s /\ Takes(s[i]) /\ i <= a
    OBVIOUS
  <2>2. \A i \in DOMAIN s : i \in Nat
    BY <1>3
  <2>3. \A i \in DOMAIN s : i <= a => i \in DOMAIN s4 /\ s[i] = s4[i]
    BY <1>3, <2>2
  <2>4. \A i : i \in U4 <=> i \in DOMAIN s4 /\ Takes(s4[i])
    OBVIOUS
  <2> HIDE DEF low, U4
  <2> QED
    BY <1>3, <2>1, <2>3, <2>4
<1>6. high = {i \in U : i > a}
  <2>1. \A i \in U : i \in Nat
    BY <1>4
  <2>2. \A i \in U : ~(i <= a) <=> i > a
    BY <1>3, <2>1
  <2> HIDE DEF U
  <2> QED
    BY <2>2
<1> DEFINE f == [i \in U6 |-> a + i]
<1>7. \A i \in U6 : f[i] = a + i /\ f[i] \in high /\ s[f[i]] = s6[i]
  <2>1. \A i \in U6 : i \in Nat /\ 1 <= i /\ i \in DOMAIN s6 /\ Takes(s6[i])
    BY <1>3
  <2>2. \A i \in U6 : a + i \in DOMAIN s /\ s[a + i] = s6[i] /\ a + i > a
    BY <1>3, <2>1
  <2>3. \A i \in U6 : a + i \in U
    BY <2>1, <2>2
  <2> HIDE DEF U, U6, high
  <2>4. \A i \in U6 : a + i \in high
    BY <1>6, <2>2, <2>3
  <2> QED
    BY <2>2, <2>4
<1>8. \A j \in high : \E i \in U6 : f[i] = j
  <2> SUFFICES ASSUME NEW j \in high PROVE \E i \in U6 : f[i] = j
    OBVIOUS
  <2>1. j \in DOMAIN s /\ Takes(s[j]) /\ j > a /\ j \in Nat
    BY <1>3, <1>6
  <2>2. j - a \in DOMAIN s6 /\ s[j] = s6[j - a] /\ a + (j - a) = j
    BY <1>3, <2>1
  <2>3. j - a \in U6
    BY <2>1, <2>2
  <2> HIDE DEF U6, high
  <2> QED
    BY <2>2, <2>3
<1>9. \A i, j \in U6 : i < j => f[i] < f[j]
  <2>1. \A i \in U6 : i \in Nat
    BY <1>4
  <2> HIDE DEF U6
  <2> QED
    BY <1>3, <2>1
<1>10. f = [i \in U6 |-> f[i]]
  OBVIOUS
<1> HIDE DEF f, U, U4, U6
<1>11. /\ low \in SUBSET (1 .. Len(s)) /\ high \in SUBSET (1 .. Len(s))
       /\ Cardinality(low) \in Nat /\ Cardinality(high) \in Nat
       /\ Cardinality(U) = Cardinality(low) + Cardinality(high)
       /\ \A k \in 1 .. Cardinality(low) : Picked(s, U)[k] = Picked(s, low)[k]
       /\ \A k \in 1 .. Cardinality(high) :
             Picked(s, U)[Cardinality(low) + k] = Picked(s, high)[k]
  <2>1. a \in Nat /\ Len(s) \in Nat /\ U \in SUBSET (1 .. Len(s))
    BY <1>3, <1>4
  <2>2. PickedIn(Len(s), s, U, low, high)
    BY ONLY <2>1, PickedSplit
  <2> HIDE DEF low, high
  <2> QED
    BY ONLY <2>2 DEF PickedIn
<1> HIDE DEF low, high
<1>12. Rises(f, U6, high) /\ Alike(s6, s, f, U6)
  BY <1>7, <1>8, <1>9, <1>10 DEF Rises, Alike
<1>13. Cardinality(high) = Cardinality(U6) /\ Picked(s, high) = Picked(s6, U6)
  <2>1. Positions(U6) /\ Positions(high)
    BY <1>3, <1>4, <1>11 DEF Positions
  <2> QED
    BY <1>12, <2>1, SamePicked
<1>14. \A k \in 1 .. Cardinality(low) : Picked(s, low)[k] = Picked(s4, U4)[k]
  <2> SUFFICES ASSUME NEW k \in 1 .. Cardinality(U4) PROVE Picked(s, U4)[k] = Picked(s4, U4)[k]
    BY <1>5
  <2>1. Nth(U4, k) \in U4
    BY <1>3, <1>4, CountOfNth
  <2>2. s[Nth(U4, k)] = s4[Nth(U4, k)]
    BY <1>3, <1>4, <2>1
  <2> QED
    BY <2>2 DEF Picked
<1>15. /\ Len(Picked(s4, U4)) = Cardinality(U4) /\ Len(Picked(s6, U6)) = Cardinality(U6)
       /\ Len(Picked(s, U)) = Cardinality(U)
  BY <1>3, <1>4, PickedFields
<1> QED
  BY <1>1, <1>2, <1>5, <1>11, <1>13, <1>14, <1>15 DEF s4, s6

(* Where no text stands behind the elements of a family, what is found is  *)
(* a server of that family.                                                *)
LEMMA FamilyOnly ==
    ASSUME NEW body \in Body, NEW local \in {"IPv4Address", "IPv6Address"}, NEW ws,
           Lists(body, local, ws), Unspaced(body),
           NEW j \in DOMAIN TextsBehind(body, local)
    PROVE  \E k \in DOMAIN ws : TextsBehind(body, local)[j] = Word(ws[k])
<1> DEFINE n == Len(body)
           text == [i \in DOMAIN body |-> TextAfter(body, i, Len(body) + 1)]
           O == Openings(body, local, DOMAIN body)
           C == {i \in DOMAIN body : /\ body[i].kind \in {"open", "close"} /\ body[i].name = local
                                     /\ text[i] # EmptyText /\ text[i].word \notin Oversized}
           i == Nth(C, j)
<1>1. n \in Nat /\ DOMAIN body = 1 .. n /\ O \in SUBSET (1 .. n) /\ C \in SUBSET (1 .. n)
  <2>1. n \in Nat /\ DOMAIN body = 1 .. n
    BY BodyType
  <2> QED
    BY <2>1 DEF Openings
<1>2. Picked(text, O) = [k \in DOMAIN ws |-> Word(ws[k])]
  BY DEF Lists
<1>3. TextsBehind(body, local) = Picked(text, C)
  BY DEF TextsBehind
<1>4. \A x \in C : x \in DOMAIN body /\ (x \in O \/ body[x].kind = "close")
                   /\ body[x].name = local /\ text[x] # EmptyText
  BY DEF Openings
<1>5. \A x \in C : x \in O
  BY <1>4 DEF Unspaced
<1> HIDE DEF n, text, O, C
<1>6. j \in 1 .. Cardinality(C) /\ TextsBehind(body, local)[j] = text[i]
  BY <1>3 DEF Picked
<1>7. i \in O
  BY <1>1, <1>5, <1>6, CountOfNth
<1> DEFINE k == Count(O, i)
<1>8. /\ k \in 1 .. Cardinality(O) /\ DOMAIN Picked(text, O) = 1 .. Cardinality(O)
      /\ Picked(text, O)[k] = text[i]
  BY <1>1, <1>7, NthOfCount, PickedFields
<1> HIDE DEF k, i
<1>9. k \in DOMAIN ws /\ text[i] = Word(ws[k])
  <2>1. DOMAIN Picked(text, O) = DOMAIN ws
    BY <1>2
  <2>2. k \in DOMAIN ws
    BY <1>8, <2>1
  <2> QED
    BY <1>2, <1>8, <2>2
<1> QED
  BY <1>6, <1>9

LEMMA NoBlanks ==
    ASSUME NEW body \in Body, NEW asked, SaysServers(body, asked), Unspaced(body)
    PROVE  LET all == TextsBehind(body, "IPv4Address") \o TextsBehind(body, "IPv6Address")
           IN  \A j \in DOMAIN all : all[j] # Blank
<1> DEFINE T == {TextAfter(body, i, Len(body) + 1) : i \in DOMAIN body}
           t4 == TextsBehind(body, "IPv4Address")
           t6 == TextsBehind(body, "IPv6Address")
           all == t4 \o t6
<1>1. /\ Lists(body, "IPv4Address", asked.v4) /\ Lists(body, "IPv6Address", asked.v6)
      /\ t4 \in Seq(T) /\ t6 \in Seq(T)
  BY ServersBehind DEF SaysServers
<1>2. /\ \A k \in DOMAIN asked.v4 : asked.v4[k] # "blank"
      /\ \A k \in DOMAIN asked.v6 : asked.v6[k] # "blank"
  BY <1>1 DEF Lists
<1>3. \A j \in DOMAIN t4 : \E k \in DOMAIN asked.v4 : t4[j] = Word(asked.v4[k])
  BY <1>1, FamilyOnly
<1>4. \A j \in DOMAIN t6 : \E k \in DOMAIN asked.v6 : t6[j] = Word(asked.v6[k])
  BY <1>1, FamilyOnly
<1> HIDE DEF t4, t6, T
<1>5. \A j \in DOMAIN t4 : t4[j] # Blank
  BY <1>2, <1>3, Wording DEF Blank
<1>6. \A j \in DOMAIN t6 : t6[j] # Blank
  BY <1>2, <1>4, Wording DEF Blank
<1>7. \A j \in DOMAIN all : \/ j \in DOMAIN t4 /\ all[j] = t4[j]
                            \/ j - Len(t4) \in DOMAIN t6 /\ all[j] = t6[j - Len(t4)]
  BY <1>1, Joined
<1> HIDE DEF all
<1>8. \A j \in DOMAIN all : all[j] # Blank
  BY <1>5, <1>6, <1>7
<1> QED
  BY <1>8 DEF all, t4, t6

(* The list that is handed over: as many of them as fit.                   *)
LEMMA ParsedServers ==
    ASSUME NEW body \in Body, NEW asked, SaysServers(body, asked)
    PROVE  LET list == onvif_time_parse_set_ntp(body)
               real == Real(list)
               wanted == Wanted(asked)
           IN  /\ Len(real) <= Len(wanted)
               /\ Len(real) \in Nat /\ DOMAIN real = 1 .. Len(real)
               /\ \A i \in DOMAIN real : real[i] = Word(wanted[i])
               /\ Unspaced(body) =>
                     Len(real) = IF Len(wanted) < ServerSlots THEN Len(wanted) ELSE ServerSlots
<1> DEFINE all == TextsBehind(body, "IPv4Address") \o TextsBehind(body, "IPv6Address")
           n == Len(all)
           m == IF n < ServerSlots THEN n ELSE ServerSlots
           list == onvif_time_parse_set_ntp(body)
           R == {j \in DOMAIN all : all[j] # Blank}
           F == {j \in R : j <= m}
           wanted == Wanted(asked)
<1>1. list = SubSeq(all, 1, m)
  BY DEF onvif_time_parse_set_ntp, FirstOf
<1>2. /\ n \in Nat /\ DOMAIN all = 1 .. n
      /\ Len(wanted) \in Nat /\ Cardinality(R) = Len(wanted)
      /\ \A k \in 1 .. Len(wanted) : Picked(all, R)[k] = Word(wanted[k])
  BY ServersListed
<1>3. R \in SUBSET (1 .. n)
  BY <1>2
<1> HIDE DEF all, n, list, wanted
<1>4. m \in Nat /\ m <= n /\ m <= ServerSlots /\ (m < ServerSlots => m = n)
  BY <1>2, TimeConfigAssumption
<1> HIDE DEF m
<1>5. Len(list) = m /\ DOMAIN list = 1 .. m /\ \A i \in 1 .. m : list[i] = all[i]
  BY <1>1, <1>4
<1>6. {i \in DOMAIN list : list[i] # Blank} = F
  <2>1. \A i \in Nat : i \in 1 .. n /\ i <= m <=> i \in 1 .. m
    BY <1>2, <1>4
  <2>2. \A i \in 1 .. n : i \in R <=> all[i] # Blank
    BY <1>2
  <2>3. \A i \in 1 .. m : i \in F <=> list[i] # Blank
    BY <1>2, <1>4, <1>5, <2>1, <2>2
  <2>4. F \subseteq 1 .. m
    BY <1>3, <2>1
  <2> HIDE DEF F
  <2> QED
    BY <1>5, <2>3, <2>4
<1> HIDE DEF R
<1>7. Real(list) = Picked(list, F)
  BY <1>6 DEF Real
<1>8. /\ Len(Picked(list, F)) = Cardinality(F) /\ Cardinality(F) \in Nat
      /\ Cardinality(F) <= Cardinality(R)
      /\ \A k \in 1 .. Cardinality(F) : Picked(list, F)[k] = Picked(all, R)[k]
  <2>1. Positions(R)
    BY <1>2, <1>3 DEF Positions
  <2>2. Begins(all, list, m)
    BY <1>5 DEF Begins
  <2> QED
    BY <1>4, <2>1, <2>2, PickedPrefix
<1>9. DOMAIN Picked(list, F) = 1 .. Cardinality(F)
  BY DEF Picked
<1>10. Len(Real(list)) <= Len(wanted)
  BY <1>2, <1>7, <1>8
<1>11. ASSUME NEW i \in DOMAIN Real(list) PROVE Real(list)[i] = Word(wanted[i])
  <2>1. i \in 1 .. Cardinality(F) /\ i \in 1 .. Len(wanted)
    BY <1>2, <1>7, <1>8, <1>9
  <2> HIDE DEF F
  <2> QED
    BY <1>2, <1>7, <1>8, <2>1
<1>12. ASSUME Unspaced(body)
       PROVE  Len(Real(list)) = IF Len(wanted) < ServerSlots THEN Len(wanted) ELSE ServerSlots
  <2>1. R = 1 .. n
    <3>1. \A j \in DOMAIN all : all[j] # Blank
      BY <1>12, NoBlanks DEF all
    <3> QED
      BY <1>2, <3>1 DEF R
  <2>2. F = 1 .. m
    <3>1. \A i \in Nat : i \in 1 .. n /\ i <= m <=> i \in 1 .. m
      BY <1>2, <1>4
    <3>2. \A i \in R : i \in Nat
      BY <2>1
    <3> HIDE DEF F
    <3>3. \A i : i \in F <=> i \in R /\ i <= m
      BY DEF F
    <3>4. \A i \in 1 .. m : i \in Nat
      OBVIOUS
    <3> QED
      BY <2>1, <3>1, <3>2, <3>3, <3>4
  <2>3. Cardinality(1 .. n) = n /\ Cardinality(1 .. m) = m
    BY <1>2, <1>4, PickedAll
  <2>4. Len(wanted) = n
    BY <1>2, <2>1, <2>3
  <2>5. Len(Real(list)) = m
    BY <1>7, <1>8, <2>2, <2>3
  <2> QED
    BY <2>4, <2>5 DEF m
<1>13. Len(Real(list)) \in Nat /\ DOMAIN Real(list) = 1 .. Len(Real(list))
  BY <1>7, <1>8, <1>9
<1> QED
  BY <1>10, <1>11, <1>12, <1>13 DEF list, wanted

(* A list that begins like the servers of the one family followed by those *)
(* of the other has the first of each.                                     *)
LEMMA FirstOfBoth ==
    ASSUME NEW asked, asked.v4 \in Seq(STRING), asked.v6 \in Seq(STRING),
           NEW real, Len(real) \in Nat, DOMAIN real = 1 .. Len(real),
           Len(real) <= Len(Wanted(asked)),
           \A i \in DOMAIN real : real[i] = Word(Wanted(asked)[i])
    PROVE  \E four \in SUBSET DOMAIN real :
              /\ FirstWords(Picked(real, four), UsableOf(asked.v4))
              /\ FirstWords(Picked(real, DOMAIN real \ four), UsableOf(asked.v6))
<1> DEFINE u4 == UsableOf(asked.v4)
           u6 == UsableOf(asked.v6)
           wanted == Wanted(asked)
           L == Len(real)
           m == IF L < Len(u4) THEN L ELSE Len(u4)
           S == 1 .. L
           four == {i \in S : i <= m}
           six == S \ four
<1>1. /\ Len(u4) \in Nat /\ Len(u6) \in Nat /\ Len(wanted) = Len(u4) + Len(u6)
      /\ \A k \in 1 .. Len(u4) : wanted[k] = u4[k]
      /\ \A k \in 1 .. Len(u6) : wanted[Len(u4) + k] = u6[k]
  BY WantedOfBoth
<1>2. L \in Nat /\ L <= Len(wanted) /\ \A i \in S : real[i] = Word(wanted[i])
  OBVIOUS
<1>3. Cardinality(S) = L /\ \A k \in S : Picked(real, S)[k] = real[k]
  BY <1>2, PickedAll
<1> HIDE DEF u4, u6, wanted, L
<1>4. m \in Nat /\ m <= L /\ m <= Len(u4) /\ (m < L => m = Len(u4))
  BY <1>1, <1>2
<1> HIDE DEF m
<1>5. four = 1 .. m
  <2>1. \A i \in Nat : i \in 1 .. L /\ i <= m <=> i \in 1 .. m
    BY <1>2, <1>4
  <2>2. \A i \in S : i \in Nat
    BY <1>2
  <2>3. \A i \in 1 .. m : i \in Nat
    BY <1>4
  <2>4. \A i : i \in four <=> i \in S /\ i <= m
    OBVIOUS
  <2> HIDE DEF four
  <2> QED
    BY <2>1, <2>2, <2>3, <2>4
<1>6. Cardinality(four) = m
  BY <1>4, <1>5, PickedAll
<1>7. /\ four \in SUBSET (1 .. L) /\ six \in SUBSET (1 .. L) /\ Cardinality(six) \in Nat
      /\ Cardinality(S) = Cardinality(four) + Cardinality(six)
      /\ \A k \in 1 .. Cardinality(four) : Picked(real, S)[k] = Picked(real, four)[k]
      /\ \A k \in 1 .. Cardinality(six) :
            Picked(real, S)[Cardinality(four) + k] = Picked(real, six)[k]
  <2>1. L \in Nat /\ m \in Nat /\ S \in SUBSET (1 .. L)
    BY <1>2, <1>4
  <2> HIDE DEF S
  <2>2. PickedIn(L, real, S, four, six)
    BY ONLY <2>1, PickedSplit
  <2> HIDE DEF four, six
  <2> QED
    BY ONLY <2>2 DEF PickedIn
<1>8. /\ Len(Picked(real, four)) = m /\ DOMAIN Picked(real, four) = 1 .. m
      /\ Len(Picked(real, six)) = Cardinality(six)
      /\ DOMAIN Picked(real, six) = 1 .. Cardinality(six)
  <2> HIDE DEF four, six
  <2> QED
    BY <1>2, <1>6, <1>7, PickedFields
<1>9. FirstWords(Picked(real, four), u4)
  <2>1. ASSUME NEW k \in 1 .. m PROVE Picked(real, four)[k] = Word(u4[k])
    <3>1. k \in S /\ k \in 1 .. Len(u4)
      BY <1>1, <1>2, <1>4
    <3>2. Picked(real, S)[k] = Picked(real, four)[k]
      BY <1>6, <1>7
    <3> HIDE DEF S, four
    <3> QED
      BY <1>1, <1>2, <1>3, <3>1, <3>2
  <2> HIDE DEF four
  <2> QED
    BY <1>4, <1>8, <2>1 DEF FirstWords
<1>10. FirstWords(Picked(real, six), u6)
  <2> DEFINE c == Cardinality(six)
  <2>1. c \in Nat /\ L = m + c
    BY <1>2, <1>3, <1>6, <1>7
  <2>2. c <= Len(u6)
    <3> HIDE DEF c
    <3> QED
      BY <1>1, <1>2, <1>4, <2>1
  <2>3. ASSUME NEW k \in 1 .. c PROVE Picked(real, six)[k] = Word(u6[k])
    <3>1. Picked(real, S)[m + k] = Picked(real, six)[k]
      BY <1>6, <1>7
    <3> HIDE DEF c, S
    <3>2. m + k \in S /\ k \in 1 .. Len(u6) /\ m = Len(u4)
      BY <1>1, <1>2, <1>4, <2>1, <2>2 DEF S
    <3>3. wanted[m + k] = u6[k]
      BY <1>1, <3>2
    <3> QED
      BY <1>2, <1>3, <3>1, <3>2, <3>3
  <2> HIDE DEF six
  <2> QED
    BY <1>8, <2>2, <2>3 DEF FirstWords
<1> QED
  BY <1>7, <1>9, <1>10 DEF u4, u6, L

(* For any number of servers of either family, mixed in any way, and any   *)
(* number of slots, the servers handed over are the first usable ones of   *)
(* each family; and without blanks behind the elements, all that fit.      *)
THEOREM DeviceNoServerLost ==
    ASSUME \A r \in Requests : r.action = "SetNTP" => SaysServers(r.body, r.asked)
    PROVE  Spec => []NoServerLost
<1>1. ASSUME HandedInv PROVE NoServerLost
  <2> DEFINE asked == request.asked
             v4 == UsableOf(asked.v4)
             v6 == UsableOf(asked.v6)
  <2> SUFFICES ASSUME request.action = "SetNTP", NEW list \in handed
               PROVE  /\ \E four \in SUBSET DOMAIN Real(list) :
                            /\ FirstWords(Picked(Real(list), four), v4)
                            /\ FirstWords(Picked(Real(list), DOMAIN Real(list) \ four), v6)
                      /\ Unspaced(request.body) =>
                            Len(Real(list)) = Min({ServerSlots, Len(v4) + Len(v6)})
    BY DEF NoServerLost
  <2>1. request \in Requests /\ list = onvif_time_parse_set_ntp(request.body)
    BY <1>1 DEF HandedInv
  <2>2. request.body \in Body /\ SaysServers(request.body, asked)
    BY <2>1, DeviceAssumption DEF Setters
  <2>3. asked.v4 \in Seq(STRING) /\ asked.v6 \in Seq(STRING)
    BY <2>2 DEF SaysServers, Lists
  <2> HIDE DEF asked
  <2>4. /\ Len(Real(list)) <= Len(Wanted(asked))
        /\ Len(Real(list)) \in Nat /\ DOMAIN Real(list) = 1 .. Len(Real(list))
        /\ \A i \in DOMAIN Real(list) : Real(list)[i] = Word(Wanted(asked)[i])
        /\ Unspaced(request.body) =>
              Len(Real(list)) = IF Len(Wanted(asked)) < ServerSlots THEN Len(Wanted(asked))
                                ELSE ServerSlots
    BY <2>1, <2>2, ParsedServers
  <2>5. \E four \in SUBSET DOMAIN Real(list) :
              /\ FirstWords(Picked(Real(list), four), v4)
              /\ FirstWords(Picked(Real(list), DOMAIN Real(list) \ four), v6)
    BY <2>3, <2>4, FirstOfBoth
  <2>6. ASSUME Unspaced(request.body)
        PROVE  Len(Real(list)) = Min({ServerSlots, Len(v4) + Len(v6)})
    <3>1. Len(v4) \in Nat /\ Len(v6) \in Nat /\ Len(Wanted(asked)) = Len(v4) + Len(v6)
      BY <2>3, WantedOfBoth
    <3> DEFINE w == Len(v4) + Len(v6)
               M == {ServerSlots, w}
    <3>2. w \in Nat /\ ServerSlots \in Nat
      BY <3>1, TimeConfigAssumption
    <3> HIDE DEF w
    <3>3. Min(M) \in M /\ \A x \in M : Min(M) <= x
      BY <3>2, Smallest
    <3>4. Min(M) = IF w < ServerSlots THEN w ELSE ServerSlots
      BY <3>2, <3>3
    <3> QED
      BY <2>4, <2>6, <3>1, <3>4 DEF w
  <2> QED
    BY <2>5, <2>6
<1> QED
  BY <1>1, HandedInvAlways, PTL

-----------------------------------------------------------------------------
(* A SetSystemDateAndTime is parsed if, and only if, it is well-formed:    *)
(* nothing that the device must take is faulted as invalid.                *)
THEOREM GoodIsParsed ==
    ASSUME NEW body \in Body, NEW asked, Says(body, asked)
    PROVE  onvif_time_parse_set_request(body) # {} <=> asked.good
<1> DEFINE zoned == Openings(body, "TimeZone", DOMAIN body) # {}
           dated == Openings(body, "UTCDateTime", DOMAIN body) # {}
<1>1. /\ AtMostOne(Openings(body, "TimeZone", DOMAIN body))
      /\ AtMostOne(Openings(body, "UTCDateTime", DOMAIN body))
      /\ asked.good /\ zoned => SaidZones(body) # {}
      /\ asked.good =>
              /\ asked.utc # {} <=> dated
              /\ \A c \in asked.utc :
                    /\ c \in Fields
                    /\ SaidField(body, "Year") = {c.year} /\ SaidField(body, "Month") = {c.month}
                    /\ SaidField(body, "Day") = {c.day} /\ SaidField(body, "Hour") = {c.hour}
                    /\ SaidField(body, "Minute") = {c.minute}
                    /\ SaidField(body, "Second") = {c.second}
  BY DEF Says, SaidZones, SaidField
<1>2. ASSUME NEW r \in onvif_time_parse_set_request(body) PROVE asked.good
  BY ParsedAsSaid DEF AsSaid
<1>3. ASSUME asked.good PROVE elem_scope(body, "TimeZone") # {} => Zones(body) # {}
  BY <1>1, <1>3, ZonesRead
<1>4. ASSUME asked.good PROVE elem_scope(body, "UTCDateTime") # {} => Dates(body) # {}
  <2>1. CASE ~dated
    BY <1>1, <2>1, DatesRead
  <2>2. CASE dated
    <3>1. PICK c \in asked.utc : TRUE
      BY <1>1, <1>4, <2>2
    <3>2. Dates(body) = {c}
      BY <1>1, <1>4, <2>2, <3>1, DatesRead
    <3> QED
      BY <3>2
  <2> QED
    BY <2>1, <2>2
<1>5. ASSUME asked.good PROVE onvif_time_parse_set_request(body) # {}
  BY <1>3, <1>4, <1>5 DEF onvif_time_parse_set_request
<1> QED
  BY <1>2, <1>5

-----------------------------------------------------------------------------
(* From clients that write a SetNTP on one line the host gets servers and  *)
(* nothing else: the blanks behind the closing tags of the addresses are   *)
(* all that is ever mistaken for a server.                                 *)
THEOREM DeviceOnlyServers ==
    ASSUME \A r \in Requests :
              r.action = "SetNTP" => SaysServers(r.body, r.asked) /\ Unspaced(r.body)
    PROVE  Spec => []OnlyServers
<1>1. ASSUME NEW r \in Requests, r.action = "SetNTP",
             NEW j \in DOMAIN onvif_time_parse_set_ntp(r.body)
      PROVE  \E w \in {r.asked.v4[i] : i \in DOMAIN r.asked.v4}
                   \cup {r.asked.v6[i] : i \in DOMAIN r.asked.v6} :
                onvif_time_parse_set_ntp(r.body)[j] = Word(w)
  <2> DEFINE T == {TextAfter(r.body, i, Len(r.body) + 1) : i \in DOMAIN r.body}
             t4 == TextsBehind(r.body, "IPv4Address")
             t6 == TextsBehind(r.body, "IPv6Address")
             all == t4 \o t6
             list == onvif_time_parse_set_ntp(r.body)
             asked == r.asked
             m == IF Len(all) < ServerSlots THEN Len(all) ELSE ServerSlots
  <2>1. /\ r.body \in Body /\ Unspaced(r.body)
        /\ Lists(r.body, "IPv4Address", asked.v4) /\ Lists(r.body, "IPv6Address", asked.v6)
    BY <1>1, DeviceAssumption DEF Setters, SaysServers
  <2>2. t4 \in Seq(T) /\ t6 \in Seq(T)
    BY <2>1, ServersBehind
  <2>3. \A i \in DOMAIN t4 : \E k \in DOMAIN asked.v4 : t4[i] = Word(asked.v4[k])
    BY <2>1, FamilyOnly
  <2>4. \A i \in DOMAIN t6 : \E k \in DOMAIN asked.v6 : t6[i] = Word(asked.v6[k])
    BY <2>1, FamilyOnly
  <2>5. list = SubSeq(all, 1, m)
    BY DEF onvif_time_parse_set_ntp, FirstOf
  <2>6. j \in DOMAIN list
    OBVIOUS
  <2> HIDE DEF t4, t6, T, list, asked
  <2>7. /\ Len(all) \in Nat /\ DOMAIN all = 1 .. Len(all)
        /\ \A i \in DOMAIN all :
              \/ i \in DOMAIN t4 /\ all[i] = t4[i]
              \/ i - Len(t4) \in DOMAIN t6 /\ all[i] = t6[i - Len(t4)]
    BY <2>2, Joined
  <2> HIDE DEF all
  <2>8. m \in Nat /\ m <= Len(all)
    BY <2>7, TimeConfigAssumption
  <2> HIDE DEF m
  <2>9. j \in DOMAIN all /\ list[j] = all[j]
    BY <2>5, <2>6, <2>7, <2>8
  <2>10. \/ \E k \in DOMAIN asked.v4 : list[j] = Word(asked.v4[k])
         \/ \E k \in DOMAIN asked.v6 : list[j] = Word(asked.v6[k])
    BY <2>3, <2>4, <2>7, <2>9
  <2> QED
    BY <2>10 DEF list, asked
<1>2. ASSUME HandedInv PROVE OnlyServers
  <2> SUFFICES ASSUME request.action = "SetNTP", NEW list \in handed, NEW i \in DOMAIN list
               PROVE  \E w \in {request.asked.v4[j] : j \in DOMAIN request.asked.v4}
                         \cup {request.asked.v6[j] : j \in DOMAIN request.asked.v6} :
                         list[i] = Word(w)
    BY DEF OnlyServers
  <2>1. request \in Requests /\ list = onvif_time_parse_set_ntp(request.body)
    BY <1>2 DEF HandedInv
  <2> QED
    BY <1>1, <2>1
<1> QED
  BY <1>2, HandedInvAlways, PTL
=============================================================================
