-------------------------------- MODULE MCDevice --------------------------------
(* Instances of Device for TLC: requests as clients write them.            *)
EXTENDS DeviceProperties, TLC

(* Elements, on one line (gap is empty) or one to a line.                  *)
Gap(pretty) == IF pretty THEN <<TextToken(Blank)>> ELSE << >>

Leaf(name, text, gap) ==
    <<Tag("open", name)>> \o (IF text = EmptyText THEN << >> ELSE <<TextToken(text)>>)
        \o <<Tag("close", name)>> \o gap

Element(name, inside, gap) ==
    <<Tag("open", name)>> \o gap \o inside \o <<Tag("close", name)>> \o gap

(* A UTCDateTime with the fields of c, and some of them replaced.          *)
UTC(c, replaced, gap) ==
    LET f == [Year |-> Number(c.year), Month |-> Number(c.month), Day |-> Number(c.day),
              Hour |-> Number(c.hour), Minute |-> Number(c.minute),
              Second |-> Number(c.second)]
        text(name) == IF name \in DOMAIN replaced THEN replaced[name] ELSE f[name]
        field(name) == Leaf(name, text(name), gap)
    IN  Element("UTCDateTime",
                Element("Time", field("Hour") \o field("Minute") \o field("Second"), gap)
                \o Element("Date", field("Year") \o field("Month") \o field("Day"), gap), gap)

SetDate(mode, timezone, utc, asked, gap) ==
    [action |-> "SetSystemDateAndTime", asked |-> asked,
     body |-> Element("SetSystemDateAndTime",
                      Leaf("DateTimeType", Word(mode), gap)
                      \o Leaf("DaylightSavings", Word("false"), gap) \o timezone \o utc, gap)]

Date(y, mo, d, h, mi, s) ==
    [year |-> y, month |-> mo, day |-> d, hour |-> h, minute |-> mi, second |-> s]

(* The ends of a leap and a common February, of a century, a year and a    *)
(* month, a leap second, dates that do not exist, the first and the last.  *)
MCDates ==
    {Date(1970, 1, 1, 0, 0, 0), Date(2024, 2, 28, 23, 59, 59), Date(2023, 2, 28, 23, 59, 59),
     Date(2000, 2, 29, 12, 30, 1), Date(2100, 2, 28, 23, 59, 60), Date(2016, 12, 31, 23, 59, 60),
     Date(2023, 2, 30, 23, 59, 60), Date(2026, 4, 31, 0, 0, 0), Date(9999, 12, 31, 23, 59, 59)}

Asked(good, mode, utc, zones) == [good |-> good, mode |-> mode, utc |-> utc, zone |-> zones]

NoFields == [f \in {} |-> EmptyText]

DateRequests ==
    {SetDate("Manual", << >>, UTC(c, NoFields, Gap(pretty)), Asked(TRUE, "Manual", {c}, {}),
             Gap(pretty)) : c \in MCDates, pretty \in BOOLEAN}

SomeDate == Date(2024, 2, 28, 23, 59, 59)

Wrapped(z, gap) == Element("TimeZone", Leaf("TZ", Word(z), gap), gap)

(* Modes and zones without a date; an empty zone; a zone that is cut; one  *)
(* whose TZ stands elsewhere.                                              *)
ModeRequests ==
    {SetDate(mode, << >>, << >>, Asked(TRUE, mode, {}, {}), << >>) : mode \in {"NTP", "Manual"}}
    \cup {SetDate("NTP", Wrapped(z, Gap(TRUE)), << >>, Asked(TRUE, "NTP", {}, {z}), Gap(TRUE)) :
            z \in {"", "CST-8", "long"}}
    \cup {SetDate("NTP", Element("TimeZone", << >>, << >>) \o Leaf("TZ", Word("CST-8"), << >>),
                  UTC(SomeDate, NoFields, << >>), Asked(TRUE, "NTP", {SomeDate}, {"CST-8"}),
                  << >>)}

(* A field that is missing, empty, not a number or out of range; fields    *)
(* with attributes; a zone without a TZ.                                   *)
Replacements ==
    [Year : {Number(1969), Number(10000)}] \cup [Month : {Number(0), Number(13), EmptyText}]
    \cup [Day : {Number(0), Number(32)}] \cup [Hour : {Number(24), Word("noon")}]
    \cup [Minute : {Number(60)}] \cup [Second : {Number(61), Number(NoNumber)}]

MalformedRequests ==
    {SetDate("NTP", Wrapped("CST-8", << >>), UTC(SomeDate, f, << >>), Asked(FALSE, "NTP", {}, {}),
             << >>) : f \in Replacements}
    \cup {SetDate("NTP", Wrapped("CST-8", << >>),
                  Element("UTCDateTime", <<Tag("attr", "Year")>>, << >>),
                  Asked(FALSE, "NTP", {}, {}), << >>),
          SetDate("NTP", Element("TimeZone", << >>, << >>), UTC(SomeDate, NoFields, << >>),
                  Asked(FALSE, "NTP", {}, {}), << >>)}

(* SetNTP with up to two servers of each family, in either order.          *)
Server(family, w, gap) == Element("NTPManual", Leaf(family, Word(w), gap), gap)

RECURSIVE ServerList(_, _, _)
ServerList(family, ws, gap) ==
    IF ws = << >> THEN << >>
    ELSE Server(family, Head(ws), gap) \o ServerList(family, Tail(ws), gap)

SetNTP(v4, v6, sixFirst, gap) ==
    LET four == ServerList("IPv4Address", v4, gap)
        six == ServerList("IPv6Address", v6, gap)
    IN  [action |-> "SetNTP", asked |-> [v4 |-> v4, v6 |-> v6],
         body |-> Element("SetNTP", IF sixFirst THEN six \o four ELSE four \o six, gap)]

NtpRequests ==
    {SetNTP(v4, v6, sixFirst, Gap(pretty)) :
        v4 \in {<< >>, <<"a", "b">>, <<"", "long", "b", "a">>}, v6 \in {<< >>, <<"c", "d">>},
        sixFirst \in BOOLEAN, pretty \in BOOLEAN}

Others == {[action |-> a] : a \in Built \cup {"GetSystemDateAndTime"}}

MCRequests == DateRequests \cup ModeRequests \cup MalformedRequests \cup NtpRequests \cup Others

NtpOnly == NtpRequests

(* Each of the bodies says what was asked for.                             *)
ASSUME MCRequestsSay ==
    \A r \in MCRequests :
        /\ r.action = "SetSystemDateAndTime" => Says(r.body, r.asked)
        /\ r.action = "SetNTP" => SaysServers(r.body, r.asked)

(* The lists of servers that are on one line are those without gaps.       *)
ASSUME MCServersUnspaced ==
    \A v4, v6 \in {<< >>, <<"a", "b">>} : \A sixFirst, pretty \in BOOLEAN :
        Unspaced(SetNTP(v4, v6, sixFirst, Gap(pretty)).body) <=> ~pretty \/ v4 \o v6 = << >>

-----------------------------------------------------------------------------
(* Hosts with all callbacks and with none; texts that fit the buffer, that *)
(* fill it to the last byte, and that overflow it in each of the pieces.   *)
Host1(seams, events, address, scopes) ==
    [time_apply |-> seams, ntp_set |-> seams, ntp_active |-> seams, time_tz |-> seams,
     events |-> events, address |-> address, scopes |-> scopes]

MCConfigs ==
    {Host1(TRUE, TRUE, 2, <<"a", " ", "b", "b">>), Host1(FALSE, FALSE, 2, << >>),
     Host1(FALSE, TRUE, 3, <<" ", "a", "a", " ", " ", "b", " ">>),
     Host1(FALSE, FALSE, 5, <<"a", " ", "b", " ", "c", "c">>),
     Host1(FALSE, TRUE, 7, <<" ", " ">>), Host1(FALSE, TRUE, 4, <<"a", " ", "a", "a", "a", "a">>)}

MCMarkup ==
    [a \in Built |->
        CASE a = "GetScopes" -> [head |-> 6, middle |-> 3, tail |-> 4]
          [] a = "GetVideoEncoderConfiguration" -> [head |-> 6, middle |-> 9, tail |-> 4]
          [] OTHER -> [head |-> 7, middle |-> 4, tail |-> 2]]

MCStump == [w \in {"long"} |-> "lon"]

MCSync == {Date(2024, 2, 29, 23, 59, 59)}
=============================================================================
