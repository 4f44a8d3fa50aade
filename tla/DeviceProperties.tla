---------------------------- MODULE DeviceProperties ----------------------------
(***************************************************************************)
(* What the device service must say and do. A request carries, besides its *)
(* body, what its author asked for, and the properties compare the two:    *)
(* asked is a record of good (is it a request that the device must take?), *)
(* mode, utc and zone (sets of none or one) for SetSystemDateAndTime, of   *)
(* v4 and v6 (sequences of addresses) for SetNTP.                          *)
(***************************************************************************)
EXTENDS Device

(* A zone that was set is no longer than tz[48] can hold.                  *)
HostType ==
    /\ clock \in Epoch /\ ntp \in BOOLEAN /\ (zone = BootZone \/ zone \notin DOMAIN Stump)
    /\ expected \in Civil /\ shown \in Civil /\ tm \in Civil
    /\ Len(servers) <= ServerSlots /\ ticks \in 0 .. MaxTicks

HttpdType ==
    /\ cfg \in Configs /\ request \in Requests \cup {NoRequest}
    /\ pc \in {"idle", "clock", "mode", "zone", "SetSystemDateAndTime", "SetNTP", "answer",
               "head", "middle", "scopes", "tail", "built", "fault", "done"}
    /\ ntp_active \in BOOLEAN /\ off \in Nat /\ p \in 1 .. Len(cfg.scopes) + 1
    /\ answer.kind \in {"none", "nothing", "date", "ack", "invalid", "not supported", "data"}

TypeOK == HostType /\ HttpdType

-----------------------------------------------------------------------------
(* GetSystemDateAndTime answers the date that a calendar shows that was    *)
(* set when the clock was and has counted the seconds since, over the ends *)
(* of months, leap years and centuries, also when the date that was set    *)
(* does not exist.                                                         *)
DateShown == answer.kind = "date" => answer.utc = shown

(* The same of the clock at every moment.                                  *)
ClockIsCalendar == clock = CivilEpoch(expected) /\ Exists(expected)

(* What the fields of a date can be.                                       *)
Fields == [year : 1970 .. 9999, month : 1 .. 12, day : 1 .. 31,
           hour : 0 .. 23, minute : 0 .. 59, second : 0 .. 60]

Allowed == [Year |-> 1970 .. 9999, Month |-> 1 .. 12, Day |-> 1 .. 31,
            Hour |-> 0 .. 23, Minute |-> 0 .. 59, Second |-> 0 .. 60]

(* Where an element is opened among some places of a body, and the texts   *)
(* it has there; the places inside an element.                             *)
Openings(body, local, places) == {i \in places : body[i].kind = "open" /\ body[i].name = local}

TextsOf(body, local, places) ==
    {TextAfter(body, i, Len(body) + 1) : i \in Openings(body, local, places)}

Inside(body, local) ==
    {i \in DOMAIN body : \E o \in Openings(body, local, 1 .. i - 1) :
        \A j \in o + 1 .. i : ~(body[j].kind = "close" /\ body[j].name = local)}

AtMostOne(S) == \A x, y \in S : x = y

(* A SetSystemDateAndTime body that says what was asked for. It has one    *)
(* TimeZone and one UTCDateTime at most; it is good unless a TimeZone is   *)
(* there without a TZ, or a UTCDateTime without a field or with one out of *)
(* range; and if it is good, what its elements' texts are was asked for.   *)
(* Nothing is said of where and in which order the elements stand, of      *)
(* other elements, or of the blanks between them.                          *)
Says(body, asked) ==
    LET present(local) == Openings(body, local, DOMAIN body) # {}
        inside == TextsOf(body, "TZ", Inside(body, "TimeZone"))
        zones == IF inside # {} THEN inside ELSE TextsOf(body, "TZ", DOMAIN body)
        field(f) == {t.num : t \in TextsOf(body, f, Inside(body, "UTCDateTime"))}
    IN  /\ \A local \in {"TimeZone", "UTCDateTime"} :
              AtMostOne(Openings(body, local, DOMAIN body))
        /\ asked.good <=>
              /\ present("TimeZone") => zones # {}
              /\ present("UTCDateTime") =>
                    \A f \in DOMAIN Allowed : field(f) \cap Allowed[f] # {}
        /\ asked.good =>
              /\ {t.word : t \in TextsOf(body, "DateTimeType", DOMAIN body)} = {asked.mode}
              /\ asked.zone = IF present("TimeZone") THEN {t.word : t \in zones} ELSE {}
              /\ asked.utc # {} <=> present("UTCDateTime")
              /\ AtMostOne(asked.zone) /\ AtMostOne(asked.utc)
              /\ \A c \in asked.utc :
                    /\ c \in Fields
                    /\ field("Year") = {c.year} /\ field("Month") = {c.month}
                    /\ field("Day") = {c.day} /\ field("Hour") = {c.hour}
                    /\ field("Minute") = {c.minute} /\ field("Second") = {c.second}

(* What the host is made to do is what was asked for, however the body is  *)
(* laid out and whatever else it contains; a request that is malformed     *)
(* anywhere has no effect at all.                                          *)
AsAsked ==
    request.action = "SetSystemDateAndTime" =>
        \A r \in handed :
            LET asked == request.asked IN
            /\ asked.good
            /\ r.ntp_mode = (asked.mode = "NTP")
            /\ r.has_utc = (asked.utc # {})
            /\ \A c \in asked.utc : gmtime(r.utc_epoch) = Normalised(c)
            /\ r.has_tz = (asked.zone # {})
            /\ \A z \in asked.zone : r.tz = Cut(z)

(* The servers of a family that the device can use: named, and not too long. *)
UsableOf(ws) == Picked(ws, {k \in DOMAIN ws : ws[k] \notin {""} \cup Oversized})

Blank == Word("blank")

(* The servers of a list, without the blanks that OnlyServers is about.    *)
Real(list) == Picked(list, {i \in DOMAIN list : list[i] # Blank})

(* A SetNTP body that says what was asked for: the texts of a family's     *)
(* elements are its servers, in order; behind an element is no text but    *)
(* blanks, for which no server is named. Elements of the two families may  *)
(* be mixed with each other and with any others.                           *)
Lists(body, local, ws) ==
    LET text == [i \in DOMAIN body |-> TextAfter(body, i, Len(body) + 1)]
    IN  /\ ws \in Seq(STRING) /\ \A k \in DOMAIN ws : ws[k] # "blank"
        /\ Picked(text, Openings(body, local, DOMAIN body)) = [k \in DOMAIN ws |-> Word(ws[k])]
        /\ \A i \in DOMAIN body :
              body[i].kind = "close" /\ body[i].name = local => text[i] \in {EmptyText, Blank}

SaysServers(body, asked) ==
    Lists(body, "IPv4Address", asked.v4) /\ Lists(body, "IPv6Address", asked.v6)

(* A body on one line: no text, not even blanks, behind a server's element. *)
Unspaced(body) ==
    \A i \in DOMAIN body :
        body[i].kind = "close" /\ body[i].name \in {"IPv4Address", "IPv6Address"} =>
            TextAfter(body, i, Len(body) + 1) = EmptyText

FirstWords(list, ws) == Len(list) <= Len(ws) /\ \A k \in DOMAIN list : list[k] = Word(ws[k])

(* No server is invented, repeated, passed over or moved before one that   *)
(* its client prefers: among those handed over, blanks apart, the servers  *)
(* of either family are the first of that family which the device can use, *)
(* in request order. And none is lost while there is room: a client whose  *)
(* body is on one line has all of them handed over, or as many as fit.     *)
(* (How the two families are mixed is not said: "in request order",        *)
(* onvif_time.h, is not what the code does. A client that writes blanks    *)
(* behind its elements may lose servers to them; OnlyServers is about it.) *)
NoServerLost ==
    request.action = "SetNTP" =>
        \A list \in handed :
            LET real == Real(list)
                v4 == UsableOf(request.asked.v4)
                v6 == UsableOf(request.asked.v6)
            IN  /\ \E four \in SUBSET DOMAIN real :
                      /\ FirstWords(Picked(real, four), v4)
                      /\ FirstWords(Picked(real, DOMAIN real \ four), v6)
                /\ Unspaced(request.body) => Len(real) = Min({ServerSlots, Len(v4) + Len(v6)})

(* "Collect NTP server addresses (IPv4Address / IPv6Address leaves, in     *)
(* request order)" (onvif_time.h): what is handed over are the texts of    *)
(* address elements.                                                       *)
OnlyServers ==
    request.action = "SetNTP" =>
        \A list \in handed : \A i \in DOMAIN list :
            \E w \in {request.asked.v4[j] : j \in DOMAIN request.asked.v4}
                \cup {request.asked.v6[j] : j \in DOMAIN request.asked.v6} : list[i] = Word(w)

-----------------------------------------------------------------------------
(* Each snprintf is given a place inside the buffer and at least one byte  *)
(* of room: n - off, of type size_t, does not wrap.                        *)
InBuffer == pc \in {"head", "middle", "scopes", "tail"} => off < RespMax

(* The words of a text: what stands between spaces, in order.              *)
Letters(s) == {i \in DOMAIN s : s[i] # " "}

Starts(s) == {i \in Letters(s) : i = 1 \/ s[i - 1] = " "}

WordEnd(s, i) ==
    CHOOSE j \in i .. Len(s) : i .. j \subseteq Letters(s) /\ j + 1 \notin Letters(s)

Words(s) == Picked([i \in DOMAIN s |-> SubSeq(s, i, WordEnd(s, i))], Starts(s))

(* The GetScopes answer lists the configured scopes, each once and whole,  *)
(* however they are spaced.                                                *)
ScopesListed ==
    answer.kind = "data" /\ request.action = "GetScopes" => answer.scopes = Words(cfg.scopes)

(* The bytes of the complete answer: a scope takes the text around it and  *)
(* its own characters.                                                     *)
FullLength ==
    LET lists == IF request.action = "GetScopes"
                 THEN Length("middle") * Cardinality(Starts(cfg.scopes))
                      + Cardinality(Letters(cfg.scopes))
                 ELSE IF AfterHead = "middle" THEN Length("middle") ELSE 0
    IN  Length("head") + lists + Length("tail")

(* An answer is sent whole, to its closing tag and with room for the       *)
(* terminating zero, or not at all.                                        *)
WholeOrFault ==
    answer.kind = "data" => answer.length = FullLength /\ answer.length < RespMax
=============================================================================
