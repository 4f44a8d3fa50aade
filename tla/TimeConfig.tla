------------------------------- MODULE TimeConfig -------------------------------
(***************************************************************************)
(* Reading SetSystemDateAndTime and SetNTP requests, core/onvif_time.c. A  *)
(* body is a sequence of tokens: tags and the texts between them.          *)
(* Prefixes, attributes' values and the digits of numbers are left out.    *)
(***************************************************************************)
EXTENDS Calendar, Sequences, FiniteSetsExt

CONSTANTS
    ServerSlots,    \* the servers a SetNTP can hand over, 8
    Oversized,      \* texts of ONVIF_TIME_HOST_MAX or more characters
    Stump           \* for zones of more than 47 characters, the first 47

ASSUME TimeConfigAssumption ==
    ServerSlots \in Nat \ {0} /\ \A w \in DOMAIN Stump : Stump[w] \notin DOMAIN Stump

(* A text: a word, or a number as parse_num takes it, of at most five      *)
(* characters and nothing behind it; NoNumber is in no field's range.      *)
NoNumber == -1
Word(w) == [word |-> w, num |-> NoNumber]
Number(v) == [word |-> "digits", num |-> v]
EmptyText == Word("")

Text == [word : STRING, num : Int]

(* "attr" is a tag with attributes or a self-closing one, which no lookup  *)
(* takes for the element it names.                                         *)
Tag(kind, name) == [kind |-> kind, name |-> name, text |-> EmptyText]
TextToken(t) == [kind |-> "text", name |-> "", text |-> t]

Body == Seq([kind : {"open", "close", "attr", "text"}, name : STRING, text : Text])

-----------------------------------------------------------------------------
(* The k-th of a set of positions, and what a sequence has at each of them. *)
Nth(S, k) == CHOOSE i \in S : Cardinality({j \in S : j <= i}) = k

Picked(s, S) == [k \in 1 .. Cardinality(S) |-> s[Nth(S, k)]]

(* The tags of one kind and name from lo up to, and not including, hi.     *)
Tags(body, kind, local, lo, hi) ==
    {i \in lo .. hi - 1 : body[i].kind = kind /\ body[i].name = local}

Everything(body) == [from |-> 1, to |-> Len(body) + 1]

(* What an element encloses: from its first opening tag to the next        *)
(* closing tag of its name, or the end. None or one, as a set.             *)
elem_scope(body, local) ==
    LET all == Len(body) + 1
        opens == Tags(body, "open", local, 1, all)
        closes == Tags(body, "close", local, Min(opens) + 1, all)
    IN  IF opens = {} THEN {}
        ELSE {[from |-> Min(opens) + 1, to |-> IF closes = {} THEN all ELSE Min(closes)]}

(* The text between the tag at i and the next one.                         *)
TextAfter(body, i, to) ==
    IF i + 1 < to /\ body[i + 1].kind = "text" THEN body[i + 1].text ELSE EmptyText

(* The text of the first element of that name within a scope.              *)
leaf_text(body, scope, local) ==
    LET opens == Tags(body, "open", local, scope.from, scope.to)
    IN  IF opens = {} THEN {} ELSE {TextAfter(body, Min(opens), scope.to)}

-----------------------------------------------------------------------------
(* The fields of a date and the numbers they take. Mutant: months that     *)
(* start from zero, as in struct tm.                                       *)
MonthsFromZero ==
    [Year |-> 1970 .. 9999, Month |-> 0 .. 11, Day |-> 1 .. 31,
     Hour |-> 0 .. 23, Minute |-> 0 .. 59, Second |-> 0 .. 60]

FieldRange ==
    [Year |-> 1970 .. 9999, Month |-> 1 .. 12, Day |-> 1 .. 31,
     Hour |-> 0 .. 23, Minute |-> 0 .. 59, Second |-> 0 .. 60]

parse_num(leaf, f) == {t.num : t \in leaf} \cap FieldRange[f]

(* Its first TZ is taken for the zone, or the first in the whole body.     *)
ZoneText(body, scope) ==
    LET inside == leaf_text(body, scope, "TZ")
    IN  IF inside # {} THEN inside ELSE leaf_text(body, Everything(body), "TZ")

TheOnly(S) == CHOOSE x \in S : TRUE

(* The date in a scope, if each of its fields is there and in range.       *)
DateIn(body, scope) ==
    LET value(f) == parse_num(leaf_text(body, scope, f), f)
    IN  IF \E f \in DOMAIN FieldRange : value(f) = {} THEN {}
        ELSE {[year |-> TheOnly(value("Year")), month |-> TheOnly(value("Month")),
               day |-> TheOnly(value("Day")), hour |-> TheOnly(value("Hour")),
               minute |-> TheOnly(value("Minute")), second |-> TheOnly(value("Second"))]}

Cut(w) == IF w \in DOMAIN Stump THEN Stump[w] ELSE w

BootEpoch == [day |-> 0, sec |-> 0]

(* What the element texts found make of a request. Each is a set of none   *)
(* or one. A date need not exist: days beyond a month's end count into the *)
(* next one.                                                               *)
RequestOf(types, zones, dates) ==
    [ntp_mode |-> \E t \in types : t.word = "NTP",
     has_utc |-> dates # {},
     utc_epoch |-> IF dates = {} THEN BootEpoch ELSE CivilEpoch(TheOnly(dates)),
     has_tz |-> zones # {},
     tz |-> IF zones = {} THEN "" ELSE Cut(TheOnly(zones).word)]

Types(body) == leaf_text(body, Everything(body), "DateTimeType")
Zones(body) == UNION {ZoneText(body, s) : s \in elem_scope(body, "TimeZone")}
Dates(body) == UNION {DateIn(body, s) : s \in elem_scope(body, "UTCDateTime")}

(* Mutant: a malformed date is left out, and the rest of the request taken. *)
ParseLeniently(body) == {RequestOf(Types(body), Zones(body), Dates(body))}

(* onvif_time_parse_set_request: nothing when there is a TimeZone without  *)
(* a TZ, or a UTCDateTime with a field missing or out of range.            *)
onvif_time_parse_set_request(body) ==
    IF \/ elem_scope(body, "TimeZone") # {} /\ Zones(body) = {}
       \/ elem_scope(body, "UTCDateTime") # {} /\ Dates(body) = {}
    THEN {}
    ELSE {RequestOf(Types(body), Zones(body), Dates(body))}

-----------------------------------------------------------------------------
(* onvif_time_parse_set_ntp: strstr finds the name of an address in its    *)
(* opening tag and again in its closing one, and takes the text behind     *)
(* either for a server, if there is one that is not too long. IPv4 comes   *)
(* first.                                                                  *)
TextsBehind(body, local) ==
    LET text == [i \in DOMAIN body |-> TextAfter(body, i, Len(body) + 1)]
    IN  Picked(text, {i \in DOMAIN body :
                        /\ body[i].kind \in {"open", "close"} /\ body[i].name = local
                        /\ text[i] # EmptyText /\ text[i].word \notin Oversized})

FirstOf(s, n) == SubSeq(s, 1, IF Len(s) < n THEN Len(s) ELSE n)

LastOf(s, n) == SubSeq(s, IF Len(s) < n THEN 1 ELSE Len(s) - n + 1, Len(s))

KeepLast(body) ==    \* mutant: later servers push out the earlier ones
    LastOf(TextsBehind(body, "IPv4Address") \o TextsBehind(body, "IPv6Address"), ServerSlots)

OneShort(body) ==    \* mutant: the last slot stays free
    FirstOf(TextsBehind(body, "IPv4Address") \o TextsBehind(body, "IPv6Address"), ServerSlots - 1)

EveryServer(body) ==    \* mutant: the list has no bound
    TextsBehind(body, "IPv4Address") \o TextsBehind(body, "IPv6Address")

onvif_time_parse_set_ntp(body) ==
    FirstOf(TextsBehind(body, "IPv4Address") \o TextsBehind(body, "IPv6Address"), ServerSlots)
=============================================================================
