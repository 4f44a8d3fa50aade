--------------------------------- MODULE Device ---------------------------------
(***************************************************************************)
(* What the device service says and does, esp_idf/onvif_c_service.c with   *)
(* core/onvif_time.c and core/onvif_xml.c: the httpd task reads the host's *)
(* clock, time mode and zone, has the host set them, and builds answers    *)
(* piece by piece in a buffer of fixed size. The host's side of the seam   *)
(* (its clock, which SNTP may set as well, and its server list) is taken   *)
(* from the contract in include/onvif_c.h. Which requests get here, and    *)
(* which handler they get, is the matter of module Service.                *)
(***************************************************************************)
EXTENDS TimeConfig

CONSTANTS
    Configs,        \* the configurations, see Config
    Requests,       \* the requests: an action, a body, and what their authors asked for
    RespMax,        \* ONVIF_C_RESP_MAX
    Markup,         \* for each built answer, the fixed text of its pieces
    SyncDates,      \* dates that SNTP may set the clock to
    BootZone,       \* the host's zone at boot
    MaxTicks        \* bound on the seconds that pass

(* The host's callbacks and the texts that answers contain. An address is  *)
(* the number of characters of IP and port; scopes are characters.         *)
Config == [time_apply : BOOLEAN, ntp_set : BOOLEAN, ntp_active : BOOLEAN, time_tz : BOOLEAN,
           events : BOOLEAN, address : Nat, scopes : Seq(STRING)]

Built == {"GetCapabilities", "GetServices", "GetScopes", "GetVideoEncoderConfiguration"}

Setters == {"SetSystemDateAndTime", "SetNTP"}

Actions == Built \cup {"GetSystemDateAndTime"} \cup Setters

Piece == {"head", "middle", "tail"}

ASSUME DeviceAssumption ==
    /\ RespMax \in Nat \ {0} /\ MaxTicks \in Nat
    /\ Markup \in [Built -> [Piece -> Nat]]
    /\ Configs \subseteq Config
    /\ \A r \in Requests : r.action \in Actions /\ (r.action \in Setters => r.body \in Body)
    /\ SyncDates \subseteq {c \in Civil : Exists(c) /\ c.year >= 1970}

VARIABLES
    cfg,            \* s_cfg
    \* the host
    clock, ntp, zone, servers,
    \* the httpd task and its request
    pc, request,
    tm,             \* the broken-down time it has read
    ntp_active,
    off, p,         \* the builder's: bytes written, position in the scopes
    items,          \* scopes written
    answer,         \* what was sent
    \* history
    expected,       \* the date a calendar would show that was set when the clock was
    shown,          \* what it showed when the clock was read
    handed,         \* what the request has had the host do
    ticks

hostVars == <<clock, ntp, zone, servers, expected>>
builderVars == <<off, p, items>>
readVars == <<tm, ntp_active, shown>>
vars == <<cfg, hostVars, pc, request, readVars, builderVars, answer, handed, ticks>>

(* The same time on a day of the next month.                               *)
NextMonth(c, d) ==
    [year |-> c.year, month |-> c.month + 1, day |-> d,
     hour |-> c.hour, minute |-> c.minute, second |-> c.second]

(* The date that the calendar shows when it is set to the 30th of February *)
(* or to the 60th second of a minute.                                      *)
Normalised(c) ==
    LET minute == At(c, c.hour, c.minute, IF c.second = 60 THEN 59 ELSE c.second)
        last == DaysIn(c.year, c.month)
        date == IF c.day <= last THEN minute ELSE NextMonth(minute, c.day - last)
    IN  IF c.second = 60 THEN NextSecond(date) ELSE date

Boot == [year |-> 1970, month |-> 1, day |-> 1, hour |-> 0, minute |-> 0, second |-> 0]

NoRequest == [action |-> "none"]
NoAnswer == [kind |-> "none"]

Init ==
    /\ cfg \in Configs
    /\ clock = BootEpoch /\ ntp = FALSE /\ zone = BootZone /\ servers = << >>
    /\ pc = "idle" /\ request = NoRequest
    /\ tm = Boot /\ shown = Boot /\ ntp_active = FALSE
    /\ off = 0 /\ p = 1 /\ items = << >>
    /\ answer = NoAnswer /\ handed = {}
    /\ expected = Boot /\ ticks = 0

-----------------------------------------------------------------------------
HttpdOnly == UNCHANGED <<cfg, hostVars, ticks>>

(* A request has passed the gate and found its handler.                    *)
Dispatch(r) ==
    /\ pc = "idle"
    /\ request' = r
    /\ pc' = CASE r.action = "GetSystemDateAndTime" -> "clock"
               [] r.action \in Built -> "head"
               [] OTHER -> r.action
    /\ HttpdOnly /\ UNCHANGED <<readVars, builderVars, answer, handed>>

Reply(a) == pc' = "done" /\ answer' = a

(* Without memory for its answer a request gets none.                      *)
NoMemory ==
    /\ pc \in {"zone", "head", "answer", "fault"}
    /\ Reply([kind |-> "nothing"])
    /\ HttpdOnly /\ UNCHANGED <<request, readVars, builderVars, handed>>

(* handle_get_system_date_and_time asks the host three things in a row.    *)
ReadClock ==
    /\ pc = "clock" /\ pc' = "mode"
    /\ tm' = gmtime(clock) /\ shown' = expected
    /\ HttpdOnly /\ UNCHANGED <<request, ntp_active, builderVars, answer, handed>>

ReadMode ==
    /\ pc = "mode" /\ pc' = "zone"
    /\ ntp_active' = (cfg.ntp_active /\ ntp)
    /\ HttpdOnly /\ UNCHANGED <<request, tm, shown, builderVars, answer, handed>>

(* The three, as the answer has them.                                      *)
onvif_xml_system_date_and_time ==
    LET tz == IF cfg.time_tz THEN zone ELSE ""
    IN  [kind |-> "date", type |-> IF ntp_active THEN "NTP" ELSE "MANUAL",
         tz |-> IF tz = "" THEN "UTC" ELSE tz, utc |-> tm]

AnswerDate ==
    /\ pc = "zone"
    /\ Reply(onvif_xml_system_date_and_time)
    /\ HttpdOnly /\ UNCHANGED <<request, readVars, builderVars, handed>>

-----------------------------------------------------------------------------
(* The setters. Either answers a fault when the host does not offer the    *)
(* call or refuses it.                                                     *)
Verdict(kind) == pc' = "answer" /\ answer' = [kind |-> kind]

(* time_apply, as its contract has it: what the request does not mention   *)
(* stays.                                                                  *)
time_apply(r) ==
    /\ ntp' = r.ntp_mode
    /\ IF r.has_utc
       THEN clock' = r.utc_epoch /\ expected' = Normalised(TheOnly(Dates(request.body)))
       ELSE UNCHANGED <<clock, expected>>
    /\ zone' = IF r.has_tz THEN r.tz ELSE zone
    /\ UNCHANGED servers

handle_set_system_date_and_time ==
    LET parsed == onvif_time_parse_set_request(request.body) IN
    /\ pc = "SetSystemDateAndTime"
    /\ \/ /\ cfg.time_apply /\ parsed # {}
          /\ \A r \in parsed : time_apply(r)
          /\ handed' = parsed
          /\ Verdict("ack")
       \/ /\ Verdict(IF cfg.time_apply THEN "invalid" ELSE "not supported")
          /\ UNCHANGED <<hostVars, handed>>
    /\ UNCHANGED <<cfg, request, readVars, builderVars, ticks>>

(* ntp_set: an empty list ends the use of NTP.                             *)
handle_set_ntp ==
    LET list == onvif_time_parse_set_ntp(request.body) IN
    /\ pc = "SetNTP"
    /\ \/ /\ cfg.ntp_set
          /\ servers' = list /\ ntp' = (ntp /\ list # << >>)
          /\ handed' = {list}
          /\ UNCHANGED <<clock, zone, expected>>
          /\ Verdict("ack")
       \/ /\ Verdict(IF cfg.ntp_set THEN "invalid" ELSE "not supported")
          /\ UNCHANGED <<hostVars, handed>>
    /\ UNCHANGED <<cfg, request, readVars, builderVars, ticks>>

AnswerVerdict ==
    /\ pc = "answer" /\ pc' = "done"
    /\ HttpdOnly /\ UNCHANGED <<request, readVars, builderVars, answer, handed>>

-----------------------------------------------------------------------------
(* The answers of several pieces. Each snprintf is given the room that is  *)
(* left and returns the length it would need; but for the last, nothing    *)
(* more is written once the buffer is full.                                *)
Length(piece) ==
    LET addresses == CASE request.action \in {"GetCapabilities", "GetServices"} /\ piece = "head" -> 2
                       [] request.action \in {"GetCapabilities", "GetServices"} /\ piece = "middle" -> 1
                       [] request.action = "GetServices" /\ piece = "tail" -> 1
                       [] OTHER -> 0
    IN  Markup[request.action][piece] + addresses * cfg.address

GoOn(written, next) == next    \* mutant: the length is looked at only at the end

Unless(written, next) == IF written < RespMax THEN next ELSE "built"

Write(length, next) == off' = off + length /\ pc' = Unless(off', next)

AfterHead ==
    CASE request.action = "GetScopes" -> "scopes"
      [] request.action = "GetVideoEncoderConfiguration" -> "middle"
      [] OTHER -> IF cfg.events THEN "middle" ELSE "tail"

WriteHead ==
    /\ pc = "head" /\ Write(Length("head"), AfterHead)
    /\ HttpdOnly /\ UNCHANGED <<request, readVars, p, items, answer, handed>>

WriteMiddle ==
    /\ pc = "middle" /\ Write(Length("middle"), "tail")
    /\ HttpdOnly /\ UNCHANGED <<request, readVars, p, items, answer, handed>>

(* The loop of onvif_xml_get_scopes: skip the spaces, write what stands    *)
(* before the next one.                                                    *)
NextBreak(i, space) ==
    LET breaks == {j \in i .. Len(cfg.scopes) : (cfg.scopes[j] = " ") = space}
    IN  IF breaks = {} THEN Len(cfg.scopes) + 1 ELSE Min(breaks)

OneSpace(i) ==    \* mutant
    IF i <= Len(cfg.scopes) /\ cfg.scopes[i] = " " THEN i + 1 ELSE i

SkipSpaces(i) == NextBreak(i, FALSE)

WriteScope ==
    LET from == SkipSpaces(p)
        end == NextBreak(from, TRUE) IN
    /\ pc = "scopes"
    /\ IF from = end THEN pc' = "tail" /\ UNCHANGED builderVars
       ELSE /\ Write(Length("middle") + end - from, "scopes")
            /\ items' = Append(items, SubSeq(cfg.scopes, from, end - 1))
            /\ p' = end
    /\ HttpdOnly /\ UNCHANGED <<request, readVars, answer, handed>>

WriteTail ==
    /\ pc = "tail" /\ pc' = "built" /\ off' = off + Length("tail")
    /\ HttpdOnly /\ UNCHANGED <<request, readVars, p, items, answer, handed>>

(* SEND_BUILT: an answer that was cut gives way to a fault.                *)
Cropped == off <= RespMax    \* mutant

Fits == off < RespMax

SendBuilt ==
    /\ pc = "built"
    /\ IF Fits THEN Reply([kind |-> "data", length |-> off, scopes |-> items])
               ELSE pc' = "fault" /\ UNCHANGED answer
    /\ HttpdOnly /\ UNCHANGED <<request, readVars, builderVars, handed>>

send_fault ==
    /\ pc = "fault"
    /\ Reply([kind |-> "not supported"])
    /\ HttpdOnly /\ UNCHANGED <<request, readVars, builderVars, handed>>

(* The handler returns, and its locals are gone.                           *)
Finish ==
    /\ pc = "done"
    /\ pc' = "idle" /\ request' = NoRequest
    /\ tm' = Boot /\ shown' = Boot /\ ntp_active' = FALSE
    /\ off' = 0 /\ p' = 1 /\ items' = << >>
    /\ answer' = NoAnswer /\ handed' = {}
    /\ HttpdOnly

-----------------------------------------------------------------------------
(* The host: a second passes; SNTP sets the clock.                         *)
HostOnly == UNCHANGED <<cfg, pc, request, readVars, builderVars, answer, handed>>

Tick ==
    /\ ticks < MaxTicks /\ ticks' = ticks + 1
    /\ clock' = SecondLater(clock) /\ expected' = NextSecond(expected)
    /\ UNCHANGED <<ntp, zone, servers>> /\ HostOnly

Synchronise(c) ==
    /\ ntp
    /\ clock' = CivilEpoch(c) /\ expected' = c
    /\ UNCHANGED <<ntp, zone, servers, ticks>> /\ HostOnly

Httpd ==
    \/ NoMemory
    \/ ReadClock \/ ReadMode \/ AnswerDate
    \/ handle_set_system_date_and_time \/ handle_set_ntp \/ AnswerVerdict
    \/ WriteHead \/ WriteMiddle \/ WriteScope \/ WriteTail \/ SendBuilt \/ send_fault
    \/ Finish

Host == Tick \/ \E c \in SyncDates : Synchronise(c)

Next == (\E r \in Requests : Dispatch(r)) \/ Httpd \/ Host

Spec == Init /\ [][Next]_vars
=============================================================================
