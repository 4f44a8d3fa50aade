-------------------------------- MODULE Service --------------------------------
(***************************************************************************)
(* The SOAP services and the configuration seam,                           *)
(* esp_idf/onvif_c_service.c, and the dispatch of the events service,      *)
(* onvif_c_events.c (what that service keeps is in Events): the            *)
(* application, which starts and stops the library; the httpd task, which  *)
(* serves one request at a time; and the WS-Discovery responder, here only *)
(* a reader of the configuration. The configuration is one static          *)
(* structure without a lock: the start writes it member by member and then *)
(* puts defaults in place of what is missing, the others read it whenever  *)
(* they need it.                                                           *)
(***************************************************************************)
EXTENDS Wsse, Sequences

CONSTANTS
    Configs,        \* the configurations the application may start with
    Bodies,         \* the request bodies, see BodyType
    NoBody,         \* a body that is empty, oversized or not received, or no memory for it
    MaxStarts,      \* bound on the starts
    MaxAccepted,    \* bound on the nonces ever accepted
    Times           \* the wall clock's values

(* onvif_c_config_t. The scopes stand for every member that gets a default *)
(* when it is NULL or zero (model and the other names, http_port): they    *)
(* are the one whose default takes several steps to make.                  *)
Members == {"scopes", "events_enabled", "auth", "seams"}

Config == [scopes : {"null", "own", "default"},
           events_enabled : BOOLEAN,
           auth : {"null", "digest", "text", "empty"},    \* auth_password, and what it accepts
           seams : BOOLEAN]                               \* time_apply and ntp_set

ZeroConfig == [scopes |-> "null", events_enabled |-> FALSE, auth |-> "null", seams |-> FALSE]

(* A body: the action asked for, the action names that occur in it, whether *)
(* its UTCDateTime (or server list) parses, and its security token.        *)
BodyType == [wanted : STRING, mentions : SUBSET STRING, date : {"good", "malformed"},
             token : Token]

ASSUME ServiceAssumption ==
    /\ Configs \subseteq {c \in Config : c.scopes # "default"}
    /\ NoBody \notin Bodies
    /\ \A b \in Bodies :
          b \in BodyType /\ (b.token.nonce = "good" => b.token.value # NoNonce)
    /\ MaxStarts \in Nat /\ MaxAccepted \in Nat /\ Times \subseteq Nat

VARIABLES
    s_cfg,
    default_scopes,     \* the static buffer: "empty", "torn" while written, "whole"
    registered,         \* the URIs httpd knows
    responder,          \* does the responder run?
    \* the application task, in onvif_c_start
    apc, cfg,           \* where it stands, its argument
    left,               \* members still to be copied
    started,            \* did the last start succeed?
    starts,
    \* the httpd task and the request it serves
    hpc, uri, body,
    handler,            \* the action its body was taken for
    scopes,             \* the pointer to the scopes it has read
    advertised,         \* the URIs its answer names
    applied,            \* has the host carried out the request?
    answer,             \* what was sent
    s_nonce_cache,
    clock,
    \* the responder's copy of the scopes pointer
    held,
    \* history
    accepted            \* the nonces of the tokens accepted, in order

configVars == <<s_cfg, default_scopes>>
appVars == <<registered, responder, apc, cfg, left, started, starts, held>>
requestVars == <<uri, body, handler, scopes, advertised, applied, answer>>
gateVars == <<s_nonce_cache, clock, accepted>>
vars == <<configVars, appVars, hpc, requestVars, gateVars>>

-----------------------------------------------------------------------------
(* Actions are recognised by strstr, in this order: the first name that    *)
(* occurs anywhere in the body wins.                                       *)
DeviceActions ==
    <<"GetSystemDateAndTime", "GetDeviceInformation", "GetCapabilities", "GetServices",
      "GetScopes", "SystemReboot", "SetNTP", "SetSystemDateAndTime",
      "GetServiceCapabilities">>

ShortestFirst ==    \* mutant: a name before the longer names that contain it
    <<"GetProfiles", "GetStreamUri", "GetSnapshot", "GetVideoSources",
      "GetVideoEncoderConfiguration", "GetVideoEncoderConfigurations",
      "GetVideoEncoderConfigurationOptions", "SetVideoEncoderConfiguration",
      "GetGuaranteedNumberOfVideoEncoderInstances", "SetSynchronizationPoint",
      "GetServiceCapabilities">>

MediaActions ==
    <<"GetProfiles", "GetStreamUri", "GetSnapshot", "GetVideoSources",
      "GetVideoEncoderConfigurationOptions", "GetVideoEncoderConfigurations",
      "GetVideoEncoderConfiguration", "SetVideoEncoderConfiguration",
      "GetGuaranteedNumberOfVideoEncoderInstances", "SetSynchronizationPoint",
      "GetServiceCapabilities">>

Media2Actions == <<"GetProfiles", "GetStreamUri", "SetSynchronizationPoint">>

EventsActions ==
    <<"CreatePullPointSubscription", "PullMessages", "Renew", "Unsubscribe",
      "GetEventProperties", "GetServiceCapabilities", "SetSynchronizationPoint">>

URIs == {"device_service", "media_service", "media2_service", "events_service"}

ActionsOf == [device_service |-> DeviceActions, media_service |-> MediaActions,
              media2_service |-> Media2Actions, events_service |-> EventsActions]

Dispatch(u, b) ==
    LET actions == ActionsOf[u]
        IsFirst(i) == /\ actions[i] \in b.mentions
                      /\ \A j \in 1 .. i - 1 : actions[j] \notin b.mentions
    IN  IF b # NoBody /\ \E i \in DOMAIN actions : IsFirst(i)
        THEN actions[CHOOSE i \in DOMAIN actions : IsFirst(i)] ELSE "fault"

Init ==
    /\ s_cfg = ZeroConfig /\ default_scopes = "empty"
    /\ registered = {} /\ responder = FALSE /\ held = "nothing"
    /\ apc = "idle" /\ cfg = ZeroConfig /\ left = {} /\ started = FALSE /\ starts = 0
    /\ hpc = "idle" /\ uri = "none" /\ body = NoBody /\ handler = "none"
    /\ scopes = "nothing" /\ advertised = {} /\ applied = FALSE /\ answer = "nothing"
    /\ s_nonce_cache = EmptyCache /\ clock \in Times /\ accepted = << >>

-----------------------------------------------------------------------------
(* The application task.                                                   *)
AppOnly == UNCHANGED <<hpc, requestVars, gateVars>>

(* A start whose arguments are incomplete returns before it does anything. *)
onvif_c_start(c) ==
    /\ apc = "idle" /\ starts < MaxStarts
    /\ apc' = "copy" /\ cfg' = c /\ left' = Members
    /\ started' = FALSE /\ starts' = starts + 1
    /\ UNCHANGED <<configVars, registered, responder, held>>
    /\ AppOnly

(* s_cfg = *cfg: another task may see any part of it copied.               *)
CopyMember(f) ==
    /\ apc = "copy" /\ f \in left
    /\ s_cfg' = [s_cfg EXCEPT ![f] = cfg[f]]
    /\ left' = left \ {f}
    /\ apc' = IF left' # {} THEN "copy"
              ELSE IF s_cfg'.scopes = "null" THEN "derive" ELSE "device_service"
    /\ UNCHANGED <<default_scopes, registered, responder, held, cfg, started, starts>>
    /\ AppOnly

(* The default scopes are printed into a static buffer, and then named.    *)
DeriveScopes ==
    /\ apc = "derive"
    /\ default_scopes' = "torn"
    /\ apc' = "name"
    /\ UNCHANGED <<s_cfg, registered, responder, held, cfg, left, started, starts>>
    /\ AppOnly

KeepNull == "null"    \* mutant: the default is never put in place

DerivedScopes == "default"

NameScopes ==
    /\ apc = "name"
    /\ default_scopes' = "whole"
    /\ s_cfg' = [s_cfg EXCEPT !.scopes = DerivedScopes]
    /\ apc' = "device_service"
    /\ UNCHANGED <<registered, responder, held, cfg, left, started, starts>>
    /\ AppOnly

AlwaysLast(u) == "discovery"    \* mutant: the events service is never registered

AfterMedia2(u) == IF s_cfg.events_enabled THEN "events_service" ELSE "discovery"

(* Registering one URI after the other. A URI that is registered already   *)
(* is accepted; any other error ends the start.                            *)
Register(u) ==
    /\ apc = u
    /\ \/ registered' = registered \cup {u}
          /\ apc' = CASE u = "device_service" -> "media_service"
                      [] u = "media_service" -> "media2_service"
                      [] u = "media2_service" -> AfterMedia2(u)
                      [] u = "events_service" -> "discovery"
       \/ u \notin registered /\ UNCHANGED registered /\ apc' = "idle"
    /\ UNCHANGED <<configVars, responder, held, cfg, left, started, starts>>
    /\ AppOnly

(* onvif_c_discovery_start; its result is the result of the start.         *)
StartDiscovery ==
    /\ apc = "discovery" /\ apc' = "idle"
    /\ \/ responder' = TRUE /\ started' = TRUE
       \/ ~responder /\ UNCHANGED <<responder, started>>
    /\ UNCHANGED <<configVars, registered, held, cfg, left, starts>>
    /\ AppOnly

(* The SOAP handlers stay registered; the responder is deleted.            *)
onvif_c_stop ==
    /\ apc = "idle" /\ responder
    /\ responder' = FALSE /\ held' = "nothing"
    /\ UNCHANGED <<configVars, registered, apc, cfg, left, started, starts>>
    /\ AppOnly

-----------------------------------------------------------------------------
(* The responder reads the scopes when it builds a Hello or ProbeMatches,  *)
(* and follows the pointer until the message is built.                     *)
ReadScopes ==
    /\ responder /\ held = "nothing"
    /\ held' = s_cfg.scopes
    /\ UNCHANGED <<configVars, registered, responder, apc, cfg, left, started, starts>>
    /\ AppOnly

ScopesRead ==
    /\ held # "nothing"
    /\ held' = "nothing"
    /\ UNCHANGED <<configVars, registered, responder, apc, cfg, left, started, starts>>
    /\ AppOnly

-----------------------------------------------------------------------------
(* The httpd task.                                                         *)
HttpdOnly == UNCHANGED <<configVars, appVars, clock>>

(* A request for one of the services; read_body has read its body, in      *)
(* however many pieces, or has given up: then the events service answers a *)
(* fault without asking the gate.                                          *)
Accept(u, b) ==
    /\ hpc = "idle" /\ u \in registered
    /\ Len(accepted) < MaxAccepted
    /\ hpc' = IF u = "events_service" /\ b = NoBody THEN "dispatch" ELSE "gate"
    /\ uri' = u /\ body' = b
    /\ HttpdOnly
    /\ UNCHANGED <<handler, scopes, advertised, applied, answer, s_nonce_cache, accepted>>

(* onvif_c_auth_gate. Without a password callback everything passes, as    *)
(* does what mentions GetSystemDateAndTime. A refusal is answered 401; if  *)
(* there is no memory for that answer, none is sent. The cache is touched  *)
(* only by a digest that is accepted.                                      *)
Open == s_cfg.auth = "null" \/ (body # NoBody /\ "GetSystemDateAndTime" \in body.mentions)

NoToken == [present |-> FALSE, user |-> FALSE, password |-> "absent", text |-> FALSE,
            nonce |-> "absent", value |-> NoNonce, created |-> "absent", at |-> 0]

TokenOf(b) == IF b = NoBody THEN NoToken ELSE b.token

Verdict == Verify(TokenOf(body), s_cfg.auth # "empty", s_cfg.auth = "text", clock,
                  s_nonce_cache)

GatePasses ==
    /\ hpc = "gate" /\ (Open \/ Verdict = "OK")
    /\ hpc' = "dispatch"
    /\ IF Open \/ TokenOf(body).text THEN UNCHANGED <<s_nonce_cache, accepted>>
       ELSE /\ s_nonce_cache' = Remember(s_nonce_cache, body.token.value)
            /\ accepted' = Append(accepted, body.token.value)
    /\ HttpdOnly /\ UNCHANGED requestVars

GateRefuses ==
    /\ hpc = "gate" /\ ~Open /\ Verdict # "OK"
    /\ hpc' = "done"
    /\ answer' \in {"401", "nothing"}
    /\ HttpdOnly
    /\ UNCHANGED <<uri, body, handler, scopes, advertised, applied, s_nonce_cache, accepted>>

(* The dispatch, and the members of the configuration that its handler     *)
(* reads. A setter without its callback, or with a date that does not      *)
(* parse, answers a fault.                                                 *)
Setters == {"SetNTP", "SetSystemDateAndTime"}

Takes(action, b) ==
    s_cfg.seams /\ (action = "SetNTP" \/ b.date = "good")

(* The endpoints that the two answers about the device's services name.    *)
Advertised(action) ==
    {u \in URIs :
        /\ action \in {"GetCapabilities", "GetServices"}
        /\ u = "media2_service" => action = "GetServices"
        /\ u = "events_service" => s_cfg.events_enabled}

DispatchAction ==
    LET action == Dispatch(uri, body) IN
    /\ hpc = "dispatch"
    /\ handler' = action
    /\ hpc' = IF action \in Setters /\ Takes(action, body) THEN "apply" ELSE "send"
    /\ scopes' = IF action = "GetScopes" THEN s_cfg.scopes ELSE "nothing"
    /\ advertised' = Advertised(action)
    /\ answer' = IF action = "fault" \/ (action \in Setters /\ ~Takes(action, body))
                 THEN "fault" ELSE "data"
    /\ HttpdOnly
    /\ UNCHANGED <<uri, body, applied, s_nonce_cache, accepted>>

(* The host carries the request out, or not, and that is the answer.       *)
AlwaysAck(done) == "ack"    \* mutant: the silent acknowledgement of former versions

Outcome(done) == IF done THEN "ack" ELSE "fault"

Apply ==
    /\ hpc = "apply" /\ hpc' = "send"
    /\ applied' \in BOOLEAN
    /\ answer' = Outcome(applied')
    /\ HttpdOnly
    /\ UNCHANGED <<uri, body, handler, scopes, advertised, s_nonce_cache, accepted>>

(* SEND_BUILT: an answer that does not fit its buffer gives way to a fault *)
(* (acknowledgements and faults always fit); without memory nothing is     *)
(* sent and httpd closes the connection.                                   *)
Send ==
    /\ hpc = "send" /\ hpc' = "done"
    /\ \/ UNCHANGED answer
       \/ answer = "data" /\ answer' = "fault"
       \/ answer' = "nothing"
    /\ HttpdOnly
    /\ UNCHANGED <<uri, body, handler, scopes, advertised, applied, s_nonce_cache, accepted>>

(* The handler returns and frees the body.                                 *)
Finish ==
    /\ hpc = "done" /\ hpc' = "idle"
    /\ uri' = "none" /\ body' = NoBody /\ handler' = "none" /\ scopes' = "nothing"
    /\ advertised' = {} /\ applied' = FALSE /\ answer' = "nothing"
    /\ HttpdOnly /\ UNCHANGED <<s_nonce_cache, accepted>>

-----------------------------------------------------------------------------
(* The wall clock passes, or is set.                                       *)
SetClock(t) ==
    /\ clock' = t
    /\ UNCHANGED <<configVars, appVars, hpc, requestVars, s_nonce_cache, accepted>>

onvif_c_cfg_set ==
    \/ \E f \in Members : CopyMember(f)
    \/ DeriveScopes \/ NameScopes

Application ==
    \/ \E c \in Configs : onvif_c_start(c)
    \/ onvif_c_cfg_set
    \/ \E u \in URIs : Register(u)
    \/ StartDiscovery \/ onvif_c_stop

Responder == ReadScopes \/ ScopesRead

Httpd ==
    \/ \E u \in URIs, b \in Bodies \cup {NoBody} : Accept(u, b)
    \/ GatePasses \/ GateRefuses \/ DispatchAction \/ Apply \/ Send \/ Finish

Next == Application \/ Responder \/ Httpd \/ \E t \in Times : SetClock(t)

Spec == Init /\ [][Next]_vars
=============================================================================
