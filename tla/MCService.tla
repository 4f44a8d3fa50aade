------------------------------- MODULE MCService -------------------------------
(* Instances of Service for TLC.                                           *)
EXTENDS ServiceProperties, TLC

CONSTANTS n1, n2, n3

(* A configuration with everything, and one with only what is required.    *)
FullConfig == [scopes |-> "own", events_enabled |-> TRUE, auth |-> "digest", seams |-> TRUE]

BareConfig == [scopes |-> "null", events_enabled |-> FALSE, auth |-> "null", seams |-> FALSE]

TextConfig == [scopes |-> "null", events_enabled |-> TRUE, auth |-> "text", seams |-> TRUE]

MCConfigs == {FullConfig, BareConfig, TextConfig}

Digest(nonce, at) == [present |-> TRUE, user |-> TRUE, password |-> "right", text |-> FALSE,
                      nonce |-> "good", value |-> nonce, created |-> "good", at |-> at]

Ask(action, others, token) ==
    [wanted |-> action, mentions |-> {action} \cup others, date |-> "good", token |-> token]

(* The actions whose names contain other names, the ones that read or      *)
(* change something, and one without a handler.                            *)
ActionBodies ==
    {Ask("GetVideoEncoderConfigurationOptions", {"GetVideoEncoderConfiguration"}, Digest(n1, 0)),
     Ask("GetScopes", {}, Digest(n1, 0)),
     Ask("GetServices", {}, Digest(n2, 0)),
     Ask("SetSystemDateAndTime", {}, Digest(n2, 0)),
     Ask("GetCapabilities", {}, Digest(n3, 2)),
     Ask("SetNTP", {}, Digest(n3, 2)),
     Ask("Unsubscribe", {}, Digest(n1, 2)),
     Ask("GetSystemDateAndTime", {}, NoToken)}

(* Tokens that are refused, and a plain-text one.                          *)
TokenBodies ==
    {Ask("GetScopes", {}, t) :
        t \in {[Digest(n1, 0) EXCEPT !.password = "wrong"],
               [Digest(n1, 0) EXCEPT !.created = "malformed"],
               [Digest(n1, 0) EXCEPT !.text = TRUE]}}

MCBodies ==
    ActionBodies \cup TokenBodies
        \cup {[Ask("SetSystemDateAndTime", {}, Digest(n1, 0)) EXCEPT !.date = "malformed"]}

(* What ServiceOwnHandler assumes of the bodies.                           *)
ASSUME MCBodiesNameOne == \A b \in MCBodies : NamesOne(b)
=============================================================================
