--------------------------- MODULE ServiceProperties ---------------------------
(***************************************************************************)
(* What the services and the configuration seam must do.                   *)
(***************************************************************************)
EXTENDS Service

Pointers == {"nothing", "null", "own", "default"}

ApplicationType ==
    /\ s_cfg \in Config /\ default_scopes \in {"empty", "torn", "whole"}
    /\ registered \subseteq URIs /\ responder \in BOOLEAN /\ held \in Pointers
    /\ apc \in {"idle", "copy", "derive", "name", "discovery"} \cup URIs
    /\ cfg \in Configs \cup {ZeroConfig} /\ left \subseteq Members
    /\ started \in BOOLEAN /\ starts \in 0 .. MaxStarts

Handlers == {"none", "fault"} \cup
    UNION {{ActionsOf[u][i] : i \in DOMAIN ActionsOf[u]} : u \in URIs}

HttpdType ==
    /\ hpc \in {"idle", "gate", "dispatch", "apply", "send", "done"}
    /\ uri \in {"none"} \cup URIs /\ body \in Bodies \cup {NoBody}
    /\ handler \in Handlers /\ scopes \in Pointers /\ advertised \subseteq URIs
    /\ applied \in BOOLEAN /\ answer \in {"nothing", "data", "ack", "fault", "401"}
    /\ s_nonce_cache \in Cache /\ clock \in Times /\ accepted \in Seq(Nonces)

TypeOK == ApplicationType /\ HttpdType

-----------------------------------------------------------------------------
(* What a pointer to the scopes leads to, while somebody follows it.       *)
Readable(pointer) ==
    /\ pointer # "null"
    /\ pointer = "default" => default_scopes = "whole"

(* "Resolve the default ONCE, before any task exists that reads it"        *)
(* (onvif_c_service.c): whoever reads the scopes, the httpd task or the    *)
(* responder, finds a string.                                              *)
ScopesReadWhole == Readable(scopes) /\ Readable(held)

(* The same for the first start after boot: the configuration is complete  *)
(* before anybody is there who could read it, whichever call then fails.   *)
FirstStartIsSafe == starts <= 1 => ScopesReadWhole

(* After a start that succeeded, GetCapabilities and GetServices name      *)
(* endpoints that are served, also when former starts failed half-way or   *)
(* had another configuration.                                              *)
AdvertisedIsServed ==
    [][ started /\ DispatchAction => advertised' \subseteq registered ]_vars

(* A client that asks for one action gets that action, although names      *)
(* contain other names and are looked for anywhere in the body.            *)
OwnHandler ==
    hpc \in {"apply", "send"} /\ body # NoBody =>
        LET actions == ActionsOf[uri]
        IN  (\E i \in DOMAIN actions : actions[i] = body.wanted) => handler = body.wanted

(* The names of actions that occur in a name, itself and those it contains. *)
NamesIn(name) ==
    {name} \cup IF name \in {"GetVideoEncoderConfigurations", "GetVideoEncoderConfigurationOptions"}
                THEN {"GetVideoEncoderConfiguration"} ELSE {}

(* A body that names one action, and nothing else that contains a name.    *)
NamesOne(b) == b.wanted \in b.mentions /\ b.mentions \subseteq NamesIn(b.wanted)

(* SetSystemDateAndTime and SetNTP apply or fault: what is acknowledged    *)
(* was carried out, what is answered with a fault was not.                 *)
ApplyOrFault ==
    hpc = "done" /\ handler \in Setters =>
        /\ answer = "ack" => applied
        /\ answer = "fault" => ~applied
        /\ answer # "data"

(* No nonce is accepted a second time before NonceSlots others were.       *)
NonceOnce ==
    \A i, j \in 1 .. Len(accepted) :
        i < j /\ accepted[i] = accepted[j] => j - i > NonceSlots
=============================================================================
