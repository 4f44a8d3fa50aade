--------------------------------- MODULE Probe ---------------------------------
(***************************************************************************)
(* The texts of WS-Discovery, core/onvif_probe.c: what the builders write, *)
(* what the responder looks for in a datagram. It tells messages apart by  *)
(* substrings: a message is its type, whether its text has this device's   *)
(* uuid ("ours"), and the MessageID in it. What does not fit the receive   *)
(* buffer is not part of the text.                                         *)
(***************************************************************************)
EXTENDS Integers

CONSTANT Texts    \* what clients may write as MessageIDs

(* A MessageID: its text and the length of it. The length is 0 when there  *)
(* is no such element, an empty one, or one that is not closed.            *)
MessageId == [text : Texts \cup {"", "urn:uuid:unknown"}, len : Nat]
NoId == [text |-> "", len |-> 0]

(* What is looked for in the texts, and found: the name of an answer has   *)
(* the name of its request in it, behind a prefix.                         *)
Found == [Probe          |-> {":Probe"},
          ProbeMatches   |-> {":Probe", "ProbeMatches"},
          Resolve        |-> {":Resolve"},
          ResolveMatches |-> {":Resolve", "ResolveMatches"},
          Hello          |-> {},
          Bye            |-> {},
          empty          |-> {}]

Message == [type : DOMAIN Found, ours : BOOLEAN, id : MessageId]
Empty == [type |-> "empty", ours |-> FALSE, id |-> NoId]

AnyProbe(body) == ":Probe" \in Found[body.type]    \* mutant: answers as well

onvif_probe_is_probe(body) ==
    ":Probe" \in Found[body.type] /\ "ProbeMatches" \notin Found[body.type]

onvif_probe_is_resolve(body) ==
    ":Resolve" \in Found[body.type] /\ "ResolveMatches" \notin Found[body.type]

(* sizeof relates_to; the text needs room for its end.                     *)
RelatesRoom == 128

onvif_probe_message_id(body) == body.id.len \in 1 .. RelatesRoom - 1

Unknown == [text |-> "urn:uuid:unknown", len |-> 16]

LongestId(body) == IF body.id.len = 0 THEN Unknown ELSE body.id    \* mutant

RelatesTo(body) == IF onvif_probe_message_id(body) THEN body.id ELSE Unknown

(* The frames sent, each with its type and address, and an answer with the *)
(* id it relates to. A ResolveMatches has no scopes.                       *)
Frame(type, ip, relates_to) == [type |-> type, ip |-> ip, relates_to |-> relates_to]

onvif_probe_build_matches(relates_to, ip) == Frame("ProbeMatches", ip, relates_to)
onvif_probe_build_resolve_matches(relates_to, ip) == Frame("ResolveMatches", ip, relates_to)
onvif_probe_build_hello(ip) == Frame("Hello", ip, NoId)
onvif_probe_build_bye(ip) == Frame("Bye", ip, NoId)
=============================================================================
