------------------------------ MODULE MCDiscovery ------------------------------
(* Instances of Discovery for TLC.                                         *)
EXTENDS DiscoveryProperties

Id(said, len) == [text |-> said, len |-> len]
Said(type, ours, id) == [type |-> type, ours |-> ours, id |-> id]

(* Clients' requests: Probes with an id that just fits and with one that   *)
(* just does not, Resolves without any, of this device and of another;     *)
(* this device's own frames, heard back; another device's answers.         *)
Traffic ==
    {Empty}
    \cup {Said("Probe", FALSE, id) : id \in {Id("just fits", 127), Id("too long", 128)}}
    \cup {Said("Resolve", ours, NoId) : ours \in BOOLEAN}
    \cup {Said(type, TRUE, Id("own", 45)) : type \in {"Hello", "ResolveMatches"}}
    \cup {Said("ProbeMatches", FALSE, Id("other", 45))}

Timeouts == {Empty}
Announcements == {Said("Hello", FALSE, Id("other", 45))}
=============================================================================
