-------------------------- MODULE DiscoveryProperties --------------------------
(***************************************************************************)
(* What the discovery responder must do: the properties of Discovery.      *)
(***************************************************************************)
EXTENDS Discovery

FrameTypes == {"none", "Hello", "ProbeMatches", "ResolveMatches", "Bye"}
Strings == Addresses \cup {NoAddress, Garbled}
Frames == [type : FrameTypes, ip : Strings, relates_to : MessageId]

TaskType ==
    /\ s_disc_wdt_watched \in BOOLEAN
    /\ pc \in {"none", "begin", "alloc", "outer", "bind", "address", "join", "hello", "sleep",
               "inner", "recv", "hello again", "send hello", "probe", "resolve",
               "send matches", "send resolve"}
    /\ sock \in BOOLEAN
    /\ hello_counter \in 0 .. HelloEvery - 1 /\ ms \in Int
    /\ recv_buf \in Datagrams \cup {Empty}

ApplicationType ==
    /\ s_disc_task \in Nat /\ task \in Nat /\ created \in Nat
    /\ apc \in {"idle", "clear", "delete"} /\ configured \in BOOLEAN

DeviceType ==
    /\ broken \in {"nothing", "socket", "bind", "join"}
    /\ waited \in Nat /\ unfed \in Nat /\ silent \in Nat
    /\ subscribed \in BOOLEAN /\ orphans \in Nat /\ lost \in Nat
    /\ frame \in Frames
    /\ departed \in BOOLEAN

AddressType ==
    /\ addr \in recent /\ recent \subseteq Addresses \cup {NoAddress}
    /\ text \in Strings

TypeOK == TaskType /\ ApplicationType /\ DeviceType /\ AddressType

-----------------------------------------------------------------------------
(* A watched task is fed before the TWDT bites, wherever it blocks: in the *)
(* receive timeout, in retry sleeps while the network fails, for as long   *)
(* as that lasts.                                                          *)
FedInTime == subscribed => unfed < TwdtTimeout

(* When the application is not in the middle of a stop, only the task the  *)
(* handle stands for can be running: stop leaves none behind, and start    *)
(* never adds a second one.                                                *)
OneTask == apc = "idle" /\ pc # "none" => s_disc_task = created

(* However many attempts fail, and at whatever call, a task has at most    *)
(* one socket open: all that is ever lost is the socket a deleted task     *)
(* held, one for each task.                                                *)
RetriesLoseNoSocket == (IF sock THEN lost + 1 ELSE lost) <= created

(* A frame is made of the host's string some time after the check of it,   *)
(* and other tasks rewrite that string meanwhile. Still, unless the        *)
(* address changes in that very moment, every Hello and every answer names *)
(* the address the interface has: not "0.0.0.0", not one it had before,    *)
(* not half of each. In particular nothing is sent while it has none       *)
(* ("stays quiet on discovery", docs/en-US/onvif-c-quickstart.md).         *)
Steady == recent = {addr}

Sends == \/ (InitialHello \/ SendHello \/ SendMatches) /\ ScopesFit
         \/ SendMatches /\ pc = "send resolve"

NamesTheAddress == [][Sends /\ Steady => addr # NoAddress /\ frame'.ip = addr]_vars

(* What is answered is a Probe, or a Resolve of this device, in kind and   *)
(* with the id of that very message, or "unknown" if it has none that fits *)
(* ("not our own ProbeMatches/Hello echo", core/onvif_probe.h): devices    *)
(* that hear each other's answers, or their own, do not answer them, and   *)
(* no id is left over from an earlier request.                             *)
Requested(answer) ==
    /\ \/ answer.type = "ProbeMatches" /\ recv_buf.type = "Probe"
       \/ answer.type = "ResolveMatches" /\ recv_buf.type = "Resolve" /\ recv_buf.ours
    /\ answer.relates_to.len \in 1 .. RelatesRoom - 1
    /\ answer.relates_to # recv_buf.id =>
          answer.relates_to = Unknown /\ recv_buf.id.len \notin 1 .. RelatesRoom - 1

AnswersTheRequest ==
    [][frame' # frame /\ frame'.type \notin {"Hello", "Bye"} => Requested(frame')]_vars

(* With an address and no datagrams to read, Hello follows Hello within    *)
(* HelloEvery receive timeouts, 30 s, through every change of address. (An *)
(* empty datagram counts as a timeout.)                                    *)
HelloOnTime == ScopesFit /\ Listening => silent <= HelloEvery * RecvTimeout

(* When the interface has an address again and keeps it, and the network   *)
(* calls succeed again, the task gets out of its retry loop and stays in   *)
(* the receive loop.                                                       *)
Settled(a) ==
    addr = a /\ broken = "nothing" /\ apc = "idle" /\ s_disc_task # 0 /\ pc # "none"

Recovers == \A a \in Addresses : <>[]Settled(a) => <>[]Listening

-----------------------------------------------------------------------------
(* "unsubscribe on task exit" (tests/test_discovery.c): a task that has    *)
(* ended is no longer in the TWDT, which would bite for want of a feed.    *)
UnsubscribedOnExit == pc = "none" => orphans = 0

(* "sends a multicast Bye from onvif_c_stop() so NVRs drop stale XAddrs"   *)
(* (README.md): nothing announces the device again after its Bye.          *)
ByeIsLast == departed => frame.type = "Bye"

(* "announces Hello every ~30s so NVRs can find the device without         *)
(* probing" (onvif_c_discovery.c): a task that is settled sends Hello      *)
(* again and again, whatever datagrams it receives meanwhile.              *)
HelloRecurs == \A a \in Addresses : <>[]Settled(a) => []<>(pc = "hello again")
=============================================================================
