---------------------------- MODULE DiscoveryProofs ----------------------------
(***************************************************************************)
(* The safety of the discovery responder for any periods, any number of    *)
(* tasks, any network.                                                     *)
(***************************************************************************)
EXTENDS DiscoveryProperties, TLAPS

LEMMA Periods ==
    /\ RecvTimeout \in Int /\ RecvTimeout > 0 /\ RecvTimeout < TwdtTimeout
    /\ Slice \in Int /\ Slice > 0 /\ Slice < TwdtTimeout
    /\ HelloEvery \in Int /\ HelloEvery > 0 /\ 0 \in 0 .. HelloEvery - 1
    /\ RetrySleep \in Int /\ TwdtTimeout \in Int
  BY DiscoveryAssumption

(* What the builders write is a frame, with an id that has room.           *)
LEMMA Built ==
    ASSUME NEW ip \in Strings, NEW id \in MessageId
    PROVE  /\ Frame("none", ip, NoId) \in Frames
           /\ onvif_probe_build_bye(ip) \in Frames /\ onvif_probe_build_hello(ip) \in Frames
           /\ onvif_probe_build_matches(id, ip) \in Frames
           /\ onvif_probe_build_resolve_matches(id, ip) \in Frames
  <1>1. NoId \in MessageId
    BY DEF NoId, MessageId
  <1>2. QED
    BY <1>1 DEF Frames, Strings, FrameTypes, Frame, onvif_probe_build_bye, onvif_probe_build_hello,
       onvif_probe_build_matches, onvif_probe_build_resolve_matches

LEMMA Related ==
    ASSUME NEW body \in Datagrams \cup {Empty}
    PROVE  body \in Message /\ RelatesTo(body) \in MessageId
  <1>1. Unknown \in MessageId /\ Empty \in Message
    BY DEF Unknown, MessageId, Empty, Message, NoId, Found
  <1>2. body \in Message
    BY <1>1, DiscoveryAssumption
  <1>3. body.id \in MessageId
    BY ONLY <1>2 DEF Message
  <1>4. QED
    BY <1>1, <1>2, <1>3 DEF RelatesTo

(* The handle, the application's copy of it and the live task agree: the   *)
(* three windows of onvif_c_discovery_stop.                                *)
HandleInv ==
    /\ pc # "none" => created > 0
    /\ s_disc_task \in {0, created}
    /\ apc \in {"idle", "clear"} => task = 0 /\ (pc # "none" => s_disc_task = created)
    /\ apc = "delete" => s_disc_task = 0 /\ (pc # "none" => task = created)

(* Where a subscribed task stands bounds how long ago it was fed.          *)
FeedInv ==
    subscribed =>
        /\ s_disc_wdt_watched /\ pc # "none"
        /\ pc \in {"bind", "address", "join", "hello"} => unfed = 0
        /\ pc \in {"recv", "sleep"} => unfed <= waited
        /\ pc \notin {"recv", "sleep"} => unfed <= RecvTimeout

(* How long the blocking calls last.                                       *)
WaitInv ==
    /\ pc = "recv" => waited <= RecvTimeout
    /\ pc = "sleep" => waited <= Slice

(* A live task may still lose one socket; one that ended holds none.       *)
SocketInv == IF pc = "none" THEN ~sock /\ lost <= created ELSE lost < created

IInv ==
    /\ TaskType /\ ApplicationType /\ DeviceType
    /\ HandleInv /\ FeedInv /\ WaitInv /\ SocketInv

(* The host's string says an address, or half of one.                      *)
LEMMA Asked ==
    ASSUME AddressType, NEW ip \in Strings
    PROVE  /\ Rewritten(ip) \subseteq Strings /\ CurrentIp \in Strings
           /\ onvif_c_cfg_ip => text' \in Strings
  <1>1. Rewritten(ip) \subseteq Strings /\ CurrentIp \in Strings
    BY DEF AddressType, Rewritten, CurrentIp, Strings
  <1>2. Rewritten(CurrentIp) \subseteq Strings
    BY DEF AddressType, Rewritten, Strings
  <1>3. QED
    BY <1>1, <1>2 DEF onvif_c_cfg_ip

LEMMA AddressInit == Init => AddressType
  BY DEF Init, AddressType, Strings

LEMMA AddressNext == AddressType /\ [Next]_vars => AddressType'
  <1> SUFFICES ASSUME AddressType, [Next]_vars PROVE AddressType'
    OBVIOUS
  <1> USE DEF AddressType, vars, deviceVars
  <1>1. CASE UNCHANGED <<addr, recent>> /\ (onvif_c_cfg_ip \/ UNCHANGED text)
    BY <1>1, Asked
  <1>2. CASE Application
    <2>1. UNCHANGED <<addr, recent>> /\ (onvif_c_cfg_ip \/ UNCHANGED text)
      BY <1>2 DEF Application, onvif_c_discovery_start, SendBye, ClearHandle, DeleteTask
    <2>2. QED
      BY <1>1, <2>1
  <1>3. CASE onvif_c_discovery_task
    <2>1. UNCHANGED <<addr, recent>> /\ (onvif_c_cfg_ip \/ UNCHANGED text)
      BY <1>3 DEF onvif_c_discovery_task, Begin, Allocate, OutOfMemory, OpenSocket, Bind,
         ReadAddress, Join, Sleep, InitialHello, InnerExit, Receive, NothingReceived,
         PeriodicHello, SendHello, Answer, SendMatches, OuterExit, TaskOnly, AskHost, ReadOnly
    <2>2. QED
      BY <1>1, <2>1
  <1>4. CASE Device
    <2>1. ASSUME NEW a \in Addresses \cup {NoAddress}, SetAddress(a) PROVE AddressType'
      BY <2>1 DEF SetAddress
    <2>2. ASSUME NEW call \in {"nothing", "socket", "bind", "join"}, Break(call)
          PROVE  AddressType'
      BY <2>2 DEF Break
    <2>3. ASSUME NEW datagram \in Datagrams, Received(datagram) PROVE AddressType'
      BY <2>3 DEF Received, ReadOnly
    <2>4. CASE AnotherTaskAsks
      <3>1. Rewritten(text) \subseteq Strings
        BY Asked
      <3>2. QED
        BY <2>4, <3>1 DEF AnotherTaskAsks
    <2>5. QED
      BY <1>4, <2>1, <2>2, <2>3, <2>4 DEF Device
  <1>5. CASE Tick
    BY <1>5 DEF Tick, Strings
  <1>6. CASE UNCHANGED vars
    BY <1>6
  <1>7. QED
    BY <1>2, <1>3, <1>4, <1>5, <1>6 DEF Next

LEMMA DiscoveryInit == Init => IInv
  <1> SUFFICES ASSUME Init PROVE IInv
    OBVIOUS
  <1> USE Periods DEF Init
  <1>1. TaskType
    <2>1. 0 \in 0 .. HelloEvery - 1
      BY ONLY Periods
    <2>2. hello_counter \in 0 .. HelloEvery - 1 /\ ms \in Int
      BY <2>1
    <2>3. QED
      BY <2>2 DEF TaskType
  <1>2. ApplicationType
    BY DEF ApplicationType
  <1>3. DeviceType
    <2>1. frame \in Frames
      <3>1. NoId \in MessageId
        BY DEF NoId, MessageId
      <3>2. QED
        BY <3>1, Built DEF Strings
    <2>2. /\ waited \in Nat /\ unfed \in Nat /\ silent \in Nat
          /\ orphans \in Nat /\ lost \in Nat
      OBVIOUS
    <2>3. QED
      BY <2>1, <2>2 DEF DeviceType
  <1>4. HandleInv /\ FeedInv /\ WaitInv /\ SocketInv
    <2>1. HandleInv
      BY DEF HandleInv
    <2>2. FeedInv /\ WaitInv
      BY DEF FeedInv, WaitInv
    <2>3. SocketInv
      BY DEF SocketInv
    <2>4. QED
      BY <2>1, <2>2, <2>3
  <1>5. QED
    BY <1>1, <1>2, <1>3, <1>4 DEF IInv

LEMMA StartStep == IInv /\ onvif_c_discovery_start => IInv'
  <1> SUFFICES ASSUME IInv, onvif_c_discovery_start PROVE IInv'
    OBVIOUS
  <1> USE Periods DEF IInv, onvif_c_discovery_start, taskVars, localVars,
      sentVars, appVars, deviceVars, wdtVars, TaskOnly, AskHost, ReadOnly, Go
  <1>1. TaskType'
    <2>1. hello_counter' \in 0 .. HelloEvery - 1 /\ ms' \in Int
      <3>1. hello_counter' = 0 \/ hello_counter' = hello_counter
        OBVIOUS
      <3>2. ms' = 0 \/ ms' = ms
        OBVIOUS
      <3>3. hello_counter \in 0 .. HelloEvery - 1 /\ ms \in Int
        BY DEF TaskType
      <3>4. QED
        BY ONLY <3>1, <3>2, <3>3, Periods
    <2>2. QED
      BY <2>1 DEF TaskType
  <1>2. ApplicationType'
    BY DEF ApplicationType
  <1>3. DeviceType'
    <2>1. /\ waited' \in Nat /\ unfed' \in Nat /\ silent' \in Nat
          /\ orphans' \in Nat /\ lost' \in Nat
      BY DEF DeviceType
    <2>2. QED
      BY <2>1 DEF DeviceType
  <1>4. HandleInv'
    BY DEF HandleInv, ApplicationType
  <1>5. FeedInv'
    BY DEF FeedInv, HandleInv
  <1>6. WaitInv'
    BY DEF WaitInv, DeviceType
  <1>7. SocketInv'
    BY DEF SocketInv, DeviceType, ApplicationType, HandleInv
  <1>8. QED
    BY <1>1, <1>2, <1>3, <1>4, <1>5, <1>6, <1>7

LEMMA ByeStep == IInv /\ SendBye => IInv'
  <1> SUFFICES ASSUME IInv, SendBye PROVE IInv'
    OBVIOUS
  <1> USE Periods DEF IInv, SendBye, taskVars, localVars, sentVars, appVars,
      deviceVars, wdtVars, TaskOnly, AskHost, ReadOnly, Go
  <1>1. TaskType'
    <2>1. hello_counter' \in 0 .. HelloEvery - 1 /\ ms' \in Int
      BY DEF TaskType
    <2>2. QED
      BY <2>1 DEF TaskType
  <1>2. ApplicationType'
    BY DEF ApplicationType
  <1>3. DeviceType'
    <2>1. frame' \in Frames
      <3>1. onvif_probe_build_bye(NoAddress) \in Frames
        <4>1. NoId \in MessageId
          BY DEF NoId, MessageId
        <4>2. QED
          BY <4>1, Built DEF Strings
      <3>2. frame' = frame \/ frame' = onvif_probe_build_bye(NoAddress)
        OBVIOUS
      <3>3. QED
        BY <3>1, <3>2 DEF DeviceType
    <2>2. /\ waited' \in Nat /\ unfed' \in Nat /\ silent' \in Nat
          /\ orphans' \in Nat /\ lost' \in Nat
      BY DEF DeviceType
    <2>3. QED
      BY <2>1, <2>2 DEF DeviceType
  <1>4. HandleInv'
    BY DEF HandleInv, ApplicationType
  <1>5. FeedInv'
    BY DEF FeedInv, WaitInv, DeviceType, TaskType
  <1>6. WaitInv'
    BY DEF WaitInv, DeviceType
  <1>7. SocketInv'
    BY DEF SocketInv, DeviceType, ApplicationType, HandleInv
  <1>8. QED
    BY <1>1, <1>2, <1>3, <1>4, <1>5, <1>6, <1>7

LEMMA ClearStep == IInv /\ ClearHandle => IInv'
  <1> SUFFICES ASSUME IInv, ClearHandle PROVE IInv'
    OBVIOUS
  <1> USE Periods DEF IInv, ClearHandle, taskVars, localVars, sentVars,
      appVars, deviceVars, wdtVars, TaskOnly, AskHost, ReadOnly, Go
  <1>1. TaskType'
    <2>1. hello_counter' \in 0 .. HelloEvery - 1 /\ ms' \in Int
      BY DEF TaskType
    <2>2. QED
      BY <2>1 DEF TaskType
  <1>2. ApplicationType'
    BY DEF ApplicationType
  <1>3. DeviceType'
    <2>1. /\ waited' \in Nat /\ unfed' \in Nat /\ silent' \in Nat
          /\ orphans' \in Nat /\ lost' \in Nat
      BY DEF DeviceType
    <2>2. QED
      BY <2>1 DEF DeviceType
  <1>4. HandleInv'
    BY DEF HandleInv, ApplicationType
  <1>5. FeedInv'
    BY DEF FeedInv, WaitInv, DeviceType, TaskType
  <1>6. WaitInv'
    BY DEF WaitInv, DeviceType
  <1>7. SocketInv'
    BY DEF SocketInv, DeviceType, ApplicationType, HandleInv
  <1>8. QED
    BY <1>1, <1>2, <1>3, <1>4, <1>5, <1>6, <1>7

LEMMA DeleteStep == IInv /\ DeleteTask => IInv'
  <1> SUFFICES ASSUME IInv, DeleteTask PROVE IInv'
    OBVIOUS
  <1> USE Periods DEF IInv, DeleteTask, Delete, Abandon, Gone, taskVars,
      localVars, sentVars, appVars, deviceVars, wdtVars, TaskOnly, AskHost, ReadOnly, Go
  <1>1. TaskType'
    <2>1. hello_counter' \in 0 .. HelloEvery - 1 /\ ms' \in Int
      <3>1. hello_counter' \in {0, hello_counter} /\ ms' \in {0, ms}
        OBVIOUS
      <3>2. hello_counter \in 0 .. HelloEvery - 1 /\ ms \in Int
        BY DEF TaskType
      <3>3. QED
        BY ONLY <3>1, <3>2, Periods
    <2>2. QED
      BY <2>1 DEF TaskType
  <1>2. ApplicationType'
    BY DEF ApplicationType
  <1>3. DeviceType'
    <2>1. /\ waited' \in Nat /\ unfed' \in Nat /\ silent' \in Nat
          /\ orphans' \in Nat /\ lost' \in Nat
      BY DEF DeviceType
    <2>2. QED
      BY <2>1 DEF DeviceType
  <1>4. HandleInv'
    BY DEF HandleInv, ApplicationType
  <1>5. FeedInv'
    BY DEF FeedInv, WaitInv, DeviceType, TaskType
  <1>6. WaitInv'
    BY DEF WaitInv, DeviceType
  <1>7. SocketInv'
    BY DEF SocketInv, DeviceType, ApplicationType, HandleInv
  <1>8. QED
    BY <1>1, <1>2, <1>3, <1>4, <1>5, <1>6, <1>7

LEMMA BeginStep == IInv /\ Begin => IInv'
  <1> SUFFICES ASSUME IInv, Begin PROVE IInv'
    OBVIOUS
  <1> USE Periods DEF IInv, Begin, taskVars, localVars, sentVars, appVars,
      deviceVars, wdtVars, TaskOnly, AskHost, ReadOnly, Go
  <1>1. TaskType'
    <2>1. hello_counter' \in 0 .. HelloEvery - 1 /\ ms' \in Int
      BY DEF TaskType
    <2>2. QED
      BY <2>1 DEF TaskType
  <1>2. ApplicationType'
    BY DEF ApplicationType
  <1>3. DeviceType'
    <2>1. /\ waited' \in Nat /\ unfed' \in Nat /\ silent' \in Nat
          /\ orphans' \in Nat /\ lost' \in Nat
      BY DEF DeviceType
    <2>2. QED
      BY <2>1 DEF DeviceType
  <1>4. HandleInv'
    BY DEF HandleInv, ApplicationType
  <1>5. FeedInv'
    <2>1. CASE subscribed' = TRUE /\ s_disc_wdt_watched' = TRUE /\ unfed' = 0
      BY <2>1 DEF FeedInv
    <2>2. CASE UNCHANGED <<subscribed, s_disc_wdt_watched, unfed>>
      BY <2>2 DEF FeedInv
    <2>3. QED
      BY <2>1, <2>2
  <1>6. WaitInv'
    BY DEF WaitInv, DeviceType
  <1>7. SocketInv'
    BY DEF SocketInv, DeviceType, ApplicationType, HandleInv
  <1>8. QED
    BY <1>1, <1>2, <1>3, <1>4, <1>5, <1>6, <1>7

LEMMA AllocateStep == IInv /\ Allocate => IInv'
  <1> SUFFICES ASSUME IInv, Allocate PROVE IInv'
    OBVIOUS
  <1> USE Periods DEF IInv, Allocate, taskVars, localVars, sentVars, appVars,
      deviceVars, wdtVars, TaskOnly, AskHost, ReadOnly, Go
  <1>1. TaskType'
    <2>1. hello_counter' \in 0 .. HelloEvery - 1 /\ ms' \in Int
      BY DEF TaskType
    <2>2. QED
      BY <2>1 DEF TaskType
  <1>2. ApplicationType'
    BY DEF ApplicationType
  <1>3. DeviceType'
    <2>1. /\ waited' \in Nat /\ unfed' \in Nat /\ silent' \in Nat
          /\ orphans' \in Nat /\ lost' \in Nat
      BY DEF DeviceType
    <2>2. QED
      BY <2>1 DEF DeviceType
  <1>4. HandleInv'
    BY DEF HandleInv, ApplicationType
  <1>5. FeedInv'
    BY DEF FeedInv, WaitInv, DeviceType, TaskType
  <1>6. WaitInv'
    BY DEF WaitInv, DeviceType
  <1>7. SocketInv'
    BY DEF SocketInv, DeviceType, ApplicationType, HandleInv
  <1>8. QED
    BY <1>1, <1>2, <1>3, <1>4, <1>5, <1>6, <1>7

LEMMA OutOfMemoryStep == IInv /\ OutOfMemory => IInv'
  <1> SUFFICES ASSUME IInv, OutOfMemory PROVE IInv'
    OBVIOUS
  <1> USE Periods DEF IInv, OutOfMemory, Abandon, Gone, taskVars, localVars,
      sentVars, appVars, deviceVars, wdtVars, TaskOnly, AskHost, ReadOnly, Go
  <1>1. TaskType'
    <2>1. hello_counter' \in 0 .. HelloEvery - 1 /\ ms' \in Int
      <3>1. hello_counter' \in {0, hello_counter} /\ ms' \in {0, ms}
        OBVIOUS
      <3>2. hello_counter \in 0 .. HelloEvery - 1 /\ ms \in Int
        BY DEF TaskType
      <3>3. QED
        BY ONLY <3>1, <3>2, Periods
    <2>2. QED
      BY <2>1 DEF TaskType
  <1>2. ApplicationType'
    BY DEF ApplicationType
  <1>3. DeviceType'
    <2>1. /\ waited' \in Nat /\ unfed' \in Nat /\ silent' \in Nat
          /\ orphans' \in Nat /\ lost' \in Nat
      BY DEF DeviceType
    <2>2. QED
      BY <2>1 DEF DeviceType
  <1>4. HandleInv'
    BY DEF HandleInv, ApplicationType
  <1>5. FeedInv'
    BY DEF FeedInv, WaitInv, DeviceType, TaskType
  <1>6. WaitInv'
    BY DEF WaitInv, DeviceType
  <1>7. SocketInv'
    BY DEF SocketInv, DeviceType, ApplicationType, HandleInv
  <1>8. QED
    BY <1>1, <1>2, <1>3, <1>4, <1>5, <1>6, <1>7

LEMMA OpenStep == IInv /\ OpenSocket => IInv'
  <1> SUFFICES ASSUME IInv, OpenSocket PROVE IInv'
    OBVIOUS
  <1> USE Periods DEF IInv, OpenSocket, Retry, CloseSocket, Feed,
      taskVars, localVars, sentVars, appVars, deviceVars, wdtVars, TaskOnly, AskHost, ReadOnly, Go
  <1>1. TaskType'
    <2>1. hello_counter' \in 0 .. HelloEvery - 1 /\ ms' \in Int
      BY DEF TaskType
    <2>2. QED
      BY <2>1 DEF TaskType
  <1>2. ApplicationType'
    BY DEF ApplicationType
  <1>3. DeviceType'
    <2>1. /\ waited' \in Nat /\ unfed' \in Nat /\ silent' \in Nat
          /\ orphans' \in Nat /\ lost' \in Nat
      BY DEF DeviceType
    <2>2. QED
      BY <2>1 DEF DeviceType
  <1>4. HandleInv'
    BY DEF HandleInv, ApplicationType
  <1>5. FeedInv'
    BY DEF FeedInv, WaitInv, DeviceType, TaskType
  <1>6. WaitInv'
    BY DEF WaitInv, DeviceType
  <1>7. SocketInv'
    BY DEF SocketInv, DeviceType, ApplicationType, HandleInv
  <1>8. QED
    BY <1>1, <1>2, <1>3, <1>4, <1>5, <1>6, <1>7

LEMMA BindStep == IInv /\ Bind => IInv'
  <1> SUFFICES ASSUME IInv, Bind PROVE IInv'
    OBVIOUS
  <1> USE Periods DEF IInv, Bind, Retry, CloseSocket, taskVars,
      localVars, sentVars, appVars, deviceVars, wdtVars, TaskOnly, AskHost, ReadOnly, Go
  <1>1. TaskType'
    <2>1. hello_counter' \in 0 .. HelloEvery - 1 /\ ms' \in Int
      BY DEF TaskType
    <2>2. QED
      BY <2>1 DEF TaskType
  <1>2. ApplicationType'
    BY DEF ApplicationType
  <1>3. DeviceType'
    <2>1. /\ waited' \in Nat /\ unfed' \in Nat /\ silent' \in Nat
          /\ orphans' \in Nat /\ lost' \in Nat
      BY DEF DeviceType
    <2>2. QED
      BY <2>1 DEF DeviceType
  <1>4. HandleInv'
    BY DEF HandleInv, ApplicationType
  <1>5. FeedInv'
    BY DEF FeedInv, WaitInv, DeviceType, TaskType
  <1>6. WaitInv'
    BY DEF WaitInv, DeviceType
  <1>7. SocketInv'
    BY DEF SocketInv, DeviceType, ApplicationType, HandleInv
  <1>8. QED
    BY <1>1, <1>2, <1>3, <1>4, <1>5, <1>6, <1>7

LEMMA AddressStep == IInv /\ ReadAddress => IInv'
  <1> SUFFICES ASSUME IInv, ReadAddress PROVE IInv'
    OBVIOUS
  <1> USE Periods DEF IInv, ReadAddress, Retry, CloseSocket,
      taskVars, localVars, sentVars, appVars, deviceVars, wdtVars, TaskOnly, AskHost, ReadOnly, Go
  <1>1. TaskType'
    <2>1. hello_counter' \in 0 .. HelloEvery - 1 /\ ms' \in Int
      BY DEF TaskType
    <2>2. QED
      BY <2>1 DEF TaskType, DeviceType
  <1>2. ApplicationType'
    BY DEF ApplicationType
  <1>3. DeviceType'
    <2>1. /\ waited' \in Nat /\ unfed' \in Nat /\ silent' \in Nat
          /\ orphans' \in Nat /\ lost' \in Nat
      BY DEF DeviceType
    <2>2. QED
      BY <2>1 DEF DeviceType
  <1>4. HandleInv'
    BY DEF HandleInv, ApplicationType
  <1>5. FeedInv'
    BY DEF FeedInv, WaitInv, DeviceType, TaskType
  <1>6. WaitInv'
    BY DEF WaitInv, DeviceType
  <1>7. SocketInv'
    BY DEF SocketInv, DeviceType, ApplicationType, HandleInv
  <1>8. QED
    BY <1>1, <1>2, <1>3, <1>4, <1>5, <1>6, <1>7

LEMMA JoinStep == IInv /\ Join => IInv'
  <1> SUFFICES ASSUME IInv, Join PROVE IInv'
    OBVIOUS
  <1> USE Periods DEF IInv, Join, Retry, CloseSocket, taskVars,
      localVars, sentVars, appVars, deviceVars, wdtVars, TaskOnly, AskHost, ReadOnly, Go
  <1>1. TaskType'
    <2>1. hello_counter' \in 0 .. HelloEvery - 1 /\ ms' \in Int
      BY DEF TaskType
    <2>2. QED
      BY <2>1 DEF TaskType
  <1>2. ApplicationType'
    BY DEF ApplicationType
  <1>3. DeviceType'
    <2>1. /\ waited' \in Nat /\ unfed' \in Nat /\ silent' \in Nat
          /\ orphans' \in Nat /\ lost' \in Nat
      BY DEF DeviceType
    <2>2. QED
      BY <2>1 DEF DeviceType
  <1>4. HandleInv'
    BY DEF HandleInv, ApplicationType
  <1>5. FeedInv'
    BY DEF FeedInv, WaitInv, DeviceType, TaskType
  <1>6. WaitInv'
    BY DEF WaitInv, DeviceType
  <1>7. SocketInv'
    BY DEF SocketInv, DeviceType, ApplicationType, HandleInv
  <1>8. QED
    BY <1>1, <1>2, <1>3, <1>4, <1>5, <1>6, <1>7

LEMMA SleepStep == IInv /\ Sleep => IInv'
  <1> SUFFICES ASSUME IInv, Sleep PROVE IInv'
    OBVIOUS
  <1> USE Periods DEF IInv, Sleep, Chunk, Feed, taskVars, localVars, sentVars,
      appVars, deviceVars, wdtVars, TaskOnly, AskHost, ReadOnly, Go
  <1>1. TaskType'
    <2>1. hello_counter' \in 0 .. HelloEvery - 1 /\ ms' \in Int
      BY DEF TaskType
    <2>2. QED
      BY <2>1 DEF TaskType
  <1>2. ApplicationType'
    BY DEF ApplicationType
  <1>3. DeviceType'
    <2>1. /\ waited' \in Nat /\ unfed' \in Nat /\ silent' \in Nat
          /\ orphans' \in Nat /\ lost' \in Nat
      BY DEF DeviceType
    <2>2. QED
      BY <2>1 DEF DeviceType
  <1>4. HandleInv'
    BY DEF HandleInv, ApplicationType
  <1>5. FeedInv'
    BY DEF FeedInv, WaitInv, DeviceType, TaskType
  <1>6. WaitInv'
    BY DEF WaitInv, DeviceType
  <1>7. SocketInv'
    BY DEF SocketInv, DeviceType, ApplicationType, HandleInv
  <1>8. QED
    BY <1>1, <1>2, <1>3, <1>4, <1>5, <1>6, <1>7

LEMMA HelloStep == AddressType /\ IInv /\ InitialHello => IInv'
  <1> SUFFICES ASSUME AddressType, IInv, InitialHello PROVE IInv'
    OBVIOUS
  <1> USE Periods DEF IInv, InitialHello, Announce, taskVars, localVars,
      sentVars, appVars, deviceVars, wdtVars, TaskOnly, AskHost, ReadOnly, Go
  <1>1. TaskType'
    <2>1. hello_counter' \in 0 .. HelloEvery - 1 /\ ms' \in Int
      BY DEF TaskType
    <2>2. QED
      BY <2>1 DEF TaskType
  <1>2. ApplicationType'
    BY DEF ApplicationType
  <1>3. DeviceType'
    <2>1. frame' \in Frames
      <3>1. onvif_probe_build_hello(text) \in Frames
        <4>1. NoId \in MessageId
          BY DEF NoId, MessageId
        <4>2. QED
          BY <4>1, Built DEF AddressType
      <3>2. frame' = frame \/ frame' = onvif_probe_build_hello(text)
        OBVIOUS
      <3>3. QED
        BY <3>1, <3>2 DEF DeviceType
    <2>2. /\ waited' \in Nat /\ unfed' \in Nat /\ silent' \in Nat
          /\ orphans' \in Nat /\ lost' \in Nat
      <3>1. silent' = silent \/ silent' = 0
        OBVIOUS
      <3>2. QED
        BY <3>1, 0 \in Nat DEF DeviceType
    <2>3. QED
      BY <2>1, <2>2 DEF DeviceType
  <1>4. HandleInv'
    BY DEF HandleInv, ApplicationType
  <1>5. FeedInv'
    BY DEF FeedInv, WaitInv, DeviceType, TaskType
  <1>6. WaitInv'
    BY DEF WaitInv, DeviceType
  <1>7. SocketInv'
    BY DEF SocketInv, DeviceType, ApplicationType, HandleInv
  <1>8. QED
    BY <1>1, <1>2, <1>3, <1>4, <1>5, <1>6, <1>7

LEMMA InnerExitStep == IInv /\ InnerExit => IInv'
  <1> SUFFICES ASSUME IInv, InnerExit PROVE IInv'
    OBVIOUS
  <1> USE Periods DEF IInv, InnerExit, taskVars, localVars, sentVars, appVars,
      deviceVars, wdtVars, TaskOnly, AskHost, ReadOnly, Go
  <1>1. TaskType'
    <2>1. hello_counter' \in 0 .. HelloEvery - 1 /\ ms' \in Int
      BY DEF TaskType
    <2>2. QED
      BY <2>1 DEF TaskType
  <1>2. ApplicationType'
    BY DEF ApplicationType
  <1>3. DeviceType'
    <2>1. /\ waited' \in Nat /\ unfed' \in Nat /\ silent' \in Nat
          /\ orphans' \in Nat /\ lost' \in Nat
      BY DEF DeviceType
    <2>2. QED
      BY <2>1 DEF DeviceType
  <1>4. HandleInv'
    BY DEF HandleInv, ApplicationType
  <1>5. FeedInv'
    BY DEF FeedInv, WaitInv, DeviceType, TaskType
  <1>6. WaitInv'
    BY DEF WaitInv, DeviceType
  <1>7. SocketInv'
    BY DEF SocketInv, DeviceType, ApplicationType, HandleInv
  <1>8. QED
    BY <1>1, <1>2, <1>3, <1>4, <1>5, <1>6, <1>7

LEMMA ReceiveStep == IInv /\ Receive => IInv'
  <1> SUFFICES ASSUME IInv, Receive PROVE IInv'
    OBVIOUS
  <1> USE Periods DEF IInv, Receive, Feed, taskVars, localVars, sentVars, appVars,
      deviceVars, wdtVars, TaskOnly, AskHost, ReadOnly, Go
  <1>1. TaskType'
    <2>1. hello_counter' \in 0 .. HelloEvery - 1 /\ ms' \in Int
      BY DEF TaskType
    <2>2. QED
      BY <2>1 DEF TaskType
  <1>2. ApplicationType'
    BY DEF ApplicationType
  <1>3. DeviceType'
    <2>1. /\ waited' \in Nat /\ unfed' \in Nat /\ silent' \in Nat
          /\ orphans' \in Nat /\ lost' \in Nat
      BY DEF DeviceType
    <2>2. QED
      BY <2>1 DEF DeviceType
  <1>4. HandleInv'
    BY DEF HandleInv, ApplicationType
  <1>5. FeedInv'
    BY DEF FeedInv, WaitInv, DeviceType, TaskType
  <1>6. WaitInv'
    BY DEF WaitInv, DeviceType
  <1>7. SocketInv'
    BY DEF SocketInv, DeviceType, ApplicationType, HandleInv
  <1>8. QED
    BY <1>1, <1>2, <1>3, <1>4, <1>5, <1>6, <1>7

LEMMA NothingStep == IInv /\ NothingReceived => IInv'
  <1> SUFFICES ASSUME IInv, NothingReceived PROVE IInv'
    OBVIOUS
  <1> USE Periods DEF IInv, NothingReceived, taskVars, localVars, sentVars,
      appVars, deviceVars, wdtVars, TaskOnly, AskHost, ReadOnly, Go
  <1>1. TaskType'
    <2>0. hello_counter \in 0 .. HelloEvery - 1
      BY DEF TaskType
    <2>1. hello_counter' \in 0 .. HelloEvery - 1 /\ ms' \in Int
      <3>1. CASE HelloDue
        BY <3>1 DEF TaskType
      <3>2. CASE ~HelloDue
        <4>1. hello_counter + 1 \in 0 .. HelloEvery - 1
          BY ONLY <2>0, <3>2, Periods DEF HelloDue
        <4>2. QED
          BY <3>2, <4>1 DEF TaskType
      <3>3. QED
        BY <3>1, <3>2
    <2>2. QED
      BY <2>1 DEF TaskType
  <1>2. ApplicationType'
    BY DEF ApplicationType
  <1>3. DeviceType'
    <2>1. /\ waited' \in Nat /\ unfed' \in Nat /\ silent' \in Nat
          /\ orphans' \in Nat /\ lost' \in Nat
      <3>1. waited' = 0
        OBVIOUS
      <3>2. QED
        BY <3>1 DEF DeviceType
    <2>2. QED
      BY <2>1 DEF DeviceType
  <1>4. HandleInv'
    BY DEF HandleInv, ApplicationType
  <1>5. FeedInv'
    <2>1. CASE subscribed
      <3>1. unfed \in Nat /\ waited \in Nat
        BY DEF DeviceType
      <3>2. s_disc_wdt_watched /\ unfed <= waited /\ waited <= RecvTimeout
        BY <2>1 DEF FeedInv, WaitInv
      <3>3. unfed <= RecvTimeout
        BY ONLY <3>1, <3>2, Periods
      <3>4. QED
        BY <3>2, <3>3 DEF FeedInv
    <2>2. CASE ~subscribed
      BY <2>2 DEF FeedInv
    <2>3. QED
      BY <2>1, <2>2
  <1>6. WaitInv'
    BY DEF WaitInv, DeviceType
  <1>7. SocketInv'
    BY DEF SocketInv, DeviceType, ApplicationType, HandleInv
  <1>8. QED
    BY <1>1, <1>2, <1>3, <1>4, <1>5, <1>6, <1>7

LEMMA PeriodicStep == IInv /\ PeriodicHello => IInv'
  <1> SUFFICES ASSUME IInv, PeriodicHello PROVE IInv'
    OBVIOUS
  <1> USE Periods DEF IInv, PeriodicHello, taskVars,
      localVars, sentVars, appVars, deviceVars, wdtVars, TaskOnly, AskHost, ReadOnly, Go
  <1>1. TaskType'
    <2>1. hello_counter' \in 0 .. HelloEvery - 1 /\ ms' \in Int
      BY DEF TaskType
    <2>2. QED
      BY <2>1 DEF TaskType
  <1>2. ApplicationType'
    BY DEF ApplicationType
  <1>3. DeviceType'
    <2>1. /\ waited' \in Nat /\ unfed' \in Nat /\ silent' \in Nat
          /\ orphans' \in Nat /\ lost' \in Nat
      BY DEF DeviceType
    <2>2. QED
      BY <2>1 DEF DeviceType
  <1>4. HandleInv'
    BY DEF HandleInv, ApplicationType
  <1>5. FeedInv'
    BY DEF FeedInv, WaitInv, DeviceType, TaskType
  <1>6. WaitInv'
    BY DEF WaitInv, DeviceType
  <1>7. SocketInv'
    BY DEF SocketInv, DeviceType, ApplicationType, HandleInv
  <1>8. QED
    BY <1>1, <1>2, <1>3, <1>4, <1>5, <1>6, <1>7

LEMMA SendHelloStep == AddressType /\ IInv /\ SendHello => IInv'
  <1> SUFFICES ASSUME AddressType, IInv, SendHello PROVE IInv'
    OBVIOUS
  <1> USE Periods DEF IInv, SendHello, Announce, taskVars, localVars,
      sentVars, appVars, deviceVars, wdtVars, TaskOnly, AskHost, ReadOnly, Go
  <1>1. TaskType'
    <2>1. hello_counter' \in 0 .. HelloEvery - 1 /\ ms' \in Int
      BY DEF TaskType
    <2>2. QED
      BY <2>1 DEF TaskType
  <1>2. ApplicationType'
    BY DEF ApplicationType
  <1>3. DeviceType'
    <2>1. frame' \in Frames
      <3>1. onvif_probe_build_hello(text) \in Frames
        <4>1. NoId \in MessageId
          BY DEF NoId, MessageId
        <4>2. QED
          BY <4>1, Built DEF AddressType
      <3>2. frame' = frame \/ frame' = onvif_probe_build_hello(text)
        OBVIOUS
      <3>3. QED
        BY <3>1, <3>2 DEF DeviceType
    <2>2. /\ waited' \in Nat /\ unfed' \in Nat /\ silent' \in Nat
          /\ orphans' \in Nat /\ lost' \in Nat
      <3>1. silent' = silent \/ silent' = 0
        OBVIOUS
      <3>2. QED
        BY <3>1, 0 \in Nat DEF DeviceType
    <2>3. QED
      BY <2>1, <2>2 DEF DeviceType
  <1>4. HandleInv'
    BY DEF HandleInv, ApplicationType
  <1>5. FeedInv'
    BY DEF FeedInv, WaitInv, DeviceType, TaskType
  <1>6. WaitInv'
    BY DEF WaitInv, DeviceType
  <1>7. SocketInv'
    BY DEF SocketInv, DeviceType, ApplicationType, HandleInv
  <1>8. QED
    BY <1>1, <1>2, <1>3, <1>4, <1>5, <1>6, <1>7

LEMMA AnswerStep == IInv /\ Answer => IInv'
  <1> SUFFICES ASSUME IInv, Answer PROVE IInv'
    OBVIOUS
  <1> USE Periods DEF IInv, Answer, taskVars,
      localVars, sentVars, appVars, deviceVars, wdtVars, TaskOnly, AskHost, ReadOnly, Go
  <1>1. TaskType'
    <2>1. hello_counter' \in 0 .. HelloEvery - 1 /\ ms' \in Int
      BY DEF TaskType
    <2>2. QED
      BY <2>1 DEF TaskType
  <1>2. ApplicationType'
    BY DEF ApplicationType
  <1>3. DeviceType'
    <2>1. /\ waited' \in Nat /\ unfed' \in Nat /\ silent' \in Nat
          /\ orphans' \in Nat /\ lost' \in Nat
      BY DEF DeviceType
    <2>2. QED
      BY <2>1 DEF DeviceType
  <1>4. HandleInv'
    BY DEF HandleInv, ApplicationType
  <1>5. FeedInv'
    BY DEF FeedInv, WaitInv, DeviceType, TaskType
  <1>6. WaitInv'
    BY DEF WaitInv, DeviceType
  <1>7. SocketInv'
    BY DEF SocketInv, DeviceType, ApplicationType, HandleInv
  <1>8. QED
    BY <1>1, <1>2, <1>3, <1>4, <1>5, <1>6, <1>7

LEMMA MatchesStep == AddressType /\ IInv /\ SendMatches => IInv'
  <1> SUFFICES ASSUME AddressType, IInv, SendMatches PROVE IInv'
    OBVIOUS
  <1> USE Periods DEF IInv, SendMatches, taskVars, localVars, sentVars,
      appVars, deviceVars, wdtVars, TaskOnly, AskHost, ReadOnly, Go
  <1>1. TaskType'
    <2>1. hello_counter' \in 0 .. HelloEvery - 1 /\ ms' \in Int
      BY DEF TaskType
    <2>2. QED
      BY <2>1 DEF TaskType
  <1>2. ApplicationType'
    BY DEF ApplicationType
  <1>3. DeviceType'
    <2>1. frame' \in Frames
      <3>1. RelatesTo(recv_buf) \in MessageId
        BY Related DEF TaskType
      <3>2. Matches \in Frames
        BY <3>1, Built DEF Matches, AddressType
      <3>3. frame' = frame \/ frame' = Matches
        OBVIOUS
      <3>4. QED
        BY <3>2, <3>3 DEF DeviceType
    <2>2. /\ waited' \in Nat /\ unfed' \in Nat /\ silent' \in Nat
          /\ orphans' \in Nat /\ lost' \in Nat
      BY DEF DeviceType
    <2>3. QED
      BY <2>1, <2>2 DEF DeviceType
  <1>4. HandleInv'
    BY DEF HandleInv, ApplicationType
  <1>5. FeedInv'
    BY DEF FeedInv, WaitInv, DeviceType, TaskType
  <1>6. WaitInv'
    BY DEF WaitInv, DeviceType
  <1>7. SocketInv'
    BY DEF SocketInv, DeviceType, ApplicationType, HandleInv
  <1>8. QED
    BY <1>1, <1>2, <1>3, <1>4, <1>5, <1>6, <1>7

LEMMA ExitStep == IInv /\ OuterExit => IInv'
  <1> SUFFICES ASSUME IInv, OuterExit PROVE IInv'
    OBVIOUS
  <1> USE Periods DEF IInv, OuterExit, Gone, CloseSocket, taskVars, localVars,
      sentVars, appVars, deviceVars, wdtVars, TaskOnly, AskHost, ReadOnly, Go
  <1>1. TaskType'
    <2>1. hello_counter' \in 0 .. HelloEvery - 1 /\ ms' \in Int
      <3>1. hello_counter' \in {0, hello_counter} /\ ms' \in {0, ms}
        OBVIOUS
      <3>2. hello_counter \in 0 .. HelloEvery - 1 /\ ms \in Int
        BY DEF TaskType
      <3>3. QED
        BY ONLY <3>1, <3>2, Periods
    <2>2. QED
      BY <2>1 DEF TaskType
  <1>2. ApplicationType'
    BY DEF ApplicationType
  <1>3. DeviceType'
    <2>1. /\ waited' \in Nat /\ unfed' \in Nat /\ silent' \in Nat
          /\ orphans' \in Nat /\ lost' \in Nat
      BY DEF DeviceType
    <2>2. QED
      BY <2>1 DEF DeviceType
  <1>4. HandleInv'
    BY DEF HandleInv, ApplicationType
  <1>5. FeedInv'
    BY DEF FeedInv, WaitInv, DeviceType, TaskType
  <1>6. WaitInv'
    BY DEF WaitInv, DeviceType
  <1>7. SocketInv'
    BY DEF SocketInv, DeviceType, ApplicationType, HandleInv
  <1>8. QED
    BY <1>1, <1>2, <1>3, <1>4, <1>5, <1>6, <1>7

LEMMA SetAddressStep ==
    ASSUME NEW a \in Addresses \cup {NoAddress}, IInv, SetAddress(a)
    PROVE  IInv'
  <1> USE Periods DEF IInv, SetAddress, taskVars, localVars, sentVars, appVars,
      deviceVars, wdtVars, TaskOnly, AskHost, ReadOnly, Go
  <1>1. TaskType'
    <2>1. hello_counter' \in 0 .. HelloEvery - 1 /\ ms' \in Int
      BY DEF TaskType
    <2>2. QED
      BY <2>1 DEF TaskType
  <1>2. ApplicationType'
    BY DEF ApplicationType
  <1>3. DeviceType'
    <2>1. /\ waited' \in Nat /\ unfed' \in Nat /\ silent' \in Nat
          /\ orphans' \in Nat /\ lost' \in Nat
      BY DEF DeviceType
    <2>2. QED
      BY <2>1 DEF DeviceType
  <1>4. HandleInv'
    BY DEF HandleInv, ApplicationType
  <1>5. FeedInv'
    BY DEF FeedInv, WaitInv, DeviceType, TaskType
  <1>6. WaitInv'
    BY DEF WaitInv, DeviceType
  <1>7. SocketInv'
    BY DEF SocketInv, DeviceType, ApplicationType, HandleInv
  <1>8. QED
    BY <1>1, <1>2, <1>3, <1>4, <1>5, <1>6, <1>7

LEMMA BreakStep ==
    ASSUME NEW call \in {"nothing", "socket", "bind", "join"}, IInv, Break(call)
    PROVE  IInv'
  <1> USE Periods DEF IInv, Break, taskVars, localVars, sentVars, appVars,
      deviceVars, wdtVars, TaskOnly, AskHost, ReadOnly, Go
  <1>1. TaskType'
    <2>1. hello_counter' \in 0 .. HelloEvery - 1 /\ ms' \in Int
      BY DEF TaskType
    <2>2. QED
      BY <2>1 DEF TaskType
  <1>2. ApplicationType'
    BY DEF ApplicationType
  <1>3. DeviceType'
    <2>1. /\ waited' \in Nat /\ unfed' \in Nat /\ silent' \in Nat
          /\ orphans' \in Nat /\ lost' \in Nat
      BY DEF DeviceType
    <2>2. QED
      BY <2>1 DEF DeviceType
  <1>4. HandleInv'
    BY DEF HandleInv, ApplicationType
  <1>5. FeedInv'
    BY DEF FeedInv, WaitInv, DeviceType, TaskType
  <1>6. WaitInv'
    BY DEF WaitInv, DeviceType
  <1>7. SocketInv'
    BY DEF SocketInv, DeviceType, ApplicationType, HandleInv
  <1>8. QED
    BY <1>1, <1>2, <1>3, <1>4, <1>5, <1>6, <1>7

LEMMA AnotherStep == IInv /\ AnotherTaskAsks => IInv'
  <1> SUFFICES ASSUME IInv, AnotherTaskAsks PROVE IInv'
    OBVIOUS
  <1> USE Periods DEF IInv, AnotherTaskAsks, taskVars, localVars, sentVars, appVars,
      deviceVars, wdtVars, TaskOnly, AskHost, ReadOnly, Go
  <1>1. TaskType'
    <2>1. hello_counter' \in 0 .. HelloEvery - 1 /\ ms' \in Int
      BY DEF TaskType
    <2>2. QED
      BY <2>1 DEF TaskType
  <1>2. ApplicationType'
    BY DEF ApplicationType
  <1>3. DeviceType'
    <2>1. /\ waited' \in Nat /\ unfed' \in Nat /\ silent' \in Nat
          /\ orphans' \in Nat /\ lost' \in Nat
      BY DEF DeviceType
    <2>2. QED
      BY <2>1 DEF DeviceType
  <1>4. HandleInv'
    BY DEF HandleInv, ApplicationType
  <1>5. FeedInv'
    BY DEF FeedInv, WaitInv, DeviceType, TaskType
  <1>6. WaitInv'
    BY DEF WaitInv, DeviceType
  <1>7. SocketInv'
    BY DEF SocketInv, DeviceType, ApplicationType, HandleInv
  <1>8. QED
    BY <1>1, <1>2, <1>3, <1>4, <1>5, <1>6, <1>7

LEMMA ReceivedStep ==
    ASSUME NEW kind \in Datagrams, IInv, Received(kind)
    PROVE  IInv'
  <1> USE Periods DEF IInv, Received, taskVars, localVars, sentVars, appVars,
      deviceVars, wdtVars, TaskOnly, AskHost, ReadOnly, Go
  <1>1. TaskType'
    <2>1. hello_counter' \in 0 .. HelloEvery - 1 /\ ms' \in Int
      BY DEF TaskType
    <2>2. QED
      BY <2>1 DEF TaskType
  <1>2. ApplicationType'
    BY DEF ApplicationType
  <1>3. DeviceType'
    <2>1. /\ waited' \in Nat /\ unfed' \in Nat /\ silent' \in Nat
          /\ orphans' \in Nat /\ lost' \in Nat
      BY DEF DeviceType
    <2>2. QED
      BY <2>1 DEF DeviceType
  <1>4. HandleInv'
    BY DEF HandleInv, ApplicationType
  <1>5. FeedInv'
    BY DEF FeedInv, WaitInv, DeviceType, TaskType
  <1>6. WaitInv'
    BY DEF WaitInv, DeviceType
  <1>7. SocketInv'
    BY DEF SocketInv, DeviceType, ApplicationType, HandleInv
  <1>8. QED
    BY <1>1, <1>2, <1>3, <1>4, <1>5, <1>6, <1>7

LEMMA TickStep == IInv /\ Tick => IInv'
  <1> SUFFICES ASSUME IInv, Tick PROVE IInv'
    OBVIOUS
  <1> USE Periods DEF IInv, Tick, Blocked, Chunk, Listening, taskVars,
      appVars, deviceVars, wdtVars, TaskOnly, AskHost, ReadOnly, Go
  <1>1. TaskType'
    <2>1. hello_counter' \in 0 .. HelloEvery - 1 /\ ms' \in Int
      BY DEF TaskType
    <2>2. QED
      BY <2>1 DEF TaskType
  <1>2. ApplicationType'
    BY DEF ApplicationType
  <1>3. DeviceType'
    <2>1. /\ waited' \in Nat /\ unfed' \in Nat /\ silent' \in Nat
          /\ orphans' \in Nat /\ lost' \in Nat
      <3>1. waited \in Nat /\ unfed \in Nat /\ silent \in Nat
        BY DEF DeviceType
      <3>2. silent' = 0 \/ silent' = silent \/ silent' = silent + 1
        OBVIOUS
      <3>3. (waited' = 0 \/ waited' = waited + 1) /\ (unfed' = 0 \/ unfed' = unfed + 1)
        OBVIOUS
      <3>4. waited' \in Nat /\ unfed' \in Nat /\ silent' \in Nat
        BY ONLY <3>1, <3>2, <3>3
      <3>5. QED
        BY <3>4 DEF DeviceType
    <2>2. QED
      BY <2>1 DEF DeviceType
  <1>4. HandleInv'
    BY DEF HandleInv, ApplicationType
  <1>5. FeedInv'
    <2>1. waited \in Nat /\ unfed \in Nat
      BY DEF DeviceType
    <2>2. CASE subscribed
      <3>1. pc # "none" /\ pc' = pc /\ s_disc_wdt_watched' = s_disc_wdt_watched
        BY <2>2 DEF FeedInv
      <3>2. pc \in {"recv", "sleep"} /\ waited' = waited + 1 /\ unfed' = unfed + 1
        BY <2>2, <3>1
      <3>3. unfed <= waited /\ s_disc_wdt_watched
        BY <2>2, <3>2 DEF FeedInv
      <3>4. unfed' <= waited'
        BY ONLY <2>1, <3>2, <3>3
      <3>5. QED
        BY ONLY <3>1, <3>2, <3>3, <3>4 DEF FeedInv
    <2>3. CASE ~subscribed
      BY <2>3 DEF FeedInv
    <2>4. QED
      BY <2>2, <2>3
  <1>6. WaitInv'
    <2>1. waited \in Nat /\ ms \in Int /\ Slice \in Int /\ RecvTimeout \in Int
      BY DEF DeviceType, TaskType
    <2>2. CASE pc = "recv"
      BY <2>1, <2>2 DEF WaitInv
    <2>3. CASE pc = "sleep"
      BY <2>1, <2>3 DEF WaitInv
    <2>4. CASE pc \notin {"recv", "sleep"}
      BY <2>4 DEF WaitInv
    <2>5. QED
      BY <2>2, <2>3, <2>4
  <1>7. SocketInv'
    BY DEF SocketInv, DeviceType, ApplicationType, HandleInv
  <1>8. QED
    BY <1>1, <1>2, <1>3, <1>4, <1>5, <1>6, <1>7

LEMMA DiscoveryNext == AddressType /\ IInv /\ [Next]_vars => IInv'
  <1> SUFFICES ASSUME AddressType, IInv, [Next]_vars PROVE IInv'
    OBVIOUS
  <1>1. CASE Application
    BY <1>1, StartStep, ByeStep, ClearStep, DeleteStep DEF Application
  <1>2. CASE onvif_c_discovery_task
    BY <1>2, BeginStep, AllocateStep, OutOfMemoryStep, OpenStep, BindStep, AddressStep,
       JoinStep, SleepStep, HelloStep, InnerExitStep, ReceiveStep, NothingStep,
       PeriodicStep, SendHelloStep, AnswerStep, MatchesStep, ExitStep
       DEF onvif_c_discovery_task
  <1>3. CASE Device
    BY <1>3, SetAddressStep, BreakStep, ReceivedStep, AnotherStep DEF Device
  <1>4. CASE Tick
    BY <1>4, TickStep
  <1>5. CASE UNCHANGED vars
    <2> USE <1>5 DEF vars, taskVars, localVars, sentVars, appVars, deviceVars, wdtVars, IInv
    <2>1. TaskType' /\ ApplicationType'
      BY DEF TaskType, ApplicationType
    <2>2. DeviceType'
      BY DEF DeviceType
    <2>3. HandleInv' /\ SocketInv'
      BY DEF HandleInv, SocketInv
    <2>4. FeedInv' /\ WaitInv'
      BY DEF FeedInv, WaitInv
    <2>5. QED
      BY <2>1, <2>2, <2>3, <2>4
  <1>6. QED
    BY <1>1, <1>2, <1>3, <1>4, <1>5 DEF Next

LEMMA DiscoveryAddresses == Spec => []AddressType
  BY AddressInit, AddressNext, PTL DEF Spec

LEMMA DiscoveryInvariant == Spec => []IInv
  BY DiscoveryInit, DiscoveryNext, DiscoveryAddresses, PTL DEF Spec

(* Every variable of the discovery responder keeps its type.               *)
THEOREM DiscoveryTypeCorrect == Spec => []TypeOK
  <1>1. AddressType /\ IInv => TypeOK
    BY DEF IInv, TypeOK
  <1>2. QED
    BY <1>1, DiscoveryAddresses, DiscoveryInvariant, PTL

(* A live task in the TWDT is always fed in time, through every retry.     *)
THEOREM DiscoveryFedInTime == Spec => []FedInTime
  <1>1. IInv => FedInTime
    <2> SUFFICES ASSUME IInv, subscribed PROVE unfed < TwdtTimeout
      BY DEF FedInTime
    <2>1. unfed \in Nat /\ waited \in Nat
      BY DEF IInv, DeviceType
    <2>2. CASE pc \in {"recv", "sleep"}
      <3>1. unfed <= waited /\ (waited <= RecvTimeout \/ waited <= Slice)
        BY <2>2 DEF IInv, FeedInv, WaitInv
      <3>2. QED
        BY <2>1, <3>1, Periods
    <2>3. CASE pc \notin {"recv", "sleep"}
      <3>1. unfed <= RecvTimeout
        BY <2>3 DEF IInv, FeedInv
      <3>2. QED
        BY <2>1, <3>1, Periods
    <2>4. QED
      BY <2>2, <2>3
  <1>2. QED
    BY <1>1, DiscoveryInvariant, PTL

(* Stop leaves no task behind and start adds none to a running one.        *)
THEOREM DiscoveryOneTask == Spec => []OneTask
  <1>1. IInv => OneTask
    BY DEF IInv, HandleInv, OneTask
  <1>2. QED
    BY <1>1, DiscoveryInvariant, PTL

(* The retry loop never loses a socket.                                    *)
THEOREM DiscoveryRetriesLoseNoSocket == Spec => []RetriesLoseNoSocket
  <1>1. IInv => RetriesLoseNoSocket
    BY DEF IInv, DeviceType, ApplicationType, SocketInv, RetriesLoseNoSocket
  <1>2. QED
    BY <1>1, DiscoveryInvariant, PTL

-----------------------------------------------------------------------------
(* What stands in the receive buffer while it is being answered.           *)
AskInv ==
    /\ recv_buf \in Message
    /\ pc \in {"probe", "send matches"} => recv_buf.type = "Probe"
    /\ pc \in {"resolve", "send resolve"} => recv_buf.type = "Resolve" /\ recv_buf.ours

(* The substrings tell a request from everything else.                     *)
LEMMA Recognised ==
    ASSUME NEW body \in Message
    PROVE  /\ onvif_probe_is_probe(body) => body.type = "Probe"
           /\ onvif_probe_is_resolve(body) => body.type = "Resolve"
  <1>1. body.type \in DOMAIN Found
    BY DEF Message
  <1>2. CASE body.type = "Probe" \/ body.type = "Resolve"
    BY <1>2 DEF onvif_probe_is_probe, onvif_probe_is_resolve, Found
  <1>3. CASE body.type = "ProbeMatches" \/ body.type = "ResolveMatches"
    BY <1>3 DEF onvif_probe_is_probe, onvif_probe_is_resolve, Found
  <1>4. CASE body.type = "Hello" \/ body.type = "Bye" \/ body.type = "empty"
    BY <1>4 DEF onvif_probe_is_probe, onvif_probe_is_resolve, Found
  <1>5. QED
    BY <1>1, <1>2, <1>3, <1>4 DEF Found

LEMMA AskStep == IInv /\ AskInv /\ [Next]_vars => AskInv'
  <1> SUFFICES ASSUME IInv, AskInv, [Next]_vars PROVE AskInv'
    OBVIOUS
  <1>0. Empty \in Message
    BY Related
  <1> USE DEF AskInv, vars, taskVars, localVars, appVars, deviceVars, wdtVars, sentVars,
      TaskOnly, AskHost, ReadOnly, Go
  <1>1. CASE Application
    BY <1>0, <1>1 DEF Application, onvif_c_discovery_start, SendBye, ClearHandle, DeleteTask,
       Delete, Abandon, Gone
  <1>2. CASE onvif_c_discovery_task
    <2>1. CASE Begin \/ Allocate \/ OutOfMemory \/ InnerExit \/ OuterExit
      BY <1>0, <2>1 DEF Begin, Allocate, OutOfMemory, Abandon, Gone, InnerExit, OuterExit
    <2>2. CASE OpenSocket \/ Bind \/ ReadAddress \/ Join
      BY <2>2 DEF OpenSocket, Bind, ReadAddress, Join, Retry, CloseSocket
    <2>3. CASE Sleep \/ InitialHello \/ PeriodicHello \/ SendHello \/ NothingReceived
      BY <2>3 DEF Sleep, InitialHello, PeriodicHello, SendHello, NothingReceived
    <2>4. CASE Answer \/ SendMatches
      BY <2>4 DEF Answer, SendMatches
    <2>5. CASE Receive
      BY <1>0, <2>5 DEF Receive
    <2>6. QED
      BY <1>2, <2>1, <2>2, <2>3, <2>4, <2>5 DEF onvif_c_discovery_task
  <1>3. CASE Device
    <2>1. CASE \E a \in Addresses \cup {NoAddress} : SetAddress(a)
      BY <2>1 DEF SetAddress
    <2>2. CASE \E call \in {"nothing", "socket", "bind", "join"} : Break(call)
      BY <2>2 DEF Break
    <2>3. ASSUME NEW datagram \in Datagrams, Received(datagram) PROVE AskInv'
      <3>1. datagram \in Message
        BY DiscoveryAssumption
      <3>2. QED
        BY <2>3, <3>1, Recognised DEF Received
    <2>4. CASE AnotherTaskAsks
      BY <2>4 DEF AnotherTaskAsks
    <2>5. QED
      BY <1>3, <2>1, <2>2, <2>3, <2>4 DEF Device
  <1>4. CASE Tick
    BY <1>4 DEF Tick
  <1>5. CASE UNCHANGED vars
    BY <1>5
  <1>6. QED
    BY <1>1, <1>2, <1>3, <1>4, <1>5 DEF Next

LEMMA AskAlways == Spec => []AskInv
  <1>1. Init => AskInv
    BY Related DEF Init, AskInv
  <1>2. QED
    BY <1>1, AskStep, DiscoveryInvariant, PTL DEF Spec

(* From the check of the host's string to the frame made of it, the string *)
(* says the address, unless that has changed since time last passed: what  *)
(* another task writes then is the same.                                   *)
Checked == {"join", "hello", "send hello", "send matches", "send resolve"}

NameInv == pc \in Checked /\ Steady => text = addr /\ addr # NoAddress

LEMMA SteadyString == Steady => Rewritten(addr) = {} /\ (onvif_c_cfg_ip => text' = addr)
  BY DEF Steady, Rewritten, onvif_c_cfg_ip, CurrentIp

LEMMA NameStep == AddressType /\ NameInv /\ [Next]_vars => NameInv'
  <1> SUFFICES ASSUME AddressType, NameInv, [Next]_vars, pc' \in Checked, Steady'
               PROVE  text' = addr' /\ addr' # NoAddress
    BY DEF NameInv
  <1> USE DEF NameInv, Checked, vars, taskVars, localVars, appVars, deviceVars, wdtVars,
      sentVars, TaskOnly, ReadOnly, Go
  <1>1. CASE UNCHANGED <<pc, text, addr, recent>>
    BY <1>1 DEF Steady
  <1>2. CASE onvif_c_discovery_start
    BY <1>1, <1>2 DEF onvif_c_discovery_start
  <1>3. CASE SendBye
    <2>1. UNCHANGED <<pc, addr, recent>> /\ (onvif_c_cfg_ip \/ UNCHANGED text)
      BY <1>3 DEF SendBye
    <2>2. text = addr /\ addr # NoAddress /\ Steady
      BY <2>1 DEF Steady
    <2>3. QED
      BY <2>1, <2>2, SteadyString
  <1>4. CASE ClearHandle \/ DeleteTask
    BY <1>1, <1>4 DEF ClearHandle, DeleteTask, Delete, Abandon, Gone
  <1>5. CASE ReadAddress \/ PeriodicHello \/ Answer
    <2>1. onvif_c_cfg_ip /\ UNCHANGED <<addr, recent>>
      BY <1>5 DEF ReadAddress, PeriodicHello, Answer, AskHost
    <2>2. text' # NoAddress
      BY <1>5 DEF ReadAddress, PeriodicHello, Answer, HasAddress, Retry
    <2>3. text' = addr
      BY <2>1, SteadyString DEF Steady
    <2>4. QED
      BY <2>1, <2>2, <2>3
  <1>6. CASE Join
    BY <1>6 DEF Join, Retry, Steady
  <1>7. CASE \/ Begin \/ Allocate \/ OutOfMemory \/ OpenSocket \/ Bind \/ Sleep \/ InitialHello
             \/ InnerExit \/ Receive \/ NothingReceived \/ SendHello \/ SendMatches \/ OuterExit
    <2>1. pc' \notin Checked
      BY <1>7 DEF Begin, Allocate, OutOfMemory, Abandon, Gone, OpenSocket, Bind, Retry, Sleep,
         InitialHello, InnerExit, Receive, NothingReceived, SendHello, SendMatches, OuterExit
    <2>2. QED
      BY <2>1
  <1>8. CASE Device
    <2>1. ASSUME NEW a \in Addresses \cup {NoAddress}, SetAddress(a)
          PROVE  text' = addr' /\ addr' # NoAddress
      <3>1. pc' = pc /\ text' = text /\ addr' = a /\ recent' = recent \cup {a}
        BY <2>1 DEF SetAddress
      <3>2. recent = {a} /\ addr = a
        BY <3>1 DEF Steady, AddressType
      <3>3. QED
        BY <3>1, <3>2 DEF Steady
    <2>2. CASE \E call \in {"nothing", "socket", "bind", "join"} : Break(call)
      BY <1>1, <2>2 DEF Break
    <2>3. ASSUME NEW datagram \in Datagrams, Received(datagram)
          PROVE  text' = addr' /\ addr' # NoAddress
      BY <2>3 DEF Received
    <2>4. CASE AnotherTaskAsks
      <3>1. UNCHANGED <<pc, addr, recent>> /\ text' \in Rewritten(text)
        BY <2>4 DEF AnotherTaskAsks
      <3>2. text = addr /\ Steady
        BY <3>1 DEF Steady
      <3>3. QED
        BY <3>1, <3>2, SteadyString
    <2>5. QED
      BY <1>8, <2>1, <2>2, <2>3, <2>4 DEF Device
  <1>9. CASE Tick
    BY <1>9 DEF Tick, Blocked
  <1>10. CASE UNCHANGED vars
    BY <1>1, <1>10
  <1>11. QED
    BY <1>2, <1>3, <1>4, <1>5, <1>6, <1>7, <1>8, <1>9, <1>10
       DEF Next, Application, onvif_c_discovery_task

(* Whatever other tasks write to the host's string between its check and   *)
(* its use, a Hello or an answer names the address of the interface, which *)
(* has one, unless it changed in that very moment.                         *)
THEOREM DiscoveryNamesTheAddress == Spec => NamesTheAddress
  <1>1. Init => NameInv
    BY DEF Init, NameInv, Checked
  <1>2. NameInv /\ [Next]_vars => [Sends /\ Steady => addr # NoAddress /\ frame'.ip = addr]_vars
    <2> SUFFICES ASSUME NameInv, Sends, Steady PROVE addr # NoAddress /\ frame'.ip = addr
      OBVIOUS
    <2>1. text = addr /\ addr # NoAddress
      BY DEF Sends, InitialHello, SendHello, SendMatches, NameInv, Checked
    <2>2. CASE InitialHello \/ SendHello
      <3>1. ScopesFit
        BY <2>2 DEF Sends, InitialHello, SendHello, SendMatches
      <3>2. frame' = onvif_probe_build_hello(text)
        BY <2>2, <3>1 DEF InitialHello, SendHello, Announce
      <3>3. QED
        BY <2>1, <3>2 DEF onvif_probe_build_hello, Frame
    <2>3. CASE SendMatches
      <3>1. frame' = Matches
        BY <2>3 DEF Sends, SendMatches
      <3>2. QED
        BY <2>1, <3>1 DEF Matches, onvif_probe_build_matches,
           onvif_probe_build_resolve_matches, Frame
    <2>4. QED
      BY <2>2, <2>3 DEF Sends
  <1>3. QED
    BY <1>1, <1>2, NameStep, DiscoveryAddresses, PTL DEF Spec, NamesTheAddress

(* What is answered is a request, with the id of that request.             *)
LEMMA AnswerAsked == AskInv /\ SendMatches /\ frame' # frame => Requested(frame')
  <1> SUFFICES ASSUME AskInv, SendMatches, frame' # frame PROVE Requested(frame')
    OBVIOUS
  <1>1. frame' = Matches
    BY DEF SendMatches
  <1>2. recv_buf.id.len \in Nat /\ Unknown.len = 16
    BY DEF AskInv, Message, MessageId, Unknown
  <1>3. frame'.relates_to = RelatesTo(recv_buf)
    BY <1>1 DEF Matches, onvif_probe_build_matches, onvif_probe_build_resolve_matches, Frame
  <1>4. /\ RelatesTo(recv_buf).len \in 1 .. RelatesRoom - 1
        /\ RelatesTo(recv_buf) # recv_buf.id =>
             RelatesTo(recv_buf) = Unknown /\ recv_buf.id.len \notin 1 .. RelatesRoom - 1
    <2>1. CASE onvif_probe_message_id(recv_buf)
      BY <2>1 DEF RelatesTo, onvif_probe_message_id
    <2>2. CASE ~onvif_probe_message_id(recv_buf)
      BY <1>2, <2>2 DEF RelatesTo, onvif_probe_message_id, RelatesRoom
    <2>3. QED
      BY <2>1, <2>2
  <1>5. CASE pc = "send resolve"
    BY <1>1, <1>3, <1>4, <1>5 DEF Requested, AskInv, Matches, Frame,
       onvif_probe_build_resolve_matches
  <1>6. CASE pc = "send matches"
    BY <1>1, <1>3, <1>4, <1>6 DEF Requested, AskInv, Matches, Frame, onvif_probe_build_matches
  <1>7. QED
    BY <1>5, <1>6 DEF SendMatches

(* A device never answers an answer, its own or another's, nor answers a   *)
(* request with another one's id: for any messages and any ids.            *)
THEOREM DiscoveryAnswersTheRequest == Spec => AnswersTheRequest
  <1>1. AskInv /\ [Next]_vars =>
          [frame' # frame /\ frame'.type \notin {"Hello", "Bye"} => Requested(frame')]_vars
    <2> SUFFICES ASSUME AskInv, Next, frame' # frame, frame'.type \notin {"Hello", "Bye"}
                 PROVE  Requested(frame')
      OBVIOUS
    <2>1. CASE SendMatches
      BY <2>1, AnswerAsked
    <2>2. CASE SendBye \/ InitialHello \/ SendHello
      <3>1. \E ip \in {NoAddress, text} :
              frame' = onvif_probe_build_bye(ip) \/ frame' = onvif_probe_build_hello(ip)
        <4>1. CASE SendBye
          BY <4>1 DEF SendBye
        <4>2. CASE InitialHello
          BY <4>2 DEF InitialHello, Announce, sentVars
        <4>3. CASE SendHello
          BY <4>3 DEF SendHello, Announce, sentVars
        <4>4. QED
          BY <2>2, <4>1, <4>2, <4>3
      <3>2. QED
        BY <3>1 DEF onvif_probe_build_bye, onvif_probe_build_hello, Frame
    <2>3. ~(SendMatches \/ SendBye \/ InitialHello \/ SendHello) => UNCHANGED frame
      BY DEF Next, Application, onvif_c_discovery_task, Device, Tick, onvif_c_discovery_start,
         ClearHandle, DeleteTask, Begin, Allocate, OutOfMemory, OpenSocket, Bind, ReadAddress,
         Join, Sleep, InnerExit, Receive, NothingReceived, PeriodicHello, Answer, OuterExit,
         SetAddress, Break, Received, AnotherTaskAsks, sentVars
    <2>4. QED
      BY <2>1, <2>2, <2>3
  <1>2. QED
    BY <1>1, AskAlways, PTL DEF Spec, AnswersTheRequest

-----------------------------------------------------------------------------
(* Every timeout adds at most RecvTimeout to a silence, and the counter    *)
(* counts them.                                                            *)
HelloInv ==
    /\ pc \notin {"probe", "resolve", "send matches", "send resolve"}
    /\ NoAddress \in recent => silent = 0
    /\ pc = "inner" => silent <= hello_counter * RecvTimeout
    /\ pc = "recv" => silent <= hello_counter * RecvTimeout + waited
    /\ pc \in {"hello again", "send hello"} =>
          hello_counter = 0 /\ silent <= HelloEvery * RecvTimeout

LEMMA Periodic ==
    ASSUME NEW h \in 0 .. HelloEvery - 1
    PROVE  /\ h * RecvTimeout \in Nat /\ (h + 1) * RecvTimeout = h * RecvTimeout + RecvTimeout
           /\ HelloEvery * RecvTimeout \in Nat
           /\ (h + 1) * RecvTimeout <= HelloEvery * RecvTimeout
           /\ 0 * RecvTimeout = 0
  <1>1. RecvTimeout \in Nat /\ HelloEvery \in Nat /\ h \in Nat /\ HelloEvery - (h + 1) \in Nat
    BY Periods
  <1>2. \A a, b \in Nat : a * b \in Nat
    OBVIOUS
  <1>3. (HelloEvery - (h + 1)) * RecvTimeout \in Nat
    BY ONLY <1>1, <1>2
  <1>4. /\ h * RecvTimeout \in Nat /\ HelloEvery * RecvTimeout \in Nat
        /\ (h + 1) * RecvTimeout = h * RecvTimeout + RecvTimeout
        /\ 0 * RecvTimeout = 0
    BY ONLY <1>1, <1>2
  <1>5. HelloEvery * RecvTimeout
          = (HelloEvery - (h + 1)) * RecvTimeout + (h + 1) * RecvTimeout
    BY ONLY <1>1
  <1>6. (h + 1) * RecvTimeout \in Nat
    BY ONLY <1>1, <1>4
  <1>7. QED
    BY ONLY <1>3, <1>4, <1>5, <1>6

LEMMA SilenceStep ==
    ASSUME Datagrams \subseteq {Empty}, ScopesFit, AddressType, IInv, HelloInv, [Next]_vars
    PROVE  HelloInv'
  <1>1. /\ hello_counter \in 0 .. HelloEvery - 1
        /\ silent \in Nat /\ waited \in Nat /\ RecvTimeout \in Nat
    <2>1. RecvTimeout \in Nat
      BY ONLY Periods
    <2>2. QED
      BY <2>1 DEF IInv, TaskType, DeviceType
  <1> DEFINE R == RecvTimeout
             Heard == hello_counter * R
             Due == HelloEvery * R
  <1>2. /\ Heard \in Nat /\ Due \in Nat /\ 0 * R = 0
        /\ (hello_counter + 1) * R = Heard + R /\ Heard + R <= Due
    BY <1>1, Periodic
  <1> HIDE DEF Heard, Due
  <1> USE DEF HelloInv, vars, taskVars, localVars, appVars, deviceVars, wdtVars, sentVars,
      TaskOnly, AskHost, ReadOnly, Go
  <1>3. CASE Application
    BY <1>1, <1>3 DEF Application, onvif_c_discovery_start, SendBye, ClearHandle, DeleteTask,
       Delete, Abandon, Gone
  <1>4. CASE onvif_c_discovery_task
    <2>1. CASE Begin \/ Allocate \/ OutOfMemory \/ InnerExit \/ OuterExit
      BY <2>1 DEF Begin, Allocate, OutOfMemory, Abandon, Gone, InnerExit, OuterExit
    <2>2. CASE OpenSocket \/ Bind \/ ReadAddress \/ Join \/ Sleep
      BY <2>2 DEF OpenSocket, Bind, ReadAddress, Join, Retry, CloseSocket, Sleep
    <2>3. CASE InitialHello
      <3>1. pc' = "inner" /\ silent' = 0 /\ hello_counter' = 0
        BY <2>3 DEF InitialHello, Announce
      <3>2. QED
        BY ONLY <1>2, <3>1 DEF HelloInv
    <2>4. CASE Receive
      <3>1. /\ pc = "inner" /\ pc' = "recv" /\ waited' = 0
            /\ UNCHANGED <<recent, silent, hello_counter>>
        BY <2>4 DEF Receive
      <3>2. silent <= hello_counter * RecvTimeout + 0
        BY <1>1, <1>2, <3>1 DEF Heard
      <3>3. QED
        BY <3>1, <3>2
    <2>5. CASE NothingReceived
      <3>1. pc = "recv" /\ UNCHANGED <<recent, silent>>
        BY <2>5 DEF NothingReceived
      <3>2. silent <= (hello_counter + 1) * R
        <4>1. silent <= Heard + waited /\ waited <= R
          BY <3>1 DEF Heard, IInv, WaitInv
        <4>2. silent <= Heard + R
          BY ONLY <1>1, <1>2, <4>1
        <4>3. QED
          BY <1>2, <4>2
      <3>3. CASE HelloDue
        <4>1. pc' = "hello again" /\ hello_counter' = 0
          BY <2>5, <3>3 DEF NothingReceived
        <4>2. (hello_counter + 1) * R \in Nat /\ (hello_counter + 1) * R <= Due
          BY ONLY <1>1, <1>2
        <4>3. silent <= Due
          BY ONLY <1>1, <1>2, <3>2, <4>2
        <4>4. QED
          BY <3>1, <4>1, <4>3 DEF Due
      <3>4. CASE ~HelloDue
        <4>1. pc' = "inner" /\ hello_counter' = hello_counter + 1
          BY <2>5, <3>4 DEF NothingReceived
        <4>2. QED
          BY <3>1, <3>2, <4>1
      <3>5. QED
        BY <3>3, <3>4
    <2>6. CASE PeriodicHello
      <3>1. /\ pc = "hello again" /\ UNCHANGED <<recent, addr, hello_counter, silent>>
            /\ pc' \in {"inner", "send hello"}
            /\ pc' = "inner" => text' = NoAddress
            /\ text' = addr \/ text' \in Rewritten(addr)
        BY <2>6 DEF PeriodicHello, HasAddress, AskHost, onvif_c_cfg_ip, CurrentIp
      <3>2. CASE pc' = "send hello"
        BY <3>1, <3>2
      <3>3. CASE pc' = "inner"
        <4>1. NoAddress \in recent
          BY <3>1, <3>3, DiscoveryAssumption DEF Rewritten, AddressType
        <4>2. silent' = 0 /\ hello_counter' = 0
          BY <3>1, <4>1
        <4>3. QED
          BY ONLY <1>2, <3>3, <4>2 DEF HelloInv
      <3>4. QED
        BY <3>1, <3>2, <3>3
    <2>7. CASE SendHello
      <3>1. pc' = "inner" /\ silent' = 0 /\ hello_counter' = 0
        BY <2>7 DEF SendHello, Announce
      <3>2. QED
        BY ONLY <1>2, <3>1 DEF HelloInv
    <2>8. CASE Answer \/ SendMatches
      BY <2>8 DEF Answer, SendMatches
    <2>9. QED
      BY <1>4, <2>1, <2>2, <2>3, <2>4, <2>5, <2>6, <2>7, <2>8 DEF onvif_c_discovery_task
  <1>5. CASE Device
    <2>1. ASSUME NEW a \in Addresses \cup {NoAddress}, SetAddress(a) PROVE HelloInv'
      <3>1. /\ UNCHANGED <<pc, hello_counter, waited>> /\ addr' = a
            /\ IF a = NoAddress THEN silent' = 0 ELSE silent' = silent
            /\ recent' = recent \cup {a}
        BY <2>1 DEF SetAddress
      <3>2. CASE a = NoAddress
        <4>1. 0 <= Heard /\ 0 <= Heard + waited /\ 0 <= Due
          BY ONLY <1>1, <1>2
        <4>2. QED
          BY <3>1, <3>2, <4>1 DEF Heard, Due
      <3>3. CASE a # NoAddress
        BY <3>1, <3>3
      <3>4. QED
        BY <3>2, <3>3
    <2>2. CASE \E call \in {"nothing", "socket", "bind", "join"} : Break(call)
      BY <2>2 DEF Break
    <2>3. ASSUME NEW datagram \in Datagrams, Received(datagram) PROVE HelloInv'
      BY <2>3 DEF Received, Empty
    <2>4. CASE AnotherTaskAsks
      BY <2>4 DEF AnotherTaskAsks
    <2>5. QED
      BY <1>5, <2>1, <2>2, <2>3, <2>4 DEF Device
  <1>6. CASE Tick
    <2>1. CASE pc = "recv"
      <3>1. /\ pc' = "recv" /\ UNCHANGED hello_counter /\ waited' = waited + 1
            /\ silent' \in {0, silent, silent + 1} /\ (NoAddress \in recent' => silent' = 0)
        BY <1>6, <2>1 DEF Tick, Listening
      <3>2. silent <= Heard + waited
        BY <2>1 DEF Heard
      <3>3. silent' <= Heard + waited'
        BY ONLY <1>1, <1>2, <3>1, <3>2
      <3>4. QED
        BY <3>1, <3>3 DEF Heard
    <2>2. CASE pc \in {"none", "sleep"}
      BY <1>6, <2>2 DEF Tick, Listening
    <2>3. QED
      BY <1>6, <2>1, <2>2 DEF Tick, Blocked
  <1>7. CASE UNCHANGED vars
    BY <1>7
  <1>8. QED
    BY <1>3, <1>4, <1>5, <1>6, <1>7 DEF Next

(* Where nothing arrives, no silence is longer than HelloEvery receive     *)
(* timeouts, whatever they are.                                            *)
THEOREM DiscoveryHelloOnTime ==
    ASSUME Datagrams \subseteq {Empty}
    PROVE  Spec => []HelloOnTime
  <1>1. CASE ~ScopesFit
    <2>1. HelloOnTime
      BY <1>1 DEF HelloOnTime
    <2>2. QED
      BY <2>1, PTL
  <1>2. CASE ScopesFit
    <2>1. Init => HelloInv
      BY DEF Init, HelloInv
    <2>2. AddressType /\ IInv /\ HelloInv /\ [Next]_vars => HelloInv'
      BY <1>2, SilenceStep
    <2>3. IInv /\ HelloInv => HelloOnTime
      <3> SUFFICES ASSUME IInv, HelloInv, Listening PROVE silent <= HelloEvery * RecvTimeout
        BY DEF HelloOnTime
      <3>1. /\ hello_counter \in 0 .. HelloEvery - 1
            /\ silent \in Nat /\ waited \in Nat /\ RecvTimeout \in Nat
        <4>1. RecvTimeout \in Nat
          BY ONLY Periods
        <4>2. QED
          BY <4>1 DEF IInv, TaskType, DeviceType
      <3> DEFINE Heard == hello_counter * RecvTimeout
                 Due == HelloEvery * RecvTimeout
      <3>2. Heard \in Nat /\ Due \in Nat /\ Heard + RecvTimeout <= Due
        BY <3>1, Periodic
      <3>3. CASE pc = "recv"
        <4>1. silent <= Heard + waited /\ waited <= RecvTimeout
          BY <3>3 DEF HelloInv, IInv, WaitInv
        <4> HIDE DEF Heard, Due
        <4>2. silent <= Due
          BY ONLY <3>1, <3>2, <4>1
        <4>3. QED
          BY <4>2 DEF Due
      <3>4. CASE pc = "inner"
        <4>1. silent <= Heard
          BY <3>4 DEF HelloInv
        <4> HIDE DEF Heard, Due
        <4>2. silent <= Due
          BY ONLY <3>1, <3>2, <4>1
        <4>3. QED
          BY <4>2 DEF Due
      <3>5. CASE pc \in {"hello again", "send hello"}
        BY <3>5 DEF HelloInv
      <3>6. QED
        BY <3>3, <3>4, <3>5 DEF Listening, HelloInv
    <2>4. QED
      BY <2>1, <2>2, <2>3, DiscoveryAddresses, DiscoveryInvariant, PTL DEF Spec
  <1>3. QED
    BY <1>1, <1>2
=============================================================================
