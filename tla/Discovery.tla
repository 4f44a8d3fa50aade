------------------------------- MODULE Discovery -------------------------------
(***************************************************************************)
(* WS-Discovery, esp_idf/onvif_c_discovery.c: the responder task, the task *)
(* watchdog (TWDT) it may subscribe to, its socket, and the application    *)
(* task that starts and stops it. The application clears the handle        *)
(* s_disc_task and then deletes the task, wherever the task stands:        *)
(* vTaskDelete of another task frees its stack and nothing else. The task  *)
(* leaves by itself when it finds the handle cleared first.                *)
(*                                                                         *)
(* Time passes in seconds, and only while the task is blocked: the steps   *)
(* between two blocking calls are taken to be instantaneous.               *)
(***************************************************************************)
EXTENDS Integers, Probe

CONSTANTS
    Addresses,       \* addresses the interface may get
    NoAddress,       \* "0.0.0.0"
    Garbled,         \* a string read while another task rewrites it
    Datagrams,       \* the messages that may arrive, empty ones too
    Watch,           \* cfg->wdt_watch_discovery
    HeapMayFail,     \* may there be no memory for the receive buffer?
    ScopesFit,       \* do Hello and ProbeMatches with these scopes fit RESP_BUF_SIZE?
    RecvTimeout,     \* SO_RCVTIMEO, 5 s
    HelloEvery,      \* receive timeouts between two Hellos, 6
    RetrySleep,      \* onvif_disc_sleep_ms(10000)
    Slice,           \* the longest vTaskDelay, 1 s
    TwdtTimeout,     \* CONFIG_ESP_TASK_WDT_TIMEOUT_S
    MaxTasks         \* bound on the tasks ever created

ASSUME DiscoveryAssumption ==
    /\ NoAddress \notin Addresses /\ Garbled \notin Addresses \cup {NoAddress}
    /\ Datagrams \subseteq Message
    /\ Watch \in BOOLEAN /\ HeapMayFail \in BOOLEAN /\ ScopesFit \in BOOLEAN
    /\ RecvTimeout \in Nat \ {0} /\ HelloEvery \in Nat \ {0}
    /\ Slice \in Nat \ {0} /\ RetrySleep \in Nat \ {0}
    /\ RecvTimeout < TwdtTimeout /\ Slice < TwdtTimeout /\ TwdtTimeout \in Nat
    /\ MaxTasks \in Nat

VARIABLES
    s_disc_task,          \* the handle: 0 for NULL, k for the k-th task created
    s_disc_wdt_watched,
    \* the task and its locals
    pc,                   \* "none": no task, or it has ended
    sock,                 \* does it hold a socket?
    hello_counter,
    ms,                   \* what is left to sleep
    recv_buf,             \* the message in the receive buffer
    \* the application task, in onvif_c_discovery_stop
    apc,
    task,                 \* its copy of the handle
    configured,           \* has onvif_c_cfg_set run?
    \* the device and its network
    addr,                 \* the address of the interface
    text,                 \* the host's string, which local_ip and ip_str point to
    broken,               \* the network call that fails at present, if any
    waited,               \* seconds in the blocking call under way
    subscribed,           \* is the live task in the TWDT?
    unfed,                \* seconds since it was last fed
    \* history
    created,              \* tasks created: the number of the newest one
    orphans,              \* tasks in the TWDT that no longer exist
    lost,                 \* sockets nobody can close any more
    recent,               \* the addresses the interface has had since time last passed
    frame,                \* the last frame sent
    departed,             \* has a Bye been sent since the last start?
    silent                \* seconds of listening, with an address, since the last Hello

localVars == <<s_disc_wdt_watched, sock, hello_counter, ms>>
taskVars == <<pc, s_disc_wdt_watched, sock, hello_counter, ms, recv_buf>>
appVars == <<s_disc_task, apc, task, configured, created>>
deviceVars == <<addr, recent, broken>>
wdtVars == <<subscribed, unfed, orphans>>
sentVars == <<frame, silent>>
vars == <<taskVars, appVars, deviceVars, text, wdtVars, waited, lost, sentVars, departed>>

Init ==
    /\ s_disc_task = 0 /\ s_disc_wdt_watched = FALSE
    /\ pc = "none" /\ sock = FALSE /\ hello_counter = 0 /\ ms = 0
    /\ recv_buf = Empty
    /\ apc = "idle" /\ task = 0 /\ configured = FALSE
    /\ addr = NoAddress /\ recent = {NoAddress} /\ text = NoAddress
    /\ broken = "nothing" /\ waited = 0
    /\ subscribed = FALSE /\ unfed = 0
    /\ created = 0 /\ orphans = 0 /\ lost = 0
    /\ frame = Frame("none", NoAddress, NoId) /\ departed = FALSE /\ silent = 0

-----------------------------------------------------------------------------
(* onvif_c_cfg_ip calls the host, which writes the address of the          *)
(* interface to a string of its own and returns that string: every task    *)
(* that calls it gets the same one (my_ip, examples/onvif_cam/main.c). So  *)
(* another task, with an address it has read in this same moment, may      *)
(* rewrite the string: when the call is over and before it is looked at,   *)
(* or, below, after that. Half of the new address may be there then.       *)
Rewritten(ip) == UNION {{a, Garbled} : a \in recent \ {ip}}

CachedIp == text    \* mutant: the host is not asked again

CurrentIp == addr

onvif_c_cfg_ip == text' \in {CurrentIp} \cup Rewritten(CurrentIp)

AnyAddress == TRUE    \* mutant: the string is not looked at

HasAddress == text' # NoAddress

-----------------------------------------------------------------------------
(* The application task.                                                   *)

(* onvif_c_discovery_start. Nothing happens when the handle is set; the    *)
(* handle is stored before the new task runs. Creation may fail.           *)
onvif_c_discovery_start ==
    /\ apc = "idle"
    /\ configured' = TRUE
    /\ \/ s_disc_task = 0 /\ created < MaxTasks
          /\ created' = created + 1 /\ s_disc_task' = created + 1
          /\ pc' = "begin" /\ sock' = FALSE /\ hello_counter' = 0 /\ ms' = 0
          /\ recv_buf' = Empty /\ departed' = FALSE
       \/ UNCHANGED <<created, s_disc_task, pc, sock, hello_counter, ms, recv_buf, departed>>
    /\ UNCHANGED <<s_disc_wdt_watched, apc, task, deviceVars, text, wdtVars, waited, lost,
                   sentVars>>

(* onvif_c_discovery_stop: send_bye, from a socket of its own.             *)
SendBye ==
    /\ apc = "idle"
    /\ apc' = "clear"
    /\ IF configured THEN onvif_c_cfg_ip ELSE UNCHANGED text
    /\ IF configured /\ HasAddress /\ broken # "socket"
       THEN frame' = onvif_probe_build_bye(NoAddress) /\ departed' = TRUE
       ELSE UNCHANGED <<frame, departed>>
    /\ UNCHANGED <<taskVars, s_disc_task, task, configured, created, deviceVars,
                   wdtVars, waited, lost, silent>>

ClearHandle ==
    /\ apc = "clear"
    /\ apc' = "delete"
    /\ task' = s_disc_task /\ s_disc_task' = 0
    /\ UNCHANGED <<taskVars, configured, created, deviceVars, text, wdtVars, waited, lost,
                   sentVars, departed>>

(* The task is gone, and its stack with it.                                *)
Gone == pc' = "none" /\ hello_counter' = 0 /\ ms' = 0 /\ recv_buf' = Empty

(* A task that ends without its cleanup: what it held is out of reach, and *)
(* the TWDT goes on waiting for it.                                        *)
Abandon ==
    /\ Gone
    /\ lost' = IF sock THEN lost + 1 ELSE lost
    /\ sock' = FALSE
    /\ orphans' = IF subscribed THEN orphans + 1 ELSE orphans
    /\ subscribed' = FALSE

(* Mutant: the task is left to notice.                                     *)
SelfExit == UNCHANGED <<pc, sock, hello_counter, ms, recv_buf, lost, orphans, subscribed>>

Delete ==
    IF task # 0 /\ pc # "none" THEN Abandon
    ELSE UNCHANGED <<pc, sock, hello_counter, ms, recv_buf, lost, orphans, subscribed>>

DeleteTask ==
    /\ apc = "delete"
    /\ apc' = "idle" /\ task' = 0
    /\ Delete
    /\ UNCHANGED <<s_disc_wdt_watched, s_disc_task, configured, created, deviceVars, text,
                   unfed, waited, sentVars, departed>>

-----------------------------------------------------------------------------
(* The responder task.                                                     *)
Go(label) == pc' = label /\ waited' = 0

(* The task only reads the variables of the application and the device;    *)
(* most of its steps touch neither the host's string nor the receive       *)
(* buffer.                                                                 *)
ReadOnly == UNCHANGED <<appVars, deviceVars, departed>>
AskHost == ReadOnly /\ onvif_c_cfg_ip /\ UNCHANGED recv_buf
TaskOnly == ReadOnly /\ UNCHANGED <<text, recv_buf>>

Feed == unfed' = IF s_disc_wdt_watched /\ subscribed THEN 0 ELSE unfed

(* Subscribing to the TWDT; a failure is logged. The flag is static: it    *)
(* may still be set by a task that was deleted.                            *)
Begin ==
    /\ pc = "begin" /\ Go("alloc")
    /\ \/ Watch /\ subscribed' = TRUE /\ s_disc_wdt_watched' = TRUE /\ unfed' = 0
       \/ UNCHANGED <<subscribed, s_disc_wdt_watched, unfed>>
    /\ TaskOnly
    /\ UNCHANGED <<sock, hello_counter, ms, orphans, lost, sentVars>>

(* The receive buffer; without memory for it the task deletes itself, and  *)
(* neither the handle nor the subscription learns of it.                   *)
Allocate ==
    /\ pc = "alloc" /\ Go("outer")
    /\ TaskOnly /\ UNCHANGED <<localVars, wdtVars, lost, sentVars>>

OutOfMemory ==
    /\ pc = "alloc" /\ HeapMayFail
    /\ Abandon /\ waited' = 0
    /\ ReadOnly /\ UNCHANGED <<text, s_disc_wdt_watched, unfed, sentVars>>

ForgetSocket == sock' = FALSE /\ lost' = lost + 1    \* mutant

CloseSocket == sock' = FALSE /\ UNCHANGED lost

(* The attempt failed: close, sleep, start over.                           *)
Retry == CloseSocket /\ Go("sleep") /\ ms' = RetrySleep

(* The head of the outer loop: leave, or feed, close the last socket and   *)
(* open another.                                                           *)
OpenSocket ==
    /\ pc = "outer" /\ s_disc_task # 0
    /\ Feed
    /\ IF broken = "socket" THEN Retry
       ELSE sock' = TRUE /\ Go("bind") /\ UNCHANGED <<lost, ms>>
    /\ TaskOnly
    /\ UNCHANGED <<s_disc_wdt_watched, hello_counter, subscribed, orphans,
                   sentVars>>

Bind ==
    /\ pc = "bind"
    /\ IF broken = "bind" THEN Retry
       ELSE Go("address") /\ UNCHANGED <<sock, lost, ms>>
    /\ TaskOnly
    /\ UNCHANGED <<s_disc_wdt_watched, hello_counter, wdtVars, sentVars>>

(* local_ip is the host's string: what it says may change from its check   *)
(* here to the group joined and the Hello sent with it.                    *)
ReadAddress ==
    /\ pc = "address"
    /\ AskHost
    /\ IF HasAddress THEN Go("join") /\ UNCHANGED <<sock, lost, ms>> ELSE Retry
    /\ UNCHANGED <<s_disc_wdt_watched, hello_counter, wdtVars, sentVars>>

(* Joining on an address the interface does not have fails; on "0.0.0.0"   *)
(* it joins on whatever interface there is.                                *)
Join ==
    /\ pc = "join"
    /\ IF broken = "join" \/ text \notin {addr, NoAddress} THEN Retry
       ELSE Go("hello") /\ UNCHANGED <<sock, lost, ms>>
    /\ TaskOnly
    /\ UNCHANGED <<s_disc_wdt_watched, hello_counter, wdtVars, sentVars>>

OneSleep == ms    \* mutant: the whole sleep in one vTaskDelay

Chunk == IF ms > Slice THEN Slice ELSE ms

(* A slice of onvif_disc_sleep_ms is over.                                 *)
Sleep ==
    /\ pc = "sleep" /\ waited >= Chunk
    /\ ms' = ms - Chunk
    /\ Feed
    /\ Go(IF ms' > 0 THEN "sleep" ELSE "outer")
    /\ TaskOnly
    /\ UNCHANGED <<s_disc_wdt_watched, sock, hello_counter, subscribed,
                   orphans, lost, sentVars>>

(* A frame too long for its buffer is not sent.                            *)
Announce(ip) ==
    IF ScopesFit THEN frame' = onvif_probe_build_hello(ip) /\ silent' = 0
                 ELSE UNCHANGED sentVars

InitialHello ==
    /\ pc = "hello" /\ Go("inner")
    /\ Announce(text)
    /\ hello_counter' = 0
    /\ TaskOnly /\ UNCHANGED <<s_disc_wdt_watched, sock, ms, wdtVars, lost>>

(* The head of the inner loop: leave it, or feed and wait for a datagram.  *)
InnerExit ==
    /\ pc = "inner" /\ s_disc_task = 0 /\ Go("outer")
    /\ TaskOnly /\ UNCHANGED <<localVars, wdtVars, lost, sentVars>>

Receive ==
    /\ pc = "inner" /\ s_disc_task # 0 /\ Go("recv")
    /\ Feed
    /\ recv_buf' = Empty
    /\ ReadOnly /\ UNCHANGED <<text, localVars, subscribed, orphans, lost, sentVars>>

HelloLate == hello_counter + 1 > HelloEvery    \* mutant

HelloDue == hello_counter + 1 >= HelloEvery

(* recvfrom returned nothing: a timeout, or an empty datagram, which       *)
(* counts as one. Every HelloEvery times a Hello is due.                   *)
NothingReceived ==
    /\ pc = "recv"
    /\ waited >= RecvTimeout \/ Empty \in Datagrams
    /\ IF HelloDue THEN hello_counter' = 0 /\ Go("hello again")
                   ELSE hello_counter' = hello_counter + 1 /\ Go("inner")
    /\ TaskOnly
    /\ UNCHANGED <<s_disc_wdt_watched, sock, ms, wdtVars, lost, sentVars>>

(* The address is asked for, and checked; the Hello is made of the string  *)
(* a moment later. So it is with the answers below.                        *)
PeriodicHello ==
    /\ pc = "hello again" /\ AskHost
    /\ Go(IF HasAddress THEN "send hello" ELSE "inner")
    /\ UNCHANGED <<localVars, wdtVars, lost, sentVars>>

SendHello ==
    /\ pc = "send hello" /\ Go("inner")
    /\ Announce(text)
    /\ TaskOnly /\ UNCHANGED <<localVars, wdtVars, lost>>

(* A Resolve of this device or a Probe is to be answered; the rest is      *)
(* skipped.                                                                *)
Received(datagram) ==
    /\ pc = "recv" /\ datagram.type # "empty"
    /\ recv_buf' = datagram
    /\ Go(IF onvif_probe_is_resolve(datagram) /\ datagram.ours THEN "resolve"
          ELSE IF onvif_probe_is_probe(datagram) THEN "probe" ELSE "inner")
    /\ ReadOnly /\ UNCHANGED <<text, localVars, wdtVars, lost, sentVars>>

Answer ==
    /\ pc \in {"probe", "resolve"} /\ AskHost
    /\ Go(IF ~HasAddress THEN "inner"
          ELSE IF pc = "resolve" THEN "send resolve" ELSE "send matches")
    /\ UNCHANGED <<localVars, wdtVars, lost, sentVars>>

Matches ==
    IF pc = "send resolve" THEN onvif_probe_build_resolve_matches(RelatesTo(recv_buf), text)
                           ELSE onvif_probe_build_matches(RelatesTo(recv_buf), text)

SendMatches ==
    /\ pc \in {"send matches", "send resolve"} /\ Go("inner")
    /\ frame' = IF pc = "send resolve" \/ ScopesFit THEN Matches ELSE frame
    /\ TaskOnly /\ UNCHANGED <<localVars, wdtVars, lost, silent>>

(* The outer loop found the handle cleared: the task frees what it holds,  *)
(* unsubscribes and deletes itself.                                        *)
OuterExit ==
    /\ pc = "outer" /\ s_disc_task = 0
    /\ Gone /\ waited' = 0
    /\ CloseSocket
    /\ s_disc_wdt_watched' = FALSE
    /\ subscribed' = IF s_disc_wdt_watched THEN FALSE ELSE subscribed
    /\ ReadOnly /\ UNCHANGED <<text, unfed, orphans, sentVars>>

-----------------------------------------------------------------------------
(* The device. The interface gains, changes and loses its address, network *)
(* calls begin and cease to fail.                                          *)
SetAddress(a) ==
    /\ addr' = a /\ recent' = recent \cup {a}
    /\ silent' = IF a = NoAddress THEN 0 ELSE silent
    /\ UNCHANGED <<taskVars, appVars, wdtVars, text, broken, waited, lost, frame, departed>>

Break(call) ==
    /\ broken' = call
    /\ UNCHANGED <<taskVars, appVars, wdtVars, addr, recent, text, waited, lost, sentVars,
                   departed>>

(* Another task asks the host, to name a stream or an endpoint.            *)
AnotherTaskAsks ==
    /\ text' \in Rewritten(text)
    /\ UNCHANGED <<taskVars, appVars, wdtVars, deviceVars, waited, lost, sentVars, departed>>

Listening == pc \in {"inner", "recv", "hello again", "send hello", "probe", "resolve",
                    "send matches", "send resolve"}

Blocked ==
    \/ pc = "none"
    \/ pc = "recv" /\ waited < RecvTimeout
    \/ pc = "sleep" /\ waited < Chunk

(* A second passes, and a call of the host's callback is over before. What *)
(* nobody waits for is not counted, nor a silence beyond the first second  *)
(* too long.                                                               *)
Overdue == HelloEvery * RecvTimeout + 1

Tick ==
    /\ Blocked
    /\ waited' = IF pc = "none" THEN 0 ELSE waited + 1
    /\ unfed' = IF subscribed THEN unfed + 1 ELSE 0
    /\ silent' = IF ~Listening \/ addr = NoAddress THEN 0
                 ELSE IF silent < Overdue THEN silent + 1 ELSE silent
    /\ recent' = {addr}
    /\ text' \in IF text = Garbled THEN recent ELSE {text}
    /\ UNCHANGED <<taskVars, appVars, addr, broken, subscribed, orphans, lost, frame,
                   departed>>

-----------------------------------------------------------------------------
Application == onvif_c_discovery_start \/ SendBye \/ ClearHandle \/ DeleteTask

onvif_c_discovery_task ==
    \/ Begin \/ Allocate \/ OutOfMemory
    \/ OpenSocket \/ Bind \/ ReadAddress \/ Join \/ Sleep \/ InitialHello
    \/ InnerExit \/ Receive \/ NothingReceived \/ PeriodicHello \/ SendHello
    \/ Answer \/ SendMatches \/ OuterExit

Device ==
    \/ \E a \in Addresses \cup {NoAddress} : SetAddress(a)
    \/ \E call \in {"nothing", "socket", "bind", "join"} : Break(call)
    \/ \E datagram \in Datagrams : Received(datagram)
    \/ AnotherTaskAsks

Next == Application \/ onvif_c_discovery_task \/ Device \/ Tick

Spec == Init /\ [][Next]_vars

(* The task keeps running. Time keeps passing, however many datagrams the  *)
(* task receives in a second: Tick is enabled only between two of them.    *)
FairSpec == Spec /\ WF_vars(onvif_c_discovery_task) /\ SF_vars(Tick)
=============================================================================
