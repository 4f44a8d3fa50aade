# A TLA+ verification of onvif-c

onvif-c is an ONVIF device library for ESP32 cameras: SOAP services on the
ESP-IDF HTTP server, a WS-Discovery responder task, and a Pull-Point motion
event service. This directory models the parts of it that keep state and share
it between tasks, checks them with TLC on small instances, and proves the
central invariants with TLAPS for all values of the constants.

Every definition is a translation of the source; `PROJECT.json` (`map`) names
the lines each one stands for. Paths below are relative to the repository.

## 1. Inventory

| component | code | state | operations | hard behaviour | what makes it correct |
|---|---|---|---|---|---|
| Motion event ring | `core/onvif_events_ring.*` | slots, `head`, `count`, `generated` | reset, push, pop | wrap-around, drop-oldest at capacity, stale slots after reset | a drop-oldest FIFO |
| Pull-Point events service | `esp_idf/onvif_c_events.*` | `s_ev`: mutex, `sub_valid`, two deadlines, the ring | CreatePullPoint, PullMessages, Renew, Unsubscribe, static answers, `onvif_c_motion`, `onvif_c_events_subscribed`, registration | sensor callbacks against the httpd task on one mutex; time read before the lock; wall clock set by SNTP; events popped before the answer is sent; a release on each of a dozen ways out | exclusion, order, no event of another subscription, expiry neither early nor late, no leak, callbacks never wait |
| WS-Discovery responder | `esp_idf/onvif_c_discovery.c` | `s_disc_task`, `s_disc_wdt_watched`; the task's socket, buffer, counter | the task's two loops, start, stop, Bye | a task deleted from outside wherever it stands; failing network calls and retries; address changes; an address held by pointer to a string that other tasks rewrite; a task watchdog | watchdog fed, one task, no socket lost per retry, the right address in each message, Hello on time, recovery, Bye last |
| SOAP services, gate, configuration seam | `esp_idf/onvif_c_service.c`, `onvif_c_port.h`, `include/onvif_c.h` | `s_cfg`, the static default scopes, the registered URIs | `onvif_c_start`, `onvif_c_stop`, `onvif_c_cfg_set`, three dispatchers, the gate, two setters | the configuration has no lock; a start may fail half-way and be repeated; action names contain each other | whole configuration before any reader; advertised endpoints exist; acknowledgement only for what was done |
| WS-Security verification | `core/onvif_wsse.*` | nonce cache: 16 slots and a counter | `onvif_wsse_verify` | order of the checks, cache at its limit | no nonce accepted again while 16 later ones have not pushed it out |
| Time configuration | `core/onvif_time.*`; the host's clock, time mode, zone and servers behind the callbacks of `onvif_c.h` | none of its own | parse SetSystemDateAndTime and SetNTP; answer GetSystemDateAndTime | leap years, dates that do not exist, field ranges, elements in any place and layout, a list of fixed size | agreement with a calendar; what the host is made to do is what was asked for |
| Probe parsing, messages | `core/onvif_probe.*` | none | classify a datagram, extract its MessageID, build the answers | the names of answers contain those of requests; ids of any length | requests are answered with their own id, answers are not answered |
| SOAP response builders | `core/onvif_xml.*` | an offset into the answer | `snprintf` in one piece or several | lengths as they would have been, an offset behind the buffer's end, scopes spaced in any way | never a write behind the end; an answer whole or a fault |
| mDNS | `init_mdns` in `onvif_c_discovery.c` | none of its own | calls of the mdns component | failure ignored | - |
| Example, probe tool, tests | `examples/`, `tools/`, `tests/` | - | - | - | read as documentation |

How they meet. The application calls `onvif_c_start`, which writes `s_cfg`,
registers three or four URIs with httpd and creates the responder task. httpd's
single task runs the handlers one request after the other; each handler of the
device, media and events services passes the authentication gate, which uses
the nonce cache, and reads `s_cfg` as it goes. Sensor callbacks call
`onvif_c_motion` at any moment and contend with the events handler for one
mutex; only the producer's attempt is without a wait. The responder reads
`s_cfg` (address, scopes, port) whenever it builds a message. `onvif_c_stop`
sends Bye and deletes the responder; the handlers stay. The deadlines of the
events service and the window of the gate are wall-clock times, which
SetSystemDateAndTime and SNTP change.

The hazards this leads to are listed, each at its line, in `PROJECT.json`
(`hazards`), with the properties that would catch them or the reason why there
is none.

## 2. The modules

| module | models | remarks |
|---|---|---|
| `EventRing` | the ring as operators `Reset`, `Push`, `Pop`, `Oldest` on records | shared by the next two |
| `MotionQueue` | *abstract*: a bounded drop-oldest queue | |
| `RingBuffer` | one ring under any sequence of its operations; refinement to `MotionQueue` | |
| `EventRingProofs`, `RingBufferProofs` | proofs | lemmas on the ring are used by the events proofs as well |
| `PullPoint` | *abstract*: what the events service promises a client | |
| `Events` | the events service: `s_ev`, the httpd task, the producers, clock | EXTENDS `EventRing` |
| `EventsProperties`, `MCEvents` | its properties and refinement to `PullPoint`; its instances | |
| `EventsProofs`, `EventsDeliveryProofs` | proofs | |
| `Discovery` | responder task, application, watchdog, interface and network | |
| `DiscoveryProperties`, `MCDiscovery`, `DiscoveryProofs` | its properties, instances, proofs | |
| `Probe` | the messages of WS-Discovery: recognition, MessageID, the builders' frames | EXTENDED by `Discovery` |
| `Wsse` | the order of the checks and the nonce cache, as operators | |
| `Service` | the application's start and stop, `s_cfg` and its readers, gate, dispatch of all four services, setters | EXTENDS `Wsse` |
| `ServiceProperties`, `MCService`, `ServiceProofs` | its properties, instances, proofs | |
| `Calendar` | `days_from_civil`, the token check's own conversion, `gmtime_r`, and the calendar itself (`DaysIn`, `NextSecond`) | operators |
| `TimeConfig` | the two parsers of `onvif_time.c` | EXTENDS `Calendar` |
| `Device` | the handlers for date and servers, the builders of several pieces, the host's clock | EXTENDS `TimeConfig` |
| `DeviceProperties`, `MCDevice`, `CalendarProofs`, `DeviceProofs` | its properties, instances, proofs | |

### Events

The mutex is `mtx`: absent, free, or its holder. A request is a sequence of
steps of the httpd task (`pc`). `ReadBody` allocates the body; receiving it fails
or not (`ReceiveFails`, `BodyReceived`), the gate refuses it (`GateRefuses`; what
the gate decides by is in `Service`) or `BeginRequest` dispatches (`Dispatch` is the
chain of `strstr` tests: the first name of `Actions` that occurs anywhere in the
body wins). `ReadNow` takes `time(NULL)` and, for a pull, the response buffer,
`Lock` waits for the mutex, and then there is one action per handler:
`CreatePullPoint`, `Renew` or `RefuseExpired`, `Unsubscribe`, or `PullMessages`
followed by a `PopEvent` for each event and `EndPull`. Outside the mutex a pull ends
as one of `AnswerExpired`, `AnswerTruncated`, `AnswerUnclosed` (each a fault) and
`AnswerPull` (sent or lost), the others as `Acknowledge`. The fixed answers of
`EV_RESP` are `BuildStatic`, `SendStatic` and `StaticOutOfMemory`, which leaves the
handler from inside the macro. `Finish` is the dispatcher's own end.

`heap` counts, for the body and for the answer's buffer, the calls of `malloc` less
those of `free`. Each of the code's `free` statements is a `free` of the action that
stands for its path, so that one forgotten or repeated on one path shows.

A producer's call is `Motion`, `TryLock` (which drops the event if the mutex is
taken) and `PushMotion`. Time passes with `Tick`; `StepClock` is SNTP or the host's
`time_apply`. `uptime` is the clock nobody sets, which the properties measure by:
`read_at` is the uptime at which the request under way read the wall clock, `contact`
and `renewed` are that of the last pull and of the last renewal, creation counting
as both.

Events carry history: the subscription they were queued for and their ordinal
in it. Lengths of text are numbers (`OpenLen`, `EventLen`, `CloseLen`, the
code's 278, at most 428, and 167 bytes), since whether a pull fits depends on
them; text itself is left out.

### Discovery

One `pc` value for each stretch of the task between two points where it can
block, fail or be deleted. The network is one variable, `broken`, the call that
fails at present, and `addr`, the address of the interface; both change at any
time. `onvif_c_cfg_ip` returns a pointer to a string of the host, which the host
rewrites at each call, whoever calls (`my_ip` in `examples/onvif_cam/main.c:11-20`).
That string is `text`: a call writes the current address to it, the check
(`HasAddress`) and the use look at it in steps of their own (`ReadAddress`, `Join`,
`InitialHello`; `PeriodicHello`, `SendHello`; `Answer`, `SendMatches`), and in between
`AnotherTaskAsks` may write it again. What is written there is an address that the
interface has had since time last passed (`recent`), or half of one (`Garbled`): a
call of the host's is taken to end before the next second, as every other step
between two blocking ones. Time is in seconds and passes only while the task blocks (`Blocked`): in
`recvfrom` or in a slice of a sleep. `DeleteTask` may strike at any `pc`; it
takes the task's stack and leaves its socket (`lost`) and its watchdog
subscription (`orphans`) behind. `frame` is the last multicast or answer sent.
Sending is taken to succeed; the code ignores the result of `sendto`.

The datagrams are those of `Probe`. A message is its type, whether it has this
device's uuid in it, and its MessageID (a text and its length); `Found` says which
of the substrings that the code looks for occur in which message, so that
`onvif_probe_is_probe` and `onvif_probe_is_resolve` are what they are in C: one
name present, another absent. `recv_buf` holds the message received until the
next one, because the answer is built from it. What does not fit the receive
buffer is not part of the text, so a cut message is one without an id. The
instance hears the device's own frames and another device's answers as well as
clients' requests.

### Service and Wsse

`CopyMember` copies `s_cfg = *cfg` one member at a time in any order (a structure
assignment is not atomic for other tasks), then `DeriveScopes` and `NameScopes`
put the default in place. All members with a default (names, `http_port`,
`scopes`) are represented by `scopes`, whose default takes several steps. Each
`Register` may succeed, find the URI present, or fail and end the start. The
responder appears as a reader that holds the pointer to the scopes
(`ReadScopes`, `ScopesRead`). A request is `Accept`, the gate (`GatePasses`,
`GateRefuses`), `DispatchAction`, `Apply` for the two setters, `Send`, `Finish`.
The four services differ in their list of actions and in what they do without a
body: the events service, whose URI the start registers last and only if the
configuration enables it, answers a fault before asking the gate. What happens
behind its dispatch is in `Events`.
What a body mentions, whether its date parses and what its token is worth are
parts of the body; digests are right or wrong, not computed.

### Device, TimeConfig, Calendar

A body is a sequence of tags and texts (`TimeConfig`): what the parsers see of it.
`elem_scope` and `leaf_text` are sets of none or one; a number is what `parse_num`
makes of a text. `onvif_time_parse_set_ntp` looks for names with `strstr` and finds
them in closing tags too, as the code does.

An epoch is a day and a second of that day, so that no number exceeds TLC's
integers; `CivilEpoch` is the code's expression otherwise. `gmtime` stands for
the C library's and is external, as is `SecondLater`.

In `Device`, `ReadClock`, `ReadMode` and `AnswerDate` are the three moments at which
GetSystemDateAndTime asks the host for its clock, mode and zone, any of which
may change in between. `handle_set_system_date_and_time` and `handle_set_ntp` parse
the body and hand the result to the host; what the host does with it
(`time_apply`) follows the contract in `include/onvif_c.h`. The answers built of
several pieces are written by `WriteHead`, `WriteMiddle`, `WriteScope` (once for each
scope) and `WriteTail`, each a `snprintf` into what is left of the buffer;
`Unless` is the early return of a builder that has no room left. `Length` counts
the fixed text and the addresses in a piece.

`expected` is the date of a calendar that was set when the clock was and counts
the seconds; `shown` is its date when the clock was read; `handed` is what the
request has had the host do. A request carries in `asked` what its author wanted,
and the properties compare this with `handed`, so they do not depend on how the
parsers find it. `Says` and `SaysServers` state what a body must contain for its
author to have asked for that: which elements with which texts, and nothing about
their order, their place or what stands between them. They are hypotheses of the
theorems on `AsAsked` and `NoServerLost`; `MCDevice` has TLC evaluate them on every
request of the instance (`MCRequestsSay`).

What the C code collects in a loop (the servers of a body) is `Picked`: the members of
a sequence at a set of positions, in order. The words of the scopes are described in
the same way, by where they start and end, while the builder's steps skip spaces and
span words as the code does.

## 3. The runs

All bounds are constants of the modules, given in the `.cfg` files; a bound
appears only in a guard (`MaxGenerated`, `MaxUptime`, `MaxMotions`, `MaxSubs`,
`MaxTasks`, `MaxStarts`, `MaxAccepted`, `MaxTicks`). Deadlock is checked in every run.

### Runs that pass

| run | what it shows | bounds and why they are enough |
|---|---|---|
| `ring_queue` | `ImplementsQueue`: the ring is a drop-oldest FIFO | 3 slots, 2 events, 7 pushes: the window wraps twice, at every fill level |
| `events_safety` | exclusion (`LockDiscipline`), queue contents (`RingIsRecent`), `DeliveredInOrder`, `TimestampsInOrder`, `PullNeverOverflows`, expiry (`ServedWhileAlive`: not late; `ExpiryTakesTime`: not early), `ImplementsPullPoint` | 2 producers (one can hold the mutex while another fails), a ring of 3 and 4 motions (one drop), pulls of 1 and 2 (a queue outlives a pull), 2 subscriptions (replacement, expiry then re-creation), 3 s with deadlines of 1 s and 2 s (both expire). Nobody sets the clock |
| `events_liveness` | `NoLeak`, `MotionReturns`, `RequestsAnswered` | 2 producers, all actions, refusals, failed receives and lack of memory; a response buffer of 870 bytes, which a pull of no events fits, one of one event leaves without room for its end, and a second event truncates; a clock that is set |
| `discovery_safety` | `FedInTime`, `OneTask`, `RetriesLoseNoSocket`, `NamesTheAddress`, `AnswersTheRequest` | an interface that has an address or none and may change in every step, while the host's string is rewritten in every step (with a second address the string would say no more: what matters is that it is not the interface's), every failing call, requests with an id, without, with one of 127 and one of 128 characters, the device's own frames and another's answers, 2 tasks (a start after a stop); periods scaled to 2, 3 and 1 s with a watchdog of 3 s, which keeps their order in the code |
| `discovery_timing` | `HelloOnTime`, `Recovers` | the code's own 5 s, 6 timeouts, 10 s and 1 s; 1 address, 1 task, no datagrams but empty ones |
| `service_safety` | `FirstStartIsSafe`, `AdvertisedIsServed`, `OwnHandler`, `ApplyOrFault`, `NonceOnce` | 2 starts with any of 3 configurations (complete, bare, plain-text authentication), requests to all 4 services, 3 nonces for 2 slots and 4 acceptances (a nonce is pushed out and comes back), a clock inside and outside the window |
| `device_answers` | `DateShown`, `ClockIsCalendar`, `AsAsked`, `NoServerLost`, `InBuffer`, `ScopesListed`, `WholeOrFault` | 9 dates: the ends of a leap and a common February, of a century, a year and a month, leap seconds, dates that do not exist, the first and the last; each field missing, empty, no number, and one below and one above its range; zones empty, cut, in another place; up to 4 servers of each family for a list of 3, in one line and in several; 2 s to pass (across any of the ends); a buffer of 20 bytes with 6 configurations whose answers fit, fill it, or overflow it in each of the pieces |

### Runs that end in a counterexample

Each checks a sentence of the documentation, a comment or a test.

| run | sentence | what the code does |
|---|---|---|
| `events_clock_step` | "auto-expires after **120 s without pulls**" (`docs/en-US/onvif-c-quickstart.md:132-133`) | the idle time is a difference of wall-clock times: the first SNTP synchronisation ends a subscription whose client has just pulled |
| `discovery_watchdog` | "unsubscribe on task exit" (`tests/test_discovery.c:308`) | `onvif_c_discovery_stop` deletes the task, which then does not reach its own clean-up |
| `discovery_traffic` | "announces Hello every ~30s" (`esp_idf/onvif_c_discovery.c:6`) | only receive timeouts are counted: foreign datagrams more frequent than one in 5 s put Hello off for ever |
| `discovery_bye` | "sends a multicast Bye from `onvif_c_stop()` so NVRs drop stale XAddrs" (`README.md:33-34`) | the responder still runs when Bye is sent, and may announce the device after it |
| `device_servers` | "Collect NTP server addresses (IPv4Address / IPv6Address leaves, in request order)" (`core/onvif_time.h:35-36`) | `strstr` finds the name of an address in its closing tag as well: with the elements on lines of their own, the white space behind it is handed to the host as a server |

Others that no run is spent on: `onvif_c_events_subscribed` is "true while a
Pull-Point subscription is alive" (`include/onvif_c.h:140`) but stays true after
the deadline until the next request finds it passed. A second start, which
`include/onvif_c.h:121` half allows ("re-registration of handlers is tolerated"),
copies and resolves the configuration again while the handlers read it: this is
why `FirstStartIsSafe` speaks of the first. The servers of a SetNTP are taken
IPv4 first (`core/onvif_time.c:191-192`), not "in request order"
(`core/onvif_time.h:35-36`, `include/onvif_c.h:96-97`): `NoServerLost` therefore states
the order within each family only. Names of hosts (`DNSname`) are ignored, and
so a request with nothing else hands over an empty list, which ends NTP. A TZ outside
a TimeZone is ignored, and a TimeZone without any TZ is an error although the
header names only a malformed UTCDateTime as one. The nonce
evicted from the replay cache is said to be the "oldest-created"
(`core/onvif_wsse.h:24`); it is the one accepted first, whatever its token's time
of creation. A Probe is answered whatever Types and Scopes it asks for, and one whose element
has no prefix is not recognised. While the address is being lost or changed, a message
may name "0.0.0.0", or half an address, though the library "stays quiet on
discovery" without one (`docs/en-US/onvif-c-quickstart.md:73-74`): the string is looked
at through the host's pointer again after its check. `NamesTheAddress` speaks of the
seconds in which the address does not change.

`discovery_traffic` is checked under fairness, so that the counterexample is a
running system and not one that stopped.

### Fairness

- `ProducersRun`: a task inside `onvif_c_motion` goes on. It makes no call that
  waits (`xSemaphoreTake` with a timeout of 0), so FreeRTOS runs it to the end.
  `MotionReturns` assumes nothing else: the httpd task may stop for ever.
- `HttpdRuns`: the httpd task goes on (weak), and its `xSemaphoreTake` with
  `portMAX_DELAY` succeeds if the mutex is given infinitely often (strong):
  FreeRTOS keeps a waiter on the semaphore's list and readies it at each give.
  It is the antecedent of `RequestsAnswered` alone.
- `FairSpec` of `Discovery`: weak fairness of the task, which is ready whenever
  it is not blocked; strong fairness of `Tick`, since time passes however often
  datagrams wake the task. Nothing is assumed of the network or the
  application; `Recovers` makes what it needs of them an antecedent.

## 4. The proofs

Nothing is taken on trust: all proofs are checked by `tlapm` (SMT, Zenon and, for
the temporal steps, LS4). The constants are arbitrary within the assumptions
`QueueMaxAssumption`, `MaxGeneratedAssumption`, `EventsAssumption`,
`DiscoveryAssumption`, `WsseAssumption`, `ServiceAssumption`,
`TimeConfigAssumption` and `DeviceAssumption`, which TLC evaluates in the runs. Some theorems have a
further hypothesis, named in their row; those on what clients send are evaluated by
TLC for the requests of the instances (`MCBodiesNameOne`, `MCRequestsSay`).

| theorem | establishes | argument |
|---|---|---|
| `RingTypeCorrect` | `RingBuffer!TypeOK` | inductive as it stands: the window holds events only, and never more than were pushed |
| `RingImplementsQueue` | the ring refines `MotionQueue`, for every size | step simulation; the lemmas of `EventRingProofs` say what reset, push and pop do to `Contents`, modulo arithmetic included |
| `EventsTypeCorrect`, `EventsMutualExclusion`, `EventsRingRecent`, `EventsNoLeak` | `TypeOK`, `LockDiscipline`, `RingIsRecent`, `NoLeak`, for any number of producers, any deadlines, sizes and clock settings | one inductive invariant, `IInv`: types, the mutex' holder is where the program counters say, each block is allocated where the request's position says and nowhere else (`HeapHeld`), the ring's window is the latest motions of the current subscription. The parts need each other: a pop is only known to keep the window because nobody else has the mutex, and `NoLeak` because every path frees exactly what its position holds |
| `EventsDeliveredInOrder` | `DeliveredInOrder` | on top of `IInv`: what was received, what is in the answer and what is in the ring are three consecutive stretches of one increasing line |
| `EventsPullNeverOverflows` | `PullNeverOverflows`, if `PullMax` events and the envelope fit the buffer (`BufferFits`: in the code 278 + 6 * 428 + 167 = 3013 < 4096) | the bytes written are those of the events in the answer, of which there are at most `limit` |
| `EventsImplementPullPoint` | the service implements `PullPoint`, if `BufferFits` | step simulation on top of `IInv` and the lemma for the previous theorem, without which an event could leave the queue and reach no answer. `RefineInv`: the answer is empty outside a pull and before its first event, and a pull's subscription lives while its answer is made |
| `EventsTimestampsInOrder` | the same, while nobody sets the clock | `TimeInv`: of two events handled, the later has no earlier time. It is kept as a statement about a set, so that each step only has to show that the set does not grow, except a push, whose event is the last in both senses |
| `EventsServedWhileAlive`, `EventsExpiryTakesTime` | the two, while nobody sets the clock, for any deadlines and any waits for the mutex | `AgeInv`: the wall clock is the uptime, and the two times in `s_ev` are those of the last pull and the last renewal of this subscription, whatever happened since. What `sub_alive` compares is then elapsed time |
| `DiscoveryTypeCorrect`, `DiscoveryFedInTime`, `DiscoveryOneTask`, `DiscoveryRetriesLoseNoSocket` | the four invariants, for any periods, provided the receive timeout and the sleep slice are each below the watchdog's timeout | one inductive invariant: which handle values are possible at which point of a stop; how long the task may have gone unfed at each `pc`, relative to what it has waited; one socket per task |
| `DiscoveryAnswersTheRequest`, `DiscoveryNamesTheAddress` | the same for any messages, ids and addresses | `AskInv`: at the answering steps the message in `recv_buf` is what it was recognised as; `NameInv`: between a check and its use, in a second without a change, the host's string is the interface's address, whoever rewrites it (`SteadyString`: there is nothing else to write), and there is one |
| `DiscoveryHelloOnTime` | `HelloOnTime` for any periods, where only empty datagrams arrive | `HelloInv`: `silent` at each `pc`, bounded by `hello_counter` timeouts and what the current one has waited |
| `ServiceTypeCorrect` | `TypeOK`, for any configurations, bodies and sizes of the cache | `IInv`: a request in progress has a URI |
| `ServiceNonceOnce` | `NonceOnce`, for any number of slots | `CacheInv`: the slot `d` places before `next`, around the end, has the nonce accepted `d` before the last; what is not in the cache was therefore not among the last `NonceSlots` |
| `ServiceApplyOrFault`, `ServiceAdvertisedIsServed`, `ServiceFirstStartIsSafe` | the three | `ApplyInv`: nothing is applied before `Apply`, nor answered otherwise after it; `ServedInv`: what a start has behind it is registered, and the configuration rests until the next; `FirstInv`: until the scopes can be read nobody is there to read them |
| `ServiceOwnHandler` | `OwnHandler`, if each body names one action (`NamesOne`: what it mentions are that name and the names contained in it; TLC evaluates this in `MCBodiesNameOne`) | `OwnInv`: what is dispatched is the first action of the list that the body mentions; by `LongestFirst` each list has a name before those it contains, which is what the order of the tests in the code is for |
| `DaysConsecutive`, `SameDays`, `RoundTrip`, `SecondBySecond` | `days_from_civil` numbers the calendar's days without gap, for every year; it agrees with the token check's conversion; `gmtime` inverts it from 1970 on; a clock that counts seconds shows what the calendar shows | linear arithmetic over the era of 400 years, by month and by kind of year |
| `TheDateIsShown`, `TheClockIsRight`, `NothingBehindTheEnd` | `DateShown`, `ClockIsCalendar`, `InBuffer`, for every body, configuration and text | `DInv`: the clock is the epoch of an existing date, `expected`, and what was read of it was converted; the theorems on the calendar carry it over a second and a set date |
| `DeviceTypeCorrect` | `TypeOK`: the host included, which is never handed more servers than it takes | `TInv`: on top of `DInv`, which request is in progress at which `pc` |
| `DeviceScopesListed`, `DeviceWholeOrFault` | the two, for a text of scopes of any length and spacing, any buffer and any fixed text | `PieceInv`: at each piece, `off` is the length of what the pieces before it should have written, and `items` are the words that end before `p`. `OneWordMore`: skipping spaces and spanning letters from a break finds the next word, the one that the count of starts numbers next |
| `DeviceAsAsked`, `GoodIsParsed` | `AsAsked`, if each body says what was asked for (`Says`); a body is parsed if and only if it is well-formed | `HandedInv`: what the host was handed was parsed of the request's body. `ScopeInside`, `LeafReads`: what the scanning for tags finds is the element, wherever it stands; the date then goes through `RoundTrip` |
| `DeviceNoServerLost` | `NoServerLost`, if each body lists the servers asked for (`SaysServers`), for any number of them and of slots | `FamilyListed`: the positions from which texts are taken and those of the usable servers correspond in order (`Rises`), and so the k-th of one is the k-th of the other. `WantedOfBoth`, `PickedSplit`: the usable servers of both families in one list are those of the one followed by those of the other, and what is picked of it splits in the same place |
| `DeviceOnlyServers` | `OnlyServers`, the property that `device_servers` violates, where in addition no text stands behind the elements (`Unspaced`, which TLC finds to hold of the instance's one-line requests: `MCServersUnspaced`) | the boundary of that finding: the texts behind closing tags are the only ones that are mistaken for servers |

The inductive invariants are conjunctions of named parts. `OwnInv`, `DInv`, `TInv`,
`PieceInv` and `HandedInv` hold in every state of the instances of `service_safety` and
`device_answers` as well.

Statements about loops over data need an induction that the library's theorems, which
take an operator as a parameter, do not give here. They go through a least number
instead: `LeastNumber` (every non-empty set of numbers has a least member, from the
well-foundedness of `<`) gives the counting lemmas (`CountStep`, `CountRises`, `NthOfCount`,
`CountOfNth`), and these say all that is needed of `Nth` and `Picked`.

Only model-checked: liveness under fairness (`MotionReturns`, `RequestsAnswered`,
`Recovers`), which this prover does not reach. Every other property of the passing
runs is a theorem. The proofs say nothing of the properties that are violated,
except of `OnlyServers` under the hypothesis named above.

## 5. What is not modelled

- Builders that are a single `snprintf` of a template: their only outcome is that
  the text fits or not, which `Service!Send` has. `Events` has the lengths of its own.
- In `Service` a date or a server list is good or malformed; `Device` has the detail.
- SHA-1, Base64, `element_text` and the scan of a token's time: bit and text functions
  whose outcome `Wsse!Token` holds (the conversion of that time to a day number
  is in `Calendar`); the unit tests check them by vectors.
- The contents of read-only answers, except the date, the scopes, which endpoints
  they advertise and which pointers they follow.
- mDNS, the example, the probe tool, the host stubs.
- The window between the end of a task and the freeing of its control block,
  and what lwIP does with a group membership on an address that is gone: they
  are properties of FreeRTOS and lwIP.

## 6. Plan

1. Done: ring, events, discovery with its messages, services and
   authentication, time configuration and answers; their proofs, the two
   refinements included.
2. A composition of `Events` and `Service` on one httpd task and one clock: a
   SetSystemDateAndTime request is the clock step that expires a subscription.
3. Proofs still open: none but liveness. With the composition, that an accepted
   SetSystemDateAndTime is the only step of httpd that can shorten a subscription.

## 7. Running it

    tlc -workers 2 -config EventsSafety.cfg MCEvents.tla
    tlapm EventsProofs.tla

`PROJECT.json` lists each run with its module and configuration, the mutations of
the model by which each property is known to be violable, the findings, the
hazards and the theorems.
