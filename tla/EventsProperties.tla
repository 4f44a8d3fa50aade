--------------------------- MODULE EventsProperties ---------------------------
(***************************************************************************)
(* What the events service must do: the properties of module Events.       *)
(***************************************************************************)
EXTENDS Events

ActionNames == {Actions[i] : i \in DOMAIN Actions}

ServiceType ==
    /\ mtx \in {"null", "free", "httpd"} \cup Producers
    /\ sub_valid \in BOOLEAN /\ sub_termination \in Int /\ sub_last_pull \in Int
    /\ ring \in Ring(MotionEvent)

HandlerType ==
    /\ pc \in {"idle", "receive", "gate", "static", "send", "now", "lock", "cs", "pop",
               "reply", "end"}
    /\ op \in {"none", "unsupported"} \cup ActionNames
    /\ now \in Int /\ limit \in 1 .. PullMax /\ alive \in BOOLEAN
    /\ off \in Nat /\ out \in Seq(MotionEvent) /\ heap \in [Blocks -> Int]

DeviceType ==
    /\ mpc \in [Producers -> {"idle", "try", "locked"}]
    /\ served \in BOOLEAN /\ clock \in Int /\ uptime \in Nat
    /\ motions \in Nat /\ subs \in Nat /\ received \in Seq(MotionEvent)
    /\ read_at \in Nat /\ contact \in Nat /\ renewed \in Nat

TypeOK == ServiceType /\ HandlerType /\ DeviceType

-----------------------------------------------------------------------------
(* The mutex has one holder, the one its pc says, and the handlers' steps  *)
(* are where their action puts them. Nothing is served before there is a mutex.  *)
LockDiscipline ==
    /\ mtx = "httpd" <=> pc \in {"cs", "pop"}
    /\ \A p \in Producers : mpc[p] = "locked" <=> mtx = p
    /\ mtx = "null" => \A p \in Producers : mpc[p] = "idle"
    /\ served \/ pc # "idle" => mtx # "null"

(* The k-th event of the ring is the (generated - count + k)-th motion     *)
(* queued for the current subscription: nothing of a former subscription,  *)
(* no gap, no reordering, whatever mix of pushes by the producers, pulls,  *)
(* expiry and replacement led here.                                        *)
RingIsRecent ==
    \A k \in 1 .. ring.count :
        /\ Contents(ring)[k].sub = subs
        /\ Contents(ring)[k].n = ring.generated - ring.count + k

(* e was queued before f.                                                  *)
Before(e, f) == e.sub < f.sub \/ (e.sub = f.sub /\ e.n < f.n)

(* Clients receive each event at most once, and in the order queued:       *)
(* across pulls, lost answers, replaced subscriptions and full rings. The  *)
(* events received, those being answered and those queued form one line.   *)
DeliveredInOrder ==
    LET line == received \o out \o Contents(ring)
    IN  \A i, j \in 1 .. Len(line) : i < j => Before(line[i], line[j])

(* The timestamps of the events a client receives never run backwards, as  *)
(* long as nobody sets the clock back: a producer times its event under    *)
(* the mutex, not when it was called.                                      *)
TimestampsInOrder ==
    LET line == received \o out \o Contents(ring)
    IN  \A i, j \in 1 .. Len(line) : i < j => line[i].utc <= line[j].utc

(* PULL_MAX events always fit the response: no pull loses its events to a  *)
(* response overflow.                                                      *)
PullNeverOverflows == pc \in {"pop", "reply"} => ~Overflows

(* Memory, over every path a request can take: receive error, refusal,     *)
(* fixed answer, lack of memory, an expired pull, one that was truncated,  *)
(* could not be closed, or was sent. No block is freed twice or its        *)
(* pointer lost; none is left when the request ends; and the buffers are   *)
(* there as long as the handler reads the body or writes and sends the     *)
(* answer.                                                                 *)
NoLeak ==
    /\ \A b \in Blocks : heap[b] \in {0, 1}
    /\ pc = "idle" => \A b \in Blocks : heap[b] = 0
    /\ pc \in {"receive", "gate"} => heap["body"] = 1
    /\ pc = "send" \/ (op = "PullMessages" /\ pc \in {"pop", "reply"}) => heap["resp"] = 1

(* Nobody outlives a deadline: a subscription is pulled or renewed only    *)
(* within IdleTimeout seconds of its last pull and within Lifetime of its  *)
(* last renewal (its creation counting as both), in the time of the clock  *)
(* that nobody sets. It stays sub_valid, and collects motions, until a     *)
(* request looks; none of those reaches anyone. A renewal is no pull, and  *)
(* a pull no renewal. The wall clock is left alone.                        *)
ServedWhileAlive ==
    [][ PullMessages \/ Renew =>
            read_at - contact <= IdleTimeout /\ read_at - renewed <= Lifetime ]_vars

(* And nobody is cut off early: a subscription ends, other than by         *)
(* Unsubscribe, only through a request that came more than IdleTimeout     *)
(* seconds after its last pull or more than Lifetime after its last        *)
(* renewal.                                                                *)
ExpiryTakesTime ==
    [][ sub_valid /\ ~sub_valid' /\ op # "Unsubscribe" =>
            read_at - contact > IdleTimeout \/ read_at - renewed > Lifetime ]_vars

(* The service is a Pull-Point: an ended or replaced subscription takes    *)
(* its queue with it, although the ring is not cleared when one ends, and  *)
(* a pull moves events from the queue to one answer.                       *)
Promised == INSTANCE PullPoint WITH
    Event <- MotionEvent,
    subscribed <- onvif_c_events_subscribed,
    queue <- IF sub_valid THEN Contents(ring) ELSE << >>,
    batch <- out

ImplementsPullPoint == Promised!Spec

(* onvif_c_motion never waits for the httpd task, which may hold the mutex *)
(* for as long as it likes: every call returns though only producers run.  *)
MotionReturns == \A p \in Producers : mpc[p] # "idle" ~> mpc[p] = "idle"

(* When the httpd task runs too, every request is answered, however the    *)
(* producers contend for the mutex.                                        *)
RequestsAnswered == HttpdRuns => (pc # "idle" ~> pc = "idle")

=============================================================================
