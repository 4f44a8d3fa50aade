-------------------------------- MODULE Events --------------------------------
(***************************************************************************)
(* The Pull-Point events service, esp_idf/onvif_c_events.c: one            *)
(* subscription slot and its event ring, both guarded by one mutex, shared *)
(* by the httpd task (the SOAP handlers, one request at a time) and by any *)
(* number of motion producers (onvif_c_motion, called from sensor          *)
(* callbacks, which may not block). Deadlines are wall-clock times taken   *)
(* with time(NULL): before the mutex is taken in the handlers, under it in *)
(* the producers.                                                          *)
(***************************************************************************)
EXTENDS EventRing, FiniteSetsExt

CONSTANTS
    Producers,       \* the tasks that call onvif_c_motion
    PullMax,         \* ONVIF_EV_PULL_MAX
    Lifetime,        \* SUB_LIFETIME_S
    IdleTimeout,     \* SUB_IDLE_TIMEOUT_S
    RespMax,         \* ONVIF_EV_RESP_MAX
    OpenLen,         \* bytes onvif_xml_pull_open writes
    EventLen,        \* bytes onvif_xml_pull_event writes, at most
    CloseLen,        \* bytes onvif_xml_pull_close writes
    Bodies,          \* request bodies: the set of action names each mentions
    MessageLimits,   \* what atoi makes of a MessageLimit; 0 stands for none too
    ClockSteps,      \* wall-clock times SNTP or SetSystemDateAndTime may set
    MaxUptime,       \* bound on the passing of time
    MaxMotions,      \* bound on the calls of onvif_c_motion
    MaxSubs          \* bound on the subscriptions ever created

ASSUME EventsAssumption ==
    /\ PullMax \in Nat \ {0}
    /\ Lifetime \in Nat /\ IdleTimeout \in Nat
    /\ RespMax \in Nat /\ OpenLen \in Nat /\ EventLen \in Nat /\ CloseLen \in Nat
    /\ MessageLimits \subseteq Int /\ ClockSteps \subseteq Int
    /\ MaxUptime \in Nat /\ MaxMotions \in Nat /\ MaxSubs \in Nat
    /\ Producers \cap {"null", "free", "httpd"} = {}

VARIABLES
    mtx,               \* s_ev.mtx: "null", "free", or its holder
    sub_valid, sub_termination, sub_last_pull, ring,    \* the rest of s_ev
    \* the httpd task: where its request stands, and the handler's locals
    pc, op, now, limit, alive,
    off,               \* bytes of resp written; RespMax or more once truncated
    out,               \* the events in resp
    heap,              \* calls of malloc less calls of free, for each block
    \* the producers and the rest of the device
    mpc,               \* where each producer's call of onvif_c_motion stands
    served,            \* is the URI handler registered with httpd?
    clock,             \* time(NULL)
    uptime,            \* seconds since boot: the clock nobody sets
    \* history
    motions,           \* calls of onvif_c_motion
    subs,              \* subscriptions created: the number of the current one
    received,          \* every event a client has received, in order
    read_at,           \* uptime at which the request read the time, `now`
    contact,           \* read_at of the last creation or pull, and
    renewed            \* of the last creation or renewal

subVars == <<sub_valid, sub_termination, sub_last_pull, subs, contact, renewed>>
pullVars == <<limit, off, out>>
handlerVars == <<pc, op, now, read_at, alive, heap, received>>
otherVars == <<mpc, motions, served, clock, uptime>>
vars == <<mtx, subVars, ring, pullVars, handlerVars, otherVars>>

(* An event as the ring stores it. The ordinal n stands for the payload    *)
(* (active, score), which everyone copies and nobody reads; sub is history *)
(* again: the subscription the event was queued for.                       *)
MotionEvent == [sub : Nat, n : Nat, utc : Int]

-----------------------------------------------------------------------------
(* The handler tests the body with strstr for one action name after the    *)
(* other: the first name of this list mentioned anywhere in the body wins. *)
Actions == <<"CreatePullPointSubscription", "PullMessages", "Renew", "Unsubscribe",
             "GetEventProperties", "GetServiceCapabilities", "SetSynchronizationPoint">>

Dispatch(mentions) ==
    LET found == {i \in DOMAIN Actions : Actions[i] \in mentions}
    IN  IF found = {} THEN "unsupported" ELSE Actions[Min(found)]

(* MessageLimit only ever lowers the cap; zero, garbage and large values   *)
(* fall back to it.                                                        *)
UncappedLimit(v) == IF 0 < v THEN v ELSE PullMax    \* mutant

PullLimit(v) == IF 0 < v /\ v < PullMax THEN v ELSE PullMax

sub_alive ==
    /\ sub_valid
    /\ now <= sub_termination
    /\ now - sub_last_pull <= IdleTimeout

(* What a request allocates: its body, and the buffer of its answer. The   *)
(* answers built on the stack (faults, creation, renewal) allocate nothing. *)
Blocks == {"body", "resp"}

malloc(b) == heap' = [heap EXCEPT ![b] = @ + 1]

free(b) == heap' = [heap EXCEPT ![b] = @ - 1]

Init ==
    /\ mtx = "null"
    /\ sub_valid = FALSE /\ sub_termination = 0 /\ sub_last_pull = 0 /\ ring = ZeroRing
    /\ pc = "idle" /\ op = "none" /\ now = 0 /\ alive = FALSE
    /\ limit = PullMax /\ off = 0 /\ out = << >>
    /\ heap = [b \in Blocks |-> 0]
    /\ mpc = [p \in Producers |-> "idle"] /\ served = FALSE
    /\ clock = 0 /\ uptime = 0 /\ motions = 0 /\ subs = 0 /\ received = << >>
    /\ read_at = 0 /\ contact = 0 /\ renewed = 0

(* onvif_c_start registers the URI: the mutex is created once; registering *)
(* may then fail, and a later start tries again. When the mutex cannot be  *)
(* created nothing changes.                                                *)
onvif_c_events_register ==
    /\ ~served
    /\ mtx' = IF mtx = "null" THEN "free" ELSE mtx
    /\ served' \in BOOLEAN
    /\ UNCHANGED <<subVars, ring, pullVars, handlerVars, mpc, motions, clock, uptime>>

-----------------------------------------------------------------------------
(* The httpd task. ev_read_body: a request without a body, with too large  *)
(* a one, or when there is no memory for it, gets a fault and changes      *)
(* nothing: no action stands for it.                                       *)
ReadBody ==
    /\ pc = "idle" /\ served
    /\ malloc("body")
    /\ pc' = "receive"
    /\ UNCHANGED <<mtx, subVars, ring, pullVars, op, now, read_at, alive, received, otherVars>>

ReceiveFails ==
    /\ pc = "receive"
    /\ free("body")
    /\ pc' = "idle"
    /\ UNCHANGED <<mtx, subVars, ring, pullVars, op, now, read_at, alive, received, otherVars>>

BodyReceived ==
    /\ pc = "receive"
    /\ pc' = "gate"
    /\ UNCHANGED <<mtx, subVars, ring, pullVars, op, now, read_at, alive, heap, received,
                   otherVars>>

(* The gate has answered; the handler returns at once.                     *)
GateRefuses ==
    /\ pc = "gate"
    /\ free("body")
    /\ pc' = "idle"
    /\ UNCHANGED <<mtx, subVars, ring, pullVars, op, now, read_at, alive, received, otherVars>>

(* The gate lets the request pass. Create, pull and renew go on to read    *)
(* the clock, unsubscribe to wait for the mutex; the rest touch no state.  *)
BeginRequest(mentions, v) ==
    LET action == Dispatch(mentions) IN
    /\ pc = "gate"
    /\ action = "CreatePullPointSubscription" => subs < MaxSubs
    /\ op' = action
    /\ pc' = CASE action \in {Actions[1], Actions[2], Actions[3]} -> "now"
               [] action = "Unsubscribe" -> "lock"
               [] action = "unsupported" -> "end"
               [] OTHER -> "static"
    /\ limit' = IF action = "PullMessages" THEN PullLimit(v) ELSE PullMax
    /\ UNCHANGED <<mtx, subVars, ring, off, out, now, read_at, alive, heap, received, otherVars>>

(* A fixed answer, EV_RESP, from a block of its own. Without memory for it *)
(* the macro returns from the handler, past the free of the body there.    *)
BuildStatic ==
    /\ pc = "static"
    /\ malloc("resp")
    /\ pc' = "send"
    /\ UNCHANGED <<mtx, subVars, ring, pullVars, op, now, read_at, alive, received, otherVars>>

ReturnOutOfMemory ==    \* mutant: EV_RESP without the free
    /\ pc = "static"
    /\ pc' = "idle" /\ op' = "none"
    /\ UNCHANGED <<mtx, subVars, ring, pullVars, now, read_at, alive, heap, received, otherVars>>

StaticOutOfMemory ==
    /\ pc = "static"
    /\ free("body")
    /\ pc' = "idle" /\ op' = "none"
    /\ UNCHANGED <<mtx, subVars, ring, pullVars, now, read_at, alive, received, otherVars>>

SendStatic ==
    /\ pc = "send"
    /\ free("resp")
    /\ pc' = "end"
    /\ UNCHANGED <<mtx, subVars, ring, pullVars, op, now, read_at, alive, received, otherVars>>

(* The action's handler returns to the dispatcher; its locals end with it. *)
HandlerReturns ==
    /\ pc' = "end"
    /\ now' = 0 /\ read_at' = 0 /\ alive' = FALSE
    /\ limit' = PullMax /\ off' = 0 /\ out' = << >>
    /\ UNCHANGED <<mtx, subVars, ring, op, otherVars>>

(* The end of the dispatcher, free(body) and return.                       *)
Finish ==
    /\ pc = "end"
    /\ free("body")
    /\ pc' = "idle" /\ op' = "none"
    /\ UNCHANGED <<mtx, subVars, ring, pullVars, now, read_at, alive, received, otherVars>>

(* The time is read before the mutex is taken; a pull also allocates its   *)
(* response and opens it.                                                  *)
ReadNow ==
    /\ pc = "now"
    /\ pc' = "lock" /\ now' = clock /\ read_at' = uptime
    /\ IF op = "PullMessages" THEN malloc("resp") /\ off' = OpenLen
                              ELSE UNCHANGED <<heap, off>>
    /\ UNCHANGED <<mtx, subVars, ring, limit, out, op, alive, received, otherVars>>

PullOutOfMemory ==
    /\ pc = "now" /\ op = "PullMessages"
    /\ HandlerReturns
    /\ UNCHANGED <<heap, received>>

(* xSemaphoreTake(mtx, portMAX_DELAY)                                      *)
Lock ==
    /\ pc = "lock" /\ mtx = "free"
    /\ mtx' = "httpd"
    /\ pc' = "cs"
    /\ UNCHANGED <<subVars, ring, pullVars, op, now, read_at, alive, heap, received, otherVars>>

KeepLocked == UNCHANGED mtx /\ pc' = "reply"    \* mutant

Unlock == mtx' = "free" /\ pc' = "reply"

(* The critical section of handle_create_pull_point: a new subscription    *)
(* replaces the one there was, with an empty ring.                         *)
CreatePullPoint ==
    /\ pc = "cs" /\ op = "CreatePullPointSubscription"
    /\ sub_valid' = TRUE
    /\ sub_termination' = now + Lifetime
    /\ sub_last_pull' = now
    /\ ring' = Reset(ring)
    /\ alive' = TRUE
    /\ Unlock
    /\ subs' = subs + 1 /\ contact' = read_at /\ renewed' = read_at
    /\ UNCHANGED <<pullVars, op, now, read_at, heap, received, otherVars>>

(* handle_pull_messages and handle_renew close a subscription they find    *)
(* expired. A renewal restarts the lifetime, a pull the idle timeout.      *)
RefuseExpired ==
    /\ pc = "cs" /\ op \in {"PullMessages", "Renew"} /\ ~sub_alive
    /\ sub_valid' = FALSE
    /\ Unlock
    /\ UNCHANGED <<sub_termination, sub_last_pull, subs, contact, renewed, ring, pullVars, op,
                   now, read_at, alive, heap, received, otherVars>>

RenewAll ==    \* mutant: a renewal restarts the idle timeout too
    /\ pc = "cs" /\ op = "Renew" /\ sub_alive
    /\ sub_termination' = now + Lifetime /\ sub_last_pull' = now
    /\ alive' = TRUE
    /\ Unlock
    /\ renewed' = read_at
    /\ UNCHANGED <<sub_valid, subs, contact, ring, pullVars, op, now, read_at, heap, received,
                   otherVars>>

Renew ==
    /\ pc = "cs" /\ op = "Renew" /\ sub_alive
    /\ sub_termination' = now + Lifetime
    /\ alive' = TRUE
    /\ Unlock
    /\ renewed' = read_at
    /\ UNCHANGED <<sub_valid, sub_last_pull, subs, contact, ring, pullVars, op, now, read_at,
                   heap, received, otherVars>>

PullUncounted ==    \* mutant: a pull does not restart the idle timeout
    /\ pc = "cs" /\ op = "PullMessages" /\ sub_alive
    /\ alive' = TRUE
    /\ pc' = "pop"
    /\ contact' = read_at
    /\ UNCHANGED <<mtx, sub_valid, sub_termination, sub_last_pull, subs, renewed, ring,
                   pullVars, op, now, read_at, heap, received, otherVars>>

PullMessages ==
    /\ pc = "cs" /\ op = "PullMessages" /\ sub_alive
    /\ sub_last_pull' = now
    /\ alive' = TRUE
    /\ pc' = "pop"
    /\ contact' = read_at
    /\ UNCHANGED <<mtx, sub_valid, sub_termination, subs, renewed, ring, pullVars, op, now,
                   read_at, heap, received, otherVars>>

(* The loop of handle_pull_messages. An event that does not fit has left   *)
(* the ring already.                                                       *)
MoreToPull == off < RespMax /\ Len(out) < limit /\ CanPop(ring)

PopEvent ==
    /\ pc = "pop" /\ MoreToPull
    /\ ring' = Pop(ring)
    /\ IF EventLen < RespMax - off
       THEN off' = off + EventLen /\ out' = Append(out, Oldest(ring))
       ELSE off' = RespMax /\ UNCHANGED out
    /\ UNCHANGED <<mtx, subVars, limit, handlerVars, otherVars>>

EndPull ==
    /\ pc = "pop" /\ ~MoreToPull
    /\ Unlock
    /\ UNCHANGED <<subVars, ring, pullVars, op, now, read_at, alive, heap, received, otherVars>>

(* handle_unsubscribe acknowledges whether or not there was anything.      *)
Unsubscribe ==
    /\ pc = "cs" /\ op = "Unsubscribe"
    /\ sub_valid' = FALSE
    /\ alive' = TRUE
    /\ Unlock
    /\ UNCHANGED <<sub_termination, sub_last_pull, subs, contact, renewed, ring, pullVars, op,
                   now, read_at, heap, received, otherVars>>

(* After the mutex is given. Creation, renewal and unsubscription answer,  *)
(* or fault, without a block of their own.                                 *)
Acknowledge ==
    /\ pc = "reply" /\ op # "PullMessages"
    /\ HandlerReturns
    /\ UNCHANGED <<heap, received>>

(* A pull ends in one of four ways, each with a free of its own. Where it  *)
(* does not fit, or its send fails, the events it popped are lost.         *)
Truncated == off >= RespMax

Overflows == op = "PullMessages" /\ CloseLen >= RespMax - off

AnswerExpired ==
    /\ pc = "reply" /\ op = "PullMessages" /\ ~alive
    /\ free("resp")
    /\ HandlerReturns
    /\ UNCHANGED received

KeepTruncated ==    \* mutant: the fault of a truncated answer without the free
    /\ pc = "reply" /\ op = "PullMessages" /\ alive /\ Truncated
    /\ HandlerReturns
    /\ UNCHANGED <<heap, received>>

AnswerTruncated ==
    /\ pc = "reply" /\ op = "PullMessages" /\ alive /\ Truncated
    /\ free("resp")
    /\ HandlerReturns
    /\ UNCHANGED received

AnswerUnclosed ==
    /\ pc = "reply" /\ op = "PullMessages" /\ alive /\ ~Truncated /\ Overflows
    /\ free("resp")
    /\ HandlerReturns
    /\ UNCHANGED received

AnswerPull ==
    /\ pc = "reply" /\ op = "PullMessages" /\ alive /\ ~Overflows
    /\ received' \in {received, received \o out}
    /\ free("resp")
    /\ HandlerReturns

-----------------------------------------------------------------------------
(* The motion producers. Before the lock: without a mutex, or when the     *)
(* host's events_enabled says no, onvif_c_motion returns.                  *)
Motion(p) ==
    /\ mpc[p] = "idle" /\ motions < MaxMotions
    /\ motions' = motions + 1
    /\ \/ mtx # "null" /\ mpc' = [mpc EXCEPT ![p] = "try"]
       \/ UNCHANGED mpc
    /\ UNCHANGED <<mtx, subVars, ring, pullVars, handlerVars, served, clock, uptime>>

(* Mutants: a lock taken whoever holds it, and one waited for.             *)
LockAnyway(p) ==
    /\ mpc[p] = "try"
    /\ mtx' = p /\ mpc' = [mpc EXCEPT ![p] = "locked"]
    /\ UNCHANGED <<subVars, ring, pullVars, handlerVars, motions, served, clock, uptime>>

WaitForLock(p) == mtx = "free" /\ LockAnyway(p)

(* xSemaphoreTake(mtx, 0): contention drops the event.                     *)
TryLock(p) ==
    /\ mpc[p] = "try"
    /\ IF mtx = "free"
       THEN mtx' = p /\ mpc' = [mpc EXCEPT ![p] = "locked"]
       ELSE mpc' = [mpc EXCEPT ![p] = "idle"] /\ UNCHANGED mtx
    /\ UNCHANGED <<subVars, ring, pullVars, handlerVars, motions, served, clock, uptime>>

NewEvent == [sub |-> subs, n |-> ring.generated + 1, utc |-> clock]

(* Queue the event if there is a subscription, timed under the mutex.      *)
PushMotion(p) ==
    /\ mpc[p] = "locked"
    /\ ring' = IF sub_valid THEN Push(ring, NewEvent) ELSE ring
    /\ mtx' = "free"
    /\ mpc' = [mpc EXCEPT ![p] = "idle"]
    /\ UNCHANGED <<subVars, pullVars, handlerVars, motions, served, clock, uptime>>

(* Reads without the mutex.                                                *)
onvif_c_events_subscribed == mtx # "null" /\ sub_valid

-----------------------------------------------------------------------------
(* A second passes.                                                        *)
Tick ==
    /\ uptime < MaxUptime
    /\ uptime' = uptime + 1 /\ clock' = clock + 1
    /\ UNCHANGED <<mtx, subVars, ring, pullVars, handlerVars, mpc, motions, served>>

(* SNTP, or SetSystemDateAndTime through time_apply, sets the wall clock.  *)
StepClock(t) ==
    /\ clock' = t
    /\ UNCHANGED <<mtx, subVars, ring, pullVars, handlerVars, mpc, motions, served, uptime>>

-----------------------------------------------------------------------------
Admit == ReceiveFails \/ BodyReceived \/ GateRefuses

Dispatched == \E m \in Bodies, v \in MessageLimits : BeginRequest(m, v)

Static == BuildStatic \/ StaticOutOfMemory \/ SendStatic

Answer == Acknowledge \/ AnswerExpired \/ AnswerTruncated \/ AnswerUnclosed \/ AnswerPull

(* events_service_handler, once it has a body                              *)
Handle ==
    \/ Admit \/ Dispatched \/ Static \/ ReadNow \/ PullOutOfMemory \/ Lock
    \/ CreatePullPoint \/ RefuseExpired \/ Renew \/ PullMessages \/ PopEvent \/ EndPull
    \/ Unsubscribe \/ Answer \/ Finish

Produce(p) == TryLock(p) \/ PushMotion(p)

Environment == Tick \/ \E t \in ClockSteps : StepClock(t)

Next ==
    \/ onvif_c_events_register
    \/ ReadBody
    \/ Handle
    \/ \E p \in Producers : Motion(p) \/ Produce(p)
    \/ Environment

Spec == Init /\ [][Next]_vars

(* A producer inside onvif_c_motion keeps running; the httpd task, which   *)
(* may hold the mutex, need not.                                           *)
ProducersRun == \A p \in Producers : WF_vars(Produce(p))

ProducerSpec == Spec /\ ProducersRun

(* The httpd task keeps running, and its wait for a mutex that is given    *)
(* again and again ends: the kernel wakes the waiter at each give.         *)
HttpdRuns == WF_vars(Handle) /\ SF_vars(Lock)
=============================================================================
