------------------------- MODULE EventsDeliveryProofs -------------------------
(***************************************************************************)
(* What clients of the events service receive: the events they are sent,   *)
(* in the order queued and each at most once; a response that always has   *)
(* room for them when the buffer is large enough; the service as an        *)
(* implementation of PullPoint; and, as long as nobody sets the clock, the *)
(* order of the timestamps and the times of expiry.                        *)
(***************************************************************************)
EXTENDS EventsProofs

(* The events that left the ring and were not lost with a failed answer.   *)
Delivered == received \o out

(* e left the ring r of subscription s, or belongs to a former one.        *)
Left(e, s, r) == e.sub < s \/ (e.sub = s /\ e.n <= Gone(r))

InOrder(s) == \A i, j \in 1 .. Len(s) : i < j => Before(s[i], s[j])

DeliveryInv ==
    /\ \A i \in 1 .. Len(Delivered) : Left(Delivered[i], subs, ring)
    /\ InOrder(Delivered)

LEMMA EventFields ==
    ASSUME NEW s \in Seq(MotionEvent), NEW i \in 1 .. Len(s)
    PROVE  s[i].sub \in Nat /\ s[i].n \in Nat
  <1>1. s[i] \in MotionEvent
    OBVIOUS
  <1>2. QED
    BY <1>1 DEF MotionEvent

LEMMA DeliveredType == IInv => Delivered \in Seq(MotionEvent)
  BY DEF IInv, TypeOK, HandlerType, DeviceType, Delivered

(* What is delivered comes before what is queued.                          *)
LEMMA DeliveryOrders == IInv /\ DeliveryInv => DeliveredInOrder
  <1> SUFFICES ASSUME IInv, DeliveryInv PROVE DeliveredInOrder
    OBVIOUS
  <1> DEFINE c == Contents(ring)
             line == Delivered \o c
  <1>1. /\ ring \in Ring(MotionEvent) /\ Filled(ring, MotionEvent)
        /\ ring.count \in Nat /\ ring.generated \in Nat /\ ring.count <= ring.generated
    BY DEF IInv, RecentRing, Ring
  <1>2. c \in Seq(MotionEvent) /\ Len(c) = ring.count
    BY <1>1, ContentsType
  <1>3. Delivered \in Seq(MotionEvent) /\ Len(Delivered) \in Nat
    BY DeliveredType
  <1>4. subs \in Nat /\ Gone(ring) \in Int
    BY <1>1 DEF IInv, TypeOK, DeviceType, Gone
  <1>5. ASSUME NEW i \in 1 .. Len(line), NEW j \in 1 .. Len(line), i < j
        PROVE  Before(line[i], line[j])
    <2> DEFINE a == i - Len(Delivered)
               b == j - Len(Delivered)
    <2>1. Len(line) = Len(Delivered) + Len(c)
      BY <1>2, <1>3
    <2>2. CASE j <= Len(Delivered)
      <3>1. line[i] = Delivered[i] /\ line[j] = Delivered[j]
        BY <1>2, <1>3, <1>5, <2>2
      <3>2. i \in 1 .. Len(Delivered) /\ j \in 1 .. Len(Delivered)
        BY <1>3, <1>5, <2>2
      <3>3. QED
        BY <1>5, <3>1, <3>2 DEF DeliveryInv, InOrder
    <2>3. CASE i <= Len(Delivered) /\ Len(Delivered) < j
      <3>1. line[i] = Delivered[i] /\ line[j] = c[b] /\ b \in 1 .. ring.count
        BY <1>2, <1>3, <1>5, <2>1, <2>3
      <3>2. i \in 1 .. Len(Delivered)
        BY <1>3, <1>5, <2>3
      <3>3. Left(Delivered[i], subs, ring)
        BY <3>2 DEF DeliveryInv
      <3>4. c[b].sub = subs /\ c[b].n = Gone(ring) + b
        BY <3>1 DEF IInv, RecentRing, Gone
      <3>5. Delivered[i].n \in Int
        BY <1>3, <3>2, EventFields
      <3>6. Delivered[i].n <= Gone(ring) => Delivered[i].n < Gone(ring) + b
        BY <1>4, <3>1, <3>5
      <3>7. QED
        BY <3>1, <3>3, <3>4, <3>6 DEF Left, Before
    <2>4. CASE Len(Delivered) < i
      <3>1. line[i] = c[a] /\ a \in 1 .. ring.count
        BY <1>2, <1>3, <1>5, <2>1, <2>4
      <3>2. line[j] = c[b] /\ b \in 1 .. ring.count
        BY <1>2, <1>3, <1>5, <2>1, <2>4
      <3>3. /\ c[a].sub = subs /\ c[a].n = Gone(ring) + a
            /\ c[b].sub = subs /\ c[b].n = Gone(ring) + b
        BY <3>1, <3>2 DEF IInv, RecentRing, Gone
      <3>4. Gone(ring) + a < Gone(ring) + b
        BY <1>3, <1>4, <1>5
      <3>5. QED
        BY <3>1, <3>2, <3>3, <3>4 DEF Before
    <2>5. QED
      BY <1>3, <1>5, <2>2, <2>3, <2>4
  <1>6. line = received \o out \o c
    BY DEF Delivered
  <1>7. QED
    BY <1>5, <1>6 DEF DeliveredInOrder

-----------------------------------------------------------------------------
(* Three ways to keep the deliveries in order: more events leave the ring  *)
(* or a new subscription starts; the answer is lost; one event is popped.  *)
LEMMA DeliveryKept ==
    ASSUME IInv, IInv', DeliveryInv, Delivered' = Delivered,
           subs' > subs \/ (subs' = subs /\ Gone(ring') >= Gone(ring))
    PROVE  DeliveryInv'
  <1>1. Delivered \in Seq(MotionEvent) /\ subs \in Nat /\ subs' \in Nat
    BY DeliveredType DEF IInv, TypeOK, DeviceType
  <1>2. Gone(ring) \in Int /\ Gone(ring') \in Int
    BY DEF IInv, RecentRing, Ring, Gone
  <1>3. ASSUME NEW i \in 1 .. Len(Delivered) PROVE Left(Delivered[i], subs', ring')
    <2>1. Left(Delivered[i], subs, ring)
      BY DEF DeliveryInv
    <2>2. Delivered[i].sub \in Int /\ Delivered[i].n \in Int
      BY <1>1, EventFields
    <2>3. QED
      BY <1>1, <1>2, <2>1, <2>2 DEF Left
  <1>4. QED
    BY <1>3 DEF DeliveryInv, InOrder

LEMMA DeliveryLost ==
    ASSUME IInv, DeliveryInv, subs' = subs, ring' = ring,
           received' = received, out' = << >>
    PROVE  DeliveryInv'
  <1>1. received \in Seq(MotionEvent) /\ out \in Seq(MotionEvent)
    BY DEF IInv, TypeOK, HandlerType, DeviceType
  <1>2. Delivered' = received
    BY <1>1 DEF Delivered
  <1>3. Len(received) \in Nat /\ Len(received) <= Len(Delivered)
    BY <1>1 DEF Delivered
  <1>4. \A i \in 1 .. Len(received) : i \in 1 .. Len(Delivered) /\ received[i] = Delivered[i]
    BY <1>1, <1>3 DEF Delivered
  <1>5. \A i \in 1 .. Len(received) : Left(received[i], subs', ring')
    BY <1>4 DEF DeliveryInv, Left, Gone
  <1>6. InOrder(received)
    BY <1>4 DEF DeliveryInv, InOrder
  <1>7. QED
    BY <1>2, <1>5, <1>6 DEF DeliveryInv, InOrder

LEMMA DeliveryPopped ==
    ASSUME IInv, DeliveryInv, CanPop(ring), subs' = subs, ring' = Pop(ring),
           received' = received, out' = Append(out, Oldest(ring))
    PROVE  DeliveryInv'
  <1> DEFINE d == Delivered
             e == Oldest(ring)
             n == Len(d) + 1
  <1>1. /\ Gone(ring) \in Nat /\ Gone(ring') = Gone(ring) + 1
        /\ e \in MotionEvent /\ e.sub = subs /\ e.n = Gone(ring) + 1
    BY RecentAfterPop DEF IInv, Gone
  <1>2. received \in Seq(MotionEvent) /\ out \in Seq(MotionEvent) /\ d \in Seq(MotionEvent)
    BY DeliveredType DEF IInv, TypeOK, HandlerType, DeviceType
  <1>3. Delivered' = Append(d, e)
    BY <1>1, <1>2 DEF Delivered
  <1>4. /\ Len(d) \in Nat /\ Len(Append(d, e)) = n /\ Append(d, e)[n] = e
        /\ \A i \in 1 .. Len(d) : Append(d, e)[i] = d[i]
    BY <1>1, <1>2
  <1>5. ASSUME NEW i \in 1 .. Len(d) PROVE Left(d[i], subs', ring') /\ Before(d[i], e)
    <2>1. Left(d[i], subs, ring)
      BY DEF DeliveryInv
    <2>2. d[i].sub \in Int /\ d[i].n \in Int
      BY <1>2, EventFields
    <2>3. QED
      BY <1>1, <2>1, <2>2 DEF Left, Before
  <1>6. Left(e, subs', ring')
    BY <1>1 DEF Left
  <1>7. \A i \in 1 .. n : i \in 1 .. Len(d) \/ i = n
    BY <1>4
  <1>8. InOrder(Append(d, e))
    <2> SUFFICES ASSUME NEW i \in 1 .. n, NEW j \in 1 .. n, i < j
                 PROVE  Before(Append(d, e)[i], Append(d, e)[j])
      BY <1>4 DEF InOrder
    <2>1. i \in 1 .. Len(d)
      BY <1>4
    <2>2. CASE j = n
      BY <1>4, <1>5, <2>1, <2>2
    <2>3. CASE j # n
      <3>1. j \in 1 .. Len(d)
        BY <1>7, <2>3
      <3>2. QED
        BY <1>4, <2>1, <3>1 DEF DeliveryInv, InOrder
    <2>4. QED
      BY <2>2, <2>3
  <1>9. \A i \in 1 .. n : Left(Append(d, e)[i], subs', ring')
    BY <1>4, <1>5, <1>6, <1>7, <1>3
  <1>10. QED
    BY <1>3, <1>4, <1>8, <1>9 DEF DeliveryInv, InOrder

LEMMA DeliveryInit == Init => DeliveryInv
  <1> SUFFICES ASSUME Init PROVE DeliveryInv
    OBVIOUS
  <1>1. Len(Delivered) = 0
    BY DEF Init, Delivered
  <1>2. QED
    BY <1>1 DEF DeliveryInv, InOrder

(* Most steps keep the subscription, the ring and what is delivered.       *)
LEMMA DeliveryUntouched ==
    ASSUME IInv, IInv', DeliveryInv, UNCHANGED <<subs, ring, received, out>>
    PROVE  DeliveryInv'
  <1>1. Delivered' = Delivered /\ subs' = subs /\ Gone(ring') = Gone(ring)
    BY DEF Delivered
  <1>2. Gone(ring) \in Int
    BY DEF IInv, RecentRing, Ring, Gone
  <1>3. QED
    BY <1>1, <1>2, DeliveryKept

(* Reading a body, dispatching it, fixed answers and the end of a request  *)
(* are no business of the subscription.                                    *)
Elsewhere == ReadBody \/ Admit \/ Dispatched \/ Static \/ Finish

LEMMA ElsewhereUntouched ==
    ASSUME Elsewhere
    PROVE  UNCHANGED <<mtx, subVars, ring, out, now, read_at, received, otherVars>>
  <1> USE DEF pullVars
  <1>1. CASE ReadBody \/ Finish
    BY <1>1 DEF ReadBody, Finish
  <1>2. CASE Admit
    BY <1>2 DEF Admit, ReceiveFails, BodyReceived, GateRefuses
  <1>3. CASE Dispatched
    BY <1>3 DEF Dispatched, BeginRequest
  <1>4. CASE Static
    BY <1>4 DEF Static, BuildStatic, StaticOutOfMemory, SendStatic
  <1>5. QED
    BY <1>1, <1>2, <1>3, <1>4 DEF Elsewhere

(* A pull that is not answered loses what it popped; the others that       *)
(* return had popped nothing.                                              *)
Fruitless ==
    PullOutOfMemory \/ Acknowledge \/ AnswerExpired \/ AnswerTruncated \/ AnswerUnclosed

LEMMA FruitlessReturns ==
    ASSUME Fruitless
    PROVE  HandlerReturns /\ received' = received
  BY DEF Fruitless, PullOutOfMemory, Acknowledge, AnswerExpired, AnswerTruncated, AnswerUnclosed

LEMMA DeliveryHandle == IInv /\ IInv' /\ DeliveryInv /\ Handle => DeliveryInv'
  <1> SUFFICES ASSUME IInv, IInv', DeliveryInv, Handle PROVE DeliveryInv'
    OBVIOUS
  <1> USE DEF subVars, pullVars, handlerVars, otherVars
  <1>1. CASE Elsewhere
    BY <1>1, ElsewhereUntouched, DeliveryUntouched
  <1>2. CASE ReadNow
    BY <1>2, DeliveryUntouched DEF ReadNow
  <1>3. CASE Lock
    BY <1>3, DeliveryUntouched DEF Lock
  <1>4. CASE CreatePullPoint
    <2>1. Delivered' = Delivered /\ subs' = subs + 1
      BY <1>4 DEF CreatePullPoint, Delivered
    <2>2. subs' > subs
      BY <2>1 DEF IInv, TypeOK, DeviceType
    <2>3. QED
      BY <2>1, <2>2, DeliveryKept
  <1>5. CASE RefuseExpired
    BY <1>5, DeliveryUntouched DEF RefuseExpired
  <1>6. CASE Renew
    BY <1>6, DeliveryUntouched DEF Renew
  <1>7. CASE PullMessages
    BY <1>7, DeliveryUntouched DEF PullMessages
  <1>8. CASE PopEvent
    <2>1. CASE EventLen < RespMax - off
      BY <1>8, <2>1, DeliveryPopped DEF PopEvent, MoreToPull
    <2>2. CASE ~(EventLen < RespMax - off)
      <3>1. Delivered' = Delivered /\ subs' = subs
        BY <1>8, <2>2 DEF PopEvent, Delivered
      <3>2. Gone(ring) \in Nat /\ Gone(ring') = Gone(ring) + 1
        BY <1>8, RecentAfterPop DEF IInv, PopEvent, MoreToPull
      <3>3. Gone(ring') >= Gone(ring)
        BY <3>2
      <3>4. QED
        BY <3>1, <3>3, DeliveryKept
    <2>3. QED
      BY <2>1, <2>2
  <1>9. CASE EndPull
    BY <1>9, DeliveryUntouched DEF EndPull
  <1>10. CASE Unsubscribe
    BY <1>10, DeliveryUntouched DEF Unsubscribe
  <1>11. CASE Fruitless
    BY <1>11, FruitlessReturns, DeliveryLost DEF HandlerReturns
  <1>12. CASE AnswerPull
    <2>1. CASE received' = received
      BY <1>12, <2>1, DeliveryLost DEF AnswerPull, HandlerReturns
    <2>2. CASE received' = received \o out
      <3>1. out' = << >> /\ subs' = subs /\ ring' = ring
        BY <1>12 DEF AnswerPull, HandlerReturns
      <3>2. Delivered' = Delivered
        BY <2>2, <3>1 DEF Delivered, IInv, TypeOK, HandlerType, DeviceType
      <3>3. Gone(ring) \in Int
        BY DEF IInv, RecentRing, Ring, Gone
      <3>4. Gone(ring') >= Gone(ring)
        BY <3>1, <3>3
      <3>5. QED
        BY <3>1, <3>2, <3>4, DeliveryKept
    <2>3. QED
      BY <1>12, <2>1, <2>2 DEF AnswerPull
  <1>13. QED
    BY <1>1, <1>2, <1>3, <1>4, <1>5, <1>6, <1>7, <1>8, <1>9, <1>10, <1>11, <1>12
    DEF Handle, Elsewhere, Fruitless, Answer

LEMMA DeliveryNext == IInv /\ IInv' /\ DeliveryInv /\ [Next]_vars => DeliveryInv'
  <1> SUFFICES ASSUME IInv, IInv', DeliveryInv, [Next]_vars PROVE DeliveryInv'
    OBVIOUS
  <1> USE DEF subVars, pullVars, handlerVars, otherVars
  <1>1. CASE onvif_c_events_register
    BY <1>1, DeliveryUntouched DEF onvif_c_events_register
  <1>2. CASE ReadBody
    BY <1>2, ElsewhereUntouched, DeliveryUntouched DEF Elsewhere
  <1>3. CASE Handle
    BY <1>3, DeliveryHandle
  <1>4. ASSUME NEW p \in Producers, Motion(p) \/ TryLock(p) PROVE DeliveryInv'
    BY <1>4, DeliveryUntouched DEF Motion, TryLock
  <1>5. ASSUME NEW p \in Producers, PushMotion(p) PROVE DeliveryInv'
    <2>1. Delivered' = Delivered /\ subs' = subs
      BY <1>5 DEF PushMotion, Delivered
    <2>2. CASE sub_valid
      <3>1. Gone(ring') >= Gone(ring)
        BY <1>5, <2>2, RecentAfterPush DEF PushMotion, NewEvent, IInv, TypeOK, DeviceType
      <3>2. QED
        BY <2>1, <3>1, DeliveryKept
    <2>3. CASE ~sub_valid
      BY <1>5, <2>3, DeliveryUntouched DEF PushMotion
    <2>4. QED
      BY <2>2, <2>3
  <1>6. CASE Environment
    BY <1>6, DeliveryUntouched DEF Environment, Tick, StepClock
  <1>7. CASE UNCHANGED vars
    BY <1>7, DeliveryUntouched DEF vars
  <1>8. QED
    BY <1>1, <1>2, <1>3, <1>4, <1>5, <1>6, <1>7 DEF Next, Produce

(* Clients receive each motion event at most once and in the order queued, *)
(* for every ring size, pull limit, number of producers and clock.         *)
THEOREM EventsDeliveredInOrder == Spec => []DeliveredInOrder
  <1>1. IInv /\ DeliveryInv => DeliveredInOrder
    BY DeliveryOrders
  <1>2. Spec => []DeliveryInv
    BY DeliveryInit, DeliveryNext, EventsInvariant, PTL DEF Spec
  <1>3. QED
    BY <1>1, <1>2, EventsInvariant, PTL

-----------------------------------------------------------------------------
(* The buffer has room for an opening, the most events a pull can answer   *)
(* and a closing: ONVIF_EV_RESP_MAX, 4096 bytes, against 278 + 6 * 428 +   *)
(* 167 for the widest values.                                              *)
BufferFits == OpenLen + PullMax * EventLen + CloseLen < RespMax

(* The response is exactly as long as its parts: it is never truncated.    *)
Untruncated ==
    /\ pc \in {"idle", "receive", "gate", "static", "send", "now", "end"} => out = << >>
    /\ op = "PullMessages" /\ pc \in {"lock", "cs", "pop", "reply"} =>
           off = OpenLen + Len(out) * EventLen /\ Len(out) <= limit

LEMMA RoomForOneMore ==
    ASSUME BufferFits, NEW n \in Nat, n < PullMax
    PROVE  EventLen < RespMax - (OpenLen + n * EventLen)
  <1>1. n \in Int /\ PullMax \in Int /\ EventLen \in Nat /\ CloseLen \in Nat
    BY EventsAssumption
  <1>2. (n + 1) * EventLen <= PullMax * EventLen
    BY <1>1
  <1>3. (n + 1) * EventLen = n * EventLen + EventLen
    BY <1>1
  <1>4. n * EventLen \in Int /\ PullMax * EventLen \in Int
    BY <1>1
  <1>5. QED
    BY <1>1, <1>2, <1>3, <1>4, EventsAssumption DEF BufferFits

LEMMA RoomToClose ==
    ASSUME BufferFits, NEW n \in Nat, n <= PullMax
    PROVE  CloseLen < RespMax - (OpenLen + n * EventLen)
  <1>1. n \in Int /\ PullMax \in Int /\ EventLen \in Nat /\ CloseLen \in Nat
    BY EventsAssumption
  <1>2. n * EventLen <= PullMax * EventLen
    BY <1>1
  <1>3. n * EventLen \in Int /\ PullMax * EventLen \in Int
    BY <1>1
  <1>4. QED
    BY <1>1, <1>2, <1>3, EventsAssumption DEF BufferFits

LEMMA UntruncatedInit == Init => Untruncated
  BY DEF Init, Untruncated

LEMMA UntruncatedNext ==
    BufferFits /\ IInv /\ Untruncated /\ [Next]_vars => Untruncated'
  <1> SUFFICES ASSUME BufferFits, IInv, Untruncated, [Next]_vars PROVE Untruncated'
    OBVIOUS
  <1> USE DEF subVars, pullVars, handlerVars, otherVars
  <1>1. CASE onvif_c_events_register
    BY <1>1 DEF onvif_c_events_register, Untruncated
  <1>2. CASE Elsewhere
    <2>1. /\ pc' \in {"idle", "receive", "gate", "static", "send", "now", "end"}
             \/ (pc' = "lock" /\ op' = "Unsubscribe")
          /\ pc \in {"idle", "receive", "gate", "static", "send", "now", "end"}
      BY <1>2 DEF Elsewhere, ReadBody, Admit, ReceiveFails, BodyReceived, GateRefuses, Dispatched,
         BeginRequest, Static, BuildStatic, StaticOutOfMemory, SendStatic, Finish, Actions
    <2>2. out' = out
      BY <1>2, ElsewhereUntouched
    <2>3. QED
      BY <2>1, <2>2 DEF Untruncated
  <1>3. CASE Handle
    <2>1. CASE Fruitless \/ AnswerPull
      BY <2>1, FruitlessReturns DEF AnswerPull, HandlerReturns, Untruncated
    <2>2. CASE ReadNow
      <3>1. out = << >> /\ limit >= 0
        BY <2>2 DEF ReadNow, Untruncated, IInv, TypeOK, HandlerType
      <3>2. Len(out) = 0 /\ 0 * EventLen = 0 /\ OpenLen + 0 = OpenLen
        BY <3>1, EventsAssumption
      <3>3. QED
        BY <2>2, <3>1, <3>2 DEF ReadNow, Untruncated
    <2>3. CASE Lock
      BY <2>3 DEF Lock, Untruncated
    <2>4. CASE CreatePullPoint \/ RefuseExpired \/ Renew \/ EndPull \/ Unsubscribe
      BY <2>4 DEF CreatePullPoint, RefuseExpired, Renew, EndPull, Unsubscribe, Unlock,
         Untruncated
    <2>5. CASE PullMessages
      BY <2>5 DEF PullMessages, Untruncated
    <2>6. CASE PopEvent
      <3> DEFINE n == Len(out)
      <3>1. CASE op = "PullMessages"
        <4>1. off = OpenLen + n * EventLen /\ n < limit
          BY <2>6, <3>1 DEF PopEvent, MoreToPull, Untruncated
        <4>2. n \in Nat /\ limit \in 1 .. PullMax /\ out \in Seq(MotionEvent)
          BY DEF IInv, TypeOK, HandlerType
        <4>3. n < PullMax
          BY <4>1, <4>2, EventsAssumption
        <4>4. EventLen < RespMax - off
          BY <4>1, <4>2, <4>3, RoomForOneMore
        <4>5. off' = off + EventLen /\ out' = Append(out, Oldest(ring)) /\ limit' = limit
          BY <2>6, <4>4 DEF PopEvent
        <4>6. Oldest(ring) \in MotionEvent
          BY <2>6, RecentAfterPop DEF PopEvent, MoreToPull, IInv
        <4>7. Len(out') = n + 1
          BY <4>2, <4>5, <4>6
        <4>8. (n + 1) * EventLen = n * EventLen + EventLen /\ n * EventLen \in Int
          BY <4>2, EventsAssumption
        <4>9. off' = OpenLen + (n + 1) * EventLen
          BY <4>1, <4>5, <4>8, EventsAssumption
        <4>10. n + 1 <= limit
          BY <4>1, <4>2
        <4>11. QED
          BY <2>6, <4>5, <4>7, <4>9, <4>10 DEF PopEvent, Untruncated
      <3>2. CASE op # "PullMessages"
        BY <2>6, <3>2 DEF PopEvent, Untruncated
      <3>3. QED
        BY <3>1, <3>2
    <2>7. QED
      BY <1>2, <1>3, <2>1, <2>2, <2>3, <2>4, <2>5, <2>6
      DEF Handle, Elsewhere, Fruitless, Answer
  <1>4. CASE \E p \in Producers : Motion(p) \/ Produce(p)
    BY <1>4 DEF Motion, Produce, TryLock, PushMotion, Untruncated
  <1>5. CASE Environment
    BY <1>5 DEF Environment, Tick, StepClock, Untruncated
  <1>6. CASE UNCHANGED vars
    BY <1>6 DEF vars, Untruncated
  <1>7. QED
    BY <1>1, <1>2, <1>3, <1>4, <1>5, <1>6 DEF Next, Elsewhere

(* A pull always has room for its answer: no event that left the ring is   *)
(* lost to a response that does not fit.                                   *)
THEOREM EventsPullNeverOverflows ==
    ASSUME BufferFits
    PROVE  Spec => []PullNeverOverflows
  <1>1. IInv /\ Untruncated => PullNeverOverflows
    <2> SUFFICES ASSUME IInv, Untruncated,
                        pc \in {"pop", "reply"}, op = "PullMessages"
                 PROVE  CloseLen < RespMax - off
      BY EventsAssumption DEF PullNeverOverflows, Overflows, IInv, TypeOK, HandlerType
    <2>1. off = OpenLen + Len(out) * EventLen /\ Len(out) <= limit
      BY DEF Untruncated
    <2>2. Len(out) \in Nat /\ Len(out) <= PullMax
      BY <2>1, EventsAssumption DEF IInv, TypeOK, HandlerType
    <2>3. QED
      BY <2>1, <2>2, RoomToClose
  <1>2. IInv /\ Untruncated /\ [Next]_vars => Untruncated'
    BY UntruncatedNext
  <1>3. QED
    BY <1>1, <1>2, UntruncatedInit, EventsInvariant, PTL DEF Spec
-----------------------------------------------------------------------------
(* The refinement of PullPoint. What it rests on beside the ring: where an *)
(* answer is empty, that a pull's subscription lives while its answer is   *)
(* being made, and that there is none without a mutex.                     *)
RefineInv ==
    /\ pc \notin {"pop", "reply"} => out = << >>
    /\ pc = "pop" => op = "PullMessages" /\ sub_valid
    /\ sub_valid => mtx # "null"

LEMMA RefineInit == Init => RefineInv /\ Promised!Init
  BY DEF Init, RefineInv, Promised!Init, onvif_c_events_subscribed

(* A step that moves neither the subscription nor the events is a stutter. *)
LEMMA RefineStutter ==
    ASSUME RefineInv, RefineInv', UNCHANGED <<sub_valid, ring, out, received>>
    PROVE  UNCHANGED Promised!vars
  BY DEF RefineInv, Promised!vars, onvif_c_events_subscribed

LEMMA RefineElsewhere ==
    ASSUME RefineInv, Elsewhere
    PROVE  RefineInv' /\ UNCHANGED Promised!vars
  <1>1. UNCHANGED <<mtx, sub_valid, ring, out, received>>
    BY ElsewhereUntouched DEF subVars
  <1>2. pc \notin {"pop", "reply"} /\ pc' \notin {"pop", "reply"}
    BY DEF Elsewhere, ReadBody, Admit, ReceiveFails, BodyReceived, GateRefuses, Dispatched,
       BeginRequest, Static, BuildStatic, StaticOutOfMemory, SendStatic, Finish
  <1>3. RefineInv'
    BY <1>1, <1>2 DEF RefineInv
  <1>4. QED
    BY <1>1, <1>3, RefineStutter

(* The end of a pull, answered or not, is the abstract answer, unless      *)
(* there was nothing to answer.                                            *)
LEMMA RefineAnswer ==
    ASSUME IInv, RefineInv, HandlerReturns, received' = received \/ received' = received \o out,
           UNCHANGED subVars
    PROVE  RefineInv' /\ [Promised!Next]_(Promised!vars)
  <1> USE DEF subVars
  <1>1. RefineInv' /\ out' = << >> /\ UNCHANGED <<sub_valid, ring, mtx>>
    BY DEF HandlerReturns, RefineInv
  <1>2. CASE out = << >>
    <2>1. received' = received
      BY <1>2 DEF IInv, TypeOK, DeviceType
    <2>2. QED
      BY <1>1, <1>2, <2>1, RefineStutter
  <1>3. CASE out # << >>
    <2>1. Promised!Answer
      BY <1>1, <1>3 DEF Promised!Answer, onvif_c_events_subscribed, Contents, SlotAt
    <2>2. QED
      BY <1>1, <2>1 DEF Promised!Next
  <1>4. QED
    BY <1>2, <1>3

LEMMA RefineHandle ==
    ASSUME BufferFits, IInv, Untruncated, RefineInv, Handle
    PROVE  RefineInv' /\ [Promised!Next]_(Promised!vars)
  <1> USE DEF subVars, pullVars, handlerVars, otherVars
  <1>1. CASE Elsewhere
    BY <1>1, RefineElsewhere
  <1>2. CASE ReadNow
    <2>1. RefineInv' /\ UNCHANGED <<sub_valid, ring, out, received>>
      BY <1>2 DEF ReadNow, RefineInv
    <2>2. QED
      BY <2>1, RefineStutter
  <1>3. CASE Lock
    <2>1. RefineInv' /\ UNCHANGED <<sub_valid, ring, out, received>>
      BY <1>3 DEF Lock, RefineInv
    <2>2. QED
      BY <2>1, RefineStutter
  <1>4. CASE CreatePullPoint
    <2>1. RefineInv'
      BY <1>4 DEF CreatePullPoint, Unlock, RefineInv
    <2>2. Contents(ring') = << >>
      BY <1>4, ResetIsClear DEF CreatePullPoint, IInv, RecentRing
    <2>3. Promised!Subscribe
      BY <1>4, <2>2 DEF CreatePullPoint, Unlock, RefineInv, Promised!Subscribe,
         onvif_c_events_subscribed, Contents, SlotAt
    <2>4. QED
      BY <2>1, <2>3 DEF Promised!Next
  <1>5. CASE RefuseExpired \/ Unsubscribe
    <2>1. RefineInv'
      BY <1>5 DEF RefuseExpired, Unsubscribe, Unlock, RefineInv
    <2>2. Promised!End
      BY <1>5 DEF RefuseExpired, Unsubscribe, Unlock, RefineInv, Promised!End,
         onvif_c_events_subscribed
    <2>3. QED
      BY <2>1, <2>2 DEF Promised!Next
  <1>6. CASE Renew \/ EndPull
    <2>1. RefineInv' /\ UNCHANGED <<sub_valid, ring, out, received>>
      BY <1>6 DEF Renew, EndPull, Unlock, RefineInv
    <2>2. QED
      BY <2>1, RefineStutter
  <1>7. CASE PullMessages
    <2>1. RefineInv' /\ UNCHANGED <<sub_valid, ring, out, received>>
      BY <1>7 DEF PullMessages, sub_alive, RefineInv
    <2>2. QED
      BY <2>1, RefineStutter
  <1>8. CASE PopEvent
    <2>1. sub_valid /\ mtx # "null" /\ op = "PullMessages"
      BY <1>8 DEF PopEvent, RefineInv
    <2>2. off = OpenLen + Len(out) * EventLen /\ Len(out) < limit
      BY <1>8, <2>1 DEF PopEvent, MoreToPull, Untruncated
    <2>3. Len(out) \in Nat /\ Len(out) < PullMax
      BY <2>2, EventsAssumption DEF IInv, TypeOK, HandlerType
    <2>4. out' = Append(out, Oldest(ring))
      BY <1>8, <2>2, <2>3, RoomForOneMore DEF PopEvent
    <2>5. Oldest(ring) = Head(Contents(ring)) /\ Contents(Pop(ring)) = Tail(Contents(ring))
      BY <1>8, PopIsDequeue DEF PopEvent, MoreToPull, IInv, RecentRing
    <2>6. Contents(ring) # << >>
      <3>1. Len(Contents(ring)) = ring.count /\ ring.count # 0
        BY <1>8, ContentsType DEF PopEvent, MoreToPull, CanPop, IInv, RecentRing
      <3>2. QED
        BY <3>1
    <2>7. ring' = Pop(ring) /\ UNCHANGED <<pc, op, mtx, sub_valid, received>>
      BY <1>8 DEF PopEvent
    <2>8. RefineInv'
      BY <1>8, <2>1, <2>7 DEF PopEvent, RefineInv
    <2>9. Promised!Take
      BY <2>1, <2>3, <2>4, <2>5, <2>6, <2>7
      DEF Promised!Take, onvif_c_events_subscribed, Contents, SlotAt
    <2>10. QED
      BY <2>8, <2>9 DEF Promised!Next
  <1>9. CASE Fruitless
    BY <1>9, FruitlessReturns, RefineAnswer DEF HandlerReturns
  <1>10. CASE AnswerPull
    BY <1>10, RefineAnswer DEF AnswerPull, HandlerReturns
  <1>11. QED
    BY <1>1, <1>2, <1>3, <1>4, <1>5, <1>6, <1>7, <1>8, <1>9, <1>10
    DEF Handle, Elsewhere, Fruitless, Answer

LEMMA RefinePush ==
    ASSUME IInv, RefineInv, NEW p \in Producers, PushMotion(p)
    PROVE  RefineInv' /\ [Promised!Next]_(Promised!vars)
  <1> USE DEF subVars, pullVars, handlerVars
  <1>1. RefineInv' /\ UNCHANGED <<sub_valid, out, received>>
    BY DEF PushMotion, RefineInv
  <1>2. CASE ~sub_valid
    <2>1. ring' = ring
      BY <1>2 DEF PushMotion
    <2>2. QED
      BY <1>1, <2>1, RefineStutter
  <1>3. CASE sub_valid
    <2> DEFINE e == NewEvent
               c == Contents(ring)
               kept == Promised!MakeRoom(c)
    <2>1. /\ ring \in Ring(MotionEvent) /\ Filled(ring, MotionEvent) /\ ring.generated \in Nat
          /\ subs \in Nat /\ clock \in Int
      BY DEF IInv, RecentRing, Ring, TypeOK, DeviceType
    <2>2. e \in MotionEvent
      BY <2>1 DEF NewEvent, MotionEvent
    <2>3. Contents(Push(ring, e)) = Append(kept, e)
      <3> HIDE DEF e
      <3>1. QED
        BY <2>1, <2>2, PushIsEnqueue DEF Promised!MakeRoom
    <2>4. c \in Seq(MotionEvent)
      BY <2>1, ContentsType
    <2>5. kept \in Seq(MotionEvent)
      BY <2>4, QueueMaxAssumption DEF Promised!MakeRoom
    <2>6. /\ Append(kept, e) # << >> /\ Append(kept, e)[Len(Append(kept, e))] = e
      <3> HIDE DEF e, kept
      <3>1. QED
        BY <2>2, <2>5
    <2>7. Contents(ring)' = Append(kept, e) /\ mtx # "null" /\ mtx' # "null"
      BY <1>3, <2>3 DEF PushMotion, RefineInv, Contents, SlotAt
    <2>8. Promised!Motion
      <3> HIDE DEF e, kept
      <3>1. QED
        BY <1>1, <1>3, <2>2, <2>6, <2>7
        DEF Promised!Motion, onvif_c_events_subscribed, kept
    <2>9. QED
      BY <1>1, <2>8 DEF Promised!Next
  <1>4. QED
    BY <1>2, <1>3

LEMMA RefineNext ==
    ASSUME BufferFits, IInv, Untruncated, RefineInv, [Next]_vars
    PROVE  RefineInv' /\ [Promised!Next]_(Promised!vars)
  <1> USE DEF subVars, pullVars, handlerVars, otherVars
  <1>1. CASE onvif_c_events_register
    <2>1. RefineInv' /\ UNCHANGED <<sub_valid, ring, out, received>>
      BY <1>1 DEF onvif_c_events_register, RefineInv
    <2>2. QED
      BY <2>1, RefineStutter
  <1>2. CASE ReadBody
    BY <1>2, RefineElsewhere DEF Elsewhere
  <1>3. CASE Handle
    BY <1>3, RefineHandle
  <1>4. ASSUME NEW p \in Producers, Motion(p) \/ TryLock(p)
        PROVE  RefineInv' /\ [Promised!Next]_(Promised!vars)
    <2>1. RefineInv' /\ UNCHANGED <<sub_valid, ring, out, received>>
      BY <1>4, EventsAssumption DEF Motion, TryLock, RefineInv
    <2>2. QED
      BY <2>1, RefineStutter
  <1>5. ASSUME NEW p \in Producers, PushMotion(p)
        PROVE  RefineInv' /\ [Promised!Next]_(Promised!vars)
    BY <1>5, RefinePush
  <1>6. CASE Environment \/ UNCHANGED vars
    <2>1. RefineInv' /\ UNCHANGED <<sub_valid, ring, out, received>>
      BY <1>6 DEF Environment, Tick, StepClock, vars, RefineInv
    <2>2. QED
      BY <2>1, RefineStutter
  <1>7. QED
    BY <1>1, <1>2, <1>3, <1>4, <1>5, <1>6 DEF Next, Produce

(* The events service is a Pull-Point for any number of producers, ring    *)
(* depth, pull size and clock, provided that a full pull fits its buffer:  *)
(* otherwise an event could leave the queue and reach no answer.           *)
THEOREM EventsImplementPullPoint ==
    ASSUME BufferFits
    PROVE  Spec => ImplementsPullPoint
  <1>1. Init => RefineInv /\ Promised!Init
    BY RefineInit
  <1>2. IInv /\ Untruncated /\ RefineInv /\ [Next]_vars
        => RefineInv' /\ [Promised!Next]_(Promised!vars)
    BY RefineNext
  <1>3. IInv /\ Untruncated /\ [Next]_vars => Untruncated'
    BY UntruncatedNext
  <1>4. QED
    BY <1>1, <1>2, <1>3, UntruncatedInit, EventsInvariant, PTL
    DEF Spec, ImplementsPullPoint, Promised!Spec
-----------------------------------------------------------------------------
(* Timestamps. The events of a sequence; those received, being answered or *)
(* queued.                                                                 *)
Elements(s) == {s[i] : i \in 1 .. Len(s)}

Handled == Elements(received) \cup Elements(out) \cup Elements(Contents(ring))

LEMMA ElementsOfConcat ==
    ASSUME NEW S, NEW s \in Seq(S), NEW t \in Seq(S)
    PROVE  Elements(s \o t) \subseteq Elements(s) \cup Elements(t)
  <1> SUFFICES ASSUME NEW i \in 1 .. Len(s \o t)
               PROVE  (s \o t)[i] \in Elements(s) \cup Elements(t)
    BY DEF Elements
  <1>1. CASE i <= Len(s)
    <2>1. i \in 1 .. Len(s) /\ (s \o t)[i] = s[i]
      BY <1>1
    <2>2. QED
      BY <2>1 DEF Elements
  <1>2. CASE i > Len(s)
    <2>1. i - Len(s) \in 1 .. Len(t) /\ (s \o t)[i] = t[i - Len(s)]
      BY <1>2
    <2>2. QED
      BY <2>1 DEF Elements
  <1>3. QED
    BY <1>1, <1>2

LEMMA ElementsOfAppend ==
    ASSUME NEW S, NEW s \in Seq(S), NEW e \in S
    PROVE  Elements(Append(s, e)) \subseteq Elements(s) \cup {e}
  <1> SUFFICES ASSUME NEW i \in 1 .. Len(Append(s, e))
               PROVE  Append(s, e)[i] \in Elements(s) \cup {e}
    BY DEF Elements
  <1>1. CASE i \in 1 .. Len(s)
    BY <1>1 DEF Elements
  <1>2. CASE i \notin 1 .. Len(s)
    BY <1>2
  <1>3. QED
    BY <1>1, <1>2

LEMMA ElementsOfTail ==
    ASSUME NEW S, NEW s \in Seq(S), Len(s) # 0
    PROVE  Head(s) \in Elements(s) /\ Elements(Tail(s)) \subseteq Elements(s)
  <1>1. 1 \in 1 .. Len(s) /\ Head(s) = s[1]
    OBVIOUS
  <1>2. \A i \in 1 .. Len(Tail(s)) : i + 1 \in 1 .. Len(s) /\ Tail(s)[i] = s[i + 1]
    OBVIOUS
  <1>3. QED
    BY <1>1, <1>2 DEF Elements

(* No event is timed after the present, and a later event has no earlier   *)
(* time.                                                                   *)
TimeInv ==
    /\ \A e \in Handled : e.utc <= clock
    /\ \A e, f \in Handled : Before(e, f) => e.utc <= f.utc

LEMMA HandledType == IInv => Handled \subseteq MotionEvent
  <1> SUFFICES ASSUME IInv PROVE Handled \subseteq MotionEvent
    OBVIOUS
  <1>1. /\ received \in Seq(MotionEvent) /\ out \in Seq(MotionEvent)
        /\ Contents(ring) \in Seq(MotionEvent)
    BY ContentsType DEF IInv, TypeOK, HandlerType, DeviceType, RecentRing
  <1>2. QED
    BY <1>1 DEF Handled, Elements

LEMMA TimeKept ==
    ASSUME IInv, TimeInv, Handled' \subseteq Handled, clock' \in Int, clock' >= clock
    PROVE  TimeInv'
  <1>1. clock \in Int /\ \A e \in Handled : e.utc \in Int
    BY HandledType DEF IInv, TypeOK, DeviceType, MotionEvent
  <1>2. \A e \in Handled' : e.utc <= clock'
    BY <1>1 DEF TimeInv
  <1>3. \A e, f \in Handled' : Before(e, f) => e.utc <= f.utc
    BY DEF TimeInv
  <1>4. QED
    BY <1>2, <1>3 DEF TimeInv, Before

LEMMA TimeUntouched ==
    ASSUME IInv, TimeInv, UNCHANGED <<received, out, ring, clock>>
    PROVE  TimeInv'
  <1>1. Handled' = Handled
    BY DEF Handled, Elements, Contents, SlotAt
  <1>2. clock \in Int
    BY DEF IInv, TypeOK, DeviceType
  <1>3. QED
    BY <1>1, <1>2, TimeKept

(* The event of a producer is later than all others, in both senses.       *)
LEMMA TimePush ==
    ASSUME IInv, DeliveryInv, TimeInv, NEW p \in Producers, PushMotion(p)
    PROVE  TimeInv'
  <1> USE DEF subVars, pullVars, handlerVars
  <1>1. CASE ~sub_valid
    BY <1>1, TimeUntouched DEF PushMotion
  <1>2. CASE sub_valid
    <2> DEFINE e == NewEvent
               c == Contents(ring)
               kept == IF Len(c) = QueueMax THEN Tail(c) ELSE c
    <2>1. /\ ring \in Ring(MotionEvent) /\ Filled(ring, MotionEvent)
          /\ ring.generated \in Nat /\ ring.count \in Nat /\ subs \in Nat /\ clock \in Int
      BY DEF IInv, RecentRing, Ring, TypeOK, DeviceType
    <2>2. e \in MotionEvent /\ e.utc = clock /\ e.sub = subs /\ e.n = ring.generated + 1
      BY <2>1 DEF NewEvent, MotionEvent
    <2>3. c \in Seq(MotionEvent) /\ Len(c) = ring.count
      BY <2>1, ContentsType
    <2>4. kept \in Seq(MotionEvent) /\ Elements(kept) \subseteq Elements(c)
      BY <2>3, QueueMaxAssumption, ElementsOfTail
    <2>5. Contents(ring)' = Append(kept, e)
      <3>1. ring' = Push(ring, e)
        BY <1>2 DEF PushMotion
      <3> HIDE DEF e
      <3>2. Contents(ring') = Append(kept, e)
        BY <2>1, <2>2, <3>1, PushIsEnqueue
      <3>3. QED
        BY <3>2 DEF Contents, SlotAt
    <2>6. Handled' \subseteq Handled \cup {e}
      <3> HIDE DEF e, kept
      <3>1. Elements(Append(kept, e)) \subseteq Elements(c) \cup {e}
        BY <2>2, <2>4, ElementsOfAppend
      <3>2. QED
        BY <2>5, <3>1 DEF PushMotion, Handled, Elements
    <2>7. ASSUME NEW f \in Handled PROVE ~Before(e, f)
      <3>1. f.sub \in Nat /\ f.n \in Nat
        BY HandledType DEF MotionEvent
      <3>2. f.sub < subs \/ (f.sub = subs /\ f.n <= ring.generated)
        <4>1. CASE f \in Elements(c)
          <5>1. PICK k \in 1 .. ring.count : f = c[k]
            BY <2>3, <4>1 DEF Elements
          <5>2. f.sub = subs /\ f.n = ring.generated - ring.count + k
            BY <5>1 DEF IInv, RecentRing
          <5>3. QED
            BY <2>1, <5>2
        <4>2. CASE f \in Elements(received) \cup Elements(out)
          <5>1. received \in Seq(MotionEvent) /\ out \in Seq(MotionEvent)
            BY DEF IInv, TypeOK, HandlerType, DeviceType
          <5>2. \E i \in 1 .. Len(Delivered) : f = Delivered[i]
            <6>1. CASE f \in Elements(received)
              <7>1. PICK i \in 1 .. Len(received) : f = received[i]
                BY <6>1 DEF Elements
              <7>2. i \in 1 .. Len(Delivered) /\ Delivered[i] = received[i]
                BY <5>1 DEF Delivered
              <7>3. QED
                BY <7>1, <7>2
            <6>2. CASE f \in Elements(out)
              <7>1. PICK i \in 1 .. Len(out) : f = out[i]
                BY <6>2 DEF Elements
              <7>2. /\ Len(received) + i \in 1 .. Len(Delivered)
                    /\ Delivered[Len(received) + i] = out[i]
                BY <5>1 DEF Delivered
              <7>3. QED
                BY <7>1, <7>2
            <6>3. QED
              BY <4>2, <6>1, <6>2
          <5>3. Left(f, subs, ring)
            BY <5>2 DEF DeliveryInv
          <5>4. QED
            BY <2>1, <3>1, <5>3 DEF Left, Gone
        <4>3. QED
          BY <4>1, <4>2 DEF Handled
      <3>3. QED
        BY <2>1, <2>2, <3>1, <3>2 DEF Before
    <2>8. ~Before(e, e)
      BY <2>1, <2>2 DEF Before
    <2>9. clock' = clock
      BY DEF PushMotion
    <2>10. \A f \in Handled' : f.utc <= clock'
      <3> HIDE DEF e
      <3>1. QED
        BY <2>1, <2>2, <2>6, <2>9 DEF TimeInv
    <2>11. \A f, g \in Handled' : Before(f, g) => f.utc <= g.utc
      <3> HIDE DEF e
      <3>1. QED
        BY <2>1, <2>2, <2>6, <2>7, <2>8 DEF TimeInv
    <2>12. QED
      BY <2>10, <2>11 DEF TimeInv, Before
  <1>3. QED
    BY <1>1, <1>2

LEMMA TimeHandle == IInv /\ TimeInv /\ Handle => TimeInv'
  <1> SUFFICES ASSUME IInv, TimeInv, Handle PROVE TimeInv'
    OBVIOUS
  <1> USE DEF subVars, pullVars, handlerVars, otherVars
  <1>1. clock \in Int /\ received \in Seq(MotionEvent) /\ out \in Seq(MotionEvent)
    BY DEF IInv, TypeOK, HandlerType, DeviceType
  <1>2. clock' = clock
    BY ElsewhereUntouched, FruitlessReturns
    DEF Handle, Elsewhere, Fruitless, Answer, AnswerPull, HandlerReturns, ReadNow, Lock,
        CreatePullPoint, RefuseExpired, Renew, PullMessages, PopEvent, EndPull, Unsubscribe
  <1>3. /\ Elements(<< >>) = {}
        /\ Handled' = Elements(received') \cup Elements(out') \cup Elements(Contents(ring)')
    BY DEF Handled, Elements
  <1>4. CASE Fruitless \/ AnswerPull
    <2>1. out' = << >> /\ ring' = ring
      BY <1>4, FruitlessReturns DEF AnswerPull, HandlerReturns
    <2>2. received' = received \/ received' = received \o out
      BY <1>4, FruitlessReturns DEF AnswerPull
    <2>3. Elements(received') \subseteq Elements(received) \cup Elements(out)
      BY <1>1, <2>2, ElementsOfConcat
    <2>4. Contents(ring)' = Contents(ring)
      BY <2>1 DEF Contents, SlotAt
    <2>5. Handled' \subseteq Handled
      BY <1>3, <2>1, <2>3, <2>4 DEF Handled
    <2>6. QED
      BY <1>1, <1>2, <2>5, TimeKept
  <1>5. CASE CreatePullPoint
    <2>1. Contents(ring') = << >> /\ UNCHANGED <<received, out>>
      BY <1>5, ResetIsClear DEF CreatePullPoint, IInv, RecentRing
    <2>2. Contents(ring)' = << >>
      BY <2>1 DEF Contents, SlotAt
    <2>3. Handled' \subseteq Handled
      BY <1>3, <2>1, <2>2 DEF Handled
    <2>4. QED
      BY <1>1, <1>2, <2>3, TimeKept
  <1>6. CASE PopEvent
    <2> DEFINE c == Contents(ring)
    <2>1. /\ ring' = Pop(ring) /\ received' = received
          /\ out' = Append(out, Oldest(ring)) \/ out' = out
      BY <1>6 DEF PopEvent
    <2>2. c \in Seq(MotionEvent) /\ Len(c) # 0
      BY <1>6, ContentsType DEF PopEvent, MoreToPull, CanPop, IInv, RecentRing
    <2>3. Oldest(ring) = Head(c) /\ Oldest(ring) \in MotionEvent /\ Contents(ring') = Tail(c)
      BY <1>6, <2>1, PopIsDequeue DEF PopEvent, MoreToPull, IInv, RecentRing
    <2>4. Oldest(ring) \in Elements(c) /\ Elements(Tail(c)) \subseteq Elements(c)
      BY <2>2, <2>3, ElementsOfTail
    <2>5. Elements(out') \subseteq Elements(out) \cup Elements(c)
      <3> HIDE DEF c
      <3>1. Elements(Append(out, Oldest(ring))) \subseteq Elements(out) \cup {Oldest(ring)}
        BY <1>1, <2>3, ElementsOfAppend
      <3>2. CASE out' = out
        BY <3>2
      <3>3. CASE out' = Append(out, Oldest(ring))
        BY <2>4, <3>1, <3>3
      <3>4. QED
        BY <2>1, <3>2, <3>3
    <2>6. Contents(ring)' = Tail(c)
      BY <2>3 DEF Contents, SlotAt
    <2>7. Handled' \subseteq Handled
      BY <1>3, <2>1, <2>4, <2>5, <2>6 DEF Handled
    <2>8. QED
      BY <1>1, <1>2, <2>7, TimeKept
  <1>7. CASE ReadNow \/ Lock \/ RefuseExpired \/ Renew \/ PullMessages \/ EndPull \/ Unsubscribe
    BY <1>2, <1>7, TimeUntouched DEF ReadNow, Lock, RefuseExpired, Renew, PullMessages, EndPull,
       Unsubscribe
  <1>8. CASE Elsewhere
    BY <1>8, ElsewhereUntouched, TimeUntouched
  <1>9. QED
    BY <1>4, <1>5, <1>6, <1>7, <1>8 DEF Handle, Elsewhere, Fruitless, Answer

LEMMA TimeNext ==
    ASSUME ClockSteps = {}, IInv, DeliveryInv, TimeInv, [Next]_vars
    PROVE  TimeInv'
  <1> USE DEF subVars, pullVars, handlerVars, otherVars
  <1>1. CASE Handle
    BY <1>1, TimeHandle
  <1>2. ASSUME NEW p \in Producers, PushMotion(p) PROVE TimeInv'
    BY <1>2, TimePush
  <1>3. ASSUME NEW p \in Producers, Motion(p) \/ TryLock(p) PROVE TimeInv'
    BY <1>3, TimeUntouched DEF Motion, TryLock
  <1>4. CASE onvif_c_events_register \/ ReadBody \/ UNCHANGED vars
    BY <1>4, TimeUntouched DEF onvif_c_events_register, ReadBody, vars
  <1>5. CASE Tick
    <2>1. Handled' = Handled /\ clock' = clock + 1
      BY <1>5 DEF Tick, Handled, Elements, Contents, SlotAt
    <2>2. clock \in Int
      BY DEF IInv, TypeOK, DeviceType
    <2>3. QED
      BY <2>1, <2>2, TimeKept
  <1>6. QED
    BY <1>1, <1>2, <1>3, <1>4, <1>5 DEF Next, Produce, Environment

(* While nobody sets the clock, what a client receives is in order of      *)
(* time, for any number of producers and any ring and pull size.           *)
THEOREM EventsTimestampsInOrder ==
    ASSUME ClockSteps = {}
    PROVE  Spec => []TimestampsInOrder
  <1>1. Init => TimeInv
    BY DEF Init, ZeroRing, TimeInv, Handled, Elements, Contents
  <1>2. IInv /\ DeliveryInv /\ TimeInv /\ [Next]_vars => TimeInv'
    BY TimeNext
  <1>3. IInv /\ DeliveryInv /\ TimeInv => TimestampsInOrder
    <2> SUFFICES ASSUME IInv, DeliveryInv, TimeInv PROVE TimestampsInOrder
      OBVIOUS
    <2> DEFINE line == received \o out \o Contents(ring)
    <2>1. DeliveredInOrder
      BY DeliveryOrders
    <2>2. /\ received \in Seq(MotionEvent) /\ out \in Seq(MotionEvent)
          /\ Contents(ring) \in Seq(MotionEvent)
      BY ContentsType DEF IInv, TypeOK, HandlerType, DeviceType, RecentRing
    <2>3. Elements(line) \subseteq Handled
      <3>1. received \o out \in Seq(MotionEvent)
        BY <2>2
      <3>2. QED
        BY <2>2, <3>1, ElementsOfConcat DEF Handled
    <2>4. \A i \in 1 .. Len(line) : line[i] \in Handled
      BY <2>3 DEF Elements
    <2>5. QED
      BY <2>1, <2>4 DEF DeliveredInOrder, TimestampsInOrder, TimeInv
  <1>4. QED
    BY <1>1, <1>2, <1>3, DeliveryInit, DeliveryNext, EventsInvariant, PTL DEF Spec
-----------------------------------------------------------------------------
(* Expiry. While nobody sets the wall clock it is the time since boot, and *)
(* the two deadlines of s_ev are those of the last pull and renewal.       *)
AgeInv ==
    /\ clock = uptime /\ now = read_at
    /\ sub_valid => sub_last_pull = contact /\ sub_termination = renewed + Lifetime

LEMMA AgeStep ==
    ASSUME ClockSteps = {}, IInv, AgeInv, [Next]_vars
    PROVE  AgeInv'
  <1> USE DEF subVars, pullVars, handlerVars, otherVars, AgeInv
  <1>1. CASE Elsewhere
    BY <1>1, ElsewhereUntouched
  <1>2. CASE Fruitless \/ AnswerPull
    <2>1. HandlerReturns
      BY <1>2, FruitlessReturns DEF AnswerPull
    <2>2. now' = 0 /\ read_at' = 0 /\ UNCHANGED <<subVars, clock, uptime>>
      BY <2>1 DEF HandlerReturns
    <2>3. QED
      BY <2>2
  <1>3. CASE ReadNow \/ Lock
    BY <1>3 DEF ReadNow, Lock
  <1>4. CASE CreatePullPoint \/ RefuseExpired \/ Renew \/ PullMessages \/ Unsubscribe
    BY <1>4 DEF CreatePullPoint, RefuseExpired, Renew, PullMessages, Unsubscribe, sub_alive
  <1>5. CASE PopEvent \/ EndPull
    BY <1>5 DEF PopEvent, EndPull
  <1>6. CASE \E p \in Producers : Motion(p) \/ Produce(p)
    BY <1>6 DEF Motion, Produce, TryLock, PushMotion
  <1>7. CASE Tick
    BY <1>7 DEF Tick
  <1>8. CASE onvif_c_events_register \/ UNCHANGED vars
    BY <1>8 DEF onvif_c_events_register, vars
  <1>9. QED
    BY <1>1, <1>2, <1>3, <1>4, <1>5, <1>6, <1>7, <1>8
    DEF Next, Handle, Elsewhere, Fruitless, Answer, Environment

LEMMA AgeType ==
    IInv => /\ now \in Int /\ read_at \in Int /\ contact \in Int /\ renewed \in Int
            /\ sub_last_pull \in Int /\ sub_termination \in Int
            /\ IdleTimeout \in Int /\ Lifetime \in Int
  BY EventsAssumption DEF IInv, TypeOK, ServiceType, HandlerType, DeviceType

LEMMA EventsAge ==
    ASSUME ClockSteps = {}
    PROVE  Spec => []AgeInv
  <1>1. Init => AgeInv
    BY DEF Init, AgeInv
  <1>2. IInv /\ AgeInv /\ [Next]_vars => AgeInv'
    BY AgeStep
  <1>3. QED
    BY <1>1, <1>2, EventsInvariant, PTL DEF Spec

(* While nobody sets the wall clock, no subscription is served past either *)
(* deadline, whatever the periods and however long requests wait for the   *)
(* mutex.                                                                  *)
THEOREM EventsServedWhileAlive ==
    ASSUME ClockSteps = {}
    PROVE  Spec => ServedWhileAlive
  <1> DEFINE InTime == read_at - contact <= IdleTimeout /\ read_at - renewed <= Lifetime
  <1>1. IInv /\ AgeInv /\ [Next]_vars => [PullMessages \/ Renew => InTime]_vars
    <2> SUFFICES ASSUME IInv, AgeInv, PullMessages \/ Renew PROVE InTime
      OBVIOUS
    <2>1. sub_valid /\ now <= sub_termination /\ now - sub_last_pull <= IdleTimeout
      BY DEF PullMessages, Renew, sub_alive
    <2>2. /\ read_at <= renewed + Lifetime /\ read_at - contact <= IdleTimeout
      BY <2>1 DEF AgeInv
    <2>3. QED
      BY <2>2, AgeType
  <1>2. QED
    BY <1>1, EventsAge, EventsInvariant, PTL DEF Spec, ServedWhileAlive

(* And none ends, other than by Unsubscribe, before one of its deadlines   *)
(* has passed.                                                             *)
THEOREM EventsExpiryTakesTime ==
    ASSUME ClockSteps = {}
    PROVE  Spec => ExpiryTakesTime
  <1> DEFINE Late == read_at - contact > IdleTimeout \/ read_at - renewed > Lifetime
  <1>1. IInv /\ AgeInv /\ [Next]_vars =>
          [sub_valid /\ ~sub_valid' /\ op # "Unsubscribe" => Late]_vars
    <2> SUFFICES ASSUME IInv, AgeInv, [Next]_vars, sub_valid, ~sub_valid', op # "Unsubscribe"
                 PROVE  Late
      OBVIOUS
    <2>1. RefuseExpired
      BY ElsewhereUntouched, FruitlessReturns
      DEF Next, Handle, Elsewhere, Fruitless, Answer, AnswerPull, HandlerReturns, Environment,
          Produce, subVars, vars, onvif_c_events_register, ReadNow, Lock, CreatePullPoint, Renew,
          PullMessages, PopEvent, EndPull, Unsubscribe, Motion, TryLock, PushMotion, Tick,
          StepClock
    <2>2. ~(now <= sub_termination) \/ ~(now - sub_last_pull <= IdleTimeout)
      BY <2>1 DEF RefuseExpired, sub_alive
    <2>3. ~(read_at <= renewed + Lifetime) \/ ~(read_at - contact <= IdleTimeout)
      BY <2>2 DEF AgeInv
    <2>4. QED
      BY <2>3, AgeType
  <1>2. QED
    BY <1>1, EventsAge, EventsInvariant, PTL DEF Spec, ExpiryTakesTime
=============================================================================
