----------------------------- MODULE EventsProofs -----------------------------
(***************************************************************************)
(* The safety of the events service for any number of producers, any ring  *)
(* depth, pull size and deadline, any clock and any requests.              *)
(***************************************************************************)
EXTENDS EventsProperties, EventRingProofs

(* What the handlers dispatch to is an action or nothing.                  *)
LEMMA DispatchType ==
    ASSUME NEW mentions
    PROVE  Dispatch(mentions) \in {"unsupported"} \cup ActionNames
  <1> DEFINE found == {i \in DOMAIN Actions : Actions[i] \in mentions}
  <1>1. DOMAIN Actions = 1 .. 7
    BY DEF Actions
  <1>2. CASE found = {}
    BY <1>2 DEF Dispatch
  <1>3. CASE found # {}
    <2>1. \E x \in found : \A y \in found : x =< y
      BY <1>1, <1>3
    <2>2. Min(found) \in found
      BY <2>1 DEF Min
    <2>3. Dispatch(mentions) = Actions[Min(found)]
      BY <1>3 DEF Dispatch
    <2>4. QED
      BY <2>2, <2>3 DEF ActionNames
  <1>4. QED
    BY <1>2, <1>3

-----------------------------------------------------------------------------
(* The ring r holds the last r.count of the r.generated events queued for  *)
(* subscription s.                                                         *)
RecentRing(r, s) ==
    /\ r \in Ring(MotionEvent)
    /\ Filled(r, MotionEvent)
    /\ r.count <= r.generated
    /\ \A k \in 1 .. r.count :
          Contents(r)[k].sub = s /\ Contents(r)[k].n = r.generated - r.count + k

(* How many of the events queued for the subscription have left the ring.  *)
Gone(r) == r.generated - r.count

LEMMA RecentAfterReset ==
    ASSUME NEW r \in Ring(MotionEvent), NEW s
    PROVE  RecentRing(Reset(r), s) /\ Gone(Reset(r)) = 0
  <1>1. Reset(r) \in Ring(MotionEvent) /\ Filled(Reset(r), MotionEvent)
    BY ResetIsClear
  <1>2. Reset(r).count = 0 /\ Reset(r).generated = 0
    BY DEF Reset
  <1>3. QED
    BY <1>1, <1>2 DEF RecentRing, Gone

LEMMA RecentAfterPop ==
    ASSUME NEW r, NEW s, RecentRing(r, s), CanPop(r)
    PROVE  /\ RecentRing(Pop(r), s)
           /\ Gone(r) \in Nat /\ Gone(Pop(r)) = Gone(r) + 1
           /\ Oldest(r) \in MotionEvent
           /\ Oldest(r).sub = s /\ Oldest(r).n = Gone(r) + 1
  <1>1. /\ r \in Ring(MotionEvent) /\ Filled(r, MotionEvent)
        /\ r.count \in Nat /\ r.generated \in Nat /\ r.count <= r.generated
        /\ r.count # 0
    BY DEF RecentRing, CanPop, Ring
  <1>2. /\ Pop(r) \in Ring(MotionEvent) /\ Filled(Pop(r), MotionEvent)
        /\ Oldest(r) \in MotionEvent /\ Oldest(r) = Head(Contents(r))
        /\ Contents(Pop(r)) = Tail(Contents(r))
    BY <1>1, PopIsDequeue
  <1>3. Pop(r).count = r.count - 1 /\ Pop(r).generated = r.generated
    BY DEF Pop, DropOldest
  <1>4. Contents(r) \in Seq(MotionEvent) /\ Len(Contents(r)) = r.count
    BY <1>1, ContentsType
  <1>5. Head(Contents(r)) = Contents(r)[1]
    BY <1>1, <1>4
  <1>6. ASSUME NEW k \in 1 .. Pop(r).count
        PROVE  /\ Contents(Pop(r))[k].sub = s
               /\ Contents(Pop(r))[k].n = Pop(r).generated - Pop(r).count + k
    <2>1. k + 1 \in 1 .. r.count /\ k \in 1 .. Len(Contents(r)) - 1
      BY <1>1, <1>3, <1>4
    <2>2. Tail(Contents(r))[k] = Contents(r)[k + 1]
      BY <1>4, <2>1
    <2>3. /\ Contents(r)[k + 1].sub = s
          /\ Contents(r)[k + 1].n = r.generated - r.count + (k + 1)
      BY <2>1 DEF RecentRing
    <2>4. r.generated - r.count + (k + 1) = Pop(r).generated - Pop(r).count + k
      BY <1>1, <1>3
    <2>5. Contents(Pop(r))[k] = Contents(r)[k + 1]
      BY <1>2, <2>2
    <2>6. QED
      BY <2>3, <2>4, <2>5
  <1>7. Oldest(r).sub = s /\ Oldest(r).n = Gone(r) + 1
    <2>1. 1 \in 1 .. r.count
      BY <1>1
    <2>2. QED
      BY <1>2, <1>5, <2>1 DEF RecentRing, Gone
  <1>8. Gone(r) \in Nat /\ Gone(Pop(r)) = Gone(r) + 1
    BY <1>1, <1>3 DEF Gone
  <1>9. Pop(r).count <= Pop(r).generated
    BY <1>1, <1>3
  <1>10. QED
    BY <1>2, <1>6, <1>7, <1>8, <1>9 DEF RecentRing

LEMMA RecentAfterPush ==
    ASSUME NEW r, NEW s \in Nat, RecentRing(r, s), NEW t \in Int
    PROVE  LET e == [sub |-> s, n |-> r.generated + 1, utc |-> t]
           IN  RecentRing(Push(r, e), s) /\ Gone(Push(r, e)) >= Gone(r)
  <1> DEFINE e == [sub |-> s, n |-> r.generated + 1, utc |-> t]
             p == Push(r, e)
             c == Contents(r)
             kept == IF Len(c) = QueueMax THEN Tail(c) ELSE c
  <1>1. /\ r \in Ring(MotionEvent) /\ Filled(r, MotionEvent)
        /\ r.count \in 0 .. QueueMax /\ r.generated \in Nat /\ r.count <= r.generated
    BY DEF RecentRing, Ring
  <1>2. e \in MotionEvent
    BY <1>1 DEF MotionEvent
  <1>3. /\ p \in Ring(MotionEvent) /\ Filled(p, MotionEvent)
        /\ Contents(p) = Append(kept, e)
        /\ p.generated = r.generated + 1
        /\ p.count = IF r.count = QueueMax THEN QueueMax ELSE r.count + 1
    <2> HIDE DEF e
    <2>1. QED
      BY <1>1, <1>2, PushIsEnqueue
  <1>4. c \in Seq(MotionEvent) /\ Len(c) = r.count
    BY <1>1, ContentsType
  <1>5. p.count \in Nat /\ p.count <= p.generated /\ Gone(p) >= Gone(r)
    BY <1>1, <1>3, QueueMaxAssumption DEF Gone
  <1>6. kept \in Seq(MotionEvent) /\ Len(kept) = p.count - 1
    BY <1>1, <1>3, <1>4, QueueMaxAssumption
  <1>7. ASSUME NEW k \in 1 .. p.count
        PROVE  /\ Contents(p)[k].sub = s
               /\ Contents(p)[k].n = p.generated - p.count + k
    <2>1. CASE k = p.count
      <3>1. Contents(p)[k] = e
        BY <1>2, <1>3, <1>5, <1>6, <2>1
      <3>2. p.generated - p.count + k = r.generated + 1
        BY <1>1, <1>3, <1>5, <2>1
      <3>3. e.sub = s /\ e.n = r.generated + 1
        OBVIOUS
      <3>4. QED
        BY <3>1, <3>2, <3>3
    <2>2. CASE k # p.count
      <3>1. k \in 1 .. Len(kept)
        BY <1>5, <1>6, <2>2
      <3>2. Contents(p)[k] = kept[k]
        BY <1>2, <1>3, <1>6, <3>1
      <3>3. CASE r.count = QueueMax
        <4>1. kept[k] = c[k + 1] /\ k + 1 \in 1 .. r.count
          BY <1>3, <1>4, <1>6, <3>1, <3>3, QueueMaxAssumption
        <4>2. c[k + 1].sub = s /\ c[k + 1].n = r.generated - r.count + (k + 1)
          BY <4>1 DEF RecentRing
        <4>3. r.generated - r.count + (k + 1) = p.generated - p.count + k
          <5>1. p.count = r.count /\ p.generated = r.generated + 1
            BY <1>3, <3>3
          <5>2. k \in Int /\ r.count \in Int /\ r.generated \in Int
            BY <1>1, <1>5
          <5>3. QED
            BY ONLY <5>1, <5>2
        <4>4. QED
          BY <3>2, <4>1, <4>2, <4>3
      <3>4. CASE r.count # QueueMax
        <4>1. kept[k] = c[k] /\ k \in 1 .. r.count
          BY <1>3, <1>4, <1>6, <3>1, <3>4
        <4>2. c[k].sub = s /\ c[k].n = r.generated - r.count + k
          BY <4>1 DEF RecentRing
        <4>3. r.generated - r.count + k = p.generated - p.count + k
          <5>1. p.count = r.count + 1 /\ p.generated = r.generated + 1
            BY <1>3, <3>4
          <5>2. k \in Int /\ r.count \in Int /\ r.generated \in Int
            BY <1>1, <1>5
          <5>3. QED
            BY ONLY <5>1, <5>2
        <4>4. QED
          BY <3>2, <4>1, <4>2, <4>3
      <3>5. QED
        BY <3>3, <3>4
    <2>3. QED
      BY <2>1, <2>2
  <1>8. QED
    BY <1>3, <1>5, <1>7 DEF RecentRing

-----------------------------------------------------------------------------
(* Where in a request the buffer of its answer is allocated; what it holds *)
(* at each point.                                                          *)
RespHeld == pc = "send" \/ (op = "PullMessages" /\ pc \in {"lock", "cs", "pop", "reply"})

HeapHeld ==
    /\ heap["body"] = IF pc = "idle" THEN 0 ELSE 1
    /\ heap["resp"] = IF RespHeld THEN 1 ELSE 0

(* The inductive invariant: types, who holds the mutex, what the request   *)
(* has allocated, and what the ring holds.                                 *)
IInv == TypeOK /\ LockDiscipline /\ HeapHeld /\ RecentRing(ring, subs)

LEMMA IInvInit == Init => IInv
  <1> SUFFICES ASSUME Init PROVE IInv
    OBVIOUS
  <1> USE EventsAssumption, QueueMaxAssumption
  <1>1. ring \in Ring(MotionEvent) /\ ring.count = 0 /\ ring.generated = 0
    BY DEF Init, ZeroRing, Ring, Slots
  <1>2. RecentRing(ring, subs)
    BY <1>1 DEF RecentRing, Filled
  <1>3. << >> \in Seq(MotionEvent)
    BY EmptySeq
  <1>4. mpc \in [Producers -> {"idle", "try", "locked"}]
    BY DEF Init
  <1>5. TypeOK
    <2>1. /\ sub_termination \in Int /\ sub_last_pull \in Int /\ now \in Int
          /\ clock \in Int /\ uptime \in Nat /\ motions \in Nat /\ subs \in Nat
          /\ limit \in 1 .. PullMax /\ off \in Nat /\ heap \in [Blocks -> Int]
          /\ read_at \in Nat /\ contact \in Nat /\ renewed \in Nat
      BY DEF Init
    <2>2. out \in Seq(MotionEvent) /\ received \in Seq(MotionEvent)
      BY <1>3 DEF Init
    <2>3. sub_valid \in BOOLEAN /\ alive \in BOOLEAN /\ served \in BOOLEAN
      BY DEF Init
    <2>4. /\ mtx \in {"null", "free", "httpd"} \cup Producers
          /\ pc \in {"idle", "receive", "gate", "static", "send", "now", "lock", "cs", "pop",
                     "reply", "end"}
          /\ op \in {"none", "unsupported"} \cup ActionNames
      BY DEF Init
    <2>5. ServiceType
      BY <1>1, <2>1, <2>3, <2>4 DEF ServiceType
    <2>6. HandlerType
      BY <2>1, <2>2, <2>3, <2>4 DEF HandlerType
    <2>7. DeviceType
      BY <1>4, <2>1, <2>2, <2>3 DEF DeviceType
    <2>8. QED
      BY <2>5, <2>6, <2>7 DEF TypeOK
  <1>6. LockDiscipline
    BY DEF Init, LockDiscipline
  <1>7. HeapHeld
    BY DEF Init, HeapHeld, RespHeld, Blocks
  <1>8. QED
    BY <1>2, <1>5, <1>6, <1>7 DEF IInv

(* An allocation and a release change the count of one block.              *)
LEMMA HeapMalloc ==
    ASSUME NEW b \in Blocks, heap \in [Blocks -> Int], malloc(b)
    PROVE  /\ heap' \in [Blocks -> Int] /\ heap'[b] = heap[b] + 1
           /\ \A c \in Blocks \ {b} : heap'[c] = heap[c]
  BY DEF malloc

LEMMA HeapFree ==
    ASSUME NEW b \in Blocks, heap \in [Blocks -> Int], free(b)
    PROVE  /\ heap' \in [Blocks -> Int] /\ heap'[b] = heap[b] - 1
           /\ \A c \in Blocks \ {b} : heap'[c] = heap[c]
  BY DEF free

(* Steps that release the body, at its end or where the request ends early. *)
LEMMA BodyFreed ==
    ASSUME IInv, ~RespHeld, pc # "idle", free("body"), pc' = "idle", op' \in {op, "none"}
    PROVE  HeapHeld' /\ heap' \in [Blocks -> Int]
  <1>1. heap \in [Blocks -> Int] /\ heap["body"] = 1 /\ heap["resp"] = 0
    BY DEF IInv, TypeOK, HandlerType, HeapHeld
  <1>2. /\ heap' \in [Blocks -> Int] /\ heap'["body"] = 0 /\ heap'["resp"] = 0
    BY <1>1, HeapFree DEF Blocks
  <1>3. ~RespHeld'
    BY DEF RespHeld
  <1>4. QED
    BY <1>2, <1>3 DEF HeapHeld

(* Steps that release the buffer of an answer.                             *)
LEMMA RespFreed ==
    ASSUME IInv, RespHeld, free("resp"), pc' = "end"
    PROVE  HeapHeld' /\ heap' \in [Blocks -> Int]
  <1>1. heap \in [Blocks -> Int] /\ heap["body"] = 1 /\ heap["resp"] = 1
    BY DEF IInv, TypeOK, HandlerType, HeapHeld, RespHeld
  <1>2. /\ heap' \in [Blocks -> Int] /\ heap'["body"] = 1 /\ heap'["resp"] = 0
    BY <1>1, HeapFree DEF Blocks
  <1>3. ~RespHeld'
    BY DEF RespHeld
  <1>4. QED
    BY <1>2, <1>3 DEF HeapHeld

(* Steps that allocate it.                                                 *)
LEMMA RespAllocated ==
    ASSUME IInv, ~RespHeld, pc # "idle", malloc("resp"), RespHeld', pc' # "idle"
    PROVE  HeapHeld' /\ heap' \in [Blocks -> Int]
  <1>1. heap \in [Blocks -> Int] /\ heap["body"] = 1 /\ heap["resp"] = 0
    BY DEF IInv, TypeOK, HandlerType, HeapHeld
  <1>2. /\ heap' \in [Blocks -> Int] /\ heap'["body"] = 1 /\ heap'["resp"] = 1
    BY <1>1, HeapMalloc DEF Blocks
  <1>3. QED
    BY <1>2 DEF HeapHeld

(* A returning handler leaves its locals as they were before the request.  *)
LEMMA ReturnType ==
    ASSUME IInv, HandlerReturns, heap' \in [Blocks -> Int]
    PROVE  HandlerType' /\ ServiceType'
  <1>1. out' \in Seq(MotionEvent)
    BY EmptySeq DEF HandlerReturns
  <1>2. now' \in Int /\ limit' \in 1 .. PullMax /\ off' \in Nat
    BY EventsAssumption DEF HandlerReturns
  <1>3. QED
    BY <1>1, <1>2 DEF HandlerReturns, HandlerType, ServiceType, IInv, TypeOK, subVars

LEMMA RegisterStep == IInv /\ onvif_c_events_register => IInv'
  <1> SUFFICES ASSUME IInv, onvif_c_events_register PROVE IInv'
    OBVIOUS
  <1> USE EventsAssumption DEF IInv, TypeOK, subVars, pullVars, handlerVars, otherVars,
      onvif_c_events_register
  <1>1. ServiceType'
    BY DEF ServiceType
  <1>2. HandlerType'
    BY DEF HandlerType
  <1>3. DeviceType'
    BY DEF DeviceType
  <1>4. LockDiscipline'
    BY DEF ServiceType, DeviceType, LockDiscipline
  <1>5. HeapHeld'
    BY DEF HeapHeld, RespHeld
  <1>6. RecentRing(ring, subs)'
    OBVIOUS
  <1>7. QED
    BY <1>1, <1>2, <1>3, <1>4, <1>5, <1>6

LEMMA ReadBodyStep == IInv /\ ReadBody => IInv'
  <1> SUFFICES ASSUME IInv, ReadBody PROVE IInv'
    OBVIOUS
  <1> USE EventsAssumption DEF IInv, TypeOK, subVars, pullVars, handlerVars, otherVars,
      ReadBody
  <1>1. ServiceType'
    BY DEF ServiceType
  <1>2. HandlerType'
    <2>1. heap' \in [Blocks -> Int]
      BY HeapMalloc DEF HandlerType, Blocks
    <2>2. QED
      BY <2>1 DEF HandlerType
  <1>3. DeviceType'
    BY DEF DeviceType
  <1>4. LockDiscipline'
    BY DEF ServiceType, DeviceType, LockDiscipline
  <1>5. HeapHeld'
    <2>1. heap["body"] = 0 /\ heap["resp"] = 0 /\ heap \in [Blocks -> Int]
      BY DEF HandlerType, HeapHeld, RespHeld
    <2>2. heap'["body"] = 1 /\ heap'["resp"] = 0
      BY <2>1, HeapMalloc DEF Blocks
    <2>3. QED
      BY <2>2 DEF HeapHeld, RespHeld
  <1>6. RecentRing(ring, subs)'
    OBVIOUS
  <1>7. QED
    BY <1>1, <1>2, <1>3, <1>4, <1>5, <1>6

LEMMA ReceiveFailsStep == IInv /\ ReceiveFails => IInv'
  <1> SUFFICES ASSUME IInv, ReceiveFails PROVE IInv'
    OBVIOUS
  <1> USE EventsAssumption DEF IInv, TypeOK, subVars, pullVars, handlerVars, otherVars,
      ReceiveFails
  <1>1. ServiceType'
    BY DEF ServiceType
  <1>2. HandlerType'
    <2>1. heap' \in [Blocks -> Int]
      BY BodyFreed DEF RespHeld
    <2>2. QED
      BY <2>1 DEF HandlerType
  <1>3. DeviceType'
    BY DEF DeviceType
  <1>4. LockDiscipline'
    BY DEF ServiceType, DeviceType, LockDiscipline
  <1>5. HeapHeld'
    BY BodyFreed DEF RespHeld
  <1>6. RecentRing(ring, subs)'
    OBVIOUS
  <1>7. QED
    BY <1>1, <1>2, <1>3, <1>4, <1>5, <1>6

LEMMA BodyReceivedStep == IInv /\ BodyReceived => IInv'
  <1> SUFFICES ASSUME IInv, BodyReceived PROVE IInv'
    OBVIOUS
  <1> USE EventsAssumption DEF IInv, TypeOK, subVars, pullVars, handlerVars, otherVars,
      BodyReceived
  <1>1. ServiceType'
    BY DEF ServiceType
  <1>2. HandlerType'
    BY DEF HandlerType
  <1>3. DeviceType'
    BY DEF DeviceType
  <1>4. LockDiscipline'
    BY DEF ServiceType, DeviceType, LockDiscipline
  <1>5. HeapHeld'
    BY DEF HeapHeld, RespHeld
  <1>6. RecentRing(ring, subs)'
    OBVIOUS
  <1>7. QED
    BY <1>1, <1>2, <1>3, <1>4, <1>5, <1>6

LEMMA RefuseGateStep == IInv /\ GateRefuses => IInv'
  <1> SUFFICES ASSUME IInv, GateRefuses PROVE IInv'
    OBVIOUS
  <1> USE EventsAssumption DEF IInv, TypeOK, subVars, pullVars, handlerVars, otherVars,
      GateRefuses
  <1>1. ServiceType'
    BY DEF ServiceType
  <1>2. HandlerType'
    <2>1. heap' \in [Blocks -> Int]
      BY BodyFreed DEF RespHeld
    <2>2. QED
      BY <2>1 DEF HandlerType
  <1>3. DeviceType'
    BY DEF DeviceType
  <1>4. LockDiscipline'
    BY DEF ServiceType, DeviceType, LockDiscipline
  <1>5. HeapHeld'
    BY BodyFreed DEF RespHeld
  <1>6. RecentRing(ring, subs)'
    OBVIOUS
  <1>7. QED
    BY <1>1, <1>2, <1>3, <1>4, <1>5, <1>6

LEMMA BeginStep ==
    ASSUME NEW m \in Bodies, NEW v \in MessageLimits, IInv, BeginRequest(m, v)
    PROVE  IInv'
  <1> USE EventsAssumption DEF IInv, TypeOK, subVars, pullVars, handlerVars, otherVars,
      BeginRequest
  <1>1. ServiceType'
    BY DEF ServiceType
  <1>2. HandlerType'
    <2>1. op' \in {"unsupported"} \cup ActionNames
      BY DispatchType
    <2>2. limit' \in 1 .. PullMax
      BY DEF PullLimit
    <2>3. pc' \in {"now", "lock", "end", "static"} /\ UNCHANGED heap
      OBVIOUS
    <2>4. QED
      BY <2>1, <2>2, <2>3 DEF HandlerType
  <1>3. DeviceType'
    BY DEF DeviceType
  <1>4. LockDiscipline'
    BY DEF ServiceType, DeviceType, LockDiscipline
  <1>5. HeapHeld'
    <2>1. pc' \in {"now", "end", "static"} \/ (pc' = "lock" /\ op' = "Unsubscribe")
      OBVIOUS
    <2>2. ~RespHeld /\ ~RespHeld'
      BY <2>1 DEF RespHeld
    <2>3. QED
      BY <2>1, <2>2 DEF HeapHeld
  <1>6. RecentRing(ring, subs)'
    OBVIOUS
  <1>7. QED
    BY <1>1, <1>2, <1>3, <1>4, <1>5, <1>6

LEMMA BuildStaticStep == IInv /\ BuildStatic => IInv'
  <1> SUFFICES ASSUME IInv, BuildStatic PROVE IInv'
    OBVIOUS
  <1> USE EventsAssumption DEF IInv, TypeOK, subVars, pullVars, handlerVars, otherVars,
      BuildStatic
  <1>1. ServiceType'
    BY DEF ServiceType
  <1>2. HandlerType'
    <2>1. heap' \in [Blocks -> Int]
      BY RespAllocated DEF RespHeld
    <2>2. QED
      BY <2>1 DEF HandlerType
  <1>3. DeviceType'
    BY DEF DeviceType
  <1>4. LockDiscipline'
    BY DEF ServiceType, DeviceType, LockDiscipline
  <1>5. HeapHeld'
    BY RespAllocated DEF RespHeld
  <1>6. RecentRing(ring, subs)'
    OBVIOUS
  <1>7. QED
    BY <1>1, <1>2, <1>3, <1>4, <1>5, <1>6

LEMMA StaticOutStep == IInv /\ StaticOutOfMemory => IInv'
  <1> SUFFICES ASSUME IInv, StaticOutOfMemory PROVE IInv'
    OBVIOUS
  <1> USE EventsAssumption DEF IInv, TypeOK, subVars, pullVars, handlerVars, otherVars,
      StaticOutOfMemory
  <1>1. ServiceType'
    BY DEF ServiceType
  <1>2. HandlerType'
    <2>1. heap' \in [Blocks -> Int]
      BY BodyFreed DEF RespHeld
    <2>2. QED
      BY <2>1 DEF HandlerType
  <1>3. DeviceType'
    BY DEF DeviceType
  <1>4. LockDiscipline'
    BY DEF ServiceType, DeviceType, LockDiscipline
  <1>5. HeapHeld'
    BY BodyFreed DEF RespHeld
  <1>6. RecentRing(ring, subs)'
    OBVIOUS
  <1>7. QED
    BY <1>1, <1>2, <1>3, <1>4, <1>5, <1>6

LEMMA SendStaticStep == IInv /\ SendStatic => IInv'
  <1> SUFFICES ASSUME IInv, SendStatic PROVE IInv'
    OBVIOUS
  <1> USE EventsAssumption DEF IInv, TypeOK, subVars, pullVars, handlerVars, otherVars,
      SendStatic
  <1>1. ServiceType'
    BY DEF ServiceType
  <1>2. HandlerType'
    <2>1. heap' \in [Blocks -> Int]
      BY RespFreed DEF RespHeld
    <2>2. QED
      BY <2>1 DEF HandlerType
  <1>3. DeviceType'
    BY DEF DeviceType
  <1>4. LockDiscipline'
    BY DEF ServiceType, DeviceType, LockDiscipline
  <1>5. HeapHeld'
    BY RespFreed DEF RespHeld
  <1>6. RecentRing(ring, subs)'
    OBVIOUS
  <1>7. QED
    BY <1>1, <1>2, <1>3, <1>4, <1>5, <1>6

LEMMA FinishStep == IInv /\ Finish => IInv'
  <1> SUFFICES ASSUME IInv, Finish PROVE IInv'
    OBVIOUS
  <1> USE EventsAssumption DEF IInv, TypeOK, subVars, pullVars, handlerVars, otherVars,
      Finish
  <1>1. ServiceType'
    BY DEF ServiceType
  <1>2. HandlerType'
    <2>1. heap' \in [Blocks -> Int]
      BY BodyFreed DEF RespHeld
    <2>2. QED
      BY <2>1 DEF HandlerType
  <1>3. DeviceType'
    BY DEF DeviceType
  <1>4. LockDiscipline'
    BY DEF ServiceType, DeviceType, LockDiscipline
  <1>5. HeapHeld'
    BY BodyFreed DEF RespHeld
  <1>6. RecentRing(ring, subs)'
    OBVIOUS
  <1>7. QED
    BY <1>1, <1>2, <1>3, <1>4, <1>5, <1>6

LEMMA ReadNowStep == IInv /\ ReadNow => IInv'
  <1> SUFFICES ASSUME IInv, ReadNow PROVE IInv'
    OBVIOUS
  <1> USE EventsAssumption DEF IInv, TypeOK, subVars, pullVars, handlerVars, otherVars,
      ReadNow
  <1>1. ServiceType'
    BY DEF ServiceType
  <1>2. HandlerType'
    <2>1. heap' \in [Blocks -> Int] /\ off' \in Nat
      BY HeapMalloc DEF HandlerType, Blocks
    <2>2. now' \in Int
      BY DEF DeviceType
    <2>3. QED
      BY <2>1, <2>2 DEF HandlerType
  <1>3. DeviceType'
    BY DEF DeviceType
  <1>4. LockDiscipline'
    BY DEF ServiceType, DeviceType, LockDiscipline
  <1>5. HeapHeld'
    <2>1. CASE op = "PullMessages"
      BY <2>1, RespAllocated DEF RespHeld
    <2>2. CASE op # "PullMessages"
      BY <2>2 DEF HeapHeld, RespHeld
    <2>3. QED
      BY <2>1, <2>2
  <1>6. RecentRing(ring, subs)'
    OBVIOUS
  <1>7. QED
    BY <1>1, <1>2, <1>3, <1>4, <1>5, <1>6

LEMMA OutOfMemoryStep == IInv /\ PullOutOfMemory => IInv'
  <1> SUFFICES ASSUME IInv, PullOutOfMemory PROVE IInv'
    OBVIOUS
  <1> USE EventsAssumption DEF IInv, TypeOK, subVars, pullVars, handlerVars, otherVars,
      PullOutOfMemory
  <1>1. ServiceType'
    BY ReturnType DEF HandlerType
  <1>2. HandlerType'
    BY ReturnType DEF HandlerType
  <1>3. DeviceType'
    BY DEF DeviceType, HandlerReturns
  <1>4. LockDiscipline'
    BY DEF ServiceType, DeviceType, LockDiscipline, HandlerReturns
  <1>5. HeapHeld'
    BY DEF HeapHeld, RespHeld, HandlerReturns
  <1>6. RecentRing(ring, subs)'
    BY DEF HandlerReturns
  <1>7. QED
    BY <1>1, <1>2, <1>3, <1>4, <1>5, <1>6

LEMMA LockStep == IInv /\ Lock => IInv'
  <1> SUFFICES ASSUME IInv, Lock PROVE IInv'
    OBVIOUS
  <1> USE EventsAssumption DEF IInv, TypeOK, subVars, pullVars, handlerVars, otherVars,
      Lock
  <1>1. ServiceType'
    BY DEF ServiceType
  <1>2. HandlerType'
    BY DEF HandlerType
  <1>3. DeviceType'
    BY DEF DeviceType
  <1>4. LockDiscipline'
    BY DEF ServiceType, DeviceType, LockDiscipline
  <1>5. HeapHeld'
    BY DEF HeapHeld, RespHeld
  <1>6. RecentRing(ring, subs)'
    OBVIOUS
  <1>7. QED
    BY <1>1, <1>2, <1>3, <1>4, <1>5, <1>6

LEMMA CreateStep == IInv /\ CreatePullPoint => IInv'
  <1> SUFFICES ASSUME IInv, CreatePullPoint PROVE IInv'
    OBVIOUS
  <1> USE EventsAssumption DEF IInv, TypeOK, subVars, pullVars, handlerVars, otherVars,
      CreatePullPoint, Unlock
  <1>1. ServiceType'
    <2>1. now + Lifetime \in Int
      BY DEF HandlerType
    <2>2. Reset(ring) \in Ring(MotionEvent)
      BY RecentAfterReset DEF ServiceType, RecentRing
    <2>3. QED
      BY <2>1, <2>2 DEF ServiceType, HandlerType
  <1>2. HandlerType'
    BY DEF HandlerType
  <1>3. DeviceType'
    BY DEF DeviceType
  <1>4. LockDiscipline'
    BY DEF ServiceType, DeviceType, LockDiscipline
  <1>5. HeapHeld'
    BY DEF HeapHeld, RespHeld
  <1>6. RecentRing(ring, subs)'
    BY RecentAfterReset DEF ServiceType
  <1>7. QED
    BY <1>1, <1>2, <1>3, <1>4, <1>5, <1>6

LEMMA RefuseStep == IInv /\ RefuseExpired => IInv'
  <1> SUFFICES ASSUME IInv, RefuseExpired PROVE IInv'
    OBVIOUS
  <1> USE EventsAssumption DEF IInv, TypeOK, subVars, pullVars, handlerVars, otherVars,
      RefuseExpired, Unlock
  <1>1. ServiceType'
    BY DEF ServiceType
  <1>2. HandlerType'
    BY DEF HandlerType
  <1>3. DeviceType'
    BY DEF DeviceType
  <1>4. LockDiscipline'
    BY DEF ServiceType, DeviceType, LockDiscipline
  <1>5. HeapHeld'
    BY DEF HeapHeld, RespHeld
  <1>6. RecentRing(ring, subs)'
    OBVIOUS
  <1>7. QED
    BY <1>1, <1>2, <1>3, <1>4, <1>5, <1>6

LEMMA RenewStep == IInv /\ Renew => IInv'
  <1> SUFFICES ASSUME IInv, Renew PROVE IInv'
    OBVIOUS
  <1> USE EventsAssumption DEF IInv, TypeOK, subVars, pullVars, handlerVars, otherVars,
      Renew, Unlock
  <1>1. ServiceType'
    <2>1. now + Lifetime \in Int
      BY DEF HandlerType
    <2>2. QED
      BY <2>1 DEF ServiceType, HandlerType
  <1>2. HandlerType'
    BY DEF HandlerType
  <1>3. DeviceType'
    BY DEF DeviceType
  <1>4. LockDiscipline'
    BY DEF ServiceType, DeviceType, LockDiscipline
  <1>5. HeapHeld'
    BY DEF HeapHeld, RespHeld
  <1>6. RecentRing(ring, subs)'
    OBVIOUS
  <1>7. QED
    BY <1>1, <1>2, <1>3, <1>4, <1>5, <1>6

LEMMA PullStep == IInv /\ PullMessages => IInv'
  <1> SUFFICES ASSUME IInv, PullMessages PROVE IInv'
    OBVIOUS
  <1> USE EventsAssumption DEF IInv, TypeOK, subVars, pullVars, handlerVars, otherVars,
      PullMessages
  <1>1. ServiceType'
    BY DEF ServiceType, HandlerType
  <1>2. HandlerType'
    BY DEF HandlerType
  <1>3. DeviceType'
    BY DEF DeviceType
  <1>4. LockDiscipline'
    BY DEF ServiceType, DeviceType, LockDiscipline
  <1>5. HeapHeld'
    BY DEF HeapHeld, RespHeld
  <1>6. RecentRing(ring, subs)'
    OBVIOUS
  <1>7. QED
    BY <1>1, <1>2, <1>3, <1>4, <1>5, <1>6

LEMMA PopStep == IInv /\ PopEvent => IInv'
  <1> SUFFICES ASSUME IInv, PopEvent PROVE IInv'
    OBVIOUS
  <1> USE EventsAssumption DEF IInv, TypeOK, subVars, pullVars, handlerVars, otherVars,
      PopEvent, MoreToPull
  <1>1. ServiceType'
    BY RecentAfterPop DEF ServiceType, RecentRing
  <1>2. HandlerType'
    <2>1. off' \in Nat
      BY DEF HandlerType
    <2>2. Oldest(ring) \in MotionEvent
      BY RecentAfterPop
    <2>3. out' \in Seq(MotionEvent)
      BY <2>2 DEF HandlerType
    <2>4. QED
      BY <2>1, <2>3 DEF HandlerType
  <1>3. DeviceType'
    BY DEF DeviceType
  <1>4. LockDiscipline'
    BY DEF ServiceType, DeviceType, LockDiscipline
  <1>5. HeapHeld'
    BY DEF HeapHeld, RespHeld
  <1>6. RecentRing(ring, subs)'
    BY RecentAfterPop
  <1>7. QED
    BY <1>1, <1>2, <1>3, <1>4, <1>5, <1>6

LEMMA EndPullStep == IInv /\ EndPull => IInv'
  <1> SUFFICES ASSUME IInv, EndPull PROVE IInv'
    OBVIOUS
  <1> USE EventsAssumption DEF IInv, TypeOK, subVars, pullVars, handlerVars, otherVars,
      EndPull, Unlock
  <1>1. ServiceType'
    BY DEF ServiceType
  <1>2. HandlerType'
    BY DEF HandlerType
  <1>3. DeviceType'
    BY DEF DeviceType
  <1>4. LockDiscipline'
    BY DEF ServiceType, DeviceType, LockDiscipline
  <1>5. HeapHeld'
    BY DEF HeapHeld, RespHeld
  <1>6. RecentRing(ring, subs)'
    OBVIOUS
  <1>7. QED
    BY <1>1, <1>2, <1>3, <1>4, <1>5, <1>6

LEMMA UnsubscribeStep == IInv /\ Unsubscribe => IInv'
  <1> SUFFICES ASSUME IInv, Unsubscribe PROVE IInv'
    OBVIOUS
  <1> USE EventsAssumption DEF IInv, TypeOK, subVars, pullVars, handlerVars, otherVars,
      Unsubscribe, Unlock
  <1>1. ServiceType'
    BY DEF ServiceType
  <1>2. HandlerType'
    BY DEF HandlerType
  <1>3. DeviceType'
    BY DEF DeviceType
  <1>4. LockDiscipline'
    BY DEF ServiceType, DeviceType, LockDiscipline
  <1>5. HeapHeld'
    BY DEF HeapHeld, RespHeld
  <1>6. RecentRing(ring, subs)'
    OBVIOUS
  <1>7. QED
    BY <1>1, <1>2, <1>3, <1>4, <1>5, <1>6

LEMMA AcknowledgeStep == IInv /\ Acknowledge => IInv'
  <1> SUFFICES ASSUME IInv, Acknowledge PROVE IInv'
    OBVIOUS
  <1> USE EventsAssumption DEF IInv, TypeOK, subVars, pullVars, handlerVars, otherVars,
      Acknowledge
  <1>1. ServiceType'
    BY ReturnType DEF HandlerType
  <1>2. HandlerType'
    BY ReturnType DEF HandlerType
  <1>3. DeviceType'
    BY DEF DeviceType, HandlerReturns
  <1>4. LockDiscipline'
    BY DEF ServiceType, DeviceType, LockDiscipline, HandlerReturns
  <1>5. HeapHeld'
    BY DEF HeapHeld, RespHeld, HandlerReturns
  <1>6. RecentRing(ring, subs)'
    BY DEF HandlerReturns
  <1>7. QED
    BY <1>1, <1>2, <1>3, <1>4, <1>5, <1>6

LEMMA AnswerExpiredStep == IInv /\ AnswerExpired => IInv'
  <1> SUFFICES ASSUME IInv, AnswerExpired PROVE IInv'
    OBVIOUS
  <1> USE EventsAssumption DEF IInv, TypeOK, subVars, pullVars, handlerVars, otherVars,
      AnswerExpired
  <1>0. HeapHeld' /\ heap' \in [Blocks -> Int]
    BY RespFreed DEF RespHeld, HandlerReturns
  <1>1. ServiceType'
    BY <1>0, ReturnType
  <1>2. HandlerType'
    BY <1>0, ReturnType
  <1>3. DeviceType'
    BY DEF DeviceType, HandlerReturns
  <1>4. LockDiscipline'
    BY DEF ServiceType, DeviceType, LockDiscipline, HandlerReturns
  <1>5. HeapHeld'
    BY <1>0
  <1>6. RecentRing(ring, subs)'
    BY DEF HandlerReturns
  <1>7. QED
    BY <1>1, <1>2, <1>3, <1>4, <1>5, <1>6

LEMMA AnswerTruncatedStep == IInv /\ AnswerTruncated => IInv'
  <1> SUFFICES ASSUME IInv, AnswerTruncated PROVE IInv'
    OBVIOUS
  <1> USE EventsAssumption DEF IInv, TypeOK, subVars, pullVars, handlerVars, otherVars,
      AnswerTruncated
  <1>0. HeapHeld' /\ heap' \in [Blocks -> Int]
    BY RespFreed DEF RespHeld, HandlerReturns
  <1>1. ServiceType'
    BY <1>0, ReturnType
  <1>2. HandlerType'
    BY <1>0, ReturnType
  <1>3. DeviceType'
    BY DEF DeviceType, HandlerReturns
  <1>4. LockDiscipline'
    BY DEF ServiceType, DeviceType, LockDiscipline, HandlerReturns
  <1>5. HeapHeld'
    BY <1>0
  <1>6. RecentRing(ring, subs)'
    BY DEF HandlerReturns
  <1>7. QED
    BY <1>1, <1>2, <1>3, <1>4, <1>5, <1>6

LEMMA AnswerUnclosedStep == IInv /\ AnswerUnclosed => IInv'
  <1> SUFFICES ASSUME IInv, AnswerUnclosed PROVE IInv'
    OBVIOUS
  <1> USE EventsAssumption DEF IInv, TypeOK, subVars, pullVars, handlerVars, otherVars,
      AnswerUnclosed
  <1>0. HeapHeld' /\ heap' \in [Blocks -> Int]
    BY RespFreed DEF RespHeld, HandlerReturns
  <1>1. ServiceType'
    BY <1>0, ReturnType
  <1>2. HandlerType'
    BY <1>0, ReturnType
  <1>3. DeviceType'
    BY DEF DeviceType, HandlerReturns
  <1>4. LockDiscipline'
    BY DEF ServiceType, DeviceType, LockDiscipline, HandlerReturns
  <1>5. HeapHeld'
    BY <1>0
  <1>6. RecentRing(ring, subs)'
    BY DEF HandlerReturns
  <1>7. QED
    BY <1>1, <1>2, <1>3, <1>4, <1>5, <1>6

LEMMA AnswerPullStep == IInv /\ AnswerPull => IInv'
  <1> SUFFICES ASSUME IInv, AnswerPull PROVE IInv'
    OBVIOUS
  <1> USE EventsAssumption DEF IInv, TypeOK, subVars, pullVars, handlerVars, otherVars,
      AnswerPull
  <1>0. HeapHeld' /\ heap' \in [Blocks -> Int]
    BY RespFreed DEF RespHeld, HandlerReturns
  <1>1. ServiceType'
    BY <1>0, ReturnType
  <1>2. HandlerType'
    BY <1>0, ReturnType
  <1>3. DeviceType'
    <2>1. received \o out \in Seq(MotionEvent)
      BY DEF HandlerType, DeviceType
    <2>2. QED
      BY <2>1 DEF DeviceType, HandlerReturns
  <1>4. LockDiscipline'
    BY DEF ServiceType, DeviceType, LockDiscipline, HandlerReturns
  <1>5. HeapHeld'
    BY <1>0
  <1>6. RecentRing(ring, subs)'
    BY DEF HandlerReturns
  <1>7. QED
    BY <1>1, <1>2, <1>3, <1>4, <1>5, <1>6

LEMMA MotionStep ==
    ASSUME NEW p \in Producers, IInv, Motion(p)
    PROVE  IInv'
  <1> USE EventsAssumption DEF IInv, TypeOK, subVars, pullVars, handlerVars, otherVars,
      Motion
  <1>1. ServiceType'
    BY DEF ServiceType
  <1>2. HandlerType'
    BY DEF HandlerType
  <1>3. DeviceType'
    BY DEF DeviceType
  <1>4. LockDiscipline'
    BY DEF ServiceType, DeviceType, LockDiscipline
  <1>5. HeapHeld'
    BY DEF HeapHeld, RespHeld
  <1>6. RecentRing(ring, subs)'
    OBVIOUS
  <1>7. QED
    BY <1>1, <1>2, <1>3, <1>4, <1>5, <1>6

LEMMA TryLockStep ==
    ASSUME NEW p \in Producers, IInv, TryLock(p)
    PROVE  IInv'
  <1> USE EventsAssumption DEF IInv, TypeOK, subVars, pullVars, handlerVars, otherVars,
      TryLock
  <1>1. ServiceType'
    BY DEF ServiceType
  <1>2. HandlerType'
    BY DEF HandlerType
  <1>3. DeviceType'
    BY DEF DeviceType
  <1>4. LockDiscipline'
    BY DEF ServiceType, DeviceType, LockDiscipline
  <1>5. HeapHeld'
    BY DEF HeapHeld, RespHeld
  <1>6. RecentRing(ring, subs)'
    OBVIOUS
  <1>7. QED
    BY <1>1, <1>2, <1>3, <1>4, <1>5, <1>6

LEMMA PushStep ==
    ASSUME NEW p \in Producers, IInv, PushMotion(p)
    PROVE  IInv'
  <1> USE EventsAssumption DEF IInv, TypeOK, subVars, pullVars, handlerVars, otherVars,
      PushMotion
  <1>0. RecentRing(ring', subs)
    BY RecentAfterPush DEF DeviceType, NewEvent
  <1>1. ServiceType'
    BY <1>0 DEF ServiceType, RecentRing
  <1>2. HandlerType'
    BY DEF HandlerType
  <1>3. DeviceType'
    BY DEF DeviceType
  <1>4. LockDiscipline'
    BY DEF ServiceType, DeviceType, LockDiscipline
  <1>5. HeapHeld'
    BY DEF HeapHeld, RespHeld
  <1>6. RecentRing(ring, subs)'
    BY <1>0
  <1>7. QED
    BY <1>1, <1>2, <1>3, <1>4, <1>5, <1>6

LEMMA TickStep == IInv /\ Tick => IInv'
  <1> SUFFICES ASSUME IInv, Tick PROVE IInv'
    OBVIOUS
  <1> USE EventsAssumption DEF IInv, TypeOK, subVars, pullVars, handlerVars, otherVars,
      Tick
  <1>1. ServiceType'
    BY DEF ServiceType
  <1>2. HandlerType'
    BY DEF HandlerType
  <1>3. DeviceType'
    BY DEF DeviceType
  <1>4. LockDiscipline'
    BY DEF ServiceType, DeviceType, LockDiscipline
  <1>5. HeapHeld'
    BY DEF HeapHeld, RespHeld
  <1>6. RecentRing(ring, subs)'
    OBVIOUS
  <1>7. QED
    BY <1>1, <1>2, <1>3, <1>4, <1>5, <1>6

LEMMA StepClockStep ==
    ASSUME NEW t \in ClockSteps, IInv, StepClock(t)
    PROVE  IInv'
  <1> USE EventsAssumption DEF IInv, TypeOK, subVars, pullVars, handlerVars, otherVars,
      StepClock
  <1>1. ServiceType'
    BY DEF ServiceType
  <1>2. HandlerType'
    BY DEF HandlerType
  <1>3. DeviceType'
    BY DEF DeviceType
  <1>4. LockDiscipline'
    BY DEF ServiceType, DeviceType, LockDiscipline
  <1>5. HeapHeld'
    BY DEF HeapHeld, RespHeld
  <1>6. RecentRing(ring, subs)'
    OBVIOUS
  <1>7. QED
    BY <1>1, <1>2, <1>3, <1>4, <1>5, <1>6

LEMMA IInvNext == IInv /\ [Next]_vars => IInv'
  <1> SUFFICES ASSUME IInv, [Next]_vars PROVE IInv'
    OBVIOUS
  <1>1. CASE onvif_c_events_register
    BY <1>1, RegisterStep
  <1>2. CASE ReadBody
    BY <1>2, ReadBodyStep
  <1>3. CASE Handle
    <2>1. CASE Admit \/ Dispatched
      BY <2>1, ReceiveFailsStep, BodyReceivedStep, RefuseGateStep, BeginStep
      DEF Admit, Dispatched
    <2>2. CASE Static
      BY <2>2, BuildStaticStep, StaticOutStep, SendStaticStep DEF Static
    <2>3. CASE Answer
      BY <2>3, AcknowledgeStep, AnswerExpiredStep, AnswerTruncatedStep, AnswerUnclosedStep,
         AnswerPullStep DEF Answer
    <2>4. QED
      BY <1>3, <2>1, <2>2, <2>3, ReadNowStep, OutOfMemoryStep, LockStep, CreateStep, RefuseStep,
         RenewStep, PullStep, PopStep, EndPullStep, UnsubscribeStep, FinishStep DEF Handle
  <1>4. CASE \E p \in Producers : Motion(p) \/ Produce(p)
    BY <1>4, MotionStep, TryLockStep, PushStep DEF Produce
  <1>5. CASE Environment
    BY <1>5, TickStep, StepClockStep DEF Environment
  <1>6. CASE UNCHANGED vars
    BY <1>6 DEF IInv, TypeOK, ServiceType, HandlerType, DeviceType, LockDiscipline, HeapHeld,
       RespHeld, vars, subVars, pullVars, handlerVars, otherVars
  <1>7. QED
    BY <1>1, <1>2, <1>3, <1>4, <1>5, <1>6 DEF Next

LEMMA EventsInvariant == Spec => []IInv
  BY IInvInit, IInvNext, PTL DEF Spec

(* Every variable of the events service keeps its type, whatever producers *)
(* and requests do: onvif_c_events.c.                                      *)
THEOREM EventsTypeCorrect == Spec => []TypeOK
  <1>1. IInv => TypeOK
    BY DEF IInv
  <1>2. QED
    BY <1>1, EventsInvariant, PTL

(* The mutex s_ev.mtx is held by the task inside its critical section and  *)
(* by nobody else: no two tasks touch the subscription or the ring at once. *)
THEOREM EventsMutualExclusion == Spec => []LockDiscipline
  <1>1. IInv => LockDiscipline
    BY DEF IInv
  <1>2. QED
    BY <1>1, EventsInvariant, PTL

(* The ring always holds the most recent events of the current             *)
(* subscription, in order and without gaps, and none of a former one.      *)
THEOREM EventsRingRecent == Spec => []RingIsRecent
  <1>1. IInv => RingIsRecent
    BY DEF IInv, RecentRing, RingIsRecent
  <1>2. QED
    BY <1>1, EventsInvariant, PTL

(* On every path through the handlers each block is allocated and freed    *)
(* once, and not before its last use.                                      *)
THEOREM EventsNoLeak == Spec => []NoLeak
  <1>1. IInv => NoLeak
    BY DEF IInv, HeapHeld, RespHeld, NoLeak, Blocks
  <1>2. QED
    BY <1>1, EventsInvariant, PTL
=============================================================================
