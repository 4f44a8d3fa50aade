-------------------------- MODULE RingBufferProofs ---------------------------
(***************************************************************************)
(* The motion event ring implements the drop-oldest FIFO, for every depth  *)
(* and every kind of event.                                                *)
(***************************************************************************)
EXTENDS RingBuffer, EventRingProofs

(* The window holds events only, and no more than were generated.          *)
Inv ==
    /\ ring \in Ring(Event)
    /\ Filled(ring, Event)
    /\ popped \in Event \cup {NoEvent}
    /\ ring.count <= ring.generated

LEMMA InvInit == Init => Inv /\ Contents(ring) = << >>
  <1>1. ZeroRing \in Ring(Event) /\ ZeroRing.count = 0 /\ ZeroRing.generated = 0
    BY QueueMaxAssumption DEF ZeroRing, Ring, Slots
  <1>2. QED
    BY <1>1 DEF Init, Inv, Filled, Contents

LEMMA ResetStep == Inv /\ onvif_c_ring_reset => Inv' /\ Queue!Clear
  <1> SUFFICES ASSUME Inv, onvif_c_ring_reset PROVE Inv' /\ Queue!Clear
    OBVIOUS
  <1>1. ring' = Reset(ring) /\ popped' = popped
    BY DEF onvif_c_ring_reset
  <1>2. ring' \in Ring(Event) /\ Filled(ring, Event)' /\ Contents(ring)' = << >>
    BY <1>1, ResetIsClear DEF Inv, Filled, Contents, SlotAt
  <1>3. ring'.count = 0 /\ ring'.generated = 0
    BY <1>1 DEF Reset
  <1>4. QED
    BY <1>1, <1>2, <1>3 DEF Inv, Queue!Clear

LEMMA PopStep == Inv /\ onvif_c_ring_pop => Inv' /\ Queue!Dequeue
  <1> SUFFICES ASSUME Inv, onvif_c_ring_pop PROVE Inv' /\ Queue!Dequeue
    OBVIOUS
  <1>1. ring' = Pop(ring) /\ popped' = Oldest(ring) /\ CanPop(ring)
    BY DEF onvif_c_ring_pop
  <1>2. /\ Pop(ring) \in Ring(Event) /\ Filled(Pop(ring), Event)
        /\ Oldest(ring) \in Event /\ Oldest(ring) = Head(Contents(ring))
        /\ Contents(Pop(ring)) = Tail(Contents(ring))
    BY <1>1, PopIsDequeue DEF Inv
  <1>3. Filled(ring, Event)' /\ Contents(ring)' = Tail(Contents(ring))
    BY <1>1, <1>2 DEF Filled, Contents, SlotAt
  <1>4. ring'.count <= ring'.generated
    BY <1>1 DEF Pop, DropOldest, Inv, Ring
  <1>5. Contents(ring) # << >>
    <2>1. Contents(ring) \in Seq(Event) /\ Len(Contents(ring)) = ring.count
      BY ContentsType DEF Inv
    <2>2. ring.count # 0
      BY <1>1 DEF CanPop
    <2>3. QED
      BY <2>1, <2>2
  <1>6. QED
    BY <1>1, <1>2, <1>3, <1>4, <1>5 DEF Inv, Queue!Dequeue

LEMMA PushStep ==
    ASSUME NEW e \in Event, Inv, onvif_c_ring_push(e)
    PROVE  Inv' /\ Queue!Enqueue(e)
  <1>1. ring' = Push(ring, e) /\ popped' = popped
    BY DEF onvif_c_ring_push
  <1>2. /\ Push(ring, e) \in Ring(Event) /\ Filled(Push(ring, e), Event)
        /\ Contents(Push(ring, e)) =
             Append(IF Len(Contents(ring)) = QueueMax THEN Tail(Contents(ring))
                                                      ELSE Contents(ring), e)
        /\ Push(ring, e).generated = ring.generated + 1
        /\ Push(ring, e).count = IF ring.count = QueueMax THEN QueueMax
                                                          ELSE ring.count + 1
    BY PushIsEnqueue DEF Inv
  <1>3. /\ Filled(ring, Event)'
        /\ Contents(ring)' = Append(Queue!MakeRoom(Contents(ring)), e)
    BY <1>1, <1>2 DEF Filled, Contents, SlotAt, Queue!MakeRoom
  <1>4. ring'.count <= ring'.generated
    <2>1. /\ ring.count \in Nat /\ ring.generated \in Nat
          /\ ring.count <= ring.generated
      BY DEF Inv, Ring
    <2>2. QED
      BY <1>1, <1>2, <2>1
  <1>5. QED
    BY <1>1, <1>2, <1>3, <1>4 DEF Inv, Queue!Enqueue

LEMMA StepRefines == Inv /\ [Next]_vars => Inv' /\ [Queue!Next]_<<Contents(ring), popped>>
  <1> SUFFICES ASSUME Inv, [Next]_vars
               PROVE  Inv' /\ [Queue!Next]_<<Contents(ring), popped>>
    OBVIOUS
  <1>1. CASE onvif_c_ring_reset
    BY <1>1, ResetStep DEF Queue!Next
  <1>2. CASE onvif_c_ring_pop
    BY <1>2, PopStep DEF Queue!Next
  <1>3. CASE \E e \in Event : onvif_c_ring_push(e)
    <2>1. PICK e \in Event : onvif_c_ring_push(e)
      BY <1>3
    <2>2. Inv' /\ Queue!Enqueue(e)
      BY <2>1, PushStep
    <2>3. QED
      BY <2>2 DEF Queue!Next
  <1>4. CASE UNCHANGED vars
    BY <1>4 DEF vars, Inv, Filled, Contents, SlotAt
  <1>5. QED
    BY <1>1, <1>2, <1>3, <1>4 DEF Next

(* The ring never leaves its array, never counts more events than it can   *)
(* hold or than were pushed, and its window never shows a slot that was    *)
(* not written since the last reset.                                       *)
THEOREM RingTypeCorrect == Spec => []TypeOK
  <1>1. Init => Inv
    BY InvInit
  <1>2. Inv /\ [Next]_vars => Inv'
    BY StepRefines
  <1>3. Inv => TypeOK
    BY ContentsType DEF Inv, TypeOK
  <1>4. QED
    BY <1>1, <1>2, <1>3, PTL DEF Spec

(* Reset, push and pop are clear, enqueue-dropping-the-oldest and dequeue  *)
(* of a bounded FIFO, whatever the depth.                                  *)
THEOREM RingImplementsQueue == Spec => ImplementsQueue
  <1>1. Init => Inv /\ Queue!Init
    BY InvInit DEF Init, Queue!Init
  <1>2. Inv /\ [Next]_vars => Inv' /\ [Queue!Next]_<<Contents(ring), popped>>
    BY StepRefines
  <1>3. QED
    BY <1>1, <1>2, PTL DEF Spec, ImplementsQueue, Queue!Spec
=============================================================================
