----------------------------- MODULE RingBuffer ------------------------------
(***************************************************************************)
(* One onvif_c_event_ring_t under any sequence of reset, push and pop, the *)
(* way its callers use it (one operation at a time, under the events       *)
(* mutex), shown to implement MotionQueue.                                 *)
(***************************************************************************)
EXTENDS EventRing

CONSTANTS
    Event,          \* onvif_c_event_t: what is pushed
    MaxGenerated    \* bound on `generated`, which nothing else limits

ASSUME MaxGeneratedAssumption == MaxGenerated \in Nat

VARIABLES
    ring,
    popped    \* what the last successful pop copied to *out

vars == <<ring, popped>>

Init == ring = ZeroRing /\ popped = NoEvent

onvif_c_ring_reset == ring' = Reset(ring) /\ UNCHANGED popped

onvif_c_ring_push(e) ==
    /\ ring.generated < MaxGenerated
    /\ ring' = Push(ring, e)
    /\ UNCHANGED popped

(* An empty ring returns false and changes nothing: a stutter.             *)
onvif_c_ring_pop ==
    /\ CanPop(ring)
    /\ popped' = Oldest(ring)
    /\ ring' = Pop(ring)

Next ==
    \/ onvif_c_ring_reset
    \/ onvif_c_ring_pop
    \/ \E e \in Event : onvif_c_ring_push(e)

Spec == Init /\ [][Next]_vars

(* The slots of the window hold events, whatever wrapped around them, and  *)
(* the ring never holds more than was pushed since the last reset.         *)
TypeOK ==
    /\ ring \in Ring(Event)
    /\ popped \in Event \cup {NoEvent}
    /\ Contents(ring) \in Seq(Event)
    /\ ring.count <= ring.generated

(* The ring is a drop-oldest FIFO: modulo arithmetic, the order of the     *)
(* drop and the store, and stale slots outside the window never show.      *)
Queue == INSTANCE MotionQueue WITH queue <- Contents(ring)
ImplementsQueue == Queue!Spec
=============================================================================
