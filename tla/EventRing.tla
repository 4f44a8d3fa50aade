------------------------------ MODULE EventRing ------------------------------
(***************************************************************************)
(* The motion event ring, core/onvif_events_ring.{h,c}: a fixed array of   *)
(* QueueMax slots, the slot of the oldest event and the number of events   *)
(* held. Pushing into a full ring drops the oldest event. The ring has no  *)
(* synchronisation of its own; its callers hold the events mutex, so each  *)
(* operation is a function from ring to ring. There is no variable here:   *)
(* Events keeps one ring, RingBuffer drives one freely.                    *)
(***************************************************************************)
EXTENDS Integers, Sequences

CONSTANTS
    QueueMax,   \* ONVIF_C_EVENT_QUEUE_MAX, 12 in the code
    NoEvent     \* the contents of a slot never written (static storage, zeroed)

ASSUME QueueMaxAssumption == QueueMax \in Nat \ {0}

Slots == 0 .. QueueMax - 1

(* onvif_c_event_ring_t holding events of the set E. `generated` is a      *)
(* uint32_t that nothing in the code reads back; it is not wrapped here.   *)
Ring(E) == [q : [Slots -> E \cup {NoEvent}],
            head : Slots,
            count : 0 .. QueueMax,
            generated : Nat]

(* s_ev is static: before the first reset every field is zero.             *)
ZeroRing == [q |-> [s \in Slots |-> NoEvent], head |-> 0, count |-> 0, generated |-> 0]

(* The slot of the i-th event after the oldest one.                        *)
SlotAt(r, i) == (r.head + i) % QueueMax

(* Mutant of onvif_c_ring_reset: the count survives.                       *)
ResetKeepsCount(r) == [q |-> r.q, head |-> 0, count |-> r.count, generated |-> 0]

Reset(r) == [q |-> r.q, head |-> 0, count |-> 0, generated |-> 0]

DropOldest(r) ==
    [q |-> r.q,
     head |-> SlotAt(r, 1),
     count |-> r.count - 1,
     generated |-> r.generated]

Store(r, e) ==
    [q |-> [r.q EXCEPT ![SlotAt(r, r.count)] = e],
     head |-> r.head,
     count |-> r.count + 1,
     generated |-> r.generated + 1]

(* Mutants of onvif_c_ring_push: a full ring overwriting its head in place, *)
(* and a full ring storing without dropping.                               *)
PushInPlace(r, e) ==
    IF r.count = QueueMax
    THEN [r EXCEPT !.q[r.head] = e, !.generated = r.generated + 1]
    ELSE Store(r, e)

PushWithoutDrop(r, e) == Store(r, e)

Push(r, e) == Store(IF r.count = QueueMax THEN DropOldest(r) ELSE r, e)

CanPop(r) == r.count # 0

(* Mutants of onvif_c_ring_pop: the newest event, and one left in place.   *)
Newest(r) == r.q[SlotAt(r, r.count - 1)]

Peek(r) == r

Oldest(r) == r.q[r.head]

Pop(r) == DropOldest(r)

(* The events held, oldest first: what a ring stands for.                  *)
Contents(r) == [i \in 1 .. r.count |-> r.q[SlotAt(r, i - 1)]]
=============================================================================
