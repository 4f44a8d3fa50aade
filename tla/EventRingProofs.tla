--------------------------- MODULE EventRingProofs ---------------------------
(***************************************************************************)
(* The ring operations as operations on the sequence of events held, for   *)
(* every QueueMax: the modulo arithmetic of onvif_events_ring.c is a FIFO. *)
(***************************************************************************)
EXTENDS EventRing, SequenceTheorems, TLAPS

USE QueueMaxAssumption

(* Wrapping an index that overshoots the array by less than its length.    *)
LEMMA WrapIndex ==
    ASSUME NEW x \in 0 .. 2 * QueueMax - 1
    PROVE  x % QueueMax = IF x < QueueMax THEN x ELSE x - QueueMax
  OBVIOUS

(* Every slot the operations compute is a slot of the array.               *)
LEMMA SlotAtType ==
    ASSUME NEW E, NEW r \in Ring(E), NEW i \in 0 .. QueueMax
    PROVE  /\ SlotAt(r, i) = IF r.head + i < QueueMax THEN r.head + i
                                                      ELSE r.head + i - QueueMax
           /\ SlotAt(r, i) \in Slots
  <1>1. r.head \in Slots /\ r.head + i \in 0 .. 2 * QueueMax - 1
    BY DEF Ring, Slots
  <1>2. QED
    BY <1>1, WrapIndex DEF SlotAt, Slots

(* A ring whose window holds events only: the slots outside the window may *)
(* hold anything, stale events included.                                   *)
Filled(r, E) == \A i \in 0 .. r.count - 1 : r.q[SlotAt(r, i)] \in E

(* What a filled ring stands for is a sequence of events.                  *)
LEMMA ContentsType ==
    ASSUME NEW E, NEW r \in Ring(E), Filled(r, E)
    PROVE  /\ Contents(r) \in Seq(E)
           /\ Len(Contents(r)) = r.count
           /\ r.count \in 0 .. QueueMax
  <1>1. r.count \in 0 .. QueueMax /\ r.count \in Nat
    BY DEF Ring
  <1>2. ASSUME NEW i \in 1 .. r.count PROVE r.q[SlotAt(r, i - 1)] \in E
    <2>1. i - 1 \in 0 .. r.count - 1
      BY <1>1
    <2>2. QED
      BY <2>1 DEF Filled
  <1>3. Contents(r) \in [1 .. r.count -> E]
    BY <1>2 DEF Contents
  <1>4. QED
    BY <1>1, <1>3

(* Reset empties the ring, whatever it held.                               *)
LEMMA ResetIsClear ==
    ASSUME NEW E, NEW r \in Ring(E)
    PROVE  Reset(r) \in Ring(E) /\ Filled(Reset(r), E) /\ Contents(Reset(r)) = << >>
  <1>1. /\ Reset(r) \in Ring(E)
        /\ Reset(r).count = 0
    BY DEF Reset, Ring, Slots
  <1>2. QED
    BY <1>1 DEF Filled, Contents

(* Popping returns the oldest event and leaves the others, in order.       *)
LEMMA PopIsDequeue ==
    ASSUME NEW E, NEW r \in Ring(E), Filled(r, E), CanPop(r)
    PROVE  /\ Pop(r) \in Ring(E)
           /\ Filled(Pop(r), E)
           /\ Oldest(r) \in E
           /\ Oldest(r) = Head(Contents(r))
           /\ Contents(Pop(r)) = Tail(Contents(r))
  <1> DEFINE p == Pop(r)
  <1>1. /\ r.count \in 1 .. QueueMax /\ r.head \in Slots /\ r.generated \in Nat
        /\ r.q \in [Slots -> E \cup {NoEvent}]
    BY DEF Ring, CanPop
  <1>2. /\ p \in Ring(E)
        /\ p.q = r.q
        /\ p.head = SlotAt(r, 1)
        /\ p.count = r.count - 1
    <2>1. SlotAt(r, 1) \in Slots /\ r.count - 1 \in 0 .. QueueMax
      <3>1. 1 \in 0 .. QueueMax
        BY <1>1
      <3>2. QED
        BY <1>1, <3>1, SlotAtType
    <2>2. QED
      BY <1>1, <2>1 DEF Pop, DropOldest, Ring
  <1>3. ASSUME NEW i \in 0 .. p.count - 1
        PROVE  SlotAt(p, i) = SlotAt(r, i + 1)
    <2>1. i \in 0 .. QueueMax /\ i + 1 \in 0 .. QueueMax /\ 1 \in 0 .. QueueMax
      BY <1>1, <1>2
    <2>2. p.head = IF r.head + 1 < QueueMax THEN r.head + 1 ELSE r.head + 1 - QueueMax
      BY <1>2, <2>1, SlotAtType
    <2>3. SlotAt(p, i) = IF p.head + i < QueueMax THEN p.head + i ELSE p.head + i - QueueMax
      BY <1>2, <2>1, SlotAtType
    <2>4. SlotAt(r, i + 1) = IF r.head + (i + 1) < QueueMax THEN r.head + (i + 1)
                                                        ELSE r.head + (i + 1) - QueueMax
      BY <2>1, SlotAtType
    <2>5. r.head \in 0 .. QueueMax - 1 /\ i \in 0 .. QueueMax - 1
      BY <1>1, <1>2 DEF Slots
    <2>6. QED
      BY <2>2, <2>3, <2>4, <2>5
  <1>4. Filled(p, E)
    <2>1. ASSUME NEW i \in 0 .. p.count - 1 PROVE p.q[SlotAt(p, i)] \in E
      <3>1. i + 1 \in 0 .. r.count - 1
        BY <1>1, <1>2
      <3>2. QED
        BY <1>2, <1>3, <3>1 DEF Filled
    <2>2. QED
      BY <2>1 DEF Filled
  <1>5. SlotAt(r, 0) = r.head
    BY <1>1, SlotAtType DEF Slots
  <1>6. Oldest(r) \in E
    BY <1>1, <1>5 DEF Oldest, Filled
  <1>7. Oldest(r) = Head(Contents(r))
    BY <1>1, <1>5 DEF Oldest, Contents
  <1>8. Contents(p) = Tail(Contents(r))
    <2>1. /\ Contents(r) \in Seq(E) /\ Len(Contents(r)) = r.count
          /\ Contents(p) \in Seq(E) /\ Len(Contents(p)) = p.count
      BY <1>2, <1>4, ContentsType
    <2>2. Len(Tail(Contents(r))) = p.count /\ Tail(Contents(r)) \in Seq(E)
      BY <1>1, <1>2, <2>1
    <2>3. ASSUME NEW i \in 1 .. p.count
          PROVE  Contents(p)[i] = Tail(Contents(r))[i]
      <3>1. i - 1 \in 0 .. p.count - 1 /\ i + 1 \in 1 .. r.count
        BY <1>1, <1>2
      <3>2. Contents(p)[i] = r.q[SlotAt(r, i)]
        <4>1. SlotAt(p, i - 1) = SlotAt(r, (i - 1) + 1) /\ (i - 1) + 1 = i
          BY <1>3, <3>1
        <4>2. QED
          BY <1>2, <4>1 DEF Contents
      <3>3. Tail(Contents(r))[i] = Contents(r)[i + 1]
        BY <1>1, <1>2, <2>1, <3>1
      <3>4. Contents(r)[i + 1] = r.q[SlotAt(r, i)]
        <4>1. (i + 1) - 1 = i
          OBVIOUS
        <4>2. QED
          BY <3>1, <4>1 DEF Contents
      <3>5. QED
        BY <3>2, <3>3, <3>4
    <2>4. QED
      BY <2>1, <2>2, <2>3, SeqEqual
  <1>9. QED
    BY <1>2, <1>4, <1>6, <1>7, <1>8

(* Storing into a ring with room appends: the slot written is none of the  *)
(* slots of the window.                                                    *)
LEMMA StoreIsAppend ==
    ASSUME NEW E, NEW r \in Ring(E), Filled(r, E), r.count < QueueMax, NEW e \in E
    PROVE  /\ Store(r, e) \in Ring(E)
           /\ Filled(Store(r, e), E)
           /\ Contents(Store(r, e)) = Append(Contents(r), e)
  <1> DEFINE w == Store(r, e)
             last == SlotAt(r, r.count)
  <1>1. /\ r.count \in 0 .. QueueMax - 1 /\ r.head \in Slots /\ r.generated \in Nat
        /\ r.q \in [Slots -> E \cup {NoEvent}]
    BY DEF Ring
  <1>2. last \in Slots
    BY <1>1, SlotAtType
  <1>3. /\ w \in Ring(E)
        /\ w.q = [r.q EXCEPT ![last] = e]
        /\ w.head = r.head
        /\ w.count = r.count + 1
    BY <1>1, <1>2 DEF Store, Ring
  <1>4. ASSUME NEW i \in Int PROVE SlotAt(w, i) = SlotAt(r, i)
    BY <1>3 DEF SlotAt
  <1>5. ASSUME NEW i \in 0 .. r.count - 1
        PROVE  SlotAt(r, i) \in Slots /\ SlotAt(r, i) # last
    <2>1. i \in 0 .. QueueMax /\ r.count \in 0 .. QueueMax /\ i < r.count
      BY <1>1
    <2>2. SlotAt(r, i) \in Slots
      BY <2>1, SlotAtType
    <2>3. SlotAt(r, i) = IF r.head + i < QueueMax THEN r.head + i ELSE r.head + i - QueueMax
      BY <2>1, SlotAtType
    <2>4. last = IF r.head + r.count < QueueMax THEN r.head + r.count
                                                ELSE r.head + r.count - QueueMax
      BY <2>1, SlotAtType
    <2>5. QED
      BY <1>1, <2>1, <2>2, <2>3, <2>4 DEF Slots
  <1>6. w.q[SlotAt(w, r.count)] = e
    BY <1>1, <1>2, <1>3, <1>4
  <1>7. ASSUME NEW i \in 0 .. r.count - 1
        PROVE  w.q[SlotAt(w, i)] = r.q[SlotAt(r, i)]
    <2>1. SlotAt(w, i) = SlotAt(r, i)
      BY <1>4
    <2>2. QED
      BY <1>1, <1>3, <1>5, <2>1
  <1>8. Filled(w, E)
    <2>1. ASSUME NEW i \in 0 .. w.count - 1 PROVE w.q[SlotAt(w, i)] \in E
      <3>1. CASE i = r.count
        BY <1>6, <3>1
      <3>2. CASE i # r.count
        <4>1. i \in 0 .. r.count - 1
          BY <1>1, <1>3, <3>2
        <4>2. QED
          BY <1>7, <4>1 DEF Filled
      <3>3. QED
        BY <3>1, <3>2
    <2>2. QED
      BY <2>1 DEF Filled
  <1>9. Contents(w) = Append(Contents(r), e)
    <2>1. /\ Contents(r) \in Seq(E) /\ Len(Contents(r)) = r.count
          /\ Contents(w) \in Seq(E) /\ Len(Contents(w)) = r.count + 1
      BY <1>3, <1>8, ContentsType
    <2>2. /\ Append(Contents(r), e) \in Seq(E)
          /\ Len(Append(Contents(r), e)) = r.count + 1
      BY <2>1
    <2>3. ASSUME NEW i \in 1 .. r.count + 1
          PROVE  Contents(w)[i] = Append(Contents(r), e)[i]
      <3>1. Contents(w)[i] = w.q[SlotAt(w, i - 1)]
        BY <1>3 DEF Contents
      <3>2. CASE i = r.count + 1
        <4>1. i - 1 = r.count
          BY <1>1, <3>2
        <4>2. QED
          BY <1>1, <1>6, <2>1, <3>1, <3>2, <4>1
      <3>3. CASE i # r.count + 1
        <4>1. i \in 1 .. r.count /\ i - 1 \in 0 .. r.count - 1
          BY <1>1, <3>3
        <4>2. Append(Contents(r), e)[i] = Contents(r)[i]
          BY <2>1, <4>1
        <4>3. Contents(r)[i] = r.q[SlotAt(r, i - 1)]
          BY <4>1 DEF Contents
        <4>4. QED
          BY <1>7, <3>1, <4>1, <4>2, <4>3
      <3>4. QED
        BY <3>2, <3>3
    <2>4. QED
      BY <2>1, <2>2, <2>3, SeqEqual
  <1>10. QED
    BY <1>3, <1>8, <1>9

(* Pushing appends, after dropping the oldest event of a full ring.        *)
LEMMA PushIsEnqueue ==
    ASSUME NEW E, NEW r \in Ring(E), Filled(r, E), NEW e \in E
    PROVE  /\ Push(r, e) \in Ring(E)
           /\ Filled(Push(r, e), E)
           /\ Contents(Push(r, e)) =
                 Append(IF Len(Contents(r)) = QueueMax THEN Tail(Contents(r))
                                                       ELSE Contents(r), e)
           /\ Push(r, e).generated = r.generated + 1
           /\ Push(r, e).count = IF r.count = QueueMax THEN QueueMax ELSE r.count + 1
  <1>1. Len(Contents(r)) = r.count /\ r.count \in 0 .. QueueMax
    BY ContentsType
  <1>2. CASE r.count = QueueMax
    <2>1. CanPop(r)
      BY <1>2 DEF CanPop
    <2>2. /\ DropOldest(r) \in Ring(E)
          /\ Filled(DropOldest(r), E)
          /\ Contents(DropOldest(r)) = Tail(Contents(r))
      BY <2>1, PopIsDequeue DEF Pop
    <2>3. DropOldest(r).count = QueueMax - 1 /\ DropOldest(r).generated = r.generated
      BY <1>2 DEF DropOldest
    <2>4. Push(r, e) = Store(DropOldest(r), e)
      BY <1>2 DEF Push
    <2>5. /\ Push(r, e) \in Ring(E)
          /\ Filled(Push(r, e), E)
          /\ Contents(Push(r, e)) = Append(Tail(Contents(r)), e)
      <3> DEFINE d == DropOldest(r)
      <3>1. d \in Ring(E) /\ Filled(d, E) /\ Contents(d) = Tail(Contents(r))
        BY <2>2
      <3>2. d.count < QueueMax
        BY <2>3
      <3> HIDE DEF d
      <3>3. /\ Store(d, e) \in Ring(E)
            /\ Filled(Store(d, e), E)
            /\ Contents(Store(d, e)) = Append(Contents(d), e)
        BY <3>1, <3>2, StoreIsAppend
      <3>4. QED
        BY <2>4, <3>1, <3>3 DEF d
    <2>6. Push(r, e).generated = r.generated + 1 /\ Push(r, e).count = QueueMax
      BY <2>3, <2>4 DEF Store
    <2>7. QED
      BY <1>1, <1>2, <2>5, <2>6
  <1>3. CASE r.count # QueueMax
    <2>1. Push(r, e) = Store(r, e) /\ r.count < QueueMax
      BY <1>1, <1>3 DEF Push
    <2>2. /\ Push(r, e) \in Ring(E)
          /\ Filled(Push(r, e), E)
          /\ Contents(Push(r, e)) = Append(Contents(r), e)
      BY <2>1, StoreIsAppend
    <2>3. Push(r, e).generated = r.generated + 1 /\ Push(r, e).count = r.count + 1
      BY <2>1 DEF Store
    <2>4. QED
      BY <1>1, <1>3, <2>2, <2>3
  <1>4. QED
    BY <1>2, <1>3
=============================================================================
