----------------------------- MODULE MotionQueue -----------------------------
(***************************************************************************)
(* What the motion event ring promises its users: a FIFO of at most        *)
(* QueueMax events that drops the oldest event to make room for a new one. *)
(* `popped` is the event the last successful pop returned.                 *)
(***************************************************************************)
EXTENDS Integers, Sequences

CONSTANTS QueueMax, Event, NoEvent

VARIABLES queue, popped

MakeRoom(s) == IF Len(s) = QueueMax THEN Tail(s) ELSE s

Init == queue = << >> /\ popped = NoEvent

Clear == queue' = << >> /\ UNCHANGED popped

Enqueue(e) == queue' = Append(MakeRoom(queue), e) /\ UNCHANGED popped

Dequeue ==
    /\ queue # << >>
    /\ popped' = Head(queue)
    /\ queue' = Tail(queue)

Next == Clear \/ Dequeue \/ \E e \in Event : Enqueue(e)

Spec == Init /\ [][Next]_<<queue, popped>>
=============================================================================
