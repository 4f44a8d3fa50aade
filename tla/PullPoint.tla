------------------------------ MODULE PullPoint ------------------------------
(***************************************************************************)
(* What the events service promises a client: one subscription slot, with  *)
(* a bounded drop-oldest queue of the motion events that happened since    *)
(* the subscription began. A pull moves events from the head of the queue  *)
(* into an answer, at most PullMax of them, and an answer either reaches   *)
(* the client whole or is lost whole. When a subscription ends or is       *)
(* replaced, what it had queued is gone: no later subscription sees it.    *)
(***************************************************************************)
EXTENDS Integers, Sequences

CONSTANTS QueueMax, PullMax, Event

VARIABLES
    subscribed,   \* is there a subscription?
    queue,        \* its events not yet pulled, oldest first
    batch,        \* the answer being made
    received      \* every event clients have received, in order

vars == <<subscribed, queue, batch, received>>

MakeRoom(s) == IF Len(s) = QueueMax THEN Tail(s) ELSE s

Init ==
    /\ subscribed = FALSE
    /\ queue = << >>
    /\ batch = << >>
    /\ received = << >>

Subscribe ==
    /\ batch = << >>
    /\ subscribed' = TRUE
    /\ queue' = << >>
    /\ UNCHANGED <<batch, received>>

(* Unsubscribe, or the end of an idle or outlived subscription.            *)
End ==
    /\ batch = << >>
    /\ subscribed' = FALSE
    /\ queue' = << >>
    /\ UNCHANGED <<batch, received>>

(* A motion event becomes the last of the queue. (The event is read off    *)
(* the new queue, not quantified over: Event may be infinite.)             *)
Motion ==
    /\ subscribed
    /\ queue' # << >>
    /\ LET e == queue'[Len(queue')]
       IN  e \in Event /\ queue' = Append(MakeRoom(queue), e)
    /\ UNCHANGED <<subscribed, batch, received>>

Take ==
    /\ subscribed
    /\ queue # << >>
    /\ Len(batch) < PullMax
    /\ batch' = Append(batch, Head(queue))
    /\ queue' = Tail(queue)
    /\ UNCHANGED <<subscribed, received>>

Answer ==
    /\ batch # << >>
    /\ \/ received' = received \o batch
       \/ UNCHANGED received
    /\ batch' = << >>
    /\ UNCHANGED <<subscribed, queue>>

Next == Subscribe \/ End \/ Take \/ Answer \/ Motion

Spec == Init /\ [][Next]_vars
=============================================================================
