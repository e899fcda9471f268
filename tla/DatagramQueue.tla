--------------------------- MODULE DatagramQueue ---------------------------
(***************************************************************************)
(* What the receive ring promises the main loop and the transmit ring the  *)
(* components that build messages: messages are handled one by one, each   *)
(* once, each whole, in the order in which they came, as long as no more   *)
(* than Capacity of them wait.  One more than that and the queue is        *)
(* congested: messages are lost, and all that is left of the promise is    *)
(* that none is handled twice or after a later one, until the queue has    *)
(* recovered, which it does by running empty or by being flushed.          *)
(* Messages are known by their number.                                     *)
(***************************************************************************)
EXTENDS Naturals, Sequences

CONSTANTS
    Capacity,       \* messages that can wait
    MaxReceived     \* bound on the number of messages

VARIABLES
    queue,          \* the waiting messages, <<>> while it is congested
    received,       \* number of the last one that came in
    handled,        \* number of the last one that was handled
    congested       \* too many have waited

vars == <<queue, received, handled, congested>>

Init == queue = <<>> /\ received = 0 /\ handled = 0 /\ congested = FALSE

Receive ==
    /\ ~congested
    /\ received < MaxReceived
    /\ Len(queue) < Capacity
    /\ received' = received + 1
    /\ queue' = Append(queue, received')
    /\ UNCHANGED <<handled, congested>>

Handle ==
    /\ queue # <<>>
    /\ handled' = Head(queue)
    /\ queue' = Tail(queue)
    /\ UNCHANGED <<received, congested>>

Congest ==
    /\ Len(queue) = Capacity
    /\ received < MaxReceived
    /\ received' = received + 1
    /\ congested' = TRUE
    /\ queue' = <<>>
    /\ UNCHANGED handled

Lose ==
    /\ congested
    /\ received' \in received..MaxReceived
    /\ handled' \in handled..received
    /\ congested' \in BOOLEAN
    /\ UNCHANGED queue

Flush ==
    /\ queue' = <<>>
    /\ congested' = FALSE
    /\ UNCHANGED <<received, handled>>

Next == Receive \/ Handle \/ Congest \/ Lose \/ Flush

Safety == Init /\ [][Next]_vars
Spec == Safety /\ WF_vars(Handle)
=============================================================================
