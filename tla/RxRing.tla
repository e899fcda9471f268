------------------------------- MODULE RxRing ------------------------------
(***************************************************************************)
(* The ring between the Ethernet interrupt and the main loop.              *)
(*                                                                         *)
(* The interrupt runs lwIP up to NET_UdpRx, which copies a datagram to     *)
(* slot wr and moves wr.  The main loop handles slot rd while wr is        *)
(* elsewhere (NET_RxParse) and moves rd after that.  Nothing stops the     *)
(* interrupt when all the slots are in use: wr then runs over rd.          *)
(*                                                                         *)
(* NET_RxParse reads its slot twice: the first line tells it what kind of  *)
(* message it has (ANALYSIS_line, HHDX_Command), then the rest is read in  *)
(* place.  The interrupt can come in between.                              *)
(***************************************************************************)
EXTENDS Ring

CONSTANT
    MaxReceived     \* bound on the number of datagrams

VARIABLES
    slot,           \* gpNetRxBuf: the number of the datagram in each slot
    wr, rd,         \* gpsNetRx->wr and ->rd
    first,          \* the datagram whose first line was read, or 0
    received,       \* history: datagrams copied by the interrupt
    parsed,         \* history: the last datagram that was handled
    waiting,        \* history: datagrams the main loop has still to handle
    congested       \* history: N of them waited since the ring was empty

vars == <<slot, wr, rd, first, received, parsed, waiting, congested>>

(* NET_VariateInit at power-up.                                            *)
Init ==
    /\ slot = [i \in Slot |-> 0]
    /\ wr = 0 /\ rd = 0
    /\ first = 0
    /\ received = 0 /\ parsed = 0 /\ waiting = 0
    /\ congested = FALSE

-----------------------------------------------------------------------------
(* NET_UdpRx, in the Ethernet interrupt.                                   *)
NET_UdpRx ==
    /\ received < MaxReceived
    /\ received' = received + 1
    /\ slot' = [slot EXCEPT ![wr] = received']
    /\ wr' = After(wr)
    /\ waiting' = waiting + 1
    /\ congested' = (congested \/ waiting' >= N)
    /\ UNCHANGED <<rd, first, parsed>>

(* NET_RxParse up to the kind of the message, when the main loop finds the *)
(* ring not empty.                                                         *)
ParseReleases ==                    \* mutant: the slot is given up first
    /\ first = 0
    /\ rd # wr
    /\ first' = slot[rd]
    /\ rd' = After(rd)
    /\ waiting' = Ahead(rd, wr)
    /\ UNCHANGED <<slot, wr, received, parsed, congested>>

ParseFirstLine ==
    /\ first = 0
    /\ rd # wr
    /\ first' = slot[rd]
    /\ waiting' = Ahead(rd, wr)
    /\ UNCHANGED <<slot, wr, rd, received, parsed, congested>>

(* The rest of NET_RxParse, and the step of the main loop to the next      *)
(* slot.                                                                   *)
ParseRest ==
    /\ first # 0
    /\ parsed' = slot[rd]
    /\ rd' = After(rd)
    /\ first' = 0
    /\ waiting' = Ahead(rd', wr)
    /\ congested' = (congested /\ rd' # wr)
    /\ UNCHANGED <<slot, wr, received>>

NET_RxParse == ParseFirstLine \/ ParseRest

(* NET_VariateInit when the cable is plugged in, between two datagrams.    *)
NET_VariateInit ==
    /\ first = 0
    /\ wr' = 0 /\ rd' = 0
    /\ waiting' = 0
    /\ congested' = FALSE
    /\ UNCHANGED <<slot, first, received, parsed>>

Next == NET_UdpRx \/ NET_RxParse \/ NET_VariateInit

Spec == Init /\ [][Next]_vars
FairSpec == Spec /\ WF_vars(NET_RxParse)

-----------------------------------------------------------------------------
(* Properties.                                                             *)

TypeOK ==
    /\ slot \in [Slot -> 0..MaxReceived]
    /\ wr \in Slot /\ rd \in Slot
    /\ {first, received, parsed, waiting} \subseteq 0..MaxReceived
    /\ congested \in BOOLEAN

(* The kind of a message and its contents come from the same datagram, as  *)
(* long as no more than N datagrams wait while it is handled: that many    *)
(* datagrams, and not one fewer, have to come in during one call of        *)
(* NET_RxParse to replace the slot under it.                               *)
HandledWhole == first # 0 /\ waiting <= N => slot[rd] = first

(* The ring is the queue of DatagramQueue.  While it is congested it may   *)
(* look empty with N datagrams in it; once it has really run empty it can  *)
(* be relied on again.                                                     *)
Waiting ==
    IF congested THEN <<>>
    ELSE [i \in 1..Ahead(rd, wr) |-> slot[Further(rd, i - 1)]]

Queue == INSTANCE DatagramQueue
           WITH Capacity <- N - 1, queue <- Waiting, handled <- parsed

ImplementsQueue == Queue!Spec
=============================================================================
