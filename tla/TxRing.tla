------------------------------- MODULE TxRing ------------------------------
(***************************************************************************)
(* The ring between the components that build messages and lwIP.           *)
(*                                                                         *)
(* A builder (BUILD_*, RTP_build, the answers of HhdxMsg.c) writes its     *)
(* text to slot wr and calls NET_TxPcbLenWr, which moves wr without a look *)
(* at rd.  At the start of each turn the main loop hands slot rd to lwIP   *)
(* (NET_UdpTx) and moves rd, whether lwIP had a buffer for it or not.      *)
(***************************************************************************)
EXTENDS Ring

CONSTANT
    MaxBuilt        \* bound on the number of messages

VARIABLES
    slot,           \* gpNetTxBuf: the number of the message in each slot
    wr, rd,         \* gpsNetTx->wr and ->rd
    built,          \* history: messages built
    passed,         \* history: the last message taken from the ring
    sent,           \* history: the last message lwIP had a buffer for
    waiting,        \* history: messages to be taken
    congested       \* history: N of them waited since the ring was empty

vars == <<slot, wr, rd, built, passed, sent, waiting, congested>>

(* NET_VariateInit at power-up.                                            *)
Init ==
    /\ slot = [i \in Slot |-> 0]
    /\ wr = 0 /\ rd = 0
    /\ built = 0 /\ passed = 0 /\ sent = 0 /\ waiting = 0
    /\ congested = FALSE

-----------------------------------------------------------------------------
(* A builder, with its call of NET_TxPcbLenWr.                             *)
BuildTwice ==                       \* mutant: two texts for one slot
    /\ built + 1 < MaxBuilt
    /\ built' = built + 2
    /\ slot' = [slot EXCEPT ![wr] = built']
    /\ wr' = After(wr)
    /\ waiting' = waiting + 1
    /\ congested' = (congested \/ waiting' >= N)
    /\ UNCHANGED <<rd, passed, sent>>

Build ==
    /\ built < MaxBuilt
    /\ built' = built + 1
    /\ slot' = [slot EXCEPT ![wr] = built']
    /\ wr' = After(wr)
    /\ waiting' = waiting + 1
    /\ congested' = (congested \/ waiting' >= N)
    /\ UNCHANGED <<rd, passed, sent>>

(* NET_UdpTx, and the step of the main loop to the next slot.  online:     *)
(* lwIP was initialised; before that, and when its pool is used up,        *)
(* pbuf_alloc returns no buffer.                                           *)
NET_UdpTxAhead(online) ==           \* mutant: rd moves before it is used
    /\ rd # wr
    /\ rd' = After(rd)
    /\ passed' = slot[rd']
    /\ \/ online /\ sent' = passed'
       \/ UNCHANGED sent
    /\ waiting' = Ahead(rd', wr)
    /\ congested' = (congested /\ rd' # wr)
    /\ UNCHANGED <<slot, wr, built>>

NET_UdpTx(online) ==
    /\ rd # wr
    /\ passed' = slot[rd]
    /\ \/ online /\ sent' = passed'
       \/ UNCHANGED sent
    /\ rd' = After(rd)
    /\ waiting' = Ahead(rd', wr)
    /\ congested' = (congested /\ rd' # wr)
    /\ UNCHANGED <<slot, wr, built>>

(* NET_VariateInit when the cable is plugged in.                           *)
NET_VariateInit ==
    /\ wr' = 0 /\ rd' = 0
    /\ waiting' = 0
    /\ congested' = FALSE
    /\ UNCHANGED <<slot, built, passed, sent>>

Next == Build \/ (\E online \in BOOLEAN : NET_UdpTx(online)) \/ NET_VariateInit

Spec == Init /\ [][Next]_vars

-----------------------------------------------------------------------------
(* Properties.                                                             *)

TypeOK ==
    /\ slot \in [Slot -> 0..MaxBuilt]
    /\ wr \in Slot /\ rd \in Slot
    /\ {built, passed, sent, waiting} \subseteq 0..MaxBuilt
    /\ congested \in BOOLEAN

(* The ring is the queue of DatagramQueue.                                 *)
Waiting ==
    IF congested THEN <<>>
    ELSE [i \in 1..Ahead(rd, wr) |-> slot[Further(rd, i - 1)]]

Queue == INSTANCE DatagramQueue
           WITH Capacity <- N - 1, MaxReceived <- MaxBuilt,
                queue <- Waiting, received <- built, handled <- passed

ImplementsQueue == Queue!Spec
=============================================================================
