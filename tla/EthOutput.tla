----------------------------- MODULE EthOutput -----------------------------
(***************************************************************************)
(* The transmit descriptors of the Ethernet DMA.                           *)
(*                                                                         *)
(* low_level_output takes the buffer of the current descriptor, copies the *)
(* frame to it and gives the descriptor to the DMA (ETH_Tx_Packet).  The   *)
(* main loop calls it through udp_send and the timers of ARP.  The         *)
(* Ethernet interrupt runs lwIP as well and calls it for its ARP and ICMP  *)
(* replies, wherever it found the main loop.                               *)
(***************************************************************************)
EXTENDS Ring

CONSTANT MaxFrames      \* bound on the number of frames

VARIABLES
    own,                \* OWN: the descriptor belongs to the DMA
    buffer,             \* Tx_Buff: the frames its two halves come from
    current,            \* DMATxDescToSet
    step,               \* where the main loop is in low_level_output
    taken,              \* the buffer the main loop copies to
    frames,             \* history: frames lwIP has sent
    mine,               \* history: that of the main loop
    promised            \* history: the frame each descriptor was given for

vars == <<own, buffer, current, step, taken, frames, mine, promised>>

(* ETH_DMATxDescChainInit.                                                 *)
Init ==
    /\ own = [d \in Slot |-> FALSE]
    /\ buffer = [d \in Slot |-> <<0, 0>>]
    /\ current = 0
    /\ step = "idle" /\ taken = 0
    /\ frames = 0 /\ mine = 0
    /\ promised = [d \in Slot |-> 0]

(* ETH_Tx_Packet: a descriptor of the DMA refuses the frame.               *)
ETH_Tx_Packet(frame) ==
    IF own[current]
    THEN UNCHANGED <<own, current, promised>>
    ELSE /\ own' = [own EXCEPT ![current] = TRUE]
         /\ promised' = [promised EXCEPT ![current] = frame]
         /\ current' = After(current)

(* The main loop: ETH_GetCurrentTxBuffer, memcpy, ETH_Tx_Packet.           *)
GetBuffer ==
    /\ step = "idle" /\ frames < MaxFrames
    /\ frames' = frames + 1 /\ mine' = frames'
    /\ taken' = current
    /\ step' = "first half"
    /\ UNCHANGED <<own, buffer, current, promised>>

CopyHalf(half, from, to) ==
    /\ step = from /\ step' = to
    /\ buffer' = [buffer EXCEPT ![taken][half] = mine]
    /\ UNCHANGED <<own, current, taken, frames, mine, promised>>

Hand ==
    /\ step = "copied" /\ step' = "idle"
    /\ ETH_Tx_Packet(mine)
    /\ UNCHANGED <<buffer, taken, frames, mine>>

MainLoop ==
    \/ GetBuffer
    \/ CopyHalf(1, "first half", "second half")
    \/ CopyHalf(2, "second half", "copied")
    \/ Hand

(* The interrupt: all of it at once.                                       *)
Reply ==
    /\ frames < MaxFrames
    /\ frames' = frames + 1
    /\ buffer' = [buffer EXCEPT ![current] = <<frames', frames'>>]
    /\ ETH_Tx_Packet(frames')
    /\ UNCHANGED <<step, taken, mine>>

(* The DMA sends a frame and gives its descriptor back.                    *)
Dma ==
    /\ \E d \in Slot : own[d] /\ own' = [own EXCEPT ![d] = FALSE]
    /\ UNCHANGED <<buffer, current, step, taken, frames, mine, promised>>

Next == MainLoop \/ Reply \/ Dma

Spec == Init /\ [][Next]_vars

-----------------------------------------------------------------------------
(* While a descriptor belongs to the DMA its buffer holds the frame it was *)
(* given for, whole: what leaves the terminal is what lwIP sent            *)
(* (low_level_output, ETH_Tx_Packet).                                      *)
FramesWhole ==
    \A d \in Slot : own[d] => buffer[d] = <<promised[d], promised[d]>>
=============================================================================
