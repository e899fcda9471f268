------------------------------ MODULE NetLoop ------------------------------
(***************************************************************************)
(* Both rings in the turns of the main loop.                               *)
(*                                                                         *)
(* A turn hands one message to lwIP, handles one datagram (which may be    *)
(* answered), looks at the cable and then calls the other components, each *)
(* of which may build a message: the CANCEL of a server is answered twice, *)
(* RTP_tx builds a packet, the line monitor a report, DTMF_rx a digit.  A  *)
(* turn can so put more into the transmit ring than it takes out.          *)
(***************************************************************************)
EXTENDS Naturals

CONSTANTS
    N,              \* slots of either ring
    MaxReceived,    \* bound on the number of datagrams
    MaxBuilt,       \* bound on the number of messages
    PerTurn         \* messages the other components build in one turn

VARIABLES
    pc,             \* what the main loop does next
    left,           \* messages the turn may still build
    netok,          \* gsNetFlag.netok
    answers,        \* history: the datagram a message answers, or 0
    rxSlot, rxWr, rxRd, first, received, parsed, rxWaiting, rxCongested,
    txSlot, txWr, txRd, built, passed, sent, txWaiting, txCongested

rxVars == <<rxSlot, rxWr, rxRd, first, received, parsed, rxWaiting, rxCongested>>
txVars == <<txSlot, txWr, txRd, built, passed, sent, txWaiting, txCongested>>
vars == <<pc, left, netok, answers, rxVars, txVars>>

Rx == INSTANCE RxRing
        WITH slot <- rxSlot, wr <- rxWr, rd <- rxRd,
             waiting <- rxWaiting, congested <- rxCongested
Tx == INSTANCE TxRing
        WITH slot <- txSlot, wr <- txWr, rd <- txRd,
             waiting <- txWaiting, congested <- txCongested

ASSUME NetLoopAssumption ==
    /\ N \in Nat \ {0, 1}
    /\ {MaxReceived, MaxBuilt, PerTurn} \subseteq Nat

(* The cable may be in or out at power-up.                                 *)
Init ==
    /\ Rx!Init /\ Tx!Init
    /\ netok \in BOOLEAN
    /\ pc = "tx" /\ left = 0
    /\ answers = [m \in 1..MaxBuilt |-> 0]

Goto(from, to) == pc = from /\ pc' = to

-----------------------------------------------------------------------------
(* The Ethernet interrupt: it is enabled with lwIP.  At another point of   *)
(* the turn it makes no difference to one before the next of these, as     *)
(* nothing else looks at the receive ring.                                 *)
Ethernet ==
    /\ netok
    /\ pc \in {"rx", "parse"}
    /\ Rx!NET_UdpRx
    /\ UNCHANGED <<pc, left, netok, answers, txVars>>

(* 2. of the main loop: one message out, one datagram in.                  *)
Transmit ==
    /\ Goto("tx", "rx")
    /\ IF txRd = txWr THEN UNCHANGED txVars ELSE Tx!NET_UdpTx(netok)
    /\ UNCHANGED <<left, netok, answers, rxVars>>

Receive ==
    /\ pc = "rx"
    /\ IF rxRd = rxWr
       THEN pc' = "keys" /\ UNCHANGED rxVars
       ELSE pc' = "parse" /\ Rx!ParseFirstLine
    /\ UNCHANGED <<left, netok, answers, txVars>>

(* The parser answers a management message itself, once per field that     *)
(* asks for it, and leaves a SIP request to SIP_TxFlow, later in the turn.  *)
Answer ==
    /\ pc = "parse"
    /\ Tx!Build
    /\ answers' = [answers EXCEPT ![built'] = first]
    /\ UNCHANGED <<pc, left, netok, rxVars>>

Parsed ==
    /\ Goto("parse", "keys")
    /\ Rx!ParseRest
    /\ UNCHANGED <<left, netok, answers, txVars>>

(* 3. of the main loop: KEY_netlink_scan.                                  *)
Keys ==
    /\ Goto("keys", "others")
    /\ left' = PerTurn
    /\ UNCHANGED <<netok, answers, rxVars, txVars>>

NetlinkUp ==
    /\ ~netok
    /\ Goto("keys", "others")
    /\ Rx!NET_VariateInit /\ Tx!NET_VariateInit
    /\ netok' \in BOOLEAN              \* lwip_comm_init may fail
    /\ left' = PerTurn
    /\ UNCHANGED answers

(* 5. to 10.: messages that answer nobody, and the end of the turn.        *)
Report ==
    /\ pc = "others" /\ left > 0
    /\ Tx!Build
    /\ left' = left - 1
    /\ UNCHANGED <<pc, netok, answers, rxVars>>

EndOfTurn ==
    /\ Goto("others", "tx")
    /\ left' = 0
    /\ UNCHANGED <<netok, answers, rxVars, txVars>>

MainLoop ==
    Transmit \/ Receive \/ Answer \/ Parsed \/ Keys \/ NetlinkUp \/ Report
    \/ EndOfTurn

Next == Ethernet \/ MainLoop

Spec == Init /\ [][Next]_vars
FairSpec == Spec /\ WF_vars(MainLoop)

-----------------------------------------------------------------------------
(* Properties.                                                             *)

TypeOK ==
    /\ Rx!TypeOK /\ Tx!TypeOK
    /\ pc \in {"tx", "rx", "parse", "keys", "others"}
    /\ left \in 0..PerTurn
    /\ netok \in BOOLEAN
    /\ answers \in [1..MaxBuilt -> 0..MaxReceived]

(* The kind of a message and its contents come from the same datagram      *)
(* unless more than N came in while it was handled (NET_RxParse).          *)
HandledWhole == Rx!HandledWhole

(* Both rings are queues as long as they are not congested, and recover    *)
(* when they run empty (NET_UdpRx, NET_RxParse, NET_TxPcbLenWr, NET_UdpTx).*)
ReceiveIsQueue == Rx!ImplementsQueue
TransmitIsQueue == Tx!ImplementsQueue

(* Answers leave in the order of the requests and none leaves twice,       *)
(* whatever the rings lost (NET_RxParse, NET_UdpTx).                       *)
AnswersInOrder ==
    [][sent' # sent =>
        /\ sent' > sent
        /\ \A m \in 1..sent :
             answers[sent'] # 0 => answers[m] <= answers[sent']]_vars
=============================================================================
