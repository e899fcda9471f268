----------------------------- MODULE CallReports ----------------------------
(***************************************************************************)
(* What the line monitor tells the server of a call: start when the number *)
(* of a ringing call is known, once in a call; offhook when the call is    *)
(* answered; stop when a recorded call has been hung up, before anything   *)
(* else happens on the line, unless the next call begins to ring first.    *)
(* LineMonitor implements this specification.                              *)
(***************************************************************************)
VARIABLES
    phase,          \* gsBatFlag: unplugged, idle, ringing or answered
    announced,      \* the number of this call has been looked at
    recorded,       \* gsSipTxFlag.rtp
    report          \* the message this step builds, if any

vars == <<phase, announced, recorded, report>>

Init ==
    /\ phase = "unplugged"
    /\ announced = 0 /\ recorded = 0
    /\ report = "none"

(* The recording of a call that was hung up waits for its stop message.    *)
Closing == phase = "idle" /\ recorded = 1

(* The first ring of a call, whatever the line was taken for; a recording  *)
(* that is still open is dropped without a stop message (FSK_ringing).     *)
Ring ==
    /\ phase' = "ringing"
    /\ announced' = 0 /\ recorded' = 0
    /\ report' = "none"

Start ==
    /\ phase = "ringing" /\ announced = 0
    /\ announced' = 1
    /\ report' \in {"none", "start"}
    /\ UNCHANGED <<phase, recorded>>

Answer ==
    /\ phase # "answered" /\ ~Closing
    /\ phase' = "answered"
    /\ report' = "offhook"
    /\ UNCHANGED <<announced, recorded>>

HangUp ==
    /\ phase \in {"ringing", "answered"}
    /\ phase' = "idle"
    /\ report' = "none"
    /\ UNCHANGED <<announced, recorded>>

Stop ==
    /\ Closing
    /\ recorded' = 0
    /\ report' = "stop"
    /\ UNCHANGED <<phase, announced>>

Unplug ==
    /\ phase # "unplugged" /\ ~Closing
    /\ phase' = "unplugged"
    /\ report' = "none"
    /\ UNCHANGED <<announced, recorded>>

(* RTP_tx records a call, TEL_OffInit ends the recording with a SIP call.  *)
Record ==
    /\ phase \in {"ringing", "answered"}
    /\ recorded' = 1
    /\ report' = "none"
    /\ UNCHANGED <<phase, announced>>

EndRecording ==
    /\ ~Closing
    /\ recorded' = 0
    /\ report' = "none"
    /\ UNCHANGED <<phase, announced>>

(* Everything else the main loop and the interrupts do.                    *)
Silent == report' = "none" /\ UNCHANGED <<phase, announced, recorded>>

Next ==
    Ring \/ Start \/ Answer \/ HangUp \/ Stop \/ Unplug \/ Record
    \/ EndRecording \/ Silent

Spec == Init /\ [][Next]_vars
=============================================================================
