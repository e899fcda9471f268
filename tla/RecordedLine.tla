---------------------------- MODULE RecordedLine ----------------------------
(***************************************************************************)
(* The telephone line as far as its recording goes: where the line monitor *)
(* and the SIP dialog meet.  LineMonitor implements this specification;    *)
(* SipDialog takes its steps for the line, and clears the flag itself when *)
(* it ends a SIP call.                                                     *)
(***************************************************************************)
VARIABLES
    line,           \* gsBatFlag: busy is offhook or ringing, ring is none
    rtp             \* gsSipTxFlag.rtp: the line is recorded

Init == line = "unplugged" /\ rtp = 0

(* RTP_tx opens the recording of a line that is busy.                      *)
Record ==
    /\ line = "busy" /\ rtp = 0
    /\ rtp' = 1
    /\ UNCHANGED line

(* The first ring of a call takes the line for neither busy nor on hook    *)
(* and closes the recording without a word (FSK_ringing).                  *)
FirstRing ==
    /\ line' = "ring"
    /\ rtp' = 0

(* A new state of the line, or none; on hook, FSK_RTP_stop closes the      *)
(* recording before anybody else sees it.                                  *)
NewLine ==
    /\ line' \in {"unplugged", "onhook", "busy", line}
    /\ rtp' = IF line' = "onhook" THEN 0 ELSE rtp

(* TEL_OffInit, at the end of a SIP call.                                  *)
EndRecording ==
    /\ rtp' = 0
    /\ UNCHANGED line

Next == Record \/ FirstRing \/ NewLine \/ EndRecording

Spec == Init /\ [][Next]_<<line, rtp>>
=============================================================================
