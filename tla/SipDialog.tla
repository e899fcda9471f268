----------------------------- MODULE SipDialog -----------------------------
(***************************************************************************)
(* The calls of the SIP server, in the turns of the main loop.             *)
(*                                                                         *)
(* The analysis of a message (ANALYSIS_line_to_msg) sets flags, keeps the  *)
(* headers of some messages in gsMsg and leaves one pending answer in      *)
(* gSipTxFlow; SIP_TxFlow sends it later in the turn and quotes whatever   *)
(* headers are in gsMsg by then.  Both share the audio with the recording  *)
(* of the telephone line (RTP_tx, FSK_RTP_stop): 180 Ringing starts a ring *)
(* tone, the end of a SIP call stops all audio (TEL_OffInit).              *)
(*                                                                         *)
(* TEL_OnOffFunc, between RTP_tx and the line, does nothing: no code sets  *)
(* gHfFlag or gHandsetFlag, so this program never calls or answers itself. *)
(***************************************************************************)
EXTENDS Naturals, Sequences

CONSTANTS
    Calls,              \* the calls of the server, each with a CSeq number
    LongNumbers         \* those whose number has six digits or more

ASSUME CallsAssumption ==
    /\ Calls # {} /\ 0 \notin Calls
    /\ LongNumbers \subseteq Calls

VARIABLES
    pc,                 \* what the main loop does next
    registered,         \* gsSipRxFlag.ok_reg
    flow,               \* gSipTxFlow
    quoted,             \* gsMsg: the message whose headers it holds
    cseq_num,           \* gsMsg.cseq_num: the call whose number it is
    retry,              \* gsSipTxFlag.retry
    sdp, rtp_port,      \* gsSipRxFlag.sdp; the call whose port rtp_port is
    peer,               \* the call the RTP socket is connected to
    ringing,            \* gsSipTxFlag.ringing: DMA plays the ring tone
    rtp,                \* gsSipTxFlag.rtp: the line is recorded
    speaker,            \* TEL_HandfreeSPK_on
    playing, recording, \* the I2S streams are enabled
    line,               \* gsBatFlag: busy is offhook or ringing
    sent,               \* the SIP messages this step put into the transmit ring
    open,               \* history: INVITE came after the last end of a call
    numbered,           \* history: the call whose number was read last
    delayed,            \* history: the pending answer waited for a report
    rested              \* SIP_TxFlow ran since it last sent a report again

dialog == <<registered, flow, quoted, cseq_num>>
media == <<sdp, rtp_port, peer>>
audio == <<ringing, rtp, speaker, playing, recording>>
history == <<open, numbered, delayed, rested>>
vars == <<pc, dialog, retry, media, audio, line, sent, history>>

Turn == {"NET_RxParse", "SIP_TxFlow", "sdp", "RTP_tx", "line"}
Flow == {"none", "ACK", "100", "180", "BYE_200", "CANCEL_200"}
Message == [kind : {"none", "INVITE", "BYE", "CANCEL", "OK", "487"},
            call : Calls \cup {0}]

R == INSTANCE RecordedLine      \* the line and the recording flag

Goto(from, to) == pc = from /\ pc' = to

(* Power-up: TEL_OffInit, the zeroed statics, the line taken for unplugged. *)
Init ==
    /\ pc = "NET_RxParse"
    /\ registered = 0 /\ flow = "none"
    /\ quoted = [kind |-> "none", call |-> 0]
    /\ cseq_num = 0
    /\ retry = 0
    /\ sdp = 0 /\ rtp_port = 0 /\ peer = 0
    /\ ringing = 0 /\ rtp = 0
    /\ speaker = 0 /\ playing = 0 /\ recording = 0
    /\ line = "unplugged"
    /\ sent = <<>>
    /\ open = 0 /\ numbered = 0
    /\ delayed = 0 /\ rested = 1

-----------------------------------------------------------------------------
(* The analysis of one message (ANALYSIS_line_to_msg).                     *)

(* ANALYSIS_sdp, when the message has a body.                              *)
Body(c) ==
    \/ sdp' = 1 /\ rtp_port' = c
    \/ UNCHANGED <<sdp, rtp_port>>

Pending(answer) == flow' = answer /\ delayed' = 0

(* ANALYSIS_cseq, for an INVITE, a 200 OK and a 487: a number of six       *)
(* digits or more is not taken over.                                       *)
ReadNumber(c) ==
    /\ cseq_num' = IF c \in LongNumbers THEN cseq_num ELSE c
    /\ numbered' = c

Invite(c) ==
    /\ Pending("100")
    /\ quoted' = [kind |-> "INVITE", call |-> c]
    /\ ReadNumber(c)
    /\ Body(c)
    /\ open' = 1
    /\ UNCHANGED registered

Bye(c) ==
    /\ Pending("BYE_200")
    /\ quoted' = [kind |-> "BYE", call |-> c]
    /\ UNCHANGED <<registered, cseq_num, sdp, rtp_port, open, numbered>>

Cancel(c) ==
    /\ Pending("CANCEL_200")
    /\ quoted' = [kind |-> "CANCEL", call |-> c]
    /\ UNCHANGED <<registered, cseq_num, sdp, rtp_port, open, numbered>>

(* 200 OK: its CSeq line says to what.  Headers are kept for an INVITE     *)
(* only, which is acknowledged.                                            *)
OkInvite(c) ==
    /\ Pending("ACK")
    /\ quoted' = [kind |-> "OK", call |-> c]
    /\ ReadNumber(c)
    /\ Body(c)
    /\ UNCHANGED <<registered, open>>

OkOtherKept(c) ==                   \* mutant: headers kept of every 200 OK
    /\ quoted' = [kind |-> "OK", call |-> c]
    /\ ReadNumber(c)
    /\ registered' \in {registered, 1}
    /\ UNCHANGED <<flow, sdp, rtp_port, open, delayed>>

OkOther(c) ==
    /\ ReadNumber(c)
    /\ registered' \in {registered, 1}       \* 1: CSeq: n REGISTER
    /\ UNCHANGED <<flow, quoted, sdp, rtp_port, open, delayed>>

Terminated(c) ==
    /\ Pending("ACK")
    /\ quoted' = [kind |-> "487", call |-> c]
    /\ ReadNumber(c)
    /\ UNCHANGED <<registered, sdp, rtp_port, open>>

(* Nothing received, another port, or a message that leaves no pending     *)
(* answer and no headers: ACK, 100, 180, 407 and unknown ones.             *)
NoAnswer == UNCHANGED <<dialog, sdp, rtp_port, open, numbered, delayed>>

NET_RxParse ==
    /\ Goto("NET_RxParse", "SIP_TxFlow")
    /\ \/ \E c \in Calls : \/ Invite(c) \/ Bye(c) \/ Cancel(c)
                           \/ OkInvite(c) \/ OkOther(c) \/ Terminated(c)
       \/ NoAnswer
    /\ sent' = <<>>
    /\ UNCHANGED <<retry, peer, audio, line, rested>>

-----------------------------------------------------------------------------
(* SIP_TxFlow, for registered terminals only.                              *)

(* An ACK and a 487 are numbered with cseq_num (SipMsgBuilding.c:292 and   *)
(* :537), the other answers with the CSeq line kept among the headers.     *)
NumberOf(status) ==
    IF status \in {"ACK", "487"} THEN cseq_num ELSE quoted.call

Quoting(status) ==
    [status |-> status, of |-> quoted, num |-> NumberOf(status)]

(* TEL_OffInit and ANALYSIS_RxParamInit.                                   *)
OffInitKeepsRtp ==                  \* mutant: the recording is not closed
    /\ ringing' = 0
    /\ sdp' = 0 /\ rtp_port' = 0
    /\ speaker' = 0 /\ playing' = 0 /\ recording' = 0
    /\ UNCHANGED rtp
    /\ open' = 0

TEL_OffInit ==
    /\ ringing' = 0 /\ rtp' = 0
    /\ sdp' = 0 /\ rtp_port' = 0
    /\ speaker' = 0 /\ playing' = 0 /\ recording' = 0
    /\ open' = 0

SendReportForever ==                \* mutant: the flag is not cleared
    /\ retry = 1
    /\ sent' = <<>>
    /\ delayed' = IF flow # "none" THEN 1 ELSE 0
    /\ rested' = 0
    /\ UNCHANGED <<retry, flow, sdp, rtp_port, audio, open>>

SendReport ==
    /\ retry = 1
    /\ retry' = 0
    /\ sent' = <<>>
    /\ delayed' = IF flow # "none" THEN 1 ELSE 0
    /\ rested' = 0
    /\ UNCHANGED <<flow, sdp, rtp_port, audio, open>>

SendTryingAnswers ==                \* mutant: the call is taken at once
    /\ flow = "100"
    /\ sent' = <<Quoting("100")>>
    /\ flow' = "INVITE_200"
    /\ UNCHANGED <<sdp, rtp_port, audio, open>>

SendTrying ==
    /\ flow = "100"
    /\ sent' = <<Quoting("100")>>
    /\ flow' = "180"
    /\ UNCHANGED <<sdp, rtp_port, audio, open>>

SendRinging ==
    /\ flow = "180"
    /\ sent' = <<Quoting("180")>>
    /\ flow' = "none"
    /\ ringing' = 1 /\ playing' = 1 /\ speaker' = 1
    /\ UNCHANGED <<sdp, rtp_port, rtp, recording, open>>

SendAck ==
    /\ flow = "ACK"
    /\ sent' = <<Quoting("ACK")>>
    /\ flow' = "none"
    /\ UNCHANGED <<sdp, rtp_port, audio, open>>

SendByeOkStays ==                   \* mutant: the answer stays pending
    /\ flow = "BYE_200"
    /\ sent' = <<Quoting("200")>>
    /\ UNCHANGED flow
    /\ TEL_OffInit

SendByeOk ==
    /\ flow = "BYE_200"
    /\ sent' = <<Quoting("200")>>
    /\ flow' = "none"
    /\ TEL_OffInit

SendCancelOkOnly ==                 \* mutant: the call is not torn down
    /\ flow = "CANCEL_200"
    /\ sent' = <<Quoting("200"), Quoting("487")>>
    /\ flow' = "none"
    /\ UNCHANGED <<sdp, rtp_port, audio>>
    /\ open' = 0

SendCancelOk ==
    /\ flow = "CANCEL_200"
    /\ sent' = <<Quoting("200"), Quoting("487")>>
    /\ flow' = "none"
    /\ TEL_OffInit

SendNothing ==
    /\ flow = "none"
    /\ sent' = <<>>
    /\ UNCHANGED <<flow, sdp, rtp_port, audio, open>>

(* Not registered: main does not call it.                                  *)
NotRegistered ==
    /\ registered = 0
    /\ sent' = <<>>
    /\ UNCHANGED <<flow, retry, sdp, rtp_port, audio, open, delayed, rested>>

SIP_TxFlow ==
    /\ Goto("SIP_TxFlow", "sdp")
    /\ \/ NotRegistered
       \/ registered = 1 /\ SendReport
       \/ /\ registered = 1 /\ retry = 0
          /\ SendTrying \/ SendRinging \/ SendAck \/ SendByeOk
             \/ SendCancelOk \/ SendNothing
          /\ delayed' = 0 /\ rested' = 1
          /\ UNCHANGED retry
    /\ UNCHANGED <<registered, quoted, cseq_num, peer, line, numbered>>

-----------------------------------------------------------------------------
(* The rest of the turn, and the timer.                                    *)

(* 6. of the main loop: the RTP socket follows the body of the message.    *)
ConnectRtp ==
    /\ Goto("sdp", "RTP_tx")
    /\ sdp' = 0
    /\ peer' = IF sdp = 1 THEN rtp_port ELSE peer
    /\ sent' = <<>>
    /\ UNCHANGED <<dialog, retry, rtp_port, audio, line, history>>

(* RTP_tx opens a recording: AUDIO_rec_mode.  Its packets are not counted. *)
OpenRecording ==
    /\ R!Record
    /\ ringing' = 0
    /\ playing' = 1 /\ recording' = 1
    /\ UNCHANGED speaker

RTP_tx ==
    /\ Goto("RTP_tx", "line")
    /\ OpenRecording \/ (~(line = "busy" /\ rtp = 0) /\ UNCHANGED audio)
    /\ sent' = <<>>
    /\ UNCHANGED <<dialog, retry, media, line, history>>

(* The line monitor ends the turn, in one of the steps RecordedLine gives  *)
(* it.  The reports of the line are not counted here (LineMonitor,         *)
(* CidRetry).                                                              *)
Line ==
    /\ Goto("line", "NET_RxParse")
    /\ R!FirstRing \/ R!NewLine
    /\ sent' = <<>>
    /\ UNCHANGED <<dialog, retry, media, ringing, speaker, playing,
                   recording, history>>

(* TIM3_IRQHandler asks for a report again: 2 s after it was last sent,    *)
(* which is many turns.                                                    *)
Timeout ==
    /\ rested = 1 /\ retry = 0
    /\ retry' = 1
    /\ UNCHANGED <<pc, dialog, media, audio, line, history>>
    /\ sent' = <<>>

MainLoop == NET_RxParse \/ SIP_TxFlow \/ ConnectRtp \/ RTP_tx \/ Line
Next == MainLoop \/ Timeout

(* The main loop never waits, so it goes on.                               *)
Spec == Init /\ [][Next]_vars
FairSpec == Spec /\ WF_vars(MainLoop)

-----------------------------------------------------------------------------
(* Properties.                                                             *)

TypeOK ==
    /\ pc \in Turn
    /\ flow \in Flow
    /\ quoted \in Message
    /\ cseq_num \in Calls \cup {0} /\ numbered \in Calls \cup {0}
    /\ rtp_port \in Calls \cup {0} /\ peer \in Calls \cup {0}
    /\ {registered, retry, sdp, ringing, rtp, speaker, playing, recording,
        open, delayed, rested} \subseteq {0, 1}
    /\ line \in {"unplugged", "onhook", "busy", "ring"}

(* Every answer quotes the headers of a message it can answer, although    *)
(* they are looked up one or two turns after it was analysed, and it bears *)
(* the number of that call: an ACK and a 487 do so unless the number is    *)
(* too long or the last number read was another call's, which cseq_num     *)
(* then holds (gsMsg against gSipTxFlow, ANALYSIS_cseq, SIP_TxFlow).       *)
Answered(status) ==
    CASE status \in {"100", "180"} -> {"INVITE"}
      [] status = "200" -> {"BYE", "CANCEL"}
      [] status = "487" -> {"CANCEL"}
      [] status = "ACK" -> {"OK", "487"}

AnswersQuoteRequest ==
    \A i \in 1..Len(sent) :
        /\ sent[i].of.kind \in Answered(sent[i].status)
        /\ \/ sent[i].num = sent[i].of.call
           \/ /\ sent[i].status \in {"ACK", "487"}
              /\ sent[i].of.call # numbered \/ numbered \in LongNumbers

(* A ring tone belongs to an INVITE that was neither followed by a BYE nor *)
(* by a CANCEL: no order of requests, reports and answers leaves the       *)
(* telephone ringing after the caller has gone and was told so.            *)
ToneHasInvite == ringing = 1 => open = 1

(* What is recorded is captured: while rtp is up the recording stream is   *)
(* enabled, also when the server ends a SIP call during a recording, which *)
(* stops all streams; a busy line is always recorded after RTP_tx.         *)
RecordingCaptures ==
    /\ rtp = 1 => recording = 1 /\ playing = 1
    /\ pc = "line" /\ line = "busy" => rtp = 1

(* An answer is replaced by that to a later message only if the terminal   *)
(* was not registered or the answer had to wait for a report that was sent *)
(* again; a 180 gives way to anything (gSipTxFlow, one slot).              *)
AnswersReplaced ==
    [][pc = "NET_RxParse" /\ pc' = "SIP_TxFlow" /\ flow' # flow
         => flow \in {"none", "180"} \/ delayed = 1 \/ registered = 0]_vars

(* A caller who goes silences the telephone, however many reports are sent *)
(* again and whatever else is received, unless another message that asks   *)
(* for an answer comes before the report has left (SIP_TxFlow).            *)
EndIsServed ==
    registered = 1 /\ flow \in {"BYE_200", "CANCEL_200"}
        ~> ringing = 0 \/ flow \in {"100", "ACK"}
=============================================================================
