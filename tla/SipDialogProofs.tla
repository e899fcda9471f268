-------------------------- MODULE SipDialogProofs --------------------------
(***************************************************************************)
(* The invariants and the action property of SipDialog, for every set of   *)
(* calls.                                                                  *)
(***************************************************************************)
EXTENDS SipDialog, TLAPS

(* The headers in gsMsg are those of the message the pending answer is     *)
(* for, and an answer to an INVITE belongs to a call that goes on.         *)
PendingQuotes ==
    /\ flow \in {"100", "180"} => quoted.kind = "INVITE" /\ open = 1
    /\ flow = "BYE_200" => quoted.kind = "BYE"
    /\ flow = "CANCEL_200" => quoted.kind = "CANCEL"
    /\ flow = "ACK" => quoted.kind \in {"OK", "487"}

(* gsMsg.cseq_num is the number read last, if it could take that over.     *)
NumberKept == numbered \notin LongNumbers => cseq_num = numbered

(* SIP_TxFlow leaves nothing but a 180 pending for the next turn, unless   *)
(* it was not called or spent the turn on a report.                        *)
ServedEachTurn ==
    pc # "SIP_TxFlow" /\ registered = 1 /\ delayed = 0 => flow \in {"none", "180"}

IInv ==
    /\ TypeOK
    /\ PendingQuotes
    /\ NumberKept
    /\ ServedEachTurn
    /\ AnswersQuoteRequest
    /\ ToneHasInvite
    /\ RecordingCaptures

LEMMA InitInv == Init => IInv
  BY CallsAssumption
  DEF Init, IInv, TypeOK, Turn, Flow, Message, PendingQuotes, NumberKept,
      ServedEachTurn, AnswersQuoteRequest, ToneHasInvite, RecordingCaptures

-----------------------------------------------------------------------------
(* A message of the server: whatever it leaves pending, gsMsg holds its    *)
(* headers.                                                                *)
LEMMA ParseInv == IInv /\ NET_RxParse => IInv'
<1> SUFFICES ASSUME IInv, NET_RxParse PROVE IInv'
  OBVIOUS
<1> USE DEF NET_RxParse, Goto, Pending, Body, ReadNumber, audio
<1>1. TypeOK' /\ PendingQuotes' /\ NumberKept' /\ (ringing' = 1 => open' = 1)
  <2> USE DEF IInv, TypeOK, Turn, Flow, Message, PendingQuotes,
              NumberKept, ToneHasInvite
  <2>1. CASE \E c \in Calls : Invite(c)
    BY <2>1 DEF Invite
  <2>2. CASE \E c \in Calls : Bye(c) \/ Cancel(c)
    BY <2>2 DEF Bye, Cancel
  <2>3. CASE \E c \in Calls : OkInvite(c) \/ Terminated(c)
    BY <2>3 DEF OkInvite, Terminated
  <2>4. CASE \E c \in Calls : OkOther(c)
    BY <2>4 DEF OkOther
  <2>5. CASE NoAnswer
    BY <2>5 DEF NoAnswer, dialog
  <2> QED
    BY <2>1, <2>2, <2>3, <2>4, <2>5
<1>2. ServedEachTurn'
  BY DEF ServedEachTurn
<1>3. AnswersQuoteRequest'
  BY DEF AnswersQuoteRequest
<1>4. RecordingCaptures'
  BY DEF IInv, RecordingCaptures
<1> QED
  BY <1>1, <1>2, <1>3, <1>4 DEF IInv, ToneHasInvite

(* An answer goes out: it quotes gsMsg as it is now.                       *)
LEMMA QuoteOne ==
  ASSUME NEW status, sent' = <<Quoting(status)>>,
         quoted.kind \in Answered(status), NumberKept, numbered' = numbered
  PROVE  AnswersQuoteRequest'
  BY DEF AnswersQuoteRequest, Quoting, NumberOf, NumberKept

LEMMA QuoteTwo ==
  ASSUME sent' = <<Quoting("200"), Quoting("487")>>,
         quoted.kind = "CANCEL", NumberKept, numbered' = numbered
  PROVE  AnswersQuoteRequest'
  BY DEF AnswersQuoteRequest, Quoting, NumberOf, Answered, NumberKept

LEMMA TxFlowInv == IInv /\ SIP_TxFlow => IInv'
<1> SUFFICES ASSUME IInv, SIP_TxFlow PROVE IInv'
  OBVIOUS
<1>1. CASE registered = 0 /\ NotRegistered
  BY <1>1 DEF IInv, SIP_TxFlow, NotRegistered, Goto, audio, TypeOK, Turn,
      PendingQuotes, NumberKept, ServedEachTurn, AnswersQuoteRequest,
      ToneHasInvite, RecordingCaptures
<1>2. CASE registered = 1 /\ SendReport
  BY <1>2 DEF IInv, SIP_TxFlow, SendReport, Goto, audio, TypeOK, Turn,
      PendingQuotes, NumberKept, ServedEachTurn, AnswersQuoteRequest,
      ToneHasInvite, RecordingCaptures
<1>3. ASSUME registered = 1, retry = 0, delayed' = 0, rested' = 1,
             UNCHANGED retry,
             SendTrying \/ SendRinging \/ SendAck \/ SendByeOk
               \/ SendCancelOk \/ SendNothing
      PROVE  IInv'
  <2> USE <1>3 DEF SIP_TxFlow, Goto, audio
  <2>1. AnswersQuoteRequest'
    <3>1. CASE SendTrying \/ SendRinging \/ SendAck \/ SendByeOk
      BY <3>1, QuoteOne
      DEF SendTrying, SendRinging, SendAck, SendByeOk, IInv, PendingQuotes,
          Answered
    <3>2. CASE SendCancelOk
      BY <3>2, QuoteTwo DEF SendCancelOk, IInv, PendingQuotes
    <3>3. CASE SendNothing
      BY <3>3 DEF SendNothing, AnswersQuoteRequest
    <3> QED
      BY <3>1, <3>2, <3>3
  <2>2. TypeOK' /\ PendingQuotes' /\ NumberKept' /\ ServedEachTurn'
          /\ ToneHasInvite' /\ RecordingCaptures'
    BY DEF IInv, TypeOK, Turn, Flow, PendingQuotes, NumberKept,
        ServedEachTurn, ToneHasInvite, RecordingCaptures, SendTrying,
        SendRinging, SendAck, SendByeOk, SendCancelOk, SendNothing,
        TEL_OffInit
  <2> QED
    BY <2>1, <2>2 DEF IInv
<1> QED
  BY <1>1, <1>2, <1>3 DEF SIP_TxFlow, NotRegistered

(* The rest of the turn and the timer leave the answers alone.             *)
LEMMA RestInv == IInv /\ (ConnectRtp \/ RTP_tx \/ Line \/ Timeout) => IInv'
<1> SUFFICES ASSUME IInv, ConnectRtp \/ RTP_tx \/ Line \/ Timeout
             PROVE  IInv'
  OBVIOUS
<1> USE DEF Goto, dialog, media, audio, history
<1>1. AnswersQuoteRequest'
  BY DEF ConnectRtp, RTP_tx, Line, Timeout, AnswersQuoteRequest
<1>2. TypeOK' /\ PendingQuotes' /\ NumberKept' /\ ServedEachTurn'
        /\ ToneHasInvite' /\ RecordingCaptures'
  <2> USE DEF IInv, TypeOK, Turn, PendingQuotes, NumberKept,
              ServedEachTurn, ToneHasInvite, RecordingCaptures
  <2>1. CASE ConnectRtp \/ Timeout
    BY <2>1 DEF ConnectRtp, Timeout
  <2>2. CASE RTP_tx
    BY <2>2 DEF RTP_tx, OpenRecording, R!Record
  <2>3. CASE Line
    BY <2>3 DEF Line, R!FirstRing, R!NewLine
  <2> QED
    BY <2>1, <2>2, <2>3
<1> QED
  BY <1>1, <1>2 DEF IInv

LEMMA StutterInv == IInv /\ UNCHANGED vars => IInv'
  BY DEF IInv, vars, dialog, media, audio, history, TypeOK, PendingQuotes,
      NumberKept, ServedEachTurn, AnswersQuoteRequest, ToneHasInvite,
      RecordingCaptures

LEMMA NextInv == IInv /\ [Next]_vars => IInv'
  BY ParseInv, TxFlowInv, RestInv, StutterInv DEF Next, MainLoop

(* IInv is inductive: it holds in every state of every behaviour.          *)
THEOREM Invariance == Spec => []IInv
  BY InitInv, NextInv, PTL DEF Spec

(* Every variable keeps to its set; in particular no state of gSipTxFlow   *)
(* is ever reached that its switch does not serve.                         *)
THEOREM TypeCorrect == Spec => []TypeOK
  BY Invariance, PTL DEF IInv

(* For every set of calls and of long numbers, each answer quotes the      *)
(* headers of a message it can answer and its number, as far as gsMsg has  *)
(* kept that.                                                              *)
THEOREM AnswersQuote == Spec => []AnswersQuoteRequest
  BY Invariance, PTL DEF IInv

(* For every set of calls, the ring tone belongs to a call that goes on.   *)
THEOREM ToneJustified == Spec => []ToneHasInvite
  BY Invariance, PTL DEF IInv

(* For every set of calls, what is recorded is captured.                   *)
THEOREM RecordingIsCaptured == Spec => []RecordingCaptures
  BY Invariance, PTL DEF IInv

-----------------------------------------------------------------------------
(* For every set of calls, a registered terminal loses an answer to a      *)
(* later message only behind a report it sends again.                      *)
THEOREM AnswerIsServed == Spec => AnswersReplaced
<1> DEFINE Kept == pc = "NET_RxParse" /\ pc' = "SIP_TxFlow" /\ flow' # flow
                     => flow \in {"none", "180"} \/ delayed = 1 \/ registered = 0
<1>1. IInv /\ [Next]_vars => Kept
  BY DEF IInv, ServedEachTurn, TypeOK
<1> QED
  BY <1>1, Invariance, PTL DEF Spec, AnswersReplaced

-----------------------------------------------------------------------------
(* The line and its recording.                                             *)

(* The dialog touches the recording of the line only as RecordedLine says: *)
(* besides the steps of the line and RTP_tx, which it takes from there,    *)
(* only TEL_OffInit does (tel_func.c).                                     *)
THEOREM RecordsTheLine == Spec => R!Spec
<1>1. Init => R!Init
  BY DEF Init, R!Init
<1>2. [Next]_vars => [R!Next]_<<line, rtp>>
  <2> SUFFICES ASSUME [Next]_vars PROVE [R!Next]_<<line, rtp>>
    OBVIOUS
  <2>1. CASE NET_RxParse \/ ConnectRtp \/ Timeout \/ UNCHANGED vars
    BY <2>1 DEF NET_RxParse, ConnectRtp, Timeout, vars, audio
  <2>2. CASE SIP_TxFlow
    BY <2>2 DEF SIP_TxFlow, NotRegistered, SendReport, SendTrying,
       SendRinging, SendAck, SendByeOk, SendCancelOk, SendNothing,
       TEL_OffInit, audio, R!Next, R!EndRecording
  <2>3. CASE RTP_tx
    BY <2>3 DEF RTP_tx, OpenRecording, audio, R!Next
  <2>4. CASE Line
    BY <2>4 DEF Line, R!Next
  <2> QED
    BY <2>1, <2>2, <2>3, <2>4 DEF Next, MainLoop
<1> QED
  BY <1>1, <1>2, PTL DEF Spec, R!Spec

-----------------------------------------------------------------------------
(* Liveness.  The fairness of FairSpec speaks of the states in which a step *)
(* of the main loop is possible, and it is possible in all of them: each   *)
(* part of the turn has a branch for every state it can start in.  The     *)
(* provers know nothing of ENABLED, so that this is a hypothesis here.     *)
LoopCanTurn == []ENABLED <<MainLoop>>_vars

EndPending ==
    registered = 1 /\ flow \in {"BYE_200", "CANCEL_200"} /\ ringing = 1

EndServed == ringing = 0 \/ flow \in {"100", "ACK"}

(* Steps of the loop before SIP_TxFlow answers: those before its next      *)
(* call, and one turn more if it may have to send a report again.          *)
ToTxFlow ==
    CASE pc = "SIP_TxFlow" -> 0
      [] pc = "NET_RxParse" -> 1
      [] pc = "line" -> 2
      [] pc = "RTP_tx" -> 3
      [] pc = "sdp" -> 4

Ahead == ToTxFlow + (IF rested = 0 /\ retry = 0 THEN 0 ELSE 5)

Within(n) == EndPending /\ Ahead < n

LEMMA AheadRange == IInv => Ahead \in 0..9
  BY DEF IInv, TypeOK, Turn, Ahead, ToTxFlow

(* No step takes the answer away or makes it wait longer, and every step   *)
(* of the loop brings it nearer.                                           *)
LEMMA Nearer ==
  ASSUME NEW n \in Nat, IInv, Within(n + 1), [Next]_vars
  PROVE  /\ Within(n + 1)' \/ EndServed'
         /\ <<MainLoop>>_vars => Within(n)' \/ EndServed'
<1> USE DEF IInv, TypeOK, Turn, Flow, Within, EndPending, EndServed, Ahead, ToTxFlow
<1>1. CASE NET_RxParse
  BY <1>1 DEF NET_RxParse, Goto, Pending, Body, audio, Invite, Bye, Cancel,
              OkInvite, OkOther, Terminated, NoAnswer, dialog
<1>2. CASE SIP_TxFlow
  <2> USE <1>2 DEF SIP_TxFlow, Goto
  <2>1. CASE SendReport
    BY <2>1 DEF SendReport, audio
  <2>2. CASE retry = 0
    BY <2>2 DEF SendReport, SendTrying, SendRinging, SendAck, SendByeOk, SendCancelOk,
              SendNothing, NotRegistered, TEL_OffInit
  <2> QED
    BY <2>1, <2>2 DEF NotRegistered
<1>3. CASE ConnectRtp
  BY <1>3 DEF ConnectRtp, Goto, dialog, audio, history
<1>4. CASE RTP_tx
  BY <1>4 DEF RTP_tx, Goto, OpenRecording, dialog, audio, history
<1>5. CASE Line
  BY <1>5 DEF Line, Goto, dialog, history
<1>6. CASE Timeout
  <2>1. UNCHANGED <<pc, registered, flow, ringing, rested>> /\ rested = 1
    BY <1>6 DEF Timeout, dialog, audio, history
  <2>2. pc' = pc /\ Ahead' = Ahead
    BY <2>1
  <2>3. Within(n + 1)'
    BY <2>1, <2>2
  <2>4. ~MainLoop
    BY <2>2 DEF MainLoop, NET_RxParse, SIP_TxFlow, ConnectRtp, RTP_tx, Line, Goto
  <2> QED
    BY <2>3, <2>4
<1>7. CASE UNCHANGED vars
  BY <1>7 DEF vars, dialog, audio, history
<1> QED
  BY <1>1, <1>2, <1>3, <1>4, <1>5, <1>6, <1>7 DEF Next, MainLoop

(* For every set of calls, a caller who goes silences the telephone within *)
(* ten steps of the loop, unless another message asks for an answer.       *)
THEOREM EndsAreServed == FairSpec /\ LoopCanTurn => EndIsServed
<1> DEFINE Step(m, n) ==
      IInv /\ Within(m) /\ [Next]_vars
        => /\ Within(m)' \/ EndServed'
           /\ <<MainLoop>>_vars => Within(n)' \/ EndServed'
<1>1. \A n \in Nat : Step(n + 1, n)
  BY Nearer
<1>2. /\ Step(10, 9) /\ Step(9, 8) /\ Step(8, 7) /\ Step(7, 6) /\ Step(6, 5)
      /\ Step(5, 4) /\ Step(4, 3) /\ Step(3, 2) /\ Step(2, 1) /\ Step(1, 0)
  <2> HIDE DEF Step
  <2> QED
    BY <1>1, SMTT(30)
<1>3. IInv => /\ EndPending => Within(10)
              /\ ~Within(0)
  BY AheadRange DEF Within
<1>4. IInv /\ registered = 1 /\ flow \in {"BYE_200", "CANCEL_200"}
        => EndServed \/ EndPending
  BY DEF EndServed, EndPending, IInv, TypeOK
<1> QED
  BY <1>2, <1>3, <1>4, Invariance, PTL
  DEF Spec, FairSpec, LoopCanTurn, EndIsServed, EndServed
=============================================================================
