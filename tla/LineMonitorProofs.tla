------------------------- MODULE LineMonitorProofs -------------------------
(***************************************************************************)
(* The invariants and action properties of LineMonitor, for every set of   *)
(* line conditions and callers and for all values of the thresholds that   *)
(* its assumptions allow.                                                  *)
(***************************************************************************)
EXTENDS LineMonitor, TLAPS

(* A call that has begun to ring, or rings, has left the other states.     *)
RingExcludes ==
    gRingCount # 0 \/ ringing = 1 => discon = 0 /\ onhook = 0 /\ offhook = 0

(* During a ringing call the on-hook timer runs against the long delay and *)
(* has not run longer than the line has been quiet.                        *)
QuietBoundsTimer ==
    gRingCount # 0 => /\ onhook_delay = LongDelay
                      /\ bat_onhook <= quiet \/ quiet = LongQuiet

(* While an off-hook state is being confirmed, its timer is younger than   *)
(* the first off-hook sample.                                              *)
SampleBoundsTimer ==
    flag3 = 1 => /\ offSeen >= 1
                 /\ bat_offhook < offSeen \/ offSeen = LongSeen

(* A recording is open only for a call that rings or is answered, or that  *)
(* was hung up in this very turn of the loop (FSK_RTP_stop then closes it) *)
(* or torn off with the cable: no other path leaves a recording behind.    *)
RecordingHasCall ==
    rtp = 1 => \/ ringing = 1 \/ offhook = 1 \/ discon = 1
               \/ onhook = 1 /\ pc \in {"FSK_ringing", "FSK_parse",
                                        "FSK_RTP_stop"}

(* What this call has stored, up to gCidIndex, holds one header if the     *)
(* exchange has begun its announcement and none before; what is behind it  *)
(* is the number, once that has been received.  Beyond gCidIndex the bytes *)
(* of earlier calls may say anything.                                      *)
NoHeader == \A i \in 1..gCidIndex : cidBuf[i] # "header"

HeaderAt(h) ==
    /\ h \in 1..gCidIndex
    /\ cidBuf[h] = "header"
    /\ \A i \in 1..gCidIndex : cidBuf[i] = "header" => i = h
    /\ caller # Garbled => h + 1 \in 1..gCidIndex /\ cidBuf[h + 1] = caller

BufferIsFresh ==
    parse = 0 => /\ caller = NoCid => NoHeader
                 /\ caller # NoCid => \E h \in Nat : HeaderAt(h)

IInv ==
    /\ TypeOK
    /\ OneLineState
    /\ RecordingHasCall
    /\ RingExcludes
    /\ QuietBoundsTimer
    /\ SampleBoundsTimer
    /\ BufferIsFresh

-----------------------------------------------------------------------------
(* A step that does not touch the caller's number keeps BufferIsFresh, the *)
(* first ring of a call makes it true; only the steps that receive need it *)
(* expanded.                                                               *)
LEMMA BufferKept == BufferIsFresh /\ UNCHANGED cid => BufferIsFresh'
  BY DEF BufferIsFresh, NoHeader, HeaderAt, cid

LEMMA BufferNew ==
  (gCidIndex' = 0 /\ caller' = NoCid) \/ parse' = 1 => BufferIsFresh'
  BY DEF BufferIsFresh, NoHeader

LEMMA BufferInit ==
  Init => BufferIsFresh /\ gCidIndex \in 0..CidLen /\ cidBuf \in Buffer
  BY CallerAssumption DEF Init, BufferIsFresh, NoHeader, Buffer, Part

(* The recorder starts in the invariant.                                   *)
LEMMA InitInv == Init => IInv
  BY ConditionAssumption, CallerAssumption, TickAssumption, BufferInit
  DEF Init, IInv, TypeOK, Turn, Bit, LongSeen, LongQuiet, OneLineState,
      RecordingHasCall, RingExcludes, QuietBoundsTimer, SampleBoundsTimer

(* The line and the timer interrupt keep it.                               *)
LEMMA LineChangeInv == IInv /\ LineChange => IInv'
  BY BufferKept
  DEF IInv, TypeOK, OneLineState, RecordingHasCall, RingExcludes,
      QuietBoundsTimer, SampleBoundsTimer, LineChange,
      timers, flags, cid, NoReport

LEMMA TickInv == IInv /\ Tick => IInv'
  BY TickAssumption, BufferKept
  DEF IInv, TypeOK, OneLineState, RecordingHasCall, RingExcludes,
      QuietBoundsTimer, SampleBoundsTimer, Tick,
      flags, cid, NoReport, Older, LongSeen, LongQuiet, Bit

(* A received part changes the buffer, its index and the history of the    *)
(* announcement: the rest of the invariant does not read them.             *)
LEMMA ReceiveType ==
  ASSUME NEW part \in Part, IInv, Receive(part),
         caller' \in Callers \cup {NoCid, Garbled}
  PROVE  /\ TypeOK' /\ OneLineState' /\ RecordingHasCall' /\ RingExcludes'
         /\ QuietBoundsTimer' /\ SampleBoundsTimer'
<1>1. gCidIndex' \in 0..CidLen /\ cidBuf' \in Buffer
  BY CallerAssumption DEF IInv, TypeOK, Buffer, Receive
<1> QED
  BY <1>1
  DEF IInv, TypeOK, OneLineState, RecordingHasCall, RingExcludes,
      QuietBoundsTimer, SampleBoundsTimer, Receive, timers, flags, NoReport,
      Bit

(* Where the part is and what stays in its place.                          *)
LEMMA ReceivePlace ==
  ASSUME NEW part \in Part, IInv, Receive(part)
  PROVE  /\ gCidIndex \in Nat /\ gCidIndex' = gCidIndex + 1
         /\ cidBuf'[gCidIndex + 1] = part
         /\ \A i \in 1..gCidIndex : cidBuf'[i] = cidBuf[i]
         /\ parse' = parse
  BY CallerAssumption DEF IInv, TypeOK, Buffer, Receive

LEMMA ReceiveOtherInv == IInv /\ ReceiveOther => IInv'
<1> SUFFICES ASSUME IInv, ReceiveOther PROVE IInv'
  OBVIOUS
<1>1. "other" \in Part /\ Receive("other") /\ caller' = caller
  BY DEF ReceiveOther, Part
<1>2. /\ gCidIndex \in Nat /\ gCidIndex' = gCidIndex + 1
      /\ cidBuf'[gCidIndex + 1] = "other"
      /\ \A i \in 1..gCidIndex : cidBuf'[i] = cidBuf[i]
      /\ parse' = parse
  BY <1>1, ReceivePlace
<1>3. NoHeader => NoHeader'
  BY <1>2 DEF NoHeader
<1>4. ASSUME NEW h \in Nat, HeaderAt(h)
      PROVE  HeaderAt(h)'
  BY <1>1, <1>2, <1>4 DEF HeaderAt
<1>5. BufferIsFresh'
  BY <1>1, <1>2, <1>3, <1>4 DEF IInv, BufferIsFresh
<1>6. caller' \in Callers \cup {NoCid, Garbled}
  BY <1>1 DEF IInv, TypeOK
<1> QED
  BY <1>1, <1>5, <1>6, ReceiveType DEF IInv

LEMMA ReceiveHeaderInv == IInv /\ ReceiveHeader => IInv'
<1> SUFFICES ASSUME IInv, ReceiveHeader PROVE IInv'
  OBVIOUS
<1>1. /\ "header" \in Part /\ Receive("header")
      /\ caller = NoCid /\ caller' = Garbled
  BY DEF ReceiveHeader, Part
<1>2. /\ gCidIndex \in Nat /\ gCidIndex' = gCidIndex + 1
      /\ cidBuf'[gCidIndex + 1] = "header"
      /\ \A i \in 1..gCidIndex : cidBuf'[i] = cidBuf[i]
      /\ parse' = parse
  BY <1>1, ReceivePlace
<1>3. ASSUME NoHeader, NEW h \in Nat, h = gCidIndex + 1
      PROVE  HeaderAt(h)'
  BY <1>1, <1>2, <1>3 DEF NoHeader, HeaderAt
<1>4. BufferIsFresh'
  BY <1>1, <1>2, <1>3, CallerAssumption DEF IInv, BufferIsFresh
<1> QED
  BY <1>1, <1>4, ReceiveType DEF IInv

LEMMA ReceiveNumberInv ==
  ASSUME NEW n \in Callers, IInv, ReceiveNumber(n)
  PROVE  IInv'
<1>1. /\ n \in Part /\ n # "header" /\ n # NoCid /\ n # Garbled
      /\ Receive(n) /\ caller = Garbled /\ caller' = n /\ Garbled # NoCid
      /\ gCidIndex > 0 /\ cidBuf[gCidIndex] = "header"
  BY CallerAssumption DEF ReceiveNumber, Part
<1>2. /\ gCidIndex \in Nat /\ gCidIndex' = gCidIndex + 1
      /\ cidBuf'[gCidIndex + 1] = n
      /\ \A i \in 1..gCidIndex : cidBuf'[i] = cidBuf[i]
      /\ parse' = parse
  BY <1>1, ReceivePlace
<1>3. ASSUME NEW h \in Nat, HeaderAt(h)
      PROVE  HeaderAt(h)'
  <2>1. h = gCidIndex
    BY <1>1, <1>2, <1>3 DEF HeaderAt
  <2> QED
    BY <1>1, <1>2, <1>3, <2>1 DEF HeaderAt
<1>4. BufferIsFresh'
  BY <1>1, <1>2, <1>3 DEF IInv, BufferIsFresh
<1> QED
  BY <1>1, <1>4, ReceiveType DEF IInv

LEMMA ReceiveInv ==
  ReceiveOther \/ ReceiveHeader \/ (\E n \in Callers : ReceiveNumber(n))
    => (IInv => IInv')
  BY ReceiveOtherInv, ReceiveHeaderInv, ReceiveNumberInv

(* The steps of the main loop keep it.  SIP_TxFlow and FSK_RTP_stop only   *)
(* close recordings; RTP_tx opens one for a call.                          *)
LEMMA RecordingStepsInv == IInv /\ (SIP_TxFlow \/ RTP_tx \/ FSK_RTP_stop) => IInv'
  BY BufferKept
  DEF IInv, TypeOK, OneLineState, RecordingHasCall, RingExcludes,
      QuietBoundsTimer, SampleBoundsTimer, SIP_TxFlow, RTP_tx,
      FSK_RTP_stop, Step, timers, flags, cid, NoReport, Turn, Bit

LEMMA ParseInv == IInv /\ FSK_parse => IInv'
<1> SUFFICES ASSUME IInv, FSK_parse PROVE IInv'
  OBVIOUS
<1>1. CASE UNCHANGED cid /\ NoReport
  BY <1>1, BufferKept
  DEF IInv, TypeOK, OneLineState, RecordingHasCall, RingExcludes,
      QuietBoundsTimer, SampleBoundsTimer, FSK_parse, Step, timers,
      flags, cid, NoReport, Turn, Bit
<1>2. CASE parse' = 1 /\ UNCHANGED <<gCidIndex, caller>>
  <2>1. /\ cidBuf' \in Buffer
        /\ report' \in {"none", "start"}
        /\ reportNum' \in Callers \cup {NoCid, Garbled}
    BY CallerAssumption
    DEF FSK_parse, IInv, TypeOK, NoReport, Number, Wiped, Buffer, Part, cid
  <2> QED
    BY <1>2, <2>1, BufferNew
    DEF IInv, TypeOK, OneLineState, RecordingHasCall, RingExcludes,
        QuietBoundsTimer, SampleBoundsTimer, FSK_parse,
        Step, timers, flags, Turn, Bit
<1> QED
  BY <1>1, <1>2 DEF FSK_parse

(* A sample of the line voltage: one case for each branch of               *)
(* CW2015_BatStatus.                                                       *)
LEMMA SampleInv == IInv /\ CW2015_BatSample => IInv'
<1> SUFFICES ASSUME IInv, CW2015_BatSample PROVE IInv'
  OBVIOUS
<1> USE TickAssumption, BufferKept
    DEF IInv, TypeOK, OneLineState, RecordingHasCall, RingExcludes,
      QuietBoundsTimer, SampleBoundsTimer, CW2015_BatSample,
      Step, cid, Turn, Bit, LongSeen, LongQuiet
<1>1. CASE bat_sample < SampleTicks
  BY <1>1 DEF timers, flags, NoReport
<1>2. CASE bat_sample' = 0 /\ BatDiscon
  BY <1>2 DEF BatDiscon, NewState, SameState, NoReport
<1>3. CASE bat_sample' = 0 /\ BatRing
  BY <1>3 DEF BatRing, SameState, NoReport
<1>4. CASE bat_sample' = 0 /\ BatOnhook
  BY <1>4 DEF BatOnhook, OnhookLong, NewState, SameState, NoReport
<1>5. CASE bat_sample' = 0 /\ BatOffhook
  BY <1>5 DEF BatOffhook, OffhookLong, SameState, NoReport
<1>6. CASE bat_sample' = 0 /\ BatAnswered
  BY <1>6 DEF BatAnswered, NewState
<1>7. CASE bat_sample' = 0 /\ BatNothing
  BY <1>7 DEF BatNothing, SameState, NoReport
<1> QED
  BY <1>1, <1>2, <1>3, <1>4, <1>5, <1>6, <1>7

(* A look at the ring detector: the first edge of a call, a later one, or  *)
(* none.                                                                   *)
LEMMA RingingInv == IInv /\ FSK_ringing => IInv'
<1> SUFFICES ASSUME IInv, FSK_ringing PROVE IInv'
  OBVIOUS
<1> USE TickAssumption, BufferKept, BufferNew
    DEF IInv, TypeOK, OneLineState, RecordingHasCall,
      RingExcludes, QuietBoundsTimer, SampleBoundsTimer, FSK_ringing, Step,
      NoReport, Turn, Bit, LongSeen, LongQuiet
<1>1. CASE AnyRing /\ FirstRing
  <2>1. gCidIndex' \in 0..CidLen
    BY <1>1, CallerAssumption DEF FirstRing
  <2> QED
    BY <1>1, <2>1 DEF AnyRing, FirstRing
<1>2. CASE AnyRing /\ NextRing
  BY <1>2 DEF AnyRing, NextRing, cid
<1>3. CASE NoRing
  <2>1. lowFlag' \in Bit
    BY <1>3, ConditionAssumption DEF NoRing, RingEdge
  <2> QED
    BY <1>3, <2>1 DEF NoRing, RingingNow, cid
<1> QED
  BY <1>1, <1>2, <1>3 DEF AnyRing

LEMMA NextInv == IInv /\ [Next]_vars => IInv'
<1> SUFFICES ASSUME IInv, [Next]_vars PROVE IInv'
  OBVIOUS
<1>1. CASE MainLoop
  BY <1>1, RecordingStepsInv, ParseInv, SampleInv, RingingInv DEF MainLoop
<1>2. CASE Tick
  BY <1>2, TickInv
<1>3. CASE LineChange
  BY <1>3, LineChangeInv
<1>4. CASE ReceiveOther \/ ReceiveHeader \/ \E n \in Callers : ReceiveNumber(n)
  BY <1>4, ReceiveInv
<1>5. CASE UNCHANGED vars
  BY <1>5, BufferKept DEF vars, timers, flags, cid, IInv, TypeOK, OneLineState,
      RecordingHasCall, RingExcludes, QuietBoundsTimer, SampleBoundsTimer
<1> QED
  BY <1>1, <1>2, <1>3, <1>4, <1>5 DEF Next

(* IInv is inductive: it holds in every state of every behaviour.          *)
THEOREM Invariance == Spec => []IInv
  BY InitInv, NextInv, PTL DEF Spec

(* Every variable keeps to its set: no timer, counter or flag of the line  *)
(* monitor leaves the range its C type has.                                *)
THEOREM TypeCorrect == Spec => []TypeOK
  BY Invariance, PTL DEF IInv

(* The four line states exclude one another: cw2015.c and usart3_FSK.C     *)
(* both set the flags, each without looking at all of them.                *)
THEOREM LineStateExclusive == Spec => []OneLineState
  BY Invariance, PTL DEF IInv

(* Only a call that rings, is answered or was torn off is recorded beyond  *)
(* the turn of the main loop that saw it hung up.                          *)
THEOREM RecordingJustified == Spec => []RecordingHasCall
  BY Invariance, PTL DEF IInv

-----------------------------------------------------------------------------
(* The action properties follow from the invariant.                        *)

(* The pause between two rings never ends a call (CW2015_BatStatus, the    *)
(* on-hook branch, against the delay FSK_ringing sets).                    *)
THEOREM PauseIsNoHangup == Spec => NoFalseHangup
<1> DEFINE Kept == gRingCount # 0 /\ onhook = 0 /\ onhook' = 1
                     => quiet > LongDelay
<1>1. IInv /\ [Next]_vars => Kept
  <2> SUFFICES ASSUME IInv, [Next]_vars, gRingCount # 0, onhook = 0,
                      onhook' = 1
               PROVE  quiet > LongDelay
    OBVIOUS
  <2>1. CW2015_BatSample
    BY DEF Next, MainLoop, SIP_TxFlow, RTP_tx, FSK_ringing, AnyRing, NoRing,
           FSK_parse, FSK_RTP_stop, Tick, LineChange, ReceiveOther,
           ReceiveHeader, ReceiveNumber, Receive, vars, flags
  <2>2. BatOnhook
    BY <2>1 DEF CW2015_BatSample, BatDiscon, BatRing, BatOffhook,
                BatAnswered, BatNothing, NewState, SameState, flags
  <2>3. bat_onhook > onhook_delay
    BY <2>2 DEF BatOnhook, OnhookLong, SameState
  <2> QED
    BY <2>3, TickAssumption
    DEF IInv, QuietBoundsTimer, TypeOK, LongQuiet
<1> QED
  BY <1>1, Invariance, PTL DEF Spec, NoFalseHangup

(* A call is answered only by an off-hook state that lasted               *)
(* (CW2015_BatStatus, the off-hook branch).                                *)
THEOREM AnswerIsDebounced == Spec => OffhookDebounced
<1> DEFINE Kept == offhook = 0 /\ offhook' = 1 => offSeen > OffhookTicks
<1>1. IInv /\ [Next]_vars => Kept
  <2> SUFFICES ASSUME IInv, [Next]_vars, offhook = 0, offhook' = 1
               PROVE  offSeen > OffhookTicks
    OBVIOUS
  <2>1. CW2015_BatSample
    BY DEF Next, MainLoop, SIP_TxFlow, RTP_tx, FSK_ringing, AnyRing, NoRing,
           FSK_parse, FSK_RTP_stop, Tick, LineChange, ReceiveOther,
           ReceiveHeader, ReceiveNumber, Receive, vars, flags
  <2>2. BatAnswered
    BY <2>1 DEF CW2015_BatSample, BatDiscon, BatRing, BatOnhook, BatOffhook,
                BatNothing, NewState, SameState, flags
  <2>3. flag3 = 1 /\ bat_offhook >= OffhookTicks
    BY <2>2 DEF BatAnswered, OffhookLong
  <2> QED
    BY <2>3, TickAssumption
    DEF IInv, SampleBoundsTimer, TypeOK, LongSeen
<1> QED
  BY <1>1, Invariance, PTL DEF Spec, OffhookDebounced

(* A number received whole in this call is the one its start message       *)
(* carries (USART3_IRQHandler, FSK_parse), whatever was received before it *)
(* and whatever the calls before left in the buffer.                       *)
THEOREM AnnouncedNumberSent == Spec => FreshNumberWins
<1> DEFINE Kept == report' = "start" /\ caller \in Callers
                     => reportNum' = caller
<1>1. IInv /\ Next => Kept
  <2> SUFFICES ASSUME IInv, Next, report' = "start", caller \in Callers
               PROVE  reportNum' = caller
    OBVIOUS
  <2>1. FSK_parse
    BY DEF Next, MainLoop, SIP_TxFlow, RTP_tx, FSK_ringing, FSK_RTP_stop,
           Tick, LineChange, ReceiveOther, ReceiveHeader, ReceiveNumber,
           Receive, CW2015_BatSample, BatDiscon, BatRing, BatOnhook,
           BatOffhook, BatAnswered, BatNothing, NoReport
  <2>2. parse = 0 /\ \E i \in Found : reportNum' = Number(i)
    BY <2>1 DEF FSK_parse, NoReport
  <2>3. PICK i \in Found : reportNum' = Number(i)
    BY <2>2
  <2>4. PICK h \in Nat : HeaderAt(h)
    BY <2>2, CallerAssumption DEF IInv, BufferIsFresh
  <2>5. /\ gCidIndex \in 0..CidLen /\ CidLen \in Nat
        /\ caller # Garbled
    BY CallerAssumption DEF IInv, TypeOK
  <2>6. i = h
    BY <2>4, <2>5 DEF Found, HeaderAt
  <2> QED
    BY <2>3, <2>4, <2>5, <2>6 DEF Number, HeaderAt
<1> QED
  BY <1>1, Invariance, PTL DEF Spec, FreshNumberWins

-----------------------------------------------------------------------------
(* What SipDialog assumes of the line.                                     *)

(* The recording of a call that was hung up is open until FSK_RTP_stop, in *)
(* the same turn, has closed it; nothing else reads the flag in between.   *)
Line ==
    IF offhook = 1 \/ ringing = 1 THEN "busy"
    ELSE IF onhook = 1 THEN "onhook"
    ELSE IF discon = 1 THEN "unplugged"
    ELSE "ring"

Closing == onhook = 1 /\ pc \in {"FSK_ringing", "FSK_parse", "FSK_RTP_stop"}

Recorded == IF Closing THEN 0 ELSE rtp

R == INSTANCE RecordedLine WITH line <- Line, rtp <- Recorded

(* Whatever the line does, LineMonitor shows the SIP dialog only the steps *)
(* its model of the line has: the parts of cw2015.c, usart3_FSK.C and      *)
(* rtp.c that set gsBatFlag and gsSipTxFlag.rtp.                           *)
THEOREM ImplementsRecordedLine == Spec => R!Spec
<1>1. Init => R!Init
  BY DEF Init, R!Init, Line, Recorded, Closing
<1>2. IInv /\ [Next]_vars => [R!Next]_<<Line, Recorded>>
  <2> SUFFICES ASSUME IInv, [Next]_vars PROVE [R!Next]_<<Line, Recorded>>
    OBVIOUS
  <2> USE DEF Line, Recorded, Closing, Step
  <2>1. CASE \/ Tick \/ LineChange \/ ReceiveOther \/ ReceiveHeader
             \/ \E n \in Callers : ReceiveNumber(n)
             \/ UNCHANGED vars
    BY <2>1 DEF Tick, LineChange, ReceiveOther, ReceiveHeader, ReceiveNumber,
                Receive, flags, vars
  <2>2. CASE SIP_TxFlow
    BY <2>2 DEF SIP_TxFlow, flags, R!Next, R!EndRecording
  <2>3. CASE RTP_tx
    BY <2>3 DEF RTP_tx, flags, R!Next, R!Record, IInv, TypeOK, Bit
  <2>4. CASE FSK_parse
    BY <2>4 DEF FSK_parse, flags
  <2>5. CASE FSK_RTP_stop
    BY <2>5 DEF FSK_RTP_stop, flags, IInv, TypeOK, Bit
  <2>6. CASE CW2015_BatSample
    <3> USE <2>6 DEF CW2015_BatSample, IInv, TypeOK, Bit, OneLineState,
                     RecordingHasCall, RingExcludes, R!Next, R!NewLine
    <3>1. CASE UNCHANGED <<timers, flags, gRingCount, onhook_delay, offSeen>>
      <4>1. UNCHANGED <<discon, onhook, offhook, ringing, rtp>>
        BY <3>1 DEF flags
      <4>2. onhook = 1 => rtp = 0
        OBVIOUS
      <4> QED
        BY <4>1, <4>2
    <3>2. CASE BatDiscon
      BY <3>2 DEF BatDiscon, NewState, SameState
    <3>3. CASE BatRing
      BY <3>3 DEF BatRing, SameState
    <3>4. CASE BatOnhook
      BY <3>4 DEF BatOnhook, NewState, SameState
    <3>5. CASE BatOffhook
      BY <3>5 DEF BatOffhook, SameState
    <3>6. CASE BatAnswered
      BY <3>6 DEF BatAnswered, NewState
    <3>7. CASE BatNothing
      BY <3>7 DEF BatNothing, SameState
    <3> QED
      BY <3>1, <3>2, <3>3, <3>4, <3>5, <3>6, <3>7
  <2>7. CASE FSK_ringing
    <3> USE <2>7 DEF FSK_ringing, IInv, TypeOK, Bit, OneLineState,
                     RecordingHasCall, RingExcludes, R!Next, R!NewLine,
                     R!FirstRing
    <3>1. CASE AnyRing /\ FirstRing
      BY <3>1 DEF AnyRing, FirstRing
    <3>2. CASE AnyRing /\ NextRing
      BY <3>2 DEF AnyRing, NextRing
    <3>3. CASE NoRing
      BY <3>3 DEF NoRing, RingingNow
    <3> QED
      BY <3>1, <3>2, <3>3 DEF AnyRing
  <2> QED
    BY <2>1, <2>2, <2>3, <2>4, <2>5, <2>6, <2>7 DEF Next, MainLoop
<1> QED
  BY <1>1, <1>2, Invariance, PTL DEF Spec, R!Spec

-----------------------------------------------------------------------------
(* What the server is told.                                                *)

(* A sample of the voltage changes the phase by hanging up, answering or   *)
(* unplugging, and never while a stop message is due.                      *)
LEMMA SampleReports ==
  IInv /\ CW2015_BatSample => Server!Next
<1> SUFFICES ASSUME IInv, CW2015_BatSample PROVE Server!Next
  OBVIOUS
<1> USE DEF CW2015_BatSample, Step, IInv, TypeOK, Bit, OneLineState, RecordingHasCall,
            RingExcludes, cid, Server!Next, Phase
<1>1. ~(onhook = 1 /\ rtp = 1)
  OBVIOUS
<1>2. CASE UNCHANGED <<timers, flags, gRingCount, onhook_delay, offSeen>> /\ NoReport
  BY <1>2 DEF flags, NoReport, Server!Silent
<1>3. CASE BatDiscon
  BY <1>1, <1>3
  DEF BatDiscon, NewState, SameState, NoReport, Server!Silent, Server!Unplug,
      Server!Closing
<1>4. CASE BatRing
  BY <1>4 DEF BatRing, SameState, NoReport, Server!Silent
<1>5. CASE BatOnhook
  BY <1>5 DEF BatOnhook, NewState, SameState, NoReport, Server!Silent, Server!HangUp
<1>6. CASE BatOffhook
  BY <1>6 DEF BatOffhook, SameState, NoReport, Server!Silent
<1>7. CASE BatAnswered
  BY <1>1, <1>7 DEF BatAnswered, NewState, Server!Answer, Server!Closing
<1>8. CASE BatNothing
  BY <1>8 DEF BatNothing, SameState, NoReport, Server!Silent
<1> QED
  BY <1>2, <1>3, <1>4, <1>5, <1>6, <1>7, <1>8

(* For all thresholds: the reports follow the calls as CallReports says.   *)
THEOREM ServerIsTold == Spec => ReportsCalls
<1>1. Init => Server!Init
  BY DEF Init, Server!Init, Phase
<1>2. IInv /\ [Next]_vars => [Server!Next]_(Server!vars)
  <2> SUFFICES ASSUME IInv, [Next]_vars PROVE Server!Next \/ UNCHANGED Server!vars
    OBVIOUS
  <2> USE DEF Phase, Server!Next, Step, NoReport
  <2>1. CASE \/ Tick \/ LineChange \/ ReceiveOther \/ ReceiveHeader
             \/ \E n \in Callers : ReceiveNumber(n)
    BY <2>1 DEF Tick, LineChange, ReceiveOther, ReceiveHeader, ReceiveNumber,
                Receive, flags, cid, Server!Silent
  <2>2. CASE SIP_TxFlow
    BY <2>2
    DEF SIP_TxFlow, flags, cid, IInv, OneLineState, TypeOK, Bit, RecordingHasCall,
        Server!Silent, Server!EndRecording, Server!Closing
  <2>3. CASE RTP_tx
    BY <2>3
    DEF RTP_tx, flags, cid, IInv, RingExcludes, Server!Silent, Server!Record
  <2>4. CASE CW2015_BatSample
    BY <2>4, SampleReports
  <2>5. CASE FSK_ringing
    BY <2>5
    DEF FSK_ringing, AnyRing, FirstRing, NextRing, NoRing, RingingNow, cid, IInv,
        RingExcludes, TypeOK, Bit, Server!Silent, Server!Ring
  <2>6. CASE FSK_parse
    BY <2>6
    DEF FSK_parse, flags, cid, IInv, RingExcludes, TypeOK, Bit, Server!Silent,
        Server!Start
  <2>7. CASE FSK_RTP_stop
    BY <2>7
    DEF FSK_RTP_stop, flags, cid, IInv, OneLineState, TypeOK, Bit, Server!Silent,
        Server!Stop, Server!Closing
  <2>8. CASE UNCHANGED vars
    BY <2>8 DEF vars, flags, cid, Server!vars
  <2> QED
    BY <2>1, <2>2, <2>3, <2>4, <2>5, <2>6, <2>7, <2>8 DEF Next, MainLoop
<1> QED
  BY <1>1, <1>2, Invariance, PTL DEF Spec, ReportsCalls, Server!Spec
=============================================================================
