---------------------------- MODULE LineMonitor ----------------------------
(***************************************************************************)
(* The telephone line as the recorder sees it.                             *)
(*                                                                         *)
(* The main loop samples the line voltage (CW2015_BatStatus), counts the   *)
(* edges of the ring detector (FSK_ringing), decodes the caller's number   *)
(* the exchange sends between the first and the second ring (FSK_parse)    *)
(* and opens and closes the recording (RTP_tx, FSK_RTP_stop).  TIM3 counts *)
(* time below it, USART3 stores the caller's number.                       *)
(*                                                                         *)
(* One turn of the main loop is the sequence of steps                      *)
(*     SIP_TxFlow, RTP_tx, CW2015_BatSample, FSK_ringing, FSK_parse,       *)
(*     FSK_RTP_stop                                                        *)
(* with the interrupts and the line itself moving between any two of them. *)
(* Time is counted in the 100 ms units of the timer interrupt.             *)
(***************************************************************************)
EXTENDS Naturals

CONSTANTS
    Conditions,     \* states of the line: pairs <<voltage class, ring pin>>
    PowerUp,        \* the condition of the line when the recorder starts
    Callers,        \* numbers the exchange can announce
    NoCid,          \* no number
    Garbled,        \* a number that nobody announced
    CidLen,         \* parts in the caller buffer, 0 on a line without numbers
    MaxRings,       \* bound: the exchange stops ringing after so many rings
    U8,             \* modulus of the u8 counters
    SampleTicks,    \* gpsT3->bat_sample >= 200 ms
    DisconTicks,    \* gpsT3->bat_discon > 30
    OffhookTicks,   \* gpsT3->bat_offhook >= 12
    RingTicks,      \* gpsT3->bat_ringing >= 10
    ShortDelay,     \* onhook_delay = 12, after an answered call
    LongDelay       \* onhook_delay = 60, after a ring

(* The voltage classes CW2015_BatStatus tells apart; "gap" is every voltage *)
(* that none of its branches covers.                                        *)
Volts == {"cut", "gap", "offhook", "onhook", "ring"}

ASSUME ConditionAssumption ==
    /\ Conditions \subseteq Volts \X {0, 1}
    /\ PowerUp \in Conditions
ASSUME CallerAssumption ==
    /\ NoCid \notin Callers
    /\ Garbled \notin Callers
    /\ NoCid # Garbled
    /\ CidLen \in Nat
    /\ Callers \cap {"zero", "other", "header"} = {}
ASSUME TickAssumption ==
    /\ {U8, SampleTicks, DisconTicks, OffhookTicks,
        RingTicks, ShortDelay, LongDelay} \subseteq Nat \ {0}
    /\ MaxRings \in Nat
    /\ ShortDelay <= LongDelay
    /\ U8 > DisconTicks + 1
    /\ U8 > OffhookTicks
    /\ U8 > RingTicks
    /\ U8 > LongDelay + SampleTicks + 1

VARIABLES
    line,           \* what is on the wire: the voltage and the ring pin
    pc,             \* the function of the main loop that runs next
    ticked,         \* a timer tick fell into this turn of the main loop
    bat_sample, bat_discon, bat_onhook, bat_offhook, bat_ringing,
    discon, onhook, offhook, ringing,           \* gsBatFlag
    flag1, flag2, flag3,                        \* its debouncing flags
    gRingCount,     \* ring edges of this call
    lowFlag,        \* gRingingLow_flag: the low edge has been counted
    onhook_delay,
    parse,          \* gsCidFlag.parse: this call's number has been looked at
    gCidIndex,      \* parts of the buffer received in this call
    cidBuf,         \* gCallerIDBuffer
    rtp,            \* gsSipTxFlag.rtp: a recording is open
    report,         \* the message this step built for the server, if any
    reportNum,      \* the number a start message carries
    caller,         \* history: what the exchange announced in this call:
                    \* NoCid, Garbled (begun, not received whole), a number
    offSeen,        \* history: age of the off-hook samples, see OffAge
    quiet           \* history: ticks since the last ring edge

timers == <<bat_sample, bat_discon, bat_onhook, bat_offhook, bat_ringing>>
flags == <<discon, onhook, offhook, ringing, flag1, flag2, flag3>>
cid == <<parse, gCidIndex, cidBuf, caller>>
vars == <<line, pc, ticked, timers, flags, gRingCount, lowFlag, onhook_delay,
          cid, rtp, report, reportNum, offSeen, quiet>>

Bit == {0, 1}
Turn == {"SIP_TxFlow", "RTP_tx", "BatSample", "FSK_ringing",
         "FSK_parse", "FSK_RTP_stop"}
NoReport == report' = "none" /\ reportNum' = NoCid

(* The history ages stop counting once they are old enough: bounds.        *)
LongSeen == OffhookTicks + 1
LongQuiet == LongDelay + 1
Older(age, cap) == IF age < cap THEN age + 1 ELSE cap

-----------------------------------------------------------------------------
(* CW2015_Init and the zeroed statics: the recorder starts with the line   *)
(* taken for disconnected.                                                 *)
Init ==
    /\ line = PowerUp
    /\ pc = "SIP_TxFlow"
    /\ ticked = 0
    /\ bat_sample = 0 /\ bat_discon = 0 /\ bat_onhook = 0
    /\ bat_offhook = 0 /\ bat_ringing = 0
    /\ discon = 1 /\ onhook = 0 /\ offhook = 0 /\ ringing = 0
    /\ flag1 = 0 /\ flag2 = 0 /\ flag3 = 0
    /\ gRingCount = 0
    /\ lowFlag = 0
    /\ onhook_delay = 0
    /\ parse = 0 /\ gCidIndex = 0 /\ caller = NoCid
    /\ cidBuf = [i \in 1..CidLen |-> "zero"]
    /\ rtp = 0
    /\ report = "none" /\ reportNum = NoCid
    /\ offSeen = 0
    /\ quiet = LongQuiet

-----------------------------------------------------------------------------
(* The world around the main loop.                                         *)

(* The subscriber, the exchange or the person with the cable.  The line is  *)
(* read in CW2015_BatSample and FSK_ringing only, so every change is given *)
(* just before one of them: nothing can tell it from an earlier one.       *)
LineChange ==
    /\ pc \in {"BatSample", "FSK_ringing"}
    /\ line' \in Conditions \ {line}
    /\ line'[2] = 0 => gRingCount < MaxRings
    /\ UNCHANGED <<pc, ticked, timers, flags, gRingCount, lowFlag,
                   onhook_delay, cid, rtp, offSeen, quiet>>
    /\ NoReport

(* TIM3_IRQHandler, its 100 ms part.  A turn of the main loop is much      *)
(* shorter than 100 ms: at most one tick falls into it.                    *)
Tick ==
    /\ ticked = 0
    /\ ticked' = 1
    /\ bat_sample' = IF bat_sample < SampleTicks THEN bat_sample + 1
                                                 ELSE bat_sample
    /\ bat_discon' = (bat_discon + 1) % U8
    /\ bat_onhook' = (bat_onhook + 1) % U8
    /\ bat_offhook' = (bat_offhook + 1) % U8
    /\ bat_ringing' = (bat_ringing + 1) % U8
    /\ offSeen' = IF offSeen = 0 THEN 0 ELSE Older(offSeen, LongSeen)
    /\ quiet' = Older(quiet, LongQuiet)
    /\ UNCHANGED <<line, pc, flags, gRingCount, lowFlag, onhook_delay, cid,
                   rtp>>
    /\ NoReport

(* USART3_IRQHandler stores what the modem receives between the first and  *)
(* the second ring, as far as there is room, over whatever is there.       *)
(* An announcement is a header (enough of the preamble, type, length and   *)
(* date) with the number behind it; every other run of bytes, be it        *)
(* noise, preamble or the remains of a message, is "other".                *)
Part == {"zero", "other", "header"} \cup Callers
Buffer == [1..CidLen -> Part]

Receive(part) ==
    /\ gRingCount = 1 /\ ringing = 1
    /\ gCidIndex < CidLen
    /\ cidBuf' = [cidBuf EXCEPT ![gCidIndex + 1] = part]
    /\ gCidIndex' = gCidIndex + 1
    /\ UNCHANGED <<line, pc, ticked, timers, flags, gRingCount, lowFlag,
                   onhook_delay, parse, rtp, offSeen, quiet>>
    /\ NoReport

ReceiveOther == Receive("other") /\ UNCHANGED caller

(* The exchange announces a call once.                                     *)
ReceiveHeader == caller = NoCid /\ Receive("header") /\ caller' = Garbled

ReceiveNumber(n) ==
    /\ caller = Garbled
    /\ gCidIndex > 0 /\ cidBuf[gCidIndex] = "header"
    /\ Receive(n)
    /\ caller' = n

-----------------------------------------------------------------------------
(* The main loop.                                                          *)

Step(from, to) == pc = from /\ pc' = to

(* SIP_TxFlow: when it answers a BYE or a CANCEL, TEL_OffInit clears the   *)
(* recording flag with the other SIP flags.                                *)
SIP_TxFlow ==
    /\ Step("SIP_TxFlow", "RTP_tx")
    /\ rtp' \in {rtp, 0}
    /\ UNCHANGED <<line, ticked, timers, flags, gRingCount, lowFlag,
                   onhook_delay, cid, offSeen, quiet>>
    /\ NoReport

(* A call that rings or is answered is recorded.                           *)
RTP_tx ==
    /\ Step("RTP_tx", "BatSample")
    /\ rtp' = IF offhook = 1 \/ ringing = 1 THEN 1 ELSE rtp
    /\ UNCHANGED <<line, ticked, timers, flags, gRingCount, lowFlag,
                   onhook_delay, cid, offSeen, quiet>>
    /\ NoReport

(* The four branches of CW2015_BatStatus.  Each needs the voltage twice:   *)
(* the first sample raises a flag and restarts a timer, a later one finds  *)
(* the flag up and the timer run out.                                      *)
NewStateKeepsRing(d, h, o) ==       \* mutant: the ringing flag survives
    /\ discon' = d /\ onhook' = h /\ offhook' = o /\ UNCHANGED ringing
    /\ gRingCount' = 0
    /\ bat_discon' = 0 /\ bat_onhook' = 0
    /\ bat_offhook' = 0 /\ bat_ringing' = 0

NewStateKeepsCount(d, h, o) ==      \* mutant: the ring count survives
    /\ discon' = d /\ onhook' = h /\ offhook' = o /\ ringing' = 0
    /\ UNCHANGED gRingCount
    /\ bat_discon' = 0 /\ bat_onhook' = 0
    /\ bat_offhook' = 0 /\ bat_ringing' = 0

NewState(d, h, o) ==
    /\ discon' = d /\ onhook' = h /\ offhook' = o /\ ringing' = 0
    /\ gRingCount' = 0
    /\ bat_discon' = 0 /\ bat_onhook' = 0
    /\ bat_offhook' = 0 /\ bat_ringing' = 0

SameState ==
    UNCHANGED <<discon, onhook, offhook, ringing, gRingCount, bat_ringing>>

(* How long the second sample has to come after the first.  The delay of   *)
(* the on-hook state depends on the call.                                  *)
OnhookLongEarly == bat_onhook >= onhook_delay       \* mutant: off by one
OnhookLong == bat_onhook > onhook_delay

OffhookLongEarly == bat_offhook + 1 >= OffhookTicks \* mutant: off by one
OffhookLong == bat_offhook >= OffhookTicks

BatDiscon ==
    /\ line[1] = "cut"
    /\ \/ /\ discon = 1
          /\ SameState
          /\ UNCHANGED <<bat_discon, bat_onhook, bat_offhook,
                         flag1, flag2, flag3>>
       \/ /\ discon = 0 /\ flag1 = 0
          /\ flag1' = 1 /\ flag2' = 0 /\ flag3' = 0
          /\ bat_discon' = 0
          /\ SameState
          /\ UNCHANGED <<bat_onhook, bat_offhook>>
       \/ /\ discon = 0 /\ flag1 = 1 /\ bat_discon > DisconTicks
          /\ NewState(1, 0, 0)
          /\ flag1' = 0
          /\ UNCHANGED <<flag2, flag3>>
       \/ /\ discon = 0 /\ flag1 = 1 /\ bat_discon <= DisconTicks
          /\ SameState
          /\ UNCHANGED <<bat_discon, bat_onhook, bat_offhook,
                         flag1, flag2, flag3>>
    /\ UNCHANGED <<onhook_delay, offSeen>>
    /\ NoReport

BatRing ==
    /\ line[1] = "ring"
    /\ bat_onhook' = 0 /\ bat_offhook' = 0
    /\ SameState
    /\ UNCHANGED <<bat_discon, flag1, flag2, flag3, onhook_delay, offSeen>>
    /\ NoReport

BatOnhook ==
    /\ line[1] = "onhook"
    /\ flag3' = 0
    /\ \/ /\ offhook = 0 /\ gRingCount = 0
          /\ bat_offhook' = 0
          /\ SameState
          /\ UNCHANGED <<bat_discon, bat_onhook, flag1, flag2>>
       \/ /\ offhook = 1 \/ gRingCount # 0
          /\ flag2 = 0
          /\ flag1' = 0 /\ flag2' = 1
          /\ bat_onhook' = 0 /\ bat_offhook' = 0
          /\ SameState
          /\ UNCHANGED bat_discon
       \/ /\ offhook = 1 \/ gRingCount # 0
          /\ flag2 = 1 /\ OnhookLong
          /\ NewState(0, 1, 0)
          /\ flag2' = 0
          /\ UNCHANGED flag1
       \/ /\ offhook = 1 \/ gRingCount # 0
          /\ flag2 = 1 /\ ~OnhookLong
          /\ bat_offhook' = 0
          /\ SameState
          /\ UNCHANGED <<bat_discon, bat_onhook, flag1, flag2>>
    /\ offSeen' = 0
    /\ UNCHANGED onhook_delay
    /\ NoReport

BatOffhook ==
    /\ line[1] = "offhook"
    /\ flag2' = 0
    /\ \/ /\ offhook = 1
          /\ bat_onhook' = 0
          /\ SameState
          /\ UNCHANGED <<bat_discon, bat_offhook, flag1, flag3>>
       \/ /\ offhook = 0 /\ flag3 = 0
          /\ flag1' = 0 /\ flag3' = 1
          /\ bat_onhook' = 0 /\ bat_offhook' = 0
          /\ SameState
          /\ UNCHANGED bat_discon
       \/ /\ offhook = 0 /\ flag3 = 1 /\ ~OffhookLong
          /\ bat_onhook' = 0
          /\ SameState
          /\ UNCHANGED <<bat_discon, bat_offhook, flag1, flag3>>
    /\ offSeen' = IF offSeen = 0 THEN 1 ELSE offSeen
    /\ UNCHANGED onhook_delay
    /\ NoReport

(* The last case of the off-hook branch: the call is answered, and         *)
(* BUILD_CID_offhook tells the server.                                     *)
BatAnswered ==
    /\ line[1] = "offhook"
    /\ offhook = 0 /\ flag3 = 1 /\ OffhookLong
    /\ NewState(0, 0, 1)
    /\ flag2' = 0 /\ flag3' = 0
    /\ onhook_delay' = ShortDelay
    /\ report' = "offhook" /\ reportNum' = NoCid
    /\ offSeen' = 0
    /\ UNCHANGED flag1

BatNothing ==
    /\ line[1] = "gap"
    /\ SameState
    /\ UNCHANGED <<bat_discon, bat_onhook, bat_offhook, flag1, flag2, flag3,
                   onhook_delay, offSeen>>
    /\ NoReport

CW2015_BatSample ==
    /\ Step("BatSample", "FSK_ringing")
    /\ \/ /\ bat_sample < SampleTicks
          /\ UNCHANGED <<timers, flags, gRingCount, onhook_delay, offSeen>>
          /\ NoReport
       \/ /\ bat_sample >= SampleTicks
          /\ bat_sample' = 0
          /\ \/ BatDiscon \/ BatRing \/ BatOnhook
             \/ BatOffhook \/ BatAnswered \/ BatNothing
    /\ UNCHANGED <<line, ticked, lowFlag, cid, rtp, quiet>>

(* FSK_ringing: a falling edge of the ring detector is a ring; the first   *)
(* one of a call starts it.  One second into the first ring the line       *)
(* counts as ringing, and its recording starts.                            *)
RingEdge == line[2] = 0 /\ lowFlag = 0

RingingNow(count, age) ==
    IF count = 1 /\ age >= RingTicks
    THEN bat_ringing' = 0 /\ ringing' = 1
    ELSE bat_ringing' = age /\ UNCHANGED ringing

FirstRingKeepsRecording ==          \* mutant: rtp is not cleared
    /\ RingEdge /\ gRingCount = 0
    /\ gRingCount' = 1
    /\ ringing' = 0 /\ bat_ringing' = 0
    /\ parse' = 0 /\ gCidIndex' = 0
    /\ caller' = NoCid
    /\ UNCHANGED <<rtp, cidBuf>>

FirstRingKeepsBytes ==              \* mutant: gCidIndex is not cleared
    /\ RingEdge /\ gRingCount = 0
    /\ gRingCount' = 1
    /\ ringing' = 0 /\ bat_ringing' = 0
    /\ parse' = 0
    /\ caller' = NoCid
    /\ rtp' = 0
    /\ UNCHANGED <<gCidIndex, cidBuf>>

FirstRing ==
    /\ RingEdge /\ gRingCount = 0
    /\ gRingCount' = 1
    /\ ringing' = 0 /\ bat_ringing' = 0
    /\ parse' = 0 /\ gCidIndex' = 0
    /\ caller' = NoCid
    /\ rtp' = 0
    /\ UNCHANGED cidBuf

NextRingWide ==                     \* mutant: the count does not wrap
    /\ RingEdge /\ gRingCount # 0
    /\ gRingCount' = gRingCount + 1
    /\ bat_ringing' = 0
    /\ UNCHANGED <<ringing, cid, rtp>>

NextRing ==
    /\ RingEdge /\ gRingCount # 0
    /\ gRingCount' = (gRingCount + 1) % U8
    /\ bat_ringing' = 0
    /\ UNCHANGED <<ringing, cid, rtp>>

AnyRing ==
    /\ FirstRing \/ NextRing
    /\ lowFlag' = 1
    /\ discon' = 0 /\ onhook' = 0 /\ offhook' = 0
    /\ flag1' = 0 /\ flag2' = 0 /\ flag3' = 0
    /\ onhook_delay' = LongDelay
    /\ bat_discon' = 0 /\ bat_onhook' = 0 /\ bat_offhook' = 0
    /\ quiet' = 0

NoRing ==
    /\ ~RingEdge
    /\ lowFlag' = 1 - line[2]
    /\ RingingNow(gRingCount, bat_ringing)
    /\ UNCHANGED <<discon, onhook, offhook, flag1, flag2, flag3, gRingCount,
                   onhook_delay, bat_discon, bat_onhook, bat_offhook, cid,
                   rtp, quiet>>

FSK_ringing ==
    /\ Step("FSK_ringing", "FSK_parse")
    /\ AnyRing \/ NoRing
    /\ UNCHANGED <<line, ticked, bat_sample, offSeen>>
    /\ NoReport

(* FSK_parse: at the second ring the buffer is decoded, once per call.     *)
(* The search starts at the first byte and ends at the first header.  What *)
(* is behind it goes into a start message (BUILD_CID_start) as the number, *)
(* and the bytes of this call are wiped.                                   *)
Found == {i \in 1..(CidLen - 1) :
            /\ cidBuf[i] = "header"
            /\ \A j \in 1..(i - 1) : cidBuf[j] # "header"}

Number(i) == IF cidBuf[i + 1] \in Callers THEN cidBuf[i + 1] ELSE Garbled

Wiped == [i \in 1..CidLen |-> IF i <= gCidIndex THEN "zero" ELSE cidBuf[i]]

FSK_parse ==
    /\ Step("FSK_parse", "FSK_RTP_stop")
    /\ \/ /\ gRingCount # 2 \/ parse = 1
          /\ UNCHANGED cid
          /\ NoReport
       \/ /\ gRingCount = 2 /\ parse = 0
          /\ parse' = 1
          /\ \/ /\ Found = {}
                /\ UNCHANGED cidBuf
                /\ NoReport
             \/ \E i \in Found :
                  /\ report' = "start"
                  /\ reportNum' = Number(i)
                  /\ cidBuf' = Wiped
          /\ UNCHANGED <<gCidIndex, caller>>
    /\ UNCHANGED <<line, ticked, timers, flags, gRingCount, lowFlag,
                   onhook_delay, rtp, offSeen, quiet>>

(* FSK_RTP_stop: the recording of a call that was hung up is closed.       *)
FSK_RTP_stop ==
    /\ Step("FSK_RTP_stop", "SIP_TxFlow")
    /\ ticked' = 0
    /\ \/ /\ rtp = 1 /\ onhook = 1
          /\ rtp' = 0
          /\ report' = "stop" /\ reportNum' = NoCid
       \/ /\ ~(rtp = 1 /\ onhook = 1)
          /\ UNCHANGED rtp
          /\ NoReport
    /\ UNCHANGED <<line, timers, flags, gRingCount, lowFlag, onhook_delay,
                   cid, offSeen, quiet>>

-----------------------------------------------------------------------------
MainLoop ==
    \/ SIP_TxFlow \/ RTP_tx \/ CW2015_BatSample
    \/ FSK_ringing \/ FSK_parse \/ FSK_RTP_stop

Next ==
    \/ MainLoop
    \/ Tick
    \/ LineChange
    \/ ReceiveOther
    \/ ReceiveHeader
    \/ \E n \in Callers : ReceiveNumber(n)

Spec == Init /\ [][Next]_vars

(* The processor runs: the timer interrupt keeps coming and the main loop  *)
(* keeps turning.  Nothing is assumed of the line or of the exchange.      *)
Fairness == WF_vars(MainLoop) /\ WF_vars(Tick)

FairSpec == Spec /\ Fairness

-----------------------------------------------------------------------------
(* What the server is told of a call: the phases of CallReports.           *)
Phase ==
    IF offhook = 1 THEN "answered"
    ELSE IF onhook = 1 THEN "idle"
    ELSE IF discon = 1 THEN "unplugged"
    ELSE "ringing"

Server == INSTANCE CallReports
            WITH phase <- Phase, announced <- parse, recorded <- rtp

-----------------------------------------------------------------------------
(* Properties.                                                             *)

TypeOK ==
    /\ line \in Conditions
    /\ pc \in Turn
    /\ ticked \in Bit
    /\ bat_sample \in 0..SampleTicks
    /\ {bat_discon, bat_onhook, bat_offhook, bat_ringing} \subseteq 0..(U8 - 1)
    /\ {discon, onhook, offhook, ringing} \subseteq Bit
    /\ {flag1, flag2, flag3} \subseteq Bit
    /\ gRingCount \in 0..(U8 - 1)
    /\ {lowFlag, parse, rtp} \subseteq Bit
    /\ onhook_delay \in {0, ShortDelay, LongDelay}
    /\ gCidIndex \in 0..CidLen
    /\ cidBuf \in Buffer
    /\ caller \in Callers \cup {NoCid, Garbled}
    /\ report \in {"none", "start", "offhook", "stop"}
    /\ reportNum \in Callers \cup {NoCid, Garbled}
    /\ offSeen \in 0..LongSeen
    /\ quiet \in 0..LongQuiet

(* The four states of the line exclude one another, whatever the order in  *)
(* which the voltage samples and the ring edges (two separate sources, each *)
(* setting its own subset of the flags) reach them.                        *)
OneLineState == discon + onhook + offhook + ringing <= 1

(* The reports follow the calls, whatever the order in which samples, ring *)
(* edges and the answers of SIP_TxFlow reach the flags: one start in a     *)
(* ringing call, offhook on its answer, stop for a recorded call and only  *)
(* once it is hung up; no recording is left behind by a call (CW2015_Bat-  *)
(* Status, FSK_ringing, FSK_parse, FSK_RTP_stop).                          *)
ReportsCalls == Server!Spec

(* The pause between two rings looks like a hung-up line.  The call is     *)
(* only taken for ended when the line has been quiet longer than that      *)
(* pause (onhook_delay = 60).                                              *)
NoFalseHangup ==
    [][gRingCount # 0 /\ onhook = 0 /\ onhook' = 1 => quiet > LongDelay]_vars

(* A call is reported as answered only when the first off-hook sample since *)
(* the line was last seen on hook is at least OffhookTicks old: one glitch  *)
(* of the voltage answers nothing, however the other branches move the      *)
(* shared timers and flags in between.                                      *)
OffhookDebounced ==
    [][offhook = 0 /\ offhook' = 1 => offSeen > OffhookTicks]_vars

(* When the number of this call was received whole, the start message      *)
(* carries that number: neither what came before it in this call nor what  *)
(* earlier calls left in the buffer is decoded in its place.               *)
FreshNumberWins ==
    [][report' = "start" /\ caller \in Callers => reportNum' = caller]_vars

(* A call that was hung up for good does not stay recorded: once the line  *)
(* is on hook and stays there, the recording is closed and stays closed.   *)
HangupClosesRecording ==
    <>[](line = <<"onhook", 1>>) => <>[](rtp = 0)

-----------------------------------------------------------------------------
(* What a comment of the code says, and the code does not do.              *)

(* SipMsgBuilding.c:34 gives the start message "the caller's number": a    *)
(* number in it is the one of the call it reports.                         *)
StartCarriesCaller ==
    [][report' = "start" /\ reportNum' \in Callers => reportNum' = caller]_vars
=============================================================================
