----------------------------- MODULE CidRetry ------------------------------
(***************************************************************************)
(* Retransmission of the call reports.                                     *)
(*                                                                         *)
(* A report (start, off-hook, stop) is sent by BUILD_CID_*, which then     *)
(* arms a timer in gpsUaInfo.  TIM3 counts the timer down and, when it     *)
(* runs out, raises gsSipTxFlag.retry or gives up.  SIP_TxFlow, in the     *)
(* main loop of a registered terminal, turns the flag into a second        *)
(* transmission.  A response of the server ends the wait.                  *)
(*                                                                         *)
(* The fields are shared by the main loop and the interrupt without any    *)
(* protection and without volatile: the six stores that arm the timer      *)
(* reach memory in an order the compiler chooses, and writing another bit  *)
(* of gsSipTxFlag is a load and a store of the whole halfword.             *)
(***************************************************************************)
EXTENDS Naturals

CONSTANTS
    Reports,        \* the reports that occur, a subset of AllReports
    NoType,         \* last_msg_type of a zeroed gpsUaInfo
    Datagrams,      \* what the server sends to port 5060, a subset of Kinds
    MaxRetry,       \* max_retry
    Timeout,        \* retry_timeout, in ticks
    MaxReports      \* bound: events on the telephone line

(* BUILD_CID_start, BUILD_CID_offhook and BUILD_CID_stop.                  *)
AllReports == {"start", "offhook", "stop"}

(* ANALYSIS_line knows these datagrams: 200 OK answers by the method in    *)
(* their CSeq, and anything else, among it the JSON replies of the report  *)
(* protocol, which have no SIP first line.                                 *)
Kinds == {"OkRegister", "OkCall", "JsonReply"}

ASSUME RetryAssumption ==
    /\ Reports \subseteq AllReports
    /\ NoType \notin Reports
    /\ Datagrams \subseteq Kinds
    /\ MaxRetry \in Nat \ {0}
    /\ Timeout \in Nat /\ Timeout > 1      \* 2000 ticks of 1 ms
    /\ MaxReports \in Nat

VARIABLES
    pc,                 \* where the main loop is
    ok_reg,             \* gsSipRxFlag.ok_reg: the terminal is registered
    waiting_response, retry_count, max_retry, retry_timeout, retry_timer,
    last_msg_type,
    retry,              \* gsSipTxFlag.retry
    halfword,           \* the retry bit of the halfword the main loop loaded
    stores,             \* stores of BUILD_CID_* still under way
    building,           \* the report they belong to
    ticked,             \* a tick fell into this short section
    line,               \* the telephone line: "idle", "rung" (its first ring
                        \* was seen), "busy" (it rings or is answered)
    rtp,                \* gsSipTxFlag.rtp, in the same halfword as retry
    nReports,           \* history: reports raised so far
    current             \* history: the report of the last event

retryInfo == <<waiting_response, retry_count, max_retry, retry_timeout,
               retry_timer, last_msg_type>>
call == <<line, rtp>>
history == <<nReports, current>>
vars == <<pc, ok_reg, retryInfo, retry, halfword, stores, building, ticked,
          call, history>>

FieldsNoType == {"waiting", "count", "max", "timeout", "timer"} \* mutant
Fields == {"waiting", "count", "max", "timeout", "timer", "type"}

Init ==
    /\ pc = "Rx"
    /\ ok_reg = 0
    /\ waiting_response = 0 /\ retry_count = 0
    /\ max_retry = 0 /\ retry_timeout = 0 /\ retry_timer = 0
    /\ last_msg_type = NoType
    /\ retry = 0 /\ halfword = 0
    /\ stores = {} /\ building = NoType /\ ticked = 0
    /\ line = "idle" /\ rtp = 0
    /\ nReports = 0 /\ current = NoType

-----------------------------------------------------------------------------
(* TIM3_IRQHandler, the retransmission timer.  The stores of BUILD_CID_*,  *)
(* and a load and store of the halfword, take far less than a tick: at     *)
(* most one falls between them.                                            *)
ShortSection == pc \in {"Build", "Rebuild", "StoreFlags", "StoreStop"}
TimerRuns == waiting_response = 1 /\ retry_timer > 0

CountDown ==
    /\ retry_timer > 1
    /\ retry_timer' = retry_timer - 1
    /\ UNCHANGED <<waiting_response, retry_count, retry>>

TimeoutRetryOneMore ==              \* mutant: one retry too many
    /\ retry_timer = 1 /\ retry_count <= max_retry
    /\ retry_count' = retry_count + 1
    /\ retry_timer' = retry_timeout
    /\ retry' = 1
    /\ UNCHANGED waiting_response

TimeoutRetryOnce ==                 \* mutant: the timer is not set again
    /\ retry_timer = 1 /\ retry_count < max_retry
    /\ retry_count' = retry_count + 1
    /\ retry_timer' = 0
    /\ retry' = 1
    /\ UNCHANGED waiting_response

TimeoutRetryUncounted ==            \* mutant: the retry is not counted
    /\ retry_timer = 1 /\ retry_count < max_retry
    /\ retry_timer' = retry_timeout
    /\ retry' = 1
    /\ UNCHANGED <<waiting_response, retry_count>>

TimeoutRetry ==
    /\ retry_timer = 1 /\ retry_count < max_retry
    /\ retry_count' = retry_count + 1
    /\ retry_timer' = retry_timeout
    /\ retry' = 1
    /\ UNCHANGED waiting_response

TimeoutGiveUpEarly ==               \* mutant: one retry too few
    /\ retry_timer = 1 /\ retry_count + 1 >= max_retry
    /\ retry_timer' = 0
    /\ waiting_response' = 0
    /\ retry_count' = 0
    /\ UNCHANGED retry

TimeoutGiveUp ==
    /\ retry_timer = 1 /\ retry_count >= max_retry
    /\ retry_timer' = 0
    /\ waiting_response' = 0
    /\ retry_count' = 0
    /\ UNCHANGED retry

Tick ==
    /\ TimerRuns
    /\ ShortSection => ticked = 0
    /\ ticked' = IF ShortSection THEN 1 ELSE ticked
    /\ CountDown \/ TimeoutRetry \/ TimeoutGiveUp
    /\ UNCHANGED <<pc, ok_reg, max_retry, retry_timeout, last_msg_type,
                   halfword, stores, building, call, history>>

-----------------------------------------------------------------------------
(* The main loop.                                                          *)

(* BUILD_CID_start, BUILD_CID_offhook and BUILD_CID_stop: the message goes *)
(* out, then the six fields are stored.  SIP_TxFlow calls them again       *)
(* ("Rebuild") before the rest of the turn, an event ("Build") at its end. *)
Build(m, at) ==
    /\ stores' = Fields
    /\ building' = m
    /\ ticked' = 0
    /\ pc' = at

Store(f) ==
    /\ pc \in {"Build", "Rebuild"} /\ f \in stores
    /\ stores' = stores \ {f}
    /\ waiting_response' = IF f = "waiting" THEN 1 ELSE waiting_response
    /\ retry_count' = IF f = "count" THEN 0 ELSE retry_count
    /\ max_retry' = IF f = "max" THEN MaxRetry ELSE max_retry
    /\ retry_timeout' = IF f = "timeout" THEN Timeout ELSE retry_timeout
    /\ retry_timer' = IF f = "timer" THEN Timeout ELSE retry_timer
    /\ last_msg_type' = IF f = "type" THEN building ELSE last_msg_type
    /\ UNCHANGED <<pc, ok_reg, retry, halfword, building, ticked, call,
                   history>>

BuildDone ==
    /\ pc \in {"Build", "Rebuild"} /\ stores = {}
    /\ pc' = IF pc = "Rebuild" THEN "Flags" ELSE "Rx"
    /\ building' = NoType /\ ticked' = 0
    /\ UNCHANGED <<ok_reg, retryInfo, retry, halfword, stores, call, history>>

(* handle_server_response.  An interrupt between its stores finds either   *)
(* waiting_response or the timer already cleared and does nothing.         *)
handle_server_response ==
    IF waiting_response = 1
    THEN waiting_response' = 0 /\ retry_count' = 0 /\ retry_timer' = 0
    ELSE UNCHANGED <<waiting_response, retry_count, retry_timer>>

(* NET_RxParse: every 200 OK counts as the response of the server; a       *)
(* datagram without a SIP first line is dropped by ANALYSIS_line.          *)
NET_RxParse(d) ==
    /\ pc = "Rx"
    /\ pc' = "TxFlow"
    /\ \/ /\ d \in {"OkRegister", "OkCall"}
          /\ ok_reg' = IF d = "OkRegister" THEN 1 ELSE ok_reg
          /\ handle_server_response
       \/ /\ d = "JsonReply"
          /\ UNCHANGED <<ok_reg, waiting_response, retry_count, retry_timer>>
    /\ UNCHANGED <<max_retry, retry_timeout, last_msg_type, retry, halfword,
                   stores, building, ticked, call, history>>

NothingReceived ==
    /\ pc = "Rx"
    /\ pc' = "TxFlow"
    /\ UNCHANGED <<ok_reg, retryInfo, retry, halfword, stores, building,
                   ticked, call, history>>

(* SIP_TxFlow, called for a registered terminal: the retry flag builds the *)
(* last report again.                                                      *)
RetransmitForever ==                \* mutant: the flag is not cleared
    /\ pc = "TxFlow" /\ ok_reg = 1 /\ retry = 1
    /\ Build(last_msg_type, "Rebuild")
    /\ UNCHANGED <<ok_reg, retryInfo, retry, halfword, call, history>>

Retransmit ==
    /\ pc = "TxFlow" /\ ok_reg = 1 /\ retry = 1
    /\ retry' = 0
    /\ Build(last_msg_type, "Rebuild")
    /\ UNCHANGED <<ok_reg, retryInfo, halfword, call, history>>

NothingToRetransmit ==
    /\ pc = "TxFlow"
    /\ ok_reg = 0 \/ retry = 0
    /\ pc' = "Flags"
    /\ UNCHANGED <<ok_reg, retryInfo, retry, halfword, stores, building,
                   ticked, call, history>>

(* What writes rtp, and with it the halfword of the retry bit.  RTP_tx     *)
(* opens the recording of a call that rings or was answered; the answer to *)
(* a BYE or a CANCEL (TEL_OffInit) clears the flag in between.             *)
Opens == line = "busy" /\ rtp = 0 /\ rtp' = 1 /\ UNCHANGED line

FirstRing == line = "idle" /\ line' = "rung" /\ rtp' = 0

TEL_OffInit == ok_reg = 1 /\ rtp = 1 /\ rtp' = 0 /\ UNCHANGED line

(* FSK_RTP_stop closes the recording of a hung-up call and reports it in   *)
(* the same turn.                                                          *)
Closes ==
    /\ line = "busy" /\ rtp = 1
    /\ "stop" \in Reports /\ nReports < MaxReports
    /\ line' = "idle" /\ rtp' = 0

(* The write is a load and a store of the whole halfword: the retry bit is *)
(* stored as it was loaded.                                                *)
LoadFlags ==
    /\ pc = "Flags"
    /\ \/ (Opens \/ FirstRing \/ TEL_OffInit) /\ pc' = "StoreFlags"
       \/ Closes /\ pc' = "StoreStop"
    /\ halfword' = retry
    /\ UNCHANGED <<ok_reg, retryInfo, retry, stores, building, ticked,
                   history>>

StoreFlags ==
    /\ pc \in {"StoreFlags", "StoreStop"}
    /\ pc' = IF pc = "StoreStop" THEN "Stop" ELSE "Event"
    /\ retry' = halfword
    /\ halfword' = 0 /\ ticked' = 0
    /\ UNCHANGED <<ok_reg, retryInfo, stores, building, call, history>>

(* A turn without such a write.  One second into its first ring the line   *)
(* counts as ringing; a call without a recording, or whose cable is torn   *)
(* off, ends without one.                                                  *)
FlagsUntouched ==
    /\ pc = "Flags"
    /\ ~(line = "busy" /\ rtp = 0)
    /\ pc' = "Event"
    /\ \/ line' \in {line, "idle"}
       \/ line = "rung" /\ line' = "busy"
    /\ UNCHANGED <<ok_reg, retryInfo, retry, halfword, stores, building,
                   ticked, rtp, history>>

(* An event on the telephone line: its report takes the only slot.  RTP_tx *)
(* opens the recording of an answered call in the next turn, when the      *)
(* timer has just been set and cannot run out: it is taken as done here.   *)
Event(m) ==
    /\ \/ pc = "Event" /\ m = "start" /\ line # "idle" /\ UNCHANGED call
       \/ pc = "Event" /\ m = "offhook" /\ line' = "busy" /\ rtp' = 1
       \/ pc = "Stop" /\ m = "stop" /\ UNCHANGED call
    /\ nReports < MaxReports
    /\ nReports' = nReports + 1
    /\ current' = m
    /\ Build(m, "Build")
    /\ UNCHANGED <<ok_reg, retryInfo, retry, halfword>>

NoEvent ==
    /\ pc = "Event"
    /\ pc' = "Rx"
    /\ UNCHANGED <<ok_reg, retryInfo, retry, halfword, stores, building,
                   ticked, call, history>>

MainLoop ==
    \/ \E f \in Fields : Store(f)
    \/ BuildDone
    \/ \E d \in Datagrams : NET_RxParse(d)
    \/ NothingReceived
    \/ Retransmit \/ NothingToRetransmit
    \/ LoadFlags \/ StoreFlags \/ FlagsUntouched
    \/ \E m \in Reports : Event(m)
    \/ NoEvent

Next == MainLoop \/ Tick

Spec == Init /\ [][Next]_vars

(* The main loop keeps turning and the interrupt keeps coming.  Nothing is *)
(* assumed of the server or of the telephone line.                         *)
FairSpec == Spec /\ WF_vars(MainLoop) /\ WF_vars(Tick)

-----------------------------------------------------------------------------
(* Properties.                                                             *)

TypeOK ==
    /\ pc \in {"Rx", "TxFlow", "Rebuild", "Flags", "StoreFlags", "StoreStop",
               "Event", "Stop", "Build"}
    /\ {ok_reg, waiting_response, retry, halfword, ticked, rtp}
         \subseteq {0, 1}
    /\ line \in {"idle", "rung", "busy"}
    /\ retry_count \in 0..MaxRetry
    /\ max_retry \in {0, MaxRetry}
    /\ {retry_timeout, retry_timer} \subseteq 0..Timeout
    /\ {last_msg_type, building, current} \subseteq Reports \cup {NoType}
    /\ stores \subseteq Fields
    /\ nReports \in 0..MaxReports

Arming == pc \in {"Build", "Rebuild"}

(* A wait for the server always has its timer running: in whatever order   *)
(* the stores of BUILD_CID_* and the interrupt interleave, the six fields  *)
(* never end up waiting with a stopped timer, which would be forever.      *)
WaitIsTimed == waiting_response = 1 /\ ~Arming => retry_timer > 0

(* What SIP_TxFlow sends again is the report of the last event on the      *)
(* line, also when the timer ran out for the one before it: the recorder   *)
(* never tells the server an outdated state of the call.                   *)
RetransmitsLatest ==
    pc = "TxFlow" /\ retry = 1 => last_msg_type = current

(* The interrupt abandons a report only when the timer has run out for it  *)
(* MaxRetry times, never with the fields of two reports mixed.             *)
(* An interrupt among the stores of the next report may abandon that one.  *)
GivesUpLast ==
    [][waiting_response = 1 /\ waiting_response' = 0 /\ pc' = pc
         => retry_count = MaxRetry]_vars

(* A terminal that never registers stops waiting in the end.               *)
UnregisteredGivesUp ==
    [](ok_reg = 0) => <>[](waiting_response = 0)

(* A retransmission the timer asked for does not stay pending: SIP_TxFlow  *)
(* takes the flag, or another writer of the halfword has wiped it.         *)
RetryIsServed == ok_reg = 1 /\ retry = 1 ~> retry = 0

-----------------------------------------------------------------------------
(* What the protocol document (the text file of that name in USER) says,   *)
(* and the code does not do.                                               *)

(* Protocol document, line 23: a terminal that gets no answer for 2 s      *)
(* sends again.  The timer asks for it by the retry flag (timer.c:97), so  *)
(* that a registered terminal clears the flag in SIP_TxFlow only, where it *)
(* sends.                                                                  *)
RetryIsSent ==
    [][ok_reg = 1 /\ retry = 1 /\ retry' = 0 => pc' = "Rebuild"]_vars
=============================================================================
