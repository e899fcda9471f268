--------------------------- MODULE CidRetryProofs --------------------------
(***************************************************************************)
(* The invariants, the safety action property and one liveness property of *)
(* CidRetry, for every set of reports, every number of retries and every   *)
(* timeout.                                                                *)
(***************************************************************************)
EXTENDS CidRetry, FiniteSetTheorems, TLAPS

(* What the fields hold once their stores are done.  A tick can have       *)
(* followed the store of the timer, but one at most.                       *)
StoredFields ==
    Arming =>
      /\ building = current
      /\ "timeout" \notin stores => retry_timeout = Timeout
      /\ "max" \notin stores => max_retry = MaxRetry
      /\ "type" \notin stores => last_msg_type = current
      /\ "timer" \notin stores => /\ retry_timer > 0
                                  /\ ticked = 0 => retry_timer = Timeout

(* Outside these stores the report in the slot is that of the last event.  *)
SlotIsCurrent == ~Arming => last_msg_type = current

(* A timer that runs has the timeout and the limit beside it, or is so     *)
(* young that it cannot run out before they are stored.                    *)
RunningTimer ==
    /\ retry_timeout \in {0, Timeout}
    /\ retry_timer > 0 /\ (retry_timeout = 0 \/ max_retry = 0)
         => Arming /\ (ticked = 0 => retry_timer = Timeout)

IInv ==
    /\ TypeOK
    /\ StoredFields
    /\ SlotIsCurrent
    /\ RunningTimer
    /\ WaitIsTimed

LEMMA InitInv == Init => IInv
  BY RetryAssumption
  DEF Init, IInv, TypeOK, StoredFields, SlotIsCurrent, RunningTimer,
      WaitIsTimed, Arming, Fields

-----------------------------------------------------------------------------
(* The interrupt.                                                          *)
LEMMA TickType == TypeOK /\ Tick => TypeOK'
<1> SUFFICES ASSUME TypeOK, Tick PROVE TypeOK'
  OBVIOUS
<1> USE RetryAssumption DEF TypeOK, Tick, TimerRuns, call, history
<1>1. CASE CountDown
  BY <1>1 DEF CountDown
<1>2. CASE TimeoutRetry
  BY <1>2 DEF TimeoutRetry
<1>3. CASE TimeoutGiveUp
  BY <1>3 DEF TimeoutGiveUp
<1> QED
  BY <1>1, <1>2, <1>3

LEMMA TickInv == IInv /\ Tick => IInv'
<1> SUFFICES ASSUME IInv, Tick PROVE IInv'
  OBVIOUS
<1>1. TypeOK'
  BY TickType DEF IInv
<1>2. StoredFields' /\ SlotIsCurrent' /\ RunningTimer' /\ WaitIsTimed'
  <2> USE RetryAssumption
      DEF IInv, TypeOK, StoredFields, SlotIsCurrent, RunningTimer,
          WaitIsTimed, Arming, Tick, TimerRuns, ShortSection, call, history
  <2>1. CASE CountDown
    BY <2>1 DEF CountDown
  <2>2. CASE TimeoutRetry
    BY <2>2 DEF TimeoutRetry
  <2>3. CASE TimeoutGiveUp
    BY <2>3 DEF TimeoutGiveUp
  <2> QED
    BY <2>1, <2>2, <2>3
<1> QED
  BY <1>1, <1>2 DEF IInv

(* The six stores of BUILD_CID_*, in any order.                            *)
LEMMA StoreInv ==
  ASSUME IInv, NEW f \in Fields, Store(f)
  PROVE  IInv'
<1> USE RetryAssumption DEF IInv, Store, Arming, call, history
<1>1. TypeOK'
  BY DEF TypeOK, Fields
<1>2. StoredFields'
  BY DEF StoredFields, TypeOK, Fields
<1>3. SlotIsCurrent' /\ WaitIsTimed'
  BY DEF SlotIsCurrent, WaitIsTimed
<1>4. RunningTimer'
  BY DEF RunningTimer, StoredFields, TypeOK, Fields
<1> QED
  BY <1>1, <1>2, <1>3, <1>4

LEMMA BuildDoneInv == IInv /\ BuildDone => IInv'
  BY RetryAssumption
  DEF IInv, TypeOK, StoredFields, SlotIsCurrent, RunningTimer, WaitIsTimed,
      Arming, BuildDone, retryInfo, call, history, Fields

(* A new wait begins.                                                      *)
LEMMA BuildInv == IInv /\ (Retransmit \/ \E m \in Reports : Event(m)) => IInv'
<1> SUFFICES ASSUME IInv, Retransmit \/ \E m \in Reports : Event(m)
             PROVE  IInv'
  OBVIOUS
<1> USE RetryAssumption
    DEF IInv, TypeOK, StoredFields, SlotIsCurrent, RunningTimer, WaitIsTimed,
        Arming, Build, retryInfo, call, history, Fields
<1>1. CASE Retransmit
  BY <1>1 DEF Retransmit
<1>2. CASE \E m \in Reports : Event(m)
  BY <1>2 DEF Event
<1> QED
  BY <1>1, <1>2

(* A response ends the wait, the rest leaves the fields alone.             *)
LEMMA ParseInv ==
  ASSUME IInv, NEW d \in Datagrams, NET_RxParse(d)
  PROVE  IInv'
  BY RetryAssumption
  DEF IInv, TypeOK, StoredFields, SlotIsCurrent, RunningTimer, WaitIsTimed,
      Arming, NET_RxParse, handle_server_response, call, history, Fields

LEMMA RestInv ==
  IInv /\ (\/ NothingReceived \/ NothingToRetransmit \/ LoadFlags
           \/ StoreFlags \/ FlagsUntouched \/ NoEvent) => IInv'
<1> USE RetryAssumption
    DEF IInv, TypeOK, StoredFields, SlotIsCurrent, RunningTimer, WaitIsTimed,
        Arming, retryInfo, call, history, Fields
<1>1. IInv /\ (NothingReceived \/ NothingToRetransmit \/ FlagsUntouched
               \/ NoEvent) => IInv'
  BY DEF NothingReceived, NothingToRetransmit, FlagsUntouched, NoEvent
<1>2. IInv /\ (LoadFlags \/ StoreFlags) => IInv'
  BY DEF LoadFlags, StoreFlags, Opens, FirstRing, TEL_OffInit, Closes
<1> QED
  BY <1>1, <1>2

LEMMA StutterInv == IInv /\ UNCHANGED vars => IInv'
  BY DEF IInv, TypeOK, StoredFields, SlotIsCurrent, RunningTimer, WaitIsTimed,
         Arming, vars, retryInfo, call, history

LEMMA NextInv == IInv /\ [Next]_vars => IInv'
  BY TickInv, StoreInv, BuildDoneInv, BuildInv, ParseInv, RestInv, StutterInv
  DEF Next, MainLoop

(* IInv is inductive: it holds in every state of every behaviour.          *)
THEOREM Invariance == Spec => []IInv
  BY InitInv, NextInv, PTL DEF Spec

(* Every field keeps to its set; in particular retry_count never exceeds   *)
(* max_retry, with the interrupt between any two stores.                   *)
THEOREM TypeCorrect == Spec => []TypeOK
  BY Invariance, PTL DEF IInv

(* For every timeout of two ticks and more: no order of the stores and of  *)
(* the interrupt leaves a terminal waiting with a stopped timer.           *)
THEOREM WaitsAreTimed == Spec => []WaitIsTimed
  BY Invariance, PTL DEF IInv

(* For every set of reports, what is sent again is the latest one.         *)
THEOREM LatestIsRetransmitted == Spec => []RetransmitsLatest
<1>1. IInv => RetransmitsLatest
  BY DEF IInv, SlotIsCurrent, RetransmitsLatest, Arming
<1> QED
  BY <1>1, Invariance, PTL

-----------------------------------------------------------------------------
(* For every number of retries, the interrupt gives up after that many,    *)
(* and never with the limit of a report whose stores are still under way.  *)
THEOREM GiveUpIsLast == Spec => GivesUpLast
<1> DEFINE Kept == waiting_response = 1 /\ waiting_response' = 0 /\ pc' = pc
                     => retry_count = MaxRetry
<1>1. IInv /\ [Next]_vars => Kept
  <2> SUFFICES ASSUME IInv, [Next]_vars, waiting_response = 1,
                      waiting_response' = 0, pc' = pc
               PROVE  retry_count = MaxRetry
    OBVIOUS
  <2>1. Tick
    BY DEF IInv, TypeOK, Next, MainLoop, Store, BuildDone, NET_RxParse,
           NothingReceived, Retransmit, NothingToRetransmit, LoadFlags,
           StoreFlags, FlagsUntouched, Event, NoEvent, Build, retryInfo, vars
  <2>2. TimeoutGiveUp
    BY <2>1 DEF Tick, CountDown, TimeoutRetry
  <2>3. max_retry = MaxRetry
    BY <2>1, <2>2, RetryAssumption
    DEF Tick, TimeoutGiveUp, IInv, RunningTimer, TypeOK, Arming,
        ShortSection
  <2> QED
    BY <2>2, <2>3, RetryAssumption DEF TimeoutGiveUp, IInv, TypeOK
<1> QED
  BY <1>1, Invariance, PTL DEF Spec, GivesUpLast

-----------------------------------------------------------------------------
(* Liveness.  The fairness of FairSpec speaks of the states in which a step *)
(* of the main loop is possible, and it is possible in all of them: each   *)
(* part of the turn has a branch for every state it can start in.  The     *)
(* provers know nothing of ENABLED, so that this is a hypothesis here.     *)
LoopCanTurn == []ENABLED <<MainLoop>>_vars

RetryPending == ok_reg = 1 /\ retry = 1
RetryTaken == retry = 0

(* Steps of the loop before SIP_TxFlow sees the flag.                      *)
Ahead ==
    CASE pc = "TxFlow" -> 0
      [] pc = "Rx" -> 1
      [] pc = "Build" -> 2 + Cardinality(stores)
      [] pc \in {"Event", "Stop"} -> 9
      [] pc \in {"StoreFlags", "StoreStop"} -> 10
      [] pc = "Flags" -> 11
      [] pc = "Rebuild" -> 12 + Cardinality(stores)

Within(n) == RetryPending /\ Ahead < n

LEMMA SixFields == IsFiniteSet(Fields) /\ Cardinality(Fields) = 6
<1> DEFINE One == {"waiting"}
           Two == One \cup {"count"}
           Three == Two \cup {"max"}
           Four == Three \cup {"timeout"}
           Five == Four \cup {"timer"}
<1>1. IsFiniteSet(One) /\ Cardinality(One) = 1
  BY FS_Singleton
<1>2. IsFiniteSet(Two) /\ Cardinality(Two) = 2
  BY <1>1, FS_AddElement, "count" \notin One
<1>3. IsFiniteSet(Three) /\ Cardinality(Three) = 3
  BY <1>2, FS_AddElement, "max" \notin Two
<1>4. IsFiniteSet(Four) /\ Cardinality(Four) = 4
  BY <1>3, FS_AddElement, "timeout" \notin Three
<1>5. IsFiniteSet(Five) /\ Cardinality(Five) = 5
  BY <1>4, FS_AddElement, "timer" \notin Four
<1>6. IsFiniteSet(Five \cup {"type"}) /\ Cardinality(Five \cup {"type"}) = 6
  BY <1>5, FS_AddElement, "type" \notin Five
<1>7. Fields = Five \cup {"type"}
  BY DEF Fields
<1> QED
  BY <1>6, <1>7

LEMMA AheadRange == IInv => Cardinality(stores) \in 0..6 /\ Ahead \in 0..18
<1> SUFFICES ASSUME IInv PROVE Cardinality(stores) \in 0..6 /\ Ahead \in 0..18
  OBVIOUS
<1>1. stores \subseteq Fields
  BY DEF IInv, TypeOK
<1>2. Cardinality(stores) \in 0..6
  BY <1>1, SixFields, FS_Subset, FS_CardinalityType
<1> QED
  BY <1>2 DEF IInv, TypeOK, Ahead

(* No step of the loop forgets that the terminal is registered, the        *)
(* interrupt never clears the flag, and every step of the loop brings      *)
(* SIP_TxFlow nearer, unless it clears the flag itself.                    *)
LEMMA Nearer ==
  ASSUME NEW n \in Nat, IInv, Within(n + 1), [Next]_vars
  PROVE  /\ Within(n + 1)' \/ RetryTaken'
         /\ <<MainLoop>>_vars => Within(n)' \/ RetryTaken'
<1>0. /\ Ahead \in 0..18 /\ Cardinality(stores) \in 0..6
      /\ RetryPending /\ Ahead < n + 1
  BY AheadRange DEF Within
<1>1. CASE \E f \in Fields : Store(f)
  <2>1. PICK f \in Fields : Store(f)
    BY <1>1
  <2>2. Cardinality(stores') = Cardinality(stores) - 1
    <3>1. IsFiniteSet(stores)
      BY SixFields, FS_Subset DEF IInv, TypeOK
    <3> QED
      BY <2>1, <3>1, FS_RemoveElement DEF Store
  <2>3. Ahead' = Ahead - 1 /\ RetryPending'
    BY <1>0, <2>1, <2>2 DEF Store, Ahead, RetryPending
  <2> QED
    BY <1>0, <2>3 DEF Within
<1>2. CASE BuildDone
  <2>1. Cardinality(stores) = 0
    BY <1>2, FS_EmptySet DEF BuildDone
  <2> QED
    BY <1>0, <1>2, <2>1 DEF BuildDone, Within, RetryPending, Ahead
<1>3. CASE \E m \in Reports : Event(m)
  <2>1. Cardinality(stores') = 6
    BY <1>3, SixFields DEF Event, Build
  <2> QED
    BY <1>0, <1>3, <2>1 DEF Event, Build, Within, RetryPending, Ahead
<1>4. CASE Retransmit
  BY <1>4 DEF Retransmit, RetryTaken
<1>5. CASE \E d \in Datagrams : NET_RxParse(d)
  BY <1>0, <1>5 DEF NET_RxParse, Within, RetryPending, Ahead
<1>6. CASE \/ NothingReceived \/ NothingToRetransmit \/ LoadFlags
           \/ FlagsUntouched \/ NoEvent
  BY <1>0, <1>6
  DEF NothingReceived, NothingToRetransmit, LoadFlags, FlagsUntouched, NoEvent,
      Within, RetryPending, Ahead
<1>7. CASE StoreFlags
  BY <1>0, <1>7 DEF StoreFlags, Within, RetryPending, RetryTaken, Ahead, IInv,
                   TypeOK
<1>8. CASE Tick
  <2>1. UNCHANGED <<pc, ok_reg, stores>> /\ (retry' = retry \/ retry' = 1)
    BY <1>8 DEF Tick, CountDown, TimeoutRetry, TimeoutGiveUp
  <2>2. Within(n + 1)'
    BY <1>0, <2>1 DEF Within, RetryPending, Ahead
  <2>3. ~MainLoop
    BY <2>1
    DEF MainLoop, Store, BuildDone, NET_RxParse, NothingReceived, Retransmit,
        NothingToRetransmit, LoadFlags, StoreFlags, FlagsUntouched, Event,
        NoEvent, Build, IInv, TypeOK
  <2> QED
    BY <2>2, <2>3
<1>9. CASE UNCHANGED vars
  BY <1>0, <1>9 DEF vars, Within, RetryPending, Ahead
<1> QED
  BY <1>1, <1>2, <1>3, <1>4, <1>5, <1>6, <1>7, <1>8, <1>9 DEF Next, MainLoop

(* For every server and every timeout: a retransmission the timer asked    *)
(* for is taken, or wiped by another writer of the halfword, within        *)
(* nineteen steps of the loop.                                             *)
THEOREM RetriesAreServed == FairSpec /\ LoopCanTurn => RetryIsServed
<1> DEFINE Step(m, n) ==
      IInv /\ Within(m) /\ [Next]_vars
        => /\ Within(m)' \/ RetryTaken'
           /\ <<MainLoop>>_vars => Within(n)' \/ RetryTaken'
<1>1. \A n \in Nat : Step(n + 1, n)
  BY Nearer
<1>2. /\ Step(19, 18) /\ Step(18, 17) /\ Step(17, 16) /\ Step(16, 15)
      /\ Step(15, 14) /\ Step(14, 13) /\ Step(13, 12) /\ Step(12, 11)
      /\ Step(11, 10) /\ Step(10, 9) /\ Step(9, 8) /\ Step(8, 7)
      /\ Step(7, 6) /\ Step(6, 5) /\ Step(5, 4) /\ Step(4, 3)
      /\ Step(3, 2) /\ Step(2, 1) /\ Step(1, 0)
  <2> HIDE DEF Step
  <2> QED
    BY <1>1, SMTT(30)
<1>3. IInv => /\ RetryPending => Within(19)
              /\ ~Within(0)
  BY AheadRange DEF Within
<1>4. ok_reg = 1 /\ retry = 1 => RetryPending
  BY DEF RetryPending
<1> QED
  BY <1>2, <1>3, <1>4, Invariance, PTL
  DEF Spec, FairSpec, LoopCanTurn, RetryIsServed, RetryTaken
=============================================================================
