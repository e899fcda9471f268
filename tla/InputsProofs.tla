---------------------------- MODULE InputsProofs ---------------------------
(***************************************************************************)
(* The invariants and the action properties of Inputs, for any thresholds. *)
(***************************************************************************)
EXTENDS Inputs, TLAPS

ResetAge == since[<<"rst", 1>>]
LinkAge == since[<<"link", 0>>]
SilenceAge == since[<<"dv", 0>>]
ToneAge == since[<<"dv", 1>>]

(* While the key is held it was not read as released for the periods that  *)
(* long_press has counted and what the counter says of this one; a reset   *)
(* that was done is followed by a release.                                 *)
ResetInv ==
    /\ rst.step = 2 => rst.long < LongPress
    /\ rst.step = 2 /\ rst.old = 0 =>
         \/ ResetAge >= rst.long * KeyTicks + timer["key_reset"]
         \/ ResetAge >= (rst.long + 1) * KeyTicks
    /\ spent = 1 => rst.step = 1 /\ rst.old = 0

(* A cable that was read as plugged in was not read otherwise since.       *)
LinkInv ==
    link.step = 2 /\ link.old = 1 =>
      LinkAge >= timer["netlink"] \/ LinkAge >= KeyTicks

(* The two counters measure the tone and the silence, at least.            *)
DigitInv ==
    /\ flag0 = 0 => pause = 1
    /\ SilenceAge >= timer["dtmf_hi"] \/ SilenceAge > DtmfTicks
    /\ ToneAge >= timer["dtmf_low"] \/ ToneAge > DtmfTicks

IInv == TypeOK /\ ResetInv /\ LinkInv /\ DigitInv

-----------------------------------------------------------------------------
(* Periods of the key and the bound of the ages.                           *)
LEMMA Parameters ==
  /\ U8 \in Nat \ {0} /\ KeyTicks \in Nat \ {0} /\ DtmfTicks \in Nat \ {0}
  /\ LongPress \in Nat \ {0} /\ TicksPerTurn \in Nat \ {0}
  BY InputsAssumption

LEMMA Periods ==
  ASSUME NEW a \in Nat, a < LongPress
  PROVE  /\ a * KeyTicks \in Nat /\ (a + 1) * KeyTicks \in Nat
         /\ (a + 1) * KeyTicks = a * KeyTicks + KeyTicks
         /\ (a + 1) * KeyTicks <= LongPress * KeyTicks
<1>1. a * KeyTicks \in Nat /\ (a + 1) * KeyTicks = a * KeyTicks + KeyTicks
  BY Parameters
<1>2. PICK b \in Nat : LongPress = (a + 1) + b
  <2>1. LongPress - (a + 1) \in Nat
    BY Parameters
  <2> QED
    BY <2>1, Parameters
<1>3. LongPress * KeyTicks = (a + 1) * KeyTicks + b * KeyTicks
  BY <1>2, Parameters
<1>4. b * KeyTicks \in Nat
  BY <1>2, Parameters
<1> QED
  BY <1>1, <1>3, <1>4, Parameters

LEMMA Ages ==
  /\ LongPress * KeyTicks \in Nat /\ LongAge \in Nat
  /\ LongAge > LongPress * KeyTicks
  /\ LongAge >= KeyTicks /\ LongAge > DtmfTicks
<1>1. /\ 0 * KeyTicks = 0 /\ (0 + 1) * KeyTicks = KeyTicks
      /\ LongPress * KeyTicks \in Nat
  BY Parameters
<1>2. KeyTicks <= LongPress * KeyTicks
  BY <1>1, Periods, Parameters
<1> QED
  BY <1>1, <1>2, Parameters DEF LongAge

-----------------------------------------------------------------------------
(* What a turn does to the counters and to the ages.                       *)
LEMMA TurnTimers ==
  ASSUME Turn
  PROVE  \E r1, r2 \in Reads("rst"), l1, l2 \in Reads("link"), d \in Reads("dv") :
           /\ KEY_reset_scan(r1, r2) /\ KEY_netlink_scan(l1, l2) /\ DTMF_rx(d)
           /\ timer' = [t \in Timer |-> IF Cleared(t, d) THEN 0 ELSE timer[t]]
           /\ since' = [s \in Since |->
                IF s \in {<<"rst", v>> : v \in ResetReads(r1, r2)}
                      \cup {<<"link", v>> : v \in LinkReads(l1, l2)}
                      \cup {<<"dv", d>>}
                THEN 0 ELSE since[s]]
           /\ ResetAge' = IF 1 \in ResetReads(r1, r2) THEN 0 ELSE ResetAge
           /\ LinkAge' = IF 0 \in LinkReads(l1, l2) THEN 0 ELSE LinkAge
           /\ SilenceAge' = IF d = 0 THEN 0 ELSE SilenceAge
           /\ ToneAge' = IF d = 1 THEN 0 ELSE ToneAge
           /\ ticks' = 0 /\ UNCHANGED <<moving, pin>>
  BY DEF Turn, ResetAge, LinkAge, SilenceAge, ToneAge, Since

LEMMA Readings == TypeOK => \A p \in Pin : Reads(p) \subseteq {0, 1}
  BY DEF TypeOK, Reads, Pin, Level, Bit

-----------------------------------------------------------------------------
(* Types.                                                                  *)
LEMMA TypeInit == Init => TypeOK
<1> SUFFICES ASSUME Init PROVE TypeOK
  OBVIOUS
<1>1. since \in [Since -> 0..LongAge]
  <2>1. 0 \in 0..LongAge
    BY Ages
  <2> QED
    BY <2>1 DEF Init
<1>2. pin \in [Pin -> Level] /\ netlink \in Bit
  BY DEF Init, Level, Bit, Pin
<1>3. timer \in [Timer -> 0..(U8 - 1)] /\ ticks \in 0..TicksPerTurn
  BY Parameters DEF Init
<1>4. /\ rst \in [step : 0..2, old : Level, long : 0..LongPress]
      /\ link \in [step : 0..2, old : Level]
  BY Parameters DEF Init, Level
<1>5. /\ moving \in Pin
      /\ {netlink, flag0, flag1} \subseteq Bit
      /\ {netok, reset, init, digit, spent, missed, pause} \subseteq Bit
  BY <1>2 DEF Init, Bit
<1> QED
  BY <1>1, <1>2, <1>3, <1>4, <1>5 DEF TypeOK

LEMMA ResetTurn ==
  ASSUME TypeOK, ResetInv, NEW r1 \in Bit, NEW r2 \in Bit,
         KEY_reset_scan(r1, r2)
  PROVE  /\ rst' \in [step : 0..2, old : Level, long : 0..LongPress]
         /\ reset' \in Bit /\ spent' \in Bit
<1>1. /\ rst \in [step : 0..2, old : Level, long : 0..LongPress]
      /\ spent \in Bit
  BY DEF TypeOK
<1>2. CASE ResetHeld(r1)
  <2>1. rst.step = 2 /\ rst.long + 1 \in 0..LongPress
    BY <1>1, <1>2, Parameters DEF ResetHeld, ResetInv
  <2>2. reset' \in {0, 1}
    BY <1>2 DEF ResetHeld
  <2>3. rst' = [rst EXCEPT !.step = IF reset' = 1 THEN 1 ELSE 2,
                           !.long = rst.long + 1]
    BY <1>1, <1>2 DEF ResetHeld
  <2>4. rst' \in [step : 0..2, old : Level, long : 0..LongPress]
    <3>1. (IF reset' = 1 THEN 1 ELSE 2) \in 0..2
      OBVIOUS
    <3> QED
      BY <1>1, <2>1, <2>3, <3>1
  <2>5. spent' \in Bit
    BY <1>1, <1>2, <2>2 DEF ResetHeld, Bit
  <2> QED
    BY <2>2, <2>4, <2>5 DEF Bit
<1>3. CASE ResetChanged(r1, r2)
  <2>1. 2 \in 0..2 /\ r2 \in Level /\ 0 \in 0..LongPress
    BY Parameters DEF Bit, Level
  <2>2. rst' = [step |-> 2, old |-> r2, long |-> 0]
    BY <1>3 DEF ResetChanged
  <2> QED
    BY <1>1, <1>3, <2>1, <2>2 DEF ResetChanged, Bit
<1>4. CASE ResetFirst
  <2>1. 1 \in 0..2 /\ Neither \in Level
    BY DEF Level, Neither
  <2> QED
    BY <1>1, <1>4, <2>1 DEF ResetFirst, Bit
<1>5. CASE ResetReleased(r1)
  BY <1>1, <1>5 DEF ResetReleased, Bit
<1>6. CASE ResetWaits(r1)
  BY <1>1, <1>6 DEF ResetWaits, Bit
<1> QED
  BY <1>2, <1>3, <1>4, <1>5, <1>6 DEF KEY_reset_scan

LEMMA LinkTurn ==
  ASSUME TypeOK, NEW l1 \in Bit, NEW l2 \in Bit, KEY_netlink_scan(l1, l2)
  PROVE  /\ link' \in [step : 0..2, old : Level]
         /\ netlink' \in Bit /\ netok' \in Bit /\ init' \in Bit
         /\ missed' \in Bit
  BY DEF TypeOK, KEY_netlink_scan, LinkFirst, LinkChanged, LinkSame,
         LinkBounced, LinkWaits, Bit, Level, Neither

LEMMA DigitTurn ==
  ASSUME TypeOK, NEW d \in Bit, DTMF_rx(d)
  PROVE  flag0' \in Bit /\ flag1' \in Bit /\ digit' \in Bit /\ pause' \in Bit
  BY DEF TypeOK, DTMF_rx, Tone, Silence, Bit

LEMMA TypeNext == TypeOK /\ ResetInv /\ [Next]_vars => TypeOK'
<1> SUFFICES ASSUME TypeOK, ResetInv, [Next]_vars PROVE TypeOK'
  OBVIOUS
<1>1. CASE Turn
  <2>1. PICK r1 \in Reads("rst"), r2 \in Reads("rst"),
             l1 \in Reads("link"), l2 \in Reads("link"), d \in Reads("dv") :
          /\ KEY_reset_scan(r1, r2) /\ KEY_netlink_scan(l1, l2) /\ DTMF_rx(d)
          /\ timer' = [t \in Timer |-> IF Cleared(t, d) THEN 0 ELSE timer[t]]
          /\ since' = [s \in Since |->
               IF s \in {<<"rst", v>> : v \in ResetReads(r1, r2)}
                     \cup {<<"link", v>> : v \in LinkReads(l1, l2)}
                     \cup {<<"dv", d>>}
               THEN 0 ELSE since[s]]
          /\ ticks' = 0 /\ UNCHANGED <<moving, pin>>
    BY <1>1, TurnTimers
  <2>2. r1 \in Bit /\ r2 \in Bit /\ l1 \in Bit /\ l2 \in Bit /\ d \in Bit
    BY Readings DEF Pin, Bit
  <2>3. timer' \in [Timer -> 0..(U8 - 1)]
    BY <2>1, Parameters DEF TypeOK
  <2>4. since' \in [Since -> 0..LongAge]
    BY <2>1, Ages DEF TypeOK
  <2> QED
    BY <2>1, <2>2, <2>3, <2>4, ResetTurn, LinkTurn, DigitTurn, Parameters
    DEF TypeOK
<1>2. CASE Tick
  <2>1. timer' \in [Timer -> 0..(U8 - 1)]
    BY <1>2, Parameters DEF Tick, TypeOK
  <2>2. since' \in [Since -> 0..LongAge]
    BY <1>2, Ages DEF Tick, TypeOK
  <2> QED
    BY <1>2, <2>1, <2>2, Parameters DEF Tick, TypeOK, Bit
<1>3. CASE World
  BY <1>3 DEF World, TypeOK, Bit
<1>4. CASE UNCHANGED vars
  BY <1>4 DEF vars, resetVars, linkVars, dtmfVars, TypeOK
<1> QED
  BY <1>1, <1>2, <1>3, <1>4 DEF Next

-----------------------------------------------------------------------------
(* The three machines.                                                     *)
LEMMA Typed ==
  ASSUME TypeOK
  PROVE  /\ \A t \in Timer : timer[t] \in 0..(U8 - 1)
         /\ ResetAge \in 0..LongAge /\ LinkAge \in 0..LongAge
         /\ SilenceAge \in 0..LongAge /\ ToneAge \in 0..LongAge
         /\ rst.step \in 0..2 /\ rst.old \in Level /\ rst.long \in 0..LongPress
  BY DEF TypeOK, ResetAge, LinkAge, SilenceAge, ToneAge, Since

LEMMA ResetStep ==
  ASSUME TypeOK, ResetInv, Turn
  PROVE  /\ ResetInv'
         /\ reset' = 1 => ResetAge >= LongPress * KeyTicks /\ spent = 0
<1>1. PICK r1 \in Reads("rst"), r2 \in Reads("rst"), d \in Reads("dv") :
        /\ KEY_reset_scan(r1, r2)
        /\ timer' = [t \in Timer |-> IF Cleared(t, d) THEN 0 ELSE timer[t]]
        /\ ResetAge' = IF 1 \in ResetReads(r1, r2) THEN 0 ELSE ResetAge
  BY TurnTimers
<1>2. r1 \in Bit /\ r2 \in Bit /\ spent \in Bit
  BY Readings DEF Pin, Bit, TypeOK
<1>3. /\ timer["key_reset"] \in Nat
      /\ timer'["key_reset"] =
           IF \/ rst.step = 1 /\ rst'.step = 2
              \/ rst.step = 2 /\ rst'.long # rst.long
           THEN 0 ELSE timer["key_reset"]
  BY <1>1, Typed, Parameters DEF Cleared, Timer
<1>4. /\ ResetAge \in Nat /\ rst.long \in Nat /\ rst.step \in 0..2
      /\ rst \in [step : 0..2, old : Level, long : 0..LongPress]
  BY Typed, Ages, Parameters DEF TypeOK
<1>5. CASE ResetFirst
  BY <1>2, <1>4, <1>5 DEF ResetFirst, ResetInv, Neither
<1>6. CASE ResetChanged(r1, r2)
  <2>1. /\ rst' = [step |-> 2, old |-> r2, long |-> 0] /\ rst.step = 1
        /\ reset' = 0
        /\ spent' = IF 1 \in {r1, r2} THEN 0 ELSE spent
        /\ rst.old # r1
    BY <1>6 DEF ResetChanged
  <2>2. timer'["key_reset"] = 0 /\ ResetAge' \in Nat
    BY <1>1, <1>3, <1>4, <2>1
  <2>3. 0 * KeyTicks = 0 /\ 0 < LongPress
    BY Parameters
  <2>4. spent' = 0
    BY <1>2, <2>1 DEF ResetInv, Bit
  <2> QED
    BY <2>1, <2>2, <2>3, <2>4 DEF ResetInv
<1>7. CASE ResetHeld(r1)
  <2>1. /\ rst.step = 2 /\ timer["key_reset"] >= KeyTicks
        /\ rst.old = 0 /\ r1 = 0
        /\ reset' = IF rst.long + 1 >= LongPress THEN 1 ELSE 0
        /\ rst'.step = IF reset' = 1 THEN 1 ELSE 2
        /\ rst'.long = rst.long + 1 /\ rst'.old = rst.old
        /\ spent' = IF reset' = 1 THEN 1 ELSE spent
    BY <1>4, <1>7 DEF ResetHeld
  <2>2. ResetAge' = ResetAge
    BY <1>1, <2>1 DEF ResetReads
  <2>3. rst.long < LongPress /\ spent = 0
    BY <1>2, <2>1 DEF ResetInv, Bit
  <2>4. ResetAge >= (rst.long + 1) * KeyTicks
    BY <1>3, <1>4, <2>1, <2>3, Periods, Parameters DEF ResetInv
  <2>5. reset' = 1 => rst.long + 1 = LongPress
    BY <1>4, <2>1, <2>3, Parameters
  <2>6. reset' # 1 => rst'.long < LongPress /\ timer'["key_reset"] = 0
    BY <1>3, <1>4, <2>1, <2>3, Parameters
  <2>7. (rst.long + 1) * KeyTicks \in Nat
    BY <1>4, <2>3, Periods
  <2>8. reset' # 1 => ResetAge' >= rst'.long * KeyTicks + timer'["key_reset"]
    BY <1>4, <2>1, <2>2, <2>4, <2>6, <2>7
  <2> QED
    BY <2>1, <2>3, <2>4, <2>5, <2>6, <2>8 DEF ResetInv
<1>8. CASE ResetReleased(r1)
  <2>1. /\ rst.step = 2 /\ reset' = 0 /\ rst'.step = 1
        /\ spent' = IF r1 = 1 THEN 0 ELSE spent
    BY <1>4, <1>8 DEF ResetReleased
  <2>2. spent' = 0
    BY <1>2, <2>1 DEF ResetInv, Bit
  <2> QED
    BY <2>1, <2>2 DEF ResetInv
<1>9. CASE ResetWaits(r1)
  <2>1. /\ rst' = rst /\ reset' = 0
        /\ spent' = IF rst.step = 1 /\ r1 = 1 THEN 0 ELSE spent
        /\ \/ rst.step = 1 /\ rst.old = r1
           \/ rst.step = 2 /\ timer["key_reset"] < KeyTicks
    BY <1>9 DEF ResetWaits
  <2>2. rst.step = 2 => /\ ResetAge' = ResetAge
                        /\ timer'["key_reset"] = timer["key_reset"]
    BY <1>1, <1>3, <1>4, <2>1, Parameters DEF ResetReads
  <2> QED
    BY <1>2, <2>1, <2>2 DEF ResetInv, Bit
<1> QED
  BY <1>1, <1>5, <1>6, <1>7, <1>8, <1>9 DEF KEY_reset_scan

LEMMA LinkStep ==
  ASSUME TypeOK, LinkInv, Turn
  PROVE  /\ LinkInv'
         /\ init' = 1 => LinkAge >= KeyTicks /\ netok = 0
<1>1. PICK l1 \in Reads("link"), l2 \in Reads("link"), d \in Reads("dv") :
        /\ KEY_netlink_scan(l1, l2)
        /\ timer' = [t \in Timer |-> IF Cleared(t, d) THEN 0 ELSE timer[t]]
        /\ LinkAge' = IF 0 \in LinkReads(l1, l2) THEN 0 ELSE LinkAge
  BY TurnTimers
<1>2. /\ timer["netlink"] \in Nat /\ LinkAge \in Nat
      /\ timer'["netlink"] = IF link'.step = 2 /\ link.step = 1 THEN 0
                             ELSE timer["netlink"]
      /\ link \in [step : 0..2, old : Level]
  BY <1>1, Typed, Ages, Parameters DEF Cleared, Timer, TypeOK
<1>3. CASE LinkFirst(l1) \/ LinkBounced(l1)
  BY <1>2, <1>3 DEF LinkFirst, LinkBounced, LinkInv
<1>4. CASE LinkChanged(l1, l2)
  <2>1. timer'["netlink"] = 0 /\ init' = 0
    BY <1>2, <1>4 DEF LinkChanged
  <2> QED
    BY <1>1, <1>2, <2>1 DEF LinkInv
<1>5. CASE LinkSame(l1, l2)
  <2>1. /\ link.step = 2 /\ timer["netlink"] >= KeyTicks /\ link.old = l1
        /\ link'.step = 1
        /\ init' = IF l1 = 1 /\ netok = 0 THEN 1 ELSE 0
    BY <1>2, <1>5 DEF LinkSame
  <2> QED
    BY <1>2, <2>1, Parameters DEF LinkInv
<1>6. CASE LinkWaits(l1)
  <2>1. link' = link /\ init' = 0
    BY <1>6 DEF LinkWaits
  <2>2. link.step = 2 => timer["netlink"] < KeyTicks
    BY <1>6 DEF LinkWaits
  <2>3. link.step = 2 => /\ LinkAge' = LinkAge
                         /\ timer'["netlink"] = timer["netlink"]
    BY <1>1, <1>2, <2>1, <2>2, Parameters DEF LinkReads
  <2> QED
    BY <2>1, <2>3 DEF LinkInv
<1> QED
  BY <1>1, <1>3, <1>4, <1>5, <1>6 DEF KEY_netlink_scan

LEMMA DigitStep ==
  ASSUME TypeOK, DigitInv, Turn
  PROVE  /\ DigitInv'
         /\ digit' = 1 => SilenceAge > DtmfTicks /\ pause = 1
<1>1. PICK d \in Reads("dv") :
        /\ DTMF_rx(d)
        /\ timer' = [t \in Timer |-> IF Cleared(t, d) THEN 0 ELSE timer[t]]
        /\ SilenceAge' = IF d = 0 THEN 0 ELSE SilenceAge
        /\ ToneAge' = IF d = 1 THEN 0 ELSE ToneAge
  BY TurnTimers
<1>2. /\ d \in Bit /\ flag0 \in Bit /\ pause \in Bit
      /\ timer["dtmf_hi"] \in Nat /\ timer["dtmf_low"] \in Nat
      /\ SilenceAge \in Nat /\ ToneAge \in Nat
  BY Readings, Typed, Ages, Parameters DEF Pin, Bit, Timer, TypeOK
<1>3. /\ timer'["dtmf_hi"] = IF d = 0 THEN 0 ELSE timer["dtmf_hi"]
      /\ timer'["dtmf_low"] = IF d = 1 THEN 0 ELSE timer["dtmf_low"]
  BY <1>1 DEF Cleared, Timer
<1>4. CASE Tone(d)
  BY <1>1, <1>2, <1>3, <1>4, Parameters DEF Tone, DigitInv, Bit
<1>5. CASE Silence(d)
  <2>1. d = 0 /\ digit' = 0
    BY <1>5 DEF Silence
  <2>2. flag0' = 0 => pause' = 1
    BY <1>2, <1>5, Parameters DEF Silence, DigitInv, Bit, ToneAge
  <2> QED
    BY <1>1, <1>2, <1>3, <2>1, <2>2 DEF DigitInv
<1> QED
  BY <1>1, <1>4, <1>5 DEF DTMF_rx

(* A tick moves every age by one until it is longer than any threshold.    *)
LEMMA TickInv ==
  ASSUME TypeOK, ResetInv, LinkInv, DigitInv, Tick
  PROVE  ResetInv' /\ LinkInv' /\ DigitInv'
<1>1. /\ UNCHANGED <<rst, link, spent, flag0, pause>>
      /\ \A t \in Timer : timer'[t] \in Nat /\ timer'[t] <= timer[t] + 1
  <2>1. \A n \in Nat : (n + 1) % U8 \in Nat /\ (n + 1) % U8 <= n + 1
    BY Parameters
  <2>2. \A t \in Timer : timer[t] \in Nat
    BY Typed, Parameters
  <2> QED
    BY <2>1, <2>2 DEF Tick
<1>2. /\ ResetAge' = IF ResetAge < LongAge THEN ResetAge + 1 ELSE LongAge
      /\ LinkAge' = IF LinkAge < LongAge THEN LinkAge + 1 ELSE LongAge
      /\ SilenceAge' = IF SilenceAge < LongAge THEN SilenceAge + 1 ELSE LongAge
      /\ ToneAge' = IF ToneAge < LongAge THEN ToneAge + 1 ELSE LongAge
  BY DEF Tick, ResetAge, LinkAge, SilenceAge, ToneAge, Since
<1>3. /\ ResetAge \in 0..LongAge /\ LinkAge \in 0..LongAge
      /\ SilenceAge \in 0..LongAge /\ ToneAge \in 0..LongAge
      /\ \A t \in {"key_reset", "netlink", "dtmf_hi", "dtmf_low"} :
           timer[t] \in Nat /\ timer'[t] \in Nat /\ timer'[t] <= timer[t] + 1
      /\ rst.long \in Nat
  BY <1>1, Typed, Parameters DEF Timer
<1>4. ResetInv'
  <2> SUFFICES ASSUME rst.step = 2, rst.old = 0
               PROVE  \/ ResetAge' >= rst.long * KeyTicks + timer'["key_reset"]
                      \/ ResetAge' >= (rst.long + 1) * KeyTicks
    BY <1>1 DEF ResetInv
  <2>1. /\ rst.long * KeyTicks \in Nat /\ (rst.long + 1) * KeyTicks \in Nat
        /\ (rst.long + 1) * KeyTicks <= LongPress * KeyTicks
    BY <1>3, Periods DEF ResetInv
  <2> QED
    BY <1>2, <1>3, <2>1, Ages DEF ResetInv
<1>5. LinkInv'
  BY <1>1, <1>2, <1>3, Ages, Parameters DEF LinkInv
<1>6. DigitInv'
  BY <1>1, <1>2, <1>3, Ages, Parameters DEF DigitInv
<1> QED
  BY <1>4, <1>5, <1>6

LEMMA OtherInv ==
  ASSUME ResetInv, LinkInv, DigitInv, World \/ UNCHANGED vars
  PROVE  ResetInv' /\ LinkInv' /\ DigitInv'
<1>1. UNCHANGED <<rst, link, spent, flag0, pause, timer, since>>
  BY DEF World, vars, resetVars, linkVars, dtmfVars
<1> QED
  BY <1>1
  DEF ResetInv, LinkInv, DigitInv, ResetAge, LinkAge, SilenceAge, ToneAge

-----------------------------------------------------------------------------
(* The inductive invariant and what follows from it.                       *)
LEMMA InitInv == Init => IInv
<1> SUFFICES ASSUME Init PROVE IInv
  OBVIOUS
<1>1. TypeOK
  BY TypeInit
<1>2. /\ SilenceAge = 0 /\ ToneAge = 0
      /\ timer["dtmf_hi"] = 0 /\ timer["dtmf_low"] = 0
  BY DEF Init, SilenceAge, ToneAge, Since, Timer
<1>3. ResetInv /\ LinkInv
  BY DEF Init, ResetInv, LinkInv
<1>4. DigitInv
  BY <1>2 DEF Init, DigitInv
<1> QED
  BY <1>1, <1>3, <1>4 DEF IInv

LEMMA NextInv == IInv /\ [Next]_vars => IInv'
<1> SUFFICES ASSUME IInv, [Next]_vars PROVE IInv'
  OBVIOUS
<1>1. TypeOK'
  BY TypeNext DEF IInv
<1>2. ResetInv' /\ LinkInv' /\ DigitInv'
  BY ResetStep, LinkStep, DigitStep, TickInv, OtherInv DEF IInv, Next
<1> QED
  BY <1>1, <1>2 DEF IInv

(* The inductive invariant of the three scans.                             *)
THEOREM Invariance == Spec => []IInv
  BY InitInv, NextInv, PTL DEF Spec

(* KEY_reset_scan, KEY_netlink_scan, DTMF_rx and the counters: the types.  *)
THEOREM TypeCorrect == Spec => []TypeOK
<1>1. IInv => TypeOK
  BY DEF IInv
<1> QED
  BY <1>1, Invariance, PTL

(* KEY_reset_scan: only a key that was held for all the periods resets the *)
(* configuration, and once.                                                *)
THEOREM ResetNeedsLongPress == Spec => NoShortReset
<1>1. IInv /\ [Next]_vars
        => [reset' = 1 => /\ since[<<"rst", 1>>] >= LongPress * KeyTicks
                          /\ spent = 0]_vars
  <2> SUFFICES ASSUME IInv, Next, reset' = 1
               PROVE  since[<<"rst", 1>>] >= LongPress * KeyTicks /\ spent = 0
    BY DEF vars
  <2>1. Turn
    BY DEF Next, Tick, World
  <2> QED
    BY <2>1, ResetStep DEF IInv, ResetAge
<1> QED
  BY <1>1, Invariance, PTL DEF Spec, NoShortReset

(* KEY_netlink_scan: only a cable that was read as plugged in a period     *)
(* apart, and never otherwise, starts lwIP, and only if it does not run.   *)
THEOREM StartIsDebounced == Spec => InitDebounced
<1>1. IInv /\ [Next]_vars
        => [init' = 1 => since[<<"link", 0>>] >= KeyTicks /\ netok = 0]_vars
  <2> SUFFICES ASSUME IInv, Next, init' = 1
               PROVE  since[<<"link", 0>>] >= KeyTicks /\ netok = 0
    BY DEF vars
  <2>1. Turn
    BY DEF Next, Tick, World
  <2> QED
    BY <2>1, LinkStep DEF IInv, LinkAge
<1> QED
  BY <1>1, Invariance, PTL DEF Spec, InitDebounced

(* DTMF_rx: one digit per tone, of a length and after a pause that count.  *)
THEOREM OneDigitPerTone == Spec => DigitOnce
<1>1. IInv /\ [Next]_vars
        => [digit' = 1 => since[<<"dv", 0>>] > DtmfTicks /\ pause = 1]_vars
  <2> SUFFICES ASSUME IInv, Next, digit' = 1
               PROVE  since[<<"dv", 0>>] > DtmfTicks /\ pause = 1
    BY DEF vars
  <2>1. Turn
    BY DEF Next, Tick, World
  <2> QED
    BY <2>1, DigitStep DEF IInv, SilenceAge
<1> QED
  BY <1>1, Invariance, PTL DEF Spec, DigitOnce
=============================================================================
