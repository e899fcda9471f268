------------------------------- MODULE Inputs ------------------------------
(***************************************************************************)
(* The inputs that the main loop samples: the reset key, the link pin of   *)
(* the Ethernet chip and the valid pin of the DTMF receiver.               *)
(*                                                                         *)
(* Each scan is a small machine that reads its pin once, twice or not at   *)
(* all in a turn and waits with a u8 counter that the 1 ms interrupt moves *)
(* all the time.  A pin that bounces gives a value of its own to each read *)
(* and nobody looks at it between two reads.                               *)
(***************************************************************************)
EXTENDS Naturals

CONSTANTS
    U8,                 \* modulus of the counters
    KeyTicks,           \* gpsT3->key_reset >= 100, gpsT3->netlink >= 100
    DtmfTicks,          \* gpsT3->dtmf_hi > 5, gpsT3->dtmf_low > 5
    LongPress,          \* long_press >= 50
    TicksPerTurn        \* the longest turn of the main loop

(* A turn is shorter than what the counters have left above the threshold. *)
ASSUME InputsAssumption ==
    /\ {U8, KeyTicks, DtmfTicks, LongPress, TicksPerTurn} \subseteq Nat \ {0}
    /\ U8 > KeyTicks + TicksPerTurn
    /\ U8 > DtmfTicks + TicksPerTurn

VARIABLES
    moving,             \* the input that moves in this behaviour, see World
    pin,                \* each pin: 0, 1 or bouncing
    ticks,              \* ticks of this turn
    timer,              \* gpsT3: key_reset, netlink, dtmf_low, dtmf_hi
    rst,                \* KEY_reset_scan: step, old, long_press
    reset,              \* this turn reset the configuration
    link,               \* KEY_netlink_scan: step, old
    netlink, netok,     \* gsNetFlag
    init,               \* this turn called lwip_comm_init
    flag0, flag1,       \* gDtmfRxFlag0, gDtmfRxFlag1
    digit,              \* this turn built the message of a digit
    since,              \* history: ticks since each pin read a value, see Since
    spent,              \* history: a reset since the key was read as released
    missed,             \* history: the link pin bounced when it was sampled
    pause               \* history: a pause since the last digit

resetVars == <<rst, reset, spent>>
linkVars == <<link, netlink, netok, init, missed>>
dtmfVars == <<flag0, flag1, digit, pause>>
vars == <<moving, pin, ticks, timer, resetVars, linkVars, dtmfVars, since>>

Bit == {0, 1}
Pin == {"rst", "link", "dv"}
Level == {0, 1, 2}                  \* 2: bouncing
Neither == 2                        \* ~KEY: equal to no reading
Timer == {"key_reset", "netlink", "dtmf_low", "dtmf_hi"}

(* The readings that matter to the properties: since <<p, v>> the pin p    *)
(* was not read as v.  The ages stop counting at LongAge: a bound.         *)
Since == {<<"rst", 1>>, <<"link", 0>>, <<"dv", 0>>, <<"dv", 1>>}
LongAge == LongPress * KeyTicks + DtmfTicks + 1

Reads(p) == IF pin[p] = 2 THEN Bit ELSE {pin[p]}

(* KEY_Init, the statics, and main up to the loop.                         *)
Init ==
    /\ moving \in Pin
    /\ pin \in [Pin -> {0, 1}]
    /\ pin["rst"] = 1 /\ pin["dv"] = 0
    /\ ticks = 0
    /\ timer = [t \in Timer |-> 0]
    /\ rst = [step |-> 0, old |-> 0, long |-> 0]
    /\ reset = 0
    /\ link = [step |-> 0, old |-> 0]
    /\ netlink = pin["link"] /\ netok \in Bit
    /\ init = 0
    /\ flag0 = 0 /\ flag1 = 0 /\ digit = 0
    /\ since = [s \in Since |-> 0]
    /\ spent = 0 /\ missed = 0 /\ pause = 1

-----------------------------------------------------------------------------
(* KEY_reset_scan: now and again are its first and its second reading.     *)
ResetReads(now, again) ==
    CASE rst.step = 0 -> {now}
      [] rst.step = 1 /\ rst.old = now -> {now}
      [] rst.step = 1 /\ rst.old # now -> {now, again}
      [] rst.step = 2 /\ timer["key_reset"] >= KeyTicks -> {now}
      [] OTHER -> {}

ResetFirst ==
    /\ rst.step = 0
    /\ rst' = [rst EXCEPT !.step = 1, !.old = Neither]
    /\ reset' = 0
    /\ UNCHANGED spent

ResetChangedKeeps(now, again) ==    \* mutant: long_press is not cleared
    /\ rst.step = 1 /\ rst.old # now
    /\ rst' = [rst EXCEPT !.step = 2, !.old = again]
    /\ reset' = 0
    /\ spent' = IF 1 \in {now, again} THEN 0 ELSE spent

ResetChanged(now, again) ==
    /\ rst.step = 1 /\ rst.old # now
    /\ rst' = [step |-> 2, old |-> again, long |-> 0]
    /\ reset' = 0
    /\ spent' = IF 1 \in {now, again} THEN 0 ELSE spent

ResetHeldLate(now) ==               \* mutant: > for >=
    /\ rst.step = 2 /\ timer["key_reset"] >= KeyTicks
    /\ rst.old = now /\ now = 0
    /\ reset' = IF rst.long + 1 > LongPress THEN 1 ELSE 0
    /\ rst' = [rst EXCEPT !.step = IF reset' = 1 THEN 1 ELSE 2, !.long = @ + 1]
    /\ spent' = IF reset' = 1 THEN 1 ELSE spent

ResetHeld(now) ==
    /\ rst.step = 2 /\ timer["key_reset"] >= KeyTicks
    /\ rst.old = now /\ now = 0
    /\ reset' = IF rst.long + 1 >= LongPress THEN 1 ELSE 0
    /\ rst' = [rst EXCEPT !.step = IF reset' = 1 THEN 1 ELSE 2, !.long = @ + 1]
    /\ spent' = IF reset' = 1 THEN 1 ELSE spent

ResetReleased(now) ==
    /\ rst.step = 2 /\ timer["key_reset"] >= KeyTicks
    /\ rst.old # now \/ now = 1
    /\ rst' = [rst EXCEPT !.step = 1]
    /\ reset' = 0
    /\ spent' = IF now = 1 THEN 0 ELSE spent

ResetWaits(now) ==
    /\ \/ rst.step = 1 /\ rst.old = now
       \/ rst.step = 2 /\ timer["key_reset"] < KeyTicks
    /\ reset' = 0
    /\ spent' = IF rst.step = 1 /\ now = 1 THEN 0 ELSE spent
    /\ UNCHANGED rst

KEY_reset_scan(now, again) ==
    \/ ResetFirst \/ ResetChanged(now, again)
    \/ ResetHeld(now) \/ ResetReleased(now) \/ ResetWaits(now)

-----------------------------------------------------------------------------
(* KEY_netlink_scan.                                                       *)
LinkReads(now, again) ==
    CASE link.step = 0 -> IF netlink = now THEN {now} ELSE {now, again}
      [] link.step = 1 -> IF link.old = now THEN {now} ELSE {now, again}
      [] link.step = 2 /\ timer["netlink"] >= KeyTicks ->
            IF link.old = now THEN {now, again} ELSE {now}
      [] OTHER -> {}

LinkFirstSame(now) ==               \* mutant: the old state is not inverted
    /\ link.step = 0 /\ netlink # now
    /\ link' = [step |-> 1, old |-> now]
    /\ init' = 0
    /\ UNCHANGED <<netlink, netok, missed>>

LinkFirst(now) ==
    /\ link.step = 0 /\ netlink # now
    /\ link' = [step |-> 1, old |-> Neither]
    /\ init' = 0
    /\ UNCHANGED <<netlink, netok, missed>>

LinkChangedAtOnce(now, again) ==    \* mutant: no debouncing
    /\ link.step \in {1, 2} /\ link.old # now
    /\ link' = [step |-> 1, old |-> again]
    /\ netlink' = again
    /\ missed' = IF again # now THEN 1 ELSE 0
    /\ init' = IF now = 1 /\ netok = 0 THEN 1 ELSE 0
    /\ netok' \in {netok, IF init' = 1 THEN 1 ELSE netok}

LinkChanged(now, again) ==
    /\ link.step = 1 /\ link.old # now
    /\ link' = [step |-> 2, old |-> again]
    /\ missed' = 0
    /\ init' = 0
    /\ UNCHANGED <<netlink, netok>>

(* Sampled as it was: gsNetFlag.netlink takes another reading, and a cable *)
(* that was plugged in starts lwIP if it does not run yet.                 *)
LinkSame(now, again) ==
    /\ link.step = 2 /\ timer["netlink"] >= KeyTicks
    /\ link.old = now
    /\ link' = [link EXCEPT !.step = 1]
    /\ netlink' = again
    /\ missed' = IF again # now THEN 1 ELSE 0
    /\ init' = IF now = 1 /\ netok = 0 THEN 1 ELSE 0
    /\ netok' \in {netok, IF init' = 1 THEN 1 ELSE netok}

LinkBounced(now) ==
    /\ link.step = 2 /\ timer["netlink"] >= KeyTicks
    /\ link.old # now
    /\ link' = [link EXCEPT !.step = 1]
    /\ missed' = 1
    /\ init' = 0
    /\ UNCHANGED <<netlink, netok>>

LinkWaits(now) ==
    /\ \/ link.step = 0 /\ netlink = now
       \/ link.step = 1 /\ link.old = now
       \/ link.step = 2 /\ timer["netlink"] < KeyTicks
    /\ init' = 0
    /\ UNCHANGED <<link, netlink, netok, missed>>

KEY_netlink_scan(now, again) ==
    \/ LinkFirst(now) \/ LinkChanged(now, again)
    \/ LinkSame(now, again) \/ LinkBounced(now) \/ LinkWaits(now)

-----------------------------------------------------------------------------
(* DTMF_rx.                                                                *)
ToneRepeats(now) ==                   \* mutant: gDtmfRxFlag0 is not set
    /\ now = 1
    /\ digit' = IF timer["dtmf_hi"] > DtmfTicks /\ flag0 = 0 THEN 1 ELSE 0
    /\ flag1' = IF digit' = 1 THEN 0 ELSE flag1
    /\ pause' = IF digit' = 1 THEN 0 ELSE pause
    /\ UNCHANGED flag0

Tone(now) ==
    /\ now = 1
    /\ digit' = IF timer["dtmf_hi"] > DtmfTicks /\ flag0 = 0 THEN 1 ELSE 0
    /\ flag0' = IF digit' = 1 THEN 1 ELSE flag0
    /\ flag1' = IF digit' = 1 THEN 0 ELSE flag1
    /\ pause' = IF digit' = 1 THEN 0 ELSE pause

Silence(now) ==
    /\ now = 0
    /\ digit' = 0
    /\ IF timer["dtmf_low"] > DtmfTicks /\ flag1 = 0
       THEN flag1' = 1 /\ flag0' = 0
       ELSE UNCHANGED <<flag0, flag1>>
    /\ pause' = IF since[<<"dv", 1>>] > DtmfTicks THEN 1 ELSE pause

DTMF_rx(now) == Tone(now) \/ Silence(now)

-----------------------------------------------------------------------------
(* One turn: the three scans, their stores to the counters, the readings.  *)
Cleared(t, now) ==
    CASE t = "key_reset" ->
            \/ rst.step = 1 /\ rst'.step = 2
            \/ rst.step = 2 /\ rst'.long # rst.long
      [] t = "netlink" -> link'.step = 2 /\ link.step = 1
      [] t = "dtmf_low" -> now = 1
      [] t = "dtmf_hi" -> now = 0

Turn ==
    \E r1, r2 \in Reads("rst"), l1, l2 \in Reads("link"), d \in Reads("dv") :
        /\ KEY_reset_scan(r1, r2)
        /\ KEY_netlink_scan(l1, l2)
        /\ DTMF_rx(d)
        /\ timer' = [t \in Timer |-> IF Cleared(t, d) THEN 0 ELSE timer[t]]
        /\ since' = [s \in Since |->
             IF s \in {<<"rst", v>> : v \in ResetReads(r1, r2)}
                   \cup {<<"link", v>> : v \in LinkReads(l1, l2)}
                   \cup {<<"dv", d>>}
             THEN 0 ELSE since[s]]
        /\ ticks' = 0
        /\ UNCHANGED <<moving, pin>>

(* TIM3_IRQHandler, its 1 ms part.                                         *)
Tick ==
    /\ ticks < TicksPerTurn
    /\ ticks' = ticks + 1
    /\ timer' = [t \in Timer |-> (timer[t] + 1) % U8]
    /\ since' = [s \in Since |->
         IF since[s] < LongAge THEN since[s] + 1 ELSE LongAge]
    /\ reset' = 0 /\ init' = 0 /\ digit' = 0
    /\ UNCHANGED <<moving, pin, rst, spent, link, netlink, netok, missed,
                   flag0, flag1, pause>>

(* The three machines share nothing but the interrupt: it is enough to     *)
(* move one of the pins in a behaviour.                                    *)
World ==
    /\ \E v \in Level : pin' = [pin EXCEPT ![moving] = v]
    /\ reset' = 0 /\ init' = 0 /\ digit' = 0
    /\ UNCHANGED <<moving, ticks, timer, rst, spent, link, netlink, netok,
                   missed, flag0, flag1, pause, since>>

Next == Turn \/ Tick \/ World

(* The main loop never waits and the timer never stops.                    *)
Spec == Init /\ [][Next]_vars
FairSpec == Spec /\ WF_vars(Turn) /\ WF_vars(Tick)

-----------------------------------------------------------------------------
(* Properties.                                                             *)

TypeOK ==
    /\ moving \in Pin
    /\ pin \in [Pin -> Level]
    /\ ticks \in 0..TicksPerTurn
    /\ timer \in [Timer -> 0..(U8 - 1)]
    /\ rst \in [step : 0..2, old : Level, long : 0..LongPress]
    /\ link \in [step : 0..2, old : Level]
    /\ {netlink, flag0, flag1} \subseteq Bit
    /\ {netok, reset, init, digit, spent, missed, pause} \subseteq Bit
    /\ since \in [Since -> 0..LongAge]

(* The configuration is reset only by a key that was read as pressed at    *)
(* every sample for LongPress periods, and once however long it is held.   *)
NoShortReset ==
    [][reset' = 1 =>
         since[<<"rst", 1>>] >= LongPress * KeyTicks /\ spent = 0]_vars

(* lwIP is started only by a cable that was read as plugged in twice, a    *)
(* period apart, and not as unplugged in between.                          *)
InitDebounced ==
    [][init' = 1 => since[<<"link", 0>>] >= KeyTicks /\ netok = 0]_vars

(* A digit is built once per tone: it needs a tone longer than DtmfTicks   *)
(* since the last reading of silence and, since the digit before, a pause  *)
(* as long.                                                                *)
DigitOnce ==
    [][digit' = 1 => since[<<"dv", 0>>] > DtmfTicks /\ pause = 1]_vars

(* A cable at rest ends up in gsNetFlag.netlink, unless it bounced at the  *)
(* very moment it was sampled: the scan then keeps the old flag and waits  *)
(* for a change that has already happened.                                 *)
NetlinkSettles ==
    \A v \in Bit :
        <>[](pin["link"] = v) => <>[](netlink = v \/ missed = 1)
=============================================================================
