---------------------------- MODULE EepromStore ----------------------------
(***************************************************************************)
(* The configuration of the terminal.                                      *)
(*                                                                         *)
(* It lives in RAM (gpsEeprom), is changed there by the management         *)
(* software (HHDX_AnalyseJsonValue) or by a long press of the reset key,   *)
(* and is copied in the background to the EEPROM, a page of eight bytes at *)
(* a time with 10 ms between two pages (EEPROM_Write).  The next power-up  *)
(* reads it back (EEPROM_Read).                                            *)
(*                                                                         *)
(* All of it runs in the main loop; what interleaves is the pages of one   *)
(* write with later changes, with the reset key, with the network cable    *)
(* (which stops a write) and with the loss of power.                       *)
(***************************************************************************)
EXTENDS Naturals

CONSTANTS
    Fields,         \* the part of struct stEeprom under consideration
    Values,         \* what the management software sets a field to
    Factory,        \* the value HHDX_FactoryReset gives it
    Zero,           \* what String2Int leaves in the bytes above a number
    PageTicks       \* gpsT3->eeprom >= 10 ms between two pages

(* struct stEeprom: the page that holds a field (own_num: its first eight  *)
(* characters; the switches of struct stEepromFlag are one field).         *)
PageOf ==
    [own_ip |-> 0, mask_ip |-> 0, gw_ip |-> 1, sv_ip |-> 1, own_num |-> 2,
     spk_vol |-> 4, mic_vol |-> 4, music_name |-> 4, ans_time |-> 4,
     flag |-> 4]
LastPage == 4                   \* gEeprom_len = 37: bytes 32 to 36

(* The fields in the three bytes behind a field that String2Int fills.     *)
Above ==
    [spk_vol |-> {"mic_vol", "music_name", "ans_time"},
     mic_vol |-> {"music_name", "ans_time", "flag"},
     music_name |-> {"ans_time", "flag"},
     ans_time |-> {"flag"}]

ASSUME EepromAssumption ==
    /\ Fields \subseteq DOMAIN PageOf
    /\ Factory \notin Values /\ Zero \notin Values /\ Factory # Zero
    /\ PageTicks \in Nat \ {0}

VARIABLES
    ram,            \* *gpsEeprom
    stored,         \* the contents of the EEPROM
    eepromwr,       \* gsHhdxFlag.eepromwr: a write is under way
    page,           \* writed_len / 8: the page it writes next
    eeprom,         \* gpsT3->eeprom, counted up to PageTicks
    netok,          \* gsNetFlag.netok: lwIP is initialised
    late            \* history: changed pages the write had already passed

vars == <<ram, stored, eepromwr, page, eeprom, netok, late>>

Config == [Fields -> Values \cup {Factory, Zero}]
Pages == 0..LastPage

(* EEPROM_Read and HHDX_VariateInit at power-up, on an EEPROM that holds   *)
(* the factory configuration.                                              *)
Init ==
    /\ ram = [f \in Fields |-> Factory]
    /\ stored = ram
    /\ eepromwr = 0 /\ page = 0 /\ eeprom = 0
    /\ netok \in {0, 1}
    /\ late = {}

-----------------------------------------------------------------------------
(* Pages before the next one are not written again in this write: a change *)
(* to them comes late.                                                     *)
Change(new, what) ==
    /\ ram' = new
    /\ eepromwr' = 1
    /\ late' = late \cup {PageOf[f] : f \in {g \in what : PageOf[g] < page}}

(* Numbers go through a pointer to unsigned int, four bytes wide, although *)
(* their fields are bytes: String2Int clears the three bytes above.        *)
Cleared(f) == IF f \in DOMAIN Above THEN Above[f] \cap Fields ELSE {}

SetParamRestarts(f, v) ==           \* mutant: every change starts over
    /\ netok = 1
    /\ Change([g \in Fields |-> IF g = f THEN v
                                ELSE IF g \in Cleared(f) THEN Zero
                                ELSE ram[g]],
              {f} \cup Cleared(f))
    /\ page' = 0 /\ eeprom' = 0
    /\ UNCHANGED <<stored, netok>>

SetParam(f, v) ==
    /\ netok = 1
    /\ Change([g \in Fields |-> IF g = f THEN v
                                ELSE IF g \in Cleared(f) THEN Zero
                                ELSE ram[g]],
              {f} \cup Cleared(f))
    /\ UNCHANGED <<stored, page, eeprom, netok>>

(* A parameter the terminal does not know, or param_read, starts a write   *)
(* as well.                                                                *)
OtherParam ==
    /\ netok = 1
    /\ eepromwr' = 1
    /\ UNCHANGED <<ram, stored, page, eeprom, netok, late>>

(* JS_RESET, from the management software or the reset key: it stops the   *)
(* write (HHDX_VariateInit), restores the factory values and sets the flag *)
(* again.                                                                  *)
FactoryReset ==
    /\ Change([f \in Fields |-> Factory], Fields)
    /\ UNCHANGED <<stored, page, eeprom, netok>>

(* KEY_netlink_scan: a cable plugged in after power-up initialises lwIP,   *)
(* and HHDX_VariateInit stops the write where it is.                       *)
NetlinkUp ==
    /\ netok = 0
    /\ netok' \in {0, 1}
    /\ eepromwr' = 0
    /\ late' = IF eepromwr = 1 THEN late \cup (page..LastPage) ELSE late
    /\ UNCHANGED <<ram, stored, page, eeprom>>

(* EEPROM_Write, called in every turn of the main loop.                    *)
PageDue == eepromwr = 1 /\ eeprom >= PageTicks
PagesLeftShort == page < LastPage   \* mutant: the last page is left out
PagesLeftLong == page <= LastPage + 1       \* mutant: one page too many
PagesLeft == page <= LastPage

WritePage ==
    /\ PageDue /\ PagesLeft
    /\ stored' = [f \in Fields |-> IF PageOf[f] = page THEN ram[f]
                                                       ELSE stored[f]]
    /\ page' = page + 1
    /\ eeprom' = 0
    /\ late' = late \ {page}
    /\ UNCHANGED <<ram, eepromwr, netok>>

WriteDone ==
    /\ PageDue /\ ~PagesLeft
    /\ eepromwr' = 0 /\ page' = 0 /\ eeprom' = 0
    /\ UNCHANGED <<ram, stored, netok, late>>

EEPROM_Write == WritePage \/ WriteDone

(* TIM3_IRQHandler.                                                        *)
Tick ==
    /\ eeprom < PageTicks
    /\ eeprom' = eeprom + 1
    /\ UNCHANGED <<ram, stored, eepromwr, page, netok, late>>

(* Loss of power and the next power-up, between any two pages.             *)
PowerCycle ==
    /\ ram' = stored
    /\ eepromwr' = 0 /\ page' = 0 /\ eeprom' = 0
    /\ netok' \in {0, 1}
    /\ late' = {}
    /\ UNCHANGED stored

Next ==
    \/ \E f \in Fields, v \in Values : SetParam(f, v)
    \/ OtherParam
    \/ FactoryReset
    \/ NetlinkUp
    \/ EEPROM_Write
    \/ Tick
    \/ PowerCycle

Spec == Init /\ [][Next]_vars

(* The main loop keeps calling EEPROM_Write and the interrupt keeps        *)
(* coming.                                                                 *)
FairSpec == Spec /\ WF_vars(EEPROM_Write) /\ WF_vars(Tick)

-----------------------------------------------------------------------------
(* Properties.                                                             *)

TypeOK ==
    /\ ram \in Config /\ stored \in Config
    /\ {eepromwr, netok} \subseteq {0, 1}
    /\ page \in 0..(LastPage + 1)
    /\ eeprom \in 0..PageTicks
    /\ late \subseteq Pages

(* A difference between the RAM and the EEPROM is either still going to be *)
(* written by the write under way, or is in a page that was changed behind *)
(* it or left out when it was stopped: a change that does not meet another *)
(* write, a reset or the cable is never lost.                              *)
OnlyLateChangesAreLost ==
    \A f \in Fields :
        stored[f] # ram[f] => \/ eepromwr = 1 /\ PageOf[f] >= page
                              \/ PageOf[f] \in late

(* A terminal that is not switched off finishes every write, however often *)
(* the management software starts it again.                                *)
WriteEnds ==
    (<>[][~PowerCycle]_vars) => []<>(eepromwr = 0)

=============================================================================
