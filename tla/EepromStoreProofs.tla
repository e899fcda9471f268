------------------------- MODULE EepromStoreProofs -------------------------
(***************************************************************************)
(* What the background write of the configuration guarantees, for every    *)
(* selection of fields and every set of values.                            *)
(***************************************************************************)
EXTENDS EepromStore, TLAPS

(* The five pages of struct stEeprom hold all of its fields.               *)
LEMMA PageRange == \A f \in Fields : PageOf[f] \in Pages
  BY EepromAssumption DEF PageOf, Pages, LastPage

LEMMA TypeInit == Init => TypeOK
  BY EepromAssumption DEF Init, TypeOK, Config, Pages, LastPage

(* A change marks pages of the structure, and only those.                  *)
LEMMA ChangeType ==
  ASSUME TypeOK, NEW new \in Config, NEW what \in SUBSET Fields,
         Change(new, what)
  PROVE  ram' \in Config /\ eepromwr' \in {0, 1} /\ late' \subseteq Pages
<1>1. \A f \in what : PageOf[f] \in Pages
  BY PageRange
<1> QED
  BY <1>1 DEF Change, TypeOK

LEMMA TypeNext == TypeOK /\ [Next]_vars => TypeOK'
<1> SUFFICES ASSUME TypeOK, [Next]_vars PROVE TypeOK'
  OBVIOUS
<1>1. ASSUME NEW f \in Fields, NEW v \in Values, SetParam(f, v)
      PROVE  TypeOK'
  <2> DEFINE new == [g \in Fields |-> IF g = f THEN v
                                      ELSE IF g \in Cleared(f) THEN Zero
                                      ELSE ram[g]]
  <2>1. new \in Config
    BY DEF TypeOK, Config
  <2>2. {f} \cup Cleared(f) \in SUBSET Fields
    BY DEF Cleared
  <2>3. Change(new, {f} \cup Cleared(f))
    BY <1>1 DEF SetParam
  <2>4. ram' \in Config /\ eepromwr' \in {0, 1} /\ late' \subseteq Pages
    BY <2>1, <2>2, <2>3, ChangeType
  <2> QED
    BY <1>1, <2>4 DEF SetParam, TypeOK
<1>2. CASE FactoryReset
  <2>1. [f \in Fields |-> Factory] \in Config
    BY DEF Config
  <2>2. ram' \in Config /\ eepromwr' \in {0, 1} /\ late' \subseteq Pages
    BY <1>2, <2>1, ChangeType DEF FactoryReset
  <2> QED
    BY <1>2, <2>2 DEF FactoryReset, TypeOK
<1>3. CASE WritePage
  <2>1. stored' \in Config
    BY <1>3 DEF WritePage, TypeOK, Config
  <2> QED
    BY <1>3, <2>1, EepromAssumption
    DEF WritePage, PagesLeft, TypeOK, LastPage
<1>4. CASE NetlinkUp
  <2>1. late' \subseteq Pages
    BY <1>4 DEF NetlinkUp, TypeOK, Pages, LastPage
  <2> QED
    BY <1>4, <2>1 DEF NetlinkUp, TypeOK
<1>5. CASE OtherParam \/ WriteDone \/ PowerCycle
  <2>1. eeprom' \in 0..PageTicks /\ page' \in 0..(LastPage + 1)
    BY <1>5, EepromAssumption
    DEF OtherParam, WriteDone, PowerCycle, TypeOK, LastPage
  <2>2. late' \subseteq Pages
    BY <1>5 DEF OtherParam, WriteDone, PowerCycle, TypeOK
  <2> QED
    BY <1>5, <2>1, <2>2 DEF OtherParam, WriteDone, PowerCycle, TypeOK
<1>6. CASE Tick
  BY <1>6, EepromAssumption DEF Tick, TypeOK
<1>7. CASE UNCHANGED vars
  BY <1>7 DEF vars, TypeOK
<1> QED
  BY <1>1, <1>2, <1>3, <1>4, <1>5, <1>6, <1>7 DEF Next, EEPROM_Write

(* Every variable keeps to its set; in particular the page counter         *)
(* (writed_len, a static u8) stops behind the last page.                   *)
THEOREM TypeCorrect == Spec => []TypeOK
  BY TypeInit, TypeNext, PTL DEF Spec

-----------------------------------------------------------------------------
LEMMA LateInit == Init => OnlyLateChangesAreLost
  BY DEF Init, OnlyLateChangesAreLost

(* A change reaches the pages still to be written, or is noted as late.    *)
LEMMA LateChange ==
  ASSUME TypeOK, OnlyLateChangesAreLost, NEW new, NEW what \in SUBSET Fields,
         Change(new, what), stored' = stored, page' = page,
         \A f \in Fields \ what : new[f] = ram[f]
  PROVE  OnlyLateChangesAreLost'
<1> SUFFICES ASSUME NEW f \in Fields, stored'[f] # ram'[f]
             PROVE  (eepromwr' = 1 /\ PageOf[f] >= page') \/ PageOf[f] \in late'
  BY DEF OnlyLateChangesAreLost
<1>1. PageOf[f] \in Nat /\ page \in Nat
  BY PageRange DEF Pages, LastPage, TypeOK
<1>2. CASE f \in what
  BY <1>1, <1>2 DEF Change
<1>3. CASE f \notin what
  BY <1>1, <1>3 DEF Change, OnlyLateChangesAreLost
<1> QED
  BY <1>2, <1>3

LEMMA LateNext ==
  TypeOK /\ OnlyLateChangesAreLost /\ [Next]_vars => OnlyLateChangesAreLost'
<1> SUFFICES ASSUME TypeOK, OnlyLateChangesAreLost, [Next]_vars
             PROVE  OnlyLateChangesAreLost'
  OBVIOUS
<1>1. ASSUME NEW f \in Fields, NEW v \in Values, SetParam(f, v)
      PROVE  OnlyLateChangesAreLost'
  <2> DEFINE new == [g \in Fields |-> IF g = f THEN v
                                      ELSE IF g \in Cleared(f) THEN Zero
                                      ELSE ram[g]]
             what == {f} \cup Cleared(f)
  <2>1. what \in SUBSET Fields
    BY DEF Cleared
  <2>2. \A g \in Fields \ what : new[g] = ram[g]
    OBVIOUS
  <2>3. Change(new, what) /\ stored' = stored /\ page' = page
    BY <1>1 DEF SetParam
  <2> QED
    BY <2>1, <2>2, <2>3, LateChange
<1>2. CASE FactoryReset
  BY <1>2, LateChange DEF FactoryReset
<1>3. CASE WritePage
  <2> SUFFICES ASSUME NEW f \in Fields, stored'[f] # ram'[f]
               PROVE  \/ eepromwr' = 1 /\ PageOf[f] >= page'
                      \/ PageOf[f] \in late'
    BY DEF OnlyLateChangesAreLost
  <2>1. PageOf[f] \in Nat /\ page \in Nat
    BY PageRange DEF Pages, LastPage, TypeOK
  <2>2. PageOf[f] # page /\ stored'[f] = stored[f] /\ ram'[f] = ram[f]
    BY <1>3 DEF WritePage
  <2> QED
    BY <1>3, <2>1, <2>2 DEF WritePage, PageDue, OnlyLateChangesAreLost
<1>4. CASE WriteDone
  BY <1>4, PageRange
  DEF WriteDone, PagesLeft, OnlyLateChangesAreLost, Pages, LastPage, TypeOK
<1>5. CASE NetlinkUp
  BY <1>5, PageRange
  DEF NetlinkUp, OnlyLateChangesAreLost, Pages, LastPage, TypeOK
<1>6. CASE PowerCycle
  BY <1>6 DEF PowerCycle, OnlyLateChangesAreLost
<1>7. CASE OtherParam \/ Tick \/ UNCHANGED vars
  BY <1>7 DEF OtherParam, Tick, vars, OnlyLateChangesAreLost
<1> QED
  BY <1>1, <1>2, <1>3, <1>4, <1>5, <1>6, <1>7 DEF Next, EEPROM_Write

(* Whatever the order of changes, pages, resets, cables and power losses,  *)
(* the EEPROM differs from the RAM only where the write under way will     *)
(* still come, or where a change came behind an earlier one.               *)
THEOREM NothingElseIsLost == Spec => []OnlyLateChangesAreLost
<1>1. TypeOK /\ OnlyLateChangesAreLost /\ [Next]_vars
        => TypeOK' /\ OnlyLateChangesAreLost'
  BY TypeNext, LateNext
<1>2. Init => TypeOK /\ OnlyLateChangesAreLost
  BY TypeInit, LateInit
<1> QED
  BY <1>1, <1>2, PTL DEF Spec
=============================================================================
