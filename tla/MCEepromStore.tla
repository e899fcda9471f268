--------------------------- MODULE MCEepromStore ---------------------------
(* Instances of EepromStore for TLC.                                       *)
EXTENDS EepromStore

(* Fields on the first, a middle and the last page.                        *)
ThreePages == {"own_ip", "sv_ip", "spk_vol", "mic_vol"}
============================================================================
