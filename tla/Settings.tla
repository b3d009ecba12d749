------------------------------- MODULE Settings -------------------------------
(***************************************************************************)
(* The settings of a node: three entries, what a phone may send for each,  *)
(* and the two checks of platC.c on them.                                  *)
(***************************************************************************)
EXTENDS Naturals

CONSTANTS
  Sane,    (* Of each entry, the values its sanity check lets pass.         *)
  Sent,    (* Of each entry, the values a phone sends.                      *)
  Default, (* Of each entry, the value in place of one that makes no sense. *)
  ERASED   (* Of each entry, what erased memory reads as: bytes of 0xFF.    *)

(* emu_eeprom_id_t, in the order of updateCfg's writes.                    *)
Ids == 0 .. 2
EMU_EEPROM_MOTION_THRESHOLD == 0
EMU_EEPROM_ADVERTISE_NAME   == 1
EMU_EEPROM_BUZZER_ENABLED   == 2

Value(id) == Sane[id] \cup Sent[id] \cup {ERASED}
Data == [Ids -> UNION {Value(id) : id \in Ids}]
Configs == {c \in Data : \A id \in Ids : c[id] \in Sent[id]}

ASSUME SettingsAssumption ==
  /\ \A id \in Ids : Default[id] \in Sane[id] /\ ERASED \notin Sane[id]
  /\ Sent[EMU_EEPROM_ADVERTISE_NAME] \subseteq Sane[EMU_EEPROM_ADVERTISE_NAME]

Blank == [id \in Ids |-> ERASED]

(* "Check values sanity" of updateCfg: the name is taken as it is.         *)
Accepts(c) ==
  /\ c[EMU_EEPROM_MOTION_THRESHOLD] \in Sane[EMU_EEPROM_MOTION_THRESHOLD]
  /\ c[EMU_EEPROM_BUZZER_ENABLED] \in Sane[EMU_EEPROM_BUZZER_ENABLED]

(* "Check eeprom data sanity" of loadEepromData.                           *)
Repaired(d) ==
  [id \in Ids |-> IF d[id] \in Sane[id] THEN d[id] ELSE Default[id]]
=============================================================================
