---------------------------- MODULE SettingsStore ----------------------------
(***************************************************************************)
(* What the settings of a node promise its user: three entries that        *)
(* outlive resets.  loadEepromData (platC.c) reads them at power up and    *)
(* repairs what makes no sense, updateCfg checks a configuration, writes   *)
(* the entries one after the other, each as a whole, and acknowledges.     *)
(* A reset may come at any time, between two entries in particular.        *)
(* ConfigStore shows that the emulated EEPROM keeps this promise.          *)
(***************************************************************************)
EXTENDS Settings

VARIABLES
  stored,  (* What a power up would read.                                  *)
  ram,     (* g_controlData: the settings in force.                        *)
  phase,   (* "down" until they are loaded, "up", or "busy" with an update.*)
  job,     (* The configuration being written.                             *)
  next     (* The entry to write next.                                     *)

vars == <<stored, ram, phase, job, next>>

Init ==
  /\ stored = Blank
  /\ ram = Blank
  /\ phase = "down"
  /\ job = Blank
  /\ next = 0

Load ==
  /\ phase = "down"
  /\ phase' = "up"
  /\ ram' = Repaired(stored)
  /\ UNCHANGED <<stored, job, next>>

Accept(c) ==
  /\ phase = "up"
  /\ Accepts(c)
  /\ phase' = "busy"
  /\ job' = c
  /\ next' = 0
  /\ UNCHANGED <<stored, ram>>

Write ==
  /\ phase = "busy"
  /\ next \in Ids
  /\ stored' = [stored EXCEPT ![next] = job[next]]
  /\ next' = next + 1
  /\ UNCHANGED <<ram, phase, job>>

Finish ==
  /\ phase = "busy"
  /\ next \notin Ids
  /\ phase' = "up"
  /\ ram' = job
  /\ job' = Blank
  /\ next' = 0
  /\ UNCHANGED stored

Reset ==
  /\ phase' = "down"
  /\ ram' = Blank
  /\ job' = Blank
  /\ next' = 0
  /\ UNCHANGED stored

Next ==
  \/ Load
  \/ \E c \in Configs : Accept(c)
  \/ Write
  \/ Finish
  \/ Reset

Spec == Init /\ [][Next]_vars
=============================================================================
