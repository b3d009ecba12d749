----------------------------- MODULE ConfigStore -----------------------------
(***************************************************************************)
(* The settings of a node in its emulated EEPROM, with a reset between any *)
(* two operations of the flash: emu_eeprom.c over EepromEmu, driven by     *)
(* loadEepromData at power up and by updateCfg for each configuration the  *)
(* phone sends.  The three entries share the first logical page, so that   *)
(* writing one programs the page again with the other two in it.           *)
(***************************************************************************)
EXTENDS EepromEmu

VARIABLES
  pc,      (* Where the node is: what it does to the flash next.           *)
  fmt,     (* Steps of the formatting done.                                *)
  from,    (* row_number, the row being moved.                             *)
  buf,     (* The page with the entry replaced (write_buffer's buffer).    *)
  entry,   (* The entry being written.                                     *)
  job,     (* The configuration being written (e_cfg).                     *)
  ram,     (* g_controlData: the settings in force.                        *)
  told     (* The configuration last put in force and acknowledged.        *)

driver == <<pc, fmt, from, buf, entry, job>>
vars == <<nvmVars, emuRamVars, driver, ram, told>>

Page0 == 0
None == Blank      (* No phone sends it: a name makes sense. *)

Idle == pc' = "idle" /\ fmt' = 0 /\ from' = 0 /\ buf' = Blank
        /\ entry' = 0 /\ job' = Blank

Init ==
  /\ EmuInit
  /\ EmuRamCleared
  /\ pc = "boot" /\ fmt = 0 /\ from = 0 /\ buf = Blank /\ entry = 0
  /\ job = Blank
  /\ ram = Blank
  /\ told = None

(* eeprom_emulator_init: one row is erased if two hold the same pages,     *)
(* then the pages are mapped.                                              *)
Boot ==
  /\ pc = "boot"
  /\ flash' = CheckLogicalPage(flash)
  /\ page_map' = Mapped(flash', page_map)
  /\ spare_row' = SpareRow(flash')
  /\ pc' = IF Formatted(flash') THEN "load" ELSE "format"
  /\ UNCHANGED <<master, cache, cache_active, fmt, from, buf, entry, job, ram, told>>

(* emu_eeprom_init: memory that makes no sense is formatted, and           *)
(* initialised once more.                                                  *)
Format ==
  /\ pc = "format"
  /\ FormatStep(fmt)
  /\ fmt' = IF fmt + 1 = FormatSteps THEN 0 ELSE fmt + 1
  /\ pc' = IF fmt + 1 = FormatSteps THEN "boot" ELSE "format"
  /\ UNCHANGED <<emuRamVars, from, buf, entry, job, ram, told>>

LoadEeprom ==
  /\ pc = "load"
  /\ ram' = Repaired(ReadPage(Page0))
  /\ pc' = "idle"
  /\ UNCHANGED <<nvmVars, emuRamVars, fmt, from, buf, entry, job, told>>

(* updateCfg: a configuration that makes no sense changes nothing, ...     *)
(* another is written, entry by entry.                                     *)
UpdateCfg(c) ==
  /\ pc = "idle"
  /\ Accepts(c)
  /\ pc' = "write"
  /\ job' = c
  /\ entry' = 0
  /\ told' = None
  /\ UNCHANGED <<nvmVars, emuRamVars, fmt, from, buf, ram>>

(* eeprom_emulator_write_buffer and _write_page, up to the next operation  *)
(* of the flash.                                                           *)
WriteEntry ==
  LET d == [ReadPage(Page0) EXCEPT ![entry] = job[entry]]
  IN /\ pc = "write"
     /\ entry \in Ids
     /\ buf' = d
     /\ \/ /\ WriteInRow(Page0, d)
           /\ pc' = "commit"
           /\ UNCHANGED from
        \/ /\ FreePages(Page0) = {}
           /\ from' = page_map[Page0][1]
           /\ MoveToCache(from', 0, Page0, d)
           /\ pc' = "moveFirst"
           /\ UNCHANGED <<nvmVars, spare_row>>
     /\ UNCHANGED <<fmt, entry, job, ram, told>>

(* _eeprom_emulator_move_data_to_spare: the first page is programmed only  *)
(* when the second goes to the cache; ...                                  *)
MoveFirst ==
  /\ pc = "moveFirst"
  /\ CommitPage
  /\ MoveToCache(from, 1, Page0, buf)
  /\ pc' = "moveErase"
  /\ UNCHANGED <<master, spare_row, fmt, from, buf, entry, job, ram, told>>

(* ... the full row is erased with the second still there.                 *)
MoveErase ==
  /\ pc = "moveErase"
  /\ EraseMoved(from)
  /\ pc' = "moveSecond"
  /\ UNCHANGED <<master, page_map, cache, cache_active, fmt, from, buf, entry, job, ram, told>>

(* emu_eeprom_writeData commits what is in the cache.                      *)
Commit ==
  /\ pc \in {"commit", "moveSecond"}
  /\ CommitPage
  /\ cache_active' = FALSE
  /\ entry' = entry + 1
  /\ pc' = "write"
  /\ from' = 0
  /\ buf' = Blank
  /\ UNCHANGED <<master, page_map, spare_row, cache, fmt, job, ram, told>>

(* The three entries written, the settings are in force and acknowledged.  *)
Acknowledge ==
  /\ pc = "write"
  /\ entry \notin Ids
  /\ ram' = job
  /\ told' = job
  /\ Idle
  /\ UNCHANGED <<nvmVars, emuRamVars>>

Reset ==
  /\ page_map' = [l \in LogicalPages |-> <<0, 0>>]
  /\ spare_row' = 0
  /\ cache' = [lp |-> 0, data |-> Blank]
  /\ cache_active' = FALSE
  /\ pc' = "boot" /\ fmt' = 0 /\ from' = 0 /\ buf' = Blank /\ entry' = 0
  /\ job' = Blank
  /\ ram' = Blank
  /\ UNCHANGED <<nvmVars, told>>

Next ==
  \/ Boot \/ Format \/ LoadEeprom
  \/ \E c \in Configs : UpdateCfg(c)
  \/ WriteEntry \/ MoveFirst \/ MoveErase \/ Commit \/ Acknowledge
  \/ Reset

Spec == Init /\ [][Next]_vars

(* The node does not stop between two operations of the flash.             *)
OwnStep ==
  Boot \/ Format \/ LoadEeprom \/ WriteEntry \/ MoveFirst \/ MoveErase
    \/ Commit \/ Acknowledge

FairSpec == Spec /\ WF_vars(OwnStep)

-----------------------------------------------------------------------------
(* What a power up would read from the first logical page.                 *)
Recovered ==
  LET f == CheckLogicalPage(flash)
  IN IF ~Formatted(f) \/ Versions(f, Page0) = {} THEN Blank
     ELSE f[Newest(f, Page0)[1]][Newest(f, Page0)[2]].data

(* The step that makes an entry outlive a reset: the commit in the row,    *)
(* or, when the row moves, either the commit of its first page or the      *)
(* erasure, by which of the two rows comes first (see Invalid).            *)
EntryIsIn ==
  \/ pc = "moveSecond"
  \/ pc = "moveErase" /\ from < spare_row

Store == INSTANCE SettingsStore WITH
  stored <- Recovered,
  phase  <- IF pc \in {"boot", "format", "load"} THEN "down"
            ELSE IF pc = "idle" THEN "up" ELSE "busy",
  next   <- IF EntryIsIn THEN entry + 1 ELSE entry

(* The emulated EEPROM keeps the promise of the settings' users: every     *)
(* step of the flash either leaves what a power up reads alone or replaces *)
(* one entry of it as a whole, in the order of updateCfg, whichever reset  *)
(* comes between (updateCfg over eeprom.c and emu_eeprom.c).               *)
ImplementsSettings == Store!Spec

(* A configuration put in force and acknowledged is what every later power *)
(* up reads, until another is accepted, whatever resets come between       *)
(* (updateCfg, line 695, and eeprom_emulator_init).                        *)
AckedSurvives ==
  told # None => Recovered = told /\ (pc = "idle" => ram = told)

(* The row the next move goes to is erased and is not the master's, and at *)
(* most two rows claim the same logical pages: the recovery of eeprom.c    *)
(* (check_logical_page) assumes that one erasure settles it.               *)
SpareIsErased ==
  /\ pc \in {"load", "idle", "write", "commit", "moveFirst"} =>
       spare_row \in Rows \ {MASTER_ROW} /\ flash[spare_row] = ErasedRow
  /\ \A p, q \in Twins(flash) : p = q

(* Flash is programmed by clearing bits: a page is written only when it is *)
(* erased, through moves, resets and formatting alike (commit_page_buffer, *)
(* format_memory and move_data_to_spare).                                  *)
NeverOverwrites ==
  [][\A r \in Rows : \A i \in RowPages :
       flash'[r][i] # flash[r][i] =>
         flash[r][i] = Erased \/ flash'[r] = ErasedRow]_vars

(* Once resets stop the node comes up, from whatever the last one left in  *)
(* the flash: formatting succeeds and is not entered again (emu_eeprom_init *)
(* initialises only twice), and an update ends.                            *)
Recovers == <>[][~Reset]_vars => []<>(pc = "idle")
=============================================================================
