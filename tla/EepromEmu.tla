------------------------------ MODULE EepromEmu ------------------------------
(***************************************************************************)
(* The EEPROM that ASF emulates in the SAMD21's flash (eeprom.c), as       *)
(* emu_eeprom.c uses it.  Flash is erased by rows of four pages and        *)
(* programmed by pages.  A row holds two logical pages, each perhaps in    *)
(* several versions, of which the right-most is the newest; when it is     *)
(* full the two are moved to the spare row and the full row is erased,     *)
(* the spare row of the next move.  A page written waits in a cache in RAM *)
(* until it is committed, and page_map, in RAM too, is found anew from the *)
(* headers at every power up.                                              *)
(*                                                                         *)
(* This module has the state and what each step does to it; the module     *)
(* that drives it, ConfigStore, puts a reset between any two.  Erasing a   *)
(* row and programming a page are each taken as done or not done.          *)
(***************************************************************************)
EXTENDS Settings   (* Data, the contents of a logical page, and Blank. *)

CONSTANT
  ROWS   (* Rows the fuses reserve, with the spare and the master row.     *)

ASSUME RowsAssumption == ROWS \in 3 .. 64

Rows == 0 .. ROWS - 1
RowPages == 0 .. 3                       (* NVMCTRL_ROW_PAGES *)
MASTER_ROW == ROWS - 1
EEPROM_INVALID_PAGE_NUMBER == 255
EEPROM_INVALID_ROW_NUMBER == 63
LogicalPages == 0 .. 2 * (ROWS - 2) - 1

(* struct _eeprom_page: the header's logical_page and the data. *)
Page == [lp : 0 .. EEPROM_INVALID_PAGE_NUMBER, data : Data]
Erased == [lp |-> EEPROM_INVALID_PAGE_NUMBER, data |-> Blank]
ErasedRow == [i \in RowPages |-> Erased]

VARIABLES
  flash,         (* The pages, row by row, but the master page's contents.  *)
  master,        (* The master page holds its key.                          *)
  page_map,      (* Where the newest version of each logical page is.       *)
  spare_row,
  cache,         (* The page written last ...                               *)
  cache_active   (* ... and that it is not committed yet.                   *)

nvmVars == <<flash, master>>
emuRamVars == <<page_map, spare_row, cache, cache_active>>

EmuInit ==
  /\ flash = [r \in Rows |-> ErasedRow]
  /\ master = FALSE

(* _eeprom_instance as a reset leaves it. *)
EmuRamCleared ==
  /\ page_map = [l \in LogicalPages |-> <<0, 0>>]
  /\ spare_row = 0
  /\ cache = [lp |-> 0, data |-> Blank]
  /\ cache_active = FALSE

-----------------------------------------------------------------------------
(* The master page is the last of the last row, and no data page.          *)
DataPages == {p \in Rows \X RowPages : p # <<MASTER_ROW, 3>>}

Before(p, q) == p[1] < q[1] \/ (p[1] = q[1] /\ p[2] < q[2])

(* _eeprom_emulator_is_full_row.  A row of which only the first page is    *)
(* programmed counts as full: its next two pages are erased alike.         *)
IsFullRow(row) == row[0].lp = row[2].lp \/ row[1].lp = row[2].lp

(* The new row of an interrupted move goes, whichever comes first.         *)
Invalid_other(f, i, j) == IF IsFullRow(f[i]) THEN j ELSE i

(* _eeprom_emulator_erase_invalid_page: of two rows with the same logical  *)
(* pages, which one goes.                                                  *)
Invalid(f, i, j) == IF IsFullRow(f[i]) THEN i ELSE j

(* _eeprom_emulator_check_logical_page, on the first page of each row.     *)
Twins(f) ==
  {p \in Rows \X Rows :
     /\ p[1] < p[2]
     /\ f[p[1]][0].lp = f[p[2]][0].lp
     /\ f[p[1]][0].lp # EEPROM_INVALID_PAGE_NUMBER}

CheckLogicalPage(f) ==
  [r \in Rows |-> IF \E p \in Twins(f) : Invalid(f, p[1], p[2]) = r
                  THEN ErasedRow ELSE f[r]]

(* _eeprom_emulator_update_page_mapping: the newest version of each        *)
(* logical page; one that is nowhere stays where it was.                   *)
Versions(f, l) == {p \in DataPages : f[p[1]][p[2]].lp = l}

(* The left-most version taken for the newest.                             *)
Newest_first(f, l) ==
  CHOOSE p \in Versions(f, l) :
    \A q \in Versions(f, l) : q = p \/ Before(p, q)

Newest(f, l) ==
  CHOOSE p \in Versions(f, l) :
    \A q \in Versions(f, l) : q = p \/ Before(q, p)

Mapped(f, map) ==
  [l \in LogicalPages |-> IF Versions(f, l) = {} THEN map[l] ELSE Newest(f, l)]

(* ... and the first row without data, which the next move will go to.     *)
SpareRows(f) ==
  {r \in Rows : \A i \in RowPages :
     <<r, i>> \in DataPages => f[r][i].lp = EEPROM_INVALID_PAGE_NUMBER}

SpareRow(f) ==
  IF SpareRows(f) = {} THEN EEPROM_INVALID_ROW_NUMBER
  ELSE CHOOSE r \in SpareRows(f) : \A q \in SpareRows(f) : r <= q

(* Row 0 taken for none.                                                   *)
Formatted_noRow0(f) == master /\ SpareRow(f) \notin {0, EEPROM_INVALID_ROW_NUMBER}

(* eeprom_emulator_init succeeds.                                          *)
Formatted(f) == master /\ SpareRow(f) # EEPROM_INVALID_ROW_NUMBER

(* eeprom_emulator_read_page *)
ReadPage(l) ==
  IF cache_active /\ cache.lp = l THEN cache.data
  ELSE flash[page_map[l][1]][page_map[l][2]].data

(* _eeprom_emulator_is_page_free_on_row: from the newest version on.       *)
FreePages(l) ==
  {i \in RowPages :
     /\ i >= page_map[l][2]
     /\ flash[page_map[l][1]][i].lp = EEPROM_INVALID_PAGE_NUMBER}

Programmed(f, p, page) == [f EXCEPT ![p[1]][p[2]] = page]

-----------------------------------------------------------------------------
(* _eeprom_emulator_format_memory and _create_master_page, one operation   *)
(* of the flash at a time: row 0 is erased, every other row erased and     *)
(* given two logical pages, the last one erased again and given the key.   *)
FormatSteps == 3 * (ROWS - 1) + 3

FormatStep(n) ==
  LET row  == (n + 2) \div 3
      step == (n + 2) % 3
  IN \/ n = 0 /\ flash' = [flash EXCEPT ![0] = ErasedRow] /\ UNCHANGED master
     \/ /\ n = FormatSteps - 2
        /\ flash' = [flash EXCEPT ![MASTER_ROW] = ErasedRow] /\ master' = FALSE
     \/ n = FormatSteps - 1 /\ master' = TRUE /\ UNCHANGED flash
     \/ /\ n \in 1 .. FormatSteps - 3 /\ step = 0
        /\ flash' = [flash EXCEPT ![row] = ErasedRow]
        /\ master' = IF row = MASTER_ROW THEN FALSE ELSE master
     \/ /\ n \in 1 .. FormatSteps - 3 /\ step # 0
        /\ flash' = Programmed(flash, <<row, step - 1>>,
                      [lp |-> 2 * (row - 1) + step - 1, data |-> Blank])
        /\ UNCHANGED master

(* eeprom_emulator_write_page, the row having a free page left.            *)
WriteInRow(l, d) ==
  /\ FreePages(l) # {}
  /\ cache' = [lp |-> l, data |-> d]
  /\ page_map' = [page_map EXCEPT ![l] =
                    <<@[1], CHOOSE i \in FreePages(l) :
                              \A k \in FreePages(l) : i <= k>>]
  /\ cache_active' = TRUE
  /\ UNCHANGED <<nvmVars, spare_row>>

(* _eeprom_emulator_move_data_to_spare.  page_trans[c]: the newest version *)
(* in the full row of the logical page in its c-th page ...                *)
PageTrans(row, c) ==
  LET same == {i \in {c, 2, 3} : flash[row][i].lp = flash[row][c].lp}
  IN flash[row][CHOOSE i \in same : \A k \in same : k <= i]

(* ... goes to the cache, with the new data if it is the one written.      *)
MoveToCache(row, c, l, d) ==
  LET old == PageTrans(row, c)
  IN /\ cache' = IF old.lp = l THEN [lp |-> l, data |-> d] ELSE old
     /\ page_map' = [page_map EXCEPT ![old.lp] = <<spare_row, c>>]
     /\ cache_active' = TRUE

(* eeprom_emulator_commit_page_buffer, what it programs.                   *)
CommitPage == flash' = Programmed(flash, page_map[cache.lp], cache)

(* The row moved is not erased.                                            *)
EraseMoved_kept(row) == spare_row' = row /\ UNCHANGED flash

(* The spare row is not the one erased.                                    *)
EraseMoved_sameSpare(row) ==
  /\ flash' = [flash EXCEPT ![row] = ErasedRow]
  /\ UNCHANGED spare_row

EraseMoved(row) ==
  /\ flash' = [flash EXCEPT ![row] = ErasedRow]
  /\ spare_row' = row
=============================================================================
