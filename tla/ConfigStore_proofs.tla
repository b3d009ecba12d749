------------------------- MODULE ConfigStore_proofs -------------------------
(***************************************************************************)
(* Proofs about ConfigStore, for an emulated EEPROM of every size and      *)
(* settings of every kind: the flash is only ever programmed where it is   *)
(* erased, there is always a row to move to, a configuration acknowledged  *)
(* outlives every reset, and the settings are those of SettingsStore.      *)
(***************************************************************************)
EXTENDS ConfigStore, TLAPS

USE RowsAssumption, SettingsAssumption

-----------------------------------------------------------------------------
(* What the flash looks like.  The settings share logical page 0, the only *)
(* one written: so rows 0 and 1 take turns in holding it and being spare,  *)
(* and the others stay as they were formatted.                             *)

First(r) == [lp |-> 2 * (r - 1), data |-> Blank]
Second(r) == [lp |-> 2 * (r - 1) + 1, data |-> Blank]

FormattedRow(r) ==
  [i \in RowPages |-> IF i = 0 THEN First(r) ELSE IF i = 1 THEN Second(r) ELSE Erased]

FlashType == [Rows -> [RowPages -> Page]]

Others(f) ==
  /\ f \in FlashType
  /\ \A r \in Rows \ {0, 1, MASTER_ROW} : f[r] = FormattedRow(r)
  /\ f[MASTER_ROW] = ErasedRow

(* The row in use: versions of page 0, from left to right.  Logical page 1 *)
(* is the second page, unless a reset in the middle of a move has lost it. *)
DataRow(row) ==
  /\ row \in [RowPages -> Page]
  /\ row[0].lp = 0
  /\ row[1].lp \in {0, 1} \/ (row[1] = Erased /\ row[2] = Erased)
  /\ row[2].lp = 0 \/ (row[2] = Erased /\ row[3] = Erased)
  /\ row[3].lp = 0 \/ row[3] = Erased

Last(row) == IF row[3].lp = 0 THEN 3 ELSE IF row[2].lp = 0 THEN 2
             ELSE IF row[1].lp = 0 THEN 1 ELSE 0

HalfRow(row) ==
  /\ row \in [RowPages -> Page]
  /\ row[0].lp = 0
  /\ \A i \in {1, 2, 3} : row[i] = Erased

(* Row d is in use and the other one erased; or the other one has the      *)
(* first page of a move.                                                   *)
Tidy(f, d) ==
  d \in {0, 1} /\ Others(f) /\ DataRow(f[d]) /\ f[1 - d] = ErasedRow
Torn(f, d) ==
  d \in {0, 1} /\ Others(f) /\ DataRow(f[d]) /\ f[d][3].lp = 0 /\ HalfRow(f[1 - d])

(* A flash being formatted, or left in the middle of it by a reset.        *)
Partial(f) ==
  /\ f \in FlashType
  /\ f[0] = ErasedRow
  /\ \A r \in Rows \ {0} :
       /\ f[r][0] \in {Erased, First(r)}
       /\ f[r][1] \in {Erased, Second(r)}
       /\ f[r][2] = Erased /\ f[r][3] = Erased

-----------------------------------------------------------------------------
(* The inductive invariant *)

Types ==
  /\ flash \in FlashType
  /\ master \in BOOLEAN
  /\ DOMAIN page_map = LogicalPages
  /\ pc \in {"boot", "format", "load", "idle", "write",
             "commit", "moveFirst", "moveErase", "moveSecond"}
  /\ fmt \in 0 .. FormatSteps - 1
  /\ entry \in 0 .. 3
  /\ buf \in Data /\ job \in Data /\ ram \in Data /\ told \in Data

(* The row with the data, but for a moment of a move.                      *)
home == 1 - spare_row

(* Before the first formatting ends, and how far it is.                    *)
Fresh == ~master => pc \in {"boot", "format"} /\ told = None /\ Partial(flash)

Formatting ==
  /\ pc # "format" => fmt = 0
  /\ pc = "format" =>
       /\ ~master
       /\ \A r \in Rows \ {0} :
            /\ fmt > 3 * r /\ r # MASTER_ROW => flash[r] = FormattedRow(r)
            /\ fmt = 3 * r - 1 => flash[r] = ErasedRow
            /\ fmt = 3 * r => flash[r][0] = First(r) /\ flash[r][1] = Erased
       /\ fmt = FormatSteps - 1 => flash[MASTER_ROW] = ErasedRow

Booting ==
  master /\ pc = "boot" => \E d \in {0, 1} : Tidy(flash, d) \/ Torn(flash, d)

Spare ==
  pc \notin {"boot", "format"} => spare_row \in {0, 1}

Running ==
  pc \in {"load", "idle", "write"} =>
    /\ Tidy(flash, home)
    /\ page_map[Page0] = <<home, Last(flash[home])>>
    /\ cache_active = FALSE

(* What waits in the cache goes to the page after the last one.            *)
Committing ==
  pc = "commit" =>
    /\ Tidy(flash, home)
    /\ cache = [lp |-> Page0, data |-> buf]
    /\ \E i \in {1, 2, 3} : /\ page_map[Page0] = <<home, i>>
                            /\ flash[home][i] = Erased
                            /\ flash[home][i - 1] # Erased

Moving ==
  /\ pc = "moveFirst" =>
       /\ Tidy(flash, home) /\ flash[home][3].lp = 0
       /\ from = home
       /\ page_map[Page0] = <<spare_row, 0>>
       /\ cache = [lp |-> Page0, data |-> buf]
  /\ pc = "moveErase" =>
       /\ Torn(flash, home)
       /\ from = home
       /\ flash[spare_row][0].data = buf
  /\ pc = "moveSecond" =>
       /\ Tidy(flash, home) /\ HalfRow(flash[home])
       /\ flash[home][0].data = buf
  /\ pc \in {"moveErase", "moveSecond"} =>
       LET to == IF pc = "moveErase" THEN spare_row ELSE home
       IN /\ cache \in Page /\ cache.lp \in {0, 1}
          /\ cache.lp = 0 => cache.data = buf
          /\ page_map[cache.lp] = <<to, 1>>
          /\ page_map[Page0] = <<to, IF cache.lp = 0 THEN 1 ELSE 0>>

(* The entries written so far, and the one at hand.                        *)
Busy == {"write", "commit", "moveFirst", "moveErase", "moveSecond"}

Writing ==
  /\ pc \in Busy =>
       /\ told = None
       /\ \A id \in Ids : /\ job[id] \in Sane[id]
                          /\ id < entry => Recovered[id] = job[id]
  /\ pc \in Busy \ {"write"} =>
       /\ entry \in Ids
       /\ buf = [Recovered EXCEPT ![entry] = job[entry]]
       /\ EntryIsIn => Recovered = buf

Told ==
  told # None =>
    /\ Recovered = told
    /\ \A id \in Ids : told[id] \in Sane[id]
    /\ pc = "idle" => ram = told

Resting == pc \notin Busy => entry = 0 /\ job = Blank /\ cache_active = FALSE

IInv ==
  Types /\ Fresh /\ Formatting /\ Booting /\ Spare /\ Running /\ Committing
    /\ Moving /\ Writing /\ Told /\ Resting

-----------------------------------------------------------------------------
(* Pages and rows *)

LEMMA RowNumbers ==
  /\ ROWS \in Nat /\ ROWS >= 3 /\ ROWS <= 64
  /\ MASTER_ROW \in Rows /\ MASTER_ROW >= 2 /\ MASTER_ROW \in Nat
  /\ 0 \in Rows /\ 1 \in Rows /\ Rows \subseteq Nat
  /\ \A r \in Rows : r \in Nat /\ r <= MASTER_ROW
  /\ Page0 = 0 /\ 0 \in LogicalPages /\ 1 \in LogicalPages
  /\ RowPages = {0, 1, 2, 3}
  BY DEF Rows, MASTER_ROW, LogicalPages, RowPages, Page0

LEMMA PageTypes ==
  /\ Ids = {0, 1, 2}
  /\ Blank \in Data
  /\ Erased \in Page /\ Erased.lp = 255 /\ Erased.data = Blank
  /\ ErasedRow \in [RowPages -> Page]
  /\ \A i \in RowPages : ErasedRow[i] = Erased
  <1>1. Ids = {0, 1, 2}
    BY DEF Ids
  <1>2. Blank \in Data
    BY DEF Blank, Data, Value
  <1>3. Erased \in Page /\ Erased.lp = 255 /\ Erased.data = Blank
    BY <1>2 DEF Erased, Page, EEPROM_INVALID_PAGE_NUMBER
  <1> QED BY <1>1, <1>2, <1>3 DEF ErasedRow

LEMMA FormattedTypes ==
  ASSUME NEW r \in Rows \ {0}
  PROVE  /\ First(r) \in Page /\ Second(r) \in Page
         /\ First(r).lp = 2 * (r - 1) /\ First(r).lp # 255
         /\ Second(r).lp = 2 * (r - 1) + 1 /\ Second(r).lp # 255
         /\ First(r).data = Blank /\ First(r) # Erased /\ Second(r) # Erased
         /\ FormattedRow(r) \in [RowPages -> Page]
         /\ FormattedRow(r)[0] = First(r) /\ FormattedRow(r)[1] = Second(r)
         /\ FormattedRow(r)[2] = Erased /\ FormattedRow(r)[3] = Erased
  <1>1. r \in Nat /\ r >= 1 /\ r <= 63
    BY RowNumbers DEF MASTER_ROW
  <1>2. 2 * (r - 1) \in 0 .. 124
    BY <1>1
  <1>3. First(r) \in Page /\ Second(r) \in Page
    BY <1>2, PageTypes DEF First, Second, Page, EEPROM_INVALID_PAGE_NUMBER
  <1>4. /\ First(r).lp = 2 * (r - 1) /\ First(r).lp # 255
        /\ Second(r).lp = 2 * (r - 1) + 1 /\ Second(r).lp # 255
        /\ First(r).data = Blank
    BY <1>2 DEF First, Second
  <1>5. First(r) # Erased /\ Second(r) # Erased
    BY <1>4, PageTypes
  <1> QED BY <1>3, <1>4, <1>5, PageTypes, RowNumbers DEF FormattedRow

\* A row is what its four pages are.
LEMMA SameRow ==
  ASSUME NEW p \in [RowPages -> Page], NEW q \in [RowPages -> Page],
         p[0] = q[0], p[1] = q[1], p[2] = q[2], p[3] = q[3]
  PROVE  p = q
  <1>1. \A i \in RowPages : p[i] = q[i]
    BY RowNumbers
  <1> QED BY <1>1

\* The first pages of the rows of a tidy flash name different pages.
LEMMA OtherRows ==
  ASSUME NEW f, Others(f), NEW r \in Rows, r \notin {0, 1}
  PROVE  /\ f[r][0].lp # 0 /\ f[r][1].lp # 0 /\ f[r][2].lp # 0
         /\ r # MASTER_ROW => /\ f[r][0].lp = 2 * (r - 1)
                              /\ f[r][0].lp # EEPROM_INVALID_PAGE_NUMBER
         /\ r # MASTER_ROW => f[r][3].lp # 0
         /\ r = MASTER_ROW => /\ f[r][0].lp = EEPROM_INVALID_PAGE_NUMBER
                              /\ f[r][3].lp # 0
  <1>1. CASE r = MASTER_ROW
    <2>1. f[r] = ErasedRow
      BY <1>1 DEF Others
    <2> QED BY <1>1, <2>1, PageTypes, RowNumbers DEF EEPROM_INVALID_PAGE_NUMBER
  <1>2. CASE r # MASTER_ROW
    <2>1. f[r] = FormattedRow(r) /\ r \in Rows \ {0} /\ r \in Nat /\ r >= 2
      BY <1>2, RowNumbers DEF Others
    <2>2. 2 * (r - 1) # 0 /\ 2 * (r - 1) + 1 # 0
      BY <2>1
    <2> QED BY <1>2, <2>1, <2>2, FormattedTypes, PageTypes DEF EEPROM_INVALID_PAGE_NUMBER
  <1> QED BY <1>1, <1>2

LEMMA TidyTwins ==
  ASSUME NEW f, NEW d, Tidy(f, d)
  PROVE  Twins(f) = {}
  <1> SUFFICES ASSUME NEW p \in Rows, NEW q \in Rows, p < q, f[p][0].lp = f[q][0].lp,
                      f[p][0].lp # EEPROM_INVALID_PAGE_NUMBER
               PROVE  FALSE
    BY DEF Twins
  <1>1. Others(f) /\ d \in {0, 1} /\ f[d][0].lp = 0
        /\ f[1 - d][0].lp = EEPROM_INVALID_PAGE_NUMBER
    BY PageTypes, RowNumbers DEF Tidy, DataRow, EEPROM_INVALID_PAGE_NUMBER
  <1>2. p \in Nat /\ q \in Nat
    BY RowNumbers
  <1>3. q \in {0, 1} => FALSE
    BY <1>1, <1>2 DEF EEPROM_INVALID_PAGE_NUMBER
  <1>4. q # MASTER_ROW
    BY <1>1, <1>3, OtherRows
  <1>5. f[q][0].lp = 2 * (q - 1) /\ f[q][0].lp # 0
    BY <1>1, <1>3, <1>4, OtherRows
  <1>6. p \notin {0, 1}
    BY <1>1, <1>5 DEF EEPROM_INVALID_PAGE_NUMBER
  <1>7. p # MASTER_ROW /\ f[p][0].lp = 2 * (p - 1)
    BY <1>1, <1>6, OtherRows
  <1> QED BY <1>2, <1>5, <1>7

LEMMA TornTwins ==
  ASSUME NEW f, NEW d, Torn(f, d)
  PROVE  Twins(f) = {<<0, 1>>}
  <1>1. Others(f) /\ f[0][0].lp = 0 /\ f[1][0].lp = 0
    BY DEF Torn, DataRow, HalfRow
  <1>2. ASSUME NEW p \in Rows, NEW q \in Rows, p < q, f[p][0].lp = f[q][0].lp,
               f[p][0].lp # EEPROM_INVALID_PAGE_NUMBER
        PROVE  p = 0 /\ q = 1
    <2>1. p \in Nat /\ q \in Nat
      BY RowNumbers
    <2>2. CASE q \in {0, 1}
      BY <1>2, <2>1, <2>2
    <2>3. CASE q \notin {0, 1}
      <3>1. q # MASTER_ROW
        BY <1>1, <1>2, <2>3, OtherRows
      <3>2. f[q][0].lp = 2 * (q - 1) /\ f[q][0].lp # 0
        BY <1>1, <2>3, <3>1, OtherRows
      <3>3. p \notin {0, 1}
        BY <1>1, <1>2, <3>2
      <3>4. f[p][0].lp = 2 * (p - 1)
        BY <1>1, <1>2, <3>3, OtherRows
      <3> QED BY <1>2, <2>1, <3>2, <3>4
    <2> QED BY <2>2, <2>3
  <1>3. <<0, 1>> \in Rows \X Rows /\ 0 # EEPROM_INVALID_PAGE_NUMBER
    BY RowNumbers DEF EEPROM_INVALID_PAGE_NUMBER
  <1>4. \A p \in Twins(f) : p = <<0, 1>>
    <2> TAKE p \in Twins(f)
    <2>1. p \in Rows \X Rows /\ p = <<p[1], p[2]>>
      BY DEF Twins
    <2> QED BY <1>2, <2>1 DEF Twins
  <1>5. <<0, 1>> \in Twins(f)
    BY <1>1, <1>3 DEF Twins
  <1> QED BY <1>4, <1>5

\* check_logical_page leaves a tidy flash alone, and tidies one that is torn:
\* of the two rows, both full, the first one goes.
LEMMA TidyChecked ==
  ASSUME NEW f, NEW d, Tidy(f, d)
  PROVE  CheckLogicalPage(f) = f
  <1>1. f \in FlashType /\ Twins(f) = {}
    BY TidyTwins DEF Tidy, Others
  <1> QED BY <1>1 DEF CheckLogicalPage, FlashType

LEMMA TornChecked ==
  ASSUME NEW f, NEW d, Torn(f, d)
  PROVE  /\ Tidy(CheckLogicalPage(f), 1)
         /\ CheckLogicalPage(f) = [f EXCEPT ![0] = ErasedRow]
  <1> DEFINE g == CheckLogicalPage(f)
  <1>1. f \in FlashType /\ Twins(f) = {<<0, 1>>} /\ d \in {0, 1}
    BY TornTwins DEF Torn, Others
  <1>2. IsFullRow(f[0])
    <2>1. CASE d = 0
      BY <2>1 DEF Torn, DataRow, IsFullRow, Erased
    <2>2. CASE d = 1
      <3>1. HalfRow(f[0])
        BY <2>2 DEF Torn
      <3> QED BY <3>1 DEF HalfRow, IsFullRow
    <2> QED BY <1>1, <2>1, <2>2
  <1>3. Invalid(f, 0, 1) = 0
    BY <1>2 DEF Invalid
  <1>4. g = [r \in Rows |-> IF r = 0 THEN ErasedRow ELSE f[r]]
    BY <1>1, <1>3 DEF CheckLogicalPage
  <1>5. /\ g = [f EXCEPT ![0] = ErasedRow] /\ g \in FlashType
        /\ g[0] = ErasedRow /\ \A r \in Rows \ {0} : g[r] = f[r]
    <2>1. g[0] = ErasedRow /\ \A r \in Rows \ {0} : g[r] = f[r]
      BY <1>4, RowNumbers
    <2>2. \A r \in Rows : g[r] \in [RowPages -> Page]
      BY <1>1, <2>1, PageTypes DEF FlashType
    <2>3. g = [f EXCEPT ![0] = ErasedRow]
      <3>1. f = [r \in Rows |-> f[r]]
        BY <1>1 DEF FlashType
      <3> QED BY <1>4, <3>1
    <2>4. g \in FlashType
      BY <1>4, <2>2 DEF FlashType
    <2> QED BY <2>1, <2>3, <2>4
  <1> HIDE DEF g
  <1>6. Others(g)
    BY <1>5, RowNumbers DEF Torn, Others
  <1>7. DataRow(g[1])
    <2>1. g[1] = f[1]
      BY <1>5, RowNumbers
    <2>2. CASE d = 0
      <3>1. HalfRow(f[1])
        BY <2>2 DEF Torn
      <3> QED BY <2>1, <3>1 DEF HalfRow, DataRow
    <2>3. CASE d = 1
      BY <2>1, <2>3 DEF Torn
    <2> QED BY <1>1, <2>2, <2>3
  <1> QED BY <1>5, <1>6, <1>7 DEF Tidy, g

\* A flash that is being formatted has no twins either.
LEMMA PartialChecked ==
  ASSUME NEW f, Partial(f)
  PROVE  Twins(f) = {} /\ CheckLogicalPage(f) = f
  <1>1. \A r \in Rows : \/ f[r][0].lp = EEPROM_INVALID_PAGE_NUMBER
                        \/ r # 0 /\ f[r][0].lp = 2 * (r - 1)
    <2> TAKE r \in Rows
    <2>1. CASE r = 0
      BY <2>1, PageTypes, RowNumbers DEF Partial, EEPROM_INVALID_PAGE_NUMBER
    <2>2. CASE r # 0
      BY <2>2, PageTypes, FormattedTypes DEF Partial, EEPROM_INVALID_PAGE_NUMBER
    <2> QED BY <2>1, <2>2
  <1>2. Twins(f) = {}
    <2> SUFFICES ASSUME NEW p \in Rows, NEW q \in Rows, p < q, f[p][0].lp = f[q][0].lp,
                        f[p][0].lp # EEPROM_INVALID_PAGE_NUMBER
                 PROVE  FALSE
      BY DEF Twins
    <2>1. p \in Nat /\ q \in Nat
      BY RowNumbers
    <2>2. f[p][0].lp = 2 * (p - 1)
      BY <1>1
    <2>3. f[q][0].lp = 2 * (q - 1)
      BY <1>1
    <2>4. 2 * (p - 1) = 2 * (q - 1) /\ p < q
      BY <2>2, <2>3
    <2> QED BY <2>1, <2>4
  <1>3. f = [r \in Rows |-> f[r]]
    BY DEF Partial, FlashType
  <1> QED BY <1>2, <1>3 DEF CheckLogicalPage

-----------------------------------------------------------------------------
(* What a power up makes of it *)

LEMMA TidySpare ==
  ASSUME NEW f, NEW d, Tidy(f, d)
  PROVE  SpareRow(f) = 1 - d /\ 1 - d # EEPROM_INVALID_ROW_NUMBER
  <1>1. d \in {0, 1} /\ 1 - d \in {0, 1} /\ 1 - d \in Rows
        /\ Others(f) /\ f[d][0].lp = 0 /\ f[1 - d] = ErasedRow
    BY RowNumbers DEF Tidy, DataRow
  <1>2. 1 - d \in SpareRows(f)
    BY <1>1, PageTypes DEF SpareRows, EEPROM_INVALID_PAGE_NUMBER
  <1>3. \A r \in SpareRows(f) : 1 - d <= r
    <2> TAKE r \in SpareRows(f)
    <2>1. r \in Rows /\ r \in Nat
      BY RowNumbers DEF SpareRows
    <2>2. <<r, 0>> \in DataPages
      BY <2>1, RowNumbers DEF DataPages
    <2>3. f[r][0].lp = EEPROM_INVALID_PAGE_NUMBER
      BY <2>2, RowNumbers DEF SpareRows
    <2>4. r # d
      BY <1>1, <2>3 DEF EEPROM_INVALID_PAGE_NUMBER
    <2> QED BY <1>1, <2>1, <2>4
  <1>4. \A r \in SpareRows(f) : r \in Nat
    BY RowNumbers DEF SpareRows
  <1>5. \A r \in SpareRows(f) : (\A q \in SpareRows(f) : r <= q) => r = 1 - d
    <2> TAKE r \in SpareRows(f)
    <2> HAVE \A q \in SpareRows(f) : r <= q
    <2>1. r <= 1 - d /\ 1 - d <= r /\ r \in Nat
      BY <1>2, <1>3, <1>4
    <2> QED BY <1>1, <2>1
  <1>6. SpareRow(f) = CHOOSE r \in SpareRows(f) : \A q \in SpareRows(f) : r <= q
    BY <1>2 DEF SpareRow
  <1>7. SpareRow(f) = 1 - d
    BY <1>2, <1>3, <1>5, <1>6
  <1> QED BY <1>1, <1>7 DEF EEPROM_INVALID_ROW_NUMBER

\* The last version in the row, from its pages.
LEMMA LastIs ==
  ASSUME NEW row, DataRow(row)
  PROVE  /\ Last(row) \in RowPages /\ row[Last(row)].lp = 0
         /\ \A i \in RowPages : row[i].lp = 0 => i <= Last(row)
  BY RowNumbers DEF Last, DataRow

LEMMA TidyNewest ==
  ASSUME NEW f, NEW d, Tidy(f, d)
  PROVE  Versions(f, Page0) # {} /\ Newest(f, Page0) = <<d, Last(f[d])>>
  <1> DEFINE w == <<d, Last(f[d])>>
  <1>1. d \in {0, 1} /\ d \in Rows /\ d # MASTER_ROW
        /\ Others(f) /\ DataRow(f[d]) /\ f[1 - d] = ErasedRow
    BY RowNumbers DEF Tidy
  <1>2. Last(f[d]) \in RowPages /\ f[d][Last(f[d])].lp = 0
        /\ \A i \in RowPages : f[d][i].lp = 0 => i <= Last(f[d])
    BY <1>1, LastIs
  <1>3. w \in Versions(f, Page0)
    BY <1>1, <1>2 DEF Versions, DataPages, Page0
  <1>4. \A p \in Versions(f, Page0) :
          p = <<p[1], p[2]>> /\ p[1] = d /\ p[2] \in RowPages /\ p[2] <= Last(f[d])
    <2> TAKE p \in Versions(f, Page0)
    <2>1. p = <<p[1], p[2]>> /\ p[1] \in Rows /\ p[2] \in RowPages
          /\ f[p[1]][p[2]].lp = 0
      BY DEF Versions, DataPages, Page0
    <2>2. p[2] \in {0, 1, 2, 3}
      BY <2>1, RowNumbers
    <2>3. p[1] # 1 - d
      BY <1>1, <2>1, PageTypes
    <2>4. p[1] \in {0, 1}
      BY <1>1, <2>1, <2>2, OtherRows
    <2>5. p[1] = d
      BY <1>1, <2>3, <2>4
    <2> QED BY <1>2, <2>1, <2>5
  <1>5. \A p \in Versions(f, Page0) : p = w \/ Before(p, w)
    BY <1>2, <1>4, RowNumbers DEF Before
  <1>6. \A p \in Versions(f, Page0) :
          (\A q \in Versions(f, Page0) : q = p \/ Before(q, p)) => p = w
    <2> TAKE p \in Versions(f, Page0)
    <2> HAVE \A q \in Versions(f, Page0) : q = p \/ Before(q, p)
    <2>1. w = p \/ Before(w, p)
      BY <1>3
    <2> QED BY <1>1, <1>2, <1>4, <2>1, RowNumbers DEF Before
  <1>7. Newest(f, Page0) = w
    BY <1>3, <1>5, <1>6 DEF Newest
  <1> QED BY <1>3, <1>7

LEMMA TidyMapped ==
  ASSUME NEW f, NEW d, NEW map, Tidy(f, d)
  PROVE  DOMAIN Mapped(f, map) = LogicalPages /\ Mapped(f, map)[Page0] = <<d, Last(f[d])>>
  BY TidyNewest, RowNumbers DEF Mapped

\* A power up reads the last version there is, if the key is in the master
\* page: of two rows with the page the second one counts.
LEMMA PowerUp ==
  /\ ~master => Recovered = Blank
  /\ \A d : master /\ Tidy(flash, d) => Recovered = flash[d][Last(flash[d])].data
  /\ \A d : master /\ Torn(flash, d) => Recovered = flash[1][Last(flash[1])].data
  <1>1. ~master => Recovered = Blank
    BY DEF Recovered, Formatted
  <1>2. ASSUME NEW g, NEW d, master, Tidy(g, d), CheckLogicalPage(flash) = g
        PROVE  Recovered = g[d][Last(g[d])].data
    <2>1. Newest(g, Page0)[1] = d /\ Newest(g, Page0)[2] = Last(g[d])
      BY <1>2, TidyNewest
    <2>2. Versions(g, Page0) # {} /\ SpareRow(g) # EEPROM_INVALID_ROW_NUMBER
      BY <1>2, TidyNewest, TidySpare
    <2> QED BY <1>2, <2>1, <2>2 DEF Recovered, Formatted
  <1>3. ASSUME NEW d, master, Tidy(flash, d)
        PROVE  Recovered = flash[d][Last(flash[d])].data
    BY <1>2, <1>3, TidyChecked
  <1>4. ASSUME NEW d, master, Torn(flash, d)
        PROVE  Recovered = flash[1][Last(flash[1])].data
    <2>1. /\ Tidy(CheckLogicalPage(flash), 1)
          /\ CheckLogicalPage(flash) = [flash EXCEPT ![0] = ErasedRow]
      BY <1>4, TornChecked
    <2>2. [flash EXCEPT ![0] = ErasedRow][1] = flash[1]
      BY <1>4, RowNumbers DEF Torn, Others, FlashType
    <2>3. Recovered = CheckLogicalPage(flash)[1][Last(CheckLogicalPage(flash)[1])].data
      BY <1>2, <1>4, <2>1
    <2> QED BY <2>1, <2>2, <2>3
  <1> QED BY <1>1, <1>3, <1>4

LEMMA NextPowerUp ==
  (/\ ~master => Recovered = Blank
   /\ \A d : master /\ Tidy(flash, d) => Recovered = flash[d][Last(flash[d])].data
   /\ \A d : master /\ Torn(flash, d) => Recovered = flash[1][Last(flash[1])].data)'
  BY PowerUp, PTL

LEMMA SameFlash == UNCHANGED nvmVars => Recovered' = Recovered
  BY DEF nvmVars, Recovered, Formatted

-----------------------------------------------------------------------------
(* What the operations of the flash leave *)

\* g is f with x in page i of row r, and with row r erased.
Puts(g, f, r, i, x) ==
  /\ g \in FlashType
  /\ \A q \in Rows \ {r} : g[q] = f[q]
  /\ g[r][i] = x
  /\ \A k \in RowPages \ {i} : g[r][k] = f[r][k]

Clears(g, f, r) ==
  g \in FlashType /\ g[r] = ErasedRow /\ \A q \in Rows \ {r} : g[q] = f[q]

LEMMA ProgramRow ==
  ASSUME NEW f \in FlashType, NEW p \in Rows \X RowPages, NEW x \in Page
  PROVE  Puts(Programmed(f, p, x), f, p[1], p[2], x)
  <1> DEFINE g == [f EXCEPT ![p[1]] = [f[p[1]] EXCEPT ![p[2]] = x]]
  <1>1. Programmed(f, p, x) = g
    BY DEF Programmed
  <1>2. f[p[1]] \in [RowPages -> Page] /\ p[1] \in Rows /\ p[2] \in RowPages
    BY DEF FlashType
  <1>3. [f[p[1]] EXCEPT ![p[2]] = x] \in [RowPages -> Page]
    BY <1>2
  <1>4. Puts(g, f, p[1], p[2], x)
    BY <1>2, <1>3 DEF FlashType, Puts
  <1> QED BY <1>1, <1>4

LEMMA EraseRow ==
  ASSUME NEW f \in FlashType, NEW r \in Rows
  PROVE  Clears([f EXCEPT ![r] = ErasedRow], f, r)
  BY PageTypes DEF FlashType, Clears

\* A version of page 0 goes after the last one.
LEMMA TidyWrite ==
  ASSUME NEW f, NEW d, Tidy(f, d), NEW i \in {1, 2, 3}, NEW x \in Page, x.lp = 0,
         f[d][i] = Erased, f[d][i - 1] # Erased,
         NEW g, Puts(g, f, d, i, x)
  PROVE  Tidy(g, d) /\ Last(g[d]) = i /\ g[d][i] = x
  <1>1. d \in {0, 1} /\ d \in Rows /\ f \in FlashType /\ DataRow(f[d]) /\ Others(f)
    BY RowNumbers DEF Tidy, Others
  <1>2. /\ g \in FlashType
        /\ \A q \in Rows \ {d} : g[q] = f[q]
        /\ g[d][i] = x
        /\ \A k \in RowPages \ {i} : g[d][k] = f[d][k]
    BY DEF Puts
  <1>3. g[d] \in [RowPages -> Page]
    BY <1>1, <1>2 DEF FlashType
  <1>4. DataRow(g[d]) /\ Last(g[d]) = i
    <2>1. CASE i = 1
      <3>1. f[d][2] = Erased /\ f[d][3] = Erased
        BY <1>1, <2>1, PageTypes DEF DataRow
      <3> QED BY <1>1, <1>2, <1>3, <2>1, <3>1, PageTypes, RowNumbers DEF DataRow, Last
    <2>2. CASE i = 2
      <3>1. f[d][3] = Erased /\ f[d][1].lp \in {0, 1}
        BY <1>1, <2>2, PageTypes DEF DataRow
      <3> QED BY <1>1, <1>2, <1>3, <2>2, <3>1, PageTypes, RowNumbers DEF DataRow, Last
    <2>3. CASE i = 3
      <3>1. f[d][2].lp = 0 /\ f[d][1].lp \in {0, 1}
        BY <1>1, <2>3, PageTypes DEF DataRow
      <3> QED BY <1>1, <1>2, <1>3, <2>3, <3>1, PageTypes, RowNumbers DEF DataRow, Last
    <2> QED BY <2>1, <2>2, <2>3
  <1>5. Others(g) /\ g[1 - d] = ErasedRow
    BY <1>1, <1>2, RowNumbers DEF Others, Tidy
  <1> QED BY <1>1, <1>2, <1>4, <1>5 DEF Tidy

\* The first page of a move: the erased row has it, the full one is complete.
LEMMA TornByMove ==
  ASSUME NEW f, NEW d, Tidy(f, d), f[d][3].lp = 0, NEW x \in Page, x.lp = 0,
         NEW g, Puts(g, f, 1 - d, 0, x)
  PROVE  Torn(g, d) /\ g[1 - d][0] = x /\ g[d] = f[d]
  <1>1. /\ d \in {0, 1} /\ d \in Rows /\ 1 - d \in Rows /\ d # 1 - d
        /\ f \in FlashType /\ Others(f) /\ DataRow(f[d]) /\ f[1 - d] = ErasedRow
    BY RowNumbers DEF Tidy, Others
  <1>2. /\ g \in FlashType
        /\ \A q \in Rows \ {1 - d} : g[q] = f[q]
        /\ g[1 - d][0] = x
        /\ \A k \in RowPages \ {0} : g[1 - d][k] = f[1 - d][k]
    BY DEF Puts
  <1>3. HalfRow(g[1 - d])
    BY <1>1, <1>2, PageTypes, RowNumbers DEF HalfRow, FlashType
  <1>4. Others(g) /\ g[d] = f[d]
    BY <1>1, <1>2, RowNumbers DEF Others
  <1> QED BY <1>1, <1>2, <1>3, <1>4 DEF Torn

\* The full row erased, the new one is tidy.
LEMMA TidyByErase ==
  ASSUME NEW f, NEW d, Torn(f, d), NEW g, Clears(g, f, d)
  PROVE  Tidy(g, 1 - d) /\ HalfRow(g[1 - d]) /\ g[1 - d] = f[1 - d]
  <1>1. /\ d \in {0, 1} /\ d \in Rows /\ 1 - d \in Rows /\ d # 1 - d
        /\ 1 - (1 - d) = d /\ f \in FlashType /\ Others(f) /\ HalfRow(f[1 - d])
    BY RowNumbers DEF Torn, Others
  <1>2. g \in FlashType /\ g[d] = ErasedRow /\ \A q \in Rows \ {d} : g[q] = f[q]
    BY DEF Clears
  <1>3. Others(g)
    BY <1>1, <1>2, RowNumbers DEF Others
  <1>4. DataRow(g[1 - d]) /\ HalfRow(g[1 - d]) /\ g[1 - d] = f[1 - d]
    BY <1>1, <1>2 DEF HalfRow, DataRow
  <1> QED BY <1>1, <1>2, <1>3, <1>4 DEF Tidy

\* The second page of a move follows.
LEMMA TidyByMove ==
  ASSUME NEW f, NEW d, Tidy(f, d), HalfRow(f[d]), NEW x \in Page, x.lp \in {0, 1},
         NEW g, Puts(g, f, d, 1, x)
  PROVE  /\ Tidy(g, d) /\ g[d][0] = f[d][0] /\ g[d][1] = x
         /\ Last(g[d]) = IF x.lp = 0 THEN 1 ELSE 0
  <1>1. d \in {0, 1} /\ d \in Rows /\ f \in FlashType /\ Others(f)
    BY RowNumbers DEF Tidy, Others
  <1>2. /\ g \in FlashType
        /\ \A q \in Rows \ {d} : g[q] = f[q]
        /\ g[d][1] = x
        /\ \A k \in RowPages \ {1} : g[d][k] = f[d][k]
    BY DEF Puts
  <1>3. g[d] \in [RowPages -> Page]
    BY <1>1, <1>2 DEF FlashType
  <1>4. g[d][0] = f[d][0] /\ g[d][0].lp = 0 /\ g[d][2] = Erased /\ g[d][3] = Erased
    BY <1>2, RowNumbers DEF HalfRow
  <1>5. DataRow(g[d]) /\ Last(g[d]) = IF x.lp = 0 THEN 1 ELSE 0
    BY <1>2, <1>3, <1>4, PageTypes DEF DataRow, Last
  <1>6. Others(g) /\ g[1 - d] = ErasedRow
    BY <1>1, <1>2, RowNumbers DEF Others, Tidy
  <1> QED BY <1>1, <1>2, <1>4, <1>5, <1>6 DEF Tidy

\* Bits are only cleared: a page is programmed over an erased one, a row is
\* erased as a whole.
Clean(f, g) ==
  \A r \in Rows : \A i \in RowPages :
    g[r][i] # f[r][i] => f[r][i] = Erased \/ g[r] = ErasedRow

LEMMA PutsClean ==
  ASSUME NEW f, NEW g, NEW r, NEW i, NEW x, Puts(g, f, r, i, x), f[r][i] = Erased
  PROVE  Clean(f, g)
  BY DEF Puts, Clean

LEMMA ClearsClean ==
  ASSUME NEW f, NEW g, NEW r, Clears(g, f, r)
  PROVE  Clean(f, g)
  BY DEF Clears, Clean

\* Once the key is in the master page, one of the two rows is in use.
LEMMA Shapes ==
  ASSUME IInv, master
  PROVE  \E d \in {0, 1} : Tidy(flash, d) \/ Torn(flash, d)
  <1>1. CASE pc = "boot"
    BY <1>1 DEF IInv, Booting
  <1>2. CASE pc # "boot"
    <2>1. pc \in {"load", "idle", "write", "commit", "moveFirst", "moveErase", "moveSecond"}
      BY <1>2 DEF IInv, Types, Formatting
    <2>2. Tidy(flash, home) \/ Torn(flash, home)
      BY <2>1 DEF IInv, Running, Committing, Moving
    <2>3. home \in {0, 1}
      BY <2>2 DEF Tidy, Torn
    <2> QED BY <2>2, <2>3
  <1> QED BY <1>1, <1>2

LEMMA RecoveredData ==
  ASSUME IInv
  PROVE  Recovered \in Data
  <1>1. CASE ~master
    BY <1>1, PowerUp, PageTypes
  <1>2. CASE master
    <2>1. PICK d \in {0, 1} : Tidy(flash, d) \/ Torn(flash, d)
      BY <1>2, Shapes
    <2>2. ASSUME NEW r, DataRow(r) PROVE r[Last(r)].data \in Data
      <3>1. r[Last(r)] \in Page
        BY <2>2, LastIs DEF DataRow
      <3> QED BY <3>1 DEF Page
    <2>3. CASE Tidy(flash, d)
      BY <1>2, <2>2, <2>3, PowerUp DEF Tidy
    <2>4. CASE Torn(flash, d)
      <3>1. DataRow(flash[1])
        BY <2>4 DEF Torn, HalfRow, DataRow
      <3> QED BY <1>2, <2>2, <2>4, <3>1, PowerUp
    <2> QED BY <2>1, <2>3, <2>4
  <1> QED BY <1>1, <1>2

-----------------------------------------------------------------------------
(* One lemma per action: the invariant holds again, what a power up would  *)
(* read, and whether the flash is programmed only where it is erased.      *)

LEMMA BootStep ==
  ASSUME IInv, Boot
  PROVE  IInv' /\ Recovered' = Recovered /\ Clean(flash, flash')
  <1> USE DEF IInv
  <1>0. /\ pc = "boot" /\ flash' = CheckLogicalPage(flash)
        /\ page_map' = Mapped(flash', page_map) /\ spare_row' = SpareRow(flash')
        /\ pc' = IF Formatted(flash') THEN "load" ELSE "format"
        /\ UNCHANGED <<master, cache, cache_active, fmt, from, buf, entry, job, ram, told>>
    BY DEF Boot
  <1>1. CASE ~master
    <2>1. flash' = flash /\ pc' = "format" /\ Partial(flash) /\ told = None
      BY <1>0, <1>1, PartialChecked DEF Fresh, Formatted
    <2>2. fmt = 0 /\ entry = 0 /\ job = Blank /\ cache_active = FALSE
      BY <1>0 DEF Formatting, Resting, Busy
    <2>3. Types'
      BY <1>0, <2>1 DEF Types, Mapped
    <2>4. Formatting'
      BY <1>0, <1>1, <2>1, <2>2, RowNumbers DEF Formatting, FormatSteps
    <2>5. /\ Fresh' /\ Booting' /\ Spare' /\ Running' /\ Committing' /\ Moving'
          /\ Writing' /\ Told' /\ Resting'
      BY <1>0, <1>1, <2>1, <2>2
         DEF Fresh, Booting, Spare, Running, Committing, Moving, Writing, Told, Resting, Busy
    <2>6. Recovered' = Recovered
      BY <1>0, <2>1, SameFlash DEF nvmVars
    <2> QED BY <2>1, <2>3, <2>4, <2>5, <2>6 DEF Clean
  <1>2. CASE master
    <2>1. PICK d \in {0, 1} : Tidy(flash, d) \/ Torn(flash, d)
      BY <1>2, Shapes
    <2>2. PICK e \in {0, 1} : /\ Tidy(flash', e)
                             /\ Recovered = flash'[e][Last(flash'[e])].data
                             /\ Clean(flash, flash')
      <3>1. CASE Tidy(flash, d)
        <4>1. flash' = flash
          BY <1>0, <3>1, TidyChecked
        <4> QED BY <1>2, <3>1, <4>1, PowerUp DEF Clean
      <3>2. CASE Torn(flash, d)
        <4>1. Tidy(flash', 1) /\ flash' = [flash EXCEPT ![0] = ErasedRow]
          BY <1>0, <3>2, TornChecked
        <4>2. Clears(flash', flash, 0)
          BY <4>1, EraseRow, RowNumbers DEF Types
        <4>3. flash'[1] = flash[1]
          BY <4>2, RowNumbers DEF Clears
        <4>4. Clean(flash, flash')
          BY <4>2, ClearsClean
        <4> QED BY <1>2, <3>2, <4>1, <4>3, <4>4, PowerUp
      <3> QED BY <2>1, <3>1, <3>2
    <2>3. Recovered' = Recovered
      BY <1>0, <1>2, <2>2, NextPowerUp
    <2>4. spare_row' = 1 - e /\ home' = e /\ pc' = "load" /\ spare_row' \in {0, 1}
      BY <1>0, <1>2, <2>2, TidySpare DEF Formatted, home
    <2>5. /\ page_map'[Page0] = <<e, Last(flash'[e])>>
          /\ DOMAIN page_map' = LogicalPages
      BY <1>0, <2>2, TidyMapped
    <2>6. cache_active = FALSE /\ entry = 0 /\ job = Blank /\ fmt = 0
      BY <1>0 DEF Resting, Busy, Formatting
    <2>7. Types'
      BY <1>0, <2>2, <2>4, <2>5 DEF Types, Tidy, Others
    <2>8. Running'
      BY <1>0, <2>2, <2>4, <2>5, <2>6 DEF Running
    <2>9. Told'
      BY <1>0, <2>3, <2>4 DEF Told
    <2>10. /\ Fresh' /\ Formatting' /\ Booting' /\ Spare' /\ Committing' /\ Moving'
           /\ Writing' /\ Resting'
      BY <1>0, <1>2, <2>4, <2>6
         DEF Fresh, Formatting, Booting, Spare, Committing, Moving, Writing, Resting, Busy
    <2> QED BY <2>2, <2>3, <2>7, <2>8, <2>9, <2>10
  <1> QED BY <1>1, <1>2

\* The steps of the formatting: row by row, erase, first page, second page.
LEMMA FormatCases ==
  ASSUME fmt \in 0 .. FormatSteps - 1, FormatStep(fmt), master = FALSE
  PROVE  \/ fmt = 0 /\ flash' = [flash EXCEPT ![0] = ErasedRow] /\ master' = FALSE
         \/ /\ fmt = FormatSteps - 2
            /\ flash' = [flash EXCEPT ![MASTER_ROW] = ErasedRow] /\ master' = FALSE
         \/ fmt = FormatSteps - 1 /\ flash' = flash /\ master' = TRUE
         \/ \E r \in Rows \ {0} :
              \/ fmt = 3 * r - 2 /\ flash' = [flash EXCEPT ![r] = ErasedRow] /\ master' = FALSE
              \/ fmt = 3 * r - 1 /\ flash' = Programmed(flash, <<r, 0>>, First(r)) /\ master' = FALSE
              \/ fmt = 3 * r /\ flash' = Programmed(flash, <<r, 1>>, Second(r)) /\ master' = FALSE
  <1>0. FormatSteps = 3 * ROWS /\ ROWS \in 3 .. 64
    BY DEF FormatSteps
  <1>1. CASE fmt = 0
    <2>1. fmt # FormatSteps - 2 /\ fmt # FormatSteps - 1 /\ fmt \notin 1 .. FormatSteps - 3
      BY <1>0, <1>1
    <2>2. flash' = [flash EXCEPT ![0] = ErasedRow] /\ master' = master
      BY <2>1, Zenon DEF FormatStep
    <2> QED BY <1>1, <2>2
  <1>2. CASE fmt = FormatSteps - 2
    <2>1. fmt # 0 /\ fmt # FormatSteps - 1 /\ fmt \notin 1 .. FormatSteps - 3
      BY <1>0, <1>2
    <2>2. flash' = [flash EXCEPT ![MASTER_ROW] = ErasedRow] /\ master' = FALSE
      BY <2>1, Zenon DEF FormatStep
    <2> QED BY <1>2, <2>2
  <1>3. CASE fmt = FormatSteps - 1
    <2>1. fmt # 0 /\ fmt # FormatSteps - 2 /\ fmt \notin 1 .. FormatSteps - 3
      BY <1>0, <1>3
    <2>2. flash' = flash /\ master' = TRUE
      BY <2>1, Zenon DEF FormatStep
    <2> QED BY <1>3, <2>2
  <1>4. CASE fmt \in 1 .. FormatSteps - 3
    <2> DEFINE r    == (fmt + 2) \div 3
               step == (fmt + 2) % 3
    <2>1. /\ r \in Nat /\ r >= 1 /\ r <= ROWS - 1 /\ step \in 0 .. 2
          /\ fmt + 2 = 3 * r + step /\ fmt \in Nat
      BY <1>0, <1>4, SMTT(30)
    <2>2. fmt # 0 /\ fmt # FormatSteps - 2 /\ fmt # FormatSteps - 1
      BY <1>0, <1>4
    <2>3. r \in Rows \ {0}
      BY <2>1 DEF Rows
    <2>4. CASE step = 0
      <3>1. flash' = [flash EXCEPT ![r] = ErasedRow]
            /\ master' = IF r = MASTER_ROW THEN FALSE ELSE master
        BY <1>4, <2>2, <2>4 DEF FormatStep
      <3>2. fmt = 3 * r - 2
        BY <2>1, <2>4
      <3> HIDE DEF r, step
      <3> QED BY <2>3, <3>1, <3>2
    <2>5. CASE step = 1
      <3>0. step # 0
        BY <2>5
      <3>1. /\ flash' = Programmed(flash, <<r, step - 1>>,
                           [lp |-> 2 * (r - 1) + step - 1, data |-> Blank])
            /\ master' = master
        BY <2>2, <3>0, Zenon DEF FormatStep
      <3>2. fmt = 3 * r - 1 /\ step - 1 = 0 /\ 2 * (r - 1) + step - 1 = 2 * (r - 1)
        BY <2>1, <2>5
      <3> HIDE DEF r, step
      <3>3. flash' = Programmed(flash, <<r, 0>>, First(r))
        BY <3>1, <3>2 DEF First
      <3> QED BY <2>3, <3>1, <3>2, <3>3
    <2>6. CASE step = 2
      <3>0. step # 0
        BY <2>6
      <3>1. /\ flash' = Programmed(flash, <<r, step - 1>>,
                           [lp |-> 2 * (r - 1) + step - 1, data |-> Blank])
            /\ master' = master
        BY <2>2, <3>0, Zenon DEF FormatStep
      <3>2. fmt = 3 * r /\ step - 1 = 1 /\ 2 * (r - 1) + step - 1 = 2 * (r - 1) + 1
        BY <2>1, <2>6
      <3> HIDE DEF r, step
      <3>3. flash' = Programmed(flash, <<r, 1>>, Second(r))
        BY <3>1, <3>2 DEF Second
      <3> QED BY <2>3, <3>1, <3>2, <3>3
    <2> HIDE DEF r, step
    <2>7. step = 0 \/ step = 1 \/ step = 2
      BY <2>1
    <2> QED BY <2>4, <2>5, <2>6, <2>7, Zenon
  <1>5. fmt = 0 \/ fmt \in 1 .. FormatSteps - 3 \/ fmt = FormatSteps - 2 \/ fmt = FormatSteps - 1
    BY <1>0
  <1> QED BY <1>1, <1>2, <1>3, <1>4, <1>5, Zenon

LEMMA PartialClears ==
  ASSUME NEW f, Partial(f), NEW r \in Rows, NEW g, Clears(g, f, r)
  PROVE  Partial(g)
  <1>1. \A q \in Rows : g[q] = f[q] \/ g[q] = ErasedRow
    BY DEF Clears
  <1>2. g[0] = ErasedRow
    BY <1>1, RowNumbers DEF Partial
  <1>3. \A k \in RowPages : ErasedRow[k] = Erased
    BY DEF ErasedRow
  <1>4. ASSUME NEW q \in Rows \ {0}
        PROVE  /\ g[q][0] \in {Erased, First(q)}
               /\ g[q][1] \in {Erased, Second(q)}
               /\ g[q][2] = Erased /\ g[q][3] = Erased
    <2>1. CASE g[q] = f[q]
      BY <2>1 DEF Partial
    <2>2. CASE g[q] = ErasedRow
      BY <1>3, <2>2 DEF RowPages
    <2> QED BY <1>1, <2>1, <2>2
  <1>5. g \in FlashType
    BY DEF Clears
  <1> QED BY <1>2, <1>4, <1>5 DEF Partial

LEMMA PartialPuts ==
  ASSUME NEW f, Partial(f), NEW r \in Rows \ {0}, NEW i \in {0, 1}, NEW g,
         Puts(g, f, r, i, IF i = 0 THEN First(r) ELSE Second(r))
  PROVE  Partial(g)
  <1>1. /\ g \in FlashType
        /\ \A q \in Rows \ {r} : g[q] = f[q]
        /\ g[r][i] = IF i = 0 THEN First(r) ELSE Second(r)
        /\ \A k \in RowPages \ {i} : g[r][k] = f[r][k]
    BY DEF Puts
  <1>2. g[0] = ErasedRow
    BY <1>1, RowNumbers DEF Partial
  <1>3. /\ g[r][0] \in {Erased, First(r)} /\ g[r][1] \in {Erased, Second(r)}
        /\ g[r][2] = Erased /\ g[r][3] = Erased
    BY <1>1, RowNumbers DEF Partial
  <1> QED BY <1>1, <1>2, <1>3 DEF Partial

\* Formatted, the flash is tidy, with row 1 in use and nothing in it.
LEMMA FormattedTidy ==
  ASSUME NEW f, Partial(f), f[MASTER_ROW] = ErasedRow,
         \A r \in Rows \ {0, MASTER_ROW} : f[r] = FormattedRow(r)
  PROVE  Tidy(f, 1) /\ f[1][Last(f[1])].data = Blank
  <1>1. f[1] = FormattedRow(1) /\ 1 \in Rows \ {0} /\ f \in FlashType
        /\ f[0] = ErasedRow
    BY RowNumbers DEF Partial
  <1>2. /\ f[1][0].lp = 0 /\ f[1][1].lp = 1 /\ f[1][2] = Erased /\ f[1][3] = Erased
        /\ f[1][0].data = Blank /\ f[1] \in [RowPages -> Page]
    BY <1>1, FormattedTypes
  <1>3. DataRow(f[1]) /\ Last(f[1]) = 0
    BY <1>2, PageTypes DEF DataRow, Last
  <1>4. Others(f)
    BY <1>1, RowNumbers DEF Others
  <1> QED BY <1>1, <1>2, <1>3, <1>4 DEF Tidy

LEMMA FormatAction ==
  ASSUME IInv, Format
  PROVE  IInv' /\ Recovered' = Recovered /\ Clean(flash, flash')
  <1> USE DEF IInv
  <1>0. /\ pc = "format" /\ FormatStep(fmt)
        /\ fmt' = IF fmt + 1 = FormatSteps THEN 0 ELSE fmt + 1
        /\ pc' = IF fmt + 1 = FormatSteps THEN "boot" ELSE "format"
        /\ UNCHANGED <<emuRamVars, from, buf, entry, job, ram, told>>
    BY DEF Format
  <1>1. UNCHANGED <<page_map, spare_row, cache, cache_active>>
    BY <1>0 DEF emuRamVars
  <1>2. /\ master = FALSE /\ Partial(flash) /\ flash \in FlashType /\ told = None
        /\ fmt \in 0 .. FormatSteps - 1 /\ Recovered = Blank
        /\ entry = 0 /\ job = Blank /\ cache_active = FALSE
    BY <1>0, PowerUp DEF Formatting, Fresh, Types, Resting, Busy
  <1>3. FormatSteps = 3 * ROWS /\ ROWS \in Nat /\ ROWS >= 3
    BY RowNumbers DEF FormatSteps
  <1>4. \A r \in Rows \ {0} : r \in Nat /\ r >= 1 /\ r <= ROWS - 1
    BY RowNumbers DEF MASTER_ROW
  <1>5. ASSUME master' = FALSE, fmt # FormatSteps - 1, Partial(flash')
        PROVE  /\ Types' /\ Fresh' /\ Booting' /\ Spare' /\ Running' /\ Committing' /\ Moving'
               /\ Writing' /\ Told' /\ Resting'
               /\ pc' = "format" /\ fmt' = fmt + 1 /\ Recovered' = Recovered
    <2>1. pc' = "format" /\ fmt' = fmt + 1 /\ fmt' \in 0 .. FormatSteps - 1
      BY <1>0, <1>2, <1>3, <1>5
    <2>2. Recovered' = Recovered
      BY <1>2, <1>5, NextPowerUp
    <2>3. Types'
      BY <1>0, <1>1, <1>2, <1>5, <2>1 DEF Types, Partial
    <2> QED BY <1>0, <1>1, <1>2, <1>5, <2>1, <2>2, <2>3
            DEF Fresh, Booting, Spare, Running, Committing, Moving, Writing, Told, Resting, Busy
  <1>6. CASE fmt = 0 /\ flash' = [flash EXCEPT ![0] = ErasedRow] /\ master' = FALSE
    <2>1. Clears(flash', flash, 0)
      BY <1>2, <1>6, EraseRow, RowNumbers
    <2>2. Partial(flash') /\ Clean(flash, flash') /\ fmt # FormatSteps - 1
      BY <1>2, <1>3, <1>6, <2>1, PartialClears, ClearsClean, RowNumbers
    <2>3. pc' = "format" /\ fmt' = 1
      BY <1>0, <1>3, <1>6
    <2>4. Formatting'
      BY <1>3, <1>4, <1>6, <2>3 DEF Formatting
    <2> QED BY <1>5, <1>6, <2>2, <2>4
  <1>7. CASE /\ fmt = FormatSteps - 2
             /\ flash' = [flash EXCEPT ![MASTER_ROW] = ErasedRow] /\ master' = FALSE
    <2>1. Clears(flash', flash, MASTER_ROW)
      BY <1>2, <1>7, EraseRow, RowNumbers
    <2>2. Partial(flash') /\ Clean(flash, flash') /\ fmt # FormatSteps - 1
      BY <1>2, <1>3, <1>7, <2>1, PartialClears, ClearsClean, RowNumbers
    <2>3. pc' = "format" /\ fmt' = FormatSteps - 1
      BY <1>0, <1>3, <1>7
    <2>4. flash'[MASTER_ROW] = ErasedRow
      BY <2>1 DEF Clears
    <2>5. ASSUME NEW r \in Rows \ {0}
          PROVE  /\ r # MASTER_ROW => flash'[r] = FormattedRow(r)
                 /\ fmt' # 3 * r - 1 /\ fmt' # 3 * r
      <3>1. r # MASTER_ROW => fmt > 3 * r
        BY <1>3, <1>4, <1>7, <2>5 DEF MASTER_ROW
      <3>2. r # MASTER_ROW => flash'[r] = flash[r] /\ flash[r] = FormattedRow(r)
        BY <1>0, <2>1, <3>1 DEF Clears, Formatting
      <3>3. fmt' # 3 * r - 1 /\ fmt' # 3 * r
        BY <1>3, <1>4, <2>3, <2>5
      <3> QED BY <3>2, <3>3
    <2>6. Formatting'
      BY <1>7, <2>3, <2>4, <2>5 DEF Formatting
    <2> QED BY <1>5, <1>7, <2>2, <2>6
  <1>8. CASE fmt = FormatSteps - 1 /\ flash' = flash /\ master' = TRUE
    <2>1. pc' = "boot" /\ fmt' = 0
      BY <1>0, <1>3, <1>8
    <2>2. \A r \in Rows \ {0, MASTER_ROW} : flash[r] = FormattedRow(r)
      <3> TAKE r \in Rows \ {0, MASTER_ROW}
      <3>1. fmt > 3 * r
        BY <1>3, <1>4, <1>8
      <3> QED BY <1>0, <3>1 DEF Formatting
    <2>3. flash[MASTER_ROW] = ErasedRow
      BY <1>0, <1>8 DEF Formatting
    <2>4. Tidy(flash', 1) /\ flash'[1][Last(flash'[1])].data = Blank
      BY <1>2, <1>8, <2>2, <2>3, FormattedTidy
    <2>5. Recovered' = Recovered
      BY <1>2, <1>8, <2>4, NextPowerUp
    <2>6. Types'
      BY <1>0, <1>1, <1>2, <1>3, <1>8, <2>1 DEF Types
    <2>7. /\ Fresh' /\ Formatting' /\ Booting' /\ Spare' /\ Running' /\ Committing' /\ Moving'
          /\ Writing' /\ Told' /\ Resting'
      BY <1>0, <1>1, <1>2, <1>8, <2>1, <2>4
         DEF Fresh, Formatting, Booting, Spare, Running, Committing, Moving, Writing, Told,
             Resting, Busy
    <2> QED BY <1>8, <2>5, <2>6, <2>7 DEF Clean
  <1>9. ASSUME NEW n \in Rows \ {0}, fmt = 3 * n - 2,
               flash' = [flash EXCEPT ![n] = ErasedRow], master' = FALSE
        PROVE  IInv' /\ Recovered' = Recovered /\ Clean(flash, flash')
    <2>1. Clears(flash', flash, n)
      BY <1>2, <1>9, EraseRow
    <2>2. n \in Nat /\ n >= 1 /\ n <= ROWS - 1
      BY <1>4, <1>9
    <2>3. Partial(flash') /\ Clean(flash, flash') /\ fmt # FormatSteps - 1
      BY <1>2, <1>3, <1>9, <2>1, <2>2, PartialClears, ClearsClean
    <2>4. pc' = "format" /\ fmt' = 3 * n - 1 /\ fmt' # FormatSteps - 1
      BY <1>0, <1>3, <1>9, <2>2
    <2>5. ASSUME NEW r \in Rows \ {0}
          PROVE  /\ fmt' > 3 * r /\ r # MASTER_ROW => flash'[r] = FormattedRow(r)
                 /\ fmt' = 3 * r - 1 => flash'[r] = ErasedRow
                 /\ fmt' # 3 * r
      <3>1. fmt' > 3 * r => fmt > 3 * r /\ r # n
        BY <1>4, <1>9, <2>2, <2>4, <2>5
      <3>2. (fmt' = 3 * r - 1 => r = n) /\ fmt' # 3 * r
        <4>1. r \in Nat /\ n \in Nat /\ fmt' = 3 * n - 1
          BY <1>4, <2>2, <2>4, <2>5
        <4>2. \A i, j \in Nat : (3 * i - 1 = 3 * j - 1 => j = i) /\ 3 * i - 1 # 3 * j
          OBVIOUS
        <4> QED BY <4>1, <4>2
      <3> QED BY <1>0, <2>1, <3>1, <3>2 DEF Clears, Formatting
    <2>6. Formatting'
      BY <1>9, <2>4, <2>5 DEF Formatting
    <2> QED BY <1>5, <1>9, <2>3, <2>6
  <1>10. ASSUME NEW n \in Rows \ {0}, fmt = 3 * n - 1,
                flash' = Programmed(flash, <<n, 0>>, First(n)), master' = FALSE
         PROVE  IInv' /\ Recovered' = Recovered /\ Clean(flash, flash')
    <2>1. Puts(flash', flash, n, 0, First(n))
      BY <1>2, <1>10, ProgramRow, FormattedTypes, RowNumbers
    <2>2. n \in Nat /\ n >= 1 /\ n <= ROWS - 1
      BY <1>4, <1>10
    <2>3. flash[n] = ErasedRow /\ flash[n][0] = Erased /\ flash[n][1] = Erased
      BY <1>0, <1>10, PageTypes, RowNumbers DEF Formatting
    <2>4. Partial(flash') /\ Clean(flash, flash') /\ fmt # FormatSteps - 1
      BY <1>2, <1>3, <1>10, <2>1, <2>2, <2>3, PartialPuts, PutsClean
    <2>5. pc' = "format" /\ fmt' = 3 * n /\ fmt' # FormatSteps - 1
      BY <1>0, <1>3, <1>10, <2>2
    <2>6. flash'[n][0] = First(n) /\ flash'[n][1] = Erased
      BY <2>1, <2>3, RowNumbers DEF Puts
    <2>7. ASSUME NEW r \in Rows \ {0}
          PROVE  /\ fmt' > 3 * r /\ r # MASTER_ROW => flash'[r] = FormattedRow(r)
                 /\ fmt' # 3 * r - 1
                 /\ fmt' = 3 * r => flash'[r][0] = First(r) /\ flash'[r][1] = Erased
      <3>0. r \in Nat
        BY <1>4, <2>7
      <3>1. fmt' > 3 * r => fmt > 3 * r /\ r # n
        BY <1>10, <2>2, <2>5, <3>0
      <3>2. (fmt' = 3 * r => r = n) /\ fmt' # 3 * r - 1
        <4>1. r \in Nat /\ n \in Nat /\ fmt' = 3 * n
          BY <2>2, <2>5, <3>0
        <4>2. \A i, j \in Nat : (3 * i = 3 * j => j = i) /\ 3 * i # 3 * j - 1
          OBVIOUS
        <4> QED BY <4>1, <4>2
      <3>3. ASSUME fmt' > 3 * r, r # MASTER_ROW PROVE flash'[r] = FormattedRow(r)
        <4>1. flash[r] = FormattedRow(r)
          BY <1>0, <3>1, <3>3 DEF Formatting
        <4>2. flash'[r] = flash[r]
          BY <2>1, <3>1, <3>3 DEF Puts
        <4> QED BY <4>1, <4>2
      <3>4. fmt' = 3 * r => flash'[r][0] = First(r) /\ flash'[r][1] = Erased
        BY <2>6, <3>2
      <3> QED BY <3>2, <3>3, <3>4
    <2>8. Formatting'
      BY <1>10, <2>5, <2>7 DEF Formatting
    <2> QED BY <1>5, <1>10, <2>4, <2>8
  <1>11. ASSUME NEW n \in Rows \ {0}, fmt = 3 * n,
                flash' = Programmed(flash, <<n, 1>>, Second(n)), master' = FALSE
         PROVE  IInv' /\ Recovered' = Recovered /\ Clean(flash, flash')
    <2>1. Puts(flash', flash, n, 1, Second(n))
      BY <1>2, <1>11, ProgramRow, FormattedTypes, RowNumbers
    <2>2. n \in Nat /\ n >= 1 /\ n <= ROWS - 1
      BY <1>4, <1>11
    <2>3. flash[n][0] = First(n) /\ flash[n][1] = Erased
      BY <1>0, <1>11 DEF Formatting
    <2>4. Partial(flash') /\ Clean(flash, flash') /\ fmt # FormatSteps - 1
      BY <1>2, <1>3, <1>11, <2>1, <2>2, <2>3, PartialPuts, PutsClean
    <2>5. pc' = "format" /\ fmt' = 3 * n + 1 /\ fmt' # FormatSteps - 1
      BY <1>0, <1>3, <1>11, <2>2
    <2>6. flash'[n] = FormattedRow(n)
      <3>1. /\ flash'[n][0] = First(n) /\ flash'[n][1] = Second(n)
            /\ flash'[n][2] = Erased /\ flash'[n][3] = Erased
        BY <1>2, <2>1, <2>3, RowNumbers DEF Puts, Partial
      <3>2. flash'[n] \in [RowPages -> Page]
        BY <2>1 DEF Puts, FlashType
      <3> QED BY <3>1, <3>2, FormattedTypes, SameRow
    <2>7. ASSUME NEW r \in Rows \ {0}
          PROVE  /\ fmt' > 3 * r /\ r # MASTER_ROW => flash'[r] = FormattedRow(r)
                 /\ fmt' # 3 * r - 1 /\ fmt' # 3 * r
      <3>0. r \in Nat
        BY <1>4, <2>7
      <3>1. fmt' > 3 * r => r = n \/ fmt > 3 * r
        BY <1>11, <2>2, <2>5, <3>0
      <3>2. fmt' # 3 * r /\ fmt' # 3 * r - 1
        <4>1. r \in Nat /\ n \in Nat /\ fmt' = 3 * n + 1
          BY <2>2, <2>5, <3>0
        <4>2. \A i, j \in Nat : 3 * i + 1 # 3 * j /\ 3 * i + 1 # 3 * j - 1
          OBVIOUS
        <4> QED BY <4>1, <4>2
      <3>3. ASSUME fmt' > 3 * r, r # MASTER_ROW PROVE flash'[r] = FormattedRow(r)
        <4>1. CASE r = n
          BY <2>6, <4>1
        <4>2. CASE r # n
          <5>1. flash[r] = FormattedRow(r)
            BY <1>0, <3>1, <3>3, <4>2 DEF Formatting
          <5>2. flash'[r] = flash[r]
            BY <2>1, <4>2 DEF Puts
          <5> QED BY <5>1, <5>2
        <4> QED BY <4>1, <4>2
      <3> QED BY <3>2, <3>3
    <2>8. Formatting'
      BY <1>11, <2>5, <2>7 DEF Formatting
    <2> QED BY <1>5, <1>11, <2>4, <2>8
  <1> QED BY <1>0, <1>2, <1>6, <1>7, <1>8, <1>9, <1>10, <1>11, FormatCases

\* The page in use, as the node reads it.
LEMMA ReadIsRecovered ==
  ASSUME IInv, pc \in {"load", "idle", "write"}
  PROVE  /\ ReadPage(Page0) = Recovered
         /\ master /\ Tidy(flash, home) /\ DataRow(flash[home])
         /\ home \in {0, 1} /\ spare_row = 1 - home
  <1>1. /\ Tidy(flash, home) /\ page_map[Page0] = <<home, Last(flash[home])>>
        /\ cache_active = FALSE /\ master /\ spare_row \in {0, 1}
    BY DEF IInv, Running, Fresh, Spare
  <1>2. ReadPage(Page0) = flash[home][Last(flash[home])].data
    BY <1>1 DEF ReadPage
  <1>3. Recovered = flash[home][Last(flash[home])].data
    BY <1>1, PowerUp
  <1> QED BY <1>1, <1>2, <1>3 DEF Tidy, home

LEMMA SameClean == UNCHANGED flash => Clean(flash, flash')
  BY DEF Clean

LEMMA LoadStep ==
  ASSUME IInv, LoadEeprom
  PROVE  IInv' /\ Recovered' = Recovered /\ ram' = Repaired(Recovered) /\ UNCHANGED flash
  <1> USE DEF IInv
  <1>0. /\ pc = "load" /\ ram' = Repaired(ReadPage(Page0)) /\ pc' = "idle"
        /\ UNCHANGED <<flash, master, page_map, spare_row, cache, cache_active>>
        /\ UNCHANGED <<fmt, from, buf, entry, job, told>>
    BY DEF LoadEeprom, nvmVars, emuRamVars
  <1>1. Recovered' = Recovered
    BY <1>0, SameFlash DEF nvmVars
  <1>2. ram' = Repaired(Recovered)
    BY <1>0, ReadIsRecovered
  <1>3. ram' \in Data
    <2>1. \A id \in Ids : ram'[id] \in UNION {Value(i) : i \in Ids}
      BY <1>2 DEF Repaired, Value
    <2> QED BY <1>2, <2>1 DEF Repaired, Data
  <1>4. told # None => ram' = told
    <2> HAVE told # None
    <2>1. Recovered = told /\ told \in Data /\ \A id \in Ids : told[id] \in Sane[id]
      BY DEF Told, Types
    <2>2. \A id \in Ids : ram'[id] = told[id]
      BY <1>2, <2>1 DEF Repaired
    <2> QED BY <1>3, <2>1, <2>2 DEF Data
  <1>5. Types'
    BY <1>0, <1>3 DEF Types
  <1>6. Told'
    BY <1>0, <1>1, <1>4 DEF Told
  <1>7. /\ Fresh' /\ Formatting' /\ Booting' /\ Spare' /\ Running' /\ Committing' /\ Moving'
        /\ Writing' /\ Resting'
    BY <1>0
       DEF Fresh, Formatting, Booting, Spare, Running, Committing, Moving, Writing, Resting,
           Busy, home
  <1> QED BY <1>0, <1>1, <1>2, <1>5, <1>6, <1>7

LEMMA UpdateStep ==
  ASSUME IInv, NEW c \in Configs, UpdateCfg(c)
  PROVE  IInv' /\ Recovered' = Recovered /\ UNCHANGED flash
  <1> USE DEF IInv
  <1>0. /\ pc = "idle" /\ Accepts(c) /\ pc' = "write" /\ job' = c /\ entry' = 0 /\ told' = None
        /\ UNCHANGED <<flash, master, page_map, spare_row, cache, cache_active>>
        /\ UNCHANGED <<fmt, from, buf, ram>>
    BY DEF UpdateCfg, nvmVars, emuRamVars
  <1>1. Recovered' = Recovered
    BY <1>0, SameFlash DEF nvmVars
  <1>2. c \in Data /\ \A id \in Ids : c[id] \in Sane[id]
    BY <1>0, PageTypes
       DEF Accepts, Configs, EMU_EEPROM_MOTION_THRESHOLD, EMU_EEPROM_ADVERTISE_NAME,
           EMU_EEPROM_BUZZER_ENABLED
  <1>3. Types'
    BY <1>0, <1>2, PageTypes DEF Types, None
  <1>4. Writing'
    <2>1. \A id \in Ids : ~(id < entry')
      BY <1>0, PageTypes
    <2> QED BY <1>0, <1>2, <2>1 DEF Writing, Busy
  <1>5. /\ Fresh' /\ Formatting' /\ Booting' /\ Spare' /\ Running' /\ Committing' /\ Moving'
        /\ Told' /\ Resting'
    BY <1>0
       DEF Fresh, Formatting, Booting, Spare, Running, Committing, Moving, Told, Resting,
           Busy, home
  <1> QED BY <1>0, <1>1, <1>3, <1>4, <1>5

LEMMA AcknowledgeStep ==
  ASSUME IInv, Acknowledge
  PROVE  IInv' /\ Recovered' = Recovered /\ UNCHANGED flash
  <1> USE DEF IInv
  <1>0. /\ pc = "write" /\ entry \notin Ids /\ ram' = job /\ told' = job
        /\ pc' = "idle" /\ fmt' = 0 /\ from' = 0 /\ buf' = Blank /\ entry' = 0 /\ job' = Blank
        /\ UNCHANGED <<flash, master, page_map, spare_row, cache, cache_active>>
    BY DEF Acknowledge, Idle, nvmVars, emuRamVars
  <1>1. Recovered' = Recovered
    BY <1>0, SameFlash DEF nvmVars
  <1>2. entry = 3 /\ job \in Data
    BY <1>0, PageTypes DEF Types
  <1>3. \A id \in Ids : job[id] \in Sane[id] /\ Recovered[id] = job[id]
    BY <1>0, <1>2, PageTypes DEF Writing, Busy
  <1>4. Recovered = job
    BY <1>2, <1>3, RecoveredData DEF Data
  <1>5. Types'
    BY <1>0, <1>2, PageTypes, RowNumbers DEF Types, FormatSteps
  <1>6. Told'
    BY <1>0, <1>1, <1>3, <1>4 DEF Told
  <1>7. /\ Fresh' /\ Formatting' /\ Booting' /\ Spare' /\ Running' /\ Committing' /\ Moving'
        /\ Writing' /\ Resting'
    BY <1>0
       DEF Fresh, Formatting, Booting, Spare, Running, Committing, Moving, Writing, Resting,
           Busy, home
  <1> QED BY <1>0, <1>1, <1>5, <1>6, <1>7

LEMMA ResetStep ==
  ASSUME IInv, Reset
  PROVE  IInv' /\ Recovered' = Recovered /\ UNCHANGED flash
  <1> USE DEF IInv
  <1>0. /\ page_map' = [l \in LogicalPages |-> <<0, 0>>] /\ cache_active' = FALSE
        /\ pc' = "boot" /\ fmt' = 0 /\ buf' = Blank /\ entry' = 0
        /\ job' = Blank /\ ram' = Blank
        /\ UNCHANGED <<flash, master, told>>
    BY DEF Reset, nvmVars
  <1>1. Recovered' = Recovered
    BY <1>0, SameFlash DEF nvmVars
  <1>2. Types'
    BY <1>0, PageTypes, RowNumbers DEF Types, FormatSteps
  <1>3. Booting'
    BY <1>0, Shapes DEF Booting
  <1>4. Told'
    BY <1>0, <1>1 DEF Told
  <1>5. /\ Fresh' /\ Formatting' /\ Spare' /\ Running' /\ Committing' /\ Moving'
        /\ Writing' /\ Resting'
    BY <1>0
       DEF Fresh, Formatting, Spare, Running, Committing, Moving, Writing, Resting, Busy
  <1> QED BY <1>0, <1>1, <1>2, <1>3, <1>4, <1>5

\* Among the pages of a row there is a first one and a last one.
LEMMA FirstAndLastPage ==
  ASSUME NEW S \in SUBSET {0, 1, 2, 3}, S # {}
  PROVE  /\ \E i \in S : \A k \in S : i <= k
         /\ \E i \in S : \A k \in S : k <= i
  <1>1. \E i \in S : \A k \in S : i <= k
    <2>1. CASE 0 \in S
      BY <2>1
    <2>2. CASE 0 \notin S /\ 1 \in S
      BY <2>2
    <2>3. CASE 0 \notin S /\ 1 \notin S /\ 2 \in S
      BY <2>3
    <2>4. CASE S = {3}
      BY <2>4
    <2> QED BY <2>1, <2>2, <2>3, <2>4
  <1>2. \E i \in S : \A k \in S : k <= i
    <2>1. CASE 3 \in S
      BY <2>1
    <2>2. CASE 3 \notin S /\ 2 \in S
      BY <2>2
    <2>3. CASE 3 \notin S /\ 2 \notin S /\ 1 \in S
      BY <2>3
    <2>4. CASE S = {0}
      BY <2>4
    <2> QED BY <2>1, <2>2, <2>3, <2>4
  <1> QED BY <1>1, <1>2

\* The first free page is the one after the last page programmed.
LEMMA FirstFree ==
  ASSUME NEW row, DataRow(row), NEW i \in RowPages, i >= Last(row),
         row[i].lp = EEPROM_INVALID_PAGE_NUMBER,
         \A k \in RowPages :
           k >= Last(row) /\ row[k].lp = EEPROM_INVALID_PAGE_NUMBER => i <= k
  PROVE  i \in {1, 2, 3} /\ row[i] = Erased /\ row[i - 1] # Erased
  <1>1. i \in {1, 2, 3} /\ row[i] = Erased
    BY RowNumbers DEF DataRow, EEPROM_INVALID_PAGE_NUMBER
  <1>2. row[i - 1] # Erased
    <2>1. CASE i = 1
      BY <2>1, PageTypes DEF DataRow
    <2>2. CASE i = 2
      BY <1>1, <2>2, PageTypes, RowNumbers DEF DataRow, Last, EEPROM_INVALID_PAGE_NUMBER
    <2>3. CASE i = 3
      BY <1>1, <2>3, PageTypes, RowNumbers DEF DataRow, Last, EEPROM_INVALID_PAGE_NUMBER
    <2> QED BY <1>1, <2>1, <2>2, <2>3
  <1> QED BY <1>1, <1>2

\* The version that moves on is one of the pages with that logical page.
LEMMA PageTransIs ==
  ASSUME NEW r, NEW c \in {0, 1}
  PROVE  \E i \in {c, 2, 3} : /\ flash[r][i].lp = flash[r][c].lp
                            /\ PageTrans(r, c) = flash[r][i]
  <1> DEFINE same == {i \in {c, 2, 3} : flash[r][i].lp = flash[r][c].lp}
  <1>1. same \in SUBSET {0, 1, 2, 3} /\ same # {}
    OBVIOUS
  <1>2. \E i \in same : \A k \in same : k <= i
    <2> HIDE DEF same
    <2> QED BY <1>1, FirstAndLastPage
  <1>3. (CHOOSE i \in same : \A k \in same : k <= i) \in same
    BY <1>2
  <1>4. PageTrans(r, c) = flash[r][CHOOSE i \in same : \A k \in same : k <= i]
    BY DEF PageTrans
  <1> QED BY <1>3, <1>4

LEMMA WriteStep ==
  ASSUME IInv, WriteEntry
  PROVE  IInv' /\ Recovered' = Recovered /\ UNCHANGED flash
  <1> USE DEF IInv
  <1> DEFINE d == [Recovered EXCEPT ![entry] = job[entry]]
  <1>0. /\ pc = "write" /\ entry \in Ids /\ buf' = [ReadPage(Page0) EXCEPT ![entry] = job[entry]]
        /\ UNCHANGED <<fmt, entry, job, ram, told>>
        /\ \/ WriteInRow(Page0, buf') /\ pc' = "commit" /\ UNCHANGED from
           \/ /\ FreePages(Page0) = {} /\ from' = page_map[Page0][1]
              /\ MoveToCache(from', 0, Page0, buf') /\ pc' = "moveFirst"
              /\ UNCHANGED <<flash, master, spare_row>>
    BY DEF WriteEntry, nvmVars
  <1>1. /\ ReadPage(Page0) = Recovered
        /\ master /\ Tidy(flash, home) /\ DataRow(flash[home])
        /\ home \in {0, 1} /\ spare_row = 1 - home
    BY <1>0, ReadIsRecovered
  <1>2. /\ page_map[Page0] = <<home, Last(flash[home])>> /\ DOMAIN page_map = LogicalPages
        /\ told = None
    BY <1>0 DEF Running, Types, Writing, Busy
  <1>3. UNCHANGED <<flash, master, spare_row>>
    BY <1>0 DEF WriteInRow, nvmVars
  <1>4. Recovered' = Recovered
    BY <1>3, SameFlash DEF nvmVars
  <1>5. buf' = d /\ buf' \in Data
    <2>1. job \in Data /\ Recovered \in Data
      BY RecoveredData DEF Types
    <2> QED BY <1>0, <1>1, <2>1 DEF Data
  <1> HIDE DEF d
  <1>6. /\ FreePages(Page0) = {i \in RowPages : /\ i >= Last(flash[home])
                                /\ flash[home][i].lp = EEPROM_INVALID_PAGE_NUMBER}
    BY <1>2 DEF FreePages
  <1>7. CASE WriteInRow(Page0, buf') /\ pc' = "commit" /\ UNCHANGED from
    <2> DEFINE n == CHOOSE i \in FreePages(Page0) : \A k \in FreePages(Page0) : i <= k
    <2>1. /\ FreePages(Page0) # {} /\ cache' = [lp |-> Page0, data |-> buf']
          /\ page_map' = [page_map EXCEPT ![Page0] = <<@[1], n>>]
      BY <1>7 DEF WriteInRow
    <2>2. n \in FreePages(Page0) /\ \A k \in FreePages(Page0) : n <= k
      <3>1. FreePages(Page0) \in SUBSET {0, 1, 2, 3}
        BY <1>6, RowNumbers
      <3>2. \E i \in FreePages(Page0) : \A k \in FreePages(Page0) : i <= k
        BY <2>1, <3>1, FirstAndLastPage
      <3> QED BY <3>2
    <2> HIDE DEF n
    <2>3. n \in {1, 2, 3} /\ flash[home][n] = Erased /\ flash[home][n - 1] # Erased
      BY <1>1, <1>6, <2>2, FirstFree
    <2>4. page_map'[Page0] = <<home, n>> /\ DOMAIN page_map' = LogicalPages
      BY <1>2, <2>1, RowNumbers
    <2>5. Types'
      BY <1>0, <1>3, <1>5, <1>7, <2>4 DEF Types
    <2>6. Committing'
      BY <1>1, <1>3, <1>7, <2>1, <2>3, <2>4 DEF Committing, home
    <2>7. Writing'
      BY <1>0, <1>4, <1>5, <1>7 DEF Writing, Busy, EntryIsIn, d
    <2>8. /\ Fresh' /\ Formatting' /\ Booting' /\ Spare' /\ Running' /\ Moving' /\ Told' /\ Resting'
      BY <1>0, <1>1, <1>2, <1>3, <1>7
         DEF Fresh, Formatting, Booting, Spare, Running, Moving, Told, Resting, Busy
    <2> QED BY <1>3, <1>4, <2>5, <2>6, <2>7, <2>8
  <1>8. CASE /\ FreePages(Page0) = {} /\ from' = page_map[Page0][1]
             /\ MoveToCache(from', 0, Page0, buf') /\ pc' = "moveFirst"
    <2>1. from' = home
      BY <1>2, <1>8
    <2>2. flash[home][3].lp = 0
      <3>1. Last(flash[home]) <= 3
        BY <1>1, LastIs, RowNumbers
      <3>2. flash[home][3].lp # EEPROM_INVALID_PAGE_NUMBER
        BY <1>6, <1>8, <3>1, RowNumbers
      <3> QED BY <1>1, <3>2, PageTypes DEF DataRow, EEPROM_INVALID_PAGE_NUMBER
    <2>3. PageTrans(home, 0).lp = 0
      BY <1>1, PageTransIs DEF DataRow
    <2>4. /\ cache' = [lp |-> Page0, data |-> buf']
          /\ page_map' = [page_map EXCEPT ![0] = <<spare_row, 0>>]
      BY <1>8, <2>1, <2>3 DEF MoveToCache, Page0
    <2>5. page_map'[Page0] = <<spare_row, 0>> /\ DOMAIN page_map' = LogicalPages
      BY <1>2, <2>4, RowNumbers
    <2>6. Types'
      BY <1>0, <1>3, <1>5, <1>8, <2>5 DEF Types
    <2>7. Moving'
      BY <1>1, <1>3, <1>8, <2>1, <2>2, <2>4, <2>5 DEF Moving, home
    <2>8. Writing'
      BY <1>0, <1>4, <1>5, <1>8 DEF Writing, Busy, EntryIsIn, d
    <2>9. /\ Fresh' /\ Formatting' /\ Booting' /\ Spare' /\ Running' /\ Committing'
          /\ Told' /\ Resting'
      BY <1>0, <1>1, <1>2, <1>3, <1>8
         DEF Fresh, Formatting, Booting, Spare, Running, Committing, Told, Resting, Busy
    <2> QED BY <1>3, <1>4, <2>6, <2>7, <2>8, <2>9
  <1> QED BY <1>0, <1>7, <1>8

\* What the node knows while it writes an entry.
LEMMA AtWork ==
  ASSUME IInv, pc \in {"commit", "moveFirst", "moveErase", "moveSecond"}
  PROVE  /\ master /\ told = None /\ spare_row \in {0, 1} /\ home = 1 - spare_row
         /\ home \in {0, 1} /\ flash \in FlashType
         /\ entry \in Ids /\ buf \in Data /\ DOMAIN page_map = LogicalPages
         /\ buf = [Recovered EXCEPT ![entry] = job[entry]]
         /\ \A id \in Ids : job[id] \in Sane[id] /\ (id < entry => Recovered[id] = job[id])
         /\ [lp |-> Page0, data |-> buf] \in Page
  <1>1. /\ master /\ told = None /\ spare_row \in {0, 1} /\ home = 1 - spare_row
        /\ flash \in FlashType /\ buf \in Data /\ DOMAIN page_map = LogicalPages
    BY DEF IInv, Fresh, Types, Spare, Writing, Busy, home
  <1>2. /\ entry \in Ids /\ buf = [Recovered EXCEPT ![entry] = job[entry]]
        /\ \A id \in Ids : job[id] \in Sane[id] /\ (id < entry => Recovered[id] = job[id])
    BY DEF IInv, Writing, Busy
  <1>3. [lp |-> Page0, data |-> buf] \in Page
    BY <1>1 DEF Page, Page0, EEPROM_INVALID_PAGE_NUMBER
  <1> QED BY <1>1, <1>2, <1>3

\* The entries written stay written, and the one at hand is in its page.
LEMMA EntryKept ==
  ASSUME IInv, pc \in {"commit", "moveFirst", "moveErase", "moveSecond"}
  PROVE  /\ buf = [buf EXCEPT ![entry] = job[entry]]
         /\ buf[entry] = job[entry]
         /\ \A id \in Ids : id < entry => buf[id] = job[id]
  <1>1. Recovered \in Data /\ entry \in Ids /\ buf = [Recovered EXCEPT ![entry] = job[entry]]
        /\ \A id \in Ids : id < entry => Recovered[id] = job[id]
    BY AtWork, RecoveredData
  <1>2. buf \in Data
    BY AtWork
  <1>3. buf[entry] = job[entry] /\ \A id \in Ids : id < entry => buf[id] = job[id]
    BY <1>1, PageTypes DEF Data
  <1>4. buf = [buf EXCEPT ![entry] = job[entry]]
    BY <1>1, <1>2, <1>3 DEF Data
  <1> QED BY <1>3, <1>4

LEMMA MoveFirstStep ==
  ASSUME IInv, MoveFirst
  PROVE  /\ IInv' /\ Clean(flash, flash')
         /\ Recovered' = IF from < spare_row THEN buf ELSE Recovered
  <1> USE DEF IInv
  <1>0. /\ pc = "moveFirst" /\ CommitPage /\ MoveToCache(from, 1, Page0, buf) /\ pc' = "moveErase"
        /\ UNCHANGED <<master, spare_row, fmt, from, buf, entry, job, ram, told>>
    BY DEF MoveFirst
  <1>1. /\ master /\ told = None /\ spare_row \in {0, 1} /\ home = 1 - spare_row
        /\ home \in {0, 1} /\ 1 - home = spare_row /\ flash \in FlashType
        /\ buf \in Data /\ DOMAIN page_map = LogicalPages
        /\ [lp |-> Page0, data |-> buf] \in Page
    BY <1>0, AtWork
  <1>2. /\ Tidy(flash, home) /\ flash[home][3].lp = 0 /\ from = home
        /\ page_map[Page0] = <<spare_row, 0>> /\ cache = [lp |-> Page0, data |-> buf]
        /\ DataRow(flash[home]) /\ flash[spare_row] = ErasedRow
    BY <1>0, <1>1 DEF Moving, Tidy
  <1>3. Puts(flash', flash, spare_row, 0, cache)
    <2>1. flash' = Programmed(flash, page_map[Page0], cache)
      BY <1>0, <1>2 DEF CommitPage
    <2>2. page_map[Page0] \in Rows \X RowPages /\ cache \in Page
      BY <1>1, <1>2, RowNumbers
    <2>3. Puts(flash', flash, page_map[Page0][1], page_map[Page0][2], cache)
      BY <1>1, <2>1, <2>2, ProgramRow
    <2> QED BY <1>2, <2>3
  <1>4. /\ Torn(flash', home) /\ flash'[spare_row][0] = cache /\ flash'[home] = flash[home]
    BY <1>1, <1>2, <1>3, TornByMove DEF Page0
  <1>5. Clean(flash, flash')
    BY <1>2, <1>3, PutsClean, PageTypes, RowNumbers
  <1>6. Recovered' = IF from < spare_row THEN buf ELSE Recovered
    <2>1. Recovered' = flash'[1][Last(flash'[1])].data
      BY <1>0, <1>1, <1>4, NextPowerUp
    <2>2. CASE home = 0
      <3>1. spare_row = 1 /\ HalfRow(flash'[1]) /\ from < spare_row
        BY <1>1, <1>2, <1>4, <2>2 DEF Torn
      <3>2. Last(flash'[1]) = 0
        BY <3>1, PageTypes DEF HalfRow, Last
      <3> QED BY <1>2, <1>4, <2>1, <3>1, <3>2
    <2>3. CASE home = 1
      <3>1. Recovered = flash[1][Last(flash[1])].data
        BY <1>1, <1>2, <2>3, PowerUp
      <3>2. ~(from < spare_row)
        BY <1>1, <1>2, <2>3
      <3> QED BY <1>4, <2>1, <2>3, <3>1, <3>2
    <2> QED BY <1>1, <2>2, <2>3
  <1>7. /\ cache' \in Page /\ cache'.lp \in {0, 1} /\ (cache'.lp = 0 => cache'.data = buf)
        /\ page_map'[cache'.lp] = <<spare_row, 1>> /\ DOMAIN page_map' = LogicalPages
        /\ cache'.lp # 0 => page_map'[0] = page_map[0]
    <2> DEFINE old == PageTrans(home, 1)
    <2>1. PICK i \in {1, 2, 3} : flash[home][i].lp = flash[home][1].lp /\ old = flash[home][i]
      BY PageTransIs
    <2>2. flash[home][1].lp \in {0, 1}
      BY <1>2, PageTypes DEF DataRow
    <2>3. old.lp \in {0, 1} /\ old \in Page
      BY <1>2, <2>1, <2>2, RowNumbers DEF DataRow
    <2> HIDE DEF old
    <2>4. /\ cache' = IF old.lp = Page0 THEN [lp |-> Page0, data |-> buf] ELSE old
          /\ page_map' = [page_map EXCEPT ![old.lp] = <<spare_row, 1>>]
      BY <1>0, <1>2 DEF MoveToCache, old
    <2>5. /\ page_map'[old.lp] = <<spare_row, 1>> /\ DOMAIN page_map' = LogicalPages
          /\ old.lp # 0 => page_map'[0] = page_map[0]
      BY <1>1, <2>3, <2>4, RowNumbers
    <2>6. CASE old.lp = 0
      <3>1. cache' = [lp |-> Page0, data |-> buf] /\ cache'.lp = old.lp /\ cache'.data = buf
        BY <2>4, <2>6 DEF Page0
      <3> QED BY <1>1, <2>5, <2>6, <3>1
    <2>7. CASE old.lp = 1
      <3>1. cache' = old
        BY <2>4, <2>7 DEF Page0
      <3> QED BY <2>3, <2>5, <2>7, <3>1
    <2> QED BY <2>3, <2>6, <2>7
  <1>8. /\ page_map'[Page0] = <<spare_row, IF cache'.lp = 0 THEN 1 ELSE 0>>
    BY <1>2, <1>7 DEF Page0
  <1>9. Types'
    BY <1>0, <1>3, <1>7 DEF Types, Puts
  <1>10. Moving'
    BY <1>0, <1>1, <1>2, <1>4, <1>7, <1>8 DEF Moving, home
  <1>11. Writing'
    <2>1. buf = [Recovered' EXCEPT ![entry] = job[entry]]
      BY <1>0, <1>6, AtWork, EntryKept
    <2>2. \A id \in Ids : job[id] \in Sane[id] /\ (id < entry => Recovered'[id] = job[id])
      BY <1>0, <1>6, AtWork, EntryKept
    <2>3. (from < spare_row) => Recovered' = buf
      BY <1>6
    <2>4. entry \in Ids /\ told = None
      BY <1>0, AtWork
    <2> QED BY <1>0, <2>1, <2>2, <2>3, <2>4 DEF Writing, Busy, EntryIsIn
  <1>12. /\ Fresh' /\ Formatting' /\ Booting' /\ Spare' /\ Running' /\ Committing'
         /\ Told' /\ Resting'
    BY <1>0, <1>1
       DEF Fresh, Formatting, Booting, Spare, Running, Committing, Told, Resting, Busy
  <1> QED BY <1>5, <1>6, <1>9, <1>10, <1>11, <1>12

LEMMA MoveEraseStep ==
  ASSUME IInv, MoveErase
  PROVE  IInv' /\ Recovered' = buf /\ Clean(flash, flash')
  <1> USE DEF IInv
  <1>0. /\ pc = "moveErase" /\ flash' = [flash EXCEPT ![from] = ErasedRow] /\ spare_row' = from
        /\ pc' = "moveSecond"
        /\ UNCHANGED <<master, page_map, cache, cache_active, fmt, from, buf, entry, job, ram, told>>
    BY DEF MoveErase, EraseMoved
  <1>1. /\ master /\ told = None /\ spare_row \in {0, 1} /\ home = 1 - spare_row
        /\ home \in {0, 1} /\ 1 - home = spare_row /\ flash \in FlashType
        /\ buf \in Data /\ DOMAIN page_map = LogicalPages
    BY <1>0, AtWork
  <1>2. /\ Torn(flash, home) /\ from = home /\ flash[spare_row][0].data = buf
        /\ cache \in Page /\ cache.lp \in {0, 1} /\ (cache.lp = 0 => cache.data = buf)
        /\ page_map[cache.lp] = <<spare_row, 1>>
        /\ page_map[Page0] = <<spare_row, IF cache.lp = 0 THEN 1 ELSE 0>>
    BY <1>0 DEF Moving
  <1>3. Clears(flash', flash, home)
    BY <1>0, <1>1, <1>2, EraseRow, RowNumbers
  <1>4. /\ Tidy(flash', spare_row) /\ HalfRow(flash'[spare_row])
        /\ flash'[spare_row] = flash[spare_row]
    BY <1>1, <1>2, <1>3, TidyByErase
  <1>5. Clean(flash, flash')
    BY <1>3, ClearsClean
  <1>6. Recovered' = buf
    <2>1. Last(flash'[spare_row]) = 0
      BY <1>4, PageTypes DEF HalfRow, Last
    <2> QED BY <1>0, <1>1, <1>2, <1>4, <2>1, NextPowerUp
  <1>7. home' = spare_row /\ spare_row' \in {0, 1}
    BY <1>0, <1>1, <1>2 DEF home
  <1>8. Types'
    BY <1>0, <1>3 DEF Types, Clears
  <1>9. Moving'
    BY <1>0, <1>2, <1>4, <1>7 DEF Moving
  <1>10. Writing'
    <2>1. /\ buf = [buf EXCEPT ![entry] = job[entry]]
          /\ \A id \in Ids : job[id] \in Sane[id] /\ (id < entry => buf[id] = job[id])
          /\ entry \in Ids /\ told = None
      BY <1>0, AtWork, EntryKept
    <2> QED BY <1>0, <1>6, <2>1 DEF Writing, Busy
  <1>11. /\ Fresh' /\ Formatting' /\ Booting' /\ Spare' /\ Running' /\ Committing'
         /\ Told' /\ Resting'
    BY <1>0, <1>1, <1>7
       DEF Fresh, Formatting, Booting, Spare, Running, Committing, Told, Resting, Busy
  <1> QED BY <1>5, <1>6, <1>8, <1>9, <1>10, <1>11

LEMMA CommitStep ==
  ASSUME IInv, Commit
  PROVE  IInv' /\ Recovered' = buf /\ Clean(flash, flash')
  <1> USE DEF IInv
  <1>0. /\ pc \in {"commit", "moveSecond"} /\ flash' = Programmed(flash, page_map[cache.lp], cache)
        /\ cache_active' = FALSE /\ entry' = entry + 1 /\ pc' = "write" /\ buf' = Blank
        /\ UNCHANGED <<master, page_map, spare_row, cache, fmt, job, ram, told>>
    BY DEF Commit, CommitPage
  <1>1. /\ master /\ told = None /\ spare_row \in {0, 1} /\ home = 1 - spare_row
        /\ home \in {0, 1} /\ 1 - home = spare_row /\ flash \in FlashType
        /\ buf \in Data /\ DOMAIN page_map = LogicalPages
        /\ [lp |-> Page0, data |-> buf] \in Page /\ entry \in Ids
    BY <1>0, AtWork
  <1>2. /\ Tidy(flash', home) /\ page_map[Page0] = <<home, Last(flash'[home])>>
        /\ flash'[home][Last(flash'[home])].data = buf /\ Clean(flash, flash')
    <2>1. CASE pc = "commit"
      <3>1. /\ Tidy(flash, home) /\ cache = [lp |-> Page0, data |-> buf]
            /\ \E i \in {1, 2, 3} : /\ page_map[Page0] = <<home, i>>
                                    /\ flash[home][i] = Erased
                                    /\ flash[home][i - 1] # Erased
        BY <2>1 DEF Committing
      <3>2. PICK i \in {1, 2, 3} : /\ page_map[Page0] = <<home, i>>
                                  /\ flash[home][i] = Erased
                                  /\ flash[home][i - 1] # Erased
        BY <3>1
      <3>3. page_map[Page0] \in Rows \X RowPages /\ cache \in Page /\ cache.lp = Page0
        BY <1>1, <3>1, <3>2, RowNumbers
      <3>4. Puts(flash', flash, page_map[Page0][1], page_map[Page0][2], cache)
        BY <1>0, <1>1, <3>3, ProgramRow
      <3>5. Puts(flash', flash, home, i, cache)
        BY <3>2, <3>4
      <3>6. Tidy(flash', home) /\ Last(flash'[home]) = i /\ flash'[home][i] = cache
        BY <3>1, <3>2, <3>3, <3>5, TidyWrite DEF Page0
      <3>7. Clean(flash, flash')
        BY <3>2, <3>5, PutsClean
      <3> QED BY <3>1, <3>2, <3>6, <3>7
    <2>2. CASE pc = "moveSecond"
      <3>1. /\ Tidy(flash, home) /\ HalfRow(flash[home]) /\ flash[home][0].data = buf
            /\ cache \in Page /\ cache.lp \in {0, 1} /\ (cache.lp = 0 => cache.data = buf)
            /\ page_map[cache.lp] = <<home, 1>>
            /\ page_map[Page0] = <<home, IF cache.lp = 0 THEN 1 ELSE 0>>
        BY <2>2 DEF Moving
      <3>2. page_map[cache.lp] \in Rows \X RowPages
        BY <1>1, <3>1, RowNumbers
      <3>3. Puts(flash', flash, page_map[cache.lp][1], page_map[cache.lp][2], cache)
        BY <1>0, <1>1, <3>1, <3>2, ProgramRow
      <3>4. Puts(flash', flash, home, 1, cache)
        BY <3>1, <3>3
      <3>5. /\ Tidy(flash', home) /\ flash'[home][0] = flash[home][0] /\ flash'[home][1] = cache
            /\ Last(flash'[home]) = IF cache.lp = 0 THEN 1 ELSE 0
        BY <3>1, <3>4, TidyByMove
      <3>6. Clean(flash, flash')
        BY <3>1, <3>4, PutsClean DEF HalfRow
      <3> QED BY <3>1, <3>5, <3>6
    <2> QED BY <1>0, <2>1, <2>2
  <1>3. Recovered' = buf
    BY <1>0, <1>1, <1>2, NextPowerUp
  <1>4. Types'
    BY <1>0, <1>1, <1>2, PageTypes DEF Types, Tidy, Others
  <1>5. Running'
    BY <1>0, <1>1, <1>2 DEF Running, home
  <1>6. Writing'
    <2>1. \A id \in Ids : job[id] \in Sane[id] /\ (id < entry + 1 => buf[id] = job[id])
      BY <1>0, <1>1, AtWork, EntryKept, PageTypes
    <2> QED BY <1>0, <1>1, <1>3, <2>1 DEF Writing, Busy
  <1>7. /\ Fresh' /\ Formatting' /\ Booting' /\ Spare' /\ Committing' /\ Moving'
        /\ Told' /\ Resting'
    BY <1>0, <1>1
       DEF Fresh, Formatting, Booting, Spare, Committing, Moving, Told, Resting, Busy
  <1> QED BY <1>2, <1>3, <1>4, <1>5, <1>6, <1>7

-----------------------------------------------------------------------------
(* The theorems *)

LEMMA InitInv == Init => IInv /\ Recovered = Blank
  <1> SUFFICES ASSUME Init PROVE IInv /\ Recovered = Blank
    OBVIOUS
  <1>0. /\ flash = [r \in Rows |-> ErasedRow] /\ master = FALSE
        /\ page_map = [l \in LogicalPages |-> <<0, 0>>] /\ cache_active = FALSE
        /\ pc = "boot" /\ fmt = 0 /\ buf = Blank /\ entry = 0
        /\ job = Blank /\ ram = Blank /\ told = None
    BY DEF Init, EmuInit, EmuRamCleared
  <1>1. flash \in FlashType /\ \A r \in Rows : flash[r] = ErasedRow
    BY <1>0, PageTypes DEF FlashType
  <1>2. Partial(flash)
    BY <1>1, PageTypes, RowNumbers DEF Partial
  <1>3. Types
    <2>1. DOMAIN page_map = LogicalPages
      BY <1>0
    <2>2. 0 \in 0 .. FormatSteps - 1
      BY RowNumbers DEF FormatSteps
    <2>3. buf \in Data /\ job \in Data /\ ram \in Data /\ told \in Data
      BY <1>0, PageTypes DEF None
    <2>4. master \in BOOLEAN
      BY <1>0
    <2>5. pc \in {"boot", "format", "load", "idle", "write",
                 "commit", "moveFirst", "moveErase", "moveSecond"}
      BY <1>0
    <2>6. fmt \in 0 .. FormatSteps - 1 /\ entry \in 0 .. 3
      BY <1>0, <2>2
    <2> QED BY <1>1, <2>1, <2>3, <2>4, <2>5, <2>6 DEF Types
  <1>4. Recovered = Blank
    BY <1>0, PowerUp
  <1>5. /\ Fresh /\ Formatting /\ Booting /\ Spare /\ Running /\ Committing /\ Moving
        /\ Writing /\ Told /\ Resting
    BY <1>0, <1>2
       DEF Fresh, Formatting, Booting, Spare, Running, Committing, Moving, Writing, Told,
           Resting, Busy
  <1> QED BY <1>3, <1>4, <1>5 DEF IInv

LEMMA StutterStep ==
  ASSUME IInv, UNCHANGED vars
  PROVE  IInv' /\ Recovered' = Recovered /\ UNCHANGED flash
  <1>0. /\ UNCHANGED <<flash, master, page_map, spare_row, cache, cache_active>>
        /\ UNCHANGED <<pc, fmt, from, buf, entry, job, ram, told>>
    BY DEF vars, nvmVars, emuRamVars, driver
  <1>1. Recovered' = Recovered
    BY <1>0, SameFlash DEF nvmVars
  <1>2. Types' /\ Fresh' /\ Formatting' /\ Booting' /\ Spare'
    BY <1>0 DEF IInv, Types, Fresh, Formatting, Booting, Spare
  <1>3. Running' /\ Committing' /\ Moving' /\ Told' /\ Resting'
    BY <1>0, <1>1 DEF IInv, Running, Committing, Moving, Told, Resting, Busy, home
  <1>4. Writing'
    BY <1>0, <1>1 DEF IInv, Writing, Busy, EntryIsIn
  <1> QED BY <1>0, <1>1, <1>2, <1>3, <1>4 DEF IInv

LEMMA NextInv == IInv /\ [Next]_vars => IInv' /\ Clean(flash, flash')
  <1> SUFFICES ASSUME IInv, [Next]_vars PROVE IInv' /\ Clean(flash, flash')
    OBVIOUS
  <1>1. CASE Boot
    BY <1>1, BootStep
  <1>2. CASE Format
    BY <1>2, FormatAction
  <1>3. CASE LoadEeprom
    BY <1>3, LoadStep, SameClean
  <1>4. ASSUME NEW c \in Configs, UpdateCfg(c) PROVE IInv' /\ Clean(flash, flash')
    BY <1>4, UpdateStep, SameClean
  <1>5. CASE WriteEntry
    BY <1>5, WriteStep, SameClean
  <1>6. CASE MoveFirst
    BY <1>6, MoveFirstStep
  <1>7. CASE MoveErase
    BY <1>7, MoveEraseStep
  <1>8. CASE Commit
    BY <1>8, CommitStep
  <1>9. CASE Acknowledge
    BY <1>9, AcknowledgeStep, SameClean
  <1>10. CASE Reset
    BY <1>10, ResetStep, SameClean
  <1>11. CASE UNCHANGED vars
    BY <1>11, StutterStep, SameClean
  <1> QED BY <1>1, <1>2, <1>3, <1>4, <1>5, <1>6, <1>7, <1>8, <1>9, <1>10, <1>11 DEF Next

THEOREM Invariance == Spec => []IInv
  BY InitInv, NextInv, PTL DEF Spec

\* A move always has an erased row to go to, which is not the master's, and
\* a power up never finds more than one pair of rows with the same pages.
THEOREM SpareStaysErased == Spec => []SpareIsErased
  <1>1. ASSUME IInv PROVE SpareIsErased
    <2>1. ASSUME pc \in {"load", "idle", "write", "commit", "moveFirst"}
          PROVE  spare_row \in Rows \ {MASTER_ROW} /\ flash[spare_row] = ErasedRow
      <3>1. Tidy(flash, home) /\ spare_row \in {0, 1}
        BY <1>1, <2>1 DEF IInv, Running, Committing, Moving, Spare
      <3>2. 1 - home = spare_row
        BY <3>1 DEF home
      <3> QED BY <3>1, <3>2, RowNumbers DEF Tidy
    <2>2. \A p, q \in Twins(flash) : p = q
      <3>1. CASE ~master
        BY <1>1, <3>1, PartialChecked DEF IInv, Fresh
      <3>2. CASE master
        <4>1. PICK d \in {0, 1} : Tidy(flash, d) \/ Torn(flash, d)
          BY <1>1, <3>2, Shapes
        <4>2. Twins(flash) = {} \/ Twins(flash) = {<<0, 1>>}
          BY <4>1, TidyTwins, TornTwins
        <4> QED BY <4>2
      <3> QED BY <3>1, <3>2
    <2> QED BY <2>1, <2>2 DEF SpareIsErased
  <1> QED BY <1>1, Invariance, PTL

\* A configuration acknowledged is what every later power up reads, whatever
\* resets come between, until another is accepted.
THEOREM AcknowledgedSurvives == Spec => []AckedSurvives
  <1>1. IInv => AckedSurvives
    BY DEF IInv, Told, AckedSurvives
  <1> QED BY <1>1, Invariance, PTL

\* No page is programmed twice without its row being erased between.
THEOREM ProgrammedOnce == Spec => NeverOverwrites
  <1>1. IInv /\ [Next]_vars =>
          [\A r \in Rows : \A i \in RowPages :
             flash'[r][i] # flash[r][i] =>
               flash[r][i] = Erased \/ flash'[r] = ErasedRow]_vars
    BY NextInv DEF Clean
  <1> QED BY <1>1, Invariance, PTL DEF Spec, NeverOverwrites

-----------------------------------------------------------------------------
(* The refinement of SettingsStore *)

phase == IF pc \in {"boot", "format", "load"} THEN "down"
         ELSE IF pc = "idle" THEN "up" ELSE "busy"

next == IF EntryIsIn THEN entry + 1 ELSE entry

\* The settings of the two specifications are the same ones.
LEMMA SameSettings ==
  /\ Store!Ids = Ids /\ Store!Blank = Blank
  /\ \A d : Store!Repaired(d) = Repaired(d)
  /\ \A c : Accepts(c) => Store!Accepts(c)
  /\ Configs \subseteq Store!Configs
  <1>1. Store!Ids = Ids
    BY DEF Store!Ids, Ids
  <1>2. Store!Blank = Blank /\ \A d : Store!Repaired(d) = Repaired(d)
    BY <1>1 DEF Store!Blank, Blank, Store!Repaired, Repaired
  <1>3. \A c : Accepts(c) => Store!Accepts(c)
    BY DEF Accepts, Store!Accepts, EMU_EEPROM_MOTION_THRESHOLD, EMU_EEPROM_BUZZER_ENABLED,
           Store!EMU_EEPROM_MOTION_THRESHOLD, Store!EMU_EEPROM_BUZZER_ENABLED
  <1>4. Configs \subseteq Store!Configs
    BY <1>1 DEF Configs, Store!Configs, Data, Store!Data, Value, Store!Value
  <1> QED BY <1>1, <1>2, <1>3, <1>4

LEMMA InitStores == Init => Store!Init
  <1> SUFFICES ASSUME Init PROVE Store!Init
    OBVIOUS
  <1>1. Recovered = Blank
    BY InitInv
  <1>2. ram = Blank /\ job = Blank /\ pc = "boot" /\ entry = 0
    BY DEF Init
  <1> QED BY <1>1, <1>2, SameSettings DEF Store!Init, EntryIsIn

\* Nothing that SettingsStore speaks of changes.
LEMMA Stutters ==
  ASSUME Recovered' = Recovered, ram' = ram, phase' = phase, job' = job, next' = next
  PROVE  UNCHANGED Store!vars
  BY DEF Store!vars, phase, next

\* An entry is in: what a power up reads has it, and no other difference.
LEMMA EntryWritten ==
  ASSUME phase = "busy", phase' = "busy", next = entry, next' = entry + 1, entry \in Ids,
         Recovered' = [Recovered EXCEPT ![entry] = job[entry]],
         ram' = ram, job' = job
  PROVE  Store!Write
  BY SameSettings DEF Store!Write, phase, next

LEMMA NextStores == IInv /\ [Next]_vars => [Store!Next]_(Store!vars)
  <1> SUFFICES ASSUME IInv, [Next]_vars PROVE Store!Next \/ UNCHANGED Store!vars
    OBVIOUS
  <1>1. CASE Boot
    <2>1. Recovered' = Recovered
      BY <1>1, BootStep
    <2>2. ram' = ram /\ job' = job /\ phase' = phase /\ next' = next
      BY <1>1 DEF Boot, phase, next, EntryIsIn
    <2> QED BY <2>1, <2>2, Stutters
  <1>2. CASE Format
    <2>1. Recovered' = Recovered
      BY <1>2, FormatAction
    <2>2. ram' = ram /\ job' = job /\ phase' = phase /\ next' = next
      BY <1>2 DEF Format, phase, next, EntryIsIn
    <2> QED BY <2>1, <2>2, Stutters
  <1>3. CASE LoadEeprom
    <2>1. Recovered' = Recovered /\ ram' = Repaired(Recovered)
      BY <1>3, LoadStep
    <2>2. phase = "down" /\ phase' = "up" /\ job' = job /\ next' = next
      BY <1>3 DEF LoadEeprom, phase, next, EntryIsIn
    <2>3. Store!Load
      BY <2>1, <2>2, SameSettings DEF Store!Load, phase, next
    <2> QED BY <2>3 DEF Store!Next
  <1>4. ASSUME NEW c \in Configs, UpdateCfg(c) PROVE Store!Next
    <2>1. Recovered' = Recovered
      BY <1>4, UpdateStep
    <2>2. /\ phase = "up" /\ Accepts(c) /\ phase' = "busy" /\ job' = c /\ next' = 0 /\ ram' = ram
      BY <1>4 DEF UpdateCfg, phase, next, EntryIsIn
    <2>3. Store!Accept(c)
      BY <2>1, <2>2, SameSettings DEF Store!Accept, phase, next
    <2> QED BY <2>3, SameSettings DEF Store!Next
  <1>5. CASE WriteEntry
    <2>1. Recovered' = Recovered
      BY <1>5, WriteStep
    <2>2. ram' = ram /\ job' = job /\ phase' = phase /\ next' = next
      BY <1>5 DEF WriteEntry, phase, next, EntryIsIn
    <2> QED BY <2>1, <2>2, Stutters
  <1>6. CASE MoveFirst
    <2>1. Recovered' = IF from < spare_row THEN buf ELSE Recovered
      BY <1>6, MoveFirstStep
    <2>2. buf = [Recovered EXCEPT ![entry] = job[entry]] /\ entry \in Ids
      BY <1>6, AtWork DEF MoveFirst
    <2>3. /\ ram' = ram /\ job' = job /\ phase = "busy" /\ phase' = "busy" /\ next = entry
          /\ next' = IF from < spare_row THEN entry + 1 ELSE entry
      BY <1>6 DEF MoveFirst, phase, next, EntryIsIn
    <2>4. CASE from < spare_row
      <3>1. Store!Write
        BY <2>1, <2>2, <2>3, <2>4, EntryWritten
      <3> QED BY <3>1 DEF Store!Next
    <2>5. CASE ~(from < spare_row)
      BY <2>1, <2>3, <2>5, Stutters
    <2> QED BY <2>4, <2>5
  <1>7. CASE MoveErase
    <2>1. Recovered' = buf
      BY <1>7, MoveEraseStep
    <2>2. buf = [Recovered EXCEPT ![entry] = job[entry]] /\ entry \in Ids
      BY <1>7, AtWork DEF MoveErase
    <2>3. /\ ram' = ram /\ job' = job /\ phase = "busy" /\ phase' = "busy" /\ next' = entry + 1
          /\ next = IF from < spare_row THEN entry + 1 ELSE entry
      BY <1>7 DEF MoveErase, phase, next, EntryIsIn
    <2>4. CASE from < spare_row
      <3>1. Recovered = buf
        BY <1>7, <2>4 DEF IInv, Writing, Busy, EntryIsIn, MoveErase
      <3> QED BY <2>1, <2>3, <2>4, <3>1, Stutters
    <2>5. CASE ~(from < spare_row)
      <3>1. Store!Write
        BY <2>1, <2>2, <2>3, <2>5, EntryWritten
      <3> QED BY <3>1 DEF Store!Next
    <2> QED BY <2>4, <2>5
  <1>8. CASE Commit
    <2>1. Recovered' = buf
      BY <1>8, CommitStep
    <2>2. buf = [Recovered EXCEPT ![entry] = job[entry]] /\ entry \in Ids
      BY <1>8, AtWork DEF Commit
    <2>3. /\ ram' = ram /\ job' = job /\ phase = "busy" /\ phase' = "busy" /\ next' = entry + 1
          /\ next = IF pc = "moveSecond" THEN entry + 1 ELSE entry
      BY <1>8 DEF Commit, phase, next, EntryIsIn
    <2>4. CASE pc = "moveSecond"
      <3>1. Recovered = buf
        BY <2>4 DEF IInv, Writing, Busy, EntryIsIn
      <3> QED BY <2>1, <2>3, <2>4, <3>1, Stutters
    <2>5. CASE pc # "moveSecond"
      <3>1. Store!Write
        BY <2>1, <2>2, <2>3, <2>5, EntryWritten
      <3> QED BY <3>1 DEF Store!Next
    <2> QED BY <2>4, <2>5
  <1>9. CASE Acknowledge
    <2>1. Recovered' = Recovered
      BY <1>9, AcknowledgeStep
    <2>2. /\ phase = "busy" /\ next \notin Ids /\ phase' = "up" /\ ram' = job /\ job' = Blank
          /\ next' = 0
      BY <1>9 DEF Acknowledge, Idle, phase, next, EntryIsIn
    <2>3. Store!Finish
      BY <2>1, <2>2, SameSettings DEF Store!Finish, phase, next
    <2> QED BY <2>3 DEF Store!Next
  <1>10. CASE Reset
    <2>1. Recovered' = Recovered
      BY <1>10, ResetStep
    <2>2. phase' = "down" /\ ram' = Blank /\ job' = Blank /\ next' = 0
      BY <1>10 DEF Reset, phase, next, EntryIsIn
    <2>3. Store!Reset
      BY <2>1, <2>2, SameSettings DEF Store!Reset, phase, next
    <2> QED BY <2>3 DEF Store!Next
  <1>11. CASE UNCHANGED vars
    <2>1. Recovered' = Recovered
      BY <1>11, StutterStep
    <2>2. ram' = ram /\ job' = job /\ phase' = phase /\ next' = next
      BY <1>11 DEF vars, nvmVars, emuRamVars, driver, phase, next, EntryIsIn
    <2> QED BY <2>1, <2>2, Stutters
  <1> QED BY <1>1, <1>2, <1>3, <1>4, <1>5, <1>6, <1>7, <1>8, <1>9, <1>10, <1>11 DEF Next

\* The emulated EEPROM is the settings store it promises to be: each step of
\* the flash is one step of SettingsStore or none, resets included.
THEOREM StoreIsImplemented == Spec => ImplementsSettings
  <1>1. Spec => Store!Init /\ [][Store!Next]_(Store!vars)
    BY InitStores, NextStores, Invariance, PTL DEF Spec
  <1> QED BY <1>1 DEF ImplementsSettings, Store!Spec
=============================================================================
