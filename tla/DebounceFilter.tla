--------------------------- MODULE DebounceFilter ---------------------------
(***************************************************************************)
(* One debouncer of platC.c bit for bit: the word filter, shifted at every *)
(* tick, and the variable (button, ble, battery) it decides.  Module       *)
(* Debounce, which PlatC uses, abstracts the word; here both run side by   *)
(* side.                                                                   *)
(***************************************************************************)
EXTENDS Debounce

Bits == 0 .. FilterWidth - 1

(* #define DEBOUNCE_SET_MASK 0xFF, as a word: bit 0 is the lowest.         *)
DEBOUNCE_SET_MASK == [i \in Bits |-> IF i < SetRun THEN 1 ELSE 0]

(* #define DEBOUNCE_UNSET_MASK ((~DEBOUNCE_SET_MASK) & 0xFF)               *)
DEBOUNCE_UNSET_MASK == [i \in Bits |-> 0]

VARIABLES
  filter,  (* The word, of FilterWidth bits.                               *)
  level,   (* What the pin is taken to be: 1 active.                       *)
  d,       (* The abstraction of filter.                                   *)
  held,    (* History: ticks since the pin last changed, to FilterWidth, ... *)
  before   (* ... and how long it had its other level before that.         *)

vars == <<filter, level, d, held, before>>

Init ==
  /\ filter = DEBOUNCE_UNSET_MASK
  /\ level = 0
  /\ d = Cleared
  /\ held = FilterWidth
  /\ before = 0

(* The newest sample. *)
Newest == filter[0]

(* Variant: the word is as narrow as the masks. *)
Shifted_byte(b) ==
  [i \in Bits |-> IF i = 0 THEN b
                  ELSE IF i < SetRun THEN filter[i - 1] ELSE 0]

(* filter = (filter << 1) | b in a word of FilterWidth bits.               *)
Shifted(b) == [i \in Bits |-> IF i = 0 THEN b ELSE filter[i - 1]]

Sample(b) ==
  /\ filter' = Shifted(b)
  /\ level' = IF filter' = DEBOUNCE_SET_MASK THEN 1
              ELSE IF filter' = DEBOUNCE_UNSET_MASK THEN 0
              ELSE level
  /\ d' = Shift(d, b)
  /\ held' = IF b = Newest THEN Longer(held, FilterWidth) ELSE 1
  /\ before' = IF b = Newest THEN before ELSE held

Next == \E b \in Bit : Sample(b)

Spec == Init /\ [][Next]_vars

-----------------------------------------------------------------------------
(* Debounce tells the two comparisons from each other and from the rest    *)
(* exactly as the word does, after any sequence of samples.                *)
SameVerdicts ==
  /\ IsSet(d) <=> filter = DEBOUNCE_SET_MASK
  /\ IsUnset(d) <=> filter = DEBOUNCE_UNSET_MASK

(* What the debouncer takes for the level of a pin.  Bounces are ignored:  *)
(* no change is taken before the pin kept its new level for SetRun ticks,  *)
(* no release before FilterWidth.  And clean levels are taken: inactive    *)
(* after as many ticks as the word has bits, active after SetRun if it had *)
(* been inactive for the rest of the word, and then for as long as it      *)
(* stays so.  (Without that, a pin held active for good may never be taken *)
(* as active: the masks are of one byte, and the word is not.)             *)
TakesCleanLevels ==
  [][/\ level = 0 /\ level' = 1 => held' >= SetRun
     /\ level = 1 /\ level' = 0 => held' >= FilterWidth
     /\ Newest' = 0 /\ held' = FilterWidth => level' = 0
     /\ Newest' = 1 /\ held' >= SetRun /\ before' >= FilterWidth - SetRun
          => level' = 1]_vars
=============================================================================
