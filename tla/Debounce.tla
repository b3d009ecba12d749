------------------------------ MODULE Debounce ------------------------------
(***************************************************************************)
(* The software debouncer that rkh_hook_timetick (platC.c) runs on each of *)
(* the push button, BLE status and battery status pins, every tick:        *)
(*                                                                         *)
(*     filter = (filter << 1) | PIN_GET_STATUS();                          *)
(*     if (DEBOUNCE_SET_MASK == filter)        level = 1;                  *)
(*     else if (DEBOUNCE_UNSET_MASK == filter) level = 0;                  *)
(*                                                                         *)
(* filter is a rui32_t and the masks are 0xFF and 0, so level becomes 1    *)
(* exactly when the last 8 samples are 1 and the 24 before them are 0, and *)
(* 0 when the last 32 samples are 0.  Of a word of FilterWidth bits the    *)
(* two comparisons see no more than                                        *)
(*   lvl   the newest sample,                                              *)
(*   run   how many times it was sampled in a row, up to FilterWidth zeros *)
(*         and SetRun ones; TooLong stands for ones that cannot become     *)
(*         DEBOUNCE_SET_MASK, being too many or too soon after others.     *)
(* DebounceFilter relates this to the shift register bit for bit.          *)
(***************************************************************************)
EXTENDS Naturals

CONSTANTS
  SetRun,      (* Ones in DEBOUNCE_SET_MASK: 8 in the code.    *)
  FilterWidth  (* Bits of the static variable filter: 32.      *)

ASSUME DebounceAssumption ==
  /\ SetRun \in Nat \ {0}
  /\ FilterWidth \in Nat
  /\ SetRun < FilterWidth

Bit == {0, 1}

TooLong == SetRun + 1

Line == [lvl : Bit, run : Nat]

(* A static filter starts at 0: every bit of the word is a 0 sample. *)
Cleared == [lvl |-> 0, run |-> FilterWidth]

Longer(n, cap) == IF n < cap THEN n + 1 ELSE cap

(* filter = (filter << 1) | b *)
Shift(d, b) ==
  [lvl |-> b,
   run |-> IF b = d.lvl
           THEN Longer(d.run, IF b = 0 THEN FilterWidth ELSE TooLong)
           ELSE IF b = 1 /\ d.run < FilterWidth - SetRun THEN TooLong
           ELSE 1]

(* DEBOUNCE_SET_MASK == filter *)
IsSet(d) == d.lvl = 1 /\ d.run = SetRun

(* DEBOUNCE_UNSET_MASK == filter *)
IsUnset(d) == d.lvl = 0 /\ d.run = FilterWidth
=============================================================================
