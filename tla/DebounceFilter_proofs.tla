------------------------ MODULE DebounceFilter_proofs ------------------------
(***************************************************************************)
(* That the run lengths of module Debounce stand for the words of platC.c, *)
(* for every width of the word and of the mask, and that those words take  *)
(* the levels of a pin as TakesCleanLevels says.                           *)
(***************************************************************************)
EXTENDS DebounceFilter, TLAPS

USE DebounceAssumption

(* What d says of the word.  A run of zeros is followed by a one; a run of *)
(* ones that may become the mask has zeros wherever the mask will need     *)
(* them; one that may not is longer than the mask, or has a one among the  *)
(* bits that will be the upper ones when it is as long as the mask.        *)
Zeros ==
  /\ d.run \in 1 .. FilterWidth
  /\ \A i \in Bits : i < d.run => filter[i] = 0
  /\ d.run < FilterWidth => filter[d.run] = 1

Ones ==
  /\ d.run \in 1 .. SetRun
  /\ \A i \in Bits : i < d.run => filter[i] = 1
  /\ \A i \in Bits :
       d.run <= i /\ i < d.run + FilterWidth - SetRun => filter[i] = 0

OnesTooLong == \A i \in 0 .. SetRun : filter[i] = 1

OnesTooSoon(r, j) ==
  /\ \A i \in Bits : i < r => filter[i] = 1
  /\ filter[r] = 0
  /\ r < j /\ j < r + FilterWidth - SetRun
  /\ filter[j] = 1

Hopeless ==
  /\ d.run = TooLong
  /\ OnesTooLong \/ \E r \in 1 .. SetRun, j \in Bits : OnesTooSoon(r, j)

Abstracts ==
  /\ filter \in [Bits -> Bit]
  /\ d \in Line
  /\ d.lvl = filter[0]
  /\ d.lvl = 0 => Zeros
  /\ d.lvl = 1 => Ones \/ Hopeless

\* Both start with a word of zeros.
LEMMA AbstractsInit == Init => Abstracts
BY DEF Init, Abstracts, Zeros, Cleared, Line, Bit, Bits, DEBOUNCE_UNSET_MASK

(* Shifting a word and its abstraction by the same sample.                 *)
LEMMA AbstractsShift ==
  ASSUME Abstracts, NEW b \in Bit, filter' = Shifted(b), d' = Shift(d, b)
  PROVE  Abstracts'
<1>1. /\ filter' \in [Bits -> Bit]
      /\ filter'[0] = b
      /\ \A i \in Bits : i + 1 < FilterWidth => filter'[i + 1] = filter[i]
      /\ \A i \in Bits : i > 0 => i - 1 \in Bits /\ filter'[i] = filter[i - 1]
  BY DEF Shifted, Abstracts, Bits, Bit
<1>2. d' \in Line /\ d'.lvl = b /\ d.run \in Nat /\ d.lvl \in Bit
  BY DEF Abstracts, Shift, Line, Bit, Longer, TooLong
<1>3. CASE b = 0
  <2>1. CASE d.lvl = 0
    <3>1. d'.run = IF d.run < FilterWidth THEN d.run + 1 ELSE FilterWidth
      BY <1>3, <2>1 DEF Shift, Longer
    <3>2. Zeros
      BY <2>1 DEF Abstracts
    <3>3. d'.run \in 1 .. FilterWidth
      BY <1>2, <3>1
    <3>4. ASSUME NEW i \in Bits, i < d'.run PROVE filter'[i] = 0
      <4>1. CASE i = 0
        BY <1>1, <1>3, <4>1
      <4>2. CASE i > 0
        <5>1. i - 1 \in Bits /\ i - 1 < d.run
          BY <3>1, <3>2, <3>4, <4>2 DEF Bits, Zeros
        <5> QED
          BY <1>1, <3>2, <4>2, <5>1 DEF Zeros
      <4> QED
        BY <4>1, <4>2 DEF Bits
    <3>5. d'.run < FilterWidth => filter'[d'.run] = 1
      <4> SUFFICES ASSUME d'.run < FilterWidth PROVE filter'[d'.run] = 1
        OBVIOUS
      <4>1. d.run \in Bits /\ d.run + 1 < FilterWidth /\ d'.run = d.run + 1
        BY <1>2, <3>1 DEF Bits
      <4> QED
        BY <1>1, <3>2, <4>1 DEF Zeros
    <3>6. Zeros'
      BY <3>3, <3>4, <3>5 DEF Zeros, Bits
    <3> QED
      BY <1>1, <1>2, <1>3, <3>6 DEF Abstracts
  <2>2. CASE d.lvl = 1
    <3>1. d'.run = 1 /\ filter[0] = 1
      BY <1>2, <1>3, <2>2 DEF Shift, Abstracts
    <3>2. filter'[1] = 1
      <4>1. 0 \in Bits /\ 0 + 1 < FilterWidth
        BY DEF Bits
      <4> QED
        BY <1>1, <3>1, <4>1
    <3>3. Zeros'
      BY <1>1, <1>3, <3>1, <3>2 DEF Zeros, Bits
    <3> QED
      BY <1>1, <1>2, <1>3, <3>3 DEF Abstracts
  <2> QED
    BY <1>2, <2>1, <2>2 DEF Bit
<1>5. (\A i \in Bits : i < SetRun => filter[i] = 1) /\ b = 1 => OnesTooLong'
  <2> SUFFICES ASSUME \A i \in Bits : i < SetRun => filter[i] = 1, b = 1,
                      NEW i \in 0 .. SetRun
               PROVE  filter'[i] = 1
    BY DEF OnesTooLong
  <2>1. CASE i = 0
    BY <1>1, <2>1
  <2>2. CASE i > 0
    <3>1. i \in Bits /\ i - 1 \in Bits /\ i - 1 < SetRun
      BY <2>2 DEF Bits
    <3> QED
      BY <1>1, <2>2, <3>1
  <2> QED
    BY <2>1, <2>2
<1>4. CASE b = 1
  <2>1. CASE d.lvl = 0 /\ d.run < FilterWidth - SetRun
    <3>1. d'.run = TooLong /\ Zeros
      BY <1>2, <1>4, <2>1 DEF Shift, Abstracts
    <3>2. /\ d.run \in 1 .. FilterWidth
          /\ d.run \in Bits /\ d.run + 1 < FilterWidth
          /\ filter[d.run] = 1
      BY <1>2, <2>1, <3>1 DEF Zeros, Bits
    <3>3. PICK j \in Bits : j = d.run + 1 /\ filter'[j] = 1
      BY <1>1, <3>2 DEF Bits
    <3>4. filter'[1] = 0
      <4>1. 0 \in Bits /\ 1 \in Bits /\ filter[0] = 0
        BY <2>1 DEF Bits, Abstracts
      <4> QED
        BY <1>1, <4>1 DEF Bits
    <3>5. 1 < j /\ j < 1 + FilterWidth - SetRun
      BY <2>1, <3>2, <3>3
    <3>6. \A i \in Bits : i < 1 => filter'[i] = 1
      BY <1>1, <1>4 DEF Bits
    <3>7. OnesTooSoon(1, j)'
      BY <3>3, <3>4, <3>5, <3>6 DEF OnesTooSoon, Bits
    <3>8. Hopeless'
      BY <3>1, <3>3, <3>7 DEF Hopeless, TooLong, Bits
    <3> QED
      BY <1>1, <1>2, <1>4, <3>8 DEF Abstracts
  <2>2. CASE d.lvl = 0 /\ d.run >= FilterWidth - SetRun
    <3>1. d'.run = 1 /\ Zeros
      BY <1>2, <1>4, <2>2 DEF Shift, Abstracts
    <3>2. \A i \in Bits : i < 1 => filter'[i] = 1
      BY <1>1, <1>4 DEF Bits
    <3>3. ASSUME NEW i \in Bits, 1 <= i, i < 1 + FilterWidth - SetRun
          PROVE  filter'[i] = 0
      <4>1. i - 1 \in Bits /\ i - 1 < d.run
        BY <1>2, <2>2, <3>3 DEF Bits
      <4> QED
        BY <1>1, <3>1, <3>3, <4>1 DEF Zeros, Bits
    <3>4. Ones'
      BY <3>1, <3>2, <3>3 DEF Ones, Bits
    <3> QED
      BY <1>1, <1>2, <1>4, <3>4 DEF Abstracts
  <2>3. CASE d.lvl = 1 /\ Ones /\ d.run < SetRun
    <3>1. d'.run = d.run + 1
      BY <1>2, <1>4, <2>3 DEF Shift, Longer, TooLong
    <3>2. ASSUME NEW i \in Bits, i < d'.run PROVE filter'[i] = 1
      <4>1. CASE i = 0
        BY <1>1, <1>4, <4>1
      <4>2. CASE i > 0
        <5>1. i - 1 \in Bits /\ i - 1 < d.run
          BY <1>2, <3>1, <3>2, <4>2 DEF Bits
        <5> QED
          BY <1>1, <2>3, <4>2, <5>1 DEF Ones
      <4> QED
        BY <4>1, <4>2 DEF Bits
    <3>3. ASSUME NEW i \in Bits, d'.run <= i, i < d'.run + FilterWidth - SetRun
          PROVE  filter'[i] = 0
      <4>1. /\ i > 0 /\ i - 1 \in Bits
            /\ d.run <= i - 1 /\ i - 1 < d.run + FilterWidth - SetRun
        BY <1>2, <3>1, <3>3 DEF Bits
      <4> QED
        BY <1>1, <2>3, <4>1 DEF Ones
    <3>4. d'.run \in 1 .. SetRun
      BY <1>2, <2>3, <3>1
    <3>5. Ones'
      BY <3>2, <3>3, <3>4 DEF Ones, Bits
    <3> QED
      BY <1>1, <1>2, <1>4, <3>5 DEF Abstracts
  <2>4. CASE d.lvl = 1 /\ Ones /\ d.run = SetRun
    <3>1. d'.run = TooLong
      BY <1>2, <1>4, <2>4 DEF Shift, Longer, TooLong
    <3>2. \A i \in Bits : i < SetRun => filter[i] = 1
      BY <2>4 DEF Ones
    <3>3. OnesTooLong'
      BY <3>2, <1>5, <1>4
    <3> QED
      BY <1>1, <1>2, <1>4, <3>1, <3>3 DEF Abstracts, Hopeless, TooLong
  <2>5. CASE d.lvl = 1 /\ Hopeless
    <3>1. d'.run = TooLong
      BY <1>2, <1>4, <2>5 DEF Shift, Longer, TooLong, Hopeless
    <3>2. CASE OnesTooLong
      <4>1. OnesTooLong'
        BY <1>4, <1>5, <3>2 DEF OnesTooLong, Bits
      <4> QED
        BY <1>1, <1>2, <1>4, <3>1, <4>1 DEF Abstracts, Hopeless
    <3>3. CASE \E r \in 1 .. SetRun, j \in Bits : OnesTooSoon(r, j)
      <4>1. PICK r \in 1 .. SetRun, j \in Bits : OnesTooSoon(r, j)
        BY <3>3
      <4>2. CASE r = SetRun
        <5>1. OnesTooLong'
          BY <1>4, <1>5, <4>1, <4>2 DEF OnesTooSoon
        <5> QED
          BY <1>1, <1>2, <1>4, <3>1, <5>1 DEF Abstracts, Hopeless
      <4>3. CASE r < SetRun
        <5>1. r + 1 \in 1 .. SetRun /\ j + 1 \in Bits
          BY <4>1, <4>3 DEF OnesTooSoon, Bits
        <5> DEFINE q == r + 1
                   k == j + 1
        <5>2. ASSUME NEW i \in Bits, i < q PROVE filter'[i] = 1
          <6>1. CASE i = 0
            BY <1>1, <1>4, <6>1
          <6>2. CASE i > 0
            <7>1. i - 1 \in Bits /\ i - 1 < r
              BY <5>2, <6>2 DEF Bits
            <7> QED
              BY <1>1, <4>1, <6>2, <7>1 DEF OnesTooSoon
          <6> QED
            BY <6>1, <6>2 DEF Bits
        <5>3. filter'[q] = 0 /\ filter'[k] = 1
          <6>1. r \in Bits /\ r + 1 < FilterWidth /\ j + 1 < FilterWidth
            BY <5>1 DEF Bits
          <6> QED
            BY <1>1, <4>1, <6>1 DEF OnesTooSoon
        <5>4. q < k /\ k < q + FilterWidth - SetRun
          BY <4>1 DEF OnesTooSoon, Bits
        <5> HIDE DEF q, k
        <5>5. OnesTooSoon(q, k)'
          BY <5>2, <5>3, <5>4 DEF OnesTooSoon, Bits
        <5>6. Hopeless'
          BY <3>1, <5>1, <5>5 DEF Hopeless, TooLong, Bits, q, k
        <5> QED
          BY <1>1, <1>2, <1>4, <5>6 DEF Abstracts
      <4> QED
        BY <4>2, <4>3
    <3> QED
      BY <2>5, <3>2, <3>3 DEF Hopeless
  <2>6. d.lvl = 1 /\ Ones => d.run < SetRun \/ d.run = SetRun
    BY DEF Ones
  <2> QED
    BY <1>2, <2>1, <2>2, <2>3, <2>4, <2>5, <2>6 DEF Bit, Abstracts
<1> QED
  BY <1>3, <1>4 DEF Bit

\* What is known of the word decides both comparisons.
LEMMA AbstractsVerdicts == Abstracts => SameVerdicts
<1> SUFFICES ASSUME Abstracts PROVE SameVerdicts
  OBVIOUS
<1>1. /\ filter \in [Bits -> Bit] /\ 0 \in Bits /\ SetRun \in Bits
      /\ d.lvl \in Bit /\ d.lvl = filter[0]
  BY DEF Abstracts, Bits, Line
<1>2. CASE d.lvl = 0
  <2>1. Zeros
    BY <1>2 DEF Abstracts
  <2>2. filter # DEBOUNCE_SET_MASK
    <3>1. DEBOUNCE_SET_MASK[0] = 1
      BY DEF DEBOUNCE_SET_MASK, Bits
    <3>2. filter[0] = 0
      BY <1>1, <1>2
    <3> QED
      BY <3>1, <3>2
  <2>3. CASE d.run = FilterWidth
    <3>1. filter = DEBOUNCE_UNSET_MASK
      BY <1>1, <2>1, <2>3 DEF Zeros, DEBOUNCE_UNSET_MASK, Bits
    <3> QED
      BY <1>2, <2>2, <2>3, <3>1 DEF SameVerdicts, IsSet, IsUnset
  <2>4. CASE d.run < FilterWidth
    <3>1. filter # DEBOUNCE_UNSET_MASK
      BY <2>1, <2>4 DEF Zeros, DEBOUNCE_UNSET_MASK, Bits
    <3> QED
      BY <1>2, <2>2, <2>4, <3>1 DEF SameVerdicts, IsSet, IsUnset
  <2> QED
    BY <2>1, <2>3, <2>4 DEF Zeros
<1>3. CASE d.lvl = 1
  <2>1. filter # DEBOUNCE_UNSET_MASK
    <3>1. DEBOUNCE_UNSET_MASK[0] = 0
      BY DEF DEBOUNCE_UNSET_MASK, Bits
    <3>2. filter[0] = 1
      BY <1>1, <1>3
    <3> QED
      BY <3>1, <3>2
  <2>2. CASE Ones /\ d.run = SetRun
    <3>1. filter = DEBOUNCE_SET_MASK
      BY <1>1, <2>2 DEF Ones, DEBOUNCE_SET_MASK, Bits
    <3> QED
      BY <1>3, <2>1, <2>2, <3>1 DEF SameVerdicts, IsSet, IsUnset
  <2>3. CASE Ones /\ d.run < SetRun
    <3>1. d.run \in Bits /\ filter[d.run] = 0
      BY <2>3 DEF Ones, Bits
    <3>2. filter # DEBOUNCE_SET_MASK
      BY <2>3, <3>1 DEF DEBOUNCE_SET_MASK
    <3> QED
      BY <1>3, <2>1, <2>3, <3>2 DEF SameVerdicts, IsSet, IsUnset
  <2>4. CASE Hopeless
    <3>1. d.run # SetRun
      BY <2>4 DEF Hopeless, TooLong
    <3>2. OnesTooLong => filter # DEBOUNCE_SET_MASK
      BY <1>1 DEF OnesTooLong, DEBOUNCE_SET_MASK, Bits
    <3>3. ASSUME NEW r \in 1 .. SetRun, NEW j \in Bits, OnesTooSoon(r, j)
          PROVE  filter # DEBOUNCE_SET_MASK
      BY <3>3 DEF OnesTooSoon, DEBOUNCE_SET_MASK, Bits
    <3>4. filter # DEBOUNCE_SET_MASK
      BY <2>4, <3>2, <3>3 DEF Hopeless
    <3> QED
      BY <1>3, <2>1, <3>1, <3>4 DEF SameVerdicts, IsSet, IsUnset
  <2>5. Ones => d.run < SetRun \/ d.run = SetRun
    BY DEF Ones
  <2> QED
    BY <1>3, <2>2, <2>3, <2>4, <2>5 DEF Abstracts
<1> QED
  BY <1>1, <1>2, <1>3 DEF Bit

(* After any sequence of samples, Debounce decides whether the word equals *)
(* either mask as the comparison of the words does: PlatC loses nothing by *)
(* keeping run lengths instead of words.                                   *)
THEOREM AbstractionExact == Spec => []SameVerdicts
<1>1. Init => Abstracts
  BY AbstractsInit
<1>2. Abstracts /\ [Next]_vars => Abstracts'
  <2> SUFFICES ASSUME Abstracts, [Next]_vars PROVE Abstracts'
    OBVIOUS
  <2>1. CASE Next
    BY <2>1, AbstractsShift DEF Next, Sample
  <2>2. CASE UNCHANGED vars
    BY <2>2 DEF vars, Abstracts, Zeros, Ones, Hopeless, OnesTooLong, OnesTooSoon
  <2> QED
    BY <2>1, <2>2
<1> QED
  BY <1>1, <1>2, AbstractsVerdicts, PTL DEF Spec
-----------------------------------------------------------------------------
(* The levels a debouncer takes.                                           *)

(* What the history says of the word: its lower bits are as old as the     *)
(* pin's level, and those behind them as old as the one before.            *)
Runs ==
  /\ filter \in [Bits -> Bit] /\ level \in Bit
  /\ held \in 1 .. FilterWidth /\ before \in 0 .. FilterWidth
  /\ held < FilterWidth => before > 0
  /\ \A i \in Bits : i < held => filter[i] = Newest
  /\ \A i \in Bits : held <= i /\ i < held + before => filter[i] # Newest

(* A level taken for active is kept. *)
Kept ==
  Newest = 1 /\ held >= SetRun /\ before >= FilterWidth - SetRun => level = 1

\* A word of zeros, which the pin is taken to have had for long.
LEMMA RunsInit == Init => Runs /\ Kept
  BY DEF Init, Runs, Kept, Newest, Bit, Bits, DEBOUNCE_UNSET_MASK

\* The newest sample makes its run longer, or begins one.
LEMMA RunsShift == ASSUME Runs, NEW b \in Bit, Sample(b) PROVE Runs' /\ Newest' = b
  <1>1. 0 \in Bits /\ filter \in [Bits -> Bit] /\ Newest \in Bit
    BY DEF Runs, Newest, Bits
  <1>2. /\ filter' = [i \in Bits |-> IF i = 0 THEN b ELSE filter[i - 1]]
        /\ held' = IF b = Newest THEN Longer(held, FilterWidth) ELSE 1
        /\ before' = IF b = Newest THEN before ELSE held
    BY DEF Sample, Shifted
  <1>3. \A i \in Bits : i # 0 => i - 1 \in Bits
    BY DEF Bits
  <1>4. filter' \in [Bits -> Bit]
    BY <1>1, <1>2, <1>3
  <1>5. filter'[0] = b /\ Newest' = b
    BY <1>1, <1>2 DEF Newest
  <1>6. \A i \in Bits : i # 0 => filter'[i] = filter[i - 1]
    BY <1>2
  <1>7. level' \in Bit
    BY DEF Sample, Runs, Bit
  <1>8. CASE b = Newest
    <2>1. held' = Longer(held, FilterWidth) /\ before' = before
      BY <1>2, <1>8
    <2>2. held' \in 1 .. FilterWidth /\ held' <= held + 1 /\ before' \in 0 .. FilterWidth
          /\ (held' = held + 1 \/ held' = FilterWidth)
      BY <2>1 DEF Runs, Longer
    <2>3. held' < FilterWidth => before' > 0
      BY <2>1, <2>2 DEF Runs, Longer
    <2>4. ASSUME NEW i \in Bits, i < held' PROVE filter'[i] = b
      <3>1. CASE i = 0
        BY <1>5, <3>1
      <3>2. CASE i # 0
        <4>1. i - 1 \in Bits /\ i - 1 < held
          BY <1>3, <2>2, <2>4, <3>2 DEF Runs, Bits
        <4> QED BY <1>6, <1>8, <3>2, <4>1 DEF Runs
      <3> QED BY <3>1, <3>2
    <2>5. ASSUME NEW i \in Bits, held' <= i, i < held' + before' PROVE filter'[i] # b
      <3>1. i # 0 /\ i - 1 \in Bits /\ held <= i - 1 /\ i - 1 < held + before
        BY <1>3, <2>1, <2>2, <2>5 DEF Runs, Bits
      <3> QED BY <1>6, <1>8, <3>1 DEF Runs
    <2> QED BY <1>4, <1>5, <1>7, <2>2, <2>3, <2>4, <2>5 DEF Runs
  <1>9. CASE b # Newest
    <2>1. held' = 1 /\ before' = held
      BY <1>2, <1>9
    <2>2. ASSUME NEW i \in Bits, i < 1 PROVE filter'[i] = b
      BY <1>5, <2>2 DEF Bits
    <2>3. ASSUME NEW i \in Bits, 1 <= i, i < 1 + held PROVE filter'[i] # b
      <3>1. i # 0 /\ i - 1 \in Bits /\ i - 1 < held
        BY <1>3, <2>3 DEF Runs, Bits
      <3> QED BY <1>6, <1>9, <3>1 DEF Runs
    <2> QED BY <1>4, <1>5, <1>7, <2>1, <2>2, <2>3 DEF Runs
  <1> QED BY <1>8, <1>9

\* The two comparisons, as the runs say.
LEMMA RunsDecide ==
  ASSUME Runs
  PROVE  /\ filter = DEBOUNCE_SET_MASK => Newest = 1 /\ held >= SetRun
         /\ filter = DEBOUNCE_UNSET_MASK <=> Newest = 0 /\ held = FilterWidth
         /\ Newest = 1 /\ held = SetRun /\ before >= FilterWidth - SetRun
              => filter = DEBOUNCE_SET_MASK
         /\ DEBOUNCE_SET_MASK # DEBOUNCE_UNSET_MASK
  <1>1. 0 \in Bits /\ filter \in [Bits -> Bit] /\ Newest \in Bit /\ Newest = filter[0]
    BY DEF Runs, Newest, Bits
  <1>2. DEBOUNCE_SET_MASK[0] = 1 /\ DEBOUNCE_UNSET_MASK[0] = 0
    BY <1>1 DEF DEBOUNCE_SET_MASK, DEBOUNCE_UNSET_MASK
  <1>3. held < FilterWidth => held \in Bits /\ filter[held] # Newest
    BY DEF Runs, Bits
  <1>4. ASSUME filter = DEBOUNCE_SET_MASK PROVE Newest = 1 /\ held >= SetRun
    <2>1. \A i \in Bits : i < SetRun => filter[i] = 1
      BY <1>4 DEF DEBOUNCE_SET_MASK
    <2>2. Newest = 1
      BY <1>1, <1>2, <1>4
    <2> QED BY <1>3, <2>1, <2>2 DEF Runs
  <1>5. ASSUME filter = DEBOUNCE_UNSET_MASK PROVE Newest = 0 /\ held = FilterWidth
    <2>1. \A i \in Bits : filter[i] = 0
      BY <1>5 DEF DEBOUNCE_UNSET_MASK
    <2>2. Newest = 0
      BY <1>1, <2>1
    <2> QED BY <1>3, <2>1, <2>2 DEF Runs
  <1>6. ASSUME Newest = 0, held = FilterWidth PROVE filter = DEBOUNCE_UNSET_MASK
    <2>1. \A i \in Bits : filter[i] = 0
      BY <1>6 DEF Runs, Bits
    <2> QED BY <1>1, <2>1 DEF DEBOUNCE_UNSET_MASK
  <1>7. ASSUME Newest = 1, held = SetRun, before >= FilterWidth - SetRun
        PROVE  filter = DEBOUNCE_SET_MASK
    <2>1. ASSUME NEW i \in Bits PROVE filter[i] = IF i < SetRun THEN 1 ELSE 0
      <3>1. CASE i < SetRun
        BY <1>7, <3>1 DEF Runs
      <3>2. CASE ~(i < SetRun)
        <4>1. held <= i /\ i < held + before
          BY <1>7, <3>2 DEF Runs, Bits
        <4>2. filter[i] # 1 /\ filter[i] \in Bit
          BY <1>1, <1>7, <4>1 DEF Runs
        <4> QED BY <3>2, <4>2 DEF Bit
      <3> QED BY <3>1, <3>2
    <2> QED BY <1>1, <2>1 DEF DEBOUNCE_SET_MASK
  <1> QED BY <1>2, <1>4, <1>5, <1>6, <1>7

LEMMA NextRunsDecide ==
  (Runs => /\ filter = DEBOUNCE_SET_MASK => Newest = 1 /\ held >= SetRun
           /\ filter = DEBOUNCE_UNSET_MASK <=> Newest = 0 /\ held = FilterWidth
           /\ Newest = 1 /\ held = SetRun /\ before >= FilterWidth - SetRun
                => filter = DEBOUNCE_SET_MASK
           /\ DEBOUNCE_SET_MASK # DEBOUNCE_UNSET_MASK)'
  BY RunsDecide, PTL

(* What one sample does to the level. *)
Clean ==
  /\ level = 0 /\ level' = 1 => held' >= SetRun
  /\ level = 1 /\ level' = 0 => held' >= FilterWidth
  /\ Newest' = 0 /\ held' = FilterWidth => level' = 0
  /\ Newest' = 1 /\ held' >= SetRun /\ before' >= FilterWidth - SetRun => level' = 1

LEMMA CleanSample ==
  ASSUME Runs, Kept, NEW b \in Bit, Sample(b)
  PROVE  Runs' /\ Kept' /\ Clean
  <1>1. Runs' /\ Newest' = b
    BY RunsShift
  <1>2. /\ filter' = DEBOUNCE_SET_MASK => b = 1 /\ held' >= SetRun
        /\ filter' = DEBOUNCE_UNSET_MASK <=> b = 0 /\ held' = FilterWidth
        /\ b = 1 /\ held' = SetRun /\ before' >= FilterWidth - SetRun
             => filter' = DEBOUNCE_SET_MASK
        /\ DEBOUNCE_SET_MASK # DEBOUNCE_UNSET_MASK
    BY <1>1, NextRunsDecide DEF DEBOUNCE_SET_MASK, DEBOUNCE_UNSET_MASK, Bits
  <1>3. level' = IF filter' = DEBOUNCE_SET_MASK THEN 1
                 ELSE IF filter' = DEBOUNCE_UNSET_MASK THEN 0 ELSE level
    BY DEF Sample
  <1>4. ASSUME b = 1, held' >= SetRun, before' >= FilterWidth - SetRun
        PROVE  level' = 1
    <2>1. CASE held' = SetRun
      BY <1>2, <1>3, <1>4, <2>1
    <2>2. CASE held' # SetRun
      <3>1. held' > 1
        BY <1>1, <1>4, <2>2 DEF Runs
      <3>2. b = Newest
        BY <3>1 DEF Sample
      <3>3. held' = Longer(held, FilterWidth) /\ before' = before
        BY <3>2 DEF Sample
      <3>4. held >= SetRun
        BY <1>4, <2>2, <3>3 DEF Longer, Runs
      <3>5. level = 1
        BY <1>4, <3>2, <3>3, <3>4 DEF Kept
      <3> QED BY <1>2, <1>3, <1>4, <3>5
    <2> QED BY <2>1, <2>2
  <1>5. Kept'
    BY <1>1, <1>4 DEF Kept
  <1>6. level = 0 /\ level' = 1 => held' >= SetRun
    BY <1>2, <1>3
  <1>7. level = 1 /\ level' = 0 => held' >= FilterWidth
    BY <1>1, <1>2, <1>3 DEF Runs
  <1>8. Newest' = 0 /\ held' = FilterWidth => level' = 0
    BY <1>1, <1>2, <1>3
  <1> QED BY <1>1, <1>4, <1>5, <1>6, <1>7, <1>8 DEF Clean

(* A debouncer ignores bounces shorter than the mask, or the word, and     *)
(* takes clean levels, for words and masks of every width.                 *)
THEOREM CleanLevelsTaken == Spec => TakesCleanLevels
  <1>1. Runs /\ Kept /\ [Next]_vars => Runs' /\ Kept'
    <2> SUFFICES ASSUME Runs, Kept, [Next]_vars PROVE Runs' /\ Kept'
      OBVIOUS
    <2>1. CASE Next
      BY <2>1, CleanSample DEF Next
    <2>2. CASE UNCHANGED vars
      BY <2>2 DEF vars, Runs, Kept, Newest
    <2> QED BY <2>1, <2>2
  <1>2. Runs /\ Kept /\ [Next]_vars => [Clean]_vars
    BY CleanSample DEF Next
  <1>3. Clean => /\ level = 0 /\ level' = 1 => held' >= SetRun
                 /\ level = 1 /\ level' = 0 => held' >= FilterWidth
                 /\ Newest' = 0 /\ held' = FilterWidth => level' = 0
                 /\ Newest' = 1 /\ held' >= SetRun /\ before' >= FilterWidth - SetRun
                      => level' = 1
    BY DEF Clean
  <1> QED BY <1>1, <1>2, <1>3, RunsInit, PTL DEF Spec, TakesCleanLevels
=============================================================================
