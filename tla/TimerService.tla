---------------------------- MODULE TimerService ----------------------------
(***************************************************************************)
(* What the software timers of RKH promise: each counts down on its own,   *)
(* once per tick, whatever is started, stopped or expires beside it, and   *)
(* expires in the tick that brings it to 0, for good or for a next period. *)
(***************************************************************************)
EXTENDS Naturals

CONSTANTS Timers, Counts, Periods

VARIABLES
  left,  (* Ticks until a timer expires, 0 if it does not run.             *)
  per,   (* Its period, 0 of a one-shot.                                   *)
  todo   (* The running timers the present tick has not counted yet.       *)

vars == <<left, per, todo>>

Init ==
  /\ left = [t \in Timers |-> 0]
  /\ per = [t \in Timers |-> 0]
  /\ todo = {}

SetPeriod(t, p) == todo = {} /\ per' = [per EXCEPT ![t] = p] /\ UNCHANGED <<left, todo>>
Start(t, n) == todo = {} /\ left' = [left EXCEPT ![t] = n] /\ UNCHANGED <<per, todo>>
Stop(t) == todo = {} /\ left' = [left EXCEPT ![t] = 0] /\ UNCHANGED <<per, todo>>

Tick ==
  /\ todo = {}
  /\ todo' = {t \in Timers : left[t] # 0}
  /\ UNCHANGED <<left, per>>

Count(t) ==
  /\ t \in todo
  /\ todo' = todo \ {t}
  /\ left' = [left EXCEPT ![t] = IF @ = 1 THEN per[t] ELSE @ - 1]
  /\ UNCHANGED per

Next ==
  \/ \E t \in Timers, p \in Periods : SetPeriod(t, p)
  \/ \E t \in Timers, n \in Counts : Start(t, n)
  \/ \E t \in Timers : Stop(t)
  \/ Tick
  \/ \E t \in Timers : Count(t)

Spec == Init /\ [][Next]_vars
=============================================================================
