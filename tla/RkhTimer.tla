------------------------------ MODULE RkhTimer ------------------------------
(***************************************************************************)
(* The software timers of RKH (rkhtmr.c): a linked list of the timers in   *)
(* use, which the tick walks, counting each down, unlinking those that     *)
(* were stopped or have expired, and posting the events of the latter.     *)
(* rkh_tmr_stop does not unlink, and rkh_tmr_start finds a timer stopped   *)
(* since the last tick still in the list.  RKH_TMR_ONESHOT and _PERIODIC   *)
(* set the period before the critical section of rkh_tmr_start.            *)
(***************************************************************************)
EXTENDS Naturals

CONSTANTS
  Timers,   (* Bound: the timers, ...               *)
  Counts,   (* ... the ticks they are started with, *)
  Periods,  (* ... and their periods, 0 a one-shot. *)
  NoTimer   (* CPTIM(0), a null pointer.            *)

ASSUME RkhTimerAssumption ==
  /\ NoTimer \notin Timers
  /\ Counts \subseteq Nat \ {0}
  /\ Periods \subseteq Nat

VARIABLES
  thead, tnext, used, ntick, period,   (* thead and the fields of RKH_TMR_T. *)
  t, tprev   (* rkh_tmr_tick's: the timer it is at, NoTimer out of a tick.   *)

list == <<thead, tnext, used>>
tmrVars == <<list, ntick, period, t, tprev>>

TmrInit ==
  /\ thead = NoTimer
  /\ tnext = [x \in Timers |-> NoTimer]
  /\ used = [x \in Timers |-> FALSE]
  /\ ntick = [x \in Timers |-> 0]
  /\ period = [x \in Timers |-> 0]
  /\ t = NoTimer /\ tprev = NoTimer

(* Neither the thread nor another tick runs while a tick walks the list.   *)
Quiet == t = NoTimer

(* The head of RKH_TMR_ONESHOT and RKH_TMR_PERIODIC. *)
SetPeriod(x, p) ==
  /\ Quiet
  /\ period' = [period EXCEPT ![x] = p]
  /\ UNCHANGED <<list, ntick, t, tprev>>

(* A timer stopped and started again is linked twice.                      *)
Start_relink(x, itick) ==
  /\ Quiet
  /\ ntick' = [ntick EXCEPT ![x] = itick]
  /\ IF ~used[x] \/ ntick[x] = 0
     THEN /\ tnext' = [tnext EXCEPT ![x] = thead]
          /\ thead' = x
          /\ used' = [used EXCEPT ![x] = TRUE]
     ELSE UNCHANGED list
  /\ UNCHANGED <<period, t, tprev>>

(* rkh_tmr_start, with add_to_list *)
Start(x, itick) ==
  /\ Quiet
  /\ ntick' = [ntick EXCEPT ![x] = itick]
  /\ IF used[x] THEN UNCHANGED list
     ELSE /\ tnext' = [tnext EXCEPT ![x] = thead]
          /\ thead' = x
          /\ used' = [used EXCEPT ![x] = TRUE]
  /\ UNCHANGED <<period, t, tprev>>

(* rkh_tmr_stop *)
Stop(x) ==
  /\ Quiet
  /\ ntick' = [ntick EXCEPT ![x] = 0]
  /\ UNCHANGED <<list, period, t, tprev>>

(* rkh_tmr_tick: it takes the first timer, if there is one.                *)
TickBegins ==
  /\ Quiet
  /\ thead # NoTimer
  /\ t' = thead
  /\ tprev' = NoTimer
  /\ UNCHANGED <<list, ntick, period>>

(* The one before the removed stays linked to it.                          *)
rem_from_list_head ==
  /\ thead' = IF thead = t THEN tnext[t] ELSE thead
  /\ used' = [used EXCEPT ![t] = FALSE]
  /\ UNCHANGED tnext

(* rem_from_list(t, tprev) *)
rem_from_list ==
  /\ thead' = IF thead = t THEN tnext[t] ELSE thead
  /\ tnext' = IF thead = t THEN tnext ELSE [tnext EXCEPT ![tprev] = tnext[t]]
  /\ used' = [used EXCEPT ![t] = FALSE]

(* The timer at hand expires and its event is posted. *)
Expires == t # NoTimer /\ ntick[t] = 1

(* One pass of rkh_tmr_tick's loop, but for the post. *)
Visit ==
  /\ t # NoTimer
  /\ t' = tnext[t]
  /\ IF ntick[t] = 0 \/ (ntick[t] = 1 /\ period[t] = 0)
     THEN rem_from_list /\ UNCHANGED tprev
     ELSE tprev' = t /\ UNCHANGED list
  /\ ntick' = [ntick EXCEPT ![t] =
                 IF @ = 0 THEN 0 ELSE IF @ = 1 THEN period[t] ELSE @ - 1]
  /\ UNCHANGED period

-----------------------------------------------------------------------------
(* The timers linked from x on: those in every set that holds x and, of    *)
(* each timer in it, the next one.                                         *)
Closed(next, S) == \A y \in S : next[y] \in S \cup {NoTimer}
LinkedBy(next, x) ==
  {y \in Timers :
     \A S \in SUBSET Timers :
       x \in S \cup {NoTimer} /\ Closed(next, S) => y \in S}
Linked(x) == LinkedBy(tnext, x)

TmrTypeOK ==
  /\ thead \in Timers \cup {NoTimer}
  /\ tnext \in [Timers -> Timers \cup {NoTimer}]
  /\ used \in [Timers -> BOOLEAN]
  /\ ntick \in [Timers -> Nat]
  /\ period \in [Timers -> Periods \cup {0}]
  /\ t \in Timers \cup {NoTimer}
  /\ tprev \in Timers \cup {NoTimer}
=============================================================================
