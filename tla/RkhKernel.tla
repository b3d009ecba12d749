----------------------------- MODULE RkhKernel -----------------------------
(***************************************************************************)
(* RKH as the firmware runs it: the event queues and the scheduler's loop  *)
(* of RkhQueue with the software timers of RkhTimer, which the thread      *)
(* starts and stops while it dispatches an event and which post theirs     *)
(* from the tick.                                                          *)
(*                                                                         *)
(* The tick is an interrupt: it comes in between any two steps of the      *)
(* thread, the two of RKH_TMR_ONESHOT included, and no step of the thread  *)
(* comes in while it walks the list.  The posts of its own debouncers come *)
(* before the walk (rkh_hook_timetick).                                    *)
(***************************************************************************)
EXTENDS RkhQueue, RkhTimer

CONSTANTS
  SmaOf,  (* The active object a timer is started for, ...                *)
  EvtOf,  (* ... and its event.                                           *)
  Posted  (* Bound: what others post, an active object and an event each. *)

ASSUME RkhKernelAssumption ==
  /\ SmaOf \in [Timers -> Prios]
  /\ EvtOf \in [Timers -> Events]
  /\ Posted \subseteq Prios \X Events

VARIABLE arming   (* The timer between the two steps of RKH_TMR_ONESHOT.   *)

kernelVars == <<vars, tmrVars, arming>>

KernelInit == Init /\ TmrInit /\ arming = NoTimer

(* A post of the thread or of an interrupt, in or out of a dispatch.       *)
KernelPost(a, ev) ==
  /\ Quiet
  /\ Put(a, ev) \/ PutFull(a)
  /\ UNCHANGED <<tmrVars, arming>>

KernelSchedule ==
  /\ Quiet /\ arming = NoTimer
  /\ FindHighest \/ Get \/ Dispatched
  /\ UNCHANGED <<tmrVars, arming>>

(* What the actions of a state machine do to timers. *)
InDispatch == ~halted /\ pc = "dispatch" /\ UNCHANGED vars

BeginArming(x, p) ==
  /\ InDispatch /\ arming = NoTimer
  /\ SetPeriod(x, p)
  /\ arming' = x

Arm(n) ==
  /\ InDispatch /\ arming # NoTimer
  /\ Start(arming, n)
  /\ arming' = NoTimer

Disarm(x) ==
  /\ InDispatch /\ arming = NoTimer
  /\ Stop(x)
  /\ UNCHANGED arming

KernelTick ==
  /\ ~halted
  /\ TickBegins
  /\ UNCHANGED <<vars, arming>>

(* A pass of the loop, with RKH_TICK_POST.                                 *)
KernelVisit ==
  /\ ~halted
  /\ Visit
  /\ IF Expires THEN Put(SmaOf[t], EvtOf[t]) \/ PutFull(SmaOf[t])
                ELSE UNCHANGED vars
  /\ UNCHANGED arming

KernelNext ==
  \/ \E p \in Posted : KernelPost(p[1], p[2])
  \/ KernelSchedule
  \/ \E x \in Timers, p \in Periods : BeginArming(x, p)
  \/ \E n \in Counts : Arm(n)
  \/ \E x \in Timers : Disarm(x)
  \/ KernelTick
  \/ KernelVisit

KernelSpec == KernelInit /\ [][KernelNext]_kernelVars

-----------------------------------------------------------------------------
(* Every variable of queues and timers keeps its type. *)
KernelTypeOK == TypeOK /\ TmrTypeOK /\ arming \in Timers \cup {NoTimer}

(* used tells which timers are in the list, whatever was stopped, started  *)
(* again or has expired, so that none is linked twice; a timer that runs   *)
(* is in the list; and the pointer that unlinks is the one before.         *)
ListAgrees ==
  /\ \A x \in Timers : used[x] <=> x \in Linked(thead)
  /\ \A x \in Timers : ntick[x] # 0 => used[x]
  /\ \A x, y \in Linked(thead) : tnext[x] = tnext[y] => x = y
  /\ t # NoTimer /\ t # thead => tprev \in Linked(thead) /\ tnext[tprev] = t

(* The list keeps the promise of TimerService: a timer misses no tick and  *)
(* is counted twice in none, though others are unlinked during the walk.   *)
Service ==
  INSTANCE TimerService WITH
    left <- ntick, per <- period,
    todo <- {x \in Linked(t) : ntick[x] # 0}

ImplementsTimers == Service!Spec
=============================================================================
