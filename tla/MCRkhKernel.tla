---------------------------- MODULE MCRkhKernel ----------------------------
(* RkhKernel with timers that post e2 to the active object of the lower    *)
(* priority and interrupts that post e1 to the other.  The timers are      *)
(* interchangeable.                                                        *)
EXTENDS RkhKernel, TLC

CONSTANTS e1, e2

MCSmaOf == [x \in Timers |-> 1]
MCEvtOf == [x \in Timers |-> e2]
MCPosted == {<<0, e1>>}
MCTimers == Permutations(Timers)
=============================================================================
