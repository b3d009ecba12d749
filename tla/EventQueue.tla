----------------------------- MODULE EventQueue -----------------------------
(***************************************************************************)
(* What the event queues of RKH promise the active objects and those who   *)
(* post to them: every active object takes the events posted to it, each   *)
(* once and in the order they were posted, and a post to a full queue      *)
(* stops the system instead of losing an event.                            *)
(***************************************************************************)
EXTENDS Naturals, Sequences

CONSTANTS
  Prios,     (* The active objects, named by their priorities.  *)
  Capacity,  (* Events a queue can hold.                        *)
  Events,
  NoEvent    (* The thread is not dispatching. *)

VARIABLES
  fifo,    (* The events waiting for each active object. *)
  taken,   (* The event being dispatched.                *)
  stopped

vars == <<fifo, taken, stopped>>

Init ==
  /\ fifo = [a \in Prios |-> <<>>]
  /\ taken = NoEvent
  /\ stopped = FALSE

Put(a, ev) ==
  /\ ~stopped
  /\ Len(fifo[a]) < Capacity
  /\ fifo' = [fifo EXCEPT ![a] = Append(@, ev)]
  /\ UNCHANGED <<taken, stopped>>

Overflow(a) ==
  /\ ~stopped
  /\ Len(fifo[a]) = Capacity
  /\ stopped' = TRUE
  /\ UNCHANGED <<fifo, taken>>

Take(a) ==
  /\ ~stopped
  /\ taken = NoEvent
  /\ fifo[a] # <<>>
  /\ taken' = Head(fifo[a])
  /\ fifo' = [fifo EXCEPT ![a] = Tail(@)]
  /\ UNCHANGED stopped

Done ==
  /\ ~stopped
  /\ taken # NoEvent
  /\ taken' = NoEvent
  /\ UNCHANGED <<fifo, stopped>>

Next ==
  \/ \E a \in Prios, ev \in Events : Put(a, ev)
  \/ \E a \in Prios : Overflow(a)
  \/ \E a \in Prios : Take(a)
  \/ Done

Spec == Init /\ [][Next]_vars
=============================================================================
