------------------------------ MODULE RkhQueue ------------------------------
(***************************************************************************)
(* The event queues of RKH (rkhqueue.c), rings of pointers in the storage  *)
(* the application hands to RKH_SMA_ACTIVATE, the ready table              *)
(* (rkhsma_prio.c) that tells which are not empty, and the scheduler's     *)
(* loop (rkhfwk_sched.c) that serves them.                                 *)
(*                                                                         *)
(* The loop looks for the active object to serve with interrupts disabled  *)
(* and enables them before it gets the event, so posts from interrupts     *)
(* come in between, and at any time during a dispatch, as the thread's own *)
(* posts do.  rkh_queue_get and rkh_sma_post_fifo are critical sections.   *)
(*                                                                         *)
(* Of the options of rkhcfg.h, put_lifo, read, deplete and the counters    *)
(* are disabled.  At most RKH_CFG_FWK_MAX_SMA = 2 active objects make one  *)
(* ready group: readyGroup.tbl[0] is the set ready, and grp tells whether  *)
(* it is empty.                                                            *)
(***************************************************************************)
EXTENDS Naturals

CONSTANTS
  MAX_SMA,  (* RKH_CFG_FWK_MAX_SMA.                              *)
  NELEMS,   (* nelems, the pointers a queue's storage holds.     *)
  Events,   (* Bound: the events posted.                         *)
  NoEvent   (* A null pointer, as in the zeroed static storage.  *)

ASSUME RkhQueueAssumption ==
  /\ MAX_SMA \in 1 .. 8
  /\ NELEMS \in Nat \ {0}
  /\ NoEvent \notin Events

Prios == 0 .. MAX_SMA - 1
Slots == 0 .. NELEMS - 1

VARIABLES
  sto,      (* The storage, pstart up to pend.                        *)
  pin,      (* Slot the next event is put in.                         *)
  pout,     (* Slot the next event is taken from.                     *)
  qty,      (* Events in the queue.                                   *)
  ready,    (* The ready table: the active objects with work.         *)
  pc,       (* The thread: "find", "get" or "dispatch".               *)
  prio,     (* The active object the loop chose to serve.             *)
  e,        (* The event it dispatches.                               *)
  halted    (* An assertion failed.                                   *)

queues == <<sto, pin, pout, qty, ready>>
thread == <<pc, prio, e>>
vars == <<queues, thread, halted>>

(* rkh_queue_init, once per active object activated. *)
Init ==
  /\ sto = [a \in Prios |-> [i \in Slots |-> NoEvent]]
  /\ pin = [a \in Prios |-> 0]
  /\ pout = [a \in Prios |-> 0]
  /\ qty = [a \in Prios |-> 0]
  /\ ready = {}
  /\ pc = "find"
  /\ prio = 0
  /\ e = NoEvent
  /\ halted = FALSE

(* Variant: the pointer wraps one slot early. *)
Advance_early(p) == IF p + 1 >= NELEMS - 1 THEN 0 ELSE p + 1

(* p++, and back to pstart at pend. *)
Advance(p) == IF p + 1 = NELEMS THEN 0 ELSE p + 1

Halt ==
  /\ halted' = TRUE
  /\ UNCHANGED <<queues, thread>>

(* rkh_queue_put_fifo with room in the queue ... *)
Put(a, ev) ==
  /\ ~halted
  /\ qty[a] < NELEMS
  /\ sto' = [sto EXCEPT ![a][pin[a]] = ev]
  /\ pin' = [pin EXCEPT ![a] = Advance(@)]
  /\ qty' = [qty EXCEPT ![a] = @ + 1]
  /\ ready' = ready \cup {a}
  /\ UNCHANGED <<pout, thread, halted>>

(* ... and without: RKH_ASSERT(q->qty < q->nelems). *)
PutFull(a) ==
  /\ ~halted
  /\ qty[a] >= NELEMS
  /\ Halt

(* rkh_smaPrio_findHighest: the lowest number is the highest priority. *)
FindHighest ==
  /\ ~halted
  /\ pc = "find"
  /\ ready # {}
  /\ prio' \in {a \in ready : \A b \in ready : a <= b}
  /\ pc' = "get"
  /\ UNCHANGED <<queues, e, halted>>

(* Variant: an active object with an empty queue stays ready. *)
Get_keepReady ==
  /\ ~halted
  /\ pc = "get"
  /\ IF qty[prio] = 0 \/ sto[prio][pout[prio]] = NoEvent
     THEN Halt
     ELSE /\ e' = sto[prio][pout[prio]]
          /\ pout' = [pout EXCEPT ![prio] = Advance(@)]
          /\ qty' = [qty EXCEPT ![prio] = @ - 1]
          /\ pc' = "dispatch"
          /\ UNCHANGED <<sto, pin, ready, prio, halted>>

(* rkh_sma_get, with the assertions of rkh_sma_block that the queue is not *)
(* empty and of its own that the event is no null pointer.                 *)
Get ==
  /\ ~halted
  /\ pc = "get"
  /\ IF qty[prio] = 0 \/ sto[prio][pout[prio]] = NoEvent
     THEN Halt
     ELSE /\ e' = sto[prio][pout[prio]]
          /\ pout' = [pout EXCEPT ![prio] = Advance(@)]
          /\ qty' = [qty EXCEPT ![prio] = @ - 1]
          /\ ready' = IF qty[prio] = 1 THEN ready \ {prio} ELSE ready
          /\ pc' = "dispatch"
          /\ UNCHANGED <<sto, pin, prio, halted>>

(* rkh_sm_dispatch has returned. *)
Dispatched ==
  /\ ~halted
  /\ pc = "dispatch"
  /\ pc' = "find"
  /\ e' = NoEvent
  /\ UNCHANGED <<queues, prio, halted>>

Next ==
  \/ \E a \in Prios, ev \in Events : Put(a, ev)
  \/ \E a \in Prios : PutFull(a)
  \/ FindHighest
  \/ Get
  \/ Dispatched

Spec == Init /\ [][Next]_vars

-----------------------------------------------------------------------------
(* Every variable keeps its type and no queue exceeds its storage.         *)
TypeOK ==
  /\ sto \in [Prios -> [Slots -> Events \cup {NoEvent}]]
  /\ pin \in [Prios -> Slots]
  /\ pout \in [Prios -> Slots]
  /\ qty \in [Prios -> 0 .. NELEMS]
  /\ ready \subseteq Prios
  /\ pc \in {"find", "get", "dispatch"}
  /\ prio \in Prios
  /\ e \in Events \cup {NoEvent}
  /\ halted \in BOOLEAN

(* The slot n places on from p, for n up to NELEMS. *)
Slot(p, n) == IF p + n >= NELEMS THEN p + n - NELEMS ELSE p + n

(* The pointers and the count describe one ring, and the ready table says  *)
(* exactly which queues hold events, at any instant an interrupt can see.  *)
QueueAgreement ==
  /\ \A a \in Prios : pin[a] = Slot(pout[a], qty[a])
  /\ ready = {a \in Prios : qty[a] # 0}

(* Only a post to a full queue stops the system: whatever is posted        *)
(* between the choice of an active object and the get, its queue still     *)
(* holds an event, and no null pointer is dispatched.                      *)
HaltsOnlyFull == halted => \E a \in Prios : qty[a] = NELEMS

(* The scheduler chooses an active object only when none of a higher       *)
(* priority has an event waiting.                                          *)
ServesHighest ==
  [][pc = "find" /\ pc' = "get" => \A a \in 0 .. prio' - 1 : qty[a] = 0]_vars

(* The rings keep the promise of EventQueue.                               *)
Waiting(a) == [i \in 1 .. qty[a] |-> sto[a][Slot(pout[a], i - 1)]]

Abstract ==
  INSTANCE EventQueue WITH
    Capacity <- NELEMS,
    fifo     <- [a \in Prios |-> Waiting(a)],
    taken    <- e,
    stopped  <- halted

ImplementsEventQueue == Abstract!Spec
=============================================================================
