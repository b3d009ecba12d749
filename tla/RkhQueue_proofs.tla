--------------------------- MODULE RkhQueue_proofs ---------------------------
(***************************************************************************)
(* Proofs about RkhQueue, for any number of active objects, any size of    *)
(* queue and any events.                                                   *)
(***************************************************************************)
EXTENDS RkhQueue, SequenceTheorems, TLAPS

USE RkhQueueAssumption

-----------------------------------------------------------------------------
(* Arithmetic of the ring.                                                 *)

\* A position behind a slot is a slot.
LEMMA SlotType ==
  ASSUME NEW p \in Slots, NEW n \in 0 .. NELEMS PROVE Slot(p, n) \in Slots
BY DEF Slot, Slots

\* Advancing the start or the count comes to the same position.
LEMMA SlotNext ==
  ASSUME NEW p \in Slots, NEW n \in 0 .. NELEMS - 1
  PROVE  /\ Advance(p) \in Slots
         /\ Advance(Slot(p, n)) = Slot(p, n + 1)
         /\ Slot(Advance(p), n) = Slot(p, n + 1)
BY DEF Slot, Slots, Advance

(* Different places of a queue are different slots. *)
LEMMA SlotInjective ==
  ASSUME NEW p \in Slots, NEW n \in 0 .. NELEMS - 1, NEW m \in 0 .. NELEMS - 1,
         n # m
  PROVE  Slot(p, n) # Slot(p, m)
BY DEF Slot, Slots

-----------------------------------------------------------------------------
(* The inductive invariant.  Get meets its assertions because the queue    *)
(* chosen is not empty and every slot of a queue in use holds an event;    *)
(* neither can be told without the other conjuncts.                        *)

Stored ==
  \A a \in Prios : \A n \in 0 .. NELEMS - 1 :
    n < qty[a] => sto[a][Slot(pout[a], n)] \in Events

Chosen ==
  /\ pc = "get" => qty[prio] # 0
  /\ pc = "dispatch" <=> e # NoEvent

Inv ==
  /\ TypeOK
  /\ QueueAgreement
  /\ Stored
  /\ Chosen
  /\ HaltsOnlyFull

\* All queues are empty and no object is ready.
LEMMA InvInit == Init => Inv
<1> SUFFICES ASSUME Init PROVE Inv
  OBVIOUS
<1>1. 0 \in Slots /\ 0 \in Prios /\ 0 \in 0 .. NELEMS
  BY DEF Slots, Prios
<1>2. TypeOK
  BY <1>1 DEF Init, TypeOK
<1>3. QueueAgreement
  BY DEF Init, QueueAgreement, Slot
<1>4. Stored /\ Chosen /\ HaltsOnlyFull
  BY DEF Init, Stored, Chosen, HaltsOnlyFull
<1> QED
  BY <1>2, <1>3, <1>4 DEF Inv

(* What a put changes: the first free slot and no other in use. *)
LEMMA PutStores ==
  ASSUME Inv, NEW a \in Prios, NEW ev \in Events, Put(a, ev)
  PROVE  /\ \A b \in Prios \ {a} : /\ sto'[b] = sto[b] /\ pout'[b] = pout[b]
                                  /\ qty'[b] = qty[b] /\ pin'[b] = pin[b]
         /\ qty'[a] = qty[a] + 1 /\ pout'[a] = pout[a]
         /\ sto'[a][Slot(pout[a], qty[a])] = ev
         /\ \A n \in 0 .. NELEMS - 1 : n < qty[a] =>
              sto'[a][Slot(pout[a], n)] = sto[a][Slot(pout[a], n)]
         /\ pin'[a] = Slot(pout[a], qty[a] + 1)
         /\ qty[a] \in 0 .. NELEMS - 1
<1>1. /\ qty[a] \in 0 .. NELEMS - 1 /\ pout[a] \in Slots
      /\ pin[a] = Slot(pout[a], qty[a]) /\ pin[a] \in Slots
  BY DEF Inv, TypeOK, QueueAgreement, Put
<1>2. /\ sto' = [sto EXCEPT ![a] = [sto[a] EXCEPT ![pin[a]] = ev]]
      /\ qty' = [qty EXCEPT ![a] = qty[a] + 1]
      /\ pin' = [pin EXCEPT ![a] = Advance(pin[a])]
      /\ pout' = pout
  BY DEF Put
<1>3. /\ \A b \in Prios \ {a} : /\ sto'[b] = sto[b] /\ pout'[b] = pout[b]
                               /\ qty'[b] = qty[b] /\ pin'[b] = pin[b]
      /\ qty'[a] = qty[a] + 1 /\ pout'[a] = pout[a]
      /\ pin'[a] = Advance(pin[a])
      /\ sto'[a] = [sto[a] EXCEPT ![pin[a]] = ev]
  BY <1>2 DEF Inv, TypeOK
<1>4. sto[a] \in [Slots -> Events \cup {NoEvent}]
  BY DEF Inv, TypeOK
<1>5. ASSUME NEW n \in 0 .. NELEMS - 1, n < qty[a]
      PROVE  sto'[a][Slot(pout[a], n)] = sto[a][Slot(pout[a], n)]
  <2>1. Slot(pout[a], n) # pin[a]
    BY <1>1, <1>5, SlotInjective
  <2>2. Slot(pout[a], n) \in Slots
    BY <1>1, SlotType
  <2> QED
    BY <1>3, <1>4, <2>1, <2>2
<1>6. sto'[a][pin[a]] = ev
  BY <1>1, <1>3, <1>4
<1>7. Advance(pin[a]) = Slot(pout[a], qty[a] + 1)
  BY <1>1, SlotNext
<1> QED
  BY <1>1, <1>3, <1>5, <1>6, <1>7

\* A post to a queue with room.
LEMMA InvPut ==
  ASSUME Inv, NEW a \in Prios, NEW ev \in Events, Put(a, ev)
  PROVE  Inv'
<1>1. TypeOK'
  <2>1. /\ pin[a] \in Slots /\ Advance(pin[a]) \in Slots
    BY SlotNext DEF Inv, TypeOK, Slots
  <2>2. sto' \in [Prios -> [Slots -> Events \cup {NoEvent}]]
    BY <2>1 DEF Put, Inv, TypeOK
  <2>3. pin' \in [Prios -> Slots]
    BY <2>1 DEF Put, Inv, TypeOK
  <2>4. qty' \in [Prios -> 0 .. NELEMS]
    <3>1. qty[a] + 1 \in 0 .. NELEMS
      BY DEF Put, Inv, TypeOK
    <3> QED
      BY <3>1 DEF Put, Inv, TypeOK
  <2> QED
    BY <2>2, <2>3, <2>4 DEF Put, thread, Inv, TypeOK
<1>2. QueueAgreement'
  <2>1. ASSUME NEW b \in Prios PROVE pin'[b] = Slot(pout'[b], qty'[b])
    BY PutStores DEF Inv, QueueAgreement
  <2>2. ready' = {b \in Prios : qty'[b] # 0}
    <3>1. ready' = ready \cup {a}
      BY DEF Put
    <3>2. ready = {b \in Prios : qty[b] # 0}
      BY DEF Inv, QueueAgreement
    <3>3. qty'[a] # 0 /\ \A b \in Prios \ {a} : qty'[b] = qty[b]
      BY PutStores
    <3> QED
      BY <3>1, <3>2, <3>3
  <2> QED
    BY <2>1, <2>2 DEF QueueAgreement
<1>3. Stored'
  <2> SUFFICES ASSUME NEW b \in Prios, NEW n \in 0 .. NELEMS - 1, n < qty'[b]
               PROVE  sto'[b][Slot(pout'[b], n)] \in Events
    BY DEF Stored
  <2>1. CASE b # a
    BY <2>1, PutStores DEF Inv, Stored
  <2>2. CASE b = a /\ n = qty[a]
    BY <2>2, PutStores
  <2>3. CASE b = a /\ n # qty[a]
    <3>1. n < qty[a]
      BY <2>3, PutStores
    <3>2. sto[a][Slot(pout[a], n)] \in Events
      BY <3>1 DEF Inv, Stored
    <3> QED
      BY <2>3, <3>1, <3>2, PutStores
  <2> QED
    BY <2>1, <2>2, <2>3
<1>4. Chosen'
  <2>1. UNCHANGED <<pc, prio, e>> /\ prio \in Prios
    BY DEF Put, thread, Inv, TypeOK
  <2>2. qty[prio] # 0 => qty'[prio] # 0
    BY <2>1, PutStores
  <2> QED
    BY <2>1, <2>2 DEF Chosen, Inv
<1>5. HaltsOnlyFull'
  BY DEF Put, HaltsOnlyFull
<1> QED
  BY <1>1, <1>2, <1>3, <1>4, <1>5 DEF Inv

(* A get finds an event: it never meets a failing assertion. *)
LEMMA GetTakes ==
  ASSUME Inv, Get
  PROVE  /\ prio \in Prios /\ pout[prio] \in Slots
         /\ qty[prio] \in 1 .. NELEMS
         /\ sto[prio][pout[prio]] \in Events
         /\ e' = sto[prio][pout[prio]]
         /\ pout' = [pout EXCEPT ![prio] = Advance(pout[prio])]
         /\ qty' = [qty EXCEPT ![prio] = qty[prio] - 1]
         /\ ready' = IF qty[prio] = 1 THEN ready \ {prio} ELSE ready
         /\ pc' = "dispatch"
         /\ UNCHANGED <<sto, pin, prio, halted>>
<1>1. /\ prio \in Prios /\ pout[prio] \in Slots
      /\ qty[prio] \in 1 .. NELEMS
  BY DEF Get, Inv, TypeOK, Chosen
<1>2. sto[prio][Slot(pout[prio], 0)] \in Events
  BY <1>1 DEF Inv, Stored
<1>3. Slot(pout[prio], 0) = pout[prio]
  BY <1>1 DEF Slot, Slots
<1> QED
  BY <1>1, <1>2, <1>3 DEF Get

(* What is left of the queue after a get. *)
LEMMA GetLeaves ==
  ASSUME Inv, Get, NEW b \in Prios, NEW n \in 0 .. NELEMS - 1
  PROVE  /\ qty'[b] = IF b = prio THEN qty[b] - 1 ELSE qty[b]
         /\ Slot(pout'[b], n) = Slot(pout[b], IF b = prio THEN n + 1 ELSE n)
<1>1. /\ qty'[b] = IF b = prio THEN qty[b] - 1 ELSE qty[b]
      /\ pout'[b] = IF b = prio THEN Advance(pout[b]) ELSE pout[b]
      /\ pout[b] \in Slots
  BY GetTakes DEF Inv, TypeOK
<1> QED
  BY <1>1, SlotNext

\* A get from the queue of the object chosen.
LEMMA InvGet == ASSUME Inv, Get PROVE Inv'
<1>1. TypeOK'
  <2>1. Advance(pout[prio]) \in Slots
    BY GetTakes, SlotNext DEF Slots
  <2>2. qty[prio] - 1 \in 0 .. NELEMS
    BY GetTakes
  <2>3. pout' \in [Prios -> Slots] /\ qty' \in [Prios -> 0 .. NELEMS]
    BY <2>1, <2>2, GetTakes DEF Inv, TypeOK
  <2>4. ready' \subseteq Prios
    BY GetTakes DEF Inv, TypeOK
  <2> QED
    BY <2>3, <2>4, GetTakes DEF Inv, TypeOK
<1>2. QueueAgreement'
  <2>1. ASSUME NEW b \in Prios PROVE pin'[b] = Slot(pout'[b], qty'[b])
    <3>1. pin'[b] = Slot(pout[b], qty[b]) /\ qty[b] \in 0 .. NELEMS
      BY GetTakes DEF Inv, QueueAgreement, TypeOK
    <3>2. CASE b = prio
      <4>1. qty'[b] = qty[b] - 1 /\ qty'[b] \in 0 .. NELEMS - 1
        BY <3>1, <3>2, GetTakes DEF Inv, TypeOK
      <4>2. Slot(pout'[b], qty'[b]) = Slot(pout[b], qty'[b] + 1)
        BY <3>2, <4>1, GetLeaves
      <4> QED
        BY <3>1, <4>1, <4>2
    <3>3. CASE b # prio
      BY <3>1, <3>3, GetTakes DEF Inv, TypeOK
    <3> QED
      BY <3>2, <3>3
  <2>2. ready' = {b \in Prios : qty'[b] # 0}
    <3>1. ready = {b \in Prios : qty[b] # 0}
      BY DEF Inv, QueueAgreement
    <3>2. \A b \in Prios : qty'[b] = IF b = prio THEN qty[b] - 1 ELSE qty[b]
      BY GetTakes DEF Inv, TypeOK
    <3> QED
      BY <3>1, <3>2, GetTakes
  <2> QED
    BY <2>1, <2>2 DEF QueueAgreement
<1>3. Stored'
  <2> SUFFICES ASSUME NEW b \in Prios, NEW n \in 0 .. NELEMS - 1, n < qty'[b]
               PROVE  sto'[b][Slot(pout'[b], n)] \in Events
    BY DEF Stored
  <2>1. sto' = sto /\ qty[b] \in 0 .. NELEMS
    BY GetTakes DEF Inv, TypeOK
  <2>2. CASE b = prio
    <3>1. n + 1 < qty[b] /\ n + 1 \in 0 .. NELEMS - 1
      BY <2>1, <2>2, GetLeaves
    <3>2. sto[b][Slot(pout[b], n + 1)] \in Events
      BY <3>1 DEF Inv, Stored
    <3> QED
      BY <2>1, <2>2, <3>2, GetLeaves
  <2>3. CASE b # prio
    <3>1. sto[b][Slot(pout[b], n)] \in Events
      BY <2>3, GetLeaves DEF Inv, Stored
    <3> QED
      BY <2>1, <2>3, <3>1, GetLeaves
  <2> QED
    BY <2>2, <2>3
<1>4. Chosen'
  BY GetTakes DEF Chosen
<1>5. HaltsOnlyFull'
  BY GetTakes DEF Get, HaltsOnlyFull
<1> QED
  BY <1>1, <1>2, <1>3, <1>4, <1>5 DEF Inv

\* Every step keeps the invariant: posts, gets, and those that change no queue.
LEMMA InvNext == ASSUME Inv, [Next]_vars PROVE Inv'
<1> USE DEF queues, thread
<1>1. ASSUME NEW a \in Prios, NEW ev \in Events, Put(a, ev) PROVE Inv'
  BY <1>1, InvPut
<1>2. ASSUME NEW a \in Prios, PutFull(a) PROVE Inv'
  <2>1. qty[a] = NELEMS
    <3>1. qty[a] \in 0 .. NELEMS /\ qty[a] >= NELEMS
      BY <1>2 DEF PutFull, Inv, TypeOK
    <3> QED
      BY <3>1
  <2>2. TypeOK' /\ QueueAgreement' /\ Stored' /\ Chosen'
    BY <1>2 DEF PutFull, Halt, Inv, TypeOK, QueueAgreement, Stored, Chosen
  <2>3. HaltsOnlyFull'
    BY <1>2, <2>1 DEF PutFull, Halt, HaltsOnlyFull
  <2> QED
    BY <2>2, <2>3 DEF Inv
<1>3. CASE FindHighest
  <2>1. UNCHANGED <<queues, e, halted>> /\ pc = "find" /\ pc' = "get"
    BY <1>3 DEF FindHighest
  <2>2. prio' \in Prios /\ qty[prio'] # 0
    BY <1>3 DEF FindHighest, Inv, QueueAgreement
  <2>3. TypeOK' /\ QueueAgreement' /\ Stored'
    BY <2>1, <2>2 DEF Inv, TypeOK, QueueAgreement, Stored
  <2>4. Chosen' /\ HaltsOnlyFull'
    BY <2>1, <2>2 DEF Inv, Chosen, HaltsOnlyFull
  <2> QED
    BY <2>3, <2>4 DEF Inv
<1>4. CASE Get
  BY <1>4, InvGet
<1>5. CASE Dispatched
  BY <1>5 DEF Dispatched, Inv, TypeOK, QueueAgreement, Stored, Chosen,
              HaltsOnlyFull
<1>6. CASE UNCHANGED vars
  BY <1>6 DEF vars, Inv, TypeOK, QueueAgreement, Stored, Chosen, HaltsOnlyFull
<1> QED
  BY <1>1, <1>2, <1>3, <1>4, <1>5, <1>6 DEF Next

\* The inductive invariant holds throughout.
LEMMA Invariance == Spec => []Inv
BY InvInit, InvNext, PTL DEF Spec

(* Every variable keeps its type: no queue exceeds its storage.            *)
THEOREM RkhTypeCorrect == Spec => []TypeOK
<1>1. Inv => TypeOK
  BY DEF Inv
<1> QED
  BY <1>1, Invariance, PTL

(* Pointers, counts and ready table agree at any instant.                  *)
THEOREM QueuesAgree == Spec => []QueueAgreement
<1>1. Inv => QueueAgreement
  BY DEF Inv
<1> QED
  BY <1>1, Invariance, PTL

(* No assertion of rkh_sma_get or rkh_sma_block ever fails; only a post to *)
(* a full queue stops the system.                                          *)
THEOREM StopsOnlyWhenFull == Spec => []HaltsOnlyFull
<1>1. Inv => HaltsOnlyFull
  BY DEF Inv
<1> QED
  BY <1>1, Invariance, PTL

\* Priorities below one that exists exist.
LEMMA PriosBelow ==
  ASSUME NEW p \in Prios, NEW a \in 0 .. p - 1
  PROVE  a \in Prios /\ ~(p <= a)
BY DEF Prios

(* No active object is chosen while one of higher priority has events.     *)
THEOREM HighestIsServed == Spec => ServesHighest
<1>1. Inv /\ [Next]_vars =>
        [pc = "find" /\ pc' = "get" =>
           \A a \in 0 .. prio' - 1 : qty[a] = 0]_vars
  <2> SUFFICES ASSUME Inv, Next, pc = "find", pc' = "get",
                      NEW a \in 0 .. prio' - 1
               PROVE  qty[a] = 0
    OBVIOUS
  <2>1. FindHighest
    BY DEF Next, Put, PutFull, Halt, Get, Dispatched, thread
  <2>2. /\ prio' \in ready
        /\ \A b \in ready : prio' <= b
        /\ ready = {b \in Prios : qty[b] # 0}
    BY <2>1 DEF FindHighest, Inv, QueueAgreement
  <2>3. prio' \in Prios
    BY <2>1, <2>2 DEF Inv, TypeOK
  <2>4. a \in Prios /\ ~(prio' <= a)
    BY <2>3, PriosBelow
  <2> QED
    BY <2>2, <2>4
<1> QED
  BY <1>1, Invariance, PTL DEF Spec, ServesHighest

-----------------------------------------------------------------------------
(* The rings implement the queues of EventQueue.                           *)

(* The n events of storage f from slot p on are a sequence.                *)
Ring(f, p, n) == [i \in 1 .. n |-> f[Slot(p, i - 1)]]

\* A ring read from a slot on is a sequence of events.
LEMMA RingType ==
  ASSUME NEW f, NEW p \in Slots, NEW n \in 0 .. NELEMS,
         \A i \in 0 .. NELEMS - 1 : i < n => f[Slot(p, i)] \in Events
  PROVE  /\ Ring(f, p, n) \in Seq(Events)
         /\ Len(Ring(f, p, n)) = n
         /\ \A i \in 1 .. n : Ring(f, p, n)[i] = f[Slot(p, i - 1)]
<1>1. ASSUME NEW i \in 1 .. n PROVE f[Slot(p, i - 1)] \in Events
  <2>1. i - 1 \in 0 .. NELEMS - 1 /\ i - 1 < n
    OBVIOUS
  <2> QED
    BY <2>1
<1> QED
  BY <1>1 DEF Ring

(* One more event at the end.                                              *)
Holds(f, p, n) ==
  \A i \in 0 .. NELEMS - 1 : i < n => f[Slot(p, i)] \in Events
Agree(f, h, p, n) ==
  \A i \in 0 .. NELEMS - 1 : i < n => h[Slot(p, i)] = f[Slot(p, i)]

Extends(t, s, ev) == t = Append(s, ev)

\* Storing behind the newest event appends it to the sequence.
LEMMA RingAppend ==
  ASSUME NEW f, NEW h, NEW p \in Slots, NEW n \in 0 .. NELEMS - 1,
         NEW ev \in Events,
         Holds(f, p, n), Agree(f, h, p, n),
         h[Slot(p, n)] = ev
  PROVE  Extends(Ring(h, p, n + 1), Ring(f, p, n), ev)
<1> USE DEF Holds, Agree
<1> DEFINE s == Ring(f, p, n)
           t == Ring(h, p, n + 1)
<1>1. /\ s \in Seq(Events) /\ Len(s) = n
      /\ \A i \in 1 .. n : s[i] = f[Slot(p, i - 1)]
  BY RingType
<1>2. \A i \in 0 .. NELEMS - 1 : i < n + 1 => h[Slot(p, i)] \in Events
  <2> SUFFICES ASSUME NEW i \in 0 .. NELEMS - 1, i < n + 1
               PROVE  h[Slot(p, i)] \in Events
    OBVIOUS
  <2>1. i < n \/ i = n
    OBVIOUS
  <2> QED
    BY <2>1
<1>3. /\ t \in Seq(Events) /\ Len(t) = n + 1
      /\ \A i \in 1 .. n + 1 : t[i] = h[Slot(p, i - 1)]
  <2>1. n + 1 \in 0 .. NELEMS
    OBVIOUS
  <2> HIDE DEF Ring
  <2> QED
    BY <1>2, <2>1, RingType
<1>4. ASSUME NEW i \in 1 .. n PROVE t[i] = s[i]
  <2>1. i - 1 \in 0 .. NELEMS - 1 /\ i - 1 < n /\ i \in 1 .. n + 1
    OBVIOUS
  <2>2. h[Slot(p, i - 1)] = f[Slot(p, i - 1)]
    BY <2>1
  <2> QED
    BY <1>1, <1>3, <2>1, <2>2
<1>5. t[n + 1] = ev
  <2>1. n + 1 \in 1 .. n + 1 /\ (n + 1) - 1 = n
    OBVIOUS
  <2>2. t[n + 1] = h[Slot(p, (n + 1) - 1)]
    BY <1>3, <2>1
  <2> QED
    BY <2>1, <2>2
<1> HIDE DEF s, t
<1>6. t = Append(s, ev)
  <2>1. /\ Append(s, ev) \in Seq(Events) /\ Len(Append(s, ev)) = n + 1
        /\ \A i \in 1 .. n : Append(s, ev)[i] = s[i]
        /\ Append(s, ev)[n + 1] = ev
    BY <1>1, AppendProperties
  <2>2. ASSUME NEW i \in 1 .. n + 1 PROVE t[i] = Append(s, ev)[i]
    <3>1. i \in 1 .. n \/ i = n + 1
      OBVIOUS
    <3> QED
      BY <1>4, <1>5, <2>1, <3>1
  <2> QED
    BY <1>3, <2>1, <2>2, SeqEqual
<1> QED
  BY <1>6 DEF s, t, Extends

(* One event less at the front.                                            *)
LEMMA RingTail ==
  ASSUME NEW f, NEW p \in Slots, NEW n \in 1 .. NELEMS,
         \A i \in 0 .. NELEMS - 1 : i < n => f[Slot(p, i)] \in Events
  PROVE  /\ Ring(f, p, n) # <<>>
         /\ Head(Ring(f, p, n)) = f[p]
         /\ Ring(f, Advance(p), n - 1) = Tail(Ring(f, p, n))
<1> DEFINE s == Ring(f, p, n)
           t == Ring(f, Advance(p), n - 1)
<1>1. /\ s \in Seq(Events) /\ Len(s) = n
      /\ \A i \in 1 .. n : s[i] = f[Slot(p, i - 1)]
  BY RingType
<1>2. /\ Advance(p) \in Slots
      /\ \A i \in 0 .. NELEMS - 1 : Slot(Advance(p), i) = Slot(p, i + 1)
  BY SlotNext, 0 \in 0 .. NELEMS - 1
<1>3. ASSUME NEW i \in 0 .. NELEMS - 1, i < n - 1
      PROVE  f[Slot(Advance(p), i)] \in Events
  <2>1. i + 1 \in 0 .. NELEMS - 1 /\ i + 1 < n
    BY <1>3
  <2> QED
    BY <1>2, <2>1
<1>4. /\ t \in Seq(Events) /\ Len(t) = n - 1
      /\ \A i \in 1 .. n - 1 : t[i] = f[Slot(Advance(p), i - 1)]
  <2>1. n - 1 \in 0 .. NELEMS
    OBVIOUS
  <2> QED
    BY <1>2, <1>3, <2>1, RingType
<1>5. ASSUME NEW i \in 1 .. n - 1 PROVE t[i] = s[i + 1]
  <2>1. i - 1 \in 0 .. NELEMS - 1 /\ i + 1 \in 1 .. n
    OBVIOUS
  <2>2. Slot(Advance(p), i - 1) = Slot(p, (i - 1) + 1)
    BY <1>2, <2>1
  <2>3. (i - 1) + 1 = (i + 1) - 1
    OBVIOUS
  <2>4. s[i + 1] = f[Slot(p, (i + 1) - 1)]
    BY <1>1, <2>1
  <2> QED
    BY <1>4, <2>2, <2>3, <2>4
<1>6. s[1] = f[p]
  <2>1. s[1] = f[Slot(p, 1 - 1)]
    BY <1>1
  <2>2. Slot(p, 1 - 1) = p
    BY DEF Slot, Slots
  <2> QED
    BY <2>1, <2>2
<1> HIDE DEF s, t
<1>7. s # <<>> /\ Head(s) = f[p]
  BY <1>1, <1>6
<1>8. t = Tail(s)
  <2>1. /\ Tail(s) \in Seq(Events) /\ Len(Tail(s)) = n - 1
        /\ \A i \in 1 .. n - 1 : Tail(s)[i] = s[i + 1]
    BY <1>1, <1>7, HeadTailProperties
  <2> QED
    BY <1>4, <1>5, <2>1, SeqEqual
<1> QED
  BY <1>7, <1>8 DEF s, t

\* A ring without events is the empty sequence.
LEMMA RingEmpty == ASSUME NEW f, NEW p PROVE Ring(f, p, 0) = <<>>
<1>1. Ring(f, p, 0) \in Seq({}) /\ Len(Ring(f, p, 0)) = 0
  BY DEF Ring
<1> QED
  BY <1>1, EmptySeq

(* What a queue in use holds, and its length.                              *)
LEMMA WaitingLength ==
  ASSUME Inv, NEW a \in Prios
  PROVE  Waiting(a) = Ring(sto[a], pout[a], qty[a]) /\ Len(Waiting(a)) = qty[a]
<1>1. /\ pout[a] \in Slots /\ qty[a] \in 0 .. NELEMS
      /\ \A n \in 0 .. NELEMS - 1 : n < qty[a] =>
           sto[a][Slot(pout[a], n)] \in Events
  BY DEF Inv, TypeOK, Stored
<1>2. Waiting(a) = Ring(sto[a], pout[a], qty[a])
  BY DEF Waiting, Ring
<1> DEFINE f == sto[a]
           p == pout[a]
           n == qty[a]
<1>3. /\ p \in Slots /\ n \in 0 .. NELEMS
      /\ \A i \in 0 .. NELEMS - 1 : i < n => f[Slot(p, i)] \in Events
  BY <1>1
<1> HIDE DEF f, p, n
<1>4. Len(Ring(f, p, n)) = n
  BY <1>3, RingType
<1> QED
  BY <1>2, <1>4 DEF f, p, n

\* A post appends to the object's queue and leaves the others.
LEMMA PutAppends ==
  ASSUME Inv, NEW a \in Prios, NEW ev \in Events, Put(a, ev)
  PROVE  /\ Waiting(a)' = Append(Waiting(a), ev)
         /\ \A b \in Prios \ {a} : Waiting(b)' = Waiting(b)
<1>1. Waiting(a)' = Ring(sto'[a], pout[a], qty[a] + 1)
  BY PutStores DEF Waiting, Ring
<1>2. /\ pout[a] \in Slots /\ qty[a] \in 0 .. NELEMS - 1
      /\ \A n \in 0 .. NELEMS - 1 : n < qty[a] =>
           /\ sto[a][Slot(pout[a], n)] \in Events
           /\ sto'[a][Slot(pout[a], n)] = sto[a][Slot(pout[a], n)]
      /\ sto'[a][Slot(pout[a], qty[a])] = ev
  BY PutStores DEF Inv, TypeOK, Stored
<1>3. Waiting(a)' = Append(Waiting(a), ev)
  <2>0. PICK f, h, p, n :
          f = sto[a] /\ h = sto'[a] /\ p = pout[a] /\ n = qty[a]
    OBVIOUS
  <2>1. /\ p \in Slots /\ n \in 0 .. NELEMS - 1
        /\ Holds(f, p, n) /\ Agree(f, h, p, n)
        /\ h[Slot(p, n)] = ev
    BY <1>2, <2>0 DEF Holds, Agree
  <2>2. Extends(Ring(h, p, n + 1), Ring(f, p, n), ev)
    BY <2>1, RingAppend
  <2>3. Extends(Waiting(a)', Waiting(a), ev)
    BY <1>1, <2>0, <2>2, WaitingLength
  <2> QED
    BY <2>3 DEF Extends
<1>4. ASSUME NEW b \in Prios \ {a} PROVE Waiting(b)' = Waiting(b)
  BY PutStores DEF Waiting
<1> QED
  BY <1>3, <1>4

\* A get takes the head of the queue of the object chosen.
LEMMA GetTakesOldest ==
  ASSUME Inv, Get
  PROVE  /\ Waiting(prio) # <<>>
         /\ e' = Head(Waiting(prio))
         /\ \A b \in Prios :
              Waiting(b)' = IF b = prio THEN Tail(Waiting(b)) ELSE Waiting(b)
<1>1. /\ prio \in Prios /\ pout[prio] \in Slots /\ qty[prio] \in 1 .. NELEMS
      /\ \A n \in 0 .. NELEMS - 1 : n < qty[prio] =>
           sto[prio][Slot(pout[prio], n)] \in Events
  BY GetTakes DEF Inv, Stored
<1>2. /\ sto' = sto
      /\ \A b \in Prios :
           /\ pout'[b] = IF b = prio THEN Advance(pout[b]) ELSE pout[b]
           /\ qty'[b] = IF b = prio THEN qty[b] - 1 ELSE qty[b]
  BY GetTakes DEF Inv, TypeOK
<1>3. ASSUME NEW b \in Prios
      PROVE  Waiting(b)' = Ring(sto[b], pout'[b], qty'[b])
  BY <1>2 DEF Waiting, Ring
<1>4. Waiting(prio) = Ring(sto[prio], pout[prio], qty[prio])
  BY <1>1, WaitingLength
<1>5. /\ Ring(sto[prio], pout[prio], qty[prio]) # <<>>
      /\ Head(Ring(sto[prio], pout[prio], qty[prio])) = sto[prio][pout[prio]]
      /\ Ring(sto[prio], Advance(pout[prio]), qty[prio] - 1) =
           Tail(Ring(sto[prio], pout[prio], qty[prio]))
  <2> DEFINE f == sto[prio]
             p == pout[prio]
             n == qty[prio]
  <2>1. /\ p \in Slots /\ n \in 1 .. NELEMS
        /\ \A i \in 0 .. NELEMS - 1 : i < n => f[Slot(p, i)] \in Events
    BY <1>1
  <2> HIDE DEF f, p, n
  <2>2. /\ Ring(f, p, n) # <<>>
        /\ Head(Ring(f, p, n)) = f[p]
        /\ Ring(f, Advance(p), n - 1) = Tail(Ring(f, p, n))
    BY <2>1, RingTail
  <2> QED
    BY <2>2 DEF f, p, n
<1>6. ASSUME NEW b \in Prios
      PROVE  Waiting(b)' = IF b = prio THEN Tail(Waiting(b)) ELSE Waiting(b)
  <2>1. CASE b = prio
    BY <1>1, <1>2, <1>3, <1>4, <1>5, <2>1
  <2>2. CASE b # prio
    BY <1>2, <1>3, <2>2, WaitingLength
  <2> QED
    BY <2>1, <2>2
<1> QED
  BY <1>4, <1>5, <1>6, GetTakes

\* Every step maps to a step of EventQueue or to a stutter.
LEMMA Simulates ==
  ASSUME Inv, [Next]_vars PROVE [Abstract!Next]_(Abstract!vars)
<1> DEFINE fifo == [a \in Prios |-> Waiting(a)]
<1> USE DEF queues, thread, Abstract!vars, Abstract!Next
<1>1. ASSUME NEW a \in Prios, NEW ev \in Events, Put(a, ev)
      PROVE  Abstract!Put(a, ev)
  <2>1. fifo' = [fifo EXCEPT ![a] = Append(Waiting(a), ev)]
    BY <1>1, PutAppends
  <2>2. Len(fifo[a]) < NELEMS
    BY <1>1, WaitingLength DEF Put
  <2> QED
    BY <1>1, <2>1, <2>2 DEF Abstract!Put, Put
<1>2. ASSUME NEW a \in Prios, PutFull(a) PROVE Abstract!Overflow(a)
  <2>1. qty[a] \in 0 .. NELEMS /\ qty[a] >= NELEMS
    BY <1>2 DEF PutFull, Inv, TypeOK
  <2>2. Len(fifo[a]) = NELEMS
    BY <2>1, WaitingLength
  <2>3. fifo' = fifo /\ e' = e
    BY <1>2 DEF PutFull, Halt, Waiting
  <2> QED
    BY <1>2, <2>2, <2>3 DEF Abstract!Overflow, PutFull, Halt
<1>3. CASE FindHighest
  <2>1. fifo' = fifo /\ e' = e /\ halted' = halted
    BY <1>3 DEF FindHighest, Waiting
  <2> QED
    BY <2>1
<1>4. CASE Get
  <2>1. prio \in Prios /\ fifo' = [fifo EXCEPT ![prio] = Tail(Waiting(prio))]
    BY <1>4, GetTakesOldest, GetTakes
  <2>2. e = NoEvent
    BY <1>4 DEF Get, Inv, Chosen
  <2>3. Abstract!Take(prio)
    BY <1>4, <2>1, <2>2, GetTakesOldest, GetTakes DEF Abstract!Take, Get
  <2> QED
    BY <2>1, <2>3
<1>5. CASE Dispatched
  <2>1. fifo' = fifo
    BY <1>5 DEF Dispatched, Waiting
  <2>2. e # NoEvent
    BY <1>5 DEF Dispatched, Inv, Chosen
  <2>3. Abstract!Done
    BY <1>5, <2>1, <2>2 DEF Abstract!Done, Dispatched
  <2> QED
    BY <2>3
<1>6. CASE UNCHANGED vars
  <2>1. fifo' = fifo /\ e' = e /\ halted' = halted
    BY <1>6 DEF vars, Waiting
  <2> QED
    BY <2>1
<1> QED
  BY <1>1, <1>2, <1>3, <1>4, <1>5, <1>6 DEF Next

(* The rings, the ready table and the loop implement EventQueue: every     *)
(* event posted is taken once, in the order of the posts to its active     *)
(* object, and none is lost but by stopping the system.                    *)
THEOREM RingsImplementQueues == Spec => ImplementsEventQueue
<1>1. Init => Abstract!Init
  <2> SUFFICES ASSUME Init PROVE Abstract!Init
    OBVIOUS
  <2>1. ASSUME NEW a \in Prios PROVE Waiting(a) = <<>>
    BY RingEmpty DEF Init, Waiting, Ring
  <2> QED
    BY <2>1 DEF Init, Abstract!Init
<1>2. Inv /\ [Next]_vars => [Abstract!Next]_(Abstract!vars)
  BY Simulates
<1> QED
  BY <1>1, <1>2, Invariance, PTL DEF Spec, ImplementsEventQueue, Abstract!Spec
=============================================================================
