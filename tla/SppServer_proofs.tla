-------------------------- MODULE SppServer_proofs --------------------------
(***************************************************************************)
(* Proofs about SppServer, for rings and packets of any size, any number   *)
(* of bytes and any number of events that wait.                            *)
(***************************************************************************)
EXTENDS SppServer, TLAPS

USE SppAssumption

(***************************************************************************)
(* The inductive invariant.  What the loop believes is what the events it  *)
(* has handled say, so it must be told what those that wait may be: the    *)
(* stack reports a link in "opened", requests, "closed", and the loop      *)
(* advertises, and so lets the next phone in, only when it has handled     *)
(* them all.                                                               *)
(***************************************************************************)
Last(s) == s[Len(s)]
Holds(ev) == \E i \in 1 .. Len(events) : events[i] = ev

Types ==
  /\ link \in BOOLEAN /\ ccc \in BOOLEAN /\ adv \in BOOLEAN
  /\ takes \in {DEFAULT_PACKET, LARGE_PACKET}
  /\ events \in Seq(SppEvents)
  /\ main_state \in STATES
  /\ max_packet_size \in {DEFAULT_PACKET, LARGE_PACKET}
  /\ pin \in {0, 1}
  /\ blocks \in 0 .. 255
  /\ pc \in {"off", "loop", "fill", "send"}
  /\ uart \in BOOLEAN

(* The events of one life of the link, in their order.                     *)
Order ==
  /\ adv => ~link /\ events = <<>> /\ pc # "off"
  /\ pc # "off" /\ ~adv /\ ~link =>
       events # <<>> /\ Last(events) \in {"boot", "closed"}
  /\ \A i \in 1 .. Len(events) :
       /\ events[i] \in {"boot", "closed"} => i = Len(events) /\ ~link
       /\ events[i] \in {"boot", "opened"} => i = 1
  /\ pc = "off" => ~link /\ ~adv /\ events = <<>>

(* The pin, before and after "opened" is handled.                          *)
PinFollows ==
  /\ adv \/ pc = "off" \/ Holds("boot") => pin = 1
  /\ link /\ ~Holds("opened") => pin = 0

(* The last request of the phone is what it has.                           *)
IsRequest(ev) == ev \in {"notify_on", "notify_off"}
Want == IF ccc THEN "notify_on" ELSE "notify_off"
RequestWaits ==
  \E i \in 1 .. Len(events) :
    /\ events[i] = Want
    /\ \A j \in i + 1 .. Len(events) : ~IsRequest(events[j])
RequestsHandled ==
  /\ \A i \in 1 .. Len(events) : ~IsRequest(events[i])
  /\ Holds("opened") => ~ccc
  /\ ~Holds("opened") => (ccc <=> main_state = "STATE_SPP_MODE")

RequestsFollow ==
  /\ ccc => link
  /\ adv => main_state = "STATE_ADVERTISING"
  /\ link => RequestWaits \/ RequestsHandled

(* The packet's size is what the phone at the link agreed to.              *)
SizeFollows ==
  /\ adv => max_packet_size = DEFAULT_PACKET
  /\ link => max_packet_size <= takes
  /\ link /\ Holds("mtu") => takes = LARGE_PACKET

(* The requests that wait do not make the count of the blocks wrap.        *)
RoomToBlock ==
  \A i \in 1 .. Len(events) : events[i] = "notify_on" => blocks + i <= MaxBlocks

(* Nothing is handled while a packet is collected.                         *)
Collecting ==
  /\ pc \in {"fill", "send"} => main_state = "STATE_SPP_MODE"
  /\ pc \in {"fill", "send"} => Len(data) <= max_packet_size
  /\ pc \in {"off", "loop"} => data = <<>>
  /\ pc = "send" => data # <<>>

(* Bytes, oldest to newest: the last received, the packet, the ring, the   *)
(* last sent.                                                              *)
ByteTypes ==
  /\ sent \in 0 .. MaxBytes /\ got \in 0 .. sent
  /\ rx \in Seq(1 .. MaxBytes) /\ data \in Seq(1 .. MaxBytes)
  /\ Len(rx) <= RXBUFSIZE
Within(s) == \A i \in 1 .. Len(s) : got < s[i] /\ s[i] <= sent
Ascending(s) == \A i, j \in 1 .. Len(s) : i < j => s[i] < s[j]
Packeted == \A i \in 1 .. Len(data), j \in 1 .. Len(rx) : data[i] < rx[j]

Bytes ==
  /\ ByteTypes
  /\ Within(data) /\ Within(rx) /\ Ascending(data) /\ Ascending(rx)
  /\ Packeted

Inv ==
  /\ Types /\ Order /\ PinFollows /\ RequestsFollow /\ SizeFollows
  /\ RoomToBlock /\ Collecting /\ Bytes /\ AwakeWhileForwarding

-----------------------------------------------------------------------------
(* The queue of events.                                                    *)

\* An event joins behind those that wait.
LEMMA EventAppended ==
  ASSUME events \in Seq(SppEvents), NEW ev \in SppEvents, events' = Append(events, ev)
  PROVE  /\ events' \in Seq(SppEvents) /\ events' # <<>>
         /\ Len(events') = Len(events) + 1 /\ Len(events) \in Nat
         /\ events'[Len(events) + 1] = ev
         /\ \A i \in 1 .. Len(events) : events'[i] = events[i]
OBVIOUS

\* The first is taken and the others move up.
LEMMA EventTaken ==
  ASSUME events \in Seq(SppEvents), events # <<>>, events' = Tail(events)
  PROVE  /\ events' \in Seq(SppEvents)
         /\ Len(events') = Len(events) - 1 /\ Len(events) \in Nat \ {0}
         /\ \A i \in 1 .. Len(events) - 1 : events'[i] = events[i + 1]
         /\ Head(events) = events[1] /\ events[1] \in SppEvents
OBVIOUS

\* What the stack leaves alone.
LEMMA StackSteps ==
  ASSUME Types, NEW ev \in SppEvents, Stack(ev)
  PROVE  /\ pc # "off" /\ events' = Append(events, ev)
         /\ UNCHANGED <<main_state, max_packet_size, pin, blocks, pc>>
         /\ UNCHANGED <<uart, rx, data, sent, got>>
BY DEF Stack, stateVars, byteVars

\* The event at the head decides what is done.
LEMMA HandleSteps ==
  ASSUME Types, HandleEvent
  PROVE  /\ pc = "loop" /\ events # <<>> /\ events' = Tail(events)
         /\ UNCHANGED <<link, takes, ccc, pc>>
         /\ UNCHANGED <<uart, rx, data, sent, got>>
         /\ \/ events[1] = "boot" /\ Boot
            \/ events[1] = "opened" /\ Opened
            \/ events[1] = "mtu" /\ MtuExchanged
            \/ events[1] = "notify_on" /\ NotifyOn
            \/ events[1] = "notify_off" /\ NotifyOff
            \/ events[1] = "value" /\ Value
            \/ events[1] = "closed" /\ Closed
<1>1. /\ pc = "loop" /\ events # <<>> /\ events' = Tail(events)
      /\ UNCHANGED <<link, takes, ccc, pc>>
      /\ UNCHANGED <<uart, rx, data, sent, got>>
  BY DEF HandleEvent, byteVars
<1>2. Head(events) = events[1] /\ events[1] \in SppEvents
  BY <1>1, EventTaken DEF Types
<1> QED
  BY <1>1, <1>2 DEF HandleEvent, SppEvents

\* An event blocks sleep at most once.
LEMMA HandleBlocks ==
  ASSUME Types, HandleEvent PROVE blocks' \in 0 .. 255 /\ blocks' <= blocks + 1
<1>1. blocks \in 0 .. 255
  BY DEF Types
<1>2. CASE Boot \/ Opened \/ MtuExchanged \/ Value
  BY <1>1, <1>2 DEF Boot, Opened, MtuExchanged, Value, stateVars
<1>3. CASE NotifyOn
  BY <1>1, <1>3 DEF NotifyOn, SleepBlockBegin
<1>4. CASE NotifyOff \/ Closed
  <2>1. blocks' = IF blocks > 0 THEN blocks - 1 ELSE 0
    BY <1>4 DEF NotifyOff, Closed, SleepBlockEnd
  <2> QED
    BY <1>1, <2>1
<1> QED
  BY <1>2, <1>3, <1>4, HandleSteps

(* What the steps of the phone are. *)
LEMMA PhoneSteps ==
  ASSUME Types, Phone
  PROVE  \E ev \in SppEvents \ {"boot"} :
           /\ Stack(ev)
           /\ ev = "notify_on" => blocks + Len(events) < MaxBlocks
           /\ \/ /\ ev = "opened" /\ adv /\ ~link
                 /\ link' = TRUE /\ adv' = FALSE
                 /\ takes' = DEFAULT_PACKET /\ ccc' = FALSE
              \/ /\ ev = "mtu" /\ link /\ takes' = LARGE_PACKET
                 /\ UNCHANGED <<link, ccc, adv>>
              \/ /\ ev \in {"notify_on", "notify_off"} /\ link
                 /\ ccc' = (ev = "notify_on")
                 /\ UNCHANGED <<link, takes, adv>>
              \/ /\ ev = "value" /\ link /\ UNCHANGED <<link, takes, ccc, adv>>
              \/ /\ ev = "closed" /\ link /\ link' = FALSE /\ ccc' = FALSE
                 /\ UNCHANGED <<takes, adv>>
<1>1. CASE PhoneConnects
  BY <1>1 DEF PhoneConnects, SppEvents
<1>2. CASE PhoneExchangesMtu
  BY <1>2 DEF PhoneExchangesMtu, SppEvents
<1>3. CASE PhoneWrites
  BY <1>3 DEF PhoneWrites, SppEvents
<1>4. CASE LinkLost
  BY <1>4 DEF LinkLost, SppEvents
<1>5. ASSUME NEW on \in BOOLEAN, PhoneSubscribes(on)
      PROVE  \E ev \in {"notify_on", "notify_off"} :
               /\ Stack(ev) /\ link /\ ccc' = (ev = "notify_on")
               /\ ev = "notify_on" => blocks + Len(events) < MaxBlocks
               /\ UNCHANGED <<link, takes, adv>>
  BY <1>5 DEF PhoneSubscribes
<1>6. CASE \E on \in BOOLEAN : PhoneSubscribes(on)
  BY <1>5, <1>6 DEF SppEvents
<1> QED
  BY <1>1, <1>2, <1>3, <1>4, <1>6 DEF Phone

-----------------------------------------------------------------------------
(* The conjuncts one by one.                                               *)

LEMMA TypesNext == ASSUME Types, [SppNext]_sppVars PROVE Types'
<1>1. CASE Phone
  <2>1. PICK ev \in SppEvents : Stack(ev) /\ takes' \in {takes, DEFAULT_PACKET, LARGE_PACKET}
                /\ link' \in BOOLEAN /\ ccc' \in BOOLEAN /\ adv' \in BOOLEAN
    BY <1>1, PhoneSteps DEF Types
  <2>2. events' \in Seq(SppEvents) /\ UNCHANGED <<main_state, max_packet_size, pin, blocks, pc, uart>>
    BY <2>1, StackSteps, EventAppended DEF Types
  <2> QED
    BY <2>1, <2>2 DEF Types
<1>2. CASE HandleEvent
  <2>1. events' \in Seq(SppEvents) /\ UNCHANGED <<link, takes, ccc, pc, uart>>
    BY <1>2, HandleSteps, EventTaken DEF Types
  <2>2. adv' \in BOOLEAN
    <3>1. adv' \in {adv, TRUE}
      BY <1>2, HandleSteps DEF Boot, Opened, MtuExchanged, NotifyOn, NotifyOff,
         Value, Closed
    <3> QED
      BY <3>1 DEF Types
  <2>3. /\ main_state' \in STATES
        /\ max_packet_size' \in {DEFAULT_PACKET, LARGE_PACKET} /\ pin' \in {0, 1}
    <3>1. CASE Boot \/ Opened \/ MtuExchanged \/ Value
      BY <3>1 DEF Types, STATES, Boot, Opened, MtuExchanged, Value, reset_variables,
         stateVars
    <3>2. CASE NotifyOn \/ NotifyOff
      BY <3>2 DEF Types, STATES, NotifyOn, NotifyOff
    <3>3. CASE Closed
      BY <3>3 DEF Types, STATES, Closed, reset_variables
    <3> QED
      BY <1>2, <3>1, <3>2, <3>3, HandleSteps
  <2> QED
    BY <1>2, <2>1, <2>2, <2>3, HandleBlocks DEF Types
<1>3. CASE SendBegins \/ Fill \/ Filled \/ Notify \/ NodeSends
  <2>1. /\ UNCHANGED <<link, takes, ccc, adv, events>>
        /\ UNCHANGED <<main_state, max_packet_size, pin, blocks>>
        /\ pc' \in {pc, "loop", "fill", "send"} /\ uart' \in {uart, TRUE}
    BY <1>3 DEF SendBegins, Fill, Filled, Notify, NodeSends, stackVars, stateVars, byteVars
  <2> QED
    BY <2>1 DEF Types
<1>4. CASE ResetSet
  <2>1. /\ link' \in BOOLEAN /\ ccc' \in BOOLEAN /\ adv' \in BOOLEAN
        /\ uart' \in BOOLEAN
    BY <1>4 DEF ResetSet
  <2>2. /\ takes' = DEFAULT_PACKET /\ max_packet_size' = DEFAULT_PACKET
        /\ main_state' \in STATES /\ pin' \in {0, 1} /\ blocks' \in 0 .. 255
        /\ pc' = "off" /\ events' \in Seq(SppEvents)
    BY <1>4 DEF ResetSet, STATES
  <2> QED
    BY <2>1, <2>2 DEF Types
<1>5. CASE ResetReleased
  <2>1. <<"boot">> \in Seq(SppEvents)
    BY DEF SppEvents
  <2> QED
    BY <1>5, <2>1 DEF ResetReleased, Types, stateVars, byteVars
<1>6. CASE UNCHANGED sppVars
  BY <1>6 DEF Types, sppVars, stackVars, stateVars, byteVars
<1> QED
  BY <1>1, <1>2, <1>3, <1>4, <1>5, <1>6 DEF SppNext, Server, Node

\* One place further on, one block more.
LEMMA OneMore ==
  ASSUME NEW m \in Nat, NEW n \in Nat, NEW b \in Nat, NEW k \in Nat,
         n <= b + 1, b + (k + 1) <= m
  PROVE  n + k <= m
OBVIOUS

LEMMA RoomNext ==
  ASSUME Types, RoomToBlock, [SppNext]_sppVars PROVE RoomToBlock'
<1>1. CASE Phone
  <2>1. PICK ev \in SppEvents :
          Stack(ev) /\ (ev = "notify_on" => blocks + Len(events) < MaxBlocks)
    BY <1>1, PhoneSteps
  <2>2. /\ UNCHANGED blocks
        /\ Len(events') = Len(events) + 1 /\ Len(events) \in Nat
        /\ events'[Len(events) + 1] = ev
        /\ \A i \in 1 .. Len(events) : events'[i] = events[i]
    BY <2>1, StackSteps, EventAppended DEF Types
  <2> SUFFICES ASSUME NEW i \in 1 .. Len(events'), events'[i] = "notify_on"
               PROVE  blocks' + i <= MaxBlocks
    BY DEF RoomToBlock
  <2>3. CASE i = Len(events')
    <3>1. i = Len(events) + 1 /\ ev = "notify_on"
      BY <2>2, <2>3
    <3>2. blocks \in Nat /\ MaxBlocks \in Nat /\ blocks + Len(events) < MaxBlocks
      BY <2>1, <3>1, SppAssumption DEF Types
    <3> QED
      BY <2>2, <3>1, <3>2
  <2>4. CASE i # Len(events')
    BY <2>2, <2>4 DEF RoomToBlock
  <2> QED
    BY <2>3, <2>4
<1>2. CASE HandleEvent
  <2>1. /\ Len(events') = Len(events) - 1 /\ Len(events) \in Nat \ {0}
        /\ \A i \in 1 .. Len(events) - 1 : events'[i] = events[i + 1]
    BY <1>2, HandleSteps, EventTaken DEF Types
  <2>2. blocks' <= blocks + 1 /\ blocks' \in 0 .. 255
    BY <1>2, HandleBlocks
  <2> SUFFICES ASSUME NEW i \in 1 .. Len(events'), events'[i] = "notify_on"
               PROVE  blocks' + i <= MaxBlocks
    BY DEF RoomToBlock
  <2>3. i + 1 \in 1 .. Len(events) /\ events[i + 1] = "notify_on"
    BY <2>1
  <2>4. blocks + (i + 1) <= MaxBlocks
    BY <2>3 DEF RoomToBlock
  <2>5. blocks \in Nat /\ i \in Nat /\ blocks' \in Nat /\ MaxBlocks \in Nat
    BY <2>1, <2>2 DEF Types
  <2> QED
    BY <2>2, <2>4, <2>5, OneMore
<1>3. CASE SendBegins \/ Fill \/ Filled \/ Notify \/ NodeSends
  BY <1>3 DEF SendBegins, Fill, Filled, Notify, NodeSends, RoomToBlock, stackVars, stateVars
<1>4. CASE ResetSet
  BY <1>4 DEF ResetSet, RoomToBlock
<1>5. CASE ResetReleased
  BY <1>5 DEF ResetReleased, RoomToBlock
<1>6. CASE UNCHANGED sppVars
  BY <1>6 DEF RoomToBlock, sppVars, stackVars, stateVars
<1> QED
  BY <1>1, <1>2, <1>3, <1>4, <1>5, <1>6 DEF SppNext, Server, Node

\* Sleep is blocked when the loop begins to forward, and as long as it does.
LEMMA AwakeNext ==
  ASSUME Types, RoomToBlock, AwakeWhileForwarding, [SppNext]_sppVars
  PROVE  AwakeWhileForwarding'
<1>1. CASE Phone
  BY <1>1, PhoneSteps, StackSteps DEF AwakeWhileForwarding
<1>2. CASE HandleEvent
  <2>1. CASE events[1] = "notify_on"
    <3>1. Len(events) \in Nat \ {0}
      BY <1>2, HandleSteps, EventTaken DEF Types
    <3>2. blocks + 1 <= MaxBlocks
      BY <2>1, <3>1 DEF RoomToBlock
    <3>3. blocks' = IF blocks = 255 THEN 0 ELSE blocks + 1
      BY <1>2, <2>1, HandleSteps DEF NotifyOn, SleepBlockBegin
    <3>4. blocks' = blocks + 1
      BY <3>2, <3>3 DEF Types
    <3> QED
      BY <3>4 DEF Types, AwakeWhileForwarding
  <2>2. CASE events[1] # "notify_on"
    BY <1>2, <2>2, HandleSteps DEF AwakeWhileForwarding, Boot, Opened, MtuExchanged,
       NotifyOff, Value, Closed, reset_variables, stateVars
  <2> QED
    BY <2>1, <2>2
<1>3. CASE SendBegins \/ Fill \/ Filled \/ Notify \/ NodeSends \/ ResetReleased
  BY <1>3 DEF SendBegins, Fill, Filled, Notify, NodeSends, ResetReleased,
     AwakeWhileForwarding, stateVars
<1>4. CASE ResetSet
  BY <1>4 DEF ResetSet, AwakeWhileForwarding
<1>5. CASE UNCHANGED sppVars
  BY <1>5 DEF AwakeWhileForwarding, sppVars, stateVars
<1> QED
  BY <1>1, <1>2, <1>3, <1>4, <1>5 DEF SppNext, Server, Node

LEMMA OrderNext == ASSUME Types, Order, [SppNext]_sppVars PROVE Order'
<1>1. CASE Phone
  <2>1. PICK ev \in SppEvents \ {"boot"} :
           /\ Stack(ev)
           /\ \/ ev = "opened" /\ adv /\ link' = TRUE /\ adv' = FALSE
              \/ ev \notin {"opened", "closed"} /\ link /\ UNCHANGED <<link, adv>>
              \/ ev = "closed" /\ link /\ link' = FALSE /\ UNCHANGED adv
    BY <1>1, PhoneSteps
  <2>2. /\ pc # "off" /\ pc' = pc
        /\ events' # <<>>
        /\ Len(events') = Len(events) + 1 /\ Len(events) \in Nat
        /\ events'[Len(events) + 1] = ev
        /\ \A i \in 1 .. Len(events) : events'[i] = events[i]
    BY <2>1, StackSteps, EventAppended DEF Types
  <2>3. CASE ev = "opened"
    <3>1. Len(events) = 0
      BY <2>1, <2>3 DEF Order, Types
    <3> QED
      BY <2>1, <2>2, <2>3, <3>1 DEF Order, Last
  <2>4. CASE ev # "opened"
    <3>1. /\ link /\ ~adv /\ ~adv' /\ (link' \/ ev = "closed") /\ (ev = "closed" => ~link')
          /\ \A i \in 1 .. Len(events) : events[i] \notin {"boot", "closed"}
      BY <2>1, <2>4 DEF Order
    <3> QED
      BY <2>1, <2>2, <2>4, <3>1 DEF Order, Last
  <2> QED
    BY <2>3, <2>4
<1>2. CASE HandleEvent
  <2>1. /\ pc = "loop" /\ events # <<>> /\ UNCHANGED <<link, pc>>
        /\ Len(events') = Len(events) - 1 /\ Len(events) \in Nat \ {0}
        /\ \A i \in 1 .. Len(events) - 1 : events'[i] = events[i + 1]
        /\ events' \in Seq(SppEvents)
    BY <1>2, HandleSteps, EventTaken DEF Types
  <2>2. ~adv
    BY <2>1 DEF Order
  <2>3. CASE events[1] \in {"boot", "closed"}
    <3>1. Len(events) = 1 /\ ~link
      BY <2>1, <2>3 DEF Order
    <3>2. adv' = TRUE
      BY <1>2, <2>3, HandleSteps DEF Boot, Closed
    <3>3. events' = <<>>
      BY <2>1, <3>1
    <3> QED
      BY <2>1, <3>1, <3>2, <3>3 DEF Order
  <2>4. CASE events[1] \notin {"boot", "closed"}
    <3>1. ~adv'
      BY <1>2, <2>2, <2>4, HandleSteps DEF Opened, MtuExchanged, NotifyOn, NotifyOff, Value
    <3>2. ~link => Last(events) \in {"boot", "closed"} /\ Len(events) # 1
      BY <2>1, <2>2, <2>4 DEF Order, Last
    <3> QED
      BY <2>1, <2>4, <3>1, <3>2 DEF Order, Last
  <2> QED
    BY <2>3, <2>4
<1>3. CASE SendBegins \/ Fill \/ Filled \/ Notify \/ NodeSends
  BY <1>3 DEF SendBegins, Fill, Filled, Notify, NodeSends, Order, Last, stackVars
<1>4. CASE ResetSet
  BY <1>4 DEF ResetSet, Order
<1>5. CASE ResetReleased
  BY <1>5 DEF ResetReleased, Order, Last
<1>6. CASE UNCHANGED sppVars
  BY <1>6 DEF Order, Last, sppVars, stackVars
<1> QED
  BY <1>1, <1>2, <1>3, <1>4, <1>5, <1>6 DEF SppNext, Server, Node

\* An event that waits still does, unless it is the one handled.
LEMMA HeldStill ==
  ASSUME Types, HandleEvent, NEW ev, Holds(ev), ev # events[1] PROVE Holds(ev)'
<1>1. PICK i \in 1 .. Len(events) : events[i] = ev
  BY DEF Holds
<1>2. /\ Len(events') = Len(events) - 1 /\ Len(events) \in Nat \ {0}
      /\ \A k \in 1 .. Len(events) - 1 : events'[k] = events[k + 1]
  BY HandleSteps, EventTaken DEF Types
<1>3. i # 1 /\ i - 1 \in 1 .. Len(events')
  BY <1>1, <1>2
<1>4. events'[i - 1] = ev
  BY <1>1, <1>2, <1>3
<1> QED
  BY <1>3, <1>4 DEF Holds

\* An event that is left waited before.
LEMMA HeldBefore ==
  ASSUME Types, HandleEvent, NEW ev, Holds(ev)' PROVE Holds(ev)
<1>1. PICK i \in 1 .. Len(events') : events'[i] = ev
  BY DEF Holds
<1>2. /\ Len(events') = Len(events) - 1 /\ Len(events) \in Nat \ {0}
      /\ \A k \in 1 .. Len(events) - 1 : events'[k] = events[k + 1]
  BY HandleSteps, EventTaken DEF Types
<1> QED
  BY <1>1, <1>2 DEF Holds

\* An event joins: it waits, the others still do, and there are no more.
LEMMA HeldJoins ==
  ASSUME Types, NEW ev \in SppEvents, Stack(ev), NEW x
  PROVE  Holds(x)' <=> Holds(x) \/ x = ev
<1>1. /\ Len(events') = Len(events) + 1 /\ Len(events) \in Nat
      /\ events'[Len(events) + 1] = ev
      /\ \A i \in 1 .. Len(events) : events'[i] = events[i]
  BY StackSteps, EventAppended DEF Types
<1> QED
  BY <1>1 DEF Holds

\* Where a phone is, neither "boot" nor "closed" waits.
LEMMA NothingBehind ==
  ASSUME Types, Order, link, pc # "off"
  PROVE  events # <<>> => events[1] \notin {"boot", "closed"}
BY DEF Order, Types

LEMMA PinNext ==
  ASSUME Types, Order, PinFollows, [SppNext]_sppVars PROVE PinFollows'
<1>1. CASE Phone
  <2>1. PICK ev \in SppEvents :
           /\ Stack(ev)
           /\ ev # "boot"
           /\ \/ ev = "opened" /\ adv' = FALSE
              \/ ev # "opened" /\ UNCHANGED adv /\ (link' => link)
    BY <1>1, PhoneSteps
  <2>2. /\ UNCHANGED <<pin, pc>>
        /\ Holds("opened")' <=> Holds("opened") \/ ev = "opened"
        /\ Holds("boot")' <=> Holds("boot") \/ ev = "boot"
    BY <2>1, HeldJoins, StackSteps
  <2> QED
    BY <2>1, <2>2 DEF PinFollows
<1>2. CASE HandleEvent
  <2>1. pc # "off" /\ events # <<>> /\ link' = link
    BY <1>2, HandleSteps
  <2>2. ~adv
    BY <2>1 DEF Order
  <2>3. adv' \/ Holds("boot")' => pin' = 1
    <3>1. CASE events[1] = "boot"
      <4>1. Holds("boot")
        BY <2>1, <3>1 DEF Holds, Types
      <4> QED
        BY <1>2, <3>1, <4>1, HandleSteps DEF Boot, PinFollows
    <3>2. CASE events[1] = "closed"
      BY <1>2, <3>2, HandleSteps DEF Closed
    <3>3. CASE events[1] \notin {"boot", "closed"}
      <4>1. ~adv'
        BY <1>2, <2>2, <3>3, HandleSteps DEF Opened, MtuExchanged, NotifyOn,
           NotifyOff, Value
      <4>2. ASSUME Holds("boot")' PROVE pin' = 1
        <5>1. Holds("boot")
          BY <1>2, <4>2, HeldBefore
        <5> QED
          BY <2>1, <3>3, <5>1 DEF Holds, Order, Types
      <4> QED
        BY <4>1, <4>2
    <3> QED
      BY <3>1, <3>2, <3>3
  <2>4. ASSUME link', ~Holds("opened")' PROVE pin' = 0
    <3>1. CASE events[1] = "opened"
      BY <1>2, <3>1, HandleSteps DEF Opened
    <3>2. CASE events[1] # "opened"
      <4>1. pin = 0
        BY <1>2, <2>1, <2>4, <3>2, HeldStill DEF PinFollows
      <4>2. events[1] \notin {"boot", "closed"}
        BY <2>1, <2>4, NothingBehind
      <4> QED
        BY <1>2, <3>2, <4>1, <4>2, HandleSteps DEF MtuExchanged, NotifyOn, NotifyOff,
           Value, stateVars
    <3> QED
      BY <3>1, <3>2
  <2> QED
    BY <1>2, <2>1, <2>3, <2>4, HandleSteps DEF PinFollows
<1>3. CASE SendBegins \/ Fill \/ Filled \/ Notify \/ NodeSends
  BY <1>3 DEF SendBegins, Fill, Filled, Notify, NodeSends, PinFollows, Holds, stackVars, stateVars
<1>4. CASE ResetSet
  BY <1>4 DEF ResetSet, PinFollows
<1>5. CASE ResetReleased
  BY <1>5 DEF ResetReleased, PinFollows, Order, stateVars
<1>6. CASE UNCHANGED sppVars
  BY <1>6 DEF PinFollows, Holds, sppVars, stackVars, stateVars
<1> QED
  BY <1>1, <1>2, <1>3, <1>4, <1>5, <1>6 DEF SppNext, Server, Node

LEMMA SizeNext ==
  ASSUME Types, Order, SizeFollows, [SppNext]_sppVars PROVE SizeFollows'
<1>1. CASE Phone
  <2>1. PICK ev \in SppEvents :
           /\ Stack(ev)
           /\ \/ ev = "opened" /\ adv /\ adv' = FALSE /\ takes' = DEFAULT_PACKET
              \/ ev = "mtu" /\ link /\ takes' = LARGE_PACKET /\ UNCHANGED <<link, adv>>
              \/ ev \notin {"opened", "mtu"} /\ UNCHANGED <<takes, adv>> /\ (link' => link)
    BY <1>1, PhoneSteps
  <2>2. /\ UNCHANGED max_packet_size
        /\ Holds("mtu")' <=> Holds("mtu") \/ ev = "mtu"
    BY <2>1, HeldJoins, StackSteps
  <2>3. adv => ~Holds("mtu")
    BY DEF Order, Holds, Types
  <2> QED
    BY <2>1, <2>2, <2>3 DEF SizeFollows, Types
<1>2. CASE HandleEvent
  <2>1. pc # "off" /\ events # <<>> /\ UNCHANGED <<link, takes>>
    BY <1>2, HandleSteps
  <2>2. ~adv
    BY <2>1 DEF Order
  <2>3. adv' => max_packet_size' = DEFAULT_PACKET
    BY <1>2, <2>2, HandleSteps DEF Opened, MtuExchanged, NotifyOn, NotifyOff,
       Value, Closed, Boot, reset_variables
  <2>4. link' => max_packet_size' <= takes'
    <3>1. CASE events[1] = "mtu"
      <4>1. Holds("mtu") /\ max_packet_size' = LARGE_PACKET
        BY <1>2, <2>1, <3>1, HandleSteps DEF MtuExchanged, Holds, Types
      <4> QED
        BY <2>1, <4>1 DEF SizeFollows, Types
    <3>2. CASE events[1] # "mtu"
      <4>1. max_packet_size' \in {max_packet_size, DEFAULT_PACKET}
        BY <1>2, <3>2, HandleSteps DEF Opened, NotifyOn, NotifyOff, Value, Closed,
           Boot, reset_variables, stateVars
      <4> QED
        BY <2>1, <4>1 DEF SizeFollows, Types
    <3> QED
      BY <3>1, <3>2
  <2> QED
    BY <1>2, <2>1, <2>3, <2>4, HeldBefore DEF SizeFollows
<1>3. CASE SendBegins \/ Fill \/ Filled \/ Notify \/ NodeSends
  BY <1>3 DEF SendBegins, Fill, Filled, Notify, NodeSends, SizeFollows, Holds, stackVars, stateVars
<1>4. CASE ResetSet
  BY <1>4 DEF ResetSet, SizeFollows
<1>5. CASE ResetReleased
  BY <1>5 DEF ResetReleased, SizeFollows, Order
<1>6. CASE UNCHANGED sppVars
  BY <1>6 DEF SizeFollows, Holds, sppVars, stackVars, stateVars
<1> QED
  BY <1>1, <1>2, <1>3, <1>4, <1>5, <1>6 DEF SppNext, Server, Node

\* A new request is the last, anything else leaves them as they were.
LEMMA RequestsJoin ==
  ASSUME Types, NEW ev \in SppEvents, Stack(ev)
  PROVE  /\ IsRequest(ev) /\ Want' = ev => RequestWaits'
         /\ ~IsRequest(ev) /\ Want' = Want /\ RequestWaits => RequestWaits'
<1>1. /\ Len(events') = Len(events) + 1 /\ Len(events) \in Nat
      /\ events'[Len(events) + 1] = ev
      /\ \A i \in 1 .. Len(events) : events'[i] = events[i]
  BY StackSteps, EventAppended DEF Types
<1>2. ASSUME IsRequest(ev), Want' = ev PROVE RequestWaits'
  <2>1. Len(events') \in 1 .. Len(events') /\ events'[Len(events')] = Want'
    BY <1>1, <1>2
  <2>2. Len(events') + 1 .. Len(events') = {}
    BY <1>1
  <2> QED
    BY <2>1, <2>2 DEF RequestWaits
<1>3. ASSUME ~IsRequest(ev), Want' = Want, RequestWaits PROVE RequestWaits'
  <2>1. PICK i \in 1 .. Len(events) :
          events[i] = Want /\ \A j \in i + 1 .. Len(events) : ~IsRequest(events[j])
    BY <1>3 DEF RequestWaits
  <2>2. i \in 1 .. Len(events') /\ events'[i] = Want'
    BY <1>1, <1>3, <2>1
  <2>3. ASSUME NEW j \in i + 1 .. Len(events') PROVE ~IsRequest(events'[j])
    <3>1. CASE j = Len(events')
      BY <1>1, <1>3, <3>1
    <3>2. CASE j # Len(events')
      <4>1. j \in i + 1 .. Len(events) /\ events'[j] = events[j]
        BY <1>1, <2>1, <3>2
      <4> QED
        BY <2>1, <4>1
    <3> QED
      BY <3>1, <3>2
  <2> QED
    BY <2>2, <2>3 DEF RequestWaits
<1> QED
  BY <1>2, <1>3

LEMMA RequestsPhone ==
  ASSUME Types, Order, RequestsFollow, Phone PROVE RequestsFollow'
<1>1. PICK ev \in SppEvents :
         /\ Stack(ev)
         /\ \/ ev = "opened" /\ adv /\ adv' = FALSE /\ ccc' = FALSE /\ link' = TRUE
            \/ /\ ev \in {"notify_on", "notify_off"} /\ link
               /\ ccc' = (ev = "notify_on") /\ UNCHANGED <<link, adv>>
            \/ ev \in {"mtu", "value"} /\ link /\ UNCHANGED <<link, ccc, adv>>
            \/ ev = "closed" /\ link' = FALSE /\ ccc' = FALSE /\ link /\ UNCHANGED adv
  BY PhoneSteps
<1>2. /\ UNCHANGED main_state /\ pc # "off"
      /\ Holds("opened")' <=> Holds("opened") \/ ev = "opened"
      /\ Len(events') = Len(events) + 1 /\ Len(events) \in Nat
      /\ events'[Len(events) + 1] = ev
      /\ \A i \in 1 .. Len(events) : events'[i] = events[i]
  BY <1>1, HeldJoins, StackSteps, EventAppended DEF Types
<1>3. /\ ccc' => link'
      /\ adv' => main_state' = "STATE_ADVERTISING"
  BY <1>1, <1>2 DEF RequestsFollow
<1>4. CASE ev = "opened"
  <2>1. Len(events) = 0
    BY <1>1, <1>4 DEF Order
  <2>2. RequestsHandled'
    BY <1>1, <1>2, <1>4, <2>1 DEF RequestsHandled, IsRequest
  <2> QED
    BY <1>3, <2>2 DEF RequestsFollow
<1>5. CASE ev \in {"notify_on", "notify_off"}
  <2>1. IsRequest(ev) /\ Want' = ev
    BY <1>1, <1>5 DEF IsRequest, Want
  <2> QED
    BY <1>1, <1>3, <2>1, RequestsJoin DEF RequestsFollow
<1>6. CASE ev \in {"mtu", "value"}
  <2>1. ~IsRequest(ev) /\ Want' = Want
    BY <1>1, <1>6 DEF IsRequest, Want
  <2>2. RequestsHandled => RequestsHandled'
    <3> SUFFICES ASSUME RequestsHandled PROVE RequestsHandled'
      OBVIOUS
    <3>1. \A i \in 1 .. Len(events') : ~IsRequest(events'[i])
      <4> SUFFICES ASSUME NEW i \in 1 .. Len(events') PROVE ~IsRequest(events'[i])
        OBVIOUS
      <4>1. CASE i = Len(events')
        BY <1>2, <2>1, <4>1
      <4>2. CASE i # Len(events')
        BY <1>2, <4>2 DEF RequestsHandled
      <4> QED
        BY <4>1, <4>2
    <3> QED
      BY <1>1, <1>2, <1>6, <3>1 DEF RequestsHandled
  <2> QED
    BY <1>1, <1>3, <1>6, <2>1, <2>2, RequestsJoin DEF RequestsFollow
<1>7. CASE ev = "closed"
  BY <1>1, <1>3, <1>7 DEF RequestsFollow
<1> QED
  BY <1>1, <1>4, <1>5, <1>6, <1>7

LEMMA RequestsEvent ==
  ASSUME Types, Order, RequestsFollow, HandleEvent PROVE RequestsFollow'
<1>1. /\ pc = "loop" /\ events # <<>> /\ UNCHANGED <<link, ccc>>
      /\ Len(events') = Len(events) - 1 /\ Len(events) \in Nat \ {0}
      /\ \A i \in 1 .. Len(events) - 1 : events'[i] = events[i + 1]
  BY HandleSteps, EventTaken DEF Types
<1>2. ~adv
  BY <1>1 DEF Order
<1>3. adv' => main_state' = "STATE_ADVERTISING"
  BY <1>2, HandleSteps DEF Opened, MtuExchanged, NotifyOn, NotifyOff, Value,
     Closed, Boot, reset_variables
<1>4. ASSUME link PROVE RequestWaits' \/ RequestsHandled'
  <2>1. events[1] \notin {"boot", "closed"}
    BY <1>1, <1>4, NothingBehind
  <2>2. ~Holds("opened")'
    BY <1>1 DEF Holds, Order
  <2>3. CASE RequestWaits
    <3>1. PICK i \in 1 .. Len(events) :
            events[i] = Want /\ \A j \in i + 1 .. Len(events) : ~IsRequest(events[j])
      BY <2>3 DEF RequestWaits
    <3>2. CASE i = 1
      <4>1. main_state' = "STATE_SPP_MODE" <=> ccc'
        BY <1>1, <3>1, <3>2, HandleSteps DEF Want, NotifyOn, NotifyOff
      <4>2. \A k \in 1 .. Len(events') : ~IsRequest(events'[k])
        BY <1>1, <3>1, <3>2
      <4> QED
        BY <2>2, <4>1, <4>2 DEF RequestsHandled
    <3>3. CASE i # 1
      <4>1. i - 1 \in 1 .. Len(events') /\ events'[i - 1] = Want'
        BY <1>1, <3>1, <3>3 DEF Want
      <4>2. \A k \in (i - 1) + 1 .. Len(events') : ~IsRequest(events'[k])
        BY <1>1, <3>1, <3>3
      <4> QED
        BY <4>1, <4>2 DEF RequestWaits
    <3> QED
      BY <3>2, <3>3
  <2>4. CASE RequestsHandled
    <3>1. \A k \in 1 .. Len(events') : ~IsRequest(events'[k])
      BY <1>1, <2>4 DEF RequestsHandled
    <3>2. events[1] \notin {"notify_on", "notify_off"}
      BY <1>1, <2>4 DEF RequestsHandled, IsRequest
    <3>3. ccc' <=> main_state' = "STATE_SPP_MODE"
      <4>1. CASE events[1] = "opened"
        <5>1. Holds("opened")
          BY <1>1, <4>1 DEF Holds
        <5> QED
          BY <1>1, <2>4, <4>1, <5>1, HandleSteps DEF RequestsHandled, Opened
      <4>2. CASE events[1] # "opened"
        <5>1. ~Holds("opened")
          BY <1>1, <4>2 DEF Holds, Order
        <5>2. main_state' = main_state
          BY <2>1, <3>2, <4>2, HandleSteps DEF MtuExchanged, Value, stateVars
        <5> QED
          BY <1>1, <2>4, <5>1, <5>2 DEF RequestsHandled
      <4> QED
        BY <4>1, <4>2
    <3> QED
      BY <2>2, <3>1, <3>3 DEF RequestsHandled
  <2> QED
    BY <1>4, <2>3, <2>4 DEF RequestsFollow
<1> QED
  BY <1>1, <1>3, <1>4 DEF RequestsFollow

LEMMA RequestsNext ==
  ASSUME Types, Order, RequestsFollow, [SppNext]_sppVars PROVE RequestsFollow'
<1>1. ASSUME UNCHANGED <<stackVars, main_state>> PROVE RequestsFollow'
  BY <1>1 DEF RequestsFollow, RequestWaits, RequestsHandled, Want, Holds, stackVars
<1>2. CASE SendBegins \/ Fill \/ Filled \/ Notify \/ NodeSends \/ UNCHANGED sppVars
  BY <1>1, <1>2 DEF SendBegins, Fill, Filled, Notify, NodeSends, stateVars, sppVars
<1>3. CASE ResetSet
  BY <1>3 DEF ResetSet, RequestsFollow
<1>4. CASE ResetReleased
  BY <1>4 DEF ResetReleased, RequestsFollow, Order
<1> QED
  BY <1>2, <1>3, <1>4, RequestsPhone, RequestsEvent DEF SppNext, Server, Node

LEMMA CollectingNext ==
  ASSUME Types, Bytes, Collecting, [SppNext]_sppVars PROVE Collecting'
<1>1. CASE Phone
  BY <1>1, PhoneSteps, StackSteps DEF Collecting
<1>2. CASE HandleEvent
  BY <1>2, HandleSteps DEF Collecting
<1>3. CASE SendBegins
  BY <1>3 DEF SendBegins, Collecting, Types, stateVars
<1>4. CASE Fill
  <2>1. Len(data') = Len(data) + 1 /\ Len(data) \in Nat
    BY <1>4 DEF Fill, Bytes, ByteTypes
  <2> QED
    BY <1>4, <2>1 DEF Fill, Collecting, Types, stateVars
<1>5. CASE Filled
  BY <1>5 DEF Filled, Collecting, stateVars, byteVars
<1>6. CASE Notify
  BY <1>6 DEF Notify, Collecting
<1>7. CASE NodeSends \/ UNCHANGED sppVars
  BY <1>7 DEF NodeSends, Collecting, stateVars, byteVars, sppVars
<1>8. CASE ResetSet
  BY <1>8 DEF ResetSet, Collecting
<1>9. CASE ResetReleased
  BY <1>9 DEF ResetReleased, Collecting, stateVars, byteVars
<1> QED
  BY <1>1, <1>2, <1>3, <1>4, <1>5, <1>6, <1>7, <1>8, <1>9 DEF SppNext, Server, Node

\* The bytes are numbers.
LEMMA BytesAreNumbers ==
  ASSUME ByteTypes
  PROVE  /\ sent \in Nat /\ got \in Nat /\ Len(data) \in Nat /\ Len(rx) \in Nat
         /\ \A i \in 1 .. Len(data) : data[i] \in Nat
         /\ \A i \in 1 .. Len(rx) : rx[i] \in Nat
BY DEF ByteTypes

LEMMA BytesSent == ASSUME Types, Bytes, NodeSends PROVE Bytes'
<1>1. sent' = sent + 1 /\ sent' \in 1 .. MaxBytes /\ UNCHANGED <<data, got>>
  BY DEF NodeSends, Bytes, ByteTypes
<1>2. Within(data)' /\ Ascending(data)'
  BY <1>1, BytesAreNumbers DEF Bytes, Within, Ascending
<1>3. CASE rx' = rx
  BY <1>1, <1>2, <1>3, BytesAreNumbers DEF Bytes, ByteTypes, Within, Ascending, Packeted
<1>4. CASE rx' = Append(rx, sent') /\ Len(rx) < RXBUFSIZE
  <2>1. /\ rx' \in Seq(1 .. MaxBytes) /\ Len(rx') = Len(rx) + 1 /\ Len(rx) \in Nat
        /\ rx'[Len(rx) + 1] = sent'
        /\ \A i \in 1 .. Len(rx) : rx'[i] = rx[i]
    BY <1>1, <1>4 DEF Bytes, ByteTypes
  <2>2. ASSUME NEW i \in 1 .. Len(rx'), i # Len(rx) + 1
        PROVE  i \in 1 .. Len(rx) /\ rx'[i] = rx[i]
    BY <2>1, <2>2
  <2>3. ASSUME NEW i \in 1 .. Len(rx) PROVE rx[i] \in Nat /\ got < rx[i] /\ rx[i] < sent'
    BY <1>1, <2>3, BytesAreNumbers DEF Bytes, Within
  <2>4. Within(rx)'
    <3> SUFFICES ASSUME NEW i \in 1 .. Len(rx') PROVE got < rx'[i] /\ rx'[i] <= sent'
      BY <1>1 DEF Within
    <3>1. sent' \in Nat /\ got \in Nat /\ got < sent'
      BY <1>1 DEF Bytes, ByteTypes
    <3>2. CASE i = Len(rx) + 1
      BY <2>1, <3>1, <3>2
    <3>3. CASE i # Len(rx) + 1
      BY <2>2, <2>3, <3>1, <3>3
    <3> QED
      BY <3>2, <3>3
  <2>5. Ascending(rx)'
    <3> SUFFICES ASSUME NEW i \in 1 .. Len(rx'), NEW j \in 1 .. Len(rx'), i < j
                 PROVE  rx'[i] < rx'[j]
      BY DEF Ascending
    <3>1. i # Len(rx) + 1
      BY <2>1
    <3>2. CASE j = Len(rx) + 1
      BY <2>1, <2>2, <2>3, <3>1, <3>2
    <3>3. CASE j # Len(rx) + 1
      BY <2>2, <3>1, <3>3 DEF Bytes, Ascending
    <3> QED
      BY <3>2, <3>3
  <2>6. Packeted'
    <3> SUFFICES ASSUME NEW i \in 1 .. Len(data), NEW j \in 1 .. Len(rx')
                 PROVE  data[i] < rx'[j]
      BY <1>1 DEF Packeted
    <3>1. data[i] \in Nat /\ data[i] < sent'
      BY <1>1, BytesAreNumbers DEF Bytes, Within
    <3> QED
      BY <2>1, <2>2, <3>1 DEF Bytes, Packeted
  <2>7. ByteTypes'
    BY <1>1, <1>4, <2>1 DEF Bytes, ByteTypes
  <2> QED
    BY <1>2, <2>4, <2>5, <2>6, <2>7 DEF Bytes
<1> QED
  BY <1>3, <1>4 DEF NodeSends

LEMMA BytesFilled == ASSUME Types, Bytes, Fill PROVE Bytes'
<1>1. /\ rx # <<>> /\ data' = Append(data, rx[1]) /\ rx' = Tail(rx)
      /\ UNCHANGED <<sent, got>>
  BY DEF Fill, Bytes, ByteTypes
<1>2. /\ rx' \in Seq(1 .. MaxBytes) /\ Len(rx') = Len(rx) - 1 /\ Len(rx) \in Nat \ {0}
      /\ \A i \in 1 .. Len(rx') : i + 1 \in 1 .. Len(rx) /\ rx'[i] = rx[i + 1]
  BY <1>1 DEF Bytes, ByteTypes
<1>3. rx[1] \in 1 .. MaxBytes /\ 1 \in 1 .. Len(rx)
  BY <1>2 DEF Bytes, ByteTypes
<1>4. /\ data' \in Seq(1 .. MaxBytes) /\ Len(data') = Len(data) + 1 /\ Len(data) \in Nat
      /\ data'[Len(data) + 1] = rx[1]
      /\ \A i \in 1 .. Len(data) : data'[i] = data[i]
  BY <1>1, <1>3 DEF Bytes, ByteTypes
<1>5. ASSUME NEW i \in 1 .. Len(data'), i # Len(data) + 1
      PROVE  i \in 1 .. Len(data) /\ data'[i] = data[i]
  BY <1>4, <1>5
<1>6. Within(data)'
  BY <1>1, <1>3, <1>4, <1>5 DEF Bytes, Within
<1>7. Within(rx)'
  BY <1>1, <1>2 DEF Bytes, Within
<1>8. Ascending(data)'
  <2> SUFFICES ASSUME NEW i \in 1 .. Len(data'), NEW j \in 1 .. Len(data'), i < j
               PROVE  data'[i] < data'[j]
    BY DEF Ascending
  <2>1. i \in 1 .. Len(data) /\ data'[i] = data[i]
    BY <1>4
  <2>2. CASE j = Len(data) + 1
    BY <1>3, <1>4, <2>1, <2>2 DEF Bytes, Packeted
  <2>3. CASE j # Len(data) + 1
    BY <1>5, <2>1, <2>3 DEF Bytes, Ascending
  <2> QED
    BY <2>2, <2>3
<1>9. Ascending(rx)'
  <2> SUFFICES ASSUME NEW i \in 1 .. Len(rx'), NEW j \in 1 .. Len(rx'), i < j
               PROVE  rx'[i] < rx'[j]
    BY DEF Ascending
  <2>1. i + 1 \in 1 .. Len(rx) /\ j + 1 \in 1 .. Len(rx) /\ i + 1 < j + 1
    BY <1>2
  <2>2. rx'[i] = rx[i + 1] /\ rx'[j] = rx[j + 1]
    BY <1>2
  <2> QED
    BY <2>1, <2>2 DEF Bytes, Ascending
<1>10. Packeted'
  <2> SUFFICES ASSUME NEW i \in 1 .. Len(data'), NEW j \in 1 .. Len(rx')
               PROVE  data'[i] < rx'[j]
    BY DEF Packeted
  <2>1. j + 1 \in 1 .. Len(rx) /\ rx'[j] = rx[j + 1]
    BY <1>2
  <2>2. CASE i = Len(data) + 1
    BY <1>3, <1>4, <2>1, <2>2 DEF Bytes, Ascending
  <2>3. CASE i # Len(data) + 1
    BY <1>5, <2>1, <2>3 DEF Bytes, Packeted
  <2> QED
    BY <2>2, <2>3
<1>11. ByteTypes'
  BY <1>1, <1>2, <1>4 DEF Bytes, ByteTypes
<1> QED
  BY <1>6, <1>7, <1>8, <1>9, <1>10, <1>11 DEF Bytes

LEMMA BytesNext ==
  ASSUME Types, Collecting, Bytes, [SppNext]_sppVars PROVE Bytes'
<1>1. ASSUME UNCHANGED <<rx, data, sent, got>> PROVE Bytes'
  BY <1>1 DEF Bytes, ByteTypes, Within, Ascending, Packeted
<1>2. CASE Phone
  BY <1>1, <1>2, PhoneSteps, StackSteps
<1>3. CASE HandleEvent
  BY <1>1, <1>3, HandleSteps
<1>4. CASE SendBegins \/ Filled \/ ResetReleased \/ UNCHANGED sppVars
  BY <1>1, <1>4 DEF SendBegins, Filled, ResetReleased, byteVars, sppVars
<1>5. CASE Notify
  <2>1. Len(data) \in 1 .. Len(data)
    BY <1>5 DEF Notify, Collecting, Bytes, ByteTypes
  <2>2. UNCHANGED <<rx, sent>> /\ data' = <<>> /\ got' \in {got, data[Len(data)]}
    BY <1>5 DEF Notify
  <2>3. got' \in 0 .. sent /\ \A i \in 1 .. Len(rx) : got' < rx[i]
    BY <2>1, <2>2, BytesAreNumbers DEF Bytes, ByteTypes, Within, Packeted
  <2> QED
    BY <2>2, <2>3 DEF Bytes, ByteTypes, Within, Ascending, Packeted
<1>6. CASE ResetSet
  BY <1>6 DEF ResetSet, Bytes, ByteTypes, Within, Ascending, Packeted
<1> QED
  BY <1>2, <1>3, <1>4, <1>5, <1>6, BytesSent, BytesFilled DEF SppNext, Server, Node

-----------------------------------------------------------------------------
LEMMA InvInit == SppInit => Inv
<1> SUFFICES ASSUME SppInit PROVE Inv
  OBVIOUS
<1>1. Types
  <2>1. link \in BOOLEAN /\ ccc \in BOOLEAN /\ adv \in BOOLEAN /\ uart \in BOOLEAN
    BY DEF SppInit
  <2> QED
    BY <2>1 DEF SppInit, Types, STATES
<1>2. Order /\ PinFollows /\ RequestsFollow /\ SizeFollows
  BY DEF SppInit, Order, PinFollows, RequestsFollow, SizeFollows, Holds
<1>3. Collecting /\ AwakeWhileForwarding /\ RoomToBlock
  BY DEF SppInit, Collecting, AwakeWhileForwarding, RoomToBlock
<1>4. Bytes
  BY DEF SppInit, Bytes, ByteTypes, Within, Ascending, Packeted
<1> QED
  BY <1>1, <1>2, <1>3, <1>4 DEF Inv

LEMMA InvNext == ASSUME Inv, [SppNext]_sppVars PROVE Inv'
BY TypesNext, RoomNext, OrderNext, PinNext, RequestsNext, SizeNext, CollectingNext,
   BytesNext, AwakeNext DEF Inv

LEMMA Invariance == SppSpec => []Inv
BY InvInit, InvNext, PTL DEF SppSpec

(* No variable leaves its type, and the ring not its storage.              *)
THEOREM SppTypeCorrect == SppSpec => []SppTypeOK
<1>1. Inv => SppTypeOK
  BY DEF Inv, Types, Bytes, ByteTypes, SppTypeOK
<1> QED
  BY <1>1, Invariance, PTL

(* Whatever order phones connect, ask and go in, and whenever the node     *)
(* resets the module: with all events handled, pin, advertising and        *)
(* forwarding are what the phone and its link are.                         *)
THEOREM LoopCatchesUp == SppSpec => []CaughtUp
<1>1. Inv => CaughtUp
  <2> SUFFICES ASSUME Inv, pc # "off", events = <<>> PROVE
        /\ pin = 0 <=> link
        /\ adv <=> ~link
        /\ main_state = "STATE_SPP_MODE" <=> ccc
        /\ pc = "loop" \/ main_state = "STATE_SPP_MODE"
    BY DEF CaughtUp
  <2>1. (adv <=> ~link) /\ \A ev : ~Holds(ev)
    BY DEF Inv, Types, Order, Holds
  <2>2. pin = 0 <=> link
    BY <2>1 DEF Inv, PinFollows
  <2>3. ~RequestWaits
    BY DEF RequestWaits
  <2>4. main_state = "STATE_SPP_MODE" <=> ccc
    BY <2>1, <2>3 DEF Inv, RequestsFollow, RequestsHandled
  <2>5. pc = "loop" \/ main_state = "STATE_SPP_MODE"
    BY DEF Inv, Types, Collecting
  <2> QED
    BY <2>1, <2>2, <2>4, <2>5
<1> QED
  BY <1>1, Invariance, PTL

(* Sleep is blocked while bytes are forwarded, in spite of blocks that are *)
(* ended without a beginning and begun without an end.                     *)
THEOREM AwakeToForward == SppSpec => []AwakeWhileForwarding
BY Invariance, PTL DEF Inv

(* No packet is longer than the phone it goes to takes, whatever the one   *)
(* before agreed to, for packets of every size.                            *)
THEOREM PacketsFit == SppSpec => []PacketFits
<1>1. Inv => PacketFits
  BY DEF Inv, Types, Collecting, SizeFollows, Bytes, ByteTypes, PacketFits
<1> QED
  BY <1>1, Invariance, PTL

(* Bytes reach the phones in the order of the node and none twice.         *)
THEOREM BytesInOrder == SppSpec => []InOrder
<1>1. Inv => InOrder
  <2> SUFFICES ASSUME Inv PROVE InOrder
    OBVIOUS
  <2> DEFINE s == <<got>> \o data \o rx
  <2>1. /\ data \in Seq(Nat) /\ rx \in Seq(Nat) /\ got \in Nat
        /\ Len(data) \in Nat /\ Len(rx) \in Nat
    BY DEF Inv, Bytes, ByteTypes
  <2>2. /\ Len(s) = 1 + Len(data) + Len(rx) /\ s[1] = got
        /\ \A i \in 1 .. Len(data) : s[i + 1] = data[i]
        /\ \A i \in 1 .. Len(rx) : s[i + 1 + Len(data)] = rx[i]
    BY <2>1
  <2>3. Within(data) /\ Within(rx) /\ Ascending(data) /\ Ascending(rx) /\ Packeted
    BY DEF Inv, Bytes
  <2> HIDE DEF s
  <2>4. ASSUME NEW i \in 1 .. Len(s) - 1 PROVE s[i] < s[i + 1]
    <3>1. CASE i <= Len(data)
      <4>1. i \in 1 .. Len(data) /\ s[i + 1] = data[i]
        BY <2>1, <2>2, <3>1
      <4>2. CASE i = 1
        BY <2>2, <2>3, <4>1, <4>2 DEF Within
      <4>3. CASE i # 1
        <5>1. i - 1 \in 1 .. Len(data) /\ i - 1 < i /\ (i - 1) + 1 = i
          BY <2>1, <4>1, <4>3
        <5>2. s[(i - 1) + 1] = data[i - 1]
          BY <2>2, <5>1
        <5>3. s[i] = data[i - 1]
          BY <5>1, <5>2
        <5> QED
          BY <2>3, <4>1, <5>1, <5>3 DEF Ascending
      <4> QED
        BY <4>2, <4>3
    <3>2. CASE i > Len(data)
      <4>1. PICK j \in 1 .. Len(rx) : i = j + Len(data)
        <5>1. i - Len(data) \in 1 .. Len(rx)
          BY <2>1, <2>2, <3>2
        <5>2. i = (i - Len(data)) + Len(data)
          BY <2>1, <2>2
        <5> QED
          BY <5>1, <5>2
      <4>2. s[i + 1] = rx[j]
        <5>1. s[j + 1 + Len(data)] = rx[j] /\ j + 1 + Len(data) = i + 1
          BY <2>1, <2>2, <4>1
        <5> QED
          BY <5>1
      <4>3. CASE j = 1 /\ Len(data) = 0
        BY <2>2, <2>3, <4>1, <4>2, <4>3 DEF Within
      <4>4. CASE j = 1 /\ Len(data) # 0
        <5>1. Len(data) \in 1 .. Len(data) /\ i = Len(data) + 1
          BY <2>1, <4>1, <4>4
        <5>2. s[i] = data[Len(data)]
          BY <2>2, <5>1
        <5> QED
          BY <2>3, <4>2, <4>4, <5>1, <5>2 DEF Packeted
      <4>5. CASE j # 1
        <5>1. j - 1 \in 1 .. Len(rx) /\ (j - 1) + 1 + Len(data) = i /\ j - 1 < j
          BY <2>1, <4>1, <4>5
        <5>2. s[i] = rx[j - 1]
          <6>1. s[(j - 1) + 1 + Len(data)] = rx[j - 1]
            BY <2>2, <5>1
          <6> QED
            BY <5>1, <6>1
        <5> QED
          BY <2>3, <4>2, <5>1, <5>2 DEF Ascending
      <4> QED
        BY <4>3, <4>4, <4>5
    <3> QED
      BY <2>1, <2>2, <3>1, <3>2
  <2> QED
    BY <2>4 DEF InOrder, s
<1> QED
  BY <1>1, Invariance, PTL
=============================================================================
