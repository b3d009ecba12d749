------------------------------ MODULE SppServer ------------------------------
(***************************************************************************)
(* The program of the BLE module: the serial port over BLE of the BGM113   *)
(* (spp_server_main.c), between the UART to the node and one phone.        *)
(*                                                                         *)
(* The stack puts what happens to the link into a queue of events, and the *)
(* main loop takes them one at a time; while notifications are enabled and *)
(* no event waits it forwards the bytes the UART interrupt left in the     *)
(* ring of retargetserial.c, in packets of at most max_packet_size.  The   *)
(* link may therefore be gone while the loop still takes it for open.      *)
(* The node holds the module in reset at will (bgm113.c).                  *)
(*                                                                         *)
(* Bytes are numbered in the order the node sends them.  min_packet_size   *)
(* and the polls of UART_POLL_TIMEOUT decide only how long the loop waits  *)
(* for more bytes, and any wait is allowed.                                *)
(***************************************************************************)
EXTENDS Naturals, Sequences

CONSTANTS
  RXBUFSIZE,       (* Bytes the ring holds: 255.                           *)
  DEFAULT_PACKET,  (* Bytes of a notification before the MTU exchange: 20. *)
  LARGE_PACKET,    (* After it, ATT_MTU - 3: up to 244.                    *)
  MaxBytes,        (* Bound: bytes the node sends.                         *)
  MaxEvents,       (* Bound: events that wait at a time.                   *)
  MaxBlocks        (* Bound: sleepBlockCnt, with the events that wait.     *)

ASSUME SppAssumption ==
  /\ RXBUFSIZE \in Nat \ {0}
  /\ DEFAULT_PACKET \in Nat \ {0}
  /\ LARGE_PACKET \in Nat /\ DEFAULT_PACKET <= LARGE_PACKET
  /\ MaxBytes \in Nat /\ MaxEvents \in Nat /\ MaxBlocks \in 0 .. 255

STATES == {"boot", "STATE_ADVERTISING", "STATE_CONNECTED", "STATE_SPP_MODE"}
SppEvents == {"boot", "opened", "mtu", "notify_on", "notify_off", "value", "closed"}

VARIABLES
  link,     (* What the stack knows: a phone is connected, ...             *)
  takes,    (* ... how many bytes a notification to it may have, ...       *)
  ccc,      (* ... whether it enabled notifications, ...                   *)
  adv,      (* ... whether the module advertises, ...                      *)
  events,   (* ... and the events that wait.                               *)
  main_state, max_packet_size,
  pin,      (* BSP_BLE_CONNECTION_PIN: 0 tells the node of a link.         *)
  blocks,   (* sleepBlockCnt of sleepEM2 (sleep.c).                        *)
  pc,       (* "off" in reset, "loop", or in send_spp_data: "fill", "send".*)
  uart,     (* initialized: set by the first RETARGET_ReadChar.            *)
  rx,       (* The ring.                                                   *)
  data,     (* send_spp_data's local data.                                 *)
  sent,     (* The last byte the node sent ...                             *)
  got       (* ... and the last a phone received.                          *)

stackVars == <<link, takes, ccc, adv, events>>
stateVars == <<main_state, max_packet_size, pin, blocks>>
byteVars == <<uart, rx, data, sent, got>>
sppVars == <<stackVars, stateVars, pc, byteVars>>

(* What the last phone agreed to is kept.                                  *)
reset_variables_keepMax ==
  main_state' = "STATE_ADVERTISING" /\ UNCHANGED max_packet_size

(* reset_variables *)
reset_variables ==
  main_state' = "STATE_ADVERTISING" /\ max_packet_size' = DEFAULT_PACKET

(* Everything but the phone's and the node's own counts is the module's    *)
(* RAM; without power the pin is the node's pull-up.                       *)
SppInit ==
  /\ link = FALSE /\ takes = DEFAULT_PACKET /\ ccc = FALSE /\ adv = FALSE
  /\ events = <<>>
  /\ main_state = "boot" /\ max_packet_size = DEFAULT_PACKET
  /\ pin = 1 /\ blocks = 0
  /\ pc = "off" /\ uart = FALSE /\ rx = <<>> /\ data = <<>>
  /\ sent = 0 /\ got = 0

-----------------------------------------------------------------------------
(* The phone and the stack.                                                *)

Stack(e) ==
  /\ pc # "off"
  /\ Len(events) < MaxEvents
  /\ events' = Append(events, e)
  /\ UNCHANGED <<stateVars, pc, byteVars>>

PhoneConnects ==
  /\ adv /\ ~link
  /\ link' = TRUE /\ adv' = FALSE
  /\ takes' = DEFAULT_PACKET /\ ccc' = FALSE
  /\ Stack("opened")

PhoneExchangesMtu ==
  /\ link /\ takes # LARGE_PACKET
  /\ takes' = LARGE_PACKET
  /\ Stack("mtu")
  /\ UNCHANGED <<link, ccc, adv>>

(* A phone may well write the value the descriptor has already.            *)
PhoneSubscribes(on) ==
  /\ link
  /\ on => blocks + Len(events) < MaxBlocks
  /\ ccc' = on
  /\ Stack(IF on THEN "notify_on" ELSE "notify_off")
  /\ UNCHANGED <<link, takes, adv>>

PhoneWrites ==
  /\ link
  /\ Stack("value")
  /\ UNCHANGED <<link, takes, ccc, adv>>

LinkLost ==
  /\ link
  /\ link' = FALSE /\ ccc' = FALSE
  /\ Stack("closed")
  /\ UNCHANGED <<takes, adv>>

-----------------------------------------------------------------------------
(* spp_server_main: one event.                                             *)

Boot ==
  /\ reset_variables
  /\ adv' = TRUE
  /\ UNCHANGED <<pin, blocks>>

Opened ==
  /\ main_state' = "STATE_CONNECTED"
  /\ pin' = 0
  /\ UNCHANGED <<adv, max_packet_size, blocks>>

MtuExchanged ==
  /\ max_packet_size' = LARGE_PACKET
  /\ UNCHANGED <<adv, main_state, pin, blocks>>

(* SLEEP_SleepBlockBegin, on a uint8_t, and SLEEP_SleepBlockEnd, with a floor. *)
SleepBlockBegin == blocks' = IF blocks = 255 THEN 0 ELSE blocks + 1
SleepBlockEnd == blocks' = IF blocks > 0 THEN blocks - 1 ELSE 0

(* The module is not found again.                                          *)
Closed_noAdv == reset_variables /\ pin' = 1 /\ SleepBlockEnd /\ UNCHANGED adv

(* The node is not told.                                                   *)
Closed_noPin == reset_variables /\ adv' = TRUE /\ SleepBlockEnd /\ UNCHANGED pin

Closed ==
  /\ reset_variables
  /\ pin' = 1
  /\ SleepBlockEnd
  /\ adv' = TRUE

NotifyOn ==
  /\ main_state' = "STATE_SPP_MODE"
  /\ SleepBlockBegin
  /\ UNCHANGED <<adv, max_packet_size, pin>>

NotifyOff ==
  /\ main_state' = "STATE_CONNECTED"
  /\ SleepBlockEnd
  /\ UNCHANGED <<adv, max_packet_size, pin>>

(* A value is passed on to the node (see CmdParser for its side).          *)
Value == UNCHANGED <<adv, stateVars>>

HandleEvent ==
  /\ pc = "loop"
  /\ events # <<>>
  /\ events' = Tail(events)
  /\ CASE Head(events) = "boot"       -> Boot
       [] Head(events) = "opened"     -> Opened
       [] Head(events) = "mtu"        -> MtuExchanged
       [] Head(events) = "notify_on"  -> NotifyOn
       [] Head(events) = "notify_off" -> NotifyOff
       [] Head(events) = "value"      -> Value
       [] Head(events) = "closed"     -> Closed
  /\ UNCHANGED <<link, takes, ccc, pc, byteVars>>

-----------------------------------------------------------------------------
(* send_spp_data                                                           *)

(* The loop waits for a packet's worth of bytes.                           *)
SendBegins_full ==
  /\ pc = "loop" /\ main_state = "STATE_SPP_MODE" /\ events = <<>>
  /\ uart' = TRUE
  /\ pc' = IF Len(rx) < max_packet_size THEN "loop" ELSE "fill"
  /\ UNCHANGED <<stackVars, stateVars, rx, data, sent, got>>

(* gecko_peek_event has nothing; the first RETARGET_ReadChar since power   *)
(* up turns the UART on.                                                   *)
SendBegins ==
  /\ pc = "loop"
  /\ main_state = "STATE_SPP_MODE"
  /\ events = <<>>
  /\ uart' = TRUE
  /\ pc' = IF rx = <<>> THEN "loop" ELSE "fill"
  /\ UNCHANGED <<stackVars, stateVars, rx, data, sent, got>>

Fill ==
  /\ pc = "fill"
  /\ Len(data) < max_packet_size
  /\ rx # <<>>
  /\ data' = Append(data, Head(rx))
  /\ rx' = Tail(rx)
  /\ UNCHANGED <<stackVars, stateVars, pc, uart, sent, got>>

(* The packet is full, or no byte came in time.                            *)
Filled ==
  /\ pc = "fill"
  /\ data # <<>>
  /\ Len(data) = max_packet_size \/ rx = <<>>
  /\ pc' = "send"
  /\ UNCHANGED <<stackVars, stateVars, byteVars>>

(* The bytes stay in the buffer when they are sent.                        *)
Notify_keepData ==
  /\ pc = "send" /\ pc' = "loop"
  /\ got' = IF link /\ ccc /\ Len(data) <= takes THEN data[Len(data)] ELSE got
  /\ UNCHANGED <<stackVars, stateVars, uart, rx, data, sent>>

(* send_characteristic_notification: tried again while the stack is out of *)
(* memory (a stutter here), given up on any other error.                   *)
Notify ==
  /\ pc = "send"
  /\ pc' = "loop"
  /\ data' = <<>>
  /\ got' = IF link /\ ccc /\ Len(data) <= takes THEN data[Len(data)] ELSE got
  /\ UNCHANGED <<stackVars, stateVars, uart, rx, sent>>

-----------------------------------------------------------------------------
(* The node's side: its bytes, taken by the UART interrupt (RETARGET_IRQ), *)
(* and the reset line.                                                     *)

(* The ring is not checked for room.                                       *)
NodeSends_unchecked ==
  /\ sent < MaxBytes
  /\ sent' = sent + 1
  /\ rx' = IF uart THEN Append(rx, sent') ELSE rx
  /\ UNCHANGED <<stackVars, stateVars, pc, uart, data, got>>

NodeSends ==
  /\ sent < MaxBytes
  /\ sent' = sent + 1
  /\ rx' = IF uart /\ Len(rx) < RXBUFSIZE THEN Append(rx, sent') ELSE rx
  /\ UNCHANGED <<stackVars, stateVars, pc, uart, data, got>>

ResetSet ==
  /\ pc # "off"
  /\ pc' = "off"
  /\ link' = FALSE /\ takes' = DEFAULT_PACKET /\ ccc' = FALSE /\ adv' = FALSE
  /\ events' = <<>>
  /\ main_state' = "boot" /\ max_packet_size' = DEFAULT_PACKET
  /\ pin' = 1 /\ blocks' = 0
  /\ uart' = FALSE /\ rx' = <<>> /\ data' = <<>>
  /\ UNCHANGED <<sent, got>>

ResetReleased ==
  /\ pc = "off"
  /\ pc' = "loop"
  /\ events' = <<"boot">>
  /\ UNCHANGED <<link, takes, ccc, adv, stateVars, byteVars>>

-----------------------------------------------------------------------------
Phone ==
  \/ PhoneConnects \/ PhoneExchangesMtu \/ PhoneWrites \/ LinkLost
  \/ \E on \in BOOLEAN : PhoneSubscribes(on)

Server == HandleEvent \/ SendBegins \/ Fill \/ Filled \/ Notify

Node == NodeSends \/ ResetSet \/ ResetReleased

SppNext == Phone \/ Server \/ Node

SppSpec == SppInit /\ [][SppNext]_sppVars

-----------------------------------------------------------------------------
SppTypeOK ==
  /\ link \in BOOLEAN /\ ccc \in BOOLEAN /\ adv \in BOOLEAN
  /\ takes \in {DEFAULT_PACKET, LARGE_PACKET}
  /\ events \in Seq(SppEvents)
  /\ main_state \in STATES
  /\ max_packet_size \in {DEFAULT_PACKET, LARGE_PACKET}
  /\ pin \in {0, 1}
  /\ blocks \in 0 .. 255
  /\ pc \in {"off", "loop", "fill", "send"}
  /\ uart \in BOOLEAN
  /\ rx \in Seq(1 .. MaxBytes) /\ Len(rx) <= RXBUFSIZE
  /\ data \in Seq(1 .. MaxBytes)
  /\ sent \in 0 .. MaxBytes /\ got \in 0 .. sent

(* Once the loop has handled every event, the pin tells the node the truth *)
(* about the link, the module can be found if it has none, and it forwards *)
(* bytes exactly if the phone wants them (spp_server_main, whatever order  *)
(* the phone's requests and the loss of the link came in).                 *)
CaughtUp ==
  pc # "off" /\ events = <<>> =>
    /\ pin = 0 <=> link
    /\ adv <=> ~link
    /\ main_state = "STATE_SPP_MODE" <=> ccc
    /\ pc = "loop" \/ main_state = "STATE_SPP_MODE"

(* The UART needs a clock that sleep stops: while the loop forwards bytes  *)
(* sleep is blocked, though the calls of SLEEP_SleepBlockBegin and _End    *)
(* are not paired (lines 185, 201 and 206), as long as the count of 8 bits *)
(* does not wrap.                                                          *)
AwakeWhileForwarding == main_state = "STATE_SPP_MODE" => blocks > 0

(* No packet is longer than the link it goes to takes: what one phone      *)
(* agreed to is not used for the next (reset_variables, line 58).          *)
PacketFits == pc = "send" /\ link => Len(data) <= takes

(* What a phone receives, what is about to be sent and what is in the ring *)
(* are in the order of the node, and no byte is sent twice: packets are    *)
(* tried again, links lost and the module reset in between (send_spp_data).*)
InOrder ==
  LET s == <<got>> \o data \o rx
  IN \A i \in 1 .. Len(s) - 1 : s[i] < s[i + 1]
=============================================================================
