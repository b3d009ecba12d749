----------------------------- MODULE CmdParser -----------------------------
(***************************************************************************)
(* The commands a phone sends reach the node byte by byte: SERCOM0_Handler *)
(* (uart0.c) puts each byte into the receive ring, and rkh_hook_idle calls *)
(* the parser (bgm113_cmds_parser.c) once per second while a phone is      *)
(* connected.  A frame is STX, seqNo, length, payload, ETX.                *)
(*                                                                         *)
(* Bytes arrive between any two steps of the parser.  A byte is the pair   *)
(* <<f, i>>: the i-th byte of the f-th frame sent; Val is what it reads as.*)
(*                                                                         *)
(* The parser does not compare a length with the size of g_data.  When it  *)
(* writes behind g_data, what that destroys is not known: the model notes  *)
(* that it did so ("overwritten") and follows the node no further.         *)
(***************************************************************************)
EXTENDS Naturals, Sequences

CONSTANTS
  Payloads,                  \* Payloads[f]: length of the payload of frame f
  Text,                      \* Text[b]: what the byte b of a payload reads as
  BYTE,                      \* 2^8: a length is one byte
  UART0_RX_BUFFER_SIZE,      \* size of the receive ring
  CMD_MAX_FRAME_SIZE,        \* size of g_data
  CMD_UART_RCV_DATA_TIMEOUT, \* patience of the parser, in ms
  SECOND,                    \* 1000 ms
  TIME_WRAP,                 \* 2^32: a time in ms is a rui32_t
  MaxSec,                    \* bound: the last second of a behaviour
  MaxOverruns                \* bound: bytes lost by the hardware

STX == 2
ETX == 3
SEQ_NO == 1   \* the phone numbers every frame 1

FrameIds == 1..Len(Payloads)
FrameLen(f) == Payloads[f] + 4

\* A frame has at most BYTE - 1 bytes of payload.
Bytes == {b \in FrameIds \X (1..(BYTE + 3)) : b[2] <= FrameLen(b[1])}

\* The phone sends texts of printable characters, of any length one byte can
\* announce: longer than g_data, too.
ASSUME LineAssumption ==
  /\ BYTE \in Nat
  /\ Payloads \in Seq(Nat) /\ Payloads # <<>>
  /\ \A f \in FrameIds : Payloads[f] \in (ETX + 1)..(BYTE - 1)
  /\ Text \in [Bytes -> (ETX + 1)..(BYTE - 1)]
  /\ UART0_RX_BUFFER_SIZE \in Nat \ {0}
  /\ CMD_MAX_FRAME_SIZE \in Nat /\ CMD_MAX_FRAME_SIZE > ETX
  /\ MaxSec \in Nat /\ MaxOverruns \in Nat

ASSUME TimeAssumption ==
  /\ CMD_UART_RCV_DATA_TIMEOUT \in Nat \ {0}
  /\ SECOND \in Nat /\ CMD_UART_RCV_DATA_TIMEOUT <= SECOND
  /\ TIME_WRAP \in Nat /\ SECOND < TIME_WRAP

\* What byte b reads as.
Val(b) == IF b[2] = 1 THEN STX
          ELSE IF b[2] = 2 THEN SEQ_NO
          ELSE IF b[2] = 3 THEN Payloads[b[1]]
          ELSE IF b[2] = FrameLen(b[1]) THEN ETX
          ELSE Text[b]

VARIABLES
  line,         \* the next byte to arrive
  overruns,     \* bytes the hardware lost so far
  ring,         \* g_rxBuffHandler, the oldest byte first
  sec,          \* bsp_getTimeSec
  isConnected,  \* g_controlData.isConnected
  prevTimeSec,  \* second of the last call; during a call, its time
  pc,           \* "idle"; "parse" inside getCompleteMessage; "overwritten"
  state,        \* the parser's state
  timeoutMs,    \* when the parser gives a frame up; 0: never
  g_dataSize,   \* payload length announced
  g_data        \* the _payldByteCnt bytes of payload stored so far

\* History, read by the properties only.
VARIABLES
  open,         \* frame whose STX the parser took last
  got,          \* frames handed to indDataHandler; 0: one nobody sent
  damaged,      \* frames that lost a byte
  cut,          \* frames a call left unfinished
  due           \* frame that lay whole at the head of the ring at the call

lineVars == <<line, overruns, ring, damaged>>
timeVars == <<sec, isConnected>>
parserVars == <<prevTimeSec, pc, state, timeoutMs, g_dataSize, g_data,
                open, got, cut, due>>
vars == <<lineVars, timeVars, parserVars>>

States == {"idle", "seqNo", "expLen", "payload"}

TypeOK ==
  /\ line \in Bytes \cup {<<Len(Payloads) + 1, 1>>}
  /\ ring \in Seq(Bytes) /\ Len(ring) < UART0_RX_BUFFER_SIZE
  /\ overruns \in 0..MaxOverruns
  /\ sec \in 0..MaxSec /\ prevTimeSec \in 0..sec
  /\ isConnected \in BOOLEAN
  /\ pc \in {"idle", "parse", "overwritten"}
  /\ state \in States
  /\ timeoutMs \in 0..(TIME_WRAP - 1)
  /\ g_dataSize \in 0..(BYTE - 1)
  /\ g_data \in Seq(Bytes) /\ Len(g_data) <= CMD_MAX_FRAME_SIZE
  /\ open \in FrameIds \cup {0}
  /\ got \in Seq(FrameIds \cup {0})
  /\ damaged \subseteq FrameIds /\ cut \subseteq FrameIds
  /\ due \in FrameIds \cup {0}

Init ==
  /\ line = <<1, 1>> /\ overruns = 0 /\ ring = <<>> /\ damaged = {}
  /\ sec = 0 /\ isConnected \in BOOLEAN
  /\ prevTimeSec = 0 /\ pc = "idle"
  /\ state = "idle" /\ timeoutMs = 0 /\ g_dataSize = 0 /\ g_data = <<>>
  /\ open = 0 /\ got = <<>> /\ cut = {} /\ due = 0

-----------------------------------------------------------------------------
(* The receive interrupt and the clock *)

Following(b) == IF b[2] = FrameLen(b[1]) THEN <<b[1] + 1, 1>>
                                         ELSE <<b[1], b[2] + 1>>

RingFull == Len(ring) = UART0_RX_BUFFER_SIZE - 1

Receive_unchecked ==
  /\ line[1] \in FrameIds
  /\ line' = Following(line)
  /\ ring' = Append(ring, line)
  /\ UNCHANGED <<overruns, damaged, timeVars, parserVars>>

\* SERCOM0_Handler: a byte that finds the ring full is dropped.
Receive ==
  /\ line[1] \in FrameIds
  /\ line' = Following(line)
  /\ IF RingFull THEN ring' = ring /\ damaged' = damaged \cup {line[1]}
                 ELSE ring' = Append(ring, line) /\ UNCHANGED damaged
  /\ UNCHANGED <<overruns, timeVars, parserVars>>

\* The tick's handler, sending a frame of its own, holds SERCOM0_Handler off
\* for longer than the hardware can store bytes: it later finds BUFOVF set.
Overrun ==
  /\ line[1] \in FrameIds
  /\ overruns < MaxOverruns
  /\ overruns' = overruns + 1
  /\ line' = Following(line)
  /\ damaged' = damaged \cup {line[1]}
  /\ UNCHANGED <<ring, timeVars, parserVars>>

Second ==
  /\ sec < MaxSec
  /\ sec' = sec + 1
  /\ UNCHANGED <<isConnected, lineVars, parserVars>>

\* The active object enters or leaves linked (module PlatC).
Connection ==
  /\ pc = "idle"
  /\ isConnected' = ~isConnected
  /\ UNCHANGED <<sec, lineVars, parserVars>>

-----------------------------------------------------------------------------
(* The thread *)

\* currTimeSec * 1000u
Ms(s) == (s * SECOND) % TIME_WRAP

Kicked == (Ms(prevTimeSec) + CMD_UART_RCV_DATA_TIMEOUT) % TIME_WRAP

HeadIs(f) == /\ Len(ring) >= FrameLen(f)
             /\ \A i \in 1..FrameLen(f) : ring[i] = <<f, i>>

\* The frame that lies whole at the head of the ring; 0: there is none.
HeadFrame == IF ring # <<>> /\ HeadIs(ring[1][1]) THEN ring[1][1] ELSE 0

\* The time in ms has not wrapped yet: the first 49.7 days.
Unwrapped == sec * SECOND < TIME_WRAP

GiveUp_never == UNCHANGED <<state, timeoutMs>>

\* The first thing getCompleteMessage does.
GiveUp ==
  IF timeoutMs # 0 /\ Ms(sec) >= timeoutMs
    THEN state' = "idle" /\ timeoutMs' = 0
    ELSE UNCHANGED <<state, timeoutMs>>

\* rkh_hook_idle calls the parser in every new second.  (prevTimeSec is
\* assigned when the call returns; nothing reads it before.)
Poll ==
  /\ pc = "idle" /\ isConnected /\ sec # prevTimeSec
  /\ prevTimeSec' = sec
  /\ pc' = "parse"
  /\ GiveUp
  /\ due' = IF Unwrapped THEN HeadFrame ELSE 0
  /\ UNCHANGED <<g_dataSize, g_data, open, got, cut, lineVars, timeVars>>

\* The parser takes a byte in state s.
Take(s) ==
  /\ pc = "parse" /\ state = s /\ ring # <<>>
  /\ ring' = Tail(ring)
  /\ UNCHANGED <<line, overruns, damaged, timeVars, prevTimeSec, cut, due>>

WaitStx_anyByte ==
  /\ Take("idle")
  /\ state' = "seqNo" /\ timeoutMs' = Kicked /\ open' = Head(ring)[1]
  /\ UNCHANGED <<pc, g_dataSize, g_data, got>>

WaitStx ==
  /\ Take("idle")
  /\ IF Val(Head(ring)) = STX
       THEN state' = "seqNo" /\ timeoutMs' = Kicked /\ open' = Head(ring)[1]
       ELSE UNCHANGED <<state, timeoutMs, open>>
  /\ UNCHANGED <<pc, g_dataSize, g_data, got>>

WaitSeqNo ==
  /\ Take("seqNo")
  /\ state' = "expLen" /\ timeoutMs' = Kicked
  /\ UNCHANGED <<pc, g_dataSize, g_data, open, got>>

WaitExpLen_keepCount ==
  /\ Take("expLen")
  /\ state' = "payload" /\ timeoutMs' = Kicked
  /\ g_dataSize' = Val(Head(ring))
  /\ UNCHANGED <<pc, g_data, open, got>>

WaitExpLen ==
  /\ Take("expLen")
  /\ state' = "payload" /\ timeoutMs' = Kicked
  /\ g_dataSize' = Val(Head(ring)) /\ g_data' = <<>>
  /\ UNCHANGED <<pc, open, got>>

StorePayload ==
  /\ Len(g_data) < g_dataSize /\ Len(g_data) < CMD_MAX_FRAME_SIZE
  /\ Take("payload")
  /\ g_data' = Append(g_data, Head(ring)) /\ timeoutMs' = Kicked
  /\ UNCHANGED <<pc, state, g_dataSize, open, got>>

\* The same assignment with g_data full: the byte goes behind it.
Overwrite ==
  /\ Len(g_data) < g_dataSize /\ Len(g_data) >= CMD_MAX_FRAME_SIZE
  /\ Take("payload")
  /\ pc' = "overwritten"
  /\ UNCHANGED <<state, timeoutMs, g_dataSize, g_data, open, got>>

\* The frame the bytes in g_data are the payload of; 0: nobody sent it.
Message ==
  LET whole(f) == g_data = [i \in 1..Payloads[f] |-> <<f, i + 3>>]
  IN  IF \E f \in FrameIds : whole(f) THEN CHOOSE f \in FrameIds : whole(f)
                                      ELSE 0

Complete_keepState ==
  /\ Len(g_data) >= g_dataSize
  /\ Take("payload") /\ Val(Head(ring)) = ETX
  /\ timeoutMs' = 0 /\ pc' = "idle"
  /\ got' = Append(got, Message)
  /\ UNCHANGED <<state, g_dataSize, g_data, open>>

\* The message is complete: indDataHandler gets it.
Complete ==
  /\ Len(g_data) >= g_dataSize
  /\ Take("payload") /\ Val(Head(ring)) = ETX
  /\ state' = "idle" /\ timeoutMs' = 0 /\ pc' = "idle"
  /\ got' = Append(got, Message)
  /\ UNCHANGED <<g_dataSize, g_data, open>>

\* No ETX where it should be: the loop is left, the state kept.
NoEtx ==
  /\ Len(g_data) >= g_dataSize
  /\ Take("payload") /\ Val(Head(ring)) # ETX
  /\ timeoutMs' = Kicked /\ pc' = "idle"
  /\ UNCHANGED <<state, g_dataSize, g_data, open, got>>

\* The ring is empty: the call returns with what it has.
NoData ==
  /\ pc = "parse" /\ ring = <<>>
  /\ pc' = "idle"
  /\ cut' = IF state = "idle" THEN cut ELSE cut \cup {open}
  /\ UNCHANGED <<prevTimeSec, state, timeoutMs, g_dataSize, g_data, open,
                 got, due, lineVars, timeVars>>

\* rkh_hook_idle with nothing to do.
IdleReturn ==
  /\ pc = "idle" /\ (~isConnected \/ sec = prevTimeSec)
  /\ UNCHANGED vars

\* What the node does once other variables are overwritten is not modelled.
Overwritten == pc = "overwritten" /\ UNCHANGED vars

Parse == \/ WaitStx \/ WaitSeqNo \/ WaitExpLen
         \/ StorePayload \/ Overwrite \/ Complete \/ NoEtx \/ NoData

\* The phone, the hardware and the clock.
Around == pc # "overwritten" /\ (Receive \/ Overrun \/ Second)

Next == Around \/ Connection \/ Poll \/ Parse \/ IdleReturn \/ Overwritten

Spec == Init /\ [][Next]_vars

-----------------------------------------------------------------------------
(* Properties *)

\* Every byte of frame f is gone, from the line and from the ring.
Gone(f) == /\ line[1] > f
           /\ \A k \in 1..Len(ring) : ring[k][1] # f

Received(f) == \E k \in 1..Len(got) : got[k] = f

\* A frame that lies whole at the head of the ring when a call begins is
\* handed over by that call, whatever the calls before it left behind: losses
\* and cut frames do damage for one call only, as the timeout sees to it.
\* (Once the time in ms has wrapped, a timeout set before may be out of reach.)
HeadFrameReceived ==
  pc = "idle" /\ due # 0 => got # <<>> /\ got[Len(got)] = due

\* The parser writes behind g_data only when the phone sends a payload that
\* does not fit, or when it takes a byte of text, above the size of g_data, for
\* a length: and that never while no byte is lost, however its calls cut the
\* frames.  It has no check of its own.
StaysInBounds ==
  pc = "overwritten" =>
    \/ \E f \in FrameIds : Payloads[f] > CMD_MAX_FRAME_SIZE
    \/ damaged # {} /\ \E b \in Bytes : Text[b] > CMD_MAX_FRAME_SIZE

\* As long as no byte is lost, every message handed over is the payload of
\* a frame that was sent, whole and not mixed with another: not even the
\* frames given up half-way leave anything behind in g_data.
NoForgery == damaged = {} => \A k \in 1..Len(got) : got[k] # 0

\* As long as no byte is lost, a frame is lost only if a call of the parser
\* came to the end of the ring in the middle of that frame.
LostOnlyIfCut ==
  damaged = {} /\ pc = "idle" =>
    \A f \in FrameIds : Gone(f) => Received(f) \/ f \in cut

\* The parser puts a message together across calls: a frame of which no byte
\* is lost is received.  (The comment in getCompleteMessage.)
NoFrameLost ==
  damaged = {} /\ pc = "idle" => \A f \in FrameIds : Gone(f) => Received(f)
=============================================================================
