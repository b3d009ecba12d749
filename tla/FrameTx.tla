------------------------------ MODULE FrameTx ------------------------------
(***************************************************************************)
(* Frames from the node to the phone.  The thread formats a message into   *)
(* jsonBuff and sends it byte by byte (bgm113_cmds_parser_sendData); once  *)
(* per window the tick interrupt does the same with the same buffer        *)
(* (accel_sampler), at any point of what the thread is doing and in one    *)
(* go, as nothing interrupts it.  The BLE module passes the bytes on, and  *)
(* the application parses them (BLECommandsParser.cs).  jwOpen and jwPutch *)
(* are one step each.                                                      *)
(*                                                                         *)
(* Messages 1 .. Len(MsgLen) are the thread's, those after them the        *)
(* sampler's.  <<m, k>> is the k-th byte of the text of message m.         *)
(*                                                                         *)
(* A text that fills jsonBuff has no terminator, and strlen runs on into   *)
(* the memory behind.  Where it stops and what lies there is not known: it *)
(* may be any number of bytes, of any values, those of STX and ETX among   *)
(* them, and the length byte is what is left of the sum in 8 bits.         *)
(***************************************************************************)
EXTENDS TaskTimeout, Sequences, FiniteSets

CONSTANTS
  MsgLen,               \* lengths of the texts the thread formats
  SamplerLen,           \* length of the text of a sampler message
  JSON_BUFFER_SIZE_MAX, \* size of jsonBuff
  Text,                 \* what a byte of text reads as
  BYTE,                 \* 2^8
  MaxBehind,            \* bound: bytes strlen runs over behind jsonBuff
  MaxSamples            \* bound: messages the sampler sends

STX == 2
ETX == 3
SEQ_NO == 1   \* getSeqNo

ThreadMsgs == 1..Len(MsgLen)
SamplerMsgs == (Len(MsgLen) + 1)..(Len(MsgLen) + MaxSamples)
Msgs == ThreadMsgs \cup SamplerMsgs

ASSUME FrameAssumption ==
  /\ MsgLen \in Seq(Nat \ 0..ETX)
  /\ SamplerLen \in (ETX + 1)..(JSON_BUFFER_SIZE_MAX - 1)
  /\ BYTE \in Nat /\ JSON_BUFFER_SIZE_MAX \in 0..BYTE
  /\ Text \in (ETX + 1)..(BYTE - 1)
  /\ MaxBehind \in Nat
  /\ MaxSamples \in Nat

TextLen(m) == IF m \in ThreadMsgs THEN MsgLen[m] ELSE SamplerLen
TextOf(m) == [k \in 1..TextLen(m) |-> <<m, k>>]

NUL == <<0, 0>>      \* what memset leaves behind
FOREIGN == <<0, 1>>  \* a byte of the memory behind jsonBuff
\* The bytes around the text: the STX a frame begins with, and the others.
FIRST == <<0, 2>>
SEQNO == <<0, 3>>
LENGTH == <<0, 4>>
END == <<0, 5>>

\* A byte on its way to the phone: what it reads as, which byte of which text
\* (or around it) it is, and in which frame it was sent; v is what memory
\* behind jsonBuff reads as.
Control(v, b, f) == [val |-> v, of |-> b, frame |-> f]
TextByte(b, f, v) ==
  Control(IF b = NUL THEN 0 ELSE IF b = FOREIGN THEN v ELSE Text, b, f)

VARIABLES
  jsonBuff,   \* the text in the buffer, up to g_jWriteControl.bufp
  pc,         \* the thread: "idle", "format", "send"
  cur,        \* the message it formats and sends
  put,        \* bytes of that text it has written
  len,        \* what strlen returned
  out,        \* bytes of the frame it has sent
  samples,    \* messages the sampler has sent
  channel,    \* bytes on their way
  g_rcvState, \* the parser's state
  g_expLen,   \* the length announced
  g_buff      \* the g_byteCnt bytes of payload received

\* History, read by the properties only.
VARIABLES
  got,        \* messages handed over; -f, 0: no message's text
  mixed,      \* frames whose bytes, or buffer, another writer got at
  split,      \* frames in which the phone saw a pause
  last,       \* the last byte the phone took
  astray,     \* the parse going on began at a byte that begins no frame
  swallowed   \* frames that began within such a parse

threadVars == <<pc, cur, put, len, out>>
phoneVars == <<clockVars, g_rcvState, g_expLen, g_buff, got, split, last,
               astray, swallowed>>
vars == <<jsonBuff, threadVars, samples, channel, phoneVars, mixed>>

States == {"idle", "seqNo", "expLen", "payload"}

TypeOK ==
  /\ jsonBuff \in Seq(Msgs \X Nat) /\ Len(jsonBuff) <= JSON_BUFFER_SIZE_MAX
  /\ pc \in {"idle", "format", "send"}
  /\ cur \in 0..Len(MsgLen)
  /\ cur # 0 => put \in 0..MsgLen[cur]
  /\ len \in 0..(JSON_BUFFER_SIZE_MAX + MaxBehind) /\ out \in 0..(len + 4)
  /\ samples \in 0..MaxSamples
  /\ ClockTypeOK
  /\ g_rcvState \in States /\ g_expLen \in Nat
  /\ mixed \subseteq Msgs /\ split \subseteq Msgs /\ swallowed \subseteq Msgs
  /\ astray \in BOOLEAN

Init ==
  /\ jsonBuff = <<>>
  /\ pc = "idle" /\ cur = 0 /\ put = 0 /\ len = 0 /\ out = 0
  /\ samples = 0 /\ channel = <<>>
  /\ ClockInit /\ g_rcvState = "idle" /\ g_expLen = 0 /\ g_buff = <<>>
  /\ got = <<>> /\ mixed = {} /\ split = {} /\ last = Control(0, NUL, 0)
  /\ astray = FALSE /\ swallowed = {}

-----------------------------------------------------------------------------
(* The thread *)

\* jwOpen: the next message.
Open ==
  /\ pc = "idle" /\ cur < Len(MsgLen)
  /\ cur' = cur + 1
  /\ jsonBuff' = <<>> /\ put' = 0 /\ pc' = "format"
  /\ UNCHANGED <<len, out, samples, channel, phoneVars, mixed>>

Put_unchecked ==
  /\ pc = "format" /\ put < MsgLen[cur]
  /\ put' = put + 1
  /\ jsonBuff' = Append(jsonBuff, <<cur, put + 1>>)
  /\ UNCHANGED <<pc, cur, len, out, samples, channel, phoneVars, mixed>>

\* jwPutch: to where g_jWriteControl points now, if there is room.
Put ==
  /\ pc = "format" /\ put < MsgLen[cur]
  /\ put' = put + 1
  /\ jsonBuff' = IF Len(jsonBuff) < JSON_BUFFER_SIZE_MAX
                   THEN Append(jsonBuff, <<cur, put + 1>>) ELSE jsonBuff
  /\ UNCHANGED <<pc, cur, len, out, samples, channel, phoneVars, mixed>>

\* The terminator counted as well.
Strlens_terminator == {Len(jsonBuff) + 1}

\* strlen goes on into the memory behind a buffer that is full.
Strlens == IF Len(jsonBuff) < JSON_BUFFER_SIZE_MAX
             THEN {Len(jsonBuff)}
             ELSE JSON_BUFFER_SIZE_MAX..(JSON_BUFFER_SIZE_MAX + MaxBehind)

Send ==
  /\ pc = "format" /\ put = MsgLen[cur]
  /\ len' \in Strlens
  /\ out' = 0 /\ pc' = "send"
  /\ UNCHANGED <<cur, put, jsonBuff, samples, channel, phoneVars, mixed>>

\* The bytes in the buffer now, and those behind it.
BuffBytes == [i \in 1..(JSON_BUFFER_SIZE_MAX + MaxBehind) |->
                IF i <= Len(jsonBuff) THEN jsonBuff[i]
                ELSE IF i <= JSON_BUFFER_SIZE_MAX THEN NUL ELSE FOREIGN]

\* Byte i of frame f, when b are the bytes of the payload and n its length, of
\* which uart0_writeByte sends 8 bits.
FrameByte(f, n, b, i, v) ==
  IF i = 1 THEN Control(STX, FIRST, f)
  ELSE IF i = 2 THEN Control(SEQ_NO, SEQNO, f)
  ELSE IF i = 3 THEN Control(n % BYTE, LENGTH, f)
  ELSE IF i = n + 4 THEN Control(ETX, END, f)
  ELSE TextByte(b[i - 3], f, v)

\* What byte i of a frame may read as, if it lies behind jsonBuff.
Behind(i) == IF i - 3 > JSON_BUFFER_SIZE_MAX THEN 0..(BYTE - 1) ELSE {0}

WriteByte ==
  /\ pc = "send"
  /\ \E v \in Behind(out + 1) :
       channel' = Append(channel, FrameByte(cur, len, BuffBytes, out + 1, v))
  /\ out' = out + 1
  /\ pc' = IF out + 1 = len + 4 THEN "idle" ELSE "send"
  /\ UNCHANGED <<cur, put, len, jsonBuff, samples, phoneVars, mixed>>

-----------------------------------------------------------------------------
(* The interrupt *)

AmidFrame == pc = "send" /\ out > 0

\* accel_sampler at the end of a window, a phone being connected and the
\* fitness session running.
Sampler ==
  /\ samples < MaxSamples
  /\ samples' = samples + 1
  /\ LET m == Len(MsgLen) + samples'
     IN  /\ jsonBuff' = TextOf(m)
         /\ channel' = channel \o
              [i \in 1..(SamplerLen + 4) |-> FrameByte(m, SamplerLen, TextOf(m), i, 0)]
         /\ mixed' = mixed \cup (IF pc = "idle" THEN {} ELSE {cur})
                           \cup (IF AmidFrame THEN {m} ELSE {})
  /\ UNCHANGED <<threadVars, phoneVars>>

-----------------------------------------------------------------------------
(* The phone *)

\* Time passes: the bytes come in notifications, and one may be late.
Pause ==
  /\ Advance
  /\ split' = IF g_rcvState # "idle" /\ IsTimeout' THEN split \cup {last.frame}
                                                 ELSE split
  /\ UNCHANGED <<jsonBuff, threadVars, samples, channel, mixed,
                 g_rcvState, g_expLen, g_buff, got, last, astray, swallowed>>

Byte == Head(channel).val

\* GetCompleteCommand takes a byte; s is its state once the timeout has been
\* seen to, and SetTimeout comes last.
Take(s) ==
  /\ channel # <<>>
  /\ s = IF IsTimeout THEN "idle" ELSE g_rcvState
  /\ channel' = Tail(channel)
  /\ SetTimeout
  /\ last' = Head(channel)
  /\ astray' = IF s = "idle" THEN Byte = STX /\ Head(channel).of # FIRST
                             ELSE astray
  /\ swallowed' = IF s # "idle" /\ astray /\ Head(channel).of = FIRST
                    THEN swallowed \cup {Head(channel).frame} ELSE swallowed
  /\ UNCHANGED <<jsonBuff, threadVars, samples, mixed, split>>

RcvIdle ==
  /\ Take("idle")
  /\ g_rcvState' = IF Byte = STX THEN "seqNo" ELSE "idle"
  /\ UNCHANGED <<g_expLen, g_buff, got>>

RcvSeqNo ==
  /\ Take("seqNo")
  /\ g_rcvState' = "expLen"
  /\ UNCHANGED <<g_expLen, g_buff, got>>

RcvExpLen_keepCount ==
  /\ Take("expLen")
  /\ IF Byte # 0
       THEN g_rcvState' = "payload" /\ g_expLen' = Byte /\ UNCHANGED g_buff
       ELSE g_rcvState' = "idle" /\ UNCHANGED <<g_expLen, g_buff>>
  /\ UNCHANGED got

RcvExpLen ==
  /\ Take("expLen")
  /\ IF Byte # 0
       THEN g_rcvState' = "payload" /\ g_expLen' = Byte /\ g_buff' = <<>>
       ELSE g_rcvState' = "idle" /\ UNCHANGED <<g_expLen, g_buff>>
  /\ UNCHANGED got

RcvPayload ==
  /\ Len(g_buff) < g_expLen
  /\ Take("payload")
  /\ g_buff' = Append(g_buff, Head(channel).of)
  /\ g_rcvState' = "payload"   \* also a state kept
  /\ UNCHANGED <<g_expLen, got>>

\* The message whose text is in g_buff; if there is none: -f when the parse
\* began with a frame and ends in frame f, 0 when it began astray.
Message == IF \E m \in Msgs : g_buff = TextOf(m)
             THEN CHOOSE m \in Msgs : g_buff = TextOf(m)
             ELSE IF astray THEN 0 ELSE -Head(channel).frame

RcvEtx ==
  /\ Len(g_buff) >= g_expLen
  /\ Take("payload")
  /\ got' = IF Byte = ETX THEN Append(got, Message) ELSE got
  /\ g_rcvState' = "idle"
  /\ UNCHANGED <<g_expLen, g_buff>>

-----------------------------------------------------------------------------
Thread == Open \/ Put \/ Send \/ WriteByte
Phone == Pause \/ RcvIdle \/ RcvSeqNo \/ RcvExpLen \/ RcvPayload \/ RcvEtx

Next == Thread \/ Sampler \/ Phone

Spec == Init /\ [][Next]_vars

-----------------------------------------------------------------------------
(* Properties *)

\* Every byte of frame m has been sent, and taken by the phone.
Sent(m) == IF m \in ThreadMsgs THEN cur > m \/ (cur = m /\ pc = "idle")
                               ELSE m <= Len(MsgLen) + samples

Over(m) == Sent(m) /\ \A i \in 1..Len(channel) : channel[i].frame # m

TimesReceived(m) == Cardinality({k \in 1..Len(got) : got[k] = m})

Fits(m) == TextLen(m) < JSON_BUFFER_SIZE_MAX

Overlong == {m \in ThreadMsgs : m <= cur /\ ~Fits(m)}

\* Frames that were mixed up do no harm to the others, nor does a time-out: a
\* message that fits into the buffer, that no other writer got at and that
\* reached the phone without a pause is received, whatever came before it.
\* There is one exception.  In a frame too long for jsonBuff, or mixed up, a
\* byte of the memory behind, or the 8 bits of the length, may read as an STX;
\* when the phone looks for one there (a pause made it give the frame up, or
\* the length's 8 bits made it end early) it parses from that byte on, and
\* frames that begin within this parse are lost.
UnmixedReceived ==
  \A m \in Msgs \ (mixed \cup split) : Over(m) /\ Fits(m) =>
    \/ TimesReceived(m) >= 1
    \/ m \in swallowed /\ (mixed # {} \/ Overlong # {})

\* As long as no frame was mixed up, no frame is received twice, and none that
\* fits as something else: what is received that is no message's text is what a
\* message too long for the buffer was cut to, or comes from a parse that began
\* at a byte of such a message's frame that only reads as an STX.
NoFalseMessages ==
  mixed = {} =>
    /\ \A m \in Msgs : /\ TimesReceived(m) + TimesReceived(-m) <= 1
                       /\ TimesReceived(-m) > 0 => ~Fits(m)
    /\ TimesReceived(0) > 0 => Overlong # {}

\* The frames of the protocol reach the phone one after the other: every
\* message that fits and meets no pause is received.
FramesArrive ==
  \A m \in Msgs \ split : Over(m) /\ Fits(m) => TimesReceived(m) >= 1
=============================================================================
