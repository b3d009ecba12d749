-------------------------- MODULE FrameTx_proofs --------------------------
(* Theorems about the frames from node to phone: types, with the bound of  *)
(* jsonBuff, the timeout of the parser at work, which messages arrive, and *)
(* what is received besides.                                               *)
EXTENDS FrameTx, FiniteSetTheorems, TLAPS

-----------------------------------------------------------------------------
(* The clock of the parser: its timeout is exact for ints of any width.    *)

\* The clock and the end of the timeout, as seen from the moment it was set.
Since ==
  IF elapsed = -1 THEN timeset = 0 /\ timeout = 0
  ELSE /\ now = Wrap(timeset + elapsed)
       /\ timeout = Wrap(timeset + CMD_FRAME_RCV_TIMEOUT)

ClockInv == ClockTypeOK /\ Since

\* Before the first byte timeset and timeout are 0.
LEMMA InitClock == ClockInit => ClockInv
  BY TickAssumption DEF ClockInit, ClockInv, ClockTypeOK, Since, Ticks

\* Time passes, or is taken as the new beginning.
LEMMA NextClock == ClockInv /\ [ClockNext]_clockVars => ClockInv'
  <1> SUFFICES ASSUME ClockInv, [ClockNext]_clockVars PROVE ClockInv'
    OBVIOUS
  <1> USE TickAssumption DEF ClockInv, ClockTypeOK, Since, Ticks, Wrap
  <1>1. CASE Advance
    BY <1>1 DEF Advance
  <1>2. CASE SetTimeout
    BY <1>2 DEF SetTimeout
  <1>3. CASE UNCHANGED clockVars
    BY <1>3 DEF clockVars
  <1> QED BY <1>1, <1>2, <1>3 DEF ClockNext

\* The four orders of timeset, timeout and now around the wrap.
LEMMA ClockExact == ClockInv => TimeoutExact
  BY TickAssumption
     DEF ClockInv, ClockTypeOK, Since, Ticks, Wrap, TimeoutExact, IsTimeout

\* IsTimeout of BLECommandsParser.cs is right at every tick count, for ints
\* of every width and every timeout that fits into one.
THEOREM TimeoutIsExact == ClockSpec => []TimeoutExact
  BY InitClock, NextClock, ClockExact, PTL DEF ClockSpec

-----------------------------------------------------------------------------
(* The types *)

Wire == [val : Nat, of : Nat \X Nat, frame : Msgs]

\* What the types rest on: who may write what, and that a frame is on its way
\* only for a message.
BuffOK == jsonBuff \in Seq(Msgs \X Nat) /\ Len(jsonBuff) <= JSON_BUFFER_SIZE_MAX

ThreadOK ==
  /\ pc \in {"idle", "format", "send"}
  /\ cur \in 0..Len(MsgLen) /\ (pc # "idle" => cur \in ThreadMsgs)
  /\ cur # 0 => put \in 0..MsgLen[cur]
  /\ len \in 0..(JSON_BUFFER_SIZE_MAX + MaxBehind) /\ out \in 0..(len + 4)
  /\ pc = "send" => out < len + 4

WiresOK == /\ samples \in 0..MaxSamples /\ channel \in Seq(Wire)
           /\ mixed \subseteq Msgs

PhoneOK ==
  /\ ClockTypeOK
  /\ g_rcvState \in States /\ g_expLen \in Nat
  /\ g_rcvState # "idle" => last.frame \in Msgs
  /\ split \subseteq Msgs /\ swallowed \subseteq Msgs
  /\ astray \in BOOLEAN

Typed == BuffOK /\ ThreadOK /\ WiresOK /\ PhoneOK

\* The lengths of the texts and the numbers of the messages.
LEMMA MsgType ==
  /\ Len(MsgLen) \in Nat
  /\ ThreadMsgs \subseteq Msgs /\ ThreadMsgs \subseteq Nat \ {0}
  /\ Msgs \subseteq Nat /\ 0 \notin Msgs
  /\ \A m \in ThreadMsgs : MsgLen[m] \in Nat
  BY FrameAssumption DEF Msgs, ThreadMsgs, SamplerMsgs

\* The sampler's next message.
LEMMA SamplerMsg ==
  ASSUME samples \in Nat, samples < MaxSamples
  PROVE  /\ Len(MsgLen) + (samples + 1) \in Msgs
         /\ TextLen(Len(MsgLen) + (samples + 1)) = SamplerLen
  BY MsgType, FrameAssumption DEF Msgs, SamplerMsgs, ThreadMsgs, TextLen

\* What lies between the length and the ETX.
Payloads == (Msgs \X Nat) \cup {NUL, FOREIGN}

\* What of a length goes into one byte.
LEMMA Mod ==
  ASSUME NEW n \in Nat
  PROVE  /\ n % BYTE \in Nat /\ n % BYTE <= n
         /\ n < BYTE => n % BYTE = n
  <1>1. BYTE \in Nat /\ BYTE > 0
    BY FrameAssumption DEF ETX
  <1> QED BY <1>1

\* A byte of a frame can be sent: any of the text, and the four around it.
LEMMA FrameByteType ==
  ASSUME NEW f \in Msgs, NEW n \in Nat, NEW b, NEW i \in 1..(n + 4), NEW v \in Nat,
         \A k \in 1..n : b[k] \in Nat \X Nat
  PROVE  FrameByte(f, n, b, i, v) \in Wire
  <1>1. /\ Text \in Nat /\ STX \in Nat /\ SEQ_NO \in Nat /\ ETX \in Nat
        /\ n % BYTE \in Nat
    BY FrameAssumption, Mod DEF STX, SEQ_NO, ETX
  <1>2. \A w \in Nat : \A x \in Nat \X Nat : Control(w, x, f) \in Wire
    BY DEF Control, Wire
  <1>3. /\ FIRST \in Nat \X Nat /\ SEQNO \in Nat \X Nat
        /\ LENGTH \in Nat \X Nat /\ END \in Nat \X Nat
    BY DEF FIRST, SEQNO, LENGTH, END
  <1>4. CASE i \in {1, 2, 3, n + 4}
    BY <1>1, <1>2, <1>3, <1>4 DEF FrameByte
  <1>5. CASE i \notin {1, 2, 3, n + 4}
    <2>1. i - 3 \in 1..n
      BY <1>5
    <2>2. FrameByte(f, n, b, i, v) = TextByte(b[i - 3], f, v)
      BY <1>5 DEF FrameByte
    <2>3. \A x \in Nat \X Nat : TextByte(x, f, v) \in Wire
      BY <1>1, <1>2 DEF TextByte
    <2> QED BY <2>1, <2>2, <2>3
  <1> QED BY <1>4, <1>5

LEMMA InitTyped == Init => Typed
  <1> SUFFICES ASSUME Init PROVE Typed
    OBVIOUS
  <1>1. PhoneOK
    BY InitClock DEF Init, ClockInv, PhoneOK, States, Control
  <1>2. BuffOK
    BY FrameAssumption DEF Init, BuffOK
  <1>3. ThreadOK
    BY MsgType, FrameAssumption DEF Init, ThreadOK
  <1>4. WiresOK
    BY FrameAssumption DEF Init, WiresOK
  <1> QED BY <1>1, <1>2, <1>3, <1>4 DEF Typed

\* What a step of the node leaves alone keeps its type.
LEMMA PhoneStays == PhoneOK /\ UNCHANGED phoneVars => PhoneOK'
  BY DEF PhoneOK, ClockTypeOK, phoneVars, clockVars

\* Formatting: the text stays within the buffer.
LEMMA FormatTyped == Typed /\ (Open \/ Put \/ Send) => Typed'
  <1> SUFFICES ASSUME Typed, Open \/ Put \/ Send PROVE Typed'
    OBVIOUS
  <1> USE MsgType DEF Typed
  <1>1. PhoneOK' /\ WiresOK'
    BY PhoneStays DEF Open, Put, Send, WiresOK
  <1>2. CASE Open
    <2>1. BuffOK'
      BY <1>2, FrameAssumption DEF Open, BuffOK
    <2>2. cur' \in ThreadMsgs /\ cur' \in 0..Len(MsgLen) /\ MsgLen[cur'] \in Nat
      BY <1>2 DEF Open, ThreadOK, ThreadMsgs
    <2>3. ThreadOK'
      BY <1>2, <2>2 DEF Open, ThreadOK
    <2> QED BY <1>1, <2>1, <2>3
  <1>3. CASE Put
    <2>1. cur \in ThreadMsgs /\ put \in Nat /\ MsgLen[cur] \in Nat /\ cur # 0
      BY <1>3 DEF Put, ThreadOK
    <2>2. <<cur, put + 1>> \in Msgs \X Nat
      BY <2>1
    <2>3. BuffOK'
      BY <1>3, <2>2, FrameAssumption DEF Put, BuffOK
    <2>4. ThreadOK'
      BY <1>3, <2>1 DEF Put, ThreadOK
    <2> QED BY <1>1, <2>3, <2>4
  <1>4. CASE Send
    <2>1. len' \in 0..(JSON_BUFFER_SIZE_MAX + MaxBehind)
      BY <1>4, FrameAssumption DEF Send, Strlens, BuffOK
    <2>2. len' \in Nat /\ 0 \in 0..(len' + 4) /\ 0 < len' + 4
      <3>1. \A j \in Nat : \A n \in 0..j :
              n \in Nat /\ 0 \in 0..(n + 4) /\ 0 < n + 4
        OBVIOUS
      <3>2. JSON_BUFFER_SIZE_MAX + MaxBehind \in Nat
        BY FrameAssumption
      <3> QED BY <2>1, <3>1, <3>2
    <2>3. BuffOK'
      BY <1>4 DEF Send, BuffOK
    <2>4. ThreadOK'
      BY <1>4, <2>1, <2>2 DEF Send, ThreadOK
    <2> QED BY <1>1, <2>3, <2>4
  <1> QED BY <1>2, <1>3, <1>4

LEMMA BuffBytesType ==
  ASSUME Typed, NEW k \in 1..(JSON_BUFFER_SIZE_MAX + MaxBehind)
  PROVE  BuffBytes[k] \in Payloads /\ BuffBytes[k] \in Nat \X Nat
  <1>1. NUL \in Nat \X Nat /\ FOREIGN \in Nat \X Nat /\ Len(jsonBuff) \in Nat
    BY DEF NUL, FOREIGN, Typed, BuffOK
  <1>2. ASSUME k <= Len(jsonBuff) PROVE jsonBuff[k] \in Msgs \X Nat
    <2>1. jsonBuff \in Seq(Msgs \X Nat)
      BY DEF Typed, BuffOK
    <2>2. k \in 1..Len(jsonBuff)
      BY <1>1, <1>2
    <2> QED BY <2>1, <2>2
  <1>3. BuffBytes[k] \in (Msgs \X Nat) \cup {NUL, FOREIGN}
    BY <1>2 DEF BuffBytes
  <1>4. (Msgs \X Nat) \subseteq Nat \X Nat
    BY MsgType
  <1> QED BY <1>1, <1>3, <1>4 DEF Payloads

\* Sending reads the buffer, what is behind it, and nothing else.
LEMMA WriteTyped == Typed /\ WriteByte => Typed'
  <1> SUFFICES ASSUME Typed, WriteByte PROVE Typed'
    OBVIOUS
  <1> USE MsgType
  <1>1. /\ cur \in Msgs /\ len \in Nat /\ len <= JSON_BUFFER_SIZE_MAX + MaxBehind
        /\ out \in Nat /\ out < len + 4
    BY FrameAssumption DEF WriteByte, Typed, ThreadOK
  <1>2. \A k \in 1..len : BuffBytes[k] \in Nat \X Nat
    <2> SUFFICES ASSUME NEW k \in 1..len PROVE BuffBytes[k] \in Nat \X Nat
      OBVIOUS
    <2>1. k \in 1..(JSON_BUFFER_SIZE_MAX + MaxBehind)
      BY <1>1, FrameAssumption
    <2> QED BY <2>1, BuffBytesType DEF WriteByte
  <1>3. \A v \in Nat : FrameByte(cur, len, BuffBytes, out + 1, v) \in Wire
    BY <1>1, <1>2, FrameByteType
  <1>4. WiresOK'
    <2>1. PICK v \in Nat :
            channel' = Append(channel, FrameByte(cur, len, BuffBytes, out + 1, v))
      <3>1. Behind(out + 1) \subseteq Nat
        BY FrameAssumption DEF Behind
      <3> QED BY <3>1 DEF WriteByte
    <2>2. FrameByte(cur, len, BuffBytes, out + 1, v) \in Wire
      BY <1>3
    <2> QED BY <2>1, <2>2 DEF WriteByte, Typed, WiresOK
  <1>5. ThreadOK'
    BY <1>1 DEF WriteByte, Typed, ThreadOK
  <1>6. BuffOK' /\ PhoneOK'
    BY PhoneStays DEF WriteByte, Typed, BuffOK
  <1> QED BY <1>4, <1>5, <1>6 DEF Typed

\* The interrupt's text fits, whatever the thread has put into the buffer.
LEMMA SamplerTyped == Typed /\ Sampler => Typed'
  <1> SUFFICES ASSUME Typed, Sampler PROVE Typed'
    OBVIOUS
  <1> USE MsgType
  <1> DEFINE m == Len(MsgLen) + (samples + 1)
             text == TextOf(m)
             frame == [i \in 1..(SamplerLen + 4) |->
                         FrameByte(m, SamplerLen, text, i, 0)]
  <1>1. /\ m \in Msgs /\ TextLen(m) = SamplerLen /\ SamplerLen \in Nat
        /\ SamplerLen <= JSON_BUFFER_SIZE_MAX
    BY SamplerMsg, FrameAssumption DEF Sampler, Typed, WiresOK, ETX
  <1>2. text = [k \in 1..SamplerLen |-> <<m, k>>]
    BY <1>1 DEF TextOf
  <1>3. text \in Seq(Msgs \X Nat) /\ Len(text) = SamplerLen
    BY <1>1, <1>2
  <1>4. \A i \in 1..(SamplerLen + 4) : frame[i] \in Wire
    <2>1. \A k \in 1..SamplerLen : text[k] \in Nat \X Nat
      <3> HIDE DEF m, text
      <3>1. m \in Nat
        BY <1>1
      <3> QED BY <1>2, <3>1
    <2> HIDE DEF m, text
    <2>2. \A i \in 1..(SamplerLen + 4) : FrameByte(m, SamplerLen, text, i, 0) \in Wire
      BY <1>1, <2>1, FrameByteType
    <2> QED BY <2>2
  <1>5. frame \in Seq(Wire)
    BY <1>1, <1>4
  <1>6. /\ jsonBuff' = text /\ channel' = channel \o frame
        /\ mixed' = mixed \cup (IF pc = "idle" THEN {} ELSE {cur})
                          \cup (IF AmidFrame THEN {m} ELSE {})
        /\ samples' = samples + 1 /\ samples < MaxSamples
        /\ UNCHANGED <<threadVars, phoneVars>>
    BY DEF Sampler
  <1> HIDE DEF m, text, frame
  <1>7. channel' \in Seq(Wire)
    BY <1>5, <1>6 DEF Typed, WiresOK
  <1>8. mixed' \subseteq Msgs
    BY <1>1, <1>6 DEF Typed, WiresOK, ThreadOK
  <1>9. samples' \in 0..MaxSamples
    BY <1>6, FrameAssumption DEF Typed, WiresOK
  <1>10. BuffOK'
    BY <1>1, <1>3, <1>6 DEF BuffOK
  <1>11. ThreadOK' /\ PhoneOK'
    BY <1>6, PhoneStays DEF Typed, ThreadOK, threadVars
  <1> QED BY <1>7, <1>8, <1>9, <1>10, <1>11 DEF Typed, WiresOK

\* Time passes for the phone.
LEMMA PauseTyped == Typed /\ Pause => Typed'
  <1> SUFFICES ASSUME Typed, Pause PROVE Typed'
    OBVIOUS
  <1>1. ClockTypeOK'
    BY TickAssumption
       DEF Pause, Advance, Wrap, Ticks, Typed, PhoneOK, ClockTypeOK
  <1>2. PhoneOK'
    BY <1>1 DEF Pause, Typed, PhoneOK
  <1> QED BY <1>2
          DEF Pause, threadVars, Typed, BuffOK, ThreadOK, WiresOK

\* A byte is taken: only as a length does it matter what it reads as.
LEMMA TakeTyped ==
  ASSUME Typed, NEW s, Take(s),
         g_rcvState' \in States, g_expLen' = g_expLen \/ g_expLen' = Byte
  PROVE  Typed'
  <1>1. Head(channel) \in Wire /\ Tail(channel) \in Seq(Wire)
    BY DEF Take, Typed, WiresOK
  <1>2. ClockTypeOK'
    BY TickAssumption
       DEF Take, SetTimeout, Wrap, Ticks, Typed, PhoneOK, ClockTypeOK
  <1>3. /\ g_expLen' \in Nat /\ last'.frame \in Msgs
        /\ swallowed' \subseteq Msgs /\ astray' \in BOOLEAN
    BY <1>1 DEF Take, Byte, Wire, Typed, PhoneOK
  <1>4. PhoneOK'
    BY <1>2, <1>3 DEF Take, Typed, PhoneOK
  <1>5. BuffOK' /\ ThreadOK' /\ WiresOK'
    BY <1>1 DEF Take, threadVars, Typed, BuffOK, ThreadOK, WiresOK
  <1> QED BY <1>4, <1>5 DEF Typed

\* The phone's steps.
LEMMA PhoneTyped == Typed /\ Phone => Typed'
  <1> SUFFICES ASSUME Typed, Phone PROVE Typed'
    OBVIOUS
  <1> USE DEF States
  <1>1. CASE Pause
    BY <1>1, PauseTyped
  <1>2. CASE RcvIdle
    BY <1>2, TakeTyped DEF RcvIdle
  <1>3. CASE RcvSeqNo
    BY <1>3, TakeTyped DEF RcvSeqNo
  <1>4. CASE RcvExpLen
    BY <1>4, TakeTyped DEF RcvExpLen
  <1>5. CASE RcvPayload
    BY <1>5, TakeTyped DEF RcvPayload
  <1>6. CASE RcvEtx
    BY <1>6, TakeTyped DEF RcvEtx
  <1> QED BY <1>1, <1>2, <1>3, <1>4, <1>5, <1>6 DEF Phone

\* Every action keeps the types.
LEMMA NextTyped == Typed /\ [Next]_vars => Typed'
  <1> SUFFICES ASSUME Typed, [Next]_vars PROVE Typed'
    OBVIOUS
  <1>1. CASE UNCHANGED vars
    BY <1>1, PhoneStays
       DEF vars, threadVars, Typed, BuffOK, ThreadOK, WiresOK
  <1> QED BY <1>1, FormatTyped, WriteTyped, SamplerTyped, PhoneTyped
          DEF Next, Thread

\* No text, of either writer or of both mixed, exceeds jsonBuff, no more bytes
\* are sent than strlen counted, and every variable keeps its type, for
\* messages and buffers of every length and wherever strlen stops.
THEOREM FrameTypeCorrect == Spec => []TypeOK
  <1>1. Typed => TypeOK
    BY DEF Typed, BuffOK, ThreadOK, WiresOK, PhoneOK, TypeOK
  <1> QED BY <1>1, InitTyped, NextTyped, PTL DEF Spec

\* The phone uses its clock as TaskTimeout says: every step is one of time
\* passing, of a byte taken, or of the node.
LEMMA ClockSteps == [Next]_vars => [ClockNext]_clockVars
  BY DEF Next, Thread, Open, Put, Send, WriteByte, Sampler, Phone, Pause, Take,
         RcvIdle, RcvSeqNo, RcvExpLen, RcvPayload, RcvEtx, ClockNext,
         vars, phoneVars

\* The timeout the parser applies to each byte is exact while it parses.
THEOREM ParserTimeoutIsExact == Spec => []TimeoutExact
  <1>1. Init => ClockInit
    BY DEF Init
  <1> QED BY <1>1, ClockSteps, TimeoutIsExact, PTL DEF Spec, ClockSpec
-----------------------------------------------------------------------------
(* Which frames arrive.  A parse begins at the first byte of a frame, or    *)
(* astray; the phone is in one as well, and counts its bytes before the     *)
(* channel's first as 0, -1, ...                                           *)

\* Bytes of a frame the parser has taken.
Progress ==
  IF g_rcvState = "idle" THEN 0 ELSE IF g_rcvState = "seqNo" THEN 1
  ELSE IF g_rcvState = "expLen" THEN 2 ELSE 3 + Len(g_buff)

\* A parse that is not astray begins, or may begin, at position j ...
Parse(j) == \/ j \in 1..Len(channel) /\ channel[j].of = FIRST
            \/ g_rcvState # "idle" /\ ~astray /\ j = 1 - Progress

\* ... and ends at this one, if it is not given up before.
End(j) == j + 3 + (IF j + 2 >= 1 THEN channel[j + 2].val ELSE g_expLen)

\* Bytes the thread still has to send of a frame it is in the middle of.
Remaining == IF AmidFrame THEN len + 4 - out ELSE 0

\* However frames are mixed up, no such parse goes beyond the end of those that
\* are on the line or being sent.
LineOK ==
  \A j \in Int : Parse(j) =>
    IF j + 2 <= Len(channel) THEN End(j) <= Len(channel) + Remaining
    ELSE pc = "send" /\ out = Len(channel) - j + 1

\* No parse that begins before position p reaches it.
Free(p) == \A j \in Int : Parse(j) /\ j < p => j + 2 < p /\ End(j) < p

Collected ==
  /\ g_buff \in Seq(Nat \X Nat) /\ got \in Seq(Int)
  /\ g_rcvState = "payload" => Len(g_buff) <= g_expLen

\* A pause that makes the parser give up is one the history has noted.
TimedOut == g_rcvState # "idle" /\ IsTimeout => last.frame \in split

\* The lengths message f can be sent with, and the bytes of its text then.
Lengths(f) == IF Fits(f) THEN {TextLen(f)}
              ELSE JSON_BUFFER_SIZE_MAX..(JSON_BUFFER_SIZE_MAX + MaxBehind)
Payload(f) == [k \in 1..(JSON_BUFFER_SIZE_MAX + MaxBehind) |->
                 IF k <= JSON_BUFFER_SIZE_MAX THEN <<f, k>> ELSE FOREIGN]

\* The buffer holds the thread's text up to where it is full, unless the
\* interrupt got at it; in any case there is text in it.
BufferOK ==
  /\ pc = "format" => Len(jsonBuff) > ETX \/ Len(jsonBuff) >= put
  /\ pc = "send" => len > ETX
  /\ pc # "idle" /\ cur \notin mixed =>
       /\ Len(jsonBuff) = IF put < JSON_BUFFER_SIZE_MAX THEN put ELSE JSON_BUFFER_SIZE_MAX
       /\ \A k \in 1..Len(jsonBuff) : jsonBuff[k] = <<cur, k>>
  /\ pc = "send" /\ cur \notin mixed => put = MsgLen[cur] /\ len \in Lengths(cur)

\* A byte of the frame has been sent.
Started(f) ==
  IF f \in ThreadMsgs THEN f < cur \/ (f = cur /\ (pc = "idle" \/ AmidFrame))
                      ELSE f <= Len(MsgLen) + samples
FramesOK == \A i \in 1..Len(channel) : Started(channel[i].frame)

Sending(f) == f = cur /\ pc = "send"

\* The bytes of frame f, with a payload of n, lie from position p on: those
\* that have been sent and not been taken.
Placed(f, n, p) ==
  /\ Sending(f) => n = len /\ p + out - 1 = Len(channel)
  /\ ~Sending(f) => p + n + 3 <= Len(channel)
  /\ \A i \in 1..Len(channel) :
       p <= i /\ i <= p + n + 3 =>
         channel[i] = FrameByte(f, n, Payload(f), i - p + 1, channel[i].val)
  /\ \A i \in 1..Len(channel) : channel[i].frame = f => p <= i /\ i <= p + n + 3

\* The parser has taken t bytes of frame f.
Into(f, n, t) ==
  /\ last.frame = f /\ ~astray
  /\ \/ t = 1 /\ g_rcvState = "seqNo"
     \/ t = 2 /\ g_rcvState = "expLen"
     \/ /\ t >= 3 /\ g_rcvState = "payload" /\ g_expLen = n % BYTE /\ Len(g_buff) = t - 3
        /\ \A k \in 1..Len(g_buff) : g_buff[k] = Payload(f)[k]

\* Frame f need not be received.
Excused(f) == f \in split \/ f \in swallowed \/ ~Fits(f)

\* Not all of frame f has been taken.  If any has, the parser is as far into
\* it, unless it need not be.
OnItsWay(f, n, p) ==
  /\ n \in Lengths(f) /\ p \in Int /\ p + n + 3 >= 1 /\ p <= Len(channel)
  /\ Placed(f, n, p)
  /\ p >= 1 => Free(p)
  /\ p < 1 => Into(f, n, 1 - p) \/ Excused(f)

\* Frame f has been taken.
Taken(f) ==
  /\ ~Sending(f) /\ \A i \in 1..Len(channel) : channel[i].frame # f
  /\ ~Excused(f) => \E k \in 1..Len(got) : got[k] = f

Followed ==
  \A f \in Msgs \ mixed :
    Started(f) => Taken(f) \/ \E n \in Nat, p \in Int : OnItsWay(f, n, p)

\* Bytes that read as an STX and begin no frame are sent with a frame that is
\* mixed up or too long only; without one the parser never goes astray.
Spoilt == mixed # {} \/ Overlong # {}
Clean ==
  ~Spoilt =>
    /\ ~astray /\ swallowed = {}
    /\ \A i \in 1..Len(channel) : channel[i].val = STX => channel[i].of = FIRST

Flow ==
  /\ Typed /\ ClockInv /\ LineOK /\ Collected /\ TimedOut /\ BufferOK
  /\ FramesOK /\ Followed /\ Clean

-----------------------------------------------------------------------------
(* Lemmas on the line *)

\* Bytes of the line, as far as they matter here.
LEMMA WireFields ==
  ASSUME channel \in Seq(Wire), NEW i \in 1..Len(channel)
  PROVE  channel[i].val \in Nat /\ channel[i].frame \in Msgs
         /\ channel[i].of \in Nat \X Nat
  <1>1. channel[i] \in Wire
    OBVIOUS
  <1> QED BY <1>1 DEF Wire

\* The phone's part of the state, when the node takes a step.
LEMMA PhoneSame ==
  UNCHANGED phoneVars =>
    /\ UNCHANGED <<now, timeset, timeout, elapsed>>
    /\ UNCHANGED <<g_rcvState, g_expLen, g_buff, got, split, last, astray, swallowed>>
    /\ Progress' = Progress
  BY DEF phoneVars, clockVars, Progress

\* The line only grows, at its end, in a step of the node.
Grown ==
  /\ UNCHANGED phoneVars
  /\ Len(channel') >= Len(channel)
  /\ \A i \in 1..Len(channel) : channel'[i] = channel[i]

LEMMA ProgressType ==
  ASSUME Collected
  PROVE  Progress \in Nat /\ (g_rcvState # "idle" => Progress >= 1)
  BY DEF Progress, Collected

LEMMA ProgressNext ==
  ASSUME Collected'
  PROVE  Progress' \in Nat /\ (g_rcvState' # "idle" => Progress' >= 1)
  BY DEF Progress, Collected

\* What the parses are then.
LEMMA GrownParses ==
  ASSUME Typed, Collected, Grown, channel' \in Seq(Wire), NEW j \in Int
  PROVE  /\ Parse(j)' /\ j <= Len(channel) => Parse(j)
         /\ Parse(j)' /\ j > Len(channel) => j <= Len(channel') /\ channel'[j].of = FIRST
         /\ j + 2 <= Len(channel) => End(j)' = End(j)
  <1>1. /\ Len(channel) \in Nat /\ Len(channel') \in Nat
        /\ Len(channel') >= Len(channel)
        /\ \A i \in 1..Len(channel) : channel'[i] = channel[i]
        /\ g_rcvState' = g_rcvState /\ g_expLen' = g_expLen /\ Progress' = Progress
        /\ astray' = astray
    BY PhoneSame DEF Grown, Typed, WiresOK
  <1>2. g_rcvState # "idle" => 1 - Progress <= 0
    BY ProgressType
  <1>3. ASSUME Parse(j)', j <= Len(channel) PROVE Parse(j)
    BY <1>1, <1>3 DEF Parse
  <1>4. ASSUME Parse(j)', j > Len(channel)
        PROVE  j <= Len(channel') /\ channel'[j].of = FIRST
    BY <1>1, <1>2, <1>4 DEF Parse
  <1>5. ASSUME j + 2 <= Len(channel) PROVE End(j)' = End(j)
    <2>1. CASE j + 2 >= 1
      <3>1. channel'[j + 2] = channel[j + 2]
        BY <1>1, <1>5, <2>1
      <3> QED BY <2>1, <3>1 DEF End
    <2>2. CASE ~(j + 2 >= 1)
      BY <1>1, <2>2 DEF End
    <2> QED BY <2>1, <2>2
  <1> QED BY <1>3, <1>4, <1>5

\* A byte taken, by any of the five.
Shorter ==
  /\ Len(channel') = Len(channel) - 1
  /\ \A i \in 1..Len(channel') : channel'[i] = channel[i + 1]

LEMMA TakeShorter ==
  ASSUME Typed, NEW s, Take(s)
  PROVE  /\ Len(channel) >= 1 /\ Shorter /\ channel[1] \in Wire
         /\ channel' \in Seq(Wire) /\ Byte = channel[1].val
         /\ last' = channel[1]
         /\ Head(channel) = channel[1] /\ swallowed \subseteq swallowed'
         /\ UNCHANGED <<jsonBuff, threadVars, samples, mixed, split>>
  <1>1. channel \in Seq(Wire) /\ channel # <<>> /\ channel' = Tail(channel)
    BY DEF Typed, WiresOK, Take
  <1>2. Len(channel) >= 1 /\ Shorter /\ channel' \in Seq(Wire)
    BY <1>1 DEF Shorter
  <1>3. Head(channel) = channel[1] /\ channel[1] \in Wire
    BY <1>1
  <1> QED BY <1>2, <1>3 DEF Take, Byte

\* What a parse is when it has gone on by a byte: the parser's own if it goes
\* on, and every other one.
GoesOn ==
  \/ g_rcvState' = "idle" \/ astray'
  \/ /\ g_rcvState' # "idle" /\ ~astray'
     /\ Parse(2 - Progress')
     /\ 4 - Progress' < 1 => g_expLen' = g_expLen
     /\ 4 - Progress' = 1 => g_expLen' = channel[1].val

\* The step of the parser moves every parse by one.
LEMMA ShorterParses ==
  ASSUME Typed, Collected, Shorter, Len(channel) >= 1, channel' \in Seq(Wire),
         Collected', GoesOn, NEW j \in Int
  PROVE  /\ Parse(j)' => Parse(j + 1)
         /\ Parse(j)' /\ j + 2 <= Len(channel') => End(j)' = End(j + 1) - 1
  <1>1. /\ Len(channel) \in Nat /\ Len(channel') = Len(channel) - 1
        /\ \A i \in 1..Len(channel') : channel'[i] = channel[i + 1]
    BY DEF Shorter, Typed, WiresOK
  <1>2. ASSUME j \in 1..Len(channel'), channel'[j].of = FIRST PROVE Parse(j + 1)
    BY <1>1, <1>2 DEF Parse
  <1>3. ASSUME g_rcvState' # "idle", ~astray', j = 1 - Progress' PROVE Parse(j + 1)
    <2>1. j + 1 = 2 - Progress'
      <3>1. Progress' \in Nat
        BY ProgressNext
      <3> QED BY <1>3, <3>1
    <2> QED BY <1>3, <2>1 DEF GoesOn
  <1>4. Parse(j)' => Parse(j + 1)
    BY <1>2, <1>3 DEF Parse
  <1>5. ASSUME Parse(j)', j + 2 <= Len(channel') PROVE End(j)' = End(j + 1) - 1
    <2>1. CASE j + 2 >= 1
      <3>1. channel'[j + 2] = channel[j + 3] /\ j + 3 \in 1..Len(channel)
        BY <1>1, <1>5, <2>1
      <3>2. channel[j + 3].val \in Nat
        BY <3>1, WireFields DEF Typed, WiresOK
      <3>3. End(j)' = j + 3 + channel[j + 3].val
        BY <2>1, <3>1 DEF End
      <3>4. End(j + 1) = j + 4 + channel[j + 3].val
        BY <2>1, <3>2 DEF End
      <3> QED BY <3>2, <3>3, <3>4
    <2>2. CASE ~(j + 2 >= 1)
      <3>1. g_rcvState' # "idle" /\ ~astray' /\ j = 1 - Progress' /\ Progress' \in Nat
        BY <1>1, <1>5, <2>2, ProgressNext DEF Parse
      <3>2. End(j)' = j + 3 + g_expLen' /\ g_expLen \in Nat
        BY <2>2 DEF End, Typed, PhoneOK
      <3>3. CASE j + 3 >= 1
        <4>1. j + 3 = 1
          BY <2>2, <3>3
        <4>2. 4 - Progress' = 1
          <5>1. \A q \in Nat : j = 1 - q => 4 - q = 1
            BY <4>1
          <5> QED BY <3>1, <5>1
        <4>3. g_expLen' = channel[1].val
          BY <3>1, <4>2 DEF GoesOn
        <4>4. channel[1].val \in Nat
          BY WireFields DEF Typed, WiresOK
        <4>5. End(j + 1) = j + 4 + channel[1].val
          BY <4>1, <4>4 DEF End
        <4> QED BY <3>2, <4>3, <4>4, <4>5
      <3>4. CASE ~(j + 3 >= 1)
        <4>0. 4 - Progress' < 1
          <5>1. \A q \in Nat : j = 1 - q => 4 - q < 1
            BY <3>4
          <5> QED BY <3>1, <5>1
        <4>1. g_expLen' = g_expLen
          BY <3>1, <4>0 DEF GoesOn
        <4>2. End(j + 1) = j + 4 + g_expLen
          BY <3>4, <3>2 DEF End
        <4> QED BY <3>2, <4>1, <4>2
      <3> QED BY <3>3, <3>4
    <2> QED BY <2>1, <2>2
  <1> QED BY <1>4, <1>5

LEMMA EndType ==
  ASSUME Typed, NEW j \in Int, j + 2 <= Len(channel)
  PROVE  End(j) \in Int
  <1>1. CASE j + 2 >= 1
    <2>1. j + 2 \in 1..Len(channel)
      BY <1>1 DEF Typed, WiresOK
    <2>2. channel[j + 2].val \in Nat
      BY <2>1, WireFields DEF Typed, WiresOK
    <2> QED BY <1>1, <2>2 DEF End
  <1>2. CASE ~(j + 2 >= 1)
    BY <1>2 DEF End, Typed, PhoneOK
  <1> QED BY <1>1, <1>2

LEMMA RemainingType == Typed => Remaining \in Nat
  <1> SUFFICES ASSUME Typed PROVE Remaining \in Nat
    OBVIOUS
  <1>1. len \in Nat /\ out \in Nat /\ out <= len + 4
    BY FrameAssumption DEF Typed, ThreadOK
  <1> QED BY <1>1 DEF Remaining

\* The parser's steps: a parse of its own that goes on is one it was in, or
\* begins with the byte.
Takes == RcvIdle \/ RcvSeqNo \/ RcvExpLen \/ RcvPayload \/ RcvEtx

LEMMA TakesTake == Takes => \E s \in States : Take(s)
  BY DEF Takes, RcvIdle, RcvSeqNo, RcvExpLen, RcvPayload, RcvEtx, States

LEMMA TakesGoesOn ==
  ASSUME Typed, Collected, Takes
  PROVE  GoesOn
  <1> SUFFICES ASSUME ~astray' PROVE GoesOn
    BY DEF GoesOn
  <1>0. ~RcvIdle => ~astray
    BY DEF Takes, RcvSeqNo, RcvExpLen, RcvPayload, RcvEtx, Take
  <1>1. PICK s \in States : Take(s)
    BY TakesTake
  <1>2. /\ Len(channel) >= 1 /\ Byte = channel[1].val /\ Len(channel) \in Nat
        /\ Head(channel) = channel[1]
    BY <1>1, TakeShorter DEF Typed, WiresOK
  <1>3. CASE RcvIdle
    <2>1. CASE Byte = STX
      <3>1. g_rcvState' = "seqNo" /\ Progress' = 1
        BY <1>3, <2>1 DEF RcvIdle, Progress
      <3>2. channel[1].of = FIRST
        <4>1. astray' = (Byte = STX /\ Head(channel).of # FIRST)
          BY <1>3 DEF RcvIdle, Take
        <4> QED BY <1>2, <2>1, <4>1
      <3>3. Parse(1)
        BY <1>2, <3>2 DEF Parse
      <3> QED BY <2>1, <3>1, <3>3 DEF GoesOn
    <2>2. CASE Byte # STX
      BY <1>3, <2>2 DEF RcvIdle, GoesOn
    <2> QED BY <2>1, <2>2
  <1>4. CASE RcvSeqNo
    <2>1. g_rcvState = "seqNo" /\ Progress = 1 /\ g_rcvState' = "expLen" /\ Progress' = 2
          /\ ~astray
      BY <1>0, <1>4 DEF RcvSeqNo, Take, Progress
    <2>2. Parse(0)
      BY <2>1 DEF Parse
    <2> QED BY <2>1, <2>2 DEF GoesOn
  <1>5. CASE RcvExpLen
    <2>1. CASE Byte # 0
      <3>1. g_rcvState = "expLen" /\ Progress = 2 /\ g_rcvState' = "payload"
            /\ g_expLen' = Byte /\ g_buff' = <<>> /\ ~astray
        BY <1>0, <1>5, <2>1 DEF RcvExpLen, Take, Progress
      <3>2. Progress' = 3
        BY <3>1 DEF Progress
      <3>3. Parse(0 - 1)
        BY <3>1 DEF Parse
      <3> QED BY <1>2, <3>1, <3>2, <3>3 DEF GoesOn
    <2>2. CASE Byte = 0
      BY <1>5, <2>2 DEF RcvExpLen, GoesOn
    <2> QED BY <2>1, <2>2
  <1>6. CASE RcvPayload
    <2>1. g_rcvState = "payload" /\ g_rcvState' = "payload" /\ g_expLen' = g_expLen
          /\ g_buff' = Append(g_buff, Head(channel).of) /\ ~astray
      BY <1>0, <1>6 DEF RcvPayload, Take
    <2>2. Len(g_buff) \in Nat /\ Len(g_buff') = Len(g_buff) + 1
      BY <2>1 DEF Collected
    <2>3. Progress = 3 + Len(g_buff) /\ Progress' = 4 + Len(g_buff)
      BY <2>1, <2>2 DEF Progress
    <2>4. Parse(1 - Progress) /\ 2 - Progress' = 1 - Progress
      BY <2>1, <2>2, <2>3 DEF Parse
    <2>5. 4 - Progress' # 1
      BY <2>2, <2>3
    <2> QED BY <2>1, <2>4, <2>5 DEF GoesOn
  <1>7. CASE RcvEtx
    BY <1>7 DEF RcvEtx, GoesOn
  <1> QED BY <1>3, <1>4, <1>5, <1>6, <1>7 DEF Takes

LEMMA MessageType ==
  ASSUME Typed, channel # <<>>
  PROVE  Message \in Int
  <1>1. Head(channel) \in Wire /\ Msgs \subseteq Nat
    BY MsgType DEF Typed, WiresOK
  <1>2. PICK f \in Nat : f = Head(channel).frame
    BY <1>1 DEF Wire
  <1>3. CASE \E m \in Msgs : g_buff = TextOf(m)
    <2>1. Message \in Msgs
      BY <1>3 DEF Message
    <2> QED BY <1>1, <2>1
  <1>4. CASE ~\E m \in Msgs : g_buff = TextOf(m)
    <2>1. Message = IF astray THEN 0 ELSE -f
      BY <1>2, <1>4 DEF Message
    <2>2. -f \in Int
      OBVIOUS
    <2> QED BY <2>1, <2>2
  <1> QED BY <1>3, <1>4

LEMMA TakesCollected ==
  ASSUME Typed, Collected, Takes
  PROVE  Collected'
  <1>1. PICK s \in States : Take(s)
    BY TakesTake
  <1>2. channel # <<>> /\ Head(channel) \in Wire
    BY <1>1 DEF Take, Typed, WiresOK
  <1>3. Head(channel).of \in Nat \X Nat
    BY <1>2 DEF Wire
  <1>4. CASE RcvIdle
    BY <1>4 DEF RcvIdle, Collected
  <1>5. CASE RcvSeqNo
    BY <1>5 DEF RcvSeqNo, Collected
  <1>6. CASE RcvExpLen
    <2>1. got' = got /\ (g_buff' = <<>> \/ (g_buff' = g_buff /\ g_rcvState' = "idle"))
      BY <1>6 DEF RcvExpLen
    <2>2. g_expLen' \in Nat
      BY <1>6, PhoneTyped DEF Phone, Typed, PhoneOK
    <2>3. g_buff' \in Seq(Nat \X Nat) /\ (g_buff' = <<>> => Len(g_buff') = 0)
      <3>1. \A S : <<>> \in Seq(S) /\ Len(<<>>) = 0
        OBVIOUS
      <3>2. g_buff \in Seq(Nat \X Nat)
        BY DEF Collected
      <3> QED BY <2>1, <3>1, <3>2
    <2>4. got' \in Seq(Int)
      BY <2>1 DEF Collected
    <2> QED BY <2>1, <2>2, <2>3, <2>4 DEF Collected
  <1>7. CASE RcvPayload
    <2>1. Len(g_buff) < g_expLen /\ g_buff' = Append(g_buff, Head(channel).of)
          /\ g_expLen' = g_expLen /\ got' = got
      BY <1>7 DEF RcvPayload
    <2>2. g_buff' \in Seq(Nat \X Nat) /\ Len(g_buff') = Len(g_buff) + 1
          /\ Len(g_buff) \in Nat /\ g_expLen \in Nat
      BY <1>3, <2>1 DEF Collected, Typed, PhoneOK
    <2> QED BY <2>1, <2>2 DEF Collected
  <1>8. CASE RcvEtx
    <2>1. g_rcvState' = "idle" /\ g_buff' = g_buff
          /\ (got' = got \/ got' = Append(got, Message))
      BY <1>8 DEF RcvEtx
    <2>2. got' \in Seq(Int)
      <3>1. \A S : \A x \in S, q \in Seq(S) : Append(q, x) \in Seq(S)
        OBVIOUS
      <3>2. got \in Seq(Int)
        BY DEF Collected
      <3> QED BY <1>2, <2>1, <3>1, <3>2, MessageType
    <2> QED BY <2>1, <2>2 DEF Collected
  <1> QED BY <1>4, <1>5, <1>6, <1>7, <1>8 DEF Takes

\* Parses end where they did, as seen from the channel's first byte.
LEMMA TakesLine ==
  ASSUME Typed, Collected, LineOK, Takes
  PROVE  LineOK'
  <1>1. PICK s \in States : Take(s)
    BY TakesTake
  <1>2. /\ Len(channel) >= 1 /\ Shorter /\ channel' \in Seq(Wire)
        /\ UNCHANGED <<jsonBuff, threadVars, samples, mixed, split>>
    BY <1>1, TakeShorter
  <1>3. Len(channel) \in Nat /\ Len(channel') = Len(channel) - 1 /\ Len(channel') \in Nat
    BY <1>2 DEF Typed, WiresOK, Shorter
  <1>4. Remaining' = Remaining /\ pc' = pc /\ out' = out
    BY <1>2 DEF threadVars, Remaining, AmidFrame
  <1>5. Remaining \in Nat /\ out \in Nat
    BY RemainingType DEF Typed, ThreadOK
  <1> SUFFICES ASSUME NEW j \in Int, Parse(j)'
               PROVE  IF j + 2 <= Len(channel') THEN End(j)' <= Len(channel') + Remaining'
                      ELSE pc' = "send" /\ out' = Len(channel') - j + 1
    BY DEF LineOK
  <1>6. /\ Parse(j + 1)
        /\ j + 2 <= Len(channel') => End(j)' = End(j + 1) - 1
    BY <1>2, TakesGoesOn, TakesCollected, ShorterParses
  <1>7. j + 1 \in Int /\ (j + 3 <= Len(channel) => End(j + 1) \in Int)
    <2>1. j + 1 \in Int /\ (j + 3 <= Len(channel) => (j + 1) + 2 <= Len(channel))
      BY <1>3
    <2> QED BY <2>1, EndType
  <1>8. IF j + 3 <= Len(channel) THEN End(j + 1) <= Len(channel) + Remaining
        ELSE pc = "send" /\ out = Len(channel) - (j + 1) + 1
    BY <1>6, <1>7 DEF LineOK
  <1>9. CASE j + 2 <= Len(channel')
    <2>1. End(j + 1) <= Len(channel) + Remaining /\ End(j)' = End(j + 1) - 1
      BY <1>3, <1>6, <1>8, <1>9
    <2>2. End(j)' <= Len(channel') + Remaining
      BY <1>3, <1>5, <1>7, <1>9, <2>1
    <2> QED BY <1>4, <1>9, <2>2
  <1>10. CASE ~(j + 2 <= Len(channel'))
    <2>1. pc = "send" /\ out = Len(channel) - (j + 1) + 1
      BY <1>3, <1>8, <1>10
    <2>2. out = Len(channel') - j + 1
      BY <1>3, <1>5, <2>1
    <2> QED BY <1>4, <1>10, <2>1, <2>2
  <1> QED BY <1>9, <1>10

LEMMA TakesFree ==
  ASSUME Typed, Collected, Takes, NEW p \in Int, p <= Len(channel), Free(p)
  PROVE  Free(p - 1)'
  <1>1. PICK s \in States : Take(s)
    BY TakesTake
  <1>2. /\ Len(channel) >= 1 /\ Shorter /\ channel' \in Seq(Wire)
    BY <1>1, TakeShorter
  <1>3. Len(channel) \in Nat /\ Len(channel') = Len(channel) - 1
    BY <1>2 DEF Typed, WiresOK, Shorter
  <1> SUFFICES ASSUME NEW j \in Int, Parse(j)', j < p - 1
               PROVE  j + 2 < p - 1 /\ End(j)' < p - 1
    BY DEF Free
  <1>4. /\ Parse(j + 1)
        /\ j + 2 <= Len(channel') => End(j)' = End(j + 1) - 1
    BY <1>2, TakesGoesOn, TakesCollected, ShorterParses
  <1>5. j + 1 \in Int /\ j + 1 < p
    OBVIOUS
  <1>6. (j + 1) + 2 < p /\ End(j + 1) < p
    BY <1>4, <1>5 DEF Free
  <1>8. End(j + 1) \in Int
    BY <1>3, <1>5, <1>6, EndType
  <1>7. j + 2 < p - 1 /\ j + 2 <= Len(channel')
    BY <1>3, <1>6
  <1> QED BY <1>4, <1>6, <1>7, <1>8

-----------------------------------------------------------------------------
(* What the node sends *)

LEMMA Sizes ==
  /\ JSON_BUFFER_SIZE_MAX \in Nat /\ JSON_BUFFER_SIZE_MAX > ETX + 1
  /\ SamplerLen \in Nat /\ SamplerLen > ETX /\ SamplerLen < JSON_BUFFER_SIZE_MAX
  /\ Text \in Nat /\ Text > ETX
  /\ MaxBehind \in Nat /\ JSON_BUFFER_SIZE_MAX <= BYTE /\ BYTE \in Nat
  /\ ETX = 3 /\ STX = 2 /\ SEQ_NO = 1
  /\ \A m \in ThreadMsgs : MsgLen[m] \in Nat /\ MsgLen[m] > ETX /\ TextLen(m) = MsgLen[m]
  BY FrameAssumption DEF ETX, STX, SEQ_NO, ThreadMsgs, TextLen

\* First bytes of texts.
Beginnings == {<<m, 1>> : m \in Msgs}

\* What tells the bytes of a text from those around it.
LEMMA Origins ==
  /\ \A b \in Payloads : b # FIRST /\ b # SEQNO /\ b # LENGTH
  /\ \A b \in Beginnings : b \notin {NUL, FOREIGN, FIRST, SEQNO, LENGTH, END}
  /\ FIRST # SEQNO /\ FIRST # LENGTH /\ SEQNO # LENGTH
  /\ END \notin {FIRST, SEQNO, LENGTH}
  <1>1. 0 \notin Msgs
    BY MsgType
  <1> QED BY <1>1 DEF Payloads, Beginnings, NUL, FOREIGN, FIRST, SEQNO, LENGTH, END

LEMMA PayloadType ==
  ASSUME NEW f \in Msgs, NEW k \in 1..(JSON_BUFFER_SIZE_MAX + MaxBehind)
  PROVE  Payload(f)[k] \in Payloads
  <1>1. k \in Nat
    BY Sizes
  <1> QED BY <1>1 DEF Payload, Payloads

\* Where a byte of a frame is tells what it is, and what it reads as unless it
\* lay behind jsonBuff.
LEMMA FrameByteVal ==
  ASSUME NEW f, NEW n \in Nat, n > ETX, NEW b, NEW i \in 1..(n + 4), NEW v,
         \A k \in 1..n : b[k] \in Payloads
  PROVE  /\ FrameByte(f, n, b, i, v).frame = f
         /\ FrameByte(f, n, b, i, v).of = FIRST <=> i = 1
         /\ i = 1 => FrameByte(f, n, b, i, v).val = STX
         /\ i = 2 => FrameByte(f, n, b, i, v).val = SEQ_NO
         /\ i = 3 => FrameByte(f, n, b, i, v).val = n % BYTE
         /\ i = n + 4 => FrameByte(f, n, b, i, v).val = ETX
         /\ i > 3 /\ i < n + 4 => FrameByte(f, n, b, i, v).of = b[i - 3]
         /\ i > 3 /\ i < n + 4 /\ b[i - 3] # FOREIGN =>
              FrameByte(f, n, b, i, v).val \in {0, Text}
  <1>0. /\ \A w, x : Control(w, x, f).val = w /\ Control(w, x, f).frame = f
                     /\ Control(w, x, f).of = x
    BY DEF Control
  <1>1. \A c : /\ c # FOREIGN => TextByte(c, f, v).val \in {0, Text}
               /\ TextByte(c, f, v).frame = f /\ TextByte(c, f, v).of = c
    BY <1>0 DEF TextByte
  <1>2. CASE i = 1
    BY <1>0, <1>2, Sizes DEF FrameByte
  <1>3. CASE i = 2
    BY <1>0, <1>3, Sizes, Origins DEF FrameByte
  <1>4. CASE i = 3
    BY <1>0, <1>4, Sizes, Origins DEF FrameByte
  <1>5. CASE i = n + 4
    BY <1>0, <1>5, Sizes, Origins DEF FrameByte
  <1>6. CASE i > 3 /\ i < n + 4
    <2>1. FrameByte(f, n, b, i, v) = TextByte(b[i - 3], f, v)
      BY <1>6 DEF FrameByte
    <2>2. b[i - 3] # FIRST
      <3>1. i - 3 \in 1..n
        BY <1>6
      <3> QED BY <3>1, Origins
    <2> QED BY <1>1, <1>6, <2>1, <2>2, Sizes
  <1> QED BY <1>2, <1>3, <1>4, <1>5, <1>6, Sizes

\* What memory behind jsonBuff reads as can be told from the byte.
LEMMA ByteValue ==
  ASSUME NEW f, NEW n, NEW b, NEW i, NEW v
  PROVE  FrameByte(f, n, b, i, v) = FrameByte(f, n, b, i, FrameByte(f, n, b, i, v).val)
  <1>1. CASE i = 1 \/ i = 2 \/ i = 3 \/ i = n + 4
    BY <1>1 DEF FrameByte
  <1>2. CASE ~(i = 1 \/ i = 2 \/ i = 3 \/ i = n + 4)
    <2>1. \A w : FrameByte(f, n, b, i, w) = TextByte(b[i - 3], f, w)
      BY <1>2 DEF FrameByte
    <2>2. \A c : TextByte(c, f, v) = TextByte(c, f, TextByte(c, f, v).val)
      BY DEF TextByte, Control
    <2> QED BY <2>1, <2>2
  <1> QED BY <1>1, <1>2

\* A byte sent by the thread.
LEMMA ByteSent ==
  ASSUME Typed, BufferOK, WriteByte
  PROVE  /\ Len(channel') = Len(channel) + 1 /\ Grown /\ channel' \in Seq(Wire)
         /\ channel'[Len(channel) + 1] =
              FrameByte(cur, len, BuffBytes, out + 1, channel'[Len(channel) + 1].val)
         /\ len \in Nat /\ len > ETX /\ out \in Nat /\ out < len + 4
         /\ channel'[Len(channel) + 1].frame = cur
         /\ channel'[Len(channel) + 1].of = FIRST <=> out = 0
         /\ out = 2 => channel'[Len(channel) + 1].val = len % BYTE
         /\ cur \in ThreadMsgs /\ pc = "send"
  <1>1. /\ len \in Nat /\ len > ETX /\ out \in Nat /\ out < len + 4
        /\ len <= JSON_BUFFER_SIZE_MAX + MaxBehind
        /\ cur \in ThreadMsgs /\ pc = "send"
    BY Sizes DEF WriteByte, Typed, ThreadOK, BufferOK
  <1>2. channel \in Seq(Wire) /\ channel' \in Seq(Wire)
    BY WriteTyped DEF Typed, WiresOK
  <1>3. UNCHANGED phoneVars /\
        \E v : channel' = Append(channel, FrameByte(cur, len, BuffBytes, out + 1, v))
    BY DEF WriteByte
  <1>a. PICK v : channel' = Append(channel, FrameByte(cur, len, BuffBytes, out + 1, v))
    BY <1>3
  <1>4. /\ Len(channel') = Len(channel) + 1
        /\ channel'[Len(channel) + 1] = FrameByte(cur, len, BuffBytes, out + 1, v)
        /\ \A i \in 1..Len(channel) : channel'[i] = channel[i]
    <2>1. \A q \in Seq(Wire) : \A x :
            /\ Len(Append(q, x)) = Len(q) + 1 /\ Append(q, x)[Len(q) + 1] = x
            /\ \A i \in 1..Len(q) : Append(q, x)[i] = q[i]
      OBVIOUS
    <2> QED BY <1>2, <1>a, <2>1
  <1>5. Grown
    BY <1>2, <1>3, <1>4 DEF Grown
  <1>6. out + 1 \in 1..(len + 4) /\ (out + 1 = 1 <=> out = 0) /\ (out + 1 = 3 <=> out = 2)
    BY <1>1
  <1>b. \A k \in 1..len : BuffBytes[k] \in Payloads
    <2>1. \A k \in 1..len : k \in 1..(JSON_BUFFER_SIZE_MAX + MaxBehind)
      BY <1>1, Sizes
    <2> QED BY <2>1, BuffBytesType
  <1>7. /\ channel'[Len(channel) + 1].frame = cur
        /\ channel'[Len(channel) + 1].of = FIRST <=> out = 0
        /\ out = 2 => channel'[Len(channel) + 1].val = len % BYTE
    BY <1>1, <1>4, <1>6, <1>b, FrameByteVal
  <1>8. channel'[Len(channel) + 1] =
          FrameByte(cur, len, BuffBytes, out + 1, channel'[Len(channel) + 1].val)
    BY <1>4, ByteValue
  <1> QED BY <1>1, <1>2, <1>4, <1>5, <1>7, <1>8

\* The sampler's frame.
LEMMA FrameSent ==
  ASSUME Typed, Sampler, NEW m, m = Len(MsgLen) + (samples + 1)
  PROVE  /\ Len(channel') = Len(channel) + SamplerLen + 4 /\ Grown /\ channel' \in Seq(Wire)
         /\ \A i \in 1..(SamplerLen + 4) :
              channel'[Len(channel) + i] = FrameByte(m, SamplerLen, TextOf(m), i, 0)
         /\ m \in Msgs \ ThreadMsgs /\ TextOf(m) = [k \in 1..SamplerLen |-> <<m, k>>]
         /\ jsonBuff' = TextOf(m) /\ samples' = samples + 1
         /\ mixed' = mixed \cup (IF pc = "idle" THEN {} ELSE {cur})
                           \cup (IF AmidFrame THEN {m} ELSE {})
         /\ UNCHANGED <<threadVars, phoneVars>>
  <1> DEFINE text == TextOf(m)
             frame == [i \in 1..(SamplerLen + 4) |->
                         FrameByte(m, SamplerLen, text, i, 0)]
  <1>1. /\ jsonBuff' = text /\ channel' = channel \o frame
        /\ mixed' = mixed \cup (IF pc = "idle" THEN {} ELSE {cur})
                          \cup (IF AmidFrame THEN {m} ELSE {})
        /\ samples' = samples + 1 /\ samples < MaxSamples
        /\ UNCHANGED <<threadVars, phoneVars>>
    BY DEF Sampler
  <1>2. samples \in Nat
    BY FrameAssumption DEF Typed, WiresOK
  <1>3. m \in Msgs /\ TextLen(m) = SamplerLen
    BY <1>1, <1>2, SamplerMsg
  <1>4. m \notin ThreadMsgs
    BY <1>2, MsgType DEF ThreadMsgs
  <1>5. text = [k \in 1..SamplerLen |-> <<m, k>>]
    BY <1>3 DEF TextOf
  <1>6. channel \in Seq(Wire) /\ channel' \in Seq(Wire)
    BY SamplerTyped DEF Typed, WiresOK
  <1> DEFINE F == {FrameByte(m, SamplerLen, text, i, 0) : i \in 1..(SamplerLen + 4)}
  <1>7. frame \in Seq(F) /\ Len(frame) = SamplerLen + 4
    <2>1. \A i \in 1..(SamplerLen + 4) : FrameByte(m, SamplerLen, text, i, 0) \in F
      OBVIOUS
    <2>2. SamplerLen + 4 \in Nat
      BY Sizes
    <2> HIDE DEF F, text
    <2> QED BY <2>1, <2>2
  <1>8. /\ Len(channel') = Len(channel) + SamplerLen + 4
        /\ \A i \in 1..(SamplerLen + 4) : channel'[Len(channel) + i] = frame[i]
        /\ \A i \in 1..Len(channel) : channel'[i] = channel[i]
    <2> HIDE DEF frame, F, text
    <2>1. channel' = channel \o frame /\ Len(channel) \in Nat
      BY <1>1, <1>6
    <2>2. \A q \in Seq(Wire), r \in Seq(F) :
            /\ Len(q \o r) = Len(q) + Len(r)
            /\ \A i \in 1..Len(q) : (q \o r)[i] = q[i]
            /\ \A i \in 1..Len(r) : (q \o r)[Len(q) + i] = r[i]
      OBVIOUS
    <2>3. /\ Len(channel \o frame) = Len(channel) + Len(frame)
          /\ \A i \in 1..Len(channel) : (channel \o frame)[i] = channel[i]
          /\ \A i \in 1..Len(frame) : (channel \o frame)[Len(channel) + i] = frame[i]
      <3>1. channel \in Seq(Wire) /\ frame \in Seq(F)
        BY <1>6, <1>7
      <3> QED BY <3>1, <2>2, Zenon
    <2> QED BY <1>7, <2>1, <2>3, Sizes
  <1>9. Grown
    BY <1>1, <1>6, <1>8, Sizes DEF Grown
  <1>10. \A i \in 1..(SamplerLen + 4) :
           channel'[Len(channel) + i] = FrameByte(m, SamplerLen, text, i, 0)
    BY <1>8
  <1> QED BY <1>1, <1>3, <1>4, <1>5, <1>6, <1>8, <1>9, <1>10

\* Its text never comes from behind jsonBuff.
LEMMA SamplerText ==
  ASSUME Typed, Sampler, NEW m, m = Len(MsgLen) + (samples + 1)
  PROVE  \A k \in 1..SamplerLen : TextOf(m)[k] \in Payloads \ {FOREIGN}
  <1>1. m \in Msgs /\ TextOf(m) = [k \in 1..SamplerLen |-> <<m, k>>]
    BY FrameSent
  <1>2. 0 \notin Msgs /\ m # 0
    BY <1>1, MsgType
  <1>3. \A k \in 1..SamplerLen : <<m, k>> \in Payloads
    BY <1>1, Sizes DEF Payloads
  <1>4. \A k : <<m, k>> # FOREIGN
    BY <1>2 DEF FOREIGN
  <1> QED BY <1>1, <1>3, <1>4

\* The buffer.
LEMMA FormatBuffer ==
  ASSUME Typed, BufferOK, Open \/ Put \/ Send
  PROVE  BufferOK'
  <1>1. CASE Open
    <2>1. /\ pc' = "format" /\ jsonBuff' = <<>> /\ put' = 0
      BY <1>1 DEF Open
    <2>2. Len(jsonBuff') = 0
      BY <2>1
    <2> QED BY <2>1, <2>2, Sizes DEF BufferOK
  <1>2. CASE Put
    <2>1. /\ pc = "format" /\ pc' = "format" /\ put' = put + 1 /\ cur' = cur
          /\ mixed' = mixed
          /\ jsonBuff' = IF Len(jsonBuff) < JSON_BUFFER_SIZE_MAX
                           THEN Append(jsonBuff, <<cur, put + 1>>) ELSE jsonBuff
      BY <1>2 DEF Put
    <2>2. put \in Nat /\ Len(jsonBuff) \in Nat /\ Len(jsonBuff) <= JSON_BUFFER_SIZE_MAX
          /\ jsonBuff \in Seq(Msgs \X Nat) /\ cur \in ThreadMsgs
      BY <2>1, Sizes, MsgType DEF Typed, ThreadOK, BuffOK
    <2>3. CASE Len(jsonBuff) < JSON_BUFFER_SIZE_MAX
      <3>1. /\ Len(jsonBuff') = Len(jsonBuff) + 1
            /\ jsonBuff'[Len(jsonBuff) + 1] = <<cur, put + 1>>
            /\ \A k \in 1..Len(jsonBuff) : jsonBuff'[k] = jsonBuff[k]
        <4>1. \A S : \A q \in Seq(S) : \A x :
                /\ Len(Append(q, x)) = Len(q) + 1 /\ Append(q, x)[Len(q) + 1] = x
                /\ \A i \in 1..Len(q) : Append(q, x)[i] = q[i]
          OBVIOUS
        <4> QED BY <2>1, <2>2, <2>3, <4>1
      <3>2. Len(jsonBuff') > ETX \/ Len(jsonBuff') >= put'
        BY <2>1, <2>2, <3>1, Sizes DEF BufferOK
      <3>3. ASSUME cur \notin mixed
            PROVE  /\ Len(jsonBuff') = IF put' < JSON_BUFFER_SIZE_MAX THEN put'
                                       ELSE JSON_BUFFER_SIZE_MAX
                   /\ \A k \in 1..Len(jsonBuff') : jsonBuff'[k] = <<cur, k>>
        <4>1. Len(jsonBuff) = put /\ \A k \in 1..Len(jsonBuff) : jsonBuff[k] = <<cur, k>>
          BY <2>1, <2>2, <2>3, <3>3, Sizes DEF BufferOK
        <4>2. Len(jsonBuff') = put + 1 /\ put + 1 <= JSON_BUFFER_SIZE_MAX
          BY <2>2, <2>3, <3>1, <4>1, Sizes
        <4>3. ASSUME NEW k \in 1..Len(jsonBuff') PROVE jsonBuff'[k] = <<cur, k>>
          <5>1. k \in 1..Len(jsonBuff) \/ k = put + 1
            BY <2>2, <4>1, <4>2
          <5> QED BY <3>1, <4>1, <5>1
        <4>4. put' = put + 1 /\ JSON_BUFFER_SIZE_MAX \in Nat
          BY <2>1, Sizes
        <4>5. Len(jsonBuff') = IF put' < JSON_BUFFER_SIZE_MAX THEN put'
                               ELSE JSON_BUFFER_SIZE_MAX
          BY <2>2, <4>2, <4>4
        <4> QED BY <4>3, <4>5
      <3> QED BY <2>1, <3>2, <3>3 DEF BufferOK
    <2>4. CASE ~(Len(jsonBuff) < JSON_BUFFER_SIZE_MAX)
      <3>1. jsonBuff' = jsonBuff /\ Len(jsonBuff) = JSON_BUFFER_SIZE_MAX
            /\ Len(jsonBuff) > ETX
        BY <2>1, <2>2, <2>4, Sizes
      <3>2. cur \notin mixed => ~(put + 1 < JSON_BUFFER_SIZE_MAX)
        BY <2>1, <2>2, <3>1, Sizes DEF BufferOK
      <3>3. cur \notin mixed => /\ Len(jsonBuff) = JSON_BUFFER_SIZE_MAX
                               /\ \A k \in 1..Len(jsonBuff) : jsonBuff[k] = <<cur, k>>
        BY <2>1, <3>1 DEF BufferOK
      <3>4. pc' # "send" /\ Len(jsonBuff') > ETX
        BY <2>1, <3>1
      <3>5. cur' \notin mixed' =>
              /\ Len(jsonBuff') = IF put' < JSON_BUFFER_SIZE_MAX THEN put'
                                  ELSE JSON_BUFFER_SIZE_MAX
              /\ \A k \in 1..Len(jsonBuff') : jsonBuff'[k] = <<cur', k>>
        BY <2>1, <3>1, <3>2, <3>3
      <3> QED BY <3>4, <3>5 DEF BufferOK
    <2> QED BY <2>3, <2>4
  <1>3. CASE Send
    <2>1. /\ pc = "format" /\ pc' = "send" /\ put' = put /\ put = MsgLen[cur] /\ cur' = cur
          /\ mixed' = mixed /\ jsonBuff' = jsonBuff /\ len' \in Strlens
      BY <1>3 DEF Send
    <2>2. Len(jsonBuff) \in Nat /\ Len(jsonBuff) <= JSON_BUFFER_SIZE_MAX /\ cur \in ThreadMsgs
      BY <2>1 DEF Typed, ThreadOK, BuffOK
    <2>3. put \in Nat /\ put > ETX /\ TextLen(cur) = put
      BY <2>1, <2>2, Sizes
    <2>4. Len(jsonBuff) > ETX
      BY <2>1, <2>2, <2>3, Sizes DEF BufferOK
    <2>5. len' > ETX
      BY <2>1, <2>2, <2>4, Sizes DEF Strlens
    <2>6. ASSUME cur \notin mixed PROVE len' \in Lengths(cur)
      <3>1. Len(jsonBuff) = IF put < JSON_BUFFER_SIZE_MAX THEN put ELSE JSON_BUFFER_SIZE_MAX
        BY <2>1, <2>6 DEF BufferOK
      <3>2. CASE Fits(cur)
        BY <2>1, <2>3, <3>1, <3>2, Sizes DEF Fits, Lengths, Strlens
      <3>3. CASE ~Fits(cur)
        <4>1. Len(jsonBuff) = JSON_BUFFER_SIZE_MAX
          BY <2>3, <3>1, <3>3, Sizes DEF Fits
        <4>2. len' \in JSON_BUFFER_SIZE_MAX..(JSON_BUFFER_SIZE_MAX + MaxBehind)
          BY <2>1, <4>1, Sizes DEF Strlens
        <4> QED BY <3>3, <4>2 DEF Lengths
      <3> QED BY <3>2, <3>3
    <2>7. Lengths(cur)' = Lengths(cur)
      BY <2>1 DEF Lengths, Fits, TextLen
    <2>8. pc # "idle" /\ cur \notin mixed =>
            /\ Len(jsonBuff) = IF put < JSON_BUFFER_SIZE_MAX THEN put ELSE JSON_BUFFER_SIZE_MAX
            /\ \A k \in 1..Len(jsonBuff) : jsonBuff[k] = <<cur, k>>
      BY DEF BufferOK
    <2> QED BY <2>1, <2>5, <2>6, <2>7, <2>8 DEF BufferOK
  <1> QED BY <1>1, <1>2, <1>3

LEMMA SendBuffer ==
  ASSUME Typed, BufferOK, WriteByte \/ Sampler
  PROVE  BufferOK'
  <1>1. CASE WriteByte
    <2>1. /\ pc = "send" /\ pc' \in {"idle", "send"}
          /\ UNCHANGED <<cur, put, len, jsonBuff, mixed>>
      BY <1>1 DEF WriteByte
    <2>2. Lengths(cur)' = Lengths(cur)
      BY <2>1 DEF Lengths, Fits, TextLen
    <2> QED BY <2>1, <2>2 DEF BufferOK
  <1>2. CASE Sampler
    <2> DEFINE m == Len(MsgLen) + (samples + 1)
    <2>1. /\ jsonBuff' = TextOf(m) /\ TextOf(m) = [k \in 1..SamplerLen |-> <<m, k>>]
          /\ mixed' = mixed \cup (IF pc = "idle" THEN {} ELSE {cur})
                            \cup (IF AmidFrame THEN {m} ELSE {})
          /\ UNCHANGED threadVars
      BY <1>2, FrameSent
    <2>2. Len(jsonBuff') = SamplerLen
      BY <2>1, Sizes
    <2>3. pc # "idle" => cur \in mixed'
      BY <2>1
    <2>4. UNCHANGED <<pc, cur, put, len>>
      BY <2>1 DEF threadVars
    <2> QED BY <2>2, <2>3, <2>4, Sizes DEF BufferOK
  <1> QED BY <1>1, <1>2

-----------------------------------------------------------------------------
(* Where parses end, while the node sends *)

LEMMA ParseBegun ==
  ASSUME Typed, Collected, NEW j \in Int, Parse(j)
  PROVE  j <= Len(channel)
  BY ProgressType DEF Parse, Typed, WiresOK

\* Between frames all parses end on the line.
LEMMA NoneOpen ==
  ASSUME Typed, Collected, LineOK, ~AmidFrame, NEW j \in Int, Parse(j)
  PROVE  j + 2 <= Len(channel) /\ End(j) <= Len(channel)
  <1>1. Len(channel) \in Nat /\ out \in Nat /\ j <= Len(channel)
    BY ParseBegun DEF Typed, WiresOK, ThreadOK
  <1>2. Remaining = 0
    BY DEF Remaining
  <1>3. j + 2 <= Len(channel)
    <2>1. ~(pc = "send" /\ out = Len(channel) - j + 1)
      BY <1>1 DEF AmidFrame
    <2> QED BY <2>1 DEF LineOK
  <1>4. End(j) <= Len(channel) + 0
    BY <1>2, <1>3 DEF LineOK
  <1> QED BY <1>1, <1>3, <1>4, EndType

\* So a frame that begins then begins where no parse reaches.
LEMMA FreeEnd ==
  ASSUME Typed, Collected, LineOK, ~AmidFrame, Grown, channel' \in Seq(Wire),
         NEW p \in Int, p = Len(channel) + 1
  PROVE  Free(p)'
  <1>1. Len(channel) \in Nat
    BY DEF Typed, WiresOK
  <1> DEFINE L == Len(channel)
  <1>2. ASSUME NEW j \in Int, Parse(j)', j < p
        PROVE  j + 2 < p /\ End(j)' < p
    <2>1. j <= L /\ Parse(j)
      BY <1>1, <1>2, GrownParses
    <2>2. j + 2 <= L /\ End(j) <= L
      BY <2>1, NoneOpen
    <2>3. End(j)' = End(j) /\ End(j) \in Int
      BY <2>2, GrownParses, EndType
    <2> QED BY <1>1, <2>2, <2>3
  <1> HIDE DEF L
  <1> QED BY <1>2 DEF Free

\* A frame keeps its place, and stays free, when others are sent.
LEMMA FreeKept ==
  ASSUME Typed, Collected, Grown, channel' \in Seq(Wire),
         NEW p \in Int, p <= Len(channel), Free(p)
  PROVE  Free(p)'
  <1>1. Len(channel) \in Nat
    BY DEF Typed, WiresOK
  <1>2. ASSUME NEW j \in Int, Parse(j)', j < p
        PROVE  j + 2 < p /\ End(j)' < p
    <2>1. j <= Len(channel) /\ Parse(j)
      BY <1>1, <1>2, GrownParses
    <2>2. j + 2 < p /\ End(j) < p
      BY <1>2, <2>1 DEF Free
    <2>3. End(j)' = End(j)
      BY <1>1, <2>2, GrownParses
    <2> QED BY <2>2, <2>3
  <1> QED BY <1>2 DEF Free

\* The line stays in order: formatting sends nothing, ...
LEMMA FormatLine ==
  ASSUME Typed, Collected, LineOK, Open \/ Put \/ Send
  PROVE  LineOK'
  <1>1. /\ channel' = channel /\ UNCHANGED phoneVars /\ pc # "send"
        /\ pc' = "send" => out' = 0
    BY DEF Open, Put, Send
  <1>2. Grown /\ channel' \in Seq(Wire) /\ Len(channel) \in Nat
    BY <1>1 DEF Grown, Typed, WiresOK
  <1>3. ~AmidFrame /\ Remaining' = 0
    BY <1>1 DEF AmidFrame, Remaining
  <1>4. ASSUME NEW j \in Int, Parse(j)'
        PROVE  j + 2 <= Len(channel') /\ End(j)' <= Len(channel') + Remaining'
    <2>1. j <= Len(channel)
      BY <1>1, <1>2, <1>4, GrownParses
    <2>2. j + 2 <= Len(channel) /\ End(j) <= Len(channel)
      BY <1>2, <1>3, <1>4, <2>1, GrownParses, NoneOpen
    <2>3. End(j)' = End(j) /\ End(j) \in Int
      BY <1>2, <2>2, GrownParses, EndType
    <2> QED BY <1>1, <1>2, <1>3, <2>2, <2>3
  <1> QED BY <1>4 DEF LineOK

\* ... a byte makes the frame being sent the longer by what it leaves to send ...
LEMMA WriteLine ==
  ASSUME Typed, Collected, LineOK, BufferOK, WriteByte
  PROVE  LineOK'
  <1> DEFINE L == Len(channel)
  <1>1. /\ Len(channel') = L + 1 /\ Grown /\ channel' \in Seq(Wire)
        /\ len \in Nat /\ len > ETX /\ out \in Nat /\ out < len + 4
        /\ channel'[L + 1].of = FIRST <=> out = 0
        /\ out = 2 => channel'[L + 1].val = len % BYTE
        /\ pc = "send" /\ L \in Nat
    BY ByteSent DEF Typed, WiresOK
  <1>a. PICK q \in Nat : q = len % BYTE /\ q <= len
    BY <1>1, Mod
  <1>2. /\ out' = out + 1 /\ len' = len
        /\ pc' = IF out + 1 = len + 4 THEN "idle" ELSE "send"
    BY DEF WriteByte
  <1>3. Remaining' = len + 4 - (out + 1)
    BY <1>1, <1>2 DEF Remaining, AmidFrame
  <1>4. ASSUME NEW j \in Int, Parse(j)', j <= L, j + 2 <= L
        PROVE  End(j)' <= L + 1 + Remaining'
    <2>1. Parse(j) /\ End(j)' = End(j) /\ End(j) \in Int
      BY <1>1, <1>4, GrownParses, EndType
    <2>2. End(j) <= L + Remaining
      BY <1>4, <2>1 DEF LineOK
    <2>3. CASE AmidFrame
      <3>1. Remaining = len + 4 - out
        BY <2>3 DEF Remaining
      <3> QED BY <1>1, <1>3, <2>1, <2>2, <3>1
    <2>4. CASE ~AmidFrame
      <3>1. Remaining = 0
        BY <2>4 DEF Remaining
      <3> QED BY <1>1, <1>3, <2>1, <2>2, <3>1
    <2> QED BY <2>3, <2>4
  <1>5. ASSUME NEW j \in Int, Parse(j)', j <= L, j + 2 > L
        PROVE  /\ out = L - j + 1
               /\ j + 2 = L + 1 => End(j)' <= L + 1 + Remaining'
    <2>1. Parse(j)
      BY <1>1, <1>5, GrownParses
    <2>2. out = L - j + 1
      BY <1>1, <1>5, <2>1 DEF LineOK
    <2>3. ASSUME j + 2 = L + 1 PROVE End(j)' <= L + 1 + Remaining'
      <3>1. out = 2
        BY <1>1, <2>2, <2>3
      <3>2. End(j)' = j + 3 + q
        BY <1>1, <1>a, <2>3, <3>1 DEF End
      <3> QED BY <1>1, <1>a, <1>3, <2>3, <3>1, <3>2
    <2> QED BY <2>2, <2>3
  <1>6. ASSUME NEW j \in Int, Parse(j)', j > L
        PROVE  out = 0 /\ j = L + 1
    BY <1>1, <1>6, GrownParses
  <1>7. ASSUME NEW j \in Int, Parse(j)'
        PROVE  IF j + 2 <= Len(channel') THEN End(j)' <= Len(channel') + Remaining'
               ELSE pc' = "send" /\ out' = Len(channel') - j + 1
    <2>1. CASE j + 2 <= L
      BY <1>1, <1>4, <1>7, <2>1
    <2>2. CASE j <= L /\ j + 2 = L + 1
      BY <1>1, <1>5, <1>7, <2>2
    <2>3. CASE j <= L /\ j + 2 > L + 1
      <3>1. out = L - j + 1 /\ out + 1 # len + 4
        BY <1>1, <1>5, <1>7, <2>3, Sizes
      <3> QED BY <1>1, <1>2, <2>3, <3>1
    <2>4. CASE j > L
      <3>1. out = 0 /\ j = L + 1 /\ out + 1 # len + 4
        BY <1>1, <1>6, <1>7, <2>4
      <3> QED BY <1>1, <1>2, <3>1
    <2> QED BY <1>1, <2>1, <2>2, <2>3, <2>4
  <1> QED BY <1>7 DEF LineOK

\* ... and the interrupt's frame is there as a whole, between two bytes of
\* another or between two frames.
LEMMA SamplerLine ==
  ASSUME Typed, Collected, LineOK, Sampler
  PROVE  LineOK'
  <1> DEFINE L == Len(channel)
             m == Len(MsgLen) + (samples + 1)
  <1>1. /\ Len(channel') = L + SamplerLen + 4 /\ Grown /\ channel' \in Seq(Wire)
        /\ \A i \in 1..(SamplerLen + 4) :
             channel'[L + i] = FrameByte(m, SamplerLen, TextOf(m), i, 0)
        /\ UNCHANGED threadVars /\ L \in Nat
    BY FrameSent DEF Typed, WiresOK
  <1>a. \A k \in 1..SamplerLen : TextOf(m)[k] \in Payloads
    BY SamplerText
  <1>2. /\ SamplerLen \in Nat /\ SamplerLen > 3
        /\ \A i \in 1..(SamplerLen + 4) :
             /\ channel'[L + i].of = FIRST <=> i = 1
             /\ i = 1 => channel'[L + i].val = 2
             /\ i = 2 => channel'[L + i].val = 1
             /\ i = 3 => channel'[L + i].val = SamplerLen
    <2>1. /\ SamplerLen \in Nat /\ SamplerLen > ETX /\ SamplerLen > 3
          /\ SamplerLen % BYTE = SamplerLen
      BY Sizes, Mod
    <2>2. ASSUME NEW i \in 1..(SamplerLen + 4)
          PROVE  /\ channel'[L + i].of = FIRST <=> i = 1
                 /\ i = 1 => channel'[L + i].val = 2
                 /\ i = 2 => channel'[L + i].val = 1
                 /\ i = 3 => channel'[L + i].val = SamplerLen
      <3>1. channel'[L + i] = FrameByte(m, SamplerLen, TextOf(m), i, 0)
            /\ \A k \in 1..SamplerLen : TextOf(m)[k] \in Payloads
        BY <1>1, <1>a
      <3> HIDE DEF m
      <3> QED BY <2>1, <3>1, FrameByteVal, Sizes
    <2> QED BY <2>1, <2>2
  <1>3. channel'[L + 1].val = 2 /\ channel'[L + 2].val = 1
    <2>1. 1 \in 1..(SamplerLen + 4) /\ 2 \in 1..(SamplerLen + 4)
      BY <1>2
    <2> QED BY <1>2, <2>1
  <1> HIDE DEF m
  <1>4. Remaining' = Remaining /\ Remaining \in Nat /\ pc' = pc /\ out' = out /\ out \in Nat
        /\ len \in Nat /\ (AmidFrame => Remaining = len + 4 - out)
    BY <1>1, RemainingType DEF threadVars, Remaining, AmidFrame, Typed, ThreadOK
  <1>5. ASSUME NEW j \in Int, Parse(j)', j + 2 <= L
        PROVE  End(j)' <= L + SamplerLen + 4 + Remaining
    <2>1. Parse(j) /\ End(j)' = End(j) /\ End(j) \in Int
      BY <1>1, <1>5, GrownParses, EndType
    <2>2. End(j) <= L + Remaining
      BY <1>5, <2>1 DEF LineOK
    <2> QED BY <1>1, <1>2, <1>4, <2>1, <2>2
  <1>6. ASSUME NEW j \in Int, Parse(j)', j <= L, j + 2 > L
        PROVE  End(j)' <= L + SamplerLen + 4 + Remaining
    <2>1. Parse(j)
      BY <1>1, <1>6, GrownParses
    <2>2. j = L \/ j = L - 1
      BY <1>1, <1>6
    <2>3. CASE j = L
      <3>1. j + 2 = L + 2
        BY <1>1, <2>3
      <3>2. End(j)' = j + 3 + 1
        BY <1>1, <1>3, <3>1 DEF End
      <3> QED BY <1>1, <1>2, <1>4, <2>3, <3>2
    <2>4. CASE j = L - 1
      <3>1. j + 2 = L + 1
        BY <1>1, <2>4
      <3>2. End(j)' = j + 3 + 2
        BY <1>1, <1>3, <3>1 DEF End
      <3> QED BY <1>1, <1>2, <1>4, <2>4, <3>2
    <2> QED BY <2>2, <2>3, <2>4
  <1>7. ASSUME NEW j \in Int, Parse(j)', j > L
        PROVE  j = L + 1 /\ End(j)' = L + SamplerLen + 4
    <2>1. j <= L + SamplerLen + 4 /\ channel'[j].of = FIRST
      BY <1>1, <1>7, GrownParses
    <2>2. j - L \in 1..(SamplerLen + 4) /\ L + (j - L) = j
      BY <1>1, <1>2, <1>7, <2>1
    <2>3. j - L = 1
      BY <1>2, <2>1, <2>2
    <2>4. j = L + 1
      BY <1>1, <2>3
    <2>5. channel'[j + 2].val = SamplerLen
      <3>1. 3 \in 1..(SamplerLen + 4) /\ L + 3 = j + 2
        BY <1>1, <1>2, <2>4
      <3> QED BY <1>2, <3>1
    <2> QED BY <1>1, <1>2, <2>4, <2>5 DEF End
  <1>8. ASSUME NEW j \in Int, Parse(j)'
        PROVE  j + 2 <= Len(channel') /\ End(j)' <= Len(channel') + Remaining'
    <2>1. CASE j + 2 <= L
      BY <1>1, <1>2, <1>4, <1>5, <1>8, <2>1
    <2>2. CASE j <= L /\ j + 2 > L
      BY <1>1, <1>2, <1>4, <1>6, <1>8, <2>2
    <2>3. CASE j > L
      BY <1>1, <1>2, <1>4, <1>7, <1>8, <2>3
    <2> QED BY <1>1, <2>1, <2>2, <2>3
  <1> QED BY <1>8 DEF LineOK

-----------------------------------------------------------------------------
(* Where the frames are, while the node sends *)

LEMMA LengthsType ==
  ASSUME NEW f \in Msgs, NEW n \in Lengths(f)
  PROVE  /\ n \in Nat /\ n > ETX /\ n <= JSON_BUFFER_SIZE_MAX + MaxBehind
         /\ Fits(f) => n = TextLen(f) /\ n < JSON_BUFFER_SIZE_MAX
  <1>1. TextLen(f) \in Nat /\ TextLen(f) > ETX
    BY Sizes, MsgType DEF TextLen, Msgs
  <1>2. CASE Fits(f)
    BY <1>1, <1>2, Sizes DEF Lengths, Fits
  <1>3. CASE ~Fits(f)
    <2>1. n \in JSON_BUFFER_SIZE_MAX..(JSON_BUFFER_SIZE_MAX + MaxBehind)
      BY <1>3 DEF Lengths
    <2> QED BY <1>3, <2>1, Sizes
  <1> QED BY <1>2, <1>3

\* Frames with the same payload are the same.
LEMMA SameFrame ==
  ASSUME NEW f, NEW n \in Nat, NEW b, NEW c, NEW i \in 1..(n + 4), NEW v,
         \A k \in 1..n : b[k] = c[k]
  PROVE  FrameByte(f, n, b, i, v) = FrameByte(f, n, c, i, v)
  <1>1. CASE i \in {1, 2, 3, n + 4}
    BY <1>1 DEF FrameByte
  <1>2. CASE i \notin {1, 2, 3, n + 4}
    <2>1. i - 3 \in 1..n
      BY <1>2
    <2>2. b[i - 3] = c[i - 3]
      BY <2>1
    <2>3. /\ FrameByte(f, n, b, i, v) = TextByte(b[i - 3], f, v)
          /\ FrameByte(f, n, c, i, v) = TextByte(c[i - 3], f, v)
      BY <1>2 DEF FrameByte
    <2> QED BY <2>2, <2>3
  <1> QED BY <1>1, <1>2

\* A frame that is not being sent keeps its place.
LEMMA PlacedKept ==
  ASSUME Typed, Grown, channel' \in Seq(Wire), NEW f \in Msgs, NEW n \in Nat, NEW p \in Int,
         ~Sending(f), ~Sending(f)', Placed(f, n, p),
         \A i \in (Len(channel) + 1)..Len(channel') : channel'[i].frame # f
  PROVE  Placed(f, n, p)'
  <1>1. /\ Len(channel) \in Nat /\ Len(channel') \in Nat /\ Len(channel') >= Len(channel)
        /\ \A i \in 1..Len(channel) : channel'[i] = channel[i]
        /\ p + n + 3 <= Len(channel)
    BY DEF Grown, Typed, WiresOK, Placed
  <1>2. ASSUME NEW i \in 1..Len(channel'), p <= i, i <= p + n + 3
        PROVE  channel'[i] = FrameByte(f, n, Payload(f), i - p + 1, channel'[i].val)
    <2>1. i \in 1..Len(channel)
      BY <1>1, <1>2
    <2> QED BY <1>1, <1>2, <2>1 DEF Placed
  <1>3. ASSUME NEW i \in 1..Len(channel'), channel'[i].frame = f
        PROVE  p <= i /\ i <= p + n + 3
    <2>1. i \in 1..Len(channel)
      BY <1>1, <1>3
    <2> QED BY <1>1, <1>3, <2>1 DEF Placed
  <1>4. p + n + 3 <= Len(channel')
    BY <1>1
  <1> QED BY <1>2, <1>3, <1>4 DEF Placed

\* An excuse lasts.
LEMMA ExcusedKept ==
  ASSUME split \subseteq split', swallowed \subseteq swallowed', NEW f, Excused(f)
  PROVE  Excused(f)'
  BY DEF Excused, Fits, TextLen

LEMMA IntoKept ==
  ASSUME UNCHANGED phoneVars, NEW f, NEW n, NEW t
  PROVE  Into(f, n, t) => Into(f, n, t)'
  BY PhoneSame DEF Into

LEMMA OnItsWayKept ==
  ASSUME Typed, Collected, Grown, channel' \in Seq(Wire), NEW f \in Msgs,
         ~Sending(f), ~Sending(f)',
         \A i \in (Len(channel) + 1)..Len(channel') : channel'[i].frame # f,
         NEW n \in Nat, NEW p \in Int, OnItsWay(f, n, p)
  PROVE  OnItsWay(f, n, p)'
  <1>1. Placed(f, n, p)'
    BY PlacedKept DEF OnItsWay
  <1>2. p >= 1 => Free(p)'
    BY FreeKept DEF OnItsWay
  <1>3. UNCHANGED <<g_rcvState, split, swallowed>> /\ UNCHANGED phoneVars
    BY PhoneSame DEF Grown
  <1>4. p < 1 => Into(f, n, 1 - p)' \/ Excused(f)'
    BY <1>3, IntoKept, ExcusedKept DEF OnItsWay
  <1>5. n \in Lengths(f) /\ p + n + 3 >= 1 /\ p <= Len(channel')
    BY DEF OnItsWay, Grown, Typed, WiresOK
  <1> QED BY <1>1, <1>2, <1>4, <1>5 DEF OnItsWay

LEMMA TakenKept ==
  ASSUME Typed, Grown, channel' \in Seq(Wire), NEW f, ~Sending(f)', Taken(f),
         \A i \in (Len(channel) + 1)..Len(channel') : channel'[i].frame # f
  PROVE  Taken(f)'
  <1>1. /\ Len(channel) \in Nat /\ Len(channel') \in Nat
        /\ \A i \in 1..Len(channel) : channel'[i] = channel[i]
        /\ UNCHANGED <<got, split, swallowed>>
    BY PhoneSame DEF Grown, Typed, WiresOK
  <1>2. ASSUME NEW i \in 1..Len(channel') PROVE channel'[i].frame # f
    <2>1. i \in 1..Len(channel) \/ i \in (Len(channel) + 1)..Len(channel')
      BY <1>1
    <2> QED BY <1>1, <2>1 DEF Taken
  <1>3. Excused(f) => Excused(f)'
    BY <1>1, ExcusedKept
  <1> QED BY <1>1, <1>2, <1>3 DEF Taken

\* The thread's bytes are those of the text, if nothing got at the buffer.
LEMMA TextSent ==
  ASSUME Typed, BufferOK, WriteByte, cur \notin mixed
  PROVE  /\ len \in Lengths(cur)
         /\ channel'[Len(channel) + 1] =
              FrameByte(cur, len, Payload(cur), out + 1, channel'[Len(channel) + 1].val)
  <1> DEFINE v == channel'[Len(channel) + 1].val
  <1>1. /\ channel'[Len(channel) + 1] = FrameByte(cur, len, BuffBytes, out + 1, v)
        /\ len \in Nat /\ out \in Nat /\ out < len + 4 /\ cur \in ThreadMsgs /\ pc = "send"
    BY ByteSent
  <1>2. /\ len \in Lengths(cur) /\ put = MsgLen[cur]
        /\ Len(jsonBuff) = IF put < JSON_BUFFER_SIZE_MAX THEN put ELSE JSON_BUFFER_SIZE_MAX
        /\ \A k \in 1..Len(jsonBuff) : jsonBuff[k] = <<cur, k>>
    BY <1>1 DEF BufferOK
  <1>3. /\ Len(jsonBuff) \in Nat /\ TextLen(cur) = put /\ put \in Nat
        /\ len <= JSON_BUFFER_SIZE_MAX + MaxBehind /\ (Fits(cur) => len = put)
    BY <1>1, <1>2, LengthsType, MsgType, Sizes DEF Typed, BuffOK
  <1>4. ASSUME NEW k \in 1..len PROVE BuffBytes[k] = Payload(cur)[k]
    <2>1. k \in 1..(JSON_BUFFER_SIZE_MAX + MaxBehind)
      BY <1>1, <1>3, Sizes
    <2>2. CASE k <= Len(jsonBuff)
      <3>1. BuffBytes[k] = jsonBuff[k] /\ k <= JSON_BUFFER_SIZE_MAX
        BY <1>2, <2>1, <2>2, <1>3, Sizes DEF BuffBytes
      <3>2. jsonBuff[k] = <<cur, k>>
        BY <1>2, <1>3, <2>2
      <3> QED BY <2>1, <3>1, <3>2 DEF Payload
    <2>3. CASE ~(k <= Len(jsonBuff))
      <3>1. ~Fits(cur)
        BY <1>1, <1>2, <1>3, <2>3, Sizes DEF Fits
      <3>2. Len(jsonBuff) = JSON_BUFFER_SIZE_MAX
        BY <1>2, <1>3, <3>1, Sizes DEF Fits
      <3>3. ~(k <= JSON_BUFFER_SIZE_MAX)
        BY <2>3, <3>2
      <3> QED BY <2>1, <2>3, <3>3 DEF BuffBytes, Payload
    <2> QED BY <2>2, <2>3
  <1>5. out + 1 \in 1..(len + 4)
    BY <1>1
  <1> HIDE DEF v
  <1>6. FrameByte(cur, len, BuffBytes, out + 1, v) = FrameByte(cur, len, Payload(cur), out + 1, v)
    BY <1>1, <1>4, <1>5, SameFrame
  <1> QED BY <1>1, <1>2, <1>6 DEF v

\* A frame that has begun gets its next byte, ...
LEMMA SendingGoesOn ==
  ASSUME Typed, Collected, BufferOK, WriteByte, cur \notin mixed, out > 0,
         NEW f, f = cur, NEW n \in Nat, NEW p \in Int, OnItsWay(f, n, p)
  PROVE  OnItsWay(f, n, p)'
  <1> DEFINE L == Len(channel)
  <1>1. /\ Len(channel') = L + 1 /\ Grown /\ channel' \in Seq(Wire)
        /\ channel'[L + 1] = FrameByte(f, n, Payload(f), out + 1, channel'[L + 1].val)
        /\ n = len /\ n \in Lengths(f) /\ out \in Nat /\ out < n + 4 /\ L \in Nat
        /\ \A i \in 1..L : channel'[i] = channel[i]
        /\ p + out - 1 = L /\ Sending(f)
    <2>1. Sending(f) /\ L \in Nat
      BY ByteSent DEF Sending, Typed, WiresOK
    <2>2. Placed(f, n, p) /\ n \in Lengths(f)
      BY DEF OnItsWay
    <2>3. n = len /\ p + out - 1 = L
      BY <2>1, <2>2 DEF Placed
    <2>4. /\ Len(channel') = L + 1 /\ Grown /\ channel' \in Seq(Wire)
          /\ out \in Nat /\ out < len + 4
      BY ByteSent
    <2>5. channel'[L + 1] = FrameByte(f, n, Payload(f), out + 1, channel'[L + 1].val)
      BY <2>3, TextSent
    <2>6. \A i \in 1..L : channel'[i] = channel[i]
      BY <2>4 DEF Grown
    <2> QED BY <2>1, <2>2, <2>3, <2>4, <2>5, <2>6
  <1>2. /\ out' = out + 1 /\ len' = len /\ cur' = cur
        /\ pc' = IF out + 1 = len + 4 THEN "idle" ELSE "send"
    BY DEF WriteByte
  <1>3. n = len' /\ p + out' - 1 = Len(channel')
    BY <1>1, <1>2
  <1>4. ~Sending(f)' => p + n + 3 <= Len(channel')
    <2>1. ~Sending(f)' => out + 1 = n + 4
      BY <1>1, <1>2 DEF Sending
    <2>2. out + 1 = n + 4 => p + n + 3 <= Len(channel')
      BY <1>1
    <2> QED BY <2>1, <2>2
  <1>5. ASSUME NEW i \in 1..Len(channel'), p <= i, i <= p + n + 3
        PROVE  channel'[i] = FrameByte(f, n, Payload(f), i - p + 1, channel'[i].val)
    <2>1. CASE i <= L
      <3>1. i \in 1..L
        BY <1>1, <2>1
      <3> QED BY <1>1, <1>5, <3>1 DEF OnItsWay, Placed
    <2>2. CASE i = L + 1
      <3>1. i - p + 1 = out + 1
        BY <1>1, <2>2
      <3> QED BY <1>1, <2>2, <3>1
    <2> QED BY <1>1, <2>1, <2>2
  <1>6. ASSUME NEW i \in 1..Len(channel'), channel'[i].frame = f
        PROVE  p <= i /\ i <= p + n + 3
    <2>1. CASE i <= L
      <3>1. i \in 1..L
        BY <1>1, <2>1
      <3> QED BY <1>1, <1>6, <3>1 DEF OnItsWay, Placed
    <2>2. CASE i = L + 1
      BY <1>1, <2>2
    <2> QED BY <1>1, <2>1, <2>2
  <1>7. Placed(f, n, p)'
    BY <1>3, <1>4, <1>5, <1>6 DEF Placed
  <1>8. p >= 1 => Free(p)'
    BY <1>1, FreeKept DEF OnItsWay
  <1>9. p < 1 => Into(f, n, 1 - p)' \/ Excused(f)'
    BY <1>1, PhoneSame, IntoKept, ExcusedKept DEF Grown, OnItsWay
  <1>10. p + n + 3 >= 1 /\ p <= Len(channel')
    BY <1>1 DEF OnItsWay
  <1> QED BY <1>1, <1>7, <1>8, <1>9, <1>10 DEF OnItsWay

\* ... and one that begins, or is sent in one go, is placed behind all others.
LEMMA PlacedBehind ==
  ASSUME Typed, Collected, LineOK, ~AmidFrame, Grown, channel' \in Seq(Wire),
         NEW f, NEW n \in Lengths(f), n \in Nat, NEW p \in Int, p = Len(channel) + 1,
         Len(channel') >= p, Len(channel') <= p + n + 3,
         \A i \in 1..Len(channel) : channel[i].frame # f,
         \A i \in p..Len(channel') : channel'[i] = FrameByte(f, n, Payload(f), i - p + 1, channel'[i].val),
         Sending(f)' => n = len' /\ p + out' - 1 = Len(channel'),
         ~Sending(f)' => p + n + 3 <= Len(channel')
  PROVE  OnItsWay(f, n, p)'
  <1>1. /\ Len(channel) \in Nat /\ Len(channel') \in Nat
        /\ \A i \in 1..Len(channel) : channel'[i] = channel[i]
    BY DEF Grown, Typed, WiresOK
  <1>2. Free(p)'
    BY FreeEnd
  <1>3. ASSUME NEW i \in 1..Len(channel'), p <= i, i <= p + n + 3
        PROVE  channel'[i] = FrameByte(f, n, Payload(f), i - p + 1, channel'[i].val)
    <2>1. i \in p..Len(channel')
      BY <1>1, <1>3
    <2> QED BY <2>1
  <1>4. ASSUME NEW i \in 1..Len(channel'), channel'[i].frame = f
        PROVE  p <= i /\ i <= p + n + 3
    <2>1. ~(i <= Len(channel))
      <3>1. ASSUME i <= Len(channel) PROVE FALSE
        <4>1. i \in 1..Len(channel)
          BY <1>1, <3>1
        <4> QED BY <1>1, <1>4, <4>1
      <3> QED BY <3>1
    <2> QED BY <1>1, <2>1
  <1>5. Placed(f, n, p)'
    BY <1>3, <1>4 DEF Placed
  <1>6. p >= 1 /\ p + n + 3 >= 1 /\ ~(p < 1)
    BY <1>1
  <1> QED BY <1>2, <1>5, <1>6 DEF OnItsWay

Sends == Open \/ Put \/ Send \/ WriteByte \/ Sampler

\* A frame that has begun remains one that has, and what the thread sends
\* belongs to its message.
LEMMA StartedKept ==
  ASSUME Typed, Sends, NEW f \in Msgs, Started(f)
  PROVE  Started(f)'
  <1>1. cur \in 0..Len(MsgLen) /\ samples \in Nat /\ Len(MsgLen) \in Nat /\ f \in Nat
        /\ out \in Nat
    BY MsgType DEF Typed, ThreadOK, WiresOK
  <1>2. CASE f \in ThreadMsgs
    <2>1. f < cur \/ (f = cur /\ (pc = "idle" \/ AmidFrame))
      BY <1>2 DEF Started
    <2>2. CASE Open
      <3>1. cur' = cur + 1
        BY <2>2 DEF Open
      <3> QED BY <1>1, <1>2, <2>1, <3>1 DEF Started
    <2>3. CASE Put \/ Send
      <3>1. pc = "format" /\ cur' = cur
        BY <2>3 DEF Put, Send
      <3> QED BY <1>2, <2>1, <3>1 DEF Started, AmidFrame
    <2>4. CASE WriteByte
      <3>1. cur' = cur /\ out' = out + 1 /\ pc' \in {"idle", "send"}
        BY <2>4 DEF WriteByte
      <3>2. pc' = "idle" \/ AmidFrame'
        BY <1>1, <3>1 DEF AmidFrame
      <3> QED BY <1>2, <2>1, <3>1, <3>2 DEF Started
    <2>5. CASE Sampler
      BY <1>2, <2>1, <2>5 DEF Sampler, threadVars, Started, AmidFrame
    <2> QED BY <2>2, <2>3, <2>4, <2>5 DEF Sends
  <1>3. CASE f \notin ThreadMsgs
    <2>1. f <= Len(MsgLen) + samples
      BY <1>3 DEF Started
    <2>2. samples' = samples \/ samples' = samples + 1
      BY DEF Sends, Open, Put, Send, WriteByte, Sampler
    <2>3. f <= Len(MsgLen) + samples'
      BY <1>1, <2>1, <2>2
    <2> QED BY <1>3, <2>3 DEF Started
  <1> QED BY <1>2, <1>3

LEMMA FormatFollowed ==
  ASSUME Typed, Collected, FramesOK, Followed, Open \/ Put \/ Send
  PROVE  FramesOK' /\ Followed'
  <1>1. /\ channel' = channel /\ UNCHANGED phoneVars /\ mixed' = mixed /\ samples' = samples
        /\ pc \in {"idle", "format"} /\ (pc' = "send" => out' = 0 /\ cur' = cur)
        /\ \/ pc = "idle" /\ cur' = cur + 1 /\ pc' = "format"
           \/ pc = "format" /\ cur' = cur /\ pc' \in {"format", "send"}
    BY DEF Open, Put, Send
  <1>2. Grown /\ channel' \in Seq(Wire) /\ Len(channel) \in Nat
    BY <1>1 DEF Grown, Typed, WiresOK
  <1>3. cur \in Nat /\ (pc # "idle" => cur \in ThreadMsgs)
    BY DEF Typed, ThreadOK
  <1>4. FramesOK'
    <2>1. ASSUME NEW i \in 1..Len(channel) PROVE Started(channel[i].frame)'
      <3>1. channel[i].frame \in Msgs
        BY WireFields DEF Typed, WiresOK
      <3>2. ASSUME NEW f \in Msgs, Started(f) PROVE Started(f)'
        BY <3>2, StartedKept DEF Sends
      <3>3. PICK f \in Msgs : f = channel[i].frame
        BY <3>1
      <3>4. Started(f)'
        BY <3>2, <3>3 DEF FramesOK
      <3>5. channel'[i].frame = f
        BY <1>1, <3>3
      <3> QED BY <1>1, <3>3, <3>4 DEF Started, AmidFrame
    <2> QED BY <1>1, <2>1 DEF FramesOK
  <1>5. ASSUME NEW f \in Msgs \ mixed, Started(f)'
        PROVE  Taken(f)' \/ \E n \in Nat, p \in Int : OnItsWay(f, n, p)'
    <2>1. Started(f)
      <3>1. CASE f \in ThreadMsgs
        <4>1. f < cur' \/ (f = cur' /\ (pc' = "idle" \/ AmidFrame'))
          BY <1>5, <3>1 DEF Started
        <4>2. ~(pc' = "idle" \/ AmidFrame')
          BY <1>1 DEF AmidFrame
        <4>3. f < cur \/ (f = cur /\ pc = "idle")
          BY <1>1, <1>3, <3>1, <4>1, <4>2, MsgType
        <4> QED BY <3>1, <4>3 DEF Started
      <3>2. CASE f \notin ThreadMsgs
        BY <1>1, <1>5, <3>2 DEF Started
      <3> QED BY <3>1, <3>2
    <2>2. ~Sending(f)
      BY <1>1 DEF Sending
    <2>3. ~Sending(f)'
      <3>1. ASSUME f = cur', pc' = "send" PROVE FALSE
        <4>1. f = cur /\ pc = "format" /\ f \in ThreadMsgs
          BY <1>1, <1>3, <3>1
        <4> QED BY <1>3, <2>1, <4>1, MsgType DEF Started, AmidFrame
      <3> QED BY <3>1 DEF Sending
    <2>4. \A i \in (Len(channel) + 1)..Len(channel') : channel'[i].frame # f
      BY <1>1, <1>2
    <2>5. CASE Taken(f)
      BY <1>2, <2>3, <2>4, <2>5, TakenKept
    <2>6. ASSUME NEW n \in Nat, NEW p \in Int, OnItsWay(f, n, p)
          PROVE  OnItsWay(f, n, p)'
      BY <1>2, <2>2, <2>3, <2>4, <2>6, OnItsWayKept
    <2> QED BY <2>1, <2>5, <2>6 DEF Followed
  <1>6. Followed'
    BY <1>1, <1>5 DEF Followed
  <1> QED BY <1>4, <1>6

\* Frames on the line have begun, when one more byte is.
LEMMA FramesKept ==
  ASSUME Typed, FramesOK, Sends, Grown, channel' \in Seq(Wire), NEW m \in Msgs, Started(m)',
         \A i \in (Len(channel) + 1)..Len(channel') : channel'[i].frame = m
  PROVE  FramesOK'
  <1>1. /\ Len(channel) \in Nat /\ Len(channel') \in Nat
        /\ \A i \in 1..Len(channel) : channel'[i] = channel[i]
    BY DEF Grown, Typed, WiresOK
  <1>2. ASSUME NEW i \in 1..Len(channel') PROVE Started(channel[i].frame)'
    <2>1. PICK f \in Msgs : f = channel'[i].frame /\ Started(f)'
      <3>1. CASE i \in 1..Len(channel)
        <4>1. channel[i].frame \in Msgs
          BY <3>1, WireFields DEF Typed, WiresOK
        <4>2. PICK f \in Msgs : f = channel[i].frame
          BY <4>1
        <4>3. Started(f)
          BY <3>1, <4>2 DEF FramesOK
        <4> QED BY <1>1, <3>1, <4>2, <4>3, StartedKept
      <3>2. CASE i \notin 1..Len(channel)
        <4>1. i \in (Len(channel) + 1)..Len(channel')
          BY <1>1, <3>2
        <4> QED BY <4>1
      <3> QED BY <3>1, <3>2
    <2> QED BY <2>1 DEF Started, AmidFrame
  <1> QED BY <1>2 DEF FramesOK

LEMMA WriteFollowed ==
  ASSUME Typed, Collected, LineOK, BufferOK, FramesOK, Followed, WriteByte
  PROVE  FramesOK' /\ Followed'
  <1> DEFINE L == Len(channel)
  <1>1. /\ Len(channel') = L + 1 /\ Grown /\ channel' \in Seq(Wire)
        /\ channel'[L + 1].frame = cur /\ L \in Nat
        /\ len \in Nat /\ len > ETX /\ out \in Nat /\ out < len + 4
        /\ cur \in ThreadMsgs /\ pc = "send"
    BY ByteSent DEF Typed, WiresOK
  <1>2. /\ out' = out + 1 /\ len' = len /\ cur' = cur /\ mixed' = mixed /\ samples' = samples
        /\ pc' = IF out + 1 = len + 4 THEN "idle" ELSE "send"
    BY DEF WriteByte
  <1>3. cur \in Msgs /\ cur \in Nat
    BY <1>1, MsgType
  <1>4. \A i \in (L + 1)..Len(channel') : i = L + 1
    BY <1>1
  <1>5. FramesOK'
    <2>1. PICK m \in Msgs : m = cur
      BY <1>3
    <2>2. Started(m)'
      <3>1. pc' = "idle" \/ AmidFrame'
        BY <1>1, <1>2 DEF AmidFrame
      <3> QED BY <1>1, <1>2, <2>1, <3>1 DEF Started
    <2> QED BY <1>1, <1>4, <2>1, <2>2, FramesKept DEF Sends
  <1>6. ASSUME NEW f \in Msgs \ mixed, Started(f)'
        PROVE  Taken(f)' \/ \E n \in Nat, p \in Int : OnItsWay(f, n, p)'
    <2>1. CASE f # cur
      <3>1. Started(f)
        BY <1>2, <1>6, <2>1 DEF Started
      <3>2. ~Sending(f) /\ ~Sending(f)'
        BY <1>2, <2>1 DEF Sending
      <3>3. \A i \in (L + 1)..Len(channel') : channel'[i].frame # f
        BY <1>1, <1>4, <2>1
      <3>4. CASE Taken(f)
        BY <1>1, <3>2, <3>3, <3>4, TakenKept
      <3>5. ASSUME NEW n \in Nat, NEW p \in Int, OnItsWay(f, n, p)
            PROVE  OnItsWay(f, n, p)'
        BY <1>1, <3>2, <3>3, <3>5, OnItsWayKept
      <3> QED BY <3>1, <3>4, <3>5 DEF Followed
    <2>2. CASE f = cur /\ out > 0
      <3>1. Started(f) /\ ~Taken(f)
        BY <1>1, <2>2 DEF Started, AmidFrame, Taken, Sending
      <3>2. PICK n \in Nat, p \in Int : OnItsWay(f, n, p)
        BY <3>1 DEF Followed
      <3>3. OnItsWay(f, n, p)'
        BY <2>2, <3>2, SendingGoesOn
      <3> QED BY <3>3
    <2>3. CASE f = cur /\ out = 0
      <3>1. ~Started(f) /\ ~AmidFrame
        BY <1>1, <1>3, <2>3 DEF Started, AmidFrame
      <3>2. \A i \in 1..Len(channel) : channel[i].frame # f
        BY <3>1 DEF FramesOK
      <3>3. /\ len \in Lengths(f)
            /\ channel'[L + 1] = FrameByte(f, len, Payload(f), 0 + 1, channel'[L + 1].val)
        BY <2>3, TextSent
      <3>4. PICK n \in Nat : n = len
        BY <1>1
      <3>5. PICK p \in Int : p = L + 1
        BY <1>1
      <3>6. \A i \in p..Len(channel') : channel'[i] = FrameByte(f, n, Payload(f), i - p + 1, channel'[i].val)
        BY <1>1, <3>3, <3>4, <3>5
      <3>7. Sending(f)' => n = len' /\ p + out' - 1 = Len(channel')
        BY <1>1, <1>2, <2>3, <3>4, <3>5
      <3>8. ~Sending(f)' => p + n + 3 <= Len(channel')
        BY <1>1, <1>2, <2>3, <3>4, <3>5 DEF Sending
      <3>9. n \in Lengths(f) /\ Len(channel') >= p /\ Len(channel') <= p + n + 3
        BY <1>1, <3>3, <3>4, <3>5
      <3>10. OnItsWay(f, n, p)'
        BY <1>1, <3>1, <3>2, <3>5, <3>6, <3>7, <3>8, <3>9, PlacedBehind
      <3> QED BY <3>10
    <2> QED BY <1>1, <2>1, <2>2, <2>3
  <1>7. Followed'
    BY <1>2, <1>6 DEF Followed
  <1> QED BY <1>5, <1>7

LEMMA SamplerFollowed ==
  ASSUME Typed, Collected, LineOK, FramesOK, Followed, Sampler
  PROVE  FramesOK' /\ Followed'
  <1> DEFINE L == Len(channel)
  <1>0. PICK m : m = Len(MsgLen) + (samples + 1)
    OBVIOUS
  <1>1. /\ Len(channel') = L + SamplerLen + 4 /\ Grown /\ channel' \in Seq(Wire)
        /\ \A i \in 1..(SamplerLen + 4) :
             channel'[L + i] = FrameByte(m, SamplerLen, TextOf(m), i, 0)
        /\ m \in Msgs \ ThreadMsgs /\ TextOf(m) = [k \in 1..SamplerLen |-> <<m, k>>]
        /\ samples' = samples + 1
        /\ mixed' = mixed \cup (IF pc = "idle" THEN {} ELSE {cur})
                          \cup (IF AmidFrame THEN {m} ELSE {})
        /\ UNCHANGED threadVars /\ L \in Nat
    <2>1. L \in Nat
      BY DEF Typed, WiresOK
    <2> QED BY <1>0, <2>1, FrameSent
  <1>b. \A k \in 1..SamplerLen : TextOf(m)[k] \in Payloads
    BY <1>0, SamplerText
  <1>2. UNCHANGED <<pc, cur, put, len, out>> /\ (pc = "send" => cur \in ThreadMsgs)
        /\ samples \in Nat /\ m \in Nat
    BY <1>1, MsgType DEF threadVars, Typed, ThreadOK, WiresOK
  <1>3. ASSUME NEW i \in (L + 1)..Len(channel')
        PROVE  /\ channel'[i] = FrameByte(m, SamplerLen, Payload(m), i - (L + 1) + 1,
                                          channel'[i].val)
               /\ channel'[i].frame = m
    <2>1. i - L \in 1..(SamplerLen + 4) /\ L + (i - L) = i /\ i - (L + 1) + 1 = i - L
      BY <1>1, Sizes
    <2>a. PICK k \in 1..(SamplerLen + 4) : k = i - L
      BY <2>1
    <2>2. channel'[i] = FrameByte(m, SamplerLen, TextOf(m), k, 0)
      BY <1>1, <2>1, <2>a
    <2>3. \A j \in 1..SamplerLen : TextOf(m)[j] = Payload(m)[j]
      BY <1>1, Sizes DEF Payload
    <2>4. FrameByte(m, SamplerLen, TextOf(m), k, 0) = FrameByte(m, SamplerLen, Payload(m), k, 0)
      BY <2>3, SameFrame, Sizes
    <2>5. FrameByte(m, SamplerLen, TextOf(m), k, 0).frame = m
      BY <1>b, FrameByteVal, Sizes
    <2>6. channel'[i] = FrameByte(m, SamplerLen, Payload(m), k, channel'[i].val)
      BY <2>2, <2>4, ByteValue
    <2> QED BY <2>1, <2>a, <2>2, <2>5, <2>6
  <1>4. Started(m)'
    BY <1>0, <1>1 DEF Started
  <1>5. FramesOK'
    BY <1>1, <1>3, <1>4, FramesKept DEF Sends
  <1>6. ASSUME NEW f \in Msgs \ mixed', Started(f)'
        PROVE  Taken(f)' \/ \E n \in Nat, p \in Int : OnItsWay(f, n, p)'
    <2>1. ~Sending(f) /\ ~Sending(f)'
      BY <1>1, <1>2, <1>6 DEF Sending
    <2>2. CASE f # m
      <3>1. Started(f)
        <4>1. CASE f \in ThreadMsgs
          BY <1>2, <1>6, <4>1 DEF Started, AmidFrame
        <4>2. CASE f \notin ThreadMsgs
          <5>1. f <= Len(MsgLen) + (samples + 1) /\ f \in Nat
            BY <1>1, <1>6, <4>2, MsgType DEF Started
          <5>2. f <= Len(MsgLen) + samples
            BY <1>0, <1>2, <2>2, <5>1, MsgType
          <5> QED BY <4>2, <5>2 DEF Started
        <4> QED BY <4>1, <4>2
      <3>2. \A i \in (L + 1)..Len(channel') : channel'[i].frame # f
        BY <1>3, <2>2
      <3>3. CASE Taken(f)
        BY <1>1, <2>1, <3>2, <3>3, TakenKept
      <3>4. ASSUME NEW n \in Nat, NEW p \in Int, OnItsWay(f, n, p)
            PROVE  OnItsWay(f, n, p)'
        BY <1>1, <2>1, <3>2, <3>4, OnItsWayKept
      <3>5. f \notin mixed
        BY <1>1, <1>6
      <3> QED BY <3>1, <3>3, <3>4, <3>5 DEF Followed
    <2>3. CASE f = m
      <3>1. ~Started(f)
        BY <1>0, <1>1, <1>2, <2>3, MsgType DEF Started
      <3>2. ~AmidFrame
        BY <1>1, <1>6, <2>3
      <3>3. \A i \in 1..Len(channel) : channel[i].frame # f
        BY <3>1 DEF FramesOK
      <3>4. SamplerLen \in Lengths(f) /\ SamplerLen \in Nat
        BY <1>1, <2>3, Sizes DEF Lengths, Fits, TextLen
      <3>5. PICK p \in Int : p = L + 1
        BY <1>1
      <3>6. \A i \in p..Len(channel') :
              channel'[i] = FrameByte(f, SamplerLen, Payload(f), i - p + 1, channel'[i].val)
        BY <1>3, <2>3, <3>5
      <3>7. Len(channel') >= p /\ Len(channel') <= p + SamplerLen + 3
            /\ p + SamplerLen + 3 <= Len(channel')
        BY <1>1, <3>5, Sizes
      <3>8. OnItsWay(f, SamplerLen, p)'
        BY <1>1, <2>1, <3>2, <3>3, <3>4, <3>5, <3>6, <3>7, PlacedBehind
      <3> QED BY <3>4, <3>8
    <2> QED BY <2>2, <2>3
  <1>7. Followed'
    BY <1>6 DEF Followed
  <1> QED BY <1>5, <1>7

-----------------------------------------------------------------------------
(* Where the frames are, while the phone takes bytes *)

\* The byte at the head of a frame's place.
LEMMA HeadByte ==
  ASSUME NEW f \in Msgs, NEW n \in Lengths(f), NEW p \in Int, Placed(f, n, p),
         p <= 1, p + n + 3 >= 1, Len(channel) >= 1, channel \in Seq(Wire)
  PROVE  /\ 2 - p \in 1..(n + 4)
         /\ channel[1].frame = f
         /\ channel[1].of = FIRST <=> p = 1
         /\ p = 1 => channel[1].val = STX
         /\ p = -1 => channel[1].val = n % BYTE
         /\ 2 - p = n + 4 => channel[1].val = ETX
         /\ 2 - p > 3 /\ 2 - p < n + 4 => channel[1].of = Payload(f)[2 - p - 3]
  <1>1. n \in Nat /\ n > ETX /\ \A k \in 1..n : Payload(f)[k] \in Payloads
    <2>1. n \in Nat /\ n > ETX /\ n <= JSON_BUFFER_SIZE_MAX + MaxBehind
      BY LengthsType
    <2>2. \A k \in 1..n : k \in 1..(JSON_BUFFER_SIZE_MAX + MaxBehind)
      BY <2>1, Sizes
    <2> QED BY <2>1, <2>2, PayloadType
  <1>2. 2 - p \in 1..(n + 4) /\ 1 \in 1..Len(channel) /\ 1 - p + 1 = 2 - p
    BY <1>1
  <1> DEFINE i == 2 - p
             v == channel[1].val
  <1>3. channel[1] = FrameByte(f, n, Payload(f), i, v)
    BY <1>2 DEF Placed
  <1>4. i \in 1..(n + 4)
    BY <1>2
  <1>6. (p = 1 <=> i = 1) /\ (p = -1 <=> i = 3)
    BY DEF i
  <1> HIDE DEF i, v
  <1>5. /\ FrameByte(f, n, Payload(f), i, v).frame = f
        /\ FrameByte(f, n, Payload(f), i, v).of = FIRST <=> i = 1
        /\ i = 1 => FrameByte(f, n, Payload(f), i, v).val = STX
        /\ i = 3 => FrameByte(f, n, Payload(f), i, v).val = n % BYTE
        /\ i = n + 4 => FrameByte(f, n, Payload(f), i, v).val = ETX
        /\ i > 3 /\ i < n + 4 => FrameByte(f, n, Payload(f), i, v).of = Payload(f)[i - 3]
    BY <1>1, <1>4, FrameByteVal
  <1> QED BY <1>2, <1>3, <1>5, <1>6 DEF i

\* The places move with the line.
LEMMA PlacedMoves ==
  ASSUME Typed, Takes, NEW f \in Msgs, NEW n \in Nat, NEW p \in Int, Placed(f, n, p)
  PROVE  Placed(f, n, p - 1)'
  <1>1. PICK s \in States : Take(s)
    BY TakesTake
  <1>2. /\ Len(channel) \in Nat /\ Len(channel) >= 1 /\ Len(channel') = Len(channel) - 1
        /\ \A i \in 1..Len(channel') : channel'[i] = channel[i + 1]
        /\ UNCHANGED <<pc, cur, len, out>> /\ out \in Nat
    BY <1>1, TakeShorter DEF Shorter, threadVars, Typed, WiresOK, ThreadOK
  <1>3. Sending(f)' <=> Sending(f)
    BY <1>2 DEF Sending
  <1>4. Sending(f) => n = len' /\ (p - 1) + out' - 1 = Len(channel')
    BY <1>2 DEF Placed
  <1>5. ~Sending(f) => (p - 1) + n + 3 <= Len(channel')
    BY <1>2 DEF Placed
  <1>6. ASSUME NEW i \in 1..Len(channel'), p - 1 <= i, i <= (p - 1) + n + 3
        PROVE  channel'[i] = FrameByte(f, n, Payload(f), i - (p - 1) + 1, channel'[i].val)
    <2>1. i + 1 \in 1..Len(channel) /\ p <= i + 1 /\ i + 1 <= p + n + 3
          /\ (i + 1) - p + 1 = i - (p - 1) + 1
      BY <1>2, <1>6
    <2>2. channel[i + 1] = FrameByte(f, n, Payload(f), (i + 1) - p + 1, channel[i + 1].val)
      BY <2>1 DEF Placed
    <2> QED BY <1>2, <2>1, <2>2
  <1>7. ASSUME NEW i \in 1..Len(channel'), channel'[i].frame = f
        PROVE  p - 1 <= i /\ i <= (p - 1) + n + 3
    <2>1. i + 1 \in 1..Len(channel) /\ channel[i + 1].frame = f
      BY <1>2, <1>7
    <2>2. p <= i + 1 /\ i + 1 <= p + n + 3
      BY <2>1 DEF Placed
    <2> QED BY <2>2
  <1> QED BY <1>3, <1>4, <1>5, <1>6, <1>7 DEF Placed

\* With its last byte a frame is gone.
LEMMA PlacedGone ==
  ASSUME Typed, Takes, NEW f \in Msgs, NEW n \in Nat, NEW p \in Int,
         Placed(f, n, p), p + n + 3 = 1
  PROVE  ~Sending(f)' /\ \A i \in 1..Len(channel') : channel'[i].frame # f
  <1>1. PICK s \in States : Take(s)
    BY TakesTake
  <1>2. /\ Len(channel) \in Nat /\ Len(channel) >= 1
        /\ UNCHANGED <<pc, cur, len, out>>
        /\ out \in Nat /\ (pc = "send" => out < len + 4)
    BY <1>1, TakeShorter DEF threadVars, Typed, WiresOK, ThreadOK
  <1>3. ~Sending(f)
    <2>1. ASSUME Sending(f) PROVE FALSE
      <3>1. n = len /\ p + out - 1 = Len(channel) /\ out < n + 4
        BY <1>2, <2>1 DEF Placed, Sending
      <3> QED BY <1>2, <3>1
    <2> QED BY <2>1
  <1>4. Placed(f, n, p - 1)'
    BY PlacedMoves
  <1>5. ASSUME NEW i \in 1..Len(channel'), channel'[i].frame = f PROVE FALSE
    <2>1. i <= (p - 1) + n + 3
      BY <1>4, <1>5 DEF Placed
    <2> QED BY <2>1
  <1> QED BY <1>2, <1>3, <1>5 DEF Sending

\* A parser that is idle, or gives up, waits for an STX.
LEMMA IdleTakes ==
  ASSUME Typed, Takes, g_rcvState = "idle" \/ IsTimeout
  PROVE  /\ got' = got
         /\ g_rcvState' = IF channel[1].val = STX THEN "seqNo" ELSE "idle"
         /\ astray' = (channel[1].val = STX /\ channel[1].of # FIRST)
  <1>1. RcvIdle
    BY DEF Takes, Take, RcvSeqNo, RcvExpLen, RcvPayload, RcvEtx
  <1>2. Byte = channel[1].val /\ Head(channel) = channel[1]
    BY <1>1, TakeShorter DEF RcvIdle
  <1> QED BY <1>1, <1>2 DEF RcvIdle, Take

\* One that is in a parse goes on with it.
LEMMA BusyTakes ==
  ASSUME Typed, Takes, g_rcvState # "idle", ~IsTimeout
  PROVE  /\ ~RcvIdle /\ astray' = astray
         /\ g_rcvState = "seqNo" => RcvSeqNo
         /\ g_rcvState = "expLen" => RcvExpLen
         /\ g_rcvState = "payload" => RcvPayload \/ RcvEtx
         /\ astray /\ channel[1].of = FIRST => channel[1].frame \in swallowed'
  <1>1. ~RcvIdle
    BY DEF RcvIdle, Take
  <1>2. PICK s \in States : Take(s)
    BY TakesTake
  <1>3. Head(channel) = channel[1] /\ s = g_rcvState
    BY <1>2, TakeShorter DEF Take
  <1>4. astray' = astray /\ (astray /\ channel[1].of = FIRST => channel[1].frame \in swallowed')
    BY <1>2, <1>3 DEF Take
  <1>5. /\ g_rcvState = "seqNo" => RcvSeqNo
        /\ g_rcvState = "expLen" => RcvExpLen
        /\ g_rcvState = "payload" => RcvPayload \/ RcvEtx
    BY <1>1 DEF Takes, Take, RcvSeqNo, RcvExpLen, RcvPayload, RcvEtx
  <1> QED BY <1>1, <1>4, <1>5

\* What the parser does with the next byte of a frame it is in: it goes on, or
\* ends the parse before the frame does, when the length is truncated.
LEMMA IntoGoesOn ==
  ASSUME Typed, Collected, Takes, ~IsTimeout,
         NEW f \in Msgs, NEW n \in Lengths(f), NEW p \in Int, Placed(f, n, p),
         p < 1, p + n + 3 > 1, Into(f, n, 1 - p)
  PROVE  \/ Into(f, n, 2 - p)' /\ got' = got
         \/ g_rcvState' = "idle" /\ ~Fits(f)
  <1>0. n \in Nat /\ n > ETX /\ n > 3
    BY LengthsType, Sizes
  <1>a. PICK q \in Nat : /\ q = n % BYTE /\ q <= n
                         /\ Fits(f) => q = n
    <2>1. n % BYTE \in Nat /\ n % BYTE <= n /\ (n < BYTE => n % BYTE = n)
      BY <1>0, Mod
    <2>2. Fits(f) => n < BYTE
      BY <1>0, LengthsType, Sizes
    <2> QED BY <2>1, <2>2
  <1>1. PICK s \in States : Take(s)
    BY TakesTake
  <1>2. /\ Len(channel) >= 1 /\ channel \in Seq(Wire) /\ Byte = channel[1].val
        /\ last' = channel[1] /\ Head(channel) = channel[1]
    BY <1>1, TakeShorter DEF Typed, WiresOK
  <1>3. /\ channel[1].frame = f
        /\ p = -1 => channel[1].val = q
        /\ 2 - p > 3 /\ 2 - p < n + 4 => channel[1].of = Payload(f)[2 - p - 3]
    BY <1>0, <1>a, <1>2, HeadByte
  <1>4. last'.frame = f /\ g_rcvState # "idle" /\ ~astray /\ ~astray'
    <2>1. g_rcvState # "idle" /\ ~astray
      BY DEF Into
    <2> QED BY <1>2, <1>3, <2>1, BusyTakes
  <1>5. CASE p = 0
    <2>1. g_rcvState = "seqNo"
      BY <1>5 DEF Into
    <2>3. g_rcvState' = "expLen" /\ got' = got
      BY <1>4, <2>1, BusyTakes DEF RcvSeqNo
    <2> QED BY <1>4, <1>5, <2>3 DEF Into
  <1>6. CASE p = -1
    <2>1. g_rcvState = "expLen"
      BY <1>6 DEF Into
    <2>2. RcvExpLen
      BY <1>4, <2>1, BusyTakes
    <2>3. CASE q # 0
      <3>1. g_rcvState' = "payload" /\ g_expLen' = q /\ g_buff' = <<>> /\ got' = got
        BY <1>2, <1>3, <1>6, <2>2, <2>3 DEF RcvExpLen
      <3>2. Len(g_buff') = 0
        BY <3>1
      <3> QED BY <1>a, <1>4, <1>6, <3>1, <3>2 DEF Into
    <2>4. CASE q = 0
      <3>1. g_rcvState' = "idle"
        BY <1>2, <1>3, <1>6, <2>2, <2>4 DEF RcvExpLen
      <3> QED BY <1>0, <1>a, <2>4, <3>1
    <2> QED BY <2>3, <2>4
  <1>7. CASE p < -1
    <2>1. g_rcvState = "payload" /\ g_expLen = q /\ Len(g_buff) = 1 - p - 3
          /\ \A k \in 1..Len(g_buff) : g_buff[k] = Payload(f)[k]
      BY <1>a, <1>7 DEF Into
    <2>2. Len(g_buff) < n /\ Len(g_buff) \in Nat /\ g_buff \in Seq(Nat \X Nat)
      BY <1>0, <2>1 DEF Collected
    <2>3. RcvPayload \/ RcvEtx
      BY <1>4, <2>1, BusyTakes
    <2>9. CASE RcvEtx
      <3>1. g_rcvState' = "idle" /\ Len(g_buff) >= q
        BY <2>1, <2>9 DEF RcvEtx
      <3> QED BY <1>0, <1>a, <2>2, <3>1
    <2>4. CASE RcvPayload
      <3>1. g_buff' = Append(g_buff, channel[1].of) /\ g_rcvState' = "payload" /\ g_expLen' = q
            /\ got' = got
        BY <1>2, <2>1, <2>4 DEF RcvPayload
      <3>2. /\ Len(g_buff') = Len(g_buff) + 1
            /\ g_buff'[Len(g_buff) + 1] = channel[1].of
            /\ \A k \in 1..Len(g_buff) : g_buff'[k] = g_buff[k]
        <4>1. \A S : \A r \in Seq(S) : \A x :
                /\ Len(Append(r, x)) = Len(r) + 1 /\ Append(r, x)[Len(r) + 1] = x
                /\ \A i \in 1..Len(r) : Append(r, x)[i] = r[i]
          OBVIOUS
        <4> QED BY <2>2, <3>1, <4>1
      <3>3. channel[1].of = Payload(f)[Len(g_buff) + 1]
        <4>1. 2 - p > 3 /\ 2 - p < n + 4 /\ 2 - p - 3 = Len(g_buff) + 1
          BY <1>0, <1>7, <2>1
        <4> QED BY <1>3, <4>1
      <3>4. ASSUME NEW k \in 1..Len(g_buff') PROVE g_buff'[k] = Payload(f)[k]
        <4>1. k \in 1..Len(g_buff) \/ k = Len(g_buff) + 1
          BY <2>2, <3>2
        <4> QED BY <2>1, <3>2, <3>3, <4>1
      <3>5. Len(g_buff') = 2 - p - 3 /\ 2 - p >= 3
        BY <1>7, <2>1, <3>2
      <3> QED BY <1>a, <1>4, <3>1, <3>4, <3>5 DEF Into
    <2> QED BY <2>3, <2>4, <2>9
  <1> QED BY <1>5, <1>6, <1>7

\* And with the last one.
LEMMA IntoEnds ==
  ASSUME Typed, Collected, Takes, ~IsTimeout,
         NEW f \in Msgs, NEW n \in Lengths(f), NEW p \in Int, Placed(f, n, p),
         p + n + 3 = 1, Into(f, n, 1 - p)
  PROVE  /\ g_rcvState' = "idle" /\ got' = Append(got, Message)
         /\ Len(g_buff) = n /\ \A k \in 1..n : g_buff[k] = Payload(f)[k]
  <1>0. n \in Nat /\ n > ETX /\ n > 3
    BY LengthsType, Sizes
  <1>a. PICK q \in Nat : q = n % BYTE /\ q <= n
    BY <1>0, Mod
  <1>1. PICK s \in States : Take(s)
    BY TakesTake
  <1>2. /\ Len(channel) >= 1 /\ channel \in Seq(Wire) /\ Byte = channel[1].val
    BY <1>1, TakeShorter DEF Typed, WiresOK
  <1>3. channel[1].val = ETX
    BY <1>0, <1>2, HeadByte
  <1>4. g_rcvState = "payload" /\ g_expLen = q /\ Len(g_buff) = n
        /\ \A k \in 1..Len(g_buff) : g_buff[k] = Payload(f)[k]
    BY <1>0, <1>a DEF Into
  <1>5. RcvEtx
    <2>1. RcvPayload \/ RcvEtx
      BY <1>4, BusyTakes
    <2>2. ~RcvPayload
      BY <1>0, <1>a, <1>4 DEF RcvPayload
    <2> QED BY <2>1, <2>2
  <1> QED BY <1>2, <1>3, <1>4, <1>5 DEF RcvEtx

\* A text received as a whole is its message.
LEMMA MessageIs ==
  ASSUME Typed, Collected, NEW f \in Msgs, NEW n \in Lengths(f), Fits(f),
         Len(g_buff) = n, \A k \in 1..n : g_buff[k] = Payload(f)[k]
  PROVE  Message = f
  <1>1. n \in Nat /\ n > ETX /\ n = TextLen(f) /\ n < JSON_BUFFER_SIZE_MAX
    BY LengthsType
  <1>2. g_buff = TextOf(f)
    <2>1. ASSUME NEW k \in 1..n PROVE g_buff[k] = <<f, k>>
      <3>1. k \in 1..(JSON_BUFFER_SIZE_MAX + MaxBehind) /\ k <= JSON_BUFFER_SIZE_MAX
        BY <1>1, Sizes
      <3>2. Payload(f)[k] = <<f, k>>
        BY <3>1 DEF Payload
      <3> QED BY <3>2
    <2>2. g_buff = [k \in 1..n |-> g_buff[k]]
      BY <1>1 DEF Collected
    <2> QED BY <1>1, <2>1, <2>2 DEF TextOf
  <1>3. ASSUME NEW m \in Msgs, TextOf(f) = TextOf(m) PROVE m = f
    <2>1. TextLen(m) \in Nat /\ TextLen(m) > ETX
      BY Sizes DEF TextLen, Msgs
    <2>2. 1 \in 1..TextLen(m) /\ 1 \in 1..TextLen(f)
      BY <1>1, <2>1, Sizes
    <2>3. TextOf(m)[1] = <<m, 1>> /\ TextOf(f)[1] = <<f, 1>>
      BY <2>2 DEF TextOf
    <2> QED BY <1>3, <2>3
  <1> QED BY <1>2, <1>3 DEF Message

\* No parse that reached the first byte of a frame is under way, unless astray.
LEMMA NoneReaches ==
  ASSUME Typed, Collected, Free(1)
  PROVE  g_rcvState = "idle" \/ astray
  <1> SUFFICES ASSUME g_rcvState # "idle", ~astray PROVE FALSE
    OBVIOUS
  <1>1. Progress \in Nat /\ Progress >= 1
    BY ProgressType
  <1>2. PICK j \in Int : j = 1 - Progress
    BY <1>1
  <1>3. Parse(j) /\ j < 1
    BY <1>1, <1>2 DEF Parse
  <1>4. j + 2 < 1 /\ End(j) < 1
    BY <1>3 DEF Free
  <1>5. g_rcvState = "payload" /\ Progress = 3 + Len(g_buff)
    BY <1>2, <1>4 DEF Progress, Typed, PhoneOK, States
  <1>6. End(j) = j + 3 + g_expLen /\ g_expLen \in Nat
    BY <1>4 DEF End, Typed, PhoneOK
  <1>7. Len(g_buff) <= g_expLen /\ Len(g_buff) \in Nat
    BY <1>5 DEF Collected
  <1> QED BY <1>2, <1>4, <1>5, <1>6, <1>7

\* A byte of frame f is taken, or one that is ahead of it.
LEMMA TakesOnItsWay ==
  ASSUME Typed, Collected, TimedOut, Takes, NEW f \in Msgs, NEW n \in Nat, NEW p \in Int,
         OnItsWay(f, n, p)
  PROVE  Taken(f)' \/ OnItsWay(f, n, p - 1)'
  <1>1. PICK s \in States : Take(s)
    BY TakesTake
  <1>2. /\ Len(channel) \in Nat /\ Len(channel) >= 1 /\ Len(channel') = Len(channel) - 1
        /\ channel \in Seq(Wire) /\ last' = channel[1] /\ split' = split
        /\ swallowed \subseteq swallowed'
    BY <1>1, TakeShorter DEF Shorter, Typed, WiresOK
  <1>3. /\ n \in Lengths(f) /\ p + n + 3 >= 1 /\ p <= Len(channel) /\ Placed(f, n, p)
        /\ n > ETX /\ n > 3
    BY LengthsType, Sizes DEF OnItsWay
  <1>4. Placed(f, n, p - 1)' /\ p - 1 \in Int /\ p - 1 <= Len(channel')
    BY <1>2, <1>3, PlacedMoves
  <1>5. CASE p > 1
    <2>1. Free(p - 1)'
      BY <1>3, <1>5, TakesFree DEF OnItsWay
    <2>2. p - 1 >= 1 /\ ~(p - 1 < 1) /\ (p - 1) + n + 3 >= 1
      BY <1>5
    <2> QED BY <1>3, <1>4, <2>1, <2>2 DEF OnItsWay
  <1>6. CASE p = 1
    <2>1. channel[1].val = STX /\ channel[1].of = FIRST /\ channel[1].frame = f
      BY <1>2, <1>3, <1>6, HeadByte
    <2>2. ~(p - 1 >= 1) /\ (p - 1) + n + 3 >= 1
      BY <1>6
    <2>3. CASE g_rcvState = "idle" \/ IsTimeout
      <3>1. g_rcvState' = "seqNo" /\ last'.frame = f /\ ~astray'
        BY <1>2, <2>1, <2>3, IdleTakes
      <3>2. Into(f, n, 1 - (p - 1))'
        BY <1>6, <3>1 DEF Into
      <3> QED BY <1>3, <1>4, <2>2, <3>2 DEF OnItsWay
    <2>4. CASE g_rcvState # "idle" /\ ~IsTimeout
      <3>1. astray
        BY <1>6, <2>4, NoneReaches DEF OnItsWay
      <3>2. Excused(f)'
        BY <2>1, <2>4, <3>1, BusyTakes DEF Excused
      <3> QED BY <1>3, <1>4, <2>2, <3>2 DEF OnItsWay
    <2> QED BY <2>3, <2>4
  <1>7. CASE p < 1
    <2>2. ~(p - 1 >= 1) /\ p - 1 < 1
      BY <1>7
    <2>3. CASE Excused(f)
      <3>2. Excused(f)'
        BY <1>2, <2>3, ExcusedKept
      <3>3. CASE p + n + 3 = 1
        <4>1. ~Sending(f)' /\ \A i \in 1..Len(channel') : channel'[i].frame # f
          BY <1>3, <3>3, PlacedGone
        <4> QED BY <3>2, <4>1 DEF Taken
      <3>4. CASE p + n + 3 > 1
        <4>1. (p - 1) + n + 3 >= 1
          BY <3>4
        <4> QED BY <1>3, <1>4, <2>2, <3>2, <4>1 DEF OnItsWay
      <3> QED BY <1>3, <3>3, <3>4
    <2>4. CASE ~Excused(f)
      <3>1. Into(f, n, 1 - p) /\ Fits(f)
        BY <1>7, <2>4 DEF OnItsWay, Excused
      <3>a. ~IsTimeout
        BY <2>4, <3>1 DEF TimedOut, Excused, Into
      <3>2. CASE p + n + 3 = 1
        <4>1. ~Sending(f)' /\ \A i \in 1..Len(channel') : channel'[i].frame # f
          BY <1>3, <3>2, PlacedGone
        <4>2. /\ got' = Append(got, Message)
              /\ Len(g_buff) = n /\ \A k \in 1..n : g_buff[k] = Payload(f)[k]
          BY <1>3, <3>a, <3>1, <3>2, IntoEnds
        <4>3. ASSUME Fits(f) PROVE \E k \in 1..Len(got') : got'[k] = f
          <5>1. Message = f
            BY <1>3, <4>2, <4>3, MessageIs
          <5>2. got \in Seq(Int) /\ Len(got) \in Nat
            BY DEF Collected
          <5>3. \A S : \A q \in Seq(S) : \A x :
                  Len(Append(q, x)) = Len(q) + 1 /\ Append(q, x)[Len(q) + 1] = x
            OBVIOUS
          <5>4. Len(got') = Len(got) + 1 /\ got'[Len(got) + 1] = f
            BY <4>2, <5>1, <5>2, <5>3
          <5>5. Len(got) + 1 \in 1..Len(got')
            BY <5>2, <5>4
          <5> QED BY <5>4, <5>5
        <4> QED BY <3>1, <4>1, <4>3 DEF Taken
      <3>3. CASE p + n + 3 > 1
        <4>1. Into(f, n, 2 - p)'
          BY <1>3, <1>7, <3>a, <3>1, <3>3, IntoGoesOn
        <4>2. PICK t \in Int : t = 2 - p
          OBVIOUS
        <4>3. t = 1 - (p - 1) /\ Into(f, n, t)' /\ (p - 1) + n + 3 >= 1
          BY <3>3, <4>1, <4>2
        <4>4. Into(f, n, 1 - (p - 1))'
          BY <4>3
        <4> QED BY <1>3, <1>4, <2>2, <4>3, <4>4 DEF OnItsWay
      <3> QED BY <1>3, <3>2, <3>3
    <2> QED BY <2>3, <2>4
  <1> QED BY <1>5, <1>6, <1>7

\* What has been received remains so.
LEMMA GotKept ==
  ASSUME Typed, Collected, Takes
  PROVE  /\ Len(got) \in Nat /\ Len(got') \in Nat /\ Len(got') >= Len(got)
         /\ \A k \in 1..Len(got) : got'[k] = got[k]
         /\ got' # got => Len(got') = Len(got) + 1 /\ got'[Len(got) + 1] = Message
  <1>1. got' = got \/ got' = Append(got, Message)
    BY DEF Takes, RcvIdle, RcvSeqNo, RcvExpLen, RcvPayload, RcvEtx
  <1>2. got \in Seq(Int)
    BY DEF Collected
  <1>3. \A S : \A q \in Seq(S) : \A x :
          /\ Len(Append(q, x)) = Len(q) + 1 /\ Append(q, x)[Len(q) + 1] = x
          /\ \A i \in 1..Len(q) : Append(q, x)[i] = q[i]
    OBVIOUS
  <1>4. Len(got) \in Nat
    BY <1>2
  <1>5. CASE got' = got
    BY <1>4, <1>5
  <1>6. CASE got' = Append(got, Message)
    <2>1. Len(got') = Len(got) + 1 /\ got'[Len(got) + 1] = Message
          /\ \A k \in 1..Len(got) : got'[k] = got[k]
      BY <1>2, <1>3, <1>6
    <2> QED BY <1>4, <2>1
  <1> QED BY <1>1, <1>5, <1>6

LEMMA TakesTaken ==
  ASSUME Typed, Collected, Takes, NEW f, Taken(f)
  PROVE  Taken(f)'
  <1>1. PICK s \in States : Take(s)
    BY TakesTake
  <1>2. /\ Len(channel) \in Nat /\ Len(channel) >= 1 /\ Len(channel') = Len(channel) - 1
        /\ \A i \in 1..Len(channel') : channel'[i] = channel[i + 1]
        /\ UNCHANGED <<pc, cur, split>> /\ swallowed \subseteq swallowed'
    BY <1>1, TakeShorter DEF Shorter, threadVars, Typed, WiresOK
  <1>3. ASSUME NEW i \in 1..Len(channel') PROVE channel'[i].frame # f
    <2>1. i + 1 \in 1..Len(channel)
      BY <1>2
    <2> QED BY <1>2, <2>1 DEF Taken
  <1>4. ASSUME NEW k \in 1..Len(got), got[k] = f
        PROVE  \E i \in 1..Len(got') : got'[i] = f
    <2>1. k \in 1..Len(got') /\ got'[k] = f
      BY <1>4, GotKept
    <2> QED BY <2>1
  <1>5. (Excused(f) => Excused(f)') /\ (Sending(f)' <=> Sending(f))
    BY <1>2, ExcusedKept DEF Sending
  <1> QED BY <1>2, <1>3, <1>4, <1>5 DEF Taken

LEMMA TakesFollowed ==
  ASSUME Typed, Collected, TimedOut, FramesOK, Followed, Takes
  PROVE  FramesOK' /\ Followed'
  <1>1. PICK s \in States : Take(s)
    BY TakesTake
  <1>2. /\ Len(channel) \in Nat /\ Len(channel) >= 1 /\ Len(channel') = Len(channel) - 1
        /\ \A i \in 1..Len(channel') : channel'[i] = channel[i + 1]
        /\ UNCHANGED <<pc, cur, out, samples, mixed>>
    BY <1>1, TakeShorter DEF Shorter, threadVars, Typed, WiresOK
  <1>3. ASSUME NEW f PROVE Started(f)' <=> Started(f)
    BY <1>2 DEF Started, AmidFrame
  <1>4. ASSUME NEW i \in 1..Len(channel') PROVE Started(channel[i].frame)'
    <2>1. i + 1 \in 1..Len(channel)
      BY <1>2
    <2>2. Started(channel[i + 1].frame)
      BY <2>1 DEF FramesOK
    <2>3. channel'[i].frame = channel[i + 1].frame
      BY <1>2
    <2> QED BY <1>2, <2>2, <2>3 DEF Started, AmidFrame
  <1>5. FramesOK'
    BY <1>4 DEF FramesOK
  <1>6. ASSUME NEW f \in Msgs \ mixed, Started(f)
        PROVE  Taken(f)' \/ \E n \in Nat, p \in Int : OnItsWay(f, n, p)'
    <2>1. CASE Taken(f)
      BY <2>1, TakesTaken
    <2>2. ASSUME NEW n \in Nat, NEW p \in Int, OnItsWay(f, n, p)
          PROVE  Taken(f)' \/ \E q \in Int : OnItsWay(f, n, q)'
      <3>1. Taken(f)' \/ OnItsWay(f, n, p - 1)'
        BY <2>2, TakesOnItsWay
      <3>2. p - 1 \in Int
        OBVIOUS
      <3> QED BY <3>1, <3>2
    <2> QED BY <1>6, <2>1, <2>2 DEF Followed
  <1>7. Followed'
    BY <1>2, <1>3, <1>6 DEF Followed
  <1> QED BY <1>5, <1>7

-----------------------------------------------------------------------------
(* The invariant *)

\* In a frame whose payload comes from jsonBuff only the first byte is an STX.
LEMMA CleanByte ==
  ASSUME NEW f, NEW n \in Nat, n > ETX, n < BYTE, NEW b, NEW i \in 1..(n + 4), NEW v,
         \A k \in 1..n : b[k] \in Payloads \ {FOREIGN},
         FrameByte(f, n, b, i, v).val = STX
  PROVE  FrameByte(f, n, b, i, v).of = FIRST
  <1>1. n % BYTE = n
    BY Mod
  <1>2. \A k \in 1..n : b[k] \in Payloads
    OBVIOUS
  <1>3. /\ FrameByte(f, n, b, i, v).of = FIRST <=> i = 1
        /\ i # 2 /\ i # 3 /\ i # n + 4
    <2>1. /\ FrameByte(f, n, b, i, v).of = FIRST <=> i = 1
          /\ i = 2 => FrameByte(f, n, b, i, v).val = SEQ_NO
          /\ i = 3 => FrameByte(f, n, b, i, v).val = n % BYTE
          /\ i = n + 4 => FrameByte(f, n, b, i, v).val = ETX
      BY <1>2, FrameByteVal
    <2> QED BY <1>1, <2>1, Sizes
  <1>4. ~(i > 3 /\ i < n + 4)
    <2> SUFFICES ASSUME i > 3, i < n + 4 PROVE FALSE
      OBVIOUS
    <2>1. i - 3 \in 1..n
      OBVIOUS
    <2>2. b[i - 3] # FOREIGN
      BY <2>1
    <2>3. FrameByte(f, n, b, i, v).val \in {0, Text}
      BY <1>2, <2>2, FrameByteVal
    <2> QED BY <2>3, Sizes
  <1> QED BY <1>3, <1>4

\* What spoils the line does so for good.
LEMMA SpoiltKept ==
  ASSUME mixed \subseteq mixed', cur \in Nat, cur' \in Nat, cur <= cur', Spoilt
  PROVE  Spoilt'
  <1>1. ASSUME NEW m \in Overlong PROVE m \in Overlong'
    <2>1. m \in ThreadMsgs /\ m <= cur /\ ~Fits(m) /\ m \in Nat
      BY MsgType DEF Overlong
    <2>2. m <= cur' /\ ~Fits(m)'
      BY <2>1 DEF Fits, TextLen
    <2> QED BY <2>1, <2>2 DEF Overlong
  <1> QED BY <1>1 DEF Spoilt

\* The node sends.
LEMMA SendsClean ==
  ASSUME Typed, BufferOK, Clean, Sends
  PROVE  Clean'
  <1>1. /\ UNCHANGED phoneVars /\ mixed \subseteq mixed'
        /\ (cur' = cur \/ cur' = cur + 1)
    BY DEF Sends, Open, Put, Send, WriteByte, Sampler, threadVars
  <1>2. UNCHANGED <<astray, swallowed>>
    BY <1>1, PhoneSame
  <1>3. cur \in Nat /\ cur' \in Nat /\ cur <= cur' /\ Len(channel) \in Nat
    <2>1. cur \in Nat /\ Len(channel) \in Nat
      BY MsgType DEF Typed, ThreadOK, WiresOK
    <2> QED BY <1>1, <2>1
  <1> SUFFICES ASSUME ~Spoilt', NEW i \in 1..Len(channel'), channel'[i].val = STX
               PROVE  channel'[i].of = FIRST
    BY <1>1, <1>2, <1>3, SpoiltKept DEF Clean
  <1>4. ~Spoilt
    BY <1>1, <1>3, SpoiltKept
  <1>5. \A k \in 1..Len(channel) : channel[k].val = STX => channel[k].of = FIRST
    BY <1>4 DEF Clean
  <1>6. CASE Open \/ Put \/ Send
    <2>1. channel' = channel
      BY <1>6 DEF Open, Put, Send
    <2> QED BY <1>5, <2>1
  <1>7. CASE WriteByte
    <2>1. /\ Len(channel') = Len(channel) + 1 /\ Grown /\ cur \in ThreadMsgs
          /\ len \in Nat /\ len > ETX /\ out \in Nat /\ out < len + 4 /\ pc = "send"
      BY <1>7, ByteSent
    <2>2. CASE i \in 1..Len(channel)
      BY <1>5, <2>1, <2>2 DEF Grown
    <2>3. CASE i \notin 1..Len(channel)
      <3>1. i = Len(channel) + 1
        BY <1>3, <2>1, <2>3
      <3>2. cur \notin mixed /\ Fits(cur) /\ cur \in Msgs
        BY <1>3, <1>4, <2>1, MsgType DEF Spoilt, Overlong
      <3>3. /\ len \in Lengths(cur)
            /\ channel'[i] = FrameByte(cur, len, Payload(cur), out + 1, channel'[i].val)
        BY <1>7, <3>1, <3>2, TextSent
      <3>4. len < JSON_BUFFER_SIZE_MAX /\ len < BYTE
        <4>1. len < JSON_BUFFER_SIZE_MAX
          BY <3>2, <3>3, LengthsType
        <4> QED BY <2>1, <4>1, Sizes
      <3>5. ASSUME NEW k \in 1..len PROVE Payload(cur)[k] \in Payloads \ {FOREIGN}
        <4>1. k \in 1..(JSON_BUFFER_SIZE_MAX + MaxBehind) /\ k <= JSON_BUFFER_SIZE_MAX
          BY <2>1, <3>4, Sizes
        <4>2. Payload(cur)[k] = <<cur, k>>
          BY <4>1 DEF Payload
        <4>3. k \in Nat /\ cur # 0
          BY <3>2, MsgType
        <4> QED BY <3>2, <4>2, <4>3 DEF Payloads, FOREIGN
      <3>6. PICK j \in 1..(len + 4) : j = out + 1
        BY <2>1
      <3>7. PICK v : v = channel'[i].val
        OBVIOUS
      <3>8. channel'[i] = FrameByte(cur, len, Payload(cur), j, v)
        BY <3>3, <3>6, <3>7
      <3> QED BY <2>1, <3>4, <3>5, <3>8, CleanByte
    <2> QED BY <2>2, <2>3
  <1>8. CASE Sampler
    <2>0. PICK m : m = Len(MsgLen) + (samples + 1)
      OBVIOUS
    <2>1. /\ Len(channel') = Len(channel) + SamplerLen + 4 /\ Grown
          /\ \A k \in 1..(SamplerLen + 4) :
               channel'[Len(channel) + k] = FrameByte(m, SamplerLen, TextOf(m), k, 0)
      BY <1>8, <2>0, FrameSent
    <2>2. CASE i \in 1..Len(channel)
      BY <1>5, <2>1, <2>2 DEF Grown
    <2>3. CASE i \notin 1..Len(channel)
      <3>1. PICK k \in 1..(SamplerLen + 4) : i = Len(channel) + k
        <4>1. i - Len(channel) \in 1..(SamplerLen + 4) /\ i = Len(channel) + (i - Len(channel))
          BY <1>3, <2>1, <2>3, Sizes
        <4> QED BY <4>1
      <3>2. channel'[i] = FrameByte(m, SamplerLen, TextOf(m), k, 0)
        BY <2>1, <3>1
      <3>3. \A j \in 1..SamplerLen : TextOf(m)[j] \in Payloads \ {FOREIGN}
        BY <1>8, <2>0, SamplerText
      <3>4. SamplerLen \in Nat /\ SamplerLen > ETX /\ SamplerLen < BYTE
        BY Sizes
      <3> QED BY <3>2, <3>3, <3>4, CleanByte
    <2> QED BY <2>2, <2>3
  <1> QED BY <1>6, <1>7, <1>8 DEF Sends

\* A byte is taken.
LEMMA TakesClean ==
  ASSUME Typed, Clean, Takes
  PROVE  Clean'
  <1>1. PICK s \in States : Take(s)
    BY TakesTake
  <1>2. /\ Len(channel) \in Nat /\ Len(channel) >= 1 /\ Len(channel') = Len(channel) - 1
        /\ \A i \in 1..Len(channel') : channel'[i] = channel[i + 1]
        /\ UNCHANGED <<cur, mixed>> /\ Head(channel) = channel[1] /\ Byte = channel[1].val
    BY <1>1, TakeShorter DEF Shorter, threadVars, Typed, WiresOK
  <1>3. cur \in Nat
    BY MsgType DEF Typed, ThreadOK
  <1>4. Spoilt => Spoilt'
    BY <1>2, <1>3, SpoiltKept
  <1> SUFFICES ASSUME ~Spoilt
               PROVE  /\ ~astray' /\ swallowed' = {}
                      /\ \A i \in 1..Len(channel') :
                           channel'[i].val = STX => channel'[i].of = FIRST
    BY <1>4 DEF Clean
  <1>5. /\ ~astray /\ swallowed = {}
        /\ \A i \in 1..Len(channel) : channel[i].val = STX => channel[i].of = FIRST
    BY DEF Clean
  <1>6. ~astray' /\ swallowed' = {}
    <2>1. 1 \in 1..Len(channel)
      BY <1>2
    <2>2. /\ astray' = IF s = "idle" THEN channel[1].val = STX /\ channel[1].of # FIRST
                                     ELSE astray
          /\ swallowed' = IF s # "idle" /\ astray /\ channel[1].of = FIRST
                            THEN swallowed \cup {channel[1].frame} ELSE swallowed
      BY <1>1, <1>2 DEF Take
    <2> QED BY <1>5, <2>1, <2>2
  <1>7. ASSUME NEW i \in 1..Len(channel'), channel'[i].val = STX
        PROVE  channel'[i].of = FIRST
    <2>1. i + 1 \in 1..Len(channel)
      BY <1>2
    <2> QED BY <1>2, <1>5, <1>7, <2>1
  <1> QED BY <1>6, <1>7

\* Time passes.
LEMMA PauseFlow ==
  ASSUME Flow, Pause
  PROVE  /\ LineOK' /\ Collected' /\ TimedOut' /\ BufferOK' /\ FramesOK' /\ Followed'
         /\ Clean'
  <1>1. /\ UNCHANGED <<jsonBuff, pc, cur, put, len, out, samples, channel, mixed,
                       g_rcvState, g_expLen, g_buff, got, last, astray, swallowed>>
        /\ split' = IF g_rcvState # "idle" /\ IsTimeout' THEN split \cup {last.frame} ELSE split
    BY DEF Pause, threadVars
  <1>2. TimedOut'
    BY <1>1 DEF TimedOut
  <1>3. LineOK' /\ Collected'
    BY <1>1 DEF Flow, LineOK, Parse, Progress, End, Remaining, AmidFrame, Collected
  <1>4. BufferOK' /\ FramesOK'
    BY <1>1 DEF Flow, BufferOK, Lengths, Fits, TextLen, FramesOK, Started, AmidFrame
  <1>5. split \subseteq split' /\ swallowed \subseteq swallowed'
    BY <1>1
  <1>a. ASSUME NEW f PROVE Excused(f) => Excused(f)'
    BY <1>5, ExcusedKept
  <1>6. ASSUME NEW f PROVE (Started(f)' <=> Started(f)) /\ (Taken(f) => Taken(f)')
    BY <1>1, <1>a DEF Started, AmidFrame, Taken, Sending
  <1>7. ASSUME NEW f, NEW n, NEW p PROVE OnItsWay(f, n, p) => OnItsWay(f, n, p)'
    <2>1. Placed(f, n, p)' <=> Placed(f, n, p)
      BY <1>1 DEF Placed, Sending
    <2>2. Free(p)' <=> Free(p)
      BY <1>1 DEF Free, Parse, Progress, End
    <2>3. Into(f, n, 1 - p)' <=> Into(f, n, 1 - p)
      BY <1>1 DEF Into
    <2> QED BY <1>1, <1>a, <2>1, <2>2, <2>3 DEF OnItsWay
  <1>8. Followed'
    BY <1>1, <1>6, <1>7 DEF Flow, Followed
  <1>9. Clean'
    BY <1>1 DEF Flow, Clean, Spoilt, Overlong, Fits, TextLen
  <1> QED BY <1>2, <1>3, <1>4, <1>8, <1>9

\* A byte is taken: the timeout begins anew.
LEMMA TakesFlow ==
  ASSUME Flow, Takes, ClockInv'
  PROVE  /\ LineOK' /\ Collected' /\ TimedOut' /\ BufferOK' /\ FramesOK' /\ Followed'
         /\ Clean'
  <1>1. PICK s \in States : Take(s)
    BY TakesTake
  <1>2. UNCHANGED <<jsonBuff, threadVars, mixed>>
    BY <1>1 DEF Take
  <1>3. BufferOK'
    BY <1>2 DEF Flow, threadVars, BufferOK, Lengths, Fits, TextLen
  <1>4. TimedOut'
    <2>1. elapsed' = 0
      BY <1>1 DEF Take, SetTimeout
    <2>2. (ClockInv => TimeoutExact)'
      BY ClockExact, PTL
    <2>3. ~IsTimeout'
      BY <2>1, <2>2, TickAssumption DEF TimeoutExact
    <2> QED BY <2>3 DEF TimedOut
  <1> QED BY <1>3, <1>4, TakesCollected, TakesLine, TakesFollowed, TakesClean DEF Flow

\* The node sends.
LEMMA SendsFlow ==
  ASSUME Flow, Sends
  PROVE  /\ LineOK' /\ Collected' /\ TimedOut' /\ BufferOK' /\ FramesOK' /\ Followed'
         /\ Clean'
  <1>1. UNCHANGED phoneVars
    BY DEF Sends, Open, Put, Send, WriteByte, Sampler
  <1>2. Collected' /\ TimedOut' /\ Clean'
    BY <1>1, PhoneSame, SendsClean DEF Flow, Collected, TimedOut, IsTimeout
  <1>3. CASE Open \/ Put \/ Send
    BY <1>2, <1>3, FormatBuffer, FormatLine, FormatFollowed DEF Flow
  <1>4. CASE WriteByte
    BY <1>2, <1>4, SendBuffer, WriteLine, WriteFollowed DEF Flow
  <1>5. CASE Sampler
    BY <1>2, <1>5, SendBuffer, SamplerLine, SamplerFollowed DEF Flow
  <1> QED BY <1>3, <1>4, <1>5 DEF Sends

\* Nothing has been sent.
LEMMA InitFlow == Init => Flow
  <1> SUFFICES ASSUME Init PROVE Flow
    OBVIOUS
  <1>1. Typed /\ ClockInv
    BY InitTyped, InitClock DEF Init
  <1>2. /\ channel = <<>> /\ Len(channel) = 0 /\ got = <<>> /\ g_buff = <<>>
        /\ g_rcvState = "idle" /\ pc = "idle" /\ cur = 0 /\ samples = 0
        /\ ~astray /\ swallowed = {}
    BY DEF Init
  <1>3. LineOK
    BY <1>2 DEF LineOK, Parse
  <1>4. Collected /\ TimedOut /\ BufferOK
    BY <1>2 DEF Collected, TimedOut, BufferOK
  <1>5. FramesOK /\ Clean
    BY <1>2 DEF FramesOK, Clean
  <1>6. ASSUME NEW f \in Msgs PROVE ~Started(f)
    BY <1>2, MsgType DEF Started, Msgs, ThreadMsgs, SamplerMsgs
  <1>7. Followed
    BY <1>6 DEF Followed
  <1> QED BY <1>1, <1>3, <1>4, <1>5, <1>7 DEF Flow

LEMMA NextFlow == Flow /\ [Next]_vars => Flow'
  <1> SUFFICES ASSUME Flow, [Next]_vars PROVE Flow'
    OBVIOUS
  <1>1. Typed' /\ ClockInv'
    BY NextTyped, ClockSteps, NextClock DEF Flow
  <1>2. CASE Next
    BY <1>1, <1>2, PauseFlow, TakesFlow, SendsFlow
       DEF Flow, Next, Thread, Phone, Takes, Sends
  <1>3. CASE UNCHANGED vars
    <2>1. /\ UNCHANGED <<jsonBuff, pc, cur, put, len, out, samples, channel, mixed,
                         g_rcvState, g_expLen, g_buff, got, last, split, astray, swallowed,
                         now, timeset, timeout, elapsed>>
      BY <1>3 DEF vars, threadVars, phoneVars, clockVars
    <2>2. LineOK' /\ Collected' /\ TimedOut'
      BY <2>1 DEF Flow, LineOK, Parse, Progress, End, Remaining, AmidFrame, Collected,
                  TimedOut, IsTimeout
    <2>3. BufferOK' /\ FramesOK'
      BY <2>1 DEF Flow, BufferOK, Lengths, Fits, TextLen, FramesOK, Started, AmidFrame
    <2>a. ASSUME NEW f PROVE Excused(f) => Excused(f)'
      BY <2>1, ExcusedKept
    <2>4. ASSUME NEW f PROVE (Started(f)' <=> Started(f)) /\ (Taken(f) => Taken(f)')
      BY <2>1, <2>a DEF Started, AmidFrame, Taken, Sending
    <2>5. ASSUME NEW f, NEW n, NEW p PROVE OnItsWay(f, n, p) => OnItsWay(f, n, p)'
      <3>1. Placed(f, n, p)' <=> Placed(f, n, p)
        BY <2>1 DEF Placed, Sending
      <3>2. Free(p)' <=> Free(p)
        BY <2>1 DEF Free, Parse, Progress, End
      <3>3. Into(f, n, 1 - p)' <=> Into(f, n, 1 - p)
        BY <2>1 DEF Into
      <3> QED BY <2>1, <2>a, <3>1, <3>2, <3>3 DEF OnItsWay
    <2>6. Followed'
      BY <2>1, <2>4, <2>5 DEF Flow, Followed
    <2>7. Clean'
      BY <2>1 DEF Flow, Clean, Spoilt, Overlong, Fits, TextLen
    <2> QED BY <1>1, <2>2, <2>3, <2>6, <2>7 DEF Flow
  <1> QED BY <1>2, <1>3

\* A number in a finite sequence is counted.
LEMMA Counted ==
  ASSUME Collected, NEW m, NEW k \in 1..Len(got), got[k] = m
  PROVE  TimesReceived(m) >= 1
  <1> DEFINE K == {i \in 1..Len(got) : got[i] = m}
  <1>1. Len(got) \in Nat /\ IsFiniteSet(1..Len(got))
    BY FS_Interval DEF Collected
  <1>2. IsFiniteSet(K)
    BY <1>1, FS_Subset
  <1>3. Cardinality(K) \in Nat /\ Cardinality(K) # 0
    BY <1>2, FS_CardinalityType, FS_EmptySet
  <1> QED BY <1>3 DEF TimesReceived

\* A message that fits into the buffer, that no other writer got at and that
\* reached the phone without a pause is received, whatever was mixed up or
\* given up before it, unless the phone was at its first byte in a parse that
\* began at no frame's first: then there was a frame that was mixed up or too
\* long for jsonBuff.  This holds for memory behind jsonBuff of any contents,
\* of which strlen may take in any number of bytes.
THEOREM UnmixedArrive == Spec => []UnmixedReceived
  <1>1. Flow => UnmixedReceived
    <2> SUFFICES ASSUME Flow, NEW m \in Msgs \ (mixed \cup split), Over(m), Fits(m)
                 PROVE  \/ TimesReceived(m) >= 1
                        \/ m \in swallowed /\ (mixed # {} \/ Overlong # {})
      BY DEF UnmixedReceived
    <2>1. Started(m)
      BY MsgType DEF Over, Sent, Started
    <2>2. ~Sending(m)
      <3>1. CASE m \in ThreadMsgs
        BY <3>1, MsgType DEF Over, Sent, Sending, Flow, Typed, ThreadOK
      <3>2. CASE m \notin ThreadMsgs
        BY <3>2 DEF Sending, Flow, Typed, ThreadOK
      <3> QED BY <3>1, <3>2
    <2>3. ASSUME NEW n \in Nat, NEW p \in Int, OnItsWay(m, n, p) PROVE FALSE
      <3>1. /\ n \in Lengths(m) /\ n > ETX /\ p + n + 3 >= 1 /\ p + n + 3 <= Len(channel)
            /\ Placed(m, n, p) /\ Len(channel) \in Nat /\ n <= JSON_BUFFER_SIZE_MAX + MaxBehind
        BY <2>2, <2>3, LengthsType DEF OnItsWay, Placed, Flow, Typed, WiresOK
      <3>2. PICK i \in 1..Len(channel) : i = p + n + 3
        BY <3>1
      <3>3. channel[i] = FrameByte(m, n, Payload(m), n + 4, channel[i].val)
        <4>1. p <= i /\ i <= p + n + 3 /\ i - p + 1 = n + 4
          BY <3>1, <3>2, Sizes
        <4> QED BY <3>1, <4>1 DEF Placed
      <3>4. channel[i].frame = m
        <4>1. \A k \in 1..n : k \in 1..(JSON_BUFFER_SIZE_MAX + MaxBehind)
          BY <3>1, Sizes
        <4>2. \A k \in 1..n : Payload(m)[k] \in Payloads
          BY <4>1, PayloadType
        <4>3. n + 4 \in 1..(n + 4)
          OBVIOUS
        <4>4. PICK v : v = channel[i].val
          OBVIOUS
        <4>5. FrameByte(m, n, Payload(m), n + 4, v).frame = m
          BY <3>1, <4>2, <4>3, FrameByteVal
        <4> QED BY <3>3, <4>4, <4>5
      <3> QED BY <3>4 DEF Over
    <2>4. Taken(m)
      BY <2>1, <2>3 DEF Flow, Followed
    <2>5. CASE m \in swallowed
      BY <2>5 DEF Flow, Clean, Spoilt
    <2>6. CASE m \notin swallowed
      BY <2>4, <2>6, Counted DEF Taken, Excused, Flow
    <2> QED BY <2>5, <2>6
  <1> QED BY <1>1, InitFlow, NextFlow, PTL DEF Spec

-----------------------------------------------------------------------------
(* As long as nothing is mixed up: what is received besides the messages.  *)

\* A parse that is not astray is in a frame that is on its way.
Inside(f, n, p) == Started(f) /\ p < 1 /\ OnItsWay(f, n, p) /\ Into(f, n, 1 - p)

Within ==
  mixed = {} /\ g_rcvState # "idle" /\ ~astray =>
    \E f \in Msgs, n \in Nat, p \in Int : Inside(f, n, p)

\* Whatever the node sends, the parser stays in its frame.
LEMMA SendsWithin ==
  ASSUME Flow, Within, Sends
  PROVE  Within'
  <1> USE DEF Flow
  <1>1. UNCHANGED phoneVars /\ mixed \subseteq mixed'
    BY DEF Sends, Open, Put, Send, WriteByte, Sampler
  <1>2. UNCHANGED <<g_rcvState, astray>>
    BY <1>1, PhoneSame
  <1> SUFFICES ASSUME mixed' = {}, g_rcvState # "idle", ~astray
               PROVE  \E f \in Msgs, n \in Nat, p \in Int : Inside(f, n, p)'
    BY <1>2 DEF Within
  <1>3. mixed = {}
    BY <1>1
  <1>4. PICK f \in Msgs, n \in Nat, p \in Int : Inside(f, n, p)
    BY <1>3 DEF Within
  <1>5. Started(f)' /\ Into(f, n, 1 - p)'
    BY <1>1, <1>4, StartedKept, IntoKept DEF Inside
  <1>6. CASE Open \/ Put \/ Send
    <2>1. /\ channel' = channel /\ pc # "send" /\ (pc' = "send" => out' = 0 /\ cur' = cur /\ pc = "format")
      BY <1>6 DEF Open, Put, Send
    <2>2. Grown /\ channel' \in Seq(Wire) /\ ~Sending(f)
      BY <1>1, <2>1 DEF Grown, Typed, WiresOK, Sending
    <2>3. ~Sending(f)'
      <3>1. ASSUME f = cur', pc' = "send" PROVE FALSE
        <4>1. f = cur /\ pc = "format" /\ f \in ThreadMsgs /\ f \in Nat
          BY <2>1, <3>1, MsgType DEF Typed, ThreadOK
        <4> QED BY <1>4, <4>1 DEF Inside, Started, AmidFrame
      <3> QED BY <3>1 DEF Sending
    <2>4. \A i \in (Len(channel) + 1)..Len(channel') : channel'[i].frame # f
      BY <2>1, <2>2
    <2> QED BY <1>4, <1>5, <2>2, <2>3, <2>4, OnItsWayKept DEF Inside
  <1>7. CASE WriteByte
    <2>a. pc = "send" /\ cur' = cur
      BY <1>7 DEF WriteByte
    <2>b. /\ Len(channel') = Len(channel) + 1 /\ Grown /\ channel' \in Seq(Wire)
          /\ channel'[Len(channel) + 1].frame = cur
          /\ out \in Nat /\ cur \in ThreadMsgs
      BY <1>7, ByteSent
    <2>c. Len(channel) \in Nat
      BY DEF Typed, WiresOK
    <2>d. cur \in Nat
      BY <2>b, MsgType
    <2>1. /\ Len(channel') = Len(channel) + 1 /\ Grown /\ channel' \in Seq(Wire)
          /\ channel'[Len(channel) + 1].frame = cur /\ Len(channel) \in Nat
          /\ out \in Nat /\ cur \in ThreadMsgs /\ pc = "send" /\ cur' = cur /\ cur \in Nat
      BY <2>a, <2>b, <2>c, <2>d
    <2>2. CASE f # cur
      <3>1. ~Sending(f) /\ ~Sending(f)'
        BY <2>1, <2>2 DEF Sending
      <3>2. \A i \in (Len(channel) + 1)..Len(channel') : channel'[i].frame # f
        <4>1. \A i \in (Len(channel) + 1)..Len(channel') : i = Len(channel) + 1
          BY <2>1
        <4> QED BY <2>1, <2>2, <4>1
      <3> QED BY <1>4, <1>5, <2>1, <3>1, <3>2, OnItsWayKept DEF Inside
    <2>3. CASE f = cur
      <3>1. out > 0
        BY <1>4, <2>1, <2>3 DEF Inside, Started, AmidFrame
      <3>2. OnItsWay(f, n, p)'
        BY <1>3, <1>4, <1>7, <2>3, <3>1, SendingGoesOn DEF Inside
      <3> QED BY <1>4, <1>5, <3>2 DEF Inside
    <2> QED BY <2>2, <2>3
  <1>8. CASE Sampler
    <2>0. PICK m : m = Len(MsgLen) + (samples + 1)
      OBVIOUS
    <2>1. /\ Len(channel') = Len(channel) + SamplerLen + 4 /\ Grown /\ channel' \in Seq(Wire)
          /\ \A i \in 1..(SamplerLen + 4) :
               channel'[Len(channel) + i] = FrameByte(m, SamplerLen, TextOf(m), i, 0)
          /\ mixed' = mixed \cup (IF pc = "idle" THEN {} ELSE {cur})
                            \cup (IF AmidFrame THEN {m} ELSE {})
          /\ UNCHANGED threadVars /\ m \in Msgs \ ThreadMsgs
      BY <1>8, <2>0, FrameSent
    <2>a. pc = "idle"
      <3>1. pc # "idle" => cur \in mixed'
        BY <2>1
      <3> QED BY <3>1
    <2>b. pc' = pc
      BY <2>1 DEF threadVars
    <2>c. Len(channel) \in Nat
      BY DEF Typed, WiresOK
    <2>d. samples \in Nat
      BY FrameAssumption DEF Typed, WiresOK
    <2>2. pc = "idle" /\ pc' = "idle" /\ Len(channel) \in Nat /\ samples \in Nat
      BY <2>a, <2>b, <2>c, <2>d
    <2>3. ~Sending(f) /\ ~Sending(f)'
      BY <2>2 DEF Sending
    <2>4. f # m
      BY <1>4, <2>0, <2>1, <2>2, MsgType DEF Inside, Started
    <2>5. ASSUME NEW i \in (Len(channel) + 1)..Len(channel')
          PROVE  channel'[i].frame # f
      <3>1. i - Len(channel) \in 1..(SamplerLen + 4) /\ Len(channel) + (i - Len(channel)) = i
        BY <2>1, <2>2, Sizes
      <3>2. channel'[i] = FrameByte(m, SamplerLen, TextOf(m), i - Len(channel), 0)
        BY <2>1, <3>1
      <3>3. PICK k \in 1..(SamplerLen + 4) : k = i - Len(channel)
        BY <3>1
      <3>4. FrameByte(m, SamplerLen, TextOf(m), k, 0).frame = m
        <4>1. \A j \in 1..SamplerLen : TextOf(m)[j] \in Payloads
          BY <1>8, <2>0, SamplerText
        <4> QED BY <4>1, FrameByteVal, Sizes
      <3> QED BY <2>4, <3>2, <3>3, <3>4
    <2> QED BY <1>4, <1>5, <2>1, <2>3, <2>5, OnItsWayKept DEF Inside
  <1> QED BY <1>6, <1>7, <1>8 DEF Sends

\* The frame at the head of the line.
LEMMA HeadFrame ==
  ASSUME Flow, mixed = {}, Len(channel) >= 1
  PROVE  \E f \in Msgs, n \in Nat, p \in Int :
           Started(f) /\ OnItsWay(f, n, p) /\ channel[1].frame = f /\ p <= 1
  <1> USE DEF Flow
  <1>1. 1 \in 1..Len(channel) /\ channel \in Seq(Wire)
    BY DEF Typed, WiresOK
  <1>2. PICK f \in Msgs : f = channel[1].frame
    BY <1>1, WireFields
  <1>3. Started(f) /\ ~Taken(f)
    BY <1>1, <1>2 DEF FramesOK, Taken
  <1>4. PICK n \in Nat, p \in Int : OnItsWay(f, n, p)
    BY <1>3 DEF Followed
  <1>5. p <= 1
    BY <1>1, <1>2, <1>4 DEF OnItsWay, Placed
  <1> QED BY <1>2, <1>3, <1>4, <1>5

LEMMA TakesWithin ==
  ASSUME Flow, Within, Takes
  PROVE  Within'
  <1> USE DEF Flow
  <1>1. PICK s \in States : Take(s)
    BY TakesTake
  <1>2. /\ Len(channel) \in Nat /\ Len(channel) >= 1 /\ Len(channel') = Len(channel) - 1
        /\ channel \in Seq(Wire) /\ last' = channel[1]
        /\ UNCHANGED <<pc, cur, out, samples, mixed>>
    BY <1>1, TakeShorter DEF Shorter, threadVars, Typed, WiresOK
  <1>3. ASSUME NEW f PROVE Started(f)' <=> Started(f)
    BY <1>2 DEF Started, AmidFrame
  <1> SUFFICES ASSUME mixed = {}, g_rcvState' # "idle", ~astray'
               PROVE  \E f \in Msgs, n \in Nat, p \in Int : Inside(f, n, p)'
    BY <1>2 DEF Within
  <1>4. ASSUME NEW f \in Msgs, NEW n \in Nat, NEW p \in Int, p <= 1, Started(f),
               OnItsWay(f, n, p), p + n + 3 > 1, NEW t \in Int, t = 2 - p, Into(f, n, t)'
        PROVE  Inside(f, n, p - 1)'
    <2>1. Placed(f, n, p - 1)' /\ p - 1 \in Int /\ n \in Lengths(f)
      BY <1>4, PlacedMoves DEF OnItsWay
    <2>2. t = 1 - (p - 1) /\ (p - 1) + n + 3 >= 1 /\ p - 1 <= Len(channel') /\ p - 1 < 1
          /\ ~(p - 1 >= 1)
      BY <1>2, <1>4
    <2>3. Into(f, n, 1 - (p - 1))'
      BY <1>4, <2>2
    <2> QED BY <1>3, <1>4, <2>1, <2>2, <2>3 DEF Inside, OnItsWay
  <1>5. CASE g_rcvState = "idle" \/ IsTimeout
    <2>1. channel[1].of = FIRST /\ g_rcvState' = "seqNo"
      BY <1>5, IdleTakes
    <2>2. PICK f \in Msgs, n \in Nat, p \in Int :
            Started(f) /\ OnItsWay(f, n, p) /\ channel[1].frame = f /\ p <= 1
      BY <1>2, HeadFrame
    <2>3. /\ n \in Lengths(f) /\ p + n + 3 >= 1 /\ Placed(f, n, p) /\ n > 3
      BY <2>2, LengthsType, Sizes DEF OnItsWay
    <2>4. p = 1
      BY <1>2, <2>1, <2>2, <2>3, HeadByte
    <2>5. PICK t \in Int : t = 1
      OBVIOUS
    <2>6. Into(f, n, t)' /\ t = 2 - p
      BY <1>2, <2>1, <2>2, <2>4, <2>5 DEF Into
    <2>7. Inside(f, n, p - 1)'
      BY <1>4, <2>2, <2>3, <2>4, <2>6
    <2>8. p - 1 \in Int
      OBVIOUS
    <2> QED BY <2>7, <2>8
  <1>6. CASE g_rcvState # "idle" /\ ~IsTimeout
    <2>1. PICK f \in Msgs, n \in Nat, p \in Int : Inside(f, n, p)
      <3>1. ~astray
        BY <1>6, BusyTakes
      <3> QED BY <1>6, <3>1 DEF Within
    <2>2. /\ n \in Lengths(f) /\ p + n + 3 >= 1 /\ Placed(f, n, p) /\ p < 1
          /\ Into(f, n, 1 - p)
      BY <2>1 DEF Inside, OnItsWay
    <2>3. p + n + 3 # 1
      BY <1>6, <2>2, IntoEnds
    <2>4. p + n + 3 > 1
      BY <2>2, <2>3
    <2>5. Into(f, n, 2 - p)'
      BY <1>6, <2>2, <2>4, IntoGoesOn
    <2>6. PICK t \in Int : t = 2 - p
      OBVIOUS
    <2>7. Into(f, n, t)'
      BY <2>5, <2>6
    <2>8. Inside(f, n, p - 1)'
      BY <1>4, <2>1, <2>2, <2>4, <2>6, <2>7 DEF Inside
    <2>9. p - 1 \in Int
      OBVIOUS
    <2> QED BY <2>8, <2>9
  <1> QED BY <1>5, <1>6

\* In front of byte i on the line.
Prev(i) == IF i = 1 THEN last ELSE channel[i - 1]
Tip == IF Len(channel) = 0 THEN last ELSE channel[Len(channel)]

\* What comes before the sequence number, the length and a text's first byte.
Leads(b, c) == /\ c = SEQNO => b = FIRST
               /\ c = LENGTH => b = SEQNO
               /\ c \in Beginnings => b = LENGTH

\* The bytes of a frame lie one behind the other.
Adjacent ==
  mixed = {} =>
    /\ \A i \in 1..Len(channel) : Leads(Prev(i).of, channel[i].of)
    /\ pc = "send" => /\ out = 1 => Tip.of = FIRST
                      /\ out = 2 => Tip.of = SEQNO
                      /\ out = 3 => Tip.of = LENGTH

\* So a parse that began astray never takes a text from its beginning.
Lost ==
  mixed = {} /\ astray =>
    /\ g_rcvState = "seqNo" => last.of # FIRST
    /\ g_rcvState = "expLen" => last.of # SEQNO
    /\ g_rcvState = "payload" => IF Len(g_buff) = 0 THEN last.of # LENGTH
                                 ELSE g_buff[1] \notin Beginnings

\* Which byte of a frame it is.
LEMMA FrameByteOf ==
  ASSUME NEW f, NEW n \in Nat, n > ETX, NEW b, NEW i \in 1..(n + 4), NEW v,
         \A k \in 1..n : b[k] \in Payloads,
         \A k \in 1..n : b[k] \in Beginnings => k = 1
  PROVE  /\ FrameByte(f, n, b, i, v).of = FIRST <=> i = 1
         /\ FrameByte(f, n, b, i, v).of = SEQNO <=> i = 2
         /\ FrameByte(f, n, b, i, v).of = LENGTH <=> i = 3
         /\ FrameByte(f, n, b, i, v).of \in Beginnings => i = 4
  <1>0. \A w, x : Control(w, x, f).of = x
    BY DEF Control
  <1>1. CASE i = 1
    BY <1>0, <1>1, Origins DEF FrameByte
  <1>2. CASE i = 2
    BY <1>0, <1>2, Origins DEF FrameByte
  <1>3. CASE i = 3
    BY <1>0, <1>3, Origins DEF FrameByte
  <1>4. CASE i = n + 4
    BY <1>0, <1>4, Origins, Sizes DEF FrameByte
  <1>5. CASE i > 3 /\ i < n + 4
    <2>1. PICK k \in 1..n : k = i - 3
      BY <1>5
    <2>2. FrameByte(f, n, b, i, v).of = b[k]
      BY <1>5, <2>1, FrameByteVal
    <2>3. b[k] # FIRST /\ b[k] # SEQNO /\ b[k] # LENGTH /\ (b[k] \in Beginnings => i = 4)
      BY <2>1, Origins
    <2> QED BY <1>5, <2>2, <2>3
  <1> QED BY <1>1, <1>2, <1>3, <1>4, <1>5, Sizes

\* Texts, and what is sent as one, begin once.
LEMMA BeginsOnce ==
  ASSUME NEW f \in Msgs
  PROVE  /\ \A k \in 1..(JSON_BUFFER_SIZE_MAX + MaxBehind) :
              Payload(f)[k] \in Beginnings => k = 1
         /\ \A k \in Nat : <<f, k>> \in Beginnings => k = 1
  <1>1. \A k \in Nat : <<f, k>> \in Beginnings => k = 1
    BY DEF Beginnings
  <1>2. FOREIGN \notin Beginnings
    BY Origins
  <1>3. ASSUME NEW k \in 1..(JSON_BUFFER_SIZE_MAX + MaxBehind), Payload(f)[k] \in Beginnings
        PROVE  k = 1
    <2>1. Payload(f)[k] = IF k <= JSON_BUFFER_SIZE_MAX THEN <<f, k>> ELSE FOREIGN
      BY DEF Payload
    <2>2. k \in Nat
      BY Sizes
    <2> QED BY <1>1, <1>2, <1>3, <2>1, <2>2
  <1> QED BY <1>1, <1>3

LEMMA SamplerBegins ==
  ASSUME Typed, Sampler, NEW m, m = Len(MsgLen) + (samples + 1)
  PROVE  \A k \in 1..SamplerLen : TextOf(m)[k] \in Beginnings => k = 1
  <1>1. m \in Msgs /\ TextOf(m) = [k \in 1..SamplerLen |-> <<m, k>>]
    BY FrameSent
  <1>2. \A k \in 1..SamplerLen : k \in Nat /\ TextOf(m)[k] = <<m, k>>
    BY <1>1, Sizes
  <1> QED BY <1>1, <1>2, BeginsOnce

\* The node sends.
LEMMA SendsAdjacent ==
  ASSUME Typed, BufferOK, Adjacent, Sends
  PROVE  Adjacent'
  <1> DEFINE L == Len(channel)
  <1>1. UNCHANGED phoneVars /\ mixed \subseteq mixed' /\ L \in Nat /\ out \in Nat
    BY DEF Sends, Open, Put, Send, WriteByte, Sampler, Typed, WiresOK, ThreadOK
  <1>2. last' = last
    BY <1>1, PhoneSame
  <1> SUFFICES ASSUME mixed' = {}
               PROVE  /\ \A i \in 1..Len(channel') : Leads(Prev(i)'.of, channel'[i].of)
                      /\ pc' = "send" =>
                           /\ out' = 1 => Tip'.of = FIRST
                           /\ out' = 2 => Tip'.of = SEQNO
                           /\ out' = 3 => Tip'.of = LENGTH
    BY DEF Adjacent, Leads
  <1>3. /\ mixed = {}
        /\ \A i \in 1..L : Leads(Prev(i).of, channel[i].of)
        /\ pc = "send" => /\ out = 1 => Tip.of = FIRST
                          /\ out = 2 => Tip.of = SEQNO
                          /\ out = 3 => Tip.of = LENGTH
    BY <1>1 DEF Adjacent
  <1>4. ASSUME Grown PROVE \A i \in 1..(L + 1) : Prev(i)' = Prev(i)
    <2> SUFFICES ASSUME NEW i \in 1..(L + 1) PROVE Prev(i)' = Prev(i)
      OBVIOUS
    <2>1. i # 1 => i - 1 \in 1..L
      BY <1>1
    <2> QED BY <1>2, <1>4, <2>1 DEF Prev, Grown
  <1>a. Prev(L + 1) = Tip
    <2>1. (L + 1 = 1 <=> L = 0) /\ L + 1 - 1 = L
      BY <1>1
    <2> QED BY <2>1 DEF Prev, Tip
  <1>5. CASE Open \/ Put \/ Send
    <2>1. channel' = channel /\ (pc' = "send" => out' = 0)
      BY <1>5 DEF Open, Put, Send
    <2>2. Grown
      BY <1>1, <2>1 DEF Grown
    <2>3. \A i \in 1..L : Prev(i)' = Prev(i)
      BY <1>1, <1>4, <2>2
    <2> QED BY <1>3, <2>1, <2>3
  <1>6. CASE WriteByte
    <2>1. /\ Len(channel') = L + 1 /\ Grown /\ cur \in ThreadMsgs /\ pc = "send"
          /\ len \in Nat /\ len > ETX /\ out < len + 4 /\ cur \in Msgs
      BY <1>6, ByteSent, MsgType
    <2>2. /\ len \in Lengths(cur)
          /\ channel'[L + 1] = FrameByte(cur, len, Payload(cur), out + 1, channel'[L + 1].val)
      BY <1>3, <1>6, TextSent
    <2>3. ASSUME NEW k \in 1..len
          PROVE  Payload(cur)[k] \in Payloads /\ (Payload(cur)[k] \in Beginnings => k = 1)
      <3>1. k \in 1..(JSON_BUFFER_SIZE_MAX + MaxBehind)
        <4>1. len <= JSON_BUFFER_SIZE_MAX + MaxBehind
          BY <2>1, <2>2, LengthsType
        <4> QED BY <2>1, <4>1, Sizes
      <3> QED BY <2>1, <3>1, PayloadType, BeginsOnce
    <2>4. PICK j \in 1..(len + 4) : j = out + 1
      BY <1>1, <2>1
    <2>5. PICK v : v = channel'[L + 1].val
      OBVIOUS
    <2>6. channel'[L + 1] = FrameByte(cur, len, Payload(cur), j, v)
      BY <2>2, <2>4, <2>5
    <2>7. /\ channel'[L + 1].of = FIRST <=> j = 1
          /\ channel'[L + 1].of = SEQNO <=> j = 2
          /\ channel'[L + 1].of = LENGTH <=> j = 3
          /\ channel'[L + 1].of \in Beginnings => j = 4
      BY <2>1, <2>3, <2>6, FrameByteOf
    <2>8. Leads(Prev(L + 1).of, channel'[L + 1].of)
      <3>1. (j = 2 <=> out = 1) /\ (j = 3 <=> out = 2) /\ (j = 4 <=> out = 3)
        BY <1>1, <2>4
      <3> QED BY <1>3, <1>a, <2>1, <2>7, <3>1 DEF Leads
    <2>9. ASSUME NEW i \in 1..Len(channel') PROVE Leads(Prev(i)'.of, channel'[i].of)
      <3>1. CASE i \in 1..L
        <4>1. channel'[i] = channel[i] /\ Prev(i)' = Prev(i)
          BY <1>1, <1>4, <2>1, <3>1 DEF Grown
        <4> QED BY <1>3, <3>1, <4>1
      <3>2. CASE i \notin 1..L
        <4>1. i = L + 1 /\ i \in 1..(L + 1)
          BY <1>1, <2>1, <3>2
        <4>2. Prev(i)' = Prev(i)
          BY <1>4, <2>1, <4>1
        <4> QED BY <2>8, <4>1, <4>2
      <3> QED BY <3>1, <3>2
    <2>10. Tip' = channel'[L + 1] /\ out' = j
      <3>1. Len(channel') # 0
        BY <1>1, <2>1
      <3>2. out' = j
        BY <1>6, <2>4 DEF WriteByte
      <3> QED BY <2>1, <3>1, <3>2 DEF Tip
    <2> QED BY <2>7, <2>9, <2>10
  <1>7. CASE Sampler
    <2>0. PICK m : m = Len(MsgLen) + (samples + 1)
      OBVIOUS
    <2>a. /\ Len(channel') = Len(channel) + SamplerLen + 4 /\ Grown
          /\ \A i \in 1..(SamplerLen + 4) :
               channel'[Len(channel) + i] = FrameByte(m, SamplerLen, TextOf(m), i, 0)
          /\ mixed' = mixed \cup (IF pc = "idle" THEN {} ELSE {cur})
                            \cup (IF AmidFrame THEN {m} ELSE {})
          /\ UNCHANGED threadVars /\ m \in Msgs \ ThreadMsgs
      BY <1>7, <2>0, FrameSent
    <2>1. /\ Len(channel') = L + SamplerLen + 4 /\ Grown
          /\ \A k \in 1..(SamplerLen + 4) :
               channel'[L + k] = FrameByte(m, SamplerLen, TextOf(m), k, 0)
          /\ mixed' = mixed \cup (IF pc = "idle" THEN {} ELSE {cur})
                            \cup (IF AmidFrame THEN {m} ELSE {})
          /\ UNCHANGED threadVars
      BY <2>a
    <2>2. pc' = "idle"
      <3>1. pc # "idle" => cur \in mixed'
        BY <2>1
      <3> QED BY <2>1, <3>1 DEF threadVars
    <2>3. \A k \in 1..SamplerLen : TextOf(m)[k] \in Payloads
      BY <1>7, <2>0, SamplerText
    <2>4. \A k \in 1..SamplerLen : TextOf(m)[k] \in Beginnings => k = 1
      BY <1>7, <2>0, SamplerBegins
    <2>5. ASSUME NEW k \in 1..(SamplerLen + 4)
          PROVE  /\ channel'[L + k].of = FIRST <=> k = 1
                 /\ channel'[L + k].of = SEQNO <=> k = 2
                 /\ channel'[L + k].of = LENGTH <=> k = 3
                 /\ channel'[L + k].of \in Beginnings => k = 4
      <3>1. channel'[L + k] = FrameByte(m, SamplerLen, TextOf(m), k, 0)
        BY <2>1
      <3>2. SamplerLen \in Nat /\ SamplerLen > ETX
        BY Sizes
      <3> QED BY <2>3, <2>4, <3>1, <3>2, FrameByteOf
    <2>6. ASSUME NEW i \in 1..Len(channel') PROVE Leads(Prev(i)'.of, channel'[i].of)
      <3>1. CASE i \in 1..L
        <4>1. channel'[i] = channel[i] /\ Prev(i)' = Prev(i)
          BY <1>1, <1>4, <2>1, <3>1 DEF Grown
        <4> QED BY <1>3, <3>1, <4>1
      <3>2. CASE i \notin 1..L
        <4>1. PICK k \in 1..(SamplerLen + 4) : i = L + k
          <5>1. i - L \in 1..(SamplerLen + 4) /\ i = L + (i - L)
            BY <1>1, <2>1, <3>2, Sizes
          <5> QED BY <5>1
        <4>2. CASE k = 1
          BY <2>5, <4>1, <4>2, Origins DEF Leads
        <4>3. CASE k # 1
          <5>1. PICK h \in 1..(SamplerLen + 4) : h = k - 1
            BY <4>3, Sizes
          <5>2. Prev(i)' = channel'[L + h]
            <6>1. i # 1 /\ i - 1 = L + h
              BY <1>1, <4>1, <4>3, <5>1
            <6> QED BY <6>1 DEF Prev
          <5>3. /\ channel'[L + h].of = FIRST <=> h = 1
                /\ channel'[L + h].of = SEQNO <=> h = 2
                /\ channel'[L + h].of = LENGTH <=> h = 3
            BY <2>5
          <5>4. /\ channel'[i].of = SEQNO <=> h = 1
                /\ channel'[i].of = LENGTH <=> h = 2
                /\ channel'[i].of \in Beginnings => h = 3
            BY <2>5, <4>1, <5>1
          <5> QED BY <5>2, <5>3, <5>4 DEF Leads
        <4> QED BY <4>2, <4>3
      <3> QED BY <3>1, <3>2
    <2> QED BY <2>2, <2>6
  <1> QED BY <1>5, <1>6, <1>7 DEF Sends

\* The phone takes a byte.
LEMMA TakesAdjacent ==
  ASSUME Typed, Adjacent, Takes
  PROVE  Adjacent'
  <1>1. PICK s \in States : Take(s)
    BY TakesTake
  <1>2. /\ Len(channel) \in Nat /\ Len(channel) >= 1 /\ Len(channel') = Len(channel) - 1
        /\ \A i \in 1..Len(channel') : channel'[i] = channel[i + 1]
        /\ UNCHANGED <<pc, out, mixed>> /\ last' = channel[1]
    BY <1>1, TakeShorter DEF Shorter, threadVars, Typed, WiresOK
  <1>3. ASSUME NEW i \in 1..(Len(channel') + 1) PROVE Prev(i)' = Prev(i + 1)
    <2>1. CASE i = 1
      BY <1>2, <2>1 DEF Prev
    <2>2. CASE i # 1
      <3>1. i - 1 \in 1..Len(channel') /\ i + 1 # 1 /\ (i - 1) + 1 = (i + 1) - 1
        BY <1>2, <2>2
      <3> QED BY <1>2, <2>2, <3>1 DEF Prev
    <2> QED BY <2>1, <2>2
  <1> SUFFICES ASSUME mixed = {}
               PROVE  /\ \A i \in 1..Len(channel') : Leads(Prev(i)'.of, channel'[i].of)
                      /\ pc = "send" =>
                           /\ out = 1 => Tip'.of = FIRST
                           /\ out = 2 => Tip'.of = SEQNO
                           /\ out = 3 => Tip'.of = LENGTH
    BY <1>2 DEF Adjacent, Leads
  <1>4. ASSUME NEW i \in 1..Len(channel') PROVE Leads(Prev(i)'.of, channel'[i].of)
    <2>1. PICK j \in 1..Len(channel) : j = i + 1
      BY <1>2
    <2>2. i \in 1..(Len(channel') + 1)
      BY <1>2
    <2>3. Prev(i)' = Prev(j) /\ channel'[i] = channel[j]
      BY <1>2, <1>3, <2>1, <2>2
    <2>4. Leads(Prev(j).of, channel[j].of)
      BY DEF Adjacent
    <2> QED BY <2>3, <2>4 DEF Leads
  <1>5. Tip' = Tip
    <2>1. CASE Len(channel') = 0
      <3>1. Len(channel) = 1 /\ Len(channel) # 0
        BY <1>2, <2>1
      <3> QED BY <1>2, <2>1, <3>1 DEF Tip
    <2>2. CASE Len(channel') # 0
      <3>1. Len(channel') \in 1..Len(channel') /\ Len(channel') + 1 = Len(channel)
        BY <1>2, <2>2
      <3>2. channel'[Len(channel')] = channel[Len(channel)]
        BY <1>2, <3>1
      <3> QED BY <1>2, <2>2, <3>2 DEF Tip
    <2> QED BY <2>1, <2>2
  <1> QED BY <1>4, <1>5 DEF Adjacent

\* A parse that is astray remains lost.
LEMMA TakesLost ==
  ASSUME Typed, Collected, Adjacent, Lost, Takes
  PROVE  Lost'
  <1>1. PICK s \in States : Take(s)
    BY TakesTake
  <1>2. /\ Len(channel) \in Nat /\ Len(channel) >= 1 /\ mixed' = mixed
        /\ last' = channel[1] /\ Head(channel) = channel[1]
    BY <1>1, TakeShorter DEF Typed, WiresOK
  <1> SUFFICES ASSUME mixed = {}, astray'
               PROVE  /\ g_rcvState' = "seqNo" => last'.of # FIRST
                      /\ g_rcvState' = "expLen" => last'.of # SEQNO
                      /\ g_rcvState' = "payload" =>
                           IF Len(g_buff') = 0 THEN last'.of # LENGTH
                           ELSE g_buff'[1] \notin Beginnings
    BY <1>2 DEF Lost
  <1>3. Leads(last.of, channel[1].of)
    <2>1. 1 \in 1..Len(channel)
      BY <1>2
    <2>2. Prev(1) = last
      BY DEF Prev
    <2> QED BY <2>1, <2>2 DEF Adjacent
  <1>4. CASE g_rcvState = "idle" \/ IsTimeout
    <2>1. g_rcvState' \in {"seqNo", "idle"} /\ channel[1].of # FIRST
      BY <1>4, IdleTakes
    <2> QED BY <1>2, <2>1
  <1>5. CASE g_rcvState # "idle" /\ ~IsTimeout
    <2>1. astray /\ ~RcvIdle
      BY <1>5, BusyTakes
    <2>2. /\ g_rcvState = "seqNo" => last.of # FIRST
          /\ g_rcvState = "expLen" => last.of # SEQNO
          /\ g_rcvState = "payload" => IF Len(g_buff) = 0 THEN last.of # LENGTH
                                       ELSE g_buff[1] \notin Beginnings
      BY <2>1 DEF Lost
    <2>3. CASE RcvSeqNo
      <3>1. g_rcvState = "seqNo" /\ g_rcvState' = "expLen"
        BY <1>5, <2>3 DEF RcvSeqNo, Take
      <3> QED BY <1>2, <1>3, <2>2, <3>1 DEF Leads
    <2>4. CASE RcvExpLen
      <3>1. g_rcvState = "expLen"
        BY <1>5, <2>4 DEF RcvExpLen, Take
      <3>2. g_rcvState' = "idle" \/ (g_rcvState' = "payload" /\ g_buff' = <<>>)
        BY <2>4 DEF RcvExpLen
      <3>3. g_buff' = <<>> => Len(g_buff') = 0
        OBVIOUS
      <3> QED BY <1>2, <1>3, <2>2, <3>1, <3>2, <3>3 DEF Leads
    <2>5. CASE RcvPayload
      <3>1. /\ g_rcvState = "payload" /\ g_rcvState' = "payload"
            /\ g_buff' = Append(g_buff, channel[1].of)
        BY <1>2, <1>5, <2>5 DEF RcvPayload, Take
      <3>2. g_buff \in Seq(Nat \X Nat) /\ Len(g_buff) \in Nat
        BY DEF Collected
      <3>3. /\ Len(g_buff') = Len(g_buff) + 1
            /\ g_buff'[Len(g_buff) + 1] = channel[1].of
            /\ \A k \in 1..Len(g_buff) : g_buff'[k] = g_buff[k]
        <4>1. \A S : \A r \in Seq(S) : \A x :
                /\ Len(Append(r, x)) = Len(r) + 1 /\ Append(r, x)[Len(r) + 1] = x
                /\ \A i \in 1..Len(r) : Append(r, x)[i] = r[i]
          OBVIOUS
        <4> QED BY <3>1, <3>2, <4>1
      <3>4. CASE Len(g_buff) = 0
        <4>1. g_buff'[1] = channel[1].of /\ Len(g_buff') # 0
          BY <3>3, <3>4
        <4>2. channel[1].of \notin Beginnings
          BY <1>3, <2>2, <3>1, <3>4 DEF Leads
        <4> QED BY <3>1, <4>1, <4>2
      <3>5. CASE Len(g_buff) # 0
        <4>1. 1 \in 1..Len(g_buff)
          BY <3>2, <3>5
        <4>2. g_buff'[1] = g_buff[1] /\ Len(g_buff') # 0
          BY <3>2, <3>3, <4>1
        <4> QED BY <2>2, <3>1, <3>5, <4>2
      <3> QED BY <3>4, <3>5
    <2>6. CASE RcvEtx
      BY <2>6 DEF RcvEtx
    <2> QED BY <2>1, <2>3, <2>4, <2>5, <2>6 DEF Takes
  <1> QED BY <1>4, <1>5

\* No message, and nothing false, has been received with frame f.
New(f) == \A k \in 1..Len(got) : got[k] # f /\ got[k] # -f

\* A frame of which the phone has not taken the first byte, or is still in, is
\* new to it.
Fresh ==
  mixed = {} =>
    /\ \A f \in Msgs : ~Started(f) => New(f)
    /\ \A i \in 1..Len(channel) : channel[i].of = FIRST => New(channel[i].frame)
    /\ g_rcvState # "idle" /\ ~astray => New(last.frame)

\* With each frame one thing is received at most, and none but with an overlong
\* one that is not its message.
Single ==
  mixed = {} =>
    /\ \A f \in Msgs : \A j, k \in 1..Len(got) :
         (got[j] = f \/ got[j] = -f) /\ (got[k] = f \/ got[k] = -f) => j = k
    /\ \A f \in Msgs : \A k \in 1..Len(got) : got[k] = -f => ~Fits(f)
    /\ \A k \in 1..Len(got) : got[k] = 0 => Overlong # {}

\* Whose message it may be that the parser has when it is in frame f.
LEMMA WhoseMessage ==
  ASSUME Typed, Collected, NEW f \in Msgs, ~astray, Head(channel).frame = f,
         \A k \in 1..Len(g_buff) : g_buff[k] = Payload(f)[k]
  PROVE  Message = f \/ Message = -f
  <1>1. CASE \E m \in Msgs : g_buff = TextOf(m)
    <2> SUFFICES ASSUME NEW m \in Msgs, g_buff = TextOf(m)
                 PROVE  m = f
      BY <1>1 DEF Message
    <2>1. TextLen(m) \in Nat /\ TextLen(m) >= 1
      BY Sizes DEF TextLen, Msgs
    <2>2. TextOf(m)[1] = <<m, 1>> /\ 1 \in 1..Len(g_buff)
      BY <2>1 DEF TextOf
    <2>3. Payload(f)[1] = <<f, 1>>
      <3>1. 1 \in 1..(JSON_BUFFER_SIZE_MAX + MaxBehind) /\ 1 <= JSON_BUFFER_SIZE_MAX
        BY Sizes
      <3> QED BY <3>1 DEF Payload
    <2>4. <<m, 1>> = <<f, 1>>
      BY <2>2, <2>3
    <2> QED BY <2>4
  <1>2. CASE ~\E m \in Msgs : g_buff = TextOf(m)
    BY <1>2 DEF Message
  <1> QED BY <1>1, <1>2

\* A parse that is astray has nobody's.
LEMMA NoMessage ==
  ASSUME Typed, Collected, Lost, mixed = {}, astray, g_rcvState = "payload"
  PROVE  Message = 0
  <1>1. ASSUME NEW m \in Msgs, g_buff = TextOf(m) PROVE FALSE
    <2>1. TextLen(m) \in Nat /\ TextLen(m) >= 1
      BY Sizes DEF TextLen, Msgs
    <2>2. TextOf(m)[1] = <<m, 1>> /\ Len(g_buff) # 0
      BY <1>1, <2>1 DEF TextOf
    <2>3. g_buff[1] \in Beginnings
      BY <1>1, <2>2 DEF Beginnings
    <2> QED BY <2>2, <2>3 DEF Lost
  <1> QED BY <1>1 DEF Message

\* What the parser hands over comes with the frame it is in, whose first byte
\* it has taken, or from a parse that is astray.
LEMMA HandsOver ==
  ASSUME Flow, Within, Lost, Takes, mixed = {}, got' # got
  PROVE  /\ g_rcvState' = "idle"
         /\ \/ astray /\ Message = 0
            \/ \E f \in Msgs :
                 /\ ~astray /\ g_rcvState # "idle" /\ last.frame = f /\ Started(f)
                 /\ Message = f \/ (Message = -f /\ ~Fits(f))
                 /\ \A i \in 1..Len(channel') :
                      channel'[i].of = FIRST => channel'[i].frame # f
  <1> USE DEF Flow
  <1>1. PICK s \in States : Take(s)
    BY TakesTake
  <1>2. /\ Len(channel) \in Nat /\ Len(channel) >= 1 /\ channel \in Seq(Wire)
        /\ Len(channel') = Len(channel) - 1 /\ Head(channel) = channel[1]
        /\ \A i \in 1..Len(channel') : channel'[i] = channel[i + 1]
    BY <1>1, TakeShorter DEF Shorter, Typed, WiresOK
  <1>3. g_rcvState # "idle" /\ ~IsTimeout
    BY IdleTakes
  <1>4. RcvEtx
    BY DEF Takes, RcvIdle, RcvSeqNo, RcvExpLen, RcvPayload
  <1>5. g_rcvState' = "idle" /\ g_rcvState = "payload"
    BY <1>3, <1>4 DEF RcvEtx, Take
  <1>6. CASE astray
    BY <1>5, <1>6, NoMessage
  <1>7. CASE ~astray
    <2>1. PICK f \in Msgs, n \in Nat, p \in Int : Inside(f, n, p)
      BY <1>3, <1>7 DEF Within
    <2>2. /\ n \in Lengths(f) /\ p + n + 3 >= 1 /\ Placed(f, n, p) /\ p < 1
          /\ Into(f, n, 1 - p) /\ Started(f) /\ last.frame = f
      BY <2>1 DEF Inside, OnItsWay, Into
    <2>3. \A k \in 1..Len(g_buff) : g_buff[k] = Payload(f)[k]
      BY <1>5, <2>2 DEF Into
    <2>4. channel[1].frame = f
      BY <1>2, <2>2, HeadByte
    <2>5. Message = f \/ Message = -f
      BY <1>2, <1>7, <2>3, <2>4, WhoseMessage
    <2>6. ASSUME p + n + 3 = 1, Fits(f) PROVE Message = f
      <3>1. Len(g_buff) = n /\ \A k \in 1..n : g_buff[k] = Payload(f)[k]
        BY <1>3, <2>2, <2>6, IntoEnds
      <3> QED BY <2>2, <2>6, <3>1, MessageIs
    <2>7. ASSUME p + n + 3 > 1 PROVE ~Fits(f)
      BY <1>3, <2>2, <2>7, IntoGoesOn
    <2>a. n \in Nat /\ p \in Int
      BY <2>2, LengthsType
    <2>b. p + n + 3 = 1 \/ p + n + 3 > 1
      BY <2>2, <2>a
    <2>8. Message = f \/ (Message = -f /\ ~Fits(f))
      BY <2>5, <2>6, <2>7, <2>b
    <2>9. ASSUME NEW i \in 1..Len(channel'), channel'[i].of = FIRST, channel'[i].frame = f
          PROVE  FALSE
      <3>1. PICK j \in 1..Len(channel) : j = i + 1
        BY <1>2
      <3>2. channel[j].of = FIRST /\ channel[j].frame = f
        BY <1>2, <2>9, <3>1
      <3>3. p <= j /\ j <= p + n + 3
        BY <2>2, <3>2 DEF Placed
      <3>4. channel[j] = FrameByte(f, n, Payload(f), j - p + 1, channel[j].val)
        BY <2>2, <3>3 DEF Placed
      <3>5. n > ETX /\ n <= JSON_BUFFER_SIZE_MAX + MaxBehind
        BY <2>2, LengthsType
      <3>6. \A k \in 1..n : Payload(f)[k] \in Payloads
        <4>1. \A k \in 1..n : k \in 1..(JSON_BUFFER_SIZE_MAX + MaxBehind)
          BY <3>5, Sizes
        <4> QED BY <4>1, PayloadType
      <3>7. PICK k \in 1..(n + 4) : k = j - p + 1 /\ k # 1
        BY <2>2, <3>1, <3>3
      <3>8. PICK v : v = channel[j].val
        OBVIOUS
      <3>9. FrameByte(f, n, Payload(f), k, v).of # FIRST
        BY <3>5, <3>6, <3>7, FrameByteVal
      <3> QED BY <3>2, <3>4, <3>7, <3>8, <3>9
    <2> QED BY <1>3, <1>5, <1>7, <2>2, <2>8, <2>9
  <1> QED BY <1>6, <1>7

\* What is new to the phone remains so until something comes with it.
LEMMA NewKept ==
  ASSUME Typed, Collected, Takes, NEW f \in Msgs, New(f),
         got' # got => Message # f /\ Message # -f
  PROVE  New(f)'
  <1> SUFFICES ASSUME NEW k \in 1..Len(got') PROVE got'[k] # f /\ got'[k] # -f
    BY DEF New
  <1>1. /\ Len(got) \in Nat
        /\ \A i \in 1..Len(got) : got'[i] = got[i]
        /\ got' # got => Len(got') = Len(got) + 1 /\ got'[Len(got) + 1] = Message
    BY GotKept
  <1>2. CASE k \in 1..Len(got)
    BY <1>1, <1>2 DEF New
  <1>3. CASE k \notin 1..Len(got)
    <2>1. got' # got /\ k = Len(got) + 1
      BY <1>1, <1>3
    <2> QED BY <1>1, <2>1
  <1> QED BY <1>2, <1>3

LEMMA TakesFresh ==
  ASSUME Flow, Within, Lost, Fresh, Takes
  PROVE  Fresh'
  <1> USE DEF Flow
  <1>1. PICK s \in States : Take(s)
    BY TakesTake
  <1>2. /\ Len(channel) \in Nat /\ Len(channel) >= 1 /\ channel \in Seq(Wire)
        /\ Len(channel') = Len(channel) - 1 /\ channel' \in Seq(Wire)
        /\ \A i \in 1..Len(channel') : channel'[i] = channel[i + 1]
        /\ UNCHANGED <<pc, cur, out, samples, mixed>> /\ last' = channel[1]
    BY <1>1, TakeShorter DEF Shorter, threadVars, Typed, WiresOK
  <1>3. ASSUME NEW f PROVE Started(f)' <=> Started(f)
    BY <1>2 DEF Started, AmidFrame
  <1>4. ASSUME mixed = {}, NEW f \in Msgs, New(f),
               \/ ~Started(f)
               \/ \E i \in 1..Len(channel') : channel'[i].of = FIRST /\ channel'[i].frame = f
               \/ got' = got
        PROVE  New(f)'
    <2>1. ASSUME got' # got PROVE Message # f /\ Message # -f
      <3>1. f \in Nat /\ f # 0
        BY MsgType
      <3>2. CASE astray /\ Message = 0
        BY <3>1, <3>2
      <3>3. ASSUME NEW g \in Msgs, Started(g),
                   Message = g \/ (Message = -g /\ ~Fits(g)),
                   \A i \in 1..Len(channel') :
                     channel'[i].of = FIRST => channel'[i].frame # g
            PROVE  Message # f /\ Message # -f
        <4>1. g # f
          BY <1>4, <2>1, <3>3
        <4>2. g \in Nat /\ g # 0
          BY MsgType
        <4> QED BY <3>1, <3>3, <4>1, <4>2
      <3> QED BY <1>4, <2>1, <3>2, <3>3, HandsOver
    <2> QED BY <1>4, <2>1, NewKept
  <1> SUFFICES ASSUME mixed = {}
               PROVE  /\ \A f \in Msgs : ~Started(f)' => New(f)'
                      /\ \A i \in 1..Len(channel') :
                           channel'[i].of = FIRST => New(channel[i].frame)'
                      /\ g_rcvState' # "idle" /\ ~astray' => New(last.frame)'
    BY <1>2 DEF Fresh
  <1>5. ASSUME NEW f \in Msgs, ~Started(f)' PROVE New(f)'
    <2>1. ~Started(f)
      BY <1>3, <1>5
    <2> QED BY <1>4, <2>1 DEF Fresh
  <1>6. ASSUME NEW i \in 1..Len(channel'), channel'[i].of = FIRST
        PROVE  New(channel[i].frame)'
    <2>1. PICK j \in 1..Len(channel) : j = i + 1
      BY <1>2
    <2>2. channel'[i] = channel[j]
      BY <1>2, <2>1
    <2>3. PICK f \in Msgs : f = channel[j].frame
      BY <1>2, WireFields
    <2>4. New(f)
      BY <1>6, <2>2, <2>3 DEF Fresh
    <2>5. New(f)'
      BY <1>4, <1>6, <2>2, <2>3, <2>4
    <2> QED BY <2>2, <2>3, <2>5 DEF New
  <1>7. ASSUME g_rcvState' # "idle", ~astray'
        PROVE  New(last.frame)'
    <2>1. got' = got
      BY <1>7, HandsOver
    <2>2. PICK f \in Msgs : f = channel[1].frame
      BY <1>2, WireFields
    <2>3. New(f)
      <3>1. CASE g_rcvState = "idle" \/ IsTimeout
        <4>1. channel[1].of = FIRST
          BY <1>7, <3>1, IdleTakes
        <4>2. 1 \in 1..Len(channel)
          BY <1>2
        <4> QED BY <2>2, <4>1, <4>2 DEF Fresh
      <3>2. CASE g_rcvState # "idle" /\ ~IsTimeout
        <4>1. ~astray
          BY <1>7, <3>2, BusyTakes
        <4>2. PICK g \in Msgs, n \in Nat, p \in Int : Inside(g, n, p)
          BY <3>2, <4>1 DEF Within
        <4>3. /\ n \in Lengths(g) /\ p + n + 3 >= 1 /\ Placed(g, n, p) /\ p < 1
              /\ last.frame = g
          BY <4>2 DEF Inside, OnItsWay, Into
        <4>4. channel[1].frame = g
          BY <1>2, <4>3, HeadByte
        <4> QED BY <2>2, <3>2, <4>1, <4>3, <4>4 DEF Fresh
      <3> QED BY <3>1, <3>2
    <2>4. New(f)'
      BY <1>4, <2>1, <2>3
    <2> QED BY <1>2, <2>2, <2>4 DEF New
  <1> QED BY <1>5, <1>6, <1>7

\* The node begins frames that are new.
LEMMA SendsFresh ==
  ASSUME Typed, BufferOK, Fresh, Sends
  PROVE  Fresh'
  <1>1. UNCHANGED phoneVars /\ mixed \subseteq mixed' /\ Len(channel) \in Nat
    BY DEF Sends, Open, Put, Send, WriteByte, Sampler, Typed, WiresOK
  <1>2. UNCHANGED <<got, g_rcvState, astray, last>>
    BY <1>1, PhoneSame
  <1>3. ASSUME NEW f, New(f) PROVE New(f)'
    BY <1>2, <1>3 DEF New
  <1> SUFFICES ASSUME mixed' = {}
               PROVE  /\ \A f \in Msgs : ~Started(f)' => New(f)'
                      /\ \A i \in 1..Len(channel') :
                           channel'[i].of = FIRST => New(channel[i].frame)'
                      /\ g_rcvState' # "idle" /\ ~astray' => New(last.frame)'
    BY DEF Fresh
  <1>4. /\ \A f \in Msgs : ~Started(f) => New(f)
        /\ \A i \in 1..Len(channel) : channel[i].of = FIRST => New(channel[i].frame)
        /\ g_rcvState # "idle" /\ ~astray => New(last.frame)
    BY <1>1 DEF Fresh
  <1>5. ASSUME NEW f \in Msgs, ~Started(f)' PROVE New(f)'
    BY <1>3, <1>4, <1>5, StartedKept
  <1>6. g_rcvState' # "idle" /\ ~astray' => New(last.frame)'
    BY <1>2, <1>4 DEF New
  <1>7. ASSUME NEW i \in 1..Len(channel'), channel'[i].of = FIRST
        PROVE  New(channel[i].frame)'
    <2>1. CASE i \in 1..Len(channel) /\ Grown
      <3>1. channel'[i] = channel[i]
        BY <2>1 DEF Grown
      <3> QED BY <1>2, <1>4, <1>7, <2>1, <3>1 DEF New
    <2>2. ASSUME NEW f \in Msgs, channel'[i].frame = f, ~Started(f)
          PROVE  New(channel[i].frame)'
      <3>1. New(f)'
        BY <1>3, <1>4, <2>2
      <3> QED BY <2>2, <3>1 DEF New
    <2>3. CASE Open \/ Put \/ Send
      <3>1. channel' = channel
        BY <2>3 DEF Open, Put, Send
      <3> QED BY <1>1, <1>7, <2>1, <3>1 DEF Grown
    <2>4. CASE WriteByte
      <3>1. /\ Len(channel') = Len(channel) + 1 /\ Grown
            /\ channel'[Len(channel) + 1].frame = cur
            /\ channel'[Len(channel) + 1].of = FIRST <=> out = 0
            /\ cur \in ThreadMsgs /\ pc = "send"
        BY <2>4, ByteSent
      <3>2. CASE i \notin 1..Len(channel)
        <4>1. i = Len(channel) + 1
          BY <1>1, <3>1, <3>2
        <4>2. cur \in Msgs /\ cur \in Nat /\ out = 0
          BY <1>7, <3>1, <4>1, MsgType
        <4>3. ~Started(cur)
          BY <3>1, <4>2 DEF Started, AmidFrame
        <4> QED BY <2>2, <3>1, <4>1, <4>2, <4>3
      <3> QED BY <2>1, <3>1, <3>2
    <2>5. CASE Sampler
      <3>0. PICK m : m = Len(MsgLen) + (samples + 1)
        OBVIOUS
      <3>1. /\ Len(channel') = Len(channel) + SamplerLen + 4 /\ Grown
            /\ \A k \in 1..(SamplerLen + 4) :
                 channel'[Len(channel) + k] = FrameByte(m, SamplerLen, TextOf(m), k, 0)
            /\ m \in Msgs \ ThreadMsgs
        BY <2>5, <3>0, FrameSent
      <3>2. CASE i \notin 1..Len(channel)
        <4>1. PICK k \in 1..(SamplerLen + 4) : i = Len(channel) + k
          <5>1. i - Len(channel) \in 1..(SamplerLen + 4) /\ i = Len(channel) + (i - Len(channel))
            BY <1>1, <3>1, <3>2, Sizes
          <5> QED BY <5>1
        <4>2. \A j \in 1..SamplerLen : TextOf(m)[j] \in Payloads
          BY <2>5, <3>0, SamplerText
        <4>3. FrameByte(m, SamplerLen, TextOf(m), k, 0).frame = m
          BY <4>2, FrameByteVal, Sizes
        <4>4. channel'[i].frame = m
          BY <3>1, <4>1, <4>3
        <4>5. ~Started(m)
          <5>1. samples \in Nat /\ Len(MsgLen) \in Nat
            BY FrameAssumption, MsgType DEF Typed, WiresOK
          <5>2. ~(m <= Len(MsgLen) + samples)
            BY <3>0, <5>1
          <5> QED BY <3>1, <5>2 DEF Started
        <4> QED BY <2>2, <3>1, <4>4, <4>5
      <3> QED BY <2>1, <3>1, <3>2
    <2> QED BY <2>3, <2>4, <2>5 DEF Sends
  <1> QED BY <1>5, <1>6, <1>7

\* Nothing is handed over.
LEMMA SingleKept ==
  ASSUME Single, got' = got, mixed \subseteq mixed', cur \in Nat, cur' \in Nat, cur <= cur'
  PROVE  Single'
  <1> SUFFICES ASSUME mixed' = {}, Single PROVE Single'
    BY DEF Single
  <1>1. mixed = {}
    OBVIOUS
  <1>2. Overlong # {} => Overlong' # {}
    <2>1. ASSUME NEW m \in Overlong PROVE m \in Overlong'
      <3>1. m \in ThreadMsgs /\ m <= cur /\ ~Fits(m) /\ m \in Nat
        BY MsgType DEF Overlong
      <3>2. m <= cur' /\ ~Fits(m)'
        BY <3>1 DEF Fits, TextLen
      <3> QED BY <3>1, <3>2 DEF Overlong
    <2> QED BY <2>1
  <1>3. ASSUME NEW f PROVE ~Fits(f) => ~Fits(f)'
    BY DEF Fits, TextLen
  <1> QED BY <1>1, <1>2, <1>3 DEF Single

LEMMA TakesSingle ==
  ASSUME Flow, Within, Lost, Fresh, Single, Takes
  PROVE  Single'
  <1> USE DEF Flow
  <1>1. PICK s \in States : Take(s)
    BY TakesTake
  <1>2. UNCHANGED <<cur, mixed>> /\ cur \in Nat /\ cur <= cur'
    <2>1. UNCHANGED <<cur, mixed>>
      BY <1>1, TakeShorter DEF threadVars
    <2>2. cur \in Nat
      BY MsgType DEF Typed, ThreadOK
    <2> QED BY <2>1, <2>2
  <1>3. CASE got' = got
    BY <1>2, <1>3, SingleKept
  <1>4. CASE got' # got
    <2> SUFFICES ASSUME mixed = {} PROVE Single'
      BY <1>2 DEF Single
    <2>1. /\ Len(got) \in Nat /\ Len(got') = Len(got) + 1 /\ got'[Len(got) + 1] = Message
          /\ \A k \in 1..Len(got) : got'[k] = got[k]
      BY <1>4, GotKept
    <2>2. \A k \in 1..Len(got') : k \in 1..Len(got) \/ k = Len(got) + 1
      BY <2>1
    <2>3. Overlong' = Overlong /\ \A f : Fits(f)' <=> Fits(f)
      BY <1>2 DEF Overlong, Fits, TextLen
    <2>4. /\ \A f \in Msgs : \A j, k \in 1..Len(got) :
               (got[j] = f \/ got[j] = -f) /\ (got[k] = f \/ got[k] = -f) => j = k
          /\ \A f \in Msgs : \A k \in 1..Len(got) : got[k] = -f => ~Fits(f)
          /\ \A k \in 1..Len(got) : got[k] = 0 => Overlong # {}
      BY DEF Single
    <2>5. ASSUME NEW f \in Msgs, Message = f \/ Message = -f
          PROVE  New(f) /\ (Message = -f => ~Fits(f))
      <3>1. f \in Nat /\ f # 0
        BY MsgType
      <3>2. ~(astray /\ Message = 0)
        BY <2>5, <3>1
      <3>3. PICK g \in Msgs : /\ ~astray /\ g_rcvState # "idle" /\ last.frame = g
                              /\ Message = g \/ (Message = -g /\ ~Fits(g))
        BY <1>4, <3>2, HandsOver
      <3>4. g \in Nat /\ g # 0
        BY MsgType
      <3>5. g = f
        BY <2>5, <3>1, <3>3, <3>4
      <3>6. Message = -f => Message # f
        BY <3>1
      <3> QED BY <3>3, <3>5, <3>6 DEF Fresh
    <2>6. ASSUME NEW f \in Msgs, NEW j \in 1..Len(got'), NEW k \in 1..Len(got'),
                 got'[j] = f \/ got'[j] = -f, got'[k] = f \/ got'[k] = -f
          PROVE  j = k
      <3>1. CASE j \in 1..Len(got) /\ k \in 1..Len(got)
        BY <2>1, <2>4, <2>6, <3>1
      <3>2. CASE j = Len(got) + 1 /\ k \in 1..Len(got)
        BY <2>1, <2>5, <2>6, <3>2 DEF New
      <3>3. CASE k = Len(got) + 1 /\ j \in 1..Len(got)
        BY <2>1, <2>5, <2>6, <3>3 DEF New
      <3> QED BY <2>2, <3>1, <3>2, <3>3
    <2>7. ASSUME NEW f \in Msgs, NEW k \in 1..Len(got'), got'[k] = -f
          PROVE  ~Fits(f)
      <3>1. CASE k \in 1..Len(got)
        BY <2>1, <2>4, <2>7, <3>1
      <3>2. CASE k = Len(got) + 1
        BY <2>1, <2>5, <2>7, <3>2
      <3> QED BY <2>2, <3>1, <3>2
    <2>8. ASSUME NEW k \in 1..Len(got'), got'[k] = 0
          PROVE  Overlong # {}
      <3>1. CASE k \in 1..Len(got)
        BY <2>1, <2>4, <2>8, <3>1
      <3>2. CASE k = Len(got) + 1
        <4>1. Message = 0
          BY <2>1, <2>8, <3>2
        <4>2. ASSUME NEW f \in Msgs PROVE Message # f /\ Message # -f
          <5>1. f \in Nat /\ f # 0
            BY MsgType
          <5> QED BY <4>1, <5>1
        <4>3. astray
          BY <1>4, <4>2, HandsOver
        <4> QED BY <4>3 DEF Clean, Spoilt
      <3> QED BY <2>2, <3>1, <3>2
    <2> QED BY <2>3, <2>6, <2>7, <2>8 DEF Single
  <1> QED BY <1>3, <1>4

\* All of it together.
Quiet == Within /\ Adjacent /\ Lost /\ Fresh /\ Single

\* Time passes, or nothing happens.
LEMMA QuietKept ==
  ASSUME Quiet,
         UNCHANGED <<pc, cur, len, out, samples, channel, mixed, g_rcvState, g_expLen,
                     g_buff, got, last, astray, swallowed>>, split \subseteq split'
  PROVE  Quiet'
  <1>a. ASSUME NEW f PROVE Excused(f) => Excused(f)'
    BY ExcusedKept
  <1>1. ASSUME NEW f, NEW n, NEW p PROVE Inside(f, n, p) => Inside(f, n, p)'
    <2>1. Placed(f, n, p)' <=> Placed(f, n, p)
      BY DEF Placed, Sending
    <2>2. Free(p)' <=> Free(p)
      BY DEF Free, Parse, Progress, End
    <2>3. Into(f, n, 1 - p)' <=> Into(f, n, 1 - p)
      BY DEF Into
    <2>4. Started(f)' <=> Started(f)
      BY DEF Started, AmidFrame
    <2> QED BY <1>a, <2>1, <2>2, <2>3, <2>4 DEF Inside, OnItsWay, Lengths, Fits, TextLen
  <1>2. Within'
    BY <1>1 DEF Quiet, Within
  <1>3. Adjacent'
    BY DEF Quiet, Adjacent, Leads, Prev, Tip
  <1>4. Lost'
    BY DEF Quiet, Lost
  <1>5. Fresh'
    BY DEF Quiet, Fresh, New, Started, AmidFrame
  <1>6. Single'
    BY DEF Quiet, Single, Overlong, Fits, TextLen
  <1> QED BY <1>2, <1>3, <1>4, <1>5, <1>6 DEF Quiet

LEMMA InitQuiet == Init => Quiet
  <1> SUFFICES ASSUME Init PROVE Quiet
    OBVIOUS
  <1>1. /\ g_rcvState = "idle" /\ ~astray /\ got = <<>> /\ Len(got) = 0
        /\ channel = <<>> /\ Len(channel) = 0 /\ pc = "idle"
    BY DEF Init
  <1> QED BY <1>1 DEF Quiet, Within, Adjacent, Lost, Fresh, New, Single

LEMMA NextQuiet == Flow /\ Quiet /\ [Next]_vars => Quiet'
  <1> SUFFICES ASSUME Flow, Quiet, [Next]_vars PROVE Quiet'
    OBVIOUS
  <1>1. CASE Sends
    <2>1. UNCHANGED phoneVars /\ mixed \subseteq mixed' /\ (cur' = cur \/ cur' = cur + 1)
      BY <1>1 DEF Sends, Open, Put, Send, WriteByte, Sampler, threadVars
    <2>2. cur \in Nat
      BY MsgType DEF Flow, Typed, ThreadOK
    <2>3. cur' \in Nat /\ cur <= cur'
      BY <2>1, <2>2
    <2>4. got' = got /\ UNCHANGED <<g_rcvState, g_buff, last, astray>>
      BY <2>1, PhoneSame
    <2>5. Single'
      BY <2>1, <2>2, <2>3, <2>4, SingleKept DEF Quiet
    <2>6. Lost'
      BY <2>1, <2>4 DEF Quiet, Lost
    <2> QED BY <1>1, <2>5, <2>6, SendsWithin, SendsAdjacent, SendsFresh DEF Quiet, Flow
  <1>2. CASE Takes
    BY <1>2, TakesWithin, TakesAdjacent, TakesLost, TakesFresh, TakesSingle DEF Quiet, Flow
  <1>3. CASE Pause
    <2>1. /\ UNCHANGED <<pc, cur, len, out, samples, channel, mixed, g_rcvState, g_expLen,
                         g_buff, got, last, astray, swallowed>>
          /\ split \subseteq split'
      BY <1>3 DEF Pause, threadVars
    <2> QED BY <2>1, QuietKept
  <1>4. CASE UNCHANGED vars
    <2>1. /\ UNCHANGED <<pc, cur, len, out, samples, channel, mixed, g_rcvState, g_expLen,
                         g_buff, got, last, astray, swallowed>>
          /\ split \subseteq split'
      BY <1>4 DEF vars, threadVars, phoneVars
    <2> QED BY <2>1, QuietKept
  <1> QED BY <1>1, <1>2, <1>3, <1>4 DEF Next, Thread, Phone, Takes, Sends

\* How often a number is in got, when all its places are the same.
LEMMA CountedOnce ==
  ASSUME NEW m, \A j, k \in 1..Len(got) : got[j] = m /\ got[k] = m => j = k
  PROVE  /\ TimesReceived(m) = 0 \/ TimesReceived(m) = 1
         /\ (\A k \in 1..Len(got) : got[k] # m) => TimesReceived(m) = 0
  <1> DEFINE K == {i \in 1..Len(got) : got[i] = m}
  <1>1. CASE K = {}
    <2>1. TimesReceived(m) = 0
      BY <1>1, FS_EmptySet DEF TimesReceived
    <2> QED BY <2>1
  <1>2. CASE K # {}
    <2>1. PICK k : k \in K
      BY <1>2
    <2>2. K = {k}
      BY <2>1
    <2>3. Cardinality(K) = 1
      BY <2>2, FS_Singleton
    <2> QED BY <2>1, <2>3 DEF TimesReceived
  <1> QED BY <1>1, <1>2

\* As long as no frame was mixed up, the phone receives one thing at most with
\* each frame: its message, or, if it is too long for jsonBuff, something else.
\* Whatever else it receives comes from a parse that began at a byte that only
\* reads as an STX, which only a frame too long for jsonBuff has.  This holds
\* for memory behind jsonBuff of any contents, of which strlen may take in any
\* number of bytes.
THEOREM NoneFalse == Spec => []NoFalseMessages
  <1>1. Flow /\ Quiet => NoFalseMessages
    <2> SUFFICES ASSUME Flow, Quiet, mixed = {}
                 PROVE  /\ \A m \in Msgs : /\ TimesReceived(m) + TimesReceived(-m) <= 1
                                           /\ TimesReceived(-m) > 0 => ~Fits(m)
                        /\ TimesReceived(0) > 0 => Overlong # {}
      BY DEF NoFalseMessages
    <2>1. /\ \A f \in Msgs : \A j, k \in 1..Len(got) :
               (got[j] = f \/ got[j] = -f) /\ (got[k] = f \/ got[k] = -f) => j = k
          /\ \A f \in Msgs : \A k \in 1..Len(got) : got[k] = -f => ~Fits(f)
          /\ \A k \in 1..Len(got) : got[k] = 0 => Overlong # {}
      BY DEF Quiet, Single
    <2>2. ASSUME NEW m \in Msgs
          PROVE  /\ TimesReceived(m) + TimesReceived(-m) <= 1
                 /\ TimesReceived(-m) > 0 => ~Fits(m)
      <3>1. m \in Nat /\ m # 0
        BY MsgType
      <3>2. PICK h \in Int : h = -m
        BY <3>1
      <3>3. /\ \A j, k \in 1..Len(got) : got[j] = m /\ got[k] = m => j = k
            /\ \A j, k \in 1..Len(got) : got[j] = h /\ got[k] = h => j = k
            /\ \A j, k \in 1..Len(got) : ~(got[j] = m /\ got[k] = h)
        <4>1. m # h
          BY <3>1, <3>2
        <4> QED BY <2>1, <3>2, <4>1
      <3>4. /\ TimesReceived(m) = 0 \/ TimesReceived(m) = 1
            /\ (\A k \in 1..Len(got) : got[k] # m) => TimesReceived(m) = 0
        BY <3>3, CountedOnce
      <3>5. /\ TimesReceived(h) = 0 \/ TimesReceived(h) = 1
            /\ (\A k \in 1..Len(got) : got[k] # h) => TimesReceived(h) = 0
        BY <3>3, CountedOnce
      <3>6. TimesReceived(m) + TimesReceived(h) <= 1
        BY <3>3, <3>4, <3>5
      <3>7. TimesReceived(h) > 0 => ~Fits(m)
        BY <2>1, <3>2, <3>5
      <3> QED BY <3>2, <3>6, <3>7
    <2>3. TimesReceived(0) > 0 => Overlong # {}
      <3>1. CASE \E k \in 1..Len(got) : got[k] = 0
        BY <2>1, <3>1
      <3>2. CASE \A k \in 1..Len(got) : got[k] # 0
        BY <3>2, CountedOnce
      <3> QED BY <3>1, <3>2
    <2> QED BY <2>2, <2>3
  <1> QED BY <1>1, InitFlow, NextFlow, InitQuiet, NextQuiet, PTL DEF Spec
=============================================================================
