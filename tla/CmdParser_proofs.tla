-------------------------- MODULE CmdParser_proofs --------------------------
(***************************************************************************)
(* Proofs about module CmdParser, for every list of frames of every length *)
(* a byte can announce, every size of the ring and every time unit: the    *)
(* ring never holds more than it has room for; the parser writes behind    *)
(* g_data only for a payload longer than that, or for a byte of text taken *)
(* for a length after a loss; a frame that lies whole at the head of the   *)
(* ring when the parser is called is received; and, unless a byte is lost, *)
(* nothing is delivered that was not sent, and nothing lost but what a     *)
(* call's end cut.                                                         *)
(***************************************************************************)
EXTENDS CmdParser, TLAPS

\* Never more is stored than was announced.
Stored == Len(g_data) <= g_dataSize

\* What a byte reads as, as far as the parser tells bytes apart.
LEMMA ValType ==
  ASSUME NEW b \in Bytes
  PROVE  Val(b) \in 0..(BYTE - 1)
  <1>1. /\ Payloads[b[1]] \in (ETX + 1)..(BYTE - 1)
        /\ Text[b] \in (ETX + 1)..(BYTE - 1)
    BY LineAssumption DEF Bytes
  <1> QED BY <1>1, LineAssumption DEF Val, STX, ETX, SEQ_NO

\* The bytes of a frame are those from its first to its last.
LEMMA BytesAre ==
  \A f \in FrameIds :
    /\ FrameLen(f) \in Nat /\ FrameLen(f) >= 1 /\ FrameLen(f) <= BYTE + 3
    /\ \A i \in 1..FrameLen(f) : <<f, i>> \in Bytes
  <1>1. ASSUME NEW f \in FrameIds
        PROVE  /\ FrameLen(f) \in Nat /\ FrameLen(f) >= 1 /\ FrameLen(f) <= BYTE + 3
               /\ \A i \in 1..FrameLen(f) : <<f, i>> \in Bytes
    <2>1. FrameLen(f) \in Nat /\ FrameLen(f) >= 1 /\ FrameLen(f) <= BYTE + 3
      BY LineAssumption DEF FrameLen, ETX
    <2>2. ASSUME NEW i \in 1..FrameLen(f) PROVE <<f, i>> \in Bytes
      <3>1. i \in 1..(BYTE + 3) /\ i <= FrameLen(f)
        BY <2>1, LineAssumption
      <3> QED BY <3>1 DEF Bytes
    <2> QED BY <2>1, <2>2
  <1> QED BY <1>1

\* After a byte comes a byte, of this frame or the next, or the end of the line.
LEMMA FollowingType ==
  ASSUME NEW b \in Bytes
  PROVE  Following(b) \in Bytes \cup {<<Len(Payloads) + 1, 1>>}
  <1>1. b[1] \in FrameIds /\ b[2] \in 1..FrameLen(b[1]) /\ b[2] \in Nat
    BY LineAssumption, BytesAre DEF Bytes
  <1>2. \A f \in FrameIds : FrameLen(f) \in Nat /\ FrameLen(f) >= 1
    BY BytesAre
  <1>3. CASE b[2] = FrameLen(b[1])
    <2>1. Following(b) = <<b[1] + 1, 1>>
      BY <1>3 DEF Following
    <2>2. CASE b[1] = Len(Payloads)
      BY <2>1, <2>2
    <2>3. CASE b[1] # Len(Payloads)
      <3>1. b[1] + 1 \in FrameIds
        BY <1>1, <2>3, LineAssumption DEF FrameIds
      <3> QED BY <2>1, <3>1, <1>2, BytesAre
    <2> QED BY <2>2, <2>3
  <1>4. CASE b[2] # FrameLen(b[1])
    <2>1. Following(b) = <<b[1], b[2] + 1>>
      BY <1>4 DEF Following
    <2>2. b[2] + 1 \in 1..FrameLen(b[1])
      BY <1>1, <1>2, <1>4
    <2> QED BY <2>1, <2>2, <1>1, BytesAre
  <1> QED BY <1>3, <1>4

\* Until all frames have arrived there is a next byte.
LEMMA LineType ==
  ASSUME TypeOK, line[1] \in FrameIds
  PROVE  line \in Bytes
  BY DEF TypeOK, FrameIds

\* Times are times of the clock.
LEMMA TimeTypes ==
  /\ \A s \in Nat : Ms(s) \in 0..(TIME_WRAP - 1)
  /\ prevTimeSec \in Nat => Kicked \in 0..(TIME_WRAP - 1)
  <1>0. /\ \A x \in Nat : x % TIME_WRAP \in 0..(TIME_WRAP - 1)
        /\ CMD_UART_RCV_DATA_TIMEOUT \in Nat
    BY TimeAssumption
  <1>1. ASSUME NEW s \in Nat PROVE Ms(s) \in 0..(TIME_WRAP - 1)
    <2>1. s * SECOND \in Nat
      BY TimeAssumption
    <2> QED BY <2>1, <1>0 DEF Ms
  <1>2. ASSUME prevTimeSec \in Nat PROVE Kicked \in 0..(TIME_WRAP - 1)
    <2>1. Ms(prevTimeSec) + CMD_UART_RCV_DATA_TIMEOUT \in Nat
      BY <1>1, <1>2, <1>0
    <2> QED BY <2>1, <1>0 DEF Kicked
  <1> QED BY <1>1, <1>2

\* Amid a frame the parser has taken an STX.
Opened == state # "idle" => open \in FrameIds

Typed == TypeOK /\ Stored /\ Opened

\* A byte leaves the ring for the parser.
LEMMA TakeType ==
  ASSUME TypeOK, NEW s, Take(s)
  PROVE  /\ Head(ring) \in Bytes
         /\ ring' \in Seq(Bytes) /\ Len(ring') < UART0_RX_BUFFER_SIZE
         /\ Kicked \in 0..(TIME_WRAP - 1)
         /\ line' = line /\ overruns' = overruns /\ damaged' = damaged
         /\ sec' = sec /\ isConnected' = isConnected
         /\ prevTimeSec' = prevTimeSec /\ cut' = cut /\ due' = due
  <1>1. ring \in Seq(Bytes) /\ ring # <<>> /\ ring' = Tail(ring)
        /\ Len(ring) < UART0_RX_BUFFER_SIZE
    BY DEF TypeOK, Take
  <1>2. Kicked \in 0..(TIME_WRAP - 1)
    BY TimeTypes DEF TypeOK
  <1> QED BY <1>1, <1>2, LineAssumption DEF Take, timeVars

\* Typed is inductive.
LEMMA InitTyped == Init => Typed
  <1> SUFFICES ASSUME Init PROVE Typed
    OBVIOUS
  <1>1. <<1, 1>> \in Bytes
    <2>1. 1 \in FrameIds
      BY LineAssumption DEF FrameIds
    <2> QED BY <2>1, BytesAre
  <1>2. 0 \in 0..(BYTE - 1)
    <2>1. 1 \in FrameIds
      BY LineAssumption DEF FrameIds
    <2>2. Payloads[1] \in (ETX + 1)..(BYTE - 1)
      BY <2>1, LineAssumption
    <2> QED BY <2>2, LineAssumption DEF ETX
  <1> QED BY <1>1, <1>2, LineAssumption, TimeAssumption
          DEF Init, Typed, TypeOK, Stored, Opened, States

\* Every action keeps the types.
LEMMA NextTyped == Typed /\ [Next]_vars => Typed'
  <1> SUFFICES ASSUME Typed, [Next]_vars PROVE Typed'
    OBVIOUS
  <1> USE DEF Typed, Stored, Opened
  <1>1. CASE Receive
    <2>1. line \in Bytes
      BY <1>1, LineType DEF Receive
    <2>2. line' \in Bytes \cup {<<Len(Payloads) + 1, 1>>}
      BY <1>1, <2>1, FollowingType DEF Receive
    <2>3. ring' \in Seq(Bytes) /\ Len(ring') < UART0_RX_BUFFER_SIZE
      <3>0. ring \in Seq(Bytes) /\ Len(ring) < UART0_RX_BUFFER_SIZE
        BY DEF TypeOK
      <3>1. CASE RingFull
        BY <1>1, <3>0, <3>1 DEF Receive
      <3>2. CASE ~RingFull
        <4>1. ring' = Append(ring, line)
          BY <1>1, <3>2 DEF Receive
        <4>2. ring' \in Seq(Bytes) /\ Len(ring') = Len(ring) + 1
          BY <4>1, <2>1, <3>0
        <4> QED BY <4>2, <3>0, <3>2, LineAssumption DEF RingFull
      <3> QED BY <3>1, <3>2
    <2>4. damaged' \subseteq FrameIds
      BY <1>1 DEF Receive, TypeOK
    <2> QED BY <1>1, <2>2, <2>3, <2>4
            DEF Receive, TypeOK, timeVars, parserVars
  <1>2. CASE Overrun
    <2>1. line \in Bytes
      BY <1>2, LineType DEF Overrun
    <2>2. line' \in Bytes \cup {<<Len(Payloads) + 1, 1>>}
      BY <1>2, <2>1, FollowingType DEF Overrun
    <2> QED BY <1>2, <2>2, LineAssumption
            DEF Overrun, TypeOK, timeVars, parserVars
  <1>3. CASE Second
    BY <1>3, LineAssumption DEF Second, TypeOK, lineVars, parserVars
  <1>4. CASE Connection
    BY <1>4 DEF Connection, TypeOK, lineVars, parserVars
  <1>5. CASE Poll
    <2>1. state' \in States /\ timeoutMs' \in 0..(TIME_WRAP - 1)
      BY <1>5, TimeAssumption DEF Poll, GiveUp, TypeOK, States
    <2>2. due' \in FrameIds \cup {0}
      BY <1>5 DEF Poll, HeadFrame, TypeOK, Bytes
    <2>3. Opened'
      BY <1>5 DEF Poll, GiveUp
    <2>4. TypeOK' /\ Stored'
      BY <1>5, <2>1, <2>2 DEF Poll, TypeOK, lineVars, timeVars
    <2> QED BY <2>3, <2>4
  <1>6. CASE WaitStx
    <2>1. Head(ring)[1] \in FrameIds
      BY <1>6, TakeType DEF WaitStx, Bytes
    <2>2. Opened'
      BY <1>6, <2>1 DEF WaitStx
    <2>3. TypeOK' /\ Stored'
      BY <1>6, <2>1, TakeType DEF WaitStx, TypeOK, States
    <2> QED BY <2>2, <2>3
  <1>7. CASE WaitSeqNo
    <2>1. Opened'
      BY <1>7 DEF WaitSeqNo, Take
    <2>2. TypeOK' /\ Stored'
      BY <1>7, TakeType DEF WaitSeqNo, TypeOK, States
    <2> QED BY <2>1, <2>2
  <1>8. CASE WaitExpLen
    <2>1. g_dataSize' \in 0..(BYTE - 1) /\ g_data' = <<>>
      BY <1>8, TakeType, ValType DEF WaitExpLen
    <2>2. Len(g_data') <= g_dataSize' /\ Len(g_data') <= CMD_MAX_FRAME_SIZE
          /\ g_data' \in Seq(Bytes)
      BY <2>1, LineAssumption
    <2>3. Opened'
      BY <1>8 DEF WaitExpLen, Take
    <2>4. TypeOK' /\ Stored'
      BY <1>8, <2>1, <2>2, TakeType DEF WaitExpLen, TypeOK, States
    <2> QED BY <2>3, <2>4
  <1>9. CASE StorePayload
    <2>1. g_data' \in Seq(Bytes) /\ Len(g_data') = Len(g_data) + 1
      BY <1>9, TakeType DEF StorePayload, TypeOK
    <2>2. Len(g_data') <= g_dataSize /\ Len(g_data') <= CMD_MAX_FRAME_SIZE
      BY <1>9, <2>1, LineAssumption DEF StorePayload, TypeOK
    <2> QED BY <1>9, <2>1, <2>2, TakeType DEF StorePayload, TypeOK, States
  <1>10. CASE Complete
    <2>1. Message \in FrameIds \cup {0}
      BY DEF Message
    <2>2. got' \in Seq(FrameIds \cup {0})
      BY <1>10, <2>1 DEF Complete, TypeOK
    <2>3. timeoutMs' \in 0..(TIME_WRAP - 1)
      BY <1>10, TimeAssumption DEF Complete
    <2>4. /\ state' \in States /\ pc' \in {"idle", "parse", "overwritten"}
          /\ UNCHANGED <<g_dataSize, g_data, open>>
      BY <1>10 DEF Complete, States
    <2>5. /\ ring' \in Seq(Bytes) /\ Len(ring') < UART0_RX_BUFFER_SIZE
          /\ UNCHANGED <<line, overruns, damaged, sec, isConnected, prevTimeSec, cut, due>>
      BY <1>10, TakeType DEF Complete
    <2>6. TypeOK'
      BY <2>2, <2>3, <2>4, <2>5 DEF TypeOK
    <2> QED BY <1>10, <2>6 DEF Complete
  <1>11. CASE NoEtx
    BY <1>11, TakeType DEF NoEtx, TypeOK, States
  <1>12. CASE NoData
    BY <1>12 DEF NoData, TypeOK, lineVars, timeVars
  <1>13. CASE UNCHANGED vars
    BY <1>13 DEF TypeOK, vars, lineVars, timeVars, parserVars
  <1>14. CASE Overwrite
    BY <1>14, TakeType DEF Overwrite, TypeOK
  <1> QED BY <1>1, <1>2, <1>3, <1>4, <1>5, <1>6, <1>7, <1>8, <1>9, <1>10,
             <1>11, <1>12, <1>13, <1>14
          DEF Next, Around, Parse, IdleReturn, Overwritten

\* The state is well typed: the ring holds what it has room for, a length is a
\* byte, and the parser stores no more than that; whatever bytes are lost, and
\* so whatever it takes for a length.
THEOREM CmdTypeCorrect == Spec => []TypeOK
  <1>1. Spec => []Typed
    BY InitTyped, NextTyped, PTL DEF Spec
  <1>2. Typed => TypeOK
    BY DEF Typed
  <1> QED BY <1>1, <1>2, PTL

-----------------------------------------------------------------------------
(* A frame at the head of the ring is received *)

\* r begins with what is left of frame f after its first p bytes.
RestOf(r, f, p) ==
  /\ Len(r) >= FrameLen(f) - p
  /\ \A k \in 1..(FrameLen(f) - p) : r[k] = <<f, p + k>>

\* The bytes of a frame the parser has taken.
Position == IF state = "idle" THEN 0
            ELSE IF state = "seqNo" THEN 1
            ELSE IF state = "expLen" THEN 2
            ELSE Len(g_data) + 3

\* What is stored is the payload of f up to here.
Own(f) == /\ g_dataSize = Payloads[f]
          /\ \A k \in 1..Len(g_data) : g_data[k] = <<f, k + 3>>

\* During a call that found frame due at the head of the ring: the parser is
\* within that frame, and the rest of it is still in the ring.
HeadInv ==
  due # 0 /\ pc = "parse" =>
    RestOf(ring, due, Position) /\ (state = "payload" => Own(due))

\* A frame the last call left unfinished is given up by the next call.
GivesUp ==
  state # "idle" /\ (prevTimeSec + 1) * SECOND < TIME_WRAP =>
    timeoutMs # 0 /\ timeoutMs <= prevTimeSec * SECOND + SECOND

HInv == HeadInv /\ GivesUp /\ HeadFrameReceived

\* The length of a frame is a number above its payload's.
LEMMA FrameLenType ==
  \A f \in FrameIds : /\ Payloads[f] \in Nat /\ Payloads[f] > ETX
                      /\ FrameLen(f) \in Nat
                      /\ FrameLen(f) = Payloads[f] + 4
  BY LineAssumption DEF FrameLen, ETX

\* The rest of a frame is never empty before the parser has taken it all.
LEMMA RestHead ==
  ASSUME NEW f \in FrameIds, NEW r \in Seq(Bytes), NEW p \in Nat,
         p < FrameLen(f), RestOf(r, f, p)
  PROVE  /\ r # <<>> /\ Head(r) = <<f, p + 1>>
         /\ RestOf(Tail(r), f, p + 1)
  <1>1. FrameLen(f) \in Nat
    BY FrameLenType
  <1>2. Len(r) \in Nat /\ Len(r) >= 1 /\ r[1] = <<f, p + 1>>
    BY <1>1 DEF RestOf
  <1>3. /\ r # <<>> /\ Head(r) = r[1] /\ Len(Tail(r)) = Len(r) - 1
        /\ \A k \in 1..(Len(r) - 1) : Tail(r)[k] = r[k + 1]
    BY <1>2
  <1>4. Len(Tail(r)) >= FrameLen(f) - (p + 1)
    BY <1>1, <1>3, <1>2 DEF RestOf
  <1>5. ASSUME NEW k \in 1..(FrameLen(f) - (p + 1))
        PROVE  Tail(r)[k] = <<f, (p + 1) + k>>
    <2>1. k + 1 \in 1..(FrameLen(f) - p) /\ k \in 1..(Len(r) - 1)
      BY <1>1, <1>2 DEF RestOf
    <2>2. r[k + 1] = <<f, p + (k + 1)>>
      BY <2>1 DEF RestOf
    <2>3. p + (k + 1) = (p + 1) + k
      BY <2>1
    <2> QED BY <2>1, <2>2, <2>3, <1>3
  <1> QED BY <1>2, <1>3, <1>4, <1>5 DEF RestOf

\* A byte that arrives leaves what is before it in the ring alone.
LEMMA RestAppend ==
  ASSUME NEW f \in FrameIds, NEW r \in Seq(Bytes), NEW p \in Nat,
         NEW b \in Bytes, RestOf(r, f, p)
  PROVE  RestOf(Append(r, b), f, p)
  <1>1. FrameLen(f) \in Nat /\ Len(r) \in Nat
    BY FrameLenType
  <1>2. /\ Len(Append(r, b)) = Len(r) + 1
        /\ \A k \in 1..Len(r) : Append(r, b)[k] = r[k]
    OBVIOUS
  <1> QED BY <1>1, <1>2 DEF RestOf

\* The four kinds of bytes of a frame, as the parser reads them.
LEMMA FrameVals ==
  ASSUME NEW f \in FrameIds
  PROVE  /\ Val(<<f, 1>>) = STX
         /\ Val(<<f, 3>>) = Payloads[f]
         /\ Val(<<f, Payloads[f] + 4>>) = ETX
  BY FrameLenType DEF Val, ETX

\* The message that consists of the whole payload of f is f's.
LEMMA MessageIs ==
  ASSUME NEW f \in FrameIds, g_data \in Seq(Bytes), Own(f),
         Len(g_data) = g_dataSize
  PROVE  Message = f
  <1>1. Payloads[f] \in Nat /\ Payloads[f] > 3 /\ Len(g_data) = Payloads[f]
    BY FrameLenType DEF Own, ETX
  <1>2. g_data = [i \in 1..Payloads[f] |-> <<f, i + 3>>]
    <2>1. g_data = [i \in 1..Len(g_data) |-> g_data[i]]
      OBVIOUS
    <2>2. \A i \in 1..Len(g_data) : g_data[i] = <<f, i + 3>>
      BY DEF Own
    <2> QED BY <1>1, <2>1, <2>2
  <1>3. ASSUME NEW h \in FrameIds,
               g_data = [i \in 1..Payloads[h] |-> <<h, i + 3>>]
        PROVE  h = f
    <2>1. Payloads[h] \in Nat /\ Payloads[h] > 3
      BY FrameLenType DEF ETX
    <2>2. g_data[1] = <<h, 1 + 3>>
      <3>1. 1 \in 1..Payloads[h]
        BY <2>1
      <3> QED BY <1>3, <3>1
    <2>3. g_data[1] = <<f, 1 + 3>>
      <3>1. 1 \in 1..Payloads[f]
        BY <1>1
      <3> QED BY <1>2, <3>1
    <2> QED BY <2>2, <2>3
  <1> QED BY <1>2, <1>3 DEF Message

\* What kicking the timeout does before the time wraps.
LEMMA KickedIs ==
  ASSUME prevTimeSec \in Nat, (prevTimeSec + 1) * SECOND < TIME_WRAP
  PROVE  Kicked # 0 /\ Kicked <= prevTimeSec * SECOND + SECOND
  <1> DEFINE ms == prevTimeSec * SECOND
  <1>1. ms \in Nat /\ (prevTimeSec + 1) * SECOND = ms + SECOND
    BY TimeAssumption
  <1> HIDE DEF ms
  <1>2. \A x \in Nat : x < TIME_WRAP => x % TIME_WRAP = x
    BY TimeAssumption
  <1>3. ms < TIME_WRAP /\ ms + CMD_UART_RCV_DATA_TIMEOUT < TIME_WRAP
    BY <1>1, TimeAssumption
  <1>4. Ms(prevTimeSec) = ms
    BY <1>1, <1>2, <1>3 DEF Ms, ms
  <1>5. Kicked = ms + CMD_UART_RCV_DATA_TIMEOUT
    BY <1>1, <1>2, <1>3, <1>4, TimeAssumption DEF Kicked
  <1> QED BY <1>1, <1>5, TimeAssumption DEF ms

\* A call in a new second gives up what the last one left unfinished.
LEMMA PollResets ==
  ASSUME Typed, GivesUp, Poll, sec * SECOND < TIME_WRAP
  PROVE  state' = "idle"
  <1> DEFINE now == sec * SECOND
             next == (prevTimeSec + 1) * SECOND
  <1>1. sec \in Nat /\ prevTimeSec \in Nat /\ prevTimeSec + 1 <= sec
    BY LineAssumption DEF Typed, TypeOK, Poll
  <1>2. now \in Nat /\ next <= now
        /\ next = prevTimeSec * SECOND + SECOND
    BY <1>1, TimeAssumption
  <1>3. Ms(sec) = now
    <2>1. now < TIME_WRAP
      OBVIOUS
    <2> HIDE DEF now
    <2>2. now % TIME_WRAP = now
      BY <1>2, <2>1, TimeAssumption
    <2> QED BY <2>2 DEF Ms, now
  <1>4. timeoutMs \in Nat
    BY TimeAssumption DEF Typed, TypeOK
  <1>5. next < TIME_WRAP
    <2>1. now < TIME_WRAP
      OBVIOUS
    <2> HIDE DEF now, next
    <2> QED BY <1>2, <2>1, TimeAssumption, <1>1
  <1>6. state # "idle" => timeoutMs # 0 /\ timeoutMs <= next
    BY <1>2, <1>5 DEF GivesUp
  <1>7. state # "idle" => timeoutMs # 0 /\ Ms(sec) >= timeoutMs
    <2> HIDE DEF now, next
    <2>1. next \in Nat
      BY <1>1, TimeAssumption DEF next
    <2> QED BY <1>2, <1>3, <1>4, <1>6, <2>1
  <1> QED BY <1>7 DEF Poll, GiveUp

\* During a call that found frame due, its next byte is the next in the ring.
LEMMA Within ==
  ASSUME Typed, HeadInv, due # 0, pc = "parse"
  PROVE  /\ due \in FrameIds /\ Position \in Nat /\ Position < FrameLen(due)
         /\ ring # <<>> /\ Head(ring) = <<due, Position + 1>>
         /\ RestOf(Tail(ring), due, Position + 1)
  <1>1. due \in FrameIds /\ ring \in Seq(Bytes) /\ g_data \in Seq(Bytes)
        /\ state \in States /\ g_dataSize \in Nat
    BY LineAssumption DEF Typed, TypeOK
  <1>2. RestOf(ring, due, Position)
    BY DEF HeadInv
  <1>3. FrameLen(due) = Payloads[due] + 4 /\ Payloads[due] \in Nat
    BY <1>1, FrameLenType
  <1>4. state = "payload" => Len(g_data) <= Payloads[due]
    BY DEF HeadInv, Own, Typed, Stored
  <1>5. Position \in Nat /\ Position < FrameLen(due)
    BY <1>1, <1>3, <1>4 DEF Position, States
  <1> QED BY <1>1, <1>2, <1>5, RestHead

\* No call has begun.
LEMMA InitH == Init => HInv
  BY DEF Init, HInv, HeadInv, GivesUp, HeadFrameReceived

\* The timeout is kicked with every byte of a frame.
LEMMA NextGivesUp == Typed /\ GivesUp /\ [Next]_vars => GivesUp'
  <1> SUFFICES ASSUME Typed, GivesUp, [Next]_vars PROVE GivesUp'
    OBVIOUS
  <1>1. CASE Poll
    <2>1. CASE sec * SECOND < TIME_WRAP
      BY <1>1, <2>1, PollResets DEF GivesUp
    <2>2. CASE ~(sec * SECOND < TIME_WRAP)
      <3> DEFINE ms == sec * SECOND
      <3>1. sec \in Nat
        BY LineAssumption DEF Typed, TypeOK
      <3>2. ms \in Nat /\ (sec + 1) * SECOND = ms + SECOND
        BY <3>1, TimeAssumption
      <3>3. ~(ms < TIME_WRAP)
        BY <2>2
      <3> HIDE DEF ms
      <3>4. ~((sec + 1) * SECOND < TIME_WRAP)
        BY <3>2, <3>3, TimeAssumption
      <3> QED BY <1>1, <3>4 DEF Poll, GivesUp
    <2> QED BY <2>1, <2>2
  <1>2. ASSUME timeoutMs' = Kicked, prevTimeSec' = prevTimeSec PROVE GivesUp'
    <2>1. prevTimeSec \in Nat
      BY LineAssumption DEF Typed, TypeOK
    <2> QED BY <1>2, <2>1, KickedIs DEF GivesUp
  <1>3. CASE WaitStx
    BY <1>2, <1>3 DEF WaitStx, Take, GivesUp
  <1>4. CASE WaitSeqNo \/ WaitExpLen \/ StorePayload \/ NoEtx
    BY <1>2, <1>4 DEF WaitSeqNo, WaitExpLen, StorePayload, NoEtx, Take
  <1>5. CASE Complete
    BY <1>5 DEF Complete, GivesUp
  <1>6. CASE NoData
    BY <1>6 DEF NoData, GivesUp
  <1>7. CASE Receive \/ Overrun \/ Second \/ Connection \/ UNCHANGED vars
    BY <1>7 DEF Receive, Overrun, Second, Connection, vars, parserVars, GivesUp
  <1>8. CASE Overwrite
    BY <1>8 DEF Overwrite, Take, GivesUp
  <1> QED BY <1>1, <1>3, <1>4, <1>5, <1>6, <1>7, <1>8
          DEF Next, Around, Parse, IdleReturn, Overwritten

\* Every step of a call keeps the parser within the frame it found.
LEMMA NextHead ==
  Typed /\ Typed' /\ HInv /\ [Next]_vars => HeadInv' /\ HeadFrameReceived'
  <1> SUFFICES ASSUME Typed, Typed', HInv, [Next]_vars
               PROVE  HeadInv' /\ HeadFrameReceived'
    OBVIOUS
  <1> USE DEF HInv
  <1>1. CASE Receive
    <2>1. HeadFrameReceived'
      BY <1>1 DEF Receive, parserVars, HeadFrameReceived
    <2>2. ASSUME due # 0, pc = "parse" PROVE RestOf(ring', due, Position)
      <3>1. line \in Bytes /\ ring \in Seq(Bytes) /\ due \in FrameIds
            /\ Position \in Nat /\ RestOf(ring, due, Position)
        <4>1. line \in Bytes
          BY <1>1, LineType DEF Receive, Typed
        <4>2. ring \in Seq(Bytes)
          BY DEF Typed, TypeOK
        <4>3. RestOf(ring, due, Position)
          BY <2>2 DEF HeadInv
        <4> QED BY <4>1, <4>2, <4>3, <2>2, Within
      <3>2. ring' = ring \/ ring' = Append(ring, line)
        BY <1>1 DEF Receive
      <3> QED BY <3>1, <3>2, RestAppend
    <2>3. HeadInv'
      BY <1>1, <2>2 DEF Receive, parserVars, HeadInv, Position, Own
    <2> QED BY <2>1, <2>3
  <1>2. CASE Overrun \/ Second \/ Connection \/ UNCHANGED vars
    BY <1>2 DEF Overrun, Second, Connection, vars, lineVars, parserVars,
                HeadInv, Position, Own, HeadFrameReceived
  <1>3. CASE Poll
    <2>1. ASSUME due' # 0
          PROVE  state' = "idle" /\ ring' = ring /\ RestOf(ring, due', 0)
      <3>1. Unwrapped /\ due' = HeadFrame /\ HeadFrame # 0
        BY <1>3, <2>1 DEF Poll
      <3>2. HeadIs(due')
        BY <3>1 DEF HeadFrame
      <3>3. state' = "idle"
        BY <1>3, <3>1, PollResets DEF Unwrapped
      <3>4. due' \in FrameIds
        BY <2>1 DEF Typed, TypeOK
      <3>5. FrameLen(due') \in Nat
        BY <3>4, FrameLenType
      <3>6. RestOf(ring, due', 0)
        BY <3>2, <3>5 DEF RestOf, HeadIs
      <3> QED BY <1>3, <3>3, <3>6 DEF Poll, lineVars
    <2>2. HeadInv'
      BY <2>1 DEF HeadInv, Position
    <2> QED BY <1>3, <2>2 DEF Poll, HeadFrameReceived
  <1>4. ASSUME NEW s, Take(s), due # 0
        PROVE  /\ due' = due /\ due \in FrameIds /\ Position \in Nat
               /\ Head(ring) = <<due, Position + 1>>
               /\ RestOf(ring', due, Position + 1)
               /\ state = s /\ pc = "parse"
    BY <1>4, Within DEF Take
  <1>5. CASE WaitStx
    <2>1. ASSUME due # 0
          PROVE  state' = "seqNo" /\ RestOf(ring', due, 1) /\ due' = due
      <3>1. Head(ring) = <<due, 1>> /\ RestOf(ring', due, 1) /\ due' = due
            /\ due \in FrameIds
        BY <1>4, <1>5, <2>1 DEF WaitStx, Position
      <3> QED BY <1>5, <3>1, FrameVals DEF WaitStx
    <2>2. pc' = "parse" /\ due' = due
      BY <1>5 DEF WaitStx, Take
    <2> QED BY <2>1, <2>2 DEF HeadInv, Position, HeadFrameReceived
  <1>6. CASE WaitSeqNo
    <2>1. due # 0 => RestOf(ring', due, 2)
      BY <1>4, <1>6 DEF WaitSeqNo, Position
    <2>2. pc' = "parse" /\ due' = due /\ state' = "expLen"
      BY <1>6 DEF WaitSeqNo, Take
    <2> QED BY <2>1, <2>2 DEF HeadInv, Position, HeadFrameReceived
  <1>7. CASE WaitExpLen
    <2>1. pc' = "parse" /\ due' = due /\ state' = "payload"
          /\ g_data' = <<>> /\ g_dataSize' = Val(Head(ring))
      BY <1>7 DEF WaitExpLen, Take
    <2>2. ASSUME due # 0
          PROVE  RestOf(ring', due, 3) /\ g_dataSize' = Payloads[due]
      <3>1. RestOf(ring', due, 3) /\ Head(ring) = <<due, 3>>
            /\ due \in FrameIds
        BY <1>4, <1>7, <2>2 DEF WaitExpLen, Position
      <3> QED BY <2>1, <3>1, FrameVals
    <2>3. Position' = 3
      BY <2>1 DEF Position
    <2>4. due # 0 => Own(due)'
      BY <2>1, <2>2 DEF Own
    <2> QED BY <2>1, <2>2, <2>3, <2>4 DEF HeadInv, HeadFrameReceived
  <1>8. CASE StorePayload
    <2>1. pc' = "parse" /\ pc = "parse" /\ due' = due /\ state' = "payload"
          /\ state = "payload"
          /\ g_data' = Append(g_data, Head(ring)) /\ g_dataSize' = g_dataSize
      BY <1>8 DEF StorePayload, Take
    <2>2. g_data \in Seq(Bytes) /\ Len(g_data) \in Nat
      BY DEF Typed, TypeOK
    <2>3. Head(ring) \in Bytes
      BY <1>8, TakeType DEF StorePayload, Typed
    <2>4. /\ Len(g_data') = Len(g_data) + 1
          /\ \A k \in 1..Len(g_data) : g_data'[k] = g_data[k]
          /\ g_data'[Len(g_data) + 1] = Head(ring)
      BY <2>1, <2>2, <2>3
    <2>5. Position = Len(g_data) + 3 /\ Position' = Position + 1
      BY <2>1, <2>2, <2>4 DEF Position
    <2>6. due # 0 => RestOf(ring', due, Position')
      BY <1>4, <1>8, <2>5 DEF StorePayload
    <2>7. ASSUME due # 0 PROVE Own(due)'
      <3>1. Own(due)
        BY <2>1, <2>7 DEF HeadInv
      <3>2. Head(ring) = <<due, (Len(g_data) + 1) + 3>>
        <4>1. Head(ring) = <<due, Position + 1>>
          BY <1>4, <1>8, <2>7 DEF StorePayload
        <4>2. Position + 1 = (Len(g_data) + 1) + 3
          BY <2>5, <2>2
        <4> QED BY <4>1, <4>2
      <3>3. ASSUME NEW k \in 1..(Len(g_data) + 1)
            PROVE  g_data'[k] = <<due, k + 3>>
        <4>1. CASE k \in 1..Len(g_data)
          BY <3>1, <4>1, <2>4 DEF Own
        <4>2. CASE k = Len(g_data) + 1
          BY <3>2, <4>2, <2>4
        <4> QED BY <4>1, <4>2, <2>2
      <3> QED BY <2>1, <2>4, <3>1, <3>3 DEF Own
    <2> QED BY <2>1, <2>6, <2>7 DEF HeadInv, HeadFrameReceived
  <1>9. CASE Complete
    <2>1. pc' = "idle" /\ got' = Append(got, Message) /\ due' = due
          /\ pc = "parse" /\ state = "payload"
      BY <1>9 DEF Complete, Take
    <2>2. ASSUME due # 0 PROVE Message = due
      <3>1. Own(due) /\ due \in FrameIds /\ g_data \in Seq(Bytes)
        BY <2>1, <2>2 DEF HeadInv, Typed, TypeOK
      <3>2. Len(g_data) = g_dataSize
        BY <1>9, LineAssumption DEF Complete, Typed, TypeOK, Stored
      <3> QED BY <3>1, <3>2, MessageIs
    <2>3. got \in Seq(FrameIds \cup {0}) /\ Message \in FrameIds \cup {0}
      BY DEF Typed, TypeOK, Message
    <2>4. got' # <<>> /\ got'[Len(got')] = Message
      BY <2>1, <2>3
    <2> QED BY <2>1, <2>2, <2>4 DEF HeadInv, HeadFrameReceived
  <1>10. CASE NoEtx
    <2>1. pc' = "idle" /\ pc = "parse" /\ due' = due /\ state = "payload"
          /\ Val(Head(ring)) # ETX
      BY <1>10 DEF NoEtx, Take
    <2>2. ASSUME due # 0 PROVE FALSE
      <3>1. Own(due) /\ due \in FrameIds
        BY <2>1, <2>2 DEF HeadInv, Typed, TypeOK
      <3>2. Len(g_data) = Payloads[due]
        BY <1>10, <3>1, LineAssumption DEF NoEtx, Typed, TypeOK, Stored, Own
      <3>3. Position + 1 = Payloads[due] + 4
        BY <2>1, <3>1, <3>2, FrameLenType DEF Position
      <3>4. Head(ring) = <<due, Payloads[due] + 4>>
        BY <1>4, <1>10, <2>2, <3>3 DEF NoEtx
      <3> QED BY <2>1, <3>1, <3>4, FrameVals
    <2> QED BY <2>1, <2>2 DEF HeadInv, HeadFrameReceived
  <1>11. CASE NoData
    <2>1. due = 0
      BY <1>11, Within DEF NoData
    <2> QED BY <1>11, <2>1 DEF NoData, HeadInv, HeadFrameReceived
  <1>12. CASE Overwrite
    BY <1>12 DEF Overwrite, HeadInv, HeadFrameReceived
  <1> QED BY <1>1, <1>2, <1>3, <1>5, <1>6, <1>7, <1>8, <1>9, <1>10, <1>11, <1>12
          DEF Next, Around, Parse, IdleReturn, Overwritten

\* A frame that lies whole at the head of the ring when a call begins is
\* received by that call, in the first 2^32 ms: for frames of every length,
\* every ring and every pattern of lost bytes before it.
THEOREM HeadReceived == Spec => []HeadFrameReceived
  <1>1. Init => Typed /\ HInv
    BY InitTyped, InitH
  <1>2. Typed /\ HInv /\ [Next]_vars => (Typed /\ HInv)'
    BY NextTyped, NextGivesUp, NextHead DEF HInv
  <1>3. Typed /\ HInv => HeadFrameReceived
    BY DEF HInv
  <1> QED BY <1>1, <1>2, <1>3, PTL DEF Spec

-----------------------------------------------------------------------------
(* What becomes of a frame when no byte is lost *)

\* The order in which bytes are sent.
Less(b, c) == b[1] < c[1] \/ (b[1] = c[1] /\ b[2] < c[2])

\* The byte the parser takes next, r being the ring and l the line.
NextOf(r, l) == IF r = <<>> THEN l ELSE Head(r)
NextByte == NextOf(ring, line)

\* The ring holds every byte from NextByte to the line, in their order.
Unbroken(r, l) ==
  /\ \A k \in 1..Len(r) : Following(r[k]) = IF k = Len(r) THEN l ELSE r[k + 1]
  /\ \A b \in Bytes : Less(b, l) =>
       Less(b, NextOf(r, l)) \/ \E k \in 1..Len(r) : r[k] = b

\* The parser is where it thinks to be within a frame; or it has given that
\* frame up and passes over the rest of it.
Aligned ==
  pc # "overwritten" =>
    IF state = "idle" THEN NextByte[2] # 1 => NextByte[1] \in cut
    ELSE /\ NextByte = <<open, Position + 1>>
         /\ state = "payload" => Own(open)

\* Only a call that ended amid a frame leaves the parser amid a frame.
Left == pc = "idle" /\ state # "idle" => open \in cut

\* The frames the parser is done with.
Passed ==
  /\ \A f \in FrameIds : f < NextByte[1] => Received(f) \/ f \in cut
  /\ \A k \in 1..Len(got) : got[k] # 0

Flow == Unbroken(ring, line) /\ Aligned /\ Left /\ Passed

Flows == damaged = {} => Flow

\* The fields of a byte.
LEMMA ByteFields ==
  ASSUME NEW b \in Bytes
  PROVE  /\ b[1] \in FrameIds /\ b[1] \in Nat /\ b[2] \in Nat /\ b[2] >= 1
         /\ b[2] <= FrameLen(b[1]) /\ FrameLen(b[1]) \in Nat
         /\ b = <<b[1], b[2]>>
  BY FrameLenType, LineAssumption DEF Bytes, FrameIds

\* Between a byte and the next one there is none.
LEMMA NoneBetween ==
  ASSUME NEW b \in Bytes, NEW c \in Bytes
  PROVE  /\ Less(c, Following(c))
         /\ Less(b, Following(c)) => Less(b, c) \/ b = c
         /\ Less(b, c) => Less(b, Following(c)) /\ ~Less(c, b)
  <1>1. CASE c[2] = FrameLen(c[1])
    <2>1. Following(c) = <<c[1] + 1, 1>>
      BY <1>1 DEF Following
    <2>2. b[1] = c[1] => b[2] <= c[2]
      BY <1>1, ByteFields
    <2> QED BY <2>1, <2>2, ByteFields DEF Less
  <1>2. CASE c[2] # FrameLen(c[1])
    <2>1. Following(c) = <<c[1], c[2] + 1>>
      BY <1>2 DEF Following
    <2> QED BY <2>1, ByteFields DEF Less
  <1> QED BY <1>1, <1>2

\* A byte arrives.
LEMMA UnbrokenAppend ==
  ASSUME NEW r \in Seq(Bytes), NEW l \in Bytes, Unbroken(r, l)
  PROVE  /\ Unbroken(Append(r, l), Following(l))
         /\ NextOf(Append(r, l), Following(l)) = NextOf(r, l)
  <1> DEFINE q == Append(r, l)
  <1>1. /\ Len(q) = Len(r) + 1 /\ q # <<>> /\ Len(r) \in Nat
        /\ \A k \in 1..Len(r) : q[k] = r[k]
        /\ q[Len(r) + 1] = l /\ Head(q) = q[1] /\ q \in Seq(Bytes)
    OBVIOUS
  <1> HIDE DEF q
  <1>2. NextOf(q, Following(l)) = NextOf(r, l)
    <2>1. CASE r = <<>>
      BY <1>1, <2>1 DEF NextOf
    <2>2. CASE r # <<>>
      <3>1. Head(r) = r[1] /\ 1 \in 1..Len(r)
        BY <2>2
      <3> QED BY <1>1, <2>2, <3>1 DEF NextOf
    <2> QED BY <2>1, <2>2
  <1>3. ASSUME NEW k \in 1..Len(q)
        PROVE  Following(q[k]) = IF k = Len(q) THEN Following(l) ELSE q[k + 1]
    <2>1. CASE k = Len(q)
      BY <1>1, <2>1
    <2>2. CASE k = Len(r)
      BY <1>1, <2>2 DEF Unbroken
    <2>3. CASE k # Len(q) /\ k # Len(r)
      <3>1. k \in 1..Len(r) /\ k + 1 \in 1..Len(r)
        BY <1>1, <2>3
      <3> QED BY <1>1, <2>3, <3>1 DEF Unbroken
    <2> QED BY <2>1, <2>2, <2>3
  <1>4. ASSUME NEW b \in Bytes, Less(b, Following(l))
        PROVE  Less(b, NextOf(q, Following(l))) \/ \E k \in 1..Len(q) : q[k] = b
    <2>1. CASE b = l
      BY <1>1, <2>1
    <2>2. CASE b # l
      <3>1. Less(b, l)
        BY <1>4, <2>2, NoneBetween
      <3>2. Less(b, NextOf(r, l)) \/ \E k \in 1..Len(r) : r[k] = b
        BY <3>1 DEF Unbroken
      <3>3. ASSUME NEW k \in 1..Len(r), r[k] = b PROVE k \in 1..Len(q) /\ q[k] = b
        BY <1>1, <3>3
      <3> QED BY <1>2, <3>2, <3>3
    <2> QED BY <2>1, <2>2
  <1> QED BY <1>2, <1>3, <1>4 DEF Unbroken, q

\* The parser takes a byte.
LEMMA UnbrokenTail ==
  ASSUME NEW r \in Seq(Bytes), NEW l, Unbroken(r, l), r # <<>>
  PROVE  /\ Unbroken(Tail(r), l)
         /\ NextOf(Tail(r), l) = Following(Head(r))
  <1> DEFINE q == Tail(r)
  <1>1. /\ Len(r) \in Nat /\ Len(r) >= 1 /\ Len(q) = Len(r) - 1 /\ q \in Seq(Bytes)
        /\ \A k \in 1..(Len(r) - 1) : q[k] = r[k + 1]
        /\ Head(r) = r[1] /\ r[1] \in Bytes
        /\ (q = <<>>) <=> (Len(r) = 1)
        /\ q # <<>> => Head(q) = q[1]
    <2>1. Len(r) \in Nat /\ Len(r) >= 1 /\ r[1] \in Bytes /\ Head(r) = r[1]
      OBVIOUS
    <2>2. /\ Len(q) = Len(r) - 1 /\ q \in Seq(Bytes)
          /\ \A k \in 1..(Len(r) - 1) : q[k] = r[k + 1]
      BY <2>1
    <2> HIDE DEF q
    <2>3. (q = <<>>) <=> (Len(q) = 0)
      BY <2>2
    <2>4. q # <<>> => Head(q) = q[1]
      BY <2>2
    <2> QED BY <2>1, <2>2, <2>3, <2>4
  <1> HIDE DEF q
  <1>2. NextOf(q, l) = Following(r[1])
    <2>1. Following(r[1]) = IF 1 = Len(r) THEN l ELSE r[1 + 1]
      BY <1>1 DEF Unbroken
    <2>2. Len(r) # 1 => q[1] = r[1 + 1]
      BY <1>1
    <2> QED BY <1>1, <2>1, <2>2 DEF NextOf
  <1>3. ASSUME NEW k \in 1..Len(q)
        PROVE  Following(q[k]) = IF k = Len(q) THEN l ELSE q[k + 1]
    <2>1. k + 1 \in 1..Len(r) /\ q[k] = r[k + 1] /\ (k + 1 = Len(r) <=> k = Len(q))
      BY <1>1
    <2>2. Following(r[k + 1]) = IF k + 1 = Len(r) THEN l ELSE r[(k + 1) + 1]
      BY <2>1 DEF Unbroken
    <2>3. k # Len(q) => q[k + 1] = r[(k + 1) + 1]
      BY <1>1, <2>1
    <2> QED BY <2>1, <2>2, <2>3
  <1>4. ASSUME NEW b \in Bytes, Less(b, l)
        PROVE  Less(b, NextOf(q, l)) \/ \E k \in 1..Len(q) : q[k] = b
    <2>1. CASE Less(b, NextOf(r, l))
      BY <1>1, <1>2, <2>1, NoneBetween DEF NextOf
    <2>2. CASE \E k \in 1..Len(r) : r[k] = b
      <3>1. PICK k \in 1..Len(r) : r[k] = b
        BY <2>2
      <3>2. CASE k = 1
        BY <1>1, <1>2, <3>1, <3>2, NoneBetween
      <3>3. CASE k # 1
        <4>1. k - 1 \in 1..Len(q) /\ q[k - 1] = r[(k - 1) + 1] /\ (k - 1) + 1 = k
          BY <1>1, <3>3
        <4> QED BY <3>1, <4>1
      <3> QED BY <3>2, <3>3
    <2> QED BY <1>4, <2>1, <2>2 DEF Unbroken
  <1> QED BY <1>1, <1>2, <1>3, <1>4 DEF Unbroken, q

\* The first bytes sent are the first to be taken.
LEMMA InitFlows == Init => Flows
  <1> SUFFICES ASSUME Init PROVE Flow
    BY DEF Flows
  <1>1. /\ ring = <<>> /\ line = <<1, 1>> /\ Len(ring) = 0
        /\ state = "idle" /\ pc = "idle" /\ got = <<>> /\ Len(got) = 0
    BY DEF Init
  <1>2. NextByte = <<1, 1>>
    BY <1>1 DEF NextByte, NextOf
  <1>3. Unbroken(ring, line)
    <2>1. ASSUME NEW b \in Bytes, Less(b, line) PROVE FALSE
      BY <2>1, <1>1, ByteFields DEF Less, FrameIds
    <2> QED BY <1>1, <2>1 DEF Unbroken
  <1>4. Aligned /\ Left
    BY <1>1, <1>2 DEF Aligned, Left
  <1>5. Passed
    BY <1>1, <1>2 DEF Passed, FrameIds
  <1> QED BY <1>3, <1>4, <1>5 DEF Flow

\* Frames are distinct bytes: only the first of one reads as STX, and only the
\* last as ETX.
LEMMA WhichByte ==
  ASSUME NEW f \in FrameIds, NEW i \in 1..FrameLen(f)
  PROVE  /\ Val(<<f, i>>) = STX <=> i = 1
         /\ i = FrameLen(f) => Val(<<f, i>>) = ETX
         /\ i = 3 => Val(<<f, i>>) = Payloads[f]
         /\ <<f, i>> \in Bytes
  <1>1. Payloads[f] \in Nat /\ Payloads[f] > ETX /\ FrameLen(f) \in Nat /\ FrameLen(f) > 4
    BY FrameLenType, LineAssumption DEF ETX, FrameLen
  <1>0. <<f, i>> \in Bytes
    BY BytesAre
  <1>2. Val(<<f, i>>) = STX <=> i = 1
    <2>1. Text[<<f, i>>] > ETX /\ Text[<<f, i>>] \in Nat
      BY <1>0, LineAssumption DEF ETX
    <2> QED BY <1>1, <2>1 DEF Val, STX, SEQ_NO, ETX
  <1>3. i = FrameLen(f) => Val(<<f, i>>) = ETX
    BY <1>1 DEF Val
  <1>4. i = 3 => Val(<<f, i>>) = Payloads[f]
    BY <1>1 DEF Val
  <1> QED BY <1>0, <1>2, <1>3, <1>4

\* What taking a byte does to the flow.
LEMMA TakeFlow ==
  ASSUME Typed, Flow, NEW s, Take(s)
  PROVE  /\ NextByte = Head(ring) /\ NextByte \in Bytes
         /\ Unbroken(ring, line)'
         /\ NextByte' = Following(NextByte)
         /\ pc = "parse" /\ state = s /\ cut' = cut
  <1>1. ring \in Seq(Bytes) /\ ring # <<>> /\ ring' = Tail(ring) /\ line' = line
        /\ pc = "parse" /\ state = s /\ cut' = cut
    BY DEF Typed, TypeOK, Take
  <1>2. NextByte = Head(ring) /\ Head(ring) \in Bytes
    BY <1>1 DEF NextByte, NextOf
  <1>3. Unbroken(Tail(ring), line) /\ NextOf(Tail(ring), line) = Following(Head(ring))
    BY <1>1, UnbrokenTail DEF Flow
  <1> QED BY <1>1, <1>2, <1>3 DEF NextByte

\* A byte taken from within a frame passes no frame, the last one its frame.
LEMMA TakePasses ==
  ASSUME Typed, Flow, NEW s, Take(s),
         \A f \in FrameIds : Received(f) => Received(f)',
         \A k \in 1..Len(got') : got'[k] # 0,
         \A f \in FrameIds : NextByte = <<f, FrameLen(f)>> =>
                               Received(f)' \/ f \in cut
  PROVE  Passed'
  <1>1. NextByte \in Bytes /\ NextByte' = Following(NextByte) /\ cut' = cut
    BY TakeFlow
  <1>2. ASSUME NEW f \in FrameIds, f < NextByte'[1]
        PROVE  Received(f)' \/ f \in cut
    <2>1. CASE f < NextByte[1]
      BY <2>1 DEF Flow, Passed
    <2>2. CASE ~(f < NextByte[1])
      <3>1. NextByte[1] \in Nat /\ f \in Nat
        BY <1>1, ByteFields DEF FrameIds
      <3>2. NextByte'[1] = IF NextByte[2] = FrameLen(NextByte[1])
                           THEN NextByte[1] + 1 ELSE NextByte[1]
        BY <1>1 DEF Following
      <3>3. NextByte[2] = FrameLen(NextByte[1]) /\ f = NextByte[1]
        BY <1>2, <2>2, <3>1, <3>2
      <3>4. NextByte = <<f, FrameLen(f)>>
        BY <1>1, <3>3, ByteFields
      <3> QED BY <3>4
    <2> QED BY <2>1, <2>2
  <1> QED BY <1>1, <1>2 DEF Passed

\* Amid a frame the next byte follows within it, or, by the ETX, ends it.
LEMMA WithinFrame ==
  ASSUME Typed, Flow, state # "idle", pc # "overwritten"
  PROVE  /\ open \in FrameIds /\ NextByte = <<open, Position + 1>>
         /\ Position + 1 \in 1..FrameLen(open)
         /\ Position + 1 = FrameLen(open) <=>
              state = "payload" /\ Len(g_data) = g_dataSize
         /\ Position + 1 # FrameLen(open) =>
              Following(NextByte) = <<open, Position + 2>>
         /\ state = "payload" => Own(open)
  <1>1. /\ open \in FrameIds /\ NextByte = <<open, Position + 1>>
        /\ state = "payload" => Own(open)
    BY DEF Typed, Opened, Flow, Aligned
  <1>2. /\ state \in States /\ g_dataSize \in Nat /\ Len(g_data) \in Nat
        /\ Len(g_data) <= g_dataSize
    BY LineAssumption DEF Typed, TypeOK, Stored
  <1>3. FrameLen(open) = Payloads[open] + 4 /\ Payloads[open] \in Nat /\ Payloads[open] > 3
    BY <1>1, FrameLenType DEF ETX
  <1>4. state = "payload" => g_dataSize = Payloads[open]
    BY <1>1 DEF Own
  <1>5. /\ Position + 1 \in 1..FrameLen(open)
        /\ Position + 1 = FrameLen(open) <=>
             state = "payload" /\ Len(g_data) = g_dataSize
    BY <1>2, <1>3, <1>4 DEF Position, States
  <1>6. Position + 1 # FrameLen(open) => Following(NextByte) = <<open, Position + 2>>
    <2>1. Position \in Nat
      BY <1>2 DEF Position
    <2> QED BY <1>1, <2>1 DEF Following
  <1> QED BY <1>1, <1>5, <1>6

\* The parser's steps, while no byte is lost.
LEMMA ParseFlows ==
  ASSUME Typed, Typed', Flow, Parse PROVE Flow'
  <1> USE DEF Flow
  <1>1. CASE WaitStx
    <2>1. Take("idle") /\ pc' = pc /\ got' = got
      BY <1>1 DEF WaitStx
    <2>2. /\ NextByte = Head(ring) /\ NextByte \in Bytes /\ Unbroken(ring, line)'
          /\ NextByte' = Following(NextByte)
          /\ pc = "parse" /\ state = "idle" /\ cut' = cut
      BY <2>1, TakeFlow
    <2>3. /\ NextByte[1] \in FrameIds /\ NextByte[2] \in 1..FrameLen(NextByte[1])
          /\ NextByte = <<NextByte[1], NextByte[2]>> /\ FrameLen(NextByte[1]) > 1
      BY <2>2, ByteFields, FrameLenType DEF ETX
    <2>4. Val(NextByte) = STX <=> NextByte[2] = 1
      BY <2>3, WhichByte
    <2>5. NextByte[2] # 1 => NextByte[1] \in cut
      BY <2>2 DEF Aligned
    <2>6. Passed'
      <3>1. \A f \in FrameIds : Received(f) => Received(f)'
        BY <2>1 DEF Received
      <3>2. \A k \in 1..Len(got') : got'[k] # 0
        BY <2>1 DEF Passed
      <3>3. \A f \in FrameIds : NextByte = <<f, FrameLen(f)>> => f \in cut
        BY <2>3, <2>5
      <3> QED BY <2>1, <3>1, <3>2, <3>3, TakePasses
    <2>7. Aligned'
      <3>1. CASE NextByte[2] = 1
        <4>1. state' = "seqNo" /\ open' = NextByte[1]
          BY <1>1, <2>2, <2>4, <3>1 DEF WaitStx
        <4>2. NextByte' = <<open', 2>>
          BY <2>2, <2>3, <3>1, <4>1 DEF Following
        <4> QED BY <4>1, <4>2 DEF Aligned, Position
      <3>2. CASE NextByte[2] # 1
        <4>1. state' = "idle"
          BY <1>1, <2>2, <2>4, <3>2 DEF WaitStx
        <4>2. NextByte'[2] # 1 => NextByte'[1] = NextByte[1]
          BY <2>2 DEF Following
        <4> QED BY <2>2, <2>5, <3>2, <4>1, <4>2 DEF Aligned
      <3> QED BY <3>1, <3>2
    <2>8. Left'
      BY <2>1, <2>2 DEF Left
    <2> QED BY <2>2, <2>6, <2>7, <2>8
  <1>2. ASSUME Take(state), state # "idle", pc' = "parse", got' = got, open' = open,
               state' # "idle",
               ~(state = "payload" /\ Len(g_data) = g_dataSize),
               Position' = Position + 1, state' = "payload" => Own(open)'
        PROVE  Flow'
    <2>1. /\ Unbroken(ring, line)' /\ NextByte' = Following(NextByte) /\ cut' = cut
          /\ pc = "parse"
      BY <1>2, TakeFlow
    <2>2. /\ open \in FrameIds /\ NextByte = <<open, Position + 1>>
          /\ Position + 1 # FrameLen(open)
          /\ NextByte' = <<open, Position + 2>>
      BY <1>2, <2>1, WithinFrame
    <2>3. Position \in Nat
      BY LineAssumption DEF Position, Typed, TypeOK
    <2>4. Aligned'
      <3>1. Position' + 1 = Position + 2
        BY <1>2, <2>3
      <3> QED BY <1>2, <2>2, <3>1 DEF Aligned
    <2>5. Passed'
      <3>1. \A f \in FrameIds : Received(f) => Received(f)'
        BY <1>2 DEF Received
      <3>2. \A k \in 1..Len(got') : got'[k] # 0
        BY <1>2 DEF Passed
      <3>3. \A f \in FrameIds : NextByte # <<f, FrameLen(f)>>
        BY <2>2
      <3> QED BY <1>2, <3>1, <3>2, <3>3, TakePasses
    <2> QED BY <1>2, <2>1, <2>4, <2>5 DEF Left
  <1>3. CASE WaitSeqNo
    BY <1>2, <1>3 DEF WaitSeqNo, Take, Position
  <1>4. CASE WaitExpLen
    <2>1. /\ Take("expLen") /\ state = "expLen" /\ state' = "payload" /\ g_data' = <<>>
          /\ g_dataSize' = Val(Head(ring)) /\ pc' = "parse" /\ got' = got /\ open' = open
      BY <1>4 DEF WaitExpLen, Take
    <2>2. open \in FrameIds /\ Head(ring) = <<open, 3>>
      BY <2>1, TakeFlow, WithinFrame DEF Position
    <2>3. g_dataSize' = Payloads[open]
      BY <2>1, <2>2, FrameVals
    <2>4. Own(open)' /\ Position' = Position + 1
      BY <2>1, <2>3 DEF Own, Position
    <2> QED BY <1>2, <2>1, <2>4
  <1>5. CASE StorePayload
    <2>1. /\ Take("payload") /\ state = "payload" /\ state' = "payload"
          /\ g_data' = Append(g_data, Head(ring)) /\ g_dataSize' = g_dataSize
          /\ pc' = "parse" /\ got' = got /\ open' = open
          /\ Len(g_data) # g_dataSize
      BY <1>5, LineAssumption DEF StorePayload, Take, Typed, TypeOK
    <2>2. /\ Own(open) /\ Head(ring) = <<open, Position + 1>> /\ Head(ring) \in Bytes
      BY <2>1, TakeFlow, WithinFrame
    <2>3. g_data \in Seq(Bytes) /\ Len(g_data) \in Nat
      BY DEF Typed, TypeOK
    <2>4. /\ Len(g_data') = Len(g_data) + 1
          /\ \A k \in 1..Len(g_data) : g_data'[k] = g_data[k]
          /\ g_data'[Len(g_data) + 1] = Head(ring)
      BY <2>1, <2>2, <2>3
    <2>5. Position = Len(g_data) + 3 /\ Position' = Position + 1
      BY <2>1, <2>3, <2>4 DEF Position
    <2>6. Own(open)'
      <3>1. ASSUME NEW k \in 1..(Len(g_data) + 1)
            PROVE  g_data'[k] = <<open, k + 3>>
        <4>1. CASE k \in 1..Len(g_data)
          BY <2>2, <2>4, <4>1 DEF Own
        <4>2. CASE k = Len(g_data) + 1
          <5>1. k + 3 = Position + 1
            BY <2>3, <2>5, <4>2
          <5> QED BY <2>2, <2>4, <4>2, <5>1
        <4> QED BY <4>1, <4>2, <2>3
      <3> QED BY <2>1, <2>2, <2>4, <3>1 DEF Own
    <2> QED BY <1>2, <2>1, <2>5, <2>6
  <1>6. ASSUME Take("payload"), state = "payload", Len(g_data) >= g_dataSize
        PROVE  /\ NextByte = Head(ring) /\ Val(Head(ring)) = ETX
               /\ open \in FrameIds /\ Message = open
               /\ NextByte = <<open, FrameLen(open)>>
    <2>1. Len(g_data) = g_dataSize /\ g_data \in Seq(Bytes)
      BY <1>6, LineAssumption DEF Typed, TypeOK, Stored
    <2>2. /\ open \in FrameIds /\ Own(open)
          /\ NextByte = <<open, FrameLen(open)>>
      BY <1>6, <2>1, WithinFrame DEF Take
    <2>3. NextByte = Head(ring)
      BY <1>6, TakeFlow
    <2>4. FrameLen(open) \in 1..FrameLen(open)
      BY <2>2, FrameLenType
    <2>5. Val(<<open, FrameLen(open)>>) = ETX
      BY <2>2, <2>4, WhichByte
    <2> QED BY <2>1, <2>2, <2>3, <2>5, MessageIs
  <1>7. CASE Complete
    <2>1. /\ Take("payload") /\ state = "payload" /\ Len(g_data) >= g_dataSize
          /\ state' = "idle" /\ got' = Append(got, Message)
      BY <1>7 DEF Complete, Take
    <2>2. /\ open \in FrameIds /\ Message = open
          /\ NextByte = <<open, FrameLen(open)>>
      BY <1>6, <2>1
    <2>3. /\ Unbroken(ring, line)' /\ NextByte' = Following(NextByte) /\ cut' = cut
      BY <2>1, TakeFlow
    <2>4. got \in Seq(FrameIds \cup {0}) /\ Len(got) \in Nat
      BY DEF Typed, TypeOK
    <2>5. /\ Len(got') = Len(got) + 1 /\ got'[Len(got) + 1] = open
          /\ \A k \in 1..Len(got) : got'[k] = got[k]
      BY <2>1, <2>2, <2>4
    <2>6. Passed'
      <3>1. \A f \in FrameIds : Received(f) => Received(f)'
        BY <2>4, <2>5 DEF Received
      <3>2. ASSUME NEW k \in 1..Len(got') PROVE got'[k] # 0
        <4>1. k \in 1..Len(got) \/ k = Len(got) + 1
          BY <2>4, <2>5
        <4> QED BY <4>1, <2>2, <2>5 DEF Passed, FrameIds
      <3>3. \A f \in FrameIds : NextByte = <<f, FrameLen(f)>> => Received(f)'
        <4>1. Len(got) + 1 \in 1..Len(got')
          BY <2>4, <2>5
        <4> QED BY <2>2, <2>5, <4>1 DEF Received
      <3> QED BY <2>1, <2>2, <3>1, <3>2, <3>3, TakePasses
    <2>7. Aligned'
      BY <2>1, <2>2, <2>3 DEF Aligned, Following
    <2> QED BY <2>1, <2>3, <2>6, <2>7 DEF Left
  <1>8. CASE NoEtx
    BY <1>6, <1>8 DEF NoEtx, Take
  <1>10. CASE Overwrite
    <2>1. /\ Take("payload") /\ state = "payload" /\ state' = "payload"
          /\ g_data' = g_data /\ g_dataSize' = g_dataSize
          /\ Len(g_data) # g_dataSize /\ pc = "parse" /\ pc' = "overwritten"
          /\ got' = got
      BY <1>10, LineAssumption DEF Overwrite, Take, Typed, TypeOK
    <2>2. Unbroken(ring, line)'
      BY <2>1, TakeFlow
    <2>3. \A f \in FrameIds : NextByte # <<f, FrameLen(f)>>
      BY <2>1, WithinFrame
    <2>4. Passed'
      <3>1. \A f \in FrameIds : Received(f) => Received(f)'
        BY <2>1 DEF Received
      <3>2. \A k \in 1..Len(got') : got'[k] # 0
        BY <2>1 DEF Passed
      <3> QED BY <2>1, <2>3, <3>1, <3>2, TakePasses
    <2> QED BY <2>1, <2>2, <2>4 DEF Aligned, Left
  <1>9. CASE NoData
    <2>1. /\ ring' = ring /\ line' = line /\ state' = state /\ open' = open
          /\ g_data' = g_data /\ g_dataSize' = g_dataSize /\ got' = got
          /\ cut' = IF state = "idle" THEN cut ELSE cut \cup {open}
          /\ pc = "parse" /\ pc' = "idle"
      BY <1>9 DEF NoData, lineVars
    <2>2. Unbroken(ring, line)' /\ NextByte' = NextByte
      BY <2>1 DEF NextByte
    <2>3. Aligned'
      BY <2>1, <2>2 DEF Aligned, Own, Position
    <2>4. Left' /\ Passed'
      BY <2>1, <2>2 DEF Left, Passed, Received
    <2> QED BY <2>2, <2>3, <2>4
  <1> QED BY <1>1, <1>3, <1>4, <1>5, <1>7, <1>8, <1>9, <1>10 DEF Parse

\* A frame that lost a byte stays damaged.
LEMMA DamageStays ==
  ASSUME Typed, [Next]_vars PROVE damaged \subseteq damaged'
  BY DEF Next, Around, Receive, Overrun, Second, Connection, Poll, Parse, WaitStx,
         WaitSeqNo, WaitExpLen, StorePayload, Overwrite, Complete, NoEtx, NoData,
         Take, IdleReturn, Overwritten, vars, lineVars

\* Every step keeps the flow, or damages a frame for good.
LEMMA NextFlows ==
  ASSUME Typed, Typed', Flows, [Next]_vars PROVE Flows'
  <1> SUFFICES ASSUME damaged' = {} PROVE Flow'
    BY DEF Flows
  <1>1. damaged = {}
    BY DamageStays
  <1> USE DEF Flow
  <1>2. Flow
    BY <1>1 DEF Flows
  <1>3. CASE Receive
    <2>1. line \in Bytes /\ ring \in Seq(Bytes)
      BY <1>3, LineType DEF Receive, Typed, TypeOK
    <2>2. ring' = Append(ring, line) /\ line' = Following(line)
      BY <1>3, <1>1 DEF Receive
    <2>3. Unbroken(ring, line)' /\ NextByte' = NextByte
      BY <1>2, <2>1, <2>2, UnbrokenAppend DEF NextByte
    <2> QED BY <1>2, <1>3, <2>3
            DEF Receive, parserVars, Aligned, Left, Passed, Received, Own, Position
  <1>4. CASE Overrun
    BY <1>4 DEF Overrun
  <1>5. CASE Second \/ Connection \/ UNCHANGED vars
    <2>1. UNCHANGED <<lineVars, state, pc, g_data, g_dataSize, open, got, cut>>
      BY <1>5 DEF Second, Connection, vars, parserVars
    <2>2. Unbroken(ring, line)' /\ NextByte' = NextByte
      BY <1>2, <2>1 DEF NextByte, lineVars
    <2> QED BY <1>2, <2>1, <2>2 DEF Aligned, Left, Passed, Received, Own, Position
  <1>6. CASE Poll
    <2>1. /\ UNCHANGED <<lineVars, g_data, g_dataSize, open, got, cut>>
          /\ pc = "idle" /\ pc' = "parse" /\ state' \in {state, "idle"}
      BY <1>6 DEF Poll, GiveUp
    <2>2. Unbroken(ring, line)' /\ NextByte' = NextByte
      BY <1>2, <2>1 DEF NextByte, lineVars
    <2>3. Left' /\ Passed'
      BY <1>2, <2>1, <2>2 DEF Left, Passed, Received
    <2>4. Aligned'
      <3>1. CASE state' = state
        BY <1>2, <2>1, <2>2, <3>1 DEF Aligned, Own, Position
      <3>2. CASE state' = "idle" /\ state # "idle"
        BY <1>2, <2>1, <2>2, <3>2 DEF Aligned, Left
      <3> QED BY <2>1, <3>1, <3>2
    <2> QED BY <2>2, <2>3, <2>4
  <1>7. CASE Parse
    BY <1>2, <1>7, ParseFlows
  <1> QED BY <1>3, <1>4, <1>5, <1>6, <1>7 DEF Next, Around, IdleReturn, Overwritten

LEMMA FlowsInvariance == Spec => [](Typed /\ Flows)
  <1>1. Init => Typed /\ Flows
    BY InitTyped, InitFlows
  <1>2. Typed /\ Flows /\ [Next]_vars => (Typed /\ Flows)'
    BY NextTyped, NextFlows
  <1> QED BY <1>1, <1>2, PTL DEF Spec

\* While no byte is lost, every message handed over is the payload of a frame
\* that was sent: for frames of every length, every ring, every pattern of
\* calls, and time-outs that wrap.
THEOREM NoneForged == Spec => []NoForgery
  <1>1. Flows => NoForgery
    BY DEF Flows, Flow, Passed, NoForgery
  <1> QED BY <1>1, FlowsInvariance, PTL

\* What excuses a length that does not fit into g_data.
Excuse ==
  \/ \E f \in FrameIds : Payloads[f] > CMD_MAX_FRAME_SIZE
  \/ damaged # {} /\ \E b \in Bytes : Text[b] > CMD_MAX_FRAME_SIZE

Bounded ==
  /\ g_dataSize > CMD_MAX_FRAME_SIZE => Excuse
  /\ pc = "overwritten" => g_dataSize > CMD_MAX_FRAME_SIZE

\* Only WaitExpLen sets a length; without losses, to that of a frame.
LEMMA NextBounded ==
  ASSUME Typed, Flows, Bounded, [Next]_vars PROVE Bounded'
  <1>1. Excuse => Excuse'
    BY DamageStays DEF Excuse
  <1>2. CASE WaitExpLen
    <2>1. /\ Take("expLen") /\ pc = "parse" /\ pc' = "parse" /\ state = "expLen"
          /\ g_dataSize' = Val(Head(ring)) /\ damaged' = damaged
      BY <1>2 DEF WaitExpLen, Take
    <2>2. Head(ring) \in Bytes
      BY <2>1, TakeType DEF Typed
    <2>3. ASSUME Val(Head(ring)) > CMD_MAX_FRAME_SIZE PROVE Excuse
      <3>1. Head(ring)[1] \in FrameIds
        BY <2>2, ByteFields
      <3>2. \/ Val(Head(ring)) = Payloads[Head(ring)[1]]
            \/ Val(Head(ring)) = Text[Head(ring)]
        BY <2>3, LineAssumption DEF Val, STX, SEQ_NO, ETX
      <3>3. CASE damaged # {}
        BY <2>2, <2>3, <3>1, <3>2, <3>3 DEF Excuse
      <3>4. CASE damaged = {}
        <4>1. open \in FrameIds /\ Head(ring) = <<open, 3>>
          BY <2>1, <3>4, TakeFlow, WithinFrame DEF Position, Flows
        <4>2. Val(Head(ring)) = Payloads[open]
          BY <4>1, FrameVals
        <4> QED BY <2>3, <4>1, <4>2 DEF Excuse
      <3> QED BY <3>3, <3>4
    <2> QED BY <1>1, <2>1, <2>3 DEF Bounded
  <1>3. CASE Overwrite
    <2>1. /\ g_dataSize' = g_dataSize /\ g_dataSize \in Nat /\ Len(g_data) \in Nat
          /\ Len(g_data) < g_dataSize /\ Len(g_data) >= CMD_MAX_FRAME_SIZE
      BY <1>3, LineAssumption DEF Overwrite, Typed, TypeOK
    <2>2. g_dataSize > CMD_MAX_FRAME_SIZE
      BY <2>1, LineAssumption
    <2> QED BY <1>1, <2>1, <2>2 DEF Bounded
  <1>4. CASE ~WaitExpLen /\ ~Overwrite
    <2>1. g_dataSize' = g_dataSize /\ (pc' = "overwritten" => pc = "overwritten")
      BY <1>4
         DEF Next, Around, Receive, Overrun, Second, Connection, Poll, Parse, WaitStx,
             WaitSeqNo, StorePayload, Complete, NoEtx, NoData, Take, IdleReturn,
             Overwritten, vars, parserVars
    <2> QED BY <1>1, <2>1 DEF Bounded
  <1> QED BY <1>2, <1>3, <1>4

\* The parser has no check of its own on a length, of up to 255, yet it writes
\* behind g_data in two cases only: the phone sends a payload that does not fit;
\* or a byte was lost, and one of text, above the size of g_data, is taken for a
\* length.  No pattern of calls and time-outs alone brings it about.
THEOREM BoundsKept == Spec => []StaysInBounds
  <1>1. Init => Bounded
    BY LineAssumption DEF Init, Bounded
  <1>2. Typed /\ Flows /\ Bounded /\ [Next]_vars => Bounded'
    BY NextBounded
  <1>3. Bounded => StaysInBounds
    BY DEF Bounded, Excuse, StaysInBounds
  <1> QED BY <1>1, <1>2, <1>3, FlowsInvariance, PTL DEF Spec

\* While no byte is lost, a frame of which nothing is left on the line and in
\* the ring was received, or a call ended in the middle of it.
THEOREM LossesAreCuts == Spec => []LostOnlyIfCut
  <1>1. ASSUME Typed, Flow, NEW f \in FrameIds, Gone(f)
        PROVE  Received(f) \/ f \in cut
    <2> DEFINE b == <<f, FrameLen(f)>>
    <2>1. b \in Bytes /\ f \in Nat
      BY FrameLenType, WhichByte DEF FrameIds, ETX
    <2>2. Less(b, line)
      BY <1>1 DEF Gone, Less
    <2>3. ASSUME NEW k \in 1..Len(ring) PROVE ring[k] # b
      BY <1>1, <2>3 DEF Gone
    <2>4. Less(b, NextByte)
      BY <1>1, <2>1, <2>2, <2>3 DEF Flow, Unbroken, NextByte
    <2>5. f < NextByte[1]
      <3>1. CASE ring = <<>>
        BY <1>1, <3>1 DEF NextByte, NextOf, Gone
      <3>2. CASE ring # <<>>
        <4>1. NextByte \in Bytes
          BY <1>1, <3>2 DEF NextByte, NextOf, Typed, TypeOK
        <4> QED BY <2>4, <4>1, ByteFields DEF Less
      <3> QED BY <3>1, <3>2
    <2> QED BY <1>1, <2>5 DEF Flow, Passed
  <1>2. Typed /\ Flows => LostOnlyIfCut
    BY <1>1 DEF Flows, LostOnlyIfCut
  <1> QED BY <1>2, FlowsInvariance, PTL
=============================================================================
