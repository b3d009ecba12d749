---------------------------- MODULE TaskTimeout ----------------------------
(***************************************************************************)
(* The timeout of the application's parser (BLECommandsParser.cs).         *)
(* Environment.TickCount is an int: it counts ms from the start of the     *)
(* phone, reaches its maximum after 24.9 days and goes on at its minimum.  *)
(***************************************************************************)
EXTENDS Integers

CONSTANTS
  HALF,                  \* 2^31
  CMD_FRAME_RCV_TIMEOUT

ASSUME TickAssumption ==
  /\ HALF \in Nat \ {0}
  /\ CMD_FRAME_RCV_TIMEOUT \in 1..(2 * HALF - 2)

Ticks == (-HALF)..(HALF - 1)

\* The sum of an int and of a number below 2^32, as an int.
Wrap(x) == IF x >= HALF THEN x - 2 * HALF ELSE x

VARIABLES
  now,      \* Environment.TickCount
  timeset,  \* g_rcvDataTimeout.timeset
  timeout,  \* g_rcvDataTimeout.timeout
  elapsed   \* history: ms since SetTimeout; -1: it was never called

clockVars == <<now, timeset, timeout, elapsed>>

ClockTypeOK ==
  /\ now \in Ticks /\ timeset \in Ticks /\ timeout \in Ticks
  /\ elapsed \in (-1)..(2 * HALF - 1)

ClockInit == now \in Ticks /\ timeset = 0 /\ timeout = 0 /\ elapsed = -1

\* A byte is never later than 2^32 ms after the one before it.
Advance ==
  /\ elapsed < 2 * HALF - 1
  /\ now' = Wrap(now + 1)
  /\ elapsed' = IF elapsed = -1 THEN -1 ELSE elapsed + 1
  /\ UNCHANGED <<timeset, timeout>>

SetTimeout ==
  /\ timeset' = now
  /\ timeout' = Wrap(now + CMD_FRAME_RCV_TIMEOUT)
  /\ elapsed' = 0
  /\ UNCHANGED now

ClockNext == Advance \/ SetTimeout

ClockSpec == ClockInit /\ [][ClockNext]_clockVars

IsTimeout_noWrap ==
  timeset = timeout \/ now < timeset \/ now > timeout

IsTimeout ==
  \/ timeset = timeout
  \/ timeset < timeout /\ (now < timeset \/ now > timeout)
  \/ timeset > timeout /\ (now < timeset /\ now > timeout)

\* The comparisons of ints in IsTimeout tell exactly when the time since the
\* last byte exceeds the timeout, also when the tick count, or the time the
\* timeout ends at, has gone from the largest int to the smallest; and before
\* the first byte they say that it has.
TimeoutExact ==
  IsTimeout <=> elapsed = -1 \/ elapsed > CMD_FRAME_RCV_TIMEOUT
=============================================================================
