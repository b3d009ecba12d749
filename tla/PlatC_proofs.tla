---------------------------- MODULE PlatC_proofs ----------------------------
(***************************************************************************)
(* Proofs about PlatC, for every queue size, every timeout, every filter   *)
(* width and every set of commands; the theorems about the event objects   *)
(* and the room in the queue, for those in the proportions of Spacing.     *)
(***************************************************************************)
EXTENDS PlatC, FiniteSetTheorems, TLAPS

USE DebounceAssumption, PlatCAssumption

-----------------------------------------------------------------------------
(* Type correctness.                                                       *)

(* A word shifted by a sample is a word (filter = (filter << 1) | b).      *)
LEMMA ShiftType ==
  ASSUME NEW d \in Line, NEW b \in Bit
  PROVE  Shift(d, b) \in Line
BY DEF Shift, Line, Bit, Longer, TooLong

\* The initial states are typed.
LEMMA InitType == Init => TypeOK
<1> SUFFICES ASSUME Init PROVE TypeOK
  OBVIOUS
<1>1. ev \in [EventObjs -> Contents]
  BY DEF Init, EventObjs, Contents, CfgPayloads, FitnessPayloads
<1>2. line \in [Inputs -> Line]
  BY DEF Init, Line, Cleared, Bit
<1>3. /\ queue \in Seq(EventObjs)
      /\ Len(queue) <= QSTO_SIZE
  BY DEF Init
<1>4. left \in Nat /\ window \in 1 .. ACCEL_WINDOW_TIME
  BY DEF Init
<1> QED
  BY <1>1, <1>2, <1>3, <1>4 DEF Init, TypeOK, States, Steady

(* What the interrupt posts are contents of events.                        *)
LEMMA PostsType ==
  ASSUME TypeOK, NEW d
  PROVE  /\ DOMAIN Posts(d) =
              {"e_pushbutton", "e_ble", "e_battery", "e_tmr"}
         /\ \A o \in DOMAIN Posts(d) : Posts(d)[o] \in Contents \cup {Nothing}
<1>1. ButtonPost(d["button"]) \in Contents \cup {Nothing}
  BY DEF ButtonPost, Contents
<1>2. BlePost(d["ble"]) \in Contents \cup {Nothing}
  BY DEF BlePost, Contents
<1>3. BatteryPost(d["battery"]) \in Contents \cup {Nothing}
  BY DEF BatteryPost, Contents
<1>4. ev["e_tmr"] \in Contents
  BY DEF TypeOK, EventObjs
<1> QED
  BY <1>1, <1>2, <1>3, <1>4 DEF Posts

(* The queue a tick leaves holds event objects.                            *)
LEMMA AfterType ==
  ASSUME TypeOK, NEW p
  PROVE  After(p) \in Seq(EventObjs)
<1>1. \A o \in EventObjs : If(o, p) \in Seq(EventObjs)
  BY DEF If
<1> QED
  BY <1>1 DEF After, TypeOK, EventObjs

(* The functions of the entry and exit actions keep the types of what they *)
(* work on.                                                                *)
Flags == [isConnected : BOOLEAN, isMotionDetect : BOOLEAN,
          isBatteryCharging : BOOLEAN, isAdvertising : BOOLEAN,
          isFitnessRunning : BOOLEAN, isBuzzerEnabled : BOOLEAN]

MeType ==
  [g : Flags, tmr : [ntick : Nat, used : BOOLEAN],
   leds : {"motion", "ble", "battery", "blink", "off"},
   buzzer : BOOLEAN, bleReset : BOOLEAN, tag : Contents]

\* The fields an action hands on.
LEMMA MeInType == ASSUME TypeOK PROVE Me \in MeType
BY DEF TypeOK, Me, MeType, Flags, EventObjs

\* setLedsStatus changes LEDs only to values of their type.
LEMMA LedsType == ASSUME NEW x \in MeType PROVE setLedsStatus(x) \in MeType
BY DEF setLedsStatus, Leds, MeType

\* An entry action leaves a typed active object.
LEMMA EntryType ==
  ASSUME NEW x \in MeType, NEW s \in States
  PROVE  Entry(s, x) \in MeType
<1>1. linkedEntry(x) \in MeType
  <2> DEFINE y == [x EXCEPT !.g.isConnected = TRUE]
  <2>1. y \in MeType
    BY DEF MeType, Flags
  <2> QED
    BY <2>1, LedsType DEF linkedEntry
<1>2. unlinkedEntry(x) \in MeType
  <2> DEFINE y == [x EXCEPT !.g.isConnected = FALSE,
                            !.g.isFitnessRunning = FALSE]
  <2>1. y \in MeType
    BY DEF MeType, Flags
  <2>2. setLedsStatus(y) \in MeType
    BY <2>1, LedsType
  <2> QED
    BY <2>2 DEF unlinkedEntry, MeType
<1>3. hiddenEntry(x) \in MeType
  BY DEF hiddenEntry, MeType, Flags
<1>4. motionEntry(x) \in MeType
  <2> DEFINE y == [x EXCEPT !.tag = "evMotionIndicatorTout",
                            !.tmr = OneShot(MOTION_DET_TIME),
                            !.g.isMotionDetect = TRUE]
  <2>1. y \in MeType
    BY DEF MeType, Flags, OneShot, Contents
  <2>2. setLedsStatus(y) \in MeType
    BY <2>1, LedsType
  <2>3. x.g.isBuzzerEnabled \/ x.buzzer \in BOOLEAN
    BY DEF MeType, Flags
  <2> QED
    BY <2>2, <2>3 DEF motionEntry, MeType
<1> QED
  BY <1>1, <1>2, <1>3, <1>4 DEF Entry, States, Steady

\* So does an exit action.
LEMMA ExitType ==
  ASSUME NEW x \in MeType, NEW s
  PROVE  Exit(s, x) \in MeType
<1>1. unlinkedExit(x) \in MeType
  BY DEF unlinkedExit, Stop, MeType
<1>2. motionExit(x) \in MeType
  <2> DEFINE y == [x EXCEPT !.tmr = Stop(x.tmr), !.g.isMotionDetect = FALSE]
  <2>1. y \in MeType
    BY DEF MeType, Flags, Stop
  <2>2. setLedsStatus(y) \in MeType
    BY <2>1, LedsType
  <2> QED
    BY <2>2 DEF motionExit, MeType
<1> QED
  BY <1>1, <1>2 DEF Exit

\* So does the part of unlinkedEntry after the reset.
LEMMA AdvertisingType ==
  ASSUME NEW x \in MeType PROVE startAdvertising(x) \in MeType
BY DEF startAdvertising, MeType, Flags, OneShot, Contents

(* Assigning such a record to the variables keeps their types.             *)
BecomesOK ==
  /\ g' \in Flags
  /\ tmr' \in [ntick : Nat, used : BOOLEAN]
  /\ leds' \in {"motion", "ble", "battery", "blink", "off"}
  /\ buzzer' \in BOOLEAN
  /\ bleReset' \in BOOLEAN
  /\ ev' \in [EventObjs -> Contents]

\* What a handler leaves behind is what the node becomes.
LEMMA BecomesType ==
  ASSUME TypeOK, NEW x \in MeType, Becomes(x)
  PROVE  BecomesOK
BY DEF Becomes, BecomesOK, MeType, TypeOK, EventObjs

-----------------------------------------------------------------------------
(* One lemma per kind of step.                                             *)

\* The tick's handler, as long as its posts fit into the queue.
LEMMA HandleType ==
  ASSUME TypeOK, MayTick, NEW d \in [Inputs -> Line],
         Handle(d, Posts(d)), Len(After(Posts(d))) <= QSTO_SIZE
  PROVE  TypeOK'
<1> DEFINE p == Posts(d)
<1> USE DEF Handle
<1>1. line' \in [Inputs -> Line]
  OBVIOUS
<1>2. sm' \in [button  : {"stReleased", "stPress", "stLongPress"},
               ble     : {"stDisconnected", "stConnected"},
               battery : {"stNotCharging", "stCharging"}]
  <2>1. ButtonNext(d["button"]) \in {"stReleased", "stPress", "stLongPress"}
    BY DEF ButtonNext, TypeOK
  <2>2. BleNext(d["ble"]) \in {"stDisconnected", "stConnected"}
    BY DEF BleNext, TypeOK
  <2>3. BatteryNext(d["battery"]) \in {"stNotCharging", "stCharging"}
    BY DEF BatteryNext, TypeOK
  <2> QED
    BY <2>1, <2>2, <2>3
<1>3. tout' \in Nat
  BY DEF ToutNext, TypeOK
<1>4. window' \in 1 .. ACCEL_WINDOW_TIME
  <2>1. window' = IF ~Sampling \/ SamplerSends THEN ACCEL_WINDOW_TIME
                                               ELSE window - 1
    OBVIOUS
  <2>2. window \in 1 .. ACCEL_WINDOW_TIME /\ ACCEL_WINDOW_TIME \in Nat \ {0}
    BY DEF TypeOK
  <2> HIDE DEF Handle
  <2>3. CASE ~Sampling \/ SamplerSends
    BY <2>1, <2>2, <2>3
  <2>4. CASE Sampling /\ ~SamplerSends
    BY <2>1, <2>2, <2>4 DEF SamplerSends
  <2> QED
    BY <2>3, <2>4
<1>5. queue' \in Seq(EventObjs) /\ Len(queue') <= QSTO_SIZE
  BY AfterType
<1>6. ev' \in [EventObjs -> Contents]
  <2>1. \A o \in EventObjs : o \in DOMAIN p /\ p[o] # Nothing => p[o] \in Contents
    BY PostsType
  <2> QED
    BY <2>1 DEF TypeOK
<1>7. tmr' \in [ntick : Nat, used : BOOLEAN]
  <2>1. tmr' = TimerNext /\ tmr \in [ntick : Nat, used : BOOLEAN]
    BY DEF TypeOK
  <2> HIDE DEF Handle
  <2>2. /\ tmr.ntick \in Nat
        /\ tmr.used \in BOOLEAN
        /\ tmr = [ntick |-> tmr.ntick, used |-> tmr.used]
    BY <2>1
  <2>3. CASE ~tmr.used
    BY <2>1, <2>3 DEF TimerNext
  <2>4. CASE tmr.used /\ tmr.ntick = 0
    BY <2>1, <2>4 DEF TimerNext
  <2>5. CASE tmr.used /\ tmr.ntick # 0
    <3>1. tmr.ntick - 1 \in Nat
      BY <2>2, <2>5
    <3>2. (tmr.ntick # 1) \in BOOLEAN
      OBVIOUS
    <3>3. tmr' = [ntick |-> tmr.ntick - 1, used |-> tmr.ntick # 1]
      BY <2>1, <2>5 DEF TimerNext
    <3> QED
      BY <3>1, <3>2, <3>3
  <2> QED
    BY <2>3, <2>4, <2>5
<1>8. leds' \in {"motion", "ble", "battery", "blink", "off"}
  BY DEF LedsNext, TypeOK
<1>9. left' \in Nat /\ lost' \subseteq {"e_ble", "e_battery"}
  <2>1. /\ left' = IF pc = "sched" THEN 0 ELSE left - 1
        /\ lost' = {o \in lost : p[o] = Nothing}
        /\ left \in Nat
        /\ lost \subseteq {"e_ble", "e_battery"}
    BY DEF TypeOK
  <2> HIDE DEF Handle, p
  <2>2. left' \in Nat
    <3>1. pc # "sched" => left > 0
      BY DEF MayTick
    <3> QED
      BY <2>1, <3>1
  <2>3. lost' \subseteq lost
    BY <2>1
  <2> QED
    BY <2>1, <2>2, <2>3
<1>10. stay' \in Nat
  BY DEF TypeOK, Longer
<1>11. /\ UNCHANGED <<st, hist, g, pc, halted, buzzer, bleReset>>
       /\ poll' = TRUE
  OBVIOUS
<1> HIDE DEF Handle
<1>12. /\ st' \in States /\ hist' \in Steady
       /\ g' \in [isConnected : BOOLEAN, isMotionDetect : BOOLEAN,
                 isBatteryCharging : BOOLEAN, isAdvertising : BOOLEAN,
                 isFitnessRunning : BOOLEAN, isBuzzerEnabled : BOOLEAN]
       /\ pc' \in {"sched", "idle", "reset", "reply", "report"}
       /\ halted' \in BOOLEAN /\ poll' \in BOOLEAN
       /\ buzzer' \in BOOLEAN /\ bleReset' \in BOOLEAN
  BY <1>11 DEF TypeOK
<1> QED
  BY ONLY <1>1, <1>2, <1>3, <1>4, <1>5, <1>6, <1>7, <1>8, <1>9, <1>10, <1>12,
          Zenon DEF TypeOK

\* The fatal assertion changes nothing but the halt.
LEMMA HaltType == ASSUME TypeOK, Halt PROVE TypeOK'
BY DEF TypeOK, Halt, isrVars, outVars, histVars

\* A tick, handled or fatal.
LEMMA TickType == ASSUME TypeOK, Tick PROVE TypeOK'
<1>1. PICK s \in [Inputs -> Bit] :
        LET d == [i \in Inputs |-> Shift(line[i], s[i])]
            p == Posts(d)
        IN IF Len(After(p)) > QSTO_SIZE THEN Halt ELSE Handle(d, p)
  BY DEF Tick
<1> DEFINE d == [i \in Inputs |-> Shift(line[i], s[i])]
<1>2. d \in [Inputs -> Line]
  BY ShiftType DEF TypeOK
<1>3. Len(After(Posts(d))) \in Nat
  BY AfterType
<1>4. CASE Len(After(Posts(d))) > QSTO_SIZE
  BY <1>1, <1>4, HaltType
<1>5. CASE Len(After(Posts(d))) <= QSTO_SIZE
  <2>1. Handle(d, Posts(d))
    BY <1>1, <1>3, <1>5
  <2> HIDE DEF d
  <2> QED
    BY <1>2, <1>5, <2>1, HandleType DEF Tick
<1> QED
  BY <1>3, <1>4, <1>5

(* Getting an event leaves a queue of events, and the event has contents.  *)
LEMMA DispatchType ==
  ASSUME TypeOK, Dispatching
  PROVE  /\ queue' \in Seq(EventObjs)
         /\ Len(queue') <= QSTO_SIZE
         /\ Head(queue) \in EventObjs
         /\ Event \in Contents
<1>1. queue \in Seq(EventObjs) /\ queue # <<>>
  BY DEF TypeOK, Dispatching
<1>2. /\ Tail(queue) \in Seq(EventObjs)
      /\ Len(Tail(queue)) <= QSTO_SIZE
      /\ Head(queue) \in EventObjs
  BY <1>1 DEF TypeOK
<1> QED
  BY <1>2 DEF Event, TypeOK, Dispatching

\* Every row leads to a state, those through history too.
LEMMA TargetType ==
  ASSUME TypeOK, NEW row \in Transitions PROVE Target(row) \in States
BY DEF TypeOK, Transitions, Target, History, States, Steady

\* The steps of the thread, one by one.
LEMMA ThreadType == ASSUME TypeOK, Thread PROVE TypeOK'
<1> USE DEF isrVars, outVars, histVars
<1>1. CASE Discard
  <2>1. lost' \subseteq {"e_ble", "e_battery"}
    BY <1>1 DEF Discard, TypeOK
  <2> QED
    BY <1>1, <2>1, DispatchType DEF Discard, TypeOK
<1>2. CASE Transition
  <2>1. PICK row \in Transitions :
          st' = Target(row) /\ Becomes(Entry(Target(row), Exit(st, Me)))
    BY <1>2 DEF Transition
  <2>2. st' \in States
    BY <2>1, TargetType
  <2>3. Entry(Target(row), Exit(st, Me)) \in MeType
    BY TargetType, MeInType, ExitType, EntryType
  <2>4. BecomesOK
    BY <2>1, <2>3, BecomesType
  <2>5. hist' \in Steady /\ left' \in Nat /\ stay' \in Nat
    BY <1>2 DEF Transition, TypeOK
  <2> QED
    BY <1>2, <2>2, <2>4, <2>5, DispatchType
    DEF Transition, TypeOK, BecomesOK, Flags
<1>3. CASE ResetDone
  <2>1. BecomesOK
    BY <1>3, MeInType, AdvertisingType, BecomesType DEF ResetDone
  <2> QED
    BY <1>3, <2>1 DEF ResetDone, TypeOK, BecomesOK, Flags
<1>4. CASE ReportByButton
  BY <1>4, DispatchType DEF ReportByButton, TypeOK, Steady
<1>5. CASE ReportSent
  <2>1. BecomesOK
    BY <1>5, MeInType, EntryType, BecomesType DEF ReportSent, States
  <2> QED
    BY <1>5, <2>1 DEF ReportSent, TypeOK, BecomesOK, Flags, States
<1>6. CASE BatteryStatus
  <2> DEFINE x == [Me EXCEPT !.g.isBatteryCharging =
                     Event = "evBatteryChargerConnected"]
  <2>1. x \in MeType
    BY MeInType DEF MeType, Flags
  <2>2. BecomesOK
    BY <1>6, <2>1, LedsType, BecomesType DEF BatteryStatus
  <2> QED
    BY <1>6, <2>2, DispatchType DEF BatteryStatus, TypeOK, BecomesOK, Flags
<1>7. CASE Reply
  <2>1. g' \in Flags
    BY <1>7 DEF Reply, TypeOK, Flags
  <2>2. pc' = "reply" /\ left' \in Nat
    BY <1>7 DEF Reply
  <2>3. /\ queue' \in Seq(EventObjs) /\ Len(queue') <= QSTO_SIZE
        /\ UNCHANGED <<st, hist, ev, tmr, poll, halted, isrVars, outVars, histVars>>
    BY <1>7, DispatchType DEF Reply
  <2> QED
    BY <2>1, <2>2, <2>3 DEF TypeOK, Flags, isrVars, outVars, histVars
<1>8. CASE ReplySent
  BY <1>8 DEF ReplySent, TypeOK
<1>9. CASE IdlePoll
  <2>1. UNCHANGED <<st, hist, g, queue, ev, tmr, halted,
                    line, sm, tout, window, leds, buzzer, bleReset, stay, lost>>
    BY <1>9 DEF IdlePoll
  <2>2. poll' \in BOOLEAN /\ pc' = "idle" /\ left' \in Nat
    BY <1>9 DEF IdlePoll
  <2> QED
    BY <2>1, <2>2 DEF TypeOK
<1>10. CASE IdleReturn
  BY <1>10 DEF IdleReturn, TypeOK
<1>11. CASE IdleCommand
  <2>1. PICK c \in Commands :
          IF Len(queue) < QSTO_SIZE THEN Post(c[1], c[2]) ELSE Halt
    BY <1>11 DEF IdleCommand
  <2>2. c[1] \in EventObjs /\ c[2] \in Contents
    BY DEF Command, EventObjs, Contents, CfgPayloads, FitnessPayloads
  <2>3. CASE Post(c[1], c[2]) /\ Len(queue) < QSTO_SIZE
    <3>1. queue' \in Seq(EventObjs) /\ Len(queue') <= QSTO_SIZE
      BY <2>2, <2>3 DEF Post, TypeOK
    <3>2. ev' \in [EventObjs -> Contents]
      BY <2>2, <2>3 DEF Post, TypeOK
    <3> QED
      BY <2>3, <3>1, <3>2 DEF Post, TypeOK
  <2> QED
    BY <2>1, <2>3, HaltType
<1> QED
  BY <1>1, <1>2, <1>3, <1>4, <1>5, <1>6, <1>7, <1>8, <1>9, <1>10, <1>11
  DEF Thread

(* Every variable keeps its type and the queue its bound, whatever the     *)
(* order of ticks, commands and steps of the thread.                       *)
THEOREM TypeCorrect == Spec => []TypeOK
<1>1. Init => TypeOK
  BY InitType
<1>2. TypeOK /\ [Next]_vars => TypeOK'
  <2> SUFFICES ASSUME TypeOK, [Next]_vars PROVE TypeOK'
    OBVIOUS
  <2>1. CASE UNCHANGED vars
    BY <2>1 DEF vars, isrVars, outVars, histVars, TypeOK
  <2> QED
    BY <2>1, TickType, ThreadType DEF Next
<1> QED
  BY <1>1, <1>2, PTL DEF Spec

-----------------------------------------------------------------------------
(* Agreement of the flags, the buzzer and the BLE module with the state.   *)
(* The two invariants are inductive together with TypeOK: what linked and  *)
(* hidden promise of the module rests on where resets begin and end, which *)
(* ModeAgreement ties to unlinked.                                         *)

Agreement == ModeAgreement /\ RadioAgreement

(* What the actions of each transition leave in the flags and outputs that *)
(* the invariants are about.                                               *)
LEMMA ToHidden ==
  ASSUME TypeOK, Becomes(hiddenEntry(unlinkedExit(Me)))
  PROVE  /\ g' = [g EXCEPT !.isAdvertising = FALSE]
         /\ bleReset' = TRUE /\ buzzer' = buzzer
BY DEF Becomes, hiddenEntry, unlinkedExit, Me

\* What the transition from unlinked to linked does to the flags.
LEMMA ToLinked ==
  ASSUME TypeOK, Becomes(linkedEntry(unlinkedExit(Me)))
  PROVE  /\ g' = [g EXCEPT !.isConnected = TRUE]
         /\ bleReset' = bleReset /\ buzzer' = buzzer
BY DEF Becomes, linkedEntry, setLedsStatus, unlinkedExit, Me

\* The transition from motionDetect back to linked.
LEMMA BackToLinked ==
  ASSUME TypeOK, Becomes(linkedEntry(motionExit(Me)))
  PROVE  /\ g' = [g EXCEPT !.isMotionDetect = FALSE, !.isConnected = TRUE]
         /\ bleReset' = bleReset /\ buzzer' = FALSE
BY DEF Becomes, linkedEntry, setLedsStatus, motionExit, Me

\* Any transition to unlinked, up to the reset's delay.
LEMMA ToUnlinked ==
  ASSUME TypeOK, Becomes(unlinkedEntry(Me))
  PROVE  /\ g' = [g EXCEPT !.isConnected = FALSE, !.isFitnessRunning = FALSE]
         /\ bleReset' = TRUE /\ buzzer' = buzzer
BY DEF Becomes, unlinkedEntry, setLedsStatus, Me

\* The transition to motionDetect.
LEMMA ToMotion ==
  ASSUME TypeOK, Becomes(motionEntry(Me))
  PROVE  /\ g' = [g EXCEPT !.isMotionDetect = TRUE]
         /\ bleReset' = bleReset
BY DEF Becomes, motionEntry, setLedsStatus, Me

\* Each transition leaves flags and radio in agreement with its target.
LEMMA TransitionAgrees ==
  ASSUME TypeOK, Agreement, Transition PROVE Agreement'
<1> DEFINE via(s, t) == st = s /\ st' = t /\ Becomes(Entry(t, Exit(s, Me)))
<1>1. \/ via("unlinked", "hidden")
      \/ via("unlinked", "linked")
      \/ via("hidden", "unlinked")
      \/ via("linked", "unlinked")
      \/ via("motionDetect", "linked")
  BY DEF Transition, Transitions, Target, History, Agreement, ModeAgreement
<1>2. /\ pc = "sched"
      /\ pc' = IF st' = "unlinked" THEN "reset" ELSE "sched"
      /\ hist' = IF st \in Steady THEN st ELSE hist
      /\ g \in Flags /\ buzzer \in BOOLEAN /\ bleReset \in BOOLEAN
  BY DEF Transition, Dispatching, TypeOK, Flags
<1> HIDE DEF via
<1>3. CASE via("unlinked", "hidden")
  <2>1. Becomes(hiddenEntry(unlinkedExit(Me)))
    BY <1>3 DEF via, Entry, Exit
  <2> QED
    BY <1>2, <1>3, <2>1, ToHidden
    DEF via, Agreement, ModeAgreement, RadioAgreement, Flags
<1>4. CASE via("unlinked", "linked")
  <2>1. Becomes(linkedEntry(unlinkedExit(Me)))
    BY <1>4 DEF via, Entry, Exit
  <2> QED
    BY <1>2, <1>4, <2>1, ToLinked
    DEF via, Agreement, ModeAgreement, RadioAgreement, Flags
<1>5. CASE via("hidden", "unlinked") \/ via("linked", "unlinked")
  <2>1. Becomes(unlinkedEntry(Me))
    BY <1>5 DEF via, Entry, Exit
  <2>2. /\ g' = [g EXCEPT !.isConnected = FALSE, !.isFitnessRunning = FALSE]
        /\ bleReset' = TRUE /\ buzzer' = buzzer
    BY <2>1, ToUnlinked
  <2>3. st \in {"hidden", "linked"} /\ st' = "unlinked" /\ pc' = "reset"
    BY <1>2, <1>5 DEF via
  <2>4. ~g.isMotionDetect /\ ~buzzer
    BY <2>3 DEF Agreement, ModeAgreement
  <2>5. ModeAgreement'
    BY <1>2, <2>2, <2>3, <2>4 DEF ModeAgreement, Flags
  <2>6. RadioAgreement'
    BY <2>2, <2>3 DEF RadioAgreement
  <2> QED
    BY <2>5, <2>6 DEF Agreement
<1>6. CASE via("motionDetect", "linked")
  <2>1. Becomes(linkedEntry(motionExit(Me)))
    BY <1>6 DEF via, Entry, Exit
  <2> QED
    BY <1>2, <1>6, <2>1, BackToLinked
    DEF via, Agreement, ModeAgreement, RadioAgreement, Flags
<1> QED
  BY <1>1, <1>3, <1>4, <1>5, <1>6

(* The other steps of the thread. *)
LEMMA ThreadAgrees ==
  ASSUME TypeOK, Agreement, Thread PROVE Agreement'
<1> USE DEF outVars
<1>1. CASE Discard \/ ReplySent \/ IdlePoll \/ IdleReturn \/ IdleCommand
  <2>1. UNCHANGED <<st, hist, g, buzzer, bleReset>>
    BY <1>1 DEF Discard, ReplySent, IdlePoll, IdleReturn, IdleCommand, Post, Halt
  <2>2. /\ pc # "reset" /\ pc' # "report"
        /\ pc' # "reset"
    BY <1>1 DEF Discard, Dispatching, ReplySent, IdlePoll, IdleReturn,
                IdleCommand, Post, Halt
  <2> QED
    BY <2>1, <2>2 DEF Agreement, ModeAgreement, RadioAgreement
<1>2. CASE Transition
  BY <1>2, TransitionAgrees
<1>3. CASE ResetDone
  <2>1. /\ g' = [g EXCEPT !.isAdvertising = TRUE]
        /\ bleReset' = FALSE /\ buzzer' = buzzer
    BY <1>3 DEF ResetDone, Becomes, startAdvertising, Me
  <2>2. pc = "reset" /\ pc' = "sched" /\ st' = st /\ hist' = hist
    BY <1>3 DEF ResetDone
  <2>3. g \in Flags
    BY DEF TypeOK, Flags
  <2> QED
    BY <2>1, <2>2, <2>3 DEF Agreement, ModeAgreement, RadioAgreement, Flags
<1>4. CASE ReportByButton
  BY <1>4 DEF ReportByButton, Dispatching, Agreement, ModeAgreement,
              RadioAgreement
<1>5. CASE ReportSent
  <2>1. Becomes(motionEntry(Me))
    BY <1>5 DEF ReportSent, Entry
  <2>2. /\ pc = "report" /\ pc' = "sched" /\ hist' = hist
        /\ st' = "motionDetect" /\ g \in Flags
    BY <1>5 DEF ReportSent, TypeOK, Flags
  <2> QED
    BY <2>1, <2>2, ToMotion
    DEF Agreement, ModeAgreement, RadioAgreement, Flags
<1>6. CASE BatteryStatus
  <2>1. /\ g' = [g EXCEPT !.isBatteryCharging =
                   Event = "evBatteryChargerConnected"]
        /\ bleReset' = bleReset /\ buzzer' = buzzer
    BY <1>6 DEF BatteryStatus, Becomes, setLedsStatus, Me
  <2>2. g \in Flags /\ UNCHANGED <<st, hist, pc>>
    BY <1>6 DEF BatteryStatus, TypeOK, Flags
  <2> QED
    BY <2>1, <2>2 DEF Agreement, ModeAgreement, RadioAgreement, Flags
<1>7. CASE Reply
  <2>1. UNCHANGED <<st, hist, buzzer, bleReset>> /\ pc = "sched" /\ pc' = "reply"
    BY <1>7 DEF Reply, Dispatching
  <2>2. Event \in {"run", "stop"} => st = "linked"
    BY <1>7 DEF Reply, Internal, CfgPayloads, FitnessPayloads, BatterySignals
  <2>3. /\ g'.isConnected = g.isConnected
        /\ g'.isAdvertising = g.isAdvertising
        /\ g'.isMotionDetect = g.isMotionDetect
        /\ st # "linked" => g'.isFitnessRunning = g.isFitnessRunning
    BY <1>7, <2>2 DEF Reply, TypeOK
  <2> QED
    BY <2>1, <2>3 DEF Agreement, ModeAgreement, RadioAgreement
<1> QED
  BY <1>1, <1>2, <1>3, <1>4, <1>5, <1>6, <1>7 DEF Thread

\* The tick touches neither state, flags nor radio.
LEMMA TickAgrees == ASSUME TypeOK, Agreement, Tick PROVE Agreement'
<1>1. UNCHANGED <<st, hist, g, pc, buzzer, bleReset>>
  BY DEF Tick, Handle, Halt, outVars
<1> QED
  BY <1>1 DEF Agreement, ModeAgreement, RadioAgreement

\* The agreement is inductive given the types.
LEMMA AgreementInvariant == Spec => []Agreement
<1>1. Init => Agreement
  BY DEF Init, Agreement, ModeAgreement, RadioAgreement
<1>2. TypeOK /\ Agreement /\ [Next]_vars => Agreement'
  <2> SUFFICES ASSUME TypeOK, Agreement, [Next]_vars PROVE Agreement'
    OBVIOUS
  <2>1. CASE UNCHANGED vars
    BY <2>1 DEF vars, outVars, Agreement, ModeAgreement, RadioAgreement
  <2> QED
    BY <2>1, TickAgrees, ThreadAgrees DEF Next
<1> QED
  BY <1>1, <1>2, TypeCorrect, PTL DEF Spec

(* In every reachable state the flags the interrupt acts on, the buzzer    *)
(* and the history agree with the state of the machine.                    *)
THEOREM ModesAgree == Spec => []ModeAgreement
<1>1. Agreement => ModeAgreement
  BY DEF Agreement
<1> QED
  BY <1>1, AgreementInvariant, PTL

(* In every reachable state the BLE module is off exactly while the node   *)
(* hides or resets it, and isAdvertising says so.                          *)
THEOREM RadioAgrees == Spec => []RadioAgreement
<1>1. Agreement => RadioAgreement
  BY DEF Agreement
<1> QED
  BY <1>1, AgreementInvariant, PTL

-----------------------------------------------------------------------------
(* The queue as the invariants below read it: whether a pointer to one of  *)
(* some objects is in it, and that none to one of B comes behind one of A. *)
Has(q, A) == \E i \in 1 .. Len(q) : q[i] \in A

NoneBehind(q, A, B) ==
  \A i, j \in 1 .. Len(q) : i < j /\ q[i] \in A => q[j] \notin B

\* What a post adds.
LEMMA PostAdds ==
  ASSUME NEW q \in Seq(EventObjs), NEW o \in EventObjs, NEW A, NEW B
  PROVE  /\ Has(Append(q, o), A) <=> Has(q, A) \/ o \in A
         /\ NoneBehind(q, A, B) /\ ~(o \in B /\ Has(q, A))
              => NoneBehind(Append(q, o), A, B)
<1> DEFINE r == Append(q, o)
<1>1. /\ Len(r) = Len(q) + 1 /\ Len(q) \in Nat
      /\ \A i \in 1 .. Len(q) : r[i] = q[i]
      /\ r[Len(q) + 1] = o
  OBVIOUS
<1> HIDE DEF r
<1>2. Has(r, A) <=> Has(q, A) \/ o \in A
  <2>1. \A i \in 1 .. Len(r) : i \in 1 .. Len(q) \/ i = Len(q) + 1
    BY <1>1
  <2>2. 1 .. Len(q) \subseteq 1 .. Len(r) /\ Len(q) + 1 \in 1 .. Len(r)
    BY <1>1
  <2>3. Has(r, A) => Has(q, A) \/ o \in A
    BY <1>1, <2>1 DEF Has
  <2>4. Has(q, A) \/ o \in A => Has(r, A)
    BY <1>1, <2>2 DEF Has
  <2> QED
    BY <2>3, <2>4
<1>3. ASSUME NoneBehind(q, A, B), ~(o \in B /\ Has(q, A)),
             NEW i \in 1 .. Len(r), NEW j \in 1 .. Len(r), i < j, r[i] \in A
      PROVE  r[j] \notin B
  <2>1. i \in 1 .. Len(q) /\ r[i] = q[i]
    BY <1>1, <1>3
  <2>2. CASE j \in 1 .. Len(q)
    BY <1>1, <1>3, <2>1, <2>2 DEF NoneBehind
  <2>3. CASE j = Len(q) + 1
    BY <1>1, <1>3, <2>1, <2>3 DEF Has
  <2> QED
    BY <1>1, <2>2, <2>3
<1>4. NoneBehind(q, A, B) /\ ~(o \in B /\ Has(q, A)) => NoneBehind(r, A, B)
  BY <1>3 DEF NoneBehind
<1> QED
  BY <1>2, <1>4 DEF r

\* What a get leaves.
LEMMA GetLeaves ==
  ASSUME NEW q \in Seq(EventObjs), q # <<>>, NEW A, NEW B
  PROVE  /\ Has(q, A) <=> Head(q) \in A \/ Has(Tail(q), A)
         /\ NoneBehind(q, A, B) =>
              /\ NoneBehind(Tail(q), A, B)
              /\ Head(q) \in A => ~Has(Tail(q), B)
<1> DEFINE r == Tail(q)
<1>1. /\ Len(r) = Len(q) - 1 /\ Len(q) \in Nat \ {0} /\ Len(r) \in Nat
      /\ \A i \in 1 .. Len(r) : r[i] = q[i + 1]
      /\ Head(q) = q[1]
  OBVIOUS
<1> HIDE DEF r
<1>2. Has(q, A) <=> q[1] \in A \/ Has(r, A)
  <2>1. ASSUME NEW i \in 1 .. Len(q), q[i] \in A PROVE q[1] \in A \/ Has(r, A)
    <3>1. i = 1 \/ i - 1 \in 1 .. Len(r)
      BY <1>1
    <3>2. CASE i - 1 \in 1 .. Len(r)
      <4>1. r[i - 1] = q[i]
        BY <1>1, <3>2
      <4> QED
        BY <2>1, <3>2, <4>1 DEF Has
    <3> QED
      BY <2>1, <3>1, <3>2
  <2>2. ASSUME NEW i \in 1 .. Len(r), r[i] \in A PROVE Has(q, A)
    <3>1. i + 1 \in 1 .. Len(q) /\ q[i + 1] \in A
      BY <1>1, <2>2
    <3> QED
      BY <3>1 DEF Has
  <2>3. q[1] \in A => Has(q, A)
    BY <1>1 DEF Has
  <2> QED
    BY <2>1, <2>2, <2>3 DEF Has
<1>3. ASSUME NoneBehind(q, A, B)
      PROVE  NoneBehind(r, A, B) /\ (q[1] \in A => ~Has(r, B))
  <2>1. ASSUME NEW i \in 1 .. Len(r), NEW j \in 1 .. Len(r), i < j, r[i] \in A
        PROVE  r[j] \notin B
    <3>1. /\ i + 1 \in 1 .. Len(q) /\ j + 1 \in 1 .. Len(q) /\ i + 1 < j + 1
          /\ q[i + 1] \in A /\ q[j + 1] = r[j]
      BY <1>1, <2>1
    <3> QED
      BY <1>3, <3>1 DEF NoneBehind
  <2>2. ASSUME q[1] \in A, NEW j \in 1 .. Len(r) PROVE r[j] \notin B
    <3>1. /\ 1 \in 1 .. Len(q) /\ j + 1 \in 1 .. Len(q) /\ 1 < j + 1
          /\ q[j + 1] = r[j]
      BY <1>1, <2>2
    <3> QED
      BY <1>3, <2>2, <3>1 DEF NoneBehind
  <2> QED
    BY <2>1, <2>2 DEF NoneBehind, Has
<1> QED
  BY <1>1, <1>2, <1>3 DEF r

\* An empty queue.
LEMMA NothingIn == \A A, B : ~Has(<<>>, A) /\ NoneBehind(<<>>, A, B)
BY DEF Has, NoneBehind

\* The queue with one more, if there is something to post.
LEMMA IfAdds ==
  ASSUME NEW q \in Seq(EventObjs), NEW o \in EventObjs, NEW p, NEW A, NEW B
  PROVE  /\ q \o If(o, p) \in Seq(EventObjs)
         /\ Has(q \o If(o, p), A) <=> Has(q, A) \/ (p[o] # Nothing /\ o \in A)
         /\ NoneBehind(q, A, B) /\ ~(p[o] # Nothing /\ o \in B /\ Has(q, A))
              => NoneBehind(q \o If(o, p), A, B)
<1>1. CASE p[o] = Nothing
  <2>1. q \o If(o, p) = q
    BY <1>1 DEF If
  <2> QED
    BY <1>1, <2>1
<1>2. CASE p[o] # Nothing
  <2>1. q \o If(o, p) = Append(q, o) /\ Append(q, o) \in Seq(EventObjs)
    BY <1>2 DEF If
  <2> QED
    BY <1>2, <2>1, PostAdds
<1> QED
  BY <1>1, <1>2

\* What a tick adds, in the order of its posts.
LEMMA TickAdds ==
  ASSUME TypeOK, NEW p, NEW A, NEW B
  PROVE  /\ Has(After(p), A) <=>
              \/ Has(queue, A)
              \/ \E o \in {"e_pushbutton", "e_ble", "e_battery", "e_tmr"} \cap A :
                   p[o] # Nothing
         /\ NoneBehind(queue, A, B)
            /\ ~(p["e_pushbutton"] # Nothing /\ "e_pushbutton" \in B /\ Has(queue, A))
            /\ ~(p["e_ble"] # Nothing /\ "e_ble" \in B
                 /\ (Has(queue, A) \/ (p["e_pushbutton"] # Nothing /\ "e_pushbutton" \in A)))
            /\ ~(p["e_battery"] # Nothing /\ "e_battery" \in B
                 /\ (Has(queue, A) \/ "e_pushbutton" \in A \/ "e_ble" \in A))
            /\ ~(p["e_tmr"] # Nothing /\ "e_tmr" \in B
                 /\ (Has(queue, A) \/ "e_pushbutton" \in A \/ "e_ble" \in A
                     \/ "e_battery" \in A))
            => NoneBehind(After(p), A, B)
<1> DEFINE q1 == queue \o If("e_pushbutton", p)
           q2 == q1 \o If("e_ble", p)
           q3 == q2 \o If("e_battery", p)
           q4 == q3 \o If("e_tmr", p)
<1>0. queue \in Seq(EventObjs)
  BY DEF TypeOK
<1>1. /\ q1 \in Seq(EventObjs)
      /\ Has(q1, A) <=>
           Has(queue, A) \/ (p["e_pushbutton"] # Nothing /\ "e_pushbutton" \in A)
      /\ NoneBehind(queue, A, B)
         /\ ~(p["e_pushbutton"] # Nothing /\ "e_pushbutton" \in B /\ Has(queue, A))
           => NoneBehind(q1, A, B)
  BY <1>0, IfAdds DEF EventObjs
<1> HIDE DEF q1
<1>2. /\ q2 \in Seq(EventObjs)
      /\ Has(q2, A) <=> Has(q1, A) \/ (p["e_ble"] # Nothing /\ "e_ble" \in A)
      /\ NoneBehind(q1, A, B)
         /\ ~(p["e_ble"] # Nothing /\ "e_ble" \in B /\ Has(q1, A))
           => NoneBehind(q2, A, B)
  BY <1>1, IfAdds DEF EventObjs
<1> HIDE DEF q2
<1>3. /\ q3 \in Seq(EventObjs)
      /\ Has(q3, A) <=> Has(q2, A) \/ (p["e_battery"] # Nothing /\ "e_battery" \in A)
      /\ NoneBehind(q2, A, B)
         /\ ~(p["e_battery"] # Nothing /\ "e_battery" \in B /\ Has(q2, A))
           => NoneBehind(q3, A, B)
  BY <1>2, IfAdds DEF EventObjs
<1> HIDE DEF q3
<1>4. /\ Has(q4, A) <=> Has(q3, A) \/ (p["e_tmr"] # Nothing /\ "e_tmr" \in A)
      /\ NoneBehind(q3, A, B)
         /\ ~(p["e_tmr"] # Nothing /\ "e_tmr" \in B /\ Has(q3, A))
           => NoneBehind(q4, A, B)
  BY <1>3, IfAdds DEF EventObjs
<1>5. After(p) = q4
  BY DEF After, q1, q2, q3
<1> HIDE DEF q4
<1>6. Has(q4, A) <=>
        \/ Has(queue, A)
        \/ \E o \in {"e_pushbutton", "e_ble", "e_battery", "e_tmr"} \cap A :
             p[o] # Nothing
  BY <1>1, <1>2, <1>3, <1>4, Zenon
<1>7. /\ Has(q2, A) => Has(queue, A) \/ "e_pushbutton" \in A \/ "e_ble" \in A
      /\ Has(q3, A) => \/ Has(queue, A) \/ "e_pushbutton" \in A
                       \/ "e_ble" \in A \/ "e_battery" \in A
  BY <1>1, <1>2, <1>3
<1>8. ASSUME NoneBehind(queue, A, B),
             ~(p["e_pushbutton"] # Nothing /\ "e_pushbutton" \in B /\ Has(queue, A)),
             ~(p["e_ble"] # Nothing /\ "e_ble" \in B
               /\ (Has(queue, A) \/ (p["e_pushbutton"] # Nothing /\ "e_pushbutton" \in A))),
             ~(p["e_battery"] # Nothing /\ "e_battery" \in B
               /\ (Has(queue, A) \/ "e_pushbutton" \in A \/ "e_ble" \in A)),
             ~(p["e_tmr"] # Nothing /\ "e_tmr" \in B
               /\ (Has(queue, A) \/ "e_pushbutton" \in A \/ "e_ble" \in A
                   \/ "e_battery" \in A))
      PROVE  NoneBehind(q4, A, B)
  <2>1. NoneBehind(q1, A, B)
    BY <1>1, <1>8, Zenon
  <2>2. NoneBehind(q2, A, B)
    <3>1. Has(q1, A) <=>
            Has(queue, A) \/ (p["e_pushbutton"] # Nothing /\ "e_pushbutton" \in A)
      BY <1>1
    <3>2. ~(p["e_ble"] # Nothing /\ "e_ble" \in B /\ Has(q1, A))
      BY <1>8, <3>1, Zenon
    <3> QED
      BY <1>2, <2>1, <3>2, Zenon
  <2>3. NoneBehind(q3, A, B)
    BY <1>3, <1>7, <1>8, <2>2, Zenon
  <2> QED
    BY <1>4, <1>7, <1>8, <2>3, Zenon
<1> QED
  BY <1>5, <1>6, <1>8, Zenon

-----------------------------------------------------------------------------
(* The LEDs.  That they never show a state the node is not in is inductive *)
(* by itself, and holds at every instant, with events waiting too: an      *)
(* action that changes a flag setLedsStatus reads calls it, and the tick   *)
(* toggles the LEDs only while Leds(g) is "off".                           *)
LedsShow == leds = Leds(g) \/ (Leds(g) = "off" /\ leds = "blink")

\* What an entry action leaves: the LEDs follow the flags, or neither moved.
LedsFollow(x, y) ==
  y.leds = Leds(y.g) \/ (y.leds = x.leds /\ Leds(y.g) = Leds(x.g))

\* What setLedsStatus leaves.
LEMMA LedsSet ==
  ASSUME NEW x \in MeType
  PROVE  /\ setLedsStatus(x).leds = Leds(setLedsStatus(x).g)
         /\ setLedsStatus(x).g = x.g
BY DEF setLedsStatus, MeType

\* The exit actions.
LEMMA ExitLeds ==
  ASSUME NEW x \in MeType, NEW r PROVE LedsFollow(x, Exit(r, x))
<1>1. LedsFollow(x, unlinkedExit(x))
  BY DEF LedsFollow, unlinkedExit, MeType
<1>2. LedsFollow(x, motionExit(x))
  <2> DEFINE y == [x EXCEPT !.tmr = Stop(x.tmr), !.g.isMotionDetect = FALSE]
  <2>1. y \in MeType
    BY DEF MeType, Flags, Stop
  <2>2. motionExit(x) = [setLedsStatus(y) EXCEPT !.buzzer = FALSE]
    BY DEF motionExit
  <2> HIDE DEF y
  <2>3. setLedsStatus(y) \in MeType /\ setLedsStatus(y).leds = Leds(setLedsStatus(y).g)
    BY <2>1, LedsType, LedsSet
  <2>4. motionExit(x).leds = setLedsStatus(y).leds /\ motionExit(x).g = setLedsStatus(y).g
    BY <2>2, <2>3 DEF MeType
  <2> QED
    BY <2>3, <2>4 DEF LedsFollow
<1> QED
  BY <1>1, <1>2 DEF Exit, LedsFollow

\* The entry actions, after an exit action or none.
LEMMA EntryLeds ==
  ASSUME NEW x \in MeType, NEW y \in MeType, LedsFollow(x, y), NEW s \in States
  PROVE  LedsFollow(x, Entry(s, y))
<1>1. CASE s = "hidden"
  <2>1. /\ hiddenEntry(y).leds = y.leds
        /\ hiddenEntry(y).g = [y.g EXCEPT !.isAdvertising = FALSE]
    BY DEF hiddenEntry, MeType
  <2>2. Leds(hiddenEntry(y).g) = Leds(y.g)
    BY <2>1 DEF Leds, MeType, Flags
  <2> QED
    BY <1>1, <2>1, <2>2 DEF Entry, LedsFollow
<1>2. CASE s = "linked"
  <2> DEFINE z == [y EXCEPT !.g.isConnected = TRUE]
  <2>1. z \in MeType
    BY DEF MeType, Flags
  <2>2. Entry(s, y) = setLedsStatus(z)
    BY <1>2 DEF Entry, linkedEntry
  <2> QED
    BY <2>1, <2>2, LedsSet DEF LedsFollow
<1>3. CASE s = "unlinked"
  <2> DEFINE z == [y EXCEPT !.g.isConnected = FALSE, !.g.isFitnessRunning = FALSE]
  <2>1. z \in MeType
    BY DEF MeType, Flags
  <2>2. Entry(s, y) = [setLedsStatus(z) EXCEPT !.bleReset = TRUE]
    BY <1>3 DEF Entry, unlinkedEntry
  <2> HIDE DEF z
  <2>3. setLedsStatus(z) \in MeType /\ setLedsStatus(z).leds = Leds(setLedsStatus(z).g)
    BY <2>1, LedsType, LedsSet
  <2>4. Entry(s, y).leds = setLedsStatus(z).leds /\ Entry(s, y).g = setLedsStatus(z).g
    BY <2>2, <2>3 DEF MeType
  <2> QED
    BY <2>3, <2>4 DEF LedsFollow
<1>4. CASE s = "motionDetect"
  <2> DEFINE z == [y EXCEPT !.tag = "evMotionIndicatorTout",
                            !.tmr = OneShot(MOTION_DET_TIME),
                            !.g.isMotionDetect = TRUE]
  <2>1. z \in MeType
    BY DEF MeType, Flags, OneShot, Contents
  <2>2. Entry(s, y) = [setLedsStatus(z) EXCEPT !.buzzer = y.g.isBuzzerEnabled \/ y.buzzer]
    BY <1>4 DEF Entry, motionEntry
  <2> HIDE DEF z
  <2>3. setLedsStatus(z) \in MeType /\ setLedsStatus(z).leds = Leds(setLedsStatus(z).g)
    BY <2>1, LedsType, LedsSet
  <2>4. Entry(s, y).leds = setLedsStatus(z).leds /\ Entry(s, y).g = setLedsStatus(z).g
    BY <2>2, <2>3 DEF MeType
  <2> QED
    BY <2>3, <2>4 DEF LedsFollow
<1> QED
  BY <1>1, <1>2, <1>3, <1>4 DEF States, Steady

\* A node that becomes what such an action leaves shows its state.
LEMMA BecomesLeds ==
  ASSUME LedsShow, NEW y, LedsFollow(Me, y), Becomes(y)
  PROVE  LedsShow'
BY DEF LedsShow, LedsFollow, Becomes, Me, Leds

\* One step.
LEMMA LedsStep ==
  ASSUME TypeOK, LedsShow, [Next]_vars PROVE LedsShow'
<1>1. CASE UNCHANGED vars
  BY <1>1 DEF vars, outVars, LedsShow, Leds
<1>2. CASE Tick
  <2>1. (leds' \in LedsNext /\ g' = g) \/ (leds' = leds /\ g' = g)
    BY <1>2 DEF Tick, Handle, Halt, outVars
  <2> QED
    BY <2>1 DEF LedsNext, LedsShow, Leds
<1>3. CASE Thread
  <2>1. CASE Transition
    <3>1. PICK row \in Transitions : Becomes(Entry(Target(row), Exit(st, Me)))
      BY <2>1 DEF Transition
    <3> QED
      BY <3>1, TargetType, MeInType, ExitType, ExitLeds, EntryLeds, BecomesLeds
  <2>2. CASE ReportSent
    <3>1. Becomes(Entry("motionDetect", Me)) /\ LedsFollow(Me, Me)
      BY <2>2 DEF ReportSent, LedsFollow
    <3> QED
      BY <3>1, MeInType, EntryLeds, BecomesLeds DEF States
  <2>3. CASE ResetDone
    <3>1. LedsFollow(Me, startAdvertising(Me))
      BY MeInType DEF LedsFollow, startAdvertising, Leds, MeType, Flags
    <3> QED
      BY <2>3, <3>1, BecomesLeds DEF ResetDone
  <2>4. CASE BatteryStatus
    <3> DEFINE x == [Me EXCEPT !.g.isBatteryCharging =
                       Event = "evBatteryChargerConnected"]
    <3>1. x \in MeType
      BY MeInType DEF MeType, Flags
    <3> HIDE DEF x
    <3>2. LedsFollow(Me, setLedsStatus(x))
      BY <3>1 DEF LedsFollow, setLedsStatus, MeType
    <3> QED
      BY <2>4, <3>2, BecomesLeds DEF BatteryStatus, x
  <2>5. CASE Reply
    BY <2>5 DEF Reply, outVars, LedsShow, Leds, TypeOK
  <2>6. CASE Discard \/ ReportByButton \/ ReplySent \/ IdlePoll
                \/ IdleReturn \/ IdleCommand
    <3>1. UNCHANGED <<leds, g>>
      BY <2>6 DEF Discard, ReportByButton, ReplySent, IdlePoll, IdleReturn,
                  IdleCommand, Post, Halt, outVars
    <3> QED
      BY <3>1 DEF LedsShow, Leds
  <2> QED
    BY <1>3, <2>1, <2>2, <2>3, <2>4, <2>5, <2>6 DEF Thread
<1> QED
  BY <1>1, <1>2, <1>3 DEF Next

(* In every reachable state the LEDs show the state the node is in.        *)
THEOREM LedsAreTruthful == Spec => []LedsTruthful
<1>1. Init => LedsShow
  BY DEF Init, LedsShow, Leds
<1>2. TypeOK /\ LedsShow /\ [Next]_vars => LedsShow'
  BY LedsStep
<1>3. LedsShow => LedsTruthful
  BY DEF LedsShow, LedsTruthful
<1> QED
  BY <1>1, <1>2, <1>3, TypeCorrect, PTL DEF Spec

-----------------------------------------------------------------------------
(* What the steps do to the timer, to the event objects and to the queue.  *)

\* The entries of steady's children leave the timer and its event alone.
LEMMA EntryKeepsTimer ==
  ASSUME NEW x \in MeType, NEW s \in Steady
  PROVE  Entry(s, x).tmr = x.tmr /\ Entry(s, x).tag = x.tag
BY DEF Entry, linkedEntry, unlinkedEntry, hiddenEntry, setLedsStatus, Steady, MeType

\* The exits stop the timer and leave its event alone.
LEMMA ExitStopsTimer ==
  ASSUME NEW x \in MeType, NEW r
  PROVE  /\ Exit(r, x).tag = x.tag
         /\ r \in {"unlinked", "motionDetect"} => Exit(r, x).tmr.ntick = 0
         /\ r \notin {"unlinked", "motionDetect"} => Exit(r, x) = x
BY DEF Exit, unlinkedExit, motionExit, setLedsStatus, Stop, MeType

Moves(s, e, t) == st = s /\ Event = e /\ st' = t

\* Every transition of the dispatch.
LEMMA TransitionEffect ==
  ASSUME TypeOK, Agreement, Transition
  PROVE  /\ \/ Moves("unlinked", "evUnlikedTout", "hidden") /\ ~g'.isConnected
            \/ Moves("unlinked", "evConnected", "linked") /\ g'.isConnected
            \/ Moves("hidden", "evPushbuttonLongPress", "unlinked") /\ ~g'.isConnected
            \/ Moves("linked", "evPushbuttonLongPress", "unlinked") /\ ~g'.isConnected
            \/ Moves("linked", "evDisconnected", "unlinked") /\ ~g'.isConnected
            \/ Moves("motionDetect", "evMotionIndicatorTout", "linked") /\ g'.isConnected
         /\ g'.isBatteryCharging = g.isBatteryCharging
         /\ ev' = ev
         /\ IF st \in {"unlinked", "motionDetect"} THEN tmr'.ntick = 0
                                                   ELSE tmr' = tmr
<1>1. PICK row \in Transitions :
        /\ row[1] = st /\ row[2] = Event /\ row[2] # "evPushbuttonShortPress"
        /\ st' = Target(row)
        /\ Becomes(Entry(st', Exit(st, Me)))
  BY DEF Transition
<1> DEFINE via(s, e, t) == Moves(s, e, t) /\ Becomes(Entry(t, Exit(s, Me)))
<1>2. \/ via("unlinked", "evUnlikedTout", "hidden")
      \/ via("unlinked", "evConnected", "linked")
      \/ via("hidden", "evPushbuttonLongPress", "unlinked")
      \/ via("linked", "evPushbuttonLongPress", "unlinked")
      \/ via("linked", "evDisconnected", "unlinked")
      \/ via("motionDetect", "evMotionIndicatorTout", "linked")
  BY <1>1 DEF Moves, Transitions, Target, History, Agreement, ModeAgreement
<1> HIDE DEF via
<1>3. st' \in Steady /\ Becomes(Entry(st', Exit(st, Me)))
  BY <1>1, <1>2 DEF via, Moves, Steady
<1>4. /\ ev' = ev
      /\ IF st \in {"unlinked", "motionDetect"} THEN tmr'.ntick = 0
                                                ELSE tmr' = tmr
  <2> DEFINE x == Exit(st, Me)
  <2>1. x \in MeType /\ x.tag = ev["e_tmr"]
    BY MeInType, ExitType, ExitStopsTimer DEF Me
  <2>2. /\ st \in {"unlinked", "motionDetect"} => x.tmr.ntick = 0
        /\ st \notin {"unlinked", "motionDetect"} => x.tmr = tmr
    BY MeInType, ExitStopsTimer DEF Me
  <2> HIDE DEF x
  <2>3. Entry(st', x).tmr = x.tmr /\ Entry(st', x).tag = x.tag
    BY <1>3, <2>1, EntryKeepsTimer
  <2>4. tmr' = x.tmr /\ ev' = [ev EXCEPT !["e_tmr"] = ev["e_tmr"]]
    BY <1>3, <2>1, <2>3 DEF Becomes, x
  <2> QED
    BY <2>2, <2>4 DEF TypeOK
<1>5. st \in {"unlinked", "hidden"} => ~g.isConnected
  BY DEF Agreement, ModeAgreement
<1>6. g \in Flags
  BY DEF TypeOK, Flags
<1>7. CASE via("unlinked", "evUnlikedTout", "hidden")
  <2>1. g' = [g EXCEPT !.isAdvertising = FALSE]
    BY <1>7, ToHidden DEF via, Entry, Exit
  <2> QED
    BY <1>4, <1>5, <1>6, <1>7, <2>1 DEF via, Moves, Flags
<1>8. CASE via("unlinked", "evConnected", "linked")
  <2>1. g' = [g EXCEPT !.isConnected = TRUE]
    BY <1>8, ToLinked DEF via, Entry, Exit
  <2> QED
    BY <1>4, <1>6, <1>8, <2>1 DEF via, Moves, Flags
<1>9. CASE \/ via("hidden", "evPushbuttonLongPress", "unlinked")
           \/ via("linked", "evPushbuttonLongPress", "unlinked")
           \/ via("linked", "evDisconnected", "unlinked")
  <2>1. g' = [g EXCEPT !.isConnected = FALSE, !.isFitnessRunning = FALSE]
    BY <1>9, ToUnlinked DEF via, Entry, Exit
  <2> QED
    BY <1>4, <1>6, <1>9, <2>1 DEF via, Moves, Flags
<1>10. CASE via("motionDetect", "evMotionIndicatorTout", "linked")
  <2>1. g' = [g EXCEPT !.isMotionDetect = FALSE, !.isConnected = TRUE]
    BY <1>10, BackToLinked DEF via, Entry, Exit
  <2> QED
    BY <1>4, <1>6, <1>10, <2>1 DEF via, Moves, Flags
<1> QED
  BY <1>2, <1>7, <1>8, <1>9, <1>10

(* What an event object may carry.                                         *)
ContentsOf(o) ==
  CASE o = "e_tmr"          -> {"evInitTout", "evUnlikedTout", "evMotionIndicatorTout"}
    [] o = "e_pushbutton"   -> {"evPushbuttonShortPress", "evPushbuttonLongPress"}
    [] o = "e_ble"          -> {"evOk", "evConnected", "evDisconnected"}
    [] o = "e_battery"      -> BatterySignals
    [] o = "e_cfg"          -> CfgPayloads
    [] o = "e_fitness"      -> FitnessPayloads
    [] o = "e_platCGetCfg"  -> {"evPlatCGetCfg"}
    [] o = "e_platCGetData" -> {"evPlatCGetData"}

Tagged == \A o \in EventObjs : ev[o] \in ContentsOf(o)

CommandObjs == {"e_cfg", "e_fitness", "e_platCGetCfg", "e_platCGetData"}

\* The thread's steps but the posts give new contents to e_tmr alone.
EvKept == \A o \in EventObjs \ {"e_tmr"} : ev'[o] = ev[o]

\* A command posted.
Posting ==
  /\ pc = "idle" /\ pc' = "sched"
  /\ \E o \in CommandObjs :
       /\ queue' = Append(queue, o)
       /\ ev' \in [EventObjs -> Contents]
       /\ \A e \in EventObjs \ {o} : ev'[e] = ev[e]
       /\ ev'[o] \in ContentsOf(o)
  /\ UNCHANGED <<st, hist, g, tmr, halted, isrVars, outVars, histVars>>

\* Every step of the thread gets an event, posts one, or leaves the queue.
LEMMA ThreadQueue ==
  ASSUME TypeOK, Thread
  PROVE  /\ \/ EvKept /\ Dispatching
            \/ EvKept /\ queue' = queue
            \/ Posting
         /\ UNCHANGED isrVars
<1> USE DEF outVars
<1>1. ASSUME NEW x, Becomes(x) PROVE EvKept
  BY <1>1 DEF Becomes, EvKept, TypeOK
<1>2. CASE Discard \/ ReportByButton \/ Reply
  BY <1>2 DEF Discard, ReportByButton, Reply, EvKept
<1>3. CASE Transition \/ BatteryStatus
  BY <1>1, <1>3 DEF Transition, BatteryStatus
<1>4. CASE ResetDone \/ ReportSent
  BY <1>1, <1>4 DEF ResetDone, ReportSent
<1>5. CASE ReplySent \/ IdlePoll \/ IdleReturn
  BY <1>5 DEF ReplySent, IdlePoll, IdleReturn, EvKept, isrVars
<1>6. CASE IdleCommand
  <2>1. PICK c \in Commands :
          IF Len(queue) < QSTO_SIZE THEN Post(c[1], c[2]) ELSE Halt
    BY <1>6 DEF IdleCommand
  <2>2. c[1] \in CommandObjs /\ c[2] \in ContentsOf(c[1]) /\ c[2] \in Contents
    BY DEF Command, CommandObjs, ContentsOf, Contents, CfgPayloads, FitnessPayloads
  <2>3. CASE Post(c[1], c[2])
    <3>1. /\ ev' \in [EventObjs -> Contents]
          /\ \A e \in EventObjs \ {c[1]} : ev'[e] = ev[e]
          /\ ev'[c[1]] = c[2]
      BY <2>2, <2>3 DEF Post, TypeOK, EventObjs, CommandObjs
    <3>2. Posting
      BY <1>6, <2>2, <2>3, <3>1 DEF Post, Posting, IdleCommand
    <3> QED
      BY <2>3, <3>2 DEF Post
  <2>4. CASE Halt
    BY <2>4 DEF Halt, EvKept
  <2> QED
    BY <2>1, <2>3, <2>4
<1> QED
  BY <1>2, <1>3, <1>4, <1>5, <1>6 DEF Thread

\* The timer's event keeps to its signals.
LEMMA TimerTag ==
  ASSUME TypeOK, Agreement, Thread
  PROVE  ev'["e_tmr"] \in {ev["e_tmr"], "evUnlikedTout", "evMotionIndicatorTout"}
<1>1. CASE Transition
  BY <1>1, TransitionEffect
<1>2. CASE ResetDone
  BY <1>2, MeInType
  DEF ResetDone, Becomes, startAdvertising, MeType, TypeOK, EventObjs
<1>3. CASE ReportSent
  <2>1. motionEntry(Me).tag = "evMotionIndicatorTout"
    BY MeInType DEF motionEntry, setLedsStatus, MeType
  <2> QED
    BY <1>3, <2>1 DEF ReportSent, Becomes, Entry, TypeOK, EventObjs
<1>4. CASE BatteryStatus
  BY <1>4, MeInType
  DEF BatteryStatus, Becomes, setLedsStatus, Me, TypeOK, EventObjs
<1>5. CASE IdleCommand
  <2>1. PICK c \in Commands : Post(c[1], c[2]) \/ Halt
    BY <1>5 DEF IdleCommand
  <2>2. c[1] # "e_tmr"
    BY DEF Command
  <2> QED
    BY <2>1, <2>2 DEF Post, Halt, TypeOK, EventObjs
<1>6. CASE Discard \/ ReportByButton \/ Reply \/ ReplySent \/ IdlePoll \/ IdleReturn
  BY <1>6 DEF Discard, ReportByButton, Reply, ReplySent, IdlePoll, IdleReturn
<1> QED
  BY <1>1, <1>2, <1>3, <1>4, <1>5, <1>6 DEF Thread

\* What a tick posts carries the tag of its object.
LEMMA PostsTagged ==
  ASSUME TypeOK, Tagged, NEW d
  PROVE  \A o \in DOMAIN Posts(d) : Posts(d)[o] \in ContentsOf(o) \cup {Nothing}
<1>1. ButtonPost(d["button"]) \in ContentsOf("e_pushbutton") \cup {Nothing}
  BY DEF ButtonPost, ContentsOf
<1>2. BlePost(d["ble"]) \in ContentsOf("e_ble") \cup {Nothing}
  BY DEF BlePost, ContentsOf
<1>3. BatteryPost(d["battery"]) \in ContentsOf("e_battery") \cup {Nothing}
  BY DEF BatteryPost, ContentsOf, BatterySignals
<1>4. ev["e_tmr"] \in ContentsOf("e_tmr")
  BY DEF Tagged, EventObjs
<1> QED
  BY <1>1, <1>2, <1>3, <1>4 DEF Posts

\* One step.
LEMMA TaggedStep ==
  ASSUME TypeOK, Agreement, Tagged, [Next]_vars PROVE Tagged'
<1>1. CASE UNCHANGED vars
  BY <1>1 DEF vars, Tagged
<1>2. CASE Tick
  <2>1. CASE Halt
    BY <2>1 DEF Halt, Tagged
  <2>2. ASSUME NEW d, Handle(d, Posts(d)) PROVE Tagged'
    BY <2>2, PostsTagged DEF Handle, Tagged
  <2> QED
    BY <1>2, <2>1, <2>2 DEF Tick
<1>3. CASE Thread
  <2>1. CASE EvKept
    <3>1. ev'["e_tmr"] \in ContentsOf("e_tmr")
      BY <1>3, TimerTag DEF ContentsOf, Tagged, EventObjs
    <3> QED
      BY <2>1, <3>1 DEF Tagged, EvKept
  <2>2. CASE Posting
    BY <2>2 DEF Posting, Tagged
  <2> QED
    BY <1>3, <2>1, <2>2, ThreadQueue
<1> QED
  BY <1>1, <1>2, <1>3 DEF Next

\* At power up.
LEMMA TaggedInit == Init => Tagged
<1> SUFFICES ASSUME Init, NEW o \in EventObjs PROVE ev[o] \in ContentsOf(o)
  BY DEF Tagged
<1> QED
  BY DEF Init, ContentsOf, EventObjs, BatterySignals, CfgPayloads, FitnessPayloads

-----------------------------------------------------------------------------
(* The charging flag and the belief in a link.  Both are written by events *)
(* alone, so each is known through the queue: while an event of the pin    *)
(* waits, its present contents agree with the pin's state machine, however *)
(* often it was re-tagged; when none waits and the last was not lost, the  *)
(* flag agrees.                                                            *)
BatteryKnown ==
  /\ Has(queue, {"e_battery"}) =>
       (ev["e_battery"] = "evBatteryChargerConnected" <=> sm.battery = "stCharging")
  /\ ~Has(queue, {"e_battery"}) /\ "e_battery" \notin lost =>
       (g.isBatteryCharging <=> sm.battery = "stCharging")

BleKnown ==
  /\ Has(queue, {"e_ble"}) =>
       ev["e_ble"] = IF sm.ble = "stConnected" THEN "evConnected" ELSE "evDisconnected"
  /\ ~Has(queue, {"e_ble"}) /\ "e_ble" \notin lost =>
       (g.isConnected => sm.ble = "stConnected")

\* A tick.
LEMMA TickKnows ==
  ASSUME TypeOK, BatteryKnown, BleKnown, Tick PROVE BatteryKnown' /\ BleKnown'
<1>1. CASE Halt
  BY <1>1 DEF Halt, BatteryKnown, BleKnown, Has, isrVars, histVars
<1>2. ASSUME NEW d, Handle(d, Posts(d)) PROVE BatteryKnown' /\ BleKnown'
  <2> DEFINE p == Posts(d)
  <2>1. /\ p["e_battery"] = BatteryPost(d["battery"])
        /\ p["e_ble"] = BlePost(d["ble"])
        /\ {"e_battery", "e_ble"} \subseteq DOMAIN p
    BY DEF Posts
  <2>2. /\ sm'.battery = BatteryNext(d["battery"]) /\ sm'.ble = BleNext(d["ble"])
        /\ queue' = After(p) /\ g' = g
        /\ lost' = {o \in lost : p[o] = Nothing}
        /\ \A o \in {"e_battery", "e_ble"} :
             ev'[o] = IF p[o] # Nothing THEN p[o] ELSE ev[o]
    BY <1>2, <2>1 DEF Handle, EventObjs
  <2> HIDE DEF p
  <2>3. /\ Has(queue', {"e_battery"}) <=>
             Has(queue, {"e_battery"}) \/ p["e_battery"] # Nothing
        /\ Has(queue', {"e_ble"}) <=>
             Has(queue, {"e_ble"}) \/ p["e_ble"] # Nothing
    BY <2>2, TickAdds
  <2>4. sm.battery \in {"stNotCharging", "stCharging"}
        /\ sm.ble \in {"stDisconnected", "stConnected"}
    BY DEF TypeOK
  <2>5. BatteryKnown'
    BY <2>1, <2>2, <2>3, <2>4
    DEF BatteryKnown, BatteryPost, BatteryNext, IsSet, IsUnset, Nothing
  <2>6. BleKnown'
    BY <2>1, <2>2, <2>3, <2>4
    DEF BleKnown, BlePost, BleNext, IsSet, IsUnset, Nothing
  <2> QED
    BY <2>5, <2>6
<1> QED
  BY <1>1, <1>2 DEF Tick

\* A step of the thread gets an event exactly if it dispatches one.
LEMMA ThreadSplits ==
  ASSUME Thread
  PROVE  /\ Dispatching =>
              \/ Discard \/ Transition \/ ReportByButton
              \/ BatteryStatus \/ Reply
         /\ ~Dispatching =>
              \/ ResetDone \/ ReportSent \/ ReplySent
              \/ IdlePoll \/ IdleReturn \/ IdleCommand
BY DEF Thread, Dispatching, Discard, Transition, ReportByButton, BatteryStatus,
       Reply, ResetDone, ReportSent, ReplySent, IdlePoll, IdleReturn, IdleCommand

\* A step of the thread, and the charger's events.
LEMMA ThreadKnowsBattery ==
  ASSUME TypeOK, Agreement, Tagged, BatteryKnown, Thread PROVE BatteryKnown'
<1>0. sm' = sm
  BY ThreadQueue DEF isrVars
<1>1. CASE ~Dispatching
  <2>1. UNCHANGED lost /\ g'.isBatteryCharging = g.isBatteryCharging
    <3>1. CASE ResetDone
      BY <3>1 DEF ResetDone, Becomes, startAdvertising, Me, histVars, TypeOK
    <3>2. CASE ReportSent
      BY <3>2, ToMotion DEF ReportSent, Entry, TypeOK
    <3>3. CASE ReplySent \/ IdlePoll \/ IdleReturn \/ IdleCommand
      BY <3>3 DEF ReplySent, IdlePoll, IdleReturn, IdleCommand, Post, Halt, histVars
    <3> QED
      BY <1>1, <3>1, <3>2, <3>3, ThreadSplits
  <2>2. /\ ev'["e_battery"] = ev["e_battery"]
        /\ Has(queue', {"e_battery"}) <=> Has(queue, {"e_battery"})
    <3>1. CASE EvKept /\ queue' = queue
      BY <3>1 DEF EvKept, EventObjs, Has
    <3>2. CASE Posting
      <4>1. PICK o \in CommandObjs :
              /\ queue' = Append(queue, o)
              /\ \A e \in EventObjs \ {o} : ev'[e] = ev[e]
        BY <3>2 DEF Posting
      <4>2. o \in EventObjs \ {"e_battery"} /\ queue \in Seq(EventObjs)
        BY DEF CommandObjs, EventObjs, TypeOK
      <4> QED
        BY <4>1, <4>2, PostAdds DEF EventObjs
    <3> QED
      BY <1>1, <3>1, <3>2, ThreadQueue
  <2> QED
    BY <1>0, <2>1, <2>2 DEF BatteryKnown
<1>2. CASE Dispatching
  <2>1. /\ queue \in Seq(EventObjs) /\ queue # <<>> /\ queue' = Tail(queue)
        /\ Head(queue) \in EventObjs /\ Event = ev[Head(queue)]
        /\ Event \in ContentsOf(Head(queue))
    BY <1>2, DispatchType DEF Dispatching, Event, Tagged, TypeOK
  <2>2. Has(queue, {"e_battery"}) <=>
          Head(queue) = "e_battery" \/ Has(queue', {"e_battery"})
    BY <2>1, GetLeaves
  <2>3. ev'["e_battery"] = ev["e_battery"]
    <3>1. ~Posting
      BY <1>2 DEF Posting, Dispatching
    <3> QED
      BY <3>1, ThreadQueue DEF EvKept, EventObjs
  <2>4. CASE Head(queue) # "e_battery"
    <3>1. Event \notin BatterySignals
      BY <2>1, <2>4
      DEF ContentsOf, BatterySignals, EventObjs, CfgPayloads, FitnessPayloads
    <3>2. lost \subseteq lost' /\ ("e_battery" \in lost' => "e_battery" \in lost)
      <4>1. CASE Discard
        BY <2>4, <4>1 DEF Discard
      <4>2. CASE Transition \/ ReportByButton \/ BatteryStatus \/ Reply
        BY <4>2 DEF Transition, ReportByButton, BatteryStatus, Reply, histVars
      <4> QED
        BY <1>2, <4>1, <4>2, ThreadSplits
    <3>3. g'.isBatteryCharging = g.isBatteryCharging
      <4>1. CASE Transition
        BY <4>1, TransitionEffect
      <4>2. CASE Reply
        BY <4>2 DEF Reply, TypeOK
      <4>3. CASE Discard \/ ReportByButton
        BY <4>3 DEF Discard, ReportByButton
      <4>4. ~BatteryStatus
        BY <3>1 DEF BatteryStatus
      <4> QED
        BY <1>2, <4>1, <4>2, <4>3, <4>4, ThreadSplits
    <3> QED
      BY <1>0, <2>2, <2>3, <2>4, <3>2, <3>3 DEF BatteryKnown
  <2>5. CASE Head(queue) = "e_battery"
    <3>1. Event \in BatterySignals
      BY <2>1, <2>5 DEF ContentsOf
    <3>2. Event = "evBatteryChargerConnected" <=> sm.battery = "stCharging"
      BY <2>1, <2>2, <2>5 DEF BatteryKnown
    <3>3. BatteryStatus \/ Discard
      <4>1. ~Transition
        BY <3>1 DEF Transition, Transitions, BatterySignals
      <4>2. ~ReportByButton /\ ~Reply
        BY <3>1 DEF ReportByButton, Reply, BatterySignals
      <4> QED
        BY <1>2, <4>1, <4>2, ThreadSplits
    <3>4. CASE BatteryStatus
      <4> DEFINE x == [Me EXCEPT !.g.isBatteryCharging =
                         Event = "evBatteryChargerConnected"]
      <4>1. x \in MeType /\ x.g.isBatteryCharging = (Event = "evBatteryChargerConnected")
        BY MeInType DEF MeType, Flags
      <4>2. Becomes(setLedsStatus(x))
        BY <3>4 DEF BatteryStatus
      <4> HIDE DEF x
      <4>3. g' = x.g
        BY <4>1, <4>2, LedsSet DEF Becomes
      <4> QED
        BY <1>0, <2>2, <2>3, <2>5, <3>2, <3>4, <4>1, <4>3 DEF BatteryKnown
    <3>5. CASE Discard
      <4>1. st = "motionDetect"
        BY <3>1, <3>5 DEF Discard, Internal, TypeOK, States
      <4>2. "e_battery" \in lost'
        BY <2>5, <3>5, <4>1 DEF Discard
      <4>3. ev["e_battery"] = Event
        BY <2>1, <2>5
      <4> QED
        BY <1>0, <2>3, <3>2, <4>2, <4>3 DEF BatteryKnown
    <3> QED
      BY <3>3, <3>4, <3>5
  <2> QED
    BY <2>4, <2>5
<1> QED
  BY <1>1, <1>2

\* A step of the thread, and the link's events.
LEMMA ThreadKnowsBle ==
  ASSUME TypeOK, Agreement, Tagged, BleKnown, Thread PROVE BleKnown'
<1>0. sm' = sm
  BY ThreadQueue DEF isrVars
<1>1. CASE ~Dispatching
  <2>1. UNCHANGED lost /\ g'.isConnected = g.isConnected
    <3>1. CASE ResetDone
      BY <3>1 DEF ResetDone, Becomes, startAdvertising, Me, histVars, TypeOK
    <3>2. CASE ReportSent
      BY <3>2, ToMotion DEF ReportSent, Entry, TypeOK
    <3>3. CASE ReplySent \/ IdlePoll \/ IdleReturn \/ IdleCommand
      BY <3>3 DEF ReplySent, IdlePoll, IdleReturn, IdleCommand, Post, Halt, histVars
    <3> QED
      BY <1>1, <3>1, <3>2, <3>3, ThreadSplits
  <2>2. /\ ev'["e_ble"] = ev["e_ble"]
        /\ Has(queue', {"e_ble"}) <=> Has(queue, {"e_ble"})
    <3>1. CASE EvKept /\ queue' = queue
      BY <3>1 DEF EvKept, EventObjs, Has
    <3>2. CASE Posting
      <4>1. PICK o \in CommandObjs :
              /\ queue' = Append(queue, o)
              /\ \A e \in EventObjs \ {o} : ev'[e] = ev[e]
        BY <3>2 DEF Posting
      <4>2. o \in EventObjs \ {"e_ble"} /\ queue \in Seq(EventObjs)
        BY DEF CommandObjs, EventObjs, TypeOK
      <4> QED
        BY <4>1, <4>2, PostAdds DEF EventObjs
    <3> QED
      BY <1>1, <3>1, <3>2, ThreadQueue
  <2> QED
    BY <1>0, <2>1, <2>2 DEF BleKnown
<1>2. CASE Dispatching
  <2>1. /\ queue \in Seq(EventObjs) /\ queue # <<>> /\ queue' = Tail(queue)
        /\ Head(queue) \in EventObjs /\ Event = ev[Head(queue)]
        /\ Event \in ContentsOf(Head(queue))
    BY <1>2, DispatchType DEF Dispatching, Event, Tagged, TypeOK
  <2>2. Has(queue, {"e_ble"}) <=>
          Head(queue) = "e_ble" \/ Has(queue', {"e_ble"})
    BY <2>1, GetLeaves
  <2>3. ev'["e_ble"] = ev["e_ble"]
    <3>1. ~Posting
      BY <1>2 DEF Posting, Dispatching
    <3> QED
      BY <3>1, ThreadQueue DEF EvKept, EventObjs
  <2>4. /\ lost \subseteq lost'
        /\ Head(queue) # "e_ble" => ("e_ble" \in lost' => "e_ble" \in lost)
    <3>1. CASE Discard
      BY <3>1 DEF Discard
    <3>2. CASE Transition \/ ReportByButton \/ BatteryStatus \/ Reply
      BY <3>2 DEF Transition, ReportByButton, BatteryStatus, Reply, histVars
    <3> QED
      BY <1>2, <3>1, <3>2, ThreadSplits
  <2>5. CASE ~Transition
    <3>1. g'.isConnected = g.isConnected
      <4>1. CASE BatteryStatus
        <5> DEFINE x == [Me EXCEPT !.g.isBatteryCharging =
                           Event = "evBatteryChargerConnected"]
        <5>1. x \in MeType /\ x.g.isConnected = g.isConnected
          BY MeInType DEF MeType, Flags, Me
        <5>2. Becomes(setLedsStatus(x))
          BY <4>1 DEF BatteryStatus
        <5> HIDE DEF x
        <5> QED
          BY <5>1, <5>2, LedsSet DEF Becomes
      <4>2. CASE Reply
        BY <4>2 DEF Reply, TypeOK
      <4>3. CASE Discard \/ ReportByButton
        BY <4>3 DEF Discard, ReportByButton
      <4> QED
        BY <1>2, <2>5, <4>1, <4>2, <4>3, ThreadSplits
    <3>2. CASE Head(queue) # "e_ble"
      BY <1>0, <2>2, <2>3, <2>4, <3>1, <3>2 DEF BleKnown
    <3>3. CASE Head(queue) = "e_ble"
      <4>1. Event = IF sm.ble = "stConnected" THEN "evConnected" ELSE "evDisconnected"
        BY <2>1, <2>2, <3>3 DEF BleKnown
      <4>2. Discard
        <5>1. Event \in {"evConnected", "evDisconnected"}
          BY <4>1
        <5> QED
          BY <1>2, <2>5, <5>1, ThreadSplits
          DEF BatteryStatus, Reply, ReportByButton, BatterySignals, Internal,
              CfgPayloads, FitnessPayloads
      <4>3. CASE st = "motionDetect"
        <5>1. "e_ble" \in lost'
          BY <3>3, <4>2, <4>3 DEF Discard
        <5> QED
          BY <1>0, <2>2, <2>3, <3>3, <5>1 DEF BleKnown
      <4>4. CASE st = "linked"
        <5>1. Event # "evDisconnected"
          BY <4>2, <4>4 DEF Discard, Transitions
        <5> QED
          BY <1>0, <2>2, <2>3, <3>3, <4>1, <5>1 DEF BleKnown
      <4>5. CASE st \in {"unlinked", "hidden"}
        <5>1. ~g.isConnected
          BY <4>5 DEF Agreement, ModeAgreement
        <5> QED
          BY <1>0, <2>2, <2>3, <3>1, <3>3, <5>1 DEF BleKnown
      <4> QED
        BY <4>3, <4>4, <4>5 DEF TypeOK, States, Steady
    <3> QED
      BY <3>2, <3>3
  <2>6. CASE Transition
    <3>1. g'.isConnected =>
            \/ Event = "evConnected"
            \/ Event = "evMotionIndicatorTout" /\ g.isConnected
      BY <2>6, TransitionEffect DEF Moves, Agreement, ModeAgreement
    <3>2. Head(queue) = "e_ble" => Event # "evMotionIndicatorTout"
      BY <2>1 DEF ContentsOf
    <3>3. Event = "evConnected" => Head(queue) = "e_ble"
      BY <2>1
      DEF ContentsOf, EventObjs, BatterySignals, CfgPayloads, FitnessPayloads
    <3>4. CASE g'.isConnected /\ Event = "evConnected"
      <4>1. sm.ble = "stConnected"
        BY <2>1, <2>2, <3>3, <3>4 DEF BleKnown
      <4> QED
        BY <1>0, <2>2, <2>3, <3>3, <3>4, <4>1 DEF BleKnown
    <3>5. CASE g'.isConnected /\ Event # "evConnected"
      BY <1>0, <2>2, <2>3, <2>4, <3>1, <3>2, <3>5 DEF BleKnown
    <3>6. CASE ~g'.isConnected
      BY <1>0, <2>2, <2>3, <3>6 DEF BleKnown
    <3> QED
      BY <3>4, <3>5, <3>6
  <2> QED
    BY <2>5, <2>6
<1> QED
  BY <1>1, <1>2

\* The three together are inductive given types and agreement.
Known == Tagged /\ BatteryKnown /\ BleKnown

LEMMA KnownInvariant == Spec => []Known
<1>1. Init => Known
  <2>1. Init => ~Has(queue, {"e_battery"}) /\ ~Has(queue, {"e_ble"})
    BY NothingIn DEF Init
  <2>2. Init => /\ ~g.isBatteryCharging /\ ~g.isConnected
                /\ sm.battery = "stNotCharging"
    <3>1. Init => g.isBatteryCharging = FALSE /\ g.isConnected = FALSE
      BY DEF Init
    <3>2. Init => sm.battery = "stNotCharging"
      BY DEF Init
    <3> QED
      BY <3>1, <3>2
  <2>3. Init => BatteryKnown /\ BleKnown
    BY <2>1, <2>2 DEF BatteryKnown, BleKnown
  <2> QED
    BY <2>3, TaggedInit DEF Known
<1>2. TypeOK /\ Agreement /\ Known /\ [Next]_vars => Known'
  <2> SUFFICES ASSUME TypeOK, Agreement, Known, [Next]_vars PROVE Known'
    OBVIOUS
  <2>1. CASE UNCHANGED vars
    <3>1. UNCHANGED <<queue, ev, sm, lost, g>>
      BY <2>1 DEF vars, isrVars, histVars
    <3>2. BatteryKnown' /\ BleKnown'
      BY <3>1 DEF Known, BatteryKnown, BleKnown, Has
    <3> QED
      BY <3>2, TaggedStep DEF Known
  <2>2. CASE Tick
    BY <2>2, TaggedStep, TickKnows DEF Known
  <2>3. CASE Thread
    BY <2>3, TaggedStep, ThreadKnowsBattery, ThreadKnowsBle DEF Known
  <2> QED
    BY <2>1, <2>2, <2>3 DEF Next
<1> QED
  BY <1>1, <1>2, TypeCorrect, AgreementInvariant, PTL DEF Spec

\* A queue with nothing in it.
LEMMA SettledHasNone == Settled => \A A : ~Has(queue, A)
BY NothingIn DEF Settled

(* With nothing left to handle, the charging flag is the debounced pin,    *)
(* unless the pin last changed during an indication of motion.             *)
THEOREM ChargingFollowsPin == Spec => []ChargingIsPin
<1>1. Known => ChargingIsPin
  BY SettledHasNone DEF Known, BatteryKnown, ChargingIsPin
<1> QED
  BY <1>1, KnownInvariant, PTL

(* With nothing left to handle, a node that believes it is connected has a *)
(* link, unless the link dropped during an indication of motion.           *)
THEOREM ConnectedIsLinked == Spec => []ConnectedHasLink
<1>1. Known => ConnectedHasLink
  BY SettledHasNone DEF Known, BleKnown, ConnectedHasLink
<1> QED
  BY <1>1, KnownInvariant, PTL

-----------------------------------------------------------------------------
(* The timer.  TimerAgreement is not inductive: that no timeout is queued  *)
(* when the timer is started again follows from where in the queue it may  *)
(* be.  In unlinked it can only come behind the posts of one tick, and     *)
(* with the queue empty before, so that what is dispatched before it takes *)
(* the node to linked at most, with nothing left that would take it away.  *)
(* That the tick finds the queue empty is so because a reply in unlinked,  *)
(* during which a tick may queue more, comes right after the timer's start *)
(* and is shorter than the timeout.                                        *)
OneCommandQueued ==
  /\ NoneBehind(queue, CommandObjs, CommandObjs)
  /\ pc \in {"idle", "reply"} => ~Has(queue, CommandObjs)
  /\ pc = "idle" => st \in {"linked", "motionDetect"}

Counting ==
  tmr.ntick > 0 =>
    /\ tmr.used
    /\ ~Has(queue, {"e_tmr"})
    /\ \/ /\ st = "unlinked" /\ pc # "reset" /\ ev["e_tmr"] = "evUnlikedTout"
          /\ tmr.ntick + stay = UNLINKED_TIMEOUT
       \/ /\ st = "motionDetect" /\ ev["e_tmr"] = "evMotionIndicatorTout"
          /\ tmr.ntick + stay = MOTION_DET_TIME

HideQueued ==
  /\ ev["e_tmr"] = "evUnlikedTout"
  /\ pc = "sched"
  /\ ~Has(queue, CommandObjs)
  /\ NoneBehind(queue, {"e_ble"}, {"e_pushbutton", "e_ble"})
  /\ \/ st = "unlinked" /\ stay = UNLINKED_TIMEOUT
     \/ st = "linked" /\ ~Has(queue, {"e_pushbutton", "e_ble"})

TimedOut ==
  /\ Has(queue, {"e_tmr"}) =>
       \/ /\ st = "motionDetect" /\ ev["e_tmr"] = "evMotionIndicatorTout"
          /\ stay = MOTION_DET_TIME
       \/ HideQueued
  /\ NoneBehind(queue, {"e_tmr"}, {"e_tmr"})

Fresh ==
  /\ pc = "reset" => stay = 0
  /\ st = "unlinked" /\ pc = "sched" /\ Has(queue, CommandObjs) =>
       tmr.ntick = UNLINKED_TIMEOUT
  /\ st = "unlinked" /\ pc = "reply" =>
       tmr.ntick + SEND_TICKS >= UNLINKED_TIMEOUT + left

TimerInv == OneCommandQueued /\ Counting /\ TimedOut /\ Fresh

\* A tick that changes anything.
LEMMA HandleTimer ==
  ASSUME TypeOK, Agreement, TimerInv, MayTick, NEW d, Handle(d, Posts(d))
  PROVE  TimerInv'
<1> DEFINE p == Posts(d)
<1>1. /\ queue' = After(p) /\ tmr' = TimerNext
      /\ UNCHANGED <<st, pc>>
      /\ left' = IF pc = "sched" THEN 0 ELSE left - 1
      /\ stay' = IF pc \in {"reset", "report"} THEN stay
                 ELSE IF st = "unlinked" THEN Longer(stay, UNLINKED_TIMEOUT)
                 ELSE IF st = "motionDetect" THEN Longer(stay, MOTION_DET_TIME)
                 ELSE stay
  BY DEF Handle
<1>2. /\ p["e_tmr"] = IF TimerFires THEN ev["e_tmr"] ELSE Nothing
      /\ ev'["e_tmr"] = ev["e_tmr"]
  BY DEF Handle, Posts, EventObjs
<1>3. TimerFires => p["e_tmr"] # Nothing
  BY <1>2 DEF TypeOK, EventObjs, Contents, Nothing, CfgPayloads, FitnessPayloads
<1> HIDE DEF p
<1>4. tmr.ntick \in Nat /\ stay \in Nat /\ left \in Nat
  BY DEF TypeOK
<1>5. /\ pc = "sched" => queue = <<>> /\ \A A, B : ~Has(queue, A) /\ NoneBehind(queue, A, B)
      /\ pc # "sched" => left > 0
  BY NothingIn DEF MayTick
<1>6. /\ Has(queue', CommandObjs) <=> Has(queue, CommandObjs)
      /\ NoneBehind(queue, CommandObjs, CommandObjs)
           => NoneBehind(queue', CommandObjs, CommandObjs)
  BY <1>1, TickAdds DEF CommandObjs
<1>7. /\ Has(queue', {"e_tmr"}) <=> Has(queue, {"e_tmr"}) \/ TimerFires
      /\ NoneBehind(queue, {"e_tmr"}, {"e_tmr"}) /\ ~(TimerFires /\ Has(queue, {"e_tmr"}))
           => NoneBehind(queue', {"e_tmr"}, {"e_tmr"})
  <2>1. p["e_tmr"] # Nothing <=> TimerFires
    BY <1>2, <1>3
  <2>2. /\ Has(queue', {"e_tmr"}) <=> Has(queue, {"e_tmr"}) \/ p["e_tmr"] # Nothing
        /\ NoneBehind(queue, {"e_tmr"}, {"e_tmr"})
           /\ ~(p["e_tmr"] # Nothing /\ Has(queue, {"e_tmr"}))
             => NoneBehind(queue', {"e_tmr"}, {"e_tmr"})
    BY <1>1, TickAdds
  <2> QED
    BY <2>1, <2>2
<1>8. queue = <<>> => NoneBehind(queue', {"e_ble"}, {"e_pushbutton", "e_ble"})
  BY <1>1, NothingIn, TickAdds
<1>9. OneCommandQueued'
  BY <1>1, <1>6 DEF TimerInv, OneCommandQueued
<1>10. st = "motionDetect" => pc \notin {"reset", "report"}
  BY DEF Agreement, ModeAgreement
<1>11. tmr.used \in BOOLEAN /\ tmr = [ntick |-> tmr.ntick, used |-> tmr.used]
  BY DEF TypeOK
<1>12. /\ tmr'.ntick > 0 => tmr.used /\ tmr.ntick > 1 /\ tmr'.ntick = tmr.ntick - 1 /\ tmr'.used
       /\ tmr.used /\ tmr.ntick > 0 => tmr'.ntick = tmr.ntick - 1
  <2>1. CASE ~tmr.used
    <3>1. tmr.ntick = 0
      BY <1>4, <2>1 DEF TimerInv, Counting
    <3> QED
      BY <1>1, <2>1, <3>1 DEF TimerNext
  <2>2. CASE tmr.used /\ tmr.ntick = 0
    BY <1>1, <1>11, <2>2 DEF TimerNext
  <2>3. CASE tmr.used /\ tmr.ntick > 0
    <3>1. tmr' = [ntick |-> tmr.ntick - 1, used |-> tmr.ntick # 1]
      BY <1>1, <2>3 DEF TimerNext
    <3>2. tmr'.ntick = tmr.ntick - 1 /\ tmr'.used = (tmr.ntick # 1)
      BY <3>1, Zenon
    <3>3. tmr'.ntick > 0 => tmr.ntick > 1 /\ tmr.ntick # 1
      BY <1>4, <3>2
    <3>4. tmr'.ntick > 0 => tmr'.used
      BY <3>2, <3>3
    <3> QED
      BY <2>3, <3>2, <3>3, <3>4
  <2> QED
    BY <1>4, <2>1, <2>2, <2>3
<1>13. Counting'
  BY <1>1, <1>2, <1>4, <1>7, <1>10, <1>12
  DEF TimerInv, Counting, TimerFires, Longer, Agreement, ModeAgreement
<1>14. TimedOut'
  <2>1. TimerFires => ~Has(queue, {"e_tmr"})
    BY DEF TimerInv, Counting, TimerFires
  <2>2. CASE Has(queue, {"e_tmr"})
    <3>1. ~HideQueued
      BY <1>5, <2>2 DEF HideQueued
    <3>2. /\ st = "motionDetect" /\ ev["e_tmr"] = "evMotionIndicatorTout"
          /\ stay = MOTION_DET_TIME
      BY <2>2, <3>1 DEF TimerInv, TimedOut
    <3> QED
      BY <1>1, <1>2, <1>7, <1>10, <2>1, <2>2, <3>2 DEF TimerInv, TimedOut, Longer
  <2>3. CASE TimerFires
    <3>1. CASE st = "motionDetect"
      <4>1. 1 + stay = MOTION_DET_TIME /\ ev["e_tmr"] = "evMotionIndicatorTout"
        BY <2>3, <3>1 DEF TimerInv, Counting, TimerFires
      <4>2. stay' = MOTION_DET_TIME
        BY <1>1, <1>4, <1>10, <3>1, <4>1 DEF Longer
      <4> QED
        BY <1>1, <1>2, <1>7, <2>1, <2>3, <3>1, <4>1, <4>2 DEF TimerInv, TimedOut
    <3>2. CASE st # "motionDetect"
      <4>1. /\ st = "unlinked" /\ pc # "reset" /\ 1 + stay = UNLINKED_TIMEOUT
            /\ ev["e_tmr"] = "evUnlikedTout"
        BY <2>3, <3>2 DEF TimerInv, Counting, TimerFires
      <4>2. pc = "sched"
        <5>1. pc # "idle" /\ pc # "report"
          BY <4>1 DEF TimerInv, OneCommandQueued, Agreement, ModeAgreement
        <5>2. pc # "reply"
          BY <1>4, <1>5, <2>3, <4>1 DEF TimerInv, Fresh, TimerFires
        <5> QED
          BY <4>1, <5>1, <5>2 DEF TypeOK
      <4>3. stay' = UNLINKED_TIMEOUT
        BY <1>1, <1>4, <4>1, <4>2 DEF Longer
      <4>4. HideQueued'
        BY <1>1, <1>2, <1>5, <1>6, <1>8, <4>1, <4>2, <4>3 DEF HideQueued
      <4> QED
        BY <1>7, <2>1, <2>3, <4>4 DEF TimerInv, TimedOut
    <3> QED
      BY <3>1, <3>2
  <2>4. CASE ~Has(queue, {"e_tmr"}) /\ ~TimerFires
    BY <1>7, <2>4 DEF TimerInv, TimedOut
  <2> QED
    BY <2>2, <2>3, <2>4
<1>15. Fresh'
  <2>1. pc' = "reset" => stay' = 0
    BY <1>1 DEF TimerInv, Fresh
  <2>2. pc' = "sched" => ~Has(queue', CommandObjs)
    BY <1>1, <1>5, <1>6
  <2>3. ASSUME st' = "unlinked", pc' = "reply"
        PROVE  tmr'.ntick + SEND_TICKS >= UNLINKED_TIMEOUT + left'
    <3>1. /\ tmr.ntick + SEND_TICKS >= UNLINKED_TIMEOUT + left
          /\ left' = left - 1 /\ left > 0
      BY <1>1, <1>5, <2>3 DEF TimerInv, Fresh
    <3>2. tmr.ntick > 0
      BY <1>4, <3>1
    <3>3. tmr'.ntick = tmr.ntick - 1
      BY <1>12, <3>2 DEF TimerInv, Counting
    <3> QED
      BY <1>4, <3>1, <3>3
  <2> QED
    BY <2>1, <2>2, <2>3 DEF Fresh
<1> QED
  BY <1>9, <1>13, <1>14, <1>15 DEF TimerInv

\* What the get of a dispatch does to the four.
LEMMA GetTimer ==
  ASSUME TypeOK, Tagged, TimerInv, Dispatching
  PROVE  /\ Head(queue) \in EventObjs /\ Event \in ContentsOf(Head(queue))
         /\ \A A : Has(queue, A) <=> Head(queue) \in A \/ Has(queue', A)
         /\ NoneBehind(queue', CommandObjs, CommandObjs)
         /\ NoneBehind(queue', {"e_tmr"}, {"e_tmr"})
         /\ Head(queue) \in CommandObjs => ~Has(queue', CommandObjs)
         /\ Head(queue) = "e_tmr" => ~Has(queue', {"e_tmr"})
         /\ HideQueued =>
              /\ NoneBehind(queue', {"e_ble"}, {"e_pushbutton", "e_ble"})
              /\ Head(queue) = "e_ble" => ~Has(queue', {"e_pushbutton", "e_ble"})
<1>1. /\ queue \in Seq(EventObjs) /\ queue # <<>> /\ queue' = Tail(queue)
      /\ Head(queue) \in EventObjs /\ Event \in ContentsOf(Head(queue))
  BY DispatchType DEF Dispatching, Event, Tagged, TypeOK
<1>2. \A A : Has(queue, A) <=> Head(queue) \in A \/ Has(queue', A)
  BY <1>1, GetLeaves
<1>3. \A A, B : NoneBehind(queue, A, B) =>
        NoneBehind(queue', A, B) /\ (Head(queue) \in A => ~Has(queue', B))
  BY <1>1, GetLeaves
<1> QED
  BY <1>1, <1>2, <1>3 DEF TimerInv, OneCommandQueued, TimedOut, HideQueued

\* Events that leave the timer alone, and the thread where it was.
LEMMA DiscardTimer ==
  ASSUME TypeOK, Tagged, TimerInv, Dispatching,
         UNCHANGED <<st, pc, tmr, stay>>, ev'["e_tmr"] = ev["e_tmr"]
  PROVE  TimerInv'
<1>1. pc = "sched"
  BY DEF Dispatching
<1>2. OneCommandQueued'
  BY <1>1, GetTimer DEF OneCommandQueued
<1>3. Counting'
  BY GetTimer DEF TimerInv, Counting
<1>4. HideQueued => HideQueued'
  BY GetTimer DEF HideQueued
<1>5. TimedOut'
  BY <1>4, GetTimer DEF TimerInv, TimedOut
<1>6. Fresh'
  BY <1>1, GetTimer DEF TimerInv, Fresh
<1> QED
  BY <1>2, <1>3, <1>5, <1>6 DEF TimerInv

\* A command.
LEMMA ReplyTimer ==
  ASSUME TypeOK, Agreement, Tagged, TimerInv, Reply PROVE TimerInv'
<1>1. /\ Dispatching /\ pc = "sched" /\ pc' = "reply" /\ left' = SEND_TICKS
      /\ UNCHANGED <<st, ev, tmr, stay>>
  BY DEF Reply, Dispatching, histVars
<1>2. Head(queue) \in CommandObjs
  <2>1. Event \in CfgPayloads \cup FitnessPayloads \cup {"evPlatCGetCfg", "evPlatCGetData"}
    BY DEF Reply, Internal
  <2> QED
    BY <1>1, <2>1, GetTimer
    DEF ContentsOf, EventObjs, CommandObjs, BatterySignals, CfgPayloads, FitnessPayloads
<1>3. Has(queue, CommandObjs) /\ ~Has(queue', CommandObjs)
  BY <1>1, <1>2, GetTimer
<1>4. OneCommandQueued'
  BY <1>1, <1>3, GetTimer DEF OneCommandQueued
<1>5. Counting'
  BY <1>1, GetTimer DEF TimerInv, Counting
<1>6. TimedOut'
  <2>1. ~HideQueued
    BY <1>3 DEF HideQueued
  <2> QED
    BY <1>1, <2>1, GetTimer DEF TimerInv, TimedOut
<1>7. Fresh'
  <2>1. st = "unlinked" => tmr.ntick = UNLINKED_TIMEOUT
    BY <1>1, <1>3 DEF TimerInv, Fresh
  <2> QED
    BY <1>1, <2>1 DEF Fresh
<1> QED
  BY <1>4, <1>5, <1>6, <1>7 DEF TimerInv

\* A short press in linked.
LEMMA ReportTimer ==
  ASSUME TypeOK, Agreement, Tagged, TimerInv, ReportByButton PROVE TimerInv'
<1>1. /\ Dispatching /\ pc' = "report" /\ st = "linked"
      /\ UNCHANGED <<st, ev, tmr, stay>>
  BY DEF ReportByButton, histVars
<1>2. Head(queue) = "e_pushbutton"
  BY <1>1, GetTimer
  DEF ReportByButton, ContentsOf, EventObjs, BatterySignals, CfgPayloads, FitnessPayloads
<1>3. ~Has(queue', {"e_tmr"})
  <2>1. Has(queue, {"e_pushbutton", "e_ble"})
    BY <1>1, <1>2, GetTimer
  <2>2. ~HideQueued
    BY <1>1, <2>1 DEF HideQueued
  <2> QED
    BY <1>1, <2>2, GetTimer DEF TimerInv, TimedOut
<1>4. OneCommandQueued'
  BY <1>1, GetTimer DEF OneCommandQueued
<1>5. Counting'
  BY <1>1 DEF TimerInv, Counting
<1>6. TimedOut'
  BY <1>1, <1>3, GetTimer DEF TimedOut
<1>7. Fresh'
  BY <1>1 DEF Fresh
<1> QED
  BY <1>4, <1>5, <1>6, <1>7 DEF TimerInv

\* The transitions of the dispatch.
LEMMA TransitionTimer ==
  ASSUME TypeOK, Agreement, Tagged, TimerInv, Transition PROVE TimerInv'
<1>1. /\ Dispatching /\ pc = "sched" /\ stay' = 0
      /\ pc' = IF st' = "unlinked" THEN "reset" ELSE "sched"
  BY DEF Transition, Dispatching
<1>2. /\ ev' = ev
      /\ IF st \in {"unlinked", "motionDetect"} THEN tmr'.ntick = 0
                                                ELSE tmr' = tmr
  BY TransitionEffect
<1>3. OneCommandQueued'
  BY <1>1, GetTimer DEF OneCommandQueued
<1>4. tmr'.ntick = 0 \/ ~(tmr'.ntick > 0)
  <2>1. st \notin {"unlinked", "motionDetect"} => ~(tmr.ntick > 0)
    BY DEF TimerInv, Counting
  <2> QED
    BY <1>2, <2>1
<1>5. Counting'
  BY <1>4 DEF Counting
<1>6. st' # "unlinked" \/ pc' = "reset"
  BY <1>1
<1>7. Fresh'
  BY <1>1, <1>6 DEF Fresh
<1>8. TimedOut'
  <2>1. SUFFICES Has(queue', {"e_tmr"}) => HideQueued'
    BY <1>1, GetTimer DEF TimedOut
  <2>2. CASE Event \in {"evUnlikedTout", "evMotionIndicatorTout"}
    <3>1. Head(queue) = "e_tmr"
      BY <1>1, <2>2, GetTimer
      DEF ContentsOf, EventObjs, BatterySignals, CfgPayloads, FitnessPayloads
    <3> QED
      BY <1>1, <3>1, GetTimer
  <2>3. CASE /\ st \in {"hidden", "linked"}
             /\ Event \in {"evPushbuttonLongPress", "evDisconnected"}
    <3>1. Head(queue) \in {"e_pushbutton", "e_ble"}
      BY <1>1, <2>3, GetTimer
      DEF ContentsOf, EventObjs, BatterySignals, CfgPayloads, FitnessPayloads
    <3>2. ~HideQueued
      BY <1>1, <2>3, <3>1, GetTimer DEF HideQueued
    <3> QED
      BY <1>1, <2>3, <3>2, GetTimer DEF TimerInv, TimedOut
  <2>4. CASE st = "unlinked" /\ Event = "evConnected" /\ st' = "linked"
    <3>1. Head(queue) = "e_ble"
      BY <1>1, <2>4, GetTimer
      DEF ContentsOf, EventObjs, BatterySignals, CfgPayloads, FitnessPayloads
    <3>2. Has(queue', {"e_tmr"}) => HideQueued
      BY <1>1, <2>4, GetTimer DEF TimerInv, TimedOut
    <3>3. HideQueued => HideQueued'
      BY <1>1, <1>2, <2>4, <3>1, GetTimer DEF HideQueued
    <3> QED
      BY <3>2, <3>3
  <2> QED
    BY <2>2, <2>3, <2>4, TransitionEffect DEF Moves
<1> QED
  BY <1>3, <1>5, <1>7, <1>8 DEF TimerInv

\* The end of a reset starts the timer of unlinked.
LEMMA ResetTimer ==
  ASSUME TypeOK, Agreement, TimerInv, ResetDone PROVE TimerInv'
<1>1. /\ pc = "reset" /\ pc' = "sched" /\ st = "unlinked" /\ stay = 0
      /\ UNCHANGED <<st, queue, stay>>
  BY DEF ResetDone, histVars, Agreement, ModeAgreement, TimerInv, Fresh
<1>2. /\ tmr' = OneShot(UNLINKED_TIMEOUT)
      /\ ev'["e_tmr"] = "evUnlikedTout"
  BY DEF ResetDone, Becomes, startAdvertising, Me, TypeOK, EventObjs
<1>3. ~Has(queue, {"e_tmr"})
  BY <1>1 DEF TimerInv, TimedOut, HideQueued
<1>4. OneCommandQueued' /\ TimedOut'
  BY <1>1, <1>3 DEF TimerInv, OneCommandQueued, TimedOut, Has, NoneBehind
<1>5. Counting'
  BY <1>1, <1>2, <1>3 DEF Counting, OneShot, Has
<1>6. Fresh'
  BY <1>1, <1>2 DEF Fresh, OneShot
<1> QED
  BY <1>4, <1>5, <1>6 DEF TimerInv

\* Entering motionDetect starts it for the indication.
LEMMA MotionTimer ==
  ASSUME TypeOK, Agreement, TimerInv, ReportSent PROVE TimerInv'
<1>1. /\ pc = "report" /\ pc' = "sched" /\ st = "linked" /\ st' = "motionDetect"
      /\ stay' = 0 /\ queue' = queue
  BY DEF ReportSent, Agreement, ModeAgreement
<1>2. /\ tmr' = OneShot(MOTION_DET_TIME)
      /\ ev'["e_tmr"] = "evMotionIndicatorTout"
  <2>1. Becomes(motionEntry(Me))
    BY DEF ReportSent, Entry
  <2> QED
    BY <2>1 DEF Becomes, motionEntry, setLedsStatus, Me, TypeOK, EventObjs
<1>3. ~Has(queue, {"e_tmr"})
  BY <1>1 DEF TimerInv, TimedOut, HideQueued
<1>4. OneCommandQueued' /\ TimedOut'
  BY <1>1, <1>3 DEF TimerInv, OneCommandQueued, TimedOut, Has, NoneBehind
<1>5. Counting'
  BY <1>1, <1>2, <1>3 DEF Counting, OneShot, Has
<1>6. Fresh'
  BY <1>1 DEF Fresh
<1> QED
  BY <1>4, <1>5, <1>6 DEF TimerInv

\* Replies that end, and polls with or without a command.
LEMMA IdleTimer ==
  ASSUME TypeOK, Agreement, TimerInv, ReplySent \/ IdlePoll \/ IdleReturn
  PROVE  TimerInv'
<1>1. /\ UNCHANGED <<st, queue, ev, tmr, stay>>
      /\ \/ pc = "reply" /\ pc' = "sched"
         \/ pc = "idle" /\ pc' = "sched"
         \/ pc = "sched" /\ pc' = "idle" /\ queue = <<>> /\ g.isConnected
  BY DEF ReplySent, IdlePoll, IdleReturn, histVars
<1>2. pc' = "idle" => /\ st \in {"linked", "motionDetect"}
                      /\ \A A : ~Has(queue, A)
  BY <1>1, NothingIn DEF Agreement, ModeAgreement, TypeOK, States, Steady
<1>3. \A A, B : Has(queue', A) = Has(queue, A)
             /\ NoneBehind(queue', A, B) = NoneBehind(queue, A, B)
  BY <1>1 DEF Has, NoneBehind
<1>4. OneCommandQueued'
  BY <1>1, <1>2, <1>3 DEF TimerInv, OneCommandQueued
<1>5. Counting'
  BY <1>1, <1>3 DEF TimerInv, Counting
<1>6. TimedOut'
  BY <1>1, <1>2, <1>3 DEF TimerInv, TimedOut, HideQueued
<1>7. Fresh'
  BY <1>1, <1>3 DEF TimerInv, Fresh, OneCommandQueued
<1> QED
  BY <1>4, <1>5, <1>6, <1>7 DEF TimerInv

\* A command posted.
LEMMA PostTimer ==
  ASSUME TypeOK, TimerInv, Posting PROVE TimerInv'
<1>1. PICK o \in CommandObjs :
        /\ queue' = Append(queue, o)
        /\ \A e \in EventObjs \ {o} : ev'[e] = ev[e]
  BY DEF Posting
<1>2. /\ pc = "idle" /\ pc' = "sched" /\ UNCHANGED <<st, tmr, stay>>
      /\ ev'["e_tmr"] = ev["e_tmr"]
      /\ queue \in Seq(EventObjs) /\ o \in EventObjs /\ o # "e_tmr"
  BY <1>1 DEF Posting, histVars, TypeOK, CommandObjs, EventObjs
<1>3. /\ st \in {"linked", "motionDetect"}
      /\ ~Has(queue, CommandObjs) /\ NoneBehind(queue, CommandObjs, CommandObjs)
  BY <1>2 DEF TimerInv, OneCommandQueued
<1>4. OneCommandQueued'
  BY <1>1, <1>2, <1>3, PostAdds DEF OneCommandQueued
<1>5. Has(queue', {"e_tmr"}) <=> Has(queue, {"e_tmr"})
  BY <1>1, <1>2, PostAdds
<1>6. NoneBehind(queue, {"e_tmr"}, {"e_tmr"}) => NoneBehind(queue', {"e_tmr"}, {"e_tmr"})
  BY <1>1, <1>2, PostAdds
<1>7. Counting'
  BY <1>2, <1>5 DEF TimerInv, Counting
<1>8. TimedOut'
  BY <1>2, <1>5, <1>6 DEF TimerInv, TimedOut, HideQueued
<1>9. Fresh'
  BY <1>2, <1>3 DEF Fresh
<1> QED
  BY <1>4, <1>7, <1>8, <1>9 DEF TimerInv

\* One step.
LEMMA TimerStep ==
  ASSUME TypeOK, Agreement, Tagged, TimerInv, [Next]_vars PROVE TimerInv'
<1>1. ASSUME UNCHANGED <<st, pc, left, queue, ev, tmr, stay>> PROVE TimerInv'
  BY <1>1 DEF TimerInv, OneCommandQueued, Counting, TimedOut, HideQueued, Fresh,
              Has, NoneBehind
<1>2. CASE UNCHANGED vars \/ Halt
  BY <1>1, <1>2 DEF vars, Halt, histVars
<1>3. CASE Tick
  <2>1. ASSUME NEW d, Handle(d, Posts(d)) PROVE TimerInv'
    BY <1>3, <2>1, HandleTimer DEF Tick
  <2> QED
    BY <1>2, <1>3, <2>1 DEF Tick
<1>4. CASE Thread
  <2>1. CASE Dispatching
    <3>1. CASE Discard
      BY <2>1, <3>1, DiscardTimer DEF Discard
    <3>2. CASE BatteryStatus
      <4> DEFINE x == [Me EXCEPT !.g.isBatteryCharging =
                         Event = "evBatteryChargerConnected"]
      <4>1. x \in MeType /\ x.tmr = tmr /\ x.tag = ev["e_tmr"]
        BY MeInType DEF MeType, Flags, Me
      <4>2. /\ Becomes(setLedsStatus(x))
            /\ UNCHANGED <<st, pc, stay>>
        BY <3>2 DEF BatteryStatus, histVars
      <4> HIDE DEF x
      <4>3. setLedsStatus(x).tmr = tmr /\ setLedsStatus(x).tag = ev["e_tmr"]
        BY <4>1 DEF setLedsStatus, MeType
      <4>4. tmr' = tmr /\ ev'["e_tmr"] = ev["e_tmr"]
        BY <4>2, <4>3 DEF Becomes, TypeOK, EventObjs
      <4> QED
        BY <2>1, <4>2, <4>4, DiscardTimer
    <3> QED
      BY <1>4, <2>1, <3>1, <3>2, ThreadSplits, TransitionTimer, ReportTimer, ReplyTimer
  <2>2. CASE ~Dispatching
    <3>1. CASE IdleCommand
      <4>1. Posting \/ Halt
        <5>1. CASE queue' = queue
          <6>1. PICK c \in Commands :
                  IF Len(queue) < QSTO_SIZE THEN Post(c[1], c[2]) ELSE Halt
            BY <3>1 DEF IdleCommand
          <6>2. ~Post(c[1], c[2])
            <7>1. Len(Append(queue, c[1])) # Len(queue)
              BY DEF TypeOK
            <7> QED
              BY <5>1, <7>1 DEF Post
          <6> QED
            BY <6>1, <6>2
        <5> QED
          BY <1>4, <2>2, <5>1, ThreadQueue
      <4> QED
        BY <1>2, <4>1, PostTimer
    <3> QED
      BY <1>4, <2>2, <3>1, ThreadSplits, ResetTimer, MotionTimer, IdleTimer
  <2> QED
    BY <2>1, <2>2
<1> QED
  BY <1>2, <1>3, <1>4 DEF Next

\* The timer's invariant holds throughout.
LEMMA TimerInvariant == Spec => []TimerInv
<1>1. Init => TimerInv
  <2> SUFFICES ASSUME Init PROVE TimerInv
    OBVIOUS
  <2>1. /\ \A A, B : ~Has(queue, A) /\ NoneBehind(queue, A, B)
        /\ tmr.ntick = 0 /\ pc = "reset" /\ stay = 0
    BY NothingIn DEF Init
  <2> QED
    BY <2>1 DEF TimerInv, OneCommandQueued, Counting, TimedOut, Fresh
<1>2. TypeOK /\ Agreement /\ Known /\ TimerInv /\ [Next]_vars => TimerInv'
  BY TimerStep DEF Known
<1> QED
  BY <1>1, <1>2, TypeCorrect, AgreementInvariant, KnownInvariant, PTL DEF Spec

(* In every reachable state the running timer's event carries the signal   *)
(* of the state the node is in, and no earlier timeout is queued.          *)
THEOREM TimerAgrees == Spec => []TimerAgreement
<1>1. TimerInv => TimerAgreement
  <2> SUFFICES ASSUME TimerInv PROVE TimerAgreement
    OBVIOUS
  <2>1. /\ NoneBehind(queue, {"e_tmr"}, {"e_tmr"})
        /\ Counting
    BY DEF TimerInv, TimedOut
  <2>2. ASSUME NEW i \in 1 .. Len(queue), NEW j \in 1 .. Len(queue),
               queue[i] = "e_tmr", queue[j] = "e_tmr"
        PROVE  i = j
    <3>1. ~(i < j) /\ ~(j < i)
      BY <2>1, <2>2 DEF NoneBehind
    <3> QED
      BY <2>2, <3>1
  <2> QED
    BY <2>1, <2>2 DEF Counting, Has, TimerAgreement
<1> QED
  BY <1>1, TimerInvariant, PTL

\* The transition that leaves a timed state by its timeout.
LEMMA LeavesInTime ==
  ASSUME TypeOK, Agreement, Tagged, TimerInv, [Next]_vars, st' # st
  PROVE  /\ st = "unlinked" /\ st' = "hidden" => stay = UNLINKED_TIMEOUT
         /\ st = "motionDetect" => stay = MOTION_DET_TIME
<1>1. CASE Transition
  <2>1. Dispatching
    BY <1>1 DEF Transition
  <2>2. CASE Event \in {"evUnlikedTout", "evMotionIndicatorTout"}
    <3>1. Head(queue) = "e_tmr"
      BY <2>1, <2>2, GetTimer
      DEF ContentsOf, EventObjs, BatterySignals, CfgPayloads, FitnessPayloads
    <3>2. Has(queue, {"e_tmr"})
      BY <2>1, <3>1, GetTimer
    <3> QED
      BY <3>2 DEF TimerInv, TimedOut, HideQueued
  <2>3. CASE Event \notin {"evUnlikedTout", "evMotionIndicatorTout"}
    BY <1>1, <2>3, TransitionEffect DEF Moves
  <2> QED
    BY <2>2, <2>3
<1>2. CASE ~Transition
  <2>1. CASE UNCHANGED vars \/ Tick
    BY <2>1 DEF vars, Tick, Handle, Halt
  <2>2. CASE Thread
    <3>1. CASE ReportSent
      BY <3>1 DEF ReportSent, Agreement, ModeAgreement
    <3>2. CASE ~ReportSent
      BY <1>2, <2>2, <3>2
      DEF Thread, Discard, ResetDone, ReportByButton, BatteryStatus, Reply,
          ReplySent, IdlePoll, IdleReturn, IdleCommand, Post, Halt
    <3> QED
      BY <3>1, <3>2
  <2> QED
    BY <2>1, <2>2 DEF Next
<1> QED
  BY <1>1, <1>2

(* A node goes into hiding only after advertising for the whole            *)
(* UNLINKED_TIMEOUT since it last entered unlinked.                        *)
THEOREM HidesInTime == Spec => HidesAfterTimeout
<1>1. TypeOK /\ Agreement /\ Known /\ TimerInv /\ [Next]_vars =>
        [st = "unlinked" /\ st' = "hidden" => stay = UNLINKED_TIMEOUT]_vars
  BY LeavesInTime DEF Known
<1> QED
  BY <1>1, TypeCorrect, AgreementInvariant, KnownInvariant, TimerInvariant, PTL
  DEF Spec, HidesAfterTimeout

(* An indication of motion lasts MOTION_DET_TIME, no less.                 *)
THEOREM IndicationIsFull == Spec => IndicatesInFull
<1>1. TypeOK /\ Agreement /\ Known /\ TimerInv /\ [Next]_vars =>
        [st = "motionDetect" /\ st' # "motionDetect" => stay = MOTION_DET_TIME]_vars
  BY LeavesInTime DEF Known
<1> QED
  BY <1>1, TypeCorrect, AgreementInvariant, KnownInvariant, TimerInvariant, PTL
  DEF Spec, IndicatesInFull

-----------------------------------------------------------------------------
(* The queue's four slots, and the event objects' single contents.  Both   *)
(* hold because no source of events posts again before its last event was  *)
(* got from the queue: the queue then holds at most one event of the       *)
(* button, one of the link, one of the timer and one command.  For the     *)
(* button and the link that is a matter of time: the invariant bounds the  *)
(* ticks an event may still have to wait by the ticks in which its source  *)
(* cannot post.  The thread's waits are what makes an event wait: the rest *)
(* of the present one, and those the events ahead of it may begin.         *)

(* What the code's times must satisfy.  In ticks, a transmission takes 2   *)
(* at most, a reset 10; 8 samples make a press or a link, 32 the end of    *)
(* one, and 300 ticks make a press a long one.                             *)
Spacing ==
  /\ 2 * SEND_TICKS <= SetRun
  /\ 2 * SEND_TICKS + BLE_RESET_INTERVAL < FilterWidth
  /\ 2 * SEND_TICKS + BLE_RESET_INTERVAL < SetRun + SHORT2LONG_BUTT_TIME

(* Zeros and ones at the young end of a filter, the ones that may still    *)
(* become DEBOUNCE_SET_MASK.                                               *)
ZeroRun(l) == IF l.lvl = 0 THEN l.run ELSE 0
OneRun(l)  == IF l.lvl = 1 /\ l.run <= SetRun THEN l.run ELSE 0

(* The button, in state s with tout t and filter l, posts nothing for n    *)
(* ticks: an event ends a press, and a new press begins with SetRun ones   *)
(* and lasts until FilterWidth zeros or until it is long.                  *)
ButtonQuiet(s, t, l, n) ==
  /\ s = "stReleased" =>
       /\ n + OneRun(l) < SetRun + FilterWidth
       /\ n + OneRun(l) < SetRun + SHORT2LONG_BUTT_TIME
  /\ s = "stPress" => n < t /\ n + ZeroRun(l) < FilterWidth
  /\ s = "stLongPress" =>
       n < SetRun + FilterWidth /\ n < SetRun + SHORT2LONG_BUTT_TIME

(* The link, in state s with filter l, does not change for n ticks.        *)
BleQuiet(s, l, n) ==
  /\ s = "stConnected" => n + ZeroRun(l) < FilterWidth
  /\ s = "stDisconnected" => n + OneRun(l) < SetRun

(* n ticks, if in q one of A is ahead of o.                                *)
Ahead(q, A, o, n) == IF NoneBehind(q, A, {o}) THEN 0 ELSE n

(* The states from which an event of the queue can lead to a wait other    *)
(* than a reply without an event of the link before it.                    *)
Linkable == st \in {"linked", "motionDetect"}

(* The ticks an event of the button may still wait, and a report's more:   *)
(* its transmission may follow.                                            *)
ButtonCost ==
  left + SEND_TICKS + Ahead(queue, CommandObjs, "e_pushbutton", SEND_TICKS)
    + (IF Linkable THEN Ahead(queue, {"e_ble"}, "e_pushbutton", BLE_RESET_INTERVAL)
                   ELSE 0)

(* Those an event of the link may.  A reset is not counted when the link   *)
(* is down, since it keeps it down.                                        *)
BleCost ==
  IF sm.ble = "stConnected"
  THEN left + Ahead(queue, CommandObjs, "e_ble", SEND_TICKS)
         + Ahead(queue, {"e_pushbutton"}, "e_ble", SEND_TICKS + BLE_RESET_INTERVAL)
  ELSE (IF pc = "reset" THEN 0 ELSE left)
         + Ahead(queue, CommandObjs, "e_ble", SEND_TICKS)
         + (IF Linkable THEN Ahead(queue, {"e_pushbutton"}, "e_ble", SEND_TICKS)
                        ELSE 0)

WaitsBounded ==
  /\ pc = "sched" => left = 0
  /\ pc = "idle" => left <= 1
  /\ pc \in {"reply", "report"} => left <= SEND_TICKS
  /\ pc = "reset" => left <= BLE_RESET_INTERVAL

ButtonSpaced ==
  /\ NoneBehind(queue, {"e_pushbutton"}, {"e_pushbutton"})
  /\ Has(queue, {"e_pushbutton"}) =>
       ButtonQuiet(sm.button, tout, line["button"], ButtonCost)
  /\ pc = "report" =>
       /\ ~Has(queue, {"e_pushbutton"})
       /\ ButtonQuiet(sm.button, tout, line["button"], left)

BleSpaced ==
  /\ NoneBehind(queue, {"e_ble"}, {"e_ble"})
  /\ Has(queue, {"e_ble"}) => BleQuiet(sm.ble, line["ble"], BleCost)

Spaced == WaitsBounded /\ ButtonSpaced /\ BleSpaced

\* The times are numbers.
LEMMA Times ==
  /\ SEND_TICKS \in Nat
  /\ BLE_RESET_INTERVAL \in Nat \ {0}
  /\ SHORT2LONG_BUTT_TIME \in Nat \ {0}
OBVIOUS

\* What a sample does to the runs.
LEMMA RunsGrow ==
  ASSUME NEW l \in Line, NEW b \in Bit
  PROVE  /\ ZeroRun(l) \in Nat /\ OneRun(l) \in Nat
         /\ ZeroRun(Shift(l, b)) \in Nat /\ OneRun(Shift(l, b)) \in Nat
         /\ ZeroRun(Shift(l, b)) <= ZeroRun(l) + 1
         /\ OneRun(Shift(l, b)) <= OneRun(l) + 1
         /\ b = 0 => OneRun(Shift(l, b)) = 0
         /\ b = 1 => ZeroRun(Shift(l, b)) = 0
         /\ IsSet(Shift(l, b)) => b = 1 /\ OneRun(l) + 1 >= SetRun
         /\ IsUnset(Shift(l, b)) => b = 0 /\ ZeroRun(l) + 1 >= FilterWidth
<1>1. l.lvl \in {0, 1} /\ l.run \in Nat /\ b \in {0, 1}
  BY DEF Line, Bit
<1>2. ASSUME NEW d, d = Shift(l, b)
      PROVE  /\ d.lvl = b
             /\ b = l.lvl /\ b = 0 => d.run = Longer(l.run, FilterWidth)
             /\ b = l.lvl /\ b = 1 => d.run = Longer(l.run, TooLong)
             /\ b # l.lvl => d.run = 1 \/ (b = 1 /\ d.run = TooLong)
  BY <1>1, <1>2 DEF Shift
<1> DEFINE d == Shift(l, b)
<1>3. /\ d.lvl = b
      /\ b = l.lvl /\ b = 0 => d.run = Longer(l.run, FilterWidth)
      /\ b = l.lvl /\ b = 1 => d.run = Longer(l.run, TooLong)
      /\ b # l.lvl => d.run = 1 \/ (b = 1 /\ d.run = TooLong)
  BY <1>2
<1> HIDE DEF d
<1>4. ZeroRun(l) \in Nat /\ OneRun(l) \in Nat
  BY <1>1 DEF ZeroRun, OneRun
<1> DEFINE Grown ==
      /\ ZeroRun(d) \in Nat /\ OneRun(d) \in Nat
      /\ ZeroRun(d) <= ZeroRun(l) + 1 /\ OneRun(d) <= OneRun(l) + 1
      /\ b = 0 => OneRun(d) = 0
      /\ b = 1 => ZeroRun(d) = 0
      /\ IsSet(d) => b = 1 /\ OneRun(l) + 1 >= SetRun
      /\ IsUnset(d) => b = 0 /\ ZeroRun(l) + 1 >= FilterWidth
<1>5. ASSUME b = 0 PROVE Grown
  BY <1>1, <1>3, <1>5 DEF ZeroRun, OneRun, IsSet, IsUnset, Longer
<1>6. ASSUME b = 1 PROVE Grown
  BY <1>1, <1>3, <1>6 DEF ZeroRun, OneRun, IsSet, IsUnset, Longer, TooLong
<1>7. Grown
  BY <1>1, <1>5, <1>6
<1> QED
  BY <1>4, <1>7 DEF d

\* Quiet for longer is quiet.
LEMMA QuietLess ==
  ASSUME NEW s, NEW t \in Nat, NEW l \in Line, NEW n \in Nat, NEW m \in Nat, m <= n
  PROVE  /\ ButtonQuiet(s, t, l, n) => ButtonQuiet(s, t, l, m)
         /\ BleQuiet(s, l, n) => BleQuiet(s, l, m)
<1>1. ZeroRun(l) \in Nat /\ OneRun(l) \in Nat
  BY DEF ZeroRun, OneRun, Line
<1> QED
  BY <1>1 DEF ButtonQuiet, BleQuiet

\* A tick finds the button quiet, or leaves it so.
LEMMA ButtonTick ==
  ASSUME TypeOK, NEW b \in Bit, NEW d, d = Shift(line["button"], b), NEW n \in Nat
  PROVE  /\ ButtonQuiet(sm.button, tout, line["button"], n + 1) =>
              /\ ButtonPost(d) = Nothing
              /\ ButtonQuiet(ButtonNext(d), ToutNext(d), d, n)
         /\ ButtonPost(d) # Nothing =>
              (n < SetRun + FilterWidth /\ n < SetRun + SHORT2LONG_BUTT_TIME
                => ButtonQuiet(ButtonNext(d), ToutNext(d), d, n))
<1> DEFINE l == line["button"]
<1>1. /\ sm.button \in {"stReleased", "stPress", "stLongPress"}
      /\ tout \in Nat /\ l \in Line
  BY DEF TypeOK, Inputs
<1> HIDE DEF l
<1>2. /\ ZeroRun(l) \in Nat /\ OneRun(l) \in Nat
      /\ ZeroRun(d) \in Nat /\ OneRun(d) \in Nat
      /\ ZeroRun(d) <= ZeroRun(l) + 1 /\ OneRun(d) <= OneRun(l) + 1
      /\ b = 0 => OneRun(d) = 0
      /\ b = 1 => ZeroRun(d) = 0
      /\ IsSet(d) => b = 1 /\ OneRun(l) + 1 >= SetRun
      /\ IsUnset(d) => b = 0 /\ ZeroRun(l) + 1 >= FilterWidth
  BY <1>1, RunsGrow DEF l
<1>3. CASE sm.button = "stReleased" /\ ~IsSet(d)
  <2>1. ButtonPost(d) = Nothing /\ ButtonNext(d) = "stReleased"
    BY <1>3 DEF ButtonPost, ButtonNext, Nothing
  <2> QED
    BY <1>2, <1>3, <2>1, Times DEF ButtonQuiet, l
<1>4. CASE sm.button = "stReleased" /\ IsSet(d)
  <2>1. /\ ButtonPost(d) = Nothing /\ ButtonNext(d) = "stPress"
        /\ ToutNext(d) = SHORT2LONG_BUTT_TIME
    BY <1>4 DEF ButtonPost, ButtonNext, ToutNext, Nothing
  <2> QED
    BY <1>2, <1>4, <2>1, Times DEF ButtonQuiet, l
<1>5. CASE sm.button = "stPress" /\ IsUnset(d)
  <2>1. /\ ButtonPost(d) = "evPushbuttonShortPress" /\ ButtonNext(d) = "stReleased"
    BY <1>5 DEF ButtonPost, ButtonNext
  <2>2. ~ButtonQuiet(sm.button, tout, line["button"], n + 1)
    BY <1>2, <1>5 DEF ButtonQuiet, l
  <2> QED
    BY <1>2, <1>5, <2>1, <2>2, Times DEF ButtonQuiet
<1>6. CASE sm.button = "stPress" /\ ~IsUnset(d) /\ tout = 1
  <2>1. /\ ButtonPost(d) = "evPushbuttonLongPress" /\ ButtonNext(d) = "stLongPress"
    BY <1>6 DEF ButtonPost, ButtonNext
  <2>2. ~ButtonQuiet(sm.button, tout, line["button"], n + 1)
    BY <1>2, <1>6 DEF ButtonQuiet
  <2> QED
    BY <2>1, <2>2, Times DEF ButtonQuiet
<1>7. CASE sm.button = "stPress" /\ ~IsUnset(d) /\ tout # 1
  <2>1. /\ ButtonPost(d) = Nothing /\ ButtonNext(d) = "stPress"
        /\ tout > 0 => ToutNext(d) = tout - 1
    BY <1>7 DEF ButtonPost, ButtonNext, ToutNext, Nothing
  <2> QED
    BY <1>1, <1>2, <1>7, <2>1, Times DEF ButtonQuiet, l
<1>8. CASE sm.button = "stLongPress"
  <2>1. /\ ButtonPost(d) = Nothing
        /\ ButtonNext(d) = IF IsUnset(d) THEN "stReleased" ELSE "stLongPress"
    BY <1>8 DEF ButtonPost, ButtonNext, Nothing
  <2> QED
    BY <1>1, <1>2, <1>8, <2>1, Times DEF ButtonQuiet, l
<1> QED
  BY <1>1, <1>3, <1>4, <1>5, <1>6, <1>7, <1>8

\* The same of the link.
LEMMA BleTick ==
  ASSUME TypeOK, NEW b \in Bit, NEW d, d = Shift(line["ble"], b), NEW n \in Nat
  PROVE  /\ BleQuiet(sm.ble, line["ble"], n + 1) =>
              /\ BlePost(d) = Nothing /\ BleNext(d) = sm.ble
              /\ BleQuiet(BleNext(d), d, n)
         /\ sm.ble = "stDisconnected" /\ b = 0 =>
              /\ BlePost(d) = Nothing /\ BleNext(d) = sm.ble
              /\ BleQuiet(sm.ble, line["ble"], n) => BleQuiet(BleNext(d), d, n)
         /\ BlePost(d) # Nothing =>
              \/ /\ BleNext(d) = "stConnected" /\ b = 1
                 /\ n < FilterWidth => BleQuiet(BleNext(d), d, n)
              \/ /\ BleNext(d) = "stDisconnected"
                 /\ n < SetRun => BleQuiet(BleNext(d), d, n)
<1> DEFINE l == line["ble"]
<1>1. /\ sm.ble \in {"stDisconnected", "stConnected"}
      /\ l \in Line
  BY DEF TypeOK, Inputs
<1> HIDE DEF l
<1>2. /\ ZeroRun(l) \in Nat /\ OneRun(l) \in Nat
      /\ ZeroRun(d) \in Nat /\ OneRun(d) \in Nat
      /\ ZeroRun(d) <= ZeroRun(l) + 1 /\ OneRun(d) <= OneRun(l) + 1
      /\ b = 0 => OneRun(d) = 0
      /\ b = 1 => ZeroRun(d) = 0
      /\ IsSet(d) => b = 1 /\ OneRun(l) + 1 >= SetRun
      /\ IsUnset(d) => b = 0 /\ ZeroRun(l) + 1 >= FilterWidth
  BY <1>1, RunsGrow DEF l
<1>3. CASE sm.ble = "stConnected"
  <2>1. /\ BlePost(d) = IF IsUnset(d) THEN "evDisconnected" ELSE Nothing
        /\ IsUnset(d) => BleNext(d) = "stDisconnected"
        /\ ~IsUnset(d) => BleNext(d) = "stConnected"
    BY <1>2, <1>3 DEF BlePost, BleNext
  <2> QED
    BY <1>2, <1>3, <2>1 DEF BleQuiet, l
<1>4. CASE sm.ble = "stDisconnected"
  <2>1. /\ BlePost(d) = IF IsSet(d) THEN "evConnected" ELSE Nothing
        /\ IsSet(d) => BleNext(d) = "stConnected"
        /\ ~IsSet(d) => BleNext(d) = "stDisconnected"
    BY <1>2, <1>4 DEF BlePost, BleNext
  <2> QED
    BY <1>2, <1>4, <2>1 DEF BleQuiet, l
<1> QED
  BY <1>1, <1>3, <1>4

\* The order a tick's posts leave, as far as it matters here.
LEMMA TickOrder ==
  ASSUME TypeOK, NEW p
  PROVE  /\ Has(After(p), {"e_pushbutton"}) <=>
              Has(queue, {"e_pushbutton"}) \/ p["e_pushbutton"] # Nothing
         /\ Has(After(p), {"e_ble"}) <=> Has(queue, {"e_ble"}) \/ p["e_ble"] # Nothing
         /\ p["e_pushbutton"] = Nothing =>
              \A A : NoneBehind(queue, A, {"e_pushbutton"}) =>
                       NoneBehind(After(p), A, {"e_pushbutton"})
         /\ p["e_ble"] = Nothing =>
              \A A : NoneBehind(queue, A, {"e_ble"}) =>
                       NoneBehind(After(p), A, {"e_ble"})
         /\ ~Has(queue, {"e_pushbutton"}) =>
              NoneBehind(After(p), {"e_pushbutton"}, {"e_pushbutton"})
         /\ ~Has(queue, {"e_ble"}) => NoneBehind(After(p), {"e_ble"}, {"e_ble"})
         /\ ~Has(queue, {"e_pushbutton"}) /\ p["e_pushbutton"] = Nothing =>
              NoneBehind(After(p), {"e_pushbutton"}, {"e_ble"})
         /\ ~Has(queue, CommandObjs) =>
              /\ NoneBehind(After(p), CommandObjs, {"e_pushbutton"})
              /\ NoneBehind(After(p), CommandObjs, {"e_ble"})
<1>1. \A A, B : ~Has(queue, A) => NoneBehind(queue, A, B)
  BY DEF Has, NoneBehind
<1>2. /\ Has(After(p), {"e_pushbutton"}) <=>
           Has(queue, {"e_pushbutton"}) \/ p["e_pushbutton"] # Nothing
      /\ Has(After(p), {"e_ble"}) <=> Has(queue, {"e_ble"}) \/ p["e_ble"] # Nothing
  BY TickAdds
<1>3. \A A : p["e_pushbutton"] = Nothing /\ NoneBehind(queue, A, {"e_pushbutton"})
               => NoneBehind(After(p), A, {"e_pushbutton"})
  BY TickAdds
<1>4. \A A : p["e_ble"] = Nothing /\ NoneBehind(queue, A, {"e_ble"})
               => NoneBehind(After(p), A, {"e_ble"})
  BY TickAdds
<1>5. /\ ~Has(queue, {"e_pushbutton"}) =>
           NoneBehind(After(p), {"e_pushbutton"}, {"e_pushbutton"})
      /\ ~Has(queue, {"e_ble"}) => NoneBehind(After(p), {"e_ble"}, {"e_ble"})
      /\ ~Has(queue, {"e_pushbutton"}) /\ p["e_pushbutton"] = Nothing =>
           NoneBehind(After(p), {"e_pushbutton"}, {"e_ble"})
  BY <1>1, TickAdds
<1>6. ~Has(queue, CommandObjs) =>
        /\ NoneBehind(After(p), CommandObjs, {"e_pushbutton"})
        /\ NoneBehind(After(p), CommandObjs, {"e_ble"})
  BY <1>1, TickAdds DEF CommandObjs
<1> QED
  BY <1>2, <1>3, <1>4, <1>5, <1>6

\* Both costs are numbers of ticks.
LEMMA CostsType ==
  ASSUME TypeOK
  PROVE  /\ ButtonCost \in Nat /\ BleCost \in Nat
         /\ \A q, A, o : \A n \in Nat : Ahead(q, A, o, n) \in 0 .. n
<1>1. /\ left \in Nat
      /\ \A q, A, o : \A n \in Nat : Ahead(q, A, o, n) \in 0 .. n
  BY DEF TypeOK, Ahead
<1>2. \A q, A, o : /\ Ahead(q, A, o, SEND_TICKS) \in Nat
                   /\ Ahead(q, A, o, BLE_RESET_INTERVAL) \in Nat
                   /\ Ahead(q, A, o, SEND_TICKS + BLE_RESET_INTERVAL) \in Nat
  BY Times DEF Ahead
<1>3. ButtonCost \in Nat
  BY <1>1, <1>2, Times DEF ButtonCost
<1>4. BleCost \in Nat
  BY <1>1, <1>2, Times DEF BleCost
<1> QED
  BY <1>1, <1>3, <1>4

\* The wait and the cost of an event ahead, over a tick that posts nothing
\* on the object: neither grows, and the wait is a tick shorter.
LEMMA AheadFalls ==
  ASSUME NEW q, NEW r, NEW A, NEW o, NEW n \in Nat,
         NoneBehind(q, A, {o}) => NoneBehind(r, A, {o})
  PROVE  Ahead(r, A, o, n) <= Ahead(q, A, o, n)
BY DEF Ahead

\* A tick posts on no object that is queued, and none of the button while
\* a report goes out.
LEMMA TickHolds ==
  ASSUME TypeOK, Agreement, Spaced, MayTick, NEW s \in [Inputs -> Bit], Sampled(s),
         NEW d, d = [i \in Inputs |-> Shift(line[i], s[i])]
  PROVE  /\ Has(queue, {"e_pushbutton"}) \/ pc = "report" =>
              ButtonPost(d["button"]) = Nothing
         /\ Has(queue, {"e_ble"}) => BlePost(d["ble"]) = Nothing
<1>1. /\ d["button"] = Shift(line["button"], s["button"]) /\ s["button"] \in Bit
      /\ d["ble"] = Shift(line["ble"], s["ble"]) /\ s["ble"] \in Bit
  BY DEF Inputs
<1>2. ButtonCost \in Nat /\ BleCost \in Nat /\ left \in Nat
  BY CostsType DEF TypeOK
<1>3. \A n \in Nat :
        /\ ButtonQuiet(sm.button, tout, line["button"], n + 1) =>
             ButtonPost(d["button"]) = Nothing
        /\ BleQuiet(sm.ble, line["ble"], n + 1) => BlePost(d["ble"]) = Nothing
        /\ sm.ble = "stDisconnected" /\ s["ble"] = 0 => BlePost(d["ble"]) = Nothing
  BY <1>1, ButtonTick, BleTick
<1>4. /\ Has(queue, {"e_pushbutton"}) \/ Has(queue, {"e_ble"}) => left > 0
      /\ pc = "report" => left > 0
  BY NothingIn DEF MayTick
<1>5. ASSUME Has(queue, {"e_pushbutton"}) \/ pc = "report"
      PROVE  ButtonPost(d["button"]) = Nothing
  <2>1. PICK m \in Nat : m > 0 /\ ButtonQuiet(sm.button, tout, line["button"], m)
    <3>1. ButtonCost >= left
      BY <1>2, CostsType, Times DEF ButtonCost, Ahead
    <3> QED
      BY <1>2, <1>4, <1>5, <3>1 DEF Spaced, ButtonSpaced
  <2>2. m - 1 \in Nat /\ (m - 1) + 1 = m
    BY <2>1
  <2> QED
    BY <1>3, <2>1, <2>2
<1>6. ASSUME Has(queue, {"e_ble"}) PROVE BlePost(d["ble"]) = Nothing
  <2>1. BleQuiet(sm.ble, line["ble"], BleCost)
    BY <1>6 DEF Spaced, BleSpaced
  <2>2. CASE sm.ble = "stDisconnected" /\ pc = "reset"
    <3>1. s["ble"] = 0
      BY <2>2 DEF Agreement, RadioAgreement, Sampled
    <3> QED
      BY <1>3, <2>2, <3>1
  <2>3. CASE ~(sm.ble = "stDisconnected" /\ pc = "reset")
    <3>1. BleCost >= left
      <4>1. sm.ble \in {"stDisconnected", "stConnected"}
        BY DEF TypeOK
      <4> QED
        BY <1>2, <2>3, <4>1, CostsType, Times DEF BleCost, Ahead
    <3>2. BleCost - 1 \in Nat /\ (BleCost - 1) + 1 = BleCost
      BY <1>2, <1>4, <1>6, <3>1
    <3> QED
      BY <1>3, <2>1, <3>2
  <2> QED
    BY <2>2, <2>3
<1> QED
  BY <1>5, <1>6

(* A tick, on the queue and the costs.                                     *)
LEMMA TickButton ==
  ASSUME TypeOK, Agreement, TimerInv, Spaced, Spacing, MayTick,
         NEW b \in Bit, NEW d, d["button"] = Shift(line["button"], b),
         Handle(d, Posts(d))
  PROVE  ButtonSpaced'
<1> DEFINE p == Posts(d)
           l == d["button"]
<1>1. /\ queue' = After(p) /\ UNCHANGED <<st, pc>>
      /\ left' = IF pc = "sched" THEN 0 ELSE left - 1
      /\ sm'.button = ButtonNext(l) /\ tout' = ToutNext(l) /\ line'["button"] = l
  BY DEF Handle
<1>2. p["e_pushbutton"] = ButtonPost(l)
  BY DEF Posts
<1>3. /\ left \in Nat
      /\ pc = "sched" => queue = <<>> /\ left = 0
      /\ pc # "sched" => left > 0
      /\ pc \in {"sched", "idle", "reset", "reply", "report"}
  BY DEF TypeOK, MayTick, Spaced, WaitsBounded
<1>4. \A n \in Nat :
        /\ ButtonQuiet(sm.button, tout, line["button"], n + 1) =>
             /\ ButtonPost(l) = Nothing
             /\ ButtonQuiet(ButtonNext(l), ToutNext(l), l, n)
        /\ ButtonPost(l) # Nothing =>
             (n < SetRun + FilterWidth /\ n < SetRun + SHORT2LONG_BUTT_TIME
               => ButtonQuiet(ButtonNext(l), ToutNext(l), l, n))
  BY ButtonTick
<1> HIDE DEF p, l
<1>5. /\ Has(queue', {"e_pushbutton"}) <=>
           Has(queue, {"e_pushbutton"}) \/ p["e_pushbutton"] # Nothing
      /\ p["e_pushbutton"] = Nothing =>
           \A A : NoneBehind(queue, A, {"e_pushbutton"}) =>
                    NoneBehind(queue', A, {"e_pushbutton"})
      /\ ~Has(queue, {"e_pushbutton"}) =>
           NoneBehind(queue', {"e_pushbutton"}, {"e_pushbutton"})
      /\ ~Has(queue, CommandObjs) => NoneBehind(queue', CommandObjs, {"e_pushbutton"})
  BY <1>1, TickOrder
<1>6. CASE Has(queue, {"e_pushbutton"})
  <2>1. pc # "sched" /\ left' = left - 1 /\ left - 1 \in Nat
    BY <1>1, <1>3, <1>6, NothingIn
  <2> DEFINE rest == SEND_TICKS + Ahead(queue, CommandObjs, "e_pushbutton", SEND_TICKS)
                 + (IF Linkable THEN Ahead(queue, {"e_ble"}, "e_pushbutton", BLE_RESET_INTERVAL)
                                ELSE 0)
             n == left - 1 + rest
  <2>2. rest \in Nat
    <3>1. \A A : /\ Ahead(queue, A, "e_pushbutton", SEND_TICKS) \in Nat
                 /\ Ahead(queue, A, "e_pushbutton", BLE_RESET_INTERVAL) \in Nat
      BY Times DEF Ahead
    <3> QED
      BY <3>1, Times
  <2>3. ButtonCost = left + rest
    <3>1. \A A : /\ Ahead(queue, A, "e_pushbutton", SEND_TICKS) \in Nat
                 /\ Ahead(queue, A, "e_pushbutton", BLE_RESET_INTERVAL) \in Nat
      BY Times DEF Ahead
    <3> QED
      BY <1>3, <3>1, Times DEF ButtonCost
  <2> HIDE DEF rest
  <2>4. ButtonQuiet(sm.button, tout, line["button"], n + 1) /\ n \in Nat
    <3>1. n + 1 = ButtonCost /\ n \in Nat
      BY <1>3, <2>1, <2>2, <2>3
    <3> QED
      BY <1>6, <3>1 DEF Spaced, ButtonSpaced
  <2>5. ButtonPost(l) = Nothing /\ ButtonQuiet(sm'.button, tout', line'["button"], n)
    BY <1>1, <1>4, <2>4
  <2>6. ButtonCost' <= n /\ ButtonCost' \in Nat
    <3>1. \A A : NoneBehind(queue, A, {"e_pushbutton"}) =>
                   NoneBehind(queue', A, {"e_pushbutton"})
      BY <1>2, <1>5, <2>5
    <3> DEFINE a == Ahead(queue, CommandObjs, "e_pushbutton", SEND_TICKS)
               a1 == Ahead(queue', CommandObjs, "e_pushbutton", SEND_TICKS)
               c == Ahead(queue, {"e_ble"}, "e_pushbutton", BLE_RESET_INTERVAL)
               c1 == Ahead(queue', {"e_ble"}, "e_pushbutton", BLE_RESET_INTERVAL)
    <3>2. a1 <= a /\ c1 <= c
      BY <3>1, Times, AheadFalls
    <3>3. a1 \in Nat /\ a \in Nat /\ c1 \in Nat /\ c \in Nat
      BY Times DEF Ahead
    <3>4. /\ rest = SEND_TICKS + a + (IF Linkable THEN c ELSE 0)
          /\ ButtonCost' = left - 1 + SEND_TICKS + a1 + (IF Linkable THEN c1 ELSE 0)
      BY <1>1, <2>1 DEF rest, ButtonCost, Linkable
    <3> HIDE DEF a, a1, c, c1
    <3>5. CASE Linkable
      BY <2>1, <3>2, <3>3, <3>4, <3>5, Times
    <3>6. CASE ~Linkable
      BY <2>1, <3>2, <3>3, <3>4, <3>6, Times
    <3> QED
      BY <3>5, <3>6
  <2>7. line'["button"] \in Line /\ tout' \in Nat
    BY <1>1, ShiftType DEF TypeOK, ToutNext, l, Inputs
  <2> QED
    BY <1>1, <1>2, <1>5, <1>6, <2>4, <2>5, <2>6, <2>7, QuietLess
    DEF Spaced, ButtonSpaced, p
<1>7. CASE pc = "report"
  <2>1. /\ ~Has(queue, {"e_pushbutton"})
        /\ ButtonQuiet(sm.button, tout, line["button"], (left - 1) + 1)
        /\ left - 1 \in Nat /\ left' = left - 1
    BY <1>1, <1>3, <1>7 DEF Spaced, ButtonSpaced
  <2>2. ButtonPost(l) = Nothing /\ ButtonQuiet(sm'.button, tout', line'["button"], left')
    BY <1>1, <1>4, <2>1
  <2> QED
    BY <1>1, <1>2, <1>5, <2>1, <2>2 DEF ButtonSpaced, p
<1>8. CASE pc # "report" /\ ~Has(queue, {"e_pushbutton"})
  <2>1. CASE ButtonPost(l) = Nothing
    BY <1>1, <1>2, <1>5, <1>8, <2>1 DEF ButtonSpaced, p
  <2>2. CASE ButtonPost(l) # Nothing
    <3> DEFINE a1 == Ahead(queue', CommandObjs, "e_pushbutton", SEND_TICKS)
               c1 == Ahead(queue', {"e_ble"}, "e_pushbutton", BLE_RESET_INTERVAL)
    <3>1. /\ a1 \in 0 .. SEND_TICKS /\ c1 \in 0 .. BLE_RESET_INTERVAL
          /\ NoneBehind(queue', CommandObjs, {"e_pushbutton"}) => a1 = 0
      BY Times DEF Ahead
    <3>2. ButtonCost' = left' + SEND_TICKS + a1 + (IF Linkable THEN c1 ELSE 0)
      BY <1>1 DEF ButtonCost, Linkable
    <3> DEFINE w == left'
               n == ButtonCost'
    <3>3. /\ w \in Nat
          /\ n = w + SEND_TICKS + a1 + (IF Linkable THEN c1 ELSE 0)
      BY <1>1, <1>3, <3>2
    <3> HIDE DEF a1, c1, w, n
    <3>4. /\ n \in Nat
          /\ n < SetRun + FilterWidth
          /\ n < SetRun + SHORT2LONG_BUTT_TIME
      <4>1. CASE pc \in {"sched", "idle"}
        <5>1. w = 0
          BY <1>1, <1>3, <4>1 DEF Spaced, WaitsBounded, w
        <5>2. n \in Nat /\ n <= 2 * SEND_TICKS + BLE_RESET_INTERVAL
          BY <3>1, <3>3, <5>1, Times
        <5> QED
          BY <5>2, Times DEF Spacing
      <4>2. CASE pc = "reply"
        <5>1. w + 1 <= SEND_TICKS
          BY <1>1, <1>3, <4>2, Times DEF Spaced, WaitsBounded, w
        <5>2. a1 = 0
          BY <1>5, <3>1, <4>2 DEF TimerInv, OneCommandQueued
        <5>3. n \in Nat /\ n + 1 <= 2 * SEND_TICKS + BLE_RESET_INTERVAL
          BY <3>1, <3>3, <5>1, <5>2, Times
        <5> QED
          BY <5>3, Times DEF Spacing
      <4>3. CASE pc = "reset"
        <5>1. w + 1 <= BLE_RESET_INTERVAL
          BY <1>1, <1>3, <4>3, Times DEF Spaced, WaitsBounded, w
        <5>2. ~Linkable
          BY <4>3 DEF Linkable, Agreement, ModeAgreement
        <5>3. n = w + SEND_TICKS + a1
          BY <3>1, <3>3, <5>2, Times
        <5>4. n \in Nat /\ n + 1 <= 2 * SEND_TICKS + BLE_RESET_INTERVAL
          BY <3>1, <3>3, <5>1, <5>3, Times
        <5> QED
          BY <5>4, Times DEF Spacing
      <4> QED
        BY <1>3, <1>8, <4>1, <4>2, <4>3
    <3>5. ButtonQuiet(sm'.button, tout', line'["button"], n)
      BY <1>1, <1>4, <2>2, <3>4
    <3> QED
      BY <1>1, <1>5, <1>8, <3>5 DEF ButtonSpaced, n
  <2> QED
    BY <2>1, <2>2
<1> QED
  BY <1>6, <1>7, <1>8 DEF p

\* The same for the link.
LEMMA TickBle ==
  ASSUME TypeOK, Agreement, TimerInv, Spaced, Spacing, MayTick,
         NEW s \in [Inputs -> Bit], Sampled(s),
         NEW d, d = [i \in Inputs |-> Shift(line[i], s[i])],
         Handle(d, Posts(d))
  PROVE  BleSpaced'
<1> DEFINE p == Posts(d)
           l == d["ble"]
<1>1. /\ queue' = After(p) /\ UNCHANGED <<st, pc>>
      /\ left' = IF pc = "sched" THEN 0 ELSE left - 1
      /\ sm'.ble = BleNext(l) /\ line'["ble"] = l
  BY DEF Handle
<1>2. p["e_ble"] = BlePost(l) /\ p["e_pushbutton"] = ButtonPost(d["button"])
  BY DEF Posts
<1>3. /\ left \in Nat
      /\ pc = "sched" => queue = <<>> /\ left = 0
      /\ pc # "sched" => left > 0
      /\ pc \in {"sched", "idle", "reset", "reply", "report"}
      /\ pc = "idle" => left <= 1
      /\ pc \in {"reply", "report"} => left <= SEND_TICKS
  BY DEF TypeOK, MayTick, Spaced, WaitsBounded
<1>4. /\ l = Shift(line["ble"], s["ble"]) /\ s["ble"] \in Bit
      /\ pc = "reset" => s["ble"] = 0
  BY DEF Inputs, Agreement, RadioAgreement, Sampled
<1>5. \A n \in Nat :
        /\ BleQuiet(sm.ble, line["ble"], n + 1) =>
             /\ BlePost(l) = Nothing /\ BleNext(l) = sm.ble
             /\ BleQuiet(BleNext(l), l, n)
        /\ sm.ble = "stDisconnected" /\ s["ble"] = 0 =>
             /\ BlePost(l) = Nothing /\ BleNext(l) = sm.ble
             /\ BleQuiet(sm.ble, line["ble"], n) => BleQuiet(BleNext(l), l, n)
        /\ BlePost(l) # Nothing =>
             \/ /\ BleNext(l) = "stConnected" /\ s["ble"] = 1
                /\ n < FilterWidth => BleQuiet(BleNext(l), l, n)
             \/ /\ BleNext(l) = "stDisconnected"
                /\ n < SetRun => BleQuiet(BleNext(l), l, n)
  BY <1>4, BleTick
<1>6. Has(queue, {"e_pushbutton"}) \/ pc = "report" => p["e_pushbutton"] = Nothing
  BY <1>2, TickHolds
<1>7. sm.ble \in {"stDisconnected", "stConnected"} /\ BleCost \in Nat
  BY CostsType DEF TypeOK
<1>8. l \in Line
  BY <1>4, ShiftType DEF TypeOK, Inputs
<1> HIDE DEF p, l
<1>9. /\ Has(queue', {"e_ble"}) <=> Has(queue, {"e_ble"}) \/ p["e_ble"] # Nothing
      /\ p["e_ble"] = Nothing =>
           \A A : NoneBehind(queue, A, {"e_ble"}) => NoneBehind(queue', A, {"e_ble"})
      /\ ~Has(queue, {"e_ble"}) => NoneBehind(queue', {"e_ble"}, {"e_ble"})
      /\ ~Has(queue, {"e_pushbutton"}) /\ p["e_pushbutton"] = Nothing =>
           NoneBehind(queue', {"e_pushbutton"}, {"e_ble"})
      /\ ~Has(queue, CommandObjs) => NoneBehind(queue', CommandObjs, {"e_ble"})
  BY <1>1, TickOrder
<1> DEFINE c  == Ahead(queue, CommandObjs, "e_ble", SEND_TICKS)
           c1 == Ahead(queue', CommandObjs, "e_ble", SEND_TICKS)
           k  == Ahead(queue, {"e_pushbutton"}, "e_ble", SEND_TICKS + BLE_RESET_INTERVAL)
           k1 == Ahead(queue', {"e_pushbutton"}, "e_ble", SEND_TICKS + BLE_RESET_INTERVAL)
           a  == Ahead(queue, {"e_pushbutton"}, "e_ble", SEND_TICKS)
           a1 == Ahead(queue', {"e_pushbutton"}, "e_ble", SEND_TICKS)
<1>10. /\ c \in 0 .. SEND_TICKS /\ c1 \in 0 .. SEND_TICKS
       /\ a \in 0 .. SEND_TICKS /\ a1 \in 0 .. SEND_TICKS
       /\ k \in 0 .. (SEND_TICKS + BLE_RESET_INTERVAL)
       /\ k1 \in 0 .. (SEND_TICKS + BLE_RESET_INTERVAL)
       /\ ~Has(queue, CommandObjs) => c1 = 0
       /\ ~Has(queue, {"e_pushbutton"}) /\ p["e_pushbutton"] = Nothing => a1 = 0 /\ k1 = 0
  BY <1>9, Times DEF Ahead
<1>11. /\ sm.ble = "stConnected" => BleCost = left + c + k
       /\ sm.ble = "stDisconnected" =>
            BleCost = (IF pc = "reset" THEN 0 ELSE left) + c + (IF Linkable THEN a ELSE 0)
       /\ sm'.ble = "stConnected" => BleCost' = left' + c1 + k1
       /\ sm'.ble = "stDisconnected" =>
            BleCost' = (IF pc = "reset" THEN 0 ELSE left') + c1 + (IF Linkable THEN a1 ELSE 0)
  BY <1>1 DEF BleCost, Linkable
<1>12. ASSUME p["e_ble"] = Nothing PROVE c1 <= c /\ k1 <= k /\ a1 <= a
  <2>1. SEND_TICKS + BLE_RESET_INTERVAL \in Nat
    BY Times
  <2>2. c1 <= c
    BY <1>9, <1>12, Times, AheadFalls
  <2>3. k1 <= k
    BY <1>9, <1>12, <2>1, AheadFalls
  <2>4. a1 <= a
    BY <1>9, <1>12, Times, AheadFalls
  <2> QED
    BY <2>2, <2>3, <2>4
<1>13. left' \in Nat /\ (pc # "sched" => left' = left - 1)
  BY <1>1, <1>3
<1> HIDE DEF c, c1, k, k1, a, a1
<1>14. CASE Has(queue, {"e_ble"})
  <2>1. p["e_ble"] = Nothing
    BY <1>2, <1>14, TickHolds DEF l
  <2>2. BleQuiet(sm.ble, line["ble"], BleCost) /\ NoneBehind(queue, {"e_ble"}, {"e_ble"})
    BY <1>14 DEF Spaced, BleSpaced
  <2>3. pc # "sched" /\ left > 0
    BY <1>3, <1>14, NothingIn
  <2>4. BleQuiet(sm'.ble, line'["ble"], BleCost')
    <3>1. CASE sm.ble = "stDisconnected" /\ pc = "reset"
      <4>1. s["ble"] = 0
        BY <1>4, <3>1
      <4>2. /\ sm'.ble = "stDisconnected"
            /\ BleQuiet(sm'.ble, line'["ble"], BleCost)
        BY <1>1, <1>5, <1>7, <2>2, <3>1, <4>1
      <4>3. BleCost' \in Nat /\ BleCost' <= BleCost
        BY <1>10, <1>11, <1>12, <2>1, <3>1, <4>2, Times
      <4> QED
        BY <1>1, <1>7, <1>8, <4>2, <4>3, QuietLess
    <3>2. CASE ~(sm.ble = "stDisconnected" /\ pc = "reset")
      <4> DEFINE n == BleCost - 1
      <4>1. BleCost >= left
        BY <1>3, <1>7, <1>10, <1>11, <3>2, Times
      <4>2. n \in Nat /\ n + 1 = BleCost
        BY <1>3, <1>7, <2>3, <4>1
      <4> HIDE DEF n
      <4>3. sm'.ble = sm.ble /\ BleQuiet(sm'.ble, line'["ble"], n)
        BY <1>1, <1>5, <2>2, <4>2
      <4>4. BleCost' \in Nat /\ BleCost' <= n
        <5>1. CASE sm.ble = "stConnected"
          <6>1. /\ BleCost = left + c + k /\ BleCost' = left' + c1 + k1
                /\ c1 <= c /\ k1 <= k /\ left' = left - 1
            BY <1>11, <1>12, <1>13, <2>1, <2>3, <4>3, <5>1
          <6>2. c \in Nat /\ c1 \in Nat /\ k \in Nat /\ k1 \in Nat
            BY <1>10, Times
          <6> DEFINE w == left'
                     u == BleCost'
          <6>3. /\ w \in Nat /\ left = w + 1 /\ u = w + c1 + k1
                /\ n + 1 = left + c + k
            BY <1>3, <1>13, <2>3, <4>2, <6>1
          <6> HIDE DEF w, u
          <6>4. u \in Nat /\ u <= w + c + k
            BY <6>1, <6>2, <6>3
          <6>5. n = w + c + k
            BY <4>2, <6>2, <6>3
          <6> QED
            BY <6>4, <6>5 DEF u
        <5>2. CASE sm.ble = "stDisconnected"
          BY <1>3, <1>10, <1>11, <1>12, <1>13, <2>1, <2>3, <3>2, <4>2, <4>3, <5>2, Times
        <5> QED
          BY <1>7, <5>1, <5>2
      <4> QED
        BY <1>1, <1>8, <4>2, <4>3, <4>4, QuietLess
    <3> QED
      BY <3>1, <3>2
  <2> QED
    BY <1>1, <1>9, <2>1, <2>2, <2>4 DEF BleSpaced
<1>15. CASE ~Has(queue, {"e_ble"}) /\ p["e_ble"] = Nothing
  BY <1>1, <1>9, <1>15 DEF BleSpaced
<1>16. CASE ~Has(queue, {"e_ble"}) /\ p["e_ble"] # Nothing
  <2>1. /\ pc \in {"sched", "idle"} => left' = 0
        /\ pc \in {"reply", "report"} => left' + 1 <= SEND_TICKS
        /\ pc \in {"sched", "idle", "reply"} => c1 = 0
        /\ pc = "report" => a1 = 0 /\ k1 = 0
        /\ pc = "reset" => ~Linkable
    <3>1. /\ pc \in {"sched", "idle"} => left' = 0
          /\ pc \in {"reply", "report"} => left' + 1 <= SEND_TICKS
      BY <1>1, <1>3, <1>13, Times
    <3>2. pc \in {"sched", "idle", "reply"} => ~Has(queue, CommandObjs)
      BY <1>3, NothingIn DEF TimerInv, OneCommandQueued
    <3>3. pc = "report" => ~Has(queue, {"e_pushbutton"})
      BY DEF Spaced, ButtonSpaced
    <3>4. pc = "reset" => ~Linkable
      BY DEF Linkable, Agreement, ModeAgreement
    <3> QED
      BY <1>6, <1>10, <3>1, <3>2, <3>3, <3>4
  <2>2. BlePost(l) # Nothing
    BY <1>2, <1>16
  <2>3. CASE sm'.ble = "stConnected" /\ s["ble"] = 1
    <3>1. pc # "reset"
      BY <1>4, <2>3
    <3>2. BleCost' \in Nat /\ BleCost' < FilterWidth
      <4>1. BleCost' = left' + c1 + k1
        BY <1>11, <2>3
      <4>2. CASE pc \in {"sched", "idle"}
        BY <1>10, <2>1, <4>1, <4>2, Times DEF Spacing
      <4>3. CASE pc = "reply"
        BY <1>10, <1>13, <2>1, <4>1, <4>3, Times DEF Spacing
      <4>4. CASE pc = "report"
        BY <1>10, <1>13, <2>1, <4>1, <4>4, Times DEF Spacing
      <4> QED
        BY <1>3, <3>1, <4>2, <4>3, <4>4
    <3>3. BleQuiet(sm'.ble, line'["ble"], BleCost')
      BY <1>1, <1>5, <2>2, <2>3, <3>2
    <3> QED
      BY <1>1, <1>9, <1>16, <3>3 DEF BleSpaced
  <2>4. CASE sm'.ble = "stDisconnected"
    <3>1. BleCost' \in Nat /\ BleCost' < SetRun
      <4>1. BleCost' = (IF pc = "reset" THEN 0 ELSE left') + c1 + (IF Linkable THEN a1 ELSE 0)
        BY <1>11, <2>4
      <4>2. CASE pc \in {"sched", "idle"}
        BY <1>10, <2>1, <4>1, <4>2, Times DEF Spacing
      <4>3. CASE pc = "reply"
        BY <1>10, <1>13, <2>1, <4>1, <4>3, Times DEF Spacing
      <4>4. CASE pc = "report"
        BY <1>10, <1>13, <2>1, <4>1, <4>4, Times DEF Spacing
      <4>5. CASE pc = "reset"
        BY <1>10, <2>1, <4>1, <4>5, Times DEF Spacing
      <4> QED
        BY <1>3, <4>2, <4>3, <4>4, <4>5
    <3>2. BleQuiet(sm'.ble, line'["ble"], BleCost')
      BY <1>1, <1>5, <2>2, <2>4, <3>1
    <3> QED
      BY <1>1, <1>9, <1>16, <3>2 DEF BleSpaced
  <2>5. \/ BleNext(l) = "stConnected" /\ s["ble"] = 1
        \/ BleNext(l) = "stDisconnected"
    BY <1>5, <2>2
  <2> QED
    BY <1>1, <2>3, <2>4, <2>5
<1> QED
  BY <1>14, <1>15, <1>16

\* What a get does to the cost of an event ahead.
LEMMA GetAhead ==
  ASSUME TypeOK, Dispatching, NEW A, NEW o, NEW n \in Nat
  PROVE  /\ Ahead(queue', A, o, n) <= Ahead(queue, A, o, n)
         /\ Has(queue', {o}) => Has(queue, {o})
         /\ NoneBehind(queue, A, A) /\ Head(queue) \in A /\ Has(queue', {o}) =>
              Ahead(queue', A, o, n) = 0 /\ Ahead(queue, A, o, n) = n
<1>1. /\ queue \in Seq(EventObjs) /\ queue # <<>> /\ queue' = Tail(queue)
  BY DEF Dispatching, TypeOK
<1>2. /\ NoneBehind(queue, A, {o}) => NoneBehind(queue', A, {o})
      /\ NoneBehind(queue, A, {o}) /\ Head(queue) \in A => ~Has(queue', {o})
      /\ NoneBehind(queue, A, A) /\ Head(queue) \in A => ~Has(queue', A)
      /\ Has(queue', {o}) => Has(queue, {o})
  BY <1>1, GetLeaves
<1>3. ~Has(queue', A) => NoneBehind(queue', A, {o})
  BY DEF Has, NoneBehind
<1> QED
  BY <1>2, <1>3 DEF Ahead

\* The waits a dispatched event begins.
LEMMA DispatchWaits ==
  ASSUME TypeOK, Agreement, Tagged, Spaced, Thread, Dispatching
  PROVE  /\ left = 0 /\ pc = "sched"
         /\ \/ /\ Head(queue) \in CommandObjs
               /\ pc' = "reply" /\ left' = SEND_TICKS /\ st' = st
            \/ /\ Head(queue) = "e_pushbutton"
               /\ pc' = "report" /\ left' = SEND_TICKS /\ st' = st /\ st = "linked"
            \/ /\ pc' = "reset" /\ left' = BLE_RESET_INTERVAL /\ st' = "unlinked"
               /\ \/ Head(queue) = "e_pushbutton"
                  \/ Head(queue) = "e_ble" /\ st = "linked"
            \/ /\ pc' = "sched" /\ left' = 0
               /\ \/ st' = st
                  \/ st \in {"linked", "motionDetect"}
                  \/ st' = "hidden"
                  \/ Head(queue) = "e_ble"
<1>1. pc = "sched" /\ left = 0
  BY DEF Dispatching, Spaced, WaitsBounded
<1>2. /\ Head(queue) \in EventObjs /\ Event \in ContentsOf(Head(queue))
  BY DispatchType DEF Event, Tagged
<1>3. CASE Discard
  BY <1>1, <1>3 DEF Discard
<1>4. CASE BatteryStatus
  BY <1>1, <1>4 DEF BatteryStatus
<1>5. CASE Reply
  <2>1. Event \in Internal(st) \ BatterySignals
    BY <1>5 DEF Reply
  <2>2. Head(queue) \in CommandObjs
    BY <1>2, <2>1
    DEF Internal, ContentsOf, EventObjs, CommandObjs, BatterySignals,
        CfgPayloads, FitnessPayloads
  <2> QED
    BY <1>1, <1>5, <2>2 DEF Reply
<1>6. CASE ReportByButton
  <2>1. Head(queue) = "e_pushbutton"
    BY <1>2, <1>6
    DEF ReportByButton, ContentsOf, EventObjs, BatterySignals, CfgPayloads, FitnessPayloads
  <2> QED
    BY <1>1, <1>6, <2>1 DEF ReportByButton
<1>7. CASE Transition
  <2>1. /\ st' = "unlinked" => pc' = "reset" /\ left' = BLE_RESET_INTERVAL
        /\ st' # "unlinked" => pc' = "sched" /\ left' = 0
    BY <1>7 DEF Transition
  <2>2. /\ Event = "evPushbuttonLongPress" => Head(queue) = "e_pushbutton"
        /\ Event \in {"evConnected", "evDisconnected"} => Head(queue) = "e_ble"
    BY <1>2
    DEF ContentsOf, EventObjs, BatterySignals, CfgPayloads, FitnessPayloads
  <2> QED
    BY <1>1, <1>7, <2>1, <2>2, TransitionEffect DEF Moves
<1> QED
  BY <1>3, <1>4, <1>5, <1>6, <1>7, ThreadSplits

\* A get.
LEMMA DispatchSpaced ==
  ASSUME TypeOK, Agreement, Tagged, TimerInv, Spaced, Thread, Dispatching
  PROVE  Spaced'
<1>1. /\ sm' = sm /\ tout' = tout /\ line' = line
      /\ left = 0 /\ pc = "sched" /\ left' \in Nat
      /\ sm.ble \in {"stDisconnected", "stConnected"}
      /\ line["button"] \in Line /\ line["ble"] \in Line /\ tout \in Nat
  <2>1. sm' = sm /\ tout' = tout /\ line' = line
    BY ThreadQueue DEF isrVars
  <2>2. left = 0 /\ pc = "sched" /\ left' \in Nat
    BY DispatchWaits, Times
  <2> QED
    BY <2>1, <2>2 DEF TypeOK, Inputs
<1> DEFINE h == Head(queue)
<1>2. \/ /\ h \in CommandObjs
         /\ pc' = "reply" /\ left' = SEND_TICKS /\ st' = st
      \/ /\ h = "e_pushbutton"
         /\ pc' = "report" /\ left' = SEND_TICKS /\ st' = st /\ st = "linked"
      \/ /\ pc' = "reset" /\ left' = BLE_RESET_INTERVAL /\ st' = "unlinked"
         /\ h = "e_pushbutton" \/ (h = "e_ble" /\ st = "linked")
      \/ /\ pc' = "sched" /\ left' = 0
         /\ Linkable' => Linkable \/ h = "e_ble"
  BY DispatchWaits DEF Linkable
<1>3. WaitsBounded'
  BY <1>2 DEF WaitsBounded
<1>4. /\ NoneBehind(queue, CommandObjs, CommandObjs)
      /\ NoneBehind(queue, {"e_pushbutton"}, {"e_pushbutton"})
      /\ NoneBehind(queue, {"e_ble"}, {"e_ble"})
      /\ NoneBehind(queue', {"e_pushbutton"}, {"e_pushbutton"})
      /\ NoneBehind(queue', {"e_ble"}, {"e_ble"})
      /\ h = "e_pushbutton" => ~Has(queue', {"e_pushbutton"})
      /\ h = "e_ble" => ~Has(queue', {"e_ble"})
      /\ Has(queue', {"e_pushbutton"}) => Has(queue, {"e_pushbutton"})
      /\ Has(queue', {"e_ble"}) => Has(queue, {"e_ble"})
      /\ h = "e_pushbutton" => Has(queue, {"e_pushbutton"})
  <2>1. /\ queue \in Seq(EventObjs) /\ queue # <<>> /\ queue' = Tail(queue)
    BY DEF Dispatching, TypeOK
  <2> QED
    BY <2>1, GetLeaves DEF TimerInv, OneCommandQueued, Spaced, ButtonSpaced, BleSpaced
<1> HIDE DEF h
<1>5. ASSUME Has(queue', {"e_pushbutton"}) PROVE ButtonCost' <= ButtonCost /\ ButtonCost' \in Nat
  <2> DEFINE a  == Ahead(queue, CommandObjs, "e_pushbutton", SEND_TICKS)
             a1 == Ahead(queue', CommandObjs, "e_pushbutton", SEND_TICKS)
             c  == Ahead(queue, {"e_ble"}, "e_pushbutton", BLE_RESET_INTERVAL)
             c1 == Ahead(queue', {"e_ble"}, "e_pushbutton", BLE_RESET_INTERVAL)
  <2>1. /\ a1 <= a /\ c1 <= c
        /\ h \in CommandObjs => a1 = 0 /\ a = SEND_TICKS
        /\ h = "e_ble" => c1 = 0 /\ c = BLE_RESET_INTERVAL
    BY <1>4, <1>5, GetAhead, Times DEF h
  <2>2. a \in Nat /\ a1 \in Nat /\ c \in Nat /\ c1 \in Nat
    BY Times DEF Ahead
  <2>3. /\ ButtonCost = SEND_TICKS + a + (IF Linkable THEN c ELSE 0)
        /\ ButtonCost' = left' + SEND_TICKS + a1 + (IF Linkable' THEN c1 ELSE 0)
    <3>1. ButtonCost = left + SEND_TICKS + a + (IF Linkable THEN c ELSE 0)
      BY DEF ButtonCost
    <3>2. ButtonCost' = left' + SEND_TICKS + a1 + (IF Linkable' THEN c1 ELSE 0)
      BY DEF ButtonCost
    <3> QED
      BY <1>1, <2>2, <3>1, <3>2, Times
  <2> HIDE DEF a, a1, c, c1
  <2>4. h # "e_pushbutton"
    BY <1>4, <1>5
  <2>5. CASE h \in CommandObjs /\ left' = SEND_TICKS /\ st' = st
    <3>1. Linkable' = Linkable
      BY <2>5 DEF Linkable
    <3> QED
      BY <2>1, <2>2, <2>3, <2>5, <3>1, Times
  <2>6. CASE left' = BLE_RESET_INTERVAL /\ st' = "unlinked" /\ h = "e_ble" /\ st = "linked"
    <3>1. ~Linkable' /\ Linkable
      BY <2>6 DEF Linkable
    <3> QED
      BY <2>1, <2>2, <2>3, <2>6, <3>1, Times
  <2>7. CASE left' = 0 /\ (Linkable' => Linkable \/ h = "e_ble")
    BY <2>1, <2>2, <2>3, <2>7, Times
  <2> QED
    BY <1>2, <2>4, <2>5, <2>6, <2>7
<1>6. ButtonSpaced'
  <2>1. ASSUME Has(queue', {"e_pushbutton"})
        PROVE  ButtonQuiet(sm'.button, tout', line'["button"], ButtonCost')
    <3>1. ButtonQuiet(sm.button, tout, line["button"], ButtonCost) /\ ButtonCost \in Nat
      BY <1>4, <2>1, CostsType DEF Spaced, ButtonSpaced
    <3> QED
      BY <1>1, <1>5, <2>1, <3>1, QuietLess
  <2>2. ASSUME pc' = "report"
        PROVE  /\ ~Has(queue', {"e_pushbutton"})
               /\ ButtonQuiet(sm'.button, tout', line'["button"], left')
    <3>1. h = "e_pushbutton" /\ left' = SEND_TICKS
      BY <1>2, <2>2
    <3>2. ButtonQuiet(sm.button, tout, line["button"], ButtonCost) /\ ButtonCost \in Nat
      BY <1>4, <3>1, CostsType DEF Spaced, ButtonSpaced
    <3>3. SEND_TICKS <= ButtonCost
      BY <1>1, CostsType, Times DEF ButtonCost, Ahead
    <3> QED
      BY <1>1, <1>4, <3>1, <3>2, <3>3, QuietLess, Times
  <2> QED
    BY <1>4, <2>1, <2>2 DEF ButtonSpaced
<1>7. ASSUME Has(queue', {"e_ble"}) PROVE BleCost' <= BleCost /\ BleCost' \in Nat
  <2> DEFINE c  == Ahead(queue, CommandObjs, "e_ble", SEND_TICKS)
             c1 == Ahead(queue', CommandObjs, "e_ble", SEND_TICKS)
             k  == Ahead(queue, {"e_pushbutton"}, "e_ble", SEND_TICKS + BLE_RESET_INTERVAL)
             k1 == Ahead(queue', {"e_pushbutton"}, "e_ble", SEND_TICKS + BLE_RESET_INTERVAL)
             a  == Ahead(queue, {"e_pushbutton"}, "e_ble", SEND_TICKS)
             a1 == Ahead(queue', {"e_pushbutton"}, "e_ble", SEND_TICKS)
  <2>0. SEND_TICKS + BLE_RESET_INTERVAL \in Nat
    BY Times
  <2>1. /\ c1 <= c /\ k1 <= k /\ a1 <= a
        /\ h \in CommandObjs => c1 = 0 /\ c = SEND_TICKS
        /\ h = "e_pushbutton" => /\ k1 = 0 /\ k = SEND_TICKS + BLE_RESET_INTERVAL
                                 /\ a1 = 0 /\ a = SEND_TICKS
    <3>1. c1 <= c /\ (h \in CommandObjs => c1 = 0 /\ c = SEND_TICKS)
      BY <1>4, <1>7, GetAhead, Times DEF h
    <3>2. k1 <= k /\ (h = "e_pushbutton" => k1 = 0 /\ k = SEND_TICKS + BLE_RESET_INTERVAL)
      BY <1>4, <1>7, <2>0, GetAhead DEF h
    <3>3. a1 <= a /\ (h = "e_pushbutton" => a1 = 0 /\ a = SEND_TICKS)
      BY <1>4, <1>7, GetAhead, Times DEF h
    <3> QED
      BY <3>1, <3>2, <3>3
  <2>2. /\ c \in Nat /\ c1 \in Nat /\ k \in Nat /\ k1 \in Nat /\ a \in Nat /\ a1 \in Nat
    BY <2>0, Times DEF Ahead
  <2>3. /\ sm.ble = "stConnected" =>
             BleCost = left + c + k /\ BleCost' = left' + c1 + k1
        /\ sm.ble = "stDisconnected" =>
             /\ BleCost = (IF pc = "reset" THEN 0 ELSE left) + c + (IF Linkable THEN a ELSE 0)
             /\ BleCost' = (IF pc' = "reset" THEN 0 ELSE left') + c1
                             + (IF Linkable' THEN a1 ELSE 0)
    BY <1>1 DEF BleCost
  <2> HIDE DEF c, c1, k, k1, a, a1
  <2>4. h # "e_ble"
    BY <1>4, <1>7
  <2>5. CASE sm.ble = "stConnected"
    <3>1. BleCost = c + k /\ BleCost' = left' + c1 + k1
      BY <1>1, <2>2, <2>3, <2>5
    <3>2. CASE h \in CommandObjs /\ left' = SEND_TICKS
      <4>1. c1 = 0 /\ c = SEND_TICKS /\ k1 <= k
        BY <2>1, <3>2
      <4> QED
        BY <2>2, <3>1, <3>2, <4>1, Times
    <3>3. CASE h = "e_pushbutton" /\ left' \in {SEND_TICKS, BLE_RESET_INTERVAL}
      <4> DEFINE w == left'
      <4>1. k1 = 0 /\ k = SEND_TICKS + BLE_RESET_INTERVAL /\ c1 <= c
        BY <2>1, <3>3
      <4>2. w \in Nat /\ w <= k
        BY <3>3, <4>1, Times
      <4>3. BleCost' = w + c1 + k1
        BY <3>1
      <4> HIDE DEF w
      <4> QED
        BY <2>2, <3>1, <4>1, <4>2, <4>3
    <3>4. CASE left' = 0
      BY <2>1, <2>2, <3>1, <3>4
    <3> QED
      BY <1>2, <2>4, <3>2, <3>3, <3>4
  <2>6. CASE sm.ble = "stDisconnected"
    <3>1. CASE h \in CommandObjs /\ pc' = "reply" /\ left' = SEND_TICKS /\ st' = st
      <4>1. Linkable' = Linkable
        BY <3>1 DEF Linkable
      <4> QED
        BY <1>1, <2>1, <2>2, <2>3, <2>6, <3>1, <4>1, Times
    <3>2. CASE /\ h = "e_pushbutton" /\ pc' = "report" /\ left' = SEND_TICKS
               /\ st' = st /\ st = "linked"
      <4>1. Linkable' /\ Linkable
        BY <3>2 DEF Linkable
      <4> QED
        BY <1>1, <2>1, <2>2, <2>3, <2>6, <3>2, <4>1, Times
    <3>3. CASE pc' = "reset" /\ st' = "unlinked"
      <4>1. ~Linkable'
        BY <3>3 DEF Linkable
      <4> QED
        BY <1>1, <2>1, <2>2, <2>3, <2>6, <3>3, <4>1, Times
    <3>4. CASE pc' = "sched" /\ left' = 0 /\ (Linkable' => Linkable)
      BY <1>1, <2>1, <2>2, <2>3, <2>6, <3>4, Times
    <3> QED
      BY <1>2, <2>4, <3>1, <3>2, <3>3, <3>4
  <2> QED
    BY <1>1, <2>5, <2>6
<1>8. BleSpaced'
  <2>1. ASSUME Has(queue', {"e_ble"}) PROVE BleQuiet(sm'.ble, line'["ble"], BleCost')
    <3>1. BleQuiet(sm.ble, line["ble"], BleCost) /\ BleCost \in Nat
      BY <1>4, <2>1, CostsType DEF Spaced, BleSpaced
    <3> QED
      BY <1>1, <1>7, <2>1, <3>1, QuietLess
  <2> QED
    BY <1>4, <2>1 DEF BleSpaced
<1> QED
  BY <1>3, <1>6, <1>8 DEF Spaced

\* A step of the thread that only ends a wait, or posts a command.
LEMMA CalmSpaced ==
  ASSUME TypeOK, Spaced, UNCHANGED isrVars,
         pc' = "sched", left' = 0, Linkable' => Linkable,
         \/ queue' = queue
         \/ \E o \in CommandObjs : queue' = Append(queue, o)
  PROVE  Spaced'
<1>1. /\ sm' = sm /\ tout' = tout /\ line' = line /\ left \in Nat
      /\ sm.ble \in {"stDisconnected", "stConnected"}
      /\ line["button"] \in Line /\ line["ble"] \in Line /\ tout \in Nat
  BY DEF isrVars, TypeOK, Inputs
<1>2. /\ Has(queue', {"e_pushbutton"}) <=> Has(queue, {"e_pushbutton"})
      /\ Has(queue', {"e_ble"}) <=> Has(queue, {"e_ble"})
      /\ \A A : /\ NoneBehind(queue, A, {"e_pushbutton"}) =>
                     NoneBehind(queue', A, {"e_pushbutton"})
                /\ NoneBehind(queue, A, {"e_ble"}) => NoneBehind(queue', A, {"e_ble"})
  <2>1. ASSUME NEW o \in CommandObjs, queue' = Append(queue, o)
        PROVE  /\ Has(queue', {"e_pushbutton"}) <=> Has(queue, {"e_pushbutton"})
               /\ Has(queue', {"e_ble"}) <=> Has(queue, {"e_ble"})
               /\ \A A : /\ NoneBehind(queue, A, {"e_pushbutton"}) =>
                              NoneBehind(queue', A, {"e_pushbutton"})
                         /\ NoneBehind(queue, A, {"e_ble"}) =>
                              NoneBehind(queue', A, {"e_ble"})
    <3>1. queue \in Seq(EventObjs) /\ o \in EventObjs /\ o \notin {"e_pushbutton", "e_ble"}
      BY <2>1 DEF TypeOK, CommandObjs, EventObjs
    <3>2. \A A, B : /\ Has(Append(queue, o), A) <=> Has(queue, A) \/ o \in A
                    /\ NoneBehind(queue, A, B) /\ ~(o \in B /\ Has(queue, A))
                         => NoneBehind(Append(queue, o), A, B)
      BY <3>1, PostAdds
    <3> QED
      BY <2>1, <3>1, <3>2
  <2> QED
    BY <2>1
<1>3. WaitsBounded'
  BY DEF WaitsBounded
<1>4. ButtonCost' <= ButtonCost /\ ButtonCost' \in Nat
  <2> DEFINE a  == Ahead(queue, CommandObjs, "e_pushbutton", SEND_TICKS)
             a1 == Ahead(queue', CommandObjs, "e_pushbutton", SEND_TICKS)
             c  == Ahead(queue, {"e_ble"}, "e_pushbutton", BLE_RESET_INTERVAL)
             c1 == Ahead(queue', {"e_ble"}, "e_pushbutton", BLE_RESET_INTERVAL)
  <2>1. a1 <= a /\ c1 <= c
    BY <1>2, AheadFalls, Times
  <2>2. a \in Nat /\ a1 \in Nat /\ c \in Nat /\ c1 \in Nat
    BY Times DEF Ahead
  <2>3. /\ ButtonCost = left + SEND_TICKS + a + (IF Linkable THEN c ELSE 0)
        /\ ButtonCost' = left' + SEND_TICKS + a1 + (IF Linkable' THEN c1 ELSE 0)
    BY DEF ButtonCost
  <2> HIDE DEF a, a1, c, c1
  <2> QED
    BY <1>1, <2>1, <2>2, <2>3, Times
<1>5. BleCost' <= BleCost /\ BleCost' \in Nat
  <2> DEFINE c  == Ahead(queue, CommandObjs, "e_ble", SEND_TICKS)
             c1 == Ahead(queue', CommandObjs, "e_ble", SEND_TICKS)
             k  == Ahead(queue, {"e_pushbutton"}, "e_ble", SEND_TICKS + BLE_RESET_INTERVAL)
             k1 == Ahead(queue', {"e_pushbutton"}, "e_ble", SEND_TICKS + BLE_RESET_INTERVAL)
             a  == Ahead(queue, {"e_pushbutton"}, "e_ble", SEND_TICKS)
             a1 == Ahead(queue', {"e_pushbutton"}, "e_ble", SEND_TICKS)
  <2>0. SEND_TICKS + BLE_RESET_INTERVAL \in Nat
    BY Times
  <2>1. c1 <= c /\ k1 <= k /\ a1 <= a
    BY <1>2, <2>0, AheadFalls, Times
  <2>2. c \in Nat /\ c1 \in Nat /\ k \in Nat /\ k1 \in Nat /\ a \in Nat /\ a1 \in Nat
    BY <2>0, Times DEF Ahead
  <2>3. /\ sm.ble = "stConnected" =>
             BleCost = left + c + k /\ BleCost' = left' + c1 + k1
        /\ sm.ble = "stDisconnected" =>
             /\ BleCost = (IF pc = "reset" THEN 0 ELSE left) + c + (IF Linkable THEN a ELSE 0)
             /\ BleCost' = (IF pc' = "reset" THEN 0 ELSE left') + c1
                             + (IF Linkable' THEN a1 ELSE 0)
    BY <1>1 DEF BleCost
  <2> HIDE DEF c, c1, k, k1, a, a1
  <2>4. CASE sm.ble = "stConnected"
    <3> DEFINE u == BleCost'
    <3>1. BleCost = left + c + k /\ u = 0 + c1 + k1
      BY <2>3, <2>4
    <3> HIDE DEF u
    <3>2. u \in Nat /\ u <= BleCost
      BY <1>1, <2>1, <2>2, <3>1
    <3> QED
      BY <3>2 DEF u
  <2>5. CASE sm.ble = "stDisconnected"
    <3> DEFINE u == BleCost'
               x == IF pc = "reset" THEN 0 ELSE left
               y == IF Linkable THEN a ELSE 0
               y1 == IF Linkable' THEN a1 ELSE 0
    <3>1. BleCost = x + c + y /\ u = 0 + c1 + y1
      BY <2>3, <2>5
    <3>2. x \in Nat /\ y \in Nat /\ y1 \in Nat /\ y1 <= y
      BY <1>1, <2>1, <2>2
    <3> HIDE DEF u, x, y, y1
    <3>3. u \in Nat /\ u <= BleCost
      BY <2>1, <2>2, <3>1, <3>2
    <3> QED
      BY <3>3 DEF u
  <2> QED
    BY <1>1, <2>4, <2>5
<1>6. ButtonCost \in Nat /\ BleCost \in Nat
  BY CostsType
<1>7. ButtonSpaced'
  <2>1. Has(queue', {"e_pushbutton"}) =>
          ButtonQuiet(sm'.button, tout', line'["button"], ButtonCost')
    BY <1>1, <1>2, <1>4, <1>6, QuietLess DEF Spaced, ButtonSpaced
  <2> QED
    BY <1>2, <2>1 DEF Spaced, ButtonSpaced
<1>8. BleSpaced'
  <2>1. Has(queue', {"e_ble"}) => BleQuiet(sm'.ble, line'["ble"], BleCost')
    BY <1>1, <1>2, <1>5, <1>6, QuietLess DEF Spaced, BleSpaced
  <2> QED
    BY <1>2, <2>1 DEF Spaced, BleSpaced
<1> QED
  BY <1>3, <1>7, <1>8 DEF Spaced

\* A poll, which finds the queue empty.
LEMMA PollSpaced == ASSUME Spaced, IdlePoll PROVE Spaced'
<1>1. pc' = "idle" /\ left' = 1 /\ \A A, B : ~Has(queue', A) /\ NoneBehind(queue', A, B)
  BY NothingIn DEF IdlePoll
<1> QED
  BY <1>1 DEF Spaced, WaitsBounded, ButtonSpaced, BleSpaced

\* Nothing happens.
LEMMA StutterSpaced ==
  ASSUME Spaced, UNCHANGED <<st, pc, left, queue, isrVars>> PROVE Spaced'
<1>1. /\ st' = st /\ pc' = pc /\ left' = left /\ queue' = queue
      /\ sm' = sm /\ tout' = tout /\ line' = line
  BY DEF isrVars
<1>2. WaitsBounded'
  BY <1>1 DEF Spaced, WaitsBounded
<1>3. ButtonCost' = ButtonCost /\ BleCost' = BleCost
  BY <1>1 DEF ButtonCost, BleCost, Linkable
<1>4. ButtonSpaced'
  BY <1>1, <1>3 DEF Spaced, ButtonSpaced
<1>5. BleSpaced'
  BY <1>1, <1>3 DEF Spaced, BleSpaced
<1> QED
  BY <1>2, <1>4, <1>5 DEF Spaced

\* A step of the thread.
LEMMA ThreadSpaced ==
  ASSUME TypeOK, Agreement, Tagged, TimerInv, Spaced, Thread PROVE Spaced'
<1>1. CASE Dispatching
  BY <1>1, DispatchSpaced
<1>2. CASE ~Dispatching
  <2>0. UNCHANGED isrVars
    BY ThreadQueue
  <2>1. CASE ResetDone
    <3>1. pc' = "sched" /\ left' = 0 /\ queue' = queue /\ st' = st
      BY <2>1 DEF ResetDone
    <3> QED
      BY <2>0, <3>1, CalmSpaced DEF Linkable
  <2>2. CASE ReportSent
    <3>1. pc' = "sched" /\ left' = 0 /\ queue' = queue /\ Linkable
      BY <2>2 DEF ReportSent, Linkable, Agreement, ModeAgreement
    <3> QED
      BY <2>0, <3>1, CalmSpaced
  <2>3. CASE ReplySent \/ IdleReturn
    <3>1. pc' = "sched" /\ left' = 0 /\ queue' = queue /\ st' = st
      BY <2>3 DEF ReplySent, IdleReturn
    <3> QED
      BY <2>0, <3>1, CalmSpaced DEF Linkable
  <2>4. CASE IdlePoll
    BY <2>4, PollSpaced
  <2>5. CASE IdleCommand
    <3>1. PICK c \in Commands : Post(c[1], c[2]) \/ Halt
      BY <2>5 DEF IdleCommand
    <3>2. CASE Post(c[1], c[2])
      <4>1. /\ pc' = "sched" /\ left' = 0 /\ st' = st
            /\ queue' = Append(queue, c[1])
        BY <3>2 DEF Post
      <4>2. c[1] \in CommandObjs
        BY DEF Command, CommandObjs
      <4> QED
        BY <2>0, <4>1, <4>2, CalmSpaced DEF Linkable
    <3>3. CASE Halt
      BY <2>0, <3>3, StutterSpaced DEF Halt
    <3> QED
      BY <3>1, <3>2, <3>3
  <2> QED
    BY <1>2, <2>1, <2>2, <2>3, <2>4, <2>5, ThreadSplits
<1> QED
  BY <1>1, <1>2

\* One step.
LEMMA SpacedStep ==
  ASSUME TypeOK, Agreement, Tagged, TimerInv, Spaced, Spacing, [Next]_vars
  PROVE  Spaced'
<1>1. CASE UNCHANGED vars
  BY <1>1, StutterSpaced DEF vars
<1>2. CASE Thread
  BY <1>2, ThreadSpaced
<1>3. CASE Tick
  <2>1. PICK s \in [Inputs -> Bit] :
          LET d == [i \in Inputs |-> Shift(line[i], s[i])]
              p == Posts(d)
          IN /\ Sampled(s)
             /\ IF Len(After(p)) > QSTO_SIZE THEN Halt ELSE Handle(d, p)
    BY <1>3 DEF Tick
  <2>2. CASE Halt
    BY <2>2, StutterSpaced DEF Halt
  <2>3. ASSUME NEW d, d = [i \in Inputs |-> Shift(line[i], s[i])], Handle(d, Posts(d))
        PROVE  Spaced'
    <3>1. MayTick /\ Sampled(s)
      BY <1>3, <2>1 DEF Tick
    <3>2. BleSpaced'
      BY <2>3, <3>1, TickBle
    <3>3. ButtonSpaced'
      <4>1. d["button"] = Shift(line["button"], s["button"]) /\ s["button"] \in Bit
        BY <2>3 DEF Inputs
      <4> QED
        BY <2>3, <3>1, <4>1, TickButton
    <3>4. WaitsBounded'
      <4>1. pc' = pc /\ left' = IF pc = "sched" THEN 0 ELSE left - 1
        BY <2>3 DEF Handle
      <4>2. left \in Nat
        BY DEF TypeOK
      <4> QED
        BY <4>1, <4>2, Times DEF Spaced, WaitsBounded
    <3> QED
      BY <3>2, <3>3, <3>4 DEF Spaced
  <2> QED
    BY <2>1, <2>2, <2>3
<1> QED
  BY <1>1, <1>2, <1>3 DEF Next

\* Spaced holds throughout.
LEMMA SpacedInvariant == ASSUME Spacing PROVE Spec => []Spaced
<1>1. Init => Spaced
  <2> SUFFICES ASSUME Init PROVE Spaced
    OBVIOUS
  <2>1. /\ \A A, B : ~Has(queue, A) /\ NoneBehind(queue, A, B)
        /\ pc = "reset" /\ left = BLE_RESET_INTERVAL
    BY NothingIn DEF Init
  <2> QED
    BY <2>1, Times DEF Spaced, WaitsBounded, ButtonSpaced, BleSpaced
<1>2. TypeOK /\ Agreement /\ Known /\ TimerInv /\ Spaced /\ [Next]_vars => Spaced'
  BY SpacedStep DEF Known
<1> QED
  BY <1>1, <1>2, TypeCorrect, AgreementInvariant, KnownInvariant, TimerInvariant, PTL
  DEF Spec

\* A step gives new contents to no event object that is queued, but to the
\* battery's.
LEMMA KeepsQueued ==
  ASSUME TypeOK, Agreement, Tagged, TimerInv, Spaced, [Next]_vars,
         NEW o \in EventObjs \ {"e_battery"}, Has(queue, {o})
  PROVE  ev'[o] = ev[o]
<1>1. CASE UNCHANGED vars
  BY <1>1 DEF vars
<1>2. CASE Tick
  <2>1. PICK s \in [Inputs -> Bit] :
          LET d == [i \in Inputs |-> Shift(line[i], s[i])]
              p == Posts(d)
          IN /\ Sampled(s)
             /\ IF Len(After(p)) > QSTO_SIZE THEN Halt ELSE Handle(d, p)
    BY <1>2 DEF Tick
  <2>2. CASE Halt
    BY <2>2 DEF Halt
  <2>3. ASSUME NEW d, d = [i \in Inputs |-> Shift(line[i], s[i])], Handle(d, Posts(d))
        PROVE  ev'[o] = ev[o]
    <3>1. /\ Has(queue, {"e_pushbutton"}) => ButtonPost(d["button"]) = Nothing
          /\ Has(queue, {"e_ble"}) => BlePost(d["ble"]) = Nothing
      BY <1>2, <2>1, <2>3, TickHolds DEF Tick
    <3> DEFINE p == Posts(d)
    <3>2. /\ ev'[o] = IF o \in DOMAIN p /\ p[o] # Nothing THEN p[o] ELSE ev[o]
          /\ DOMAIN p = {"e_pushbutton", "e_ble", "e_battery", "e_tmr"}
          /\ p["e_pushbutton"] = ButtonPost(d["button"])
          /\ p["e_ble"] = BlePost(d["ble"])
          /\ p["e_tmr"] \in {ev["e_tmr"], Nothing}
      BY <2>3 DEF Handle, Posts
    <3> HIDE DEF p
    <3> QED
      BY <3>1, <3>2
  <2> QED
    BY <2>1, <2>2, <2>3
<1>3. CASE Thread
  <2>1. CASE Posting
    <3>1. ~Has(queue, CommandObjs)
      BY <2>1 DEF Posting, TimerInv, OneCommandQueued
    <3>2. o \notin CommandObjs
      BY <3>1 DEF Has
    <3> QED
      BY <2>1, <3>2 DEF Posting
  <2>2. CASE EvKept /\ o # "e_tmr"
    BY <2>2 DEF EvKept
  <2>3. CASE EvKept /\ o = "e_tmr"
    <3>1. CASE ResetDone \/ ReportSent
      <4>1. st # "motionDetect" /\ pc # "sched"
        BY <3>1 DEF ResetDone, ReportSent, Agreement, ModeAgreement
      <4> QED
        BY <2>3, <4>1 DEF TimerInv, TimedOut, HideQueued
    <3>2. CASE Transition
      BY <3>2, TransitionEffect
    <3>3. CASE BatteryStatus
      BY <2>3, <3>3, MeInType
      DEF BatteryStatus, Becomes, setLedsStatus, Me, TypeOK, EventObjs
    <3>4. CASE IdleCommand
      <4>1. PICK c \in Commands : Post(c[1], c[2]) \/ Halt
        BY <3>4 DEF IdleCommand
      <4>2. c[1] # "e_tmr"
        BY DEF Command
      <4> QED
        BY <2>3, <4>1, <4>2 DEF Post, Halt, TypeOK, EventObjs
    <3>5. CASE Discard \/ ReportByButton \/ Reply \/ ReplySent \/ IdlePoll \/ IdleReturn
      BY <3>5 DEF Discard, ReportByButton, Reply, ReplySent, IdlePoll, IdleReturn
    <3> QED
      BY <1>3, <3>1, <3>2, <3>3, <3>4, <3>5 DEF Thread
  <2> QED
    BY <1>3, <2>1, <2>2, <2>3, ThreadQueue
<1> QED
  BY <1>1, <1>2, <1>3 DEF Next

(* No event object but the battery's is given new contents while a pointer *)
(* to it waits in the queue.                                               *)
THEOREM QueuedStaysAsPosted == ASSUME Spacing PROVE Spec => QueuedIsStable
<1> DEFINE A == \A i \in 1 .. Len(queue) :
                  queue[i] # "e_battery" /\ ev'[queue[i]] # ev[queue[i]] =>
                    i = 1 /\ queue' = Tail(queue)
<1>1. TypeOK /\ Agreement /\ Known /\ TimerInv /\ Spaced /\ [Next]_vars => [A]_vars
  <2> SUFFICES ASSUME TypeOK, Agreement, Known, TimerInv, Spaced, [Next]_vars,
                      NEW i \in 1 .. Len(queue), queue[i] # "e_battery"
               PROVE  ev'[queue[i]] = ev[queue[i]]
    OBVIOUS
  <2>1. queue[i] \in EventObjs /\ Has(queue, {queue[i]})
    BY DEF TypeOK, Has
  <2> QED
    BY <2>1, KeepsQueued DEF Known
<1> QED
  BY <1>1, TypeCorrect, AgreementInvariant, KnownInvariant, TimerInvariant,
     SpacedInvariant, PTL
  DEF Spec, QueuedIsStable

(* Without a charger that is plugged and unplugged.                        *)
BatteryStill == sm.battery = "stNotCharging" /\ ~Has(queue, {"e_battery"})

\* The battery's line then posts nothing.
LEMMA BatteryQuiet ==
  ASSUME "battery" \notin Moving, BatteryStill,
         NEW s \in [Inputs -> Bit], Sampled(s),
         NEW d, d = [i \in Inputs |-> Shift(line[i], s[i])]
  PROVE  /\ BatteryPost(d["battery"]) = Nothing
         /\ BatteryNext(d["battery"]) = "stNotCharging"
<1>1. d["battery"] = Shift(line["battery"], 0)
  BY DEF Inputs, Sampled
<1>2. d["battery"].lvl = 0
  BY <1>1 DEF Shift
<1> QED
  BY <1>2 DEF BatteryStill, BatteryPost, BatteryNext, IsSet

\* A queue of at most one event of each of four kinds has at most four.
LEMMA FourKinds ==
  ASSUME NEW q \in Seq(EventObjs), ~Has(q, {"e_battery"}),
         NoneBehind(q, CommandObjs, CommandObjs), NoneBehind(q, {"e_tmr"}, {"e_tmr"}),
         NoneBehind(q, {"e_pushbutton"}, {"e_pushbutton"}),
         NoneBehind(q, {"e_ble"}, {"e_ble"})
  PROVE  /\ Len(q) <= 4
         /\ ~Has(q, CommandObjs) => Len(q) <= 3
<1>1. /\ Len(q) \in Nat
      /\ \A i \in 1 .. Len(q) :
           q[i] \in CommandObjs \cup {"e_tmr", "e_pushbutton", "e_ble"}
  <2>1. \A i \in 1 .. Len(q) : q[i] \in EventObjs /\ q[i] # "e_battery"
    BY DEF Has
  <2> QED
    BY <2>1 DEF EventObjs, CommandObjs
<1>2. \A i, j \in 1 .. Len(q) : i < j =>
        /\ q[i] \in CommandObjs => q[j] \notin CommandObjs
        /\ q[i] = "e_tmr" => q[j] # "e_tmr"
        /\ q[i] = "e_pushbutton" => q[j] # "e_pushbutton"
        /\ q[i] = "e_ble" => q[j] # "e_ble"
  BY DEF NoneBehind
<1>3. ASSUME Len(q) > 3, ~Has(q, CommandObjs) PROVE FALSE
  <2>1. /\ 1 \in 1 .. Len(q) /\ 2 \in 1 .. Len(q) /\ 3 \in 1 .. Len(q) /\ 4 \in 1 .. Len(q)
    <3>1. Len(q) \in Nat
      BY <1>1
    <3> QED
      BY <1>3, <3>1
  <2>2. \A i \in 1 .. Len(q) : q[i] \in {"e_tmr", "e_pushbutton", "e_ble"}
    BY <1>1, <1>3 DEF Has
  <2>3. \A i, j \in {1, 2, 3, 4} : i < j /\ q[i] \in {"e_tmr", "e_pushbutton", "e_ble"}
                                    => q[i] # q[j]
    BY <1>2, <2>1
  <2> QED
    BY <2>1, <2>2, <2>3
<1>4. ASSUME Len(q) > 4 PROVE FALSE
  <2>1. /\ 1 \in 1 .. Len(q) /\ 2 \in 1 .. Len(q) /\ 3 \in 1 .. Len(q)
        /\ 4 \in 1 .. Len(q) /\ 5 \in 1 .. Len(q)
    <3>1. Len(q) \in Nat
      BY <1>1
    <3> QED
      BY <1>4, <3>1
  <2>2. \A i \in {q[1], q[2], q[3], q[4], q[5]} :
          i \in CommandObjs \/ i \in {"e_tmr", "e_pushbutton", "e_ble"}
    BY <1>1, <2>1
  <2>3. /\ q[1] \in CommandObjs => {q[2], q[3], q[4], q[5]} \cap CommandObjs = {}
        /\ q[2] \in CommandObjs => {q[3], q[4], q[5]} \cap CommandObjs = {}
        /\ q[3] \in CommandObjs => {q[4], q[5]} \cap CommandObjs = {}
        /\ q[4] \in CommandObjs => q[5] \notin CommandObjs
    <3>1. \A i, j \in {1, 2, 3, 4, 5} :
            i < j /\ q[i] \in CommandObjs => q[j] \notin CommandObjs
      BY <1>2, <2>1
    <3>2. q[1] \in CommandObjs => {q[2], q[3], q[4], q[5]} \cap CommandObjs = {}
      BY <3>1
    <3>3. q[2] \in CommandObjs => {q[3], q[4], q[5]} \cap CommandObjs = {}
      BY <3>1
    <3>4. q[3] \in CommandObjs => {q[4], q[5]} \cap CommandObjs = {}
      BY <3>1
    <3> QED
      BY <3>1, <3>2, <3>3, <3>4
  <2>4. ASSUME NEW k \in {"e_tmr", "e_pushbutton", "e_ble"}
        PROVE  /\ q[1] = k => k \notin {q[2], q[3], q[4], q[5]}
               /\ q[2] = k => k \notin {q[3], q[4], q[5]}
               /\ q[3] = k => k \notin {q[4], q[5]}
               /\ q[4] = k => k # q[5]
    <3>1. \A i, j \in 1 .. Len(q) : i < j /\ q[i] = k => q[j] # k
      BY <1>2, <2>4
    <3> QED
      BY <2>1, <3>1, SMTT(30)
  <2> QED
    BY <2>2, <2>3, <2>4
<1> QED
  BY <1>1, <1>3, <1>4

\* What a tick would leave in the queue, whether it fits or not.
LEMMA TickFits ==
  ASSUME TypeOK, Agreement, TimerInv, Spaced, BatteryStill, "battery" \notin Moving,
         MayTick, NEW s \in [Inputs -> Bit], Sampled(s),
         NEW d, d = [i \in Inputs |-> Shift(line[i], s[i])]
  PROVE  Len(After(Posts(d))) <= 4 /\ ~Has(After(Posts(d)), {"e_battery"})
<1> DEFINE p == Posts(d)
<1>1. /\ Has(queue, {"e_pushbutton"}) => p["e_pushbutton"] = Nothing
      /\ Has(queue, {"e_ble"}) => p["e_ble"] = Nothing
      /\ p["e_battery"] = Nothing
      /\ Has(queue, {"e_tmr"}) => p["e_tmr"] = Nothing
  <2>1. Has(queue, {"e_tmr"}) => ~TimerFires
    BY DEF TimerInv, Counting, TimerFires
  <2> QED
    BY <2>1, TickHolds, BatteryQuiet DEF Posts
<1>2. d \in [Inputs -> Line]
  BY ShiftType DEF TypeOK
<1>3. After(p) \in Seq(EventObjs)
  BY <1>2, AfterType
<1> HIDE DEF p
<1>4. /\ NoneBehind(queue, CommandObjs, CommandObjs) /\ ~Has(queue, {"e_battery"})
      /\ NoneBehind(queue, {"e_tmr"}, {"e_tmr"})
      /\ NoneBehind(queue, {"e_pushbutton"}, {"e_pushbutton"})
      /\ NoneBehind(queue, {"e_ble"}, {"e_ble"})
  BY DEF TimerInv, OneCommandQueued, TimedOut, Spaced, ButtonSpaced, BleSpaced, BatteryStill
<1>5. ~Has(After(p), {"e_battery"})
  BY <1>1, <1>4, TickAdds
<1>6. NoneBehind(After(p), CommandObjs, CommandObjs)
  BY <1>4, TickAdds DEF CommandObjs
<1>7. NoneBehind(After(p), {"e_tmr"}, {"e_tmr"})
  BY <1>1, <1>4, TickAdds
<1>8. /\ NoneBehind(After(p), {"e_pushbutton"}, {"e_pushbutton"})
      /\ NoneBehind(After(p), {"e_ble"}, {"e_ble"})
  BY <1>1, <1>4, TickAdds
<1> QED
  BY <1>3, <1>5, <1>6, <1>7, <1>8, FourKinds DEF p

\* One step.
LEMMA FitsStep ==
  ASSUME TypeOK, Agreement, Known, TimerInv, Spaced, BatteryStill, ~halted,
         "battery" \notin Moving, QSTO_SIZE >= 4, [Next]_vars
  PROVE  BatteryStill' /\ ~halted'
<1>1. CASE UNCHANGED vars
  BY <1>1 DEF vars, isrVars, BatteryStill, Has
<1>2. CASE Tick
  <2>1. PICK s \in [Inputs -> Bit] :
          LET d == [i \in Inputs |-> Shift(line[i], s[i])]
              p == Posts(d)
          IN /\ Sampled(s)
             /\ IF Len(After(p)) > QSTO_SIZE THEN Halt ELSE Handle(d, p)
    BY <1>2 DEF Tick
  <2> DEFINE d == [i \in Inputs |-> Shift(line[i], s[i])]
  <2>2. /\ Len(After(Posts(d))) <= 4 /\ ~Has(After(Posts(d)), {"e_battery"})
        /\ BatteryNext(d["battery"]) = "stNotCharging"
        /\ Len(After(Posts(d))) \in Nat
    <3>1. d \in [Inputs -> Line]
      BY ShiftType DEF TypeOK
    <3>2. Len(After(Posts(d))) \in Nat
      BY <3>1, AfterType
    <3>3. MayTick /\ Sampled(s)
      BY <1>2, <2>1 DEF Tick
    <3> QED
      BY <3>2, <3>3, TickFits, BatteryQuiet
  <2>3. Handle(d, Posts(d))
    <3>1. ~(Len(After(Posts(d))) > QSTO_SIZE)
      BY <2>2
    <3> QED
      BY <2>1, <3>1
  <2> HIDE DEF d
  <2>4. /\ halted' = halted /\ queue' = After(Posts(d))
        /\ sm'.battery = BatteryNext(d["battery"])
    BY <2>3 DEF Handle
  <2> QED
    BY <2>2, <2>4 DEF BatteryStill
<1>3. CASE Thread
  <2>1. sm' = sm
    BY <1>3, ThreadQueue DEF isrVars
  <2>2. queue \in Seq(EventObjs)
    BY DEF TypeOK
  <2>3. ~Has(queue', {"e_battery"})
    <3>1. CASE Dispatching
      BY <2>2, <3>1, GetLeaves DEF Dispatching, BatteryStill
    <3>2. CASE queue' = queue
      BY <3>2 DEF BatteryStill
    <3>3. CASE Posting
      <4>1. PICK o \in CommandObjs : queue' = Append(queue, o)
        BY <3>3 DEF Posting
      <4>2. o \in EventObjs /\ o # "e_battery"
        BY DEF CommandObjs, EventObjs
      <4> QED
        BY <2>2, <4>1, <4>2, PostAdds DEF BatteryStill
    <3> QED
      BY <1>3, <3>1, <3>2, <3>3, ThreadQueue
  <2>4. ~halted'
    <3>1. CASE IdleCommand
      <4>1. Len(queue) <= 3
        <5>1. ~Has(queue, CommandObjs)
          BY <3>1 DEF IdleCommand, TimerInv, OneCommandQueued
        <5> QED
          BY <2>2, <5>1, FourKinds
          DEF TimerInv, OneCommandQueued, TimedOut, Spaced, ButtonSpaced,
              BleSpaced, BatteryStill
      <4>2. Len(queue) < QSTO_SIZE
        BY <2>2, <4>1
      <4>3. PICK c \in Commands : Post(c[1], c[2])
        BY <3>1, <4>2 DEF IdleCommand
      <4> QED
        BY <4>3 DEF Post
    <3>2. CASE ~IdleCommand
      BY <1>3, <3>2
      DEF Thread, Discard, Transition, ResetDone, ReportByButton, ReportSent,
          BatteryStatus, Reply, ReplySent, IdlePoll, IdleReturn
    <3> QED
      BY <3>1, <3>2
  <2> QED
    BY <2>1, <2>3, <2>4 DEF BatteryStill
<1> QED
  BY <1>1, <1>2, <1>3 DEF Next

(* With four slots, and a charger that stays unplugged, no post ever finds *)
(* the queue full: the node never reaches rkh_assert.                      *)
THEOREM QueueNeverFull ==
  ASSUME Spacing, "battery" \notin Moving, QSTO_SIZE >= 4
  PROVE  Spec => []NeverHalts
<1>1. Init => BatteryStill /\ ~halted
  <2>1. Init => sm.battery = "stNotCharging" /\ halted = FALSE
    BY DEF Init
  <2>2. Init => ~Has(queue, {"e_battery"})
    BY NothingIn DEF Init
  <2> QED
    BY <2>1, <2>2 DEF BatteryStill
<1>2. /\ TypeOK /\ Agreement /\ Known /\ TimerInv /\ Spaced
      /\ BatteryStill /\ ~halted /\ [Next]_vars
      => BatteryStill' /\ ~halted'
  BY FitsStep
<1> QED
  BY <1>1, <1>2, TypeCorrect, AgreementInvariant, KnownInvariant, TimerInvariant,
     SpacedInvariant, PTL
  DEF Spec, NeverHalts

-----------------------------------------------------------------------------
(* A charger that is plugged and unplugged.  Its one event object may be   *)
(* queued a second time, since a plug is seen again SetRun samples after   *)
(* an unplug, within a reset; but not a third time, since an unplug takes  *)
(* FilterWidth samples, longer than an event ever waits.                   *)

\* The times it takes, in the code 24 ticks against 32.
ChargerSpacing == 2 * (SEND_TICKS + BLE_RESET_INTERVAL) < FilterWidth

AtMostTwice(q, o) ==
  \A i, j, k \in 1 .. Len(q) : i < j /\ j < k /\ q[i] = o /\ q[j] = o => q[k] # o

(* The ticks the last event of the charger may still wait.                 *)
BatteryCost ==
  left + Ahead(queue, CommandObjs, "e_battery", SEND_TICKS)
    + Ahead(queue, {"e_pushbutton"}, "e_battery", SEND_TICKS + BLE_RESET_INTERVAL)
    + (IF Linkable THEN Ahead(queue, {"e_ble"}, "e_battery", BLE_RESET_INTERVAL)
                   ELSE 0)

BatterySpaced ==
  /\ Has(queue, {"e_battery"}) /\ sm.battery = "stCharging" =>
       BatteryCost + ZeroRun(line["battery"]) < FilterWidth
  /\ AtMostTwice(queue, "e_battery")
  /\ sm.battery = "stNotCharging" => NoneBehind(queue, {"e_battery"}, {"e_battery"})

\* One more event, on another object or behind at most one on the same.
LEMMA PostTwice ==
  ASSUME NEW q \in Seq(EventObjs), NEW o \in EventObjs, NEW x
  PROVE  /\ NoneBehind(q, {x}, {x}) => AtMostTwice(Append(q, o), x)
         /\ o # x /\ AtMostTwice(q, x) => AtMostTwice(Append(q, o), x)
<1> DEFINE r == Append(q, o)
<1>1. /\ Len(r) = Len(q) + 1 /\ Len(q) \in Nat
      /\ \A i \in 1 .. Len(q) : r[i] = q[i]
      /\ r[Len(q) + 1] = o
  OBVIOUS
<1> HIDE DEF r
<1>2. ASSUME NEW i \in 1 .. Len(r), NEW j \in 1 .. Len(r), NEW k \in 1 .. Len(r),
             i < j, j < k, r[i] = x, r[j] = x, r[k] = x
      PROVE  /\ ~NoneBehind(q, {x}, {x})
             /\ o # x => ~AtMostTwice(q, x)
  <2>1. i \in 1 .. Len(q) /\ j \in 1 .. Len(q) /\ r[i] = q[i] /\ r[j] = q[j]
    BY <1>1, <1>2
  <2>2. ~NoneBehind(q, {x}, {x})
    BY <1>2, <2>1 DEF NoneBehind
  <2>3. o # x => k \in 1 .. Len(q) /\ r[k] = q[k]
    BY <1>1, <1>2
  <2> QED
    BY <1>2, <2>1, <2>2, <2>3 DEF AtMostTwice
<1>3. NoneBehind(q, {x}, {x}) => AtMostTwice(r, x)
  BY <1>2 DEF AtMostTwice
<1>4. o # x /\ AtMostTwice(q, x) => AtMostTwice(r, x)
  BY <1>2 DEF AtMostTwice
<1> QED
  BY <1>3, <1>4 DEF r

\* A get.
LEMMA GetTwice ==
  ASSUME NEW q \in Seq(EventObjs), q # <<>>, NEW x, AtMostTwice(q, x)
  PROVE  AtMostTwice(Tail(q), x)
<1> DEFINE r == Tail(q)
<1>1. /\ Len(r) = Len(q) - 1 /\ Len(q) \in Nat \ {0} /\ Len(r) \in Nat
      /\ \A i \in 1 .. Len(r) : r[i] = q[i + 1]
  OBVIOUS
<1> HIDE DEF r
<1>2. ASSUME NEW i \in 1 .. Len(r), NEW j \in 1 .. Len(r), NEW k \in 1 .. Len(r),
             i < j, j < k, r[i] = x, r[j] = x
      PROVE  r[k] # x
  <2>1. /\ i + 1 \in 1 .. Len(q) /\ j + 1 \in 1 .. Len(q) /\ k + 1 \in 1 .. Len(q)
        /\ i + 1 < j + 1 /\ j + 1 < k + 1
    <3>1. \A n \in 1 .. Len(r) : n \in Nat /\ n + 1 \in 1 .. Len(q)
      BY <1>1, SMTT(30)
    <3>2. i + 1 < j + 1 /\ j + 1 < k + 1
      BY <1>2, <3>1, SMTT(30)
    <3> QED
      BY <3>1, <3>2
  <2>2. r[i] = q[i + 1] /\ r[j] = q[j + 1] /\ r[k] = q[k + 1]
    BY <1>1
  <2> QED
    BY <1>2, <2>1, <2>2 DEF AtMostTwice
<1> QED
  BY <1>2 DEF AtMostTwice, r

\* The posts of a tick.
LEMMA TickTwice ==
  ASSUME TypeOK, NEW p
  PROVE  /\ NoneBehind(queue, {"e_battery"}, {"e_battery"}) =>
              AtMostTwice(After(p), "e_battery")
         /\ p["e_battery"] = Nothing /\ AtMostTwice(queue, "e_battery") =>
              AtMostTwice(After(p), "e_battery")
<1> DEFINE x  == "e_battery"
           q1 == queue \o If("e_pushbutton", p)
           q2 == q1 \o If("e_ble", p)
           q3 == q2 \o If("e_battery", p)
           q4 == q3 \o If("e_tmr", p)
<1>0. queue \in Seq(EventObjs)
  BY DEF TypeOK
<1>1. ASSUME NEW q \in Seq(EventObjs), NEW o \in EventObjs
      PROVE  /\ q \o If(o, p) \in Seq(EventObjs)
             /\ o # x \/ p[o] = Nothing =>
                  /\ NoneBehind(q, {x}, {x}) => NoneBehind(q \o If(o, p), {x}, {x})
                  /\ AtMostTwice(q, x) => AtMostTwice(q \o If(o, p), x)
             /\ NoneBehind(q, {x}, {x}) => AtMostTwice(q \o If(o, p), x)
  <2>1. CASE p[o] = Nothing
    <3>1. q \o If(o, p) = q
      BY <2>1 DEF If
    <3>2. NoneBehind(q, {x}, {x}) => AtMostTwice(q, x)
      BY DEF NoneBehind, AtMostTwice
    <3> QED
      BY <3>1, <3>2
  <2>2. CASE p[o] # Nothing
    <3>1. q \o If(o, p) = Append(q, o)
      BY <2>2 DEF If
    <3>2. Append(q, o) \in Seq(EventObjs)
      OBVIOUS
    <3>3. o # x /\ NoneBehind(q, {x}, {x}) => NoneBehind(Append(q, o), {x}, {x})
      BY PostAdds
    <3>4. /\ NoneBehind(q, {x}, {x}) => AtMostTwice(Append(q, o), x)
          /\ o # x /\ AtMostTwice(q, x) => AtMostTwice(Append(q, o), x)
      BY PostTwice
    <3> HIDE DEF x
    <3> QED
      BY <2>2, <3>1, <3>2, <3>3, <3>4
  <2> QED
    BY <2>1, <2>2
<1> HIDE DEF x
<1>2. /\ q1 \in Seq(EventObjs)
      /\ NoneBehind(queue, {x}, {x}) => NoneBehind(q1, {x}, {x})
      /\ AtMostTwice(queue, x) => AtMostTwice(q1, x)
  BY <1>0, <1>1 DEF EventObjs, x
<1> HIDE DEF q1
<1>3. /\ q2 \in Seq(EventObjs)
      /\ NoneBehind(q1, {x}, {x}) => NoneBehind(q2, {x}, {x})
      /\ AtMostTwice(q1, x) => AtMostTwice(q2, x)
  BY <1>1, <1>2 DEF EventObjs, x
<1> HIDE DEF q2
<1>4. /\ q3 \in Seq(EventObjs)
      /\ NoneBehind(q2, {x}, {x}) => AtMostTwice(q3, x)
      /\ p["e_battery"] = Nothing /\ AtMostTwice(q2, x) => AtMostTwice(q3, x)
  BY <1>1, <1>3 DEF EventObjs
<1> HIDE DEF q3
<1>5. AtMostTwice(q3, x) => AtMostTwice(q4, x)
  BY <1>1, <1>4 DEF EventObjs, x
<1>6. After(p) = q4
  BY DEF After, q1, q2, q3
<1> QED
  BY <1>2, <1>3, <1>4, <1>5, <1>6 DEF x

\* One kind of event, at most once, and one object, at most twice.
LEMMA OnlyOne ==
  ASSUME NEW q, NEW A, NoneBehind(q, A, A), Len(q) \in Nat
  PROVE  \E i : \A j \in 1 .. Len(q) : q[j] \in A => j = i
<1>1. CASE \A j \in 1 .. Len(q) : q[j] \notin A
  BY <1>1
<1>2. ASSUME NEW i \in 1 .. Len(q), q[i] \in A,
             NEW j \in 1 .. Len(q), q[j] \in A
      PROVE  j = i
  BY <1>2 DEF NoneBehind
<1>3. CASE \E i \in 1 .. Len(q) : q[i] \in A
  BY <1>2, <1>3
<1> QED
  BY <1>1, <1>3

LEMMA OnlyTwo ==
  ASSUME NEW q, NEW o, AtMostTwice(q, o), Len(q) \in Nat
  PROVE  \E i, k : \A j \in 1 .. Len(q) : q[j] = o => j \in {i, k}
<1>1. CASE NoneBehind(q, {o}, {o})
  <2>1. PICK i : \A j \in 1 .. Len(q) : q[j] \in {o} => j = i
    BY <1>1, OnlyOne
  <2> QED
    BY <2>1
<1>2. CASE ~NoneBehind(q, {o}, {o})
  <2>1. PICK i, k \in 1 .. Len(q) : i < k /\ q[i] = o /\ q[k] = o
    BY <1>2 DEF NoneBehind
  <2>2. ASSUME NEW j \in 1 .. Len(q), q[j] = o PROVE j \in {i, k}
    BY <2>1, <2>2 DEF AtMostTwice
  <2> QED
    BY <2>2
<1> QED
  BY <1>1, <1>2

\* One element more.
LEMMA OneMore ==
  ASSUME NEW S, IsFiniteSet(S), NEW n \in Nat, Cardinality(S) <= n,
         NEW T, NEW x, T = S \cup {x}, NEW m \in Nat, m = n + 1
  PROVE  IsFiniteSet(T) /\ Cardinality(T) <= m
<1>1. Cardinality(S) \in Nat
  BY FS_CardinalityType
<1>2. /\ IsFiniteSet(T)
      /\ Cardinality(T) = IF x \in S THEN Cardinality(S) ELSE Cardinality(S) + 1
  BY FS_AddElement, Zenon
<1> DEFINE s == Cardinality(S)
           t == Cardinality(T)
<1>3. t = s \/ t = s + 1
  BY <1>2
<1>4. s \in Nat /\ s <= n
  BY <1>1
<1> HIDE DEF s, t
<1>5. t <= m
  BY <1>3, <1>4
<1> QED
  BY ONLY <1>2, <1>5 DEF t

LEMMA SixAtMost ==
  ASSUME NEW a, NEW b, NEW c, NEW d, NEW e, NEW f
  PROVE  /\ IsFiniteSet({a, b, c, d, e, f}) /\ Cardinality({a, b, c, d, e, f}) <= 6
         /\ IsFiniteSet({a, b, c, d, e}) /\ Cardinality({a, b, c, d, e}) <= 5
<1> DEFINE S0 == {}
           S1 == {a}
           S2 == {a, b}
           S3 == {a, b, c}
           S4 == {a, b, c, d}
           S5 == {a, b, c, d, e}
           S6 == {a, b, c, d, e, f}
<1>1. S1 = S0 \cup {a}
  OBVIOUS
<1>2. S2 = S1 \cup {b}
  OBVIOUS
<1>3. S3 = S2 \cup {c}
  OBVIOUS
<1>4. S4 = S3 \cup {d}
  OBVIOUS
<1>5. S5 = S4 \cup {e}
  OBVIOUS
<1>6. S6 = S5 \cup {f}
  OBVIOUS
<1>7. IsFiniteSet(S0) /\ Cardinality(S0) <= 0
  BY ONLY FS_EmptySet
<1> HIDE DEF S0, S1, S2, S3, S4, S5, S6
<1>8. IsFiniteSet(S1) /\ Cardinality(S1) <= 1
  <2>1. 0 \in Nat /\ 1 \in Nat /\ 1 = 0 + 1
    OBVIOUS
  <2> QED
    BY ONLY <1>1, <1>7, <2>1, OneMore
<1>9. IsFiniteSet(S2) /\ Cardinality(S2) <= 2
  <2>1. 1 \in Nat /\ 2 \in Nat /\ 2 = 1 + 1
    OBVIOUS
  <2> QED
    BY ONLY <1>2, <1>8, <2>1, OneMore
<1>10. IsFiniteSet(S3) /\ Cardinality(S3) <= 3
  <2>1. 2 \in Nat /\ 3 \in Nat /\ 3 = 2 + 1
    OBVIOUS
  <2> QED
    BY ONLY <1>3, <1>9, <2>1, OneMore
<1>11. IsFiniteSet(S4) /\ Cardinality(S4) <= 4
  <2>1. 3 \in Nat /\ 4 \in Nat /\ 4 = 3 + 1
    OBVIOUS
  <2> QED
    BY ONLY <1>4, <1>10, <2>1, OneMore
<1>12. IsFiniteSet(S5) /\ Cardinality(S5) <= 5
  <2>1. 4 \in Nat /\ 5 \in Nat /\ 5 = 4 + 1
    OBVIOUS
  <2> QED
    BY ONLY <1>5, <1>11, <2>1, OneMore
<1>13. IsFiniteSet(S6) /\ Cardinality(S6) <= 6
  <2>1. 5 \in Nat /\ 6 \in Nat /\ 6 = 5 + 1
    OBVIOUS
  <2> QED
    BY ONLY <1>6, <1>12, <2>1, OneMore
<1> QED
  BY ONLY <1>12, <1>13 DEF S5, S6

\* A queue of at most one event of each of four kinds, and two of the
\* charger, has at most six, five if none is a command.
LEMMA FiveKinds ==
  ASSUME NEW q \in Seq(EventObjs), AtMostTwice(q, "e_battery"),
         NoneBehind(q, CommandObjs, CommandObjs), NoneBehind(q, {"e_tmr"}, {"e_tmr"}),
         NoneBehind(q, {"e_pushbutton"}, {"e_pushbutton"}),
         NoneBehind(q, {"e_ble"}, {"e_ble"})
  PROVE  /\ Len(q) <= 6
         /\ ~Has(q, CommandObjs) => Len(q) <= 5
<1> DEFINE S == 1 .. Len(q)
<1>1. Len(q) \in Nat
  OBVIOUS
<1>2. \A j \in S : q[j] \in CommandObjs \cup {"e_tmr", "e_pushbutton", "e_ble", "e_battery"}
  <2>1. \A j \in S : q[j] \in EventObjs
    OBVIOUS
  <2> QED
    BY <2>1 DEF EventObjs, CommandObjs
<1>3. PICK f : \A j \in S : q[j] \in CommandObjs => j = f
  BY <1>1, OnlyOne
<1>4. PICK b : \A j \in S : q[j] \in {"e_tmr"} => j = b
  BY <1>1, OnlyOne
<1>5. PICK c : \A j \in S : q[j] \in {"e_pushbutton"} => j = c
  BY <1>1, OnlyOne
<1>6. PICK d : \A j \in S : q[j] \in {"e_ble"} => j = d
  BY <1>1, OnlyOne
<1>7. PICK a, e : \A j \in S : q[j] = "e_battery" => j \in {a, e}
  BY <1>1, OnlyTwo
<1>8. S \in SUBSET {a, b, c, d, e, f}
  BY <1>2, <1>3, <1>4, <1>5, <1>6, <1>7
<1>9. ~Has(q, CommandObjs) => S \in SUBSET {a, b, c, d, e}
  BY <1>2, <1>4, <1>5, <1>6, <1>7 DEF Has
<1>10. Cardinality(S) = Len(q)
  <2>1. 1 \in Int /\ Len(q) \in Int
    BY <1>1
  <2>2. Cardinality(1 .. Len(q)) = IF 1 > Len(q) THEN 0 ELSE Len(q) - 1 + 1
    BY ONLY <2>1, FS_Interval
  <2> QED
    BY ONLY <1>1, <2>2
<1> HIDE DEF S
<1>11. Cardinality(S) <= Cardinality({a, b, c, d, e, f})
  BY <1>8, SixAtMost, FS_Subset
<1>12. ~Has(q, CommandObjs) => Cardinality(S) <= Cardinality({a, b, c, d, e})
  BY <1>9, SixAtMost, FS_Subset
<1>13. /\ Cardinality({a, b, c, d, e, f}) \in Nat
       /\ Cardinality({a, b, c, d, e}) \in Nat
  BY SixAtMost, FS_CardinalityType
<1>14. Cardinality({a, b, c, d, e, f}) <= 6 /\ Cardinality({a, b, c, d, e}) <= 5
  BY ONLY SixAtMost
<1> QED
  BY ONLY <1>1, <1>10, <1>11, <1>12, <1>13, <1>14

\* What a tick makes of the charger's line.
LEMMA BatteryTick ==
  ASSUME TypeOK, NEW b \in Bit, NEW d, d = Shift(line["battery"], b), NEW n \in Nat
  PROVE  /\ sm.battery = "stCharging" /\ (n + 1) + ZeroRun(line["battery"]) < FilterWidth =>
              /\ BatteryPost(d) = Nothing /\ BatteryNext(d) = "stCharging"
              /\ n + ZeroRun(d) < FilterWidth
         /\ BatteryPost(d) = Nothing => BatteryNext(d) = sm.battery
         /\ BatteryPost(d) # Nothing =>
              IF sm.battery = "stCharging"
              THEN BatteryNext(d) = "stNotCharging"
              ELSE BatteryNext(d) = "stCharging" /\ ZeroRun(d) = 0
<1> DEFINE l == line["battery"]
<1>1. sm.battery \in {"stNotCharging", "stCharging"} /\ l \in Line
  BY DEF TypeOK, Inputs
<1> HIDE DEF l
<1>2. /\ ZeroRun(l) \in Nat /\ ZeroRun(d) \in Nat
      /\ ZeroRun(d) <= ZeroRun(l) + 1
      /\ b = 1 => ZeroRun(d) = 0
      /\ IsSet(d) => b = 1
      /\ IsUnset(d) => b = 0 /\ ZeroRun(l) + 1 >= FilterWidth
  BY <1>1, RunsGrow DEF l
<1>3. ~(IsSet(d) /\ IsUnset(d))
  BY <1>2
<1>4. CASE sm.battery = "stCharging"
  <2>1. /\ BatteryPost(d) = IF IsUnset(d) THEN "evBatteryChargerDisconnected" ELSE Nothing
        /\ BatteryNext(d) = IF IsUnset(d) THEN "stNotCharging" ELSE "stCharging"
    BY <1>3, <1>4 DEF BatteryPost, BatteryNext
  <2>2. ASSUME (n + 1) + ZeroRun(l) < FilterWidth
        PROVE  ~IsUnset(d) /\ n + ZeroRun(d) < FilterWidth
    BY <1>2, <2>2
  <2>3. "evBatteryChargerDisconnected" # Nothing
    BY DEF Nothing
  <2> QED
    BY <1>4, <2>1, <2>2, <2>3 DEF l
<1>5. CASE sm.battery = "stNotCharging"
  <2>1. /\ BatteryPost(d) = IF IsSet(d) THEN "evBatteryChargerConnected" ELSE Nothing
        /\ BatteryNext(d) = IF IsSet(d) THEN "stCharging" ELSE "stNotCharging"
    BY <1>5 DEF BatteryPost, BatteryNext
  <2>2. sm.battery # "stCharging" /\ "evBatteryChargerConnected" # Nothing
    BY <1>5 DEF Nothing
  <2>3. IsSet(d) => ZeroRun(d) = 0
    BY <1>2
  <2> QED
    BY <1>5, <2>1, <2>2, <2>3
<1> QED
  BY <1>1, <1>4, <1>5

\* The cost is a number of ticks.
LEMMA BatteryCostType ==
  ASSUME TypeOK PROVE BatteryCost \in Nat /\ BatteryCost >= left
<1>1. \A A : /\ Ahead(queue, A, "e_battery", SEND_TICKS) \in Nat
             /\ Ahead(queue, A, "e_battery", SEND_TICKS + BLE_RESET_INTERVAL) \in Nat
             /\ Ahead(queue, A, "e_battery", BLE_RESET_INTERVAL) \in Nat
  BY Times DEF Ahead
<1>2. left \in Nat
  BY DEF TypeOK
<1> QED
  BY <1>1, <1>2, Times DEF BatteryCost

\* What a tick leaves of the charger's events to wait for.
LEMMA TickBatteryCost ==
  ASSUME TypeOK, Agreement, TimerInv, Spaced, MayTick,
         NEW s \in [Inputs -> Bit], Sampled(s),
         NEW d, d = [i \in Inputs |-> Shift(line[i], s[i])], Handle(d, Posts(d))
  PROVE  /\ BatteryCost' \in Nat
         /\ BatteryCost' <= 2 * (SEND_TICKS + BLE_RESET_INTERVAL)
         /\ BatteryPost(d["battery"]) = Nothing /\ Has(queue, {"e_battery"}) =>
              BatteryCost' + 1 <= BatteryCost
<1> DEFINE p == Posts(d)
           R == BLE_RESET_INTERVAL
           c  == Ahead(queue, CommandObjs, "e_battery", SEND_TICKS)
           c1 == Ahead(queue', CommandObjs, "e_battery", SEND_TICKS)
           k  == Ahead(queue, {"e_pushbutton"}, "e_battery", SEND_TICKS + R)
           k1 == Ahead(queue', {"e_pushbutton"}, "e_battery", SEND_TICKS + R)
           e  == IF Linkable THEN Ahead(queue, {"e_ble"}, "e_battery", R) ELSE 0
           e1 == IF Linkable THEN Ahead(queue', {"e_ble"}, "e_battery", R) ELSE 0
           w  == left'
           u  == BatteryCost'
<1>1. /\ queue' = After(p) /\ pc' = pc /\ st' = st
      /\ left' = IF pc = "sched" THEN 0 ELSE left - 1
      /\ p["e_pushbutton"] = ButtonPost(d["button"])
      /\ p["e_battery"] = BatteryPost(d["battery"])
  BY DEF Handle, Posts
<1>2. /\ left \in Nat
      /\ pc = "sched" => queue = <<>> /\ left = 0
      /\ pc # "sched" => left > 0
      /\ pc \in {"sched", "idle", "reset", "reply", "report"}
  BY DEF TypeOK, MayTick, Spaced, WaitsBounded
<1>3. pc = "report" => ~Has(queue, {"e_pushbutton"}) /\ p["e_pushbutton"] = Nothing
  <2>1. pc = "report" => ~Has(queue, {"e_pushbutton"})
    BY DEF Spaced, ButtonSpaced
  <2>2. pc = "report" => ButtonPost(d["button"]) = Nothing
    BY TickHolds
  <2> QED
    BY <1>1, <2>1, <2>2
<1> HIDE DEF p
<1>4. /\ ~Has(queue, CommandObjs) => NoneBehind(queue', CommandObjs, {"e_battery"})
      /\ ~Has(queue, {"e_pushbutton"}) /\ p["e_pushbutton"] = Nothing =>
           NoneBehind(queue', {"e_pushbutton"}, {"e_battery"})
      /\ p["e_battery"] = Nothing =>
           \A A : NoneBehind(queue, A, {"e_battery"}) => NoneBehind(queue', A, {"e_battery"})
  <2>1. ~Has(queue, CommandObjs) => NoneBehind(queue', CommandObjs, {"e_battery"})
    <3>1. ~Has(queue, CommandObjs) => ~Has(queue', CommandObjs)
      BY <1>1, TickAdds DEF CommandObjs
    <3> QED
      BY <3>1 DEF Has, NoneBehind
  <2>2. ~Has(queue, {"e_pushbutton"}) /\ p["e_pushbutton"] = Nothing =>
          NoneBehind(queue', {"e_pushbutton"}, {"e_battery"})
    <3>1. ~Has(queue, {"e_pushbutton"}) /\ p["e_pushbutton"] = Nothing =>
            ~Has(queue', {"e_pushbutton"})
      BY <1>1, TickAdds
    <3> QED
      BY <3>1 DEF Has, NoneBehind
  <2>3. ASSUME p["e_battery"] = Nothing, NEW A, NoneBehind(queue, A, {"e_battery"})
        PROVE  NoneBehind(queue', A, {"e_battery"})
    BY <1>1, <2>3, TickAdds
  <2> QED
    BY <2>1, <2>2, <2>3
<1>5. R \in Nat /\ SEND_TICKS \in Nat /\ SEND_TICKS + R \in Nat
  BY Times
<1>6. /\ c \in Nat /\ k \in Nat /\ e \in Nat /\ c1 \in Nat /\ k1 \in Nat /\ e1 \in Nat
      /\ c1 <= SEND_TICKS /\ k1 <= SEND_TICKS + R /\ e1 <= R
      /\ ~Has(queue, CommandObjs) => c1 = 0
      /\ pc = "report" => k1 = 0
      /\ pc = "reset" => e1 = 0
  <2>1. \A q, A : \A n \in Nat : /\ Ahead(q, A, "e_battery", n) \in Nat
                                 /\ Ahead(q, A, "e_battery", n) <= n
    BY DEF Ahead
  <2>2. pc = "reset" => ~Linkable
    BY DEF Linkable, Agreement, ModeAgreement
  <2>3. c \in Nat /\ k \in Nat /\ e \in Nat
    BY <1>5, <2>1
  <2>4. c1 \in Nat /\ c1 <= SEND_TICKS /\ (~Has(queue, CommandObjs) => c1 = 0)
    BY <1>4, <1>5, <2>1 DEF Ahead
  <2>5. k1 \in Nat /\ k1 <= SEND_TICKS + R /\ (pc = "report" => k1 = 0)
    BY <1>3, <1>4, <1>5, <2>1 DEF Ahead
  <2>6. e1 \in Nat /\ e1 <= R /\ (pc = "reset" => e1 = 0)
    BY <1>5, <2>1, <2>2
  <2> QED
    BY <2>2, <2>3, <2>4, <2>5, <2>6
<1>7. BatteryCost = left + c + k + e /\ u = w + c1 + k1 + e1
  <2>1. BatteryCost = left + c + k + e
    BY DEF BatteryCost
  <2>2. u = left' + c1 + k1 + e1
    BY <1>1 DEF BatteryCost, Linkable
  <2> QED
    BY <2>1, <2>2
<1>8. p["e_battery"] = Nothing => c1 <= c /\ k1 <= k /\ e1 <= e
  <2>1. ASSUME p["e_battery"] = Nothing, NEW A, NEW n \in Nat
        PROVE  Ahead(queue', A, "e_battery", n) <= Ahead(queue, A, "e_battery", n)
    BY <1>4, <2>1, AheadFalls
  <2>2. ASSUME p["e_battery"] = Nothing PROVE c1 <= c
    BY <1>5, <2>1, <2>2
  <2>3. ASSUME p["e_battery"] = Nothing PROVE k1 <= k
    BY <1>5, <2>1, <2>3
  <2>4. ASSUME p["e_battery"] = Nothing PROVE e1 <= e
    <3>1. CASE Linkable
      BY <1>5, <2>1, <2>4, <3>1
    <3>2. CASE ~Linkable
      BY <3>2
    <3> QED
      BY <3>1, <3>2
  <2> QED
    BY <2>2, <2>3, <2>4
<1>9. /\ w \in Nat
      /\ pc \in {"sched", "idle"} => w = 0
      /\ pc \in {"reply", "report"} => w + 1 <= SEND_TICKS
      /\ pc = "reset" => w + 1 <= R
      /\ pc # "sched" => w + 1 = left
  BY <1>1, <1>2, <1>5 DEF Spaced, WaitsBounded
<1>10. pc = "reply" => ~Has(queue, CommandObjs)
  BY DEF TimerInv, OneCommandQueued
<1>11. Has(queue, {"e_battery"}) => pc # "sched"
  BY <1>2, NothingIn
<1> HIDE DEF R, c, c1, k, k1, e, e1, w, u
<1>12. u \in Nat
  BY <1>6, <1>7, <1>9
<1>13. u <= 2 * (SEND_TICKS + R)
  <2>1. CASE pc \in {"sched", "idle"}
    BY <1>5, <1>6, <1>7, <1>9, <2>1
  <2>2. CASE pc = "reply"
    <3>1. c1 = 0 /\ w + 1 <= SEND_TICKS
      BY <1>6, <1>9, <1>10, <2>2
    <3> QED
      BY <1>5, <1>6, <1>7, <1>9, <3>1
  <2>3. CASE pc = "report"
    <3>1. k1 = 0 /\ w + 1 <= SEND_TICKS
      BY <1>6, <1>9, <2>3
    <3> QED
      BY <1>5, <1>6, <1>7, <1>9, <3>1
  <2>4. CASE pc = "reset"
    <3>1. e1 = 0 /\ w + 1 <= R
      BY <1>6, <1>9, <2>4
    <3> QED
      BY <1>5, <1>6, <1>7, <1>9, <3>1
  <2> QED
    BY <1>2, <2>1, <2>2, <2>3, <2>4
<1>14. ASSUME p["e_battery"] = Nothing, Has(queue, {"e_battery"})
       PROVE  u + 1 <= BatteryCost
  <2>1. w + 1 = left /\ c1 <= c /\ k1 <= k /\ e1 <= e
    BY <1>8, <1>9, <1>11, <1>14
  <2> QED
    BY <1>2, <1>6, <1>7, <1>9, <2>1
<1> QED
  BY <1>1, <1>12, <1>13, <1>14 DEF u, R

\* A tick.
LEMMA TickBattery ==
  ASSUME TypeOK, Agreement, TimerInv, Spaced, ChargerSpacing, BatterySpaced, MayTick,
         NEW s \in [Inputs -> Bit], Sampled(s),
         NEW d, d = [i \in Inputs |-> Shift(line[i], s[i])], Handle(d, Posts(d))
  PROVE  BatterySpaced'
<1> DEFINE p == Posts(d)
           l == d["battery"]
           u == BatteryCost'
<1>1. /\ queue' = After(p)
      /\ sm'.battery = BatteryNext(l) /\ line'["battery"] = l
      /\ p["e_battery"] = BatteryPost(l)
  BY DEF Handle, Posts
<1>2. /\ u \in Nat /\ u <= 2 * (SEND_TICKS + BLE_RESET_INTERVAL)
      /\ BatteryPost(l) = Nothing /\ Has(queue, {"e_battery"}) => u + 1 <= BatteryCost
  BY TickBatteryCost
<1>3. /\ l = Shift(line["battery"], s["battery"]) /\ s["battery"] \in Bit
      /\ sm.battery \in {"stNotCharging", "stCharging"}
      /\ line["battery"] \in Line
  BY DEF Inputs, TypeOK
<1>4. /\ ZeroRun(line["battery"]) \in Nat
      /\ BatteryCost \in Nat /\ BatteryCost >= left /\ left \in Nat
      /\ Has(queue, {"e_battery"}) => left > 0
  <2>1. ZeroRun(line["battery"]) \in Nat
    BY <1>3 DEF ZeroRun, Line
  <2>2. Has(queue, {"e_battery"}) => left > 0
    BY NothingIn DEF MayTick
  <2> QED
    BY <2>1, <2>2, BatteryCostType DEF TypeOK
<1>5. \A n \in Nat :
        /\ sm.battery = "stCharging" /\ (n + 1) + ZeroRun(line["battery"]) < FilterWidth =>
             /\ BatteryPost(l) = Nothing /\ BatteryNext(l) = "stCharging"
             /\ n + ZeroRun(l) < FilterWidth
        /\ BatteryPost(l) = Nothing => BatteryNext(l) = sm.battery
        /\ BatteryPost(l) # Nothing =>
             IF sm.battery = "stCharging"
             THEN BatteryNext(l) = "stNotCharging"
             ELSE BatteryNext(l) = "stCharging" /\ ZeroRun(l) = 0
  BY <1>3, BatteryTick
<1>6. /\ BatteryPost(l) = Nothing => BatteryNext(l) = sm.battery
      /\ BatteryPost(l) # Nothing =>
           IF sm.battery = "stCharging"
           THEN BatteryNext(l) = "stNotCharging"
           ELSE BatteryNext(l) = "stCharging" /\ ZeroRun(l) = 0
  <2>1. 0 \in Nat
    OBVIOUS
  <2> QED
    BY <1>5, <2>1
<1>7. ZeroRun(l) \in Nat
  BY <1>3, RunsGrow
<1> HIDE DEF p, l
<1>8. /\ Has(queue', {"e_battery"}) <=> Has(queue, {"e_battery"}) \/ p["e_battery"] # Nothing
      /\ p["e_battery"] = Nothing \/ ~Has(queue, {"e_battery"}) =>
           (NoneBehind(queue, {"e_battery"}, {"e_battery"}) =>
              NoneBehind(queue', {"e_battery"}, {"e_battery"}))
      /\ NoneBehind(queue, {"e_battery"}, {"e_battery"}) => AtMostTwice(queue', "e_battery")
      /\ p["e_battery"] = Nothing /\ AtMostTwice(queue, "e_battery") =>
           AtMostTwice(queue', "e_battery")
  <2>1. Has(queue', {"e_battery"}) <=> Has(queue, {"e_battery"}) \/ p["e_battery"] # Nothing
    BY <1>1, TickAdds
  <2>2. p["e_battery"] = Nothing \/ ~Has(queue, {"e_battery"}) =>
           (NoneBehind(queue, {"e_battery"}, {"e_battery"}) =>
              NoneBehind(queue', {"e_battery"}, {"e_battery"}))
    BY <1>1, TickAdds
  <2> QED
    BY <1>1, <2>1, <2>2, TickTwice
<1>9. ~Has(queue, {"e_battery"}) =>
        NoneBehind(queue, {"e_battery"}, {"e_battery"})
  BY DEF Has, NoneBehind
<1>10. /\ Has(queue, {"e_battery"}) /\ sm.battery = "stCharging" =>
            BatteryCost + ZeroRun(line["battery"]) < FilterWidth
       /\ AtMostTwice(queue, "e_battery")
       /\ sm.battery = "stNotCharging" =>
            NoneBehind(queue, {"e_battery"}, {"e_battery"})
  BY DEF BatterySpaced
\* Plugged and with an event waiting, it is quiet.
<1>11. ASSUME Has(queue, {"e_battery"}), sm.battery = "stCharging"
       PROVE  /\ BatteryPost(l) = Nothing /\ BatteryNext(l) = "stCharging"
              /\ u + ZeroRun(l) < FilterWidth
  <2> DEFINE n == BatteryCost - 1
  <2>1. n \in Nat /\ n + 1 = BatteryCost
    BY <1>4, <1>11
  <2> HIDE DEF n
  <2>2. (n + 1) + ZeroRun(line["battery"]) < FilterWidth
    BY <1>10, <1>11, <2>1
  <2>3. /\ BatteryPost(l) = Nothing /\ BatteryNext(l) = "stCharging"
        /\ n + ZeroRun(l) < FilterWidth
    BY <1>5, <1>11, <2>1, <2>2
  <2>4. u <= n
    <3>1. u + 1 <= n + 1
      BY <1>2, <1>11, <2>1, <2>3
    <3> HIDE DEF u
    <3> QED
      BY <1>2, <2>1, <3>1
  <2> HIDE DEF u
  <2>5. u + ZeroRun(l) < FilterWidth
    BY <1>2, <1>7, <2>1, <2>3, <2>4
  <2> QED
    BY <2>3, <2>5
<1> HIDE DEF u
<1>12. ASSUME Has(queue', {"e_battery"}), BatteryNext(l) = "stCharging"
       PROVE  u + ZeroRun(l) < FilterWidth
  <2>1. CASE Has(queue, {"e_battery"}) /\ sm.battery = "stCharging"
    BY <1>11, <2>1
  <2>2. CASE ~(Has(queue, {"e_battery"}) /\ sm.battery = "stCharging")
    <3>1. BatteryPost(l) # Nothing
      BY <1>1, <1>3, <1>6, <1>8, <1>12, <2>2
    <3>2. ZeroRun(l) = 0
      BY <1>3, <1>6, <1>12, <3>1
    <3> QED
      BY <1>2, <3>2, Times DEF ChargerSpacing
  <2> QED
    BY <2>1, <2>2
<1>13. AtMostTwice(queue', "e_battery")
  BY <1>1, <1>3, <1>8, <1>9, <1>10, <1>11
<1>14. BatteryNext(l) = "stNotCharging" => NoneBehind(queue', {"e_battery"}, {"e_battery"})
  BY <1>1, <1>3, <1>6, <1>8, <1>9, <1>10, <1>11
<1> QED
  BY <1>1, <1>12, <1>13, <1>14 DEF BatterySpaced, u

\* A get.
LEMMA DispatchBattery ==
  ASSUME TypeOK, Agreement, Tagged, TimerInv, Spaced, BatterySpaced, Thread, Dispatching
  PROVE  BatterySpaced'
<1> DEFINE h == Head(queue)
           R == BLE_RESET_INTERVAL
           c  == Ahead(queue, CommandObjs, "e_battery", SEND_TICKS)
           c1 == Ahead(queue', CommandObjs, "e_battery", SEND_TICKS)
           k  == Ahead(queue, {"e_pushbutton"}, "e_battery", SEND_TICKS + R)
           k1 == Ahead(queue', {"e_pushbutton"}, "e_battery", SEND_TICKS + R)
           e  == Ahead(queue, {"e_ble"}, "e_battery", R)
           e1 == Ahead(queue', {"e_ble"}, "e_battery", R)
           w  == left'
           u  == BatteryCost'
<1>1. sm' = sm /\ line' = line
  BY ThreadQueue DEF isrVars
<1>2. /\ queue \in Seq(EventObjs) /\ queue # <<>> /\ queue' = Tail(queue)
  BY DEF Dispatching, TypeOK
<1>3. left = 0
  BY DispatchWaits
<1>4. \/ h \in CommandObjs /\ w = SEND_TICKS /\ st' = st
      \/ h = "e_pushbutton" /\ w = SEND_TICKS /\ st' = st
      \/ h = "e_pushbutton" /\ w = R /\ st' = "unlinked"
      \/ h = "e_ble" /\ w = R /\ st = "linked" /\ st' = "unlinked"
      \/ w = 0 /\ (Linkable' => Linkable \/ h = "e_ble")
  BY DispatchWaits DEF Linkable
<1>5. R \in Nat /\ SEND_TICKS \in Nat /\ SEND_TICKS + R \in Nat
  BY Times
<1>6. c \in Nat /\ k \in Nat /\ e \in Nat /\ c1 \in Nat /\ k1 \in Nat /\ e1 \in Nat
  <2>1. \A q, A : \A n \in Nat : Ahead(q, A, "e_battery", n) \in Nat
    BY DEF Ahead
  <2> QED
    BY <1>5, <2>1
<1>7. /\ BatteryCost = left + c + k + (IF Linkable THEN e ELSE 0)
      /\ u = w + c1 + k1 + (IF Linkable' THEN e1 ELSE 0)
  BY DEF BatteryCost
<1>8. /\ NoneBehind(queue, CommandObjs, CommandObjs)
      /\ NoneBehind(queue, {"e_pushbutton"}, {"e_pushbutton"})
      /\ NoneBehind(queue, {"e_ble"}, {"e_ble"})
  BY DEF TimerInv, OneCommandQueued, Spaced, ButtonSpaced, BleSpaced
<1>9. /\ c1 <= c /\ k1 <= k /\ e1 <= e
      /\ Has(queue', {"e_battery"}) => Has(queue, {"e_battery"})
  BY <1>5, GetAhead
<1>10. ASSUME Has(queue', {"e_battery"})
       PROVE  /\ h \in CommandObjs => c1 = 0 /\ c = SEND_TICKS
              /\ h = "e_pushbutton" => k1 = 0 /\ k = SEND_TICKS + R
              /\ h = "e_ble" => e1 = 0 /\ e = R
  <2>1. h \in CommandObjs => c1 = 0 /\ c = SEND_TICKS
    BY <1>5, <1>8, <1>10, GetAhead
  <2>2. h = "e_pushbutton" => k1 = 0 /\ k = SEND_TICKS + R
    BY <1>5, <1>8, <1>10, GetAhead
  <2>3. h = "e_ble" => e1 = 0 /\ e = R
    BY <1>5, <1>8, <1>10, GetAhead
  <2> QED
    BY <2>1, <2>2, <2>3
<1> HIDE DEF h, R, c, c1, k, k1, e, e1, w, u
<1>11. ASSUME Has(queue', {"e_battery"}) PROVE u \in Nat /\ u <= BatteryCost
  <2>1. BatteryCost = c + k + (IF Linkable THEN e ELSE 0)
    BY <1>3, <1>6, <1>7
  <2>2. CASE h \in CommandObjs /\ w = SEND_TICKS /\ st' = st
    <3>1. Linkable' = Linkable /\ c1 = 0 /\ c = SEND_TICKS
      BY <1>10, <1>11, <2>2 DEF Linkable
    <3> QED
      BY <1>5, <1>6, <1>7, <1>9, <2>1, <2>2, <3>1
  <2>3. CASE h = "e_pushbutton" /\ w = SEND_TICKS /\ st' = st
    <3>1. Linkable' = Linkable /\ k1 = 0 /\ k = SEND_TICKS + R
      BY <1>10, <1>11, <2>3 DEF Linkable
    <3> QED
      BY <1>5, <1>6, <1>7, <1>9, <2>1, <2>3, <3>1
  <2>4. CASE h = "e_pushbutton" /\ w = R /\ st' = "unlinked"
    <3>1. ~Linkable' /\ k1 = 0 /\ k = SEND_TICKS + R
      BY <1>10, <1>11, <2>4 DEF Linkable
    <3>2. u = w + c1
      BY <1>5, <1>6, <1>7, <2>4, <3>1
    <3> QED
      BY <1>5, <1>6, <1>9, <2>1, <2>4, <3>1, <3>2
  <2>5. CASE h = "e_ble" /\ w = R /\ st = "linked" /\ st' = "unlinked"
    <3>1. Linkable /\ ~Linkable' /\ e = R
      BY <1>10, <1>11, <2>5 DEF Linkable
    <3>2. u = w + c1 + k1
      BY <1>5, <1>6, <1>7, <2>5, <3>1
    <3> QED
      BY <1>5, <1>6, <1>9, <2>1, <2>5, <3>1, <3>2
  <2>6. CASE w = 0 /\ (Linkable' => Linkable \/ h = "e_ble")
    <3>1. h = "e_ble" => e1 = 0
      BY <1>10, <1>11
    <3>2. (IF Linkable' THEN e1 ELSE 0) <= (IF Linkable THEN e ELSE 0)
      BY <1>6, <1>9, <2>6, <3>1
    <3> QED
      BY <1>6, <1>7, <1>9, <2>1, <2>6, <3>2
  <2> QED
    BY <1>4, <2>2, <2>3, <2>4, <2>5, <2>6
<1>12. Has(queue', {"e_battery"}) /\ sm'.battery = "stCharging" =>
         u + ZeroRun(line'["battery"]) < FilterWidth
  <2> SUFFICES ASSUME Has(queue', {"e_battery"}), sm'.battery = "stCharging"
               PROVE  u + ZeroRun(line'["battery"]) < FilterWidth
    OBVIOUS
  <2>1. BatteryCost + ZeroRun(line["battery"]) < FilterWidth
    BY <1>1, <1>9 DEF BatterySpaced
  <2>2. ZeroRun(line["battery"]) \in Nat /\ BatteryCost \in Nat
    <3>1. line["battery"] \in Line
      BY DEF TypeOK, Inputs
    <3> QED
      BY <3>1, BatteryCostType DEF ZeroRun, Line
  <2>3. u \in Nat /\ u <= BatteryCost
    BY <1>11
  <2>4. u + ZeroRun(line["battery"]) < FilterWidth
    BY <2>1, <2>2, <2>3
  <2> QED
    BY <1>1, <2>4
<1>13. AtMostTwice(queue', "e_battery")
  BY <1>2, GetTwice DEF BatterySpaced
<1>14. sm'.battery = "stNotCharging" => NoneBehind(queue', {"e_battery"}, {"e_battery"})
  BY <1>1, <1>2, GetLeaves DEF BatterySpaced
<1> QED
  BY <1>12, <1>13, <1>14 DEF BatterySpaced, u

\* A step of the thread that only ends a wait, or posts a command.
LEMMA CalmBattery ==
  ASSUME TypeOK, BatterySpaced, UNCHANGED isrVars,
         left' = 0, Linkable' => Linkable,
         \/ queue' = queue
         \/ \E o \in CommandObjs : queue' = Append(queue, o)
  PROVE  BatterySpaced'
<1> DEFINE R == BLE_RESET_INTERVAL
           c  == Ahead(queue, CommandObjs, "e_battery", SEND_TICKS)
           c1 == Ahead(queue', CommandObjs, "e_battery", SEND_TICKS)
           k  == Ahead(queue, {"e_pushbutton"}, "e_battery", SEND_TICKS + R)
           k1 == Ahead(queue', {"e_pushbutton"}, "e_battery", SEND_TICKS + R)
           e  == IF Linkable THEN Ahead(queue, {"e_ble"}, "e_battery", R) ELSE 0
           e1 == IF Linkable' THEN Ahead(queue', {"e_ble"}, "e_battery", R) ELSE 0
           u  == BatteryCost'
<1>1. sm' = sm /\ line' = line
  BY DEF isrVars
<1>2. /\ Has(queue', {"e_battery"}) <=> Has(queue, {"e_battery"})
      /\ \A A : NoneBehind(queue, A, {"e_battery"}) => NoneBehind(queue', A, {"e_battery"})
      /\ AtMostTwice(queue, "e_battery") => AtMostTwice(queue', "e_battery")
  <2>1. ASSUME NEW o \in CommandObjs, queue' = Append(queue, o)
        PROVE  /\ Has(queue', {"e_battery"}) <=> Has(queue, {"e_battery"})
               /\ \A A : NoneBehind(queue, A, {"e_battery"}) =>
                           NoneBehind(queue', A, {"e_battery"})
               /\ AtMostTwice(queue, "e_battery") => AtMostTwice(queue', "e_battery")
    <3>1. queue \in Seq(EventObjs) /\ o \in EventObjs /\ o \notin {"e_battery"}
      BY <2>1 DEF TypeOK, CommandObjs, EventObjs
    <3>2. \A A, B : /\ Has(Append(queue, o), A) <=> Has(queue, A) \/ o \in A
                    /\ NoneBehind(queue, A, B) /\ ~(o \in B /\ Has(queue, A))
                         => NoneBehind(Append(queue, o), A, B)
      BY <3>1, PostAdds
    <3>3. AtMostTwice(queue, "e_battery") => AtMostTwice(Append(queue, o), "e_battery")
      BY <3>1, PostTwice
    <3> QED
      BY <2>1, <3>1, <3>2, <3>3
  <2> QED
    BY <2>1
<1>3. R \in Nat /\ SEND_TICKS \in Nat /\ SEND_TICKS + R \in Nat /\ left \in Nat
  BY Times DEF TypeOK
<1>4. /\ c1 \in Nat /\ c1 <= c /\ k1 \in Nat /\ k1 <= k /\ e1 \in Nat /\ e1 <= e
      /\ c \in Nat /\ k \in Nat /\ e \in Nat
  <2>1. ASSUME NEW A, NEW n \in Nat
        PROVE  /\ Ahead(queue', A, "e_battery", n) <= Ahead(queue, A, "e_battery", n)
               /\ Ahead(queue', A, "e_battery", n) \in Nat
               /\ Ahead(queue, A, "e_battery", n) \in Nat
    <3>1. Ahead(queue', A, "e_battery", n) <= Ahead(queue, A, "e_battery", n)
      BY <1>2, AheadFalls
    <3> QED
      BY <3>1 DEF Ahead
  <2>2. c1 \in Nat /\ c1 <= c /\ c \in Nat
    BY <1>3, <2>1
  <2>3. k1 \in Nat /\ k1 <= k /\ k \in Nat
    BY <1>3, <2>1
  <2>4. e1 \in Nat /\ e1 <= e /\ e \in Nat
    BY <1>3, <2>1
  <2> QED
    BY <2>2, <2>3, <2>4
<1>5. BatteryCost = left + c + k + e /\ u = 0 + c1 + k1 + e1
  BY DEF BatteryCost
<1> HIDE DEF R, c, c1, k, k1, e, e1, u
<1>6. u \in Nat /\ u <= BatteryCost /\ BatteryCost \in Nat
  <2>1. u \in Nat /\ u <= c + k + e
    BY <1>4, <1>5
  <2>2. BatteryCost \in Nat /\ c + k + e <= BatteryCost
    BY <1>3, <1>4, <1>5
  <2> QED
    BY <1>4, <2>1, <2>2
<1>7. ZeroRun(line["battery"]) \in Nat
  <2>1. line["battery"] \in Line
    BY DEF TypeOK, Inputs
  <2> QED
    BY <2>1 DEF ZeroRun, Line
<1>8. BatteryCost + ZeroRun(line["battery"]) < FilterWidth =>
        u + ZeroRun(line["battery"]) < FilterWidth
  BY <1>6, <1>7
<1> QED
  BY <1>1, <1>2, <1>8 DEF BatterySpaced, u

\* A step of the thread.
LEMMA ThreadBattery ==
  ASSUME TypeOK, Agreement, Tagged, TimerInv, Spaced, BatterySpaced, Thread
  PROVE  BatterySpaced'
<1>0. UNCHANGED isrVars
  BY ThreadQueue
<1>1. CASE Dispatching
  BY <1>1, DispatchBattery
<1>2. CASE ResetDone \/ ReplySent \/ IdleReturn
  <2>1. left' = 0 /\ queue' = queue /\ st' = st
    BY <1>2 DEF ResetDone, ReplySent, IdleReturn
  <2> QED
    BY <1>0, <2>1, CalmBattery DEF Linkable
<1>3. CASE ReportSent
  <2>1. left' = 0 /\ queue' = queue /\ Linkable
    BY <1>3 DEF ReportSent, Linkable, Agreement, ModeAgreement
  <2> QED
    BY <1>0, <2>1, CalmBattery
<1>4. CASE IdlePoll
  <2>1. \A A, B : ~Has(queue', A) /\ NoneBehind(queue', A, B)
    BY <1>4, NothingIn DEF IdlePoll
  <2> QED
    BY <2>1 DEF BatterySpaced, AtMostTwice, Has
<1>5. CASE IdleCommand
  <2>1. PICK c \in Commands : Post(c[1], c[2]) \/ Halt
    BY <1>5 DEF IdleCommand
  <2>2. CASE Post(c[1], c[2])
    <3>1. left' = 0 /\ st' = st /\ queue' = Append(queue, c[1])
      BY <2>2 DEF Post
    <3>2. c[1] \in CommandObjs
      BY DEF Command, CommandObjs
    <3> QED
      BY <1>0, <3>1, <3>2, CalmBattery DEF Linkable
  <2>3. CASE Halt
    <3>1. /\ queue' = queue /\ left' = left /\ st' = st /\ sm' = sm /\ line' = line
      BY <2>3 DEF Halt, isrVars
    <3>2. BatteryCost' = BatteryCost
      BY <3>1 DEF BatteryCost, Linkable
    <3> QED
      BY <3>1, <3>2 DEF BatterySpaced
  <2> QED
    BY <2>1, <2>2, <2>3
<1> QED
  BY <1>1, <1>2, <1>3, <1>4, <1>5, ThreadSplits

\* One step.
LEMMA BatteryStep ==
  ASSUME TypeOK, Agreement, Known, TimerInv, Spaced, ChargerSpacing, BatterySpaced,
         [Next]_vars
  PROVE  BatterySpaced'
<1>1. ASSUME queue' = queue, left' = left, st' = st, sm' = sm, line' = line
      PROVE  BatterySpaced'
  <2>1. BatteryCost' = BatteryCost
    BY <1>1 DEF BatteryCost, Linkable
  <2> QED
    BY <1>1, <2>1 DEF BatterySpaced
<1>2. CASE UNCHANGED vars
  BY <1>1, <1>2 DEF vars, isrVars
<1>3. CASE Thread
  BY <1>3, ThreadBattery DEF Known
<1>4. CASE Tick
  <2>1. PICK s \in [Inputs -> Bit] :
          LET d == [i \in Inputs |-> Shift(line[i], s[i])]
              p == Posts(d)
          IN /\ Sampled(s)
             /\ IF Len(After(p)) > QSTO_SIZE THEN Halt ELSE Handle(d, p)
    BY <1>4 DEF Tick
  <2>2. CASE Halt
    BY <1>1, <2>2 DEF Halt, isrVars
  <2>3. ASSUME NEW d, d = [i \in Inputs |-> Shift(line[i], s[i])], Handle(d, Posts(d))
        PROVE  BatterySpaced'
    BY <1>4, <2>1, <2>3, TickBattery DEF Tick
  <2> QED
    BY <2>1, <2>2, <2>3
<1> QED
  BY <1>2, <1>3, <1>4 DEF Next

\* The charger's events throughout.
LEMMA BatteryInvariant ==
  ASSUME Spacing, ChargerSpacing PROVE Spec => []BatterySpaced
<1>1. Init => BatterySpaced
  <2> SUFFICES ASSUME Init PROVE BatterySpaced
    OBVIOUS
  <2>1. queue = <<>> /\ \A A, B : ~Has(queue, A) /\ NoneBehind(queue, A, B)
    BY NothingIn DEF Init
  <2> QED
    BY <2>1 DEF BatterySpaced, AtMostTwice
<1>2. /\ TypeOK /\ Agreement /\ Known /\ TimerInv /\ Spaced /\ BatterySpaced
      /\ [Next]_vars
      => BatterySpaced'
  BY BatteryStep
<1> QED
  BY <1>1, <1>2, TypeCorrect, AgreementInvariant, KnownInvariant, TimerInvariant,
     SpacedInvariant, PTL
  DEF Spec

\* One step, with room for all.
LEMMA SixStep ==
  ASSUME TypeOK, Agreement, Known, TimerInv, Spaced, BatterySpaced, ~halted,
         QSTO_SIZE >= 6, [Next]_vars
  PROVE  ~halted'
<1>1. /\ NoneBehind(queue, CommandObjs, CommandObjs)
      /\ NoneBehind(queue, {"e_tmr"}, {"e_tmr"})
      /\ NoneBehind(queue, {"e_pushbutton"}, {"e_pushbutton"})
      /\ NoneBehind(queue, {"e_ble"}, {"e_ble"})
      /\ AtMostTwice(queue, "e_battery")
      /\ queue \in Seq(EventObjs)
  BY DEF TimerInv, OneCommandQueued, TimedOut, Spaced, ButtonSpaced, BleSpaced,
         BatterySpaced, TypeOK
<1>2. CASE UNCHANGED vars
  BY <1>2 DEF vars
<1>3. CASE Tick
  <2>1. PICK s \in [Inputs -> Bit] :
          LET d == [i \in Inputs |-> Shift(line[i], s[i])]
              p == Posts(d)
          IN /\ Sampled(s)
             /\ IF Len(After(p)) > QSTO_SIZE THEN Halt ELSE Handle(d, p)
    BY <1>3 DEF Tick
  <2> DEFINE d == [i \in Inputs |-> Shift(line[i], s[i])]
             p == Posts(d)
             r == After(p)
  <2>2. /\ Has(queue, {"e_pushbutton"}) => p["e_pushbutton"] = Nothing
        /\ Has(queue, {"e_ble"}) => p["e_ble"] = Nothing
        /\ Has(queue, {"e_tmr"}) => p["e_tmr"] = Nothing
    <3>1. Has(queue, {"e_tmr"}) => ~TimerFires
      BY DEF TimerInv, Counting, TimerFires
    <3>2. /\ Has(queue, {"e_pushbutton"}) => ButtonPost(d["button"]) = Nothing
          /\ Has(queue, {"e_ble"}) => BlePost(d["ble"]) = Nothing
      BY <1>3, <2>1, TickHolds DEF Tick
    <3> QED
      BY <3>1, <3>2 DEF Posts
  <2>3. r \in Seq(EventObjs)
    BY AfterType
  <2>4. AtMostTwice(r, "e_battery")
    <3>1. CASE sm.battery = "stNotCharging"
      BY <3>1, TickTwice DEF BatterySpaced
    <3>2. CASE ~Has(queue, {"e_battery"})
      <4>1. NoneBehind(queue, {"e_battery"}, {"e_battery"})
        BY <3>2 DEF Has, NoneBehind
      <4> QED
        BY <4>1, TickTwice
    <3>3. CASE Has(queue, {"e_battery"}) /\ sm.battery # "stNotCharging"
      <4>1. sm.battery = "stCharging"
        <5>1. sm.battery \in {"stNotCharging", "stCharging"}
          BY DEF TypeOK
        <5> QED
          BY <3>3, <5>1
      <4>2. left > 0 /\ left \in Nat
        <5>1. MayTick
          BY <1>3 DEF Tick
        <5>2. queue # <<>>
          BY <3>3, NothingIn
        <5>3. pc # "sched" => left > 0
          BY <5>1 DEF MayTick
        <5>4. pc = "sched" => queue = <<>>
          BY <5>1 DEF MayTick
        <5> QED
          BY <5>2, <5>3, <5>4 DEF TypeOK
      <4> DEFINE n == BatteryCost - 1
      <4>3. n \in Nat /\ n + 1 = BatteryCost
        BY <4>2, BatteryCostType
      <4> HIDE DEF n
      <4>4. (n + 1) + ZeroRun(line["battery"]) < FilterWidth
        BY <3>3, <4>1, <4>3 DEF BatterySpaced
      <4>5. d["battery"] = Shift(line["battery"], s["battery"]) /\ s["battery"] \in Bit
        BY DEF Inputs
      <4>6. BatteryPost(d["battery"]) = Nothing
        BY <4>1, <4>3, <4>4, <4>5, BatteryTick
      <4>7. p["e_battery"] = Nothing
        BY <4>6 DEF Posts
      <4> QED
        BY <4>7, TickTwice DEF BatterySpaced
    <3> QED
      BY <3>1, <3>2, <3>3
  <2> HIDE DEF p
  <2>5. NoneBehind(r, CommandObjs, CommandObjs)
    BY <1>1, TickAdds DEF CommandObjs
  <2>6. NoneBehind(r, {"e_tmr"}, {"e_tmr"})
    BY <1>1, <2>2, TickAdds
  <2>7. /\ NoneBehind(r, {"e_pushbutton"}, {"e_pushbutton"})
        /\ NoneBehind(r, {"e_ble"}, {"e_ble"})
    BY <1>1, <2>2, TickAdds
  <2> HIDE DEF r
  <2>8. Len(r) <= 6 /\ Len(r) \in Nat
    BY <2>3, <2>4, <2>5, <2>6, <2>7, FiveKinds
  <2>9. ~(Len(r) > QSTO_SIZE)
    BY <2>8
  <2>10. Handle(d, Posts(d))
    BY <2>1, <2>9 DEF r, p
  <2> HIDE DEF d
  <2> QED
    BY <2>10 DEF Handle
<1>4. CASE IdleCommand
  <2>1. ~Has(queue, CommandObjs)
    BY <1>4 DEF IdleCommand, TimerInv, OneCommandQueued
  <2>2. Len(queue) <= 5 /\ Len(queue) \in Nat
    BY <1>1, <2>1, FiveKinds
  <2>3. Len(queue) < QSTO_SIZE
    BY <2>2
  <2>4. PICK c \in Commands : Post(c[1], c[2])
    BY <1>4, <2>3 DEF IdleCommand
  <2> QED
    BY <2>4 DEF Post
<1>5. CASE Thread /\ ~IdleCommand
  BY <1>5
  DEF Thread, Discard, Transition, ResetDone, ReportByButton, ReportSent,
      BatteryStatus, Reply, ReplySent, IdlePoll, IdleReturn
<1> QED
  BY <1>2, <1>3, <1>4, <1>5 DEF Next

(* With six slots, two more than main.c gives the queue, no post ever      *)
(* finds it full and the node never reaches rkh_assert, whatever the       *)
(* charger does.                                                           *)
THEOREM SixSlotsSuffice ==
  ASSUME Spacing, ChargerSpacing, QSTO_SIZE >= 6
  PROVE  Spec => []NeverHalts
<1>1. Init => ~halted
  BY DEF Init
<1>2. /\ TypeOK /\ Agreement /\ Known /\ TimerInv /\ Spaced /\ BatterySpaced
      /\ ~halted /\ [Next]_vars
      => ~halted'
  BY SixStep
<1> QED
  BY <1>1, <1>2, TypeCorrect, AgreementInvariant, KnownInvariant, TimerInvariant,
     SpacedInvariant, BatteryInvariant, PTL
  DEF Spec, NeverHalts
=============================================================================
