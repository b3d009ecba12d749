-------------------------------- MODULE PlatC --------------------------------
(***************************************************************************)
(* The firmware of the PlatC node (src/SAMD21): the active object platC    *)
(* (platC.c) that RKH's cooperative scheduler runs in the main thread, and *)
(* the 10 ms tick interrupt that samples the pins, runs the push button,   *)
(* BLE and battery state machines and the RKH timer, and posts events to   *)
(* the active object's queue.                                              *)
(*                                                                         *)
(* The queue holds POINTERS to statically allocated events; an event is    *)
(* re-tagged in place before each post (RKH_SET_STATIC_EVENT), so what a   *)
(* queued pointer means is looked up only when it is dispatched: queue     *)
(* holds event objects, ev their present contents.                         *)
(*                                                                         *)
(* The thread runs each event to completion.  A run-to-completion step     *)
(* that busy-waits is cut at the wait, where ticks come in: pc is          *)
(*   "sched"   the scheduler loop (rkh_fwk_enter), between events;         *)
(*   "idle"    rkh_hook_idle, parsing received bytes, interrupts enabled;  *)
(*   "reset"   unlinkedEntry, in the delay_ms of bgm113_startAdvertising;  *)
(*   "reply"   a polled transmission that ends the step;                   *)
(*   "report"  sendMotionByButton's transmission, motionEntry to follow.   *)
(* An interrupt anywhere else in a step commutes with it.  Steps that do   *)
(* not wait take microseconds, and the tick timer is re-armed at the end   *)
(* of its handler, so the queue drains before the next tick.               *)
(***************************************************************************)
EXTENDS Debounce, Sequences

CONSTANTS
  QSTO_SIZE,             (* Capacity of platC's queue: 4.                   *)
  UNLINKED_TIMEOUT,      (* Ticks of advertising before hiding: 6000.       *)
  MOTION_DET_TIME,       (* Ticks of motion indication: 300.                *)
  SHORT2LONG_BUTT_TIME,  (* Ticks that make a press a long one: 300.        *)
  BLE_RESET_INTERVAL,    (* Ticks of the module's reset pulse: 10.          *)
  ACCEL_WINDOW_TIME,     (* Ticks of an accelerometer window: 100.          *)
  SEND_TICKS,            (* Bound: ticks during one transmission.           *)
  Moving,                (* Bound: the inputs that change in an instance.   *)
  Commands               (* Bound: the commands a phone sends, see Command. *)

Inputs == {"button", "ble", "battery"}

(* The event objects the queue points at.                                  *)
EventObjs == {"e_tmr", "e_pushbutton", "e_ble", "e_battery",
              "e_cfg", "e_fitness", "e_platCGetCfg", "e_platCGetData"}

(* Their contents: a signal, or, for a command, what its handler does with *)
(* it: updateCfg refuses a threshold out of range or stores the buzzer     *)
(* setting, updateFitness stores fitnessFlag.                              *)
CfgPayloads == {"reject", "buzzerOn", "buzzerOff"}
FitnessPayloads == {"run", "stop"}
Contents ==
  {"evInitTout", "evUnlikedTout", "evMotionIndicatorTout", "evOk",
   "evConnected", "evDisconnected", "evPushbuttonShortPress",
   "evPushbuttonLongPress", "evBatteryChargerConnected",
   "evBatteryChargerDisconnected", "evPlatCGetCfg", "evPlatCGetData"}
    \cup CfgPayloads \cup FitnessPayloads

(* Commands as the handlers of platC_cmds_handlers.c post them.            *)
Command ==
  ({"e_cfg"} \X CfgPayloads) \cup ({"e_fitness"} \X FitnessPayloads)
    \cup {<<"e_platCGetCfg", "evPlatCGetCfg">>,
          <<"e_platCGetData", "evPlatCGetData">>}

ASSUME PlatCAssumption ==
  /\ \A t \in {QSTO_SIZE, UNLINKED_TIMEOUT, MOTION_DET_TIME,
               SHORT2LONG_BUTT_TIME, BLE_RESET_INTERVAL,
               ACCEL_WINDOW_TIME} : t \in Nat \ {0}
  /\ SEND_TICKS \in Nat /\ SEND_TICKS < UNLINKED_TIMEOUT
  /\ Moving \subseteq Inputs
  /\ Commands \subseteq Command

VARIABLES
  (* The active object. *)
  st,          (* Its leaf state.                                          *)
  hist,        (* steadySHist: the last active child of steady.            *)
  g,           (* g_controlData, its flags.                                *)
  pc,          (* Where the thread is, see above.                          *)
  left,        (* Ticks the thread may or must still spend there.          *)
  (* Shared between thread and interrupt. *)
  queue,       (* platC's queue of pointers.                               *)
  ev,          (* The contents of every event object.                      *)
  tmr,         (* me->tmr: ntick, and used: in the list of timers.         *)
  poll,        (* A new second began since the last poll for commands.     *)
  halted,      (* rkh_assert was reached: interrupts off, endless loop.    *)
  (* The interrupt's static variables. *)
  line,        (* filter of each input.                                    *)
  sm,          (* state of each input's state machine.                     *)
  tout,        (* tout of push_button_SM.                                  *)
  window,      (* accelWindowTime of accel_sampler.                        *)
  (* Outputs. *)
  leds,        (* What the LEDs show.                                      *)
  buzzer,      (* Buzzer on.                                               *)
  bleReset,    (* BLE_RESET_PIN held: the BLE module is off.               *)
  (* History, read by properties alone. *)
  stay,        (* Ticks since entry to a state that has a timer.           *)
  lost         (* Objects whose last event was discarded in motionDetect.  *)

isrVars  == <<line, sm, tout, window>>
outVars  == <<leds, buzzer, bleReset>>
histVars == <<stay, lost>>
vars == <<st, hist, g, pc, left, queue, ev, tmr, poll, halted,
          isrVars, outVars, histVars>>

(***************************************************************************)
(* The hierarchical state machine.  motionDetect hangs from the root, the  *)
(* others are children of steady.  Its rows for evMotionDetect are left    *)
(* out: no code of the firmware posts that signal, since                   *)
(* platC_motionDetectedCmd_proc is in no table and no interrupt callback   *)
(* is registered.                                                          *)
(***************************************************************************)
Steady == {"unlinked", "hidden", "linked"}
States == Steady \cup {"motionDetect"}

History == "steadySHist"

(* RKH_TRREG: state, signal, target. *)
Transitions ==
  {<<"unlinked",     "evUnlikedTout",          "hidden">>,
   <<"unlinked",     "evConnected",            "linked">>,
   <<"hidden",       "evPushbuttonLongPress",  "unlinked">>,
   <<"linked",       "evPushbuttonShortPress", "motionDetect">>,
   <<"linked",       "evPushbuttonLongPress",  "unlinked">>,
   <<"linked",       "evDisconnected",         "unlinked">>,
   <<"motionDetect", "evMotionIndicatorTout",  History>>}

BatterySignals ==
  {"evBatteryChargerConnected", "evBatteryChargerDisconnected"}

(* RKH_TRINT: what a state handles in place, its own rows and steady's.    *)
Internal(s) ==
  CfgPayloads \cup {"evPlatCGetCfg"}
    \cup (IF s \in Steady THEN BatterySignals ELSE {})
    \cup (IF s = "linked" THEN {"evPlatCGetData"} \cup FitnessPayloads
                          ELSE {})

Target(row) == IF row[3] = History THEN hist ELSE row[3]

(* setLedsStatus: what the LEDs show for flags c. *)
Leds(c) ==
  IF c.isMotionDetect THEN "motion"
  ELSE IF c.isConnected THEN "ble"
  ELSE IF c.isBatteryCharging THEN "battery"
  ELSE "off"

(* rkh_tmr_start with a period of 0, and rkh_tmr_stop: a stopped timer     *)
(* stays in the list until the next tick.                                  *)
OneShot(n) == [ntick |-> n, used |-> TRUE]
Stop(t) == [t EXCEPT !.ntick = 0]

-----------------------------------------------------------------------------
(***************************************************************************)
(* Entry, exit and effect actions, as functions of what they read and      *)
(* write: x.g, x.tmr, x.leds, x.buzzer, x.bleReset, and x.tag, the         *)
(* contents of e_tmr.                                                      *)
(***************************************************************************)
Me == [g |-> g, tmr |-> tmr, leds |-> leds, buzzer |-> buzzer,
       bleReset |-> bleReset, tag |-> ev["e_tmr"]]

setLedsStatus(x) == [x EXCEPT !.leds = Leds(x.g)]

(* Variant: the LEDs are not refreshed. *)
linkedEntry_noLeds(x) == [x EXCEPT !.g.isConnected = TRUE]

linkedEntry(x) == setLedsStatus([x EXCEPT !.g.isConnected = TRUE])

(* Variant: sampling is left running. *)
unlinkedEntry_keepFitness(x) ==
  [setLedsStatus([x EXCEPT !.g.isConnected = FALSE]) EXCEPT !.bleReset = TRUE]

(* unlinkedEntry up to the delay of bsp_startBleAdvertisement ...          *)
unlinkedEntry(x) ==
  [setLedsStatus([x EXCEPT !.g.isConnected = FALSE,
                           !.g.isFitnessRunning = FALSE])
   EXCEPT !.bleReset = TRUE]

(* Variant: e_tmr keeps its last signal. *)
startAdvertising_noTag(x) ==
  [x EXCEPT !.bleReset = FALSE,
            !.g.isAdvertising = TRUE,
            !.tmr = OneShot(UNLINKED_TIMEOUT)]

(* ... and from its end.                                                   *)
startAdvertising(x) ==
  [x EXCEPT !.bleReset = FALSE,
            !.g.isAdvertising = TRUE,
            !.tag = "evUnlikedTout",
            !.tmr = OneShot(UNLINKED_TIMEOUT)]

(* Variant: the flag still says advertising. *)
hiddenEntry_keepFlag(x) == [x EXCEPT !.bleReset = TRUE]

hiddenEntry(x) == [x EXCEPT !.bleReset = TRUE, !.g.isAdvertising = FALSE]

(* Variant: e_tmr keeps its last signal. *)
motionEntry_noTag(x) ==
  [setLedsStatus([x EXCEPT !.tmr = OneShot(MOTION_DET_TIME),
                           !.g.isMotionDetect = TRUE])
   EXCEPT !.buzzer = x.g.isBuzzerEnabled \/ x.buzzer]

motionEntry(x) ==
  [setLedsStatus([x EXCEPT !.tag = "evMotionIndicatorTout",
                           !.tmr = OneShot(MOTION_DET_TIME),
                           !.g.isMotionDetect = TRUE])
   EXCEPT !.buzzer = x.g.isBuzzerEnabled \/ x.buzzer]

(* Variant: the timer runs on. *)
unlinkedExit_noStop(x) == x

unlinkedExit(x) == [x EXCEPT !.tmr = Stop(x.tmr)]

motionExit(x) ==
  [setLedsStatus([x EXCEPT !.tmr = Stop(x.tmr),
                           !.g.isMotionDetect = FALSE])
   EXCEPT !.buzzer = FALSE]

Entry(s, x) ==
  CASE s = "linked"       -> linkedEntry(x)
    [] s = "unlinked"     -> unlinkedEntry(x)
    [] s = "hidden"       -> hiddenEntry(x)
    [] s = "motionDetect" -> motionEntry(x)

Exit(s, x) ==
  CASE s = "unlinked"     -> unlinkedExit(x)
    [] s = "motionDetect" -> motionExit(x)
    [] OTHER              -> x

Becomes(x) ==
  /\ g' = x.g
  /\ tmr' = x.tmr
  /\ leds' = x.leds
  /\ buzzer' = x.buzzer
  /\ bleReset' = x.bleReset
  /\ ev' = [ev EXCEPT !["e_tmr"] = x.tag]

-----------------------------------------------------------------------------
(***************************************************************************)
(* Power up: main has initialised the board (BLE module held in reset),    *)
(* RKH_SMA_ACTIVATE has run init, loading isBuzzerEnabled from EEPROM, and *)
(* entered unlinked, now in the delay of its entry action.  An empty       *)
(* history stands for steady's default child.                              *)
(***************************************************************************)
Init ==
  /\ st = "unlinked"
  /\ hist = "unlinked"
  /\ g \in [isConnected : {FALSE}, isMotionDetect : {FALSE},
            isBatteryCharging : {FALSE}, isAdvertising : {FALSE},
            isFitnessRunning : {FALSE}, isBuzzerEnabled : BOOLEAN]
  /\ pc = "reset"
  /\ left = BLE_RESET_INTERVAL
  /\ queue = <<>>
  /\ ev = [o \in EventObjs |->
             CASE o = "e_tmr"          -> "evInitTout"
               [] o = "e_pushbutton"   -> "evPushbuttonLongPress"
               [] o = "e_ble"          -> "evOk"
               [] o = "e_battery"      -> "evBatteryChargerConnected"
               [] o = "e_cfg"          -> "reject"
               [] o = "e_fitness"      -> "stop"
               [] o = "e_platCGetCfg"  -> "evPlatCGetCfg"
               [] o = "e_platCGetData" -> "evPlatCGetData"]
  /\ tmr = [ntick |-> 0, used |-> FALSE]
  /\ poll = FALSE
  /\ halted = FALSE
  /\ line = [i \in Inputs |-> Cleared]
  /\ sm = [button |-> "stReleased", ble |-> "stDisconnected",
           battery |-> "stNotCharging"]
  /\ tout = 0
  /\ window = ACCEL_WINDOW_TIME
  /\ leds = "off"
  /\ buzzer = FALSE
  /\ bleReset = TRUE
  /\ stay = 0
  /\ lost = {}

-----------------------------------------------------------------------------
(***************************************************************************)
(* The tick interrupt: rkh_tmr_tick, which calls rkh_hook_timetick first.  *)
(* The operators below say what it does on the newest words d of the       *)
(* filters.                                                                *)
(***************************************************************************)
Nothing == "nothing"

(* push_button_SM, its static button being stPress exactly while state is  *)
(* not stReleased: what it posts, and its next state.                      *)
ButtonPost(d) ==
  IF sm.button = "stPress" /\ IsUnset(d) THEN "evPushbuttonShortPress"
  ELSE IF sm.button = "stPress" /\ tout = 1 THEN "evPushbuttonLongPress"
  ELSE Nothing

ButtonNext(d) ==
  CASE sm.button = "stReleased" /\ IsSet(d)               -> "stPress"
    [] ButtonPost(d) = "evPushbuttonLongPress"            -> "stLongPress"
    [] sm.button \in {"stPress", "stLongPress"} /\ IsUnset(d)
                                                          -> "stReleased"
    [] OTHER                                              -> sm.button

ToutNext(d) ==
  IF sm.button = "stReleased" /\ IsSet(d) THEN SHORT2LONG_BUTT_TIME
  ELSE IF sm.button = "stPress" /\ ~IsUnset(d) /\ tout > 0 THEN tout - 1
  ELSE tout

(* Variants: the end of a link, of charging, is not posted. *)
BlePost_noEnd(d) ==
  IF sm.ble = "stDisconnected" /\ IsSet(d) THEN "evConnected" ELSE Nothing
BatteryPost_noEnd(d) ==
  IF sm.battery = "stNotCharging" /\ IsSet(d)
  THEN "evBatteryChargerConnected" ELSE Nothing

(* ble_connection_SM and battery_charging_SM. *)
BlePost(d) ==
  IF sm.ble = "stDisconnected" /\ IsSet(d) THEN "evConnected"
  ELSE IF sm.ble = "stConnected" /\ IsUnset(d) THEN "evDisconnected"
  ELSE Nothing

BleNext(d) ==
  IF IsSet(d) THEN "stConnected"
  ELSE IF IsUnset(d) THEN "stDisconnected" ELSE sm.ble

BatteryPost(d) ==
  IF sm.battery = "stNotCharging" /\ IsSet(d)
  THEN "evBatteryChargerConnected"
  ELSE IF sm.battery = "stCharging" /\ IsUnset(d)
  THEN "evBatteryChargerDisconnected"
  ELSE Nothing

BatteryNext(d) ==
  IF IsSet(d) THEN "stCharging"
  ELSE IF IsUnset(d) THEN "stNotCharging" ELSE sm.battery

(* accel_sampler: a frame goes out when the window closes.                 *)
Sampling == g.isConnected /\ g.isFitnessRunning
SamplerSends == Sampling /\ window = 1

(* Variants: a stopped timer is not told from one that expires. *)
TimerFires_stopped == tmr.used /\ tmr.ntick <= 1
TimerNext_unchecked ==
  IF ~tmr.used THEN tmr
  ELSE [ntick |-> tmr.ntick - 1, used |-> tmr.ntick # 1]

(* The walk of rkh_tmr_tick over its list, here of one timer.              *)
TimerFires == tmr.used /\ tmr.ntick = 1
TimerNext ==
  IF ~tmr.used THEN tmr
  ELSE IF tmr.ntick = 0 THEN [tmr EXCEPT !.used = FALSE]
  ELSE [ntick |-> tmr.ntick - 1, used |-> tmr.ntick # 1]

(* The LEDs: while neither connected, charging nor indicating motion they  *)
(* go off, or toggle in turn every KEEP_ALIVE_TIME when advertising.       *)
LedsNext ==
  IF g.isConnected \/ g.isBatteryCharging \/ g.isMotionDetect THEN {leds}
  ELSE IF g.isAdvertising THEN {leds, "blink"} ELSE {"off"}

(* What a tick posts on each object, and the queue it leaves: the hook's   *)
(* posts in the order of its calls, then the timer's.                      *)
Posts(d) ==
  [e_pushbutton |-> ButtonPost(d["button"]),
   e_ble        |-> BlePost(d["ble"]),
   e_battery    |-> BatteryPost(d["battery"]),
   e_tmr        |-> IF TimerFires THEN ev["e_tmr"] ELSE Nothing]

If(o, p) == IF p[o] = Nothing THEN <<>> ELSE <<o>>

After(p) ==
  queue \o If("e_pushbutton", p) \o If("e_ble", p) \o If("e_battery", p)
        \o If("e_tmr", p)

(* A pin reads 1 when active.  A BLE module held in reset has no link.     *)
Sampled(s) ==
  /\ \A i \in Inputs \ Moving : s[i] = 0
  /\ bleReset => s["ble"] = 0

MayTick ==
  /\ ~halted
  /\ IF pc = "sched" THEN queue = <<>> ELSE left > 0

(* A post that finds the queue full: RKH_ASSERT(q->qty < q->nelems) ends   *)
(* in rkh_assert.  Nothing looks at what the step did before.              *)
Halt ==
  /\ halted' = TRUE
  /\ UNCHANGED <<st, hist, g, pc, left, queue, ev, tmr, poll,
                 isrVars, outVars, histVars>>

Handle(d, p) ==
  /\ line' = d
  /\ sm' = [button  |-> ButtonNext(d["button"]),
            ble     |-> BleNext(d["ble"]),
            battery |-> BatteryNext(d["battery"])]
  /\ tout' = ToutNext(d["button"])
  /\ window' = IF ~Sampling \/ SamplerSends THEN ACCEL_WINDOW_TIME
                                            ELSE window - 1
  /\ queue' = After(p)
  /\ ev' = [o \in EventObjs |->
              IF o \in DOMAIN p /\ p[o] # Nothing THEN p[o] ELSE ev[o]]
  /\ tmr' = TimerNext
  /\ leds' \in LedsNext
  /\ poll' = TRUE
  /\ left' = IF pc = "sched" THEN 0 ELSE left - 1
  /\ stay' = IF pc \in {"reset", "report"} THEN stay
             ELSE IF st = "unlinked" THEN Longer(stay, UNLINKED_TIMEOUT)
             ELSE IF st = "motionDetect" THEN Longer(stay, MOTION_DET_TIME)
             ELSE stay
  /\ lost' = {o \in lost : p[o] = Nothing}
  /\ UNCHANGED <<st, hist, g, pc, halted, buzzer, bleReset>>

Tick ==
  /\ MayTick
  /\ \E s \in [Inputs -> Bit] :
       LET d == [i \in Inputs |-> Shift(line[i], s[i])]
           p == Posts(d)
       IN /\ Sampled(s)
          /\ IF Len(After(p)) > QSTO_SIZE THEN Halt ELSE Handle(d, p)

-----------------------------------------------------------------------------
(***************************************************************************)
(* The thread: rkh_fwk_enter's loop.  With an event queued it gets the     *)
(* oldest and rkh_sm_dispatch searches the leaf state's rows, then its     *)
(* parent's; an event with no row is discarded.                            *)
(***************************************************************************)
Dispatching ==
  /\ ~halted
  /\ pc = "sched"
  /\ queue # <<>>
  /\ queue' = Tail(queue)

Event == ev[Head(queue)]

(* Variant: in motionDetect an event with no row waits at the head. *)
Discard_notInMotion ==
  /\ Dispatching
  /\ st # "motionDetect"
  /\ Event \notin Internal(st)
  /\ ~ \E row \in Transitions : row[1] = st /\ row[2] = Event
  /\ UNCHANGED <<st, hist, g, pc, left, ev, tmr, poll, halted,
                 isrVars, outVars, histVars>>

Discard ==
  /\ Dispatching
  /\ Event \notin Internal(st)
  /\ ~ \E row \in Transitions : row[1] = st /\ row[2] = Event
  /\ lost' = IF st = "motionDetect"
             THEN lost \cup ({Head(queue)} \cap {"e_ble", "e_battery"})
             ELSE lost
  /\ UNCHANGED <<st, hist, g, pc, left, ev, tmr, poll, halted,
                 isrVars, outVars, stay>>

(* The exit action, then, unless the row has the effect                    *)
(* sendMotionByButton, the entry action of the target.                     *)
Transition ==
  /\ Dispatching
  /\ \E row \in Transitions :
       /\ row[1] = st
       /\ row[2] = Event
       /\ row[2] # "evPushbuttonShortPress"
       /\ st' = Target(row)
       /\ Becomes(Entry(Target(row), Exit(st, Me)))
  /\ hist' = IF st \in Steady THEN st ELSE hist
  /\ pc' = IF st' = "unlinked" THEN "reset" ELSE "sched"
  /\ left' = IF st' = "unlinked" THEN BLE_RESET_INTERVAL ELSE 0
  /\ stay' = 0
  /\ UNCHANGED <<poll, halted, isrVars, lost>>

(* The delay of bsp_startBleAdvertisement is over.                         *)
ResetDone ==
  /\ pc = "reset"
  /\ left = 0
  /\ pc' = "sched"
  /\ Becomes(startAdvertising(Me))
  /\ UNCHANGED <<st, hist, left, queue, poll, halted, isrVars, histVars>>

(* linked, short press: the transition's effect sends a report ...         *)
ReportByButton ==
  /\ Dispatching
  /\ st = "linked"
  /\ Event = "evPushbuttonShortPress"
  /\ hist' = st
  /\ pc' = "report"
  /\ left' = SEND_TICKS
  /\ UNCHANGED <<st, g, ev, tmr, poll, halted, isrVars, outVars, histVars>>

(* ... and motionDetect is entered once it is out.                         *)
ReportSent ==
  /\ ~halted
  /\ pc = "report"
  /\ st' = "motionDetect"
  /\ Becomes(Entry("motionDetect", Me))
  /\ pc' = "sched"
  /\ left' = 0
  /\ stay' = 0
  /\ UNCHANGED <<hist, queue, poll, halted, isrVars, lost>>

(* setBatteryChargingStatus, unsetBatteryChargingStatus                    *)
BatteryStatus ==
  /\ Dispatching
  /\ Event \in Internal(st) \cap BatterySignals
  /\ Becomes(setLedsStatus([Me EXCEPT !.g.isBatteryCharging =
                              Event = "evBatteryChargerConnected"]))
  /\ UNCHANGED <<st, hist, pc, left, poll, halted, isrVars, histVars>>

(* updateCfg, updateFitness, sendCfg and sendMotionByCmd: each ends in the *)
(* transmission of an acknowledgement or of the data asked for.            *)
Reply ==
  /\ Dispatching
  /\ Event \in Internal(st) \ BatterySignals
  /\ g' = CASE Event = "buzzerOn"  -> [g EXCEPT !.isBuzzerEnabled = TRUE]
            [] Event = "buzzerOff" -> [g EXCEPT !.isBuzzerEnabled = FALSE]
            [] Event = "run"       -> [g EXCEPT !.isFitnessRunning = TRUE]
            [] Event = "stop"      -> [g EXCEPT !.isFitnessRunning = FALSE]
            [] OTHER               -> g
  /\ pc' = "reply"
  /\ left' = SEND_TICKS
  /\ UNCHANGED <<st, hist, ev, tmr, poll, halted, isrVars, outVars, histVars>>

ReplySent ==
  /\ ~halted
  /\ pc = "reply"
  /\ pc' = "sched"
  /\ left' = 0
  /\ UNCHANGED <<st, hist, g, queue, ev, tmr, poll, halted,
                 isrVars, outVars, histVars>>

(* Variant: polls for commands with events waiting. *)
IdlePoll_busy ==
  /\ ~halted
  /\ pc = "sched"
  /\ g.isConnected
  /\ poll
  /\ poll' = FALSE
  /\ pc' = "idle"
  /\ left' = 1
  /\ UNCHANGED <<st, hist, g, queue, ev, tmr, halted,
                 isrVars, outVars, histVars>>

(* rkh_hook_idle: in a connected node, once a second, parse the received   *)
(* bytes.  One tick may come in before the command found is posted.  The   *)
(* one-second period is abstracted to at most one poll a tick.             *)
IdlePoll ==
  /\ ~halted
  /\ pc = "sched"
  /\ queue = <<>>
  /\ g.isConnected
  /\ poll
  /\ poll' = FALSE
  /\ pc' = "idle"
  /\ left' = 1
  /\ UNCHANGED <<st, hist, g, queue, ev, tmr, halted,
                 isrVars, outVars, histVars>>

IdleReturn ==
  /\ ~halted
  /\ pc = "idle"
  /\ pc' = "sched"
  /\ left' = 0
  /\ UNCHANGED <<st, hist, g, queue, ev, tmr, poll, halted,
                 isrVars, outVars, histVars>>

Post(o, contents) ==
  /\ queue' = Append(queue, o)
  /\ ev' = [ev EXCEPT ![o] = contents]
  /\ pc' = "sched"
  /\ left' = 0
  /\ UNCHANGED <<st, hist, g, tmr, poll, halted, isrVars, outVars, histVars>>

IdleCommand ==
  /\ ~halted
  /\ pc = "idle"
  /\ \E c \in Commands :
       IF Len(queue) < QSTO_SIZE THEN Post(c[1], c[2]) ELSE Halt

Thread ==
  \/ Discard
  \/ Transition
  \/ ResetDone
  \/ ReportByButton
  \/ ReportSent
  \/ BatteryStatus
  \/ Reply
  \/ ReplySent
  \/ IdlePoll
  \/ IdleReturn
  \/ IdleCommand

Next ==
  \/ Tick
  \/ Thread

(***************************************************************************)
(* Fairness: the tick timer is re-armed by every tick, and the processor   *)
(* runs the loop whenever no interrupt is served.                          *)
(***************************************************************************)
Fairness ==
  /\ WF_vars(Tick)
  /\ WF_vars(Thread)

Spec == Init /\ [][Next]_vars

FairSpec == Spec /\ Fairness

-----------------------------------------------------------------------------
(***************************************************************************)
(* Properties.                                                             *)
(***************************************************************************)

(* Every variable keeps its type; the queue never exceeds its storage.     *)
TypeOK ==
  /\ st \in States
  /\ hist \in Steady
  /\ g \in [isConnected : BOOLEAN, isMotionDetect : BOOLEAN,
            isBatteryCharging : BOOLEAN, isAdvertising : BOOLEAN,
            isFitnessRunning : BOOLEAN, isBuzzerEnabled : BOOLEAN]
  /\ pc \in {"sched", "idle", "reset", "reply", "report"}
  /\ left \in Nat
  /\ queue \in Seq(EventObjs)
  /\ Len(queue) <= QSTO_SIZE
  /\ ev \in [EventObjs -> Contents]
  /\ tmr \in [ntick : Nat, used : BOOLEAN]
  /\ poll \in BOOLEAN
  /\ halted \in BOOLEAN
  /\ line \in [Inputs -> Line]
  /\ sm \in [button  : {"stReleased", "stPress", "stLongPress"},
             ble     : {"stDisconnected", "stConnected"},
             battery : {"stNotCharging", "stCharging"}]
  /\ tout \in Nat
  /\ window \in 1 .. ACCEL_WINDOW_TIME
  /\ leds \in {"motion", "ble", "battery", "blink", "off"}
  /\ buzzer \in BOOLEAN
  /\ bleReset \in BOOLEAN
  /\ stay \in Nat
  /\ lost \subseteq {"e_ble", "e_battery"}

(* The flags the interrupt and the idle hook act on agree with the state   *)
(* of the machine whenever an interrupt can look: a node that is not       *)
(* linked neither polls for commands nor samples, and an indication can    *)
(* only have begun in linked, which is where history will take it back.    *)
ModeAgreement ==
  /\ st \in {"unlinked", "hidden"} => ~g.isConnected /\ ~g.isFitnessRunning
  /\ st = "linked" => g.isConnected
  /\ st = "motionDetect" => g.isConnected /\ hist = "linked"
  /\ g.isMotionDetect <=> st = "motionDetect"
  /\ buzzer => st = "motionDetect"
  /\ pc = "report" => st = "linked" /\ hist = "linked"
  /\ pc = "reset" => st = "unlinked"

(* The BLE module is off exactly while the node hides or resets it, and a  *)
(* node whose module is on says so with isAdvertising, which hiding clears.*)
RadioAgreement ==
  /\ bleReset <=> st = "hidden" \/ pc = "reset"
  /\ ~bleReset => g.isAdvertising
  /\ st = "hidden" => ~g.isAdvertising

(* The one timer serves two states with one event object.  While it runs   *)
(* its event carries the signal of the state the node is in, and it never  *)
(* runs, nor is restarted, with an earlier timeout still queued: a stale   *)
(* pointer would be read with the new signal.                              *)
TimerAgreement ==
  /\ tmr.ntick > 0 =>
       /\ tmr.used
       /\ \/ st = "unlinked" /\ pc # "reset" /\ ev["e_tmr"] = "evUnlikedTout"
          \/ st = "motionDetect" /\ ev["e_tmr"] = "evMotionIndicatorTout"
       /\ \A i \in 1 .. Len(queue) : queue[i] # "e_tmr"
  /\ \A i, j \in 1 .. Len(queue) :
       queue[i] = "e_tmr" /\ queue[j] = "e_tmr" => i = j

(* A node goes into hiding only after advertising for the whole            *)
(* UNLINKED_TIMEOUT since it last entered unlinked.                        *)
HidesAfterTimeout ==
  [][st = "unlinked" /\ st' = "hidden" => stay = UNLINKED_TIMEOUT]_vars

(* An indication of motion lasts MOTION_DET_TIME, no less.                 *)
IndicatesInFull ==
  [][st = "motionDetect" /\ st' # "motionDetect" =>
       stay = MOTION_DET_TIME]_vars

(* No event object but the battery's is given new contents while a pointer *)
(* to it waits in the queue.                                               *)
QueuedIsStable ==
  [][\A i \in 1 .. Len(queue) :
       queue[i] # "e_battery" /\ ev'[queue[i]] # ev[queue[i]] =>
         i = 1 /\ queue' = Tail(queue)]_vars

Settled == pc = "sched" /\ queue = <<>>

(* With nothing left to handle, a node that believes it is connected has a *)
(* link, unless the link dropped during an indication of motion.           *)
ConnectedHasLink ==
  Settled /\ g.isConnected /\ "e_ble" \notin lost => sm.ble = "stConnected"

(* With nothing left to handle, the charging flag is the debounced pin,    *)
(* unless the pin changed during an indication of motion: re-tagging a     *)
(* queued battery event makes the older one say what the newer one says.   *)
ChargingIsPin ==
  Settled /\ "e_battery" \notin lost =>
    (g.isBatteryCharging <=> sm.battery = "stCharging")

(* The LEDs never show a state the node is not in.                         *)
LedsTruthful ==
  Settled => leds = Leds(g) \/ (Leds(g) = "off" /\ leds = "blink")

(* The queue never overflows: posts of the pins, the timer and a command   *)
(* never come so close that four slots are too few.                        *)
NeverHalts == ~halted

(* Comments of platC.c: linkedEntry sets "ble connected status", and the   *)
(* LEDs show "ble connection led status".  With nothing left to handle, a  *)
(* node in linked has a link.                                              *)
LinkedHasLink == Settled /\ st = "linked" => sm.ble = "stConnected"

(* Every event queued is eventually got from the queue, however the ticks  *)
(* add to it.                                                              *)
QueueDrains == queue # <<>> ~> queue = <<>>

(* Every indication of motion ends (and the buzzer stops).                 *)
IndicationEnds == st = "motionDetect" ~> st # "motionDetect"

(* A node that advertises is linked or hides.                              *)
AdvertisingEnds == st = "unlinked" ~> st # "unlinked"
=============================================================================
