----------------------------- MODULE PlatCChart -----------------------------
(***************************************************************************)
(* platC's state machine as platC.c declares it, given to the dispatcher   *)
(* of RkhSm.  PlatC has the outcome, which state and actions an event      *)
(* leads to, worked out by hand; DispatchAsInPlatC, which TLC evaluates in *)
(* every run of PlatC, says that the dispatcher comes to the same for      *)
(* every state, history and event.                                         *)
(***************************************************************************)
EXTENDS PlatC

None == "none"

TRINT(e, action) == [event |-> e, action |-> action, target |-> None]
TRREG(e, effect, target) ==
  [event |-> e, action |-> effect, target |-> target]

BatteryRows ==
  <<TRINT("evBatteryChargerConnected", "setBatteryChargingStatus"),
    TRINT("evBatteryChargerDisconnected", "unsetBatteryChargingStatus")>>

trtbl ==
  [steady |->
     <<TRINT("evPlatCCfg", "updateCfg"),
       TRINT("evPlatCGetCfg", "sendCfg"),
       TRREG("evMotionDetect", None, "motionDetect")>> \o BatteryRows,
   unlinked |->
     BatteryRows \o
     <<TRREG("evUnlikedTout", None, "hidden"),
       TRREG("evConnected", None, "linked")>>,
   hidden |->
     BatteryRows \o
     <<TRREG("evPushbuttonLongPress", None, "unlinked")>>,
   linked |->
     BatteryRows \o
     <<TRINT("evPlatCGetData", "sendMotionByCmd"),
       TRINT("evPlatCCfg", "updateCfg"),
       TRINT("evPlatCFitness", "updateFitness"),
       TRREG("evMotionDetect", None, "motionDetect"),
       TRREG("evPushbuttonShortPress", "sendMotionByButton", "motionDetect"),
       TRREG("evPushbuttonLongPress", None, "unlinked"),
       TRREG("evDisconnected", None, "unlinked")>>,
   motionDetect |->
     <<TRINT("evPlatCCfg", "updateCfg"),
       TRINT("evPlatCGetCfg", "sendCfg"),
       TRREG("evMotionIndicatorTout", None, History)>>]

Sm == INSTANCE RkhSm WITH
  Basic          <- States,
  Composite      <- {"steady"},
  Histories      <- {History},
  parent         <- [s \in States \cup {"steady", History} |->
                       IF s \in Steady \cup {History} THEN "steady" ELSE None],
  defchild       <- [steady |-> "unlinked"],
  initialAction  <- [steady |-> None],
  default        <- [v \in {History} |-> [target |-> None, action |-> None]],
  istate         <- "unlinked",
  iaction        <- "init",
  MAX_HCAL_DEPTH <- 3

(* The signal of an event object's contents.                               *)
Signal(c) ==
  IF c \in CfgPayloads THEN "evPlatCCfg"
  ELSE IF c \in FitnessPayloads THEN "evPlatCFitness" ELSE c

-----------------------------------------------------------------------------
(***************************************************************************)
(* PlatC's reading of a dispatch.  steady has neither entry nor exit       *)
(* action, so that leaving or entering it is nothing; an empty history is  *)
(* in PlatC one of steady's default child.                                 *)
(***************************************************************************)
Recorded(h) == IF h = None THEN "unlinked" ELSE h

Acts(run) == SelectSeq(run, LAMBDA a : a[2] # "steady")

HandledInPlace(s, h, c, d) ==
  /\ d.verdict = "RKH_EVT_PROC"
  /\ d.state = s /\ d.hist[History] = h
  /\ Len(d.run) = 1 /\ d.run[1][1] = "effect"

Taken(s, h, row, d) ==
  LET to     == IF row[3] = History THEN Recorded(h) ELSE row[3]
      effect == IF row[2] = "evPushbuttonShortPress"
                THEN <<<<"effect", "sendMotionByButton">>>> ELSE <<>>
  IN /\ d.verdict = "RKH_EVT_PROC"
     /\ d.state = to
     /\ d.hist[History] = IF s \in Steady THEN s ELSE h
     /\ Acts(d.run) = <<<<"exit", s>>>> \o effect \o <<<<"entry", to>>>>

(* For every state s, history h and contents c of an event: what Internal  *)
(* names is handled in place, a row of Transitions is taken, running exit, *)
(* effect and entry in PlatC's order and recording the history as PlatC    *)
(* does, and all else is discarded.  The machine is created in unlinked.   *)
ASSUME DispatchAsInPlatC ==
  /\ \A s \in States, h \in Steady \cup {None}, c \in Contents :
       LET d == Sm!rkh_sm_dispatch(s, [v \in {History} |-> h], Signal(c))
           rows == {row \in Transitions : row[1] = s /\ row[2] = c}
       IN /\ c \in Internal(s) => HandledInPlace(s, h, c, d)
          /\ \A row \in rows : Taken(s, h, row, d)
          /\ c \notin Internal(s) /\ rows = {} =>
               d.verdict = "RKH_EVT_NFOUND" /\ d.run = <<>>
  /\ LET d == Sm!rkh_sm_init([v \in {History} |-> None])
     IN /\ d.state = "unlinked" /\ d.hist[History] = None
        /\ Acts(d.run) = <<<<"effect", "init">>, <<"entry", "unlinked">>>>
=============================================================================
