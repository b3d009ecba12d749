------------------------------- MODULE BleLink -------------------------------
(***************************************************************************)
(* The BLE module and the node's debouncer of its connection pin: what the *)
(* module tells (SppServer) and what the node believes (DebounceFilter).   *)
(* The pin is active low, and the module may change it several times       *)
(* between two ticks of the node.                                          *)
(***************************************************************************)
EXTENDS SppServer, DebounceFilter

linkVars == <<sppVars, vars>>

LinkInit == SppInit /\ Init

Tick == Sample(1 - pin) /\ UNCHANGED sppVars

LinkNext ==
  \/ SppNext /\ UNCHANGED vars
  \/ Tick

(* The module's loop runs on, and the node's timer ticks.  Events come at  *)
(* the rate of the air, and the loop is faster: it is not always the next  *)
(* event that comes in between its last one and its next look.             *)
LinkSpec ==
  /\ LinkInit /\ [][LinkNext]_linkVars
  /\ WF_linkVars(Server /\ UNCHANGED vars)
  /\ SF_linkVars(SendBegins /\ UNCHANGED vars)
  /\ WF_linkVars(Tick)

(* A phone that is gone for good is noticed by the node, whatever the      *)
(* module was doing when it went (lines 97-100 and 177-189, and platC.c    *)
(* 390-442).                                                               *)
LossIsNoticed == <>[]~link => <>[](level = 0)

(* A byte that reached the module does not stay there while a phone wants  *)
(* it, unless the phone keeps the loop busy with events for ever: it is    *)
(* sent or, by a reset, thrown away (lines 122-134).                       *)
BytesMove ==
  []<>(events = <<>>) => (rx # <<>> ~> rx = <<>> \/ ~ccc)
=============================================================================
