------------------------------ MODULE MCPlatC ------------------------------
(* Instances of PlatC for TLC: the commands a phone sends in a run.        *)
EXTENDS PlatCChart

(***************************************************************************)
(* The proportions of the code's times, which every instance keeps: in     *)
(* ticks, a transmission of at most 150 bytes at 115200 baud takes 2, a    *)
(* press 8 to see, a reset 10, a release 32 (24 zeros make a press         *)
(* visible again), an indication or a long press 300, the timeout 6000.    *)
(* They imply PlatC_proofs!Spacing, on which QueueNeverFull and            *)
(* QueuedStaysAsPosted rest.                                               *)
(***************************************************************************)
ASSUME Proportions ==
  /\ 2 * SEND_TICKS <= SetRun
  /\ SetRun < BLE_RESET_INTERVAL
  /\ BLE_RESET_INTERVAL < FilterWidth - SetRun
  /\ FilterWidth < MOTION_DET_TIME
  /\ FilterWidth < SHORT2LONG_BUTT_TIME
  /\ MOTION_DET_TIME < UNLINKED_TIMEOUT

NoCommand == {}
OneCommand == {<<"e_platCGetCfg", "evPlatCGetCfg">>}
SettingCommands == ({"e_fitness"} \X FitnessPayloads)
                     \cup ({"e_cfg"} \X {"buzzerOff"})

ButtonAndBle == {"button", "ble"}
AllInputs == Inputs
=============================================================================
