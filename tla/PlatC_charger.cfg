SPECIFICATION Spec
CONSTANTS
  SetRun = 1
  FilterWidth = 4
  UNLINKED_TIMEOUT = 6
  MOTION_DET_TIME = 5
  SHORT2LONG_BUTT_TIME = 5
  BLE_RESET_INTERVAL = 2
  SEND_TICKS = 0
  QSTO_SIZE = 4
  ACCEL_WINDOW_TIME = 2
  Moving <- AllInputs
  Commands <- NoCommand
INVARIANTS
  ChargingIsPin
  LedsTruthful
