SPECIFICATION Spec
CONSTANTS
  SetRun = 2
  FilterWidth = 6
  UNLINKED_TIMEOUT = 8
  MOTION_DET_TIME = 7
  SHORT2LONG_BUTT_TIME = 7
  BLE_RESET_INTERVAL = 3
  SEND_TICKS = 1
  QSTO_SIZE = 4
  ACCEL_WINDOW_TIME = 2
  Moving <- ButtonAndBle
  Commands <- SettingCommands
INVARIANTS
  TypeOK
  ModeAgreement
  RadioAgreement
  TimerAgreement
  ConnectedHasLink
  NeverHalts
PROPERTIES
  HidesAfterTimeout
  IndicatesInFull
  QueuedIsStable
