SPECIFICATION KernelSpec
CONSTANTS
  e1 = e1
  e2 = e2
  MAX_SMA = 2
  NELEMS = 2
  Events = {e1, e2}
  NoEvent = NoEvent
  Timers = {t1, t2, t3}
  Counts = {2}
  Periods = {0, 1}
  NoTimer = NoTimer
  SmaOf <- MCSmaOf
  EvtOf <- MCEvtOf
  Posted <- MCPosted
SYMMETRY MCTimers
CHECK_DEADLOCK FALSE
INVARIANTS
  QueueAgreement
  HaltsOnlyFull
  ListAgrees
PROPERTIES
  ImplementsEventQueue
  ImplementsTimers
