SPECIFICATION Spec
CONSTANTS
  v1 = v1
  v2 = v2
  Values = {v1, v2}
  Modes = {"try", "pop", "timed", "wait"}
  MaxItems = 3
  NsecPerSec <- Second
  TimeoutNsec <- Timeout
  ClockReadings <- Readings
INVARIANTS TimedCallDelivers
CHECK_DEADLOCK FALSE
