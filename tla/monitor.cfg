CONSTANTS
  Session = {p, q}
  Workflow = {f}
  NoSession = none
  MaxStarts = 2
SPECIFICATION FairSpec
INVARIANTS MonitorInv StoppedLetsGo
PROPERTIES EventIsRead MonitorSleeps
CHECK_DEADLOCK FALSE
