SPECIFICATION MCSpec
CONSTANTS
  c1 = c1
  c2 = c2
  Clients <- ClientSet
  Codes = {success, failure}
  NoCode = NoCode
  IdleSettings = {TRUE, FALSE}
  MaxFaults = 1
  MaxSignals = 1
  ResetCap = 1
INVARIANTS TypeOK NoOrphan RecordExplainsExit
PROPERTIES ExitedIsFinal DaemonEnds
CHECK_DEADLOCK FALSE
