SPECIFICATION FairSpec
CONSTANTS
  Managers = {m1}
  Tasks = {t1, t2}
  Plans = {}
  NumCues = 1
  MaxUnits = 1
  MaxStarts = 2
  MaxFaults = 1
INVARIANTS
  ConfirmedNow
PROPERTIES
  EndIsFinal
  StopReleases
CHECK_DEADLOCK FALSE
