SPECIFICATION FairSpec
CONSTANTS
  Folders = {f1, f2, f3}
  Requests = {r1}
  Elsewhere = {e1}
  Absent = absent
  Other = other
  Torn = torn
  MaxBackups = 1
  Automatic = 1
  Faults <- Handled
INVARIANTS BackupIsOneMoment NothingLost ServedStateStands
PROPERTIES RemovesNoOnlyCopy OneStateSpec ComesBack
CHECK_DEADLOCK FALSE
