SPECIFICATION Spec
CONSTANTS
  Folders = {f1, f2, f3}
  Requests = {r1}
  Elsewhere = {e1}
  Absent = absent
  Other = other
  Torn = torn
  MaxBackups = 2
  Automatic = 1
  Faults <- FinishFails
PROPERTY RemovesNoOnlyCopy
CHECK_DEADLOCK FALSE
