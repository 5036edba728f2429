SPECIFICATION MCSpec
CONSTANTS
  Parts = {"alone", "crossing"}
  s1 = s1
  s2 = s2
  kA = kA
  kRef = kRef
  kB = kB
  kC = kC
  r1 = r1
  r2 = r2
  r3 = r3
  Slots = {s1, s2}
  Keys <- MCKeys
  Rows <- MCRows
  RecordedKey <- MCRecorded
  Fold <- MCFold
  Categories = {food, rent}
  Titles = {title}
  None = none
INVARIANTS Flat OneRule AlonePayeesFollow
