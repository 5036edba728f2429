SPECIFICATION MCSpec
CONSTANTS
  Parts = {"relay", "opening", "store", "sets"}
  Ids = {i1, i2, i3, i4, i5}
  Host = "utility"
  Requests = {status, ledger, plan}
  Starter = {groceries, other}
  Placeholder = {general}
  MaxFailures = 1
  MaxDeaths = 1
  Current = 2
  Bodies = {"one", "other"}
  Fresh = "one"
  MaxStamp = 3
  MaxRestores = 2
  MaxDamage = 1
  Missing = missing
  Every = 2
  KeptSets = 2
  MaxNow = 6
  MaxMade = 4
  SetBack = FALSE
  None = none
INVARIANTS ToldOnce OneBudget NeverComesBack
PROPERTIES Answered StoreKept BackupsKept
CHECK_DEADLOCK FALSE
