SPECIFICATION MCSpec
CONSTANTS
  Parts = {"gate", "opening"}
  Callers = {c1, c2, c3, c4}
  Nobody = nobody
  Requests = {status, ledger, plan}
  Starter = {groceries, other}
  Placeholder = {general}
  MaxFailures = 1
  MaxDeaths = 1
  None = none
INVARIANTS MutualExclusion NoLostWake
PROPERTIES EveryoneGetsIn ExclusionSpec Opens
