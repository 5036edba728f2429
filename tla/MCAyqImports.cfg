SPECIFICATION MCSpec
CONSTANTS
  Parts = {"alone", "crossing", "coverage", "anchors"}
  i1 = i1
  i2 = i2
  e1 = e1
  e2 = e2
  e3 = e3
  Entries = {e1, e2, e3}
  Files <- MCFiles
  Accounts = {a1, a2}
  Importers = {i1, i2}
  CoverDays = {1, 2, 3, 4, 5, 6}
  Months <- MCMonths
  InBank <- MCBank
  MaxRead = 3
  Choices = {c1}
  MaxImports = 4
  MaxDeaths = 1
  LastDay = 4
  Moves <- MCMoves
  Opening = 100
  Requests = {r1}
  Wrong = {0}
  MaxAsked = 3
  None = None
INVARIANTS EvidenceBacked CoverageHonest BalancesHonest
PROPERTY AloneExplained
CHECK_DEADLOCK FALSE
