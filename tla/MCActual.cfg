SPECIFICATION MCSpec
CONSTANTS
  Parts = {"clock", "tries", "sync"}
  Clients = {1, 2}
  Cells = {balance}
  Ago = 0
  Patience = 2
  FirstWall = 9
  MaxWall = 10
  MaxEdits = 2
  MaxLost = 1
  MaxDrift = 5
  MaxCounter = 9
  PerMinute = 1
  Width = 3
  MaxMinute = 26
  Nodes = {1, 2}
  ClockDrift = 1
  ClockCounter = 1
  ClockWall = 1
  MaxMade = 3
  TrieStamps <- FullKeys
  None = none
INVARIANTS Unique NoRunaway EveryPassMoves
PROPERTIES LaterIsNewer Implements Converges
CHECK_DEADLOCK FALSE
