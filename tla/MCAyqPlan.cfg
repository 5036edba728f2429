SPECIFICATION MCSpec
CONSTANTS
  Parts = {"dates", "records", "crossing", "forecast"}
  k = k
  q1 = q1
  q2 = q2
  LastDay = 3
  FarDay = 5
  Long = 3
  Ahead = 3
  Payments <- MCPayments
  Categories = {11}
  PlanCents <- MCPlanCents
  Held <- MCHeld
  Period = 2
  Horizon = 1
  Near = 1
  Far = 2
  Records = {1, 2}
  Booked <- MCBooked
  Amounts = {50, 52}
  Keys = {k}
  Series <- MCSeries
  Asks = {}
  Tasks = {q1}
  Crossing = FALSE
  MaxAsked = 3
  None = None
INVARIANTS OneEach LowestTrue SpentOnce
PROPERTIES AloneSure KeepsCounting
CHECK_DEADLOCK FALSE
