SPECIFICATION MCSpec
CONSTANTS
  Parts = {"alone"}
  t1 = t1
  t2 = t2
  p1 = p1
  food = food
  rent = rent
  Slots = {s1}
  Txns = {t1, t2}
  Parties = {p1}
  Categories = {food, rent}
  PartyOf <- MCPartyOf
  Guesses <- MCGuesses
  Behind = 2
  Ids = {"c1", "c2", "c3"}
  Names = {"a", "b"}
  Groups = {"out1", "out2", "in1"}
  IncomeGroups = {"in1"}
  Keys = {"k1"}
  Entries = {"r1"}
  Records = {"p1"}
  Requests = {"q1", "q2"}
  q1 = "q1"
  MaxAsked = 4
  MaxCrossing = 2
  CrossingGroups = {"out1", "in1"}
  MaxDeaths = 1
  Amount <- MCAmount
  PlanAmount = 3
  None = none
INVARIANT LargerNeverSum
CHECK_DEADLOCK FALSE
