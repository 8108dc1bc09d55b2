SPECIFICATION Spec
CONSTANTS
  r1 = r1
  r2 = r2
  c1 = c1
  c2 = c2
  c3 = c3
  c4 = c4
  c5 = c5
  NoRun = NoRun
  Runs = {r1}
  Funded = {}
  Calls = {c1, c2, c3, c4}
  Budget <- TightBudget
  Floor <- Floors
  LimitChoices = {}
  RateChoices <- Prices
  RateScale = 1
  Prompts = {1, 2}
  Rooms = {2}
  Figures = {1}
  Costs = {}
  MaxOverrun = 0
  MaxRevision = 1
SYMMETRY Symmetry
INVARIANTS
  ReviewsStayPossible
CHECK_DEADLOCK FALSE
