SPECIFICATION Spec
CONSTANTS
  r1 = r1
  r2 = r2
  c1 = c1
  c2 = c2
  c3 = c3
  c4 = c4
  c5 = c5
  NoRun = NoRun
  Runs = {r1, r2}
  Funded = {r1, r2}
  Calls = {c1, c2}
  Budget <- WideBudget
  Floor <- Floors
  LimitChoices <- CampaignLimits
  RateChoices <- Prices
  RateScale = 1
  Prompts = {2}
  Rooms = {1}
  Figures = {2}
  Costs = {3, 4}
  MaxOverrun = 1
  MaxRevision = 2
SYMMETRY Symmetry
INVARIANTS
  TypeOK
  LedgerBalances
  CommittedWithinLimits
  RunCoversCampaign
PROPERTIES
  AccountedOnce
CHECK_DEADLOCK FALSE
