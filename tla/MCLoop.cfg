SPECIFICATION LoopSpec
CONSTANTS
  e1 = e1
  e2 = e2
  r1 = r1
  s1 = s1
  thin = thin
  hollow = hollow
  None = None
  Executors = {e1, e2}
  Reads = {r1}
  Searches = {s1}
  Packages = {thin, hollow}
  Blocked = {}
  Gaps = {hollow}
  Hits <- MCHits
  Relevant <- MCRelevant
  MaxCalls = 5
  MaxTools = 2
  MaxReads = 1
  ReservedReviews = 2
  MaxIterations = 4
  MaxRepeats = 1
  MaxChurn = 2
  MaxHandovers = 1
INVARIANTS
  LoopTypeOK
  ReadyIsEarned
  
  OpenWorkIsOwned
PROPERTIES
  ExecutorsStop
  KeepsContract
