SPECIFICATION Spec
CONSTANTS
  r1 = r1
  r2 = r2
  w1 = w1
  w2 = w2
  NoWorker = NoWorker
  Runs = {r1, r2}
  Workers = {w1, w2}
  MaxExecutions = 1
  LeaseTicks = 1
  RuntimeTicks = 0
  MaxRenewDelay = 0
  MaxGeneration = 0
  Once = {}
  Mortal = {w1}
  Faults = {}
SYMMETRY Symmetry
INVARIANTS
  CapacityRespected
PROPERTIES
  StopReachesBoundary
