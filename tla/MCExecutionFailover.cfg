SPECIFICATION Spec
CONSTANTS
  r1 = r1
  r2 = r2
  w1 = w1
  w2 = w2
  NoWorker = NoWorker
  Runs = {r1}
  Workers = {w1, w2}
  MaxExecutions = 2
  LeaseTicks = 2
  RuntimeTicks = 2
  MaxRenewDelay = 1
  MaxGeneration = 2
  Once = {w1}
  Mortal = {w1, w2}
  Faults = {"child", "supervisor", "spawn", "database", "unfenced", "terminal", "actor"}
INVARIANTS
  SingleExecutor
  ExecutorsAreWatched
  OpenCallsAreOwned
  UncertainCallsAreNotRepeated
PROPERTIES
  FinishedStaysFinished
  HealthyExecutorIsNotFailed
  ImplementsContract
