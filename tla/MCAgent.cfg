SPECIFICATION Spec
CONSTANTS
  Parts = {"run", "task", "channel"}
  Batches <- MixedBatches
  TurnLimit = 2  PerSegment = 1  PerRun = 1  Total = 2  MaxGoals = 2
  Preludes = {"plain", "tool", "stopped", "unanswered", "refused"}
  FanOut = 2  MaxTasks = 2  MaxEvents = 2  QueueCap = 1  ChanCap = 1
  Askers = {a1, a2}  Callers = {b1}  Free = 1  OutCap = 2  InCap = 3  MaxLoose = 2
INVARIANTS EventsInOrder LoopKeepsItsLimits WorkerResultsWhole
PROPERTIES EveryoneReturns
CHECK_DEADLOCK FALSE
