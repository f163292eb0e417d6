SPECIFICATION Spec
CONSTANTS
  n1 = n1
  d1 = d1
  w1 = w1
  w2 = w2
  Jobs <- MCTwoJobs
  Types <- MCTypes
  JobType <- MCTwoJobType
  Priority <- MCPriority
  MaxAttempts <- MCMaxAttempts
  Faults <- NoSweep
  MaxSweeps = 0
  Workers <- MCWorkers
  Concurrency = 1
INVARIANT SingleRunner
INVARIANT RunsWithinBudget
SYMMETRY WorkerSymmetry
