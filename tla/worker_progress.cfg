SPECIFICATION FairSpec
CONSTANTS
  n1 = n1
  d1 = d1
  w1 = w1
  w2 = w2
  Jobs <- MCTwoJobs
  Types <- MCTypes
  JobType <- MCTwoJobType
  Priority <- MCPriority
  MaxAttempts <- MCMaxAttempts
  Faults <- StopAndSweep
  MaxSweeps = 2
  Workers <- MCOneWorker
  Concurrency = 1
PROPERTY EveryJobSettles
PROPERTY StopTerminates
