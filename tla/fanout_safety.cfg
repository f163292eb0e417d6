SPECIFICATION FanSpec
CONSTANTS
  a1 = a1
  mum = mum
  w1 = w1
  NoAddress = NoAddress
  Jobs <- MCJobs
  Types <- MCTypes
  JobType <- MCJobType
  Priority <- MCPriority
  MaxAttempts <- MCMaxAttempts
  Faults <- MCFaults
  MaxSweeps = 0
  Workers <- MCWorkers
  Concurrency = 1
  Alerts <- MCAlerts
  People <- MCPeople
  Owner = mum
  LastPlace = 2
  Audience <- MCAudience
  Urgent <- MCAlerts
  Frequencies <- MCFrequencies
  Passes <- MCPasses
INVARIANT CompletedAlertReachesAll
INVARIANT OnePathPerPass
INVARIANT BoundedOvershoot
