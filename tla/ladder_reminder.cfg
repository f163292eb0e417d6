SPECIFICATION LadderSpec
CONSTANTS
  a1 = a1
  c1 = c1
  c2 = c2
  w1 = w1
  Jobs <- MCOneJob
  Types <- MCTypes
  JobType <- MCJobType
  Priority <- MCPriority
  MaxAttempts <- MCMaxAttempts
  Faults <- MCErrors
  MaxSweeps = 0
  Workers <- MCWorkers
  Concurrency = 2
  Assignments <- MCAssignments
  DueAt <- MCDueNoon
  Copies <- MCOneCopy
  Instants <- MCAfternoon
  DayShift = 0
  MaxStudent = 1
  QuietWindows <- MCNoWindow
PROPERTY FiresAtItsStep
