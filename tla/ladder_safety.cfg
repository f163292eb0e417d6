SPECIFICATION LadderSpec
CONSTANTS
  a1 = a1
  c1 = c1
  c2 = c2
  w1 = w1
  Jobs <- MCTwoJobs
  Types <- MCTypes
  JobType <- MCJobType
  Priority <- MCPriority
  MaxAttempts <- MCMaxAttempts
  Faults <- MCErrors
  MaxSweeps = 0
  Workers <- MCWorkers
  Concurrency = 2
  Assignments <- MCAssignments
  DueAt <- MCDueMorning
  Copies <- MCTwoCopies
  Instants <- MCMidnight
  DayShift = 0
  MaxStudent = 1
  QuietWindows <- MCWindow
SYMMETRY CopySymmetry
INVARIANT DailyCapOvershoot
INVARIANT ReminderIsLogged
INVARIANT SettledStepIsSilent
