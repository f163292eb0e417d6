SPECIFICATION ExtSpec
CHECK_DEADLOCK FALSE
CONSTANTS
  s1 = s1
  alarm = alarm
  NoSync = NoSync
  Syncs <- OneSync
  Rounds <- OneRound
  Portals = 1
  MaxSyncs = 2
INVARIANT CompletionIsRecorded
