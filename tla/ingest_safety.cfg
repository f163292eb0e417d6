SPECIFICATION Spec
CONSTANTS
  r1 = r1
  r2 = r2
  s1 = s1
  s2 = s2
  i1 = i1
  i2 = i2
  owns = owns
  shares = shares
  Absent = Absent
  NoRun = NoRun
  Runs <- MCRuns
  Sources <- MCSources
  Items <- MCItems
  Users <- Parents
  Owner = owns
  RunSource <- TwoSources
  RunActor <- ByBoth
  Payload <- MCPayload
  Bound <- OwnerBound
  StudentKnown = TRUE
  OneStudent <- OwnerAlone
  Copies = 1
  RequestsDie = TRUE
INVARIANT CommittedRunsAreApplied
INVARIANT OneSettler
INVARIANT AlertsBounded
PROPERTY ImplementsContract
CHECK_DEADLOCK FALSE
