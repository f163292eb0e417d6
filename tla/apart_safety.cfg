SPECIFICATION Spec
CHECK_DEADLOCK FALSE
CONSTANTS
  r1 = r1
  r2 = r2
  c1 = c1
  c2 = c2
  g1 = g1
  g2 = g2
  s1 = s1
  s2 = s2
  s3 = s3
  alarm = alarm
  click = click
  Unread = Unread
  Site = Site
  NoSync = NoSync
  Runs <- TwoRuns
  MaxEntries = 2
  MaxWarnings = 1
  SignOuts = 1
  MaxFaults = 1
  Calls <- TwoCalls
  Gotos <- TwoGotos
  SiteMoves = 1
  Syncs <- ThreeSyncs
  Rounds <- TwoRounds
  Portals = 2
  MaxSyncs = 2
  u1 = u1
  u2 = u2
  e1 = e1
  e2 = e2
  e3 = e3
  t1 = t1
  t2 = t2
  h1 = h1
  h2 = h2
  p1 = p1
  a1 = a1
  a2 = a2
  m1 = m1
  q1 = q1
  q2 = q2
  Owner = Owner
  NoUser = NoUser
  NoTransfer = NoTransfer
  NoChange = NoChange
  Users <- TwoUsers
  Emails <- ThreeEmails
  Transfers <- TwoTransfers
  Handlers <- TwoHandlers
  FirstEmail <- TwoFirst
  Besides <- AllBesides
  Parents <- OneParent
  Addresses <- TwoAddresses
  Changes <- OneChange
  Routes <- TwoRoutes
  MaxContacts = 2
SYMMETRY Symmetry
INVARIANT EndIsRecorded
INVARIANT EntriesKept
INVARIANT CallsSettleThemselves
INVARIANT LedgerTellsFailures
INVARIANT ConfirmedIsHandled
INVARIANT LiveAddressesDistinct
INVARIANT AdminsWerePromoted
PROPERTY EndIsFinal
PROPERTY ChangeIsConfirmed
PROPERTY WithdrawnIsNotTakenUp
