SPECIFICATION Spec
CONSTANTS
  parent = parent
  login = login
  app = app
  browser = browser
  student = student
  dev = dev
  Users <- MCUsers
  Owners <- MCUsers
  Clients <- MCClients
  UserOf <- MCUserOf
  Tabs <- MCTabs
  Browsers <- MCBrowsers
  Students <- MCStudents
  ParentOf <- MCParentOf
  LoginOf <- MCLoginOf
  Devices <- MCDevices
  DeviceOwner <- MCDeviceOwner
  MaxRequests = 4
  MaxDeviceRequests = 3
  MaxDeletions = 2
  MaxFaults = 1
  MaxDeviceFaults = 1
  MaxTotal = 4
  MaxOverlap = 2
  MaxBeside = 2
  MaxAllFaults = 1
  Mixed = FALSE
INVARIANT TakenTokenWorks
INVARIANT HeldSessionIsListed
INVARIANT DeletionIsComplete
PROPERTY SessionSurvives
PROPERTY FamilyDeathIsFinal
CHECK_DEADLOCK FALSE
