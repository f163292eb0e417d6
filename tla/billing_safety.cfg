SPECIFICATION Spec
CONSTANTS
  start = start
  lose = lose
  buy = buy
  renew = renew
  change = change
  fail = fail
  r1 = r1
  r2 = r2
  c1 = c1
  c2 = c2
  NoRef = NoRef
  NoRow = NoRow
  NoCharge = NoCharge
  Events <- MCEvents
  Kind <- MCKind
  StoreStatus <- MCStatus
  Refs <- MCRefs
  Ref <- MCRef
  Charges <- MCCharges
  Referenced <- MCReferenced
  ChargeOf <- MCChargeOf
  MaxDeliveries <- MCDeliveries
  MaxOverlap = 2
  MaxFaults = 1
INVARIANT AckedEventsAreApplied
INVARIANT PaymentsRecordedOnce
PROPERTY CancelledIsNotRevived
PROPERTY CancelSparesNewer
CHECK_DEADLOCK FALSE
