SPECIFICATION Spec
CONSTANTS
  eva = eva
  tom = tom
  sam = sam
  r4 = r4
  ref = ref
  r1 = r1
  r2 = r2
  r3 = r3
  Users <- MCUsers
  Founder = eva
  Refs = {ref}
  NoRef = NoRef
  Plans <- MCPlans
  FirstPlan = "pro"
  MaxUsers <- MCMaxUsers
  TrialEnd = 1
  LastPeriod = 1
  Requests <- MCRequests
  MaxPayments = 3
  NoRow = NoRow
  Keep = Keep
  NotYet = NotYet
  Done = Done
INVARIANT TypeOK
INVARIANT ExtensionsAreAccounted
PROPERTY QuotaHolds
SYMMETRY Symmetry
CHECK_DEADLOCK FALSE
