SPECIFICATION Spec
CONSTANTS
  r1 = r1
  r2 = r2
  r3 = r3
  own = own
  platform = platform
  Requests <- MCRequests
  OwnerKeys = {own}
  Platform = platform
  NoKey = NoKey
  NoRow = NoRow
  MaxPatches = 1
  MaxDenials = 1
  MaxFailures = 1
  NotYet = NotYet
  Done = Done
INVARIANT TypeOK
INVARIANT SessionFollowsInstance
PROPERTY KeyKeptUnlessBlamed
SYMMETRY Symmetry
CHECK_DEADLOCK FALSE
