SPECIFICATION Spec
CONSTANTS
  a1 = a1
  a2 = a2
  spa = spa
  bar = bar
  Appts <- MCAppts
  Tenants <- MCTenants
  TenantOf <- MCTenantOf
  BadZone = {}
  Starts <- MCStarts
  DayLength = 2
  Ahead = 1
  Begin = 1
  MaxNow = 2
  MaxEdits = 1
  MaxScripts = 1
  MaxLosses = 1
  NoRow = NoRow
  Expired = Expired
INVARIANT TypeOK
INVARIANT RemindersAreAccounted
INVARIANT OnlyRacesMislead
SYMMETRY Symmetry
