SPECIFICATION FairSpec
CONSTANTS
  a1 = a1
  a2 = a2
  spa = spa
  bar = bar
  Appts <- MCAppts
  Tenants <- MCTwoTenants
  TenantOf <- MCTwoTenantOf
  BadZone <- MCBadZone
  Starts <- MCStarts
  DayLength = 2
  Ahead = 1
  Begin = 1
  MaxNow = 2
  MaxEdits = 1
  MaxScripts = 0
  MaxLosses = 1
  NoRow = NoRow
  Expired = Expired
PROPERTY EveryoneIsReminded
