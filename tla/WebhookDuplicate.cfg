SPECIFICATION Spec
CONSTANTS
  ana = ana
  luis = luis
  m1 = m1
  m2 = m2
  Clients = {ana}
  Owner = Owner
  Slots = {0, 1}
  DayOf <- MCOneDay
  Services = {"cut"}
  Appts = {1, 2}
  Items = {1}
  Waits <- MCOneWaits
  NoPhone = NoPhone
  Messages <- MCMessages
  MaxDeliveries <- MCLastTwice
  MaxNow = 1
  MaxLosses = 0
  None = None
INVARIANT OneActionPerMessage
CHECK_DEADLOCK FALSE
