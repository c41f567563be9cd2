SPECIFICATION Spec
CONSTANTS
  ana = ana
  luis = luis
  m1 = m1
  m2 = m2
  Clients <- MCClients
  Owner = Owner
  Slots = {0, 1}
  DayOf <- MCOneDay
  Services = {"cut"}
  Appts = {1, 2, 3}
  Items = {1}
  Waits <- MCOneWaits
  NoPhone = NoPhone
  Messages <- MCMessages
  MaxDeliveries <- MCLastTwice
  MaxNow = 0
  MaxLosses = 0
  None = None
PROPERTY ConfirmConfirms
CHECK_DEADLOCK FALSE
