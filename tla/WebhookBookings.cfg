SPECIFICATION Spec
CONSTANTS
  ana = ana
  luis = luis
  m1 = m1
  m2 = m2
  Clients = {ana}
  Owner = Owner
  Slots = {0}
  DayOf <- MCOneDay
  Services = {"cut"}
  Appts = {1, 2, 3}
  Items = {1}
  Waits <- MCOneWaits
  NoPhone = NoPhone
  Messages <- MCMessages
  MaxDeliveries <- MCLastTwice
  MaxNow = 1
  MaxLosses = 1
  None = None
INVARIANT TypeOK
INVARIANT RepeatsAreAccounted
INVARIANT OneBookingPerEntry
PROPERTY ImplementsFairWaitlist
CHECK_DEADLOCK FALSE
