SPECIFICATION Spec
CONSTANTS
  ana = ana
  luis = luis
  m1 = m1
  m2 = m2
  Clients <- MCClients
  Owner = Owner
  Slots <- MCSlots
  DayOf <- MCDays
  Services = {"cut", "dye"}
  Appts = {1}
  Items <- MCItems
  Waits <- MCWaits
  NoPhone = NoPhone
  Messages <- MCMessages
  MaxDeliveries <- MCDeliveries
  MaxNow = 0
  MaxLosses = 0
  None = None
INVARIANT NoQueueJumping
INVARIANT OffersFitTheirQueue
INVARIANT OffersCanBeAccepted
PROPERTY ImplementsFairWaitlist
CHECK_DEADLOCK FALSE
