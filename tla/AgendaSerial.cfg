SPECIFICATION Spec
CONSTANTS
  Ids = {a1, a2, a3}
  Staff = {s1, s2}
  Dates <- MCDates
  DayLen = 4
  Durations <- MCDurations
  OpensAt <- MCOpensAt
  ClosesAt <- MCClosesAt
  SlotMinutes = 1
  StatusInputs <- MCStatusInputs
  Requests = {r1, r2, r3, r4}
  MaxInFlight = 1
  MaxNow = 1
  NoRow = NoRow
  NotYet = NotYet
  Done = Done
SYMMETRY MCSymmetry
INVARIANT NoDoubleBooking
PROPERTY ImplementsAtomicAgenda
CHECK_DEADLOCK FALSE
