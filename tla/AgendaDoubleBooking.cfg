SPECIFICATION Spec
CONSTANTS
  Ids = {a1, a2}
  Staff = {s1, s2}
  Dates <- MCDates
  DayLen = 3
  Durations <- MCDurations
  OpensAt <- MCOpensAt
  ClosesAt <- MCClosesAt
  SlotMinutes = 1
  StatusInputs <- MCStatusInputs
  Requests = {r1, r2}
  MaxInFlight = 2
  MaxNow = 1
  NoRow = NoRow
  NotYet = NotYet
  Done = Done
SYMMETRY MCSymmetry
INVARIANT NoDoubleBooking
CHECK_DEADLOCK FALSE
