SPECIFICATION FairSpec
CONSTANTS
  ana = ana
  luis = luis
  Msgs <- MCTwoMsgs
  Clients <- MCClients
  ClientOf <- MCTwoClientOf
  Limit = 2
  MaxAttempts = 2
  Base = 1
  MaxResets = 1
  MaxLosses = 1
  NoRow = NoRow
INVARIANT TypeOK
INVARIANT DuplicatesAreAccounted
INVARIANT AttemptsAreBounded
INVARIANT OneMessageAfterOptOut
INVARIANT SentWasDelivered
PROPERTY ImplementsMessageLife
PROPERTY EveryMessageSettles
