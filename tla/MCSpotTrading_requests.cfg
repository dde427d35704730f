CONSTANTS
  ann = ann
  bob = bob
  eve = eve
  h1 = h1
  Users = {ann, bob, eve}
  MaxOrders = 2
  Handlers = {h1}
  Workers = {w1}
  OrderRequests <- ChangingRequests
  Band <- Prices
  Operations = {"create", "update", "cancel"}
  MaxAttempts = 2
  MaxCrashes = 1
  NoKey = NoKey
  None = None
  OpeningAvailable <- Tight
  OpeningLocked <- Reserved
SPECIFICATION FairSpec
INVARIANTS ValueConserved FilledIsExecuted
PROPERTY EveryJobEnds
