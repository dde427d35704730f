CONSTANTS
  ann = ann
  bob = bob
  eve = eve
  h1 = h1
  Users = {ann, bob, eve}
  MaxOrders = 3
  Handlers = {h1}
  Workers = {w1}
  OrderRequests <- MatchingRequests
  Band <- Prices
  Operations = {"create"}
  MaxAttempts = 2
  MaxCrashes = 0
  NoKey = NoKey
  None = None
  OpeningAvailable <- Available
  OpeningLocked <- Reserved
SPECIFICATION Spec
INVARIANTS TypeOK LockedIsAccountedFor BestOrderFirst BookUncrossed
