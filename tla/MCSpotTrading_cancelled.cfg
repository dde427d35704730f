CONSTANTS
  ann = ann
  bob = bob
  eve = eve
  h1 = h1
  Users = {ann, bob, eve}
  MaxOrders = 2
  Handlers = {h1}
  Workers = {w1}
  OrderRequests <- ChangingRequests
  Band <- Prices
  Operations = {"create", "cancel"}
  MaxAttempts = 2
  MaxCrashes = 0
  NoKey = NoKey
  None = None
  OpeningAvailable <- Available
  OpeningLocked <- Reserved
SPECIFICATION Spec
PROPERTY FilledStaysFilled
