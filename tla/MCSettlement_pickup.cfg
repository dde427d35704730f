CONSTANTS
  ann = ann
  bob = bob
  eve = eve
  t1 = t1
  t2 = t2
  t3 = t3
  t4 = t4
  Users = {ann, bob, eve}
  Trades = {t1, t3}
  Assets = {"villa", "tower"}
  Contracted = {"villa", "tower"}
  Linked = {ann, bob}
  Slots = {r1, r2}
  trade <- TradeData
  Take = 3
  SlowPhases = {"submit"}
  StuckPhases = {}
  MaxFaults = 0
  MaxCount = 2
  None = None
  OpeningAvailable <- NoMoney
  OpeningLocked <- Pledges
SPECIFICATION Spec
INVARIANT OnePickup
