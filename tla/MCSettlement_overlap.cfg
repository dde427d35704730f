CONSTANTS
  ann = ann
  bob = bob
  eve = eve
  t1 = t1
  t2 = t2
  t3 = t3
  t4 = t4
  Users = {ann, bob, eve}
  Trades = {t1, t2, t4}
  Assets = {"villa", "tower"}
  Contracted = {"villa", "tower"}
  Linked = {ann, bob}
  Slots = {r1, r2}
  trade <- TradeData
  Take = 3
  SlowPhases = {"groups", "reject", "mark", "submit", "unlock", "catch"}
  StuckPhases = {"groups", "reject", "mark", "submit", "unlock", "catch"}
  MaxFaults = 1
  MaxCount = 2
  None = None
  OpeningAvailable <- NoMoney
  OpeningLocked <- Pledges
SPECIFICATION Spec
SYMMETRY Exchangeable
VIEW WithoutBroken
INVARIANTS TypeOK UnlockedForABroadcast SettledIsComplete
