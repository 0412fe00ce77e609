SPECIFICATION Spec
CONSTANTS
  None = None
  c1 = c1 c2 = c2 c3 = c3 c4 = c4 r1 = r1 r2 = r2 w1 = w1 w2 = w2 ana = ana bia = bia
  Calls = {c1, c2, c3}
  Resolvers = {}
  Wallets = {w1, w2}
  Ops <- RaceOps
  Workloads <- RaceWorkloads
  Openings <- OpeningsRace
  MaxAttempts = 1
  BatchSize = 1
  MaxFaults = 1
  LeaseMayLapse = FALSE
  MinMinor <- MCMin
  MaxMinor <- MCMax
INVARIANTS
  ReplayRepeatsOriginal
