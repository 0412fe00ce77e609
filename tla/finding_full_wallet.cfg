SPECIFICATION FairSpec
CONSTANTS
  None = None
  c1 = c1 c2 = c2 c3 = c3 c4 = c4 r1 = r1 r2 = r2 w1 = w1 w2 = w2 ana = ana bia = bia
  Calls = {c1, c2, c3}
  Resolvers = {r1}
  Wallets = {w1}
  Ops <- ReferenceOps
  Workloads <- FullWalletWorkloads
  Openings <- OpeningsReferences
  MaxAttempts = 2
  BatchSize = 1
  MaxFaults = 0
  LeaseMayLapse = FALSE
  MinMinor <- MCMin
  MaxMinor <- MCMax
PROPERTIES
  WaitersAreDecided
