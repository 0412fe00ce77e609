SPECIFICATION FairSpec
CONSTANTS
  None = None
  Wallets = {w1, w2}
  Keys = {1, 2, 3, 4}
  Amounts <- MCAmounts
  Initials <- MCInitials
  Readers = {r1}
  Auditors = {a1}
  Limits <- MCLimits
  DefaultLimit = 2
  MaxLimit = 3
INVARIANTS
  TypeOK
  PagesCoverLedger
  ReconcileFindsNoDifference
PROPERTIES
  ListingsEnd
