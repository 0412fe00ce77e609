SPECIFICATION FairSpec
CONSTANTS
  None = None
  m1 = m1
  m2 = m2
  g1 = g1
  g2 = g2
  i1 = i1
  i2 = i2
  a1 = a1
  b1 = b1
  Messages = {m1, m2}
  Groups = {g1, g2}
  Place <- MCPlace
  Workloads <- MailPairs
  Elsewhere <- HttpCollide
  Instances = {i1, i2}
  Goroutines = {a1, b1}
  InstanceOf <- MCInstanceOf
  BatchSize = 2
  MaxReceives = 4
  MaxErrors = 1
  MaxLapses = 0
  MaxStops = 0
  MaxFaults = 1
PROPERTIES
  GroupOrder
