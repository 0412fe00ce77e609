SPECIFICATION FairSpec
CONSTANTS
  None = None
  Events = {e1, e2}
  Publishers = {p1, p2}
  BatchSize = 2
  MaxFaults = 2
  MaxOverrun = 1
INVARIANTS
  TypeOK
  PublishedWasDelivered
  OneHolder
  RepeatsNeedFaults
  AttemptsCoverDeliveries
PROPERTIES
  EventsArePublished
