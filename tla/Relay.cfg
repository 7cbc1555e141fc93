SPECIFICATION FairSpec
CONSTANTS
  Events = {1, 2}
  Subscribers = {s1, s2}
  Ticks = {t1, t2}
  BatchSize = 2
  Poison = {}
  NoEvent = NoEvent
INVARIANTS
  RepeatedOnlyOverrun
  RelayInv
PROPERTIES
  ImplementsDelivery
  EventuallyPublished
CHECK_DEADLOCK FALSE
