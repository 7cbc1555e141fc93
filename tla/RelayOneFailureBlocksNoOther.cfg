SPECIFICATION FairSpec
CONSTANTS
  Events = {1, 2}
  Subscribers = {s1}
  Ticks = {t1}
  BatchSize = 2
  Poison = {1}
  NoEvent = NoEvent
PROPERTY OneFailureBlocksNoOther
CHECK_DEADLOCK FALSE
