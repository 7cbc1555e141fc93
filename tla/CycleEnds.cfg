SPECIFICATION FairSpec
CONSTANTS
  Cycles = {c1}
  Triggers = {r1}
  Runs = {p1}
  Deliveries = {}
  Approvers = {}
  NoCycle = NoCycle
  NoRun = NoRun
PROPERTY CycleEnds
CHECK_DEADLOCK FALSE
