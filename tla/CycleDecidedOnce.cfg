SPECIFICATION Spec
CONSTANTS
  Cycles = {c1}
  Triggers = {r1}
  Runs = {p1}
  Deliveries = {x1}
  Approvers = {a1, a2}
  NoCycle = NoCycle
  NoRun = NoRun
INVARIANT DecidedOnce
CHECK_DEADLOCK FALSE
