CONSTANTS
  Versions = {v1, v2}
  Requests = {r1, r2}
  Readers = {d1}
  Tokens = {t1, t2}
  Fingerprints = {f1, f2}
  NoVersion = NoVersion
  NoToken = NoToken
  NoRequest = NoRequest
  MaxAttempts = 1
  MaxFaults = 1
SPECIFICATION ReadSpec
CONSTRAINT InScope
SYMMETRY Symmetry
INVARIANTS
  IInv
  CurrentIsComplete
  StatusAgrees
  ReadInv
PROPERTIES
  CurrentOnlySuperseded
  ImplementsShelf
  TokenRowIsFinal
