CONSTANTS
  Versions = {v1, v2}
  Requests = {r1}
  Tokens = {}
  Fingerprints = {f1}
  NoVersion = NoVersion
  NoToken = NoToken
  NoRequest = NoRequest
  MaxAttempts = 2
  MaxFaults = 0
SPECIFICATION UndisturbedSpec
PROPERTIES
  PipelineEnds
  LockReleased
  RefreshDecided
