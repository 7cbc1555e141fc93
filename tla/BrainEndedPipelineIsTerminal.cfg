CONSTANTS
  Versions = {v1, v2}
  Requests = {r1}
  Tokens = {}
  Fingerprints = {f1}
  NoVersion = NoVersion
  NoToken = NoToken
  NoRequest = NoRequest
  MaxAttempts = 1
  MaxFaults = 0
SPECIFICATION Spec
INVARIANT EndedPipelineIsTerminal
