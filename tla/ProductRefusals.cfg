SPECIFICATION ProductSpec
CONSTANTS
  Requests = {q1, q2}
  Clients = {d1, k1}
  NoClient = NoClient
  Intents = {i1}
  Ids = {d1, d2}
  NoId = NoId
  Nobody = Nobody
  ClaimIdAttempts = 2
  Pours = {p1, p2}
  Sources = {"site"}
  Type <- SourceType
  Page <- SourcePage
  Languages = {en, ro}
  None = None
  MaxEvents = 3
  MaxReads = 2
  Clips = {clip1}
  RowJobs = {j1}
  Plan = Plan
  MaxSets = 3
  MaxMishaps = 1
  Makers = {m1, m2}
  MaxReels = 2
  MaxFalls = 1
  Visits = {w1, w2}
  MaxRows = 3
  MAX_STRUCT_REPAIRS = 4
  MAX_JUDGE_REPAIRS = 2
  JUDGE_TRIES = 2
  Askers = {b1, b2}
  MaxVersions = 3
  MaxInputs = 2
  WithRead = {1, 2}
  Callers = {a1, a2}
  MaxPlans = 3
  MaxBreaks = 1
  MAX_PLAN_ATTEMPTS = 2
  Actions <- ThreeActions
  Priorities <- TwoPriorities
  TODAY_MAX = 1
  Orders = {o1, o2}
  MAX_CAROUSEL_ATTEMPTS = 2
  MAX_STRIP_ROUNDS = 3
  MAX_CONSTRAINED_REPAIR_ROUNDS = 3
  Commands <- TwoCommands
  Unlocked = Unlocked
  Questions = {offer}
  PoolSize = 2
  Cycles = {c1}
  Triggers = {r1}
  Runs = {u1}
  Deliveries = {x1, x2}
  Approvers = {}
  NoCycle = NoCycle
  NoRun = NoRun
INVARIANT RefusalsAreNamed
CHECK_DEADLOCK FALSE
