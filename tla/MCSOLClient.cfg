SPECIFICATION Spec
CONSTANTS
  u1 = u1
  u2 = u2
  p1 = p1
  heart = heart
  m1 = m1
  t1 = t1
  Users = {u1, u2}
  Probers = {p1}
  Heart = heart
  ProbeTimes = {0, 2}
  Methods = {m1}
  Throttles = {t1}
  WindowCount <- MCWindowCount
  WindowSeconds <- MCWindowSeconds
  Limiters <- MCLimiters
  ScoreModifier = 0
  ScoreWindows = 2
  BytesPerPoint = 2
  Sizes = {0}
  BootCalls = 1
  RingSeconds = 3
  MinLookback = 2
  DeadRatio = 2
  MaxRequests = 3
  MaxProbes = 1
  Cycle = 3
  MaxMissed = 0
SYMMETRY UserSymmetry
INVARIANTS
  TypeOK
  RunningExact
  SerialsUnique
  FailsAtMostOnce
PROPERTIES
  VerdictOnRecentSeconds
