SPECIFICATION Spec
CONSTANTS
  m1 = m1
  m2 = m2
  Methods = {m1, m2}
  Throttles <- MCThrottles
  WindowCount <- MCWindowCount
  WindowSeconds <- MCWindowSeconds
  Limiters <- MCLimiters
  ScoreModifier = 0
  ScoreWindows = 2
  BytesPerPoint = 2
  Sizes = {2}
  MaxInFlight = 2
  Cycle = 6
  Ring = 3
  Step = 2
  Longest = 6
  SpareRing = 4
  Unreadable = Unreadable
  NoThrottle = NoThrottle
  MaxMissed = 1
INVARIANTS
  TypeOK
  RateLimit
  OneRequestPastDataLimit
  VerdictNeverTooStrict
PROPERTY
  Recovers
