SPECIFICATION Spec
CONSTANTS
  w1 = w1
  w2 = w2
  c1 = c1
  c2 = c2
  r1 = r1
  r2 = r2
  k1 = k1
  k2 = k2
  NoKey = NoKey
  MaxJobs = 1
  Keys <- OneKey
  AttemptLimits <- OneOrTwo
  Workers <- TwoWorkers
  Callers <- OneCaller
  Retriers <- NoProcess
  MaxCrashes = 1
  MaxFaults = 0
  MaxStalls = 0
  MaxRetries = 0
SYMMETRY Symmetry
INVARIANTS
  AttemptsWithinMax
