SPECIFICATION Spec
CONSTANTS
  w1 = w1
  w2 = w2
  c1 = c1
  c2 = c2
  r1 = r1
  r2 = r2
  k1 = k1
  k2 = k2
  NoKey = NoKey
  MaxJobs = 2
  Keys <- OneKey
  AttemptLimits <- OneOrTwo
  Workers <- TwoWorkers
  Callers <- OneCaller
  Retriers <- OneRetrier
  MaxCrashes = 1
  MaxFaults = 0
  MaxStalls = 1
  MaxRetries = 1
SYMMETRY Symmetry
INVARIANTS
  TerminalIsPurgeable
  SucceededMeansDone
  RetryNeverConflicts
  ExclusiveExecution
PROPERTIES
  NoRepeatedWork
