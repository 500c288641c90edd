SPECIFICATION FairSpec
CONSTANTS
  MaxHooks = 3
  NumTargets <- TwoOneOne
  Conversion = {1, 2}
  Ignored = {2}
  Conns = {k1}
  Lifetime = 2
  Buffer = 1
  Interval = 1
  MaxTime = 1
  MaxDrift = 1
  MaxRestarts = 1
  Faults = {}
PROPERTY ShutdownCompletes
CHECK_DEADLOCK FALSE
