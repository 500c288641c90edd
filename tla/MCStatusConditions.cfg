SPECIFICATION FairSpec
CONSTANTS
  s1 = s1
  d1 = d1
  n1 = n1
  StatefulSets = {s1}
  Deployments = {d1}
  DaemonSets = {n1}
  Replicas = 1
  Overrides <- MCOverrides
  MaxChanges = 2
  LastTime = 2
INVARIANTS AvailableIsAccurate StoppedIsNotAvailable
PROPERTIES TransitionTimes Settles
