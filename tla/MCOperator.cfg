CONSTANTS
  None = None
  Handles = {controller, eos_checker}
  EosHandle = eos_checker
  Domains = {d1, d2}
  Interval = 2
  EosDate = 1
  CrdTimeout = 2
  MaxTime = 3
  reconciler = reconciler
  cleanup = cleanup
  Callers = {reconciler, cleanup}
  Resources <- MCResources
  Calls <- MCCalls
  MaxUid = 2
  MaxVersion = 1
  Reconcilers = {p1, p2}
  MaxDisturbances = 4
  MaxContents = 12
  Faults = {"delete rejected", "create rejected", "delete lost", "create lost", "crash", "user"}
  MaxExits = 2
  MaxUnshipped = 1
SPECIFICATION OperatorSpec
INVARIANTS KeptUnlessInterrupted VectorOutlivesProduct
PROPERTIES
  SignalIsBroadcast CheckerIsPunctual CrdWaitEndsInTime
  CallsAreAtomic PartsProgress
CHECK_DEADLOCK FALSE
