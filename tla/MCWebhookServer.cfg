SPECIFICATION FairSpec
CONSTANTS
  MaxHooks = 3
  NumTargets <- TwoOneOne
  Conversion = {1, 2}
  Ignored = {2}
  Conns = {k1}
  Lifetime = 3
  Buffer = 1
  Interval = 1
  MaxTime = 4
  MaxDrift = 1
  MaxRestarts = 1
  Faults = {"bind", "generate", "encode", "patch", "handshake"}
INVARIANTS BundleNeverAhead NoLostRotation NeverExpired InitialReconcileSound
PROPERTIES BundlesCatchUp InitialReconcileHappens ShutdownWithoutClients
CHECK_DEADLOCK FALSE
