SPECIFICATION SecretSpec
CONSTANTS
  Reconcilers = {p1}
  MaxDisturbances = 2
  MaxContents = 12
  Faults = {"create rejected"}
INVARIANT ContentsKept
