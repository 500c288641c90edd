SPECIFICATION FairSpec
CONSTANTS
  c1 = c1 c2 = c2 a = a b = b d = d
  sts = sts cma = cma cmb = cmb cmd = cmd svc = svc other = other
  m1 = m1 m2 = m2 app = app app2 = app2
  NoOne = NoOne MissingLabel = MissingLabel Overwritten = app2
  Clusters = {c1}
  Reconcilers = {a}
  Resources = {sts, cma}
  Managers = {m1, m2}
  Apps = {app, app2}
  Asked = {sts, cma}
  FirstUid <- FirstUidHere
  ClusterOf <- ClusterOfHere
  ManagerOf <- ManagerOfHere
  AppOf <- AppOfHere
  BuiltBy <- BuiltByHere
  KindOf <- KindOfHere
  BuiltLabels <- GoodLabels
  OverrideOf <- NoOverrides
  DryRun = {}
  Forbidden = {}
  ForeignNames = {}
  Environment = {"edit", "operation", "recreate", "external", "fault", "crash"}
  MaxDisturbances = 2
  MaxUid = 6
PROPERTY Converges
