SPECIFICATION Spec
CONSTANTS
  c1 = c1 c2 = c2 a = a b = b d = d
  sts = sts cma = cma cmb = cmb cmd = cmd svc = svc other = other
  m1 = m1 m2 = m2 app = app app2 = app2
  NoOne = NoOne MissingLabel = MissingLabel Overwritten = app2
  Clusters = {c1}
  Reconcilers = {a}
  Resources = {cma}
  Managers = {m1, m2}
  Apps = {app, app2}
  Asked = {cma}
  FirstUid <- FirstUidHere
  ClusterOf <- ClusterOfHere
  ManagerOf <- ManagerOfHere
  AppOf <- AppOfHere
  BuiltBy <- BuiltByHere
  KindOf <- KindOfHere
  BuiltLabels <- GoodLabels
  OverrideOf <- NoOverrides
  DryRun = {}
  Forbidden = {}
  ForeignNames = {cma}
  Environment = {"edit", "external", "foreign"}
  MaxDisturbances = 4
  MaxUid = 8
INVARIANT OrphansStillOwn
