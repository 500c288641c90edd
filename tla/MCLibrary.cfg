CONSTANTS
  g1 = g1 g2 = g2 INFO = INFO WARN = WARN None = None Null = Null
  Containers = {1, 2}
  Loggers = {1, 2, 3}
  ROOT = 1
  Levels = {INFO, WARN}
  ConfigMaps = {"cm", "not a name"}
  BadConfigMaps = {"not a name"}
  GroupNames = {g1, g2}
  Specs <- SpecsHere
  Arguments = {"a", "b", "c"}
  OperatorArgs <- ArgsHere
  FileKeys = {"x", "y", "z"}
  FileValues = {1, 2, 3, 4, 5, 6, 7, 8, Null}
  EnvNames = {0, 1, 2, 3, 4, 5}
  OperatorFile <- FileHere
  OperatorEnv <- EnvHere
  Matches <- MatchesHere
  InvalidPatterns = {"("}
  InvalidEnvNames = {0}
  MaxRecursionDepth = 2
  Panic = Panic
  Declarations <- MCDeclarations
  Reviews <- MCReviews
  ConvertFns <- MCConvertFns
  TypeValues <- MCTypeValues
  MaxEdits = 2
  MaxConversions = 3
  MemoryTexts <- MCMemoryTexts
  Factors <- MCFactors
  CpuMillis <- MCCpuMillis
  CpuTexts <- MCCpuTexts
  DurationTexts <- MCDurationTexts
  DurationMillis <- MCDurationMillis
  MaxMillis = 1000000000
  MaxValue = 2000000000
  RequirementQuantities <- MCRequirementQuantities
  NamePanic = NamePanic
  LabelMax = 9
  SubdomainMax = 12
  ClusterNameMax = 3
  ProductNameMax = 7
  QualifiedMax = 7
  RevisionDigits = 1
  UidLength = 6
  HashLength = 2
  KeyHashLength = 3
  Headless <- MCHeadless
  Metrics <- MCHeadless
  ServiceAccountSuffix <- MCSuffix
  RoleBindingSuffix <- MCSuffix
  ClusterRoleSuffix <- MCSuffix
  OperatorSuffix <- MCOperatorSuffix
  ParseTexts <- MCParseTexts
  KeyTexts <- MCKeyTexts
  KeyPrefixes <- MCKeyPrefixes
  ProductNames <- MCProductNames
  ClusterNames <- MCClusterNames
  RoleNames <- MCRoleNames
  RoleGroupNames <- MCRoleGroupNames
  Images <- MCImages
  ImageNames <- MCImageNames
  Repositories <- MCRepositories
  Operators <- MCOperators
  LabelInputs <- MCLabelInputs
  Selectors <- MCSelectors
  LabelMaps <- MCLabelMaps
  Owners <- MCOwners
  MetaCalls <- MCMetaCalls
  MaxMetaCalls = 3
  Tracings = {t1, t2}
  TelemetryOptions <- MCTelemetryOptions
  BuilderCalls <- MCBuilderCalls
  Requests = {r1, r2}
  Workers = {w1}
  TraceHeaders = {None, "invalid", "t1"}
  Environment <- MCEnvironment
  RequestHosts <- MCRequestHosts
  PodCalls <- MCPodCalls
  ContainerCalls <- MCContainerCalls
  SecurityCalls <- MCSecurityCalls
  ProbeCalls <- MCProbeCalls
  SecretCalls <- MCSecretCalls
  EnvVarCalls <- MCEnvVarCalls
  InvalidEnvVars = {"A=B"}
  Pods <- MCPods
  MaxI32 = 33554431
  MaxI64 = 1000000000
  MaxCalls = 3
  LogConfigs <- MCLogConfigs
  LogSizes <- MCLogSizes
  Overshoot = 100
  Services <- MCServices
  Databases <- MCDatabases
  Resources <- MCResources
  ContainerCount = 2
  MaxConnections = 2
  GitSyncs <- MCGitSyncs
  ExtraMounts <- MCExtraMounts
  ExtraEnvVars <- MCExtraEnvVars
  Outcomes <- MCOutcomes
  NoteLimits <- MCNoteLimits
  MetricBodies <- MCMetricBodies
INIT LibraryInit
NEXT LibraryNext
CHECK_DEADLOCK FALSE
INVARIANTS
  TightestLayerWins GenerationsAgree ReferencesComeFirst
  ExpansionIsSound ConversionsKeepValues ReviewsAreAllOrNothing
  QuantitiesAreExact DurationsRoundTrip NamesAreUsable TelemetryIsOwn BuiltAsCalled
  LogsArriveAsConfigured ConnectionsAreComplete GitSyncIsComplete ReportsAreComplete
