SPECIFICATION Spec
CONSTANTS
  None = None
  MaxStreams = 2
  MaxData = 1
  MaxWaiting = 1
  MaxLives = 2
  MaxWindows = 2
  AccessTokens = {"t1", "t2"}
  MaxRequests = 2
  MaxSessions = 1
  MaxAttempts = 1
  MaxVersions = 2
  Keys = {1, 2}
  MaxValue = 2
  Window = 2
  MaxBytes = 5
  MaxFrames = 3
  MaxSaid = 4
  w1 = w1
  w2 = w2
  Workloads = {w1, w2}
  MaxSeries = 1
  Retention = 1
  MaxTime = 2
  LogTargets = {"a", "b"}
  MaxChecks = 2
  MaxVersion = 2
  MaxClip = 2
  ReplayPods = {"pod"}
  ReplayMeasured = {"pod"}
  CatalogKeys = {"k1", "k2"}
  MaxReleases = 2
  MaxChanges = 2
  HostNames = {"h1"}
  Daemons = {"e1", "e2"}
  n1 = n1
  n2 = n2
  GraphNodes = {n1, n2}
  Streaming = {n1}
  MaxLoads = 2
  MaxQueries = 2
  MaxMessages = 1
  Torn = Torn
  ConfigVersions = {{"a"}, {"b"}}
  ConfigValues = {1}
  SecretNames = {"s", "t"}
  CipherKeys = {"k"}
  MaxStoreOps = 2
  MaxEvents = 1
  MaxPort = 1
  MaxSignals = 2
  MaxManagerOps = 2
  MaxPolls = 1
  MaxConnectionOps = 1
  MaxToggles = 1
  Slots = {1, 2}
  MaxTimers = 1
  MaxOutside = 1
  MaxGateEvents = 3
  Nil = Nil
  GateReader = "r"
  HookUrls = {"u", "v"}
  HookSelections = {1, 2}
  PanelValues = {1, 2}
  PanelSources = {"a", "b"}
  MaxEndpoints = 2
  MaxProbes = 1
  MaxListChanges = 2
  MaxProcesses = 2
  EndpointIds = {"e", "f", "g"}
  EndpointUrls = {"u", "v", "w"}
  MaxClusterChanges = 1
  MaxNodeActions = 1
  ReplayNodes <- MCReplayNodes
  ReplayListings <- MCReplayListings
  ReplayFiles <- MCReplayFiles
  Links <- Depend
  ProjectOf <- OneProject
  HostOf <- TwoHosts
  ComparedGraphs <- MCComparedGraphs
  FlatIds <- MCFlatIds
  FlatGroups <- MCFlatGroups
  FlatGraphs <- MCFlatGraphs
  FlatFilters <- MCFlatFilters
  ClusterObjects <- MCClusterObjects
  ClusterStates <- MCClusterStates
  RefusedKinds <- MCRefusedKinds
INVARIANT TypesOK
INVARIANT EndsCleanly
INVARIANT AlertsAreTrue
INVARIANT AccessEndsWithToken
INVARIANT PluginsSurvive
INVARIANT StorageSurvives
INVARIANT HistoryIsKept
INVARIANT InstalledIsTrusted
INVARIANT ActsAsAgreed
INVARIANT ReachesItsOwner
INVARIANT TabIsConsistent
INVARIANT ShowsItsNode
INVARIANT ViewIsOfData
PROPERTY NothingUnasked
CHECK_DEADLOCK FALSE
