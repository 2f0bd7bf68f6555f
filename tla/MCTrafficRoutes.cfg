\* The traffic part of MCOperator alone: two processes, two routes of two
\* domains or of one.
SPECIFICATION TrafficOnly
CONSTANTS
  p1 = p1
  p2 = p2
  c1 = c1
  c2 = c2
  t1 = t1
  t2 = t2
  k1 = k1
  ShipProcesses = {p1, p2}
  Templates = {"github-provisioning"}
  PolicyFiles <- MCPolicyFiles
  MaxCommands = 3
  MaxKills = 1
  Clients = {c1, c2}
  Targets = {t1, t2}
  Keys = {k1}
  MaxJobs = 3
  MaxDeaths = 1
  NoGraph = NoGraph
  Unreadable = Unreadable
  NoPolicy = NoPolicy
  NoEnvironment = NoEnvironment
  NoKey = NoKey
  NoToken = NoToken
  Corrupt = Corrupt
  Calls <- MCCalls
  MaxDisturbances = 1
  MaxFaults = 2
  m1 = m1
  m2 = m2
  Movers = {m1, m2}
  Domains = {"a", "b"}
  Origins = {"old", "new"}
  Standing <- MCStanding
  Manifests <- TwoRoutes
  Commands <- MCCommands
  Configs <- MCConfigs
  Environment = "production"
  TrafficPolicy <- MCTrafficPolicy
  MaxApplies = 2
  MaxRollbacks = 1
  MaxEdits = 1
  Absent = Absent
  NoConfig = NoConfig
  NoMutation = NoMutation
INVARIANTS
  RollbackRestoresAll
\* Two applies and one rollback: behaviours end.
CHECK_DEADLOCK FALSE
