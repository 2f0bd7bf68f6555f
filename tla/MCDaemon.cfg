\* Two crashes of the agent; three crashes of the daemon or interruptions of
\* the host; two claims of a run.
SPECIFICATION Spec
CONSTANTS
  v0 = v0
  v1 = v1
  v2 = v2
  r1 = r1
  r2 = r2
  w1 = w1
  w2 = w2
  KindOf <- MCKindOf
  Batch = 2
  AgentFaults = {"crash", "lost", "withdraw", "refuse"}
  MaxCrashes = 2
  Upgrades = {1, 2}
  TargetOf <- MCTargetOf
  Installed = v0
  Good = {v0, v2}
  UpgradeFaults = {"crash", "power"}
  MaxFaults = 3
  NoMarker = NoMarker
  NoRelease = NoRelease
  Runs = {r1, r2}
  Workers = {w1, w2}
  Policies = {"forbid", "replace"}
  RunFaults = {"crash", "stall", "cancel", "half_start"}
  MaxToken = 2
  NoWorker = NoWorker
  NoRun = NoRun
INVARIANTS
  NoResultIsLost
  AgentReopens
  
  
PROPERTIES
  EveryCommandCloses
  HostRecovers
  
\* The upgrades end, and so do the runs.
CHECK_DEADLOCK FALSE
