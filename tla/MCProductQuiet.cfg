CONSTANTS
  o1 = o1
  b1 = b1
  d1 = d1
  w1 = w1
  w2 = w2
  r0 = r0
  r1 = r1
  Operations <- MCOperations
  Releases <- MCReleases
  Backups <- MCBackups
  Drills <- MCDrills
  Releasers <- MCReleasers
  Keepers <- MCKeepers
  Workers <- MCWorkers
  Owners <- MCWorkers
  Revisions <- MCRevisions
  OwnerOf <- MCOwnerOf
  RevisionOf <- MCRevisionOf
  BackupOf <- MCBackupOf
  BackupFirst <- NoneFirst
  Faults <- ProductFaults
  MaxToken = 4
  Replicas = 2
  MaxMishaps = 1
  NoOwner = NoOwner
  NoOperation = NoOperation
  NoRevision = NoRevision
  NoWorker = NoWorker
  NoPlan = NoPlan
  NoBackup = NoBackup
SPECIFICATION UpgradeSpec
CHECK_DEADLOCK FALSE
INVARIANTS
  BackupsAreQuiet
