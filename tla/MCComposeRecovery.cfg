CONSTANTS
  o1 = o1
  o2 = o2
  w1 = w1
  w2 = w2
  r0 = r0
  r1 = r1
  r2 = r2
  Operations <- MCOneOperation
  Workers <- MCWorkers
  Owners <- MCWorkers
  Revisions <- MCTwoRevisions
  OwnerOf <- MCOwnerOf
  RevisionOf <- MCRevisionOf
  Faults <- EveryFault
  MaxToken = 3
  Strategy = "recreate"
  HasCron = FALSE
  HasMigration = TRUE
  NoOwner = NoOwner
  NoOperation = NoOperation
  NoRevision = NoRevision
  NoWorker = NoWorker
SPECIFICATION RecoverySpec
INVARIANTS
  MigrationsRunOnce
  
PROPERTIES
  EveryOperationEnds
