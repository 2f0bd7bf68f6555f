CONSTANTS
  o1 = o1
  o2 = o2
  w1 = w1
  w2 = w2
  r0 = r0
  r1 = r1
  r2 = r2
  Operations <- MCOperations
  Workers <- MCWorkers
  Owners <- MCWorkers
  Revisions <- MCRevisions
  OwnerOf <- MCOwnerOf
  RevisionOf <- MCRevisionOf
  Faults <- OvertakeFaults
  MaxToken = 3
  Strategy = "blue_green"
  HasCron = FALSE
  HasMigration = FALSE
  NoOwner = NoOwner
  NoOperation = NoOperation
  NoRevision = NoRevision
  NoWorker = NoWorker
SPECIFICATION DeploySpec
SYMMETRY MCSymmetry
INVARIANTS
  NoEffectAfterReceipt
  ServesTheJournal
