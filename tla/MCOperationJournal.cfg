CONSTANTS
  o1 = o1
  o2 = o2
  w1 = w1
  s1 = s1
  Operations <- MCOperations
  Owners <- MCOwners
  Scopes <- MCScopes
  ScopeOf <- MCScopeOf
  KeyOf <- MCKeyOf
  ClientStates <- MCClientStates
  ClientEvents <- MCClientEvents
  ClientOutcomes <- MCClientOutcomes
  Deadline <- MCDeadline
  Ttl = 1
  MaxClock = 1
  MaxToken = 4
  MaxEvents = 2
  NoOwner = NoOwner
  NoOperation = NoOperation
SPECIFICATION MCSpec
INVARIANTS
  FencedHistory
  SuccessChain
  JournalReopens
PROPERTIES
  LedgerSteps
