\* Two manifests at a time; a host with three receipt files and two journal
\* rows, one of them damaged at most.
SPECIFICATION Spec
CONSTANTS
  Identifiers <- MCIdentifiers
  Domains <- MCDomains
  Paths <- MCPaths
  Urls <- MCUrls
  EnvNames = {"K", "PORT"}
  Sources = {"f"}
  AskKeys <- MCAskKeys
  Labels <- MCLabels
  Documents <- MCDocuments
  PinnedImages <- MCPinned
  Trees <- MCTrees
  SecretRefs <- MCRefs
  Headers = {"X-Ophelia-Proxy-Authorization", "X-Ophelia-Client-Certificate-Sha256"}
  Crons = {"* * * * *"}
  Instants <- MCInstants
  Commits = {"c0ffee"}
  Quantities <- MCQuantities
  Cpus = {"1.0"}
  Volumes <- MCVolumes
  SupportFiles <- MCSupport
  DevicePaths = {"/dev/x"}
  Capabilities = {"ALL", "NET"}
  MigrationNames <- MCMigrationNames
  ImageNames <- MCImageNames
  NameOrder <- MCNameOrder
  MaxUser = 65536
  DeclaredDocuments <- MCDeclared
  ProviderFiles <- MCProviders
  ValueFacts <- MCFacts
  Letters <- MCLetters
  Dollars <- MCDollars
  TreeParts <- MCTreeParts
  Places <- MCPlaces
  Drafts <- MCDrafts
  Terminals <- MCTerminals
  Foreign <- MCForeign
  Links <- MCLinks
  Queries <- MCQueries
  Operations = {"deploy.apply", "rollback.apply"}
  IdOrder <- MCIdOrder
  MaxDamage = 1
INVARIANTS
  BundlesAreWhole
  NoConflictMeansRoom
  RevisionIsWhole
  ReferencesResolveTruly
\* A document is read once, and a command answered once: behaviours end.
CHECK_DEADLOCK FALSE
