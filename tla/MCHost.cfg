\* The data of an app: one process exports, resets, backs up, verifies,
\* drills and cuts over one volume, with an export, a reset, a backup, two
\* other pieces of evidence and one change or kill.  Two operations and two
\* owners compete for one scope, with any clock sample and three tokens.
SPECIFICATION Spec
CONSTANTS
    Releases = {1, 2, 4}
    Production = {1, 2}
    Static = {1, 4}
    Placeholders = {1}
    Support <- MCSupport
    PlanIds = {p, q}
    NoPlanId = NoPlanId
    Keep = 1
    Attempts = 2
    MaxCommands = 2
    Standing = {0, 1}
    Work = {w1}
    Paths = {1, 2}
    BackupIds = {b1}
    Makers = {"cli"}
    MaxMishaps = 2
    Nobody = Nobody
    Sources = {s1, s2}
    HostIds = {h1, h2}
    LocalHost = h1
    MaxExchanges = 3
    MaxSetupCrashes = 2
    Missing = Missing
    Crews <- MCCrews
    Contents = {c1, c2}
    Actors = {"operator"}
    MaxStagings = 2
    MaxPlanMishaps = 1
    None = None
    Packers = {"ship"}
    Volumes = {"d"}
    Catalogs <- MCCatalogs
    StoredAtFirst <- MCStored
    Asked = "production"
    EnvFiles <- MCEnvFiles
    MaxExports = 1
    MaxResets = 1
    MaxBackups = 1
    MaxEvidence = 2
    MaxChanges = 1
    NoPlace = NoPlace
    Unnamed = Unnamed
    NoManifest = NoManifest
    NoRelease = NoRelease
    NoPlanShown = NoPlanShown
    Operations = {o1, o2}
    Owners = {x1, x2}
    Scopes = {sc}
    ScopeOf <- MCScopeOf
    Ttl = 2
    MaxClock = 3
    MaxToken = 3
    NoOwner = NoOwner
    NoOperation = NoOperation
SYMMETRY Symmetry
INVARIANTS
    
    
    RestoredHostIsSound
    HostStartsWhole
    
    
    NewerTokenWins
PROPERTIES
    
    ImplementsScopeLease
CHECK_DEADLOCK FALSE
