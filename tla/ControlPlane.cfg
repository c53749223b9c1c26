CONSTANTS
    a1 = a1
    a2 = a2
    Artifacts = {a1, a2}
    FirstArtifact = a1
    MaxMain = 2
    MaxDeploys = 2
    MaxDrifts = 1
    MaxCallFaults = 1
    MaxPolls = 1
    BundleFiles = {"toml", "run"}
    Selected = "toml"
    Bytes <- SomeBytes
    Repository <- SomeCommits
    MaxEdits = 2
    MaxExports = 1
    Clients = {"x", "y"}
    LoginThreads = {"t1", "t2"}
    Window = 4
    Block = 3
    MaxPerIp = 2
    MaxGlobal = 3
    Stall = 1
    LastSecond = 3
    MaxLogins = 5
    f1 = f1
    f2 = f2
    f3 = f3
    FileRequests = {f1, f2, f3}
    FilePaths = {"p", "q"}
    OldPath = "p"
    NoInode = NoInode
    Directory = Directory
    Original = Original
    MaxBlocks = 2
    Repairs = {1, 2, 3}
    Plugins = {"u", "v"}
    Cached = {"u"}
    ApiTokens = {"t"}
    OpsThreads = {1, 2}
    Ttl = 2
    Build = 1
    LastTick = 4
    MaxAsks = 2
    Identifiers = {"u", "v"}
    PluginIds = {"P", "Q"}
    Needed = "P"
    NoPlugin = NoPlugin
    Unreachable = Unreachable
    Stateful = {"u"}
    Logs <- SomeLogs
    MaxBindings = 2
    MaxContainers = 3
    MaxCrashes = 2
SPECIFICATION Spec
INVARIANTS
    TypeOK
    CommitsAreExact
    DeploysForward
    StepsAreVerified
    AcceptedIsCommitted
    GuessesBounded
    DueIsKept
    UnloadedIsReported
    TokensOnce
    SectionsAreFresh
    PersistenceAgrees
    DispatchSound
    ServesWhatItWasGiven
PROPERTIES
    DeployEnds
    VerdictNotCached
    RepliesEnd
CHECK_DEADLOCK FALSE
