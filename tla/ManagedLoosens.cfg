\* One reviewer and one package, and managed files one after the other.
CONSTANTS
    Root = root
    Users = {}
    MaxRelease = 2
    HoldChoices <- NoHolds
    TrustChoices <- SomeTrust
    Packages = {"app"}
    Requested = "app"
    MaxNeeds = 0
    MaxAurDepth = 1
    Declarable = {"app"}
    Editors = {e}
    MaxRank = 1
    Grantees = {p}
    MaxSegments = 1
    MaxSeparator = 0
    MaxValue = 1
    Repositories = {"core"}
    FileLevels = {}
    LevelTokens = {}
    MaxLines = 0
    MaxIncludeDepth = 0
CHECK_DEADLOCK FALSE
SPECIFICATION Spec
INVARIANT ManagedOnlyTightens
