\* Two updaters, two releases, four packages.
CONSTANTS
    Root = root
    Users = {alice}
    MaxRelease = 2
    HoldChoices <- NoHolds
    TrustChoices <- SomeTrust
    Packages = {"app", "lib", "tool", "plugin"}
    Requested = "app"
    MaxNeeds = 3
    MaxAurDepth = 3
    Declarable = {"app", "lib"}
    Editors = {e}
    MaxRank = 1
    Grantees = {p}
    MaxSegments = 2
    MaxSeparator = 1
    MaxValue = 2
    Repositories = {"core", "custom"}
    FileLevels = {"LocalFileSigLevel"}
    LevelTokens <- SomeTokens
    MaxLines = 5
    MaxIncludeDepth = 2
CHECK_DEADLOCK FALSE
SPECIFICATION Spec
INVARIANTS
  UpdatesExclude
  LedgerAgrees
  PostHooksRun
  BuildsAreComplete
  OwedIsDeclared
  FloorHolds
  LevelsAreLastWords
  StagingChecksTheSame
  VersionsAreOrdered
PROPERTIES
  EvidenceIsKept
