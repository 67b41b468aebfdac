\* Releases, publications and merges, with a death between any two writes.
CONSTANTS
    MaxVersion = 2
    MaxLists = 3
    Signers = {s1, s2}
    Repackager = repackager
    Documents <- SomeDocuments
    MinAge = 1
    Floor = 0
    MaxTime = 2
    Channels = {"stable"}
    MaxIndex = 2
    MaxBlocks = 1
    Runs = {g}
    Maintainers = {alice, bob}
    Trusted = {alice}
    Recent = {TRUE}
    MaxCommits = 2
    MaxVerdicts = 2
    Contents = {c1, c2}
    Keys = {build, other}
    BuildKeys = {build}
    MaxStatements = 2
    MaxLog = 4
CHECK_DEADLOCK FALSE
SYMMETRY Symmetric
SPECIFICATION Spec
INVARIANTS
  MergedRecipeIsSeeded
  EvidenceIsJudgedRight
PROPERTIES
  NoSilentDowngrade
  ListsAreNotReplayed
  PublishedIsImmutable
  MergesWerePassed
