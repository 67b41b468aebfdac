\* The verdicts of one gate on commits that are reviewed again and again.
CONSTANTS
    MaxVersion = 2
    MaxLists = 3
    Signers = {s1, s2}
    Repackager = repackager
    Documents <- SomeDocuments
    MinAge = 1
    Floor = 0
    MaxTime = 1
    Channels = {"stable"}
    MaxIndex = 3
    MaxBlocks = 1
    Runs = {g}
    Maintainers = {alice, bob}
    Trusted = {alice}
    Recent = {TRUE, FALSE}
    MaxCommits = 2
    MaxVerdicts = 3
    Contents = {c1, c2}
    Keys = {build, other}
    BuildKeys = {build}
    MaxStatements = 0
    MaxLog = 0
CHECK_DEADLOCK FALSE
SPECIFICATION Spec
PROPERTIES
  CurrentVerdictIsLast
