\* One command at a time, any of which may die or fail at any step.
SPECIFICATION HostSpec
CONSTANTS
  Pkgs = {x}
  Versions = {v1, v2}
  Repos = {r}
  Snapshots = {}
  MaxTransactions = 2
  MaxSeq = 2
  Procs = {p1}
  Absent = Absent
  NoEntry = NoEntry
  NoSnapshot = NoSnapshot
  Nobody = Nobody
  Elevates = FALSE
  Reasons = TRUE
  Pinners = {q}
  UserLists = {l1, l2}
  MaxNumber = 2
  MaxMishaps = 2
  EditsOverBackup = FALSE
  None = None
  Operators = {op}
  MaxSnapshots = 2
  MaxClock = 1
  MaxKills = 1
  Soak = 1
  Retain = 0
  StableRetain = 1
  Gone = Gone
  Nowhere = Nowhere
  Unreadable = Unreadable
  Never = Never
SYMMETRY Symmetric
INVARIANTS
  TypeOK
  DifferencesAreJournaled
  UserListIsKept
  TargetsAreKept
  ManifestSaysFirst
PROPERTIES
  SequencesNeverGoBack
  ExplicitIsKept
  RollbackIsAllOrNothing
  MovesAreOneWay
  StableIsKeptLonger
