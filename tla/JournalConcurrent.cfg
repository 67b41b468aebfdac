\* Two processes, elevated records, one package.
SPECIFICATION HostSpec
CONSTANTS
  Pkgs = {x}
  Versions = {v1}
  Repos = {}
  Snapshots = {}
  MaxTransactions = 2
  MaxSeq = 0
  Procs = {p1, p2}
  Absent = Absent
  NoEntry = NoEntry
  NoSnapshot = NoSnapshot
  Nobody = Nobody
  Elevates = TRUE
  Reasons = FALSE
  Pinners = {}
  UserLists = {l1, l2}
  MaxNumber = 1
  MaxMishaps = 0
  EditsOverBackup = FALSE
  None = None
  Operators = {op}
  MaxSnapshots = 0
  MaxClock = 0
  MaxKills = 0
  Soak = 1
  Retain = 0
  StableRetain = 1
  Gone = Gone
  Nowhere = Nowhere
  Unreadable = Unreadable
  Never = Never
SYMMETRY Symmetric
INVARIANTS
  WriteAhead
  EvidenceIsCertified
PROPERTIES
  ImplementsRecordedFact
  JournalLeavesWithItsPatch
