\* Two phases, a descendant beside makepkg, with and without a cgroup; two
\* clients of a document that is signed twice.
CONSTANTS
  Leader = leader
  Others = {k1}
  MaxPhases = 2
  WallLimit = 2
  Budget = 1
  MaxDisk = 2
  Clients = {c1, c2}
  MaxDocs = 2
  Other = other
SPECIFICATION ProgressSpec
INVARIANTS
  NothingOutlivesPhase
  SuccessIsWithinBudget
  RollbackIsRefused
PROPERTIES
  PhaseEnds
  JoinedOrphansDie
  NewestIsUsed
CHECK_DEADLOCK FALSE
