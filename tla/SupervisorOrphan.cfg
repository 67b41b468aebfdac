\* The supervisor is killed while the helper joins its cgroup.
SPECIFICATION Spec
CONSTANTS
  Leader = leader
  Others = {}
  MaxPhases = 1
  WallLimit = 1
  Budget = 1
  MaxDisk = 1
PROPERTIES
  GroupIsRemoved
CHECK_DEADLOCK FALSE
