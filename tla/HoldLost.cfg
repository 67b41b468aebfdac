\* Two processes: one tests a snapshot, the other holds it.
SPECIFICATION StoreSpec
CONSTANTS
  Operators = {p1, p2}
  MaxSnapshots = 1
  MaxClock = 1
  MaxKills = 0
  Soak = 1
  Retain = 0
  StableRetain = 1
  Gone = Gone
  Nowhere = Nowhere
  Unreadable = Unreadable
  Never = Never
SYMMETRY Symmetric
PROPERTY HoldIsKept
