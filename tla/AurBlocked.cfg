\* A commit is approved, then blocked, then installed.
SPECIFICATION Spec
CONSTANTS
  Bases = {a}
  MaxCommit = 1
  Blockable = {1}
  Contents = {s1}
  Runs = {r1}
  Procs = {p}
  Commands = {"approve", "build", "install"}
  DenyMode = TRUE
  RecoverAlone = TRUE
  None = None
INVARIANTS
  BlockedIsNotBuilt
