\* Reviews, builds, installations, rebuilds and prunes by two processes.
SPECIFICATION Spec
CONSTANTS
  Bases = {a}
  MaxCommit = 2
  Blockable = {1}
  Contents = {s1, s2}
  Runs = {r1, r2}
  Procs = {p, q}
  Commands = {"update", "rebuild", "recover", "prune"}
  DenyMode = FALSE
  RecoverAlone = TRUE
  None = None
SYMMETRY Symmetric
INVARIANTS
  ReferredRunsExist
  OnlyApprovedIsBuilt
  ReplayIsFaithful
