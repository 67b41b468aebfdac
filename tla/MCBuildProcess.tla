--------------------------- MODULE MCBuildProcess ---------------------------
(* Small instances of BuildProcess for TLC.  No symmetry: the properties    *)
(* are about liveness.                                                      *)
EXTENDS BuildProcess
=============================================================================
