----------------------------- MODULE MCProgress -----------------------------
(* Small instances of Progress for TLC.  No symmetry: the properties are    *)
(* about liveness.                                                          *)
EXTENDS Progress
=============================================================================
