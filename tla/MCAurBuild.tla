---------------------------- MODULE MCAurBuild -----------------------------
(* Small instances of AurBuild for TLC. *)
EXTENDS AurBuild, TLC

\* All but commits are interchangeable.
Symmetric ==
    Permutations(Procs) \cup Permutations(Runs) \cup Permutations(Bases)
        \cup Permutations(Contents)

=============================================================================
