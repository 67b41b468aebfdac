------------------------------- MODULE MCHost -------------------------------
(* Small instances of Host for TLC. *)
EXTENDS Host, TLC

\* Lists, packages, versions and processes are interchangeable; snapshots and
\* journal ids are ordered.
Symmetric ==
    Permutations(UserLists) \cup Permutations(Pkgs) \cup Permutations(Versions)
        \cup Permutations(Procs)
=============================================================================
