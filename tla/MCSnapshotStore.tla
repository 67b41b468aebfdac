-------------------------- MODULE MCSnapshotStore ---------------------------
(* Small instances of SnapshotStore for TLC. *)
EXTENDS SnapshotStore, TLC

Symmetric == Permutations(Operators)

=============================================================================
