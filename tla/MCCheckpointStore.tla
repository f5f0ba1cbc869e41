-------------------------- MODULE MCCheckpointStore --------------------------
(* Small instances of CheckpointStore for TLC. *)
EXTENDS CheckpointStore, TLC

Processes == Permutations(Procs)

=============================================================================
