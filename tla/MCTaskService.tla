--------------------------- MODULE MCTaskService ----------------------------
(* Instances of TaskService for TLC. *)
EXTENDS TaskService, TLC

\* Handler threads, and objects not yet allocated, are interchangeable.
Symmetry == Permutations(Threads) \cup Permutations(Objs)

=============================================================================
