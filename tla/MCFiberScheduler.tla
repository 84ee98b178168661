-------------------------- MODULE MCFiberScheduler --------------------------
(***************************************************************************)
(* Instances of FiberScheduler for TLC.  Workers, fibers and the tasks     *)
(* that play the same role are interchangeable.                            *)
(***************************************************************************)
EXTENDS FiberScheduler, TLC

LeafTasks == Tasks \ (Spawners \cup Terminators)

TaskSymmetry ==
  Permutations(Workers) \cup Permutations(Spawners) \cup Permutations(LeafTasks)

Symmetry == TaskSymmetry \cup Permutations(Fibers)

=============================================================================
