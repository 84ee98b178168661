----------------------------- MODULE MCBlockPool -----------------------------
(***************************************************************************)
(* Instances of BlockPool for TLC.  Threads are interchangeable; blocks    *)
(* are numbers, since the pool hands them out by index.                    *)
(***************************************************************************)
EXTENDS BlockPool, TLC

Symmetry == Permutations(Threads)

==============================================================================
