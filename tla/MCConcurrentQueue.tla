-------------------------- MODULE MCConcurrentQueue --------------------------
(***************************************************************************)
(* Instances of ConcurrentQueue for TLC.                                   *)
(***************************************************************************)
EXTENDS ConcurrentQueue, TLC

\* All threads collide.
MCHashOf == [e \in Enqueuers |-> 0]

Symmetry == Permutations(Enqueuers) \cup Permutations(Tokens) \cup Permutations(Consumers)

==============================================================================
