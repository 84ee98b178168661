-------------------------- MODULE MCImplicitProducer --------------------------
(***************************************************************************)
(* Instances of ImplicitProducer for TLC.                                  *)
(***************************************************************************)
EXTENDS ImplicitProducer, TLC

ASSUME WindowsAssumption == WindowsFit

Symmetry == Permutations(Consumers) \cup Permutations(Blocks)

===============================================================================
