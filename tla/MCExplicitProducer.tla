-------------------------- MODULE MCExplicitProducer --------------------------
(***************************************************************************)
(* Instances of ExplicitProducer for TLC.                                  *)
(***************************************************************************)
EXTENDS ExplicitProducer, TLC

ASSUME WindowsAssumption == WindowsFit

Symmetry == Permutations(Consumers) \cup Permutations(Blocks)

===============================================================================
