-------------------------------- MODULE Sums --------------------------------
(***************************************************************************)
(* The sum of the values of a function, as the number of the units they    *)
(* consist of.                                                             *)
(***************************************************************************)
EXTENDS Integers, FiniteSets

\* The value of f at i, at most max, is the units <<i, 1>>, <<i, 2>>, ...
Units(f, S, max) == {x \in S \X (1 .. max) : x[2] <= f[x[1]]}

\* The sum of f over S, where its values are in 0 .. max.
Total(f, S, max) == Cardinality(Units(f, S, max))

==============================================================================
