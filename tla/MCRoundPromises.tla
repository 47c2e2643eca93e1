-------------------------- MODULE MCRoundPromises --------------------------
(* Three fibres, alike but for their names, and room in the table for all  *)
(* of them: with two behind the one that ends, and the table full.         *)
EXTENDS RoundPromises, TLC

Symmetry == Permutations(Fibres)
=============================================================================
