---------------------------- MODULE MCEventLoop ----------------------------
(* Two fibres, alike but for their names, that share one descriptor number *)
(* in both directions, its reuse, and the signals.                         *)
EXTENDS EventLoop, TLC

Symmetry == Permutations(Fibres)
=============================================================================
