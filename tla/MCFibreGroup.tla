---------------------------- MODULE MCFibreGroup ----------------------------
(* A group of two stacks whose first task makes a group of its own.        *)
EXTENDS FibreGroup, TLC

CONSTANTS f1, f2, f3, home, outer, inner, bad, worse

MCStacksOf == outer :> <<f1, f2>> @@ inner :> <<f3>>
MCReasons  == f1 :> {bad} @@ f2 :> {worse} @@ f3 :> {bad}
MCOwner    == outer :> home @@ inner :> f1
=============================================================================
